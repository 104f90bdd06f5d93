--------------------------- MODULE MCConversation ---------------------------
(* Two processes for Conversation: both may ask for one generation.  A message *)
(* is cut by an Enter, another cannot be typed to its end.                     *)
EXTENDS Conversation, TLC

CONSTANTS m1, m2, p1, p2, g1, g2

MCAsks == (p1 :> {g1}) @@ (p2 :> {g1, g2})
MCKeys == (m1 :> <<"char", "char", "enter", "char">>) @@ (m2 :> <<"char", "bad">>)
=============================================================================
