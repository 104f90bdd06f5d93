------------------------- MODULE MCBrowserSessions -------------------------
(* Small instances of BrowserSessions. *)
EXTENDS BrowserSessions, TLC

CONSTANTS s1, s2, p1

MCProfileOf == [s \in {s1, s2} |-> p1]
=============================================================================
