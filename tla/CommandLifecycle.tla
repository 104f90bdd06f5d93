-------------------------- MODULE CommandLifecycle --------------------------
(***************************************************************************)
(* What a durable continuity session promises about its commands: each one *)
(* is proposed once, goes forward only, is dispatched at most once and ends *)
(* once, whatever happens to the processes that own the session.            *)
(***************************************************************************)
CONSTANT Command

VARIABLE state      \* state[c]: CommandRecord.state, "none" before it is proposed

Ended == {"verified", "failed", "outcome_unknown", "cancelled"}

States == {"none", "proposed", "authorized", "dispatched"} \cup Ended

\* _COMMAND_TRANSITIONS, with the creation of a command as its first transition.
Transitions ==
    [s \in States |->
        CASE s = "none"       -> {"proposed"}
          [] s = "proposed"   -> {"authorized", "cancelled"}
          [] s = "authorized" -> {"dispatched", "cancelled"}
          [] s = "dispatched" -> {"verified", "failed", "outcome_unknown"}
          [] OTHER            -> {}]

Init == state = [c \in Command |-> "none"]

Move(c) == \E s \in Transitions[state[c]] : state' = [state EXCEPT ![c] = s]

Next == \E c \in Command : Move(c)

Spec == Init /\ [][Next]_state
=============================================================================
