-------------------------- MODULE MCGovernedSession --------------------------
(* Small instances of GovernedSession: one operation that pays (consequential *)
(* and irreversible), one that reads, one behind a branching guard and one    *)
(* behind a target-absent guard.                                              *)
EXTENDS GovernedSession, TLC

CONSTANTS a1, a2, pay, look, branch, skip, click, fill, submit

MCActions == {click, fill, submit}

MCOps == {pay, look, branch, skip}

MCPrimary == [op \in Op |-> CASE op = pay -> submit
                              [] op = look -> click
                              [] op = branch -> submit
                              [] OTHER -> click]

\* Two branches of different length, one of them with an irreversible action.
MCAlternatives ==
    [op \in Op |-> IF op = branch THEN {<<click>>, <<fill, fill>>} ELSE {}]

MCSkip == Op \cap {skip}

MCNoPlan == <<>>

MCSymmetry == Permutations(Agent)

MCPlan == <<look, pay>>
=============================================================================
