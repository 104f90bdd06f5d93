---------------------------- MODULE MCContinuity ----------------------------
(***************************************************************************)
(* A small instance of Continuity with all of its events, each followed as  *)
(* far as it matters: three owners that close orderly; or two, one of which *)
(* is closed under a mutation of its own; or two that acquire a generation  *)
(* again.  A journal may be unreadable in each of them.                     *)
(***************************************************************************)
EXTENDS Continuity, TLC

VARIABLE course     \* which of the three a behaviour is

MCSymmetry == Permutations(Owner) \cup Permutations(Command) \cup Permutations(Generation)

MCInit == Init /\ course \in {"orderly", "closing", "again"}

Begun(o, stream) == op[o] = NoOp /\ op'[o].at = stream

\* close waits for the mutations of its process, and they begin none after it.
ClosesOrderly ==
    \A o \in Owner :
        /\ proc[o] = "open" /\ proc'[o] = "releasing" => op[o] = NoOp /\ rec[o] = NoRec
        /\ proc[o] = "releasing" => op'[o] = NoOp /\ mem'[o] = mem[o]

\* Every generation is acquired once, and there are few records of bindings.
BindsOnce ==
    \A o \in Owner : Begun(o, "bindings") =>
        /\ Len(binds) < (IF course = "orderly" THEN 2 ELSE 1)
        /\ op'[o].record.kind = "acquired" => Bound("acquired", op'[o].record.gen) = {}

\* A behaviour is followed up to the append that spoils a journal: nothing is said of
\* the journals after it.
MCNext ==
    /\ Next /\ ~spoiled /\ UNCHANGED course
    /\ course # "orderly" => Cardinality({o \in Owner : proc'[o] # "none"}) <= 2
    /\ course # "closing" => ClosesOrderly
    /\ course # "again" => BindsOnce

MCSpec == MCInit /\ [][MCNext]_<<vars, course>>
=============================================================================
