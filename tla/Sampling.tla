------------------------------ MODULE Sampling ------------------------------
(***************************************************************************)
(* The two judges of Generation, given the same samples by any caller: a    *)
(* monitor and an adapter that begin with one baseline.                     *)
(***************************************************************************)
EXTENDS Generation

CONSTANTS
    Texts, Baselines,   \* the texts samples show, and those a judge begins with
    MaxSamples

\* Nothing is no time, and no text with a button.
SamplingAssumption ==
    Required \in Nat \ {0} /\ Lease \in Nat /\ None \notin Nat /\ None \notin Texts \X BOOLEAN

VARIABLES monitor, adapter, seen

vars == <<monitor, adapter, seen>>

\* What may be wrong with a sample: a failure shows, the page is another application's,
\* the observation is not fresh.
Flaws == {"none", "failed", "elsewhere", "stale"}

Clock == IF seen = <<>> THEN 0 ELSE seen[Len(seen)].at

Init ==
    /\ seen = <<>>
    /\ \E t \in Baselines, b \in BOOLEAN :
          monitor = NewMonitor(t) /\ adapter = AdapterBegin(NewAdapter, [text |-> t, ours |-> b])

Observe(t, active, flaw) ==
    LET s == [text |-> t, active |-> active, at |-> Clock + 1,
              failed |-> flaw = "failed", ours |-> flaw # "elsewhere", fresh |-> flaw # "stale"]
    IN  /\ Len(seen) < MaxSamples /\ adapter.state # "cancelled"
        /\ seen' = Append(seen, s)
        /\ monitor' = MonitorStep(monitor, s)
        /\ adapter' = AdapterStep(adapter, s)

Cancel ==
    /\ seen # <<>> /\ adapter.begun
    /\ \E verified \in BOOLEAN : adapter' = AdapterCancel(adapter, verified)
    /\ UNCHANGED <<monitor, seen>>

Next == (\E t \in Texts, active \in BOOLEAN, flaw \in Flaws : Observe(t, active, flaw)) \/ Cancel

Spec == Init /\ [][Next]_vars
-----------------------------------------------------------------------------
Undisturbed == \A i \in DOMAIN seen : seen[i].ours /\ ~seen[i].failed

\* The monitor says completed and stalled exactly when the samples amount to it, stale ones
\* among them; and what it calls completed the adapter calls completed too, while the page
\* is the application's, no failure shows and nobody cancels.
JudgedAsSampled ==
    /\ seen # <<>> => monitor.status = Judgement(monitor.baseline, seen)
    /\ (monitor.status = "completed" /\ Required > 1 /\ adapter.begun /\ Undisturbed)
          => adapter.state \in {"completed", "cancelled", "observation_unavailable"}
=============================================================================
