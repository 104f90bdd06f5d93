----------------------------- MODULE Generation -----------------------------
(***************************************************************************)
(* When is a generated answer complete?  Two judges of the same samples of  *)
(* a page: ProgressBasedGenerationMonitor (runtime/generation_monitor.py),  *)
(* which tells completion from a stall, and the application adapters of     *)
(* runtime/application_lifecycle.py.  Both are folded over samples, one     *)
(* step per call; the reference definitions read the whole history.         *)
(*                                                                          *)
(* A sample: the visible text, whether a stop button or a failure label is  *)
(* visible, whether the page is the application's, whether the observation  *)
(* is fresh, and when it was captured.                                      *)
(***************************************************************************)
EXTENDS Integers, Sequences

CONSTANTS
    Blank,      \* the empty text
    Lease,      \* no_progress_lease_ms, in units of the clock
    Required,   \* stable_observations_required
    None

\* The monitor's constructor refuses less than one observation.
ASSUME GenerationAssumption == Required \in Nat \ {0}

NewMonitor(baseline) ==
    [baseline |-> baseline, signature |-> None, text |-> Blank, progress |-> None, stable |-> 0, status |-> "observing"]

Signature(s) == <<s.text, s.active>>

\* Mutant: a sample counts as stable although generation is still active.
StableWhileActive(m, s) == s.fresh /\ s.text # m.baseline /\ s.text = m.text

SameIdleText(m, s) == s.fresh /\ s.text # m.baseline /\ s.text = m.text /\ ~s.active

\* observe: progress is a signature other than that of the last fresh sample.
MonitorStep(m, s) ==
    LET moved    == m.signature # None /\ m.signature # Signature(s)
        progress == IF s.fresh /\ (m.progress = None \/ moved) THEN s.at ELSE m.progress
        stable   == IF SameIdleText(m, s) THEN m.stable + 1 ELSE 0
        idle     == IF progress = None THEN 0 ELSE s.at - progress
    IN  [m EXCEPT
            !.signature = IF s.fresh THEN Signature(s) ELSE @,
            !.text      = IF s.fresh THEN s.text ELSE @,
            !.progress  = progress,
            !.stable    = stable,
            !.status    = IF stable >= Required THEN "completed"
                          ELSE IF s.fresh /\ s.active /\ idle >= Lease THEN "generation_stalled"
                          ELSE "observing"]
-----------------------------------------------------------------------------
NewAdapter == [begun |-> FALSE, baseline |-> None, last |-> None, inactive |-> None, stable |-> 0, state |-> "idle"]

\* begin: on a page of the application the text becomes the baseline.
AdapterBegin(a, s) ==
    IF ~s.ours THEN [a EXCEPT !.state = "observation_unavailable"]
    ELSE [begun |-> TRUE, baseline |-> s.text, last |-> s.text, inactive |-> None, stable |-> 0, state |-> "pending"]

\* observe: a failure label outranks a stop button, which outranks the text.
AdapterStep(a, s) ==
    IF ~s.fresh \/ ~a.begun \/ ~s.ours THEN [a EXCEPT !.state = "observation_unavailable"]
    ELSE IF s.failed THEN [a EXCEPT !.last = s.text, !.state = "failed"]
    ELSE IF s.active \/ s.text = a.baseline
         THEN [a EXCEPT !.last = s.text, !.inactive = None, !.stable = 0,
                        !.state = IF ~s.active THEN "pending"
                                  ELSE IF s.text # a.last THEN "active" ELSE "visually_stable"]
    ELSE LET stable == IF s.text = a.inactive THEN a.stable + 1 ELSE 1
         IN  [a EXCEPT !.last = s.text, !.inactive = s.text, !.stable = stable,
                       !.state = IF stable >= 2 THEN "completed" ELSE "visually_stable"]

\* record_cancellation: the evidence is the verified dispatch, nothing is remembered.
AdapterCancel(a, verified) ==
    [a EXCEPT !.state = IF verified THEN "cancelled" ELSE "observation_unavailable"]
-----------------------------------------------------------------------------
(* The reference: what a sequence of samples amounts to. *)

Freshes(h) == {i \in 1..Len(h) : h[i].fresh}

\* The text a fresh sample is compared with: that of the fresh sample before it.
TextBefore(h, i) ==
    LET earlier == {j \in Freshes(h) : j < i}
    IN  IF earlier = {} THEN Blank ELSE h[CHOOSE j \in earlier : \A k \in earlier : k <= j].text

\* The last Required samples are fresh, idle, and show one text, not the baseline,
\* which the fresh sample before them showed too.
Settled(baseline, h) ==
    /\ Len(h) >= Required
    /\ \A i \in (Len(h) - Required + 1)..Len(h) :
          h[i].fresh /\ ~h[i].active /\ h[i].text = h[Len(h)].text /\ h[i].text # baseline
    /\ TextBefore(h, Len(h) - Required + 1) = h[Len(h)].text

\* Fresh samples as long as the lease ago, and none since showed anything else.
Stuck(h) ==
    LET n == Len(h) IN
    /\ n > 0 /\ h[n].fresh /\ h[n].active
    /\ \E i \in Freshes(h) :
          /\ h[n].at - h[i].at >= Lease
          /\ \A j \in Freshes(h) : j >= i => Signature(h[j]) = Signature(h[n])

Judgement(baseline, h) ==
    IF Settled(baseline, h) THEN "completed" ELSE IF Stuck(h) THEN "generation_stalled" ELSE "observing"
=============================================================================
