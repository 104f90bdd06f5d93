-------------------------- MODULE NetworkEvidence --------------------------
(***************************************************************************)
(* The network log of a browser (the listeners of                           *)
(* backends/playwright_backend.py), what one operation reads of it, the     *)
(* verdict on its network expectation (runtime/verifier.py) and the trace   *)
(* it may keep of it.  The listeners run between any two steps of the       *)
(* operation and the log forgets its oldest records.                        *)
(***************************************************************************)
EXTENDS Naturals, SequencesExt

CONSTANTS
    Request, None,
    Meant,          \* the requests whose URL and method the expectation asks for
    Wants,          \* the expectations an operation may have
    LogLimit,       \* records the log holds
    MaxRecords,     \* records a trace holds
    MaxTime, MaxUnheard

Records == [asked : Nat, answered : Nat \cup {None}, good : BOOLEAN, heard : BOOLEAN]

\* A page makes finitely many requests, 512 records are held and a trace has 128 at most;
\* nothing is no time, word or record.
NetworkAssumption ==
    /\ Meant \subseteq Request /\ IsFiniteSet(Request)
    /\ {LogLimit, MaxRecords} \subseteq Nat /\ 0 < MaxRecords /\ MaxRecords < LogLimit
    /\ \A w \in Wants : ~w.request => w.response = "yes"
    /\ None \notin Nat /\ None \notin Records
    /\ None \notin {"yes", "no", "pass", "fail", "indeterminate"}

VARIABLES
    ms,         \* the host's clock
    real,       \* real[r]: when r was asked and answered, and whether with the wanted status
    log,        \* the requests that have a record, oldest first
    record,     \* record[r]: what the record of r says, or None
    op,         \* the operation: its expectation, window, what it read, verdict and trace;
                \* then and trace.asked are history
    lost        \* history: requests that were asked unheard; whether the log forgot a record

vars == <<ms, real, log, record, op, lost>>

NetworkTypeOK ==
    /\ ms \in 0..MaxTime
    /\ IsInjective(log) /\ ToSet(log) = {r \in Request : record[r] # None} /\ Len(log) <= LogLimit
    /\ \A r \in Request : record[r] # None => record[r] \in Records
    /\ op.verdict \in {None, "pass", "fail", "indeterminate"}

Init ==
    /\ ms = 0 /\ log = <<>> /\ record = [r \in Request |-> None]
    /\ real = [r \in Request |-> [asked |-> None, answered |-> None, good |-> FALSE]]
    /\ \E w \in Wants : op = [at |-> "idle", want |-> w, window |-> 0, start |-> 0, snapshot |-> <<>>,
                              then |-> {}, verdict |-> None, trace |-> None]
    /\ lost = [unheard |-> {}, trimmed |-> FALSE]
-----------------------------------------------------------------------------
(* The browser and the listeners. *)

Tick ==
    /\ ms < MaxTime
    /\ ms' = ms + 1
    /\ UNCHANGED <<real, log, record, op, lost>>

\* A new record is the newest one; the oldest beyond the limit are forgotten, and an answer
\* to them is not connected to them any more.
Appends(r, fields) ==
    LET all  == Append(log, r)
        left == IF Len(all) > LogLimit THEN Tail(all) ELSE all
    IN  /\ log' = left
        /\ record' = [q \in Request |-> IF q = r THEN fields ELSE IF q \in ToSet(left) THEN record[q] ELSE None]
        /\ lost' = [lost EXCEPT !.trimmed = @ \/ left # all]

\* A page asks for something: on_request.
Asks(r) ==
    /\ real[r].asked = None
    /\ real' = [real EXCEPT ![r].asked = ms]
    /\ Appends(r, [asked |-> ms, answered |-> None, good |-> FALSE, heard |-> TRUE])
    /\ UNCHANGED <<ms, op>>

\* The listener was not there yet, or it failed: it must not disturb the action.
AsksUnheard(r) ==
    /\ real[r].asked = None /\ Cardinality(lost.unheard) < MaxUnheard
    /\ real' = [real EXCEPT ![r].asked = ms]
    /\ lost' = [lost EXCEPT !.unheard = @ \cup {r}]
    /\ UNCHANGED <<ms, log, record, op>>

\* The site answers: on_response.  An answer to a request that has no record gets one of its
\* own, marked as not heard.
Answers(r, good) ==
    /\ real[r].asked # None /\ real[r].answered = None
    /\ real' = [real EXCEPT ![r].answered = ms, ![r].good = good]
    /\ IF record[r] # None
       THEN /\ record' = [record EXCEPT ![r].answered = ms, ![r].good = good]
            /\ UNCHANGED <<log, lost>>
       ELSE Appends(r, [asked |-> ms, answered |-> ms, good |-> good, heard |-> FALSE])
    /\ UNCHANGED <<ms, op>>
-----------------------------------------------------------------------------
(* The operation. *)

RecordedAt(c) == IF c.answered # None THEN c.answered ELSE c.asked

Begins ==
    /\ op.at = "idle"
    /\ op' = [op EXCEPT !.at = "begun", !.window = ms]
    /\ UNCHANGED <<ms, real, log, record, lost>>

Dispatches ==
    /\ op.at = "begun"
    /\ op' = [op EXCEPT !.at = "acting", !.start = ms]
    /\ UNCHANGED <<ms, real, log, record, lost>>

\* Whether a response is required follows from what is asked of it.
ResponseRequired(w) ==
    IF w.response # None THEN w.response
    ELSE IF w.status \/ w.elapsed # None THEN "yes" ELSE None

Satisfies(w, c) ==
    /\ w.request => c.heard
    /\ ResponseRequired(w) = "yes" => c.answered # None
    /\ ResponseRequired(w) = "no" => c.answered = None
    /\ w.status => c.good
    /\ w.elapsed # None => c.heard /\ c.answered # None /\ c.answered - c.asked <= w.elapsed

\* Mutant: the time a record is listed under decides whether it is after the action.
EventIsRecording(w, c) == RecordedAt(c)

\* What must not be before the action.
EventAt(w, c) == IF w.request THEN c.asked ELSE c.answered

\* What the pages asked for and the sites answered by now, as the expectation means it
\* (contract/expectation.py): of those after the action, whatever the log has of them.
Fitting ==
    LET w == op.want
        answered(r) == real[r].answered # None
        event(r)    == IF w.request THEN real[r].asked ELSE real[r].answered
    IN  {r \in Meant :
            /\ real[r].asked # None /\ (w.request \/ w.elapsed # None => r \notin lost.unheard)
            /\ w.response = "yes" \/ ~w.request \/ w.status \/ w.elapsed # None => answered(r)
            /\ w.response = "no" => ~answered(r)
            /\ w.status => real[r].good
            /\ w.elapsed # None => real[r].answered - real[r].asked <= w.elapsed
            /\ event(r) >= op.start}

\* A copy of the records of its window, by request.
Observes ==
    /\ op.at = "acting"
    /\ op' = [op EXCEPT !.at = "observed", !.then = Fitting,
                        !.snapshot = [r \in {q \in ToSet(log) : RecordedAt(record[q]) >= op.window} |-> record[r]]]
    /\ UNCHANGED <<ms, real, log, record, lost>>

\* One match is a pass; choosing among several would be healing the evidence.
NetworkMatches(w, seen) ==
    LET matches == {r \in Meant \cap DOMAIN seen : Satisfies(w, seen[r]) /\ EventAt(w, seen[r]) >= op.start} IN
    IF Cardinality(matches) > 1 THEN "indeterminate"
    ELSE IF matches # {} THEN "pass" ELSE "fail"

\* What did not pass is observed again until time is up.
Judges ==
    /\ op.at = "observed"
    /\ LET verdict == NetworkMatches(op.want, op.snapshot) IN
       \/ op' = [op EXCEPT !.at = "judged", !.verdict = verdict, !.snapshot = <<>>]
       \/ verdict # "pass" /\ op' = [op EXCEPT !.at = "acting"]
    /\ UNCHANGED <<ms, real, log, record, lost>>

\* The trace is of the log as it is by then; asked is history: what was asked since the action.
Captures ==
    /\ op.at = "judged"
    /\ LET since == {i \in DOMAIN log : RecordedAt(record[log[i]]) >= op.start}
           last  == {i \in since : Cardinality({j \in since : j >= i}) <= MaxRecords}
       IN  op' = [op EXCEPT !.at = "captured",
                            !.trace = [has |-> {log[i] : i \in last}, truncated |-> Cardinality(since) > MaxRecords,
                                       asked |-> {r \in Request \ lost.unheard : real[r].asked # None /\ real[r].asked >= op.start}]]
    /\ UNCHANGED <<ms, real, log, record, lost>>

\* What happens after the trace matters to nobody, nor does a status that is not asked for.
Statuses == IF op.want.status THEN BOOLEAN ELSE {TRUE}

Next ==
    \/ /\ op.at # "captured"
       /\ \/ Tick
          \/ \E r \in Request : Asks(r) \/ AsksUnheard(r) \/ \E good \in Statuses : Answers(r, good)
    \/ Begins \/ Dispatches \/ Observes \/ Judges \/ Captures

Spec == Init /\ [][Next]_vars
-----------------------------------------------------------------------------
\* A verdict on the network is about what happened after the action (verifier.py: exactly one
\* post-action record): something did happen if it is a pass, nothing else unless the log
\* forgot something, at least two things if it is ambiguous, nothing at all if it is a
\* failure.  A trace that is not marked as truncated has every request heard since the action.
JudgedAsItHappened ==
    /\ op.verdict = "pass" => op.then # {} /\ (lost.trimmed \/ Cardinality(op.then) = 1)
    /\ op.verdict = "indeterminate" => Cardinality(op.then) >= 2
    /\ op.verdict = "fail" => op.then = {} \/ lost.trimmed
    /\ op.trace # None /\ ~op.trace.truncated => op.trace.asked \subseteq op.trace.has
=============================================================================
