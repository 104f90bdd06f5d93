------------------------------ MODULE Verdicts ------------------------------
(***************************************************************************)
(* The decisions of the executor as operators: what a reading of the page   *)
(* or of the network log says of an expectation, which guard branch is      *)
(* chosen, what verdict an operation and a plan get, and how far a playing  *)
(* video may move a deadline.                                               *)
(***************************************************************************)
EXTENDS Integers, Sequences, FiniteSets, SequencesExt

CONSTANTS None, MaxOperations

Result   == {"pass", "fail", "indeterminate"}
Verdict  == {"verified", "not_verified", "indeterminate", "execution_failed"}
NetFacts == {"request", "response"}      \* the expectations on the network log

PageActions == {"switch_to_page", "close_page", "switch_to_opener"}
Targeted    == {"click", "fill", "select_option", "set_checked", "hover", "scroll_to_target", "upload_file",
                "download", "combobox", "press_key", "pointer_move"}
Untargeted  == {"navigate", "wait_for", "page_key", "viewport_pointer"} \cup PageActions
Guardable   == Targeted \ {"download", "press_key", "pointer_move"}
-----------------------------------------------------------------------------
(* Readings.  A locator shows nothing, one thing, or several things. *)

ReadingOf(value) ==
    CASE value = "yes" -> "pass" [] value = "many" -> "indeterminate" [] OTHER -> "fail"

Some(results, r) == \E k \in DOMAIN results : results[k] = r
All(results, r)  == \A k \in DOMAIN results : results[k] = r

PostAction(stamp) == stamp = "after"

\* One record after the action: more than one is ambiguous.  A request expectation is
\* dated by the request, a response expectation by the response.
NetworkMatches(fact, records) ==
    LET post == {r \in DOMAIN records :
                   PostAction(IF fact = "request" THEN records[r].asked ELSE records[r].answered)}
    IN  CASE post = {} -> "fail" [] Cardinality(post) = 1 -> "pass" [] OTHER -> "indeterminate"

\* Mutant: an indeterminate condition does not count.
FailuresOnly(results) == IF Some(results, "fail") THEN "fail" ELSE "pass"

\* The conditions of a page precondition together.
AllConditions(results) ==
    IF Some(results, "indeterminate") THEN "indeterminate"
    ELSE IF Some(results, "fail") THEN "fail" ELSE "pass"

\* The branches of a guard whose conditions all pass: results[b] are those of branch b.
Matched(results) == {b \in DOMAIN results : results[b] # <<>> /\ All(results[b], "pass")}
Doubtful(results) == \E b \in DOMAIN results : Some(results[b], "indeterminate")
-----------------------------------------------------------------------------
(* The verdict of one operation o, from what its execution left in s. *)

\* Page actions, new-page clicks, and a satisfied wait or a download without
\* expectations are verified by the dispatch itself.
VerifiedByDispatch(o, s, expects) ==
    /\ ~s.skip
    /\ \/ o.kind \in PageActions
       \/ o.kind = "click" /\ o.pages # "same_page"
       \/ o.kind = "wait_for" /\ s.waited = "satisfied" /\ expects = <<>>
       \/ o.kind = "download" /\ expects = <<>>

VerdictOfResults(results, expects) ==
    IF expects = <<>> \/ Some(results, "indeterminate") THEN "indeterminate"
    ELSE IF Some(results, "fail") THEN "not_verified"
    ELSE IF results # <<>> THEN "verified" ELSE "indeterminate"

DecideVerdict(o, s, expects) ==
    IF ~s.ok THEN "execution_failed"
    ELSE IF o.kind = "wait_for" /\ s.waited = "timeout" THEN "not_verified"
    ELSE IF VerifiedByDispatch(o, s, expects) THEN "verified"
    ELSE VerdictOfResults(s.results, expects)

\* The answer of the host's passkey transport: its completion is no proof.
WithPasskey(verdict, answer, expects) ==
    CASE answer = "rejected"                      -> "not_verified"
      [] answer = "unclear"                       -> "indeterminate"
      [] answer = "completed" /\ expects = <<>>   -> "indeterminate"
      [] OTHER                                    -> verdict

\* A check is bound by identifier and by kind of evidence.  Expectations without an
\* identifier are named by their place, those of an absent target's branch too.
QuorumVerdict(o, s, expects) ==
    LET q         == o.quorum
        bound(c)  == c \in DOMAIN s.results /\ (o.expects[c] \in NetFacts <=> expects[c] \in NetFacts)
        result(c) == IF bound(c) THEN s.results[c] ELSE "indeterminate"
        passed    == {c \in q.checks : result(c) = "pass"}
        open      == {c \in q.checks : result(c) = "indeterminate"}
        failed    == q.checks \ (passed \cup open)
    IN  CASE Cardinality(passed) >= q.required -> "verified"
          [] q.policy = "all" /\ failed # {}   -> "not_verified"
          [] q.policy = "n_of_m" /\ Cardinality(passed) + Cardinality(open) < q.required -> "not_verified"
          [] OTHER                             -> "indeterminate"

\* The quorum's verdict replaces the one reached before it.
FinalVerdict(o, s, expects) ==
    IF s.ok /\ o.quorum # None THEN QuorumVerdict(o, s, expects)
    ELSE LET v == DecideVerdict(o, s, expects)
         IN  IF s.ok THEN WithPasskey(v, s.passkey, expects) ELSE v

\* A required dialog that stays away, a forbidden one, a second or a different one
\* fails the dispatch, whatever the action did.
DialogsAccepted(requirement, dialogs) ==
    CASE dialogs = "none" -> requirement # "required"
      [] dialogs = "one"  -> requirement # "forbidden"
      [] OTHER            -> FALSE
-----------------------------------------------------------------------------
(* Plans. *)

STOPPING_VERDICTS == Verdict \ {"verified"}

\* The plan's verdict and completion from those of its attempted steps.
AggregatePlanOutcome(verdicts, declared) ==
    LET as(verdict, completion) == [verdict |-> verdict, completion |-> completion]
    IN  IF verdicts = <<>> THEN as("execution_failed", "not_started")
        ELSE IF Len(verdicts) = declared /\ All(verdicts, "verified") THEN as("verified", "completed")
        ELSE IF Last(verdicts) # "verified" THEN as(Last(verdicts), "stopped")
        ELSE as("execution_failed", IF Len(verdicts) = declared THEN "completed" ELSE "stopped")

ValidQuorum(q, expects) ==
    /\ q.checks # {} /\ q.checks \subseteq DOMAIN expects
    /\ IF q.policy = "all" THEN q.required = Cardinality(q.checks) ELSE q.required \in 1..Cardinality(q.checks)

ValidOperation(o) ==
    /\ (o.branches # <<>> \/ o.absent # None) => o.kind \in Guardable
    /\ o.branches # <<>> => o.absent = None /\ \A b \in DOMAIN o.branches :
            o.branches[b].when # <<>> /\ ToSet(o.branches[b].does) \subseteq Guardable \cup {"press_key"}
    /\ o.absent # None => o.absent # <<>>
    /\ o.pages # "same_page" => o.kind = "click"
    /\ o.kind = "navigate" => o.pre = None
    /\ o.pre # None => o.pre # <<>>
    /\ o.quorum # None => ValidQuorum(o.quorum, o.expects)

ValidTiming(p) ==
    /\ p.adaptive => p.initial # None /\ p.maximum # None
    /\ p.maximum # None => p.initial # None /\ p.maximum >= p.initial

ValidPlan(p) ==
    /\ Len(p.operations) \in 1..MaxOperations /\ ValidTiming(p)
    /\ \A k \in DOMAIN p.operations : ValidOperation(p.operations[k])
-----------------------------------------------------------------------------
(* Deadlines, as the time left until them. *)

Least(a, b)    == IF a <= b THEN a ELSE b
Greatest(a, b) == IF a >= b THEN a ELSE b
Capped(n, bound) == IF bound = None THEN n ELSE Least(n, bound)

\* Media that has ended, loops or never started tells nothing about the time it needs.
MayExtend(video) == video.left > 0 /\ ~video.loops /\ ~(video.paused /\ video.left = video.length)

\* Mutant: the plan's ceiling is not looked at.
Unbounded(n, ceiling) == n

UnderCeiling(n, ceiling) == Capped(n, ceiling)

\* What a deadline becomes when the rest of the video and a margin must fit in.
Extended(left, needed, ceiling) == Greatest(left, UnderCeiling(needed, ceiling))
=============================================================================
