----------------------------- MODULE Execution ------------------------------
(***************************************************************************)
(* One execution plan: runtime/plan_executor.py, the operation executor     *)
(* runtime/executor.py and the dispatch of backends/playwright_backend.py.  *)
(*                                                                          *)
(* An operation is checked against the page, then its guard is chosen, its  *)
(* target found and prepared, its action sent, and its expectations read    *)
(* until they all pass or time is up.  Every reading is a step of its own:  *)
(* the page, its network traffic, its video and the clock move between any  *)
(* two of them.  Deadlines are kept as the time left until them.            *)
(***************************************************************************)
EXTENDS Verdicts

CONSTANTS
    Plans,      \* the plans a host may pass
    Fact,       \* what locators and URLs of the plans can tell of the page
    Req,        \* network requests the page can make that match an expectation
    Page,       \* page identifiers
    Element,    \* what the plans' locators can find, in the order of the document
    Fits,       \* the elements that also are visible and enabled, where that is asked
    MaxChanges, \* how often the page changes by itself
    LocateTime, VerifyTime, WaitTime, Margin

ASSUME ExecutionAssumption ==
    /\ "url" \in Fact /\ Fact \cap NetFacts = {} /\ None \notin Fact
    /\ Page \cup Element \subseteq Nat \ {0} /\ 1 \in Page /\ Fits \subseteq Element
    /\ {MaxChanges, LocateTime, VerifyTime, WaitTime, Margin} \subseteq Nat

\* What a host's plan is made of.
Maybe(S)    == S \cup {None}
Expectation == Fact \cup NetFacts
Branch      == [when : Seq(Expectation), does : Seq(Targeted)]
Quorum      == [policy : {"all", "n_of_m"}, checks : SUBSET Nat, required : Nat]
Operation   ==
    [kind : Targeted \cup Untargeted, pre : Maybe(Seq(Fact)), branches : Seq(Branch), otherwise : Maybe(Seq(Targeted)),
     absent : Maybe(Seq(Expectation)), frame : Maybe(Fact), constrained : BOOLEAN, bound : Maybe(Element),
     overlay : Maybe(Fact), state : Maybe(Fact), until : Maybe(Fact \cup {"video"}),
     dialog : {"optional", "required", "forbidden"},
     pages : {"same_page", "expect_and_switch", "expect_and_keep", "allow_and_switch", "allow"}, page : Page \cup {0},
     expects : Seq(Expectation), quorum : Maybe(Quorum), webauthn : BOOLEAN, redacted : BOOLEAN]
Plan        == [operations : Seq(Operation), initial : Maybe(Nat), maximum : Maybe(Nat), adaptive : BOOLEAN]

ASSUME PlansAssumption == Plans \subseteq Plan

VARIABLES
    page, target, net, video,   \* the browser: facts, elements the locator finds, requests, media
    pages, active,              \* pages[p]: its state and its opener
    plan, i, pc, st,            \* the host: the plan, the operation, its place, its locals
    clock,                      \* time left to the plan's deadline and ceiling and to the running one
    steps, result,              \* verdicts of the attempted steps; the plan's outcome
    changes, acts, held         \* bound and history; see Remember

browser == <<page, target, net, video, changes>>
tabs    == <<pages, active>>
vars    == <<browser, tabs, plan, i, pc, st, clock, steps, result, acts, held>>

Value == {"yes", "no", "many", "blank"}
Stamp == {"no", "before", "after"}
Fresh == [results |-> <<>>, branches |-> <<>>, url |-> "no", todo |-> <<>>, picked |-> {}, started |-> FALSE,
          place |-> 0, skip |-> FALSE, ok |-> FALSE, waited |-> "no", passkey |-> "none", net |-> net]

\* What the plan looks at: the rest of the browser does not matter to it.
Watched ==
    UNION {LET o == plan.operations[k] IN
           {"url", o.until, o.frame, o.overlay, IF o.kind \in Targeted THEN "target" ELSE None} \cup ToSet(o.expects)
             \cup (IF o.pre = None THEN {} ELSE ToSet(o.pre)) \cup (IF o.absent = None THEN {} ELSE ToSet(o.absent))
             \cup UNION {ToSet(o.branches[b].when) : b \in DOMAIN o.branches} : k \in DOMAIN plan.operations}

Init ==
    /\ plan \in Plans /\ i = 0 /\ pc = "validate" /\ steps = <<>> /\ result = None
    /\ page = [f \in Fact |-> IF f = "url" THEN "blank" ELSE "no"] /\ target = {}
    /\ net = [r \in Req |-> [asked |-> "no", answered |-> "no"]]
    /\ \E loops \in IF "video" \in Watched THEN BOOLEAN ELSE {FALSE} : video = [left |-> 2, length |-> 2, paused |-> TRUE, loops |-> loops]
    /\ pages = [p \in Page |-> [state |-> IF p = 1 THEN "open" ELSE "none", opener |-> 0]] /\ active = 1
    /\ clock = [left |-> plan.initial, ceiling |-> plan.maximum, wait |-> 0]
    /\ st = Fresh /\ changes = 0 /\ acts = 0 /\ held = {}

Op         == plan.operations[i]
Kind       == IF st.todo # <<>> THEN Head(st.todo) ELSE Op.kind
Expects    == IF st.skip THEN Op.absent ELSE Op.expects
Shown      == {f \in Fact : page[f] = "yes"}
InAction   == pc \notin {"validate", "start", "between", "ended"}
-----------------------------------------------------------------------------
(* The page and the clock, at any time.                                     *)
(* held: the facts that held at some moment since the operation began, once *)
(* its expectations are read, since the last round of readings began.       *)

Remember(p) == held' = held \cup {f \in Fact : p[f] = "yes"}

PageChanges ==
    /\ pc # "ended" /\ changes < MaxChanges /\ changes' = changes + 1
    /\ \/ \E f \in Fact \cap Watched, v \in {"yes", "no", "many"} :
            /\ page[f] # v /\ (f = "url" => v # "many") /\ page' = [page EXCEPT ![f] = v]
            /\ UNCHANGED <<target, video>>
       \/ \E els \in SUBSET Element : els # target /\ "target" \in Watched /\ target' = els /\ UNCHANGED <<page, video>>
       \/ "video" \in Watched /\ video' = [video EXCEPT !.paused = ~@] /\ UNCHANGED <<page, target>>
    /\ Remember(page') /\ UNCHANGED <<net, tabs, plan, i, pc, st, clock, steps, result, acts>>

NetworkMoves ==
    /\ InAction /\ Watched \cap NetFacts # {}
    /\ \E r \in Req, now \in {IF st.started THEN "after" ELSE "before"} :
         \/ net[r].asked = "no" /\ net' = [net EXCEPT ![r].asked = now]
         \/ net[r].asked # "no" /\ net[r].answered = "no" /\ net' = [net EXCEPT ![r].answered = now]
    /\ UNCHANGED <<page, target, video, changes, tabs, plan, i, pc, st, clock, steps, result, acts, held>>

Less(n) == IF n = None THEN None ELSE Greatest(n - 1, 0)
Tick ==
    /\ InAction /\ clock' = [k \in DOMAIN clock |-> Less(clock[k])]
    /\ video' = IF video.paused THEN video
                ELSE [video EXCEPT !.left = IF @ <= 1 /\ video.loops THEN video.length ELSE Less(@)]
    /\ clock' # clock
    /\ UNCHANGED <<page, target, net, changes, tabs, plan, i, pc, st, steps, result, acts, held>>
-----------------------------------------------------------------------------
(* The plan. *)

Goes(place) == pc' = place /\ UNCHANGED <<plan, i, steps, result>>
Sets(next)  == st' = next
Quiet       == UNCHANGED <<browser, tabs, clock, acts, held>>

Ends(verdicts) ==
    /\ pc' = "ended" /\ steps' = verdicts /\ Sets(Fresh)
    /\ result' = AggregatePlanOutcome(verdicts, Len(plan.operations)) /\ UNCHANGED <<plan, i>>

\* The receipt of the running operation: it ends the plan unless it is VERIFIED.
Receipt(verdict) ==
    LET verdicts == Append(steps, verdict) IN
    IF verdict \in STOPPING_VERDICTS \/ i = Len(plan.operations) THEN Ends(verdicts)
    ELSE pc' = "between" /\ steps' = verdicts /\ Sets(Fresh) /\ UNCHANGED <<plan, i, result>>

Validates ==
    /\ pc = "validate" /\ Quiet
    /\ IF ValidPlan(plan) THEN Goes("start") /\ UNCHANGED st ELSE Ends(<<>>)

BackendStarts ==
    /\ pc = "start" /\ Quiet
    /\ \/ Goes("between") /\ UNCHANGED st
       \/ Ends(<<>>)

\* The next operation: what the network showed so far is from before its action.
OperationBegins ==
    /\ pc = "between" /\ i' = i + 1 /\ pc' = "precondition"
    /\ net' = [r \in Req |-> [asked    |-> IF net[r].asked = "no" THEN "no" ELSE "before",
                              answered |-> IF net[r].answered = "no" THEN "no" ELSE "before"]]
    /\ Sets([Fresh EXCEPT !.url = page["url"]]) /\ held' = Shown
    /\ UNCHANGED <<page, target, video, changes, tabs, plan, clock, steps, result, acts>>

\* Whatever raises inside an operation is a failed step; an action may be out already.
Raises ==
    /\ InAction /\ Quiet /\ Receipt("execution_failed")
-----------------------------------------------------------------------------
(* Readings.  An element's state is one snapshot, taken of the only match. *)

Snapshot(f) == page[f]
Read(f)     == ReadingOf(Snapshot(f))
-----------------------------------------------------------------------------
(* Preconditions, the plan's deadline, the first observation. *)

\* A document is loaded, with or without the target in it.
Loads(url) ==
    /\ page' = [page EXCEPT !["url"] = url]
    /\ target' \in IF "target" \in Watched THEN {{}} \cup {{e} : e \in Element} ELSE {target}

\* The legacy precondition: a blank page is sent to the declared URL first.
LegacyPrecondition ==
    /\ pc = "precondition" /\ Op.kind # "navigate" /\ Op.pre = None /\ UNCHANGED <<tabs, clock, acts, changes, net, video>>
    /\ \E v \in IF page["url"] = "blank" THEN {"yes", "no"} ELSE {page["url"]} :
         /\ IF page["url"] = "blank" THEN Loads(v) ELSE UNCHANGED <<page, target>>
         /\ Remember(page')
         /\ IF v = "yes" THEN Goes("deadline") /\ UNCHANGED st ELSE Receipt("execution_failed")

\* Conditions on the URL are judged by the one reading the evaluation began with.
ConditionRead(f) == IF f = "url" THEN ReadingOf(st.url) ELSE Read(f)

\* Declared conditions are all read, in order.
PreconditionReads ==
    /\ pc = "precondition" /\ Op.kind # "navigate" /\ Op.pre # None /\ Quiet
    /\ LET read == Append(st.results, ConditionRead(Op.pre[Len(st.results) + 1]))
       IN  IF Len(read) < Len(Op.pre) THEN Sets([st EXCEPT !.results = read]) /\ UNCHANGED <<plan, i, pc, steps, result>>
           ELSE IF AllConditions(read) = "pass" THEN Goes("deadline") /\ Sets([st EXCEPT !.results = <<>>])
           ELSE Receipt("execution_failed")

NavigateHasNone ==
    /\ pc = "precondition" /\ Op.kind = "navigate" /\ Quiet /\ Goes("deadline") /\ UNCHANGED st

\* The plan's deadline is looked at here and not again before the action.
DeadlineChecked ==
    /\ pc = "deadline" /\ Quiet
    /\ IF clock.left = 0 THEN Receipt("not_verified") ELSE Goes("observe") /\ UNCHANGED st

Observes ==
    /\ pc = "observe" /\ Quiet /\ Sets([st EXCEPT !.net = net])
    /\ Goes(IF Op.branches # <<>> THEN "guard" ELSE IF Op.absent # None THEN "probe" ELSE "dispatch")
-----------------------------------------------------------------------------
(* Guards. *)

\* One condition of one branch after the other.  Network conditions are judged on the
\* first observation, which is older than the moment they are dated from.
GuardReads ==
    /\ pc = "guard" /\ Quiet
    /\ LET b    == Len(st.branches) + 1
           f    == Op.branches[b].when[Len(st.results) + 1]
           read == Append(st.results, IF f \in NetFacts THEN "fail" ELSE Read(f))
           next == IF Len(read) < Len(Op.branches[b].when) THEN [st EXCEPT !.results = read]
                   ELSE [st EXCEPT !.results = <<>>, !.branches = Append(@, read)]
       IN  Sets(next) /\ Goes(IF Len(next.branches) = Len(Op.branches) THEN "choose" ELSE "guard")

OnlyOne(matched) == Cardinality(matched) = 1

GuardChooses ==
    LET matched   == Matched(st.branches)
        chosen(s) == Sets([st EXCEPT !.todo = s, !.picked = matched]) /\ Goes("dispatch")
    IN  /\ pc = "choose" /\ Quiet
        /\ IF Doubtful(st.branches) THEN Receipt("indeterminate")
           ELSE IF OnlyOne(matched) THEN chosen(Op.branches[CHOOSE b \in matched : TRUE].does)
           ELSE IF matched # {} THEN Receipt("indeterminate")
           ELSE IF Op.otherwise # None THEN chosen(Op.otherwise) ELSE Receipt("not_verified")

\* A hop of the frame path: one element, which is a frame and still gives its document.
Hop(f)     == page[f] = "yes"
FrameFound == IF Op.frame = None THEN TRUE ELSE Hop(Op.frame)

\* What a resolution in the declared frame leaves: the elements that satisfy every constraint.
Constrained(els) == els \cap Fits
Candidates == IF Op.constrained THEN Constrained(target) ELSE target
Unique     == Cardinality(Candidates) = 1
Resolved   == FrameFound /\ Unique

\* The legacy guard: a target that is cleanly absent skips the action and puts other
\* expectations in place of the operation's.
GuardProbes ==
    /\ pc = "probe" /\ Quiet
    /\ CASE Resolved -> Goes("dispatch") /\ UNCHANGED st
         [] FrameFound /\ Candidates = {} -> Goes("settled") /\ Sets([st EXCEPT !.skip = TRUE, !.ok = TRUE, !.started = TRUE])
         [] OTHER                         -> Receipt("execution_failed")
-----------------------------------------------------------------------------
(* Dispatch, of a branch action or of the operation's own. *)

Dispatched(ok) == Sets([st EXCEPT !.ok = ok]) /\ Goes("dialogs")

DispatchBegins ==
    /\ pc = "dispatch" /\ Sets([st EXCEPT !.started = st.todo = <<>>])
    /\ clock' = [clock EXCEPT !.wait = Capped(IF Kind = "wait_for" THEN WaitTime ELSE LocateTime, clock.left)]
    /\ Goes(CASE Kind = "wait_for" -> "wait" [] Kind \in PageActions -> "manage" [] Kind \in Targeted -> "locate" [] OTHER -> "act")
    /\ UNCHANGED <<browser, tabs, acts, held>>

\* A missing target is looked for until the time is up.  Visibility and enabledness are
\* left for later: a target without them is found, and so are several.
Locates ==
    /\ pc = "locate" /\ Quiet
    /\ LET missing == IF FrameFound THEN target = {} ELSE page[Op.frame] = "no"
       IN  \/ ~missing /\ Goes("prepare") /\ UNCHANGED st
           \/ missing /\ clock.wait = 0 /\ Dispatched(FALSE)

\* A declared overlay that is there is clicked away, if it lets itself.
Prepares ==
    /\ pc = "prepare" /\ UNCHANGED <<tabs, clock, acts, target, net, video, changes>>
    /\ CASE Op.overlay = None \/ page[Op.overlay] = "no" -> Goes("resolve") /\ UNCHANGED <<st, page>>
         [] OTHER -> \/ page[Op.overlay] = "yes" /\ page' = [page EXCEPT ![Op.overlay] = "no"] /\ Goes("resolve") /\ UNCHANGED st
                     \/ UNCHANGED page /\ Dispatched(FALSE)
    /\ Remember(page')

\* Mutant: the identity of a prepared target is not compared.
AnyNode(e) == TRUE

PreparedNode(e) == Op.bound = None \/ e = Op.bound

\* Exactly one candidate, and the prepared one where the operation is bound to it, lets
\* the action through.  An unbound constrained target is kept as its place in the list,
\* a bound one as the element itself.
Resolves ==
    /\ pc = "resolve" /\ Quiet
    /\ \/ /\ Resolved /\ \A e \in Candidates : PreparedNode(e)
          /\ LET e == CHOOSE e \in Candidates : TRUE
             IN  Sets([st EXCEPT !.place = IF Op.bound # None THEN e ELSE Cardinality({x \in target : x <= e})])
          /\ Goes("act")
       \/ Dispatched(FALSE)

\* An action reaches the page, which may take it or not.
Performs(takes) ==
    /\ acts' = acts + 1
    /\ page' = IF takes /\ st.todo = <<>> /\ Op.state # None THEN [page EXCEPT ![Op.state] = "yes"] ELSE page
    /\ Remember(page') /\ UNCHANGED <<target, net, video, changes, clock>>

\* What the browser finds as it acts: the bound element while it is there, the element
\* that is now at the resolved place, or the only match of an unconstrained locator.
Struck ==
    {e \in target : /\ IF Op.frame = None THEN TRUE ELSE page[Op.frame] # "no"
                    /\ IF Op.bound # None THEN e = st.place
                       ELSE IF Op.constrained THEN Cardinality({x \in target : x <= e}) = st.place
                       ELSE target = {e}}
Strikes == pc = "act" /\ (Kind \in Targeted => Struck # {})

\* The target went away between its resolution and the action.
TargetLost ==
    /\ pc = "act" /\ ~Strikes /\ Quiet /\ Dispatched(FALSE)

\* Nothing is read back: the action is done when the browser does not complain, and a
\* complaint may come after the effect.
Sends(kinds) ==
    /\ Strikes /\ Kind \in kinds /\ UNCHANGED tabs
    /\ \E takes, complains \in BOOLEAN : Performs(takes) /\ Dispatched(~complains)

\* The wrong kind of control, or a point outside the viewport, is refused before.
Refuses(kinds) == Strikes /\ Kind \in kinds /\ Quiet /\ Dispatched(FALSE)

\* A control that has its state already is left alone.
HasItsState == Op.state # None /\ page[Op.state] = "yes"
LeftAlone(kinds) == Strikes /\ Kind \in kinds /\ HasItsState /\ Quiet /\ Dispatched(TRUE)

PlainActs      == Sends({"fill", "press_key", "hover", "download"})
PressesPageKey == Sends({"page_key"})
\* The pointer goes to a point of the viewport, or to one of an element that has a box.
MovesPointer(kind) == Sends({kind}) \/ Refuses({kind})
AimsAtViewport     == MovesPointer("viewport_pointer")
AimsAtElement      == MovesPointer("pointer_move")

SelectsOption  == Sends({"select_option"}) \/ Refuses({"select_option"})
ChecksControl  == LeftAlone({"set_checked"}) \/ Refuses({"set_checked"}) \/ (Strikes /\ ~HasItsState /\ Sends({"set_checked"}))
ScrollsTo      == LeftAlone({"scroll_to_target"}) \/ (Strikes /\ ~HasItsState /\ Sends({"scroll_to_target"}))

\* The result is looked for on the page: found, it makes up for a complaint of an
\* upload; not found, the action failed although it was sent.
ReadsBack(kind) ==
    /\ Strikes /\ Kind = kind /\ UNCHANGED tabs
    /\ \/ Quiet /\ Dispatched(FALSE)                \* refused before it is sent
       \/ \E takes \in BOOLEAN : Performs(takes) /\ Dispatched(takes)

UploadsFile     == ReadsBack("upload_file")
SelectsCombobox == ReadsBack("combobox")

Navigates ==
    /\ Strikes /\ Kind = "navigate" /\ acts' = acts + 1
    /\ \E v \in {"yes", "no"}, ok \in BOOLEAN : Loads(v) /\ Dispatched(ok)
    /\ Remember(page') /\ UNCHANGED <<net, video, changes, tabs, clock>>
-----------------------------------------------------------------------------
(* Clicks that open pages, and the page registry. *)

Unused == {p \in Page : pages[p].state = "none"}
Opened(new, fate) == [p \in Page |-> IF p \notin new THEN pages[p]
                                    ELSE [state |-> IF fate = "closed" THEN "closed" ELSE "open", opener |-> active]]

\* The number of new pages the policy allows.
Allows(policy, n) ==
    CASE policy = "same_page" -> n = 0
      [] policy \in {"expect_and_switch", "expect_and_keep"} -> n = 1
      [] OTHER -> TRUE

\* The first new page is verified: it is what was expected, is not, or is gone again.
Found(new) == IF new = {} THEN {"fine"} ELSE {"fine", "wrong", "closed"}

Clicks ==
    /\ Strikes /\ Kind = "click"
    /\ \E takes \in BOOLEAN, new \in SUBSET Unused : \E fate \in Found(new) :
         LET ok == Allows(Op.pages, Cardinality(new)) /\ fate = "fine" IN
         /\ Cardinality(new) <= 2 /\ \A p \in new, q \in Unused \ new : p < q
         /\ Performs(takes) /\ pages' = Opened(new, fate) /\ Dispatched(ok)
         /\ active' = IF ok /\ new # {} /\ Op.pages \in {"expect_and_switch", "allow_and_switch"}
                      THEN CHOOSE p \in new : \A q \in new : p <= q ELSE active

ClickFails ==
    /\ Strikes /\ Kind = "click" /\ UNCHANGED tabs
    /\ \E takes \in BOOLEAN : Performs(takes) /\ Dispatched(FALSE)

IsOpen(p) == p \in Page /\ pages[p].state = "open"

ManagesPages ==
    /\ pc = "manage" /\ UNCHANGED <<browser, clock, held>>
    /\ LET p  == IF Kind = "switch_to_opener" THEN pages[active].opener ELSE Op.page
           ok == IF Kind = "close_page" THEN p # active /\ pages[p].state # "none" ELSE IsOpen(p)
       IN  /\ Dispatched(ok) /\ acts' = IF ok THEN acts + 1 ELSE acts
           /\ active' = IF ok /\ Kind # "close_page" THEN p ELSE active
           /\ pages' = IF ok /\ Kind = "close_page" THEN [pages EXCEPT ![p].state = "closed"] ELSE pages
-----------------------------------------------------------------------------
(* Waiting for a condition. *)

Until == IF Op.until = "video" THEN (IF video.left = 0 THEN "yes" ELSE "no") ELSE page[Op.until]

\* The deadlines a poll leaves behind: those of a video are moved to its end.
Moved ==
    IF Op.until = "video" /\ plan.adaptive /\ MayExtend(video)
    THEN LET left == Extended(clock.left, video.left + Margin, clock.ceiling)
         IN  [clock EXCEPT !.left = left, !.wait = Least(Extended(@, video.left + Margin, clock.ceiling), left)]
    ELSE clock

Waits        == pc = "wait" /\ UNCHANGED <<browser, tabs, acts, held>>
Settles(how) == Sets([st EXCEPT !.ok = TRUE, !.waited = how]) /\ Goes("dialogs")
Unmet        == Until \notin {"yes", "many"}
Late         == Moved.left = 0 \/ Moved.wait = 0

WaitMet == Waits /\ Until = "yes" /\ Settles("satisfied") /\ UNCHANGED clock

\* An ambiguous target, or one of the wrong kind, is not waited for.
WaitHopeless == Waits /\ Until = "many" /\ Dispatched(FALSE) /\ UNCHANGED clock

\* Out of time is no failure of the action.
WaitTimesOut == Waits /\ Unmet /\ clock' = Moved /\ Late /\ Settles("timeout")

WaitGoesOn == Waits /\ Unmet /\ clock' = Moved /\ ~Late /\ Moved # clock /\ UNCHANGED <<st, plan, i, pc, steps, result>>

WaitPolls == WaitMet \/ WaitHopeless \/ WaitTimesOut \/ WaitGoesOn
-----------------------------------------------------------------------------
(* After the action: dialogs, the host's passkey transport, the readings. *)

DialogsJudged ==
    /\ pc = "dialogs" /\ Quiet
    /\ \E dialogs \in {"none", "one", "wrong"} :
         LET ok == st.ok /\ DialogsAccepted(Op.dialog, dialogs) IN
         IF st.todo = <<>> THEN Sets([st EXCEPT !.ok = ok]) /\ Goes("settled")
         ELSE IF ok THEN Sets([st EXCEPT !.todo = Tail(@)]) /\ Goes("dispatch")
         ELSE Receipt("execution_failed")

PostObserves ==
    /\ pc = "settled" /\ held' = Shown /\ UNCHANGED <<browser, tabs, acts>>
    /\ clock' = [clock EXCEPT !.wait = Capped(VerifyTime, clock.left)]
    /\ \E answer \in IF st.ok /\ ~st.skip /\ Op.webauthn THEN {"completed", "rejected", "unclear"} ELSE {"none"} :
         Sets([st EXCEPT !.passkey = answer, !.net = net])
    /\ Goes(IF st.ok /\ Expects # <<>> THEN "verify" ELSE "receipt")

VerifyReads ==
    /\ pc = "verify" /\ Len(st.results) < Len(Expects) /\ Quiet
    /\ LET e == Expects[Len(st.results) + 1]
       IN  Sets([st EXCEPT !.results = Append(@, IF e \in NetFacts THEN NetworkMatches(e, st.net) ELSE Read(e))])
    /\ Goes("verify")

\* Mutant: what passed once is not read again.
KeepsPasses(results) == IF results[1] = "pass" THEN <<"pass">> ELSE <<>>

ReadsAnew(results) == <<>>

RoundEnds ==
    /\ pc = "verify" /\ Len(st.results) = Len(Expects) /\ UNCHANGED <<browser, tabs, clock, acts>>
    /\ IF All(st.results, "pass") \/ clock.wait = 0
       THEN Goes("receipt") /\ UNCHANGED <<st, held>>
       ELSE Goes("verify") /\ held' = Shown /\ Sets([st EXCEPT !.results = ReadsAnew(@), !.net = net])

\* A screenshot never raises: it is taken, or fails; redaction may not be honored.
Screenshots == IF Op.redacted THEN {"taken", "failed"} ELSE {"taken"}

\* The receipt; a screenshot that had to be redacted and was not spoils it.
ReceiptBuilt ==
    /\ pc = "receipt" /\ Quiet
    /\ \E shot \in Screenshots : Receipt(IF shot = "taken" THEN FinalVerdict(Op, st, Expects) ELSE "execution_failed")
-----------------------------------------------------------------------------
Checks     == LegacyPrecondition \/ PreconditionReads \/ NavigateHasNone \/ DeadlineChecked \/ Observes
Guards     == GuardReads \/ GuardChooses \/ GuardProbes
Acts       == PlainActs \/ PressesPageKey \/ AimsAtViewport \/ AimsAtElement \/ SelectsOption \/ ChecksControl \/ ScrollsTo \/ UploadsFile
              \/ SelectsCombobox \/ Navigates \/ Clicks \/ ClickFails \/ ManagesPages
Dispatches == DispatchBegins \/ Locates \/ Prepares \/ Resolves \/ TargetLost \/ Acts \/ WaitPolls \/ DialogsJudged
Verifies   == PostObserves \/ VerifyReads \/ RoundEnds \/ ReceiptBuilt
Executes   == Validates \/ BackendStarts \/ OperationBegins \/ Checks \/ Guards \/ Dispatches \/ Verifies

Next == Executes \/ Raises \/ PageChanges \/ NetworkMoves \/ Tick

\* The program runs on and time passes; the page owes nothing.
Spec == Init /\ [][Next]_vars /\ WF_vars(Executes) /\ WF_vars(Tick)
-----------------------------------------------------------------------------
\* The state has its type; a running plan has only VERIFIED steps behind it.
TypeOK ==
    /\ page \in [Fact -> Value] /\ target \subseteq Element /\ net \in [Req -> [asked : Stamp, answered : Stamp]]
    /\ pages \in [Page -> [state : {"none", "open", "closed"}, opener : Page \cup {0}]] /\ active \in Page
    /\ i \in 0..Len(plan.operations) /\ steps \in Seq(Verdict) /\ acts \in Nat
    /\ \A k \in DOMAIN clock : clock[k] \in Nat \cup {None}
    /\ IF pc = "ended" THEN result # None ELSE result = None /\ All(steps, "verified")

\* An action reaches the page only when every step before it was VERIFIED, every
\* declared precondition held at some moment since its operation began, and of the
\* guard's branches at most one, all of whose conditions held at some moment as well:
\* an ambiguous, unreadable or half-read page lets nothing through.
ActsOnlyWhenAllowed ==
    [][acts' # acts =>
         /\ All(steps, "verified") /\ Len(steps) = i - 1
         /\ Op.kind # "navigate" => IF Op.pre = None THEN "url" \in held ELSE ToSet(Op.pre) \subseteq held
         /\ Cardinality(st.picked) <= 1 /\ \A b \in st.picked : ToSet(Op.branches[b].when) \subseteq held]_vars

\* An action that is bound to the element its preparation showed strikes that element or
\* none, whatever the page puts in its place meanwhile.
StrikesPrepared == [][acts' # acts /\ Kind \in Targeted /\ Op.bound # None => Struck = {Op.bound}]_vars

\* Operations whose VERIFIED rests on their expectations alone.
Ordinary(o) == o.kind \notin PageActions /\ o.pages = "same_page" /\ o.quorum = None

\* A receipt that says VERIFIED of an ordinary operation with expectations: each of
\* them held at some moment of one and the same last round of readings, which began
\* after the action, and each network expectation is met by traffic after the action.
VerifiedIsProven ==
    [][(Len(steps') > Len(steps) /\ Last(steps') = "verified" /\ Ordinary(Op)) =>
         \A e \in ToSet(Expects) :
            CASE e = "request"  -> \E r \in Req : net[r].asked = "after"
              [] e = "response" -> \E r \in Req : net[r].answered = "after"
              [] OTHER          -> e \in held]_vars

\* Every plan comes to an end, a wait for a video that stands still included.
PlanEnds == <>(pc = "ended")

\* README.md: VERIFIED means that the action completed and all declared expectations
\* passed with fresh evidence.
VerdictMeaning ==
    [][(Len(steps') > Len(steps) /\ Last(steps') = "verified") =>
         /\ Len(st.results) = Len(Expects) /\ All(st.results, "pass")]_vars
=============================================================================
