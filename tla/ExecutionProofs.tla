--------------------------- MODULE ExecutionProofs ---------------------------
(***************************************************************************)
(* Proofs about one execution plan: an action goes out only when allowed,   *)
(* it strikes the element its preparation showed, and a VERIFIED receipt is *)
(* proven by one round of readings after the action.                        *)
(*                                                                          *)
(* All three are action properties of one inductive invariant: where the    *)
(* plan stands, and what the readings taken so far say of the facts that    *)
(* held since the operation began.                                          *)
(***************************************************************************)
EXTENDS Execution, FiniteSetTheorems, TLAPS

Nets   == [Req -> [asked : Stamp, answered : Stamp]]
Places == Nat \cup {Cardinality(S) : S \in SUBSET Element}
Locals == [results : Seq(Result), branches : Seq(Seq(Result)), url : Value, todo : Seq(Targeted),
           picked : SUBSET Nat, started : BOOLEAN, place : Places, skip : BOOLEAN, ok : BOOLEAN,
           waited : {"no", "satisfied", "timeout"}, passkey : {"none", "completed", "rejected", "unclear"},
           net : Nets]

\* The phases of an operation: before its dispatch, during it, and after it.
Before == {"precondition", "deadline", "observe", "guard", "choose", "probe"}
Acting == {"dispatch", "locate", "prepare", "resolve", "act", "manage", "wait", "dialogs"}
After  == {"settled", "verify", "receipt"}

Typed ==
    /\ plan \in Plan /\ page \in [Fact -> Value] /\ target \subseteq Element /\ net \in Nets /\ st \in Locals
    /\ pc \in Before \cup Acting \cup After \cup {"validate", "start", "between", "ended"}
    /\ Shown \subseteq held

\* Where the plan stands: what is behind it is VERIFIED, one receipt for each operation.
OnCourse ==
    /\ steps \in Seq(Verdict) /\ i \in Nat
    /\ pc # "ended" => All(steps, "verified")
    /\ pc \notin {"validate", "ended"} => ValidPlan(plan)
    /\ pc \in {"validate", "start"} => i = 0
    /\ pc \in {"validate", "start", "between"} => Len(steps) = i
    /\ pc = "between" => i < Len(plan.operations)
    /\ InAction => i \in 1..Len(plan.operations) /\ Len(steps) = i - 1

\* What the readings so far say of the conditions they were taken of.
Shows(results, conditions) == \A k \in 1..Len(results) : results[k] = "pass" => conditions[k] \in held

Met(e) ==
    CASE e = "request"  -> \E r \in Req : net[r].asked = "after"
      [] e = "response" -> \E r \in Req : net[r].answered = "after"
      [] OTHER          -> e \in held

PreHeld == Op.kind # "navigate" => IF Op.pre = None THEN "url" \in held ELSE ToSet(Op.pre) \subseteq held

PreconditionInv ==
    /\ pc = "precondition" =>
         /\ st.url = "yes" => "url" \in held
         /\ st.branches = <<>>
         /\ IF Op.kind = "navigate" \/ Op.pre = None THEN st.results = <<>>
            ELSE Len(st.results) < Len(Op.pre) /\ Shows(st.results, Op.pre)
    /\ pc \in (Before \ {"precondition"}) \cup Acting => PreHeld
    /\ pc \in ({"deadline", "observe", "choose", "probe", "settled"} \cup Acting) => st.results = <<>>

BranchesRead ==
    /\ Len(st.branches) <= Len(Op.branches)
    /\ \A b \in 1..Len(st.branches) : /\ Len(st.branches[b]) = Len(Op.branches[b].when)
                                      /\ Shows(st.branches[b], Op.branches[b].when)
GuardInv ==
    /\ pc \in {"deadline", "observe"} => st.branches = <<>>
    /\ pc = "guard" => /\ Len(st.branches) < Len(Op.branches)
                       /\ Len(st.results) < Len(Op.branches[Len(st.branches) + 1].when)
                       /\ Shows(st.results, Op.branches[Len(st.branches) + 1].when)
    /\ pc \in {"guard", "choose"} => BranchesRead

PickedInv ==
    /\ pc \in Before => st.picked = {}
    /\ pc \in Acting => /\ Cardinality(st.picked) <= 1
                        /\ \A b \in st.picked : ToSet(Op.branches[b].when) \subseteq held

AimInv ==
    /\ pc = "act" /\ Kind \in Targeted /\ Op.bound # None => st.place = Op.bound
    /\ pc = "manage" => Kind \in PageActions
    /\ pc = "probe" => Op.absent # None
    /\ InAction /\ st.skip => Op.absent # None

ProofInv ==
    /\ pc \in {"verify", "receipt"} =>
         /\ \A r \in Req : /\ st.net[r].asked = "after" => net[r].asked = "after"
                           /\ st.net[r].answered = "after" => net[r].answered = "after"
         /\ Len(st.results) <= Len(Expects)
         /\ \A k \in 1..Len(st.results) : st.results[k] = "pass" => Met(Expects[k])
    /\ pc = "receipt" /\ st.ok /\ Expects # <<>> => Len(st.results) = Len(Expects)

IInv == Typed /\ OnCourse /\ PreconditionInv /\ GuardInv /\ PickedInv /\ AimInv /\ ProofInv
-----------------------------------------------------------------------------
(* Facts about the operators of Verdicts. *)

\* The kinds of action that are tied to an element and those on pages are different.
LEMMA KindsApart == PageActions \cap Targeted = {}
BY DEF PageActions, Targeted

\* Of a valid plan: what it lists are valid operations.
LEMMA PlanParts ==
    ASSUME NEW p \in Plan, ValidPlan(p), NEW k \in 1..Len(p.operations)
    PROVE  p.operations[k] \in Operation /\ ValidOperation(p.operations[k])
<1>1. p.operations \in Seq(Operation)
  BY DEF Plan
<1>2. k \in DOMAIN p.operations
  BY <1>1
<1>. QED  BY <1>1, <1>2 DEF ValidPlan

LEMMA OpTyped ==
    ASSUME Typed, OnCourse, InAction
    PROVE  Op \in Operation /\ ValidOperation(Op)
<1>1. plan \in Plan /\ ValidPlan(plan) /\ i \in 1..Len(plan.operations)
  BY DEF Typed, OnCourse, InAction
<1>. QED  BY <1>1, PlanParts DEF Op

\* The parts of an operation.
LEMMA OpParts ==
    ASSUME Op \in Operation
    PROVE  /\ Op.pre = None \/ Op.pre \in Seq(Fact)
           /\ Op.branches \in Seq(Branch)
           /\ Op.otherwise = None \/ Op.otherwise \in Seq(Targeted)
           /\ Op.absent = None \/ Op.absent \in Seq(Expectation)
           /\ Op.bound = None \/ Op.bound \in Element
           /\ Op.expects \in Seq(Expectation)
BY DEF Operation, Maybe

\* A reading passes only of a fact that holds.
LEMMA PassHolds ==
    ASSUME NEW v, ReadingOf(v) = "pass"
    PROVE  v = "yes"
BY DEF ReadingOf

LEMMA ReadingTyped ==
    ASSUME NEW v
    PROVE  ReadingOf(v) \in Result
BY DEF ReadingOf, Result

LEMMA NetworkTyped ==
    ASSUME NEW e, NEW records
    PROVE  NetworkMatches(e, records) \in Result
BY DEF NetworkMatches, Result

\* Conditions pass together only when each of them does.
LEMMA AllPass ==
    ASSUME NEW results \in Seq(Result), AllConditions(results) = "pass"
    PROVE  \A k \in 1..Len(results) : results[k] = "pass"
BY DEF AllConditions, Some, Result

\* The locals of an operation that begins or is over.
LEMMA FreshTyped ==
    ASSUME Typed
    PROVE  Fresh \in Locals
<1>1. 0 \in Places
  BY DEF Places
<1>2. <<>> \in Seq(Result) /\ <<>> \in Seq(Seq(Result)) /\ <<>> \in Seq(Targeted)
  OBVIOUS
<1>3. {} \in SUBSET Nat /\ "no" \in Value /\ net \in Nets
  BY DEF Value, Typed
<1>. QED  BY <1>1, <1>2, <1>3 DEF Fresh, Locals

\* One change of the locals.
LEMMA LocalsKept ==
    ASSUME st \in Locals
    PROVE  /\ \A ok \in BOOLEAN : LET s == [st EXCEPT !.ok = ok] IN
                /\ s \in Locals /\ s.picked = st.picked /\ s.skip = st.skip
                /\ s.results = st.results /\ s.todo = st.todo
           /\ st.results \in Seq(Result) /\ st.branches \in Seq(Seq(Result)) /\ st.todo \in Seq(Targeted)
           /\ st.picked \subseteq Nat /\ st.net \in Nets
BY DEF Locals
-----------------------------------------------------------------------------
(* Steps that share their shape. *)

\* What was shown stays shown.
LEMMA ShowsOn ==
    ASSUME NEW results, NEW conditions, Shows(results, conditions), held \subseteq held'
    PROVE  \A k \in 1..Len(results) : results[k] = "pass" => conditions[k] \in held'
BY DEF Shows

\* The page, its network and the clock move under an operation that stands still.
LEMMA Environment ==
    ASSUME IInv, UNCHANGED <<plan, i, pc, st, steps>>,
           page' \in [Fact -> Value], target' \subseteq Element, net' \in Nets,
           held \subseteq held', Shown' \subseteq held',
           \A r \in Req : /\ net[r].asked = "after" => net'[r].asked = "after"
                          /\ net[r].answered = "after" => net'[r].answered = "after"
    PROVE  IInv'
<1>1. Typed'
  BY DEF IInv, Typed
<1>2. Op' = Op /\ Kind' = Kind /\ Expects' = Expects /\ InAction' = InAction
  BY DEF Op, Kind, Expects, InAction
<1>3. OnCourse'
  BY <1>2 DEF IInv, OnCourse
<1>4. PreHeld => PreHeld'
  BY <1>2 DEF PreHeld
<1>5. \A results, conditions : Shows(results, conditions) => Shows(results, conditions)'
  BY DEF Shows
<1>6. PreconditionInv'
  BY <1>2, <1>4 DEF IInv, PreconditionInv, Shows
<1>7. GuardInv'
  BY <1>2 DEF IInv, GuardInv, BranchesRead, Shows
<1>8. PickedInv'
  BY <1>2 DEF IInv, PickedInv
<1>9. AimInv'
  BY <1>2 DEF IInv, AimInv
<1>10. \A e : Met(e) => Met(e)'
  BY DEF Met
<1>11. ProofInv'
  BY <1>2, <1>10 DEF IInv, ProofInv
<1>. QED  BY <1>1, <1>3, <1>6, <1>7, <1>8, <1>9, <1>11 DEF IInv

\* A receipt: the plan ends, or goes on after a VERIFIED step.
LEMMA Receives ==
    ASSUME IInv, InAction, NEW v \in Verdict, Receipt(v),
           page' \in [Fact -> Value], target' \subseteq Element, net' = net, Shown' \subseteq held'
    PROVE  IInv'
<1>. DEFINE verdicts == Append(steps, v)
<1>1. /\ steps \in Seq(Verdict) /\ i \in Nat /\ i \in 1..Len(plan.operations) /\ Len(steps) = i - 1
      /\ All(steps, "verified") /\ ValidPlan(plan)
  BY DEF IInv, OnCourse, InAction
<1>2. verdicts \in Seq(Verdict) /\ Len(verdicts) = i
  BY <1>1
<1>3. steps' = verdicts /\ st' = Fresh /\ UNCHANGED <<plan, i>>
  BY DEF Receipt, Ends, Sets
<1>4. \/ pc' = "ended"
      \/ pc' = "between" /\ v \notin STOPPING_VERDICTS /\ i # Len(plan.operations)
  BY DEF Receipt, Ends
<1>5. Typed'
  BY <1>3, <1>4, FreshTyped DEF IInv, Typed
<1>6. InAction' = FALSE
  BY <1>4 DEF InAction
<1>7. OnCourse'
  <2>1. CASE pc' = "ended"
    BY <1>1, <1>2, <1>3, <1>6, <2>1 DEF OnCourse
  <2>2. CASE pc' = "between" /\ v \notin STOPPING_VERDICTS /\ i # Len(plan.operations)
    <3>1. v = "verified"
      BY <2>2 DEF STOPPING_VERDICTS
    <3>2. All(verdicts, "verified")
      BY <1>1, <3>1 DEF All
    <3>3. Len(plan.operations) \in Nat
      BY DEF IInv, Typed, Plan
    <3>. QED  BY <1>1, <1>2, <1>3, <1>6, <2>2, <3>2, <3>3 DEF OnCourse
  <2>. QED  BY <1>4, <2>1, <2>2
<1>8. PreconditionInv' /\ GuardInv' /\ PickedInv' /\ ProofInv'
  BY <1>4 DEF PreconditionInv, GuardInv, PickedInv, ProofInv, Before, Acting
<1>9. AimInv'
  BY <1>4, <1>6 DEF AimInv
<1>. QED  BY <1>5, <1>7, <1>8, <1>9 DEF IInv

\* A step into the dispatch, within it or out of it.
LEMMA Advances ==
    ASSUME IInv, pc \in {"observe", "choose", "probe"} \cup Acting, pc' \in Acting \cup {"settled"},
           UNCHANGED <<plan, i, steps>>, page' \in [Fact -> Value], target' \subseteq Element, net' = net,
           held \subseteq held', Shown' \subseteq held',
           st' \in Locals, st'.results = <<>>, st'.skip => Op.absent # None,
           Cardinality(st'.picked) <= 1, \A b \in st'.picked : ToSet(Op.branches[b].when) \subseteq held,
           pc' = "act" /\ Kind' \in Targeted /\ Op.bound # None => st'.place = Op.bound,
           pc' = "manage" => Kind' \in PageActions
    PROVE  IInv'
<1>1. Typed'
  BY DEF IInv, Typed, After
<1>2. Op' = Op /\ InAction /\ InAction'
  BY DEF Op, InAction, Acting
<1>3. OnCourse'
  BY <1>2 DEF IInv, OnCourse, InAction, Acting
<1>4. PreHeld'
  <2>1. PreHeld
    BY DEF IInv, PreconditionInv, Before
  <2>. QED  BY <1>2, <2>1 DEF PreHeld
<1>5. PreconditionInv'
  BY <1>4 DEF PreconditionInv, Before, Acting
<1>6. GuardInv' /\ ProofInv'
  BY DEF GuardInv, ProofInv, Acting
<1>7. PickedInv'
  BY <1>2 DEF PickedInv, Before, Acting
<1>8. AimInv'
  BY <1>2 DEF AimInv, Acting
<1>. QED  BY <1>1, <1>3, <1>5, <1>6, <1>7, <1>8 DEF IInv
-----------------------------------------------------------------------------
(* The page and the clock. *)

\* The browser by itself keeps the invariant.
LEMMA BrowserKeeps ==
    ASSUME IInv, PageChanges \/ NetworkMoves \/ Tick
    PROVE  IInv'
<1>. USE DEF IInv
<1>1. CASE PageChanges
  <2>1. UNCHANGED <<plan, i, pc, st, steps, net>>
    BY <1>1 DEF PageChanges, tabs
  <2>2. page' \in [Fact -> Value] /\ target' \subseteq Element
    <3>1. CASE \E f \in Fact \cap Watched, v \in {"yes", "no", "many"} :
                 page' = [page EXCEPT ![f] = v] /\ UNCHANGED <<target, video>>
      <4>1. PICK f \in Fact, v \in {"yes", "no", "many"} : page' = [page EXCEPT ![f] = v] /\ target' = target
        BY <3>1
      <4>2. v \in Value
        BY DEF Value
      <4>. QED  BY <4>1, <4>2 DEF Typed
    <3>2. CASE \E els \in SUBSET Element : target' = els /\ UNCHANGED <<page, video>>
      BY <3>2 DEF Typed
    <3>3. CASE UNCHANGED <<page, target>>
      BY <3>3 DEF Typed
    <3>. QED  BY <1>1, <3>1, <3>2, <3>3 DEF PageChanges
  <2>3. held \subseteq held' /\ Shown' \subseteq held'
    BY <1>1 DEF PageChanges, Remember, Shown
  <2>. QED  BY <2>1, <2>2, <2>3, Environment DEF Typed
<1>2. CASE NetworkMoves
  <2>1. UNCHANGED <<plan, i, pc, st, steps, page, target, held>>
    BY <1>2 DEF NetworkMoves, tabs
  <2>2. PICK r \in Req, now \in {"after", "before"} :
          \/ net[r].asked = "no" /\ net' = [net EXCEPT ![r].asked = now]
          \/ net[r].answered = "no" /\ net' = [net EXCEPT ![r].answered = now]
    BY <1>2 DEF NetworkMoves
  <2>3. now \in Stamp /\ net \in Nets
    BY DEF Stamp, Typed
  <2>4. net' \in Nets
    BY <2>2, <2>3 DEF Nets
  <2>5. \A q \in Req : /\ net[q].asked = "after" => net'[q].asked = "after"
                       /\ net[q].answered = "after" => net'[q].answered = "after"
    BY <2>2, <2>3 DEF Nets
  <2>6. Shown' \subseteq held'
    BY <2>1 DEF Typed, Shown
  <2>. QED  BY <2>1, <2>4, <2>5, <2>6, Environment DEF Typed
<1>3. CASE Tick
  <2>1. UNCHANGED <<plan, i, pc, st, steps, page, target, held, net>>
    BY <1>3 DEF Tick, tabs
  <2>2. Shown' \subseteq held'
    BY <2>1 DEF Typed, Shown
  <2>. QED  BY <2>1, <2>2, Environment DEF Typed
<1>. QED  BY <1>1, <1>2, <1>3

\* A step that leaves the browser alone leaves what is shown held.
LEMMA StillShown ==
    ASSUME IInv, UNCHANGED <<browser, held>>
    PROVE  /\ page' \in [Fact -> Value] /\ target' \subseteq Element /\ net' = net /\ net \in Nets
           /\ held \subseteq held' /\ Shown' \subseteq held'
BY DEF IInv, Typed, Shown, browser
-----------------------------------------------------------------------------
(* The plan. *)

LEMMA Begins ==
    ASSUME IInv, Validates \/ BackendStarts
    PROVE  IInv'
<1>. USE DEF IInv
<1>1. pc \in {"validate", "start"} /\ Quiet
  BY DEF Validates, BackendStarts
<1>2. /\ page' \in [Fact -> Value] /\ target' \subseteq Element /\ net' = net /\ net \in Nets
      /\ held \subseteq held' /\ Shown' \subseteq held'
  BY <1>1, StillShown DEF Quiet
<1>3. i = 0 /\ Len(steps) = 0 /\ steps \in Seq(Verdict) /\ All(steps, "verified") /\ plan \in Plan
  BY <1>1 DEF OnCourse, Typed
<1>4. \/ pc' = "ended" /\ st' = Fresh /\ steps' = <<>> /\ UNCHANGED <<plan, i>>
      \/ pc' = "start" /\ ValidPlan(plan) /\ UNCHANGED <<plan, i, steps, st>>
      \/ pc' = "between" /\ pc = "start" /\ UNCHANGED <<plan, i, steps, st>>
  BY DEF Validates, BackendStarts, Goes, Ends, Sets
<1>5. Typed'
  BY <1>2, <1>4, FreshTyped DEF Typed
<1>6. InAction' = FALSE
  BY <1>4 DEF InAction
<1>7. OnCourse'
  <2>1. CASE pc' = "ended"
    BY <1>3, <1>4, <1>6, <2>1 DEF OnCourse
  <2>2. CASE pc' = "start" /\ ValidPlan(plan) /\ UNCHANGED <<plan, i, steps, st>>
    BY <1>3, <1>6, <2>2 DEF OnCourse
  <2>3. CASE pc' = "between" /\ pc = "start" /\ UNCHANGED <<plan, i, steps, st>>
    <3>1. ValidPlan(plan)
      BY <2>3 DEF OnCourse
    <3>2. Len(plan.operations) \in Nat /\ Len(plan.operations) >= 1
      BY <1>3, <3>1 DEF ValidPlan, Plan
    <3>. QED  BY <1>3, <1>6, <2>3, <3>1, <3>2 DEF OnCourse
  <2>. QED  BY <1>4, <2>1, <2>2, <2>3
<1>8. PreconditionInv' /\ GuardInv' /\ PickedInv' /\ ProofInv' /\ AimInv'
  BY <1>4, <1>6 DEF PreconditionInv, GuardInv, PickedInv, ProofInv, AimInv, Before, Acting
<1>. QED  BY <1>5, <1>7, <1>8

LEMMA OperationKeeps ==
    ASSUME IInv, OperationBegins
    PROVE  IInv'
<1>. USE DEF IInv
<1>. DEFINE s == [Fresh EXCEPT !.url = page["url"]]
<1>1. /\ pc = "between" /\ i' = i + 1 /\ pc' = "precondition" /\ st' = s /\ held' = Shown
      /\ UNCHANGED <<page, target, plan, steps>>
  BY DEF OperationBegins, Sets
<1>2. page["url"] \in Value
  BY ExecutionAssumption DEF Typed
<1>3. /\ s \in Locals /\ s.url = page["url"] /\ s.results = <<>> /\ s.branches = <<>> /\ s.picked = {}
      /\ s.skip = FALSE
  <2>1. Fresh \in Locals
    BY FreshTyped
  <2>. QED  BY <1>2, <2>1 DEF Locals, Fresh
<1>. HIDE DEF s
<1>4. net' \in Nets
  <2>1. \A r \in Req : net[r].asked \in Stamp /\ net[r].answered \in Stamp
    BY DEF Typed, Nets
  <2>2. "before" \in Stamp
    BY DEF Stamp
  <2>. QED  BY <2>1, <2>2 DEF OperationBegins, Nets
<1>5. Shown' = Shown
  BY <1>1 DEF Shown
<1>6. Typed'
  BY <1>1, <1>3, <1>4, <1>5 DEF Typed, Before
<1>7. OnCourse'
  <2>1. /\ steps \in Seq(Verdict) /\ i \in Nat /\ All(steps, "verified") /\ ValidPlan(plan)
        /\ Len(steps) = i /\ i < Len(plan.operations)
    BY <1>1 DEF OnCourse
  <2>2. Len(plan.operations) \in Nat
    BY DEF Typed, Plan
  <2>3. i + 1 \in 1..Len(plan.operations)
    BY <2>1, <2>2
  <2>. QED  BY <1>1, <2>1, <2>3 DEF OnCourse
<1>8. "url" \in Fact
  BY ExecutionAssumption
<1>9. PreconditionInv'
  <2>1. Op' \in Operation /\ ValidOperation(Op')
    <3>1. plan' \in Plan /\ ValidPlan(plan') /\ i' \in 1..Len(plan'.operations)
      BY <1>1, <1>6, <1>7 DEF Typed, OnCourse, InAction
    <3>. QED  BY <3>1, PlanParts DEF Op
  <2>2. Op'.pre # None => Op'.pre \in Seq(Fact) /\ Op'.pre # <<>>
    BY <2>1 DEF Operation, Maybe, ValidOperation
  <2>3. st'.url = "yes" => "url" \in held'
    BY <1>1, <1>3, <1>8 DEF Shown
  <2>. QED  BY <1>1, <1>3, <2>2, <2>3 DEF PreconditionInv, Before, Acting, Shows
<1>10. GuardInv' /\ PickedInv' /\ ProofInv'
  BY <1>1, <1>3 DEF GuardInv, PickedInv, ProofInv, Before, Acting
<1>11. AimInv'
  BY <1>1, <1>3 DEF AimInv
<1>. QED  BY <1>6, <1>7, <1>9, <1>10, <1>11
-----------------------------------------------------------------------------
(* Preconditions, the plan's deadline, the first observation. *)

\* The precondition is met.
LEMMA Passes ==
    ASSUME IInv, pc = "precondition", Goes("deadline"), PreHeld',
           page' \in [Fact -> Value], target' \subseteq Element, net' = net,
           held \subseteq held', Shown' \subseteq held',
           st' \in Locals, st'.results = <<>>, st'.branches = <<>>, st'.picked = {}, st'.skip = st.skip
    PROVE  IInv'
<1>. USE DEF IInv, Goes
<1>1. Typed'
  BY DEF Typed, Before
<1>2. OnCourse'
  BY DEF OnCourse, InAction
<1>3. PreconditionInv' /\ GuardInv' /\ PickedInv' /\ ProofInv'
  BY DEF PreconditionInv, GuardInv, PickedInv, ProofInv, Before, Acting
<1>4. AimInv'
  BY DEF AimInv, InAction, Op
<1>. QED  BY <1>1, <1>2, <1>3, <1>4

LEMMA LegacyKeeps ==
    ASSUME IInv, LegacyPrecondition
    PROVE  IInv'
<1>. USE DEF IInv
<1>1. /\ pc = "precondition" /\ Op.pre = None /\ Op.kind # "navigate" /\ net' = net /\ Remember(page')
  BY DEF LegacyPrecondition
<1>2. PICK v \in Value :
        /\ IF page["url"] = "blank" THEN Loads(v) ELSE UNCHANGED <<page, target>>
        /\ page["url"] = "blank" \/ v = page["url"]
        /\ IF v = "yes" THEN Goes("deadline") /\ UNCHANGED st ELSE Receipt("execution_failed")
  BY ExecutionAssumption DEF LegacyPrecondition, Typed, Value
<1>3. page' \in [Fact -> Value] /\ page'["url"] = v
  BY <1>2, ExecutionAssumption DEF Loads, Typed
<1>4. target' \subseteq Element
  <2>1. CASE page["url"] = "blank"
    <3>1. target' \in {{}} \cup {{e} : e \in Element} \cup {target}
      BY <1>2, <2>1 DEF Loads
    <3>. QED  BY <3>1 DEF Typed
  <2>. QED  BY <1>2, <2>1 DEF Typed
<1>5. held \subseteq held' /\ Shown' \subseteq held'
  BY <1>1 DEF Remember, Shown
<1>6. InAction
  BY <1>1 DEF InAction
<1>7. CASE v = "yes"
  <2>1. Goes("deadline") /\ UNCHANGED st
    BY <1>2, <1>7
  <2>2. "url" \in held'
    BY <1>3, <1>5, <1>7, ExecutionAssumption DEF Shown
  <2>3. PreHeld'
    BY <1>1, <2>1, <2>2 DEF PreHeld, Op, Goes
  <2>4. st.results = <<>> /\ st.branches = <<>> /\ st.picked = {} /\ st \in Locals
    BY <1>1 DEF PreconditionInv, PickedInv, Before, Typed
  <2>. QED  BY <1>1, <1>3, <1>4, <1>5, <2>1, <2>3, <2>4, Passes
<1>8. CASE v # "yes"
  BY <1>1, <1>2, <1>3, <1>4, <1>5, <1>6, <1>8, Receives DEF Verdict
<1>. QED  BY <1>7, <1>8

LEMMA ReadsKeep ==
    ASSUME IInv, PreconditionReads
    PROVE  IInv'
<1>. USE DEF IInv
<1>. DEFINE k == Len(st.results) + 1
            reading == ConditionRead(Op.pre[k])
            read == Append(st.results, reading)
            more == [st EXCEPT !.results = read]
            done == [st EXCEPT !.results = <<>>]
<1>1. pc = "precondition" /\ Op.kind # "navigate" /\ Op.pre # None /\ Quiet /\ InAction
  BY DEF PreconditionReads, InAction
<1>2. /\ page' \in [Fact -> Value] /\ target' \subseteq Element /\ net' = net /\ net \in Nets
      /\ held \subseteq held' /\ Shown' \subseteq held' /\ UNCHANGED <<page, held>>
  BY <1>1, StillShown DEF Quiet, browser
<1>3. Op.pre \in Seq(Fact) /\ Op.branches \in Seq(Branch)
  BY <1>1, OpTyped, OpParts
<1>4. /\ st.results \in Seq(Result) /\ Len(st.results) < Len(Op.pre) /\ Shows(st.results, Op.pre)
      /\ st.branches = <<>> /\ (st.url = "yes" => "url" \in held)
      /\ st.picked = {} /\ st \in Locals
  BY <1>1, LocalsKept DEF PreconditionInv, PickedInv, Before, Typed
<1>5. k \in 1..Len(Op.pre) /\ Op.pre[k] \in Fact
  BY <1>3, <1>4
<1>6. reading \in Result
  BY ReadingTyped DEF ConditionRead, Read
<1>7. reading = "pass" => Op.pre[k] \in held
  <2>1. SUFFICES ASSUME reading = "pass" PROVE Op.pre[k] \in held
    OBVIOUS
  <2>2. CASE Op.pre[k] = "url"
    <3>1. ReadingOf(st.url) = "pass"
      BY <2>1, <2>2 DEF ConditionRead
    <3>. QED  BY <1>4, <2>2, <3>1, PassHolds
  <2>3. CASE Op.pre[k] # "url"
    <3>1. ReadingOf(page[Op.pre[k]]) = "pass"
      BY <2>1, <2>3 DEF ConditionRead, Read, Snapshot
    <3>2. page[Op.pre[k]] = "yes"
      BY <3>1, PassHolds
    <3>. QED  BY <1>5, <3>2 DEF Typed, Shown
  <2>. QED  BY <2>2, <2>3
<1>. HIDE DEF reading
<1>8. read \in Seq(Result) /\ Len(read) = k /\ Shows(read, Op.pre)
  <2>1. read \in Seq(Result) /\ Len(read) = k
    BY <1>4, <1>6
  <2>2. ASSUME NEW n \in 1..Len(read), read[n] = "pass" PROVE Op.pre[n] \in held
    <3>1. CASE n = k
      BY <1>4, <1>6, <1>7, <2>2, <3>1
    <3>2. CASE n \in 1..Len(st.results)
      BY <1>4, <1>6, <2>2, <3>2 DEF Shows
    <3>. QED  BY <1>4, <2>1, <3>1, <3>2
  <2>. QED  BY <2>1, <2>2 DEF Shows
<1>9. \/ Len(read) < Len(Op.pre) /\ st' = more /\ UNCHANGED <<plan, i, pc, steps>>
      \/ Len(read) >= Len(Op.pre) /\ AllConditions(read) = "pass" /\ Goes("deadline") /\ st' = done
      \/ Receipt("execution_failed")
  BY <1>3, <1>8 DEF PreconditionReads, Sets, reading
<1>10. /\ more \in Locals /\ more.results = read /\ more.branches = st.branches /\ more.picked = st.picked
       /\ more.skip = st.skip /\ more.url = st.url
       /\ done \in Locals /\ done.results = <<>> /\ done.branches = st.branches /\ done.picked = st.picked
       /\ done.skip = st.skip
  <2>1. <<>> \in Seq(Result)
    OBVIOUS
  <2>. HIDE DEF read
  <2>. QED  BY <1>4, <1>8, <2>1 DEF Locals
<1>. HIDE DEF more, done, read
<1>11. CASE Len(read) < Len(Op.pre) /\ st' = more /\ UNCHANGED <<plan, i, pc, steps>>
  <2>1. Op' = Op
    BY <1>11 DEF Op
  <2>2. Typed'
    BY <1>2, <1>10, <1>11 DEF Typed
  <2>3. OnCourse'
    BY <1>11 DEF OnCourse, InAction
  <2>5. PreconditionInv'
    <3>1. st'.results = read /\ st'.branches = <<>> /\ st'.url = st.url /\ pc' = "precondition"
      BY <1>1, <1>4, <1>10, <1>11
    <3>2. \A n \in 1..Len(st'.results) : st'.results[n] = "pass" => Op'.pre[n] \in held'
      BY <1>2, <1>8, <2>1, <3>1 DEF Shows
    <3>. QED  BY <1>1, <1>2, <1>4, <1>11, <2>1, <3>1, <3>2 DEF PreconditionInv, Before, Acting, Shows
  <2>6. GuardInv' /\ PickedInv' /\ ProofInv'
    BY <1>1, <1>4, <1>10, <1>11 DEF GuardInv, PickedInv, ProofInv, Before, Acting
  <2>7. AimInv'
    BY <1>1, <1>10, <1>11, <2>1 DEF AimInv, InAction
  <2>. QED  BY <2>2, <2>3, <2>5, <2>6, <2>7
<1>12. CASE Len(read) >= Len(Op.pre) /\ AllConditions(read) = "pass" /\ Goes("deadline") /\ st' = done
  <2>1. \A n \in 1..Len(read) : read[n] = "pass"
    BY <1>8, <1>12, AllPass
  <2>2. \A n \in 1..Len(Op.pre) : Op.pre[n] \in held
    BY <1>3, <1>5, <1>8, <1>12, <2>1 DEF Shows
  <2>3. ToSet(Op.pre) \subseteq held
    BY <1>3, <2>2 DEF ToSet
  <2>4. PreHeld'
    BY <1>1, <1>2, <1>12, <2>3 DEF PreHeld, Op, Goes
  <2>. QED  BY <1>1, <1>2, <1>4, <1>10, <1>12, <2>4, Passes
<1>13. CASE Receipt("execution_failed")
  BY <1>1, <1>2, <1>13, Receives DEF Verdict
<1>. QED  BY <1>9, <1>11, <1>12, <1>13

LEMMA NavigateKeeps ==
    ASSUME IInv, NavigateHasNone
    PROVE  IInv'
<1>. USE DEF IInv
<1>1. pc = "precondition" /\ Op.kind = "navigate" /\ Quiet /\ Goes("deadline") /\ UNCHANGED st
  BY DEF NavigateHasNone
<1>2. /\ page' \in [Fact -> Value] /\ target' \subseteq Element /\ net' = net
      /\ held \subseteq held' /\ Shown' \subseteq held'
  BY <1>1, StillShown DEF Quiet
<1>3. PreHeld'
  <2>1. Op' = Op
    BY <1>1 DEF Op, Goes
  <2>2. Op'.kind = "navigate"
    BY <1>1, <2>1
  <2>. QED  BY <2>2 DEF PreHeld
<1>4. st.results = <<>> /\ st.branches = <<>> /\ st.picked = {} /\ st \in Locals
  BY <1>1 DEF PreconditionInv, PickedInv, Before, Typed
<1>. QED  BY <1>1, <1>2, <1>3, <1>4, Passes

LEMMA DeadlineKeeps ==
    ASSUME IInv, DeadlineChecked
    PROVE  IInv'
<1>. USE DEF IInv
<1>1. pc = "deadline" /\ Quiet /\ InAction
  BY DEF DeadlineChecked, InAction
<1>2. /\ page' \in [Fact -> Value] /\ target' \subseteq Element /\ net' = net
      /\ held \subseteq held' /\ Shown' \subseteq held' /\ net \in Nets
  BY <1>1, StillShown DEF Quiet
<1>3. CASE Receipt("not_verified")
  BY <1>1, <1>2, <1>3, Receives DEF Verdict
<1>4. CASE Goes("observe") /\ UNCHANGED st
  <2>1. Op' = Op /\ pc' = "observe" /\ UNCHANGED <<plan, i, steps, st>>
    BY <1>4 DEF Goes, Op
  <2>2. Typed'
    BY <1>2, <2>1 DEF Typed, Before
  <2>3. OnCourse'
    BY <1>1, <2>1 DEF OnCourse, InAction
  <2>4. PreHeld'
    <3>1. PreHeld
      BY <1>1 DEF PreconditionInv, Before
    <3>. QED  BY <1>2, <2>1, <3>1 DEF PreHeld
  <2>5. PreconditionInv' /\ GuardInv' /\ PickedInv' /\ ProofInv'
    BY <1>1, <2>1, <2>4 DEF PreconditionInv, GuardInv, PickedInv, ProofInv, Before, Acting
  <2>6. AimInv'
    BY <1>1, <2>1 DEF AimInv, InAction
  <2>. QED  BY <2>2, <2>3, <2>5, <2>6
<1>. QED  BY <1>3, <1>4 DEF DeadlineChecked

\* Nothing picked is nothing to hold.
LEMMA NonePicked == Cardinality({}) <= 1
<1>1. Cardinality({}) = 0
  BY FS_EmptySet
<1>. QED  BY <1>1

LEMMA ObservesKeeps ==
    ASSUME IInv, Observes
    PROVE  IInv'
<1>. USE DEF IInv
<1>. DEFINE s == [st EXCEPT !.net = net]
<1>1. pc = "observe" /\ Quiet /\ InAction /\ st' = s /\ UNCHANGED <<plan, i, steps>> /\ Op' = Op
  BY DEF Observes, InAction, Goes, Sets, Op
<1>2. /\ page' \in [Fact -> Value] /\ target' \subseteq Element /\ net' = net
      /\ held \subseteq held' /\ Shown' \subseteq held' /\ net \in Nets
  BY <1>1, StillShown DEF Quiet
<1>3. /\ s \in Locals /\ s.results = <<>> /\ s.branches = <<>> /\ s.picked = {} /\ s.skip = st.skip
      /\ (st.skip => Op.absent # None)
  <2>1. st \in Locals /\ st.results = <<>> /\ st.branches = <<>> /\ st.picked = {}
    BY <1>1 DEF Typed, PreconditionInv, GuardInv, PickedInv, Before
  <2>2. st.skip => Op.absent # None
    BY <1>1 DEF AimInv
  <2>. QED  BY <1>2, <2>1, <2>2 DEF Locals
<1>. HIDE DEF s
<1>4. \/ pc' = "guard" /\ Op.branches # <<>>
      \/ pc' = "probe" /\ Op.absent # None
      \/ pc' = "dispatch"
  BY DEF Observes, Goes
<1>5. CASE pc' = "dispatch"
  BY <1>1, <1>2, <1>3, <1>5, NonePicked, Advances DEF Acting
<1>6. CASE pc' \in {"guard", "probe"}
  <2>1. Typed'
    BY <1>1, <1>2, <1>3, <1>6 DEF Typed, Before
  <2>2. OnCourse'
    BY <1>1, <1>6 DEF OnCourse, InAction
  <2>3. PreHeld'
    <3>1. PreHeld
      BY <1>1 DEF PreconditionInv, Before
    <3>. QED  BY <1>1, <1>2, <3>1 DEF PreHeld
  <2>4. PreconditionInv' /\ PickedInv' /\ ProofInv'
    BY <1>1, <1>3, <1>6, <2>3 DEF PreconditionInv, PickedInv, ProofInv, Before, Acting
  <2>5. GuardInv'
    <3>1. CASE pc' = "probe"
      BY <3>1 DEF GuardInv
    <3>2. CASE pc' = "guard"
      <4>1. Op.branches # <<>>
        BY <1>4, <3>2
      <4>2. Op \in Operation /\ ValidOperation(Op)
        BY <1>1, OpTyped
      <4>3. Op.branches \in Seq(Branch)
        BY <4>2, OpParts
      <4>4. Len(Op.branches) > 0 /\ 1 \in DOMAIN Op.branches
        BY <4>1, <4>3
      <4>5. Op.branches[1].when # <<>> /\ Op.branches[1].when \in Seq(Expectation)
        <5>1. \A b \in DOMAIN Op.branches : Op.branches[b].when # <<>>
          BY <4>1, <4>2 DEF ValidOperation
        <5>2. Op.branches[1] \in Branch
          BY <4>3, <4>4
        <5>. QED  BY <4>4, <5>1, <5>2 DEF Branch
      <4>6. Len(Op.branches[1].when) > 0
        BY <4>5
      <4>. QED  BY <1>1, <1>3, <3>2, <4>4, <4>6 DEF GuardInv, BranchesRead, Shows
    <3>. QED  BY <1>6, <3>1, <3>2
  <2>6. AimInv'
    BY <1>1, <1>3, <1>4, <1>6 DEF AimInv
  <2>. QED  BY <2>1, <2>2, <2>4, <2>5, <2>6
<1>. QED  BY <1>4, <1>5, <1>6
-----------------------------------------------------------------------------
(* Guards. *)

LEMMA GuardReadsKeep ==
    ASSUME IInv, GuardReads
    PROVE  IInv'
<1>. USE DEF IInv
<1>. DEFINE b == Len(st.branches) + 1
            when == Op.branches[b].when
            k == Len(st.results) + 1
            f == when[k]
            reading == IF f \in NetFacts THEN "fail" ELSE Read(f)
            read == Append(st.results, reading)
            more == [st EXCEPT !.results = read]
            done == [st EXCEPT !.results = <<>>, !.branches = Append(@, read)]
            next == IF Len(read) < Len(when) THEN more ELSE done
<1>1. pc = "guard" /\ Quiet /\ InAction
  BY DEF GuardReads, InAction
<1>2. /\ page' \in [Fact -> Value] /\ target' \subseteq Element /\ net' = net /\ net \in Nets
      /\ held \subseteq held' /\ Shown' \subseteq held' /\ UNCHANGED <<page, held>>
  BY <1>1, StillShown DEF Quiet, browser
<1>3. Op \in Operation /\ ValidOperation(Op)
  BY <1>1, OpTyped
<1>4. Op.branches \in Seq(Branch)
  BY <1>3, OpParts
<1>5. /\ st \in Locals /\ st.results \in Seq(Result) /\ st.branches \in Seq(Seq(Result))
      /\ Len(st.branches) < Len(Op.branches) /\ Len(st.results) < Len(when) /\ Shows(st.results, when)
      /\ BranchesRead /\ st.picked = {}
  BY <1>1, LocalsKept DEF GuardInv, PickedInv, Before, Typed
<1>6. b \in 1..Len(Op.branches) /\ when \in Seq(Expectation)
  <2>1. b \in 1..Len(Op.branches)
    BY <1>4, <1>5
  <2>2. Op.branches[b] \in Branch
    BY <1>4, <2>1
  <2>. QED  BY <2>1, <2>2 DEF Branch
<1>7. k \in 1..Len(when) /\ f \in Expectation
  <2>1. k \in 1..Len(when)
    BY <1>5, <1>6
  <2>. QED  BY <1>6, <2>1
<1>8. reading \in Result
  BY ReadingTyped DEF Read, Result
<1>9. reading = "pass" => f \in held
  <2>1. SUFFICES ASSUME reading = "pass" PROVE f \in held
    OBVIOUS
  <2>2. f \notin NetFacts /\ ReadingOf(page[f]) = "pass"
    BY <2>1 DEF Read, Snapshot
  <2>3. f \in Fact /\ page[f] = "yes"
    BY <1>7, <2>2, PassHolds DEF Expectation
  <2>. QED  BY <2>3 DEF Typed, Shown
<1>. HIDE DEF reading
<1>10. read \in Seq(Result) /\ Len(read) = k /\ Shows(read, when)
  <2>1. read \in Seq(Result) /\ Len(read) = k
    BY <1>5, <1>8
  <2>2. ASSUME NEW n \in 1..Len(read), read[n] = "pass" PROVE when[n] \in held
    <3>1. CASE n = k
      BY <1>5, <1>8, <1>9, <2>2, <3>1
    <3>2. CASE n \in 1..Len(st.results)
      BY <1>5, <1>8, <2>2, <3>2 DEF Shows
    <3>. QED  BY <1>5, <2>1, <3>1, <3>2
  <2>. QED  BY <2>1, <2>2 DEF Shows
<1>11. /\ st' = next /\ UNCHANGED <<plan, i, steps>> /\ Op' = Op
       /\ pc' = IF Len(next.branches) = Len(Op.branches) THEN "choose" ELSE "guard"
  BY DEF GuardReads, Sets, Goes, Op, reading
<1>12. /\ more \in Locals /\ more.results = read /\ more.branches = st.branches /\ more.picked = {}
       /\ more.skip = st.skip
       /\ done \in Locals /\ done.results = <<>> /\ done.branches = Append(st.branches, read)
       /\ done.picked = {} /\ done.skip = st.skip
  <2>1. <<>> \in Seq(Result) /\ Append(st.branches, read) \in Seq(Seq(Result))
    BY <1>5, <1>10
  <2>. HIDE DEF read
  <2>. QED  BY <1>5, <1>10, <2>1 DEF Locals
<1>. HIDE DEF more, done, read
<1>13. st' \in Locals /\ st'.picked = {} /\ st'.skip = st.skip
  BY <1>11, <1>12
<1>14. Typed'
  BY <1>2, <1>11, <1>13 DEF Typed, Before
<1>15. OnCourse'
  BY <1>1, <1>11 DEF OnCourse, InAction
<1>16. PreHeld'
  <2>1. PreHeld
    BY <1>1 DEF PreconditionInv, Before
  <2>. QED  BY <1>2, <1>11, <2>1 DEF PreHeld
<1>17. PickedInv' /\ ProofInv'
  BY <1>11, <1>13 DEF PickedInv, ProofInv, Before, Acting
<1>18. AimInv'
  BY <1>1, <1>11, <1>13 DEF AimInv, InAction
<1>19. CASE Len(read) < Len(when)
  <2>1. st' = more /\ pc' = "guard"
    BY <1>5, <1>11, <1>12, <1>19
  <2>2. PreconditionInv'
    BY <1>16, <2>1 DEF PreconditionInv, Before, Acting
  <2>3. BranchesRead'
    BY <1>2, <1>5, <1>11, <1>12, <2>1 DEF BranchesRead, Shows
  <2>4. st'.results = read /\ st'.branches = st.branches
    BY <1>12, <2>1
  <2>5. \A n \in 1..Len(st'.results) : st'.results[n] = "pass" => Op'.branches[Len(st'.branches) + 1].when[n] \in held'
    BY <1>2, <1>10, <1>11, <2>4 DEF Shows
  <2>6. GuardInv'
    BY <1>5, <1>11, <1>19, <2>1, <2>3, <2>4, <2>5 DEF GuardInv, Shows
  <2>. QED  BY <1>14, <1>15, <1>17, <1>18, <2>2, <2>6
<1>20. CASE ~(Len(read) < Len(when))
  <2>1. st' = done /\ st'.results = <<>> /\ st'.branches = Append(st.branches, read)
    BY <1>11, <1>12, <1>20
  <2>2. Len(read) = Len(when)
    BY <1>5, <1>6, <1>7, <1>10, <1>20
  <2>3. Len(st'.branches) = b /\ b <= Len(Op.branches)
    BY <1>5, <1>6, <1>10, <2>1
  <2>4. BranchesRead'
    <3>1. ASSUME NEW c \in 1..b
          PROVE  /\ Len(st'.branches[c]) = Len(Op.branches[c].when)
                 /\ Shows(st'.branches[c], Op.branches[c].when)
      <4>1. CASE c = b
        <5>1. st'.branches[c] = read
          BY <1>5, <1>10, <2>1, <4>1
        <5>. QED  BY <1>10, <2>2, <4>1, <5>1
      <4>2. CASE c \in 1..Len(st.branches)
        <5>1. st'.branches[c] = st.branches[c]
          BY <1>5, <1>10, <2>1, <4>2
        <5>2. /\ Len(st.branches[c]) = Len(Op.branches[c].when)
              /\ Shows(st.branches[c], Op.branches[c].when)
          BY <1>5, <4>2 DEF BranchesRead
        <5>. QED  BY <5>1, <5>2
      <4>. QED  BY <1>5, <4>1, <4>2
    <3>. QED  BY <1>2, <1>11, <2>3, <3>1 DEF BranchesRead, Shows
  <2>5. PreconditionInv'
    BY <1>11, <1>16, <2>1 DEF PreconditionInv, Before, Acting
  <2>6. GuardInv'
    <3>1. CASE pc' = "choose"
      BY <2>4, <3>1 DEF GuardInv
    <3>2. CASE pc' = "guard"
      <4>1. b # Len(Op.branches)
        BY <1>11, <2>1, <2>3, <3>2
      <4>2. b + 1 \in DOMAIN Op.branches /\ b < Len(Op.branches)
        BY <1>4, <1>6, <4>1
      <4>3. Op.branches[b + 1].when # <<>> /\ Op.branches[b + 1].when \in Seq(Expectation)
        <5>1. \A c \in DOMAIN Op.branches : Op.branches[c].when # <<>>
          BY <1>3, <4>2, <1>4 DEF ValidOperation
        <5>2. Op.branches[b + 1] \in Branch
          BY <1>4, <4>2
        <5>. QED  BY <4>2, <5>1, <5>2 DEF Branch
      <4>4. Len(Op.branches[b + 1].when) > 0
        BY <4>3
      <4>5. Len(st'.results) = 0
        BY <2>1
      <4>6. Len(st'.branches) < Len(Op'.branches) /\ Len(st'.results) < Len(Op'.branches[Len(st'.branches) + 1].when)
        BY <1>11, <2>3, <4>2, <4>4, <4>5
      <4>7. \A n \in 1..Len(st'.results) :
              st'.results[n] = "pass" => Op'.branches[Len(st'.branches) + 1].when[n] \in held'
        BY <4>5
      <4>. QED  BY <2>4, <3>2, <4>6, <4>7 DEF GuardInv, Shows
    <3>. QED  BY <1>11, <3>1, <3>2
  <2>. QED  BY <1>14, <1>15, <1>17, <1>18, <2>5, <2>6
<1>. QED  BY <1>19, <1>20

\* A branch whose conditions were read and all passed has conditions that held.
LEMMA MatchedHeld ==
    ASSUME Op.branches \in Seq(Branch), st.branches \in Seq(Seq(Result)), BranchesRead,
           NEW b \in Matched(st.branches)
    PROVE  ToSet(Op.branches[b].when) \subseteq held
<1>1. b \in 1..Len(st.branches) /\ st.branches[b] \in Seq(Result)
  BY DEF Matched
<1>2. \A k \in 1..Len(st.branches[b]) : st.branches[b][k] = "pass"
  BY <1>1 DEF Matched, All
<1>3. b \in 1..Len(Op.branches) /\ Op.branches[b].when \in Seq(Expectation)
  <2>1. b \in 1..Len(Op.branches)
    BY <1>1 DEF BranchesRead
  <2>2. Op.branches[b] \in Branch
    BY <2>1
  <2>. QED  BY <2>1, <2>2 DEF Branch
<1>4. \A k \in 1..Len(Op.branches[b].when) : Op.branches[b].when[k] \in held
  BY <1>1, <1>2 DEF BranchesRead, Shows
<1>. QED  BY <1>3, <1>4 DEF ToSet

LEMMA ChoiceKeeps ==
    ASSUME IInv, GuardChooses
    PROVE  IInv'
<1>. USE DEF IInv
<1>. DEFINE matched == Matched(st.branches)
            Picks(s) == Goes("dispatch") /\ st' = [st EXCEPT !.todo = s, !.picked = matched]
<1>1. pc = "choose" /\ Quiet /\ InAction
  BY DEF GuardChooses, InAction
<1>2. /\ page' \in [Fact -> Value] /\ target' \subseteq Element /\ net' = net
      /\ held \subseteq held' /\ Shown' \subseteq held'
  BY <1>1, StillShown DEF Quiet
<1>3. Op.branches \in Seq(Branch) /\ (Op.otherwise = None \/ Op.otherwise \in Seq(Targeted))
  BY <1>1, OpTyped, OpParts
<1>4. /\ st \in Locals /\ st.branches \in Seq(Seq(Result)) /\ BranchesRead /\ st.results = <<>>
      /\ (st.skip => Op.absent # None)
  BY <1>1, LocalsKept DEF GuardInv, PreconditionInv, AimInv, Typed
<1>5. \A b \in matched : ToSet(Op.branches[b].when) \subseteq held /\ b \in 1..Len(Op.branches)
  BY <1>3, <1>4, MatchedHeld DEF Matched, BranchesRead
<1>6. matched \in SUBSET Nat
  BY <1>4 DEF Matched
<1>7. \/ \E v \in Verdict : Receipt(v)
      \/ \E s \in Seq(Targeted) : Cardinality(matched) <= 1 /\ Picks(s)
  <2>1. CASE OnlyOne(matched) /\ ~Doubtful(st.branches)
    <3>1. PICK s : s = Op.branches[CHOOSE b \in matched : TRUE].does /\ Picks(s)
      BY <2>1 DEF GuardChooses, Sets
    <3>2. Cardinality(matched) = 1
      BY <2>1 DEF OnlyOne
    <3>3. matched # {}
      <4>1. Cardinality({}) = 0
        BY FS_EmptySet
      <4>. QED  BY <3>2, <4>1
    <3>4. (CHOOSE b \in matched : TRUE) \in 1..Len(Op.branches)
      BY <1>5, <3>3
    <3>5. Op.branches[CHOOSE b \in matched : TRUE] \in Branch
      BY <1>3, <3>4
    <3>6. s \in Seq(Targeted)
      BY <3>1, <3>5 DEF Branch
    <3>7. Cardinality(matched) <= 1
      BY <3>2
    <3>. HIDE DEF Picks, matched
    <3>. QED  BY <3>1, <3>6, <3>7
  <2>2. CASE ~Doubtful(st.branches) /\ matched = {} /\ Op.otherwise # None /\ ~OnlyOne(matched)
    <3>1. Picks(Op.otherwise)
      BY <2>2 DEF GuardChooses, Sets
    <3>2. Op.otherwise \in Seq(Targeted) /\ Cardinality(matched) <= 1
      BY <1>3, <2>2, NonePicked
    <3>. HIDE DEF Picks, matched
    <3>. QED  BY <3>1, <3>2
  <2>3. CASE Receipt("indeterminate") \/ Receipt("not_verified")
    BY <2>3 DEF Verdict
  <2>4. \/ OnlyOne(matched) /\ ~Doubtful(st.branches)
        \/ ~Doubtful(st.branches) /\ matched = {} /\ Op.otherwise # None /\ ~OnlyOne(matched)
        \/ Receipt("indeterminate") \/ Receipt("not_verified")
    BY DEF GuardChooses
  <2>. HIDE DEF Picks, matched
  <2>. QED  BY <2>1, <2>2, <2>3, <2>4
<1>8. CASE \E v \in Verdict : Receipt(v)
  BY <1>1, <1>2, <1>8, Receives
<1>9. ASSUME NEW s \in Seq(Targeted), Cardinality(matched) <= 1, Picks(s)
      PROVE  IInv'
  <2>1. st' \in Locals /\ st'.results = <<>> /\ st'.skip = st.skip /\ st'.picked = matched
    BY <1>4, <1>6, <1>9 DEF Locals
  <2>2. Goes("dispatch")
    BY <1>9
  <2>. HIDE DEF matched, Picks
  <2>. QED  BY <1>1, <1>2, <1>4, <1>5, <1>9, <2>1, <2>2, Advances DEF Goes, Acting
<1>. HIDE DEF Picks, matched
<1>. QED  BY <1>7, <1>8, <1>9

LEMMA ProbeKeeps ==
    ASSUME IInv, GuardProbes
    PROVE  IInv'
<1>. USE DEF IInv
<1>1. pc = "probe" /\ Quiet /\ InAction
  BY DEF GuardProbes, InAction
<1>2. /\ page' \in [Fact -> Value] /\ target' \subseteq Element /\ net' = net
      /\ held \subseteq held' /\ Shown' \subseteq held'
  BY <1>1, StillShown DEF Quiet
<1>3. /\ st \in Locals /\ st.picked = {} /\ st.results = <<>> /\ Op.absent # None
  BY <1>1 DEF PreconditionInv, PickedInv, AimInv, Before, Typed
<1>4. \/ Goes("dispatch") /\ UNCHANGED st
      \/ Goes("settled") /\ st' = [st EXCEPT !.skip = TRUE, !.ok = TRUE, !.started = TRUE]
      \/ Receipt("execution_failed")
  BY DEF GuardProbes, Sets
<1>5. CASE Receipt("execution_failed")
  BY <1>1, <1>2, <1>5, Receives DEF Verdict
<1>6. CASE Goes("dispatch") /\ UNCHANGED st
  BY <1>1, <1>2, <1>3, <1>6, NonePicked, Advances DEF Goes, Acting
<1>7. CASE Goes("settled") /\ st' = [st EXCEPT !.skip = TRUE, !.ok = TRUE, !.started = TRUE]
  <2>1. st' \in Locals /\ st'.results = <<>> /\ st'.picked = {}
    BY <1>3, <1>7 DEF Locals
  <2>. QED  BY <1>1, <1>2, <1>3, <1>7, <2>1, NonePicked, Advances DEF Goes, Acting
<1>. QED  BY <1>4, <1>5, <1>6, <1>7
-----------------------------------------------------------------------------
(* Dispatch. *)

\* A step of the dispatch leaves the browser in its type, and what it shows held.
Sound ==
    /\ page' \in [Fact -> Value] /\ target' \subseteq Element /\ net' = net
    /\ held \subseteq held' /\ Shown' \subseteq held'

\* The locals during a dispatch.
LEMMA ActingLocals ==
    ASSUME IInv, pc \in Acting
    PROVE  /\ InAction /\ st \in Locals /\ st.results = <<>> /\ (st.skip => Op.absent # None)
           /\ Cardinality(st.picked) <= 1 /\ \A b \in st.picked : ToSet(Op.branches[b].when) \subseteq held
<1>. USE DEF IInv
<1>1. InAction
  BY DEF InAction, Acting
<1>2. st \in Locals /\ st.results = <<>>
  BY DEF Typed, PreconditionInv
<1>3. st.skip => Op.absent # None
  BY <1>1 DEF AimInv
<1>. QED  BY <1>1, <1>2, <1>3 DEF PickedInv

\* The dispatch is over, well or badly.
LEMMA Sent ==
    ASSUME IInv, pc \in Acting, NEW ok \in BOOLEAN, Dispatched(ok), Sound
    PROVE  IInv'
<1>. DEFINE s == [st EXCEPT !.ok = ok]
<1>1. /\ InAction /\ st \in Locals /\ st.results = <<>> /\ (st.skip => Op.absent # None)
      /\ Cardinality(st.picked) <= 1 /\ \A b \in st.picked : ToSet(Op.branches[b].when) \subseteq held
  BY ActingLocals
<1>2. st' = s /\ pc' = "dialogs" /\ UNCHANGED <<plan, i, steps>>
  BY DEF Dispatched, Sets, Goes
<1>3. s \in Locals /\ s.picked = st.picked /\ s.skip = st.skip /\ s.results = <<>>
  BY <1>1, LocalsKept
<1>. HIDE DEF s
<1>. QED  BY <1>1, <1>2, <1>3, Advances DEF Sound, Acting

\* The dispatch goes on to a place that asks nothing of it.
LEMMA GoesOn ==
    ASSUME IInv, pc \in Acting, NEW place \in Acting \ {"act", "manage"}, Goes(place), UNCHANGED st, Sound
    PROVE  IInv'
<1>1. /\ InAction /\ st \in Locals /\ st.results = <<>> /\ (st.skip => Op.absent # None)
      /\ Cardinality(st.picked) <= 1 /\ \A b \in st.picked : ToSet(Op.branches[b].when) \subseteq held
  BY ActingLocals
<1>2. pc' = place /\ UNCHANGED <<plan, i, steps>>
  BY DEF Goes
<1>. QED  BY <1>1, <1>2, Advances DEF Sound, Acting

LEMMA QuietSound ==
    ASSUME IInv, UNCHANGED <<browser, held>>
    PROVE  Sound
BY StillShown DEF Sound

\* The page takes an action or does not.
LEMMA Performing ==
    ASSUME IInv, NEW takes \in BOOLEAN, Performs(takes)
    PROVE  Sound
<1>1. page \in [Fact -> Value] /\ target \subseteq Element
  BY DEF IInv, Typed
<1>2. "yes" \in Value
  BY DEF Value
<1>3. page' \in [Fact -> Value]
  BY <1>1, <1>2 DEF Performs
<1>4. held \subseteq held' /\ Shown' \subseteq held'
  BY DEF Performs, Remember, Shown
<1>. QED  BY <1>1, <1>3, <1>4 DEF Performs, Sound

LEMMA DispatchKeeps ==
    ASSUME IInv, DispatchBegins
    PROVE  IInv'
<1>. DEFINE s == [st EXCEPT !.started = st.todo = <<>>]
<1>1. pc = "dispatch" /\ st' = s /\ UNCHANGED <<plan, i, steps, browser, held>>
  BY DEF DispatchBegins, Sets, Goes
<1>2. /\ InAction /\ st \in Locals /\ st.results = <<>> /\ (st.skip => Op.absent # None)
      /\ Cardinality(st.picked) <= 1 /\ \A b \in st.picked : ToSet(Op.branches[b].when) \subseteq held
  BY <1>1, ActingLocals DEF Acting
<1>3. s \in Locals /\ s.picked = st.picked /\ s.skip = st.skip /\ s.results = <<>> /\ s.todo = st.todo
  BY <1>2 DEF Locals
<1>. HIDE DEF s
<1>4. Kind' = Kind
  BY <1>1, <1>3 DEF Kind, Op
<1>5. \/ pc' \in {"wait", "locate"}
      \/ pc' = "manage" /\ Kind \in PageActions
      \/ pc' = "act" /\ Kind \notin Targeted
  BY DEF DispatchBegins, Goes
<1>6. Sound
  BY <1>1, QuietSound
<1>. QED  BY <1>1, <1>2, <1>3, <1>4, <1>5, <1>6, Advances DEF Sound, Acting

LEMMA LocatesKeep ==
    ASSUME IInv, Locates
    PROVE  IInv'
<1>1. pc = "locate" /\ Sound
  BY QuietSound DEF Locates, Quiet
<1>2. CASE Goes("prepare") /\ UNCHANGED st
  BY <1>1, <1>2, GoesOn DEF Acting
<1>3. CASE Dispatched(FALSE)
  BY <1>1, <1>3, Sent DEF Acting
<1>. QED  BY <1>2, <1>3 DEF Locates

LEMMA PreparesKeep ==
    ASSUME IInv, Prepares
    PROVE  IInv'
<1>1. pc = "prepare" /\ target' = target /\ net' = net /\ Remember(page')
  BY DEF Prepares
<1>2. page \in [Fact -> Value] /\ target \subseteq Element /\ "no" \in Value
  BY DEF IInv, Typed, Value
<1>3. page' \in [Fact -> Value]
  BY <1>2 DEF Prepares
<1>4. Sound
  <2>1. held \subseteq held' /\ Shown' \subseteq held'
    BY <1>1 DEF Remember, Shown
  <2>. QED  BY <1>1, <1>2, <1>3, <2>1 DEF Sound
<1>5. CASE Goes("resolve") /\ UNCHANGED st
  BY <1>1, <1>4, <1>5, GoesOn DEF Acting
<1>6. CASE Dispatched(FALSE)
  BY <1>1, <1>4, <1>6, Sent DEF Acting
<1>. QED  BY <1>5, <1>6 DEF Prepares

\* A target that is bound is the element it is bound to.
LEMMA ResolvesKeep ==
    ASSUME IInv, Resolves
    PROVE  IInv'
<1>. DEFINE e == CHOOSE e \in Candidates : TRUE
            at == IF Op.bound # None THEN e ELSE Cardinality({x \in target : x <= e})
            s == [st EXCEPT !.place = at]
<1>1. pc = "resolve" /\ Sound
  BY QuietSound DEF Resolves, Quiet
<1>2. CASE Dispatched(FALSE)
  BY <1>1, <1>2, Sent DEF Acting
<1>3. CASE Resolved /\ (\A c \in Candidates : PreparedNode(c)) /\ st' = s /\ Goes("act")
  <2>1. Candidates # {}
    <3>1. Cardinality(Candidates) = 1
      BY <1>3 DEF Resolved, Unique
    <3>2. Cardinality({}) = 0
      BY FS_EmptySet
    <3>. QED  BY <3>1, <3>2
  <2>2. e \in Candidates
    BY <2>1
  <2>3. e \in Element /\ target \subseteq Element
    BY <2>2 DEF Candidates, Constrained, IInv, Typed
  <2>. HIDE DEF e
  <2>4. at \in Places
    <3>1. e \in Nat
      BY <2>3, ExecutionAssumption
    <3>2. {x \in target : x <= e} \in SUBSET Element
      BY <2>3
    <3>. QED  BY <3>1, <3>2 DEF Places
  <2>5. Op.bound # None => at = Op.bound
    BY <1>3, <2>2 DEF PreparedNode
  <2>6. /\ InAction /\ st \in Locals /\ st.results = <<>> /\ (st.skip => Op.absent # None)
        /\ Cardinality(st.picked) <= 1 /\ \A b \in st.picked : ToSet(Op.branches[b].when) \subseteq held
    BY <1>1, ActingLocals DEF Acting
  <2>. HIDE DEF at
  <2>7. s \in Locals /\ s.picked = st.picked /\ s.skip = st.skip /\ s.results = <<>> /\ s.place = at
    BY <2>4, <2>6 DEF Locals
  <2>. HIDE DEF s
  <2>. QED  BY <1>1, <1>3, <2>5, <2>6, <2>7, Advances DEF Sound, Goes, Acting
<1>. QED  BY <1>2, <1>3 DEF Resolves, Sets

\* What an action at the page, or in its registry, comes to.
LEMMA ActsSend ==
    ASSUME IInv, Acts
    PROVE  /\ pc \in {"act", "manage"} /\ Sound
           /\ \E ok \in BOOLEAN : Dispatched(ok)
<1>1. ASSUME NEW kinds, Sends(kinds)
      PROVE  pc = "act" /\ Sound /\ \E ok \in BOOLEAN : Dispatched(ok)
  <2>1. PICK takes \in BOOLEAN, complains \in BOOLEAN : Performs(takes) /\ Dispatched(~complains)
    BY <1>1 DEF Sends
  <2>2. Sound
    BY <2>1, Performing
  <2>. QED  BY <1>1, <2>1, <2>2 DEF Sends, Strikes
<1>2. ASSUME NEW kinds, Refuses(kinds)
      PROVE  pc = "act" /\ Sound /\ \E ok \in BOOLEAN : Dispatched(ok)
  BY <1>2, QuietSound DEF Refuses, Strikes, Quiet
<1>3. ASSUME NEW kinds, LeftAlone(kinds)
      PROVE  pc = "act" /\ Sound /\ \E ok \in BOOLEAN : Dispatched(ok)
  BY <1>3, QuietSound DEF LeftAlone, Strikes, Quiet
<1>4. ASSUME NEW kind, ReadsBack(kind)
      PROVE  pc = "act" /\ Sound /\ \E ok \in BOOLEAN : Dispatched(ok)
  <2>1. CASE Quiet /\ Dispatched(FALSE)
    BY <1>4, <2>1, QuietSound DEF ReadsBack, Strikes, Quiet
  <2>2. CASE \E takes \in BOOLEAN : Performs(takes) /\ Dispatched(takes)
    BY <1>4, <2>2, Performing DEF ReadsBack, Strikes
  <2>. QED  BY <1>4, <2>1, <2>2 DEF ReadsBack
<1>5. CASE Navigates
  <2>1. PICK v \in {"yes", "no"}, ok \in BOOLEAN : Loads(v) /\ Dispatched(ok)
    BY <1>5 DEF Navigates
  <2>2. page \in [Fact -> Value] /\ target \subseteq Element /\ v \in Value
    BY DEF IInv, Typed, Value
  <2>3. page' \in [Fact -> Value]
    BY <2>1, <2>2 DEF Loads
  <2>4. target' \subseteq Element
    <3>1. target' \in {{}} \cup {{e} : e \in Element} \cup {target}
      BY <2>1 DEF Loads
    <3>. QED  BY <2>2, <3>1
  <2>5. held \subseteq held' /\ Shown' \subseteq held' /\ net' = net /\ pc = "act"
    BY <1>5 DEF Navigates, Remember, Shown, Strikes
  <2>. QED  BY <2>1, <2>3, <2>4, <2>5 DEF Sound
<1>6. CASE Clicks
  <2>1. \E takes \in BOOLEAN, ok \in BOOLEAN : Performs(takes) /\ Dispatched(ok)
    <3>1. PICK takes \in BOOLEAN, new \in SUBSET Unused : \E fate \in Found(new) :
            Performs(takes) /\ Dispatched(Allows(Op.pages, Cardinality(new)) /\ fate = "fine")
      BY <1>6 DEF Clicks
    <3>2. PICK fate \in Found(new) :
            Performs(takes) /\ Dispatched(Allows(Op.pages, Cardinality(new)) /\ fate = "fine")
      BY <3>1
    <3>3. (Allows(Op.pages, Cardinality(new)) /\ fate = "fine") \in BOOLEAN
      OBVIOUS
    <3>. QED  BY <3>2, <3>3
  <2>2. Sound /\ pc = "act"
    BY <1>6, <2>1, Performing DEF Clicks, Strikes
  <2>. QED  BY <2>1, <2>2
<1>7. CASE ClickFails
  BY <1>7, Performing DEF ClickFails, Strikes
<1>8. CASE ManagesPages
  <2>1. pc = "manage" /\ Sound
    BY <1>8, QuietSound DEF ManagesPages
  <2>2. \E ok \in BOOLEAN : Dispatched(ok)
    BY <1>8 DEF ManagesPages, IsOpen
  <2>. QED  BY <2>1, <2>2
<1>9. CASE PlainActs \/ PressesPageKey
  BY <1>1, <1>9 DEF PlainActs, PressesPageKey
<1>10. CASE AimsAtViewport \/ AimsAtElement
  BY <1>1, <1>2, <1>10 DEF AimsAtViewport, AimsAtElement, MovesPointer
<1>11. CASE SelectsOption \/ ChecksControl \/ ScrollsTo
  BY <1>1, <1>2, <1>3, <1>11 DEF SelectsOption, ChecksControl, ScrollsTo
<1>12. CASE UploadsFile \/ SelectsCombobox
  BY <1>4, <1>12 DEF UploadsFile, SelectsCombobox
<1>. QED  BY <1>5, <1>6, <1>7, <1>8, <1>9, <1>10, <1>11, <1>12 DEF Acts

LEMMA ActsKeep ==
    ASSUME IInv, Acts \/ TargetLost
    PROVE  IInv'
<1>1. CASE Acts
  <2>1. PICK ok \in BOOLEAN : Dispatched(ok)
    BY <1>1, ActsSend
  <2>2. pc \in Acting /\ Sound
    BY <1>1, ActsSend DEF Acting
  <2>. QED  BY <2>1, <2>2, Sent
<1>2. CASE TargetLost
  <2>1. pc \in Acting /\ Sound /\ Dispatched(FALSE)
    BY <1>2, QuietSound DEF TargetLost, Quiet, Acting
  <2>. QED  BY <2>1, Sent
<1>. QED  BY <1>1, <1>2

LEMMA WaitsKeep ==
    ASSUME IInv, WaitPolls
    PROVE  IInv'
<1>1. pc = "wait" /\ Sound
  BY QuietSound DEF WaitPolls, WaitMet, WaitHopeless, WaitTimesOut, WaitGoesOn, Waits
<1>2. /\ InAction /\ st \in Locals /\ st.results = <<>> /\ (st.skip => Op.absent # None)
      /\ Cardinality(st.picked) <= 1 /\ \A b \in st.picked : ToSet(Op.branches[b].when) \subseteq held
  BY <1>1, ActingLocals DEF Acting
<1>3. ASSUME NEW how \in {"satisfied", "timeout"}, Settles(how)
      PROVE  IInv'
  <2>. DEFINE s == [st EXCEPT !.ok = TRUE, !.waited = how]
  <2>1. st' = s /\ pc' = "dialogs" /\ UNCHANGED <<plan, i, steps>>
    BY <1>3 DEF Settles, Sets, Goes
  <2>2. s \in Locals /\ s.picked = st.picked /\ s.skip = st.skip /\ s.results = <<>>
    BY <1>2 DEF Locals
  <2>. HIDE DEF s
  <2>. QED  BY <1>1, <1>2, <2>1, <2>2, Advances DEF Sound, Acting
<1>4. CASE Dispatched(FALSE)
  BY <1>1, <1>4, Sent DEF Acting
<1>5. CASE UNCHANGED <<st, plan, i, pc, steps>>
  BY <1>1, <1>2, <1>5, Advances DEF Sound, Acting
<1>. QED  BY <1>3, <1>4, <1>5 DEF WaitPolls, WaitMet, WaitHopeless, WaitTimesOut, WaitGoesOn

LEMMA DialogsKeep ==
    ASSUME IInv, DialogsJudged
    PROVE  IInv'
<1>1. pc = "dialogs" /\ Sound
  BY QuietSound DEF DialogsJudged, Quiet
<1>2. /\ InAction /\ st \in Locals /\ st.results = <<>> /\ (st.skip => Op.absent # None)
      /\ Cardinality(st.picked) <= 1 /\ \A b \in st.picked : ToSet(Op.branches[b].when) \subseteq held
  BY <1>1, ActingLocals DEF Acting
<1>3. PICK dialogs \in {"none", "one", "wrong"} :
        \/ st' = [st EXCEPT !.ok = st.ok /\ DialogsAccepted(Op.dialog, dialogs)] /\ Goes("settled")
        \/ st.todo # <<>> /\ st' = [st EXCEPT !.todo = Tail(@)] /\ Goes("dispatch")
        \/ Receipt("execution_failed")
  BY DEF DialogsJudged, Sets
<1>4. CASE st' = [st EXCEPT !.ok = st.ok /\ DialogsAccepted(Op.dialog, dialogs)] /\ Goes("settled")
  <2>1. (st.ok /\ DialogsAccepted(Op.dialog, dialogs)) \in BOOLEAN
    OBVIOUS
  <2>2. st' \in Locals /\ st'.picked = st.picked /\ st'.skip = st.skip /\ st'.results = <<>>
    BY <1>2, <1>4, <2>1, LocalsKept
  <2>. QED  BY <1>1, <1>2, <1>4, <2>2, Advances DEF Sound, Goes, Acting
<1>5. CASE st.todo # <<>> /\ st' = [st EXCEPT !.todo = Tail(@)] /\ Goes("dispatch")
  <2>1. Tail(st.todo) \in Seq(Targeted)
    BY <1>2, <1>5 DEF Locals
  <2>2. st' \in Locals /\ st'.picked = st.picked /\ st'.skip = st.skip /\ st'.results = <<>>
    BY <1>2, <1>5, <2>1 DEF Locals
  <2>. QED  BY <1>1, <1>2, <1>5, <2>2, Advances DEF Sound, Goes, Acting
<1>6. CASE Receipt("execution_failed")
  BY <1>1, <1>2, <1>6, Receives DEF Sound, Verdict
<1>. QED  BY <1>3, <1>4, <1>5, <1>6
-----------------------------------------------------------------------------
(* Verification. *)

\* The traffic an observation saw after the action is there still.
Kept == \A r \in Req : /\ st.net[r].asked = "after" => net[r].asked = "after"
                       /\ st.net[r].answered = "after" => net[r].answered = "after"

Proven == \A k \in 1..Len(st.results) : st.results[k] = "pass" => Met(Expects[k])

\* The expectations of the running operation.
LEMMA ExpectsTyped ==
    ASSUME IInv, InAction
    PROVE  Expects \in Seq(Expectation)
<1>1. st.skip => Op.absent # None
  BY DEF IInv, AimInv
<1>. QED  BY <1>1, OpTyped, OpParts DEF IInv, Expects

\* A step within the verification.
LEMMA Verifying ==
    ASSUME IInv, pc \in After, pc' \in {"verify", "receipt"}, UNCHANGED <<plan, i, steps>>,
           page' \in [Fact -> Value], target' \subseteq Element, net' \in Nets, Shown' \subseteq held',
           st' \in Locals, st'.skip = st.skip, Kept', Proven', Len(st'.results) <= Len(Expects),
           pc' = "receipt" /\ st'.ok /\ Expects # <<>> => Len(st'.results) = Len(Expects)
    PROVE  IInv'
<1>. USE DEF IInv
<1>1. Typed'
  BY DEF Typed, After
<1>2. Op' = Op /\ Expects' = Expects /\ InAction /\ InAction'
  BY DEF Op, Expects, InAction, After
<1>3. OnCourse'
  BY <1>2 DEF OnCourse, After
<1>4. PreconditionInv' /\ GuardInv' /\ PickedInv'
  BY DEF PreconditionInv, GuardInv, PickedInv, Before, Acting
<1>5. AimInv'
  BY <1>2 DEF AimInv
<1>6. ProofInv'
  BY <1>2 DEF ProofInv, Kept, Proven
<1>. QED  BY <1>1, <1>3, <1>4, <1>5, <1>6

LEMMA PostKeeps ==
    ASSUME IInv, PostObserves
    PROVE  IInv'
<1>. DEFINE s(answer) == [st EXCEPT !.passkey = answer, !.net = net]
<1>1. /\ pc = "settled" /\ InAction /\ held' = Shown /\ UNCHANGED <<plan, i, steps, page, target, net>>
      /\ pc' = IF st.ok /\ Expects # <<>> THEN "verify" ELSE "receipt"
  BY DEF PostObserves, InAction, Goes, browser
<1>2. PICK answer \in {"none", "completed", "rejected", "unclear"} : st' = s(answer)
  BY DEF PostObserves, Sets
<1>3. st \in Locals /\ st.results = <<>> /\ net \in Nets /\ page \in [Fact -> Value] /\ target \subseteq Element
  BY <1>1 DEF IInv, Typed, PreconditionInv
<1>4. st' \in Locals /\ st'.skip = st.skip /\ st'.ok = st.ok /\ st'.results = <<>> /\ st'.net = net
  BY <1>2, <1>3 DEF Locals
<1>5. Expects \in Seq(Expectation) /\ Shown' = Shown /\ Len(st'.results) = 0
  BY <1>1, <1>4, ExpectsTyped DEF Shown
<1>6. Kept' /\ Proven'
  BY <1>1, <1>4, <1>5 DEF Kept, Proven
<1>. QED  BY <1>1, <1>3, <1>4, <1>5, <1>6, Verifying DEF After

\* A network expectation that passes is met by traffic after the action.
LEMMA NetworkMet ==
    ASSUME NEW e \in NetFacts, NEW records \in Nets, NetworkMatches(e, records) = "pass"
    PROVE  /\ e = "request" => \E r \in Req : records[r].asked = "after"
           /\ e = "response" => \E r \in Req : records[r].answered = "after"
<1>. DEFINE stamp(r) == IF e = "request" THEN records[r].asked ELSE records[r].answered
            post == {r \in DOMAIN records : PostAction(stamp(r))}
<1>1. post # {}
  BY FS_EmptySet DEF NetworkMatches
<1>2. PICK r \in DOMAIN records : stamp(r) = "after"
  BY <1>1 DEF PostAction
<1>3. r \in Req
  BY DEF Nets
<1>. QED  BY <1>2, <1>3

LEMMA VerifyKeeps ==
    ASSUME IInv, VerifyReads
    PROVE  IInv'
<1>. DEFINE k == Len(st.results) + 1
            e == Expects[k]
            reading == IF e \in NetFacts THEN NetworkMatches(e, st.net) ELSE Read(e)
            read == Append(st.results, reading)
            s == [st EXCEPT !.results = read]
<1>1. /\ pc = "verify" /\ InAction /\ Len(st.results) < Len(Expects) /\ Quiet
      /\ st' = s /\ pc' = "verify" /\ UNCHANGED <<plan, i, steps>>
  BY DEF VerifyReads, InAction, Sets, Goes
<1>2. /\ page' \in [Fact -> Value] /\ target' \subseteq Element /\ net' = net /\ net \in Nets
      /\ Shown' \subseteq held' /\ held' = held
  BY <1>1, StillShown DEF Quiet
<1>3. /\ st \in Locals /\ st.results \in Seq(Result) /\ st.net \in Nets /\ Kept /\ Proven
      /\ Shown \subseteq held
  BY <1>1, LocalsKept DEF IInv, Typed, ProofInv, Kept, Proven
<1>4. Expects \in Seq(Expectation)
  BY <1>1, ExpectsTyped
<1>5. k \in 1..Len(Expects) /\ e \in Expectation
  <2>1. k \in 1..Len(Expects)
    BY <1>1, <1>3, <1>4
  <2>. QED  BY <1>4, <2>1
<1>6. reading \in Result
  BY ReadingTyped, NetworkTyped DEF Read
<1>7. reading = "pass" => Met(e)
  <2>1. SUFFICES ASSUME reading = "pass" PROVE Met(e)
    OBVIOUS
  <2>2. CASE e \in NetFacts
    <3>1. NetworkMatches(e, st.net) = "pass"
      BY <2>1, <2>2
    <3>2. /\ e = "request" => \E r \in Req : st.net[r].asked = "after"
          /\ e = "response" => \E r \in Req : st.net[r].answered = "after"
      BY <1>3, <2>2, <3>1, NetworkMet
    <3>. HIDE DEF e
    <3>3. e = "request" \/ e = "response"
      BY <2>2 DEF NetFacts
    <3>4. CASE e = "request"
      <4>1. \E r \in Req : net[r].asked = "after"
        BY <1>3, <3>2, <3>4 DEF Kept
      <4>. QED  BY <3>4, <4>1 DEF Met
    <3>5. CASE e = "response"
      <4>1. \E r \in Req : net[r].answered = "after"
        BY <1>3, <3>2, <3>5 DEF Kept
      <4>. QED  BY <3>5, <4>1 DEF Met
    <3>. QED  BY <3>3, <3>4, <3>5
  <2>3. CASE e \notin NetFacts
    <3>1. ReadingOf(page[e]) = "pass"
      BY <2>1, <2>3 DEF Read, Snapshot
    <3>2. e \in Fact /\ page[e] = "yes"
      BY <1>5, <2>3, <3>1, PassHolds DEF Expectation
    <3>3. e \in held
      BY <1>3, <3>2 DEF Shown
    <3>4. e # "request" /\ e # "response"
      BY <2>3 DEF NetFacts
    <3>. HIDE DEF e
    <3>. QED  BY <3>3, <3>4 DEF Met
  <2>. QED  BY <2>2, <2>3
<1>. HIDE DEF reading
<1>8. read \in Seq(Result) /\ Len(read) = k
  BY <1>3, <1>6
<1>9. \A n \in 1..Len(read) : read[n] = "pass" => Met(Expects[n])
  <2>1. SUFFICES ASSUME NEW n \in 1..Len(read), read[n] = "pass" PROVE Met(Expects[n])
    OBVIOUS
  <2>2. CASE n = k
    BY <1>3, <1>6, <1>7, <2>1, <2>2
  <2>3. CASE n \in 1..Len(st.results)
    BY <1>3, <1>6, <2>1, <2>3 DEF Proven
  <2>. QED  BY <1>3, <1>8, <2>2, <2>3
<1>. HIDE DEF read, e
<1>10. /\ s \in Locals /\ s.results = read /\ s.skip = st.skip /\ s.net = st.net
  BY <1>3, <1>8 DEF Locals
<1>. HIDE DEF s
<1>11. Kept'
  BY <1>1, <1>2, <1>3, <1>10 DEF Kept
<1>12. Proven'
  <2>1. Expects' = Expects /\ st'.results = read
    BY <1>1, <1>10 DEF Expects, Op
  <2>2. \A x : Met(x)' <=> Met(x)
    BY <1>2 DEF Met
  <2>. QED  BY <1>9, <2>1, <2>2 DEF Proven
<1>13. Len(st'.results) <= Len(Expects)
  BY <1>1, <1>4, <1>5, <1>8, <1>10
<1>. QED  BY <1>1, <1>2, <1>10, <1>11, <1>12, <1>13, Verifying DEF After

LEMMA RoundKeeps ==
    ASSUME IInv, RoundEnds
    PROVE  IInv'
<1>1. /\ pc = "verify" /\ InAction /\ Len(st.results) = Len(Expects)
      /\ UNCHANGED <<plan, i, steps, page, target, net>>
  BY DEF RoundEnds, InAction, Goes, browser
<1>2. /\ st \in Locals /\ st.results \in Seq(Result) /\ Kept /\ Proven /\ net \in Nets
      /\ page \in [Fact -> Value] /\ target \subseteq Element /\ Shown \subseteq held
  BY <1>1, LocalsKept DEF IInv, Typed, ProofInv, Kept, Proven
<1>3. Expects \in Seq(Expectation) /\ Shown' = Shown
  BY <1>1, ExpectsTyped DEF Shown
<1>4. CASE Goes("receipt") /\ UNCHANGED <<st, held>>
  <2>1. Kept' /\ Proven'
    BY <1>1, <1>2, <1>4 DEF Kept, Proven, Met, Expects, Op
  <2>2. pc' = "receipt" /\ Len(st'.results) <= Len(Expects)
    BY <1>1, <1>3, <1>4 DEF Goes
  <2>. QED  BY <1>1, <1>2, <1>3, <1>4, <2>1, <2>2, Verifying DEF After
<1>5. CASE Goes("verify") /\ held' = Shown /\ st' = [st EXCEPT !.results = <<>>, !.net = net]
  <2>1. <<>> \in Seq(Result)
    OBVIOUS
  <2>2. st' \in Locals /\ st'.results = <<>> /\ st'.skip = st.skip /\ st'.net = net
    BY <1>2, <1>5, <2>1 DEF Locals
  <2>3. Len(st'.results) = 0 /\ Len(st'.results) <= Len(Expects)
    BY <1>3, <2>2
  <2>4. Kept' /\ Proven'
    BY <1>1, <2>2, <2>3 DEF Kept, Proven
  <2>5. pc' = "verify"
    BY <1>5 DEF Goes
  <2>. QED  BY <1>1, <1>2, <1>3, <1>5, <2>2, <2>3, <2>4, <2>5, Verifying DEF After
<1>. QED  BY <1>4, <1>5 DEF RoundEnds, Sets, ReadsAnew

LEMMA QuorumTyped ==
    ASSUME NEW o, NEW s, NEW expects
    PROVE  QuorumVerdict(o, s, expects) \in Verdict
BY DEF QuorumVerdict, Verdict

LEMMA FinalTyped ==
    ASSUME NEW o, NEW s, NEW expects
    PROVE  FinalVerdict(o, s, expects) \in Verdict
<1>1. DecideVerdict(o, s, expects) \in Verdict
  BY DEF DecideVerdict, VerdictOfResults, Verdict
<1>2. \A v \in Verdict : WithPasskey(v, s.passkey, expects) \in Verdict
  BY DEF WithPasskey, Verdict
<1>. QED  BY <1>1, <1>2, QuorumTyped DEF FinalVerdict

\* VERIFIED of an ordinary operation: its action was dispatched, and its expectations,
\* where it has some, passed.
LEMMA FinalMeans ==
    ASSUME NEW o, NEW s, NEW expects, Ordinary(o), FinalVerdict(o, s, expects) = "verified",
           s.results \in Seq(Result), expects # <<>>
    PROVE  s.ok /\ \A k \in 1..Len(s.results) : s.results[k] = "pass"
<1>1. s.ok /\ WithPasskey(DecideVerdict(o, s, expects), s.passkey, expects) = "verified"
  BY DEF FinalVerdict, Ordinary, DecideVerdict
<1>2. DecideVerdict(o, s, expects) = "verified"
  BY <1>1 DEF WithPasskey
<1>3. ~VerifiedByDispatch(o, s, expects)
  BY DEF VerifiedByDispatch, Ordinary
<1>4. VerdictOfResults(s.results, expects) = "verified"
  BY <1>2, <1>3 DEF DecideVerdict
<1>5. ~Some(s.results, "indeterminate") /\ ~Some(s.results, "fail")
  BY <1>4 DEF VerdictOfResults
<1>. QED  BY <1>1, <1>5 DEF Some, Result

LEMMA EndsKeep ==
    ASSUME IInv, ReceiptBuilt \/ Raises
    PROVE  IInv'
<1>1. InAction /\ Quiet
  BY DEF ReceiptBuilt, Raises, InAction
<1>2. /\ page' \in [Fact -> Value] /\ target' \subseteq Element /\ net' = net /\ Shown' \subseteq held'
  BY <1>1, StillShown DEF Quiet
<1>3. \E v \in Verdict : Receipt(v)
  <2>1. "execution_failed" \in Verdict
    BY DEF Verdict
  <2>. QED  BY <2>1, FinalTyped DEF ReceiptBuilt, Raises
<1>. QED  BY <1>1, <1>2, <1>3, Receives
-----------------------------------------------------------------------------
(* The invariant. *)

LEMMA Beginning ==
    ASSUME Init
    PROVE  IInv
<1>1. plan \in Plan
  BY PlansAssumption DEF Init
<1>2. page \in [Fact -> Value] /\ \A f \in Fact : page[f] # "yes"
  BY DEF Init, Value
<1>3. net \in Nets /\ target \subseteq Element
  BY DEF Init, Nets, Stamp
<1>4. Fresh \in Locals
  <2>1. 0 \in Places /\ {} \in SUBSET Nat /\ "no" \in Value
    BY DEF Places, Value
  <2>2. <<>> \in Seq(Result) /\ <<>> \in Seq(Seq(Result)) /\ <<>> \in Seq(Targeted)
    OBVIOUS
  <2>. QED  BY <1>3, <2>1, <2>2 DEF Fresh, Locals
<1>5. Typed
  BY <1>1, <1>2, <1>3, <1>4 DEF Init, Typed, Shown
<1>6. OnCourse
  BY DEF Init, OnCourse, InAction, All
<1>7. PreconditionInv /\ GuardInv /\ PickedInv /\ ProofInv /\ AimInv
  BY DEF Init, PreconditionInv, GuardInv, PickedInv, ProofInv, AimInv, Before, Acting, InAction
<1>. QED  BY <1>5, <1>6, <1>7 DEF IInv

LEMMA Stutters ==
    ASSUME IInv, UNCHANGED vars
    PROVE  IInv'
<1>1. UNCHANGED <<plan, i, pc, st, steps, page, target, net, held>>
  BY DEF vars, browser
<1>2. Shown' = Shown
  BY <1>1 DEF Shown
<1>. QED  BY <1>1, <1>2, Environment DEF IInv, Typed

LEMMA Keeping ==
    ASSUME IInv, [Next]_vars
    PROVE  IInv'
<1>1. CASE Validates \/ BackendStarts \/ OperationBegins
  BY <1>1, Begins, OperationKeeps
<1>2. CASE Checks
  BY <1>2, LegacyKeeps, ReadsKeep, NavigateKeeps, DeadlineKeeps, ObservesKeeps DEF Checks
<1>3. CASE Guards
  BY <1>3, GuardReadsKeep, ChoiceKeeps, ProbeKeeps DEF Guards
<1>4. CASE Dispatches
  BY <1>4, DispatchKeeps, LocatesKeep, PreparesKeep, ResolvesKeep, ActsKeep, WaitsKeep, DialogsKeep
     DEF Dispatches
<1>5. CASE Verifies
  BY <1>5, PostKeeps, VerifyKeeps, RoundKeeps, EndsKeep DEF Verifies
<1>6. CASE Raises
  BY <1>6, EndsKeep
<1>7. CASE PageChanges \/ NetworkMoves \/ Tick
  BY <1>7, BrowserKeeps
<1>8. CASE UNCHANGED vars
  BY <1>8, Stutters
<1>. QED  BY <1>1, <1>2, <1>3, <1>4, <1>5, <1>6, <1>7, <1>8 DEF Next, Executes

\* What the readings taken so far say is true of the facts that held, in every state of
\* every execution.
THEOREM ReadingsAreTrue == Spec => []IInv
<1>1. Init => IInv
  BY Beginning
<1>2. IInv /\ [Next]_vars => IInv'
  BY Keeping
<1>. QED  BY <1>1, <1>2, PTL DEF Spec
-----------------------------------------------------------------------------
(* Actions. *)

\* Only an action that is sent counts as one.
LEMMA ActsAreActions ==
    ASSUME [Next]_vars, acts' # acts
    PROVE  Acts
<1>1. ~(Validates \/ BackendStarts \/ OperationBegins)
  BY DEF Validates, BackendStarts, OperationBegins, Quiet
<1>2. ~Checks
  BY DEF Checks, LegacyPrecondition, PreconditionReads, NavigateHasNone, DeadlineChecked, Observes,
         Quiet
<1>3. ~Guards
  BY DEF Guards, GuardReads, GuardChooses, GuardProbes, Quiet
<1>4. ~(DispatchBegins \/ Locates \/ Prepares \/ Resolves \/ TargetLost \/ DialogsJudged)
  BY DEF DispatchBegins, Locates, Prepares, Resolves, TargetLost, DialogsJudged, Quiet
<1>5. ~WaitPolls
  BY DEF WaitPolls, WaitMet, WaitHopeless, WaitTimesOut, WaitGoesOn, Waits
<1>6. ~(Verifies \/ Raises)
  BY DEF Verifies, PostObserves, VerifyReads, RoundEnds, ReceiptBuilt, Raises, Quiet
<1>7. ~(PageChanges \/ NetworkMoves \/ Tick)
  BY DEF PageChanges, NetworkMoves, Tick
<1>8. Next
  BY DEF vars
<1>. QED  BY <1>1, <1>2, <1>3, <1>4, <1>5, <1>6, <1>7, <1>8 DEF Next, Executes, Dispatches

\* No action reaches the page before every step behind it is VERIFIED, its preconditions
\* have held since its operation began, and at most one branch was picked, all of whose
\* conditions held as well.
THEOREM ActionsAreAllowed == Spec => ActsOnlyWhenAllowed
<1>. DEFINE Allowed ==
       /\ All(steps, "verified") /\ Len(steps) = i - 1
       /\ Op.kind # "navigate" => IF Op.pre = None THEN "url" \in held ELSE ToSet(Op.pre) \subseteq held
       /\ Cardinality(st.picked) <= 1 /\ \A b \in st.picked : ToSet(Op.branches[b].when) \subseteq held
<1>1. ASSUME IInv, [Next]_vars, acts' # acts PROVE Allowed
  <2>1. pc \in Acting
    BY <1>1, ActsAreActions, ActsSend DEF Acting
  <2>2. InAction /\ All(steps, "verified") /\ Len(steps) = i - 1
    BY <1>1, <2>1, ActingLocals DEF IInv, OnCourse, Acting
  <2>3. PreHeld
    BY <1>1, <2>1 DEF IInv, PreconditionInv
  <2>4. PickedInv
    BY <1>1 DEF IInv
  <2>. QED  BY <2>1, <2>2, <2>3, <2>4 DEF PreHeld, PickedInv
<1>2. IInv /\ [Next]_vars => [acts' # acts => Allowed]_vars
  BY <1>1
<1>. QED  BY <1>2, ReadingsAreTrue, PTL DEF Spec, ActsOnlyWhenAllowed

\* A bound action strikes the element its preparation showed, or none, whatever the page
\* puts in its place meanwhile.
THEOREM BoundActionsStrike == Spec => StrikesPrepared
<1>1. ASSUME IInv, [Next]_vars, acts' # acts, Kind \in Targeted, Op.bound # None
      PROVE  Struck = {Op.bound}
  <2>1. Acts
    BY <1>1, ActsAreActions
  <2>2. pc = "act"
    <3>1. pc = "manage" => Kind \in PageActions
      BY <1>1 DEF IInv, AimInv
    <3>. QED  BY <1>1, <2>1, <3>1, ActsSend, KindsApart
  <2>3. Strikes
    BY <2>1, <2>2
       DEF Acts, PlainActs, PressesPageKey, AimsAtViewport, AimsAtElement, MovesPointer, SelectsOption,
           ChecksControl, ScrollsTo, UploadsFile, SelectsCombobox, Sends, Refuses, LeftAlone, ReadsBack,
           Navigates, Clicks, ClickFails, ManagesPages
  <2>4. Struck # {}
    BY <1>1, <2>3 DEF Strikes
  <2>5. st.place = Op.bound
    BY <1>1, <2>2 DEF IInv, AimInv
  <2>6. Struck \subseteq {st.place}
    BY <1>1 DEF Struck
  <2>. QED  BY <2>4, <2>5, <2>6
<1>2. IInv /\ [Next]_vars => [acts' # acts /\ Kind \in Targeted /\ Op.bound # None => Struck = {Op.bound}]_vars
  BY <1>1
<1>. QED  BY <1>2, ReadingsAreTrue, PTL DEF Spec, StrikesPrepared
-----------------------------------------------------------------------------
(* Receipts. *)

\* A receipt is the last of the verdicts.
LEMMA ReceiptIsLast ==
    ASSUME IInv, NEW v \in Verdict, Receipt(v)
    PROVE  Last(steps') = v
<1>1. steps' = Append(steps, v) /\ steps \in Seq(Verdict)
  BY DEF Receipt, Ends, IInv, OnCourse
<1>2. Len(steps') = Len(steps) + 1 /\ steps'[Len(steps) + 1] = v
  BY <1>1
<1>. QED  BY <1>2 DEF Last

\* A step that says VERIFIED is a receipt built at the end of an operation.
LEMMA VerifiedIsBuilt ==
    ASSUME IInv, [Next]_vars, Len(steps') > Len(steps), Last(steps') = "verified"
    PROVE  ReceiptBuilt
<1>1. \A v \in {"not_verified", "indeterminate", "execution_failed"} : ~Receipt(v)
  BY ReceiptIsLast DEF Verdict
<1>2. steps' # steps /\ Len(steps) \in Nat
  BY DEF IInv, OnCourse
<1>3. ~Ends(<<>>)
  BY <1>2 DEF Ends
<1>4. ~(Validates \/ BackendStarts \/ OperationBegins)
  BY <1>2, <1>3 DEF Validates, BackendStarts, OperationBegins, Goes
<1>5. ~Checks
  BY <1>1, <1>2 DEF Checks, LegacyPrecondition, PreconditionReads, NavigateHasNone,
     DeadlineChecked, Observes, Goes
<1>6. ~Guards
  BY <1>1, <1>2 DEF Guards, GuardReads, GuardChooses, GuardProbes, Goes
<1>7. ~(DispatchBegins \/ Locates \/ Prepares \/ Resolves \/ TargetLost)
  BY <1>2 DEF DispatchBegins, Locates, Prepares, Resolves, TargetLost, Dispatched, Goes
<1>8. ~Acts
  BY <1>2, ActsSend DEF Dispatched, Goes
<1>9. ~(WaitPolls \/ DialogsJudged)
  BY <1>1, <1>2 DEF WaitPolls, WaitMet, WaitHopeless, WaitTimesOut, WaitGoesOn, Settles,
     Dispatched, Goes, DialogsJudged
<1>10. ~(PostObserves \/ VerifyReads \/ RoundEnds \/ Raises)
  BY <1>1, <1>2 DEF PostObserves, VerifyReads, RoundEnds, Raises, Goes
<1>11. ~(PageChanges \/ NetworkMoves \/ Tick)
  BY <1>2 DEF PageChanges, NetworkMoves, Tick
<1>12. Next
  BY <1>2 DEF vars
<1>. QED  BY <1>4, <1>5, <1>6, <1>7, <1>8, <1>9, <1>10, <1>11, <1>12 DEF Next, Executes, Dispatches, Verifies

\* A receipt that says VERIFIED of an ordinary operation: each of its expectations held
\* at some moment of one round of readings after the action, and each network expectation
\* is met by traffic after the action.
THEOREM VerifiedReceiptsAreProven == Spec => VerifiedIsProven
<1>. DEFINE Claim == Len(steps') > Len(steps) /\ Last(steps') = "verified" /\ Ordinary(Op)
            Shown1 == \A e \in ToSet(Expects) : Met(e)
<1>1. ASSUME IInv, [Next]_vars, Claim PROVE Shown1
  <2>1. ReceiptBuilt
    BY <1>1, VerifiedIsBuilt
  <2>2. pc = "receipt" /\ InAction
    BY <2>1 DEF ReceiptBuilt, InAction
  <2>3. FinalVerdict(Op, st, Expects) = "verified"
    <3>1. PICK v \in Verdict : Receipt(v) /\ v \in {FinalVerdict(Op, st, Expects), "execution_failed"}
      BY <2>1, FinalTyped DEF ReceiptBuilt, Verdict
    <3>2. v = "verified"
      BY <1>1, <3>1, ReceiptIsLast
    <3>. QED  BY <3>1, <3>2
  <2>4. Expects \in Seq(Expectation) /\ st.results \in Seq(Result)
    BY <1>1, <2>2, ExpectsTyped, LocalsKept DEF IInv, Typed
  <2>5. CASE Expects = <<>>
    BY <2>5 DEF ToSet
  <2>6. CASE Expects # <<>>
    <3>1. st.ok /\ \A k \in 1..Len(st.results) : st.results[k] = "pass"
      BY <1>1, <2>3, <2>4, <2>6, FinalMeans
    <3>2. Len(st.results) = Len(Expects) /\ \A k \in 1..Len(st.results) : st.results[k] = "pass" => Met(Expects[k])
      BY <1>1, <2>2, <2>6, <3>1 DEF IInv, ProofInv
    <3>3. \A k \in 1..Len(Expects) : Met(Expects[k])
      BY <3>1, <3>2
    <3>. QED  BY <2>4, <3>3 DEF ToSet
  <2>. QED  BY <2>5, <2>6
<1>2. IInv /\ [Next]_vars => [Claim => Shown1]_vars
  BY <1>1
<1>3. [][Claim => Shown1]_vars => VerifiedIsProven
  BY PTL DEF VerifiedIsProven, Met
<1>. QED  BY <1>2, <1>3, ReadingsAreTrue, PTL DEF Spec
=============================================================================
