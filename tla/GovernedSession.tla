--------------------------- MODULE GovernedSession ---------------------------
(***************************************************************************)
(* One retained browser session of runtime/stateful_session.py: its control *)
(* lease, its authority budgets, its signed plan, its prepared operations,  *)
(* its mutation epoch and its receipt chain.                                *)
(*                                                                          *)
(* Every public call takes the record's lock without blocking and keeps it  *)
(* to its end, so the calls of agents do not interleave with each other.    *)
(* The browser, the deadlines and the backend process do not wait for that  *)
(* lock.  A call that reads the browser more than once is therefore split   *)
(* at those reads, and "call" is the call that holds the lock.              *)
(***************************************************************************)
EXTENDS Integers, Sequences, FiniteSets

CONSTANTS
    Agent,               \* controllers known to the host
    NoAgent,             \* an offer open to any recipient
    Op,                  \* operations a planner may propose
    ActionType,          \* the action types those operations use
    Primary,             \* [Op -> ActionType]: Operation.action.type
    Alternatives,        \* [Op -> SUBSET Seq(ActionType)]: the action lists of a
                         \* branching guard, {} without one
    SkipGuarded,         \* operations with a legacy target-absent guard
    Consequential,       \* AuthorityEnvelope.require_preparation_for
    Irreversible,        \* AuthorityEnvelope.irreversible_action_types
    MaxActionCount,      \* AuthorityEnvelope.max_action_count
    MaxSideEffectCount,  \* AuthorityEnvelope.max_side_effect_count
    TransferPrepared,    \* AuthorityEnvelope.transfer_prepared_operations
    MutationPolicy,      \* record.mutation_policy, "none" when not configured
    Plan                 \* the operations of the plan the host may bind

CONSTANTS                \* bounds of an instance, not of the program
    MaxPage, MaxPreps, MaxControl, MaxReceipts, MaxMutation,
    Observers,           \* agents that observe
    Recipients,          \* recipients that offers name
    Events               \* the events around the calls that the instance includes

Policies == {"none", "fail_on_external_mutation", "require_reprepare", "human_priority"}

Deadlines == {"policy", "plan"}

AllEvents == Deadlines \cup {"preparation", "offer", "scope", "page", "blind", "death",
                             "external", "close", "idle"}

Guarded(op) == Alternatives[op] # {}

Sides(acts) == Cardinality({i \in DOMAIN acts : acts[i] \in Irreversible})

ASSUME OperationsAssumption ==
    /\ NoAgent \notin Agent
    /\ Primary \in [Op -> ActionType]
    /\ Alternatives \in [Op -> SUBSET Seq(ActionType)]
    /\ SkipGuarded \subseteq {op \in Op : ~Guarded(op)}
    /\ Consequential \subseteq ActionType
    /\ Irreversible \subseteq ActionType
    /\ Plan \in Seq(Op)

\* A guard has finitely many branches: one of them is the longest and one has
\* the most irreversible actions.
ASSUME GuardsAssumption ==
    \A op \in Op : Guarded(op) =>
        /\ \E b \in Alternatives[op] : \A c \in Alternatives[op] : Len(c) <= Len(b)
        /\ \E b \in Alternatives[op] : \A c \in Alternatives[op] : Sides(c) <= Sides(b)

ASSUME PolicyAssumption ==
    /\ MaxActionCount \in Nat
    /\ MaxSideEffectCount \in Nat
    /\ TransferPrepared \in BOOLEAN
    /\ MutationPolicy \in Policies

ASSUME BoundsAssumption ==
    /\ MaxPage \in Nat
    /\ MaxPreps \in Nat
    /\ MaxControl \in Nat
    /\ MaxReceipts \in Nat
    /\ MaxMutation \in Nat
    /\ Observers \subseteq Agent
    /\ Recipients \subseteq Agent \cup {NoAgent}
    /\ Events \subseteq AllEvents

VARIABLES
    status,         \* record.status
    alive,          \* backend.is_started
    page,           \* the browser page: a revision and whether its origin is in scope
    lapsed,         \* the deadlines that have passed: "policy", "plan"
    agent,          \* record.agent_id
    epoch,          \* record.control_epoch; it also names the control token minted with it
    held,           \* held[a]: the control tokens agent a was given
    offer,          \* record.pending_handoffs: at most one offer
    mutationEpoch,  \* record.mutation_epoch
    seen,           \* record.mutation_state_fingerprint: the revision it was taken from
    stale,          \* history: an external mutation was recorded and nobody observed since
    preps,          \* record.preparations, in order of minting: the token is the index
    actionCount,    \* record.authority_action_count
    sideCount,      \* record.authority_side_effect_count
    planIdx,        \* record.signed_plan_next_index, -1 while no plan is bound
    chain,          \* record.receipt_chain
    obs,            \* obs[a]: the reference agent a kept from its last observation
    attempts,       \* history: number of backend.dispatch calls
    call            \* the call that holds record.lock

browser  == <<alive, page, lapsed>>
control  == <<agent, epoch, held, offer>>
monitor  == <<mutationEpoch, seen, stale>>
budget   == <<actionCount, sideCount>>
ledger   == <<budget, planIdx, chain, obs, attempts>>
allButCall == <<status, browser, control, monitor, preps, ledger>>
vars == <<allButCall, call>>
-----------------------------------------------------------------------------
(* Records. *)

NoOffer == [epoch |-> -1, from |-> NoAgent, to |-> NoAgent, mutation |-> -1]
NoRef   == [control |-> -1, mutation |-> -1, ver |-> -1]
NoToken == 0
NoEpoch == -1      \* a reference may leave either epoch out: None in the code

\* The call a free lock stands for.
Free == [stage |-> "free", agent |-> NoAgent, lease |-> -1, op |-> NoAgent,
         tok |-> NoToken, ref |-> NoRef, ver |-> 0, todo |-> <<>>, done |-> <<>>,
         out |-> "none"]

Offer == [epoch : Nat, from : Agent, to : Agent \cup {NoAgent}, mutation : Nat]
Observed == [control : Nat, mutation : Nat, ver : Nat]
Ref   == [control : Nat \cup {NoEpoch}, mutation : Nat \cup {NoEpoch}, ver : Nat]
Prep  == [op : Op, ver : Nat, mutation : Nat, epoch : Nat, offered : BOOLEAN,
          expired : BOOLEAN, status : {"PREPARED", "COMMITTED", "INVALIDATED"}]
Stages   == {"capture", "recheck", "begin", "select", "dispatch", "settle"}
Outcomes == {"none", "refused", "skipped", "done", "branch_failed", "fault"}
Call  == [stage : Stages, agent : Agent, lease : Nat, op : Op, tok : Nat,
          ref : Ref \cup {NoRef}, ver : Nat, todo : Seq(ActionType),
          done : Seq(ActionType), out : Outcomes]
Receipt == [op : Op, epoch : Nat, lease : Nat, tok : Nat, step : Nat,
            out : Outcomes, acts : Seq(ActionType)]

\* A call that has entered: the caller, its lease, and what it asks for.
Entered(stage, a, l, op, tok, ref) ==
    [stage |-> stage, agent |-> a, lease |-> l, op |-> op, tok |-> tok, ref |-> ref,
     ver |-> 0, todo |-> <<>>, done |-> <<>>, out |-> "none"]

Started(out) == out \in {"done", "skipped"}    \* receipt.action_started_at_ms is set
-----------------------------------------------------------------------------
(* The authority firewall: every action a guard could dispatch, with the    *)
(* worst case of its branches reserved.                                     *)

ActionsOf(acts) == {acts[i] : i \in DOMAIN acts}

GovernedTypes(op) ==
    IF Guarded(op) THEN UNION {ActionsOf(b) : b \in Alternatives[op]} ELSE {Primary[op]}

Largest(S) == CHOOSE n \in S : \A m \in S : m <= n

\* Mutant: one action is reserved, whatever the guard's branches hold.
ReservesOne(op) == 1

ReservedActions(op) ==
    IF Guarded(op) THEN Largest({Len(b) : b \in Alternatives[op]}) ELSE 1

ReservedSides(op) ==
    IF Guarded(op) THEN Largest({Sides(b) : b \in Alternatives[op]}) ELSE Sides(<<Primary[op]>>)

BeyondFirst(n) == IF n = 0 THEN 0 ELSE n - 1

\* A guard whose lists are all empty is checked with the outer action.
Candidates(op) == IF GovernedTypes(op) = {} THEN {Primary[op]} ELSE GovernedTypes(op)

\* AuthorityFirewall.decide on one action, for the checks that depend on the state.
Decide(irreversible, acts, sides) ==
    /\ "policy" \notin lapsed
    /\ page.inScope
    /\ acts < MaxActionCount
    /\ irreversible => sides < MaxSideEffectCount

Authorized(op) ==
    \A t \in Candidates(op) :
        Decide(t \in Irreversible, actionCount + BeyondFirst(ReservedActions(op)),
                                   sideCount + BeyondFirst(ReservedSides(op)))

\* Mutant: only a guard's branch actions are looked up.
NeedsPreparationInGuards(op) == Guarded(op) /\ GovernedTypes(op) \cap Consequential # {}

NeedsPreparation(op) == GovernedTypes(op) \cap Consequential # {}

\* What a receipt charges: the branch actions it lists when there is a branching
\* guard, else one action once a dispatch time is recorded.
ChargedActs(op, out, acts) ==
    CASE Guarded(op) /\ out = "done" -> SubSeq(acts, 1, Len(acts) - 1)
      [] Guarded(op) /\ out = "branch_failed" -> acts
      [] ~Guarded(op) /\ Started(out) -> <<Primary[op]>>
      [] OTHER -> <<>>
-----------------------------------------------------------------------------
(* The signed plan. *)

PlanAllows(op) ==
    planIdx >= 0 => /\ "plan" \notin lapsed
                    /\ planIdx < Len(Plan)
                    /\ op = Plan[planIdx + 1]

Step == IF planIdx >= 0 THEN planIdx + 1 ELSE 0

\* Mutant: a refusal before dispatch consumes the plan step as well.
NextStepAlways(out) == IF planIdx >= 0 THEN planIdx + 1 ELSE planIdx

\* A plan step is consumed once a receipt records its dispatch.
NextStep(out) == IF planIdx >= 0 /\ Started(out) THEN planIdx + 1 ELSE planIdx
-----------------------------------------------------------------------------
(* The mutation monitor.  A refresh compares the page with the revision it   *)
(* saw last; a monitor that cannot read the page counts as a mutation.       *)

Arbitrated == MutationPolicy # "none"

\* Mutant: spent tokens are invalidated with the prepared ones.
RetiredAll(ps) == [t \in DOMAIN ps |-> [ps[t] EXCEPT !.status = "INVALIDATED"]]

\* Mutant: a new mutation epoch leaves the prepared operations alone.
RetiredNone(ps) == ps

Retired(ps) ==
    [t \in DOMAIN ps |-> IF ps[t].status = "PREPARED"
                          THEN [ps[t] EXCEPT !.status = "INVALIDATED"] ELSE ps[t]]

Changed(blind) == Arbitrated /\ (blind \/ page.ver # seen)

AfterRefresh(blind) == IF Changed(blind) THEN Retired(preps) ELSE preps

Refresh(blind) ==
    /\ blind => Arbitrated /\ "blind" \in Events /\ mutationEpoch < MaxMutation
    /\ seen' = IF Arbitrated /\ ~blind THEN page.ver ELSE seen
    /\ mutationEpoch' = IF Changed(blind) THEN mutationEpoch + 1 ELSE mutationEpoch
    /\ stale' = (stale \/ Changed(blind))

\* Mutant: only the fail policy stops an operation that cites no observation.
MutationRejectsOnFail(blind, fresh) == Changed(blind) /\ MutationPolicy = "fail_on_external_mutation"

\* _reject_mutation_if_policy_requires
MutationRejects(blind, fresh) == Changed(blind) /\ (MutationPolicy = "fail_on_external_mutation" \/ ~fresh)
-----------------------------------------------------------------------------
(* Entering a call: _access finds the record open, the lock is free, and     *)
(* the caller presents the controller's id with the token of this epoch.     *)

\* Mutant: the agent id alone is the lease.
EnterById(a, l) == call = Free /\ status = "open" /\ l \in held[a] /\ a = agent

Enter(a, l) ==
    /\ call = Free
    /\ status = "open"
    /\ l \in held[a]
    /\ a = agent
    /\ l = epoch

Init ==
    /\ status = "open" /\ alive = TRUE
    /\ page = [ver |-> 0, inScope |-> TRUE]
    /\ lapsed = {}
    /\ agent \in Agent
    /\ epoch = 0
    /\ held = [a \in Agent |-> IF a = agent THEN {0} ELSE {}]
    /\ offer = NoOffer
    /\ mutationEpoch = 0 /\ seen = 0 /\ stale = FALSE
    /\ preps = <<>>
    /\ actionCount = 0 /\ sideCount = 0
    /\ planIdx = -1
    /\ chain = <<>>
    /\ obs = [a \in Agent |-> NoRef]
    /\ attempts = 0
    /\ call = Free

\* observe_page: read-only for the record, no refresh of the monitor, and open
\* to a caller who presents no lease.
Observe(a) ==
    /\ call = Free /\ status = "open" /\ alive
    /\ obs' = [obs EXCEPT ![a] =
                  [control |-> epoch, mutation |-> mutationEpoch, ver |-> page.ver]]
    /\ stale' = FALSE
    /\ UNCHANGED <<status, browser, control, mutationEpoch, seen, preps, budget,
                   planIdx, chain, attempts, call>>

PrepareAdmits(op, blind) ==
    /\ ~MutationRejects(blind, TRUE)
    /\ NeedsPreparation(op)
    /\ ~Guarded(op)
    /\ Authorized(op)

\* prepare_operation up to its capture of the page.
PrepareBegin(a, l, op) ==
    /\ Enter(a, l) /\ alive
    /\ PlanAllows(op)
    /\ Len(preps) < MaxPreps
    /\ \E blind \in BOOLEAN :
        /\ Refresh(blind)
        /\ preps' = AfterRefresh(blind)
        /\ call' = IF PrepareAdmits(op, blind)
                   THEN Entered("capture", a, l, op, NoToken, NoRef)
                   ELSE Free
    /\ UNCHANGED <<status, browser, control, ledger>>

\* The capture and the record that binds the token to it.
PrepareCapture ==
    /\ call.stage = "capture" /\ alive
    /\ preps' = Append(preps,
          [op |-> call.op, ver |-> page.ver, mutation |-> mutationEpoch, epoch |-> epoch,
           offered |-> offer # NoOffer, expired |-> FALSE, status |-> "PREPARED"])
    /\ call' = Free
    /\ UNCHANGED <<status, browser, control, monitor, ledger>>

\* Mutant: the failure of a dead browser keeps the lock.
CaptureRaisesAlive ==
    /\ call.stage \in {"capture", "recheck"} /\ alive
    /\ call' = Free
    /\ UNCHANGED allButCall

\* A capture that raises (target gone or ambiguous, page unreadable) leaves the
\* record as it was, for a prepare and for a commit.
CaptureRaises ==
    /\ call.stage \in {"capture", "recheck"}
    /\ call' = Free
    /\ UNCHANGED allButCall
-----------------------------------------------------------------------------
(* commit_operation: the record's own checks, a second capture compared with *)
(* the prepared one, then the token is consumed and the operation executed.  *)

Invalidate(ps, t) == [ps EXCEPT ![t].status = "INVALIDATED"]

\* The checks up to the second capture.  "given" is the operation the caller
\* may send along with the token.
CommitBegin(a, l, t, given) ==
    /\ Enter(a, l) /\ (Arbitrated => alive)
    /\ Len(chain) < MaxReceipts
    /\ \E blind \in BOOLEAN :
        LET known == t \in DOMAIN preps /\ AfterRefresh(blind)[t].status = "PREPARED"
            overdue == \/ preps[t].expired
                       \/ Arbitrated /\ preps[t].mutation # mutationEpoch'
                       \/ Changed(blind) /\ MutationPolicy = "fail_on_external_mutation"
        IN  /\ Refresh(blind)
            /\ preps' = IF known /\ overdue THEN Invalidate(AfterRefresh(blind), t)
                                            ELSE AfterRefresh(blind)
            /\ call' = IF known /\ ~overdue /\ given = preps[t].op
                       THEN Entered("recheck", a, l, preps[t].op, t, NoRef)
                       ELSE Free
    /\ UNCHANGED <<status, browser, control, ledger>>

\* The capture and the firewall again; the token is consumed before dispatch.
CommitRecheck ==
    /\ call.stage = "recheck" /\ alive
    /\ IF page.ver = preps[call.tok].ver /\ Authorized(call.op)
       THEN /\ preps' = [preps EXCEPT ![call.tok].status = "COMMITTED"]
            /\ call' = [call EXCEPT !.stage = "begin"]
       ELSE /\ preps' = Invalidate(preps, call.tok)
            /\ call' = Free
    /\ UNCHANGED <<status, browser, control, monitor, ledger>>
-----------------------------------------------------------------------------
(* execute_operation, called by an agent or nested in a commit.              *)

ReceiptOf(c, out) ==
    [op |-> c.op, epoch |-> epoch, lease |-> c.lease, tok |-> c.tok, step |-> Step,
     out |-> out, acts |-> c.done]

\* What a caller may cite of its last observation r: nothing, the reference it was
\* given, or one made by hand that leaves an epoch out.
Cited(r) ==
    {NoRef} \cup {[control |-> c, mutation |-> m, ver |-> r.ver] :
                      c \in {r.control, NoEpoch}, m \in {r.mutation, NoEpoch}}

\* Mutant: a reference is only checked against the control epoch.
StaleRefControl(ref) == ref.control \notin {NoEpoch, epoch}

\* Each epoch is compared when the reference has it.
StaleRef(ref) ==
    ref.control \notin {NoEpoch, epoch} \/ ref.mutation \notin {NoEpoch, mutationEpoch'}

\* The guards in front of the dispatch, for the call c.  The plan is checked
\* before the monitor is read.  A stale reference and a mutation raise and leave
\* no receipt; a missing preparation and the firewall leave one.
Admission(c) ==
    \E blind \in BOOLEAN :
        LET raises == StaleRef(c.ref) \/ MutationRejects(blind, c.ref # NoRef)
            refused == \/ NeedsPreparation(c.op) /\ c.tok = NoToken
                       \/ ~Authorized(c.op)
        IN  /\ Refresh(blind)
            /\ preps' = AfterRefresh(blind)
            /\ IF raises \/ refused
               THEN /\ call' = Free
                    /\ chain' = IF raises THEN chain
                                          ELSE Append(chain, ReceiptOf(c, "refused"))
               ELSE /\ call' = [c EXCEPT !.stage = "select", !.ver = page.ver]
                    /\ chain' = chain

ExecuteBegin(a, l, op, ref) ==
    /\ Enter(a, l) /\ alive
    /\ Len(chain) < MaxReceipts
    /\ PlanAllows(op)
    /\ Admission(Entered("begin", a, l, op, NoToken, ref))
    /\ UNCHANGED <<status, browser, control, budget, planIdx, obs, attempts>>

NestedBegin ==
    /\ call.stage = "begin" /\ alive
    /\ PlanAllows(call.op)
    /\ Admission(call)
    /\ UNCHANGED <<status, browser, control, budget, planIdx, obs, attempts>>

\* The nested call may raise before it reaches the browser: the plan has no such
\* step, or the page registry cannot be read.  The token stays consumed.
NestedRaises ==
    /\ call.stage = "begin"
    /\ call' = Free
    /\ UNCHANGED allButCall

\* _execute_operation refuses before dispatch: the reference fails its
\* revalidation, a precondition fails, no branch or more than one matches.
Refuse ==
    /\ call.stage = "select"
    /\ call' = [call EXCEPT !.stage = "settle", !.out = "refused"]
    /\ UNCHANGED allButCall

\* The selected branch's actions, then the operation's own action.
SelectActions ==
    /\ call.stage = "select"
    /\ \E b \in IF Guarded(call.op) THEN Alternatives[call.op] ELSE {<<>>} :
          call' = [call EXCEPT !.stage = "dispatch", !.todo = Append(b, Primary[call.op])]
    /\ UNCHANGED allButCall

\* A legacy guard whose target is absent: nothing is dispatched, and the receipt
\* still has a dispatch time.
SkipAbsentTarget ==
    /\ call.stage = "select" /\ call.op \in SkipGuarded
    /\ call' = [call EXCEPT !.stage = "dispatch", !.out = "skipped"]
    /\ UNCHANGED allButCall


\* The page has a new revision, perhaps on an origin the envelope does not permit.
PageMoved ==
    /\ page.ver < MaxPage
    /\ \E s \in BOOLEAN : /\ s \/ "scope" \in Events
                         /\ page' = [ver |-> page.ver + 1, inScope |-> s]

\* One backend.dispatch.  A branch action that reports failure ends the
\* operation; the operation's own action has no action after it.
DispatchNext ==
    /\ call.stage = "dispatch" /\ call.todo # <<>> /\ alive
    /\ page' = page \/ PageMoved
    /\ attempts' = attempts + 1
    /\ LET dispatched == [call EXCEPT !.todo = Tail(call.todo),
                                      !.done = Append(call.done, Head(call.todo))]
       IN  \/ call' = dispatched
           \/ /\ Len(call.todo) > 1
              /\ call' = [dispatched EXCEPT !.stage = "settle", !.out = "branch_failed"]
    /\ UNCHANGED <<status, alive, lapsed, control, monitor, preps, budget, planIdx, chain, obs>>

\* Post-observation and verification came to an end.
Verify ==
    /\ call.stage = "dispatch" /\ call.todo = <<>>
    /\ call' = [call EXCEPT !.stage = "settle",
                            !.out = IF call.out = "skipped" THEN "skipped" ELSE "done"]
    /\ UNCHANGED allButCall

\* An exception anywhere in _execute_operation, before, inside or after a
\* dispatch, becomes a receipt without a dispatch time and without guard evidence.
Fault ==
    /\ call.stage \in {"select", "dispatch"}
    /\ call' = [call EXCEPT !.stage = "settle", !.out = "fault"]
    /\ UNCHANGED allButCall

\* The rest of execute_operation: charge, chain, advance the plan, record the
\* agent's own mutation, notice a dead browser.  The nested call's commit has
\* nothing left to do but to clear its transaction.
Settle ==
    /\ call.stage = "settle"
    /\ LET charged == ChargedActs(call.op, call.out, call.done)
       IN  /\ actionCount' = actionCount + Len(charged)
           /\ sideCount' = sideCount + Sides(charged)
    /\ chain' = Append(chain, ReceiptOf(call, call.out))
    /\ planIdx' = NextStep(call.out)
    /\ IF Arbitrated /\ Started(call.out)
       THEN /\ mutationEpoch' = mutationEpoch + 1
            /\ preps' = Retired(preps)
            /\ seen' \in {page.ver, seen}
       ELSE UNCHANGED <<mutationEpoch, preps, seen>>
    /\ status' = IF alive THEN status ELSE "terminal"
    /\ call' = Free
    /\ UNCHANGED <<browser, control, stale, obs, attempts>>
-----------------------------------------------------------------------------
(* Handoff of control.                                                       *)

PrepareHandoff(a, l, to) ==
    /\ Enter(a, l) /\ alive
    /\ \E blind \in BOOLEAN :
        /\ Refresh(blind)
        /\ preps' = IF TransferPrepared THEN AfterRefresh(blind)
                                        ELSE Retired(AfterRefresh(blind))
    /\ offer' = [epoch |-> epoch, from |-> agent, to |-> to, mutation |-> mutationEpoch']
    /\ UNCHANGED <<status, browser, agent, epoch, held, ledger, call>>

\* Whoever holds the offer's token may claim it.  The claim of an arbitrated
\* session reads the monitor; a mutation since the offer makes it stale.
ClaimHandoff(b) ==
    /\ call = Free /\ status = "open"
    /\ offer # NoOffer /\ offer.epoch = epoch /\ offer.from = agent
    /\ Arbitrated => alive
    /\ epoch < MaxControl
    /\ \E blind \in BOOLEAN :
        /\ Refresh(blind)
        /\ preps' = AfterRefresh(blind)
    /\ IF (Arbitrated => offer.mutation = mutationEpoch') /\ offer.to \in {NoAgent, b}
       THEN /\ agent' = b
            /\ epoch' = epoch + 1
            /\ held' = [held EXCEPT ![b] = @ \cup {epoch + 1}]
            /\ offer' = NoOffer
       ELSE UNCHANGED control
    /\ UNCHANGED <<status, browser, ledger, call>>
-----------------------------------------------------------------------------
(* The host's own calls, the end of the session and its environment.         *)

\* record_external_mutation
RecordExternalMutation ==
    /\ call = Free /\ status = "open" /\ Arbitrated
    /\ "external" \in Events /\ mutationEpoch < MaxMutation
    /\ mutationEpoch' = mutationEpoch + 1
    /\ stale' = TRUE
    /\ preps' = Retired(preps)
    /\ UNCHANGED <<status, browser, control, seen, ledger, call>>

BindSignedPlan ==
    /\ call = Free /\ status = "open" /\ planIdx = -1
    /\ Plan # <<>> /\ "plan" \notin lapsed
    /\ planIdx' = 0
    /\ UNCHANGED <<status, browser, control, monitor, preps, budget, chain, obs, attempts, call>>

End(final) ==
    /\ status' = final
    /\ alive' = FALSE
    /\ UNCHANGED <<page, lapsed, control, monitor, preps, ledger>>

\* close_session also ends a session whose browser died.
CloseSession(a, l) ==
    /\ call = Free /\ status \in {"open", "terminal"} /\ "close" \in Events
    /\ l \in held[a] /\ a = agent /\ l = epoch
    /\ End("closed")
    /\ call' = call

\* The idle deadline, noticed by any access or by cleanup_expired_sessions.  The
\* access of the execution nested in a commit may notice it too.
ExpireSession ==
    /\ call = Free \/ call.stage = "begin"
    /\ status = "open" /\ "idle" \in Events
    /\ End("expired")
    /\ call' = Free

\* _active_backend finds the browser gone.
FindTerminal ==
    /\ call = Free \/ call.stage \in {"recheck", "begin"}
    /\ status = "open" /\ ~alive
    /\ status' = "terminal"
    /\ call' = Free
    /\ UNCHANGED <<browser, control, monitor, preps, ledger>>

\* A script, a timer or a person changes the page.  So do select_page, and
\* observe_page when it names another page, which then reads the new revision.
PageMoves ==
    /\ alive /\ "page" \in Events
    /\ PageMoved
    /\ UNCHANGED <<status, alive, lapsed, control, monitor, preps, ledger, call>>

BrowserDies ==
    /\ alive /\ "death" \in Events
    /\ alive' = FALSE
    /\ UNCHANGED <<status, page, lapsed, control, monitor, preps, ledger, call>>

Lapse(deadline) ==
    /\ status = "open" /\ deadline \in Events \ lapsed
    /\ lapsed' = lapsed \cup {deadline}
    /\ UNCHANGED <<status, alive, page, control, monitor, preps, ledger, call>>

PreparationExpires(t) ==
    /\ status = "open" /\ "preparation" \in Events
    /\ preps[t].status = "PREPARED" /\ ~preps[t].expired
    /\ preps' = [preps EXCEPT ![t].expired = TRUE]
    /\ UNCHANGED <<status, browser, control, monitor, ledger, call>>

\* An offer past its deadline is refused like one that never was.
OfferExpires ==
    /\ status = "open" /\ "offer" \in Events
    /\ offer # NoOffer
    /\ offer' = NoOffer
    /\ UNCHANGED <<status, browser, agent, epoch, held, monitor, preps, ledger, call>>

AgentCall ==
    \E a \in Agent : \E l \in held[a] :
        \/ \E op \in Op : PrepareBegin(a, l, op)
        \/ \E t \in 1..MaxPreps, op \in Op : CommitBegin(a, l, t, op)
        \/ \E op \in Op, ref \in Cited(obs[a]) : ExecuteBegin(a, l, op, ref)
        \/ \E to \in Recipients : PrepareHandoff(a, l, to)
        \/ CloseSession(a, l)

CallStep ==
    \/ PrepareCapture \/ CaptureRaises \/ CommitRecheck
    \/ NestedBegin \/ NestedRaises
    \/ Refuse \/ SelectActions \/ SkipAbsentTarget
    \/ DispatchNext \/ Verify \/ Fault \/ Settle

Environment ==
    \/ PageMoves \/ BrowserDies \/ OfferExpires
    \/ \E d \in Deadlines : Lapse(d)
    \/ \E t \in DOMAIN preps : PreparationExpires(t)

Next ==
    \/ AgentCall
    \/ CallStep
    \/ \E a \in Observers : Observe(a)
    \/ \E a \in Agent : ClaimHandoff(a)
    \/ RecordExternalMutation
    \/ BindSignedPlan
    \/ ExpireSession
    \/ FindTerminal
    \/ Environment

Spec == Init /\ [][Next]_vars

\* A call that holds the lock runs on: the thread inside it is not suspended.
FairSpec == Spec /\ WF_vars(CallStep)
-----------------------------------------------------------------------------
(* Properties.                                                               *)

TypeOK ==
    /\ status \in {"open", "closed", "expired", "terminal"}
    /\ alive \in BOOLEAN
    /\ page \in [ver : Nat, inScope : BOOLEAN]
    /\ lapsed \in SUBSET Deadlines
    /\ agent \in Agent /\ epoch \in Nat
    /\ held \in [Agent -> SUBSET Nat]
    /\ offer \in Offer \cup {NoOffer}
    /\ mutationEpoch \in Nat /\ seen \in Nat /\ stale \in BOOLEAN
    /\ preps \in Seq(Prep)
    /\ actionCount \in Nat /\ sideCount \in Nat
    /\ planIdx \in Nat \cup {-1}
    /\ chain \in Seq(Receipt)
    /\ obs \in [Agent -> Observed \cup {NoRef}]
    /\ attempts \in Nat
    /\ call \in Call \cup {Free}

Dispatching == call.stage \in {"select", "dispatch", "settle"}

\* A token is consumed by at most one execution, whatever fails on the way: no two
\* receipts carry it, and while its execution runs it is committed and has none.
TokenAtMostOnce ==
    /\ \A i, j \in DOMAIN chain :
          chain[i].tok = chain[j].tok /\ chain[i].tok # NoToken => i = j
    /\ (Dispatching \/ call.stage = "begin") /\ call.tok # NoToken =>
          /\ preps[call.tok].status = "COMMITTED"
          /\ \A i \in DOMAIN chain : chain[i].tok # call.tok

\* An arbitrated session dispatches a commit only when the last reading of the page
\* in front of the dispatch is the very page that was prepared.
CommitOnPreparedPage ==
    Arbitrated /\ Dispatching /\ call.tok # NoToken =>
        call.ver = preps[call.tok].ver

\* An arbitrated session dispatches an operation that cites an observation with its
\* epochs only when the page is still the observed one and control has not changed
\* hands since; a reference is held to the epochs it has (execute_operation).
ReferenceStillCurrent ==
    Arbitrated /\ Dispatching /\ call.ref # NoRef =>
        /\ call.ref.mutation # NoEpoch => call.ref.ver = call.ver
        /\ call.ref.control # NoEpoch => call.ref.control = epoch

\* What has been charged never exceeds the host's budgets: the firewall reserved
\* the longest branch before the page chose one.
BudgetHeld == actionCount <= MaxActionCount /\ sideCount <= MaxSideEffectCount

\* Receipts that say less than was dispatched: an exception lost the evidence, or
\* the operation's own action followed the branch actions its guard lists.
Uncharged(c) == c.out = "fault" \/ (Guarded(c.op) /\ c.out = "done")

\* Apart from those receipts, the browser never sees more dispatches than the
\* budget allows, retries and failures included.
DispatchesCharged ==
    (\A i \in DOMAIN chain : ~Uncharged(chain[i])) /\ (call # Free => ~Guarded(call.op)) =>
        attempts <= MaxActionCount

\* The two together: AuthorityFirewall.decide admits nothing the budgets cannot pay, and
\* what was dispatched is what they paid for.
BudgetsHold == BudgetHeld /\ DispatchesCharged

\* The operations recorded as dispatched under a signed plan are its steps, each once
\* and in order, and the next step is the one after them.
RecordedInOrder ==
    LET steps == {i \in DOMAIN chain : chain[i].step > 0 /\ Started(chain[i].out)}
    IN  /\ \A i \in steps : /\ chain[i].step = Cardinality({j \in steps : j <= i})
                            /\ chain[i].op = Plan[chain[i].step]
        /\ planIdx >= 0 => Cardinality(steps) = planIdx

\* No attempt goes back to an earlier step, and a step whose attempt reached the browser
\* is attempted again only when that attempt failed in it: its receipt tells of a fault
\* or of a failed branch action.  "acts" is what the browser got, also where the receipt
\* of a fault does not say so.
RepeatedAfterFailure ==
    \A i, j \in DOMAIN chain :
        i < j /\ chain[i].step > 0 =>
            /\ chain[i].step <= chain[j].step
            /\ chain[i].step = chain[j].step =>
                  /\ ~Started(chain[i].out)
                  /\ chain[i].acts # <<>> => chain[i].out \in {"fault", "branch_failed"}

\* What _require_signed_plan_operation and the advance of signed_plan_next_index keep of
\* the plan, for what is recorded and for what reaches the browser: a step is recorded
\* once, and repeated only after an attempt that failed in the browser.
PlanOnceInOrder == RecordedInOrder /\ RepeatedAfterFailure

\* Whoever lost control never acts again with the old token, even after control
\* came back to the same agent id: each receipt was produced under the token of its
\* own control epoch, epochs never go back, and a running call is the controller's.
SupersededNeverActs ==
    /\ \A i \in DOMAIN chain : chain[i].lease = chain[i].epoch
    /\ \A i, j \in DOMAIN chain : i < j => chain[i].epoch <= chain[j].epoch
    /\ \A a, b \in Agent : a # b => held[a] \cap held[b] = {}
    /\ call # Free => call.lease = epoch /\ call.agent = agent

\* A consequential operation without a branching guard reaches the browser only as
\* the commit of a token prepared for that operation.
ConsequentialOnlyByCommit ==
    \A i \in DOMAIN chain :
        LET r == chain[i]
        IN  ~Guarded(r.op) /\ ActionsOf(r.acts) \cap Consequential # {} =>
                r.tok \in DOMAIN preps /\ preps[r.tok].op = r.op

\* A preparation that could still be committed belongs to the current mutation epoch.
PreparedIsCurrent ==
    Arbitrated => \A t \in DOMAIN preps :
        preps[t].status = "PREPARED" => preps[t].mutation = mutationEpoch

\* A handoff without transfer leaves no preparation that was there when it was
\* offered: what survives the claim was prepared while the offer was open.
HandoffRetiresEarlier ==
    ~TransferPrepared => \A t \in DOMAIN preps :
        preps[t].status = "PREPARED" /\ preps[t].epoch < epoch => preps[t].offered

\* What claim_agent_handoff passes on: the control, which the former controller has no
\* more, and no preparation that was there when it was offered.
ControlPassesOn == SupersededNeverActs /\ HandoffRetiresEarlier

\* A consumed or invalidated token never becomes anything else.
TokenFinality ==
    [][\A t \in DOMAIN preps :
          preps[t].status # "PREPARED" => preps'[t].status = preps[t].status]_vars

\* The two sides of a single use: commit_operation gives no execution a token another one
\* carries, and nothing brings a spent or invalidated token back.
TokensSpentOnce == []TokenAtMostOnce /\ TokenFinality

\* The lock is given back: every call that took it ends, also when the browser dies
\* inside it.
CallReturns == call # Free ~> call = Free
-----------------------------------------------------------------------------
(* Statements of the code and of its documents that the code does not keep.  *)

\* stateful_session.py: "Count dispatch, not a favourable verdict, so retry loops
\* cannot escape host budgets."  Every dispatch is within the action budget.
RetriesWithinBudget == attempts <= MaxActionCount

\* _governed_action_types: "Return every action that a finite guard could physically
\* dispatch."  Nothing else is dispatched for an operation.
GovernedTypesCoverDispatch ==
    \A i \in DOMAIN chain : ActionsOf(chain[i].acts) \subseteq GovernedTypes(chain[i].op)

\* EXECUTION_GOVERNANCE.md: "Prepared transactions are invalidated by default during
\* handoff."  No preparation of an earlier controller can still be committed.
HandoffInvalidatesPrepared ==
    ~TransferPrepared => \A t \in DOMAIN preps :
        preps[t].status = "PREPARED" => preps[t].epoch = epoch

\* _reject_mutation_if_policy_requires: a planner that omitted its reference cannot
\* "keep dispatching"; a new observation is "the only deterministic recovery path".
MutationNeedsObservation ==
    Arbitrated /\ call.stage = "select" /\ call.tok = NoToken => ~stale

\* The same comment: a "stale planner" cannot "keep dispatching".  What it cites is of
\* the page as it is, also when the reference leaves its mutation epoch out.
CitedIsCurrent ==
    Arbitrated /\ Dispatching /\ call.ref # NoRef => call.ref.ver = call.ver

\* A step of a signed plan reaches the browser once, whatever became of it there.
StepReachesOnce ==
    \A i, j \in DOMAIN chain :
        i # j /\ chain[i].step = chain[j].step /\ chain[i].step > 0 =>
            chain[i].acts = <<>> \/ chain[j].acts = <<>>
=============================================================================
