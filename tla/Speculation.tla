---------------------------- MODULE Speculation ----------------------------
(***************************************************************************)
(* Bounded speculation on one retained session: prepare_speculation,        *)
(* select_speculative_branch and execute_selected_speculative_branch of     *)
(* runtime/stateful_session.py on the graphs of contract/speculation.py.    *)
(*                                                                          *)
(* A graph names one parent operation and branches that may continue after  *)
(* it.  It is prepared before the parent is dispatched and lives until it   *)
(* is consumed or expires.  Every call runs under the session's lock: what  *)
(* interleaves is the order of calls, the page, human intervention,         *)
(* handoffs and time.  A call is one step, but for the one that goes ahead  *)
(* with a selected branch: it selects again, and prepares or executes next, *)
(* with the page and the clock going on in between.                         *)
(***************************************************************************)
EXTENDS Naturals, Sequences, FiniteSets

CONSTANTS
    Token,          \* tokens of prepared graphs
    Branch,         \* the branches of a graph, which are operations
    Consequential,  \* branches the envelope wants prepared before they run
    Parent, Other,  \* ordinary operations
    None,
    Plan,           \* the steps of the signed plan, << >> if none is bound
    Arbitrated,     \* the session has a mutation policy
    FailOnMutation, \* and it is FAIL_ON_EXTERNAL_MUTATION
    MaxActive,      \* sixteen in the code
    MaxMutations, MaxHandoffs   \* bounds of an instance

ASSUME OperationsAssumption ==
    /\ Parent # Other /\ None \notin Branch \cup {Parent, Other} \cup Token
    /\ Branch \cap {Parent, Other} = {} /\ Consequential \subseteq Branch

ASSUME SpeculationAssumption ==
    /\ Plan \in Seq({Parent, Other}) /\ Arbitrated \in BOOLEAN /\ FailOnMutation \in BOOLEAN
    /\ MaxActive \in Nat /\ MaxMutations \in Nat /\ MaxHandoffs \in Nat

VARIABLES
    ctl,        \* the control epoch
    mut,        \* the mutation epoch
    changed,    \* the page changed since the fingerprint was taken
    last,       \* the last receipt of the chain
    next,       \* steps of the signed plan consumed so far
    spec,       \* spec[k]: the graph prepared under token k
    prep,       \* prep[k]: the prepared operation the branch of k became
    going,      \* the graph whose selected branch a call goes ahead with
    ran,        \* ran[k]: the dispatches of a branch of k (history)
    touched,    \* graphs that saw anything but their parent's last dispatch (history)
    voided,     \* graphs that saw a mutation other than their parent (history)
    late        \* graphs whose branch was prepared on a page that had changed since
                \* it was selected for the last time (history)

history == <<ran, touched, voided, late>>
vars    == <<ctl, mut, changed, last, next, spec, prep, going, history>>
-----------------------------------------------------------------------------
Operations == Branch \cup {Parent, Other}
NoReceipt  == [op |-> None, verdict |-> "none"]
NoPrep     == [branch |-> None, mut |-> 0, ctl |-> 0]
NoSpec     == [live |-> FALSE, ctl |-> 0, mut |-> 0, expired |-> FALSE, sel |-> None, consumed |-> FALSE]
Live(k)    == spec[k].live
Active(k)  == Live(k) /\ ~spec[k].consumed /\ ~spec[k].expired
Kept       == {k \in Token : Live(k) \/ prep[k].branch # None}
NoPreps    == [k \in Token |-> NoPrep]

Init ==
    /\ ctl = 0 /\ mut = 0 /\ changed = FALSE /\ last = NoReceipt /\ next = 0
    /\ spec = [k \in Token |-> NoSpec] /\ prep = NoPreps /\ going = None
    /\ ran = [k \in Token |-> 0] /\ touched = {} /\ voided = {} /\ late = {}
-----------------------------------------------------------------------------
(* Mutation arbitration: a call notes the change of the page it finds, and   *)
(* the epoch that advances retires every prepared operation.                 *)

Notes      == Arbitrated /\ changed
MutNow     == IF Notes THEN mut + 1 ELSE mut
RefreshesTo(n) ==
    /\ changed' = FALSE /\ mut' = n /\ late' = late
    /\ touched' = IF n > mut THEN touched \cup Kept ELSE touched
    /\ voided' = IF n > mut THEN voided \cup Kept ELSE voided
Refreshes  == RefreshesTo(MutNow)

\* A call on a graph that has expired or is of another control epoch ends before
\* it looks at the page.
Looks(k)      == ~spec[k].expired /\ spec[k].ctl = ctl
RefreshFor(k) == IF Looks(k) THEN Refreshes ELSE UNCHANGED <<mut, changed, touched, voided, late>>

PageChanges ==
    /\ ~changed /\ mut < MaxMutations /\ changed' = TRUE
    /\ UNCHANGED <<ctl, mut, last, next, spec, prep, history>>

\* The host reports a human at work.
HumanMutation ==
    /\ Arbitrated /\ mut < MaxMutations
    /\ mut' = mut + 1 /\ touched' = touched \cup Kept /\ voided' = voided \cup Kept
    /\ UNCHANGED <<ctl, changed, last, next, spec, prep, ran, late>>

Handoff ==
    /\ ctl < MaxHandoffs /\ ctl' = ctl + 1
    /\ prep' = NoPreps
    /\ UNCHANGED <<mut, changed, last, next, spec, history>>

Expires(k) ==
    /\ Live(k) /\ ~spec[k].expired /\ spec' = [spec EXCEPT ![k].expired = TRUE]
    /\ UNCHANGED <<ctl, mut, changed, last, next, prep, history>>
-----------------------------------------------------------------------------
(* A dispatch: its receipt is chained, a signed step consumed, the epoch     *)
(* advanced, and the graphs whose verified parent it was carried forward to  *)
(* the epoch it made, whatever epoch they had before.                        *)

Carried(op, verdict, now) ==
    [k \in Token |->
        IF Arbitrated /\ op = Parent /\ verdict = "verified" /\ Live(k) /\ ~spec[k].consumed
        THEN [spec[k] EXCEPT !.mut = now] ELSE spec[k]]

Dispatched(op, verdict) ==
    LET now == IF Arbitrated THEN MutNow + 1 ELSE MutNow
    IN  /\ last' = [op |-> op, verdict |-> verdict]
        /\ mut' = now /\ changed' = FALSE /\ late' = late
        /\ touched' = IF op = Parent /\ verdict = "verified" THEN {} ELSE touched \cup Kept
        /\ voided' = IF op = Parent /\ ~Notes THEN voided ELSE voided \cup Kept

\* The signed plan allows its next step only; a branch does not use the index.
PlanAllows(op) == Plan = <<>> \/ (next < Len(Plan) /\ Plan[next + 1] = op)

\* A policy that fails on mutations refuses the call that notes one; the others
\* want a fresh observation, which an execution may come with or not.
Rejects(fresh) == Notes /\ (FailOnMutation \/ ~fresh)

Execute(op, fresh) ==
    /\ PlanAllows(op) /\ mut < MaxMutations
    /\ IF Rejects(fresh)
       THEN Refreshes /\ UNCHANGED <<ctl, last, next, spec, prep, ran>>
       ELSE /\ \E verdict \in {"verified", "failed"} :
                  /\ Dispatched(op, verdict)
                  /\ spec' = Carried(op, verdict, mut')
            /\ next' = IF Plan = <<>> THEN next ELSE next + 1
            /\ UNCHANGED <<ctl, prep, ran>>

\* Refused before dispatch: a receipt, but no step consumed and no epoch.
ExecuteRefused(op) ==
    /\ PlanAllows(op) /\ ~Notes /\ last' = [op |-> op, verdict |-> "failed"]
    /\ UNCHANGED <<ctl, mut, changed, next, spec, prep, history>>
-----------------------------------------------------------------------------
(* The graph.                                                               *)

Full == Cardinality({k \in Token : Active(k)}) >= MaxActive

\* prepare_speculation: the next signed step must be the parent.  Preparing prunes
\* what is consumed or expired, then the number of graphs is checked.
PrepareSpeculation(k) ==
    /\ k \notin Kept \cup touched \cup voided \cup late /\ ran[k] = 0   \* a fresh token
    /\ PlanAllows(Parent)
    /\ Refreshes
    /\ LET pruned == [j \in Token |-> IF Active(j) THEN spec[j] ELSE NoSpec]
       IN  spec' = IF Notes /\ FailOnMutation THEN spec
                   ELSE IF Full THEN pruned
                   ELSE [pruned EXCEPT ![k] = [NoSpec EXCEPT !.live = TRUE, !.ctl = ctl, !.mut = mut']]
    /\ prep' = IF Notes THEN NoPreps ELSE prep
    /\ UNCHANGED <<ctl, last, next, ran>>

Current(k, now) == Live(k) /\ Looks(k) /\ (Arbitrated => spec[k].mut = now)
AfterParent     == last = [op |-> Parent, verdict |-> "verified"]

\* Mutant: the last receipt need not be the parent's.
SelectableAnyway(k, now) == Current(k, now)

Selectable(k, now) == Current(k, now) /\ AfterParent

\* The branches whose preconditions hold are read from the page; exactly one must.
Chosen(matches) == IF Cardinality(matches) = 1 THEN CHOOSE b \in matches : TRUE ELSE None

Select(k, matches) ==
    /\ Live(k) /\ RefreshFor(k)
    /\ spec' = IF Selectable(k, mut') THEN [spec EXCEPT ![k].sel = Chosen(matches)] ELSE spec
    /\ prep' = IF Notes /\ Looks(k) THEN NoPreps ELSE prep
    /\ UNCHANGED <<ctl, last, next, ran>>

\* Mutant: the graph is consumed when its branch has run.
ConsumedLater(k, matches) == [spec EXCEPT ![k].sel = Chosen(matches)]

Consumed(k, matches) == [spec EXCEPT ![k].sel = Chosen(matches), ![k].consumed = TRUE]

\* execute_selected_speculative_branch: everything is checked again, also which branch
\* the page selects, the graph is consumed, and only then the branch goes ahead.
Eligible(k, matches) ==
    /\ Live(k) /\ spec[k].sel # None /\ ~spec[k].consumed
    /\ Selectable(k, MutNow) /\ Chosen(matches) = spec[k].sel

SelectsAgain(k, matches) ==
    /\ Eligible(k, matches) /\ ~Notes /\ mut < MaxMutations
    /\ spec' = Consumed(k, matches) /\ going' = k
    /\ UNCHANGED <<ctl, mut, changed, last, next, prep, history>>

\* Then the branch is prepared, which looks at the page once more and, as a
\* preparation comes with a fresh observation, goes on with what it finds there
\* unless the policy fails on mutations.  What refuses leaves the graph consumed.
Prepares(k) ==
    \/ Refreshes /\ prep' = IF Notes THEN NoPreps ELSE prep
    \/ /\ ~Rejects(TRUE)
       /\ mut' = MutNow /\ changed' = FALSE
       /\ prep' = [IF Notes THEN NoPreps ELSE prep EXCEPT
                      ![k] = [branch |-> spec[k].sel, mut |-> MutNow, ctl |-> ctl]]
       /\ IF Notes THEN touched' = touched \cup (Kept \ {k}) /\ voided' = voided \cup Kept
                         /\ late' = late \cup {k}
                    ELSE UNCHANGED <<touched, voided, late>>

\* Or it is executed, without an observation of its own: refused if the page moved,
\* refused with a receipt, or dispatched.
Executes(k) ==
    \/ Rejects(FALSE) /\ Refreshes /\ UNCHANGED <<last, ran>>
    \/ ~Rejects(FALSE) /\ last' = [op |-> spec[k].sel, verdict |-> "failed"]
       /\ UNCHANGED <<mut, changed, history>>
    \/ /\ ~Rejects(FALSE) /\ \E verdict \in {"verified", "failed"} : Dispatched(spec[k].sel, verdict)
       /\ ran' = [ran EXCEPT ![k] = @ + 1]

Proceeds(k) ==
    /\ going = k /\ going' = None /\ UNCHANGED <<ctl, next, spec>>
    /\ \/ UNCHANGED <<mut, changed, last, prep, history>>
       \/ spec[k].sel \in Consequential /\ Prepares(k) /\ UNCHANGED <<last, ran>>
       \/ spec[k].sel \notin Consequential /\ Executes(k) /\ UNCHANGED prep

\* A refused attempt may have noted a mutation and renewed the selection.
ExecuteBranchRefused(k, matches) ==
    /\ Live(k) /\ spec[k].sel # None /\ ~spec[k].consumed
    /\ Notes \/ ~Eligible(k, matches)
    /\ RefreshFor(k)
    /\ spec' = IF Selectable(k, mut') THEN [spec EXCEPT ![k].sel = Chosen(matches)] ELSE spec
    /\ prep' = IF Notes /\ Looks(k) THEN NoPreps ELSE prep
    /\ UNCHANGED <<ctl, last, next, ran>>

\* commit_operation on what a branch became: prepared operations do not survive a
\* mutation or a handoff.
CommitBranch(k) ==
    /\ prep[k].branch # None /\ mut < MaxMutations
    /\ IF Notes \/ (Arbitrated /\ prep[k].mut # mut) \/ prep[k].ctl # ctl
       THEN /\ Refreshes /\ prep' = [prep EXCEPT ![k] = NoPrep]
            /\ UNCHANGED <<ctl, last, next, spec, ran>>
       ELSE /\ \E verdict \in {"verified", "failed"} : Dispatched(prep[k].branch, verdict)
            /\ prep' = [prep EXCEPT ![k] = NoPrep] /\ ran' = [ran EXCEPT ![k] = @ + 1]
            /\ UNCHANGED <<ctl, next, spec>>
-----------------------------------------------------------------------------
Calls ==
    \/ HumanMutation \/ Handoff
    \/ \E op \in {Parent, Other} : ExecuteRefused(op) \/ \E fresh \in BOOLEAN : Execute(op, fresh)
    \/ \E k \in Token :
          \/ PrepareSpeculation(k) \/ CommitBranch(k)
          \/ \E matches \in SUBSET Branch : Select(k, matches) \/ ExecuteBranchRefused(k, matches)

\* The call that goes ahead holds the session's lock; the page and the clock do not
\* ask for it.
Next ==
    \/ (PageChanges \/ \E k \in Token : Expires(k)) /\ UNCHANGED going
    \/ going = None /\ Calls /\ UNCHANGED going
    \/ going = None /\ \E k \in Token, matches \in SUBSET Branch : SelectsAgain(k, matches)
    \/ \E k \in Token : Proceeds(k)

Spec == Init /\ [][Next]_vars
-----------------------------------------------------------------------------
\* The state has its type; no graph is of an epoch yet to come.
TypeOK ==
    /\ ctl \in 0..MaxHandoffs /\ mut \in Nat /\ changed \in BOOLEAN
    /\ last \in [op : Operations \cup {None}, verdict : {"none", "verified", "failed"}]
    /\ next \in 0..Len(Plan)
    /\ spec \in [Token -> [live : BOOLEAN, ctl : Nat, mut : Nat, expired : BOOLEAN,
                           sel : Branch \cup {None}, consumed : BOOLEAN]]
    /\ \A k \in Token : spec[k].mut <= mut /\ spec[k].ctl <= ctl
    /\ prep \in [Token -> [branch : Branch \cup {None}, mut : Nat, ctl : Nat]]
    /\ going \in Token \cup {None}
    /\ ran \in [Token -> Nat]
    /\ touched \subseteq Token /\ voided \subseteq Token /\ late \subseteq Token

\* A graph continues at most once, also when its branch is prepared first and
\* committed later, or when the call that consumed it failed.
ContinuesOnce == \A k \in Token : ran[k] <= 1

\* No more graphs are kept than MaxActive, whatever is consumed and expires; and the
\* state has its type.
ActiveBounded == TypeOK /\ Cardinality({k \in Token : Live(k)}) <= MaxActive

\* A branch runs on what its verified parent left: since the parent, and since the
\* graph was prepared, nothing was dispatched, no mutation was noted and control has
\* not changed hands, whether the branch runs at once or is prepared and committed.
\* One mutation is allowed for, and in one place: a branch that is prepared first may
\* be prepared on a page that has changed since the second selection, under a policy
\* that does not fail on mutations; and nothing after that.
ContinuesAfterParent ==
    [][\A k \in Token :
          ran'[k] > ran[k] =>
              /\ Arbitrated => k \notin touched
              /\ IF prep[k].branch = None THEN AfterParent /\ spec[k].ctl = ctl /\ k \notin late
                                          ELSE prep[k].ctl = ctl
              /\ k \in late => ~FailOnMutation]_vars

\* "Preconditions are re-evaluated immediately before dispatch": a branch runs on the
\* page that selected it for the last time.  Not so of a branch prepared late.
SelectedStillCurrent ==
    [][\A k \in Token : Arbitrated /\ ran'[k] > ran[k] => k \notin late]_vars

\* "Unrelated external mutations still stale the graph": no branch of a graph runs
\* that saw a mutation other than the dispatch of its parent.
MutationVoidsGraph ==
    [][\A k \in Token : Arbitrated /\ ran'[k] > ran[k] => k \notin voided]_vars
=============================================================================
