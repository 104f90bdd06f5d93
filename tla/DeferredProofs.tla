--------------------------- MODULE DeferredProofs ---------------------------
(***************************************************************************)
(* What work that waits for another thread or for later comes to.  A graph  *)
(* of branches continues at most once, right after its verified parent, and *)
(* no more graphs are kept than the bound; a command of the file queue is   *)
(* not lost, not run twice and not left out of the log, whichever worker    *)
(* dies where; a prepared fill gets the generation of its secret that was   *)
(* bound.  Proved for every number of tokens, branches, commands, workers   *)
(* and calls, with and without a signed plan or a mutation policy.  Each    *)
(* part has an inductive invariant of its own, stated before its lemmas.    *)
(***************************************************************************)
EXTENDS MCDeferred, FiniteSetTheorems, WellFoundedInduction, TLAPS

\* The graphs and the prepared operations.
Graphs == [live : BOOLEAN, ctl : Nat, mut : Nat, expired : BOOLEAN,
           sel : Branch \cup {None}, consumed : BOOLEAN]
Preps  == [branch : Branch \cup {None}, mut : Nat, ctl : Nat]

\* A token whose branch has run or is prepared is consumed, and runs no more once it
\* has run.
OnceOk(k) ==
    /\ ran[k] <= 1
    /\ (ran[k] = 1 \/ prep[k].branch # None) /\ Live(k) => spec[k].consumed
    /\ ran[k] = 1 => prep[k].branch = None
OnceInv == \A k \in Token : OnceOk(k)

\* A graph, or a prepared operation, that saw anything but the last dispatch of its
\* parent is of an earlier epoch.
EpochOk(k) ==
    /\ prep[k].mut <= mut
    /\ Arbitrated /\ k \in touched =>
          /\ Live(k) => spec[k].mut < mut
          /\ prep[k].branch # None => prep[k].mut < mut
EpochInv == \A k \in Token : EpochOk(k)

\* The graph whose branch a call goes ahead with is consumed, and as it was when its
\* branch was selected for the second time: neither the page nor the clock moves that.
GoingOk(k) ==
    /\ ran[k] = 0 /\ prep[k].branch = None /\ k \notin late
    /\ Live(k) /\ spec[k].consumed /\ spec[k].sel \in Branch
    /\ AfterParent /\ spec[k].ctl = ctl
    /\ Arbitrated => k \notin touched

\* A branch was prepared late on a consumed graph only, and under a policy that does not
\* fail on mutations.
GoingInv ==
    /\ \A k \in Token : going = k => GoingOk(k)
    /\ \A k \in late : ~FailOnMutation /\ (Live(k) => spec[k].consumed)

\* The graphs that are kept, and that still count.
Lives   == {k \in Token : Live(k)}
Actives == {k \in Token : Active(k)}

\* The bound on them; a finite set is what the cardinality speaks of.
BoundInv == IsFiniteSet(Lives) /\ Cardinality(Lives) <= MaxActive

LEMMA Typed == TypeOK => spec \in [Token -> Graphs] /\ prep \in [Token -> Preps]
BY DEF TypeOK, Graphs, Preps

(* The operators.                                                           *)

\* What the page selects is a branch or nothing.
LEMMA ChosenTyped == \A matches \in SUBSET Branch : Chosen(matches) \in Branch \cup {None}
<1>. SUFFICES ASSUME NEW matches \in SUBSET Branch, Cardinality(matches) = 1
              PROVE  (CHOOSE b \in matches : TRUE) \in Branch
  BY DEF Chosen
<1>1. matches # {}
  BY FS_EmptySet
<1>. QED  BY <1>1

\* The epoch a call finds is the one it left or the next.
LEMMA EpochTyped ==
    TypeOK => MutNow \in Nat /\ mut <= MutNow /\ (~Notes => MutNow = mut)
BY DEF TypeOK, MutNow

\* A refresh: whoever sees the epoch advance is noted, and of an earlier epoch.
LEMMA RefreshEffect ==
    ASSUME TypeOK, Refreshes
    PROVE  /\ mut' = MutNow /\ mut' \in Nat /\ mut <= mut' /\ changed' = FALSE
           /\ mut' = mut => touched' = touched
           /\ mut' > mut => touched' = touched \cup Kept
           /\ touched' \subseteq Token /\ voided' \subseteq Token /\ late' \subseteq Token
           /\ late' = late
BY EpochTyped DEF Refreshes, RefreshesTo, Kept, TypeOK

\* A call on one graph refreshes or leaves the page as it is.
LEMMA RefreshForEffect ==
    ASSUME TypeOK, NEW k \in Token, RefreshFor(k)
    PROVE  /\ mut' \in Nat /\ mut <= mut' /\ changed' \in BOOLEAN
           /\ mut' = mut => touched' = touched
           /\ mut' > mut => touched' = touched \cup Kept
           /\ touched' \subseteq Token /\ voided' \subseteq Token /\ late' \subseteq Token
           /\ late' = late
<1>1. CASE Looks(k)
  <2>1. Refreshes
    BY <1>1 DEF RefreshFor
  <2>. QED  BY <2>1, RefreshEffect
<1>2. CASE ~Looks(k)
  BY <1>2 DEF RefreshFor, TypeOK
<1>. QED  BY <1>1, <1>2

\* A dispatch makes the next epoch, and is seen by everybody but a graph whose
\* verified parent it was.
LEMMA DispatchEffect ==
    ASSUME TypeOK, NEW op \in Operations \cup {None}, NEW verdict \in {"verified", "failed"},
           Dispatched(op, verdict)
    PROVE  /\ mut' \in Nat /\ mut <= mut' /\ (Arbitrated => mut < mut') /\ changed' = FALSE
           /\ last' \in [op : Operations \cup {None}, verdict : {"none", "verified", "failed"}]
           /\ touched' = {} \/ touched' = touched \cup Kept
           /\ touched' \subseteq Token /\ voided' \subseteq Token /\ late' \subseteq Token
           /\ late' = late
BY EpochTyped DEF Dispatched, Kept, TypeOK

\* Carrying graphs forward changes their epoch only.
LEMMA CarriedEffect ==
    ASSUME TypeOK, NEW op, NEW verdict, NEW now \in Nat, mut <= now,
           NEW graphs, graphs = Carried(op, verdict, now)
    PROVE  /\ graphs \in [Token -> Graphs]
           /\ \A k \in Token :
                 /\ graphs[k].live = Live(k) /\ graphs[k].consumed = spec[k].consumed
                 /\ graphs[k].ctl = spec[k].ctl /\ graphs[k].mut <= now
<1>1. ASSUME NEW k \in Token
      PROVE  /\ graphs[k] \in Graphs
             /\ graphs[k].live = Live(k) /\ graphs[k].consumed = spec[k].consumed
             /\ graphs[k].ctl = spec[k].ctl /\ graphs[k].mut <= now
  <2>1. spec[k] \in Graphs /\ spec[k].mut <= now
    BY Typed DEF TypeOK, Graphs
  <2>2. graphs[k] = spec[k] \/ graphs[k] = [spec[k] EXCEPT !.mut = now]
    BY DEF Carried
  <2>. QED  BY <2>1, <2>2 DEF Graphs, Live
<1>2. graphs = [k \in Token |-> graphs[k]]
  BY DEF Carried
<1>. QED  BY <1>1, <1>2

\* What is pruned is gone, what counts stays.
LEMMA PrunedEffect ==
    ASSUME TypeOK, NEW graphs, graphs = [j \in Token |-> IF Active(j) THEN spec[j] ELSE NoSpec]
    PROVE  /\ graphs \in [Token -> Graphs]
           /\ \A k \in Token : graphs[k].live <=> Active(k)
           /\ \A k \in Token : Active(k) => graphs[k] = spec[k]
           /\ \A k \in Token : graphs[k].mut <= mut /\ graphs[k].ctl <= ctl
BY Typed DEF TypeOK, Graphs, NoSpec, Active, Live
\* A selection, an expiry, a consumption: one graph changes, and it was there before.
Amends(k) ==
    /\ spec' \in [Token -> Graphs]
    /\ \A j \in Token :
          /\ Live(j)' = Live(j) /\ spec'[j].mut = spec[j].mut /\ spec'[j].ctl = spec[j].ctl
          /\ spec[j].consumed => spec'[j].consumed
          /\ j # k => spec'[j] = spec[j]

LEMMA AmendEffect ==
    ASSUME TypeOK, NEW k \in Token, NEW matches \in SUBSET Branch,
           \/ spec' = spec
           \/ spec' = [spec EXCEPT ![k].expired = TRUE]
           \/ spec' = [spec EXCEPT ![k].sel = Chosen(matches)]
           \/ spec' = Consumed(k, matches)
    PROVE  Amends(k)
<1>. DEFINE g == Chosen(matches)
<1>1. spec \in [Token -> Graphs] /\ spec[k] \in Graphs /\ g \in Branch \cup {None}
  BY Typed, ChosenTyped
<1>. HIDE DEF g
<1>2. ASSUME NEW d \in Graphs, d.live = spec[k].live, d.mut = spec[k].mut, d.ctl = spec[k].ctl,
             spec[k].consumed => d.consumed, spec' = [spec EXCEPT ![k] = d]
      PROVE  Amends(k)
  BY <1>1, <1>2 DEF Amends, Live
<1>3. CASE spec' = spec
  BY <1>1, <1>3 DEF Amends, Live
<1>4. CASE spec' = [spec EXCEPT ![k].expired = TRUE]
  <2>. DEFINE d == [spec[k] EXCEPT !.expired = TRUE]
  <2>1. /\ d \in Graphs /\ d.live = spec[k].live /\ d.mut = spec[k].mut /\ d.ctl = spec[k].ctl
        /\ d.consumed = spec[k].consumed
    BY <1>1 DEF Graphs
  <2>2. spec' = [spec EXCEPT ![k] = d]
    BY <1>1, <1>4
  <2>. HIDE DEF d
  <2>. QED  BY <1>2, <2>1, <2>2
<1>5. CASE spec' = [spec EXCEPT ![k].sel = g]
  <2>. DEFINE d == [spec[k] EXCEPT !.sel = g]
  <2>1. /\ d \in Graphs /\ d.live = spec[k].live /\ d.mut = spec[k].mut /\ d.ctl = spec[k].ctl
        /\ d.consumed = spec[k].consumed
    BY <1>1 DEF Graphs
  <2>2. spec' = [spec EXCEPT ![k] = d]
    BY <1>1, <1>5
  <2>. HIDE DEF d
  <2>. QED  BY <1>2, <2>1, <2>2
<1>6. CASE spec' = [spec EXCEPT ![k].sel = g, ![k].consumed = TRUE]
  <2>. DEFINE d == [[spec[k] EXCEPT !.sel = g] EXCEPT !.consumed = TRUE]
  <2>1. /\ d \in Graphs /\ d.live = spec[k].live /\ d.mut = spec[k].mut /\ d.ctl = spec[k].ctl
        /\ d.consumed = TRUE
    BY <1>1 DEF Graphs
  <2>2. spec' = [spec EXCEPT ![k] = d]
    BY <1>1, <1>6
  <2>. HIDE DEF d
  <2>. QED  BY <1>2, <2>1, <2>2
<1>. QED  BY <1>3, <1>4, <1>5, <1>6 DEF Consumed, g

(* The type.                                                                *)

\* What a step leaves of the graphs, when epochs only advance, is of a past epoch.
LEMMA TypeFrom ==
    ASSUME TypeOK, ctl' \in 0..MaxHandoffs, mut' \in Nat, changed' \in BOOLEAN,
           last' \in [op : Operations \cup {None}, verdict : {"none", "verified", "failed"}],
           next' \in 0..Len(Plan), spec' \in [Token -> Graphs],
           \A k \in Token : spec'[k].mut <= mut' /\ spec'[k].ctl <= ctl',
           prep' \in [Token -> Preps], ran' \in [Token -> Nat], going' \in Token \cup {None},
           touched' \subseteq Token, voided' \subseteq Token, late' \subseteq Token
    PROVE  TypeOK'
BY DEF TypeOK, Graphs, Preps

LEMMA NoPrepsTyped == NoPreps \in [Token -> Preps]
BY DEF NoPreps, NoPrep, Preps

LEMMA TypeInit == Init => TypeOK
<1>. SUFFICES ASSUME Init PROVE TypeOK
  OBVIOUS
<1>1. NoSpec \in Graphs /\ NoPrep \in Preps /\ Plan \in Seq({Parent, Other})
  BY SpeculationAssumption DEF NoSpec, NoPrep, Graphs, Preps
<1>2. spec \in [Token -> Graphs] /\ prep \in [Token -> Preps] /\ ran \in [Token -> Nat]
  BY <1>1 DEF Init, NoPreps
<1>3. \A k \in Token : spec[k].mut <= mut /\ spec[k].ctl <= ctl
  BY DEF Init, NoSpec
<1>4. next \in 0..Len(Plan) /\ ctl \in 0..MaxHandoffs
  BY <1>1, SpeculationAssumption DEF Init
<1>. QED  BY <1>2, <1>3, <1>4 DEF Init, TypeOK, NoReceipt, Graphs, Preps

LEMMA TypeNext == TypeOK /\ [Next]_vars => TypeOK'
<1>. SUFFICES ASSUME TypeOK, [Next]_vars PROVE TypeOK'
  OBVIOUS
<1>g. going' \in Token \cup {None}
  BY DEF Next, SelectsAgain, Proceeds, vars, TypeOK
<1>0. /\ ctl \in 0..MaxHandoffs /\ mut \in Nat /\ changed \in BOOLEAN
      /\ last \in [op : Operations \cup {None}, verdict : {"none", "verified", "failed"}]
      /\ next \in 0..Len(Plan) /\ spec \in [Token -> Graphs]
      /\ \A k \in Token : /\ spec[k].mut <= mut /\ spec[k].ctl <= ctl
                          /\ spec[k].mut \in Nat /\ spec[k].ctl \in Nat
      /\ prep \in [Token -> Preps] /\ ran \in [Token -> Nat]
      /\ touched \subseteq Token /\ voided \subseteq Token /\ late \subseteq Token
      /\ Kept \subseteq Token /\ going' \in Token \cup {None}
      /\ MaxHandoffs \in Nat /\ Len(Plan) \in Nat
  <2>1. \A k \in Token : spec[k] \in Graphs
    BY Typed
  <2>2. \A k \in Token : spec[k].mut \in Nat /\ spec[k].ctl \in Nat
    BY <2>1 DEF Graphs
  <2>3. Kept \subseteq Token /\ Len(Plan) \in Nat /\ MaxHandoffs \in Nat
    BY SpeculationAssumption DEF Kept
  <2>. QED  BY <1>g, <2>2, <2>3, Typed DEF TypeOK
<1>a. ASSUME NEW k \in Token, Amends(k), mut' \in Nat, mut <= mut', ctl' = ctl
      PROVE  /\ spec' \in [Token -> Graphs]
             /\ \A j \in Token : spec'[j].mut <= mut' /\ spec'[j].ctl <= ctl'
  <2>1. spec' \in [Token -> Graphs] /\ \A j \in Token : spec'[j].mut = spec[j].mut /\ spec'[j].ctl = spec[j].ctl
    BY <1>a DEF Amends
  <2>2. ASSUME NEW j \in Token PROVE spec'[j].mut <= mut' /\ spec'[j].ctl <= ctl'
    <3>1. spec[j].mut <= mut /\ spec[j].ctl <= ctl /\ spec[j].mut \in Nat /\ mut \in Nat
      BY <1>0
    <3>2. spec'[j].mut = spec[j].mut /\ spec'[j].ctl = spec[j].ctl
      BY <2>1
    <3>. QED  BY <1>a, <3>1, <3>2
  <2>. QED  BY <2>1, <2>2
<1>1. CASE PageChanges
  BY <1>0, <1>1, TypeFrom DEF PageChanges, history
<1>2. CASE HumanMutation
  BY <1>0, <1>2, TypeFrom DEF HumanMutation
<1>3. CASE Handoff
  <2>1. ctl' \in 0..MaxHandoffs /\ ctl <= ctl' /\ ctl \in Nat /\ ctl' \in Nat
    BY <1>0, <1>3 DEF Handoff
  <2>2. \A k \in Token : spec'[k].ctl <= ctl'
    BY <1>0, <1>3, <2>1 DEF Handoff
  <2>. QED  BY <1>0, <1>3, <2>1, <2>2, NoPrepsTyped, TypeFrom DEF Handoff, history
<1>4. ASSUME NEW op \in {Parent, Other}, ExecuteRefused(op) PROVE TypeOK'
  <2>1. last' \in [op : Operations \cup {None}, verdict : {"none", "verified", "failed"}]
    BY <1>4 DEF ExecuteRefused, Operations
  <2>. QED  BY <1>0, <1>4, <2>1, TypeFrom DEF ExecuteRefused, history
<1>5. ASSUME NEW op \in {Parent, Other}, NEW fresh \in BOOLEAN, Execute(op, fresh) PROVE TypeOK'
  <2>1. CASE Rejects(fresh)
    <3>1. Refreshes /\ UNCHANGED <<ctl, last, next, spec, prep, ran>>
      BY <1>5, <2>1 DEF Execute
    <3>2. \A k \in Token : spec'[k].mut <= mut'
      BY <1>0, <3>1, RefreshEffect
    <3>. QED  BY <1>0, <3>1, <3>2, RefreshEffect, TypeFrom
  <2>2. CASE ~Rejects(fresh)
    <3>1. PICK verdict \in {"verified", "failed"} :
               Dispatched(op, verdict) /\ spec' = Carried(op, verdict, mut')
      BY <1>5, <2>2 DEF Execute
    <3>2. UNCHANGED <<ctl, prep, ran>> /\ next' = IF Plan = <<>> THEN next ELSE next + 1
      BY <1>5, <2>2 DEF Execute
    <3>3. next' \in 0..Len(Plan)
      BY <1>0, <1>5, <3>2 DEF Execute, PlanAllows
    <3>4. op \in Operations
      BY DEF Operations
    <3>5. /\ mut' \in Nat /\ mut <= mut' /\ changed' \in BOOLEAN
          /\ last' \in [op : Operations \cup {None}, verdict : {"none", "verified", "failed"}]
          /\ touched' \subseteq Token /\ voided' \subseteq Token /\ late' \subseteq Token
      BY <3>1, <3>4, DispatchEffect
    <3>6. /\ spec' \in [Token -> Graphs]
          /\ \A k \in Token : spec'[k].ctl = spec[k].ctl /\ spec'[k].mut <= mut'
      BY <3>1, <3>5, CarriedEffect
    <3>. QED  BY <1>0, <3>2, <3>3, <3>5, <3>6, TypeFrom
  <2>. QED  BY <2>1, <2>2
<1>6. ASSUME NEW k \in Token, Expires(k) PROVE TypeOK'
  <2>1. Amends(k)
    BY <1>6, AmendEffect DEF Expires
  <2>. QED  BY <1>0, <1>a, <1>6, <2>1, TypeFrom DEF Expires, history
<1>7. ASSUME NEW k \in Token, PrepareSpeculation(k) PROVE TypeOK'
  <2>1. /\ Refreshes /\ UNCHANGED <<ctl, last, next, ran>>
        /\ prep' \in {prep, NoPreps}
    BY <1>7 DEF PrepareSpeculation
  <2>2. /\ mut' \in Nat /\ mut <= mut' /\ changed' \in BOOLEAN
        /\ touched' \subseteq Token /\ voided' \subseteq Token /\ late' \subseteq Token
    BY <2>1, RefreshEffect
  <2>. DEFINE pruned == [j \in Token |-> IF Active(j) THEN spec[j] ELSE NoSpec]
              d == [NoSpec EXCEPT !.live = TRUE, !.ctl = ctl, !.mut = mut']
  <2>3. \/ spec' = spec \/ spec' = pruned
        \/ spec' = [pruned EXCEPT ![k] = d]
    BY <1>7 DEF PrepareSpeculation
  <2>4. d \in Graphs /\ d.mut = mut' /\ d.ctl = ctl
    <3>1. NoSpec.live \in BOOLEAN /\ NoSpec \in Graphs /\ ctl \in Nat
      BY <1>0 DEF NoSpec, Graphs
    <3>2. [NoSpec EXCEPT !.live = TRUE] \in Graphs
      BY <3>1 DEF Graphs
    <3>3. [[NoSpec EXCEPT !.live = TRUE] EXCEPT !.ctl = ctl] \in Graphs
      BY <3>1, <3>2 DEF Graphs
    <3>4. [[[NoSpec EXCEPT !.live = TRUE] EXCEPT !.ctl = ctl] EXCEPT !.mut = mut'] \in Graphs
      BY <2>2, <3>3 DEF Graphs
    <3>. QED  BY <3>1, <3>2, <3>3, <3>4, Zenon DEF Graphs
  <2>5. /\ pruned \in [Token -> Graphs]
        /\ \A j \in Token : pruned[j].mut <= mut /\ pruned[j].ctl <= ctl
    BY PrunedEffect
  <2>5a. \A j \in Token : pruned[j].mut \in Nat
    BY <2>5 DEF Graphs
  <2>. HIDE DEF d, pruned
  <2>6. /\ spec' \in [Token -> Graphs]
        /\ \A j \in Token : spec'[j].mut <= mut' /\ spec'[j].ctl <= ctl'
    <3>1. CASE spec' = spec
      BY <1>0, <2>1, <2>2, <3>1
    <3>2. CASE spec' = pruned
      BY <1>0, <2>1, <2>2, <2>5, <2>5a, <3>2
    <3>3. CASE spec' = [pruned EXCEPT ![k] = d]
      BY <1>0, <2>1, <2>2, <2>4, <2>5, <2>5a, <3>3
    <3>. QED  BY <2>3, <3>1, <3>2, <3>3
  <2>7. prep' \in [Token -> Preps]
    BY <1>0, <2>1, NoPrepsTyped
  <2>. QED  BY <1>0, <2>1, <2>2, <2>6, <2>7, TypeFrom
<1>8. ASSUME NEW k \in Token, CommitBranch(k) PROVE TypeOK'
  <2>1. prep' = [prep EXCEPT ![k] = NoPrep] /\ UNCHANGED <<ctl, next, spec>>
    BY <1>8 DEF CommitBranch
  <2>2. prep' \in [Token -> Preps]
    BY <1>0, <2>1 DEF NoPrep, Preps
  <2>3. CASE Refreshes /\ UNCHANGED <<last, ran>>
    <3>1. \A j \in Token : spec'[j].mut <= mut'
      BY <1>0, <2>1, <2>3, RefreshEffect
    <3>. QED  BY <1>0, <2>1, <2>2, <2>3, <3>1, RefreshEffect, TypeFrom
  <2>4. ASSUME NEW verdict \in {"verified", "failed"}, Dispatched(prep[k].branch, verdict),
               ran' = [ran EXCEPT ![k] = @ + 1]
        PROVE  TypeOK'
    <3>1. prep[k].branch \in Operations
      BY <1>0, <1>8 DEF CommitBranch, Operations, Preps
    <3>2. /\ mut' \in Nat /\ mut <= mut' /\ changed' \in BOOLEAN
          /\ last' \in [op : Operations \cup {None}, verdict : {"none", "verified", "failed"}]
          /\ touched' \subseteq Token /\ voided' \subseteq Token /\ late' \subseteq Token
      BY <2>4, <3>1, DispatchEffect
    <3>3. \A j \in Token : spec'[j].mut <= mut'
      BY <1>0, <2>1, <3>2
    <3>4. ran' \in [Token -> Nat]
      BY <1>0, <2>4
    <3>. QED  BY <1>0, <2>1, <2>2, <3>2, <3>3, <3>4, TypeFrom
  <2>. QED  BY <1>8, <2>3, <2>4 DEF CommitBranch
<1>9. ASSUME NEW k \in Token, NEW matches \in SUBSET Branch,
             Select(k, matches) \/ ExecuteBranchRefused(k, matches)
      PROVE  TypeOK'
  <2>1. /\ RefreshFor(k) /\ UNCHANGED <<ctl, last, next, ran>>
        /\ prep' \in {prep, NoPreps}
        /\ spec' = spec \/ spec' = [spec EXCEPT ![k].sel = Chosen(matches)]
    BY <1>9 DEF Select, ExecuteBranchRefused
  <2>2. Amends(k)
    BY <2>1, AmendEffect
  <2>3. prep' \in [Token -> Preps]
    BY <1>0, <2>1, NoPrepsTyped
  <2>. QED  BY <1>0, <1>a, <2>1, <2>2, <2>3, RefreshForEffect, TypeFrom
<1>10. ASSUME NEW k \in Token, NEW matches \in SUBSET Branch, SelectsAgain(k, matches)
       PROVE  TypeOK'
  <2>1. Amends(k)
    BY <1>10, AmendEffect DEF SelectsAgain
  <2>. QED  BY <1>0, <1>a, <1>10, <2>1, TypeFrom DEF SelectsAgain, history
<1>12. ASSUME NEW k \in Token, Proceeds(k) PROVE TypeOK'
  <2>. DEFINE b == spec[k].sel
  <2>1. b \in Branch \cup {None} /\ UNCHANGED <<ctl, next, spec>>
    BY <1>0, <1>12 DEF Proceeds, Graphs
  <2>. HIDE DEF b
  <2>2. CASE UNCHANGED <<mut, changed, last, prep, history>>
    BY <1>0, <2>1, <2>2, TypeFrom DEF history
  <2>3. CASE Refreshes /\ prep' \in {prep, NoPreps} /\ UNCHANGED <<last, ran>>
    <3>1. \A j \in Token : spec'[j].mut <= mut'
      BY <1>0, <2>1, <2>3, RefreshEffect
    <3>. QED  BY <1>0, <2>1, <2>3, <3>1, NoPrepsTyped, RefreshEffect, TypeFrom
  <2>4. CASE Prepares(k) /\ ~(Refreshes /\ prep' = IF Notes THEN NoPreps ELSE prep) /\ UNCHANGED <<last, ran>>
    <3>1. /\ mut' = MutNow /\ changed' = FALSE
          /\ prep' = [IF Notes THEN NoPreps ELSE prep EXCEPT
                        ![k] = [branch |-> b, mut |-> MutNow, ctl |-> ctl]]
          /\ touched' \subseteq touched \cup Kept /\ voided' \subseteq voided \cup Kept
          /\ late' \subseteq late \cup {k}
      BY <2>4 DEF Prepares, b
    <3>2. mut' \in Nat /\ mut <= mut'
      BY <3>1, EpochTyped
    <3>3. [branch |-> b, mut |-> MutNow, ctl |-> ctl] \in Preps
      BY <1>0, <2>1, EpochTyped DEF Preps
    <3>4. prep' \in [Token -> Preps]
      BY <1>0, <3>1, <3>3, NoPrepsTyped
    <3>5. \A j \in Token : spec'[j].mut <= mut'
      BY <1>0, <2>1, <3>2
    <3>. QED  BY <1>0, <2>1, <2>4, <3>1, <3>2, <3>4, <3>5, TypeFrom
  <2>5. CASE last' = [op |-> b, verdict |-> "failed"] /\ UNCHANGED <<mut, changed, prep, history>>
    <3>1. last' \in [op : Operations \cup {None}, verdict : {"none", "verified", "failed"}]
      BY <2>1, <2>5 DEF Operations
    <3>. QED  BY <1>0, <2>1, <2>5, <3>1, TypeFrom DEF history
  <2>6. ASSUME NEW verdict \in {"verified", "failed"}, Dispatched(b, verdict),
               ran' = [ran EXCEPT ![k] = @ + 1], UNCHANGED prep
        PROVE  TypeOK'
    <3>1. b \in Operations \cup {None}
      BY <2>1 DEF Operations
    <3>2. /\ mut' \in Nat /\ mut <= mut' /\ changed' \in BOOLEAN
          /\ last' \in [op : Operations \cup {None}, verdict : {"none", "verified", "failed"}]
          /\ touched' \subseteq Token /\ voided' \subseteq Token /\ late' \subseteq Token
      BY <2>6, <3>1, DispatchEffect
    <3>3. ran' \in [Token -> Nat]
      BY <1>0, <2>6
    <3>4. \A j \in Token : spec'[j].mut <= mut'
      BY <1>0, <2>1, <3>2
    <3>. QED  BY <1>0, <2>1, <2>6, <3>2, <3>3, <3>4, TypeFrom
  <2>7. \/ UNCHANGED <<mut, changed, last, prep, history>>
        \/ Prepares(k) /\ UNCHANGED <<last, ran>>
        \/ Executes(k) /\ UNCHANGED prep
    BY <1>12 DEF Proceeds
  <2>8. CASE Prepares(k) /\ UNCHANGED <<last, ran>>
    <3>2. CASE Refreshes /\ prep' = IF Notes THEN NoPreps ELSE prep
      BY <2>3, <2>8, <3>2
    <3>3. CASE ~(Refreshes /\ prep' = IF Notes THEN NoPreps ELSE prep)
      BY <2>4, <2>8, <3>3
    <3>. QED  BY <3>2, <3>3
  <2>9. CASE Executes(k) /\ UNCHANGED prep
    BY <2>3, <2>5, <2>6, <2>9 DEF Executes, b
  <2>. QED  BY <2>2, <2>7, <2>8, <2>9
<1>11. CASE UNCHANGED vars
  BY <1>0, <1>11, TypeFrom DEF vars, history
<1>. QED
  BY <1>1, <1>2, <1>3, <1>4, <1>5, <1>6, <1>7, <1>8, <1>9, <1>10, <1>11, <1>12 DEF Next, Calls

(* At most once, and of the last epoch only.                                *)

\* A step that runs nothing and prepares nothing: epochs only advance, who sees it
\* is of an earlier one, and a graph that is there was there before or is new.
LEMMA InvKept ==
    ASSUME TypeOK, OnceInv, EpochInv, ran' = ran, \A k \in Token : prep'[k] \in {prep[k], NoPrep},
           mut' \in Nat, mut <= mut', Arbitrated => mut < mut' \/ touched' \subseteq touched,
           \A k \in Token : Live(k)' =>
               \/ /\ Live(k) /\ (spec[k].consumed => spec'[k].consumed)
                  /\ k \in touched' => spec'[k].mut = spec[k].mut
               \/ ran[k] = 0 /\ prep'[k].branch = None /\ k \notin touched'
    PROVE  OnceInv' /\ EpochInv'
<1>1. ASSUME NEW k \in Token PROVE OnceOk(k)'
  <2>1. OnceOk(k) /\ ran[k] \in Nat /\ prep'[k] \in {prep[k], NoPrep}
    BY DEF OnceInv, TypeOK
  <2>2. prep'[k].branch # None => prep[k].branch # None
    BY <2>1 DEF NoPrep
  <2>3. prep[k].branch = None => prep'[k].branch = None
    BY <2>1 DEF NoPrep
  <2>. QED  BY <2>1, <2>2, <2>3 DEF OnceOk
<1>2. ASSUME NEW k \in Token PROVE EpochOk(k)'
  <2>1. /\ EpochOk(k) /\ spec[k].mut <= mut /\ spec[k].mut \in Nat /\ mut \in Nat
        /\ prep[k].mut \in Nat
    BY Typed DEF EpochInv, TypeOK, Graphs, Preps
  <2>2. prep'[k] = prep[k] \/ prep'[k] = NoPrep
    OBVIOUS
  <2>3. prep'[k].mut <= mut'
    BY <2>1, <2>2 DEF NoPrep, EpochOk
  <2>4. Arbitrated /\ k \in touched' /\ prep'[k].branch # None => prep'[k].mut < mut'
    BY <2>1, <2>2 DEF NoPrep, EpochOk
  <2>5. Arbitrated /\ k \in touched' /\ Live(k)' => spec'[k].mut < mut'
    BY <2>1 DEF EpochOk
  <2>. QED  BY <2>3, <2>4, <2>5 DEF EpochOk
<1>. QED  BY <1>1, <1>2 DEF OnceInv, EpochInv

\* What the second selection asks of a graph, and what that says of it.
LEMMA EligibleIsCurrent ==
    ASSUME TypeOK, OnceInv, EpochInv, NEW k \in Token, NEW matches \in SUBSET Branch,
           SelectsAgain(k, matches)
    PROVE  /\ ran[k] = 0 /\ prep[k].branch = None /\ AfterParent /\ spec[k].ctl = ctl
           /\ Arbitrated => k \notin touched
           /\ Live(k) /\ ~spec[k].consumed
<1>1. Live(k) /\ ~spec[k].consumed /\ Selectable(k, MutNow) /\ ~Notes
  BY DEF SelectsAgain, Eligible
<1>2. MutNow = mut
  BY <1>1, EpochTyped
<1>3. AfterParent /\ spec[k].ctl = ctl /\ (Arbitrated => spec[k].mut = mut)
  BY <1>1, <1>2 DEF Selectable, Current, Looks
<1>4. OnceOk(k) /\ EpochOk(k) /\ ran[k] \in Nat /\ mut \in Nat
  BY DEF OnceInv, EpochInv, TypeOK
<1>. QED  BY <1>1, <1>3, <1>4 DEF OnceOk, EpochOk

\* And what CommitBranch asks of a prepared branch when it runs it.
LEMMA CommitIsCurrent ==
    ASSUME TypeOK, OnceInv, EpochInv, NEW k \in Token, CommitBranch(k), ran' # ran
    PROVE  /\ ran[k] = 0 /\ prep[k].branch # None /\ prep[k].ctl = ctl
           /\ Arbitrated => k \notin touched
<1>1. /\ prep[k].branch # None /\ prep[k].ctl = ctl
      /\ Arbitrated => prep[k].mut = mut
  BY DEF CommitBranch
<1>2. OnceOk(k) /\ EpochOk(k) /\ ran[k] \in Nat /\ mut \in Nat
  BY DEF OnceInv, EpochInv, TypeOK
<1>. QED  BY <1>1, <1>2 DEF OnceOk, EpochOk

\* Both invariants after a step that runs the branch of k, or prepares it.
LEMMA InvRuns ==
    ASSUME TypeOK, OnceInv, EpochInv, NEW k \in Token, ran[k] = 0,
           \/ ran' = [ran EXCEPT ![k] = @ + 1] /\ prep'[k].branch = None
           \/ ran' = ran,
           prep'[k].mut <= mut',
           prep'[k].branch # None /\ Arbitrated => k \notin touched',
           \A j \in Token \ {k} : prep'[j] \in {prep[j], NoPrep},
           \A j \in Token :
               /\ Live(j)' = Live(j) /\ spec'[j].mut = spec[j].mut
               /\ spec[j].consumed => spec'[j].consumed,
           Live(k)' => spec'[k].consumed,
           mut' \in Nat, mut <= mut', Arbitrated => mut < mut' \/ touched' = touched
    PROVE  OnceInv' /\ EpochInv'
<1>0. ran \in [Token -> Nat]
  BY DEF TypeOK
<1>1. ASSUME NEW j \in Token PROVE OnceOk(j)'
  <2>1. CASE j = k
    <3>1. ran'[k] \in {0, 1} /\ (ran'[k] = 1 => prep'[k].branch = None)
      BY <1>0
    <3>. QED  BY <2>1, <3>1 DEF OnceOk
  <2>2. CASE j # k
    <3>1. ran'[j] = ran[j] /\ OnceOk(j) /\ prep'[j] \in {prep[j], NoPrep}
      BY <1>0, <2>2 DEF OnceInv
    <3>. QED  BY <3>1 DEF OnceOk, NoPrep
  <2>. QED  BY <2>1, <2>2
<1>2. ASSUME NEW j \in Token PROVE EpochOk(j)'
  <2>1. /\ EpochOk(j) /\ spec[j].mut <= mut /\ spec[j].mut \in Nat /\ mut \in Nat
        /\ prep[j].mut \in Nat
    BY Typed DEF EpochInv, TypeOK, Graphs, Preps
  <2>2. Arbitrated /\ j \in touched' /\ Live(j)' => spec'[j].mut < mut'
    BY <2>1 DEF EpochOk
  <2>3. /\ prep'[j].mut <= mut'
        /\ Arbitrated /\ j \in touched' /\ prep'[j].branch # None => prep'[j].mut < mut'
    <3>1. CASE j = k
      BY <3>1
    <3>2. CASE j # k
      BY <2>1, <3>2 DEF EpochOk, NoPrep
    <3>. QED  BY <3>1, <3>2
  <2>. QED  BY <2>2, <2>3 DEF EpochOk
<1>. QED  BY <1>1, <1>2 DEF OnceInv, EpochInv

LEMMA InvInit == Init => OnceInv /\ EpochInv /\ GoingInv
BY OperationsAssumption DEF Init, OnceInv, OnceOk, EpochInv, EpochOk, GoingInv, NoPreps, NoPrep, NoSpec, Live

LEMMA InvNext == TypeOK /\ OnceInv /\ EpochInv /\ GoingInv /\ [Next]_vars => OnceInv' /\ EpochInv'
<1>. SUFFICES ASSUME TypeOK, OnceInv, EpochInv, GoingInv, [Next]_vars PROVE OnceInv' /\ EpochInv'
  OBVIOUS
<1>0. /\ mut \in Nat /\ prep \in [Token -> Preps] /\ ran \in [Token -> Nat]
      /\ \A k \in Token : prep[k] \in Preps
  BY Typed DEF TypeOK
<1>a. ASSUME NEW k \in Token, Amends(k), ran' = ran, mut' \in Nat, mut <= mut',
             \A j \in Token : prep'[j] \in {prep[j], NoPrep},
             mut < mut' \/ touched' \subseteq touched
      PROVE  OnceInv' /\ EpochInv'
  BY <1>a, InvKept DEF Amends
<1>b. ASSUME prep' \in {prep, NoPreps}
      PROVE  \A j \in Token : prep'[j] \in {prep[j], NoPrep}
  BY <1>b DEF NoPreps
<1>1. CASE PageChanges
  BY <1>0, <1>1, InvKept DEF PageChanges, history, Live
<1>2. CASE HumanMutation
  BY <1>0, <1>2, InvKept DEF HumanMutation, Live
<1>3. CASE Handoff
  BY <1>0, <1>3, InvKept DEF Handoff, NoPreps, history, Live
<1>4. ASSUME NEW op \in {Parent, Other}, ExecuteRefused(op) PROVE OnceInv' /\ EpochInv'
  BY <1>0, <1>4, InvKept DEF ExecuteRefused, history, Live
<1>5. ASSUME NEW op \in {Parent, Other}, NEW fresh \in BOOLEAN, Execute(op, fresh)
      PROVE  OnceInv' /\ EpochInv'
  <2>0. UNCHANGED <<prep, ran>>
    BY <1>5 DEF Execute
  <2>1. CASE Rejects(fresh)
    <3>1. Refreshes /\ UNCHANGED spec
      BY <1>5, <2>1 DEF Execute
    <3>2. /\ mut' \in Nat /\ mut <= mut'
          /\ mut < mut' \/ touched' \subseteq touched
      BY <1>0, <3>1, RefreshEffect
    <3>. QED  BY <2>0, <3>1, <3>2, InvKept DEF Live
  <2>2. CASE ~Rejects(fresh)
    <3>1. PICK verdict \in {"verified", "failed"} :
               Dispatched(op, verdict) /\ spec' = Carried(op, verdict, mut')
      BY <1>5, <2>2 DEF Execute
    <3>2. op \in Operations
      BY DEF Operations
    <3>3. /\ mut' \in Nat /\ mut <= mut' /\ (Arbitrated => mut < mut')
      BY <3>1, <3>2, DispatchEffect
    <3>4. \A k \in Token : spec'[k].live = Live(k) /\ spec'[k].consumed = spec[k].consumed
      BY <3>1, <3>3, CarriedEffect
    <3>5. \A k \in Token : k \in touched' => spec'[k] = spec[k]
      BY <3>1 DEF Carried, Dispatched
    <3>. QED  BY <2>0, <3>3, <3>4, <3>5, InvKept DEF Live
  <2>. QED  BY <2>1, <2>2
<1>6. ASSUME NEW k \in Token, Expires(k) PROVE OnceInv' /\ EpochInv'
  <2>1. Amends(k)
    BY <1>6, AmendEffect DEF Expires
  <2>. QED  BY <1>0, <1>a, <1>6, <2>1 DEF Expires, history
<1>7. ASSUME NEW k \in Token, PrepareSpeculation(k) PROVE OnceInv' /\ EpochInv'
  <2>1. /\ k \notin Kept \cup touched /\ ran[k] = 0 /\ Refreshes /\ ran' = ran
        /\ prep' \in {prep, NoPreps}
    BY <1>7 DEF PrepareSpeculation
  <2>2. /\ mut' \in Nat /\ mut <= mut' /\ k \notin touched'
        /\ mut < mut' \/ touched' \subseteq touched
    BY <1>0, <2>1, RefreshEffect
  <2>3. prep[k].branch = None /\ prep'[k].branch = None
    BY <1>b, <2>1 DEF Kept, NoPrep
  <2>. DEFINE pruned == [j \in Token |-> IF Active(j) THEN spec[j] ELSE NoSpec]
              d == [NoSpec EXCEPT !.live = TRUE, !.ctl = ctl, !.mut = mut']
  <2>4. spec' = spec \/ spec' = pruned \/ spec' = [pruned EXCEPT ![k] = d]
    BY <1>7 DEF PrepareSpeculation
  <2>5. \A j \in Token : /\ pruned[j].live => Live(j) /\ pruned[j] = spec[j]
                         /\ pruned \in [Token -> Graphs]
    BY PrunedEffect DEF Active
  <2>. HIDE DEF d, pruned
  <2>6. \A j \in Token \ {k} : Live(j)' => Live(j) /\ spec'[j] = spec[j]
    BY <2>4, <2>5 DEF Live
  <2>. QED  BY <1>b, <2>1, <2>2, <2>3, <2>6, InvKept
<1>8. ASSUME NEW k \in Token, CommitBranch(k) PROVE OnceInv' /\ EpochInv'
  <2>1. prep' = [prep EXCEPT ![k] = NoPrep] /\ UNCHANGED spec
    BY <1>8 DEF CommitBranch
  <2>2. prep'[k] = NoPrep /\ \A j \in Token \ {k} : prep'[j] = prep[j]
    BY <1>0, <2>1
  <2>3. CASE Refreshes /\ ran' = ran
    <3>1. /\ mut' \in Nat /\ mut <= mut'
          /\ mut < mut' \/ touched' \subseteq touched
      BY <1>0, <2>3, RefreshEffect
    <3>. QED  BY <2>1, <2>2, <2>3, <3>1, InvKept DEF Live
  <2>4. ASSUME NEW verdict \in {"verified", "failed"}, Dispatched(prep[k].branch, verdict),
               ran' = [ran EXCEPT ![k] = @ + 1]
        PROVE  OnceInv' /\ EpochInv'
    <3>1. prep[k].branch \in Operations
      BY <1>0, <1>8 DEF CommitBranch, Operations, Preps
    <3>2. mut' \in Nat /\ mut <= mut' /\ (Arbitrated => mut < mut')
      BY <2>4, <3>1, DispatchEffect
    <3>3. ran' # ran
      <4>1. ran'[k] = ran[k] + 1 /\ ran[k] \in Nat
        BY <1>0, <2>4
      <4>. QED  BY <4>1
    <3>4. ran[k] = 0 /\ prep[k].branch # None
      BY <1>8, <3>3, CommitIsCurrent
    <3>5. Live(k) => spec[k].consumed
      BY <3>4 DEF OnceInv, OnceOk
    <3>6. prep'[k].branch = None /\ prep'[k].mut <= mut'
      BY <2>2, <3>2 DEF NoPrep
    <3>7. \A j \in Token :
              /\ Live(j)' = Live(j) /\ spec'[j].mut = spec[j].mut
              /\ spec[j].consumed => spec'[j].consumed
      BY <2>1 DEF Live
    <3>8. Live(k)' => spec'[k].consumed
      BY <2>1, <3>5 DEF Live
    <3>9. touched' = touched \/ (Arbitrated => mut < mut')
      BY <3>2
    <3>. QED  BY <2>2, <2>4, <3>2, <3>4, <3>6, <3>7, <3>8, <3>9, InvRuns
  <2>. QED  BY <1>8, <2>3, <2>4 DEF CommitBranch
<1>9. ASSUME NEW k \in Token, NEW matches \in SUBSET Branch,
             Select(k, matches) \/ ExecuteBranchRefused(k, matches)
      PROVE  OnceInv' /\ EpochInv'
  <2>1. /\ RefreshFor(k) /\ ran' = ran /\ prep' \in {prep, NoPreps}
        /\ spec' = spec \/ spec' = [spec EXCEPT ![k].sel = Chosen(matches)]
    BY <1>9 DEF Select, ExecuteBranchRefused
  <2>2. Amends(k)
    BY <2>1, AmendEffect
  <2>3. /\ mut' \in Nat /\ mut <= mut'
        /\ mut < mut' \/ touched' \subseteq touched
    BY <1>0, <2>1, RefreshForEffect
  <2>. QED  BY <1>a, <1>b, <2>1, <2>2, <2>3
<1>10. ASSUME NEW k \in Token, NEW matches \in SUBSET Branch, SelectsAgain(k, matches)
       PROVE  OnceInv' /\ EpochInv'
  <2>1. Amends(k)
    BY <1>10, AmendEffect DEF SelectsAgain
  <2>. QED  BY <1>0, <1>a, <1>10, <2>1 DEF SelectsAgain, history
<1>12. ASSUME NEW k \in Token, Proceeds(k) PROVE OnceInv' /\ EpochInv'
  <2>1. GoingOk(k) /\ spec' = spec
    BY <1>12 DEF Proceeds, GoingInv
  <2>2. /\ ran[k] = 0 /\ prep[k].branch = None /\ (Arbitrated => k \notin touched)
        /\ Live(k) /\ spec[k].consumed /\ spec[k].sel \in Branch
    BY <2>1 DEF GoingOk
  <2>3. /\ \A j \in Token : /\ Live(j)' = Live(j) /\ spec'[j].mut = spec[j].mut
                            /\ spec[j].consumed => spec'[j].consumed
        /\ Live(k)' => spec'[k].consumed
    BY <2>1, <2>2 DEF Live
  <2>4. CASE UNCHANGED <<mut, prep, history>>
    BY <1>0, <2>3, <2>4, InvKept DEF history
  <2>5. CASE Refreshes /\ prep' \in {prep, NoPreps} /\ UNCHANGED ran
    <3>1. mut' \in Nat /\ mut <= mut' /\ (mut < mut' \/ touched' \subseteq touched)
      BY <1>0, <2>5, RefreshEffect
    <3>. QED  BY <1>b, <2>3, <2>5, <3>1, InvKept
  <2>6. CASE /\ Prepares(k) /\ ~(Refreshes /\ prep' = IF Notes THEN NoPreps ELSE prep)
             /\ UNCHANGED ran
    <3>1. /\ mut' = MutNow
          /\ prep' = [IF Notes THEN NoPreps ELSE prep EXCEPT
                        ![k] = [branch |-> spec[k].sel, mut |-> MutNow, ctl |-> ctl]]
          /\ touched' = IF Notes THEN touched \cup (Kept \ {k}) ELSE touched
      BY <2>6 DEF Prepares
    <3>2. mut' \in Nat /\ mut <= mut' /\ (Notes => mut < mut')
      BY <1>0, <3>1, EpochTyped DEF MutNow
    <3>3. prep'[k].mut <= mut'
      BY <1>0, <3>1, <3>2, NoPrepsTyped
    <3>4. \A j \in Token \ {k} : prep'[j] \in {prep[j], NoPrep}
      BY <1>0, <3>1, NoPrepsTyped DEF NoPreps
    <3>5. Arbitrated => k \notin touched'
      BY <2>2, <3>1
    <3>6. Arbitrated => mut < mut' \/ touched' = touched
      BY <3>1, <3>2
    <3>. QED  BY <2>2, <2>3, <2>6, <3>2, <3>3, <3>4, <3>5, <3>6, InvRuns
  <2>7. ASSUME NEW verdict \in {"verified", "failed"}, Dispatched(spec[k].sel, verdict),
               ran' = [ran EXCEPT ![k] = @ + 1], UNCHANGED prep
        PROVE  OnceInv' /\ EpochInv'
    <3>1. spec[k].sel \in Operations \cup {None}
      BY <2>2 DEF Operations
    <3>2. mut' \in Nat /\ mut <= mut' /\ (Arbitrated => mut < mut')
      BY <2>7, <3>1, DispatchEffect
    <3>3. prep'[k].mut <= mut'
      <4>1. prep[k].mut <= mut /\ prep[k].mut \in Nat
        BY <1>0 DEF EpochInv, EpochOk, Preps
      <4>. QED  BY <1>0, <2>7, <3>2, <4>1
    <3>. QED  BY <2>2, <2>3, <2>7, <3>2, <3>3, InvRuns
  <2>8. \/ UNCHANGED <<mut, prep, history>>
        \/ Prepares(k) /\ UNCHANGED ran
        \/ Executes(k) /\ UNCHANGED prep
    BY <1>12 DEF Proceeds
  <2>9. CASE Prepares(k) /\ UNCHANGED ran
    BY <2>5, <2>6, <2>9
  <2>10. CASE Executes(k) /\ UNCHANGED prep
    BY <2>4, <2>5, <2>7, <2>10 DEF Executes
  <2>. QED  BY <2>4, <2>8, <2>9, <2>10
<1>11. CASE UNCHANGED vars
  BY <1>0, <1>11, InvKept DEF vars, history, Live
<1>. QED
  BY <1>1, <1>2, <1>3, <1>4, <1>5, <1>6, <1>7, <1>8, <1>9, <1>10, <1>11, <1>12 DEF Next, Calls

\* What a call does to the graphs: a consumed graph that stays is still consumed.
LEMMA CallKeepsConsumed ==
    ASSUME TypeOK, Calls, NEW j \in late, Live(j) => spec[j].consumed, Live(j)'
    PROVE  spec'[j].consumed /\ late' = late
<1>0. j \in Token /\ mut \in Nat
  BY DEF TypeOK
<1>1. CASE UNCHANGED <<spec, late>>
  BY <1>1 DEF Live
<1>2. ASSUME NEW k \in Token, Amends(k), late' = late PROVE spec'[j].consumed /\ late' = late
  BY <1>0, <1>2 DEF Amends
<1>3. ASSUME NEW op \in {Parent, Other}, NEW fresh \in BOOLEAN, Execute(op, fresh)
      PROVE  spec'[j].consumed /\ late' = late
  <2>1. CASE Rejects(fresh)
    <3>1. Refreshes /\ UNCHANGED spec
      BY <1>3, <2>1 DEF Execute
    <3>. QED  BY <3>1, RefreshEffect DEF Live
  <2>2. CASE ~Rejects(fresh)
    <3>1. PICK verdict \in {"verified", "failed"} :
               Dispatched(op, verdict) /\ spec' = Carried(op, verdict, mut')
      BY <1>3, <2>2 DEF Execute
    <3>2. op \in Operations \cup {None}
      BY DEF Operations
    <3>3. mut' \in Nat /\ mut <= mut' /\ late' = late
      BY <3>1, <3>2, DispatchEffect
    <3>4. spec'[j].live = Live(j) /\ spec'[j].consumed = spec[j].consumed
      BY <1>0, <3>1, <3>3, CarriedEffect
    <3>. QED  BY <3>3, <3>4 DEF Live
  <2>. QED  BY <2>1, <2>2
<1>4. ASSUME NEW k \in Token, PrepareSpeculation(k) PROVE spec'[j].consumed /\ late' = late
  <2>. DEFINE pruned == [i \in Token |-> IF Active(i) THEN spec[i] ELSE NoSpec]
              d == [NoSpec EXCEPT !.live = TRUE, !.ctl = ctl, !.mut = mut']
  <2>1. k # j /\ Refreshes
    BY <1>4 DEF PrepareSpeculation
  <2>2. spec' = spec \/ spec' = pruned \/ spec' = [pruned EXCEPT ![k] = d]
    BY <1>4 DEF PrepareSpeculation
  <2>3. pruned \in [Token -> Graphs] /\ (pruned[j].live => Active(j))
    BY <1>0, PrunedEffect
  <2>. HIDE DEF d, pruned
  <2>4. late' = late
    BY <2>1, RefreshEffect
  <2>. QED  BY <1>0, <2>1, <2>2, <2>3, <2>4 DEF Live, Active
<1>5. ASSUME NEW k \in Token, CommitBranch(k) PROVE spec'[j].consumed /\ late' = late
  <2>1. UNCHANGED spec
    BY <1>5 DEF CommitBranch
  <2>2. CASE Refreshes
    BY <2>1, <2>2, RefreshEffect DEF Live
  <2>3. ASSUME NEW verdict \in {"verified", "failed"}, Dispatched(prep[k].branch, verdict)
        PROVE  spec'[j].consumed /\ late' = late
    BY <2>1, <2>3 DEF Live, Dispatched
  <2>. QED  BY <1>5, <2>2, <2>3 DEF CommitBranch
<1>6. ASSUME NEW k \in Token, NEW matches \in SUBSET Branch,
             Select(k, matches) \/ ExecuteBranchRefused(k, matches)
      PROVE  spec'[j].consumed /\ late' = late
  <2>1. RefreshFor(k) /\ (spec' = spec \/ spec' = [spec EXCEPT ![k].sel = Chosen(matches)])
    BY <1>6 DEF Select, ExecuteBranchRefused
  <2>2. Amends(k) /\ late' = late
    BY <2>1, AmendEffect, RefreshForEffect
  <2>. QED  BY <1>2, <2>2
<1>7. CASE HumanMutation \/ Handoff \/ \E op \in {Parent, Other} : ExecuteRefused(op)
  BY <1>1, <1>7 DEF HumanMutation, Handoff, ExecuteRefused, history
<1>. QED  BY <1>3, <1>4, <1>5, <1>6, <1>7 DEF Calls

\* No call leaves late changed.
LEMMA CallKeepsLate == TypeOK /\ Calls => late' = late
BY DEF Calls, HumanMutation, Handoff, ExecuteRefused, Execute, PrepareSpeculation, CommitBranch, Select,
   ExecuteBranchRefused, Dispatched, Refreshes, RefreshesTo, RefreshFor, history

LEMMA GoingNext == TypeOK /\ OnceInv /\ EpochInv /\ GoingInv /\ [Next]_vars => GoingInv'
<1>. SUFFICES ASSUME TypeOK, OnceInv, EpochInv, GoingInv, [Next]_vars PROVE GoingInv'
  OBVIOUS
<1>0. spec \in [Token -> Graphs] /\ late \subseteq Token /\ None \notin Token
  BY Typed, OperationsAssumption DEF TypeOK
<1>1. CASE PageChanges /\ UNCHANGED going
  BY <1>1 DEF PageChanges, GoingInv, GoingOk, Live, AfterParent, history
<1>2. ASSUME NEW j \in Token, Expires(j), UNCHANGED going PROVE GoingInv'
  <2>1. \A k \in Token : /\ spec'[k].live = spec[k].live /\ spec'[k].consumed = spec[k].consumed
                         /\ spec'[k].sel = spec[k].sel /\ spec'[k].ctl = spec[k].ctl
    BY <1>0, <1>2 DEF Expires, Graphs
  <2>. QED  BY <1>0, <1>2, <2>1 DEF Expires, GoingInv, GoingOk, Live, AfterParent, history
<1>3. CASE going = None /\ Calls /\ UNCHANGED going
  <2>1. late' = late
    BY <1>3, CallKeepsLate
  <2>2. \A j \in late : Live(j)' => spec'[j].consumed
    BY <1>3, CallKeepsConsumed DEF GoingInv
  <2>. QED  BY <1>0, <1>3, <2>1, <2>2 DEF GoingInv, Live
<1>4. ASSUME NEW k \in Token, NEW matches \in SUBSET Branch, SelectsAgain(k, matches) PROVE GoingInv'
  <2>1. /\ ran[k] = 0 /\ prep[k].branch = None /\ AfterParent /\ spec[k].ctl = ctl
        /\ Arbitrated => k \notin touched
        /\ Live(k) /\ ~spec[k].consumed
    BY <1>4, EligibleIsCurrent
  <2>2. /\ going' = k /\ spec' = Consumed(k, matches) /\ Chosen(matches) = spec[k].sel
        /\ spec[k].sel # None /\ UNCHANGED <<ctl, mut, changed, last, next, prep, history>>
    BY <1>4 DEF SelectsAgain, Eligible
  <2>3. Amends(k)
    BY <2>2, AmendEffect
  <2>4. spec'[k].consumed = TRUE /\ spec'[k].sel \in Branch
    <3>1. spec' = [spec EXCEPT ![k] =
                      [[spec[k] EXCEPT !.sel = Chosen(matches)] EXCEPT !.consumed = TRUE]]
      BY <1>0, <2>2 DEF Consumed
    <3>2. spec'[k] = [[spec[k] EXCEPT !.sel = Chosen(matches)] EXCEPT !.consumed = TRUE]
      BY <1>0, <3>1
    <3>3. spec[k] \in Graphs
      BY <1>0
    <3>. QED  BY <2>2, <3>2, <3>3 DEF Graphs
  <2>5. k \notin late
    BY <2>1 DEF GoingInv
  <2>6. GoingOk(k)'
    BY <2>1, <2>2, <2>3, <2>4, <2>5 DEF GoingOk, Amends, AfterParent, history
  <2>7. \A j \in late' : ~FailOnMutation /\ (Live(j)' => spec'[j].consumed)
    BY <1>0, <2>2, <2>3 DEF GoingInv, Amends, history
  <2>. QED  BY <2>2, <2>6, <2>7 DEF GoingInv, Live
<1>5. ASSUME NEW k \in Token, Proceeds(k) PROVE GoingInv'
  <2>1. going' = None /\ spec' = spec /\ GoingOk(k)
    BY <1>5 DEF Proceeds, GoingInv
  <2>2. late' = late \/ (late' = late \cup {k} /\ ~FailOnMutation)
    BY <1>5 DEF Proceeds, Prepares, Executes, Rejects, Dispatched, Refreshes, RefreshesTo, history
  <2>. QED  BY <1>0, <2>1, <2>2 DEF GoingInv, GoingOk, Live
<1>6. CASE UNCHANGED vars
  BY <1>6 DEF vars, history, GoingInv, GoingOk, Live, AfterParent
<1>. QED  BY <1>1, <1>2, <1>3, <1>4, <1>5, <1>6 DEF Next

(* The bound.                                                               *)

\* No graph is new: the bound holds as before.
LEMMA BoundKept ==
    ASSUME BoundInv, \A k \in Token : Live(k)' => Live(k) PROVE BoundInv'
<1>1. Lives' \subseteq Lives
  BY DEF Lives
<1>2. IsFiniteSet(Lives') /\ Cardinality(Lives') <= Cardinality(Lives)
  BY <1>1, FS_Subset DEF BoundInv
<1>3. Cardinality(Lives') \in Nat /\ Cardinality(Lives) \in Nat /\ MaxActive \in Nat
  BY <1>2, FS_CardinalityType, SpeculationAssumption DEF BoundInv
<1>. QED  BY <1>2, <1>3 DEF BoundInv

LEMMA BoundInit == Init => BoundInv
<1>. SUFFICES ASSUME Init PROVE BoundInv
  OBVIOUS
<1>1. Lives = {}
  BY DEF Init, Lives, Live, NoSpec
<1>2. IsFiniteSet(Lives) /\ Cardinality(Lives) = 0
  BY <1>1, FS_EmptySet
<1>. QED  BY <1>2, SpeculationAssumption DEF BoundInv

LEMMA BoundNext == TypeOK /\ BoundInv /\ [Next]_vars => BoundInv'
<1>. SUFFICES ASSUME TypeOK, BoundInv, [Next]_vars PROVE BoundInv'
  OBVIOUS
<1>1. ASSUME NEW k \in Token, PrepareSpeculation(k) PROVE BoundInv'
  <2>. DEFINE pruned == [j \in Token |-> IF Active(j) THEN spec[j] ELSE NoSpec]
              d == [NoSpec EXCEPT !.live = TRUE, !.ctl = ctl, !.mut = mut']
  <2>1. \/ spec' = spec \/ spec' = pruned
        \/ ~Full /\ spec' = [pruned EXCEPT ![k] = d]
    BY <1>1 DEF PrepareSpeculation
  <2>2. \A j \in Token : pruned[j].live <=> Active(j)
    BY PrunedEffect
  <2>. HIDE DEF d, pruned
  <2>3. CASE spec' = spec \/ spec' = pruned
    BY <2>2, <2>3, BoundKept DEF Live, Active
  <2>4. CASE ~Full /\ spec' = [pruned EXCEPT ![k] = d]
    <3>1. Actives \subseteq Lives
      BY DEF Actives, Lives, Active
    <3>2. IsFiniteSet(Actives) /\ Cardinality(Actives) \in Nat
      BY <3>1, FS_Subset, FS_CardinalityType DEF BoundInv
    <3>3. Cardinality(Actives) + 1 <= MaxActive
      BY <2>4, <3>2, SpeculationAssumption DEF Full, Actives
    <3>4. /\ IsFiniteSet(Actives \cup {k})
          /\ Cardinality(Actives \cup {k}) \in Nat /\ Cardinality(Actives \cup {k}) <= MaxActive
      <4>1. CASE k \in Actives
        <5>1. Actives \cup {k} = Actives
          BY <4>1
        <5>2. IsFiniteSet(Actives \cup {k}) /\ Cardinality(Actives \cup {k}) = Cardinality(Actives)
          BY <3>2, <5>1
        <5>. QED  BY <3>2, <3>3, <5>2, SpeculationAssumption
      <4>2. CASE k \notin Actives
        BY <3>2, <3>3, <4>2, FS_AddElement
      <4>. QED  BY <4>1, <4>2
    <3>5. Lives' \subseteq Actives \cup {k}
      BY <2>2, <2>4 DEF Lives, Live, Actives
    <3>6. IsFiniteSet(Lives') /\ Cardinality(Lives') <= Cardinality(Actives \cup {k})
      BY <3>4, <3>5, FS_Subset
    <3>7. Cardinality(Lives') \in Nat
      BY <3>6, FS_CardinalityType
    <3>. QED  BY <3>4, <3>6, <3>7, SpeculationAssumption DEF BoundInv
  <2>. QED  BY <2>1, <2>3, <2>4
<1>2. ASSUME NEW op \in {Parent, Other}, NEW fresh \in BOOLEAN, Execute(op, fresh) PROVE BoundInv'
  <2>1. CASE UNCHANGED spec
    BY <2>1, BoundKept DEF Live
  <2>2. ASSUME NEW verdict \in {"verified", "failed"},
               Dispatched(op, verdict), spec' = Carried(op, verdict, mut')
        PROVE  BoundInv'
    <3>1. mut' \in Nat /\ mut <= mut'
      BY <2>2, DispatchEffect DEF Operations
    <3>2. \A k \in Token : spec'[k].live = Live(k)
      BY <2>2, <3>1, CarriedEffect
    <3>. QED  BY <3>2, BoundKept DEF Live
  <2>. QED  BY <1>2, <2>1, <2>2 DEF Execute
<1>3. ASSUME NEW k \in Token, NEW matches \in SUBSET Branch, Amends(k) PROVE BoundInv'
  BY <1>3, BoundKept DEF Amends
<1>4. ASSUME NEW k \in Token, Expires(k) PROVE BoundInv'
  <2>1. Amends(k)
    BY <1>4, AmendEffect DEF Expires
  <2>. QED  BY <1>3, <2>1
<1>5. ASSUME NEW k \in Token, NEW matches \in SUBSET Branch,
             Select(k, matches) \/ ExecuteBranchRefused(k, matches) \/ SelectsAgain(k, matches)
      PROVE  BoundInv'
  <2>1. Amends(k)
    BY <1>5, AmendEffect DEF Select, ExecuteBranchRefused, SelectsAgain
  <2>. QED  BY <1>3, <2>1
<1>6. ASSUME NEW k \in Token, CommitBranch(k) PROVE BoundInv'
  BY <1>6, BoundKept DEF CommitBranch, Live
<1>7. CASE PageChanges \/ HumanMutation \/ Handoff \/ UNCHANGED vars
           \/ (\E op \in {Parent, Other} : ExecuteRefused(op)) \/ \E k \in Token : Proceeds(k)
  BY <1>7, BoundKept DEF PageChanges, HumanMutation, Handoff, ExecuteRefused, Proceeds, vars, Live
<1>. QED  BY <1>1, <1>2, <1>4, <1>5, <1>6, <1>7 DEF Next, Calls

(* The theorems.                                                            *)

Inv == TypeOK /\ OnceInv /\ EpochInv /\ GoingInv /\ BoundInv

LEMMA InvHolds == Spec => []Inv
<1>1. Init => Inv
  BY TypeInit, InvInit, BoundInit DEF Inv
<1>2. Inv /\ [Next]_vars => Inv'
  BY TypeNext, InvNext, GoingNext, BoundNext DEF Inv
<1>. QED  BY <1>1, <1>2, PTL DEF Spec

\* prepare_speculation prunes before it counts: whatever is consumed and expires, no
\* more graphs are kept than MaxActive, and the state has its type.
THEOREM GraphsAreBounded == Spec => []ActiveBounded
<1>1. Inv => ActiveBounded
  BY DEF Inv, BoundInv, Lives, ActiveBounded
<1>. QED  BY InvHolds, <1>1, PTL

\* execute_selected_speculative_branch consumes a graph before its branch is prepared
\* or dispatched: a graph continues at most once, by whichever of the two ways.
THEOREM GraphContinuesOnce == Spec => []ContinuesOnce
<1>1. Inv => ContinuesOnce
  BY DEF Inv, OnceInv, OnceOk, ContinuesOnce
<1>. QED  BY InvHolds, <1>1, PTL

\* select_speculative_branch, execute_selected_speculative_branch and commit_operation:
\* a branch runs on what its verified parent left, and under the same control; a change
\* of the page after the second selection is the only one it may be prepared with.
THEOREM BranchFollowsParent == Spec => ContinuesAfterParent
<1>. DEFINE Rightly(k) ==
         /\ Arbitrated => k \notin touched
         /\ IF prep[k].branch = None THEN AfterParent /\ spec[k].ctl = ctl /\ k \notin late
                                     ELSE prep[k].ctl = ctl
         /\ k \in late => ~FailOnMutation
<1>1. Inv /\ [Next]_vars => [\A k \in Token : ran'[k] > ran[k] => Rightly(k)]_vars
  <2>. SUFFICES ASSUME Inv, [Next]_vars, NEW k \in Token, ran'[k] > ran[k] PROVE Rightly(k)
    OBVIOUS
  <2>1. ran \in [Token -> Nat] /\ ran' # ran
    <3>1. ran \in [Token -> Nat]
      BY DEF Inv, TypeOK
    <3>2. ran[k] \in Nat
      BY <3>1
    <3>. QED  BY <3>1, <3>2
  <2>2. \E j \in Token : CommitBranch(j) \/ Proceeds(j)
    BY <2>1 DEF Next, Calls, PageChanges, HumanMutation, Handoff, ExecuteRefused, Execute, Expires,
       PrepareSpeculation, Select, ExecuteBranchRefused, SelectsAgain, history, vars
  <2>3. ASSUME NEW j \in Token, CommitBranch(j) PROVE Rightly(k)
    <3>1. ran' = [ran EXCEPT ![j] = @ + 1]
      BY <2>1, <2>3 DEF CommitBranch
    <3>2. j = k
      BY <2>1, <3>1
    <3>. QED  BY <2>1, <2>3, <3>2, CommitIsCurrent DEF Inv, GoingInv
  <2>4. ASSUME NEW j \in Token, Proceeds(j) PROVE Rightly(k)
    <3>1. ran' = [ran EXCEPT ![j] = @ + 1]
      BY <2>1, <2>4 DEF Proceeds, Executes, history
    <3>2. j = k
      BY <2>1, <3>1
    <3>3. GoingOk(k)
      BY <2>4, <3>2 DEF Inv, GoingInv, Proceeds
    <3>. QED  BY <3>3 DEF GoingOk
  <2>. QED  BY <2>2, <2>3, <2>4
<1>. QED  BY InvHolds, <1>1, PTL DEF Spec, ContinuesAfterParent
-----------------------------------------------------------------------------
(* The file queue.                                                          *)

\* What is known of a worker.
Workers == [pc : Q!Places, id : Id \cup {0}, msg : Msg \cup {None}, file : Msg \cup {None}, seen : Seq(Msg)]

\* The places where a worker has a command.
Having == {"run", "append", "appending", "result", "unlink"}
Busy(w) == wk[w].pc \in Having
InLog(m) == m \in Q!ToSet(log)

\* A command waits under its identifier, and has not been claimed, run or logged; one that was
\* never accepted is nowhere; none was run twice, and a line of the log is of a command that ran.
CommandOk(m) ==
    /\ m \notin sent \/ (\E i \in Id : pending[i] = m) => m \notin claimed /\ executed[m] = 0 /\ ~InLog(m)
    /\ executed[m] <= 1
    /\ InLog(m) => executed[m] = 1

\* What a worker has is claimed, and as far as the worker's place says.
HasOk(w) ==
    LET m == wk[w].msg IN
    /\ m \in claimed /\ wk[w].file = m
    /\ executed[m] = (IF wk[w].pc = "run" THEN 0 ELSE 1)
    /\ InLog(m) <=> wk[w].pc \in {"result", "unlink"}
    /\ wk[w].pc = "unlink" => m \in answered

\* What a worker under the claim lease has read is there; what one under the log lease has read is
\* the log.
ReadOk(w) ==
    /\ wk[w].pc = "read" => wk[w].id \in Id /\ wk[w].msg # None /\ pending[wk[w].id] = wk[w].msg
    /\ wk[w].pc = "appending" => wk[w].seen = log
    /\ Busy(w) => wk[w].id \in Id

\* A command that waits does so under its identifier.
WaitsOk == \A i \in Id : pending[i] # None => IdOf[pending[i]] = i /\ pending[i] \in sent

QueueInv ==
    /\ Q!TypeOK /\ Q!LogTellsAll /\ WaitsOk
    /\ claimed \subseteq sent
    /\ \A m \in Msg : CommandOk(m)
    /\ \A w \in Worker : ReadOk(w) /\ (Busy(w) => HasOk(w))
    /\ \A w, v \in Worker : Busy(w) /\ Busy(v) /\ w # v => wk[w].msg # wk[v].msg
    /\ \A m \in sent : pending[IdOf[m]] = m \/ m \in claimed \/ m \in answered

(* The operators.                                                           *)

\* Appending a line to the log adds that command to it, and a new one no second time.
LEMMA Logged ==
    ASSUME NEW s \in Seq(Msg), NEW m \in Msg
    PROVE  /\ Append(s, m) \in Seq(Msg)
           /\ Q!ToSet(Append(s, m)) = Q!ToSet(s) \cup {m}
           /\ Q!IsInjective(s) /\ m \notin Q!ToSet(s) => Q!IsInjective(Append(s, m))
<1>. DEFINE t == Append(s, m)
<1>1. t \in Seq(Msg) /\ DOMAIN s = 1..Len(s) /\ DOMAIN t = 1..(Len(s) + 1) /\ Len(s) \in Nat
  OBVIOUS
<1>2. \A i \in 1..Len(s) : t[i] = s[i]
  OBVIOUS
<1>3. t[Len(s) + 1] = m
  OBVIOUS
<1>. HIDE DEF t
<1>4. Q!ToSet(t) = Q!ToSet(s) \cup {m}
  <2>1. Q!ToSet(t) = {t[i] : i \in 1..(Len(s) + 1)} /\ Q!ToSet(s) = {s[i] : i \in 1..Len(s)}
    BY <1>1 DEF Q!ToSet
  <2>2. 1..(Len(s) + 1) = 1..Len(s) \cup {Len(s) + 1}
    BY <1>1
  <2>. QED  BY <2>1, <2>2, <1>2, <1>3
<1>5. ASSUME Q!IsInjective(s), m \notin Q!ToSet(s)
      PROVE  Q!IsInjective(t)
  BY <1>1, <1>2, <1>3, <1>5 DEF Q!ToSet, Q!IsInjective
<1>. QED  BY <1>1, <1>4, <1>5 DEF t

\* Identifiers have a first among any of them.
LEMMA Smallest ==
    ASSUME NEW S \in SUBSET Nat, S # {} PROVE \E k \in S : \A j \in S : k <= j
<1>1. PICK k \in S : \A j \in S : <<j, k>> \notin OpToRel(<, Nat)
  BY NatLessThanWellFounded, WFMin
<1>2. \A j \in S : ~(j < k)
  BY <1>1 DEF OpToRel
<1>. QED  BY <1>2

\* The first of several identifiers is one of them.
LEMMA FirstWaits ==
    ASSUME Q!Waiting # {} PROVE Q!FirstOf(Q!Waiting) \in Q!Waiting
<1>1. Q!Waiting \subseteq Nat
  BY QueueInstance DEF Q!QueueAssumption, Q!Waiting
<1>2. \E i \in Q!Waiting : \A j \in Q!Waiting : i <= j
  BY <1>1, Smallest
<1>. QED  BY <1>2 DEF Q!FirstOf

\* The queue begins empty, and every worker with nothing.
LEMMA QueueInit == Q!Init => QueueInv
<1>. SUFFICES ASSUME Q!Init PROVE QueueInv
  OBVIOUS
<1>. USE QueueInstance DEF Q!Init, Q!QueueAssumption
<1>1. Q!ToSet(log) = {} /\ Q!IsInjective(log)
  BY DEF Q!ToSet, Q!IsInjective
<1>2. \A w \in Worker : wk[w] = Q!Fresh
  OBVIOUS
<1>3. Q!TypeOK
  <2>1. <<>> \in Seq(Msg)
    OBVIOUS
  <2>. QED  BY <2>1 DEF Q!TypeOK, Q!Fresh, Q!Places, Q!At
<1>. QED
  BY <1>1, <1>2, <1>3
     DEF QueueInv, Q!LogTellsAll, WaitsOk, CommandOk, InLog, ReadOk, HasOk, Busy, Having, Q!Fresh

\* What the type invariant says of one worker and of the rest.
LEMMA QueueTyped ==
    ASSUME Q!TypeOK
    PROVE  /\ pending \in [Id -> Msg \cup {None}] /\ claimed \subseteq Msg
           /\ completed \in [Id -> Msg \cup {None}]
           /\ log \in Seq(Msg) /\ sent \subseteq Msg /\ executed \in [Msg -> Nat]
           /\ answered \subseteq Msg
           /\ \A w \in Worker : /\ wk[w].msg \in Msg \cup {None} /\ wk[w].seen \in Seq(Msg)
                                /\ wk[w].file \in Msg \cup {None}
BY DEF Q!TypeOK

\* A command is accepted under an identifier that is free.
LEMMA QueuePublish ==
    ASSUME QueueInv, NEW m \in Msg, Q!Publish(m) PROVE QueueInv'
<1>. USE QueueInstance DEF Q!Publish, Q!QueueAssumption, QueueInv
<1>1. IdOf[m] \in Id /\ None # m
  OBVIOUS
<1>2. /\ pending' = [pending EXCEPT ![IdOf[m]] = m] /\ pending[IdOf[m]] = None /\ sent' = sent \cup {m}
      /\ m \notin sent
      /\ UNCHANGED <<claimed, completed, log, claimLease, logLease, wk, executed, answered, deaths>>
  OBVIOUS
<1>3. Q!TypeOK'
  BY <1>1, <1>2 DEF Q!TypeOK, Q!At
<1>4. Q!LogTellsAll' /\ Q!ToSet(log') = Q!ToSet(log)
  BY <1>2 DEF Q!LogTellsAll, Q!IsInjective, Q!ToSet
<1>5. WaitsOk' /\ (claimed \subseteq sent)'
  BY <1>1, <1>2 DEF WaitsOk, Q!TypeOK
<1>6. \A n \in Msg : CommandOk(n)'
  BY <1>1, <1>2, <1>4 DEF CommandOk, InLog, Q!TypeOK
<1>7. \A w \in Worker : ReadOk(w)' /\ (Busy(w)' => HasOk(w)')
  BY <1>1, <1>2, <1>4 DEF ReadOk, HasOk, Busy, InLog, Q!TypeOK
<1>8. \A w, v \in Worker : Busy(w)' /\ Busy(v)' /\ w # v => wk'[w].msg # wk'[v].msg
  BY <1>2 DEF Busy
<1>9. \A n \in sent' : pending'[IdOf[n]] = n \/ n \in claimed' \/ n \in answered'
  BY <1>1, <1>2 DEF Q!TypeOK
<1>. QED  BY <1>3, <1>4, <1>5, <1>6, <1>7, <1>8, <1>9

\* A worker is a record of the places it may be in.
LEMMA WorkerTyped ==
    ASSUME Q!TypeOK, NEW w \in Worker
    PROVE  wk \in [Worker -> Workers] /\ wk[w] \in Workers /\ wk[w].pc \in Q!Places
BY DEF Q!TypeOK, Workers

\* A lease is held by the worker that is where it is needed.
LEMMA QueueLeases ==
    ASSUME Q!TypeOK
    PROVE  /\ \A v \in Worker : claimLease = v <=> wk[v].pc \in {"claiming", "read"}
           /\ \A v \in Worker : logLease = v <=> wk[v].pc = "appending"
BY DEF Q!TypeOK, Q!At

\* The empty log is one.
LEMMA NoneSeen == <<>> \in Seq(Msg)
OBVIOUS

\* The same of the log of the queue.
LEMMA LoggedHere ==
    ASSUME Q!TypeOK, NEW m \in Msg
    PROVE  /\ Append(log, m) \in Seq(Msg)
           /\ Q!ToSet(Append(log, m)) = Q!ToSet(log) \cup {m}
           /\ Q!IsInjective(log) /\ m \notin Q!ToSet(log) => Q!IsInjective(Append(log, m))
BY QueueTyped, Logged

\* A worker takes the claim lease (claim of runtime/file_queue.py).
LEMMA QueueClaimBegins ==
    ASSUME QueueInv, NEW w \in Worker, Q!ClaimBegins(w) PROVE QueueInv'
<1>. USE DEF QueueInv
<1>. DEFINE d == [wk[w] EXCEPT !.pc = "claiming"]
<1>1. /\ None \notin Worker /\ wk' \in [Worker -> Workers] /\ \A v \in Worker \ {w} : wk'[v] = wk[v]
      /\ wk'[w].pc = "claiming" /\ wk'[w].id = wk[w].id /\ wk'[w].msg = wk[w].msg
      /\ wk'[w].file = wk[w].file /\ wk'[w].seen = wk[w].seen
  <2>1. wk[w] \in Workers /\ None \notin Worker /\ wk' = [wk EXCEPT ![w] = d]
    BY QueueInstance, WorkerTyped DEF Q!QueueAssumption, Workers, Q!Fresh, Q!ClaimBegins, Q!At,
       Q!Goes, Q!files
  <2>2. /\ d \in Workers
        /\ d.pc = "claiming" /\ d.id = wk[w].id /\ d.msg = wk[w].msg /\ d.file = wk[w].file
        /\ d.seen = wk[w].seen
    BY <2>1, WorkerTyped DEF Workers, Q!Places, Q!Fresh
  <2>. HIDE DEF d
  <2>. QED  BY <2>1, <2>2, WorkerTyped
<1>2. /\ wk[w].pc = "idle" /\ claimLease = None /\ claimLease' = w
      /\ UNCHANGED <<pending, claimed, completed, log, logLease, sent, executed, answered, deaths>>
  BY WorkerTyped DEF Q!ClaimBegins, Q!At, Q!Goes, Q!files, Q!Obtainable, Q!Appendable, Q!DroppedBy,
     Q!ResultFirst
<1>3. Q!TypeOK'
  <2>1. /\ \A v \in Worker : claimLease' = v <=> wk'[v].pc \in {"claiming", "read"}
        /\ \A v \in Worker : logLease' = v <=> wk'[v].pc = "appending"
    BY <1>1, <1>2, QueueLeases
  <2>. QED  BY <1>1, <1>2, <2>1 DEF Q!TypeOK, Workers, Q!At
<1>4. Q!LogTellsAll'
  BY <1>1, <1>2 DEF Q!LogTellsAll, Q!IsInjective, Q!ToSet
<1>5. WaitsOk' /\ (claimed \subseteq sent)'
  BY <1>1, <1>2 DEF WaitsOk
<1>6. \A n \in Msg : CommandOk(n)'
  BY <1>1, <1>2 DEF CommandOk, InLog
<1>7. \A v \in Worker : ReadOk(v)' /\ (Busy(v)' => HasOk(v)')
  BY <1>1, <1>2 DEF ReadOk, HasOk, Busy, Having, InLog
<1>8. \A u, v \in Worker : Busy(u)' /\ Busy(v)' /\ u # v => wk'[u].msg # wk'[v].msg
  BY <1>1, <1>2 DEF Busy, Having
<1>9. \A n \in sent' : pending'[IdOf[n]] = n \/ n \in claimed' \/ n \in answered'
  BY <1>1, <1>2 DEF Q!TypeOK
<1>. QED  BY <1>3, <1>4, <1>5, <1>6, <1>7, <1>8, <1>9

\* Nothing waits: the lease is given back.
LEMMA QueueClaimFindsNone ==
    ASSUME QueueInv, NEW w \in Worker, Q!ClaimFindsNone(w) PROVE QueueInv'
<1>. USE DEF QueueInv
<1>. DEFINE d == [wk[w] EXCEPT !.pc = "idle"]
<1>1. /\ None \notin Worker /\ wk' \in [Worker -> Workers] /\ \A v \in Worker \ {w} : wk'[v] = wk[v]
      /\ wk'[w].pc = "idle" /\ wk'[w].id = wk[w].id /\ wk'[w].msg = wk[w].msg
      /\ wk'[w].file = wk[w].file /\ wk'[w].seen = wk[w].seen
  <2>1. wk[w] \in Workers /\ None \notin Worker /\ wk' = [wk EXCEPT ![w] = d]
    BY QueueInstance, WorkerTyped DEF Q!QueueAssumption, Workers, Q!Fresh, Q!ClaimFindsNone, Q!At,
       Q!Goes, Q!files
  <2>2. /\ d \in Workers
        /\ d.pc = "idle" /\ d.id = wk[w].id /\ d.msg = wk[w].msg /\ d.file = wk[w].file
        /\ d.seen = wk[w].seen
    BY <2>1, WorkerTyped DEF Workers, Q!Places, Q!Fresh
  <2>. HIDE DEF d
  <2>. QED  BY <2>1, <2>2, WorkerTyped
<1>2. /\ wk[w].pc = "claiming" /\ claimLease' = None
      /\ UNCHANGED <<pending, claimed, completed, log, logLease, sent, executed, answered, deaths>>
  BY WorkerTyped DEF Q!ClaimFindsNone, Q!At, Q!Goes, Q!files, Q!Obtainable, Q!Appendable,
     Q!DroppedBy, Q!ResultFirst
<1>3. Q!TypeOK'
  <2>1. /\ \A v \in Worker : claimLease' = v <=> wk'[v].pc \in {"claiming", "read"}
        /\ \A v \in Worker : logLease' = v <=> wk'[v].pc = "appending"
    BY <1>1, <1>2, QueueLeases
  <2>. QED  BY <1>1, <1>2, <2>1 DEF Q!TypeOK, Workers, Q!At
<1>4. Q!LogTellsAll'
  BY <1>1, <1>2 DEF Q!LogTellsAll, Q!IsInjective, Q!ToSet
<1>5. WaitsOk' /\ (claimed \subseteq sent)'
  BY <1>1, <1>2 DEF WaitsOk
<1>6. \A n \in Msg : CommandOk(n)'
  BY <1>1, <1>2 DEF CommandOk, InLog
<1>7. \A v \in Worker : ReadOk(v)' /\ (Busy(v)' => HasOk(v)')
  BY <1>1, <1>2 DEF ReadOk, HasOk, Busy, Having, InLog
<1>8. \A u, v \in Worker : Busy(u)' /\ Busy(v)' /\ u # v => wk'[u].msg # wk'[v].msg
  BY <1>1, <1>2 DEF Busy, Having
<1>9. \A n \in sent' : pending'[IdOf[n]] = n \/ n \in claimed' \/ n \in answered'
  BY <1>1, <1>2 DEF Q!TypeOK
<1>. QED  BY <1>3, <1>4, <1>5, <1>6, <1>7, <1>8, <1>9

\* The worker reads the command that waits under the first identifier.
LEMMA QueueClaimReads ==
    ASSUME QueueInv, NEW w \in Worker, Q!ClaimReads(w) PROVE QueueInv'
<1>. USE DEF QueueInv
<1>. DEFINE i == Q!FirstOf(Q!Waiting)
<1>0. i \in Id /\ pending[i] # None /\ pending[i] \in Msg
  BY FirstWaits DEF Q!ClaimReads, Q!At, Q!Goes, Q!files, Q!Waiting, Q!TypeOK
<1>. DEFINE d == [[[wk[w] EXCEPT !.pc = "read"] EXCEPT !.id = i] EXCEPT !.msg = pending[i]]
<1>1. /\ None \notin Worker /\ wk' \in [Worker -> Workers] /\ \A v \in Worker \ {w} : wk'[v] = wk[v]
      /\ wk'[w].pc = "read" /\ wk'[w].id = i /\ wk'[w].msg = pending[i]
      /\ wk'[w].file = wk[w].file /\ wk'[w].seen = wk[w].seen
  <2>1. wk[w] \in Workers /\ None \notin Worker /\ wk' = [wk EXCEPT ![w] = d]
    BY QueueInstance, WorkerTyped, <1>0 DEF Q!QueueAssumption, Workers, Q!Fresh, Q!ClaimReads,
       Q!At, Q!Goes, Q!files
  <2>2. /\ d \in Workers
        /\ d.pc = "read" /\ d.id = i /\ d.msg = pending[i] /\ d.file = wk[w].file /\ d.seen = wk[w].seen
    BY <2>1, WorkerTyped, <1>0 DEF Workers, Q!Places, Q!Fresh
  <2>3. wk \in [Worker -> Workers]
    BY WorkerTyped
  <2>. HIDE DEF d, i
  <2>. QED  BY <2>1, <2>2, <2>3
<1>2. /\ wk[w].pc = "claiming" /\ i \in Id /\ pending[i] # None
      /\ UNCHANGED <<pending, claimed, completed, log, claimLease, logLease, sent, executed, answered, deaths>>
  BY WorkerTyped, <1>0 DEF Q!ClaimReads, Q!At, Q!Goes, Q!files, Q!Obtainable, Q!Appendable,
     Q!DroppedBy, Q!ResultFirst
<1>. HIDE DEF i
<1>3. Q!TypeOK'
  <2>1. /\ \A v \in Worker : claimLease' = v <=> wk'[v].pc \in {"claiming", "read"}
        /\ \A v \in Worker : logLease' = v <=> wk'[v].pc = "appending"
    BY <1>0, <1>1, <1>2, QueueLeases
  <2>. QED  BY <1>0, <1>1, <1>2, <2>1 DEF Q!TypeOK, Workers, Q!At
<1>4. Q!LogTellsAll'
  BY <1>1, <1>2 DEF Q!LogTellsAll, Q!IsInjective, Q!ToSet
<1>5. WaitsOk' /\ (claimed \subseteq sent)'
  BY <1>1, <1>2 DEF WaitsOk
<1>6. \A n \in Msg : CommandOk(n)'
  BY <1>1, <1>2 DEF CommandOk, InLog
<1>7. \A v \in Worker : ReadOk(v)' /\ (Busy(v)' => HasOk(v)')
  BY <1>1, <1>2 DEF ReadOk, HasOk, Busy, Having, InLog
<1>8. \A u, v \in Worker : Busy(u)' /\ Busy(v)' /\ u # v => wk'[u].msg # wk'[v].msg
  BY <1>1, <1>2 DEF Busy, Having
<1>9. \A n \in sent' : pending'[IdOf[n]] = n \/ n \in claimed' \/ n \in answered'
  BY <1>1, <1>2 DEF Q!TypeOK
<1>. QED  BY <1>3, <1>4, <1>5, <1>6, <1>7, <1>8, <1>9

\* The command runs: it was claimed by this worker and by no other, so for the first time.
LEMMA QueueRun ==
    ASSUME QueueInv, NEW w \in Worker, Q!Run(w) PROVE QueueInv'
<1>. USE DEF QueueInv
<1>0. wk[w].msg \in Msg /\ HasOk(w) /\ executed[wk[w].msg] = 0 /\ wk[w].msg \in claimed
                        /\ ~InLog(wk[w].msg)
  BY QueueTyped DEF Q!Run, Q!At, Q!Goes, Q!files, HasOk, Busy, Having, InLog
<1>. DEFINE d == [wk[w] EXCEPT !.pc = (IF wk[w].msg \in Broken THEN "ended" ELSE "append")]
<1>1. /\ None \notin Worker /\ wk' \in [Worker -> Workers] /\ \A v \in Worker \ {w} : wk'[v] = wk[v]
      /\ wk'[w].pc = (IF wk[w].msg \in Broken THEN "ended" ELSE "append")
      /\ wk'[w].id = wk[w].id /\ wk'[w].msg = wk[w].msg /\ wk'[w].file = wk[w].file
      /\ wk'[w].seen = wk[w].seen
  <2>1. wk[w] \in Workers /\ None \notin Worker /\ wk' = [wk EXCEPT ![w] = d]
    BY QueueInstance, WorkerTyped, <1>0 DEF Q!QueueAssumption, Workers, Q!Fresh, Q!Run, Q!At,
       Q!Goes, Q!files
  <2>2. /\ d \in Workers
        /\ d.pc = (IF wk[w].msg \in Broken THEN "ended" ELSE "append") /\ d.id = wk[w].id
        /\ d.msg = wk[w].msg /\ d.file = wk[w].file /\ d.seen = wk[w].seen
    BY <2>1, WorkerTyped, <1>0 DEF Workers, Q!Places, Q!Fresh
  <2>. HIDE DEF d
  <2>. QED  BY <2>1, <2>2, WorkerTyped
<1>2. /\ wk[w].pc = "run" /\ wk[w].msg \in Msg /\ executed' = [executed EXCEPT ![wk[w].msg] = @ + 1]
      /\ UNCHANGED <<pending, claimed, completed, log, claimLease, logLease, sent, answered, deaths>>
  BY WorkerTyped, <1>0 DEF Q!Run, Q!At, Q!Goes, Q!files, Q!Obtainable, Q!Appendable, Q!DroppedBy,
     Q!ResultFirst
<1>3. Q!TypeOK'
  <2>1. /\ \A v \in Worker : claimLease' = v <=> wk'[v].pc \in {"claiming", "read"}
        /\ \A v \in Worker : logLease' = v <=> wk'[v].pc = "appending"
    BY <1>0, <1>1, <1>2, QueueLeases
  <2>. QED  BY <1>0, <1>1, <1>2, <2>1 DEF Q!TypeOK, Workers, Q!At
<1>4. Q!LogTellsAll'
  BY <1>0, <1>1, <1>2 DEF Q!LogTellsAll, Q!IsInjective, Q!ToSet
<1>5. WaitsOk' /\ (claimed \subseteq sent)'
  BY <1>0, <1>1, <1>2 DEF WaitsOk
<1>6. \A n \in Msg : CommandOk(n)'
  BY <1>0, <1>1, <1>2 DEF CommandOk, InLog
<1>7. \A v \in Worker : ReadOk(v)' /\ (Busy(v)' => HasOk(v)')
  <2>1. Busy(w) /\ HasOk(w)'
    BY <1>0, <1>1, <1>2, QueueTyped DEF HasOk, Busy, Having, InLog
  <2>2. \A v \in Worker \ {w} : Busy(v)' => HasOk(v)'
    <3>1. ASSUME NEW v \in Worker \ {w}, Busy(v) PROVE wk[v].msg \in Msg /\ wk[v].msg # wk[w].msg /\ HasOk(v)
      BY <2>1, <3>1, QueueTyped DEF HasOk
    <3>. QED  BY <3>1, <1>1, <1>2, QueueTyped DEF HasOk, Busy, InLog
  <2>. QED  BY <2>1, <2>2, <1>1, <1>2 DEF ReadOk, Busy, Having
<1>8. \A u, v \in Worker : Busy(u)' /\ Busy(v)' /\ u # v => wk'[u].msg # wk'[v].msg
  BY <1>0, <1>1, <1>2 DEF Busy, Having
<1>9. \A n \in sent' : pending'[IdOf[n]] = n \/ n \in claimed' \/ n \in answered'
  BY <1>0, <1>1, <1>2 DEF Q!TypeOK
<1>. QED  BY <1>3, <1>4, <1>5, <1>6, <1>7, <1>8, <1>9

\* The worker takes the lease of the log and reads the whole of it.
LEMMA QueueAppendBegins ==
    ASSUME QueueInv, NEW w \in Worker, Q!AppendBegins(w) PROVE QueueInv'
<1>. USE DEF QueueInv
<1>. DEFINE d == [[wk[w] EXCEPT !.pc = "appending"] EXCEPT !.seen = log]
<1>1. /\ None \notin Worker /\ wk' \in [Worker -> Workers] /\ \A v \in Worker \ {w} : wk'[v] = wk[v]
      /\ wk'[w].pc = "appending" /\ wk'[w].id = wk[w].id /\ wk'[w].msg = wk[w].msg
      /\ wk'[w].file = wk[w].file /\ wk'[w].seen = log
  <2>1. wk[w] \in Workers /\ None \notin Worker /\ wk' = [wk EXCEPT ![w] = d]
    BY QueueInstance, WorkerTyped DEF Q!QueueAssumption, Workers, Q!Fresh, Q!AppendBegins, Q!At,
       Q!Goes, Q!files
  <2>2. /\ d \in Workers
        /\ d.pc = "appending" /\ d.id = wk[w].id /\ d.msg = wk[w].msg /\ d.file = wk[w].file
        /\ d.seen = log
    BY <2>1, WorkerTyped, QueueTyped DEF Workers, Q!Places, Q!Fresh
  <2>. HIDE DEF d
  <2>. QED  BY <2>1, <2>2, WorkerTyped
<1>2. /\ wk[w].pc = "append" /\ logLease = None /\ logLease' = w
      /\ UNCHANGED <<pending, claimed, completed, log, claimLease, sent, executed, answered, deaths>>
  BY WorkerTyped DEF Q!AppendBegins, Q!At, Q!Goes, Q!files, Q!Obtainable, Q!Appendable,
     Q!DroppedBy, Q!ResultFirst
<1>3. Q!TypeOK'
  <2>1. /\ \A v \in Worker : claimLease' = v <=> wk'[v].pc \in {"claiming", "read"}
        /\ \A v \in Worker : logLease' = v <=> wk'[v].pc = "appending"
    BY <1>1, <1>2, QueueLeases
  <2>. QED  BY <1>1, <1>2, <2>1 DEF Q!TypeOK, Workers, Q!At
<1>4. Q!LogTellsAll'
  BY <1>1, <1>2 DEF Q!LogTellsAll, Q!IsInjective, Q!ToSet
<1>5. WaitsOk' /\ (claimed \subseteq sent)'
  BY <1>1, <1>2 DEF WaitsOk
<1>6. \A n \in Msg : CommandOk(n)'
  BY <1>1, <1>2 DEF CommandOk, InLog
<1>7. \A v \in Worker : ReadOk(v)' /\ (Busy(v)' => HasOk(v)')
  BY <1>1, <1>2 DEF ReadOk, HasOk, Busy, Having, InLog
<1>8. \A u, v \in Worker : Busy(u)' /\ Busy(v)' /\ u # v => wk'[u].msg # wk'[v].msg
  BY <1>1, <1>2 DEF Busy, Having
<1>9. \A n \in sent' : pending'[IdOf[n]] = n \/ n \in claimed' \/ n \in answered'
  BY <1>1, <1>2 DEF Q!TypeOK
<1>. QED  BY <1>3, <1>4, <1>5, <1>6, <1>7, <1>8, <1>9

\* It writes the log anew with its line: the lease kept what it had read current.
LEMMA QueueAppendEnds ==
    ASSUME QueueInv, NEW w \in Worker, Q!AppendEnds(w) PROVE QueueInv'
<1>. USE DEF QueueInv
<1>0. /\ wk[w].seen = log /\ wk[w].msg \in Msg /\ HasOk(w) /\ executed[wk[w].msg] = 1
      /\ wk[w].msg \notin Q!ToSet(log)
  BY QueueTyped DEF Q!AppendEnds, Q!At, Q!Goes, Q!files, HasOk, ReadOk, InLog, Busy, Having
<1>. DEFINE d == [[wk[w] EXCEPT !.pc = "result"] EXCEPT !.seen = <<>>]
<1>1. /\ None \notin Worker /\ wk' \in [Worker -> Workers] /\ \A v \in Worker \ {w} : wk'[v] = wk[v]
      /\ wk'[w].pc = "result" /\ wk'[w].id = wk[w].id /\ wk'[w].msg = wk[w].msg
      /\ wk'[w].file = wk[w].file /\ wk'[w].seen = <<>>
  <2>1. wk[w] \in Workers /\ None \notin Worker /\ wk' = [wk EXCEPT ![w] = d]
    BY QueueInstance, WorkerTyped, <1>0 DEF Q!QueueAssumption, Workers, Q!Fresh, Q!AppendEnds,
       Q!At, Q!Goes, Q!files
  <2>2. /\ d \in Workers
        /\ d.pc = "result" /\ d.id = wk[w].id /\ d.msg = wk[w].msg /\ d.file = wk[w].file
        /\ d.seen = <<>>
    BY <2>1, WorkerTyped, NoneSeen, <1>0 DEF Workers, Q!Places, Q!Fresh
  <2>. HIDE DEF d
  <2>. QED  BY <2>1, <2>2, WorkerTyped
<1>2. /\ wk[w].pc = "appending" /\ wk[w].seen = log /\ wk[w].msg \in Msg
      /\ log' = Append(log, wk[w].msg) /\ logLease' = None
      /\ UNCHANGED <<pending, claimed, completed, claimLease, sent, executed, answered, deaths>>
  BY WorkerTyped, <1>0 DEF Q!AppendEnds, Q!At, Q!Goes, Q!files, Q!Obtainable, Q!Appendable,
     Q!DroppedBy, Q!ResultFirst
<1>3. Q!TypeOK'
  <2>1. /\ \A v \in Worker : claimLease' = v <=> wk'[v].pc \in {"claiming", "read"}
        /\ \A v \in Worker : logLease' = v <=> wk'[v].pc = "appending"
    BY <1>0, <1>1, <1>2, LoggedHere, QueueLeases
  <2>. QED  BY <1>0, <1>1, <1>2, LoggedHere, <2>1 DEF Q!TypeOK, Workers, Q!At
<1>4. Q!LogTellsAll'
  BY <1>0, <1>1, <1>2, LoggedHere DEF Q!LogTellsAll
<1>5. WaitsOk' /\ (claimed \subseteq sent)'
  BY <1>0, <1>1, <1>2, LoggedHere DEF WaitsOk
<1>6. \A n \in Msg : CommandOk(n)'
  BY <1>0, <1>1, <1>2, LoggedHere DEF CommandOk, InLog
<1>7. \A v \in Worker : ReadOk(v)' /\ (Busy(v)' => HasOk(v)')
  <2>0. Q!ToSet(log') = Q!ToSet(log) \cup {wk[w].msg}
    BY <1>0, <1>2, LoggedHere
  <2>1. Busy(w) /\ HasOk(w)'
    BY <1>0, <1>1, <1>2, <2>0 DEF HasOk, Busy, Having, InLog
  <2>2. \A v \in Worker \ {w} : Busy(v)' => HasOk(v)'
    <3>1. ASSUME NEW v \in Worker \ {w}, Busy(v) PROVE wk[v].msg # wk[w].msg /\ HasOk(v)
      BY <2>1, <3>1
    <3>. QED  BY <3>1, <1>1, <1>2, <2>0 DEF HasOk, Busy, InLog
  <2>3. \A v \in Worker \ {w} : wk[v].pc # "appending"
    BY <1>1, <1>2 DEF Q!TypeOK, Q!At
  <2>. QED  BY <2>1, <2>2, <2>3, <1>1, <1>2 DEF ReadOk, Busy, Having
<1>8. \A u, v \in Worker : Busy(u)' /\ Busy(v)' /\ u # v => wk'[u].msg # wk'[v].msg
  BY <1>0, <1>1, <1>2 DEF Busy, Having
<1>9. \A n \in sent' : pending'[IdOf[n]] = n \/ n \in claimed' \/ n \in answered'
  BY <1>0, <1>1, <1>2, LoggedHere DEF Q!TypeOK
<1>. QED  BY <1>3, <1>4, <1>5, <1>6, <1>7, <1>8, <1>9

\* The result is published, which answers the command.
LEMMA QueueCompletePublishes ==
    ASSUME QueueInv, NEW w \in Worker, Q!CompletePublishes(w) PROVE QueueInv'
<1>. USE DEF QueueInv
<1>0. wk[w].pc = "result" /\ wk[w].id \in Id /\ wk[w].msg \in Msg /\ HasOk(w) /\ InLog(wk[w].msg)
  BY QueueTyped DEF Q!CompletePublishes, Q!At, Q!Goes, Q!files, HasOk, ReadOk, InLog, Busy, Having,
     Q!ResultFirst
<1>. DEFINE d == [wk[w] EXCEPT !.pc = "unlink"]
<1>1. /\ None \notin Worker /\ wk' \in [Worker -> Workers] /\ \A v \in Worker \ {w} : wk'[v] = wk[v]
      /\ wk'[w].pc = "unlink" /\ wk'[w].id = wk[w].id /\ wk'[w].msg = wk[w].msg
      /\ wk'[w].file = wk[w].file /\ wk'[w].seen = wk[w].seen
  <2>1. wk[w] \in Workers /\ None \notin Worker /\ wk' = [wk EXCEPT ![w] = d]
    BY QueueInstance, WorkerTyped, <1>0 DEF Q!QueueAssumption, Workers, Q!Fresh,
       Q!CompletePublishes, Q!At, Q!Goes, Q!files, Q!CompleteGoesOn
  <2>2. /\ d \in Workers
        /\ d.pc = "unlink" /\ d.id = wk[w].id /\ d.msg = wk[w].msg /\ d.file = wk[w].file
        /\ d.seen = wk[w].seen
    BY <2>1, WorkerTyped, <1>0 DEF Workers, Q!Places, Q!Fresh, Q!CompleteGoesOn
  <2>. HIDE DEF d
  <2>. QED  BY <2>1, <2>2, WorkerTyped
<1>2. /\ wk[w].pc = "result" /\ wk[w].id \in Id /\ wk[w].msg \in Msg
      /\ completed' = [completed EXCEPT ![wk[w].id] = wk[w].msg]
      /\ answered' = answered \cup {wk[w].msg}
      /\ UNCHANGED <<pending, claimed, log, claimLease, logLease, sent, executed, deaths>>
  BY WorkerTyped, <1>0 DEF Q!CompletePublishes, Q!At, Q!Goes, Q!files, Q!Obtainable, Q!Appendable,
     Q!DroppedBy, Q!ResultFirst, Q!CompleteGoesOn
<1>3. Q!TypeOK'
  <2>1. /\ \A v \in Worker : claimLease' = v <=> wk'[v].pc \in {"claiming", "read"}
        /\ \A v \in Worker : logLease' = v <=> wk'[v].pc = "appending"
    BY <1>1, <1>2, QueueLeases
  <2>. QED  BY <1>1, <1>2, <2>1 DEF Q!TypeOK, Workers, Q!At
<1>4. Q!LogTellsAll'
  BY <1>0, <1>1, <1>2 DEF Q!LogTellsAll, InLog
<1>5. WaitsOk' /\ (claimed \subseteq sent)'
  BY <1>1, <1>2 DEF WaitsOk
<1>6. \A n \in Msg : CommandOk(n)'
  BY <1>1, <1>2 DEF CommandOk, InLog
<1>7. \A v \in Worker : ReadOk(v)' /\ (Busy(v)' => HasOk(v)')
  BY <1>1, <1>2 DEF ReadOk, HasOk, Busy, Having, InLog
<1>8. \A u, v \in Worker : Busy(u)' /\ Busy(v)' /\ u # v => wk'[u].msg # wk'[v].msg
  BY <1>1, <1>2 DEF Busy, Having
<1>9. \A n \in sent' : pending'[IdOf[n]] = n \/ n \in claimed' \/ n \in answered'
  BY <1>1, <1>2 DEF Q!TypeOK
<1>. QED  BY <1>3, <1>4, <1>5, <1>6, <1>7, <1>8, <1>9

\* The claimed file goes only after the answer is there.
LEMMA QueueCompleteUnlinks ==
    ASSUME QueueInv, NEW w \in Worker, Q!CompleteUnlinks(w) PROVE QueueInv'
<1>. USE DEF QueueInv
<1>0. wk[w].pc = "unlink" /\ wk[w].msg \in Msg /\ wk[w].file = wk[w].msg /\ wk[w].msg \in answered
  BY QueueTyped DEF Q!CompleteUnlinks, Q!At, Q!Goes, Q!files, HasOk, Busy, Having, Q!ResultFirst
<1>. DEFINE d == [Q!Fresh EXCEPT !.pc = (IF wk[w].msg \in Stop THEN "ended" ELSE "idle")]
<1>1. /\ None \notin Worker /\ wk' \in [Worker -> Workers] /\ \A v \in Worker \ {w} : wk'[v] = wk[v]
      /\ wk'[w].pc = (IF wk[w].msg \in Stop THEN "ended" ELSE "idle") /\ wk'[w].id = 0
      /\ wk'[w].msg = None /\ wk'[w].file = None /\ wk'[w].seen = <<>>
  <2>1. wk[w] \in Workers /\ None \notin Worker /\ wk' = [wk EXCEPT ![w] = d]
    BY QueueInstance, WorkerTyped, <1>0 DEF Q!QueueAssumption, Workers, Q!Fresh, Q!CompleteUnlinks,
       Q!At, Q!Goes, Q!files, Q!CompleteGoesOn
  <2>2. /\ d \in Workers
        /\ d.pc = (IF wk[w].msg \in Stop THEN "ended" ELSE "idle") /\ d.id = 0 /\ d.msg = None
        /\ d.file = None /\ d.seen = <<>>
    BY <2>1, WorkerTyped, NoneSeen, <1>0 DEF Workers, Q!Places, Q!Fresh, Q!CompleteGoesOn
  <2>. HIDE DEF d
  <2>. QED  BY <2>1, <2>2, WorkerTyped
<1>2. /\ wk[w].pc = "unlink" /\ wk[w].msg \in Msg /\ wk[w].msg \in answered
      /\ claimed' = claimed \ {wk[w].msg}
      /\ UNCHANGED <<pending, completed, log, claimLease, logLease, sent, executed, answered, deaths>>
  BY WorkerTyped, <1>0 DEF Q!CompleteUnlinks, Q!At, Q!Goes, Q!files, Q!Obtainable, Q!Appendable,
     Q!DroppedBy, Q!ResultFirst, Q!CompleteGoesOn
<1>3. Q!TypeOK'
  <2>1. /\ \A v \in Worker : claimLease' = v <=> wk'[v].pc \in {"claiming", "read"}
        /\ \A v \in Worker : logLease' = v <=> wk'[v].pc = "appending"
    BY <1>1, <1>2, QueueLeases
  <2>. QED  BY <1>1, <1>2, <2>1 DEF Q!TypeOK, Workers, Q!At
<1>4. Q!LogTellsAll'
  BY <1>1, <1>2 DEF Q!LogTellsAll, Q!IsInjective, Q!ToSet
<1>5. WaitsOk' /\ (claimed \subseteq sent)'
  BY <1>1, <1>2 DEF WaitsOk
<1>6. \A n \in Msg : CommandOk(n)'
  BY <1>1, <1>2 DEF CommandOk, InLog
<1>7. \A v \in Worker : ReadOk(v)' /\ (Busy(v)' => HasOk(v)')
  BY <1>1, <1>2 DEF ReadOk, HasOk, Busy, Having, InLog
<1>8. \A u, v \in Worker : Busy(u)' /\ Busy(v)' /\ u # v => wk'[u].msg # wk'[v].msg
  BY <1>1, <1>2 DEF Busy, Having
<1>9. \A n \in sent' : pending'[IdOf[n]] = n \/ n \in claimed' \/ n \in answered'
  BY <1>1, <1>2 DEF Q!TypeOK
<1>. QED  BY <1>3, <1>4, <1>5, <1>6, <1>7, <1>8, <1>9

\* A worker dies, and its leases are free: what it had claimed stays in claimed.
LEMMA QueueDies ==
    ASSUME QueueInv, NEW w \in Worker, Q!Dies(w) PROVE QueueInv'
<1>. USE DEF QueueInv
<1>. DEFINE d == [Q!Fresh EXCEPT !.pc = "dead"]
<1>1. /\ None \notin Worker /\ wk' \in [Worker -> Workers] /\ \A v \in Worker \ {w} : wk'[v] = wk[v]
      /\ wk'[w].pc = "dead" /\ wk'[w].id = 0 /\ wk'[w].msg = None /\ wk'[w].file = None
      /\ wk'[w].seen = <<>>
  <2>1. wk[w] \in Workers /\ None \notin Worker /\ wk' = [wk EXCEPT ![w] = d]
    BY QueueInstance, WorkerTyped DEF Q!QueueAssumption, Workers, Q!Fresh, Q!Dies, Q!At, Q!Goes,
       Q!files
  <2>2. /\ d \in Workers
        /\ d.pc = "dead" /\ d.id = 0 /\ d.msg = None /\ d.file = None /\ d.seen = <<>>
    BY <2>1, WorkerTyped, NoneSeen DEF Workers, Q!Places, Q!Fresh
  <2>. HIDE DEF d
  <2>. QED  BY <2>1, <2>2, WorkerTyped
<1>2. /\ wk[w].pc \notin {"ended", "dead"} /\ deaths < MaxDeaths /\ deaths' = deaths + 1
      /\ claimLease' = (IF claimLease = w THEN None ELSE claimLease)
      /\ logLease' = (IF logLease = w THEN None ELSE logLease)
      /\ UNCHANGED <<pending, claimed, completed, log, sent, executed, answered>>
  BY WorkerTyped DEF Q!Dies, Q!At, Q!Goes, Q!files, Q!Obtainable, Q!Appendable, Q!DroppedBy,
     Q!ResultFirst
<1>3. Q!TypeOK'
  <2>1. /\ \A v \in Worker : claimLease' = v <=> wk'[v].pc \in {"claiming", "read"}
        /\ \A v \in Worker : logLease' = v <=> wk'[v].pc = "appending"
    BY <1>1, <1>2, QueueLeases
  <2>2. deaths' \in 0..MaxDeaths
    BY <1>2, QueueInstance DEF Q!TypeOK, Q!QueueAssumption
  <2>. QED  BY <1>1, <1>2, <2>1, <2>2 DEF Q!TypeOK, Workers, Q!At
<1>4. Q!LogTellsAll'
  BY <1>1, <1>2 DEF Q!LogTellsAll, Q!IsInjective, Q!ToSet
<1>5. WaitsOk' /\ (claimed \subseteq sent)'
  BY <1>1, <1>2 DEF WaitsOk
<1>6. \A n \in Msg : CommandOk(n)'
  BY <1>1, <1>2 DEF CommandOk, InLog
<1>7. \A v \in Worker : ReadOk(v)' /\ (Busy(v)' => HasOk(v)')
  BY <1>1, <1>2 DEF ReadOk, HasOk, Busy, Having, InLog
<1>8. \A u, v \in Worker : Busy(u)' /\ Busy(v)' /\ u # v => wk'[u].msg # wk'[v].msg
  BY <1>1, <1>2 DEF Busy, Having
<1>9. \A n \in sent' : pending'[IdOf[n]] = n \/ n \in claimed' \/ n \in answered'
  BY <1>1, <1>2 DEF Q!TypeOK
<1>. QED  BY <1>3, <1>4, <1>5, <1>6, <1>7, <1>8, <1>9

\* Another process opens the queue, with nothing in hand.
LEMMA QueueReopens ==
    ASSUME QueueInv, NEW w \in Worker, Q!Reopens(w) PROVE QueueInv'
<1>. USE DEF QueueInv
<1>. DEFINE d == Q!Fresh
<1>1. /\ None \notin Worker /\ wk' \in [Worker -> Workers] /\ \A v \in Worker \ {w} : wk'[v] = wk[v]
      /\ wk'[w].pc = "idle" /\ wk'[w].id = 0 /\ wk'[w].msg = None /\ wk'[w].file = None
      /\ wk'[w].seen = <<>>
  <2>1. wk[w] \in Workers /\ None \notin Worker /\ wk' = [wk EXCEPT ![w] = d]
    BY QueueInstance, WorkerTyped DEF Q!QueueAssumption, Workers, Q!Fresh, Q!Reopens, Q!At, Q!Goes,
       Q!files
  <2>2. /\ d \in Workers
        /\ d.pc = "idle" /\ d.id = 0 /\ d.msg = None /\ d.file = None /\ d.seen = <<>>
    BY <2>1, WorkerTyped, NoneSeen DEF Workers, Q!Places, Q!Fresh
  <2>. HIDE DEF d
  <2>. QED  BY <2>1, <2>2, WorkerTyped
<1>2. /\ wk[w].pc = "dead"
      /\ UNCHANGED <<pending, claimed, completed, log, claimLease, logLease, sent, executed, answered, deaths>>
  BY WorkerTyped DEF Q!Reopens, Q!At, Q!Goes, Q!files, Q!Obtainable, Q!Appendable, Q!DroppedBy,
     Q!ResultFirst
<1>3. Q!TypeOK'
  <2>1. /\ \A v \in Worker : claimLease' = v <=> wk'[v].pc \in {"claiming", "read"}
        /\ \A v \in Worker : logLease' = v <=> wk'[v].pc = "appending"
    BY <1>1, <1>2, QueueLeases
  <2>. QED  BY <1>1, <1>2, <2>1 DEF Q!TypeOK, Workers, Q!At
<1>4. Q!LogTellsAll'
  BY <1>1, <1>2 DEF Q!LogTellsAll, Q!IsInjective, Q!ToSet
<1>5. WaitsOk' /\ (claimed \subseteq sent)'
  BY <1>1, <1>2 DEF WaitsOk
<1>6. \A n \in Msg : CommandOk(n)'
  BY <1>1, <1>2 DEF CommandOk, InLog
<1>7. \A v \in Worker : ReadOk(v)' /\ (Busy(v)' => HasOk(v)')
  BY <1>1, <1>2 DEF ReadOk, HasOk, Busy, Having, InLog
<1>8. \A u, v \in Worker : Busy(u)' /\ Busy(v)' /\ u # v => wk'[u].msg # wk'[v].msg
  BY <1>1, <1>2 DEF Busy, Having
<1>9. \A n \in sent' : pending'[IdOf[n]] = n \/ n \in claimed' \/ n \in answered'
  BY <1>1, <1>2 DEF Q!TypeOK
<1>. QED  BY <1>3, <1>4, <1>5, <1>6, <1>7, <1>8, <1>9

\* The file moves to claimed: the command leaves pending for the worker in one step.
LEMMA QueueClaimMoves ==
    ASSUME QueueInv, NEW w \in Worker, Q!ClaimMoves(w) PROVE QueueInv'
<1>. USE DEF QueueInv
<1>. DEFINE i == wk[w].id
            m == wk[w].msg
<1>0. /\ wk[w].pc = "read" /\ i \in Id /\ m # None /\ m \in Msg /\ pending[i] = m /\ IdOf[m] = i
      /\ m \in sent
      /\ m \notin claimed /\ executed[m] = 0 /\ ~InLog(m)
      /\ \A v \in Worker : Busy(v) => wk[v].msg # m
  <2>1. /\ wk[w].pc = "read" /\ i \in Id /\ m # None /\ m \in Msg
        /\ pending[i] = m /\ IdOf[m] = i /\ m \in sent
    BY QueueTyped DEF Q!ClaimMoves, Q!At, ReadOk, WaitsOk
  <2>2. CommandOk(m)
    BY <2>1
  <2>3. m \notin claimed /\ executed[m] = 0 /\ ~InLog(m)
    BY <2>1, <2>2 DEF CommandOk
  <2>4. ASSUME NEW v \in Worker, Busy(v) PROVE wk[v].msg # m
    BY <2>3, <2>4 DEF HasOk
  <2>. QED  BY <2>1, <2>3, <2>4
<1>. DEFINE d == [[wk[w] EXCEPT !.pc = "run"] EXCEPT !.file = m]
<1>1. /\ None \notin Worker /\ wk' \in [Worker -> Workers] /\ \A v \in Worker \ {w} : wk'[v] = wk[v]
      /\ wk'[w].pc = "run" /\ wk'[w].id = i /\ wk'[w].msg = m /\ wk'[w].file = m
      /\ wk'[w].seen = wk[w].seen
  <2>1. wk[w] \in Workers /\ None \notin Worker /\ wk' = [wk EXCEPT ![w] = d]
    BY QueueInstance, WorkerTyped, <1>0 DEF Q!QueueAssumption, Workers, Q!ClaimMoves
  <2>2. /\ d \in Workers
        /\ d.pc = "run" /\ d.id = i /\ d.msg = m /\ d.file = m /\ d.seen = wk[w].seen
    BY <2>1, WorkerTyped, <1>0 DEF Workers, Q!Places
  <2>3. wk \in [Worker -> Workers]
    BY WorkerTyped
  <2>. HIDE DEF d, m, i
  <2>. QED  BY <2>1, <2>2, <2>3
<1>2. /\ pending' = [pending EXCEPT ![i] = None] /\ claimed' = claimed \cup {m} /\ claimLease' = None
      /\ UNCHANGED <<completed, log, logLease, sent, executed, answered, deaths>>
  BY <1>0 DEF Q!ClaimMoves
<1>. HIDE DEF m, i
<1>3. Q!TypeOK'
  <2>1. /\ \A v \in Worker : claimLease' = v <=> wk'[v].pc \in {"claiming", "read"}
        /\ \A v \in Worker : logLease' = v <=> wk'[v].pc = "appending"
    BY <1>0, <1>1, <1>2, QueueLeases DEF m, i
  <2>. QED  BY <1>0, <1>1, <1>2, <2>1 DEF Q!TypeOK, Workers, Q!At
<1>4. Q!LogTellsAll'
  BY <1>2 DEF Q!LogTellsAll, Q!IsInjective, Q!ToSet
<1>5. WaitsOk' /\ (claimed \subseteq sent)'
  BY <1>0, <1>2, QueueTyped DEF WaitsOk
<1>6. \A n \in Msg : CommandOk(n)'
  <2>0. PICK c \in Msg : c = m
    BY <1>0
  <2>1. ASSUME NEW n \in Msg, n # c PROVE CommandOk(n)'
    <3>1. None # n
      BY QueueInstance DEF Q!QueueAssumption
    <3>2. (\E j \in Id : pending'[j] = n) => \E j \in Id : pending[j] = n
      BY <3>1, <1>0, <1>2, QueueTyped
    <3>. QED  BY <2>0, <2>1, <3>2, <1>2 DEF CommandOk, InLog
  <2>2. \A j \in Id : pending'[j] # c
    BY <2>0, <1>0, <1>2, QueueTyped DEF WaitsOk
  <2>3. CommandOk(c)'
    BY <2>0, <2>2, <1>0, <1>2 DEF CommandOk, InLog
  <2>. QED  BY <2>1, <2>3
<1>7. \A v \in Worker : ReadOk(v)' /\ (Busy(v)' => HasOk(v)')
  <2>1. \A v \in Worker \ {w} : wk[v].pc # "read"
    BY <1>0, <1>1 DEF Q!TypeOK, Q!At
  <2>2. ReadOk(w)' /\ HasOk(w)'
    BY <1>0, <1>1, <1>2 DEF ReadOk, HasOk, Busy, Having, InLog
  <2>3. \A v \in Worker \ {w} : ReadOk(v)' /\ (Busy(v)' => HasOk(v)')
    BY <2>1, <1>0, <1>1, <1>2 DEF ReadOk, HasOk, Busy, Having, InLog
  <2>. QED  BY <2>2, <2>3
<1>8. \A u, v \in Worker : Busy(u)' /\ Busy(v)' /\ u # v => wk'[u].msg # wk'[v].msg
  <2>1. \A v \in Worker \ {w} : Busy(v)' => Busy(v) /\ wk'[v].msg # m
    BY <1>0, <1>1 DEF Busy
  <2>. QED  BY <2>1, <1>1
<1>9. \A n \in sent' : pending'[IdOf[n]] = n \/ n \in claimed' \/ n \in answered'
  BY <1>0, <1>2, QueueTyped DEF m, i
<1>. QED  BY <1>3, <1>4, <1>5, <1>6, <1>7, <1>8, <1>9

\* The other parts leave the queue as it is.
LEMMA QueueStutters ==
    ASSUME QueueInv, UNCHANGED queueVars PROVE QueueInv'
<1>. USE DEF QueueInv, queueVars
<1>1. Q!TypeOK' /\ Q!LogTellsAll'
  BY DEF Q!TypeOK, Q!LogTellsAll, Q!IsInjective, Q!ToSet, Q!At
<1>2. WaitsOk' /\ \A m \in Msg : CommandOk(m)'
  BY DEF WaitsOk, CommandOk, InLog
<1>3. \A w \in Worker : ReadOk(w)' /\ (Busy(w)' => HasOk(w)')
  BY DEF ReadOk, HasOk, Busy, InLog
<1>4. \A w, v \in Worker : Busy(w)' /\ Busy(v)' /\ w # v => wk'[w].msg # wk'[v].msg
  BY DEF Busy
<1>. QED  BY <1>1, <1>2, <1>3, <1>4

\* What is published to the queue of runtime/file_queue.py is waiting, claimed or answered, runs
\* at most once, and has one line in the log of runtime/publication.py once it is answered,
\* although workers die between any two steps and rewrite the whole log for every line.
THEOREM QueueIsKept == DeferredSpec => []QueueKeeps
<1>1. DeferredInit => QueueInv
  BY QueueInit DEF DeferredInit
<1>2. QueueInv /\ [DeferredNext]_<<vars, queueVars, secretVars, part>> => QueueInv'
  <2>. SUFFICES ASSUME QueueInv, [DeferredNext]_<<vars, queueVars, secretVars, part>> PROVE QueueInv'
    OBVIOUS
  <2>1. CASE Q!Next
    <3>1. CASE \E m \in Msg : Q!Publish(m)
      BY <3>1, QueuePublish
    <3>2. ASSUME NEW w \in Worker, Q!Works(w) \/ Q!Dies(w) \/ Q!Reopens(w) PROVE QueueInv'
      <4>1. CASE Q!Claims(w)
        BY <4>1, QueueClaimBegins, QueueClaimFindsNone, QueueClaimReads, QueueClaimMoves
           DEF Q!Claims
      <4>2. CASE Q!Answers(w)
        BY <4>2, QueueAppendBegins, QueueAppendEnds, QueueCompletePublishes, QueueCompleteUnlinks
           DEF Q!Answers
      <4>. QED  BY <3>2, <4>1, <4>2, QueueRun, QueueDies, QueueReopens DEF Q!Works
    <3>. QED  BY <2>1, <3>1, <3>2 DEF Q!Next
  <2>2. CASE UNCHANGED queueVars
    BY <2>2, QueueStutters
  <2>. QED  BY <2>1, <2>2 DEF DeferredNext
<1>3. QueueInv => QueueKeeps
  BY DEF QueueInv, QueueKeeps, Q!RunsOnce, Q!NothingLost, CommandOk
<1>. QED  BY <1>1, <1>2, <1>3, PTL DEF DeferredSpec-----------------------------------------------------------------------------
(* Secrets.                                                                 *)

\* What a call and its thread hold.
ThreadPlaces == {"secret_binding_changed", "secret_not_found", "secret_provider_failed", "completed",
         "rejected", "indeterminate", "cancelled", "value", "none", "begun", "checked"}
Told == ThreadPlaces \cup {"", "secret_binding_unavailable", "unsupported", "timed_out", "resolved",
                          "session_io_error"}
AskCalls   == [at : {"idle", "prepared", "committed", "waiting", "filling", "over"}, told : Told,
               bound : Nat, filled : Nat]
AskThreads == [at : ThreadPlaces, buffer : Nat]

\* Where a call is says what its thread may have, and nothing is filled before the call is over.
AskOk(a, t) ==
    /\ a.at \in {"idle", "prepared", "committed"} => t.at = "none"
    /\ a.at # "over" => a.filled = 0
    /\ a.at = "filling" => t.at = "value"
    /\ t.buffer # 0 => t.at = "value"
    /\ a.at = "over" /\ a.told # "timed_out" => t.buffer = 0 /\ t.at \notin X!Working
    /\ a.at = "over" /\ a.told = "timed_out" => a.filled = 0

\* What the thread of a prepared fill has checked is the generation that was bound, and it stays so
\* until it is read.
BoundOk(a, t) ==
    /\ t.at = "checked" => provider.generation = a.bound
    /\ t.buffer \in {0, a.bound} /\ a.filled \in {0, a.bound}

SecretsInv ==
    /\ provider \in [generation : Nat, present : BOOLEAN]
    /\ calls \in [X!Call -> AskCalls] /\ worker \in [X!Call -> AskThreads]
    /\ \A k \in X!Call : AskOk(calls[k], worker[k])
    /\ \A k \in Prepared \ raced : BoundOk(calls[k], worker[k])

\* A step of one call and its thread.
LEMMA AskChanges ==
    ASSUME SecretsInv, NEW k \in X!Call, NEW a \in AskCalls, NEW t \in AskThreads,
           calls' = [calls EXCEPT ![k] = a], worker' = [worker EXCEPT ![k] = t],
           UNCHANGED <<provider, raced>>,
           AskOk(a, t), k \in Prepared \ raced => BoundOk(a, t)
    PROVE  SecretsInv'
<1>1. calls' \in [X!Call -> AskCalls] /\ worker' \in [X!Call -> AskThreads]
  BY DEF SecretsInv
<1>2. /\ \A j \in X!Call \ {k} : calls'[j] = calls[j] /\ worker'[j] = worker[j]
      /\ calls'[k] = a /\ worker'[k] = t
  BY DEF SecretsInv
<1>3. \A j \in X!Call : AskOk(calls'[j], worker'[j])
  BY <1>2 DEF SecretsInv
<1>4. \A j \in Prepared \ raced : BoundOk(calls'[j], worker'[j])
  BY <1>2 DEF SecretsInv, X!Call
<1>. QED  BY <1>1, <1>3, <1>4 DEF SecretsInv, AskOk, BoundOk

\* No call has begun.
LEMMA SecretsInit == X!Init => SecretsInv
<1>. SUFFICES ASSUME X!Init PROVE SecretsInv
  OBVIOUS
<1>1. \A k \in X!Call : /\ calls[k] = [at |-> "idle", told |-> "", bound |-> 0, filled |-> 0]
                        /\ worker[k] = [at |-> "none", buffer |-> 0]
  BY DEF X!Init
<1>2. calls \in [X!Call -> AskCalls] /\ worker \in [X!Call -> AskThreads]
  <2>1. "" \in Told /\ "none" \in ThreadPlaces
    BY DEF Told, ThreadPlaces
  <2>2. [at |-> "idle", told |-> "", bound |-> 0, filled |-> 0] \in AskCalls
    BY <2>1 DEF AskCalls
  <2>3. [at |-> "none", buffer |-> 0] \in AskThreads
    BY <2>1 DEF AskThreads
  <2>. QED  BY <2>2, <2>3 DEF X!Init
<1>3. \A k \in X!Call : /\ calls[k].at = "idle" /\ calls[k].filled = 0 /\ calls[k].bound = 0
                        /\ worker[k].at = "none" /\ worker[k].buffer = 0
  <2>. TAKE k \in X!Call
  <2>1. calls[k] = [at |-> "idle", told |-> "", bound |-> 0, filled |-> 0]
    BY <1>1
  <2>2. worker[k] = [at |-> "none", buffer |-> 0]
    BY <1>1
  <2>. DEFINE e == [at |-> "idle", told |-> "", bound |-> 0, filled |-> 0]
  <2>5. e.at = "idle" /\ e.filled = 0 /\ e.bound = 0
    OBVIOUS
  <2>. HIDE DEF e
  <2>6. calls[k] = e
    BY <2>1 DEF e
  <2>3. calls[k].at = "idle" /\ calls[k].filled = 0 /\ calls[k].bound = 0
    BY <2>5, <2>6
  <2>4. worker[k].at = "none" /\ worker[k].buffer = 0
    BY <2>2
  <2>. QED  BY <2>3, <2>4
<1>4. \A k \in X!Call : AskOk(calls[k], worker[k]) /\ BoundOk(calls[k], worker[k])
  BY <1>3 DEF AskOk, BoundOk
<1>. QED  BY <1>2, <1>4 DEF SecretsInv, X!Init, X!Call

\* The host replaces or clears the secret.
LEMMA ProviderKeeps == SecretsInv /\ (X!Replace \/ X!Clear) => SecretsInv'
<1>. SUFFICES ASSUME SecretsInv, X!Replace \/ X!Clear PROVE SecretsInv'
  OBVIOUS
<1>1. UNCHANGED <<calls, worker>> /\ provider' \in [generation : Nat, present : BOOLEAN]
  <2>1. CASE X!Replace
    BY <2>1 DEF SecretsInv, X!Replace
  <2>2. CASE X!Clear
    BY <2>2 DEF SecretsInv, X!Clear
  <2>. QED  BY <2>1, <2>2
<1>2. \A k \in X!Call : AskOk(calls[k], worker[k])'
  BY <1>1 DEF SecretsInv, AskOk
<1>3. ASSUME NEW k \in Prepared \ raced' PROVE BoundOk(calls[k], worker[k])'
  <2>1. CASE X!Replace
    BY <1>1, <1>3, <2>1 DEF SecretsInv, BoundOk, X!Replace
  <2>2. CASE X!Clear
    BY <1>1, <1>3, <2>2 DEF SecretsInv, BoundOk, X!Clear
  <2>. QED  BY <2>1, <2>2
<1>. QED  BY <1>1, <1>2, <1>3 DEF SecretsInv

\* A call goes on before its thread begins, ends with an error there, or hands over.
LEMMA AskGoesOn ==
    ASSUME SecretsInv, NEW k \in X!Call, X!Prepare(k) \/ X!Commit(k) \/ X!Ask(k) \/ X!Unsupported(k)
    PROVE  SecretsInv'
<1>. DEFINE a == calls[k]
            t == worker[k]
<1>1. /\ a \in AskCalls /\ t \in AskThreads /\ AskOk(a, t) /\ (k \in Prepared \ raced => BoundOk(a, t))
      /\ worker = [worker EXCEPT ![k] = t] /\ provider.generation \in Nat
  BY DEF SecretsInv
<1>2. t.at = "none" /\ a.at \in {"idle", "prepared", "committed"} /\ a.filled = 0 /\ t.buffer = 0
  BY <1>1 DEF X!Prepare, X!Commit, X!Ask, X!Unsupported, AskOk, AskCalls, AskThreads
<1>3. ASSUME NEW e \in AskCalls, calls' = [calls EXCEPT ![k] = e], UNCHANGED <<worker, provider, raced>>,
             e.filled = 0, e.at \in {"prepared", "committed"} \/ (e.at = "over" /\ e.told # "timed_out")
      PROVE  SecretsInv'
  <2>1. AskOk(e, t) /\ BoundOk(e, t)
    BY <1>2, <1>3 DEF AskOk, BoundOk, X!Working
  <2>. QED  BY <1>1, <1>3, <2>1, AskChanges
<1>4. ASSUME NEW told \in Told, X!Ends(k, told), told # "timed_out", UNCHANGED <<worker, provider, raced>>
      PROVE  SecretsInv'
  <2>. DEFINE e == [[a EXCEPT !.at = "over"] EXCEPT !.told = told]
  <2>1. e \in AskCalls /\ e.at = "over" /\ e.told = told /\ e.filled = 0
    BY <1>1, <1>2 DEF AskCalls, Told
  <2>2. calls' = [calls EXCEPT ![k] = e]
    BY <1>4 DEF X!Ends
  <2>. HIDE DEF e
  <2>. QED  BY <1>3, <1>4, <2>1, <2>2
<1>5. CASE X!Prepare(k)
  <2>. DEFINE e == [[a EXCEPT !.at = "prepared"] EXCEPT !.bound = provider.generation]
  <2>1. e \in AskCalls /\ e.at = "prepared" /\ e.filled = 0
    BY <1>1, <1>2 DEF AskCalls, Told
  <2>2. CASE calls' = [calls EXCEPT ![k].at = "prepared", ![k].bound = provider.generation]
    <3>1. calls' = [calls EXCEPT ![k] = e] /\ UNCHANGED <<worker, provider, raced>>
      BY <1>5, <2>2 DEF X!Prepare
    <3>. HIDE DEF e
    <3>. QED  BY <3>1, <2>1, <1>3
  <2>3. CASE X!Ends(k, "secret_binding_unavailable")
    BY <1>4, <1>5, <2>3 DEF X!Prepare, Told
  <2>. QED  BY <1>5, <2>2, <2>3 DEF X!Prepare
<1>6. CASE X!Commit(k)
  <2>. DEFINE e == [a EXCEPT !.at = "committed"]
  <2>1. e \in AskCalls /\ e.at = "committed" /\ e.filled = 0
    BY <1>1, <1>2 DEF AskCalls, Told
  <2>2. CASE calls' = [calls EXCEPT ![k].at = "committed"]
    <3>1. calls' = [calls EXCEPT ![k] = e] /\ UNCHANGED <<worker, provider, raced>>
      BY <1>6, <2>2 DEF X!Commit
    <3>. HIDE DEF e
    <3>. QED  BY <3>1, <2>1, <1>3
  <2>3. CASE X!Ends(k, "secret_binding_changed")
    BY <1>4, <1>6, <2>3 DEF X!Commit, Told, ThreadPlaces
  <2>. QED  BY <1>6, <2>2, <2>3 DEF X!Commit
<1>7. CASE X!Unsupported(k)
  BY <1>4, <1>7 DEF X!Unsupported, Told
<1>8. CASE X!Ask(k)
  <2>. DEFINE e == [a EXCEPT !.at = "waiting"]
              f == [t EXCEPT !.at = "begun"]
  <2>1. e \in AskCalls /\ e.at = "waiting" /\ e.filled = 0 /\ f \in AskThreads /\ f.at = "begun"
                       /\ f.buffer = 0
    BY <1>1, <1>2 DEF AskCalls, AskThreads, Told, ThreadPlaces
  <2>2. /\ calls' = [calls EXCEPT ![k] = e] /\ worker' = [worker EXCEPT ![k] = f]
        /\ UNCHANGED <<provider, raced>>
    BY <1>8 DEF X!Ask
  <2>. HIDE DEF e, f
  <2>3. AskOk(e, f) /\ BoundOk(e, f)
    BY <2>1 DEF AskOk, BoundOk, X!Working
  <2>. QED  BY <2>1, <2>2, <2>3, AskChanges
<1>. QED  BY <1>5, <1>6, <1>7, <1>8

\* The thread of a call checks, reads or hears the host.
LEMMA ThreadGoesOn ==
    ASSUME SecretsInv, NEW k \in X!Call, X!Check(k) \/ X!Read(k) \/ X!Participate(k)
    PROVE  SecretsInv'
<1>. DEFINE a == calls[k]
            t == worker[k]
<1>1. /\ a \in AskCalls /\ t \in AskThreads /\ AskOk(a, t) /\ (k \in Prepared \ raced => BoundOk(a, t))
      /\ calls = [calls EXCEPT ![k] = a] /\ provider.generation \in Nat
  BY DEF SecretsInv
<1>2. t.at \in X!Working /\ t.buffer = 0
  BY <1>1 DEF X!Check, X!Read, X!Participate, X!Working, AskOk, AskThreads
<1>3. a.at \in {"idle", "prepared", "committed"} => FALSE
  BY <1>1, <1>2 DEF AskOk, X!Working
<1>4. ASSUME NEW f \in AskThreads, worker' = [worker EXCEPT ![k] = f], UNCHANGED <<calls, provider, raced>>,
             f.buffer # 0 => f.at = "value", k \in Prepared \ raced => BoundOk(a, f)
      PROVE  SecretsInv'
  <2>1. AskOk(a, f)
    BY <1>1, <1>2, <1>3, <1>4 DEF AskOk, X!Working
  <2>. QED  BY <1>1, <1>4, <2>1, AskChanges
<1>5. CASE X!Check(k)
  <2>. DEFINE v == IF X!IsBound(k) THEN "checked"
                   ELSE IF provider.present THEN "secret_binding_changed" ELSE "secret_not_found"
              f == [t EXCEPT !.at = v]
  <2>1. f \in AskThreads /\ f.at = v /\ f.buffer = 0
    BY <1>1, <1>2 DEF AskThreads, ThreadPlaces
  <2>2. worker' = [worker EXCEPT ![k] = f] /\ UNCHANGED <<calls, provider, raced>>
    BY <1>5 DEF X!Check
  <2>3. BoundOk(a, t) => BoundOk(a, f)
    <3>. HIDE DEF f
    <3>. QED  BY <2>1 DEF BoundOk, X!IsBound
  <2>. HIDE DEF f, v
  <2>. QED  BY <1>1, <2>1, <2>2, <2>3, <1>4
<1>6. CASE X!Read(k)
  <2>. DEFINE f == IF provider.present THEN [at |-> "value", buffer |-> provider.generation]
                   ELSE [at |-> IF k \in Prepared THEN "secret_provider_failed" ELSE "secret_not_found",
                         buffer |-> 0]
  <2>1. /\ f \in AskThreads /\ f.at # "checked" /\ f.buffer \in {0, provider.generation}
        /\ f.buffer # 0 => f.at = "value"
    BY <1>1 DEF AskThreads, ThreadPlaces
  <2>2. worker' = [worker EXCEPT ![k] = f] /\ UNCHANGED <<calls, provider, raced>>
    BY <1>6 DEF X!Read
  <2>3. k \in Prepared => t.at = "checked"
    BY <1>6 DEF X!Read
  <2>. HIDE DEF f
  <2>4. k \in Prepared \ raced => BoundOk(a, f)
    BY <1>1, <2>1, <2>3 DEF BoundOk
  <2>. QED  BY <2>1, <2>2, <2>4, <1>4
<1>7. CASE X!Participate(k)
  <2>1. PICK status \in {"completed", "rejected", "indeterminate"} : worker' = [worker EXCEPT ![k].at = status]
    BY <1>7 DEF X!Participate
  <2>. DEFINE f == [t EXCEPT !.at = status]
  <2>2. f \in AskThreads /\ f.at = status /\ f.buffer = 0
    BY <1>1, <1>2 DEF AskThreads, ThreadPlaces
  <2>3. worker' = [worker EXCEPT ![k] = f] /\ UNCHANGED <<calls, provider, raced>>
    BY <1>7, <2>1 DEF X!Participate
  <2>. HIDE DEF f
  <2>4. BoundOk(a, t) => BoundOk(a, f)
    BY <2>2 DEF BoundOk
  <2>. QED  BY <1>1, <2>2, <2>3, <2>4, <1>4
<1>. QED  BY <1>5, <1>6, <1>7

\* The caller hears the thread, gives up on it, or fills the page and wipes the buffer.
LEMMA AskEnds ==
    ASSUME SecretsInv, NEW k \in X!Call, X!Answered(k) \/ X!GiveUp(k) \/ X!Fill(k)
    PROVE  SecretsInv'
<1>. DEFINE a == calls[k]
            t == worker[k]
<1>1. /\ a \in AskCalls /\ t \in AskThreads /\ AskOk(a, t) /\ (k \in Prepared \ raced => BoundOk(a, t))
      /\ worker = [worker EXCEPT ![k] = t]
  BY DEF SecretsInv
<1>2. a.filled = 0
  BY <1>1 DEF X!Answered, X!GiveUp, X!Fill, AskOk
<1>3. CASE X!Answered(k)
  <2>. DEFINE e == [a EXCEPT !.at = "filling"]
              f == [[a EXCEPT !.at = "over"] EXCEPT !.told = t.at]
  <2>1. /\ e \in AskCalls /\ e.at = "filling" /\ e.filled = 0 /\ e.bound = a.bound
        /\ f \in AskCalls /\ f.at = "over" /\ f.told = t.at /\ f.filled = 0 /\ f.bound = a.bound
    BY <1>1, <1>2 DEF AskCalls, AskThreads, Told, ThreadPlaces
  <2>2. /\ UNCHANGED <<worker, provider, raced>> /\ t.at \notin X!Working
        /\ \/ t.at = "value" /\ calls' = [calls EXCEPT ![k] = e]
           \/ t.at # "value" /\ calls' = [calls EXCEPT ![k] = f]
    BY <1>3 DEF X!Answered, X!Ends
  <2>. HIDE DEF e, f
  <2>3. /\ t.at = "value" => AskOk(e, t)
        /\ t.at # "value" => AskOk(f, t)
        /\ BoundOk(a, t) => BoundOk(e, t) /\ BoundOk(f, t)
    BY <1>1, <2>1, <2>2 DEF AskOk, BoundOk
  <2>. QED  BY <1>1, <2>1, <2>2, <2>3, AskChanges
<1>4. CASE X!GiveUp(k)
  <2>. DEFINE e == [[a EXCEPT !.at = "over"] EXCEPT !.told = "timed_out"]
              f == [t EXCEPT !.at = "cancelled"]
  <2>1. /\ e \in AskCalls /\ e.at = "over" /\ e.told = "timed_out" /\ e.filled = 0 /\ e.bound = a.bound
        /\ f \in AskThreads /\ f.at = "cancelled" /\ f.buffer = t.buffer
    BY <1>1, <1>2 DEF AskCalls, AskThreads, Told, ThreadPlaces
  <2>2. /\ calls' = [calls EXCEPT ![k] = e] /\ UNCHANGED <<provider, raced>>
        /\ UNCHANGED worker \/ (t.at = "begun" /\ worker' = [worker EXCEPT ![k] = f])
    BY <1>4 DEF X!GiveUp, X!Ends
  <2>. HIDE DEF e, f
  <2>3. /\ AskOk(e, t) /\ (t.at = "begun" => AskOk(e, f))
        /\ BoundOk(a, t) => BoundOk(e, t) /\ BoundOk(e, f)
    BY <1>1, <2>1 DEF AskOk, BoundOk
  <2>. QED  BY <1>1, <2>1, <2>2, <2>3, AskChanges
<1>5. CASE X!Fill(k)
  <2>1. PICK told \in {"resolved", "session_io_error"}, filled \in {0, t.buffer} :
             calls' = [calls EXCEPT ![k].at = "over", ![k].told = told, ![k].filled = filled]
    BY <1>5 DEF X!Fill
  <2>. DEFINE e == [[[a EXCEPT !.at = "over"] EXCEPT !.told = told] EXCEPT !.filled = filled]
              f == [t EXCEPT !.buffer = 0]
  <2>6. told \in Told
    BY <2>1 DEF Told
  <2>7. t.buffer \in Nat
    BY <1>1 DEF AskThreads
  <2>0. told \in Told /\ filled \in Nat
    BY <2>1, <2>6, <2>7
  <2>2. /\ e \in AskCalls /\ e.at = "over" /\ e.told = told /\ e.filled = filled /\ e.bound = a.bound
        /\ f \in AskThreads /\ f.at = t.at /\ f.buffer = 0
    BY <1>1, <2>0 DEF AskCalls, AskThreads
  <2>3. /\ calls' = [calls EXCEPT ![k] = e] /\ worker' = [worker EXCEPT ![k] = f]
        /\ UNCHANGED <<provider, raced>> /\ a.at = "filling"
    BY <1>5, <2>1 DEF X!Fill
  <2>. HIDE DEF e, f
  <2>4. AskOk(e, f) /\ (BoundOk(a, t) => BoundOk(e, f))
    BY <1>1, <2>2, <2>3 DEF AskOk, BoundOk, X!Working
  <2>. QED  BY <1>1, <2>2, <2>3, <2>4, AskChanges
<1>. QED  BY <1>3, <1>4, <1>5

\* What resolve_bound_secret (authentication/secrets.py) hands to a prepared fill is the
\* generation that was bound, unless the secret was rotated in the one gap between the check and
\* the read; and a value left in a buffer is that of a call that timed out, which never fills.
THEOREM SecretsAreBound == DeferredSpec => []SecretsAsBound
<1>1. DeferredInit => SecretsInv
  BY SecretsInit DEF DeferredInit
<1>2. SecretsInv /\ [DeferredNext]_<<vars, queueVars, secretVars, part>> => SecretsInv'
  <2>. SUFFICES ASSUME SecretsInv, [DeferredNext]_<<vars, queueVars, secretVars, part>> PROVE SecretsInv'
    OBVIOUS
  <2>1. CASE X!Next
    BY <2>1, ProviderKeeps, AskGoesOn, ThreadGoesOn, AskEnds DEF X!Next
  <2>2. CASE UNCHANGED secretVars
    BY <2>2 DEF secretVars, SecretsInv, AskOk, BoundOk, X!Call
  <2>. QED  BY <2>1, <2>2 DEF DeferredNext
<1>3. SecretsInv => SecretsAsBound
  <2>. SUFFICES ASSUME SecretsInv PROVE SecretsAsBound
    OBVIOUS
  <2>1. \A k \in Prepared \ raced : calls[k].filled \in {0, calls[k].bound}
    BY DEF SecretsInv, BoundOk
  <2>2. \A k \in X!Call : AskOk(calls[k], worker[k])
    BY DEF SecretsInv
  <2>. QED  BY <2>1, <2>2 DEF SecretsAsBound, X!SecretsAsBound, AskOk
<1>. QED  BY <1>1, <1>2, <1>3, PTL DEF DeferredSpec
=============================================================================
