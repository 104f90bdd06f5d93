------------------------ MODULE GovernedSessionProofs ------------------------
(***************************************************************************)
(* What GovernedSession promises, proved for every set of agents and        *)
(* operations, every policy and every bound: types, tokens, control, what   *)
(* an arbitrated session knows of the page when it dispatches, and what it  *)
(* lets reach the browser: a consequential operation only as the commit of  *)
(* a token prepared for it, nothing prepared before control was handed on,  *)
(* the steps of a signed plan in their order, and no more than the host's   *)
(* budgets pay for.                                                         *)
(*                                                                          *)
(* Each part below is what one group of properties needs to be inductive.   *)
(***************************************************************************)
EXTENDS GovernedSession, TLAPS, FiniteSetTheorems, SequenceTheorems

\* The sequences a call dispatches are sequences of action types, whatever branch
\* the page selects.
LEMMA SelectedTyped ==
    ASSUME NEW op \in Op,
           NEW b \in IF Guarded(op) THEN Alternatives[op] ELSE {<<>>}
    PROVE  Append(b, Primary[op]) \in Seq(ActionType)
<1>1. Primary[op] \in ActionType
  BY OperationsAssumption
<1>2. b \in Seq(ActionType)
  <2>1. CASE Guarded(op)
    <3>1. Alternatives[op] \in SUBSET Seq(ActionType)
      BY OperationsAssumption
    <3>. QED  BY <3>1, <2>1
  <2>2. CASE ~Guarded(op)
    BY <2>2
  <2>. QED  BY <2>1, <2>2
<1>. QED  BY <1>1, <1>2

\* Retiring preparations keeps their number and everything but their status, and
\* leaves none prepared.
LEMMA RetiredFacts ==
    ASSUME NEW ps \in Seq(Prep)
    PROVE  /\ Retired(ps) \in Seq(Prep)
           /\ DOMAIN Retired(ps) = DOMAIN ps
           /\ Len(Retired(ps)) = Len(ps)
           /\ \A t \in DOMAIN ps :
                 /\ Retired(ps)[t].status # "PREPARED"
                 /\ ps[t].status # "PREPARED" => Retired(ps)[t] = ps[t]
                 /\ Retired(ps)[t].op = ps[t].op
                 /\ Retired(ps)[t].ver = ps[t].ver
                 /\ Retired(ps)[t].mutation = ps[t].mutation
                 /\ Retired(ps)[t].epoch = ps[t].epoch
                 /\ Retired(ps)[t].offered = ps[t].offered
<1>1. DOMAIN ps = 1..Len(ps) /\ Len(ps) \in Nat
  OBVIOUS
<1>2. \A t \in DOMAIN ps : ps[t] \in Prep
  OBVIOUS
<1>3. \A t \in DOMAIN ps :
        (IF ps[t].status = "PREPARED"
         THEN [ps[t] EXCEPT !.status = "INVALIDATED"] ELSE ps[t]) \in Prep
  BY <1>2 DEF Prep
<1>4. Retired(ps) \in [1..Len(ps) -> Prep]
  BY <1>1, <1>3 DEF Retired
<1>5. Retired(ps) \in Seq(Prep) /\ Len(Retired(ps)) = Len(ps)
  BY <1>1, <1>4
<1>6. ASSUME NEW t \in DOMAIN ps
      PROVE  Retired(ps)[t] = IF ps[t].status = "PREPARED"
                 THEN [ps[t] EXCEPT !.status = "INVALIDATED"] ELSE ps[t]
  BY DEF Retired
<1>. QED  BY <1>1, <1>2, <1>4, <1>5, <1>6 DEF Prep, Retired

\* Changing one field of one preparation keeps the sequence of preparations.
LEMMA InvalidateTyped ==
    ASSUME NEW ps \in Seq(Prep), NEW t \in DOMAIN ps,
           NEW s \in {"COMMITTED", "INVALIDATED"}
    PROVE  /\ [ps EXCEPT ![t].status = s] \in Seq(Prep)
           /\ DOMAIN [ps EXCEPT ![t].status = s] = DOMAIN ps
<1>1. ps[t] \in Prep /\ ps \in [1..Len(ps) -> Prep] /\ Len(ps) \in Nat
  OBVIOUS
<1>2. [ps[t] EXCEPT !.status = s] \in Prep
  BY <1>1 DEF Prep
<1>3. [ps EXCEPT ![t].status = s] \in [1..Len(ps) -> Prep]
  BY <1>1, <1>2
<1>. QED  BY <1>1, <1>3

\* A refresh of the monitor keeps the types it works on.
LEMMA RefreshTyped ==
    ASSUME TypeOK, NEW blind \in BOOLEAN, Refresh(blind)
    PROVE  /\ seen' \in Nat /\ mutationEpoch' \in Nat /\ stale' \in BOOLEAN
           /\ AfterRefresh(blind) \in Seq(Prep)
           /\ DOMAIN AfterRefresh(blind) = DOMAIN preps
<1>1. preps \in Seq(Prep) /\ page.ver \in Nat /\ seen \in Nat /\ mutationEpoch \in Nat
      /\ stale \in BOOLEAN
  BY DEF TypeOK
<1>2. Changed(blind) \in BOOLEAN
  BY DEF Changed, Arbitrated
<1>3. seen' \in Nat /\ mutationEpoch' \in Nat
  BY <1>1 DEF Refresh
<1>4. stale' \in BOOLEAN
  BY <1>1, <1>2 DEF Refresh
<1>5. AfterRefresh(blind) \in Seq(Prep) /\ DOMAIN AfterRefresh(blind) = DOMAIN preps
  BY <1>1, RetiredFacts DEF AfterRefresh
<1>. QED  BY <1>3, <1>4, <1>5

\* A call that has entered is well formed.
LEMMA EnteredTyped ==
    ASSUME NEW stage \in Stages, NEW a \in Agent, NEW l \in Nat, NEW op \in Op,
           NEW tok \in Nat, NEW ref \in Ref \cup {NoRef}
    PROVE  Entered(stage, a, l, op, tok, ref) \in Call
BY DEF Entered, Call, Outcomes

\* What a caller cites is a reference, of the observation it has: its epochs are the
\* observed ones or left out, and without an observation there is none.
LEMMA CitedTyped ==
    ASSUME NEW r \in Observed \cup {NoRef}, NEW ref \in Cited(r)
    PROVE  /\ ref \in Ref \cup {NoRef}
           /\ ref # NoRef =>
                 /\ r \in Observed
                 /\ ref.ver = r.ver
                 /\ ref.control \in {r.control, NoEpoch}
                 /\ ref.mutation \in {r.mutation, NoEpoch}
<1>1. CASE ref = NoRef
  BY <1>1
<1>2. ASSUME NEW c \in {r.control, NoEpoch}, NEW m \in {r.mutation, NoEpoch},
             ref = [control |-> c, mutation |-> m, ver |-> r.ver]
      PROVE  /\ ref \in Ref \cup {NoRef}
             /\ ref # NoRef =>
                   /\ r \in Observed
                   /\ ref.ver = r.ver
                   /\ ref.control \in {r.control, NoEpoch}
                   /\ ref.mutation \in {r.mutation, NoEpoch}
  <2>1. CASE r = NoRef
    BY <1>2, <2>1 DEF NoRef, NoEpoch
  <2>2. CASE r \in Observed
    BY <1>2, <2>2 DEF Observed, Ref
  <2>. QED  BY <2>1, <2>2
<1>. QED  BY <1>1, <1>2 DEF Cited

\* A receipt made from a running call is well formed.
LEMMA ReceiptTyped ==
    ASSUME TypeOK, NEW c \in Call, NEW out \in Outcomes
    PROVE  ReceiptOf(c, out) \in Receipt
<1>1. epoch \in Nat /\ planIdx \in Nat \cup {-1}
  BY DEF TypeOK
<1>2. Step \in Nat
  BY <1>1 DEF Step
<1>. QED  BY <1>1, <1>2 DEF ReceiptOf, Receipt, Call

\* What the admission of a call may assign.
LEMMA AdmissionTyped ==
    ASSUME TypeOK, NEW c \in Call, Admission(c)
    PROVE  /\ seen' \in Nat /\ mutationEpoch' \in Nat /\ stale' \in BOOLEAN
           /\ preps' \in Seq(Prep) /\ DOMAIN preps' = DOMAIN preps
           /\ chain' \in Seq(Receipt)
           /\ call' \in Call \cup {Free}
<1>1. PICK blind \in BOOLEAN :
        /\ Refresh(blind) /\ preps' = AfterRefresh(blind)
        /\ chain' \in {chain, Append(chain, ReceiptOf(c, "refused"))}
        /\ call' \in {Free, [c EXCEPT !.stage = "select", !.ver = page.ver]}
  BY DEF Admission
<1>2. ReceiptOf(c, "refused") \in Receipt
  BY ReceiptTyped DEF Outcomes
<1>3. chain' \in Seq(Receipt)
  <2>1. chain \in Seq(Receipt)
    BY DEF TypeOK
  <2>. QED  BY <1>1, <1>2, <2>1
<1>4. page.ver \in Nat
  BY DEF TypeOK
<1>5. call' \in Call \cup {Free}
  BY <1>1, <1>4 DEF Call, Stages
<1>. QED  BY <1>1, <1>3, <1>5, RefreshTyped

\* Charges are natural numbers.
LEMMA SidesTyped ==
    ASSUME NEW acts \in Seq(ActionType)
    PROVE  Sides(acts) \in Nat
<1>1. IsFiniteSet(1..Len(acts)) /\ DOMAIN acts = 1..Len(acts)
  BY FS_Interval
<1>2. {i \in DOMAIN acts : acts[i] \in Irreversible} \subseteq 1..Len(acts)
  BY <1>1
<1>. QED  BY <1>1, <1>2, FS_Subset, FS_CardinalityType DEF Sides

\* What a receipt charges is a sequence of action types (_receipt_dispatch_counts).
LEMMA ChargeTyped ==
    ASSUME NEW c \in Call
    PROVE  LET charged == ChargedActs(c.op, c.out, c.done)
           IN  Len(charged) \in Nat /\ Sides(charged) \in Nat
<1>. DEFINE charged == ChargedActs(c.op, c.out, c.done)
<1>1. c.op \in Op /\ c.done \in Seq(ActionType)
  BY DEF Call
<1>2. Primary[c.op] \in ActionType
  BY <1>1, OperationsAssumption
<1>3. SubSeq(c.done, 1, Len(c.done) - 1) \in Seq(ActionType)
  BY <1>1
<1>4. charged \in Seq(ActionType)
  BY <1>1, <1>2, <1>3 DEF ChargedActs
<1>. QED  BY <1>4, SidesTyped

\* The record that open_session builds is well typed.
LEMMA InitTyped == Init => TypeOK
<1>. SUFFICES ASSUME Init PROVE TypeOK
  OBVIOUS
<1>1. page \in [ver : Nat, inScope : BOOLEAN]
  BY DEF Init
<1>2. held \in [Agent -> SUBSET Nat]
  BY DEF Init
<1>3. planIdx \in Nat \cup {-1}
  BY DEF Init
<1>4. obs \in [Agent -> Observed \cup {NoRef}]
  BY DEF Init
<1>5. lapsed \in SUBSET Deadlines /\ preps \in Seq(Prep) /\ chain \in Seq(Receipt)
  BY DEF Init
<1>. QED  BY <1>1, <1>2, <1>3, <1>4, <1>5 DEF Init, TypeOK

\* Every step keeps the types, action by action.
LEMMA NextTyped == TypeOK /\ [Next]_vars => TypeOK'
<1>. SUFFICES ASSUME TypeOK, [Next]_vars PROVE TypeOK'
  OBVIOUS
<1>. USE DEF allButCall, ledger, browser, control, monitor, budget, Deadlines
<1>0. /\ page.ver \in Nat /\ page \in [ver : Nat, inScope : BOOLEAN]
      /\ preps \in Seq(Prep) /\ chain \in Seq(Receipt)
      /\ call # Free => call \in Call
      /\ epoch \in Nat /\ agent \in Agent /\ mutationEpoch \in Nat
      /\ \A a \in Agent : held[a] \subseteq Nat
  BY DEF TypeOK
<1>f. Free.stage = "free" /\ Free.tok = NoToken /\ NoToken \in Nat
  BY DEF Free, NoToken
<1>1. CASE UNCHANGED vars
  BY <1>1 DEF TypeOK, vars
<1>2. ASSUME NEW a \in Agent, NEW l \in held[a], NEW op \in Op, PrepareBegin(a, l, op)
      PROVE TypeOK'
  <2>1. PICK blind \in BOOLEAN :
          /\ Refresh(blind) /\ preps' = AfterRefresh(blind)
          /\ call' \in {Entered("capture", a, l, op, NoToken, NoRef), Free}
    BY <1>2 DEF PrepareBegin
  <2>2. call' \in Call \cup {Free}
    BY <2>1, <1>0, <1>f, EnteredTyped DEF Stages
  <2>. QED  BY <2>1, <2>2, <1>2, RefreshTyped DEF PrepareBegin, TypeOK
<1>3. ASSUME NEW a \in Agent, NEW l \in held[a], NEW t \in 1..MaxPreps, NEW op \in Op,
             CommitBegin(a, l, t, op)
      PROVE TypeOK'
  <2>1. PICK blind \in BOOLEAN :
          /\ Refresh(blind)
          /\ \/ preps' = AfterRefresh(blind)
             \/ t \in DOMAIN preps /\ preps' = Invalidate(AfterRefresh(blind), t)
          /\ \/ call' = Free
             \/ /\ t \in DOMAIN preps
                /\ call' = Entered("recheck", a, l, preps[t].op, t, NoRef)
    BY <1>3 DEF CommitBegin
  <2>2. call' \in Call \cup {Free}
    <3>1. t \in DOMAIN preps => preps[t].op \in Op
      <4>1. t \in DOMAIN preps => preps[t] \in Prep
        BY <1>0
      <4>. QED  BY <4>1 DEF Prep
    <3>2. t \in Nat
      BY BoundsAssumption
    <3>. QED  BY <2>1, <3>1, <3>2, <1>0, EnteredTyped DEF Stages
  <2>3. preps' \in Seq(Prep)
    <3>1. AfterRefresh(blind) \in Seq(Prep) /\ DOMAIN AfterRefresh(blind) = DOMAIN preps
      BY <2>1, RefreshTyped
    <3>2. t \in DOMAIN preps => Invalidate(AfterRefresh(blind), t) \in Seq(Prep)
      BY <3>1, InvalidateTyped DEF Invalidate
    <3>. QED  BY <2>1, <3>1, <3>2
  <2>. QED  BY <2>1, <2>2, <2>3, <1>3, RefreshTyped DEF CommitBegin, TypeOK
<1>4. ASSUME NEW a \in Agent, NEW l \in held[a], NEW op \in Op, NEW ref \in Cited(obs[a]),
             ExecuteBegin(a, l, op, ref)
      PROVE TypeOK'
  <2>1. ref \in Ref \cup {NoRef}
    BY CitedTyped DEF TypeOK
  <2>2. Entered("begin", a, l, op, NoToken, ref) \in Call
    BY <2>1, <1>0, <1>f, EnteredTyped DEF Stages
  <2>3. /\ Admission(Entered("begin", a, l, op, NoToken, ref))
        /\ UNCHANGED <<status, browser, control, budget, planIdx, obs, attempts>>
    BY <1>4 DEF ExecuteBegin
  <2>4. /\ seen' \in Nat /\ mutationEpoch' \in Nat /\ stale' \in BOOLEAN
        /\ preps' \in Seq(Prep) /\ chain' \in Seq(Receipt) /\ call' \in Call \cup {Free}
    BY <2>2, <2>3, AdmissionTyped
  <2>. QED  BY <2>3, <2>4 DEF TypeOK
<1>5. ASSUME NEW a \in Agent, NEW l \in held[a], NEW to \in Recipients, PrepareHandoff(a, l, to)
      PROVE TypeOK'
  <2>1. PICK blind \in BOOLEAN :
          Refresh(blind) /\ preps' \in {AfterRefresh(blind), Retired(AfterRefresh(blind))}
    BY <1>5 DEF PrepareHandoff
  <2>2. preps' \in Seq(Prep) /\ mutationEpoch' \in Nat
    BY <2>1, RefreshTyped, RetiredFacts
  <2>3. offer' \in Offer
    BY <1>5, <2>2, <1>0, BoundsAssumption DEF PrepareHandoff, Offer
  <2>. QED  BY <1>5, <2>1, <2>2, <2>3, RefreshTyped DEF PrepareHandoff, TypeOK
<1>6. ASSUME NEW a \in Agent, NEW l \in held[a], CloseSession(a, l)
      PROVE TypeOK'
  BY <1>6 DEF CloseSession, End, TypeOK
<1>7. CASE PrepareCapture
  <2>1. call \in Call
    BY <1>7, <1>0, <1>f DEF PrepareCapture
  <2>2. [op |-> call.op, ver |-> page.ver, mutation |-> mutationEpoch, epoch |-> epoch,
         offered |-> offer # NoOffer, expired |-> FALSE, status |-> "PREPARED"] \in Prep
    BY <2>1, <1>0 DEF Call, Prep
  <2>. QED  BY <1>7, <2>2 DEF PrepareCapture, TypeOK
<1>8. CASE CaptureRaises \/ NestedRaises
  BY <1>8 DEF CaptureRaises, NestedRaises, TypeOK
<1>9. CASE CommitRecheck
  <2>1. call \in Call
    BY <1>9, <1>0, <1>f DEF CommitRecheck
  <2>2. call' \in Call \cup {Free}
    BY <1>9, <2>1 DEF CommitRecheck, Call, Stages
  <2>3. preps' \in Seq(Prep)
    <3>1. CASE call.tok \in DOMAIN preps
      <4>1. preps' \in {[preps EXCEPT ![call.tok].status = "COMMITTED"],
                        [preps EXCEPT ![call.tok].status = "INVALIDATED"]}
        BY <1>9 DEF CommitRecheck, Invalidate
      <4>2. /\ [preps EXCEPT ![call.tok].status = "COMMITTED"] \in Seq(Prep)
            /\ [preps EXCEPT ![call.tok].status = "INVALIDATED"] \in Seq(Prep)
        BY <3>1, <1>0, InvalidateTyped
      <4>. QED  BY <4>1, <4>2
    <3>2. CASE call.tok \notin DOMAIN preps
      <4>1. preps' = preps
        BY <1>9, <3>2, <1>0 DEF CommitRecheck, Invalidate
      <4>. QED  BY <4>1, <1>0
    <3>. QED  BY <3>1, <3>2
  <2>. QED  BY <1>9, <2>2, <2>3 DEF CommitRecheck, TypeOK
<1>10. CASE NestedBegin
  <2>1. call \in Call
    BY <1>10, <1>0, <1>f DEF NestedBegin
  <2>2. /\ Admission(call)
        /\ UNCHANGED <<status, browser, control, budget, planIdx, obs, attempts>>
    BY <1>10 DEF NestedBegin
  <2>3. /\ seen' \in Nat /\ mutationEpoch' \in Nat /\ stale' \in BOOLEAN
        /\ preps' \in Seq(Prep) /\ chain' \in Seq(Receipt) /\ call' \in Call \cup {Free}
    BY ZenonT(40), <2>1, <2>2, AdmissionTyped
  <2>. QED  BY <2>2, <2>3 DEF TypeOK
<1>11. CASE Refuse \/ SkipAbsentTarget \/ Verify \/ Fault
  <2>1. call \in Call
    BY <1>11, <1>0, <1>f DEF Refuse, SkipAbsentTarget, Verify, Fault
  <2>2. call' \in Call
    BY ZenonT(40), <1>11, <2>1
       DEF Refuse, SkipAbsentTarget, Verify, Fault, Call, Stages, Outcomes
  <2>. QED  BY <1>11, <2>2 DEF Refuse, SkipAbsentTarget, Verify, Fault, TypeOK
<1>12. CASE SelectActions
  <2>1. call \in Call
    BY <1>12, <1>0, <1>f DEF SelectActions
  <2>2. PICK b \in IF Guarded(call.op) THEN Alternatives[call.op] ELSE {<<>>} :
          call' = [call EXCEPT !.stage = "dispatch", !.todo = Append(b, Primary[call.op])]
    BY <1>12 DEF SelectActions
  <2>3. call.op \in Op
    BY <2>1 DEF Call
  <2>4. Append(b, Primary[call.op]) \in Seq(ActionType)
    BY <2>3, SelectedTyped
  <2>5. call' \in Call
    BY <2>1, <2>2, <2>4 DEF Call, Stages
  <2>. QED  BY <1>12, <2>5 DEF SelectActions, TypeOK
<1>13. CASE DispatchNext
  <2>1. call \in Call /\ call.todo # <<>>
    BY <1>13, <1>0, <1>f DEF DispatchNext
  <2>2. /\ Tail(call.todo) \in Seq(ActionType)
        /\ Append(call.done, Head(call.todo)) \in Seq(ActionType)
    BY <2>1 DEF Call
  <2>3. call' \in Call
    BY ZenonT(40), <1>13, <2>1, <2>2 DEF DispatchNext, Call, Stages, Outcomes
  <2>4. page' \in [ver : Nat, inScope : BOOLEAN]
    BY <1>13, <1>0 DEF DispatchNext, PageMoved
  <2>. QED  BY <1>13, <2>3, <2>4 DEF DispatchNext, TypeOK
<1>14. CASE Settle
  <2>1. call \in Call
    BY <1>14, <1>0, <1>f DEF Settle
  <2>2. ReceiptOf(call, call.out) \in Receipt
    BY <2>1, ReceiptTyped DEF Call
  <2>3. chain' \in Seq(Receipt)
    BY <1>14, <2>2, <1>0 DEF Settle
  <2>4. actionCount' \in Nat /\ sideCount' \in Nat
    BY <1>14, <2>1, ChargeTyped DEF Settle, TypeOK
  <2>5. planIdx' \in Nat \cup {-1}
    BY <1>14 DEF Settle, NextStep, TypeOK
  <2>6. /\ preps' \in Seq(Prep) /\ mutationEpoch' \in Nat /\ seen' \in Nat
    BY <1>14, <1>0, RetiredFacts DEF Settle, TypeOK
  <2>. QED  BY <1>14, <2>3, <2>4, <2>5, <2>6 DEF Settle, TypeOK
<1>15. ASSUME NEW a \in Agent, Observe(a)
       PROVE TypeOK'
  <2>1. obs' \in [Agent -> Observed \cup {NoRef}]
    BY <1>15, <1>0 DEF Observe, Observed, TypeOK
  <2>. QED  BY <1>15, <2>1 DEF Observe, TypeOK
<1>16. ASSUME NEW b \in Agent, ClaimHandoff(b)
       PROVE TypeOK'
  <2>1. PICK blind \in BOOLEAN : Refresh(blind) /\ preps' = AfterRefresh(blind)
    BY <1>16 DEF ClaimHandoff
  <2>2. /\ agent' \in Agent /\ epoch' \in Nat
        /\ held' \in [Agent -> SUBSET Nat]
        /\ offer' \in Offer \cup {NoOffer}
    BY <1>16 DEF ClaimHandoff, TypeOK
  <2>. QED  BY <1>16, <2>1, <2>2, RefreshTyped DEF ClaimHandoff, TypeOK
<1>17. CASE RecordExternalMutation
  BY <1>17, <1>0, RetiredFacts DEF RecordExternalMutation, TypeOK
<1>18. CASE BindSignedPlan
  BY <1>18 DEF BindSignedPlan, TypeOK
<1>19. CASE ExpireSession \/ FindTerminal
  BY <1>19 DEF ExpireSession, FindTerminal, End, TypeOK
<1>20. CASE PageMoves
  <2>1. page' \in [ver : Nat, inScope : BOOLEAN]
    BY <1>20, <1>0 DEF PageMoves, PageMoved
  <2>. QED  BY <1>20, <2>1 DEF PageMoves, TypeOK
<1>21. CASE BrowserDies \/ OfferExpires
  BY <1>21 DEF BrowserDies, OfferExpires, TypeOK
<1>22. ASSUME NEW d \in Deadlines, Lapse(d)
       PROVE TypeOK'
  BY <1>22 DEF Lapse, TypeOK
<1>23. ASSUME NEW t \in DOMAIN preps, PreparationExpires(t)
       PROVE TypeOK'
  <2>0. preps[t] \in Prep
    BY <1>0
  <2>1. [preps[t] EXCEPT !.expired = TRUE] \in Prep
    BY <2>0 DEF Prep
  <2>2. preps' \in Seq(Prep)
    BY <1>23, <2>1, <1>0 DEF PreparationExpires
  <2>. QED  BY <1>23, <2>2 DEF PreparationExpires, TypeOK
<1>. QED
  BY <1>1, <1>2, <1>3, <1>4, <1>5, <1>6, <1>7, <1>8, <1>9, <1>10, <1>11, <1>12, <1>13,
     <1>14, <1>15, <1>16, <1>17, <1>18, <1>19, <1>20, <1>21, <1>22, <1>23, BoundsAssumption
     DEF Next, AgentCall, CallStep, Environment

\* The state of the session record is always well formed.
THEOREM TypeCorrect == Spec => []TypeOK
<1>. QED  BY InitTyped, NextTyped, PTL DEF Spec
-----------------------------------------------------------------------------
(* Tokens. *)

\* Tokens: the token of a running call is prepared until the call consumes it and
\* committed from then on; the receipts' tokens are committed, each in one receipt,
\* and none is the running call's.
TokenInv ==
    /\ call.stage = "capture" => call.tok = NoToken
    /\ call.stage \in {"recheck", "begin"} => call.tok # NoToken
    /\ call.tok # NoToken =>
          /\ call.tok \in DOMAIN preps
          /\ preps[call.tok].status = IF call.stage = "recheck" THEN "PREPARED" ELSE "COMMITTED"
    /\ \A i \in DOMAIN chain : chain[i].tok # NoToken =>
          /\ chain[i].tok \in DOMAIN preps
          /\ preps[chain[i].tok].status = "COMMITTED"
          /\ chain[i].tok # call.tok
    /\ \A i, j \in DOMAIN chain :
          chain[i].tok = chain[j].tok /\ chain[i].tok # NoToken => i = j

\* Preparations only grow, and what was consumed or invalidated stays so.
Kept(ps, qs) ==
    /\ DOMAIN ps \subseteq DOMAIN qs
    /\ \A t \in DOMAIN ps :
          /\ qs[t].op = ps[t].op
          /\ qs[t].ver = ps[t].ver
          /\ qs[t].mutation = ps[t].mutation
          /\ qs[t].epoch = ps[t].epoch
          /\ qs[t].offered = ps[t].offered
          /\ ps[t].status # "PREPARED" => qs[t].status = ps[t].status

\* Preparations that do not change are kept.
LEMMA KeptSelf == \A ps : Kept(ps, ps)
BY DEF Kept

\* A new mutation epoch keeps the consumed tokens (_advance_mutation_epoch).
LEMMA KeptRetired ==
    ASSUME NEW ps \in Seq(Prep)
    PROVE  Kept(ps, Retired(ps))
BY RetiredFacts DEF Kept

\* Setting the status of a prepared operation.
LEMMA KeptStatus ==
    ASSUME NEW ps \in Seq(Prep), NEW t \in DOMAIN ps, ps[t].status = "PREPARED", NEW s
    PROVE  Kept(ps, [ps EXCEPT ![t].status = s])
<1>1. ps[t] \in Prep
  OBVIOUS
<1>. QED  BY <1>1 DEF Kept, Prep

\* So does a refresh of the monitor (_refresh_external_mutation).
LEMMA KeptRefresh ==
    ASSUME TypeOK, NEW blind \in BOOLEAN
    PROVE  /\ AfterRefresh(blind) \in Seq(Prep)
           /\ Kept(preps, AfterRefresh(blind))
           /\ DOMAIN AfterRefresh(blind) = DOMAIN preps
           /\ Changed(blind) => \A t \in DOMAIN preps : AfterRefresh(blind)[t].status # "PREPARED"
           /\ ~Changed(blind) => AfterRefresh(blind) = preps
<1>1. preps \in Seq(Prep)
  BY DEF TypeOK
<1>. QED  BY <1>1, KeptSelf, KeptRetired, RetiredFacts DEF AfterRefresh

\* What every step does to the preparations.
LEMMA PrepsKept == TypeOK /\ TokenInv /\ [Next]_vars => Kept(preps, preps')
<1>. SUFFICES ASSUME TypeOK, TokenInv, [Next]_vars PROVE Kept(preps, preps')
  OBVIOUS
<1>0. preps \in Seq(Prep) /\ \A t \in DOMAIN preps : preps[t] \in Prep
  BY DEF TypeOK
<1>1. CASE preps' = preps
  BY <1>1, KeptSelf
<1>2. ASSUME NEW blind \in BOOLEAN, preps' = AfterRefresh(blind)
      PROVE Kept(preps, preps')
  BY <1>2, KeptRefresh
<1>3. CASE preps' = Retired(preps)
  BY <1>3, <1>0, KeptRetired
<1>4. ASSUME NEW a, NEW l, NEW t, NEW op, CommitBegin(a, l, t, op)
      PROVE Kept(preps, preps')
  <2>1. PICK blind \in BOOLEAN :
          \/ preps' = AfterRefresh(blind)
          \/ /\ t \in DOMAIN preps /\ AfterRefresh(blind)[t].status = "PREPARED"
             /\ preps' = Invalidate(AfterRefresh(blind), t)
    BY <1>4 DEF CommitBegin
  <2>2. CASE AfterRefresh(blind) = preps /\ t \in DOMAIN preps /\ preps[t].status = "PREPARED"
             /\ preps' = Invalidate(preps, t)
    BY <2>2, <1>0, KeptStatus DEF Invalidate
  <2>. QED  BY <2>1, <2>2, <1>2, KeptRefresh
<1>5. ASSUME NEW a, NEW l, NEW to, PrepareHandoff(a, l, to)
      PROVE Kept(preps, preps')
  <2>1. PICK blind \in BOOLEAN : preps' \in {AfterRefresh(blind), Retired(AfterRefresh(blind))}
    BY <1>5 DEF PrepareHandoff
  <2>2. AfterRefresh(blind) \in {preps, Retired(preps)}
    BY DEF AfterRefresh
  <2>3. CASE preps' = Retired(Retired(preps))
    <3>1. Retired(preps) \in Seq(Prep)
      BY <1>0, RetiredFacts
    <3>2. Kept(preps, Retired(preps)) /\ Kept(Retired(preps), Retired(Retired(preps)))
      BY <3>1, <1>0, KeptRetired
    <3>. QED  BY <3>2, <2>3 DEF Kept
  <2>. QED  BY <2>1, <2>2, <2>3, <1>1, <1>3
<1>6. CASE PrepareCapture
  <2>1. PICK p : preps' = Append(preps, p)
    BY <1>6 DEF PrepareCapture
  <2>. QED  BY <2>1, <1>0 DEF Kept
<1>7. CASE CommitRecheck
  <2>1. call.tok \in DOMAIN preps /\ preps[call.tok].status = "PREPARED"
    BY <1>7 DEF CommitRecheck, TokenInv
  <2>2. Kept(preps, [preps EXCEPT ![call.tok].status = "COMMITTED"])
    BY <2>1, <1>0, KeptStatus
  <2>3. Kept(preps, [preps EXCEPT ![call.tok].status = "INVALIDATED"])
    BY <2>1, <1>0, KeptStatus
  <2>. QED  BY <1>7, <2>2, <2>3 DEF CommitRecheck, Invalidate
<1>8. ASSUME NEW t \in DOMAIN preps, PreparationExpires(t)
      PROVE Kept(preps, preps')
  <2>1. preps' = [preps EXCEPT ![t].expired = TRUE] /\ preps[t] \in Prep
    BY <1>8, <1>0 DEF PreparationExpires
  <2>. QED  BY <2>1, <1>0 DEF Kept, Prep
<1>9. ASSUME NEW c, Admission(c)
      PROVE Kept(preps, preps')
  BY <1>9, <1>2 DEF Admission
<1>10. CASE UNCHANGED vars
  BY <1>10, <1>1 DEF vars, allButCall
<1>11. ASSUME NEW a, NEW l, NEW op, PrepareBegin(a, l, op)
       PROVE Kept(preps, preps')
  BY <1>11, <1>2 DEF PrepareBegin
<1>12. ASSUME NEW b, ClaimHandoff(b)
       PROVE Kept(preps, preps')
  BY <1>12, <1>2 DEF ClaimHandoff
<1>13. CASE AgentCall
  BY <1>13, <1>1, <1>4, <1>5, <1>9, <1>11 DEF AgentCall, ExecuteBegin, CloseSession, End
<1>14. CASE CallStep
  BY <1>14, <1>1, <1>3, <1>6, <1>7, <1>9
     DEF CallStep, CaptureRaises, NestedBegin, NestedRaises, Refuse, SelectActions,
         SkipAbsentTarget, DispatchNext, Verify, Fault, Settle, allButCall
<1>15. CASE Environment
  BY <1>15, <1>1, <1>8
     DEF Environment, PageMoves, BrowserDies, OfferExpires, Lapse
<1>16. CASE RecordExternalMutation \/ BindSignedPlan \/ ExpireSession \/ FindTerminal
  BY <1>16, <1>1, <1>3 DEF RecordExternalMutation, BindSignedPlan, ExpireSession, FindTerminal, End
<1>17. ASSUME NEW a, Observe(a)
       PROVE Kept(preps, preps')
  BY <1>17, <1>1 DEF Observe
<1>. QED  BY <1>10, <1>12, <1>13, <1>14, <1>15, <1>16, <1>17 DEF Next
\* A step that leaves the chain alone and ends with a call that carries no token.
LEMMA TokenIdle ==
    ASSUME TokenInv, Kept(preps, preps'), chain' = chain,
           call'.tok = NoToken, call'.stage \notin {"recheck", "begin"}
    PROVE  TokenInv'
BY DEF TokenInv, Kept

\* A step of a running call whose token, if any, is committed by then.
LEMMA TokenRuns ==
    ASSUME TokenInv, Kept(preps, preps'), chain' = chain,
           call'.tok = call.tok, call'.stage \notin {"capture", "recheck"},
           call'.stage = "begin" => call.tok # NoToken,
           call.tok # NoToken => preps'[call.tok].status = "COMMITTED"
    PROVE  TokenInv'
BY DEF TokenInv, Kept

\* A step that appends the receipt of the running call and ends it.
LEMMA TokenSettles ==
    ASSUME TypeOK, TokenInv, Kept(preps, preps'), call' = Free,
           NEW r, r.tok = call.tok, chain' = Append(chain, r),
           call.tok # NoToken => preps'[call.tok].status = "COMMITTED"
    PROVE  TokenInv'
<1>1. /\ Free.tok = NoToken /\ Free.stage = "free"
      /\ chain \in Seq(Receipt)
  BY DEF Free, TypeOK
<1>2. /\ DOMAIN chain' = DOMAIN chain \cup {Len(chain) + 1}
      /\ \A i \in DOMAIN chain : chain'[i] = chain[i] /\ i # Len(chain) + 1
      /\ chain'[Len(chain) + 1] = r
  BY <1>1
<1>3. call.tok # NoToken => call.tok \in DOMAIN preps'
  BY DEF TokenInv, Kept
<1>. QED  BY <1>1, <1>2, <1>3 DEF TokenInv, Kept

\* A step that does not change the running call.
LEMMA TokenStays ==
    ASSUME TokenInv, Kept(preps, preps'), chain' = chain, call' = call,
           call.stage = "recheck" => preps'[call.tok].status = "PREPARED"
    PROVE  TokenInv'
BY DEF TokenInv, Kept

\* The admission of an operation, for a call that carries c's token.
LEMMA TokenAdmission ==
    ASSUME TypeOK, TokenInv, Kept(preps, preps'), NEW c \in Call, Admission(c),
           c.tok = call.tok, call.stage # "recheck"
    PROVE  TokenInv'
<1>1. /\ chain' \in {chain, Append(chain, ReceiptOf(c, "refused"))}
      /\ call' \in {Free, [c EXCEPT !.stage = "select", !.ver = page.ver]}
      /\ chain' # chain => call' = Free
  BY DEF Admission
<1>2. /\ Free.tok = NoToken /\ Free.stage = "free"
      /\ ReceiptOf(c, "refused").tok = call.tok
  BY DEF Free, ReceiptOf
<1>3. call.tok # NoToken => preps'[call.tok].status = "COMMITTED"
  BY DEF TokenInv, Kept
<1>4. CASE call' = Free /\ chain' = chain
  BY <1>2, <1>4, TokenIdle
<1>5. CASE call' = Free /\ chain' = Append(chain, ReceiptOf(c, "refused"))
  BY <1>2, <1>3, <1>5, TokenSettles
<1>6. CASE call' = [c EXCEPT !.stage = "select", !.ver = page.ver] /\ chain' = chain
  <2>1. call'.tok = call.tok /\ call'.stage = "select"
    BY <1>6 DEF Call
  <2>. QED  BY <2>1, <1>3, <1>6, TokenRuns
<1>. QED  BY <1>1, <1>4, <1>5, <1>6

\* A new session has no token (open_session).
LEMMA TokenInit == Init => TokenInv
BY DEF Init, TokenInv, Free

\* No step breaks the bookkeeping of tokens.
LEMMA TokenNext == TypeOK /\ TokenInv /\ [Next]_vars => TokenInv'
<1>. SUFFICES ASSUME TypeOK, TokenInv, [Next]_vars PROVE TokenInv'
  OBVIOUS
<1>. USE DEF allButCall, ledger
<1>0. /\ Kept(preps, preps')
      /\ preps \in Seq(Prep) /\ \A t \in DOMAIN preps : preps[t] \in Prep
      /\ call # Free => call \in Call
      /\ \A a \in Agent : held[a] \subseteq Nat
  BY PrepsKept DEF TypeOK
<1>f. Free.stage = "free" /\ Free.tok = NoToken
  BY DEF Free
<1>1. CASE UNCHANGED vars
  BY <1>1 DEF vars, TokenInv
<1>2. CASE call' = Free /\ chain' = chain
  BY <1>2, <1>0, <1>f, TokenIdle
<1>3. CASE call = Free /\ call' = call /\ chain' = chain
  BY <1>3, <1>2
<1>4. ASSUME NEW a \in Agent, NEW l \in held[a], NEW op \in Op, PrepareBegin(a, l, op)
      PROVE TokenInv'
  <2>1. /\ chain' = chain
        /\ call' \in {Entered("capture", a, l, op, NoToken, NoRef), Free}
    BY <1>4 DEF PrepareBegin
  <2>2. call'.tok = NoToken /\ call'.stage \in {"capture", "free"}
    BY <2>1, <1>f DEF Entered
  <2>. QED  BY <2>1, <2>2, <1>0, TokenIdle
<1>5. ASSUME NEW a \in Agent, NEW l \in held[a], NEW t \in 1..MaxPreps, NEW op \in Op,
             CommitBegin(a, l, t, op)
      PROVE TokenInv'
  <2>1. PICK blind \in BOOLEAN :
          /\ chain' = chain
          /\ \/ call' = Free
             \/ /\ t \in DOMAIN preps /\ AfterRefresh(blind)[t].status = "PREPARED"
                /\ preps' = AfterRefresh(blind)
                /\ call' = Entered("recheck", a, l, preps[t].op, t, NoRef)
    BY <1>5 DEF CommitBegin
  <2>2. CASE call' = Entered("recheck", a, l, preps[t].op, t, NoRef)
    <3>1. call'.tok = t /\ call'.stage = "recheck" /\ t # NoToken
      BY <2>2, BoundsAssumption DEF Entered, NoToken
    <3>2. t \in DOMAIN preps' /\ preps'[t].status = "PREPARED"
      BY <2>1, <2>2, <1>f, <3>1, <1>0 DEF Kept
    <3>3. \A i \in DOMAIN chain : chain[i].tok # t
      BY <3>2, <2>1, <1>0, <3>1 DEF TokenInv, Kept
    <3>. QED  BY <2>1, <3>1, <3>2, <3>3, <1>0 DEF TokenInv, Kept
  <2>. QED  BY <2>1, <2>2, <1>2
<1>6. ASSUME NEW a \in Agent, NEW l \in held[a], NEW op \in Op, NEW ref \in Cited(obs[a]),
             ExecuteBegin(a, l, op, ref)
      PROVE TokenInv'
  <2>1. ref \in Ref \cup {NoRef} /\ l \in Nat
    BY <1>0, CitedTyped DEF TypeOK
  <2>2. Entered("begin", a, l, op, NoToken, ref) \in Call
    BY <2>1, EnteredTyped DEF Stages, NoToken
  <2>3. call = Free /\ Admission(Entered("begin", a, l, op, NoToken, ref))
    BY <1>6 DEF ExecuteBegin, Enter
  <2>4. Entered("begin", a, l, op, NoToken, ref).tok = NoToken
    BY DEF Entered
  <2>. QED  BY <2>2, <2>3, <2>4, <1>0, <1>f, TokenAdmission
<1>7. CASE NestedBegin
  BY <1>7, <1>0, <1>f, TokenAdmission DEF NestedBegin
<1>8. CASE PrepareCapture
  BY <1>8, <1>2 DEF PrepareCapture
<1>9. CASE CommitRecheck
  <2>1. CASE call' = [call EXCEPT !.stage = "begin"]
             /\ preps' = [preps EXCEPT ![call.tok].status = "COMMITTED"]
    <3>1. call \in Call /\ call.tok # NoToken /\ call.tok \in DOMAIN preps
      BY <1>9, <1>0, <1>f DEF CommitRecheck, TokenInv
    <3>2. call'.tok = call.tok /\ call'.stage = "begin"
      BY <2>1, <3>1 DEF Call
    <3>3. preps'[call.tok].status = "COMMITTED"
      BY <2>1, <3>1, <1>0 DEF Prep
    <3>. QED  BY <1>9, <3>1, <3>2, <3>3, <1>0, TokenRuns DEF CommitRecheck
  <2>. QED  BY <1>9, <2>1, <1>2 DEF CommitRecheck
<1>10. CASE Refuse \/ SelectActions \/ SkipAbsentTarget \/ DispatchNext \/ Verify \/ Fault
  <2>1. call \in Call /\ call.stage \in {"select", "dispatch"}
    BY <1>10, <1>0, <1>f DEF Refuse, SelectActions, SkipAbsentTarget, DispatchNext, Verify, Fault
  <2>2. /\ call'.tok = call.tok /\ call'.stage \in {"dispatch", "settle"}
        /\ chain' = chain /\ preps' = preps
    BY <1>10, <2>1
       DEF Refuse, SelectActions, SkipAbsentTarget, DispatchNext, Verify, Fault, Call
  <2>3. call.tok # NoToken => preps'[call.tok].status = "COMMITTED"
    BY <2>1, <2>2 DEF TokenInv
  <2>. QED  BY <2>2, <2>3, <1>0, TokenRuns
<1>11. CASE Settle
  <2>1. /\ call' = Free /\ chain' = Append(chain, ReceiptOf(call, call.out))
        /\ call.stage = "settle"
    BY <1>11 DEF Settle
  <2>2. ReceiptOf(call, call.out).tok = call.tok
    BY DEF ReceiptOf
  <2>3. call.tok # NoToken => preps'[call.tok].status = "COMMITTED"
    BY <2>1, <1>0 DEF TokenInv, Kept
  <2>. QED  BY <2>1, <2>2, <2>3, <1>0, TokenSettles
<1>12. CASE Environment
  <2>1. call' = call /\ chain' = chain
    BY <1>12 DEF Environment, PageMoves, BrowserDies, OfferExpires, Lapse, PreparationExpires
  <2>2. call.stage = "recheck" => preps'[call.tok].status = "PREPARED"
    <3>1. CASE preps' = preps
      BY <3>1, <1>f DEF TokenInv
    <3>2. ASSUME NEW t \in DOMAIN preps, PreparationExpires(t)
          PROVE  call.stage = "recheck" => preps'[call.tok].status = "PREPARED"
      <4>1. preps' = [preps EXCEPT ![t].expired = TRUE]
        BY <3>2 DEF PreparationExpires
      <4>2. \A u \in DOMAIN preps : preps'[u].status = preps[u].status
        BY <4>1, <1>0 DEF Prep
      <4>. QED  BY <4>2 DEF TokenInv
    <3>. QED  BY <1>12, <3>1, <3>2 DEF Environment, PageMoves, BrowserDies, OfferExpires, Lapse
  <2>. QED  BY <2>1, <2>2, <1>0, TokenStays
<1>13. CASE ExpireSession \/ FindTerminal \/ CaptureRaises \/ NestedRaises
  BY <1>13, <1>2 DEF ExpireSession, FindTerminal, CaptureRaises, NestedRaises, End
<1>14. CASE RecordExternalMutation \/ BindSignedPlan
  BY <1>14, <1>3 DEF RecordExternalMutation, BindSignedPlan
<1>15. ASSUME NEW a, NEW l, NEW to, PrepareHandoff(a, l, to) \/ CloseSession(a, l)
       PROVE TokenInv'
  BY <1>15, <1>3 DEF PrepareHandoff, CloseSession, Enter, End
<1>16. ASSUME NEW a, Observe(a) \/ ClaimHandoff(a)
       PROVE TokenInv'
  BY <1>16, <1>3 DEF Observe, ClaimHandoff
<1>. QED
  BY <1>1, <1>4, <1>5, <1>6, <1>7, <1>8, <1>9, <1>10, <1>11, <1>12, <1>13, <1>14, <1>15, <1>16
     DEF Next, AgentCall, CallStep

\* In every reachable state the tokens, the receipts and the running call agree: a
\* token named by a receipt or by a nested execution is committed.
THEOREM TokensConsistent == Spec => []TokenInv
<1>. QED  BY TokenInit, TokenNext, TypeCorrect, PTL DEF Spec

\* Whatever fails between the consumption of a token and its receipt, no second
\* execution carries that token.
THEOREM TokenConsumedOnce == Spec => []TokenAtMostOnce
<1>1. TypeOK /\ TokenInv => TokenAtMostOnce
  BY DEF TokenInv, TokenAtMostOnce, Dispatching
<1>. QED  BY <1>1, TypeCorrect, TokensConsistent, PTL

\* No step gives a consumed or invalidated token another status.
THEOREM TokensFinal == Spec => TokenFinality
<1>1. TypeOK /\ TokenInv /\ [Next]_vars =>
        [\A t \in DOMAIN preps :
            preps[t].status # "PREPARED" => preps'[t].status = preps[t].status]_vars
  BY PrepsKept DEF Kept
<1>. QED  BY <1>1, TypeCorrect, TokensConsistent, PTL DEF Spec, TokenFinality
-----------------------------------------------------------------------------
(* Control. *)

\* Held tokens name past or current epochs and no token is held twice; receipts
\* come in the order of their epochs, each produced under its own epoch's token; a
\* running call is the controller's.
ControlInv ==
    /\ \A a \in Agent : \A l \in held[a] : l <= epoch
    /\ \A a, b \in Agent : a # b => held[a] \cap held[b] = {}
    /\ \A i \in DOMAIN chain : chain[i].epoch <= epoch /\ chain[i].lease = chain[i].epoch
    /\ \A i, j \in DOMAIN chain : i < j => chain[i].epoch <= chain[j].epoch
    /\ call # Free => call.lease = epoch /\ call.agent = agent

\* The calls whose receipts a step may append: the running one, or one that the
\* controller has just entered without a token.
Calling(c) ==
    \/ call # Free /\ c = call
    \/ call = Free /\ c.lease = epoch /\ c.agent = agent /\ c.tok = NoToken /\ c.done = <<>>

\* The fields a call keeps from its entry to its end.
Same(c, d) ==
    /\ d.agent = c.agent /\ d.lease = c.lease /\ d.op = c.op
    /\ d.tok = c.tok /\ d.ref = c.ref

\* What an admission does to the call and to the chain.
LEMMA AdmissionStep ==
    ASSUME TypeOK, NEW c \in Call, Admission(c), Calling(c)
    PROVE  /\ \/ chain' = chain
              \/ call' = Free /\ chain' = Append(chain, ReceiptOf(c, "refused"))
           /\ \/ call' = Free
              \/ /\ call' \in Call /\ call' # Free /\ Same(c, call')
                 /\ call'.stage = "select" /\ call'.ver = page.ver /\ call'.done = c.done
<1>1. /\ chain' \in {chain, Append(chain, ReceiptOf(c, "refused"))}
      /\ call' \in {Free, [c EXCEPT !.stage = "select", !.ver = page.ver]}
      /\ chain' # chain => call' = Free
  BY DEF Admission
<1>2. CASE call' = [c EXCEPT !.stage = "select", !.ver = page.ver]
  <2>1. call'.stage = "select" /\ call'.ver = page.ver /\ call'.done = c.done
    BY <1>2 DEF Call
  <2>2. Same(c, call')
    BY <1>2 DEF Call, Same
  <2>3. call' \in Call
    BY <1>2 DEF TypeOK, Call, Stages
  <2>4. call' # Free
    BY <2>1 DEF Free
  <2>. QED  BY <1>1, <2>1, <2>2, <2>3, <2>4
<1>. QED  BY <1>1, <1>2

\* What every step does to the call that holds the lock and to the chain.
CallMoves ==
    \/ call' = Free
    \/ call' = call
    \/ call' # Free /\ call # Free /\ Same(call, call')
    \/ call' # Free /\ call = Free /\ call'.agent = agent /\ call'.lease = epoch

ChainGrows ==
    \/ chain' = chain
    \/ /\ call' = Free
       /\ \E c \in Call, out \in Outcomes : Calling(c) /\ chain' = Append(chain, ReceiptOf(c, out))

\* What any step does to the running call and to the receipt chain: a call moves on
\* with its caller and lease, and the chain grows only by the receipt of the running call.
LEMMA CallStepFacts == TypeOK /\ [Next]_vars => CallMoves /\ ChainGrows
<1>. SUFFICES ASSUME TypeOK, [Next]_vars PROVE CallMoves /\ ChainGrows
  OBVIOUS
<1>. USE DEF allButCall, ledger
<1>0. /\ call # Free => call \in Call
      /\ \A a \in Agent : held[a] \subseteq Nat
  BY DEF TypeOK
<1>f. Free.stage = "free" /\ Free.tok = NoToken
  BY DEF Free
<1>1. CASE call' \in {Free, call} /\ chain' = chain
  BY <1>1 DEF CallMoves, ChainGrows
<1>2. CASE UNCHANGED vars
  BY <1>1, <1>2 DEF vars
<1>3. ASSUME NEW a \in Agent, NEW l \in held[a], NEW op \in Op, PrepareBegin(a, l, op)
      PROVE CallMoves /\ ChainGrows
  <2>1. /\ chain' = chain /\ call = Free /\ a = agent /\ l = epoch
        /\ call' \in {Entered("capture", a, l, op, NoToken, NoRef), Free}
    BY <1>3 DEF PrepareBegin, Enter
  <2>. QED  BY <2>1 DEF CallMoves, ChainGrows, Entered
<1>4. ASSUME NEW a \in Agent, NEW l \in held[a], NEW t \in 1..MaxPreps, NEW op \in Op,
             CommitBegin(a, l, t, op)
      PROVE CallMoves /\ ChainGrows
  <2>1. /\ chain' = chain /\ call = Free /\ a = agent /\ l = epoch
        /\ call' \in {Entered("recheck", a, l, preps[t].op, t, NoRef), Free}
    BY <1>4 DEF CommitBegin, Enter
  <2>. QED  BY <2>1 DEF CallMoves, ChainGrows, Entered
<1>5. ASSUME NEW a \in Agent, NEW l \in held[a], NEW op \in Op, NEW ref \in Cited(obs[a]),
             ExecuteBegin(a, l, op, ref)
      PROVE CallMoves /\ ChainGrows
  <2>. DEFINE c == Entered("begin", a, l, op, NoToken, ref)
  <2>1. ref \in Ref \cup {NoRef} /\ l \in Nat
    BY <1>0, CitedTyped DEF TypeOK
  <2>2. c \in Call
    BY <2>1, EnteredTyped DEF Stages, NoToken
  <2>3. call = Free /\ a = agent /\ l = epoch /\ Admission(c)
    BY <1>5 DEF ExecuteBegin, Enter
  <2>4. Calling(c) /\ c.agent = agent /\ c.lease = epoch
    BY <2>3 DEF Calling, Entered
  <2>5. /\ \/ chain' = chain
           \/ call' = Free /\ chain' = Append(chain, ReceiptOf(c, "refused"))
        /\ call' = Free \/ (call' # Free /\ Same(c, call'))
    BY <2>2, <2>3, <2>4, AdmissionStep
  <2>6. ChainGrows
    BY <2>2, <2>4, <2>5 DEF ChainGrows, Outcomes
  <2>7. CallMoves
    BY <2>3, <2>4, <2>5 DEF CallMoves, Same
  <2>. QED  BY <2>6, <2>7
<1>6. CASE NestedBegin
  <2>1. call # Free /\ call \in Call /\ Admission(call)
    BY <1>6, <1>0, <1>f DEF NestedBegin
  <2>2. Calling(call)
    BY <2>1 DEF Calling
  <2>3. /\ \/ chain' = chain
           \/ call' = Free /\ chain' = Append(chain, ReceiptOf(call, "refused"))
        /\ call' = Free \/ (call' # Free /\ Same(call, call'))
    BY <2>1, <2>2, AdmissionStep
  <2>. QED  BY <2>1, <2>2, <2>3 DEF ChainGrows, CallMoves, Outcomes
<1>7. CASE \/ CommitRecheck \/ Refuse \/ SelectActions \/ SkipAbsentTarget
           \/ DispatchNext \/ Verify \/ Fault
  <2>1. call \in Call /\ call # Free
    BY <1>7, <1>0, <1>f
       DEF CommitRecheck, Refuse, SelectActions, SkipAbsentTarget, DispatchNext, Verify, Fault
  <2>2. /\ chain' = chain
        /\ \/ call' = Free
           \/ Same(call, call') /\ call'.stage \in {"begin", "dispatch", "settle"}
    BY ZenonT(40), <1>7, <2>1
       DEF CommitRecheck, Refuse, SelectActions, SkipAbsentTarget, DispatchNext, Verify,
           Fault, Call, Same
  <2>3. call' = Free \/ call' # Free
    OBVIOUS
  <2>. QED  BY <2>1, <2>2, <2>3 DEF CallMoves, ChainGrows
<1>8. CASE Settle
  <2>1. /\ call' = Free /\ chain' = Append(chain, ReceiptOf(call, call.out))
        /\ call # Free /\ call \in Call
    BY <1>8, <1>0, <1>f DEF Settle
  <2>2. call.out \in Outcomes
    BY <2>1 DEF Call
  <2>. QED  BY <2>1, <2>2 DEF CallMoves, ChainGrows, Calling
<1>9. CASE Environment
  BY <1>1, <1>9 DEF Environment, PageMoves, BrowserDies, OfferExpires, Lapse, PreparationExpires
<1>10. CASE \/ ExpireSession \/ FindTerminal \/ CaptureRaises \/ NestedRaises
            \/ PrepareCapture \/ RecordExternalMutation \/ BindSignedPlan
  BY <1>1, <1>10 DEF ExpireSession, FindTerminal, CaptureRaises, NestedRaises, PrepareCapture,
                     RecordExternalMutation, BindSignedPlan, End
<1>11. ASSUME NEW a, NEW l, NEW to, PrepareHandoff(a, l, to) \/ CloseSession(a, l)
       PROVE CallMoves /\ ChainGrows
  BY <1>1, <1>11 DEF PrepareHandoff, CloseSession, End
<1>12. ASSUME NEW a, Observe(a) \/ ClaimHandoff(a)
       PROVE CallMoves /\ ChainGrows
  BY <1>1, <1>12 DEF Observe, ClaimHandoff
<1>. QED
  BY <1>2, <1>3, <1>4, <1>5, <1>6, <1>7, <1>8, <1>9, <1>10, <1>11, <1>12
     DEF Next, AgentCall, CallStep

\* The first controller holds the first token (open_session).
LEMMA ControlInit == Init => ControlInv
BY DEF Init, ControlInv, Free

\* What every step does to the control of the session.
LEMMA ControlStep ==
    ASSUME TypeOK, [Next]_vars
    PROVE  \/ UNCHANGED <<agent, epoch, held>>
           \/ /\ call = Free /\ call' = Free /\ chain' = chain
              /\ epoch' = epoch + 1
              /\ \E b \in Agent : held' = [held EXCEPT ![b] = @ \cup {epoch + 1}]
<1>. USE DEF allButCall, ledger, control
<1>1. ASSUME NEW b \in Agent, ClaimHandoff(b)
      PROVE  \/ UNCHANGED <<agent, epoch, held>>
             \/ /\ call = Free /\ call' = Free /\ chain' = chain
                /\ epoch' = epoch + 1
                /\ held' = [held EXCEPT ![b] = @ \cup {epoch + 1}]
  BY <1>1 DEF ClaimHandoff
<1>2. CASE AgentCall
  BY <1>2 DEF AgentCall, PrepareBegin, CommitBegin, ExecuteBegin, PrepareHandoff, CloseSession, End
<1>3. CASE CallStep
  BY <1>3 DEF CallStep, PrepareCapture, CaptureRaises, CommitRecheck, NestedBegin, NestedRaises,
              Refuse, SelectActions, SkipAbsentTarget, DispatchNext, Verify, Fault, Settle
<1>4. CASE Environment
  BY <1>4 DEF Environment, PageMoves, BrowserDies, OfferExpires, Lapse, PreparationExpires
<1>5. CASE RecordExternalMutation \/ BindSignedPlan \/ ExpireSession \/ FindTerminal
  BY <1>5 DEF RecordExternalMutation, BindSignedPlan, ExpireSession, FindTerminal, End
<1>6. ASSUME NEW a, Observe(a)
      PROVE  UNCHANGED <<agent, epoch, held>>
  BY <1>6 DEF Observe
<1>7. CASE UNCHANGED vars
  BY <1>7 DEF vars
<1>. QED  BY <1>1, <1>2, <1>3, <1>4, <1>5, <1>6, <1>7 DEF Next

\* No step lets a superseded controller act.
LEMMA ControlNext == TypeOK /\ ControlInv /\ [Next]_vars => ControlInv'
<1>. SUFFICES ASSUME TypeOK, ControlInv, [Next]_vars PROVE ControlInv'
  OBVIOUS
<1>0. epoch \in Nat /\ chain \in Seq(Receipt) /\ held \in [Agent -> SUBSET Nat]
  BY DEF TypeOK
<1>1. CASE UNCHANGED <<agent, epoch, held>>
  <2>1. call' # Free => call'.lease = epoch /\ call'.agent = agent
    BY CallStepFacts DEF CallMoves, Same, ControlInv
  <2>2. CASE chain' = chain
    BY <1>1, <2>1, <2>2 DEF ControlInv
  <2>3. ASSUME NEW c \in Call, NEW out \in Outcomes, Calling(c),
               chain' = Append(chain, ReceiptOf(c, out))
        PROVE  ControlInv'
    <3>1. c.lease = epoch
      BY <2>3 DEF Calling, ControlInv
    <3>2. ReceiptOf(c, out).epoch = epoch /\ ReceiptOf(c, out).lease = epoch
      BY <3>1 DEF ReceiptOf
    <3>3. /\ DOMAIN chain' = DOMAIN chain \cup {Len(chain) + 1}
          /\ \A i \in DOMAIN chain : chain'[i] = chain[i] /\ i < Len(chain) + 1
          /\ chain'[Len(chain) + 1] = ReceiptOf(c, out)
      BY <2>3, <1>0
    <3>4. \A i \in DOMAIN chain' : chain'[i].epoch <= epoch /\ chain'[i].lease = chain'[i].epoch
      BY <3>2, <3>3, <1>0 DEF ControlInv
    <3>5. \A i, j \in DOMAIN chain' : i < j => chain'[i].epoch <= chain'[j].epoch
      <4>. SUFFICES ASSUME NEW i \in DOMAIN chain', NEW j \in DOMAIN chain', i < j
                    PROVE  chain'[i].epoch <= chain'[j].epoch
        OBVIOUS
      <4>1. i \in DOMAIN chain
        BY <3>3, <1>0
      <4>2. CASE j \in DOMAIN chain
        BY <4>1, <4>2, <3>3 DEF ControlInv
      <4>3. CASE j = Len(chain) + 1
        BY <4>1, <4>3, <3>2, <3>3 DEF ControlInv
      <4>. QED  BY <4>2, <4>3, <3>3
    <3>. QED  BY <1>1, <2>1, <3>4, <3>5 DEF ControlInv
  <2>. QED  BY <2>2, <2>3, CallStepFacts DEF ChainGrows
<1>2. ASSUME NEW b \in Agent, call = Free, call' = Free, chain' = chain, epoch' = epoch + 1,
             held' = [held EXCEPT ![b] = @ \cup {epoch + 1}]
      PROVE  ControlInv'
  <2>1. \A a \in Agent : held'[a] = IF a = b THEN held[b] \cup {epoch + 1} ELSE held[a]
    BY <1>2, <1>0
  <2>2. \A a \in Agent : epoch + 1 \notin held[a]
    BY <1>0 DEF ControlInv
  <2>3. \A a \in Agent : \A l \in held'[a] : l <= epoch'
    BY <1>2, <2>1, <1>0 DEF ControlInv
  <2>4. \A a, c \in Agent : a # c => held'[a] \cap held'[c] = {}
    BY <2>1, <2>2 DEF ControlInv
  <2>5. \A i \in DOMAIN chain : chain[i].epoch \in Nat
    <3>1. \A i \in DOMAIN chain : chain[i] \in Receipt
      BY <1>0
    <3>. QED  BY <3>1 DEF Receipt
  <2>6. \A i \in DOMAIN chain' : chain'[i].epoch <= epoch' /\ chain'[i].lease = chain'[i].epoch
    BY <1>2, <1>0, <2>5 DEF ControlInv
  <2>. QED  BY <1>2, <2>3, <2>4, <2>6 DEF ControlInv
<1>. QED  BY <1>1, <1>2, ControlStep

\* A controller that lost control never acts again, also when control comes back
\* to the same agent.
THEOREM SupersededController == Spec => []SupersededNeverActs
<1>1. ControlInv => SupersededNeverActs
  BY DEF ControlInv, SupersededNeverActs
<1>2. Spec => []ControlInv
  BY ControlInit, ControlNext, TypeCorrect, PTL DEF Spec
<1>. QED  BY <1>1, <1>2, PTL
-----------------------------------------------------------------------------
(* The page: a commit finds the prepared page, an operation that cites an   *)
(* observation finds the observed one.                                      *)

\* The outcome of one refresh of the monitor.
LEMMA RefreshStep ==
    ASSUME TypeOK, NEW blind \in BOOLEAN, Refresh(blind)
    PROVE  /\ Changed(blind) => /\ Arbitrated
                                /\ mutationEpoch' = mutationEpoch + 1
                                /\ seen' \in {seen, page.ver}
           /\ ~Changed(blind) => /\ mutationEpoch' = mutationEpoch /\ seen' = seen
                                 /\ Arbitrated => page.ver = seen
BY DEF Refresh, Changed, TypeOK

\* A new mutation epoch begins with no preparation left to commit.
NewEpoch ==
    /\ Arbitrated
    /\ mutationEpoch' = mutationEpoch + 1
    /\ seen' \in {seen, page.ver}
    /\ \A t \in DOMAIN preps' : preps'[t].status # "PREPARED"

SameEpoch == mutationEpoch' = mutationEpoch /\ seen' = seen

\* A refresh whose caller keeps the refreshed preparations, or retires them all, or
\* invalidates one of them.
LEMMA RefreshEpoch ==
    ASSUME TypeOK, NEW blind \in BOOLEAN, Refresh(blind),
           \/ preps' = AfterRefresh(blind)
           \/ preps' = Retired(AfterRefresh(blind))
           \/ \E t \in DOMAIN preps : preps' = Invalidate(AfterRefresh(blind), t)
    PROVE  SameEpoch \/ NewEpoch
<1>1. CASE ~Changed(blind)
  BY <1>1, RefreshStep DEF SameEpoch
<1>2. CASE Changed(blind)
  <2>1. /\ AfterRefresh(blind) \in Seq(Prep)
        /\ DOMAIN AfterRefresh(blind) = DOMAIN preps
        /\ \A t \in DOMAIN preps : AfterRefresh(blind)[t].status # "PREPARED"
    BY <1>2, KeptRefresh
  <2>2. \A t \in DOMAIN preps' : preps'[t].status # "PREPARED"
    <3>1. CASE preps' = AfterRefresh(blind)
      BY <3>1, <2>1
    <3>2. CASE preps' = Retired(AfterRefresh(blind))
      BY <3>2, <2>1, RetiredFacts
    <3>3. ASSUME NEW u \in DOMAIN preps, preps' = Invalidate(AfterRefresh(blind), u)
          PROVE  \A t \in DOMAIN preps' : preps'[t].status # "PREPARED"
      <4>1. \A t \in DOMAIN preps : AfterRefresh(blind)[t] \in Prep
        BY <2>1
      <4>. QED  BY <3>3, <2>1, <4>1 DEF Invalidate, Prep
    <3>. QED  BY <3>1, <3>2, <3>3
  <2>. QED  BY <1>2, <2>2, RefreshStep DEF NewEpoch
<1>. QED  BY <1>1, <1>2

\* A step leaves the number of preparations as it is, or records the capture of the
\* page as it is now.
Recorded ==
    /\ SameEpoch
    /\ DOMAIN preps' = DOMAIN preps \cup {Len(preps) + 1}
    /\ preps'[Len(preps) + 1].ver = page.ver
    /\ preps'[Len(preps) + 1].mutation = mutationEpoch
    /\ preps'[Len(preps) + 1].epoch = epoch
    /\ preps'[Len(preps) + 1].offered = (offer # NoOffer)
    /\ UNCHANGED control

\* What every step does to the page, the monitor and the preparations' number.
LEMMA MonitorStep ==
    ASSUME TypeOK, TokenInv, [Next]_vars
    PROVE  /\ page'.ver >= page.ver
           /\ SameEpoch \/ NewEpoch
           /\ DOMAIN preps' = DOMAIN preps \/ Recorded
<1>. USE DEF allButCall, ledger, browser, monitor, control
<1>. DEFINE Goal == /\ page'.ver >= page.ver
                    /\ SameEpoch \/ NewEpoch
                    /\ DOMAIN preps' = DOMAIN preps \/ Recorded
<1>0. /\ preps \in Seq(Prep) /\ \A t \in DOMAIN preps : preps[t] \in Prep
      /\ page.ver \in Nat /\ page \in [ver : Nat, inScope : BOOLEAN]
  BY DEF TypeOK
<1>1. CASE UNCHANGED <<page, monitor>> /\ DOMAIN preps' = DOMAIN preps
  BY <1>0, <1>1 DEF SameEpoch
<1>2. ASSUME NEW blind \in BOOLEAN, Refresh(blind), page' = page,
             \/ preps' = AfterRefresh(blind)
             \/ preps' = Retired(AfterRefresh(blind))
             \/ \E t \in DOMAIN preps : preps' = Invalidate(AfterRefresh(blind), t)
      PROVE  Goal
  <2>1. /\ AfterRefresh(blind) \in Seq(Prep)
        /\ DOMAIN AfterRefresh(blind) = DOMAIN preps
    BY KeptRefresh
  <2>2. DOMAIN preps' = DOMAIN preps
    BY <1>2, <2>1, RetiredFacts DEF Invalidate
  <2>. QED  BY <1>0, <1>2, <2>2, RefreshEpoch
<1>3. ASSUME NEW c, Admission(c), page' = page
      PROVE  Goal
  BY <1>2, <1>3 DEF Admission
<1>4. ASSUME NEW a, NEW l, NEW t, NEW op, CommitBegin(a, l, t, op)
      PROVE  Goal
  BY <1>2, <1>4 DEF CommitBegin
<1>5. ASSUME NEW a, NEW l, NEW op, PrepareBegin(a, l, op)
      PROVE  Goal
  BY <1>2, <1>5 DEF PrepareBegin
<1>6. ASSUME NEW a, NEW l, NEW to, PrepareHandoff(a, l, to) \/ CloseSession(a, l)
      PROVE  Goal
  BY <1>1, <1>2, <1>6 DEF PrepareHandoff, CloseSession, End
<1>7. ASSUME NEW b, ClaimHandoff(b)
      PROVE  Goal
  BY <1>2, <1>7 DEF ClaimHandoff
<1>8. ASSUME NEW a, NEW l, NEW op, NEW ref, ExecuteBegin(a, l, op, ref)
      PROVE  Goal
  BY <1>3, <1>8 DEF ExecuteBegin
<1>9. CASE NestedBegin
  BY <1>3, <1>9 DEF NestedBegin
<1>10. CASE PrepareCapture
  <2>1. PICK p : /\ p.ver = page.ver /\ p.mutation = mutationEpoch
                 /\ p.epoch = epoch /\ p.offered = (offer # NoOffer)
                 /\ preps' = Append(preps, p)
    BY <1>10 DEF PrepareCapture
  <2>2. /\ DOMAIN preps' = DOMAIN preps \cup {Len(preps) + 1}
        /\ preps'[Len(preps) + 1] = p
    BY <2>1, <1>0
  <2>. QED  BY <1>10, <2>1, <2>2, <1>0 DEF PrepareCapture, Recorded, SameEpoch
<1>11. CASE CommitRecheck
  BY <1>1, <1>11, <1>0 DEF CommitRecheck, Invalidate
<1>12. CASE CaptureRaises \/ NestedRaises \/ Refuse \/ SelectActions \/ SkipAbsentTarget
            \/ Verify \/ Fault
  BY <1>1, <1>12 DEF CaptureRaises, NestedRaises, Refuse, SelectActions, SkipAbsentTarget,
                     Verify, Fault
<1>13. CASE DispatchNext
  BY <1>13, <1>0 DEF DispatchNext, PageMoved, SameEpoch
<1>14. CASE Settle
  <2>1. CASE preps' = Retired(preps) /\ mutationEpoch' = mutationEpoch + 1
             /\ seen' \in {page.ver, seen} /\ Arbitrated
    BY <1>14, <2>1, <1>0, RetiredFacts DEF Settle, NewEpoch
  <2>. QED  BY <1>14, <2>1, <1>0 DEF Settle, SameEpoch
<1>15. CASE RecordExternalMutation
  BY <1>15, <1>0, RetiredFacts DEF RecordExternalMutation, NewEpoch
<1>16. CASE BindSignedPlan \/ ExpireSession \/ FindTerminal
  BY <1>1, <1>16 DEF BindSignedPlan, ExpireSession, FindTerminal, End
<1>17. ASSUME NEW a, Observe(a)
       PROVE  Goal
  BY <1>0, <1>17 DEF Observe, SameEpoch
<1>18. CASE PageMoves
  BY <1>18, <1>0 DEF PageMoves, PageMoved, SameEpoch
<1>19. ASSUME NEW d, BrowserDies \/ OfferExpires \/ Lapse(d)
       PROVE  Goal
  BY <1>1, <1>19 DEF BrowserDies, OfferExpires, Lapse
<1>20. ASSUME NEW t \in DOMAIN preps, PreparationExpires(t)
       PROVE  Goal
  BY <1>1, <1>20, <1>0 DEF PreparationExpires
<1>21. CASE UNCHANGED vars
  BY <1>1, <1>21 DEF vars
<1>. QED
  BY <1>3, <1>4, <1>5, <1>6, <1>7, <1>8, <1>9, <1>10, <1>11, <1>12, <1>13, <1>14, <1>15,
     <1>16, <1>17, <1>18, <1>19, <1>20, <1>21
     DEF Next, AgentCall, CallStep, Environment
-----------------------------------------------------------------------------
\* A call that passed the guards in front of its dispatch in this step.
Admitted(c, blind) ==
    /\ \/ call.stage = "begin" /\ c = call
       \/ /\ call = Free /\ c.tok = NoToken /\ c.done = <<>> /\ c.todo = <<>>
          /\ \E a \in Agent : c.ref \in Cited(obs[a])
    /\ Refresh(blind)
    /\ ~StaleRef(c.ref)
    /\ ~MutationRejects(blind, c.ref # NoRef)
    /\ NeedsPreparation(c.op) => c.tok # NoToken
    /\ Same(c, call') /\ call'.ver = page.ver /\ call'.stage = "select"
    /\ call'.done = c.done /\ call'.todo = c.todo

\* An admission admits the call or ends it.
LEMMA AdmissionAdmits ==
    ASSUME NEW c \in Call, Admission(c),
           \/ call.stage = "begin" /\ c = call
           \/ /\ call = Free /\ c.tok = NoToken /\ c.done = <<>> /\ c.todo = <<>>
              /\ \E a \in Agent : c.ref \in Cited(obs[a])
    PROVE  call' = Free \/ \E blind \in BOOLEAN : Admitted(c, blind)
<1>1. PICK blind \in BOOLEAN :
        /\ Refresh(blind)
        /\ \/ call' = Free
           \/ /\ call' = [c EXCEPT !.stage = "select", !.ver = page.ver]
              /\ ~StaleRef(c.ref)
              /\ ~MutationRejects(blind, c.ref # NoRef)
              /\ NeedsPreparation(c.op) => c.tok # NoToken
  BY DEF Admission
<1>2. CASE call' = [c EXCEPT !.stage = "select", !.ver = page.ver]
  <2>1. /\ Same(c, call') /\ call'.ver = page.ver /\ call'.stage = "select"
        /\ call'.done = c.done /\ call'.todo = c.todo
    BY <1>2 DEF Call, Same
  <2>2. call' # Free
    BY <2>1 DEF Free
  <2>3. Admitted(c, blind)
    BY <1>1, <2>1, <2>2 DEF Admitted
  <2>. QED  BY <2>3
<1>. QED  BY <1>1, <1>2

\* A call that dispatches does so since an earlier step, or was just admitted; a
\* commit that is about to begin its execution has just compared the page.
LEMMA DispatchStep ==
    ASSUME TypeOK, [Next]_vars
    PROVE  /\ Dispatching' => \/ Dispatching /\ Same(call, call') /\ call'.ver = call.ver
                              \/ \E c \in Call, blind \in BOOLEAN : Admitted(c, blind)
           /\ call'.stage = "begin" =>
                 \/ call.stage = "begin" /\ call' = call
                 \/ /\ call.stage = "recheck" /\ call'.tok = call.tok /\ call'.ref = call.ref
                    /\ page.ver = preps[call.tok].ver
<1>. USE DEF allButCall, ledger, Dispatching
<1>. DEFINE Goal ==
       /\ Dispatching' => \/ Dispatching /\ Same(call, call') /\ call'.ver = call.ver
                          \/ \E c \in Call, blind \in BOOLEAN : Admitted(c, blind)
       /\ call'.stage = "begin" =>
             \/ call.stage = "begin" /\ call' = call
             \/ /\ call.stage = "recheck" /\ call'.tok = call.tok /\ call'.ref = call.ref
                /\ page.ver = preps[call.tok].ver
<1>0. /\ call # Free => call \in Call
      /\ \A a \in Agent : held[a] \subseteq Nat
  BY DEF TypeOK
<1>f. Free.stage = "free" /\ Free.tok = NoToken
  BY DEF Free
<1>1. CASE call' = call
  BY <1>1 DEF Same
<1>2. CASE call'.stage \notin {"begin", "select", "dispatch", "settle"}
  BY <1>2
<1>3. ASSUME NEW c \in Call, Admission(c),
             \/ call.stage = "begin" /\ c = call
             \/ /\ call = Free /\ c.tok = NoToken /\ c.done = <<>> /\ c.todo = <<>>
                /\ \E a \in Agent : c.ref \in Cited(obs[a])
      PROVE  Goal
  BY <1>2, <1>3, <1>f, AdmissionAdmits DEF Admitted
<1>4. ASSUME NEW a \in Agent, NEW l \in held[a], NEW op \in Op, PrepareBegin(a, l, op)
      PROVE  Goal
  BY <1>2, <1>4, <1>f DEF PrepareBegin, Entered
<1>5. ASSUME NEW a \in Agent, NEW l \in held[a], NEW t \in 1..MaxPreps, NEW op \in Op,
             CommitBegin(a, l, t, op)
      PROVE  Goal
  BY <1>2, <1>5, <1>f DEF CommitBegin, Entered
<1>6. ASSUME NEW a \in Agent, NEW l \in held[a], NEW op \in Op, NEW ref \in Cited(obs[a]),
             ExecuteBegin(a, l, op, ref)
      PROVE  Goal
  <2>. DEFINE c == Entered("begin", a, l, op, NoToken, ref)
  <2>1. ref \in Ref \cup {NoRef} /\ l \in Nat
    BY <1>0, CitedTyped DEF TypeOK
  <2>2. c \in Call
    BY <2>1, EnteredTyped DEF Stages, NoToken
  <2>3. /\ c.tok = NoToken /\ c.done = <<>> /\ c.todo = <<>>
        /\ \E b \in Agent : c.ref \in Cited(obs[b])
    BY DEF Entered
  <2>4. call = Free /\ Admission(c)
    BY <1>6 DEF ExecuteBegin, Enter
  <2>. QED  BY <2>2, <2>3, <2>4, <1>3
<1>7. CASE NestedBegin
  BY <1>3, <1>7, <1>0, <1>f DEF NestedBegin
<1>8. CASE CommitRecheck
  <2>1. call \in Call
    BY <1>8, <1>0, <1>f DEF CommitRecheck
  <2>2. CASE call' = [call EXCEPT !.stage = "begin"]
    <3>1. call'.stage = "begin" /\ call'.tok = call.tok /\ call'.ref = call.ref
      BY <2>1, <2>2 DEF Call
    <3>2. call' # Free
      BY <3>1, <1>f
    <3>. QED  BY <1>8, <3>1, <3>2 DEF CommitRecheck
  <2>. QED  BY <1>8, <2>2, <1>2, <1>f DEF CommitRecheck
<1>9. CASE Refuse \/ SelectActions \/ SkipAbsentTarget \/ DispatchNext \/ Verify \/ Fault
  <2>1. call \in Call /\ call.stage \in {"select", "dispatch"}
    BY <1>9, <1>0, <1>f DEF Refuse, SelectActions, SkipAbsentTarget, DispatchNext, Verify, Fault
  <2>2. Same(call, call') /\ call'.ver = call.ver /\ call'.stage \in {"dispatch", "settle"}
    BY ZenonT(40), <1>9, <2>1
       DEF Refuse, SelectActions, SkipAbsentTarget, DispatchNext, Verify, Fault, Call, Same
  <2>. QED  BY <2>1, <2>2
<1>10. CASE call' = Free
  BY <1>2, <1>10, <1>f
<1>11. CASE Environment
  BY <1>1, <1>11 DEF Environment, PageMoves, BrowserDies, OfferExpires, Lapse, PreparationExpires
<1>12. CASE \/ PrepareCapture \/ CaptureRaises \/ NestedRaises \/ Settle
            \/ ExpireSession \/ FindTerminal \/ RecordExternalMutation \/ BindSignedPlan
  BY <1>1, <1>10, <1>12 DEF PrepareCapture, CaptureRaises, NestedRaises, Settle, ExpireSession,
     FindTerminal, RecordExternalMutation, BindSignedPlan
<1>13. ASSUME NEW a, NEW l, NEW to, PrepareHandoff(a, l, to) \/ CloseSession(a, l)
       PROVE  Goal
  BY <1>1, <1>13 DEF PrepareHandoff, CloseSession
<1>14. ASSUME NEW a, Observe(a) \/ ClaimHandoff(a)
       PROVE  Goal
  BY <1>1, <1>14 DEF Observe, ClaimHandoff
<1>15. CASE UNCHANGED vars
  BY <1>1, <1>15 DEF vars
<1>. QED
  BY <1>4, <1>5, <1>6, <1>7, <1>8, <1>9, <1>11, <1>12, <1>13, <1>14, <1>15
     DEF Next, AgentCall, CallStep
-----------------------------------------------------------------------------
\* The monitor is never ahead of the page; a preparation that can still be committed
\* was captured in this mutation epoch, after the monitor's reading; and a commit
\* carries the revision of its preparation into its dispatch.
PageInv ==
    Arbitrated =>
    /\ seen <= page.ver
    /\ \A t \in DOMAIN preps :
          /\ preps[t].ver <= page.ver
          /\ preps[t].status = "PREPARED" =>
                preps[t].mutation = mutationEpoch /\ seen <= preps[t].ver
    /\ call.stage = "begin" => seen <= preps[call.tok].ver
    /\ Dispatching /\ call.tok # NoToken => call.ver = preps[call.tok].ver

\* Observations are never ahead of the session, and one of this mutation epoch was
\* made after the monitor's reading.  A commit carries no reference.
RefInv ==
    /\ call.stage = "begin" => call.ref = NoRef
    /\ call.stage = "recheck" => call.ref = NoRef
    /\ Arbitrated =>
        /\ \A a \in Agent : obs[a] # NoRef =>
              /\ obs[a].mutation <= mutationEpoch
              /\ obs[a].ver <= page.ver
              /\ obs[a].mutation = mutationEpoch => seen <= obs[a].ver
        /\ Dispatching /\ call.ref # NoRef =>
              /\ call.ref.mutation # NoEpoch => call.ref.ver = call.ver
              /\ call.ref.control # NoEpoch => call.ref.control = epoch

\* A new session has no call, no preparation and no observation (open_session).
LEMMA PageInit == Init => PageInv /\ RefInv
BY DEF Init, PageInv, RefInv, Free, Dispatching, NoToken

\* In an arbitrated session an admitted call has read the page the monitor saw,
\* unless its epoch is new and it cites a fresh observation.
LEMMA AdmittedPage ==
    ASSUME TypeOK, NEW c \in Call, NEW blind \in BOOLEAN, Admitted(c, blind), Arbitrated
    PROVE  \/ page.ver = seen /\ mutationEpoch' = mutationEpoch
           \/ c.ref # NoRef /\ mutationEpoch' = mutationEpoch + 1
<1>1. Refresh(blind) /\ ~MutationRejects(blind, c.ref # NoRef)
  BY DEF Admitted
<1>2. CASE Changed(blind)
  BY <1>1, <1>2, RefreshStep DEF MutationRejects
<1>3. CASE ~Changed(blind)
  BY <1>1, <1>3, RefreshStep
<1>. QED  BY <1>2, <1>3

\* Between the comparison of a commit and its nested execution nobody reads the
\* monitor.
LEMMA BeginKeepsMonitor ==
    ASSUME TypeOK, [Next]_vars, call'.stage = "begin"
    PROVE  SameEpoch
<1>. USE DEF allButCall, ledger, monitor
<1>f. Free.stage = "free"
  BY DEF Free
<1>1. CASE UNCHANGED monitor
  BY <1>1 DEF SameEpoch
<1>2. CASE call' = Free \/ call'.stage \in {"capture", "recheck", "select"}
  BY <1>2, <1>f
<1>3. ASSUME NEW a \in Agent, NEW l \in held[a], NEW op \in Op,
             \/ PrepareBegin(a, l, op)
             \/ \E t \in 1..MaxPreps : CommitBegin(a, l, t, op)
      PROVE  SameEpoch
  BY <1>2, <1>3, <1>f DEF PrepareBegin, CommitBegin, Entered
<1>4. ASSUME NEW c \in Call, Admission(c)
      PROVE  SameEpoch
  <2>1. call' \in {Free, [c EXCEPT !.stage = "select", !.ver = page.ver]}
    BY <1>4 DEF Admission
  <2>. QED  BY <2>1, <1>2 DEF Call
<1>5. ASSUME NEW a \in Agent, NEW l \in held[a], NEW op \in Op, NEW ref \in Cited(obs[a]),
             ExecuteBegin(a, l, op, ref)
      PROVE  SameEpoch
  <2>1. Entered("begin", a, l, op, NoToken, ref) \in Call
    <3>1. ref \in Ref \cup {NoRef} /\ l \in Nat
      BY CitedTyped DEF TypeOK
    <3>. QED  BY <3>1, EnteredTyped DEF Stages, NoToken
  <2>. QED  BY <1>4, <1>5, <2>1 DEF ExecuteBegin
<1>6. CASE NestedBegin
  BY <1>4, <1>6, <1>f DEF NestedBegin, TypeOK
<1>7. CASE \/ PrepareCapture \/ CaptureRaises \/ CommitRecheck \/ NestedRaises \/ Refuse
           \/ SelectActions \/ SkipAbsentTarget \/ DispatchNext \/ Verify \/ Fault \/ Settle
  BY <1>1, <1>2, <1>7
     DEF PrepareCapture, CaptureRaises, CommitRecheck, NestedRaises, Refuse, SelectActions,
         SkipAbsentTarget, DispatchNext, Verify, Fault, Settle
<1>8. CASE Environment
  BY <1>1, <1>8 DEF Environment, PageMoves, BrowserDies, OfferExpires, Lapse, PreparationExpires
<1>9. CASE \/ RecordExternalMutation \/ BindSignedPlan \/ ExpireSession \/ FindTerminal
  BY <1>1, <1>2, <1>9
     DEF RecordExternalMutation, BindSignedPlan, ExpireSession, FindTerminal
<1>10. ASSUME NEW a, NEW l, NEW to, PrepareHandoff(a, l, to) \/ CloseSession(a, l)
       PROVE  SameEpoch
  BY <1>2, <1>10 DEF PrepareHandoff, CloseSession, Enter
<1>11. ASSUME NEW a, Observe(a) \/ ClaimHandoff(a)
       PROVE  SameEpoch
  BY <1>2, <1>11 DEF Observe, ClaimHandoff
<1>12. CASE UNCHANGED vars
  BY <1>1, <1>12 DEF vars
<1>. QED
  BY <1>3, <1>5, <1>6, <1>7, <1>8, <1>9, <1>10, <1>11, <1>12 DEF Next, AgentCall, CallStep

\* The page of a commit in every step.
LEMMA PageNext == TypeOK /\ TokenInv /\ RefInv /\ PageInv /\ [Next]_vars => PageInv'
<1>. SUFFICES ASSUME TypeOK, TokenInv, RefInv, PageInv, [Next]_vars, Arbitrated
              PROVE  PageInv'
  BY DEF PageInv, Arbitrated
<1>0. /\ page.ver \in Nat /\ seen \in Nat /\ mutationEpoch \in Nat
      /\ preps \in Seq(Prep) /\ \A t \in DOMAIN preps : preps[t].ver \in Nat
  <2>1. preps \in Seq(Prep) => \A t \in DOMAIN preps : preps[t] \in Prep
    OBVIOUS
  <2>. QED  BY <2>1 DEF TypeOK, Prep
<1>p. page'.ver \in Nat
  BY NextTyped DEF TypeOK
<1>1. /\ page'.ver >= page.ver
      /\ SameEpoch \/ NewEpoch
      /\ DOMAIN preps' = DOMAIN preps \/ Recorded
      /\ Kept(preps, preps')
  BY MonitorStep, PrepsKept
<1>2. seen' <= page'.ver
  BY <1>0, <1>p, <1>1 DEF SameEpoch, NewEpoch, PageInv
<1>3. ASSUME NEW t \in DOMAIN preps'
      PROVE  /\ preps'[t].ver <= page'.ver
             /\ preps'[t].status = "PREPARED" =>
                   preps'[t].mutation = mutationEpoch' /\ seen' <= preps'[t].ver
  <2>1. CASE t \in DOMAIN preps
    <3>1. /\ preps'[t].ver = preps[t].ver /\ preps'[t].mutation = preps[t].mutation
          /\ preps'[t].status = "PREPARED" => preps[t].status = "PREPARED"
      BY <1>1, <2>1 DEF Kept
    <3>2. preps'[t].ver <= page'.ver
      BY <3>1, <2>1, <1>0, <1>p, <1>1 DEF PageInv
    <3>3. CASE preps'[t].status = "PREPARED"
      <4>1. SameEpoch
        BY <3>3, <1>1 DEF NewEpoch
      <4>. QED  BY <4>1, <3>1, <3>2, <3>3, <2>1 DEF PageInv, SameEpoch
    <3>. QED  BY <3>2, <3>3
  <2>2. CASE t \notin DOMAIN preps
    <3>1. /\ SameEpoch
          /\ preps'[t].ver = page.ver /\ preps'[t].mutation = mutationEpoch
      BY <2>2, <1>1 DEF Recorded
    <3>. QED  BY <3>1, <1>0, <1>p, <1>1 DEF SameEpoch, PageInv
  <2>. QED  BY <2>1, <2>2
<1>4. /\ call.stage = "recheck" => call.tok \in DOMAIN preps /\ preps[call.tok].status = "PREPARED"
      /\ call.stage = "begin" => call.tok \in DOMAIN preps
      /\ call.tok # NoToken => call.tok \in DOMAIN preps
  BY DEF TokenInv
<1>5. call'.stage = "begin" => seen' <= preps'[call'.tok].ver
  <2>. SUFFICES ASSUME call'.stage = "begin" PROVE seen' <= preps'[call'.tok].ver
    OBVIOUS
  <2>1. /\ call'.tok = call.tok /\ call.stage \in {"recheck", "begin"}
        /\ preps'[call.tok].ver = preps[call.tok].ver
    BY DispatchStep, <1>1, <1>4 DEF Kept
  <2>2. seen <= preps[call.tok].ver
    BY <2>1, <1>4 DEF PageInv
  <2>3. SameEpoch
    BY BeginKeepsMonitor
  <2>. QED  BY <2>1, <2>2, <2>3 DEF SameEpoch
<1>6. (Dispatching /\ call.tok # NoToken)' => call'.ver = preps'[call'.tok].ver
  <2>. SUFFICES ASSUME Dispatching', call'.tok # NoToken PROVE call'.ver = preps'[call'.tok].ver
    OBVIOUS
  <2>1. CASE Dispatching /\ Same(call, call') /\ call'.ver = call.ver
    BY <2>1, <1>1, <1>4 DEF Same, Kept, PageInv
  <2>2. ASSUME NEW c \in Call, NEW blind \in BOOLEAN, Admitted(c, blind)
        PROVE  call'.ver = preps'[call'.tok].ver
    <3>1. c = call /\ call.stage = "begin" /\ call'.tok = call.tok /\ call'.ver = page.ver
      BY <2>2 DEF Admitted, Same
    <3>2. c.ref = NoRef
      BY <3>1 DEF RefInv
    <3>3. page.ver = seen
      BY <2>2, <3>2, AdmittedPage
    <3>4. preps[call.tok].ver = page.ver
      BY <3>1, <3>3, <1>0, <1>4 DEF PageInv
    <3>. QED  BY <3>1, <3>4, <1>1, <1>4 DEF Kept
  <2>. QED  BY <2>1, <2>2, DispatchStep
<1>. QED  BY <1>2, <1>3, <1>5, <1>6 DEF PageInv

\* A commit carries no reference, from its first check on.
LEMMA RecheckRef ==
    ASSUME TypeOK, [Next]_vars, call'.stage = "recheck"
    PROVE  call'.ref = NoRef \/ (call.stage = "recheck" /\ call' = call)
<1>. USE DEF allButCall
<1>f. Free.stage = "free" /\ (call # Free => call \in Call)
  BY DEF Free, TypeOK
<1>1. CASE call' = call
  BY <1>1
<1>2. CASE call' = Free \/ call'.stage \in {"capture", "begin", "select", "dispatch", "settle"}
  BY <1>2, <1>f
<1>3. ASSUME NEW a \in Agent, NEW l \in held[a], NEW op \in Op, PrepareBegin(a, l, op)
      PROVE  call'.stage \in {"capture", "free"}
  BY <1>3, <1>f DEF PrepareBegin, Entered
<1>4. ASSUME NEW a \in Agent, NEW l \in held[a], NEW t \in 1..MaxPreps, NEW op \in Op,
             CommitBegin(a, l, t, op)
      PROVE  call'.ref = NoRef
  BY <1>4, <1>f DEF CommitBegin, Entered
<1>5. ASSUME NEW c \in Call, Admission(c)
      PROVE  call'.stage \in {"free", "select"}
  <2>1. call' \in {Free, [c EXCEPT !.stage = "select", !.ver = page.ver]}
    BY <1>5 DEF Admission
  <2>. QED  BY <2>1, <1>f DEF Call
<1>6. ASSUME NEW a \in Agent, NEW l \in held[a], NEW op \in Op, NEW ref \in Cited(obs[a]),
             ExecuteBegin(a, l, op, ref)
      PROVE  call'.stage \in {"free", "select"}
  <2>1. Entered("begin", a, l, op, NoToken, ref) \in Call
    <3>1. ref \in Ref \cup {NoRef} /\ l \in Nat
      BY CitedTyped DEF TypeOK
    <3>. QED  BY <3>1, EnteredTyped DEF Stages, NoToken
  <2>. QED  BY <1>5, <1>6, <2>1 DEF ExecuteBegin
<1>7. CASE NestedBegin
  BY <1>2, <1>5, <1>7, <1>f DEF NestedBegin
<1>8. CASE CommitRecheck \/ Refuse \/ SelectActions \/ SkipAbsentTarget \/ DispatchNext
           \/ Verify \/ Fault
  <2>1. call \in Call
    BY <1>8, <1>f
       DEF CommitRecheck, Refuse, SelectActions, SkipAbsentTarget, DispatchNext, Verify, Fault
  <2>. QED
    BY <1>2, <1>8, <2>1, <1>f
       DEF CommitRecheck, Refuse, SelectActions, SkipAbsentTarget, DispatchNext, Verify, Fault, Call
<1>9. CASE Environment
  BY <1>1, <1>9 DEF Environment, PageMoves, BrowserDies, OfferExpires, Lapse, PreparationExpires
<1>10. CASE \/ PrepareCapture \/ CaptureRaises \/ NestedRaises \/ Settle
            \/ ExpireSession \/ FindTerminal \/ RecordExternalMutation \/ BindSignedPlan
  BY <1>1, <1>2, <1>10 DEF PrepareCapture, CaptureRaises, NestedRaises, Settle, ExpireSession,
     FindTerminal, RecordExternalMutation, BindSignedPlan
<1>11. ASSUME NEW a, NEW l, NEW to, PrepareHandoff(a, l, to) \/ CloseSession(a, l)
       PROVE  call' = call
  BY <1>11 DEF PrepareHandoff, CloseSession
<1>12. ASSUME NEW a, Observe(a) \/ ClaimHandoff(a)
       PROVE  call' = call
  BY <1>12 DEF Observe, ClaimHandoff
<1>13. CASE UNCHANGED vars
  BY <1>1, <1>13 DEF vars
<1>. QED
  BY <1>1, <1>f, <1>3, <1>4, <1>6, <1>7, <1>8, <1>9, <1>10, <1>11, <1>12, <1>13
     DEF Next, AgentCall, CallStep

\* What every step does to the references that agents keep.
LEMMA ObserveStep ==
    ASSUME TypeOK, [Next]_vars
    PROVE  \/ obs' = obs
           \/ /\ UNCHANGED <<epoch, call, mutationEpoch, seen>>
              /\ page' = page
              /\ \E a \in Agent : obs' = [obs EXCEPT ![a] =
                     [control |-> epoch, mutation |-> mutationEpoch, ver |-> page.ver]]
<1>. USE DEF allButCall, ledger, monitor, browser, control
<1>1. ASSUME NEW a \in Agent, Observe(a)
      PROVE  /\ UNCHANGED <<epoch, call, mutationEpoch, seen>>
             /\ page' = page
             /\ obs' = [obs EXCEPT ![a] =
                    [control |-> epoch, mutation |-> mutationEpoch, ver |-> page.ver]]
  BY <1>1 DEF Observe
<1>2. CASE AgentCall
  BY <1>2 DEF AgentCall, PrepareBegin, CommitBegin, ExecuteBegin, PrepareHandoff, CloseSession, End
<1>3. CASE CallStep
  BY <1>3 DEF CallStep, PrepareCapture, CaptureRaises, CommitRecheck, NestedBegin, NestedRaises,
              Refuse, SelectActions, SkipAbsentTarget, DispatchNext, Verify, Fault, Settle
<1>4. CASE Environment
  BY <1>4 DEF Environment, PageMoves, BrowserDies, OfferExpires, Lapse, PreparationExpires
<1>5. ASSUME NEW b,
             \/ RecordExternalMutation \/ BindSignedPlan \/ ExpireSession \/ FindTerminal
             \/ ClaimHandoff(b)
      PROVE  obs' = obs
  BY <1>5 DEF RecordExternalMutation, BindSignedPlan, ExpireSession, FindTerminal, End, ClaimHandoff
<1>6. CASE UNCHANGED vars
  BY <1>6 DEF vars
<1>. QED  BY <1>1, <1>2, <1>3, <1>4, <1>5, <1>6, BoundsAssumption DEF Next

\* References in every step.
LEMMA RefNext == TypeOK /\ TokenInv /\ PageInv /\ RefInv /\ [Next]_vars => RefInv'
<1>. SUFFICES ASSUME TypeOK, TokenInv, PageInv, RefInv, [Next]_vars PROVE RefInv'
  OBVIOUS
<1>0. /\ page.ver \in Nat /\ seen \in Nat /\ mutationEpoch \in Nat /\ epoch \in Nat
      /\ obs \in [Agent -> Observed \cup {NoRef}]
      /\ call # Free => call \in Call
  BY DEF TypeOK
<1>o. ASSUME NEW a \in Agent, obs[a] # NoRef
      PROVE  obs[a].mutation \in Nat /\ obs[a].ver \in Nat
  BY <1>0, <1>o DEF Observed
<1>p. page'.ver \in Nat /\ mutationEpoch' \in Nat /\ seen' \in Nat
  BY NextTyped DEF TypeOK
<1>1. call'.stage = "begin" => call'.ref = NoRef
  BY DispatchStep DEF RefInv
<1>2. call'.stage = "recheck" => call'.ref = NoRef
  BY RecheckRef DEF RefInv
<1>3. ASSUME Arbitrated
      PROVE  \A a \in Agent : obs'[a] # NoRef =>
                /\ obs'[a].mutation <= mutationEpoch'
                /\ obs'[a].ver <= page'.ver
                /\ obs'[a].mutation = mutationEpoch' => seen' <= obs'[a].ver
  <2>1. /\ page'.ver >= page.ver
        /\ SameEpoch \/ NewEpoch
    BY MonitorStep
  <2>2. ASSUME NEW a \in Agent, obs[a] # NoRef
        PROVE  /\ obs[a].mutation <= mutationEpoch'
               /\ obs[a].ver <= page'.ver
               /\ obs[a].mutation = mutationEpoch' => seen' <= obs[a].ver
    <3>1. /\ obs[a].mutation <= mutationEpoch
          /\ obs[a].ver <= page.ver
          /\ obs[a].mutation = mutationEpoch => seen <= obs[a].ver
      BY <1>3, <2>2 DEF RefInv
    <3>2. obs[a].mutation \in Nat /\ obs[a].ver \in Nat
      BY <1>o, <2>2
    <3>3. CASE SameEpoch
      BY <3>1, <3>2, <3>3, <2>1, <1>0, <1>p DEF SameEpoch
    <3>4. CASE NewEpoch
      BY <3>1, <3>2, <3>4, <2>1, <1>0, <1>p DEF NewEpoch
    <3>. QED  BY <3>3, <3>4, <2>1
  <2>3. CASE obs' = obs
    BY <2>2, <2>3
  <2>4. ASSUME NEW b \in Agent,
               UNCHANGED <<epoch, call, mutationEpoch, seen>>, page' = page,
               obs' = [obs EXCEPT ![b] =
                   [control |-> epoch, mutation |-> mutationEpoch, ver |-> page.ver]]
        PROVE  \A a \in Agent : obs'[a] # NoRef =>
                  /\ obs'[a].mutation <= mutationEpoch'
                  /\ obs'[a].ver <= page'.ver
                  /\ obs'[a].mutation = mutationEpoch' => seen' <= obs'[a].ver
    <3>1. seen <= page.ver
      BY <1>3 DEF PageInv
    <3>2. \A a \in Agent : a # b => obs'[a] = obs[a]
      BY <2>4, <1>0
    <3>3. obs'[b] = [control |-> epoch, mutation |-> mutationEpoch, ver |-> page.ver]
      BY <2>4, <1>0
    <3>. QED  BY <3>1, <3>2, <3>3, <2>2, <2>4, <1>0
  <2>. QED  BY <2>3, <2>4, ObserveStep
<1>4. ASSUME Arbitrated, Dispatching', call'.ref # NoRef
      PROVE  /\ call'.ref.mutation # NoEpoch => call'.ref.ver = call'.ver
             /\ call'.ref.control # NoEpoch => call'.ref.control = epoch'
  <2>1. epoch' = epoch
    <3>1. call' # Free
      BY <1>4 DEF Dispatching, Free
    <3>. QED  BY <3>1, ControlStep
  <2>2. CASE Dispatching /\ Same(call, call') /\ call'.ver = call.ver
    BY <1>4, <2>1, <2>2 DEF Same, RefInv
  <2>3. ASSUME NEW c \in Call, NEW blind \in BOOLEAN, Admitted(c, blind)
        PROVE  /\ call'.ref.mutation # NoEpoch => call'.ref.ver = call'.ver
               /\ call'.ref.control # NoEpoch => call'.ref.control = epoch
    <3>1. call'.ref = c.ref /\ call'.ver = page.ver /\ c.ref # NoRef
      BY <1>4, <2>3 DEF Admitted, Same
    <3>2. call.stage # "begin" \/ c # call
      BY <3>1 DEF RefInv
    <3>3. PICK a \in Agent : c.ref \in Cited(obs[a])
      BY <2>3, <3>2 DEF Admitted
    <3>4. /\ obs[a] \in Observed /\ obs[a] # NoRef
          /\ c.ref.ver = obs[a].ver
          /\ c.ref.mutation \in {obs[a].mutation, NoEpoch}
      <4>1. obs[a] \in Observed \cup {NoRef}
        BY <1>0
      <4>2. obs[a] \in Observed
        BY <3>1, <3>3, <4>1, CitedTyped
      <4>3. obs[a] # NoRef
        BY <4>2 DEF Observed, NoRef
      <4>. QED  BY <3>1, <3>3, <4>1, <4>2, <4>3, CitedTyped
    <3>5. /\ c.ref.control # NoEpoch => c.ref.control = epoch
          /\ c.ref.mutation # NoEpoch => c.ref.mutation = mutationEpoch'
      BY <2>3 DEF Admitted, StaleRef
    <3>6. ASSUME c.ref.mutation # NoEpoch
          PROVE  obs[a].ver = page.ver
      <4>1. obs[a].mutation = mutationEpoch'
        BY <3>4, <3>5, <3>6
      <4>2. /\ obs[a].mutation <= mutationEpoch
            /\ obs[a].ver <= page.ver
            /\ obs[a].mutation = mutationEpoch => seen <= obs[a].ver
            /\ obs[a].mutation \in Nat /\ obs[a].ver \in Nat
        BY <1>4, <3>4, <1>o DEF RefInv
      <4>3. page.ver = seen /\ mutationEpoch' = mutationEpoch
        BY <1>4, <2>3, <4>1, <4>2, <1>0, AdmittedPage
      <4>. QED  BY <4>1, <4>2, <4>3, <1>0
    <3>. QED  BY <3>1, <3>4, <3>5, <3>6
  <2>. QED  BY <1>4, <2>1, <2>2, <2>3, DispatchStep
<1>. QED  BY <1>1, <1>2, <1>3, <1>4 DEF RefInv, Arbitrated

\* In every reachable state the token, page and reference invariants hold: what the
\* monitor saw, what was prepared and what was cited agree with the page in front of a dispatch.
THEOREM PageConsistent == Spec => [](TokenInv /\ PageInv /\ RefInv)
<1>1. TypeOK /\ TokenInv /\ PageInv /\ RefInv /\ [Next]_vars => (PageInv /\ RefInv)'
  BY PageNext, RefNext
<1>. QED  BY <1>1, PageInit, TypeCorrect, TokensConsistent, PTL DEF Spec

\* A commit reaches its dispatch only on the page that was prepared.
THEOREM CommitsPreparedPage == Spec => []CommitOnPreparedPage
<1>1. PageInv => CommitOnPreparedPage
  BY DEF PageInv, CommitOnPreparedPage
<1>. QED  BY <1>1, PageConsistent, PTL

\* An operation that cites an observation with its epochs is dispatched on the observed
\* page, under the control epoch of the observation: execute_operation compares each
\* epoch the reference has.
THEOREM ReferencesCurrent == Spec => []ReferenceStillCurrent
<1>1. RefInv => ReferenceStillCurrent
  BY DEF RefInv, ReferenceStillCurrent
<1>. QED  BY <1>1, PageConsistent, PTL

\* No preparation outlives the mutation epoch it was captured in.
THEOREM PreparationsCurrent == Spec => []PreparedIsCurrent
<1>1. PageInv => PreparedIsCurrent
  BY DEF PageInv, PreparedIsCurrent
<1>. QED  BY <1>1, PageConsistent, PTL
-----------------------------------------------------------------------------
(* Commits. *)

\* A token stands for the operation it was prepared for; an operation without a
\* branching guard dispatches nothing but its own action, and a consequential one
\* only with a token; the receipts say so.
CommitInv ==
    /\ call.tok # NoToken => preps[call.tok].op = call.op
    /\ ~Dispatching => call.done = <<>> /\ call.todo = <<>>
    /\ Dispatching /\ ~Guarded(call.op) =>
          /\ ActionsOf(call.done) \cup ActionsOf(call.todo) \subseteq {Primary[call.op]}
          /\ Primary[call.op] \in Consequential => call.tok # NoToken
    /\ ConsequentialOnlyByCommit

\* A new session has no receipt and no call in progress (open_session).
LEMMA CommitInit == Init => CommitInv
BY DEF Init, CommitInv, Free, Dispatching, NoToken, ConsequentialOnlyByCommit

\* An operation that dispatched nothing has no actions.
LEMMA ActionsOfEmpty == ActionsOf(<<>>) = {}
BY DEF ActionsOf

\* One more action in front of, or taken off, a sequence.
LEMMA ActionsOfSteps ==
    ASSUME NEW s \in Seq(ActionType), NEW x \in ActionType
    PROVE  /\ ActionsOf(Append(s, x)) = ActionsOf(s) \cup {x}
           /\ s # <<>> => Head(s) \in ActionsOf(s) /\ ActionsOf(Tail(s)) \subseteq ActionsOf(s)
<1>1. /\ DOMAIN Append(s, x) = DOMAIN s \cup {Len(s) + 1}
      /\ \A i \in DOMAIN s : Append(s, x)[i] = s[i]
      /\ Append(s, x)[Len(s) + 1] = x
  OBVIOUS
<1>2. ASSUME s # <<>>
      PROVE  /\ Head(s) = s[1] /\ 1 \in DOMAIN s
             /\ \A i \in DOMAIN Tail(s) : i + 1 \in DOMAIN s /\ Tail(s)[i] = s[i + 1]
  BY <1>2
<1>. QED  BY <1>1, <1>2 DEF ActionsOf

\* The receipt a step appends keeps consequential actions to commits.
LEMMA CommitChain ==
    ASSUME TypeOK, TokenInv, CommitInv, Kept(preps, preps'), ChainGrows
    PROVE  ConsequentialOnlyByCommit'
<1>0. chain \in Seq(Receipt)
  BY DEF TypeOK
<1>1. ASSUME NEW i \in DOMAIN chain,
             ~Guarded(chain[i].op), ActionsOf(chain[i].acts) \cap Consequential # {}
      PROVE  chain[i].tok \in DOMAIN preps' /\ preps'[chain[i].tok].op = chain[i].op
  BY <1>1 DEF CommitInv, ConsequentialOnlyByCommit, Kept
<1>2. CASE chain' = chain
  BY <1>1, <1>2 DEF ConsequentialOnlyByCommit
<1>3. ASSUME NEW c \in Call, NEW out \in Outcomes, Calling(c),
             chain' = Append(chain, ReceiptOf(c, out))
      PROVE  ConsequentialOnlyByCommit'
  <2>. DEFINE r == ReceiptOf(c, out)
  <2>1. r.op = c.op /\ r.acts = c.done /\ r.tok = c.tok
    BY DEF ReceiptOf
  <2>2. ASSUME ~Guarded(c.op), ActionsOf(c.done) \cap Consequential # {}
        PROVE  c.tok \in DOMAIN preps' /\ preps'[c.tok].op = c.op
    <3>1. c.done # <<>>
      BY <2>2, ActionsOfEmpty
    <3>2. c = call /\ Dispatching
      BY <3>1, <1>3 DEF Calling, CommitInv
    <3>3. c.tok # NoToken
      BY <2>2, <3>2 DEF CommitInv
    <3>. QED  BY <3>2, <3>3 DEF CommitInv, TokenInv, Kept
  <2>3. /\ DOMAIN chain' = DOMAIN chain \cup {Len(chain) + 1}
        /\ \A i \in DOMAIN chain : chain'[i] = chain[i]
        /\ chain'[Len(chain) + 1] = r
    BY <1>3, <1>0
  <2>. QED  BY <1>1, <2>1, <2>2, <2>3 DEF ConsequentialOnlyByCommit
<1>. QED  BY <1>2, <1>3 DEF ChainGrows

\* The call after a step, as far as CommitInv speaks of it.
CallKept ==
    /\ call'.tok # NoToken => preps'[call'.tok].op = call'.op
    /\ ~Dispatching' => call'.done = <<>> /\ call'.todo = <<>>
    /\ Dispatching' /\ ~Guarded(call'.op) =>
          /\ ActionsOf(call'.done) \cup ActionsOf(call'.todo) \subseteq {Primary[call'.op]}
          /\ Primary[call'.op] \in Consequential => call'.tok # NoToken

\* Every action of a running call that dispatches.
LEMMA DispatchKept ==
    ASSUME TypeOK, TokenInv, CommitInv, Kept(preps, preps'),
           Refuse \/ SelectActions \/ SkipAbsentTarget \/ DispatchNext \/ Verify \/ Fault
    PROVE  CallKept
<1>1. call \in Call /\ call.stage \in {"select", "dispatch"}
  <2>1. Free.stage = "free"
    BY DEF Free
  <2>. QED
    BY <2>1 DEF Refuse, SelectActions, SkipAbsentTarget, DispatchNext, Verify, Fault, TypeOK
<1>2. /\ call'.op = call.op /\ call'.tok = call.tok /\ call'.stage \in {"dispatch", "settle"}
  BY <1>1 DEF Refuse, SelectActions, SkipAbsentTarget, DispatchNext, Verify, Fault, Call
<1>3. call'.tok # NoToken => preps'[call'.tok].op = call'.op
  BY <1>2 DEF CommitInv, TokenInv, Kept
<1>4. Dispatching /\ Dispatching'
  BY <1>1, <1>2 DEF Dispatching
<1>t. call.op \in Op /\ call.todo \in Seq(ActionType) /\ call.done \in Seq(ActionType)
  BY <1>1 DEF Call
<1>p. Primary[call.op] \in ActionType
  BY <1>t, OperationsAssumption
<1>5. ASSUME ~Guarded(call.op)
      PROVE  ActionsOf(call'.done) \cup ActionsOf(call'.todo) \subseteq {Primary[call.op]}
  <2>0. ActionsOf(call.done) \cup ActionsOf(call.todo) \subseteq {Primary[call.op]}
    BY <1>4, <1>5 DEF CommitInv
  <2>1. CASE Refuse \/ SkipAbsentTarget \/ Verify \/ Fault
    <3>1. call'.done = call.done /\ call'.todo = call.todo
      BY <1>1, <2>1 DEF Refuse, SkipAbsentTarget, Verify, Fault, Call
    <3>. QED  BY <2>0, <3>1
  <2>2. CASE SelectActions
    <3>1. call' = [call EXCEPT !.stage = "dispatch", !.todo = Append(<<>>, Primary[call.op])]
      BY <1>5, <2>2 DEF SelectActions
    <3>2. call'.done = call.done /\ call'.todo = Append(<<>>, Primary[call.op])
      BY <1>1, <3>1 DEF Call
    <3>3. ActionsOf(Append(<<>>, Primary[call.op])) = {Primary[call.op]}
      <4>1. Append(<<>>, Primary[call.op]) = <<Primary[call.op]>>
        OBVIOUS
      <4>2. ActionsOf(<<Primary[call.op]>>) = {Primary[call.op]}
        BY DEF ActionsOf
      <4>. QED  BY <4>1, <4>2
    <3>. QED  BY <2>0, <3>2, <3>3
  <2>3. CASE DispatchNext
    <3>1. /\ call.todo # <<>>
          /\ call'.done = Append(call.done, Head(call.todo))
          /\ call'.todo = Tail(call.todo)
      BY <1>1, <2>3 DEF DispatchNext, Call
    <3>2. Head(call.todo) \in ActionType
      BY <3>1, <1>t
    <3>3. ActionsOf(call'.done) = ActionsOf(call.done) \cup {Head(call.todo)}
      BY <3>1, <3>2, <1>t, ActionsOfSteps
    <3>4. /\ Head(call.todo) \in ActionsOf(call.todo)
          /\ ActionsOf(call'.todo) \subseteq ActionsOf(call.todo)
      BY <3>1, <1>t, <1>p, ActionsOfSteps
    <3>. QED  BY <2>0, <3>3, <3>4
  <2>. QED  BY <2>1, <2>2, <2>3
<1>6. ~Guarded(call.op) /\ Primary[call.op] \in Consequential => call'.tok # NoToken
  BY <1>2, <1>4 DEF CommitInv
<1>. QED  BY <1>2, <1>3, <1>4, <1>5, <1>6 DEF CallKept

\* A call that was just admitted has dispatched nothing.
LEMMA AdmittedKept ==
    ASSUME TypeOK, TokenInv, CommitInv, Kept(preps, preps'),
           NEW c \in Call, NEW blind \in BOOLEAN, Admitted(c, blind)
    PROVE  CallKept
<1>1. /\ call'.op = c.op /\ call'.tok = c.tok /\ call'.stage = "select"
      /\ call'.done = c.done /\ call'.todo = c.todo
      /\ NeedsPreparation(c.op) => c.tok # NoToken
  BY DEF Admitted, Same
<1>2. c.done = <<>> /\ c.todo = <<>>
  BY DEF Admitted, CommitInv, Dispatching
<1>3. c.tok # NoToken => preps'[c.tok].op = c.op
  BY DEF Admitted, CommitInv, TokenInv, Kept
<1>4. ~Guarded(c.op) /\ Primary[c.op] \in Consequential => NeedsPreparation(c.op)
  BY DEF NeedsPreparation, GovernedTypes
<1>. QED  BY <1>1, <1>2, <1>3, <1>4, ActionsOfEmpty DEF CallKept, Dispatching

\* Every step of the session keeps the commit invariant: a consequential operation
\* without a branching guard is refused by execute_operation unless it is nested in a commit.
LEMMA CommitNext == TypeOK /\ TokenInv /\ CommitInv /\ [Next]_vars => CommitInv'
<1>. SUFFICES ASSUME TypeOK, TokenInv, CommitInv, [Next]_vars PROVE CallKept
  <2>. SUFFICES ASSUME TypeOK, TokenInv, CommitInv, [Next]_vars, CallKept PROVE CommitInv'
    OBVIOUS
  <2>1. ConsequentialOnlyByCommit'
    BY PrepsKept, CallStepFacts, CommitChain
  <2>. QED  BY <2>1 DEF CallKept, CommitInv
<1>0. /\ Kept(preps, preps')
      /\ \A t \in DOMAIN preps : preps[t] \in Prep
  BY PrepsKept DEF TypeOK
<1>f. /\ Free.stage = "free" /\ Free.tok = NoToken /\ Free.done = <<>> /\ Free.todo = <<>>
      /\ call # Free => call \in Call
  BY DEF Free, TypeOK
<1>1. CASE call' = call
  BY <1>0, <1>1 DEF CallKept, CommitInv, TokenInv, Kept, Dispatching
<1>2. CASE call' = Free
  BY <1>2, <1>f DEF CallKept, Dispatching
<1>3. CASE Refuse \/ SelectActions \/ SkipAbsentTarget \/ DispatchNext \/ Verify \/ Fault
  BY <1>0, <1>3, DispatchKept
<1>4. ASSUME NEW a \in Agent, NEW l \in held[a], NEW op \in Op, PrepareBegin(a, l, op)
      PROVE  CallKept
  BY <1>2, <1>4 DEF PrepareBegin, Entered, CallKept, Dispatching
<1>5. ASSUME NEW a \in Agent, NEW l \in held[a], NEW t \in 1..MaxPreps, NEW op \in Op,
             CommitBegin(a, l, t, op)
      PROVE  CallKept
  <2>1. CASE call' = Entered("recheck", a, l, preps[t].op, t, NoRef) /\ t \in DOMAIN preps
    BY <2>1, <1>0 DEF Entered, CallKept, Dispatching, Kept
  <2>. QED  BY <1>2, <1>5, <2>1 DEF CommitBegin
<1>6. CASE CommitRecheck
  <2>1. CASE call' = [call EXCEPT !.stage = "begin"]
    <3>1. call \in Call /\ call.stage = "recheck"
      BY <1>6, <1>f DEF CommitRecheck
    <3>2. /\ call'.stage = "begin" /\ call'.tok = call.tok /\ call'.op = call.op
          /\ call'.done = call.done /\ call'.todo = call.todo
      BY <2>1, <3>1 DEF Call
    <3>. QED  BY <3>1, <3>2, <1>0 DEF CallKept, CommitInv, TokenInv, Kept, Dispatching
  <2>. QED  BY <1>6, <2>1, <1>2 DEF CommitRecheck
<1>7. ASSUME NEW c \in Call, NEW blind \in BOOLEAN, Admitted(c, blind)
      PROVE  CallKept
  BY <1>0, <1>7, AdmittedKept
<1>8. CASE Environment
  BY <1>1, <1>8 DEF Environment, PageMoves, BrowserDies, OfferExpires, Lapse, PreparationExpires
<1>9. CASE \/ PrepareCapture \/ CaptureRaises \/ NestedRaises \/ Settle
           \/ ExpireSession \/ FindTerminal \/ RecordExternalMutation \/ BindSignedPlan
  BY <1>1, <1>2, <1>9 DEF PrepareCapture, CaptureRaises, NestedRaises, Settle, ExpireSession,
     FindTerminal, RecordExternalMutation, BindSignedPlan
<1>10. ASSUME NEW a, NEW l, NEW to,
              \/ PrepareHandoff(a, l, to) \/ CloseSession(a, l)
              \/ Observe(a) \/ ClaimHandoff(a)
       PROVE  CallKept
  BY <1>1, <1>10 DEF PrepareHandoff, CloseSession, Observe, ClaimHandoff
<1>11. CASE UNCHANGED vars
  BY <1>1, <1>11 DEF vars
<1>12. ASSUME NEW c \in Call, Admission(c),
              \/ call.stage = "begin" /\ c = call
              \/ /\ call = Free /\ c.tok = NoToken /\ c.done = <<>> /\ c.todo = <<>>
                 /\ \E a \in Agent : c.ref \in Cited(obs[a])
       PROVE  CallKept
  BY <1>2, <1>7, <1>12, AdmissionAdmits
<1>13. ASSUME NEW a \in Agent, NEW l \in held[a], NEW op \in Op, NEW ref \in Cited(obs[a]),
              ExecuteBegin(a, l, op, ref)
       PROVE  CallKept
  <2>. DEFINE c == Entered("begin", a, l, op, NoToken, ref)
  <2>1. ref \in Ref \cup {NoRef} /\ l \in Nat
    BY CitedTyped DEF TypeOK
  <2>2. c \in Call
    BY <2>1, EnteredTyped DEF Stages, NoToken
  <2>3. /\ c.tok = NoToken /\ c.done = <<>> /\ c.todo = <<>>
        /\ \E b \in Agent : c.ref \in Cited(obs[b])
    BY DEF Entered
  <2>4. call = Free /\ Admission(c)
    BY <1>13 DEF ExecuteBegin, Enter
  <2>. QED  BY <2>2, <2>3, <2>4, <1>12
<1>14. CASE NestedBegin
  BY <1>12, <1>14, <1>f DEF NestedBegin
<1>. QED
  BY <1>3, <1>4, <1>5, <1>6, <1>8, <1>9, <1>10, <1>11, <1>13, <1>14
     DEF Next, AgentCall, CallStep

\* Without a branching guard, a consequential action reaches the browser only as the
\* commit of a token that was prepared for that operation.
THEOREM ConsequentialCommits == Spec => []ConsequentialOnlyByCommit
<1>1. CommitInv => ConsequentialOnlyByCommit
  BY DEF CommitInv
<1>2. Spec => []CommitInv
  BY CommitInit, CommitNext, TypeCorrect, TokensConsistent, PTL DEF Spec
<1>. QED  BY <1>1, <1>2, PTL
-----------------------------------------------------------------------------
(* Handoff without transfer. *)

\* A preparation that is not marked as made during an offer was made under this
\* control epoch, and no offer is outstanding since.
HandoffInv ==
    ~TransferPrepared => \A t \in DOMAIN preps :
        preps[t].status = "PREPARED" /\ ~preps[t].offered =>
            preps[t].epoch = epoch /\ offer = NoOffer

\* A new session has no preparation (open_session).
LEMMA HandoffInit == Init => HandoffInv
BY DEF Init, HandoffInv

\* The steps that change the offer: an offer retires every preparation, and a claim
\* finds an offer.
LEMMA OfferStep ==
    ASSUME TypeOK, [Next]_vars
    PROVE  \/ UNCHANGED <<offer, epoch>>
           \/ offer' = NoOffer /\ epoch' = epoch
           \/ offer' = NoOffer /\ offer # NoOffer
           \/ /\ epoch' = epoch
              /\ ~TransferPrepared => \A t \in DOMAIN preps' : preps'[t].status # "PREPARED"
<1>. USE DEF allButCall, ledger, control
<1>1. ASSUME NEW a, NEW l, NEW to, PrepareHandoff(a, l, to)
      PROVE  /\ epoch' = epoch
             /\ ~TransferPrepared => \A t \in DOMAIN preps' : preps'[t].status # "PREPARED"
  <2>1. PICK blind \in BOOLEAN : ~TransferPrepared => preps' = Retired(AfterRefresh(blind))
    BY <1>1 DEF PrepareHandoff
  <2>2. AfterRefresh(blind) \in Seq(Prep)
    BY KeptRefresh
  <2>. QED  BY <1>1, <2>1, <2>2, RetiredFacts DEF PrepareHandoff
<1>2. ASSUME NEW b, ClaimHandoff(b)
      PROVE  UNCHANGED <<offer, epoch>> \/ (offer' = NoOffer /\ offer # NoOffer)
  BY <1>2 DEF ClaimHandoff
<1>3. ASSUME NEW a, NEW l, NEW t, NEW op, NEW ref,
             \/ PrepareBegin(a, l, op) \/ CommitBegin(a, l, t, op)
             \/ ExecuteBegin(a, l, op, ref) \/ CloseSession(a, l) \/ Observe(a)
      PROVE  UNCHANGED <<offer, epoch>>
  BY <1>3 DEF PrepareBegin, CommitBegin, ExecuteBegin, CloseSession, End, Observe
<1>4. CASE CallStep
  BY <1>4 DEF CallStep, PrepareCapture, CaptureRaises, CommitRecheck, NestedBegin, NestedRaises,
              Refuse, SelectActions, SkipAbsentTarget, DispatchNext, Verify, Fault, Settle
<1>5. CASE Environment
  BY <1>5 DEF Environment, PageMoves, BrowserDies, OfferExpires, Lapse, PreparationExpires
<1>6. CASE RecordExternalMutation \/ BindSignedPlan \/ ExpireSession \/ FindTerminal
  BY <1>6 DEF RecordExternalMutation, BindSignedPlan, ExpireSession, FindTerminal, End
<1>7. CASE UNCHANGED vars
  BY <1>7 DEF vars
<1>. QED  BY <1>1, <1>2, <1>3, <1>4, <1>5, <1>6, <1>7 DEF Next, AgentCall

\* Every step keeps the handoff invariant: prepare_agent_handoff retires what is
\* prepared, and what is prepared later knows that an offer is open.
LEMMA HandoffNext == TypeOK /\ TokenInv /\ HandoffInv /\ [Next]_vars => HandoffInv'
<1>. SUFFICES ASSUME TypeOK, TokenInv, HandoffInv, [Next]_vars, ~TransferPrepared,
                     NEW t \in DOMAIN preps', preps'[t].status = "PREPARED", ~preps'[t].offered
              PROVE  preps'[t].epoch = epoch' /\ offer' = NoOffer
  BY DEF HandoffInv
<1>1. CASE t \in DOMAIN preps
  <2>1. /\ preps[t].status = "PREPARED" /\ ~preps[t].offered
        /\ preps'[t].epoch = preps[t].epoch
    BY <1>1, PrepsKept DEF Kept
  <2>2. preps[t].epoch = epoch /\ offer = NoOffer
    BY <1>1, <2>1 DEF HandoffInv
  <2>. QED  BY <2>1, <2>2, OfferStep
<1>2. CASE t \notin DOMAIN preps
  BY <1>2, MonitorStep DEF Recorded, control
<1>. QED  BY <1>1, <1>2

\* What can be committed after a handoff was prepared while the handoff was offered.
THEOREM HandoffRetires == Spec => []HandoffRetiresEarlier
<1>1. TypeOK /\ HandoffInv => HandoffRetiresEarlier
  BY DEF TypeOK, HandoffInv, HandoffRetiresEarlier
<1>2. Spec => []HandoffInv
  BY HandoffInit, HandoffNext, TypeCorrect, TokensConsistent, PTL DEF Spec
<1>. QED  BY <1>1, <1>2, TypeCorrect, PTL

\* A claimed handoff passes on the control and no earlier preparation: the results on
\* superseded controllers and on preparations, as one invariant.
THEOREM ControlIsPassedOn == Spec => []ControlPassesOn
<1>1. SupersededNeverActs /\ HandoffRetiresEarlier => ControlPassesOn
  BY DEF ControlPassesOn
<1>. QED  BY <1>1, SupersededController, HandoffRetires, PTL

\* A token is spent by one execution and stays spent.
THEOREM TokensAreSpentOnce == Spec => TokensSpentOnce
BY TokenConsumedOnce, TokensFinal DEF TokensSpentOnce
-----------------------------------------------------------------------------
(* The signed plan and the budgets: what their invariants say. *)

\* The receipts of dispatched plan steps.
PlanSteps == {i \in DOMAIN chain : chain[i].step > 0 /\ Started(chain[i].out)}

\* No receipt names a step before a plan is bound, and an execution that runs under
\* a plan is of the plan's next step.
PlanInv ==
    /\ planIdx = -1 => \A i \in DOMAIN chain : chain[i].step = 0
    /\ Dispatching /\ planIdx >= 0 => planIdx < Len(Plan) /\ call.op = Plan[planIdx + 1]
    /\ RecordedInOrder

\* What the budgets have left is enough for the worst that the operation can do.
Room(op) ==
    \A t \in Candidates(op) :
        /\ actionCount + BeyondFirst(ReservedActions(op)) < MaxActionCount
        /\ t \in Irreversible => sideCount + BeyondFirst(ReservedSides(op)) < MaxSideEffectCount

\* The actions s are the first ones of a branch.
Begins(s, b) == Len(s) <= Len(b) /\ \A i \in DOMAIN s : s[i] = b[i]

\* What a call with a branching guard did and has to do is one branch and the
\* operation's own action.
Follows(c, b) == c.done \o c.todo = Append(b, Primary[c.op])

\* Without one there is the operation's own action at most.
Single(c) == Len(c.done) + Len(c.todo) <= 1

\* What a call did when it comes to its receipt.
Accounts(c) ==
    /\ c.out # "none"
    /\ c.out = "refused" => c.done = <<>>
    /\ Guarded(c.op) =>
          /\ c.out # "skipped"
          /\ c.out = "done" => \E b \in Alternatives[c.op] : c.done = Append(b, Primary[c.op])
          /\ c.out = "branch_failed" => \E b \in Alternatives[c.op] : Begins(c.done, b)
    /\ ~Guarded(c.op) => c.out # "branch_failed" /\ Len(c.done) <= 1

\* What the running call has done and has still to do, stage by stage: nothing before it
\* is admitted, and then its own action or those of one branch of its guard.
CallInv ==
    /\ call.stage \notin {"dispatch", "settle"} =>
          call.out = "none" /\ call.done = <<>> /\ call.todo = <<>>
    /\ call.stage = "dispatch" =>
          /\ call.out = "none" \/ (call.out = "skipped" /\ ~Guarded(call.op))
          /\ Guarded(call.op) => \E b \in Alternatives[call.op] : Follows(call, b)
          /\ ~Guarded(call.op) => Single(call)
    /\ call.stage = "settle" => Accounts(call)

\* Budgets and charges agree; an execution that dispatches was given room for all it may
\* still do; and without an ambiguous receipt the charges cover what the browser was sent.
BudgetInv ==
    /\ BudgetHeld
    /\ Dispatching => Room(call.op)
    /\ CallInv
    /\ (\A i \in DOMAIN chain : ~Uncharged(chain[i])) => attempts <= actionCount + Len(call.done)
-----------------------------------------------------------------------------
\* A call as execute_operation gets it, from an agent or from a commit.
Admits(c) ==
    /\ ~Dispatching /\ Admission(c) /\ PlanAllows(c.op)
    /\ c.out = "none" /\ c.done = <<>> /\ c.todo = <<>>
    /\ UNCHANGED <<planIdx, budget, attempts>>

\* The steps of a running execution before it settles.
Executes == Refuse \/ SelectActions \/ SkipAbsentTarget \/ DispatchNext \/ Verify \/ Fault

\* No receipt, charge or dispatch, and no execution that was not there.
Quiet ==
    /\ UNCHANGED <<planIdx, chain, budget, attempts>>
    /\ \/ call' = call
       \/ /\ ~Dispatching /\ ~Dispatching'
          /\ call'.out = "none" /\ call'.done = <<>> /\ call'.todo = <<>>

\* Every step, sorted by what it does to an execution.
LEMMA StepKinds ==
    ASSUME TypeOK, CallInv, [Next]_vars
    PROVE  Quiet \/ (\E c \in Call : Admits(c)) \/ Executes \/ Settle \/ BindSignedPlan
<1>. USE DEF allButCall, ledger, budget
<1>0. /\ call # Free => call \in Call
      /\ \A a \in Agent : held[a] \subseteq Nat
  BY DEF TypeOK
<1>f. Free.stage = "free" /\ Free.out = "none" /\ Free.done = <<>> /\ Free.todo = <<>>
  BY DEF Free
<1>1. ASSUME UNCHANGED <<planIdx, chain, budget, attempts>>,
             call' = call \/ (call' = Free /\ ~Dispatching)
      PROVE  Quiet
  BY <1>1, <1>f DEF Quiet, Dispatching
<1>2. CASE UNCHANGED vars
  BY <1>1, <1>2 DEF vars
<1>3. ASSUME NEW a \in Agent, NEW l \in held[a], NEW op \in Op, PrepareBegin(a, l, op)
      PROVE  Quiet
  <2>1. /\ UNCHANGED <<planIdx, chain, budget, attempts>>
        /\ call' \in {Entered("capture", a, l, op, NoToken, NoRef), Free}
    BY <1>3 DEF PrepareBegin
  <2>2. ~Dispatching
    BY <1>3, <1>f DEF PrepareBegin, Enter, Dispatching
  <2>. QED  BY <2>1, <2>2, <1>f DEF Quiet, Dispatching, Entered
<1>4. ASSUME NEW a \in Agent, NEW l \in held[a], NEW t \in 1..MaxPreps, NEW op \in Op,
             CommitBegin(a, l, t, op)
      PROVE  Quiet
  <2>1. /\ UNCHANGED <<planIdx, chain, budget, attempts>>
        /\ call' \in {Entered("recheck", a, l, preps[t].op, t, NoRef), Free}
    BY <1>4 DEF CommitBegin
  <2>2. ~Dispatching
    BY <1>4, <1>f DEF CommitBegin, Enter, Dispatching
  <2>. QED  BY <2>1, <2>2, <1>f DEF Quiet, Dispatching, Entered
<1>5. CASE CommitRecheck
  <2>1. call \in Call /\ call.stage = "recheck"
    BY <1>5, <1>0, <1>f DEF CommitRecheck
  <2>2. /\ UNCHANGED <<planIdx, chain, budget, attempts>>
        /\ call' \in {Free, [call EXCEPT !.stage = "begin"]}
    BY <1>5 DEF CommitRecheck
  <2>3. CASE call' = [call EXCEPT !.stage = "begin"]
    <3>1. /\ call'.stage = "begin" /\ call'.out = call.out
          /\ call'.done = call.done /\ call'.todo = call.todo
      BY <2>1, <2>3 DEF Call
    <3>. QED  BY <2>1, <2>2, <3>1 DEF Quiet, Dispatching, CallInv
  <2>. QED  BY <2>1, <2>2, <2>3, <1>1 DEF Dispatching
<1>6. ASSUME NEW a \in Agent, NEW l \in held[a], NEW op \in Op, NEW ref \in Cited(obs[a]),
             ExecuteBegin(a, l, op, ref)
      PROVE  \E c \in Call : Admits(c)
  <2>. DEFINE c == Entered("begin", a, l, op, NoToken, ref)
  <2>1. ref \in Ref \cup {NoRef} /\ l \in Nat
    BY CitedTyped DEF TypeOK
  <2>2. c \in Call
    BY <2>1, EnteredTyped DEF Stages, NoToken
  <2>3. c.op = op /\ c.out = "none" /\ c.done = <<>> /\ c.todo = <<>>
    BY DEF Entered
  <2>4. Admits(c)
    BY <2>3, <1>6, <1>f DEF ExecuteBegin, Enter, Admits, Dispatching
  <2>. QED  BY <2>2, <2>4
<1>7. CASE NestedBegin
  <2>1. call \in Call /\ call.stage = "begin"
    BY <1>7, <1>0, <1>f DEF NestedBegin
  <2>2. Admits(call)
    BY <1>7, <2>1 DEF NestedBegin, Admits, CallInv, Dispatching
  <2>. QED  BY <2>1, <2>2
<1>8. CASE Environment
  BY <1>1, <1>8 DEF Environment, PageMoves, BrowserDies, OfferExpires, Lapse, PreparationExpires
<1>9. CASE \/ PrepareCapture \/ CaptureRaises \/ NestedRaises
           \/ ExpireSession \/ FindTerminal \/ RecordExternalMutation
  BY <1>1, <1>9, <1>f DEF PrepareCapture, CaptureRaises, NestedRaises, ExpireSession,
     FindTerminal, RecordExternalMutation, End, Dispatching
<1>10. ASSUME NEW a, NEW l, NEW to,
              PrepareHandoff(a, l, to) \/ CloseSession(a, l) \/ Observe(a) \/ ClaimHandoff(a)
       PROVE  Quiet
  BY <1>1, <1>10 DEF PrepareHandoff, CloseSession, End, Observe, ClaimHandoff
<1>. QED
  BY <1>2, <1>3, <1>4, <1>5, <1>6, <1>7, <1>8, <1>9, <1>10
     DEF Next, AgentCall, CallStep, Executes

\* An admission ends the call, with or without a receipt that nothing was dispatched,
\* or lets an operation go on that the firewall authorized.
LEMMA AdmitsStep ==
    ASSUME TypeOK, NEW c \in Call, Admits(c)
    PROVE  \/ call' = Free /\ chain' \in {chain, Append(chain, ReceiptOf(c, "refused"))}
           \/ /\ chain' = chain /\ Authorized(c.op)
              /\ call'.stage = "select" /\ call'.op = c.op /\ call'.out = "none"
              /\ call'.done = <<>> /\ call'.todo = <<>>
<1>1. \/ call' = Free /\ chain' \in {chain, Append(chain, ReceiptOf(c, "refused"))}
      \/ /\ chain' = chain /\ Authorized(c.op)
         /\ call' = [c EXCEPT !.stage = "select", !.ver = page.ver]
  BY DEF Admits, Admission
<1>2. CASE call' = [c EXCEPT !.stage = "select", !.ver = page.ver]
  <2>1. /\ call'.stage = "select" /\ call'.op = c.op /\ call'.out = c.out
        /\ call'.done = c.done /\ call'.todo = c.todo
    BY <1>2 DEF Call
  <2>. QED  BY <1>1, <2>1 DEF Admits
<1>. QED  BY <1>1, <1>2

\* The steps of a running execution leave the receipts, the budgets and the plan alone.
LEMMA ExecutesStep ==
    ASSUME TypeOK, Executes
    PROVE  /\ UNCHANGED <<planIdx, chain, budget>>
           /\ call \in Call /\ Dispatching /\ Dispatching' /\ call'.op = call.op
<1>. USE DEF allButCall, ledger, budget
<1>1. call \in Call /\ call.stage \in {"select", "dispatch"}
  <2>1. Free.stage = "free"
    BY DEF Free
  <2>. QED
    BY <2>1 DEF Executes, Refuse, SelectActions, SkipAbsentTarget, DispatchNext, Verify, Fault,
       TypeOK
<1>2. call'.op = call.op /\ call'.stage \in {"dispatch", "settle"}
  BY <1>1 DEF Executes, Refuse, SelectActions, SkipAbsentTarget, DispatchNext, Verify, Fault, Call
<1>3. UNCHANGED <<planIdx, chain, budget>>
  BY DEF Executes, Refuse, SelectActions, SkipAbsentTarget, DispatchNext, Verify, Fault
<1>. QED  BY <1>1, <1>2, <1>3 DEF Dispatching
-----------------------------------------------------------------------------
(* The signed plan. *)

\* One more index behind a set of them.
LEMMA OneMore ==
    ASSUME NEW n \in Nat, NEW S \in SUBSET (1..n)
    PROVE  /\ Cardinality(S) \in Nat
           /\ Cardinality(S \cup {n + 1}) = Cardinality(S) + 1
           /\ {j \in S \cup {n + 1} : j <= n + 1} = S \cup {n + 1}
           /\ \A i \in S : {j \in S \cup {n + 1} : j <= i} = {j \in S : j <= i}
<1>1. IsFiniteSet(S)
  <2>1. IsFiniteSet(1..n)
    BY FS_Interval
  <2>. QED  BY <2>1, FS_Subset
<1>2. n + 1 \notin S /\ \A i \in S : i \in Nat /\ i <= n
  OBVIOUS
<1>3. Cardinality(S \cup {n + 1}) = Cardinality(S) + 1
  BY <1>1, <1>2, FS_AddElement
<1>4. {j \in S \cup {n + 1} : j <= n + 1} = S \cup {n + 1}
  <2>1. \A j \in S \cup {n + 1} : j <= n + 1
    BY <1>2
  <2>. QED  BY <2>1
<1>5. ASSUME NEW i \in S
      PROVE  {j \in S \cup {n + 1} : j <= i} = {j \in S : j <= i}
  <2>1. ~(n + 1 <= i)
    BY <1>2
  <2>. QED  BY <2>1
<1>. QED  BY <1>1, <1>3, <1>4, <1>5, FS_CardinalityType

\* Receipts of no plan step leave the plan's steps as they are.
LEMMA OtherReceipt ==
    ASSUME TypeOK, RecordedInOrder, NEW r \in Receipt, chain' = Append(chain, r),
           planIdx' = planIdx, r.step = 0 \/ ~Started(r.out)
    PROVE  RecordedInOrder'
<1>1. chain \in Seq(Receipt)
  BY DEF TypeOK
<1>2. /\ DOMAIN chain' = DOMAIN chain \cup {Len(chain) + 1}
      /\ \A i \in DOMAIN chain : chain'[i] = chain[i]
      /\ chain'[Len(chain) + 1] = r
  BY <1>1
<1>3. PlanSteps' = PlanSteps
  BY <1>2 DEF PlanSteps
<1>4. \A i \in PlanSteps : chain'[i] = chain[i]
  BY <1>2 DEF PlanSteps
<1>. QED  BY <1>3, <1>4 DEF RecordedInOrder, PlanSteps

\* The receipt of the next plan step, and the plan index moves on.
LEMMA NextReceipt ==
    ASSUME TypeOK, RecordedInOrder, NEW r \in Receipt, chain' = Append(chain, r),
           planIdx >= 0, planIdx' = planIdx + 1,
           r.step = planIdx + 1, r.op = Plan[planIdx + 1], Started(r.out)
    PROVE  RecordedInOrder'
<1>. DEFINE n == Len(chain)
            more == PlanSteps \cup {n + 1}
<1>1. chain \in Seq(Receipt) /\ planIdx \in Nat /\ n \in Nat
  BY DEF TypeOK
<1>2. /\ DOMAIN chain = 1..n
      /\ DOMAIN chain' = 1..n \cup {n + 1}
      /\ \A i \in DOMAIN chain : chain'[i] = chain[i]
      /\ chain'[n + 1] = r
  BY <1>1
<1>3. PlanSteps \in SUBSET (1..n)
  BY <1>2 DEF PlanSteps
<1>4. PlanSteps' = more
  BY <1>1, <1>2 DEF PlanSteps
<1>5. /\ Cardinality(more) = Cardinality(PlanSteps) + 1
      /\ {j \in more : j <= n + 1} = more
      /\ \A i \in PlanSteps : {j \in more : j <= i} = {j \in PlanSteps : j <= i}
  BY <1>1, <1>3, OneMore
<1>6. /\ Cardinality(PlanSteps) = planIdx
      /\ \A i \in PlanSteps : /\ chain[i].step = Cardinality({j \in PlanSteps : j <= i})
                              /\ chain[i].op = Plan[chain[i].step]
  BY DEF RecordedInOrder, PlanSteps
<1>7. ASSUME NEW i \in more
      PROVE  /\ chain'[i].step = Cardinality({j \in more : j <= i})
             /\ chain'[i].op = Plan[chain'[i].step]
  <2>1. CASE i \in PlanSteps
    BY <2>1, <1>2, <1>3, <1>5, <1>6
  <2>2. CASE i = n + 1
    BY <2>2, <1>2, <1>5, <1>6
  <2>. QED  BY <2>1, <2>2
<1>8. Cardinality(more) = planIdx'
  BY <1>5, <1>6
<1>. QED  BY <1>4, <1>7, <1>8 DEF RecordedInOrder, PlanSteps

\* A new session has no plan (open_session).
LEMMA PlanInit == Init => PlanInv
<1>1. Init => chain = <<>> /\ planIdx = -1 /\ call.stage = "free"
  BY DEF Init, Free
<1>. QED  BY <1>1 DEF PlanInv, RecordedInOrder, Dispatching

\* Every step keeps the plan invariant.
LEMMA PlanNext == TypeOK /\ CallInv /\ PlanInv /\ [Next]_vars => PlanInv'
<1>. SUFFICES ASSUME TypeOK, CallInv, PlanInv, [Next]_vars PROVE PlanInv'
  OBVIOUS
<1>0. chain \in Seq(Receipt) /\ planIdx \in Nat \cup {-1}
  BY DEF TypeOK
<1>f. Free.stage = "free"
  BY DEF Free
<1>1. ASSUME UNCHANGED <<planIdx, chain>>, Dispatching' => Dispatching /\ call'.op = call.op
      PROVE  PlanInv'
  BY <1>1 DEF PlanInv, RecordedInOrder
<1>2. CASE Quiet
  BY <1>1, <1>2 DEF Quiet, Dispatching
<1>3. CASE Executes
  BY <1>1, <1>3, ExecutesStep
<1>4. ASSUME NEW r \in Receipt, chain' = Append(chain, r), planIdx' = planIdx, call' = Free,
             r.step = Step, r.step = 0 \/ ~Started(r.out)
      PROVE  PlanInv'
  <2>1. RecordedInOrder'
    BY <1>4, OtherReceipt DEF PlanInv
  <2>2. planIdx' = -1 => \A i \in DOMAIN chain' : chain'[i].step = 0
    BY <1>0, <1>4 DEF PlanInv, Step
  <2>. QED  BY <2>1, <2>2, <1>4, <1>f DEF PlanInv, Dispatching
<1>5. ASSUME NEW c \in Call, Admits(c)
      PROVE  PlanInv'
  <2>0. planIdx' = planIdx /\ PlanAllows(c.op)
    BY <1>5 DEF Admits
  <2>1. CASE call' = Free /\ chain' = chain
    BY <1>1, <2>0, <2>1, <1>f DEF Dispatching
  <2>2. CASE call' = Free /\ chain' = Append(chain, ReceiptOf(c, "refused"))
    <3>. DEFINE r == ReceiptOf(c, "refused")
    <3>1. r \in Receipt
      BY ReceiptTyped DEF Outcomes
    <3>2. r.step = Step /\ ~Started(r.out)
      BY DEF ReceiptOf, Started
    <3>. QED  BY <1>4, <2>0, <2>2, <3>1, <3>2
  <2>3. CASE chain' = chain /\ call'.op = c.op
    BY <2>0, <2>3 DEF PlanInv, RecordedInOrder, PlanAllows
  <2>. QED  BY <1>5, <2>1, <2>2, <2>3, AdmitsStep
<1>6. CASE Settle
  <2>. DEFINE r == ReceiptOf(call, call.out)
  <2>1. call \in Call /\ call.stage = "settle"
    BY <1>6, <1>f DEF Settle, TypeOK
  <2>2. r \in Receipt
    BY <2>1, ReceiptTyped DEF Call
  <2>3. r.step = Step /\ r.out = call.out /\ r.op = call.op
    BY DEF ReceiptOf
  <2>4. chain' = Append(chain, r) /\ call' = Free /\ planIdx' = NextStep(call.out)
    BY <1>6 DEF Settle
  <2>5. CASE planIdx >= 0 /\ Started(call.out)
    <3>1. planIdx' = planIdx + 1 /\ r.step = planIdx + 1
      BY <2>3, <2>4, <2>5 DEF NextStep, Step
    <3>2. r.op = Plan[planIdx + 1]
      BY <2>1, <2>3, <2>5 DEF PlanInv, Dispatching
    <3>3. RecordedInOrder'
      BY <2>2, <2>3, <2>4, <2>5, <3>1, <3>2, NextReceipt DEF PlanInv
    <3>. QED  BY <1>0, <2>4, <2>5, <3>1, <3>3, <1>f DEF PlanInv, Dispatching
  <2>6. CASE ~(planIdx >= 0 /\ Started(call.out))
    <3>1. planIdx' = planIdx /\ (r.step = 0 \/ ~Started(r.out))
      BY <2>3, <2>4, <2>6 DEF NextStep, Step
    <3>. QED  BY <1>4, <2>2, <2>3, <2>4, <3>1
  <2>. QED  BY <2>5, <2>6
<1>7. CASE BindSignedPlan
  <2>1. planIdx = -1 /\ planIdx' = 0 /\ chain' = chain /\ ~Dispatching'
    BY <1>7, <1>f DEF BindSignedPlan, Dispatching
  <2>2. PlanSteps' = {}
    BY <1>0, <2>1 DEF PlanInv, PlanSteps
  <2>. QED  BY <2>1, <2>2, FS_EmptySet DEF PlanInv, RecordedInOrder, PlanSteps
<1>. QED  BY <1>2, <1>3, <1>5, <1>6, <1>7, StepKinds

\* What the receipts of a step say: they are of steps up to the next one, an executed one
\* is behind it, and a refusal dispatched nothing.
StepsInv ==
    /\ RepeatedAfterFailure
    /\ \A i \in DOMAIN chain :
          /\ chain[i].step <= planIdx + 1
          /\ chain[i].step > 0 /\ Started(chain[i].out) => chain[i].step <= planIdx
          /\ chain[i].out # "none"
          /\ chain[i].out = "refused" => chain[i].acts = <<>>

\* The receipt of an attempt at the next step goes behind those of the earlier attempts.
LEMMA StepsAppend ==
    ASSUME TypeOK, StepsInv, NEW r \in Receipt, chain' = Append(chain, r),
           r.step = Step, planIdx' = NextStep(r.out),
           r.out # "none", r.out = "refused" => r.acts = <<>>
    PROVE  StepsInv'
<1>. DEFINE n == Len(chain)
<1>1. chain \in Seq(Receipt) /\ planIdx \in Nat \cup {-1} /\ n \in Nat
  BY DEF TypeOK
<1>2. /\ DOMAIN chain = 1..n /\ DOMAIN chain' = 1..(n + 1)
      /\ \A i \in 1..n : chain'[i] = chain[i] /\ chain[i] \in Receipt
      /\ chain'[n + 1] = r
  BY <1>1
<1>3. /\ r.step \in Nat /\ r.out \in Outcomes
      /\ \A i \in 1..n : chain[i].step \in Nat /\ chain[i].out \in Outcomes
  BY <1>2 DEF Receipt
<1>4. planIdx' \in {planIdx, planIdx + 1} /\ planIdx' \in Nat \cup {-1}
  BY <1>1 DEF NextStep
<1>5. ASSUME NEW i \in 1..n, NEW j \in 1..(n + 1), i < j, chain'[i].step > 0
      PROVE  /\ chain'[i].step <= chain'[j].step
             /\ chain'[i].step = chain'[j].step =>
                   /\ ~Started(chain'[i].out)
                   /\ chain'[i].acts # <<>> => chain'[i].out \in {"fault", "branch_failed"}
  <2>1. CASE j \in 1..n
    BY <1>2, <1>5, <2>1 DEF StepsInv, RepeatedAfterFailure
  <2>2. CASE j = n + 1
    <3>1. chain'[i] = chain[i] /\ chain'[j] = r
      BY <1>2, <2>2
    <3>2. planIdx >= 0 /\ r.step = planIdx + 1
      BY <1>1, <1>2, <1>3, <1>5, <3>1 DEF StepsInv, Step
    <3>3. chain[i].step <= r.step
      BY <1>2, <3>2 DEF StepsInv
    <3>4. ASSUME chain[i].step = r.step
          PROVE  /\ ~Started(chain[i].out)
                 /\ chain[i].acts # <<>> => chain[i].out \in {"fault", "branch_failed"}
      <4>1. ~Started(chain[i].out)
        BY <1>1, <1>2, <1>3, <1>5, <3>1, <3>2, <3>4 DEF StepsInv
      <4>2. chain[i].out # "none" /\ (chain[i].out = "refused" => chain[i].acts = <<>>)
        BY <1>2 DEF StepsInv
      <4>. QED  BY <4>1, <4>2, <1>3 DEF Started, Outcomes
    <3>. QED  BY <3>1, <3>3, <3>4
  <2>. QED  BY <1>5, <2>1, <2>2, <1>1
<1>6. RepeatedAfterFailure'
  <2>1. ASSUME NEW i \in DOMAIN chain', NEW j \in DOMAIN chain', i < j, chain'[i].step > 0
        PROVE  i \in 1..n
    BY <2>1, <1>1, <1>2
  <2>. QED  BY <1>2, <1>5, <2>1 DEF RepeatedAfterFailure
<1>7. ASSUME NEW i \in 1..(n + 1)
      PROVE  /\ chain'[i].step <= planIdx' + 1
             /\ chain'[i].step > 0 /\ Started(chain'[i].out) => chain'[i].step <= planIdx'
             /\ chain'[i].out # "none"
             /\ chain'[i].out = "refused" => chain'[i].acts = <<>>
  <2>1. CASE i \in 1..n
    <3>1. /\ chain'[i] = chain[i]
          /\ chain[i].step <= planIdx + 1
          /\ chain[i].step > 0 /\ Started(chain[i].out) => chain[i].step <= planIdx
          /\ chain[i].out # "none"
          /\ chain[i].out = "refused" => chain[i].acts = <<>>
      BY <1>2, <2>1 DEF StepsInv
    <3>. QED  BY <3>1, <2>1, <1>1, <1>3, <1>4
  <2>2. CASE i = n + 1
    BY <1>1, <1>2, <1>3, <2>2 DEF Step, NextStep
  <2>. QED  BY <1>1, <2>1, <2>2
<1>. QED  BY <1>2, <1>6, <1>7 DEF StepsInv

\* A new session has no receipt (open_session).
LEMMA StepsInit == Init => StepsInv
BY DEF Init, StepsInv, RepeatedAfterFailure

\* Every step keeps what the receipts say of the plan's steps.
LEMMA StepsNext == TypeOK /\ CallInv /\ StepsInv /\ [Next]_vars => StepsInv'
<1>. SUFFICES ASSUME TypeOK, CallInv, StepsInv, [Next]_vars PROVE StepsInv'
  OBVIOUS
<1>0. chain \in Seq(Receipt) /\ planIdx \in Nat \cup {-1}
  BY DEF TypeOK
<1>1. CASE UNCHANGED <<planIdx, chain>>
  BY <1>1 DEF StepsInv, RepeatedAfterFailure
<1>2. CASE Quiet \/ Executes
  BY <1>1, <1>2, ExecutesStep DEF Quiet
<1>3. ASSUME NEW c \in Call, Admits(c)
      PROVE  StepsInv'
  <2>1. planIdx' = planIdx /\ c.done = <<>>
    BY <1>3 DEF Admits
  <2>2. CASE chain' = Append(chain, ReceiptOf(c, "refused"))
    <3>. DEFINE r == ReceiptOf(c, "refused")
    <3>1. r \in Receipt
      BY ReceiptTyped DEF Outcomes
    <3>2. r.step = Step /\ r.out = "refused" /\ r.acts = <<>>
      BY <2>1 DEF ReceiptOf
    <3>3. planIdx' = NextStep(r.out)
      BY <2>1, <3>2 DEF NextStep, Started
    <3>. QED  BY <2>2, <3>1, <3>2, <3>3, StepsAppend
  <2>. QED  BY <1>1, <1>3, <2>1, <2>2, AdmitsStep
<1>4. CASE Settle
  <2>. DEFINE r == ReceiptOf(call, call.out)
  <2>1. call \in Call /\ call.stage = "settle"
    BY <1>4 DEF Settle, TypeOK, Free
  <2>2. r \in Receipt
    BY <2>1, ReceiptTyped DEF Call
  <2>3. r.step = Step /\ r.out = call.out /\ r.acts = call.done
    BY DEF ReceiptOf
  <2>4. r.out # "none" /\ (r.out = "refused" => r.acts = <<>>)
    BY <2>1, <2>3 DEF CallInv, Accounts
  <2>5. chain' = Append(chain, r) /\ planIdx' = NextStep(r.out)
    BY <1>4, <2>3 DEF Settle
  <2>. QED  BY <2>2, <2>3, <2>4, <2>5, StepsAppend
<1>5. CASE BindSignedPlan
  <2>1. planIdx = -1 /\ planIdx' = 0 /\ chain' = chain
    BY <1>5 DEF BindSignedPlan, allButCall, ledger
  <2>2. \A i \in DOMAIN chain : chain[i].step \in Nat
    <3>1. \A i \in DOMAIN chain : chain[i] \in Receipt
      BY <1>0
    <3>. QED  BY <3>1 DEF Receipt
  <2>. QED  BY <2>1, <2>2 DEF StepsInv, RepeatedAfterFailure
<1>. QED  BY <1>2, <1>3, <1>4, <1>5, StepKinds
-----------------------------------------------------------------------------
(* The budgets. *)

\* The largest of a set that has a largest.
LEMMA LargestOf ==
    ASSUME NEW S, \E n \in S : \A m \in S : m <= n
    PROVE  Largest(S) \in S /\ \A m \in S : m <= Largest(S)
BY DEF Largest

\* A sequence whose actions are the first ones of another has no more side effects.
LEMMA SidesBegin ==
    ASSUME NEW s \in Seq(ActionType), NEW b \in Seq(ActionType), Begins(s, b)
    PROVE  Sides(s) <= Sides(b)
<1>. DEFINE of(q) == {i \in DOMAIN q : q[i] \in Irreversible}
<1>1. Len(b) \in Nat /\ DOMAIN b = 1..Len(b) /\ DOMAIN s = 1..Len(s) /\ Len(s) \in Nat
  OBVIOUS
<1>2. IsFiniteSet(1..Len(b))
  BY <1>1, FS_Interval
<1>3. IsFiniteSet(of(b))
  BY <1>1, <1>2, FS_Subset
<1>4. of(s) \subseteq of(b)
  BY <1>1 DEF Begins
<1>5. Cardinality(of(s)) <= Cardinality(of(b))
  BY <1>3, <1>4, FS_Subset
<1>. QED  BY <1>5 DEF Sides

\* Side effects come from an irreversible action.
LEMMA SidesFrom ==
    ASSUME NEW s \in Seq(ActionType), Sides(s) # 0
    PROVE  \E i \in DOMAIN s : s[i] \in Irreversible
BY FS_EmptySet DEF Sides

\* What the firewall reserves covers every branch of a guard.
LEMMA ReservedCovers ==
    ASSUME NEW op \in Op, Guarded(op), NEW b \in Alternatives[op]
    PROVE  /\ b \in Seq(ActionType)
           /\ Len(b) <= ReservedActions(op) /\ Sides(b) <= ReservedSides(op)
           /\ ReservedActions(op) \in Nat /\ ReservedSides(op) \in Nat
<1>1. \A c \in Alternatives[op] : c \in Seq(ActionType)
  BY OperationsAssumption
<1>2. \A c \in Alternatives[op] : Len(c) \in Nat /\ Sides(c) \in Nat
  BY <1>1, SidesTyped
<1>3. \E n \in {Len(c) : c \in Alternatives[op]} :
          \A m \in {Len(c) : c \in Alternatives[op]} : m <= n
  BY GuardsAssumption
<1>4. \E n \in {Sides(c) : c \in Alternatives[op]} :
          \A m \in {Sides(c) : c \in Alternatives[op]} : m <= n
  BY GuardsAssumption
<1>5. /\ ReservedActions(op) \in {Len(c) : c \in Alternatives[op]}
      /\ Len(b) <= ReservedActions(op)
  BY <1>3, LargestOf DEF ReservedActions
<1>6. /\ ReservedSides(op) \in {Sides(c) : c \in Alternatives[op]}
      /\ Sides(b) <= ReservedSides(op)
  BY <1>4, LargestOf DEF ReservedSides
<1>. QED  BY <1>1, <1>2, <1>5, <1>6

\* Some action of every operation was decided on.
LEMMA CandidatesFound == \A op \in Op : Candidates(op) # {}
BY DEF Candidates

\* What the firewall authorized can be paid for.
LEMMA AuthorizedRoom == \A op \in Op : Authorized(op) => Room(op)
BY DEF Authorized, Decide, Room

\* What a call is charged for when there is room: a branch, or the operation's action.
LEMMA ChargeFits ==
    ASSUME TypeOK, BudgetHeld, NEW c \in Call, Accounts(c), Room(c.op)
    PROVE  LET charged == ChargedActs(c.op, c.out, c.done)
           IN  /\ actionCount + Len(charged) <= MaxActionCount
               /\ sideCount + Sides(charged) <= MaxSideEffectCount
<1>. DEFINE op == c.op
            charged == ChargedActs(op, c.out, c.done)
<1>0. /\ actionCount \in Nat /\ sideCount \in Nat
      /\ MaxActionCount \in Nat /\ MaxSideEffectCount \in Nat
      /\ op \in Op /\ c.done \in Seq(ActionType) /\ Primary[op] \in ActionType
  BY OperationsAssumption, PolicyAssumption DEF TypeOK, Call
<1>1. ASSUME NEW b \in Seq(ActionType), charged \in Seq(ActionType), Begins(charged, b),
             ActionsOf(b) \subseteq Candidates(op),
             Len(b) <= ReservedActions(op), Sides(b) <= ReservedSides(op),
             ReservedActions(op) \in Nat, ReservedSides(op) \in Nat
      PROVE  /\ actionCount + Len(charged) <= MaxActionCount
             /\ sideCount + Sides(charged) <= MaxSideEffectCount
  <2>1. Len(charged) \in Nat /\ Sides(charged) \in Nat /\ Len(b) \in Nat /\ Sides(b) \in Nat
    BY <1>1, SidesTyped
  <2>2. Len(charged) <= ReservedActions(op)
    BY <1>1, <2>1 DEF Begins
  <2>3. Sides(charged) <= ReservedSides(op)
    BY <1>1, <2>1, SidesBegin
  <2>4. actionCount + Len(charged) <= MaxActionCount
    <3>1. actionCount + BeyondFirst(ReservedActions(op)) < MaxActionCount
      BY <1>0, CandidatesFound DEF Room
    <3>. QED  BY <1>0, <1>1, <2>1, <2>2, <3>1 DEF BeyondFirst
  <2>5. CASE Sides(charged) = 0
    BY <1>0, <2>4, <2>5 DEF BudgetHeld
  <2>6. CASE Sides(charged) # 0
    <3>1. PICK i \in DOMAIN charged : charged[i] \in Irreversible
      BY <1>1, <2>6, SidesFrom
    <3>2. i \in DOMAIN b /\ charged[i] = b[i]
      BY <1>1 DEF Begins
    <3>3. charged[i] \in Candidates(op)
      BY <1>1, <3>2 DEF ActionsOf
    <3>4. sideCount + BeyondFirst(ReservedSides(op)) < MaxSideEffectCount
      BY <3>1, <3>3 DEF Room
    <3>. QED  BY <1>0, <1>1, <2>1, <2>3, <2>4, <2>6, <3>4 DEF BeyondFirst
  <2>. QED  BY <2>5, <2>6
<1>2. ASSUME NEW b \in Alternatives[op], Guarded(op), charged \in Seq(ActionType), Begins(charged,
   b)
      PROVE  /\ actionCount + Len(charged) <= MaxActionCount
             /\ sideCount + Sides(charged) <= MaxSideEffectCount
  <2>1. ActionsOf(b) \subseteq GovernedTypes(op)
    BY <1>2 DEF GovernedTypes
  <2>2. ActionsOf(b) \subseteq Candidates(op)
    BY <2>1 DEF Candidates
  <2>. QED  BY <1>0, <1>1, <1>2, <2>2, ReservedCovers
<1>3. CASE charged = <<>>
  <2>1. Len(charged) = 0 /\ Sides(charged) = 0
    BY <1>3, FS_EmptySet DEF Sides
  <2>. QED  BY <1>0, <2>1 DEF BudgetHeld
<1>4. CASE Guarded(op) /\ c.out = "done"
  <2>1. PICK b \in Alternatives[op] : c.done = Append(b, Primary[op])
    BY <1>4 DEF Accounts
  <2>2. b \in Seq(ActionType)
    BY <1>0, OperationsAssumption
  <2>3. charged = SubSeq(c.done, 1, Len(c.done) - 1)
    BY <1>4 DEF ChargedActs
  <2>4. /\ charged \in Seq(ActionType) /\ Len(charged) = Len(b)
        /\ \A i \in DOMAIN charged : charged[i] = c.done[i]
        /\ \A i \in DOMAIN b : c.done[i] = b[i]
    BY <1>0, <2>1, <2>2, <2>3
  <2>5. Begins(charged, b)
    BY <2>1, <2>2, <2>4 DEF Begins
  <2>. QED  BY <1>2, <1>4, <2>4, <2>5
<1>5. CASE Guarded(op) /\ c.out = "branch_failed"
  <2>1. PICK b \in Alternatives[op] : Begins(c.done, b)
    BY <1>5 DEF Accounts
  <2>2. charged = c.done
    BY <1>5 DEF ChargedActs
  <2>. QED  BY <1>0, <1>2, <1>5, <2>1, <2>2
<1>6. CASE ~Guarded(op) /\ Started(c.out)
  <2>1. charged = <<Primary[op]>>
    BY <1>6 DEF ChargedActs
  <2>2. charged \in Seq(ActionType) /\ Begins(charged, charged) /\ Len(charged) = 1
    BY <1>0, <2>1 DEF Begins
  <2>3. ActionsOf(charged) \subseteq Candidates(op)
    BY <1>6, <2>1 DEF ActionsOf, Candidates, GovernedTypes
  <2>4. ReservedActions(op) = 1 /\ ReservedSides(op) = Sides(charged)
    BY <1>6, <2>1 DEF ReservedActions, ReservedSides
  <2>5. Sides(charged) \in Nat
    BY <2>2, SidesTyped
  <2>6. /\ Len(charged) <= ReservedActions(op) /\ Sides(charged) <= ReservedSides(op)
        /\ ReservedActions(op) \in Nat /\ ReservedSides(op) \in Nat
    BY <2>2, <2>4, <2>5
  <2>. QED  BY <1>1, <2>2, <2>3, <2>6
<1>. QED  BY <1>3, <1>4, <1>5, <1>6 DEF ChargedActs, Started

\* An action that is dispatched moves from what is to be done to what is done.
LEMMA MovesOver ==
    ASSUME NEW T, NEW done \in Seq(T), NEW todo \in Seq(T), todo # <<>>
    PROVE  /\ Append(done, Head(todo)) \o Tail(todo) = done \o todo
           /\ Len(Append(done, Head(todo))) + Len(Tail(todo)) = Len(done) + Len(todo)
           /\ Len(Append(done, Head(todo))) = Len(done) + 1
<1>. DEFINE moved == Append(done, Head(todo)) \o Tail(todo)
<1>1. Len(moved) = Len(done \o todo)
  OBVIOUS
<1>2. ASSUME NEW i \in 1..Len(done \o todo)
      PROVE  moved[i] = (done \o todo)[i]
  OBVIOUS
<1>3. moved \in Seq(T) /\ done \o todo \in Seq(T)
  OBVIOUS
<1>4. moved = done \o todo
  BY <1>1, <1>2, <1>3, SeqEqual
<1>5. /\ Len(Append(done, Head(todo))) + Len(Tail(todo)) = Len(done) + Len(todo)
      /\ Len(Append(done, Head(todo))) = Len(done) + 1
  OBVIOUS
<1>. QED  BY <1>4, <1>5

\* Less than a branch and the operation's own action is the beginning of the branch.
LEMMA BeginsBefore ==
    ASSUME NEW T, NEW done \in Seq(T), NEW todo \in Seq(T), NEW b \in Seq(T), NEW p \in T,
           done \o todo = Append(b, p), todo # <<>>
    PROVE  Begins(done, b)
<1>1. /\ Len(done \o todo) = Len(done) + Len(todo) /\ Len(Append(b, p)) = Len(b) + 1
      /\ Len(done) \in Nat /\ Len(b) \in Nat /\ Len(todo) \in Nat /\ Len(todo) # 0
  OBVIOUS
<1>2. \A i \in DOMAIN done : (done \o todo)[i] = done[i]
  OBVIOUS
<1>3. \A i \in DOMAIN b : Append(b, p)[i] = b[i]
  OBVIOUS
<1>4. Len(done) <= Len(b)
  BY <1>1
<1>5. DOMAIN done \subseteq DOMAIN b
  BY <1>1, <1>4
<1>. QED  BY <1>2, <1>3, <1>4, <1>5 DEF Begins

\* At most one of both is at most one of each.
LEMMA OneOfBoth == \A m, n \in Nat : m + n <= 1 => m <= 1 /\ n <= 1 /\ ~(n > 1)
OBVIOUS

\* Every action of a running execution keeps the account of what it dispatched.
LEMMA ExecutesCall ==
    ASSUME TypeOK, CallInv, Executes
    PROVE  CallInv'
<1>c. call \in Call /\ call'.op = call.op
  BY ExecutesStep
<1>t. call.op \in Op /\ call.todo \in Seq(ActionType) /\ call.done \in Seq(ActionType)
  BY <1>c DEF Call
<1>1. /\ call \in Call /\ call'.op = call.op
      /\ call.op \in Op /\ call.todo \in Seq(ActionType) /\ call.done \in Seq(ActionType)
      /\ Primary[call.op] \in ActionType
  BY <1>c, <1>t, OperationsAssumption
<1>n. Len(call.done) \in Nat /\ Len(call.todo) \in Nat
  BY <1>t
<1>2. CASE Refuse
  <2>1. /\ call.stage = "select" /\ call'.stage = "settle" /\ call'.out = "refused"
        /\ call'.done = call.done
    BY <1>1, <1>2 DEF Refuse, Call
  <2>. QED  BY <1>1, <2>1 DEF CallInv, Accounts
<1>3. CASE SelectActions
  <2>1. PICK b \in IF Guarded(call.op) THEN Alternatives[call.op] ELSE {<<>>} :
          call' = [call EXCEPT !.stage = "dispatch", !.todo = Append(b, Primary[call.op])]
    BY <1>3 DEF SelectActions
  <2>2. /\ call.stage = "select" /\ call'.stage = "dispatch" /\ call'.out = call.out
        /\ call'.todo = Append(b, Primary[call.op]) /\ call'.done = call.done

    BY <1>1, <1>3, <2>1 DEF SelectActions, Call
  <2>3. call.out = "none" /\ call.done = <<>>
    BY <2>2 DEF CallInv
  <2>4. CASE Guarded(call.op)
    <3>1. b \in Alternatives[call.op] /\ Append(b, Primary[call.op]) \in Seq(ActionType)
      BY <1>1, <2>1, <2>4, SelectedTyped
    <3>2. <<>> \o Append(b, Primary[call.op]) = Append(b, Primary[call.op])
      BY <3>1
    <3>3. Follows(call', b)
      BY <1>1, <2>2, <2>3, <3>2 DEF Follows
    <3>. QED  BY <1>1, <2>2, <2>3, <2>4, <3>1, <3>3 DEF CallInv
  <2>5. CASE ~Guarded(call.op)
    <3>1. call'.todo = <<Primary[call.op]>>
      BY <2>1, <2>2, <2>5
    <3>2. Single(call')
      BY <2>2, <2>3, <3>1 DEF Single
    <3>. QED  BY <1>1, <2>2, <2>3, <2>5, <3>2 DEF CallInv
  <2>. QED  BY <2>4, <2>5
<1>4. CASE SkipAbsentTarget
  <2>1. /\ call.stage = "select" /\ call'.stage = "dispatch" /\ call'.out = "skipped"
        /\ call'.done = call.done /\ call'.todo = call.todo
        /\ ~Guarded(call.op)
    BY <1>1, <1>4, OperationsAssumption DEF SkipAbsentTarget, Call
  <2>2. call.done = <<>> /\ call.todo = <<>>
    BY <2>1 DEF CallInv
  <2>3. Single(call')
    BY <2>1, <2>2 DEF Single
  <2>. QED  BY <1>1, <2>1, <2>3 DEF CallInv
<1>5. CASE DispatchNext
  <2>. DEFINE h == Head(call.todo)
  <2>1. /\ call.stage = "dispatch" /\ call.todo # <<>>
        /\ call'.done = Append(call.done, h) /\ call'.todo = Tail(call.todo)
        /\ \/ call'.stage = "dispatch" /\ call'.out = call.out
           \/ call'.stage = "settle" /\ call'.out = "branch_failed" /\ Len(call.todo) > 1
    BY <1>1, <1>5 DEF DispatchNext, Call
  <2>2. /\ call'.done \o call'.todo = call.done \o call.todo
        /\ Len(call'.done) + Len(call'.todo) = Len(call.done) + Len(call.todo)
        /\ Len(call'.done) = Len(call.done) + 1
    BY <1>1, <2>1, MovesOver, ZenonT(60)
  <2>t. /\ call'.done \in Seq(ActionType) /\ call'.todo \in Seq(ActionType)
        /\ Len(call'.done) \in Nat /\ Len(call'.todo) \in Nat
    BY <1>1, <2>1
  <2>m. Len(call.todo) > 1 => call'.todo # <<>>
    <3>1. ASSUME NEW s \in Seq(ActionType), Len(s) > 1
          PROVE  Tail(s) # <<>>
      <4>1. Len(Tail(s)) = Len(s) - 1 /\ Len(s) \in Nat /\ Tail(s) \in Seq(ActionType)
        BY <3>1
      <4>2. Len(Tail(s)) # 0
        BY <3>1, <4>1
      <4>. QED  BY <4>1, <4>2, EmptySeq
    <3>. QED  BY <1>1, <2>1, <3>1
  <2>3. CASE Guarded(call.op)
    <3>1. PICK b \in Alternatives[call.op] : Follows(call, b)
      BY <2>1, <2>3 DEF CallInv
    <3>2. b \in Seq(ActionType)
      BY <1>1, OperationsAssumption
    <3>3. Follows(call', b)
      BY <1>1, <2>2, <3>1 DEF Follows
    <3>4. Len(call.todo) > 1 => Begins(call'.done, b)
      BY <1>1, <2>t, <2>m, <3>2, <3>3, BeginsBefore DEF Follows
    <3>5. call.out = "none"
      BY <2>1, <2>3 DEF CallInv
    <3>. QED  BY <1>1, <2>1, <2>2, <2>3, <3>3, <3>4, <3>5 DEF CallInv, Accounts
  <2>4. CASE ~Guarded(call.op)
    <3>1. Len(call.done) + Len(call.todo) <= 1
      BY <2>1, <2>4 DEF CallInv, Single
    <3>2. ~(Len(call.todo) > 1)
      BY <1>n, <3>1, OneOfBoth
    <3>3. call'.stage = "dispatch" /\ call'.out = call.out
      BY <2>1, <3>2
    <3>4. call'.stage # "settle"
      BY <3>3
    <3>5. Single(call')
      BY <2>2, <3>1 DEF Single
    <3>. QED  BY <1>1, <2>1, <2>4, <3>3, <3>4, <3>5 DEF CallInv
  <2>. QED  BY <2>3, <2>4
<1>6. CASE Verify
  <2>1. /\ call.stage = "dispatch" /\ call.todo = <<>> /\ call'.stage = "settle"
        /\ call'.out = (IF call.out = "skipped" THEN "skipped" ELSE "done")
        /\ call'.done = call.done
    BY <1>1, <1>6 DEF Verify, Call
  <2>2. CASE Guarded(call.op)
    <3>1. PICK b \in Alternatives[call.op] : Follows(call, b)
      BY <2>1, <2>2 DEF CallInv
    <3>2. call.done \o <<>> = call.done
      BY <1>1
    <3>3. call.done = Append(b, Primary[call.op])
      BY <2>1, <3>1, <3>2 DEF Follows
    <3>4. call.out = "none"
      BY <2>1, <2>2 DEF CallInv
    <3>. QED  BY <1>1, <2>1, <2>2, <3>3, <3>4 DEF CallInv, Accounts
  <2>3. CASE ~Guarded(call.op)
    <3>1. Len(call.done) <= 1
      BY <1>n, <2>1, <2>3, OneOfBoth DEF CallInv, Single
    <3>. QED  BY <1>1, <2>1, <2>3, <3>1 DEF CallInv, Accounts
  <2>. QED  BY <2>2, <2>3
<1>7. CASE Fault
  <2>1. /\ call.stage \in {"select", "dispatch"} /\ call'.stage = "settle" /\ call'.out = "fault"
        /\ call'.done = call.done
    BY <1>1, <1>7 DEF Fault, Call
  <2>2. ASSUME ~Guarded(call.op)
        PROVE  Len(call.done) <= 1
    <3>1. \/ call.done = <<>>
          \/ Len(call.done) + Len(call.todo) <= 1
      BY <2>1, <2>2 DEF CallInv, Single
    <3>2. Len(<<>>) <= 1
      OBVIOUS
    <3>. QED  BY <1>n, <3>1, <3>2, OneOfBoth
  <2>. QED  BY <1>1, <2>1, <2>2 DEF CallInv, Accounts
<1>. QED  BY <1>2, <1>3, <1>4, <1>5, <1>6, <1>7 DEF Executes

\* Every dispatch is counted, and listed by the call that made it.
LEMMA ExecutesCounts ==
    ASSUME TypeOK, Executes
    PROVE  attempts' + Len(call.done) = attempts + Len(call'.done)
<1>1. /\ call \in Call /\ call.todo \in Seq(ActionType) /\ call.done \in Seq(ActionType)
      /\ attempts \in Nat
  BY ExecutesStep DEF TypeOK, Call
<1>2. CASE Refuse \/ SelectActions \/ SkipAbsentTarget \/ Verify \/ Fault
  <2>1. call'.done = call.done /\ attempts' = attempts
    BY <1>1, <1>2 DEF Refuse, SelectActions, SkipAbsentTarget, Verify, Fault, Call, allButCall,
       ledger
  <2>. QED  BY <2>1
<1>3. CASE DispatchNext
  <2>1. /\ call.todo # <<>> /\ attempts' = attempts + 1
        /\ call'.done = Append(call.done, Head(call.todo))
    BY <1>1, <1>3 DEF DispatchNext, Call
  <2>2. Len(call'.done) = Len(call.done) + 1 /\ Len(call.done) \in Nat
    BY <1>1, <2>1, MovesOver
  <2>3. \A k, m \in Nat : (k + 1) + m = k + (m + 1)
    OBVIOUS
  <2>. QED  BY <1>1, <2>1, <2>2, <2>3, Zenon
<1>. QED  BY <1>2, <1>3 DEF Executes

\* A new session has been charged for nothing.
LEMMA BudgetInit == Init => BudgetInv
<1>. SUFFICES ASSUME Init PROVE BudgetInv
  OBVIOUS
<1>1. /\ call.stage = "free" /\ call.out = "none" /\ call.done = <<>> /\ call.todo = <<>>
      /\ attempts = 0 /\ actionCount = 0 /\ sideCount = 0
  BY DEF Init, Free
<1>2. CallInv
  BY <1>1 DEF CallInv
<1>3. BudgetHeld
  BY <1>1, PolicyAssumption DEF BudgetHeld
<1>4. attempts <= actionCount + Len(call.done)
  BY <1>1
<1>. QED  BY <1>1, <1>2, <1>3, <1>4 DEF BudgetInv, Dispatching

\* The chain had nothing uncharged before it grew if it has nothing afterwards.
LEMMA ChargedBefore ==
    ASSUME TypeOK, NEW r, chain' \in {chain, Append(chain, r)},
       \A i \in DOMAIN chain' : ~Uncharged(chain'[i])
    PROVE  /\ \A i \in DOMAIN chain : ~Uncharged(chain[i])
           /\ chain' # chain => ~Uncharged(r)
<1>1. chain \in Seq(Receipt)
  BY DEF TypeOK
<1>2. CASE chain' = Append(chain, r)
  <2>1. /\ DOMAIN chain' = DOMAIN chain \cup {Len(chain) + 1}
        /\ \A i \in DOMAIN chain : chain'[i] = chain[i]
        /\ chain'[Len(chain) + 1] = r
    BY <1>1, <1>2
  <2>2. \A i \in DOMAIN chain : ~Uncharged(chain[i])
    BY <2>1
  <2>3. ~Uncharged(r)
    BY <2>1
  <2>. QED  BY <2>2, <2>3
<1>. QED  BY <1>2

\* A receipt that does not say less than was dispatched charges for all of it.
LEMMA ChargedFor ==
    ASSUME NEW c \in Call, Accounts(c), ~Uncharged(ReceiptOf(c, c.out))
    PROVE  Len(c.done) <= Len(ChargedActs(c.op, c.out, c.done))
<1>1. c.done \in Seq(ActionType) /\ c.op \in Op /\ c.out \in Outcomes /\ Len(c.done) \in Nat
  BY DEF Call
<1>2. c.out # "fault" /\ ~(Guarded(c.op) /\ c.out = "done") /\ c.out # "none"
  BY DEF Uncharged, ReceiptOf, Accounts
<1>3. CASE Guarded(c.op) /\ c.out = "branch_failed"
  <2>1. ChargedActs(c.op, c.out, c.done) = c.done
    BY <1>3 DEF ChargedActs
  <2>. QED  BY <1>1, <2>1
<1>4. CASE ~Guarded(c.op) /\ Started(c.out)
  <2>1. Len(ChargedActs(c.op, c.out, c.done)) = 1
    BY <1>4 DEF ChargedActs
  <2>. QED  BY <1>4, <2>1 DEF Accounts
<1>5. CASE c.out = "refused"
  <2>1. c.done = <<>> /\ ChargedActs(c.op, c.out, c.done) = <<>>
    BY <1>5 DEF Accounts, ChargedActs, Started
  <2>. QED  BY <2>1
<1>. QED  BY <1>1, <1>2, <1>3, <1>4, <1>5 DEF Accounts, Outcomes, Started

\* Every step keeps the budget invariant.
LEMMA BudgetNext == TypeOK /\ BudgetInv /\ [Next]_vars => BudgetInv'
<1>. SUFFICES ASSUME TypeOK, BudgetInv, [Next]_vars PROVE BudgetInv'
  OBVIOUS
<1>. USE DEF budget
<1>0. /\ CallInv /\ BudgetHeld
      /\ actionCount \in Nat /\ sideCount \in Nat /\ attempts \in Nat
      /\ call # Free => call \in Call
  BY DEF BudgetInv, TypeOK
<1>f. /\ Free.stage = "free" /\ Free.out = "none" /\ Free.done = <<>> /\ Free.todo = <<>>
  BY DEF Free
<1>i. ~Dispatching => call.done = <<>>
  BY <1>0 DEF Dispatching, CallInv
<1>1. ASSUME UNCHANGED <<budget, attempts>>, ~Dispatching, ~Dispatching',
             call'.out = "none", call'.done = <<>>, call'.todo = <<>>,
             NEW r, chain' \in {chain, Append(chain, r)}
      PROVE  BudgetInv'
  <2>1. CallInv'
    BY <1>1 DEF CallInv, Dispatching
  <2>2. (\A i \in DOMAIN chain' : ~Uncharged(chain'[i])) => attempts <= actionCount + Len(call.done)
    BY <1>1, ChargedBefore DEF BudgetInv
  <2>. QED  BY <1>1, <1>i, <2>1, <2>2 DEF BudgetInv, BudgetHeld
<1>2. CASE Quiet
  <2>1. CASE call' = call
    BY <1>2, <2>1 DEF Quiet, BudgetInv, BudgetHeld, CallInv, Accounts, Dispatching, Room, Follows,
       Single
  <2>. QED  BY <1>1, <1>2, <2>1 DEF Quiet
<1>3. CASE Executes
  <2>1. CallInv'
    BY <1>0, <1>3, ExecutesCall
  <2>2. UNCHANGED <<planIdx, chain, budget>> /\ call \in Call /\ Dispatching /\ call'.op = call.op
    BY <1>3, ExecutesStep
  <2>3. BudgetHeld' /\ Room(call.op)'
    BY <2>2 DEF BudgetInv, BudgetHeld, Room
  <2>4. attempts <= actionCount + Len(call.done) => attempts' <= actionCount' + Len(call'.done)
    <3>1. attempts' + Len(call.done) = attempts + Len(call'.done)
      BY <1>3, ExecutesCounts
    <3>2. /\ Len(call.done) \in Nat /\ Len(call'.done) \in Nat /\ attempts' \in Nat
          /\ actionCount' = actionCount
      BY <2>2, NextTyped, SMTT(60) DEF TypeOK, Call, Free
    <3>3. \A j, k, l, m, n \in Nat : k <= j + m /\ l + m = k + n => l <= j + n
      OBVIOUS
    <3>. QED  BY <1>0, <3>1, <3>2, <3>3
  <2>. QED  BY <2>1, <2>2, <2>3, <2>4 DEF BudgetInv
<1>4. ASSUME NEW c \in Call, Admits(c)
      PROVE  BudgetInv'
  <2>0. UNCHANGED <<actionCount, sideCount, attempts>> /\ ~Dispatching
    BY <1>4 DEF Admits
  <2>1. CASE call' = Free /\ chain' \in {chain, Append(chain, ReceiptOf(c, "refused"))}
    BY <1>1, <2>0, <2>1, <1>f DEF Dispatching
  <2>2. CASE /\ chain' = chain /\ Authorized(c.op)
             /\ call'.stage = "select" /\ call'.op = c.op /\ call'.out = "none"
             /\ call'.done = <<>> /\ call'.todo = <<>>
    <3>1. Room(c.op)
      BY <2>2, AuthorizedRoom DEF Call
    <3>2. Room(c.op)'
      BY <2>0, <3>1 DEF Room
    <3>3. CallInv'
      BY <2>2 DEF CallInv
    <3>. QED  BY <1>i, <2>0, <2>2, <3>2, <3>3 DEF BudgetInv, BudgetHeld
  <2>. QED  BY <1>4, <2>1, <2>2, AdmitsStep
<1>5. CASE Settle
  <2>. DEFINE charged == ChargedActs(call.op, call.out, call.done)
              r == ReceiptOf(call, call.out)
  <2>1. call \in Call /\ call.stage = "settle" /\ call.op \in Op
    BY <1>5, <1>0, <1>f DEF Settle, Call
  <2>2. Accounts(call) /\ Room(call.op)
    BY <2>1, <1>0 DEF CallInv, BudgetInv, Dispatching
  <2>3. /\ actionCount' = actionCount + Len(charged) /\ sideCount' = sideCount + Sides(charged)
        /\ chain' = Append(chain, r) /\ attempts' = attempts /\ call' = Free
    BY <1>5 DEF Settle
  <2>4. BudgetHeld'
    BY <1>0, <2>1, <2>2, <2>3, ChargeFits DEF BudgetHeld
  <2>5. ASSUME \A i \in DOMAIN chain' : ~Uncharged(chain'[i])
        PROVE  attempts' <= actionCount' + Len(call'.done)
    <3>1. \A i \in DOMAIN chain : ~Uncharged(chain[i])
      BY <2>3, <2>5, ChargedBefore
    <3>2. ~Uncharged(r)
      <4>1. DOMAIN chain' = DOMAIN chain \cup {Len(chain) + 1} /\ chain'[Len(chain) + 1] = r
        BY <2>3 DEF TypeOK
      <4>. QED  BY <2>5, <4>1
    <3>3. Len(call.done) <= Len(charged)
      BY <2>1, <2>2, <3>2, ChargedFor
    <3>4. attempts <= actionCount + Len(call.done)
      BY <3>1 DEF BudgetInv
    <3>5. Len(charged) \in Nat /\ Len(call.done) \in Nat
      BY <2>1, ChargeTyped DEF Call
    <3>6. \A j, k, m, n \in Nat : k <= j + m /\ m <= n => k <= (j + n) + 0
      OBVIOUS
    <3>7. Len(call'.done) = 0
      BY <2>3, <1>f
    <3>. QED  BY <1>0, <2>3, <3>3, <3>4, <3>5, <3>6, <3>7
  <2>6. CallInv' /\ ~Dispatching'
    BY <2>3, <1>f DEF CallInv, Dispatching
  <2>. QED  BY <2>4, <2>5, <2>6 DEF BudgetInv
<1>6. CASE BindSignedPlan
  BY <1>1, <1>6, <1>f DEF BindSignedPlan, Dispatching
<1>. QED  BY <1>2, <1>3, <1>4, <1>5, <1>6, <1>0, StepKinds

\* What was charged stays within the host's budgets, and, apart from the receipts that
\* say less than was dispatched, so does what reached the browser.
LEMMA BudgetBounds == TypeOK /\ BudgetInv => BudgetsHold
<1>. SUFFICES ASSUME TypeOK, BudgetInv PROVE BudgetsHold
  OBVIOUS
<1>0. /\ actionCount \in Nat /\ MaxActionCount \in Nat /\ attempts \in Nat
      /\ actionCount <= MaxActionCount
  BY PolicyAssumption DEF TypeOK, BudgetInv, BudgetHeld
<1>1. ASSUME \A i \in DOMAIN chain : ~Uncharged(chain[i]), call # Free => ~Guarded(call.op)
      PROVE  attempts <= MaxActionCount
  <2>1. attempts <= actionCount + Len(call.done)
    BY <1>1 DEF BudgetInv
  <2>2. CASE call.done = <<>>
    BY <1>0, <2>1, <2>2
  <2>3. CASE call.done # <<>>
    <3>1. Dispatching
      BY <2>3 DEF BudgetInv, CallInv, Dispatching
    <3>2. /\ call \in Call /\ ~Guarded(call.op) /\ call.op \in Op
          /\ Len(call.done) \in Nat /\ Len(call.todo) \in Nat
      BY <1>1, <3>1 DEF Dispatching, Free, TypeOK, Call
    <3>3. Len(call.done) <= 1
      <4>1. CASE call.stage = "dispatch"
        BY <3>2, <4>1, OneOfBoth DEF BudgetInv, CallInv, Single
      <4>2. CASE call.stage = "settle"
        BY <3>2, <4>2 DEF BudgetInv, CallInv, Accounts
      <4>. QED  BY <2>3, <3>1, <4>1, <4>2 DEF BudgetInv, CallInv, Dispatching
    <3>4. ReservedActions(call.op) = 1
      BY <3>2 DEF ReservedActions
    <3>5. actionCount + 0 < MaxActionCount
      BY <3>1, <3>2, <3>4, CandidatesFound DEF BudgetInv, Room, BeyondFirst
    <3>6. \A j, k, m, n \in Nat : k <= j + m /\ m <= 1 /\ j + 0 < n => k <= n
      OBVIOUS
    <3>. QED  BY <1>0, <2>1, <3>2, <3>3, <3>5, <3>6
  <2>. QED  BY <2>2, <2>3
<1>. QED  BY <1>1 DEF BudgetsHold, DispatchesCharged, BudgetInv

\* The budgets the host set hold: AuthorityFirewall.decide admits nothing they cannot
\* pay, whatever branch the page selects and wherever an operation ends.
THEOREM BudgetsAreHeld == Spec => []BudgetsHold
<1>1. Spec => []BudgetInv
  BY BudgetInit, BudgetNext, TypeCorrect, PTL DEF Spec
<1>. QED  BY <1>1, BudgetBounds, TypeCorrect, PTL

\* The recorded dispatches of a signed plan are its steps, each once and in order, and a
\* step goes to the browser again only after an attempt that failed there
\* (_require_signed_plan_operation and the advance of signed_plan_next_index).
THEOREM PlanIsFollowed == Spec => []PlanOnceInOrder
<1>1. PlanInv /\ StepsInv => PlanOnceInOrder
  BY DEF PlanInv, StepsInv, PlanOnceInOrder
<1>2. BudgetInv => CallInv
  BY DEF BudgetInv
<1>3. Spec => []BudgetInv
  BY BudgetInit, BudgetNext, TypeCorrect, PTL DEF Spec
<1>4. Spec => []PlanInv
  BY <1>2, <1>3, PlanInit, PlanNext, TypeCorrect, PTL DEF Spec
<1>5. Spec => []StepsInv
  BY <1>2, <1>3, StepsInit, StepsNext, TypeCorrect, PTL DEF Spec
<1>. QED  BY <1>1, <1>4, <1>5, PTL
=============================================================================
