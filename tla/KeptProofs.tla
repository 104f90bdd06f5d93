----------------------------- MODULE KeptProofs -----------------------------
(***************************************************************************)
(* What is relied on after a session is what it was.  What a signed plan    *)
(* allows is all that is done under it, and what is accepted as a kept      *)
(* chain is the chain that was kept; a name of the artifact store holds     *)
(* what was verified, and a live session's files are touched by its own     *)
(* download only; a browser context holds what its own pages left or what a *)
(* document validated for it brought.  Proved for every number of sessions, *)
(* agents, identities, signers, statements, receipts, downloads, names,     *)
(* contexts and documents, and for every damage of the kept copy.  Each     *)
(* part has an inductive invariant of its own, stated before its lemmas.    *)
(***************************************************************************)
EXTENDS MCKept, SequenceTheorems, WellFoundedInduction, TLAPS

(* The sessions.                                                            *)

Offers == [to : Agent, who : Assertion \cup {Nothing}]
Bindings == [agent : Agent, who : Assertion \cup {Nothing}, plan : Statement \cup {Nothing},
             offer : Offers \cup {NoOffer}, at : {"idle", "consume", "acts"},
             takes : Statement \cup {Nothing}, seen : Nat]

\* The host's side has its type.
TypeInv ==
    /\ clock \in Nat /\ sess \in [Session -> Bindings]
    /\ uses \in [Statement -> Nat] /\ bound \in [Statement -> Nat]

\* A session acts as the identity of its plan, on assertions made out to its
\* controller; a plan that is being bound is of the identity the session has.
ActsOk(r) ==
    /\ r.plan # Nothing /\ r.plan.identity # Nothing => IdOf(r.who) = r.plan.identity
    /\ r.at = "acts" /\ r.who # Nothing => r.who.scope \in {Nothing, r.agent}
    /\ r.at = "consume" => r.takes \in Statement /\ r.takes.identity \in {Nothing, IdOf(r.who)}

\* So do its receipts.
ActsInv ==
    /\ \A s \in Session : ActsOk(sess[s])
    /\ \A x \in acted : x[1].identity # Nothing => x[2] = x[1].identity

\* Session s is between the check of plan p and the note of its use.
Binds(s, p) == sess[s].at = "consume" /\ sess[s].takes = p

\* A plan that was never verified twice at a time is bound no more often than the
\* cache says while it has not expired, and who is binding it has seen them all.
UseOk(p) ==
    /\ bound[p] <= p.allowed
    /\ clock < p.until => bound[p] <= uses[p]
    /\ \A s \in Session : Binds(s, p) => bound[p] <= sess[s].seen /\ sess[s].seen < p.allowed
    /\ \A s, t \in Session : Binds(s, p) /\ Binds(t, p) => s = t
UsesInv == \A p \in Statement \ raced : UseOk(p)

\* A step on session s: the others stay as they are.
Sets(s, d) == d \in Bindings /\ ActsOk(d) /\ sess' = [sess EXCEPT ![s] = d]

LEMMA FreshOk == ASSUME NEW a \in Agent PROVE Fresh(a) \in Bindings /\ ActsOk(Fresh(a))
BY DEF Fresh, NoOffer, Offers, Bindings, ActsOk

\* Setting one field of an idle session.
LEMMA SetsWho ==
    ASSUME TypeInv, ActsInv, NEW s \in Session, sess[s].at = "idle",
           NEW w \in Assertion \cup {Nothing}, WithinPlan(s, w), Put(s, "who", w)
    PROVE  \E d : Sets(s, d) /\ d.at = "idle"
<1>. DEFINE d == [sess[s] EXCEPT !["who"] = w]
<1>1. sess[s] \in Bindings /\ sess' = [sess EXCEPT ![s] = d]
  BY DEF TypeInv, Put
<1>2. d \in Bindings /\ d.who = w /\ d.plan = sess[s].plan /\ d.at = "idle"
  BY <1>1 DEF Bindings
<1>3. ActsOk(d)
  BY <1>2 DEF ActsOk, WithinPlan
<1>. HIDE DEF d
<1>. QED  BY <1>1, <1>2, <1>3 DEF Sets

LEMMA SetsOffer ==
    ASSUME TypeInv, ActsInv, NEW s \in Session, sess[s].at = "idle",
           NEW o \in Offers, Put(s, "offer", o)
    PROVE  \E d : Sets(s, d) /\ d.at = "idle"
<1>. DEFINE d == [sess[s] EXCEPT !["offer"] = o]
<1>1. sess[s] \in Bindings /\ sess' = [sess EXCEPT ![s] = d] /\ ActsOk(sess[s])
  BY DEF TypeInv, Put, ActsInv
<1>2. d \in Bindings /\ d.who = sess[s].who /\ d.plan = sess[s].plan /\ d.at = "idle"
  BY <1>1 DEF Bindings
<1>3. ActsOk(d)
  BY <1>1, <1>2 DEF ActsOk
<1>. HIDE DEF d
<1>. QED  BY <1>1, <1>2, <1>3 DEF Sets

LEMMA SetsAt ==
    ASSUME TypeInv, ActsInv, NEW s \in Session, NEW place \in {"idle", "acts"}, Put(s, "at", place),
           place = "acts" /\ sess[s].who # Nothing => sess[s].who.scope \in {Nothing, sess[s].agent}
    PROVE  \E d : Sets(s, d) /\ d.at = place
<1>. DEFINE d == [sess[s] EXCEPT !["at"] = place]
<1>1. sess[s] \in Bindings /\ sess' = [sess EXCEPT ![s] = d] /\ ActsOk(sess[s])
  BY DEF TypeInv, Put, ActsInv
<1>2. /\ d \in Bindings /\ d.who = sess[s].who /\ d.plan = sess[s].plan /\ d.at = place
      /\ d.agent = sess[s].agent
  BY <1>1 DEF Bindings
<1>3. ActsOk(d)
  BY <1>1, <1>2 DEF ActsOk
<1>. HIDE DEF d
<1>. QED  BY <1>1, <1>2, <1>3 DEF Sets

\* The receipt of what was done is under the identity of the plan.
LEMMA SetsKeeps ==
    ASSUME TypeInv, ActsInv, NEW s \in Session, NEW d, Sets(s, d),
           \/ acted' = acted
           \/ /\ sess[s].plan # Nothing
              /\ acted' = acted \cup {<<sess[s].plan, IdOf(sess[s].who)>>}
    PROVE  ActsInv' /\ sess' \in [Session -> Bindings]
<1>1. \A t \in Session : ActsOk(sess'[t])
  BY DEF Sets, TypeInv, ActsInv
<1>2. \A x \in acted' : x[1].identity # Nothing => x[2] = x[1].identity
  <2>1. ActsOk(sess[s])
    BY DEF ActsInv
  <2>2. sess[s].plan # Nothing /\ sess[s].plan.identity # Nothing
            => IdOf(sess[s].who) = sess[s].plan.identity
    BY <2>1 DEF ActsOk
  <2>3. \A x \in acted : x[1].identity # Nothing => x[2] = x[1].identity
    BY DEF ActsInv
  <2>. QED  BY <2>2, <2>3
<1>3. sess' \in [Session -> Bindings]
  BY DEF Sets, TypeInv
<1>. QED  BY <1>1, <1>2, <1>3 DEF ActsInv

\* A step that begins no binding leaves the uses as they were counted.
LEMMA UsesKept ==
    ASSUME TypeInv, UsesInv, UNCHANGED <<uses, bound, raced>>, clock' \in Nat, clock <= clock',
           \A s \in Session : sess'[s].at = "consume" =>
               /\ sess[s].at = "consume"
               /\ sess'[s].takes = sess[s].takes /\ sess'[s].seen = sess[s].seen
    PROVE  UsesInv'
<1>. SUFFICES ASSUME NEW p \in Statement \ raced PROVE UseOk(p)'
  BY DEF UsesInv
<1>1. UseOk(p)
  BY DEF UsesInv
<1>2. \A s \in Session : Binds(s, p)' => Binds(s, p) /\ sess'[s].seen = sess[s].seen
  BY DEF Binds
<1>3. clock' < p.until => clock < p.until
  BY StatementsAssumption DEF TypeInv
<1>. QED  BY <1>1, <1>2, <1>3 DEF UseOk
\* What the cache still says of a plan that has not expired.
LEMMA PrunedSays ==
    ASSUME TypeInv, NEW p \in Statement
    PROVE  Pruned[p] \in Nat /\ (clock < p.until => Pruned[p] = uses[p])
BY StatementsAssumption DEF TypeInv, Pruned

LEMMA CheckKeeps ==
    ASSUME TypeInv, ActsInv, UsesInv, NEW s \in Session, NEW p \in Statement, PlanChecked(s, p)
    PROVE  TypeInv' /\ ActsInv' /\ UsesInv'
<1>. DEFINE d == [[[sess[s] EXCEPT !.at = "consume"] EXCEPT !.takes = p] EXCEPT !.seen = Pruned[p]]
<1>1. /\ sess[s] \in Bindings /\ sess[s].at = "idle" /\ ActsOk(sess[s]) /\ Pruned[p] \in Nat
      /\ clock < p.until /\ Pruned[p] = uses[p] /\ Pruned[p] < p.allowed
      /\ p.identity \in {Nothing, IdOf(sess[s].who)}
      /\ uses' = Pruned /\ UNCHANGED <<clock, bound, acted>>
  BY PrunedSays DEF TypeInv, ActsInv, PlanChecked, Idle, Authentic, MayUse, InScope
<1>2. sess' = [sess EXCEPT ![s] = d]
  BY DEF PlanChecked, TypeInv
<1>3. /\ d \in Bindings /\ d.at = "consume" /\ d.takes = p /\ d.seen = uses[p]
      /\ d.who = sess[s].who /\ d.plan = sess[s].plan
  BY <1>1 DEF Bindings
<1>4. ActsOk(d)
  BY <1>1, <1>3 DEF ActsOk
<1>. HIDE DEF d
<1>5. Sets(s, d)
  BY <1>2, <1>3, <1>4 DEF Sets
<1>6. ActsInv' /\ sess' \in [Session -> Bindings]
  BY <1>1, <1>5, SetsKeeps
<1>7. TypeInv'
  BY <1>1, <1>6, PrunedSays DEF TypeInv, Pruned
<1>8. /\ raced' \in {raced, raced \cup {p}}
      /\ (\E t \in Session : Binds(t, p)) => p \in raced'
  BY DEF PlanChecked, Binds
<1>9. ASSUME NEW q \in Statement \ raced' PROVE UseOk(q)'
  <2>1. UseOk(q)
    BY <1>8 DEF UsesInv
  <2>2. clock < q.until => uses'[q] = uses[q]
    BY <1>1, PrunedSays
  <2>3. \A t \in Session \ {s} : sess'[t] = sess[t]
    BY <1>2 DEF TypeInv
  <2>4. sess'[s] = d
    BY <1>2 DEF TypeInv
  <2>5. \A t \in Session \ {s} : (Binds(t, q)' <=> Binds(t, q)) /\ sess'[t].seen = sess[t].seen
    BY <2>3 DEF Binds
  <2>6. Binds(s, q)' => q = p /\ sess'[s].seen = uses[q]
    BY <1>3, <2>4 DEF Binds
  <2>7. q = p => \A t \in Session : ~Binds(t, q)
    BY <1>8
  <2>8. q = p => bound[q] <= uses[q] /\ uses[q] < q.allowed
    BY <1>1, <2>1 DEF UseOk
  <2>. QED  BY <1>1, <2>1, <2>2, <2>5, <2>6, <2>7, <2>8 DEF UseOk
<1>. QED  BY <1>6, <1>7, <1>9 DEF UsesInv

LEMMA BoundKeeps ==
    ASSUME TypeInv, ActsInv, UsesInv, NEW s \in Session, PlanBound(s)
    PROVE  TypeInv' /\ ActsInv' /\ UsesInv'
<1>. DEFINE r == sess[s]
            p == sess[s].takes
            d == [[[[sess[s] EXCEPT !.at = "idle"] EXCEPT !.plan = p] EXCEPT !.takes = Nothing]
                     EXCEPT !.seen = 0]
<1>1. /\ r \in Bindings /\ r.at = "consume" /\ ActsOk(r)
      /\ p \in Statement /\ p.identity \in {Nothing, IdOf(r.who)} /\ r.seen \in Nat
      /\ uses' = [uses EXCEPT ![p] = r.seen + 1] /\ bound' = [bound EXCEPT ![p] = @ + 1]
      /\ UNCHANGED <<clock, raced, acted>>
  BY DEF TypeInv, ActsInv, ActsOk, PlanBound, Bindings
<1>2. sess' = [sess EXCEPT ![s] = d]
  BY DEF PlanBound, TypeInv
<1>3. d \in Bindings /\ d.at = "idle" /\ d.plan = p /\ d.who = r.who
  BY <1>1 DEF Bindings
<1>4. ActsOk(d)
  BY <1>1, <1>3 DEF ActsOk
<1>. HIDE DEF d
<1>5. Sets(s, d)
  BY <1>2, <1>3, <1>4 DEF Sets
<1>6. ActsInv' /\ sess' \in [Session -> Bindings]
  BY <1>1, <1>5, SetsKeeps
<1>7. TypeInv'
  BY <1>1, <1>6 DEF TypeInv
<1>8. ASSUME NEW q \in Statement \ raced' PROVE UseOk(q)'
  <2>1. UseOk(q) /\ q \notin raced
    BY <1>1, <1>8 DEF UsesInv
  <2>2. /\ \A t \in Session \ {s} : sess'[t] = sess[t]
        /\ sess'[s] = d
    BY <1>2 DEF TypeInv
  <2>3. \A t \in Session : Binds(t, q)' => t # s /\ Binds(t, q) /\ sess'[t].seen = sess[t].seen
    BY <1>3, <2>2 DEF Binds
  <2>4. CASE q = p
    <3>1. Binds(s, q)
      BY <1>1, <2>4 DEF Binds
    <3>2. bound[q] <= r.seen /\ r.seen < q.allowed /\ \A t \in Session : Binds(t, q) => t = s
      BY <2>1, <3>1 DEF UseOk
    <3>3. \A t \in Session : ~Binds(t, q)'
      BY <2>3, <3>2
    <3>4. /\ bound'[q] = bound[q] + 1 /\ uses'[q] = r.seen + 1
          /\ bound[q] \in Nat /\ q.allowed \in Nat
      BY <1>1, <2>4, StatementsAssumption DEF TypeInv
    <3>. QED  BY <1>1, <3>2, <3>3, <3>4 DEF UseOk
  <2>5. CASE q # p
    <3>1. bound'[q] = bound[q] /\ uses'[q] = uses[q]
      BY <1>1, <2>5 DEF TypeInv
    <3>. QED  BY <1>1, <2>1, <2>3, <3>1 DEF UseOk
  <2>. QED  BY <2>4, <2>5
<1>. QED  BY <1>6, <1>7, <1>8 DEF UsesInv

\* The inductive invariant of the bindings.
BindingInv == TypeInv /\ ActsInv /\ UsesInv

LEMMA BindingInit == Init => BindingInv
<1>. SUFFICES ASSUME Init PROVE BindingInv
  OBVIOUS
<1>1. PICK a \in Agent : sess = [s \in Session |-> Fresh(a)]
  BY DEF Init
<1>2. Fresh(a) \in Bindings /\ ActsOk(Fresh(a)) /\ Fresh(a).at = "idle"
  BY FreshOk DEF Fresh
<1>3. TypeInv /\ ActsInv
  BY <1>1, <1>2 DEF Init, TypeInv, ActsInv
<1>4. \A p \in Statement : UseOk(p)
  BY <1>1, <1>2, StatementsAssumption DEF Init, UseOk, Binds
<1>. QED  BY <1>3, <1>4 DEF BindingInv, UsesInv

\* A step that neither checks nor notes a plan.
LEMMA SetKeeps ==
    ASSUME BindingInv, NEW s \in Session, NEW d, Sets(s, d), d.at # "consume",
           UNCHANGED <<clock, uses, bound, raced>>,
           \/ acted' = acted
           \/ /\ sess[s].plan # Nothing
              /\ acted' = acted \cup {<<sess[s].plan, IdOf(sess[s].who)>>}
    PROVE  BindingInv'
<1>1. ActsInv' /\ TypeInv'
  BY SetsKeeps DEF BindingInv, TypeInv
<1>2. \A t \in Session : t # s => sess'[t] = sess[t]
  BY DEF Sets, BindingInv, TypeInv
<1>3. sess'[s].at # "consume"
  BY DEF Sets, BindingInv, TypeInv
<1>4. UsesInv'
  BY <1>2, <1>3, UsesKept DEF BindingInv, TypeInv
<1>. QED  BY <1>1, <1>4 DEF BindingInv

LEMMA BindingNext == BindingInv /\ [Next]_vars => BindingInv'
<1>. SUFFICES ASSUME BindingInv, [Next]_vars PROVE BindingInv'
  OBVIOUS
<1>0. TypeInv /\ ActsInv /\ UsesInv
  BY DEF BindingInv
<1>1. ASSUME clock' \in Nat, clock <= clock', UNCHANGED <<uses, bound, raced, sess, acted>>
      PROVE  BindingInv'
  BY <1>0, <1>1, UsesKept DEF BindingInv, TypeInv, ActsInv
<1>2. CASE Hosting \/ UNCHANGED vars
  <2>1. UNCHANGED <<uses, bound, raced, sess, acted>> /\ clock' \in {clock, clock + 1}
    BY <1>2 DEF Hosting, Tick, RegisterIdentity, Revoke, ReplaceSigner, vars, host
  <2>. QED  BY <1>0, <1>1, <2>1 DEF TypeInv
<1>3. CASE Decaying
  <2>1. UNCHANGED <<clock, uses, bound, raced, sess, acted>>
    BY <1>3 DEF Decaying, Loses, Repeats, Swaps, Alters, Strays, Reseals, Legacy, Damages, host
  <2>. QED  BY <1>0, <1>1, <2>1 DEF TypeInv
<1>4. ASSUME NEW s \in Session, NEW p \in Statement, PlanChecked(s, p) PROVE BindingInv'
  BY <1>0, <1>4, CheckKeeps DEF BindingInv
<1>5. ASSUME NEW s \in Session, PlanBound(s) PROVE BindingInv'
  BY <1>0, <1>5, BoundKeeps DEF BindingInv
<1>6. ASSUME NEW s \in Session, NEW w \in Assertion, BindIdentity(s, w) PROVE BindingInv'
  <2>1. PICK d : Sets(s, d) /\ d.at = "idle"
    BY <1>0, <1>6, SetsWho DEF BindIdentity, Idle
  <2>. QED  BY <1>6, <2>1, SetKeeps DEF BindIdentity, host
<1>7. ASSUME NEW s \in Session, NEW a \in Agent, NEW w \in Assertion \cup {Nothing},
             OfferHandoff(s, a, w)
      PROVE  BindingInv'
  <2>1. [to |-> a, who |-> w] \in Offers
    BY DEF Offers
  <2>2. PICK d : Sets(s, d) /\ d.at = "idle"
    BY <1>0, <1>7, <2>1, SetsOffer DEF OfferHandoff, Idle
  <2>. QED  BY <1>7, <2>2, SetKeeps DEF OfferHandoff, host
<1>8. ASSUME NEW s \in Session, ClaimHandoff(s) PROVE BindingInv'
  <2>. DEFINE o == sess[s].offer
              w == IF o.who = Nothing THEN sess[s].who ELSE o.who
              d == [[[sess[s] EXCEPT !.agent = o.to] EXCEPT !.who = w] EXCEPT !.offer = NoOffer]
  <2>1. /\ sess[s] \in Bindings /\ o \in Offers /\ w \in Assertion \cup {Nothing}
        /\ sess[s].at = "idle" /\ WithinPlan(s, w)
    BY <1>0, <1>8 DEF ClaimHandoff, Inherits, Idle, TypeInv, Bindings, Offers
  <2>2. sess' = [sess EXCEPT ![s] = d]
    BY <1>0, <1>8 DEF ClaimHandoff, TypeInv
  <2>3. d \in Bindings /\ d.who = w /\ d.plan = sess[s].plan /\ d.at = "idle"
    BY <2>1 DEF Bindings, Offers
  <2>4. ActsOk(d)
    BY <2>1, <2>3 DEF ActsOk, WithinPlan
  <2>. HIDE DEF d
  <2>5. Sets(s, d)
    BY <2>2, <2>3, <2>4 DEF Sets
  <2>. QED  BY <1>8, <2>3, <2>5, SetKeeps DEF ClaimHandoff, host
<1>9. ASSUME NEW s \in Session, OperationBegins(s) PROVE BindingInv'
  <2>1. sess[s].who # Nothing => sess[s].who.scope \in {Nothing, sess[s].agent}
    BY <1>9 DEF OperationBegins, RequiresIdentity, IdentityTrusted
  <2>2. PICK d : Sets(s, d) /\ d.at = "acts"
    BY <1>0, <1>9, <2>1, SetsAt DEF OperationBegins
  <2>. QED  BY <1>9, <2>2, SetKeeps DEF OperationBegins, host
<1>10. ASSUME NEW s \in Session, OperationEnds(s) PROVE BindingInv'
  <2>1. PICK d : Sets(s, d) /\ d.at = "idle"
    BY <1>0, <1>10, SetsAt DEF OperationEnds
  <2>. QED  BY <1>10, <2>1, SetKeeps DEF OperationEnds, host
<1>11. ASSUME NEW s \in Session, NEW n, HostEnds(s, n) PROVE BindingInv'
  <2>. DEFINE a == CHOOSE u \in Agent : TRUE
  <2>1. a \in Agent
    BY <1>0 DEF TypeInv, Bindings
  <2>2. /\ sess' = [t \in Session |-> Fresh(a)] /\ clock' = 0 /\ acted' = {} /\ raced' = {}
        /\ uses' = [p \in Statement |-> 0] /\ bound' = [p \in Statement |-> 0]
    BY <1>11 DEF HostEnds
  <2>. HIDE DEF a
  <2>3. Fresh(a) \in Bindings /\ ActsOk(Fresh(a)) /\ Fresh(a).at = "idle"
    BY <2>1, FreshOk DEF Fresh
  <2>4. TypeInv' /\ ActsInv'
    BY <2>2, <2>3 DEF TypeInv, ActsInv
  <2>5. \A p \in Statement : UseOk(p)'
    BY <2>2, <2>3, StatementsAssumption DEF UseOk, Binds
  <2>. QED  BY <2>4, <2>5 DEF BindingInv, UsesInv
<1>. QED  BY <1>2, <1>3, <1>4, <1>5, <1>6, <1>7, <1>8, <1>9, <1>10, <1>11 DEF Next, Using
(* Chains of receipts.                                                      *)

\* A receipt has its facts, its browser and its entry; a chain is a sequence of them.
IsReceipt(r) == r = [facts |-> r.facts, browser |-> r.browser, entry |-> r.entry]
IsChain(q)   == \E R : q \in Seq(R) /\ \A r \in R : IsReceipt(r)

\* A set of naturals has a smallest element.
LEMMA Smallest ==
    ASSUME NEW S \in SUBSET Nat, S # {} PROVE \E m \in S : \A k \in S : m <= k
<1>1. PICK m \in S : \A k \in S : <<k, m>> \notin OpToRel(<, Nat)
  BY NatLessThanWellFounded, WFMin
<1>2. \A k \in S : ~(k < m)
  BY <1>1 DEF OpToRel
<1>. QED  BY <1>2

LEMMA SealedIs ==
    ASSUME NEW v, NEW p, NEW f, NEW w, NEW s PROVE IsReceipt(Sealed(v, p, f, w, s))
BY DEF IsReceipt, Sealed

LEMMA ChainAt ==
    ASSUME NEW q, IsChain(q)
    PROVE  /\ Len(q) \in Nat /\ DOMAIN q = 1..Len(q)
           /\ \A i \in 1..Len(q) : IsReceipt(q[i])
BY DEF IsChain

LEMMA ChainEmpty == IsChain(<<>>)
<1>. DEFINE none == {}
<1>1. <<>> \in Seq(none) /\ \A r \in none : IsReceipt(r)
  OBVIOUS
<1>. HIDE DEF none
<1>. QED  BY <1>1 DEF IsChain

LEMMA ChainAppends ==
    ASSUME NEW q, IsChain(q), NEW r, IsReceipt(r)
    PROVE  /\ IsChain(Append(q, r))
           /\ \A i \in DOMAIN Append(q, r) :
                 Append(q, r)[i] = r \/ (i \in DOMAIN q /\ Append(q, r)[i] = q[i])
<1>1. PICK R : q \in Seq(R) /\ \A x \in R : IsReceipt(x)
  BY DEF IsChain
<1>. DEFINE T == R \cup {r}
<1>2. q \in Seq(T) /\ r \in T /\ \A x \in T : IsReceipt(x)
  BY <1>1
<1>. HIDE DEF T
<1>3. Append(q, r) \in Seq(T)
  BY <1>2
<1>4. IsChain(Append(q, r))
  BY <1>2, <1>3 DEF IsChain
<1>5. \A i \in DOMAIN Append(q, r) :
         Append(q, r)[i] = r \/ (i \in DOMAIN q /\ Append(q, r)[i] = q[i])
  <2>1. /\ Len(q) \in Nat /\ DOMAIN q = 1..Len(q) /\ Len(Append(q, r)) = Len(q) + 1
        /\ DOMAIN Append(q, r) = 1..(Len(q) + 1)
    BY <1>2, <1>3
  <2>2. ASSUME NEW i \in 1..(Len(q) + 1)
        PROVE  Append(q, r)[i] = r \/ (i \in 1..Len(q) /\ Append(q, r)[i] = q[i])
    <3>1. CASE i = Len(q) + 1
      <4>1. Append(q, r)[Len(q) + 1] = r
        BY <1>2, AppendProperties, Zenon
      <4>. QED  BY <3>1, <4>1, Zenon
    <3>2. CASE i \in 1..Len(q)
      BY <1>2, <2>1, <3>2
    <3>. QED  BY <2>1, <3>1, <3>2
  <2>. QED  BY <2>1, <2>2
<1>. QED  BY <1>4, <1>5

LEMMA ChainChanges ==
    ASSUME NEW q, IsChain(q), NEW i \in DOMAIN q, NEW r, IsReceipt(r)
    PROVE  IsChain([q EXCEPT ![i] = r])
<1>1. PICK R : q \in Seq(R) /\ \A x \in R : IsReceipt(x)
  BY DEF IsChain
<1>2. q \in Seq(R \cup {r}) /\ r \in R \cup {r} /\ \A x \in R \cup {r} : IsReceipt(x)
  BY <1>1
<1>3. [q EXCEPT ![i] = r] \in Seq(R \cup {r})
  BY <1>2
<1>. QED  BY <1>2, <1>3 DEF IsChain

LEMMA ChainLoses ==
    ASSUME NEW q, IsChain(q), NEW i \in DOMAIN q PROVE IsChain(Without(q, i))
<1>1. PICK R : q \in Seq(R) /\ \A x \in R : IsReceipt(x)
  BY DEF IsChain
<1>2. i \in 1..Len(q) /\ Len(q) \in Nat
  BY <1>1
<1>3. SubSeq(q, 1, i - 1) \in Seq(R) /\ SubSeq(q, i + 1, Len(q)) \in Seq(R)
  BY <1>1, <1>2
<1>4. Without(q, i) \in Seq(R)
  BY <1>3 DEF Without
<1>. QED  BY <1>1, <1>4 DEF IsChain

\* Where every receipt is chained, the link before a place is to the place before.
LEMMA HeadIs ==
    ASSUME NEW q, IsChain(q), Chained(q) = DOMAIN q, NEW i \in 1..(Len(q) + 1)
    PROVE  HeadBefore(q, i) = IF i = 1 THEN Nothing ELSE q[i - 1].entry.hash
<1>1. Len(q) \in Nat /\ Chained(q) = 1..Len(q)
  BY ChainAt
<1>. DEFINE before == {j \in Chained(q) : j < i}
<1>2. before = 1..(i - 1)
  BY <1>1
<1>3. CASE i = 1
  BY <1>2, <1>3 DEF HeadBefore
<1>4. CASE i # 1
  <2>1. i - 1 \in before /\ \A k \in before : k <= i - 1
    BY <1>1, <1>2, <1>4
  <2>2. (CHOOSE j \in before : \A k \in before : k <= j) = i - 1
    BY <1>1, <1>2, <2>1
  <2>3. before # {}
    BY <2>1
  <2>4. HeadBefore(q, i) = q[CHOOSE j \in before : \A k \in before : k <= j].entry.hash
    BY <2>3 DEF HeadBefore
  <2>. HIDE DEF before
  <2>. QED  BY <1>4, <2>2, <2>4
<1>. QED  BY <1>3, <1>4

\* What a hash binds can be read from it.
LEMMA HashParts ==
    ASSUME NEW v, NEW p, NEW f, NEW w, NEW s
    PROVE  /\ HashOf(v, p, f, w, s)[1] = v /\ HashOf(v, p, f, w, s)[2] = p
           /\ HashOf(v, p, f, w, s)[3] = f
           /\ v = 3 => HashOf(v, p, f, w, s)[4] = w /\ HashOf(v, p, f, w, s)[5] = s
BY DEF HashOf

\* A hash of the present version determines its receipt.
LEMMA HashDetermines ==
    ASSUME NEW r, NEW h, IsReceipt(r), IsReceipt(h), HashVerifies(r), HashVerifies(h),
           h.entry.version = 3, r.entry.hash = h.entry.hash
    PROVE  r = h
<1>. DEFINE hr == HashOf(r.entry.version, r.entry.previous, r.facts, r.browser, r.entry.session)
            hg == HashOf(h.entry.version, h.entry.previous, h.facts, h.browser, h.entry.session)
<1>1. r.entry.hash = hr /\ h.entry.hash = hg
  BY DEF HashVerifies, Entry
<1>2. /\ hr[1] = r.entry.version /\ hr[2] = r.entry.previous /\ hr[3] = r.facts
      /\ hg[1] = h.entry.version /\ hg[2] = h.entry.previous /\ hg[3] = h.facts
  BY HashParts
<1>3. /\ r.entry.version = 3 => hr[4] = r.browser /\ hr[5] = r.entry.session
      /\ hg[4] = h.browser /\ hg[5] = h.entry.session
  BY HashParts
<1>. HIDE DEF hr, hg
<1>4. /\ r.entry.version = h.entry.version /\ r.entry.previous = h.entry.previous
      /\ r.facts = h.facts /\ r.browser = h.browser /\ r.entry.session = h.entry.session
  BY <1>1, <1>2, <1>3
<1>5. r.entry = h.entry
  BY <1>4 DEF HashVerifies
<1>. QED  BY <1>4, <1>5 DEF IsReceipt

\* Two chains that verify and have the same hash at one place agree up to it: the
\* hash says what the receipt there was, and what the hash before it was.
Alike(c, h, n) ==
    /\ IsChain(c) /\ IsChain(h) /\ ChainVerifies(c, FALSE) /\ ChainVerifies(h, FALSE)
    /\ \A i \in DOMAIN h : h[i].entry.version = 3
    /\ n \in Nat /\ n <= Len(c) /\ n <= Len(h)
    /\ n > 0 => c[n].entry.hash = h[n].entry.hash

LEMMA ChainsAgree ==
    ASSUME NEW c, NEW h, NEW n, Alike(c, h, n) PROVE \A i \in 1..n : c[i] = h[i]
<1>. SUFFICES ASSUME IsChain(c), IsChain(h), ChainVerifies(c, FALSE), ChainVerifies(h, FALSE),
                     \A i \in DOMAIN h : h[i].entry.version = 3,
                     n \in Nat, n <= Len(c), n <= Len(h),
                     n > 0 => c[n].entry.hash = h[n].entry.hash
              PROVE  \A i \in 1..n : c[i] = h[i]
  BY DEF Alike
<1>. DEFINE Differ == {k \in 0..(n - 1) : c[n - k] # h[n - k]}
<1>1. SUFFICES ASSUME Differ # {} PROVE FALSE
  <2>1. ASSUME NEW i \in 1..n PROVE n - i \in 0..(n - 1) /\ n - (n - i) = i
    OBVIOUS
  <2>. QED  BY <1>1, <2>1
<1>2. PICK k \in Differ : \A j \in Differ : k <= j
  <2>1. Differ \in SUBSET Nat
    OBVIOUS
  <2>. QED  BY <1>1, <2>1, Smallest
<1>3. /\ Len(c) \in Nat /\ Len(h) \in Nat /\ DOMAIN c = 1..Len(c) /\ DOMAIN h = 1..Len(h)
      /\ Chained(c) = DOMAIN c /\ Chained(h) = DOMAIN h /\ Linked(c) /\ Linked(h)
      /\ \A i \in 1..Len(c) : IsReceipt(c[i]) /\ HashVerifies(c[i])
      /\ \A i \in 1..Len(h) : IsReceipt(h[i]) /\ HashVerifies(h[i])
  BY ChainAt DEF ChainVerifies
<1>. DEFINE i == n - k
<1>4. i \in 1..n /\ i \in 1..Len(c) /\ i \in 1..Len(h) /\ c[i] # h[i] /\ k \in Nat
  BY <1>2, <1>3
<1>5. c[i].entry.hash = h[i].entry.hash
  <2>1. CASE k = 0
    BY <1>4, <2>1
  <2>2. CASE k # 0
    <3>1. c[i + 1] = h[i + 1] /\ i + 1 \in 1..Len(c) /\ i + 1 \in 1..Len(h)
      <4>1. k - 1 \in 0..(n - 1) /\ k - 1 \notin Differ
        <5>1. k - 1 \in Nat /\ k \in 0..(n - 1) /\ ~(k <= k - 1)
          BY <1>2, <1>4, <2>2
        <5>2. k - 1 \notin Differ
          BY <1>2, <5>1
        <5>. QED  BY <5>1, <5>2
      <4>2. n - (k - 1) = i + 1
        BY <1>4
      <4>3. i + 1 <= n
        BY <1>4, <2>2
      <4>. QED  BY <1>3, <1>4, <4>1, <4>2, <4>3
    <3>2. /\ c[i + 1].entry.previous = HeadBefore(c, i + 1)
          /\ h[i + 1].entry.previous = HeadBefore(h, i + 1)
      BY <1>3, <3>1 DEF Linked
    <3>3. HeadBefore(c, i + 1) = c[i].entry.hash /\ HeadBefore(h, i + 1) = h[i].entry.hash
      <4>1. i + 1 \in 1..(Len(c) + 1) /\ i + 1 \in 1..(Len(h) + 1) /\ i + 1 # 1 /\ (i + 1) - 1 = i
        BY <1>3, <1>4, <3>1
      <4>. QED  BY <1>3, <4>1, HeadIs
    <3>. QED  BY <3>1, <3>2, <3>3
  <2>. QED  BY <2>1, <2>2
<1>. QED  BY <1>3, <1>4, <1>5, HashDetermines
-----------------------------------------------------------------------------
(* What is kept.                                                            *)

\* The receipts of a session that runs are of the present version.
Present(q) == IsChain(q) /\ \A i \in DOMAIN q : q[i].entry.version = 3
ChainInv ==
    /\ chain = [s \in Session |-> chain[s]]
    /\ \A s \in Session : Present(chain[s])

\* What was kept of a run, with the parts it has.
KeptRecords(S, C, G, Q, A, M) ==
    [session : S, copy : C, genuine : G, checkpoint : Q, attested : A, damage : M]
IsKept(k) == \E S, C, G, Q, A, M : k \in KeptRecords(S, C, G, Q, A, M)
KeptShape == IsKept(kept)

\* The run that was kept is what its checkpoint and its attestation say; the copy may
\* be any chain of receipts.
KeptOk ==
    /\ KeptShape /\ IsChain(kept.copy) /\ Present(kept.genuine)
    /\ ExtendsCheckpoint(kept.genuine, kept.checkpoint) /\ kept.checkpoint.length \in Nat
    /\ kept.attested.count = Len(kept.genuine) /\ kept.attested.head = HeadOf(kept.genuine)
KeptInv == ~Online => KeptOk

LEMMA ChainInit == Init => ChainInv /\ KeptInv
<1>. SUFFICES ASSUME Init PROVE ChainInv /\ KeptInv
  OBVIOUS
<1>1. Online
  BY DEF Init, Online
<1>2. Present(<<>>)
  BY ChainEmpty DEF Present
<1>. QED  BY <1>1, <1>2 DEF Init, ChainInv, KeptInv

LEMMA PresentAppends ==
    ASSUME NEW q, Present(q), NEW p, NEW f, NEW s
    PROVE  Present(Append(q, Sealed(3, p, f, s, s)))
<1>. DEFINE r == Sealed(3, p, f, s, s)
<1>1. IsReceipt(r) /\ r.entry.version = 3
  BY SealedIs DEF Sealed, Entry
<1>. HIDE DEF r
<1>2. IsChain(q) /\ \A i \in DOMAIN q : q[i].entry.version = 3
  BY DEF Present
<1>3. /\ IsChain(Append(q, r))
      /\ \A i \in DOMAIN Append(q, r) :
            Append(q, r)[i] = r \/ (i \in DOMAIN q /\ Append(q, r)[i] = q[i])
  BY <1>1, <1>2, ChainAppends
<1>4. \A i \in DOMAIN Append(q, r) : Append(q, r)[i].entry.version = 3
  BY <1>1, <1>2, <1>3, Zenon
<1>. QED  BY <1>3, <1>4 DEF Present, r

LEMMA KeptMade ==
    ASSUME NEW s, NEW c, NEW h, NEW p, NEW a, NEW d
    PROVE  IsKept([session |-> s, copy |-> c, genuine |-> h, checkpoint |-> p, attested |-> a,
                   damage |-> d])
<1>. DEFINE k == [session |-> s, copy |-> c, genuine |-> h, checkpoint |-> p, attested |-> a,
                  damage |-> d]
<1>1. k \in KeptRecords({s}, {c}, {h}, {p}, {a}, {d})
  BY DEF KeptRecords
<1>. HIDE DEF k
<1>2. IsKept(k)
  BY <1>1 DEF IsKept
<1>. QED  BY <1>2 DEF k

\* Damage changes the copy alone.
Damaged(k, c, d) == [[k EXCEPT !.copy = c] EXCEPT !.damage = d]
LEMMA KeptDamaged ==
    ASSUME NEW k, IsKept(k), NEW c, NEW d, NEW m, m = Damaged(k, c, d)
    PROVE  /\ IsKept(m) /\ m.session = k.session /\ m.copy = c /\ m.genuine = k.genuine
           /\ m.checkpoint = k.checkpoint /\ m.attested = k.attested
<1>1. PICK S, C, G, Q, A, M : k \in KeptRecords(S, C, G, Q, A, M)
  BY DEF IsKept
<1>2. PICK B, F : C \subseteq B /\ c \in B /\ M \subseteq F /\ d \in F
  <2>1. C \subseteq C \cup {c} /\ c \in C \cup {c} /\ M \subseteq M \cup {d} /\ d \in M \cup {d}
    OBVIOUS
  <2>. QED  BY <2>1
<1>3. k \in KeptRecords(S, B, G, Q, A, F)
  BY <1>1, <1>2 DEF KeptRecords
<1>4. /\ m \in KeptRecords(S, B, G, Q, A, F)
      /\ m.session = k.session /\ m.copy = c /\ m.genuine = k.genuine
      /\ m.checkpoint = k.checkpoint /\ m.attested = k.attested
  BY <1>2, <1>3 DEF Damaged, KeptRecords
<1>5. IsKept(m)
  BY <1>4 DEF IsKept
<1>. QED  BY <1>4, <1>5

\* Every damage leaves a chain of receipts.
LEMMA DamageKeeps ==
    ASSUME ChainInv, ~Online, KeptOk, Decaying PROVE KeptOk'
<1>. DEFINE q == kept.copy
<1>1. KeptShape /\ IsChain(q)
  BY DEF KeptOk
<1>2. ASSUME NEW c, IsChain(c), Damages(c) PROVE KeptOk'
  <2>. DEFINE k == Damaged(kept, c, kept.damage + 1)
  <2>1. kept' = k /\ k = Damaged(kept, c, kept.damage + 1)
    BY <1>2 DEF Damages, Damaged
  <2>. HIDE DEF k
  <2>2. /\ IsKept(k) /\ k.session = kept.session /\ k.copy = c
        /\ k.genuine = kept.genuine /\ k.checkpoint = kept.checkpoint
        /\ k.attested = kept.attested
    <3>1. IsKept(kept)
      BY <1>1 DEF KeptShape
    <3>. QED  BY <2>1, <3>1, KeptDamaged
  <2>3. /\ kept'.session = kept.session /\ kept'.copy = c /\ kept'.genuine = kept.genuine
        /\ kept'.checkpoint = kept.checkpoint /\ kept'.attested = kept.attested
    BY <2>1, <2>2
  <2>4. KeptShape'
    BY <2>1, <2>2 DEF KeptShape
  <2>. QED  BY <1>2, <2>3, <2>4 DEF KeptOk
<1>3. ASSUME NEW i \in DOMAIN q PROVE IsReceipt(q[i])
  BY <1>1, <1>3, ChainAt
<1>. HIDE DEF q
<1>4. ASSUME NEW i \in DOMAIN q, Loses(i) PROVE KeptOk'
  BY <1>1, <1>2, <1>4, ChainLoses DEF Loses, q
<1>5. ASSUME NEW i \in DOMAIN q, Repeats(i) PROVE KeptOk'
  BY <1>1, <1>2, <1>3, <1>5, ChainAppends DEF Repeats, q
<1>6. ASSUME NEW i \in DOMAIN q, Swaps(i) PROVE KeptOk'
  <2>1. i < Len(q) /\ Damages([q EXCEPT ![i] = q[i + 1], ![i + 1] = q[i]])
    BY <1>6 DEF Swaps, q
  <2>2. i + 1 \in DOMAIN q
    BY <1>1, <2>1, ChainAt
  <2>3. IsChain([q EXCEPT ![i] = q[i + 1]])
    BY <1>1, <1>3, <2>2, ChainChanges
  <2>4. DOMAIN [q EXCEPT ![i] = q[i + 1]] = DOMAIN q
    OBVIOUS
  <2>5. IsChain([[q EXCEPT ![i] = q[i + 1]] EXCEPT ![i + 1] = q[i]])
    BY <1>3, <2>2, <2>3, <2>4, ChainChanges
  <2>. QED  BY <1>2, <2>1, <2>5
<1>7. ASSUME NEW i \in DOMAIN q, Alters(i) PROVE KeptOk'
  <2>. DEFINE r == [q[i] EXCEPT !.facts = [q[i].facts EXCEPT !.nr = 0]]
  <2>1. IsReceipt(r)
    BY <1>3 DEF IsReceipt
  <2>2. Damages([q EXCEPT ![i] = r])
    BY <1>7 DEF Alters, q
  <2>. HIDE DEF r
  <2>. QED  BY <1>1, <1>2, <2>1, <2>2, ChainChanges
<1>8. ASSUME NEW i \in DOMAIN q, Legacy(i) PROVE KeptOk'
  <2>. DEFINE r == [q[i] EXCEPT !.entry = Nothing]
  <2>1. IsReceipt(r)
    BY <1>3 DEF IsReceipt
  <2>2. Damages([q EXCEPT ![i] = r])
    BY <1>8 DEF Legacy, q
  <2>. HIDE DEF r
  <2>. QED  BY <1>1, <1>2, <2>1, <2>2, ChainChanges
<1>9. ASSUME NEW i \in DOMAIN q, NEW v \in Versions, Reseals(i, v) PROVE KeptOk'
  <2>. DEFINE r == Sealed(v, HeadBefore(q, i), q[i].facts, q[i].browser, kept.session)
  <2>1. IsReceipt(r)
    BY SealedIs
  <2>2. Damages([q EXCEPT ![i] = r])
    BY <1>9 DEF Reseals, q
  <2>. HIDE DEF r
  <2>. QED  BY <1>1, <1>2, <2>1, <2>2, ChainChanges
<1>10. ASSUME NEW s \in Session, NEW i \in DOMAIN chain[s], Strays(chain[s][i]) PROVE KeptOk'
  <2>1. IsReceipt(chain[s][i])
    BY ChainAt DEF ChainInv, Present
  <2>. QED  BY <1>1, <1>2, <1>10, <2>1, ChainAppends DEF Strays, q
<1>. QED  BY <1>4, <1>5, <1>6, <1>7, <1>8, <1>9, <1>10 DEF Decaying, q

LEMMA ChainNext == ChainInv /\ KeptInv /\ [Next]_vars => ChainInv' /\ KeptInv'
<1>. SUFFICES ASSUME ChainInv, KeptInv, [Next]_vars PROVE ChainInv' /\ KeptInv'
  OBVIOUS
<1>1. ASSUME UNCHANGED <<chain, kept>> PROVE ChainInv' /\ KeptInv'
  BY <1>1 DEF ChainInv, KeptInv, KeptOk, KeptShape, Online
<1>2. CASE Hosting \/ UNCHANGED vars
  <2>1. UNCHANGED <<chain, kept>>
    BY <1>2 DEF Hosting, Tick, RegisterIdentity, Revoke, ReplaceSigner, vars
  <2>. QED  BY <1>1, <2>1
<1>3. ASSUME NEW s \in Session, Using(s), ~OperationEnds(s) PROVE ChainInv' /\ KeptInv'
  <2>1. UNCHANGED <<chain, kept>>
    BY <1>3 DEF Using, PlanChecked, PlanBound, BindIdentity, OfferHandoff, ClaimHandoff,
       OperationBegins
  <2>. QED  BY <1>1, <2>1
<1>4. ASSUME NEW s \in Session, OperationEnds(s) PROVE ChainInv' /\ KeptInv'
  <2>1. /\ UNCHANGED kept
        /\ chain' = [chain EXCEPT ![s] = Append(chain[s], Sealed(3, HeadOf(chain[s]),
                                                [nr |-> Len(chain[s]) + 1], s, s))]
    BY <1>4 DEF OperationEnds
  <2>2. Present(Append(chain[s], Sealed(3, HeadOf(chain[s]), [nr |-> Len(chain[s]) + 1], s, s)))
    BY PresentAppends DEF ChainInv
  <2>3. ChainInv'
    BY <2>1, <2>2 DEF ChainInv
  <2>. QED  BY <2>1, <2>3 DEF KeptInv, KeptOk, KeptShape, Online
<1>5. ASSUME NEW s \in Session, NEW n, HostEnds(s, n) PROVE ChainInv' /\ KeptInv'
  <2>. DEFINE then == SubSeq(chain[s], 1, n)
              c == CheckpointOf(then, s)
  <2>1. /\ UNCHANGED chain /\ n \in 0..Len(chain[s]) /\ ExtendsCheckpoint(chain[s], c)
        /\ kept' = [session |-> s, copy |-> chain[s], genuine |-> chain[s], checkpoint |-> c,
                    attested |-> Attested(s, c), damage |-> 0]
    BY <1>5 DEF HostEnds
  <2>2. Present(chain[s]) /\ IsChain(chain[s])
    BY DEF ChainInv, Present
  <2>3. c.length \in Nat
    <3>1. PICK R : chain[s] \in Seq(R)
      BY <2>2 DEF IsChain
    <3>2. then \in Seq(R)
      BY <2>1, <3>1
    <3>. QED  BY <3>2 DEF CheckpointOf
  <2>. HIDE DEF c
  <2>4. /\ kept'.session = s /\ kept'.copy = chain[s] /\ kept'.genuine = chain[s]
        /\ kept'.checkpoint = c /\ kept'.damage = 0
        /\ kept'.attested.count = Len(chain[s]) /\ kept'.attested.head = HeadOf(chain[s])
    BY <2>1 DEF Attested
  <2>5. KeptShape'
    <3>1. IsKept([session |-> s, copy |-> chain[s], genuine |-> chain[s], checkpoint |-> c,
                  attested |-> Attested(s, c), damage |-> 0])
      BY KeptMade, Zenon
    <3>. QED  BY <2>1, <3>1 DEF KeptShape
  <2>6. ChainInv'
    BY <2>1 DEF ChainInv
  <2>. QED  BY <2>1, <2>2, <2>3, <2>4, <2>5, <2>6 DEF KeptInv, KeptOk
<1>6. CASE Decaying
  <2>1. ~Online /\ UNCHANGED chain
    BY <1>6 DEF Decaying, Loses, Repeats, Swaps, Alters, Strays, Reseals, Legacy, Damages
  <2>2. KeptOk'
    BY <1>6, <2>1, DamageKeeps DEF KeptInv
  <2>. QED  BY <2>1, <2>2 DEF KeptInv, ChainInv
<1>. QED  BY <1>2, <1>3, <1>4, <1>5, <1>6 DEF Next

-----------------------------------------------------------------------------
(* The theorems.                                                            *)

\* contract/signed_plan.py and the bindings of runtime/stateful_session.py: a session
\* acts as the identity its plan was signed for, its receipts say so, and a plan is
\* bound no more often than it was signed for, unless two sessions verified it at the
\* very same time.
THEOREM PlansAreKeptTo == Spec => []ActsWithinPlan
<1>1. BindingInv => ActsWithinPlan
  BY DEF BindingInv, ActsInv, ActsOk, UsesInv, UseOk, ActsWithinPlan, ActsAsSigned, UsesBounded
<1>. QED  BY BindingInit, BindingNext, <1>1, PTL DEF Spec

\* verify_receipt_chain_against_checkpoint: what a kept chain is accepted for it is,
\* whatever happened to it: its hashes leave no other chain with the same head.
THEOREM AcceptedIsGenuine == Spec => []KeptIsGenuine
<1>1. KeptInv => KeptIsGenuine
  <2>. SUFFICES ASSUME KeptInv, ~Online, Accepted
                PROVE  /\ SubSeq(kept.copy, 1, kept.checkpoint.length)
                            = SubSeq(kept.genuine, 1, kept.checkpoint.length)
                       /\ Len(kept.copy) = kept.attested.count
                          /\ HeadOf(kept.copy) = kept.attested.head
                            => kept.copy = kept.genuine
    BY DEF KeptIsGenuine
  <2>. DEFINE c == kept.copy  h == kept.genuine  n == kept.checkpoint.length
  <2>1. /\ IsChain(c) /\ IsChain(h) /\ \A i \in DOMAIN h : h[i].entry.version = 3
        /\ ExtendsCheckpoint(c, kept.checkpoint) /\ ExtendsCheckpoint(h, kept.checkpoint)
        /\ n \in Nat /\ kept.attested.count = Len(h) /\ kept.attested.head = HeadOf(h)
    BY DEF KeptInv, KeptOk, Present, Accepted
  <2>2. /\ ChainVerifies(c, FALSE) /\ ChainVerifies(h, FALSE) /\ n <= Len(c) /\ n <= Len(h)
        /\ Chained(c) = DOMAIN c /\ Chained(h) = DOMAIN h
        /\ n > 0 => c[n].entry.hash = h[n].entry.hash
        /\ Len(c) \in Nat /\ Len(h) \in Nat
    BY <2>1, ChainAt DEF ExtendsCheckpoint, ChainVerifies
  <2>. HIDE DEF c, h, n
  <2>3. \A i \in 1..n : c[i] = h[i]
    <3>1. Alike(c, h, n)
      BY <2>1, <2>2 DEF Alike
    <3>. QED  BY <3>1, ChainsAgree
  <2>4. PICK R : c \in Seq(R)
    BY <2>1 DEF IsChain
  <2>5. PICK T : h \in Seq(T)
    BY <2>1 DEF IsChain
  <2>6. SubSeq(c, 1, n) = SubSeq(h, 1, n)
    BY <2>1, <2>2, <2>3, <2>4, <2>5
  <2>7. ASSUME Len(c) = Len(h), HeadOf(c) = HeadOf(h) PROVE c = h
    <3>. DEFINE m == Len(h)
    <3>1. m > 0 => c[m].entry.hash = h[m].entry.hash
      <4>1. /\ HeadBefore(c, Len(c) + 1) = HeadBefore(h, Len(h) + 1)
            /\ Len(c) + 1 \in 1..(Len(c) + 1) /\ Len(h) + 1 \in 1..(Len(h) + 1)
        BY <2>2, <2>7 DEF HeadOf
      <4>2. ASSUME m > 0 PROVE m + 1 # 1 /\ (m + 1) - 1 = m
        BY <2>2, <4>2
      <4>. QED  BY <2>1, <2>2, <2>7, <4>1, <4>2, HeadIs
    <3>2. \A i \in 1..m : c[i] = h[i]
      <4>1. Alike(c, h, m)
        <5>1. m \in Nat /\ m <= Len(c) /\ m <= Len(h)
          BY <2>2, <2>7
        <5>. HIDE DEF m
        <5>. QED  BY <2>1, <2>2, <3>1, <5>1 DEF Alike
      <4>. QED  BY <4>1, ChainsAgree
    <3>. QED  BY <2>2, <2>4, <2>5, <2>7, <3>2
  <2>. QED  BY <2>1, <2>6, <2>7 DEF c, h, n
<1>. QED  BY ChainInit, ChainNext, <1>1, PTL DEF Spec
-----------------------------------------------------------------------------
(* The downloads.                                                           *)

Places == {"idle", "recover", "gone", "triggered", "save", "verify", "verifying", "copy", "check",
           "publish", "unlink", "clean"}

\* A download that has no name yet, one that was verified, and one that has its name.
Making   == {"triggered", "save", "verify", "verifying", "copy", "check", "publish"}
Verified == {"copy", "check", "publish", "unlink", "clean"}
Named    == {"unlink", "clean"}

Locals == [pc : Places, k : Nat, policy : D!Policies, writes : Nat, seen : Content \cup {None},
           name : D!Name, other : Session \cup {None}]
Stores == [state : {"none", "marked", "live", "dead", "closed"}, old : BOOLEAN,
           lock : Session \cup {None}]

DownloadTypes ==
    /\ store \in [Session -> Stores] /\ at \in [Session -> Locals]
    /\ parts \in [Session -> SUBSET D!File] /\ hidden \in [Session -> SUBSET D!File]
    /\ completed \in [Session -> [D!Name -> D!File \cup {None}]]
    /\ receipts \in [Session -> [D!Name -> Content \cup {None}]]
    /\ data \in [D!File -> [content : Content \cup {None}, writes : Nat]]

\* A live session holds its own lock; who recovers another's store holds the lock of that.
LocksOk(s) ==
    /\ store[s].state = "live" => store[s].lock = s
    /\ at[s].other # None =>
          at[s].pc = "recover" /\ at[s].other # s /\ store[at[s].other].lock = s

\* The file of a download that gets its name.
CommitOf(s, k) == [of |-> s, k |-> k, kind |-> "commit"]

\* The locals of a download: it is one of those wanted, and what it has seen is in the file
\* it is about to name or has named.
LocalsOk(s, a) ==
    /\ a.k <= Wanted[s] /\ (a.pc \in Making \cup Named => a.k # 0)
    /\ a.pc \in Verified => a.seen \in Sound
    /\ a.pc \in Named \cup {"publish"} => data[CommitOf(s, a.k)].content = a.seen
    /\ a.pc \in Named => completed[s][a.name] = CommitOf(s, a.k)

\* What stands under a name is a file of the session's own, of a download that is no longer
\* being made, with what was verified.
NamesOk(s) ==
    \A n \in D!Name : LET c == completed[s][n] IN
        /\ c # None => /\ c.of = s /\ c.kind = "commit" /\ data[c].content \in Sound
                       /\ c.k <= at[s].k /\ (c.k = at[s].k => at[s].pc \notin Making)
        /\ receipts[s][n] # None => c # None /\ data[c].content = receipts[s][n]

LocksInv == \A s \in Session : LocksOk(s)
NamesInv == \A s \in Session : LocalsOk(s, at[s]) /\ NamesOk(s)
DownloadInv == DownloadTypes /\ LocksInv /\ NamesInv

\* There is a file for every download that is wanted.
LEMMA FilesExist ==
    \A s \in Session, k \in Nat, kind \in {"part", "commit"} :
        k # 0 /\ k <= Wanted[s] => [of |-> s, k |-> k, kind |-> kind] \in D!File
<1>1. PICK s \in Session : \A t \in Session : Wanted[t] <= Wanted[s]
  BY DownloadsInstance DEF D!DownloadsAssumption
<1>2. Wanted \in [Session -> Nat]
  BY DownloadsInstance DEF D!DownloadsAssumption
<1>3. Wanted[s] \in D!Range(Wanted) /\ \A m \in D!Range(Wanted) : m <= Wanted[s]
  BY <1>1, <1>2 DEF D!Range
<1>4. D!Most \in D!Range(Wanted) /\ \A m \in D!Range(Wanted) : m <= D!Most
  BY <1>3 DEF D!Most
<1>5. D!Most \in Nat /\ \A t \in Session : Wanted[t] <= D!Most /\ Wanted[t] \in Nat
  BY <1>2, <1>4 DEF D!Range
<1>6. \A t \in Session, k \in Nat : k # 0 /\ k <= Wanted[t] => k \in 1..D!Most
  BY <1>5
<1>. QED  BY <1>6 DEF D!File

\* The files of the download of a session.
LEMMA OwnFiles ==
    ASSUME DownloadInv, NEW s \in Session
    PROVE  /\ D!Commit(s).of = s /\ D!Commit(s).k = at[s].k /\ D!Commit(s).kind = "commit"
           /\ D!Part(s).of = s /\ D!Part(s).k = at[s].k /\ D!Part(s).kind = "part"
           /\ at[s].pc \in Making \cup Named =>
                 D!Commit(s) \in D!File /\ D!Part(s) \in D!File /\ D!Commit(s) # None
           /\ D!Commit(s) = CommitOf(s, at[s].k)
<1>1. at[s].k \in Nat
  BY DEF DownloadInv, DownloadTypes, Locals
<1>2. /\ D!Commit(s).of = s /\ D!Commit(s).k = at[s].k /\ D!Commit(s).kind = "commit"
      /\ D!Part(s).of = s /\ D!Part(s).k = at[s].k /\ D!Part(s).kind = "part"
  BY DEF D!Commit, D!Part
<1>3. at[s].pc \in Making \cup Named => at[s].k # 0 /\ at[s].k <= Wanted[s]
  BY DEF DownloadInv, NamesInv, LocalsOk
<1>4. at[s].pc \in Making \cup Named => D!Commit(s) \in D!File /\ D!Part(s) \in D!File
  BY <1>1, <1>3, FilesExist DEF D!Commit, D!Part
<1>. QED  BY <1>2, <1>4, DownloadsInstance DEF D!DownloadsAssumption, D!Commit, CommitOf

\* A step of the session's own locals.
LEMMA GoesTo ==
    ASSUME DownloadInv, NEW s \in Session, NEW v \in Places, D!Goes(s, v)
    PROVE  \E d \in Locals :
              /\ at' = [at EXCEPT ![s] = d] /\ d.pc = v /\ d.k = at[s].k /\ d.policy = at[s].policy
              /\ d.seen = at[s].seen /\ d.name = at[s].name /\ d.other = at[s].other
<1>. DEFINE d == [at[s] EXCEPT !.pc = v]
<1>1. at[s] \in Locals
  BY DEF DownloadInv, DownloadTypes
<1>2. /\ d \in Locals /\ d.pc = v /\ d.k = at[s].k /\ d.policy = at[s].policy
      /\ d.seen = at[s].seen /\ d.name = at[s].name /\ d.other = at[s].other
  BY <1>1 DEF Locals
<1>3. at' = [at EXCEPT ![s] = d]
  BY DEF D!Goes
<1>. QED  BY <1>2, <1>3

\* What a step of one session's locals, over files as they are, has to keep.
LEMMA LocalStep ==
    ASSUME DownloadInv, NEW s \in Session, NEW d \in Locals, at' = [at EXCEPT ![s] = d],
           UNCHANGED <<store, completed, data, receipts>>,
           parts' \in [Session -> SUBSET D!File], hidden' \in [Session -> SUBSET D!File],
           LocalsOk(s, d), d.other = None \/ (d.other = at[s].other /\ d.pc = "recover"),
           d.k > at[s].k \/ (d.k = at[s].k /\ (d.pc \in Making => at[s].pc \in Making))
    PROVE  DownloadInv'
<1>1. /\ at \in [Session -> Locals] /\ at'[s] = d /\ \A t \in Session \ {s} : at'[t] = at[t]
      /\ d.k \in Nat /\ at[s].k \in Nat
  BY DEF DownloadInv, DownloadTypes, Locals
<1>2. DownloadTypes'
  BY <1>1 DEF DownloadInv, DownloadTypes
<1>3. LocksInv'
  BY <1>1 DEF DownloadInv, LocksInv, LocksOk
<1>4. \A t \in Session : LocalsOk(t, at[t])'
  BY <1>1 DEF DownloadInv, NamesInv, LocalsOk
<1>5. \A t \in Session \ {s} : NamesOk(t)'
  BY <1>1 DEF DownloadInv, NamesInv, NamesOk
<1>6. NamesOk(s)'
  <2>. SUFFICES ASSUME NEW n \in D!Name, completed[s][n] # None
                PROVE  completed[s][n].k <= d.k /\ (completed[s][n].k = d.k => d.pc \notin Making)
    BY <1>1 DEF DownloadInv, NamesInv, NamesOk
  <2>. DEFINE c == completed[s][n]
  <2>1. c.k <= at[s].k /\ (c.k = at[s].k => at[s].pc \notin Making)
    BY DEF DownloadInv, NamesInv, NamesOk
  <2>2. c.k \in Nat
    BY DEF DownloadInv, DownloadTypes, D!File
  <2>. QED  BY <1>1, <2>1, <2>2
<1>. QED  BY <1>2, <1>3, <1>4, <1>5, <1>6 DEF DownloadInv, NamesInv

\* A session that is not recovering holds no other session's lock.
LEMMA NotRecovering ==
    ASSUME DownloadInv, NEW s \in Session, at[s].pc # "recover"
    PROVE  at[s].other = None
BY DEF DownloadInv, LocksInv, LocksOk

\* What is known of a session.
LEMMA OwnLocals ==
    ASSUME DownloadInv, NEW s \in Session
    PROVE  /\ at[s] \in Locals /\ at[s].k \in Nat /\ LocalsOk(s, at[s]) /\ Wanted[s] \in Nat
           /\ parts[s] \subseteq D!File /\ parts \in [Session -> SUBSET D!File]
           /\ hidden \in [Session -> SUBSET D!File] /\ at \in [Session -> Locals]
  BY DownloadsInstance DEF D!DownloadsAssumption, DownloadInv, DownloadTypes, NamesInv, Locals

\* A step that moves the download on, or ends it, and touches no more than its files.
LEMMA MovesOn ==
    ASSUME DownloadInv, NEW s \in Session, NEW v \in Places, D!Goes(s, v),
           UNCHANGED <<store, completed, data, receipts>>,
           parts' \in [Session -> SUBSET D!File], hidden' \in [Session -> SUBSET D!File],
           at[s].pc # "recover" \/ (v = "idle" /\ at[s].other = None),
           \/ v \in {"idle", "gone"} \/ (v \in Making \ Verified /\ at[s].pc \in Making)
           \/ (v = "clean" /\ at[s].pc = "unlink")
           \/ v = "publish" /\ at[s].pc = "check" /\ data[CommitOf(s, at[s].k)].content = at[s].seen
    PROVE  DownloadInv'
<1>1. PICK d \in Locals :
         /\ at' = [at EXCEPT ![s] = d] /\ d.pc = v /\ d.k = at[s].k /\ d.policy = at[s].policy
         /\ d.seen = at[s].seen /\ d.name = at[s].name /\ d.other = at[s].other
  BY GoesTo
<1>2. d.other = None
  BY <1>1, NotRecovering
<1>3. LocalsOk(s, d) /\ (d.pc \in Making => at[s].pc \in Making)
  BY <1>1, OwnLocals DEF LocalsOk, Making, Verified, Named
<1>. QED  BY <1>1, <1>2, <1>3, OwnLocals, LocalStep

\* A download that fails leaves what has a name alone.
LEMMA DownloadFails == ASSUME DownloadInv, NEW s \in Session, D!Fails(s), at[s].pc # "recover"
                       PROVE  DownloadInv'
<1>1. parts' \in [Session -> SUBSET D!File] /\ hidden' \in [Session -> SUBSET D!File]
  BY OwnLocals DEF D!Fails
<1>. QED  BY <1>1, MovesOn DEF D!Fails, Places

\* The steps that only move a download on.
LEMMA DownloadSteps ==
    ASSUME DownloadInv, NEW s \in Session,
           \/ D!RecoverEnds(s) \/ D!TriggerFails(s) \/ D!Stages(s) \/ D!Aborts(s)
           \/ D!Checks(s) \/ D!Unlinks(s)
    PROVE  DownloadInv'
<1>1. CASE D!RecoverEnds(s)
  BY <1>1, OwnLocals, MovesOn DEF D!RecoverEnds, D!FilesUnchanged, Places
<1>2. CASE D!TriggerFails(s)
  BY <1>2, OwnLocals, MovesOn DEF D!TriggerFails, D!FilesUnchanged, Places
<1>3. CASE D!Stages(s)
  <2>1. at[s].pc = "triggered" /\ parts' \in [Session -> SUBSET D!File]
    BY <1>3, OwnLocals, OwnFiles DEF D!Stages, Making
  <2>. QED  BY <1>3, <2>1, OwnLocals, MovesOn DEF D!Stages, Places, Making, Verified
<1>4. CASE D!Aborts(s)
  BY <1>4, DownloadFails DEF D!Aborts
<1>5. CASE D!Checks(s)
  <2>1. CASE D!Unwritten(s) /\ data[D!Commit(s)].content = at[s].seen
    <3>1. data[CommitOf(s, at[s].k)].content = at[s].seen /\ at[s].pc = "check"
      BY <1>5, <2>1, OwnFiles DEF D!Checks
    <3>. QED  BY <1>5, <2>1, <3>1, OwnLocals, MovesOn DEF D!Checks, D!FilesUnchanged, Places
  <2>2. CASE ~(D!Unwritten(s) /\ data[D!Commit(s)].content = at[s].seen)
    BY <1>5, <2>2, DownloadFails DEF D!Checks
  <2>. QED  BY <2>1, <2>2
<1>6. CASE D!Unlinks(s)
  <2>1. parts' \in [Session -> SUBSET D!File] /\ hidden' \in [Session -> SUBSET D!File]
    BY <1>6, OwnLocals DEF D!Unlinks
  <2>2. UNCHANGED <<store, completed, data, receipts>> /\ at[s].pc = "unlink"
    BY <1>6 DEF D!Unlinks
  <2>3. D!Goes(s, "clean") \/ D!Goes(s, "idle")
    BY <1>6 DEF D!Unlinks
  <2>. QED  BY <2>1, <2>2, <2>3, MovesOn DEF Places
<1>. QED  BY <1>1, <1>2, <1>3, <1>4, <1>5, <1>6

\* A download begins, on a file that none before it had.
LEMMA DownloadTriggers ==
    ASSUME DownloadInv, NEW s \in Session, D!Triggers(s) PROVE DownloadInv'
<1>1. PICK policy \in D!Policies :
         at' = [at EXCEPT ![s].pc = "triggered", ![s].k = @ + 1, ![s].policy = policy,
                          ![s].name = 1, ![s].seen = None]
  BY DEF D!Triggers
<1>. DEFINE d == [[[[[at[s] EXCEPT !.pc = "triggered"] EXCEPT !.k = at[s].k + 1]
                    EXCEPT !.policy = policy] EXCEPT !.name = 1] EXCEPT !.seen = None]
<1>2. at' = [at EXCEPT ![s] = d]
  BY <1>1
<1>3. 1 \in D!Name
  BY DownloadsInstance DEF D!DownloadsAssumption, D!Name
<1>4. d \in Locals /\ d.pc = "triggered" /\ d.k = at[s].k + 1 /\ d.other = at[s].other
  <2>1. policy \in D!Policies /\ at[s].k + 1 \in Nat
    BY <1>1, OwnLocals
  <2>. QED  BY <1>3, <2>1, OwnLocals DEF Locals, Places
<1>. HIDE DEF d
<1>5. /\ at[s].pc = "idle" /\ at[s].k < Wanted[s]
      /\ UNCHANGED <<store, parts, hidden, completed, data, receipts>>
  BY DEF D!Triggers, D!FilesUnchanged
<1>6. LocalsOk(s, d) /\ d.k > at[s].k /\ d.other = None
  BY <1>4, <1>5, OwnLocals, NotRecovering DEF LocalsOk, Making, Verified, Named
<1>. QED  BY <1>2, <1>4, <1>5, <1>6, OwnLocals, LocalStep

\* The staging file is verified, and a name chosen that the policy allows.
LEMMA DownloadVerifies ==
    ASSUME DownloadInv, NEW s \in Session, D!VerifyBegins(s) \/ D!VerifyEnds(s) PROVE DownloadInv'
<1>1. CASE D!VerifyBegins(s)
  <2>. DEFINE d == [[at[s] EXCEPT !.pc = "verifying"] EXCEPT !.writes = data[D!Part(s)].writes]
  <2>1. at' = [at EXCEPT ![s] = d] /\ at[s].pc = "verify"
    BY <1>1 DEF D!VerifyBegins
  <2>2. data[D!Part(s)].writes \in Nat
    BY <2>1, OwnFiles DEF DownloadInv, DownloadTypes, Making
  <2>3. d \in Locals /\ d.pc = "verifying" /\ d.k = at[s].k /\ d.other = at[s].other
    BY <2>2, OwnLocals DEF Locals, Places
  <2>. HIDE DEF d
  <2>4. LocalsOk(s, d) /\ d.other = None /\ at[s].pc \in Making
    BY <2>1, <2>3, OwnLocals, NotRecovering DEF LocalsOk, Making, Verified, Named
  <2>. QED  BY <1>1, <2>1, <2>3, <2>4, OwnLocals, LocalStep DEF D!VerifyBegins, D!FilesUnchanged
<1>2. CASE D!VerifyEnds(s)
  <2>1. CASE D!Unwritten(s) /\ data[D!Part(s)].content \in Sound /\ D!Selected(s) # {}
    <3>. DEFINE n == CHOOSE n \in D!Selected(s) : TRUE
                d == [[[at[s] EXCEPT !.pc = "copy"] EXCEPT !.seen = data[D!Part(s)].content]
                      EXCEPT !.name = n]
    <3>1. /\ at' = [at EXCEPT ![s] = d] /\ at[s].pc = "verifying"
          /\ UNCHANGED <<store, parts, hidden, completed, data, receipts>>
      BY <1>2, <2>1 DEF D!VerifyEnds, D!FilesUnchanged
    <3>2. D!Selected(s) \subseteq D!Name
      BY DownloadsInstance DEF D!DownloadsAssumption, D!Selected, D!Name
    <3>3. n \in D!Name /\ data[D!Part(s)].content \in Content
      BY <2>1, <3>2, DownloadsInstance DEF D!DownloadsAssumption
    <3>. HIDE DEF n
    <3>4. /\ d \in Locals /\ d.pc = "copy" /\ d.k = at[s].k /\ d.other = at[s].other
          /\ d.seen = data[D!Part(s)].content
      BY <3>3, OwnLocals DEF Locals, Places
    <3>. HIDE DEF d
    <3>5. LocalsOk(s, d) /\ d.other = None /\ at[s].pc \in Making
      BY <2>1, <3>1, <3>4, OwnLocals, NotRecovering DEF LocalsOk, Making, Verified, Named
    <3>. QED  BY <3>1, <3>4, <3>5, OwnLocals, LocalStep
  <2>2. CASE ~(D!Unwritten(s) /\ data[D!Part(s)].content \in Sound /\ D!Selected(s) # {})
    BY <1>2, <2>2, DownloadFails DEF D!VerifyEnds
  <2>. QED  BY <2>1, <2>2
<1>. QED  BY <1>1, <1>2

\* The files of other downloads are other files.
LEMMA OthersFiles ==
    ASSUME DownloadInv, NEW s \in Session, at[s].pc \in Making, NEW t \in Session, NEW n \in D!Name,
           completed[t][n] # None
    PROVE  completed[t][n] # D!Commit(s)
BY OwnFiles DEF DownloadInv, NamesInv, NamesOk

\* A file of staging/ is written, or the copy that a download makes: nothing that has a name, or is
\* to get it, changes.
LEMMA WritesOther ==
    ASSUME DownloadInv, NEW f \in D!File, NEW e \in [content : Content \cup {None}, writes : Nat],
           data' = [data EXCEPT ![f] = e], UNCHANGED <<store, completed, receipts>>,
           parts' \in [Session -> SUBSET D!File], hidden' \in [Session -> SUBSET D!File],
           NEW s \in Session, NEW d \in Locals, at' = [at EXCEPT ![s] = d], d.k = at[s].k,
           f.kind = "commit" => f.of = s /\ f.k = at[s].k /\ at[s].pc \in Making,
           d.pc \in Making => at[s].pc \in Making, d.pc \notin Named \cup {"publish"} \/ d = at[s],
           d.pc \in Verified => d.seen \in Sound,
           d.pc = "publish" => f.kind = "part",
           d.other = None \/ (d.other = at[s].other /\ d.pc = "recover")
    PROVE  DownloadInv'
<1>1. /\ at \in [Session -> Locals] /\ at'[s] = d /\ \A t \in Session \ {s} : at'[t] = at[t]
      /\ data \in [D!File -> [content : Content \cup {None}, writes : Nat]]
      /\ \A h \in D!File \ {f} : data'[h] = data[h]
  BY DEF DownloadInv, DownloadTypes
<1>2. DownloadTypes'
  BY <1>1 DEF DownloadInv, DownloadTypes
<1>3. LocksInv'
  BY <1>1 DEF DownloadInv, LocksInv, LocksOk
<1>4. ASSUME NEW t \in Session, at'[t].pc \in Named \cup {"publish"}
      PROVE  data'[CommitOf(t, at[t].k)] = data[CommitOf(t, at[t].k)]
  <2>1. at[t].pc \in Named \cup {"publish"}
    BY <1>1, <1>4
  <2>2. CommitOf(t, at[t].k) \in D!File
    BY <2>1, OwnFiles DEF Making, Named
  <2>3. CommitOf(t, at[t].k) # f
    BY <1>1, <1>4, <2>1 DEF CommitOf, Making, Named
  <2>. QED  BY <1>1, <2>2, <2>3
<1>5. \A t \in Session : LocalsOk(t, at[t])'
  <2>. SUFFICES ASSUME NEW t \in Session PROVE LocalsOk(t, at[t])'
    OBVIOUS
  <2>1. at'[t].k = at[t].k /\ LocalsOk(t, at[t])
    BY <1>1 DEF DownloadInv, NamesInv
  <2>2. at'[t] = at[t] \/ (t = s /\ at'[t] = d)
    BY <1>1
  <2>3. CASE at'[t] = at[t]
    BY <1>4, <2>1, <2>3 DEF LocalsOk
  <2>4. CASE t = s /\ at'[t] = d /\ d # at[s]
    BY <2>1, <2>4 DEF LocalsOk
  <2>. QED  BY <2>2, <2>3, <2>4
<1>6. \A t \in Session : NamesOk(t)'
  <2>. SUFFICES ASSUME NEW t \in Session, NEW n \in D!Name, completed[t][n] # None
                PROVE  /\ data'[completed[t][n]] = data[completed[t][n]]
                       /\ completed[t][n].k = at[t].k => at'[t].pc \notin Making
    BY <1>1 DEF DownloadInv, NamesInv, NamesOk
  <2>. DEFINE c == completed[t][n]
  <2>1. c.of = t /\ c.kind = "commit" /\ (c.k = at[t].k => at[t].pc \notin Making) /\ c \in D!File
    BY DEF DownloadInv, DownloadTypes, NamesInv, NamesOk
  <2>2. c # f
    BY <2>1
  <2>. QED  BY <1>1, <2>1, <2>2
<1>. QED  BY <1>2, <1>3, <1>5, <1>6 DEF DownloadInv, NamesInv

\* The browser writes on, to a staging file.
LEMMA ProducerKeeps ==
    ASSUME DownloadInv, NEW f \in D!File, D!ProducerWrites(f) PROVE DownloadInv'
<1>1. /\ f.kind = "part" /\ data[f].writes \in Nat /\ f.of \in Session
      /\ UNCHANGED <<store, parts, hidden, completed, at, receipts>>
  BY DEF DownloadInv, DownloadTypes, D!ProducerWrites, D!File
<1>2. PICK c \in Content : data' = [data EXCEPT ![f] = [content |-> c, writes |-> @.writes + 1]]
  BY DEF D!ProducerWrites
<1>. DEFINE e == [content |-> c, writes |-> data[f].writes + 1]
<1>3. e \in [content : Content \cup {None}, writes : Nat] /\ data' = [data EXCEPT ![f] = e]
  BY <1>1, <1>2
<1>. HIDE DEF e
<1>4. PICK s \in Session : s = f.of
  BY <1>1
<1>5. at' = [at EXCEPT ![s] = at[s]]
  BY <1>1, OwnLocals
<1>6. at[s].other = None \/ at[s].pc = "recover"
  BY NotRecovering
<1>7. at[s].pc \in Verified => at[s].seen \in Sound
  BY OwnLocals DEF LocalsOk
<1>. QED  BY <1>1, <1>3, <1>5, <1>6, <1>7, OwnLocals, WritesOther

\* The browser saves into the staging file.
LEMMA DownloadSaves ==
    ASSUME DownloadInv, NEW s \in Session, D!Saves(s) PROVE DownloadInv'
<1>1. at[s].pc = "save" /\ UNCHANGED <<store, parts, hidden, completed, receipts>>
  BY DEF D!Saves
<1>2. CASE UNCHANGED data /\ D!Goes(s, "idle")
  BY <1>1, <1>2, OwnLocals, MovesOn DEF Places
<1>3. ASSUME NEW c \in Content, data' = [data EXCEPT ![D!Part(s)].content = c], D!Goes(s, "verify")
      PROVE  DownloadInv'
  <2>1. D!Part(s) \in D!File /\ D!Part(s).kind = "part"
    BY <1>1, OwnFiles DEF Making
  <2>. DEFINE e == [data[D!Part(s)] EXCEPT !.content = c]
  <2>2. data[D!Part(s)] \in [content : Content \cup {None}, writes : Nat]
    BY <2>1 DEF DownloadInv, DownloadTypes
  <2>3. e \in [content : Content \cup {None}, writes : Nat] /\ data' = [data EXCEPT ![D!Part(s)] = e]
    BY <1>3, <2>2
  <2>. HIDE DEF e
  <2>4. PICK d \in Locals : /\ at' = [at EXCEPT ![s] = d] /\ d.pc = "verify" /\ d.k = at[s].k
                            /\ d.other = at[s].other
    BY <1>3, GoesTo DEF Places
  <2>5. d.other = None
    BY <1>1, <2>4, NotRecovering
  <2>. QED  BY <1>1, <2>1, <2>3, <2>4, <2>5, OwnLocals, WritesOther DEF Making, Named, Verified
<1>. QED  BY <1>2, <1>3 DEF D!Saves

\* The verified content is copied into a file of the store's own.
LEMMA DownloadCopies ==
    ASSUME DownloadInv, NEW s \in Session, D!Copies(s) PROVE DownloadInv'
<1>1. at[s].pc = "copy" /\ UNCHANGED <<store, parts, completed, receipts>> /\ D!Goes(s, "check")
  BY DEF D!Copies
<1>2. /\ D!Part(s) \in D!File /\ D!Commit(s) \in D!File /\ D!Commit(s).of = s
      /\ D!Commit(s).k = at[s].k
  BY <1>1, OwnFiles DEF Making
<1>3. hidden' \in [Session -> SUBSET D!File]
  BY <1>2, OwnLocals DEF D!Copies
<1>. DEFINE e == [data[D!Commit(s)] EXCEPT !.content = data[D!Part(s)].content]
<1>4. /\ data[D!Commit(s)] \in [content : Content \cup {None}, writes : Nat]
      /\ data[D!Part(s)].content \in Content \cup {None}
  BY <1>2 DEF DownloadInv, DownloadTypes
<1>5. e \in [content : Content \cup {None}, writes : Nat] /\ data' = [data EXCEPT ![D!Commit(s)] = e]
  BY <1>4 DEF D!Copies
<1>. HIDE DEF e
<1>6. PICK d \in Locals : /\ at' = [at EXCEPT ![s] = d] /\ d.pc = "check" /\ d.k = at[s].k
                          /\ d.other = at[s].other /\ d.seen = at[s].seen
  BY <1>1, GoesTo DEF Places
<1>7. d.other = None /\ at[s].seen \in Sound
  BY <1>1, <1>6, NotRecovering, OwnLocals DEF LocalsOk, Verified
<1>. QED  BY <1>1, <1>2, <1>3, <1>5, <1>6, <1>7, OwnLocals, WritesOther DEF Making, Named, Verified

\* A name is given to the copy that was checked.
LEMMA GivesName ==
    ASSUME DownloadInv, NEW s \in Session, at[s].pc = "publish", NEW v \in Named, D!Goes(s, v),
           completed' = [completed EXCEPT ![s][at[s].name] = D!Commit(s)],
           receipts' = [receipts EXCEPT ![s][at[s].name] = None],
           UNCHANGED <<store, parts, data>>, hidden' \in [Session -> SUBSET D!File]
    PROVE  DownloadInv'
<1>. DEFINE n == at[s].name
            f == D!Commit(s)
<1>1. PICK d \in Locals : /\ at' = [at EXCEPT ![s] = d] /\ d.pc = v /\ d.k = at[s].k
                          /\ d.other = at[s].other /\ d.seen = at[s].seen /\ d.name = n
  BY GoesTo DEF Places, Named
<1>2. /\ n \in D!Name /\ f \in D!File /\ f # None /\ f = CommitOf(s, at[s].k)
      /\ f.of = s /\ f.kind = "commit" /\ f.k = at[s].k
  BY OwnLocals, OwnFiles DEF Locals, Making
<1>3. /\ data[f].content = at[s].seen /\ at[s].seen \in Sound /\ d.other = None
      /\ LocalsOk(s, at[s])
  BY <1>1, <1>2, NotRecovering, OwnLocals DEF LocalsOk, Making, Verified, Named
<1>. HIDE DEF n, f
<1>4. /\ at \in [Session -> Locals] /\ at'[s] = d /\ \A t \in Session \ {s} : at'[t] = at[t]
      /\ \A t \in Session \ {s} : completed'[t] = completed[t] /\ receipts'[t] = receipts[t]
      /\ completed'[s][n] = f /\ receipts'[s][n] = None
      /\ \A m \in D!Name \ {n} : completed'[s][m] = completed[s][m] /\ receipts'[s][m] = receipts[s][m]
  BY <1>1, <1>2 DEF DownloadInv, DownloadTypes, n, f
<1>5. DownloadTypes'
  BY <1>1, <1>2 DEF DownloadInv, DownloadTypes, n, f
<1>6. LocksInv'
  BY <1>3, <1>4 DEF DownloadInv, LocksInv, LocksOk
<1>7. \A t \in Session : LocalsOk(t, at[t])'
  <2>1. \A t \in Session \ {s} : LocalsOk(t, at[t])'
    BY <1>4 DEF DownloadInv, NamesInv, LocalsOk
  <2>2. LocalsOk(s, d)'
    BY <1>1, <1>2, <1>3, <1>4 DEF LocalsOk, Making, Verified, Named
  <2>. QED  BY <2>1, <2>2, <1>4
<1>8. \A t \in Session : NamesOk(t)'
  <2>1. \A t \in Session \ {s} : NamesOk(t)'
    BY <1>4 DEF DownloadInv, NamesInv, NamesOk
  <2>2. NamesOk(s)'
    <3>1. \A m \in D!Name \ {n} :
             /\ completed[s][m] # None =>
                   /\ completed[s][m].of = s /\ completed[s][m].kind = "commit"
                   /\ data[completed[s][m]].content \in Sound /\ completed[s][m].k <= at[s].k
             /\ receipts[s][m] # None =>
                   completed[s][m] # None /\ data[completed[s][m]].content = receipts[s][m]
      BY DEF DownloadInv, NamesInv, NamesOk
    <3>2. d.pc \notin Making /\ at[s].k <= at[s].k
      BY <1>1, OwnLocals DEF Making, Named
    <3>. QED  BY <3>1, <3>2, <1>1, <1>2, <1>3, <1>4 DEF NamesOk
  <2>. QED  BY <2>1, <2>2
<1>. QED  BY <1>5, <1>6, <1>7, <1>8 DEF DownloadInv, NamesInv

\* The copy gets its name: one that is free, or one that it is told to replace.
LEMMA DownloadPublishes ==
    ASSUME DownloadInv, NEW s \in Session, D!Replaces(s) \/ D!Links(s) PROVE DownloadInv'
<1>1. CASE D!Replaces(s)
  <2>1. hidden' \in [Session -> SUBSET D!File]
    BY <1>1, OwnLocals DEF D!Replaces
  <2>. QED  BY <1>1, <2>1, GivesName DEF D!Replaces, D!PublishedFile, Named
<1>2. CASE D!Links(s) /\ at[s].name \in D!Taken(s)
  BY <1>2, DownloadFails DEF D!Links
<1>3. CASE D!Links(s) /\ at[s].name \notin D!Taken(s)
  <2>1. at[s].name \in D!Name /\ receipts[s] \in [D!Name -> Content \cup {None}]
                              /\ receipts \in [Session -> [D!Name -> Content \cup {None}]]
    BY OwnLocals DEF Locals, DownloadInv, DownloadTypes
  <2>2. completed[s][at[s].name] = None
    BY <1>3, <2>1 DEF D!Taken
  <2>3. receipts[s][at[s].name] = None
    BY <2>1, <2>2 DEF DownloadInv, NamesInv, NamesOk
  <2>4. /\ at[s].pc = "publish" /\ D!Goes(s, "unlink")
        /\ completed' = [completed EXCEPT ![s][at[s].name] = D!Commit(s)]
        /\ UNCHANGED <<store, parts, hidden, data, receipts>>
    BY <1>3 DEF D!Links, D!PublishedFile
  <2>5. receipts' = [receipts EXCEPT ![s][at[s].name] = None]
    BY <2>1, <2>3, <2>4
  <2>. QED  BY <2>4, <2>5, OwnLocals, GivesName DEF Named
<1>. QED  BY <1>1, <1>2, <1>3

\* The receipt says what was verified.
LEMMA DownloadCleans ==
    ASSUME DownloadInv, NEW s \in Session, D!Cleans(s) PROVE DownloadInv'
<1>1. /\ at[s].pc = "clean" /\ receipts' = [receipts EXCEPT ![s][at[s].name] = at[s].seen]
      /\ D!Goes(s, "idle") /\ UNCHANGED <<store, hidden, completed, data>>
  BY DEF D!Cleans
<1>2. parts' \in [Session -> SUBSET D!File]
  BY OwnLocals DEF D!Cleans
<1>. DEFINE n == at[s].name
<1>3. PICK d \in Locals : at' = [at EXCEPT ![s] = d] /\ d.pc = "idle" /\ d.k = at[s].k
                                                     /\ d.other = at[s].other
  BY <1>1, GoesTo DEF Places
<1>4. /\ n \in D!Name /\ at[s].seen \in Content \cup {None} /\ d.other = None
      /\ completed[s][n] # None /\ data[completed[s][n]].content = at[s].seen
  BY <1>1, <1>3, OwnFiles, OwnLocals, NotRecovering DEF Locals, LocalsOk, Named
<1>. HIDE DEF n
<1>5. /\ at \in [Session -> Locals] /\ at'[s] = d /\ \A t \in Session \ {s} : at'[t] = at[t]
      /\ \A t \in Session \ {s} : receipts'[t] = receipts[t]
      /\ receipts'[s][n] = at[s].seen /\ \A m \in D!Name \ {n} : receipts'[s][m] = receipts[s][m]
  BY <1>1, <1>3, <1>4 DEF DownloadInv, DownloadTypes, n
<1>6. DownloadTypes'
  BY <1>1, <1>2, <1>3, <1>4 DEF DownloadInv, DownloadTypes, n
<1>7. LocksInv'
  BY <1>1, <1>4, <1>5 DEF DownloadInv, LocksInv, LocksOk
<1>8. \A t \in Session : LocalsOk(t, at[t])'
  <2>1. LocalsOk(s, d)
    BY <1>3, OwnLocals DEF LocalsOk, Making, Verified, Named
  <2>. QED  BY <2>1, <1>1, <1>5 DEF DownloadInv, NamesInv, LocalsOk
<1>9. \A t \in Session : NamesOk(t)'
  BY <1>1, <1>3, <1>4, <1>5 DEF DownloadInv, NamesInv, NamesOk, Making
<1>. QED  BY <1>6, <1>7, <1>8, <1>9 DEF DownloadInv, NamesInv

\* What a step of the stores, which leaves all downloads where they are or ends them, has to keep.
LEMMA StoreStep ==
    ASSUME DownloadInv, UNCHANGED <<parts, hidden, completed, data, receipts>>,
           store' \in [Session -> Stores], at' \in [Session -> Locals], LocksInv',
           \A t \in Session :
              /\ at'[t].k = at[t].k /\ at'[t].seen = at[t].seen /\ at'[t].name = at[t].name
              /\ at'[t].pc = at[t].pc \/ at'[t].pc \notin Making \cup Verified
    PROVE  DownloadInv'
<1>1. DownloadTypes'
  BY DEF DownloadInv, DownloadTypes
<1>2. ASSUME NEW t \in Session PROVE LocalsOk(t, at[t])'
  <2>1. LocalsOk(t, at[t])
    BY DEF DownloadInv, NamesInv
  <2>0. Named \subseteq Verified /\ "publish" \in Verified
    BY DEF Verified, Named
  <2>2. CASE at'[t].pc = at[t].pc
    BY <2>1, <2>2 DEF LocalsOk
  <2>3. CASE at'[t].pc \notin Making \cup Verified
    BY <2>0, <2>1, <2>3 DEF LocalsOk
  <2>. QED  BY <2>2, <2>3
<1>3. ASSUME NEW t \in Session PROVE NamesOk(t)'
  <2>0. NamesOk(t)
    BY DEF DownloadInv, NamesInv
  <2>1. at'[t].k = at[t].k /\ (at'[t].pc \in Making => at[t].pc \in Making)
    OBVIOUS
  <2>. QED  BY <2>0, <2>1 DEF NamesOk
<1>. QED  BY <1>1, <1>2, <1>3 DEF DownloadInv, NamesInv

\* What is known of a store.
LEMMA StoreTyped ==
    ASSUME DownloadInv, NEW s \in Session
    PROVE  /\ store[s] \in Stores /\ store \in [Session -> Stores] /\ at \in [Session -> Locals]
           /\ at[s] \in Locals /\ None \notin Session /\ LocksInv
BY DownloadsInstance DEF D!DownloadsAssumption, DownloadInv, DownloadTypes

\* A session opens, closes, dies or grows old: it holds its own lock as long as it lives, and the
\* system drops the locks of a process that dies.
LEMMA StoresKeep == ASSUME DownloadInv, NEW s \in Session, D!Stores(s) PROVE DownloadInv'
<1>. DEFINE Steady == \A t \in Session :
              /\ at'[t].k = at[t].k /\ at'[t].seen = at[t].seen /\ at'[t].name = at[t].name
              /\ at'[t].pc = at[t].pc \/ at'[t].pc \notin Making \cup Verified
<1>1. CASE D!Marks(s) \/ D!Ages(s)
  <2>1. PICK e \in Stores : /\ store' = [store EXCEPT ![s] = e] /\ e.lock = store[s].lock
                            /\ e.state = "live" => store[s].state = "live"
    <3>1. CASE D!Marks(s)
      <4>. DEFINE e == [store[s] EXCEPT !.state = "marked"]
      <4>1. e \in Stores /\ e.lock = store[s].lock /\ e.state = "marked"
        BY StoreTyped DEF Stores
      <4>. QED  BY <3>1, <4>1 DEF D!Marks
    <3>2. CASE D!Ages(s)
      <4>. DEFINE e == [store[s] EXCEPT !.old = TRUE]
      <4>1. e \in Stores /\ e.lock = store[s].lock /\ e.state = store[s].state
        BY StoreTyped DEF Stores
      <4>. QED  BY <3>2, <4>1 DEF D!Ages
    <3>. QED  BY <1>1, <3>1, <3>2
  <2>2. UNCHANGED <<at, parts, hidden, completed, data, receipts>>
    BY <1>1 DEF D!Marks, D!Ages, D!FilesUnchanged
  <2>3. LocksInv'
    BY <2>1, <2>2, StoreTyped DEF LocksInv, LocksOk
  <2>. QED  BY <2>1, <2>2, <2>3, StoreTyped, StoreStep
<1>2. CASE D!Opens(s)
  <2>. DEFINE e == [[store[s] EXCEPT !.state = "live"] EXCEPT !.lock = s]
  <2>1. e \in Stores /\ e.lock = s /\ e.state = "live"
    BY StoreTyped DEF Stores
  <2>2. store' = [store EXCEPT ![s] = e] /\ store[s].lock = None /\ D!Goes(s, "recover")
    BY <1>2 DEF D!Opens
  <2>. HIDE DEF e
  <2>3. PICK d \in Locals :
           /\ at' = [at EXCEPT ![s] = d] /\ d.pc = "recover" /\ d.k = at[s].k /\ d.seen = at[s].seen
           /\ d.name = at[s].name /\ d.other = at[s].other
    BY <2>2, GoesTo DEF Places
  <2>4. LocksInv'
    BY <2>1, <2>2, <2>3, StoreTyped DEF LocksInv, LocksOk
  <2>5. Steady
    BY <2>3, StoreTyped DEF Making, Verified
  <2>. QED  BY <1>2, <2>1, <2>2, <2>3, <2>4, <2>5, StoreTyped, StoreStep DEF D!Opens, D!FilesUnchanged
<1>3. CASE D!Closes(s)
  <2>. DEFINE e == [[store[s] EXCEPT !.state = "closed"] EXCEPT !.lock = None]
  <2>1. e \in Stores /\ e.lock = None /\ e.state = "closed"
    BY StoreTyped DEF Stores
  <2>2. /\ store' = [store EXCEPT ![s] = e] /\ store[s].lock = s /\ D!Goes(s, "gone")
        /\ at[s].pc = "idle"
    BY <1>3, StoreTyped DEF D!Closes, D!IsLive, LocksInv, LocksOk
  <2>. HIDE DEF e
  <2>3. PICK d \in Locals :
           /\ at' = [at EXCEPT ![s] = d] /\ d.pc = "gone" /\ d.k = at[s].k /\ d.seen = at[s].seen
           /\ d.name = at[s].name /\ d.other = at[s].other
    BY <2>2, GoesTo DEF Places
  <2>4. d.other = None
    BY <2>2, <2>3, NotRecovering
  <2>5. LocksInv'
    BY <2>1, <2>2, <2>3, <2>4, StoreTyped DEF LocksInv, LocksOk
  <2>6. Steady
    BY <2>3, StoreTyped DEF Making, Verified
  <2>. QED  BY <1>3, <2>1, <2>2, <2>3, <2>5, <2>6, StoreTyped, StoreStep DEF D!Closes, D!FilesUnchanged
<1>4. CASE D!Crashes(s)
  <2>1. store' = [t \in Session |-> [store[t] EXCEPT !.lock = IF @ = s THEN None ELSE @,
                                                     !.state = IF t = s THEN "dead" ELSE @]]
    BY <1>4 DEF D!Crashes
  <2>2. \A t \in Session :
           /\ store'[t] \in Stores
           /\ store'[t].lock = IF store[t].lock = s THEN None ELSE store[t].lock
           /\ store'[t].state = IF t = s THEN "dead" ELSE store[t].state
    <3>. TAKE t \in Session
    <3>. DEFINE l == IF store[t].lock = s THEN None ELSE store[t].lock
                q == IF t = s THEN "dead" ELSE store[t].state
                e == [[store[t] EXCEPT !.lock = l] EXCEPT !.state = q]
    <3>1. l \in Session \cup {None} /\ q \in {"none", "marked", "live", "dead", "closed"}
      BY StoreTyped DEF Stores
    <3>2. store'[t] = e
      BY <2>1
    <3>3. store[t] \in Stores
      BY StoreTyped
    <3>. HIDE DEF l, q
    <3>4. e \in Stores /\ e.lock = l /\ e.state = q
      BY <3>1, <3>3 DEF Stores
    <3>. HIDE DEF e
    <3>. QED  BY <3>2, <3>4 DEF l, q
  <2>3. store' \in [Session -> Stores]
    BY <2>1, <2>2
  <2>. DEFINE d == [[at[s] EXCEPT !.pc = "gone"] EXCEPT !.other = None]
  <2>4. at' = [at EXCEPT ![s] = d] /\ UNCHANGED <<parts, hidden, completed, data, receipts>>
    BY <1>4 DEF D!Crashes, D!FilesUnchanged
  <2>5. /\ d \in Locals /\ d.pc = "gone" /\ d.k = at[s].k /\ d.seen = at[s].seen
        /\ d.name = at[s].name /\ d.other = None
    BY StoreTyped DEF Locals, Places
  <2>. HIDE DEF d
  <2>6. ASSUME NEW t \in Session PROVE LocksOk(t)'
    <3>1. /\ at'[s] = d /\ \A u \in Session \ {s} : at'[u] = at[u]
          /\ None \notin Session /\ LocksOk(t) /\ at[t] \in Locals
      BY <2>4, StoreTyped DEF LocksInv
    <3>2. store'[t].state = "live" => store'[t].lock = t
      BY <2>2, <3>1 DEF LocksOk
    <3>3. ASSUME at'[t].other # None
          PROVE  at'[t].pc = "recover" /\ at'[t].other # t /\ store'[at'[t].other].lock = t
      <4>1. t # s /\ at'[t] = at[t]
        BY <2>5, <3>1, <3>3
      <4>2. PICK o \in Session : o = at[t].other
        BY <3>1, <3>3, <4>1 DEF Locals
      <4>3. store[o].lock = t /\ o # t /\ at[t].pc = "recover"
        BY <3>1, <3>3, <4>1, <4>2 DEF LocksOk
      <4>4. store'[o].lock = t
        BY <2>2, <4>1, <4>3
      <4>. QED  BY <4>1, <4>2, <4>3, <4>4
    <3>. QED  BY <3>2, <3>3 DEF LocksOk
  <2>7. Steady
    BY <2>4, <2>5, StoreTyped DEF Making, Verified
  <2>8. LocksInv'
    BY <2>6 DEF LocksInv
  <2>. QED  BY <2>3, <2>4, <2>5, <2>7, <2>8, StoreTyped, StoreStep
<1>. QED  BY <1>1, <1>2, <1>3, <1>4 DEF D!Stores

\* A session clears away what another left only under the lock of that session's store, which
\* nobody else holds then.
LEMMA RecoverKeeps == ASSUME DownloadInv, NEW r \in Session, D!Recover(r) PROVE DownloadInv'
<1>. DEFINE Steady == \A t \in Session :
              /\ at'[t].k = at[t].k /\ at'[t].seen = at[t].seen /\ at'[t].name = at[t].name
              /\ at'[t].pc = at[t].pc \/ at'[t].pc \notin Making \cup Verified
<1>1. ASSUME NEW s \in Session, D!RecoverLocks(r, s) PROVE DownloadInv'
  <2>. DEFINE e == [store[s] EXCEPT !.lock = r]
              d == [at[r] EXCEPT !.other = s]
  <2>1. e \in Stores /\ e.lock = r /\ e.state = store[s].state
    BY StoreTyped DEF Stores
  <2>2. /\ d \in Locals /\ d.pc = at[r].pc /\ d.k = at[r].k /\ d.seen = at[r].seen
        /\ d.name = at[r].name /\ d.other = s
    BY StoreTyped DEF Locals
  <2>3. /\ store' = [store EXCEPT ![s] = e] /\ at' = [at EXCEPT ![r] = d]
        /\ at[r].pc = "recover" /\ at[r].other = None /\ s # r /\ store[s].lock = None
        /\ UNCHANGED <<parts, hidden, completed, data, receipts>>
    BY <1>1 DEF D!RecoverLocks, D!Abandoned, D!FilesUnchanged
  <2>. HIDE DEF d, e
  <2>4. LocksInv'
    BY <2>1, <2>2, <2>3, StoreTyped DEF LocksInv, LocksOk
  <2>5. Steady
    BY <2>2, <2>3, StoreTyped
  <2>. QED  BY <2>1, <2>2, <2>3, <2>4, <2>5, StoreTyped, StoreStep
<1>2. CASE D!RecoverRemoves(r)
  <2>1. parts' \in [Session -> SUBSET D!File] /\ at' = [at EXCEPT ![r] = at[r]]
    BY <1>2, OwnLocals DEF D!RecoverRemoves
  <2>. QED  BY <1>2, <2>1, OwnLocals, LocalStep DEF D!RecoverRemoves
<1>3. CASE D!RecoverUnlocks(r)
  <2>1. PICK o \in Session : o = at[r].other /\ store[o].lock = r /\ o # r /\ at[r].pc = "recover"
    BY <1>3, StoreTyped DEF D!RecoverUnlocks, LocksInv, LocksOk, Locals
  <2>. DEFINE e == [store[o] EXCEPT !.lock = None]
              d == [at[r] EXCEPT !.other = None]
  <2>2. e \in Stores /\ e.lock = None /\ e.state = store[o].state
    BY StoreTyped DEF Stores
  <2>3. /\ d \in Locals /\ d.pc = at[r].pc /\ d.k = at[r].k /\ d.seen = at[r].seen
        /\ d.name = at[r].name /\ d.other = None
    BY StoreTyped DEF Locals
  <2>4. /\ store' = [store EXCEPT ![o] = e] /\ at' = [at EXCEPT ![r] = d]
        /\ UNCHANGED <<parts, hidden, completed, data, receipts>>
    BY <1>3, <2>1, StoreTyped DEF D!RecoverUnlocks, D!FilesUnchanged
  <2>. HIDE DEF d, e
  <2>5. LocksInv'
    BY <2>1, <2>2, <2>3, <2>4, StoreTyped DEF LocksInv, LocksOk
  <2>6. Steady
    BY <2>3, <2>4, StoreTyped
  <2>. QED  BY <2>2, <2>3, <2>4, <2>5, <2>6, StoreTyped, StoreStep
<1>4. CASE D!RecoverEnds(r)
  BY <1>4, DownloadSteps
<1>. QED  BY <1>1, <1>2, <1>3, <1>4 DEF D!Recover

\* No store is there.
LEMMA DownloadInit == D!Init => DownloadInv
<1>. SUFFICES ASSUME D!Init PROVE DownloadInv
  OBVIOUS
<1>1. /\ Wanted \in [Session -> Nat] /\ 1 \in D!Name /\ None \notin Session
  BY DownloadsInstance DEF D!DownloadsAssumption, D!Name
<1>2. store \in [Session -> Stores] /\ \A s \in Session : store[s].state = "none"
  <2>. DEFINE e == [state |-> "none", old |-> FALSE, lock |-> None]
  <2>1. e \in Stores /\ e.state = "none"
    BY DEF Stores
  <2>2. store = [s \in Session |-> e]
    BY DEF D!Init
  <2>. HIDE DEF e
  <2>. QED  BY <2>1, <2>2
<1>3. /\ at \in [Session -> Locals]
      /\ \A s \in Session : at[s].pc = "idle" /\ at[s].k = 0 /\ at[s].other = None
  <2>. DEFINE d == [pc |-> "idle", k |-> 0, policy |-> "reject", writes |-> 0, seen |-> None,
                    name |-> 1, other |-> None]
  <2>1. d \in Locals /\ d.pc = "idle" /\ d.k = 0 /\ d.other = None
    BY <1>1 DEF Locals, Places, D!Policies
  <2>2. at = [s \in Session |-> d]
    BY DEF D!Init
  <2>. HIDE DEF d
  <2>. QED  BY <2>1, <2>2
<1>4. /\ completed = [s \in Session |-> [n \in D!Name |-> None]] /\ receipts = completed
      /\ parts = [s \in Session |-> {}] /\ hidden = parts /\ data = [f \in D!File |-> D!Empty]
  BY DEF D!Init
<1>5. D!Empty \in [content : Content \cup {None}, writes : Nat]
  BY DEF D!Empty
<1>6. DownloadTypes
  BY <1>2, <1>3, <1>4, <1>5 DEF DownloadTypes
<1>7. LocksInv
  BY <1>2, <1>3 DEF LocksInv, LocksOk
<1>8. NamesInv
  BY <1>1, <1>3, <1>4 DEF NamesInv, LocalsOk, NamesOk, Making, Verified, Named
<1>. QED  BY <1>6, <1>7, <1>8 DEF DownloadInv

\* Every step of a download keeps the invariant.
LEMMA DownloadNext == DownloadInv /\ [D!Next]_downloadVars => DownloadInv'
<1>. SUFFICES ASSUME DownloadInv, [D!Next]_downloadVars PROVE DownloadInv'
  OBVIOUS
<1>1. ASSUME NEW s \in Session, D!Download(s) PROVE DownloadInv'
  BY <1>1, DownloadSteps, DownloadTriggers, DownloadSaves, DownloadVerifies, DownloadCopies,
     DownloadPublishes, DownloadCleans DEF D!Download
<1>2. CASE UNCHANGED downloadVars
  BY <1>2 DEF downloadVars, DownloadInv, DownloadTypes, LocksInv, LocksOk, NamesInv, LocalsOk,
     NamesOk
<1>. QED  BY <1>1, <1>2, StoresKeep, RecoverKeeps, ProducerKeeps DEF D!Next

\* A step of the download of a session changes where the download is.
LEMMA OthersStay ==
    ASSUME DownloadInv, NEW s \in Session, NEW v \in Places, D!Goes(s, v), v # at[s].pc
    PROVE  at'[s] # at[s]
<1>1. PICK d \in Locals : at' = [at EXCEPT ![s] = d] /\ d.pc = v
  BY GoesTo
<1>2. at'[s] = d
  BY <1>1, OwnLocals
<1>. QED  BY <1>1, <1>2

\* So what stays with its owner is what the owner's own step changes, and what a recovery takes is
\* not of a live session.
LEMMA OwnersKeep == DownloadInv /\ [D!Next]_downloadVars => D!OwnerStep
<1>. SUFFICES ASSUME DownloadInv, [D!Next]_downloadVars, NEW s \in Session, at'[s] = at[s]
              PROVE  completed'[s] = completed[s] /\ (D!IsLive(s) => parts'[s] = parts[s])
  BY DEF D!OwnerStep
<1>1. ASSUME NEW t \in Session, D!Fails(t), at[t].pc # "idle"
      PROVE  completed'[s] = completed[s] /\ (D!IsLive(s) => parts'[s] = parts[s])
  <2>1. t # s
    BY <1>1, OthersStay DEF D!Fails, Places
  <2>. QED  BY <1>1, <2>1, OwnLocals DEF D!Fails
<1>2. ASSUME NEW t \in Session, D!Download(t)
      PROVE  completed'[s] = completed[s] /\ (D!IsLive(s) => parts'[s] = parts[s])
  <2>1. CASE D!Stages(t)
    <3>1. t # s
      BY <2>1, OthersStay DEF D!Stages, Places
    <3>. QED  BY <2>1, <3>1, OwnLocals DEF D!Stages
  <2>2. CASE D!Replaces(t)
    <3>1. t # s
      BY <2>2, OthersStay DEF D!Replaces, Places
    <3>. QED  BY <2>2, <3>1 DEF D!Replaces, DownloadInv, DownloadTypes
  <2>3. CASE D!Links(t) /\ at[t].name \notin D!Taken(t)
    <3>1. t # s
      BY <2>3, OthersStay DEF D!Links, Places
    <3>. QED  BY <2>3, <3>1 DEF D!Links, DownloadInv, DownloadTypes
  <2>4. CASE D!Links(t) /\ at[t].name \in D!Taken(t)
    BY <2>4, <1>1 DEF D!Links
  <2>5. CASE D!Unlinks(t)
    <3>1. t # s
      BY <2>5, OthersStay DEF D!Unlinks, Places
    <3>. QED  BY <2>5, <3>1, OwnLocals DEF D!Unlinks
  <2>6. CASE D!Cleans(t)
    <3>1. t # s
      BY <2>6, OthersStay DEF D!Cleans, Places
    <3>. QED  BY <2>6, <3>1, OwnLocals DEF D!Cleans
  <2>7. CASE D!Aborts(t)
    BY <2>7, <1>1 DEF D!Aborts
  <2>8. CASE D!VerifyEnds(t)
    <3>1. UNCHANGED <<completed, parts>> \/ D!Fails(t)
      BY <2>8 DEF D!VerifyEnds, D!FilesUnchanged
    <3>. QED  BY <2>8, <3>1, <1>1 DEF D!VerifyEnds
  <2>9. CASE D!Checks(t)
    <3>1. UNCHANGED <<completed, parts>> \/ D!Fails(t)
      BY <2>9 DEF D!Checks, D!FilesUnchanged
    <3>. QED  BY <2>9, <3>1, <1>1 DEF D!Checks
  <2>10. CASE D!TriggerFails(t) \/ D!Triggers(t) \/ D!Saves(t) \/ D!VerifyBegins(t) \/ D!Copies(t)
    BY <2>10 DEF D!TriggerFails, D!Triggers, D!Saves, D!VerifyBegins, D!Copies, D!FilesUnchanged
  <2>. QED
    BY <1>2, <2>1, <2>2, <2>3, <2>4, <2>5, <2>6, <2>7, <2>8, <2>9, <2>10 DEF D!Download
<1>3. ASSUME NEW r \in Session, D!Recover(r)
      PROVE  completed'[s] = completed[s] /\ (D!IsLive(s) => parts'[s] = parts[s])
  <2>1. CASE D!RecoverRemoves(r)
    <3>1. D!IsLive(s) => at[r].other # s
      BY <2>1, StoreTyped DEF D!RecoverRemoves, D!IsLive, LocksInv, LocksOk
    <3>2. completed' = completed /\ (at[r].other # s => parts'[s] = parts[s])
      BY <2>1, OwnLocals DEF D!RecoverRemoves
    <3>. QED  BY <3>1, <3>2
  <2>2. CASE ~D!RecoverRemoves(r)
    BY <1>3, <2>2 DEF D!Recover, D!RecoverLocks, D!RecoverUnlocks, D!RecoverEnds, D!FilesUnchanged
  <2>. QED  BY <2>1, <2>2
<1>4. ASSUME NEW t \in Session, D!Stores(t) PROVE UNCHANGED <<completed, parts>>
  BY <1>4 DEF D!Stores, D!Marks, D!Ages, D!Opens, D!Crashes, D!Closes, D!FilesUnchanged
<1>5. ASSUME NEW f \in D!File, D!ProducerWrites(f) PROVE UNCHANGED <<completed, parts>>
  BY <1>5 DEF D!ProducerWrites
<1>6. CASE UNCHANGED downloadVars
  BY <1>6 DEF downloadVars
<1>. QED  BY <1>2, <1>3, <1>4, <1>5, <1>6 DEF D!Next

\* The invariant of the downloads holds, whichever part runs.
LEMMA DownloadInvHolds == KeptSpec => []DownloadInv
<1>1. KeptInit => DownloadInv
  BY DownloadInit DEF KeptInit
<1>2. DownloadInv /\ [KeptNext]_<<vars, downloadVars, portableVars, part>> => DownloadInv'
  BY DownloadNext DEF KeptNext
<1>. QED  BY <1>1, <1>2, PTL DEF KeptSpec

\* The staging files of a live session, and the artifacts of any, are touched by its own download
\* only, as recovery takes the lock of a store first (contract/download.py), however old the
\* marker of the store is.
THEOREM FilesAreLeft == KeptSpec => LeftToTheirOwner
<1>1. DownloadInv /\ [KeptNext]_<<vars, downloadVars, portableVars, part>> =>
         [part = "downloads" => D!OwnerStep]_downloadVars
  BY OwnersKeep DEF KeptNext
<1>. QED  BY DownloadInvHolds, <1>1, PTL DEF KeptSpec, LeftToTheirOwner
-----------------------------------------------------------------------------
(* The portable state of browser contexts.                                  *)

Things == P!Item \cup {None}
Holds  == [P!Place -> Things]
Contexts == [profile : BOOLEAN, runs : BOOLEAN, holds : Holds, life : 1..MaxLives, stored : Nat,
             pending : {None} \cup Holds]
Tasks == [doing : {"none", "import", "add", "clear", "sweep"}, holds : Holds, origins : SUBSET Origin]

\* A document of the first version, from elsewhere, has this in that place.
FromLegacy(x, item) == \E doc \in Foreign : doc # None /\ P!Legacy(doc) /\ doc.holds[x] = item

\* What was brought to a place: it was let in, and secrets of local storage are of the first version.
LetIn(x, item, let) ==
    /\ <<x, item>> \in let
    /\ x[1] = "local_storage" /\ item.sensitive => FromLegacy(x, item)

\* A context, what is pending for it, and the import that is under way.
ContextOk(k, c, t, let) ==
    /\ c.runs \/ c.profile =>
          \A x \in P!Place : c.holds[x] # None /\ c.holds[x].of # <<k, c.life>> =>
             LetIn(x, c.holds[x], let) /\ (x[1] = "indexed_db" => ~c.profile)
    /\ c.pending # None => \A x \in P!Place : c.pending[x] # None => LetIn(x, c.pending[x], let)
    /\ t.doing \in {"add", "import"} =>
          /\ t.holds[P!Cookies] # None => LetIn(P!Cookies, t.holds[P!Cookies], let)
          /\ \A o \in t.origins :
                t.holds[P!Local(o)] # None => LetIn(P!Local(o), t.holds[P!Local(o)], let)

\* The file: local storage is under the origins that it lists, and a document of the first version
\* is from elsewhere.
FileOk ==
    file # None =>
        /\ file.origins \subseteq Origin /\ file.holds \in Holds
        /\ \A o \in Origin : file.holds[P!Local(o)] # None => o \in file.origins
        /\ P!Legacy(file) => file \in Foreign

PortableInv ==
    /\ ctx \in [Backend -> Contexts] /\ task \in [Backend -> Tasks]
    /\ admitted \in [Backend -> SUBSET (P!Place \X Things)]
    /\ \A k \in Backend : ContextOk(k, ctx[k], task[k], admitted[k])
    /\ FileOk

\* A step of one backend, and what it has to keep.
Moves(k, c, t, let) ==
    /\ ctx' = [ctx EXCEPT ![k] = c] /\ task' = [task EXCEPT ![k] = t]
    /\ admitted' = [admitted EXCEPT ![k] = let] /\ UNCHANGED file

LEMMA ContextStep ==
    ASSUME PortableInv, NEW k \in Backend, NEW c \in Contexts, NEW t \in Tasks,
           NEW let \in SUBSET (P!Place \X Things), Moves(k, c, t, let), ContextOk(k, c, t, let)
    PROVE  PortableInv'
<1>. USE DEF Moves
<1>1. /\ ctx' \in [Backend -> Contexts] /\ task' \in [Backend -> Tasks]
      /\ admitted' \in [Backend -> SUBSET (P!Place \X Things)]
  BY DEF PortableInv
<1>2. FileOk'
  BY DEF PortableInv, FileOk, P!Legacy
<1>3. /\ ctx'[k] = c /\ task'[k] = t /\ admitted'[k] = let
      /\ \A j \in Backend \ {k} : ctx'[j] = ctx[j] /\ task'[j] = task[j] /\ admitted'[j] = admitted[j]
  BY DEF PortableInv
<1>4. ASSUME NEW j \in Backend PROVE ContextOk(j, ctx[j], task[j], admitted[j])'
  <2>1. CASE j = k
    <3>1. ContextOk(k, c, t, let)
      OBVIOUS
    <3>. QED  BY <1>3, <2>1, <3>1 DEF ContextOk, LetIn, FromLegacy
  <2>2. CASE j # k
    <3>1. ContextOk(j, ctx[j], task[j], admitted[j])
      BY DEF PortableInv
    <3>. QED  BY <1>3, <2>2, <3>1 DEF ContextOk, LetIn, FromLegacy
  <2>. QED  BY <2>1, <2>2
<1>. QED  BY <1>1, <1>2, <1>4 DEF PortableInv

\* The places where a context keeps things.
LEMMA PlacesTyped ==
    /\ P!Cookies \in P!Place /\ P!Empty \in Holds /\ P!Cookies[1] = "cookies"
    /\ \A o \in Origin : P!Local(o) \in P!Place /\ P!Local(o)[1] = "local_storage"
    /\ \A x \in P!Place : x[1] = "local_storage" => \E o \in Origin : x = P!Local(o)
    /\ \A x \in P!Place : P!Empty[x] = None
<1>1. /\ P!Cookies \in P!Place /\ P!Cookies[1] = "cookies"
      /\ \A o \in Origin : P!Local(o) \in P!Place /\ P!Local(o)[1] = "local_storage"
  BY DEF P!Place, P!Cookies, P!Local
<1>2. \A x \in P!Place : x[1] = "local_storage" => \E o \in Origin : x = P!Local(o)
  BY DEF P!Place, P!Local
<1>3. P!Empty \in Holds /\ \A x \in P!Place : P!Empty[x] = None
  BY DEF P!Empty, Holds, Things
<1>. QED  BY <1>1, <1>2, <1>3

\* What is known of one backend.
LEMMA BackendTyped ==
    ASSUME PortableInv, NEW k \in Backend
    PROVE  /\ ctx[k] \in Contexts /\ task[k] \in Tasks /\ admitted[k] \in SUBSET (P!Place \X Things)
           /\ ContextOk(k, ctx[k], task[k], admitted[k])
           /\ ctx = [ctx EXCEPT ![k] = ctx[k]] /\ task = [task EXCEPT ![k] = task[k]]
           /\ admitted = [admitted EXCEPT ![k] = admitted[k]]
BY DEF PortableInv

\* Nothing is under way.
LEMMA IdleTyped == P!Idle \in Tasks /\ P!Idle.doing = "none"
BY PlacesTyped DEF P!Idle, Tasks

\* A new context holds what is pending for it, that of a profile what it had.
LEMMA PortableStarts == ASSUME PortableInv, NEW k \in Backend, P!Start(k) PROVE PortableInv'
<1>. DEFINE c == ctx[k]
<1>0. ~c.runs /\ UNCHANGED <<file, task, admitted>> /\ c \in Contexts
  BY BackendTyped DEF P!Start
<1>1. CASE c.profile
  <2>. DEFINE e == [c EXCEPT !.runs = TRUE]
  <2>1. ctx' = [ctx EXCEPT ![k] = e]
    BY <1>1 DEF P!Start
  <2>2. /\ e \in Contexts /\ e.profile = c.profile /\ e.holds = c.holds /\ e.life = c.life
        /\ e.pending = c.pending
    BY <1>0 DEF Contexts
  <2>. HIDE DEF e
  <2>3. ContextOk(k, c, task[k], admitted[k])
    BY BackendTyped
  <2>. HIDE DEF c
  <2>4. ContextOk(k, e, task[k], admitted[k])
    BY <1>1, <2>2, <2>3 DEF ContextOk
  <2>5. Moves(k, e, task[k], admitted[k])
    BY <1>0, <2>1, BackendTyped DEF Moves
  <2>. QED  BY <2>2, <2>4, <2>5, BackendTyped, ContextStep
<1>2. CASE ~c.profile
  <2>. DEFINE h == IF c.pending = None THEN P!Empty ELSE c.pending
              e == [[[[c EXCEPT !.runs = TRUE] EXCEPT !.life = c.life + 1] EXCEPT !.pending = None]
                    EXCEPT !.holds = h]
  <2>1. ctx' = [ctx EXCEPT ![k] = e] /\ c.life < MaxLives
    BY <1>2 DEF P!Start
  <2>2. h \in Holds
    BY <1>0, PlacesTyped DEF Contexts
  <2>3. c.life + 1 \in 1..MaxLives
    BY <1>0, <2>1, PortableInstance DEF Contexts, P!PortableAssumption
  <2>4. ContextOk(k, c, task[k], admitted[k])
    BY BackendTyped
  <2>5. \A x \in P!Place : h[x] # None => LetIn(x, h[x], admitted[k])
    BY <2>4, PlacesTyped DEF ContextOk
  <2>. HIDE DEF h
  <2>6. e \in Contexts /\ ~e.profile /\ e.holds = h /\ e.pending = None
    BY <1>0, <1>2, <2>2, <2>3 DEF Contexts
  <2>. HIDE DEF c, e
  <2>7. ContextOk(k, e, task[k], admitted[k])
    BY <2>4, <2>5, <2>6 DEF ContextOk
  <2>8. Moves(k, e, task[k], admitted[k])
    BY <1>0, <2>1, BackendTyped DEF Moves
  <2>. QED  BY <2>6, <2>7, <2>8, BackendTyped, ContextStep
<1>. QED  BY <1>1, <1>2

\* A closed context holds nothing, unless a profile keeps it, and nothing is pending.
LEMMA PortableCloses == ASSUME PortableInv, NEW k \in Backend, P!Closes(k) PROVE PortableInv'
<1>. DEFINE c == ctx[k]
            h == IF c.profile THEN c.holds ELSE P!Empty
            e == [[[c EXCEPT !.runs = FALSE] EXCEPT !.pending = None] EXCEPT !.holds = h]
            let == IF c.profile THEN admitted[k] ELSE {}
<1>0. /\ c \in Contexts /\ h \in Holds /\ let \in SUBSET (P!Place \X Things)
      /\ ContextOk(k, c, task[k], admitted[k])
  BY BackendTyped, PlacesTyped DEF Contexts
<1>1. /\ ctx' = [ctx EXCEPT ![k] = e] /\ task' = [task EXCEPT ![k] = P!Idle]
      /\ admitted' = [admitted EXCEPT ![k] = let] /\ UNCHANGED file
  BY DEF P!Closes
<1>2. c.profile => h = c.holds /\ let = admitted[k]
  OBVIOUS
<1>. HIDE DEF h, let
<1>3. /\ e \in Contexts /\ e.runs = FALSE /\ e.profile = c.profile /\ e.holds = h /\ e.life = c.life
      /\ e.pending = None
  BY <1>0 DEF Contexts
<1>. HIDE DEF e, c
<1>4. ContextOk(k, e, P!Idle, let)
  BY <1>0, <1>2, <1>3, IdleTyped DEF ContextOk
<1>5. Moves(k, e, P!Idle, let)
  BY <1>1 DEF Moves
<1>. QED  BY <1>0, <1>3, <1>4, <1>5, IdleTyped, ContextStep

\* One place of a context changes: what is there then is its own, was let in, or is nothing; and
\* what is left to do of an import becomes no more.
PlaceMade(k, x, item, e) ==
    /\ e.runs = ctx[k].runs /\ e.profile = ctx[k].profile /\ e.life = ctx[k].life
    /\ e.pending = ctx[k].pending /\ e.holds = [ctx[k].holds EXCEPT ![x] = item]
Belongs(k, x, item) ==
    \/ item = None
    \/ item.of = <<k, ctx[k].life>>
    \/ LetIn(x, item, admitted[k]) /\ x[1] # "indexed_db"
Puts(k, x, item, t) ==
    /\ ctx' = [ctx EXCEPT ![k].holds[x] = item] /\ task' = [task EXCEPT ![k] = t]
    /\ UNCHANGED <<file, admitted>>
GoesOn(k, t) ==
    \/ t.doing \notin {"add", "import"}
    \/ /\ task[k].doing \in {"add", "import"} /\ t.holds = task[k].holds
       /\ t.origins \subseteq task[k].origins

LEMMA PlaceChanges ==
    ASSUME PortableInv, NEW k \in Backend, NEW x \in P!Place, NEW item \in Things,
           NEW e \in Contexts, NEW t \in Tasks, PlaceMade(k, x, item, e), Moves(k, e, t, admitted[k]),
           Belongs(k, x, item), GoesOn(k, t)
    PROVE  PortableInv'
<1>. DEFINE c == ctx[k]
            u == task[k]
<1>0. /\ e.runs = c.runs /\ e.profile = c.profile /\ e.life = c.life
      /\ e.pending = c.pending /\ e.holds = [c.holds EXCEPT ![x] = item]
  BY DEF PlaceMade
<1>1. /\ c \in Contexts /\ ContextOk(k, c, u, admitted[k])
  BY BackendTyped
<1>2. c.holds \in Holds
  BY <1>1 DEF Contexts
<1>3. e.holds[x] = item /\ \A y \in P!Place \ {x} : e.holds[y] = c.holds[y]
  BY <1>0, <1>2 DEF Holds
<1>6. \/ item = None \/ item.of = <<k, c.life>>
      \/ LetIn(x, item, admitted[k]) /\ x[1] # "indexed_db"
  BY DEF Belongs
<1>7. \/ t.doing \notin {"add", "import"}
      \/ u.doing \in {"add", "import"} /\ t.holds = u.holds /\ t.origins \subseteq u.origins
  BY DEF GoesOn
<1>. HIDE DEF c, u
<1>4. \A y \in P!Place : e.runs \/ e.profile =>
         (e.holds[y] # None /\ e.holds[y].of # <<k, e.life>> =>
             LetIn(y, e.holds[y], admitted[k]) /\ (y[1] = "indexed_db" => ~e.profile))
  <2>. TAKE y \in P!Place
  <2>1. CASE y = x
    BY <1>0, <1>3, <1>6, <2>1
  <2>2. CASE y # x
    BY <1>0, <1>1, <1>3, <2>2 DEF ContextOk
  <2>. QED  BY <2>1, <2>2
<1>5. ContextOk(k, e, t, admitted[k])
  BY <1>0, <1>1, <1>4, <1>7 DEF ContextOk
<1>. QED  BY <1>5, BackendTyped, ContextStep

\* A page leaves something, of this life of its backend.
LEMMA PortableBrowses == ASSUME PortableInv, NEW k \in Backend, P!Browse(k) PROVE PortableInv'
<1>1. PICK x \in P!Place, sensitive \in BOOLEAN :
         ctx' = [ctx EXCEPT ![k].stored = @ + 1,
                            ![k].holds[x] = [of |-> <<k, ctx[k].life>>, sensitive |-> sensitive]]
  BY DEF P!Browse
<1>. DEFINE item == [of |-> <<k, ctx[k].life>>, sensitive |-> sensitive]
            h == [ctx[k].holds EXCEPT ![x] = item]
            e == [[ctx[k] EXCEPT !.stored = ctx[k].stored + 1] EXCEPT !.holds = h]
<1>2. UNCHANGED <<file, task, admitted>>
  BY DEF P!Browse
<1>3. ctx[k] \in Contexts /\ task[k] \in Tasks /\ task' = [task EXCEPT ![k] = task[k]]
  BY <1>2, BackendTyped
<1>7. ctx' = [ctx EXCEPT ![k] = e]
  <2>1. ctx \in [Backend -> Contexts]
    BY DEF PortableInv
  <2>. QED  BY <1>1, <2>1 DEF Contexts
<1>4. item \in Things /\ item.of = <<k, ctx[k].life>>
  BY <1>1, <1>3 DEF Contexts, Things, P!Item
<1>. HIDE DEF item
<1>5. h \in Holds /\ ctx[k].stored + 1 \in Nat
  BY <1>3, <1>4 DEF Contexts, Holds
<1>. HIDE DEF h
<1>6. /\ e \in Contexts /\ e.runs = ctx[k].runs /\ e.profile = ctx[k].profile /\ e.life = ctx[k].life
      /\ e.pending = ctx[k].pending /\ e.holds = h
  BY <1>3, <1>5 DEF Contexts
<1>8. PlaceMade(k, x, item, e) /\ Belongs(k, x, item) /\ GoesOn(k, task[k])
  BY <1>4, <1>6 DEF h, PlaceMade, Belongs, GoesOn
<1>9. x \in P!Place
  BY <1>1
<1>. HIDE DEF e
<1>10. Moves(k, e, task[k], admitted[k])
  BY <1>2, <1>3, <1>7, BackendTyped DEF Moves
<1>. QED  BY <1>3, <1>4, <1>6, <1>8, <1>9, <1>10, PlaceChanges

\* The same of a step that changes one place and what is left to do.
LEMMA PlaceStep ==
    ASSUME PortableInv, NEW k \in Backend, NEW x \in P!Place, NEW item \in Things, NEW t \in Tasks,
           Puts(k, x, item, t), Belongs(k, x, item), GoesOn(k, t)
    PROVE  PortableInv'
<1>. DEFINE h == [ctx[k].holds EXCEPT ![x] = item]
            e == [ctx[k] EXCEPT !.holds = h]
<1>1. ctx' = [ctx EXCEPT ![k] = e]
  BY DEF Puts
<1>2. ctx[k] \in Contexts
  BY BackendTyped
<1>3. h \in Holds
  BY <1>2 DEF Contexts, Holds
<1>. HIDE DEF h
<1>4. /\ e \in Contexts /\ e.runs = ctx[k].runs /\ e.profile = ctx[k].profile /\ e.life = ctx[k].life
      /\ e.pending = ctx[k].pending /\ e.holds = h
  BY <1>2, <1>3 DEF Contexts
<1>5. PlaceMade(k, x, item, e)
  BY <1>4 DEF h, PlaceMade
<1>. HIDE DEF e
<1>6. Moves(k, e, t, admitted[k])
  BY <1>1, BackendTyped DEF Puts, Moves
<1>. QED  BY <1>4, <1>5, <1>6, PlaceChanges

\* An import adds the cookies, and then the local storage origin by origin.
LEMMA PortableAdds ==
    ASSUME PortableInv, NEW k \in Backend, P!AddCookies(k) \/ P!Store(k) PROVE PortableInv'
<1>0. /\ task[k] \in Tasks /\ ctx[k] \in Contexts /\ ContextOk(k, ctx[k], task[k], admitted[k])
      /\ task = [task EXCEPT ![k] = task[k]] /\ ctx = [ctx EXCEPT ![k] = ctx[k]]
      /\ admitted = [admitted EXCEPT ![k] = admitted[k]] /\ admitted[k] \in SUBSET (P!Place \X Things)
  BY BackendTyped
<1>1. CASE P!AddCookies(k)
  <2>. DEFINE t == [task[k] EXCEPT !.doing = "import"]
  <2>1. task' = [task EXCEPT ![k] = t] /\ UNCHANGED <<file, admitted>> /\ task[k].doing = "add"
    BY <1>1 DEF P!AddCookies
  <2>2. t \in Tasks /\ t.doing = "import" /\ t.holds = task[k].holds /\ t.origins = task[k].origins
    BY <1>0 DEF Tasks
  <2>. HIDE DEF t
  <2>3. CASE task[k].holds[P!Cookies] = None
    <3>1. ctx' = ctx
      <4>1. ctx' = [ctx EXCEPT ![k].holds[P!Cookies] = ctx[k].holds[P!Cookies]]
        BY <1>1, <2>3 DEF P!AddCookies
      <4>. DEFINE h == [ctx[k].holds EXCEPT ![P!Cookies] = ctx[k].holds[P!Cookies]]
                  e == [ctx[k] EXCEPT !.holds = h]
      <4>2. ctx' = [ctx EXCEPT ![k] = e]
        BY <4>1
      <4>3. h = ctx[k].holds
        BY <1>0 DEF Contexts, Holds
      <4>. HIDE DEF h
      <4>4. e = ctx[k]
        BY <1>0, <4>3 DEF Contexts
      <4>. HIDE DEF e
      <4>. QED  BY <1>0, <4>2, <4>4
    <3>2. ctx' = [ctx EXCEPT ![k] = ctx[k]] /\ admitted' = [admitted EXCEPT ![k] = admitted[k]]
      BY <1>0, <2>1, <3>1
    <3>3. ContextOk(k, ctx[k], t, admitted[k])
      BY <1>0, <2>1, <2>2 DEF ContextOk
    <3>4. Moves(k, ctx[k], t, admitted[k])
      BY <2>1, <3>2 DEF Moves
    <3>. QED  BY <1>0, <2>2, <3>3, <3>4, ContextStep
  <2>4. CASE task[k].holds[P!Cookies] # None
    <3>. DEFINE item == task[k].holds[P!Cookies]
    <3>1. item \in Things
      BY <1>0, PlacesTyped DEF Tasks, Holds
    <3>2. LetIn(P!Cookies, item, admitted[k]) /\ P!Cookies[1] # "indexed_db"
      BY <1>0, <2>1, <2>4, PlacesTyped DEF ContextOk
    <3>3. ctx' = [ctx EXCEPT ![k].holds[P!Cookies] = item]
      BY <1>1, <2>4 DEF P!AddCookies
    <3>. HIDE DEF item
    <3>4. Belongs(k, P!Cookies, item) /\ GoesOn(k, t)
      BY <2>1, <2>2, <3>2 DEF Belongs, GoesOn
    <3>5. Puts(k, P!Cookies, item, t) /\ P!Cookies \in P!Place
      BY <2>1, <3>3, PlacesTyped DEF Puts
    <3>. QED  BY <2>2, <3>1, <3>4, <3>5, PlaceStep
  <2>. QED  BY <2>3, <2>4
<1>2. CASE P!Store(k)
  <2>1. PICK o \in task[k].origins : /\ ctx' = [ctx EXCEPT ![k].holds[P!Local(o)] = task[k].holds[P!Local(o)]]
                                     /\ task' = [task EXCEPT ![k].origins = @ \ {o}]
    BY <1>2 DEF P!Store
  <2>. DEFINE t == [task[k] EXCEPT !.origins = task[k].origins \ {o}]
              item == task[k].holds[P!Local(o)]
  <2>2. task' = [task EXCEPT ![k] = t] /\ UNCHANGED <<file, admitted>> /\ task[k].doing = "import"
    BY <1>2, <2>1 DEF P!Store
  <2>3. t \in Tasks /\ t.doing = "import" /\ t.holds = task[k].holds
                    /\ t.origins \subseteq task[k].origins
    BY <1>0, <2>2 DEF Tasks
  <2>4. /\ o \in task[k].origins /\ o \in Origin /\ P!Local(o) \in P!Place
        /\ P!Local(o)[1] # "indexed_db"
    BY <1>0, <2>1, PlacesTyped DEF Tasks
  <2>5. item \in Things
    BY <1>0, <2>4 DEF Tasks, Holds
  <2>6. item = None \/ LetIn(P!Local(o), item, admitted[k])
    BY <1>0, <2>2, <2>4 DEF ContextOk
  <2>7. ctx' = [ctx EXCEPT ![k].holds[P!Local(o)] = item]
    BY <2>1
  <2>. HIDE DEF t, item
  <2>8. Belongs(k, P!Local(o), item) /\ GoesOn(k, t)
    BY <2>2, <2>3, <2>4, <2>6 DEF Belongs, GoesOn
  <2>9. Puts(k, P!Local(o), item, t)
    BY <2>2, <2>7 DEF Puts
  <2>. QED  BY <2>3, <2>4, <2>5, <2>8, <2>9, PlaceStep
<1>. QED  BY <1>1, <1>2

\* A clearing empties the cookies and the local storage that was listed.
LEMMA PortableClears ==
    ASSUME PortableInv, NEW k \in Backend, P!ClearSession(k) \/ P!Sweep(k) PROVE PortableInv'
<1>0. task[k] \in Tasks
  BY BackendTyped
<1>1. CASE P!ClearSession(k)
  <2>. DEFINE t == [task[k] EXCEPT !.doing = "clear"]
  <2>1. t \in Tasks /\ t.doing = "clear"
    BY <1>0 DEF Tasks
  <2>2. /\ task' = [task EXCEPT ![k] = t] /\ ctx' = [ctx EXCEPT ![k].holds[P!Cookies] = None]
        /\ UNCHANGED <<file, admitted>>
    BY <1>1 DEF P!ClearSession
  <2>. HIDE DEF t
  <2>3. None \in Things /\ Belongs(k, P!Cookies, None) /\ GoesOn(k, t)
    BY <2>1 DEF Things, Belongs, GoesOn
  <2>4. P!Cookies \in P!Place
    BY PlacesTyped
  <2>5. Puts(k, P!Cookies, None, t)
    BY <2>2 DEF Puts
  <2>. QED  BY <2>1, <2>3, <2>4, <2>5, PlaceStep
<1>2. CASE P!Sweep(k)
  <2>1. PICK o \in task[k].origins : /\ ctx' = [ctx EXCEPT ![k].holds[P!Local(o)] = None]
                                     /\ task' = [task EXCEPT ![k].origins = @ \ {o}]
    BY <1>2 DEF P!Sweep
  <2>. DEFINE t == [task[k] EXCEPT !.origins = task[k].origins \ {o}]
  <2>2. task' = [task EXCEPT ![k] = t] /\ UNCHANGED <<file, admitted>> /\ task[k].doing = "sweep"
    BY <1>2, <2>1 DEF P!Sweep
  <2>3. t \in Tasks /\ t.doing = "sweep"
    BY <1>0, <2>2 DEF Tasks
  <2>4. P!Local(o) \in P!Place
    BY <1>0, <2>1, PlacesTyped DEF Tasks
  <2>. HIDE DEF t
  <2>5. None \in Things /\ Belongs(k, P!Local(o), None) /\ GoesOn(k, t)
    BY <2>3 DEF Things, Belongs, GoesOn
  <2>6. Puts(k, P!Local(o), None, t)
    BY <2>1, <2>2 DEF Puts
  <2>. QED  BY <2>3, <2>4, <2>5, <2>6, PlaceStep
<1>. QED  BY <1>1, <1>2

\* The origins to sweep are listed, or an import or a clearing is done.
LEMMA PortableTurns ==
    ASSUME PortableInv, NEW k \in Backend, P!ListOrigins(k) \/ P!Ended(k) PROVE PortableInv'
<1>1. PICK t \in Tasks : t.doing \notin {"add", "import"} /\ task' = [task EXCEPT ![k] = t]
  <2>1. CASE P!ListOrigins(k)
    <3>. DEFINE l == P!Listed(ctx[k].holds, {})
                t == [[task[k] EXCEPT !.doing = "sweep"] EXCEPT !.origins = l]
    <3>1. l \subseteq Origin
      BY DEF P!Listed
    <3>2. task' = [task EXCEPT ![k] = t]
      BY <2>1 DEF P!ListOrigins
    <3>. HIDE DEF l
    <3>3. t \in Tasks /\ t.doing = "sweep"
      BY <3>1, BackendTyped DEF Tasks
    <3>. HIDE DEF t
    <3>. QED  BY <3>2, <3>3
  <2>2. CASE P!Ended(k)
    BY <2>2, IdleTyped DEF P!Ended
  <2>. QED  BY <2>1, <2>2
<1>2. UNCHANGED <<file, ctx, admitted>>
  BY DEF P!ListOrigins, P!Ended
<1>3. ContextOk(k, ctx[k], t, admitted[k])
  BY <1>1, BackendTyped DEF ContextOk
<1>4. ctx' = [ctx EXCEPT ![k] = ctx[k]] /\ admitted' = [admitted EXCEPT ![k] = admitted[k]]
  BY <1>2, BackendTyped
<1>5. Moves(k, ctx[k], t, admitted[k]) /\ t \in Tasks
  BY <1>1, <1>2, <1>4 DEF Moves
<1>. QED  BY <1>3, <1>5, BackendTyped, ContextStep

\* A session exports: what it writes has no local storage that looks secret.
LEMMA PortableExports == ASSUME PortableInv, NEW k \in Backend, P!Export(k) PROVE PortableInv'
<1>0. UNCHANGED <<ctx, task, admitted>>
  BY DEF P!Export
<1>1. PICK features \in Choices : file' = P!Portable(ctx[k].holds, features)
  BY DEF P!Export
<1>. DEFINE h == ctx[k].holds
            written == [x \in P!Place |->
                    IF x[1] \in features /\ ~(x[1] = "local_storage" /\ h[x] # None /\ h[x].sensitive)
                    THEN h[x] ELSE None]
<1>2. h \in Holds
  BY BackendTyped DEF Contexts
<1>3. /\ file'.holds = written /\ file'.origins = P!Listed(h, features) /\ file'.kind = "portable"
  BY <1>1 DEF P!Portable
<1>4. written \in Holds
  BY <1>2 DEF Holds, Things
<1>5. \A o \in Origin : written[P!Local(o)] # None => o \in P!Listed(h, features)
  BY PlacesTyped DEF P!Listed
<1>6. P!Listed(h, features) \subseteq Origin
  BY DEF P!Listed
<1>. HIDE DEF written, h
<1>7. FileOk'
  BY <1>3, <1>4, <1>5, <1>6 DEF FileOk, P!Legacy
<1>. QED  BY <1>0, <1>7 DEF PortableInv, ContextOk, LetIn, FromLegacy

\* What a document brings is let in; local storage that looks secret only from one of the first
\* version, and such a document only into a context that runs.
LEMMA FileBrings ==
    ASSUME PortableInv, file # None, NEW k \in Backend
    PROVE  /\ admitted[k] \cup P!Brings(file.holds) \in SUBSET (P!Place \X Things)
           /\ file.holds \in Holds /\ file.origins \subseteq Origin
           /\ \A x \in P!Place : file.holds[x] # None => <<x, file.holds[x]>> \in P!Brings(file.holds)
           /\ P!Legacy(file) => file \in Foreign
           /\ \A o \in Origin : file.holds[P!Local(o)] # None => o \in file.origins
<1>1. /\ file.holds \in Holds /\ file.origins \subseteq Origin /\ (P!Legacy(file) => file \in Foreign)
      /\ \A o \in Origin : file.holds[P!Local(o)] # None => o \in file.origins
  BY DEF PortableInv, FileOk
<1>2. \A x \in P!Place : file.holds[x] # None => <<x, file.holds[x]>> \in P!Brings(file.holds)
  BY DEF P!Brings
<1>3. P!Brings(file.holds) \in SUBSET (P!Place \X Things)
  BY <1>1 DEF P!Brings, Holds
<1>. QED  BY <1>1, <1>2, <1>3, BackendTyped

\* What was let in stays so.
LEMMA LetInStays ==
    ASSUME NEW x, NEW item, NEW let, NEW more, let \subseteq more, LetIn(x, item, let)
    PROVE  LetIn(x, item, more)
BY DEF LetIn

\* An import into a running context validates the whole document first, and clears the cookies.
LEMMA PortableImports == ASSUME PortableInv, NEW k \in Backend, P!Import(k) PROVE PortableInv'
<1>. DEFINE h == [ctx[k].holds EXCEPT ![P!Cookies] = None]
            e == [ctx[k] EXCEPT !.holds = h]
            t == [doing |-> "add", holds |-> file.holds, origins |-> file.origins]
            let == admitted[k] \cup P!Brings(file.holds)
<1>1. /\ ctx' = [ctx EXCEPT ![k] = e] /\ task' = [task EXCEPT ![k] = t]
      /\ admitted' = [admitted EXCEPT ![k] = let]
      /\ file # None /\ (P!Valid(file, FALSE) \/ P!Legacy(file)) /\ UNCHANGED file
  BY DEF P!Import
<1>2. /\ ctx[k] \in Contexts /\ ContextOk(k, ctx[k], task[k], admitted[k]) /\ ctx[k].holds \in Holds
  BY BackendTyped DEF Contexts
<1>3. h \in Holds /\ h[P!Cookies] = None /\ \A x \in P!Place \ {P!Cookies} : h[x] = ctx[k].holds[x]
  BY <1>2, PlacesTyped DEF Holds, Things
<1>. HIDE DEF h
<1>4. /\ e \in Contexts /\ e.runs = ctx[k].runs /\ e.profile = ctx[k].profile /\ e.life = ctx[k].life
      /\ e.pending = ctx[k].pending /\ e.holds = h
  BY <1>2, <1>3 DEF Contexts
<1>5. t \in Tasks /\ t.holds = file.holds /\ t.origins = file.origins
                  /\ let \in SUBSET (P!Place \X Things)
  BY <1>1, FileBrings DEF Tasks
<1>6. admitted[k] \subseteq let
  OBVIOUS
<1>7. \A x \in P!Place : file.holds[x] # None => <<x, file.holds[x]>> \in let
  BY <1>1, FileBrings
<1>. HIDE DEF e, t, let
<1>8. file.holds[P!Cookies] # None => LetIn(P!Cookies, file.holds[P!Cookies], let)
  BY <1>7, PlacesTyped DEF LetIn
<1>9. ASSUME NEW o \in file.origins, file.holds[P!Local(o)] # None
      PROVE  LetIn(P!Local(o), file.holds[P!Local(o)], let)
  <2>1. o \in Origin /\ P!Local(o) \in P!Place
    BY <1>1, FileBrings, PlacesTyped
  <2>2. file.holds[P!Local(o)].sensitive => FromLegacy(P!Local(o), file.holds[P!Local(o)])
    <3>1. CASE P!Valid(file, FALSE)
      BY <1>9, <3>1 DEF P!Valid
    <3>2. CASE P!Legacy(file)
      BY <1>1, <3>2, FileBrings DEF FromLegacy
    <3>. QED  BY <1>1, <3>1, <3>2
  <2>. QED  BY <1>7, <1>9, <2>1, <2>2 DEF LetIn
<1>10. \A x \in P!Place, item \in Things : LetIn(x, item, admitted[k]) => LetIn(x, item, let)
  BY <1>6, LetInStays
<1>11. ContextOk(k, e, t, let)
  <2>1. ASSUME e.runs \/ e.profile, NEW x \in P!Place, e.holds[x] # None, e.holds[x].of # <<k, e.life>>
        PROVE  LetIn(x, e.holds[x], let) /\ (x[1] = "indexed_db" => ~e.profile)
    <3>1. e.holds[x] = ctx[k].holds[x] /\ ctx[k].holds[x] \in Things
      BY <1>2, <1>3, <1>4, <2>1 DEF Holds
    <3>2. LetIn(x, ctx[k].holds[x], admitted[k]) /\ (x[1] = "indexed_db" => ~ctx[k].profile)
      BY <1>2, <1>4, <2>1, <3>1 DEF ContextOk
    <3>. QED  BY <1>4, <1>6, <3>1, <3>2, LetInStays
  <2>2. ASSUME e.pending # None, NEW x \in P!Place, e.pending[x] # None PROVE LetIn(x, e.pending[x], let)
    <3>1. LetIn(x, e.pending[x], admitted[k])
      BY <1>2, <1>4, <2>2 DEF ContextOk
    <3>. QED  BY <1>6, <3>1, LetInStays
  <2>. QED  BY <1>5, <1>8, <1>9, <2>1, <2>2 DEF ContextOk
<1>12. Moves(k, e, t, let)
  BY <1>1 DEF Moves
<1>. QED  BY <1>4, <1>5, <1>11, <1>12, ContextStep

\* A document is prepared for the next context: one of the first version never is.
LEMMA PortablePrepares == ASSUME PortableInv, NEW k \in Backend, P!PrepareImport(k) PROVE PortableInv'
<1>. DEFINE e == [ctx[k] EXCEPT !.pending = file.holds]
            let == admitted[k] \cup P!Brings(file.holds)
            t == task[k]
            c == ctx[k]
<1>1. /\ ctx' = [ctx EXCEPT ![k] = e] /\ admitted' = [admitted EXCEPT ![k] = let]
      /\ file # None /\ P!Valid(file, TRUE) /\ UNCHANGED <<file, task>> /\ t.doing = "none"
  BY DEF P!PrepareImport
<1>2. /\ c \in Contexts /\ t \in Tasks /\ ContextOk(k, c, t, admitted[k])
      /\ task' = [task EXCEPT ![k] = t] /\ let \in SUBSET (P!Place \X Things)
  BY <1>1, BackendTyped, FileBrings
<1>3. /\ e \in Contexts /\ e.runs = c.runs /\ e.profile = c.profile /\ e.life = c.life
      /\ e.pending = file.holds /\ e.holds = c.holds
  BY <1>1, <1>2, FileBrings DEF Contexts
<1>4. admitted[k] \subseteq let /\ \A x \in P!Place : file.holds[x] # None => <<x, file.holds[x]>> \in let
  BY <1>1, FileBrings
<1>. HIDE DEF e, let, c, t
<1>5. ASSUME NEW x \in P!Place, file.holds[x] # None PROVE LetIn(x, file.holds[x], let)
  <2>1. x[1] = "local_storage" => ~file.holds[x].sensitive
    BY <1>1, <1>5, PlacesTyped, FileBrings DEF P!Valid
  <2>. QED  BY <1>4, <1>5, <2>1 DEF LetIn
<1>6. ASSUME e.runs \/ e.profile, NEW x \in P!Place, e.holds[x] # None, e.holds[x].of # <<k, e.life>>
      PROVE  LetIn(x, e.holds[x], let) /\ (x[1] = "indexed_db" => ~e.profile)
  <2>1. LetIn(x, e.holds[x], admitted[k]) /\ (x[1] = "indexed_db" => ~e.profile)
    BY <1>2, <1>3, <1>6 DEF ContextOk
  <2>. QED  BY <1>4, <2>1, LetInStays
<1>7. ContextOk(k, e, t, let)
  BY <1>1, <1>3, <1>5, <1>6 DEF ContextOk
<1>8. Moves(k, e, t, let)
  BY <1>1, <1>2 DEF Moves
<1>. QED  BY <1>2, <1>3, <1>7, <1>8, ContextStep

\* No context runs, and the file is from elsewhere.
LEMMA PortableInit == P!Init => PortableInv
<1>. SUFFICES ASSUME P!Init PROVE PortableInv
  OBVIOUS
<1>1. PICK profile \in [Backend -> BOOLEAN] :
         ctx = [k \in Backend |-> [profile |-> profile[k], runs |-> FALSE, holds |-> P!Empty,
                                   life |-> 1, stored |-> 0, pending |-> None]]
  BY DEF P!Init
<1>2. ASSUME NEW k \in Backend
      PROVE  /\ ctx[k] \in Contexts /\ ctx[k].pending = None /\ ctx[k].holds = P!Empty
  <2>. DEFINE e == [profile |-> profile[k], runs |-> FALSE, holds |-> P!Empty, life |-> 1,
                    stored |-> 0, pending |-> None]
  <2>1. profile[k] \in BOOLEAN /\ 1 \in 1..MaxLives
    BY <1>1, PortableInstance DEF P!PortableAssumption
  <2>2. e \in Contexts /\ e.pending = None /\ e.holds = P!Empty
    BY <2>1, PlacesTyped DEF Contexts
  <2>3. ctx[k] = e
    BY <1>1
  <2>. HIDE DEF e
  <2>. QED  BY <2>2, <2>3
<1>3. task = [k \in Backend |-> P!Idle] /\ admitted = [k \in Backend |-> {}] /\ file \in Foreign
  BY DEF P!Init
<1>4. /\ ctx \in [Backend -> Contexts] /\ task \in [Backend -> Tasks]
      /\ admitted \in [Backend -> SUBSET (P!Place \X Things)]
  BY <1>1, <1>2, <1>3, IdleTyped
<1>5. \A k \in Backend : ContextOk(k, ctx[k], task[k], admitted[k])
  BY <1>2, <1>3, IdleTyped, PlacesTyped DEF ContextOk
<1>6. FileOk
  BY <1>3, PortableInstance DEF P!PortableAssumption, FileOk, Holds, Things
<1>. QED  BY <1>4, <1>5, <1>6 DEF PortableInv

\* Every step of the portable state keeps the invariant.
LEMMA PortableNext == PortableInv /\ [P!Next]_portableVars => PortableInv'
<1>. SUFFICES ASSUME PortableInv, [P!Next]_portableVars PROVE PortableInv'
  OBVIOUS
<1>1. CASE UNCHANGED <<file, ctx, task, admitted>>
  <2>1. FileOk'
    BY <1>1 DEF PortableInv, FileOk, P!Legacy
  <2>2. ASSUME NEW k \in Backend PROVE ContextOk(k, ctx[k], task[k], admitted[k])'
    <3>1. ContextOk(k, ctx[k], task[k], admitted[k])
      BY DEF PortableInv
    <3>. QED  BY <1>1, <3>1 DEF ContextOk, LetIn, FromLegacy
  <2>. QED  BY <1>1, <2>1, <2>2 DEF PortableInv
<1>2. CASE P!Damage
  BY <1>2 DEF P!Damage, PortableInv, ContextOk, LetIn, FromLegacy, FileOk
<1>3. ASSUME NEW k \in Backend, P!StartFails(k) \/ P!Stop(k) \/ P!Crash(k) PROVE PortableInv'
  BY <1>3, PortableCloses DEF P!StartFails, P!Stop, P!Crash
<1>4. CASE P!Tick \/ UNCHANGED portableVars
  BY <1>1, <1>4 DEF P!Tick, portableVars
<1>. QED
  BY <1>2, <1>3, <1>4, PortableStarts, PortableBrowses, PortableExports, PortableImports,
     PortableAdds,
     PortablePrepares, PortableClears, PortableTurns DEF P!Next

\* A name of the artifact store (contract/download.py) holds what was verified, as a name is given
\* to a copy that only its own download writes; a context (authentication/capability.py) holds what
\* its own pages left in this life or what a document validated for it brought.
THEOREM WhatIsHeldIsAccountedFor == KeptSpec => []HeldIsAccountedFor
<1>. DEFINE Inv0 == part = "portable" => PortableInv
<1>1. KeptInit => Inv0
  BY PortableInit DEF KeptInit
<1>2. Inv0 /\ [KeptNext]_<<vars, downloadVars, portableVars, part>> => Inv0'
  <2>1. UNCHANGED portableVars /\ PortableInv => PortableInv'
    BY PortableNext
  <2>. QED  BY <2>1, PortableNext DEF KeptNext, portableVars
<1>3. DownloadInv /\ Inv0 => HeldIsAccountedFor
  <2>1. DownloadInv => D!PublishedIsVerified
    BY DEF DownloadInv, NamesInv, NamesOk, D!PublishedIsVerified
  <2>2. PortableInv => P!HoldsItsOwn
    BY DEF PortableInv, ContextOk, LetIn, FromLegacy, P!HoldsItsOwn, P!Own
  <2>. QED  BY <2>1, <2>2 DEF HeldIsAccountedFor
<1>. QED  BY DownloadInvHolds, <1>1, <1>2, <1>3, PTL DEF KeptSpec
=============================================================================
