------------------------------- MODULE Trust -------------------------------
(***************************************************************************)
(* What a host trusts and what its receipts are worth: signed plans          *)
(* (contract/signed_plan.py), portable identities (contract/identity.py),    *)
(* their binding to sessions and the handoff between identities              *)
(* (runtime/stateful_session.py), and afterwards, when the process is gone,   *)
(* the receipts, the checkpoint and the attestation that were kept           *)
(* (contract/receipt_chain.py, contract/attestation.py).                     *)
(*                                                                          *)
(* Each session is used under its lock.  The verifier of signed plans and    *)
(* the identity registry are shared by all sessions; the first has no lock.  *)
(***************************************************************************)
EXTENDS Receipts, FiniteSets

CONSTANTS
    Session, Agent, Identity,
    Signer,
    Statement,      \* the signed statements there are: a record names its nonce, the
                    \* signer and key it was signed with, its expiry, how often it may
                    \* be bound, and the session and identity it is for, or Nothing
    Assertion,      \* the signed assertions of identities there are: of which version of
                    \* which identity, until when, and for which controller, or Nothing
    MaxUses,        \* _MAX_REPLAY_ENTRIES
    MaxClock, MaxVersion, MaxKey,       \* bounds
    MaxDecisions,   \* how many of the host's decisions stand at a time
    MaxReceipts,    \* MaxReceipts[s]: how many receipts session s gets
    Handing,        \* the sessions whose control is offered to others
    MaxDamage       \* how often a kept chain is damaged

\* Every statement has a nonce of its own, which the signer draws at random.
ASSUME StatementsAssumption ==
    /\ \A p, q \in Statement : p.nonce = q.nonce => p = q
    /\ \A w \in Assertion : w.id \in Identity
    /\ \A p \in Statement : p.signer \in Signer /\ p.allowed \in Nat \ {0} /\ p.until \in Nat

VARIABLES
    clock,
    key,            \* key[g]: the key that is trusted for signer g
    revoked,        \* the signers and the identities that are revoked
    uses,           \* uses[n]: the uses of nonce n in the verifier's cache, 0 if absent
    version,        \* version[i]: the registered version of identity i, 0 if none
    sess,           \* sess[s]: what session s is bound to and what is under way in it
    bound,          \* how often each nonce has been bound
    raced,          \* the nonces that two sessions verified at the same time
    chain,          \* chain[s]: the receipts of session s, whose facts are only numbered
    acted,          \* <<plan, identity>>: what receipts name together
    kept            \* what was kept of a run, and what became of it

host == <<key, revoked, uses, version>>
vars == <<clock, host, sess, bound, raced, chain, acted, kept>>
-----------------------------------------------------------------------------
NoOffer == [to |-> Nothing, who |-> Nothing]
Fresh(a) == [agent |-> a, who |-> Nothing, plan |-> Nothing, offer |-> NoOffer,
             at |-> "idle", takes |-> Nothing, seen |-> 0]
NotKept == [session |-> Nothing, copy |-> <<>>, genuine |-> <<>>, checkpoint |-> Nothing,
            attested |-> Nothing, damage |-> 0]

Online == kept = NotKept
Idle(s) == Online /\ sess[s].at = "idle"
Put(s, field, x) == sess' = [sess EXCEPT ![s] = [@ EXCEPT ![field] = x]]

Init ==
    /\ clock = 0 /\ key = [g \in Signer |-> 1] /\ revoked = {} /\ version = [i \in Identity |-> 1]
    /\ uses = [p \in Statement |-> 0] /\ bound = [p \in Statement |-> 0] /\ raced = {}
    /\ \E a \in Agent : sess = [s \in Session |-> Fresh(a)]
    /\ chain = [s \in Session |-> <<>>] /\ acted = {} /\ kept = NotKept

\* IdentityRegistry.verify, for the controller a.
IdentityTrusted(w, a) ==
    /\ w.id \notin revoked /\ w.version = version[w.id]
    /\ clock < w.until /\ w.scope \in {Nothing, a}

\* Who a session acts as is checked before every use of the browser.
RequiresIdentity(r) ==
    r.who # Nothing =>
        /\ IdentityTrusted(r.who, r.agent)
        /\ r.plan # Nothing /\ r.plan.identity # Nothing => r.who.id = r.plan.identity

IdOf(w) == IF w = Nothing THEN Nothing ELSE w.id
-----------------------------------------------------------------------------
(* The host's decisions, and time.                                          *)

Tick ==
    /\ Online /\ clock < MaxClock /\ clock' = clock + 1
    /\ UNCHANGED <<host, sess, bound, raced, chain, acted, kept>>

Decisions == Cardinality(revoked) + Cardinality({i \in Identity : version[i] > 1})
               + Cardinality({h \in Signer : key[h] > 1})

\* A version replaces only an earlier one; a revoked identity stays revoked.
RegisterIdentity(i) ==
    /\ Online /\ Decisions < MaxDecisions /\ version[i] < MaxVersion
    /\ version' = [version EXCEPT ![i] = @ + 1]
    /\ UNCHANGED <<clock, key, revoked, uses, sess, bound, raced, chain, acted, kept>>

Revoke(x) ==
    /\ Online /\ Decisions < MaxDecisions /\ x \notin revoked
    /\ revoked' = revoked \cup {x}
    /\ UNCHANGED <<clock, key, uses, version, sess, bound, raced, chain, acted, kept>>

\* A signer with a new key is trusted again, and the uses counted stay counted.
ReplaceSigner(g) ==
    /\ Online /\ Decisions < MaxDecisions + 1 /\ key[g] < MaxKey
    /\ key' = [key EXCEPT ![g] = @ + 1]
    /\ revoked' = revoked \ {g}
    /\ UNCHANGED <<clock, uses, version, sess, bound, raced, chain, acted, kept>>
-----------------------------------------------------------------------------
(* Binding a signed plan: the verifier checks the statement and reads how    *)
(* often its nonce was used, and writes the use afterwards.                  *)

\* Uses of statements that have expired are forgotten first.
Pruned == [p \in Statement |-> IF p.until <= clock THEN 0 ELSE uses[p]]
Cached == Cardinality({p \in Statement : Pruned[p] > 0})

Authentic(p) == p.signer \notin revoked /\ p.key = key[p.signer] /\ clock < p.until

InScope(s, p) == p.session \in {Nothing, s} /\ p.identity \in {Nothing, IdOf(sess[s].who)}

MayUse(p) == Pruned[p] < p.allowed /\ (Pruned[p] = 0 => Cached < MaxUses)

PlanChecked(s, p) ==
    /\ Idle(s) /\ sess[s].plan = Nothing /\ Authentic(p) /\ InScope(s, p) /\ MayUse(p)
    /\ sess' = [sess EXCEPT ![s] = [@ EXCEPT !.at = "consume", !.takes = p, !.seen = Pruned[p]]]
    /\ uses' = Pruned
    /\ raced' = IF \E t \in Session : sess[t].at = "consume" /\ sess[t].takes = p
                THEN raced \cup {p} ELSE raced
    /\ UNCHANGED <<clock, key, revoked, version, bound, chain, acted, kept>>

PlanBound(s) ==
    LET p == sess[s].takes
    IN  /\ Online /\ sess[s].at = "consume"
        /\ uses' = [uses EXCEPT ![p] = sess[s].seen + 1]
        /\ bound' = [bound EXCEPT ![p] = @ + 1]
        /\ sess' = [sess EXCEPT ![s] = [@ EXCEPT !.at = "idle", !.plan = p, !.takes = Nothing,
                                                 !.seen = 0]]
        /\ UNCHANGED <<clock, key, revoked, version, raced, chain, acted, kept>>
-----------------------------------------------------------------------------
(* Who the session acts as, by the host's binding and by a handoff.          *)

WithinPlan(s, w) ==
    sess[s].plan # Nothing /\ sess[s].plan.identity # Nothing => IdOf(w) = sess[s].plan.identity

BindIdentity(s, w) ==
    /\ Idle(s) /\ WithinPlan(s, w) /\ IdentityTrusted(w, sess[s].agent) /\ Put(s, "who", w)
    /\ UNCHANGED <<clock, host, bound, raced, chain, acted, kept>>

\* An offer may carry the identity of its recipient, which is verified now.
OfferHandoff(s, a, w) ==
    /\ Idle(s) /\ s \in Handing /\ RequiresIdentity(sess[s])
    /\ w # Nothing => sess[s].who # Nothing /\ IdentityTrusted(w, a)
    /\ Put(s, "offer", [to |-> a, who |-> w])
    /\ UNCHANGED <<clock, host, bound, raced, chain, acted, kept>>

\* Mutant: the plan's identity is not compared with the next one.
AnyHeir(s, w) == TRUE
\* The plan may have been bound since the offer was made.
Inherits(s, w) == WithinPlan(s, w)

ClaimHandoff(s) ==
    LET o == sess[s].offer
        w == IF o.who = Nothing THEN sess[s].who ELSE o.who
    IN  /\ Idle(s) /\ o # NoOffer
        /\ o.who = Nothing /\ sess[s].who # Nothing => IdentityTrusted(sess[s].who, o.to)
        /\ Inherits(s, w)
        /\ sess' = [sess EXCEPT ![s] = [@ EXCEPT !.agent = o.to, !.who = w, !.offer = NoOffer]]
        /\ UNCHANGED <<clock, host, bound, raced, chain, acted, kept>>
-----------------------------------------------------------------------------
(* An operation: identity and plan are checked, the browser is used, and a   *)
(* receipt with both is chained.                                             *)

OperationBegins(s) ==
    /\ Idle(s) /\ Len(chain[s]) < MaxReceipts[s] /\ RequiresIdentity(sess[s])
    /\ sess[s].plan # Nothing => clock < sess[s].plan.until
    /\ Put(s, "at", "acts")
    /\ UNCHANGED <<clock, host, bound, raced, chain, acted, kept>>

OperationEnds(s) ==
    LET r == sess[s]
    IN  /\ Online /\ r.at = "acts" /\ Put(s, "at", "idle")
        /\ chain' = [chain EXCEPT ![s] =
                        Append(@, Sealed(3, HeadOf(@), [nr |-> Len(@) + 1], s, s))]
        /\ acted' = IF r.plan = Nothing THEN acted ELSE acted \cup {<<r.plan, IdOf(r.who)>>}
        /\ UNCHANGED <<clock, host, bound, raced, kept>>
-----------------------------------------------------------------------------
(* What is kept.  A checkpoint is taken while the session goes on; an         *)
(* attestation needs a chain that extends it.  Then the process ends, and     *)
(* with it everything it held in memory.                                      *)

Attested(s, c) == [session |-> s, checkpoint |-> c, head |-> HeadOf(chain[s]),
                   count |-> Len(chain[s])]

\* The host kept a checkpoint of the chain as it was after n receipts.
HostEnds(s, n) ==
    LET then == SubSeq(chain[s], 1, n)
        c    == CheckpointOf(then, s)
    IN  /\ Online /\ n \in 0..Len(chain[s]) /\ \A t \in Session : sess[t].at = "idle"
        /\ MayCheckpoint(then, s) /\ ExtendsCheckpoint(chain[s], c)
        /\ kept' = [session |-> s, copy |-> chain[s], genuine |-> chain[s], checkpoint |-> c,
                    attested |-> Attested(s, c), damage |-> 0]
        /\ clock' = 0 /\ key' = [g \in Signer |-> 1] /\ revoked' = {}
        /\ version' = [i \in Identity |-> 1] /\ uses' = [p \in Statement |-> 0]
        /\ bound' = uses' /\ raced' = {} /\ acted' = {} /\ UNCHANGED chain
        /\ sess' = [t \in Session |-> Fresh(CHOOSE a \in Agent : TRUE)]

Damages(copy) ==
    /\ ~Online /\ kept.damage < MaxDamage
    /\ kept' = [kept EXCEPT !.copy = copy, !.damage = @ + 1]
    /\ UNCHANGED <<clock, host, sess, bound, raced, chain, acted>>

Without(q, i) == SubSeq(q, 1, i - 1) \o SubSeq(q, i + 1, Len(q))

Loses(i)   == Damages(Without(kept.copy, i))
Repeats(i) == Damages(Append(kept.copy, kept.copy[i]))
Swaps(i)   == i < Len(kept.copy)
                /\ Damages([kept.copy EXCEPT ![i] = kept.copy[i + 1], ![i + 1] = kept.copy[i]])
\* A receipt is altered, or one of another session gets in.
Alters(i)  == Damages([kept.copy EXCEPT ![i].facts.nr = 0])
Strays(r)  == Damages(Append(kept.copy, r))
\* A receipt is sealed again where it stands, as any version writes its entry.
Reseals(i, v) ==
    LET r == kept.copy[i]
    IN  Damages([kept.copy EXCEPT ![i] =
                   Sealed(v, HeadBefore(kept.copy, i), r.facts, r.browser, kept.session)])
\* A receipt from before receipts were chained.
Legacy(i)  == Damages([kept.copy EXCEPT ![i].entry = Nothing])
-----------------------------------------------------------------------------
Hosting ==
    \/ Tick \/ \E i \in Identity : RegisterIdentity(i) \/ Revoke(i)
    \/ \E g \in Signer : Revoke(g) \/ ReplaceSigner(g)

Using(s) ==
    \/ \E p \in Statement : PlanChecked(s, p)
    \/ PlanBound(s)
    \/ \E w \in Assertion : BindIdentity(s, w)
    \/ \E a \in Agent, w \in Assertion \cup {Nothing} : OfferHandoff(s, a, w)
    \/ ClaimHandoff(s) \/ OperationBegins(s) \/ OperationEnds(s)

Decaying ==
    \/ \E i \in DOMAIN kept.copy :
         Loses(i) \/ Repeats(i) \/ Swaps(i) \/ Alters(i) \/ Legacy(i) \/ \E v \in Versions : Reseals(i, v)
    \/ \E s \in Session : \E i \in DOMAIN chain[s] : Strays(chain[s][i])

Next ==
    \/ Hosting \/ \E s \in Session : Using(s)
    \/ \E s \in Session : \E n \in 0..MaxReceipts[s] : HostEnds(s, n)
    \/ Decaying

Spec == Init /\ [][Next]_vars
-----------------------------------------------------------------------------
\* A session whose plan was signed for an identity acts as that identity and as no
\* other, whatever was bound, offered, claimed, revoked and replaced in which order;
\* its receipts say so; and an assertion limited to a controller is used by it alone.
ActsAsSigned ==
    \A s \in Session :
        LET r == sess[s]
        IN  /\ r.plan # Nothing /\ r.plan.identity # Nothing => IdOf(r.who) = r.plan.identity
            /\ r.at = "acts" /\ r.who # Nothing => r.who.scope \in {Nothing, r.agent}
            /\ \A x \in acted : x[1].identity # Nothing => x[2] = x[1].identity

\* A signed plan is bound as often as its signer allowed, across all sessions, after
\* the signer's key was replaced and whatever the cache has dropped; only sessions
\* that verify it at the very same time can count one use for two.
UsesBounded == \A p \in Statement : bound[p] <= p.allowed \/ p \in raced

\* Both: a signed plan is acted on by the identity, and in as many sessions, as it was
\* signed for (contract/signed_plan.py and the bindings of runtime/stateful_session.py).
ActsWithinPlan == ActsAsSigned /\ UsesBounded

\* What is accepted against a checkpoint begins with the very receipts it was taken
\* of, and what is accepted as attested is all of them and nothing else, however the
\* kept chain was damaged or sealed again.
Accepted == ExtendsCheckpoint(kept.copy, kept.checkpoint)
KeptIsGenuine ==
    ~Online /\ Accepted =>
        /\ SubSeq(kept.copy, 1, kept.checkpoint.length)
             = SubSeq(kept.genuine, 1, kept.checkpoint.length)
        /\ Len(kept.copy) = kept.attested.count /\ HeadOf(kept.copy) = kept.attested.head
             => kept.copy = kept.genuine
=============================================================================
