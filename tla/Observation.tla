----------------------------- MODULE Observation -----------------------------
(***************************************************************************)
(* page_observer.py over one backend: observations of a page that goes on   *)
(* changing, the references to their elements, the attestations of their    *)
(* locators, and the bundles kept on disk.                                  *)
(*                                                                          *)
(* An observation is a transaction: the binding is read, the page waited    *)
(* for, captured by one evaluation, the bundle published, then remembered.  *)
(* A node keeps its token as long as it lives; a reference is fresh when    *)
(* the one node of its identity still has the token of the observed one.    *)
(* The operation that names the reference then resolves its own target, by  *)
(* a locator.  Nothing in the code ties that locator to the reference: the  *)
(* operations modelled here name what was observed of the element.          *)
(***************************************************************************)
EXTENDS Naturals, Sequences, FiniteSets, SequencesExt

CONSTANTS
    Page,           \* pages of the browser
    MaxNode,        \* nodes that ever live, numbered in document order
    IdentOf,        \* IdentOf[n]: tag, role, name and placeholder of node n
    Limit,          \* max_interactive_elements
    Keep,           \* observations an observer remembers
    MaxAge, MaxClock, MaxGeneration, MaxObservations,
    None

\* To have no objection is not one of them.
ObservationAssumption == None \notin {"page_navigated", "observation_expired"}

Node == 1..MaxNode

VARIABLES
    generation,     \* browsers the backend has started
    active,         \* its active page
    dom,            \* dom[pg]: the url and the interactive nodes of pg
    born,           \* nodes that live or have lived
    enabled,        \* the nodes that are enabled
    tokens,         \* the nodes some capture has given a token
    clock,
    txn,            \* the observation or validation in progress
    kept,           \* the observations remembered, oldest first
    disk,           \* the bundles on disk
    attestations    \* what was counted for the locators of observations

pageVars == <<dom, born, enabled>>
vars == <<generation, active, pageVars, tokens, clock, txn, kept, disk, attestations>>

Idle == [pc |-> "idle"]

Init ==
    /\ generation = 1 /\ clock = 0 /\ active \in Page
    /\ dom = [pg \in Page |-> [url |-> 0, nodes |-> {}]] /\ born = {} /\ enabled = {}
    /\ tokens = {} /\ txn = Idle /\ kept = <<>> /\ disk = {} /\ attestations = {}
-----------------------------------------------------------------------------
(* The page, the clock and the rest of the backend. *)

Appears(pg, n) ==
    /\ n \notin born /\ (\A m \in 1..(n - 1) : m \in born) /\ born' = born \cup {n} /\ enabled' = enabled \cup {n}
    /\ dom' = [dom EXCEPT ![pg].nodes = @ \cup {n}]
    /\ UNCHANGED <<generation, active, tokens, clock, txn, kept, disk, attestations>>

Disappears(pg, n) ==
    /\ n \in dom[pg].nodes /\ dom' = [dom EXCEPT ![pg].nodes = @ \ {n}] /\ enabled' = enabled \ {n}
    /\ UNCHANGED <<generation, active, born, tokens, clock, txn, kept, disk, attestations>>

Toggles(n) ==
    /\ \E pg \in Page : n \in dom[pg].nodes
    /\ enabled' = IF n \in enabled THEN enabled \ {n} ELSE enabled \cup {n}
    /\ UNCHANGED <<generation, active, dom, born, tokens, clock, txn, kept, disk, attestations>>

\* A navigation leaves no node; a reload keeps the url.
Navigates(pg, url) ==
    /\ dom[pg].nodes # {} /\ dom' = [dom EXCEPT ![pg] = [url |-> url, nodes |-> {}]]
    /\ enabled' = enabled \ dom[pg].nodes
    /\ UNCHANGED <<generation, active, born, tokens, clock, txn, kept, disk, attestations>>

\* _activate_page, by an operation: not while the observer has the backend, but also by the
\* branch of a guard, which runs between the validation and the dispatch.
Switches(pg) ==
    /\ txn.pc \in {"idle", "fresh"} /\ pg # active /\ active' = pg
    /\ UNCHANGED <<generation, pageVars, tokens, clock, txn, kept, disk, attestations>>

Tick ==
    /\ clock < MaxClock /\ clock' = clock + 1
    /\ UNCHANGED <<generation, active, pageVars, tokens, txn, kept, disk, attestations>>

Binding == [generation |-> generation, page |-> active]

\* The browser is stopped or dies and another is started: the observer goes with it, the
\* bundles stay.  (_prepare_new_generation)
Restarts ==
    /\ generation < MaxGeneration /\ generation' = generation + 1
    /\ dom' = [pg \in Page |-> [url |-> 0, nodes |-> {}]] /\ enabled' = {}
    /\ txn' = Idle /\ kept' = <<>> /\ attestations' = {}
    /\ UNCHANGED <<active, born, tokens, clock, disk>>
-----------------------------------------------------------------------------
(* observe_page. *)

Begins ==
    /\ txn = Idle /\ Cardinality(disk) < MaxObservations
    /\ txn' = [pc |-> "capturing", bind |-> Binding]
    /\ UNCHANGED <<generation, active, pageVars, tokens, clock, kept, disk, attestations>>

First(nodes, count) == {n \in nodes : Cardinality({m \in nodes : m <= n}) <= count}

\* Every published element gets its token in the evaluation that captures it.
Captures ==
    LET nodes == First(dom[active].nodes, Limit) IN
    /\ txn.pc = "capturing" /\ tokens' = tokens \cup nodes
    /\ txn' = [pc |-> "sealed",
               obs |-> [id |-> Cardinality(disk) + 1, bind |-> txn.bind, page |-> active, url |-> dom[active].url,
                        at |-> clock, nodes |-> nodes]]
    /\ UNCHANGED <<generation, active, pageVars, clock, kept, disk, attestations>>

Publishes ==
    /\ txn.pc = "sealed" /\ disk' = disk \cup {txn.obs} /\ txn' = [txn EXCEPT !.pc = "published"]
    /\ UNCHANGED <<generation, active, pageVars, tokens, clock, kept, attestations>>

\* The oldest of more than Keep is forgotten.
Commits ==
    LET more == Append(kept, txn.obs) IN
    /\ txn.pc = "published" /\ txn' = Idle
    /\ kept' = IF Len(more) > Keep THEN Tail(more) ELSE more
    /\ UNCHANGED <<generation, active, pageVars, tokens, clock, disk, attestations>>

\* The budget runs out, or something raises, before the bundle is published.
Aborts ==
    /\ txn.pc \in {"capturing", "sealed"} /\ txn' = Idle
    /\ UNCHANGED <<generation, active, pageVars, tokens, clock, kept, disk, attestations>>

\* Mutant: every bundle on disk is admitted.
AdmitsAny(obs) == obs \in disk

Admits(obs) == obs.bind = Binding

\* Another observer is made over the backend: it remembers what the disk holds of this
\* browser and page, in no order of time.
Reopens ==
    /\ txn = Idle /\ disk # {}
    /\ kept' = SetToSeq({obs \in disk : Admits(obs)})
    /\ attestations' = {}
    /\ UNCHANGED <<generation, active, pageVars, tokens, clock, txn, disk>>
-----------------------------------------------------------------------------
(* validate_reference: what the observation knows is compared first, then   *)
(* one evaluation looks for the node.                                       *)

Judged(reason) == txn' = [pc |-> "judged", reason |-> reason]

Objection(obs) ==
    IF obs.page # active \/ obs.url # dom[active].url \/ obs.bind.generation # generation THEN "page_navigated"
    ELSE IF clock - obs.at > MaxAge THEN "observation_expired" ELSE None

\* A reference names an element and the properties it must have: here, to be enabled.
Validates(obs, n, wants) ==
    /\ txn = Idle
    /\ IF Objection(obs) = None
       THEN txn' = [pc |-> "validating", obs |-> obs, node |-> n, wants |-> wants]
       ELSE Judged(Objection(obs))
    /\ UNCHANGED <<generation, active, pageVars, tokens, clock, kept, disk, attestations>>

Alike(n) == {m \in dom[active].nodes : IdentOf[m] = IdentOf[n]}

\* Mutant: a node of the same identity is as good.
SameIdentity(n, found) == found # {}

SameToken(n, found) == found = {n} /\ n \in tokens

Evaluates ==
    LET n == txn.node  found == Alike(n) IN
    /\ txn.pc = "validating"
    /\ IF Cardinality(found) # 1 THEN Judged("element_disappeared_or_ambiguous")
       ELSE IF ~SameToken(n, found) THEN Judged("element_replaced")
       ELSE IF txn.wants /\ found \cap enabled = {} THEN Judged("expected_property_changed")
       ELSE txn' = [pc |-> "fresh", obs |-> txn.obs, node |-> n, there |-> dom[active].nodes]
    /\ UNCHANGED <<generation, active, pageVars, tokens, clock, kept, disk, attestations>>

\* The dispatch that the fresh reference admits: its target must be the one element of that
\* description on the page as it is by now.
Resolves ==
    LET found == Alike(txn.node) IN
    /\ txn.pc = "fresh"
    /\ \/ \E m \in found : found = {m} /\ txn' = [pc |-> "hit", on |-> m]
       \/ Cardinality(found) # 1 /\ Judged("target_resolution_failed")
    /\ UNCHANGED <<generation, active, pageVars, tokens, clock, kept, disk, attestations>>

\* The receipt of the operation; it may fail before its dispatch.
Returns ==
    /\ txn.pc \in {"judged", "fresh", "hit"} /\ txn' = Idle
    /\ UNCHANGED <<generation, active, pageVars, tokens, clock, kept, disk, attestations>>
-----------------------------------------------------------------------------
\* evidence_view: the attestations of an observation, refused when one is of another binding.
View(obs) == {a \in attestations : a.obs = obs.id}

\* A locator of the node is counted where the page is now.
CountNow(n) == Cardinality(Alike(n))

\* attest_observation_locators: the candidates of a remembered observation are counted on
\* the page as it is now, once the binding is the observation's.
\* Counted once for an observation, as a bound.
Attests(obs) ==
    /\ txn = Idle /\ obs.bind = Binding /\ View(obs) = {}
    /\ attestations' = attestations \cup
          {[obs |-> obs.id, node |-> n, bind |-> Binding, count |-> CountNow(n)] : n \in obs.nodes}
    /\ UNCHANGED <<generation, active, pageVars, tokens, clock, txn, kept, disk>>

Observes == Begins \/ Captures \/ Publishes \/ Commits \/ Aborts
PageActs == \E pg \in Page : \/ \E n \in Node : Appears(pg, n) \/ Disappears(pg, n)
                             \/ \E url \in 0..1 : Navigates(pg, url)

Next ==
    \/ PageActs \/ (\E n \in Node : Toggles(n)) \/ (\E pg \in Page : Switches(pg)) \/ Tick \/ Restarts
    \/ Observes \/ Reopens
    \/ \E obs \in ToSet(kept), wants \in BOOLEAN : \E n \in obs.nodes : Validates(obs, n, wants)
    \/ Evaluates \/ Resolves \/ Returns
    \/ \E obs \in ToSet(kept) : Attests(obs)

Spec == Init /\ [][Next]_vars
-----------------------------------------------------------------------------
\* An operation whose reference was called fresh acts on the very node that was observed,
\* although the page changed, navigated or was reloaded between the observation, the
\* comparison and the evaluation - unless the page itself took that node away after the
\* verdict, and only then on one that looks like it.  (A guard's own branch may have gone to
\* another page.)
UseStep ==
    (txn.pc = "fresh" /\ txn'.pc = "hit" /\ active = txn.obs.page) =>
        /\ txn.obs.bind = Binding
        /\ txn'.on = txn.node \/ txn.node \in (txn.obs.nodes \cap txn.there) \ dom[active].nodes

ActsOnTheObserved == [][UseStep]_vars

\* Stronger than the code: what the page does between the verdict and the dispatch is not
\* excluded, so that a node that looks like the observed one may be acted on instead.
HitsTheObserved ==
    [][(txn.pc = "fresh" /\ txn'.pc = "hit" /\ active = txn.obs.page) => txn'.on = txn.node]_vars

\* What an observer remembers was captured whole in the browser that runs, on the page it was
\* bound to, and is on disk, after restarts and when another observer took the bundles up;
\* an attestation is of the binding of its observation.
RememberedIsOfThisBrowser ==
    /\ \A obs \in ToSet(kept) : obs.bind = [generation |-> generation, page |-> obs.page] /\ obs \in disk /\ obs.nodes \subseteq tokens
    /\ \A obs \in ToSet(kept) : \A a \in View(obs) : a.bind = obs.bind
=============================================================================
