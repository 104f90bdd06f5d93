------------------------------- MODULE MCKept -------------------------------
(***************************************************************************)
(* Small instances of Trust, Downloads and PortableState, whose receipts,   *)
(* files and contexts others rely on afterwards, in one run: a behaviour is *)
(* a behaviour of one of them, chosen initially, while the others stay as   *)
(* they began.                                                              *)
(***************************************************************************)
EXTENDS Trust, TLC

CONSTANTS s1, s2, a1, a2, i1, i2, g, n1, n2,
          None, Content, Sound, MaxNames, Wanted, MaxWrites,
          Backend, Foreign, Choices, o1, o2, Origin, MaxAge, MaxTime, MaxLives, MaxItems

VARIABLES store, parts, hidden, completed, data, at, receipts, part
VARIABLES time, file, ctx, task, admitted

D == INSTANCE Downloads WITH Accepted <- Sound
\* The names of its items, for the documents that P is given.
I == INSTANCE PortableState WITH Foreign <- {}, Choices <- {}, MaxClock <- MaxTime, clock <- time

\* What another host left in the file: nothing, a document of the first version with local
\* storage that looks secret, or a portable one that was made later and was edited.
Secret == [of |-> <<None, 0>>, sensitive |-> TRUE]
Documents ==
    {None,
     [kind |-> "legacy", made |-> 0, features |-> {}, origins |-> {o1},
      holds |-> [I!Empty EXCEPT ![I!Local(o1)] = Secret]],
     [kind |-> "portable", made |-> 1, features |-> I!Feature, origins |-> {o1, o2},
      holds |-> [I!Empty EXCEPT ![I!Cookies] = Secret, ![I!Local(o1)] = Secret]]}
Selections == {{"cookies"}, I!Feature}

P == INSTANCE PortableState WITH MaxClock <- MaxTime, clock <- time

portableVars == <<time, file, ctx, task, admitted>>
downloadVars == <<store, parts, hidden, completed, data, at, receipts>>

\* The constants of Downloads and of PortableState are as they want them.
ASSUME DownloadsInstance == D!DownloadsAssumption
ASSUME PortableInstance == P!PortableAssumption

\* A plan signed for the first identity and one for whoever acts in the first session,
\* assertions of two identities.
Statements ==
    {[nonce |-> n1, signer |-> g, key |-> 1, until |-> 2, allowed |-> 1,
      session |-> Nothing, identity |-> i1],
     [nonce |-> n2, signer |-> g, key |-> 2, until |-> 1, allowed |-> 1,
      session |-> s1, identity |-> Nothing]}

Assertions ==
    {[id |-> i1, version |-> 1, until |-> 2, scope |-> Nothing],
     [id |-> i1, version |-> 2, until |-> 2, scope |-> a2],
     [id |-> i2, version |-> 1, until |-> 1, scope |-> Nothing]}
ReceiptsOf == (s1 :> 2) @@ (s2 :> 1)

\* One session downloads twice, one only opens its store and clears away.
DownloadsOf == (s1 :> 2) @@ (s2 :> 0)

\* When its part does not run it holds nothing.
NoPortable == time = None /\ file = None /\ ctx = None /\ task = None /\ admitted = None

KeptInit ==
    \/ part \in {"trust", "downloads"} /\ Init /\ D!Init /\ NoPortable
    \/ part = "portable" /\ Init /\ D!Init /\ P!Init

KeptNext ==
    \/ part = "trust" /\ Next /\ UNCHANGED <<downloadVars, portableVars, part>>
    \/ part = "downloads" /\ D!Next /\ UNCHANGED <<vars, portableVars, part>>
    \/ part = "portable" /\ P!Next /\ UNCHANGED <<vars, downloadVars, part>>

KeptSpec == KeptInit /\ [][KeptNext]_<<vars, downloadVars, portableVars, part>>
-----------------------------------------------------------------------------
\* As Downloads and PortableState state them: a name of contract/download.py's store holds
\* what was verified, and a browser context holds what its own pages left or what a document
\* validated for it brought (authentication/capability.py).
HeldIsAccountedFor ==
    /\ D!PublishedIsVerified
    /\ part = "portable" => P!HoldsItsOwn

\* As Downloads states it: a live session's files change by its own download only.
LeftToTheirOwner == [][part = "downloads" => D!OwnerStep]_downloadVars
=============================================================================
