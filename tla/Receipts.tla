------------------------------ MODULE Receipts ------------------------------
(***************************************************************************)
(* The chain of receipts: contract/receipt_chain.py.  A digest stands for    *)
(* what it was taken of, so an entry's hash is the tuple of what it binds:   *)
(* two hashes are equal exactly if everything below them is.                 *)
(***************************************************************************)
EXTENDS Naturals, Sequences

CONSTANT Nothing    \* no hash, no session, no entry

\* Entries of three versions verify.  The first binds no browser session, and
\* only the present one names the runtime's session.
Versions == {1, 2, 3}

HashOf(version, previous, facts, browser, session) ==
    <<version, previous, facts, IF version = 1 THEN Nothing ELSE browser,
      IF version = 3 THEN session ELSE Nothing>>

\* make_receipt_chain_entry, which seals the facts of a receipt.
Entry(version, previous, facts, browser, session) ==
    [version |-> version, previous |-> previous,
     binding |-> IF version = 1 THEN Nothing ELSE browser,
     session |-> IF version = 3 THEN session ELSE Nothing,
     hash    |-> HashOf(version, previous, facts, browser, session)]

Sealed(version, previous, facts, browser, session) ==
    [facts |-> facts, browser |-> browser,
     entry |-> Entry(version, previous, facts, browser, session)]

\* verify_receipt_hash: the entry is the one that would be made of the receipt.
HashVerifies(r) ==
    r.entry = Entry(r.entry.version, r.entry.previous, r.facts, r.browser, r.entry.session)

Chained(rs) == {i \in DOMAIN rs : rs[i].entry # Nothing}

\* The hash of the last chained receipt before place i.
HeadBefore(rs, i) ==
    LET before == {j \in Chained(rs) : j < i}
    IN  IF before = {} THEN Nothing
        ELSE rs[CHOOSE j \in before : \A k \in before : k <= j].entry.hash
HeadOf(rs) == HeadBefore(rs, Len(rs) + 1)

\* Mutant: the links are not followed.
Unlinked(rs) == TRUE
Linked(rs) == \A i \in Chained(rs) : rs[i].entry.previous = HeadBefore(rs, i)

OneBrowser(rs) ==
    \A i, j \in Chained(rs) : Nothing \in {rs[i].entry.binding, rs[j].entry.binding}
                                \/ rs[i].entry.binding = rs[j].entry.binding

\* verify_receipt_chain.  A chain that may hold legacy receipts skips those that
\* carry no entry.
ChainVerifies(rs, legacy) ==
    /\ legacy \/ Chained(rs) = DOMAIN rs
    /\ Linked(rs) /\ OneBrowser(rs)
    /\ \A i \in Chained(rs) : HashVerifies(rs[i])

OfSession(rs, s) ==
    \A i \in Chained(rs) : rs[i].entry.version = 3 => rs[i].entry.session = s

\* make_receipt_chain_checkpoint: what a host keeps apart from the chain.
MayCheckpoint(rs, s) == ChainVerifies(rs, FALSE) /\ OfSession(rs, s)
CheckpointOf(rs, s)  == [session |-> s, length |-> Len(rs), head |-> HeadOf(rs)]

\* verify_receipt_chain_against_checkpoint: a longer chain is accepted.
ExtendsCheckpoint(rs, c) ==
    /\ ChainVerifies(rs, FALSE) /\ OfSession(rs, c.session)
    /\ Len(rs) >= c.length
    /\ c.length > 0 => rs[c.length].entry # Nothing /\ rs[c.length].entry.hash = c.head
=============================================================================
