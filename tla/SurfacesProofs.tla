--------------------------- MODULE SurfacesProofs ---------------------------
(***************************************************************************)
(* What looks at a page or a desktop, and what lets planners do so, proved   *)
(* for every value of the constants: the table of handles of mcp/server.py   *)
(* never overflows and no planner uses what another was given; what was      *)
(* opened for a planner is closed and what the user opened is left; what is  *)
(* remembered of a browser is of that browser; and every judge of what a     *)
(* page or a network did tells what it did.                                  *)
(***************************************************************************)
EXTENDS MCSurfaces, TLAPS, FiniteSetTheorems, SequenceTheorems, WellFoundedInduction

(* The table's tombstones.                                                  *)

\* A set of naturals has a smallest element.
LEMMA Smallest ==
    ASSUME NEW T \in SUBSET Nat, T # {}
    PROVE  \E m \in T : \A k \in T : m <= k
<1>1. PICK m \in T : \A k \in T : <<k, m>> \notin OpToRel(<, Nat)
  BY NatLessThanWellFounded, WFMin
<1>2. \A k \in T : ~(k < m)
  BY <1>1 DEF OpToRel
<1>. QED  BY <1>2

\* Of n positions there is a first, a second, ... and an n-th one.
LEMMA EveryRank ==
    ASSUME NEW T \in SUBSET Nat, IsFiniteSet(T), NEW n \in 1..Cardinality(T)
    PROVE  \E i \in T : Cardinality({j \in T : j <= i}) = n
<1>. DEFINE upTo(i) == {j \in T : j <= i}
            Missing == {m \in 1..Cardinality(T) : \A i \in T : Cardinality(upTo(i)) # m}
<1>0. Cardinality(T) \in Nat /\ \A i \in T : IsFiniteSet(upTo(i)) /\ Cardinality(upTo(i)) \in Nat
  BY FS_CardinalityType, FS_Subset
<1>1. SUFFICES ASSUME Missing # {} PROVE FALSE
  BY <1>1
<1>2. PICK m \in Missing : \A k \in Missing : m <= k
  <2>1. Missing \in SUBSET Nat
    BY <1>0
  <2>. QED  BY <1>1, <2>1, Smallest
<1>3. m \in Nat /\ 1 <= m /\ m <= Cardinality(T)
  BY <1>0, <1>2
<1>4. CASE m = 1
  <2>1. T # {}
    BY <1>3, <1>4, FS_EmptySet
  <2>2. PICK i \in T : \A k \in T : i <= k
    BY <2>1, Smallest
  <2>3. upTo(i) = {i}
    <3>1. \A k \in T : k <= i <=> k = i
      BY <2>2
    <3>. QED  BY <3>1
  <2>4. Cardinality(upTo(i)) = 1
    BY <2>3, FS_Singleton
  <2>. QED  BY <1>2, <1>4, <2>4
<1>5. CASE m > 1
  <2>1. m - 1 \in 1..Cardinality(T) /\ m - 1 \notin Missing
    BY <1>0, <1>2, <1>3, <1>5
  <2>2. PICK i \in T : Cardinality(upTo(i)) = m - 1
    BY <2>1
  <2>3. T \ upTo(i) # {}
    <3>1. ASSUME T \ upTo(i) = {} PROVE FALSE
      <4>1. upTo(i) = T
        BY <3>1
      <4>. QED  BY <4>1, <2>2, <1>0, <1>3
    <3>. QED  BY <3>1
  <2>4. PICK u \in T \ upTo(i) : \A k \in T \ upTo(i) : u <= k
    <3>1. T \ upTo(i) \in SUBSET Nat
      OBVIOUS
    <3>. QED  BY <2>3, <3>1, Smallest
  <2>5. upTo(u) = upTo(i) \cup {u} /\ u \notin upTo(i)
    <3>1. u \in T /\ ~(u <= i) /\ \A k \in T : k <= i \/ u <= k
      BY <2>4
    <3>2. \A k \in T : k <= u <=> k <= i \/ k = u
      BY <3>1
    <3>. QED  BY <3>1, <3>2
  <2>6. Cardinality(upTo(u)) = m
    <3>1. Cardinality(upTo(i) \cup {u}) = Cardinality(upTo(i)) + 1
      BY <1>0, <2>5, FS_AddElement
    <3>. QED  BY <1>3, <2>2, <2>5, <3>1
  <2>. QED  BY <1>2, <2>4, <2>6
<1>. QED  BY <1>3, <1>4, <1>5

\* What is not late is a sequence of the same values, and no longer.
LEMMA UnspentTyped ==
    ASSUME NEW T, tombstones \in Seq(T)
    PROVE  Unspent \in Seq(T) /\ Len(Unspent) <= Len(tombstones)
<1>. DEFINE unspent == {i \in DOMAIN tombstones : tombstones[i] \notin late}
            upTo(i) == {j \in unspent : j <= i}
            nth(n) == CHOOSE i \in unspent : Cardinality(upTo(i)) = n
            size == Cardinality(unspent)
<1>1. Len(tombstones) \in Nat /\ DOMAIN tombstones = 1..Len(tombstones)
  OBVIOUS
<1>2. unspent \in SUBSET Nat /\ unspent \subseteq 1..Len(tombstones)
  BY <1>1
<1>3. IsFiniteSet(1..Len(tombstones)) /\ Cardinality(1..Len(tombstones)) = Len(tombstones)
  BY <1>1, FS_Interval
<1>4. IsFiniteSet(unspent) /\ size \in Nat /\ size <= Len(tombstones)
  BY <1>2, <1>3, FS_Subset, FS_CardinalityType
<1>5. ASSUME NEW n \in 1..size PROVE tombstones[nth(n)] \in T
  <2>1. \E i \in unspent : Cardinality(upTo(i)) = n
    BY <1>2, <1>4, EveryRank
  <2>2. nth(n) \in unspent
    BY <2>1
  <2>. QED  BY <1>1, <1>2, <2>2
<1>6. Unspent = [n \in 1..size |-> tombstones[nth(n)]]
  BY DEF Unspent
<1>. HIDE DEF unspent, nth, size
<1>7. Unspent \in [1..size -> T]
  BY <1>5, <1>6
<1>8. Unspent \in Seq(T) /\ Len(Unspent) = size
  BY <1>4, <1>7, IsASeq
<1>. QED  BY <1>4, <1>8

\* A tombstone more, and the table of tombstones is full at most.
LEMMA BuriedTyped ==
    ASSUME NEW T, tombstones \in Seq(T), NEW i \in T
    PROVE  Buried(i) \in Seq(T) /\ Len(Buried(i)) <= MaxTombstones
<1>. DEFINE all == Append(Unspent, i)
<1>1. all \in Seq(T) /\ Len(all) \in Nat /\ MaxTombstones \in Nat
  BY UnspentTyped, AppendProperties, CapacityAssumption
<1>. HIDE DEF all
<1>2. CASE Len(all) > MaxTombstones
  <2>1. /\ SubSeq(all, Len(all) - MaxTombstones + 1, Len(all)) \in Seq(T)
        /\ Len(SubSeq(all, Len(all) - MaxTombstones + 1, Len(all))) = MaxTombstones
    BY <1>1, <1>2, SubSeqProperties
  <2>. QED  BY <1>2, <2>1 DEF Buried, all
<1>3. CASE ~(Len(all) > MaxTombstones)
  BY <1>1, <1>3 DEF Buried, all
<1>. QED  BY <1>2, <1>3
-----------------------------------------------------------------------------
(* Types, and the execution thread.                                         *)

\* The places of a call that is being served.
Busy == {"reserve", "serve", "mint", "end"}

\* With an execution thread the call that is being served is the first of the queue, and
\* a close that waits for its turn stands there.  A slot is reserved for what is minted.
WorkInv ==
    /\ serial =>
          /\ \A c \in Call : call[c].at \in Busy => queue # <<>> /\ Head(queue) = c
          /\ closer = "end" => \E i \in DOMAIN queue : queue[i] = None
    /\ \A c \in Call : call[c].at \in {"reserve", "mint"} => Mints(call[c].tool) # "nothing"

\* What was a handle or a call stays one when handles are minted and tables cleared.
LEMMA TypesGrow ==
    ASSUME TypeOK, minted' \in Nat, generation' \in Nat, connection' \in Nat,
           minted <= minted', generation <= generation', connection <= connection'
    PROVE  /\ Handles \subseteq Handles' /\ Record \subseteq Record'
           /\ 1..minted \subseteq 1..minted' /\ 1..connection \subseteq 1..connection'
           /\ (1..minted) \X (1..connection) \subseteq (1..minted') \X (1..connection')
           /\ tombstones \in Seq(1..minted')
<1>1. /\ 1..minted \subseteq 1..minted' /\ 1..connection \subseteq 1..connection'
      /\ 0..generation \subseteq 0..generation' /\ 0..connection \subseteq 0..connection'
  BY DEF TypeOK
<1>2. Handles \subseteq Handles' /\ Record \subseteq Record'
  BY <1>1 DEF Handles, Record
<1>3. tombstones \in Seq(1..minted')
  BY <1>1, SeqMonotonic DEF TypeOK
<1>. QED  BY <1>1, <1>2, <1>3

\* A new server has minted nothing and nobody has called it.
LEMMA TypeInit == Init => TypeOK /\ WorkInv
<1>1. ASSUME Init PROVE TypeOK
  <2>1. call \in [Call -> Record]
    BY <1>1 DEF Init, NoCall, Record, Places, Tools
  <2>2. IsFiniteSet(handles) /\ tombstones \in Seq(1..minted) /\ queue \in Seq(Call \cup {None})
    BY <1>1, FS_EmptySet, EmptySeq DEF Init
  <2>3. /\ handles \subseteq Handles /\ late \subseteq 1..minted
        /\ told \subseteq (1..minted) \X (1..connection)
    BY <1>1 DEF Init
  <2>4. connection \in Nat \ {0} /\ reserved \in Nat /\ generation \in Nat /\ minted \in Nat
    BY <1>1 DEF Init
  <2>5. /\ serial \in BOOLEAN /\ closed \in BOOLEAN /\ connected \in BOOLEAN
        /\ closer \in {"none", "clear", "end", "done"}
    BY <1>1 DEF Init
  <2>. QED  BY <2>1, <2>2, <2>3, <2>4, <2>5 DEF TypeOK
<1>2. ASSUME Init PROVE WorkInv
  BY <1>2 DEF Init, WorkInv, Busy, NoCall
<1>. QED  BY <1>1, <1>2

\* A call's place is one of its places.
LEMMA Moves ==
    ASSUME TypeOK, NEW c \in Call, NEW place \in Places, Goes(c, place)
    PROVE  call' \in [Call -> Record]
BY DEF TypeOK, Goes, Record

\* The work of an execution thread whose first piece is done, or that got one more.
LEMMA QueueTyped ==
    ASSUME TypeOK
    PROVE  /\ queue # <<>> => Tail(queue) \in Seq(Call \cup {None})
           /\ \A c \in Call \cup {None} : Append(queue, c) \in Seq(Call \cup {None})
BY DEF TypeOK

\* Every step keeps the types.
LEMMA TypeNext == TypeOK /\ WorkInv /\ [Next]_vars => TypeOK'
<1>. SUFFICES ASSUME TypeOK, WorkInv, [Next]_vars PROVE TypeOK'
  OBVIOUS
<1>0. IsFiniteSet(Live) /\ Live \subseteq Handles /\ Live \subseteq handles
  BY FS_Subset DEF Live, TypeOK
<1>1. ASSUME NEW c \in Call, NEW tool \in Tools, NEW h \in 1..minted \cup {None},
             Arrives(c, tool, h)
      PROVE  TypeOK'
  <2>1. call' \in [Call -> Record]
    <3>. DEFINE r == [call[c] EXCEPT !.at = "take", !.tool = tool, !.handle = h, !.on = connection]
    <3>1. connection \in 0..connection /\ call[c] \in Record
      BY DEF TypeOK
    <3>2. r \in Record
      BY <3>1 DEF Record, Places
    <3>3. Goes(c, "done") \/ call' = [call EXCEPT ![c] = r]
      BY <1>1 DEF Arrives
    <3>. HIDE DEF r
    <3>. QED  BY <3>2, <3>3, Moves DEF TypeOK, Places
  <2>2. queue' \in Seq(Call \cup {None})
    BY <1>1, QueueTyped DEF Arrives, TypeOK
  <2>. QED  BY <1>1, <2>1, <2>2 DEF Arrives, TypeOK, line, table, Handles, Record
<1>2. ASSUME NEW c \in Call, TakesHandle(c) PROVE TypeOK'
  <2>1. Unspent \in Seq(1..minted) /\ \A i \in 1..minted : Buried(i) \in Seq(1..minted)
    BY UnspentTyped, BuriedTyped DEF TypeOK
  <2>2. call' \in [Call -> Record]
    BY <1>2, Moves DEF TakesHandle, AfterTake, Places
  <2>3. /\ tombstones' \in Seq(1..minted) /\ handles' \subseteq Handles /\ IsFiniteSet(handles')
        /\ UNCHANGED <<reserved, generation, minted>>
    <3>1. ASSUME NEW x \in Known(call[c].handle)
          PROVE  x.id \in 1..minted /\ IsFiniteSet(Live \ {x})
      BY <1>0, <3>1, FS_Difference, FS_Subset DEF Known, Handles
    <3>. QED  BY <1>0, <1>2, <2>1, <3>1 DEF TakesHandle, AfterTaking, table, TypeOK
  <2>. QED  BY <1>2, <2>2, <2>3 DEF TakesHandle, TypeOK, line, Handles, Record
<1>3. ASSUME NEW c \in Call, Reserves(c) PROVE TypeOK'
  <2>1. Unspent \in Seq(1..minted)
    BY UnspentTyped DEF TypeOK
  <2>2. call' \in [Call -> Record]
    <3>1. generation \in 0..generation
      BY DEF TypeOK
    <3>2. call[c] \in Record
      BY DEF TypeOK
    <3>3. [[call[c] EXCEPT !.at = "serve"] EXCEPT !.slot = generation] \in Record
      BY <3>1, <3>2 DEF Record, Places
    <3>4. \/ call' = [call EXCEPT ![c] = [[@ EXCEPT !.at = "serve"] EXCEPT !.slot = generation]]
          \/ Goes(c, "end")
      BY <1>3 DEF Reserves, TypeOK
    <3>. QED  BY <3>3, <3>4, Moves DEF TypeOK, Places
  <2>3. reserved' \in Nat
    BY <1>3 DEF Reserves, TypeOK
  <2>. QED  BY <1>0, <1>3, <2>1, <2>2, <2>3 DEF Reserves, TypeOK, line, Handles, Record
<1>4. ASSUME NEW c \in Call, Serves(c) PROVE TypeOK'
  <2>1. call' \in [Call -> Record]
    BY <1>4, Moves DEF Serves, Places
  <2>. QED  BY <1>4, <2>1 DEF Serves, TypeOK, line, table, Handles, Record
<1>5. ASSUME NEW c \in Call, MintHandle(c) PROVE TypeOK'
  <2>0. Unspent \in Seq(1..minted)
    BY UnspentTyped DEF TypeOK
  <2>1. CASE UNCHANGED minted
    <3>1. (handles' = Live /\ Goes(c, "end")) \/ minted' = minted + 1
      BY <1>5 DEF MintHandle
    <3>2. handles' = Live /\ Goes(c, "end")
      BY <2>1, <3>1 DEF TypeOK
    <3>3. call' \in [Call -> Record]
      BY <3>2, Moves DEF Places
    <3>. QED  BY <1>0, <1>5, <2>0, <2>1, <3>2, <3>3 DEF MintHandle, TypeOK, line, Handles, Record
  <2>2. CASE minted' = minted + 1
    <3>. DEFINE kind == Mints(call[c].tool)
                new  == [id |-> minted + 1, kind |-> kind, gen |-> call[c].slot]
    <3>1. minted' \in Nat /\ minted + 1 \in 1..minted' /\ UNCHANGED <<generation, connection>>
      BY <1>5, <2>2 DEF MintHandle, TypeOK, line
    <3>2. /\ Handles \subseteq Handles' /\ Record \subseteq Record'
          /\ 1..minted \subseteq 1..minted'
          /\ (1..minted) \X (1..connection) \subseteq (1..minted') \X (1..connection')
      BY <2>2, <3>1, TypesGrow DEF TypeOK
    <3>3. /\ StillOurs(c) /\ handles' = Live \cup {new} /\ At(c, "mint")
          /\ call' = [call EXCEPT ![c].at = "end", ![c].gives = minted + 1]
      <4>1. minted' # minted
        BY <2>2 DEF TypeOK
      <4>. QED  BY <1>5, <4>1 DEF MintHandle
    <3>4. call' \in [Call -> Record']
      <4>1. call \in [Call -> Record'] /\ call[c] \in Record'
        BY <3>2 DEF TypeOK
      <4>2. [[call[c] EXCEPT !.at = "end"] EXCEPT !.gives = minted + 1] \in Record'
        BY <3>1, <4>1 DEF Record, Places
      <4>3. call' = [call EXCEPT ![c] = [[@ EXCEPT !.at = "end"] EXCEPT !.gives = minted + 1]]
        BY <3>3, <4>1
      <4>. QED  BY <4>1, <4>2, <4>3
    <3>5. kind \in Kinds
      <4>1. kind # "nothing"
        BY <3>3 DEF WorkInv, At
      <4>. QED  BY <4>1 DEF Mints, Kinds
    <3>6. new \in Handles'
      BY <3>1, <3>3, <3>5 DEF StillOurs, Handles, TypeOK
    <3>7. IsFiniteSet(handles')
      BY <1>0, <3>3, FS_AddElement
    <3>. QED  BY <1>0, <1>5, <2>0, <3>1, <3>2, <3>3, <3>4, <3>6, <3>7, SeqMonotonic
              DEF MintHandle, TypeOK, line
  <2>. QED  BY <1>5, <2>1, <2>2 DEF MintHandle
<1>6. ASSUME NEW c \in Call, Ends(c) PROVE TypeOK'
  <2>1. queue' \in Seq(Call \cup {None})
    BY <1>6, QueueTyped DEF Ends, TypeOK, WorkInv, Busy, At
  <2>2. call' \in [Call -> Record]
    <3>1. [NoCall EXCEPT !.at = "done"] \in Record
      BY DEF TypeOK, NoCall, Record, Places, Tools
    <3>. QED  BY <1>6, <3>1 DEF Ends, TypeOK
  <2>3. reserved' \in Nat
    BY <1>6 DEF Ends, TypeOK, GivesBack
  <2>4. told' \subseteq (1..minted) \X (1..connection)
    <3>1. call[c].gives \in 1..minted \cup {None}
      BY DEF TypeOK, Record
    <3>2. connected /\ call[c].on = connection => connection \in 1..connection
      BY DEF TypeOK
    <3>. QED  BY <1>6, <3>1, <3>2 DEF Ends, TypeOK
  <2>. QED  BY <1>6, <2>1, <2>2, <2>3, <2>4 DEF Ends, TypeOK, line, Handles, Record
<1>7. ASSUME Disconnects \/ CloseClears PROVE TypeOK'
  <2>1. /\ generation' = generation + 1 /\ UNCHANGED <<minted, connection>>
        /\ handles' = {} /\ tombstones' = <<>> /\ reserved' = 0
    BY <1>7 DEF Disconnects, CloseClears, Clears, line
  <2>2. /\ generation' \in Nat /\ IsFiniteSet(handles') /\ tombstones' \in Seq(1..minted')
        /\ Record \subseteq Record'
    BY <2>1, TypesGrow, FS_EmptySet, EmptySeq DEF TypeOK
  <2>3. call' \in [Call -> Record']
    BY <1>7, <2>2 DEF Disconnects, CloseClears, TypeOK
  <2>4. queue' \in Seq(Call \cup {None})
    BY <1>7, QueueTyped DEF Disconnects, CloseClears, TypeOK
  <2>. QED  BY <1>7, <2>1, <2>2, <2>3, <2>4 DEF Disconnects, CloseClears, TypeOK, line
<1>8. ASSUME Connects PROVE TypeOK'
  <2>1. connection' \in Nat \ {0} /\ UNCHANGED <<minted, generation, table>>
    BY <1>8 DEF Connects, TypeOK, table
  <2>2. /\ Record \subseteq Record' /\ Handles \subseteq Handles'
        /\ (1..minted) \X (1..connection) \subseteq (1..minted') \X (1..connection')
    BY <1>8, <2>1, TypesGrow DEF Connects, TypeOK
  <2>3. call' \in [Call -> Record'] /\ handles' \subseteq Handles'
    BY <1>8, <2>2 DEF Connects, TypeOK, table
  <2>. QED  BY <1>8, <2>1, <2>2, <2>3 DEF Connects, TypeOK, table
<1>9. ASSUME CloseBegins PROVE TypeOK'
  BY <1>9 DEF CloseBegins, TypeOK, line, table, Handles, Record
<1>10. ASSUME CloseEnds PROVE TypeOK'
  <2>1. queue' \in Seq(Call \cup {None})
    BY <1>10, QueueTyped DEF CloseEnds, WorkInv, TypeOK
  <2>. QED  BY <1>10, <2>1 DEF CloseEnds, TypeOK, line, table, Handles, Record
<1>11. ASSUME NEW h \in 1..minted, Ages(h) PROVE TypeOK'
  BY <1>11 DEF Ages, TypeOK, line, table, Handles, Record
<1>12. ASSUME UNCHANGED vars PROVE TypeOK'
  BY <1>12 DEF vars, TypeOK, line, table, Handles, Record
<1>. QED  BY <1>1, <1>2, <1>3, <1>4, <1>5, <1>6, <1>7, <1>8, <1>9, <1>10, <1>11, <1>12
          DEF Next, Steps

\* A call that is served goes on alone: the queue is as it was, and who begins is first in it.
LEMMA ServedStep ==
    ASSUME TypeOK, WorkInv, NEW c \in Call,
           TakesHandle(c) \/ Reserves(c) \/ Serves(c) \/ MintHandle(c)
    PROVE  /\ UNCHANGED <<serial, queue, closer, closed, connection, connected, told>>
           /\ \A u \in Call \ {c} : call'[u] = call[u]
           /\ call[c].at \in Busy \/ Runs(c)
           /\ call'[c].at \in Busy /\ call'[c].tool = call[c].tool
           /\ call'[c].handle = call[c].handle /\ call'[c].on = call[c].on
           /\ call'[c].at \in {"reserve", "mint"} => Mints(call[c].tool) # "nothing"
<1>1. call \in [Call -> Record] /\ call[c] \in Record
  BY DEF TypeOK
<1>2. CASE TakesHandle(c)
  <2>1. Runs(c) /\ UNCHANGED <<serial, queue, closer, closed, connection, connected, told>>
    BY <1>2 DEF TakesHandle, line
  <2>2. Goes(c, AfterTake(call[c].tool)) \/ Goes(c, "end")
    BY <1>2 DEF TakesHandle
  <2>3. AfterTake(call[c].tool) \in Busy
    BY DEF AfterTake, Busy
  <2>4. ASSUME NEW place \in Busy, Goes(c, place)
        PROVE  /\ \A u \in Call \ {c} : call'[u] = call[u]
               /\ call'[c].at = place /\ call'[c].tool = call[c].tool
               /\ call'[c].handle = call[c].handle /\ call'[c].on = call[c].on
    BY <1>1, <2>4 DEF Goes, Record
  <2>. QED  BY <2>1, <2>2, <2>3, <2>4 DEF AfterTake, Busy
<1>3. CASE Reserves(c)
  BY <1>1, <1>3 DEF Reserves, Goes, At, Busy, line, Record
<1>4. CASE Serves(c)
  BY <1>1, <1>4 DEF Serves, Goes, At, Busy, line, Record
<1>5. CASE MintHandle(c)
  BY <1>1, <1>5 DEF MintHandle, Goes, At, Busy, line, Record
<1>. QED  BY <1>2, <1>3, <1>4, <1>5

\* What stands further back in the queue comes forward when its first is done.
LEMMA BackInQueue ==
    ASSUME TypeOK, NEW x \in Call \cup {None}, queue # <<>>, Head(queue) # x,
           \E i \in DOMAIN queue : queue[i] = x
    PROVE  \E i \in DOMAIN Tail(queue) : Tail(queue)[i] = x
<1>1. PICK i \in 1..Len(queue) : queue[i] = x
  BY DEF TypeOK
<1>2. Head(queue) = queue[1] /\ DOMAIN Tail(queue) = 1..(Len(queue) - 1) /\ Len(queue) \in Nat
  BY HeadTailProperties DEF TypeOK
<1>3. i - 1 \in DOMAIN Tail(queue) /\ Tail(queue)[i - 1] = queue[i]
  BY <1>1, <1>2 DEF TypeOK
<1>. QED  BY <1>1, <1>3

\* Every step keeps the execution thread to its first call.
LEMMA WorkNext == TypeOK /\ WorkInv /\ [Next]_vars => WorkInv'
<1>. SUFFICES ASSUME TypeOK, WorkInv, [Next]_vars PROVE WorkInv'
  OBVIOUS
<1>0. call \in [Call -> Record]
  BY DEF TypeOK
<1>1. ASSUME NEW c \in Call, NEW tool \in Tools, NEW h \in 1..minted \cup {None},
             Arrives(c, tool, h)
      PROVE  WorkInv'
  <2>1. /\ \A u \in Call \ {c} : call'[u] = call[u]
        /\ call'[c].at \in {"take", "done"} /\ UNCHANGED <<serial, closer>>
    <3>1. CASE closed
      BY <1>0, <1>1, <3>1 DEF Arrives, Goes, Record
    <3>2. CASE ~closed
      <4>. DEFINE r == [call[c] EXCEPT !.at = "take", !.tool = tool, !.handle = h,
                                       !.on = connection]
      <4>1. call' = [call EXCEPT ![c] = r] /\ UNCHANGED <<serial, closer>>
        BY <1>1, <3>2 DEF Arrives
      <4>2. r.at = "take"
        BY <1>0 DEF Record
      <4>. HIDE DEF r
      <4>. QED  BY <1>0, <4>1, <4>2
    <3>. QED  BY <3>1, <3>2
  <2>2. \A u \in Call : call'[u].at \in Busy \cup {"reserve", "mint"} => call'[u] = call[u]
    BY <2>1 DEF Busy
  <2>3. queue' = queue \/ queue' = Append(queue, c)
    BY <1>1 DEF Arrives
  <2>4. queue # <<>> => queue' # <<>> /\ Head(queue') = Head(queue)
    BY <2>3 DEF TypeOK
  <2>5. (\E i \in DOMAIN queue : queue[i] = None) => \E i \in DOMAIN queue' : queue'[i] = None
    <3>1. \A i \in DOMAIN queue : i \in DOMAIN queue' /\ queue'[i] = queue[i]
      BY <2>3, SMTT(60) DEF TypeOK
    <3>. QED  BY <3>1
  <2>. QED  BY <2>1, <2>2, <2>4, <2>5 DEF WorkInv
<1>2. ASSUME NEW c \in Call, TakesHandle(c) \/ Reserves(c) \/ Serves(c) \/ MintHandle(c)
      PROVE  WorkInv'
  <2>1. serial => queue # <<>> /\ Head(queue) = c
    BY <1>2, ServedStep DEF WorkInv, Runs
  <2>. QED  BY <1>2, <2>1, ServedStep DEF WorkInv
<1>3. ASSUME NEW c \in Call, Ends(c) PROVE WorkInv'
  <2>1. /\ \A u \in Call \ {c} : call'[u] = call[u]
        /\ call'[c].at = "done" /\ UNCHANGED <<serial, closer>>
    BY <1>0, <1>3 DEF Ends, NoCall
  <2>2. serial => queue # <<>> /\ Head(queue) = c /\ queue' = Tail(queue)
    BY <1>3 DEF Ends, WorkInv, Busy, At
  <2>3. ASSUME serial PROVE \A u \in Call : call'[u].at \notin Busy
    BY <2>1, <2>2, <2>3 DEF WorkInv, Busy
  <2>4. ASSUME serial, closer = "end" PROVE \E i \in DOMAIN queue' : queue'[i] = None
    <3>1. c # None
      BY CapacityAssumption
    <3>. QED  BY <2>2, <2>4, <3>1, BackInQueue DEF WorkInv
  <2>. QED  BY <2>1, <2>3, <2>4 DEF WorkInv, Busy
<1>4. ASSUME Disconnects \/ Connects \/ CloseBegins \/ (\E h \in 1..minted : Ages(h))
             \/ UNCHANGED vars
      PROVE  WorkInv'
  <2>1. UNCHANGED <<serial, queue, call>> /\ closer' \in {closer, "clear"}
    BY <1>4 DEF Disconnects, Connects, CloseBegins, Ages, vars, line, table
  <2>. QED  BY <2>1 DEF WorkInv
<1>5. ASSUME CloseClears PROVE WorkInv'
  <2>1. /\ UNCHANGED <<serial, call>>
        /\ queue' = IF serial THEN Append(queue, None) ELSE queue
    BY <1>5 DEF CloseClears
  <2>2. queue # <<>> /\ serial => queue' # <<>> /\ Head(queue') = Head(queue)
    BY <2>1 DEF TypeOK
  <2>3. serial => \E i \in DOMAIN queue' : queue'[i] = None
    <3>1. serial => Len(queue) + 1 \in DOMAIN queue' /\ queue'[Len(queue) + 1] = None
      BY <2>1 DEF TypeOK
    <3>. QED  BY <3>1
  <2>. QED  BY <2>1, <2>2, <2>3 DEF WorkInv
<1>6. ASSUME CloseEnds PROVE WorkInv'
  <2>1. UNCHANGED <<serial, call>> /\ closer' = "done"
    BY <1>6 DEF CloseEnds
  <2>2. ASSUME serial, NEW u \in Call, call[u].at \in Busy PROVE FALSE
    <3>1. Head(queue) = u /\ Head(queue) = None
      BY <1>6, <2>2 DEF CloseEnds, WorkInv
    <3>. QED  BY <3>1, CapacityAssumption
  <2>. QED  BY <2>1, <2>2 DEF WorkInv
<1>. QED  BY <1>1, <1>2, <1>3, <1>4, <1>5, <1>6 DEF Next, Steps

\* The state has its type, and with an execution thread one call at a time is served.
THEOREM TypeCorrect == Spec => [](TypeOK /\ WorkInv)
<1>1. TypeOK /\ WorkInv /\ [Next]_vars => (TypeOK /\ WorkInv)'
  BY TypeNext, WorkNext
<1>. QED  BY <1>1, TypeInit, PTL DEF Spec
-----------------------------------------------------------------------------
(* Slots and handles.                                                       *)

\* A call holds a reservation from where it reserves to where it gives it back, which is
\* what makes the account of the table inductive.
SlotInv ==
    /\ SlotsAccounted
    /\ \A c \in Call : call[c].at \notin {"serve", "mint", "end"} => call[c].slot = None

\* What is counted is finite, and those who have yet to mint are among the holders.
LEMMA Counts ==
    ASSUME TypeOK
    PROVE  /\ IsFiniteSet(Holders) /\ IsFiniteSet(Pending) /\ Pending \subseteq Holders
           /\ Cardinality(Holders) \in Nat /\ Cardinality(Pending) \in Nat
           /\ Cardinality(Pending) <= Cardinality(Holders)
           /\ Cardinality(handles) \in Nat
<1>1. Holders \subseteq Call /\ Pending \subseteq Holders
  BY DEF Holders, Pending
<1>2. IsFiniteSet(Holders)
  BY <1>1, FS_Subset, CapacityAssumption
<1>3. IsFiniteSet(Pending) /\ Cardinality(Pending) <= Cardinality(Holders)
  BY <1>1, <1>2, FS_Subset
<1>. QED  BY <1>1, <1>2, <1>3, FS_CardinalityType DEF TypeOK

\* A step that reserves and gives back nothing keeps the account when it adds no handle.
LEMMA SameSlots ==
    ASSUME TypeOK, SlotInv, UNCHANGED <<reserved, generation>>, handles' \subseteq handles,
           Len(tombstones') <= MaxTombstones,
           \A c \in Call :
              /\ call'[c].slot = call[c].slot
              /\ call'[c].at \in {"serve", "mint"} /\ call[c].slot = generation
                    => call[c].at \in {"serve", "mint"}
              /\ call'[c].at \in {"serve", "mint", "end"} \/ call[c].slot = None
    PROVE  SlotInv'
<1>1. Holders' = Holders /\ Pending' \subseteq Pending
  BY DEF Holders, Pending
<1>2. /\ Cardinality(Pending') <= Cardinality(Pending) /\ Cardinality(Pending') \in Nat
      /\ Cardinality(handles') <= Cardinality(handles) /\ Cardinality(handles') \in Nat
  BY <1>1, Counts, FS_Subset, FS_CardinalityType DEF TypeOK
<1>3. Cardinality(handles') + Cardinality(Pending') <= MaxHandles
  BY <1>2, Counts, CapacityAssumption DEF SlotInv, SlotsAccounted
<1>4. \A h \in handles' : h.gen = generation'
  BY DEF SlotInv, SlotsAccounted
<1>. QED  BY <1>1, <1>3, <1>4 DEF SlotInv, SlotsAccounted

\* A new server has reserved and lent nothing.
LEMMA SlotInit == Init => SlotInv
<1>. SUFFICES ASSUME Init PROVE SlotInv
  OBVIOUS
<1>1. Holders = {} /\ Pending = {} /\ handles = {}
  BY CapacityAssumption DEF Init, Holders, Pending, NoCall
<1>2. Cardinality({}) = 0 /\ MaxHandles \in Nat /\ MaxTombstones \in Nat
  BY FS_EmptySet, CapacityAssumption
<1>3. Len(<<>>) = 0
  BY EmptySeq
<1>. QED  BY <1>1, <1>2, <1>3 DEF Init, SlotInv, SlotsAccounted, NoCall

\* A cleared table owes nothing to anybody.
LEMMA ClearedSlots ==
    ASSUME TypeOK, SlotInv, Clears, UNCHANGED call
    PROVE  SlotInv'
<1>1. \A c \in Call : call'[c].slot # generation'
  <2>1. generation' = generation + 1 /\ generation \in Nat
    BY DEF Clears, TypeOK
  <2>2. \A c \in Call : call[c].slot \in 0..generation \cup {None}
    BY DEF TypeOK, Record
  <2>. QED  BY <2>1, <2>2, CapacityAssumption
<1>2. Holders' = {} /\ Pending' = {}
  BY <1>1 DEF Holders, Pending
<1>3. Cardinality({}) = 0 /\ MaxHandles \in Nat /\ MaxTombstones \in Nat
  BY FS_EmptySet, CapacityAssumption
<1>4. Len(<<>>) = 0
  BY EmptySeq
<1>. QED  BY <1>2, <1>3, <1>4 DEF Clears, SlotInv, SlotsAccounted

\* What is left of the table when it was cleaned up is no larger.
LEMMA CleanedUp ==
    ASSUME TypeOK, SlotInv
    PROVE  /\ Live \subseteq handles /\ IsFiniteSet(Live) /\ Cardinality(Live) \in Nat
           /\ Cardinality(Live) <= Cardinality(handles)
           /\ Len(Unspent) <= MaxTombstones
<1>1. Live \subseteq handles
  BY DEF Live
<1>2. Len(Unspent) <= MaxTombstones
  <2>1. Len(Unspent) \in Nat /\ Len(tombstones) \in Nat /\ Len(Unspent) <= Len(tombstones)
    BY UnspentTyped DEF TypeOK
  <2>. QED  BY <2>1, CapacityAssumption DEF SlotInv, SlotsAccounted
<1>. QED  BY <1>1, <1>2, FS_Subset, FS_CardinalityType DEF TypeOK

\* A call that takes what it was lent reserves nothing yet.
LEMMA TakesSlots == \A c \in Call : TypeOK /\ SlotInv /\ TakesHandle(c) => SlotInv'
<1>. SUFFICES ASSUME TypeOK, SlotInv, NEW c \in Call, TakesHandle(c) PROVE SlotInv'
  OBVIOUS
<1>1. call[c].slot = None /\ call \in [Call -> Record]
  BY DEF TakesHandle, At, SlotInv, TypeOK
<1>2. \A u \in Call \ {c} : call'[u] = call[u]
  BY <1>1 DEF TakesHandle, Goes
<1>3. call'[c].slot = None
  BY <1>1 DEF TakesHandle, Goes, Record
<1>4. handles' \subseteq handles /\ Len(tombstones') <= MaxTombstones
  <2>1. \A x \in Live : x.id \in 1..minted
    BY CleanedUp DEF TypeOK, Handles
  <2>2. \A i \in 1..minted : Len(Buried(i)) <= MaxTombstones
    BY BuriedTyped DEF TypeOK
  <2>3. \A x \in Known(call[c].handle) : x \in Live
    BY DEF Known
  <2>. QED  BY <2>1, <2>2, <2>3, CleanedUp
            DEF TakesHandle, AfterTaking, table, SlotInv, SlotsAccounted
<1>5. UNCHANGED <<reserved, generation>>
  BY DEF TakesHandle, table
<1>6. None # generation
  BY CapacityAssumption DEF TypeOK
<1>7. \A u \in Call :
         /\ call'[u].slot = call[u].slot
         /\ call'[u].at \in {"serve", "mint"} /\ call[u].slot = generation
               => call[u].at \in {"serve", "mint"}
         /\ call'[u].at \in {"serve", "mint", "end"} \/ call[u].slot = None
  BY <1>1, <1>2, <1>3, <1>6 DEF SlotInv
<1>. QED  BY <1>4, <1>5, <1>7, SameSlots

\* Who reserves is one holder more, and there is still room for what it will mint.
LEMMA ReservesSlots == \A c \in Call : TypeOK /\ SlotInv /\ Reserves(c) => SlotInv'
<1>. SUFFICES ASSUME TypeOK, SlotInv, NEW c \in Call, Reserves(c) PROVE SlotInv'
  OBVIOUS
<1>1. call[c].slot = None /\ call \in [Call -> Record] /\ call[c] \in Record
  BY DEF Reserves, At, SlotInv, TypeOK
<1>2. \A u \in Call \ {c} : call'[u] = call[u]
  BY <1>1 DEF Reserves, Goes
<1>3. /\ handles' = Live /\ UNCHANGED generation /\ Len(tombstones') <= MaxTombstones
      /\ None # generation
  BY CleanedUp, CapacityAssumption DEF Reserves, TypeOK
<1>4. CASE Cardinality(Live) + reserved < MaxHandles
  <2>1. /\ call' = [call EXCEPT ![c] = [[@ EXCEPT !.at = "serve"] EXCEPT !.slot = generation]]
        /\ reserved' = reserved + 1
    BY <1>1, <1>4 DEF Reserves
  <2>2. call'[c].at = "serve" /\ call'[c].slot = generation
    BY <1>1, <2>1 DEF Record
  <2>3. Holders' = Holders \cup {c} /\ c \notin Holders
    BY <1>1, <1>2, <1>3, <2>2 DEF Holders
  <2>4. Pending' = Pending \cup {c}
    <3>1. \A u \in Holders : u \in Call \ {c}
      BY <2>3 DEF Holders
    <3>. QED  BY <1>2, <2>2, <2>3, <3>1 DEF Pending
  <2>5. /\ Cardinality(Holders') = Cardinality(Holders) + 1
        /\ Cardinality(Pending') = Cardinality(Pending) + 1
    BY <2>3, <2>4, Counts, FS_AddElement
  <2>6. Cardinality(handles') + Cardinality(Pending') <= MaxHandles
    BY <1>3, <1>4, <2>5, Counts, CleanedUp, CapacityAssumption DEF SlotInv, SlotsAccounted
  <2>7. \A u \in Call : call'[u].at \notin {"serve", "mint", "end"} => call'[u].slot = None
    BY <1>2, <2>2 DEF SlotInv
  <2>8. \A h \in handles' : h.gen = generation'
    BY <1>3, CleanedUp DEF SlotInv, SlotsAccounted
  <2>. QED  BY <1>3, <2>1, <2>5, <2>6, <2>7, <2>8 DEF SlotInv, SlotsAccounted
<1>5. CASE ~(Cardinality(Live) + reserved < MaxHandles)
  <2>1. Goes(c, "end") /\ UNCHANGED reserved
    BY <1>5 DEF Reserves
  <2>2. call'[c].slot = None
    BY <1>1, <2>1 DEF Goes, Record
  <2>3. \A u \in Call :
           /\ call'[u].slot = call[u].slot
           /\ call'[u].at \in {"serve", "mint"} /\ call[u].slot = generation
                 => call[u].at \in {"serve", "mint"}
           /\ call'[u].at \in {"serve", "mint", "end"} \/ call[u].slot = None
    BY <1>1, <1>2, <1>3, <2>2 DEF SlotInv
  <2>4. UNCHANGED <<reserved, generation>> /\ handles' \subseteq handles
    BY <1>3, <2>1, CleanedUp
  <2>. QED  BY <1>3, <2>3, <2>4, SameSlots
<1>. QED  BY <1>4, <1>5

\* Who mints has its slot taken by its handle, or finds the table cleared.
LEMMA MintsSlots == \A c \in Call : TypeOK /\ SlotInv /\ MintHandle(c) => SlotInv'
<1>. SUFFICES ASSUME TypeOK, SlotInv, NEW c \in Call, MintHandle(c) PROVE SlotInv'
  OBVIOUS
<1>. DEFINE new == [id |-> minted + 1, kind |-> Mints(call[c].tool), gen |-> call[c].slot]
<1>1. call[c].at = "mint" /\ call \in [Call -> Record] /\ call[c] \in Record
  BY DEF MintHandle, At, TypeOK
<1>2. UNCHANGED <<reserved, generation>> /\ Len(tombstones') <= MaxTombstones
  BY CleanedUp DEF MintHandle
<1>3. CASE StillOurs(c) /\ handles' = Live \cup {new}
           /\ call' = [call EXCEPT ![c].at = "end", ![c].gives = minted + 1]
  <2>1. call' = [call EXCEPT ![c] = [[@ EXCEPT !.at = "end"] EXCEPT !.gives = minted + 1]]
    BY <1>1, <1>3
  <2>2. call'[c].at = "end" /\ call'[c].slot = call[c].slot
    BY <1>1, <2>1 DEF Record
  <2>3. \A u \in Call \ {c} : call'[u] = call[u]
    BY <1>1, <2>1
  <2>4. Holders' = Holders
    BY <1>2, <2>2, <2>3 DEF Holders
  <2>5. Pending' = Pending \ {c} /\ c \in Pending
    BY <1>1, <1>3, <2>2, <2>3, <2>4 DEF Pending, Holders, StillOurs
  <2>6. Cardinality(Pending') = Cardinality(Pending) - 1
    BY <2>5, Counts, FS_RemoveElement
  <2>7. /\ Cardinality(handles') <= Cardinality(Live) + 1
        /\ Cardinality(handles') \in Nat
    <3>1. CASE new \in Live
      <4>1. handles' = Live
        BY <1>3, <3>1
      <4>. QED  BY <4>1, CleanedUp
    <3>2. CASE new \notin Live
      <4>1. Cardinality(Live \cup {new}) = Cardinality(Live) + 1
        BY <3>2, CleanedUp, FS_AddElement
      <4>. QED  BY <1>3, <4>1, CleanedUp
    <3>. QED  BY <3>1, <3>2
  <2>8. Cardinality(handles') + Cardinality(Pending') <= MaxHandles
    BY <2>6, <2>7, Counts, CleanedUp, CapacityAssumption DEF SlotInv, SlotsAccounted
  <2>9. \A h \in handles' : h.gen = generation'
    BY <1>2, <1>3, CleanedUp DEF SlotInv, SlotsAccounted, StillOurs
  <2>10. \A u \in Call : call'[u].at \notin {"serve", "mint", "end"} => call'[u].slot = None
    BY <2>2, <2>3 DEF SlotInv
  <2>. QED  BY <1>2, <2>4, <2>8, <2>9, <2>10 DEF SlotInv, SlotsAccounted
<1>4. CASE handles' = Live /\ Goes(c, "end")
  <2>1. call'[c].at = "end" /\ call'[c].slot = call[c].slot
    BY <1>1, <1>4 DEF Goes, Record
  <2>2. \A u \in Call \ {c} : call'[u] = call[u]
    BY <1>1, <1>4 DEF Goes
  <2>3. \A u \in Call :
           /\ call'[u].slot = call[u].slot
           /\ call'[u].at \in {"serve", "mint"} /\ call[u].slot = generation
                 => call[u].at \in {"serve", "mint"}
           /\ call'[u].at \in {"serve", "mint", "end"} \/ call[u].slot = None
    BY <2>1, <2>2 DEF SlotInv
  <2>4. handles' \subseteq handles
    BY <1>4, CleanedUp
  <2>. QED  BY <1>2, <2>3, <2>4, SameSlots
<1>. QED  BY <1>3, <1>4 DEF MintHandle

\* Who is done gives back what it reserved in the present table, and no more.
LEMMA EndsSlots == \A c \in Call : TypeOK /\ SlotInv /\ Ends(c) => SlotInv'
<1>. SUFFICES ASSUME TypeOK, SlotInv, NEW c \in Call, Ends(c) PROVE SlotInv'
  OBVIOUS
<1>1. call[c].at = "end" /\ call \in [Call -> Record]
  BY DEF Ends, At, TypeOK
<1>2. /\ UNCHANGED <<handles, tombstones, generation>> /\ None # generation
      /\ \A u \in Call \ {c} : call'[u] = call[u]
  BY <1>1, CapacityAssumption DEF Ends, TypeOK
<1>3. call'[c].at = "done" /\ call'[c].slot = None
  BY <1>1 DEF Ends, NoCall
<1>4. Holders' = Holders \ {c}
  BY <1>2, <1>3 DEF Holders
<1>5. Pending' = Pending
  BY <1>1, <1>2, <1>3, <1>4 DEF Pending, Holders
<1>6. reserved' = Cardinality(Holders')
  <2>1. CASE call[c].slot = generation
    <3>1. c \in Holders
      BY <2>1 DEF Holders
    <3>2. Cardinality(Holders') = Cardinality(Holders) - 1
      BY <1>4, <3>1, Counts, FS_RemoveElement
    <3>3. Cardinality(Holders) # 0
      BY <3>1, Counts, FS_EmptySet
    <3>. QED  BY <2>1, <3>2, <3>3, Counts DEF Ends, GivesBack, SlotInv, SlotsAccounted
  <2>2. CASE call[c].slot # generation
    BY <1>4, <2>2 DEF Holders, Ends, GivesBack, SlotInv, SlotsAccounted
  <2>. QED  BY <2>1, <2>2
<1>7. \A u \in Call : call'[u].at \notin {"serve", "mint", "end"} => call'[u].slot = None
  BY <1>2, <1>3 DEF SlotInv
<1>. QED  BY <1>2, <1>5, <1>6, <1>7 DEF SlotInv, SlotsAccounted

\* Every step keeps the account.
LEMMA SlotNext == TypeOK /\ WorkInv /\ SlotInv /\ [Next]_vars => SlotInv'
<1>. SUFFICES ASSUME TypeOK, WorkInv, SlotInv, [Next]_vars PROVE SlotInv'
  OBVIOUS
<1>0. call \in [Call -> Record]
  BY DEF TypeOK
<1>1. ASSUME NEW c \in Call, NEW tool \in Tools, NEW h \in 1..minted \cup {None},
             Arrives(c, tool, h)
      PROVE  SlotInv'
  <2>1. \A u \in Call \ {c} : call'[u] = call[u]
    BY <1>0, <1>1 DEF Arrives, Goes
  <2>2. call'[c].at \notin {"serve", "mint"} /\ call'[c].slot = call[c].slot
    <3>1. CASE closed
      BY <1>0, <1>1, <3>1 DEF Arrives, Goes, Record
    <3>2. CASE ~closed
      <4>. DEFINE r == [call[c] EXCEPT !.at = "take", !.tool = tool, !.handle = h,
                                       !.on = connection]
      <4>1. call' = [call EXCEPT ![c] = r]
        BY <1>1, <3>2 DEF Arrives
      <4>2. r.at = "take" /\ r.slot = call[c].slot
        BY <1>0 DEF Record
      <4>. HIDE DEF r
      <4>. QED  BY <1>0, <4>1, <4>2
    <3>. QED  BY <3>1, <3>2
  <2>3. UNCHANGED <<reserved, generation, handles, tombstones>> /\ call[c].slot = None
    BY <1>1 DEF Arrives, At, table, SlotInv
  <2>4. \A u \in Call :
           /\ call'[u].slot = call[u].slot
           /\ call'[u].at \in {"serve", "mint"} /\ call[u].slot = generation
                 => call[u].at \in {"serve", "mint"}
           /\ call'[u].at \in {"serve", "mint", "end"} \/ call[u].slot = None
    BY <2>1, <2>2, <2>3 DEF SlotInv
  <2>. QED  BY <2>3, <2>4, SameSlots DEF SlotInv, SlotsAccounted
<1>2. ASSUME NEW c \in Call, Serves(c) PROVE SlotInv'
  <2>1. \A u \in Call \ {c} : call'[u] = call[u]
    BY <1>0, <1>2 DEF Serves, Goes
  <2>2. /\ call[c].at = "serve" /\ call'[c].at \in {"mint", "end"}
        /\ call'[c].slot = call[c].slot
    BY <1>0, <1>2 DEF Serves, Goes, At, Record
  <2>3. UNCHANGED <<reserved, generation, handles, tombstones>>
    BY <1>2 DEF Serves, table
  <2>4. \A u \in Call :
           /\ call'[u].slot = call[u].slot
           /\ call'[u].at \in {"serve", "mint"} /\ call[u].slot = generation
                 => call[u].at \in {"serve", "mint"}
           /\ call'[u].at \in {"serve", "mint", "end"} \/ call[u].slot = None
    BY <2>1, <2>2 DEF SlotInv
  <2>. QED  BY <2>3, <2>4, SameSlots DEF SlotInv, SlotsAccounted
<1>3. ASSUME NEW c \in Call, TakesHandle(c) \/ Reserves(c) \/ MintHandle(c) \/ Ends(c)
      PROVE  SlotInv'
  BY <1>3, TakesSlots, ReservesSlots, MintsSlots, EndsSlots
<1>4. ASSUME Disconnects \/ CloseClears PROVE SlotInv'
  BY <1>4, ClearedSlots DEF Disconnects, CloseClears
<1>5. ASSUME Connects \/ CloseBegins \/ CloseEnds \/ (\E h \in 1..minted : Ages(h))
             \/ UNCHANGED vars
      PROVE  SlotInv'
  <2>1. UNCHANGED <<reserved, generation, handles, tombstones, call>>
    BY <1>5 DEF Connects, CloseBegins, CloseEnds, Ages, vars, table
  <2>. QED  BY <2>1, SameSlots DEF SlotInv, SlotsAccounted
<1>. QED  BY <1>1, <1>2, <1>3, <1>4, <1>5 DEF Next, Steps
-----------------------------------------------------------------------------
(* To whom a handle is lent.                                                *)

\* A handle that lives was told to nobody but the planner that is connected, so a call
\* that names it was made by that planner.  A call keeps what it names until it is done;
\* past the table's check it names only what its own planner was told.
OwnInv ==
    /\ \A x \in handles, k \in 1..connection :
          <<x.id, k>> \in told => k = connection /\ connected
    /\ \A c \in Call : call[c].handle # None =>
          \/ <<call[c].handle, call[c].on>> \in told
          \/ call[c].at = "take" /\ \A x \in handles : x.id # call[c].handle
          \/ call[c].at = "end"
    /\ \A c \in Call : call[c].at \in {"idle", "done"} => call[c].handle = None

\* Steps that leave calls and connection alone and add no handle lend nothing.
LEMMA OwnStays ==
    ASSUME TypeOK, OwnInv, UNCHANGED <<call, told, connection, connected>>,
           handles' \subseteq handles
    PROVE  OwnInv'
BY DEF OwnInv

\* Every step lends handles to the connected planner only.
LEMMA OwnNext == TypeOK /\ WorkInv /\ OwnInv /\ [Next]_vars => OwnInv'
<1>. SUFFICES ASSUME TypeOK, WorkInv, OwnInv, [Next]_vars PROVE OwnInv'
  OBVIOUS
<1>0. call \in [Call -> Record] /\ told \subseteq (1..minted) \X (1..connection)
  BY DEF TypeOK
<1>1. ASSUME NEW c \in Call, NEW tool \in Tools, NEW h \in 1..minted \cup {None},
             Arrives(c, tool, h)
      PROVE  OwnInv'
  <2>1. \A u \in Call \ {c} : call'[u] = call[u]
    BY <1>0, <1>1 DEF Arrives, Goes
  <2>2. UNCHANGED <<handles, told, connection, connected>> /\ connected
    BY <1>1 DEF Arrives, table, line
  <2>3. CASE closed
    <3>1. call'[c].handle = None
      BY <1>0, <1>1, <2>3 DEF Arrives, Goes, At, OwnInv, Record
    <3>. QED  BY <2>1, <2>2, <3>1 DEF OwnInv
  <2>4. CASE ~closed
    <3>. DEFINE r == [call[c] EXCEPT !.at = "take", !.tool = tool, !.handle = h, !.on = connection]
    <3>1. call' = [call EXCEPT ![c] = r]
      BY <1>1, <2>4 DEF Arrives
    <3>2. r.at = "take" /\ r.handle = h /\ r.on = connection
      BY <1>0 DEF Record
    <3>. HIDE DEF r
    <3>3. call'[c] = r
      BY <1>0, <3>1
    <3>4. ASSUME h # None, NEW x \in handles, x.id = h PROVE <<h, connection>> \in told
      <4>1. PICK it \in told : it[1] = h
        BY <1>1, <3>4 DEF Arrives
      <4>2. it = <<x.id, it[2]>> /\ it[2] \in 1..connection
        BY <1>0, <3>4, <4>1
      <4>3. it[2] = connection
        BY <4>2 DEF OwnInv
      <4>. QED  BY <3>4, <4>2, <4>3
    <3>. QED  BY <2>1, <2>2, <3>2, <3>3, <3>4 DEF OwnInv
  <2>. QED  BY <2>3, <2>4
<1>2. ASSUME NEW c \in Call, TakesHandle(c) PROVE OwnInv'
  <2>1. handles' \subseteq handles
    BY <1>2 DEF TakesHandle, table, Live, AfterTaking
  <2>2. \/ call[c].handle = None
        \/ \E x \in handles : x.id = call[c].handle
        \/ call'[c].at = "end"
    <3>1. Goes(c, "end") => call'[c].at = "end"
      BY <1>0 DEF Goes, Record
    <3>. QED  BY <1>2, <3>1 DEF TakesHandle, Known, Live
  <2>3. <<call[c].handle, call[c].on>> \in told \/ call[c].handle = None \/ call'[c].at = "end"
    BY <1>2, <2>2 DEF OwnInv, TakesHandle, At
  <2>4. /\ call'[c].at \in Busy /\ call'[c].handle = call[c].handle /\ call'[c].on = call[c].on
        /\ \A u \in Call \ {c} : call'[u] = call[u]
        /\ UNCHANGED <<told, connection, connected>>
    BY <1>2, ServedStep
  <2>. QED  BY <2>1, <2>3, <2>4 DEF OwnInv, Busy
<1>3. ASSUME NEW c \in Call, Reserves(c) \/ Serves(c) \/ MintHandle(c) PROVE OwnInv'
  <2>1. /\ call'[c].at \in Busy /\ call'[c].handle = call[c].handle /\ call'[c].on = call[c].on
        /\ \A u \in Call \ {c} : call'[u] = call[u]
        /\ UNCHANGED <<told, connection, connected>>
    BY <1>3, ServedStep
  <2>2. call[c].at \in {"reserve", "serve", "mint"}
    BY <1>3 DEF Reserves, Serves, MintHandle, At
  <2>3. \A x \in handles' : x \in handles \/ x.id = minted + 1
    BY <1>3 DEF Reserves, Serves, MintHandle, Live, table
  <2>4. /\ \A it \in told : it[1] # minted + 1
        /\ \A u \in Call : call[u].handle # None => call[u].handle # minted + 1
    <3>1. \A n \in 1..minted : n # minted + 1
      BY DEF TypeOK
    <3>2. \A u \in Call : call[u].handle \in 1..minted \cup {None}
      BY <1>0 DEF Record
    <3>. QED  BY <1>0, <3>1, <3>2
  <2>5. \A x \in handles', k \in 1..connection' :
           <<x.id, k>> \in told' => k = connection' /\ connected'
    <3>1. \A x \in handles', k \in 1..connection : <<x.id, k>> \in told => x \in handles
      BY <2>3, <2>4
    <3>. QED  BY <2>1, <3>1 DEF OwnInv
  <2>. QED  BY <2>1, <2>2, <2>3, <2>4, <2>5 DEF OwnInv, Busy
<1>4. ASSUME NEW c \in Call, Ends(c) PROVE OwnInv'
  <2>1. /\ call'[c].handle = None /\ \A u \in Call \ {c} : call'[u] = call[u]
        /\ UNCHANGED <<handles, connection, connected>>
    BY <1>0, <1>4 DEF Ends, NoCall, line
  <2>2. /\ told \subseteq told'
        /\ \A it \in told' : it \in told \/ (connected /\ it[2] = connection)
    <3>1. \/ told' = told
          \/ connected /\ told' = told \cup {<<call[c].gives, connection>>}
      BY <1>4, Zenon DEF Ends
    <3>2. <<call[c].gives, connection>>[2] = connection
      OBVIOUS
    <3>3. CASE told' = told
      BY <3>3
    <3>4. CASE connected /\ told' = told \cup {<<call[c].gives, connection>>}
      <4>1. \A it \in told' : it \in told \/ it = <<call[c].gives, connection>>
        BY <3>4
      <4>. QED  BY <3>2, <3>4, <4>1
    <3>. QED  BY <3>1, <3>3, <3>4
  <2>. QED  BY <2>1, <2>2 DEF OwnInv
<1>5. ASSUME Disconnects PROVE OwnInv'
  <2>1. handles' = {} /\ UNCHANGED <<call, told, connection>>
    BY <1>5 DEF Disconnects, Clears
  <2>. QED  BY <2>1 DEF OwnInv
<1>6. ASSUME Connects PROVE OwnInv'
  <2>1. UNCHANGED <<call, told, handles>> /\ ~connected
    BY <1>6 DEF Connects, table
  <2>2. \A x \in handles, k \in 1..connection' : <<x.id, k>> \notin told
    BY <1>0, <2>1 DEF OwnInv
  <2>. QED  BY <2>1, <2>2 DEF OwnInv
<1>7. ASSUME CloseBegins \/ CloseClears \/ CloseEnds \/ (\E h \in 1..minted : Ages(h))
             \/ UNCHANGED vars
      PROVE  OwnInv'
  <2>1. UNCHANGED <<call, told, connection, connected>> /\ handles' \subseteq handles
    BY <1>7 DEF CloseBegins, CloseClears, CloseEnds, Clears, Ages, vars, table, line
  <2>. QED  BY <2>1, OwnStays
<1>. QED  BY <1>1, <1>2, <1>3, <1>4, <1>5, <1>6, <1>7 DEF Next, Steps

\* The table never holds more handles than it may and what is reserved in it is given
\* back; and no handle gets a call of another connection past the table's check.
THEOREM HandlesAreKept == Spec => []HandlesKept
<1>1. Init => OwnInv
  BY DEF Init, OwnInv, NoCall
<1>2. TypeOK /\ WorkInv /\ SlotInv /\ OwnInv /\ [Next]_vars => (SlotInv /\ OwnInv)'
  BY SlotNext, OwnNext
<1>3. SlotInv /\ OwnInv => HandlesKept
  BY DEF SlotInv, OwnInv, HandlesKept, NothingCarriesOver
<1>. QED  BY <1>1, <1>2, <1>3, SlotInit, TypeCorrect, PTL DEF Spec

(* The desktop.                                                             *)

Acting == {"act", "register", "closing", "verify"}
Stages == Acting \cup {"idle", "start", "not_started", "next", "succeeded", "failed",
                       "finally", "stopping", "returned", "raised"}

Transactions ==
    [pc : Stages, stops : BOOLEAN, steps : Seq(BOOLEAN), before : SUBSET Handle,
     pid : Pid \cup {None}, handle : Handle \cup {None}, left : SUBSET Handle]
Windows ==
    [app : D!Apps, pid : Pid \cup {User}, vis : BOOLEAN, going : BOOLEAN,
     old : BOOLEAN, ours : BOOLEAN]

DesktopTypes ==
    /\ win \in [Handle -> {None} \cup Windows]
    /\ desk = [state |-> desk.state, owned |-> desk.owned, pids |-> desk.pids,
               errors |-> desk.errors, lock |-> desk.lock]
    /\ DOMAIN desk.owned \subseteq Handle
    /\ run \in [Caller -> Transactions]

\* Who acts, or stops the session, has the lock, and the session is as that asks for.
LockInv ==
    \A c \in Caller :
       /\ run[c].pc \in Acting => desk.lock = c /\ desk.state = "active"
       /\ run[c].pc = "stopping" => desk.lock = c /\ desk.state = "stopping"

\* What has been in view since it was adopted is owned; who stops the session has every
\* owned window before it unless one did not close.
OwnedInv ==
    /\ \A h \in Handle : win[h] # None /\ win[h].ours => win[h].vis /\ h \in DOMAIN desk.owned
    /\ desk.state = "stopped" => DOMAIN desk.owned = {}
    /\ \A c \in Caller :
          run[c].pc = "stopping" => desk.errors \/ DOMAIN desk.owned \subseteq run[c].left

Old(h) == win[h] # None /\ win[h].old

\* What has been in view since the session started is not owned, nor stopped with it; and
\* it was there before whatever an operation looks for.
SparedInv ==
    /\ \A h \in Handle : Old(h) => win[h].vis /\ h \notin DOMAIN desk.owned
    /\ \A c \in Caller, h \in Handle :
          /\ run[c].pc = "stopping" /\ h \in run[c].left => ~Old(h)
          /\ run[c].pc = "register" /\ Old(h) => h \in run[c].before

DesktopInv == DesktopTypes /\ LockInv /\ OwnedInv /\ SparedInv

LEMMA DesktopInit == D!Init => DesktopInv
<1>. SUFFICES ASSUME D!Init PROVE DesktopInv
  OBVIOUS
<1>. USE DEF D!Init, D!Window
<1>1. DesktopTypes
  <2>1. D!Window("notepad", User) \in Windows
    BY DEF Windows, D!Apps
  <2>2. [pc |-> "idle", stops |-> FALSE, steps |-> <<>>, before |-> {}, pid |-> None,
         handle |-> None, left |-> {}] \in Transactions
    BY DEF Transactions, Stages
  <2>3. win \in [Handle -> {None} \cup Windows]
    BY <2>1
  <2>. QED  BY <2>2, <2>3 DEF DesktopTypes
<1>2. LockInv /\ OwnedInv /\ SparedInv
  <2>1. \A h \in Handle : win[h] # None => ~win[h].ours /\ ~win[h].old
    OBVIOUS
  <2>. QED  BY <2>1 DEF LockInv, OwnedInv, SparedInv, Old, Acting
<1>. QED  BY <1>1, <1>2 DEF DesktopInv

\* One caller's transaction goes on.
Advances(c) ==
    /\ run' \in [Caller -> Transactions]
    /\ \A u \in Caller \ {c} : run'[u] = run[u]

\* While nobody holds the lock nobody acts or stops the session.
LEMMA NobodyHolds ==
    ASSUME DesktopInv, desk.lock = None, NEW c \in Caller
    PROVE  run[c].pc \notin Acting \cup {"stopping"}
BY SurfacesInstance DEF DesktopInv, LockInv, D!DesktopAssumption

LEMMA OneHolds ==
    ASSUME DesktopInv, NEW c \in Caller, run[c].pc \in Acting \cup {"stopping"},
           NEW u \in Caller \ {c}
    PROVE  run[u].pc \notin Acting \cup {"stopping"}
BY DEF DesktopInv, LockInv

\* A step of the desktop leaves the callers and the session alone, and no window is old
\* or adopted that was not.
LEMMA DeskActsNext ==
    ASSUME DesktopInv, D!DeskActs
    PROVE  DesktopInv' /\ D!SparesStep
<1>1. PICK h \in Handle :
         \/ \E app \in D!Apps, pid \in Pid \cup {User} : D!Opens(h, app, pid)
         \/ D!Vanishes(h)
         \/ D!Turns(h)
  BY DEF D!DeskActs
<1>0. DesktopTypes
  BY DEF DesktopInv
<1>2. /\ win' \in [Handle -> {None} \cup Windows]
      /\ \A g \in Handle \ {h} : win'[g] = win[g]
      /\ win'[h] # None => ~win'[h].old /\ ~win'[h].ours
      /\ UNCHANGED <<desk, run>>
      /\ D!SparesStep
  <2>1. ASSUME NEW app \in D!Apps, NEW pid \in Pid \cup {User}, D!Opens(h, app, pid)
        PROVE  <1>2
    <3>1. /\ D!Window(app, pid) \in Windows
          /\ ~D!Window(app, pid).old /\ ~D!Window(app, pid).ours
      BY DEF Windows, D!Window
    <3>2. win[h] = None /\ win' = [win EXCEPT ![h] = D!Window(app, pid)] /\ UNCHANGED <<desk, run>>
      BY <2>1 DEF D!Opens, D!IsWindow
    <3>. QED  BY <1>0, <3>1, <3>2 DEF DesktopTypes, D!SparesStep
  <2>2. CASE D!Vanishes(h)
    BY <1>0, <2>2 DEF DesktopTypes, D!Vanishes, D!SparesStep
  <2>3. CASE D!Turns(h)
    <3>. DEFINE w == [win[h] EXCEPT !.vis = ~@, !.old = FALSE, !.ours = FALSE]
    <3>1. win[h] \in Windows /\ win' = [win EXCEPT ![h] = w] /\ UNCHANGED <<desk, run>>
      BY <1>0, <2>3 DEF DesktopTypes, D!Turns, D!IsWindow
    <3>2. w \in Windows /\ ~w.old /\ ~w.ours /\ w.going = win[h].going
      BY <3>1 DEF Windows
    <3>. HIDE DEF w
    <3>. QED  BY <1>0, <3>1, <3>2 DEF DesktopTypes, D!SparesStep
  <2>. QED  BY <1>1, <2>1, <2>2, <2>3
<1>3. DesktopTypes'
  BY <1>0, <1>2 DEF DesktopTypes
<1>4. (LockInv /\ OwnedInv /\ SparedInv)'
  BY <1>2 DEF DesktopInv, LockInv, OwnedInv, SparedInv, Old
<1>. QED  BY <1>2, <1>3, <1>4 DEF DesktopInv

\* A caller whose transaction goes on somewhere else, with the lock given back if it had it.
LEMMA OutsideNext ==
    ASSUME DesktopInv, NEW c \in Caller, Advances(c),
           run'[c].pc \notin Acting \cup {"stopping"}, UNCHANGED win,
           \/ desk' = desk
           \/ run[c].pc \in Acting /\ desk' = [desk EXCEPT !.lock = None]
    PROVE  DesktopInv' /\ D!SparesStep
<1>0. DesktopTypes
  BY DEF DesktopInv
<1>1. /\ desk' = [state |-> desk'.state, owned |-> desk'.owned, pids |-> desk'.pids,
                  errors |-> desk'.errors, lock |-> desk'.lock]
      /\ desk'.owned = desk.owned /\ desk'.state = desk.state /\ desk'.errors = desk.errors
      /\ desk'.lock = desk.lock \/ run[c].pc \in Acting
  BY <1>0 DEF DesktopTypes
<1>2. DesktopTypes'
  BY <1>0, <1>1 DEF DesktopTypes, Advances
<1>3. \A u \in Caller \ {c} : run[c].pc \in Acting => run[u].pc \notin Acting \cup {"stopping"}
  BY OneHolds
<1>4. LockInv'
  BY <1>1, <1>3 DEF DesktopInv, LockInv, Advances
<1>5. (OwnedInv /\ SparedInv)'
  <2>1. run'[c].pc # "stopping" /\ run'[c].pc # "register"
    BY DEF Acting
  <2>. QED  BY <1>1, <2>1 DEF DesktopInv, OwnedInv, SparedInv, Advances, Old
<1>. QED  BY <1>2, <1>4, <1>5 DEF DesktopInv, D!SparesStep

\* What one field of a transaction becomes.
LEMMA GoesTyped ==
    ASSUME DesktopTypes, NEW c \in Caller, NEW pc \in Stages, D!Goes(c, pc)
    PROVE  /\ Advances(c)
           /\ run'[c].pc = pc /\ run'[c].left = run[c].left
<1>. DEFINE r == [run[c] EXCEPT !.pc = pc]
<1>1. run[c] \in Transactions /\ run' = [run EXCEPT ![c] = r]
  BY DEF DesktopTypes, D!Goes
<1>2. r \in Transactions /\ r.pc = pc /\ r.left = run[c].left
  BY <1>1 DEF Transactions
<1>. HIDE DEF r
<1>. QED  BY <1>1, <1>2 DEF DesktopTypes, Advances

\* The steps of a caller outside of the lock.
LEMMA OutsideSteps ==
    ASSUME DesktopInv, NEW c \in Caller,
           \/ \E stops \in BOOLEAN : D!Calls(c, stops)
           \/ \E ok \in BOOLEAN : D!Verifies(c, ok)
           \/ \E raised \in BOOLEAN : D!Errs(c, raised)
           \/ \E shot \in BOOLEAN : D!Records(c, shot)
    PROVE  DesktopInv' /\ D!SparesStep
<1>0. DesktopTypes /\ run[c] \in Transactions
  BY DEF DesktopInv, DesktopTypes
<1>1. ASSUME NEW stops \in BOOLEAN, D!Calls(c, stops) PROVE DesktopInv' /\ D!SparesStep
  <2>. DEFINE pc == IF D!ValidPlan(Plan[c]) THEN "start" ELSE "not_started"
              r == [run[c] EXCEPT !.stops = stops, !.pc = pc]
  <2>1. run' = [run EXCEPT ![c] = r] /\ UNCHANGED <<win, desk>>
    BY <1>0, <1>1 DEF DesktopTypes, D!Calls
  <2>2. pc \in Stages \ (Acting \cup {"stopping"})
    BY DEF Stages, Acting
  <2>. HIDE DEF pc
  <2>3. r \in Transactions /\ r.pc = pc
    BY <1>0, <2>2 DEF Transactions
  <2>. HIDE DEF r
  <2>4. Advances(c) /\ run'[c].pc = pc
    BY <1>0, <2>1, <2>3 DEF DesktopTypes, Advances
  <2>. QED  BY <2>1, <2>2, <2>4, OutsideNext
<1>2. ASSUME NEW ok \in BOOLEAN, D!Verifies(c, ok) PROVE DesktopInv' /\ D!SparesStep
  <2>1. /\ run[c].pc \in Acting
        /\ \E pc \in {"succeeded", "failed"} : D!Goes(c, pc)
        /\ UNCHANGED win /\ desk' = [desk EXCEPT !.lock = None]
    BY <1>2 DEF D!Verifies, D!At, Acting
  <2>2. PICK pc \in {"succeeded", "failed"} : D!Goes(c, pc)
    BY <2>1
  <2>3. pc \in Stages /\ pc \notin Acting \cup {"stopping"}
    BY DEF Stages, Acting
  <2>4. Advances(c) /\ run'[c].pc = pc
    BY <1>0, <2>2, <2>3, GoesTyped
  <2>. QED  BY <2>1, <2>3, <2>4, OutsideNext
<1>3. ASSUME NEW raised \in BOOLEAN, D!Errs(c, raised) PROVE DesktopInv' /\ D!SparesStep
  <2>1. /\ run[c].pc \in Acting
        /\ \E pc \in {"finally", "failed"} : D!Goes(c, pc)
        /\ UNCHANGED win /\ desk' = [desk EXCEPT !.lock = None]
    BY <1>3 DEF D!Errs, D!At, Acting
  <2>2. PICK pc \in {"finally", "failed"} : D!Goes(c, pc)
    BY <2>1
  <2>3. pc \in Stages /\ pc \notin Acting \cup {"stopping"}
    BY DEF Stages, Acting
  <2>4. Advances(c) /\ run'[c].pc = pc
    BY <1>0, <2>2, <2>3, GoesTyped
  <2>. QED  BY <2>1, <2>3, <2>4, OutsideNext
<1>4. ASSUME NEW shot \in BOOLEAN, D!Records(c, shot) PROVE DesktopInv' /\ D!SparesStep
  <2>. DEFINE verified == run[c].pc = "succeeded" /\ (D!Op(c).shot => shot)
              steps == Append(run[c].steps, verified)
              pc == IF verified /\ Len(steps) < Len(Plan[c]) THEN "next" ELSE "finally"
              r == [run[c] EXCEPT !.steps = steps, !.pc = pc, !.before = {}, !.pid = None,
                                  !.handle = None]
  <2>1. run' = [run EXCEPT ![c] = r] /\ UNCHANGED <<win, desk>>
    BY <1>0, <1>4 DEF DesktopTypes, D!Records, D!At
  <2>2. pc \in Stages \ (Acting \cup {"stopping"})
    BY DEF Stages, Acting
  <2>. HIDE DEF pc
  <2>5. verified \in BOOLEAN
    OBVIOUS
  <2>. HIDE DEF verified
  <2>6. steps \in Seq(BOOLEAN)
    BY <1>0, <2>5 DEF Transactions
  <2>. HIDE DEF steps
  <2>3. r \in Transactions /\ r.pc = pc
    BY <1>0, <2>2, <2>6 DEF Transactions
  <2>. HIDE DEF r
  <2>4. Advances(c) /\ run'[c].pc = pc
    BY <1>0, <2>1, <2>3 DEF DesktopTypes, Advances
  <2>. QED  BY <2>1, <2>2, <2>4, OutsideNext
<1>. QED  BY <1>1, <1>2, <1>3, <1>4

\* A transaction begins: what is in view and not owned becomes old, while nobody acts.
LEMMA StartsNext ==
    ASSUME DesktopInv, NEW c \in Caller, D!Starts(c)
    PROVE  DesktopInv' /\ D!SparesStep
<1>0. DesktopTypes
  BY DEF DesktopInv
<1>1. CASE ~D!Free
  <2>1. D!Goes(c, "finally") /\ UNCHANGED <<win, desk>>
    BY <1>1 DEF D!Starts
  <2>2. "finally" \in Stages \ (Acting \cup {"stopping"})
    BY DEF Stages, Acting
  <2>3. Advances(c) /\ run'[c].pc = "finally"
    BY <1>0, <2>1, <2>2, GoesTyped
  <2>. QED  BY <2>1, <2>2, <2>3, OutsideNext
<1>2. CASE D!Free
  <2>. DEFINE d == [desk EXCEPT !.state = "active"]
              w(h) == IF h \in D!Visible \ DOMAIN desk.owned THEN [win[h] EXCEPT !.old = TRUE]
                                                             ELSE win[h]
  <2>1. /\ D!Goes(c, "next") /\ desk' = d
        /\ win' = win \/ win' = [h \in Handle |-> w(h)]
    BY <1>2 DEF D!Starts
  <2>2. "next" \in Stages /\ "next" \notin Acting \cup {"stopping"}
    BY DEF Stages, Acting
  <2>3. Advances(c) /\ run'[c].pc = "next"
    BY <1>0, <2>1, <2>2, GoesTyped
  <2>4. /\ desk' = [state |-> desk'.state, owned |-> desk'.owned, pids |-> desk'.pids,
                    errors |-> desk'.errors, lock |-> desk'.lock]
        /\ desk'.owned = desk.owned /\ desk'.state = "active" /\ desk'.lock = desk.lock
    BY <1>0, <2>1 DEF DesktopTypes
  <2>5. ASSUME NEW h \in Handle
        PROVE  /\ win'[h] \in {None} \cup Windows
               /\ \/ win'[h] = win[h]
                  \/ /\ win[h] # None /\ win[h].vis /\ h \notin DOMAIN desk.owned
                     /\ win'[h].vis /\ win'[h].going = win[h].going
                     /\ win'[h].ours = win[h].ours
    <3>1. CASE win'[h] = win[h]
      BY <1>0, <3>1 DEF DesktopTypes
    <3>2. CASE win'[h] # win[h]
      <4>1. win' = [g \in Handle |-> w(g)]
        BY <2>1, <3>2
      <4>2. win'[h] = w(h)
        BY <4>1
      <4>3. h \in D!Visible /\ h \notin DOMAIN desk.owned /\ w(h) = [win[h] EXCEPT !.old = TRUE]
        BY <4>2, <3>2
      <4>4. win[h] \in Windows /\ win[h] # None /\ win[h].vis
        BY <1>0, <4>3 DEF DesktopTypes, D!Visible
      <4>5. [win[h] EXCEPT !.old = TRUE] \in Windows
        BY <4>4 DEF Windows
      <4>6. /\ [win[h] EXCEPT !.old = TRUE].vis = win[h].vis
            /\ [win[h] EXCEPT !.old = TRUE].going = win[h].going
            /\ [win[h] EXCEPT !.old = TRUE].ours = win[h].ours
        BY <4>4 DEF Windows
      <4>. QED  BY <4>2, <4>3, <4>4, <4>5, <4>6
    <3>. QED  BY <3>1, <3>2
  <2>6. DOMAIN win' = Handle /\ win' = [h \in Handle |-> win'[h]]
    BY <1>0, <2>1 DEF DesktopTypes
  <2>. HIDE DEF d, w
  <2>7. DesktopTypes'
    <3>1. win' \in [Handle -> {None} \cup Windows]
      BY <2>5, <2>6
    <3>. QED  BY <1>0, <2>3, <2>4, <3>1 DEF DesktopTypes, Advances
  <2>8. \A u \in Caller : run'[u].pc \notin Acting \cup {"stopping"}
    <3>1. desk.lock = None
      BY <1>2 DEF D!Free
    <3>. QED  BY <3>1, <2>2, <2>3, NobodyHolds DEF Advances
  <2>9. LockInv' /\ \A u \in Caller : run'[u].pc # "register" /\ run'[u].pc # "stopping"
    BY <2>8 DEF LockInv, Acting
  <2>10. OwnedInv'
    BY <2>4, <2>5, <2>9 DEF DesktopInv, OwnedInv
  <2>11. SparedInv'
    BY <2>4, <2>5, <2>9 DEF DesktopInv, SparedInv, Old
  <2>12. D!SparesStep
    BY <2>5 DEF D!SparesStep
  <2>. QED  BY <2>7, <2>9, <2>10, <2>11, <2>12 DEF DesktopInv
<1>. QED  BY <1>1, <1>2

\* An operation takes the lock of an active session.
LEMMA DispatchesNext ==
    ASSUME DesktopInv, NEW c \in Caller, D!Dispatches(c)
    PROVE  DesktopInv' /\ D!SparesStep
<1>0. DesktopTypes
  BY DEF DesktopInv
<1>1. CASE D!Goes(c, "finally") /\ UNCHANGED desk
  <2>1. "finally" \in Stages \ (Acting \cup {"stopping"})
    BY DEF Stages, Acting
  <2>2. Advances(c) /\ run'[c].pc = "finally"
    BY <1>0, <1>1, <2>1, GoesTyped
  <2>. QED  BY <1>1, <2>1, <2>2, OutsideNext DEF D!Dispatches
<1>2. CASE /\ desk.lock = None /\ desk.state = "active"
           /\ D!Goes(c, "act") /\ desk' = [desk EXCEPT !.lock = c]
  <2>1. Advances(c) /\ run'[c].pc = "act" /\ UNCHANGED win
    BY <1>0, <1>2, GoesTyped DEF D!Dispatches, Stages, Acting
  <2>2. /\ desk' = [state |-> desk'.state, owned |-> desk'.owned, pids |-> desk'.pids,
                    errors |-> desk'.errors, lock |-> desk'.lock]
        /\ desk'.owned = desk.owned /\ desk'.state = "active" /\ desk'.lock = c
    BY <1>0, <1>2 DEF DesktopTypes
  <2>3. \A u \in Caller : run[u].pc \notin Acting \cup {"stopping"}
    BY <1>2, NobodyHolds
  <2>4. DesktopTypes'
    BY <1>0, <2>1, <2>2 DEF DesktopTypes, Advances
  <2>5. LockInv'
    BY <2>1, <2>2, <2>3 DEF LockInv, Advances, Acting
  <2>6. (OwnedInv /\ SparedInv)'
    BY <2>1, <2>2, <2>3 DEF DesktopInv, OwnedInv, SparedInv, Old, Advances, Acting
  <2>. QED  BY <2>1, <2>4, <2>5, <2>6 DEF DesktopInv, D!SparesStep
<1>. QED  BY <1>1, <1>2 DEF D!Dispatches, D!Free

\* An operation goes on under the lock, maybe to look for a window from now on, maybe
\* having asked a window of the session to close.
LEMMA ActsNext ==
    ASSUME DesktopInv, NEW c \in Caller, Advances(c),
           run[c].pc = "act", run'[c].pc \in Acting,
           run'[c].pc = "register" => run'[c].before = D!Visible,
           desk' = desk \/ \E pids : desk' = [desk EXCEPT !.pids = pids],
           \/ UNCHANGED win
           \/ \E h \in DOMAIN desk.owned :
                 win[h] # None /\ win' = [win EXCEPT ![h].going = TRUE]
    PROVE  DesktopInv' /\ D!SparesStep
<1>0. DesktopTypes
  BY DEF DesktopInv
<1>1. /\ desk' = [state |-> desk'.state, owned |-> desk'.owned, pids |-> desk'.pids,
                  errors |-> desk'.errors, lock |-> desk'.lock]
      /\ desk'.owned = desk.owned /\ desk'.state = desk.state /\ desk'.lock = desk.lock
  BY <1>0 DEF DesktopTypes
<1>2. /\ win' \in [Handle -> {None} \cup Windows]
      /\ \A h \in Handle :
            win'[h] = win[h] \/ /\ h \in DOMAIN desk.owned /\ win[h] # None
                                /\ win'[h].vis = win[h].vis /\ win'[h].old = win[h].old
                                /\ win'[h].ours = win[h].ours
  <2>1. CASE UNCHANGED win
    BY <1>0, <2>1 DEF DesktopTypes
  <2>2. ASSUME NEW h \in DOMAIN desk.owned, win[h] # None,
               win' = [win EXCEPT ![h].going = TRUE]
        PROVE  <1>2
    <3>. DEFINE w == [win[h] EXCEPT !.going = TRUE]
    <3>1. h \in Handle /\ win[h] \in Windows /\ win' = [win EXCEPT ![h] = w]
      BY <1>0, <2>2 DEF DesktopTypes
    <3>2. w \in Windows /\ w.vis = win[h].vis /\ w.old = win[h].old /\ w.ours = win[h].ours
      BY <3>1 DEF Windows
    <3>. HIDE DEF w
    <3>. QED  BY <1>0, <2>2, <3>1, <3>2 DEF DesktopTypes
  <2>. QED  BY <2>1, <2>2
<1>3. DesktopTypes'
  BY <1>0, <1>1, <1>2 DEF DesktopTypes, Advances
<1>4. run[c].pc \in Acting /\ run'[c].pc # "stopping"
  BY DEF Acting
<1>5. LockInv'
  BY <1>1, <1>4 DEF DesktopInv, LockInv, Advances
<1>6. OwnedInv'
  BY <1>1, <1>2, <1>4 DEF DesktopInv, OwnedInv, Advances
<1>7. \A h \in Handle : Old(h)' => Old(h) /\ win'[h] = win[h]
  BY <1>2 DEF DesktopInv, SparedInv, Old
<1>8. SparedInv'
  <2>1. \A h \in Handle : Old(h)' => win'[h].vis /\ h \notin DOMAIN desk'.owned
    BY <1>1, <1>7 DEF DesktopInv, SparedInv
  <2>2. \A h \in Handle : Old(h) => h \in D!Visible
    BY DEF DesktopInv, SparedInv, Old, D!Visible
  <2>3. ASSUME NEW u \in Caller, NEW h \in Handle
        PROVE  /\ run'[u].pc = "stopping" /\ h \in run'[u].left => ~Old(h)'
               /\ run'[u].pc = "register" /\ Old(h)' => h \in run'[u].before
    <3>1. CASE u = c
      BY <1>4, <1>7, <2>2, <3>1
    <3>2. CASE u # c
      BY <1>7, <3>2 DEF DesktopInv, SparedInv, Advances
    <3>. QED  BY <3>1, <3>2
  <2>. QED  BY <2>1, <2>3 DEF SparedInv
<1>9. D!SparesStep
  BY <1>2 DEF DesktopInv, SparedInv, Old, D!SparesStep
<1>. QED  BY <1>3, <1>5, <1>6, <1>8, <1>9 DEF DesktopInv

\* A launch, and an operation on a window that was found.
LEMMA ActingSteps ==
    ASSUME DesktopInv, NEW c \in Caller,
           \/ \E pid \in Pid : D!Launches(c, pid)
           \/ \E h \in Handle : D!Resolves(c, h)
    PROVE  DesktopInv' /\ D!SparesStep
<1>0. DesktopTypes /\ run[c] \in Transactions /\ D!Visible \in SUBSET Handle
  BY DEF DesktopInv, DesktopTypes, D!Visible
<1>1. ASSUME NEW pid \in Pid, D!Launches(c, pid) PROVE DesktopInv' /\ D!SparesStep
  <2>. DEFINE r == [run[c] EXCEPT !.pc = "register", !.before = D!Visible, !.pid = pid]
  <2>1. /\ run[c].pc = "act" /\ run' = [run EXCEPT ![c] = r]
        /\ \E pids : desk' = [desk EXCEPT !.pids = pids]
        /\ UNCHANGED win
    BY <1>0, <1>1 DEF DesktopTypes, D!Launches, D!At
  <2>2. r \in Transactions /\ r.pc = "register" /\ r.before = D!Visible
    BY <1>0 DEF Transactions, Stages, Acting
  <2>. HIDE DEF r
  <2>3. Advances(c) /\ run'[c] = r
    BY <1>0, <2>1, <2>2 DEF DesktopTypes, Advances
  <2>4. run'[c].pc \in Acting
    BY <2>2, <2>3 DEF Acting
  <2>. QED  BY <2>1, <2>2, <2>3, <2>4, ActsNext
<1>2. ASSUME NEW h \in Handle, D!Resolves(c, h) PROVE DesktopInv' /\ D!SparesStep
  <2>1. run[c].pc = "act" /\ desk' = desk /\ win[h] # None
    BY <1>2 DEF D!Resolves, D!At, D!Matching, D!IsWindow
  <2>2. CASE /\ h \in DOMAIN desk.owned /\ win' = [win EXCEPT ![h].going = TRUE]
             /\ run' = [run EXCEPT ![c].pc = "closing", ![c].handle = h]
    <3>. DEFINE r == [run[c] EXCEPT !.pc = "closing", !.handle = h]
    <3>1. run' = [run EXCEPT ![c] = r]
      BY <1>0, <2>2 DEF DesktopTypes
    <3>2. r \in Transactions /\ r.pc = "closing"
      BY <1>0 DEF Transactions, Stages, Acting
    <3>. HIDE DEF r
    <3>3. Advances(c) /\ run'[c].pc = "closing"
      BY <1>0, <3>1, <3>2 DEF DesktopTypes, Advances
    <3>4. run'[c].pc \in Acting /\ run'[c].pc # "register"
      BY <3>3 DEF Acting
    <3>. QED  BY <2>1, <2>2, <3>3, <3>4, ActsNext
  <2>3. CASE /\ UNCHANGED win
             /\ run' = [run EXCEPT ![c].pc = "register", ![c].before = D!Visible,
                                   ![c].pid = None, ![c].handle = h]
    <3>. DEFINE r == [run[c] EXCEPT !.pc = "register", !.before = D!Visible, !.pid = None,
                                    !.handle = h]
    <3>1. run' = [run EXCEPT ![c] = r]
      BY <1>0, <2>3 DEF DesktopTypes
    <3>2. r \in Transactions /\ r.pc = "register" /\ r.before = D!Visible
      BY <1>0 DEF Transactions, Stages, Acting
    <3>. HIDE DEF r
    <3>3. Advances(c) /\ run'[c] = r
      BY <1>0, <3>1, <3>2 DEF DesktopTypes, Advances
    <3>4. run'[c].pc \in Acting
      BY <3>2, <3>3 DEF Acting
    <3>. QED  BY <2>1, <2>3, <3>2, <3>3, <3>4, ActsNext
  <2>4. CASE UNCHANGED win /\ run' = [run EXCEPT ![c].pc = "verify", ![c].handle = h]
    <3>. DEFINE r == [run[c] EXCEPT !.pc = "verify", !.handle = h]
    <3>1. run' = [run EXCEPT ![c] = r]
      BY <1>0, <2>4 DEF DesktopTypes
    <3>2. r \in Transactions /\ r.pc = "verify"
      BY <1>0 DEF Transactions, Stages, Acting
    <3>. HIDE DEF r
    <3>3. Advances(c) /\ run'[c].pc = "verify"
      BY <1>0, <3>1, <3>2 DEF DesktopTypes, Advances
    <3>4. run'[c].pc \in Acting /\ run'[c].pc # "register"
      BY <3>3 DEF Acting
    <3>. QED  BY <2>1, <2>4, <3>3, <3>4, ActsNext
  <2>5. \/ D!Op(c).kind = "close"
        \/ D!Op(c).kind = "activate" /\ D!Op(c).present
        \/ ~(D!Op(c).kind = "close") /\ ~(D!Op(c).kind = "activate" /\ D!Op(c).present)
    OBVIOUS
  <2>. QED  BY <1>2, <2>2, <2>3, <2>4, <2>5 DEF D!Resolves
<1>. QED  BY <1>1, <1>2

\* The one new window becomes the session's: it was not there before, so it is not old.
LEMMA AdoptsNext ==
    ASSUME DesktopInv, NEW c \in Caller, NEW h \in Handle, D!Adopts(c, h)
    PROVE  DesktopInv' /\ D!SparesStep
<1>0. DesktopTypes /\ run[c] \in Transactions
  BY DEF DesktopInv, DesktopTypes
<1>. DEFINE r == [run[c] EXCEPT !.pc = "verify", !.handle = h]
            w == [win[h] EXCEPT !.ours = TRUE]
            pids == desk.pids \cup ({win[h].pid} \ {User})
            owned == [g \in DOMAIN desk.owned \cup {h} |->
                        IF g # h THEN desk.owned[g]
                        ELSE IF run[c].pid = None THEN "notepad" ELSE D!Op(c).app]
<1>1. /\ run[c].pc = "register" /\ D!NewWindows(c) = {h}
      /\ run' = [run EXCEPT ![c] = r] /\ win' = [win EXCEPT ![h] = w]
  BY <1>0 DEF DesktopTypes, D!Adopts, D!At
<1>2. h \in D!Visible /\ h \notin run[c].before /\ win[h] # None /\ win[h].vis
  BY <1>1 DEF D!NewWindows, D!Visible
<1>3. r \in Transactions /\ r.pc = "verify"
  BY <1>0 DEF Transactions, Stages, Acting
<1>4. /\ w \in Windows /\ w.vis /\ w.old = win[h].old /\ w.going = win[h].going
  <2>1. win[h] \in Windows
    BY <1>0, <1>2 DEF DesktopTypes
  <2>. QED  BY <1>2, <2>1 DEF Windows
<1>. HIDE DEF r, w, pids, owned
<1>5. Advances(c) /\ run'[c].pc = "verify"
  BY <1>0, <1>1, <1>3 DEF DesktopTypes, Advances
<1>6. /\ desk' = [state |-> desk'.state, owned |-> desk'.owned, pids |-> desk'.pids,
                  errors |-> desk'.errors, lock |-> desk'.lock]
      /\ DOMAIN desk'.owned = DOMAIN desk.owned \cup {h}
      /\ desk'.state = desk.state /\ desk'.lock = desk.lock
  <2>1. desk' = [desk EXCEPT !.pids = pids, !.owned = owned]
    BY <1>0 DEF pids, owned, DesktopTypes, D!Adopts
  <2>2. DOMAIN owned = DOMAIN desk.owned \cup {h}
    BY DEF owned
  <2>. QED  BY <1>0, <2>1, <2>2 DEF DesktopTypes
<1>7. /\ win' \in [Handle -> {None} \cup Windows] /\ win'[h] = w
      /\ \A g \in Handle \ {h} : win'[g] = win[g]
  BY <1>0, <1>1, <1>4 DEF DesktopTypes
<1>8. DesktopTypes'
  BY <1>0, <1>5, <1>6, <1>7 DEF DesktopTypes, Advances
<1>9. run[c].pc \in Acting /\ run'[c].pc \in Acting /\ run'[c].pc \notin {"stopping", "register"}
  BY <1>1, <1>5 DEF Acting
<1>10. LockInv'
  BY <1>6, <1>5, <1>9 DEF DesktopInv, LockInv, Advances
<1>11. \A u \in Caller : run'[u].pc # "stopping" /\ run'[u].pc # "register"
  <2>1. \A u \in Caller \ {c} : run[u].pc \notin Acting \cup {"stopping"}
    BY <1>9, OneHolds
  <2>. QED  BY <1>5, <1>9, <2>1 DEF Advances, Acting
<1>12. OwnedInv'
  <2>1. desk'.state = "active"
    BY <1>6, <1>9 DEF DesktopInv, LockInv
  <2>. QED  BY <1>4, <1>6, <1>7, <1>11, <2>1 DEF DesktopInv, OwnedInv
<1>13. ~win[h].old
  BY <1>1, <1>2 DEF DesktopInv, SparedInv, Old
<1>14. SparedInv'
  BY <1>4, <1>6, <1>7, <1>11, <1>13 DEF DesktopInv, SparedInv, Old
<1>15. D!SparesStep
  BY <1>4, <1>7 DEF D!SparesStep
<1>. QED  BY <1>8, <1>10, <1>12, <1>14, <1>15 DEF DesktopInv

\* An owned window that is out of sight is given up, by whoever has the lock.
LEMMA PopsNext ==
    ASSUME DesktopInv, NEW c \in Caller, NEW h \in Handle, Advances(c), D!Pops(h),
           \/ run[c].pc = "closing" /\ run'[c].pc = "verify"
           \/ run[c].pc = "stopping" /\ run'[c].pc = "stopping" /\ run'[c].left = run[c].left \ {h},
           h \notin D!Visible, UNCHANGED win
    PROVE  DesktopInv' /\ D!SparesStep
<1>0. DesktopTypes
  BY DEF DesktopInv
<1>1. /\ desk' = [state |-> desk'.state, owned |-> desk'.owned, pids |-> desk'.pids,
                  errors |-> desk'.errors, lock |-> desk'.lock]
      /\ DOMAIN desk'.owned = DOMAIN desk.owned \ {h} /\ desk'.errors = desk.errors
      /\ desk'.state = desk.state /\ desk'.lock = desk.lock
  <2>. DEFINE owned == [g \in DOMAIN desk.owned \ {h} |-> desk.owned[g]]
  <2>1. desk' = [desk EXCEPT !.owned = owned] /\ DOMAIN owned = DOMAIN desk.owned \ {h}
    BY <1>0 DEF DesktopTypes, D!Pops
  <2>. HIDE DEF owned
  <2>. QED  BY <1>0, <2>1 DEF DesktopTypes
<1>2. DesktopTypes'
  BY <1>0, <1>1 DEF DesktopTypes, Advances
<1>3. run[c].pc \in Acting \cup {"stopping"} /\ run'[c].pc # "register"
  BY DEF Acting
<1>4. LockInv'
  BY <1>1, <1>3 DEF DesktopInv, LockInv, Advances, Acting
<1>5. \A u \in Caller \ {c} : run'[u].pc \notin Acting \cup {"stopping"}
  BY <1>3, OneHolds DEF Advances
<1>6. OwnedInv'
  <2>1. \A g \in Handle : win[g] # None /\ win[g].ours => g # h
    BY DEF DesktopInv, OwnedInv, D!Visible
  <2>2. run'[c].pc = "stopping" => desk'.errors \/ DOMAIN desk'.owned \subseteq run'[c].left
    BY <1>1 DEF DesktopInv, OwnedInv
  <2>. QED  BY <1>1, <1>5, <2>1, <2>2 DEF DesktopInv, OwnedInv
<1>7. SparedInv'
  <2>1. run'[c].pc = "stopping" => \A g \in run'[c].left : g \in run[c].left /\ run[c].pc = "stopping"
    BY <1>3
  <2>. QED  BY <1>1, <1>3, <1>5, <2>1 DEF DesktopInv, SparedInv, Old, Acting
<1>. QED  BY <1>2, <1>4, <1>6, <1>7 DEF DesktopInv, D!SparesStep

LEMMA ClosedNext ==
    ASSUME DesktopInv, NEW c \in Caller, D!Closed(c) \/ D!StopPops(c)
    PROVE  DesktopInv' /\ D!SparesStep
<1>0. DesktopTypes /\ run[c] \in Transactions
  BY DEF DesktopInv, DesktopTypes
<1>. DEFINE h == run[c].handle
<1>1. CASE D!Closed(c)
  <2>1. /\ run[c].pc = "closing" /\ h \notin D!Visible /\ D!Pops(h) /\ UNCHANGED win
        /\ D!Goes(c, "verify")
    BY <1>1 DEF D!Closed, D!At, D!Gone
  <2>2. Advances(c) /\ run'[c].pc = "verify"
    BY <1>0, <2>1, GoesTyped DEF Stages, Acting
  <2>3. CASE h \in Handle
    <3>. HIDE DEF h
    <3>. QED  BY <2>1, <2>2, <2>3, PopsNext
  <2>4. CASE h \notin Handle
    <3>. DEFINE owned == [g \in DOMAIN desk.owned \ {h} |-> desk.owned[g]]
    <3>1. desk' = [desk EXCEPT !.owned = owned] /\ DOMAIN owned = DOMAIN desk.owned
      BY <1>0, <2>1, <2>4 DEF DesktopTypes, D!Pops
    <3>. HIDE DEF owned
    <3>2. /\ desk' = [state |-> desk'.state, owned |-> desk'.owned, pids |-> desk'.pids,
                      errors |-> desk'.errors, lock |-> desk'.lock]
          /\ DOMAIN desk'.owned = DOMAIN desk.owned /\ desk'.errors = desk.errors
          /\ desk'.state = desk.state /\ desk'.lock = desk.lock
      BY <1>0, <3>1 DEF DesktopTypes
    <3>3. run[c].pc \in Acting /\ run'[c].pc \in Acting /\ run'[c].pc \notin {"stopping", "register"}
      BY <2>1, <2>2 DEF Acting
    <3>. QED  BY <1>0, <2>1, <2>2, <3>2, <3>3
              DEF DesktopInv, DesktopTypes, LockInv, OwnedInv, SparedInv, Old, Advances, D!SparesStep
  <2>. QED  BY <2>3, <2>4
<1>2. CASE D!StopPops(c)
  <2>. DEFINE r == [run[c] EXCEPT !.left = run[c].left \ {h}, !.handle = None]
  <2>1. /\ run[c].pc = "stopping" /\ h \notin D!Visible /\ D!Pops(h) /\ UNCHANGED win
        /\ h # None /\ run' = [run EXCEPT ![c] = r]
    BY <1>0, <1>2 DEF D!StopPops, D!At, D!Gone, DesktopTypes
  <2>2. h \in Handle
    BY <1>0, <2>1 DEF Transactions
  <2>3. r \in Transactions /\ r.pc = "stopping" /\ r.left = run[c].left \ {h}
    BY <1>0, <2>1 DEF Transactions
  <2>. HIDE DEF r
  <2>4. Advances(c) /\ run'[c].pc = "stopping" /\ run'[c].left = run[c].left \ {h}
    BY <1>0, <2>1, <2>3 DEF DesktopTypes, Advances
  <2>. HIDE DEF h
  <2>. QED  BY <2>1, <2>2, <2>4, PopsNext
<1>. QED  BY <1>1, <1>2

\* The last step of a transaction, unless it goes on to stop the session.
LEMMA FinallyNext ==
    ASSUME DesktopInv, NEW c \in Caller, D!Finally(c)
    PROVE  DesktopInv' /\ D!SparesStep
<1>0. DesktopTypes /\ run[c] \in Transactions /\ run[c].pc = "finally" /\ UNCHANGED win
  BY DEF DesktopInv, DesktopTypes, D!Finally, D!At
<1>1. ASSUME NEW pc \in {"returned", "raised"}, D!Goes(c, pc), UNCHANGED desk
      PROVE  DesktopInv' /\ D!SparesStep
  <2>1. pc \in Stages /\ pc \notin Acting \cup {"stopping"}
    BY DEF Stages, Acting
  <2>2. Advances(c) /\ run'[c].pc = pc
    BY <1>0, <1>1, <2>1, GoesTyped
  <2>. QED  BY <1>0, <1>1, <2>1, <2>2, OutsideNext
<1>2. CASE /\ desk.lock = None
           /\ desk' = [desk EXCEPT !.state = "stopping", !.lock = c]
           /\ run' = [run EXCEPT ![c].pc = "stopping", ![c].left = DOMAIN desk.owned]
  <2>. DEFINE r == [run[c] EXCEPT !.pc = "stopping", !.left = DOMAIN desk.owned]
  <2>1. run' = [run EXCEPT ![c] = r]
    BY <1>0, <1>2 DEF DesktopTypes
  <2>2. r \in Transactions /\ r.pc = "stopping" /\ r.left = DOMAIN desk.owned
    BY <1>0 DEF Transactions, Stages, DesktopTypes
  <2>. HIDE DEF r
  <2>3. Advances(c) /\ run'[c].pc = "stopping" /\ run'[c].left = DOMAIN desk.owned
    BY <1>0, <2>1, <2>2 DEF DesktopTypes, Advances
  <2>4. /\ desk' = [state |-> desk'.state, owned |-> desk'.owned, pids |-> desk'.pids,
                    errors |-> desk'.errors, lock |-> desk'.lock]
        /\ desk'.owned = desk.owned /\ desk'.state = "stopping" /\ desk'.lock = c
    BY <1>0, <1>2 DEF DesktopTypes
  <2>5. \A u \in Caller : run[u].pc \notin Acting \cup {"stopping"}
    BY <1>2, NobodyHolds
  <2>6. DesktopTypes'
    BY <1>0, <2>3, <2>4 DEF DesktopTypes, Advances
  <2>7. LockInv'
    BY <2>3, <2>4, <2>5 DEF LockInv, Advances, Acting
  <2>8. (OwnedInv /\ SparedInv)'
    BY <1>0, <2>3, <2>4, <2>5 DEF DesktopInv, OwnedInv, SparedInv, Old, Advances, Acting
  <2>. QED  BY <1>0, <2>6, <2>7, <2>8 DEF DesktopInv, D!SparesStep
<1>. QED  BY <1>0, <1>1, <1>2 DEF D!Finally, D!Free

\* A window the session has is asked to close.
LEMMA StopAsksNext ==
    ASSUME DesktopInv, NEW c \in Caller, NEW h \in Handle, D!StopAsks(c, h)
    PROVE  DesktopInv' /\ D!SparesStep
<1>0. DesktopTypes /\ run[c] \in Transactions
  BY DEF DesktopInv, DesktopTypes
<1>. DEFINE r == [run[c] EXCEPT !.handle = h]
<1>1. /\ run[c].pc = "stopping" /\ h \in run[c].left /\ desk' = desk
      /\ run' = [run EXCEPT ![c] = r]
  BY <1>0 DEF D!StopAsks, D!At, DesktopTypes
<1>2. r \in Transactions /\ r.pc = "stopping" /\ r.left = run[c].left
  BY <1>0, <1>1 DEF Transactions
<1>. HIDE DEF r
<1>3. Advances(c) /\ run'[c].pc = "stopping" /\ run'[c].left = run[c].left
  BY <1>0, <1>1, <1>2 DEF DesktopTypes, Advances
<1>4. /\ win' \in [Handle -> {None} \cup Windows]
      /\ \A g \in Handle :
            win'[g] = win[g] \/ /\ g = h /\ win[g] # None
                                /\ win'[g].vis = win[g].vis /\ win'[g].old = win[g].old
                                /\ win'[g].ours = win[g].ours
  <2>1. CASE UNCHANGED win
    BY <1>0, <2>1 DEF DesktopTypes
  <2>2. CASE h \in D!Visible /\ win' = [win EXCEPT ![h].going = TRUE]
    <3>. DEFINE w == [win[h] EXCEPT !.going = TRUE]
    <3>1. win[h] # None /\ win[h] \in Windows /\ win' = [win EXCEPT ![h] = w]
      BY <1>0, <2>2 DEF DesktopTypes, D!Visible
    <3>2. w \in Windows /\ w.vis = win[h].vis /\ w.old = win[h].old /\ w.ours = win[h].ours
      BY <3>1 DEF Windows
    <3>. HIDE DEF w
    <3>. QED  BY <1>0, <3>1, <3>2 DEF DesktopTypes
  <2>. QED  BY <2>1, <2>2 DEF D!StopAsks
<1>5. DesktopTypes'
  BY <1>0, <1>1, <1>3, <1>4 DEF DesktopTypes, Advances
<1>6. LockInv'
  BY <1>1, <1>3 DEF DesktopInv, LockInv, Advances, Acting
<1>7. OwnedInv'
  BY <1>1, <1>3, <1>4 DEF DesktopInv, OwnedInv, Advances
<1>8. ~Old(h)
  BY <1>1 DEF DesktopInv, SparedInv
<1>9. \A g \in Handle : Old(g)' => Old(g) /\ win'[g] = win[g]
  BY <1>4, <1>8 DEF Old
<1>10. SparedInv'
  BY <1>1, <1>3, <1>9 DEF DesktopInv, SparedInv, Advances
<1>11. D!SparesStep
  BY <1>4, <1>8 DEF Old, D!SparesStep
<1>. QED  BY <1>5, <1>6, <1>7, <1>10, <1>11 DEF DesktopInv

\* A window that does not close, and the end of the stop.
LEMMA StopEnds ==
    ASSUME DesktopInv, NEW c \in Caller, D!StopErrs(c) \/ D!Stopped(c)
    PROVE  DesktopInv' /\ D!SparesStep
<1>0. DesktopTypes /\ run[c] \in Transactions /\ UNCHANGED win
  BY DEF DesktopInv, DesktopTypes, D!StopErrs, D!Stopped
<1>1. CASE D!StopErrs(c)
  <2>. DEFINE r == [run[c] EXCEPT !.left = run[c].left \ {run[c].handle}, !.handle = None]
  <2>1. /\ run[c].pc = "stopping" /\ run' = [run EXCEPT ![c] = r]
        /\ desk' = [desk EXCEPT !.errors = TRUE]
    BY <1>0, <1>1 DEF D!StopErrs, D!At, DesktopTypes
  <2>2. r \in Transactions /\ r.pc = "stopping" /\ r.left \subseteq run[c].left
    BY <1>0, <2>1 DEF Transactions
  <2>. HIDE DEF r
  <2>3. Advances(c) /\ run'[c].pc = "stopping" /\ run'[c].left \subseteq run[c].left
    BY <1>0, <2>1, <2>2 DEF DesktopTypes, Advances
  <2>4. /\ desk' = [state |-> desk'.state, owned |-> desk'.owned, pids |-> desk'.pids,
                    errors |-> desk'.errors, lock |-> desk'.lock]
        /\ desk'.owned = desk.owned /\ desk'.errors
        /\ desk'.state = desk.state /\ desk'.lock = desk.lock
    BY <1>0, <2>1 DEF DesktopTypes
  <2>5. DesktopTypes'
    BY <1>0, <2>3, <2>4 DEF DesktopTypes, Advances
  <2>6. (LockInv /\ OwnedInv)'
    BY <1>0, <2>1, <2>3, <2>4 DEF DesktopInv, LockInv, OwnedInv, Advances, Acting
  <2>7. SparedInv'
    BY <1>0, <2>1, <2>3, <2>4 DEF DesktopInv, SparedInv, Old, Advances
  <2>. QED  BY <1>0, <2>5, <2>6, <2>7 DEF DesktopInv, D!SparesStep
<1>2. CASE D!Stopped(c)
  <2>1. /\ run[c].pc = "stopping" /\ run[c].left = {} /\ D!Goes(c, "returned")
    BY <1>2 DEF D!Stopped, D!At
  <2>2. Advances(c) /\ run'[c].pc = "returned"
    BY <1>0, <2>1, GoesTyped DEF Stages, Acting
  <2>3. /\ desk' = [state |-> desk'.state, owned |-> desk'.owned, pids |-> desk'.pids,
                    errors |-> desk'.errors, lock |-> desk'.lock]
        /\ desk'.owned = desk.owned
        /\ desk'.state = "stopped" => ~desk.errors
    BY <1>0, <1>2 DEF DesktopTypes, D!Stopped
  <2>4. \A u \in Caller : run'[u].pc \notin Acting \cup {"stopping"}
    <3>1. \A u \in Caller \ {c} : run[u].pc \notin Acting \cup {"stopping"}
      BY <2>1, OneHolds
    <3>. QED  BY <2>2, <3>1 DEF Advances, Acting
  <2>5. DesktopTypes'
    BY <1>0, <2>2, <2>3 DEF DesktopTypes, Advances
  <2>6. LockInv'
    BY <2>4 DEF LockInv
  <2>7. OwnedInv'
    <3>1. desk'.state = "stopped" => DOMAIN desk'.owned = {}
      BY <2>1, <2>3 DEF DesktopInv, OwnedInv
    <3>. QED  BY <1>0, <2>3, <2>4, <3>1 DEF DesktopInv, OwnedInv
  <2>8. SparedInv'
    BY <1>0, <2>3, <2>4 DEF DesktopInv, SparedInv, Old, Acting
  <2>. QED  BY <1>0, <2>5, <2>6, <2>7, <2>8 DEF DesktopInv, D!SparesStep
<1>. QED  BY <1>1, <1>2

LEMMA DesktopNext ==
    ASSUME DesktopInv, D!Next
    PROVE  DesktopInv' /\ D!SparesStep
<1>1. CASE D!DeskActs
  BY <1>1, DeskActsNext
<1>2. ASSUME NEW c \in Caller, D!Runs(c) PROVE DesktopInv' /\ D!SparesStep
  BY <1>2, OutsideSteps, StartsNext, DispatchesNext, ActingSteps, AdoptsNext, ClosedNext,
     FinallyNext, StopAsksNext, StopEnds
     DEF D!Runs
<1>. QED  BY <1>1, <1>2 DEF D!Next

\* The desktop's steps are its own, whatever the other parts do.
LEMMA DesktopAlways ==
    /\ SurfacesInit => (part = "desktop" => DesktopInv)
    /\ (part = "desktop" => DesktopInv) /\ [SurfacesNext]_surfacesVars
       => /\ (part = "desktop" => DesktopInv)'
          /\ part = "desktop" => D!SparesStep \/ UNCHANGED desktopVars
<1>1. SurfacesInit => (part = "desktop" => DesktopInv)
  BY DesktopInit DEF SurfacesInit
<1>. SUFFICES ASSUME part = "desktop" => DesktopInv, [SurfacesNext]_surfacesVars
              PROVE  /\ (part = "desktop" => DesktopInv)'
                     /\ part = "desktop" => D!SparesStep \/ UNCHANGED desktopVars
  BY <1>1
<1>2. CASE part # "desktop"
  <2>1. part' = part
    BY DEF SurfacesNext, surfacesVars
  <2>. QED  BY <1>2, <2>1
<1>3. CASE part = "desktop" /\ D!Next /\ part' = part
  BY <1>3, DesktopNext
<1>4. CASE part' = part /\ UNCHANGED desktopVars
  <2>1. DesktopInv => DesktopInv'
    BY <1>4 DEF desktopVars, DesktopInv, DesktopTypes, LockInv, OwnedInv, SparedInv, Old
  <2>. QED  BY <1>4, <2>1
<1>. QED  BY <1>2, <1>3, <1>4 DEF SurfacesNext, surfacesVars

\* A session that reports itself stopped has left no window it adopted in view.
THEOREM StopClosesAll == SurfacesSpec => []StoppedMeansClosed
<1>1. (part = "desktop" => DesktopInv) => StoppedMeansClosed
  BY DEF StoppedMeansClosed, D!StoppedMeansClosed, DesktopInv, OwnedInv, D!Visible
<1>. QED  BY <1>1, DesktopAlways, PTL DEF SurfacesSpec

\* A window the user had in view when the session started, and kept in view, is never
\* asked to close.
THEOREM UsersWindowsAreSpared == SurfacesSpec => SparesOthers
<1>1. (part = "desktop" => DesktopInv) /\ [SurfacesNext]_surfacesVars
      => [part = "desktop" => D!SparesStep]_desktopVars
  BY DesktopAlways
<1>. QED  BY <1>1, DesktopAlways, PTL DEF SurfacesSpec, SparesOthers

(* Observations of a page.                                                  *)

\* The instances count as this module does.
LEMMA ObservationCounts ==
    ASSUME NEW X
    PROVE  O!Cardinality(X) = Cardinality(X)
BY DEF O!Cardinality, Cardinality

\* A sequence made of a set has its members only.
LEMMA SequenceOfSet ==
    ASSUME NEW X, IsFiniteSet(X)
    PROVE  O!SetToSeq(X) \in Seq(X)
<1>1. PICK f : f \in Bijection(1..Cardinality(X), X)
  BY FS_CardinalityType DEF ExistsBijection
<1>2. f \in [1..Cardinality(X) -> X] /\ O!IsInjective(f)
  BY <1>1 DEF Bijection, Injection, IsInjective, O!IsInjective
<1>3. O!SetToSeq(X) \in [1..Cardinality(X) -> X]
  BY <1>2, ObservationCounts DEF O!SetToSeq
<1>4. Cardinality(X) \in Nat
  BY FS_CardinalityType
<1>. QED  BY <1>3, <1>4

\* What is on disk: each bundle under a number of its own, bound to the page it was captured
\* of, its elements with a token.
DiskInv ==
    /\ IsFiniteSet(disk)
    /\ \A obs \in disk :
          /\ obs.id \in 1..Cardinality(disk)
          /\ obs.bind = [generation |-> obs.bind.generation, page |-> obs.page]
          /\ obs.nodes \subseteq tokens
    /\ \A obs, other \in disk : obs.id = other.id => obs = other

\* What is remembered is on disk and of this browser; what was counted, of a bundle there.
KeptInv ==
    /\ kept \in Seq(disk)
    /\ \A obs \in O!ToSet(kept) : obs.bind.generation = browser
    /\ \A a \in attestations : \E obs \in disk : a.obs = obs.id /\ a.bind = obs.bind

\* While an observation or a validation is in progress the binding stays.
TxnInv ==
    \/ txn = O!Idle
    \/ txn = [pc |-> "capturing", bind |-> O!Binding]
    \/ /\ txn.pc \in {"sealed", "published"} /\ txn = [pc |-> txn.pc, obs |-> txn.obs]
       /\ txn.obs.bind = O!Binding /\ txn.obs.page = active /\ txn.obs.nodes \subseteq tokens
       /\ txn.pc = "sealed" => txn.obs.id = Cardinality(disk) + 1
       /\ txn.pc = "published" => txn.obs \in disk
    \/ txn.pc \in {"judged", "hit"}
    \/ /\ txn.pc = "fresh" /\ txn.obs \in O!ToSet(kept) /\ txn.node \in txn.obs.nodes \cap txn.there
    \/ /\ txn.pc = "validating" /\ txn.obs \in O!ToSet(kept) /\ txn.node \in txn.obs.nodes
       /\ txn.obs.page = active

ObservationInv == DiskInv /\ KeptInv /\ TxnInv

LEMMA ObservationInit == O!Init => ObservationInv
<1>. SUFFICES ASSUME O!Init PROVE ObservationInv
  OBVIOUS
<1>1. /\ txn = O!Idle /\ kept = <<>> /\ disk = {} /\ attestations = {}
  BY DEF O!Init
<1>2. IsFiniteSet({})
  BY FS_EmptySet
<1>. QED  BY <1>1, <1>2 DEF ObservationInv, DiskInv, KeptInv, TxnInv, O!ToSet

\* The members of a sequence are what it is a sequence of.
LEMMA KeptIsOnDisk ==
    ASSUME ObservationInv
    PROVE  \A obs \in O!ToSet(kept) : obs \in disk
BY DEF ObservationInv, KeptInv, O!ToSet

\* Only the tokens may grow, or the page changes: nothing that the invariant speaks of.
LEMMA PageGoesOn ==
    ASSUME ObservationInv, UNCHANGED <<browser, active, txn, kept, disk, attestations>>,
           tokens \subseteq tokens'
    PROVE  ObservationInv'
<1>1. O!Binding' = O!Binding
  BY DEF O!Binding
<1>. QED  BY <1>1 DEF ObservationInv, DiskInv, KeptInv, TxnInv

\* A transaction that goes on to what the invariant allows.
LEMMA TxnGoesOn ==
    ASSUME ObservationInv, TxnInv', UNCHANGED <<browser, active, kept, disk, attestations>>,
           tokens \subseteq tokens'
    PROVE  ObservationInv'
BY DEF ObservationInv, DiskInv, KeptInv

LEMMA PageNext ==
    ASSUME ObservationInv,
           O!PageActs \/ (\E n \in O!Node : O!Toggles(n)) \/ (\E pg \in Page : O!Switches(pg))
              \/ O!Tick
    PROVE  ObservationInv' /\ O!UseStep
<1>1. CASE UNCHANGED <<browser, active, txn, kept, disk, attestations, tokens>>
  <2>1. ObservationInv'
    BY <1>1, PageGoesOn
  <2>2. txn.pc = "fresh" => txn'.pc # "hit"
    BY <1>1
  <2>. QED  BY <2>1, <2>2 DEF O!UseStep
<1>2. ASSUME NEW pg \in Page, O!Switches(pg) PROVE ObservationInv' /\ O!UseStep
  <2>1. txn.pc \in {"idle", "fresh"} /\ UNCHANGED <<browser, txn, kept, disk, attestations, tokens>>
    BY <1>2 DEF O!Switches
  <2>2. TxnInv'
    BY <2>1 DEF ObservationInv, TxnInv, O!Idle
  <2>3. ObservationInv'
    BY <2>1, <2>2 DEF ObservationInv, DiskInv, KeptInv
  <2>4. txn.pc = "fresh" => txn'.pc # "hit"
    BY <2>1
  <2>. QED  BY <2>3, <2>4 DEF O!UseStep
<1>3. O!PageActs \/ (\E n \in O!Node : O!Toggles(n)) \/ O!Tick
      => UNCHANGED <<browser, active, txn, kept, disk, attestations, tokens>>
  BY DEF O!PageActs, O!Toggles, O!Tick, O!Appears, O!Disappears, O!Navigates
<1>. QED  BY <1>1, <1>2, <1>3

\* Another browser: nothing is remembered.
LEMMA RestartsNext ==
    ASSUME ObservationInv, O!Restarts
    PROVE  ObservationInv' /\ O!UseStep
<1>1. /\ txn' = O!Idle /\ kept' = <<>> /\ attestations' = {} /\ UNCHANGED <<disk, tokens>>
  BY DEF O!Restarts
<1>2. ObservationInv'
  BY <1>1 DEF ObservationInv, DiskInv, KeptInv, TxnInv, O!ToSet, O!Idle
<1>. QED  BY <1>1, <1>2 DEF O!UseStep, O!Idle

\* An observation is captured, published and remembered.
LEMMA ObservesNext ==
    ASSUME ObservationInv, O!Observes
    PROVE  ObservationInv' /\ O!UseStep
<1>. USE DEF O!Idle
<1>1. CASE O!Begins
  <2>1. /\ txn = O!Idle /\ txn' = [pc |-> "capturing", bind |-> O!Binding]
        /\ UNCHANGED <<browser, active, tokens, kept, disk, attestations>>
    BY <1>1 DEF O!Begins
  <2>2. TxnInv'
    BY <2>1 DEF TxnInv, O!Binding
  <2>3. ObservationInv'
    BY <2>1, <2>2, TxnGoesOn
  <2>. QED  BY <2>1, <2>3 DEF O!UseStep
<1>2. CASE O!Captures
  <2>. DEFINE nodes == O!First(dom[active].nodes, Limit)
              o == [id |-> O!Cardinality(disk) + 1, bind |-> txn.bind, page |-> active,
                    url |-> dom[active].url, at |-> clock, nodes |-> nodes]
  <2>1. /\ txn.pc = "capturing" /\ tokens' = tokens \cup nodes
        /\ txn' = [pc |-> "sealed", obs |-> o]
        /\ UNCHANGED <<browser, active, kept, disk, attestations>>
    BY <1>2 DEF O!Captures
  <2>2. txn.bind = O!Binding
    BY <2>1 DEF ObservationInv, TxnInv
  <2>3. o.id = Cardinality(disk) + 1 /\ o.bind = O!Binding /\ o.page = active /\ o.nodes = nodes
    BY <2>2, ObservationCounts
  <2>. HIDE DEF o, nodes
  <2>4. TxnInv'
    BY <2>1, <2>3 DEF TxnInv, O!Binding
  <2>5. ObservationInv'
    BY <2>1, <2>4, TxnGoesOn
  <2>. QED  BY <2>1, <2>5 DEF O!UseStep
<1>3. CASE O!Publishes
  <2>1. /\ txn.pc = "sealed" /\ disk' = disk \cup {txn.obs} /\ txn' = [txn EXCEPT !.pc = "published"]
        /\ UNCHANGED <<browser, active, tokens, kept, attestations>>
    BY <1>3 DEF O!Publishes
  <2>2. /\ txn = [pc |-> "sealed", obs |-> txn.obs] /\ txn.obs.id = Cardinality(disk) + 1
        /\ txn.obs.bind = O!Binding /\ txn.obs.page = active /\ txn.obs.nodes \subseteq tokens
    BY <2>1 DEF ObservationInv, TxnInv
  <2>3. txn' = [pc |-> "published", obs |-> txn.obs]
    BY <2>1, <2>2
  <2>4. /\ IsFiniteSet(disk) /\ Cardinality(disk) \in Nat
        /\ \A obs \in disk : obs.id \in 1..Cardinality(disk)
    BY FS_CardinalityType DEF ObservationInv, DiskInv
  <2>5. txn.obs \notin disk
    BY <2>2, <2>4
  <2>6. IsFiniteSet(disk') /\ Cardinality(disk') = Cardinality(disk) + 1
    BY <2>1, <2>4, <2>5, FS_AddElement
  <2>. DEFINE o == txn.obs
  <2>7. o.bind = [generation |-> o.bind.generation, page |-> o.page]
    BY <2>2 DEF O!Binding
  <2>8. txn'.pc = "published" /\ txn'.obs = o /\ txn' = [pc |-> txn'.pc, obs |-> txn'.obs]
    BY <2>3
  <2>9. disk' = disk \cup {o} /\ o.id = Cardinality(disk) + 1 /\ o.nodes \subseteq tokens
        /\ o.bind = O!Binding /\ o.page = active
    BY <2>1, <2>2
  <2>. HIDE DEF o
  <2>10. DiskInv'
    <3>1. \A obs \in disk' : obs.id \in 1..Cardinality(disk')
      BY <2>4, <2>6, <2>9
    <3>2. \A obs \in disk' : obs.bind = [generation |-> obs.bind.generation, page |-> obs.page]
      BY <2>7, <2>9 DEF ObservationInv, DiskInv
    <3>3. \A obs \in disk' : obs.nodes \subseteq tokens'
      BY <2>1, <2>9 DEF ObservationInv, DiskInv
    <3>4. \A obs, other \in disk' : obs.id = other.id => obs = other
      <4>1. \A obs \in disk : obs.id # o.id
        BY <2>4, <2>9
      <4>. QED  BY <4>1, <2>9 DEF ObservationInv, DiskInv
    <3>. QED  BY <2>6, <3>1, <3>2, <3>3, <3>4 DEF DiskInv
  <2>11. KeptInv'
    <3>1. kept' \in Seq(disk')
      BY <2>1, <2>9, SeqMonotonic DEF ObservationInv, KeptInv
    <3>. QED  BY <2>1, <2>9, <3>1 DEF ObservationInv, KeptInv
  <2>12. TxnInv'
    <3>1. O!Binding' = O!Binding
      BY <2>1 DEF O!Binding
    <3>. QED  BY <2>1, <2>8, <2>9, <3>1 DEF TxnInv
  <2>. QED  BY <2>1, <2>10, <2>11, <2>12 DEF ObservationInv, O!UseStep
<1>4. CASE O!Commits
  <2>. DEFINE more == Append(kept, txn.obs)
  <2>1. /\ txn.pc = "published" /\ txn' = O!Idle
        /\ kept' = more \/ kept' = Tail(more)
        /\ UNCHANGED <<browser, active, tokens, disk, attestations>>
    BY <1>4 DEF O!Commits
  <2>2. txn.obs \in disk /\ txn.obs.bind = O!Binding
    BY <2>1 DEF ObservationInv, TxnInv
  <2>3. kept \in Seq(disk)
    BY DEF ObservationInv, KeptInv
  <2>4. /\ more \in Seq(disk) /\ more # <<>>
        /\ \A i \in 1..Len(more) : more[i] \in O!ToSet(kept) \cup {txn.obs}
    <3>1. /\ more \in Seq(disk) /\ more # <<>> /\ Len(more) = Len(kept) + 1
          /\ \A i \in 1..Len(kept) : more[i] = kept[i]
          /\ more[Len(kept) + 1] = txn.obs
      BY <2>2, <2>3, AppendProperties
    <3>2. \A i \in 1..Len(kept) : kept[i] \in O!ToSet(kept)
      BY <2>3 DEF O!ToSet
    <3>3. Len(kept) \in Nat
      BY <2>3
    <3>. HIDE DEF more
    <3>4. \A i \in 1..Len(more) : i \in 1..Len(kept) \/ i = Len(kept) + 1
      BY <3>1, <3>3
    <3>. QED  BY <3>1, <3>2, <3>4
  <2>. HIDE DEF more
  <2>5. kept' \in Seq(disk) /\ \A obs \in O!ToSet(kept') : obs \in O!ToSet(kept) \cup {txn.obs}
    <3>1. CASE kept' = more
      BY <2>4, <3>1 DEF O!ToSet
    <3>2. CASE kept' = Tail(more)
      <4>1. /\ Tail(more) \in Seq(disk) /\ Len(Tail(more)) = Len(more) - 1
            /\ \A i \in 1..Len(Tail(more)) : Tail(more)[i] = more[i + 1]
        BY <2>4, HeadTailProperties
      <4>2. Len(more) \in Nat
        BY <2>4
      <4>3. \A i \in 1..Len(Tail(more)) : Tail(more)[i] \in O!ToSet(kept) \cup {txn.obs}
        BY <2>4, <4>1, <4>2
      <4>. QED  BY <3>2, <4>1, <4>3 DEF O!ToSet
    <3>. QED  BY <2>1, <3>1, <3>2
  <2>6. \A obs \in O!ToSet(kept') : obs.bind.generation = browser'
    <3>1. txn.obs.bind.generation = browser
      BY <2>2 DEF O!Binding
    <3>. QED  BY <2>1, <2>5, <3>1 DEF ObservationInv, KeptInv
  <2>7. ObservationInv'
    BY <2>1, <2>5, <2>6 DEF ObservationInv, DiskInv, KeptInv, TxnInv
  <2>. QED  BY <2>1, <2>7 DEF O!UseStep
<1>5. CASE O!Aborts
  <2>1. /\ txn' = O!Idle /\ UNCHANGED <<browser, active, tokens, kept, disk, attestations>>
    BY <1>5 DEF O!Aborts
  <2>2. ObservationInv'
    BY <2>1, TxnGoesOn DEF TxnInv
  <2>. QED  BY <2>1, <2>2 DEF O!UseStep
<1>. QED  BY <1>1, <1>2, <1>3, <1>4, <1>5 DEF O!Observes

\* Another observer takes up the bundles of this browser and page.
LEMMA ReopensNext ==
    ASSUME ObservationInv, O!Reopens
    PROVE  ObservationInv' /\ O!UseStep
<1>. DEFINE mine == {obs \in disk : O!Admits(obs)}
<1>1. /\ txn = O!Idle /\ kept' = O!SetToSeq(mine) /\ attestations' = {}
      /\ UNCHANGED <<browser, active, tokens, txn, disk>>
  BY DEF O!Reopens
<1>2. IsFiniteSet(mine) /\ \A obs \in mine : obs \in disk /\ obs.bind.generation = browser
  <2>1. IsFiniteSet(disk)
    BY DEF ObservationInv, DiskInv
  <2>2. mine \subseteq disk /\ \A obs \in mine : obs.bind.generation = browser
    BY DEF O!Admits, O!Binding
  <2>. HIDE DEF mine
  <2>. QED  BY <2>1, <2>2, FS_Subset
<1>. HIDE DEF mine
<1>3. kept' \in Seq(mine)
  BY <1>1, <1>2, SequenceOfSet
<1>4. /\ kept' \in Seq(disk') /\ \A obs \in O!ToSet(kept') : obs \in mine
  <2>1. \A i \in DOMAIN kept' : kept'[i] \in mine
    BY <1>3
  <2>2. kept' \in Seq(disk)
    BY <1>2, <1>3, SeqMonotonic
  <2>. QED  BY <1>1, <2>1, <2>2 DEF O!ToSet
<1>5. ObservationInv'
  <2>1. KeptInv'
    BY <1>1, <1>2, <1>4 DEF KeptInv
  <2>. QED  BY <1>1, <2>1 DEF ObservationInv, DiskInv, TxnInv
<1>. QED  BY <1>1, <1>5 DEF O!UseStep, O!Idle

\* A reference of a remembered observation is compared, then looked for.
LEMMA ValidatesNext ==
    ASSUME ObservationInv, NEW obs \in O!ToSet(kept), NEW n \in obs.nodes, NEW wants \in BOOLEAN,
           O!Validates(obs, n, wants)
    PROVE  ObservationInv' /\ O!UseStep
<1>1. txn = O!Idle /\ UNCHANGED <<browser, active, tokens, kept, disk, attestations>>
  BY DEF O!Validates
<1>2. CASE O!Objection(obs) = None
  <2>1. txn' = [pc |-> "validating", obs |-> obs, node |-> n, wants |-> wants]
    BY <1>2 DEF O!Validates
  <2>2. txn'.pc = "validating" /\ txn'.obs = obs /\ txn'.node = n
    BY <2>1
  <2>3. CASE obs.page = active
    <3>1. TxnInv'
      BY <1>1, <2>2, <2>3 DEF TxnInv
    <3>2. ObservationInv'
      BY <1>1, <3>1, TxnGoesOn
    <3>. QED  BY <1>1, <3>2 DEF O!UseStep, O!Idle
  <2>4. CASE obs.page # active
    BY <1>2, <2>4, SurfacesInstance DEF O!Objection, O!ObservationAssumption
  <2>. QED  BY <2>3, <2>4
<1>3. CASE O!Objection(obs) # None
  <2>1. txn'.pc = "judged"
    BY <1>3 DEF O!Validates, O!Judged
  <2>2. ObservationInv'
    BY <1>1, <2>1, TxnGoesOn DEF TxnInv
  <2>. QED  BY <1>1, <2>2 DEF O!UseStep, O!Idle
<1>. QED  BY <1>2, <1>3

\* The one evaluation: what it calls fresh was observed and is there.
LEMMA EvaluatesNext ==
    ASSUME ObservationInv, O!Evaluates
    PROVE  ObservationInv' /\ O!UseStep
<1>. DEFINE n == txn.node
            found == O!Alike(n)
            fresh == [pc |-> "fresh", obs |-> txn.obs, node |-> n, there |-> dom[active].nodes]
<1>1. txn.pc = "validating" /\ UNCHANGED <<browser, active, tokens, kept, disk, attestations>>
  BY DEF O!Evaluates
<1>2. CASE txn'.pc = "judged"
  <2>1. ObservationInv'
    BY <1>1, <1>2, TxnGoesOn DEF TxnInv
  <2>. QED  BY <1>1, <2>1 DEF O!UseStep
<1>3. CASE txn' = fresh /\ found = {n}
  <2>1. txn.obs \in O!ToSet(kept) /\ txn.node \in txn.obs.nodes
    BY <1>1 DEF ObservationInv, TxnInv, O!Idle
  <2>2. n \in dom[active].nodes
    BY <1>3 DEF O!Alike
  <2>3. /\ txn'.pc = "fresh" /\ txn'.obs = txn.obs /\ txn'.node = n
        /\ txn'.there = dom[active].nodes
    BY <1>3
  <2>4. TxnInv'
    BY <1>1, <2>1, <2>2, <2>3 DEF TxnInv
  <2>5. ObservationInv'
    BY <1>1, <2>4, TxnGoesOn
  <2>. QED  BY <1>1, <2>5 DEF O!UseStep
<1>4. txn'.pc = "judged" \/ (txn' = fresh /\ found = {n})
  BY DEF O!Evaluates, O!Judged, O!SameToken
<1>. QED  BY <1>2, <1>3, <1>4

\* The dispatch resolves its target: the one node of that description is the observed one, or
\* that is gone since the verdict.
LEMMA ResolvesNext ==
    ASSUME ObservationInv, O!Resolves
    PROVE  ObservationInv' /\ O!UseStep
<1>. DEFINE found == O!Alike(txn.node)
<1>1. txn.pc = "fresh" /\ UNCHANGED <<browser, active, tokens, kept, disk, attestations>>
  BY DEF O!Resolves
<1>2. ObservationInv'
  <2>1. txn'.pc \in {"judged", "hit"}
    BY DEF O!Resolves, O!Judged
  <2>. QED  BY <1>1, <2>1, TxnGoesOn DEF TxnInv
<1>3. txn.obs \in O!ToSet(kept) /\ txn.node \in txn.obs.nodes \cap txn.there
  BY <1>1 DEF ObservationInv, TxnInv, O!Idle
<1>4. ASSUME active = txn.obs.page PROVE txn.obs.bind = O!Binding
  <2>1. txn.obs \in disk /\ txn.obs.bind.generation = browser
    BY <1>3, KeptIsOnDisk DEF ObservationInv, KeptInv
  <2>. QED  BY <1>4, <2>1 DEF ObservationInv, DiskInv, O!Binding
<1>5. ASSUME txn'.pc = "hit" PROVE found = {txn'.on}
  <2>1. ~O!Judged("target_resolution_failed")
    BY <1>5 DEF O!Judged
  <2>2. PICK m \in found : found = {m} /\ txn' = [pc |-> "hit", on |-> m]
    BY <2>1 DEF O!Resolves
  <2>. QED  BY <2>2
<1>6. txn.node \in dom[active].nodes => txn.node \in found
  BY DEF O!Alike
<1>. QED  BY <1>2, <1>3, <1>4, <1>5, <1>6 DEF O!UseStep

\* The locators of a remembered observation are counted under its binding.
LEMMA AttestsNext ==
    ASSUME ObservationInv, NEW obs \in O!ToSet(kept), O!Attests(obs)
    PROVE  ObservationInv' /\ O!UseStep
<1>1. /\ txn = O!Idle /\ obs.bind = O!Binding
      /\ UNCHANGED <<browser, active, tokens, txn, kept, disk>>
      /\ \A a \in attestations' : a \in attestations \/ (a.obs = obs.id /\ a.bind = obs.bind)
  BY DEF O!Attests
<1>2. obs \in disk
  BY KeptIsOnDisk
<1>3. ObservationInv'
  BY <1>1, <1>2 DEF ObservationInv, DiskInv, KeptInv, TxnInv
<1>. QED  BY <1>1, <1>3 DEF O!UseStep, O!Idle

LEMMA ObservationNext ==
    ASSUME ObservationInv, O!Next
    PROVE  ObservationInv' /\ O!UseStep
<1>1. CASE O!Returns
  <2>1. /\ txn' = O!Idle /\ UNCHANGED <<browser, active, tokens, kept, disk, attestations>>
    BY <1>1 DEF O!Returns
  <2>2. ObservationInv'
    BY <2>1, TxnGoesOn DEF TxnInv
  <2>. QED  BY <2>1, <2>2 DEF O!UseStep, O!Idle
<1>2. CASE \E obs \in O!ToSet(kept), wants \in BOOLEAN :
              \E n \in obs.nodes : O!Validates(obs, n, wants)
  BY <1>2, ValidatesNext
<1>3. CASE \E obs \in O!ToSet(kept) : O!Attests(obs)
  BY <1>3, AttestsNext
<1>. QED  BY <1>1, <1>2, <1>3, PageNext, RestartsNext, ObservesNext, ReopensNext, EvaluatesNext,
          ResolvesNext DEF O!Next

\* Observations are the page observer's own, whatever the other parts do.
LEMMA ObservationAlways ==
    /\ SurfacesInit => (part = "observation" => ObservationInv)
    /\ (part = "observation" => ObservationInv) /\ [SurfacesNext]_surfacesVars
       => /\ (part = "observation" => ObservationInv)'
          /\ part = "observation" => O!UseStep \/ UNCHANGED observationVars
<1>1. SurfacesInit => (part = "observation" => ObservationInv)
  BY ObservationInit DEF SurfacesInit
<1>. SUFFICES ASSUME part = "observation" => ObservationInv, [SurfacesNext]_surfacesVars
              PROVE  /\ (part = "observation" => ObservationInv)'
                     /\ part = "observation" => O!UseStep \/ UNCHANGED observationVars
  BY <1>1
<1>2. CASE part # "observation"
  <2>1. part' = part
    BY DEF SurfacesNext, surfacesVars
  <2>. QED  BY <1>2, <2>1
<1>3. CASE part = "observation" /\ O!Next /\ part' = part
  BY <1>3, ObservationNext
<1>4. CASE part' = part /\ UNCHANGED observationVars
  <2>1. ObservationInv => ObservationInv'
    BY <1>4 DEF observationVars, ObservationInv, DiskInv, KeptInv, TxnInv, O!Binding
  <2>. QED  BY <1>4, <2>1
<1>. QED  BY <1>2, <1>3, <1>4 DEF SurfacesNext, surfacesVars

\* What an observer remembers is of the browser that runs, on disk and captured whole, and
\* what was counted for it was counted under its binding.
THEOREM RememberedIsOurs == SurfacesSpec => []RememberedIsOfThisBrowser
<1>1. ObservationInv => O!RememberedIsOfThisBrowser
  <2>. SUFFICES ASSUME ObservationInv PROVE O!RememberedIsOfThisBrowser
    OBVIOUS
  <2>1. ASSUME NEW obs \in O!ToSet(kept)
        PROVE  /\ obs.bind = [generation |-> browser, page |-> obs.page]
               /\ obs \in disk /\ obs.nodes \subseteq tokens
    BY <2>1, KeptIsOnDisk DEF ObservationInv, DiskInv, KeptInv
  <2>2. ASSUME NEW obs \in O!ToSet(kept), NEW a \in O!View(obs) PROVE a.bind = obs.bind
    <3>1. a \in attestations /\ a.obs = obs.id
      BY <2>2 DEF O!View
    <3>2. PICK other \in disk : a.obs = other.id /\ a.bind = other.bind
      BY <3>1 DEF ObservationInv, KeptInv
    <3>. QED  BY <2>1, <3>1, <3>2 DEF ObservationInv, DiskInv
  <2>. QED  BY <2>1, <2>2 DEF O!RememberedIsOfThisBrowser
<1>2. (part = "observation" => ObservationInv) => RememberedIsOfThisBrowser
  BY <1>1 DEF RememberedIsOfThisBrowser
<1>. QED  BY <1>2, ObservationAlways, PTL DEF SurfacesSpec

\* An operation whose reference was called fresh acts on the node that was observed, unless
\* the page took that node away after the verdict.
THEOREM ObservedIsActedOn == SurfacesSpec => ActsOnTheObserved
<1>1. (part = "observation" => ObservationInv) /\ [SurfacesNext]_surfacesVars
      => [part = "observation" => O!UseStep]_observationVars
  BY ObservationAlways
<1>. QED  BY <1>1, ObservationAlways, PTL DEF SurfacesSpec, ActsOnTheObserved

(* The acts a page confirms.                                                *)

\* The instance counts as this module does.
LEMMA ControlsCount ==
    ASSUME NEW X
    PROVE  C!Cardinality(X) = Cardinality(X)
BY DEF C!Cardinality, Cardinality

\* What the records of the two acts are made of.
ControlForms ==
    /\ field = [value |-> field.value, chosen |-> field.chosen, open |-> field.open]
    /\ combo = [at |-> combo.at, count |-> combo.count, next |-> combo.next, read |-> combo.read,
                place |-> combo.place, result |-> combo.result]
    /\ upload = [at |-> upload.at, files |-> upload.files, seen |-> upload.seen,
                 took |-> upload.took, error |-> upload.error, result |-> upload.result]
    /\ past = [value |-> past.value, moved |-> past.moved, inputs |-> past.inputs,
               shown |-> past.shown]
    /\ combo.next \in Nat /\ past.shown \in C!Shown /\ upload.files \subseteq Name

\* Each place is read once at most; what is at the place to be clicked was asked for unless
\* the list was rendered since; nothing is chosen before the click.
ComboInv ==
    /\ \A r \in combo.read : r = <<r[1], r[2]>> /\ r[1] \in Nat /\ r[1] < combo.next
    /\ \A r, s \in combo.read : r[1] = s[1] => r = s
    /\ combo.at = "check" => \E r \in combo.read : r[1] = combo.place /\ r[2] \in Asked
    /\ combo.at = "click" /\ ~past.moved => options[combo.place] \in Asked
    /\ combo.at \notin {"confirm", "over"} => field.chosen = None
    /\ C!ClickedAsAsked

\* What the field holds was chosen in it, typed into it, or stood in it before.
FieldInv ==
    /\ combo.at = "aim" => field.value = past.value
    /\ field.value = field.chosen \/ field.value \in {past.value, Query, None}
    /\ combo.result = "selected" => combo.at = "over" /\ field.value \in Asked

\* As long as no file was taken the page is what it was, and the first look saw it so.
UploadInv ==
    /\ ~upload.took => inputs = past.inputs /\ shown = past.shown
    /\ ~upload.took /\ upload.at \in {"set", "confirm"} =>
          upload.seen = {n \in upload.files : past.shown[n] = "view"}
    /\ upload.at \in {"look", "set"} => ~upload.took
    /\ C!VerifiedIsAttached

ControlsInv == ControlForms /\ ComboInv /\ FieldInv /\ UploadInv

LEMMA ControlsInit == C!Init => ControlsInv
<1>. SUFFICES ASSUME C!Init PROVE ControlsInv
  OBVIOUS
<1>1. past = [value |-> field.value, moved |-> FALSE, inputs |-> inputs, shown |-> shown]
  BY DEF C!Init
<1>2. CASE /\ \E v \in Label \cup {None} : field = [value |-> v, chosen |-> None, open |-> FALSE]
           /\ combo = [C!Idle EXCEPT !.at = "aim"]
           /\ inputs = <<>> /\ shown = [n \in Name |-> "no"]
           /\ upload = [at |-> "rest", files |-> {}, seen |-> {}, took |-> FALSE, error |-> FALSE, result |-> None]
  <2>1. combo = [at |-> "aim", count |-> 0, next |-> 1, read |-> {}, place |-> 0, result |-> None]
    BY <1>2 DEF C!Idle
  <2>2. ControlForms
    <3>1. field = [value |-> field.value, chosen |-> field.chosen, open |-> field.open]
      BY <1>2
    <3>2. past.shown \in C!Shown
      BY <1>1, <1>2 DEF C!Shown
    <3>3. /\ upload = [at |-> upload.at, files |-> upload.files, seen |-> upload.seen,
                       took |-> upload.took, error |-> upload.error, result |-> upload.result]
          /\ upload.files \subseteq Name
      BY <1>2
    <3>4. /\ combo = [at |-> combo.at, count |-> combo.count, next |-> combo.next,
                      read |-> combo.read, place |-> combo.place, result |-> combo.result]
          /\ combo.next \in Nat
      BY <2>1
    <3>. QED  BY <1>1, <3>1, <3>2, <3>3, <3>4 DEF ControlForms
  <2>3. ComboInv /\ field.value = past.value
    BY <1>1, <1>2, <2>1 DEF ComboInv, C!ClickedAsAsked
  <2>4. upload.took = FALSE /\ upload.at = "rest" /\ upload.result = None /\ combo.result = None
    BY <1>2, <2>1
  <2>. QED  BY <1>1, <2>2, <2>3, <2>4, SurfacesInstance
            DEF ControlsInv, FieldInv, UploadInv, C!VerifiedIsAttached, C!ControlsAssumption
<1>3. CASE /\ field = [value |-> None, chosen |-> None, open |-> FALSE] /\ combo = C!Idle
           /\ inputs \in [{"aimed", "other"} -> SUBSET Name] /\ shown \in C!Shown
           /\ \E f \in SUBSET Name \ {{}} :
                 upload = [at |-> "look", files |-> f, seen |-> {}, took |-> FALSE, error |-> FALSE, result |-> None]
  <2>1. combo = [at |-> "rest", count |-> 0, next |-> 1, read |-> {}, place |-> 0, result |-> None]
    BY <1>3 DEF C!Idle
  <2>2. ControlForms
    BY <1>1, <1>3, <2>1 DEF ControlForms
  <2>3. ComboInv
    BY <1>1, <1>3, <2>1 DEF ComboInv, C!ClickedAsAsked
  <2>4. upload.took = FALSE /\ upload.at = "look" /\ upload.result = None /\ combo.result = None
        /\ combo.at = "rest" /\ field.value = None
    BY <1>3, <2>1
  <2>. QED  BY <1>1, <2>2, <2>3, <2>4, SurfacesInstance
            DEF ControlsInv, FieldInv, UploadInv, C!VerifiedIsAttached, C!ControlsAssumption
<1>. QED  BY <1>2, <1>3 DEF C!Init

\* A step of the choice leaves the upload alone.
LEMMA ChoiceNext ==
    ASSUME ControlForms', ComboInv', FieldInv', ControlsInv, UNCHANGED <<inputs, shown, upload>>,
           past'.inputs = past.inputs, past'.shown = past.shown
    PROVE  ControlsInv'
BY DEF ControlsInv, UploadInv, C!VerifiedIsAttached

\* A step of the upload leaves the choice alone.
LEMMA UploadNext ==
    ASSUME ControlForms', UploadInv', ControlsInv, UNCHANGED <<field, options, combo, past>>
    PROVE  ControlsInv'
BY DEF ControlsInv, ComboInv, FieldInv, C!ClickedAsAsked

\* The choice is over.
LEMMA ChoosesNext ==
    ASSUME ControlsInv, NEW result, C!Chooses(result), UNCHANGED <<field, past, inputs, shown, upload>>,
           combo.at = "click" \/ combo.at = "confirm" \/ field.chosen = None,
           result = "selected" => field.value \in Asked
    PROVE  ControlsInv'
<1>1. combo' = [at |-> "over", count |-> combo.count, next |-> combo.next, read |-> combo.read,
                place |-> combo.place, result |-> result]
  BY DEF ControlsInv, ControlForms, C!Chooses
<1>2. ControlForms'
  BY <1>1 DEF ControlsInv, ControlForms
<1>3. combo'.at = "over" /\ combo'.read = combo.read /\ combo'.next = combo.next
      /\ combo'.result = result
  BY <1>1
<1>4. ComboInv' /\ FieldInv'
  BY <1>3 DEF ControlsInv, ComboInv, FieldInv, C!ClickedAsAsked
<1>. QED  BY <1>2, <1>4, ChoiceNext

LEMMA AimsNext ==
    ASSUME ControlsInv, C!Aims \/ C!Counts
    PROVE  ControlsInv'
<1>0. ControlForms /\ ComboInv /\ FieldInv
  BY DEF ControlsInv
<1>1. combo.at \in {"aim", "list"} /\ UNCHANGED <<options, inputs, shown, upload, past>>
  BY DEF C!Aims, C!Counts, C!uploadVars
<1>2. field.chosen = None
  BY <1>0, <1>1 DEF ComboInv
<1>3. CASE C!Chooses("refused") /\ UNCHANGED field
  BY <1>1, <1>2, <1>3, ChoosesNext
<1>4. CASE /\ combo.at = "aim" /\ combo' = [combo EXCEPT !.at = "list"]
           /\ \E v \in {field.value, Query, None} : field' = [field EXCEPT !.value = v, !.open = TRUE]
  <2>1. PICK v \in {field.value, Query, None} : field' = [field EXCEPT !.value = v, !.open = TRUE]
    BY <1>4
  <2>2. combo.at = "aim" /\ combo' = [combo EXCEPT !.at = "list"]
    BY <1>4
  <2>3. /\ field' = [value |-> v, chosen |-> field.chosen, open |-> TRUE]
        /\ combo' = [at |-> "list", count |-> combo.count, next |-> combo.next,
                     read |-> combo.read, place |-> combo.place, result |-> combo.result]
    BY <1>0, <2>1, <2>2 DEF ControlForms
  <2>4. field'.value = v /\ field'.chosen = field.chosen /\ combo'.at = "list"
        /\ combo'.read = combo.read /\ combo'.next = combo.next /\ combo'.result = combo.result
    BY <2>3
  <2>5. ControlForms'
    BY <1>0, <1>1, <2>3 DEF ControlForms
  <2>6. ComboInv'
    BY <1>0, <1>1, <2>4, <1>2 DEF ComboInv, C!ClickedAsAsked
  <2>7. FieldInv'
    <3>1. combo.result # "selected"
      BY <1>0, <2>2 DEF FieldInv
    <3>. QED  BY <1>0, <1>1, <2>2, <2>4, <3>1 DEF FieldInv
  <2>. QED  BY <1>1, <2>5, <2>6, <2>7, ChoiceNext
<1>5. CASE C!Counts
  <2>1. /\ UNCHANGED field
        /\ combo' = [at |-> "read", count |-> Len(options), next |-> 1, read |-> {},
                     place |-> combo.place, result |-> combo.result]
    BY <1>0, <1>5 DEF C!Counts, ControlForms
  <2>2. combo'.at = "read" /\ combo'.read = {} /\ combo'.next = 1 /\ combo'.result = combo.result
    BY <2>1
  <2>3. ControlForms'
    BY <1>0, <1>1, <2>1 DEF ControlForms
  <2>4. ComboInv'
    BY <1>0, <1>1, <1>2, <2>1, <2>2 DEF ComboInv, C!ClickedAsAsked
  <2>5. FieldInv'
    BY <1>0, <1>1, <2>1, <2>2 DEF FieldInv
  <2>. QED  BY <1>1, <2>3, <2>4, <2>5, ChoiceNext
<1>. QED  BY <1>3, <1>4, <1>5 DEF C!Aims

\* Each place is read once: the next one is behind all that were read.
LEMMA ReadsNext ==
    ASSUME ControlsInv, C!Reads
    PROVE  ControlsInv'
<1>0. ControlForms /\ ComboInv /\ FieldInv
  BY DEF ControlsInv
<1>1. combo.at = "read" /\ UNCHANGED <<field, options, inputs, shown, upload, past>>
  BY DEF C!Reads, C!uploadVars
<1>2. PICK new \in SUBSET ({combo.next} \cap DOMAIN options) :
         combo' = [combo EXCEPT !.next = @ + 1, !.read = @ \cup {<<i, options[i]>> : i \in new}]
  BY DEF C!Reads
<1>. DEFINE more == combo.read \cup {<<i, options[i]>> : i \in new}
<1>3. combo' = [at |-> "read", count |-> combo.count, next |-> combo.next + 1, read |-> more,
                place |-> combo.place, result |-> combo.result]
  BY <1>0, <1>1, <1>2 DEF ControlForms
<1>4. \A r \in more : r \in combo.read \/ r = <<combo.next, options[combo.next]>>
  OBVIOUS
<1>. HIDE DEF more
<1>5. combo'.at = "read" /\ combo'.read = more /\ combo'.next = combo.next + 1
      /\ combo'.result = combo.result
  BY <1>3
<1>6. ControlForms'
  BY <1>0, <1>1, <1>3 DEF ControlForms
<1>7. combo.next \in Nat
  BY <1>0 DEF ControlForms
<1>8. \A r \in more : r = <<r[1], r[2]>> /\ r[1] \in Nat /\ r[1] < combo.next + 1
  <2>1. ASSUME NEW r \in combo.read PROVE r = <<r[1], r[2]>> /\ r[1] \in Nat /\ r[1] < combo.next + 1
    BY <1>0, <1>7 DEF ComboInv
  <2>. QED  BY <1>4, <1>7, <2>1
<1>9. \A r, s \in more : r[1] = s[1] => r = s
  <2>1. \A r \in combo.read : r[1] # combo.next
    BY <1>0, <1>7 DEF ComboInv
  <2>2. \A r, s \in combo.read : r[1] = s[1] => r = s
    BY <1>0 DEF ComboInv
  <2>. QED  BY <1>4, <2>1, <2>2
<1>10. ComboInv'
  BY <1>0, <1>1, <1>5, <1>8, <1>9 DEF ComboInv, C!ClickedAsAsked
<1>11. FieldInv'
  BY <1>0, <1>1, <1>5 DEF FieldInv
<1>. QED  BY <1>1, <1>6, <1>10, <1>11, ChoiceNext

\* The one option that matches is the one to be clicked.
LEMMA JudgesNext ==
    ASSUME ControlsInv, C!Judges
    PROVE  ControlsInv'
<1>0. ControlForms /\ ComboInv /\ FieldInv
  BY DEF ControlsInv
<1>1. combo.at = "read" /\ UNCHANGED <<field, options, inputs, shown, upload, past>>
  BY DEF C!Judges, C!uploadVars
<1>2. field.chosen = None
  BY <1>0, <1>1 DEF ComboInv
<1>3. CASE C!Chooses("refused")
  BY <1>1, <1>2, <1>3, ChoosesNext
<1>4. ASSUME NEW at \in {"list", "check"}, NEW place,
             combo' = [combo EXCEPT !.at = at, !.place = place],
             at = "check" => \E r \in combo.read : r[1] = place /\ r[2] \in Asked
      PROVE  ControlsInv'
  <2>1. combo' = [at |-> at, count |-> combo.count, next |-> combo.next, read |-> combo.read,
                  place |-> place, result |-> combo.result]
    BY <1>0, <1>4 DEF ControlForms
  <2>2. combo'.at = at /\ combo'.read = combo.read /\ combo'.next = combo.next
        /\ combo'.result = combo.result /\ combo'.place = place
    BY <2>1
  <2>3. ControlForms'
    BY <1>0, <1>1, <2>1 DEF ControlForms
  <2>4. ComboInv'
    BY <1>0, <1>1, <1>2, <1>4, <2>2 DEF ComboInv, C!ClickedAsAsked
  <2>5. FieldInv'
    BY <1>0, <1>1, <2>2 DEF FieldInv
  <2>. QED  BY <1>1, <2>3, <2>4, <2>5, ChoiceNext
<1>5. CASE combo' = [combo EXCEPT !.at = "list"]
  <2>1. combo' = [combo EXCEPT !.at = "list", !.place = combo.place]
    BY <1>0, <1>5 DEF ControlForms
  <2>. QED  BY <1>4, <2>1
<1>6. ASSUME NEW r \in C!Matches, combo' = [combo EXCEPT !.at = "check", !.place = r[1]]
      PROVE  ControlsInv'
  <2>1. r \in combo.read /\ r[2] \in Asked
    BY DEF C!Matches
  <2>. QED  BY <1>4, <1>6, <2>1
<1>. QED  BY <1>3, <1>5, <1>6 DEF C!Judges

\* At the place there must still be what was read there, and that was asked for.
LEMMA ChecksNext ==
    ASSUME ControlsInv, C!Checks
    PROVE  ControlsInv'
<1>0. ControlForms /\ ComboInv /\ FieldInv
  BY DEF ControlsInv
<1>1. combo.at = "check" /\ UNCHANGED <<field, options, inputs, shown, upload>>
  BY DEF C!Checks, C!uploadVars
<1>2. field.chosen = None
  BY <1>0, <1>1 DEF ComboInv
<1>3. past' = [value |-> past.value, moved |-> FALSE, inputs |-> past.inputs, shown |-> past.shown]
  BY <1>0 DEF C!Checks, ControlForms
<1>4. past'.value = past.value /\ past'.inputs = past.inputs /\ past'.shown = past.shown
  BY <1>3
<1>. DEFINE at == combo'.at
            result == combo'.result
<1>5. /\ at \in {"click", "over"}
      /\ combo' = [at |-> at, count |-> combo.count, next |-> combo.next, read |-> combo.read,
                   place |-> combo.place, result |-> result]
      /\ at = "click" => C!Unchanged /\ result = combo.result
      /\ result # "selected" \/ result = combo.result
  <2>1. CASE C!Unchanged /\ combo' = [combo EXCEPT !.at = "click"]
    <3>1. combo' = [at |-> "click", count |-> combo.count, next |-> combo.next,
                    read |-> combo.read, place |-> combo.place, result |-> combo.result]
      BY <1>0, <2>1 DEF ControlForms
    <3>2. at = "click" /\ result = combo.result
      BY <3>1
    <3>. QED  BY <2>1, <3>1, <3>2
  <2>2. CASE C!Chooses("stale")
    <3>1. combo' = [at |-> "over", count |-> combo.count, next |-> combo.next,
                    read |-> combo.read, place |-> combo.place, result |-> "stale"]
      BY <1>0, <2>2 DEF ControlForms, C!Chooses
    <3>2. at = "over" /\ result = "stale"
      BY <3>1
    <3>. QED  BY <3>1, <3>2
  <2>. QED  BY <2>1, <2>2 DEF C!Checks
<1>. HIDE DEF at, result
<1>7. combo'.at = at /\ combo'.read = combo.read /\ combo'.next = combo.next
      /\ combo'.result = result /\ combo'.place = combo.place
  BY <1>5 DEF at, result
<1>8. ControlForms'
  BY <1>0, <1>1, <1>3, <1>5 DEF ControlForms
<1>9. at = "click" => options[combo.place] \in Asked
  <2>. SUFFICES ASSUME at = "click" PROVE options[combo.place] \in Asked
    OBVIOUS
  <2>1. PICK r \in combo.read : r[1] = combo.place /\ r[2] \in Asked
    BY <1>0, <1>1 DEF ComboInv
  <2>. DEFINE s == <<combo.place, options[combo.place]>>
  <2>2. s \in combo.read
    BY <1>5 DEF C!Unchanged
  <2>3. s[1] = combo.place /\ s[2] = options[combo.place]
    OBVIOUS
  <2>. HIDE DEF s
  <2>4. r = s
    BY <1>0, <2>1, <2>2, <2>3 DEF ComboInv
  <2>. QED  BY <2>1, <2>3, <2>4
<1>10. ComboInv'
  BY <1>0, <1>1, <1>2, <1>7, <1>9 DEF ComboInv, C!ClickedAsAsked
<1>11. FieldInv'
  <2>1. combo.result # "selected"
    BY <1>0, <1>1 DEF FieldInv
  <2>. QED  BY <1>0, <1>1, <1>4, <1>5, <1>7, <2>1 DEF FieldInv
<1>. QED  BY <1>1, <1>4, <1>8, <1>10, <1>11, ChoiceNext

\* What the click takes was asked for, unless the list was rendered after the check.
LEMMA ClicksNext ==
    ASSUME ControlsInv, C!Clicks
    PROVE  ControlsInv'
<1>0. ControlForms /\ ComboInv /\ FieldInv
  BY DEF ControlsInv
<1>1. combo.at = "click" /\ UNCHANGED <<options, inputs, shown, upload, past>>
  BY DEF C!Clicks, C!uploadVars
<1>2. field.chosen = None
  BY <1>0, <1>1 DEF ComboInv
<1>3. CASE C!Chooses("click_failed") /\ UNCHANGED field
  BY <1>1, <1>2, <1>3, ChoosesNext
<1>. DEFINE label == options[combo.place]
<1>4. CASE /\ combo' = [combo EXCEPT !.at = "confirm"]
           /\ \/ field' = [value |-> label, chosen |-> label, open |-> FALSE]
              \/ field' = [field EXCEPT !.open = FALSE]
              \/ field' = field
  <2>2. combo' = [at |-> "confirm", count |-> combo.count, next |-> combo.next,
                  read |-> combo.read, place |-> combo.place, result |-> combo.result]
    BY <1>0, <1>4 DEF ControlForms
  <2>3. combo'.at = "confirm" /\ combo'.read = combo.read /\ combo'.next = combo.next
        /\ combo'.result = combo.result /\ combo'.place = combo.place
    BY <2>2
  <2>4. /\ field' = [value |-> field'.value, chosen |-> field'.chosen, open |-> field'.open]
        /\ \/ field'.value = label /\ field'.chosen = label
           \/ field'.value = field.value /\ field'.chosen = field.chosen
    <3>1. CASE field' = [value |-> label, chosen |-> label, open |-> FALSE]
      BY <3>1
    <3>2. CASE field' = [field EXCEPT !.open = FALSE]
      BY <1>0, <3>2 DEF ControlForms
    <3>3. CASE field' = field
      BY <1>0, <3>3 DEF ControlForms
    <3>. QED  BY <1>4, <3>1, <3>2, <3>3
  <2>. HIDE DEF label
  <2>5. past.moved \/ label \in Asked
    BY <1>0, <1>1 DEF ComboInv, label
  <2>6. ControlForms'
    BY <1>0, <1>1, <2>2, <2>4 DEF ControlForms
  <2>7. ComboInv'
    BY <1>0, <1>1, <1>2, <2>3, <2>4, <2>5 DEF ComboInv, C!ClickedAsAsked
  <2>8. FieldInv'
    BY <1>0, <1>1, <1>2, <2>3, <2>4 DEF FieldInv
  <2>. QED  BY <1>1, <2>6, <2>7, <2>8, ChoiceNext
<1>. QED  BY <1>3, <1>4 DEF C!Clicks

\* The list is rendered anew: after the check the click may take anything.
LEMMA RendersNext ==
    ASSUME ControlsInv, C!Renders
    PROVE  ControlsInv'
<1>0. ControlForms /\ ComboInv /\ FieldInv
  BY DEF ControlsInv
<1>1. UNCHANGED <<field, combo, inputs, shown, upload>>
  BY DEF C!Renders, C!uploadVars
<1>. DEFINE moved == past.moved \/ combo.at = "click"
<1>2. past' = [value |-> past.value, moved |-> moved, inputs |-> past.inputs, shown |-> past.shown]
  BY <1>0 DEF C!Renders, ControlForms
<1>3. past'.value = past.value /\ past'.inputs = past.inputs /\ past'.shown = past.shown
      /\ past'.moved = moved
  BY <1>2
<1>4. (past.moved => past'.moved) /\ (combo.at = "click" => past'.moved)
  BY <1>3
<1>. HIDE DEF moved
<1>5. ControlForms'
  BY <1>0, <1>1, <1>2 DEF ControlForms
<1>6. ComboInv' /\ FieldInv'
  BY <1>0, <1>1, <1>3, <1>4 DEF ComboInv, FieldInv, C!ClickedAsAsked
<1>. QED  BY <1>1, <1>3, <1>5, <1>6, ChoiceNext

LEMMA SelectsNext ==
    ASSUME ControlsInv, C!Selects
    PROVE  ControlsInv'
<1>1. CASE C!Confirms
  <2>1. combo.at = "confirm" /\ UNCHANGED <<field, past, inputs, shown, upload>>
    BY <1>1 DEF C!Confirms, C!uploadVars
  <2>2. PICK result : C!Chooses(result) /\ (result = "selected" => field.value \in Asked)
    BY <1>1 DEF C!Confirms
  <2>. QED  BY <2>1, <2>2, ChoosesNext
<1>. QED  BY <1>1, AimsNext, ReadsNext, JudgesNext, ChecksNext, ClicksNext, RendersNext
          DEF C!Selects

\* The upload: a step that takes no file leaves the page as it was.
LEMMA UploadsNext ==
    ASSUME ControlsInv, C!Uploads
    PROVE  ControlsInv'
<1>0. ControlForms /\ UploadInv
  BY DEF ControlsInv
<1>1. UNCHANGED <<field, options, combo, past>>
  BY DEF C!Uploads, C!Looks, C!Sets, C!Answers, C!LooksAgain, C!comboVars
<1>. DEFINE Before == \/ \E i \in DOMAIN past.inputs : past.inputs[i] = upload.files
                      \/ \A n \in upload.files : past.shown[n] = "beyond"
<1>2. ASSUME NEW at \in {"set", "confirm", "over"}, NEW sees, NEW took, NEW error, NEW result,
             upload' = [at |-> at, files |-> upload.files, seen |-> sees, took |-> took,
                        error |-> error, result |-> result],
             ~took => inputs' = past.inputs /\ shown' = past.shown,
             ~took /\ at \in {"set", "confirm"} =>
                sees = {n \in upload.files : past.shown[n] = "view"},
             at = "set" => ~took,
             result = "verified" => took \/ Before
      PROVE  ControlsInv'
  <2>1. /\ upload'.at = at /\ upload'.files = upload.files /\ upload'.seen = sees
        /\ upload'.took = took /\ upload'.result = result
    BY <1>2
  <2>2. ControlForms'
    BY <1>0, <1>1, <1>2 DEF ControlForms
  <2>3. UploadInv'
    BY <1>1, <1>2, <2>1 DEF UploadInv, C!VerifiedIsAttached
  <2>. QED  BY <1>1, <2>2, <2>3, UploadNext
<1>. HIDE DEF Before
<1>3. upload.result = "verified" => upload.took \/ Before
  BY <1>0 DEF UploadInv, C!VerifiedIsAttached, Before
<1>4. CASE C!Looks
  <2>1. upload.at = "look" /\ ~upload.took /\ UNCHANGED <<inputs, shown>>
    BY <1>0, <1>4 DEF C!Looks, UploadInv
  <2>2. inputs = past.inputs /\ shown = past.shown
    BY <1>0, <2>1 DEF UploadInv
  <2>3. CASE C!Uploaded("not_sent")
    <3>1. upload' = [at |-> "over", files |-> upload.files, seen |-> upload.seen,
                     took |-> upload.took, error |-> upload.error, result |-> "not_sent"]
      BY <1>0, <2>3 DEF C!Uploaded, ControlForms
    <3>. QED  BY <1>2, <2>1, <2>2, <3>1
  <2>4. CASE upload' = [upload EXCEPT !.at = "set", !.seen = {n \in upload.files : shown[n] = "view"}]
    <3>. DEFINE saw == {n \in upload.files : shown[n] = "view"}
    <3>1. upload' = [at |-> "set", files |-> upload.files, seen |-> saw,
                     took |-> upload.took, error |-> upload.error, result |-> upload.result]
      BY <1>0, <2>4 DEF ControlForms
    <3>2. saw = {n \in upload.files : past.shown[n] = "view"}
      BY <2>2
    <3>. HIDE DEF saw
    <3>. QED  BY <1>2, <1>3, <2>1, <2>2, <3>1, <3>2
  <2>. QED  BY <1>4, <2>3, <2>4 DEF C!Looks
<1>5. CASE C!Sets
  <2>1. upload.at = "set" /\ UNCHANGED shown /\ ~upload.took
    BY <1>0, <1>5 DEF C!Sets, UploadInv
  <2>2. PICK took \in BOOLEAN, error \in BOOLEAN :
           /\ upload' = [upload EXCEPT !.at = "confirm", !.took = took, !.error = error]
           /\ ~took => inputs' = inputs
    BY <1>5 DEF C!Sets
  <2>3. upload' = [at |-> "confirm", files |-> upload.files, seen |-> upload.seen,
                   took |-> took, error |-> error, result |-> upload.result]
    BY <1>0, <2>2 DEF ControlForms
  <2>4. /\ inputs = past.inputs /\ shown = past.shown
        /\ upload.seen = {n \in upload.files : past.shown[n] = "view"}
    BY <1>0, <2>1 DEF UploadInv
  <2>5. upload.result = "verified" => took \/ Before
    BY <1>3, <2>1
  <2>6. ~took => inputs' = past.inputs /\ shown' = past.shown
    BY <2>1, <2>2, <2>4
  <2>7. ~took => upload.seen = {n \in upload.files : past.shown[n] = "view"}
    BY <2>4
  <2>. QED  BY <1>2, <2>3, <2>5, <2>6, <2>7
<1>6. CASE C!Answers
  <2>1. upload.at = "confirm" /\ upload.took /\ UNCHANGED upload
    BY <1>6 DEF C!Answers
  <2>2. ControlForms' /\ UploadInv'
    BY <1>0, <1>1, <2>1 DEF ControlForms, UploadInv, C!VerifiedIsAttached
  <2>. QED  BY <1>1, <2>2, UploadNext
<1>7. CASE C!LooksAgain
  <2>1. upload.at = "confirm" /\ UNCHANGED <<inputs, shown>>
    BY <1>7 DEF C!LooksAgain
  <2>2. PICK result : C!Uploaded(result) /\ (result = "verified" => C!Verified)
    BY <1>7 DEF C!LooksAgain, C!Confirmed
  <2>3. upload' = [at |-> "over", files |-> upload.files, seen |-> upload.seen,
                   took |-> upload.took, error |-> upload.error, result |-> result]
    BY <1>0, <2>2 DEF ControlForms, C!Uploaded
  <2>4. ASSUME C!Verified, ~upload.took PROVE Before
    <3>1. /\ inputs = past.inputs /\ shown = past.shown /\ shown \in C!Shown
          /\ upload.seen = {n \in upload.files : shown[n] = "view"}
      BY <1>0, <2>1, <2>4 DEF UploadInv, ControlForms
    <3>2. CASE C!Held
      BY <3>1, <3>2 DEF C!Held, Before
    <3>3. CASE C!Fresh = upload.files
      <4>1. ASSUME NEW n \in upload.files PROVE shown[n] = "beyond"
        <5>1. shown[n] # "no" /\ n \notin upload.seen
          BY <3>3 DEF C!Fresh
        <5>2. shown[n] # "view"
          BY <3>1, <5>1
        <5>3. n \in Name
          BY <1>0 DEF ControlForms
        <5>. QED  BY <3>1, <5>1, <5>2, <5>3 DEF C!Shown
      <4>. QED  BY <3>1, <4>1 DEF Before
    <3>. QED  BY <2>4, <3>2, <3>3 DEF C!Verified
  <2>5. ~upload.took => inputs' = past.inputs /\ shown' = past.shown
    BY <1>0, <2>1 DEF UploadInv
  <2>. QED  BY <1>2, <2>2, <2>3, <2>4, <2>5
<1>. QED  BY <1>4, <1>5, <1>6, <1>7 DEF C!Uploads

LEMMA ControlsNext == ControlsInv /\ [C!Next]_controlVars => ControlsInv'
<1>1. ControlsInv /\ UNCHANGED controlVars => ControlsInv'
  BY DEF controlVars, ControlsInv, ControlForms, ComboInv, FieldInv, UploadInv,
         C!ClickedAsAsked, C!VerifiedIsAttached
<1>. QED  BY <1>1, SelectsNext, UploadsNext DEF C!Next

LEMMA ControlsTell == ControlsInv => C!ControlsTellTheTruth
BY SurfacesInstance
   DEF ControlsInv, ComboInv, FieldInv, UploadInv, C!ControlsTellTheTruth, C!SelectedIsChosen,
       C!ControlsAssumption

(* The waits for a video.                                                   *)

\* The video in the page, and what its records are made of.
Current == <<video.el, video.src>>

VideoForms ==
    /\ video \in [el : Element, src : Source, at : 0..Length, loops : BOOLEAN, paused : BOOLEAN]
    /\ samples \in Seq(Element)
    /\ \A i, j \in DOMAIN samples : samples[i] = samples[j] => i = j
    /\ wait = [for |-> wait.for, previous |-> wait.previous, progressed |-> wait.progressed,
               nearEnd |-> wait.nearEnd, invalid |-> wait.invalid, result |-> wait.result]
    /\ wait.for \in {"playing", "completed_once"}
    /\ wait.previous # None => wait.previous \in [token : Nat, src : Source, at : 0..Length]
    /\ watched = [of |-> watched.of, wrapped |-> watched.wrapped, advanced |-> watched.advanced,
                  sought |-> watched.sought, reloaded |-> watched.reloaded]

\* As long as the chain of samples is whole it has been of one element and source.
ChainInv ==
    /\ wait.previous = None => watched.of = {} /\ ~wait.progressed
    /\ wait.previous # None /\ ~wait.invalid =>
          /\ wait.previous.token \in DOMAIN samples
          /\ watched.of = {<<samples[wait.previous.token], wait.previous.src>>}

\* While that one is in the page it has been there since it was sampled: its position has
\* changed by playing only, and falls behind by going around only.
PlayInv ==
    wait.previous # None /\ ~wait.invalid /\ watched.of = {Current} =>
        /\ wait.progressed => watched.advanced
        /\ video.at # wait.previous.at => watched.advanced
        /\ video.at < wait.previous.at => watched.wrapped

VideoInv ==
    /\ VideoForms
    /\ ~watched.sought /\ ~watched.reloaded => ChainInv /\ PlayInv
    /\ V!PlayedAsWatched

LEMMA VideoInit == V!Init => VideoInv
<1>. SUFFICES ASSUME V!Init PROVE VideoInv
  OBVIOUS
<1>1. PICK e \in Element, s \in Source, loops \in BOOLEAN :
         video = [el |-> e, src |-> s, at |-> 0, loops |-> loops, paused |-> FALSE]
  BY DEF V!Init
<1>2. PICK c \in {"playing", "completed_once"} :
         wait = [for |-> c, previous |-> None, progressed |-> FALSE, nearEnd |-> FALSE,
                 invalid |-> FALSE, result |-> None]
  BY DEF V!Init
<1>3. /\ samples = <<>>
      /\ watched = [of |-> {}, wrapped |-> FALSE, advanced |-> FALSE, sought |-> FALSE, reloaded |-> FALSE]
  BY DEF V!Init
<1>4. Length \in Nat /\ None # "satisfied"
  BY SurfacesInstance DEF V!LengthAssumption
<1>5. video \in [el : Element, src : Source, at : 0..Length, loops : BOOLEAN, paused : BOOLEAN]
  BY <1>1, <1>4
<1>6. VideoForms
  BY <1>2, <1>3, <1>5 DEF VideoForms
<1>7. wait.previous = None /\ ~wait.progressed /\ watched.of = {} /\ wait.result = None
  BY <1>2, <1>3
<1>. QED  BY <1>4, <1>6, <1>7 DEF VideoInv, ChainInv, PlayInv, V!PlayedAsWatched

\* Playing goes on.
LEMMA PlaysNext ==
    ASSUME VideoInv, wait.result = None, V!Plays
    PROVE  VideoInv'
<1>0. VideoForms
  BY DEF VideoInv
<1>1. UNCHANGED <<samples, wait, turns>>
  BY DEF V!Plays
<1>. DEFINE at == IF video.at = Length THEN 0 ELSE video.at + 1
<1>2. video' = [el |-> video.el, src |-> video.src, at |-> at, loops |-> video.loops, paused |-> video.paused]
  BY <1>0 DEF V!Plays, VideoForms
<1>3. Length \in Nat /\ None # "satisfied" /\ video.at \in 0..Length /\ at \in 0..Length
  BY <1>0, SurfacesInstance DEF VideoForms, V!LengthAssumption
<1>4. watched' = [of |-> watched.of, wrapped |-> (watched.wrapped \/ video.at = Length),
                  advanced |-> TRUE, sought |-> watched.sought, reloaded |-> watched.reloaded]
  BY <1>0 DEF V!Plays, VideoForms
<1>5. /\ watched'.of = watched.of /\ watched'.sought = watched.sought
      /\ watched'.reloaded = watched.reloaded /\ watched'.advanced
      /\ watched.wrapped \/ video.at = Length => watched'.wrapped
  BY <1>4
<1>6. video'.at = at /\ video'.el = video.el /\ video'.src = video.src
  BY <1>2
<1>7. at < video.at => video.at = Length
  BY <1>3
<1>8. VideoForms'
  <2>1. video' \in [el : Element, src : Source, at : 0..Length, loops : BOOLEAN, paused : BOOLEAN]
    BY <1>0, <1>2, <1>3 DEF VideoForms
  <2>. QED  BY <1>0, <1>1, <1>4, <2>1 DEF VideoForms
<1>9. ASSUME ~watched.sought, ~watched.reloaded PROVE ChainInv' /\ PlayInv'
  <2>1. ChainInv'
    BY <1>1, <1>5, <1>9 DEF VideoInv, ChainInv
  <2>2. ASSUME wait.previous # None, ~wait.invalid, watched.of = {Current}, at < wait.previous.at
        PROVE  watched'.wrapped
    <3>1. wait.previous.at \in 0..Length
      BY <1>0, <2>2 DEF VideoForms
    <3>2. video.at < wait.previous.at \/ video.at = Length
      BY <1>3, <2>2, <3>1
    <3>3. video.at < wait.previous.at => watched.wrapped
      BY <1>9, <2>2 DEF VideoInv, PlayInv
    <3>. QED  BY <1>5, <3>2, <3>3
  <2>3. Current' = Current
    BY <1>6 DEF Current
  <2>4. PlayInv'
    BY <1>1, <1>5, <1>6, <2>2, <2>3 DEF PlayInv
  <2>. QED  BY <2>1, <2>4
<1>10. V!PlayedAsWatched'
  BY <1>1, <1>3 DEF V!PlayedAsWatched
<1>. QED  BY <1>5, <1>8, <1>9, <1>10 DEF VideoInv

\* What is done to the video: it is paused or goes on, is sought in, replaced by one that
\* was not sampled unless it was itself, or loaded again.
LEMMA TurnsNext ==
    ASSUME VideoInv, wait.result = None, V!Pauses \/ V!Seeks \/ V!Replaces \/ V!Reloads
    PROVE  VideoInv'
<1>0. VideoForms /\ Length \in Nat /\ None # "satisfied"
  BY SurfacesInstance DEF VideoInv, V!LengthAssumption
<1>1. UNCHANGED wait
  BY DEF V!Pauses, V!Seeks, V!Replaces, V!Reloads
<1>2. V!PlayedAsWatched'
  BY <1>0, <1>1 DEF V!PlayedAsWatched
<1>3. CASE V!Pauses
  <2>1. /\ video' = [el |-> video.el, src |-> video.src, at |-> video.at, loops |-> video.loops,
                     paused |-> ~video.paused]
        /\ UNCHANGED <<samples, watched>>
    BY <1>0, <1>3 DEF V!Pauses, VideoForms
  <2>2. video'.el = video.el /\ video'.src = video.src /\ video'.at = video.at
    BY <2>1
  <2>3. video' \in [el : Element, src : Source, at : 0..Length, loops : BOOLEAN, paused : BOOLEAN]
    BY <1>0, <2>1 DEF VideoForms
  <2>4. VideoForms'
    BY <1>0, <1>1, <2>1, <2>3 DEF VideoForms
  <2>5. Current' = Current
    BY <2>2 DEF Current
  <2>6. ~watched.sought /\ ~watched.reloaded => ChainInv' /\ PlayInv'
    BY <1>1, <2>1, <2>2, <2>5 DEF VideoInv, ChainInv, PlayInv
  <2>. QED  BY <1>2, <2>1, <2>4, <2>6 DEF VideoInv
<1>4. CASE V!Seeks
  <2>1. PICK at \in 0..Length : video' = [video EXCEPT !.at = at]
    BY <1>4 DEF V!Seeks
  <2>2. video' \in [el : Element, src : Source, at : 0..Length, loops : BOOLEAN, paused : BOOLEAN]
    BY <1>0, <2>1 DEF VideoForms
  <2>3. /\ watched' = [of |-> watched.of, wrapped |-> watched.wrapped, advanced |-> watched.advanced,
                       sought |-> TRUE, reloaded |-> watched.reloaded]
        /\ UNCHANGED samples
    BY <1>0, <1>4 DEF V!Seeks, VideoForms
  <2>4. VideoForms'
    BY <1>0, <1>1, <2>2, <2>3 DEF VideoForms
  <2>. QED  BY <1>2, <2>3, <2>4 DEF VideoInv
<1>5. CASE V!Replaces
  <2>1. PICK e \in Element, s \in Source :
           /\ <<e, s>> # <<video.el, video.src>>
           /\ <<e, s>> \in watched.of => <<video.el, video.src>> \in watched.of
           /\ video' = [video EXCEPT !.el = e, !.src = s, !.at = 0]
    BY <1>5 DEF V!Replaces
  <2>2. /\ video' \in [el : Element, src : Source, at : 0..Length, loops : BOOLEAN, paused : BOOLEAN]
        /\ video'.el = e /\ video'.src = s
    <3>1. video' = [el |-> e, src |-> s, at |-> 0, loops |-> video.loops, paused |-> video.paused]
      BY <1>0, <2>1 DEF VideoForms
    <3>2. video.loops \in BOOLEAN /\ video.paused \in BOOLEAN /\ 0 \in 0..Length
      BY <1>0 DEF VideoForms
    <3>. QED  BY <3>1, <3>2
  <2>3. /\ watched' = [of |-> watched.of, wrapped |-> FALSE, advanced |-> FALSE,
                       sought |-> watched.sought, reloaded |-> watched.reloaded]
        /\ UNCHANGED samples
    BY <1>0, <1>5 DEF V!Replaces, V!Replaced, VideoForms
  <2>4. watched'.of = watched.of /\ watched'.sought = watched.sought
        /\ watched'.reloaded = watched.reloaded
    BY <2>3
  <2>5. VideoForms'
    BY <1>0, <1>1, <2>2, <2>3 DEF VideoForms
  <2>6. Current' = <<e, s>>
    BY <2>2 DEF Current
  <2>7. watched.of # {<<e, s>>}
    BY <2>1
  <2>8. ~watched.sought /\ ~watched.reloaded => ChainInv' /\ PlayInv'
    BY <1>1, <2>3, <2>4, <2>6, <2>7 DEF VideoInv, ChainInv, PlayInv
  <2>. QED  BY <1>2, <2>4, <2>5, <2>8 DEF VideoInv
<1>6. CASE V!Reloads
  <2>1. /\ video' = [video EXCEPT !.at = 0] /\ samples' = <<>>
        /\ watched' = [of |-> watched.of, wrapped |-> FALSE, advanced |-> FALSE,
                       sought |-> watched.sought, reloaded |-> TRUE]
    BY <1>0, <1>6 DEF V!Reloads, VideoForms
  <2>2. video' \in [el : Element, src : Source, at : 0..Length, loops : BOOLEAN, paused : BOOLEAN]
    BY <1>0, <2>1 DEF VideoForms
  <2>3. VideoForms'
    BY <1>0, <1>1, <2>1, <2>2 DEF VideoForms
  <2>. QED  BY <1>2, <2>1, <2>3 DEF VideoInv
<1>. QED  BY <1>3, <1>4, <1>5, <1>6

\* The element that is sampled has a token of its own from then on.
LEMMA TokenOfElement ==
    ASSUME VideoForms, V!Samples
    PROVE  /\ samples' \in Seq(Element)
           /\ \A i, j \in DOMAIN samples' : samples'[i] = samples'[j] => i = j
           /\ \A i \in DOMAIN samples : i \in DOMAIN samples' /\ samples'[i] = samples[i]
           /\ V!Token(video.el) \in DOMAIN samples' /\ V!Token(video.el) \in Nat
           /\ samples'[V!Token(video.el)] = video.el
<1>0. samples \in Seq(Element) /\ video.el \in Element
  BY DEF VideoForms
<1>1. CASE video.el \in V!ToSet(samples) /\ samples' = samples
  <2>1. \E k \in DOMAIN samples' : samples'[k] = video.el
    BY <1>1 DEF V!ToSet
  <2>2. V!Token(video.el) \in DOMAIN samples' /\ samples'[V!Token(video.el)] = video.el
    BY <2>1 DEF V!Token
  <2>. QED  BY <1>0, <1>1, <2>2 DEF VideoForms
<1>2. CASE video.el \notin V!ToSet(samples) /\ samples' = Append(samples, video.el)
  <2>1. /\ samples' \in Seq(Element) /\ Len(samples') = Len(samples) + 1
        /\ \A i \in 1..Len(samples) : samples'[i] = samples[i]
        /\ samples'[Len(samples) + 1] = video.el
    BY <1>0, <1>2, AppendProperties
  <2>2. /\ DOMAIN samples = 1..Len(samples) /\ DOMAIN samples' = 1..(Len(samples) + 1)
        /\ Len(samples) \in Nat
    BY <1>0, <2>1
  <2>3. \A i \in 1..Len(samples) : samples[i] # video.el
    BY <1>2, <2>2 DEF V!ToSet
  <2>4. \A i \in DOMAIN samples' : i \in 1..Len(samples) \/ i = Len(samples) + 1
    BY <2>2
  <2>5. \A i, j \in DOMAIN samples' : samples'[i] = samples'[j] => i = j
    BY <2>1, <2>2, <2>3, <2>4 DEF VideoForms
  <2>6. \E k \in DOMAIN samples' : samples'[k] = video.el
    BY <2>1, <2>2
  <2>7. V!Token(video.el) \in DOMAIN samples' /\ samples'[V!Token(video.el)] = video.el
    BY <2>6 DEF V!Token
  <2>8. V!Token(video.el) \in Nat
    BY <2>2, <2>7
  <2>. QED  BY <2>1, <2>2, <2>5, <2>7, <2>8
<1>. QED  BY <1>1, <1>2 DEF V!Samples

\* A sample: the chain is whole if the last one was of the same element and source.
LEMMA PollsNext ==
    ASSUME VideoInv, V!Polls
    PROVE  VideoInv'
<1>0. VideoForms /\ Length \in Nat /\ None \notin [token : Nat, src : Source, at : Nat]
  BY SurfacesInstance DEF VideoInv, V!LengthAssumption
<1>. DEFINE token == V!Token(video.el)
            sample == [token |-> token, src |-> video.src, at |-> video.at]
            wait1(ready) ==
               [for |-> wait.for, previous |-> sample, progressed |-> V!Progressed(sample),
                nearEnd |-> V!NearEnd, invalid |-> V!Invalid(sample),
                result |-> IF V!Satisfied(sample, ready) THEN "satisfied" ELSE None]
<1>1. PICK ready \in BOOLEAN : wait' = wait1(ready)
  BY <1>0 DEF V!Polls, VideoForms
<1>2. V!Samples /\ UNCHANGED video
  BY DEF V!Polls, V!Samples
<1>3. watched' = [of |-> watched.of \cup {Current}, wrapped |-> watched.wrapped,
                  advanced |-> watched.advanced, sought |-> watched.sought,
                  reloaded |-> watched.reloaded]
  BY <1>0 DEF V!Polls, VideoForms, Current
<1>4. /\ watched'.of = watched.of \cup {Current} /\ watched'.wrapped = watched.wrapped
      /\ watched'.advanced = watched.advanced /\ watched'.sought = watched.sought
      /\ watched'.reloaded = watched.reloaded
  BY <1>3
<1>5. token \in Nat /\ token \in DOMAIN samples' /\ samples'[token] = video.el
  BY <1>0, <1>2, TokenOfElement
<1>6. video.src \in Source /\ video.at \in 0..Length
  BY <1>0 DEF VideoForms
<1>. HIDE DEF token
<1>7. /\ sample \in [token : Nat, src : Source, at : 0..Length] /\ sample # None
      /\ sample.token = token /\ sample.src = video.src /\ sample.at = video.at
  BY <1>0, <1>5, <1>6
<1>. HIDE DEF sample
<1>8. /\ wait' = [for |-> wait'.for, previous |-> wait'.previous, progressed |-> wait'.progressed,
                  nearEnd |-> wait'.nearEnd, invalid |-> wait'.invalid, result |-> wait'.result]
      /\ wait'.for = wait.for /\ wait'.previous = sample
      /\ wait'.progressed = V!Progressed(sample) /\ wait'.invalid = V!Invalid(sample)
      /\ wait'.result = IF V!Satisfied(sample, ready) THEN "satisfied" ELSE None
  BY <1>1
<1>. HIDE DEF wait1
<1>9. VideoForms'
  BY <1>0, <1>2, <1>3, <1>7, <1>8, TokenOfElement DEF VideoForms
<1>10. Current' = Current
  BY <1>2 DEF Current
<1>11. ASSUME ~watched.sought, ~watched.reloaded, ~V!Invalid(sample)
       PROVE  /\ watched'.of = {Current}
              /\ V!Progressed(sample) => watched.advanced
              /\ wait.previous # None /\ video.at < wait.previous.at => watched.wrapped
  <2>1. ChainInv /\ PlayInv
    BY <1>11 DEF VideoInv
  <2>2. CASE wait.previous = None
    <3>1. watched.of = {} /\ ~wait.progressed
      BY <2>1, <2>2 DEF ChainInv
    <3>. QED  BY <1>4, <2>2, <3>1 DEF V!Progressed
  <2>3. CASE wait.previous # None
    <3>1. ~wait.invalid /\ token = wait.previous.token /\ video.src = wait.previous.src
      BY <1>7, <1>11, <2>3 DEF V!Invalid
    <3>2. /\ token \in DOMAIN samples
          /\ watched.of = {<<samples[token], video.src>>}
      BY <2>1, <2>3, <3>1 DEF ChainInv
    <3>3. samples[token] = video.el
      BY <1>0, <1>2, <1>5, <3>2, TokenOfElement
    <3>4. watched.of = {Current}
      BY <3>2, <3>3 DEF Current
    <3>5. wait.previous.at \in 0..Length
      BY <1>0, <2>3 DEF VideoForms
    <3>6. V!Progressed(sample) => watched.advanced
      BY <1>6, <1>7, <2>1, <2>3, <3>1, <3>4, <3>5 DEF PlayInv, V!Progressed
    <3>7. video.at < wait.previous.at => watched.wrapped
      BY <2>1, <2>3, <3>1, <3>4 DEF PlayInv
    <3>. QED  BY <1>4, <3>4, <3>6, <3>7
  <2>. QED  BY <2>2, <2>3
<1>12. ASSUME ~watched.sought, ~watched.reloaded PROVE ChainInv' /\ PlayInv'
  <2>1. ASSUME ~V!Invalid(sample)
        PROVE  watched'.of = {<<samples'[token], video.src>>} /\ token \in DOMAIN samples'
    BY <1>5, <1>11, <1>12, <2>1 DEF Current
  <2>2. ChainInv'
    BY <1>7, <1>8, <2>1 DEF ChainInv
  <2>3. PlayInv'
    <3>1. video'.at = wait'.previous.at
      BY <1>2, <1>7, <1>8
    <3>2. wait'.progressed /\ ~wait'.invalid => watched'.advanced
      BY <1>4, <1>8, <1>11, <1>12
    <3>3. video'.at \in 0..Length /\ wait'.previous.at \in 0..Length
      BY <1>2, <1>6, <3>1
    <3>4. ~(video'.at < wait'.previous.at)
      BY <3>1, <3>3
    <3>. QED  BY <3>1, <3>2, <3>4 DEF PlayInv
  <2>. QED  BY <2>2, <2>3
<1>13. V!PlayedAsWatched'
  <2>. SUFFICES ASSUME wait'.result = "satisfied", ~watched.sought, ~watched.reloaded
                PROVE  \/ /\ watched'.of = {Current} /\ watched'.advanced /\ ~video.paused
                          /\ wait.for = "completed_once" => watched'.wrapped
                       \/ wait.for = "completed_once" /\ V!Ended
    <3>1. V!Ended' = V!Ended
      BY <1>2 DEF V!Ended
    <3>. QED  BY <1>2, <1>4, <1>8, <3>1 DEF V!PlayedAsWatched, Current
  <2>1. V!Satisfied(sample, ready)
    BY <1>8, SurfacesInstance DEF V!LengthAssumption
  <2>2. CASE wait.for = "playing"
    <3>1. ~V!Invalid(sample) /\ V!Progressed(sample) /\ ~video.paused
      BY <2>1, <2>2 DEF V!Satisfied
    <3>. QED  BY <1>4, <1>11, <2>2, <3>1
  <2>3. CASE wait.for # "playing" /\ ~V!Ended
    <3>1. /\ ~V!Invalid(sample) /\ V!Progressed(sample) /\ ~video.paused
          /\ wait.previous # None /\ video.at < wait.previous.at
      BY <1>7, <2>1, <2>3 DEF V!Satisfied
    <3>. QED  BY <1>4, <1>11, <3>1
  <2>4. CASE wait.for # "playing" /\ V!Ended
    BY <1>0, <2>4 DEF VideoForms
  <2>. QED  BY <2>2, <2>3, <2>4
<1>. QED  BY <1>4, <1>9, <1>12, <1>13 DEF VideoInv

LEMMA VideoNext == VideoInv /\ [V!Next]_videoVars => VideoInv'
<1>1. VideoInv /\ UNCHANGED videoVars => VideoInv'
  BY DEF videoVars, VideoInv, VideoForms, ChainInv, PlayInv, Current, V!PlayedAsWatched, V!Ended
<1>2. ASSUME VideoInv, V!TimesOut PROVE VideoInv'
  <2>1. /\ wait' = [for |-> wait.for, previous |-> wait.previous, progressed |-> wait.progressed,
                    nearEnd |-> wait.nearEnd, invalid |-> wait.invalid, result |-> "timeout"]
        /\ UNCHANGED <<video, samples, watched>>
    BY <1>2 DEF V!TimesOut, VideoInv, VideoForms
  <2>2. /\ wait'.for = wait.for /\ wait'.previous = wait.previous /\ wait'.progressed = wait.progressed
        /\ wait'.invalid = wait.invalid /\ wait'.result = "timeout"
    BY <2>1
  <2>3. VideoForms'
    BY <1>2, <2>1 DEF VideoInv, VideoForms
  <2>4. Current' = Current
    BY <2>1 DEF Current
  <2>5. ~watched.sought /\ ~watched.reloaded => ChainInv' /\ PlayInv'
    BY <1>2, <2>1, <2>2, <2>4 DEF VideoInv, ChainInv, PlayInv
  <2>. QED  BY <2>1, <2>2, <2>3, <2>5 DEF VideoInv, V!PlayedAsWatched
<1>. QED  BY <1>1, <1>2, PlaysNext, TurnsNext, PollsNext DEF V!Next

(* The judges of a generated answer.                                        *)

Samples ==
    [text : Texts, active : BOOLEAN, at : Nat, failed : BOOLEAN, ours : BOOLEAN, fresh : BOOLEAN]

\* A sample that would count as one more of an idle text.
IdleAt(h, i, baseline) ==
    h[i].fresh /\ ~h[i].active /\ h[i].text # baseline /\ h[i].text = S!TextBefore(h, i)

SampleForms ==
    /\ seen \in Seq(Samples) /\ \A i \in 1..Len(seen) : seen[i].at = i
    /\ monitor = [baseline |-> monitor.baseline, signature |-> monitor.signature,
                  text |-> monitor.text, progress |-> monitor.progress,
                  stable |-> monitor.stable, status |-> monitor.status]
    /\ adapter = [begun |-> adapter.begun, baseline |-> adapter.baseline, last |-> adapter.last,
                  inactive |-> adapter.inactive, stable |-> adapter.stable,
                  state |-> adapter.state]
    /\ adapter.stable \in Nat

\* Since position p what shows is what shows at l, and for no longer.
ShownSince(h, p, l) ==
    /\ \A j \in S!Freshes(h) : j >= p => S!Signature(h[j]) = S!Signature(h[l])
    /\ \A i \in S!Freshes(h) : i < p =>
          \E j \in S!Freshes(h) : j >= i /\ S!Signature(h[j]) # S!Signature(h[l])

\* The monitor holds what the last fresh sample showed, and since when it has shown.
ProgressInv ==
    /\ S!Freshes(seen) = {} => monitor.signature = None /\ monitor.text = Blank /\ monitor.progress = None
    /\ S!Freshes(seen) # {} => \E l \in S!Freshes(seen) :
          /\ \A k \in S!Freshes(seen) : k <= l
          /\ monitor.signature = S!Signature(seen[l]) /\ monitor.text = seen[l].text
          /\ monitor.progress \in S!Freshes(seen) /\ ShownSince(seen, monitor.progress, l)

\* It counts the last samples that are fresh and idle and show the text that was shown
\* before them, and no more could be counted.
StableInv ==
    /\ monitor.stable \in 0..Len(seen)
    /\ \A i \in (Len(seen) - monitor.stable + 1)..Len(seen) :
          seen[i].fresh /\ ~seen[i].active /\ seen[i].text = monitor.text
                        /\ seen[i].text # monitor.baseline
    /\ monitor.stable > 0 => S!TextBefore(seen, Len(seen) - monitor.stable + 1) = monitor.text
    /\ monitor.stable < Len(seen) => ~IdleAt(seen, Len(seen) - monitor.stable, monitor.baseline)

StatusInv ==
    /\ seen = <<>> => monitor.status = "observing"
    /\ seen # <<>> =>
        LET last == seen[Len(seen)] IN
        monitor.status = IF monitor.stable >= Required THEN "completed"
                         ELSE IF last.fresh /\ last.active /\ last.at - monitor.progress >= Lease
                         THEN "generation_stalled" ELSE "observing"

\* Undisturbed the adapter counts what the monitor counts, and what it showed first.
AdapterInv ==
    adapter.begun =>
        /\ adapter.baseline = monitor.baseline
        /\ S!Undisturbed /\ monitor.stable >= 1 => adapter.inactive = monitor.text /\ adapter.stable >= 1
        /\ S!Undisturbed /\ monitor.stable >= 2 =>
              adapter.state \in {"completed", "cancelled", "observation_unavailable"}

SamplingInv == SampleForms /\ ProgressInv /\ StableInv /\ StatusInv /\ AdapterInv

LEMMA SamplingInit == S!Init => SamplingInv
<1>. SUFFICES ASSUME S!Init PROVE SamplingInv
  OBVIOUS
<1>1. PICK b \in Baselines, ours \in BOOLEAN :
         /\ monitor = S!NewMonitor(b)
         /\ adapter = S!AdapterBegin(S!NewAdapter, [text |-> b, ours |-> ours])
  BY DEF S!Init
<1>2. monitor = [baseline |-> b, signature |-> None, text |-> Blank, progress |-> None,
                 stable |-> 0, status |-> "observing"]
  BY <1>1 DEF S!NewMonitor
<1>3. /\ adapter = [begun |-> adapter.begun, baseline |-> adapter.baseline, last |-> adapter.last,
                    inactive |-> adapter.inactive, stable |-> adapter.stable,
                    state |-> adapter.state]
      /\ adapter.stable = 0
      /\ adapter.begun => adapter.baseline = b
  <2>1. CASE ours
    <3>1. adapter = [begun |-> TRUE, baseline |-> b, last |-> b, inactive |-> None, stable |-> 0,
                     state |-> "pending"]
      BY <1>1, <2>1 DEF S!AdapterBegin
    <3>. QED  BY <3>1
  <2>2. CASE ~ours
    <3>1. adapter = [begun |-> FALSE, baseline |-> None, last |-> None, inactive |-> None,
                     stable |-> 0, state |-> "observation_unavailable"]
      BY <1>1, <2>2 DEF S!AdapterBegin, S!NewAdapter
    <3>. QED  BY <3>1
  <2>. QED  BY <2>1, <2>2
<1>4. seen = <<>> /\ Len(seen) = 0 /\ seen \in Seq(Samples)
  BY DEF S!Init
<1>5. monitor.baseline = b /\ monitor.signature = None /\ monitor.text = Blank
      /\ monitor.progress = None /\ monitor.stable = 0
      /\ monitor.status = "observing"
  BY <1>2
<1>6. SampleForms
  BY <1>2, <1>3, <1>4 DEF SampleForms
<1>7. S!Freshes(seen) = {}
  BY <1>4 DEF S!Freshes
<1>. QED  BY <1>3, <1>4, <1>5, <1>6, <1>7
          DEF SamplingInv, ProgressInv, StableInv, StatusInv, AdapterInv

(* What the histories amount to.                                            *)

\* Of some of the first n positions there is a last one.
LEMMA LastOne ==
    ASSUME NEW n \in Nat, NEW E \in SUBSET (1..n), E # {}
    PROVE  \E m \in E : \A k \in E : k <= m
<1>. DEFINE R == {n - k : k \in E}
<1>1. R \in SUBSET Nat /\ R # {}
  <2>1. \A k \in E : k \in 1..n /\ n - k \in Nat
    OBVIOUS
  <2>. QED  BY <2>1
<1>2. PICK r \in R : \A k \in R : r <= k
  BY <1>1, Smallest
<1>3. PICK m \in E : r = n - m
  BY <1>2
<1>4. ASSUME NEW k \in E PROVE k <= m
  <2>1. n - k \in R
    OBVIOUS
  <2>2. n - m <= n - k
    BY <1>2, <1>3, <2>1
  <2>. QED  BY <2>2
<1>. QED  BY <1>4

\* The text a sample is compared with is that of the last fresh one before it.
LEMMA TextOfLast ==
    ASSUME NEW h \in Seq(Samples), NEW i \in 1..(Len(h) + 1), NEW l \in S!Freshes(h), l < i,
           \A k \in S!Freshes(h) : k < i => k <= l
    PROVE  S!TextBefore(h, i) = h[l].text
<1>. DEFINE earlier == {j \in S!Freshes(h) : j < i}
            last == CHOOSE j \in earlier : \A k \in earlier : k <= j
<1>1. earlier \subseteq Int
  BY DEF S!Freshes
<1>2. l \in earlier /\ \A k \in earlier : k <= l
  OBVIOUS
<1>3. last \in earlier /\ \A k \in earlier : k <= last
  BY <1>2
<1>. HIDE DEF last
<1>4. last = l
  BY <1>1, <1>2, <1>3
<1>5. S!TextBefore(h, i) = IF earlier = {} THEN Blank ELSE h[last].text
  BY DEF S!TextBefore, last
<1>. QED  BY <1>2, <1>4, <1>5

\* A sample more changes nothing for those before it.
LEMMA TextStays ==
    ASSUME NEW h \in Seq(Samples), NEW s \in Samples, NEW i \in 1..Len(h)
    PROVE  S!TextBefore(Append(h, s), i) = S!TextBefore(h, i)
<1>. DEFINE more == Append(h, s)
            E == {j \in S!Freshes(h) : j < i}
<1>1. /\ more \in Seq(Samples) /\ Len(more) = Len(h) + 1 /\ Len(h) \in Nat
      /\ \A j \in 1..Len(h) : more[j] = h[j]
  BY AppendProperties
<1>2. {j \in S!Freshes(more) : j < i} = E
  BY <1>1 DEF S!Freshes
<1>3. CASE E = {}
  BY <1>2, <1>3 DEF S!TextBefore
<1>4. CASE E # {}
  <2>1. E \in SUBSET (1..Len(h))
    BY DEF S!Freshes
  <2>2. PICK l \in E : \A k \in E : k <= l
    BY <1>1, <1>4, <2>1, LastOne
  <2>3. l \in S!Freshes(h) /\ l \in S!Freshes(more) /\ l < i /\ h[l] = more[l]
    BY <1>1, <1>2, <2>1, <2>2
  <2>4. /\ \A k \in S!Freshes(h) : k < i => k <= l
        /\ \A k \in S!Freshes(more) : k < i => k <= l
    BY <1>2, <2>2
  <2>5. i \in 1..(Len(h) + 1) /\ i \in 1..(Len(more) + 1)
    BY <1>1
  <2>. HIDE DEF more, E
  <2>6. S!TextBefore(h, i) = h[l].text
    BY <2>3, <2>4, <2>5, TextOfLast
  <2>7. S!TextBefore(more, i) = more[l].text
    BY <1>1, <2>3, <2>4, <2>5, TextOfLast
  <2>. QED  BY <2>3, <2>6, <2>7 DEF more
<1>. QED  BY <1>3, <1>4

\* The monitor's count says whether the samples have settled.
LEMMA SettledIsCounted ==
    ASSUME SampleForms, StableInv, seen # <<>>
    PROVE  S!Settled(monitor.baseline, seen) <=> monitor.stable >= Required
<1>. DEFINE n == Len(seen)
            k == monitor.stable
<1>0. /\ Required \in Nat \ {0} /\ n \in Nat \ {0} /\ k \in 0..n /\ seen \in Seq(Samples)
  BY SurfacesInstance DEF SampleForms, StableInv, S!SamplingAssumption
<1>1. ASSUME NEW i \in 2..n, i - 1 \in S!Freshes(seen)
      PROVE  S!TextBefore(seen, i) = seen[i - 1].text
  <2>1. i \in 1..(Len(seen) + 1) /\ i - 1 < i
    BY <1>0
  <2>2. \A j \in S!Freshes(seen) : j < i => j <= i - 1
    BY DEF S!Freshes
  <2>. QED  BY <1>0, <1>1, <2>1, <2>2, TextOfLast
<1>2. ASSUME k >= Required PROVE S!Settled(monitor.baseline, seen)
  <2>1. \A i \in (n - k + 1)..n :
           seen[i].fresh /\ ~seen[i].active /\ seen[i].text = monitor.text
                         /\ seen[i].text # monitor.baseline
    BY DEF StableInv
  <2>2. n \in (n - k + 1)..n /\ (n - Required + 1)..n \subseteq (n - k + 1)..n /\ Len(seen) >= Required
    BY <1>0, <1>2
  <2>3. seen[n].text = monitor.text
    BY <2>1, <2>2
  <2>4. S!TextBefore(seen, n - Required + 1) = monitor.text
    <3>1. CASE k = Required
      BY <1>0, <3>1 DEF StableInv
    <3>2. CASE k > Required
      <4>1. n - Required + 1 \in 2..n /\ n - Required \in (n - k + 1)..n /\ n - Required \in 1..n
        BY <1>0, <3>2
      <4>2. (n - Required + 1) - 1 = n - Required
        BY <1>0
      <4>3. n - Required \in S!Freshes(seen) /\ seen[n - Required].text = monitor.text
        BY <2>1, <4>1 DEF S!Freshes
      <4>. HIDE DEF n
      <4>. QED  BY <1>1, <4>1, <4>2, <4>3
    <3>. QED  BY <1>0, <1>2, <3>1, <3>2
  <2>. QED  BY <2>1, <2>2, <2>3, <2>4 DEF S!Settled
<1>3. ASSUME S!Settled(monitor.baseline, seen), k < Required PROVE FALSE
  <2>. DEFINE z == n - k
  <2>1. /\ n >= Required
        /\ \A i \in (n - Required + 1)..n :
              seen[i].fresh /\ ~seen[i].active /\ seen[i].text = seen[n].text
                            /\ seen[i].text # monitor.baseline
        /\ S!TextBefore(seen, n - Required + 1) = seen[n].text
    BY <1>3 DEF S!Settled
  <2>2. z \in (n - Required + 1)..n /\ z \in 1..n /\ k < n
    BY <1>0, <1>3, <2>1
  <2>3. S!TextBefore(seen, z) = seen[n].text
    <3>1. CASE z = n - Required + 1
      BY <2>1, <3>1
    <3>2. CASE z # n - Required + 1
      <4>1. z - 1 \in (n - Required + 1)..n /\ z \in 2..n /\ z - 1 \in 1..n
        BY <1>0, <2>1, <2>2, <3>2
      <4>2. z - 1 \in S!Freshes(seen) /\ seen[z - 1].text = seen[n].text
        BY <2>1, <4>1 DEF S!Freshes
      <4>. HIDE DEF z
      <4>. QED  BY <1>1, <4>1, <4>2
    <3>. QED  BY <3>1, <3>2
  <2>4. IdleAt(seen, z, monitor.baseline)
    BY <2>1, <2>2, <2>3 DEF IdleAt
  <2>. QED  BY <2>2, <2>4 DEF StableInv
<1>. QED  BY <1>0, <1>2, <1>3

\* The time of the last progress says whether they are stuck.
LEMMA StuckIsTimed ==
    ASSUME SampleForms, ProgressInv, seen # <<>>
    PROVE  S!Stuck(seen) <=>
              LET last == seen[Len(seen)] IN
              last.fresh /\ last.active /\ last.at - monitor.progress >= Lease
<1>. DEFINE n == Len(seen)
<1>0. n \in Nat \ {0} /\ Lease \in Nat /\ \A i \in 1..n : seen[i].at = i
  BY SurfacesInstance DEF SampleForms, S!SamplingAssumption
<1>1. CASE ~seen[n].fresh
  BY <1>1 DEF S!Stuck
<1>2. CASE seen[n].fresh
  <2>. DEFINE F == S!Freshes(seen)
  <2>1. n \in F /\ F \subseteq 1..n
    BY <1>0, <1>2 DEF S!Freshes
  <2>2. PICK l \in F :
           /\ \A k \in F : k <= l
           /\ monitor.progress \in F
           /\ \A j \in F : j >= monitor.progress => S!Signature(seen[j]) = S!Signature(seen[l])
           /\ \A i \in F : i < monitor.progress =>
                 \E j \in F : j >= i /\ S!Signature(seen[j]) # S!Signature(seen[l])
    BY <2>1 DEF ProgressInv, ShownSince
  <2>3. l = n
    BY <1>0, <2>1, <2>2
  <2>4. S!Stuck(seen) <=> /\ seen[n].active
                          /\ \E i \in F : /\ seen[n].at - seen[i].at >= Lease
                                          /\ \A j \in F : j >= i => S!Signature(seen[j]) = S!Signature(seen[n])
    BY <1>0, <1>2 DEF S!Stuck
  <2>a. \A i \in F : i \in 1..n /\ i \in Int /\ seen[i].at = i
    BY <1>0, <2>1
  <2>b. monitor.progress \in 1..n /\ seen[n].at = n
    BY <1>0, <2>1, <2>2
  <2>. HIDE DEF F, n
  <2>5. ASSUME NEW i \in F, seen[n].at - seen[i].at >= Lease,
               \A j \in F : j >= i => S!Signature(seen[j]) = S!Signature(seen[n])
        PROVE  seen[n].at - monitor.progress >= Lease
    <3>1. i >= monitor.progress
      BY <2>2, <2>3, <2>5, <2>a, <2>b
    <3>2. n - i >= Lease
      BY <2>5, <2>a, <2>b
    <3>3. n - monitor.progress >= n - i
      BY <1>0, <2>a, <2>b, <3>1
    <3>. QED  BY <1>0, <2>a, <2>b, <3>2, <3>3
  <2>6. ASSUME seen[n].at - monitor.progress >= Lease
        PROVE  \E i \in F : /\ seen[n].at - seen[i].at >= Lease
                            /\ \A j \in F : j >= i => S!Signature(seen[j]) = S!Signature(seen[n])
    BY <1>0, <2>2, <2>3, <2>6, <2>a, <2>b
  <2>7. S!Stuck(seen) <=> seen[n].active /\ seen[n].at - monitor.progress >= Lease
    BY <2>4, <2>5, <2>6
  <2>. QED  BY <1>2, <2>7 DEF n
<1>. QED  BY <1>1, <1>2

LEMMA SamplingJudged == SamplingInv => S!JudgedAsSampled
<1>. SUFFICES ASSUME SamplingInv PROVE S!JudgedAsSampled
  OBVIOUS
<1>1. seen # <<>> => monitor.status = S!Judgement(monitor.baseline, seen)
  BY SettledIsCounted, StuckIsTimed DEF SamplingInv, StatusInv, S!Judgement
<1>2. ASSUME monitor.status = "completed", Required > 1, adapter.begun, S!Undisturbed
      PROVE  adapter.state \in {"completed", "cancelled", "observation_unavailable"}
  <2>1. monitor.stable \in Nat /\ Required \in Nat
    BY SurfacesInstance DEF SamplingInv, StableInv, SampleForms, S!SamplingAssumption
  <2>2. monitor.stable >= Required
    BY <1>2 DEF SamplingInv, StatusInv
  <2>. QED  BY <1>2, <2>1, <2>2 DEF SamplingInv, AdapterInv
<1>. QED  BY <1>1, <1>2 DEF S!JudgedAsSampled

(* A sample more.                                                           *)

LEMMA SamplingObserve ==
    ASSUME SamplingInv, NEW s \in Samples, s.at = Len(seen) + 1, seen' = Append(seen, s),
           monitor' = S!MonitorStep(monitor, s), adapter' = S!AdapterStep(adapter, s)
    PROVE  SamplingInv'
<1>. DEFINE n == Len(seen)
            F == S!Freshes(seen)
            moved == monitor.signature # None /\ monitor.signature # S!Signature(s)
            progress == IF s.fresh /\ (monitor.progress = None \/ moved) THEN s.at ELSE monitor.progress
            stable == IF S!SameIdleText(monitor, s) THEN monitor.stable + 1 ELSE 0
            idle == IF progress = None THEN 0 ELSE s.at - progress
            status == IF stable >= Required THEN "completed"
                      ELSE IF s.fresh /\ s.active /\ idle >= Lease THEN "generation_stalled"
                      ELSE "observing"
<1>a. /\ None \notin Nat /\ None \notin Texts \X BOOLEAN
      /\ Required \in Nat \ {0} /\ Lease \in Nat
  BY SurfacesInstance DEF S!SamplingAssumption
<1>b. SampleForms /\ ProgressInv /\ StableInv /\ StatusInv /\ AdapterInv
  BY DEF SamplingInv
<1>0. /\ n \in Nat /\ seen \in Seq(Samples) /\ seen' \in Seq(Samples) /\ Len(seen') = n + 1
      /\ \A j \in 1..n : seen'[j] = seen[j]
      /\ seen'[n + 1] = s /\ seen' # <<>> /\ s.at = n + 1
  BY <1>b, AppendProperties DEF SampleForms
<1>1. /\ F \subseteq 1..n
      /\ ~s.fresh => S!Freshes(seen') = F
      /\ s.fresh => S!Freshes(seen') = F \cup {n + 1}
  BY <1>0 DEF S!Freshes
<1>2. S!TextBefore(seen', n + 1) = monitor.text
  <2>1. CASE F = {}
    <3>1. {j \in S!Freshes(seen') : j < n + 1} = {}
      BY <1>0, <1>1, <2>1
    <3>2. S!TextBefore(seen', n + 1) = Blank
      BY <3>1 DEF S!TextBefore
    <3>3. monitor.text = Blank
      BY <1>b, <2>1 DEF ProgressInv
    <3>. QED  BY <3>2, <3>3
  <2>2. CASE F # {}
    <3>1. PICK l \in F : (\A k \in F : k <= l) /\ monitor.text = seen[l].text
      BY <1>b, <2>2 DEF ProgressInv
    <3>2. l \in S!Freshes(seen') /\ l < n + 1 /\ l \in 1..n
      BY <1>0, <1>1
    <3>3. \A k \in S!Freshes(seen') : k < n + 1 => k <= l
      BY <1>0, <1>1, <3>1
    <3>4. n + 1 \in 1..(Len(seen') + 1)
      BY <1>0
    <3>. HIDE DEF n, F
    <3>5. S!TextBefore(seen', n + 1) = seen'[l].text
      BY <1>0, <3>2, <3>3, <3>4, TextOfLast
    <3>. QED  BY <1>0, <3>1, <3>2, <3>5
  <2>. QED  BY <2>1, <2>2
<1>3. \A i \in 1..n : S!TextBefore(seen', i) = S!TextBefore(seen, i)
  BY <1>0, TextStays
<1>4. monitor' = [baseline |-> monitor.baseline,
                  signature |-> IF s.fresh THEN S!Signature(s) ELSE monitor.signature,
                  text |-> IF s.fresh THEN s.text ELSE monitor.text,
                  progress |-> progress, stable |-> stable, status |-> status]
  <2>1. monitor = [baseline |-> monitor.baseline, signature |-> monitor.signature,
                   text |-> monitor.text, progress |-> monitor.progress,
                   stable |-> monitor.stable, status |-> monitor.status]
    BY <1>b DEF SampleForms
  <2>. QED  BY <2>1 DEF S!MonitorStep
<1>. HIDE DEF progress, stable, status
<1>5. /\ monitor'.baseline = monitor.baseline /\ monitor'.progress = progress
      /\ monitor'.stable = stable /\ monitor'.status = status
      /\ s.fresh => monitor'.signature = S!Signature(s) /\ monitor'.text = s.text
      /\ ~s.fresh => monitor'.signature = monitor.signature /\ monitor'.text = monitor.text
  BY <1>4
<1>6. ProgressInv'
  <2>1. CASE ~s.fresh
    <3>1. progress = monitor.progress
      BY <2>1 DEF progress
    <3>2. \A j \in F : seen'[j] = seen[j]
      BY <1>0, <1>1
    <3>3. S!Freshes(seen') = F
      BY <1>1, <2>1
    <3>4. /\ monitor'.signature = monitor.signature /\ monitor'.text = monitor.text
          /\ monitor'.progress = monitor.progress
      BY <1>5, <2>1, <3>1
    <3>5. CASE F = {}
      BY <1>b, <3>3, <3>4, <3>5 DEF ProgressInv
    <3>6. CASE F # {}
      <4>1. PICK l \in F :
              /\ \A k \in F : k <= l
              /\ monitor.signature = S!Signature(seen[l]) /\ monitor.text = seen[l].text
              /\ monitor.progress \in F /\ ShownSince(seen, monitor.progress, l)
        BY <1>b, <3>6 DEF ProgressInv
      <4>2. ShownSince(seen', monitor.progress, l)
        BY <3>2, <3>3, <4>1 DEF ShownSince
      <4>. HIDE DEF F
      <4>. QED  BY <3>2, <3>3, <3>4, <3>6, <4>1, <4>2 DEF ProgressInv
    <3>. QED  BY <3>5, <3>6
  <2>2. CASE s.fresh
    <3>1. S!Freshes(seen') = F \cup {n + 1}
      BY <1>1, <2>2
    <3>2. monitor'.signature = S!Signature(seen'[n + 1]) /\ monitor'.text = seen'[n + 1].text
      BY <1>0, <1>5, <2>2
    <3>3. \A k \in F \cup {n + 1} : k <= n + 1 /\ k \in Nat
      BY <1>0, <1>1
    <3>4. SUFFICES /\ progress \in F \cup {n + 1}
                   /\ \A j \in F \cup {n + 1} : j >= progress => S!Signature(seen'[j]) = S!Signature(seen'[n + 1])
                   /\ \A i \in F \cup {n + 1} : i < progress =>
                         \E j \in F \cup {n + 1} : j >= i /\ S!Signature(seen'[j]) # S!Signature(seen'[n + 1])
      <4>. HIDE DEF F, n
      <4>1. n + 1 \in F \cup {n + 1} /\ monitor'.progress = progress
        BY <1>5
      <4>2. ShownSince(seen', progress, n + 1)
        BY <3>1, <3>4 DEF ShownSince
      <4>. QED  BY <3>1, <3>2, <3>3, <3>4, <4>1, <4>2 DEF ProgressInv
    <3>5. CASE F = {}
      <4>1. progress = n + 1
        BY <1>0, <1>b, <2>2, <3>5 DEF ProgressInv, progress
      <4>. QED  BY <1>0, <3>5, <4>1
    <3>6. CASE F # {}
      <4>1. PICK l \in F :
              /\ \A k \in F : k <= l
              /\ monitor.signature = S!Signature(seen[l])
              /\ monitor.progress \in F
              /\ \A j \in F : j >= monitor.progress => S!Signature(seen[j]) = S!Signature(seen[l])
              /\ \A i \in F : i < monitor.progress =>
                    \E j \in F : j >= i /\ S!Signature(seen[j]) # S!Signature(seen[l])
        BY <1>b, <3>6 DEF ProgressInv, ShownSince
      <4>2. \A j \in F : seen'[j] = seen[j] /\ j \in 1..n
        BY <1>0, <1>1
      <4>3. monitor.signature # None
        <5>1. seen[l] \in Samples
          BY <1>0, <4>2
        <5>2. S!Signature(seen[l]) \in Texts \X BOOLEAN
          BY <5>1 DEF Samples, S!Signature
        <5>. QED  BY <1>a, <4>1, <5>2
      <4>4. monitor.progress # None
        BY <1>0, <1>a, <4>1, <4>2
      <4>5. CASE S!Signature(seen[l]) # S!Signature(s)
        <5>1. progress = n + 1
          BY <1>0, <2>2, <4>1, <4>3, <4>5 DEF progress
        <5>2. \A j \in F \cup {n + 1} : j >= n + 1 => j = n + 1
          BY <1>0, <4>2
        <5>3. \A i \in F \cup {n + 1} : i < n + 1 => l >= i /\ l \in F
          BY <1>0, <4>1, <4>2
        <5>4. S!Signature(seen'[l]) # S!Signature(seen'[n + 1])
          BY <1>0, <4>2, <4>5
        <5>. HIDE DEF F, n
        <5>. QED  BY <5>1, <5>2, <5>3, <5>4
      <4>6. CASE S!Signature(seen[l]) = S!Signature(s)
        <5>1. progress = monitor.progress
          BY <4>1, <4>4, <4>6 DEF progress
        <5>2. S!Signature(seen'[n + 1]) = S!Signature(seen[l])
          BY <1>0, <4>6
        <5>3. \A i \in F \cup {n + 1} : i < monitor.progress => i \in F
          BY <1>0, <4>1, <4>2
        <5>. HIDE DEF F, n
        <5>. QED  BY <4>1, <4>2, <5>1, <5>2, <5>3
      <4>. QED  BY <4>5, <4>6
    <3>. QED  BY <3>5, <3>6
  <2>. QED  BY <2>1, <2>2
<1>7. StableInv'
  <2>1. CASE S!SameIdleText(monitor, s)
    <3>1. stable = monitor.stable + 1 /\ monitor.stable \in 0..n /\ stable \in 1..(n + 1)
      BY <1>0, <1>b, <2>1 DEF stable, StableInv
    <3>2. /\ s.fresh /\ s.text # monitor.baseline /\ s.text = monitor.text /\ ~s.active
          /\ monitor'.text = monitor.text
      BY <1>5, <2>1 DEF S!SameIdleText
    <3>3. (n + 1) - stable + 1 = n - monitor.stable + 1 /\ (n + 1) - stable = n - monitor.stable
      BY <1>0, <3>1
    <3>4. \A i \in (n - monitor.stable + 1)..(n + 1) :
             seen'[i].fresh /\ ~seen'[i].active /\ seen'[i].text = monitor.text
                            /\ seen'[i].text # monitor.baseline
      BY <1>0, <1>b, <3>1, <3>2 DEF StableInv
    <3>5. S!TextBefore(seen', n - monitor.stable + 1) = monitor.text
      <4>1. CASE monitor.stable = 0
        BY <1>0, <1>2, <4>1
      <4>2. CASE monitor.stable > 0
        BY <1>0, <1>3, <1>b, <3>1, <4>2 DEF StableInv
      <4>. QED  BY <3>1, <4>1, <4>2
    <3>6. monitor.stable < n => ~IdleAt(seen', n - monitor.stable, monitor.baseline)
      <4>. HAVE monitor.stable < n
      <4>1. n - monitor.stable \in 1..n
        BY <1>0, <3>1
      <4>2. ~IdleAt(seen, n - monitor.stable, monitor.baseline)
        BY <1>b DEF StableInv
      <4>. HIDE DEF n
      <4>. QED  BY <1>0, <1>3, <4>1, <4>2 DEF IdleAt
    <3>7. stable \in 0..(n + 1) /\ (stable < n + 1 => monitor.stable < n)
      BY <1>0, <3>1
    <3>. HIDE DEF n
    <3>. QED  BY <1>0, <1>5, <3>2, <3>3, <3>4, <3>5, <3>6, <3>7 DEF StableInv
  <2>2. CASE ~S!SameIdleText(monitor, s)
    <3>1. stable = 0
      BY <2>2 DEF stable
    <3>2. ~IdleAt(seen', n + 1, monitor.baseline)
      BY <1>0, <1>2, <2>2 DEF IdleAt, S!SameIdleText
    <3>3. (n + 1) - 0 = n + 1 /\ 0 \in 0..(n + 1) /\ ((n + 1) - 0 + 1)..(n + 1) = {} /\ ~(0 > 0)
      BY <1>0
    <3>. HIDE DEF n
    <3>. QED  BY <1>0, <1>5, <3>1, <3>2, <3>3 DEF StableInv
  <2>. QED  BY <2>1, <2>2
<1>8. StatusInv'
  <2>1. s.fresh => progress # None
    <3>. HAVE s.fresh
    <3>1. progress \in Nat
      BY <1>0, <1>1, <1>5, <1>6 DEF ProgressInv
    <3>. QED  BY <1>a, <3>1
  <2>2. status = IF stable >= Required THEN "completed"
                 ELSE IF s.fresh /\ s.active /\ s.at - progress >= Lease THEN "generation_stalled"
                 ELSE "observing"
    BY <2>1 DEF status
  <2>3. seen'[Len(seen')] = s
    BY <1>0
  <2>. QED  BY <1>0, <1>5, <2>2, <2>3 DEF StatusInv
<1>9. SampleForms' /\ AdapterInv'
  <2>1. seen' \in Seq(Samples) /\ \A i \in 1..Len(seen') : seen'[i].at = i
    BY <1>0, <1>b DEF SampleForms
  <2>2. monitor' = [baseline |-> monitor'.baseline, signature |-> monitor'.signature,
                    text |-> monitor'.text, progress |-> monitor'.progress,
                    stable |-> monitor'.stable, status |-> monitor'.status]
    BY <1>4
  <2>3. /\ adapter = [begun |-> adapter.begun, baseline |-> adapter.baseline, last |-> adapter.last,
                      inactive |-> adapter.inactive, stable |-> adapter.stable,
                      state |-> adapter.state]
        /\ adapter.stable \in Nat
    BY <1>b DEF SampleForms
  <2>4. S!Undisturbed' => S!Undisturbed /\ s.ours /\ ~s.failed
    <3>1. S!Undisturbed' <=> \A i \in DOMAIN seen' : seen'[i].ours /\ ~seen'[i].failed
      BY DEF S!Undisturbed
    <3>2. DOMAIN seen' = 1..(n + 1) /\ DOMAIN seen = 1..n
      BY <1>0
    <3>. QED  BY <1>0, <3>1, <3>2 DEF S!Undisturbed
  <2>5. stable >= 1 => s.fresh /\ ~s.active /\ s.text # monitor.baseline /\ s.text = monitor.text
                       /\ stable = monitor.stable + 1 /\ monitor.stable \in Nat
    BY <1>b DEF stable, S!SameIdleText, StableInv
  <2>6. CASE ~s.fresh \/ ~adapter.begun \/ ~s.ours
    <3>1. adapter' = [begun |-> adapter.begun, baseline |-> adapter.baseline, last |-> adapter.last,
                      inactive |-> adapter.inactive, stable |-> adapter.stable,
                      state |-> "observation_unavailable"]
      BY <2>3, <2>6 DEF S!AdapterStep
    <3>2. /\ adapter'.begun = adapter.begun /\ adapter'.baseline = adapter.baseline
          /\ adapter'.stable = adapter.stable
      BY <3>1
    <3>3. SampleForms'
      BY <2>1, <2>2, <2>3, <3>1, <3>2 DEF SampleForms
    <3>4. adapter.begun /\ S!Undisturbed' => ~(stable >= 1)
      BY <2>4, <2>5, <2>6
    <3>5. stable \in Nat
      BY <1>b DEF stable, StableInv
    <3>6. AdapterInv'
      BY <1>5, <1>b, <3>2, <3>4, <3>5 DEF AdapterInv
    <3>. QED  BY <3>3, <3>6
  <2>7. CASE s.fresh /\ adapter.begun /\ s.ours /\ s.failed
    <3>1. adapter' = [begun |-> adapter.begun, baseline |-> adapter.baseline, last |-> s.text,
                      inactive |-> adapter.inactive, stable |-> adapter.stable, state |-> "failed"]
      BY <2>3, <2>7 DEF S!AdapterStep
    <3>2. /\ adapter'.begun = adapter.begun /\ adapter'.baseline = adapter.baseline
          /\ adapter'.stable = adapter.stable
      BY <3>1
    <3>3. SampleForms'
      BY <2>1, <2>2, <2>3, <3>1, <3>2 DEF SampleForms
    <3>4. ~S!Undisturbed'
      BY <2>4, <2>7
    <3>5. AdapterInv'
      BY <1>5, <1>b, <3>2, <3>4 DEF AdapterInv
    <3>. QED  BY <3>3, <3>5
  <2>8. CASE s.fresh /\ adapter.begun /\ s.ours /\ ~s.failed /\ (s.active \/ s.text = adapter.baseline)
    <3>. DEFINE state == IF ~s.active THEN "pending"
                         ELSE IF s.text # adapter.last THEN "active" ELSE "visually_stable"
    <3>1. adapter' = [begun |-> adapter.begun, baseline |-> adapter.baseline, last |-> s.text,
                      inactive |-> None, stable |-> 0, state |-> state]
      BY <2>3, <2>8 DEF S!AdapterStep
    <3>2. /\ adapter'.begun = adapter.begun /\ adapter'.baseline = adapter.baseline
          /\ adapter'.stable = 0
      BY <3>1
    <3>3. SampleForms'
      BY <2>1, <2>2, <3>1, <3>2 DEF SampleForms
    <3>4. adapter.baseline = monitor.baseline
      BY <1>b, <2>8 DEF AdapterInv
    <3>5. stable \in Nat /\ ~(stable >= 1)
      BY <1>b, <2>5, <2>8, <3>4 DEF stable, StableInv
    <3>6. AdapterInv'
      BY <1>5, <3>2, <3>4, <3>5 DEF AdapterInv
    <3>. QED  BY <3>3, <3>6
  <2>9. CASE s.fresh /\ adapter.begun /\ s.ours /\ ~s.failed /\ ~(s.active \/ s.text = adapter.baseline)
    <3>. DEFINE count == IF s.text = adapter.inactive THEN adapter.stable + 1 ELSE 1
                state == IF count >= 2 THEN "completed" ELSE "visually_stable"
    <3>1. adapter' = [begun |-> adapter.begun, baseline |-> adapter.baseline, last |-> s.text,
                      inactive |-> s.text, stable |-> count, state |-> state]
      BY <2>3, <2>9 DEF S!AdapterStep
    <3>2. count \in Nat /\ count >= 1
      BY <2>3
    <3>. HIDE DEF count
    <3>3. /\ adapter'.begun = adapter.begun /\ adapter'.baseline = adapter.baseline
          /\ adapter'.stable = count /\ adapter'.inactive = s.text /\ adapter'.state = state
      BY <3>1
    <3>4. SampleForms'
      BY <2>1, <2>2, <3>1, <3>2, <3>3 DEF SampleForms
    <3>5. adapter.baseline = monitor.baseline
      BY <1>b, <2>9 DEF AdapterInv
    <3>6. ASSUME S!Undisturbed', stable >= 2 PROVE count >= 2
      <4>0. stable \in Nat
        BY <1>b DEF stable, StableInv
      <4>1. stable >= 1 /\ monitor.stable >= 1
        BY <2>5, <3>6, <4>0
      <4>2. S!Undisturbed
        BY <2>4, <3>6
      <4>3. adapter.inactive = monitor.text /\ adapter.stable >= 1
        BY <1>b, <2>9, <4>1, <4>2 DEF AdapterInv
      <4>4. s.text = adapter.inactive
        BY <2>5, <4>1, <4>3
      <4>. QED  BY <2>3, <4>3, <4>4 DEF count
    <3>7. stable >= 1 => s.text = monitor'.text
      BY <1>5, <2>9
    <3>. HIDE DEF state
    <3>8. S!Undisturbed' /\ stable >= 2 => state = "completed"
      BY <3>6 DEF state
    <3>9. AdapterInv'
      BY <1>5, <3>2, <3>3, <3>5, <3>7, <3>8 DEF AdapterInv
    <3>. QED  BY <3>4, <3>9
  <2>. QED  BY <2>6, <2>7, <2>8, <2>9
<1>. QED  BY <1>6, <1>7, <1>8, <1>9 DEF SamplingInv

LEMMA SamplesUnchanged ==
    ASSUME ProgressInv, StableInv, StatusInv, UNCHANGED <<monitor, seen>>
    PROVE  ProgressInv' /\ StableInv' /\ StatusInv'
<1>1. monitor' = monitor /\ seen' = seen
  OBVIOUS
<1>2. ProgressInv'
  BY <1>1 DEF ProgressInv
<1>3. StableInv'
  BY <1>1 DEF StableInv
<1>4. StatusInv'
  BY <1>1 DEF StatusInv
<1>. QED  BY <1>2, <1>3, <1>4

LEMMA SamplingNext == SamplingInv /\ [S!Next]_samplingVars => SamplingInv'
<1>. SUFFICES ASSUME SamplingInv, [S!Next]_samplingVars PROVE SamplingInv'
  OBVIOUS
<1>1. ASSUME NEW x \in Texts, NEW busy \in BOOLEAN, NEW flaw \in S!Flaws, S!Observe(x, busy, flaw)
      PROVE  SamplingInv'
  <2>. DEFINE s == [text |-> x, active |-> busy, at |-> S!Clock + 1,
                    failed |-> flaw = "failed", ours |-> flaw # "elsewhere", fresh |-> flaw # "stale"]
  <2>1. S!Clock + 1 = Len(seen) + 1 /\ Len(seen) + 1 \in Nat
    <3>1. seen \in Seq(Samples) /\ \A i \in 1..Len(seen) : seen[i].at = i
      BY DEF SamplingInv, SampleForms
    <3>2. CASE seen = <<>>
      BY <3>2 DEF S!Clock
    <3>3. CASE seen # <<>>
      <4>1. Len(seen) \in 1..Len(seen)
        BY <3>1, <3>3
      <4>. QED  BY <3>1, <3>3, <4>1 DEF S!Clock
    <3>. QED  BY <3>2, <3>3
  <2>2. s \in Samples /\ s.at = Len(seen) + 1
    BY <2>1 DEF Samples
  <2>3. /\ seen' = Append(seen, s) /\ monitor' = S!MonitorStep(monitor, s)
        /\ adapter' = S!AdapterStep(adapter, s)
    BY <1>1 DEF S!Observe
  <2>. HIDE DEF s
  <2>. QED  BY <2>2, <2>3, SamplingObserve
<1>2. CASE S!Cancel
  <2>1. UNCHANGED <<monitor, seen>>
    BY <1>2 DEF S!Cancel
  <2>2. PICK state \in {"cancelled", "observation_unavailable"} :
           adapter' = [begun |-> adapter.begun, baseline |-> adapter.baseline, last |-> adapter.last,
                       inactive |-> adapter.inactive, stable |-> adapter.stable, state |-> state]
    <3>1. adapter = [begun |-> adapter.begun, baseline |-> adapter.baseline, last |-> adapter.last,
                     inactive |-> adapter.inactive, stable |-> adapter.stable,
                     state |-> adapter.state]
      BY DEF SamplingInv, SampleForms
    <3>. QED  BY <1>2, <3>1 DEF S!Cancel, S!AdapterCancel
  <2>3. /\ adapter'.begun = adapter.begun /\ adapter'.baseline = adapter.baseline
        /\ adapter'.last = adapter.last /\ adapter'.inactive = adapter.inactive
        /\ adapter'.stable = adapter.stable /\ adapter'.state = state
    BY <2>2
  <2>4. SampleForms'
    BY <2>1, <2>2, <2>3 DEF SamplingInv, SampleForms
  <2>5. ProgressInv' /\ StableInv' /\ StatusInv'
    BY <2>1, SamplesUnchanged DEF SamplingInv
  <2>6. AdapterInv'
    BY <2>1, <2>3 DEF SamplingInv, AdapterInv, S!Undisturbed
  <2>. QED  BY <2>4, <2>5, <2>6 DEF SamplingInv
<1>3. CASE UNCHANGED samplingVars
  <2>1. UNCHANGED <<monitor, adapter, seen>>
    BY <1>3 DEF samplingVars
  <2>2. SampleForms' /\ AdapterInv'
    BY <2>1 DEF SamplingInv, SampleForms, AdapterInv, S!Undisturbed
  <2>. QED  BY <2>1, <2>2, SamplesUnchanged DEF SamplingInv
<1>. QED  BY <1>1, <1>2, <1>3 DEF S!Next, samplingVars

(* The evidence of the network.                                             *)

Reals == [asked : Nat \cup {None}, answered : Nat \cup {None}, good : BOOLEAN]

NetworkForms ==
    /\ ms \in Nat /\ real \in [Requests -> Reals] /\ log \in Seq(Requests)
    /\ record = [r \in Requests |-> record[r]]
    /\ \A r \in Requests : record[r] # None => record[r] \in N!Records
    /\ op = [at |-> op.at, want |-> op.want, window |-> op.window, start |-> op.start,
             snapshot |-> op.snapshot, then |-> op.then, verdict |-> op.verdict, trace |-> op.trace]
    /\ op.want \in Wants /\ op.window \in Nat /\ op.start \in Nat
    /\ lost = [unheard |-> lost.unheard, trimmed |-> lost.trimmed] /\ lost.trimmed \in BOOLEAN

RealInv ==
    \A r \in Requests :
        /\ real[r].asked = None => real[r].answered = None /\ r \notin lost.unheard
        /\ real[r].answered = None => ~real[r].good
        /\ real[r].asked # None => real[r].asked <= ms
        /\ real[r].answered # None => real[r].asked <= real[r].answered /\ real[r].answered <= ms

\* A record says what was answered, and what was asked if that was heard.
RecordInv ==
    \A r \in Requests : record[r] # None =>
        /\ real[r].asked # None /\ real[r].asked <= record[r].asked /\ record[r].asked <= ms
        /\ record[r].answered = real[r].answered /\ record[r].good = real[r].good
        /\ record[r].answered # None => record[r].asked <= record[r].answered
        /\ record[r].heard => record[r].asked = real[r].asked /\ r \notin lost.unheard

\* The log has the requests with a record, as they were asked.  It forgets one only when it
\* is full, of records no older than that one.
LogInv ==
    /\ \A r \in Requests : record[r] # None <=> \E i \in 1..Len(log) : log[i] = r
    /\ Len(log) <= LogLimit
    /\ \A i, j \in 1..Len(log) : i <= j => record[log[i]].asked <= record[log[j]].asked
    /\ \A r \in Requests : real[r].asked # None /\ r \notin lost.unheard /\ record[r] = None =>
          Len(log) = LogLimit /\ \A i \in 1..Len(log) : real[r].asked <= record[log[i]].asked
    /\ ~lost.trimmed => \A r \in Requests :
          /\ real[r].asked # None /\ r \notin lost.unheard => record[r] # None /\ record[r].heard
          /\ real[r].answered # None => record[r] # None

\* What an expectation matches of a snapshot.
Matches ==
    {r \in Meant \cap DOMAIN op.snapshot :
        N!Satisfies(op.want, op.snapshot[r]) /\ N!EventAt(op.want, op.snapshot[r]) >= op.start}

OperationInv ==
    /\ op.at \in {"idle", "begun", "acting", "observed", "judged", "captured"}
    /\ op.at = "begun" => op.window <= ms
    /\ op.at \notin {"idle", "begun"} => op.window <= op.start
    /\ op.at = "observed" =>
          op.then \subseteq Requests /\ Matches \subseteq op.then
                                     /\ (lost.trimmed \/ op.then \subseteq Matches)
    /\ op.at \notin {"judged", "captured"} => op.verdict = None
    /\ op.at # "captured" => op.trace = None
    /\ N!JudgedAsItHappened

NetworkInv == NetworkForms /\ RealInv /\ RecordInv /\ LogInv /\ OperationInv

LEMMA NetworkConstants ==
    /\ None \notin Nat /\ None \notin N!Records
    /\ None \notin {"yes", "no", "pass", "fail", "indeterminate"}
    /\ Meant \subseteq Requests /\ LogLimit \in Nat /\ MaxRecords \in Nat
    /\ 0 < MaxRecords /\ MaxRecords < LogLimit
    /\ \A w \in Wants : ~w.request => w.response = "yes"
BY SurfacesInstance DEF N!NetworkAssumption

LEMMA NetworkInit == N!Init => NetworkInv
<1>. SUFFICES ASSUME N!Init PROVE NetworkInv
  OBVIOUS
<1>1. PICK w \in Wants :
         op = [at |-> "idle", want |-> w, window |-> 0, start |-> 0, snapshot |-> <<>>,
               then |-> {}, verdict |-> None, trace |-> None]
  BY DEF N!Init
<1>2. /\ op.at = "idle" /\ op.want = w /\ op.window = 0 /\ op.start = 0
      /\ op.verdict = None /\ op.trace = None
      /\ op = [at |-> op.at, want |-> op.want, window |-> op.window, start |-> op.start,
               snapshot |-> op.snapshot, then |-> op.then, verdict |-> op.verdict, trace |-> op.trace]
  BY <1>1
<1>3. /\ ms = 0 /\ log = <<>> /\ record = [r \in Requests |-> None]
      /\ real = [r \in Requests |-> [asked |-> None, answered |-> None, good |-> FALSE]]
      /\ lost = [unheard |-> {}, trimmed |-> FALSE]
  BY DEF N!Init
<1>4. /\ log \in Seq(Requests) /\ Len(log) = 0 /\ lost.unheard = {} /\ lost.trimmed = FALSE
      /\ lost = [unheard |-> lost.unheard, trimmed |-> lost.trimmed]
  BY <1>3
<1>5. \A r \in Requests :
         /\ record[r] = None /\ real[r].asked = None /\ real[r].answered = None /\ ~real[r].good
         /\ real[r] \in Reals
  BY <1>3 DEF Reals
<1>6. NetworkForms
  <2>1. real \in [Requests -> Reals] /\ record = [r \in Requests |-> record[r]] /\ ms \in Nat
    BY <1>3, <1>5
  <2>2. op.want \in Wants /\ op.window \in Nat /\ op.start \in Nat
    BY <1>2
  <2>3. lost.trimmed \in BOOLEAN
    BY <1>4
  <2>. QED  BY <1>2, <1>4, <1>5, <2>1, <2>2, <2>3 DEF NetworkForms
<1>7. RealInv /\ RecordInv
  BY <1>4, <1>5 DEF RealInv, RecordInv
<1>8. LogInv
  <2>1. 0 <= LogLimit /\ 1..Len(log) = {}
    BY <1>4, NetworkConstants
  <2>. QED  BY <1>4, <1>5, <2>1 DEF LogInv
<1>9. OperationInv
  BY <1>2, NetworkConstants DEF OperationInv, N!JudgedAsItHappened
<1>. QED  BY <1>6, <1>7, <1>8, <1>9 DEF NetworkInv

\* A new record makes the log longer, or takes the place of the oldest one.
LEMMA RecordIsKept ==
    ASSUME NetworkForms, RecordInv, LogInv,
           NEW r \in Requests, record[r] = None,
           NEW fields \in N!Records, fields.asked = ms, N!Appends(r, fields)
    PROVE  /\ log' \in Seq(Requests) /\ Len(log') <= LogLimit
           /\ record' = [q \in Requests |-> record'[q]] /\ record'[r] = fields
           /\ \A q \in Requests : q # r => record'[q] \in {record[q], None}
           /\ \A q \in Requests : record'[q] # None <=> \E i \in 1..Len(log') : log'[i] = q
           /\ \A i, j \in 1..Len(log') : i <= j => record'[log'[i]].asked <= record'[log'[j]].asked
           /\ lost' = [unheard |-> lost'.unheard, trimmed |-> lost'.trimmed]
           /\ lost'.unheard = lost.unheard /\ lost'.trimmed \in BOOLEAN
           /\ ~lost'.trimmed => ~lost.trimmed /\ \A q \in Requests : q # r => record'[q] = record[q]
           /\ \A q \in Requests, x \in Nat :
                 \/ record[q] # None /\ record'[q] = None /\ x <= record[q].asked
                 \/ Len(log) = LogLimit /\ x <= ms /\ \A i \in 1..Len(log) : x <= record[log[i]].asked
                 => Len(log') = LogLimit /\ \A i \in 1..Len(log') : x <= record'[log'[i]].asked
<1>. DEFINE all  == Append(log, r)
            left == IF Len(all) > LogLimit THEN Tail(all) ELSE all
            d    == IF Len(all) > LogLimit THEN 1 ELSE 0
<1>0. /\ LogLimit \in Nat /\ LogLimit > 1 /\ None \notin N!Records
      /\ log \in Seq(Requests) /\ Len(log) \in Nat /\ Len(log) <= LogLimit
  BY NetworkConstants DEF NetworkForms, LogInv
<1>1. /\ all \in Seq(Requests) /\ Len(all) = Len(log) + 1 /\ all[Len(log) + 1] = r
      /\ \A i \in 1..Len(log) : all[i] = log[i]
  BY <1>0, AppendProperties
<1>2. /\ log' = left
      /\ record' = [q \in Requests |-> IF q = r THEN fields ELSE IF q \in N!ToSet(left) THEN record[q] ELSE None]
      /\ lost' = [unheard |-> lost.unheard, trimmed |-> lost.trimmed \/ left # all]
  <2>1. lost = [unheard |-> lost.unheard, trimmed |-> lost.trimmed]
    BY DEF NetworkForms
  <2>2. lost' = [lost EXCEPT !.trimmed = @ \/ left # all]
    BY DEF N!Appends
  <2>3. lost' = [unheard |-> lost.unheard, trimmed |-> lost.trimmed \/ left # all]
    BY <2>1, <2>2
  <2>. QED  BY <2>3 DEF N!Appends
<1>3. /\ left \in Seq(Requests) /\ Len(left) = Len(log) + 1 - d /\ Len(left) >= 1
      /\ Len(left) <= LogLimit
      /\ \A i \in 1..Len(left) : left[i] = all[i + d]
      /\ d \in {0, 1} /\ (d = 1 => Len(log) = LogLimit /\ Len(left) = LogLimit) /\ (d = 0 => left = all /\ Len(log) < LogLimit)
  <2>1. CASE Len(all) > LogLimit
    <3>1. /\ Tail(all) \in Seq(Requests) /\ Len(Tail(all)) = Len(all) - 1
          /\ \A i \in 1..Len(Tail(all)) : Tail(all)[i] = all[i + 1]
      BY <1>0, <1>1
    <3>. HIDE DEF all
    <3>. QED  BY <1>0, <1>1, <2>1, <3>1
  <2>2. CASE Len(all) <= LogLimit
    <3>. HIDE DEF all
    <3>. QED  BY <1>0, <1>1, <2>2
  <2>. QED  BY <1>0, <1>1, <2>1, <2>2
<1>. DEFINE N1 == Len(left)
<1>4. /\ N1 \in Nat /\ N1 = Len(log) + 1 - d /\ N1 >= 1 /\ left[N1] = r
      /\ \A i \in 1..N1 : i # N1 => i + d \in 1..Len(log) /\ left[i] = log[i + d]
  <2>. HIDE DEF left, all, d
  <2>. QED  BY <1>0, <1>1, <1>3
<1>5. N!ToSet(left) = {left[i] : i \in 1..N1}
  <2>. HIDE DEF left
  <2>. QED  BY <1>3 DEF N!ToSet
<1>6. record' = [q \in Requests |-> IF q = r THEN fields ELSE IF \E i \in 1..N1 : left[i] = q THEN record[q] ELSE None]
  <2>. HIDE DEF left, all
  <2>. QED  BY <1>2, <1>5
<1>. HIDE DEF left, all, d, N1
<1>7. /\ record'[r] = fields
      /\ \A q \in Requests : q # r => record'[q] = IF \E i \in 1..N1 : left[i] = q THEN record[q] ELSE None
  BY <1>6
<1>8. \A i \in 1..Len(log) : log[i] \in Requests /\ record[log[i]] # None /\ log[i] # r
  BY <1>0 DEF LogInv
<1>9. \A i \in 1..N1 : i # N1 => record'[left[i]] = record[log[i + d]] /\ left[i] \in Requests
  <2>. TAKE i \in 1..N1
  <2>. HAVE i # N1
  <2>1. left[i] = log[i + d] /\ i + d \in 1..Len(log)
    BY <1>4
  <2>2. left[i] \in Requests /\ left[i] # r
    BY <1>8, <2>1
  <2>. QED  BY <1>7, <2>1, <2>2
<1>10. record'[left[N1]].asked = ms
  BY <1>4, <1>7
<1>11. \A i \in 1..Len(log) : record[log[i]].asked \in Nat /\ record[log[i]].asked <= ms
  BY <1>8 DEF NetworkForms, RecordInv, N!Records
<1>12. ms \in Nat
  BY DEF NetworkForms
<1>13. \A q \in Requests : record'[q] # None <=> \E i \in 1..N1 : left[i] = q
  <2>. TAKE q \in Requests
  <2>1. CASE q = r
    <3>1. N1 \in 1..N1 /\ left[N1] = q
      BY <1>4, <2>1
    <3>. QED  BY <1>0, <1>7, <2>1, <3>1
  <2>2. CASE q # r /\ \E i \in 1..N1 : left[i] = q
    <3>1. PICK i \in 1..N1 : left[i] = q
      BY <2>2
    <3>2. i # N1
      BY <1>4, <2>2, <3>1
    <3>3. left[i] = log[i + d] /\ i + d \in 1..Len(log)
      BY <1>4, <3>2
    <3>. QED  BY <1>7, <1>8, <2>2, <3>1, <3>3
  <2>3. CASE q # r /\ ~(\E i \in 1..N1 : left[i] = q)
    BY <1>7, <2>3
  <2>. QED  BY <2>1, <2>2, <2>3
<1>14. \A i, j \in 1..N1 : i <= j => record'[left[i]].asked <= record'[left[j]].asked
  <2>. TAKE i, j \in 1..N1
  <2>. HAVE i <= j
  <2>1. CASE j # N1
    <3>0. i # N1
      BY <1>4, <2>1
    <3>1. i # N1 /\ i + d \in 1..Len(log) /\ j + d \in 1..Len(log) /\ i + d <= j + d
      BY <1>3, <1>4, <2>1, <3>0
    <3>2. record[log[i + d]].asked <= record[log[j + d]].asked
      BY <3>1 DEF LogInv
    <3>. QED  BY <1>9, <2>1, <3>1, <3>2
  <2>2. CASE j = N1 /\ i # N1
    <3>1. i + d \in 1..Len(log)
      BY <1>4, <2>2
    <3>. QED  BY <1>9, <1>10, <1>11, <2>2, <3>1
  <2>3. CASE j = N1 /\ i = N1
    BY <1>10, <1>12, <2>3
  <2>. QED  BY <2>1, <2>2, <2>3
<1>15. ~lost'.trimmed => ~lost.trimmed /\ \A q \in Requests : q # r => record'[q] = record[q]
  <2>. HAVE ~lost'.trimmed
  <2>1. ~lost.trimmed /\ left = all
    BY <1>2
  <2>2. d = 0
    BY <1>1, <1>3, <2>1
  <2>3. \A q \in Requests : q # r /\ record[q] # None => \E i \in 1..N1 : left[i] = q
    <3>. TAKE q \in Requests
    <3>. HAVE q # r /\ record[q] # None
    <3>1. PICK i \in 1..Len(log) : log[i] = q
      BY DEF LogInv
    <3>2. i \in 1..N1 /\ left[i] = log[i]
      BY <1>0, <1>1, <1>4, <2>1, <2>2, <3>1
    <3>. QED  BY <3>1, <3>2
  <2>. QED  BY <1>7, <2>1, <2>3
<1>16. ASSUME NEW q \in Requests, NEW x \in Nat,
              \/ record[q] # None /\ record'[q] = None /\ x <= record[q].asked
              \/ Len(log) = LogLimit /\ x <= ms /\ \A i \in 1..Len(log) : x <= record[log[i]].asked
       PROVE  N1 = LogLimit /\ \A i \in 1..N1 : x <= record'[left[i]].asked
  <2>1. CASE record[q] # None /\ record'[q] = None /\ x <= record[q].asked
    <3>1. q # r /\ ~(\E i \in 1..N1 : left[i] = q)
      BY <1>13, <2>1
    <3>2. PICK k \in 1..Len(log) : log[k] = q
      BY <2>1 DEF LogInv
    <3>3. d = 1 /\ k = 1
      <4>1. d = 0 => k \in 1..N1 /\ k # N1 /\ k + d = k
        BY <1>0, <1>4
      <4>2. d = 1 /\ k # 1 => k - 1 \in 1..N1 /\ k - 1 # N1 /\ (k - 1) + d = k
        BY <1>0, <1>4
      <4>. QED  BY <1>3, <1>4, <3>1, <3>2, <4>1, <4>2
    <3>4. \A i \in 1..Len(log) : record[q].asked <= record[log[i]].asked
      BY <3>2, <3>3 DEF LogInv
    <3>5. record[q].asked \in Nat /\ record[q].asked <= ms
      BY <1>11, <3>2
    <3>6. \A i \in 1..Len(log) : x <= record[log[i]].asked
      BY <1>11, <2>1, <3>4, <3>5
    <3>7. x <= ms
      BY <1>12, <2>1, <3>5
    <3>. QED  BY <1>3, <1>4, <1>9, <1>10, <3>3, <3>6, <3>7 DEF N1
  <2>2. CASE Len(log) = LogLimit /\ x <= ms /\ \A i \in 1..Len(log) : x <= record[log[i]].asked
    <3>1. d = 1
      BY <1>0, <1>3, <2>2
    <3>. QED  BY <1>3, <1>4, <1>9, <1>10, <2>2, <3>1 DEF N1
  <2>. QED  BY <1>16, <2>1, <2>2
<1>17. log' = left /\ Len(log') = N1
  BY <1>2 DEF N1
<1>18. /\ record' = [q \in Requests |-> record'[q]]
       /\ \A q \in Requests : q # r => record'[q] \in {record[q], None}
  BY <1>6, <1>7
<1>19. /\ lost' = [unheard |-> lost'.unheard, trimmed |-> lost'.trimmed]
       /\ lost'.unheard = lost.unheard /\ lost'.trimmed \in BOOLEAN
  BY <1>2
<1>. QED  BY <1>3, <1>7, <1>13, <1>14, <1>15, <1>16, <1>17, <1>18, <1>19

\* What was seen, judged and traced remains what it was when the network goes on.
LEMMA OperationGoesOn ==
    ASSUME NetworkForms, OperationInv, UNCHANGED op, ms' \in Nat, ms <= ms', lost.trimmed => lost'.trimmed
    PROVE  OperationInv'
<1>1. op' = op
  OBVIOUS
<1>2. op.at = "begun" => op.window <= ms'
  BY DEF NetworkForms, OperationInv
<1>3. Matches' = Matches
  BY <1>1 DEF Matches
<1>4. N!JudgedAsItHappened'
  BY <1>1 DEF OperationInv, N!JudgedAsItHappened
<1>. QED  BY <1>1, <1>2, <1>3, <1>4 DEF OperationInv

LEMMA NetworkTick == NetworkInv /\ N!Tick => NetworkInv'
<1>. SUFFICES ASSUME NetworkInv, N!Tick PROVE NetworkInv'
  OBVIOUS
<1>1. ms \in Nat /\ ms' = ms + 1 /\ UNCHANGED <<real, log, record, op, lost>>
  BY DEF N!Tick, NetworkInv, NetworkForms
<1>2. NetworkForms'
  BY <1>1 DEF NetworkInv, NetworkForms
<1>3. \A x \in Nat : x <= ms => x <= ms'
  BY <1>1
<1>4. \A r \in Requests : real[r] \in Reals /\ (record[r] # None => record[r] \in N!Records)
  BY DEF NetworkInv, NetworkForms
<1>5. RealInv'
  BY <1>1, <1>3, <1>4 DEF NetworkInv, RealInv, Reals
<1>6. RecordInv'
  BY <1>1, <1>3, <1>4 DEF NetworkInv, RecordInv, N!Records
<1>7. LogInv'
  BY <1>1 DEF NetworkInv, LogInv
<1>8. OperationInv'
  BY <1>1, OperationGoesOn DEF NetworkInv
<1>. QED  BY <1>2, <1>5, <1>6, <1>7, <1>8 DEF NetworkInv

LEMMA NetworkAsks ==
    ASSUME NetworkInv, NEW r \in Requests, N!Asks(r)
    PROVE  NetworkInv'
<1>. DEFINE fields == [asked |-> ms, answered |-> None, good |-> FALSE, heard |-> TRUE]
<1>a. NetworkForms /\ RealInv /\ RecordInv /\ LogInv /\ OperationInv
  BY DEF NetworkInv
<1>b. ms \in Nat /\ real \in [Requests -> Reals] /\ real[r] \in Reals /\ None \notin Nat
                 /\ None \notin N!Records
  BY <1>a, NetworkConstants DEF NetworkForms
<1>1. /\ real[r].asked = None /\ real' = [real EXCEPT ![r].asked = ms]
      /\ N!Appends(r, fields) /\ UNCHANGED <<ms, op>>
  BY DEF N!Asks
<1>2. /\ real[r].answered = None /\ real[r].good = FALSE /\ r \notin lost.unheard /\ record[r] = None
  BY <1>1, <1>a, <1>b DEF RealInv, RecordInv, Reals
<1>3. /\ real' \in [Requests -> Reals] /\ real'[r] = [asked |-> ms, answered |-> None, good |-> FALSE]
      /\ \A q \in Requests : q # r => real'[q] = real[q]
  <2>. DEFINE x == [real[r] EXCEPT !.asked = ms]
  <2>1. real' = [real EXCEPT ![r] = x]
    BY <1>1, <1>b
  <2>2. x = [asked |-> ms, answered |-> real[r].answered, good |-> real[r].good]
    BY <1>b DEF Reals
  <2>3. x = [asked |-> ms, answered |-> None, good |-> FALSE] /\ x \in Reals
    <3>. HIDE DEF x
    <3>. QED  BY <1>2, <1>b, <2>2 DEF Reals
  <2>. HIDE DEF x
  <2>4. real' \in [Requests -> Reals] /\ real'[r] = x /\ \A q \in Requests : q # r => real'[q] = real[q]
    BY <1>b, <2>1, <2>3
  <2>. QED  BY <2>3, <2>4
<1>4. fields \in N!Records /\ fields.asked = ms
  BY <1>b DEF N!Records
<1>. HIDE DEF fields
<1>5. /\ log' \in Seq(Requests) /\ Len(log') <= LogLimit
      /\ record' = [q \in Requests |-> record'[q]] /\ record'[r] = fields
      /\ \A q \in Requests : q # r => record'[q] \in {record[q], None}
      /\ \A q \in Requests : record'[q] # None <=> \E i \in 1..Len(log') : log'[i] = q
      /\ \A i, j \in 1..Len(log') : i <= j => record'[log'[i]].asked <= record'[log'[j]].asked
      /\ lost' = [unheard |-> lost'.unheard, trimmed |-> lost'.trimmed]
      /\ lost'.unheard = lost.unheard /\ lost'.trimmed \in BOOLEAN
      /\ ~lost'.trimmed => ~lost.trimmed /\ \A q \in Requests : q # r => record'[q] = record[q]
      /\ \A q \in Requests, x \in Nat :
            \/ record[q] # None /\ record'[q] = None /\ x <= record[q].asked
            \/ Len(log) = LogLimit /\ x <= ms /\ \A i \in 1..Len(log) : x <= record[log[i]].asked
            => Len(log') = LogLimit /\ \A i \in 1..Len(log') : x <= record'[log'[i]].asked
  BY <1>1, <1>2, <1>4, <1>a, RecordIsKept
<1>6. /\ record'[r].asked = ms /\ record'[r].answered = None /\ record'[r].good = FALSE
      /\ record'[r].heard = TRUE /\ record'[r] # None
      /\ real'[r].asked = ms /\ real'[r].answered = None /\ real'[r].good = FALSE
      /\ ms' = ms /\ ms # None /\ r \notin lost'.unheard /\ record'[r].good = real'[r].good
  <2>1. record'[r] # None
    BY <1>4, <1>5, <1>b
  <2>2. /\ fields.asked = ms /\ fields.answered = None /\ fields.good = FALSE /\ fields.heard = TRUE
    BY DEF fields
  <2>3. real'[r].asked = ms /\ real'[r].answered = None /\ real'[r].good = FALSE
    BY <1>3
  <2>4. ms' = ms /\ ms # None
    BY <1>1, <1>b
  <2>5. record'[r].good = real'[r].good
    <3>1. fields.good = FALSE
      BY DEF fields
    <3>2. real'[r].good = FALSE
      BY <1>3
    <3>3. record'[r] = fields
      BY <1>5
    <3>. QED  BY <3>1, <3>2, <3>3, Zenon
  <2>. QED  BY <1>2, <1>5, <2>1, <2>2, <2>3, <2>4, <2>5
<1>7. NetworkForms'
  <2>1. \A q \in Requests : record'[q] # None => record'[q] \in N!Records
    BY <1>4, <1>5, <1>a DEF NetworkForms
  <2>2. UNCHANGED <<ms, op>>
    BY <1>1
  <2>. QED  BY <1>3, <1>5, <1>a, <2>1, <2>2 DEF NetworkForms
<1>8. RealInv'
  <2>. SUFFICES ASSUME NEW q \in Requests
                PROVE  /\ real'[q].asked = None => real'[q].answered = None /\ q \notin lost'.unheard
                       /\ real'[q].answered = None => ~real'[q].good
                       /\ real'[q].asked # None => real'[q].asked <= ms'
                       /\ real'[q].answered # None => real'[q].asked <= real'[q].answered /\ real'[q].answered <= ms'
    BY DEF RealInv
  <2>1. CASE q = r
    BY <1>6, <1>b, <2>1
  <2>2. CASE q # r
    BY <1>1, <1>3, <1>5, <1>a, <2>2 DEF RealInv
  <2>. QED  BY <2>1, <2>2
<1>9. RecordInv'
  <2>. SUFFICES ASSUME NEW q \in Requests, record'[q] # None
                PROVE  /\ real'[q].asked # None /\ real'[q].asked <= record'[q].asked
                       /\ record'[q].asked <= ms'
                       /\ record'[q].answered = real'[q].answered /\ record'[q].good = real'[q].good
                       /\ record'[q].answered # None => record'[q].asked <= record'[q].answered
                       /\ record'[q].heard => record'[q].asked = real'[q].asked /\ q \notin lost'.unheard
    BY DEF RecordInv
  <2>1. CASE q = r
    BY <1>6, <1>b, <2>1
  <2>2. CASE q # r
    <3>1. record'[q] = record[q] /\ real'[q] = real[q]
      BY <1>3, <1>5, <2>2
    <3>. QED  BY <1>1, <1>5, <1>a, <3>1 DEF RecordInv
  <2>. QED  BY <2>1, <2>2
<1>10. LogInv'
  <2>1. ASSUME NEW q \in Requests, real'[q].asked # None, q \notin lost'.unheard, record'[q] = None
        PROVE  Len(log') = LogLimit /\ \A i \in 1..Len(log') : real'[q].asked <= record'[log'[i]].asked
    <3>1. q # r /\ real'[q] = real[q] /\ q \notin lost.unheard
      BY <1>3, <1>5, <1>6, <2>1
    <3>2. real[q].asked \in Nat /\ real[q].asked <= ms
      BY <1>a, <1>b, <2>1, <3>1 DEF RealInv, Reals
    <3>3. CASE record[q] = None
      <4>1. Len(log) = LogLimit /\ \A i \in 1..Len(log) : real[q].asked <= record[log[i]].asked
        BY <1>a, <2>1, <3>1, <3>3 DEF LogInv
      <4>. QED  BY <1>5, <3>1, <3>2, <4>1
    <3>4. CASE record[q] # None
      <4>1. real[q].asked <= record[q].asked
        BY <1>a, <3>4 DEF RecordInv
      <4>. QED  BY <1>5, <2>1, <3>1, <3>2, <3>4, <4>1
    <3>. QED  BY <3>3, <3>4
  <2>2. ASSUME ~lost'.trimmed, NEW q \in Requests
        PROVE  /\ real'[q].asked # None /\ q \notin lost'.unheard => record'[q] # None /\ record'[q].heard
               /\ real'[q].answered # None => record'[q] # None
    <3>1. CASE q = r
      BY <1>6, <3>1
    <3>2. CASE q # r
      <4>1. record'[q] = record[q] /\ real'[q] = real[q] /\ ~lost.trimmed
        BY <1>3, <1>5, <2>2, <3>2
      <4>. QED  BY <1>5, <1>a, <4>1 DEF LogInv
    <3>. QED  BY <3>1, <3>2
  <2>. QED  BY <1>5, <2>1, <2>2 DEF LogInv
<1>11. OperationInv'
  <2>1. UNCHANGED op /\ ms' \in Nat /\ ms <= ms' /\ (lost.trimmed => lost'.trimmed)
    BY <1>1, <1>5, <1>b
  <2>. QED  BY <1>a, <2>1, OperationGoesOn
<1>. QED  BY <1>7, <1>8, <1>9, <1>10, <1>11 DEF NetworkInv

LEMMA NetworkAsksUnheard ==
    ASSUME NetworkInv, NEW r \in Requests, N!AsksUnheard(r)
    PROVE  NetworkInv'
<1>a. NetworkForms /\ RealInv /\ RecordInv /\ LogInv /\ OperationInv
  BY DEF NetworkInv
<1>b. ms \in Nat /\ real \in [Requests -> Reals] /\ real[r] \in Reals /\ None \notin Nat
                 /\ None \notin N!Records
  BY <1>a, NetworkConstants DEF NetworkForms
<1>1. /\ real[r].asked = None /\ real' = [real EXCEPT ![r].asked = ms]
      /\ lost' = [lost EXCEPT !.unheard = @ \cup {r}]
      /\ UNCHANGED <<ms, log, record, op>>
  BY DEF N!AsksUnheard
<1>2. real[r].answered = None /\ record[r] = None /\ ~real[r].good
  BY <1>1, <1>a DEF RealInv, RecordInv
<1>3. /\ real' \in [Requests -> Reals]
      /\ real'[r].asked = ms /\ real'[r].answered = real[r].answered /\ real'[r].good = real[r].good
      /\ \A q \in Requests : q # r => real'[q] = real[q]
  <2>. DEFINE x == [real[r] EXCEPT !.asked = ms]
  <2>1. real' = [real EXCEPT ![r] = x]
    BY <1>1, <1>b
  <2>2. x \in Reals /\ x.asked = ms /\ x.answered = real[r].answered /\ x.good = real[r].good
    BY <1>b DEF Reals
  <2>. HIDE DEF x
  <2>. QED  BY <1>b, <2>1, <2>2
<1>4. /\ lost' = [unheard |-> lost'.unheard, trimmed |-> lost'.trimmed]
      /\ lost'.unheard = lost.unheard \cup {r} /\ lost'.trimmed = lost.trimmed
  <2>1. lost = [unheard |-> lost.unheard, trimmed |-> lost.trimmed]
    BY <1>a DEF NetworkForms
  <2>2. lost' = [unheard |-> lost.unheard \cup {r}, trimmed |-> lost.trimmed]
    BY <1>1, <2>1
  <2>. QED  BY <2>2
<1>5. NetworkForms'
  BY <1>1, <1>3, <1>4, <1>a DEF NetworkForms
<1>6. RealInv'
  <2>. SUFFICES ASSUME NEW q \in Requests
                PROVE  /\ real'[q].asked = None => real'[q].answered = None /\ q \notin lost'.unheard
                       /\ real'[q].answered = None => ~real'[q].good
                       /\ real'[q].asked # None => real'[q].asked <= ms'
                       /\ real'[q].answered # None => real'[q].asked <= real'[q].answered /\ real'[q].answered <= ms'
    BY DEF RealInv
  <2>0. ms' = ms
    BY <1>1
  <2>1. CASE q = r
    BY <1>2, <1>3, <1>b, <2>0, <2>1
  <2>2. CASE q # r
    BY <1>3, <1>4, <1>a, <2>0, <2>2 DEF RealInv
  <2>. QED  BY <2>1, <2>2
<1>7. \A q \in Requests : record[q] # None => q # r /\ record'[q] = record[q] /\ real'[q] = real[q]
  BY <1>1, <1>2, <1>3
<1>8. record' = record /\ log' = log /\ ms' = ms
  BY <1>1
<1>9. RecordInv'
  BY <1>4, <1>7, <1>8, <1>a DEF RecordInv
<1>10. LogInv'
  <2>1. ASSUME NEW q \in Requests, real'[q].asked # None, q \notin lost'.unheard
        PROVE  real'[q] = real[q] /\ q \notin lost.unheard
    BY <1>3, <1>4, <2>1
  <2>2. ASSUME NEW q \in Requests, real'[q].answered # None
        PROVE  real'[q] = real[q]
    BY <1>2, <1>3, <2>2
  <2>. QED  BY <1>4, <1>8, <1>a, <2>1, <2>2 DEF LogInv
<1>11. OperationInv'
  <2>1. UNCHANGED op /\ ms' \in Nat /\ ms <= ms' /\ (lost.trimmed => lost'.trimmed)
    BY <1>1, <1>4, <1>b
  <2>. QED  BY <1>a, <2>1, OperationGoesOn
<1>. QED  BY <1>5, <1>6, <1>9, <1>10, <1>11 DEF NetworkInv

LEMMA NetworkAnswers ==
    ASSUME NetworkInv, NEW r \in Requests, NEW good \in BOOLEAN, N!Answers(r, good)
    PROVE  NetworkInv'
<1>a. NetworkForms /\ RealInv /\ RecordInv /\ LogInv /\ OperationInv
  BY DEF NetworkInv
<1>b. ms \in Nat /\ real \in [Requests -> Reals] /\ real[r] \in Reals /\ None \notin Nat
                 /\ None \notin N!Records
  BY <1>a, NetworkConstants DEF NetworkForms
<1>1. /\ real[r].asked # None /\ real[r].answered = None
      /\ real' = [real EXCEPT ![r].answered = ms, ![r].good = good]
      /\ UNCHANGED <<ms, op>>
  BY DEF N!Answers
<1>2. real[r].asked \in Nat /\ real[r].asked <= ms /\ ms # None /\ ms' = ms
  BY <1>1, <1>a, <1>b DEF RealInv, Reals
<1>3. /\ real' \in [Requests -> Reals]
      /\ real'[r].asked = real[r].asked /\ real'[r].answered = ms /\ real'[r].good = good
      /\ \A q \in Requests : q # r => real'[q] = real[q]
  <2>. DEFINE x == [real[r] EXCEPT !.answered = ms, !.good = good]
  <2>1. real' = [real EXCEPT ![r] = x]
    BY <1>1, <1>b
  <2>2. x \in Reals /\ x.asked = real[r].asked /\ x.answered = ms /\ x.good = good
    BY <1>b DEF Reals
  <2>. HIDE DEF x
  <2>. QED  BY <1>b, <2>1, <2>2
<1>4. ASSUME lost'.unheard = lost.unheard
      PROVE  RealInv'
  <2>. SUFFICES ASSUME NEW q \in Requests
                PROVE  /\ real'[q].asked = None => real'[q].answered = None /\ q \notin lost'.unheard
                       /\ real'[q].answered = None => ~real'[q].good
                       /\ real'[q].asked # None => real'[q].asked <= ms'
                       /\ real'[q].answered # None => real'[q].asked <= real'[q].answered /\ real'[q].answered <= ms'
    BY DEF RealInv
  <2>1. CASE q = r
    BY <1>1, <1>2, <1>3, <1>b, <2>1
  <2>2. CASE q # r
    BY <1>2, <1>3, <1>4, <1>a, <2>2 DEF RealInv
  <2>. QED  BY <2>1, <2>2
<1>5. CASE record[r] # None
  <2>1. /\ record' = [record EXCEPT ![r].answered = ms, ![r].good = good]
        /\ UNCHANGED <<log, lost>>
    BY <1>5 DEF N!Answers
  <2>2. /\ record' = [q \in Requests |-> record'[q]] /\ record'[r] \in N!Records
        /\ record'[r].asked = record[r].asked /\ record'[r].answered = ms
        /\ record'[r].good = good /\ record'[r].heard = record[r].heard
        /\ \A q \in Requests : q # r => record'[q] = record[q]
    <3>. DEFINE x == [record[r] EXCEPT !.answered = ms, !.good = good]
    <3>1. record = [q \in Requests |-> record[q]] /\ record[r] \in N!Records
      BY <1>5, <1>a DEF NetworkForms
    <3>2. record' = [record EXCEPT ![r] = x]
      BY <2>1, <3>1
    <3>3. /\ x \in N!Records /\ x.asked = record[r].asked /\ x.answered = ms /\ x.good = good
          /\ x.heard = record[r].heard
      BY <1>b, <3>1 DEF N!Records
    <3>. HIDE DEF x
    <3>. QED  BY <3>1, <3>2, <3>3
  <2>3. /\ record'[r] # None
        /\ \A q \in Requests : record'[q] # None <=> record[q] # None
        /\ \A q \in Requests : /\ record'[q].asked = record[q].asked
                               /\ record'[q].heard = record[q].heard
                               /\ real'[q].asked = real[q].asked
    BY <1>3, <1>5, <1>b, <2>2
  <2>4. NetworkForms'
    <3>1. \A q \in Requests : record'[q] # None => record'[q] \in N!Records
      BY <1>a, <2>2 DEF NetworkForms
    <3>. QED  BY <1>1, <1>3, <1>a, <2>1, <2>2, <3>1 DEF NetworkForms
  <2>5. RecordInv'
    <3>. SUFFICES ASSUME NEW q \in Requests, record'[q] # None
                  PROVE  /\ real'[q].asked # None /\ real'[q].asked <= record'[q].asked
                         /\ record'[q].asked <= ms'
                         /\ record'[q].answered = real'[q].answered /\ record'[q].good = real'[q].good
                         /\ record'[q].answered # None => record'[q].asked <= record'[q].answered
                         /\ record'[q].heard => record'[q].asked = real'[q].asked /\ q \notin lost'.unheard
      BY DEF RecordInv
    <3>0. lost' = lost
      BY <2>1
    <3>1. CASE q = r
      BY <1>2, <1>3, <1>5, <1>a, <2>2, <3>0, <3>1 DEF RecordInv
    <3>2. CASE q # r
      BY <1>2, <1>3, <1>a, <2>2, <3>0, <3>2 DEF RecordInv
    <3>. QED  BY <3>1, <3>2
  <2>6. LogInv'
    <3>1. log' = log /\ lost' = lost
      BY <2>1
    <3>2. \A i \in 1..Len(log) : log[i] \in Requests
      BY <1>a DEF NetworkForms
    <3>3. /\ \A q \in Requests : record'[q] # None <=> \E i \in 1..Len(log) : log[i] = q
          /\ Len(log) <= LogLimit
      BY <1>a, <2>3 DEF LogInv
    <3>4. \A i, j \in 1..Len(log) : i <= j => record'[log[i]].asked <= record'[log[j]].asked
      BY <1>a, <2>3, <3>2 DEF LogInv
    <3>5. \A q \in Requests : real'[q].asked # None /\ q \notin lost.unheard /\ record'[q] = None =>
             Len(log) = LogLimit /\ \A i \in 1..Len(log) : real'[q].asked <= record'[log[i]].asked
      BY <1>a, <2>3, <3>2 DEF LogInv
    <3>6. ASSUME ~lost.trimmed, NEW q \in Requests
          PROVE  /\ real'[q].asked # None /\ q \notin lost.unheard => record'[q] # None /\ record'[q].heard
                 /\ real'[q].answered # None => record'[q] # None
      <4>1. real'[q].answered # None => record'[q] # None
        BY <1>3, <1>a, <2>3, <3>6 DEF LogInv
      <4>. QED  BY <1>a, <2>3, <3>6, <4>1 DEF LogInv
    <3>. QED  BY <3>1, <3>3, <3>4, <3>5, <3>6 DEF LogInv
  <2>7. OperationInv'
    <3>1. UNCHANGED op /\ ms' \in Nat /\ ms <= ms' /\ (lost.trimmed => lost'.trimmed)
      BY <1>1, <1>b, <2>1
    <3>. QED  BY <1>a, <3>1, OperationGoesOn
  <2>. QED  BY <1>4, <2>1, <2>4, <2>5, <2>6, <2>7 DEF NetworkInv
<1>6. CASE record[r] = None
  <2>. DEFINE fields == [asked |-> ms, answered |-> ms, good |-> good, heard |-> FALSE]
  <2>1. N!Appends(r, fields)
    BY <1>6 DEF N!Answers
  <2>2. fields \in N!Records /\ fields.asked = ms
    BY <1>b DEF N!Records
  <2>. HIDE DEF fields
  <2>3. /\ log' \in Seq(Requests) /\ Len(log') <= LogLimit
        /\ record' = [q \in Requests |-> record'[q]] /\ record'[r] = fields
        /\ \A q \in Requests : q # r => record'[q] \in {record[q], None}
        /\ \A q \in Requests : record'[q] # None <=> \E i \in 1..Len(log') : log'[i] = q
        /\ \A i, j \in 1..Len(log') : i <= j => record'[log'[i]].asked <= record'[log'[j]].asked
        /\ lost' = [unheard |-> lost'.unheard, trimmed |-> lost'.trimmed]
        /\ lost'.unheard = lost.unheard /\ lost'.trimmed \in BOOLEAN
        /\ ~lost'.trimmed => ~lost.trimmed /\ \A q \in Requests : q # r => record'[q] = record[q]
        /\ \A q \in Requests, x \in Nat :
              \/ record[q] # None /\ record'[q] = None /\ x <= record[q].asked
              \/ Len(log) = LogLimit /\ x <= ms /\ \A i \in 1..Len(log) : x <= record[log[i]].asked
              => Len(log') = LogLimit /\ \A i \in 1..Len(log') : x <= record'[log'[i]].asked
    BY <1>6, <1>a, <2>1, <2>2, RecordIsKept
  <2>4. record'[r] # None
    BY <1>b, <2>2, <2>3
  <2>5. /\ record'[r].asked = ms /\ record'[r].answered = ms /\ record'[r].good = good
        /\ ~record'[r].heard
    <3>1. fields.asked = ms /\ fields.answered = ms /\ fields.good = good /\ ~fields.heard
      BY DEF fields
    <3>. QED  BY <2>3, <3>1
  <2>6. \A q \in Requests : real'[q].asked = real[q].asked
    BY <1>3
  <2>7. NetworkForms'
    <3>1. \A q \in Requests : record'[q] # None => record'[q] \in N!Records
      BY <1>a, <2>2, <2>3 DEF NetworkForms
    <3>2. UNCHANGED <<ms, op>>
      BY <1>1
    <3>. QED  BY <1>3, <1>a, <2>3, <3>1, <3>2 DEF NetworkForms
  <2>8. RecordInv'
    <3>. SUFFICES ASSUME NEW q \in Requests, record'[q] # None
                  PROVE  /\ real'[q].asked # None /\ real'[q].asked <= record'[q].asked
                         /\ record'[q].asked <= ms'
                         /\ record'[q].answered = real'[q].answered /\ record'[q].good = real'[q].good
                         /\ record'[q].answered # None => record'[q].asked <= record'[q].answered
                         /\ record'[q].heard => record'[q].asked = real'[q].asked /\ q \notin lost'.unheard
      BY DEF RecordInv
    <3>1. CASE q = r
      BY <1>1, <1>2, <1>3, <1>b, <2>5, <3>1
    <3>2. CASE q # r
      <4>1. record'[q] = record[q] /\ real'[q] = real[q]
        BY <1>3, <2>3, <3>2
      <4>. QED  BY <1>2, <1>a, <2>3, <4>1 DEF RecordInv
    <3>. QED  BY <3>1, <3>2
  <2>9. LogInv'
    <3>1. ASSUME NEW q \in Requests, real'[q].asked # None, q \notin lost'.unheard, record'[q] = None
          PROVE  Len(log') = LogLimit /\ \A i \in 1..Len(log') : real'[q].asked <= record'[log'[i]].asked
      <4>1. q # r /\ real'[q] = real[q] /\ q \notin lost.unheard
        BY <1>3, <2>3, <2>4, <3>1
      <4>2. real[q].asked \in Nat /\ real[q].asked <= ms
        BY <1>a, <1>b, <3>1, <4>1 DEF RealInv, Reals
      <4>3. CASE record[q] = None
        <5>1. Len(log) = LogLimit /\ \A i \in 1..Len(log) : real[q].asked <= record[log[i]].asked
          BY <1>a, <3>1, <4>1, <4>3 DEF LogInv
        <5>. QED  BY <2>3, <4>1, <4>2, <5>1
      <4>4. CASE record[q] # None
        <5>1. real[q].asked <= record[q].asked
          BY <1>a, <4>4 DEF RecordInv
        <5>. QED  BY <2>3, <3>1, <4>1, <4>2, <4>4, <5>1
      <4>. QED  BY <4>3, <4>4
    <3>2. ASSUME ~lost'.trimmed, NEW q \in Requests
          PROVE  /\ real'[q].asked # None /\ q \notin lost'.unheard => record'[q] # None /\ record'[q].heard
                 /\ real'[q].answered # None => record'[q] # None
      <4>1. ~lost.trimmed
        BY <2>3, <3>2
      <4>2. CASE q = r
        <5>1. r \in lost.unheard
          BY <1>1, <1>6, <1>a, <4>1 DEF LogInv
        <5>. QED  BY <2>3, <2>4, <4>2, <5>1
      <4>3. CASE q # r
        <5>1. record'[q] = record[q] /\ real'[q] = real[q]
          BY <1>3, <2>3, <3>2, <4>3
        <5>. QED  BY <1>a, <2>3, <4>1, <5>1 DEF LogInv
      <4>. QED  BY <4>2, <4>3
    <3>. QED  BY <2>3, <3>1, <3>2 DEF LogInv
  <2>10. OperationInv'
    <3>1. UNCHANGED op /\ ms' \in Nat /\ ms <= ms' /\ (lost.trimmed => lost'.trimmed)
      BY <1>1, <1>b, <2>3
    <3>. QED  BY <1>a, <3>1, OperationGoesOn
  <2>. QED  BY <1>4, <2>3, <2>7, <2>8, <2>9, <2>10 DEF NetworkInv
<1>. QED  BY <1>5, <1>6

\* An operation changes nothing of the network.
LEMMA NetworkIsLeft ==
    ASSUME RealInv, RecordInv, LogInv, UNCHANGED <<ms, real, log, record, lost>>
    PROVE  RealInv' /\ RecordInv' /\ LogInv'
<1>1. ms' = ms /\ real' = real /\ log' = log /\ record' = record /\ lost' = lost
  OBVIOUS
<1>2. RealInv'
  BY <1>1 DEF RealInv
<1>3. RecordInv'
  BY <1>1 DEF RecordInv
<1>4. LogInv'
  BY <1>1 DEF LogInv
<1>. QED  BY <1>2, <1>3, <1>4

\* What it observes: the records that match are of what happened, and if the log has
\* forgotten nothing all that happened is among them.
LEMMA ObservedAsItIs ==
    ASSUME NetworkForms, RealInv, RecordInv, LogInv, op.window <= op.start,
           NEW seen1, seen1 = [r \in {q \in N!ToSet(log) : N!RecordedAt(record[q]) >= op.window} |-> record[r]],
           NEW matches, matches = {r \in Meant \cap DOMAIN seen1 :
                                      N!Satisfies(op.want, seen1[r]) /\ N!EventAt(op.want, seen1[r]) >= op.start}
    PROVE  matches \subseteq N!Fitting /\ (lost.trimmed \/ N!Fitting \subseteq matches)
<1>0. /\ None \notin Nat /\ None \notin N!Records /\ None \notin {"yes", "no"}
      /\ Meant \subseteq Requests
      /\ op.want \in Wants /\ (~op.want.request => op.want.response = "yes")
      /\ op.window \in Nat /\ op.start \in Nat /\ op.window <= op.start
  BY NetworkConstants DEF NetworkForms
<1>1. N!ToSet(log) = {log[i] : i \in 1..Len(log)}
  BY DEF NetworkForms, N!ToSet
<1>2. DOMAIN seen1 = {q \in N!ToSet(log) : N!RecordedAt(record[q]) >= op.window}
      /\ \A r \in DOMAIN seen1 : seen1[r] = record[r]
  OBVIOUS
<1>3. ASSUME NEW r \in matches PROVE r \in N!Fitting
  <2>1. /\ r \in Meant /\ r \in DOMAIN seen1 /\ seen1[r] = record[r]
        /\ N!Satisfies(op.want, record[r]) /\ N!EventAt(op.want, record[r]) >= op.start
    BY <1>2, <1>3
  <2>2. r \in Requests /\ record[r] # None
    BY <1>0, <1>1, <1>2, <2>1 DEF LogInv
  <2>3. /\ real[r].asked # None /\ record[r].answered = real[r].answered
        /\ record[r].good = real[r].good
        /\ record[r].heard => record[r].asked = real[r].asked /\ r \notin lost.unheard
        /\ real[r].answered = None => ~real[r].good
    BY <2>2 DEF RecordInv, RealInv
  <2>4. /\ op.want.request => record[r].heard
        /\ op.want.status => record[r].good
        /\ op.want.elapsed # None =>
              record[r].heard /\ record[r].answered # None
                              /\ record[r].answered - record[r].asked <= op.want.elapsed
    BY <2>1 DEF N!Satisfies
  <2>5. op.want.response # None => N!ResponseRequired(op.want) = op.want.response
    BY DEF N!ResponseRequired
  <2>6. /\ op.want.response = "yes" => record[r].answered # None
        /\ op.want.response = "no" => record[r].answered = None
    BY <1>0, <2>1, <2>5 DEF N!Satisfies
  <2>7. op.want.status => record[r].answered # None
    BY <2>3, <2>4
  <2>8. IF op.want.request THEN real[r].asked >= op.start ELSE real[r].answered >= op.start
    BY <2>1, <2>3, <2>4 DEF N!EventAt
  <2>. QED  BY <1>0, <2>1, <2>3, <2>4, <2>6, <2>7, <2>8 DEF N!Fitting
<1>4. ASSUME ~lost.trimmed, NEW r \in N!Fitting PROVE r \in matches
  <2>1. /\ r \in Meant /\ real[r].asked # None
        /\ (op.want.request \/ op.want.elapsed # None => r \notin lost.unheard)
        /\ (op.want.response = "yes" \/ ~op.want.request \/ op.want.status \/ op.want.elapsed # None
              => real[r].answered # None)
        /\ (op.want.response = "no" => ~(real[r].answered # None))
        /\ (op.want.status => real[r].good)
        /\ (op.want.elapsed # None => real[r].answered - real[r].asked <= op.want.elapsed)
        /\ (IF op.want.request THEN real[r].asked ELSE real[r].answered) >= op.start
    BY <1>4 DEF N!Fitting
  <2>2. r \in Requests /\ real[r] \in Reals
    BY <1>0, <2>1 DEF NetworkForms
  <2>3. record[r] # None /\ (r \notin lost.unheard => record[r].heard)
    BY <1>4, <2>1, <2>2 DEF LogInv
  <2>4. /\ record[r] \in N!Records
        /\ record[r].answered = real[r].answered /\ record[r].good = real[r].good
        /\ record[r].heard => record[r].asked = real[r].asked
        /\ record[r].answered # None => record[r].asked <= record[r].answered
    BY <2>2, <2>3 DEF RecordInv, NetworkForms
  <2>5. N!EventAt(op.want, record[r]) >= op.start /\ N!EventAt(op.want, record[r]) \in Nat
    BY <2>1, <2>2, <2>3, <2>4 DEF N!EventAt, Reals
  <2>6. N!RecordedAt(record[r]) >= N!EventAt(op.want, record[r]) /\ N!RecordedAt(record[r]) \in Nat
    BY <2>1, <2>4 DEF N!RecordedAt, N!EventAt, N!Records
  <2>7. N!RecordedAt(record[r]) >= op.window
    BY <1>0, <2>5, <2>6
  <2>8. r \in DOMAIN seen1 /\ seen1[r] = record[r]
    <3>1. r \in N!ToSet(log)
      BY <1>1, <2>2, <2>3 DEF LogInv
    <3>. QED  BY <1>2, <2>7, <3>1
  <2>9. /\ N!ResponseRequired(op.want) = "yes" => record[r].answered # None
        /\ N!ResponseRequired(op.want) = "no" => record[r].answered = None
    BY <1>0, <2>1, <2>4 DEF N!ResponseRequired
  <2>10. N!Satisfies(op.want, record[r])
    BY <2>1, <2>3, <2>4, <2>9 DEF N!Satisfies
  <2>. QED  BY <2>1, <2>5, <2>8, <2>10
<1>. QED  BY <1>3, <1>4

\* One match, none, or several.
LEMMA HowMany ==
    ASSUME NEW M, IsFiniteSet(M)
    PROVE  /\ Cardinality(M) > 1 => \E x, y \in M : x # y
           /\ Cardinality(M) <= 1 /\ M # {} => \E x \in M : M = {x}
           /\ \A x, y \in M : x # y => Cardinality(M) >= 2
           /\ \A x : M = {x} => Cardinality(M) = 1
<1>1. Cardinality(M) \in Nat
  BY FS_CardinalityType
<1>2. ASSUME NEW x, M = {x} PROVE Cardinality(M) = 1
  BY <1>2, FS_Singleton
<1>3. ASSUME NEW x \in M, NEW y \in M, x # y PROVE Cardinality(M) >= 2
  <2>1. IsFiniteSet({x}) /\ Cardinality({x}) = 1
    BY FS_Singleton
  <2>2. IsFiniteSet({x} \cup {y}) /\ Cardinality({x} \cup {y}) = 2
    <3>1. y \notin {x}
      BY <1>3
    <3>2. /\ IsFiniteSet({x} \cup {y})
          /\ Cardinality({x} \cup {y}) = IF y \in {x} THEN Cardinality({x}) ELSE Cardinality({x}) + 1
      BY <2>1, FS_AddElement
    <3>. QED  BY <2>1, <3>1, <3>2
  <2>3. Cardinality({x} \cup {y}) <= Cardinality(M)
    <3>1. {x} \cup {y} \subseteq M
      OBVIOUS
    <3>. QED  BY <3>1, FS_Subset
  <2>. QED  BY <1>1, <2>2, <2>3
<1>4. ASSUME Cardinality(M) > 1 PROVE \E x, y \in M : x # y
  <2>1. M # {}
    BY <1>4, FS_EmptySet
  <2>2. PICK x \in M : TRUE
    BY <2>1
  <2>3. M # {x}
    <3>1. M = {x} => Cardinality(M) = 1
      BY <1>2, Zenon
    <3>. QED  BY <1>4, <3>1
  <2>. QED  BY <2>2, <2>3
<1>5. ASSUME Cardinality(M) <= 1, M # {} PROVE \E x \in M : M = {x}
  <2>1. PICK x \in M : TRUE
    BY <1>5
  <2>2. \A y \in M : y = x
    BY <1>1, <1>3, <1>5, <2>1
  <2>. QED  BY <2>2
<1>. QED  BY <1>2, <1>3, <1>4, <1>5

LEMMA NetworkBegins == NetworkInv /\ (N!Begins \/ N!Dispatches) => NetworkInv'
<1>. SUFFICES ASSUME NetworkInv, N!Begins \/ N!Dispatches PROVE NetworkInv'
  OBVIOUS
<1>a. NetworkForms /\ RealInv /\ RecordInv /\ LogInv /\ OperationInv
  BY DEF NetworkInv
<1>1. UNCHANGED <<ms, real, log, record, lost>>
  BY DEF N!Begins, N!Dispatches
<1>b. /\ op = [at |-> op.at, want |-> op.want, window |-> op.window, start |-> op.start,
               snapshot |-> op.snapshot, then |-> op.then, verdict |-> op.verdict, trace |-> op.trace]
      /\ ms \in Nat
  BY <1>a DEF NetworkForms
<1>2. \/ /\ op.at = "idle" /\ op'.at = "begun" /\ op'.window = ms /\ op'.start = op.start
      \/ /\ op.at = "begun" /\ op'.at = "acting" /\ op'.window = op.window /\ op'.start = ms
  <2>1. CASE N!Begins
    <3>1. op.at = "idle" /\ op' = [op EXCEPT !.at = "begun", !.window = ms]
      BY <2>1 DEF N!Begins
    <3>2. op' = [at |-> "begun", want |-> op.want, window |-> ms, start |-> op.start,
                 snapshot |-> op.snapshot, then |-> op.then, verdict |-> op.verdict, trace |-> op.trace]
      BY <1>b, <3>1
    <3>. QED  BY <3>1, <3>2
  <2>2. CASE N!Dispatches
    <3>1. op.at = "begun" /\ op' = [op EXCEPT !.at = "acting", !.start = ms]
      BY <2>2 DEF N!Dispatches
    <3>2. op' = [at |-> "acting", want |-> op.want, window |-> op.window, start |-> ms,
                 snapshot |-> op.snapshot, then |-> op.then, verdict |-> op.verdict, trace |-> op.trace]
      BY <1>b, <3>1
    <3>. QED  BY <3>1, <3>2
  <2>. QED  BY <2>1, <2>2
<1>3. /\ op' = [at |-> op'.at, want |-> op'.want, window |-> op'.window, start |-> op'.start,
                snapshot |-> op'.snapshot, then |-> op'.then, verdict |-> op'.verdict, trace |-> op'.trace]
      /\ op'.want = op.want /\ op'.verdict = op.verdict /\ op'.trace = op.trace
  <2>1. CASE N!Begins
    BY <1>b, <2>1 DEF N!Begins
  <2>2. CASE N!Dispatches
    BY <1>b, <2>2 DEF N!Dispatches
  <2>. QED  BY <2>1, <2>2
<1>4. NetworkForms'
  <2>1. op'.want \in Wants /\ op'.window \in Nat /\ op'.start \in Nat
    BY <1>2, <1>3, <1>a DEF NetworkForms
  <2>. QED  BY <1>1, <1>3, <1>a, <2>1 DEF NetworkForms
<1>5. OperationInv'
  <2>1. op'.verdict = None /\ op'.trace = None
    BY <1>2, <1>3, <1>a DEF OperationInv
  <2>2. op'.at = "begun" => op'.window <= ms'
    BY <1>1, <1>2, <1>b
  <2>3. op'.at \in {"begun", "acting"}
    BY <1>2
  <2>4. op'.at \notin {"idle", "begun"} => op'.window <= op'.start
    BY <1>2, <1>a DEF OperationInv
  <2>5. N!JudgedAsItHappened'
    BY <2>1, NetworkConstants DEF N!JudgedAsItHappened
  <2>. QED  BY <2>1, <2>2, <2>3, <2>4, <2>5 DEF OperationInv
<1>. QED  BY <1>1, <1>4, <1>5, <1>a, NetworkIsLeft DEF NetworkInv

LEMMA NetworkObserves == NetworkInv /\ N!Observes => NetworkInv'
<1>. SUFFICES ASSUME NetworkInv, N!Observes PROVE NetworkInv'
  OBVIOUS
<1>. DEFINE seen1 == [r \in {q \in N!ToSet(log) : N!RecordedAt(record[q]) >= op.window} |-> record[r]]
            matches == {r \in Meant \cap DOMAIN seen1 :
                           N!Satisfies(op.want, seen1[r]) /\ N!EventAt(op.want, seen1[r]) >= op.start}
            fitting == N!Fitting
<1>a. NetworkForms /\ RealInv /\ RecordInv /\ LogInv /\ OperationInv
  BY DEF NetworkInv
<1>1. /\ op.at = "acting" /\ op' = [op EXCEPT !.at = "observed", !.then = fitting, !.snapshot = seen1]
      /\ UNCHANGED <<ms, real, log, record, lost>>
  BY DEF N!Observes
<1>2. op.window <= op.start /\ op.verdict = None /\ op.trace = None
  BY <1>1, <1>a DEF OperationInv
<1>3. matches \subseteq fitting /\ (lost.trimmed \/ fitting \subseteq matches)
  BY <1>2, <1>a, ObservedAsItIs
<1>4. fitting \subseteq Requests
  BY NetworkConstants DEF N!Fitting
<1>. HIDE DEF seen1, fitting
<1>5. op' = [at |-> "observed", want |-> op.want, window |-> op.window, start |-> op.start,
             snapshot |-> seen1, then |-> fitting, verdict |-> op.verdict, trace |-> op.trace]
  BY <1>1, <1>a DEF NetworkForms
<1>6. /\ op'.at = "observed" /\ op'.want = op.want /\ op'.window = op.window /\ op'.start = op.start
      /\ op'.snapshot = seen1 /\ op'.then = fitting /\ op'.verdict = None /\ op'.trace = None
      /\ op' = [at |-> op'.at, want |-> op'.want, window |-> op'.window, start |-> op'.start,
                snapshot |-> op'.snapshot, then |-> op'.then, verdict |-> op'.verdict, trace |-> op'.trace]
  BY <1>2, <1>5
<1>7. NetworkForms'
  BY <1>1, <1>6, <1>a DEF NetworkForms
<1>8. OperationInv'
  <2>1. Matches' = matches
    BY <1>6 DEF Matches
  <2>2. N!JudgedAsItHappened'
    BY <1>6, NetworkConstants DEF N!JudgedAsItHappened
  <2>3. lost' = lost
    BY <1>1
  <2>. HIDE DEF matches
  <2>. QED  BY <1>2, <1>3, <1>4, <1>6, <2>1, <2>2, <2>3 DEF OperationInv
<1>. QED  BY <1>1, <1>7, <1>8, <1>a, NetworkIsLeft DEF NetworkInv

LEMMA RequestsFinite == IsFiniteSet(Requests)
BY SurfacesInstance DEF N!NetworkAssumption, N!IsFiniteSet, IsFiniteSet

LEMMA NetworkJudges == NetworkInv /\ N!Judges => NetworkInv'
<1>. SUFFICES ASSUME NetworkInv, N!Judges PROVE NetworkInv'
  OBVIOUS
<1>. DEFINE verdict == N!NetworkMatches(op.want, op.snapshot)
<1>a. NetworkForms /\ RealInv /\ RecordInv /\ LogInv /\ OperationInv
  BY DEF NetworkInv
<1>1. /\ op.at = "observed" /\ UNCHANGED <<ms, real, log, record, lost>>
      /\ \/ op' = [op EXCEPT !.at = "judged", !.verdict = verdict, !.snapshot = <<>>]
         \/ op' = [op EXCEPT !.at = "acting"]
  BY DEF N!Judges
<1>2. /\ op.window <= op.start /\ op.verdict = None /\ op.trace = None /\ op.then \subseteq Requests
      /\ Matches \subseteq op.then /\ (lost.trimmed \/ op.then \subseteq Matches)
  BY <1>1, <1>a DEF OperationInv
<1>3. verdict = IF Cardinality(Matches) > 1 THEN "indeterminate" ELSE IF Matches # {} THEN "pass" ELSE "fail"
  BY DEF N!NetworkMatches, Matches, N!Cardinality, Cardinality
<1>4. IsFiniteSet(Matches) /\ IsFiniteSet(op.then) /\ Cardinality(Matches) \in Nat
  BY <1>2, RequestsFinite, FS_Subset, FS_CardinalityType
<1>5. /\ verdict = "pass" => op.then # {} /\ (lost.trimmed \/ Cardinality(op.then) = 1)
      /\ verdict = "indeterminate" => Cardinality(op.then) >= 2
      /\ verdict = "fail" => op.then = {} \/ lost.trimmed
  <2>. HIDE DEF verdict
  <2>1. CASE Cardinality(Matches) > 1
    <3>1. PICK x, y \in Matches : x # y
      BY <1>4, <2>1, HowMany
    <3>2. x \in op.then /\ y \in op.then
      BY <1>2
    <3>3. Cardinality(op.then) >= 2
      BY <1>4, <3>1, <3>2, HowMany
    <3>. QED  BY <1>3, <2>1, <3>3
  <2>2. CASE ~(Cardinality(Matches) > 1) /\ Matches # {}
    <3>1. PICK x \in Matches : Matches = {x}
      BY <1>4, <2>2, HowMany
    <3>2. op.then # {} /\ (lost.trimmed \/ op.then = {x})
      BY <1>2, <3>1
    <3>3. op.then = {x} => Cardinality(op.then) = 1
      BY <1>4, HowMany
    <3>. QED  BY <1>3, <2>2, <3>2, <3>3
  <2>3. CASE ~(Cardinality(Matches) > 1) /\ Matches = {}
    BY <1>2, <1>3, <2>3
  <2>. QED  BY <2>1, <2>2, <2>3
<1>. HIDE DEF verdict
<1>6. PICK at, snapshot, said :
         /\ op' = [at |-> at, want |-> op.want, window |-> op.window, start |-> op.start,
                   snapshot |-> snapshot, then |-> op.then, verdict |-> said, trace |-> op.trace]
         /\ (at = "judged" /\ said = verdict) \/ (at = "acting" /\ said = None)
  <2>1. CASE op' = [op EXCEPT !.at = "judged", !.verdict = verdict, !.snapshot = <<>>]
    <3>1. op' = [at |-> "judged", want |-> op.want, window |-> op.window, start |-> op.start,
                 snapshot |-> <<>>, then |-> op.then, verdict |-> verdict, trace |-> op.trace]
      BY <1>a, <2>1 DEF NetworkForms
    <3>. QED  BY <3>1
  <2>2. CASE op' = [op EXCEPT !.at = "acting"]
    <3>1. op' = [at |-> "acting", want |-> op.want, window |-> op.window, start |-> op.start,
                 snapshot |-> op.snapshot, then |-> op.then, verdict |-> op.verdict, trace |-> op.trace]
      BY <1>a, <2>2 DEF NetworkForms
    <3>. QED  BY <1>2, <3>1
  <2>. QED  BY <1>1, <2>1, <2>2
<1>7. /\ op'.at = at /\ op'.want = op.want /\ op'.window = op.window /\ op'.start = op.start
      /\ op'.then = op.then /\ op'.verdict = said /\ op'.trace = None
      /\ op' = [at |-> op'.at, want |-> op'.want, window |-> op'.window, start |-> op'.start,
                snapshot |-> op'.snapshot, then |-> op'.then, verdict |-> op'.verdict, trace |-> op'.trace]
  BY <1>2, <1>6
<1>8. NetworkForms'
  BY <1>1, <1>7, <1>a DEF NetworkForms
<1>9. OperationInv'
  <2>1. N!JudgedAsItHappened'
    <3>1. lost' = lost
      BY <1>1
    <3>2. N!Cardinality(op.then) = Cardinality(op.then)
      BY DEF N!Cardinality, Cardinality
    <3>. QED  BY <1>5, <1>6, <1>7, <3>1, <3>2, NetworkConstants DEF N!JudgedAsItHappened
  <2>. QED  BY <1>2, <1>6, <1>7, <2>1 DEF OperationInv
<1>. QED  BY <1>1, <1>8, <1>9, <1>a, NetworkIsLeft DEF NetworkInv

LEMMA NetworkCaptures == NetworkInv /\ N!Captures => NetworkInv'
<1>. SUFFICES ASSUME NetworkInv, N!Captures PROVE NetworkInv'
  OBVIOUS
<1>. DEFINE since == {i \in DOMAIN log : N!RecordedAt(record[log[i]]) >= op.start}
            last  == {i \in since : N!Cardinality({j \in since : j >= i}) <= MaxRecords}
            asked == {r \in Requests \ lost.unheard : real[r].asked # None /\ real[r].asked >= op.start}
            trace == [has |-> {log[i] : i \in last}, truncated |-> N!Cardinality(since) > MaxRecords,
                      asked |-> asked]
<1>a. NetworkForms /\ RealInv /\ RecordInv /\ LogInv /\ OperationInv
  BY DEF NetworkInv
<1>b. /\ None \notin Nat /\ LogLimit \in Nat /\ MaxRecords \in Nat /\ MaxRecords < LogLimit
      /\ log \in Seq(Requests) /\ DOMAIN log = 1..Len(log) /\ Len(log) \in Nat /\ op.start \in Nat
  BY <1>a, NetworkConstants DEF NetworkForms
<1>1. /\ op.at = "judged" /\ op' = [op EXCEPT !.at = "captured", !.trace = trace]
      /\ UNCHANGED <<ms, real, log, record, lost>>
  BY DEF N!Captures
<1>2. \A T : N!Cardinality(T) = Cardinality(T)
  BY DEF N!Cardinality, Cardinality
<1>3. IsFiniteSet(DOMAIN log) /\ Cardinality(DOMAIN log) = Len(log)
  <2>1. /\ IsFiniteSet(1..Len(log))
        /\ Cardinality(1..Len(log)) = IF 1 > Len(log) THEN 0 ELSE Len(log) - 1 + 1
    <3>1. 1 \in Int /\ Len(log) \in Int
      BY <1>b
    <3>. QED  BY <3>1, FS_Interval
  <2>. QED  BY <1>b, <2>1
<1>4. /\ since \subseteq DOMAIN log /\ IsFiniteSet(since) /\ Cardinality(since) \in Nat
  BY <1>3, FS_Subset, FS_CardinalityType
<1>5. \A i \in 1..Len(log) :
         /\ record[log[i]] \in N!Records
         /\ N!RecordedAt(record[log[i]]) >= record[log[i]].asked
         /\ N!RecordedAt(record[log[i]]) \in Nat /\ record[log[i]].asked \in Nat
  <2>. TAKE i \in 1..Len(log)
  <2>0. log[i] \in Requests
    BY <1>b
  <2>1. log[i] \in Requests /\ record[log[i]] # None
    BY <1>a, <2>0 DEF LogInv
  <2>2. record[log[i]] \in N!Records
    BY <1>a, <2>1 DEF NetworkForms
  <2>3. record[log[i]].answered # None => record[log[i]].asked <= record[log[i]].answered
    BY <1>a, <2>1 DEF RecordInv
  <2>. QED  BY <2>2, <2>3 DEF N!RecordedAt, N!Records
<1>6. ASSUME ~(Cardinality(since) > MaxRecords), NEW r \in asked
      PROVE  r \in {log[i] : i \in last}
  <2>1. /\ r \in Requests /\ r \notin lost.unheard /\ real[r].asked # None /\ real[r].asked >= op.start
        /\ real[r].asked \in Nat
    BY <1>6, <1>a DEF NetworkForms, Reals
  <2>2. record[r] # None
    <3>. SUFFICES ASSUME record[r] = None PROVE FALSE
      OBVIOUS
    <3>1. Len(log) = LogLimit /\ \A i \in 1..Len(log) : real[r].asked <= record[log[i]].asked
      BY <1>a, <2>1 DEF LogInv
    <3>2. \A i \in 1..Len(log) : N!RecordedAt(record[log[i]]) >= op.start
      BY <1>5, <1>b, <2>1, <3>1
    <3>3. since = DOMAIN log
      BY <1>b, <3>2
    <3>. HIDE DEF since
    <3>. QED  BY <1>3, <1>6, <1>b, <3>1, <3>3
  <2>3. PICK i \in 1..Len(log) : log[i] = r
    BY <1>a, <2>1, <2>2 DEF LogInv
  <2>4. real[r].asked <= record[r].asked
    BY <1>a, <2>1, <2>2 DEF RecordInv
  <2>5. i \in since
    BY <1>5, <1>b, <2>1, <2>3, <2>4
  <2>. HIDE DEF since
  <2>6. Cardinality({j \in since : j >= i}) <= MaxRecords
    <3>1. {j \in since : j >= i} \subseteq since
      OBVIOUS
    <3>2. /\ IsFiniteSet({j \in since : j >= i})
          /\ Cardinality({j \in since : j >= i}) <= Cardinality(since)
      BY <1>4, <3>1, FS_Subset
    <3>3. Cardinality({j \in since : j >= i}) \in Nat
      BY <3>2, FS_CardinalityType
    <3>. QED  BY <1>4, <1>6, <1>b, <3>2, <3>3
  <2>7. i \in last
    BY <1>2, <2>5, <2>6
  <2>. QED  BY <2>3, <2>7
<1>. HIDE DEF since, last, asked
<1>7. ~trace.truncated => trace.asked \subseteq trace.has
  BY <1>2, <1>6
<1>. HIDE DEF trace
<1>8. op' = [at |-> "captured", want |-> op.want, window |-> op.window, start |-> op.start,
             snapshot |-> op.snapshot, then |-> op.then, verdict |-> op.verdict, trace |-> trace]
  BY <1>1, <1>a DEF NetworkForms
<1>9. /\ op'.at = "captured" /\ op'.want = op.want /\ op'.window = op.window /\ op'.start = op.start
      /\ op'.then = op.then /\ op'.verdict = op.verdict /\ op'.trace = trace
      /\ op' = [at |-> op'.at, want |-> op'.want, window |-> op'.window, start |-> op'.start,
                snapshot |-> op'.snapshot, then |-> op'.then, verdict |-> op'.verdict, trace |-> op'.trace]
  BY <1>8
<1>10. NetworkForms'
  BY <1>1, <1>9, <1>a DEF NetworkForms
<1>11. OperationInv'
  <2>0. lost' = lost
    BY <1>1
  <2>1. N!JudgedAsItHappened'
    BY <1>7, <1>9, <1>a, <2>0 DEF OperationInv, N!JudgedAsItHappened
  <2>2. op'.window <= op'.start
    BY <1>1, <1>9, <1>a DEF OperationInv
  <2>. QED  BY <1>9, <2>1, <2>2 DEF OperationInv
<1>. QED  BY <1>1, <1>10, <1>11, <1>a, NetworkIsLeft DEF NetworkInv

LEMMA NetworkNext == NetworkInv /\ [N!Next]_networkVars => NetworkInv'
<1>. SUFFICES ASSUME NetworkInv, [N!Next]_networkVars PROVE NetworkInv'
  OBVIOUS
<1>1. ASSUME NEW r \in Requests, N!Asks(r) \/ N!AsksUnheard(r) \/ \E good \in N!Statuses : N!Answers(r, good)
      PROVE  NetworkInv'
  <2>1. N!Statuses \subseteq BOOLEAN
    BY DEF N!Statuses
  <2>. QED  BY <1>1, <2>1, NetworkAsks, NetworkAsksUnheard, NetworkAnswers
<1>2. CASE UNCHANGED networkVars
  <2>1. UNCHANGED <<ms, real, log, record, op, lost>>
    BY <1>2 DEF networkVars
  <2>2. NetworkForms' /\ RealInv' /\ RecordInv' /\ LogInv'
    BY <2>1, NetworkIsLeft DEF NetworkInv, NetworkForms
  <2>3. OperationInv'
    <3>1. ms' \in Nat /\ ms <= ms' /\ (lost.trimmed => lost'.trimmed)
      BY <2>1 DEF NetworkInv, NetworkForms
    <3>. QED  BY <2>1, <3>1, OperationGoesOn DEF NetworkInv
  <2>. QED  BY <2>2, <2>3 DEF NetworkInv
<1>. QED  BY <1>1, <1>2, NetworkTick, NetworkBegins, NetworkObserves, NetworkJudges, NetworkCaptures
          DEF N!Next, networkVars

LEMMA NetworkJudged == NetworkInv => N!JudgedAsItHappened
BY DEF NetworkInv, OperationInv

(* All four judges.                                                         *)

JudgesInv ==
    /\ part \in {"observation", "sampling", "network", "video", "desktop", "server", "controls"}
    /\ part = "sampling" => SamplingInv
    /\ part = "network" => NetworkInv
    /\ part = "video" => VideoInv
    /\ part = "controls" => ControlsInv

\* What a page or a network is judged to have done is what it did: monitor and adapter
\* (runtime/generation_monitor.py, runtime/application_lifecycle.py), the network
\* expectation (runtime/verifier.py), the wait for a video and the choice of an option
\* (backends/playwright_backend.py), whatever the bounds of the instance.
THEOREM JudgesTellTheTruth == SurfacesSpec => []JudgedAsSampled
<1>1. SurfacesInit => JudgesInv
  <2>. SUFFICES ASSUME SurfacesInit PROVE JudgesInv
    OBVIOUS
  <2>1. part \in {"observation", "sampling", "network", "video", "desktop", "server", "controls"}
    BY DEF SurfacesInit
  <2>2. /\ part = "sampling" => S!Init
        /\ part = "network" => N!Init
        /\ part = "video" => V!Init
        /\ part = "controls" => C!Init
    BY DEF SurfacesInit
  <2>. QED  BY <2>1, <2>2, SamplingInit, NetworkInit, VideoInit, ControlsInit DEF JudgesInv
<1>2. JudgesInv /\ [SurfacesNext]_surfacesVars => JudgesInv'
  <2>. SUFFICES ASSUME JudgesInv, [SurfacesNext]_surfacesVars PROVE JudgesInv'
    OBVIOUS
  <2>1. UNCHANGED part
    BY DEF SurfacesNext, surfacesVars
  <2>2. /\ part = "sampling" => [S!Next]_samplingVars
        /\ part = "network" => [N!Next]_networkVars
        /\ part = "video" => [V!Next]_videoVars
        /\ part = "controls" => [C!Next]_controlVars
    BY DEF SurfacesNext, surfacesVars
  <2>. QED  BY <2>1, <2>2, SamplingNext, NetworkNext, VideoNext, ControlsNext DEF JudgesInv
<1>3. JudgesInv => JudgedAsSampled
  BY SamplingJudged, NetworkJudged, ControlsTell DEF JudgesInv, JudgedAsSampled, VideoInv
<1>. QED  BY <1>1, <1>2, <1>3, PTL DEF SurfacesSpec
=============================================================================
