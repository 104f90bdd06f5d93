-------------------------- MODULE ContinuityProofs --------------------------
(***************************************************************************)
(* Proofs about Continuity, for every set of owners, commands and binding   *)
(* generations and for hosts that do any of AllEvents.  What is said of the *)
(* journals is said of journals that are not spoiled: every record of them  *)
(* was appended to what had been replayed, and under the lease.  Orderly     *)
(* hosts spoil none.                                                        *)
(***************************************************************************)
EXTENDS Continuity, FiniteSetTheorems, TLAPS

-----------------------------------------------------------------------------
(* Journals. *)

\* The last record of a command is one of its records, and no other is later.
Lasts(journal) ==
    \A c \in Command : Of(journal, c) # {} =>
        /\ LastOf(journal, c) \in Of(journal, c)
        /\ \A k \in Of(journal, c) : k <= LastOf(journal, c)

\* One more record is one more record of its command only.
LEMMA OfAppend ==
    ASSUME NEW T, NEW j \in Seq(T), NEW r \in T, NEW c
    PROVE  Of(Append(j, r), c) = IF r.command = c THEN Of(j, c) \cup {Len(j) + 1} ELSE Of(j, c)
  BY DEF Of

\* The records of a command are positions of the journal.
LEMMA OfRange ==
    ASSUME NEW T, NEW j \in Seq(T), NEW c, NEW i \in Of(j, c)
    PROVE  i \in 1..Len(j) /\ j[i] \in T /\ j[i].command = c
  BY DEF Of

\* The last record survives an append to another command, and the new record is the
\* last one of its own.
LEMMA LastAppend ==
    ASSUME NEW T, NEW j \in Seq(T), NEW r \in T, Lasts(j)
    PROVE  /\ Lasts(Append(j, r))
           /\ LastOf(Append(j, r), r.command) = Len(j) + 1
           /\ \A c : c # r.command => LastOf(Append(j, r), c) = LastOf(j, c)
<1>1. LastOf(Append(j, r), r.command) = Len(j) + 1
  <2>1. /\ Len(j) + 1 \in Of(Append(j, r), r.command)
        /\ \A k \in Of(Append(j, r), r.command) : k \in Nat /\ k <= Len(j) + 1
    BY OfAppend, OfRange
  <2>2. \A i \in Of(Append(j, r), r.command) :
           (\A k \in Of(Append(j, r), r.command) : k <= i) => i = Len(j) + 1
    BY <2>1
  <2> QED
    BY <2>1, <2>2 DEF LastOf
<1>2. ASSUME NEW c, c # r.command PROVE LastOf(Append(j, r), c) = LastOf(j, c)
  BY <1>2, OfAppend DEF LastOf
<1>3. Lasts(Append(j, r))
  <2> SUFFICES ASSUME NEW c \in Command, Of(Append(j, r), c) # {}
               PROVE  /\ LastOf(Append(j, r), c) \in Of(Append(j, r), c)
                      /\ \A k \in Of(Append(j, r), c) : k <= LastOf(Append(j, r), c)
    BY DEF Lasts
  <2>1. CASE c = r.command
    BY <2>1, <1>1, OfAppend, OfRange
  <2>2. CASE c # r.command
    BY <2>2, <1>2, OfAppend DEF Lasts
  <2> QED
    BY <2>1, <2>2
<1> QED
  BY <1>1, <1>2, <1>3

\* An append moves its own command to the state of the record and no other command.
LEMMA StateAppend ==
    ASSUME NEW j \in Seq(CommandRecord), NEW r \in CommandRecord, Lasts(j), NEW c \in Command
    PROVE  StateOf(Append(j, r), c) = IF c = r.command THEN r.state ELSE StateOf(j, c)
<1>1. CASE c = r.command
  <2>1. Of(Append(j, r), c) = Of(j, c) \cup {Len(j) + 1}
    BY <1>1, OfAppend
  <2>2. LastOf(Append(j, r), c) = Len(j) + 1
    BY <1>1, LastAppend
  <2>3. Append(j, r)[Len(j) + 1] = r
    OBVIOUS
  <2> QED
    BY <1>1, <2>1, <2>2, <2>3 DEF StateOf
<1>2. CASE c # r.command
  <2>1. Of(Append(j, r), c) = Of(j, c) /\ LastOf(Append(j, r), c) = LastOf(j, c)
    BY <1>2, OfAppend, LastAppend
  <2>2. ASSUME Of(j, c) # {} PROVE Append(j, r)[LastOf(j, c)] = j[LastOf(j, c)]
    <3>1. LastOf(j, c) \in 1..Len(j)
      BY <2>2, OfRange DEF Lasts
    <3> QED
      BY <3>1
  <2> QED
    BY <1>2, <2>1, <2>2 DEF StateOf
<1> QED
  BY <1>1, <1>2

\* A state of a command is one of the abstract states.
LEMMA StateType ==
    ASSUME NEW j \in Seq(CommandRecord), Lasts(j), NEW c \in Command
    PROVE  StateOf(j, c) \in Commands!States
<1>1. CASE Of(j, c) = {}
  BY <1>1 DEF StateOf, Commands!States
<1>2. CASE Of(j, c) # {}
  <2>1. j[LastOf(j, c)] \in CommandRecord
    BY <1>2, OfRange DEF Lasts
  <2> QED
    BY <1>2, <2>1 DEF StateOf, CommandRecord
<1> QED
  BY <1>1, <1>2

\* A journal that can be replayed, continued by a record that follows the state of its
\* command, can be replayed.
LEMMA ReadableAppend ==
    ASSUME NEW j \in Seq(CommandRecord), NEW r \in CommandRecord, Readable(j),
           r.from = StateOf(j, r.command), r.state \in Commands!Transitions[r.from]
    PROVE  Readable(Append(j, r))
<1> SUFFICES ASSUME NEW i \in DOMAIN Append(j, r)
             PROVE  /\ Append(j, r)[i].from =
                          StateOf(SubSeq(Append(j, r), 1, i - 1), Append(j, r)[i].command)
                    /\ Append(j, r)[i].state \in Commands!Transitions[Append(j, r)[i].from]
  BY DEF Readable
<1>1. CASE i \in 1..Len(j)
  <2>1. Append(j, r)[i] = j[i] /\ SubSeq(Append(j, r), 1, i - 1) = SubSeq(j, 1, i - 1)
    BY <1>1
  <2>2. j[i].from = StateOf(SubSeq(j, 1, i - 1), j[i].command)
    BY <1>1 DEF Readable
  <2>3. j[i].state \in Commands!Transitions[j[i].from]
    BY <1>1 DEF Readable
  <2> QED
    BY <2>1, <2>2, <2>3
<1>2. CASE i = Len(j) + 1
  <2>1. Append(j, r)[i] = r /\ SubSeq(Append(j, r), 1, i - 1) = j
    BY <1>2
  <2> QED
    BY <2>1
<1> QED
  BY <1>1, <1>2
-----------------------------------------------------------------------------
(* Types.  The replay of a journal needs the last record of a command to exist, so *)
(* that belongs to the invariant.                                                   *)

TypeInv == TypeOK /\ Lasts(cmds) /\ Lasts(evid)

\* What a pending mutation holds follows from the stream it is about to write.
LEMMA OpCases ==
    ASSUME NEW x \in Op
    PROVE  /\ x.at = "commands" => x.record \in CommandRecord
           /\ x.at = "bindings" => x.record \in BindingRecord
           /\ x.at \in {"evidence", "transition"} =>
                  x.record \in EvidenceRecord /\ [x EXCEPT !.at = "transition"] \in Op
           /\ x.at = "none" => x = NoOp
  BY DEF Op, NoOp

\* A mutation may always append a record of the stream's type.
LEMMA OpTypes ==
    /\ NoOp \in Op
    /\ \A x \in CommandRecord : [at |-> "commands", record |-> x] \in Op
    /\ \A x \in BindingRecord : [at |-> "bindings", record |-> x] \in Op
    /\ \A x \in EvidenceRecord : [at |-> "evidence", record |-> x] \in Op
  BY DEF Op, NoOp

\* The record of a transition is a record of the journal of commands.
LEMMA MovedType ==
    ASSUME TypeInv, NEW c \in Command, NEW s \in Commands!States,
           NEW g \in Generation \cup {NoGeneration}
    PROVE  Moved(c, s, g) \in CommandRecord
  BY StateType DEF TypeInv, TypeOK, Moved, CommandRecord

\* The class of a verdict is a state of the command.
LEMMA ClassIsState == Classes \subseteq Commands!States
  BY DEF Classes, Commands!States, Commands!Ended

\* The evidence for a command is a class of verdicts, or there is none.
LEMMA EvidenceType ==
    ASSUME TypeInv, NEW c \in Command
    PROVE  /\ EvidenceFor(c) \in Classes \cup {"none"}
           /\ Of(evid, c) # {} => EvidenceFor(c) \in Classes
<1>1. CASE Of(evid, c) = {}
  BY <1>1 DEF EvidenceFor
<1>2. CASE Of(evid, c) # {}
  <2>1. evid \in Seq(EvidenceRecord) /\ LastOf(evid, c) \in Of(evid, c)
    BY <1>2 DEF TypeInv, TypeOK, Lasts
  <2>2. evid[LastOf(evid, c)] \in EvidenceRecord
    BY <2>1, OfRange
  <2> QED
    BY <1>2, <2>2 DEF EvidenceFor, EvidenceRecord
<1> QED
  BY <1>1, <1>2

\* Recovery ends commands in a class of verdicts.
LEMMA TargetsType ==
    ASSUME TypeInv
    PROVE  Targets \in [Command -> Classes \cup {"none"}]
  BY EvidenceType DEF Targets, Classes

\* An append, read or not, leaves a journal of the same type with last records.
LEMMA AppendedType ==
    ASSUME NEW T, NEW j \in Seq(T), NEW r \in T, Lasts(j), NEW k \in Appended(j, r)
    PROVE  k \in Seq(T) /\ Lasts(k)
<1>1. CASE k = Append(j, r)
  <2>1. Lasts(Append(j, r))
    BY LastAppend
  <2> QED
    BY <1>1, <2>1
<1>2. CASE k = <<r>>
  <2> DEFINE empty == <<>>
  <2>1. empty \in Seq(T) /\ Lasts(empty) /\ k = Append(empty, r)
    BY <1>2 DEF Lasts, Of
  <2> HIDE DEF empty
  <2>2. Lasts(Append(empty, r))
    BY <2>1, LastAppend
  <2> QED
    BY <2>1, <2>2
<1> QED
  BY <1>1, <1>2 DEF Appended

\* A recovery with nothing to do.
LEMMA NoRecType == NoRec \in [Command -> Classes \cup {"none"}]
  BY DEF NoRec

\* The first state has the types.
LEMMA InitTypes ==
    ASSUME Init
    PROVE  TypeInv
<1>1. Lasts(cmds) /\ Lasts(evid)
  BY DEF Init, Lasts, Of
<1>2. cmds \in Seq(CommandRecord) /\ binds \in Seq(BindingRecord) /\ evid \in Seq(EvidenceRecord)
  BY DEF Init
<1>3. op \in [Owner -> Op] /\ mem \in [Owner -> Header \cup {NoHeader}]
  BY OpTypes DEF Init
<1>4. rec \in [Owner -> [Command -> Classes \cup {"none"}]]
  BY NoRecType DEF Init
<1> QED
  BY <1>1, <1>2, <1>3, <1>4 DEF Init, TypeInv, TypeOK

\* Every step keeps the types.
LEMMA StepTypes ==
    ASSUME TypeInv, [Next]_vars
    PROVE  TypeInv'
<1> USE DEF TypeInv
<1>1. CASE UNCHANGED vars
  <2>1. Lasts(cmds)' /\ Lasts(evid)'
    BY <1>1 DEF vars
  <2>2. TypeOK'
    BY <1>1 DEF vars, TypeOK
  <2> QED
    BY <2>1, <2>2
<1>2. CASE Next
  <2> PICK o \in Owner : \/ Opens(o) \/ Mutates(o) \/ EndSession(o) \/ CloseReleases(o)
                         \/ CloseMarks(o) \/ Crash(o)
    BY <1>2 DEF Next
  <2>1. ASSUME UNCHANGED <<cmds, evid>> PROVE Lasts(cmds)' /\ Lasts(evid)'
    BY <2>1
  <2>2. Released(o) \in Owner \cup {NoOwner}
    BY DEF Released, TypeOK
  <2>3. ASSUME Opens(o) PROVE TypeInv'
    <3>1. CASE CreateChecks(o)
      BY <2>1, <3>1 DEF CreateChecks, TypeOK, files
    <3>2. CASE Leases(o, "checked", "creating") \/ Leases(o, "none", "opening")
      BY <2>1, <2>2, <3>2 DEF Leases, Gives, TypeOK
    <3>3. CASE CreatePublishes(o)
      <4>1. [session |-> o, owner |-> o, status |-> "active"] \in Header
        BY DEF Header
      <4>2. header' \in Header \cup {NoHeader}
        BY <3>3, <4>1 DEF CreatePublishes, TypeOK
      <4>3. mem' = mem \/ mem' = [mem EXCEPT ![o] = header']
        BY <3>3 DEF CreatePublishes
      <4>4. mem' \in [Owner -> Header \cup {NoHeader}]
        BY <4>2, <4>3 DEF TypeOK
      <4> QED
        BY <2>1, <2>2, <3>3, <4>2, <4>4 DEF CreatePublishes, Gives, TypeOK
    <3>4. CASE OpenReads(o)
      <4>1. header # NoHeader => [header EXCEPT !.owner = o] \in Header
        BY DEF TypeOK, Header
      <4>2. header' \in Header \cup {NoHeader}
        BY <3>4, <4>1 DEF OpenReads, TypeOK
      <4>3. mem' = mem \/ mem' = [mem EXCEPT ![o] = header']
        BY <3>4 DEF OpenReads
      <4>4. mem' \in [Owner -> Header \cup {NoHeader}]
        BY <4>2, <4>3 DEF TypeOK
      <4>5. rec' \in [Owner -> [Command -> Classes \cup {"none"}]]
        BY <3>4, TargetsType DEF OpenReads, TypeOK
      <4>6. lease' \in Owner \cup {NoOwner}
        BY <2>2, <3>4 DEF OpenReads, Gives, TypeOK
      <4> QED
        BY <2>1, <3>4, <4>2, <4>5, <4>6, <4>4 DEF OpenReads, Gives, TypeOK
    <3>5. CASE OpenReturns(o)
      BY <2>1, <3>5 DEF OpenReturns, TypeOK, files
    <3> QED
      BY <2>3, <3>1, <3>2, <3>3, <3>4, <3>5 DEF Opens
  <2>4. ASSUME NEW x \in Op, op' = [op EXCEPT ![o] = x],
               UNCHANGED <<files, lease, proc, mem, rec>>
        PROVE  TypeInv'
    BY <2>1, <2>4 DEF TypeOK, files
  <2>5. ASSUME Mutates(o) PROVE TypeInv'
    <3>1. ASSUME NEW c \in Command, NEW s \in Commands!States, MoveBegin(o, c, s)
          PROVE  TypeInv'
      BY <2>4, <3>1, MovedType, OpTypes DEF MoveBegin, Appends
    <3>2. ASSUME NEW c \in Command, NEW g \in Generation, DispatchBegin(o, c, g)
          PROVE  TypeInv'
      <4>1. "dispatched" \in Commands!States
        BY DEF Commands!States
      <4> QED
        BY <2>4, <3>2, <4>1, MovedType, OpTypes DEF DispatchBegin, Appends
    <3>3. ASSUME NEW c \in Command, NEW g \in Generation, NEW class \in Classes,
                 AttachBegin(o, c, class, g)
          PROVE  TypeInv'
      <4>1. [command |-> c, class |-> class] \in EvidenceRecord
        BY DEF EvidenceRecord
      <4> QED
        BY <2>4, <3>3, <4>1, OpTypes DEF AttachBegin, Appends
    <3>4. ASSUME NEW g \in Generation, AcquireBegin(o, g) \/ ReleaseBegin(o, g)
          PROVE  TypeInv'
      <4>1. \A kind \in {"acquired", "released"} : [kind |-> kind, gen |-> g] \in BindingRecord
        BY DEF BindingRecord
      <4> QED
        BY <2>4, <3>4, <4>1, OpTypes DEF AcquireBegin, ReleaseBegin, Appends
    <3>5. CASE WriteCommand(o)
      <4>1. op[o].record \in CommandRecord
        BY <3>5, OpCases DEF WriteCommand, TypeOK
      <4>2. cmds' \in Seq(CommandRecord) /\ Lasts(cmds')
        BY <3>5, <4>1, AppendedType DEF WriteCommand, AppendsTo, TypeOK
      <4>3. op' \in [Owner -> Op]
        BY <3>5, OpTypes DEF WriteCommand, TypeOK
      <4>4. Lasts(evid)'
        BY <3>5 DEF WriteCommand
      <4> QED
        BY <3>5, <4>2, <4>3, <4>4 DEF WriteCommand, AppendsTo, TypeOK
    <3>6. CASE WriteBinding(o)
      <4>1. op[o].record \in BindingRecord
        BY <3>6, OpCases DEF WriteBinding, TypeOK
      <4>2. binds' \in Seq(BindingRecord)
        <5>1. CASE binds' = Append(binds, op[o].record)
          BY <4>1, <5>1 DEF TypeOK
        <5>2. CASE binds' = <<op[o].record>>
          BY <4>1, <5>2
        <5> QED
          BY <3>6, <5>1, <5>2 DEF WriteBinding, AppendsTo, Appended
      <4>3. op' \in [Owner -> Op]
        BY <3>6, OpTypes DEF WriteBinding, TypeOK
      <4> QED
        BY <2>1, <3>6, <4>2, <4>3 DEF WriteBinding, AppendsTo, TypeOK
    <3>7. CASE WriteEvidence(o)
      <4>1. op[o].record \in EvidenceRecord /\ [op[o] EXCEPT !.at = "transition"] \in Op
        BY <3>7, OpCases DEF WriteEvidence, TypeOK
      <4>2. evid' \in Seq(EvidenceRecord) /\ Lasts(evid')
        BY <3>7, <4>1, AppendedType DEF WriteEvidence, AppendsTo, TypeOK
      <4>3. op' \in [Owner -> Op]
        BY <3>7, <4>1 DEF WriteEvidence, TypeOK
      <4>4. Lasts(cmds)'
        BY <3>7 DEF WriteEvidence
      <4> QED
        BY <3>7, <4>2, <4>3, <4>4 DEF WriteEvidence, AppendsTo, TypeOK
    <3>8. CASE AttachTransition(o)
      <4>1. op[o].record \in EvidenceRecord
        BY <3>8, OpCases DEF AttachTransition, TypeOK
      <4>2. Moved(op[o].record.command, op[o].record.class, NoGeneration) \in CommandRecord
        BY <4>1, MovedType, ClassIsState DEF EvidenceRecord
      <4> QED
        BY <2>4, <3>8, <4>2, OpTypes DEF AttachTransition, Appends
    <3>9. CASE RecoverBegin(o)
      BY <2>1, <3>9, TargetsType DEF RecoverBegin, TypeOK, files
    <3>10. ASSUME NEW c \in Command, RecoverNext(o, c) PROVE TypeInv'
      <4>1. rec[o][c] \in Classes
        BY <3>10 DEF RecoverNext, TypeOK
      <4>2. Moved(c, rec[o][c], NoGeneration) \in CommandRecord
        BY <4>1, MovedType, ClassIsState
      <4>3. op' \in [Owner -> Op]
        BY <3>10, <4>2, OpTypes DEF RecoverNext, Appends, TypeOK
      <4>4. rec' \in [Owner -> [Command -> Classes \cup {"none"}]]
        <5>1. CASE rec' = [rec EXCEPT ![o] = NoRec]
          BY <5>1, NoRecType DEF TypeOK
        <5>2. CASE rec' = [rec EXCEPT ![o][c] = "none"]
          <6>1. [rec[o] EXCEPT ![c] = "none"] \in [Command -> Classes \cup {"none"}]
            BY DEF TypeOK
          <6> QED
            BY <5>2, <6>1 DEF TypeOK
        <5> QED
          BY <3>10, <5>1, <5>2 DEF RecoverNext
      <4> QED
        BY <2>1, <2>2, <3>10, <4>3, <4>4 DEF RecoverNext, Gives, TypeOK, files
    <3>11. CASE AppendRaises(o)
      <4>1. rec' \in [Owner -> [Command -> Classes \cup {"none"}]]
        BY <3>11, NoRecType DEF AppendRaises, TypeOK
      <4> QED
        BY <2>1, <2>2, <3>11, <4>1, OpTypes DEF AppendRaises, Gives, TypeOK, files
    <3> QED
      BY <2>5, <3>1, <3>2, <3>3, <3>4, <3>5, <3>6, <3>7, <3>8, <3>9, <3>10, <3>11 DEF Mutates
  <2>6. ASSUME EndSession(o) PROVE TypeInv'
    <3>1. mem[o] \in Header
      BY <2>6 DEF EndSession, Writable, TypeOK, NoHeader
    <3>2. [mem[o] EXCEPT !.status = "ended"] \in Header
      BY <3>1 DEF Header
    <3> QED
      BY <2>1, <2>6, <3>2 DEF EndSession, TypeOK
  <2>7. ASSUME CloseReleases(o) \/ CloseMarks(o) PROVE TypeInv'
    BY <2>1, <2>2, <2>7 DEF CloseReleases, CloseMarks, TypeOK, files
  <2>8. ASSUME Crash(o) PROVE TypeInv'
    BY <2>1, <2>2, <2>8, OpTypes, NoRecType DEF Crash, TypeOK, files
  <2> QED
    BY <2>3, <2>5, <2>6, <2>7, <2>8
<1> QED
  BY <1>1, <1>2

\* TypeOK is an invariant, of any hosts: what the processes hold in memory and in their
\* files has its type.
THEOREM TypeCorrect == Spec => []TypeOK
<1>1. Init => TypeInv
  BY InitTypes
<1>2. TypeInv /\ [Next]_vars => TypeInv'
  BY StepTypes
<1>3. TypeInv => TypeOK
  BY DEF TypeInv
<1> QED
  BY <1>1, <1>2, <1>3, PTL DEF Spec
-----------------------------------------------------------------------------
(* The writers.  The owner of an open session holds the lease.  Whoever has a       *)
(* mutation under way holds it too, or has closed the session under it; while a      *)
(* session recovers, the mutation is one of the recovery.                            *)

Owning == {"creating", "opening", "recovering", "open"}

WriterInv ==
    /\ \A o \in Owner : proc[o] \in Owning <=> lease = o
    /\ \A o \in Owner : op[o] # NoOp => proc[o] \in {"open", "recovering", "releasing", "closed"}
    /\ \A o \in Owner : proc[o] = "recovering" => op[o].at \in {"none", "commands"}

\* Mutations enter an open session, or one that is about to be closed.
LEMMA EntersOpen ==
    ASSUME NEW o \in Owner, Writable(o)
    PROVE  proc[o] \in {"open", "recovering", "releasing"}
  BY DEF Writable

\* Before anybody opens the session nobody has a mutation under way.
LEMMA InitWriter ==
    ASSUME Init
    PROVE  WriterInv
  BY OwnersAssumption DEF Init, WriterInv, Owning, NoOp

\* A pending record is not the absence of one.
LEMMA PendingOp ==
    ASSUME NEW x, x.at # "none"
    PROVE  x # NoOp
  BY DEF NoOp

\* Who gives the lease back is out; nobody else is concerned.
LEMMA GivesWriter ==
    ASSUME WriterInv, proc = [p \in Owner |-> proc[p]], NEW o \in Owner, Gives(o), UNCHANGED op
    PROVE  WriterInv'
<1>1. /\ proc'[o] = "closed" /\ lease' # o
      /\ \A p \in Owner : p # o => proc'[p] = proc[p] /\ (lease' = p <=> lease = p)
  BY OwnersAssumption DEF Gives, Released
<1>2. \A p \in Owner : proc'[p] \in Owning <=> lease' = p
  BY <1>1 DEF WriterInv, Owning
<1> QED
  BY <1>1, <1>2 DEF WriterInv

\* Who has the lease, or takes one that is free, may go on with it when nothing is pending.
LEMMA OwnsWriter ==
    ASSUME WriterInv, proc = [p \in Owner |-> proc[p]], NEW o \in Owner, NEW to \in Owning,
           lease \in {NoOwner, o}, lease' = o, proc' = [proc EXCEPT ![o] = to],
           UNCHANGED op, op[o] = NoOp
    PROVE  WriterInv'
<1>1. /\ proc'[o] = to
      /\ \A p \in Owner : p # o => proc'[p] = proc[p] /\ lease # p /\ lease' # p
  BY OwnersAssumption
<1>2. \A p \in Owner : proc'[p] \in Owning <=> lease' = p
  BY <1>1 DEF WriterInv
<1>3. op[o].at = "none"
  BY DEF NoOp
<1> QED
  BY <1>1, <1>2, <1>3 DEF WriterInv

\* Every step keeps the writers: the lease is asked for before a session is handed out
\* and given back when it is closed.
LEMMA StepWriter ==
    ASSUME TypeInv, WriterInv, [Next]_vars
    PROVE  WriterInv'
<1> USE DEF WriterInv, Owning
<1>1. CASE UNCHANGED vars
  BY <1>1 DEF vars
<1>2. CASE Next
  <2> PICK o \in Owner : \/ Opens(o) \/ Mutates(o) \/ EndSession(o) \/ CloseReleases(o)
                         \/ CloseMarks(o) \/ Crash(o)
    BY <1>2 DEF Next
  <2> USE DEF TypeInv, TypeOK
  <2>0. proc = [p \in Owner |-> proc[p]]
    OBVIOUS
  <2>1. o # NoOwner /\ \A p \in Owner : p # NoOwner
    BY OwnersAssumption
  <2>2. ASSUME Opens(o) PROVE WriterInv'
    <3>1. CASE CreateChecks(o)
      BY <3>1 DEF CreateChecks
    <3>2. ASSUME NEW to \in {"creating", "opening"},
                 Leases(o, "checked", to) \/ Leases(o, "none", to)
          PROVE  WriterInv'
      <4>1. op[o] = NoOp /\ UNCHANGED op
        BY <3>2 DEF Leases
      <4>2. CASE lease = NoOwner
        <5>1. lease' = o /\ proc' = [proc EXCEPT ![o] = to]
          BY <3>2, <4>2 DEF Leases
        <5> QED
          BY <2>0, <4>1, <4>2, <5>1, OwnsWriter
      <4>3. CASE lease # NoOwner
        <5>1. Gives(o)
          BY <3>2, <4>3 DEF Leases
        <5> QED
          BY <2>0, <4>1, <5>1, GivesWriter
      <4> QED
        BY <4>2, <4>3
    <3>3. ASSUME CreatePublishes(o) \/ OpenReads(o) PROVE WriterInv'
      <4>1. lease = o /\ op[o] = NoOp /\ UNCHANGED op
        BY <3>3 DEF CreatePublishes, OpenReads
      <4>2. \/ Gives(o)
            \/ \E to \in {"open", "recovering"} :
                  lease' = lease /\ proc' = [proc EXCEPT ![o] = to]
        BY <3>3 DEF CreatePublishes, OpenReads
      <4>3. ASSUME NEW to \in {"open", "recovering"}, lease' = lease, proc' = [proc EXCEPT ![o] = to]
            PROVE  WriterInv'
        BY <2>0, <4>1, <4>3, OwnsWriter
      <4> QED
        BY <2>0, <4>1, <4>2, <4>3, GivesWriter
    <3>5. CASE OpenReturns(o)
      BY <3>5 DEF OpenReturns
    <3> QED
      BY <2>2, <3>1, <3>2, <3>3, <3>5 DEF Opens
  <2>3. ASSUME UNCHANGED <<lease, proc>>, proc[o] \in {"open", "releasing", "closed"},
               \A p \in Owner : p # o => op'[p] = op[p]
        PROVE  WriterInv'
    BY <2>3
  <2>4. ASSUME UNCHANGED <<lease, proc>>, op' = [op EXCEPT ![o] = NoOp]
        PROVE  WriterInv'
    BY <2>4 DEF NoOp
  <2>5. ASSUME Mutates(o) PROVE WriterInv'
    <3>1. ASSUME NEW c \in Command, NEW s \in Commands!States, MoveBegin(o, c, s)
          PROVE  WriterInv'
      BY <2>3, <3>1, EntersOpen DEF MoveBegin, Enters, Appends
    <3>2. ASSUME NEW c \in Command, NEW g \in Generation,
                 DispatchBegin(o, c, g) \/ \E class \in Classes : AttachBegin(o, c, class, g)
          PROVE  WriterInv'
      BY <2>3, <3>2, EntersOpen DEF DispatchBegin, AttachBegin, Enters, Appends
    <3>3. ASSUME NEW g \in Generation, AcquireBegin(o, g) \/ ReleaseBegin(o, g)
          PROVE  WriterInv'
      BY <2>3, <3>3, EntersOpen DEF AcquireBegin, ReleaseBegin, Enters, Appends
    <3>4. CASE WriteCommand(o) \/ WriteBinding(o)
      BY <2>4, <3>4 DEF WriteCommand, WriteBinding
    <3>5. CASE WriteEvidence(o) \/ AttachTransition(o)
      <4>1. op[o] # NoOp /\ op[o].at \notin {"none", "commands"}
        BY <3>5 DEF WriteEvidence, AttachTransition, NoOp
      <4> QED
        BY <2>3, <3>5, <4>1 DEF WriteEvidence, AttachTransition, Appends
    <3>6. CASE RecoverBegin(o)
      BY <3>6 DEF RecoverBegin
    <3>7. ASSUME NEW c \in Command, RecoverNext(o, c) PROVE WriterInv'
      <4>1. CASE Writable(o) /\ MayMove(c, rec[o][c])
        BY <3>7, <4>1, EntersOpen DEF RecoverNext, Appends
      <4>2. CASE ~(Writable(o) /\ MayMove(c, rec[o][c]))
        BY <2>1, <3>7, <4>2 DEF RecoverNext, Gives, Released
      <4> QED
        BY <4>1, <4>2
    <3>8. CASE AppendRaises(o)
      BY <2>1, <2>4, <3>8 DEF AppendRaises, Gives, Released
    <3> QED
      BY <2>5, <3>1, <3>2, <3>3, <3>4, <3>5, <3>6, <3>7, <3>8 DEF Mutates
  <2>6. ASSUME EndSession(o) PROVE WriterInv'
    BY <2>6 DEF EndSession
  <2>7. ASSUME CloseReleases(o) \/ CloseMarks(o) PROVE WriterInv'
    BY <2>1, <2>7 DEF CloseReleases, CloseMarks, Released
  <2>8. ASSUME Crash(o) PROVE WriterInv'
    BY <2>1, <2>8 DEF Crash, Released, NoOp
  <2> QED
    BY <2>2, <2>5, <2>6, <2>7, <2>8
<1> QED
  BY <1>1, <1>2

\* Whoever is about to append to a journal holds the owner lease, or has closed the
\* session while that mutation was under way.
THEOREM OneWriter == Spec => []ExclusiveWriter
<1>1. Init => TypeInv /\ WriterInv
  BY InitTypes, InitWriter
<1>2. TypeInv /\ WriterInv /\ [Next]_vars => TypeInv' /\ WriterInv'
  BY StepTypes, StepWriter
<1>3. WriterInv => ExclusiveWriter
  BY DEF WriterInv, Owning, ExclusiveWriter
<1> QED
  BY <1>1, <1>2, <1>3, PTL DEF Spec
-----------------------------------------------------------------------------
(* Kinds of steps.                                                                 *)

\* A step that touches no journal and at most drops a mutation.
Quiet(o) ==
    /\ UNCHANGED <<cmds, binds, evid>>
    /\ op' = op \/ op' = [op EXCEPT ![o] = NoOp]

\* The step of a recovery, and the last step of attach_receipt, that appends.
Resumes(o, c) == RecoverNext(o, c) /\ Writable(o) /\ MayMove(c, rec[o][c])
Concludes(o) ==
    /\ AttachTransition(o) /\ Writable(o)
    /\ MayMove(op[o].record.command, op[o].record.class)

Begins(o) ==
    \/ \E c \in Command, s \in Commands!States : MoveBegin(o, c, s)
    \/ \E c \in Command, g \in Generation : DispatchBegin(o, c, g)
    \/ \E c \in Command, g \in Generation, class \in Classes : AttachBegin(o, c, class, g)
    \/ \E g \in Generation : AcquireBegin(o, g) \/ ReleaseBegin(o, g)
    \/ \E c \in Command : Resumes(o, c)
    \/ Concludes(o)

Writes(o) == WriteCommand(o) \/ WriteBinding(o) \/ WriteEvidence(o)

\* Every step is of one of these kinds.
LEMMA StepKinds ==
    ASSUME Next
    PROVE  \E o \in Owner : Quiet(o) \/ Begins(o) \/ Writes(o)
<1> PICK o \in Owner : \/ Opens(o) \/ Mutates(o) \/ EndSession(o) \/ CloseReleases(o)
                       \/ CloseMarks(o) \/ Crash(o)
  BY DEF Next
<1> SUFFICES Quiet(o) \/ Begins(o) \/ Writes(o)
  OBVIOUS
<1>1. ASSUME Opens(o) PROVE Quiet(o)
  BY <1>1 DEF Opens, CreateChecks, Leases, CreatePublishes, OpenReads, OpenReturns, files, Quiet
<1>2. ASSUME EndSession(o) \/ CloseReleases(o) \/ CloseMarks(o) \/ Crash(o) PROVE Quiet(o)
  BY <1>2 DEF EndSession, CloseReleases, CloseMarks, Crash, files, Quiet
<1>3. ASSUME AttachTransition(o) PROVE Quiet(o) \/ Concludes(o)
  BY <1>3 DEF AttachTransition, Concludes, files, Quiet
<1>4. ASSUME NEW c \in Command, RecoverNext(o, c) PROVE Quiet(o) \/ Resumes(o, c)
  BY <1>4 DEF RecoverNext, Resumes, files, Quiet
<1>5. ASSUME RecoverBegin(o) \/ AppendRaises(o) PROVE Quiet(o)
  BY <1>5 DEF RecoverBegin, AppendRaises, files, Quiet
<1>6. ASSUME Mutates(o) PROVE Quiet(o) \/ Begins(o) \/ Writes(o)
  BY <1>6, <1>3, <1>4, <1>5 DEF Mutates, Begins, Writes
<1> QED
  BY <1>1, <1>2, <1>6

\* A mutation begins with its record and leaves the journals alone; it is the only one.
LEMMA BeginShape ==
    ASSUME TypeInv, NEW o \in Owner, Begins(o)
    PROVE  /\ UNCHANGED <<cmds, binds, evid>>
           /\ \A p \in Owner : p # o => op'[p] = op[p]
  BY DEF Begins, MoveBegin, DispatchBegin, AttachBegin, AcquireBegin, ReleaseBegin, Resumes,
         RecoverNext, Concludes, AttachTransition, Appends, files, TypeInv, TypeOK

\* A journal that is spoiled stays so.
LEMMA SpoiledStays ==
    ASSUME TypeInv, [Next]_vars, spoiled
    PROVE  spoiled'
<1>1. CASE UNCHANGED vars
  BY <1>1 DEF vars
<1>2. CASE Next
  BY <1>2 DEF Next, Opens, Mutates, EndSession, CloseReleases, CloseMarks, Crash, CreateChecks, Leases,
     CreatePublishes, OpenReads, OpenReturns, MoveBegin, DispatchBegin, AttachBegin, AcquireBegin,
     ReleaseBegin, WriteCommand, WriteBinding, WriteEvidence, AttachTransition, RecoverBegin,
     RecoverNext, AppendRaises, AppendsTo, files
<1> QED
  BY <1>1, <1>2

\* Nobody gets the lease with a mutation under way.
LEMMA HolderHeld ==
    ASSUME TypeInv, WriterInv, Next, NEW p \in Owner, lease' = p, op'[p] # NoOp
    PROVE  lease = p
<1> PICK o \in Owner : \/ Opens(o) \/ Mutates(o) \/ EndSession(o) \/ CloseReleases(o)
                       \/ CloseMarks(o) \/ Crash(o)
  BY DEF Next
<1>1. p # NoOwner
  BY OwnersAssumption
<1>2. CASE lease' \in {lease, Released(o)}
  BY <1>1, <1>2 DEF Released
<1>3. ASSUME NEW from \in {"none", "checked"}, NEW to, Leases(o, from, to)
      PROVE  lease' \in {lease, Released(o)} \/ p # o
  <2>1. op' = op /\ proc[o] = from
    BY <1>3 DEF Leases
  <2>2. op[o] = NoOp
    BY <2>1 DEF WriterInv
  <2> QED
    BY <2>1, <2>2
<1>4. ASSUME NEW from, NEW to, Leases(o, from, to)
      PROVE  lease' \in {o, Released(o)}
  BY <1>4 DEF Leases, Gives
<1>5. CASE Opens(o)
  <2>1. CASE Leases(o, "checked", "creating") \/ Leases(o, "none", "opening")
    BY <1>2, <1>3, <1>4, <2>1
  <2>2. CASE CreateChecks(o) \/ CreatePublishes(o) \/ OpenReads(o) \/ OpenReturns(o)
    BY <1>2, <2>2 DEF CreateChecks, CreatePublishes, OpenReads, OpenReturns, Gives
  <2> QED
    BY <1>5, <2>1, <2>2 DEF Opens
<1>6. CASE Mutates(o)
  <2>1. lease' \in {lease, Released(o)}
    BY <1>6 DEF Mutates, MoveBegin, DispatchBegin, AttachBegin, AcquireBegin, ReleaseBegin, WriteCommand,
       WriteBinding, WriteEvidence, AttachTransition, RecoverBegin, RecoverNext, AppendRaises, Gives
  <2> QED
    BY <1>2, <2>1
<1>7. CASE EndSession(o) \/ CloseReleases(o) \/ CloseMarks(o) \/ Crash(o)
  BY <1>2, <1>7 DEF EndSession, CloseReleases, CloseMarks, Crash
<1> QED
  BY <1>5, <1>6, <1>7

\* What is written and spoils nothing: the journal with one more record, by the holder
\* of the lease.
LEMMA SoundAppend ==
    ASSUME TypeInv, ~spoiled', NEW o \in Owner, NEW j, NEW k, AppendsTo(o, j, k)
    PROVE  k = Append(j, op[o].record) /\ lease = o /\ ~spoiled
  BY DEF AppendsTo, TypeInv, TypeOK

\* The record that a mutation of the commands begins with.
LEMMA BeginsCommand ==
    ASSUME TypeInv, NEW o \in Owner, Begins(o), op'[o].at = "commands"
    PROVE  \E c \in Command, s \in Commands!States, g \in Generation \cup {NoGeneration} :
              /\ op'[o].record = Moved(c, s, g)
              /\ MayMove(c, s)
              /\ g # NoGeneration <=> s = "dispatched"
              /\ s = "dispatched" => BindingsReadable /\ Active = {g}
              /\ s \in {"verified", "failed"} =>
                    \/ op[o].at = "transition" /\ op[o].record = [command |-> c, class |-> s]
                    \/ rec[o][c] = s
<1> USE DEF TypeInv, TypeOK, Appends
<1>1. ASSUME NEW c \in Command, NEW s \in Commands!States, MoveBegin(o, c, s)
      PROVE  /\ op'[o].record = Moved(c, s, NoGeneration) /\ MayMove(c, s)
             /\ s \in {"proposed", "authorized", "cancelled", "outcome_unknown"}
  BY <1>1 DEF MoveBegin
<1>2. ASSUME NEW c \in Command, NEW g \in Generation, DispatchBegin(o, c, g)
      PROVE  /\ op'[o].record = Moved(c, "dispatched", g) /\ MayMove(c, "dispatched")
             /\ "dispatched" \in Commands!States /\ g # NoGeneration
             /\ BindingsReadable /\ Active = {g}
  BY <1>2, OwnersAssumption DEF DispatchBegin, Commands!States
<1>3. ASSUME NEW c \in Command, NEW g \in Generation, NEW class \in Classes,
             AttachBegin(o, c, class, g)
      PROVE  FALSE
  BY <1>3 DEF AttachBegin
<1>4. ASSUME NEW g \in Generation, AcquireBegin(o, g) \/ ReleaseBegin(o, g)
      PROVE  FALSE
  BY <1>4 DEF AcquireBegin, ReleaseBegin
<1>5. ASSUME NEW c \in Command, Resumes(o, c)
      PROVE  /\ op'[o].record = Moved(c, rec[o][c], NoGeneration) /\ MayMove(c, rec[o][c])
             /\ rec[o][c] \in Classes
  BY <1>5 DEF Resumes, RecoverNext
<1>6. ASSUME Concludes(o)
      PROVE  /\ op[o].at = "transition" /\ op[o].record \in EvidenceRecord
             /\ op'[o].record = Moved(op[o].record.command, op[o].record.class, NoGeneration)
             /\ MayMove(op[o].record.command, op[o].record.class)
  <2>1. op[o].at = "transition" /\ op[o].record \in EvidenceRecord
    BY <1>6, OpCases DEF Concludes, AttachTransition
  <2> QED
    BY <1>6, <2>1 DEF Concludes, AttachTransition
<1>7. "dispatched" \notin Classes
  BY DEF Classes
<1>8. CASE \E c \in Command : Resumes(o, c)
  <2> PICK c \in Command : Resumes(o, c)
    BY <1>8
  <2>1. rec[o][c] \in Classes /\ rec[o][c] \in Commands!States
    BY <1>5, ClassIsState
  <2>2. op'[o].record = Moved(c, rec[o][c], NoGeneration) /\ MayMove(c, rec[o][c])
    BY <1>5
  <2> QED
    BY <1>7, <2>1, <2>2
<1>9. CASE Concludes(o)
  <2> DEFINE c == op[o].record.command
             s == op[o].record.class
  <2>1. c \in Command /\ s \in Classes /\ op[o].record = [command |-> c, class |-> s]
    BY <1>6, <1>9 DEF EvidenceRecord
  <2> HIDE DEF c, s
  <2>2. s \in Commands!States
    BY <2>1, ClassIsState
  <2>3. op'[o].record = Moved(c, s, NoGeneration) /\ MayMove(c, s) /\ op[o].at = "transition"
    BY <1>6, <1>9 DEF c, s
  <2> QED
    BY <1>7, <2>1, <2>2, <2>3
<1>10. CASE \E c \in Command, s \in Commands!States : MoveBegin(o, c, s)
  <2> PICK c \in Command, s \in Commands!States : MoveBegin(o, c, s)
    BY <1>10
  <2>1. /\ op'[o].record = Moved(c, s, NoGeneration) /\ MayMove(c, s)
        /\ s # "dispatched" /\ s \notin {"verified", "failed"}
    BY <1>1
  <2> QED
    BY <2>1
<1>11. CASE \E c \in Command, g \in Generation : DispatchBegin(o, c, g)
  <2> PICK c \in Command, g \in Generation : DispatchBegin(o, c, g)
    BY <1>11
  <2>1. "dispatched" \in Commands!States
    BY <1>2
  <2> QED
    BY <1>2, <2>1
<1> QED
  BY <1>3, <1>4, <1>8, <1>9, <1>10, <1>11 DEF Begins
-----------------------------------------------------------------------------
(* The journal of commands.                                                        *)

\* A pending record of the holder of the lease follows the state of its command.  It
\* stays so, because nobody else writes before it is appended.
CommandInv ==
    /\ Readable(cmds)
    /\ \A o \in Owner : lease = o /\ op[o].at = "commands" =>
          /\ op[o].record.from = StateOf(cmds, op[o].record.command)
          /\ op[o].record.state \in Commands!Transitions[op[o].record.from]

\* The empty journal can be replayed.
LEMMA InitCommand ==
    ASSUME Init
    PROVE  CommandInv
  BY DEF Init, CommandInv, Readable, NoOp

\* What WriteCommand does to the journal and to the states of the commands.
LEMMA CommandWritten ==
    ASSUME ~spoiled', TypeInv, WriterInv, NEW o \in Owner, WriteCommand(o)
    PROVE  /\ op[o].record \in CommandRecord /\ lease = o
           /\ cmds' = Append(cmds, op[o].record)
           /\ \A c \in Command : StateOf(cmds', c) =
                 IF c = op[o].record.command THEN op[o].record.state ELSE StateOf(cmds, c)
           /\ UNCHANGED <<binds, evid, proc, rec, lease>>
           /\ op'[o].at = "none" /\ \A p \in Owner : p # o => op'[p] = op[p]
<1> USE DEF TypeInv, TypeOK
<1>1. op[o].record \in CommandRecord
  BY OpCases DEF WriteCommand
<1>2. cmds' = Append(cmds, op[o].record) /\ lease = o
  BY SoundAppend DEF WriteCommand
<1>3. op'[o].at = "none" /\ \A p \in Owner : p # o => op'[p] = op[p]
  BY DEF WriteCommand, NoOp
<1>4. \A c \in Command : StateOf(cmds', c) =
         IF c = op[o].record.command THEN op[o].record.state ELSE StateOf(cmds, c)
  BY <1>1, <1>2, StateAppend
<1> QED
  BY <1>1, <1>2, <1>3, <1>4 DEF WriteCommand

\* Writing another journal leaves the holder of the lease no mutation of the commands.
LEMMA OtherWritten ==
    ASSUME ~spoiled', TypeInv, WriterInv, NEW o \in Owner, WriteBinding(o) \/ WriteEvidence(o)
    PROVE  /\ UNCHANGED <<cmds, lease>> /\ lease = o
           /\ op'[o].at \notin {"commands", "bindings"}
           /\ \A p \in Owner : p # o => op'[p] = op[p]
<1>1. op \in [Owner -> Op]
  BY DEF TypeInv, TypeOK
<1>2. op[o].at = "evidence" =>
            op[o] \in [at : {"evidence", "transition"}, record : EvidenceRecord]
  BY <1>1 DEF Op, NoOp
<1>3. lease = o
  BY SoundAppend DEF WriteBinding, WriteEvidence
<1>4. CASE WriteBinding(o)
  BY <1>1, <1>3, <1>4 DEF WriteBinding, NoOp
<1>5. CASE WriteEvidence(o)
  BY <1>1, <1>2, <1>3, <1>5 DEF WriteEvidence
<1> QED
  BY <1>4, <1>5

\* Every step leaves the journal of commands replayable and pending records in order.
LEMMA StepCommand ==
    ASSUME ~spoiled', TypeInv, WriterInv, CommandInv, [Next]_vars
    PROVE  CommandInv'
<1> USE DEF CommandInv
<1>1. CASE UNCHANGED vars
  BY <1>1 DEF vars
<1>2. CASE Next
  <2> PICK o \in Owner : Quiet(o) \/ Begins(o) \/ Writes(o)
    BY <1>2, StepKinds
  <2>1. CASE Quiet(o)
    <3>1. \A p \in Owner : lease' = p /\ op'[p].at = "commands" => op'[p] = op[p] /\ lease = p
      <4>1. \A p \in Owner : op'[p].at = "commands" => op'[p] = op[p] /\ op'[p] # NoOp
        BY <2>1 DEF Quiet, NoOp, TypeInv, TypeOK
      <4> QED
        BY <1>2, <4>1, HolderHeld
    <3>2. cmds' = cmds
      BY <2>1 DEF Quiet
    <3> QED
      BY <3>1, <3>2
  <2>2. CASE Begins(o)
    <3>1. ASSUME op'[o].at = "commands"
          PROVE  /\ op'[o].record.from = StateOf(cmds, op'[o].record.command)
                 /\ op'[o].record.state \in Commands!Transitions[op'[o].record.from]
      <4> PICK c \in Command, s \in Commands!States, g \in Generation \cup {NoGeneration} :
                  op'[o].record = Moved(c, s, g) /\ MayMove(c, s)
        BY <2>2, <3>1, BeginsCommand
      <4>1. /\ op'[o].record.command = c /\ op'[o].record.from = StateOf(cmds, c)
            /\ op'[o].record.state = s /\ s \in Commands!Transitions[StateOf(cmds, c)]
        BY DEF Moved, MayMove
      <4> QED
        BY <4>1
    <3>2. \A p \in Owner : lease' = p /\ op'[p].at = "commands" => lease = p
      BY <1>2, PendingOp, HolderHeld
    <3> QED
      BY <2>2, <3>1, <3>2, BeginShape
  <2>3. CASE WriteCommand(o)
    <3>1. op[o].at = "commands"
      BY <2>3 DEF WriteCommand
    <3>2. Readable(cmds')
      BY <2>3, <3>1, CommandWritten, ReadableAppend DEF TypeInv, TypeOK
    <3> QED
      BY <2>3, <3>2, CommandWritten
  <2>4. CASE WriteBinding(o) \/ WriteEvidence(o)
    BY <2>4, OtherWritten
  <2> QED
    BY <2>1, <2>2, <2>3, <2>4 DEF Writes
<1> QED
  BY <1>1, <1>2

\* A record that follows the state of its command moves the abstract command.
LEMMA StepRefines ==
    ASSUME ~spoiled', TypeInv, WriterInv, CommandInv, [Next]_vars
    PROVE  [Commands!Next]_([c \in Command |-> StateOf(cmds, c)])
<1> DEFINE state == [c \in Command |-> StateOf(cmds, c)]
<1>1. ASSUME cmds' = cmds PROVE UNCHANGED state
  BY <1>1
<1>2. CASE UNCHANGED vars
  BY <1>1, <1>2 DEF vars
<1>3. CASE Next
  <2> PICK o \in Owner : Quiet(o) \/ Begins(o) \/ Writes(o)
    BY <1>3, StepKinds
  <2>1. CASE Quiet(o) \/ Begins(o) \/ WriteBinding(o) \/ WriteEvidence(o)
    BY <1>1, <2>1, BeginShape, OtherWritten DEF Quiet
  <2>2. CASE WriteCommand(o)
    <3> DEFINE r == op[o].record
    <3>1. r \in CommandRecord /\ r.command \in Command /\ lease = o
      BY <2>2, CommandWritten DEF CommandRecord
    <3>2. r.state \in Commands!Transitions[state[r.command]]
      BY <2>2, <3>1 DEF WriteCommand, CommandInv
    <3>3. state' = [state EXCEPT ![r.command] = r.state]
      BY <2>2, <3>1, CommandWritten
    <3> QED
      BY <3>1, <3>2, <3>3 DEF Commands!Next, Commands!Move
  <2> QED
    BY <2>1, <2>2 DEF Writes
<1> QED
  BY <1>2, <1>3

\* The journal of commands implements the abstract life of commands: every append moves
\* one command along one of its transitions, whatever crashed before, until a record is
\* appended without the lease or in the place of a journal that could not be read.
THEOREM JournalImplementsLifecycle == Spec => CommandsKeepTheirPromise
<1> DEFINE Inv == TypeInv /\ WriterInv /\ (~spoiled => CommandInv)
<1>1. Init => Inv
  BY InitTypes, InitWriter, InitCommand
<1>2. Inv /\ [Next]_vars => Inv'
  BY StepTypes, StepWriter, StepCommand, SpoiledStays
<1>3. Init => Commands!Init
  BY DEF Init, Commands!Init, StateOf, Of
<1>4. Inv /\ [Next]_vars =>
        [spoiled' \/ Commands!Next]_([c \in Command |-> StateOf(cmds, c)])
  BY StepRefines, SpoiledStays
<1> QED
  BY <1>1, <1>2, <1>3, <1>4, PTL DEF Spec, CommandsKeepTheirPromise
-----------------------------------------------------------------------------
(* The journal of bindings.                                                        *)

\* A release follows its acquisition and is the only one, one generation at most is
\* active, and the pending record of the holder of the lease keeps it so.
BindingInv ==
    /\ \A g \in Generation : \A k \in Bound("released", g) : \E i \in Bound("acquired", g) : i < k
    /\ \A g \in Generation : \A i, k \in Bound("released", g) : i = k
    /\ \A g, h \in Active : g = h
    /\ \A o \in Owner : lease = o /\ op[o].at = "bindings" =>
          /\ op[o].record.kind = "acquired" => Active = {}
          /\ op[o].record.kind = "released" => Active = {op[o].record.gen}

\* No binding is active in an empty journal.
LEMMA InitBinding ==
    ASSUME Init
    PROVE  BindingInv
  BY DEF Init, BindingInv, Bound, Active, NoOp

\* A set of positions with at most one element.
LEMMA AtMostOne ==
    ASSUME NEW S, \A x, y \in S : x = y
    PROVE  Cardinality(S) <= 1
<1>1. CASE S = {}
  BY <1>1, FS_EmptySet
<1>2. CASE S # {}
  <2> PICK x : x \in S
    BY <1>2
  <2>1. S = {x}
    OBVIOUS
  <2> QED
    BY <2>1, FS_Singleton
<1> QED
  BY <1>1, <1>2

\* The records that a mutation of the bindings begins with.
LEMMA BeginsBinding ==
    ASSUME TypeInv, NEW o \in Owner, Begins(o), op'[o].at = "bindings"
    PROVE  \E g \in Generation :
              \/ /\ op'[o].record = [kind |-> "acquired", gen |-> g]
                 /\ Active = {}
              \/ /\ op'[o].record = [kind |-> "released", gen |-> g]
                 /\ Active = {g}
  BY SMTT(30)
     DEF Begins, MoveBegin, DispatchBegin, AttachBegin, AcquireBegin, ReleaseBegin, Resumes,
         RecoverNext, Concludes, AttachTransition, Appends, TypeInv, TypeOK

\* What WriteBinding does.
LEMMA BindingWritten ==
    ASSUME ~spoiled', TypeInv, WriterInv, NEW o \in Owner, WriteBinding(o)
    PROVE  /\ op[o].record \in BindingRecord /\ lease = o
           /\ binds' = Append(binds, op[o].record)
           /\ UNCHANGED <<cmds, evid, rec, lease>>
           /\ op'[o].at = "none" /\ \A p \in Owner : p # o => op'[p] = op[p]
<1> USE DEF TypeInv, TypeOK
<1>1. op[o].record \in BindingRecord
  BY OpCases DEF WriteBinding
<1>2. binds' = Append(binds, op[o].record) /\ lease = o
  BY SoundAppend DEF WriteBinding
<1>3. op'[o].at = "none" /\ \A p \in Owner : p # o => op'[p] = op[p]
  BY DEF WriteBinding, NoOp
<1> QED
  BY <1>1, <1>2, <1>3 DEF WriteBinding

\* Every step keeps the bindings: an acquisition finds none active, a release its own.
LEMMA StepBinding ==
    ASSUME ~spoiled', TypeInv, WriterInv, BindingInv, [Next]_vars
    PROVE  BindingInv'
<1> USE DEF BindingInv
<1>0. ASSUME binds' = binds,
             \A p \in Owner : lease' = p /\ op'[p].at = "bindings" =>
                /\ op'[p].record.kind = "acquired" => Active = {}
                /\ op'[p].record.kind = "released" => Active = {op'[p].record.gen}
      PROVE  BindingInv'
  <2>1. Active' = Active /\ \A kind, g : Bound(kind, g)' = Bound(kind, g)
    BY <1>0 DEF Active, Bound
  <2> QED
    BY <1>0, <2>1
<1>1. CASE UNCHANGED vars
  BY <1>0, <1>1 DEF vars
<1>2. CASE Next
  <2> PICK o \in Owner : Quiet(o) \/ Begins(o) \/ Writes(o)
    BY <1>2, StepKinds
  <2>0. \A p \in Owner : lease' = p /\ op'[p].at = "bindings" => lease = p
    BY <1>2, PendingOp, HolderHeld
  <2>1. CASE Quiet(o)
    <3>1. \A p \in Owner : op'[p].at = "bindings" => op'[p] = op[p]
      BY <2>1 DEF Quiet, NoOp, TypeInv, TypeOK
    <3> QED
      BY <1>0, <2>0, <2>1, <3>1 DEF Quiet
  <2>2. CASE Begins(o)
    <3>1. ASSUME op'[o].at = "bindings"
          PROVE  /\ op'[o].record.kind = "acquired" => Active = {}
                 /\ op'[o].record.kind = "released" => Active = {op'[o].record.gen}
      <4> PICK g \in Generation :
              \/ op'[o].record = [kind |-> "acquired", gen |-> g] /\ Active = {}
              \/ op'[o].record = [kind |-> "released", gen |-> g] /\ Active = {g}
        BY <2>2, <3>1, BeginsBinding
      <4> QED
        OBVIOUS
    <3> QED
      BY <1>0, <2>0, <2>2, <3>1, BeginShape
  <2>3. CASE WriteBinding(o)
    <3> DEFINE r == op[o].record
               n == Len(binds) + 1
    <3>1. /\ r \in BindingRecord /\ binds' = Append(binds, r)
          /\ lease = o /\ lease' = lease /\ op'[o].at = "none"
      BY <2>3, BindingWritten
    <3>2. /\ binds \in Seq(BindingRecord) /\ DOMAIN binds = 1..Len(binds)
          /\ DOMAIN binds' = DOMAIN binds \cup {n} /\ n \notin DOMAIN binds
          /\ binds'[n] = r /\ \A i \in DOMAIN binds : binds'[i] = binds[i] /\ i < n
      BY <3>1 DEF TypeInv, TypeOK
    <3>3. /\ r.kind = "acquired" => Active = {}
          /\ r.kind = "released" => Active = {r.gen}
      BY <2>3, <3>1 DEF WriteBinding
    <3>5. r.kind \in {"acquired", "released"} /\ r.gen \in Generation
          /\ \A kind, g : r = [kind |-> kind, gen |-> g] <=> kind = r.kind /\ g = r.gen
      BY <3>1 DEF BindingRecord
    <3>6. ASSUME NEW kind, NEW g
          PROVE  Bound(kind, g)' =
                    Bound(kind, g) \cup IF kind = r.kind /\ g = r.gen THEN {n} ELSE {}
      <4> HIDE DEF r, n
      <4>1. \A i : i \in Bound(kind, g)' <=>
               \/ i \in DOMAIN binds /\ binds[i] = [kind |-> kind, gen |-> g]
               \/ i = n /\ r = [kind |-> kind, gen |-> g]
        BY <3>2 DEF Bound
      <4> QED
        BY <3>5, <4>1 DEF Bound
    <3>7. ASSUME NEW kind, NEW g, kind # r.kind \/ g # r.gen
          PROVE  Bound(kind, g)' = Bound(kind, g)
      BY <3>6, <3>7
    <3>8. \A g \in Generation : \A k \in Bound("released", g)' :
             \E i \in Bound("acquired", g)' : i < k
      <4> SUFFICES ASSUME NEW g \in Generation, NEW k \in Bound("released", g)'
                   PROVE  \E i \in Bound("acquired", g)' : i < k
        OBVIOUS
      <4>1. CASE k \in Bound("released", g)
        BY <3>6, <4>1
      <4>2. CASE k \notin Bound("released", g)
        <5>1. k = n /\ r.kind = "released" /\ r.gen = g
          BY <3>6, <4>2
        <5>2. PICK i \in Bound("acquired", g) : TRUE
          BY <3>3, <5>1 DEF Active
        <5>3. i \in Bound("acquired", g)' /\ i < n
          BY <3>2, <3>6 DEF Bound
        <5> QED
          BY <5>1, <5>3
      <4> QED
        BY <4>1, <4>2
    <3>9. \A g \in Generation : \A i, k \in Bound("released", g)' : i = k
      <4> SUFFICES ASSUME NEW g \in Generation, NEW i \in Bound("released", g)',
                          NEW k \in Bound("released", g)'
                   PROVE  i = k
        OBVIOUS
      <4>1. CASE r.kind = "released" /\ r.gen = g
        <5>1. Bound("released", g) = {}
          BY <3>3, <4>1 DEF Active
        <5> QED
          BY <3>6, <4>1, <5>1
      <4>2. CASE ~(r.kind = "released" /\ r.gen = g)
        <5>1. Bound("released", g)' = Bound("released", g)
          BY <3>7, <4>2
        <5> QED
          BY <5>1
      <4> QED
        BY <4>1, <4>2
    <3>10. \A g, h \in Active' : g = h
      <4>1. CASE r.kind = "acquired"
        BY <3>3, <3>7, <4>1 DEF Active
      <4>2. CASE r.kind = "released"
        <5>1. \A g : g = r.gen => n \in Bound("released", g)'
          BY <3>6, <4>2
        <5> QED
          BY <3>3, <3>7, <4>2, <5>1 DEF Active
      <4> QED
        BY <3>5, <4>1, <4>2
    <3>11. \A p \in Owner : ~(lease' = p /\ op'[p].at = "bindings")
      BY <3>1
    <3> QED
      BY <3>8, <3>9, <3>10, <3>11
  <2>4. CASE WriteCommand(o)
    BY <1>0, <2>4, CommandWritten
  <2>5. CASE WriteEvidence(o)
    BY <1>0, <2>5, OtherWritten DEF WriteEvidence
  <2> QED
    BY <2>1, <2>2, <2>3, <2>4, <2>5 DEF Writes
<1> QED
  BY <1>1, <1>2

\* Until one is spoiled both journals can be replayed, that of the bindings unless some
\* generation was acquired again, and at most one binding is active.
THEOREM JournalsAlwaysReplay == Spec => [](~spoiled => JournalsReplay)
<1> DEFINE Inv == TypeInv /\ WriterInv /\ (~spoiled => CommandInv /\ BindingInv)
<1>1. Init => Inv
  BY InitTypes, InitWriter, InitCommand, InitBinding
<1>2. Inv /\ [Next]_vars => Inv'
  BY StepTypes, StepWriter, StepCommand, StepBinding, SpoiledStays
<1>3. Inv => (~spoiled => JournalsReplay)
  <2> SUFFICES ASSUME Inv, ~spoiled PROVE JournalsReplay
    OBVIOUS
  <2>1. \A g \in Generation : Cardinality(Bound("released", g)) <= 1
    BY AtMostOne DEF BindingInv
  <2>2. Cardinality(Active) <= 1
    BY AtMostOne DEF BindingInv
  <2> QED
    BY <2>1, <2>2 DEF JournalsReplay, DistinctGenerations, BindingsReadable, CommandInv, BindingInv
<1> QED
  BY <1>1, <1>2, <1>3, PTL DEF Spec
-----------------------------------------------------------------------------
(* Evidence.                                                                       *)

\* Some evidence of the journal for command c has this class.
Attests(journal, c, class) == \E i \in Of(journal, c) : journal[i].class = class

Proved == {"verified", "failed"}

\* The conclusion verified or failed has evidence on its whole way: the second half of
\* attach_receipt, a recovery that still has to end the command, the pending record and
\* the journal.
EvidenceInv ==
    /\ \A c \in Command : StateOf(cmds, c) \in Proved => Attests(evid, c, StateOf(cmds, c))
    /\ \A o \in Owner, c \in Command : rec[o][c] \in Proved => Attests(evid, c, rec[o][c])
    /\ \A o \in Owner :
          /\ op[o].at = "transition" => Attests(evid, op[o].record.command, op[o].record.class)
          /\ op[o].at = "commands" /\ op[o].record.state \in Proved =>
                Attests(evid, op[o].record.command, op[o].record.state)

\* Nothing is concluded in an empty journal.
LEMMA InitEvidence ==
    ASSUME Init
    PROVE  EvidenceInv
  BY DEF Init, EvidenceInv, Proved, StateOf, Of, NoRec, NoOp

\* What a recovery aims at has evidence.
LEMMA TargetsAttached ==
    ASSUME TypeInv, NEW c \in Command, Targets[c] \in Proved
    PROVE  Attests(evid, c, Targets[c])
<1>1. Targets[c] = EvidenceFor(c) /\ EvidenceFor(c) # "none"
  BY DEF Targets, Proved
<1>2. Of(evid, c) # {} /\ EvidenceFor(c) = evid[LastOf(evid, c)].class
  BY <1>1 DEF EvidenceFor
<1> QED
  BY <1>1, <1>2 DEF TypeInv, Lasts, Attests

\* What recoveries still have to do changes only where one begins.
LEMMA RecSteps ==
    ASSUME TypeInv, Next, NEW p \in Owner, NEW c \in Command
    PROVE  \/ rec'[p][c] \in {rec[p][c], "none"}
           \/ rec'[p][c] = Targets[c] /\ UNCHANGED <<cmds, evid>>
<1> USE DEF TypeInv, TypeOK
<1> PICK o \in Owner : \/ Opens(o) \/ Mutates(o) \/ EndSession(o) \/ CloseReleases(o)
                       \/ CloseMarks(o) \/ Crash(o)
  BY DEF Next
<1>1. ASSUME rec' = [rec EXCEPT ![o] = NoRec] \/ rec' = rec
      PROVE  rec'[p][c] \in {rec[p][c], "none"}
  <2>1. NoRec[c] = "none"
    BY DEF NoRec
  <2>2. rec'[p] = NoRec \/ rec'[p] = rec[p]
    BY <1>1
  <2> QED
    BY <2>1, <2>2
<1>2. ASSUME rec' = [rec EXCEPT ![o] = Targets]
      PROVE  rec'[p][c] \in {rec[p][c], Targets[c]}
  BY <1>2
<1>3. CASE Opens(o)
  BY <1>1, <1>2, <1>3
  DEF Opens, CreateChecks, Leases, CreatePublishes, OpenReads, OpenReturns
<1>4. CASE EndSession(o) \/ CloseReleases(o) \/ CloseMarks(o) \/ Crash(o)
  BY <1>1, <1>4 DEF EndSession, CloseReleases, CloseMarks, Crash
<1>5. CASE RecoverBegin(o)
  BY <1>2, <1>5 DEF RecoverBegin, files
<1>6. ASSUME NEW d \in Command, RecoverNext(o, d)
      PROVE  rec'[p][c] \in {rec[p][c], "none"}
  <2>1. CASE rec' = [rec EXCEPT ![o][d] = "none"]
    BY <2>1
  <2> QED
    BY <1>1, <1>6, <2>1 DEF RecoverNext
<1>7. CASE AppendRaises(o)
  BY <1>1, <1>7 DEF AppendRaises
<1>8. CASE Mutates(o)
  BY <1>1, <1>5, <1>6, <1>7, <1>8
  DEF Mutates, MoveBegin, DispatchBegin, AttachBegin, AcquireBegin, ReleaseBegin,
      WriteCommand, WriteBinding, WriteEvidence, AttachTransition
<1> QED
  BY <1>3, <1>4, <1>8

\* What WriteEvidence does.
LEMMA EvidenceWritten ==
    ASSUME ~spoiled', TypeInv, WriterInv, NEW o \in Owner, WriteEvidence(o)
    PROVE  /\ op[o].record \in EvidenceRecord
           /\ evid' = Append(evid, op[o].record)
           /\ UNCHANGED <<cmds, binds, rec>>
           /\ op'[o].at = "transition" /\ op'[o].record = op[o].record
           /\ \A p \in Owner : p # o => op'[p] = op[p]
<1>1. op[o].record \in EvidenceRecord
  BY OpCases DEF WriteEvidence, TypeInv, TypeOK
<1>2. evid' = Append(evid, op[o].record)
  BY SoundAppend DEF WriteEvidence
<1>4. \A p \in Owner : p # o => op'[p] = op[p]
  BY DEF WriteEvidence, TypeInv, TypeOK
<1>5. op \in [Owner -> Op] /\ op[o] \in [at : {"evidence", "transition"}, record : EvidenceRecord]
  BY DEF WriteEvidence, TypeInv, TypeOK, Op
<1>6. op'[o].at = "transition" /\ op'[o].record = op[o].record
  BY <1>5 DEF WriteEvidence
<1> QED
  BY <1>1, <1>2, <1>4, <1>6 DEF WriteEvidence

\* Evidence is never lost.
LEMMA AttachedStays ==
    ASSUME ~spoiled', TypeInv, WriterInv, [Next]_vars,
           NEW c, NEW class, Attests(evid, c, class)
    PROVE  Attests(evid', c, class)
<1>1. CASE evid' = evid
  BY <1>1 DEF Attests
<1>2. CASE \E o \in Owner : WriteEvidence(o)
  <2> PICK o \in Owner : WriteEvidence(o)
    BY <1>2
  <2>1. evid' = Append(evid, op[o].record) /\ op[o].record \in EvidenceRecord
    BY EvidenceWritten
  <2>2. evid \in Seq(EvidenceRecord)
    BY DEF TypeInv, TypeOK
  <2>3. PICK i \in Of(evid, c) : evid[i].class = class
    BY DEF Attests
  <2>4. i \in Of(evid', c)
    BY <2>1, <2>2, OfAppend
  <2>5. i \in 1..Len(evid)
    BY <2>2, OfRange
  <2>6. evid'[i] = evid[i]
    BY <2>1, <2>2, <2>5
  <2> QED
    BY <2>3, <2>4, <2>6 DEF Attests
<1>3. CASE UNCHANGED vars
  BY <1>1, <1>3 DEF vars
<1>4. CASE Next
  <2> PICK o \in Owner : Quiet(o) \/ Begins(o) \/ Writes(o)
    BY <1>4, StepKinds
  <2> QED
    BY <1>1, <1>2, BeginShape DEF Quiet, Writes, WriteCommand, WriteBinding
<1> QED
  BY <1>3, <1>4

\* Every step keeps the evidence of each conclusion.
LEMMA StepEvidence ==
    ASSUME ~spoiled', TypeInv, WriterInv, EvidenceInv, [Next]_vars
    PROVE  EvidenceInv'
<1> USE DEF EvidenceInv
<1>1. \A c, class : Attests(evid, c, class) => Attests(evid', c, class)
  BY AttachedStays
<1>2. CASE UNCHANGED vars
  BY <1>2 DEF vars
<1>3. CASE Next
  <2>1. \A p \in Owner, c \in Command : rec'[p][c] \in Proved => Attests(evid', c, rec'[p][c])
    <3> SUFFICES ASSUME NEW p \in Owner, NEW c \in Command, NEW s, s = rec'[p][c], s \in Proved
                 PROVE  Attests(evid', c, s)
      OBVIOUS
    <3>1. Attests(evid, c, s)
      BY <1>3, RecSteps, TargetsAttached DEF Proved
    <3> QED
      BY <3>1, AttachedStays
  <2> PICK o \in Owner : Quiet(o) \/ Begins(o) \/ Writes(o)
    BY <1>3, StepKinds
  <2>2. CASE Quiet(o)
    <3>1. \A p \in Owner : op'[p] = op[p] \/ op'[p].at = "none"
      BY <2>2 DEF Quiet, NoOp, TypeInv, TypeOK
    <3> QED
      BY <1>1, <2>1, <2>2, <3>1 DEF Quiet
  <2>3. CASE Begins(o)
    <3>1. ASSUME op'[o].at = "commands", op'[o].record.state \in Proved
          PROVE  Attests(evid, op'[o].record.command, op'[o].record.state)
      <4> PICK c \in Command, s \in Commands!States, g \in Generation \cup {NoGeneration} :
                  /\ op'[o].record = Moved(c, s, g)
                  /\ s \in {"verified", "failed"} =>
                       \/ op[o].at = "transition" /\ op[o].record = [command |-> c, class |-> s]
                       \/ rec[o][c] = s
        BY ZenonT(40), <2>3, <3>1, BeginsCommand
      <4>1. op'[o].record.command = c /\ op'[o].record.state = s
        BY DEF Moved
      <4>2. CASE op[o].at = "transition" /\ op[o].record = [command |-> c, class |-> s]
        BY <4>1, <4>2
      <4>3. CASE rec[o][c] = s
        BY <3>1, <4>1, <4>3
      <4> QED
        BY <3>1, <4>1, <4>2, <4>3 DEF Proved
    <3>2. op'[o].at # "transition"
      BY <2>3 DEF Begins, MoveBegin, DispatchBegin, AttachBegin, AcquireBegin, ReleaseBegin,
         Resumes, RecoverNext, Concludes, AttachTransition, Appends, TypeInv, TypeOK
    <3> QED
      BY <1>1, <2>1, <2>3, <3>1, <3>2, BeginShape
  <2>4. CASE WriteCommand(o)
    <3>1. \A c \in Command : StateOf(cmds', c) \in Proved =>
             Attests(evid, c, StateOf(cmds', c))
      BY <2>4, CommandWritten DEF WriteCommand
    <3> QED
      BY <1>1, <2>1, <2>4, <3>1, CommandWritten
  <2>5. CASE WriteBinding(o)
    BY <1>1, <2>1, <2>5, BindingWritten
  <2>6. CASE WriteEvidence(o)
    <3>1. Attests(evid', op[o].record.command, op[o].record.class)
      <4>1. evid' = Append(evid, op[o].record) /\ op[o].record \in EvidenceRecord
        BY <2>6, EvidenceWritten
      <4>2. evid \in Seq(EvidenceRecord)
        BY DEF TypeInv, TypeOK
      <4>3. Len(evid) + 1 \in Of(evid', op[o].record.command)
        BY <4>1, <4>2, OfAppend
      <4>4. evid'[Len(evid) + 1] = op[o].record
        BY <4>1, <4>2
      <4> QED
        BY <4>3, <4>4 DEF Attests
    <3> QED
      BY <1>1, <2>1, <2>6, <3>1, EvidenceWritten
  <2> QED
    BY <2>2, <2>3, <2>4, <2>5, <2>6 DEF Writes
<1> QED
  BY <1>2, <1>3

\* Nothing is called verified or failed without evidence that says so, whatever became
\* of the process that attached it.
THEOREM VerdictsHaveEvidence == Spec => [](~spoiled => EvidenceAgrees)
<1> DEFINE Inv == TypeInv /\ WriterInv /\ (~spoiled => EvidenceInv)
<1>1. Init => Inv
  BY InitTypes, InitWriter, InitEvidence
<1>2. Inv /\ [Next]_vars => Inv'
  BY StepTypes, StepWriter, StepEvidence, SpoiledStays
<1>3. Inv => (~spoiled => EvidenceAgrees)
  BY DEF EvidenceInv, EvidenceAgrees, Proved, Attests
<1> QED
  BY <1>1, <1>2, <1>3, PTL DEF Spec
-----------------------------------------------------------------------------
(* Dispatches.                                                                     *)

NotYet == {"none", "proposed", "authorized"}

\* A command that was not dispatched names no generation, and a pending dispatch names
\* the active one: nobody else can release it meanwhile.
DispatchInv ==
    /\ \A c \in Command : StateOf(cmds, c) \in NotYet =>
          \A i \in Of(cmds, c) : cmds[i].gen = NoGeneration
    /\ \A o \in Owner : lease = o /\ op[o].at = "commands" =>
          /\ op[o].record.gen # NoGeneration <=> op[o].record.state = "dispatched"
          /\ op[o].record.state = "dispatched" => op[o].record.gen \in Active

\* No command of an empty journal names a generation.
LEMMA InitDispatch ==
    ASSUME Init
    PROVE  DispatchInv
  BY DEF Init, DispatchInv, Of, NoOp

\* What is not dispatched yet was not dispatched before.
LEMMA NotYetBefore ==
    ASSUME NEW s \in Commands!States, NEW t \in Commands!Transitions[s]
    PROVE  /\ t \in NotYet => s \in NotYet
           /\ t = "dispatched" => s \in NotYet
  BY DEF Commands!Transitions, Commands!States, Commands!Ended, NotYet

\* Every step keeps the generations of the dispatches.
LEMMA StepDispatch ==
    ASSUME ~spoiled', TypeInv, WriterInv, CommandInv, DispatchInv, [Next]_vars
    PROVE  DispatchInv'
<1> USE DEF DispatchInv
<1>1. ASSUME cmds' = cmds, binds' = binds,
             \A p \in Owner : lease' = p /\ op'[p].at = "commands" =>
                /\ op'[p].record.gen # NoGeneration <=> op'[p].record.state = "dispatched"
                /\ op'[p].record.state = "dispatched" => op'[p].record.gen \in Active
      PROVE  DispatchInv'
  <2>1. Active' = Active
    BY <1>1 DEF Active, Bound
  <2> QED
    BY <1>1, <2>1
<1>2. CASE UNCHANGED vars
  BY <1>1, <1>2 DEF vars
<1>3. CASE Next
  <2> PICK o \in Owner : Quiet(o) \/ Begins(o) \/ Writes(o)
    BY <1>3, StepKinds
  <2>0. \A p \in Owner : lease' = p /\ op'[p].at = "commands" => lease = p
    BY <1>3, PendingOp, HolderHeld
  <2>1. CASE Quiet(o)
    <3>1. \A p \in Owner : op'[p].at = "commands" => op'[p] = op[p]
      BY <2>1 DEF Quiet, NoOp, TypeInv, TypeOK
    <3> QED
      BY <1>1, <2>0, <2>1, <3>1 DEF Quiet
  <2>2. CASE Begins(o)
    <3>1. ASSUME op'[o].at = "commands"
          PROVE  /\ op'[o].record.gen # NoGeneration <=> op'[o].record.state = "dispatched"
                 /\ op'[o].record.state = "dispatched" => op'[o].record.gen \in Active
      <4> PICK c \in Command, s \in Commands!States, g \in Generation \cup {NoGeneration} :
                  /\ op'[o].record = Moved(c, s, g)
                  /\ g # NoGeneration <=> s = "dispatched"
                  /\ s = "dispatched" => BindingsReadable /\ Active = {g}
        BY <2>2, <3>1, BeginsCommand
      <4>1. op'[o].record.gen = g /\ op'[o].record.state = s
        BY DEF Moved
      <4> QED
        BY <4>1
    <3> QED
      BY <1>1, <2>0, <2>2, <3>1, BeginShape
  <2>3. CASE WriteCommand(o)
    <3> DEFINE r == op[o].record
    <3>1. /\ r \in CommandRecord /\ cmds' = Append(cmds, r)
          /\ \A c \in Command : StateOf(cmds', c) =
                IF c = r.command THEN r.state ELSE StateOf(cmds, c)
          /\ lease = o /\ lease' = lease /\ op'[o].at = "none"
      BY <2>3, CommandWritten
    <3>2. cmds \in Seq(CommandRecord)
      BY DEF TypeInv, TypeOK
    <3>3. /\ r.from = StateOf(cmds, r.command) /\ r.state \in Commands!Transitions[r.from]
          /\ r.gen # NoGeneration <=> r.state = "dispatched"
      BY <2>3, <3>1 DEF WriteCommand, CommandInv
    <3>4. ASSUME NEW c \in Command, StateOf(cmds', c) \in NotYet, NEW i \in Of(cmds', c)
          PROVE  cmds'[i].gen = NoGeneration
      <4>1. CASE i = Len(cmds) + 1
        <5>1. cmds'[i] = r
          BY <3>1, <3>2, <4>1
        <5>2. r.command = c
          BY <5>1 DEF Of
        <5>3. r.state \in NotYet
          BY <3>1, <3>4, <5>2
        <5> QED
          BY <3>3, <5>1, <5>3 DEF NotYet
      <4>2. CASE i # Len(cmds) + 1
        <5>1. i \in Of(cmds, c)
          BY <3>1, <3>2, <4>2, OfAppend
        <5>2. i \in 1..Len(cmds)
          BY <3>2, <5>1, OfRange
        <5>3. cmds'[i] = cmds[i]
          BY <3>1, <3>2, <5>2
        <5>4. StateOf(cmds, c) \in NotYet
          <6>1. r.from \in Commands!States
            BY <3>1 DEF CommandRecord
          <6>2. r.state \in NotYet => r.from \in NotYet
            BY <3>3, <6>1, NotYetBefore
          <6> QED
            BY <3>1, <3>3, <3>4, <6>2
        <5> QED
          BY <5>1, <5>3, <5>4
      <4> QED
        BY <4>1, <4>2
    <3>5. \A p \in Owner : ~(lease' = p /\ op'[p].at = "commands")
      BY <3>1
    <3> QED
      BY <3>4, <3>5
  <2>4. CASE WriteBinding(o) \/ WriteEvidence(o)
    BY <2>4, OtherWritten
  <2> QED
    BY <2>1, <2>2, <2>3, <2>4 DEF Writes
<1> QED
  BY <1>2, <1>3

\* A command becomes dispatched under the active binding.
LEMMA StepDispatched ==
    ASSUME ~spoiled', TypeInv, WriterInv, CommandInv, DispatchInv, [Next]_vars,
           NEW c \in Command, StateOf(cmds', c) = "dispatched", StateOf(cmds, c) # "dispatched"
    PROVE  GenerationOf(c)' \in Active
<1>1. cmds' # cmds
  OBVIOUS
<1>2. PICK o \in Owner : WriteCommand(o)
  <2>1. Next
    BY <1>1 DEF vars
  <2> PICK o \in Owner : Quiet(o) \/ Begins(o) \/ Writes(o)
    BY <2>1, StepKinds
  <2> QED
    BY <1>1, BeginShape, OtherWritten DEF Quiet, Writes
<1> DEFINE r == op[o].record
           n == Len(cmds) + 1
<1>3. /\ r \in CommandRecord /\ cmds' = Append(cmds, r) /\ lease = o
      /\ r.command = c /\ r.state = "dispatched"
  BY <1>2, CommandWritten
<1>4. cmds \in Seq(CommandRecord)
  BY DEF TypeInv, TypeOK
<1>5. r.gen # NoGeneration /\ r.gen \in Active
  BY <1>2, <1>3 DEF WriteCommand, DispatchInv
<1>6. \A i \in Of(cmds, c) : cmds[i].gen = NoGeneration
  <2>1. r.from = StateOf(cmds, c) /\ r.state \in Commands!Transitions[r.from]
    BY <1>2, <1>3 DEF WriteCommand, CommandInv
  <2>2. r.from \in Commands!States
    BY <1>3 DEF CommandRecord
  <2>3. StateOf(cmds, c) \in NotYet
    BY <1>3, <2>1, <2>2, NotYetBefore
  <2> QED
    BY <2>3 DEF DispatchInv
<1>7. \A i \in Of(cmds', c) : cmds'[i].gen # NoGeneration <=> i = n
  <2> SUFFICES ASSUME NEW i \in Of(cmds', c)
               PROVE  cmds'[i].gen # NoGeneration <=> i = n
    OBVIOUS
  <2>1. CASE i = n
    BY <1>3, <1>4, <1>5, <2>1
  <2>2. CASE i # n
    <3>1. i \in Of(cmds, c)
      BY <1>3, <1>4, <2>2, OfAppend
    <3>2. i \in 1..Len(cmds)
      BY <1>4, <3>1, OfRange
    <3> QED
      BY <1>3, <1>4, <1>6, <2>2, <3>1, <3>2
  <2> QED
    BY <2>1, <2>2
<1>8. n \in Of(cmds', c) /\ cmds'[n] = r
  BY <1>3, <1>4, OfAppend
<1>9. GenerationOf(c)' = r.gen
  BY <1>5, <1>7, <1>8 DEF GenerationOf
<1> QED
  BY <1>5, <1>9

\* A dispatch is recorded only under the binding that is active when it is written.
THEOREM DispatchesAreBound == Spec => DispatchedUnderBinding
<1> DEFINE Inv == TypeInv /\ WriterInv /\ (~spoiled => CommandInv /\ DispatchInv)
<1>1. Init => Inv
  BY InitTypes, InitWriter, InitCommand, InitDispatch
<1>2. Inv /\ [Next]_vars => Inv'
  BY StepTypes, StepWriter, StepCommand, StepDispatch, SpoiledStays
<1>3. Inv /\ [Next]_vars =>
        [\A c \in Command :
            ~spoiled' /\ StateOf(cmds', c) = "dispatched" /\ StateOf(cmds, c) # "dispatched" =>
                GenerationOf(c)' \in Active]_vars
  BY StepDispatched, SpoiledStays
<1> QED
  BY <1>1, <1>2, <1>3, PTL DEF Spec, DispatchedUnderBinding
-----------------------------------------------------------------------------
(* Recovery.                                                                       *)

\* While a session recovers, every dispatched command is on the list or in the pending
\* record, and where there is evidence both say what the last of it says.
RecoveryInv ==
    \A o \in Owner : proc[o] = "recovering" =>
        /\ \A c \in Command : StateOf(cmds, c) = "dispatched" =>
              rec[o][c] # "none" \/ (op[o].at = "commands" /\ op[o].record.command = c)
        /\ \A c \in Command : rec[o][c] # "none" /\ Of(evid, c) # {} =>
              rec[o][c] = EvidenceFor(c)
        /\ op[o].at = "commands" =>
              /\ op[o].record.state \in Classes
              /\ \A c \in Command : c = op[o].record.command /\ Of(evid, c) # {} =>
                    op[o].record.state = EvidenceFor(c)

\* Nobody recovers at first.
LEMMA InitRecovery ==
    ASSUME Init
    PROVE  RecoveryInv
  BY DEF Init, RecoveryInv

\* Nobody disturbs a recovery: steps of others leave its session and the journals alone.
LEMMA OthersKeepRecovery ==
    ASSUME ~spoiled', TypeInv, WriterInv, NEW o \in Owner, NEW p \in Owner, p # o,
           proc[o] = "recovering",
           \/ Opens(p) \/ Mutates(p) \/ EndSession(p) \/ CloseReleases(p)
           \/ CloseMarks(p) \/ Crash(p)
    PROVE  /\ proc'[o] = proc[o] /\ op'[o] = op[o] /\ rec'[o] = rec[o]
           /\ UNCHANGED <<cmds, evid>>
<1> USE DEF TypeInv, TypeOK
<1>1. lease = o
  BY DEF WriterInv, Owning
<1>2. CASE Opens(p)
  BY <1>2 DEF Opens, CreateChecks, Leases, CreatePublishes, OpenReads, OpenReturns, Gives, files
<1>3. CASE EndSession(p) \/ CloseReleases(p) \/ CloseMarks(p) \/ Crash(p)
  BY <1>3 DEF EndSession, CloseReleases, CloseMarks, Crash, files
<1>4. ~WriteCommand(p) /\ ~WriteBinding(p) /\ ~WriteEvidence(p)
  BY <1>1, SoundAppend DEF WriteCommand, WriteBinding, WriteEvidence
<1>5. CASE Mutates(p)
  BY <1>4, <1>5
  DEF Mutates, MoveBegin, DispatchBegin, AttachBegin, AcquireBegin, ReleaseBegin, Enters,
      Appends, AttachTransition, RecoverBegin, RecoverNext, AppendRaises, Gives, files
<1> QED
  BY <1>2, <1>3, <1>5

\* The steps of the session itself, while it recovers.
LEMMA OwnRecoverySteps ==
    ASSUME ~spoiled', TypeInv, WriterInv, NEW o \in Owner,
           \/ Opens(o) \/ Mutates(o) \/ EndSession(o) \/ CloseReleases(o)
           \/ CloseMarks(o) \/ Crash(o),
           proc'[o] = "recovering"
    PROVE  \/ OpenReads(o) /\ proc[o] = "opening" /\ rec'[o] = Targets
           \/ proc[o] = "recovering" /\ (WriteCommand(o) \/ \E c \in Command : Resumes(o, c))
<1> USE DEF TypeInv, TypeOK
<1>1. CASE Opens(o)
  BY <1>1 DEF Opens, CreateChecks, Leases, CreatePublishes, OpenReads, OpenReturns, Gives
<1>2. CASE EndSession(o) \/ CloseReleases(o) \/ CloseMarks(o) \/ Crash(o)
  BY <1>2 DEF EndSession, CloseReleases, CloseMarks, Crash
<1>3. ASSUME NEW c \in Command, RecoverNext(o, c)
      PROVE  proc[o] = "recovering" /\ Resumes(o, c)
  BY <1>3 DEF RecoverNext, Resumes, Gives
<1>4. CASE Mutates(o) /\ ~\E c \in Command : RecoverNext(o, c)
  <2>1. proc[o] = "recovering" => op[o].at \in {"none", "commands"}
    BY DEF WriterInv
  <2> QED
    BY <1>4, <2>1
    DEF Mutates, MoveBegin, DispatchBegin, AttachBegin, AcquireBegin, ReleaseBegin, Enters,
        WriteCommand, WriteBinding, WriteEvidence, AttachTransition, RecoverBegin,
        AppendRaises, Gives
<1> QED
  BY <1>1, <1>2, <1>3, <1>4

\* Every step keeps the list of a recovery complete and in agreement with the evidence.
LEMMA StepRecovery ==
    ASSUME ~spoiled', TypeInv, WriterInv, RecoveryInv, [Next]_vars
    PROVE  RecoveryInv'
<1> USE DEF TypeInv, TypeOK
<1>1. ASSUME evid' = evid
      PROVE  \A c : Of(evid', c) = Of(evid, c) /\ EvidenceFor(c)' = EvidenceFor(c)
  BY <1>1 DEF EvidenceFor
<1>2. CASE UNCHANGED vars
  <2>1. /\ UNCHANGED <<cmds, proc, op, rec>>
        /\ \A c : Of(evid', c) = Of(evid, c) /\ EvidenceFor(c)' = EvidenceFor(c)
    BY <1>1, <1>2 DEF vars
  <2> HIDE DEF TypeInv, TypeOK
  <2> QED
    BY SMTT(30), <2>1 DEF RecoveryInv
<1>3. CASE Next
  <2> PICK p \in Owner : \/ Opens(p) \/ Mutates(p) \/ EndSession(p) \/ CloseReleases(p)
                         \/ CloseMarks(p) \/ Crash(p)
    BY <1>3 DEF Next
  <2> SUFFICES ASSUME NEW o \in Owner, proc'[o] = "recovering"
               PROVE
        /\ \A c \in Command : StateOf(cmds', c) = "dispatched" =>
              rec'[o][c] # "none" \/ (op'[o].at = "commands" /\ op'[o].record.command = c)
        /\ \A c \in Command : rec'[o][c] # "none" /\ Of(evid', c) # {} =>
              rec'[o][c] = EvidenceFor(c)'
        /\ op'[o].at = "commands" =>
              /\ op'[o].record.state \in Classes
              /\ \A c \in Command : c = op'[o].record.command /\ Of(evid', c) # {} =>
                    op'[o].record.state = EvidenceFor(c)'
    BY DEF RecoveryInv
  <2>1. CASE p # o
    <3>1. proc[o] = "recovering"
      BY <2>1 DEF Opens, CreateChecks, Leases, CreatePublishes, OpenReads, OpenReturns, Gives,
        EndSession, CloseReleases, CloseMarks, Crash, Mutates, MoveBegin, DispatchBegin,
        AttachBegin, AcquireBegin, ReleaseBegin, WriteCommand, WriteBinding, WriteEvidence,
        AttachTransition, RecoverBegin, RecoverNext, AppendRaises
    <3>2. /\ op'[o] = op[o] /\ rec'[o] = rec[o]
          /\ UNCHANGED <<cmds, evid>>
      BY <2>1, <3>1, OthersKeepRecovery
    <3>3. \A c \in Command : Of(evid', c) = Of(evid, c) /\ EvidenceFor(c)' = EvidenceFor(c)
      BY <1>1, <3>2
    <3>4. \A c \in Command : StateOf(cmds', c) = "dispatched" =>
             rec'[o][c] # "none" \/ (op'[o].at = "commands" /\ op'[o].record.command = c)
      BY <3>1, <3>2 DEF RecoveryInv
    <3>5. \A c \in Command : rec'[o][c] # "none" /\ Of(evid', c) # {} =>
             rec'[o][c] = EvidenceFor(c)'
      BY <3>1, <3>2, <3>3 DEF RecoveryInv
    <3>6. op'[o].at = "commands" =>
             /\ op'[o].record.state \in Classes
             /\ \A c \in Command : c = op'[o].record.command /\ Of(evid', c) # {} =>
                   op'[o].record.state = EvidenceFor(c)'
      <4> HIDE DEF TypeInv, TypeOK
      <4>1. op[o].at = "commands" =>
               /\ op[o].record.state \in Classes
               /\ \A c \in Command : c = op[o].record.command /\ Of(evid, c) # {} =>
                     op[o].record.state = EvidenceFor(c)
        BY <3>1 DEF RecoveryInv
      <4> QED
        BY <3>2, <3>3, <4>1
    <3> QED
      BY <3>4, <3>5, <3>6
  <2>2. CASE p = o /\ OpenReads(o) /\ proc[o] = "opening" /\ rec'[o] = Targets
    <3>1. UNCHANGED <<cmds, evid, op>> /\ op[o].at = "none"
      <4>1. op[o] = NoOp
        BY <2>2 DEF WriterInv
      <4> QED
        BY <2>2, <4>1 DEF OpenReads, NoOp
    <3>2. \A c \in Command :
             /\ StateOf(cmds, c) = "dispatched" => Targets[c] # "none"
             /\ Targets[c] # "none" /\ Of(evid, c) # {} => Targets[c] = EvidenceFor(c)
      BY EvidenceType DEF Targets, Classes
    <3> QED
      BY <1>1, <2>2, <3>1, <3>2
  <2>3. CASE p = o /\ proc[o] = "recovering" /\ WriteCommand(o)
    <3>1. /\ \A c \in Command : StateOf(cmds', c) =
                IF c = op[o].record.command THEN op[o].record.state ELSE StateOf(cmds, c)
          /\ evid' = evid /\ rec' = rec /\ op'[o].at = "none"
      BY <2>3, CommandWritten
    <3>2. op[o].at = "commands" /\ op[o].record.state # "dispatched"
      BY <2>3 DEF WriteCommand, RecoveryInv, Classes
    <3> QED
      BY <1>1, <2>3, <3>1, <3>2 DEF RecoveryInv
  <2>4. CASE p = o /\ proc[o] = "recovering" /\ \E c \in Command : Resumes(o, c)
    <3> PICK d \in Command : Resumes(o, d)
      BY <2>4
    <3>1. /\ UNCHANGED <<cmds, evid>>
          /\ rec' = [rec EXCEPT ![o][d] = "none"]
          /\ op'[o] = [at |-> "commands", record |-> Moved(d, rec[o][d], NoGeneration)]
          /\ rec[o][d] \in Classes /\ op[o] = NoOp
      BY DEF Resumes, RecoverNext, Appends, files
    <3>2. /\ op'[o].at = "commands" /\ op'[o].record.command = d
          /\ op'[o].record.state = rec[o][d] /\ op[o].at = "none"
      BY <3>1 DEF Moved, NoOp
    <3>3. /\ rec'[o][d] = "none"
          /\ \A c \in Command : c # d => rec'[o][c] = rec[o][c]
      BY <3>1
    <3>4. rec[o][d] # "none"
      BY <3>1 DEF Classes
    <3> QED
      BY <1>1, <2>4, <3>1, <3>2, <3>3, <3>4 DEF RecoveryInv
  <2> QED
    BY <2>1, <2>2, <2>3, <2>4, OwnRecoverySteps
<1> QED
  BY <1>2, <1>3

\* An open that recovers returns only when no command is left dispatched.
THEOREM RecoveryEndsAll == Spec => RecoveryComplete
<1> DEFINE Inv == TypeInv /\ WriterInv /\ (~spoiled => RecoveryInv)
<1>1. Init => Inv
  BY InitTypes, InitWriter, InitRecovery
<1>2. Inv /\ [Next]_vars => Inv'
  BY StepTypes, StepWriter, StepRecovery, SpoiledStays
<1>3. Inv /\ [Next]_vars =>
        [\A o \in Owner : ~spoiled /\ proc[o] = "recovering" /\ proc'[o] = "open" =>
            \A c \in Command : StateOf(cmds, c) # "dispatched"]_vars
  <2> SUFFICES ASSUME Inv, Next, ~spoiled, NEW o \in Owner, proc[o] = "recovering", proc'[o] = "open",
                      NEW c \in Command
               PROVE  StateOf(cmds, c) # "dispatched"
    OBVIOUS
  <2> PICK p \in Owner : \/ Opens(p) \/ Mutates(p) \/ EndSession(p) \/ CloseReleases(p)
                         \/ CloseMarks(p) \/ Crash(p)
    BY DEF Next
  <2>1. p = o
    BY DEF Opens, CreateChecks, Leases, CreatePublishes, OpenReads, OpenReturns, Gives, EndSession,
      CloseReleases, CloseMarks, Crash, Mutates, MoveBegin, DispatchBegin, AttachBegin,
      AcquireBegin, ReleaseBegin, WriteCommand, WriteBinding, WriteEvidence, AttachTransition,
      RecoverBegin, RecoverNext, AppendRaises, files, TypeInv, TypeOK
  <2>2. OpenReturns(o)
    BY <2>1 DEF Opens, CreateChecks, Leases, CreatePublishes, OpenReads, Gives, EndSession,
      CloseReleases, CloseMarks, Crash, Mutates, MoveBegin, DispatchBegin, AttachBegin,
      AcquireBegin, ReleaseBegin, WriteCommand, WriteBinding, WriteEvidence, AttachTransition,
      RecoverBegin, RecoverNext, AppendRaises, TypeInv, TypeOK
  <2>3. rec[o][c] = "none" /\ op[o].at = "none"
    BY <2>2 DEF OpenReturns, NoRec, NoOp
  <2> QED
    BY <2>3 DEF RecoveryInv
<1> QED
  BY <1>1, <1>2, <1>3, PTL DEF Spec, RecoveryComplete

\* A recovery ends a command as the last evidence says that the dead owner attached.
THEOREM RecoveryKeepsEvidence == Spec => RecoveryUsesEvidence
<1> DEFINE Inv == TypeInv /\ WriterInv /\ (~spoiled => RecoveryInv)
<1>1. Init => Inv
  BY InitTypes, InitWriter, InitRecovery
<1>2. Inv /\ [Next]_vars => Inv'
  BY StepTypes, StepWriter, StepRecovery, SpoiledStays
<1>3. Inv /\ [Next]_vars =>
        [\A o \in Owner, c \in Command :
            ~spoiled' /\ proc[o] = "recovering" /\ StateOf(cmds', c) # StateOf(cmds, c)
              /\ Of(evid, c) # {} =>
                StateOf(cmds', c) = EvidenceFor(c)]_vars
  <2> SUFFICES ASSUME Inv, Next, ~spoiled', NEW o \in Owner, NEW c \in Command, proc[o] = "recovering",
                      StateOf(cmds', c) # StateOf(cmds, c), Of(evid, c) # {}
               PROVE  StateOf(cmds', c) = EvidenceFor(c)
    OBVIOUS
  <2>1. cmds' # cmds
    OBVIOUS
  <2>2. PICK p \in Owner : WriteCommand(p)
    <3> PICK q \in Owner : Quiet(q) \/ Begins(q) \/ Writes(q)
      BY StepKinds
    <3> QED
      BY <2>1, BeginShape, OtherWritten DEF Quiet, Writes
  <2>3. p = o /\ ~spoiled
    <3>1. lease = o
      BY DEF WriterInv, Owning
    <3> QED
      BY <2>2, <3>1, CommandWritten, SpoiledStays
  <2>4. StateOf(cmds', c) = op[o].record.state /\ c = op[o].record.command
    BY <2>2, <2>3, CommandWritten
  <2> QED
    BY <2>2, <2>3, <2>4 DEF RecoveryInv, WriteCommand
<1> QED
  BY <1>1, <1>2, <1>3, PTL DEF Spec, RecoveryUsesEvidence

\* What the journals say can be read back and has its evidence: the two results above, as
\* one invariant of ContinuitySession's files.
THEOREM JournalsAreTrue == Spec => []JournalsTellTruth
<1>1. Spec => [](~spoiled => JournalsReplay)
  BY JournalsAlwaysReplay
<1>2. Spec => [](~spoiled => EvidenceAgrees)
  BY VerdictsHaveEvidence
<1>3. (~spoiled => JournalsReplay) /\ (~spoiled => EvidenceAgrees) => JournalsTellTruth
  BY DEF JournalsTellTruth
<1> QED
  BY <1>1, <1>2, <1>3, PTL

\* recover_interrupted_commands ends every command, each as its evidence says.
THEOREM RecoveryIsSound == Spec => RecoverySound
<1>1. Spec => RecoveryComplete
  BY RecoveryEndsAll
<1>2. Spec => RecoveryUsesEvidence
  BY RecoveryKeepsEvidence
<1> QED
  BY <1>1, <1>2 DEF RecoverySound
-----------------------------------------------------------------------------
(* Orderly hosts.  Without a close under a thread's mutation the holder of the lease *)
(* is the only writer, and with files that can be read it appends to what it replayed. *)

Orderly == Events \cap {"close_in_flight", "unreadable"} = {}

\* Of an orderly host nobody but the owner of an open session mutates it.
OrderlyInv == \A o \in Owner : op[o] # NoOp => proc[o] \in {"open", "recovering"}

\* Every step of orderly hosts keeps that.
LEMMA StepOrderly ==
    ASSUME Orderly, TypeInv, OrderlyInv, [Next]_vars
    PROVE  OrderlyInv'
<1> USE DEF OrderlyInv
<1>1. CASE UNCHANGED vars
  BY <1>1 DEF vars
<1>2. CASE Next
  <2> PICK o \in Owner : \/ Opens(o) \/ Mutates(o) \/ EndSession(o) \/ CloseReleases(o)
                         \/ CloseMarks(o) \/ Crash(o)
    BY <1>2 DEF Next
  <2> USE DEF TypeInv, TypeOK
  <2>1. Writable(o) => proc[o] \in {"open", "recovering"}
    BY DEF Writable, Orderly
  <2>2. CASE Opens(o)
    BY <2>2 DEF Opens, CreateChecks, Leases, CreatePublishes, OpenReads, OpenReturns, Gives
  <2>3. ASSUME proc[o] \in {"open", "recovering"}, UNCHANGED proc,
               \A p \in Owner : p # o => op'[p] = op[p]
        PROVE  OrderlyInv'
    BY <2>3
  <2>4. ASSUME op[o].at # "none" PROVE proc[o] \in {"open", "recovering"}
    BY <2>4, PendingOp
  <2>5. CASE \/ WriteCommand(o) \/ WriteBinding(o) \/ WriteEvidence(o)
             \/ AttachTransition(o)
    BY <2>3, <2>4, <2>5 DEF WriteCommand, WriteBinding, WriteEvidence, AttachTransition, Appends
  <2>6. CASE RecoverBegin(o) \/ \E c \in Command : RecoverNext(o, c)
    BY <2>1, <2>6 DEF RecoverBegin, RecoverNext, Appends, Gives
  <2>7. CASE AppendRaises(o)
    BY <2>7 DEF AppendRaises, Gives
  <2>8. CASE \/ \E c \in Command, s \in Commands!States : MoveBegin(o, c, s)
             \/ \E c \in Command, g \in Generation :
                   DispatchBegin(o, c, g) \/ \E class \in Classes : AttachBegin(o, c, class, g)
             \/ \E g \in Generation : AcquireBegin(o, g) \/ ReleaseBegin(o, g)
    BY <2>1, <2>3, <2>8 DEF MoveBegin, DispatchBegin, AttachBegin, AcquireBegin, ReleaseBegin, Enters,
       Appends
  <2>9. CASE Mutates(o)
    BY <2>5, <2>6, <2>7, <2>8, <2>9 DEF Mutates
  <2>10. CASE EndSession(o)
    BY <2>10 DEF EndSession
  <2>11. CASE CloseReleases(o) \/ CloseMarks(o)
    BY <2>11 DEF CloseReleases, CloseMarks, Orderly
  <2>12. CASE Crash(o)
    BY <2>12 DEF Crash
  <2> QED
    BY <2>2, <2>9, <2>10, <2>11, <2>12
<1> QED
  BY <1>1, <1>2

\* The writer of an orderly host holds the lease, and appends to what it replayed.
LEMMA StepUnspoiled ==
    ASSUME Orderly, TypeInv, WriterInv, OrderlyInv, ~spoiled, [Next]_vars
    PROVE  ~spoiled'
<1>1. ASSUME NEW o \in Owner, op[o] # NoOp PROVE lease = o
  BY <1>1 DEF OrderlyInv, WriterInv, Owning
<1>2. ASSUME NEW o \in Owner, op[o].at # "none", NEW j, NEW k, AppendsTo(o, j, k)
      PROVE  ~spoiled'
  <2>1. lease = o
    BY <1>1, <1>2, PendingOp
  <2> QED
    BY <1>2, <2>1 DEF AppendsTo, Appended, Orderly
<1>3. CASE UNCHANGED vars
  BY <1>3 DEF vars
<1>4. CASE Next
  <2> PICK o \in Owner : \/ Opens(o) \/ Mutates(o) \/ EndSession(o) \/ CloseReleases(o)
                         \/ CloseMarks(o) \/ Crash(o)
    BY <1>4 DEF Next
  <2>1. CASE WriteCommand(o) \/ WriteBinding(o) \/ WriteEvidence(o)
    BY <1>2, <2>1 DEF WriteCommand, WriteBinding, WriteEvidence
  <2> QED
    BY <2>1 DEF Opens, Mutates, EndSession, CloseReleases, CloseMarks, Crash, CreateChecks, Leases,
       CreatePublishes, OpenReads, OpenReturns, MoveBegin, DispatchBegin, AttachBegin, AcquireBegin,
       ReleaseBegin, AttachTransition, RecoverBegin, RecoverNext, AppendRaises, files
<1> QED
  BY <1>3, <1>4

\* As long as no host closes a session under a mutation and every file can be read, no
\* record is appended without the lease or in the place of a journal: what is said of
\* unspoiled journals is said of all of them.
THEOREM OrderlyNeverSpoils ==
    ASSUME Orderly
    PROVE  Spec => [](NeverSpoiled /\ OnlyOwnersWrite)
<1> DEFINE Inv == TypeInv /\ WriterInv /\ OrderlyInv /\ ~spoiled
<1>1. Init => Inv
  BY InitTypes, InitWriter DEF Init, OrderlyInv
<1>2. Inv /\ [Next]_vars => Inv'
  BY StepTypes, StepWriter, StepOrderly, StepUnspoiled
<1>3. Inv => NeverSpoiled /\ OnlyOwnersWrite
  BY DEF OrderlyInv, WriterInv, Owning, NeverSpoiled, OnlyOwnersWrite
<1> QED
  BY <1>1, <1>2, <1>3, PTL DEF Spec
=============================================================================
