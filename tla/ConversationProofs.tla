------------------------- MODULE ConversationProofs -------------------------
(***************************************************************************)
(* The turns of a conversation follow one another and a generation has one  *)
(* outcome: proved for every number of processes, generations, turns and    *)
(* messages, for every text and chunk, and for a failure at any step.       *)
(***************************************************************************)
EXTENDS Conversation, SequenceTheorems, WellFoundedInduction, TLAPS

Places == {"new", "lock", "name", "clean", "start", "interface", "top", "read", "wait", "type",
           "submit", "await", "publish", "finish", "fail", "failed", "stop", "close", "ended"}
Kinds    == {"char", "enter", "bad"}
Outcomes == {"completed", "failed", "stopped", None}

\* What is on disk of a generation, with answers of R; a run, with a monitor of M; what
\* was typed for a turn, over a text of B.
Folders(R) == [there : BOOLEAN, lock : Process \cup {None}, done : Outcomes, stop : BOOLEAN,
               ready : BOOLEAN, failure : BOOLEAN,
               inbox : [1..Turns -> Message \cup {None}], answers : Seq(R)]
Runs(M) == [pc : Places, gen : Gen \cup {None}, turn : Nat, msg : Message \cup {None},
            index : Nat, finished : BOOLEAN, clock : Nat, monitor : M, error : BOOLEAN]
TurnsOf(B) == [msg : Message \cup {None}, keys : Seq(Kinds), baseline : B]

GensTyped  == \E R : gens \in [Gen -> Folders(R)]
ProcTyped  == \E M : proc \in [Process -> Runs(M)]
TypedTyped == \E B : typed \in [Gen -> [1..Turns -> TurnsOf(B)]]

\* A monitor, whatever texts it compares.
Monitors(B, S, T, P, N, U) ==
    [baseline : B, signature : S, text : T, progress : P, stable : N, status : U]
IsMonitor(m) == \E B, S, T, P, N, U : m \in Monitors(B, S, T, P, N, U)

Due(m) == IF m = None THEN <<>> ELSE Append(Keys[m], "enter")

\* Turn t was answered with a.
Answered(t, a) == t.keys = Due(t.msg) /\ t.msg # None /\ a # t.baseline

\* Where a run stands in its turn, by what was typed for it.
TurnAt(r, t) ==
    /\ IsPrefix(t.keys, Due(t.msg))
    /\ r.pc \in {"lock", "name", "clean", "start", "interface", "top", "wait", "read"}
          => t.keys = <<>>
    /\ r.pc = "type" => /\ r.msg \in Message /\ t.msg = r.msg
                        /\ r.index <= Len(Keys[r.msg]) /\ t.keys = SubSeq(Keys[r.msg], 1, r.index)
    /\ r.pc = "submit" => r.msg \in Message /\ t.msg = r.msg /\ t.keys = Keys[r.msg]
    /\ r.pc \in {"await", "publish"} => t.msg # None /\ t.keys = Due(t.msg)

\* A run r, the folder f of its generation and the turns t typed for it: earlier turns
\* were answered, later ones have not begun, and an outcome ends the run.
RunOk(r, f, t) ==
    /\ r.turn = Len(f.answers) + 1
    /\ \A k \in 1..Turns :
          /\ k < r.turn => Answered(t[k], f.answers[k])
          /\ k = r.turn => TurnAt(r, t[k])
          /\ k > r.turn => t[k].keys = <<>>
    /\ r.pc \in {"read", "type", "submit", "await", "publish"} => r.turn <= Turns
    /\ r.pc = "read" => r.msg \in Message
    /\ r.pc \in {"type", "submit", "await", "publish"} => IsMonitor(r.monitor)
    /\ r.pc = "publish" => r.monitor.text # r.monitor.baseline
    /\ f.done # None => r.pc = "ended" \/ (r.pc \in {"stop", "close"} /\ r.finished)

\* Nothing is on disk of a generation.
Untouched(g) ==
    /\ ~gens[g].there /\ gens[g].done = None /\ gens[g].answers = <<>>
    /\ \A k \in 1..Turns : typed[g][k].keys = <<>>

\* Every generation is of one process, or of none.
OwnInv ==
    /\ \A g \in Gen : Untouched(g) \/ \E p \in Process : proc[p].gen = g
    /\ \A p, q \in Process : proc[p].gen # None /\ proc[p].gen = proc[q].gen => p = q
    /\ \A p \in Process : /\ proc[p].gen # None => gens[proc[p].gen].there
                          /\ proc[p].pc = "new" => proc[p].gen = None
                          /\ proc[p].gen = None => proc[p].pc \in {"new", "ended"}
                          /\ proc[p].pc = "new" => proc[p].turn = 1

RunInv == \A p \in Process : proc[p].gen # None =>
              RunOk(proc[p], gens[proc[p].gen], typed[proc[p].gen])

Inv == GensTyped /\ ProcTyped /\ TypedTyped /\ OwnInv /\ RunInv
-----------------------------------------------------------------------------
(* Types.                                                                   *)

\* What p does it does in its own generation.
LEMMA OfGen ==
    ASSUME Inv, NEW p \in Process, proc[p].pc \notin {"new", "ended"} PROVE proc[p].gen \in Gen
<1>1. PICK M : proc \in [Process -> Runs(M)]
  BY DEF Inv, ProcTyped
<1>2. proc[p].gen \in Gen \cup {None} /\ proc[p].gen # None
  BY <1>1 DEF Inv, OwnInv, Runs
<1>. QED  BY <1>2

LEMMA RunIs ==
    ASSUME Inv, NEW p \in Process, proc[p].pc \notin {"new", "ended"}
    PROVE  RunOk(proc[p], gens[proc[p].gen], typed[proc[p].gen])
<1>1. proc[p].gen \in Gen
  BY OfGen
<1>. QED  BY <1>1, ConversationAssumption DEF Inv, RunInv

\* The turn that is on.
LEMMA RunAt ==
    ASSUME Inv, NEW p \in Process, proc[p].pc \in {"read", "type", "submit", "await", "publish"}
    PROVE  /\ proc[p].gen \in Gen /\ proc[p].turn \in 1..Turns
           /\ TurnAt(proc[p], typed[proc[p].gen][proc[p].turn])
<1>1. proc[p].gen \in Gen /\ RunOk(proc[p], gens[proc[p].gen], typed[proc[p].gen])
  BY OfGen, RunIs
<1>2. PICK R : gens \in [Gen -> Folders(R)]
  BY DEF Inv, GensTyped
<1>3. Len(gens[proc[p].gen].answers) \in Nat
  BY <1>1, <1>2 DEF Folders
<1>4. proc[p].turn \in 1..Turns
  BY <1>1, <1>3, ConversationAssumption DEF RunOk
<1>. QED  BY <1>1, <1>4 DEF RunOk

LEMMA Smallest ==
    ASSUME NEW S \in SUBSET Nat, S # {} PROVE \E m \in S : \A k \in S : m <= k
<1>1. PICK m \in S : \A k \in S : <<k, m>> \notin OpToRel(<, Nat)
  BY NatLessThanWellFounded, WFMin, Zenon
<1>2. \A k \in S : ~(k < m)
  BY <1>1 DEF OpToRel
<1>. QED  BY <1>2

LEMMA TypedInit == Init => GensTyped /\ ProcTyped /\ TypedTyped
<1>. SUFFICES ASSUME Init PROVE GensTyped /\ ProcTyped /\ TypedTyped
  OBVIOUS
<1>1. gens \in [Gen -> Folders({})]
  <2>1. Empty \in Folders({})
    BY ConversationAssumption DEF Empty, Folders, Outcomes
  <2>. QED  BY <2>1 DEF Init
<1>2. proc \in [Process -> Runs({None})]
  <2>1. NewRun \in Runs({None})
    BY DEF NewRun, Runs, Places
  <2>. QED  BY <2>1 DEF Init
<1>3. typed \in [Gen -> [1..Turns -> TurnsOf({None})]]
  BY DEF Init, TurnsOf
<1>. QED  BY <1>1, <1>2, <1>3, Zenon DEF GensTyped, ProcTyped, TypedTyped

LEMMA GensTypedNext == ASSUME Inv, [Next]_vars PROVE GensTyped'
<1>1. PICK R : gens \in [Gen -> Folders(R)]
  BY DEF Inv, GensTyped
<1>2. ASSUME gens' \in [Gen -> Folders(R)] PROVE GensTyped'
  BY <1>2 DEF GensTyped
<1>3. ASSUME UNCHANGED gens PROVE GensTyped'
  BY <1>1, <1>2, <1>3
<1>4. ASSUME NEW p \in Process, Acquires(p) PROVE GensTyped'
  <2>1. ASSUME NEW g \in Asks[p], AcquireMoves(p, g) PROVE GensTyped'
    <3>1. g \in Gen
      BY ConversationAssumption
    <3>2. [gens[g] EXCEPT !.there = TRUE] \in Folders(R)
      BY <1>1, <3>1 DEF Folders
    <3>3. UNCHANGED gens \/ gens' = [gens EXCEPT ![g] = [gens[g] EXCEPT !.there = TRUE]]
      BY <2>1 DEF AcquireMoves
    <3>. QED  BY <1>1, <1>2, <1>3, <3>1, <3>2, <3>3
  <2>2. CASE AcquireLocks(p)
    <3>1. proc[p].gen \in Gen
      BY <2>2, OfGen DEF AcquireLocks, At
    <3>2. [gens[proc[p].gen] EXCEPT !.lock = p] \in Folders(R)
      BY <1>1, <3>1 DEF Folders
    <3>3. \/ UNCHANGED gens
          \/ gens' = [gens EXCEPT ![proc[p].gen] = [gens[proc[p].gen] EXCEPT !.lock = p]]
      BY <2>2 DEF AcquireLocks, Files, Dir
    <3>. QED  BY <1>1, <1>2, <1>3, <3>1, <3>2, <3>3
  <2>3. CASE AcquireNames(p)
    BY <1>3, <2>3 DEF AcquireNames
  <2>4. CASE Cleans(p)
    <3>1. proc[p].gen \in Gen
      BY <2>4, OfGen DEF Cleans, At
    <3>. QED  BY <1>1, <1>2, <2>4, <3>1, ZenonT(60) DEF Cleans, Files, Dir, Folders
  <2>. QED  BY <1>4, <2>1, <2>2, <2>3, <2>4 DEF Acquires
<1>5. ASSUME NEW p \in Process, Converses(p) PROVE GensTyped'
  <2>1. CASE ComesUp(p)
    <3>1. proc[p].gen \in Gen
      BY <2>1, OfGen DEF ComesUp, At
    <3>. QED  BY <1>1, <1>2, <2>1, <3>1, ZenonT(60) DEF ComesUp, Files, Dir, Folders
  <2>2. CASE Publishes(p)
    <3>. DEFINE g == proc[p].gen  a == proc[p].monitor.text
    <3>1. g \in Gen /\ gens' = [gens EXCEPT ![g] = [gens[g] EXCEPT !.answers = Append(@, a)]]
      BY <2>2, OfGen DEF Publishes, At, Files, Dir
    <3>. HIDE DEF g, a
    <3>2. ASSUME NEW h \in Gen PROVE gens[h] \in Folders(R \cup {a})
      <4>1. gens[h].answers \in Seq(R \cup {a})
        BY <1>1 DEF Folders
      <4>. QED  BY <1>1, <4>1 DEF Folders
    <3>3. Append(gens[g].answers, a) \in Seq(R \cup {a})
      <4>1. gens[g].answers \in Seq(R \cup {a})
        BY <3>1, <3>2 DEF Folders
      <4>. QED  BY <4>1
    <3>4. gens' \in [Gen -> Folders(R \cup {a})]
      <4>1. [gens[g] EXCEPT !.answers = Append(@, a)] \in Folders(R \cup {a})
        BY <3>1, <3>2, <3>3 DEF Folders
      <4>2. gens \in [Gen -> Folders(R \cup {a})]
        BY <1>1, <3>2
      <4>. QED  BY <3>1, <4>1, <4>2
    <3>. QED  BY <3>4 DEF GensTyped
  <2>. QED  BY <1>3, <1>5, <2>1, <2>2
            DEF Converses, Starts, ReadsMessage, BeginsTyping, Types, Submits, Samples
<1>6. ASSUME NEW p \in Process, Ends(p) PROVE GensTyped'
  <2>1. CASE StopsBrowser(p)
    BY <1>3, <2>1 DEF StopsBrowser
  <2>2. CASE Completes(p) \/ ReportsFailure(p) \/ Fails(p) \/ Closes(p)
    <3>1. proc[p].gen \in Gen
      BY <2>2, OfGen DEF Completes, ReportsFailure, Fails, Closes, At
    <3>. DEFINE f == gens[proc[p].gen]
    <3>2. /\ \A o \in Outcomes : [f EXCEPT !.done = o] \in Folders(R)
          /\ [f EXCEPT !.failure = TRUE] \in Folders(R)
          /\ \A o \in Outcomes : [f EXCEPT !.lock = None, !.done = o] \in Folders(R)
      BY <1>1, <3>1, ZenonT(60) DEF Folders
    <3>3. f.done \in Outcomes
      BY <1>1, <3>1 DEF Folders
    <3>4. PICK o \in Outcomes :
            \/ gens' = [gens EXCEPT ![proc[p].gen] = [f EXCEPT !.done = o]]
            \/ gens' = [gens EXCEPT ![proc[p].gen] = [f EXCEPT !.failure = TRUE]]
            \/ gens' = [gens EXCEPT ![proc[p].gen] = [f EXCEPT !.lock = None, !.done = o]]
      <4>1. ASSUME Completes(p) \/ Fails(p)
            PROVE  \E o \in Outcomes : gens' = [gens EXCEPT ![proc[p].gen] = [f EXCEPT !.done = o]]
        BY <4>1 DEF Completes, Fails, Finishes, Files, Dir, Outcomes
      <4>2. ASSUME ReportsFailure(p)
            PROVE  gens' = [gens EXCEPT ![proc[p].gen] = [f EXCEPT !.failure = TRUE]]
        BY <4>2 DEF ReportsFailure, Files, Dir
      <4>3. ASSUME Closes(p)
            PROVE  \E o \in Outcomes :
                     gens' = [gens EXCEPT ![proc[p].gen] = [f EXCEPT !.lock = None, !.done = o]]
        <5>1. CASE NeedsOutcome(p)
          BY <4>3, <5>1 DEF Closes, Files, Dir, Outcomes
        <5>2. CASE ~NeedsOutcome(p)
          BY <3>3, <4>3, <5>2, Zenon DEF Closes, Files, Dir
        <5>. QED  BY <5>1, <5>2, Zenon
      <4>. QED  BY <2>2, <4>1, <4>2, <4>3 DEF Outcomes
    <3>. HIDE DEF f
    <3>. QED  BY <1>1, <1>2, <3>1, <3>2, <3>4, Zenon
  <2>. QED  BY <1>6, <2>1, <2>2 DEF Ends
<1>7. ASSUME NEW p \in Process, TypesPart(p) \/ Raises(p) \/ Dies(p) PROVE GensTyped'
  <2>1. CASE TypesPart(p)
    BY <1>3, <2>1 DEF TypesPart
  <2>2. CASE gens' # gens /\ (Raises(p) \/ Dies(p))
    <3>1. proc[p].gen \in Gen
      BY <2>2, OfGen DEF Raises, Dies
    <3>2. gens' = [gens EXCEPT ![proc[p].gen] =
                     [gens[proc[p].gen] EXCEPT !.lock = IF @ = p THEN None ELSE @]]
      BY <2>2 DEF Raises, Dies, Files, Dir
    <3>. QED  BY <1>1, <1>2, <3>1, <3>2, SMTT(60) DEF Folders
  <2>. QED  BY <1>3, <1>7, <2>1, <2>2
<1>8. ASSUME NEW k \in 1..Turns, NEW m \in Message, Sends(k, m) PROVE GensTyped'
  <2>1. current \in Gen
    BY <1>8, ConversationAssumption DEF Sends
  <2>2. [gens[current] EXCEPT !.inbox[k] = m] \in Folders(R)
    <3>1. [gens[current].inbox EXCEPT ![k] = m] \in [1..Turns -> Message \cup {None}]
      BY <1>1, <2>1 DEF Folders
    <3>. QED  BY <1>1, <2>1, <3>1 DEF Folders
  <2>. QED  BY <1>1, <1>2, <1>8, <2>1, <2>2 DEF Sends
<1>9. CASE Stops
  <2>1. gens' = [gens EXCEPT ![current] = [gens[current] EXCEPT !.stop = TRUE]]
    BY <1>9 DEF Stops
  <2>2. ASSUME current \in Gen PROVE [gens[current] EXCEPT !.stop = TRUE] \in Folders(R)
    BY <1>1, <2>2 DEF Folders
  <2>. QED  BY <1>1, <1>2, <2>1, <2>2
<1>. QED  BY <1>3, <1>4, <1>5, <1>6, <1>7, <1>8, <1>9 DEF Next, Works, PageChanges, vars

\* The first monitor, and what a sample makes of one.
LEMMA MonitorBegins == ASSUME NEW b PROVE IsMonitor(NewMonitor(b))
<1>1. NewMonitor(b) \in Monitors({b}, {None}, {Blank}, {None}, {0}, {"observing"})
  BY DEF NewMonitor, Monitors
<1>. QED  BY <1>1, Zenon DEF IsMonitor

\* A monitor that calls an answer complete has seen a text other than the baseline.
LEMMA MonitorSteps ==
    ASSUME NEW m, IsMonitor(m), NEW s, s.fresh
    PROVE  /\ IsMonitor(MonitorStep(m, s))
           /\ MonitorStep(m, s).status = "completed"
                 => MonitorStep(m, s).text # MonitorStep(m, s).baseline
<1>1. PICK B, S, T, P, N, U : m \in Monitors(B, S, T, P, N, U)
  BY DEF IsMonitor
<1>. DEFINE stable == IF SameIdleText(m, s) THEN m.stable + 1 ELSE 0
<1>2. \E progress, status :
        /\ status = "completed" => stable >= Required
        /\ MonitorStep(m, s) =
             [m EXCEPT !.signature = Signature(s), !.text = s.text, !.progress = progress,
                       !.stable = stable, !.status = status]
  <2>. DEFINE moved    == m.signature # None /\ m.signature # Signature(s)
              progress == IF s.fresh /\ (m.progress = None \/ moved) THEN s.at ELSE m.progress
              idle     == IF progress = None THEN 0 ELSE s.at - progress
              status   == IF stable >= Required THEN "completed"
                          ELSE IF s.fresh /\ s.active /\ idle >= Lease THEN "generation_stalled"
                          ELSE "observing"
  <2>1. MonitorStep(m, s) =
          [m EXCEPT !.signature = IF s.fresh THEN Signature(s) ELSE @,
                    !.text = IF s.fresh THEN s.text ELSE @, !.progress = progress,
                    !.stable = stable, !.status = status]
    BY Zenon DEF MonitorStep
  <2>2. status = "completed" => stable >= Required
    OBVIOUS
  <2>. HIDE DEF stable, progress, status, idle, moved
  <2>3. MonitorStep(m, s) =
          [m EXCEPT !.signature = Signature(s), !.text = s.text, !.progress = progress,
                    !.stable = stable, !.status = status]
    BY <2>1
  <2>. QED  BY <2>2, <2>3, Zenon
<1>3. stable >= Required => s.text # m.baseline
  BY GenerationAssumption DEF SameIdleText
<1>. HIDE DEF stable
<1>4. PICK progress, status :
        /\ status = "completed" => stable >= Required
        /\ MonitorStep(m, s) =
             [m EXCEPT !.signature = Signature(s), !.text = s.text, !.progress = progress,
                       !.stable = stable, !.status = status]
  BY <1>2, Zenon
<1>. DEFINE n == MonitorStep(m, s)
<1>. HIDE DEF n
<1>5. /\ n \in Monitors(B, S \cup {Signature(s)}, T \cup {s.text}, P \cup {progress},
                        N \cup {stable}, U \cup {status})
      /\ n.text = s.text /\ n.baseline = m.baseline /\ n.status = status
  <2>1. m \in Monitors(B, S \cup {Signature(s)}, T \cup {s.text}, P \cup {progress},
                       N \cup {stable}, U \cup {status})
    BY <1>1 DEF Monitors
  <2>. QED  BY <1>4, <2>1, ZenonT(60) DEF Monitors, n
<1>6. IsMonitor(n)
  BY <1>5 DEF IsMonitor
<1>. QED  BY <1>3, <1>4, <1>5, <1>6 DEF n

LEMMA RunTyped ==
    ASSUME NEW M, proc \in [Process -> Runs(M)], NEW p, NEW N, NEW r \in Runs(N),
           proc' = [proc EXCEPT ![p] = r]
    PROVE  ProcTyped'
<1>1. \A q \in Process : proc[q] \in Runs(M \cup N)
  BY DEF Runs
<1>2. r \in Runs(M \cup N)
  BY DEF Runs
<1>3. proc' \in [Process -> Runs(M \cup N)]
  BY <1>1, <1>2
<1>. QED  BY <1>3 DEF ProcTyped

LEMMA ConsumedIs ==
    ASSUME NEW text \in Seq(Kinds), NEW i \in Nat, i < Len(text)
    PROVE  /\ Consumed(text, i) \in i..Len(text)
           /\ Batch(text, i) = SubSeq(text, i + 1, Consumed(text, i))
<1>. DEFINE ends == {e \in i..Len(text) : e <= i + Chunk
                                            /\ \A j \in (i + 1)..e : text[j] = "char"}
<1>1. ChunkEnd(text, i) = CHOOSE e \in ends : \A f \in ends : f <= e
  BY DEF ChunkEnd
<1>2. \E e \in ends : \A f \in ends : f <= e
  <2>1. i \in ends
    BY ConversationAssumption
  <2>. DEFINE gaps == {Len(text) - e : e \in ends}
  <2>2. gaps # {} /\ gaps \in SUBSET Nat
    <3>1. \A e \in ends : Len(text) - e \in Nat
      OBVIOUS
    <3>. HIDE DEF ends
    <3>. QED  BY <2>1, <3>1
  <2>3. PICK d \in gaps : \A c \in gaps : d <= c
    BY <2>2, Smallest
  <2>4. PICK e \in ends : d = Len(text) - e
    BY <2>3
  <2>5. ASSUME NEW f \in ends PROVE f <= e
    <3>1. d <= Len(text) - f
      BY <2>3
    <3>2. e \in Nat /\ f \in Nat /\ Len(text) \in Nat
      OBVIOUS
    <3>. QED  BY <2>4, <3>1, <3>2
  <2>. QED  BY <2>5
<1>3. ChunkEnd(text, i) \in ends
  <2>. HIDE DEF ends
  <2>. QED  BY <1>1, <1>2
<1>4. ChunkEnd(text, i) \in i..Len(text)
  BY <1>3
<1>. HIDE DEF ends
<1>5. i + 1 \in i..Len(text)
  OBVIOUS
<1>. QED  BY <1>4, <1>5 DEF Consumed, Batch

LEMMA ProcTypedNext == ASSUME Inv, [Next]_vars PROVE ProcTyped'
<1>1. PICK M : proc \in [Process -> Runs(M)]
  BY DEF Inv, ProcTyped
<1>2. PICK R : gens \in [Gen -> Folders(R)]
  BY DEF Inv, GensTyped
<1>3. ASSUME UNCHANGED proc PROVE ProcTyped'
  BY <1>1, <1>3 DEF ProcTyped
<1>4. ASSUME NEW p \in Process, NEW place \in Places, Goes(p, place) PROVE ProcTyped'
  <2>1. [proc[p] EXCEPT !.pc = place] \in Runs(M)
    BY <1>1 DEF Runs
  <2>2. proc' = [proc EXCEPT ![p] = [proc[p] EXCEPT !.pc = place]]
    BY <1>4 DEF Goes
  <2>. QED  BY <1>1, <2>1, <2>2, RunTyped
<1>5. ASSUME NEW p \in Process, Acquires(p) PROVE ProcTyped'
  <2>1. ASSUME NEW g \in Asks[p], AcquireMoves(p, g) PROVE ProcTyped'
    <3>1. g \in Gen
      BY ConversationAssumption
    <3>2. [proc[p] EXCEPT !.pc = "lock", !.gen = g] \in Runs(M)
      BY <1>1, <3>1, ZenonT(60) DEF Runs, Places
    <3>3. CASE Vacant(g)
      <4>1. proc' = [proc EXCEPT ![p] = [proc[p] EXCEPT !.pc = "lock", !.gen = g]]
        BY <1>1, <2>1, <3>3 DEF AcquireMoves
      <4>. QED  BY <1>1, <3>2, <4>1, RunTyped
    <3>4. CASE ~Vacant(g)
      BY <1>4, <2>1, <3>4 DEF AcquireMoves, Places
    <3>. QED  BY <3>3, <3>4
  <2>. QED  BY <1>4, <1>5, <2>1 DEF Acquires, AcquireLocks, AcquireNames, Cleans, Places
<1>6. ASSUME NEW p \in Process, Converses(p) PROVE ProcTyped'
  <2>1. CASE Starts(p) \/ ComesUp(p)
    BY <1>4, <2>1 DEF Starts, ComesUp, Places
  <2>2. CASE ReadsMessage(p)
    <3>. DEFINE k == proc[p].turn  m == Dir(p).inbox[k]
    <3>1. CASE proc' = [proc EXCEPT ![p].pc = "read", ![p].msg = m] /\ ~(k > Turns)
      <4>1. proc[p].gen \in Gen
        BY <2>2, OfGen DEF ReadsMessage
      <4>2. k \in 1..Turns
        <5>1. proc[p].turn = Len(gens[proc[p].gen].answers) + 1
          BY <2>2, RunIs DEF ReadsMessage, RunOk
        <5>2. Len(gens[proc[p].gen].answers) \in Nat
          BY <1>2, <4>1 DEF Folders
        <5>. QED  BY <3>1, <5>1, <5>2, ConversationAssumption, SMTT(60)
      <4>3. m \in Message \cup {None}
        BY <1>2, <4>1, <4>2 DEF Dir, Folders
      <4>. HIDE DEF m
      <4>4. [proc[p] EXCEPT !.pc = "read", !.msg = m] \in Runs(M)
        BY <1>1, <4>3, ZenonT(60) DEF Runs, Places
      <4>5. proc' = [proc EXCEPT ![p] = [proc[p] EXCEPT !.pc = "read", !.msg = m]]
        BY <1>1, <3>1
      <4>. QED  BY <1>1, <4>4, <4>5, RunTyped
    <3>2. CASE Goes(p, "finish") \/ Goes(p, "wait")
      BY <1>4, <3>2 DEF Places
    <3>. QED  BY <2>2, <3>1, <3>2 DEF ReadsMessage
  <2>3. CASE BeginsTyping(p)
    <3>. DEFINE m == NewMonitor(Text)
    <3>1. CASE proc' = [proc EXCEPT ![p].pc = "type", ![p].index = 0, ![p].monitor = m]
      <4>. HIDE DEF m
      <4>1. [proc[p] EXCEPT !.pc = "type", !.index = 0, !.monitor = m] \in Runs(M \cup {m})
        <5>1. proc[p] \in Runs(M \cup {m})
          BY <1>1 DEF Runs
        <5>. QED  BY <5>1 DEF Runs, Places
      <4>2. proc' = [proc EXCEPT ![p] = [proc[p] EXCEPT !.pc = "type", !.index = 0, !.monitor = m]]
        BY <1>1, <3>1
      <4>. QED  BY <1>1, <4>1, <4>2, RunTyped
    <3>2. CASE Goes(p, "finish")
      BY <1>4, <3>2 DEF Places
    <3>. QED  BY <2>3, <3>1, <3>2 DEF BeginsTyping
  <2>4. CASE Types(p)
    <3>. DEFINE text == Keys[proc[p].msg]  i == proc[p].index
    <3>1. CASE proc' = [proc EXCEPT ![p].index = Consumed(text, i)] /\ i # Len(text)
      <4>1. proc[p].gen \in Gen /\ proc[p].pc = "type"
        BY <2>4, OfGen DEF Types, At
      <4>2. proc[p].msg \in Message /\ i \in Nat /\ i <= Len(text)
        BY <1>1, <4>1, RunAt DEF TurnAt, Runs
      <4>3. text \in Seq(Kinds) /\ i < Len(text)
        BY <3>1, <4>2, ConversationAssumption DEF Kinds
      <4>4. Consumed(text, i) \in Nat
        <5>. HIDE DEF text, i
        <5>1. Consumed(text, i) \in i..Len(text)
          BY <4>2, <4>3, ConsumedIs
        <5>. QED  BY <4>2, <4>3, <5>1
      <4>. DEFINE c == Consumed(text, i)
      <4>5. proc' = [proc EXCEPT ![p] = [proc[p] EXCEPT !.index = c]]
        BY <3>1
      <4>. HIDE DEF c
      <4>6. [proc[p] EXCEPT !.index = c] \in Runs(M)
        BY <1>1, <4>4 DEF Runs, c
      <4>. QED  BY <1>1, <4>5, <4>6, RunTyped
    <3>2. CASE Goes(p, "submit") \/ Goes(p, "fail")
      BY <1>4, <3>2 DEF Places
    <3>. QED  BY <2>4, <3>1, <3>2 DEF Types
  <2>5. CASE Submits(p)
    BY <1>4, <2>5 DEF Submits, Places
  <2>6. CASE Samples(p)
    <3>. DEFINE s == [text |-> Text, active |-> page.active, fresh |-> TRUE,
                      at |-> proc[p].clock + 1]
                m == MonitorStep(proc[p].monitor, s)
                place == CASE m.status = "completed" -> "publish"
                           [] m.status = "generation_stalled" -> "fail"
                           [] OTHER -> "await"
    <3>1. proc' = [proc EXCEPT ![p].clock = @ + 1, ![p].monitor = m, ![p].pc = place]
      BY <2>6 DEF Samples
    <3>2. place \in Places
      BY DEF Places
    <3>. HIDE DEF m, place
    <3>3. proc[p] \in Runs(M \cup {m})
      BY <1>1 DEF Runs
    <3>4. [proc[p] EXCEPT !.clock = @ + 1, !.monitor = m, !.pc = place] \in Runs(M \cup {m})
      <4>1. proc[p].clock + 1 \in Nat
        BY <1>1 DEF Runs
      <4>. QED  BY <3>2, <3>3, <4>1 DEF Runs
    <3>5. proc' = [proc EXCEPT ![p] =
                     [proc[p] EXCEPT !.clock = @ + 1, !.monitor = m, !.pc = place]]
      BY <1>1, <3>1
    <3>. QED  BY <1>1, <3>4, <3>5, RunTyped
  <2>7. CASE Publishes(p)
    <3>1. [NewRun EXCEPT !.pc = "top", !.gen = proc[p].gen, !.turn = proc[p].turn + 1]
             \in Runs({None})
      <4>1. NewRun \in Runs({None}) /\ proc[p].turn + 1 \in Nat
              /\ proc[p].gen \in Gen \cup {None}
        BY <1>1 DEF Runs, NewRun, Places
      <4>. QED  BY <4>1 DEF Runs, Places
    <3>2. proc' = [proc EXCEPT ![p] = [NewRun EXCEPT !.pc = "top", !.gen = proc[p].gen,
                                                     !.turn = proc[p].turn + 1]]
      BY <2>7 DEF Publishes
    <3>. QED  BY <1>1, <3>1, <3>2, RunTyped
  <2>. QED  BY <1>6, <2>1, <2>2, <2>3, <2>4, <2>5, <2>6, <2>7 DEF Converses
<1>7. ASSUME NEW p \in Process, Ends(p) PROVE ProcTyped'
  <2>1. ASSUME NEW o, Finishes(p, o) PROVE ProcTyped'
    <3>1. [proc[p] EXCEPT !.pc = "stop", !.finished = TRUE] \in Runs(M)
      BY <1>1, ZenonT(60) DEF Runs, Places
    <3>2. proc' = [proc EXCEPT ![p] = [proc[p] EXCEPT !.pc = "stop", !.finished = TRUE]]
      BY <1>1, <2>1 DEF Finishes
    <3>. QED  BY <1>1, <3>1, <3>2, RunTyped
  <2>2. CASE ReportsFailure(p) \/ StopsBrowser(p) \/ Closes(p)
    BY <1>4, <2>2 DEF ReportsFailure, StopsBrowser, Closes, Places
  <2>. QED  BY <1>7, <2>1, <2>2 DEF Ends, Completes, Fails
<1>8. ASSUME NEW p \in Process, TypesPart(p) \/ Raises(p) \/ Dies(p) PROVE ProcTyped'
  BY <1>4, <1>8 DEF TypesPart, Raises, Dies, Places
<1>9. ASSUME \/ \E k \in 1..Turns, m \in Message : Sends(k, m)
             \/ Stops \/ PageChanges \/ UNCHANGED vars
      PROVE  ProcTyped'
  BY <1>3, <1>9 DEF Sends, Stops, PageChanges, vars
<1>. QED  BY <1>5, <1>6, <1>7, <1>8, <1>9 DEF Next, Works

LEMMA TurnTyped ==
    ASSUME NEW B, typed \in [Gen -> [1..Turns -> TurnsOf(B)]], NEW g \in Gen, NEW k \in 1..Turns,
           NEW C, NEW t \in TurnsOf(C), typed' = [typed EXCEPT ![g] = [typed[g] EXCEPT ![k] = t]]
    PROVE  TypedTyped'
<1>1. \A h \in Gen, j \in 1..Turns : typed[h][j] \in TurnsOf(B \cup C)
  <2>1. \A x \in TurnsOf(B) : x \in TurnsOf(B \cup C)
    BY DEF TurnsOf
  <2>. QED  BY <2>1
<1>2. t \in TurnsOf(B \cup C)
  BY DEF TurnsOf
<1>3. typed \in [Gen -> [1..Turns -> TurnsOf(B \cup C)]]
  BY <1>1
<1>4. typed' \in [Gen -> [1..Turns -> TurnsOf(B \cup C)]]
  BY <1>2, <1>3
<1>. QED  BY <1>4 DEF TypedTyped

\* What is pressed next is part of the text.
LEMMA BatchTyped ==
    ASSUME NEW text \in Seq(Kinds), NEW i \in Nat, i < Len(text)
    PROVE  /\ Batch(text, i) \in Seq(Kinds)
           /\ \A n \in 0..Len(Batch(text, i)) : SubSeq(Batch(text, i), 1, n) \in Seq(Kinds)
<1>1. Consumed(text, i) \in i..Len(text) /\ Batch(text, i) = SubSeq(text, i + 1, Consumed(text, i))
  BY ConsumedIs
<1>2. Batch(text, i) \in Seq(Kinds)
  BY <1>1
<1>. QED  BY <1>2

LEMMA TypedTypedNext == ASSUME Inv, [Next]_vars PROVE TypedTyped'
<1>1. PICK B : typed \in [Gen -> [1..Turns -> TurnsOf(B)]]
  BY DEF Inv, TypedTyped
<1>2. PICK M : proc \in [Process -> Runs(M)]
  BY DEF Inv, ProcTyped
<1>3. ASSUME UNCHANGED typed PROVE TypedTyped'
  BY <1>1, <1>3 DEF TypedTyped
<1>4. ASSUME NEW p \in Process, proc[p].pc \in {"read", "type", "submit", "publish"}
      PROVE  /\ proc[p].gen \in Gen /\ proc[p].turn \in 1..Turns
             /\ typed[proc[p].gen][proc[p].turn] \in TurnsOf(B)
  BY <1>1, <1>4, RunAt
<1>5. ASSUME NEW p \in Process, NEW keys \in Seq(Kinds), proc[p].pc \in {"type", "submit"},
             Presses(p, keys)
      PROVE  TypedTyped'
  <2>. DEFINE g == proc[p].gen  k == proc[p].turn
  <2>1. typed' = [typed EXCEPT ![g] =
                    [typed[g] EXCEPT ![k] = [typed[g][k] EXCEPT !.keys = @ \o keys]]]
    BY <1>5, Zenon DEF Presses
  <2>2. g \in Gen /\ k \in 1..Turns /\ typed[g][k] \in TurnsOf(B)
    BY <1>4, <1>5
  <2>. HIDE DEF g, k
  <2>3. [typed[g][k] EXCEPT !.keys = @ \o keys] \in TurnsOf(B)
    <3>1. typed[g][k].keys \o keys \in Seq(Kinds)
      BY <2>2 DEF TurnsOf
    <3>. QED  BY <2>2, <3>1 DEF TurnsOf
  <2>. QED  BY <1>1, <2>1, <2>2, <2>3, TurnTyped, Zenon
<1>6. ASSUME NEW p \in Process, Types(p) \/ TypesPart(p) PROVE TypedTyped'
  <2>. DEFINE text == Keys[proc[p].msg]  i == proc[p].index
  <2>1. CASE \E keys :
               /\ Presses(p, keys) /\ i # Len(text) /\ At(p, "type")
               /\ \/ keys = Batch(text, i)
                  \/ \E n \in 0..Len(Batch(text, i)) : keys = SubSeq(Batch(text, i), 1, n)
    <3>1. proc[p].msg \in Message /\ i \in Nat /\ i <= Len(text)
      BY <1>2, <2>1, RunAt DEF At, TurnAt, Runs
    <3>2. text \in Seq(Kinds) /\ i < Len(text)
      BY <2>1, <3>1, ConversationAssumption DEF Kinds
    <3>3. proc[p].pc = "type"
      BY <2>1 DEF At
    <3>. HIDE DEF text, i
    <3>. QED  BY <1>5, <2>1, <3>2, <3>1, <3>3, BatchTyped
  <2>2. CASE UNCHANGED typed
    BY <1>3, <2>2
  <2>3. ASSUME Types(p)
        PROVE  \/ UNCHANGED typed
               \/ Presses(p, Batch(text, i)) /\ i # Len(text) /\ At(p, "type")
    BY <2>3 DEF Types
  <2>4. ASSUME TypesPart(p)
        PROVE  \E n \in 0..Len(Batch(text, i)) :
                  Presses(p, SubSeq(Batch(text, i), 1, n)) /\ i < Len(text) /\ At(p, "type")
    BY <2>4 DEF TypesPart
  <2>5. i < Len(text) /\ i \in Nat => i # Len(text)
    OBVIOUS
  <2>6. i \in Nat
    BY <1>2 DEF Runs
  <2>. HIDE DEF text, i
  <2>. QED  BY <1>6, <2>1, <2>2, <2>3, <2>4, <2>5, <2>6
<1>7. ASSUME NEW p \in Process, Submits(p) PROVE TypedTyped'
  <2>. DEFINE keys == <<"enter">>
  <2>1. keys \in Seq(Kinds)
    BY DEF Kinds
  <2>2. proc[p].pc = "submit" /\ Presses(p, keys)
    BY <1>7 DEF Submits, At
  <2>. HIDE DEF keys
  <2>. QED  BY <1>5, <2>1, <2>2
<1>8. ASSUME NEW p \in Process, BeginsTyping(p) PROVE TypedTyped'
  <2>. DEFINE g == proc[p].gen  k == proc[p].turn
  <2>1. CASE typed' = [typed EXCEPT ![g][k].msg = proc[p].msg]
    <3>1. g \in Gen /\ k \in 1..Turns /\ typed[g][k] \in TurnsOf(B)
      BY <1>4, <1>8 DEF BeginsTyping, At
    <3>2. proc[p].msg \in Message \cup {None}
      BY <1>2 DEF Runs
    <3>. HIDE DEF g, k
    <3>3. [typed[g][k] EXCEPT !.msg = proc[p].msg] \in TurnsOf(B)
      BY <3>1, <3>2 DEF TurnsOf
    <3>4. typed' = [typed EXCEPT ![g] =
                      [typed[g] EXCEPT ![k] = [typed[g][k] EXCEPT !.msg = proc[p].msg]]]
      BY <2>1
    <3>. QED  BY <1>1, <3>1, <3>3, <3>4, TurnTyped
  <2>. QED  BY <1>3, <1>8, <2>1 DEF BeginsTyping
<1>9. ASSUME NEW p \in Process, Publishes(p) PROVE TypedTyped'
  <2>. DEFINE g == proc[p].gen  k == proc[p].turn  b == proc[p].monitor.baseline
  <2>1. typed' = [typed EXCEPT ![g] = [typed[g] EXCEPT ![k] = [typed[g][k] EXCEPT !.baseline = b]]]
    BY <1>9 DEF Publishes
  <2>2. g \in Gen /\ k \in 1..Turns /\ typed[g][k] \in TurnsOf(B)
    BY <1>4, <1>9 DEF Publishes, At
  <2>. HIDE DEF g, k, b
  <2>3. [typed[g][k] EXCEPT !.baseline = b] \in TurnsOf(B \cup {b})
    BY <2>2 DEF TurnsOf
  <2>. QED  BY <1>1, <2>1, <2>2, <2>3, TurnTyped
<1>10. ASSUME NEW p \in Process,
              Acquires(p) \/ Ends(p) \/ Raises(p) \/ Dies(p)
                \/ Starts(p) \/ ComesUp(p) \/ ReadsMessage(p) \/ Samples(p)
       PROVE  TypedTyped'
  BY <1>3, <1>10 DEF Acquires, AcquireMoves, AcquireLocks, AcquireNames, Cleans, Ends, Completes,
     ReportsFailure, Fails, Finishes, StopsBrowser, Closes, Raises, Dies, Starts, ComesUp,
     ReadsMessage, Samples
<1>11. ASSUME \/ \E k \in 1..Turns, m \in Message : Sends(k, m)
              \/ Stops \/ PageChanges \/ UNCHANGED vars
       PROVE  TypedTyped'
  BY <1>3, <1>11 DEF Sends, Stops, PageChanges, vars
<1>. QED  BY <1>6, <1>7, <1>8, <1>9, <1>10, <1>11 DEF Next, Works, Converses
-----------------------------------------------------------------------------
(* What a step changes.                                                     *)

\* A step of p in its own generation, which leaves everything else as it is.
Touches(p) ==
    /\ proc'[p].gen = proc[p].gen /\ proc'[p].pc # "new"
    /\ \A q \in Process : q # p => proc'[q] = proc[q]
    /\ \A h \in Gen : h # proc[p].gen => gens'[h] = gens[h] /\ typed'[h] = typed[h]
    /\ gens'[proc[p].gen].there

LEMMA Frame ==
    ASSUME ProcTyped, OwnInv, RunInv, NEW p \in Process, proc[p].gen \in Gen, Touches(p),
           RunOk(proc'[p], gens'[proc[p].gen], typed'[proc[p].gen])
    PROVE  OwnInv' /\ RunInv'
<1>. DEFINE g == proc[p].gen
<1>0. \A q \in Process : proc[q].gen # None => proc[q].gen \in Gen
  BY DEF ProcTyped, Runs
<1>1. /\ g \in Gen /\ g # None
      /\ \A q \in Process : proc'[q].gen = proc[q].gen
      /\ \A q \in Process : q # p => proc'[q] = proc[q]
      /\ \A q \in Process : q # p /\ proc[q].gen # None => proc[q].gen # g
  BY ConversationAssumption DEF Touches, OwnInv
<1>2. ASSUME NEW h \in Gen PROVE Untouched(h)' \/ \E q \in Process : proc'[q].gen = h
  <2>1. CASE h = g
    BY <1>1, <2>1
  <2>2. CASE h # g
    <3>1. gens'[h] = gens[h] /\ typed'[h] = typed[h]
      BY <2>2 DEF Touches
    <3>. QED  BY <1>1, <3>1 DEF OwnInv, Untouched
  <2>. QED  BY <2>1, <2>2
<1>3. ASSUME NEW q \in Process
      PROVE  /\ proc'[q].gen # None => gens'[proc'[q].gen].there
             /\ proc'[q].pc = "new" => proc'[q].gen = None
             /\ proc'[q].gen = None => proc'[q].pc \in {"new", "ended"}
             /\ proc'[q].pc = "new" => proc'[q].turn = 1
  <2>1. CASE q = p
    BY <1>1, <2>1 DEF Touches
  <2>2. CASE q # p
    <3>1. proc[q].gen \in Gen => gens'[proc[q].gen] = gens[proc[q].gen]
      BY <1>1, <2>2, ConversationAssumption DEF Touches
    <3>2. proc[q].gen # None => proc[q].gen \in Gen
      BY <1>0
    <3>. QED  BY <1>1, <2>2, <3>1, <3>2 DEF OwnInv
  <2>. QED  BY <2>1, <2>2
<1>4. OwnInv'
  BY <1>1, <1>2, <1>3 DEF OwnInv
<1>5. ASSUME NEW q \in Process, proc'[q].gen # None
      PROVE  RunOk(proc'[q], gens'[proc'[q].gen], typed'[proc'[q].gen])
  <2>1. CASE q = p
    BY <1>1, <2>1
  <2>2. CASE q # p
    <3>1. proc[q].gen # None /\ proc[q].gen # g
      BY <1>1, <1>5, <2>2
    <3>2. gens'[proc[q].gen] = gens[proc[q].gen] /\ typed'[proc[q].gen] = typed[proc[q].gen]
      BY <1>0, <3>1 DEF Touches
    <3>. QED  BY <1>1, <2>2, <3>1, <3>2 DEF RunInv
  <2>. QED  BY <2>1, <2>2
<1>. QED  BY <1>4, <1>5 DEF RunInv

LEMMA GoesIs ==
    ASSUME ProcTyped, NEW p \in Process, NEW place, Goes(p, place)
    PROVE  /\ proc'[p].pc = place /\ proc'[p].gen = proc[p].gen /\ proc'[p].turn = proc[p].turn
           /\ proc'[p].msg = proc[p].msg /\ proc'[p].index = proc[p].index
           /\ proc'[p].finished = proc[p].finished /\ proc'[p].monitor = proc[p].monitor
           /\ \A q \in Process : q # p => proc'[q] = proc[q]
<1>1. PICK M : proc \in [Process -> Runs(M)]
  BY DEF ProcTyped
<1>. QED  BY <1>1 DEF Goes, Runs

LEMMA FilesIs ==
    ASSUME GensTyped, NEW p \in Process, proc[p].gen \in Gen, NEW f, Files(p, f)
    PROVE  /\ gens'[proc[p].gen] = f
           /\ \A h \in Gen : h # proc[p].gen => gens'[h] = gens[h]
<1>1. PICK R : gens \in [Gen -> Folders(R)]
  BY DEF GensTyped
<1>. QED  BY <1>1 DEF Files

\* A run that goes on in its turn, or leaves it.
LEMMA RunMoves ==
    ASSUME NEW r, NEW f, NEW t, RunOk(r, f, t), NEW r2, NEW f2,
           r2.turn = r.turn, f2.answers = f.answers, f2.done # None => f.done # None,
           \A k \in 1..Turns : k = r.turn => TurnAt(r2, t[k]),
           r2.pc \in {"read", "type", "submit", "await", "publish"} => r.turn <= Turns,
           r2.pc = "read" => r2.msg \in Message,
           r2.pc \in {"type", "submit", "await", "publish"} => IsMonitor(r2.monitor),
           r2.pc = "publish" => r2.monitor.text # r2.monitor.baseline,
           r.pc \notin {"stop", "close", "ended"}
    PROVE  RunOk(r2, f2, t)
BY DEF RunOk

LEMMA RunLeaves ==
    ASSUME NEW r, NEW f, NEW t, RunOk(r, f, t), NEW r2, NEW f2,
           r2.turn = r.turn, f2.answers = f.answers,
           r2.pc \in {"finish", "fail", "failed", "stop", "close", "ended"},
           f2.done # None => r2.pc = "ended" \/ (r2.pc \in {"stop", "close"} /\ r2.finished)
    PROVE  RunOk(r2, f2, t)
<1>1. \A k \in 1..Turns : k = r.turn => TurnAt(r2, t[k])
  BY DEF RunOk, TurnAt
<1>. QED  BY <1>1 DEF RunOk

\* What is pressed for a turn, or said of it, says nothing of the other turns.
LEMMA RunTurns ==
    ASSUME NEW r, NEW f, NEW t, RunOk(r, f, t), NEW r2, NEW t2,
           r2.turn = r.turn, r.turn \in 1..Turns,
           \A k \in 1..Turns : k # r.turn => t2[k] = t[k],
           TurnAt(r2, t2[r.turn]),
           r.pc \in {"read", "type", "submit"},
           r2.pc \in {"type", "submit", "await", "fail"},
           r2.pc # "fail" => IsMonitor(r2.monitor)
    PROVE  RunOk(r2, f, t2)
<1>1. /\ r2.turn = Len(f.answers) + 1 /\ f.done = None /\ r.turn <= Turns
      /\ \A k \in 1..Turns : /\ k < r.turn => Answered(t[k], f.answers[k])
                             /\ k > r.turn => t[k].keys = <<>>
  BY DEF RunOk
<1>2. ASSUME NEW k \in 1..Turns
      PROVE  /\ k < r2.turn => Answered(t2[k], f.answers[k])
             /\ k = r2.turn => TurnAt(r2, t2[k])
             /\ k > r2.turn => t2[k].keys = <<>>
  BY <1>1
<1>. QED  BY <1>1, <1>2 DEF RunOk

\* What p presses goes to its turn.
LEMMA PressesIs ==
    ASSUME TypedTyped, NEW p, proc[p].gen \in Gen, proc[p].turn \in 1..Turns,
           NEW keys, Presses(p, keys)
    PROVE  LET g == proc[p].gen  k == proc[p].turn
           IN  /\ typed'[g][k].keys = typed[g][k].keys \o keys
               /\ typed'[g][k].msg = typed[g][k].msg
               /\ \A j \in 1..Turns : j # k => typed'[g][j] = typed[g][j]
               /\ \A h \in Gen : h # g => typed'[h] = typed[h]
<1>1. PICK B : typed \in [Gen -> [1..Turns -> TurnsOf(B)]]
  BY DEF TypedTyped
<1>. DEFINE g == proc[p].gen  k == proc[p].turn  t == [typed[g][k] EXCEPT !.keys = @ \o keys]
<1>2. typed' = [typed EXCEPT ![g] = [typed[g] EXCEPT ![k] = t]]
  BY Zenon DEF Presses
<1>3. t.keys = typed[g][k].keys \o keys /\ t.msg = typed[g][k].msg
  <2>1. typed[g][k] \in TurnsOf(B)
    BY <1>1
  <2>. HIDE DEF g, k
  <2>. QED  BY <2>1 DEF TurnsOf
<1>. HIDE DEF t
<1>4. typed'[g] = [typed[g] EXCEPT ![k] = t] /\ \A h \in Gen : h # g => typed'[h] = typed[h]
  BY <1>1, <1>2
<1>5. typed'[g][k] = t /\ \A j \in 1..Turns : j # k => typed'[g][j] = typed[g][j]
  BY <1>1, <1>4, ZenonT(60)
<1>. QED  BY <1>3, <1>4, <1>5, Zenon

\* What is pressed for a turn that types continues the text.
LEMMA TextGoesOn ==
    ASSUME NEW text \in Seq(Kinds), NEW i \in Nat, i < Len(text)
    PROVE  /\ SubSeq(text, 1, i) \o Batch(text, i) = SubSeq(text, 1, Consumed(text, i))
           /\ \A n \in 0..Len(Batch(text, i)) :
                 \E e \in i..Len(text) :
                    SubSeq(text, 1, i) \o SubSeq(Batch(text, i), 1, n) = SubSeq(text, 1, e)
<1>. DEFINE c == Consumed(text, i)
<1>1. c \in i..Len(text) /\ Batch(text, i) = SubSeq(text, i + 1, c)
  BY ConsumedIs
<1>. HIDE DEF c
<1>2. ASSUME NEW e \in i..Len(text)
      PROVE  SubSeq(text, 1, i) \o SubSeq(text, i + 1, e) = SubSeq(text, 1, e)
  BY <1>2
<1>3. ASSUME NEW n \in 0..Len(Batch(text, i))
      PROVE  i + n \in i..Len(text) /\ SubSeq(Batch(text, i), 1, n) = SubSeq(text, i + 1, i + n)
  <2>1. Len(Batch(text, i)) = c - i
    BY <1>1
  <2>2. n \in Nat /\ n <= c - i
    BY <1>1, <2>1
  <2>. QED  BY <1>1, <2>2
<1>. QED  BY <1>1, <1>2, <1>3 DEF c

\* A part of a text is a part of what is due for it.
LEMMA PartIsDue ==
    ASSUME NEW m \in Message, NEW e \in 0..Len(Keys[m])
    PROVE  IsPrefix(SubSeq(Keys[m], 1, e), Due(m))
<1>. DEFINE text == Keys[m]
<1>1. text \in Seq(Kinds) /\ m # None
  BY ConversationAssumption DEF Kinds
<1>. HIDE DEF text
<1>2. Due(m) = Append(text, "enter")
  BY <1>1 DEF Due, text
<1>3. /\ Len(SubSeq(text, 1, e)) = e /\ e <= Len(Append(text, "enter"))
      /\ SubSeq(SubSeq(text, 1, e), 1, e) = SubSeq(Append(text, "enter"), 1, e)
  BY <1>1 DEF text
<1>. QED  BY <1>2, <1>3 DEF IsPrefix, text
LEMMA DueIsPrefix == ASSUME NEW m \in Message \cup {None} PROVE IsPrefix(Due(m), Due(m))
<1>1. Due(m) \in Seq(Kinds)
  BY ConversationAssumption DEF Due, Kinds
<1>. QED  BY <1>1 DEF IsPrefix

LEMMA EmptyIsDue == ASSUME NEW m \in Message \cup {None} PROVE IsPrefix(<<>>, Due(m))
<1>1. CASE m = None
  BY <1>1 DEF Due, IsPrefix
<1>2. CASE m \in Message
  <2>1. Keys[m] \in Seq(Kinds) /\ 0 \in 0..Len(Keys[m]) /\ SubSeq(Keys[m], 1, 0) = <<>>
    BY <1>2, ConversationAssumption DEF Kinds
  <2>. QED  BY <1>2, <2>1, PartIsDue
<1>. QED  BY <1>1, <1>2
-----------------------------------------------------------------------------
(* The steps of a run.                                                      *)

\* A step of a run that has begun is its own, and leaves it where it should be.
Stays(p) == /\ Touches(p)
            /\ RunOk(proc'[p], gens'[proc[p].gen], typed'[proc[p].gen])

\* The step changes no folder but that of p, and of that neither answers nor outcome.
Beside(p) ==
    \A h \in Gen : /\ h # proc[p].gen => gens'[h] = gens[h]
                   /\ gens'[h].answers = gens[h].answers /\ gens'[h].there = gens[h].there
                   /\ gens'[h].done = gens[h].done

\* p goes to a place where its turn is over, and may touch its folder but for what it says.
LEMMA Leaves ==
    ASSUME Inv, NEW p \in Process, proc[p].pc \notin {"new", "ended", "stop", "close"},
           NEW place \in {"finish", "fail", "failed", "stop", "ended"}, Goes(p, place),
           UNCHANGED typed, Beside(p)
    PROVE  Stays(p)
<1>1. proc[p].gen \in Gen /\ RunOk(proc[p], gens[proc[p].gen], typed[proc[p].gen])
  BY OfGen, RunIs
<1>2. /\ proc'[p].pc = place /\ proc'[p].gen = proc[p].gen /\ proc'[p].turn = proc[p].turn
      /\ \A q \in Process : q # p => proc'[q] = proc[q]
  BY GoesIs DEF Inv
<1>3. gens[proc[p].gen].done = None /\ gens[proc[p].gen].there
  BY <1>1, ConversationAssumption DEF RunOk, Inv, OwnInv
<1>4. Touches(p)
  BY <1>1, <1>2, <1>3 DEF Touches, Beside
<1>5. RunOk(proc'[p], gens'[proc[p].gen], typed[proc[p].gen])
  BY <1>1, <1>2, <1>3, RunLeaves DEF Beside
<1>. QED  BY <1>4, <1>5 DEF Stays

LEMMA SameFolders == ASSUME UNCHANGED gens, NEW p PROVE Beside(p)
BY DEF Beside

LEMMA NewFolder ==
    ASSUME GensTyped, NEW p \in Process, proc[p].gen \in Gen, NEW f, Files(p, f),
           f.answers = Dir(p).answers, f.there = Dir(p).there, f.done = Dir(p).done
    PROVE  Beside(p)
BY FilesIs DEF Dir, Beside

\* p goes on before it has a message.
LEMMA GoesOn ==
    ASSUME Inv, NEW p \in Process,
           proc[p].pc \in {"lock", "name", "clean", "start", "interface", "top", "wait"},
           NEW place \in {"name", "clean", "start", "interface", "top", "wait"}, Goes(p, place),
           UNCHANGED typed, Beside(p)
    PROVE  Stays(p)
<1>1. proc[p].gen \in Gen /\ RunOk(proc[p], gens[proc[p].gen], typed[proc[p].gen])
  BY OfGen, RunIs
<1>2. /\ proc'[p].pc = place /\ proc'[p].gen = proc[p].gen /\ proc'[p].turn = proc[p].turn
      /\ \A q \in Process : q # p => proc'[q] = proc[q]
  BY GoesIs DEF Inv
<1>3. gens[proc[p].gen].there
  BY <1>1, ConversationAssumption DEF Inv, OwnInv
<1>4. Touches(p)
  BY <1>1, <1>2, <1>3 DEF Touches, Beside
<1>5. \A k \in 1..Turns : k = proc[p].turn => TurnAt(proc'[p], typed[proc[p].gen][k])
  BY <1>1, <1>2, Zenon DEF RunOk, TurnAt
<1>6. RunOk(proc'[p], gens'[proc[p].gen], typed[proc[p].gen])
  BY <1>1, <1>2, <1>5, RunMoves DEF Beside
<1>. QED  BY <1>4, <1>6 DEF Stays

LEMMA ReadsStays == ASSUME Inv, NEW p \in Process, ReadsMessage(p) PROVE Stays(p)
<1>. DEFINE k == proc[p].turn  m == Dir(p).inbox[k]
<1>1. proc[p].pc \in {"top", "wait"} /\ UNCHANGED <<gens, typed>> /\ Beside(p)
  BY SameFolders DEF ReadsMessage
<1>2. CASE Goes(p, "finish")
  BY <1>1, <1>2, Leaves
<1>3. CASE Goes(p, "wait")
  BY <1>1, <1>3, GoesOn
<1>4. CASE /\ ~(k > Turns) /\ m # None
           /\ proc' = [proc EXCEPT ![p].pc = "read", ![p].msg = m]
  <2>1. PICK M : proc \in [Process -> Runs(M)]
    BY DEF Inv, ProcTyped
  <2>2. PICK R : gens \in [Gen -> Folders(R)]
    BY DEF Inv, GensTyped
  <2>3. proc[p].gen \in Gen /\ RunOk(proc[p], gens[proc[p].gen], typed[proc[p].gen])
    BY <1>1, OfGen, RunIs
  <2>4. k \in 1..Turns
    <3>1. k = Len(gens[proc[p].gen].answers) + 1
      BY <2>3 DEF RunOk
    <3>2. Len(gens[proc[p].gen].answers) \in Nat
      BY <2>2, <2>3 DEF Folders
    <3>. QED  BY <1>4, <3>1, <3>2, ConversationAssumption, SMTT(60)
  <2>5. m \in Message
    <3>1. m \in Message \cup {None}
      BY <2>2, <2>3, <2>4 DEF Dir, Folders
    <3>. QED  BY <1>4, <3>1
  <2>. HIDE DEF m
  <2>6. /\ proc'[p].pc = "read" /\ proc'[p].msg = m /\ proc'[p].gen = proc[p].gen
        /\ proc'[p].turn = proc[p].turn /\ \A q \in Process : q # p => proc'[q] = proc[q]
    BY <1>4, <2>1 DEF Runs
  <2>7. Touches(p)
    BY <1>1, <2>3, <2>6, ConversationAssumption DEF Touches, Inv, OwnInv
  <2>8. \A j \in 1..Turns : j = proc[p].turn => TurnAt(proc'[p], typed[proc[p].gen][j])
    BY <1>1, <2>3, <2>6 DEF RunOk, TurnAt
  <2>9. RunOk(proc'[p], gens[proc[p].gen], typed[proc[p].gen])
    <3>1. k <= Turns
      BY <2>4, ConversationAssumption
    <3>. QED  BY <1>1, <2>3, <2>5, <2>6, <2>8, <3>1, RunMoves
  <2>. QED  BY <1>1, <2>7, <2>9 DEF Stays
<1>. QED  BY <1>2, <1>3, <1>4 DEF ReadsMessage

LEMMA BeginsStays == ASSUME Inv, NEW p \in Process, BeginsTyping(p) PROVE Stays(p)
<1>1. proc[p].pc = "read" /\ UNCHANGED gens /\ Beside(p)
  BY SameFolders DEF BeginsTyping, At
<1>2. CASE Goes(p, "finish") /\ UNCHANGED typed
  BY <1>1, <1>2, Leaves
<1>3. CASE /\ proc' = [proc EXCEPT ![p].pc = "type", ![p].index = 0,
                                  ![p].monitor = NewMonitor(Text)]
           /\ typed' = [typed EXCEPT ![proc[p].gen][proc[p].turn].msg = proc[p].msg]
  <2>. DEFINE g == proc[p].gen  k == proc[p].turn  b == NewMonitor(Text)
  <2>1. /\ g \in Gen /\ k \in 1..Turns /\ RunOk(proc[p], gens[g], typed[g])
        /\ TurnAt(proc[p], typed[g][k])
    BY <1>1, RunAt, RunIs
  <2>2. PICK M : proc \in [Process -> Runs(M)]
    BY DEF Inv, ProcTyped
  <2>3. PICK B : typed \in [Gen -> [1..Turns -> TurnsOf(B)]]
    BY DEF Inv, TypedTyped
  <2>4. proc[p].msg \in Message /\ typed[g][k].keys = <<>>
    BY <1>1, <2>1, Zenon DEF RunOk, TurnAt
  <2>5. IsMonitor(b)
    BY MonitorBegins
  <2>. HIDE DEF b
  <2>6. /\ proc'[p].pc = "type" /\ proc'[p].msg = proc[p].msg /\ proc'[p].gen = g
        /\ proc'[p].turn = k /\ proc'[p].index = 0 /\ proc'[p].monitor = b
        /\ \A q \in Process : q # p => proc'[q] = proc[q]
    BY <1>3, <2>2 DEF Runs, b
  <2>7. /\ typed'[g][k].msg = proc[p].msg /\ typed'[g][k].keys = typed[g][k].keys
        /\ \A j \in 1..Turns : j # k => typed'[g][j] = typed[g][j]
        /\ \A h \in Gen : h # g => typed'[h] = typed[h]
    <3>. DEFINE t == [typed[g][k] EXCEPT !.msg = proc[p].msg]
    <3>1. typed' = [typed EXCEPT ![g] = [typed[g] EXCEPT ![k] = t]]
      BY <1>3
    <3>2. t.msg = proc[p].msg /\ t.keys = typed[g][k].keys
      <4>1. typed[g][k] \in TurnsOf(B)
        BY <2>1, <2>3
      <4>. HIDE DEF g, k
      <4>. QED  BY <4>1 DEF TurnsOf
    <3>. HIDE DEF t
    <3>3. typed'[g] = [typed[g] EXCEPT ![k] = t] /\ \A h \in Gen : h # g => typed'[h] = typed[h]
      BY <2>1, <2>3, <3>1
    <3>4. typed'[g][k] = t /\ \A j \in 1..Turns : j # k => typed'[g][j] = typed[g][j]
      BY <2>1, <2>3, <3>3, ZenonT(60)
    <3>. QED  BY <3>2, <3>3, <3>4
  <2>8. Touches(p)
    BY <1>1, <2>1, <2>6, <2>7, ConversationAssumption DEF Touches, Inv, OwnInv
  <2>9. TurnAt(proc'[p], typed'[g][k])
    <3>1. SubSeq(Keys[proc[p].msg], 1, 0) = <<>> /\ 0 <= Len(Keys[proc[p].msg])
      BY <2>4, ConversationAssumption
    <3>2. IsPrefix(<<>>, Due(proc[p].msg))
      <4>1. 0 \in 0..Len(Keys[proc[p].msg])
        BY <2>4, ConversationAssumption
      <4>. QED  BY <2>4, <3>1, <4>1, PartIsDue
    <3>. QED  BY <2>4, <2>6, <2>7, <3>1, <3>2 DEF TurnAt
  <2>10. RunOk(proc'[p], gens[g], typed'[g])
    <3>1. /\ RunOk(proc[p], gens[g], typed[g]) /\ proc'[p].turn = proc[p].turn
          /\ proc[p].turn \in 1..Turns /\ proc[p].pc = "read" /\ proc'[p].pc = "type"
          /\ \A j \in 1..Turns : j # proc[p].turn => typed'[g][j] = typed[g][j]
          /\ TurnAt(proc'[p], typed'[g][proc[p].turn]) /\ IsMonitor(proc'[p].monitor)
      BY <1>1, <2>1, <2>5, <2>6, <2>7, <2>9, Zenon
    <3>. QED  BY <3>1, RunTurns
  <2>. QED  BY <1>1, <2>8, <2>10 DEF Stays
<1>. QED  BY <1>2, <1>3 DEF BeginsTyping

\* Pressing keys, p touches its own turn alone.
LEMMA PressesTouches ==
    ASSUME Inv, NEW p \in Process, proc[p].pc \in {"type", "submit"}, UNCHANGED gens,
           NEW keys, Presses(p, keys), proc'[p].gen = proc[p].gen, proc'[p].pc # "new",
           \A q \in Process : q # p => proc'[q] = proc[q]
    PROVE  LET g == proc[p].gen  k == proc[p].turn
           IN  /\ Touches(p) /\ g \in Gen /\ k \in 1..Turns
               /\ RunOk(proc[p], gens[g], typed[g]) /\ TurnAt(proc[p], typed[g][k])
               /\ IsMonitor(proc[p].monitor)
               /\ typed'[g][k].keys = typed[g][k].keys \o keys
               /\ typed'[g][k].msg = typed[g][k].msg
               /\ \A j \in 1..Turns : j # k => typed'[g][j] = typed[g][j]
<1>. DEFINE g == proc[p].gen  k == proc[p].turn
<1>1. /\ g \in Gen /\ k \in 1..Turns /\ RunOk(proc[p], gens[g], typed[g])
      /\ TurnAt(proc[p], typed[g][k])
  BY RunAt, RunIs
<1>2. /\ typed'[g][k].keys = typed[g][k].keys \o keys /\ typed'[g][k].msg = typed[g][k].msg
      /\ \A j \in 1..Turns : j # k => typed'[g][j] = typed[g][j]
      /\ \A h \in Gen : h # g => typed'[h] = typed[h]
  BY <1>1, PressesIs, ZenonT(60) DEF Inv
<1>3. gens[g].there
  BY <1>1, ConversationAssumption DEF Inv, OwnInv
<1>4. Touches(p)
  BY <1>1, <1>2, <1>3, Zenon DEF Touches
<1>5. IsMonitor(proc[p].monitor)
  BY <1>1 DEF RunOk
<1>. QED  BY <1>1, <1>2, <1>4, <1>5, Zenon

LEMMA TypesStays == ASSUME Inv, NEW p \in Process, Types(p) \/ TypesPart(p) PROVE Stays(p)
<1>. DEFINE g == proc[p].gen  k == proc[p].turn  m == proc[p].msg  text == Keys[m]
            i == proc[p].index
<1>1. PICK M : proc \in [Process -> Runs(M)]
  BY DEF Inv, ProcTyped
<1>2. proc[p].pc = "type" /\ UNCHANGED gens /\ Beside(p)
  BY SameFolders DEF Types, TypesPart, At
<1>3. /\ g \in Gen /\ k \in 1..Turns /\ m \in Message /\ typed[g][k].msg = m
      /\ i \in Nat /\ i <= Len(text) /\ typed[g][k].keys = SubSeq(text, 1, i)
      /\ RunOk(proc[p], gens[g], typed[g])
  BY <1>1, <1>2, RunAt, RunIs DEF TurnAt, Runs
<1>4. text \in Seq(Kinds)
  BY <1>3, ConversationAssumption DEF Kinds
<1>5. CASE Goes(p, "submit") /\ i = Len(text) /\ UNCHANGED typed
  <2>1. /\ proc'[p].pc = "submit" /\ proc'[p].gen = g /\ proc'[p].turn = k /\ proc'[p].msg = m
        /\ proc'[p].monitor = proc[p].monitor /\ \A q \in Process : q # p => proc'[q] = proc[q]
    BY <1>5, GoesIs DEF Inv
  <2>2. Touches(p)
    BY <1>2, <1>3, <1>5, <2>1, ConversationAssumption DEF Touches, Inv, OwnInv
  <2>3. SubSeq(text, 1, i) = text
    BY <1>4, <1>5
  <2>4. TurnAt(proc'[p], typed[g][k])
    BY <1>2, <1>3, <2>1, <2>3, RunAt, Zenon DEF TurnAt
  <2>5. RunOk(proc'[p], gens[g], typed[g])
    <3>1. k <= Turns /\ IsMonitor(proc[p].monitor)
      BY <1>2, <1>3, Zenon DEF RunOk
    <3>. QED  BY <1>2, <1>3, <2>1, <2>4, <3>1, RunMoves
  <2>. QED  BY <1>2, <1>5, <2>2, <2>5 DEF Stays
<1>6. CASE Goes(p, "fail") /\ UNCHANGED typed
  BY <1>2, <1>6, Leaves
<1>7. CASE /\ Presses(p, Batch(text, i)) /\ i # Len(text)
           /\ proc' = [proc EXCEPT ![p].index = Consumed(text, i)]
  <2>1. i < Len(text)
    <3>1. i <= Len(text) /\ i # Len(text) /\ i \in Nat
      BY <1>3, <1>7, Zenon
    <3>. HIDE DEF text, i
    <3>2. Len(text) \in Nat
      BY <1>4
    <3>. QED  BY <3>1, <3>2
  <2>. DEFINE c == Consumed(text, i)
  <2>2. c \in i..Len(text) /\ SubSeq(text, 1, i) \o Batch(text, i) = SubSeq(text, 1, c)
    <3>. HIDE DEF text, i
    <3>. QED  BY <1>3, <1>4, <2>1, ConsumedIs, TextGoesOn
  <2>3. /\ proc'[p].pc = "type" /\ proc'[p].gen = g /\ proc'[p].turn = k /\ proc'[p].msg = m
        /\ proc'[p].index = c /\ proc'[p].monitor = proc[p].monitor
        /\ \A q \in Process : q # p => proc'[q] = proc[q]
    <3>1. proc' = [proc EXCEPT ![p].index = c]
      BY <1>7
    <3>. HIDE DEF c
    <3>. QED  BY <1>1, <1>2, <3>1 DEF Runs
  <2>. HIDE DEF c
  <2>. DEFINE keys == Batch(text, i)
  <2>4. Presses(p, keys)
    BY <1>7
  <2>. HIDE DEF keys
  <2>5. /\ Touches(p) /\ IsMonitor(proc[p].monitor)
        /\ typed'[g][k].keys = typed[g][k].keys \o keys /\ typed'[g][k].msg = m
        /\ \A j \in 1..Turns : j # k => typed'[g][j] = typed[g][j]
    BY <1>2, <1>3, <2>3, <2>4, PressesTouches, Zenon
  <2>6. typed'[g][k].keys = SubSeq(text, 1, c) /\ c <= Len(text) /\ c \in 0..Len(text)
    <3>1. typed[g][k].keys = SubSeq(text, 1, i)
      BY <1>3
    <3>. HIDE DEF text, i
    <3>2. c <= Len(text) /\ c \in 0..Len(text)
      <4>1. Len(text) \in Nat /\ i \in Nat /\ c \in i..Len(text)
        <5>1. i \in Nat /\ c \in i..Len(text)
          BY <1>3, <2>2, Zenon
        <5>2. Len(text) \in Nat
          BY <1>4
        <5>. QED  BY <5>1, <5>2
      <4>. QED  BY <4>1
    <3>. QED  BY <2>2, <2>5, <3>1, <3>2, Zenon DEF keys
  <2>7. TurnAt(proc'[p], typed'[g][k])
    <3>1. IsPrefix(SubSeq(text, 1, c), Due(m))
      BY <1>3, <2>6, PartIsDue, Zenon
    <3>. QED  BY <1>3, <2>3, <2>5, <2>6, <3>1, Zenon DEF TurnAt
  <2>8. RunOk(proc'[p], gens[g], typed'[g])
    <3>1. /\ RunOk(proc[p], gens[g], typed[g]) /\ proc'[p].turn = proc[p].turn
          /\ proc[p].turn \in 1..Turns /\ proc[p].pc = "type" /\ proc'[p].pc = "type"
          /\ \A j \in 1..Turns : j # proc[p].turn => typed'[g][j] = typed[g][j]
          /\ TurnAt(proc'[p], typed'[g][proc[p].turn]) /\ IsMonitor(proc'[p].monitor)
      BY <1>2, <1>3, <2>3, <2>5, <2>7, Zenon
    <3>. QED  BY <3>1, RunTurns
  <2>. QED  BY <1>2, <2>5, <2>8, Zenon DEF Stays
<1>8. ASSUME Goes(p, "fail"), NEW n \in 0..Len(Batch(text, i)), i < Len(text),
             Presses(p, SubSeq(Batch(text, i), 1, n))
      PROVE  Stays(p)
  <2>. DEFINE keys == SubSeq(Batch(text, i), 1, n)
  <2>1. PICK e \in i..Len(text) : SubSeq(text, 1, i) \o keys = SubSeq(text, 1, e)
    <3>. HIDE DEF text, i
    <3>. QED  BY <1>3, <1>4, <1>8, TextGoesOn
  <2>2. /\ proc'[p].pc = "fail" /\ proc'[p].gen = g /\ proc'[p].turn = k
        /\ \A q \in Process : q # p => proc'[q] = proc[q]
    BY <1>8, GoesIs DEF Inv
  <2>3. Presses(p, keys)
    BY <1>8
  <2>. HIDE DEF keys
  <2>4. /\ Touches(p)
        /\ typed'[g][k].keys = typed[g][k].keys \o keys /\ typed'[g][k].msg = m
        /\ \A j \in 1..Turns : j # k => typed'[g][j] = typed[g][j]
    BY <1>2, <1>3, <2>2, <2>3, PressesTouches, Zenon
  <2>5. typed'[g][k].keys = SubSeq(text, 1, e) /\ e \in 0..Len(text)
    <3>1. typed[g][k].keys = SubSeq(text, 1, i)
      BY <1>3
    <3>. HIDE DEF text, i
    <3>2. e \in 0..Len(text)
      <4>1. Len(text) \in Nat /\ i \in Nat /\ e \in i..Len(text)
        <5>1. i \in Nat /\ e \in i..Len(text)
          BY <1>3, <2>1, Zenon
        <5>2. Len(text) \in Nat
          BY <1>4
        <5>. QED  BY <5>1, <5>2
      <4>. QED  BY <4>1
    <3>. QED  BY <2>1, <2>4, <3>1, <3>2, Zenon
  <2>6. TurnAt(proc'[p], typed'[g][k])
    <3>1. IsPrefix(SubSeq(text, 1, e), Due(m))
      BY <1>3, <2>5, PartIsDue, Zenon
    <3>. QED  BY <1>3, <2>2, <2>4, <2>5, <3>1, Zenon DEF TurnAt
  <2>7. RunOk(proc'[p], gens[g], typed'[g])
    <3>1. /\ RunOk(proc[p], gens[g], typed[g]) /\ proc'[p].turn = proc[p].turn
          /\ proc[p].turn \in 1..Turns /\ proc[p].pc = "type" /\ proc'[p].pc = "fail"
          /\ \A j \in 1..Turns : j # proc[p].turn => typed'[g][j] = typed[g][j]
          /\ TurnAt(proc'[p], typed'[g][proc[p].turn])
      BY <1>2, <1>3, <2>2, <2>4, <2>6, Zenon
    <3>. QED  BY <3>1, RunTurns
  <2>. QED  BY <1>2, <2>4, <2>7, Zenon DEF Stays
<1>. QED  BY <1>5, <1>6, <1>7, <1>8 DEF Types, TypesPart

LEMMA SubmitsStays == ASSUME Inv, NEW p \in Process, Submits(p) PROVE Stays(p)
<1>. DEFINE g == proc[p].gen  k == proc[p].turn  m == proc[p].msg  keys == <<"enter">>
<1>1. PICK place \in {"await", "fail"} : Goes(p, place)
  BY DEF Submits
<1>2. proc[p].pc = "submit" /\ UNCHANGED gens /\ Presses(p, keys)
  BY DEF Submits, At
<1>3. /\ proc'[p].pc = place /\ proc'[p].gen = g /\ proc'[p].turn = k /\ proc'[p].msg = m
      /\ proc'[p].monitor = proc[p].monitor /\ \A q \in Process : q # p => proc'[q] = proc[q]
  BY <1>1, GoesIs DEF Inv
<1>. HIDE DEF keys
<1>4. /\ Touches(p) /\ g \in Gen /\ k \in 1..Turns /\ IsMonitor(proc[p].monitor)
      /\ RunOk(proc[p], gens[g], typed[g]) /\ TurnAt(proc[p], typed[g][k])
      /\ typed'[g][k].keys = typed[g][k].keys \o keys
      /\ typed'[g][k].msg = typed[g][k].msg
      /\ \A j \in 1..Turns : j # k => typed'[g][j] = typed[g][j]
  BY <1>1, <1>2, <1>3, PressesTouches, Zenon
<1>5. m \in Message /\ typed[g][k].msg = m /\ typed[g][k].keys = Keys[m]
  BY <1>2, <1>4, Zenon DEF TurnAt
<1>6. Keys[m] \in Seq(Kinds) /\ m # None
  BY <1>5, ConversationAssumption DEF Kinds
<1>7. typed'[g][k].keys = Due(m)
  <2>1. Keys[m] \o keys = Append(Keys[m], "enter")
    BY <1>6 DEF keys, Kinds
  <2>. QED  BY <1>4, <1>5, <1>6, <2>1, Zenon DEF Due
<1>8. TurnAt(proc'[p], typed'[g][k])
  <2>1. IsPrefix(Due(m), Due(m))
    BY <1>6 DEF Due, IsPrefix, Kinds
  <2>. QED  BY <1>1, <1>3, <1>4, <1>5, <1>6, <1>7, <2>1, Zenon DEF TurnAt
<1>9. RunOk(proc'[p], gens[g], typed'[g])
  <2>1. /\ RunOk(proc[p], gens[g], typed[g]) /\ proc'[p].turn = proc[p].turn
        /\ proc[p].turn \in 1..Turns /\ proc[p].pc = "submit" /\ proc'[p].pc \in {"await", "fail"}
        /\ \A j \in 1..Turns : j # proc[p].turn => typed'[g][j] = typed[g][j]
        /\ TurnAt(proc'[p], typed'[g][proc[p].turn]) /\ IsMonitor(proc'[p].monitor)
    BY <1>1, <1>2, <1>3, <1>4, <1>8, Zenon
  <2>. QED  BY <2>1, RunTurns
<1>. QED  BY <1>2, <1>4, <1>9, Zenon DEF Stays

LEMMA SamplesStays == ASSUME Inv, NEW p \in Process, Samples(p) PROVE Stays(p)
<1>. DEFINE s == [text |-> Text, active |-> page.active, fresh |-> TRUE,
                  at |-> proc[p].clock + 1]
            n == MonitorStep(proc[p].monitor, s)
            place == CASE n.status = "completed" -> "publish"
                       [] n.status = "generation_stalled" -> "fail"
                       [] OTHER -> "await"
            g == proc[p].gen  k == proc[p].turn
<1>1. PICK M : proc \in [Process -> Runs(M)]
  BY DEF Inv, ProcTyped
<1>2. /\ proc[p].pc = "await" /\ UNCHANGED <<gens, typed>>
      /\ proc' = [proc EXCEPT ![p].clock = @ + 1, ![p].monitor = n, ![p].pc = place]
  BY DEF Samples, At
<1>3. /\ g \in Gen /\ k \in 1..Turns /\ RunOk(proc[p], gens[g], typed[g])
      /\ TurnAt(proc[p], typed[g][k])
  BY <1>2, RunAt, RunIs
<1>4. IsMonitor(n) /\ (n.status = "completed" => n.text # n.baseline)
  <2>1. IsMonitor(proc[p].monitor) /\ s.fresh
    BY <1>2, <1>3, Zenon DEF RunOk
  <2>. HIDE DEF s
  <2>. QED  BY <2>1, MonitorSteps
<1>5. place \in {"publish", "fail", "await"} /\ (place = "publish" => n.status = "completed")
  OBVIOUS
<1>. HIDE DEF n, place
<1>6. /\ proc'[p].pc = place /\ proc'[p].monitor = n /\ proc'[p].gen = g /\ proc'[p].turn = k
      /\ \A q \in Process : q # p => proc'[q] = proc[q]
  BY <1>1, <1>2 DEF Runs
<1>7. Touches(p)
  BY <1>2, <1>3, <1>5, <1>6, ConversationAssumption, Zenon DEF Touches, Inv, OwnInv
<1>8. TurnAt(proc'[p], typed[g][k])
  BY <1>2, <1>3, <1>5, <1>6, Zenon DEF TurnAt
<1>9. RunOk(proc'[p], gens[g], typed[g])
  <2>1. k <= Turns
    BY <1>3, ConversationAssumption
  <2>. QED  BY <1>2, <1>3, <1>4, <1>5, <1>6, <1>8, <2>1, RunMoves, ZenonT(60)
<1>. QED  BY <1>2, <1>7, <1>9 DEF Stays

\* The answer is published and the next turn begins.
LEMMA PublishesStays == ASSUME Inv, NEW p \in Process, Publishes(p) PROVE Stays(p)
<1>. DEFINE g == proc[p].gen  k == proc[p].turn  a == proc[p].monitor.text
            b == proc[p].monitor.baseline
<1>1. PICK M : proc \in [Process -> Runs(M)]
  BY DEF Inv, ProcTyped
<1>2. PICK B : typed \in [Gen -> [1..Turns -> TurnsOf(B)]]
  BY DEF Inv, TypedTyped
<1>3. PICK R : gens \in [Gen -> Folders(R)]
  BY DEF Inv, GensTyped
<1>4. /\ proc[p].pc = "publish"
      /\ Files(p, [gens[g] EXCEPT !.answers = Append(@, a)])
      /\ typed' = [typed EXCEPT ![g] = [typed[g] EXCEPT ![k] = [typed[g][k] EXCEPT !.baseline = b]]]
      /\ proc' = [proc EXCEPT ![p] = [NewRun EXCEPT !.pc = "top", !.gen = g, !.turn = k + 1]]
  BY DEF Publishes, At, Dir
<1>5. /\ g \in Gen /\ k \in 1..Turns /\ RunOk(proc[p], gens[g], typed[g])
      /\ TurnAt(proc[p], typed[g][k])
  BY <1>4, RunAt, RunIs
<1>6. a # b /\ gens[g].done = None
  BY <1>4, <1>5, Zenon DEF RunOk
<1>. HIDE DEF a, b
<1>7. /\ gens'[g].answers = Append(gens[g].answers, a)
      /\ gens'[g].done = gens[g].done /\ gens'[g].there = gens[g].there
      /\ \A h \in Gen : h # g => gens'[h] = gens[h]
  <2>. DEFINE f == [gens[g] EXCEPT !.answers = Append(@, a)]
  <2>1. /\ f.answers = Append(gens[g].answers, a) /\ f.done = gens[g].done
        /\ f.there = gens[g].there
    BY <1>3, <1>5 DEF Folders
  <2>2. Files(p, f)
    BY <1>4
  <2>. HIDE DEF f
  <2>3. gens'[g] = f /\ \A h \in Gen : h # g => gens'[h] = gens[h]
    BY <1>5, <2>2, FilesIs DEF Inv
  <2>. QED  BY <2>1, <2>3
<1>8. /\ proc'[p].pc = "top" /\ proc'[p].gen = g /\ proc'[p].turn = k + 1
      /\ \A q \in Process : q # p => proc'[q] = proc[q]
  <2>. DEFINE r == [NewRun EXCEPT !.pc = "top", !.gen = g, !.turn = k + 1]
  <2>1. r.pc = "top" /\ r.gen = g /\ r.turn = k + 1
    <3>1. NewRun \in Runs({None})
      BY DEF NewRun, Runs, Places
    <3>. QED  BY <3>1 DEF Runs
  <2>2. proc' = [proc EXCEPT ![p] = r]
    BY <1>4
  <2>. HIDE DEF r
  <2>. QED  BY <1>1, <2>1, <2>2
<1>9. /\ typed'[g][k].baseline = b /\ typed'[g][k].keys = typed[g][k].keys
      /\ typed'[g][k].msg = typed[g][k].msg
      /\ \A j \in 1..Turns : j # k => typed'[g][j] = typed[g][j]
      /\ \A h \in Gen : h # g => typed'[h] = typed[h]
  <2>. DEFINE t == [typed[g][k] EXCEPT !.baseline = b]
  <2>1. t.baseline = b /\ t.keys = typed[g][k].keys /\ t.msg = typed[g][k].msg
    <3>1. typed[g][k] \in TurnsOf(B)
      BY <1>2, <1>5
    <3>. HIDE DEF g, k
    <3>. QED  BY <3>1 DEF TurnsOf
  <2>2. typed' = [typed EXCEPT ![g] = [typed[g] EXCEPT ![k] = t]]
    BY <1>4
  <2>. HIDE DEF t
  <2>3. typed'[g] = [typed[g] EXCEPT ![k] = t] /\ \A h \in Gen : h # g => typed'[h] = typed[h]
    BY <1>2, <1>5, <2>2
  <2>4. typed'[g][k] = t /\ \A j \in 1..Turns : j # k => typed'[g][j] = typed[g][j]
    BY <1>2, <1>5, <2>3, ZenonT(60)
  <2>. QED  BY <2>1, <2>3, <2>4
<1>10. Touches(p)
  BY <1>5, <1>7, <1>8, <1>9, ConversationAssumption, Zenon DEF Touches, Inv, OwnInv
<1>11. /\ gens[g].answers \in Seq(R) /\ Len(gens[g].answers) \in Nat
       /\ k = Len(gens[g].answers) + 1
  <2>1. k = Len(gens[g].answers) + 1
    BY <1>5, Zenon DEF RunOk
  <2>2. gens[g] \in Folders(R)
    BY <1>3, <1>5, Zenon
  <2>. HIDE DEF g, k
  <2>. QED  BY <2>1, <2>2 DEF Folders
<1>t. k \in Nat
  BY <1>11
<1>12. /\ Len(gens'[g].answers) = k /\ gens'[g].answers[k] = a
       /\ \A j \in 1..Turns : j < k => gens'[g].answers[j] = gens[g].answers[j]
  <2>. DEFINE q == gens[g].answers
  <2>1. q \in Seq(R \cup {a})
    BY <1>11
  <2>. HIDE DEF q
  <2>2. /\ Len(Append(q, a)) = Len(q) + 1 /\ Append(q, a)[Len(q) + 1] = a
        /\ \A j \in 1..Len(q) : Append(q, a)[j] = q[j]
    BY <2>1
  <2>3. gens'[g].answers = Append(q, a) /\ k = Len(q) + 1 /\ Len(q) \in Nat
    BY <1>7, <1>11, Zenon DEF q
  <2>. HIDE DEF g, k
  <2>4. \A j \in 1..Turns : j < k => j \in 1..Len(q)
    BY <2>3, ConversationAssumption
  <2>. QED  BY <2>2, <2>3, <2>4, Zenon DEF q
<1>13. Answered(typed'[g][k], a)
  BY <1>4, <1>5, <1>6, <1>9, Zenon DEF Answered, TurnAt
<1>14. \A j \in 1..Turns : /\ j < k => Answered(typed[g][j], gens[g].answers[j])
                           /\ j > k => typed[g][j].keys = <<>>
  BY <1>5 DEF RunOk
<1>15. ASSUME NEW j \in 1..Turns
       PROVE  /\ j < k + 1 => Answered(typed'[g][j], gens'[g].answers[j])
              /\ j = k + 1 => TurnAt(proc'[p], typed'[g][j])
              /\ j > k + 1 => typed'[g][j].keys = <<>>
  <2>1. CASE j < k
    <3>0. j < k + 1 /\ j # k /\ j # k + 1 /\ ~(j > k + 1)
      BY <1>t, <2>1, ConversationAssumption
    <3>1. /\ typed'[g][j] = typed[g][j] /\ gens'[g].answers[j] = gens[g].answers[j]
          /\ j < k + 1 /\ j # k + 1 /\ ~(j > k + 1)
      BY <1>9, <1>12, <2>1, <3>0, Zenon
    <3>. QED  BY <1>14, <2>1, <3>1
  <2>2. CASE j = k
    BY <1>12, <1>13, <2>2
  <2>3. CASE j > k
    <3>1. typed'[g][j] = typed[g][j] /\ typed[g][j].keys = <<>>
      <4>1. j # k
        BY <1>t, <2>3, ConversationAssumption
      <4>. QED  BY <1>9, <1>14, <2>3, <4>1, Zenon
    <3>2. TurnAt(proc'[p], typed[g][j])
      <4>1. IsPrefix(<<>>, Due(typed[g][j].msg))
        BY <1>2, <1>5, EmptyIsDue DEF TurnsOf
      <4>. QED  BY <1>8, <3>1, <4>1 DEF TurnAt
    <3>. QED  BY <1>5, <2>3, <3>1, <3>2, ConversationAssumption
  <2>4. j < k \/ j = k \/ j > k
    BY <1>t, ConversationAssumption
  <2>. QED  BY <2>1, <2>2, <2>3, <2>4, Zenon
<1>16. RunOk(proc'[p], gens'[g], typed'[g])
  BY <1>6, <1>7, <1>8, <1>12, <1>15 DEF RunOk
<1>. QED  BY <1>10, <1>16 DEF Stays

\* The end of a run, whatever its folder says then.
LEMMA EndedStays ==
    ASSUME Inv, NEW p \in Process, proc[p].pc \notin {"new", "ended"}, Goes(p, "ended"),
           UNCHANGED typed, NEW f, Files(p, f), f.answers = Dir(p).answers, f.there = Dir(p).there
    PROVE  Stays(p)
<1>1. proc[p].gen \in Gen /\ RunOk(proc[p], gens[proc[p].gen], typed[proc[p].gen])
  BY OfGen, RunIs
<1>2. /\ proc'[p].pc = "ended" /\ proc'[p].gen = proc[p].gen /\ proc'[p].turn = proc[p].turn
      /\ \A q \in Process : q # p => proc'[q] = proc[q]
  BY GoesIs DEF Inv
<1>3. /\ gens'[proc[p].gen] = f /\ gens[proc[p].gen].there
      /\ \A h \in Gen : h # proc[p].gen => gens'[h] = gens[h]
  BY <1>1, FilesIs, ConversationAssumption DEF Inv, OwnInv
<1>4. Touches(p)
  BY <1>1, <1>2, <1>3 DEF Touches, Dir
<1>5. RunOk(proc'[p], f, typed[proc[p].gen])
  BY <1>1, <1>2, RunLeaves DEF Dir
<1>. QED  BY <1>3, <1>4, <1>5 DEF Stays

\* A part of a folder that the run does not answer with.
LEMMA FolderParts ==
    ASSUME GensTyped, NEW g \in Gen
    PROVE  /\ \A o : LET f == [gens[g] EXCEPT !.done = o]
                     IN  f.answers = gens[g].answers /\ f.there = gens[g].there /\ f.done = o
           /\ \A o : LET f == [gens[g] EXCEPT !.lock = o]
                     IN  /\ f.answers = gens[g].answers /\ f.there = gens[g].there
                         /\ f.done = gens[g].done
           /\ \A o, d : LET f == [gens[g] EXCEPT !.lock = o, !.done = d]
                        IN  f.answers = gens[g].answers /\ f.there = gens[g].there
           /\ LET f == [gens[g] EXCEPT !.failure = TRUE]
              IN  f.answers = gens[g].answers /\ f.there = gens[g].there /\ f.done = gens[g].done
           /\ LET f == [gens[g] EXCEPT !.ready = TRUE]
              IN  f.answers = gens[g].answers /\ f.there = gens[g].there /\ f.done = gens[g].done
           /\ LET f == [gens[g] EXCEPT !.ready = FALSE, !.failure = FALSE, !.stop = FALSE]
              IN  f.answers = gens[g].answers /\ f.there = gens[g].there /\ f.done = gens[g].done
<1>1. PICK R : gens[g] \in Folders(R)
  BY DEF GensTyped
<1>. QED  BY <1>1 DEF Folders

LEMMA EndsStays == ASSUME Inv, NEW p \in Process, Ends(p) PROVE Stays(p)
<1>. DEFINE g == proc[p].gen
<1>1. /\ proc[p].pc \in {"finish", "fail", "failed", "stop", "close"} /\ UNCHANGED typed
      /\ g \in Gen /\ RunOk(proc[p], gens[g], typed[g])
  <2>1. proc[p].pc \in {"finish", "fail", "failed", "stop", "close"} /\ UNCHANGED typed
    BY DEF Ends, Completes, ReportsFailure, Fails, Finishes, StopsBrowser, Closes, At
  <2>. QED  BY <2>1, OfGen, RunIs
<1>2. gens[g].there
  BY <1>1, ConversationAssumption DEF Inv, OwnInv
<1>3. ASSUME NEW o, Finishes(p, o) PROVE Stays(p)
  <2>. DEFINE f == [gens[g] EXCEPT !.done = o]
  <2>1. f.answers = gens[g].answers /\ f.there = gens[g].there
    BY <1>1, FolderParts DEF Inv
  <2>2. Files(p, f)
    BY <1>3 DEF Finishes, Dir
  <2>. HIDE DEF f
  <2>3. gens'[g] = f /\ \A h \in Gen : h # g => gens'[h] = gens[h]
    BY <1>1, <2>2, FilesIs DEF Inv
  <2>4. /\ proc'[p].pc = "stop" /\ proc'[p].finished /\ proc'[p].gen = g
        /\ proc'[p].turn = proc[p].turn /\ \A q \in Process : q # p => proc'[q] = proc[q]
    <3>1. PICK M : proc \in [Process -> Runs(M)]
      BY DEF Inv, ProcTyped
    <3>. QED  BY <1>3, <3>1 DEF Finishes, Runs
  <2>5. Touches(p)
    BY <1>1, <1>2, <2>1, <2>3, <2>4 DEF Touches
  <2>6. RunOk(proc'[p], f, typed[g])
    BY <1>1, <2>1, <2>4, RunLeaves
  <2>. QED  BY <1>1, <2>3, <2>5, <2>6 DEF Stays
<1>4. CASE ReportsFailure(p)
  <2>. DEFINE f == [gens[g] EXCEPT !.failure = TRUE]
  <2>1. f.answers = gens[g].answers /\ f.there = gens[g].there /\ f.done = gens[g].done
    BY <1>1, FolderParts DEF Inv
  <2>2. Files(p, f) /\ Goes(p, "failed") /\ proc[p].pc = "fail"
    BY <1>4 DEF ReportsFailure, Dir, At
  <2>. HIDE DEF f
  <2>3. Beside(p)
    BY <1>1, <2>1, <2>2, NewFolder DEF Dir, Inv
  <2>. QED  BY <1>1, <2>2, <2>3, Leaves
<1>5. CASE StopsBrowser(p)
  <2>1. UNCHANGED gens /\ proc[p].pc = "stop"
    BY <1>5 DEF StopsBrowser, At
  <2>2. /\ proc'[p].pc = "close" /\ proc'[p].finished = proc[p].finished /\ proc'[p].gen = g
        /\ proc'[p].turn = proc[p].turn /\ \A q \in Process : q # p => proc'[q] = proc[q]
    BY <1>5, GoesIs DEF StopsBrowser, Inv
  <2>3. Touches(p)
    BY <1>1, <1>2, <2>1, <2>2 DEF Touches
  <2>4. gens[g].done # None => proc[p].finished
    BY <1>1, <2>1 DEF RunOk
  <2>5. RunOk(proc'[p], gens[g], typed[g])
    BY <1>1, <2>2, <2>4, RunLeaves
  <2>. QED  BY <1>1, <2>1, <2>3, <2>5 DEF Stays
<1>6. CASE Closes(p)
  <2>. DEFINE d == IF NeedsOutcome(p) THEN "stopped" ELSE gens[g].done
              f == [gens[g] EXCEPT !.lock = None, !.done = d]
  <2>1. f.answers = gens[g].answers /\ f.there = gens[g].there
    BY <1>1, FolderParts DEF Inv
  <2>2. Files(p, f) /\ Goes(p, "ended") /\ proc[p].pc = "close"
    BY <1>6 DEF Closes, Dir, At
  <2>. HIDE DEF f
  <2>. QED  BY <1>1, <2>1, <2>2, EndedStays DEF Dir
<1>. QED  BY <1>3, <1>4, <1>5, <1>6 DEF Ends, Completes, Fails

LEMMA FaultsStay == ASSUME Inv, NEW p \in Process, Raises(p) \/ Dies(p) PROVE Stays(p)
<1>. DEFINE g == proc[p].gen
            f == [gens[g] EXCEPT !.lock = IF @ = p THEN None ELSE @]
<1>1. CASE proc[p].pc \notin {"new", "ended"} /\ Goes(p, "ended") /\ Files(p, f) /\ UNCHANGED typed
  <2>1. g \in Gen
    BY <1>1, OfGen
  <2>2. f.answers = gens[g].answers /\ f.there = gens[g].there
    BY <2>1, FolderParts DEF Inv
  <2>. HIDE DEF f
  <2>. QED  BY <1>1, <2>2, EndedStays DEF Dir
<1>2. CASE /\ \/ proc[p].pc \in InTry /\ Goes(p, "fail")
              \/ proc[p].pc \in {"fail", "failed"} /\ Goes(p, "stop")
           /\ UNCHANGED <<gens, typed>>
  <2>1. Beside(p)
    BY <1>2, SameFolders
  <2>. QED  BY <1>2, <2>1, Leaves DEF InTry
<1>. QED  BY <1>1, <1>2 DEF Raises, Dies, Dir

LEMMA BeginsRun == ASSUME Inv, NEW p \in Process, Starts(p) \/ ComesUp(p) PROVE Stays(p)
<1>1. CASE Starts(p)
  <2>1. proc[p].pc = "start" /\ UNCHANGED <<gens, typed>> /\ Beside(p)
    BY <1>1, SameFolders DEF Starts, At
  <2>2. Goes(p, "interface") \/ Goes(p, "fail")
    BY <1>1 DEF Starts
  <2>. QED  BY <2>1, <2>2, GoesOn, Leaves
<1>2. CASE ComesUp(p)
  <2>. DEFINE f == [gens[proc[p].gen] EXCEPT !.ready = TRUE]
  <2>1. proc[p].pc = "interface" /\ UNCHANGED typed /\ Files(p, f) /\ Goes(p, "top")
    BY <1>2 DEF ComesUp, At, Dir
  <2>2. proc[p].gen \in Gen
    BY <2>1, OfGen
  <2>3. f.answers = Dir(p).answers /\ f.there = Dir(p).there /\ f.done = Dir(p).done
    BY <2>2, FolderParts DEF Inv, Dir
  <2>. HIDE DEF f
  <2>4. Beside(p)
    BY <2>1, <2>2, <2>3, NewFolder DEF Inv
  <2>. QED  BY <2>1, <2>4, GoesOn
<1>. QED  BY <1>1, <1>2

LEMMA AcquiresStays ==
    ASSUME Inv, NEW p \in Process, AcquireLocks(p) \/ AcquireNames(p) \/ Cleans(p) PROVE Stays(p)
<1>. DEFINE g == proc[p].gen
<1>1. /\ proc[p].pc \in {"lock", "name", "clean"} /\ UNCHANGED typed /\ g \in Gen
  <2>1. proc[p].pc \in {"lock", "name", "clean"} /\ UNCHANGED typed
    BY DEF AcquireLocks, AcquireNames, Cleans, At
  <2>. QED  BY <2>1, OfGen
<1>2. CASE AcquireLocks(p)
  <2>. DEFINE f == [gens[g] EXCEPT !.lock = p]
  <2>1. CASE Goes(p, "ended") /\ UNCHANGED gens
    <3>1. Beside(p)
      BY <2>1, SameFolders
    <3>. QED  BY <1>1, <2>1, <3>1, Leaves
  <2>2. CASE Goes(p, "name") /\ Files(p, f)
    <3>1. f.answers = Dir(p).answers /\ f.there = Dir(p).there /\ f.done = Dir(p).done
      BY <1>1, FolderParts DEF Inv, Dir
    <3>. HIDE DEF f
    <3>2. Beside(p)
      BY <1>1, <2>2, <3>1, NewFolder DEF Inv
    <3>. QED  BY <1>1, <2>2, <3>2, GoesOn
  <2>. QED  BY <1>2, <2>1, <2>2 DEF AcquireLocks, Dir
<1>3. CASE AcquireNames(p)
  <2>1. Beside(p) /\ Goes(p, "clean")
    BY <1>3, SameFolders DEF AcquireNames
  <2>. QED  BY <1>1, <2>1, GoesOn
<1>4. CASE Cleans(p)
  <2>. DEFINE f == [gens[g] EXCEPT !.ready = FALSE, !.failure = FALSE, !.stop = FALSE]
  <2>1. Goes(p, "start") /\ Files(p, f)
    BY <1>4 DEF Cleans, Dir
  <2>2. f.answers = Dir(p).answers /\ f.there = Dir(p).there /\ f.done = Dir(p).done
    BY <1>1, FolderParts DEF Inv, Dir
  <2>. HIDE DEF f
  <2>3. Beside(p)
    BY <1>1, <2>1, <2>2, NewFolder DEF Inv
  <2>. QED  BY <1>1, <2>1, <2>3, GoesOn
<1>. QED  BY <1>2, <1>3, <1>4

\* A generation is acquired while nobody has it.
LEMMA MovesKeeps ==
    ASSUME Inv, NEW p \in Process, NEW g \in Gen, AcquireMoves(p, g) PROVE OwnInv' /\ RunInv'
<1>1. PICK M : proc \in [Process -> Runs(M)]
  BY DEF Inv, ProcTyped
<1>2. PICK R : gens \in [Gen -> Folders(R)]
  BY DEF Inv, GensTyped
<1>3. PICK B : typed \in [Gen -> [1..Turns -> TurnsOf(B)]]
  BY DEF Inv, TypedTyped
<1>4. /\ proc[p].pc = "new" /\ proc[p].gen = None /\ proc[p].turn = 1 /\ UNCHANGED typed
      /\ g # None
  BY ConversationAssumption DEF AcquireMoves, At, Inv, OwnInv
<1>5. \A q \in Process : proc[q].gen # None => proc[q].gen \in Gen
  BY <1>1 DEF Runs
<1>6. CASE Vacant(g)
  <2>. DEFINE f == [gens[g] EXCEPT !.there = TRUE]
  <2>1. f.answers = gens[g].answers /\ f.done = gens[g].done /\ f.there
    BY <1>2 DEF Folders
  <2>2. gens' = [gens EXCEPT ![g] = f] /\ proc' = [proc EXCEPT ![p].pc = "lock", ![p].gen = g]
    BY <1>6 DEF AcquireMoves
  <2>. HIDE DEF f
  <2>3. gens'[g] = f /\ \A h \in Gen : h # g => gens'[h] = gens[h]
    BY <1>2, <2>2
  <2>4. /\ proc'[p].pc = "lock" /\ proc'[p].gen = g /\ proc'[p].turn = 1
        /\ \A q \in Process : q # p => proc'[q] = proc[q]
    BY <1>1, <1>4, <2>2 DEF Runs
  <2>5. /\ gens[g].done = None /\ gens[g].answers = <<>>
        /\ \A k \in 1..Turns : typed[g][k].keys = <<>>
        /\ \A q \in Process : proc[q].gen # g
    <3>1. \A q \in Process : proc[q].gen # g
      BY <1>4, <1>6 DEF Vacant, Inv, OwnInv
    <3>. QED  BY <3>1 DEF Inv, OwnInv, Untouched
  <2>6. ASSUME NEW h \in Gen PROVE Untouched(h)' \/ \E q \in Process : proc'[q].gen = h
    <3>1. CASE h = g
      BY <2>4, <3>1
    <3>2. CASE h # g
      <4>1. gens'[h] = gens[h] /\ typed'[h] = typed[h]
        BY <1>4, <2>3, <3>2
      <4>2. ASSUME NEW q \in Process, proc[q].gen = h PROVE proc'[q].gen = h
        <5>1. q # p
          BY <1>4, <4>2, ConversationAssumption
        <5>. QED  BY <2>4, <4>2, <5>1
      <4>. QED  BY <4>1, <4>2 DEF Inv, OwnInv, Untouched
    <3>. QED  BY <3>1, <3>2
  <2>7. ASSUME NEW q \in Process, NEW r \in Process, proc'[q].gen # None,
               proc'[q].gen = proc'[r].gen
        PROVE  q = r
    BY <2>4, <2>5, <2>7 DEF Inv, OwnInv
  <2>8. ASSUME NEW q \in Process
        PROVE  /\ proc'[q].gen # None => gens'[proc'[q].gen].there
               /\ proc'[q].pc = "new" => proc'[q].gen = None
               /\ proc'[q].gen = None => proc'[q].pc \in {"new", "ended"}
               /\ proc'[q].pc = "new" => proc'[q].turn = 1
    <3>1. CASE q = p
      BY <1>4, <2>1, <2>3, <2>4, <3>1
    <3>2. CASE q # p
      <4>1. proc[q].gen # None => gens'[proc[q].gen] = gens[proc[q].gen]
        BY <1>5, <2>3, <2>5
      <4>. QED  BY <2>4, <3>2, <4>1 DEF Inv, OwnInv
    <3>. QED  BY <3>1, <3>2
  <2>9. OwnInv'
    BY <2>6, <2>7, <2>8 DEF OwnInv
  <2>10. RunOk(proc'[p], f, typed[g])
    <3>1. ASSUME NEW k \in 1..Turns PROVE TurnAt(proc'[p], typed[g][k])
      <4>1. IsPrefix(<<>>, Due(typed[g][k].msg))
        BY <1>3, EmptyIsDue DEF TurnsOf
      <4>. QED  BY <2>4, <2>5, <4>1 DEF TurnAt
    <3>2. \A k \in 1..Turns : ~(k < 1)
      BY ConversationAssumption
    <3>3. Len(f.answers) = 0
      BY <2>1, <2>5
    <3>. QED  BY <2>1, <2>4, <2>5, <3>1, <3>2, <3>3 DEF RunOk
  <2>11. ASSUME NEW q \in Process, proc'[q].gen # None
         PROVE  RunOk(proc'[q], gens'[proc'[q].gen], typed'[proc'[q].gen])
    <3>1. CASE q = p
      BY <1>4, <2>3, <2>4, <2>10, <3>1
    <3>2. CASE q # p
      <4>1. proc[q].gen # None /\ gens'[proc[q].gen] = gens[proc[q].gen]
        BY <1>5, <2>3, <2>4, <2>5, <2>11, <3>2
      <4>. QED  BY <1>4, <2>4, <3>2, <4>1 DEF Inv, RunInv
    <3>. QED  BY <3>1, <3>2
  <2>. QED  BY <2>9, <2>11 DEF RunInv
<1>7. CASE ~Vacant(g)
  <2>1. UNCHANGED <<gens, typed>> /\ Goes(p, "ended")
    BY <1>7 DEF AcquireMoves
  <2>2. /\ proc'[p].pc = "ended" /\ proc'[p].gen = None
        /\ \A q \in Process : q # p => proc'[q] = proc[q]
        /\ \A q \in Process : proc'[q].gen = proc[q].gen
    BY <1>4, <2>1, GoesIs DEF Inv
  <2>3. \A h \in Gen : Untouched(h)' <=> Untouched(h)
    BY <2>1 DEF Untouched
  <2>4. OwnInv'
    BY <2>1, <2>2, <2>3 DEF Inv, OwnInv
  <2>5. RunInv'
    BY <2>1, <2>2 DEF Inv, RunInv
  <2>. QED  BY <2>4, <2>5
<1>. QED  BY <1>6, <1>7

\* The host writes messages and STOP, and nothing that a run answers with.
LEMMA HostKeeps ==
    ASSUME Inv, UNCHANGED <<proc, typed>>,
           \A h \in Gen : /\ gens'[h].answers = gens[h].answers /\ gens'[h].there = gens[h].there
                          /\ gens'[h].done = gens[h].done
    PROVE  OwnInv' /\ RunInv'
<1>1. \A h \in Gen : Untouched(h)' <=> Untouched(h)
  BY DEF Untouched
<1>2. \A q \in Process : proc[q].gen # None => proc[q].gen \in Gen
  <2>1. PICK M : proc \in [Process -> Runs(M)]
    BY DEF Inv, ProcTyped
  <2>. QED  BY <2>1 DEF Runs
<1>3. OwnInv'
  BY <1>1, <1>2 DEF Inv, OwnInv
<1>4. ASSUME NEW q \in Process, proc[q].gen # None
      PROVE  RunOk(proc[q], gens'[proc[q].gen], typed[proc[q].gen])
  <2>1. proc[q].gen \in Gen /\ RunOk(proc[q], gens[proc[q].gen], typed[proc[q].gen])
    BY <1>2, <1>4 DEF Inv, RunInv
  <2>. QED  BY <2>1 DEF RunOk
<1>. QED  BY <1>3, <1>4 DEF RunInv

LEMMA StaysKeeps ==
    ASSUME Inv, NEW p \in Process, Stays(p), proc[p].gen \in Gen PROVE OwnInv' /\ RunInv'
BY Frame DEF Inv, Stays

LEMMA StepStays ==
    ASSUME Inv, NEW p \in Process, Works(p) \/ TypesPart(p) \/ Raises(p) \/ Dies(p)
    PROVE  (Stays(p) /\ proc[p].gen \in Gen) \/ \E g \in Gen : AcquireMoves(p, g)
<1>1. CASE \E g \in Asks[p] : AcquireMoves(p, g)
  BY <1>1, ConversationAssumption
<1>2. CASE \/ AcquireLocks(p) \/ AcquireNames(p) \/ Cleans(p) \/ Converses(p) \/ Ends(p)
           \/ TypesPart(p) \/ Raises(p) \/ Dies(p)
  <2>1. Stays(p)
    BY <1>2, AcquiresStays, BeginsRun, ReadsStays, BeginsStays, TypesStays, SubmitsStays,
       SamplesStays, PublishesStays, EndsStays, FaultsStay DEF Converses
  <2>2. proc[p].pc \notin {"new", "ended"}
    BY <1>2, Zenon DEF AcquireLocks, AcquireNames, Cleans, Converses, Starts, ComesUp, ReadsMessage,
       BeginsTyping, Types, Submits, Samples, Publishes, Ends, Completes, ReportsFailure, Fails,
       StopsBrowser, Closes, TypesPart, Raises, Dies, InTry, At
  <2>. QED  BY <2>1, <2>2, OfGen
<1>. QED  BY <1>1, <1>2 DEF Works, Acquires

LEMMA HostStays ==
    ASSUME Inv, \/ \E k \in 1..Turns, m \in Message : Sends(k, m)
                \/ Stops \/ PageChanges \/ UNCHANGED vars
    PROVE  /\ UNCHANGED <<proc, typed>>
           /\ \A h \in Gen : /\ gens'[h].answers = gens[h].answers /\ gens'[h].there = gens[h].there
                             /\ gens'[h].done = gens[h].done
                             /\ gens'[h].failure = gens[h].failure
                             /\ gens'[h].ready = gens[h].ready
<1>1. PICK R : gens \in [Gen -> Folders(R)]
  BY DEF Inv, GensTyped
<1>2. ASSUME NEW f, gens' = [gens EXCEPT ![current] = f],
             current \in Gen => /\ f.answers = gens[current].answers
                                /\ f.there = gens[current].there /\ f.done = gens[current].done
                                /\ f.failure = gens[current].failure
                                /\ f.ready = gens[current].ready
      PROVE  \A h \in Gen : /\ gens'[h].answers = gens[h].answers /\ gens'[h].there = gens[h].there
                            /\ gens'[h].done = gens[h].done
                            /\ gens'[h].failure = gens[h].failure
                            /\ gens'[h].ready = gens[h].ready
  BY <1>1, <1>2
<1>3. ASSUME NEW k \in 1..Turns, NEW m \in Message, Sends(k, m)
      PROVE  \E f : /\ gens' = [gens EXCEPT ![current] = f]
                    /\ current \in Gen => /\ f.answers = gens[current].answers
                                          /\ f.there = gens[current].there
                                          /\ f.done = gens[current].done
                                          /\ f.failure = gens[current].failure
                                          /\ f.ready = gens[current].ready
  <2>. DEFINE f == [gens[current] EXCEPT !.inbox[k] = m]
  <2>1. gens' = [gens EXCEPT ![current] = f]
    BY <1>3 DEF Sends
  <2>2. ASSUME current \in Gen
        PROVE  /\ f.answers = gens[current].answers /\ f.there = gens[current].there
               /\ f.done = gens[current].done /\ f.failure = gens[current].failure
               /\ f.ready = gens[current].ready
    <3>1. gens[current] \in Folders(R)
      BY <1>1, <2>2
    <3>. QED  BY <3>1 DEF Folders
  <2>. HIDE DEF f
  <2>. QED  BY <2>1, <2>2
<1>4. ASSUME Stops
      PROVE  \E f : /\ gens' = [gens EXCEPT ![current] = f]
                    /\ current \in Gen => /\ f.answers = gens[current].answers
                                          /\ f.there = gens[current].there
                                          /\ f.done = gens[current].done
                                          /\ f.failure = gens[current].failure
                                          /\ f.ready = gens[current].ready
  <2>. DEFINE f == [gens[current] EXCEPT !.stop = TRUE]
  <2>1. gens' = [gens EXCEPT ![current] = f]
    BY <1>4 DEF Stops
  <2>2. ASSUME current \in Gen
        PROVE  /\ f.answers = gens[current].answers /\ f.there = gens[current].there
               /\ f.done = gens[current].done /\ f.failure = gens[current].failure
               /\ f.ready = gens[current].ready
    <3>1. gens[current] \in Folders(R)
      BY <1>1, <2>2
    <3>. QED  BY <3>1 DEF Folders
  <2>. HIDE DEF f
  <2>. QED  BY <2>1, <2>2
<1>5. UNCHANGED <<proc, typed>>
  BY DEF Sends, Stops, PageChanges, vars
<1>6. CASE UNCHANGED gens
  BY <1>5, <1>6
<1>. QED  BY <1>2, <1>3, <1>4, <1>5, <1>6 DEF PageChanges, vars

LEMMA InvInit == Init => Inv
<1>. SUFFICES ASSUME Init PROVE Inv
  OBVIOUS
<1>1. \A p \in Process : proc[p].gen = None /\ proc[p].pc = "new" /\ proc[p].turn = 1
  BY DEF Init, NewRun
<1>2. \A g \in Gen : Untouched(g)
  BY DEF Init, Untouched, Empty
<1>3. OwnInv
  BY <1>1, <1>2 DEF OwnInv
<1>4. RunInv
  BY <1>1 DEF RunInv
<1>. QED  BY <1>3, <1>4, TypedInit DEF Inv

LEMMA InvNext == Inv /\ [Next]_vars => Inv'
<1>. SUFFICES ASSUME Inv, [Next]_vars PROVE Inv'
  OBVIOUS
<1>1. GensTyped' /\ ProcTyped' /\ TypedTyped'
  BY GensTypedNext, ProcTypedNext, TypedTypedNext
<1>2. OwnInv' /\ RunInv'
  <2>1. ASSUME NEW p \in Process, Works(p) \/ TypesPart(p) \/ Raises(p) \/ Dies(p)
        PROVE  OwnInv' /\ RunInv'
    BY <2>1, StepStays, StaysKeeps, MovesKeeps
  <2>2. CASE \/ \E k \in 1..Turns, m \in Message : Sends(k, m)
             \/ Stops \/ PageChanges \/ UNCHANGED vars
    BY <2>2, HostStays, HostKeeps
  <2>. QED  BY <2>1, <2>2 DEF Next
<1>. QED  BY <1>1, <1>2 DEF Inv
-----------------------------------------------------------------------------
(* The theorems.                                                            *)

\* TypingSession.run and the turns of live_conversation.py: whatever raises, and however
\* a message is cut, a turn's keys are those of its message and one Enter, in order and
\* none twice; an answer comes after all of them and is not the text before the turn.
THEOREM TurnsAreAnswered == Spec => []AnsweredInTurn
<1>1. Inv => AnsweredInTurn
  <2>. SUFFICES ASSUME Inv, NEW g \in Gen, NEW k \in 1..Turns
                PROVE  LET t == typed[g][k]
                       IN  /\ IsPrefix(t.keys, Due(t.msg))
                           /\ k > Len(gens[g].answers) + 1 => t.keys = <<>>
                           /\ k <= Len(gens[g].answers) =>
                                 t.keys = Due(t.msg) /\ t.msg # None
                                 /\ gens[g].answers[k] # t.baseline
    BY DEF AnsweredInTurn, Due
  <2>1. PICK B : typed \in [Gen -> [1..Turns -> TurnsOf(B)]]
    BY DEF Inv, TypedTyped
  <2>2. PICK R : gens \in [Gen -> Folders(R)]
    BY DEF Inv, GensTyped
  <2>3. typed[g][k] \in TurnsOf(B) /\ typed[g][k].msg \in Message \cup {None}
    BY <2>1 DEF TurnsOf
  <2>4. IsPrefix(<<>>, Due(typed[g][k].msg))
    BY <2>3, EmptyIsDue
  <2>5. CASE Untouched(g)
    <3>1. gens[g].answers = <<>> /\ typed[g][k].keys = <<>>
      BY <2>5 DEF Untouched
    <3>2. ~(k <= Len(<<>>))
      BY ConversationAssumption
    <3>. QED  BY <2>4, <3>1, <3>2
  <2>6. ASSUME NEW p \in Process, proc[p].gen = g
        PROVE  /\ IsPrefix(typed[g][k].keys, Due(typed[g][k].msg))
               /\ k > Len(gens[g].answers) + 1 => typed[g][k].keys = <<>>
               /\ k <= Len(gens[g].answers) => Answered(typed[g][k], gens[g].answers[k])
    <3>. DEFINE n == Len(gens[g].answers)
    <3>1. n \in Nat
      BY <2>2 DEF Folders
    <3>2. /\ k < n + 1 => Answered(typed[g][k], gens[g].answers[k])
          /\ k = n + 1 => TurnAt(proc[p], typed[g][k])
          /\ k > n + 1 => typed[g][k].keys = <<>>
      BY <2>6, ConversationAssumption DEF Inv, RunInv, RunOk
    <3>. HIDE DEF n
    <3>3. CASE k < n + 1
      <4>1. Answered(typed[g][k], gens[g].answers[k]) /\ ~(k > n + 1)
        BY <3>1, <3>2, <3>3
      <4>2. IsPrefix(Due(typed[g][k].msg), Due(typed[g][k].msg))
        BY <2>3, DueIsPrefix
      <4>. QED  BY <4>1, <4>2 DEF Answered, n
    <3>4. CASE k = n + 1
      <4>1. ~(k > n + 1) /\ ~(k <= n)
        BY <3>1, <3>4
      <4>2. IsPrefix(typed[g][k].keys, Due(typed[g][k].msg))
        BY <3>2, <3>4, Zenon DEF TurnAt
      <4>. QED  BY <4>1, <4>2, Zenon DEF n
    <3>5. CASE k > n + 1
      BY <2>4, <3>1, <3>2, <3>5 DEF n
    <3>. QED  BY <3>1, <3>3, <3>4, <3>5
  <2>. QED  BY <2>5, <2>6 DEF Inv, OwnInv, Answered
<1>. QED  BY InvInit, InvNext, <1>1, PTL DEF Spec

\* In the state of an outcome, a run only stops its browser, or gives up its lock.
LEMMA OutcomeKept ==
    ASSUME Inv, NEW g \in Gen, gens[g].done # None, [Next]_vars
    PROVE  /\ gens'[g].done = gens[g].done /\ gens'[g].answers = gens[g].answers
           /\ gens'[g].failure = gens[g].failure /\ gens'[g].ready = gens[g].ready
<1>1. PICK R : gens \in [Gen -> Folders(R)]
  BY DEF Inv, GensTyped
<1>2. CASE UNCHANGED gens
  BY <1>2
<1>3. ASSUME NEW p \in Process, Works(p) \/ TypesPart(p) \/ Raises(p) \/ Dies(p),
             Stays(p), proc[p].gen \in Gen, gens' # gens
      PROVE  gens'[g] = gens[g] \/ (proc[p].gen = g /\ proc[p].pc \in {"stop", "close"}
                                       /\ proc[p].finished)
  <2>1. CASE proc[p].gen # g
    BY <1>3, <2>1 DEF Stays, Touches
  <2>2. CASE proc[p].gen = g
    <3>1. proc[p].pc # "ended"
      BY <1>3, Zenon
         DEF Works, Acquires, AcquireMoves, AcquireLocks, AcquireNames, Cleans, Converses,
         Starts, ComesUp, ReadsMessage, BeginsTyping, Types, Submits, Samples, Publishes, Ends,
         Completes, ReportsFailure, Fails, StopsBrowser, Closes, TypesPart, Raises, Dies, InTry, At
    <3>2. RunOk(proc[p], gens[g], typed[g])
      BY <1>3, <2>2, ConversationAssumption DEF Inv, RunInv
    <3>. QED  BY <2>2, <3>1, <3>2 DEF RunOk
  <2>. QED  BY <2>1, <2>2
<1>4. ASSUME NEW p \in Process, Works(p) \/ TypesPart(p) \/ Raises(p) \/ Dies(p),
             proc[p].gen = g, proc[p].pc \in {"stop", "close"}, proc[p].finished
      PROVE  \/ UNCHANGED gens
             \/ \E o : Files(p, [gens[g] EXCEPT !.lock = o])
  <2>1. CASE Closes(p)
    <3>1. Files(p, [gens[g] EXCEPT !.lock = None, !.done = gens[g].done])
      BY <1>4, <2>1 DEF Closes, NeedsOutcome, Dir
    <3>2. [gens[g] EXCEPT !.lock = None, !.done = gens[g].done] = [gens[g] EXCEPT !.lock = None]
      BY <1>1 DEF Folders
    <3>. QED  BY <3>1, <3>2
  <2>2. CASE StopsBrowser(p)
    BY <2>2 DEF StopsBrowser
  <2>3. CASE Raises(p) \/ Dies(p)
    <3>1. Files(p, [gens[g] EXCEPT !.lock = IF @ = p THEN None ELSE @])
      BY <1>4, <2>3 DEF Raises, Dies, Dir, InTry
    <3>. DEFINE o == IF gens[g].lock = p THEN None ELSE gens[g].lock
    <3>2. Files(p, [gens[g] EXCEPT !.lock = o])
      BY <3>1
    <3>. HIDE DEF o
    <3>. QED  BY <3>2
  <2>. QED  BY <1>4, <2>1, <2>2, <2>3
            DEF Works, Acquires, AcquireMoves, AcquireLocks, AcquireNames, Cleans, Converses,
            Starts, ComesUp, ReadsMessage, BeginsTyping, Types, Submits, Samples, Publishes, Ends,
            Completes, ReportsFailure, Fails, TypesPart, At
<1>5. ASSUME NEW p \in Process, proc[p].gen = g, NEW o, Files(p, [gens[g] EXCEPT !.lock = o])
      PROVE  /\ gens'[g].done = gens[g].done /\ gens'[g].answers = gens[g].answers
             /\ gens'[g].failure = gens[g].failure /\ gens'[g].ready = gens[g].ready
  <2>. DEFINE f == [gens[g] EXCEPT !.lock = o]
  <2>1. /\ f.done = gens[g].done /\ f.answers = gens[g].answers
        /\ f.failure = gens[g].failure /\ f.ready = gens[g].ready
    BY <1>1 DEF Folders
  <2>2. Files(p, f)
    BY <1>5
  <2>. HIDE DEF f
  <2>3. gens'[g] = f
    BY <1>5, <2>2, FilesIs DEF Inv
  <2>. QED  BY <2>1, <2>3
<1>6. ASSUME NEW p \in Process, NEW h \in Gen, AcquireMoves(p, h)
      PROVE  /\ gens'[g].done = gens[g].done /\ gens'[g].answers = gens[g].answers
             /\ gens'[g].failure = gens[g].failure /\ gens'[g].ready = gens[g].ready
  <2>. DEFINE f == [gens[h] EXCEPT !.there = TRUE]
  <2>1. CASE gens' = [gens EXCEPT ![h] = f]
    <3>1. /\ f.done = gens[h].done /\ f.answers = gens[h].answers
          /\ f.failure = gens[h].failure /\ f.ready = gens[h].ready
      BY <1>1 DEF Folders
    <3>. HIDE DEF f
    <3>. QED  BY <1>1, <2>1, <3>1
  <2>. QED  BY <1>2, <1>6, <2>1 DEF AcquireMoves
<1>7. ASSUME NEW p \in Process, Works(p) \/ TypesPart(p) \/ Raises(p) \/ Dies(p)
      PROVE  /\ gens'[g].done = gens[g].done /\ gens'[g].answers = gens[g].answers
             /\ gens'[g].failure = gens[g].failure /\ gens'[g].ready = gens[g].ready
  BY <1>2, <1>3, <1>4, <1>5, <1>6, <1>7, StepStays
<1>8. CASE \/ \E k \in 1..Turns, m \in Message : Sends(k, m)
           \/ Stops \/ PageChanges \/ UNCHANGED vars
  BY <1>8, HostStays
<1>. QED  BY <1>7, <1>8 DEF Next

\* RunDirectoryLease.finish and close: the outcome of a generation is written once, and
\* after it the run adds and removes nothing, whatever raised in the handlers.
THEOREM OutcomeIsOnce == Spec => OutcomeIsFinal
<1>1. Inv /\ [Next]_vars =>
        [\A g \in Gen : gens[g].done # None =>
            /\ gens'[g].done = gens[g].done /\ gens'[g].answers = gens[g].answers
            /\ gens'[g].failure = gens[g].failure /\ gens'[g].ready = gens[g].ready]_vars
  BY OutcomeKept
<1>. QED  BY InvInit, InvNext, <1>1, PTL DEF Spec, OutcomeIsFinal
=============================================================================
