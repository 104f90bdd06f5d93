---------------------------- MODULE Conversation ----------------------------
(***************************************************************************)
(* A live conversation: experiments/gemini_live_20260731/                   *)
(* live_conversation.py with runtime/run_ownership.py, typing_session.py,   *)
(* session.py and inbox.py.                                                 *)
(*                                                                          *)
(* A driver process acquires a run generation (a directory and a lock),     *)
(* starts the one browser profile, and takes turns: it waits for the file   *)
(* of the turn's message, types it in pieces, presses Enter, samples the    *)
(* page until the monitor calls the answer complete, publishes the answer.  *)
(* A host writes messages and STOP files; the page goes on by itself.  Any  *)
(* call may raise, a process may die.                                       *)
(***************************************************************************)
EXTENDS Generation, FiniteSets, SequencesExt

CONSTANTS
    Process, Gen,
    Asks,           \* Asks[p]: the generation ids process p may ask for
    Turns,          \* the turns the host may write messages for: 1..Turns
    Message,        \* the messages it may write
    Spoken,         \* the generations it writes messages for; it may stop any
    Keys,           \* Keys[m]: the characters of m
    Chunk,          \* max_text_chunk_characters
    MaxChanges,     \* how often the page shows something new
    MaxClock, MaxFaults

ASSUME ConversationAssumption ==
    /\ None \notin Gen \cup Message
    /\ Turns \in Nat /\ Chunk \in Nat \ {0}
    /\ Asks \in [Process -> SUBSET Gen] /\ Spoken \subseteq Gen
    /\ Keys \in [Message -> Seq({"char", "enter", "bad"})]  \* typed, pressed alone, neither

VARIABLES
    gens,       \* gens[g]: what is on disk of generation g
    current,    \* the generation the current file names, or None
    profile,    \* the process whose browser holds the profile, or None
    page,       \* the page of that browser
    proc,       \* proc[p]: where the process is and what it remembers
    faults,
    typed       \* history: typed[g][k]: the message of turn k, the keys pressed for it, the text it began with

vars == <<gens, current, profile, page, proc, faults, typed>>

Empty == [there |-> FALSE, lock |-> None, done |-> None, stop |-> FALSE, ready |-> FALSE, failure |-> FALSE,
          inbox |-> [k \in 1..Turns |-> None], answers |-> <<>>]
NoPage == [box |-> <<>>, sent |-> 0, shown |-> 0, active |-> FALSE]
NewRun == [pc |-> "new", gen |-> None, turn |-> 1, msg |-> None, index |-> 0, finished |-> FALSE,
           clock |-> 0, monitor |-> None, error |-> FALSE]

Init ==
    /\ gens = [g \in Gen |-> Empty] /\ current = None /\ profile = None /\ page = NoPage
    /\ proc = [p \in Process |-> NewRun] /\ faults = 0
    /\ typed = [g \in Gen |-> [k \in 1..Turns |-> [msg |-> None, keys |-> <<>>, baseline |-> None]]]
-----------------------------------------------------------------------------
At(p, place)   == proc[p].pc = place
Goes(p, place) == proc' = [proc EXCEPT ![p].pc = place]
Dir(p)         == gens[proc[p].gen]
Files(p, f)    == gens' = [gens EXCEPT ![proc[p].gen] = f]

\* Whatever raises inside the try ends in the same handler.
InTry == {"start", "interface", "top", "read", "wait", "type", "submit", "await", "publish", "finish"}

Faulty == faults < MaxFaults /\ faults' = faults + 1
-----------------------------------------------------------------------------
(* acquire_run_generation: the directory is built aside, moved into place,  *)
(* locked, and named by the current file.                                   *)

Vacant(g) == ~gens[g].there

AcquireMoves(p, g) ==
    /\ At(p, "new")
    /\ IF Vacant(g)
       THEN /\ gens' = [gens EXCEPT ![g] = [@ EXCEPT !.there = TRUE]]
            /\ proc' = [proc EXCEPT ![p].pc = "lock", ![p].gen = g]
       ELSE Goes(p, "ended") /\ UNCHANGED gens
    /\ UNCHANGED <<current, profile, page, faults, typed>>

AcquireLocks(p) ==
    /\ At(p, "lock")
    /\ IF Dir(p).lock = None
       THEN Files(p, [Dir(p) EXCEPT !.lock = p]) /\ Goes(p, "name")
       ELSE Goes(p, "ended") /\ UNCHANGED gens
    /\ UNCHANGED <<current, profile, page, faults, typed>>

AcquireNames(p) ==
    /\ At(p, "name") /\ current' = proc[p].gen /\ Goes(p, "clean")
    /\ UNCHANGED <<gens, profile, page, faults, typed>>

\* main: status, failure and STOP of an earlier run are removed before the browser starts.
Cleans(p) ==
    /\ At(p, "clean") /\ Goes(p, "start")
    /\ Files(p, [Dir(p) EXCEPT !.ready = FALSE, !.failure = FALSE, !.stop = FALSE])
    /\ UNCHANGED <<current, profile, page, faults, typed>>
-----------------------------------------------------------------------------
BrowserGone(p) ==
    IF profile = p THEN profile' = None /\ page' = NoPage ELSE UNCHANGED <<profile, page>>

Starts(p) ==
    /\ At(p, "start")
    /\ IF profile = None
       THEN profile' = p /\ page' = NoPage /\ Goes(p, "interface")
       ELSE Goes(p, "fail") /\ UNCHANGED <<profile, page>>
    /\ UNCHANGED <<gens, current, faults, typed>>

\* The page is observed until it shows one prompt; the other ways out raise.
ComesUp(p) ==
    /\ At(p, "interface") /\ Files(p, [Dir(p) EXCEPT !.ready = TRUE]) /\ Goes(p, "top")
    /\ UNCHANGED <<current, profile, page, faults, typed>>

\* Mutant: STOP is looked for at the top of a turn only.
StopsAtTop(p) == At(p, "top") /\ Dir(p).stop

SeesStop(p) == Dir(p).stop

\* STOP is looked for before a message is read, while there is none, and after it is read.
ReadsMessage(p) ==
    LET k == proc[p].turn IN
    /\ proc[p].pc \in {"top", "wait"}
    /\ IF SeesStop(p) THEN Goes(p, "finish")
       ELSE IF k > Turns \/ Dir(p).inbox[k] = None THEN Goes(p, "wait")
       ELSE proc' = [proc EXCEPT ![p].pc = "read", ![p].msg = Dir(p).inbox[k]]
    /\ UNCHANGED <<gens, current, profile, page, faults, typed>>

Text == <<page.sent, page.shown>>

\* The prompt is found, its reference validated, and the text of the page becomes the
\* baseline; the typing session begins with a click on the prompt.
BeginsTyping(p) ==
    /\ At(p, "read")
    /\ IF SeesStop(p) THEN Goes(p, "finish") /\ UNCHANGED typed
       ELSE /\ proc' = [proc EXCEPT ![p].pc = "type", ![p].index = 0, ![p].monitor = NewMonitor(Text)]
            /\ typed' = [typed EXCEPT ![proc[p].gen][proc[p].turn].msg = proc[p].msg]
    /\ UNCHANGED <<gens, current, profile, page, faults>>
-----------------------------------------------------------------------------
(* TypingSession.run: control keys one by one, printable text in chunks.    *)

Control == {"enter"}

\* Where the chunk that begins after index ends: before a control key, an unprintable
\* character, or the limit.
ChunkEnd(text, index) ==
    LET ends == {e \in index..Len(text) : e <= index + Chunk /\ \A i \in (index + 1)..e : text[i] = "char"}
    IN  CHOOSE e \in ends : \A f \in ends : f <= e

\* Mutant: the index goes on by the chunk limit whatever was typed.
ConsumedLimit(text, index) ==
    IF index + Chunk <= Len(text) THEN index + Chunk ELSE Len(text)

\* What is typed next, up to which index; nothing, for a character that cannot be typed.
Consumed(text, index) == IF text[index + 1] \in Control THEN index + 1 ELSE ChunkEnd(text, index)

Batch(text, index) ==
    IF text[index + 1] \in Control THEN SubSeq(text, index + 1, index + 1)
    ELSE SubSeq(text, index + 1, ChunkEnd(text, index))

\* Enter submits what is in the box, other keys go into it.
Press(pg, key) ==
    IF key # "enter" THEN [pg EXCEPT !.box = Append(@, key)]
    ELSE IF pg.box = <<>> THEN pg ELSE [pg EXCEPT !.box = <<>>, !.sent = @ + 1]

Presses(p, keys) ==
    /\ page' = FoldLeft(Press, page, keys)
    /\ typed' = [typed EXCEPT ![proc[p].gen][proc[p].turn].keys = @ \o keys]

Types(p) ==
    LET text == Keys[proc[p].msg]  i == proc[p].index IN
    /\ At(p, "type")
    /\ IF i = Len(text) THEN Goes(p, "submit") /\ UNCHANGED <<page, typed>>
       ELSE IF Batch(text, i) = <<>> THEN Goes(p, "fail") /\ UNCHANGED <<page, typed>>
       ELSE Presses(p, Batch(text, i)) /\ proc' = [proc EXCEPT ![p].index = Consumed(text, i)]
    /\ UNCHANGED <<gens, current, profile, faults>>

\* The browser raises after a part of the batch: the session fails, nothing is typed again.
TypesPart(p) ==
    LET text == Keys[proc[p].msg]  i == proc[p].index IN
    /\ At(p, "type") /\ i < Len(text) /\ Faulty /\ Goes(p, "fail")
    /\ \E n \in 0..Len(Batch(text, i)) : Presses(p, SubSeq(Batch(text, i), 1, n))
    /\ UNCHANGED <<gens, current, profile>>

\* Enter, through an operation whose verdict must be VERIFIED.
Submits(p) ==
    /\ At(p, "submit") /\ Presses(p, <<"enter">>)
    /\ \E verified \in BOOLEAN : Goes(p, IF verified THEN "await" ELSE "fail")
    /\ UNCHANGED <<gens, current, profile, faults>>
-----------------------------------------------------------------------------
\* await_completion: a fresh sample every two seconds, until the monitor says something.
Samples(p) ==
    LET s == [text |-> Text, active |-> page.active, fresh |-> TRUE, at |-> proc[p].clock + 1]
        m == MonitorStep(proc[p].monitor, s)
    IN  /\ At(p, "await") /\ proc[p].clock < MaxClock
        /\ proc' = [proc EXCEPT ![p].clock = @ + 1, ![p].monitor = m,
                                ![p].pc = CASE m.status = "completed" -> "publish"
                                            [] m.status = "generation_stalled" -> "fail"
                                            [] OTHER -> "await"]
        /\ UNCHANGED <<gens, current, profile, page, faults, typed>>

\* The answer is the text of the sample that completed it.
Publishes(p) ==
    /\ At(p, "publish")
    /\ Files(p, [Dir(p) EXCEPT !.answers = Append(@, proc[p].monitor.text)])
    /\ typed' = [typed EXCEPT ![proc[p].gen][proc[p].turn].baseline = proc[p].monitor.baseline]
    /\ proc' = [proc EXCEPT ![p] = [NewRun EXCEPT !.pc = "top", !.gen = proc[p].gen, !.turn = proc[p].turn + 1]]
    /\ UNCHANGED <<current, profile, page, faults>>
-----------------------------------------------------------------------------
(* RunDirectoryLease.finish and close. *)

Finishes(p, outcome) ==
    /\ Files(p, [Dir(p) EXCEPT !.done = outcome])
    /\ proc' = [proc EXCEPT ![p].pc = "stop", ![p].finished = TRUE]
    /\ UNCHANGED <<current, profile, page, faults, typed>>

Completes(p) == At(p, "finish") /\ Finishes(p, "completed")

\* The handler writes failure.json, then the outcome.
ReportsFailure(p) ==
    /\ At(p, "fail") /\ Files(p, [Dir(p) EXCEPT !.failure = TRUE]) /\ Goes(p, "failed")
    /\ UNCHANGED <<current, profile, page, faults, typed>>

Fails(p) == At(p, "failed") /\ Finishes(p, "failed")

StopsBrowser(p) ==
    /\ At(p, "stop") /\ Goes(p, "close") /\ BrowserGone(p)
    /\ UNCHANGED <<gens, current, faults, typed>>

\* Mutant: close writes an outcome whether or not there is one.
NeedsOutcomeAnyway(p) == TRUE

NeedsOutcome(p) == ~proc[p].finished

Closes(p) ==
    /\ At(p, "close") /\ Goes(p, "ended")
    /\ Files(p, [Dir(p) EXCEPT !.lock = None, !.done = IF NeedsOutcome(p) THEN "stopped" ELSE @])
    /\ UNCHANGED <<current, profile, page, faults, typed>>

\* What raises in the try is handled; in the handler it is not, but the finally runs; when
\* the browser does not stop, or the outcome is not written, the process ends as it is.
Raises(p) ==
    /\ Faulty
    /\ \/ /\ proc[p].pc \in InTry /\ Goes(p, "fail") /\ UNCHANGED <<gens, profile, page>>
       \/ /\ proc[p].pc \in {"fail", "failed"} /\ Goes(p, "stop") /\ UNCHANGED <<gens, profile, page>>
       \/ /\ proc[p].pc \in {"lock", "name", "clean", "stop", "close"} /\ Goes(p, "ended")
          /\ Files(p, [Dir(p) EXCEPT !.lock = IF @ = p THEN None ELSE @])
          /\ BrowserGone(p)
    /\ UNCHANGED <<current, typed>>

\* A dying process leaves the files; the system takes its lock and its browser.
Dies(p) ==
    /\ proc[p].pc \notin {"new", "ended"} /\ Faulty /\ Goes(p, "ended")
    /\ Files(p, [Dir(p) EXCEPT !.lock = IF @ = p THEN None ELSE @])
    /\ BrowserGone(p)
    /\ UNCHANGED <<current, typed>>
-----------------------------------------------------------------------------
(* The host and the page. *)

\* The host finds the generation by the current file, and replaces files as it likes.
Sends(k, m) ==
    /\ current \in Spoken /\ gens[current].inbox[k] = None
    /\ gens' = [gens EXCEPT ![current].inbox[k] = m]
    /\ UNCHANGED <<current, profile, page, proc, faults, typed>>

Stops ==
    /\ current # None /\ ~gens[current].stop
    /\ gens' = [gens EXCEPT ![current].stop = TRUE]
    /\ UNCHANGED <<current, profile, page, proc, faults, typed>>

PageChanges ==
    /\ profile # None /\ page.sent > 0
    /\ \/ /\ page.shown < MaxChanges /\ page' = [page EXCEPT !.shown = @ + 1, !.active = TRUE]
       \/ /\ page.active /\ page' = [page EXCEPT !.active = FALSE]
    /\ UNCHANGED <<gens, current, profile, proc, faults, typed>>

Acquires(p) == (\E g \in Asks[p] : AcquireMoves(p, g)) \/ AcquireLocks(p) \/ AcquireNames(p) \/ Cleans(p)
Converses(p) ==
    \/ Starts(p) \/ ComesUp(p) \/ ReadsMessage(p) \/ BeginsTyping(p) \/ Types(p) \/ Submits(p)
    \/ Samples(p) \/ Publishes(p)
Ends(p)  == Completes(p) \/ ReportsFailure(p) \/ Fails(p) \/ StopsBrowser(p) \/ Closes(p)
Works(p) == Acquires(p) \/ Converses(p) \/ Ends(p)

Next ==
    \/ \E p \in Process : Works(p) \/ TypesPart(p) \/ Raises(p) \/ Dies(p)
    \/ \E k \in 1..Turns, m \in Message : Sends(k, m)
    \/ Stops \/ PageChanges

Spec == Init /\ [][Next]_vars /\ \A p \in Process : WF_vars(Works(p))
-----------------------------------------------------------------------------
\* Turns follow one another: the keys pressed for a turn are those of its message and one
\* Enter, in order and none twice, however the message is cut into pieces; an answer is
\* published only when all of them were pressed, and it is not the text before the turn.
AnsweredInTurn ==
    \A g \in Gen, k \in 1..Turns :
        LET t == typed[g][k]
            due == IF t.msg = None THEN <<>> ELSE Append(Keys[t.msg], "enter")
        IN  /\ IsPrefix(t.keys, due)
            /\ k > Len(gens[g].answers) + 1 => t.keys = <<>>
            /\ k <= Len(gens[g].answers) => t.keys = due /\ t.msg # None /\ gens[g].answers[k] # t.baseline

\* A generation's outcome is written once, and after it the run adds and removes nothing:
\* whatever raised, and in whichever order the handler, the finally and close ran.
OutcomeIsFinal ==
    [][\A g \in Gen : gens[g].done # None =>
          /\ gens'[g].done = gens[g].done /\ gens'[g].answers = gens[g].answers
          /\ gens'[g].failure = gens[g].failure /\ gens'[g].ready = gens[g].ready]_vars

\* A run that looks for its next message sees a STOP, also one written while it waits, and ends.
StopObeyed ==
    \A p \in Process : (proc[p].pc \in {"top", "wait"} /\ Dir(p).stop) ~> At(p, "ended")
=============================================================================
