---------------------------- MODULE CommandQueue ----------------------------
(***************************************************************************)
(* runtime/file_queue.py served by the loop of                              *)
(* experiments/live_browser_conversation_driver.py, with the event log of   *)
(* runtime/publication.py.                                                  *)
(*                                                                          *)
(* Producers link command files into pending; a worker moves one to         *)
(* claimed, runs it, appends its event to the log, publishes the result and *)
(* removes the claimed file.  Claims are kept apart by one file lease, log  *)
(* appends by another.  Files survive a worker that dies, its leases do     *)
(* not.  Several workers may serve one queue; the driver is the case of one.*)
(***************************************************************************)
EXTENDS Naturals, Sequences, SequencesExt

CONSTANTS
    Msg,        \* the commands, each published at most once
    Id,         \* message identifiers, ordered as file names are
    IdOf,       \* IdOf[m]: the identifier m is published under
    Broken,     \* commands without a kind: running them raises outside the handler
    Stop,       \* commands that stop the worker
    Worker, None, MaxDeaths

\* What the constants are; an instance assumes it.
QueueAssumption ==
    /\ Id \subseteq Nat /\ IdOf \in [Msg -> Id] /\ None \notin Msg \cup Worker
    /\ Broken \subseteq Msg /\ Stop \subseteq Msg /\ Broken \cap Stop = {} /\ MaxDeaths \in Nat

VARIABLES
    pending,    \* pending[i]: the command in pending/i.json, or None
    claimed,    \* the commands in claimed/, each in a file of its own name
    completed,  \* completed[i]: the command whose result is in completed/i.json
    log,        \* the lines of the event log
    claimLease, logLease,
    wk,         \* wk[w]: the worker's place, what it read, the file it moved, the log it read
    sent, ran, answered, deaths  \* history; ran[m]: how often m ran

files == <<pending, claimed, completed, log>>
vars  == <<files, claimLease, logLease, wk, sent, ran, answered, deaths>>

Places == {"idle", "claiming", "read", "run", "append", "appending", "result", "unlink", "ended", "dead"}
Fresh  == [pc |-> "idle", id |-> 0, msg |-> None, file |-> None, seen |-> <<>>]

Init ==
    /\ pending = [i \in Id |-> None] /\ claimed = {} /\ completed = [i \in Id |-> None] /\ log = <<>>
    /\ claimLease = None /\ logLease = None /\ wk = [w \in Worker |-> Fresh]
    /\ sent = {} /\ ran = [m \in Msg |-> 0] /\ answered = {} /\ deaths = 0
-----------------------------------------------------------------------------
At(w, place)    == wk[w].pc = place
Goes(w, place)  == wk' = [wk EXCEPT ![w].pc = place]

\* publish: the complete temporary file is linked, which fails when the name exists.
Publish(m) ==
    /\ m \notin sent /\ pending[IdOf[m]] = None
    /\ pending' = [pending EXCEPT ![IdOf[m]] = m] /\ sent' = sent \cup {m}
    /\ UNCHANGED <<claimed, completed, log, claimLease, logLease, wk, ran, answered, deaths>>

Obtainable(lease) == lease = None

ClaimBegins(w) ==
    /\ At(w, "idle") /\ Obtainable(claimLease) /\ claimLease' = w /\ Goes(w, "claiming")
    /\ UNCHANGED <<files, logLease, sent, ran, answered, deaths>>

Waiting  == {i \in Id : pending[i] # None}
FirstOf(S) == CHOOSE i \in S : \A j \in S : i <= j

ClaimFindsNone(w) ==
    /\ At(w, "claiming") /\ Waiting = {} /\ claimLease' = None /\ Goes(w, "idle")
    /\ UNCHANGED <<files, logLease, sent, ran, answered, deaths>>

ClaimReads(w) ==
    /\ At(w, "claiming") /\ Waiting # {}
    /\ LET i == FirstOf(Waiting)
       IN  wk' = [wk EXCEPT ![w].pc = "read", ![w].id = i, ![w].msg = pending[i]]
    /\ UNCHANGED <<files, claimLease, logLease, sent, ran, answered, deaths>>

\* The file is moved; one that is gone makes the scan go on to the next.
ClaimMoves(w) ==
    LET i == wk[w].id IN
    /\ At(w, "read")
    /\ IF pending[i] = None
       THEN /\ Goes(w, "claiming") /\ UNCHANGED <<files, claimLease>>
       ELSE /\ pending' = [pending EXCEPT ![i] = None] /\ claimed' = claimed \cup {pending[i]}
            /\ wk' = [wk EXCEPT ![w].pc = "run", ![w].file = pending[i]] /\ claimLease' = None
            /\ UNCHANGED <<completed, log>>
    /\ UNCHANGED <<logLease, sent, ran, answered, deaths>>

\* What a declared command does, or raises, ends up in its result; a command without
\* a kind raises outside the handler and ends the run, its file left in claimed.
Run(w) ==
    LET m == wk[w].msg IN
    /\ At(w, "run") /\ ran' = [ran EXCEPT ![m] = @ + 1]
    /\ Goes(w, IF m \in Broken THEN "ended" ELSE "append")
    /\ UNCHANGED <<files, claimLease, logLease, sent, answered, deaths>>
-----------------------------------------------------------------------------
(* append_json_line: the whole file is read, and published with a line more. *)

Appendable(lease) == lease = None

AppendBegins(w) ==
    /\ At(w, "append") /\ Appendable(logLease) /\ logLease' = w
    /\ wk' = [wk EXCEPT ![w].pc = "appending", ![w].seen = log]
    /\ UNCHANGED <<files, claimLease, sent, ran, answered, deaths>>

AppendEnds(w) ==
    /\ At(w, "appending") /\ log' = Append(wk[w].seen, wk[w].msg) /\ logLease' = None
    /\ wk' = [wk EXCEPT ![w].pc = "result", ![w].seen = <<>>]
    /\ UNCHANGED <<pending, claimed, completed, claimLease, sent, ran, answered, deaths>>

\* Mutant: the claimed file is removed before the result is there.
UnlinkFirst(w, place) == place = IF At(w, "result") THEN "unlink" ELSE "result"

ResultFirst(w, place) == place = IF At(w, "result") THEN "result" ELSE "unlink"

CompleteGoesOn(w) ==
    IF At(w, "result") THEN Goes(w, "unlink")
    ELSE wk' = [wk EXCEPT ![w] = [Fresh EXCEPT !.pc = IF wk[w].msg \in Stop THEN "ended" ELSE "idle"]]

\* complete: the result is published under the identifier, then the claim removed.
CompletePublishes(w) ==
    /\ wk[w].pc \in {"result", "unlink"} /\ ResultFirst(w, "result")
    /\ completed' = [completed EXCEPT ![wk[w].id] = wk[w].msg] /\ answered' = answered \cup {wk[w].msg}
    /\ CompleteGoesOn(w)
    /\ UNCHANGED <<pending, claimed, log, claimLease, logLease, sent, ran, deaths>>

CompleteUnlinks(w) ==
    /\ wk[w].pc \in {"result", "unlink"} /\ ResultFirst(w, "unlink")
    /\ claimed' = claimed \ {wk[w].file}
    /\ CompleteGoesOn(w)
    /\ UNCHANGED <<pending, completed, log, claimLease, logLease, sent, ran, answered, deaths>>
-----------------------------------------------------------------------------
DroppedBy(lease, w) == IF lease = w THEN None ELSE lease

\* The system drops the leases of a process that dies, wherever it is.
Dies(w) ==
    /\ wk[w].pc \notin {"ended", "dead"} /\ deaths < MaxDeaths /\ deaths' = deaths + 1
    /\ wk' = [wk EXCEPT ![w] = [Fresh EXCEPT !.pc = "dead"]]
    /\ claimLease' = DroppedBy(claimLease, w)
    /\ logLease' = DroppedBy(logLease, w)
    /\ UNCHANGED <<files, sent, ran, answered>>

\* Another process opens the queue: nothing it finds in claimed is taken back.
Reopens(w) ==
    /\ At(w, "dead") /\ wk' = [wk EXCEPT ![w] = Fresh]
    /\ UNCHANGED <<files, claimLease, logLease, sent, ran, answered, deaths>>

Claims(w)    == ClaimBegins(w) \/ ClaimFindsNone(w) \/ ClaimReads(w) \/ ClaimMoves(w)
Answers(w)   == AppendBegins(w) \/ AppendEnds(w) \/ CompletePublishes(w) \/ CompleteUnlinks(w)
Works(w)     == Claims(w) \/ Run(w) \/ Answers(w)

Next ==
    \/ \E m \in Msg : Publish(m)
    \/ \E w \in Worker : Works(w) \/ Dies(w) \/ Reopens(w)

Spec == Init /\ [][Next]_vars /\ \A w \in Worker : WF_vars(Works(w))
-----------------------------------------------------------------------------
\* The state has its type, and a lease is held by the worker that is where it is needed.
TypeOK ==
    /\ pending \in [Id -> Msg \cup {None}] /\ claimed \subseteq Msg /\ completed \in [Id -> Msg \cup {None}]
    /\ log \in Seq(Msg)
    /\ \A w \in Worker : (claimLease = w <=> wk[w].pc \in {"claiming", "read"}) /\ (logLease = w <=> At(w, "appending"))
    /\ claimLease \in Worker \cup {None} /\ logLease \in Worker \cup {None}
    /\ wk \in [Worker -> [pc : Places, id : Id \cup {0}, msg : Msg \cup {None}, file : Msg \cup {None},
                          seen : Seq(Msg)]]
    /\ sent \subseteq Msg /\ ran \in [Msg -> Nat] /\ answered \subseteq Msg /\ deaths \in 0..MaxDeaths

\* A command runs at most once, whoever claims, dies and opens the queue again, and
\* although its identifier becomes free while it runs.
RunsOnce == \A m \in Msg : ran[m] <= 1

\* Every command that was accepted is waiting, or lies in claimed, or was answered:
\* no death of a worker makes one disappear.  The state has its type throughout.
NothingLost == TypeOK /\ \A m \in sent : pending[IdOf[m]] = m \/ m \in claimed \/ m \in answered

\* The log has a line for every answered command and no line twice: rewriting the whole
\* file for every line, by several workers, loses none.
LogTellsAll == IsInjective(log) /\ answered \subseteq ToSet(log)

\* What waits is claimed, unless every worker has ended or died.
Drains ==
    \A m \in Msg : (\E i \in Id : pending[i] = m) ~>
        (m \in claimed \/ m \in answered \/ \A w \in Worker : wk[w].pc \in {"ended", "dead"})
=============================================================================
