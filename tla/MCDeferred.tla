----------------------------- MODULE MCDeferred -----------------------------
(***************************************************************************)
(* Small instances of Speculation, CommandQueue and Secrets, the places     *)
(* where work waits for another thread or for later, in one run: a          *)
(* behaviour is a behaviour of one of them, chosen initially, while the     *)
(* others stay as they began.                                               *)
(***************************************************************************)
EXTENDS Speculation, TLC

CONSTANTS m1, m2, m3, m4, Msg, Id, IdOf, Broken, Stop, Worker, MaxDeaths, Plain, Prepared, Passkey, MaxRotations

VARIABLES pending, claimed, completed, log, claimLease, logLease, wk, sent, executed, answered, deaths, part
VARIABLES provider, calls, worker, raced

Q == INSTANCE CommandQueue WITH ran <- executed
X == INSTANCE Secrets WITH call <- calls

queueVars == <<pending, claimed, completed, log, claimLease, logLease, wk, sent, executed, answered, deaths>>
secretVars == <<provider, calls, worker, raced>>

\* The constants of CommandQueue are as it wants them.
ASSUME QueueInstance == Q!QueueAssumption

MCNoPlan == <<>>

\* Two pairs of commands share an identifier.
MCIdOf == (m1 :> 1) @@ (m2 :> 1) @@ (m3 :> 2) @@ (m4 :> 2)

DeferredInit == Init /\ Q!Init /\ X!Init /\ part \in {"speculation", "queue", "secrets"}

DeferredNext ==
    \/ part = "speculation" /\ Next /\ UNCHANGED <<queueVars, secretVars, part>>
    \/ part = "queue" /\ Q!Next /\ UNCHANGED <<vars, secretVars, part>>
    \/ part = "secrets" /\ X!Next /\ UNCHANGED <<vars, queueVars, part>>

\* The fairness of CommandQueue and of Secrets, each while it is the part that runs.
DeferredSpec ==
    /\ DeferredInit /\ [][DeferredNext]_<<vars, queueVars, secretVars, part>>
    /\ \A w \in Worker : WF_queueVars(part = "queue" /\ Q!Works(w))
    /\ \A k \in X!Call : WF_secretVars(part = "secrets" /\ X!Proceeds(k))
-----------------------------------------------------------------------------
\* The properties of CommandQueue as they are stated there: no command is lost, run twice
\* or left out of the log of runtime/file_queue.py and publication.py.
QueueKeeps == Q!RunsOnce /\ Q!NothingLost /\ Q!LogTellsAll

\* As Secrets states it: a prepared fill gets the generation of its secret that was bound
\* (authentication/secrets.py), and nothing of a call that gave up reaches a page.
SecretsAsBound == X!SecretsAsBound

\* As they are stated there: what waits in pending of runtime/file_queue.py is claimed while
\* a worker lives, and a call that waits for a provider or a transport of the host ends.
WaitingEnds == Q!Drains /\ X!CallsEnd
=============================================================================
