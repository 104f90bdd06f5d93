------------------------------ MODULE Secrets ------------------------------
(***************************************************************************)
(* Secrets and passkeys of operations (authentication/secrets.py, webauthn  *)
(* and capability): a fill resolves its secret at dispatch, or was prepared *)
(* with the generation the provider had then and is to get that one; an     *)
(* operation may ask the host to take part in WebAuthn.  Providers and      *)
(* transports run in a thread of their own, which outlives a caller whose   *)
(* deadline passes.  There is one reference, in the provider that the       *)
(* sessions share; a provider that was never given is one that was cleared. *)
(***************************************************************************)
EXTENDS Naturals

CONSTANTS
    Plain,          \* fills that resolve when they are dispatched
    Prepared,       \* fills that are prepared, and committed later
    Passkey,        \* operations that ask for a passkey
    MaxRotations    \* bounds the rotations of the secret

VARIABLES
    provider,       \* the generation of the value, and whether it is present
    call,           \* call[c]: where the caller of c is, what it was told, the generation
                    \* bound at prepare, and the generation put into the page, 0 for none
    worker,         \* worker[c]: where the thread of c is, and the generation in its buffer
    raced           \* history: the calls with a rotation between the thread's check and read

vars == <<provider, call, worker, raced>>

Call    == Plain \cup Prepared \cup Passkey
Version == 1..(MaxRotations + 1)
Working == {"begun", "checked"}

SecretsTypeOK ==
    /\ provider \in [generation : Version, present : BOOLEAN]
    /\ call \in [Call -> [at : {"idle", "prepared", "committed", "waiting", "filling", "over"},
                          told : STRING, bound : Version \cup {0}, filled : Version \cup {0}]]
    /\ worker \in [Call -> [at : STRING, buffer : Version \cup {0}]]
    /\ raced \subseteq Prepared

Init ==
    /\ provider = [generation |-> 1, present |-> TRUE]
    /\ call = [c \in Call |-> [at |-> "idle", told |-> "", bound |-> 0, filled |-> 0]]
    /\ worker = [c \in Call |-> [at |-> "none", buffer |-> 0]]
    /\ raced = {}

IsBound(c) == provider.present /\ provider.generation = call[c].bound

Ends(c, told) == call' = [call EXCEPT ![c].at = "over", ![c].told = told]
-----------------------------------------------------------------------------
\* The host rotates the secret.
Replace ==
    /\ provider.generation \in 1..MaxRotations
    /\ provider' = [generation |-> provider.generation + 1, present |-> TRUE]
    /\ raced' = raced \cup {c \in Prepared : worker[c].at = "checked"}
    /\ UNCHANGED <<call, worker>>

\* The stop of any session that shares the provider clears it; the generation stays.
Clear ==
    /\ provider.present
    /\ provider' = [provider EXCEPT !.present = FALSE]
    /\ UNCHANGED <<call, worker, raced>>

Prepare(c) ==
    /\ c \in Prepared /\ call[c].at = "idle"
    /\ IF provider.present
       THEN call' = [call EXCEPT ![c].at = "prepared", ![c].bound = provider.generation]
       ELSE Ends(c, "secret_binding_unavailable")
    /\ UNCHANGED <<provider, worker, raced>>

\* The check before the token is consumed.
Commit(c) ==
    /\ c \in Prepared /\ call[c].at = "prepared"
    /\ IF IsBound(c)
       THEN call' = [call EXCEPT ![c].at = "committed"]
       ELSE Ends(c, "secret_binding_changed")
    /\ UNCHANGED <<provider, worker, raced>>

\* The dispatch hands the call to a thread and waits for it.
Ask(c) ==
    /\ call[c].at = (IF c \in Prepared THEN "committed" ELSE "idle")
    /\ call' = [call EXCEPT ![c].at = "waiting"]
    /\ worker' = [worker EXCEPT ![c].at = "begun"]
    /\ UNCHANGED <<provider, raced>>

\* There is no transport to hand it to.
Unsupported(c) ==
    /\ c \in Passkey /\ call[c].at = "idle"
    /\ Ends(c, "unsupported")
    /\ UNCHANGED <<provider, worker, raced>>
-----------------------------------------------------------------------------
\* resolve_bound in the thread, first half: assert_bound, under the provider's lock.
Check(c) ==
    /\ c \in Prepared /\ worker[c].at = "begun"
    /\ worker' = [worker EXCEPT ![c].at = IF IsBound(c) THEN "checked"
                                          ELSE IF provider.present THEN "secret_binding_changed"
                                          ELSE "secret_not_found"]
    /\ UNCHANGED <<provider, call, raced>>

\* Mutant: the thread does not check the binding.
ReadsUnchecked(c) ==
    /\ c \in Plain \cup Prepared /\ worker[c].at \in Working
    /\ worker' = [worker EXCEPT ![c] =
           IF provider.present THEN [at |-> "value", buffer |-> provider.generation]
           ELSE [at |-> IF c \in Prepared THEN "secret_provider_failed" ELSE "secret_not_found",
                 buffer |-> 0]]
    /\ UNCHANGED <<provider, call, raced>>

\* Its second half, under the lock again, or the whole of get.
Read(c) ==
    /\ c \in Plain \cup Prepared /\ worker[c].at = (IF c \in Prepared THEN "checked" ELSE "begun")
    /\ worker' = [worker EXCEPT ![c] =
           IF provider.present THEN [at |-> "value", buffer |-> provider.generation]
           ELSE [at |-> IF c \in Prepared THEN "secret_provider_failed" ELSE "secret_not_found",
                 buffer |-> 0]]
    /\ UNCHANGED <<provider, call, raced>>

\* The host's transport answers, or breaks the contract.
Participate(c) ==
    /\ c \in Passkey /\ worker[c].at = "begun"
    /\ \E status \in {"completed", "rejected", "indeterminate"} : worker' = [worker EXCEPT ![c].at = status]
    /\ UNCHANGED <<provider, call, raced>>
-----------------------------------------------------------------------------
\* The thread is done before the deadline.
Answered(c) ==
    /\ call[c].at = "waiting" /\ worker[c].at \notin Working
    /\ IF worker[c].at = "value" THEN call' = [call EXCEPT ![c].at = "filling"]
                                 ELSE Ends(c, worker[c].at)
    /\ UNCHANGED <<provider, worker, raced>>

\* Mutant: leaving the thread pool waits for the thread.
WaitsForThread(c) ==
    /\ call[c].at = "waiting" /\ worker[c].at = "none"
    /\ Ends(c, "timed_out")
    /\ UNCHANGED <<provider, worker, raced>>

\* The deadline passes: the call ends, and the thread is cancelled only if it has not
\* taken up its work.
GiveUp(c) ==
    /\ call[c].at = "waiting" /\ worker[c].at \in Working
    /\ Ends(c, "timed_out")
    /\ \/ UNCHANGED worker
       \/ worker[c].at = "begun" /\ worker' = [worker EXCEPT ![c].at = "cancelled"]
    /\ UNCHANGED <<provider, raced>>

\* The value goes into the page, or the browser fails before or after it got there; either
\* way the buffer is cleared.
Fill(c) ==
    /\ call[c].at = "filling"
    /\ \E told \in {"resolved", "session_io_error"}, filled \in {0, worker[c].buffer} :
          /\ told = "resolved" => filled # 0
          /\ call' = [call EXCEPT ![c].at = "over", ![c].told = told, ![c].filled = filled]
    /\ worker' = [worker EXCEPT ![c].buffer = 0]
    /\ UNCHANGED <<provider, raced>>

Next ==
    \/ Replace
    \/ Clear
    \/ \E c \in Call :
        \/ Prepare(c) \/ Commit(c) \/ Ask(c) \/ Unsupported(c)
        \/ Check(c) \/ Read(c) \/ Participate(c)
        \/ Answered(c) \/ GiveUp(c) \/ Fill(c)

\* A caller that waits gets its answer or its deadline, and then goes on; nothing is
\* assumed of the threads, which run the host's code.
Proceeds(c) == Answered(c) \/ GiveUp(c) \/ Fill(c)

Spec == Init /\ [][Next]_vars /\ \A c \in Call : WF_vars(Proceeds(c))
-----------------------------------------------------------------------------
\* What resolve_bound_secret (authentication/secrets.py:341) and the comment at
\* runtime/stateful_session.py:575 say: a prepared fill gets exactly the generation that
\* was bound when it was prepared.
FilledAsPrepared ==
    \A c \in Prepared : call[c].filled \in {0, call[c].bound}

\* A prepared fill gets the generation that was bound, unless it was rotated between the
\* two halves of resolve_bound; and a value that reached its caller is wiped when the call
\* is over, so that only the threads of calls that gave up still hold one, and what those
\* threads find never reaches a page.
SecretsAsBound ==
    /\ \A c \in Prepared \ raced : call[c].filled \in {0, call[c].bound}
    /\ \A c \in Call : call[c].at = "over" =>
          /\ worker[c].buffer # 0 => call[c].told = "timed_out"
          /\ call[c].told = "timed_out" => call[c].filled = 0

\* A call that waits for a provider or a transport of the host comes to an end, whatever
\* becomes of their threads (resolve_secret, resolve_bound_secret and
\* execute_webauthn_transport shut the pool down without waiting).
CallsEnd == \A c \in Call : call[c].at = "waiting" ~> call[c].at = "over"
=============================================================================
