----------------------------- MODULE VideoWait -----------------------------
(***************************************************************************)
(* The waits for a video to play and for one to be played through           *)
(* (_dispatch_wait_for of backends/playwright_backend.py): what successive  *)
(* samples of a page's video amount to, while the page plays, stops, seeks  *)
(* and replaces it and may be loaded again.                                 *)
(***************************************************************************)
EXTENDS Naturals, SequencesExt

CONSTANTS
    Element, Source, None,
    Length,         \* positions of a video are 0..Length
    MaxTurns        \* bounds what users and scripts do to the video

LengthAssumption ==
    /\ Length \in Nat /\ Length > 2 /\ MaxTurns \in Nat
    /\ None # "satisfied" /\ None \notin [token : Nat, src : Source, at : Nat]

VARIABLES
    video,      \* the page's video: its element, source, position, whether it loops, is paused
    tokens,     \* the elements that have a token of this document, in the order of their tokens
    wait,       \* the condition, the previous sample, what the samples showed, the result
    turns,
    watched     \* history: what really was sampled, and what became of the video since

vars == <<video, tokens, wait, turns, watched>>

VideoTypeOK ==
    /\ video \in [el : Element, src : Source, at : 0..Length, loops : BOOLEAN, paused : BOOLEAN]
    /\ IsInjective(tokens) /\ ToSet(tokens) \subseteq Element
    /\ wait.result \in {None, "satisfied", "timeout"}

Init ==
    /\ \E e \in Element, s \in Source, loops \in BOOLEAN :
          video = [el |-> e, src |-> s, at |-> 0, loops |-> loops, paused |-> FALSE]
    /\ tokens = <<>> /\ turns = 0
    /\ \E c \in {"playing", "completed_once"} :
          wait = [for |-> c, previous |-> None, progressed |-> FALSE, nearEnd |-> FALSE,
                  invalid |-> FALSE, result |-> None]
    /\ watched = [of |-> {}, wrapped |-> FALSE, advanced |-> FALSE, sought |-> FALSE, reloaded |-> FALSE]

Ended == ~video.loops /\ video.at = Length
-----------------------------------------------------------------------------
(* The page. *)

\* Playing goes on to the end, and around where the video loops.
Plays ==
    /\ ~video.paused /\ ~Ended
    /\ video' = [video EXCEPT !.at = IF @ = Length THEN 0 ELSE @ + 1]
    /\ watched' = [watched EXCEPT !.wrapped = @ \/ video.at = Length, !.advanced = TRUE]
    /\ UNCHANGED <<tokens, wait, turns>>

Turned == turns < MaxTurns /\ turns' = turns + 1

Pauses ==
    /\ Turned
    /\ video' = [video EXCEPT !.paused = ~@]
    /\ UNCHANGED <<tokens, wait, watched>>

Seeks ==
    /\ Turned
    /\ \E at \in 0..Length : at # video.at /\ video' = [video EXCEPT !.at = at]
    /\ watched' = [watched EXCEPT !.sought = TRUE]
    /\ UNCHANGED <<tokens, wait>>

\* Another element takes the place, or another source the element; it begins anew.  No
\* sampled one comes back after one that was gone before it was sampled.
Replaced == watched' = [watched EXCEPT !.wrapped = FALSE, !.advanced = FALSE]

Replaces ==
    /\ Turned /\ Replaced
    /\ \E e \in Element, s \in Source :
          /\ <<e, s>> # <<video.el, video.src>>
          /\ <<e, s>> \in watched.of => <<video.el, video.src>> \in watched.of
          /\ video' = [video EXCEPT !.el = e, !.src = s, !.at = 0]
    /\ UNCHANGED <<tokens, wait>>

\* The document is loaded again and plays the same source.  Its tokens are counted anew.
Reloads ==
    /\ Turned
    /\ video' = [video EXCEPT !.at = 0] /\ tokens' = <<>>
    /\ watched' = [watched EXCEPT !.wrapped = FALSE, !.advanced = FALSE, !.reloaded = TRUE]
    /\ UNCHANGED wait
-----------------------------------------------------------------------------
(* The wait. *)

\* The first sample of an element in a document gives it a token.
Token(e) == CHOOSE k \in DOMAIN tokens' : tokens'[k] = e
Samples ==
    /\ tokens' = IF video.el \in ToSet(tokens) THEN tokens ELSE Append(tokens, video.el)
    /\ UNCHANGED <<video, turns>>

\* Mutant: a replacement is forgotten with the next sample.
ForgetsReplacement(sample) ==
    wait.previous # None /\ (sample.token # wait.previous.token \/ sample.src # wait.previous.src)

\* The chain of samples is broken for good once another element or source was sampled.
Invalid(sample) ==
    \/ wait.invalid
    \/ wait.previous # None /\ (sample.token # wait.previous.token \/ sample.src # wait.previous.src)

Progressed(sample) ==
    \/ wait.progressed
    \/ /\ wait.previous # None /\ sample.src = wait.previous.src
       /\ sample.at > wait.previous.at /\ ~video.paused

NearEnd == wait.nearEnd \/ (wait.previous # None /\ wait.previous.at = Length)

\* Playing: it progressed and plays.  Completed: it has ended, or went around in plain sight.
Satisfied(sample, ready) ==
    IF wait.for = "playing"
    THEN wait.previous # None /\ ~Invalid(sample) /\ Progressed(sample) /\ ~video.paused /\ ~Ended /\ ready
    ELSE \/ Ended
         \/ /\ video.loops /\ wait.previous # None
            /\ ~Invalid(sample) /\ Progressed(sample) /\ NearEnd /\ ~video.paused
            /\ sample.at < wait.previous.at /\ sample.at <= 1

Polls ==
    /\ wait.result = None /\ Samples
    /\ \E ready \in BOOLEAN :
       LET sample == [token |-> Token(video.el), src |-> video.src, at |-> video.at] IN
       wait' = [wait EXCEPT !.previous = sample, !.progressed = Progressed(sample), !.nearEnd = NearEnd,
                            !.invalid = Invalid(sample),
                            !.result = IF Satisfied(sample, ready) THEN "satisfied" ELSE None]
    /\ watched' = [watched EXCEPT !.of = @ \cup {<<video.el, video.src>>}]

TimesOut ==
    /\ wait.result = None
    /\ wait' = [wait EXCEPT !.result = "timeout"]
    /\ UNCHANGED <<video, tokens, turns, watched>>

Next == wait.result = None /\ (Plays \/ Pauses \/ Seeks \/ Replaces \/ Reloads \/ Polls \/ TimesOut)

Spec == Init /\ [][Next]_vars
-----------------------------------------------------------------------------
\* A video that is waited for played under the eyes of the wait (the chain of samples in
\* _dispatch_wait_for): it is the one element and source of every sample, it advanced, and
\* one that loops went around.  Seeking cannot be told from playing, and a document that is
\* loaded again is the matter of ReloadBreaksTheChain.
PlayedAsWatched ==
    wait.result = "satisfied" /\ ~watched.sought /\ ~watched.reloaded =>
        \/ /\ watched.of = {<<video.el, video.src>>} /\ watched.advanced /\ ~video.paused
           /\ wait.for = "completed_once" => watched.wrapped
        \/ wait.for = "completed_once" /\ Ended

\* A reload breaks the chain as a replacement does (Engineering/CODEX_RUNTIME_AUDIT.md: page
\* reload identity is indirectly rejected through element token loss).
ReloadBreaksTheChain ==
    wait.result = "satisfied" /\ wait.for = "completed_once" /\ video.loops /\ ~watched.sought => watched.wrapped
=============================================================================
