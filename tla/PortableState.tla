--------------------------- MODULE PortableState ---------------------------
(***************************************************************************)
(* What browser contexts hold of sites and how it moves between them        *)
(* (authentication/portable_state.py, capability.py and the start and stop  *)
(* of backends/playwright_backend.py): pages fill cookies and storage, a    *)
(* session exports them to a file, another imports the file into a running  *)
(* context or prepares it for one that it is going to start.                *)
(***************************************************************************)
EXTENDS Naturals, FiniteSets

CONSTANTS
    Backend,
    Origin, None,
    Foreign,        \* the files others may have left, a set of documents and None
    Choices,        \* the sets of features that exports select
    MaxAge, MaxClock, MaxLives, MaxItems    \* MaxItems: what the pages of a backend store

VARIABLES
    clock,
    file,           \* the document in the file, or None
    ctx,            \* ctx[b]: whether b is on a named profile, whose context outlives a stop,
                    \* whether it runs, what its context holds, what is pending
    task,           \* task[b]: the import or the clearing that is under way
    admitted        \* history, admitted[b]: what validated documents brought to b's context

vars == <<clock, file, ctx, task, admitted>>

Feature == {"cookies", "local_storage", "indexed_db"}

\* Where a context keeps things: its cookies, and the two kinds of storage of each origin.
Place == {<<"cookies", None>>} \cup ({"local_storage", "indexed_db"} \X Origin)
Cookies     == <<"cookies", None>>
Local(o)    == <<"local_storage", o>>
Indexed(o)  == <<"indexed_db", o>>

\* A place holds what one visit left there: of which life of which backend, and, for local
\* storage, whether its names or values look like secrets.
Item == [of : Backend \X (1..MaxLives) \cup {<<None, 0>>}, sensitive : BOOLEAN]

Empty == [x \in Place |-> None]
Idle  == [doing |-> "none", holds |-> Empty, origins |-> {}]

\* What the constants are; an instance assumes it.  A document keeps local storage under the
\* origins that it lists.
PortableAssumption ==
    /\ MaxLives \in Nat \ {0}
    /\ \A doc \in Foreign \ {None} :
          /\ doc.kind \in {"legacy", "portable"} /\ doc.origins \subseteq Origin
          /\ doc.holds \in [Place -> Item \cup {None}]
          /\ \A o \in Origin : doc.holds[Local(o)] # None => o \in doc.origins

PortableTypeOK ==
    /\ clock \in 0..MaxClock
    /\ ctx \in [Backend -> [profile : BOOLEAN, runs : BOOLEAN, holds : [Place -> Item \cup {None}],
                            life : 1..MaxLives, stored : 0..MaxItems,
                            pending : {None} \cup [Place -> Item \cup {None}]]]
    /\ \A b \in Backend : task[b].doing \in {"none", "import", "add", "clear", "sweep"}
                         /\ task[b].origins \subseteq Origin
    /\ \A b \in Backend : admitted[b] \subseteq Place \X Item

Init ==
    /\ clock = 0
    /\ file \in Foreign
    /\ \E profile \in [Backend -> BOOLEAN] :
          ctx = [b \in Backend |-> [profile |-> profile[b], runs |-> FALSE, holds |-> Empty,
                                    life |-> 1, stored |-> 0, pending |-> None]]
    /\ task = [b \in Backend |-> Idle]
    /\ admitted = [b \in Backend |-> {}]

Ready(b) == ctx[b].runs /\ task[b].doing = "none"

\* The origins that storage_state() lists: those with local storage, and with IndexedDB
\* when it is asked for.
Listed(holds, features) ==
    {o \in Origin : holds[Local(o)] # None \/ ("indexed_db" \in features /\ holds[Indexed(o)] # None)}

Brings(holds) == {<<x, holds[x]>> : x \in {y \in Place : holds[y] # None}}
-----------------------------------------------------------------------------
\* The age and the contents a document must have (validate_portable_document).
Fresh(doc) == doc.made <= clock /\ clock - doc.made <= MaxAge

Valid(doc, indexed) ==
    /\ doc.kind = "portable" /\ Fresh(doc)
    /\ \A o \in doc.origins : doc.holds[Local(o)] # None => ~doc.holds[Local(o)].sensitive
    /\ (\E o \in doc.origins : doc.holds[Indexed(o)] # None) => indexed /\ "indexed_db" \in doc.features

\* A document of the first version: no age, nothing is left out, no IndexedDB.
Legacy(doc) == doc.kind = "legacy"

\* What an export writes under a policy (build_portable_state).
Portable(holds, features) ==
    [kind |-> "portable", made |-> clock, features |-> features, origins |-> Listed(holds, features),
     holds |-> [x \in Place |->
        IF x[1] \in features /\ ~(x[1] = "local_storage" /\ holds[x] # None /\ holds[x].sensitive)
        THEN holds[x] ELSE None]]
-----------------------------------------------------------------------------
Tick ==
    /\ clock < MaxClock
    /\ clock' = clock + 1
    /\ UNCHANGED <<file, ctx, task, admitted>>

\* The start of a backend: the context of a profile is as it was left, and there can be no
\* pending state for it; a new context holds the pending state, which is then dropped.
Start(b) ==
    /\ ~ctx[b].runs
    /\ IF ctx[b].profile
       THEN /\ ctx[b].pending = None
            /\ ctx' = [ctx EXCEPT ![b].runs = TRUE]
       ELSE /\ ctx[b].life < MaxLives
            /\ ctx' = [ctx EXCEPT ![b].runs = TRUE, ![b].life = @ + 1, ![b].pending = None,
                       ![b].holds = IF ctx[b].pending = None THEN Empty ELSE ctx[b].pending]
    /\ UNCHANGED <<clock, file, task, admitted>>

\* Mutant: closing the capability forgets the pending state only if a context was bound.
KeepsPending(b) ==
    /\ ctx' = [ctx EXCEPT ![b].runs = FALSE,
                          ![b].holds = IF ctx[b].profile THEN @ ELSE Empty]
    /\ task' = [task EXCEPT ![b] = Idle]
    /\ admitted' = [admitted EXCEPT ![b] = IF ctx[b].profile THEN @ ELSE {}]
    /\ UNCHANGED <<clock, file>>

\* The context is closed and the capability with it, which forgets what is pending.  What a
\* profile holds stays on disk.
Closes(b) ==
    /\ ctx' = [ctx EXCEPT ![b].runs = FALSE, ![b].pending = None,
                          ![b].holds = IF ctx[b].profile THEN @ ELSE Empty]
    /\ task' = [task EXCEPT ![b] = Idle]
    /\ admitted' = [admitted EXCEPT ![b] = IF ctx[b].profile THEN @ ELSE {}]
    /\ UNCHANGED <<clock, file>>

\* A start that fails stops what it began: the launch failed, or state is pending for the
\* context of a profile.
StartFails(b) == ~ctx[b].runs /\ Closes(b)

\* A stop of a backend that never started returns at once and changes nothing.
Stop(b) == ctx[b].runs /\ task[b].doing = "none" /\ Closes(b)

\* The process ends in the middle of something.
Crash(b) == ctx[b].runs /\ task[b].doing # "none" /\ Closes(b)
-----------------------------------------------------------------------------
\* A page of the context leaves something in one place.
Browse(b) ==
    /\ ctx[b].runs /\ ctx[b].stored < MaxItems
    /\ \E x \in Place, sensitive \in BOOLEAN :
          /\ sensitive => x[1] = "local_storage"
          /\ ctx' = [ctx EXCEPT ![b].stored = @ + 1,
                                ![b].holds[x] = [of |-> <<b, ctx[b].life>>, sensitive |-> sensitive]]
    /\ UNCHANGED <<clock, file, task, admitted>>

\* The file is replaced by a complete document, or left as it is when anything fails.
Export(b) ==
    /\ Ready(b)
    /\ \E features \in Choices : file' = Portable(ctx[b].holds, features)
    /\ UNCHANGED <<clock, ctx, task, admitted>>

\* Others damage the file: it is refused from then on, as one that is missing.
Damage ==
    /\ file # None
    /\ file' = None
    /\ UNCHANGED <<clock, ctx, task, admitted>>

\* An import validates all of the document before it clears the cookies.
Import(b) ==
    /\ Ready(b) /\ file # None
    /\ Valid(file, FALSE) \/ Legacy(file)
    /\ ctx' = [ctx EXCEPT ![b].holds[Cookies] = None]
    /\ task' = [task EXCEPT ![b] = [doing |-> "add", holds |-> file.holds, origins |-> file.origins]]
    /\ admitted' = [admitted EXCEPT ![b] = @ \cup Brings(file.holds)]
    /\ UNCHANGED <<clock, file>>

\* It then adds those of the document.
AddCookies(b) ==
    /\ task[b].doing = "add"
    /\ ctx' = [ctx EXCEPT ![b].holds[Cookies] =
                   IF task[b].holds[Cookies] = None THEN @ ELSE task[b].holds[Cookies]]
    /\ task' = [task EXCEPT ![b].doing = "import"]
    /\ UNCHANGED <<clock, file, admitted>>

\* Each origin of the document gets the local storage the document has for it, and no other.
Store(b) ==
    /\ task[b].doing = "import"
    /\ \E o \in task[b].origins :
          /\ ctx' = [ctx EXCEPT ![b].holds[Local(o)] = task[b].holds[Local(o)]]
          /\ task' = [task EXCEPT ![b].origins = @ \ {o}]
    /\ UNCHANGED <<clock, file, admitted>>

\* A document for the context that the backend is going to start.
PrepareImport(b) ==
    /\ task[b].doing = "none" /\ file # None
    /\ Valid(file, TRUE)
    /\ ctx' = [ctx EXCEPT ![b].pending = file.holds]
    /\ admitted' = [admitted EXCEPT ![b] = @ \cup Brings(file.holds)]
    /\ UNCHANGED <<clock, file, task>>

\* The clearing of a context: the cookies, then the local storage of the origins listed.
ClearSession(b) ==
    /\ Ready(b)
    /\ ctx' = [ctx EXCEPT ![b].holds[Cookies] = None]
    /\ task' = [task EXCEPT ![b].doing = "clear"]
    /\ UNCHANGED <<clock, file, admitted>>

ListOrigins(b) ==
    /\ task[b].doing = "clear"
    /\ task' = [task EXCEPT ![b].doing = "sweep", ![b].origins = Listed(ctx[b].holds, {})]
    /\ UNCHANGED <<clock, file, ctx, admitted>>

Sweep(b) ==
    /\ task[b].doing = "sweep"
    /\ \E o \in task[b].origins :
          /\ ctx' = [ctx EXCEPT ![b].holds[Local(o)] = None]
          /\ task' = [task EXCEPT ![b].origins = @ \ {o}]
    /\ UNCHANGED <<clock, file, admitted>>

\* An import or a clearing is done, or the browser fails in the midst of it and the context
\* is left as far as it came.
Ended(b) ==
    /\ task[b].doing # "none"
    /\ task' = [task EXCEPT ![b] = Idle]
    /\ UNCHANGED <<clock, file, ctx, admitted>>

Next ==
    \/ Tick
    \/ Damage
    \/ \E b \in Backend :
        \/ Start(b) \/ StartFails(b) \/ Stop(b) \/ Crash(b)
        \/ Browse(b) \/ Export(b)
        \/ Import(b) \/ AddCookies(b) \/ Store(b) \/ PrepareImport(b)
        \/ ClearSession(b) \/ ListOrigins(b) \/ Sweep(b) \/ Ended(b)

Spec == Init /\ [][Next]_vars
-----------------------------------------------------------------------------
Own(b, item) == item.of = <<b, ctx[b].life>>

\* What a running context holds was left by its own pages in this life, or was brought to it
\* by a document that was validated for it (capability.py: a pending state goes into one
\* context, and none of an earlier life or of another session comes along).  What documents
\* bring never includes local storage that looks secret, unless they are of the first
\* version, and brings IndexedDB into new contexts only.
HoldsItsOwn ==
    \A b \in Backend : ctx[b].runs =>
        \A x \in Place : ctx[b].holds[x] # None /\ ~Own(b, ctx[b].holds[x]) =>
            /\ <<x, ctx[b].holds[x]>> \in admitted[b]
            /\ x[1] = "indexed_db" => ~ctx[b].profile
            /\ x[1] = "local_storage" /\ ctx[b].holds[x].sensitive =>
                  \E doc \in Foreign : doc # None /\ Legacy(doc) /\ doc.holds[x] = ctx[b].holds[x]
=============================================================================
