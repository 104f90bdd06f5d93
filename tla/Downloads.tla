----------------------------- MODULE Downloads ------------------------------
(***************************************************************************)
(* The artifact stores of contract/download.py and the download action of   *)
(* backends/playwright_backend.py.  A download is saved into the session's  *)
(* staging directory, verified, copied into a file of the store's own,      *)
(* verified again and only then given its name under completed/.  The       *)
(* browser may go on writing to the staging file, a process may die between *)
(* any two steps, and a session that opens its store clears away what dead  *)
(* sessions left in theirs.                                                 *)
(***************************************************************************)
EXTENDS Naturals, FiniteSets, Functions

CONSTANTS
    Session, None,
    Content, Accepted,      \* what a file can hold, and what the request lets pass
    MaxNames,               \* name 1 is the requested one, the others are "name (1)", "name (2)", ...
    Wanted,                 \* Wanted[s]: how many the session runs
    MaxWrites

VARIABLES
    store,      \* store[s]: its state, whether its marker is old, who holds its .active lock
    parts,      \* parts[s]: the files in staging/
    hidden,     \* hidden[s]: the .commit files in completed/
    completed,  \* completed[s]: the file behind each name
    data,       \* data[f]: content of a file and how often it was written to
    at,         \* at[s]: where the session's download is, and its locals
    receipts    \* receipts[s]: content that was receipted under a name and not replaced since

vars == <<store, parts, hidden, completed, data, at, receipts>>

Name  == 1..MaxNames
Most  == CHOOSE n \in Range(Wanted) : \A m \in Range(Wanted) : m <= n
File  == {[of |-> s, k |-> k, kind |-> kind] : s \in Session, k \in 1..Most, kind \in {"part", "commit"}}
Empty == [content |-> None, writes |-> 0]
Policies == {"reject", "uniquify", "replace"}

\* What the constants are; an instance assumes it.  Some session downloads as often as any.
DownloadsAssumption ==
    /\ Accepted \subseteq Content /\ None \notin Session \cup Content \cup File
    /\ {MaxNames, MaxWrites} \subseteq Nat \ {0} /\ Wanted \in [Session -> Nat]
    /\ \E s \in Session : \A t \in Session : Wanted[t] <= Wanted[s]

Init ==
    /\ store = [s \in Session |-> [state |-> "none", old |-> FALSE, lock |-> None]]
    /\ parts = [s \in Session |-> {}] /\ hidden = parts
    /\ completed = [s \in Session |-> [n \in Name |-> None]] /\ receipts = completed
    /\ data = [f \in File |-> Empty]
    /\ at = [s \in Session |-> [pc |-> "idle", k |-> 0, policy |-> "reject", writes |-> 0, seen |-> None, name |-> 1, other |-> None]]

Part(s)   == [of |-> s, k |-> at[s].k, kind |-> "part"]
Commit(s) == [of |-> s, k |-> at[s].k, kind |-> "commit"]
Goes(s, pc)   == at' = [at EXCEPT ![s].pc = pc]
IsLive(s)     == store[s].state = "live"
FilesUnchanged == UNCHANGED <<parts, hidden, completed, data, receipts>>
-----------------------------------------------------------------------------
(* The store of a session, and what other sessions clear away of it. *)

\* The marker is written once and never again: its age says nothing of a long session.
Marks(s) ==
    /\ store[s].state = "none" /\ store' = [store EXCEPT ![s].state = "marked"]
    /\ UNCHANGED at /\ FilesUnchanged

Ages(s) ==
    /\ store[s].state # "none" /\ ~store[s].old /\ store' = [store EXCEPT ![s].old = TRUE]
    /\ UNCHANGED at /\ FilesUnchanged

Opens(s) ==
    /\ store[s].state = "marked" /\ store[s].lock = None
    /\ store' = [store EXCEPT ![s].state = "live", ![s].lock = s]
    /\ Goes(s, "recover") /\ FilesUnchanged

\* Mutant: the age of the marker decides alone.
OldEnough(s) == store[s].old

Abandoned(s) == store[s].old /\ store[s].lock = None

RecoverLocks(r, s) ==
    /\ at[r].pc = "recover" /\ at[r].other = None /\ s # r /\ store[s].state # "none" /\ Abandoned(s)
    /\ store' = [store EXCEPT ![s].lock = r] /\ at' = [at EXCEPT ![r].other = s] /\ FilesUnchanged

\* Only staging files are removed; what is hidden in completed/ stays.
RecoverRemoves(r) ==
    /\ at[r].pc = "recover" /\ at[r].other # None
    /\ \E f \in parts[at[r].other] : parts' = [parts EXCEPT ![at[r].other] = @ \ {f}]
    /\ UNCHANGED <<store, hidden, completed, data, at, receipts>>

RecoverUnlocks(r) ==
    /\ at[r].pc = "recover" /\ at[r].other # None
    /\ store' = [store EXCEPT ![at[r].other].lock = IF @ = r THEN None ELSE @] /\ at' = [at EXCEPT ![r].other = None]
    /\ FilesUnchanged

\* The round ends whether or not it saw every session: it shares the download's deadline.
RecoverEnds(r) ==
    /\ at[r].pc = "recover" /\ at[r].other = None /\ Goes(r, "idle") /\ UNCHANGED store /\ FilesUnchanged

\* A process dies: the system drops its locks, its files stay.
Crashes(s) ==
    /\ IsLive(s)
    /\ store' = [t \in Session |-> [store[t] EXCEPT !.lock = IF @ = s THEN None ELSE @,
                                                   !.state = IF t = s THEN "dead" ELSE @]]
    /\ at' = [at EXCEPT ![s].pc = "gone", ![s].other = None] /\ FilesUnchanged

Closes(s) ==
    /\ IsLive(s) /\ at[s].pc = "idle" /\ store' = [store EXCEPT ![s].state = "closed", ![s].lock = None]
    /\ Goes(s, "gone") /\ FilesUnchanged
-----------------------------------------------------------------------------
(* A download. *)

\* Nothing is staged unless exactly one download event of the expected page came in time
\* and the browser reports no failure.
TriggerFails(s) ==
    /\ at[s].pc = "triggered" /\ Goes(s, "idle") /\ UNCHANGED store /\ FilesUnchanged

Triggers(s) ==
    /\ IsLive(s) /\ at[s].pc = "idle" /\ at[s].k < Wanted[s]
    /\ \E policy \in Policies : at' = [at EXCEPT ![s].pc = "triggered", ![s].k = @ + 1, ![s].policy = policy, ![s].name = 1, ![s].seen = None]
    /\ UNCHANGED store /\ FilesUnchanged

Stages(s) ==
    /\ at[s].pc = "triggered" /\ parts' = [parts EXCEPT ![s] = @ \cup {Part(s)}]
    /\ Goes(s, "save") /\ UNCHANGED <<store, hidden, completed, data, receipts>>

\* The browser saves into the staging file; when that fails the file is left behind.
Saves(s) ==
    /\ at[s].pc = "save" /\ UNCHANGED <<store, parts, hidden, completed, receipts>>
    /\ \/ \E c \in Content : data' = [data EXCEPT ![Part(s)].content = c] /\ Goes(s, "verify")
       \/ UNCHANGED data /\ Goes(s, "idle")

\* A producer that kept its handle writes on; a file without a name tells nobody.
ProducerWrites(f) ==
    /\ f.kind = "part" /\ (f \in parts[f.of] \/ f \in Range(completed[f.of])) /\ data[f].content # None /\ data[f].writes < MaxWrites
    /\ \E c \in Content \ {data[f].content} : data' = [data EXCEPT ![f] = [content |-> c, writes |-> @.writes + 1]]
    /\ UNCHANGED <<store, parts, hidden, completed, at, receipts>>

\* Whatever fails before the artifact has its name: the files of the download are removed.
Fails(s) ==
    /\ parts' = [parts EXCEPT ![s] = @ \ {Part(s)}] /\ hidden' = [hidden EXCEPT ![s] = @ \ {Commit(s)}]
    /\ Goes(s, "idle") /\ UNCHANGED <<store, completed, data, receipts>>

\* The deadline is looked at in every phase up to the publication; files may be
\* unreadable, directories may be exchanged.
Aborts(s) == at[s].pc \in {"verify", "verifying", "copy", "check", "publish"} /\ Fails(s)

VerifyBegins(s) ==
    /\ at[s].pc = "verify" /\ at' = [at EXCEPT ![s].pc = "verifying", ![s].writes = data[Part(s)].writes]
    /\ UNCHANGED store /\ FilesUnchanged

Taken(s) == {n \in Name : completed[s][n] # None}

\* The name under completed/: none when it is taken and must not be replaced, or when no
\* numbered name is free.
Selected(s) ==
    IF 1 \notin Taken(s) \/ at[s].policy = "replace" THEN {1}
    ELSE IF at[s].policy = "reject" THEN {}
    ELSE {n \in Name \ Taken(s) : \A m \in Name \ Taken(s) : n <= m}

Unwritten(s) == data[Part(s)].writes = at[s].writes

VerifyEnds(s) ==
    /\ at[s].pc = "verifying"
    /\ IF Unwritten(s) /\ data[Part(s)].content \in Accepted /\ Selected(s) # {}
       THEN /\ at' = [at EXCEPT ![s].pc = "copy", ![s].seen = data[Part(s)].content, ![s].name = CHOOSE n \in Selected(s) : TRUE]
            /\ UNCHANGED store /\ FilesUnchanged
       ELSE Fails(s)

Copies(s) ==
    /\ at[s].pc = "copy" /\ hidden' = [hidden EXCEPT ![s] = @ \cup {Commit(s)}]
    /\ data' = [data EXCEPT ![Commit(s)].content = data[Part(s)].content]
    /\ Goes(s, "check") /\ UNCHANGED <<store, parts, completed, receipts>>

\* The staging file is as it was verified, and the copy has what was verified.
Checks(s) ==
    /\ at[s].pc = "check"
    /\ IF Unwritten(s) /\ data[Commit(s)].content = at[s].seen
       THEN Goes(s, "publish") /\ UNCHANGED store /\ FilesUnchanged
       ELSE Fails(s)

\* Mutant: the staging file itself gets the name.
StagingFile(s) == Part(s)

PublishedFile(s) == Commit(s)

Replaces(s) ==
    /\ at[s].pc = "publish" /\ at[s].policy = "replace"
    /\ completed' = [completed EXCEPT ![s][at[s].name] = PublishedFile(s)]
    /\ receipts' = [receipts EXCEPT ![s][at[s].name] = None]
    /\ hidden' = [hidden EXCEPT ![s] = @ \ {Commit(s)}]
    /\ Goes(s, "clean") /\ UNCHANGED <<store, parts, data>>

\* A link to a name that is taken fails.
Links(s) ==
    /\ at[s].pc = "publish" /\ at[s].policy # "replace"
    /\ IF at[s].name \in Taken(s) THEN Fails(s)
       ELSE /\ completed' = [completed EXCEPT ![s][at[s].name] = PublishedFile(s)]
            /\ Goes(s, "unlink") /\ UNCHANGED <<store, parts, hidden, data, receipts>>

\* The artifact has its name already: a failure to drop the other one is reported as a
\* failed commit.
Unlinks(s) ==
    /\ at[s].pc = "unlink"
    /\ \/ hidden' = [hidden EXCEPT ![s] = @ \ {Commit(s)}] /\ Goes(s, "clean") /\ UNCHANGED <<store, parts, completed, data, receipts>>
       \/ parts' = [parts EXCEPT ![s] = @ \ {Part(s)}] /\ Goes(s, "idle") /\ UNCHANGED <<store, hidden, completed, data, receipts>>

Cleans(s) ==
    /\ at[s].pc = "clean" /\ parts' = [parts EXCEPT ![s] = @ \ {Part(s)}]
    /\ receipts' = [receipts EXCEPT ![s][at[s].name] = at[s].seen]
    /\ Goes(s, "idle") /\ UNCHANGED <<store, hidden, completed, data>>
-----------------------------------------------------------------------------
Stores(s)  == Marks(s) \/ Ages(s) \/ Opens(s) \/ Crashes(s) \/ Closes(s)
Recover(r) == (\E s \in Session : RecoverLocks(r, s)) \/ RecoverRemoves(r) \/ RecoverUnlocks(r) \/ RecoverEnds(r)
Download(s) ==
    \/ TriggerFails(s) \/ Triggers(s) \/ Stages(s) \/ Saves(s) \/ Aborts(s) \/ VerifyBegins(s) \/ VerifyEnds(s)
    \/ Copies(s) \/ Checks(s) \/ Replaces(s) \/ Links(s) \/ Unlinks(s) \/ Cleans(s)

Next == (\E s \in Session : Stores(s) \/ Recover(s) \/ Download(s)) \/ \E f \in File : ProducerWrites(f)
Spec == Init /\ [][Next]_vars
-----------------------------------------------------------------------------
\* What stands under a name is what a verification accepted, and what a receipt says of
\* it as long as no download was told to replace it: a late write of the browser, a
\* crash, a failure after the publication and another session's recovery included.
PublishedIsVerified ==
    \A s \in Session, n \in Name :
        /\ completed[s][n] # None => data[completed[s][n]].content \in Accepted
        /\ receipts[s][n] # None => completed[s][n] # None /\ data[completed[s][n]].content = receipts[s][n]

\* The staging files of a live session and the artifacts of any session change by steps
\* of that session's own download only, however old its marker is.
OwnerStep ==
    \A s \in Session : at'[s] = at[s] =>
        /\ completed'[s] = completed[s]
        /\ IsLive(s) => parts'[s] = parts[s]
LeftToTheirOwner == [][OwnerStep]_vars
=============================================================================
