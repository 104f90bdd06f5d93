----------------------------- MODULE Continuity -----------------------------
(***************************************************************************)
(* continuity.py: one durable session directory and the processes that own *)
(* it one after the other.  The directory holds a header, a lock file whose *)
(* lease makes a process the owner, and three journals (commands, bindings, *)
(* evidence) that are replayed on every access.                             *)
(*                                                                          *)
(* A mutation replays the journals, checks them and appends one record.  The *)
(* threads of a process are kept apart by its _mutation_lock from the replay *)
(* to the append; closing the session, ending it and the death of the        *)
(* process do not take that lock, so replay and append are two steps.        *)
(***************************************************************************)
EXTENDS Naturals, Sequences, FiniteSets

CONSTANTS
    Owner,          \* processes, each the owner of at most one session object
    NoOwner,
    Command,        \* command identifiers
    Generation,     \* binding generations
    NoGeneration,
    Events,         \* what hosts and file systems do in the instance, see AllEvents
    MaxBindings,    \* bounds of an instance: records of the bindings journal,
    MaxEvidence     \* and of the evidence journal

AllEvents == {"close_in_flight",    \* a thread closes the session while another one mutates it
              "same_generation",    \* a released generation is acquired again
              "unreadable"}         \* a file cannot be read for a moment

ASSUME OwnersAssumption ==
    /\ NoOwner \notin Owner
    /\ NoGeneration \notin Generation

ASSUME InstanceAssumption ==
    /\ Events \subseteq AllEvents
    /\ MaxBindings \in Nat
    /\ MaxEvidence \in Nat

VARIABLES
    touched,    \* the directory has an entry
    header,     \* session.json
    lease,      \* the process that holds .owner.lock
    cmds,       \* commands.jsonl
    binds,      \* bindings.jsonl
    evid,       \* evidence.jsonl
    proc,       \* proc[o]: where process o stands
    mem,        \* mem[o]: the header that o holds in memory
    op,         \* op[o]: the mutation that holds o's _mutation_lock
    rec,        \* rec[o]: the commands o's recovery still has to end, and how
    spoiled     \* a record was appended without the lease, or in the place of a journal
                \* that could not be read (history)

files == <<touched, header, cmds, binds, evid, spoiled>>
vars  == <<touched, header, lease, cmds, binds, evid, proc, mem, op, rec, spoiled>>
-----------------------------------------------------------------------------
(* Journals and their replay. *)

Classes  == {"verified", "failed", "outcome_unknown"}      \* TerminalClassification
NoHeader == [session |-> NoOwner, owner |-> NoOwner, status |-> "absent"]
NoOp     == [at |-> "none"]
NoRec    == [c \in Command |-> "none"]

\* The records of a journal that belong to command c, and the last of them.
Of(journal, c)     == {i \in DOMAIN journal : journal[i].command = c}
LastOf(journal, c) == CHOOSE i \in Of(journal, c) : \A k \in Of(journal, c) : k <= i

StateOf(journal, c) == IF Of(journal, c) = {} THEN "none" ELSE journal[LastOf(journal, c)].state

\* The journal of commands tells the story of the abstract commands.
Commands == INSTANCE CommandLifecycle WITH state <- [c \in Command |-> StateOf(cmds, c)]

\* commands() accepts a journal in which every record continues the one before it
\* of the same command.
Readable(journal) ==
    \A i \in DOMAIN journal :
        LET before == SubSeq(journal, 1, i - 1)
        IN  /\ journal[i].from = StateOf(before, journal[i].command)
            /\ journal[i].state \in Commands!Transitions[journal[i].from]

\* The generation of the dispatch, NoGeneration before it.
GenerationOf(c) ==
    IF \E i \in Of(cmds, c) : cmds[i].gen # NoGeneration
    THEN cmds[CHOOSE i \in Of(cmds, c) : cmds[i].gen # NoGeneration].gen
    ELSE NoGeneration

Bound(kind, g) == {i \in DOMAIN binds : binds[i] = [kind |-> kind, gen |-> g]}

\* bindings() accepts a generation acquired once and released at most once after that.
BindingsReadable ==
    \A g \in Generation :
        /\ Cardinality(Bound("acquired", g)) <= 1
        /\ Cardinality(Bound("released", g)) <= 1
        /\ \A j \in Bound("released", g) : \E i \in Bound("acquired", g) : i < j

Active == {g \in Generation : Bound("acquired", g) # {} /\ Bound("released", g) = {}}

\* The evidence that recovery uses: the last one attached.
EvidenceFor(c) == IF Of(evid, c) = {} THEN "none" ELSE evid[LastOf(evid, c)].class
-----------------------------------------------------------------------------
(* Becoming the owner. *)

Init ==
    /\ touched = FALSE /\ header = NoHeader /\ lease = NoOwner
    /\ cmds = <<>> /\ binds = <<>> /\ evid = <<>>
    /\ proc = [o \in Owner |-> "none"]
    /\ mem = [o \in Owner |-> NoHeader]
    /\ op = [o \in Owner |-> NoOp]
    /\ rec = [o \in Owner |-> NoRec]
    /\ spoiled = FALSE

Released(o) == IF lease = o THEN NoOwner ELSE lease

\* create and open give the lease back when they raise.
Gives(o) ==
    /\ lease' = Released(o)
    /\ proc' = [proc EXCEPT ![o] = "closed"]

\* create looks for an existing session before it asks for the lease.
CreateChecks(o) ==
    /\ proc[o] = "none" /\ ~touched
    /\ proc' = [proc EXCEPT ![o] = "checked"]
    /\ UNCHANGED <<files, lease, mem, op, rec>>

\* Mutant: the lease of another process is taken away.
LeasesAnyway(o, from, to) ==
    /\ proc[o] = from
    /\ touched' = TRUE
    /\ lease' = o /\ proc' = [proc EXCEPT ![o] = to]
    /\ UNCHANGED <<header, cmds, binds, evid, mem, op, rec, spoiled>>

\* The fail-fast lease of create and of open; asking for it creates the lock file.
Leases(o, from, to) ==
    /\ proc[o] = from
    /\ touched' = TRUE
    /\ IF lease = NoOwner
       THEN lease' = o /\ proc' = [proc EXCEPT ![o] = to]
       ELSE Gives(o)
    /\ UNCHANGED <<header, cmds, binds, evid, mem, op, rec, spoiled>>

\* create publishes the first header, or rejects its arguments.
CreatePublishes(o) ==
    /\ proc[o] = "creating"
    /\ \/ /\ header' = [session |-> o, owner |-> o, status |-> "active"]
          /\ mem' = [mem EXCEPT ![o] = header']
          /\ proc' = [proc EXCEPT ![o] = "open"]
          /\ lease' = lease
       \/ /\ Gives(o)
          /\ UNCHANGED <<header, mem>>
    /\ UNCHANGED <<touched, cmds, binds, evid, op, rec, spoiled>>

\* Mutant: recovery does not look at the evidence.
TargetsUnknown ==
    [c \in Command |-> IF StateOf(cmds, c) = "dispatched" THEN "outcome_unknown" ELSE "none"]

\* How recover_interrupted_commands ends the dispatched commands.
Targets ==
    [c \in Command |->
        IF StateOf(cmds, c) # "dispatched" THEN "none"
        ELSE IF EvidenceFor(c) # "none" THEN EvidenceFor(c) ELSE "outcome_unknown"]

\* open publishes the header with its own generation, and recovers unless told not
\* to.  It raises when there is no usable header or the commands cannot be replayed.
OpenReads(o) ==
    /\ proc[o] = "opening"
    /\ \/ Gives(o) /\ UNCHANGED <<header, mem, rec>>
       \/ /\ header # NoHeader
          /\ header' = [header EXCEPT !.owner = o]
          /\ mem' = [mem EXCEPT ![o] = header']
          /\ \/ /\ proc' = [proc EXCEPT ![o] = "open"]
                /\ UNCHANGED <<lease, rec>>
             \/ /\ IF Readable(cmds)
                   THEN /\ proc' = [proc EXCEPT ![o] = "recovering"]
                        /\ rec' = [rec EXCEPT ![o] = Targets]
                        /\ lease' = lease
                   ELSE Gives(o) /\ rec' = rec
    /\ UNCHANGED <<touched, cmds, binds, evid, op, spoiled>>
-----------------------------------------------------------------------------
(* Mutations: replay and check, then append. *)

\* _require_writable, for a thread other than one that is closing the session.
Writable(o) ==
    /\ mem[o].status = "active"
    /\ \/ proc[o] \in {"open", "recovering"}
       \/ proc[o] = "releasing" /\ "close_in_flight" \in Events

\* A thread of the host enters a mutation.
Enters(o) == Writable(o) /\ proc[o] # "recovering" /\ op[o] = NoOp

Appends(o, stream, record) == op' = [op EXCEPT ![o] = [at |-> stream, record |-> record]]

Moved(c, s, g) == [command |-> c, from |-> StateOf(cmds, c), state |-> s, gen |-> g]

\* Mutant: any state but a final one may be moved on.
MayMoveAny(c, s) == Readable(cmds) /\ StateOf(cmds, c) \notin Classes

\* The transition that _transition allows on its replay of the commands.
MayMove(c, s) == Readable(cmds) /\ s \in Commands!Transitions[StateOf(cmds, c)]

\* propose, authorize, cancel and mark_outcome_unknown.
MoveBegin(o, c, s) ==
    /\ Enters(o) /\ MayMove(c, s)
    /\ s \in {"proposed", "authorized", "cancelled", "outcome_unknown"}
    /\ Appends(o, "commands", Moved(c, s, NoGeneration))
    /\ UNCHANGED <<files, lease, proc, mem, rec>>

\* Mutant: the generation given is not compared with the active binding.
DispatchAnyBegin(o, c, g) ==
    /\ Enters(o) /\ MayMove(c, "dispatched")
    /\ BindingsReadable /\ Active # {}
    /\ Appends(o, "commands", Moved(c, "dispatched", g))
    /\ UNCHANGED <<files, lease, proc, mem, rec>>

DispatchBegin(o, c, g) ==
    /\ Enters(o) /\ MayMove(c, "dispatched")
    /\ BindingsReadable /\ Active = {g}
    /\ Appends(o, "commands", Moved(c, "dispatched", g))
    /\ UNCHANGED <<files, lease, proc, mem, rec>>

\* acquire_browser_binding accepts any generation; hosts mostly use a fresh one.
AcquireBegin(o, g) ==
    /\ Enters(o) /\ Len(binds) < MaxBindings
    /\ BindingsReadable /\ Active = {}
    /\ Bound("acquired", g) = {} \/ "same_generation" \in Events
    /\ Appends(o, "bindings", [kind |-> "acquired", gen |-> g])
    /\ UNCHANGED <<files, lease, proc, mem, rec>>

ReleaseBegin(o, g) ==
    /\ Enters(o) /\ Len(binds) < MaxBindings
    /\ BindingsReadable /\ Active = {g}
    /\ Appends(o, "bindings", [kind |-> "released", gen |-> g])
    /\ UNCHANGED <<files, lease, proc, mem, rec>>

\* attach_receipt, for a receipt that the verdict puts in this class.
AttachBegin(o, c, class, g) ==
    /\ Enters(o) /\ Len(evid) < MaxEvidence
    /\ Readable(cmds) /\ StateOf(cmds, c) = "dispatched" /\ GenerationOf(c) = g
    /\ Appends(o, "evidence", [command |-> c, class |-> class])
    /\ UNCHANGED <<files, lease, proc, mem, rec>>

\* append_json_line: the journal with one more record.  A journal that cannot be
\* read counts as an absent one.
Appended(journal, record) ==
    {Append(journal, record)} \cup IF "unreadable" \in Events THEN {<<record>>} ELSE {}

\* o appends its record, and with the lease or without.
AppendsTo(o, journal, new) ==
    /\ new \in Appended(journal, op[o].record)
    /\ spoiled' = (spoiled \/ lease # o \/ new # Append(journal, op[o].record))

WriteCommand(o) ==
    /\ op[o].at = "commands"
    /\ AppendsTo(o, cmds, cmds')
    /\ op' = [op EXCEPT ![o] = NoOp]
    /\ UNCHANGED <<touched, header, lease, binds, evid, proc, mem, rec>>

WriteBinding(o) ==
    /\ op[o].at = "bindings"
    /\ AppendsTo(o, binds, binds')
    /\ op' = [op EXCEPT ![o] = NoOp]
    /\ UNCHANGED <<touched, header, lease, cmds, evid, proc, mem, rec>>

\* The evidence is written; the transition of the command comes next.
WriteEvidence(o) ==
    /\ op[o].at = "evidence"
    /\ AppendsTo(o, evid, evid')
    /\ op' = [op EXCEPT ![o].at = "transition"]
    /\ UNCHANGED <<touched, header, lease, cmds, binds, proc, mem, rec>>

\* Mutant: the transition of attach_receipt does not name the attached class.
AttachTransitionUnknown(o) ==
    /\ op[o].at = "transition"
    /\ Appends(o, "commands", Moved(op[o].record.command, "failed", NoGeneration))
    /\ UNCHANGED <<files, lease, proc, mem, rec>>

\* The transition of attach_receipt replays and checks once more.
AttachTransition(o) ==
    /\ op[o].at = "transition"
    /\ LET c == op[o].record.command
           s == op[o].record.class
       IN  IF Writable(o) /\ MayMove(c, s)
           THEN Appends(o, "commands", Moved(c, s, NoGeneration))
           ELSE op' = [op EXCEPT ![o] = NoOp]
    /\ UNCHANGED <<files, lease, proc, mem, rec>>

\* recover_interrupted_commands, one command after the other.  Where a transition
\* raises, so does the recovery, and with it the open it belongs to.
RecoverNext(o, c) ==
    /\ rec[o][c] # "none" /\ op[o] = NoOp
    /\ IF Writable(o) /\ MayMove(c, rec[o][c])
       THEN /\ Appends(o, "commands", Moved(c, rec[o][c], NoGeneration))
            /\ rec' = [rec EXCEPT ![o][c] = "none"]
            /\ UNCHANGED <<lease, proc>>
       ELSE /\ rec' = [rec EXCEPT ![o] = NoRec]
            /\ op' = op
            /\ IF proc[o] = "recovering" THEN Gives(o) ELSE UNCHANGED <<lease, proc>>
    /\ UNCHANGED <<files, mem>>

OpenReturns(o) ==
    /\ proc[o] = "recovering" /\ rec[o] = NoRec /\ op[o] = NoOp
    /\ proc' = [proc EXCEPT ![o] = "open"]
    /\ UNCHANGED <<files, lease, mem, op, rec>>

\* A host may recover later, by a call of its own.
RecoverBegin(o) ==
    /\ proc[o] = "open" /\ rec[o] = NoRec /\ Readable(cmds) /\ Targets # NoRec
    /\ rec' = [rec EXCEPT ![o] = Targets]
    /\ UNCHANGED <<files, lease, proc, mem, op>>

\* Any of the file operations of a mutation may raise.  In an open session it may be
\* a mutation of the recovery or of another thread, which the recovery survives.
AppendRaises(o) ==
    /\ op[o] # NoOp
    /\ op' = [op EXCEPT ![o] = NoOp]
    /\ IF proc[o] = "recovering"
       THEN Gives(o) /\ rec' = [rec EXCEPT ![o] = NoRec]
       ELSE UNCHANGED <<lease, proc>> /\ rec' \in {rec, [rec EXCEPT ![o] = NoRec]}
    /\ UNCHANGED <<files, mem>>
-----------------------------------------------------------------------------
(* The end of an owner, and of the session. *)

\* set_lifecycle: the header in memory first, then its publication, which may raise.
EndSession(o) ==
    /\ Writable(o) /\ proc[o] # "recovering"
    /\ mem' = [mem EXCEPT ![o].status = "ended"]
    /\ header' \in {header, mem'[o]}
    /\ UNCHANGED <<touched, lease, cmds, binds, evid, proc, op, rec, spoiled>>

\* close gives the lease back before it marks the session closed.
CloseReleases(o) ==
    /\ proc[o] = "open"
    /\ (op[o] = NoOp /\ rec[o] = NoRec) \/ "close_in_flight" \in Events
    /\ lease' = Released(o)
    /\ proc' = [proc EXCEPT ![o] = "releasing"]
    /\ UNCHANGED <<files, mem, op, rec>>

CloseMarks(o) ==
    /\ proc[o] = "releasing"
    /\ proc' = [proc EXCEPT ![o] = "closed"]
    /\ UNCHANGED <<files, lease, mem, op, rec>>

\* The process dies; the system takes its lease back.
Crash(o) ==
    /\ proc[o] \notin {"none", "dead"}
    /\ proc' = [proc EXCEPT ![o] = "dead"]
    /\ lease' = Released(o)
    /\ op' = [op EXCEPT ![o] = NoOp]
    /\ rec' = [rec EXCEPT ![o] = NoRec]
    /\ UNCHANGED <<files, mem>>

Opens(o) ==
    \/ CreateChecks(o) \/ Leases(o, "checked", "creating") \/ CreatePublishes(o)
    \/ Leases(o, "none", "opening") \/ OpenReads(o) \/ OpenReturns(o)

Mutates(o) ==
    \/ \E c \in Command, s \in Commands!States : MoveBegin(o, c, s)
    \/ \E c \in Command, g \in Generation :
          \/ DispatchBegin(o, c, g)
          \/ \E class \in Classes : AttachBegin(o, c, class, g)
    \/ \E g \in Generation : AcquireBegin(o, g) \/ ReleaseBegin(o, g)
    \/ WriteCommand(o) \/ WriteBinding(o) \/ WriteEvidence(o) \/ AttachTransition(o)
    \/ RecoverBegin(o) \/ \E c \in Command : RecoverNext(o, c)
    \/ AppendRaises(o)

Next ==
    \E o \in Owner :
        Opens(o) \/ Mutates(o) \/ EndSession(o) \/ CloseReleases(o) \/ CloseMarks(o) \/ Crash(o)

Spec == Init /\ [][Next]_vars
-----------------------------------------------------------------------------
(* Properties. *)

Header == [session : Owner, owner : Owner, status : {"active", "ended"}]

CommandRecord  == [command : Command, from : Commands!States, state : Commands!States,
                   gen : Generation \cup {NoGeneration}]
BindingRecord  == [kind : {"acquired", "released"}, gen : Generation]
EvidenceRecord == [command : Command, class : Classes]

Op == [at : {"none"}] \cup [at : {"commands"}, record : CommandRecord]
        \cup [at : {"bindings"}, record : BindingRecord]
        \cup [at : {"evidence", "transition"}, record : EvidenceRecord]

TypeOK ==
    /\ touched \in BOOLEAN
    /\ header \in Header \cup {NoHeader}
    /\ lease \in Owner \cup {NoOwner}
    /\ cmds \in Seq(CommandRecord) /\ binds \in Seq(BindingRecord) /\ evid \in Seq(EvidenceRecord)
    /\ proc \in [Owner -> {"none", "checked", "creating", "opening", "recovering", "open",
                           "releasing", "closed", "dead"}]
    /\ mem \in [Owner -> Header \cup {NoHeader}]
    /\ op \in [Owner -> Op]
    /\ rec \in [Owner -> [Command -> Classes \cup {"none"}]]
    /\ spoiled \in BOOLEAN

\* test_browser_binding_and_rebinding_have_distinct_generations: no generation is
\* bound twice.  acquire_browser_binding does not see to it.
DistinctGenerations == \A g \in Generation : Cardinality(Bound("acquired", g)) <= 1

\* The commands of the journal are proposed once, dispatched at most once and ended
\* once, across crashes, takeovers and recovery: each step of the journal is one of
\* CommandLifecycle, for as long as nothing was appended without the lease or in the
\* place of a journal that could not be read.
CommandsKeepTheirPromise ==
    /\ Commands!Init
    /\ [][spoiled' \/ Commands!Next]_([c \in Command |-> StateOf(cmds, c)])

\* ContinuitySession: "Exclusive writer for one durable continuity session directory."
\* Whoever is about to append holds the lease, or has given it back by closing the
\* session under that thread, and owns it no more.
ExclusiveWriter ==
    \A o \in Owner : op[o] # NoOp => lease = o \/ proc[o] \in {"releasing", "closed"}

\* Every reader can replay the commands; the bindings too, unless some generation was
\* acquired again; and at most one binding is active.
JournalsReplay ==
    /\ Readable(cmds) /\ Cardinality(Active) <= 1
    /\ DistinctGenerations => BindingsReadable

\* A command ends verified or failed only with evidence that says the same, whoever
\* attached it and whoever drew the conclusion.
EvidenceAgrees ==
    \A c \in Command : StateOf(cmds, c) \in {"verified", "failed"} =>
        \E i \in Of(evid, c) : evid[i].class = StateOf(cmds, c)

\* What the files of a ContinuitySession say can be read back, and is true of what the
\* evidence says, as long as every record was appended to its journal under the lease.
JournalsTellTruth == ~spoiled => JournalsReplay /\ EvidenceAgrees

\* A dispatch is recorded only while the binding generation it names is active.
DispatchedUnderBinding ==
    [][\A c \in Command :
          ~spoiled' /\ StateOf(cmds', c) = "dispatched" /\ StateOf(cmds, c) # "dispatched" =>
              GenerationOf(c)' \in Active]_vars

\* A recovering open hands the session out only when no command is left dispatched.
RecoveryComplete ==
    [][\A o \in Owner : ~spoiled /\ proc[o] = "recovering" /\ proc'[o] = "open" =>
          \A c \in Command : StateOf(cmds, c) # "dispatched"]_vars

\* It does not forget evidence that the dead owner had attached.
RecoveryUsesEvidence ==
    [][\A o \in Owner, c \in Command :
          ~spoiled' /\ proc[o] = "recovering" /\ StateOf(cmds', c) # StateOf(cmds, c) /\ Of(evid, c) # {} =>
              StateOf(cmds', c) = EvidenceFor(c)]_vars

\* Both of them: recover_interrupted_commands ends every command, as its evidence says.
RecoverySound == RecoveryComplete /\ RecoveryUsesEvidence
-----------------------------------------------------------------------------
(* Statements of the code and of its tests that the code does not keep. *)

\* "Exclusive writer" as it stands: whoever is about to append holds the lease.  A host
\* may close a session while a thread of its own mutates it.
OnlyOwnersWrite == \A o \in Owner : op[o] # NoOp => lease = o

\* Every append goes to the journal that was replayed, and under the lease.
NeverSpoiled == ~spoiled

\* test_lifecycle_is_monotonic_and_terminal_session_is_read_only: an ended session's
\* journals do not change.
EndedIsReadOnly ==
    [][header.status = "ended" => UNCHANGED <<cmds, binds, evid>>]_vars

\* test_command_journal_is_append_only_and_reconstructs_state.
AppendOnly == [][Len(cmds') >= Len(cmds) /\ SubSeq(cmds', 1, Len(cmds)) = cmds]_vars
=============================================================================
