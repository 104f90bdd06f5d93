----------------------------- MODULE McpServer -----------------------------
(***************************************************************************)
(* The planner's side of the runtime: mcp/server.py, one server for one     *)
(* governed session (runtime/governed_agent.py), with the table of opaque   *)
(* handles through which the capabilities of the session are lent to the    *)
(* planner.                                                                 *)
(*                                                                          *)
(* A server made from a host factory is serial: one thread runs its calls,  *)
(* and its close, in the order they came.  A server made from a session     *)
(* runs each call on the thread that brought it.  In both a connection may  *)
(* end, and a host may close the server, while calls are under way.         *)
(***************************************************************************)
EXTENDS Naturals, FiniteSets, Sequences

CONSTANTS
    Call,               \* the calls that planners make
    None,               \* no handle, no call
    MaxHandles,         \* MAX_MCP_HANDLES
    MaxTombstones,      \* MAX_MCP_CONSUMED_HANDLE_TOMBSTONES
    Offers,             \* the tools that a call may be of
    MaxConnections      \* bounds how often the server is connected to

ASSUME CapacityAssumption ==
    /\ MaxHandles \in Nat \ {0} /\ MaxTombstones \in Nat /\ MaxConnections \in Nat
    /\ None \notin Call \cup Nat /\ IsFiniteSet(Call)

VARIABLES
    serial,         \* the server has the execution thread
    closed,         \* _closed
    closer,         \* where the close of the server stands
    queue,          \* the work submitted to the execution thread, oldest first
    connection,     \* the number of the present or last connection
    connected,
    handles,        \* the live handles
    tombstones,     \* the identifiers of spent handles, oldest first
    reserved,       \* _handle_reservations
    generation,     \* _handle_generation
    minted,         \* how many handles were minted
    late,           \* the handles whose expiry has passed
    told,           \* <<h, k>>: handle h was given to the planner of connection k
    call            \* call[c]: where call c is and what it carries

table   == <<handles, tombstones, reserved, generation, minted>>
line    == <<connection, connected>>
vars    == <<serial, closed, closer, queue, line, table, late, told, call>>
-----------------------------------------------------------------------------
Takes(tool) ==
    CASE tool \in {"reobserve", "execute"} -> "observation"
      [] tool = "commit" -> "prepared"
      [] tool \in {"select", "continue"} -> "speculation"
      [] OTHER -> "nothing"
Mints(tool) ==
    CASE tool \in {"observe", "reobserve"} -> "observation"
      [] tool \in {"prepare", "continue"} -> "prepared"
      [] tool = "speculate" -> "speculation"
      [] OTHER -> "nothing"
Consumes(tool) == tool \in {"commit", "continue"}
Tools == {"observe", "reobserve", "execute", "prepare", "commit", "speculate", "select",
          "continue"}

NoCall == [at |-> "idle", tool |-> "observe", handle |-> None, on |-> 0, slot |-> None,
           gives |-> None]

At(c, place)   == call[c].at = place
Goes(c, place) == call' = [call EXCEPT ![c].at = place]

\* Mutant: a closed server does nothing any more.
RunsWhileOpen(c) == ~closed /\ (~serial \/ (queue # <<>> /\ Head(queue) = c))
\* Without the execution thread every call may run; with it only the first.
Runs(c) == ~serial \/ (queue # <<>> /\ Head(queue) = c)

Init ==
    /\ serial \in BOOLEAN /\ closed = FALSE /\ closer = "none" /\ queue = <<>>
    /\ connection = 1 /\ connected = TRUE
    /\ handles = {} /\ tombstones = <<>> /\ reserved = 0 /\ generation = 0 /\ minted = 0
    /\ late = {} /\ told = {} /\ call = [c \in Call |-> NoCall]
-----------------------------------------------------------------------------
(* A call is refused once the server is closed, and else handed to the      *)
(* execution thread or begun at once.  It may name any handle its planner   *)
(* was ever given.                                                          *)

Arrives(c, tool, h) ==
    /\ At(c, "idle") /\ connected /\ tool \in Offers[c]
    /\ h \in {t[1] : t \in told} \cup {None}
    /\ Takes(tool) = "nothing" => h = None
    /\ IF closed
       THEN Goes(c, "done") /\ UNCHANGED queue
       ELSE /\ call' = [call EXCEPT ![c] = [@ EXCEPT !.at = "take", !.tool = tool,
                                                     !.handle = h, !.on = connection]]
            /\ queue' = IF serial THEN Append(queue, c) ELSE queue
    /\ UNCHANGED <<serial, closed, closer, line, table, late, told>>

\* Every locked use of the table drops first what is late.
Live == {h \in handles : h.id \notin late}

\* The tombstones that are not late, in their order.
Unspent ==
    LET kept  == {i \in DOMAIN tombstones : tombstones[i] \notin late}
        nth(n) == CHOOSE i \in kept : Cardinality({j \in kept : j <= i}) = n
    IN  [n \in 1..Cardinality(kept) |-> tombstones[nth(n)]]

Known(h)  == {x \in Live : x.id = h}

\* A consumed handle leaves the table; others stay until they are late.
AfterTaking(x, tool) == IF Consumes(tool) THEN Live \ {x} ELSE Live

\* The oldest tombstones are dropped when there are too many.
Buried(i) == LET all == Append(Unspent, i)
             IN  IF Len(all) > MaxTombstones THEN SubSeq(all, Len(all) - MaxTombstones + 1, Len(all)) ELSE all

AfterTake(tool) == IF Mints(tool) # "nothing" THEN "reserve" ELSE "serve"

\* The handle is checked, with the session's present epoch, and spent if the
\* call spends it, in one hold of the table's lock.  The session refuses to say
\* its epoch while it is in use or when the server has lost control of it.
TakesHandle(c) ==
    LET tool == call[c].tool  h == call[c].handle
    IN  /\ At(c, "take") /\ Runs(c)
        /\ \/ /\ h = None /\ tool \notin {"commit", "select", "continue"}
              /\ Goes(c, AfterTake(tool)) /\ UNCHANGED table
           \/ \E x \in Known(h) :
                 /\ x.kind = Takes(tool) /\ Goes(c, AfterTake(tool))
                 /\ handles' = AfterTaking(x, tool)
                 /\ tombstones' = IF Consumes(tool) THEN Buried(x.id) ELSE Unspent
                 /\ UNCHANGED <<reserved, generation, minted>>
           \/ /\ h # None \/ tool \in {"commit", "select", "continue"}
              /\ handles' = Live /\ tombstones' = Unspent /\ Goes(c, "end")
              /\ UNCHANGED <<reserved, generation, minted>>
        /\ UNCHANGED <<serial, closed, closer, queue, line, late, told>>
-----------------------------------------------------------------------------
(* Room in the table is reserved before the browser is asked, the handle is *)
(* minted afterwards, and the reservation given back whatever happened.     *)

Reserves(c) ==
    /\ At(c, "reserve") /\ Runs(c)
    /\ handles' = Live /\ tombstones' = Unspent
    /\ IF Cardinality(Live) + reserved < MaxHandles
       THEN /\ reserved' = reserved + 1
            /\ call' = [call EXCEPT ![c].at = "serve", ![c].slot = generation]
       ELSE Goes(c, "end") /\ UNCHANGED reserved
    /\ UNCHANGED <<serial, closed, closer, queue, line, generation, minted, late, told>>

\* The service checks the principal and the control, tries the session's lock and
\* does the work.  It may fail; a selected branch may have executed an operation
\* instead of preparing one.
Serves(c) ==
    /\ At(c, "serve") /\ Runs(c)
    /\ \/ Mints(call[c].tool) # "nothing" /\ Goes(c, "mint")
       \/ Goes(c, "end")
    /\ UNCHANGED <<serial, closed, closer, queue, line, table, late, told>>

StillOurs(c) == call[c].slot = generation

\* A prepared operation's handle is given the epoch the session has now, which it
\* may refuse to say, and the lifetime of what was prepared may be over already.
MintHandle(c) ==
    LET kind == Mints(call[c].tool)
        new  == [id |-> minted + 1, kind |-> kind, gen |-> call[c].slot]
    IN  /\ At(c, "mint") /\ tombstones' = Unspent
        /\ \/ /\ StillOurs(c) /\ handles' = Live \cup {new} /\ minted' = minted + 1
              /\ call' = [call EXCEPT ![c].at = "end", ![c].gives = minted + 1]
           \/ /\ ~StillOurs(c) \/ kind # "observation"
              /\ handles' = Live /\ Goes(c, "end") /\ UNCHANGED minted
        /\ UNCHANGED <<serial, closed, closer, queue, line, reserved, generation, late, told>>

GivesBack(c)       == call[c].slot = generation /\ reserved > 0

\* The reservation goes back, whatever happened, and the answer reaches the planner
\* if its connection still stands.
Ends(c) ==
    /\ At(c, "end")
    /\ reserved' = IF GivesBack(c) THEN reserved - 1 ELSE reserved
    /\ call' = [call EXCEPT ![c] = [NoCall EXCEPT !.at = "done"]]
    /\ queue' = IF serial THEN Tail(queue) ELSE queue
    /\ told' = IF call[c].gives # None /\ connected /\ call[c].on = connection
               THEN told \cup {<<call[c].gives, connection>>} ELSE told
    /\ UNCHANGED <<serial, closed, closer, line, handles, tombstones, generation, minted, late>>
-----------------------------------------------------------------------------
(* The end of a connection and of the server.                               *)

\* Mutant: the handles outlive their connection.
Keeps == UNCHANGED table
Clears ==
    /\ handles' = {} /\ tombstones' = <<>> /\ reserved' = 0
    /\ generation' = generation + 1 /\ UNCHANGED minted

\* The host has chosen whether the server is closed with its connection.
Disconnects ==
    /\ connected /\ connected' = FALSE /\ Clears
    /\ \/ ~closed /\ closed' = TRUE /\ closer' = "clear"
       \/ UNCHANGED <<closed, closer>>
    /\ UNCHANGED <<serial, queue, connection, late, told, call>>

Connects ==
    /\ ~connected /\ connection < MaxConnections /\ ~closed
    /\ connected' = TRUE /\ connection' = connection + 1
    /\ UNCHANGED <<serial, closed, closer, queue, table, late, told, call>>

CloseBegins ==
    /\ ~closed /\ closed' = TRUE /\ closer' = "clear"
    /\ UNCHANGED <<serial, queue, line, table, late, told, call>>

CloseClears ==
    /\ closer = "clear" /\ Clears /\ closer' = "end"
    /\ queue' = IF serial THEN Append(queue, None) ELSE queue
    /\ UNCHANGED <<serial, closed, line, late, told, call>>

\* The session is closed after the calls that came before.  A session in use, or
\* that somebody else controls, refuses and stays open: the close returns all the
\* same, and the server stays closed.
CloseEnds ==
    /\ closer = "end" /\ (serial => Head(queue) = None) /\ closer' = "done"
    /\ queue' = IF serial THEN Tail(queue) ELSE queue
    /\ UNCHANGED <<serial, closed, line, table, late, told, call>>
-----------------------------------------------------------------------------
Ages(h) ==
    /\ h \in ({x.id : x \in handles} \cup {tombstones[i] : i \in DOMAIN tombstones}) \ late
    /\ late' = late \cup {h}
    /\ UNCHANGED <<serial, closed, closer, queue, line, table, told, call>>

Steps(c) == TakesHandle(c) \/ Reserves(c) \/ Serves(c) \/ MintHandle(c) \/ Ends(c)

Next ==
    \/ \E c \in Call, tool \in Tools, h \in 1..minted \cup {None} : Arrives(c, tool, h)
    \/ \E c \in Call : Steps(c)
    \/ Disconnects \/ Connects \/ CloseBegins \/ CloseClears \/ CloseEnds
    \/ \E h \in 1..minted : Ages(h)

Spec == Init /\ [][Next]_vars
-----------------------------------------------------------------------------
Kinds   == {"observation", "prepared", "speculation"}
Places  == {"idle", "take", "reserve", "serve", "mint", "end", "done"}
Handles == [id : 1..minted, kind : Kinds, gen : 0..generation]
Record  == [at : Places, tool : Tools, handle : 1..minted \cup {None}, on : 0..connection,
            slot : 0..generation \cup {None}, gives : 1..minted \cup {None}]

\* The state has its type; nothing is of a handle, connection or table yet to come.
TypeOK ==
    /\ serial \in BOOLEAN /\ closed \in BOOLEAN /\ closer \in {"none", "clear", "end", "done"}
    /\ queue \in Seq(Call \cup {None}) /\ connection \in Nat \ {0} /\ connected \in BOOLEAN
    /\ reserved \in Nat /\ generation \in Nat /\ minted \in Nat
    /\ handles \subseteq Handles /\ IsFiniteSet(handles)
    /\ tombstones \in Seq(1..minted) /\ late \subseteq 1..minted
    /\ told \subseteq (1..minted) \X (1..connection)
    /\ call \in [Call -> Record]

\* Calls that hold a reservation of the present table, and those that have not minted.
Holders == {c \in Call : call[c].slot = generation}
Pending == {c \in Holders : call[c].at \in {"serve", "mint"}}

\* The table never holds more handles than it may, whoever reserved, minted, gave
\* back or cleared it meanwhile: every reservation counted is held by a call that
\* will give it back, what is reserved and not minted still fits, and no handle
\* comes from before the table was last cleared.
SlotsAccounted ==
    /\ reserved = Cardinality(Holders)
    /\ Cardinality(handles) + Cardinality(Pending) <= MaxHandles
    /\ Len(tombstones) <= MaxTombstones
    /\ \A h \in handles : h.gen = generation

\* A planner that connects to a session the host retained can use nothing that
\* was given to the planner before it: a handle gets a call past the table's
\* check only on the connection it was given to.
NothingCarriesOver ==
    \A c \in Call :
        call[c].handle # None /\ call[c].at \in {"reserve", "serve", "mint"}
            => <<call[c].handle, call[c].on>> \in told

\* Both of them, of one table: _clear_handles empties it with its reservations and its
\* generation, and what was going on meanwhile neither fills nor uses the next one.
HandlesKept == SlotsAccounted /\ NothingCarriesOver

\* Nobody waits for ever on the execution thread, on a slot or on a close: while a
\* call is unanswered or the server's close has not returned, one of them can go
\* on, and each goes on only finitely often.
AllAnswered ==
    (\E c \in Call : call[c].at \notin {"idle", "done"}) \/ closer \in {"clear", "end"}
        => ENABLED ((\E c \in Call : Steps(c)) \/ CloseClears \/ CloseEnds)
=============================================================================
