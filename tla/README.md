# Specifications of dingdongditch

dingdongditch executes browser operations for an agent under a host's policy and
reports each one with a receipt. These modules specify the parts of it whose
correctness depends on the order of things: who holds control of a session, which
page an approved operation reaches, what is charged to a budget, when a verdict is
earned, what survives a crash. They are translated from the Python source (package
`dingdongditch/`); the line ranges each definition stands for are in `PROJECT.json`
under `map`, the hazards the properties are aimed at, with their lines, under
`hazards`.

## 1. The system

### Components, their state and their operations

| Component (source) | State it keeps | Operations | What makes it correct | Modules |
|---|---|---|---|---|
| Governed browser session (`runtime/stateful_session.py`, `contract/authority.py`) | one record per session: control lease, offers of handoff, preparations, mutation epoch and monitor, authority counters, signed plan index, receipt chain | observe, prepare, commit, execute, offer and claim a handoff, record a mutation, bind a plan, close, expire | a token is used once, on the page it was prepared on, by the present controller, within the budgets | `GovernedSession` |
| Registry and lifecycle (the same file, start and stop of `backends/playwright_backend.py`, `authentication/profiles.py`) | records and their locks, one shared driver, profile leases | open, call, close, expire, sweep; create and remove a profile | browsers and commands stay apart, an ended session holds nothing, every lock comes free | `BrowserSessions` |
| Bounded speculation (the same file, `contract/speculation.py`) | at most sixteen prepared graphs of branches under a parent receipt | prepare, select, execute a branch | a graph continues once and only after its verified parent | `Speculation` |
| Operation executor, plan executor, verifier, quorum, preconditions, timing (`runtime/executor.py`, `plan_executor.py`, `verifier.py`, `page_preconditions.py`, `plan_timing.py`, `contract/quorum.py`), the browser actions and target resolver behind them | the position in a plan, deadlines | check, choose a branch, find the target, dispatch, read expectations, judge | nothing goes out that is not allowed, VERIFIED is proven, every plan ends | `Execution`, `Verdicts` |
| Network evidence, waits for videos (`backends/playwright_backend.py`, `runtime/verifier.py`, `evidence/network.py`) | the network log and its window; samples of a video | record, trim, judge, trace; sample | a verdict speaks of what happened after the action | `NetworkEvidence`, `VideoWait` |
| Choices and uploads (`_dispatch_combobox_selection`, `_upload_snapshot` and `UPLOAD_FILE` of the backend) | a list of options read place by place; what the page showed before | select an option, upload files | what is reported chosen or attached was | `Controls` |
| Page observer (`page_observer.py`) | observations, references, attestations, bundles on disk | observe, reload, validate, attest | an operation with a fresh reference acts on the node that was seen | `Observation` |
| Continuity journal (`continuity.py`, `runtime/publication.py`, `file_lease.py`) | header, owner lease, journals of commands, bindings and evidence | create, open, recover, propose, authorize, dispatch, cancel, attach, close | one writer at a time; a dispatched command ends once, and is never dispatched again after a crash | `Continuity`, `CommandLifecycle` |
| File queue and event log (`runtime/file_queue.py`, `publication.py`) | pending, claimed and completed files, a log | publish, claim, complete, append | a command runs once, none is lost, the log tells all | `CommandQueue` |
| Run ownership, typing session, inbox and the live conversation over them (`runtime/run_ownership.py`, `typing_session.py`, `inbox.py`) | generation directories, a lock in each, the current pointer, messages | acquire, publish, type, stop, finish, close | turns follow one another, an outcome is final, a STOP ends the run | `Conversation` |
| Generation monitor and lifecycle adapters (`runtime/generation_monitor.py`, `application_lifecycle.py`) | counters and deadlines over samples | begin, observe, cancel | a stall and a completion are told apart | `Generation`, `Sampling` |
| Signed plans, identities, attestation, receipts and their chain (`contract/signed_plan.py`, `identity.py`, `attestation.py`, `receipt_chain.py`) | nonces, keys, versions, sealed receipts | verify, bind, hand off, seal, extend, accept | authority is neither replayed nor widened; a damaged chain is found | `Trust`, `Receipts` |
| Downloads (`contract/download.py`) | staging and completed files, markers and locks | wait, verify, copy, publish, recover | a name holds what was verified | `Downloads` |
| Secrets and passkeys (`authentication/secrets.py`, `webauthn.py`) | provider generations, threads of the host | bind, check, resolve, clear, wipe | a fill gets the generation it was prepared with; nobody waits for a thread for ever | `Secrets` |
| Portable state (`authentication/portable_state.py`, `capability.py`) | cookies and storage of contexts, files, pending state | export, validate, import, prepare, clear | a context holds its own and what was validated for it | `PortableState` |
| Desktop (`backends/windows_desktop_backend.py`, `runtime/desktop_executor.py`) | owned windows, launched processes | launch, activate, act, clean up | the user's windows are spared, the session's are closed | `Desktop` |
| MCP server (`mcp/server.py`, `runtime/governed_agent.py`) | opaque handles, reservations, tombstones, a generation | every tool, disconnect, close | handles are neither lost nor carried over; every call is answered | `McpServer` |
| Contracts, encodings, schemas, command line, provider adapters | none | encode, parse | pure data; left to the repository's tests | none |

### How they interact

A client (the governed agent, the MCP server, or code of the host) calls the session
runtime. Each call finds the record, checks its status (`_access`), takes the
record's lock *without blocking* (a second caller gets "session is busy"), checks the
control lease, and works with the backend until it returns. `commit_operation` calls
`execute_operation` while it holds the (re-entrant) lock; `execute_operation` asks
the firewall, calls the executor, charges the budgets and chains the receipt. The
browser runs on its own: pages change, and the browser process may die, between any
two reads. The host's deadlines (policy, plan, preparation, offer, idle time) pass
between any two steps. The continuity journal, the queue, the downloads and the run
directories are shared between processes through files and leases, and their owners
may crash between any two file operations. Secrets and passkeys come from threads of
the host that outlive the call that asked.

### What is hard about it

* the page is read several times in one call (monitor, capture, second capture,
  revalidation, dispatch, each expectation) and may move between any two reads;
* control passes between agents that keep their old tokens, may return to an agent
  that held it before, and meets preparations made before, during and after the offer;
* budgets are checked against the worst case of a guard, before the page chooses
  the branch, and charged from the receipt afterwards;
* a dispatch whose result is lost is ambiguous, and the token, the budget and the
  plan must take a side;
* status and idle clock are read before the lock they are decided under is taken;
* files are changed in several steps with crashes in between, and bounded tables
  (handles, graphs, log records, observations) forget while they are used.

## 2. Modules

### `GovernedSession`: one governed session

The record of `stateful_session.py` for a session with a controller and an authority
envelope, the parts of `executor.py` that decide what is dispatched and what the
receipt records, and the browser as their environment.

**State.** `status`, `agent`, `epoch`, `actionCount`, `sideCount`, `planIdx`,
`mutationEpoch`, `preps` and `chain` are fields of the record (`status`, `agent_id`,
`control_epoch`, `authority_action_count`, `authority_side_effect_count`,
`signed_plan_next_index`, `mutation_epoch`, `preparations`, `receipt_chain`).
`seen` is `mutation_state_fingerprint`, as the page revision it was computed from, and
`offer` the one pending handoff. A control token is identified with the epoch it was
minted for, and a commit token with its index in `preps`. `held`, `obs` are what the
agents were given and kept. `page`, `alive` and `lapsed` are the browser and the
clocks. `attempts` (dispatches) and `stale` (a mutation nobody observed since) are
history variables. `call` is the call that holds the lock, with its progress.

**Actions.** One per public call. A call that reads the browser once is one step.
One that reads it repeatedly is split at those reads, and the lock keeps other
*calls* out, not the browser:

| Call | Steps |
|---|---|
| `prepare_operation` | `PrepareBegin` (lease, plan, monitor, firewall), then `PrepareCapture` or `CaptureRaises` |
| `commit_operation` | `CommitBegin` (token, expiry, epochs, payload), then `CommitRecheck` (second capture, firewall, consumption) or `CaptureRaises`, then `NestedBegin` or `NestedRaises` |
| `execute_operation` | `ExecuteBegin` (lease, plan, monitor, reference, preparation, firewall), then the executor |
| the executor | `SelectActions`, `SkipAbsentTarget` or `Refuse`; `DispatchNext` for every `backend.dispatch`; `Verify`; `Fault` at any point; then `Settle` (charge, chain, plan index, own mutation, dead browser) |
| handoff | `PrepareHandoff`, `ClaimHandoff` |
| host and end | `RecordExternalMutation`, `BindSignedPlan`, `CloseSession`, `ExpireSession`, `FindTerminal`, `Observe` |

`PageMoves`, `BrowserDies`, `Lapse`, `PreparationExpires` and `OfferExpires` are the
environment. `PageMoves` also stands for `select_page` and for observing another page:
both replace what the next read sees.

**Abstractions.** A page is a revision number and whether its origin is permitted.
Both fingerprints of the code (that of the capture and that of the monitor) are
functions of the page and become the revision; pages that return to an earlier
content are therefore not distinguished from pages that went on. An operation is a
model value with its action, the action lists of its guard, and whether it has a
legacy target-absent guard. `Op` holds the operations whose *static* data (action
types, origins named in the operation, data classes) the envelope permits; the
firewall's checks on the state (deadline, origin of the page, both budgets) are
`Decide`. The status check and the acquisition of the lock are one step. A reference may leave either
epoch out (`NoEpoch`), as the code's default is (`contract/observation.py:197`); it is not compared
then, and counts as a fresh observation all the same (`stateful_session.py:1174`).

**Composition.** `MCGovernedSession` extends it with a small world: `pay`
(consequential and irreversible), `look` (a plain click), `branch` (a guard with
branches of one and two actions) and `skip` (a target-absent guard).

### Proof modules

| Module | Extends | Proves |
|---|---|---|
| `GovernedSessionProofs` | `GovernedSession` | types, tokens, control, the page behind a commit or a reference, commits, handoffs, budgets, the signed plan |
| `ExecutionProofs` | `Execution` (and `Verdicts`) | what lets an action out, what it strikes, what proves a verdict |
| `ContinuityProofs` | `Continuity` | the journals, their owner and recovery, the refinement of `CommandLifecycle` |
| `BrowserSessionsProofs` | `BrowserSessions` | what is kept apart, and who expires |
| `ConversationProofs` | `Conversation` (and `Generation`) | turns and outcomes |
| `DeferredProofs` | `MCDeferred` | graphs of branches, the file queue, secrets |
| `KeptProofs` | `MCKept` | signed plans, kept chains, downloads, portable state |
| `SurfacesProofs` | `MCSurfaces` | handles, windows, observations, samples, traffic, videos, choices and uploads |

The last three extend the composition of their parts, whose constants are arbitrary there: the
values of the run are in its `.cfg`. Section 4 says what each establishes and how.

### `CommandLifecycle` and `Continuity`: the durable journal

`CommandLifecycle` is the abstract promise: every command goes from `none` over
`proposed`, `authorized` and `dispatched` to one of `verified`, `failed` and
`outcome_unknown`, or is `cancelled` before its dispatch. `Continuity` is
`continuity.py`: one session directory and the processes that own it in turn. Its
refinement mapping reads the state of a command from the last record of the journal.

**State.** `touched` (the directory is not empty), `header` (`session.json`), `lease`
(`.owner.lock`), `cmds`, `binds` and `evid` (the three journals) are files. Per process:
`proc` (where its `create` or `open` stands, open, releasing, closed, dead), `mem` (its
`_header`), `op` (the mutation that holds `_mutation_lock`) and `rec` (the commands its
recovery still has to end).

**Actions.** `create` is `CreateChecks`, `Leases`, `CreatePublishes`; `open` is `Leases`,
`OpenReads`, then `RecoverNext` for every interrupted command and `OpenReturns`. A
mutation replays the journals and checks them in one step (`MoveBegin`, `DispatchBegin`,
`AcquireBegin`, `ReleaseBegin`, `AttachBegin`, `RecoverNext`) and appends in another
(`WriteCommand`, `WriteBinding`, `WriteEvidence` followed by `AttachTransition`). The
steps are apart because `close` (`CloseReleases`, `CloseMarks`), `set_lifecycle`
(`EndSession`) and the death of the process (`Crash`) do not take the mutation lock;
`AppendRaises` is any file operation that raises. `RecoverBegin` is a recovery the host
asks for.

**Abstractions.** Records keep the command, the transition, the generation and the
class of a verdict; digests, times and references are left out, and so is a torn line:
a publication replaces the whole file. A replay is a predicate (`Readable`, `BindingsReadable`) and `StateOf`. `Events`
names what not every host or file system does: close a session
that another thread is mutating, acquire a released generation again, fail to read a
file that exists. The run has all three and the theorems hold for any of them. The history
variable `spoiled` is set by an append without the lease, or in the place of a journal that could not
be read: the properties of the journals are stated until then, and section 6 says what these appends do.

### `BrowserSessions`: registry, locks, browsers and profiles

**State.** `status`, `held`, `idle`, `lock`, `started`, `dead` are fields of the records and
their backends; `chrome`, `drivers`, `driver` what runs of the shared Playwright driver
(`_shared_playwright_refcount`); `lease`, `disk` the named profiles; `th[t]` the call a
thread is in. **Actions.** A call of a thread is `CallBegins` (the status check, without
the lock), taking the lock without blocking, `BodyAccesses` (the second `_access` inside a
command), and the release; `open` starts a browser step by step, each of which may
fail; `SweepBegins` reads status and idle clock without the lock. `Dies`, `GoesIdle`,
`CreateBegins`, `CreateEnds` and `Remove` are the environment.
**Abstractions.** What a command does in the browser is one step (`GovernedSession`
splits it); the idle clock is the set of sessions whose timeout has passed. A stop collects the
errors of the context and the browser and goes on (`playwright_backend.py:826`): `StopsBrowser` may leave
the browser in `astray`, running without a backend that answers for it, until it ends by itself
(`StrayEnds`). `driver` says that `_shared_playwright` is set, which the stop unsets before it asks
the driver to stop. Chrome's own lock on a profile directory, and a lease file whose closing
raises, are left out.

### `Speculation`: graphs of branches on one session

The calls run under the session's lock; their orders, the page, mutations, handoffs and time
interleave. A call is one step, but for the execution of a selected branch: it selects again and consumes the
graph (`SelectsAgain`), and goes on (`Proceeds`) to `Prepares` or `Executes` the branch, each with a look at the
page of its own, while `going` keeps other calls out and the page and the clock go on. `spec[k]` is the graph of token `k`, `prep[k]`
the preparation its selected branch became, and `ran`, `touched`, `voided`, `late` are history.
`MaxActive` is `_MAX_ACTIVE_SPECULATIONS`. Conditions of branches are the set `matches` the
page satisfies; digests are the identities of graphs and receipts. Between the look at the page inside
`Executes` and the dispatch the page may move on as well; that window is that of every execution, and is
modelled in `GovernedSession`.

### `Execution` and `Verdicts`: one plan

**State.** The browser (`page`, `target`, `net`, `video`, `pages`, `active`) moves between any
two steps (`PageChanges`, `NetworkMoves`, `Tick`); the host is at `pc` of operation `i` with
its locals `st`; `clock` is the time left to the deadlines, so that time needs no absolute
value; `held` remembers which facts were true since the operation began.
**Actions.** `Executes` is the code in its order, one disjunct per stage: `Checks` reads the
preconditions one by one, `Guards` the conditions of the branches (one may match, or
`otherwise`), `Dispatches` finds the target (frames, candidates, constraints, the bound
element), prepares it, acts by kind and waits with polls and extensions, `Verifies`
reads rounds of expectations, quorum, pages and dialogs and gives the verdict. `Raises` is
any reading that raises. `Verdicts` holds the pure decisions.
**Abstractions.** A condition of the page is a `Fact` that is read atomically and may be
true, false or unreadable; a locator is the set of elements it finds. The slow snapshot
that `_serial_element_snapshot` takes when the fast one fails, the details of drags
and pacing are left out; what a combobox and an upload read back is the matter of `Controls`;
a file that may not be uploaded is `Raises`; the load state of a page is the fact of its wait.
What a host's plan is made of (`Plan`, `Operation`, `Branch`, `Quorum`) is the type of the constant
`Plans`; `ValidPlan` is what `validate` refuses of it.

### `NetworkEvidence`, `VideoWait` and `Controls`: what samples, logs and second looks prove

`NetworkEvidence` has the listeners (`Asks`, `AsksUnheard`, `Answers`), the log that forgets
its oldest records, the operation that opens its window, dispatches, reads, judges and
captures a trace, and history variables for what really happened. Requests begin before
the action and are answered after it, within one millisecond, or while the log is
full. `request_failed` only marks a record and is left out.

`VideoWait` has a video that plays, pauses, seeks, loops, is replaced and reloaded, and
the wait that samples it (`Polls`); `watched` is the history of what was really sampled.
Seeking cannot be told from playing (the repository documents it), and an element that
is swapped and swapped back between two samples is not in the model.

`Controls` has the two acts that are confirmed by looking again. A selection counts the options,
reads each at its place, judges, reads the chosen one again, clicks the place and reads the
field (`Aims` to `Confirms`), while the page renders the list anew between any two of these
(`Renders`); an upload looks, sets the files and looks again (`Looks`, `Sets`, `LooksAgain`)
after the page took them in its own way (`Answers`). `past` is the history: what the field
and the page showed before, and whether the list moved between the second reading and the
click. The second look counts every file input of the page, as the code does once the
marked part is gone.

### `Observation`: references to what was seen

An observation is a transaction (`Observes`, `Evaluates`, `Returns`) during which the page
goes on, is switched or restarted; a bundle is published before it is remembered, a
later observer reloads bundles (`Reopens`), `Validates` and `Evaluates` answer whether a reference
still means its node, and an operation that names the reference then `Resolves` its own target on the page
as it is by now; a guard's branch may have switched pages in between. Nothing in the code ties the
operation's locator to the element of the reference: the operations modelled are those whose locator
is the description of the observed element. A node is a model value with an identity that others may share;
the token is the node. Attestations count on the page as it is when asked, and are
never evicted; a reload admits more than `Keep` bundles, as the code does.

### `CommandQueue` and `Conversation`: files between processes

`CommandQueue` is the queue with the loop that serves it: a claim, the run, the append (read,
then replace) under its lease, the result and the unlink are separate steps, and a worker
may die between any two (`Dies`, `Reopens`). `Conversation` is a run of the live driver: `Works`
acquires a generation, starts the browser on the profile, types in pieces, samples, publishes
answers and finishes, `TypesPart` breaks within a piece, `Raises` and `Dies` are the faults,
and the host `Sends` and `Stops`. The driver itself lies in `experiments/`; it is modelled
because the runtime modules are only used together through it. Focus verification and
pacing of the typing session are left out.

### `Generation` and `Sampling`: when is an answer complete?

`Generation` writes the monitor and the adapters as functions folded over samples, and a
reference definition `Judgement` that reads the whole history. `Sampling` gives both the
same samples.

### `Trust` and `Receipts`: what is relied on afterwards

Two sessions share a verifier and an identity registry while keys rotate, signers and
identities are revoked and control passes; then the host ends, and the kept receipts,
checkpoint and attestation are lost, altered and sealed again (`Decaying`). A digest is the
value it was taken of. `TrustedPlanVerifier` has no lock: a plan is checked in one step
(`PlanChecked`) and its use counted in another (`PlanBound`), and
`UsesBounded` exempts the plans that two sessions verified at once (`raced`). Nonces are
unique per signer and the clock is monotone.

### `Downloads`, `PortableState`, `Secrets`: files, state and values of others

`Downloads` splits a download at its file operations: staging by the browser, which may go
on writing, verification, copy, second verification, publication by link or replace, the
unlinks; another session recovers stores whose marker is old and whose lock is free.
A failed save leaves its `.part` until recovery, and `.commit` files left by a crash are
never recovered; a recovery may end before it saw every store (`RecoverEnds`).
`PortableState` has contexts whose pages store items, documents of their own and of others in a
file, an import that adds cookies and storage step by step, clearing, and a start that
uses what was prepared. `Secrets` has the caller and the host's thread as two processes; a rotation falls
between check and read of `resolve_bound`, and the thread outlives a caller that gave up.

### `Desktop`: windows shared with a user

Callers run transactions on one backend: launch, activate, act, verify, clean up. Windows
belong to the user, who opens, hides, shows and closes them at any moment, or to launched
processes, whose windows come late; a handle is used again once its window is gone. What the user had from the
start are the windows in view that the session does not own when it starts: a window with a handle that a failed
clean-up left owned counts as the session's, as it does in the code.

### `McpServer`: handles over one session

A call arrives on a connection, resolves and reserves, runs on the execution thread (serial
server) or its own, mints, and answers; the connection ends, a handle expires, the host closes
the server at any of these points. The session behind it is not repeated: what a
handle lends is its control epoch. `Unspent`, the tombstones that are not late, is the
sequence of those that remain by their rank, which keeps their order.

### The MC modules

`MCGovernedSession`, `MCContinuity`, `MCBrowserSessions`, `MCExecution` and `MCConversation` give one
module its small world. `MCDeferred` (`Speculation`, `CommandQueue`, `Secrets`), `MCKept` (`Trust`,
`Downloads`, `PortableState`) and `MCSurfaces` (`Observation`, `Sampling`, `NetworkEvidence`, `VideoWait`,
`Controls`, `Desktop`, `McpServer`) run independent modules in one specification: a variable `part`, chosen
initially, says which one moves, the others stay at their initial state. State spaces add
up instead of multiplying, each fairness condition is guarded by its part, and a property of
the run is the conjunction of what the parts promise. The parts do not interact in these
modules, because in the program they do not either, beyond what each models as its
environment.

## 3. Runs

| Run (module) | Question | Bounds |
|---|---|---|
| `TwoPhase` (`MCGovernedSession`) | Is a token consumed once, on the page it was prepared on, and is it the only way to a consequential dispatch? Is the lock always given back? | one agent, 2 operations, 2 preparations, 2 receipts, 2 page moves, 1 mutation by the monitor or the host; the browser dies, the session is closed or idles out at any step of a call |
| `Control` (`MCGovernedSession`) | Does a superseded controller act, what do preparations survive, and is a cited observation still current, for the epochs it is cited with, at the dispatch? | two observing agents, references with and without their epochs, control passes twice (A, B, A) with a preparation, observations and offers outstanding, a page move |
| `Dispatch` (`MCGovernedSession`) | Do charges stay within both budgets and cover what the browser sees, and is each plan step recorded once and in order, and repeated only after an attempt that failed in the browser? | four kinds of operation, budgets of three actions and two irreversible ones, a plan of two steps, retries, two preparations |
| `Continuity` (`MCContinuity`) | Does whoever appends hold the lease, or did a close take it from under the thread? Until a journal is spoiled, do the journals implement the life of a command, stay replayable, and does a recovery end every dispatched command as its evidence says? | a command, two generations, one piece of evidence, a crash or a failure at every file step, also during recovery, and a journal that cannot be read; with this, three owners that close orderly, or two one of which is closed under its own mutation (one record of bindings), or two that acquire a generation again (three records of bindings) |
| `Sessions` (`MCBrowserSessions`) | Do threads that open, use, close and sweep keep browsers, profiles and commands apart, does only an idle session expire, and does every lock come free? | two sessions, two threads, one profile, starts and stops that fail at every step, a browser that would not close |
| `Execution` (`MCExecution`) | Does an action go out only when allowed and strike only the bound element, is VERIFIED proven by one round of readings after the action, does every plan end? | eighteen plans of one to three operations, one for each way to decide a verdict; three facts, two requests, three pages, two elements, two changes of the page, waits of one tick |
| `Deferred` (`MCDeferred`) | Does a graph continue once and only after its verified parent, though the page goes on inside the call; does the queue keep commands and log; do fills get the secret they were prepared with; does whoever waits get an answer? | two graphs with room for one, two branches, four mutations, one handoff; four messages of two identifiers, two workers, one death; a plain and a prepared fill, a passkey, two rotations |
| `Conversation` (`MCConversation`) | Do turns type what they were given, in order and once; is an outcome final; is a STOP obeyed? | two processes that want the same generation, one profile, two turns, two messages, a clock of 4, one fault |
| `Kept` (`MCKept`) | Do sessions act as their plans were signed, is what is accepted genuine, does a name hold what was verified, does a context hold its own? | two sessions, agents and identities, one signer, two plans, two damages; two downloading sessions, one of them twice, two names, one late write; one context on a profile or not, two origins, three lives, two items |
| `Surfaces` (`MCSurfaces`) | Do verdicts follow the samples, the traffic after the action and what really was chosen or uploaded, does an operation with a fresh reference act on the node that was observed, are the user's windows spared, are handles kept and calls answered? | two pages, two nodes, one observation kept; four samples; three requests in a log for two; a video of length three with two sources; two labels in lists of at most two options (so in the module, whatever its constants), two file names, two inputs and two renderings; two windows and two callers; three calls, two connections, room for one handle |
| `RetryBudget`, `SecretRotation` | two statements of the repository that the code does not keep (section 6) | one plain operation, a budget of one action and two receipts, so that only a fault and a retry exceed it; one rotation between two fills |

The properties of each run are listed in `PROJECT.json`, each with a mutant: a plausible
error of the code under which TLC finds that property violated.

**Bounds.** The constants `Max…`, `Observers`, `Recipients`, `Events`, `Limit`, `Keep`, `Length`, `Chunk`, `Lease`,
`Required` and the times of `MCExecution` bound an instance, not the program, or give a small value to a
constant of the code (512 log records, sixteen graphs, twenty observations). They are
enough: an overrun, a repetition or a confusion of two tokens needs two of a thing, a return of
control needs two handoffs, a stale read needs one move between two reads, and a table
that forgets needs one entry more than it has room for. A third page revision lets the page
move again after a preparation was renewed. Agents and owners are interchangeable, and
runs without liveness use that symmetry. Every bound cuts behaviours only by refusing
another step of the environment or another call, never inside a call.

`Continuity` has one command because commands meet only in the order of their
records: `_transition`, the replay and the recovery treat each on its own, and the
bindings are shared through the one active generation. The three courses of `MCContinuity` add up instead of
multiplying, and each has what its event needs: a close under a mutation needs one other owner, a generation
acquired again needs a third record of the bindings. A behaviour is followed up to the append that spoils
a journal, since every property of the run but `ExclusiveWriter` speaks of the time before. Three owners let the second
die inside the recovery of what the first left, two generations let a command's
binding be released and replaced before its receipt, and `MaxEvidence = 1` lets
evidence be attached without its transition (by a crash between the two writes).

`CHECK_DEADLOCK` is off because the systems really stop: closed and expired sessions
accept nothing, plans and conversations end, and the bounds stop the rest. Where waiting for
ever would be the error, a property says so (`LockComesFree`, `AllAnswered`, `WaitingEnds`).

**Fairness.** It is assumed only of code that runs on by itself, never of agents, users, pages, hosts
or clocks, with one exception that is named:

* `TwoPhase`: `WF(CallStep)`. A call runs in a thread that the interpreter does not suspend
  for ever, its browser calls have timeouts, and each either returns or raises; a dead browser
  makes the call fail.
* `Sessions`: the steps of each thread once it is in a call, for the same reason.
* `Execution`: `WF(Executes)`, and `WF(Tick)`, because deadlines are the only thing that ends a wait for
  a page that does nothing.
* `Deferred`: the queue's workers (`WF(Works(w))`; a worker may still die, and then owes nothing), and
  the callers that wait for a secret or a passkey (`WF(Proceeds(c))`), whose wait has a timeout. Nothing
  is assumed of the host's threads.
* `Conversation`: the driver's own steps (`WF(Works(p))`); its faults, the page and the host owe
  nothing.

`AllAnswered` needs no fairness: it says that some step of the server is always enabled while
a call is unanswered, and each call has finitely many steps.

## 4. Theorems

TLAPS proves the following for every value of the constants that satisfies the named
assumptions: any number of agents, threads, sessions, tokens, messages, receipts, and any bound.
Where the last column is not empty, a run checks the same property on a small instance.

`GovernedSession`

| Theorem | States | Property of a run |
|---|---|---|
| `TypeCorrect` | the type invariant | |
| `TokenConsumedOnce`, `TokensFinal`, `TokensAreSpentOnce` | a token is consumed by at most one execution, and consumed or invalidated for good | `TokensSpentOnce` |
| `SupersededController`, `HandoffRetires`, `ControlIsPassedOn` | no receipt and no running call carries the token of an earlier epoch; what survives a handoff was prepared while the offer was open | `ControlPassesOn` |
| `CommitsPreparedPage`, `ReferencesCurrent`, `PreparationsCurrent` | an arbitrated dispatch is on the prepared page, and on the observed one, under the control it was observed under, as far as the reference has its epochs; what is prepared belongs to the present mutation epoch | `CommitOnPreparedPage`, `ReferenceStillCurrent`, `PreparedIsCurrent` |
| `ConsequentialCommits` | a consequential operation without a branching guard needs its own token | `ConsequentialOnlyByCommit` |
| `BudgetsAreHeld` | charges stay within both budgets, agree with the receipts, and cover every dispatch of a session without an ambiguous receipt | `BudgetsHold` |
| `PlanIsFollowed` | each step of a signed plan is recorded as dispatched at most once, in order, and the index is where the receipts say; a step reaches the browser again only after an attempt that failed there | `PlanOnceInOrder` |

`Continuity`

| Theorem | States | Property of a run |
|---|---|---|
| `TypeCorrect` | the type invariant, for any hosts and failures | |
| `OneWriter` | whoever is about to append holds the owner lease, or has closed the session under that thread | `ExclusiveWriter` |
| `JournalImplementsLifecycle` | until a journal is spoiled, the journal implements `CommandLifecycle`, across crashes, takeovers and recoveries | `CommandsKeepTheirPromise` |
| `JournalsAlwaysReplay`, `VerdictsHaveEvidence`, `JournalsAreTrue` | until a journal is spoiled, the commands can be replayed, the bindings too unless a generation was acquired again, one binding at most is active, and no verdict is without its evidence | `JournalsTellTruth` |
| `DispatchesAreBound` | until a journal is spoiled, a dispatch is recorded under the active binding | `DispatchedUnderBinding` |
| `RecoveryEndsAll`, `RecoveryKeepsEvidence`, `RecoveryIsSound` | until a journal is spoiled, a recovering `open` leaves no command dispatched and follows the last evidence | `RecoverySound` |
| `OrderlyNeverSpoils` | with hosts that close no session under a mutation and files that can be read, no journal is ever spoiled and whoever is about to append holds the lease | |

The other modules

| Theorem (module) | States | Property of a run |
|---|---|---|
| `TypeCorrect`, `SessionsAreApart` (`BrowserSessionsProofs`) | no two browsers on one profile but those that would not close, no two threads inside one session, nothing held by a session that ended | `SessionsApart` |
| `ExpiryIsOfIdle` (`BrowserSessionsProofs`) | a session is ended for idleness only while it is idle and no command of another thread is in it | `ExpiresIdle` |
| `GraphContinuesOnce` (`DeferredProofs`) | a graph continues at most once, at once or through a preparation | `ContinuesOnce` |
| `BranchFollowsParent` (`DeferredProofs`) | a branch runs on what its verified parent left, under the control it was given, but for one that is prepared on a page that changed after its last selection | `ContinuesAfterParent` |
| `GraphsAreBounded` (`DeferredProofs`) | no more graphs are kept than there is room for | |
| `TypeCorrect`, `HandlesAreKept` (`SurfacesProofs`) | every reservation is held by a call that gives it back, the table never overflows, and no planner uses a handle that was given to another | `HandlesKept` |
| `PlansAreKeptTo` (`KeptProofs`) | a session acts as the identity its plan names, and a plan is bound no more often than its signer allowed, but for plans that two sessions verified at once | `ActsWithinPlan` |
| `AcceptedIsGenuine` (`KeptProofs`) | what is accepted against a checkpoint begins with the receipts it was taken of, and what is accepted as attested is all of them | `KeptIsGenuine` |
| `ReadingsAreTrue`, `ActionsAreAllowed` (`ExecutionProofs`) | an action goes out only after VERIFIED steps, with its preconditions and the conditions of its one branch read as true since the operation began | `ActsOnlyWhenAllowed` |
| `BoundActionsStrike` (`ExecutionProofs`) | an action that is bound to an element strikes it or nothing | `StrikesPrepared` |
| `VerifiedReceiptsAreProven` (`ExecutionProofs`) | VERIFIED of an ordinary operation rests on one round of readings after the action, and on traffic after it | `VerifiedIsProven` |
| `QueueIsKept` (`DeferredProofs`) | a command runs at most once, is not lost, and has one line in the log, wherever workers die | `QueueKeeps` |
| `SecretsAreBound` (`DeferredProofs`) | a prepared fill gets the generation that was bound, but for a rotation inside `resolve_bound`; what a late thread finds reaches no page | `SecretsAsBound` |
| `WhatIsHeldIsAccountedFor` (`KeptProofs`) | a name holds what was verified and what its receipt says; a context holds its own and what was validated for it | `HeldIsAccountedFor` |
| `FilesAreLeft` (`KeptProofs`) | the files of a live session and the artifacts of any change by its own download only | `LeftToTheirOwner` |
| `StopClosesAll`, `UsersWindowsAreSpared` (`SurfacesProofs`) | a stopped session left no window it adopted; a window the user kept in view is not closed | `StoppedMeansClosed`, `SparesOthers` |
| `RememberedIsOurs`, `ObservedIsActedOn` (`SurfacesProofs`) | what is remembered is of this browser; an operation whose reference was found fresh acts on the node that was observed, unless the page took that node away after the verdict | `RememberedIsOfThisBrowser`, `ActsOnTheObserved` |
| `JudgesTellTheTruth` (`SurfacesProofs`) | monitor, adapter, network verdict, trace, wait for a video, selection and upload say what really happened | `JudgedAsSampled` |
| `TurnsAreAnswered` (`ConversationProofs`) | the keys of a turn are those of its message and one Enter, in order and once, and it is answered only when all were pressed | `AnsweredInTurn` |
| `OutcomeIsOnce` (`ConversationProofs`) | the outcome of a generation is written once and nothing is added to it or removed | `OutcomeIsFinal` |

### Assumptions

The theorems assume nothing of hosts, pages, clocks and crashes beyond the actions of their modules; those about
`Continuity` hold for any `Events`, with the two exemptions their properties name (a journal that is
`spoiled`, a generation acquired again). `OrderlyNeverSpoils` alone assumes `Orderly`: neither
`close_in_flight` nor `unreadable` is among the events. Of the constants:

* `GovernedSession`: `OperationsAssumption` types the operation data; `GuardsAssumption` says that
  some branch of a guard is longest and some branch has the most irreversible actions,
  as finitely many branches guarantee; `PolicyAssumption` and `BoundsAssumption` are the types of
  the policy and of the bounds.
* `Continuity` (`OwnersAssumption`), `BrowserSessions` (`NamesAssumption`), `Speculation`
  (`OperationsAssumption`, `SpeculationAssumption`): nobody and nothing are not among the names,
  sets of operations are apart, bounds and flags have their types.
* `Execution`: `ExecutionAssumption` and `PlansAssumption` are the types of pages, facts and plans.
* `McpServer`: `CapacityAssumption`, there is room for a handle, and the calls are finitely many.
* `Trust`: `StatementsAssumption`, a nonce is of one statement, which its signer draws at random; a
  statement is allowed at least one use and has a signer and an expiry.
* `Conversation`: `ConversationAssumption`, a piece is at least one character
  (`typing_session.py:44`), and a message is a finite text; `GenerationAssumption`, at least one stable
  sample is required (`generation_monitor.py:35`).
* `MCDeferred`, `MCKept`, `MCSurfaces`: `QueueInstance`, `DownloadsInstance`, `PortableInstance` and
  `SurfacesInstance` repeat what the parts assume: the value for nothing is not among the others; a
  worker cannot read some commands and stops at others, but not both; some session wants most downloads; a context
  lives at least once; a document left by others has local storage only for origins it lists; a page makes
  finitely many requests, a trace has fewer records than the log, and whoever does not ask for a request asks
  for a response; a video has more than two positions; what may be chosen is among the labels.

TLC evaluates each of them in the run of its module.

### Arguments

None of the invariants is inductive alone.

* *Tokens.* `TokenInv` adds that the token of a call past its recheck is committed,
  that a receipt's token is committed, and that a call before its recheck still has
  its token unused. `Kept` says what any step may do to a preparation: it stays, its
  data stay, and its status changes only away from `PREPARED`; with that, one lemma
  serves all actions, and `TokensFinal` follows.
* *Control.* `ControlInv` adds that every token in anyone's hands is at most the
  present epoch, and that two agents never hold the same token; `CallStepFacts`
  reduces all steps inside a call to "same caller, same lease, at most one receipt".
* *Page.* `PageInv` relates three readings: what the monitor saw (`seen`), the mutation
  epoch, and the revision a preparation captured. A preparation of the present
  epoch captured a revision that the monitor's had not left behind, so a refresh that
  reports no change, after a second capture that found the prepared revision, leaves only
  that page. `RefInv` does the same for observations.
* *Commit and handoff.* `CommitInv` follows the operation from the token through the
  running call to the receipt; `HandoffInv` says that while an offer stands, what was
  prepared before it is retired.
* *Budgets and plan.* `CallInv` says what a running execution has done and still has to do: the two
  together are the beginning of one branch of its guard. `Room` is what the firewall
  granted: enough for the worst branch. `BudgetInv` carries both to `Settle`, where what
  is charged is what was done; so no charge exceeds what was reserved, though the reservation
  is made before the page has chosen the branch. `PlanInv` adds that the call in flight is the
  step the index points to.
* *Journal.* `TypeInv` adds that every command with a record has a last one, which makes
  the state that a replay finds well defined. `WriterInv` says who holds the lease, who
  may have a mutation under way, and that while a session recovers only the recovery
  has; a thread under which the session was closed is the one exception. So, until it appends, no two
  mutations that count are pending at once, and what a mutation read is still true when it appends
  under the lease. Whoever appends otherwise spoils the journal, and the invariants below claim nothing after it. `CommandInv`, `BindingInv`, `EvidenceInv`, `DispatchInv` and
  `RecoveryInv` state for each journal what the pending record owes to that reading.
  `StepKinds` reduces every step to one that leaves the journals alone, one that begins
  a mutation, and one that appends.
* *Registry.* `LockInv`: who is inside a session holds its lock. `ResInv` is an account of what is
  taken: what a thread has at each place of a start or an end (`Has`), that it alone
  starts its session (`Alone`), and that whatever a session uses is known to its record or to the
  thread that starts it (`SessionOk`), so nothing is left when both are gone. `StrayInv` keeps the browsers that would not close apart
  from those that a backend answers for. Since the
  status is read before the lock is taken, nothing in it may rest on that reading.
* *Speculation.* `OnceInv`: a token whose branch ran or is prepared is consumed, and is never
  prepared again. `EpochInv`: a graph or a preparation that saw anything but the dispatch of its
  parent (`touched`) is of an earlier mutation epoch, which is why comparing epochs is enough.
  `GoingInv` carries what the second selection found to the preparation or execution that follows it.
* *Handles.* `SlotsAccounted` is inductive together with where a call has its reservation
  (`SlotInv`): the table, what is reserved and what the present generation counts agree, through
  clearing in the middle of a call. `OwnInv`: a live handle was told to nobody but the
  connected planner.
* *Signed plans.* `UseOk` bounds the bindings of a plan by what the cache says until the plan
  expires, and by what a session that is between check and count has seen; two sessions between
  the two are what `raced` names.
* *Chains.* A digest is the value it was taken of, so equal digests mean equal contents; `ChainsAgree`
  goes from the head of two chains back to their beginning, and `AcceptedIsGenuine` rests on
  it alone. What a damaged copy looks like is not in the invariant, beyond being a
  sequence of receipts: the theorem holds for any damage.
* *Conversation.* `OwnInv`: a generation belongs to one process. `RunOk` relates three places, the
  run's position (`turn`, `msg`, `index`), the answers on disk, and the keys that reached the
  page (`TurnAt`), for the running turn, the answered ones and those to come. `Stays`
  is what a step of a run owes to its own generation and the others; each action is shown to
  pay it.
* *Plan.* `IInv` of `ExecutionProofs` follows an operation through its stages: what has been read so
  far (`PreconditionInv`, `GuardInv`, `ProofInv`) is true of `held`, the facts that were true at some moment
  since the operation or its last round of readings began, and each stage keeps what the
  next relies on; `PickedInv` says that one branch at most was chosen, `AimInv` that a bound action goes
  to the place of the bound element. A verdict reads nothing but these.
* *Queue.* A file is in one place or on its way between two: `CommandOk` counts where a command is
  and whether it ran, `HasOk` and `ReadOk` what a worker holds and whether the log it read is
  still the log, which is so because it has the lease. A dead worker keeps its place, so what
  it left is still accounted for.
* *Secrets.* Between check and read of `resolve_bound` the provider has the bound generation or the
  call is in `raced` (`BoundOk`); `AskOk` ties what a thread found to what its caller was told.
* *Downloads.* `LocksOk`: who recovers a store holds its lock, so it is not live. `LocalsOk` and `NamesOk`
  follow the content from the last verification to the name; a late write of the browser reaches only
  the `.part` file.
* *Portable state.* `ContextOk`: whatever a context, its pending state or a running import has is its own
  or was let in, with what it was let in for; `FileOk` says the same of the file between export and import.
* *Desktop.* `OwnedInv`: an adopted window in view is owned until it is gone, and who stops the
  session has all of them before it; `SparedInv`: what has been in view from the start was there before
  whatever an operation compares with, so it is never new, never owned and never stopped.
* *Observation.* `DiskInv` gives each bundle a number and a binding, `TxnInv` says that the binding of a transaction
  is the present one until it ends, that a reference under validation is of a remembered observation, and that
  its node was on the page at the verdict.
* *Choices and uploads.* `ComboInv`: what is clicked was asked for, unless the list was rendered between the
  second reading and the click; `FieldInv` and `UploadInv` say where the value and the names came from.
* *Videos.* As long as nobody seeks or reloads, an unbroken chain of samples is of one element
  and source (`ChainInv`), and its position changed by playing or by going around (`PlayInv`).
* *Samples.* Monitor and adapter are folds, so their invariants speak of one more sample: what the last
  fresh one showed and since when (`ProgressInv`), how many at the end are idle with the same text (`StableInv`),
  and what the status says of both. The reference definition is then met for any number of samples.
* *Traffic.* `RecordInv`, `LogInv` and `OperationInv` relate the log to what really happened: each record says what
  happened unless it came unheard, the log is in the order of the requests, and what the
  operation took from it is what matches after its window, but for what the log forgot.

The prover's library has no induction that it can instantiate. Where a finite one is
needed, the proofs take the least counterexample (lemma `Smallest`, from the
well-foundedness of the naturals): the rank of a tombstone, the agreement of two chains,
the end of a piece of text, the last fresh sample. A definition with overlapping cases is written with `IF`,
because the value of a `CASE` with two true arms is not determined.

### What stays with TLC

* Liveness under fairness: `CallReturns`, `LockComesFree`, `PlanEnds`, `StopObeyed`, `WaitingEnds`;
  `AllAnswered`, which speaks of `ENABLED`.
* What a fold computes for every sequence: the page that the keys of a batch leave, which
  `ConversationProofs` leaves untyped.
* The refutations of section 6.

## 5. What is not modelled

Of the parts with a module:

* *Governed session*: the check of the origin after a dispatch. Sessions without a
  controller or envelope take a subset of the same steps.
* *Playwright backend*: drags and pointer gestures beyond the decision to dispatch them; the
  serial element snapshot; the text in which a combobox or an upload is found.
* *Target resolver*: the text of selectors. A constrained target that is not bound stays
  the n-th match, as in the code.
* *Typing session*: focus verification, pacing, `exclusive_use`.
* *Receipts and evidence*: redaction, the bounds on text (a receipt may name evidence that
  128 later signals displaced), and `discarded_record_count`, which counts what lies outside
  the window and not what was trimmed.
* *Governed agent*: the planner outside; its operations are those of the session and the server.
* *Server*: whether the SDK awaits the handlers of a connection before its clean-up. The model allows
  both orders.

Whole parts: contracts, encodings, schemas, the command line and provider adapters are
pure functions from data to data, and the repository's round-trip tests cover them;
experiments, examples and audits are not part of the library (except the live driver, section 2).

Things the code does that no property is about, and that a reader who changes it should know:

* Queue: an identifier is free again once its command is claimed, so a second result replaces the
  first in `completed`; a command that cannot be parsed stays in `claimed`.
* Journal: two processes may both find the directory empty before either asks for the lease, and
  the second then overwrites the header of a session that the first created, used and closed
  (`continuity.py:202`); a session that ended while a command was dispatched cannot be
  opened with recovery any more, because recovery is a mutation.
* Conversation: a STOP written between the publication of `current` and the start-up unlink is lost;
  a newline in a message presses Enter in its middle; a blank page sampled twice is complete, and
  a page that never generates and whose text never changes is waited for without end; a backend whose `stop` raises skips
  the record of the end, and a crash between rename and lock leaves a generation that never ends.
* Monitor: a sample that fails does not reset the adapter's count of inactive samples.
* Execution: a quorum decides over the timeout of a wait and over a rejected passkey; a
  network condition of a branch practically never matches (`executor.py:664`); a stalled video
  renews its extension up to the ceiling.
* Network: the log holds 512 records where `Engineering/CODEX_RUNTIME_AUDIT.md:74` says 2,000; requests of
  the same millisecond count as after; a request asked before and answered after the action may be
  trimmed without the trace being marked truncated.
* Choices and uploads: typed text that matches by itself confirms a choice that the page never took; an
  option rendered into the place after the second reading is clicked, and only then reported as not
  persisted; a file name beyond the first 500 characters of the text counts as new
  (`playwright_backend.py:2176`, `:3300`), and an input that already held the files confirms their upload.
* Downloads: a link that succeeds and an unlink that then fails reports a failed commit of a published
  file; the failure of a trigger does not cancel events already captured.
* Secrets: the stop of one session clears the provider all sessions share; a value that a late thread
  finds is never wiped. Portable state: the age of pending state is not looked at again when it is used; a failed
  import leaves a mixture; an export without cookies clears the cookies where it is imported;
  `clear_session` leaves IndexedDB.
* Trust: the revocation of a signer does not end a bound session; a chain beyond its
  checkpoint can be sealed again, and entries of versions 1 and 2 name no session.
* Desktop: activating adopts a window the user opened meanwhile, and the stop closes it; the window
  of a launch that timed out stays open; an operation whose last reading fails is
  listed as skipped although it acted.
* Server: `commit` uses its handle before the service can answer busy; a disconnect that meets a session in
  use closes the server and leaves the session open until it expires.

## 6. Disagreements between code and text

Two have a run of their own, whose counterexample shows them:

* `RetryBudget` (`RetriesWithinBudget`): with one plain operation and a budget of one, an exception after a dispatch becomes a receipt
  without a dispatch time, nothing is charged, and a retry exceeds `max_action_count`; the
  comment at `stateful_session.py:1243` promises that retries cannot.
* `SecretRotation` (`FilledAsPrepared`): `resolve_bound` checks the binding and reads the value
  in two uses of its lock (`secrets.py:190`), so a rotation between them gives a prepared fill
  the next generation; `stateful_session.py:576` asks for an atomic check, and the docstring at
  `secrets.py:341` promises exactly the bound one.

The others are stated as definitions beside the properties; TLC refutes each when it is added
to the run named here:

* `GovernedTypesCoverDispatch` (run `Dispatch`): the operation's own action follows those of its
  branch (`executor.py:885`), but `_governed_action_types` "every action that a finite guard could
  physically dispatch" (`stateful_session.py:1690`) leaves it out. `ConsequentialOnlyByCommit` is stated for
  operations without a branching guard for this reason, and `BudgetsHold` speaks of what is charged.
* `HandoffInvalidatesPrepared` (`Control`): `EXECUTION_GOVERNANCE.md:232` says a handoff invalidates
  prepared transactions; one that is prepared between offer and claim survives.
  `ControlPassesOn` says what the code does guarantee.
* `MutationNeedsObservation` (`TwoPhase`): a mutation rejects one call; the plain retry is dispatched
  without a new observation, which the comment at `stateful_session.py:1912` calls the only recovery path.
* `CitedIsCurrent` (`Control`): the same comment promises that a stale planner cannot keep dispatching; one whose
  reference leaves its epochs out (`stateful_session.py:1159`) does, and its old observation counts as a new one
  (`:1174`). `ReferenceStillCurrent` speaks of the epochs a reference has.
* `ProfileExclusive` (`Sessions`): a browser that does not close is left running while its profile
  is given back (`playwright_backend.py:838`, `:869`) and leased to the next session;
  `REMAINING_INFRASTRUCTURE_BOUNDARIES.md:71` says that the lease remains exclusive across the profile.
  `BrowsersApart` exempts such strays.
* `SelectedStillCurrent` (`Deferred`): a branch that needs a preparation is prepared anew after its last selection
  (`stateful_session.py:963`), which accepts a page that changed in between as freshly observed;
  `EXECUTION_GOVERNANCE.md:46` says that the preconditions are evaluated immediately before dispatch.
* `OnlyOwnersWrite` (`Continuity`): `close` gives the lease back without the mutation
  lock (`continuity.py:257`), so a thread inside a mutation appends after another process became the
  owner; the class promises an exclusive writer (`:180`).
* `DistinctGenerations` (`Continuity`): `acquire_browser_binding` (`:449`) accepts a generation that
  was bound and released before, and no later replay of the bindings succeeds; the test at
  `test_continuity_session.py:117` says that generations are distinct.
* `EndedIsReadOnly` (`Continuity`): `set_lifecycle` does not take the mutation lock either (`:287`), so a record
  is appended after the header says `ended`; the test at line 106 calls such a session read-only.
* `AppendOnly` (`Continuity`): `append_json_line` takes a journal that cannot be read for a moment for an
  absent one (`publication.py:163`) and replaces it by one record; the error it swallows is documented
  as "absent or transiently inaccessible" (`:16`), and the test at line 87 of
  `test_continuity_session.py` calls the journal append-only.
* `MutationVoidsGraph` (`Deferred`): while the parent runs, a mutation by anyone is carried forward as the
  parent's own (`stateful_session.py:1902`); `EXECUTION_GOVERNANCE.md:47` says that unrelated
  mutations stale the graph.
* `VerdictMeaning` (`Execution`): actions on pages, policies of new pages and quorums are VERIFIED without
  every declared expectation having passed (`executor.py:56`); `README.md:21` says all
  of them passed. `VerifiedIsProven` is stated for the other operations.
* `ReloadBreaksTheChain` (in the part `video` of `Surfaces`): tokens of elements start again with
  the document (`playwright_backend.py:1519`), so a page reloaded near the end of a looping video
  counts as its going around; `Engineering/CODEX_RUNTIME_AUDIT.md:301` says that
  the loss of the token rejects a reload.

Three more definitions of this kind mark how far a property reaches, without a text that says more:

* `StepReachesOnce` (`Dispatch`): a step whose dispatch raised (`executor.py:1165`) is not recorded and is dispatched
  again; `PlanOnceInOrder` says that only an attempt that failed in the browser is repeated.
* `HitsTheObserved` (the part `observation` of `Surfaces`): between the verdict on a reference and the dispatch the
  page may put a node that looks the same in the place of the observed one; `ActsOnTheObserved` says that
  nothing else goes wrong.
* `NeverSpoiled` (`Continuity`): both kinds of append that spoil a journal happen.

## 7. Plan

Done: every component with state has a module, but for the parts of section 5, and every safety
property that the passing runs check has a theorem, but for `AllAnswered`. Left, in this order:

1. An abstract one-shot token (issued, spent or void), implemented by the preparations of
   `GovernedSession`, the handles of `McpServer` and the graphs of `Speculation`.
2. Finer steps where a module takes a call as one: the selections of a branch read condition by condition,
   the gestures of the backend, `exclusive_use` of the typing session.
