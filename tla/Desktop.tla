------------------------------ MODULE Desktop ------------------------------
(***************************************************************************)
(* The Windows desktop backend and its executor                            *)
(* (backends/windows_desktop_backend.py, runtime/desktop_executor.py,      *)
(* contract/desktop.py).  Callers run plans on one backend; the windows    *)
(* belong to the user, who opens, hides, shows and closes them at any      *)
(* moment, and to the processes the session launches, whose windows come   *)
(* when they come.  A handle names another window once its own is gone.    *)
(* A window's title names its application; what a control, a path or the   *)
(* focus shows is a free outcome.                                          *)
(***************************************************************************)
EXTENDS Integers, Sequences, Functions

CONSTANTS Handle, Pid,   \* Window handles; processes the session may launch,
          Program,       \* and the application each of them runs.
          User,          \* The process of the windows the user opens,
          UserApps,      \* and the applications the user opens.
          Caller, Plan,  \* Who runs a plan, and the operations of that plan.
          None

\* Nobody holds a free lock.
DesktopAssumption == None \notin Caller

VARIABLES win,   \* The window of each handle, or None.
          desk,  \* The backend: state, owned windows, launched processes,
                 \* cleanup errors, and the caller that holds its lock.
          run    \* Each caller's transaction.

vars == <<win, desk, run>>

Apps == {"explorer", "notepad"}
Kinds == {"launch", "open", "wait", "focus", "activate", "close"}

IsWindow(h) == win[h] # None
Visible == {h \in Handle : win[h] # None /\ win[h].vis}

\* `old` and `ours` are for the properties: visible ever since the session
\* started, and visible ever since the session adopted it.
Window(app, pid) ==
    [app |-> app, pid |-> pid, vis |-> TRUE, going |-> FALSE,
     old |-> FALSE, ours |-> FALSE]

Init ==
    /\ win \in [Handle -> {None, Window("notepad", User)}]
    /\ desk = [state |-> "not_started", owned |-> <<>>, pids |-> {},
               errors |-> FALSE, lock |-> None]
    /\ run = [c \in Caller |-> [pc |-> "idle", stops |-> FALSE, steps |-> <<>>,
                                before |-> {}, pid |-> None, handle |-> None,
                                left |-> {}]]

--------------------------------------------------------------------------
(* The desktop.                                                            *)

Opens(h, app, pid) ==
    /\ ~IsWindow(h)
    /\ IF pid = User THEN app \in UserApps ELSE pid \in desk.pids /\ app = Program[pid]
    /\ win' = [win EXCEPT ![h] = Window(app, pid)]
    /\ UNCHANGED <<desk, run>>

Vanishes(h) ==
    /\ IsWindow(h)
    /\ win' = [win EXCEPT ![h] = None]
    /\ UNCHANGED <<desk, run>>

Turns(h) ==
    /\ IsWindow(h)
    /\ win' = [win EXCEPT ![h].vis = ~@, ![h].old = FALSE, ![h].ours = FALSE]
    /\ UNCHANGED <<desk, run>>

--------------------------------------------------------------------------
(* The plan: operations [id, kind, app, owned, unique, present, shot].     *)

Sound(op) == op.kind = "close" => op.owned

ValidPlan(plan) ==
    /\ plan # <<>>
    /\ IsInjective([i \in DOMAIN plan |-> plan[i].id])
    /\ \A i \in DOMAIN plan : Sound(plan[i])

At(c, pc) == run[c].pc = pc
Goes(c, pc) == run' = [run EXCEPT ![c].pc = pc]
Op(c) == Plan[c][Len(run[c].steps) + 1]

Calls(c, stops) ==
    /\ At(c, "idle")
    /\ run' = [run EXCEPT ![c].stops = stops,
                          ![c].pc = IF ValidPlan(Plan[c]) THEN "start"
                                                          ELSE "not_started"]
    /\ UNCHANGED <<win, desk>>

\* Mutant: the backend's lock does not keep a second transaction out.
NeverHeld == TRUE

\* exclusive_use does not wait: a caller that meets the lock fails.
Free == desk.lock = None

\* _start: what is visible now was there before the session.
Starts(c) ==
    /\ At(c, "start")
    /\ IF ~Free
       THEN Goes(c, "finally") /\ UNCHANGED <<win, desk>>
       ELSE /\ Goes(c, "next")
            /\ desk' = [desk EXCEPT !.state = "active"]
            /\ win' = IF desk.state = "active" THEN win
                      ELSE [h \in Handle |->
                              IF h \in Visible \ DOMAIN desk.owned
                              THEN [win[h] EXCEPT !.old = TRUE] ELSE win[h]]

\* Refused by the lock or by a session that is not active, the call ends
\* without a receipt for this operation.
Dispatches(c) ==
    /\ At(c, "next")
    /\ IF Free /\ desk.state = "active"
       THEN Goes(c, "act") /\ desk' = [desk EXCEPT !.lock = c]
       ELSE Goes(c, "finally") /\ UNCHANGED desk
    /\ UNCHANGED win

--------------------------------------------------------------------------
(* One dispatch, under the lock.                                           *)

\* find_windows: an owned window is matched by the application it was
\* adopted for, any other by its process.
Matching(op) ==
    {h \in IF op.owned THEN DOMAIN desk.owned ELSE Visible :
        /\ IsWindow(h)
        /\ (op.app = None
            \/ (IF h \in DOMAIN desk.owned THEN desk.owned[h] = op.app
                                           ELSE win[h].app = op.app))}

\* open_path_in_explorer looks for the session's own Explorer window.
Selector(op) ==
    IF op.kind = "open"
    THEN [op EXCEPT !.app = "explorer", !.owned = TRUE, !.unique = TRUE] ELSE op

\* The process runs before its window is looked for.
Launches(c, pid) ==
    /\ At(c, "act") /\ Op(c).kind = "launch" /\ Op(c).app = Program[pid]
    /\ \A h \in Handle : IsWindow(h) => win[h].pid # pid
    /\ desk' = [desk EXCEPT !.pids = @ \cup {pid}]
    /\ run' = [run EXCEPT ![c].pc = "register", ![c].before = Visible,
                          ![c].pid = pid]
    /\ UNCHANGED win

\* The window is resolved; then the operation does its work on it.
Resolves(c, h) ==
    /\ At(c, "act") /\ Op(c).kind # "launch"
    /\ LET op == Op(c)
           found == Matching(Selector(op)) IN
       /\ h \in found
       /\ Selector(op).unique => found = {h}
       /\ CASE op.kind = "close" ->
                /\ h \in DOMAIN desk.owned
                /\ win' = [win EXCEPT ![h].going = TRUE]
                /\ run' = [run EXCEPT ![c].pc = "closing", ![c].handle = h]
            [] op.kind = "activate" /\ op.present ->
                /\ run' = [run EXCEPT ![c].pc = "register", ![c].before = Visible,
                                      ![c].pid = None, ![c].handle = h]
                /\ UNCHANGED win
            [] OTHER ->
                /\ run' = [run EXCEPT ![c].pc = "verify", ![c].handle = h]
                /\ UNCHANGED win
    /\ UNCHANGED desk

\* Mutant: a window that was there before counts as new.
AnyWindow(c) ==
    {h \in Visible \ DOMAIN desk.owned :
        /\ run[c].pid # None => win[h].pid = run[c].pid
        /\ (run[c].pid = None \/ Op(c).app = "notepad") => win[h].app = "notepad"}

\* What an activated control opens is known by its title alone.
NewWindows(c) ==
    {h \in Visible \ (run[c].before \cup DOMAIN desk.owned) :
        /\ run[c].pid # None => win[h].pid = run[c].pid
        /\ (run[c].pid = None \/ Op(c).app = "notepad") => win[h].app = "notepad"}

Adopts(c, h) ==
    /\ At(c, "register") /\ NewWindows(c) = {h}
    /\ win' = [win EXCEPT ![h].ours = TRUE]
    /\ desk' = [desk EXCEPT !.pids = @ \cup ({win[h].pid} \ {User}),
                  !.owned = [g \in DOMAIN @ \cup {h} |->
                      IF g # h THEN @[g]
                      ELSE IF run[c].pid = None THEN "notepad" ELSE Op(c).app]]
    /\ run' = [run EXCEPT ![c].pc = "verify", ![c].handle = h]

\* A window out of sight is taken for closed.
Gone(h) == h \notin Visible

Pops(h) == desk' = [desk EXCEPT !.owned = [g \in DOMAIN @ \ {h} |-> @[g]]]

Closed(c) ==
    /\ At(c, "closing") /\ Gone(run[c].handle)
    /\ Pops(run[c].handle)
    /\ Goes(c, "verify")
    /\ UNCHANGED win

\* _verify_expected: presence is as declared, the rest as it turns out.
Verifies(c, ok) ==
    /\ At(c, "verify")
    /\ ok => ((run[c].handle \in Visible) = Op(c).present)
    /\ desk' = [desk EXCEPT !.lock = None]
    /\ Goes(c, IF ok THEN "succeeded" ELSE "failed")
    /\ UNCHANGED win

\* A bounded wait expires, two windows match, a control is missing, a window
\* dies under the call: every error makes a failed result, unless reading
\* the foreground window for the evidence raises once more.
Errs(c, raised) ==
    /\ run[c].pc \in {"act", "register", "closing", "verify"}
    /\ At(c, "register") => \A h \in Handle : NewWindows(c) # {h}
    /\ desk' = [desk EXCEPT !.lock = None]
    /\ Goes(c, IF raised THEN "finally" ELSE "failed")
    /\ UNCHANGED win

--------------------------------------------------------------------------
(* The executor around it.                                                 *)

\* A screenshot whose mandatory redaction fails turns the verdict.
Records(c, shot) ==
    /\ run[c].pc \in {"succeeded", "failed"}
    /\ LET verified == At(c, "succeeded") /\ (Op(c).shot => shot)
           steps == Append(run[c].steps, verified) IN
       run' = [run EXCEPT ![c].steps = steps,
                          ![c].pc = IF verified /\ Len(steps) < Len(Plan[c])
                                    THEN "next" ELSE "finally",
                          ![c].before = {}, ![c].pid = None, ![c].handle = None]
    /\ UNCHANGED <<win, desk>>

Finally(c) ==
    /\ At(c, "finally")
    /\ IF ~run[c].stops THEN Goes(c, "returned") /\ UNCHANGED desk
       ELSE IF ~Free THEN Goes(c, "raised") /\ UNCHANGED desk
       ELSE IF desk.state = "stopped" THEN Goes(c, "returned") /\ UNCHANGED desk
       ELSE /\ desk' = [desk EXCEPT !.state = "stopping", !.lock = c]
            /\ run' = [run EXCEPT ![c].pc = "stopping", ![c].left = DOMAIN desk.owned]
    /\ UNCHANGED win

StopAsks(c, h) ==
    /\ At(c, "stopping") /\ run[c].handle = None /\ h \in run[c].left
    /\ win' = IF h \in Visible THEN [win EXCEPT ![h].going = TRUE] ELSE win
    /\ run' = [run EXCEPT ![c].handle = h]
    /\ UNCHANGED desk

StopPops(c) ==
    /\ At(c, "stopping") /\ run[c].handle # None /\ Gone(run[c].handle)
    /\ Pops(run[c].handle)
    /\ run' = [run EXCEPT ![c].left = @ \ {run[c].handle}, ![c].handle = None]
    /\ UNCHANGED win

\* A window that does not close stays owned, and the error is kept for good.
StopErrs(c) ==
    /\ At(c, "stopping") /\ run[c].handle \in Visible
    /\ desk' = [desk EXCEPT !.errors = TRUE]
    /\ run' = [run EXCEPT ![c].left = @ \ {run[c].handle}, ![c].handle = None]
    /\ UNCHANGED win

Stopped(c) ==
    /\ At(c, "stopping") /\ run[c].left = {}
    /\ desk' = [desk EXCEPT !.state = IF desk.errors THEN "failed" ELSE "stopped",
                            !.lock = None]
    /\ Goes(c, "returned")
    /\ UNCHANGED win

DeskActs ==
    \E h \in Handle :
       \/ \E app \in Apps, pid \in Pid \cup {User} : Opens(h, app, pid)
       \/ Vanishes(h)
       \/ Turns(h)

Runs(c) ==
    \/ \E stops \in BOOLEAN : Calls(c, stops)
    \/ Starts(c)
    \/ Dispatches(c)
    \/ \E pid \in Pid : Launches(c, pid)
    \/ \E h \in Handle : Resolves(c, h)
    \/ \E h \in Handle : Adopts(c, h)
    \/ Closed(c)
    \/ \E ok \in BOOLEAN : Verifies(c, ok)
    \/ \E raised \in BOOLEAN : Errs(c, raised)
    \/ \E shot \in BOOLEAN : Records(c, shot)
    \/ Finally(c)
    \/ \E h \in Handle : StopAsks(c, h)
    \/ StopPops(c)
    \/ StopErrs(c)
    \/ Stopped(c)

Next == DeskActs \/ \E c \in Caller : Runs(c)

Spec == Init /\ [][Next]_vars

--------------------------------------------------------------------------
(* A window the user had in view when the session started, and has kept in *)
(* view, is never closed by the session: neither by close_window nor by    *)
(* the clean-up, whatever launches, activations and other callers happened *)
(* in between (windows_desktop_backend.py, _register_new_window; the       *)
(* baseline taken by start is not what protects it).                       *)
SparesStep ==
    \A h \in Handle :
        (win[h] # None /\ win[h].old /\ win'[h] # None) => win'[h].going = win[h].going

SparesOthers == [][SparesStep]_vars

(* A session that reports itself stopped has left none of the windows it   *)
(* adopted in view: no transaction adopts one while another stops the      *)
(* session, no window is forgotten before it is gone, and a clean-up that  *)
(* failed never reads as a stop (_stop, exclusive_use).                    *)
StoppedMeansClosed ==
    desk.state = "stopped" => \A h \in Visible : ~win[h].ours

=============================================================================
