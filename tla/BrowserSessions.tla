-------------------------- MODULE BrowserSessions --------------------------
(***************************************************************************)
(* The life of retained browser sessions: the registry and the accesses of  *)
(* runtime/stateful_session.py, the start and the stop of a browser in      *)
(* backends/playwright_backend.py with the driver all browsers share, and   *)
(* the named profiles of authentication/profiles.py that a browser leases.  *)
(*                                                                          *)
(* A session's lock is only ever tried, never waited for.  Its status is    *)
(* also read without the lock, by the check every call starts with and by   *)
(* the sweep that ends idle sessions, so what those reads said may no       *)
(* longer hold when the lock is taken.                                      *)
(***************************************************************************)
EXTENDS Naturals, FiniteSets

CONSTANTS
    Session,        \* session identifiers, each opened at most once
    Thread,         \* threads of the host
    Nobody,         \* no thread, no session
    Profile,        \* named profiles
    ProfileOf       \* the profile the configuration of a session names

ASSUME NamesAssumption ==
    /\ Nobody \notin Thread /\ Nobody \notin Session
    /\ ProfileOf \in [Session -> Profile]

VARIABLES
    status,     \* status[s]: the public status of the record, absent before it
    held,       \* sessions whose record still has its backend
    idle,       \* sessions whose idle timeout has passed since the last touch
    lock,       \* lock[s]: the thread that holds the record's lock
    started,    \* backends whose _started is set
    dead,       \* started backends whose page or browser is gone
    chrome,     \* browsers that run and whose backend answers for them
    astray,     \* browsers that run on although their backend stopped
    drivers,    \* backends counted in _shared_playwright_refcount
    driver,     \* the shared Playwright driver runs
    lease,      \* lease[p]: the session that holds the lease of profile p
    disk,       \* disk[p]: the directory of profile p
    th          \* th[t]: the call thread t is in

backend  == <<started, dead, chrome, astray, drivers, driver>>
registry == <<status, held, idle, lock>>
profiles == <<lease, disk>>
vars     == <<registry, backend, profiles, th>>
-----------------------------------------------------------------------------
Ended    == {"closed", "expired"}
Statuses == {"absent", "open", "terminal"} \cup Ended
NoCall   == [at |-> "none", s |-> Nobody, then |-> "none", todo |-> {}]

\* Thread t goes on at the given place of its call.
Goes(t, at)      == th' = [th EXCEPT ![t].at = at]
Returns(t)       == th' = [th EXCEPT ![t] = NoCall]
At(t, at)        == th[t].at = at
Alive(s)         == s \in held /\ s \in started /\ s \notin dead
Begins(t, at, s) == At(t, "none") /\ th' = [th EXCEPT ![t].at = at, ![t].s = s]

\* The lock is a reentrant one that is tried: a holder may take it again.
Free(t, s) == lock[s] \in {Nobody, t}

Init ==
    /\ status = [s \in Session |-> "absent"] /\ held = {} /\ idle = {}
    /\ lock = [s \in Session |-> Nobody]
    /\ started = {} /\ dead = {} /\ chrome = {} /\ astray = {} /\ drivers = {} /\ driver = FALSE
    /\ lease = [p \in Profile |-> Nobody] /\ disk = [p \in Profile |-> "ready"]
    /\ th = [t \in Thread |-> NoCall]
-----------------------------------------------------------------------------
(* Opening: the profile is looked up, then leased; the driver, the browser  *)
(* and its page are started; the record is registered and its mutation      *)
(* monitor set up.  A failure on the way stops what was started.            *)

OpenBegins(t, s) ==
    /\ status[s] = "absent" /\ s \notin astray /\ \A u \in Thread : th[u].s # s
    /\ disk[ProfileOf[s]] = "ready"
    /\ Begins(t, "lease", s)
    /\ UNCHANGED <<registry, backend, profiles>>

\* Mutant: a lease somebody else holds is no obstacle.
LeasesAnyway(p) == TRUE

\* The second half of the leasing makes the data directory if it is not there,
\* also when the profile was removed since it was looked up.
Leases(p) == lease[p] = Nobody
Lease(t) ==
    LET s == th[t].s  p == ProfileOf[s]
    IN  /\ At(t, "lease")
        /\ IF Leases(p)
           THEN /\ lease' = [lease EXCEPT ![p] = s]
                /\ disk' = [disk EXCEPT ![p] = IF @ = "absent" THEN "corrupt" ELSE @]
                /\ Goes(t, "drive")
           ELSE Returns(t) /\ UNCHANGED profiles
        /\ UNCHANGED <<registry, backend>>

StartDriver(t) ==
    /\ At(t, "drive")
    /\ \/ driver' = TRUE /\ drivers' = drivers \cup {th[t].s} /\ Goes(t, "launch")
       \/ ~driver /\ Goes(t, "unlaunch") /\ UNCHANGED <<driver, drivers>>
    /\ UNCHANGED <<registry, profiles, started, dead, chrome, astray>>

\* The configured browser is launched or none: no other one is tried in its place.
Launched(t)    == chrome' = chrome \cup {th[t].s} /\ Goes(t, "page")
NotLaunched(t) == Goes(t, "unlaunch") /\ UNCHANGED chrome

Launch(t) ==
    /\ At(t, "launch") /\ (Launched(t) \/ NotLaunched(t))
    /\ UNCHANGED <<registry, profiles, started, dead, astray, drivers, driver>>

\* Context, page, readiness and listeners.
FirstPage(t) ==
    /\ At(t, "page")
    /\ \/ started' = started \cup {th[t].s} /\ Goes(t, "register")
       \/ Goes(t, "unlaunch") /\ UNCHANGED started
    /\ UNCHANGED <<registry, profiles, dead, chrome, astray, drivers, driver>>

Register(t) ==
    LET s == th[t].s
    IN  /\ At(t, "register")
        /\ status' = [status EXCEPT ![s] = "open"] /\ held' = held \cup {s}
        /\ Goes(t, "monitor")
        /\ UNCHANGED <<idle, lock, backend, profiles>>

\* The monitor fails: the record is closed as terminal, without its lock.
Monitor(t) ==
    /\ At(t, "monitor")
    /\ \/ Returns(t)
       \/ th' = [th EXCEPT ![t].at = "stop", ![t].then = "unregister"]
    /\ UNCHANGED <<registry, backend, profiles>>
-----------------------------------------------------------------------------
(* Stopping a browser: context and browser, the driver when its last user   *)
(* is gone, and then the profile.  An error on the way is collected, and    *)
(* the stop goes on: a browser that would not close runs on as a stray.     *)

StopsBrowser(s) ==
    /\ chrome' = chrome \ {s} /\ drivers' = drivers \ {s}
    /\ astray' = astray \/ (s \in chrome /\ astray' = astray \cup {s})
    /\ driver' = (driver /\ (s \in drivers => drivers # {s}))

\* Mutant: the profile stays leased.
StopsNoLease(s) == UNCHANGED lease /\ started' = started \ {s} /\ dead' = dead \ {s}

StopsLease(s) ==
    /\ lease' = [p \in Profile |-> IF lease[p] = s THEN Nobody ELSE lease[p]]
    /\ started' = started \ {s} /\ dead' = dead \ {s}

\* A start that failed: nobody else knows the backend.
Unlaunch(t) ==
    /\ At(t, "unlaunch") /\ StopsBrowser(th[t].s) /\ Goes(t, "unlease")
    /\ UNCHANGED <<registry, profiles, started, dead>>
Unlease(t) ==
    /\ At(t, "unlease") /\ StopsLease(th[t].s) /\ Returns(t)
    /\ UNCHANGED <<registry, disk, chrome, astray, drivers, driver>>

\* _close_record: the browser is stopped, then the record is marked.
Stop(t) ==
    LET s == th[t].s
    IN  /\ At(t, "stop")
        /\ IF s \in held THEN StopsBrowser(s) /\ Goes(t, "release")
                         ELSE Goes(t, "mark") /\ UNCHANGED <<chrome, astray, drivers, driver>>
        /\ UNCHANGED <<registry, profiles, started, dead>>
Release(t) ==
    /\ At(t, "release") /\ StopsLease(th[t].s) /\ Goes(t, "mark")
    /\ UNCHANGED <<registry, disk, chrome, astray, drivers, driver>>

Marks(s, as) ==
    /\ status' = [status EXCEPT ![s] = as] /\ held' = held \ {s} /\ idle' = idle \ {s}
Mark(t) ==
    LET s == th[t].s
    IN  /\ At(t, "mark")
        /\ CASE th[t].then = "close"      -> Marks(s, "closed") /\ Returns(t) /\ lock' = [lock EXCEPT ![s] = Nobody]
             [] th[t].then = "access"     -> Marks(s, "expired") /\ Returns(t) /\ lock' = [lock EXCEPT ![s] = Nobody]
             [] th[t].then = "sweep"      -> Marks(s, "expired") /\ Goes(t, "sweep") /\ lock' = [lock EXCEPT ![s] = Nobody]
             [] th[t].then = "unregister" -> Marks(s, "terminal") /\ Goes(t, "forget") /\ UNCHANGED lock
        /\ UNCHANGED <<backend, profiles>>

Forget(t) ==
    /\ At(t, "forget") /\ status' = [status EXCEPT ![th[t].s] = "absent"] /\ Returns(t)
    /\ UNCHANGED <<held, idle, lock, backend, profiles>>

Dies(s) ==
    /\ s \in started \ dead /\ dead' = dead \cup {s}
    /\ UNCHANGED <<registry, started, chrome, astray, drivers, driver, profiles, th>>

\* A stray ends by itself, or with the driver that started it, if ever.
StrayEnds(s) ==
    /\ s \in astray /\ astray' = astray \ {s}
    /\ UNCHANGED <<registry, started, dead, chrome, drivers, driver, profiles, th>>

GoesIdle(s) ==
    /\ status[s] = "open" /\ s \notin idle /\ idle' = idle \cup {s}
    /\ UNCHANGED <<status, held, lock, backend, profiles, th>>
-----------------------------------------------------------------------------
(* Calls: the status is checked, an idle session is expired instead, the    *)
(* status is checked again, and only then the lock is tried.                *)

\* Only the thread that opened a session, and the sweep, know it before open returns.
Known(s) ==
    \A u \in Thread : th[u].s = s => th[u].at # "monitor" /\ th[u].then # "unregister"

CallBegins(t, s) ==
    /\ status[s] = "open" /\ Known(s)
    /\ Begins(t, IF s \in idle THEN "expire" ELSE "enter", s)
    /\ UNCHANGED <<registry, backend, profiles>>

\* Mutant: the lock was free, so the session is taken to be as idle as before.
StillIdleAnyway(s) == TRUE

StillIdle(s) == status[s] = "open" /\ s \in idle
\* _expire_if_idle, in a call that holds the lock already or does not.
Expire(t) ==
    LET s == th[t].s
    IN  /\ At(t, "expire")
        /\ IF ~Free(t, s) THEN Returns(t) /\ UNCHANGED lock
           ELSE IF StillIdle(s)
           THEN /\ lock' = [lock EXCEPT ![s] = t]
                /\ th' = [th EXCEPT ![t].at = "stop", ![t].then = "access"]
           ELSE /\ lock' = [lock EXCEPT ![s] = Nobody]
                /\ IF status[s] = "open" THEN Goes(t, "enter") ELSE Returns(t)
        /\ UNCHANGED <<status, held, idle, backend, profiles>>

\* _locked and _active_backend: a browser that is gone makes the session
\* terminal, whatever its status is by now.
Tries(t, s) == Free(t, s)
Enter(t) ==
    LET s == th[t].s
    IN  /\ At(t, "enter")
        /\ IF ~Tries(t, s) THEN Returns(t) /\ UNCHANGED <<status, lock>>
           ELSE IF Alive(s)
           THEN lock' = [lock EXCEPT ![s] = t] /\ Goes(t, "body") /\ UNCHANGED status
           ELSE status' = [status EXCEPT ![s] = "terminal"] /\ Returns(t) /\ UNCHANGED lock
        /\ UNCHANGED <<held, idle, backend, profiles>>

\* Mutant: a command whose browser died returns without unlocking.
BodyEndsLocked(t) ==
    LET s == th[t].s
    IN  /\ At(t, "body") /\ idle' = idle \ {s}
        /\ status' = [status EXCEPT ![s] = IF Alive(s) THEN @ ELSE "terminal"]
        /\ lock' = [lock EXCEPT ![s] = IF Alive(s) THEN Nobody ELSE @] /\ Returns(t)
        /\ UNCHANGED <<held, backend, profiles>>

\* The command has run: the session is touched, or terminal, and unlocked.
BodyEnds(t) ==
    LET s == th[t].s
    IN  /\ At(t, "body")
        /\ status' = [status EXCEPT ![s] = IF Alive(s) THEN @ ELSE "terminal"]
        /\ idle' = idle \ {s} /\ lock' = [lock EXCEPT ![s] = Nobody] /\ Returns(t)
        /\ UNCHANGED <<held, backend, profiles>>

\* A typing session and a selected branch call execute_operation again under the
\* lock they hold: that access may find the session idle and end it.
BodyAccesses(t) ==
    LET s == th[t].s
    IN  /\ At(t, "body") /\ s \in idle /\ status[s] = "open"
        /\ th' = [th EXCEPT ![t].at = "expire"]
        /\ UNCHANGED <<registry, backend, profiles>>

CloseBegins(t, s) ==
    /\ status[s] \in {"open", "terminal"} /\ Known(s) /\ Begins(t, "close", s)
    /\ UNCHANGED <<registry, backend, profiles>>
CloseLocks(t) ==
    LET s == th[t].s
    IN  /\ At(t, "close")
        /\ IF Free(t, s)
           THEN /\ lock' = [lock EXCEPT ![s] = t]
                /\ th' = [th EXCEPT ![t].at = "stop", ![t].then = "close"]
           ELSE Returns(t) /\ UNCHANGED lock
        /\ UNCHANGED <<status, held, idle, backend, profiles>>

\* cleanup_expired_sessions: one busy session ends the sweep, the sessions after
\* it stay as they are.
SweepBegins(t) ==
    /\ At(t, "none") /\ \E s \in Session : status[s] # "absent"
    /\ th' = [th EXCEPT ![t].at = "sweep", ![t].todo = {s \in Session : status[s] # "absent"}]
    /\ UNCHANGED <<registry, backend, profiles>>
Sweep(t, s) ==
    /\ At(t, "sweep") /\ s \in th[t].todo
    /\ th' = [th EXCEPT ![t].todo = @ \ {s}, ![t].s = s,
                        ![t].at = IF status[s] = "open" /\ s \in idle THEN "sweeplock" ELSE @]
    /\ UNCHANGED <<registry, backend, profiles>>
SweepLocks(t) ==
    LET s == th[t].s
    IN  /\ At(t, "sweeplock")
        /\ IF ~Free(t, s) THEN Returns(t) /\ UNCHANGED lock
           ELSE IF StillIdle(s)
           THEN /\ lock' = [lock EXCEPT ![s] = t]
                /\ th' = [th EXCEPT ![t].at = "stop", ![t].then = "sweep"]
           ELSE Goes(t, "sweep") /\ UNCHANGED lock
        /\ UNCHANGED <<status, held, idle, backend, profiles>>
SweepEnds(t) ==
    /\ At(t, "sweep") /\ th[t].todo = {} /\ Returns(t)
    /\ UNCHANGED <<registry, backend, profiles>>
-----------------------------------------------------------------------------
(* Profiles are made and removed by other calls and processes.              *)

\* The directory is there before its metadata is; a failure removes it again.
CreateBegins(p) ==
    /\ disk[p] = "absent" /\ disk' = [disk EXCEPT ![p] = "building"]
    /\ UNCHANGED <<registry, backend, lease, th>>
CreateEnds(p) ==
    /\ disk[p] = "building" /\ \E d \in {"ready", "absent"} : disk' = [disk EXCEPT ![p] = d]
    /\ UNCHANGED <<registry, backend, lease, th>>
\* The directory goes while its lease is held: nobody else holds it.
Remove(p) ==
    /\ disk[p] = "ready" /\ Leases(p) /\ disk' = [disk EXCEPT ![p] = "absent"]
    /\ UNCHANGED <<registry, backend, lease, th>>
-----------------------------------------------------------------------------
Steps(t) ==
    \/ Lease(t) \/ StartDriver(t) \/ Launch(t) \/ FirstPage(t) \/ Register(t) \/ Monitor(t)
    \/ Unlaunch(t) \/ Unlease(t) \/ Stop(t) \/ Release(t) \/ Mark(t) \/ Forget(t)
    \/ Expire(t) \/ Enter(t) \/ BodyEnds(t) \/ CloseLocks(t)
    \/ (\E s \in Session : Sweep(t, s)) \/ SweepLocks(t) \/ SweepEnds(t)

Next ==
    \/ \E t \in Thread :
          \/ Steps(t) \/ BodyAccesses(t) \/ SweepBegins(t)
          \/ \E s \in Session : OpenBegins(t, s) \/ CallBegins(t, s) \/ CloseBegins(t, s)
    \/ \E s \in Session : Dies(s) \/ StrayEnds(s) \/ GoesIdle(s)
    \/ \E p \in Profile : CreateBegins(p) \/ CreateEnds(p) \/ Remove(p)

\* A call that has begun goes on: nothing it does waits for another thread.
Spec == Init /\ [][Next]_vars /\ \A t \in Thread : WF_vars(Steps(t))
-----------------------------------------------------------------------------
Places == {"none", "lease", "drive", "launch", "page", "register", "monitor", "unlaunch", "unlease",
           "stop", "release", "mark", "forget", "expire", "enter", "body", "close", "sweep", "sweeplock"}

\* The state has its type.
TypeOK ==
    /\ status \in [Session -> Statuses] /\ lock \in [Session -> Thread \cup {Nobody}]
    /\ held \subseteq Session /\ idle \subseteq Session
    /\ started \subseteq Session /\ dead \subseteq started
    /\ chrome \subseteq Session /\ astray \subseteq Session
    /\ drivers \subseteq Session /\ driver \in BOOLEAN
    /\ lease \in [Profile -> Session \cup {Nobody}]
    /\ disk \in [Profile -> {"ready", "absent", "building", "corrupt"}]
    /\ th \in [Thread -> [at : Places, s : Session \cup {Nobody}, todo : SUBSET Session,
                          then : {"none", "close", "access", "sweep", "unregister"}]]

\* Two browsers run on one profile only when one of them is a stray, whose close failed in
\* a stop that gave the profile back all the same; no session answers for a stray, and
\* every other browser has the driver that serves it.  The lease is asked for before the
\* launch and given back after the close, and the driver stops with its last user.
\* The state has its type throughout.
BrowsersApart ==
    /\ TypeOK
    /\ \A r, s \in chrome \cup astray :
          r # s /\ ProfileOf[r] = ProfileOf[s] => r \in astray \/ s \in astray
    /\ \A s \in astray : s \notin chrome \cup drivers
    /\ chrome # {} => driver

\* "A non-blocking per-session lock prevents overlapping commands": no two threads
\* are inside one session, running a command or ending it.
CommandsApart ==
    \A t, u \in Thread :
        t # u /\ th[t].s = th[u].s /\ th[t].s # Nobody
            => ~(/\ th[t].at \in {"body", "release"}
                 /\ th[u].at \in {"body", "stop", "release", "mark"}
                 /\ "unregister" \notin {th[t].then, th[u].then})

\* When no call is under way, a session that ended holds nothing: no browser of its own,
\* no driver, no profile.  A start that failed holds nothing either.
EndedHoldsNothing ==
    (\A t \in Thread : At(t, "none")) =>
        \A s \in Session :
            status[s] \in Ended \cup {"absent"} =>
                s \notin chrome \cup drivers \cup held /\ \A p \in Profile : lease[p] # s

\* The three together: what _locked, the profile's lease and _close_record keep apart and
\* give back, while threads open, use, close and sweep.
SessionsApart == BrowsersApart /\ CommandsApart /\ EndedHoldsNothing

\* A session is ended for idleness only while it is idle and no command of another
\* thread is in it: a command that ran between the unlocked look at the clock and
\* the lock has touched it, and it goes on.
ExpiresIdle ==
    [][\A t \in Thread :
          th'[t].at = "stop" /\ ~At(t, "stop") /\ th'[t].then \in {"access", "sweep"} =>
              /\ th[t].s \in idle
              /\ \A u \in Thread \ {t} : th[u].s = th[t].s => ~At(u, "body")]_vars

\* The lock of a session comes free again on every path of every call.
LockComesFree == \A s \in Session : lock[s] # Nobody ~> lock[s] = Nobody
-----------------------------------------------------------------------------
(* A statement of the documents that the code does not keep.                *)

\* REMAINING_INFRASTRUCTURE_BOUNDARIES.md: "A process lease remains exclusive across the
\* named profile and clean shutdown releases it."  No two browsers run on one profile.
ProfileExclusive ==
    \A r, s \in chrome \cup astray : r # s => ProfileOf[r] # ProfileOf[s]
=============================================================================
