----------------------- MODULE BrowserSessionsProofs -----------------------
(***************************************************************************)
(* What the registry of retained sessions keeps apart, proved for every     *)
(* number of sessions, threads and profiles: browsers that run on one       *)
(* profile, threads that are inside one session, and what an ended session  *)
(* held from what it still holds.                                           *)
(***************************************************************************)
EXTENDS BrowserSessions, TLAPS

(* Where the threads are.                                                   *)

\* The places of an open before its record is registered.
Opening     == {"lease", "drive", "launch", "page", "register", "unlaunch", "unlease"}
Starting(t) == th[t].at \in Opening

\* A thread inside a session, under its lock: in a command, or ending it.
Inside(t) ==
    \/ th[t].at = "body"
    \/ th[t].at \in {"stop", "release", "mark"} /\ th[t].then # "unregister"

\* A call is of one session, except that of a sweep between two of them; who ends a
\* session knows what for.
CallOk(t) ==
    /\ th[t].at \notin {"none", "sweep"} => th[t].s \in Session
    /\ th[t].at = "none" => th[t] = NoCall
    /\ th[t].at \in {"stop", "release", "mark"} => th[t].then # "none"
CallInv == \A t \in Thread : CallOk(t)

\* Who is inside a session holds its lock.
LockInv == \A t \in Thread : Inside(t) => lock[th[t].s] = t

\* The type of the calls.
Calls == [at : Places, s : Session \cup {Nobody}, todo : SUBSET Session,
          then : {"none", "close", "access", "sweep", "unregister"}]

LEMMA CallsTyped == TypeOK => th \in [Thread -> Calls]
BY DEF TypeOK, Calls

\* A thread goes on to another place in the same call.
LEMMA GoesOn ==
    ASSUME TypeOK, NEW t \in Thread, NEW place \in Places, Goes(t, place)
    PROVE  /\ th' \in [Thread -> Calls] /\ \A u \in Thread \ {t} : th'[u] = th[u]
           /\ th'[t].at = place /\ th'[t].s = th[t].s /\ th'[t].then = th[t].then
BY CallsTyped DEF Goes, Calls

\* A thread goes on to end the session it is in.
LEMMA GoesToStop ==
    ASSUME TypeOK, NEW t \in Thread, NEW for \in {"close", "access", "sweep", "unregister"},
           th' = [th EXCEPT ![t].at = "stop", ![t].then = for]
    PROVE  /\ th' \in [Thread -> Calls] /\ \A u \in Thread \ {t} : th'[u] = th[u]
           /\ th'[t].at = "stop" /\ th'[t].s = th[t].s /\ th'[t].then = for
<1>. DEFINE d == [[th[t] EXCEPT !.at = "stop"] EXCEPT !.then = for]
<1>1. th' = [th EXCEPT ![t] = d]
  BY CallsTyped
<1>2. d \in Calls /\ d.at = "stop" /\ d.s = th[t].s /\ d.then = for
  BY CallsTyped DEF Calls, Places
<1>. HIDE DEF d
<1>. QED  BY <1>1, <1>2, CallsTyped

\* A call returns.
LEMMA ReturnsFrom ==
    ASSUME TypeOK, NEW t \in Thread, Returns(t)
    PROVE  /\ th' \in [Thread -> Calls] /\ \A u \in Thread \ {t} : th'[u] = th[u]
           /\ th'[t] = NoCall /\ th'[t].at = "none" /\ th'[t].s = Nobody
BY CallsTyped DEF Returns, NoCall, Calls, Places

\* A call begins.
LEMMA BeginsCall ==
    ASSUME TypeOK, CallInv, NEW t \in Thread, NEW place \in Places, NEW s \in Session,
           Begins(t, place, s)
    PROVE  /\ th' \in [Thread -> Calls] /\ \A u \in Thread \ {t} : th'[u] = th[u]
           /\ th[t].at = "none" /\ th'[t].at = place /\ th'[t].s = s /\ th'[t].then = "none"
<1>1. th[t] = NoCall /\ th[t] \in Calls
  BY CallsTyped DEF CallInv, CallOk, Begins, At
<1>. DEFINE d == [[th[t] EXCEPT !.at = place] EXCEPT !.s = s]
<1>2. th' = [th EXCEPT ![t] = d]
  BY CallsTyped DEF Begins
<1>3. d \in Calls /\ d.at = place /\ d.s = s /\ d.then = th[t].then
  BY <1>1 DEF Calls
<1>4. th[t].at = "none" /\ th[t].then = "none"
  BY <1>1 DEF NoCall
<1>. HIDE DEF d
<1>. QED  BY <1>2, <1>3, <1>4, CallsTyped

\* Nobody has called a new registry.
LEMMA TypeInit == Init => TypeOK /\ CallInv
<1>. SUFFICES ASSUME Init PROVE TypeOK /\ CallInv
  OBVIOUS
<1>1. th \in [Thread -> Calls]
  BY DEF Init, NoCall, Calls, Places
<1>2. TypeOK
  BY <1>1 DEF Init, TypeOK, Calls, Statuses
<1>3. CallInv
  BY DEF Init, CallInv, CallOk, NoCall
<1>. QED  BY <1>2, <1>3

\* A step of thread t changes no other call and leaves its own one in order.
Moves(t) ==
    /\ th' \in [Thread -> Calls] /\ CallOk(t)'
    /\ \A u \in Thread \ {t} : th'[u] = th[u]

\* Going on within a session.
LEMMA GoingMoves ==
    ASSUME TypeOK, CallInv, NEW t \in Thread, th[t].at \notin {"none", "sweep"},
           NEW place \in Places \ {"none"}, Goes(t, place),
           place \in {"stop", "release", "mark"} => th[t].then # "none"
    PROVE  Moves(t)
BY GoesOn DEF Moves, CallOk, CallInv

\* Every step of a thread is such a step.
LEMMA StepMoves == TypeOK /\ CallInv => \A t \in Thread : Steps(t) => Moves(t)
<1>. SUFFICES ASSUME TypeOK, CallInv, NEW t \in Thread, Steps(t) PROVE Moves(t)
  OBVIOUS
<1>1. Returns(t) => Moves(t)
  BY ReturnsFrom DEF Moves, CallOk
<1>2. ASSUME NEW for \in {"close", "access", "sweep", "unregister"},
             th[t].at \notin {"none", "sweep"},
             th' = [th EXCEPT ![t].at = "stop", ![t].then = for]
      PROVE  Moves(t)
  BY <1>2, GoesToStop DEF Moves, CallOk, CallInv
<1>3. CASE Lease(t)
  BY <1>1, <1>3, GoingMoves DEF Lease, At, Places
<1>4. CASE StartDriver(t)
  BY <1>4, GoingMoves DEF StartDriver, At, Places
<1>5. CASE Launch(t)
  BY <1>5, GoingMoves DEF Launch, Launched, NotLaunched, At, Places
<1>6. CASE FirstPage(t)
  BY <1>6, GoingMoves DEF FirstPage, At, Places
<1>7. CASE Register(t)
  BY <1>7, GoingMoves DEF Register, At, Places
<1>8. CASE Monitor(t)
  BY <1>1, <1>2, <1>8 DEF Monitor, At
<1>9. CASE Unlaunch(t)
  BY <1>9, GoingMoves DEF Unlaunch, At, Places
<1>10. CASE Unlease(t) \/ Forget(t) \/ BodyEnds(t) \/ SweepEnds(t)
  BY <1>1, <1>10 DEF Unlease, Forget, BodyEnds, SweepEnds
<1>11. CASE Stop(t)
  BY <1>11, GoingMoves DEF Stop, At, Places, CallInv, CallOk
<1>12. CASE Release(t)
  BY <1>12, GoingMoves DEF Release, At, Places, CallInv, CallOk
<1>13. CASE Mark(t)
  <2>1. th[t].at = "mark" /\ th[t].then \in {"close", "access", "sweep", "unregister"}
    BY <1>13, CallsTyped DEF Mark, At, CallInv, CallOk, Calls
  <2>2. Returns(t) \/ Goes(t, "sweep") \/ Goes(t, "forget")
    BY <1>13, <2>1 DEF Mark
  <2>. QED  BY <1>1, <2>1, <2>2, GoingMoves DEF Places
<1>14. CASE Expire(t)
  BY <1>1, <1>2, <1>14, GoingMoves DEF Expire, At, Places
<1>15. CASE Enter(t)
  BY <1>1, <1>15, GoingMoves DEF Enter, At, Places
<1>16. CASE CloseLocks(t)
  BY <1>1, <1>2, <1>16 DEF CloseLocks, At
<1>17. ASSUME NEW s \in Session, Sweep(t, s) PROVE Moves(t)
  <2>. DEFINE place == IF status[s] = "open" /\ s \in idle THEN "sweeplock" ELSE th[t].at
              d == [[[th[t] EXCEPT !.todo = th[t].todo \ {s}] EXCEPT !.s = s] EXCEPT !.at = place]
  <2>1. th[t] \in Calls /\ th[t].at = "sweep"
    BY <1>17, CallsTyped DEF Sweep, At
  <2>2. th' = [th EXCEPT ![t] = d]
    BY <1>17, CallsTyped DEF Sweep
  <2>3. place \in {"sweep", "sweeplock"}
    BY <2>1
  <2>. HIDE DEF place
  <2>4. d \in Calls /\ d.at = place /\ d.s = s
    BY <2>1, <2>3 DEF Calls, Places
  <2>. HIDE DEF d
  <2>. QED  BY <2>2, <2>3, <2>4, CallsTyped DEF Moves, CallOk
<1>18. CASE SweepLocks(t)
  BY <1>1, <1>2, <1>18, GoingMoves DEF SweepLocks, At, Places
<1>. QED  BY <1>3, <1>4, <1>5, <1>6, <1>7, <1>8, <1>9, <1>10, <1>11, <1>12, <1>13, <1>14,
             <1>15, <1>16, <1>17, <1>18 DEF Steps

\* And so is the beginning of a call.
LEMMA BeginMoves ==
    ASSUME TypeOK, CallInv, NEW t \in Thread,
           \/ BodyAccesses(t) \/ SweepBegins(t)
           \/ \E s \in Session : OpenBegins(t, s) \/ CallBegins(t, s) \/ CloseBegins(t, s)
    PROVE  Moves(t)
<1>1. CASE BodyAccesses(t)
  <2>1. Goes(t, "expire")
    BY <1>1 DEF BodyAccesses, Goes
  <2>. QED  BY <1>1, <2>1, GoingMoves DEF BodyAccesses, At, Places
<1>2. CASE SweepBegins(t)
  <2>. DEFINE todo == {s \in Session : status[s] # "absent"}
              d == [[th[t] EXCEPT !.at = "sweep"] EXCEPT !.todo = todo]
  <2>1. th' = [th EXCEPT ![t] = d]
    BY <1>2, CallsTyped DEF SweepBegins
  <2>2. d \in Calls /\ d.at = "sweep"
    BY CallsTyped DEF Calls, Places
  <2>. HIDE DEF d
  <2>. QED  BY <2>1, <2>2, CallsTyped DEF Moves, CallOk
<1>3. ASSUME NEW s \in Session, OpenBegins(t, s) \/ CallBegins(t, s) \/ CloseBegins(t, s)
      PROVE  Moves(t)
  <2>1. \E place \in {"lease", "expire", "enter", "close"} : Begins(t, place, s)
    BY <1>3 DEF OpenBegins, CallBegins, CloseBegins
  <2>. QED  BY <2>1, BeginsCall DEF Moves, CallOk, Places
<1>. QED  BY <1>1, <1>2, <1>3

\* What the registry, the backends and the profiles hold, beside the calls.
Stores ==
    /\ status \in [Session -> Statuses] /\ lock \in [Session -> Thread \cup {Nobody}]
    /\ held \subseteq Session /\ idle \subseteq Session
    /\ started \subseteq Session /\ dead \subseteq started
    /\ chrome \subseteq Session /\ astray \subseteq Session
    /\ drivers \subseteq Session /\ driver \in BOOLEAN
    /\ lease \in [Profile -> Session \cup {Nobody}]
    /\ disk \in [Profile -> {"ready", "absent", "building", "corrupt"}]

\* A step of a thread stores what it may.
LEMMA StepStores == TypeOK /\ CallInv => \A t \in Thread : Steps(t) => Stores'
<1>. SUFFICES ASSUME TypeOK, CallInv, NEW t \in Thread, Steps(t) PROVE Stores'
  OBVIOUS
<1>1. Stores /\ (th[t].at \notin {"none", "sweep"} => th[t].s \in Session)
  BY DEF TypeOK, Stores, CallInv, CallOk
<1>2. CASE Lease(t)
  BY <1>1, <1>2, NamesAssumption DEF Lease, At, Leases, Stores, registry, backend, profiles
<1>3. CASE StartDriver(t)
  BY <1>1, <1>3 DEF StartDriver, At, Stores, registry, profiles
<1>4. CASE Launch(t) \/ FirstPage(t)
  BY <1>1, <1>4 DEF Launch, Launched, NotLaunched, FirstPage, At, Stores, registry, profiles
<1>5. CASE Register(t)
  BY <1>1, <1>5 DEF Register, At, Stores, Statuses, backend, profiles
<1>6. CASE Monitor(t) \/ SweepEnds(t) \/ \E s \in Session : Sweep(t, s)
  BY <1>1, <1>6 DEF Monitor, SweepEnds, Sweep, Stores, registry, backend, profiles
<1>7. CASE Unlaunch(t) \/ Stop(t)
  BY <1>1, <1>7 DEF Unlaunch, Stop, StopsBrowser, Stores, registry, profiles
<1>8. CASE Unlease(t) \/ Release(t)
  BY <1>1, <1>8 DEF Unlease, Release, StopsLease, Stores, registry
<1>9. CASE Mark(t) \/ Forget(t)
  BY <1>1, <1>9, CallsTyped, ZenonT(60)
     DEF Mark, Marks, Forget, At, Stores, Statuses, Ended, backend, profiles,
     CallInv, CallOk, Calls
<1>10. CASE Expire(t) \/ CloseLocks(t) \/ SweepLocks(t)
  BY <1>1, <1>10 DEF Expire, CloseLocks, SweepLocks, At, Stores, backend, profiles
<1>11. CASE Enter(t) \/ BodyEnds(t)
  BY <1>1, <1>11 DEF Enter, BodyEnds, At, Stores, Statuses, backend, profiles
<1>. QED  BY <1>2, <1>3, <1>4, <1>5, <1>6, <1>7, <1>8, <1>9, <1>10, <1>11 DEF Steps

\* A step of nobody's call: the world and other processes.
Elsewhere ==
    \/ \E s \in Session : Dies(s) \/ StrayEnds(s) \/ GoesIdle(s)
    \/ \E p \in Profile : CreateBegins(p) \/ CreateEnds(p) \/ Remove(p)
    \/ UNCHANGED vars

\* The beginning of a call, or of the access a command makes.
Starts(t) ==
    \/ BodyAccesses(t) \/ SweepBegins(t)
    \/ \E s \in Session : OpenBegins(t, s) \/ CallBegins(t, s) \/ CloseBegins(t, s)

LEMMA StartsKeep ==
    ASSUME NEW t \in Thread, Starts(t) PROVE UNCHANGED <<registry, backend, profiles>>
BY DEF Starts, BodyAccesses, SweepBegins, OpenBegins, CallBegins, CloseBegins

LEMMA ElsewhereKeeps ==
    Elsewhere => UNCHANGED <<status, held, lock, started, chrome, drivers, driver, lease, th>>
BY DEF Elsewhere, Dies, StrayEnds, GoesIdle, CreateBegins, CreateEnds, Remove, registry, backend, profiles,
   vars

\* The disjuncts of a step.
LEMMA NextSplits ==
    [Next]_vars => (\E t \in Thread : Steps(t) \/ Starts(t)) \/ Elsewhere
BY DEF Next, Starts, Elsewhere

\* The state keeps its type, and every call its order.
LEMMA TypeNext == TypeOK /\ CallInv /\ [Next]_vars => TypeOK' /\ CallInv'
<1>. SUFFICES ASSUME TypeOK, CallInv, [Next]_vars PROVE TypeOK' /\ CallInv'
  OBVIOUS
<1>1. Stores' /\ th' \in [Thread -> Calls] => TypeOK'
  BY DEF Stores, Calls, TypeOK
<1>2. ASSUME NEW t \in Thread, Moves(t) PROVE CallInv'
  BY <1>2 DEF Moves, CallInv, CallOk
<1>3. ASSUME NEW t \in Thread, Steps(t) PROVE TypeOK' /\ CallInv'
  BY <1>1, <1>2, <1>3, StepMoves, StepStores DEF Moves
<1>4. ASSUME NEW t \in Thread, Starts(t) PROVE TypeOK' /\ CallInv'
  <2>1. Moves(t)
    BY <1>4, BeginMoves DEF Starts
  <2>2. Stores'
    BY <1>4, StartsKeep DEF TypeOK, Stores, registry, backend, profiles
  <2>. QED  BY <1>1, <1>2, <2>1, <2>2 DEF Moves
<1>5. CASE Elsewhere
  <2>1. CallInv' /\ th' \in [Thread -> Calls]
    BY <1>5, ElsewhereKeeps, CallsTyped DEF CallInv, CallOk
  <2>2. Stores'
    BY <1>5 DEF TypeOK, Stores, Elsewhere, Dies, StrayEnds, GoesIdle, CreateBegins, CreateEnds,
       Remove, registry, backend, profiles, vars
  <2>. QED  BY <1>1, <2>1, <2>2
<1>. QED  BY <1>3, <1>4, <1>5, NextSplits

(* Who is inside a session holds its lock.                                  *)

\* A step that leaves the locks, and takes nobody into a session.
LEMMA LocksStay ==
    ASSUME LockInv, NEW t \in Thread, UNCHANGED lock, \A u \in Thread \ {t} : th'[u] = th[u],
           Inside(t)' => Inside(t) /\ th'[t].s = th[t].s
    PROVE  LockInv'
BY DEF LockInv, Inside

\* A step of a thread to which the lock of its session was free: it holds the lock
\* after it, or it is outside, and nobody else was inside.
LEMMA LockMoves ==
    ASSUME TypeOK, LockInv, NEW t \in Thread, NEW s \in Session, Free(t, s),
           NEW v \in {t, Nobody}, lock' = [lock EXCEPT ![s] = v],
           \A u \in Thread \ {t} : th'[u] = th[u],
           Inside(t)' => v = t /\ th'[t].s = s
    PROVE  LockInv'
<1>. SUFFICES ASSUME NEW u \in Thread, Inside(u)' PROVE lock'[th'[u].s] = u
  BY DEF LockInv
<1>0. lock \in [Session -> Thread \cup {Nobody}]
  BY DEF TypeOK
<1>1. CASE u = t
  BY <1>0, <1>1
<1>2. CASE u # t
  <2>1. th'[u] = th[u] /\ Inside(u)
    BY <1>2 DEF Inside
  <2>2. lock[th[u].s] = u
    BY <2>1 DEF LockInv
  <2>3. th[u].s # s
    BY <1>2, <2>2, NamesAssumption DEF Free
  <2>. QED  BY <1>0, <2>1, <2>2, <2>3
<1>. QED  BY <1>1, <1>2

\* Who is inside finds the lock free.
LEMMA InsideFree ==
    ASSUME LockInv, NEW t \in Thread, Inside(t) PROVE Free(t, th[t].s)
BY DEF LockInv, Free
\* Who is inside a session holds its lock, whatever happens.
LEMMA LockNext == TypeOK /\ CallInv /\ LockInv /\ [Next]_vars => LockInv'
<1>. SUFFICES ASSUME TypeOK, CallInv, LockInv, [Next]_vars PROVE LockInv'
  OBVIOUS
<1>1. ASSUME NEW t \in Thread, Steps(t) PROVE LockInv'
  <2>1. \A u \in Thread \ {t} : th'[u] = th[u]
    BY <1>1, StepMoves DEF Moves
  <2>2. ASSUME UNCHANGED lock, ~Inside(t)' PROVE LockInv'
    BY <2>1, <2>2, LocksStay
  <2>3. ASSUME UNCHANGED lock, NEW place \in Places, Goes(t, place),
               place \notin {"stop", "release", "mark", "body"}
        PROVE  LockInv'
    BY <2>2, <2>3, GoesOn DEF Inside
  <2>4. ASSUME UNCHANGED lock, Returns(t) PROVE LockInv'
    BY <2>2, <2>4, ReturnsFrom DEF Inside
  <2>5. CASE Lease(t)
    BY <2>3, <2>4, <2>5 DEF Lease, Places, registry
  <2>6. CASE StartDriver(t)
    BY <2>3, <2>6 DEF StartDriver, Places, registry
  <2>7. CASE Launch(t)
    BY <2>3, <2>7 DEF Launch, Launched, NotLaunched, Places, registry
  <2>8. CASE FirstPage(t)
    BY <2>3, <2>8 DEF FirstPage, Places, registry
  <2>9. CASE Register(t)
    BY <2>3, <2>9 DEF Register, Places
  <2>10. CASE Monitor(t)
    <3>1. UNCHANGED lock
      BY <2>10 DEF Monitor, registry
    <3>2. CASE Returns(t)
      BY <2>4, <3>1, <3>2
    <3>3. CASE th' = [th EXCEPT ![t].at = "stop", ![t].then = "unregister"]
      <4>1. ~Inside(t)'
        BY <3>3, GoesToStop DEF Inside
      <4>. QED  BY <2>2, <3>1, <4>1
    <3>. QED  BY <2>10, <3>2, <3>3 DEF Monitor
  <2>11. CASE Unlaunch(t)
    BY <2>3, <2>11 DEF Unlaunch, Places, registry
  <2>12. CASE Unlease(t) \/ Forget(t) \/ SweepEnds(t)
    BY <2>4, <2>12 DEF Unlease, Forget, SweepEnds, registry
  <2>13. CASE Stop(t) \/ Release(t)
    <3>1. UNCHANGED lock /\ th[t].at \in {"stop", "release"}
      BY <2>13 DEF Stop, Release, At, registry
    <3>2. \E place \in {"release", "mark"} : Goes(t, place)
      BY <2>13 DEF Stop, Release
    <3>3. Inside(t)' => Inside(t) /\ th'[t].s = th[t].s
      BY <3>1, <3>2, GoesOn DEF Inside, Places
    <3>. QED  BY <2>1, <3>1, <3>3, LocksStay
  <2>14. CASE Mark(t)
    <3>1. /\ th[t].at = "mark" /\ th[t].s \in Session
          /\ th[t].then \in {"close", "access", "sweep", "unregister"}
      BY <2>14, CallsTyped DEF Mark, At, CallInv, CallOk, Calls
    <3>2. CASE th[t].then = "unregister"
      BY <2>3, <2>14, <3>2 DEF Mark, Places
    <3>3. CASE th[t].then # "unregister"
      <4>1. Inside(t)
        BY <3>1, <3>3 DEF Inside
      <4>2. lock' = [lock EXCEPT ![th[t].s] = Nobody] /\ (Returns(t) \/ Goes(t, "sweep"))
        BY <2>14, <3>1, <3>3 DEF Mark
      <4>3. ~Inside(t)'
        BY <4>2, GoesOn, ReturnsFrom DEF Inside, Places
      <4>. QED  BY <2>1, <3>1, <4>1, <4>2, <4>3, InsideFree, LockMoves
    <3>. QED  BY <3>2, <3>3
  <2>15. CASE Expire(t)
    <3>1. th[t].s \in Session
      BY <2>15 DEF Expire, At, CallInv, CallOk
    <3>2. CASE ~Free(t, th[t].s)
      BY <2>4, <2>15, <3>2 DEF Expire
    <3>3. CASE Free(t, th[t].s) /\ StillIdle(th[t].s)
      <4>1. /\ lock' = [lock EXCEPT ![th[t].s] = t]
            /\ th' = [th EXCEPT ![t].at = "stop", ![t].then = "access"]
        BY <2>15, <3>3 DEF Expire
      <4>2. th'[t].s = th[t].s
        BY <4>1, GoesToStop
      <4>. QED  BY <2>1, <3>1, <3>3, <4>1, <4>2, LockMoves
    <3>4. CASE Free(t, th[t].s) /\ ~StillIdle(th[t].s)
      <4>1. lock' = [lock EXCEPT ![th[t].s] = Nobody] /\ (Returns(t) \/ Goes(t, "enter"))
        BY <2>15, <3>4 DEF Expire
      <4>2. ~Inside(t)'
        BY <4>1, GoesOn, ReturnsFrom DEF Inside, Places
      <4>. QED  BY <2>1, <3>1, <3>4, <4>1, <4>2, LockMoves
    <3>. QED  BY <3>2, <3>3, <3>4
  <2>16. CASE Enter(t)
    <3>1. th[t].s \in Session
      BY <2>16 DEF Enter, At, CallInv, CallOk
    <3>2. CASE Tries(t, th[t].s) /\ Alive(th[t].s)
      <4>1. lock' = [lock EXCEPT ![th[t].s] = t] /\ Goes(t, "body")
        BY <2>16, <3>2 DEF Enter
      <4>2. th'[t].s = th[t].s
        BY <4>1, GoesOn DEF Places
      <4>. QED  BY <2>1, <3>1, <3>2, <4>1, <4>2, LockMoves DEF Tries
    <3>3. CASE ~(Tries(t, th[t].s) /\ Alive(th[t].s))
      BY <2>4, <2>16, <3>3 DEF Enter
    <3>. QED  BY <3>2, <3>3
  <2>17. CASE BodyEnds(t)
    <3>1. Inside(t) /\ th[t].s \in Session
      BY <2>17 DEF BodyEnds, At, Inside, CallInv, CallOk
    <3>2. lock' = [lock EXCEPT ![th[t].s] = Nobody] /\ ~Inside(t)'
      BY <2>17, ReturnsFrom DEF BodyEnds, Inside
    <3>. QED  BY <2>1, <3>1, <3>2, InsideFree, LockMoves
  <2>18. CASE CloseLocks(t)
    <3>1. th[t].s \in Session
      BY <2>18 DEF CloseLocks, At, CallInv, CallOk
    <3>2. CASE Free(t, th[t].s)
      <4>1. /\ lock' = [lock EXCEPT ![th[t].s] = t]
            /\ th' = [th EXCEPT ![t].at = "stop", ![t].then = "close"]
        BY <2>18, <3>2 DEF CloseLocks
      <4>2. th'[t].s = th[t].s
        BY <4>1, GoesToStop
      <4>. QED  BY <2>1, <3>1, <3>2, <4>1, <4>2, LockMoves
    <3>3. CASE ~Free(t, th[t].s)
      BY <2>4, <2>18, <3>3 DEF CloseLocks
    <3>. QED  BY <3>2, <3>3
  <2>19. ASSUME NEW s \in Session, Sweep(t, s) PROVE LockInv'
    <3>1. UNCHANGED lock /\ th[t].at = "sweep" /\ th'[t].at \in {"sweep", "sweeplock"}
      BY <2>19, CallsTyped DEF Sweep, At, registry, Calls
    <3>. QED  BY <2>2, <3>1 DEF Inside
  <2>20. CASE SweepLocks(t)
    <3>1. th[t].s \in Session
      BY <2>20 DEF SweepLocks, At, CallInv, CallOk
    <3>2. CASE Free(t, th[t].s) /\ StillIdle(th[t].s)
      <4>1. /\ lock' = [lock EXCEPT ![th[t].s] = t]
            /\ th' = [th EXCEPT ![t].at = "stop", ![t].then = "sweep"]
        BY <2>20, <3>2 DEF SweepLocks
      <4>2. th'[t].s = th[t].s
        BY <4>1, GoesToStop
      <4>. QED  BY <2>1, <3>1, <3>2, <4>1, <4>2, LockMoves
    <3>3. CASE ~(Free(t, th[t].s) /\ StillIdle(th[t].s))
      BY <2>3, <2>4, <2>20, <3>3 DEF SweepLocks, Places
    <3>. QED  BY <3>2, <3>3
  <2>. QED  BY <1>1, <2>5, <2>6, <2>7, <2>8, <2>9, <2>10, <2>11, <2>12, <2>13, <2>14, <2>15,
               <2>16, <2>17, <2>18, <2>19, <2>20 DEF Steps
<1>2. ASSUME NEW t \in Thread, Starts(t) PROVE LockInv'
  <2>1. UNCHANGED lock /\ Moves(t)
    BY <1>2, StartsKeep, BeginMoves DEF Starts, registry
  <2>2. ~Inside(t)'
    <3>1. CASE BodyAccesses(t)
      BY <3>1, CallsTyped DEF BodyAccesses, Inside, Calls
    <3>2. CASE SweepBegins(t)
      BY <3>2, CallsTyped DEF SweepBegins, Inside, Calls
    <3>3. ASSUME NEW s \in Session, OpenBegins(t, s) \/ CallBegins(t, s) \/ CloseBegins(t, s)
          PROVE  ~Inside(t)'
      <4>1. \E place \in {"lease", "expire", "enter", "close"} : Begins(t, place, s)
        BY <3>3 DEF OpenBegins, CallBegins, CloseBegins
      <4>. QED  BY <4>1, BeginsCall DEF Inside, Places
    <3>. QED  BY <1>2, <3>1, <3>2, <3>3 DEF Starts
  <2>. QED  BY <2>1, <2>2, LocksStay DEF Moves
<1>3. CASE Elsewhere
  BY <1>3, ElsewhereKeeps DEF LockInv, Inside
<1>. QED  BY <1>1, <1>2, <1>3, NextSplits

(* What a session has: its lease, its share of the driver, its browser.      *)

\* Who opens a session has it to itself; a sweep may only have looked at it.
Alone(t) ==
    Starting(t) =>
        /\ status[th[t].s] = "absent" /\ th[t].s \notin held
        /\ \A u \in Thread \ {t} : th[u].s = th[t].s => th[u].at = "sweep"

\* What a thread has taken when it is at a place, and has given back.
Has(t) ==
    /\ th[t].at \in {"drive", "launch", "page", "register"} => lease[ProfileOf[th[t].s]] = th[t].s
    /\ th[t].at \in {"launch", "page", "register"} => th[t].s \in drivers
    /\ th[t].at \in {"unlease", "release", "mark"} => th[t].s \notin chrome \cup drivers
    /\ th[t].at = "mark" => \A p \in Profile : lease[p] # th[t].s
    /\ th[t].at = "forget" => th[t].s \notin held

\* A session uses the driver or a profile.
Uses(s) == s \in drivers \/ \E p \in Profile : lease[p] = s

\* Thread t starts session s and may have taken something for it.
Builds(t, s) == th[t].s = s /\ th[t].at \in Opening \ {"lease"}

\* A held session has not ended, a browser has its driver and its lease, and what a
\* session uses is known to its record or to the thread that starts it.
SessionOk(s) ==
    /\ s \in held => status[s] \in {"open", "terminal"}
    /\ s \in chrome => s \in drivers /\ lease[ProfileOf[s]] = s
    /\ Uses(s) => s \in held \/ \E t \in Thread : Builds(t, s)

ResInv ==
    /\ \A t \in Thread : Alone(t) /\ Has(t)
    /\ \A s \in Session : SessionOk(s)
    /\ drivers # {} => driver

\* A new registry has nothing.
LEMMA ResInit == Init => ResInv
<1>. SUFFICES ASSUME Init PROVE ResInv
  OBVIOUS
<1>1. \A t \in Thread : Alone(t) /\ Has(t)
  BY DEF Init, NoCall, Alone, Has, Starting, Opening
<1>2. \A s \in Session : SessionOk(s)
  BY NamesAssumption DEF Init, SessionOk, Uses
<1>. QED  BY <1>1, <1>2 DEF Init, ResInv

\* Nobody starts a session another thread is in.
LEMMA NobodyBuilds ==
    ASSUME ResInv, NEW t \in Thread, th[t].at # "sweep", NEW u \in Thread \ {t}, th[u].s = th[t].s
    PROVE  ~Starting(u)
BY DEF ResInv, Alone

\* A step that takes and gives nothing: it may find a session dead.
LEMMA ResStays ==
    ASSUME TypeOK, CallInv, ResInv, NEW t \in Thread, Moves(t), ~Starting(t),
           UNCHANGED <<held, chrome, drivers, driver, lease>>,
           th'[t].at \notin Opening \cup {"release", "mark", "forget"},
           \A s \in Session : \/ status'[s] = status[s]
                              \/ status'[s] = "terminal" /\ th[t].s = s /\ th[t].at # "sweep",
           \/ th'[t].s = Nobody
           \/ th'[t].at = "sweep"
           \/ th'[t].s = th[t].s /\ th[t].at # "sweep"
           \/ status[th'[t].s] # "absent"
    PROVE  ResInv'
<1>1. ASSUME NEW u \in Thread PROVE Alone(u)' /\ Has(u)'
  <2>1. CASE u = t
    BY <2>1 DEF Alone, Has, Starting, Opening
  <2>2. CASE u # t
    <3>1. th'[u] = th[u] /\ Alone(u) /\ Has(u)
      BY <2>2 DEF Moves, ResInv
    <3>2. Has(u)'
      BY <3>1 DEF Has
    <3>3. Alone(u)'
      <4>. SUFFICES ASSUME Starting(u)' PROVE Alone(u)'
        BY DEF Alone
      <4>1. Starting(u) /\ th[u].s \in Session
        BY <3>1 DEF Starting, Opening, CallInv, CallOk
      <4>2. status'[th[u].s] = "absent"
        BY <2>2, <3>1, <4>1 DEF Alone
      <4>3. th'[t].s = th[u].s => th'[t].at = "sweep"
        BY <2>2, <3>1, <4>1, NamesAssumption DEF Alone
      <4>. QED  BY <3>1, <4>1, <4>2, <4>3 DEF Alone, Moves
    <3>. QED  BY <3>2, <3>3
  <2>. QED  BY <2>1, <2>2
<1>2. ASSUME NEW s \in Session PROVE SessionOk(s)'
  <2>1. SessionOk(s) /\ (Uses(s)' <=> Uses(s))
    BY DEF ResInv, Uses
  <2>2. ASSUME NEW u \in Thread, Builds(u, s) PROVE Builds(u, s)'
    BY <2>2 DEF Builds, Starting, Moves
  <2>. QED  BY <2>1, <2>2 DEF SessionOk
<1>. QED  BY <1>1, <1>2 DEF ResInv

\* A step of a thread for its session s, which it starts or from which it only
\* takes away, leaves the other sessions as they are.
LEMMA ResOwn ==
    ASSUME TypeOK, CallInv, ResInv, NEW t \in Thread, Moves(t), NEW s \in Session,
           th[t].s = s, th[t].at \notin {"none", "sweep"},
           th'[t].s \in {s, Nobody} \/ th'[t].at = "sweep",
           \A r \in Session \ {s} :
               /\ status'[r] = status[r]
               /\ (r \in held' <=> r \in held) /\ (r \in chrome' <=> r \in chrome)
               /\ (r \in drivers' <=> r \in drivers)
               /\ \A p \in Profile : lease'[p] = r <=> lease[p] = r,
           \/ Starting(t)
           \/ /\ th'[t].at \notin Opening
              /\ (s \in held' => s \in held) /\ (s \in chrome' => s \in chrome)
              /\ (s \in drivers' => s \in drivers)
              /\ \A p \in Profile : lease'[p] = s => lease[p] = s,
           th'[t].at \in Opening => th'[t].s = s /\ status'[s] = "absent" /\ s \notin held',
           Has(t)',
           s \in held' => status'[s] \in {"open", "terminal"},
           s \in chrome' => s \in drivers' /\ lease'[ProfileOf[s]] = s,
           Uses(s)' => s \in held' \/ Builds(t, s)',
           drivers' # {} => driver'
    PROVE  ResInv'
<1>0. \A r \in Session : ProfileOf[r] \in Profile
  BY NamesAssumption
<1>1. \A u \in Thread \ {t} : th'[u] = th[u] /\ Alone(u) /\ Has(u) /\ CallOk(u)
  BY DEF Moves, ResInv, CallInv
<1>2. \A u \in Thread \ {t} : th[u].s = s => ~Starting(u)
  BY NobodyBuilds
<1>3. ASSUME NEW u \in Thread \ {t} PROVE Alone(u)'
  <2>. SUFFICES ASSUME Starting(u)' PROVE Alone(u)'
    BY DEF Alone
  <2>1. Starting(u) /\ th[u].s \in Session \ {s}
    BY <1>1, <1>2 DEF Starting, Opening, CallOk
  <2>2. th'[t].s = th[u].s => th'[t].at = "sweep"
    BY <2>1, NamesAssumption
  <2>. QED  BY <1>1, <2>1, <2>2 DEF Alone
<1>4. ASSUME NEW u \in Thread \ {t} PROVE Has(u)'
  <2>1. CASE th[u].s # s
    <3>1. th[u].at \notin {"none", "sweep"} => th[u].s \in Session \ {s}
      BY <1>1, <2>1 DEF CallOk
    <3>. QED  BY <1>0, <1>1, <3>1 DEF Has
  <2>2. CASE th[u].s = s /\ Starting(t)
    <3>1. th[u].at = "sweep"
      BY <2>2 DEF ResInv, Alone
    <3>. QED  BY <1>1, <3>1 DEF Has
  <2>3. CASE th[u].s = s /\ ~Starting(t)
    BY <1>1, <1>2, <2>3 DEF Has, Starting, Opening
  <2>. QED  BY <2>1, <2>2, <2>3
<1>5. Alone(t)'
  <2>. SUFFICES ASSUME Starting(t)' PROVE Alone(t)'
    BY DEF Alone
  <2>1. Starting(t) /\ Alone(t)
    BY DEF Starting, ResInv
  <2>2. \A u \in Thread \ {t} : th[u].s = s => th[u].at = "sweep"
    BY <2>1 DEF Alone
  <2>. QED  BY <1>1, <2>2 DEF Alone, Starting
<1>6. ASSUME NEW r \in Session PROVE SessionOk(r)'
  <2>1. CASE r = s
    BY <2>1 DEF SessionOk
  <2>2. CASE r # s
    <3>1. SessionOk(r) /\ (Uses(r)' <=> Uses(r))
      BY <2>2 DEF ResInv, Uses
    <3>2. ASSUME NEW u \in Thread, Builds(u, r) PROVE Builds(u, r)'
      BY <1>1, <2>2, <3>2 DEF Builds
    <3>. QED  BY <1>0, <2>2, <3>1, <3>2 DEF SessionOk
  <2>. QED  BY <2>1, <2>2
<1>. QED  BY <1>3, <1>4, <1>5, <1>6 DEF ResInv
\* A step of a start changes only what belongs to its session.
LEMMA ResBuild ==
    ASSUME TypeOK, CallInv, ResInv, NEW t \in Thread,
           \/ Lease(t) \/ StartDriver(t) \/ Launch(t) \/ FirstPage(t) \/ Register(t)
           \/ Unlaunch(t) \/ Unlease(t)
    PROVE  ResInv'
<1>0. th[t].s \in Session
  BY DEF Lease, StartDriver, Launch, FirstPage, Register, Unlaunch, Unlease, At, CallInv, CallOk
<1>. SUFFICES ASSUME NEW s \in Session, th[t].s = s PROVE ResInv'
  BY <1>0
<1>1. Moves(t)
  BY StepMoves DEF Steps
<1>2. /\ th[t].at \in {"lease", "drive", "launch", "page", "register", "unlaunch", "unlease"}
      /\ Starting(t) /\ s \in Session /\ ProfileOf[s] \in Profile
  BY NamesAssumption DEF Lease, StartDriver, Launch, FirstPage, Register, Unlaunch, Unlease, At,
     Starting, Opening, CallInv, CallOk
<1>3. /\ status[s] = "absent" /\ s \notin held /\ Has(t) /\ SessionOk(s) /\ (drivers # {} => driver)
      /\ \A u \in Thread \ {t} : th[u].s = s => th[u].at = "sweep"
  BY <1>2 DEF ResInv, Alone
<1>4. \A u \in Thread \ {t} : ~Builds(u, s)
  BY <1>3 DEF Builds, Opening
<1>5. ASSUME NEW place \in Opening \ {"lease"}, Goes(t, place), UNCHANGED <<status, held>>,
             \A r \in Session \ {s} :
                 /\ (r \in chrome' <=> r \in chrome) /\ (r \in drivers' <=> r \in drivers)
                 /\ \A p \in Profile : lease'[p] = r <=> lease[p] = r,
             Has(t)', s \in chrome' => s \in drivers' /\ lease'[ProfileOf[s]] = s,
             drivers' # {} => driver'
      PROVE  ResInv'
  <2>1. th'[t].s = s /\ th'[t].at = place /\ Builds(t, s)'
    BY <1>5, GoesOn DEF Opening, Places, Builds
  <2>. QED  BY <1>1, <1>2, <1>3, <1>5, <2>1, ResOwn
<1>6. CASE Lease(t)
  <2>1. UNCHANGED <<status, held, chrome, drivers, driver>> /\ th[t].at = "lease"
    BY <1>6 DEF Lease, At, registry, backend
  <2>2. CASE Leases(ProfileOf[s])
    <3>1. lease' = [lease EXCEPT ![ProfileOf[s]] = s] /\ Goes(t, "drive")
      BY <1>6, <2>2 DEF Lease
    <3>2. lease[ProfileOf[s]] = Nobody
      BY <2>2 DEF Leases
    <3>3. \A r \in Session \ {s} : \A p \in Profile : lease'[p] = r <=> lease[p] = r
      BY <1>2, <3>1, <3>2, NamesAssumption DEF TypeOK
    <3>4. lease'[ProfileOf[s]] = s
      BY <1>2, <3>1 DEF TypeOK
    <3>5. Has(t)'
      BY <3>1, <3>4, GoesOn DEF Has, Places
    <3>6. s \notin chrome
      BY <1>3, <1>4, <2>1 DEF SessionOk, Uses, Builds
    <3>. QED  BY <1>3, <1>5, <2>1, <3>1, <3>3, <3>5, <3>6 DEF Opening
  <2>3. CASE ~Leases(ProfileOf[s])
    <3>1. UNCHANGED lease /\ Returns(t)
      BY <1>6, <2>3 DEF Lease, profiles
    <3>2. th'[t].s = Nobody /\ th'[t].at = "none"
      BY <3>1, ReturnsFrom
    <3>3. ~Uses(s)'
      <4>1. \A u \in Thread : ~Builds(u, s)
        BY <1>4, <2>1 DEF Builds
      <4>. QED  BY <1>3, <2>1, <3>1, <4>1 DEF SessionOk, Uses
    <3>4. Has(t)' /\ th'[t].at \notin Opening
      BY <3>2 DEF Has, Opening
    <3>5. s \notin chrome'
      BY <3>3, <1>3, <2>1 DEF SessionOk, Uses
    <3>. QED  BY <1>1, <1>2, <1>3, <2>1, <3>1, <3>2, <3>3, <3>4, <3>5, ResOwn
  <2>. QED  BY <2>2, <2>3
<1>7. CASE StartDriver(t)
  <2>1. UNCHANGED <<status, held, chrome, lease>> /\ th[t].at = "drive"
    BY <1>7 DEF StartDriver, At, registry, profiles
  <2>2. lease[ProfileOf[s]] = s
    BY <1>3, <2>1 DEF Has
  <2>3. CASE driver' = TRUE /\ drivers' = drivers \cup {s} /\ Goes(t, "launch")
    <3>1. Has(t)'
      BY <2>1, <2>2, <2>3, GoesOn DEF Has, Places
    <3>. QED  BY <1>3, <1>5, <2>1, <2>3, <3>1 DEF Opening, SessionOk
  <2>4. CASE Goes(t, "unlaunch") /\ UNCHANGED <<driver, drivers>>
    <3>1. Has(t)'
      BY <2>4, GoesOn DEF Has, Places
    <3>. QED  BY <1>3, <1>5, <2>1, <2>4, <3>1 DEF Opening, SessionOk
  <2>. QED  BY <1>7, <2>3, <2>4 DEF StartDriver
<1>8. CASE Launch(t)
  <2>1. UNCHANGED <<status, held, lease, drivers, driver>> /\ th[t].at = "launch"
    BY <1>8 DEF Launch, At, registry, profiles
  <2>2. lease[ProfileOf[s]] = s /\ s \in drivers
    BY <1>3, <2>1 DEF Has
  <2>3. CASE Launched(t)
    <3>1. Has(t)'
      BY <2>1, <2>2, <2>3, GoesOn DEF Has, Places, Launched
    <3>. QED  BY <1>3, <1>5, <2>1, <2>2, <2>3, <3>1 DEF Opening, Launched
  <2>4. CASE NotLaunched(t)
    <3>1. Has(t)'
      BY <2>4, GoesOn DEF Has, Places, NotLaunched
    <3>. QED  BY <1>3, <1>5, <2>1, <2>2, <2>4, <3>1 DEF Opening, NotLaunched
  <2>. QED  BY <1>8, <2>3, <2>4 DEF Launch
<1>9. CASE FirstPage(t)
  <2>1. UNCHANGED <<status, held, lease, chrome, drivers, driver>> /\ th[t].at = "page"
    BY <1>9 DEF FirstPage, At, registry, profiles
  <2>2. lease[ProfileOf[s]] = s /\ s \in drivers
    BY <1>3, <2>1 DEF Has
  <2>3. CASE Goes(t, "register")
    <3>1. Has(t)'
      BY <2>1, <2>2, <2>3, GoesOn DEF Has, Places
    <3>. QED  BY <1>3, <1>5, <2>1, <2>2, <2>3, <3>1 DEF Opening
  <2>4. CASE Goes(t, "unlaunch")
    <3>1. Has(t)'
      BY <2>4, GoesOn DEF Has, Places
    <3>. QED  BY <1>3, <1>5, <2>1, <2>2, <2>4, <3>1 DEF Opening
  <2>. QED  BY <1>9, <2>3, <2>4 DEF FirstPage
<1>10. CASE Register(t)
  <2>1. /\ UNCHANGED <<lease, chrome, drivers, driver>> /\ Goes(t, "monitor")
        /\ status' = [status EXCEPT ![s] = "open"] /\ held' = held \cup {s}
    BY <1>10 DEF Register, backend, profiles
  <2>2. th'[t].at = "monitor" /\ th'[t].s = s
    BY <2>1, GoesOn DEF Places
  <2>3. Has(t)' /\ th'[t].at \notin Opening
    BY <2>2 DEF Has, Opening
  <2>4. status'[s] = "open" /\ \A r \in Session \ {s} : status'[r] = status[r]
    BY <1>2, <2>1 DEF TypeOK
  <2>5. s \in chrome' => s \in drivers' /\ lease'[ProfileOf[s]] = s
    BY <1>3, <2>1 DEF SessionOk
  <2>. QED  BY <1>1, <1>2, <1>3, <2>1, <2>2, <2>3, <2>4, <2>5, ResOwn
<1>11. CASE Unlaunch(t)
  <2>1. UNCHANGED <<status, held, lease>> /\ StopsBrowser(s) /\ Goes(t, "unlease")
    BY <1>11 DEF Unlaunch, registry, profiles
  <2>2. Has(t)'
    BY <2>1, GoesOn DEF Has, Places, StopsBrowser
  <2>3. drivers' # {} => driver'
    BY <1>3, <2>1 DEF StopsBrowser
  <2>. QED  BY <1>3, <1>5, <2>1, <2>2, <2>3 DEF Opening, StopsBrowser
<1>12. CASE Unlease(t)
  <2>1. /\ UNCHANGED <<status, held, chrome, drivers, driver>> /\ StopsLease(s) /\ Returns(t)
        /\ th[t].at = "unlease"
    BY <1>12 DEF Unlease, At, registry
  <2>2. s \notin chrome \cup drivers
    BY <1>3, <2>1 DEF Has
  <2>3. th'[t].s = Nobody /\ th'[t].at = "none"
    BY <2>1, ReturnsFrom
  <2>4. Has(t)' /\ th'[t].at \notin Opening
    BY <2>3 DEF Has, Opening
  <2>5. \A p \in Profile : lease'[p] # s
    BY <1>2, <2>1, NamesAssumption DEF StopsLease, TypeOK
  <2>6. \A r \in Session \ {s} : \A p \in Profile : lease'[p] = r <=> lease[p] = r
    BY <2>1, NamesAssumption DEF StopsLease, TypeOK
  <2>7. ~Uses(s)'
    BY <2>1, <2>2, <2>5 DEF Uses
  <2>. QED  BY <1>1, <1>2, <1>3, <2>1, <2>2, <2>3, <2>4, <2>5, <2>6, <2>7, ResOwn
<1>. QED  BY <1>6, <1>7, <1>8, <1>9, <1>10, <1>11, <1>12
\* A step of an ending only takes away from its session.
LEMMA ResEnd ==
    ASSUME TypeOK, CallInv, ResInv, NEW t \in Thread,
           Stop(t) \/ Release(t) \/ Mark(t) \/ Forget(t)
    PROVE  ResInv'
<1>0. th[t].s \in Session
  BY DEF Stop, Release, Mark, Forget, At, CallInv, CallOk
<1>. SUFFICES ASSUME NEW s \in Session, th[t].s = s PROVE ResInv'
  BY <1>0
<1>1. Moves(t)
  BY StepMoves DEF Steps
<1>2. th[t].at \in {"stop", "release", "mark", "forget"} /\ ProfileOf[s] \in Profile
  BY NamesAssumption DEF Stop, Release, Mark, Forget, At
<1>3. /\ Has(t) /\ SessionOk(s) /\ (drivers # {} => driver)
      /\ \A u \in Thread : ~Builds(u, s)
  <2>1. \A u \in Thread \ {t} : th[u].s = s => ~Starting(u)
    BY <1>2, NobodyBuilds
  <2>. QED  BY <1>2, <2>1 DEF ResInv, Builds, Opening, Starting
<1>4. CASE Stop(t)
  <2>1. UNCHANGED <<status, held, lease>> /\ th[t].at = "stop"
    BY <1>4 DEF Stop, At, registry, profiles
  <2>2. CASE s \in held
    <3>1. StopsBrowser(s) /\ Goes(t, "release")
      BY <1>4, <2>2 DEF Stop
    <3>2. th'[t].at = "release" /\ th'[t].s = s
      BY <3>1, GoesOn DEF Places
    <3>3. Has(t)' /\ th'[t].at \notin Opening
      BY <3>1, <3>2 DEF Has, StopsBrowser, Opening
    <3>4. drivers' # {} => driver'
      BY <1>3, <3>1 DEF StopsBrowser
    <3>. QED  BY <1>1, <1>2, <1>3, <2>1, <2>2, <3>1, <3>2, <3>3, <3>4, ResOwn
              DEF StopsBrowser, SessionOk
  <2>3. CASE s \notin held
    <3>1. UNCHANGED <<chrome, drivers, driver>> /\ Goes(t, "mark")
      BY <1>4, <2>3 DEF Stop
    <3>2. th'[t].at = "mark" /\ th'[t].s = s
      BY <3>1, GoesOn DEF Places
    <3>3. ~Uses(s) /\ s \notin chrome
      BY <1>3, <2>3 DEF SessionOk, Uses
    <3>4. Has(t)' /\ th'[t].at \notin Opening
      BY <2>1, <3>1, <3>2, <3>3 DEF Has, Uses, Opening
    <3>. QED  BY <1>1, <1>2, <1>3, <2>1, <2>3, <3>1, <3>2, <3>3, <3>4, ResOwn DEF Uses
  <2>. QED  BY <2>2, <2>3
<1>5. CASE Release(t)
  <2>1. /\ UNCHANGED <<status, held, chrome, drivers, driver>> /\ StopsLease(s) /\ Goes(t, "mark")
        /\ th[t].at = "release"
    BY <1>5 DEF Release, At, registry
  <2>2. s \notin chrome \cup drivers
    BY <1>3, <2>1 DEF Has
  <2>3. th'[t].at = "mark" /\ th'[t].s = s
    BY <2>1, GoesOn DEF Places
  <2>4. \A p \in Profile : lease'[p] # s
    BY <2>1, NamesAssumption DEF StopsLease, TypeOK
  <2>5. \A r \in Session \ {s} : \A p \in Profile : lease'[p] = r <=> lease[p] = r
    BY <2>1, NamesAssumption DEF StopsLease, TypeOK
  <2>6. Has(t)' /\ th'[t].at \notin Opening
    BY <2>1, <2>2, <2>3, <2>4 DEF Has, Opening
  <2>7. ~Uses(s)'
    BY <2>1, <2>2, <2>4 DEF Uses
  <2>8. s \in held' => status'[s] \in {"open", "terminal"}
    BY <1>3, <2>1 DEF SessionOk
  <2>. QED  BY <1>1, <1>2, <1>3, <2>1, <2>2, <2>3, <2>4, <2>5, <2>6, <2>7, <2>8, ResOwn
<1>6. CASE Mark(t)
  <2>1. UNCHANGED <<chrome, drivers, driver, lease>> /\ th[t].at = "mark"
    BY <1>6 DEF Mark, At, backend, profiles
  <2>2. th[t].then \in {"close", "access", "sweep", "unregister"}
    BY <2>1, CallsTyped DEF CallInv, CallOk, Calls
  <2>3. /\ \E as \in {"closed", "expired", "terminal"} : Marks(s, as)
        /\ Returns(t) \/ Goes(t, "sweep") \/ Goes(t, "forget")
    BY <1>6, <2>2 DEF Mark
  <2>4. held' = held \ {s} /\ \A r \in Session \ {s} : status'[r] = status[r]
    BY <2>3 DEF Marks, TypeOK
  <2>5. s \notin chrome' /\ ~Uses(s)'
    BY <1>3, <2>1 DEF Has, Uses
  <2>6. \/ th'[t].at = "none" /\ th'[t].s = Nobody
        \/ th'[t].at \in {"sweep", "forget"} /\ th'[t].s = s
    BY <2>3, ReturnsFrom, GoesOn DEF Places
  <2>7. Has(t)' /\ th'[t].at \notin Opening
    BY <2>4, <2>6 DEF Has, Opening
  <2>. QED  BY <1>1, <1>2, <1>3, <2>1, <2>4, <2>5, <2>6, <2>7, ResOwn
<1>7. CASE Forget(t)
  <2>1. /\ UNCHANGED <<held, chrome, drivers, driver, lease>> /\ th[t].at = "forget" /\ Returns(t)
        /\ status' = [status EXCEPT ![s] = "absent"]
    BY <1>7 DEF Forget, At, backend, profiles
  <2>2. s \notin held
    BY <1>3, <2>1 DEF Has
  <2>3. s \notin chrome /\ ~Uses(s)'
    BY <1>3, <2>1, <2>2 DEF SessionOk, Uses
  <2>4. th'[t].at = "none" /\ th'[t].s = Nobody
    BY <2>1, ReturnsFrom
  <2>5. Has(t)' /\ th'[t].at \notin Opening
    BY <2>4 DEF Has, Opening
  <2>6. \A r \in Session \ {s} : status'[r] = status[r]
    BY <2>1 DEF TypeOK
  <2>. QED  BY <1>1, <1>2, <1>3, <2>1, <2>2, <2>3, <2>4, <2>5, <2>6, ResOwn
<1>. QED  BY <1>4, <1>5, <1>6, <1>7

\* Every other step of a call takes and gives nothing.
LEMMA ResCalls ==
    ASSUME TypeOK, CallInv, ResInv, NEW t \in Thread,
           \/ Monitor(t) \/ Expire(t) \/ Enter(t) \/ BodyEnds(t) \/ CloseLocks(t)
           \/ (\E s \in Session : Sweep(t, s)) \/ SweepLocks(t) \/ SweepEnds(t)
    PROVE  ResInv'
<1>1. Moves(t)
  BY StepMoves DEF Steps
<1>2. /\ UNCHANGED <<held, chrome, drivers, driver, lease>>
      /\ th[t].at \in {"monitor", "expire", "enter", "body", "close", "sweep", "sweeplock"}
  BY DEF Monitor, Expire, Enter, BodyEnds, CloseLocks, Sweep, SweepLocks, SweepEnds, At,
     registry, backend, profiles
<1>3. ~Starting(t)
  BY <1>2 DEF Starting, Opening
<1>4. \/ Returns(t)
      \/ \E place \in {"enter", "body", "sweep"} : th[t].at # "sweep" /\ Goes(t, place)
      \/ \E for \in {"close", "access", "sweep", "unregister"} :
            th[t].at # "sweep" /\ th' = [th EXCEPT ![t].at = "stop", ![t].then = for]
      \/ \E s \in Session : Sweep(t, s)
  BY <1>2 DEF Monitor, Expire, Enter, BodyEnds, CloseLocks, SweepLocks, SweepEnds, At
<1>5. /\ th'[t].at \in {"none", "enter", "body", "stop", "sweep", "sweeplock"}
      /\ \/ th'[t].s = Nobody \/ th'[t].at = "sweep"
         \/ th'[t].s = th[t].s /\ th[t].at # "sweep"
         \/ status[th'[t].s] # "absent"
  <2>1. CASE Returns(t)
    BY <2>1, ReturnsFrom
  <2>2. ASSUME NEW place \in {"enter", "body", "sweep"}, Goes(t, place), th[t].at # "sweep"
        PROVE  th'[t].at = place /\ th'[t].s = th[t].s
    BY <2>2, GoesOn DEF Places
  <2>3. ASSUME NEW for \in {"close", "access", "sweep", "unregister"}, th[t].at # "sweep",
               th' = [th EXCEPT ![t].at = "stop", ![t].then = for]
        PROVE  th'[t].at = "stop" /\ th'[t].s = th[t].s
    BY <2>3, GoesToStop
  <2>4. ASSUME NEW s \in Session, Sweep(t, s)
        PROVE  /\ th'[t].at \in {"sweep", "sweeplock"}
               /\ th'[t].at = "sweep" \/ status[th'[t].s] # "absent"
    <3>. DEFINE place == IF status[s] = "open" /\ s \in idle THEN "sweeplock" ELSE th[t].at
                d == [[[th[t] EXCEPT !.todo = th[t].todo \ {s}] EXCEPT !.s = s] EXCEPT !.at = place]
    <3>1. th[t] \in Calls /\ th[t].at = "sweep"
      BY <2>4, CallsTyped DEF Sweep, At
    <3>2. th'[t] = d
      BY <2>4, CallsTyped DEF Sweep
    <3>3. d.at = place /\ d.s = s
      BY <3>1 DEF Calls
    <3>. HIDE DEF d
    <3>. QED  BY <3>1, <3>2, <3>3
  <2>. QED  BY <1>4, <2>1, <2>2, <2>3, <2>4
<1>6. \A s \in Session :
          \/ status'[s] = status[s]
          \/ status'[s] = "terminal" /\ th[t].s = s /\ th[t].at # "sweep"
  <2>1. status \in [Session -> Statuses]
    BY DEF TypeOK
  <2>2. CASE Monitor(t) \/ Expire(t) \/ CloseLocks(t) \/ (\E s \in Session : Sweep(t, s))
             \/ SweepLocks(t) \/ SweepEnds(t)
    BY <2>2 DEF Monitor, Expire, CloseLocks, Sweep, SweepLocks, SweepEnds, registry
  <2>3. CASE Enter(t)
    BY <2>1, <2>3 DEF Enter, At
  <2>4. CASE BodyEnds(t)
    BY <2>1, <2>4 DEF BodyEnds, At
  <2>. QED  BY <2>2, <2>3, <2>4
<1>7. th'[t].at \notin Opening \cup {"release", "mark", "forget"}
  BY <1>5 DEF Opening
<1>. QED  BY <1>1, <1>2, <1>3, <1>5, <1>6, <1>7, ResStays

\* Neither does the beginning of one.
LEMMA ResStarts ==
    ASSUME TypeOK, CallInv, ResInv, NEW t \in Thread, Starts(t) PROVE ResInv'
<1>1. Moves(t) /\ UNCHANGED <<registry, backend, profiles>>
  BY BeginMoves, StartsKeep DEF Starts
<1>2. UNCHANGED <<status, held, chrome, drivers, driver, lease>>
  BY <1>1 DEF registry, backend, profiles
<1>3. CASE BodyAccesses(t)
  <2>1. Goes(t, "expire") /\ th[t].at = "body"
    BY <1>3 DEF BodyAccesses, Goes, At
  <2>2. th'[t].at = "expire" /\ th'[t].s = th[t].s
    BY <2>1, GoesOn DEF Places
  <2>. QED  BY <1>1, <1>2, <2>1, <2>2, ResStays DEF Starting, Opening
<1>4. CASE SweepBegins(t)
  <2>1. th[t].at = "none" /\ th'[t].at = "sweep"
    BY <1>4, CallsTyped DEF SweepBegins, At, Calls
  <2>. QED  BY <1>1, <1>2, <2>1, ResStays DEF Starting, Opening
<1>5. ASSUME NEW s \in Session, CallBegins(t, s) \/ CloseBegins(t, s) PROVE ResInv'
  <2>1. status[s] # "absent" /\ \E place \in {"expire", "enter", "close"} : Begins(t, place, s)
    BY <1>5 DEF CallBegins, CloseBegins
  <2>2. th[t].at = "none" /\ th'[t].at \in {"expire", "enter", "close"} /\ th'[t].s = s
    BY <2>1, BeginsCall DEF Places
  <2>. QED  BY <1>1, <1>2, <2>1, <2>2, ResStays DEF Starting, Opening
<1>6. ASSUME NEW s \in Session, OpenBegins(t, s) PROVE ResInv'
  <2>1. /\ status[s] = "absent" /\ \A u \in Thread : th[u].s # s
        /\ Begins(t, "lease", s)
    BY <1>6 DEF OpenBegins
  <2>2. th[t].at = "none" /\ th'[t].at = "lease" /\ th'[t].s = s
    BY <2>1, BeginsCall DEF Places
  <2>3. s \notin held
    BY <2>1 DEF ResInv, SessionOk
  <2>4. \A u \in Thread \ {t} : th'[u] = th[u]
    BY <1>1 DEF Moves
  <2>5. ASSUME NEW u \in Thread PROVE Alone(u)' /\ Has(u)'
    <3>1. CASE u = t
      BY <1>2, <2>1, <2>2, <2>3, <2>4, <3>1 DEF Alone, Has
    <3>2. CASE u # t
      <4>1. Alone(u) /\ Has(u) /\ th[u].s # s
        BY <2>1 DEF ResInv
      <4>. QED  BY <1>2, <2>2, <2>4, <3>2, <4>1 DEF Alone, Has, Starting
    <3>. QED  BY <3>1, <3>2
  <2>6. ASSUME NEW r \in Session PROVE SessionOk(r)'
    <3>1. SessionOk(r) /\ (Uses(r)' <=> Uses(r))
      BY <1>2 DEF ResInv, Uses
    <3>2. ASSUME NEW u \in Thread, Builds(u, r) PROVE Builds(u, r)'
      BY <2>2, <2>4, <3>2 DEF Builds, Opening
    <3>. QED  BY <1>2, <3>1, <3>2 DEF SessionOk
  <2>. QED  BY <1>2, <2>5, <2>6 DEF ResInv
<1>. QED  BY <1>3, <1>4, <1>5, <1>6 DEF Starts

\* What sessions have stays in order.
LEMMA ResNext == TypeOK /\ CallInv /\ ResInv /\ [Next]_vars => ResInv'
<1>. SUFFICES ASSUME TypeOK, CallInv, ResInv, [Next]_vars PROVE ResInv'
  OBVIOUS
<1>1. ASSUME NEW t \in Thread, Steps(t) PROVE ResInv'
  BY <1>1, ResBuild, ResEnd, ResCalls DEF Steps
<1>2. ASSUME NEW t \in Thread, Starts(t) PROVE ResInv'
  BY <1>2, ResStarts
<1>3. CASE Elsewhere
  BY <1>3, ElsewhereKeeps DEF ResInv, Alone, Has, Starting, SessionOk, Uses, Builds
<1>. QED  BY <1>1, <1>2, <1>3, NextSplits

(* Browsers whose close failed.                                             *)

\* A stray is no browser of a session and counts for no driver; a session that is being
\* opened has none yet.
StrayInv ==
    /\ \A s \in astray : s \notin chrome \cup drivers
    /\ \A t \in Thread : th[t].at \in {"lease", "drive", "launch"} => th[t].s \notin astray

\* A step that makes no stray, launches nothing and opens nothing.
LEMMA StraysStay ==
    ASSUME StrayInv, NEW t \in Thread, Moves(t), UNCHANGED astray,
           chrome' \subseteq chrome, drivers' \subseteq drivers,
           th'[t].at \in {"lease", "drive", "launch"} =>
               th[t].at \in {"lease", "drive", "launch"} /\ th'[t].s = th[t].s
    PROVE  StrayInv'
BY DEF StrayInv, Moves

\* A stop may leave its own session's browser behind; nobody else opens that session.
LEMMA StrayStops ==
    ASSUME TypeOK, CallInv, ResInv, StrayInv, NEW t \in Thread, Unlaunch(t) \/ Stop(t)
    PROVE  StrayInv'
<1>1. Moves(t) /\ th[t].s \in Session /\ th[t].at \in {"unlaunch", "stop"}
  BY StepMoves DEF Steps, Unlaunch, Stop, At, CallInv, CallOk
<1>2. th'[t].at \in {"unlease", "release", "mark"}
  BY GoesOn DEF Unlaunch, Stop, Places
<1>3. CASE UNCHANGED <<chrome, astray, drivers>>
  BY <1>1, <1>2, <1>3, StraysStay
<1>4. CASE StopsBrowser(th[t].s)
  <2>1. \A u \in Thread \ {t} : th[u].s = th[t].s => ~Starting(u)
    BY <1>1, NobodyBuilds
  <2>2. ASSUME NEW u \in Thread, th'[u].at \in {"lease", "drive", "launch"}
        PROVE  th'[u].s \notin astray'
    <3>1. u # t /\ th'[u] = th[u]
      BY <1>1, <1>2, <2>2 DEF Moves
    <3>2. th[u].s # th[t].s
      BY <2>1, <2>2, <3>1 DEF Starting, Opening
    <3>. QED  BY <1>4, <2>2, <3>1, <3>2 DEF StrayInv, StopsBrowser
  <2>. QED  BY <1>4, <2>2 DEF StrayInv, StopsBrowser
<1>. QED  BY <1>3, <1>4 DEF Unlaunch, Stop

\* Strays stay apart from what sessions have.
LEMMA StrayNext == TypeOK /\ CallInv /\ ResInv /\ StrayInv /\ [Next]_vars => StrayInv'
<1>. SUFFICES ASSUME TypeOK, CallInv, ResInv, StrayInv, [Next]_vars PROVE StrayInv'
  OBVIOUS
<1>1. ASSUME NEW t \in Thread, Steps(t) PROVE StrayInv'
  <2>0. Moves(t)
    BY <1>1, StepMoves
  <2>1. CASE Unlaunch(t) \/ Stop(t)
    BY <2>1, StrayStops
  <2>2. CASE Lease(t)
    <3>1. UNCHANGED <<chrome, astray, drivers>> /\ th[t].at = "lease"
      BY <2>2 DEF Lease, At, backend
    <3>2. Goes(t, "drive") \/ Returns(t)
      BY <2>2 DEF Lease
    <3>3. th'[t].s = th[t].s \/ th'[t].at = "none"
      BY <3>2, GoesOn, ReturnsFrom DEF Places
    <3>. QED  BY <2>0, <3>1, <3>3, StraysStay
  <2>3. CASE StartDriver(t)
    <3>1. UNCHANGED <<chrome, astray>> /\ th[t].at = "drive" /\ th[t].s \notin astray
      BY <2>3 DEF StartDriver, At, StrayInv
    <3>2. th'[t].s = th[t].s /\ th'[t].at \in {"launch", "unlaunch"}
      BY <2>3, GoesOn DEF StartDriver, Places
    <3>3. drivers' \subseteq drivers \cup {th[t].s}
      BY <2>3 DEF StartDriver
    <3>. QED  BY <2>0, <3>1, <3>2, <3>3 DEF StrayInv, Moves
  <2>4. CASE Launch(t)
    <3>1. UNCHANGED <<drivers, astray>> /\ th[t].at = "launch" /\ th[t].s \notin astray
      BY <2>4 DEF Launch, At, StrayInv
    <3>2. th'[t].at \in {"page", "unlaunch"}
      BY <2>4, GoesOn DEF Launch, Launched, NotLaunched, Places
    <3>3. chrome' \subseteq chrome \cup {th[t].s}
      BY <2>4 DEF Launch, Launched, NotLaunched
    <3>. QED  BY <2>0, <3>1, <3>2, <3>3 DEF StrayInv, Moves
  <2>5. CASE FirstPage(t) \/ Register(t) \/ Unlease(t) \/ Release(t) \/ Mark(t) \/ Forget(t)
    <3>1. UNCHANGED <<chrome, astray, drivers>>
      BY <2>5 DEF FirstPage, Register, Unlease, Release, Mark, Forget, backend
    <3>2. th[t].at = "mark" => th[t].then \in {"close", "access", "sweep", "unregister"}
      BY CallsTyped DEF CallInv, CallOk, Calls
    <3>3. \/ Returns(t)
          \/ \E place \in {"register", "unlaunch", "monitor", "mark", "sweep", "forget"} :
                Goes(t, place)
      BY <2>5, <3>2 DEF FirstPage, Register, Unlease, Release, Mark, Forget, At
    <3>4. th'[t].at \notin {"lease", "drive", "launch"}
      BY <3>3, GoesOn, ReturnsFrom DEF Places
    <3>. QED  BY <2>0, <3>1, <3>4, StraysStay
  <2>6. CASE \/ Monitor(t) \/ Expire(t) \/ Enter(t) \/ BodyEnds(t) \/ CloseLocks(t)
             \/ SweepLocks(t) \/ SweepEnds(t)
    <3>1. UNCHANGED <<chrome, astray, drivers>>
      BY <2>6 DEF Monitor, Expire, Enter, BodyEnds, CloseLocks, SweepLocks, SweepEnds, backend
    <3>2. \/ Returns(t)
          \/ \E place \in {"enter", "body", "sweep"} : Goes(t, place)
          \/ \E for \in {"close", "access", "sweep", "unregister"} :
                th' = [th EXCEPT ![t].at = "stop", ![t].then = for]
      BY <2>6 DEF Monitor, Expire, Enter, BodyEnds, CloseLocks, SweepLocks, SweepEnds
    <3>3. th'[t].at \notin {"lease", "drive", "launch"}
      BY <3>2, GoesOn, GoesToStop, ReturnsFrom DEF Places
    <3>. QED  BY <2>0, <3>1, <3>3, StraysStay
  <2>7. ASSUME NEW s \in Session, Sweep(t, s) PROVE StrayInv'
    <3>1. UNCHANGED <<chrome, astray, drivers>>
      BY <2>7 DEF Sweep, backend
    <3>2. th'[t].at \in {"sweep", "sweeplock"}
      BY <2>7, CallsTyped DEF Sweep, At, Calls
    <3>. QED  BY <2>0, <3>1, <3>2, StraysStay
  <2>. QED  BY <1>1, <2>1, <2>2, <2>3, <2>4, <2>5, <2>6, <2>7 DEF Steps
<1>2. ASSUME NEW t \in Thread, Starts(t) PROVE StrayInv'
  <2>1. Moves(t) /\ UNCHANGED <<chrome, astray, drivers>>
    BY <1>2, BeginMoves, StartsKeep DEF Starts, backend
  <2>2. CASE BodyAccesses(t) \/ SweepBegins(t)
    <3>1. th'[t].at \in {"expire", "sweep"}
      BY <2>2, CallsTyped DEF BodyAccesses, SweepBegins, Calls
    <3>. QED  BY <2>1, <3>1, StraysStay
  <2>3. ASSUME NEW s \in Session, CallBegins(t, s) \/ CloseBegins(t, s) PROVE StrayInv'
    <3>1. \E place \in {"expire", "enter", "close"} : Begins(t, place, s)
      BY <2>3 DEF CallBegins, CloseBegins
    <3>2. th'[t].at \in {"expire", "enter", "close"}
      BY <3>1, BeginsCall DEF Places
    <3>. QED  BY <2>1, <3>2, StraysStay
  <2>4. ASSUME NEW s \in Session, OpenBegins(t, s) PROVE StrayInv'
    <3>1. s \notin astray /\ Begins(t, "lease", s)
      BY <2>4 DEF OpenBegins
    <3>2. th'[t].at = "lease" /\ th'[t].s = s
      BY <3>1, BeginsCall DEF Places
    <3>. QED  BY <2>1, <3>1, <3>2 DEF StrayInv, Moves
  <2>. QED  BY <1>2, <2>2, <2>3, <2>4 DEF Starts
<1>3. CASE Elsewhere
  <2>1. UNCHANGED <<chrome, drivers, th>>
    BY <1>3, ElsewhereKeeps
  <2>2. astray' \subseteq astray
    BY <1>3 DEF Elsewhere, Dies, StrayEnds, GoesIdle, CreateBegins, CreateEnds, Remove, backend, vars
  <2>. QED  BY <2>1, <2>2 DEF StrayInv
<1>. QED  BY <1>1, <1>2, <1>3, NextSplits

(* The theorems.                                                            *)

\* The inductive invariant of the registry.
Inv == TypeOK /\ CallInv /\ LockInv /\ ResInv /\ StrayInv

LEMMA InvHolds == Spec => []Inv
<1>1. Init => Inv
  <2>1. Init => LockInv
    BY DEF Init, NoCall, LockInv, Inside
  <2>2. Init => StrayInv
    BY DEF Init, NoCall, StrayInv
  <2>. QED  BY <2>1, <2>2, TypeInit, ResInit DEF Inv
<1>2. Inv /\ [Next]_vars => Inv'
  BY TypeNext, LockNext, ResNext, StrayNext DEF Inv
<1>. QED  BY <1>1, <1>2, PTL DEF Spec

\* stateful_session.py, _locked: what TypeOK says of the registry, the backends, the
\* profiles and the calls holds throughout.
THEOREM TypeCorrect == Spec => []TypeOK
<1>. QED  BY InvHolds, PTL DEF Inv

\* _locked, lease_authentication_profile and _close_record: two browsers are on one
\* profile only when a stop could not close one of them, no two threads are inside one
\* session, and what an ended session held it has given back, however many sessions,
\* threads and profiles there are.
THEOREM SessionsAreApart == Spec => []SessionsApart
<1>1. Inv => BrowsersApart
  <2>. SUFFICES ASSUME Inv PROVE BrowsersApart
    OBVIOUS
  <2>1. \A s \in chrome : s \in Session /\ s \in drivers /\ lease[ProfileOf[s]] = s
    BY DEF Inv, TypeOK, ResInv, SessionOk
  <2>. QED  BY <2>1 DEF Inv, ResInv, StrayInv, BrowsersApart
<1>2. Inv => CommandsApart
  <2>. SUFFICES ASSUME Inv, NEW t \in Thread, NEW u \in Thread, t # u, th[t].s = th[u].s,
                       th[t].at \in {"body", "release"},
                       th[u].at \in {"body", "stop", "release", "mark"},
                       "unregister" \notin {th[t].then, th[u].then}
                PROVE  FALSE
    BY DEF CommandsApart
  <2>1. Inside(t) /\ Inside(u)
    BY DEF Inside
  <2>. QED  BY <2>1 DEF Inv, LockInv
<1>3. Inv => EndedHoldsNothing
  <2>. SUFFICES ASSUME Inv, \A t \in Thread : At(t, "none"), NEW s \in Session,
                       status[s] \in Ended \cup {"absent"}
                PROVE  s \notin chrome \cup drivers \cup held /\ \A p \in Profile : lease[p] # s
    BY DEF EndedHoldsNothing
  <2>1. SessionOk(s) /\ \A t \in Thread : ~Builds(t, s)
    BY DEF Inv, ResInv, At, Builds, Opening
  <2>2. s \notin held /\ ~Uses(s)
    BY <2>1 DEF SessionOk, Ended
  <2>. QED  BY <2>1, <2>2 DEF SessionOk, Uses
<1>. QED  BY InvHolds, <1>1, <1>2, <1>3, PTL DEF SessionsApart

\* _expire_if_idle and cleanup_expired_sessions: whoever goes on to end a session for
\* its idleness finds it idle under the lock, and no command of another thread in it.
THEOREM ExpiryIsOfIdle == Spec => ExpiresIdle
<1>. DEFINE Ends(t) == th'[t].at = "stop" /\ ~At(t, "stop") /\ th'[t].then \in {"access", "sweep"}
            Rightly(t) == /\ th[t].s \in idle
                          /\ \A u \in Thread \ {t} : th[u].s = th[t].s => ~At(u, "body")
<1>1. Inv /\ [Next]_vars => [\A t \in Thread : Ends(t) => Rightly(t)]_vars
  <2>. SUFFICES ASSUME Inv, [Next]_vars, NEW t \in Thread, Ends(t) PROVE Rightly(t)
    OBVIOUS
  <2>1. Steps(t) \/ Starts(t)
    <3>1. ASSUME NEW u \in Thread \ {t}, Steps(u) \/ Starts(u) PROVE FALSE
      <4>1. Moves(u)
        BY <3>1, StepMoves, BeginMoves DEF Inv, Starts
      <4>. QED  BY <4>1 DEF Moves, At
    <3>2. ~Elsewhere
      BY ElsewhereKeeps DEF At
    <3>. QED  BY <3>1, <3>2, NextSplits
  <2>2. Expire(t) \/ SweepLocks(t)
    <3>1. ASSUME NEW place \in Places \ {"stop"}, Goes(t, place) PROVE FALSE
      BY <3>1, GoesOn DEF Inv
    <3>2. ~Returns(t)
      BY ReturnsFrom DEF Inv
    <3>3. ~Starts(t)
      <4>1. ~BodyAccesses(t) /\ ~SweepBegins(t)
        BY CallsTyped DEF BodyAccesses, SweepBegins, Inv, Calls
      <4>2. ASSUME NEW s \in Session, NEW place \in {"lease", "expire", "enter", "close"},
                   Begins(t, place, s)
            PROVE  FALSE
        BY <4>2, BeginsCall DEF Inv, Places
      <4>. QED  BY <4>1, <4>2 DEF Starts, OpenBegins, CallBegins, CloseBegins
    <3>4. ~(Lease(t) \/ StartDriver(t) \/ Launch(t) \/ FirstPage(t) \/ Register(t))
      BY <3>1, <3>2 DEF Lease, StartDriver, Launch, Launched, NotLaunched, FirstPage, Register,
         Places
    <3>5. ~(Unlaunch(t) \/ Unlease(t) \/ Stop(t) \/ Release(t) \/ Forget(t) \/ BodyEnds(t)
            \/ SweepEnds(t) \/ Enter(t))
      BY <3>1, <3>2 DEF Unlaunch, Unlease, Stop, Release, Forget, BodyEnds, SweepEnds, Enter, Places
    <3>6. ~Mark(t)
      <4>1. Mark(t) => th[t].then \in {"close", "access", "sweep", "unregister"}
        BY CallsTyped DEF Mark, At, Inv, CallInv, CallOk, Calls
      <4>. QED  BY <3>1, <3>2, <4>1 DEF Mark, Places
    <3>7. ~Monitor(t) /\ ~CloseLocks(t)
      <4>1. ASSUME NEW for \in {"unregister", "close"},
                   th' = [th EXCEPT ![t].at = "stop", ![t].then = for]
            PROVE  FALSE
        BY <4>1, GoesToStop DEF Inv
      <4>. QED  BY <3>2, <4>1 DEF Monitor, CloseLocks
    <3>8. \A s \in Session : ~Sweep(t, s)
      BY CallsTyped DEF Sweep, At, Inv, Calls
    <3>. QED  BY <2>1, <3>3, <3>4, <3>5, <3>6, <3>7, <3>8 DEF Steps
  <2>3. Free(t, th[t].s) /\ StillIdle(th[t].s)
    <3>1. ~Returns(t)
      BY ReturnsFrom DEF Inv
    <3>2. ~Goes(t, "enter") /\ ~Goes(t, "sweep")
      BY GoesOn DEF Inv, Places
    <3>. QED  BY <2>2, <3>1, <3>2 DEF Expire, SweepLocks
  <2>4. ASSUME NEW u \in Thread \ {t}, th[u].s = th[t].s, At(u, "body") PROVE FALSE
    <3>1. lock[th[u].s] = u
      BY <2>4 DEF Inv, LockInv, Inside, At
    <3>. QED  BY <2>3, <2>4, <3>1, NamesAssumption DEF Free
  <2>. QED  BY <2>3, <2>4 DEF StillIdle
<1>. QED  BY InvHolds, <1>1, PTL DEF Spec, ExpiresIdle
=============================================================================
