------------------------ MODULE ProfileRefinementProofs ------------------------
(*****************************************************************************)
(* ProfileLifecycle implements ProfileSpec, for every set of profiles, number *)
(* of calls, mixture of launch modes, limit and number of retries.            *)
(*****************************************************************************)
EXTENDS ProfileRefinement, ProfileLifecycleProofs

AbstractStep == [Abstract!Next]_(Abstract!vars)

-----------------------------------------------------------------------------
(* What a start finds                                                        *)

(* While a start looks for processes its profile is not running, nor in the    *)
(* middle of anything: the lock keeps every other start and stop away, and the *)
(* monitors of earlier runs and stale status() calls write only these two.    *)
CheckInv ==
    \A t \in Requests :
        req[t].pc = "preflight" => records[req[t].prof].status \in {"stopped", "error"}

LEMMA CheckNext == LockSafe /\ CheckInv /\ [Next]_vars => CheckInv'
<1> SUFFICES ASSUME LockSafe, CheckInv, [Next]_vars PROVE CheckInv'
  OBVIOUS
<1> USE NullAssumption
    DEF LockSafe, LockInv, LockPcs, StartPcs, CheckInv, OnlyRequest, Stays, OnlyStatus, StatusSame
<1>0. \A t \in Requests : /\ req[t].pc # "idle" => req[t].prof \in Profiles
                          /\ req'[t].pc # "idle" => req'[t].prof \in Profiles
  BY TypeNext DEF TypeInv, GoodRequest
<1>1. ASSUME NEW t \in Requests, KCall(t) \/ KAnswer(t) \/ KReturn(t) PROVE CheckInv'
  BY <1>0, <1>1 DEF KCall, KAnswer, KReturn
<1>2. ASSUME NEW t \in Requests, NEW s \in Statuses, KEnter(t, s) PROVE CheckInv'
  <2>1. req[t].prof \in Profiles /\ up
    BY <1>0, <1>2 DEF KEnter, DownInv
  <2>2. s \in {"stopped", "error"}
    BY <1>2, <2>1 DEF KEnter, TransientHasOwner, Statuses
  <2>3. \A u \in Requests : u # t /\ req[u].pc = "preflight" => req[u].prof # req[t].prof
    BY <1>2 DEF KEnter
  <2> QED
    BY <1>0, <1>2, <2>2, <2>3 DEF KEnter
<1>3. ASSUME NEW t \in Requests, NEW s \in Statuses, KFinish(t, s) \/ KAttempt(t, s)
      PROVE  CheckInv'
  BY <1>0, <1>3 DEF KFinish, KAttempt
<1>4. ASSUME NEW t \in Requests, KSpawn(t) \/ KMove(t) PROVE CheckInv'
  BY <1>0, <1>4 DEF KSpawn, KMove
<1>5. ASSUME NEW t \in Requests, KStopRuntime(t) PROVE CheckInv'
  BY <1>0, <1>5 DEF KStopRuntime
<1>6. ASSUME NEW t \in Requests, NEW m \in Monitors, KRun(t, m) PROVE CheckInv'
  BY <1>0, <1>6 DEF KRun
<1>7. ASSUME NEW t \in Requests, KStatusKeeps(t) \/ KStatusDrops(t) \/ KStatusMarks(t)
      PROVE  CheckInv'
  BY <1>0, <1>7 DEF KStatusKeeps, KStatusDrops, KStatusMarks
<1>8. ASSUME NEW m \in Monitors, MonitorKind(m) PROVE CheckInv'
  <2>1. mon[m].prof \in Profiles /\ req' = req
    BY <1>8 DEF MonitorKind, KMonitorLives, KMonitorEnds, KMonitorMarks, TypeInv, GoodMonitor
  <2> QED
    BY <1>0, <1>8, <2>1 DEF MonitorKind, KMonitorLives, KMonitorEnds, KMonitorMarks
<1>9. CASE KExit \/ UNCHANGED vars
  BY <1>9 DEF KExit, vars
<1>10. CASE Crash \/ Load
  BY <1>10 DEF Crash, Load, DownInv, Idle
<1> QED
  BY <1>1, <1>2, <1>3, <1>4, <1>5, <1>6, <1>7, <1>8, <1>9, <1>10, Kinds DEF RequestKind

Mapped == NativeSafe /\ RunningIsWatched /\ CheckInv

LEMMA MappedCorrect == Spec => []Mapped
<1>1. Init => CheckInv
  BY DEF Init, Idle, CheckInv
<1>2. NativeSafe /\ CheckInv /\ [Next]_vars => CheckInv'
  BY CheckNext DEF NativeSafe
<1> QED
  BY <1>1, <1>2, SafeCorrect, PTL DEF Spec, Mapped

-----------------------------------------------------------------------------
(* How changes of the detailed state look through the mapping                *)

(* Nothing of the profile q but its browser changes for the client.          *)
SameShown(q) == records'[q].status = records[q].status /\ Work(q)' = Work(q)

LEMMA Stutters ==
    ASSUME up' = up, \A q \in Profiles : SameShown(q), chrome' = chrome
    PROVE  AbstractStep
BY DEF AbstractStep, Abstract!vars, SameShown

LEMMA Turns ==
    ASSUME NEW p \in Profiles, up, up' = up, \A q \in Profiles : q # p => SameShown(q),
           NEW w, Work(p)' = w, NEW s, records'[p].status = s
    PROVE  Abstract!Turn(p, Work(p), w, s)
BY DEF Abstract!Turn, SameShown

LEMMA BrowserSet ==
    ASSUME TypeInv, TypeInv', NEW p \in Profiles,
           \A q \in Profiles : q # p => chrome'[q] = chrome[q]
    PROVE  chrome' = [chrome EXCEPT ![p] = chrome'[p]] /\ chrome'[p] \in BOOLEAN
BY DEF TypeInv, TypeOK

LEMMA SameCardinality == \A S : Abstract!Cardinality(S) = Cardinality(S)
BY DEF Abstract!Cardinality, Cardinality

LEMMA SettledStatus ==
    ASSUME NEW p \in Profiles, NEW s, s = "error" \/ (s = "stopped" /\ ~chrome[p])
    PROVE  s \in Abstract!Settled(p)
BY DEF Abstract!Settled

(* A step of a request changes the work of its own profile at most.          *)
LEMMA OthersWork ==
    ASSUME LockSafe, NEW t \in Requests, OnlyRequest(t),
           \A q \in Profiles : q # req[t].prof => lifecycleLock'[q] = lifecycleLock[q],
           NEW q \in Profiles, q # req[t].prof
    PROVE  Work(q)' = Work(q)
<1>1. lifecycleLock[q] # t
  BY DEF LockSafe, LockInv
<1>2. lifecycleLock[q] \in Requests \cup {NoRequest}
  BY DEF LockSafe, TypeInv, TypeOK
<1> QED
  BY <1>1, <1>2 DEF Work, OnlyRequest

(* A request that holds no lock is not the work of any profile.               *)
LEMMA NobodysWork ==
    ASSUME LockSafe, NEW t \in Requests, req[t].pc \notin LockPcs, OnlyRequest(t),
           \A q \in Profiles : lifecycleLock'[q] = lifecycleLock[q],
           NEW q \in Profiles
    PROVE  Work(q)' = Work(q)
<1>1. lifecycleLock[q] # t
  BY DEF LockSafe, LockInv
<1>2. lifecycleLock[q] \in Requests \cup {NoRequest}
  BY DEF LockSafe, TypeInv, TypeOK
<1> QED
  BY <1>1, <1>2 DEF Work, OnlyRequest

LEMMA OwnersWork ==
    ASSUME LockSafe, NEW t \in Requests, req[t].pc \in LockPcs
    PROVE  /\ lifecycleLock[req[t].prof] = t
           /\ Work(req[t].prof) =
                 IF req[t].pc = "preflight" THEN "check"
                 ELSE IF req[t].pc = "launching" /\ req[t].attempt = 0 THEN "open"
                 ELSE IF req[t].op = "start" THEN "start" ELSE "stop"
BY NullAssumption DEF LockSafe, LockInv, Work

(* The work of p after a step in which t keeps its lock.                      *)
LEMMA WorkGoesOn ==
    ASSUME NEW t \in Requests, NEW p \in Profiles, lifecycleLock'[p] = t
    PROVE  Work(p)' = IF req'[t].pc = "preflight" THEN "check"
                      ELSE IF req'[t].pc = "launching" /\ req'[t].attempt = 0 THEN "open"
                      ELSE IF req'[t].op = "start" THEN "start" ELSE "stop"
BY NullAssumption DEF Work

LEMMA Working ==
    ASSUME LockSafe, NEW t \in Requests, req[t].pc # "idle"
    PROVE  up /\ req[t].prof \in Profiles
BY DEF LockSafe, DownInv, TypeInv, GoodRequest

(* Without work and without a runtime a profile is stopped or an orphan: a     *)
(* running native profile has its runtime, a running Playwright profile may    *)
(* have lost it to a status() call.                                           *)
LEMMA StoppedOrOrphaned ==
    ASSUME NativeSafe, RunningIsWatched, NEW p \in Profiles, up, lifecycleLock[p] = NoRequest,
           runtime[p] = NoMonitor, records[p].status # "stopped"
    PROVE  Abstract!Orphaned(p)
<1>1. records[p].status \in Statuses
  BY DEF NativeSafe, LockSafe, TypeInv, TypeOK, Record
<1>2. records[p].status \notin {"starting", "stopping"}
  BY NullAssumption DEF NativeSafe, LockSafe, TransientHasOwner
<1>3. records[p].status = "running" => LaunchMode[p] # "native"
  BY DEF RunningIsWatched, NativeSafe, LockSafe, TypeInv, GoodRequest
<1> QED
  BY <1>1, <1>2, <1>3 DEF Statuses, Abstract!Orphaned

(* What RoomFor counts is what the client sees busy.                         *)
LEMMA RoomShown ==
    ASSUME NEW p \in Profiles, records[p].status \notin {"starting", "running"}, RoomFor(p)
    PROVE  Cardinality(Abstract!Busy) < SoftLimit
<1>1. Abstract!Busy = StartingOrRunning(records) \ {p}
  BY DEF Abstract!Busy, StartingOrRunning
<1> QED
  BY <1>1 DEF RoomFor

-----------------------------------------------------------------------------
(* Every kind of step                                                        *)

LEMMA QuietSteps ==
    ASSUME NativeSafe, NEW t \in Requests,
           KCall(t) \/ KAnswer(t) \/ KReturn(t) \/ KStatusKeeps(t)
    PROVE  AbstractStep
<1>1. ASSUME NEW q \in Profiles PROVE Work(q)' = Work(q)
  <2>1. CASE KAnswer(t)
    <3>1. lifecycleLock' = lifecycleLock /\ OnlyRequest(t)
      BY <2>1 DEF KAnswer
    <3>2. req'[t].pc = req[t].pc /\ req'[t].op = req[t].op /\ req'[t].attempt = req[t].attempt
      BY <2>1 DEF KAnswer, Stays
    <3>3. lifecycleLock[q] \in Requests \cup {NoRequest}
      BY DEF NativeSafe, LockSafe, TypeInv, TypeOK
    <3> QED
      BY <3>1, <3>2, <3>3 DEF Work, OnlyRequest
  <2>2. CASE KCall(t) \/ KReturn(t) \/ KStatusKeeps(t)
    <3>1. req[t].pc \notin LockPcs /\ OnlyRequest(t)
      BY <2>2 DEF KCall, KReturn, KStatusKeeps, LockPcs, StartPcs
    <3>2. \A r \in Profiles : lifecycleLock'[r] = lifecycleLock[r]
      BY <2>2 DEF KCall, KReturn, KStatusKeeps
    <3> QED
      BY <3>1, <3>2, NobodysWork DEF NativeSafe
  <2> QED
    BY <2>1, <2>2
<1>2. up' = up /\ chrome' = chrome /\ \A q \in Profiles : records'[q].status = records[q].status
  BY DEF KCall, KAnswer, KReturn, KStatusKeeps, StatusSame
<1> QED
  BY <1>1, <1>2, Stutters DEF SameShown

LEMMA EnterStep ==
    ASSUME NativeSafe, RunningIsWatched, NEW t \in Requests, NEW s \in Statuses,
           NEW p \in Profiles, p = req[t].prof, KEnter(t, s)
    PROVE  AbstractStep
<1> USE DEF NativeSafe
<1>1. up
  BY Working DEF KEnter
<1>2. /\ up' = up /\ chrome' = chrome
      /\ \A q \in Profiles : q # p => SameShown(q)
  BY OthersWork DEF KEnter, OnlyLock, OnlyStatus, SameShown
<1>3. Work(p)' = "check" /\ records'[p].status = s
  BY NullAssumption DEF KEnter, OnlyLock, OnlyStatus, Work
<1>4. Abstract!Turn(p, Work(p), "check", s)
  BY <1>1, <1>2, <1>3, Turns
<1>5. CASE req[t].pc = "queued" /\ lifecycleLock[p] = NoRequest
  <2>1. Work(p) = "none"
    BY <1>5 DEF Work
  <2>2. s \in (IF records[p].status = "running" THEN {} ELSE {records[p].status})
              \cup (IF Abstract!Orphaned(p) THEN Abstract!Settled(p) ELSE {})
    <3>1. CASE s = records[p].status /\ s # "running"
      BY <3>1
    <3>2. CASE /\ runtime[p] = NoMonitor /\ records[p].status # "stopped"
               /\ s = "error" \/ (s = "stopped" /\ ~chrome[p])
      <4>1. s \in Abstract!Settled(p) /\ Abstract!Orphaned(p)
        BY <1>1, <1>5, <3>2, SettledStatus, StoppedOrOrphaned
      <4> QED
        BY <4>1
    <3> QED
      BY <1>5, <3>1, <3>2 DEF KEnter
  <2>3. Abstract!BeginStart(p)
    BY <1>2, <1>4, <2>1, <2>2 DEF Abstract!BeginStart
  <2> QED
    BY <2>3 DEF AbstractStep, Abstract!Next, Abstract!ProfileStep
<1>6. CASE req[t].pc \in {"shutdown", "killed"} /\ req[t].op # "start"
  <2>1. Work(p) = "stop"
    BY <1>6, OwnersWork DEF LockPcs, StartPcs
  <2>2. s \in Abstract!Settled(p)
    BY <1>6, SettledStatus DEF KEnter
  <2>3. Abstract!EndStop(p)
    BY <1>2, <1>4, <2>1, <2>2 DEF Abstract!EndStop
  <2> QED
    BY <2>3 DEF AbstractStep, Abstract!Next, Abstract!ProfileStep
<1> QED
  BY <1>5, <1>6 DEF KEnter

LEMMA FinishStep ==
    ASSUME NativeSafe, RunningIsWatched, NEW t \in Requests, NEW s \in Statuses,
           NEW p \in Profiles, p = req[t].prof, KFinish(t, s)
    PROVE  AbstractStep
<1> USE DEF NativeSafe
<1>1. up
  BY Working DEF KFinish
<1>2. /\ up' = up /\ chrome' = chrome
      /\ \A q \in Profiles : q # p => SameShown(q)
  BY OthersWork DEF KFinish, OnlyLock, OnlyStatus, SameShown
<1>3. Work(p)' = "none" /\ records'[p].status = s
  BY DEF KFinish, OnlyLock, OnlyStatus, Work
<1>4. Abstract!Turn(p, Work(p), "none", s)
  BY <1>1, <1>2, <1>3, Turns
<1>5. CASE req[t].pc = "queued"
  <2>1. /\ lifecycleLock[p] = NoRequest /\ runtime[p] = NoMonitor
        /\ records[p].status # "stopped"
    BY <1>5 DEF KFinish
  <2>2. Work(p) = "none" /\ Abstract!Orphaned(p)
    BY <1>1, <2>1, StoppedOrOrphaned DEF Work
  <2>3. s \in Abstract!Settled(p)
    BY <1>5, SettledStatus DEF KFinish
  <2>4. Abstract!StopOrphan(p)
    BY <1>2, <1>4, <2>2, <2>3 DEF Abstract!StopOrphan
  <2> QED
    BY <2>4 DEF AbstractStep, Abstract!Next, Abstract!ProfileStep
<1>6. CASE req[t].pc = "preflight"
  <2>1. Work(p) = "check"
    BY <1>6, OwnersWork DEF LockPcs
  <2>2. req[t].probe = "absent" => ~chrome[p]
    BY <1>6 DEF LockSafe, LaunchInv
  <2>3. s = records[p].status \/ s \in Abstract!Settled(p)
    BY <2>2, SettledStatus DEF KFinish
  <2>4. Abstract!RefuseStart(p)
    BY <1>2, <1>4, <2>1, <2>3 DEF Abstract!RefuseStart
  <2> QED
    BY <2>4 DEF AbstractStep, Abstract!Next, Abstract!ProfileStep
<1>7. CASE req[t].pc = "retrywait" /\ req[t].op = "start" /\ s = "error"
  <2>1. Work(p) = "start"
    BY <1>7, OwnersWork DEF LockPcs, StartPcs
  <2>2. Abstract!EndStart(p)
    BY <1>2, <1>4, <1>7, <2>1 DEF Abstract!EndStart
  <2> QED
    BY <2>2 DEF AbstractStep, Abstract!Next, Abstract!ProfileStep
<1>8. CASE req[t].pc \in {"shutdown", "killed"} /\ req[t].op # "start"
  <2>1. Work(p) = "stop"
    BY <1>8, OwnersWork DEF LockPcs, StartPcs
  <2>2. s \in Abstract!Settled(p)
    BY <1>8, SettledStatus DEF KFinish
  <2>3. Abstract!EndStop(p)
    BY <1>2, <1>4, <2>1, <2>2 DEF Abstract!EndStop
  <2> QED
    BY <2>3 DEF AbstractStep, Abstract!Next, Abstract!ProfileStep
<1> QED
  BY <1>5, <1>6, <1>7, <1>8 DEF KFinish

(* A turn of the retry loop begins: the first, where no browser lives and      *)
(* there is room, or a retry.                                                 *)
LEMMA AttemptStep ==
    ASSUME Mapped, TypeInv', NEW t \in Requests, NEW s \in Statuses,
           NEW p \in Profiles, p = req[t].prof, KAttempt(t, s)
    PROVE  AbstractStep
<1> USE DEF Mapped, NativeSafe
<1>1. up
  BY Working DEF KAttempt
<1>2. /\ up' = up /\ lifecycleLock' = lifecycleLock
      /\ \A q \in Profiles : q # p => SameShown(q) /\ chrome'[q] = chrome[q]
  BY OthersWork DEF KAttempt, OnlyStatus, SameShown
<1>3. lifecycleLock[p] = t /\ req'[t].op = "start" /\ req'[t].pc # "preflight"
      /\ records'[p].status = s
  BY OwnersWork DEF KAttempt, LockPcs, StartPcs, Stays, OnlyStatus, LockSafe
<1>4. Work(p)' = IF req'[t].pc = "launching" /\ req'[t].attempt = 0 THEN "open" ELSE "start"
  BY <1>2, <1>3, WorkGoesOn
<1>5. chrome' = [chrome EXCEPT ![p] = chrome'[p]] /\ chrome'[p] \in BOOLEAN
  BY <1>2, BrowserSet DEF LockSafe
<1>6. CASE req[t].pc = "preflight"
  <2>1. req[t].probe = "absent" /\ s = "starting" /\ RoomFor(p) /\ req'[t].attempt = 0
    BY <1>6 DEF KAttempt
  <2>2. Work(p) = "check" /\ ~chrome[p]
    BY <1>6, <2>1, OwnersWork DEF LockPcs, LockSafe, LaunchInv
  <2>3. Cardinality(Abstract!Busy) < SoftLimit
    BY <1>6, <2>1, RoomShown DEF CheckInv
  <2>4. CASE req'[t].pc = "launching"
    <3>1. p \in {q \in Profiles : LaunchMode[q] # "native"} /\ chrome' = chrome
      BY <2>4 DEF KAttempt
    <3>2. Abstract!Turn(p, "check", "open", "starting")
      BY <1>1, <1>2, <1>3, <1>4, <2>1, <2>2, <2>4, Turns
    <3>3. Abstract!Launch(p)
      BY <2>2, <2>3, <3>1, <3>2, SameCardinality DEF Abstract!Launch
    <3> QED
      BY <3>3 DEF AbstractStep, Abstract!Next, Abstract!ProfileStep
  <2>5. CASE req'[t].pc # "launching"
    <3>1. Abstract!Turn(p, "check", "start", "starting")
      BY <1>1, <1>2, <1>3, <1>4, <2>1, <2>2, <2>5, Turns
    <3>2. Abstract!Launch(p)
      BY <1>5, <2>2, <2>3, <3>1, SameCardinality DEF Abstract!Launch
    <3> QED
      BY <3>2 DEF AbstractStep, Abstract!Next, Abstract!ProfileStep
  <2> QED
    BY <2>4, <2>5
<1>7. CASE req[t].pc = "retrywait"
  <2>1. s = records[p].status /\ req'[t].attempt # 0
    BY <1>7, RetryCounts DEF KAttempt, LockSafe
  <2>2. Work(p) = "start" /\ Work(p)' = "start"
    BY <1>4, <1>7, <2>1, OwnersWork DEF LockPcs, StartPcs, KAttempt
  <2>3. CASE chrome' = chrome
    BY <1>2, <1>3, <2>1, <2>2, <2>3, Stutters DEF SameShown
  <2>4. CASE chrome'[p]
    <3>1. Abstract!Turn(p, "start", "start", records[p].status)
      <4>1. PICK c : c = records[p].status
        OBVIOUS
      <4>2. Abstract!Turn(p, Work(p), "start", c)
        BY <1>1, <1>2, <1>3, <2>1, <2>2, <4>1, Turns
      <4> QED
        BY <2>2, <4>1, <4>2 DEF Abstract!Turn
    <3>2. Abstract!Relaunch(p)
      BY <1>5, <2>4, <3>1 DEF Abstract!Relaunch, Abstract!Turn
    <3> QED
      BY <3>2 DEF AbstractStep, Abstract!Next, Abstract!ProfileStep
  <2> QED
    BY <2>3, <2>4 DEF KAttempt
<1> QED
  BY <1>6, <1>7 DEF KAttempt

(* The browser p has changes as chrome' says, while t goes on with a start.   *)
LEMMA Opens ==
    ASSUME LockSafe, TypeInv', NEW t \in Requests, NEW p \in Profiles, p = req[t].prof,
           up, up' = up, req[t].op = "start", req[t].pc = "launching", req[t].attempt = 0,
           Work(p)' = "start", \A q \in Profiles : records'[q].status = records[q].status,
           \A q \in Profiles : q # p => SameShown(q) /\ chrome'[q] = chrome[q]
    PROVE  AbstractStep
<1>1. ~chrome[p] /\ Work(p) = "open"
  BY OwnersWork DEF LockSafe, LaunchInv, LockPcs, StartPcs
<1>2. chrome' = [chrome EXCEPT ![p] = chrome'[p]] /\ chrome'[p] \in BOOLEAN
  BY BrowserSet DEF LockSafe
<1>3. Abstract!Turn(p, "open", "start", records[p].status)
  <2>1. PICK c : c = records[p].status
    OBVIOUS
  <2>2. Abstract!Turn(p, Work(p), "start", c)
    BY <2>1, Turns
  <2> QED
    BY <1>1, <2>1, <2>2 DEF Abstract!Turn
<1>4. Abstract!Open(p)
  BY <1>1, <1>2, <1>3 DEF Abstract!Open, Abstract!Turn
<1> QED
  BY <1>4 DEF AbstractStep, Abstract!Next, Abstract!ProfileStep

LEMMA SpawnStep ==
    ASSUME NativeSafe, TypeInv', NEW t \in Requests, NEW p \in Profiles, p = req[t].prof,
           KSpawn(t)
    PROVE  AbstractStep
<1> USE DEF NativeSafe
<1>1. up
  BY Working DEF KSpawn
<1>2. /\ up' = up /\ lifecycleLock' = lifecycleLock
      /\ \A q \in Profiles : q # p => SameShown(q) /\ chrome'[q] = chrome[q]
      /\ \A q \in Profiles : records'[q].status = records[q].status
  BY OthersWork DEF KSpawn, StatusSame, SameShown
<1>3. Work(p)' = "start"
  <2>1. lifecycleLock[p] = t
    BY OwnersWork DEF KSpawn, LockPcs, StartPcs
  <2> QED
    BY <1>2, <2>1, WorkGoesOn DEF KSpawn, Stays
<1>4. CASE req[t].attempt = 0
  BY <1>1, <1>2, <1>3, <1>4, Opens DEF KSpawn
<1>5. CASE req[t].attempt # 0
  <2>1. Work(p) = "start"
    BY <1>5, OwnersWork DEF KSpawn, LockPcs, StartPcs
  <2>2. Abstract!Turn(p, "start", "start", records[p].status)
    <3>1. PICK c : c = records[p].status
      OBVIOUS
    <3>2. Abstract!Turn(p, Work(p), "start", c)
      BY <1>1, <1>2, <1>3, <3>1, Turns
    <3> QED
      BY <2>1, <3>1, <3>2 DEF Abstract!Turn
  <2>3. chrome' = [chrome EXCEPT ![p] = TRUE]
    BY <1>2, BrowserSet DEF KSpawn, LockSafe
  <2>4. Abstract!Relaunch(p)
    BY <2>2, <2>3 DEF Abstract!Relaunch, Abstract!Turn
  <2> QED
    BY <2>4 DEF AbstractStep, Abstract!Next, Abstract!ProfileStep
<1> QED
  BY <1>4, <1>5

(* A browser may exit, and nothing else is seen.                             *)
LEMMA ExitStep ==
    ASSUME TypeInv, TypeInv', up' = up, NoneBorn, \A q \in Profiles : SameShown(q)
    PROVE  AbstractStep
<1>1. PICK p \in Profiles : \A q \in Profiles : q # p => chrome'[q] = chrome[q]
  BY DEF NoneBorn
<1>2. chrome' = [chrome EXCEPT ![p] = chrome'[p]] /\ chrome'[p] \in BOOLEAN
  BY <1>1, BrowserSet
<1>3. CASE chrome'[p] = chrome[p]
  <2>1. chrome' = chrome
    BY <1>1, <1>3 DEF TypeInv, TypeOK
  <2> QED
    BY <2>1, Stutters
<1>4. CASE chrome'[p] # chrome[p]
  <2>1. chrome'[p] = FALSE
    BY <1>4 DEF NoneBorn, TypeInv, TypeOK
  <2>2. Abstract!BrowserExits(p)
    BY <1>2, <2>1 DEF Abstract!BrowserExits, SameShown
  <2> QED
    BY <2>2 DEF AbstractStep, Abstract!Next, Abstract!ProfileStep
<1> QED
  BY <1>3, <1>4

(* The steps inside an attempt that spawn nothing. Chrome may have been       *)
(* killed; Playwright's first launch may have failed.                         *)
LEMMA MoveStep ==
    ASSUME NativeSafe, NEW t \in Requests, NEW p \in Profiles, p = req[t].prof, KMove(t),
           TypeInv'
    PROVE  AbstractStep
<1> USE DEF NativeSafe
<1>1. /\ up' = up /\ lifecycleLock' = lifecycleLock /\ NoneBorn
      /\ \A q \in Profiles : records'[q].status = records[q].status
      /\ \A q \in Profiles : q # p => SameShown(q)
  BY OthersWork DEF KMove, StatusSame, SameShown
<1>2. req[t].pc \in LockPcs /\ req[t].pc # "preflight"
      /\ req'[t].pc \notin {"preflight", "launching"} /\ req'[t].op = req[t].op
  BY DEF KMove, StartPcs, LockPcs, Stays
<1>3. /\ lifecycleLock[p] = t
      /\ Work(p)' = IF req[t].op = "start" THEN "start" ELSE "stop"
  BY <1>1, <1>2, OwnersWork, WorkGoesOn
<1>4. CASE req[t].pc = "launching" /\ req[t].attempt = 0
  <2>1. req[t].op = "start" /\ chrome' = chrome /\ up
    BY <1>4, Working DEF KMove
  <2> QED
    BY <1>1, <1>3, <1>4, <2>1, Opens
<1>5. CASE ~(req[t].pc = "launching" /\ req[t].attempt = 0)
  <2>1. Work(p)' = Work(p)
    BY <1>2, <1>3, <1>5, OwnersWork
  <2> QED
    BY <1>1, <2>1, ExitStep DEF LockSafe, SameShown
<1> QED
  BY <1>4, <1>5

LEMMA RunStep ==
    ASSUME NativeSafe, NEW t \in Requests, NEW p \in Profiles, p = req[t].prof,
           NEW m \in Monitors, KRun(t, m)
    PROVE  AbstractStep
<1> USE DEF NativeSafe
<1>1. up
  BY Working DEF KRun
<1>2. /\ up' = up /\ chrome' = chrome
      /\ \A q \in Profiles : q # p => SameShown(q)
  BY OthersWork DEF KRun, OnlyLock, OnlyStatus, SameShown
<1>3. Work(p)' = "none" /\ records'[p].status = "running"
  BY DEF KRun, OnlyLock, OnlyStatus, Work
<1>4. Work(p) = "start"
  BY OwnersWork DEF KRun, LockPcs, StartPcs, LockSafe, TypeInv, GoodRequest
<1>5. Abstract!Turn(p, "start", "none", "running")
  BY <1>1, <1>2, <1>3, <1>4, Turns
<1>6. Abstract!EndStart(p)
  BY <1>2, <1>5 DEF Abstract!EndStart
<1> QED
  BY <1>6 DEF AbstractStep, Abstract!Next, Abstract!ProfileStep

LEMMA StopStarts ==
    ASSUME NativeSafe, NEW t \in Requests, NEW p \in Profiles, p = req[t].prof, KStopRuntime(t)
    PROVE  AbstractStep
<1> USE DEF NativeSafe
<1>1. up
  BY Working DEF KStopRuntime
<1>2. /\ up' = up /\ chrome' = chrome
      /\ \A q \in Profiles : q # p => SameShown(q)
  BY OthersWork DEF KStopRuntime, OnlyLock, OnlyStatus, SameShown
<1>3. Work(p)' = "stop" /\ records'[p].status = "stopping"
  BY NullAssumption DEF KStopRuntime, OnlyLock, OnlyStatus, Work, Stays
<1>4. Work(p) = "none"
  BY DEF KStopRuntime, Work
<1>5. Abstract!Turn(p, "none", "stop", "stopping")
  BY <1>1, <1>2, <1>3, <1>4, Turns
<1>6. Abstract!BeginStop(p)
  BY <1>2, <1>5 DEF Abstract!BeginStop, KStopRuntime
<1> QED
  BY <1>6 DEF AbstractStep, Abstract!Next, Abstract!ProfileStep

(* status() or a monitor marks a profile, on the word of an answer that may be *)
(* about an earlier run.                                                      *)
LEMMA MarkStep ==
    ASSUME up, up' = up, chrome' = chrome, NEW p \in Profiles,
           \A q \in Profiles : Work(q)' = Work(q), NEW s, OnlyStatus(p, s),
           s = "error" \/ (s = "stopped" /\ LaunchMode[p] # "native")
    PROVE  AbstractStep
<1>1. \A q \in Profiles : q # p => SameShown(q)
  BY DEF OnlyStatus, SameShown
<1>2. PICK w : w = Work(p)
  OBVIOUS
<1>3. Work(p)' = w
  BY <1>2
<1>4. Abstract!Turn(p, w, w, s)
  BY <1>1, <1>2, <1>3, Turns DEF OnlyStatus
<1>5. Abstract!Distrust(p) \/ Abstract!Mistake(p)
  BY <1>2, <1>4 DEF Abstract!Distrust, Abstract!Mistake
<1> QED
  BY <1>5 DEF AbstractStep, Abstract!Next, Abstract!ProfileStep

LEMMA StatusStepMaps ==
    ASSUME NativeSafe, NEW t \in Requests, NEW p \in Profiles, p = req[t].prof,
           KStatusDrops(t) \/ KStatusMarks(t)
    PROVE  AbstractStep
<1> USE DEF NativeSafe
<1>1. up
  BY Working DEF KStatusDrops, KStatusMarks
<1>2. up' = up /\ chrome' = chrome
  BY DEF KStatusDrops, KStatusMarks
<1>3. ASSUME NEW q \in Profiles PROVE Work(q)' = Work(q)
  <2>1. req[t].pc \notin LockPcs /\ OnlyRequest(t)
    BY DEF KStatusDrops, KStatusMarks, LockPcs, StartPcs
  <2>2. \A r \in Profiles : lifecycleLock'[r] = lifecycleLock[r]
    BY DEF KStatusDrops, KStatusMarks
  <2> QED
    BY <2>1, <2>2, NobodysWork
<1>4. StatusSame \/ OnlyStatus(p, "error")
  BY DEF KStatusDrops, KStatusMarks
<1>5. CASE StatusSame
  BY <1>2, <1>3, <1>5, Stutters DEF StatusSame, SameShown
<1>6. CASE OnlyStatus(p, "error")
  BY <1>1, <1>2, <1>3, <1>6, MarkStep
<1> QED
  BY <1>4, <1>5, <1>6

LEMMA MonitorStepMaps ==
    ASSUME NativeSafe, NEW m \in Monitors, MonitorKind(m)
    PROVE  AbstractStep
<1> USE DEF NativeSafe
<1>1. /\ up' = up /\ chrome' = chrome /\ lifecycleLock' = lifecycleLock /\ req' = req
      /\ mon[m].pc # "done"
  BY DEF MonitorKind, KMonitorLives, KMonitorEnds, KMonitorMarks
<1>2. \A q \in Profiles : Work(q)' = Work(q)
  BY <1>1 DEF Work
<1>3. up /\ mon[m].prof \in Profiles
  BY <1>1 DEF LockSafe, DownInv, TypeInv, GoodMonitor
<1>4. CASE KMonitorLives(m) \/ KMonitorEnds(m)
  BY <1>1, <1>2, <1>4, Stutters DEF KMonitorLives, KMonitorEnds, StatusSame, SameShown
<1>5. ASSUME NEW s \in Statuses, KMonitorMarks(m, s) PROVE AbstractStep
  <2>1. OnlyStatus(mon[m].prof, s) /\ s \in {"stopped", "error"}
    BY <1>5 DEF KMonitorMarks
  <2>2. s = "error" \/ LaunchMode[mon[m].prof] # "native"
    BY <1>5, NativeMarks
  <2> QED
    BY <1>1, <1>2, <1>3, <2>1, <2>2, MarkStep
<1> QED
  BY <1>4, <1>5 DEF MonitorKind

LEMMA CrashStep ==
    ASSUME NativeSafe, Crash
    PROVE  AbstractStep
<1>1. \A q \in Profiles : records'[q].status = records[q].status
  BY DEF Crash, NativeSafe, RegistryAgrees
<1>2. \A q \in Profiles : Work(q)' = "none"
  BY DEF Crash, Work
<1>3. Abstract!Crash
  BY <1>1, <1>2 DEF Crash, Abstract!Crash
<1> QED
  BY <1>3 DEF AbstractStep, Abstract!Next

LEMMA LoadStep ==
    ASSUME NativeSafe, Load, TypeInv'
    PROVE  AbstractStep
<1>1. \A q \in Profiles : Work(q)' = Work(q)
  BY DEF Load, Work
<1>2. ASSUME NEW q \in Profiles PROVE records'[q].status \in Abstract!Settled(q)
  <2>1. records[q] \in Record /\ chrome[q] \in BOOLEAN
    BY DEF NativeSafe, LockSafe, TypeInv, TypeOK
  <2>2. PICK a \in OSProbe(q) : records'[q] = Loaded(records[q], a)
    BY DEF Load
  <2>3. a \in {"error", "found", "absent"} /\ (a = "absent" => ~chrome[q])
    BY <2>2 DEF OSProbe
  <2>4. Loaded(records[q], a).status \in {"stopped", "error"}
    BY <2>2, LoadedSettled DEF NativeSafe, LockSafe
  <2>5. a # "absent" => Loaded(records[q], a).status = "error"
    BY <2>1, RecordFields DEF Loaded
  <2> QED
    BY <2>2, <2>3, <2>4, <2>5, SettledStatus
<1>3. [q \in Profiles |-> records[q].status]' \in [Profiles -> Abstract!Statuses]
  BY DEF TypeInv, TypeOK, Record, Statuses, Abstract!Statuses
<1>4. UNCHANGED <<chrome, [q \in Profiles |-> Work(q)]>>
  BY <1>1 DEF Load
<1>5. Abstract!Load
  BY <1>2, <1>3, <1>4 DEF Load, Abstract!Load
<1> QED
  BY <1>5 DEF AbstractStep, Abstract!Next

LEMMA InitMaps == Init => Abstract!Init
BY DEF Init, NewProfile, Work, Abstract!Init

LEMMA NextMaps == Mapped /\ [Next]_vars => AbstractStep
<1> SUFFICES ASSUME Mapped, [Next]_vars PROVE AbstractStep
  OBVIOUS
<1>0. NativeSafe /\ RunningIsWatched /\ LockSafe /\ TypeInv /\ TypeInv'
  BY TypeNext DEF Mapped, NativeSafe, LockSafe
<1>1. ASSUME NEW t \in Requests, RequestKind(t) PROVE AbstractStep
  <2>1. CASE KCall(t) \/ KAnswer(t) \/ KReturn(t) \/ KStatusKeeps(t)
    BY <1>0, <2>1, QuietSteps
  <2>2. CASE ~(KCall(t) \/ KAnswer(t) \/ KReturn(t) \/ KStatusKeeps(t))
    <3>1. req[t].pc # "idle"
      BY <1>1, <2>2
         DEF RequestKind, KEnter, KFinish, KAttempt, KSpawn, KMove, KStopRuntime, KRun,
             KStatusDrops, KStatusMarks, StartPcs
    <3>2. PICK p \in Profiles : p = req[t].prof
      BY <1>0, <3>1, Working
    <3> QED
      BY <1>0, <1>1, <2>2, <3>2, EnterStep, FinishStep, AttemptStep, SpawnStep, MoveStep,
         RunStep, StopStarts, StatusStepMaps DEF RequestKind
  <2> QED
    BY <2>1, <2>2
<1>2. ASSUME NEW m \in Monitors, MonitorKind(m) PROVE AbstractStep
  BY <1>0, <1>2, MonitorStepMaps
<1>3. CASE KExit
  <2>1. \A q \in Profiles : SameShown(q)
    BY <1>3 DEF KExit, SameShown, Work
  <2> QED
    BY <1>0, <1>3, <2>1, ExitStep DEF KExit
<1>4. CASE UNCHANGED vars
  BY <1>4, Stutters DEF vars, SameShown, Work
<1> QED
  BY <1>0, <1>1, <1>2, <1>3, <1>4, Kinds, CrashStep, LoadStep

(* Every behaviour of the manager, seen through the mapping, is one that        *)
(* ProfileSpec allows: for every number of calls, profiles and runtimes, every *)
(* mixture of launch modes, any limit and any number of retries.               *)
THEOREM LifecycleImplementsSpec == Spec => ImplementsProfileSpec
<1>1. Mapped /\ [Next]_vars => [Abstract!Next]_(Abstract!vars)
  BY NextMaps DEF AbstractStep
<1> QED
  BY <1>1, InitMaps, MappedCorrect, PTL DEF Spec, ImplementsProfileSpec, Abstract!Spec

=============================================================================
