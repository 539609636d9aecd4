------------------------- MODULE ProfileLifecycleProofs -------------------------
(*****************************************************************************)
(* Proofs about ProfileLifecycle for every set of profiles, every number of   *)
(* calls in flight, every launch mode, limit and number of retries.           *)
(*****************************************************************************)
EXTENDS ProfileLifecycle, FiniteSetTheorems, TLAPS

-----------------------------------------------------------------------------
(* Types, and what a request's or a monitor's place in the code says about    *)
(* its other fields                                                           *)

GoodRequest(q) ==
    /\ q \in Request
    /\ q.pc = "idle" => q.probe = "none"
    /\ q.pc # "idle" => q.prof \in Profiles
    /\ q.pc \in {"preflight", "launching", "readying", "observe", "retrywait"} => q.op = "start"
    /\ q.pc \in {"queued", "shutdown", "killed"} => q.op \in {"start", "stop", "restart"}
    /\ q.pc \in {"status", "closing"} => q.op = "status"
    /\ q.pc = "closing" => LaunchMode[q.prof] # "native"

GoodMonitor(k) ==
    /\ k \in Monitor
    /\ k.pc = "done" => k.probe = "none"
    /\ k.pc # "done" => k.prof \in Profiles
    /\ k.pc = "closing" => LaunchMode[k.prof] # "native"

TypeInv ==
    /\ TypeOK
    /\ \A t \in Requests : GoodRequest(req[t])
    /\ \A m \in Monitors : GoodMonitor(mon[m])

LEMMA RecordUpdates ==
    ASSUME NEW r \in Record, NEW s \in Statuses, NEW e \in Errors
    PROVE  /\ [r EXCEPT !.status = s, !.err = e] \in Record
           /\ [r EXCEPT !.status = s] \in Record
           /\ [r EXCEPT !.err = e] \in Record
           /\ [r EXCEPT !.rootPid = TRUE] \in Record
           /\ [status |-> s, err |-> e, rootPid |-> TRUE] \in Record
BY DEF Record

LEMMA NewProfileTyped == NewProfile \in Record
BY DEF NewProfile, Record, Statuses, Errors

LEMMA IdleGood == GoodRequest(Idle)
BY BoundAssumption DEF GoodRequest, Idle, Request, AllOps, RequestPcs, ProbeStates, Causes

LEMMA DoneGood == GoodMonitor(Done)
BY DEF GoodMonitor, Done, Monitor, ProbeStates

(* A request moves to another await of a start.                              *)
LEMMA StartMoves ==
    ASSUME NEW q, GoodRequest(q), q.pc # "idle", q.op = "start",
           NEW pc \in {"launching", "readying", "observe", "shutdown", "killed", "retrywait"},
           NEW probe \in {"none", "pending"}, NEW a \in 0..MaxRetries, NEW f \in Causes
    PROVE  /\ GoodRequest([q EXCEPT !.pc = pc, !.probe = probe])
           /\ GoodRequest([[q EXCEPT !.pc = pc, !.probe = probe] EXCEPT !.attempt = a])
           /\ GoodRequest([[q EXCEPT !.pc = pc, !.probe = probe] EXCEPT !.fail = f, !.attempt = a])
BY DEF GoodRequest, Request, RequestPcs, ProbeStates

(* A stop, or the shutdown of a failed start, goes on.                       *)
LEMMA ShutdownMoves ==
    ASSUME NEW q, GoodRequest(q), q.pc \in {"queued", "shutdown", "killed"},
           NEW pc \in {"shutdown", "killed"}
    PROVE  GoodRequest([q EXCEPT !.pc = pc, !.probe = "pending"])
BY DEF GoodRequest, Request, RequestPcs, ProbeStates

LEMMA PreflightGood ==
    ASSUME NEW q, GoodRequest(q), q.pc # "idle", NEW b \in BOOLEAN
    PROVE  GoodRequest([[q EXCEPT !.pc = "preflight", !.probe = "pending"]
                          EXCEPT !.op = "start", !.recovering = b])
BY DEF GoodRequest, Request, RequestPcs, AllOps, ProbeStates

LEMMA CallGood ==
    ASSUME NEW q, GoodRequest(q), NEW p \in Profiles, NEW op \in {"start", "stop", "restart"}
    PROVE  /\ GoodRequest([q EXCEPT !.op = op, !.prof = p, !.pc = "queued", !.probe = "none"])
           /\ GoodRequest([q EXCEPT !.op = "status", !.prof = p, !.pc = "status", !.probe = "pending"])
BY DEF GoodRequest, Request, RequestPcs, AllOps, ProbeStates

LEMMA RequestAnswered ==
    ASSUME NEW q, GoodRequest(q), q.pc # "idle", NEW a \in ProbeStates
    PROVE  GoodRequest([q EXCEPT !.probe = a])
BY DEF GoodRequest, Request

(* The four ways a variable is written, and that the types survive them.     *)
LEMMA RequestWritten ==
    ASSUME TypeInv, NEW t \in Requests, NEW q, GoodRequest(q), req' = [req EXCEPT ![t] = q]
    PROVE  req' \in [Requests -> Request] /\ \A u \in Requests : GoodRequest(req'[u])
BY DEF TypeInv, TypeOK, GoodRequest

LEMMA MonitorWritten ==
    ASSUME TypeInv, NEW m \in Monitors, NEW k, GoodMonitor(k), mon' = [mon EXCEPT ![m] = k]
    PROVE  mon' \in [Monitors -> Monitor] /\ \A n \in Monitors : GoodMonitor(mon'[n])
BY DEF TypeInv, TypeOK, GoodMonitor

LEMMA RecordWritten ==
    ASSUME TypeInv, NEW p, NEW r \in Record, SetRecord(p, r)
    PROVE  records' \in [Profiles -> Record]
BY DEF TypeInv, TypeOK, SetRecord

LEMMA LockWritten ==
    ASSUME TypeInv, NEW t \in Requests, NEW p, Return(t, p)
    PROVE  /\ lifecycleLock' \in [Profiles -> Requests \cup {NoRequest}]
           /\ req' \in [Requests -> Request] /\ \A u \in Requests : GoodRequest(req'[u])
<1>1. lifecycleLock' \in [Profiles -> Requests \cup {NoRequest}]
  BY DEF TypeInv, TypeOK, Return
<1> QED
  BY <1>1, IdleGood, RequestWritten DEF Return

LEMMA StartEntered ==
    ASSUME TypeInv, NEW t \in Requests, req[t].pc # "idle", NEW p, NEW r, EnterStart(t, p, r)
    PROVE  /\ lifecycleLock' \in [Profiles -> Requests \cup {NoRequest}]
           /\ req' \in [Requests -> Request] /\ \A u \in Requests : GoodRequest(req'[u])
<1>1. GoodRequest(req[t])
  BY DEF TypeInv
<1>2. GoodRequest([Suspend(t, "preflight", "pending")
                     EXCEPT !.op = "start", !.recovering = (r.err = "recovery")])
  BY <1>1, PreflightGood DEF Suspend
<1>3. lifecycleLock' \in [Profiles -> Requests \cup {NoRequest}]
  BY DEF TypeInv, TypeOK, EnterStart
<1> QED
  BY <1>2, <1>3, RequestWritten DEF EnterStart

LEMMA CancelTyped ==
    ASSUME TypeInv, NEW m \in Monitors \cup {NoMonitor}, Cancel(m)
    PROVE  mon' \in [Monitors -> Monitor] /\ \A n \in Monitors : GoodMonitor(mon'[n])
<1>1. CASE m = NoMonitor
  BY <1>1 DEF Cancel, TypeInv, TypeOK
<1>2. CASE m # NoMonitor
  BY <1>2, DoneGood, MonitorWritten DEF Cancel
<1> QED
  BY <1>1, <1>2

LEMMA FailTyped ==
    ASSUME TypeInv, NEW t \in Requests, req[t].pc # "idle", req[t].op = "start",
           NEW r \in Record, NEW f \in Causes, NEW pc \in {"shutdown", "retrywait"},
           NEW a \in 0..MaxRetries, FailAttempt(t, r, f, pc, a)
    PROVE  /\ records' \in [Profiles -> Record]
           /\ req' \in [Requests -> Request] /\ \A u \in Requests : GoodRequest(req'[u])
<1> DEFINE probe == IF pc = "shutdown" THEN "pending" ELSE "none"
           q == [Suspend(t, pc, probe) EXCEPT !.fail = f, !.attempt = a]
<1>1. [r EXCEPT !.err = f] \in Record
  BY RecordUpdates DEF Statuses, Causes, Errors
<1>2. GoodRequest(req[t])
  BY DEF TypeInv
<1>3. probe \in {"none", "pending"}
  OBVIOUS
<1>4. GoodRequest(q)
  <2> HIDE DEF probe
  <2> QED BY <1>2, <1>3, StartMoves DEF Suspend
<1>5. req' = [req EXCEPT ![t] = q]
  BY DEF FailAttempt
<1> QED
  BY <1>1, <1>4, <1>5, RecordWritten, RequestWritten DEF FailAttempt

LEMMA AttemptTyped ==
    ASSUME TypeInv, NEW t \in Requests, req[t].pc # "idle", req[t].op = "start",
           NEW r \in Record, NEW a \in 0..MaxRetries, BeginAttempt(t, r, a)
    PROVE  /\ records' \in [Profiles -> Record]
           /\ registry' \in [Profiles -> Record]
           /\ chrome' \in [Profiles -> BOOLEAN]
           /\ req' \in [Requests -> Request] /\ \A u \in Requests : GoodRequest(req'[u])
<1> DEFINE p == req[t].prof
<1>0. p \in Profiles /\ GoodRequest(req[t])
  BY DEF TypeInv, GoodRequest
<1>1. CASE /\ FailAttempt(t, r, "other", CleanupWithoutRuntime(r), a)
           /\ registry' = [records' EXCEPT ![p] = r]
           /\ UNCHANGED chrome
  <2>1. CleanupWithoutRuntime(r) \in {"shutdown", "retrywait"} /\ "other" \in Causes
    BY DEF CleanupWithoutRuntime, Causes
  <2>2. records' \in [Profiles -> Record]
        /\ req' \in [Requests -> Request] /\ \A u \in Requests : GoodRequest(req'[u])
    BY <1>1, <2>1, FailTyped
  <2> QED
    BY <1>0, <1>1, <2>2 DEF TypeInv, TypeOK
<1>2. CASE /\ LaunchMode[p] = "native"
           /\ chrome' = [chrome EXCEPT ![p] = TRUE]
           /\ SetRecord(p, [r EXCEPT !.rootPid = TRUE])
           /\ Save
           /\ req' = [req EXCEPT ![t] = [Suspend(t, "observe", "pending") EXCEPT !.attempt = a]]
  <2>1. [r EXCEPT !.rootPid = TRUE] \in Record
    BY RecordUpdates DEF Statuses, Errors
  <2>2. GoodRequest([Suspend(t, "observe", "pending") EXCEPT !.attempt = a])
    BY <1>0, StartMoves DEF Suspend, Causes
  <2>3. chrome' \in [Profiles -> BOOLEAN]
    BY <1>2 DEF TypeInv, TypeOK
  <2> QED
    BY <1>2, <2>1, <2>2, <2>3, RecordWritten, RequestWritten DEF Save
<1>3. CASE /\ LaunchMode[p] # "native"
           /\ SetRecord(p, r)
           /\ Save
           /\ req' = [req EXCEPT ![t] = [Suspend(t, "launching", "none") EXCEPT !.attempt = a]]
           /\ UNCHANGED chrome
  <2>2. GoodRequest([Suspend(t, "launching", "none") EXCEPT !.attempt = a])
    BY <1>0, StartMoves DEF Suspend, Causes
  <2> QED
    BY <1>3, <2>2, RecordWritten, RequestWritten DEF Save, TypeInv, TypeOK
<1> QED
  BY <1>1, <1>2, <1>3 DEF BeginAttempt

LEMMA EndStopTyped ==
    ASSUME TypeInv, NEW t \in Requests, req[t].pc # "idle", NEW p \in Profiles,
           NEW b \in BOOLEAN, EndStop(t, p, b)
    PROVE  /\ records' \in [Profiles -> Record]
           /\ registry' \in [Profiles -> Record]
           /\ lifecycleLock' \in [Profiles -> Requests \cup {NoRequest}]
           /\ req' \in [Requests -> Request] /\ \A u \in Requests : GoodRequest(req'[u])
<1>1. PICK r \in StopOutcomes(p, b) :
         /\ SetRecord(p, r) /\ Save
         /\ IF req[t].op = "restart" THEN EnterStart(t, p, r) ELSE Return(t, p)
  BY DEF EndStop
<1>2. records[p] \in Record
  BY DEF TypeInv, TypeOK
<1>3. r \in Record
  BY <1>2, RecordUpdates, NewProfileTyped DEF StopOutcomes, Statuses, Errors
<1> QED
  BY <1>1, <1>3, RecordWritten, StartEntered, LockWritten DEF Save

LEMMA TypeInit == Init => TypeInv
<1> SUFFICES ASSUME Init PROVE TypeInv
  OBVIOUS
<1>1. TypeOK
  BY NewProfileTyped, IdleGood, DoneGood DEF Init, TypeOK, GoodRequest, GoodMonitor
<1>2. /\ \A t \in Requests : GoodRequest(req[t])
      /\ \A m \in Monitors : GoodMonitor(mon[m])
  BY IdleGood, DoneGood DEF Init
<1> QED
  BY <1>1, <1>2 DEF TypeInv

LEMMA TypeCall ==
    ASSUME TypeInv, NEW t \in Requests, NEW op \in Ops, NEW p \in Profiles, Call(t, op, p)
    PROVE  TypeInv'
<1> DEFINE q == [Idle EXCEPT !.op = op, !.prof = p,
                             !.pc = IF op = "status" THEN "status" ELSE "queued",
                             !.probe = IF op = "status" THEN "pending" ELSE "none"]
<1>1. op \in AllOps
  BY OpsAssumption
<1>2. GoodRequest(q)
  <2>1. CASE op = "status"
    <3>1. GoodRequest([Idle EXCEPT !.op = "status", !.prof = p, !.pc = "status", !.probe = "pending"])
      BY IdleGood, CallGood
    <3> QED
      BY <2>1, <3>1
  <2>2. CASE op # "status"
    <3>1. op \in {"start", "stop", "restart"}
      BY <1>1, <2>2 DEF AllOps
    <3>2. GoodRequest([Idle EXCEPT !.op = op, !.prof = p, !.pc = "queued", !.probe = "none"])
      BY <3>1, IdleGood, CallGood
    <3> QED
      BY <2>2, <3>2
  <2> QED
    BY <2>1, <2>2
<1>3. req' = [req EXCEPT ![t] = q]
  BY DEF Call
<1> QED
  BY <1>2, <1>3, RequestWritten DEF Call, TypeInv, TypeOK

LEMMA TypeProbes ==
    ASSUME TypeInv
    PROVE  /\ \A t \in Requests : ProbeRequest(t) => TypeInv'
           /\ \A m \in Monitors : ProbeMonitor(m) => TypeInv'
<1>1. ASSUME NEW t \in Requests, ProbeRequest(t) PROVE TypeInv'
  <2>1. PICK a \in OSProbe(req[t].prof) : req' = [req EXCEPT ![t].probe = a]
    BY <1>1 DEF ProbeRequest
  <2>2. a \in ProbeStates /\ req[t].pc # "idle" /\ GoodRequest(req[t])
    BY <1>1, <2>1 DEF OSProbe, ProbeStates, ProbeRequest, TypeInv, GoodRequest
  <2>3. GoodRequest([req[t] EXCEPT !.probe = a])
    BY <2>2, RequestAnswered
  <2>4. req' = [req EXCEPT ![t] = [req[t] EXCEPT !.probe = a]]
    BY <2>1
  <2> QED
    BY <1>1, <2>3, <2>4, RequestWritten DEF ProbeRequest, TypeInv, TypeOK
<1>2. ASSUME NEW m \in Monitors, ProbeMonitor(m) PROVE TypeInv'
  <2>1. PICK a \in OSProbe(mon[m].prof) : mon' = [mon EXCEPT ![m].probe = a]
    BY <1>2 DEF ProbeMonitor
  <2>2. a \in ProbeStates /\ mon[m].pc # "done" /\ GoodMonitor(mon[m])
    BY <1>2, <2>1 DEF OSProbe, ProbeStates, ProbeMonitor, TypeInv, GoodMonitor
  <2>3. GoodMonitor([mon[m] EXCEPT !.probe = a])
    BY <2>2 DEF GoodMonitor, Monitor
  <2>4. mon' = [mon EXCEPT ![m] = [mon[m] EXCEPT !.probe = a]]
    BY <2>1
  <2> QED
    BY <1>2, <2>3, <2>4, MonitorWritten DEF ProbeMonitor, TypeInv, TypeOK
<1> QED
  BY <1>1, <1>2

LEMMA TypeStart ==
    ASSUME TypeInv, NEW t \in Requests, StartStep(t)
    PROVE  TypeInv'
<1> DEFINE p == req[t].prof
<1>0. /\ req[t].pc # "idle" /\ p \in Profiles /\ GoodRequest(req[t])
      /\ records[p] \in Record /\ req[t].attempt \in 0..MaxRetries /\ req[t].fail \in Causes
  <2>1. req[t].pc # "idle"
    BY DEF StartStep, AcquireForStart, PreflightFails, SoftLimitRefuses, FirstAttempt, Spawn,
           SpawnFails, Ready, ReadyFails, Observed, NotObserved, NextAttempt, StartFails, At
  <2> QED
    BY <2>1 DEF TypeInv, TypeOK, GoodRequest, Request
<1>1. CASE AcquireForStart(t)
  BY <1>0, <1>1, StartEntered, LockWritten DEF AcquireForStart, TypeInv, TypeOK
<1>2. CASE PreflightFails(t)
  <2>1. [records[p] EXCEPT !.status = "error", !.err = "recovery"] \in Record
    BY <1>0, RecordUpdates DEF Statuses, Errors
  <2> QED
    BY <1>2, <2>1, RecordWritten, LockWritten DEF PreflightFails, Save, TypeInv, TypeOK
<1>3. Recovered(t) \in Record
  BY <1>0, NewProfileTyped DEF Recovered
<1>4. CASE SoftLimitRefuses(t)
  <2>1. [Recovered(t) EXCEPT !.err = "other"] \in Record
    BY <1>3, RecordUpdates DEF Statuses, Errors
  <2> QED
    BY <1>4, <2>1, RecordWritten, LockWritten DEF SoftLimitRefuses, Save, TypeInv, TypeOK
<1>5. CASE FirstAttempt(t)
  <2>1. [Recovered(t) EXCEPT !.status = "starting", !.err = "none"] \in Record
    BY <1>3, RecordUpdates DEF Statuses, Errors
  <2>2. req[t].op = "start" /\ 0 \in 0..MaxRetries
    BY <1>0, <1>5, BoundAssumption DEF FirstAttempt, At, GoodRequest
  <2> QED
    BY <1>0, <1>5, <2>1, <2>2, AttemptTyped DEF FirstAttempt, TypeInv, TypeOK
<1>6. CASE Spawn(t)
  <2>1. [records[p] EXCEPT !.rootPid = TRUE] \in Record
    BY <1>0, RecordUpdates DEF Statuses, Errors
  <2>2. GoodRequest(Suspend(t, "readying", "none"))
    <3>1. req[t].op = "start"
      BY <1>0, <1>6 DEF Spawn, At, GoodRequest
    <3> QED
      BY <1>0, <3>1, StartMoves DEF Suspend
  <2>3. records' \in [Profiles -> Record] /\ registry' \in [Profiles -> Record]
    BY <1>6, <2>1, RecordWritten DEF Spawn, Save, TypeInv, TypeOK
  <2> QED
    BY <1>6, <2>2, <2>3, RequestWritten DEF Spawn, TypeInv, TypeOK
<1>7. CASE SpawnFails(t)
  <2>1. CleanupWithoutRuntime(records[p]) \in {"shutdown", "retrywait"} /\ "other" \in Causes
    BY DEF CleanupWithoutRuntime, Causes
  <2>2. req[t].op = "start"
    BY <1>0, <1>7 DEF SpawnFails, At, GoodRequest
  <2> QED
    BY <1>0, <1>7, <2>1, <2>2, FailTyped DEF SpawnFails, TypeInv, TypeOK
<1>8. CASE Ready(t)
  <2>1. GoodRequest(Suspend(t, "observe", "pending"))
    <3>1. req[t].op = "start"
      BY <1>0, <1>8 DEF Ready, At, GoodRequest
    <3> QED
      BY <1>0, <3>1, StartMoves DEF Suspend
  <2> QED
    BY <1>8, <2>1, RequestWritten DEF Ready, TypeInv, TypeOK
<1>9. CASE ReadyFails(t)
  <2>1. PICK pc \in {"shutdown", "retrywait"} :
           FailAttempt(t, records[p], "other", pc, req[t].attempt)
    BY <1>9 DEF ReadyFails
  <2>2. req[t].op = "start" /\ "other" \in Causes
    BY <1>0, <1>9 DEF ReadyFails, At, GoodRequest, Causes
  <2> QED
    BY <1>0, <1>9, <2>1, <2>2, FailTyped DEF ReadyFails, TypeInv, TypeOK
<1>10. CASE Observed(t)
  <2>1. PICK m \in Monitors :
          /\ mon' = [mon EXCEPT ![m] = [Done EXCEPT !.prof = p, !.pc = "top"]]
          /\ runtime' = [runtime EXCEPT ![p] = m]
          /\ expected' = expected \ {m}
    BY <1>10 DEF Observed
  <2>2. GoodMonitor([Done EXCEPT !.prof = p, !.pc = "top"])
    BY <1>0 DEF GoodMonitor, Done, Monitor, ProbeStates
  <2>3. [status |-> "running", err |-> "none", rootPid |-> TRUE] \in Record
    BY DEF Record, Statuses, Errors
  <2>4. records' \in [Profiles -> Record] /\ registry' \in [Profiles -> Record]
    BY <1>10, <2>3, RecordWritten DEF Observed, Save
  <2>5. mon' \in [Monitors -> Monitor] /\ \A n \in Monitors : GoodMonitor(mon'[n])
    BY <2>1, <2>2, MonitorWritten
  <2>6. runtime' \in [Profiles -> Monitors \cup {NoMonitor}] /\ expected' \subseteq Monitors
    BY <2>1 DEF TypeInv, TypeOK
  <2> QED
    BY <1>10, <2>4, <2>5, <2>6, LockWritten DEF Observed, TypeInv, TypeOK
<1>11. CASE NotObserved(t)
  <2>1. req[t].op = "start"
        /\ (IF req[t].probe = "absent" THEN "other" ELSE "probe") \in Causes
    BY <1>0, <1>11 DEF NotObserved, At, GoodRequest, Causes
  <2> QED
    BY <1>0, <1>11, <2>1, FailTyped DEF NotObserved, TypeInv, TypeOK
<1>12. CASE NextAttempt(t)
  <2>1. req[t].attempt + 1 \in 0..MaxRetries
    BY <1>0, <1>12, BoundAssumption DEF NextAttempt, RetryLeft
  <2>2. req[t].op = "start"
    BY <1>0, <1>12 DEF NextAttempt, At, GoodRequest
  <2> QED
    BY <1>0, <1>12, <2>1, <2>2, AttemptTyped DEF NextAttempt, TypeInv, TypeOK
<1>13. CASE StartFails(t)
  <2>1. GiveUp(records[p], req[t].fail) \in Record
    BY <1>0, RecordUpdates DEF GiveUp, Statuses, Causes, Errors
  <2> QED
    BY <1>13, <2>1, RecordWritten, LockWritten DEF StartFails, Save, TypeInv, TypeOK
<1> QED
  BY <1>1, <1>2, <1>4, <1>5, <1>6, <1>7, <1>8, <1>9, <1>10, <1>11, <1>12, <1>13 DEF StartStep

LEMMA TypeStop ==
    ASSUME TypeInv, NEW t \in Requests, StopStep(t)
    PROVE  TypeInv'
<1> DEFINE p == req[t].prof
<1>0. /\ req[t].pc # "idle" /\ p \in Profiles /\ GoodRequest(req[t])
      /\ records[p] \in Record /\ req[t].attempt \in 0..MaxRetries /\ req[t].fail \in Causes
  <2>1. req[t].pc # "idle"
    BY DEF StopStep, AcquireForStop, Kill, ShutdownReturns, At
  <2> QED
    BY <2>1 DEF TypeInv, TypeOK, GoodRequest, Request
<1>1. CASE AcquireForStop(t)
  <2>1. CASE StopsNothing(t, p)
    BY <1>0, <1>1, <2>1, StartEntered, LockWritten
       DEF AcquireForStop, StopsNothing, TypeInv, TypeOK
  <2>2. CASE StopsOrphan(t, p)
    BY <1>0, <1>1, <2>2, EndStopTyped DEF AcquireForStop, StopsOrphan, TypeInv, TypeOK
  <2>3. CASE StopsRuntime(t, p)
    <3>1. [records[p] EXCEPT !.status = "stopping"] \in Record
      BY <1>0, RecordUpdates DEF Statuses, Errors
    <3>2. GoodRequest(Suspend(t, "shutdown", "pending"))
      BY <1>0, <1>1, ShutdownMoves DEF AcquireForStop, At, Suspend
    <3>3. runtime[p] \in Monitors \cup {NoMonitor}
      BY <1>0 DEF TypeInv, TypeOK
    <3>4. mon' \in [Monitors -> Monitor] /\ \A n \in Monitors : GoodMonitor(mon'[n])
      BY <2>3, <3>3, CancelTyped DEF StopsRuntime
    <3>5. /\ runtime' \in [Profiles -> Monitors \cup {NoMonitor}] /\ expected' \subseteq Monitors
          /\ lifecycleLock' \in [Profiles -> Requests \cup {NoRequest}]
      BY <2>3, <3>3 DEF StopsRuntime, TypeInv, TypeOK
    <3>6. records' \in [Profiles -> Record] /\ registry' \in [Profiles -> Record]
      BY <2>3, <3>1, RecordWritten DEF StopsRuntime, Save
    <3>7. req' \in [Requests -> Request] /\ \A u \in Requests : GoodRequest(req'[u])
      BY <2>3, <3>2, RequestWritten DEF StopsRuntime
    <3> QED
      BY <1>1, <3>4, <3>5, <3>6, <3>7 DEF AcquireForStop, TypeInv, TypeOK
  <2> QED
    BY <1>1, <2>1, <2>2, <2>3 DEF AcquireForStop
<1>2. CASE Kill(t)
  <2>1. GoodRequest(Suspend(t, "killed", "pending"))
    BY <1>0, <1>2, ShutdownMoves DEF Kill, At, Suspend
  <2>2. chrome' \in [Profiles -> BOOLEAN]
    BY <1>0, <1>2 DEF Kill, TypeInv, TypeOK
  <2> QED
    BY <1>2, <2>1, <2>2, RequestWritten DEF Kill, TypeInv, TypeOK
<1>3. CASE ShutdownReturns(t)
  <2>1. CASE req[t].op = "start"
    <3>1. GoodRequest(Suspend(t, "retrywait", "none"))
      BY <1>0, <2>1, StartMoves DEF Suspend
    <3> QED
      BY <1>3, <2>1, <3>1, RequestWritten DEF ShutdownReturns, TypeInv, TypeOK
  <2>2. CASE req[t].op # "start"
    BY <1>0, <1>3, <2>2, EndStopTyped DEF ShutdownReturns, TypeInv, TypeOK
  <2> QED
    BY <2>1, <2>2
<1> QED
  BY <1>1, <1>2, <1>3 DEF StopStep

LEMMA TypeStatus ==
    ASSUME TypeInv, NEW t \in Requests, StatusStep(t)
    PROVE  TypeInv'
<1> DEFINE p == req[t].prof
<1>0. req[t].pc # "idle" /\ p \in Profiles /\ GoodRequest(req[t]) /\ records[p] \in Record
  <2>1. req[t].pc # "idle"
    BY DEF StatusStep, StatusProbeFails, StatusAlive, StatusGone, StatusClosed, At
  <2> QED
    BY <2>1 DEF TypeInv, TypeOK, GoodRequest
<1>1. /\ [records[p] EXCEPT !.err = "probe"] \in Record
      /\ [records[p] EXCEPT !.err = "none"] \in Record
      /\ [records[p] EXCEPT !.status = "error", !.err = "gone"] \in Record
  BY <1>0, RecordUpdates DEF Statuses, Errors
<1>2. CASE StatusProbeFails(t)
  BY <1>1, <1>2, RecordWritten, RequestWritten, IdleGood
     DEF StatusProbeFails, Save, TypeInv, TypeOK
<1>3. CASE StatusAlive(t)
  <2>1. records' \in [Profiles -> Record] /\ registry' \in [Profiles -> Record]
    BY <1>1, <1>3, RecordWritten DEF StatusAlive, Save, TypeInv, TypeOK
  <2> QED
    BY <1>3, <2>1, RequestWritten, IdleGood DEF StatusAlive, TypeInv, TypeOK
<1>4. CASE StatusGone(t)
  <2>1. runtime[p] \in Monitors \cup {NoMonitor}
    BY <1>0 DEF TypeInv, TypeOK
  <2>2. mon' \in [Monitors -> Monitor] /\ \A n \in Monitors : GoodMonitor(mon'[n])
    BY <1>4, <2>1, CancelTyped DEF StatusGone
  <2>3. runtime' \in [Profiles -> Monitors \cup {NoMonitor}]
    BY <1>4 DEF StatusGone, TypeInv, TypeOK
  <2>4. CASE LaunchMode[p] # "native" /\ runtime[p] # NoMonitor
    <3>1. GoodRequest(Suspend(t, "closing", "none"))
      BY <1>0, <1>4, <2>4 DEF StatusGone, At, Suspend, GoodRequest, Request, RequestPcs, ProbeStates
    <3> QED
      BY <1>4, <2>2, <2>3, <2>4, <3>1, RequestWritten DEF StatusGone, TypeInv, TypeOK
  <2>5. CASE ~(LaunchMode[p] # "native" /\ runtime[p] # NoMonitor)
    <3>1. req' = [req EXCEPT ![t] = Idle] /\ MarkDisappeared(p)
      BY <1>4, <2>5 DEF StatusGone
    <3>2. records' \in [Profiles -> Record] /\ registry' \in [Profiles -> Record]
      BY <1>1, <3>1, RecordWritten DEF MarkDisappeared, Save
    <3> QED
      BY <1>4, <2>2, <2>3, <3>1, <3>2, RequestWritten, IdleGood DEF StatusGone, TypeInv, TypeOK
  <2> QED
    BY <2>4, <2>5
<1>5. CASE StatusClosed(t)
  BY <1>1, <1>5, RecordWritten, RequestWritten, IdleGood
     DEF StatusClosed, MarkDisappeared, Save, TypeInv, TypeOK
<1> QED
  BY <1>2, <1>3, <1>4, <1>5 DEF StatusStep

LEMMA TypeMonitor ==
    ASSUME TypeInv, NEW m \in Monitors, MonitorStep(m)
    PROVE  TypeInv'
<1> DEFINE p == mon[m].prof
<1>0. CASE ProbeMonitor(m)
  BY <1>0, TypeProbes
<1>1. ASSUME ~ProbeMonitor(m)
      PROVE  mon[m].pc # "done" /\ p \in Profiles /\ GoodMonitor(mon[m]) /\ records[p] \in Record
  <2>1. mon[m].pc # "done"
    BY <1>1 DEF MonitorStep, MonitorTop, MonitorProbeFails, MonitorAlive, MonitorGone,
                MonitorClosed, MonitorAt
  <2> QED
    BY <2>1 DEF TypeInv, TypeOK, GoodMonitor
<1> SUFFICES ASSUME ~ProbeMonitor(m) PROVE TypeInv'
  BY <1>0
<1>2. /\ [records[p] EXCEPT !.err = "probe"] \in Record
      /\ [records[p] EXCEPT !.err = "none"] \in Record
      /\ [records[p] EXCEPT !.status = "stopped", !.err = "none"] \in Record
      /\ [records[p] EXCEPT !.status = "error", !.err = "gone"] \in Record
  BY <1>1, RecordUpdates DEF Statuses, Errors
<1>3. GoodMonitor(MonitorSleeps(m))
  BY <1>1 DEF MonitorSleeps, GoodMonitor, Monitor, ProbeStates
<1>4. CASE MonitorTop(m)
  <2>1. CASE records[p].status = "running" /\ runtime[p] # NoMonitor
    <3>1. runtime[p] \in Monitors
      BY <1>1, <2>1 DEF TypeInv, TypeOK
    <3>2. GoodMonitor([mon[m] EXCEPT !.pc = "query", !.probe = "pending", !.rt = runtime[p]])
      BY <1>1, <3>1 DEF GoodMonitor, Monitor, ProbeStates
    <3>3. mon' = [mon EXCEPT ![m] =
                    [mon[m] EXCEPT !.pc = "query", !.probe = "pending", !.rt = runtime[p]]]
      BY <1>4, <2>1 DEF MonitorTop
    <3> QED
      BY <1>4, <3>2, <3>3, MonitorWritten DEF MonitorTop, TypeInv, TypeOK
  <2>2. CASE ~(records[p].status = "running" /\ runtime[p] # NoMonitor)
    <3>1. mon' = [mon EXCEPT ![m] = Done]
      BY <1>4, <2>2 DEF MonitorTop
    <3> QED
      BY <1>4, <3>1, DoneGood, MonitorWritten DEF MonitorTop, TypeInv, TypeOK
  <2> QED
    BY <2>1, <2>2
<1>5. CASE MonitorProbeFails(m)
  BY <1>2, <1>3, <1>5, RecordWritten, MonitorWritten
     DEF MonitorProbeFails, Save, TypeInv, TypeOK
<1>6. CASE MonitorAlive(m)
  BY <1>1, <1>2, <1>3, <1>6, RecordWritten, MonitorWritten DEF MonitorAlive, TypeInv, TypeOK
<1>7. ASSUME NEW b \in BOOLEAN, MonitorMarks(m, b)
      PROVE  /\ records' \in [Profiles -> Record] /\ registry' \in [Profiles -> Record]
             /\ mon' \in [Monitors -> Monitor] /\ \A n \in Monitors : GoodMonitor(mon'[n])
  BY <1>2, <1>7, RecordWritten, MonitorWritten, DoneGood DEF MonitorMarks, Save
<1>8. CASE MonitorGone(m)
  <2>0. PICK b \in BOOLEAN : b <=> mon[m].rt \in expected
    <3>1. CASE mon[m].rt \in expected
      <4>1. WITNESS TRUE \in BOOLEAN
      <4> QED
        BY <3>1
    <3>2. CASE mon[m].rt \notin expected
      <4>1. WITNESS FALSE \in BOOLEAN
      <4> QED
        BY <3>2
    <3> QED
      BY <3>1, <3>2
  <2>1. CASE LaunchMode[p] = "native"
    <3>1. MonitorMarks(m, b)
      BY <1>8, <2>0, <2>1 DEF MonitorGone
    <3> QED
      BY <1>7, <1>8, <3>1 DEF MonitorGone, TypeInv, TypeOK
  <2>2. CASE LaunchMode[p] # "native"
    <3>1. GoodMonitor([mon[m] EXCEPT !.pc = "closing", !.wasExpected = b])
      BY <1>1, <2>2 DEF GoodMonitor, Monitor
    <3>2. mon' = [mon EXCEPT ![m] = [mon[m] EXCEPT !.pc = "closing", !.wasExpected = b]]
      BY <1>8, <2>0, <2>2 DEF MonitorGone
    <3> QED
      BY <1>8, <2>2, <3>1, <3>2, MonitorWritten DEF MonitorGone, TypeInv, TypeOK
  <2> QED
    BY <2>1, <2>2
<1>9. CASE MonitorClosed(m)
  <2>1. mon[m].wasExpected \in BOOLEAN
    BY <1>1 DEF GoodMonitor, Monitor
  <2> QED
    BY <1>7, <1>9, <2>1 DEF MonitorClosed, TypeInv, TypeOK
<1> QED
  BY <1>4, <1>5, <1>6, <1>8, <1>9 DEF MonitorStep

LEMMA TypeWorld ==
    ASSUME TypeInv, (\E p \in Profiles : ChromeExits(p)) \/ Crash \/ Load
    PROVE  TypeInv'
<1>1. CASE \E p \in Profiles : ChromeExits(p)
  BY <1>1 DEF ChromeExits, TypeInv, TypeOK
<1>2. CASE Crash
  <2>1. /\ \A t \in Requests : req'[t] = Idle
        /\ \A m \in Monitors : mon'[m] = Done
    BY <1>2 DEF Crash
  <2>2. req' \in [Requests -> Request] /\ mon' \in [Monitors -> Monitor]
    BY <1>2, IdleGood, DoneGood DEF Crash, GoodRequest, GoodMonitor
  <2> QED
    BY <1>2, <2>1, <2>2, IdleGood, DoneGood DEF Crash, TypeInv, TypeOK
<1>3. CASE Load
  <2>1. PICK probe : records' = [p \in Profiles |-> Loaded(records[p], probe[p])]
    BY <1>3 DEF Load
  <2>2. \A p \in Profiles : records[p] \in Record
    BY DEF TypeInv, TypeOK
  <2>3. ASSUME NEW r \in Record, NEW a PROVE Loaded(r, a) \in Record
    BY RecordUpdates, NewProfileTyped DEF Loaded, Statuses, Errors
  <2>4. records' \in [Profiles -> Record]
    BY <2>1, <2>2, <2>3
  <2> QED
    BY <1>3, <2>4 DEF Load, Save, TypeInv, TypeOK
<1> QED
  BY <1>1, <1>2, <1>3

LEMMA TypeNext == TypeInv /\ [Next]_vars => TypeInv'
<1> SUFFICES ASSUME TypeInv, [Next]_vars PROVE TypeInv'
  OBVIOUS
<1>1. CASE UNCHANGED vars
  BY <1>1 DEF vars, TypeInv, TypeOK
<1> QED
  BY <1>1, TypeCall, TypeProbes, TypeStart, TypeStop, TypeStatus, TypeMonitor, TypeWorld
     DEF Next, RequestStep

(* Every reachable state is type correct, and every slot in use names a        *)
(* profile and the phase its operation can be in.                              *)
THEOREM TypeCorrect == Spec => []TypeOK
<1>1. TypeInv => TypeOK
  BY DEF TypeInv
<1> QED
  BY <1>1, TypeInit, TypeNext, PTL DEF Spec

-----------------------------------------------------------------------------
(* Kinds of steps: what an action does to the fields the invariants speak of.  *)
(* Every action is of one of these kinds (lemma Kinds); the invariants are     *)
(* proved of the kinds.                                                        *)

RegistryAgrees == \A p \in Profiles : registry[p].status = records[p].status

AgreementKept == RegistryAgrees => RegistryAgrees'

OnlyRequest(t) == \A u \in Requests : u # t => req'[u] = req[u]

OnlyMonitor(m) == \A n \in Monitors : n # m => mon'[n] = mon[n]

OnlyLock(p, h) ==
    /\ lifecycleLock'[p] = h
    /\ \A q \in Profiles : q # p => lifecycleLock'[q] = lifecycleLock[q]

OnlyStatus(p, s) ==
    /\ records'[p].status = s
    /\ \A q \in Profiles : q # p => records'[q].status = records[q].status
    /\ AgreementKept

StatusSame ==
    /\ \A q \in Profiles : records'[q].status = records[q].status
    /\ AgreementKept

(* If p is marked as an error now, then not as one that disappeared.          *)
NotGone(p) ==
    records'[p].status = "error" /\ records[p].status # "error" => records'[p].err # "gone"

Stays(t) == req'[t].prof = req[t].prof /\ req'[t].op = req[t].op

(* One browser may exit, and none is started.                                *)
NoneBorn ==
    /\ \A q \in Profiles : chrome'[q] => chrome[q]
    /\ \E p \in Profiles : \A q \in Profiles : q # p => chrome'[q] = chrome[q]

KCall(t) ==
    /\ OnlyRequest(t) /\ up /\ req[t].pc = "idle" /\ req'[t].pc \in {"queued", "status"}
    /\ req'[t].pc = "status" => "status" \in Ops
    /\ UNCHANGED <<up, records, registry, chrome, lifecycleLock, runtime, mon, expected>>

KAnswer(t) ==
    /\ OnlyRequest(t) /\ Stays(t)
    /\ req[t].pc # "idle" /\ req'[t].pc = req[t].pc /\ req'[t].attempt = req[t].attempt
    /\ req[t].probe = "pending" /\ req'[t].probe # "pending"
    /\ req'[t].probe = "absent" => ~chrome[req[t].prof]
    /\ UNCHANGED <<up, records, registry, chrome, lifecycleLock, runtime, mon, expected>>

KReturn(t) ==
    /\ OnlyRequest(t) /\ req[t].pc = "queued" /\ req'[t].pc = "idle"
    /\ \A q \in Profiles : lifecycleLock'[q] = lifecycleLock[q]
    /\ UNCHANGED <<up, records, registry, chrome, runtime, mon, expected>>

KEnter(t, s) ==
    LET p == req[t].prof IN
    /\ OnlyRequest(t)
    /\ req'[t].pc = "preflight" /\ req'[t].probe = "pending"
    /\ req'[t].prof = p /\ req'[t].op = "start"
    /\ OnlyLock(p, t) /\ OnlyStatus(p, s) /\ NotGone(p)
    /\ \/ /\ req[t].pc = "queued" /\ lifecycleLock[p] = NoRequest
          /\ \/ s = records[p].status /\ s # "running"
             \/ /\ runtime[p] = NoMonitor /\ records[p].status # "stopped"
                /\ s = "error" \/ (s = "stopped" /\ ~chrome[p])
       \/ /\ req[t].pc \in {"shutdown", "killed"} /\ req[t].op # "start"
          /\ s = "error" \/ (s = "stopped" /\ ~chrome[p])
    /\ UNCHANGED <<up, chrome, runtime, mon, expected>>

KFinish(t, s) ==
    LET p == req[t].prof IN
    /\ OnlyRequest(t) /\ req'[t].pc = "idle"
    /\ OnlyLock(p, NoRequest) /\ OnlyStatus(p, s) /\ NotGone(p)
    /\ \/ /\ req[t].pc = "queued" /\ lifecycleLock[p] = NoRequest /\ runtime[p] = NoMonitor
          /\ records[p].status # "stopped"
       \/ req[t].pc = "preflight"
       \/ req[t].pc = "retrywait" /\ req[t].op = "start" /\ s = "error"
       \/ req[t].pc \in {"shutdown", "killed"} /\ req[t].op # "start"
    /\ \/ s = "error"
       \/ s = "stopped" /\ ~chrome[p]
       \/ s = "stopped" /\ req[t].pc = "preflight" /\ req[t].probe = "absent"
       \/ s = records[p].status /\ req[t].pc = "preflight"
    /\ UNCHANGED <<up, chrome, runtime, mon, expected>>

(* Without p there is room for one more under the limit.                     *)
RoomFor(p) == Cardinality(StartingOrRunning(records) \ {p}) < SoftLimit

KAttempt(t, s) ==
    LET p == req[t].prof IN
    /\ OnlyRequest(t) /\ Stays(t) /\ req[t].op = "start"
    /\ \/ /\ req[t].pc = "preflight" /\ req[t].probe = "absent" /\ s = "starting"
          /\ RoomFor(p) /\ req'[t].attempt = 0
       \/ /\ req[t].pc = "retrywait" /\ s = records[p].status
          /\ RetryLeft(t) /\ req'[t].attempt = req[t].attempt + 1
    /\ req'[t].pc = "launching" => LaunchMode[p] # "native"
    /\ \/ req'[t].pc \in {"launching", "shutdown", "retrywait"} /\ chrome' = chrome
       \/ /\ req'[t].pc = "observe"
          /\ chrome'[p] /\ \A q \in Profiles : q # p => chrome'[q] = chrome[q]
    /\ OnlyStatus(p, s)
    /\ UNCHANGED <<up, lifecycleLock, runtime, mon, expected>>

KSpawn(t) ==
    LET p == req[t].prof IN
    /\ OnlyRequest(t) /\ Stays(t) /\ req[t].op = "start"
    /\ req[t].pc = "launching" /\ req'[t].pc = "readying" /\ req'[t].attempt = req[t].attempt
    /\ chrome'[p] /\ \A q \in Profiles : q # p => chrome'[q] = chrome[q]
    /\ StatusSame
    /\ UNCHANGED <<up, lifecycleLock, runtime, mon, expected>>

KMove(t) ==
    /\ OnlyRequest(t) /\ Stays(t)
    /\ \/ /\ req[t].op = "start" /\ req[t].pc \in StartPcs
          /\ req'[t].pc \in {"observe", "shutdown", "killed", "retrywait"}
          /\ StartStage[req'[t].pc] < StartStage[req[t].pc]
          /\ req'[t].pc = "observe" => req[t].pc = "readying"
          /\ req[t].pc = "launching" => chrome' = chrome
          /\ req'[t].attempt = req[t].attempt
       \/ req[t].op # "start" /\ req[t].pc = "shutdown" /\ req'[t].pc = "killed"
    /\ NoneBorn /\ StatusSame
    /\ UNCHANGED <<up, lifecycleLock, runtime, mon, expected>>

KRun(t, m) ==
    LET p == req[t].prof IN
    /\ OnlyRequest(t) /\ req[t].pc = "observe" /\ req'[t].pc = "idle"
    /\ OnlyLock(p, NoRequest) /\ OnlyStatus(p, "running")
    /\ Fresh(m) /\ OnlyMonitor(m)
    /\ mon'[m].pc = "top" /\ mon'[m].prof = p /\ mon'[m].probe = "none"
    /\ runtime'[p] = m /\ \A q \in Profiles : q # p => runtime'[q] = runtime[q]
    /\ expected' = expected \ {m}
    /\ UNCHANGED <<up, chrome>>

Dropped(p) ==
    /\ runtime'[p] = NoMonitor /\ \A q \in Profiles : q # p => runtime'[q] = runtime[q]
    /\ OnlyMonitor(runtime[p])
    /\ runtime[p] # NoMonitor => mon'[runtime[p]].pc = "done"

KStopRuntime(t) ==
    LET p == req[t].prof IN
    /\ OnlyRequest(t) /\ Stays(t) /\ req[t].op # "start"
    /\ req[t].pc = "queued" /\ req'[t].pc = "shutdown"
    /\ lifecycleLock[p] = NoRequest /\ OnlyLock(p, t)
    /\ OnlyStatus(p, "stopping") /\ records[p].status # "stopped"
    /\ Dropped(p) /\ expected' = expected \cup {runtime[p]}
    /\ UNCHANGED <<up, chrome>>

KStatusKeeps(t) ==
    /\ OnlyRequest(t) /\ req[t].pc = "status" /\ req'[t].pc = "idle"
    /\ StatusSame
    /\ UNCHANGED <<up, chrome, lifecycleLock, runtime, mon, expected>>

KStatusDrops(t) ==
    LET p == req[t].prof IN
    /\ OnlyRequest(t) /\ req[t].pc = "status"
    /\ Dropped(p)
    /\ \/ req'[t].pc = "closing" /\ Stays(t) /\ StatusSame
       \/ req'[t].pc = "idle" /\ OnlyStatus(p, "error")
    /\ UNCHANGED <<up, chrome, lifecycleLock, expected>>

KStatusMarks(t) ==
    /\ OnlyRequest(t) /\ req[t].pc = "closing" /\ req'[t].pc = "idle"
    /\ OnlyStatus(req[t].prof, "error")
    /\ UNCHANGED <<up, chrome, lifecycleLock, runtime, mon, expected>>

KMonitorLives(m) ==
    /\ OnlyMonitor(m) /\ mon[m].pc # "done" /\ mon'[m].prof = mon[m].prof
    /\ \/ mon'[m].pc = mon[m].pc /\ mon'[m].rt = mon[m].rt
       \/ mon'[m].pc \in {"top", "closing"}
       \/ mon'[m].pc = "query" /\ mon'[m].rt = runtime[mon[m].prof]
    /\ mon'[m].probe = "absent" => mon[m].probe = "absent" \/ ~chrome[mon[m].prof]
    /\ mon'[m].pc = "closing" => mon[m].pc = "closing" \/ mon[m].probe = "absent"
    /\ StatusSame
    /\ UNCHANGED <<up, chrome, lifecycleLock, req, runtime, expected>>

KMonitorEnds(m) ==
    LET p == mon[m].prof IN
    /\ OnlyMonitor(m) /\ mon[m].pc # "done" /\ mon'[m].pc = "done"
    /\ records[p].status # "running" \/ runtime[p] = NoMonitor
    /\ UNCHANGED <<up, records, registry, chrome, lifecycleLock, req, runtime, expected>>

KMonitorMarks(m, s) ==
    LET p == mon[m].prof IN
    /\ OnlyMonitor(m) /\ mon[m].pc # "done" /\ mon'[m].pc = "done"
    /\ OnlyStatus(p, s) /\ s \in {"stopped", "error"}
    /\ mon[m].pc = "closing" \/ mon[m].probe = "absent"
    /\ LaunchMode[p] = "native" => mon[m].pc = "query" /\ (s = "stopped" => mon[m].rt \in expected)
    /\ UNCHANGED <<up, chrome, lifecycleLock, req, runtime, expected>>

KExit ==
    /\ NoneBorn
    /\ UNCHANGED <<up, records, registry, lifecycleLock, req, runtime, mon, expected>>

RequestKind(t) ==
    \/ KCall(t) \/ KAnswer(t) \/ KReturn(t) \/ KSpawn(t) \/ KMove(t) \/ KStopRuntime(t)
    \/ \E s \in Statuses : KEnter(t, s) \/ KFinish(t, s) \/ KAttempt(t, s)
    \/ \E m \in Monitors : KRun(t, m)
    \/ KStatusKeeps(t) \/ KStatusDrops(t) \/ KStatusMarks(t)

MonitorKind(m) ==
    \/ KMonitorLives(m) \/ KMonitorEnds(m)
    \/ \E s \in Statuses : KMonitorMarks(m, s)

(* The fields that stay and those that change when a task is suspended.      *)
LEMMA SuspendFields ==
    ASSUME NEW q \in Request, NEW pc, NEW probe, NEW a, NEW f, NEW b
    PROVE  /\ LET s == [q EXCEPT !.pc = pc, !.probe = probe] IN
              /\ s.pc = pc /\ s.probe = probe /\ s.prof = q.prof /\ s.op = q.op
              /\ s.attempt = q.attempt
           /\ LET s == [[q EXCEPT !.pc = pc, !.probe = probe] EXCEPT !.attempt = a] IN
              s.pc = pc /\ s.prof = q.prof /\ s.op = q.op /\ s.attempt = a
           /\ LET s == [[q EXCEPT !.pc = pc, !.probe = probe] EXCEPT !.fail = f, !.attempt = a] IN
              s.pc = pc /\ s.prof = q.prof /\ s.op = q.op /\ s.attempt = a
           /\ LET s == [[q EXCEPT !.pc = pc, !.probe = probe] EXCEPT !.op = "start", !.recovering = b] IN
              s.pc = pc /\ s.probe = probe /\ s.prof = q.prof /\ s.op = "start"
BY DEF Request

LEMMA RecordFields ==
    ASSUME NEW r \in Record, NEW s, NEW e
    PROVE  /\ r.status \in Statuses
           /\ [r EXCEPT !.status = s, !.err = e].status = s
           /\ [r EXCEPT !.status = s].status = s
           /\ [r EXCEPT !.err = e].status = r.status
           /\ [r EXCEPT !.status = s, !.err = e].err = e
           /\ [r EXCEPT !.err = e].err = e
           /\ [r EXCEPT !.rootPid = TRUE].status = r.status
           /\ NewProfile.status = "stopped" /\ NewProfile.err = "none"
BY DEF Record, NewProfile

LEMMA RequestSet ==
    ASSUME TypeInv, NEW t \in Requests, NEW q, req' = [req EXCEPT ![t] = q]
    PROVE  OnlyRequest(t) /\ req'[t] = q
BY DEF TypeInv, TypeOK, OnlyRequest

LEMMA MonitorSet ==
    ASSUME TypeInv, NEW m \in Monitors, NEW k, mon' = [mon EXCEPT ![m] = k]
    PROVE  OnlyMonitor(m) /\ mon'[m] = k
BY DEF TypeInv, TypeOK, OnlyMonitor

LEMMA StatusSaved ==
    ASSUME TypeInv, NEW p \in Profiles, NEW r, SetRecord(p, r), Save
    PROVE  OnlyStatus(p, r.status)
BY DEF TypeInv, TypeOK, OnlyStatus, SetRecord, Save, AgreementKept, RegistryAgrees

LEMMA ErrorWritten ==
    ASSUME TypeInv, NEW p \in Profiles, NEW r, SetRecord(p, r), r.err # "gone"
    PROVE  NotGone(p)
BY DEF TypeInv, TypeOK, SetRecord, NotGone

(* A record written in memory or on disk with the status it had.             *)
LEMMA StatusKept ==
    ASSUME TypeInv, NEW p \in Profiles, NEW r, SetRecord(p, r), r.status = records[p].status,
           Save \/ UNCHANGED registry
    PROVE  StatusSame
BY DEF TypeInv, TypeOK, StatusSame, SetRecord, Save, AgreementKept, RegistryAgrees

LEMMA NothingWritten ==
    ASSUME UNCHANGED <<records, registry>>
    PROVE  StatusSame
BY DEF StatusSame, AgreementKept, RegistryAgrees

LEMMA Returned ==
    ASSUME TypeInv, NEW t \in Requests, NEW p \in Profiles, Return(t, p)
    PROVE  OnlyRequest(t) /\ req'[t].pc = "idle" /\ OnlyLock(p, NoRequest)
<1>1. OnlyRequest(t) /\ req'[t] = Idle
  BY RequestSet DEF Return
<1>2. OnlyLock(p, NoRequest)
  BY DEF Return, OnlyLock, TypeInv, TypeOK
<1> QED
  BY <1>1, <1>2 DEF Idle

LEMMA Entered ==
    ASSUME TypeInv, NEW t \in Requests, NEW p \in Profiles, NEW r, EnterStart(t, p, r),
           p = req[t].prof
    PROVE  /\ OnlyRequest(t) /\ OnlyLock(p, t)
           /\ req'[t].pc = "preflight" /\ req'[t].probe = "pending"
           /\ req'[t].prof = p /\ req'[t].op = "start"
<1> DEFINE q == [Suspend(t, "preflight", "pending")
                   EXCEPT !.op = "start", !.recovering = (r.err = "recovery")]
<1>1. OnlyRequest(t) /\ req'[t] = q
  BY RequestSet DEF EnterStart
<1>2. OnlyLock(p, t)
  BY DEF EnterStart, OnlyLock, TypeInv, TypeOK
<1>3. req[t] \in Request
  BY DEF TypeInv, TypeOK
<1>4. q.pc = "preflight" /\ q.probe = "pending" /\ q.prof = p /\ q.op = "start"
  BY <1>3, SuspendFields DEF Suspend
<1> QED
  BY <1>1, <1>2, <1>4

LEMMA Suspended ==
    ASSUME TypeInv, NEW t \in Requests, NEW pc, NEW probe,
           req' = [req EXCEPT ![t] = Suspend(t, pc, probe)]
    PROVE  /\ OnlyRequest(t) /\ Stays(t) /\ req'[t].pc = pc
           /\ req'[t].attempt = req[t].attempt
<1>1. OnlyRequest(t) /\ req'[t] = Suspend(t, pc, probe)
  BY RequestSet
<1>2. req[t] \in Request
  BY DEF TypeInv, TypeOK
<1>3. LET s == Suspend(t, pc, probe) IN
      s.pc = pc /\ s.prof = req[t].prof /\ s.op = req[t].op /\ s.attempt = req[t].attempt
  BY <1>2, SuspendFields DEF Suspend
<1> QED
  BY <1>1, <1>3 DEF Stays

LEMMA FailKind ==
    ASSUME TypeInv, NEW t \in Requests, NEW r \in Record, NEW f, NEW pc, NEW a,
           FailAttempt(t, r, f, pc, a)
    PROVE  /\ OnlyRequest(t) /\ Stays(t) /\ req'[t].pc = pc /\ req'[t].attempt = a
           /\ SetRecord(req[t].prof, [r EXCEPT !.err = f])
<1> DEFINE probe == IF pc = "shutdown" THEN "pending" ELSE "none"
           q == [Suspend(t, pc, probe) EXCEPT !.fail = f, !.attempt = a]
<1>1. req' = [req EXCEPT ![t] = q] /\ SetRecord(req[t].prof, [r EXCEPT !.err = f])
  BY DEF FailAttempt
<1>2. OnlyRequest(t) /\ req'[t] = q
  <2> HIDE DEF q
  <2> QED BY <1>1, RequestSet
<1>3. req[t] \in Request
  BY DEF TypeInv, TypeOK
<1>4. q.pc = pc /\ q.prof = req[t].prof /\ q.op = req[t].op /\ q.attempt = a
  <2> HIDE DEF probe
  <2> QED BY <1>3, SuspendFields DEF Suspend
<1> HIDE DEF q
<1> QED
  BY <1>1, <1>2, <1>4 DEF Stays

LEMMA AttemptKind ==
    ASSUME TypeInv, NEW t \in Requests, NEW r \in Record, NEW a, req[t].prof \in Profiles,
           BeginAttempt(t, r, a)
    PROVE  /\ OnlyRequest(t) /\ Stays(t) /\ req'[t].attempt = a
           /\ req'[t].pc = "launching" => LaunchMode[req[t].prof] # "native"
           /\ \/ req'[t].pc \in {"launching", "shutdown", "retrywait"} /\ chrome' = chrome
              \/ /\ req'[t].pc = "observe"
                 /\ chrome'[req[t].prof]
                 /\ \A q \in Profiles : q # req[t].prof => chrome'[q] = chrome[q]
           /\ OnlyStatus(req[t].prof, r.status)
<1> DEFINE p == req[t].prof
<1>0. req[t] \in Request
  BY DEF TypeInv, TypeOK
<1>1. CASE /\ FailAttempt(t, r, "other", CleanupWithoutRuntime(r), a)
           /\ registry' = [records' EXCEPT ![p] = r]
           /\ UNCHANGED chrome
  <2>1. /\ OnlyRequest(t) /\ Stays(t) /\ req'[t].pc = CleanupWithoutRuntime(r)
        /\ req'[t].attempt = a
        /\ SetRecord(p, [r EXCEPT !.err = "other"])
    BY <1>1, FailKind
  <2>2. OnlyStatus(p, r.status)
    <3>1. [r EXCEPT !.err = "other"].status = r.status
      BY RecordFields
    <3> QED
      BY <1>1, <2>1, <3>1
         DEF OnlyStatus, SetRecord, AgreementKept, RegistryAgrees, TypeInv, TypeOK
  <2> QED
    BY <1>1, <2>1, <2>2 DEF CleanupWithoutRuntime
<1>2. CASE /\ LaunchMode[p] = "native"
           /\ chrome' = [chrome EXCEPT ![p] = TRUE]
           /\ SetRecord(p, [r EXCEPT !.rootPid = TRUE])
           /\ Save
           /\ req' = [req EXCEPT ![t] = [Suspend(t, "observe", "pending") EXCEPT !.attempt = a]]
  <2> DEFINE s == [Suspend(t, "observe", "pending") EXCEPT !.attempt = a]
  <2>1. s.pc = "observe" /\ s.prof = p /\ s.op = req[t].op /\ s.attempt = a
    BY <1>0, SuspendFields DEF Suspend
  <2>2. OnlyRequest(t) /\ req'[t] = s
    BY <1>2, RequestSet
  <2>3. OnlyStatus(p, r.status)
    <3>1. [r EXCEPT !.rootPid = TRUE].status = r.status
      BY RecordFields
    <3> QED
      BY <1>2, <3>1, StatusSaved
  <2>4. chrome'[p] /\ \A q \in Profiles : q # p => chrome'[q] = chrome[q]
    BY <1>2 DEF TypeInv, TypeOK
  <2> HIDE DEF s
  <2> QED
    BY <2>1, <2>2, <2>3, <2>4 DEF Stays
<1>3. CASE /\ LaunchMode[p] # "native"
           /\ SetRecord(p, r)
           /\ Save
           /\ req' = [req EXCEPT ![t] = [Suspend(t, "launching", "none") EXCEPT !.attempt = a]]
           /\ UNCHANGED chrome
  <2> DEFINE s == [Suspend(t, "launching", "none") EXCEPT !.attempt = a]
  <2>1. s.pc = "launching" /\ s.prof = p /\ s.op = req[t].op /\ s.attempt = a
    BY <1>0, SuspendFields DEF Suspend
  <2>2. OnlyRequest(t) /\ req'[t] = s
    BY <1>3, RequestSet
  <2>3. OnlyStatus(p, r.status)
    BY <1>3, StatusSaved
  <2> HIDE DEF s
  <2> QED
    BY <1>3, <2>1, <2>2, <2>3 DEF Stays
<1> QED
  BY <1>1, <1>2, <1>3 DEF BeginAttempt

(* The limit was not reached, whatever the count took p for.                 *)
LEMMA RoomLeft ==
    ASSUME TypeInv, NEW p \in Profiles, NEW r, ~LimitReached([records EXCEPT ![p] = r])
    PROVE  RoomFor(p)
<1> DEFINE counted == StartingOrRunning([records EXCEPT ![p] = r])
           others == StartingOrRunning(records) \ {p}
<1>1. others \subseteq counted /\ counted \subseteq Profiles
  BY DEF StartingOrRunning, TypeInv, TypeOK
<1>2. IsFiniteSet(counted)
  BY <1>1, FiniteAssumption, FS_Subset
<1>3. Cardinality(others) \in Nat /\ Cardinality(counted) \in Nat
      /\ Cardinality(others) <= Cardinality(counted)
  BY <1>1, <1>2, FS_Subset, FS_CardinalityType
<1>4. ~(Cardinality(counted) >= SoftLimit)
  BY DEF LimitReached
<1> QED
  BY <1>3, <1>4, BoundAssumption DEF RoomFor

(* The status a stop ends with, and where it leaves the request.             *)
LEMMA EndStopKind ==
    ASSUME TypeInv, NEW t \in Requests, req[t].prof \in Profiles, NEW b \in BOOLEAN,
           EndStop(t, req[t].prof, b)
    PROVE  \E s \in {"error", "stopped"} :
             /\ OnlyStatus(req[t].prof, s) /\ NotGone(req[t].prof)
             /\ s = "stopped" => ~chrome[req[t].prof]
             /\ OnlyRequest(t)
             /\ \/ req'[t].pc = "idle" /\ OnlyLock(req[t].prof, NoRequest)
                \/ /\ req'[t].pc = "preflight" /\ req'[t].probe = "pending"
                   /\ req'[t].prof = req[t].prof /\ req'[t].op = "start"
                   /\ OnlyLock(req[t].prof, t)
<1> DEFINE p == req[t].prof
<1>1. PICK r \in StopOutcomes(p, b) :
         /\ SetRecord(p, r) /\ Save
         /\ IF req[t].op = "restart" THEN EnterStart(t, p, r) ELSE Return(t, p)
  BY DEF EndStop
<1>2. records[p] \in Record
  BY DEF TypeInv, TypeOK
<1>3. /\ r.status \in {"error", "stopped"} /\ (r.status = "stopped" => ~chrome[p])
      /\ r.err # "gone"
  <2>1. CASE r = [records[p] EXCEPT !.status = "error", !.err = "probe"]
    BY <1>2, <2>1, RecordFields
  <2>2. CASE r = [records[p] EXCEPT !.status = "error", !.err = "other"]
    BY <1>2, <2>2, RecordFields
  <2>3. CASE r = NewProfile /\ ~chrome[p]
    BY <2>3 DEF NewProfile
  <2> QED
    BY <1>1, <2>1, <2>2, <2>3 DEF StopOutcomes
<1>4. OnlyStatus(p, r.status) /\ NotGone(p)
  BY <1>1, <1>3, StatusSaved, ErrorWritten
<1>5. CASE req[t].op = "restart"
  BY <1>1, <1>3, <1>4, <1>5, Entered
<1>6. CASE req[t].op # "restart"
  BY <1>1, <1>3, <1>4, <1>6, Returned
<1> QED
  BY <1>5, <1>6

LEMMA CancelKind ==
    ASSUME TypeInv, NEW p \in Profiles, Cancel(runtime[p]),
           runtime' = [runtime EXCEPT ![p] = NoMonitor]
    PROVE  Dropped(p)
<1>1. runtime'[p] = NoMonitor /\ \A q \in Profiles : q # p => runtime'[q] = runtime[q]
  BY DEF TypeInv, TypeOK
<1>2. OnlyMonitor(runtime[p]) /\ (runtime[p] # NoMonitor => mon'[runtime[p]].pc = "done")
  BY DEF Cancel, OnlyMonitor, TypeInv, TypeOK, Done
<1> QED
  BY <1>1, <1>2 DEF Dropped

LEMMA RequestFacts ==
    ASSUME TypeInv, NEW t \in Requests, req[t].pc # "idle"
    PROVE  /\ req[t].prof \in Profiles /\ GoodRequest(req[t]) /\ req[t] \in Request
           /\ records[req[t].prof] \in Record /\ records[req[t].prof].status \in Statuses
           /\ chrome[req[t].prof] \in BOOLEAN
<1>1. req[t].prof \in Profiles /\ GoodRequest(req[t]) /\ req[t] \in Request
  BY DEF TypeInv, TypeOK, GoodRequest
<1>2. records[req[t].prof] \in Record
  BY <1>1 DEF TypeInv, TypeOK
<1>3. chrome[req[t].prof] \in BOOLEAN
  BY <1>1 DEF TypeInv, TypeOK
<1> QED
  BY <1>1, <1>2, <1>3, RecordFields

LEMMA Stages ==
    /\ StartStage["retrywait"] = 1 /\ StartStage["killed"] = 2 /\ StartStage["shutdown"] = 3
    /\ StartStage["observe"] = 4 /\ StartStage["readying"] = 5 /\ StartStage["launching"] = 6
BY DEF StartStage

LEMMA CallKinds ==
    ASSUME TypeInv, NEW t \in Requests
    PROVE  /\ ProbeRequest(t) => KAnswer(t)
           /\ \A op \in Ops, p \in Profiles : Call(t, op, p) => KCall(t)
<1>1. ASSUME ProbeRequest(t) PROVE KAnswer(t)
  <2>1. PICK a \in OSProbe(req[t].prof) : req' = [req EXCEPT ![t] = [req[t] EXCEPT !.probe = a]]
    BY <1>1 DEF ProbeRequest
  <2>2. req[t] \in Request
    BY DEF TypeInv, TypeOK
  <2>3. OnlyRequest(t) /\ req'[t] = [req[t] EXCEPT !.probe = a]
    BY <2>1, RequestSet
  <2>4. /\ req'[t].probe = a /\ req'[t].pc = req[t].pc /\ req'[t].prof = req[t].prof
        /\ req'[t].op = req[t].op /\ req'[t].attempt = req[t].attempt
    BY <2>2, <2>3 DEF Request
  <2>5. req[t].pc # "idle"
    BY <1>1 DEF ProbeRequest, TypeInv, GoodRequest
  <2>6. (a = "absent" => ~chrome[req[t].prof]) /\ a # "pending"
    BY <2>1 DEF OSProbe
  <2> QED
    BY <1>1, <2>3, <2>4, <2>5, <2>6 DEF KAnswer, Stays, ProbeRequest
<1>2. ASSUME NEW op \in Ops, NEW p \in Profiles, Call(t, op, p) PROVE KCall(t)
  <2> DEFINE q == [Idle EXCEPT !.op = op, !.prof = p,
                               !.pc = IF op = "status" THEN "status" ELSE "queued",
                               !.probe = IF op = "status" THEN "pending" ELSE "none"]
  <2>1. q.pc \in {"queued", "status"} /\ (q.pc = "status" => "status" \in Ops)
    BY DEF Idle
  <2>2. req' = [req EXCEPT ![t] = q]
    BY <1>2 DEF Call
  <2> HIDE DEF q
  <2>3. OnlyRequest(t) /\ req'[t] = q
    BY <2>2, RequestSet
  <2> QED
    BY <1>2, <2>1, <2>3 DEF Call, KCall
<1> QED
  BY <1>1, <1>2

LEMMA StartKinds ==
    ASSUME TypeInv, NEW t \in Requests, StartStep(t)
    PROVE  RequestKind(t)
<1> DEFINE p == req[t].prof
<1>a. req[t].pc # "idle"
  BY DEF StartStep, AcquireForStart, PreflightFails, SoftLimitRefuses, FirstAttempt, Spawn,
         SpawnFails, Ready, ReadyFails, Observed, NotObserved, NextAttempt, StartFails, At
<1>b. /\ p \in Profiles /\ GoodRequest(req[t]) /\ req[t] \in Request
      /\ records[p] \in Record /\ records[p].status \in Statuses
  BY <1>a, RequestFacts
<1>c. req[t].pc \in {"preflight", "launching", "readying", "observe", "retrywait"}
        => req[t].op = "start"
  BY <1>b DEF GoodRequest
<1>1. CASE AcquireForStart(t)
  <2>1. CASE records[p].status = "running"
    <3>1. Return(t, p)
      BY <1>1, <2>1 DEF AcquireForStart
    <3>2. OnlyRequest(t) /\ req'[t].pc = "idle" /\ OnlyLock(p, NoRequest)
      BY <1>b, <3>1, Returned
    <3>3. KReturn(t)
      BY <1>1, <3>2 DEF AcquireForStart, At, KReturn, OnlyLock
    <3> QED
      BY <3>3 DEF RequestKind
  <2>2. CASE records[p].status # "running"
    <3>1. EnterStart(t, p, records[p])
      BY <1>1, <2>2 DEF AcquireForStart
    <3>2. OnlyStatus(p, records[p].status) /\ NotGone(p)
      BY <1>1, NothingWritten DEF AcquireForStart, OnlyStatus, StatusSame, NotGone
    <3>3. KEnter(t, records[p].status)
      BY <1>b, <1>1, <2>2, <3>1, <3>2, Entered DEF AcquireForStart, At, KEnter
    <3> QED
      BY <1>b, <3>3 DEF RequestKind
  <2> QED
    BY <2>1, <2>2
<1>2. CASE PreflightFails(t)
  <2>1. OnlyStatus(p, "error") /\ NotGone(p)
    <3> DEFINE r == [records[p] EXCEPT !.status = "error", !.err = "recovery"]
    <3>1. r.status = "error" /\ r.err # "gone"
      BY <1>b, RecordFields
    <3>2. SetRecord(p, r) /\ Save
      BY <1>2 DEF PreflightFails
    <3> HIDE DEF r
    <3> QED
      BY <1>b, <3>1, <3>2, StatusSaved, ErrorWritten
  <2>2. KFinish(t, "error")
    BY <1>b, <1>2, <2>1, Returned DEF PreflightFails, At, KFinish
  <2> QED
    BY <2>2 DEF RequestKind, Statuses
<1>3. Recovered(t) \in Record /\ Recovered(t).status \in {"stopped", records[p].status}
  BY <1>b, NewProfileTyped, RecordFields DEF Recovered
<1>4. CASE SoftLimitRefuses(t)
  <2> DEFINE s == Recovered(t).status
  <2>1. OnlyStatus(p, s) /\ NotGone(p)
    <3> DEFINE r == [Recovered(t) EXCEPT !.err = "other"]
    <3>1. r.status = s /\ r.err # "gone"
      BY <1>3, RecordFields
    <3>2. SetRecord(p, r) /\ Save
      BY <1>4 DEF SoftLimitRefuses
    <3> HIDE DEF r
    <3> QED
      BY <1>b, <3>1, <3>2, StatusSaved, ErrorWritten
  <2>2. KFinish(t, s)
    BY <1>b, <1>3, <1>4, <2>1, Returned DEF SoftLimitRefuses, PreflightClean, At, KFinish
  <2>3. s \in Statuses
    BY <1>b, <1>3 DEF Statuses
  <2> QED
    BY <2>2, <2>3 DEF RequestKind
<1>5. CASE FirstAttempt(t)
  <2> DEFINE r == [Recovered(t) EXCEPT !.status = "starting", !.err = "none"]
  <2>1. r \in Record /\ r.status = "starting"
    <3>1. r \in Record
      BY <1>3, RecordUpdates DEF Statuses, Errors
    <3>2. r.status = "starting"
      BY <1>3, RecordFields
    <3> QED
      BY <3>1, <3>2
  <2>2. BeginAttempt(t, r, 0)
    BY <1>5 DEF FirstAttempt
  <2> HIDE DEF r
  <2>3. RoomFor(p)
    BY <1>b, <1>5, RoomLeft DEF FirstAttempt
  <2>4. KAttempt(t, "starting")
    BY <1>b, <1>c, <1>5, <2>1, <2>2, <2>3, AttemptKind
       DEF FirstAttempt, PreflightClean, At, KAttempt
  <2> QED
    BY <2>4 DEF RequestKind, Statuses
<1>6. CASE Spawn(t)
  <2>1. chrome'[p] /\ \A q \in Profiles : q # p => chrome'[q] = chrome[q]
    BY <1>b, <1>6 DEF Spawn, TypeInv, TypeOK
  <2>2. StatusSame
    <3>1. [records[p] EXCEPT !.rootPid = TRUE].status = records[p].status
      BY <1>b, RecordFields
    <3> QED
      BY <1>b, <1>6, <3>1, StatusKept, NothingWritten DEF Spawn
  <2>3. KSpawn(t)
    BY <1>b, <1>c, <1>6, <2>1, <2>2, Suspended DEF Spawn, At, KSpawn
  <2> QED
    BY <2>3 DEF RequestKind
<1>7. ASSUME NEW f, NEW pc \in {"shutdown", "retrywait"},
             FailAttempt(t, records[p], f, pc, req[t].attempt),
             UNCHANGED <<up, registry, chrome, lifecycleLock, runtime, mon, expected>>,
             req[t].pc \in {"launching", "readying", "observe"}
      PROVE  RequestKind(t)
  <2>1. /\ OnlyRequest(t) /\ Stays(t) /\ req'[t].pc = pc /\ req'[t].attempt = req[t].attempt
        /\ SetRecord(p, [records[p] EXCEPT !.err = f])
    BY <1>b, <1>7, FailKind
  <2>2. StatusSame
    <3>1. [records[p] EXCEPT !.err = f].status = records[p].status
      BY <1>b, RecordFields
    <3> QED
      BY <1>b, <1>7, <2>1, <3>1, StatusKept
  <2>3. StartStage[pc] < StartStage[req[t].pc]
    BY <1>7, Stages
  <2>4. KMove(t)
    BY <1>b, <1>c, <1>7, <2>1, <2>2, <2>3 DEF KMove, StartPcs, NoneBorn
  <2> QED
    BY <2>4 DEF RequestKind
<1>8. CASE SpawnFails(t)
  BY <1>7, <1>8 DEF SpawnFails, At, CleanupWithoutRuntime
<1>9. CASE ReadyFails(t)
  BY <1>7, <1>9 DEF ReadyFails, At
<1>10. CASE NotObserved(t)
  BY <1>7, <1>10 DEF NotObserved, At
<1>11. CASE Ready(t)
  <2>1. StartStage["observe"] < StartStage["readying"]
    BY Stages
  <2>2. KMove(t)
    BY <1>b, <1>c, <1>11, <2>1, Suspended, NothingWritten
       DEF Ready, At, KMove, StartPcs, NoneBorn
  <2> QED
    BY <2>2 DEF RequestKind
<1>12. CASE Observed(t)
  <2>1. PICK m \in Monitors :
          /\ Fresh(m)
          /\ mon' = [mon EXCEPT ![m] = [Done EXCEPT !.prof = p, !.pc = "top"]]
          /\ runtime' = [runtime EXCEPT ![p] = m]
          /\ expected' = expected \ {m}
    BY <1>12 DEF Observed
  <2>2. OnlyMonitor(m) /\ mon'[m].pc = "top" /\ mon'[m].prof = p /\ mon'[m].probe = "none"
    <3> DEFINE k == [Done EXCEPT !.prof = p, !.pc = "top"]
    <3>1. k.pc = "top" /\ k.prof = p /\ k.probe = "none"
      BY DEF Done
    <3> HIDE DEF k
    <3> QED
      BY <2>1, <3>1, MonitorSet DEF k
  <2>3. runtime'[p] = m /\ \A q \in Profiles : q # p => runtime'[q] = runtime[q]
    BY <1>b, <2>1 DEF TypeInv, TypeOK
  <2>4. OnlyStatus(p, "running")
    <3> DEFINE r == [status |-> "running", err |-> "none", rootPid |-> TRUE]
    <3>1. r.status = "running" /\ SetRecord(p, r) /\ Save
      BY <1>12 DEF Observed
    <3> HIDE DEF r
    <3> QED
      BY <1>b, <3>1, StatusSaved
  <2>5. KRun(t, m)
    BY <1>b, <1>12, <2>1, <2>2, <2>3, <2>4, Returned DEF Observed, At, KRun
  <2> QED
    BY <2>5 DEF RequestKind
<1>13. CASE NextAttempt(t)
  <2>1. req[t].attempt + 1 # 0
    BY <1>b, BoundAssumption DEF Request
  <2>2. KAttempt(t, records[p].status)
    BY <1>b, <1>c, <1>13, <2>1, AttemptKind DEF NextAttempt, At, KAttempt
  <2> QED
    BY <1>b, <2>2 DEF RequestKind
<1>14. CASE StartFails(t)
  <2>1. OnlyStatus(p, "error") /\ NotGone(p)
    <3> DEFINE r == GiveUp(records[p], req[t].fail)
    <3>1. r.status = "error" /\ r.err # "gone"
      BY <1>b, RecordFields DEF GiveUp, Request, Causes
    <3>2. SetRecord(p, r) /\ Save
      BY <1>14 DEF StartFails
    <3> HIDE DEF r
    <3> QED
      BY <1>b, <3>1, <3>2, StatusSaved, ErrorWritten
  <2>2. KFinish(t, "error")
    BY <1>b, <1>c, <1>14, <2>1, Returned DEF StartFails, At, KFinish
  <2> QED
    BY <2>2 DEF RequestKind, Statuses
<1> QED
  BY <1>1, <1>2, <1>4, <1>5, <1>6, <1>8, <1>9, <1>10, <1>11, <1>12, <1>13, <1>14 DEF StartStep

LEMMA StopKinds ==
    ASSUME TypeInv, NEW t \in Requests, StopStep(t)
    PROVE  RequestKind(t)
<1> DEFINE p == req[t].prof
<1>a. req[t].pc # "idle"
  BY DEF StopStep, AcquireForStop, Kill, ShutdownReturns, At
<1>b. /\ p \in Profiles /\ GoodRequest(req[t]) /\ req[t] \in Request
      /\ records[p] \in Record /\ records[p].status \in Statuses
  BY <1>a, RequestFacts
<1>1. CASE AcquireForStop(t) /\ StopsNothing(t, p)
  <2>1. CASE req[t].op = "restart"
    <3>1. OnlyStatus(p, records[p].status) /\ NotGone(p)
      BY <1>1, NothingWritten DEF StopsNothing, OnlyStatus, StatusSame, NotGone
    <3>2. EnterStart(t, p, records[p])
      BY <1>1, <2>1 DEF StopsNothing
    <3>3. KEnter(t, records[p].status)
      BY <1>b, <1>1, <3>1, <3>2, Entered DEF AcquireForStop, StopsNothing, At, KEnter
    <3> QED
      BY <1>b, <3>3 DEF RequestKind
  <2>2. CASE req[t].op # "restart"
    <3>1. Return(t, p)
      BY <1>1, <2>2 DEF StopsNothing
    <3>2. KReturn(t)
      BY <1>b, <1>1, <3>1, Returned DEF AcquireForStop, StopsNothing, At, KReturn, OnlyLock
    <3> QED
      BY <3>2 DEF RequestKind
  <2> QED
    BY <2>1, <2>2
<1>2. ASSUME NEW b \in BOOLEAN, EndStop(t, p, b), UNCHANGED <<up, chrome, runtime, mon, expected>>,
             \/ /\ req[t].pc = "queued" /\ lifecycleLock[p] = NoRequest /\ runtime[p] = NoMonitor
                /\ records[p].status # "stopped"
             \/ req[t].pc \in {"shutdown", "killed"} /\ req[t].op # "start"
      PROVE  RequestKind(t)
  <2>1. PICK s \in {"error", "stopped"} :
             /\ OnlyStatus(p, s) /\ NotGone(p)
             /\ s = "stopped" => ~chrome[p]
             /\ OnlyRequest(t)
             /\ \/ req'[t].pc = "idle" /\ OnlyLock(p, NoRequest)
                \/ /\ req'[t].pc = "preflight" /\ req'[t].probe = "pending"
                   /\ req'[t].prof = p /\ req'[t].op = "start"
                   /\ OnlyLock(p, t)
    BY <1>b, <1>2, EndStopKind
  <2>2. CASE req'[t].pc = "idle" /\ OnlyLock(p, NoRequest)
    BY <1>2, <2>1, <2>2 DEF KFinish, RequestKind, Statuses
  <2>3. CASE /\ req'[t].pc = "preflight" /\ req'[t].probe = "pending"
             /\ req'[t].prof = p /\ req'[t].op = "start"
             /\ OnlyLock(p, t)
    BY <1>2, <2>1, <2>3 DEF KEnter, RequestKind, Statuses
  <2> QED
    BY <2>1, <2>2, <2>3
<1>3. CASE AcquireForStop(t) /\ StopsOrphan(t, p)
  BY <1>2, <1>3 DEF AcquireForStop, StopsOrphan, At
<1>4. CASE AcquireForStop(t) /\ StopsRuntime(t, p)
  <2>1. OnlyStatus(p, "stopping")
    <3>1. [records[p] EXCEPT !.status = "stopping"].status = "stopping"
      BY <1>b, RecordFields
    <3> QED
      BY <1>b, <1>4, <3>1, StatusSaved DEF StopsRuntime
  <2>2. OnlyLock(p, t)
    BY <1>b, <1>4 DEF StopsRuntime, OnlyLock, TypeInv, TypeOK
  <2>3. Dropped(p)
    BY <1>b, <1>4, CancelKind DEF StopsRuntime
  <2>4. KStopRuntime(t)
    BY <1>b, <1>4, <2>1, <2>2, <2>3, Suspended DEF AcquireForStop, StopsRuntime, At, KStopRuntime
  <2> QED
    BY <2>4 DEF RequestKind
<1>5. CASE Kill(t)
  <2>1. NoneBorn
    BY <1>b, <1>5 DEF Kill, NoneBorn, TypeInv, TypeOK
  <2>2. StartStage["killed"] < StartStage["shutdown"]
    BY Stages
  <2>3. OnlyRequest(t) /\ Stays(t) /\ req'[t].pc = "killed" /\ req'[t].attempt = req[t].attempt
    BY <1>5, Suspended DEF Kill
  <2>4. KMove(t)
    BY <1>5, <2>1, <2>2, <2>3, NothingWritten DEF Kill, At, KMove, StartPcs
  <2> QED
    BY <2>4 DEF RequestKind
<1>6. CASE ShutdownReturns(t)
  <2>1. CASE req[t].op = "start"
    <3>1. KMove(t)
      BY <1>b, <1>6, <2>1, Suspended, NothingWritten, Stages
         DEF ShutdownReturns, At, KMove, StartPcs, NoneBorn
    <3> QED
      BY <3>1 DEF RequestKind
  <2>2. CASE req[t].op # "start"
    BY <1>2, <1>6, <2>2 DEF ShutdownReturns, At
  <2> QED
    BY <2>1, <2>2
<1> QED
  BY <1>1, <1>3, <1>4, <1>5, <1>6 DEF StopStep, AcquireForStop

LEMMA StatusKinds ==
    ASSUME TypeInv, NEW t \in Requests, StatusStep(t)
    PROVE  RequestKind(t)
<1> DEFINE p == req[t].prof
<1>a. req[t].pc # "idle"
  BY DEF StatusStep, StatusProbeFails, StatusAlive, StatusGone, StatusClosed, At
<1>b. /\ p \in Profiles /\ records[p] \in Record
      /\ \A e : [records[p] EXCEPT !.err = e].status = records[p].status
      /\ [records[p] EXCEPT !.status = "error", !.err = "gone"].status = "error"
  BY <1>a, RequestFacts, RecordFields
<1>c. Idle.pc = "idle"
  BY DEF Idle
<1>d. MarkDisappeared(p) => OnlyStatus(p, "error")
  BY <1>b, StatusSaved DEF MarkDisappeared
<1>1. CASE StatusProbeFails(t) \/ StatusAlive(t)
  <2>1. StatusSame
    BY <1>b, <1>1, StatusKept, NothingWritten DEF StatusProbeFails, StatusAlive
  <2>2. KStatusKeeps(t)
    BY <1>c, <1>1, <2>1, RequestSet DEF StatusProbeFails, StatusAlive, At, KStatusKeeps
  <2> QED
    BY <2>2 DEF RequestKind
<1>2. CASE StatusGone(t)
  <2>1. Dropped(p)
    BY <1>b, <1>2, CancelKind DEF StatusGone
  <2>2. CASE LaunchMode[p] # "native" /\ runtime[p] # NoMonitor
    <3>1. KStatusDrops(t)
      BY <1>2, <2>1, <2>2, Suspended, NothingWritten DEF StatusGone, At, KStatusDrops
    <3> QED
      BY <3>1 DEF RequestKind
  <2>3. CASE ~(LaunchMode[p] # "native" /\ runtime[p] # NoMonitor)
    <3>1. KStatusDrops(t)
      BY <1>c, <1>d, <1>2, <2>1, <2>3, RequestSet DEF StatusGone, At, KStatusDrops
    <3> QED
      BY <3>1 DEF RequestKind
  <2> QED
    BY <2>2, <2>3
<1>3. CASE StatusClosed(t)
  <2>1. KStatusMarks(t)
    BY <1>c, <1>d, <1>3, RequestSet DEF StatusClosed, At, KStatusMarks
  <2> QED
    BY <2>1 DEF RequestKind
<1> QED
  BY <1>1, <1>2, <1>3 DEF StatusStep

LEMMA MonitorKinds ==
    ASSUME TypeInv, NEW m \in Monitors, MonitorStep(m)
    PROVE  MonitorKind(m)
<1> DEFINE p == mon[m].prof
<1>a. /\ mon[m].pc # "done" /\ p \in Profiles /\ mon[m] \in Monitor /\ GoodMonitor(mon[m])
      /\ records[p] \in Record
  <2>1. mon[m].pc # "done"
    BY DEF MonitorStep, MonitorTop, MonitorProbeFails, MonitorAlive, MonitorGone,
           MonitorClosed, MonitorAt, ProbeMonitor, TypeInv, GoodMonitor
  <2> QED
    BY <2>1 DEF TypeInv, TypeOK, GoodMonitor
<1>b. Done.pc = "done"
  BY DEF Done
<1>c. MonitorSleeps(m).pc = "top" /\ MonitorSleeps(m).prof = p /\ MonitorSleeps(m).probe = "none"
  BY <1>a DEF MonitorSleeps, Monitor
<1>1. CASE ProbeMonitor(m)
  <2>1. PICK a \in OSProbe(p) : mon' = [mon EXCEPT ![m] = [mon[m] EXCEPT !.probe = a]]
    BY <1>1 DEF ProbeMonitor
  <2>2. OnlyMonitor(m) /\ mon'[m] = [mon[m] EXCEPT !.probe = a]
    BY <2>1, MonitorSet
  <2>3. /\ mon'[m].pc = mon[m].pc /\ mon'[m].prof = p /\ mon'[m].rt = mon[m].rt
        /\ mon'[m].probe = a
    BY <1>a, <2>2 DEF Monitor
  <2>4. a = "absent" => ~chrome[p]
    BY <2>1 DEF OSProbe
  <2>5. KMonitorLives(m)
    BY <1>a, <1>1, <2>2, <2>3, <2>4, NothingWritten DEF ProbeMonitor, KMonitorLives
  <2> QED
    BY <2>5 DEF MonitorKind
<1>2. CASE MonitorTop(m)
  <2>1. CASE records[p].status = "running" /\ runtime[p] # NoMonitor
    <3> DEFINE k == [mon[m] EXCEPT !.pc = "query", !.probe = "pending", !.rt = runtime[p]]
    <3>1. mon' = [mon EXCEPT ![m] = k]
      BY <1>2, <2>1 DEF MonitorTop
    <3>2. k.pc = "query" /\ k.prof = p /\ k.rt = runtime[p] /\ k.probe = "pending"
      BY <1>a DEF Monitor
    <3> HIDE DEF k
    <3>3. KMonitorLives(m)
      BY <1>a, <1>2, <3>1, <3>2, MonitorSet, NothingWritten DEF MonitorTop, KMonitorLives
    <3> QED
      BY <3>3 DEF MonitorKind
  <2>2. CASE ~(records[p].status = "running" /\ runtime[p] # NoMonitor)
    <3>1. mon' = [mon EXCEPT ![m] = Done]
      BY <1>2, <2>2 DEF MonitorTop
    <3>2. KMonitorEnds(m)
      BY <1>a, <1>b, <1>2, <2>2, <3>1, MonitorSet DEF MonitorTop, KMonitorEnds
    <3> QED
      BY <3>2 DEF MonitorKind
  <2> QED
    BY <2>1, <2>2
<1>3. CASE MonitorProbeFails(m) \/ MonitorAlive(m)
  <2>1. \A e : [records[p] EXCEPT !.err = e].status = records[p].status
    BY <1>a, RecordFields
  <2>2. PICK r : /\ SetRecord(p, r) /\ r.status = records[p].status
                 /\ Save \/ UNCHANGED registry
    BY <1>3, <2>1 DEF MonitorProbeFails, MonitorAlive
  <2>3. StatusSame
    BY <1>a, <2>2, StatusKept
  <2>4. KMonitorLives(m)
    BY <1>a, <1>c, <1>3, <2>3, MonitorSet DEF MonitorProbeFails, MonitorAlive, KMonitorLives
  <2> QED
    BY <2>4 DEF MonitorKind
<1>4. ASSUME NEW b, MonitorMarks(m, b),
             UNCHANGED <<up, chrome, lifecycleLock, req, runtime, expected>>,
             mon[m].pc = "closing" \/ mon[m].probe = "absent",
             LaunchMode[p] = "native" => mon[m].pc = "query" /\ (b => mon[m].rt \in expected)
      PROVE  MonitorKind(m)
  <2>1. PICK s \in {"stopped", "error"} : OnlyStatus(p, s) /\ (s = "stopped" => b)
    <3>1. CASE b
      <4>1. [records[p] EXCEPT !.status = "stopped", !.err = "none"].status = "stopped"
        BY <1>a, RecordFields
      <4>2. OnlyStatus(p, "stopped")
        BY <1>a, <1>4, <3>1, <4>1, StatusSaved DEF MonitorMarks
      <4> QED
        BY <3>1, <4>2
    <3>2. CASE ~b
      <4>1. [records[p] EXCEPT !.status = "error", !.err = "gone"].status = "error"
        BY <1>a, RecordFields
      <4>2. OnlyStatus(p, "error")
        BY <1>a, <1>4, <3>2, <4>1, StatusSaved DEF MonitorMarks
      <4> QED
        BY <4>2
    <3> QED
      BY <3>1, <3>2
  <2>2. KMonitorMarks(m, s)
    BY <1>a, <1>b, <1>4, <2>1, MonitorSet DEF MonitorMarks, KMonitorMarks
  <2> QED
    BY <2>2 DEF MonitorKind, Statuses
<1>5. CASE MonitorGone(m) /\ LaunchMode[p] = "native"
  BY <1>4, <1>5 DEF MonitorGone, MonitorAt
<1>6. CASE MonitorGone(m) /\ LaunchMode[p] # "native"
  <2> DEFINE k == [mon[m] EXCEPT !.pc = "closing", !.wasExpected = (mon[m].rt \in expected)]
  <2>1. mon' = [mon EXCEPT ![m] = k]
    BY <1>6 DEF MonitorGone
  <2>2. k.pc = "closing" /\ k.prof = p /\ k.probe = mon[m].probe
    BY <1>a DEF Monitor
  <2> HIDE DEF k
  <2>3. KMonitorLives(m)
    BY <1>a, <1>6, <2>1, <2>2, MonitorSet, NothingWritten DEF MonitorGone, KMonitorLives
  <2> QED
    BY <2>3 DEF MonitorKind
<1>7. CASE MonitorClosed(m)
  <2>1. LaunchMode[p] # "native"
    BY <1>a, <1>7 DEF MonitorClosed, MonitorAt, GoodMonitor
  <2> QED
    BY <1>4, <1>7, <2>1 DEF MonitorClosed, MonitorAt
<1> QED
  BY <1>1, <1>2, <1>3, <1>5, <1>6, <1>7 DEF MonitorStep

(* Every step is of a known kind.                                            *)
LEMMA Kinds ==
    ASSUME TypeInv, [Next]_vars
    PROVE  \/ \E t \in Requests : RequestKind(t)
           \/ \E m \in Monitors : MonitorKind(m)
           \/ KExit \/ Crash \/ Load \/ UNCHANGED vars
<1>1. ASSUME NEW t \in Requests, RequestStep(t) PROVE RequestKind(t)
  BY <1>1, CallKinds, StartKinds, StopKinds, StatusKinds DEF RequestStep, RequestKind
<1>2. ASSUME NEW t \in Requests, NEW op \in Ops, NEW p \in Profiles, Call(t, op, p)
      PROVE  RequestKind(t)
  BY <1>2, CallKinds DEF RequestKind
<1>3. ASSUME NEW p \in Profiles, ChromeExits(p) PROVE KExit
  BY <1>3 DEF ChromeExits, KExit, NoneBorn, TypeInv, TypeOK
<1> QED
  BY <1>1, <1>2, <1>3, MonitorKinds DEF Next

-----------------------------------------------------------------------------
(* The inductive invariant                                                   *)

LockPcs == {"preflight"} \cup StartPcs

(* Whoever is inside start, stop or restart holds the profile's lock, and only *)
(* such a request holds it.                                                    *)
LockInv ==
    /\ \A t \in Requests : req[t].pc \in LockPcs => lifecycleLock[req[t].prof] = t
    /\ \A p \in Profiles, t \in Requests :
          lifecycleLock[p] = t => req[t].prof = p /\ req[t].pc \in LockPcs

(* Nothing runs while the manager is down.                                   *)
DownInv ==
    ~up => /\ \A t \in Requests : req[t].pc = "idle"
           /\ \A m \in Monitors : mon[m].pc = "done"

(* A preflight that answered "absent" is still right when it is read, and      *)
(* stays right until the first launch.                                         *)
LaunchInv ==
    \A t \in Requests :
        \/ req[t].pc = "preflight" /\ req[t].probe = "absent"
        \/ req[t].pc = "launching" /\ req[t].attempt = 0
        => ~chrome[req[t].prof]

(* Runtimes belong to one profile, and so do their monitors.                 *)
RuntimeInv ==
    /\ \A p, q \in Profiles : runtime[p] = runtime[q] /\ p # q => runtime[p] = NoMonitor
    /\ \A p \in Profiles : runtime[p] # NoMonitor =>
          /\ runtime[p] \notin expected
          /\ mon[runtime[p]].pc # "done" => mon[runtime[p]].prof = p

LockSafe == TypeInv /\ LockInv /\ DownInv /\ LaunchInv /\ RuntimeInv /\ TransientHasOwner

LEMMA LockInvNext == LockSafe /\ [Next]_vars => LockInv'
<1> SUFFICES ASSUME LockSafe, [Next]_vars PROVE LockInv'
  OBVIOUS
<1> USE NullAssumption DEF LockSafe, LockInv, LockPcs, StartPcs, OnlyRequest, Stays, OnlyLock
<1>0. \A t \in Requests : /\ req[t].pc # "idle" => req[t].prof \in Profiles
                          /\ req'[t].pc # "idle" => req'[t].prof \in Profiles
  BY TypeNext DEF TypeInv, GoodRequest
<1>1. ASSUME NEW t \in Requests, KCall(t) \/ KAnswer(t) \/ KReturn(t) PROVE LockInv'
  BY <1>0, <1>1 DEF KCall, KAnswer, KReturn
<1>2. ASSUME NEW t \in Requests, NEW s \in Statuses, KEnter(t, s) PROVE LockInv'
  BY <1>0, <1>2 DEF KEnter
<1>3. ASSUME NEW t \in Requests, NEW s \in Statuses, KFinish(t, s) PROVE LockInv'
  BY <1>0, <1>3 DEF KFinish
<1>4. ASSUME NEW t \in Requests, NEW s \in Statuses, KAttempt(t, s) PROVE LockInv'
  BY <1>0, <1>4 DEF KAttempt
<1>5. ASSUME NEW t \in Requests, KSpawn(t) \/ KMove(t) PROVE LockInv'
  BY <1>0, <1>5 DEF KSpawn, KMove
<1>6. ASSUME NEW t \in Requests, KStopRuntime(t) PROVE LockInv'
  BY <1>0, <1>6 DEF KStopRuntime
<1>7. ASSUME NEW t \in Requests, NEW m \in Monitors, KRun(t, m) PROVE LockInv'
  BY <1>0, <1>7 DEF KRun
<1>8. ASSUME NEW t \in Requests, KStatusKeeps(t) \/ KStatusDrops(t) \/ KStatusMarks(t) PROVE LockInv'
  BY <1>0, <1>8 DEF KStatusKeeps, KStatusDrops, KStatusMarks
<1>9. ASSUME NEW m \in Monitors, MonitorKind(m) PROVE LockInv'
  BY <1>9 DEF MonitorKind, KMonitorLives, KMonitorEnds, KMonitorMarks
<1>10. CASE KExit \/ Load \/ UNCHANGED vars
  BY <1>10 DEF KExit, Load, vars
<1>11. CASE Crash
  BY <1>11 DEF Crash, Idle
<1> QED
  BY <1>1, <1>2, <1>3, <1>4, <1>5, <1>6, <1>7, <1>8, <1>9, <1>10, <1>11, Kinds DEF RequestKind

LEMMA DownInvNext == LockSafe /\ [Next]_vars => DownInv'
<1> SUFFICES ASSUME LockSafe, [Next]_vars PROVE DownInv'
  OBVIOUS
<1> USE DEF LockSafe, DownInv, OnlyRequest, OnlyMonitor
<1>1. ASSUME NEW t \in Requests, RequestKind(t) PROVE DownInv'
  <2>1. up' = up /\ up
    BY <1>1, NullAssumption
       DEF RequestKind, KCall, KAnswer, KReturn, KEnter, KFinish, KAttempt, KSpawn, KMove,
           KStopRuntime, KRun, KStatusKeeps, KStatusDrops, KStatusMarks, StartPcs
  <2> QED
    BY <2>1
<1>2. ASSUME NEW m \in Monitors, MonitorKind(m) PROVE DownInv'
  BY <1>2 DEF MonitorKind, KMonitorLives, KMonitorEnds, KMonitorMarks
<1>3. CASE KExit \/ UNCHANGED vars
  BY <1>3 DEF KExit, vars
<1>4. CASE Crash
  BY <1>4 DEF Crash, Idle, Done
<1>5. CASE Load
  BY <1>5 DEF Load
<1> QED
  BY <1>1, <1>2, <1>3, <1>4, <1>5, Kinds

(* A retry is never taken for the first attempt.                             *)
LEMMA RetryCounts ==
    ASSUME TypeInv, NEW t \in Requests, req'[t].attempt = req[t].attempt + 1
    PROVE  req'[t].attempt # 0
BY BoundAssumption DEF TypeInv, TypeOK, Request

LEMMA LaunchInvNext == LockSafe /\ [Next]_vars => LaunchInv'
<1> SUFFICES ASSUME LockSafe, [Next]_vars PROVE LaunchInv'
  OBVIOUS
<1> USE DEF LockSafe, LockInv, LockPcs, StartPcs, LaunchInv, OnlyRequest, Stays
<1>0. \A t \in Requests : /\ req[t].pc # "idle" => req[t].prof \in Profiles
                          /\ req'[t].pc # "idle" => req'[t].prof \in Profiles
  BY TypeNext DEF TypeInv, GoodRequest
<1>1. ASSUME NEW t \in Requests, KCall(t) \/ KAnswer(t) \/ KReturn(t) PROVE LaunchInv'
  BY <1>0, <1>1 DEF KCall, KAnswer, KReturn
<1>2. ASSUME NEW t \in Requests, NEW s \in Statuses, KEnter(t, s) \/ KFinish(t, s) PROVE LaunchInv'
  BY <1>0, <1>2 DEF KEnter, KFinish
<1>4. ASSUME NEW t \in Requests, NEW s \in Statuses, KAttempt(t, s) PROVE LaunchInv'
  BY <1>0, <1>4, RetryCounts DEF KAttempt
<1>5. ASSUME NEW t \in Requests, KSpawn(t) PROVE LaunchInv'
  BY <1>0, <1>5 DEF KSpawn
<1>6. ASSUME NEW t \in Requests, KMove(t) \/ KStopRuntime(t) PROVE LaunchInv'
  BY <1>0, <1>6 DEF KMove, NoneBorn, KStopRuntime
<1>7. ASSUME NEW t \in Requests, NEW m \in Monitors, KRun(t, m) PROVE LaunchInv'
  BY <1>0, <1>7 DEF KRun
<1>8. ASSUME NEW t \in Requests, KStatusKeeps(t) \/ KStatusDrops(t) \/ KStatusMarks(t) PROVE LaunchInv'
  BY <1>0, <1>8 DEF KStatusKeeps, KStatusDrops, KStatusMarks
<1>9. ASSUME NEW m \in Monitors, MonitorKind(m) PROVE LaunchInv'
  BY <1>9 DEF MonitorKind, KMonitorLives, KMonitorEnds, KMonitorMarks
<1>10. CASE KExit \/ Load \/ UNCHANGED vars
  BY <1>0, <1>10 DEF KExit, NoneBorn, Load, vars
<1>11. CASE Crash
  BY <1>11 DEF Crash, Idle
<1> QED
  BY <1>1, <1>2, <1>4, <1>5, <1>6, <1>7, <1>8, <1>9, <1>10, <1>11, Kinds DEF RequestKind

LEMMA RuntimeInvNext == LockSafe /\ [Next]_vars => RuntimeInv'
<1> SUFFICES ASSUME LockSafe, [Next]_vars PROVE RuntimeInv'
  OBVIOUS
<1> USE NullAssumption DEF LockSafe, RuntimeInv, OnlyMonitor, Dropped
<1>0. /\ \A p \in Profiles : runtime[p] \in Monitors \cup {NoMonitor}
      /\ \A t \in Requests : req[t].pc # "idle" => req[t].prof \in Profiles
  BY DEF TypeInv, TypeOK, GoodRequest
<1>1. ASSUME NEW t \in Requests,
             \/ KCall(t) \/ KAnswer(t) \/ KReturn(t) \/ KSpawn(t) \/ KMove(t)
             \/ KStatusKeeps(t) \/ KStatusMarks(t)
             \/ \E s \in Statuses : KEnter(t, s) \/ KFinish(t, s) \/ KAttempt(t, s)
      PROVE  RuntimeInv'
  BY <1>1 DEF KCall, KAnswer, KReturn, KSpawn, KMove, KStatusKeeps, KStatusMarks, KEnter,
              KFinish, KAttempt
<1>2. ASSUME NEW t \in Requests, KStopRuntime(t) PROVE RuntimeInv'
  BY <1>0, <1>2 DEF KStopRuntime
<1>3. ASSUME NEW t \in Requests, KStatusDrops(t) PROVE RuntimeInv'
  BY <1>0, <1>3 DEF KStatusDrops
<1>4. ASSUME NEW t \in Requests, NEW m \in Monitors, KRun(t, m) PROVE RuntimeInv'
  BY <1>0, <1>4 DEF KRun, Fresh
<1>5. ASSUME NEW m \in Monitors, MonitorKind(m) PROVE RuntimeInv'
  BY <1>0, <1>5 DEF MonitorKind, KMonitorLives, KMonitorEnds, KMonitorMarks
<1>6. CASE KExit \/ Load \/ UNCHANGED vars
  BY <1>6 DEF KExit, Load, vars
<1>7. CASE Crash
  BY <1>7 DEF Crash
<1> QED
  BY <1>1, <1>2, <1>3, <1>4, <1>5, <1>6, <1>7, Kinds DEF RequestKind

(* _load leaves no profile in the middle of anything.                        *)
LEMMA LoadedSettled ==
    ASSUME TypeInv, Load
    PROVE  \A p \in Profiles : records'[p].status \in {"stopped", "error"}
<1>1. PICK probe : records' = [p \in Profiles |-> Loaded(records[p], probe[p])]
  BY DEF Load
<1>2. ASSUME NEW r \in Record, NEW a PROVE Loaded(r, a).status \in {"stopped", "error"}
  BY DEF Loaded, Record, NewProfile, Statuses
<1> QED
  BY <1>1, <1>2 DEF TypeInv, TypeOK

LEMMA TransientNext == LockSafe /\ [Next]_vars => TransientHasOwner'
<1> SUFFICES ASSUME LockSafe, [Next]_vars PROVE TransientHasOwner'
  OBVIOUS
<1> USE NullAssumption
    DEF LockSafe, LockInv, LockPcs, TransientHasOwner, StartPcs, OnlyRequest, Stays, OnlyLock,
        OnlyStatus, StatusSame
<1>0. \A t \in Requests :
         /\ req[t].pc # "idle" => req[t].prof \in Profiles
         /\ req[t].op = "start" \/ req[t].op \in {"stop", "restart"} \/ req[t].pc \notin StartPcs
         /\ req[t].pc = "queued" => req[t].op \in {"start", "stop", "restart"}
  BY DEF TypeInv, GoodRequest
<1>1. ASSUME NEW t \in Requests, KCall(t) \/ KAnswer(t) \/ KReturn(t) PROVE TransientHasOwner'
  BY <1>0, <1>1 DEF KCall, KAnswer, KReturn
<1>2. ASSUME NEW t \in Requests, NEW s \in Statuses, KEnter(t, s) PROVE TransientHasOwner'
  BY <1>0, <1>2 DEF KEnter
<1>3. ASSUME NEW t \in Requests, NEW s \in Statuses, KFinish(t, s) PROVE TransientHasOwner'
  BY <1>0, <1>3 DEF KFinish
<1>4. ASSUME NEW t \in Requests, NEW s \in Statuses, KAttempt(t, s) PROVE TransientHasOwner'
  BY <1>0, <1>4 DEF KAttempt
<1>5. ASSUME NEW t \in Requests, KSpawn(t) \/ KMove(t) PROVE TransientHasOwner'
  BY <1>0, <1>5 DEF KSpawn, KMove
<1>6. ASSUME NEW t \in Requests, KStopRuntime(t) PROVE TransientHasOwner'
  <2>1. /\ req'[t].op \in {"stop", "restart"} /\ req'[t].pc = "shutdown"
        /\ lifecycleLock'[req[t].prof] = t /\ records'[req[t].prof].status = "stopping"
    BY <1>0, <1>6 DEF KStopRuntime
  <2>2. ASSUME NEW p \in Profiles, p # req[t].prof
        PROVE  /\ up' = up /\ lifecycleLock'[p] = lifecycleLock[p]
               /\ records'[p].status = records[p].status
               /\ lifecycleLock[p] # t
    BY <1>6, <2>2 DEF KStopRuntime
  <2>3. \A u \in Requests : u # t => req'[u] = req[u]
    BY <1>6 DEF KStopRuntime
  <2> QED
    BY <2>1, <2>2, <2>3
<1>7. ASSUME NEW t \in Requests, NEW m \in Monitors, KRun(t, m) PROVE TransientHasOwner'
  BY <1>0, <1>7 DEF KRun
<1>8. ASSUME NEW t \in Requests, KStatusKeeps(t) \/ KStatusDrops(t) \/ KStatusMarks(t)
      PROVE  TransientHasOwner'
  BY <1>0, <1>8 DEF KStatusKeeps, KStatusDrops, KStatusMarks
<1>9. ASSUME NEW m \in Monitors, MonitorKind(m) PROVE TransientHasOwner'
  BY <1>9 DEF MonitorKind, KMonitorLives, KMonitorEnds, KMonitorMarks
<1>10. CASE KExit \/ Crash \/ UNCHANGED vars
  BY <1>10 DEF KExit, Crash, vars
<1>11. CASE Load
  BY <1>11, LoadedSettled
<1> QED
  BY <1>1, <1>2, <1>3, <1>4, <1>5, <1>6, <1>7, <1>8, <1>9, <1>10, <1>11, Kinds DEF RequestKind

LEMMA LockSafeInit == Init => LockSafe
<1> SUFFICES ASSUME Init PROVE LockSafe
  OBVIOUS
<1>1. /\ \A t \in Requests : req[t].pc = "idle"
      /\ \A p \in Profiles : records[p].status = "stopped" /\ runtime[p] = NoMonitor
      /\ \A p \in Profiles : lifecycleLock[p] = NoRequest
      /\ up
  BY DEF Init, Idle, NewProfile
<1> QED
  BY <1>1, TypeInit, NullAssumption
     DEF LockSafe, LockInv, LockPcs, StartPcs, DownInv, LaunchInv, RuntimeInv, TransientHasOwner

LEMMA LockSafeNext == LockSafe /\ [Next]_vars => LockSafe'
BY TypeNext, LockInvNext, DownInvNext, LaunchInvNext, RuntimeInvNext, TransientNext DEF LockSafe

LEMMA LockSafeCorrect == Spec => []LockSafe
BY LockSafeInit, LockSafeNext, PTL DEF Spec

(* A lifecycle lock is held by a request at work on its profile, and by no     *)
(* other: a queued request holds none, so nobody waits for a lock while holding *)
(* one, and every exit path has released its own (767, 998, 1060).             *)
THEOREM LocksAreHeld == Spec => []LockInv
<1>1. LockSafe => LockInv
  BY DEF LockSafe
<1> QED
  BY <1>1, LockSafeCorrect, PTL

(* No profile is left "starting" or "stopping" without a request at work on it,*)
(* for any number of requests, profiles and retries.                           *)
THEOREM TransientOwned == Spec => []TransientHasOwner
<1>1. LockSafe => TransientHasOwner
  BY DEF LockSafe
<1> QED
  BY <1>1, LockSafeCorrect, PTL

(* The first launch of every start finds no browser of the profile.          *)
THEOREM FirstLaunchSafe == Spec => FirstLaunchFindsNoBrowser
<1> DEFINE A == \A t \in Requests : Launches(t) /\ req'[t].attempt = 0 => ~chrome[req[t].prof]
<1>1. LockSafe /\ [Next]_vars => [A]_vars
  <2> SUFFICES ASSUME LockSafe, [Next]_vars, NEW t \in Requests,
                      Launches(t), req'[t].attempt = 0
               PROVE  ~chrome[req[t].prof]
    OBVIOUS
  <2>1. ASSUME NEW u \in Requests, RequestKind(u), u # t PROVE FALSE
    <3>1. OnlyRequest(u)
      BY <2>1 DEF RequestKind, KCall, KAnswer, KReturn, KEnter, KFinish, KAttempt, KSpawn, KMove,
                  KStopRuntime, KRun, KStatusKeeps, KStatusDrops, KStatusMarks
    <3> QED
      BY <2>1, <3>1 DEF OnlyRequest, Launches
  <2>2. ASSUME RequestKind(t) PROVE ~chrome[req[t].prof]
    <3>1. \/ req[t].pc = "preflight" /\ req[t].probe = "absent"
          \/ req[t].pc = "launching" /\ req[t].attempt = 0
      BY <2>2, RetryCounts DEF LockSafe, Launches, RequestKind, KCall, KAnswer, KReturn, KEnter, KFinish, KAttempt,
                  KSpawn, KMove, KStopRuntime, KRun, KStatusKeeps, KStatusDrops, KStatusMarks
    <3> QED
      BY <3>1 DEF LockSafe, LaunchInv
  <2>3. ASSUME NEW m \in Monitors, MonitorKind(m) PROVE FALSE
    BY <2>3 DEF MonitorKind, KMonitorLives, KMonitorEnds, KMonitorMarks, Launches
  <2>4. ASSUME KExit \/ Crash \/ Load \/ UNCHANGED vars PROVE FALSE
    BY <2>4 DEF KExit, Crash, Load, vars, Launches, Idle
  <2> QED
    BY <2>1, <2>2, <2>3, <2>4, Kinds DEF LockSafe
<1> QED
  BY <1>1, LockSafeCorrect, PTL DEF Spec, FirstLaunchFindsNoBrowser

-----------------------------------------------------------------------------
(* Every call comes nearer to its end                                        *)

(* The place of a call, by where it is suspended.                            *)
LEMMA Places ==
    ASSUME NEW q, GoodRequest(q)
    PROVE  /\ q.pc = "idle" => Place(q) = 0
           /\ q.pc = "closing" => Place(q) = 1
           /\ q.pc = "status" => Place(q) = 2
           /\ q.pc = "queued" => Place(q) = Attempts + 3
           /\ q.pc = "preflight" => Place(q) = Attempts
           /\ q.pc \in StartPcs /\ q.op = "start" =>
                 Place(q) = 7 * (MaxRetries - q.attempt) + StartStage[q.pc]
           /\ q.pc \in StartPcs /\ q.op # "start" => Place(q) = Attempts + StartStage[q.pc] - 1
           /\ q.pc \in StartPcs => StartStage[q.pc] \in 1..6
           /\ q.attempt \in 0..MaxRetries
           /\ Attempts \in Nat /\ Attempts = 7 * MaxRetries + 7
           /\ q.pc \in RequestPcs
<1>1. q.pc \in StartPcs => StartStage[q.pc] \in 1..6
  BY Stages DEF StartPcs
<1>2. q.attempt \in 0..MaxRetries /\ q.pc \in RequestPcs
  BY DEF GoodRequest, Request
<1>3. Attempts \in Nat /\ Attempts = 7 * MaxRetries + 7
  BY BoundAssumption DEF Attempts
<1>4. CASE q.pc \in StartPcs
  BY <1>1, <1>2, <1>3, <1>4 DEF Place, StartPcs
<1>5. CASE q.pc \notin StartPcs
  BY <1>1, <1>2, <1>3, <1>5 DEF Place, RequestPcs, StartPcs
<1> QED
  BY <1>4, <1>5

LEMMA PlaceIsNat ==
    ASSUME NEW q, GoodRequest(q)
    PROVE  Place(q) \in Nat /\ (q.pc # "idle" => Place(q) > 0)
<1>1. q.attempt \in 0..MaxRetries /\ MaxRetries \in Nat /\ Attempts \in Nat /\ Attempts >= 7
  BY Places, BoundAssumption
<1>2. CASE q.pc \in StartPcs /\ q.op = "start"
  BY <1>1, <1>2, Places
<1>3. CASE q.pc \in StartPcs /\ q.op # "start"
  BY <1>1, <1>3, Places
<1>4. CASE q.pc \notin StartPcs
  BY <1>1, <1>4, Places DEF RequestPcs, StartPcs
<1> QED
  BY <1>2, <1>3, <1>4

LEMMA LowerPlace ==
    ASSUME NEW q, GoodRequest(q), NEW r, GoodRequest(r), Place(r) < Place(q)
    PROVE  Rank(r) < Rank(q)
<1>1. Place(q) \in Nat /\ Place(r) \in Nat
  BY PlaceIsNat
<1> QED
  BY <1>1 DEF Rank

(* A step of a request's own task, and no other, moves it, and moves it on.  *)
LEMMA KindsAdvance ==
    ASSUME TypeInv, TypeInv', NEW t \in Requests, RequestKind(t), req[t].pc # "idle"
    PROVE  Rank(req'[t]) < Rank(req[t])
<1>a. /\ GoodRequest(req[t]) /\ GoodRequest(req'[t])
      /\ req[t].attempt \in 0..MaxRetries /\ MaxRetries \in Nat
      /\ Attempts \in Nat /\ Attempts = 7 * MaxRetries + 7
  <2>1. GoodRequest(req[t]) /\ GoodRequest(req'[t])
    BY DEF TypeInv
  <2> QED
    BY <2>1, Places, BoundAssumption
<1>1. CASE req'[t].pc = "idle"
  BY <1>a, <1>1, Places, PlaceIsNat, LowerPlace
<1>2. CASE KAnswer(t)
  <2>1. Place(req'[t]) = Place(req[t])
    BY <1>2 DEF KAnswer, Stays, Place
  <2>2. Place(req[t]) \in Nat
    BY <1>a, PlaceIsNat
  <2> QED
    BY <1>2, <2>1, <2>2 DEF KAnswer, Rank
<1>3. ASSUME NEW s, KEnter(t, s) PROVE Rank(req'[t]) < Rank(req[t])
  <2>1. Place(req'[t]) = Attempts
    BY <1>a, <1>3, Places DEF KEnter
  <2>2. CASE req[t].pc = "queued"
    BY <1>a, <2>1, <2>2, Places, LowerPlace
  <2>3. CASE req[t].pc \in {"shutdown", "killed"} /\ req[t].op # "start"
    <3>1. Place(req[t]) = Attempts + StartStage[req[t].pc] - 1 /\ StartStage[req[t].pc] \in {2, 3}
      BY <1>a, <2>3, Places, Stages DEF StartPcs
    <3> QED
      BY <1>a, <2>1, <3>1, LowerPlace
  <2> QED
    BY <1>3, <2>2, <2>3 DEF KEnter
<1>4. ASSUME NEW s, KAttempt(t, s) PROVE Rank(req'[t]) < Rank(req[t])
  <2>1. /\ Place(req'[t]) = 7 * (MaxRetries - req'[t].attempt) + StartStage[req'[t].pc]
        /\ StartStage[req'[t].pc] \in 1..6
    BY <1>a, <1>4, Places DEF KAttempt, Stays, StartPcs
  <2>2. CASE req[t].pc = "preflight" /\ req'[t].attempt = 0
    BY <1>a, <2>1, <2>2, Places, LowerPlace
  <2>3. CASE req[t].pc = "retrywait" /\ req'[t].attempt = req[t].attempt + 1
    <3>1. Place(req[t]) = 7 * (MaxRetries - req[t].attempt) + 1
      BY <1>a, <1>4, <2>3, Places, Stages DEF KAttempt, StartPcs
    <3> QED
      BY <1>a, <2>1, <2>3, <3>1, LowerPlace
  <2> QED
    BY <1>4, <2>2, <2>3 DEF KAttempt
<1>5. CASE KSpawn(t)
  <2>1. /\ Place(req[t]) = 7 * (MaxRetries - req[t].attempt) + 6
        /\ Place(req'[t]) = 7 * (MaxRetries - req[t].attempt) + 5
    BY <1>a, <1>5, Places, Stages DEF KSpawn, Stays, StartPcs
  <2> QED
    BY <1>a, <2>1, LowerPlace
<1>6. CASE KMove(t)
  <2>1. CASE /\ req[t].op = "start" /\ req[t].pc \in StartPcs /\ req'[t].pc \in StartPcs
             /\ StartStage[req'[t].pc] < StartStage[req[t].pc]
             /\ req'[t].attempt = req[t].attempt
    <3>1. /\ Place(req[t]) = 7 * (MaxRetries - req[t].attempt) + StartStage[req[t].pc]
          /\ Place(req'[t]) = 7 * (MaxRetries - req[t].attempt) + StartStage[req'[t].pc]
          /\ StartStage[req[t].pc] \in 1..6 /\ StartStage[req'[t].pc] \in 1..6
      BY <1>a, <1>6, <2>1, Places DEF KMove, Stays
    <3> QED
      BY <1>a, <2>1, <3>1, LowerPlace
  <2>2. CASE req[t].op # "start" /\ req[t].pc = "shutdown" /\ req'[t].pc = "killed"
    <3>1. Place(req[t]) = Attempts + 2 /\ Place(req'[t]) = Attempts + 1
      BY <1>a, <1>6, <2>2, Places, Stages DEF KMove, Stays, StartPcs
    <3> QED
      BY <1>a, <3>1, LowerPlace
  <2> QED
    BY <1>6, <2>1, <2>2 DEF KMove, StartPcs
<1>7. CASE KStopRuntime(t)
  <2>1. Place(req[t]) = Attempts + 3 /\ Place(req'[t]) = Attempts + 2
    BY <1>a, <1>7, Places, Stages DEF KStopRuntime, Stays, StartPcs
  <2> QED
    BY <1>a, <2>1, LowerPlace
<1>8. CASE KStatusDrops(t) /\ req'[t].pc = "closing"
  <2>1. Place(req[t]) = 2 /\ Place(req'[t]) = 1
    BY <1>a, <1>8, Places DEF KStatusDrops
  <2> QED
    BY <1>a, <2>1, LowerPlace
<1> QED
  BY <1>1, <1>2, <1>3, <1>4, <1>5, <1>6, <1>7, <1>8
     DEF RequestKind, KCall, KReturn, KFinish, KRun, KStatusKeeps, KStatusDrops, KStatusMarks

(* No call goes round in circles: every step it takes lowers its rank, and no  *)
(* step of another task raises it. It is what bounds the number of steps of a  *)
(* call; that each step is taken is left to fairness.                          *)
THEOREM CallsBounded == Spec => CallsAdvance
<1> DEFINE A == \A t \in Requests :
                   req[t].pc # "idle" /\ req'[t] # req[t] => Rank(req'[t]) < Rank(req[t])
<1>1. TypeInv /\ [Next]_vars => [A]_vars
  <2> SUFFICES ASSUME TypeInv, [Next]_vars, NEW t \in Requests,
                      req[t].pc # "idle", req'[t] # req[t]
               PROVE  Rank(req'[t]) < Rank(req[t])
    OBVIOUS
  <2>1. ASSUME NEW u \in Requests, RequestKind(u), u # t PROVE FALSE
    <3>1. OnlyRequest(u)
      BY <2>1 DEF RequestKind, KCall, KAnswer, KReturn, KEnter, KFinish, KAttempt, KSpawn, KMove,
                  KStopRuntime, KRun, KStatusKeeps, KStatusDrops, KStatusMarks
    <3> QED
      BY <2>1, <3>1 DEF OnlyRequest
  <2>2. CASE RequestKind(t)
    BY <2>2, TypeNext, KindsAdvance
  <2>3. ASSUME NEW m \in Monitors, MonitorKind(m) PROVE FALSE
    BY <2>3 DEF MonitorKind, KMonitorLives, KMonitorEnds, KMonitorMarks
  <2>4. CASE Crash
    <3>1. req'[t] = Idle /\ Idle.pc = "idle"
      BY <2>4 DEF Crash, Idle
    <3>2. GoodRequest(req[t]) /\ GoodRequest(Idle)
      BY IdleGood DEF TypeInv
    <3>3. Place(Idle) = 0 /\ Place(req[t]) \in Nat /\ Place(req[t]) > 0
      BY <3>1, <3>2, Places, PlaceIsNat
    <3> QED
      BY <3>1, <3>2, <3>3, LowerPlace
  <2>5. CASE KExit \/ Load \/ UNCHANGED vars
    BY <2>5 DEF KExit, Load, vars
  <2> QED
    BY <2>1, <2>2, <2>3, <2>4, <2>5, Kinds
<1>2. Spec => []TypeInv
  BY TypeInit, TypeNext, PTL DEF Spec
<1> QED
  BY <1>1, <1>2, PTL DEF Spec, CallsAdvance

-----------------------------------------------------------------------------
(* Runs are watched                                                          *)

(* What keeps the runs watched in a step that starts none.                   *)
LEMMA StillWatched ==
    ASSUME RunningIsWatched, up' => up,
           \A p \in Profiles : records'[p].status = "running" =>
               /\ records[p].status = "running"
               /\ runtime[p] # NoMonitor /\ mon[runtime[p]].pc # "done" =>
                      /\ runtime'[p] # NoMonitor /\ mon'[runtime'[p]].pc # "done"
                      \/ \E t \in Requests : req'[t].prof = p /\ req'[t].pc = "closing"
               /\ \A t \in Requests : req[t].prof = p /\ req[t].pc = "closing" =>
                                       req'[t].prof = p /\ req'[t].pc = "closing"
    PROVE  RunningIsWatched'
BY DEF RunningIsWatched

LEMMA WatchedNext == LockSafe /\ RunningIsWatched /\ [Next]_vars => RunningIsWatched'
<1> SUFFICES ASSUME LockSafe, RunningIsWatched, [Next]_vars PROVE RunningIsWatched'
  OBVIOUS
<1> USE DEF LockSafe, OnlyRequest, OnlyMonitor, Stays, OnlyStatus, StatusSame
<1>0. /\ \A p \in Profiles : runtime[p] \in Monitors \cup {NoMonitor}
      /\ \A t \in Requests : req[t].pc # "idle" => req[t].prof \in Profiles
  BY DEF TypeInv, TypeOK, GoodRequest
<1>1. ASSUME NEW t \in Requests,
             \/ KCall(t) \/ KAnswer(t) \/ KReturn(t) \/ KSpawn(t) \/ KMove(t)
             \/ KStatusKeeps(t) \/ KStatusMarks(t)
             \/ \E s \in Statuses : KEnter(t, s) \/ KFinish(t, s) \/ KAttempt(t, s)
      PROVE  RunningIsWatched'
  <2>1. ASSUME NEW p \in Profiles, records'[p].status = "running"
        PROVE  /\ records[p].status = "running" /\ runtime'[p] = runtime[p] /\ mon' = mon
               /\ \A u \in Requests : req[u].prof = p /\ req[u].pc = "closing" =>
                                       req'[u].prof = p /\ req'[u].pc = "closing"
    <3>1. CASE KCall(t) \/ KAnswer(t) \/ KReturn(t) \/ KSpawn(t) \/ KMove(t)
      BY <2>1, <3>1 DEF KCall, KAnswer, KReturn, KSpawn, KMove, StartPcs
    <3>2. CASE KStatusKeeps(t) \/ KStatusMarks(t)
      BY <1>0, <2>1, <3>2 DEF KStatusKeeps, KStatusMarks
    <3>3. CASE \E s \in Statuses : KEnter(t, s) \/ KFinish(t, s) \/ KAttempt(t, s)
      BY <1>0, <2>1, <3>3 DEF KEnter, KFinish, KAttempt
    <3> QED
      BY <1>1, <3>1, <3>2, <3>3
  <2>2. up' = up
    BY <1>1 DEF KCall, KAnswer, KReturn, KSpawn, KMove, KStatusKeeps, KStatusMarks, KEnter,
                KFinish, KAttempt
  <2> QED
    BY <2>1, <2>2, StillWatched
<1>6. ASSUME NEW t \in Requests, KStopRuntime(t) \/ KStatusDrops(t) PROVE RunningIsWatched'
  <2> DEFINE p == req[t].prof
  <2>1. p \in Profiles /\ Dropped(p) /\ up' = up /\ req[t].pc # "closing"
    BY <1>0, <1>6 DEF KStopRuntime, KStatusDrops
  <2>2. records'[p].status = "running" =>
            records[p].status = "running" /\ req'[t].prof = p /\ req'[t].pc = "closing"
    BY <1>6, <2>1 DEF KStopRuntime, KStatusDrops
  <2>3. ASSUME NEW q \in Profiles, q # p
        PROVE  /\ records'[q].status = records[q].status /\ runtime'[q] = runtime[q]
               /\ runtime[q] # NoMonitor => mon'[runtime[q]] = mon[runtime[q]]
    BY <1>0, <1>6, <2>1, <2>3 DEF KStopRuntime, KStatusDrops, Dropped, RuntimeInv
  <2>4. \A u \in Requests : u # t => req'[u] = req[u]
    BY <1>6 DEF KStopRuntime, KStatusDrops
  <2> QED
    BY <2>1, <2>2, <2>3, <2>4, StillWatched
<1>7. ASSUME NEW t \in Requests, NEW m \in Monitors, KRun(t, m) PROVE RunningIsWatched'
  <2> DEFINE p == req[t].prof
  <2>1. p \in Profiles /\ up' = up /\ req[t].pc # "closing"
    BY <1>0, <1>7 DEF KRun
  <2>2. runtime'[p] # NoMonitor /\ mon'[runtime'[p]].pc # "done"
    BY <1>7, NullAssumption DEF KRun
  <2>3. ASSUME NEW q \in Profiles, q # p
        PROVE  /\ records'[q].status = records[q].status /\ runtime'[q] = runtime[q]
               /\ runtime[q] # NoMonitor => mon'[runtime[q]] = mon[runtime[q]]
    BY <1>0, <1>7, <2>3 DEF KRun, Fresh
  <2>4. \A u \in Requests : u # t => req'[u] = req[u]
    BY <1>7 DEF KRun
  <2> QED
    BY <2>1, <2>2, <2>3, <2>4 DEF RunningIsWatched
<1>9. ASSUME NEW m \in Monitors, MonitorKind(m) PROVE RunningIsWatched'
  <2>1. /\ \A n \in Monitors : n # m => mon'[n] = mon[n]
        /\ mon[m].pc # "done"
        /\ runtime' = runtime /\ req' = req /\ up' = up
        /\ \A q \in Profiles : q # mon[m].prof => records'[q].status = records[q].status
    BY <1>9 DEF MonitorKind, KMonitorLives, KMonitorEnds, KMonitorMarks,
                TypeInv, GoodMonitor
  <2>2. ASSUME NEW p \in Profiles, p # mon[m].prof PROVE runtime[p] # m
    BY <1>0, <2>1, <2>2, NullAssumption DEF RuntimeInv
  <2>3. ASSUME NEW p \in Profiles, p = mon[m].prof, records'[p].status = "running"
        PROVE  /\ records[p].status = "running"
               /\ mon'[m].pc = "done" => runtime[p] = NoMonitor
    BY <1>9, <2>3, TypeNext DEF MonitorKind, KMonitorLives, KMonitorEnds, KMonitorMarks
  <2>4. ASSUME NEW p \in Profiles, records'[p].status = "running"
        PROVE  /\ records[p].status = "running"
               /\ runtime[p] # NoMonitor => mon'[runtime[p]].pc # "done" \/ mon[runtime[p]].pc = "done"
    BY <1>0, <2>1, <2>2, <2>3, <2>4
  <2> QED
    BY <2>1, <2>4, StillWatched
<1>10. CASE KExit \/ UNCHANGED vars
  BY <1>10, StillWatched DEF KExit, vars
<1>12. CASE Crash
  BY <1>12 DEF Crash, RunningIsWatched
<1>11. CASE Load
  BY <1>11, LoadedSettled DEF RunningIsWatched
<1> QED
  BY <1>1, <1>6, <1>7, <1>9, <1>10, <1>11, <1>12, Kinds DEF RequestKind

-----------------------------------------------------------------------------
(* Ordinary Chrome                                                           *)

(* What the record says while a request is at work on a native profile.      *)
NativePhase ==
    \A t \in Requests :
        LET p == req[t].prof IN
        LaunchMode[p] = "native" =>
            /\ req[t].pc = "preflight" => records[p].status \in {"stopped", "error"}
            /\ req[t].pc \in StartPcs /\ req[t].op = "start" =>
                  records[p].status \in {"starting", "error"}
            /\ req[t].pc \in StartPcs /\ req[t].op # "start" =>
                  records[p].status \in {"stopping", "error"}

(* A live monitor of a native profile is that of its runtime, and the profile *)
(* is "running".                                                               *)
NativeMonitors ==
    \A m \in Monitors :
        LET p == mon[m].prof IN
        mon[m].pc # "done" /\ LaunchMode[p] = "native" =>
            /\ runtime[p] = m
            /\ records[p].status = "running"
            /\ mon[m].pc = "query" => mon[m].rt = m

NativeKnown ==
    \A p \in Profiles : LaunchMode[p] = "native" /\ chrome[p] => records[p].status # "stopped"

NativeSafe ==
    LockSafe /\ RegistryAgrees /\ NativePhase /\ NativeMonitors /\ NativeKnown

LEMMA RegistryNext == LockSafe /\ RegistryAgrees /\ [Next]_vars => RegistryAgrees'
<1> SUFFICES ASSUME LockSafe, RegistryAgrees, [Next]_vars PROVE RegistryAgrees'
  OBVIOUS
<1> USE DEF LockSafe, OnlyStatus, StatusSame, AgreementKept
<1>1. ASSUME NEW t \in Requests, RequestKind(t) PROVE RegistryAgrees'
  BY <1>1 DEF RequestKind, KCall, KAnswer, KReturn, KEnter, KFinish, KAttempt, KSpawn, KMove,
              KStopRuntime, KRun, KStatusKeeps, KStatusDrops, KStatusMarks, RegistryAgrees
<1>2. ASSUME NEW m \in Monitors, MonitorKind(m) PROVE RegistryAgrees'
  BY <1>2 DEF MonitorKind, KMonitorLives, KMonitorEnds, KMonitorMarks, RegistryAgrees
<1>3. CASE KExit \/ Crash \/ Load \/ UNCHANGED vars
  BY <1>3 DEF KExit, Crash, Load, Save, vars, RegistryAgrees
<1> QED
  BY <1>1, <1>2, <1>3, Kinds

(* The monitor of a native profile never takes a disappearance for expected:  *)
(* the runtime it watches is in the table, and only a stop that removed it     *)
(* marks it expected.                                                          *)
LEMMA NativeMarks ==
    ASSUME NativeSafe, NEW m \in Monitors, NEW s, KMonitorMarks(m, s),
           LaunchMode[mon[m].prof] = "native"
    PROVE  s = "error" /\ records[mon[m].prof].status = "running"
<1>1. mon[m].prof \in Profiles /\ mon[m].pc = "query"
  BY NullAssumption DEF NativeSafe, LockSafe, TypeInv, GoodMonitor, KMonitorMarks
<1>2. mon[m].rt = m /\ runtime[mon[m].prof] = m /\ records[mon[m].prof].status = "running"
  BY <1>1 DEF NativeSafe, NativeMonitors
<1>3. m \notin expected
  BY <1>1, <1>2, NullAssumption DEF NativeSafe, LockSafe, RuntimeInv
<1> QED
  BY <1>1, <1>2, <1>3 DEF KMonitorMarks

LEMMA NativePhaseNext == NativeSafe /\ [Next]_vars => NativePhase'
<1> SUFFICES ASSUME NativeSafe, [Next]_vars PROVE NativePhase'
  OBVIOUS
<1> USE NullAssumption
    DEF NativeSafe, LockSafe, LockInv, LockPcs, NativePhase, StartPcs, OnlyRequest, Stays,
        OnlyStatus, StatusSame
<1>0. \A t \in Requests : /\ req[t].pc # "idle" => req[t].prof \in Profiles
                          /\ req'[t].pc # "idle" => req'[t].prof \in Profiles
  BY TypeNext DEF TypeInv, GoodRequest
<1>1. ASSUME NEW t \in Requests, KCall(t) \/ KAnswer(t) \/ KReturn(t) PROVE NativePhase'
  BY <1>0, <1>1 DEF KCall, KAnswer, KReturn
<1>2. ASSUME NEW t \in Requests, NEW s \in Statuses, KEnter(t, s) PROVE NativePhase'
  <2>1. s \in {"stopped", "error"}
    BY <1>0, <1>2 DEF KEnter, TransientHasOwner, DownInv, Statuses
  <2> QED
    BY <1>0, <1>2, <2>1 DEF KEnter
<1>3. ASSUME NEW t \in Requests, NEW s \in Statuses, KFinish(t, s) PROVE NativePhase'
  BY <1>0, <1>3 DEF KFinish
<1>4. ASSUME NEW t \in Requests, NEW s \in Statuses, KAttempt(t, s) PROVE NativePhase'
  BY <1>0, <1>4 DEF KAttempt
<1>5. ASSUME NEW t \in Requests, KSpawn(t) \/ KMove(t) PROVE NativePhase'
  BY <1>0, <1>5 DEF KSpawn, KMove
<1>6. ASSUME NEW t \in Requests, KStopRuntime(t) PROVE NativePhase'
  BY <1>0, <1>6 DEF KStopRuntime
<1>7. ASSUME NEW t \in Requests, NEW m \in Monitors, KRun(t, m) PROVE NativePhase'
  BY <1>0, <1>7 DEF KRun
<1>8. ASSUME NEW t \in Requests, KStatusKeeps(t) \/ KStatusDrops(t) \/ KStatusMarks(t)
      PROVE  NativePhase'
  BY <1>0, <1>8 DEF KStatusKeeps, KStatusDrops, KStatusMarks
<1>9. ASSUME NEW m \in Monitors, MonitorKind(m) PROVE NativePhase'
  <2>1. ASSUME NEW p \in Profiles, LaunchMode[p] = "native"
        PROVE  records'[p].status \in {records[p].status, "error"}
    BY <1>9, <2>1, NativeMarks DEF MonitorKind, KMonitorLives, KMonitorEnds, KMonitorMarks
  <2>2. req' = req
    BY <1>9 DEF MonitorKind, KMonitorLives, KMonitorEnds, KMonitorMarks
  <2> QED
    BY <1>0, <2>1, <2>2
<1>10. CASE KExit \/ UNCHANGED vars
  BY <1>10 DEF KExit, vars
<1>11. CASE Crash \/ Load
  BY <1>11 DEF Crash, Load, Idle, DownInv
<1> QED
  BY <1>1, <1>2, <1>3, <1>4, <1>5, <1>6, <1>7, <1>8, <1>9, <1>10, <1>11, Kinds DEF RequestKind

LEMMA NativeMonitorsNext == NativeSafe /\ [Next]_vars => NativeMonitors'
<1> SUFFICES ASSUME NativeSafe, [Next]_vars PROVE NativeMonitors'
  OBVIOUS
<1> USE NullAssumption
    DEF NativeSafe, LockSafe, NativeMonitors, OnlyRequest, OnlyMonitor, OnlyStatus, StatusSame
<1>0. /\ \A m \in Monitors : /\ mon[m].pc # "done" => mon[m].prof \in Profiles
                             /\ mon'[m].pc # "done" => mon'[m].prof \in Profiles
                             /\ mon'[m].pc = "closing" => LaunchMode[mon'[m].prof] # "native"
      /\ \A t \in Requests : /\ req[t].pc # "idle" => req[t].prof \in Profiles
                             /\ req[t].pc = "closing" => LaunchMode[req[t].prof] # "native"
      /\ \A p \in Profiles : runtime[p] \in Monitors \cup {NoMonitor}
  BY TypeNext DEF TypeInv, TypeOK, GoodRequest, GoodMonitor
<1>1. ASSUME NEW t \in Requests,
             \/ KCall(t) \/ KAnswer(t) \/ KReturn(t) \/ KSpawn(t) \/ KMove(t) \/ KStatusKeeps(t)
      PROVE  NativeMonitors'
  BY <1>0, <1>1 DEF KCall, KAnswer, KReturn, KSpawn, KMove, KStatusKeeps
<1>2. ASSUME NEW t \in Requests, NEW s \in Statuses, KEnter(t, s) PROVE NativeMonitors'
  <2>1. LaunchMode[req[t].prof] = "native" /\ req[t].pc # "queued" =>
            records[req[t].prof].status # "running"
    BY <1>2 DEF KEnter, NativePhase, StartPcs
  <2> QED
    BY <1>0, <1>2, <2>1 DEF KEnter
<1>3. ASSUME NEW t \in Requests, NEW s \in Statuses, KFinish(t, s) PROVE NativeMonitors'
  <2>1. LaunchMode[req[t].prof] = "native" /\ req[t].pc # "queued" =>
            records[req[t].prof].status # "running"
    BY <1>3 DEF KFinish, NativePhase, StartPcs
  <2> QED
    BY <1>0, <1>3, <2>1 DEF KFinish
<1>4. ASSUME NEW t \in Requests, NEW s \in Statuses, KAttempt(t, s) PROVE NativeMonitors'
  <2>1. LaunchMode[req[t].prof] = "native" => records[req[t].prof].status # "running"
    BY <1>4 DEF KAttempt, NativePhase, StartPcs
  <2> QED
    BY <1>0, <1>4, <2>1 DEF KAttempt
<1>5. ASSUME NEW t \in Requests, KStopRuntime(t) \/ KStatusDrops(t) PROVE NativeMonitors'
  BY <1>0, <1>5 DEF KStopRuntime, KStatusDrops, Dropped
<1>6. ASSUME NEW t \in Requests, KStatusMarks(t) PROVE NativeMonitors'
  BY <1>0, <1>6 DEF KStatusMarks
<1>7. ASSUME NEW t \in Requests, NEW m \in Monitors, KRun(t, m) PROVE NativeMonitors'
  <2>1. LaunchMode[req[t].prof] = "native" =>
            req[t].op = "start" /\ records[req[t].prof].status # "running"
    BY <1>7 DEF KRun, NativePhase, StartPcs, TypeInv, GoodRequest
  <2> QED
    BY <1>0, <1>7, <2>1 DEF KRun, Fresh
<1>8. ASSUME NEW m \in Monitors, MonitorKind(m) PROVE NativeMonitors'
  <2>1. /\ \A n \in Monitors : n # m => mon'[n] = mon[n]
        /\ mon[m].pc # "done"
        /\ runtime' = runtime
        /\ \A q \in Profiles : q # mon[m].prof => records'[q].status = records[q].status
    BY <1>8 DEF MonitorKind, KMonitorLives, KMonitorEnds, KMonitorMarks
  <2>2. ASSUME NEW n \in Monitors, n # m, mon[n].pc # "done", LaunchMode[mon[n].prof] = "native"
        PROVE  mon[n].prof # mon[m].prof
    BY <2>1, <2>2
  <2>3. mon'[m].pc # "done" => KMonitorLives(m)
    BY <1>8 DEF MonitorKind, KMonitorEnds, KMonitorMarks
  <2> QED
    BY <1>0, <2>1, <2>2, <2>3 DEF KMonitorLives
<1>9. CASE KExit \/ UNCHANGED vars
  BY <1>9 DEF KExit, vars
<1>10. CASE Crash \/ Load
  BY <1>10 DEF Crash, Load, Done, DownInv
<1> QED
  BY <1>1, <1>2, <1>3, <1>4, <1>5, <1>6, <1>7, <1>8, <1>9, <1>10, Kinds DEF RequestKind

LEMMA NativeKnownNext == NativeSafe /\ [Next]_vars => NativeKnown'
<1> SUFFICES ASSUME NativeSafe, [Next]_vars PROVE NativeKnown'
  OBVIOUS
<1> USE DEF NativeSafe, LockSafe, NativeKnown, OnlyStatus, StatusSame, NoneBorn
<1>0. \A t \in Requests : req[t].pc # "idle" => req[t].prof \in Profiles
  BY DEF TypeInv, GoodRequest
<1>1. ASSUME NEW t \in Requests,
             \/ KCall(t) \/ KAnswer(t) \/ KReturn(t) \/ KMove(t) \/ KStopRuntime(t)
             \/ KStatusKeeps(t) \/ KStatusDrops(t) \/ KStatusMarks(t)
             \/ \E m \in Monitors : KRun(t, m)
      PROVE  NativeKnown'
  BY <1>1 DEF KCall, KAnswer, KReturn, KMove, KStopRuntime, KRun, KStatusKeeps, KStatusDrops,
              KStatusMarks
<1>2. ASSUME NEW t \in Requests, NEW s \in Statuses, KEnter(t, s) \/ KFinish(t, s)
      PROVE  NativeKnown'
  BY <1>2, <1>0 DEF KEnter, KFinish, LaunchInv
<1>3. ASSUME NEW t \in Requests, NEW s \in Statuses, KAttempt(t, s) \/ KSpawn(t)
      PROVE  NativeKnown'
  BY <1>3, <1>0 DEF KAttempt, KSpawn, NativePhase, StartPcs
<1>4. ASSUME NEW m \in Monitors, MonitorKind(m) PROVE NativeKnown'
  <2>1. ASSUME NEW p \in Profiles, LaunchMode[p] = "native"
        PROVE  records'[p].status \in {records[p].status, "error"}
    BY <1>4, <2>1, NativeMarks DEF MonitorKind, KMonitorLives, KMonitorEnds, KMonitorMarks
  <2>2. chrome' = chrome
    BY <1>4 DEF MonitorKind, KMonitorLives, KMonitorEnds, KMonitorMarks
  <2> QED
    BY <2>1, <2>2
<1>5. CASE KExit \/ UNCHANGED vars
  BY <1>5 DEF KExit, vars
<1>6. CASE Crash
  BY <1>6 DEF Crash, RegistryAgrees
<1>7. CASE Load
  <2>1. ASSUME NEW p \in Profiles, chrome'[p] PROVE records'[p].status = "error"
    <3>1. chrome[p] /\ records[p] \in Record
      BY <1>7, <2>1 DEF Load, TypeInv, TypeOK
    <3>2. PICK a \in {"found", "error"} : records'[p] = Loaded(records[p], a)
      BY <1>7, <3>1 DEF Load, OSProbe
    <3>3. [records[p] EXCEPT !.status = "error", !.err = "recovery"].status = "error"
      BY <3>1, RecordFields
    <3> QED
      BY <3>2, <3>3 DEF Loaded
  <2> QED
    BY <2>1
<1>8. ASSUME NEW t \in Requests, RequestKind(t) PROVE NativeKnown'
  <2>1. \/ KCall(t) \/ KAnswer(t) \/ KReturn(t) \/ KMove(t) \/ KStopRuntime(t)
        \/ KStatusKeeps(t) \/ KStatusDrops(t) \/ KStatusMarks(t)
        \/ \E m \in Monitors : KRun(t, m)
        \/ \E s \in Statuses : KEnter(t, s) \/ KFinish(t, s) \/ KAttempt(t, s) \/ KSpawn(t)
    BY <1>8 DEF RequestKind, Statuses
  <2> QED
    BY <1>1, <1>2, <1>3, <2>1
<1> HIDE DEF NativeKnown
<1> QED
  BY <1>4, <1>5, <1>6, <1>7, <1>8, Kinds

LEMMA SafeInit == Init => LockSafe /\ RunningIsWatched /\ NativeSafe
<1> SUFFICES ASSUME Init PROVE LockSafe /\ RunningIsWatched /\ NativeSafe
  OBVIOUS
<1>1. /\ \A t \in Requests : req[t].pc = "idle"
      /\ \A m \in Monitors : mon[m].pc = "done"
      /\ \A p \in Profiles : records[p].status = "stopped" /\ ~chrome[p]
      /\ registry = records
  BY DEF Init, Idle, Done, NewProfile
<1> QED
  BY <1>1, LockSafeInit
     DEF RunningIsWatched, NativeSafe, RegistryAgrees, NativePhase, StartPcs, NativeMonitors,
         NativeKnown

LEMMA SafeCorrect == Spec => [](RunningIsWatched /\ NativeSafe)
<1> DEFINE I == RunningIsWatched /\ NativeSafe
<1>1. I /\ [Next]_vars => I'
  BY LockSafeNext, WatchedNext, RegistryNext, NativePhaseNext, NativeMonitorsNext,
     NativeKnownNext DEF NativeSafe
<1> QED
  BY <1>1, SafeInit, PTL DEF Spec

(* A profile shown as "running" always has its monitor, or a status() call    *)
(* that is about to mark it, in every mode and for any number of requests.     *)
THEOREM RunsAreWatched == Spec => []RunningIsWatched
BY SafeCorrect, PTL

(* A native profile never has two monitors.                                  *)
THEOREM MonitorIsUnique == Spec => []OneMonitorPerProfile
<1>1. NativeSafe => OneMonitorPerProfile
  BY DEF NativeSafe, NativeMonitors, OneMonitorPerProfile
<1> QED
  BY <1>1, SafeCorrect, PTL

(* A living ordinary Chrome is never recorded as stopped, in memory or on disk,*)
(* whenever the manager crashes.                                               *)
THEOREM NativeIsKnown == Spec => []NativeNeverForgotten
<1>1. NativeSafe => NativeNeverForgotten
  BY DEF NativeSafe, NativeKnown, RegistryAgrees, NativeNeverForgotten
<1> QED
  BY <1>1, SafeCorrect, PTL

(* A living ordinary Chrome nobody works on and nobody watches is an error.  *)
THEOREM OrphansAreReported == Spec => []OrphanReported
<1>1. RunningIsWatched /\ NativeSafe => OrphanReported
  <2> SUFFICES ASSUME RunningIsWatched, NativeSafe, NEW p \in Profiles,
                      LaunchMode[p] = "native", up, chrome[p], Free(p), runtime[p] = NoMonitor
               PROVE  records[p].status = "error"
    BY DEF OrphanReported
  <2>1. records[p].status \in Statuses
    BY DEF NativeSafe, LockSafe, TypeInv, TypeOK, Record
  <2>2. records[p].status # "stopped"
    BY DEF NativeSafe, NativeKnown
  <2>3. records[p].status \notin {"starting", "stopping"}
    BY NullAssumption DEF NativeSafe, LockSafe, TransientHasOwner, Free
  <2>4. records[p].status # "running"
    BY DEF RunningIsWatched, NativeSafe, LockSafe, TypeInv, GoodRequest
  <2> QED
    BY <2>1, <2>2, <2>3, <2>4 DEF Statuses
<1> QED
  BY <1>1, SafeCorrect, PTL

=============================================================================
