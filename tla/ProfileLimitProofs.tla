--------------------------- MODULE ProfileLimitProofs ---------------------------
(*****************************************************************************)
(* What holds in every launch mode as long as nobody calls status(): the limit *)
(* on profiles that start or run, and that no living browser is reported as    *)
(* disappeared. The stale answer of a status() call frees the place of a       *)
(* profile that runs, and is written for a run it does not belong to.         *)
(*****************************************************************************)
EXTENDS ProfileLifecycleProofs

NoStatusCalls == \A t \in Requests : req[t].pc \notin {"status", "closing"}

(* The status is that of the work, in every mode.                            *)
QuietPhase ==
    \A t \in Requests :
        LET s == records[req[t].prof].status IN
        /\ req[t].pc = "preflight" => s \in {"stopped", "error"}
        /\ req[t].pc \in StartPcs /\ req[t].op = "start" => s = "starting"
        /\ req[t].pc \in StartPcs /\ req[t].op # "start" => s = "stopping"

(* A monitor that lives is that of its profile's run.                        *)
QuietMonitors ==
    \A m \in Monitors :
        mon[m].pc # "done" =>
            runtime[mon[m].prof] = m /\ records[mon[m].prof].status = "running"

QuietSafe ==
    LockSafe /\ NoStatusCalls /\ QuietPhase /\ QuietMonitors /\ SoftLimitRespected

-----------------------------------------------------------------------------
LEMMA NoStatusNext ==
    ASSUME "status" \notin Ops, TypeInv, NoStatusCalls, [Next]_vars
    PROVE  NoStatusCalls'
<1>1. ASSUME NEW t \in Requests, RequestKind(t) PROVE NoStatusCalls'
  <2>1. req'[t].pc \notin {"status", "closing"} /\ OnlyRequest(t)
    BY <1>1 DEF RequestKind, KCall, KAnswer, KReturn, KEnter, KFinish, KAttempt, KSpawn, KMove,
                KStopRuntime, KRun, KStatusKeeps, KStatusDrops, KStatusMarks, NoStatusCalls
  <2> QED
    BY <2>1 DEF OnlyRequest, NoStatusCalls
<1>2. ASSUME NEW m \in Monitors, MonitorKind(m) PROVE NoStatusCalls'
  BY <1>2 DEF MonitorKind, KMonitorLives, KMonitorEnds, KMonitorMarks, NoStatusCalls
<1>3. CASE KExit \/ Crash \/ Load \/ UNCHANGED vars
  BY <1>3 DEF KExit, Crash, Load, vars, Idle, NoStatusCalls
<1> QED
  BY <1>1, <1>2, <1>3, Kinds

LEMMA QuietPhaseNext == QuietSafe /\ [Next]_vars => QuietPhase'
<1> SUFFICES ASSUME QuietSafe, [Next]_vars PROVE QuietPhase'
  OBVIOUS
<1> USE NullAssumption
    DEF QuietSafe, LockSafe, LockInv, LockPcs, QuietPhase, StartPcs, OnlyRequest, Stays,
        OnlyStatus, StatusSame
<1>0. \A t \in Requests : /\ req[t].pc # "idle" => req[t].prof \in Profiles
                          /\ req'[t].pc # "idle" => req'[t].prof \in Profiles
  BY TypeNext DEF TypeInv, GoodRequest
<1>1. ASSUME NEW t \in Requests, KCall(t) \/ KAnswer(t) \/ KReturn(t) PROVE QuietPhase'
  BY <1>0, <1>1 DEF KCall, KAnswer, KReturn
<1>2. ASSUME NEW t \in Requests, NEW s \in Statuses, KEnter(t, s) PROVE QuietPhase'
  <2>1. s \in {"stopped", "error"}
    BY <1>0, <1>2 DEF KEnter, TransientHasOwner, DownInv, Statuses
  <2> QED
    BY <1>0, <1>2, <2>1 DEF KEnter
<1>3. ASSUME NEW t \in Requests, NEW s \in Statuses, KFinish(t, s) PROVE QuietPhase'
  BY <1>0, <1>3 DEF KFinish
<1>4. ASSUME NEW t \in Requests, NEW s \in Statuses, KAttempt(t, s) PROVE QuietPhase'
  BY <1>0, <1>4 DEF KAttempt
<1>5. ASSUME NEW t \in Requests, KSpawn(t) \/ KMove(t) PROVE QuietPhase'
  BY <1>0, <1>5 DEF KSpawn, KMove
<1>6. ASSUME NEW t \in Requests, KStopRuntime(t) PROVE QuietPhase'
  BY <1>0, <1>6 DEF KStopRuntime
<1>7. ASSUME NEW t \in Requests, NEW m \in Monitors, KRun(t, m) PROVE QuietPhase'
  BY <1>0, <1>7 DEF KRun
<1>8. ASSUME NEW t \in Requests, KStatusKeeps(t) \/ KStatusDrops(t) \/ KStatusMarks(t)
      PROVE  QuietPhase'
  BY <1>8 DEF KStatusKeeps, KStatusDrops, KStatusMarks, NoStatusCalls
<1>9. ASSUME NEW m \in Monitors, MonitorKind(m) PROVE QuietPhase'
  <2>1. ASSUME NEW p \in Profiles, records[p].status # "running"
        PROVE  records'[p].status = records[p].status
    BY <1>9, <2>1 DEF MonitorKind, KMonitorLives, KMonitorEnds, KMonitorMarks, QuietMonitors
  <2>2. req' = req
    BY <1>9 DEF MonitorKind, KMonitorLives, KMonitorEnds, KMonitorMarks
  <2> QED
    BY <1>0, <2>1, <2>2
<1>10. CASE KExit \/ UNCHANGED vars
  BY <1>10 DEF KExit, vars
<1>11. CASE Crash \/ Load
  BY <1>11 DEF Crash, Load, Idle, DownInv
<1> QED
  BY <1>1, <1>2, <1>3, <1>4, <1>5, <1>6, <1>7, <1>8, <1>9, <1>10, <1>11, Kinds DEF RequestKind

LEMMA QuietMonitorsNext == QuietSafe /\ [Next]_vars => QuietMonitors'
<1> SUFFICES ASSUME QuietSafe, [Next]_vars PROVE QuietMonitors'
  OBVIOUS
<1> USE NullAssumption
    DEF QuietSafe, LockSafe, QuietMonitors, OnlyRequest, OnlyMonitor, OnlyStatus, StatusSame
<1>0. /\ \A m \in Monitors : /\ mon[m].pc # "done" => mon[m].prof \in Profiles
                             /\ mon'[m].pc # "done" => mon'[m].prof \in Profiles
      /\ \A t \in Requests : req[t].pc # "idle" => req[t].prof \in Profiles
      /\ \A p \in Profiles : runtime[p] \in Monitors \cup {NoMonitor}
  BY TypeNext DEF TypeInv, TypeOK, GoodRequest, GoodMonitor
<1>1. ASSUME NEW t \in Requests,
             KCall(t) \/ KAnswer(t) \/ KReturn(t) \/ KSpawn(t) \/ KMove(t)
      PROVE  QuietMonitors'
  BY <1>0, <1>1 DEF KCall, KAnswer, KReturn, KSpawn, KMove
<1>2. ASSUME NEW t \in Requests, NEW s \in Statuses, KEnter(t, s) PROVE QuietMonitors'
  <2>1. req[t].pc # "queued" => records[req[t].prof].status # "running"
    BY <1>2 DEF KEnter, QuietPhase, StartPcs
  <2> QED
    BY <1>0, <1>2, <2>1 DEF KEnter
<1>3. ASSUME NEW t \in Requests, NEW s \in Statuses, KFinish(t, s) PROVE QuietMonitors'
  <2>1. req[t].pc # "queued" => records[req[t].prof].status # "running"
    BY <1>3 DEF KFinish, QuietPhase, StartPcs
  <2> QED
    BY <1>0, <1>3, <2>1 DEF KFinish
<1>4. ASSUME NEW t \in Requests, NEW s \in Statuses, KAttempt(t, s) PROVE QuietMonitors'
  <2>1. records[req[t].prof].status # "running"
    BY <1>4 DEF KAttempt, QuietPhase, StartPcs
  <2> QED
    BY <1>0, <1>4, <2>1 DEF KAttempt
<1>5. ASSUME NEW t \in Requests, KStopRuntime(t) PROVE QuietMonitors'
  BY <1>0, <1>5 DEF KStopRuntime, Dropped
<1>6. ASSUME NEW t \in Requests, KStatusKeeps(t) \/ KStatusDrops(t) \/ KStatusMarks(t)
      PROVE  QuietMonitors'
  BY <1>6 DEF KStatusKeeps, KStatusDrops, KStatusMarks, NoStatusCalls
<1>7. ASSUME NEW t \in Requests, NEW m \in Monitors, KRun(t, m) PROVE QuietMonitors'
  <2>1. req[t].op = "start" /\ records[req[t].prof].status # "running"
    BY <1>7 DEF KRun, QuietPhase, StartPcs, TypeInv, GoodRequest
  <2> QED
    BY <1>0, <1>7, <2>1 DEF KRun, Fresh
<1>8. ASSUME NEW m \in Monitors, MonitorKind(m) PROVE QuietMonitors'
  <2>1. /\ \A n \in Monitors : n # m => mon'[n] = mon[n]
        /\ mon[m].pc # "done"
        /\ runtime' = runtime
        /\ \A q \in Profiles : q # mon[m].prof => records'[q].status = records[q].status
    BY <1>8 DEF MonitorKind, KMonitorLives, KMonitorEnds, KMonitorMarks
  <2>2. ASSUME NEW n \in Monitors, n # m, mon[n].pc # "done"
        PROVE  mon[n].prof # mon[m].prof
    BY <2>1, <2>2
  <2>3. mon'[m].pc # "done" => KMonitorLives(m)
    BY <1>8 DEF MonitorKind, KMonitorEnds, KMonitorMarks
  <2> QED
    BY <1>0, <2>1, <2>2, <2>3 DEF KMonitorLives
<1>9. CASE KExit \/ UNCHANGED vars
  BY <1>9 DEF KExit, vars
<1>10. CASE Crash \/ Load
  BY <1>10 DEF Crash, Load, Done, DownInv
<1> QED
  BY <1>1, <1>2, <1>3, <1>4, <1>5, <1>6, <1>7, <1>8, <1>9, <1>10, Kinds DEF RequestKind

-----------------------------------------------------------------------------
(* The count                                                                 *)

Busy == StartingOrRunning(records)

LEMMA BusyFinite == IsFiniteSet(Busy) /\ Cardinality(Busy) \in Nat
<1>1. Busy \subseteq Profiles
  BY DEF Busy, StartingOrRunning
<1> QED
  BY <1>1, FiniteAssumption, FS_Subset, FS_CardinalityType

LEMMA NotMoreBusy ==
    ASSUME SoftLimitRespected, up, Busy' \subseteq Busy
    PROVE  SoftLimitRespected'
<1>1. IsFiniteSet(Busy) /\ Cardinality(Busy) \in Nat /\ Cardinality(Busy) <= SoftLimit
  BY BusyFinite DEF SoftLimitRespected, Busy
<1>2. IsFiniteSet(Busy') /\ Cardinality(Busy') <= Cardinality(Busy)
  BY <1>1, FS_Subset
<1>3. Cardinality(Busy') \in Nat
  BY <1>2, FS_CardinalityType
<1> QED
  BY <1>1, <1>2, <1>3, BoundAssumption DEF SoftLimitRespected, Busy

LEMMA OneMoreBusy ==
    ASSUME NEW p \in Profiles, RoomFor(p), Busy' = (Busy \ {p}) \cup {p}
    PROVE  SoftLimitRespected'
<1>1. IsFiniteSet(Busy \ {p})
  BY BusyFinite, FS_RemoveElement
<1>2. Cardinality(Busy') = Cardinality(Busy \ {p}) + 1 /\ Cardinality(Busy \ {p}) \in Nat
  BY <1>1, FS_AddElement, FS_CardinalityType
<1> QED
  BY <1>2, BoundAssumption DEF RoomFor, SoftLimitRespected, Busy

(* Only the first attempt of a start adds a profile to those that are busy.   *)
LEMMA LimitNext == QuietSafe /\ [Next]_vars => SoftLimitRespected'
<1> SUFFICES ASSUME QuietSafe, [Next]_vars PROVE SoftLimitRespected'
  OBVIOUS
<1> USE DEF QuietSafe
<1>1. ASSUME NEW t \in Requests, RequestKind(t) PROVE SoftLimitRespected'
  <2>0. up
    BY <1>1 DEF LockSafe, DownInv, RequestKind, KCall, KAnswer, KReturn, KEnter, KFinish, KAttempt,
                KSpawn, KMove, KStopRuntime, KRun, KStatusKeeps, KStatusDrops, KStatusMarks, StartPcs
  <2>1. CASE \/ KCall(t) \/ KAnswer(t) \/ KReturn(t) \/ KSpawn(t) \/ KMove(t)
             \/ KStatusKeeps(t)
    <3>1. StatusSame
      BY <2>1, NothingWritten DEF KCall, KAnswer, KReturn, KSpawn, KMove, KStatusKeeps
    <3> QED
      BY <2>0, <3>1, NotMoreBusy DEF StatusSame, Busy, StartingOrRunning
  <2>2. CASE KStatusDrops(t) \/ KStatusMarks(t)
    BY <2>2 DEF KStatusDrops, KStatusMarks, NoStatusCalls
  <2>3. ASSUME NEW s \in Statuses, OnlyStatus(req[t].prof, s),
               s \in {"starting", "running"} => s = records[req[t].prof].status
                                                \/ records[req[t].prof].status = "starting"
        PROVE  SoftLimitRespected'
    <3>1. Busy' \subseteq Busy
      BY <2>3 DEF OnlyStatus, Busy, StartingOrRunning
    <3> QED
      BY <2>0, <3>1, NotMoreBusy
  <2>4. ASSUME NEW s \in Statuses, KEnter(t, s) \/ KFinish(t, s) PROVE SoftLimitRespected'
    BY <2>3, <2>4 DEF KEnter, KFinish
  <2>5. ASSUME NEW s \in Statuses, KAttempt(t, s) PROVE SoftLimitRespected'
    <3>1. CASE req[t].pc = "preflight" /\ s = "starting" /\ RoomFor(req[t].prof)
      <4>1. PICK p \in Profiles : p = req[t].prof
        BY <3>1 DEF LockSafe, TypeInv, GoodRequest
      <4>2. Busy' = (Busy \ {p}) \cup {p}
        BY <2>5, <3>1, <4>1 DEF KAttempt, OnlyStatus, Busy, StartingOrRunning
      <4> QED
        BY <3>1, <4>1, <4>2, OneMoreBusy
    <3>2. CASE s = records[req[t].prof].status
      BY <2>3, <2>5, <3>2 DEF KAttempt
    <3> QED
      BY <2>5, <3>1, <3>2 DEF KAttempt
  <2>6. ASSUME NEW m \in Monitors, KRun(t, m) PROVE SoftLimitRespected'
    <3>1. records[req[t].prof].status = "starting"
      BY <2>6 DEF KRun, QuietPhase, StartPcs, LockSafe, TypeInv, GoodRequest
    <3> QED
      BY <2>3, <2>6, <3>1 DEF KRun, Statuses
  <2>7. CASE KStopRuntime(t)
    BY <2>3, <2>7 DEF KStopRuntime, Statuses
  <2> QED
    BY <1>1, <2>1, <2>2, <2>4, <2>5, <2>6, <2>7 DEF RequestKind
<1>2. ASSUME NEW m \in Monitors, MonitorKind(m) PROVE SoftLimitRespected'
  <2>1. up
    BY <1>2 DEF LockSafe, DownInv, MonitorKind, KMonitorLives, KMonitorEnds, KMonitorMarks
  <2>2. Busy' \subseteq Busy
    BY <1>2 DEF MonitorKind, KMonitorLives, KMonitorEnds, KMonitorMarks, StatusSame, OnlyStatus,
                Busy, StartingOrRunning
  <2> QED
    BY <2>1, <2>2, NotMoreBusy
<1>3. CASE KExit \/ UNCHANGED vars
  BY <1>3 DEF KExit, vars, SoftLimitRespected, StartingOrRunning
<1>4. CASE Crash
  BY <1>4 DEF Crash, SoftLimitRespected
<1>5. CASE Load
  <2>1. StartingOrRunning(records') = {}
    BY <1>5, LoadedSettled DEF LockSafe, StartingOrRunning
  <2> QED
    BY <2>1, FS_EmptySet, BoundAssumption DEF SoftLimitRespected
<1> QED
  BY <1>1, <1>2, <1>3, <1>4, <1>5, Kinds DEF LockSafe

LEMMA QuietInit == Init => QuietSafe
<1> SUFFICES ASSUME Init PROVE QuietSafe
  OBVIOUS
<1>1. /\ \A t \in Requests : req[t].pc = "idle"
      /\ \A m \in Monitors : mon[m].pc = "done"
      /\ \A p \in Profiles : records[p].status = "stopped"
  BY DEF Init, Idle, Done, NewProfile
<1>2. StartingOrRunning(records) = {}
  BY <1>1 DEF StartingOrRunning
<1>3. SoftLimitRespected
  BY <1>2, FS_EmptySet, BoundAssumption DEF SoftLimitRespected
<1> QED
  BY <1>1, <1>3, LockSafeInit DEF QuietSafe, NoStatusCalls, QuietPhase, QuietMonitors, StartPcs

LEMMA QuietCorrect ==
    ASSUME "status" \notin Ops
    PROVE  Spec => []QuietSafe
<1>1. QuietSafe /\ [Next]_vars => QuietSafe'
  BY LockSafeNext, NoStatusNext, QuietPhaseNext, QuietMonitorsNext, LimitNext
     DEF QuietSafe, LockSafe
<1> QED
  BY <1>1, QuietInit, PTL DEF Spec

(* As long as nobody calls status(), never more profiles start or run than the *)
(* limit allows: for every number of profiles and calls, every mixture of      *)
(* modes, across crashes and restarts of the manager.                          *)
THEOREM LimitHolds ==
    ASSUME "status" \notin Ops
    PROVE  Spec => []SoftLimitRespected
<1>1. QuietSafe => SoftLimitRespected
  BY DEF QuietSafe
<1> QED
  BY <1>1, QuietCorrect, PTL

-----------------------------------------------------------------------------
(* Disappearances                                                            *)

(* A monitor that was told its browser is gone is still right when it writes  *)
(* so, even after the await in which it closes the context: nobody launches a  *)
(* browser for a profile that has a live monitor.                             *)
GoneInv ==
    \A m \in Monitors :
        mon[m].pc = "closing" \/ (mon[m].pc # "done" /\ mon[m].probe = "absent")
        => ~chrome[mon[m].prof]

(* A step that lets no browser be born where a monitor lives and leaves the    *)
(* monitors, or ends some of them, keeps what they know.                      *)
LEMMA StillGone ==
    ASSUME GoneInv,
           \A m \in Monitors : mon'[m].pc # "done" => mon'[m] = mon[m],
           \A m \in Monitors : mon[m].pc # "done" /\ chrome'[mon[m].prof] => chrome[mon[m].prof]
    PROVE  GoneInv'
BY DEF GoneInv

LEMMA GoneNext == QuietSafe /\ GoneInv /\ [Next]_vars => GoneInv'
<1> SUFFICES ASSUME QuietSafe, GoneInv, [Next]_vars PROVE GoneInv'
  OBVIOUS
<1> USE DEF QuietSafe, LockSafe, OnlyMonitor
<1>0. /\ \A m \in Monitors : mon[m].pc # "done" => mon[m].prof \in Profiles
      /\ \A t \in Requests : req[t].pc # "idle" => req[t].prof \in Profiles
  BY DEF TypeInv, GoodRequest, GoodMonitor
<1>1. ASSUME NEW t \in Requests, KCall(t) \/ KAnswer(t) \/ KReturn(t) \/ KMove(t) PROVE GoneInv'
  BY <1>0, <1>1, StillGone DEF KCall, KAnswer, KReturn, KMove, NoneBorn
<1>2. ASSUME NEW t \in Requests, NEW s \in Statuses, KEnter(t, s) \/ KFinish(t, s) PROVE GoneInv'
  BY <1>2, StillGone DEF KEnter, KFinish
<1>3. ASSUME NEW t \in Requests, KSpawn(t) \/ \E s \in Statuses : KAttempt(t, s) PROVE GoneInv'
  <2>1. records[req[t].prof].status # "running"
    BY <1>3 DEF KSpawn, KAttempt, QuietPhase, StartPcs
  <2>2. \A m \in Monitors : mon[m].pc # "done" => mon[m].prof # req[t].prof
    BY <2>1 DEF QuietMonitors
  <2> QED
    BY <1>0, <1>3, <2>2, StillGone DEF KSpawn, KAttempt
<1>4. ASSUME NEW t \in Requests, KStopRuntime(t) PROVE GoneInv'
  <2>1. chrome' = chrome /\ Dropped(req[t].prof) /\ req[t].prof \in Profiles
    BY <1>0, <1>4 DEF KStopRuntime
  <2>2. \A m \in Monitors : mon'[m].pc # "done" => mon'[m] = mon[m]
    BY <2>1, NullAssumption DEF Dropped
  <2> QED
    BY <2>1, <2>2, StillGone
<1>5. ASSUME NEW t \in Requests, NEW n \in Monitors, KRun(t, n) PROVE GoneInv'
  BY <1>5 DEF KRun, GoneInv
<1>6. ASSUME NEW t \in Requests, KStatusKeeps(t) \/ KStatusDrops(t) \/ KStatusMarks(t)
      PROVE  GoneInv'
  BY <1>6 DEF KStatusKeeps, KStatusDrops, KStatusMarks, NoStatusCalls
<1>7. ASSUME NEW n \in Monitors, MonitorKind(n) PROVE GoneInv'
  BY <1>7 DEF MonitorKind, KMonitorLives, KMonitorEnds, KMonitorMarks, GoneInv
<1>8. CASE KExit
  BY <1>0, <1>8, StillGone DEF KExit, NoneBorn
<1>9. CASE Load \/ UNCHANGED vars
  BY <1>9, StillGone DEF Load, vars
<1>10. CASE Crash
  BY <1>10, StillGone DEF Crash, Done
<1> QED
  BY <1>1, <1>2, <1>3, <1>4, <1>5, <1>6, <1>7, <1>8, <1>9, <1>10, Kinds DEF RequestKind

(* _load calls no profile disappeared that was not an error before.           *)
LEMMA LoadedNotGone ==
    ASSUME TypeInv, Load, NEW p \in Profiles
    PROVE  NotGone(p)
<1>1. PICK probe : records' = [q \in Profiles |-> Loaded(records[q], probe[q])]
  BY DEF Load
<1>2. records'[p] = Loaded(records[p], probe[p]) /\ records[p] \in Record
  BY <1>1 DEF TypeInv, TypeOK
<1>3. ASSUME NEW a, records[p].status # "error", Loaded(records[p], a).status = "error"
      PROVE  Loaded(records[p], a).err # "gone"
  <2>1. a # "absent"
    BY <1>2, <1>3, RecordFields DEF Loaded
  <2> QED
    BY <1>2, <2>1, RecordFields DEF Loaded
<1> QED
  BY <1>2, <1>3 DEF NotGone

(* As long as nobody calls status(), a record turns to                         *)
(* browser_process_disappeared only while the browser is not there, in every   *)
(* launch mode, whatever monitors, calls and restarts interleave.             *)
THEOREM DisappearancesAreTrue ==
    ASSUME "status" \notin Ops
    PROVE  Spec => NoFalseDisappearance
<1> DEFINE A == \A p \in Profiles :
                   up' /\ records[p].status # "error" /\ records'[p].status = "error"
                       /\ records'[p].err = "gone"
                   => ~chrome[p]
<1>1. QuietSafe /\ GoneInv /\ [Next]_vars => [A]_vars
  <2> SUFFICES ASSUME QuietSafe, GoneInv, [Next]_vars, NEW p \in Profiles,
                      up', ~NotGone(p)
               PROVE  ~chrome[p]
    BY DEF NotGone
  <2>0. records[p].status # "error" /\ records'[p].status = "error"
    BY DEF NotGone
  <2>1. ASSUME NEW t \in Requests, RequestKind(t) PROVE FALSE
    <3>1. CASE KCall(t) \/ KAnswer(t) \/ KReturn(t) \/ KSpawn(t) \/ KMove(t)
      BY <2>0, <3>1 DEF KCall, KAnswer, KReturn, KSpawn, KMove, StatusSame
    <3>2. CASE KStatusKeeps(t) \/ KStatusDrops(t) \/ KStatusMarks(t)
      BY <3>2 DEF KStatusKeeps, KStatusDrops, KStatusMarks, QuietSafe, NoStatusCalls
    <3>3. ASSUME NEW s \in Statuses, KEnter(t, s) \/ KFinish(t, s) \/ KAttempt(t, s) PROVE FALSE
      <4>1. OnlyStatus(req[t].prof, s)
        BY <3>3 DEF KEnter, KFinish, KAttempt
      <4>2. p = req[t].prof
        BY <2>0, <4>1 DEF OnlyStatus
      <4>3. KAttempt(t, s)
        BY <3>3, <4>2 DEF KEnter, KFinish
      <4> QED
        BY <2>0, <4>1, <4>2, <4>3 DEF OnlyStatus, KAttempt
    <3>4. CASE KStopRuntime(t) \/ \E m \in Monitors : KRun(t, m)
      BY <2>0, <3>4 DEF KStopRuntime, KRun, OnlyStatus
    <3> QED
      BY <2>1, <3>1, <3>2, <3>3, <3>4 DEF RequestKind
  <2>2. ASSUME NEW m \in Monitors, MonitorKind(m) PROVE ~chrome[p]
    <3>1. PICK s \in Statuses : KMonitorMarks(m, s)
      BY <2>0, <2>2 DEF MonitorKind, KMonitorLives, KMonitorEnds, StatusSame
    <3>2. p = mon[m].prof
      BY <2>0, <3>1 DEF KMonitorMarks, OnlyStatus
    <3> QED
      BY <3>1, <3>2 DEF KMonitorMarks, GoneInv
  <2>3. ~(KExit \/ Crash \/ UNCHANGED vars)
    BY <2>0 DEF KExit, Crash, vars
  <2>4. ~Load
    BY LoadedNotGone DEF QuietSafe, LockSafe
  <2> QED
    BY <2>1, <2>2, <2>3, <2>4, Kinds DEF QuietSafe, LockSafe
<1>2. Init => GoneInv
  BY DEF Init, Done, GoneInv
<1> QED
  BY <1>1, <1>2, GoneNext, QuietInit, QuietCorrect, PTL DEF Spec, NoFalseDisappearance

=============================================================================
