---------------------------- MODULE ProfileLifecycle ----------------------------
(*****************************************************************************)
(* The life of a profile's browser under ProfileManager (profile_manager.py): *)
(* start, stop, restart and status requests of the local API, the monitor     *)
(* task of every run, the registry file, and what happens to them when the    *)
(* browser dies or the manager process crashes and is started again.          *)
(*                                                                            *)
(* The manager is one asyncio event loop. A task runs without interruption    *)
(* from one await to the next, so an action of this module is the code        *)
(* between two awaits, with every synchronous call it makes (the registry     *)
(* save, the synchronous process queries of stop and _load). What an await    *)
(* waits for is a probe, answered by a Probe action that looks at the         *)
(* processes while the task is suspended; the task sees the answer later.     *)
(*****************************************************************************)
EXTENDS Naturals, FiniteSets

CONSTANTS
    Profiles,     \* the registered profiles
    Requests,     \* slots for API calls in flight; each is an asyncio task
    Monitors,     \* identities of runtimes, each with its own monitor task
    LaunchMode,   \* how _start_unlocked launches each profile
    SoftLimit,    \* soft_concurrency_limit
    MaxRetries,   \* max_retries
    Ops,          \* the operations clients call
    NoProfile, NoRequest, NoMonitor

(* "native": ordinary Chrome, no DevTools; "background": Chrome with CDP;     *)
(* "persistent": launched by Playwright (launch_persistent_context).          *)
Modes == {"native", "background", "persistent"}

AllOps == {"start", "stop", "restart", "status"}

ASSUME ModeAssumption == LaunchMode \in [Profiles -> Modes]
ASSUME FiniteAssumption == IsFiniteSet(Profiles)
ASSUME BoundAssumption == SoftLimit \in Nat /\ MaxRetries \in Nat
ASSUME OpsAssumption == Ops \subseteq AllOps
ASSUME NullAssumption ==
    /\ NoProfile \notin Profiles
    /\ NoRequest \notin Requests
    /\ NoMonitor \notin Monitors

VARIABLES
    up,             \* the manager process runs
    records,        \* self._records: status, class of last_error, root_pid set?
    registry,       \* the records in the registry file
    chrome,         \* a Chrome process with the profile's directory lives
    lifecycleLock,  \* self._lifecycle_locks: the request that holds each lock
    req,            \* the requests in flight
    runtime,        \* self._runtime: the profile's runtime
    mon,            \* the monitor tasks
    expected        \* the runtimes whose expected_stop is set

vars == <<up, records, registry, chrome, lifecycleLock, req, runtime, mon, expected>>

-----------------------------------------------------------------------------
(* Records, requests and monitors                                            *)

Statuses == {"stopped", "starting", "running", "stopping", "error"}

(* last_error, by what the code tells apart: "recovery_required:...",        *)
(* "process_probe_failed:...", browser_process_disappeared ("gone"),          *)
(* manager_restarted ("restarted") and everything else ("other").             *)
Errors == {"none", "recovery", "probe", "gone", "restarted", "other"}

Record == [status : Statuses, err : Errors, rootPid : BOOLEAN]

ProbeStates == {"none", "pending", "found", "absent", "error"}

(* The await a request is suspended at.                                      *)
RequestPcs == {"idle",       \* no call in this slot
               "queued",     \* waiting for the lifecycle lock
               "preflight",  \* _ensure_profile_processes_absent
               "launching",  \* before Chrome is spawned
               "readying",   \* connecting to and preparing the spawned Chrome
               "observe",    \* _wait_for_processes(present=True)
               "shutdown",   \* _shutdown_runtime, the wait after a graceful close
               "killed",     \* _shutdown_runtime, the wait after the forced kill
               "retrywait",  \* the wait and the sleep of a failed attempt
               "status",     \* the query of status()
               "closing"}    \* status() closes the Playwright context

(* What the handlers of a failed attempt set last_error to.                  *)
Causes == {"none", "probe", "other"}

StartPcs == {"launching", "readying", "observe", "shutdown", "killed", "retrywait"}

Request == [op         : AllOps \cup {"none"},
            prof       : Profiles \cup {NoProfile},
            pc         : RequestPcs,
            probe      : ProbeStates,
            attempt    : 0..MaxRetries,
            recovering : BOOLEAN,
            fail       : Causes]

Idle == [op |-> "none", prof |-> NoProfile, pc |-> "idle", probe |-> "none",
         attempt |-> 0, recovering |-> FALSE, fail |-> "none"]

(* rt and wasExpected are the local variables runtime and expected.          *)
Monitor == [prof        : Profiles \cup {NoProfile},
            pc          : {"done", "top", "query", "closing"},
            probe       : ProbeStates,
            rt          : Monitors \cup {NoMonitor},
            wasExpected : BOOLEAN]

Done == [prof |-> NoProfile, pc |-> "done", probe |-> "none", rt |-> NoMonitor,
         wasExpected |-> FALSE]

(* Every variable has its type; in particular no start takes more than         *)
(* max_retries retries (790, 892, 918).                                        *)
TypeOK ==
    /\ up \in BOOLEAN
    /\ records \in [Profiles -> Record]
    /\ registry \in [Profiles -> Record]
    /\ chrome \in [Profiles -> BOOLEAN]
    /\ lifecycleLock \in [Profiles -> Requests \cup {NoRequest}]
    /\ req \in [Requests -> Request]
    /\ runtime \in [Profiles -> Monitors \cup {NoMonitor}]
    /\ mon \in [Monitors -> Monitor]
    /\ expected \subseteq Monitors

NewProfile == [status |-> "stopped", err |-> "none", rootPid |-> FALSE]

Init ==
    /\ up = TRUE
    /\ records = [p \in Profiles |-> NewProfile]
    /\ registry = records
    /\ chrome = [p \in Profiles |-> FALSE]
    /\ lifecycleLock = [p \in Profiles |-> NoRequest]
    /\ req = [t \in Requests |-> Idle]
    /\ runtime = [p \in Profiles |-> NoMonitor]
    /\ mon = [m \in Monitors |-> Done]
    /\ expected = {}

-----------------------------------------------------------------------------
(* Process probes                                                            *)

(* What a query of the profile's processes may answer now.                   *)
OSProbe(p) == {"error", IF chrome[p] THEN "found" ELSE "absent"}

(* The answer comes while the asking task is suspended.                      *)
ProbeRequest(t) ==
    /\ req[t].probe = "pending"
    /\ \E answer \in OSProbe(req[t].prof) : req' = [req EXCEPT ![t].probe = answer]
    /\ UNCHANGED <<up, records, registry, chrome, lifecycleLock, runtime, mon, expected>>

ProbeMonitor(m) ==
    /\ mon[m].probe = "pending"
    /\ \E answer \in OSProbe(mon[m].prof) : mon' = [mon EXCEPT ![m].probe = answer]
    /\ UNCHANGED <<up, records, registry, chrome, lifecycleLock, req, runtime, expected>>

(* The request is suspended at pc and has what it waits for.                 *)
At(t, pc) == req[t].pc = pc /\ req[t].probe # "pending"

MonitorAt(m, pc) == mon[m].pc = pc /\ mon[m].probe # "pending"

-----------------------------------------------------------------------------
(* Parts of the handlers                                                     *)

SetRecord(p, r) == records' = [records EXCEPT ![p] = r]

(* _save writes every record of the manager.                                 *)
Save == registry' = records'

Suspend(t, pc, probe) == [req[t] EXCEPT !.pc = pc, !.probe = probe]

Return(t, p) ==
    /\ req' = [req EXCEPT ![t] = Idle]
    /\ lifecycleLock' = [lifecycleLock EXCEPT ![p] = NoRequest]

(* _start_unlocked up to its first await, for a profile that is not running. *)
EnterStart(t, p, r) ==
    /\ req' = [req EXCEPT ![t] =
                 [Suspend(t, "preflight", "pending") EXCEPT !.op = "start",
                                                            !.recovering = (r.err = "recovery")]]
    /\ lifecycleLock' = [lifecycleLock EXCEPT ![p] = t]

(* Mutant of Cancel: the task is not cancelled.                              *)
CancelNothing(m) == UNCHANGED mon

(* Cancelling a monitor task ends it at the await it is suspended at.        *)
Cancel(m) == mon' = IF m = NoMonitor THEN mon ELSE [mon EXCEPT ![m] = Done]

StartingOrRunning(recs) == {p \in Profiles : recs[p].status \in {"starting", "running"}}

(* Mutant of LimitReached: off by one.                                       *)
LimitExceeded(recs) == Cardinality(StartingOrRunning(recs)) > SoftLimit

LimitReached(recs) == Cardinality(StartingOrRunning(recs)) >= SoftLimit

(* The exception handlers of the retry loop: last_error is set in memory      *)
(* only, and the cleanup begins at pc.                                        *)
FailAttempt(t, r, fail, pc, attempt) ==
    /\ SetRecord(req[t].prof, [r EXCEPT !.err = fail])
    /\ req' = [req EXCEPT ![t] = [Suspend(t, pc, IF pc = "shutdown" THEN "pending" ELSE "none")
                                    EXCEPT !.fail = fail, !.attempt = attempt]]

(* Without a runtime the handler shuts a known root process down.            *)
CleanupWithoutRuntime(r) == IF r.rootPid THEN "shutdown" ELSE "retrywait"

(* One turn of the retry loop up to its first await. The record was saved     *)
(* before anything can fail or be spawned.                                    *)
BeginAttempt(t, r, attempt) ==
    LET p == req[t].prof IN
    \/ /\ FailAttempt(t, r, "other", CleanupWithoutRuntime(r), attempt)
       /\ registry' = [records' EXCEPT ![p] = r]
       /\ UNCHANGED chrome
    \/ /\ LaunchMode[p] = "native"
       /\ chrome' = [chrome EXCEPT ![p] = TRUE]
       /\ SetRecord(p, [r EXCEPT !.rootPid = TRUE])
       /\ Save
       /\ req' = [req EXCEPT ![t] = [Suspend(t, "observe", "pending") EXCEPT !.attempt = attempt]]
    \/ /\ LaunchMode[p] # "native"
       /\ SetRecord(p, r)
       /\ Save
       /\ req' = [req EXCEPT ![t] = [Suspend(t, "launching", "none") EXCEPT !.attempt = attempt]]
       /\ UNCHANGED chrome

(* Mutant of StopOutcomes: the last query is left out.                       *)
StopTrustsShutdown(p, probeFailed) ==
    {IF probeFailed THEN [records[p] EXCEPT !.status = "error", !.err = "probe"] ELSE NewProfile}

(* The end of _stop_unlocked: the record follows the last, synchronous query.*)
StopOutcomes(p, probeFailed) ==
    LET r == records[p]
        failed == [r EXCEPT !.status = "error", !.err = "probe"]
        remain == [r EXCEPT !.status = "error", !.err = "other"]
    IN {failed} \cup (IF probeFailed THEN {}
                      ELSE IF chrome[p] THEN {remain}
                      ELSE {NewProfile})

(* stop returns with its outcome; restart goes on to start under the lock.   *)
EndStop(t, p, probeFailed) ==
    \E r \in StopOutcomes(p, probeFailed) :
        /\ SetRecord(p, r)
        /\ Save
        /\ IF req[t].op = "restart" THEN EnterStart(t, p, r) ELSE Return(t, p)

-----------------------------------------------------------------------------
(* start                                                                     *)

(* A call of start, stop or restart queues for the profile's lock. status     *)
(* takes no lock and queries the processes of a running profile at once.      *)
Call(t, op, p) ==
    /\ up
    /\ req[t].pc = "idle"
    /\ op = "status" => records[p].status = "running"
    /\ req' = [req EXCEPT ![t] =
                 [Idle EXCEPT !.op = op, !.prof = p,
                              !.pc = IF op = "status" THEN "status" ELSE "queued",
                              !.probe = IF op = "status" THEN "pending" ELSE "none"]]
    /\ UNCHANGED <<up, records, registry, chrome, lifecycleLock, runtime, mon, expected>>

(* Mutant of AcquireForStart: start does not wait for the lock.               *)
StartWithoutLock(t) ==
    LET p == req[t].prof IN
    /\ At(t, "queued") /\ req[t].op = "start"
    /\ records[p].status # "running" /\ EnterStart(t, p, records[p])
    /\ UNCHANGED <<up, records, registry, chrome, runtime, mon, expected>>

AcquireForStart(t) ==
    LET p == req[t].prof IN
    /\ At(t, "queued") /\ req[t].op = "start" /\ lifecycleLock[p] = NoRequest
    /\ IF records[p].status = "running" THEN Return(t, p) ELSE EnterStart(t, p, records[p])
    /\ UNCHANGED <<up, records, registry, chrome, runtime, mon, expected>>

(* Mutant of PreflightClean: a failed query counts as an empty answer.       *)
PreflightNotFound(probe) == probe # "found"

(* Any answer but "no process of this profile" refuses the start.            *)
PreflightClean(probe) == probe = "absent"

(* Mutant of PreflightFails: the lock is not released on the error path.     *)
PreflightFailsLocked(t) ==
    LET p == req[t].prof IN
    /\ At(t, "preflight")
    /\ ~PreflightClean(req[t].probe)
    /\ SetRecord(p, [records[p] EXCEPT !.status = "error", !.err = "recovery"])
    /\ Save
    /\ req' = [req EXCEPT ![t] = Idle]
    /\ UNCHANGED <<up, chrome, lifecycleLock, runtime, mon, expected>>

PreflightFails(t) ==
    LET p == req[t].prof IN
    /\ At(t, "preflight")
    /\ ~PreflightClean(req[t].probe)
    /\ SetRecord(p, [records[p] EXCEPT !.status = "error", !.err = "recovery"])
    /\ Save
    /\ Return(t, p)
    /\ UNCHANGED <<up, chrome, runtime, mon, expected>>

(* _clear_recovery_state, when the record needed recovery as start began.    *)
Recovered(t) == IF req[t].recovering THEN NewProfile ELSE records[req[t].prof]

SoftLimitRefuses(t) ==
    LET p == req[t].prof
        r == Recovered(t)
    IN
    /\ At(t, "preflight")
    /\ PreflightClean(req[t].probe)
    /\ LimitReached([records EXCEPT ![p] = r])
    /\ SetRecord(p, [r EXCEPT !.err = "other"])
    /\ Save
    /\ Return(t, p)
    /\ UNCHANGED <<up, chrome, runtime, mon, expected>>

FirstAttempt(t) ==
    LET p == req[t].prof
        r == Recovered(t)
    IN
    /\ At(t, "preflight")
    /\ PreflightClean(req[t].probe)
    /\ ~LimitReached([records EXCEPT ![p] = r])
    /\ BeginAttempt(t, [r EXCEPT !.status = "starting", !.err = "none"], 0)
    /\ UNCHANGED <<up, lifecycleLock, runtime, mon, expected>>

(* Chrome is spawned by _launch_background_runtime, or by Playwright.        *)
Spawn(t) ==
    LET p == req[t].prof IN
    /\ At(t, "launching")
    /\ chrome' = [chrome EXCEPT ![p] = TRUE]
    /\ IF LaunchMode[p] = "background"
       THEN SetRecord(p, [records[p] EXCEPT !.rootPid = TRUE]) /\ Save
       ELSE UNCHANGED <<records, registry>>
    /\ req' = [req EXCEPT ![t] = Suspend(t, "readying", "none")]
    /\ UNCHANGED <<up, lifecycleLock, runtime, mon, expected>>

SpawnFails(t) ==
    LET r == records[req[t].prof] IN
    /\ At(t, "launching")
    /\ FailAttempt(t, r, "other", CleanupWithoutRuntime(r), req[t].attempt)
    /\ UNCHANGED <<up, registry, chrome, lifecycleLock, runtime, mon, expected>>

(* CDP connected, permissions applied, the page opened and ready.            *)
Ready(t) ==
    /\ At(t, "readying")
    /\ req' = [req EXCEPT ![t] = Suspend(t, "observe", "pending")]
    /\ UNCHANGED <<up, records, registry, chrome, lifecycleLock, runtime, mon, expected>>

(* A step of the preparation fails. Playwright's launch may fail before        *)
(* runtime is assigned: then only the context is closed, or nothing is.        *)
ReadyFails(t) ==
    LET p == req[t].prof IN
    /\ At(t, "readying")
    /\ \E pc \in {"shutdown"} \cup (IF LaunchMode[p] = "persistent" THEN {"retrywait"} ELSE {}) :
          FailAttempt(t, records[p], "other", pc, req[t].attempt)
    /\ UNCHANGED <<up, registry, chrome, lifecycleLock, runtime, mon, expected>>

(* No monitor task, runtime table entry or local variable names m.           *)
Fresh(m) ==
    /\ mon[m].pc = "done"
    /\ \A p \in Profiles : runtime[p] # m
    /\ \A n \in Monitors : mon[n].rt # m

Observed(t) ==
    LET p == req[t].prof IN
    /\ At(t, "observe") /\ req[t].probe = "found"
    /\ \E m \in Monitors :
        /\ Fresh(m)
        /\ mon' = [mon EXCEPT ![m] = [Done EXCEPT !.prof = p, !.pc = "top"]]
        /\ runtime' = [runtime EXCEPT ![p] = m]
        /\ expected' = expected \ {m}
    /\ SetRecord(p, [status |-> "running", err |-> "none", rootPid |-> TRUE])
    /\ Save
    /\ Return(t, p)
    /\ UNCHANGED <<up, chrome>>

(* The query failed (or, after it, the query of the windows did), or no        *)
(* process was seen before the deadline.                                       *)
NotObserved(t) ==
    LET p == req[t].prof IN
    /\ At(t, "observe")
    /\ FailAttempt(t, records[p], IF req[t].probe = "absent" THEN "other" ELSE "probe",
                   "shutdown", req[t].attempt)
    /\ UNCHANGED <<up, registry, chrome, lifecycleLock, runtime, mon, expected>>

(* Mutant of GiveUp: the status is left as it was.                           *)
GiveUpStarting(r, fail) == [r EXCEPT !.err = fail]

(* After the last attempt.                                                   *)
GiveUp(r, fail) == [r EXCEPT !.status = "error", !.err = fail]

(* Mutant of RetryLeft: off by one.                                          *)
OneRetryMore(t) == req[t].attempt <= MaxRetries

(* What the wait for the processes to go answers is discarded by both          *)
(* exception handlers: the next attempt launches without another preflight.    *)
RetryLeft(t) == req[t].attempt < MaxRetries

(* Mutant of NextAttempt: the attempt is not counted.                        *)
NextAttemptUncounted(t) ==
    /\ At(t, "retrywait") /\ RetryLeft(t)
    /\ BeginAttempt(t, records[req[t].prof], req[t].attempt)
    /\ UNCHANGED <<up, lifecycleLock, runtime, mon, expected>>

NextAttempt(t) ==
    /\ At(t, "retrywait") /\ RetryLeft(t)
    /\ BeginAttempt(t, records[req[t].prof], req[t].attempt + 1)
    /\ UNCHANGED <<up, lifecycleLock, runtime, mon, expected>>

StartFails(t) ==
    LET p == req[t].prof IN
    /\ At(t, "retrywait") /\ ~RetryLeft(t)
    /\ SetRecord(p, GiveUp(records[p], req[t].fail))
    /\ Save
    /\ Return(t, p)
    /\ UNCHANGED <<up, chrome, runtime, mon, expected>>

-----------------------------------------------------------------------------
(* stop, restart and the shutdown they share with a failed start             *)

(* The first part of _stop_unlocked: stop and restart differ in what follows.*)
StopsNothing(t, p) ==
    /\ records[p].status = "stopped"
    /\ IF req[t].op = "restart" THEN EnterStart(t, p, records[p]) ELSE Return(t, p)
    /\ UNCHANGED <<records, registry, runtime, mon, expected>>

StopsOrphan(t, p) ==
    /\ records[p].status # "stopped" /\ runtime[p] = NoMonitor
    /\ EndStop(t, p, FALSE)
    /\ UNCHANGED <<runtime, mon, expected>>

StopsRuntime(t, p) ==
    /\ records[p].status # "stopped" /\ runtime[p] # NoMonitor
    /\ SetRecord(p, [records[p] EXCEPT !.status = "stopping"])
    /\ Save
    /\ runtime' = [runtime EXCEPT ![p] = NoMonitor]
    /\ expected' = expected \cup {runtime[p]}
    /\ Cancel(runtime[p])
    /\ lifecycleLock' = [lifecycleLock EXCEPT ![p] = t]
    /\ req' = [req EXCEPT ![t] = Suspend(t, "shutdown", "pending")]

AcquireForStop(t) ==
    LET p == req[t].prof IN
    /\ At(t, "queued") /\ req[t].op \in {"stop", "restart"} /\ lifecycleLock[p] = NoRequest
    /\ StopsNothing(t, p) \/ StopsOrphan(t, p) \/ StopsRuntime(t, p)
    /\ UNCHANGED <<up, chrome>>

(* Processes are left after the graceful close: they are killed, which may    *)
(* fail without an error.                                                     *)
Kill(t) ==
    LET p == req[t].prof IN
    /\ At(t, "shutdown") /\ req[t].probe = "found"
    /\ \E alive \in {chrome[p], FALSE} : chrome' = [chrome EXCEPT ![p] = alive]
    /\ req' = [req EXCEPT ![t] = Suspend(t, "killed", "pending")]
    /\ UNCHANGED <<up, records, registry, lifecycleLock, runtime, mon, expected>>

(* _shutdown_runtime returns to _stop_unlocked, or to a failed start, which   *)
(* does not look at the result.                                               *)
ShutdownReturns(t) ==
    LET p == req[t].prof IN
    /\ At(t, "killed") \/ (At(t, "shutdown") /\ req[t].probe # "found")
    /\ IF req[t].op = "start"
       THEN /\ req' = [req EXCEPT ![t] = Suspend(t, "retrywait", "none")]
            /\ UNCHANGED <<records, registry, lifecycleLock>>
       ELSE EndStop(t, p, req[t].probe = "error")
    /\ UNCHANGED <<up, chrome, runtime, mon, expected>>

-----------------------------------------------------------------------------
(* status                                                                    *)

StatusProbeFails(t) ==
    LET p == req[t].prof IN
    /\ At(t, "status") /\ req[t].probe = "error"
    /\ SetRecord(p, [records[p] EXCEPT !.err = "probe"])
    /\ Save
    /\ req' = [req EXCEPT ![t] = Idle]
    /\ UNCHANGED <<up, chrome, lifecycleLock, runtime, mon, expected>>

StatusAlive(t) ==
    LET p == req[t].prof IN
    /\ At(t, "status") /\ req[t].probe = "found"
    /\ IF records[p].err = "probe"
       THEN SetRecord(p, [records[p] EXCEPT !.err = "none"]) /\ Save
       ELSE UNCHANGED <<records, registry>>
    /\ req' = [req EXCEPT ![t] = Idle]
    /\ UNCHANGED <<up, chrome, lifecycleLock, runtime, mon, expected>>

MarkDisappeared(p) ==
    /\ SetRecord(p, [records[p] EXCEPT !.status = "error", !.err = "gone"])
    /\ Save

(* The runtime is dropped and its monitor cancelled; a Playwright context is  *)
(* closed before the record changes.                                          *)
StatusGone(t) ==
    LET p == req[t].prof IN
    /\ At(t, "status") /\ req[t].probe = "absent"
    /\ runtime' = [runtime EXCEPT ![p] = NoMonitor]
    /\ Cancel(runtime[p])
    /\ IF LaunchMode[p] # "native" /\ runtime[p] # NoMonitor
       THEN req' = [req EXCEPT ![t] = Suspend(t, "closing", "none")]
            /\ UNCHANGED <<records, registry>>
       ELSE req' = [req EXCEPT ![t] = Idle] /\ MarkDisappeared(p)
    /\ UNCHANGED <<up, chrome, lifecycleLock, expected>>

(* Mutant of StatusClosed: the record is not written after the close.        *)
StatusForgets(t) ==
    /\ At(t, "closing")
    /\ req' = [req EXCEPT ![t] = Idle]
    /\ UNCHANGED <<up, records, registry, chrome, lifecycleLock, runtime, mon, expected>>

StatusClosed(t) ==
    /\ At(t, "closing")
    /\ MarkDisappeared(req[t].prof)
    /\ req' = [req EXCEPT ![t] = Idle]
    /\ UNCHANGED <<up, chrome, lifecycleLock, runtime, mon, expected>>

-----------------------------------------------------------------------------
(* _monitor                                                                  *)

(* The head of the loop reads the record and the runtime anew.               *)
MonitorTop(m) ==
    LET p == mon[m].prof IN
    /\ MonitorAt(m, "top")
    /\ mon' = [mon EXCEPT ![m] =
                 IF records[p].status = "running" /\ runtime[p] # NoMonitor
                 THEN [@ EXCEPT !.pc = "query", !.probe = "pending", !.rt = runtime[p]]
                 ELSE Done]
    /\ UNCHANGED <<up, records, registry, chrome, lifecycleLock, req, runtime, expected>>

(* After the sleep the local variable runtime is assigned before it is read. *)
MonitorSleeps(m) == [mon[m] EXCEPT !.pc = "top", !.probe = "none", !.rt = NoMonitor]

(* Mutant of MonitorProbeFails: return instead of continue.                  *)
MonitorGivesUp(m) ==
    LET p == mon[m].prof IN
    /\ MonitorAt(m, "query") /\ mon[m].probe \in {"error", "found"}
    /\ SetRecord(p, [records[p] EXCEPT !.err = "probe"])
    /\ Save
    /\ mon' = [mon EXCEPT ![m] = Done]
    /\ UNCHANGED <<up, chrome, lifecycleLock, req, runtime, expected>>

(* The query of the processes failed, or after it the query of the windows.  *)
MonitorProbeFails(m) ==
    LET p == mon[m].prof IN
    /\ MonitorAt(m, "query") /\ mon[m].probe \in {"error", "found"}
    /\ SetRecord(p, [records[p] EXCEPT !.err = "probe"])
    /\ Save
    /\ mon' = [mon EXCEPT ![m] = MonitorSleeps(m)]
    /\ UNCHANGED <<up, chrome, lifecycleLock, req, runtime, expected>>

(* The cleared probe error is not saved.                                     *)
MonitorAlive(m) ==
    LET p == mon[m].prof IN
    /\ MonitorAt(m, "query") /\ mon[m].probe = "found"
    /\ SetRecord(p, IF records[p].err = "probe" THEN [records[p] EXCEPT !.err = "none"]
                    ELSE records[p])
    /\ mon' = [mon EXCEPT ![m] = MonitorSleeps(m)]
    /\ UNCHANGED <<up, registry, chrome, lifecycleLock, req, runtime, expected>>

(* The record after a disappearance; the runtime stays in the table.         *)
MonitorMarks(m, wasExpected) ==
    LET p == mon[m].prof IN
    /\ SetRecord(p, IF wasExpected
                    THEN [records[p] EXCEPT !.status = "stopped", !.err = "none"]
                    ELSE [records[p] EXCEPT !.status = "error", !.err = "gone"])
    /\ Save
    /\ mon' = [mon EXCEPT ![m] = Done]

(* expected_stop is read before the context is closed and used after.        *)
MonitorGone(m) ==
    LET p == mon[m].prof
        wasExpected == mon[m].rt \in expected
    IN
    /\ MonitorAt(m, "query") /\ mon[m].probe = "absent"
    /\ IF LaunchMode[p] = "native" THEN MonitorMarks(m, wasExpected)
       ELSE /\ mon' = [mon EXCEPT ![m] =
                         [@ EXCEPT !.pc = "closing", !.wasExpected = wasExpected]]
            /\ UNCHANGED <<records, registry>>
    /\ UNCHANGED <<up, chrome, lifecycleLock, req, runtime, expected>>

MonitorClosed(m) ==
    /\ MonitorAt(m, "closing")
    /\ MonitorMarks(m, mon[m].wasExpected)
    /\ UNCHANGED <<up, chrome, lifecycleLock, req, runtime, expected>>

-----------------------------------------------------------------------------
(* The world, and a restart of the manager                                   *)

(* The user closes Chrome, or it crashes.                                    *)
ChromeExits(p) ==
    /\ chrome[p]
    /\ chrome' = [chrome EXCEPT ![p] = FALSE]
    /\ UNCHANGED <<up, records, registry, lifecycleLock, req, runtime, mon, expected>>

(* The manager process dies: tasks and memory are lost, the file and the      *)
(* browsers stay. From here records stands for what the file holds.           *)
Crash ==
    /\ up
    /\ up' = FALSE
    /\ records' = registry
    /\ lifecycleLock' = [p \in Profiles |-> NoRequest]
    /\ req' = [t \in Requests |-> Idle]
    /\ runtime' = [p \in Profiles |-> NoMonitor]
    /\ mon' = [m \in Monitors |-> Done]
    /\ expected' = {}
    /\ UNCHANGED <<registry, chrome>>

(* Mutant of Loaded: a failed query counts as an empty answer.               *)
LoadedNotFound(r, probe) ==
    IF probe = "found" THEN [r EXCEPT !.status = "error", !.err = "recovery"]
    ELSE IF r.status \in {"starting", "running", "stopping"}
         THEN [r EXCEPT !.status = "stopped", !.err = "restarted"]
    ELSE r

(* _load's treatment of one record, given the answer of its process query.   *)
Loaded(r, probe) ==
    IF probe # "absent" THEN [r EXCEPT !.status = "error", !.err = "recovery"]
    ELSE IF r.status = "error" /\ r.err = "recovery" THEN NewProfile
    ELSE IF r.status \in {"starting", "running", "stopping"}
         THEN [r EXCEPT !.status = "stopped", !.err = "restarted"]
    ELSE r

Load ==
    /\ ~up
    /\ up' = TRUE
    /\ \E probe \in [Profiles -> {"found", "absent", "error"}] :
        /\ \A p \in Profiles : probe[p] \in OSProbe(p)
        /\ records' = [p \in Profiles |-> Loaded(records[p], probe[p])]
    /\ Save
    /\ UNCHANGED <<chrome, lifecycleLock, req, runtime, mon, expected>>

-----------------------------------------------------------------------------
(* Specification                                                             *)

StartStep(t) ==
    \/ AcquireForStart(t) \/ PreflightFails(t) \/ SoftLimitRefuses(t) \/ FirstAttempt(t)
    \/ Spawn(t) \/ SpawnFails(t) \/ Ready(t) \/ ReadyFails(t)
    \/ Observed(t) \/ NotObserved(t) \/ NextAttempt(t) \/ StartFails(t)

StopStep(t) == AcquireForStop(t) \/ Kill(t) \/ ShutdownReturns(t)

StatusStep(t) ==
    StatusProbeFails(t) \/ StatusAlive(t) \/ StatusGone(t) \/ StatusClosed(t)

RequestStep(t) == ProbeRequest(t) \/ StartStep(t) \/ StopStep(t) \/ StatusStep(t)

MonitorStep(m) ==
    \/ ProbeMonitor(m) \/ MonitorTop(m) \/ MonitorProbeFails(m) \/ MonitorAlive(m)
    \/ MonitorGone(m) \/ MonitorClosed(m)

Next ==
    \/ \E t \in Requests, op \in Ops, p \in Profiles : Call(t, op, p)
    \/ \E t \in Requests : RequestStep(t)
    \/ \E m \in Monitors : MonitorStep(m)
    \/ \E p \in Profiles : ChromeExits(p)
    \/ Crash
    \/ Load

Spec == Init /\ [][Next]_vars

(* Fairness for liveness. Every suspended task is resumed and every query      *)
(* answers or times out (10 s). asyncio.Lock wakes its waiters in order, so a  *)
(* lock released again and again reaches every waiter. A query of the          *)
(* processes that is repeated for ever does not fail for ever. Crash, Load,    *)
(* ChromeExits and Call are not assumed to happen.                             *)
AcquireStep(t) == AcquireForStart(t) \/ AcquireForStop(t)

MonitorSees(m) == ProbeMonitor(m) /\ mon'[m].probe # "error"

Fairness ==
    /\ \A t \in Requests : WF_vars(RequestStep(t)) /\ SF_vars(AcquireStep(t))
    /\ \A m \in Monitors : WF_vars(MonitorStep(m)) /\ SF_vars(MonitorSees(m))

FairSpec == Spec /\ Fairness

-----------------------------------------------------------------------------
(* Properties                                                                *)

Free(p) == lifecycleLock[p] = NoRequest

(* A profile is "starting" or "stopping" only while a request that holds its  *)
(* lock is in the matching phase: no path of start, stop or restart, however   *)
(* it fails and whatever status() and the monitor write meanwhile, leaves a    *)
(* transient status behind (profile_manager.py 787-922, 1007-1055, 284-286),  *)
(* as long as the registry can be written.                                    *)
TransientHasOwner ==
    \A p \in Profiles :
        LET owner == lifecycleLock[p] IN
        /\ up /\ records[p].status = "starting" =>
               owner \in Requests /\ req[owner].op = "start" /\ req[owner].pc \in StartPcs
        /\ up /\ records[p].status = "stopping" =>
               /\ owner \in Requests
               /\ req[owner].op \in {"stop", "restart"}
               /\ req[owner].pc \in {"shutdown", "killed"}

(* A profile shown as "running" has a live monitor in its runtime, or a        *)
(* status() call that dropped the runtime is about to mark it: no interleaving *)
(* of stale status() answers, cancellations and restarts leaves a run that     *)
(* nobody watches (961-964, 862-869, 924-930, 979-990).                        *)
RunningIsWatched ==
    \A p \in Profiles :
        up /\ records[p].status = "running" =>
            \/ runtime[p] # NoMonitor /\ mon[runtime[p]].pc # "done"
            \/ \E t \in Requests : req[t].prof = p /\ req[t].pc = "closing"

(* An ordinary Chrome window is never forgotten: while it lives its record is  *)
(* not "stopped", neither in memory nor, whatever a crash interrupted, in the  *)
(* registry file (saves at 788, 1008 before the browser is touched; 1043-1053).*)
NativeNeverForgotten ==
    \A p \in Profiles :
        LaunchMode[p] = "native" /\ chrome[p] =>
            records[p].status # "stopped" /\ registry[p].status # "stopped"

(* When nobody works on a profile and no runtime is known for it, a living     *)
(* Chrome is reported as an error for the user to resolve: after a crash of    *)
(* the manager, a failed kill, a failed probe or a start that gave up          *)
(* (_load 265-281, 920-922, 1024-1053).                                        *)
OrphanReported ==
    \A p \in Profiles :
        /\ LaunchMode[p] = "native"
        /\ up /\ chrome[p] /\ Free(p) /\ runtime[p] = NoMonitor
        => records[p].status = "error"

(* A native profile has one monitor task at most, that of its runtime, so a    *)
(* record is never written for a run that ended (862-869, 998-1012, 979-983).  *)
OneMonitorPerProfile ==
    \A m \in Monitors :
        mon[m].pc # "done" /\ LaunchMode[mon[m].prof] = "native" => runtime[mon[m].prof] = m

(* A request begins to launch Chrome.                                        *)
Launches(t) ==
    /\ req[t].pc \in {"preflight", "retrywait", "launching"}
    /\ req'[t].pc \in {"observe", "readying"}

(* The first launch of a start never meets a browser of the same profile,      *)
(* however long ago its preflight looked: the lock keeps every other launcher  *)
(* out until then (776-781, 515-527).                                          *)
FirstLaunchFindsNoBrowser ==
    [][\A t \in Requests : Launches(t) /\ req'[t].attempt = 0 => ~chrome[req[t].prof]]_vars

(* No launch at all meets a browser of the same profile. PROJECT_STATE.md says *)
(* so of start(); the retry loop has no preflight (790-919).                   *)
EveryLaunchFindsNoBrowser ==
    [][\A t \in Requests : Launches(t) => ~chrome[req[t].prof]]_vars

(* A record turns to browser_process_disappeared only when the browser is not  *)
(* there. status() writes the answer it got for an earlier run (974-991).      *)
NoFalseDisappearance ==
    [][\A p \in Profiles :
          up' /\ records[p].status # "error" /\ records'[p].status = "error"
              /\ records'[p].err = "gone"
          => ~chrome[p]]_vars

(* Not more profiles start or run than soft_concurrency_limit, whatever starts *)
(* race: the count and the new status are one step (782-788).                  *)
SoftLimitRespected == up => Cardinality(StartingOrRunning(records)) <= SoftLimit

(* How far a call is from its end: the places it has before it, where an       *)
(* answer that is still awaited counts half a place.                          *)
StartStage == [retrywait |-> 1, killed |-> 2, shutdown |-> 3,
               observe |-> 4, readying |-> 5, launching |-> 6]

Attempts == 7 * (MaxRetries + 1)

Place(q) ==
    CASE q.pc = "idle" -> 0
      [] q.pc = "closing" -> 1
      [] q.pc = "status" -> 2
      [] q.pc = "queued" -> Attempts + 3
      [] q.pc = "preflight" -> Attempts
      [] q.pc \in StartPcs /\ q.op = "start" ->
            7 * (MaxRetries - q.attempt) + StartStage[q.pc]
      [] q.pc \in StartPcs /\ q.op # "start" -> Attempts + StartStage[q.pc] - 1

Rank(q) == 2 * Place(q) + (IF q.probe = "pending" THEN 1 ELSE 0)

(* Every step a call takes brings it nearer to its end, and none of another     *)
(* task takes it back: no call goes round in circles, whatever fails, and      *)
(* restart's second half and the retries are bounded (764-768, 790-922,        *)
(* 995-1062).                                                                  *)
CallsAdvance ==
    [][\A t \in Requests :
          req[t].pc # "idle" /\ req'[t] # req[t] => Rank(req'[t]) < Rank(req[t])]_vars

(* Every call returns, and its lock is free again: restart holds the lock over *)
(* both halves, every error path releases it, the retry loop ends (764-768,    *)
(* 790-922, 995-1062).                                                         *)
EveryRequestReturns ==
    \A t \in Requests : req[t].pc # "idle" ~> req[t].pc = "idle"

(* The death of a running profile's browser does not stay unnoticed without    *)
(* any request from a client: the monitor outlives failing probes (924-966).   *)
DeadBrowserIsNoticed ==
    \A p \in Profiles :
        up /\ records[p].status = "running" /\ ~chrome[p]
        ~> ~up \/ records[p].status # "running" \/ chrome[p]

=============================================================================
