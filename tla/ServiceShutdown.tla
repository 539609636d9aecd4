---------------------------- MODULE ServiceShutdown ----------------------------
(*****************************************************************************)
(* The end of the service: the console's interrupt, the close of the API, one *)
(* look at the records for what to stop (server.py 170-181, api.py 169-186,   *)
(* stop_all), while the calls that clients have in flight go on. What a call  *)
(* or a stop does to a profile is what ProfileSpec promises of it; here it is *)
(* told who does it.                                                          *)
(*                                                                            *)
(* Since Python 3.12.1 Server.wait_closed waits for the connections that are  *)
(* open; before, it returned at once. Either may be installed. A connection   *)
(* is not its call: when the client resets it, nothing tells _handle_client,  *)
(* whose call goes on and is no longer waited for. The playwright driver is   *)
(* closed first: the API still accepts calls meanwhile, and afterwards none   *)
(* hangs in the driver.                                                       *)
(*****************************************************************************)
EXTENDS ProfileSpec

CONSTANT MaxCalls    \* bound on the lifecycle calls in flight for one profile

ASSUME MaxCallsAssumption == MaxCalls \in Nat

VARIABLES
    phase,    \* of the process
    waits,    \* wait_closed waits for open connections
    calls,    \* the lifecycle calls in flight
    lost,     \* how many of them have lost their connection
    todo,     \* the profiles that stop_all found and has not yet stopped
    closes,   \* those among them whose work is stop_all's
    missed    \* the profiles that had a call in flight at that look

process == <<phase, waits, todo, missed>>
allvars == <<vars, phase, waits, calls, lost, todo, closes, missed>>

TypeOK ==
    /\ up \in BOOLEAN
    /\ status \in [Profiles -> Statuses]
    /\ browser \in [Profiles -> BOOLEAN]
    /\ work \in [Profiles -> Works]
    /\ phase \in {"serving", "interrupted", "closing", "stopping", "exited", "dead"}
    /\ waits \in BOOLEAN
    /\ calls \in [Profiles -> 0 .. MaxCalls]
    /\ lost \in [Profiles -> 0 .. MaxCalls]
    /\ \A p \in Profiles : lost[p] <= calls[p]
    /\ todo \subseteq Profiles
    /\ closes \subseteq todo
    /\ missed \subseteq Profiles

InitService ==
    /\ Init
    /\ phase = "serving"
    /\ waits \in BOOLEAN
    /\ calls = [p \in Profiles |-> 0] /\ lost = calls
    /\ todo = {} /\ closes = {} /\ missed = {}

-----------------------------------------------------------------------------
(* Mutant of Arrive: the API is closed after stop_all.                       *)
ArriveLate(p) ==
    /\ phase \notin {"exited", "dead"} /\ calls[p] < MaxCalls
    /\ calls' = [calls EXCEPT ![p] = @ + 1]
    /\ UNCHANGED <<vars, process, lost, closes>>

(* The API accepts a call until its server is closed.                        *)
Arrive(p) ==
    /\ phase \in {"serving", "interrupted"} /\ calls[p] < MaxCalls
    /\ calls' = [calls EXCEPT ![p] = @ + 1]
    /\ UNCHANGED <<vars, process, lost, closes>>

(* A call takes the lock of its profile,                                     *)
CallBegins(p) ==
    /\ calls[p] > 0
    /\ BeginStart(p) \/ BeginStop(p)
    /\ UNCHANGED <<process, calls, lost, closes>>

(* works under it,                                                           *)
CallWorks(p) ==
    /\ p \notin closes
    /\ \/ Launch(p) \/ Relaunch(p)
       \/ EndStop(p) /\ work'[p] = "check"
    /\ UNCHANGED <<process, calls, lost, closes>>

(* waits for Playwright's launch,                                            *)
CallOpens(p) ==
    /\ p \notin closes
    /\ Open(p)
    /\ UNCHANGED <<process, calls, lost, closes>>

(* The connection of a call is lost; the call goes on.                       *)
Disconnect(p) ==
    /\ lost[p] < calls[p]
    /\ lost' = [lost EXCEPT ![p] = @ + 1]
    /\ UNCHANGED <<vars, process, calls, closes>>

(* One call less, of those with a connection or of those without.            *)
OneCallLess(p) ==
    /\ calls' = [calls EXCEPT ![p] = @ - 1]
    /\ \E n \in {lost[p], lost[p] - 1} :
          /\ n >= 0 /\ n < calls[p]
          /\ lost' = [lost EXCEPT ![p] = n]

(* Mutant of CallReturns: a call is answered twice.                          *)
CallReturnsTwice(p) ==
    /\ p \notin closes
    /\ \/ RefuseStart(p) \/ EndStart(p) \/ StopOrphan(p)
       \/ EndStop(p) /\ work'[p] = "none"
       \/ UNCHANGED vars
    /\ calls' = [calls EXCEPT ![p] = @ - 1]
    /\ UNCHANGED <<process, lost, closes>>

(* and returns: after its work, or after none.                               *)
CallReturns(p) ==
    /\ calls[p] > 0
    /\ \/ p \notin closes
          /\ \/ RefuseStart(p) \/ EndStart(p) \/ StopOrphan(p)
             \/ EndStop(p) /\ work'[p] = "none"
       \/ (calls[p] > 1 \/ work[p] = "none" \/ p \in closes) /\ UNCHANGED vars
    /\ OneCallLess(p)
    /\ UNCHANGED <<process, closes>>

(* status() and the monitors.                                                *)
Notice(p) ==
    /\ Distrust(p) \/ Mistake(p) \/ BrowserExits(p)
    /\ UNCHANGED <<process, calls, lost, closes>>

-----------------------------------------------------------------------------
Interrupt ==
    /\ phase = "serving"
    /\ phase' = "interrupted"
    /\ UNCHANGED <<vars, waits, calls, lost, todo, closes, missed>>

(* The driver is closed, and then the API's server.                          *)
StopListening ==
    /\ phase = "interrupted"
    /\ phase' = "closing"
    /\ UNCHANGED <<vars, waits, calls, lost, todo, closes, missed>>

(* The records that stop_all stops.                                          *)
Found == {p \in Profiles : status[p] \in {"running", "starting", "error"}}

(* No connection is open, or they are not waited for, and stop_all looks, in  *)
(* one step.                                                                  *)
Look ==
    /\ phase = "closing"
    /\ waits => \A p \in Profiles : lost[p] = calls[p]
    /\ phase' = "stopping"
    /\ todo' = Found
    /\ missed' = {p \in Profiles : calls[p] > 0}
    /\ UNCHANGED <<vars, waits, calls, lost, closes>>

(* stop_all's stop of p: begun when the lock is free, over when it is ended,  *)
(* or when there is nothing left to stop.                                     *)
CloseBegins(p) ==
    /\ p \in todo /\ BeginStop(p)
    /\ closes' = closes \cup {p}
    /\ UNCHANGED <<process, calls, lost>>

(* Mutant of CloseEnds: a stop waits for a profile that is stopped already.  *)
CloseEndsOwn(p) ==
    /\ p \in todo
    /\ \/ p \in closes /\ EndStop(p) /\ work'[p] = "none"
       \/ p \notin closes /\ StopOrphan(p)
    /\ todo' = todo \ {p}
    /\ closes' = closes \ {p}
    /\ UNCHANGED <<phase, waits, calls, lost, missed>>

CloseEnds(p) ==
    /\ p \in todo
    /\ \/ p \in closes /\ EndStop(p) /\ work'[p] = "none"
       \/ p \notin closes /\ StopOrphan(p)
       \/ work[p] = "none" /\ status[p] = "stopped" /\ UNCHANGED vars
    /\ todo' = todo \ {p}
    /\ closes' = closes \ {p}
    /\ UNCHANGED <<phase, waits, calls, lost, missed>>

(* Mutant of Exit: the stops are not awaited.                                *)
ExitAtOnce ==
    /\ phase = "stopping"
    /\ phase' = "exited"
    /\ Crash
    /\ calls' = [p \in Profiles |-> 0] /\ lost' = calls'
    /\ UNCHANGED <<waits, todo, closes, missed>>

(* The process ends in order: what is still in flight is cancelled.          *)
Exit ==
    /\ phase = "stopping" /\ todo = {}
    /\ phase' = "exited"
    /\ Crash
    /\ calls' = [p \in Profiles |-> 0] /\ lost' = calls'
    /\ UNCHANGED <<waits, todo, closes, missed>>

(* It dies, or one stop raises because the registry cannot be written: gather *)
(* passes that on, and the other stops are cancelled.                         *)
Die ==
    /\ phase' = "dead"
    /\ Crash
    /\ calls' = [p \in Profiles |-> 0] /\ lost' = calls'
    /\ todo' = {} /\ closes' = {} /\ missed' = {}
    /\ UNCHANGED waits

StartAgain ==
    /\ Load
    /\ phase' = "serving"
    /\ missed' = {}
    /\ UNCHANGED <<waits, calls, lost, todo, closes>>

ServiceStep(p) ==
    \/ Arrive(p) \/ Disconnect(p)
    \/ CallBegins(p) \/ CallWorks(p) \/ CallOpens(p) \/ CallReturns(p)
    \/ Notice(p) \/ CloseBegins(p) \/ CloseEnds(p)

NextService ==
    \/ \E p \in Profiles : ServiceStep(p)
    \/ Interrupt \/ StopListening \/ Look \/ Exit \/ Die \/ StartAgain

(* The event loop runs what can run, and every await of a call or a stop      *)
(* ends: they all have time-outs, or fail when the driver is closed. Nothing  *)
(* is assumed of new calls, lost connections, interrupts and deaths.          *)
Fairness ==
    /\ \A p \in Profiles :
          /\ WF_allvars(CallOpens(p)) /\ WF_allvars(CallReturns(p))
          /\ WF_allvars(CloseBegins(p) \/ CloseEnds(p))
    /\ WF_allvars(StopListening)
    /\ WF_allvars(Look)
    /\ WF_allvars(Exit)

SpecService == InitService /\ [][NextService]_allvars /\ Fairness

-----------------------------------------------------------------------------
(* When the service has ended in order, the registry says of every profile    *)
(* that it is stopped, and then an ordinary Chrome is gone, or names its      *)
(* error; except profiles with a call in flight at the look of stop_all. Such *)
(* calls there are also where wait_closed waits, if their client went away    *)
(* (api.py 169-186, profile_manager.py 1075-1077).                            *)
SettledAtExit ==
    phase = "exited" =>
        \A p \in Profiles \ missed :
            \/ status[p] = "error"
            \/ status[p] = "stopped" /\ (browser[p] => p \in Driven)

(* Once stop_all has looked, no browser is launched behind its back, except   *)
(* by a call that was in flight at that look (api.py 169-186).                *)
NoLateLaunch ==
    [][\A p \in Profiles :
          phase = "stopping" /\ ~browser[p] /\ browser'[p] => p \in missed]_allvars

(* An interrupt ends the service, whatever calls are in flight and whatever   *)
(* they hold (server.py 169-181).                                             *)
ShutdownEnds == phase = "interrupted" ~> phase \in {"exited", "dead"}

=============================================================================
