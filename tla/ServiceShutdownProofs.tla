------------------------- MODULE ServiceShutdownProofs -------------------------
(*****************************************************************************)
(* Theorems about ServiceShutdown, for any number of profiles and calls and   *)
(* any limit. ShutdownEnds stays with TLC.                                    *)
(*****************************************************************************)
EXTENDS ServiceShutdown, TLAPS

(* The work for a profile is stop_all's, or that of a call in flight.         *)
Owned ==
    \A p \in Profiles :
        /\ p \in closes => work[p] = "stop"
        /\ work[p] # "none" /\ p \notin closes => calls[p] > 0

(* What the status of a profile says of its browser and of the work for it.   *)
Truthful ==
    \A p \in Profiles :
        /\ status[p] = "stopped" /\ p \notin Driven =>
              ~browser[p] /\ work[p] \in {"none", "check"}
        /\ up /\ work[p] \in {"none", "check"} => status[p] \in {"stopped", "running", "error"}
        /\ work[p] = "check" => status[p] # "running"
        /\ work[p] = "open" => p \in Driven
        /\ ~up => work[p] = "none"

(* The process, and what is settled already when stop_all is at work.         *)
Orderly ==
    /\ up <=> phase \notin {"exited", "dead"}
    /\ phase # "stopping" => todo = {}
    /\ phase = "stopping" =>
          \A p \in Profiles \ missed :
              /\ calls[p] = 0
              /\ p \notin todo => status[p] \in {"stopped", "error"}

Inv == TypeOK /\ Owned /\ Truthful /\ Orderly /\ SettledAtExit

-----------------------------------------------------------------------------
LEMMA InvInit == InitService => Inv
BY MaxCallsAssumption
DEF InitService, Init, Inv, TypeOK, Statuses, Works, Owned, Truthful, Orderly, SettledAtExit

(* An action of ProfileSpec for p is a turn of p and leaves the other         *)
(* profiles alone.                                                            *)
LEMMA TurnType ==
    ASSUME TypeOK, NEW p \in Profiles, NEW from \in Works, NEW to \in Works,
           NEW s \in Statuses, Turn(p, from, to, s)
    PROVE  /\ up /\ up' = up
           /\ work[p] = from /\ work'[p] = to /\ status'[p] = s
           /\ work' \in [Profiles -> Works] /\ status' \in [Profiles -> Statuses]
           /\ \A q \in Profiles \ {p} : work'[q] = work[q] /\ status'[q] = status[q]
BY DEF Turn, TypeOK

(* A call returns, with its connection or without: both counts keep their type. *)
LEMMA CallsType ==
    ASSUME TypeOK, NEW p \in Profiles, calls[p] > 0, OneCallLess(p)
    PROVE  /\ calls' \in [Profiles -> 0 .. MaxCalls] /\ lost' \in [Profiles -> 0 .. MaxCalls]
           /\ calls'[p] = calls[p] - 1
           /\ \A q \in Profiles \ {p} : calls'[q] = calls[q] /\ lost'[q] = lost[q]
           /\ \A q \in Profiles : lost'[q] <= calls'[q]
  <1>1. PICK n \in {lost[p], lost[p] - 1} : n >= 0 /\ n < calls[p] /\ lost' = [lost EXCEPT ![p] = n]
    BY DEF OneCallLess
  <1>2. n \in 0 .. MaxCalls /\ n <= calls[p] - 1 /\ calls[p] - 1 \in 0 .. MaxCalls
    BY <1>1, MaxCallsAssumption DEF TypeOK
  <1> QED BY <1>1, <1>2 DEF OneCallLess, TypeOK

LEMMA ServiceStepInv ==
    ASSUME Inv, NEW p \in Profiles, ServiceStep(p)
    PROVE  Inv'
<1> USE DEF Inv, TypeOK, Statuses, Works, Owned, Truthful, Orderly, SettledAtExit,
            process, vars, Turn, Settled
<1>1. CASE Arrive(p)
    BY <1>1, MaxCallsAssumption DEF Arrive
<1>2. CASE CallBegins(p)
    <2>1. CASE BeginStart(p)
        BY <1>2, <2>1 DEF CallBegins, BeginStart, Orphaned
    <2>2. CASE BeginStop(p)
        BY <1>2, <2>2 DEF CallBegins, BeginStop
    <2> QED BY <1>2, <2>1, <2>2 DEF CallBegins
<1>3. CASE CallWorks(p)
    <2>1. CASE Launch(p)
        BY <1>3, <2>1 DEF CallWorks, Launch
    <2>2. CASE Relaunch(p)
        BY <1>3, <2>2 DEF CallWorks, Relaunch
    <2>3. CASE EndStop(p) /\ work'[p] = "check"
        BY <1>3, <2>3 DEF CallWorks, EndStop
    <2> QED BY <1>3, <2>1, <2>2, <2>3 DEF CallWorks
<1>4. CASE CallReturns(p)
    <2>0. /\ calls' \in [Profiles -> 0 .. MaxCalls] /\ lost' \in [Profiles -> 0 .. MaxCalls]
          /\ \A q \in Profiles \ {p} : calls'[q] = calls[q]
          /\ calls'[p] = calls[p] - 1 /\ calls[p] > 0
          /\ \A q \in Profiles : lost'[q] <= calls'[q]
        BY <1>4, CallsType DEF CallReturns
    <2>1. CASE p \notin closes /\ RefuseStart(p)
        BY <1>4, <2>0, <2>1 DEF CallReturns, RefuseStart
    <2>2. CASE p \notin closes /\ EndStart(p)
        BY <1>4, <2>0, <2>2 DEF CallReturns, EndStart
    <2>3. CASE p \notin closes /\ StopOrphan(p)
        BY <1>4, <2>0, <2>3 DEF CallReturns, StopOrphan
    <2>4. CASE p \notin closes /\ EndStop(p) /\ work'[p] = "none"
        BY <1>4, <2>0, <2>4 DEF CallReturns, EndStop
    <2>5. CASE (calls[p] > 1 \/ work[p] = "none" \/ p \in closes) /\ UNCHANGED vars
        BY <1>4, <2>0, <2>5 DEF CallReturns
    <2> QED BY <1>4, <2>1, <2>2, <2>3, <2>4, <2>5 DEF CallReturns
<1>5. CASE Notice(p)
    <2>1. CASE Distrust(p)
        BY <1>5, <2>1 DEF Notice, Distrust
    <2>2. CASE Mistake(p)
        BY <1>5, <2>2 DEF Notice, Mistake
    <2>3. CASE BrowserExits(p)
        BY <1>5, <2>3 DEF Notice, BrowserExits
    <2> QED BY <1>5, <2>1, <2>2, <2>3 DEF Notice
<1>6. CASE CloseBegins(p)
    BY <1>6 DEF CloseBegins, BeginStop
<1>7. CASE CloseEnds(p)
    <2>1. CASE p \in closes /\ EndStop(p) /\ work'[p] = "none"
        BY <1>7, <2>1 DEF CloseEnds, EndStop
    <2>2. CASE p \notin closes /\ StopOrphan(p)
        BY <1>7, <2>2 DEF CloseEnds, StopOrphan
    <2>3. CASE work[p] = "none" /\ status[p] = "stopped" /\ UNCHANGED vars
        BY <1>7, <2>3 DEF CloseEnds
    <2> QED BY <1>7, <2>1, <2>2, <2>3 DEF CloseEnds
<1>8. CASE CallOpens(p)
    BY <1>8 DEF CallOpens, Open
<1>9. CASE Disconnect(p)
    BY <1>9, MaxCallsAssumption DEF Disconnect
<1> QED BY <1>1, <1>2, <1>3, <1>4, <1>5, <1>6, <1>7, <1>8, <1>9 DEF ServiceStep

LEMMA PhaseInv ==
    ASSUME Inv, Interrupt \/ StopListening \/ Look \/ Exit \/ Die \/ StartAgain
    PROVE  Inv'
<1> USE DEF Inv, TypeOK, Statuses, Works, Owned, Truthful, Orderly, SettledAtExit, vars
<1>1. CASE Interrupt
    BY <1>1 DEF Interrupt
<1>2. CASE StopListening
    BY <1>2 DEF StopListening
<1>3. CASE Look
    BY <1>3 DEF Look, Found
<1>4. CASE Exit
    <2>0. /\ calls' \in [Profiles -> 0 .. MaxCalls] /\ lost' = calls'
          /\ \A p \in Profiles : lost'[p] <= calls'[p]
          /\ work' \in [Profiles -> Works]
        BY <1>4, MaxCallsAssumption DEF Exit, Crash
    <2>1. TypeOK'
        BY <1>4, <2>0 DEF Exit, Crash
    <2>2. Owned' /\ Truthful'
        BY <1>4 DEF Exit, Crash
    <2>3. Orderly' /\ SettledAtExit'
        BY <1>4 DEF Exit, Crash
    <2> QED BY <2>1, <2>2, <2>3
<1>5. CASE Die
    <2>0. /\ calls' \in [Profiles -> 0 .. MaxCalls] /\ lost' = calls'
          /\ \A p \in Profiles : lost'[p] <= calls'[p]
          /\ work' \in [Profiles -> Works]
        BY <1>5, MaxCallsAssumption DEF Die, Crash
    <2>1. TypeOK'
        BY <1>5, <2>0 DEF Die, Crash
    <2>2. Owned' /\ Truthful'
        BY <1>5 DEF Die, Crash
    <2>3. Orderly' /\ SettledAtExit'
        BY <1>5 DEF Die, Crash
    <2> QED BY <2>1, <2>2, <2>3
<1>6. CASE StartAgain
    <2>1. TypeOK'
        BY <1>6 DEF StartAgain, Load
    <2>2. \A p \in Profiles : status'[p] \in {"stopped", "error"}
        BY <1>6 DEF StartAgain, Load, Settled
    <2>3. work' = work /\ browser' = browser /\ closes' = closes /\ calls' = calls
        BY <1>6 DEF StartAgain, Load
    <2>4. \A p \in Profiles : status'[p] = "stopped" => ~browser[p]
        BY <1>6 DEF StartAgain, Load, Settled
    <2>5. \A p \in Profiles : work[p] = "none"
        BY <1>6 DEF StartAgain, Load
    <2>6. Owned' /\ Truthful'
        BY <2>2, <2>3, <2>4, <2>5
    <2>7. Orderly' /\ SettledAtExit'
        BY <1>6 DEF StartAgain, Load
    <2> QED BY <2>1, <2>6, <2>7
<1> QED BY <1>1, <1>2, <1>3, <1>4, <1>5, <1>6

LEMMA InvNext == Inv /\ [NextService]_allvars => Inv'
<1>1. CASE UNCHANGED allvars
    BY <1>1 DEF allvars, vars, Inv, TypeOK, Owned, Truthful, Orderly, SettledAtExit
<1> QED BY <1>1, ServiceStepInv, PhaseInv DEF NextService

LEMMA InvHolds == SpecService => []Inv
BY InvInit, InvNext, PTL DEF SpecService

(* Every variable keeps its type (all of ServiceShutdown).                    *)
THEOREM TypeCorrect == SpecService => []TypeOK
<1>1. Inv => TypeOK
    BY DEF Inv
<1> QED BY <1>1, InvHolds, PTL

(* A service that ended in order leaves every profile for which no call was in *)
(* flight when stop_all looked stopped, without an ordinary Chrome, or in     *)
(* error: whether wait_closed waits or not, and whichever clients have gone   *)
(* away (api.py 169-186, 922-966).                                            *)
THEOREM ExitIsSettled == SpecService => []SettledAtExit
<1>1. Inv => SettledAtExit
    BY DEF Inv
<1> QED BY <1>1, InvHolds, PTL

(* While stop_all works, only calls it has missed launch a browser (api.py    *)
(* 169-186).                                                                  *)
THEOREM LaunchesAreKnown == SpecService => NoLateLaunch
<1> DEFINE Step == \A p \in Profiles :
                      phase = "stopping" /\ ~browser[p] /\ browser'[p] => p \in missed
<1>1. Inv /\ [NextService]_allvars => [Step]_allvars
    <2> SUFFICES ASSUME Inv, NextService PROVE Step
        OBVIOUS
    <2>1. ASSUME NEW q \in Profiles, ServiceStep(q) PROVE Step
        <3>1. CASE CallWorks(q) \/ CallOpens(q)
            <4>1. phase = "stopping" => q \in missed
                <5>1. work[q] # "none" /\ q \notin closes
                    BY <3>1 DEF CallWorks, CallOpens, Launch, Open, Relaunch, EndStop, Turn
                <5> QED BY <5>1 DEF Inv, Owned, Orderly, TypeOK
            <4>2. \A p \in Profiles \ {q} : browser'[p] = browser[p]
                BY <3>1 DEF CallWorks, CallOpens, Inv, TypeOK, Launch, Open, Relaunch, EndStop
            <4> QED BY <4>1, <4>2
        <3>2. CASE ~(CallWorks(q) \/ CallOpens(q))
            <4>1. \A p \in Profiles : browser'[p] => browser[p]
                BY <2>1, <3>2
                DEF ServiceStep, Arrive, Disconnect, CallBegins, CallReturns, Notice, CloseBegins, CloseEnds,
                    vars, BeginStart, BeginStop, RefuseStart, EndStart, StopOrphan, EndStop,
                    Distrust, Mistake, BrowserExits, Inv, TypeOK
            <4> QED BY <4>1
        <3> QED BY <3>1, <3>2
    <2>2. CASE Interrupt \/ StopListening \/ Look \/ Exit \/ Die \/ StartAgain
        BY <2>2 DEF Interrupt, StopListening, Look, Exit, Die, StartAgain, Crash, Load, vars
    <2> QED BY <2>1, <2>2 DEF NextService
<1> QED BY <1>1, InvHolds, PTL DEF SpecService, NoLateLaunch

(* Every step of the service is a step that ProfileSpec allows, or changes    *)
(* nothing of the profiles: the order in which a shutdown stops them, and the *)
(* calls it races with, stay within what the manager promises (server.py      *)
(* 169-181, api.py 169-186).                                                  *)
THEOREM ServiceKeepsSpec == SpecService => Spec
<1>1. InitService => Init
    BY DEF InitService
<1>2. [NextService]_allvars => [Next]_vars
    <2> SUFFICES ASSUME NextService PROVE Next \/ UNCHANGED vars
        BY DEF allvars, vars
    <2>1. ASSUME NEW p \in Profiles, ServiceStep(p) PROVE ProfileStep(p) \/ UNCHANGED vars
        BY <2>1
        DEF ServiceStep, Arrive, Disconnect, CallBegins, CallWorks, CallOpens, CallReturns, Notice,
            CloseBegins, CloseEnds, ProfileStep
    <2>2. CASE Interrupt \/ StopListening \/ Look
        BY <2>2 DEF Interrupt, StopListening, Look
    <2>3. CASE Exit \/ Die \/ StartAgain
        BY <2>3 DEF Exit, Die, StartAgain, Next
    <2> QED BY <2>1, <2>2, <2>3 DEF NextService, Next
<1> QED BY <1>1, <1>2, PTL DEF SpecService, Spec

=============================================================================
