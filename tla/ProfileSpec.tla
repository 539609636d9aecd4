------------------------------ MODULE ProfileSpec ------------------------------
(*****************************************************************************)
(* What the manager promises a client about its profiles: the status it is    *)
(* shown, the browser, and the one piece of work that may be going on for the *)
(* profile. There are no calls, answers, retries, tasks or locks;             *)
(* ProfileRefinement shows that ProfileLifecycle implements this. Of profiles *)
(* that Playwright runs less is promised than of ordinary Chrome: closing a   *)
(* context is an await, and what is written after it may be about a run that  *)
(* was followed by another.                                                   *)
(*****************************************************************************)
EXTENDS Naturals, FiniteSets

CONSTANTS
    Profiles,
    Driven,       \* those that Playwright runs; the others have an ordinary Chrome
    SoftLimit

VARIABLES
    up,       \* the manager runs
    status,   \* the status of each profile, in memory and in the registry file
    browser,  \* its Chrome lives
    work      \* what is being done for it

vars == <<up, status, browser, work>>

Statuses == {"stopped", "starting", "running", "stopping", "error"}

(* "check": a start looks whether the profile is free; "open": it has begun,   *)
(* and Playwright has not launched yet; "start": it launches, or has launched; *)
(* "stop": a stop, or the first half of a restart.                            *)
Works == {"none", "check", "open", "start", "stop"}

Init ==
    /\ up = TRUE
    /\ status = [p \in Profiles |-> "stopped"]
    /\ browser = [p \in Profiles |-> FALSE]
    /\ work = [p \in Profiles |-> "none"]

(* From one phase of the work for p to another, shown as s.                  *)
Turn(p, from, to, s) ==
    /\ up /\ work[p] = from
    /\ work' = [work EXCEPT ![p] = to]
    /\ status' = [status EXCEPT ![p] = s]
    /\ up' = up

(* Only a profile whose browser is gone may be called stopped.               *)
Settled(p) == {"error"} \cup (IF browser[p] THEN {} ELSE {"stopped"})

(* No run of the profile is known, and yet it is not called stopped.          *)
Orphaned(p) == status[p] = "error" \/ (p \in Driven /\ status[p] = "running")

Busy == {p \in Profiles : status[p] \in {"starting", "running"}}

-----------------------------------------------------------------------------
(* A start, or a restart of a profile that has no run, begins. A restart may   *)
(* settle what an earlier run left.                                           *)
BeginStart(p) ==
    /\ \E s \in (IF status[p] = "running" THEN {} ELSE {status[p]})
                \cup (IF Orphaned(p) THEN Settled(p) ELSE {}) :
          Turn(p, "none", "check", s)
    /\ UNCHANGED browser

(* It is refused: for processes of the profile, or for the limit.            *)
RefuseStart(p) ==
    /\ \E s \in {status[p]} \cup Settled(p) : Turn(p, "check", "none", s)
    /\ UNCHANGED browser

(* It goes ahead, where no browser lives and while there is room: Chrome is    *)
(* launched, or the attempt fails at once, or Playwright is told to launch.   *)
Launch(p) ==
    /\ ~browser[p] /\ Cardinality(Busy) < SoftLimit
    /\ \/ /\ Turn(p, "check", "start", "starting")
          /\ \E b \in BOOLEAN : browser' = [browser EXCEPT ![p] = b]
       \/ /\ p \in Driven
          /\ Turn(p, "check", "open", "starting")
          /\ UNCHANGED browser

(* Playwright launches where still none lives, or fails.                      *)
Open(p) ==
    /\ ~browser[p]
    /\ Turn(p, "open", "start", status[p])
    /\ \E b \in BOOLEAN : browser' = [browser EXCEPT ![p] = b]

(* A retry. Nothing promises that the browser of the last attempt is gone.    *)
Relaunch(p) ==
    /\ Turn(p, "start", "start", status[p])
    /\ browser' = [browser EXCEPT ![p] = TRUE]

EndStart(p) ==
    /\ \E s \in {"running", "error"} : Turn(p, "start", "none", s)
    /\ UNCHANGED browser

BeginStop(p) ==
    /\ status[p] # "stopped"
    /\ Turn(p, "none", "stop", "stopping")
    /\ UNCHANGED browser

(* A stop ends, and a restart goes on.                                       *)
EndStop(p) ==
    /\ \E to \in {"none", "check"}, s \in Settled(p) : Turn(p, "stop", to, s)
    /\ UNCHANGED browser

(* The stop of a profile that has no run only settles its status.            *)
StopOrphan(p) ==
    /\ Orphaned(p)
    /\ \E s \in Settled(p) : Turn(p, "none", "none", s)
    /\ UNCHANGED browser

(* The browser is found, or believed, to be gone.                            *)
Distrust(p) ==
    /\ Turn(p, work[p], work[p], "error")
    /\ UNCHANGED browser

(* The end of an earlier run is taken for that of this one.                   *)
Mistake(p) ==
    /\ p \in Driven
    /\ Turn(p, work[p], work[p], "stopped")
    /\ UNCHANGED browser

BrowserExits(p) ==
    /\ browser' = [browser EXCEPT ![p] = FALSE]
    /\ UNCHANGED <<up, status, work>>

(* The manager dies. The status shown is the one that is remembered.         *)
Crash ==
    /\ up
    /\ up' = FALSE
    /\ work' = [p \in Profiles |-> "none"]
    /\ UNCHANGED <<status, browser>>

(* It starts again and settles every profile.                                *)
Load ==
    /\ ~up
    /\ up' = TRUE
    /\ status' \in [Profiles -> Statuses]
    /\ \A p \in Profiles : status'[p] \in Settled(p)
    /\ UNCHANGED <<browser, work>>

ProfileStep(p) ==
    \/ BrowserExits(p) \/ Distrust(p) \/ Mistake(p)
    \/ BeginStart(p) \/ RefuseStart(p) \/ Launch(p) \/ Open(p) \/ Relaunch(p) \/ EndStart(p)
    \/ BeginStop(p) \/ EndStop(p) \/ StopOrphan(p)

Next == (\E p \in Profiles : ProfileStep(p)) \/ Crash \/ Load

Spec == Init /\ [][Next]_vars

=============================================================================
