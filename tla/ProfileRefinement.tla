--------------------------- MODULE ProfileRefinement ---------------------------
(*****************************************************************************)
(* ProfileLifecycle implements ProfileSpec, in every launch mode.             *)
(*****************************************************************************)
EXTENDS ProfileLifecycle

(* The work for a profile is the place of the request that holds its lock.    *)
Work(p) ==
    LET owner == lifecycleLock[p] IN
    IF owner = NoRequest THEN "none"
    ELSE IF req[owner].pc = "preflight" THEN "check"
    ELSE IF req[owner].pc = "launching" /\ req[owner].attempt = 0 THEN "open"
    ELSE IF req[owner].op = "start" THEN "start"
    ELSE "stop"

Abstract ==
    INSTANCE ProfileSpec WITH
        Driven  <- {p \in Profiles : LaunchMode[p] # "native"},
        status  <- [p \in Profiles |-> records[p].status],
        browser <- chrome,
        work    <- [p \in Profiles |-> Work(p)]

(* Whatever calls, stale answers, monitors, retries and crashes interleave, a  *)
(* client sees a profile move only as ProfileSpec allows: one piece of work at *)
(* a time, a first launch only where no browser lives and within the limit,    *)
(* after a crash nothing but "stopped" or "error", and, for ordinary Chrome,   *)
(* "stopped" only without a browser (profile_manager.py 764-1062, 241-310).    *)
ImplementsProfileSpec == Abstract!Spec

=============================================================================
