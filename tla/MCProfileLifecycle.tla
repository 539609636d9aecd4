-------------------------- MODULE MCProfileLifecycle --------------------------
(*****************************************************************************)
(* Values for the constants of ProfileLifecycle. p1 and p2 are profiles.      *)
(*****************************************************************************)
EXTENDS ProfileRefinement, TLC

CONSTANTS p1, p2

Native == [p \in Profiles |-> "native"]

Persistent == [p \in Profiles |-> "persistent"]

Mixed == [p \in Profiles |-> IF p = p1 THEN "native" ELSE "background"]

(* Requests and runtimes are interchangeable; not used for liveness.         *)
Symmetry == Permutations(Requests) \cup Permutations(Monitors)

=============================================================================
