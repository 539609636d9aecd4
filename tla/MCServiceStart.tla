---------------------------- MODULE MCServiceStart ----------------------------
(*****************************************************************************)
(* Values for the constants of ServiceStart.                                  *)
(*****************************************************************************)
EXTENDS ServiceStart, FiniteSets, TLC

Symmetry == Permutations(Managers) \cup Permutations(Threads) \cup Permutations(Presets)
            \cup Permutations(Values)

(* After a cut no further kind of cut is followed.                            *)
OneCut == Cardinality(cut) <= 1

=============================================================================
