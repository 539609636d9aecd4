---------------------------- MODULE MCPageRegistry ----------------------------
(*****************************************************************************)
(* Values for the constants of PageRegistry.                                  *)
(*****************************************************************************)
EXTENDS PageRegistry, TLC

Symmetry == Permutations(Pages) \cup Permutations(Addresses)

=============================================================================
