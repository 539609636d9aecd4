----------------------------- MODULE MCProxyRoute -----------------------------
(*****************************************************************************)
(* Values for the constants of ProxyRoute.                                    *)
(*****************************************************************************)
EXTENDS ProxyRoute, TLC

Symmetry == Permutations(Profiles) \cup Permutations(Basic)

=============================================================================
