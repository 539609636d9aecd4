--------------------------- MODULE MCDownloadTracker ---------------------------
(*****************************************************************************)
(* Values for the constants of DownloadTracker.                               *)
(*****************************************************************************)
EXTENDS DownloadTracker, TLC

Symmetry == Permutations(Guids) \cup Permutations(Waiters) \cup Permutations(Keys)

=============================================================================
