--------------------------- MODULE MCLayeredCache ---------------------------
(***************************************************************************)
(* Instances of LayeredCache for TLC.                                      *)
(***************************************************************************)
EXTENDS LayeredCache, TLC

CONSTANTS r1, p1, p2

\* Two callers in one replica; they can be swapped.
PairHome == p1 :> r1 @@ p2 :> r1
PairSymmetry == Permutations(Callers)
=============================================================================
