--------------------------- MODULE MCTokenRefresh ---------------------------
(* Instances of TokenRefresh for TLC. *)
EXTENDS TokenRefresh, TLC

CONSTANTS c1, c2, k1, k2

CallerSymmetry == Permutations({k1, k2})
=============================================================================
