------------------------ MODULE MCConnHealthVerdicts ------------------------
(* Instances of ConnHealthDirect and ConnHealthVerdicts for TLC. *)
EXTENDS ConnHealthVerdicts, TLC

RequestSymmetry == Permutations(Request)
=============================================================================
