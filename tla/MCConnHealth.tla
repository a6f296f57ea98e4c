---------------------------- MODULE MCConnHealth ----------------------------
(* Instances of ConnHealth and its inductive invariant for TLC. *)
EXTENDS ConnHealthInv, TLC

\* Requests are interchangeable.
RequestSymmetry == Permutations(Request)
=============================================================================
