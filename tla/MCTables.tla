------------------------------ MODULE MCTables ------------------------------
(***************************************************************************)
(* Three parts that share no state, each checked for its invariants:       *)
(* combos, their rotation, and proxy pools.  A behaviour is one of one     *)
(* part, chosen at the start, while the others stay at theirs.  Parts      *)
(* share their model values, for the symmetry.                             *)
(***************************************************************************)
EXTENDS Combos, Rotation, ProxyPools, TLC

CONSTANTS x1, x2, u1, u2, k1, k2

\* Lists of up to two pools, with and without repetition.
Lists == UNION {[1..n -> Pool] : n \in 0..2}

VARIABLE part

tablesVars == <<part, comboVars, rotationVars, proxyVars>>

TablesInit ==
  /\ part \in {"combos", "rotation", "pools"}
  /\ ComboInit
  /\ RotationInit
  /\ ProxyInit
  /\ part # "pools" => groupRow.pools = <<>> /\ groupRow.strict

TablesNext ==
  /\ UNCHANGED part
  /\ \/ /\ part = "combos" /\ ComboNext
        /\ UNCHANGED <<rotationVars, proxyVars>>
     \/ /\ part = "rotation" /\ RotationNext
        /\ UNCHANGED <<comboVars, proxyVars>>
     \/ /\ part = "pools" /\ ProxyNext
        /\ UNCHANGED <<comboVars, rotationVars>>

TablesSpec == TablesInit /\ [][TablesNext]_tablesVars

\* The state of the three parts is of the type the code gives it.
TablesTypeOK == ComboTypeOK /\ RotationTypeOK /\ ProxyTypeOK

Symmetry ==
  Permutations({x1, x2}) \cup Permutations({u1, u2}) \cup Permutations({k1, k2})
=============================================================================
