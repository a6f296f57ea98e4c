--------------------------- MODULE MCComboRouting ---------------------------
(* Instances of ComboRouting for TLC.  The prober and the clean-up do not   *)
(* touch the same state, so that each is explored beside the requests on    *)
(* its own: with two requests over one connection, and with one request     *)
(* over two connections.                                                    *)
EXTENDS ComboRouting, TLC

CONSTANTS c1, c2, m1, m2, r1, r2

VARIABLE part  \* what this behaviour explores

mcVars == <<routingVars, part>>

OneFamily == [m \in Model |-> m1]
InOrder == {<<m1, m2>>}

Symmetric == Permutations(Request)

OneAtATime == part = "failover"

PartInit ==
  /\ RoutingInit
  /\ part \in {"locks", "breakers", "failover"}
  /\ store = IF OneAtATime THEN Conn ELSE {c1}

PartNext ==
  /\ part' = part
  /\ \/ \E r \in Request :
          \/ Begin(r) /\ (OneAtATime => \A q \in Request : At(q, "idle"))
          \/ Proceed(r)
     \/ part = "locks" /\ Probe
     \/ part = "breakers" /\ (CollectActive \/ Cleanup \/ Delete(c1) \/ SeedConnection(c1))
     \/ Time

PartSpec == PartInit /\ [][PartNext]_mcVars
=============================================================================
