--------------------------- MODULE MCModelsBlocked ---------------------------
(* An instance of ComboRouting for TLC that keeps account of the models     *)
(* whose limits have been met, for what connstate/modellock.go says of      *)
(* providers with a quota per model.                                        *)
EXTENDS ComboRouting, TLC

CONSTANTS c1, m1, m2

VARIABLE blamed  \* <<c, s>>: a request for a model of scope s has failed on c (history)

Own == [m \in Model |-> m]
EachModel == {<<m1>>, <<m2>>}

Blame(r) ==
  IF request[r].pc \in {"sent", "stream"} /\ request'[r].pc = "hold"
       /\ request'[r].outcome \in Failures
  THEN {<<request[r].conn, ScopeOf[ModelOf(r)]>>} ELSE {}

BlameInit == RoutingInit /\ blamed = {}

BlameNext == RoutingNext /\ blamed' = blamed \cup UNION {Blame(r) : r \in Request}

BlameSpec == BlameInit /\ [][BlameNext]_<<routingVars, blamed>>

\* "For these providers a 429/quota error on one model must not block other
\* models on the same connection" (connstate/modellock.go): the breaker of a
\* connection admits a model none of whose scope has failed there.
OtherModelsRoutable ==
  \A c \in Conn, m \in Model : <<c, ScopeOf[m]>> \notin blamed => Allowed(breaker[c])
=============================================================================
