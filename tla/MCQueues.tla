------------------------------ MODULE MCQueues ------------------------------
(***************************************************************************)
(* Four parts that share no state, each checked for what it promises       *)
(* under its own fairness: the write queue, the rebuilds of the            *)
(* eligibility snapshot, fusion requests, and the tests of the proxy       *)
(* pools.  A behaviour is one of one part, chosen at the start, while the  *)
(* others stay at theirs.                                                  *)
(***************************************************************************)
EXTENDS WriteQueue, Eligibility, Fusion, ProxyPools, TLC

CONSTANTS w1, w2, w3, c1, c2, p1, p2

\* Lists of at most one pool.
Lists == UNION {[1..n -> Pool] : n \in 0..1}

VARIABLE part

EachMode == w1 :> "drop" @@ w2 :> "block" @@ w3 :> "do"

Apart == c1 :> p1 @@ c2 :> p2

\* Rebuilds are checked twice: every change is followed by a call, or the one
\* connection is only ever changed without.
Rebuilds == {"rebuilds", "silence"}

QueuesInit ==
  /\ part \in {"queue", "rebuilds", "silence", "fusion", "pools"}
  /\ Init
  /\ EligInit
  /\ FusionInit
  /\ ProxyInit
  /\ part # "pools" => groupRow.pools = <<>> /\ groupRow.strict

QueuesNext ==
  /\ UNCHANGED part
  /\ \/ part = "queue" /\ Next /\ UNCHANGED <<eligVars, fusionVars, proxyVars>>
     \/ part = "rebuilds" /\ EligNext /\ silent' = {} /\ UNCHANGED <<vars, fusionVars, proxyVars>>
     \/ /\ part = "silence" /\ EligNext /\ silent' \subseteq {c1} /\ uncalled'[p1] = 0
        /\ UNCHANGED <<vars, fusionVars, proxyVars>>
     \/ part = "fusion" /\ FusionNext /\ UNCHANGED <<vars, eligVars, proxyVars>>
     \/ part = "pools" /\ ProxyNext /\ UNCHANGED <<vars, eligVars, fusionVars>>

\* The fairness of each part, as its own FairSpec states it, for its behaviours.
QueuesFairness ==
  /\ \A w \in Write : WF_vars(part = "queue" /\ Submit(w))
  /\ WF_vars(part = "queue" /\ Work)
  /\ \A r \in Restorer : WF_vars(part = "queue" /\ Resume(r))
  /\ \A p \in Provider : WF_eligVars(part \in Rebuilds /\ Call(p))
  /\ \A k \in Key : /\ WF_eligVars(part \in Rebuilds /\ WindowOver(k))
                    /\ WF_eligVars(part \in Rebuilds /\ Wake(k))
  /\ \A w \in Rebuilder : WF_eligVars(part \in Rebuilds /\ Rebuild(w))
  /\ WF_fusionVars(part = "fusion" /\ Conduct)
  /\ WF_fusionVars(part = "fusion" /\ ContextOver)
  /\ WF_fusionVars(part = "fusion" /\ TimerFires)
  /\ \A p \in Panel : WF_fusionVars(part = "fusion" /\ HandOver(p))
  /\ \A p \in Panel : WF_fusionVars(part = "fusion" /\ Overdue(p))
  /\ \A t \in Tester : WF_proxyVars(part = "pools" /\ CheckPools(t))
  /\ WF_proxyVars(part = "pools" /\ (RunNow \/ RunOver))

QueuesSpec ==
  /\ QueuesInit
  /\ [][QueuesNext]_<<part, vars, eligVars, fusionVars, proxyVars>>
  /\ QueuesFairness

\* The state of the four parts is of the type the code gives it.
QueuesTypeOK == TypeOK /\ EligTypeOK /\ FusionTypeOK /\ ProxyTypeOK
=============================================================================
