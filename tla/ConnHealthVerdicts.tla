------------------------- MODULE ConnHealthVerdicts -------------------------
(***************************************************************************)
(* ConnHealthDirect with a history variable that remembers what upstream   *)
(* last said of a model of a connection: the horizon of its latest quota   *)
(* verdict.  An administrator, a quota report that finds quota again and a *)
(* restart start a connection anew; a horizon that has passed is forgotten.*)
(* The verdict stands for the model it was given for: the marks are keyed  *)
(* by model, and a request for another model of the connection is sent     *)
(* before the horizon once a token refresh has set the connection ready.   *)
(***************************************************************************)
EXTENDS ConnHealthDirect

VARIABLE quotaUntil

histVars == <<directVars, quotaUntil>>

\* Upstream tells a request for m over c that its quota is used up.
Verdict(c, m) == \E r \in Request : req[r].conn = c /\ req[r].model = m /\ Fail(r, "quota")

Renewed(c) ==
  \/ admin # admin' /\ (admin # NoAdmin => admin.conn = c) /\ (admin' # NoAdmin => admin'.conn = c)
  \/ fetch # NoFetch /\ fetch.conn = c /\ fetch.status = "ready"
  \/ Restart

HistInit == DirectInit /\ quotaUntil = [c \in Conn |-> [m \in Model |-> 0]]

HistNext ==
  /\ DirectNext
  /\ quotaUntil' = [c \in Conn |-> [m \in Model |->
       IF Verdict(c, m) THEN now + LongCooldown
       ELSE IF quotaUntil[c][m] <= now \/ Renewed(c) THEN 0
       ELSE quotaUntil[c][m]]]

HistSpec == HistInit /\ [][HistNext]_histVars

-----------------------------------------------------------------------------
(* Properties. *)

\* No request for a model is sent over a connection before the horizon of the last
\* quota verdict on that model of it: neither pass of the router, nor a healing on the
\* way, a token refresh, an answer to a request for another model or a recovery by the
\* schedulers lets it through.
QuotaNeverBypassed ==
  [][\A r \in Request :
       req[r].pc = "check" /\ req'[r].pc = "inflight" =>
         quotaUntil[req[r].conn][req[r].model] <= now]_histVars
=============================================================================
