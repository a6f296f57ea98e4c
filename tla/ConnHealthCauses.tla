-------------------------- MODULE ConnHealthCauses --------------------------
(***************************************************************************)
(* ConnHealthDirect with a history variable that remembers which           *)
(* connections have given cause to be disabled: upstream has rejected      *)
(* their credentials or found the account empty, or an administrator has   *)
(* switched them off.  A quota report of exhaustion is a cause as well:    *)
(* UpdateConnectionQuotaStatus tells the store by SetStatus, which counts  *)
(* it as a ban signal - the answers and tests that tell of it do not.      *)
(***************************************************************************)
EXTENDS ConnHealthDirect

VARIABLE blamed

causeVars == <<directVars, blamed>>

Refusals == {"auth", "balance"}

\* A request, a refresh or a connection test is refused, a quota report says that the
\* connection is rejected or exhausted, or the connection is switched off.
Blames(c) ==
  \/ \E r \in Request, category \in Refusals : req[r].conn = c /\ Fail(r, category)
  \/ Refreshed(c, "authFailed")
  \/ \E category \in Refusals : TestFailed(c, category)
  \/ \E report \in {"rejected", "exhausted"} : ReadStatus(c, report)
  \/ SetActive(c, FALSE)
  \/ PutStatus(c, "disabled")

CauseInit == DirectInit /\ blamed = {}

Remember == blamed' = blamed \cup {c \in Conn : Blames(c)}

CauseNext == DirectNext /\ Remember

CauseSpec == CauseInit /\ [][CauseNext]_causeVars

-----------------------------------------------------------------------------
(* Properties. *)

\* Nothing disables a connection, in memory or in its row, that upstream never
\* rejected, no report found exhausted and nobody switched off: the limits, exhausted
\* quotas and server errors that requests and tests meet, however many and however they
\* overlap, do not add up to a ban.
DisabledForCause ==
  \A c \in Conn \ blamed :
    mem[c].status # "disabled" /\ row[c].active /\ row[c].status # "disabled"
=============================================================================
