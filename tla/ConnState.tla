----------------------------- MODULE ConnState -----------------------------
(***************************************************************************)
(* The health record the router keeps in memory for one upstream           *)
(* connection (an account or API key), the mutators of that record, and    *)
(* the classification of an upstream failure.  Constant level: every       *)
(* operator maps a record to a record, as every method of ConnectionState  *)
(* runs under the record's own mutex.                                      *)
(*                                                                         *)
(* Times are naturals and 0 stands for a nil *time.Time.  The ban counter  *)
(* saturates at BanThreshold: the code asks of it only whether it is       *)
(* positive and whether it has reached the threshold.  The texts that go   *)
(* with a status (disabled_reason, last_error) steer nothing and are left  *)
(* out, and so are the success and failure counters.                       *)
(***************************************************************************)
EXTENDS Naturals

CONSTANTS BanThreshold,   \* consecutive ban signals that disable a connection
          ShortCooldown,  \* rate limits and server errors
          LongCooldown    \* quota windows and authentication failures

ASSUME ConnStateAssumption ==
  /\ BanThreshold \in Nat \ {0}
  /\ ShortCooldown \in Nat \ {0}
  /\ LongCooldown \in Nat \ {0}

Statuses == {"unknown", "ready", "rate_limited", "quota_exhausted", "disabled"}
Healable == {"rate_limited", "quota_exhausted"}

\* "bare" is an entry GetOrCreate made: it has no provider prefix, and so no
\* router ever finds it.
Entries == {"absent", "bare", "seeded"}

ConnectionState ==
  [entry: Entries, status: Statuses, cooldown: Nat, ban: 0..BanThreshold]

NoEntry == [entry |-> "absent", status |-> "unknown", cooldown |-> 0, ban |-> 0]

GetOrCreate(cs) == IF cs.entry = "absent" THEN [NoEntry EXCEPT !.entry = "bare"] ELSE cs

\* Fault: the counter does not stop at the threshold.
BumpWithoutBound(n) == n + 1

Bump(n) == IF n < BanThreshold THEN n + 1 ELSE BanThreshold

InCooldown(cs, now) == now < cs.cooldown
CooldownExpired(cs, now) == cs.cooldown # 0 /\ cs.cooldown < now

-----------------------------------------------------------------------------
(* The mutators of state.go. *)

SetStatus(cs, status) ==
  IF status = "ready"
  THEN [cs EXCEPT !.status = status, !.ban = 0, !.cooldown = 0]
  ELSE [cs EXCEPT !.status = status,
                  !.ban    = IF status \in {"disabled", "quota_exhausted"} THEN Bump(@) ELSE @]

\* SetStatusWithCooldown, whose one caller disables.
SetDisabledUntil(cs, until) ==
  [cs EXCEPT !.status = "disabled", !.cooldown = until, !.ban = Bump(@)]

SetCooldown(cs, until) == [cs EXCEPT !.status = "ready", !.cooldown = until]

\* Fault: exhaustion counts as a ban signal.
SetQuotaCooldownCounted(cs, until) ==
  [cs EXCEPT !.status = "quota_exhausted", !.cooldown = until, !.ban = Bump(@)]

SetQuotaCooldown(cs, until) ==
  [cs EXCEPT !.status = "quota_exhausted", !.cooldown = until, !.ban = 0]

ResetBanCount(cs) == [cs EXCEPT !.ban = 0]

-----------------------------------------------------------------------------
(* DetectError: what a failure that may fail over is taken for.  Only the  *)
(* balance-empty detection carries no cooldown horizon.                    *)

Categories == {"rate_limit", "quota", "auth", "balance", "server"}

Detection == [category: Categories, status: Statuses, until: Nat]

StatusOf == [rate_limit |-> "rate_limited", quota |-> "quota_exhausted",
             auth |-> "disabled", balance |-> "disabled", server |-> "ready"]

CooldownOf == [rate_limit |-> ShortCooldown, server |-> ShortCooldown,
               quota |-> LongCooldown, auth |-> LongCooldown]

DetectError(category, now) ==
  [category |-> category,
   status   |-> StatusOf[category],
   until    |-> IF category = "balance" THEN 0 ELSE now + CooldownOf[category]]

\* Store.RecordFailure for a connection-scoped detection.
RecordFailure(cs, det) ==
  IF det.status = "disabled"
  THEN IF det.until = 0 THEN SetStatus(cs, "disabled") ELSE SetDisabledUntil(cs, det.until)
  ELSE IF det.category = "quota" THEN SetQuotaCooldown(cs, det.until) ELSE SetCooldown(cs, det.until)

\* Store.RecordSuccess: anything but ready is set to ready.
RecordSuccess(cs) == IF cs.status = "ready" THEN cs ELSE SetStatus(cs, "ready")

=============================================================================
