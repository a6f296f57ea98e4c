-------------------------- MODULE ConnHealthDirect --------------------------
(***************************************************************************)
(* The writers of a connection's health that do not go through the write   *)
(* queue: the administration handlers and the quota fetcher write the row  *)
(* themselves, past whatever the queue still holds for that row, and the   *)
(* in-memory store in a step before or after.                              *)
(***************************************************************************)
EXTENDS ConnHealth

CONSTANTS AdminActs,  \* what an administrator does
          Reports     \* what the provider's quota endpoint says

AllAdminActs == {"activate", "deactivate", "ready", "disable", "reset", "test"}
AllReports   == {"ok", "exhausted", "rejected"}

ASSUME DirectAssumption == AdminActs \subseteq AllAdminActs /\ Reports \subseteq AllReports

VARIABLES
  admin,  \* the administration handler at work, between its two writes
  fetch   \* the quota report being applied, between its steps

directVars == <<vars, admin, fetch>>

NoAdmin == [act |-> "none"]
NoFetch == [act |-> "none"]

Admins ==
       [act: {"sync", "syncAndClear"}, conn: Conn, status: Statuses]
  \cup [act: {"test"}, conn: Conn, det: Detection]
  \cup {NoAdmin}

Fetches == [act: {"write", "sync"}, conn: Conn, status: Statuses] \cup {NoFetch}

-----------------------------------------------------------------------------
(* Administration: row first, then the store (and the exhaustion mark). *)

WriteRow(c, rw, act, status) ==
  /\ admin = NoAdmin
  /\ row' = [row EXCEPT ![c] = rw]
  /\ admin' = [act |-> act, conn |-> c, status |-> status]
  /\ UNCHANGED <<now, mem, marks, queue, lost, due, recovering, refresh, req, fetch>>

\* PUT connection with is_active: the status follows the flag.
SetActive(c, active) ==
  /\ (IF active THEN "activate" ELSE "deactivate") \in AdminActs
  /\ LET status == IF active THEN "ready" ELSE "disabled" IN
       WriteRow(c, [row[c] EXCEPT !.active = active, !.status = status], "sync", status)

\* PUT connection with a status alone: the flag stays as it is.
PutStatus(c, status) ==
  /\ (IF status = "ready" THEN "ready" ELSE "disable") \in AdminActs
  /\ WriteRow(c, [row[c] EXCEPT !.status = status], "sync", status)

\* ResetStatus and recordTestSuccess.
Reset(c) ==
  /\ "reset" \in AdminActs
  /\ WriteRow(c, [row[c] EXCEPT !.status = "ready", !.cooldown = 0], "syncAndClear", "ready")

Sync ==
  /\ admin.act \in {"sync", "syncAndClear"}
  /\ mem' = [mem EXCEPT ![admin.conn] = SetStatus(GetOrCreate(@), admin.status)]
  /\ marks' = IF admin.act = "syncAndClear" THEN [marks EXCEPT ![admin.conn].conn = 0] ELSE marks
  /\ admin' = NoAdmin
  /\ UNCHANGED <<now, row, queue, lost, due, recovering, refresh, req, fetch>>

\* recordTestFailure, a connection test that failed: store first, then the row
\* (which without a horizon keeps the cooldown it had) and the mark.
TestFailed(c, category) ==
  LET det == DetectError(category, now) IN
  /\ "test" \in AdminActs
  /\ admin = NoAdmin
  /\ det.until <= MaxTime
  /\ mem' = [mem EXCEPT ![c] = SetStatus(RecordFailure(GetOrCreate(@), det), det.status)]
  /\ admin' = [act |-> "test", conn |-> c, det |-> det]
  /\ UNCHANGED <<now, marks, row, queue, lost, due, recovering, refresh, req, fetch>>

TestedRow(rw, det) ==
  [rw EXCEPT !.active   = det.status # "disabled",
             !.status   = det.status,
             !.cooldown = IF det.until = 0 THEN @ ELSE det.until]

TestWritten ==
  LET det == admin.det IN
  /\ admin.act = "test"
  /\ row' = [row EXCEPT ![admin.conn] = TestedRow(@, det)]
  /\ marks' = IF det.category \in {"rate_limit", "quota"}
              THEN [marks EXCEPT ![admin.conn].conn = det.until] ELSE marks
  /\ admin' = NoAdmin
  /\ UNCHANGED <<now, mem, queue, lost, due, recovering, refresh, req, fetch>>

Administer(c) ==
  \/ \E active \in BOOLEAN : SetActive(c, active)
  \/ \E status \in {"ready", "disabled"} : PutStatus(c, status)
  \/ Reset(c)
  \/ \E category \in Failures : TestFailed(c, category)

-----------------------------------------------------------------------------
(* UpdateConnectionQuotaStatus: the row's status decides, is read first,   *)
(* and is not looked at again before the row is written.                   *)

ReportedStatus == [ok |-> "ready", exhausted |-> "quota_exhausted", rejected |-> "disabled"]

ReadStatus(c, report) ==
  /\ report \in Reports
  /\ fetch = NoFetch
  /\ row[c].status \notin {"disabled", ReportedStatus[report]}
  /\ fetch' = [act |-> "write", conn |-> c, status |-> ReportedStatus[report]]
  /\ UNCHANGED <<vars, admin>>

\* A report that deactivates does so, any other leaves the flag alone.
ReportedRow(rw, status) ==
  [rw EXCEPT !.status = status, !.active = @ /\ status # "disabled"]

WriteStatus ==
  /\ fetch.act = "write"
  /\ row' = [row EXCEPT ![fetch.conn] = ReportedRow(@, fetch.status)]
  /\ fetch' = [fetch EXCEPT !.act = "sync"]
  /\ UNCHANGED <<now, mem, marks, queue, lost, due, recovering, refresh, req, admin>>

SyncStatus ==
  LET c == fetch.conn IN
  /\ fetch.act = "sync"
  /\ mem' = [mem EXCEPT ![c] = IF @.entry = "absent" THEN @ ELSE SetStatus(@, fetch.status)]
  /\ marks' = IF fetch.status = "ready" THEN [marks EXCEPT ![c].conn = 0] ELSE marks
  /\ fetch' = NoFetch
  /\ UNCHANGED <<now, row, queue, lost, due, recovering, refresh, req, admin>>

-----------------------------------------------------------------------------
DirectInit == Init /\ admin = NoAdmin /\ fetch = NoFetch

DirectNext ==
  \/ (Work \/ Tick) /\ UNCHANGED <<admin, fetch>>
  \/ Restart /\ admin' = NoAdmin /\ fetch' = NoFetch
  \/ \E c \in Conn : Administer(c) \/ \E report \in Reports : ReadStatus(c, report)
  \/ Sync
  \/ TestWritten
  \/ WriteStatus
  \/ SyncStatus

DirectSpec == DirectInit /\ [][DirectNext]_directVars

-----------------------------------------------------------------------------
(* Properties. *)

\* Administrative calls and quota reports in flight are of the type the code gives
\* them, beside the state of ConnHealth.
DirectTypeOK == TypeOK /\ admin \in Admins /\ fetch \in Fetches
=============================================================================
