----------------------------- MODULE ConnHealth -----------------------------
(***************************************************************************)
(* Routing of requests over the connections of one provider, and the two   *)
(* copies of a connection's health that routing feeds on: the in-memory    *)
(* store, written at once, and the database row, written later and in      *)
(* order by the single draining goroutine of the write queue.  A restart   *)
(* rebuilds the first from the second.                                     *)
(*                                                                         *)
(* A request picks a connection, checks it in several unlocked steps,      *)
(* sends, and then runs a success or a failure handler.  No lock spans two *)
(* calls of a handler: a call on the store and the Enqueue that follows it *)
(* are separate steps, so the handlers of concurrent requests, the         *)
(* schedulers and the database writer interleave as goroutines do.         *)
(***************************************************************************)
EXTENDS ConnState, Sequences

CONSTANTS Conn,         \* the connections of the provider
          NoConn,       \* no connection
          Model,        \* the models of the provider that requests ask for
          NoModel,      \* no model
          Request,      \* concurrent inbound requests
          Failures,     \* failure categories upstream may answer with
          OAuth,        \* do the connections carry refreshable tokens?
          MaxAttempts,  \* failover_max_attempts
          QueueCap,     \* capacity of the write queue's channel
          MaxTime       \* bound on the clock: no cooldown outlives it

ASSUME ConnHealthAssumption ==
  /\ NoConn \notin Conn
  /\ NoModel \notin Model
  /\ Failures \subseteq Categories
  /\ OAuth \in BOOLEAN
  /\ MaxAttempts \in Nat \ {0}
  /\ QueueCap \in Nat
  /\ MaxTime \in Nat \ {0}

VARIABLES
  now,         \* the clock
  mem,         \* Store.states: connection -> ConnectionState
  marks,       \* ExhaustionCache: connection -> expiry of the marks for its models, and
               \* of the mark for the whole connection
  row,         \* table connections
  queue,       \* WriteQueue.ch
  lost,        \* connections a full queue dropped a write of since the start (history)
  due,         \* rows QuotaSchedulerDB.check has read as due and not come to yet
  recovering,  \* the connection it is about to set ready, or NoConn
  refresh,     \* TokenRefreshScheduler.inProgress, with what the refresh came to
  req          \* what each request is doing

vars == <<now, mem, marks, row, queue, lost, due, recovering, refresh, req>>

-----------------------------------------------------------------------------
(* Database rows and the writes that are queued for them. *)

Row == [active: BOOLEAN, status: Statuses, cooldown: Nat, ban: 0..BanThreshold]

Writes ==
       [kind: {"ban"}, conn: Conn, ban: 0..BanThreshold]
  \cup [kind: {"cooldown"}, conn: Conn, status: Statuses, until: Nat]
  \cup [kind: {"success"}, conn: Conn, at: Nat]
  \cup [kind: {"resetBan", "recover", "setReady", "authFailed"}, conn: Conn]

\* checkAutoDisable: the count, and at the threshold the terminal row.
BanWrite(rw, w) ==
  IF w.ban >= BanThreshold
  THEN [active |-> FALSE, status |-> "disabled", cooldown |-> 0, ban |-> w.ban]
  ELSE [rw EXCEPT !.ban = w.ban]

\* Fault: only a terminal status with a horizon makes the row inactive.
CooldownWriteEmptyActive(rw, w) ==
  [active   |-> w.status # "disabled" \/ w.until = 0,
   status   |-> w.status,
   cooldown |-> w.until,
   ban      |-> IF w.status = "quota_exhausted" THEN 0 ELSE rw.ban]

\* persistCooldownScoped: is_active is recomputed from the new status.
CooldownWrite(rw, w) ==
  [active   |-> w.status # "disabled",
   status   |-> w.status,
   cooldown |-> w.until,
   ban      |-> IF w.status = "quota_exhausted" THEN 0 ELSE rw.ban]

\* persistSuccess: only a cooldown that had run out when it was queued is cleared.
SuccessWrite(rw, w) ==
  [rw EXCEPT !.status   = IF @ \in Healable /\ rw.cooldown <= w.at THEN "ready" ELSE @,
             !.cooldown = IF @ <= w.at THEN 0 ELSE @]

\* Fault: the row of a rejected refresh token stays active.
AuthFailedWriteKeepsActive(rw) == [rw EXCEPT !.status = "disabled"]

\* TokenRefreshScheduler.markFailed.
AuthFailedWrite(rw) == [rw EXCEPT !.active = FALSE, !.status = "disabled"]

Apply(rw, w) ==
  CASE w.kind = "ban"        -> BanWrite(rw, w)
    [] w.kind = "cooldown"   -> CooldownWrite(rw, w)
    [] w.kind = "success"    -> SuccessWrite(rw, w)
    [] w.kind = "resetBan"   -> [rw EXCEPT !.ban = 0]
    [] w.kind = "recover"    -> [rw EXCEPT !.status = "ready", !.cooldown = 0]
    [] w.kind = "setReady"   -> [rw EXCEPT !.status = "ready"]
    [] w.kind = "authFailed" -> AuthFailedWrite(rw)

\* WriteQueue.Enqueue never blocks: a full channel drops the write.
Enqueue(w) ==
  IF Len(queue) < QueueCap
  THEN queue' = Append(queue, w) /\ UNCHANGED lost
  ELSE lost' = lost \cup {w.conn} /\ UNCHANGED queue

-----------------------------------------------------------------------------
(* Requests. *)

PCs == {"idle",                       \* no request
        "pick", "heal", "check",      \* getConnection
        "inflight",                   \* sent upstream
        "unbanned", "succeeded", "healed", "queued",  \* success handler
        "streaming",                  \* answered, the stream is still open
        "persist", "enqueue", "strike", "disable"}    \* failure handler

Failing == {"persist", "enqueue", "strike", "disable"}

NoDetection == [category |-> "none"]

Idle == [pc |-> "idle", model |-> NoModel, conn |-> NoConn, last |-> NoConn, pass |-> 1,
         tried |-> {}, attempt |-> 0, det |-> NoDetection]

Requests == [pc: PCs, model: Model \cup {NoModel}, conn: Conn \cup {NoConn},
             last: Conn \cup {NoConn}, pass: {1, 2}, tried: SUBSET Conn,
             attempt: 0..MaxAttempts, det: Detection \cup {NoDetection}]

\* The connections a request may be given: those of the provider, without the
\* one that has just failed it.
Candidates(r) == {c \in Conn : mem[c].entry = "seeded"} \ {req[r].last}

Goto(r, pc) == req' = [req EXCEPT ![r].pc = pc]

\* What becomes of the record of a request: a candidate is considered, or is
\* refused; the pass is over; upstream failed; the attempt is over, and the
\* failed connection is the one the next pick leaves out.
Considering(rq, c, pc) == [rq EXCEPT !.pc = pc, !.conn = c]

\* Fault: a candidate the checks refuse is not remembered.
RejectedUnnoted(rq, c) == [rq EXCEPT !.pc = "pick", !.conn = NoConn]

Rejected(rq, c) == [rq EXCEPT !.pc = "pick", !.conn = NoConn, !.tried = @ \cup {c}]

\* Fault: the emergency pass is followed by another first pass.
PassedForEver(rq) == [rq EXCEPT !.pass = IF @ = 1 THEN 2 ELSE 1, !.tried = {}]

Passed(rq) == IF rq.pass = 1 THEN [rq EXCEPT !.pass = 2, !.tried = {}] ELSE Idle

Failed(rq, det) == [rq EXCEPT !.pc = "persist", !.det = det]

Attempt(m, n, last) ==
  [Idle EXCEPT !.pc = "pick", !.model = m, !.attempt = n, !.last = last]

Failover(rq) ==
  IF rq.attempt < MaxAttempts THEN Attempt(rq.model, rq.attempt + 1, rq.conn) ELSE Idle

Start(r) ==
  /\ req[r].pc = "idle"
  /\ \E m \in Model : req' = [req EXCEPT ![r] = Attempt(m, 1, NoConn)]
  /\ UNCHANGED <<now, mem, marks, row, queue, lost, due, recovering, refresh>>

\* tryPickConnection (pass 1) and tryPickConnectionFallback (pass 2): terminal
\* statuses are refused, and a healable status whose cooldown is over is
\* remembered as one to heal - in the next step, with no lock held in between.
Consider(r, c) ==
  /\ req[r].pc = "pick"
  /\ c \in Candidates(r) \ req[r].tried
  /\ IF \/ mem[c].status = "disabled"
        \/ req[r].pass = 2 /\ mem[c].status = "quota_exhausted"
     THEN req' = [req EXCEPT ![r] = Rejected(@, c)]
     ELSE req' = [req EXCEPT ![r] = Considering(@, c,
            IF mem[c].status \in Healable /\ ~InCooldown(mem[c], now) THEN "heal" ELSE "check")]
  /\ UNCHANGED <<now, mem, marks, row, queue, lost, due, recovering, refresh>>

Heal(r) ==
  /\ req[r].pc = "heal"
  /\ mem' = [mem EXCEPT ![req[r].conn] = SetStatus(@, "ready")]
  /\ Goto(r, "check")
  /\ UNCHANGED <<now, marks, row, queue, lost, due, recovering, refresh>>

\* A mark keeps a connection from the requests for its model, the one for the whole
\* connection from all.
Exhausted(c, m) == now < marks[c].model[m] \/ now < marks[c].conn

\* Fault: the second pass bypasses the exhaustion marks as well.
UsableInEmergency(r, c) ==
  req[r].pass = 2 \/ ~(InCooldown(mem[c], now) \/ Exhausted(c, req[r].model))

\* The second pass bypasses the connection's cooldown, never an exhaustion mark.
Usable(r, c) ==
  /\ req[r].pass = 2 \/ ~InCooldown(mem[c], now)
  /\ ~Exhausted(c, req[r].model)

Check(r) ==
  /\ req[r].pc = "check"
  /\ IF Usable(r, req[r].conn)
     THEN Goto(r, "inflight")
     ELSE req' = [req EXCEPT ![r] = Rejected(@, @.conn)]
  /\ UNCHANGED <<now, mem, marks, row, queue, lost, due, recovering, refresh>>

\* Every candidate was refused: the emergency pass, and after it the error answer.
NextPass(r) ==
  /\ req[r].pc = "pick"
  /\ Candidates(r) \subseteq req[r].tried
  /\ req' = [req EXCEPT ![r] = Passed(@)]
  /\ UNCHANGED <<now, mem, marks, row, queue, lost, due, recovering, refresh>>

-----------------------------------------------------------------------------
(* The success handler: resetBanCount, persistSuccess, RecordSuccess. *)

ResetBan(r) ==
  LET c == req[r].conn
      banned == mem[c].entry # "absent" /\ mem[c].ban > 0 IN
  /\ req[r].pc = "inflight"
  /\ mem' = IF banned THEN [mem EXCEPT ![c] = ResetBanCount(@)] ELSE mem
  /\ Goto(r, IF banned THEN "unbanned" ELSE "succeeded")
  /\ UNCHANGED <<now, marks, row, queue, lost, due, recovering, refresh>>

EnqueueResetBan(r) ==
  /\ req[r].pc = "unbanned"
  /\ Enqueue([kind |-> "resetBan", conn |-> req[r].conn])
  /\ Goto(r, "succeeded")
  /\ UNCHANGED <<now, mem, marks, row, due, recovering, refresh>>

PersistSuccess(r) ==
  /\ req[r].pc = "succeeded"
  /\ mem' = [mem EXCEPT ![req[r].conn] = IF @.status \in Healable THEN SetStatus(@, "ready") ELSE @]
  /\ Goto(r, "healed")
  /\ UNCHANGED <<now, marks, row, queue, lost, due, recovering, refresh>>

EnqueueSuccess(r) ==
  /\ req[r].pc = "healed"
  /\ Enqueue([kind |-> "success", conn |-> req[r].conn, at |-> now])
  /\ Goto(r, "queued")
  /\ UNCHANGED <<now, mem, marks, row, due, recovering, refresh>>

SuccessRecorded(r) ==
  /\ req[r].pc = "queued"
  /\ mem' = [mem EXCEPT ![req[r].conn] = RecordSuccess(GetOrCreate(@))]
  /\ Goto(r, "streaming")
  /\ UNCHANGED <<now, marks, row, queue, lost, due, recovering, refresh>>

\* The answer is complete, or the client went away: nothing is recorded.
Finish(r) ==
  /\ req[r].pc \in {"inflight", "streaming"}
  /\ req' = [req EXCEPT ![r] = Idle]
  /\ UNCHANGED <<now, mem, marks, row, queue, lost, due, recovering, refresh>>

-----------------------------------------------------------------------------
(* The failure handler, handleFailoverError: mark and record the failure,  *)
(* persistCooldownScoped, checkAutoDisable, next attempt.                  *)

Fail(r, category) ==
  LET c == req[r].conn
      det == DetectError(category, now) IN
  /\ req[r].pc \in {"inflight", "streaming"}
  /\ det.until <= MaxTime
  /\ marks' = IF category \in {"rate_limit", "quota"}
              THEN [marks EXCEPT ![c].model[req[r].model] = det.until] ELSE marks
  /\ mem' = [mem EXCEPT ![c] = RecordFailure(GetOrCreate(@), det)]
  /\ req' = [req EXCEPT ![r] = Failed(@, det)]
  /\ UNCHANGED <<now, row, queue, lost, due, recovering, refresh>>

\* persistCooldownScoped writes the status to memory a second time.
PersistCooldown(r) ==
  LET det == req[r].det IN
  /\ req[r].pc = "persist"
  /\ mem' = [mem EXCEPT ![req[r].conn] =
       IF det.status = "quota_exhausted"
       THEN IF @.entry = "absent" THEN @ ELSE SetQuotaCooldown(@, det.until)
       ELSE SetStatus(GetOrCreate(@), det.status)]
  /\ Goto(r, "enqueue")
  /\ UNCHANGED <<now, marks, row, queue, lost, due, recovering, refresh>>

\* Fault: whatever has no horizon is left for the scheduler to heal.
EnqueueCooldownWithHorizon(r) ==
  LET det == req[r].det IN
  /\ req[r].pc = "enqueue"
  /\ IF det.until = 0
     THEN UNCHANGED <<queue, lost>>
     ELSE Enqueue([kind |-> "cooldown", conn |-> req[r].conn, status |-> det.status, until |-> det.until])
  /\ Goto(r, "strike")
  /\ UNCHANGED <<now, mem, marks, row, due, recovering, refresh>>

\* Fault: only what a day's wait is for survives in the row.
EnqueueCooldownOfQuota(r) ==
  LET det == req[r].det IN
  /\ req[r].pc = "enqueue"
  /\ IF det.status = "quota_exhausted"
     THEN Enqueue([kind |-> "cooldown", conn |-> req[r].conn, status |-> det.status, until |-> det.until])
     ELSE UNCHANGED <<queue, lost>>
  /\ Goto(r, "strike")
  /\ UNCHANGED <<now, mem, marks, row, due, recovering, refresh>>

EnqueueCooldown(r) ==
  LET det == req[r].det IN
  /\ req[r].pc = "enqueue"
  /\ Enqueue([kind |-> "cooldown", conn |-> req[r].conn, status |-> det.status, until |-> det.until])
  /\ Goto(r, "strike")
  /\ UNCHANGED <<now, mem, marks, row, due, recovering, refresh>>

\* checkAutoDisable reads the ban count and queues it.
CheckAutoDisable(r) ==
  LET cs == mem[req[r].conn] IN
  /\ req[r].pc = "strike"
  /\ IF cs.entry = "absent"
     THEN UNCHANGED <<queue, lost>>
     ELSE Enqueue([kind |-> "ban", conn |-> req[r].conn, ban |-> cs.ban])
  /\ IF cs.ban >= BanThreshold THEN Goto(r, "disable") ELSE req' = [req EXCEPT ![r] = Failover(@)]
  /\ UNCHANGED <<now, mem, marks, row, due, recovering, refresh>>

\* ... and at the threshold disables the connection in memory.
AutoDisable(r) ==
  /\ req[r].pc = "disable"
  /\ mem' = [mem EXCEPT ![req[r].conn] = SetStatus(GetOrCreate(@), "disabled")]
  /\ req' = [req EXCEPT ![r] = Failover(@)]
  /\ UNCHANGED <<now, marks, row, queue, lost, due, recovering, refresh>>

-----------------------------------------------------------------------------
(* QuotaSchedulerDB.check, one goroutine: entries whose cooldown has run   *)
(* out, then rows with an elapsed cooldown, disabled ones excepted.        *)

SpotEntry(c) ==
  /\ recovering = NoConn
  /\ due = {}
  /\ mem[c].entry # "absent"
  /\ CooldownExpired(mem[c], now)
  /\ recovering' = c
  /\ UNCHANGED <<now, mem, marks, row, queue, lost, due, refresh, req>>

\* Fault: rate-limited rows are not selected.
DueRowsButRateLimited ==
  {c \in Conn : row[c].status \in {"quota_exhausted", "ready"} /\ row[c].cooldown \in 1..now}

DueRows ==
  {c \in Conn : row[c].status \in {"rate_limited", "quota_exhausted", "ready"} /\ row[c].cooldown \in 1..now}

SpotRows ==
  /\ recovering = NoConn
  /\ due = {}
  /\ DueRows # {}
  /\ due' = DueRows
  /\ UNCHANGED <<now, mem, marks, row, queue, lost, recovering, refresh, req>>

\* The rows are not looked at again, whatever has been written since.
RecoverRow(c) ==
  /\ recovering = NoConn
  /\ c \in due
  /\ Enqueue([kind |-> "recover", conn |-> c])
  /\ due' = due \ {c}
  /\ recovering' = c
  /\ UNCHANGED <<now, mem, marks, row, refresh, req>>

\* The entry of a connection the cache has no mark of.
Unmarked == [model |-> [m \in Model |-> 0], conn |-> 0]

Recover ==
  /\ recovering # NoConn
  /\ mem' = [mem EXCEPT ![recovering] = SetStatus(GetOrCreate(@), "ready")]
  /\ marks' = [marks EXCEPT ![recovering].conn = 0]
  /\ recovering' = NoConn
  /\ UNCHANGED <<now, row, queue, lost, due, refresh, req>>

-----------------------------------------------------------------------------
(* TokenRefreshScheduler: a row is asked only whether it is active. *)

StartRefresh(c) ==
  /\ OAuth
  /\ row[c].active
  /\ refresh[c] = "no"
  /\ refresh' = [refresh EXCEPT ![c] = "running"]
  /\ UNCHANGED <<now, mem, marks, row, queue, lost, due, recovering, req>>

\* The provider issued a token, or rejected the refresh token for good.
Refreshed(c, outcome) ==
  /\ refresh[c] = "running"
  /\ Enqueue([kind |-> outcome, conn |-> c])
  /\ refresh' = [refresh EXCEPT ![c] = outcome]
  /\ UNCHANGED <<now, mem, marks, row, due, recovering, req>>

\* A refresh that failed for a passing reason leaves no trace.
RefreshFailed(c) ==
  /\ refresh[c] = "running"
  /\ refresh' = [refresh EXCEPT ![c] = "no"]
  /\ UNCHANGED <<now, mem, marks, row, queue, lost, due, recovering, req>>

RefreshRecorded(c) ==
  LET status == IF refresh[c] = "setReady" THEN "ready" ELSE "disabled" IN
  /\ refresh[c] \in {"setReady", "authFailed"}
  /\ mem' = [mem EXCEPT ![c] = IF @.entry = "absent" THEN @ ELSE SetStatus(@, status)]
  /\ refresh' = [refresh EXCEPT ![c] = "no"]
  /\ UNCHANGED <<now, marks, row, queue, lost, due, recovering, req>>

-----------------------------------------------------------------------------
(* The drain goroutine of the write queue, restarts and the clock. *)

Drain ==
  /\ queue # <<>>
  /\ LET w == Head(queue) IN row' = [row EXCEPT ![w.conn] = Apply(@, w)]
  /\ queue' = Tail(queue)
  /\ UNCHANGED <<now, mem, marks, lost, due, recovering, refresh, req>>

\* Fault: a row whose cooldown has not run out is left for later.
SeedWarm(rw) ==
  IF ~rw.active \/ now < rw.cooldown THEN NoEntry
  ELSE [entry |-> "seeded", cooldown |-> 0, ban |-> rw.ban,
        status |-> IF rw.status \in Healable THEN "ready" ELSE rw.status]

\* seedConnectionsFromDB, for one row.
Seed(rw) ==
  LET cooling == now < rw.cooldown
      seeded == [entry |-> "seeded", cooldown |-> 0, ban |-> rw.ban,
                 status |-> IF ~cooling /\ rw.status \in Healable THEN "ready" ELSE rw.status]
  IN  IF ~rw.active THEN NoEntry
      ELSE IF ~cooling THEN seeded
      ELSE IF rw.status = "quota_exhausted" THEN SetQuotaCooldown(seeded, rw.cooldown)
      ELSE SetCooldown(seeded, rw.cooldown)

NoMarks == [c \in Conn |-> Unmarked]

\* The process dies: queued writes, requests and every in-memory map with it.
Restart ==
  /\ mem' = [c \in Conn |-> Seed(row[c])]
  /\ marks' = NoMarks
  /\ queue' = <<>>
  /\ lost' = {}
  /\ due' = {}
  /\ recovering' = NoConn
  /\ refresh' = [c \in Conn |-> "no"]
  /\ req' = [r \in Request |-> Idle]
  /\ UNCHANGED <<now, row>>

Tick ==
  /\ now <= MaxTime
  /\ now' = now + 1
  /\ UNCHANGED <<mem, marks, row, queue, lost, due, recovering, refresh, req>>

-----------------------------------------------------------------------------
Init ==
  /\ now = 1
  /\ row = [c \in Conn |-> [active |-> TRUE, status |-> "ready", cooldown |-> 0, ban |-> 0]]
  /\ mem = [c \in Conn |-> Seed(row[c])]
  /\ marks = NoMarks
  /\ queue = <<>>
  /\ lost = {}
  /\ due = {}
  /\ recovering = NoConn
  /\ refresh = [c \in Conn |-> "no"]
  /\ req = [r \in Request |-> Idle]

Route(r) ==
  \/ \E c \in Conn : Consider(r, c)
  \/ Heal(r)
  \/ Check(r)
  \/ NextPass(r)

Handle(r) ==
  \/ ResetBan(r)
  \/ EnqueueResetBan(r)
  \/ PersistSuccess(r)
  \/ EnqueueSuccess(r)
  \/ SuccessRecorded(r)
  \/ Finish(r)
  \/ \E category \in Failures : Fail(r, category)
  \/ PersistCooldown(r)
  \/ EnqueueCooldown(r)
  \/ CheckAutoDisable(r)
  \/ AutoDisable(r)

Spot(c) == SpotEntry(c) \/ RecoverRow(c)

Refresh(c) ==
  \/ StartRefresh(c)
  \/ \E outcome \in {"setReady", "authFailed"} : Refreshed(c, outcome)
  \/ RefreshFailed(c)
  \/ RefreshRecorded(c)

\* Everything the process does while it runs.
Work ==
  \/ \E r \in Request : Start(r) \/ Route(r) \/ Handle(r)
  \/ \E c \in Conn : Spot(c) \/ Refresh(c)
  \/ SpotRows
  \/ Recover
  \/ Drain

Next == Work \/ Restart \/ Tick

Spec == Init /\ [][Next]_vars

\* A goroutine that serves a request is scheduled and its upstream call times
\* out.  Nothing obliges a client to send, an upstream to fail, or the
\* process to restart.
RequestSpec == Spec /\ \A r \in Request : WF_vars(Route(r)) /\ WF_vars(Handle(r))

\* The clock, the drain goroutine and the scheduler's ticker go on as well.
FairSpec ==
  /\ RequestSpec
  /\ \A c \in Conn : WF_vars(SpotEntry(c)) /\ WF_vars(RecoverRow(c))
  /\ WF_vars(SpotRows)
  /\ WF_vars(Recover)
  /\ WF_vars(Drain)
  /\ WF_vars(Tick)

-----------------------------------------------------------------------------
(* Properties. *)

\* Memory, marks, rows, queue and requests are of the type the code gives them.
TypeOK ==
  /\ now \in Nat
  /\ mem \in [Conn -> ConnectionState]
  /\ marks \in [Conn -> [model: [Model -> Nat], conn: Nat]]
  /\ row \in [Conn -> Row]
  /\ queue \in Seq(Writes)
  /\ lost \subseteq Conn
  /\ due \subseteq Conn
  /\ recovering \in Conn \cup {NoConn}
  /\ refresh \in [Conn -> {"no", "running", "setReady", "authFailed"}]
  /\ req \in [Request -> Requests]
  /\ \A r \in Request : /\ req[r].pc # "idle" => req[r].model \in Model
                        /\ req[r].pc \notin {"idle", "pick"} => req[r].conn \in Conn
                        /\ req[r].pc \in Failing => req[r].det \in Detection

\* What the restart, the schedulers and the clean-up ask of a row: a disabled
\* row is inactive (only active rows are seeded and refreshed), and a row that
\* waits for a cooldown has one (QuotaSchedulerDB selects rows by it, so a
\* row without would wait for ever) - in whatever order late answers, ban
\* counts, refreshes and recoveries of the connection reach the queue.
RowCoherent ==
  \A c \in Conn :
    /\ row[c].status = "disabled" => ~row[c].active
    /\ row[c].status \in Healable => row[c].cooldown # 0

\* No handler is before or at its Enqueue for c, and no write for c is queued.
Settled(c) ==
  /\ \A r \in Request : req[r].conn = c => req[r].pc \notin {"persist", "enqueue"}
  /\ \A i \in DOMAIN queue : queue[i].conn # c

\* A restart does not resurrect a bad account: once the handlers and the queue
\* are done with a connection that memory holds disabled, its row is inactive.
DisabledIsPersisted ==
  \A c \in Conn \ lost : Settled(c) /\ mem[c].status = "disabled" => ~row[c].active

\* Every active row can be routed to, and so a connection that was inactive when the
\* process started stays inactive: neither the scheduler, which sets rows and entries
\* ready without asking for is_active, nor a refresh or a late write of the queue
\* activates what routing does not know.
ActiveIsRoutable == \A c \in Conn : row[c].active => mem[c].entry = "seeded"

\* A row the scheduler will find once its cooldown is over, and the writes that make
\* it one and that end it.
Awaited == {"rate_limited", "quota_exhausted", "ready"}

Found(rw) == rw.status \in Awaited /\ rw.cooldown # 0

Wakes(w, c) == w.conn = c /\ w.kind = "cooldown" /\ w.status \in Awaited /\ w.until # 0

Hushes(w, c) ==
  /\ w.conn = c
  /\ \/ w.kind \in {"success", "recover", "authFailed"}
     \/ w.kind = "ban" /\ w.ban >= BanThreshold
     \/ w.kind = "cooldown" /\ ~Wakes(w, c)

\* The queue, once drained, leaves the scheduler a row to find.
SettlesFound(c) ==
  \/ Found(row[c]) /\ \A i \in DOMAIN queue : ~Hushes(queue[i], c)
  \/ \E i \in DOMAIN queue :
       Wakes(queue[i], c) /\ \A j \in DOMAIN queue : j > i => ~Hushes(queue[j], c)

\* Somebody has queued a write for c whose counterpart in memory is still to come, or
\* has written memory and is about to queue the row.
Between(c) ==
  \/ \E r \in Request : req[r].conn = c /\ req[r].pc \in {"enqueue", "queued", "disable"}
  \/ recovering = c
  \/ refresh[c] \in {"setReady", "authFailed"}

\* A limited connection is never out of the scheduler's sight: either its entry has a
\* cooldown, or its row has one, or will have when the queue is drained - although
\* concurrent calls wipe the one in memory and clear the one in the row.
LimitedIsFound ==
  \A c \in Conn \ lost :
    mem[c].status \in Healable /\ ~Between(c) => mem[c].cooldown # 0 \/ SettlesFound(c)

\* Every request is answered: the two passes and the failover attempts end,
\* whether or not the background work and the clock go on.
RequestsEnd == \A r \in Request : req[r].pc # "idle" ~> req[r].pc = "idle"

Stage == [pick |-> 1, heal |-> 2, check |-> 3, inflight |-> 4, unbanned |-> 5, succeeded |-> 6,
          healed |-> 7, queued |-> 8, streaming |-> 9, persist |-> 10, enqueue |-> 11,
          strike |-> 12, disable |-> 13]

Nearer(rq, next) ==
  \/ next = Idle
  \/ rq.attempt < next.attempt
  \/ /\ rq.attempt = next.attempt
     /\ \/ rq.pass < next.pass
        \/ /\ rq.pass = next.pass
           /\ \/ rq.tried \subseteq next.tried /\ rq.tried # next.tried
              \/ rq.tried = next.tried /\ next.pc # "idle" /\ Stage[rq.pc] < Stage[next.pc]

\* No request goes round: each of its steps ends it, or takes it to a later attempt, a
\* later pass, a candidate refused for good, or a later stage, whatever the other
\* requests and the schedulers make of its candidates meanwhile.
RequestsAdvance ==
  [][\A r \in Request : req[r].pc # "idle" /\ req'[r] # req[r] => Nearer(req[r], req'[r])]_vars

\* A rate-limited or exhausted connection does not stay so for ever, even when
\* it is never asked for again: the cooldown in memory or, if a concurrent call
\* wiped that one, the cooldown in the row brings it back - unless the write of
\* the row was dropped.
HealableRecovers ==
  \A c \in Conn : mem[c].status \in Healable ~> mem[c].status \notin Healable \/ c \in lost
=============================================================================
