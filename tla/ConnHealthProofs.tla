-------------------------- MODULE ConnHealthProofs --------------------------
(***************************************************************************)
(* Theorems about ConnHealth, for any connections, requests, queue length, *)
(* ban threshold and cooldowns: its type invariant, the invariants of      *)
(* ConnHealthInv, that requests advance, that active rows are routable and *)
(* limited connections found, and, when administrators and quota reports   *)
(* write past the queue, the type invariant, that quota verdicts stand and *)
(* that nothing is disabled without cause.                                 *)
(***************************************************************************)
EXTENDS ConnHealthInv, ConnHealthVerdicts, ConnHealthCauses, TLAPS

\* The mutators of a connection's health record yield such records.
LEMMA Mutators ==
  ASSUME NEW cs \in ConnectionState, NEW status \in Statuses, NEW until \in Nat
  PROVE  /\ GetOrCreate(cs) \in ConnectionState
         /\ SetStatus(cs, status) \in ConnectionState
         /\ SetDisabledUntil(cs, until) \in ConnectionState
         /\ SetCooldown(cs, until) \in ConnectionState
         /\ SetQuotaCooldown(cs, until) \in ConnectionState
         /\ ResetBanCount(cs) \in ConnectionState
         /\ RecordSuccess(cs) \in ConnectionState
<1>1. BanThreshold \in Nat \ {0}
  BY ConnStateAssumption
<1>2. \A n \in 0..BanThreshold : Bump(n) \in 0..BanThreshold
  BY <1>1 DEF Bump
<1>3. /\ cs.ban \in 0..BanThreshold
      /\ Bump(cs.ban) \in 0..BanThreshold
      /\ 0 \in 0..BanThreshold
      /\ {"ready", "disabled", "quota_exhausted", "unknown"} \subseteq Statuses
  BY <1>1, <1>2 DEF ConnectionState, Statuses
<1>4. GetOrCreate(cs) \in ConnectionState
  BY <1>3 DEF GetOrCreate, NoEntry, ConnectionState, Entries
<1>5. \A s \in Statuses : SetStatus(cs, s) \in ConnectionState
  BY <1>3 DEF SetStatus, ConnectionState
<1>6. RecordSuccess(cs) \in ConnectionState
  BY <1>3, <1>5 DEF RecordSuccess
<1>7. SetDisabledUntil(cs, until) \in ConnectionState
  BY <1>3 DEF SetDisabledUntil, ConnectionState
<1>8. /\ SetCooldown(cs, until) \in ConnectionState
      /\ SetQuotaCooldown(cs, until) \in ConnectionState
      /\ ResetBanCount(cs) \in ConnectionState
  BY <1>3 DEF SetCooldown, SetQuotaCooldown, ResetBanCount, ConnectionState
<1>. QED
  BY <1>4, <1>5, <1>6, <1>7, <1>8

\* DetectError yields a detection, and only an empty balance comes without a
\* horizon.
LEMMA Detections ==
  ASSUME NEW category \in Categories, NEW t \in Nat
  PROVE  /\ DetectError(category, t) \in Detection
         /\ DetectError(category, t).until = 0 => DetectError(category, t).status = "disabled"
<1>1. ShortCooldown \in Nat \ {0} /\ LongCooldown \in Nat \ {0}
  BY ConnStateAssumption
<1>2. category \in {"rate_limit", "quota", "auth", "balance", "server"}
  BY DEF Categories
<1>3. StatusOf[category] \in Statuses /\ (category = "balance" => StatusOf[category] = "disabled")
  BY <1>2 DEF StatusOf, Statuses
<1>4. category # "balance" => CooldownOf[category] \in Nat \ {0}
  BY <1>1, <1>2 DEF CooldownOf
<1>. QED
  BY <1>3, <1>4 DEF DetectError, Detection

\* Store.RecordFailure of a detection yields a health record.
LEMMA Failure ==
  ASSUME NEW cs \in ConnectionState, NEW det \in Detection
  PROVE  RecordFailure(cs, det) \in ConnectionState
<1>1. det.until \in Nat /\ det.status \in Statuses /\ "disabled" \in Statuses
  BY DEF Detection, Statuses
<1>. QED
  BY <1>1, Mutators DEF RecordFailure

-----------------------------------------------------------------------------
(* The parts of a state that steps change together. *)

RequestsOK ==
  /\ req \in [Request -> Requests]
  /\ \A r \in Request : /\ req[r].pc # "idle" => req[r].model \in Model
                        /\ req[r].pc \notin {"idle", "pick"} => req[r].conn \in Conn
                        /\ req[r].pc \in Failing => req[r].det \in Detection

QueueOK == queue \in Seq(Writes) /\ lost \subseteq Conn

\* A queued write keeps a row a row.
LEMMA Applied ==
  ASSUME NEW rw \in Row, NEW w \in Writes
  PROVE  Apply(rw, w) \in Row
<1>. USE DEF Writes
<1>0. BanThreshold \in Nat \ {0}
  BY ConnStateAssumption
<1>1. CASE w.kind = "ban"
  <2>1. w.ban \in 0..BanThreshold
    BY <1>1
  <2>2. BanWrite(rw, w) \in Row
    BY <2>1 DEF BanWrite, Row, Statuses
  <2>. QED
    BY <2>2, <1>1, Zenon DEF Apply
<1>2. CASE w.kind = "cooldown"
  <2>1. w.status \in Statuses /\ w.until \in Nat
    BY <1>2
  <2>2. CooldownWrite(rw, w) \in Row
    BY <1>0, <2>1 DEF CooldownWrite, Row
  <2>. QED
    BY <2>2, <1>2, Zenon DEF Apply
<1>3. CASE w.kind = "success"
  <2>1. SuccessWrite(rw, w) \in Row
    BY DEF SuccessWrite, Row, Statuses
  <2>. QED
    BY <2>1, <1>3, Zenon DEF Apply
<1>4. CASE w.kind = "resetBan"
  <2>1. [rw EXCEPT !.ban = 0] \in Row
    BY <1>0 DEF Row
  <2>. QED
    BY <2>1, <1>4, Zenon DEF Apply
<1>5. CASE w.kind = "recover"
  <2>1. [rw EXCEPT !.status = "ready", !.cooldown = 0] \in Row
    BY DEF Row, Statuses
  <2>. QED
    BY <2>1, <1>5, Zenon DEF Apply
<1>6. CASE w.kind = "setReady"
  <2>1. [rw EXCEPT !.status = "ready"] \in Row
    BY DEF Row, Statuses
  <2>. QED
    BY <2>1, <1>6, Zenon DEF Apply
<1>7. CASE w.kind = "authFailed"
  <2>1. AuthFailedWrite(rw) \in Row
    BY DEF Row, Statuses, AuthFailedWrite
  <2>. QED
    BY <2>1, <1>7, Zenon DEF Apply
<1>. QED
  BY <1>1, <1>2, <1>3, <1>4, <1>5, <1>6, <1>7

\* Every kind of write that a handler queues is a write.
LEMMA WriteTypes ==
  ASSUME NEW c \in Conn
  PROVE  /\ \A n \in 0..BanThreshold : [kind |-> "ban", conn |-> c, ban |-> n] \in Writes
         /\ \A s \in Statuses, u \in Nat : [kind |-> "cooldown", conn |-> c, status |-> s, until |-> u] \in Writes
         /\ \A t \in Nat : [kind |-> "success", conn |-> c, at |-> t] \in Writes
         /\ \A k \in {"resetBan", "recover", "setReady", "authFailed"} : [kind |-> k, conn |-> c] \in Writes
BY DEF Writes

LEMMA Enqueued ==
  ASSUME QueueOK, NEW w \in Writes, Enqueue(w)
  PROVE  QueueOK'
<1>1. w.conn \in Conn
  BY DEF Writes
<1>. QED
  BY <1>1 DEF QueueOK, Enqueue

\* A step of one request within its handler.
LEMMA Gone ==
  ASSUME RequestsOK, NEW r \in Request, NEW pc \in PCs, Goto(r, pc),
         req[r].pc \notin {"idle", "pick"},
         pc \in Failing => req[r].pc \in Failing
  PROVE  RequestsOK'
BY DEF RequestsOK, Goto, Requests

\* A request that starts on an attempt or is done.
LEMMA Restarted ==
  ASSUME RequestsOK, NEW r \in Request, NEW rq \in Requests, rq.pc \in {"idle", "pick"},
         rq.pc = "pick" => rq.model \in Model,
         req' = [req EXCEPT ![r] = rq]
  PROVE  RequestsOK'
BY DEF RequestsOK, Failing

LEMMA Idles == Idle \in Requests /\ Idle.pc = "idle"
BY ConnHealthAssumption DEF Idle, Requests, PCs

LEMMA Attempts ==
  ASSUME NEW m \in Model \cup {NoModel}, NEW n \in 0..MaxAttempts, NEW c \in Conn \cup {NoConn}
  PROVE  Attempt(m, n, c) \in Requests /\ Attempt(m, n, c).pc = "pick" /\ Attempt(m, n, c).model = m
BY Idles DEF Attempt, Requests, PCs

\* What becomes of the record of a request is the record of a request.
LEMMA Considerations ==
  ASSUME NEW rq \in Requests, NEW c \in Conn, NEW pc \in {"heal", "check"}
  PROVE  /\ Considering(rq, c, pc) \in Requests
         /\ Considering(rq, c, pc).pc = pc
         /\ Considering(rq, c, pc).conn = c
         /\ Considering(rq, c, pc).model = rq.model
BY DEF Considering, Requests, PCs

LEMMA Rejections ==
  ASSUME NEW rq \in Requests, NEW c \in Conn
  PROVE  /\ Rejected(rq, c) \in Requests
         /\ Rejected(rq, c).pc = "pick"
         /\ Rejected(rq, c).model = rq.model
BY DEF Rejected, Requests, PCs

LEMMA Passes ==
  ASSUME NEW rq \in Requests, rq.pc = "pick"
  PROVE  /\ Passed(rq) \in Requests
         /\ Passed(rq).pc \in {"idle", "pick"}
         /\ Passed(rq).pc = "pick" => Passed(rq).model = rq.model
<1>1. /\ [rq EXCEPT !.pass = 2, !.tried = {}] \in Requests
      /\ [rq EXCEPT !.pass = 2, !.tried = {}].pc = "pick"
      /\ [rq EXCEPT !.pass = 2, !.tried = {}].model = rq.model
  BY DEF Requests
<1>. QED
  BY <1>1, Idles DEF Passed

LEMMA FailedRecords ==
  ASSUME NEW rq \in Requests, NEW det \in Detection
  PROVE  /\ Failed(rq, det) \in Requests
         /\ Failed(rq, det).pc = "persist"
         /\ Failed(rq, det).conn = rq.conn
         /\ Failed(rq, det).model = rq.model
         /\ Failed(rq, det).det = det
BY DEF Failed, Requests, PCs

LEMMA Failovers ==
  ASSUME NEW rq \in Requests
  PROVE  /\ Failover(rq) \in Requests
         /\ Failover(rq).pc \in {"idle", "pick"}
         /\ Failover(rq).pc = "pick" => Failover(rq).model = rq.model
<1>1. rq.attempt \in 0..MaxAttempts /\ rq.conn \in Conn \cup {NoConn} /\ rq.model \in Model \cup {NoModel}
  BY DEF Requests
<1>2. CASE rq.attempt < MaxAttempts
  <2>1. rq.attempt + 1 \in 0..MaxAttempts
    BY <1>1, <1>2, ConnHealthAssumption
  <2>. QED
    BY <1>1, <1>2, <2>1, Attempts DEF Failover
<1>3. CASE ~(rq.attempt < MaxAttempts)
  BY <1>3, Idles DEF Failover
<1>. QED
  BY <1>2, <1>3

LEMMA Seeded ==
  ASSUME NEW rw \in Row, now \in Nat
  PROVE  Seed(rw) \in ConnectionState
<1>1. BanThreshold \in Nat \ {0}
  BY ConnStateAssumption
<1>. DEFINE seeded == [entry |-> "seeded", cooldown |-> 0, ban |-> rw.ban,
                       status |-> IF ~(now < rw.cooldown) /\ rw.status \in Healable THEN "ready" ELSE rw.status]
<1>2. seeded \in ConnectionState
  BY DEF Row, ConnectionState, Entries, Statuses
<1>3. NoEntry \in ConnectionState
  BY <1>1 DEF NoEntry, ConnectionState, Entries, Statuses
<1>4. rw.cooldown \in Nat
  BY DEF Row
<1>5. "ready" \in Statuses
  BY DEF Statuses
<1>6. SetQuotaCooldown(seeded, rw.cooldown) \in ConnectionState /\ SetCooldown(seeded, rw.cooldown) \in ConnectionState
  BY <1>2, <1>4, <1>5, Mutators
<1>7. Seed(rw) \in {NoEntry, seeded, SetQuotaCooldown(seeded, rw.cooldown), SetCooldown(seeded, rw.cooldown)}
  BY DEF Seed
<1>. QED
  BY <1>2, <1>3, <1>6, <1>7

-----------------------------------------------------------------------------
(* Type correctness. *)

LEMMA InitTypes == Init => TypeOK
<1>. SUFFICES ASSUME Init PROVE TypeOK
  OBVIOUS
<1>1. BanThreshold \in Nat \ {0} /\ NoConn \notin Conn
  BY ConnStateAssumption, ConnHealthAssumption
<1>2. now \in Nat /\ row \in [Conn -> Row]
  BY <1>1 DEF Init, Row, Statuses
<1>3. mem \in [Conn -> ConnectionState]
  BY <1>2, Seeded DEF Init
<1>4. marks \in [Conn -> [model: [Model -> Nat], conn: Nat]]
  BY DEF Init, NoMarks, Unmarked
<1>5. req \in [Request -> Requests] /\ \A r \in Request : req[r].pc = "idle"
  BY Idles DEF Init
<1>6. \A r \in Request : req[r].pc \notin Failing
  BY <1>5 DEF Failing
<1>. QED
  BY <1>2, <1>3, <1>4, <1>5, <1>6 DEF Init, TypeOK

LEMMA StepTypes == TypeOK /\ [Next]_vars => TypeOK'
<1>. SUFFICES ASSUME TypeOK, [Next]_vars PROVE TypeOK'
  OBVIOUS
<1>a. /\ now \in Nat
      /\ mem \in [Conn -> ConnectionState]
      /\ marks \in [Conn -> [model: [Model -> Nat], conn: Nat]]
      /\ row \in [Conn -> Row]
      /\ QueueOK
      /\ due \subseteq Conn
      /\ recovering \in Conn \cup {NoConn}
      /\ refresh \in [Conn -> {"no", "running", "setReady", "authFailed"}]
      /\ RequestsOK
  BY DEF TypeOK, QueueOK, RequestsOK
<1>b. /\ (now \in Nat)'
      /\ (mem \in [Conn -> ConnectionState])'
      /\ (marks \in [Conn -> [model: [Model -> Nat], conn: Nat]])'
      /\ (row \in [Conn -> Row])'
      /\ QueueOK'
      /\ (due \subseteq Conn)'
      /\ (recovering \in Conn \cup {NoConn})'
      /\ (refresh \in [Conn -> {"no", "running", "setReady", "authFailed"}])'
      /\ RequestsOK'
      => TypeOK'
  BY DEF TypeOK, QueueOK, RequestsOK
<1>c. {"ready", "disabled"} \subseteq Statuses
  BY DEF Statuses
<1>d. UNCHANGED <<queue, lost>> => QueueOK'
  BY <1>a DEF QueueOK
<1>e. UNCHANGED req => RequestsOK'
  BY <1>a DEF RequestsOK
<1>f. \A c \in Conn : mem[c] \in ConnectionState
  BY <1>a
<1>g. \A c \in Conn, s \in Statuses :
        SetStatus(mem[c], s) \in ConnectionState /\ SetStatus(GetOrCreate(mem[c]), s) \in ConnectionState
  <2>. SUFFICES ASSUME NEW c \in Conn, NEW s \in Statuses
                PROVE  SetStatus(mem[c], s) \in ConnectionState /\ SetStatus(GetOrCreate(mem[c]), s) \in ConnectionState
    OBVIOUS
  <2>1. 0 \in Nat
    OBVIOUS
  <2>2. GetOrCreate(mem[c]) \in ConnectionState /\ SetStatus(mem[c], s) \in ConnectionState
    BY <1>f, <2>1, Mutators
  <2>. QED
    BY <2>1, <2>2, Mutators
<1>1. ASSUME NEW r \in Request, Start(r) PROVE TypeOK'
  <2>0. PICK m \in Model : req' = [req EXCEPT ![r] = Attempt(m, 1, NoConn)]
    BY <1>1 DEF Start
  <2>1. Attempt(m, 1, NoConn) \in Requests /\ Attempt(m, 1, NoConn).pc = "pick" /\ Attempt(m, 1, NoConn).model = m
    BY ConnHealthAssumption, Attempts
  <2>2. RequestsOK'
    BY <1>a, <2>0, <2>1, Restarted
  <2>. QED
    BY <1>a, <1>b, <1>d, <1>1, <2>2 DEF Start
<1>2. ASSUME NEW r \in Request, Route(r) PROVE TypeOK'
  <2>0. req[r] \in Requests /\ (req[r].pc # "idle" => req[r].model \in Model)
    BY <1>a DEF RequestsOK
  <2>1. ASSUME NEW c \in Conn, Consider(r, c) PROVE TypeOK'
    <3>0. req[r].model \in Model
      BY <2>0, <2>1 DEF Consider
    <3>1. CASE req' = [req EXCEPT ![r] = Rejected(@, c)]
      <4>1. RequestsOK'
        BY <1>a, <2>0, <3>0, <3>1, Rejections, Restarted
      <4>. QED
        BY <1>a, <1>b, <1>d, <2>1, <4>1 DEF Consider
    <3>2. CASE \E pc \in {"heal", "check"} : req' = [req EXCEPT ![r] = Considering(@, c, pc)]
      <4>0. PICK pc \in {"heal", "check"} : req' = [req EXCEPT ![r] = Considering(@, c, pc)]
        BY <3>2
      <4>a. /\ Considering(req[r], c, pc) \in Requests
            /\ Considering(req[r], c, pc).pc = pc
            /\ Considering(req[r], c, pc).conn = c
            /\ Considering(req[r], c, pc).model \in Model
        BY <2>0, <3>0, Considerations
      <4>b. pc \notin Failing
        BY DEF Failing
      <4>1. RequestsOK'
        BY <1>a, <4>0, <4>a, <4>b DEF RequestsOK
      <4>. QED
        BY <1>a, <1>b, <1>d, <2>1, <4>1 DEF Consider
    <3>3. \/ req' = [req EXCEPT ![r] = Rejected(@, c)]
          \/ \E pc \in {"heal", "check"} : req' = [req EXCEPT ![r] = Considering(@, c, pc)]
      BY <2>1 DEF Consider
    <3>. QED
      BY <3>1, <3>2, <3>3
  <2>2. CASE Heal(r)
    <3>1. RequestsOK'
      BY <1>a, <2>2, Gone DEF Heal, PCs, Failing
    <3>2. (mem \in [Conn -> ConnectionState])'
      BY <1>a, <1>c, <1>g, <2>2 DEF Heal
    <3>. QED
      BY <1>a, <1>b, <1>d, <2>2, <3>1, <3>2 DEF Heal
  <2>3. CASE Check(r)
    <3>1. CASE Goto(r, "inflight")
      <4>1. RequestsOK'
        BY <1>a, <2>3, <3>1, Gone DEF Check, PCs, Failing
      <4>. QED
        BY <1>a, <1>b, <1>d, <2>3, <4>1 DEF Check
    <3>2. CASE req' = [req EXCEPT ![r] = Rejected(@, @.conn)]
      <4>1. req[r].conn \in Conn /\ req[r].model \in Model
        BY <1>a, <2>3 DEF Check, RequestsOK
      <4>2. RequestsOK'
        BY <1>a, <2>0, <3>2, <4>1, Rejections, Restarted
      <4>. QED
        BY <1>a, <1>b, <1>d, <2>3, <4>2 DEF Check
    <3>. QED
      BY <2>3, <3>1, <3>2 DEF Check
  <2>4. CASE NextPass(r)
    <3>1. /\ Passed(req[r]) \in Requests /\ Passed(req[r]).pc \in {"idle", "pick"}
          /\ Passed(req[r]).pc = "pick" => Passed(req[r]).model \in Model
      BY <2>0, <2>4, Passes DEF NextPass
    <3>2. RequestsOK'
      BY <1>a, <2>4, <3>1, Restarted DEF NextPass
    <3>. QED
      BY <1>a, <1>b, <1>d, <2>4, <3>2 DEF NextPass
  <2>. QED
    BY <1>2, <2>1, <2>2, <2>3, <2>4 DEF Route
<1>3. ASSUME NEW r \in Request, Handle(r) PROVE TypeOK'
  <2>0. /\ req[r] \in Requests
        /\ req[r].pc # "idle" => req[r].model \in Model
        /\ req[r].pc \notin {"idle", "pick"} => req[r].conn \in Conn
        /\ req[r].pc \in Failing => req[r].det \in Detection
    BY <1>a DEF RequestsOK
  <2>a. \A c \in Conn : ResetBanCount(mem[c]) \in ConnectionState /\ RecordSuccess(GetOrCreate(mem[c])) \in ConnectionState
    <3>. SUFFICES ASSUME NEW c \in Conn
                  PROVE  ResetBanCount(mem[c]) \in ConnectionState /\ RecordSuccess(GetOrCreate(mem[c])) \in ConnectionState
      OBVIOUS
    <3>1. 0 \in Nat
      OBVIOUS
    <3>2. GetOrCreate(mem[c]) \in ConnectionState /\ ResetBanCount(mem[c]) \in ConnectionState
      BY <1>c, <1>f, <3>1, Mutators
    <3>. QED
      BY <1>c, <3>1, <3>2, Mutators
  <2>1. CASE ResetBan(r)
    <3>1. RequestsOK'
      BY <1>a, <2>1, Gone DEF ResetBan, PCs, Failing
    <3>2. (mem \in [Conn -> ConnectionState])'
      BY <1>a, <2>0, <2>1, <2>a DEF ResetBan
    <3>. QED
      BY <1>a, <1>b, <1>d, <2>1, <3>1, <3>2 DEF ResetBan
  <2>2. CASE EnqueueResetBan(r)
    <3>1. RequestsOK'
      BY <1>a, <2>2, Gone DEF EnqueueResetBan, PCs, Failing
    <3>2. [kind |-> "resetBan", conn |-> req[r].conn] \in Writes
      BY <2>0, <2>2, WriteTypes DEF EnqueueResetBan
    <3>3. QueueOK'
      BY <1>a, <2>2, <3>2, Enqueued DEF EnqueueResetBan
    <3>. QED
      BY <1>a, <1>b, <2>2, <3>1, <3>3 DEF EnqueueResetBan
  <2>3. CASE PersistSuccess(r)
    <3>1. RequestsOK'
      BY <1>a, <2>3, Gone DEF PersistSuccess, PCs, Failing
    <3>2. (mem \in [Conn -> ConnectionState])'
      BY <1>a, <1>c, <1>g, <2>3 DEF PersistSuccess
    <3>. QED
      BY <1>a, <1>b, <1>d, <2>3, <3>1, <3>2 DEF PersistSuccess
  <2>4. CASE EnqueueSuccess(r)
    <3>1. RequestsOK'
      BY <1>a, <2>4, Gone DEF EnqueueSuccess, PCs, Failing
    <3>2. [kind |-> "success", conn |-> req[r].conn, at |-> now] \in Writes
      BY <1>a, <2>0, <2>4, WriteTypes DEF EnqueueSuccess
    <3>3. QueueOK'
      BY <1>a, <2>4, <3>2, Enqueued DEF EnqueueSuccess
    <3>. QED
      BY <1>a, <1>b, <2>4, <3>1, <3>3 DEF EnqueueSuccess
  <2>5. CASE SuccessRecorded(r)
    <3>1. RequestsOK'
      BY <1>a, <2>5, Gone DEF SuccessRecorded, PCs, Failing
    <3>2. (mem \in [Conn -> ConnectionState])'
      BY <1>a, <2>5, <2>a DEF SuccessRecorded
    <3>. QED
      BY <1>a, <1>b, <1>d, <2>5, <3>1, <3>2 DEF SuccessRecorded
  <2>6. CASE Finish(r)
    <3>1. RequestsOK'
      BY <1>a, <2>6, Idles, Restarted DEF Finish
    <3>. QED
      BY <1>a, <1>b, <1>d, <2>6, <3>1 DEF Finish
  <2>7. ASSUME NEW category \in Failures, Fail(r, category) PROVE TypeOK'
    <3>. DEFINE det == DetectError(category, now)
    <3>0. category \in Categories
      BY ConnHealthAssumption
    <3>1. det \in Detection
      BY <1>a, <3>0, Detections
    <3>2. det.until \in Nat
      BY <3>1 DEF Detection
    <3>3. \A c \in Conn : RecordFailure(GetOrCreate(mem[c]), det) \in ConnectionState
      <4>. SUFFICES ASSUME NEW c \in Conn PROVE RecordFailure(GetOrCreate(mem[c]), det) \in ConnectionState
        OBVIOUS
      <4>1. GetOrCreate(mem[c]) \in ConnectionState
        BY <1>c, <1>f, <3>2, Mutators
      <4>. HIDE DEF det
      <4>. QED
        BY <3>1, <4>1, Failure
    <3>4. /\ req[r].pc \in {"inflight", "streaming"}
          /\ marks' = IF category \in {"rate_limit", "quota"}
                      THEN [marks EXCEPT ![req[r].conn].model[req[r].model] = det.until] ELSE marks
          /\ mem' = [mem EXCEPT ![req[r].conn] = RecordFailure(GetOrCreate(@), det)]
          /\ req' = [req EXCEPT ![r] = Failed(@, det)]
          /\ UNCHANGED <<now, row, queue, lost, due, recovering, refresh>>
      BY <2>7 DEF Fail
    <3>. HIDE DEF det
    <3>a. req[r].conn \in Conn /\ req[r].model \in Model
      BY <2>0, <3>4
    <3>5. (marks \in [Conn -> [model: [Model -> Nat], conn: Nat]])'
      BY <1>a, <3>2, <3>4, <3>a
    <3>6. (mem \in [Conn -> ConnectionState])'
      BY <1>a, <3>3, <3>4
    <3>7. RequestsOK'
      BY <1>a, <2>0, <3>1, <3>4, <3>a, FailedRecords DEF RequestsOK, Failing
    <3>. QED
      BY <1>a, <1>b, <1>d, <3>4, <3>5, <3>6, <3>7
  <2>8. CASE PersistCooldown(r)
    <3>1. RequestsOK'
      BY <1>a, <2>8, Gone DEF PersistCooldown, PCs, Failing
    <3>2. req[r].det.status \in Statuses /\ req[r].det.until \in Nat
      BY <2>0, <2>8 DEF PersistCooldown, Failing, Detection
    <3>3. \A c \in Conn : SetQuotaCooldown(mem[c], req[r].det.until) \in ConnectionState
      BY <1>f, <3>2, Mutators
    <3>4. (mem \in [Conn -> ConnectionState])'
      BY <1>a, <1>g, <2>8, <3>2, <3>3 DEF PersistCooldown
    <3>. QED
      BY <1>a, <1>b, <1>d, <2>8, <3>1, <3>4 DEF PersistCooldown
  <2>9. CASE EnqueueCooldown(r)
    <3>1. RequestsOK'
      BY <1>a, <2>9, Gone DEF EnqueueCooldown, PCs, Failing
    <3>2. req[r].det.status \in Statuses /\ req[r].det.until \in Nat /\ req[r].conn \in Conn
      BY <2>0, <2>9 DEF EnqueueCooldown, Failing, Detection
    <3>3. [kind |-> "cooldown", conn |-> req[r].conn, status |-> req[r].det.status, until |-> req[r].det.until] \in Writes
      BY <3>2, WriteTypes
    <3>4. QueueOK'
      BY <1>a, <2>9, <3>3, Enqueued DEF EnqueueCooldown
    <3>. QED
      BY <1>a, <1>b, <2>9, <3>1, <3>4 DEF EnqueueCooldown
  <2>10. CASE CheckAutoDisable(r)
    <3>1. req[r].conn \in Conn
      BY <2>0, <2>10 DEF CheckAutoDisable
    <3>2. mem[req[r].conn].ban \in 0..BanThreshold
      BY <1>a, <3>1 DEF ConnectionState
    <3>3. [kind |-> "ban", conn |-> req[r].conn, ban |-> mem[req[r].conn].ban] \in Writes
      BY <3>1, <3>2, WriteTypes
    <3>4. QueueOK'
      BY <1>a, <1>d, <2>10, <3>3, Enqueued DEF CheckAutoDisable
    <3>5. CASE mem[req[r].conn].ban >= BanThreshold
      <4>1. Goto(r, "disable")
        BY <2>10, <3>5 DEF CheckAutoDisable
      <4>2. RequestsOK'
        BY <1>a, <2>10, <4>1, Gone DEF CheckAutoDisable, PCs, Failing
      <4>. QED
        BY <1>a, <1>b, <2>10, <3>4, <4>2 DEF CheckAutoDisable
    <3>6. CASE ~(mem[req[r].conn].ban >= BanThreshold)
      <4>1. req' = [req EXCEPT ![r] = Failover(req[r])]
        BY <2>10, <3>6 DEF CheckAutoDisable
      <4>2. RequestsOK'
        BY <1>a, <2>0, <2>10, <4>1, Failovers, Restarted DEF CheckAutoDisable
      <4>. QED
        BY <1>a, <1>b, <2>10, <3>4, <4>2 DEF CheckAutoDisable
    <3>. QED
      BY <3>5, <3>6
  <2>11. CASE AutoDisable(r)
    <3>1. req' = [req EXCEPT ![r] = Failover(req[r])]
      BY <2>11 DEF AutoDisable
    <3>2. RequestsOK'
      BY <1>a, <2>0, <2>11, <3>1, Failovers, Restarted DEF AutoDisable
    <3>3. (mem \in [Conn -> ConnectionState])'
      BY <1>a, <1>c, <1>g, <2>11 DEF AutoDisable
    <3>. QED
      BY <1>a, <1>b, <1>d, <2>11, <3>2, <3>3 DEF AutoDisable
  <2>. QED
    BY <1>3, <2>1, <2>2, <2>3, <2>4, <2>5, <2>6, <2>7, <2>8, <2>9, <2>10, <2>11 DEF Handle
<1>4. ASSUME NEW c \in Conn, Spot(c) PROVE TypeOK'
  <2>1. CASE SpotEntry(c)
    BY <1>a, <1>b, <1>d, <1>e, <2>1 DEF SpotEntry
  <2>2. CASE RecoverRow(c)
    <3>1. [kind |-> "recover", conn |-> c] \in Writes
      BY WriteTypes
    <3>2. QueueOK'
      BY <1>a, <2>2, <3>1, Enqueued DEF RecoverRow
    <3>. QED
      BY <1>a, <1>b, <1>e, <2>2, <3>2 DEF RecoverRow
  <2>. QED
    BY <1>4, <2>1, <2>2 DEF Spot
<1>5. ASSUME NEW c \in Conn, Refresh(c) PROVE TypeOK'
  <2>1. CASE StartRefresh(c)
    BY <1>a, <1>b, <1>d, <1>e, <2>1 DEF StartRefresh
  <2>2. ASSUME NEW outcome \in {"setReady", "authFailed"}, Refreshed(c, outcome) PROVE TypeOK'
    <3>1. [kind |-> outcome, conn |-> c] \in Writes
      BY WriteTypes
    <3>2. QueueOK'
      BY <1>a, <2>2, <3>1, Enqueued DEF Refreshed
    <3>. QED
      BY <1>a, <1>b, <1>e, <2>2, <3>2 DEF Refreshed
  <2>3. CASE RefreshFailed(c)
    BY <1>a, <1>b, <1>d, <1>e, <2>3 DEF RefreshFailed
  <2>4. CASE RefreshRecorded(c)
    <3>1. (mem \in [Conn -> ConnectionState])'
      BY <1>a, <1>c, <1>g, <2>4 DEF RefreshRecorded
    <3>. QED
      BY <1>a, <1>b, <1>d, <1>e, <2>4, <3>1 DEF RefreshRecorded
  <2>. QED
    BY <1>5, <2>1, <2>2, <2>3, <2>4 DEF Refresh
<1>6. CASE Recover
  <2>1. (mem \in [Conn -> ConnectionState])'
    BY <1>a, <1>c, <1>g, <1>6 DEF Recover
  <2>2. recovering \in Conn
    BY <1>a, <1>6 DEF Recover
  <2>3. (marks \in [Conn -> [model: [Model -> Nat], conn: Nat]])'
    BY <1>a, <1>6, <2>2 DEF Recover
  <2>. QED
    BY <1>a, <1>b, <1>d, <1>e, <1>6, <2>1, <2>2, <2>3 DEF Recover
<1>7. CASE Drain
  <2>1. /\ Head(queue) \in Writes
        /\ Tail(queue) \in Seq(Writes)
    BY <1>a, <1>7 DEF Drain, QueueOK
  <2>2. (row \in [Conn -> Row])'
    BY <1>a, <1>7, <2>1, Applied DEF Drain
  <2>3. QueueOK'
    BY <1>a, <1>7, <2>1 DEF Drain, QueueOK
  <2>. QED
    BY <1>a, <1>b, <1>e, <1>7, <2>2, <2>3 DEF Drain
<1>8. CASE Restart
  <2>1. (mem \in [Conn -> ConnectionState])'
    BY <1>a, <1>8, Seeded DEF Restart
  <2>2. (marks \in [Conn -> [model: [Model -> Nat], conn: Nat]])'
    BY <1>8 DEF Restart, NoMarks, Unmarked
  <2>3. RequestsOK'
    BY <1>8, Idles DEF Restart, RequestsOK, Failing
  <2>4. QueueOK'
    BY <1>8 DEF Restart, QueueOK
  <2>. QED
    BY <1>a, <1>b, <1>8, <2>1, <2>2, <2>3, <2>4 DEF Restart
<1>9. CASE Tick
  BY <1>a, <1>b, <1>d, <1>e, <1>9 DEF Tick
<1>10. CASE UNCHANGED vars
  BY <1>a, <1>b, <1>d, <1>e, <1>10 DEF vars
<1>11. CASE SpotRows
  BY <1>a, <1>b, <1>d, <1>e, <1>11 DEF SpotRows, DueRows
<1>. QED
  BY <1>1, <1>2, <1>3, <1>4, <1>5, <1>6, <1>7, <1>8, <1>9, <1>10, <1>11 DEF Next, Work

\* Every reachable state is well typed.
THEOREM TypeCorrect == Spec => []TypeOK
BY InitTypes, StepTypes, PTL DEF Spec

-----------------------------------------------------------------------------
(* Rows stay coherent. *)

Coherent(rw) ==
  /\ rw.status = "disabled" => ~rw.active
  /\ rw.status \in Healable => rw.cooldown # 0

WriteHasHorizon(w) == w.kind = "cooldown" => HasHorizon(w.status, w.until)

RequestHasHorizon(rq) == rq.pc \in {"persist", "enqueue"} => HasHorizon(rq.det.status, rq.det.until)

LEMMA RowInvParts ==
  RowInv <=> /\ \A c \in Conn : Coherent(row[c])
             /\ \A i \in DOMAIN queue : WriteHasHorizon(queue[i])
             /\ \A r \in Request : RequestHasHorizon(req[r])
BY DEF RowInv, RowCoherent, Coherent, WriteHasHorizon, RequestHasHorizon

\* A write with a horizon keeps a row coherent.
LEMMA AppliedCoherent ==
  ASSUME NEW rw \in Row, NEW w \in Writes, Coherent(rw), WriteHasHorizon(w)
  PROVE  Coherent(Apply(rw, w))
<1>. USE DEF Writes, Coherent, Healable
<1>1. CASE w.kind = "ban"
  <2>1. Coherent(BanWrite(rw, w))
    BY DEF BanWrite, Row
  <2>. QED
    BY <2>1, <1>1, Zenon DEF Apply
<1>2. CASE w.kind = "cooldown"
  <2>1. Coherent(CooldownWrite(rw, w))
    BY <1>2 DEF CooldownWrite, WriteHasHorizon, HasHorizon
  <2>. QED
    BY <2>1, <1>2, Zenon DEF Apply
<1>3. CASE w.kind = "success"
  <2>0. w.at \in Nat
    BY <1>3
  <2>1. Coherent(SuccessWrite(rw, w))
    BY <2>0 DEF SuccessWrite, Row
  <2>. QED
    BY <2>1, <1>3, Zenon DEF Apply
<1>4. CASE w.kind = "resetBan"
  <2>1. Coherent([rw EXCEPT !.ban = 0])
    BY DEF Row
  <2>. QED
    BY <2>1, <1>4, Zenon DEF Apply
<1>5. CASE w.kind = "recover"
  <2>1. Coherent([rw EXCEPT !.status = "ready", !.cooldown = 0])
    BY DEF Row
  <2>. QED
    BY <2>1, <1>5, Zenon DEF Apply
<1>6. CASE w.kind = "setReady"
  <2>1. Coherent([rw EXCEPT !.status = "ready"])
    BY DEF Row
  <2>. QED
    BY <2>1, <1>6, Zenon DEF Apply
<1>7. CASE w.kind = "authFailed"
  <2>1. Coherent(AuthFailedWrite(rw))
    BY DEF Row, AuthFailedWrite
  <2>. QED
    BY <2>1, <1>7, Zenon DEF Apply
<1>. QED
  BY <1>1, <1>2, <1>3, <1>4, <1>5, <1>6, <1>7

LEMMA EnqueuedHorizon ==
  ASSUME QueueOK, NEW w \in Writes, WriteHasHorizon(w), Enqueue(w),
         \A i \in DOMAIN queue : WriteHasHorizon(queue[i])
  PROVE  \A i \in DOMAIN queue' : WriteHasHorizon(queue'[i])
<1>1. CASE queue' = Append(queue, w)
  <2>1. queue \in Seq(Writes)
    BY DEF QueueOK
  <2>2. \A i \in DOMAIN queue' : (i \in DOMAIN queue /\ queue'[i] = queue[i]) \/ queue'[i] = w
    BY <1>1, <2>1
  <2>. QED
    BY <2>2
<1>2. CASE UNCHANGED queue
  BY <1>2
<1>. QED
  BY <1>1, <1>2 DEF Enqueue

LEMMA InitRow == Init => RowInv
<1>. SUFFICES ASSUME Init PROVE RowInv
  OBVIOUS
<1>1. \A c \in Conn : Coherent(row[c])
  BY DEF Init, Coherent, Healable
<1>2. \A r \in Request : RequestHasHorizon(req[r])
  BY Idles DEF Init, RequestHasHorizon
<1>. QED
  BY <1>1, <1>2, RowInvParts DEF Init

LEMMA StepRow == TypeOK /\ RowInv /\ [Next]_vars => RowInv'
<1>. SUFFICES ASSUME TypeOK, RowInv, [Next]_vars PROVE RowInv'
  OBVIOUS
<1>. DEFINE Rows     == \A c \in Conn : Coherent(row[c])
            Queued   == \A i \in DOMAIN queue : WriteHasHorizon(queue[i])
            Handlers == \A r \in Request : RequestHasHorizon(req[r])
<1>a. Rows /\ Queued /\ Handlers
  BY RowInvParts
<1>b. Rows' /\ Queued' /\ Handlers' => RowInv'
  BY RowInvParts DEF RowInv, RowCoherent, Coherent, WriteHasHorizon, RequestHasHorizon
<1>c. RequestsOK /\ QueueOK /\ row \in [Conn -> Row] /\ now \in Nat
  BY DEF TypeOK, RequestsOK, QueueOK
<1>d. \A r \in Request : req[r] \in Requests
  BY <1>c DEF RequestsOK
<1>e. ASSUME NEW r \in Request, NEW x, req' = [req EXCEPT ![r] = x], RequestHasHorizon(x) PROVE Handlers'
  BY <1>a, <1>c, <1>e DEF RequestsOK
<1>f. ASSUME NEW r \in Request, NEW pc, Goto(r, pc), pc \in {"persist", "enqueue"} => req[r].pc = "persist"
      PROVE Handlers'
  BY <1>a, <1>c, <1>f DEF Goto, RequestsOK, Requests, RequestHasHorizon
<1>g. ASSUME NEW x, x.pc \notin {"persist", "enqueue"} PROVE RequestHasHorizon(x)
  BY <1>g DEF RequestHasHorizon
<1>h. UNCHANGED row => Rows'
  BY <1>a
<1>i. UNCHANGED queue => Queued'
  BY <1>a
<1>j. UNCHANGED req => Handlers'
  BY <1>a
<1>k. ASSUME NEW w \in Writes, w.kind # "cooldown", Enqueue(w) PROVE Queued'
  BY <1>a, <1>c, <1>k, EnqueuedHorizon DEF WriteHasHorizon
<1>. HIDE DEF Rows, Queued, Handlers
<1>1. ASSUME NEW r \in Request, Start(r) PROVE RowInv'
  <2>1. \A m \in Model : RequestHasHorizon(Attempt(m, 1, NoConn))
    BY <1>g, Attempts, ConnHealthAssumption
  <2>2. Handlers'
    BY <1>1, <1>e, <2>1 DEF Start
  <2>. QED
    BY <1>1, <1>b, <1>h, <1>i, <2>2 DEF Start
<1>2. ASSUME NEW r \in Request, Route(r) PROVE RowInv'
  <2>1. ASSUME NEW c \in Conn, Consider(r, c) PROVE RowInv'
    <3>1. RequestHasHorizon(Rejected(req[r], c))
      BY <1>d, <1>g, Rejections
    <3>2. \A pc \in {"heal", "check"} : RequestHasHorizon(Considering(req[r], c, pc))
      BY <1>d, <1>g, Considerations
    <3>3. \/ req' = [req EXCEPT ![r] = Rejected(req[r], c)]
          \/ \E pc \in {"heal", "check"} : req' = [req EXCEPT ![r] = Considering(req[r], c, pc)]
      BY <2>1 DEF Consider
    <3>4. Handlers'
      BY <1>e, <3>1, <3>2, <3>3
    <3>. QED
      BY <2>1, <1>b, <1>h, <1>i, <3>4 DEF Consider
  <2>2. CASE Heal(r)
    <3>1. Handlers'
      BY <1>f, <2>2 DEF Heal
    <3>. QED
      BY <2>2, <1>b, <1>h, <1>i, <3>1 DEF Heal
  <2>3. CASE Check(r)
    <3>0. req[r].conn \in Conn
      BY <1>c, <2>3 DEF Check, RequestsOK
    <3>1. RequestHasHorizon(Rejected(req[r], req[r].conn))
      BY <1>d, <1>g, <3>0, Rejections
    <3>2. Goto(r, "inflight") \/ req' = [req EXCEPT ![r] = Rejected(req[r], req[r].conn)]
      BY <2>3 DEF Check
    <3>3. Handlers'
      BY <1>e, <1>f, <3>1, <3>2
    <3>. QED
      BY <2>3, <1>b, <1>h, <1>i, <3>3 DEF Check
  <2>4. CASE NextPass(r)
    <3>1. RequestHasHorizon(Passed(req[r]))
      BY <1>d, <1>g, <2>4, Passes DEF NextPass
    <3>2. Handlers'
      BY <1>e, <2>4, <3>1 DEF NextPass
    <3>. QED
      BY <2>4, <1>b, <1>h, <1>i, <3>2 DEF NextPass
  <2>. QED
    BY <1>2, <2>1, <2>2, <2>3, <2>4 DEF Route
<1>3. ASSUME NEW r \in Request, Handle(r) PROVE RowInv'
  <2>0. /\ req[r].pc \notin {"idle", "pick"} => req[r].conn \in Conn
        /\ req[r].pc \in Failing => req[r].det \in Detection
    BY <1>c DEF RequestsOK
  <2>a. RequestHasHorizon(Failover(req[r])) /\ RequestHasHorizon(Idle)
    BY <1>d, <1>g, Failovers, Idles
  <2>1. CASE ResetBan(r)
    <3>1. Handlers'
      BY <1>f, <2>1 DEF ResetBan
    <3>. QED
      BY <2>1, <1>b, <1>h, <1>i, <3>1 DEF ResetBan
  <2>2. CASE EnqueueResetBan(r)
    <3>1. Handlers'
      BY <1>f, <2>2 DEF EnqueueResetBan
    <3>2. [kind |-> "resetBan", conn |-> req[r].conn] \in Writes
      BY <2>0, <2>2, WriteTypes DEF EnqueueResetBan
    <3>3. Queued'
      BY <1>k, <2>2, <3>2 DEF EnqueueResetBan
    <3>. QED
      BY <2>2, <1>b, <1>h, <3>1, <3>3 DEF EnqueueResetBan
  <2>3. CASE PersistSuccess(r)
    <3>1. Handlers'
      BY <1>f, <2>3 DEF PersistSuccess
    <3>. QED
      BY <2>3, <1>b, <1>h, <1>i, <3>1 DEF PersistSuccess
  <2>4. CASE EnqueueSuccess(r)
    <3>1. Handlers'
      BY <1>f, <2>4 DEF EnqueueSuccess
    <3>2. [kind |-> "success", conn |-> req[r].conn, at |-> now] \in Writes
      BY <1>c, <2>0, <2>4, WriteTypes DEF EnqueueSuccess
    <3>3. Queued'
      BY <1>k, <2>4, <3>2 DEF EnqueueSuccess
    <3>. QED
      BY <2>4, <1>b, <1>h, <3>1, <3>3 DEF EnqueueSuccess
  <2>5. CASE SuccessRecorded(r)
    <3>1. Handlers'
      BY <1>f, <2>5 DEF SuccessRecorded
    <3>. QED
      BY <2>5, <1>b, <1>h, <1>i, <3>1 DEF SuccessRecorded
  <2>6. CASE Finish(r)
    <3>1. Handlers'
      BY <1>e, <2>6, <2>a DEF Finish
    <3>. QED
      BY <2>6, <1>b, <1>h, <1>i, <3>1 DEF Finish
  <2>7. ASSUME NEW category \in Failures, Fail(r, category) PROVE RowInv'
    <3>. DEFINE det == DetectError(category, now)
    <3>1. det \in Detection /\ (det.until = 0 => det.status = "disabled")
      BY <1>c, ConnHealthAssumption, Detections
    <3>2. /\ req' = [req EXCEPT ![r] = Failed(req[r], det)]
          /\ UNCHANGED <<row, queue>>
      BY <2>7 DEF Fail
    <3>. HIDE DEF det
    <3>3. HasHorizon(det.status, det.until)
      BY <3>1 DEF HasHorizon, Healable
    <3>4. Failed(req[r], det).det = det
      BY <1>d, <3>1, FailedRecords
    <3>5. RequestHasHorizon(Failed(req[r], det))
      BY <3>3, <3>4 DEF RequestHasHorizon
    <3>6. Handlers'
      BY <1>e, <3>2, <3>5
    <3>. QED
      BY <1>b, <1>h, <1>i, <3>2, <3>6
  <2>8. CASE PersistCooldown(r)
    <3>1. Handlers'
      BY <1>f, <2>8 DEF PersistCooldown
    <3>. QED
      BY <2>8, <1>b, <1>h, <1>i, <3>1 DEF PersistCooldown
  <2>9. CASE EnqueueCooldown(r)
    <3>. DEFINE w == [kind |-> "cooldown", conn |-> req[r].conn, status |-> req[r].det.status, until |-> req[r].det.until]
    <3>1. Handlers'
      BY <1>f, <2>9 DEF EnqueueCooldown
    <3>2. req[r].det.status \in Statuses /\ req[r].det.until \in Nat /\ req[r].conn \in Conn
      BY <2>0, <2>9 DEF EnqueueCooldown, Failing, Detection
    <3>3. w \in Writes
      BY <3>2, WriteTypes
    <3>4. RequestHasHorizon(req[r])
      BY <1>a DEF Handlers
    <3>5. WriteHasHorizon(w)
      BY <2>9, <3>4 DEF EnqueueCooldown, RequestHasHorizon, WriteHasHorizon
    <3>6. Enqueue(w) /\ UNCHANGED row
      BY <2>9 DEF EnqueueCooldown
    <3>. HIDE DEF w
    <3>7. Queued'
      BY <1>a, <1>c, <3>3, <3>5, <3>6, EnqueuedHorizon DEF Queued
    <3>. QED
      BY <1>b, <1>h, <3>1, <3>6, <3>7
  <2>10. CASE CheckAutoDisable(r)
    <3>1. Goto(r, "disable") \/ req' = [req EXCEPT ![r] = Failover(req[r])]
      BY <2>10 DEF CheckAutoDisable
    <3>2. Handlers'
      BY <1>e, <1>f, <2>a, <3>1
    <3>3. req[r].conn \in Conn
      BY <2>0, <2>10 DEF CheckAutoDisable
    <3>4. mem[req[r].conn].ban \in 0..BanThreshold
      BY <3>3 DEF TypeOK, ConnectionState
    <3>5. [kind |-> "ban", conn |-> req[r].conn, ban |-> mem[req[r].conn].ban] \in Writes
      BY <3>3, <3>4, WriteTypes
    <3>6. Queued'
      BY <1>i, <1>k, <2>10, <3>5 DEF CheckAutoDisable
    <3>. QED
      BY <2>10, <1>b, <1>h, <3>2, <3>6 DEF CheckAutoDisable
  <2>11. CASE AutoDisable(r)
    <3>1. req' = [req EXCEPT ![r] = Failover(req[r])] /\ UNCHANGED <<row, queue>>
      BY <2>11 DEF AutoDisable
    <3>2. Handlers'
      BY <1>e, <2>a, <3>1
    <3>. QED
      BY <1>b, <1>h, <1>i, <3>1, <3>2
  <2>. QED
    BY <1>3, <2>1, <2>2, <2>3, <2>4, <2>5, <2>6, <2>7, <2>8, <2>9, <2>10, <2>11 DEF Handle
<1>4. ASSUME NEW c \in Conn, Spot(c) PROVE RowInv'
  <2>1. CASE SpotEntry(c)
    BY <1>b, <1>h, <1>i, <1>j, <2>1 DEF SpotEntry
  <2>2. CASE RecoverRow(c)
    <3>1. [kind |-> "recover", conn |-> c] \in Writes
      BY WriteTypes
    <3>2. Queued'
      BY <1>k, <2>2, <3>1 DEF RecoverRow
    <3>. QED
      BY <1>b, <1>h, <1>j, <2>2, <3>2 DEF RecoverRow
  <2>. QED
    BY <1>4, <2>1, <2>2 DEF Spot
<1>5. ASSUME NEW c \in Conn, Refresh(c) PROVE RowInv'
  <2>1. CASE StartRefresh(c)
    BY <1>b, <1>h, <1>i, <1>j, <2>1 DEF StartRefresh
  <2>2. ASSUME NEW outcome \in {"setReady", "authFailed"}, Refreshed(c, outcome) PROVE RowInv'
    <3>1. [kind |-> outcome, conn |-> c] \in Writes
      BY WriteTypes
    <3>2. Queued'
      BY <1>k, <2>2, <3>1 DEF Refreshed
    <3>. QED
      BY <1>b, <1>h, <1>j, <2>2, <3>2 DEF Refreshed
  <2>3. CASE RefreshFailed(c)
    BY <1>b, <1>h, <1>i, <1>j, <2>3 DEF RefreshFailed
  <2>4. CASE RefreshRecorded(c)
    BY <1>b, <1>h, <1>i, <1>j, <2>4 DEF RefreshRecorded
  <2>. QED
    BY <1>5, <2>1, <2>2, <2>3, <2>4 DEF Refresh
<1>6. CASE Recover
  BY <1>b, <1>h, <1>i, <1>j, <1>6 DEF Recover
<1>7. CASE Drain
  <2>0. queue \in Seq(Writes) /\ queue # <<>>
    BY <1>7, <1>c DEF Drain, QueueOK
  <2>1. /\ Head(queue) \in Writes /\ Head(queue) = queue[1] /\ 1 \in DOMAIN queue
        /\ \A i \in DOMAIN Tail(queue) : i + 1 \in DOMAIN queue /\ Tail(queue)[i] = queue[i + 1]
    BY <2>0
  <2>2. WriteHasHorizon(Head(queue))
    BY <1>a, <2>1 DEF Queued
  <2>3. \A c \in Conn : row[c] \in Row /\ Coherent(row[c])
    BY <1>a, <1>c DEF Rows
  <2>4. \A c \in Conn : Coherent(Apply(row[c], Head(queue)))
    BY <2>1, <2>2, <2>3, AppliedCoherent
  <2>5. row' = [row EXCEPT ![Head(queue).conn] = Apply(row[Head(queue).conn], Head(queue))]
    BY <1>7 DEF Drain
  <2>6. Rows'
    BY <1>c, <2>3, <2>4, <2>5 DEF Rows
  <2>7. Queued'
    BY <1>7, <1>a, <2>1 DEF Drain, Queued
  <2>. QED
    BY <1>7, <1>b, <1>j, <2>6, <2>7 DEF Drain
<1>8. CASE Restart
  <2>1. \A r \in Request : req'[r] = Idle
    BY <1>8 DEF Restart
  <2>2. Handlers'
    BY <1>g, <2>1, Idles DEF Handlers
  <2>3. Queued'
    BY <1>8 DEF Restart, Queued
  <2>. QED
    BY <1>8, <1>b, <1>h, <2>2, <2>3 DEF Restart
<1>9. CASE Tick
  BY <1>b, <1>h, <1>i, <1>j, <1>9 DEF Tick
<1>10. CASE UNCHANGED vars
  BY <1>b, <1>h, <1>i, <1>j, <1>10 DEF vars
<1>11. CASE SpotRows
  BY <1>b, <1>h, <1>i, <1>j, <1>11 DEF SpotRows
<1>. QED
  BY <1>1, <1>2, <1>3, <1>4, <1>5, <1>6, <1>7, <1>8, <1>9, <1>10, <1>11 DEF Next, Work

\* In every reachable state a disabled row is inactive and a row that waits
\* for a cooldown has one, whatever order late answers, ban counts, token
\* refreshes and recoveries reach the write queue in.
THEOREM RowsCoherent == Spec => []RowCoherent
<1>1. RowInv => RowCoherent
  BY DEF RowInv
<1>. QED
  BY InitRow, StepRow, TypeCorrect, <1>1, PTL DEF Spec

-----------------------------------------------------------------------------
(* Disabled connections reach the row. *)

LEMMA AppliedInactive ==
  ASSUME NEW rw \in Row, NEW w \in Writes, NEW c \in Conn, w.conn = c,
         (~rw.active /\ ~Enables(w, c)) \/ Disables(w, c)
  PROVE  ~Apply(rw, w).active
<1>. USE DEF Writes, Enables, Disables
<1>1. CASE w.kind = "ban"
  <2>1. ~BanWrite(rw, w).active
    BY <1>1 DEF BanWrite, Row
  <2>. QED
    BY <2>1, <1>1, Zenon DEF Apply
<1>2. CASE w.kind = "cooldown"
  <2>1. ~CooldownWrite(rw, w).active
    BY <1>2 DEF CooldownWrite
  <2>. QED
    BY <2>1, <1>2, Zenon DEF Apply
<1>3. CASE w.kind = "success"
  <2>1. ~SuccessWrite(rw, w).active
    BY <1>3 DEF SuccessWrite, Row
  <2>. QED
    BY <2>1, <1>3, Zenon DEF Apply
<1>4. CASE w.kind = "resetBan"
  <2>1. ~[rw EXCEPT !.ban = 0].active
    BY <1>4 DEF Row
  <2>. QED
    BY <2>1, <1>4, Zenon DEF Apply
<1>5. CASE w.kind = "recover"
  <2>1. ~[rw EXCEPT !.status = "ready", !.cooldown = 0].active
    BY <1>5 DEF Row
  <2>. QED
    BY <2>1, <1>5, Zenon DEF Apply
<1>6. CASE w.kind = "setReady"
  <2>1. ~[rw EXCEPT !.status = "ready"].active
    BY <1>6 DEF Row
  <2>. QED
    BY <2>1, <1>6, Zenon DEF Apply
<1>7. CASE w.kind = "authFailed"
  <2>1. ~AuthFailedWrite(rw).active
    BY <1>7 DEF Row, AuthFailedWrite
  <2>. QED
    BY <2>1, <1>7, Zenon DEF Apply
<1>. QED
  BY <1>1, <1>2, <1>3, <1>4, <1>5, <1>6, <1>7

\* What the queue settles it still settles when a write that does not activate
\* the row is queued behind it ...
LEMMA SettlesBehind ==
  ASSUME QueueOK, NEW c \in Conn, NEW w \in Writes, Enqueue(w), ~Enables(w, c),
         UNCHANGED row, SettlesInactive(c)
  PROVE  SettlesInactive(c)'
<1>0. queue \in Seq(Writes)
  BY DEF QueueOK
<1>1. CASE UNCHANGED queue
  BY <1>1 DEF SettlesInactive
<1>2. CASE queue' = Append(queue, w)
  <2>1. /\ \A i \in DOMAIN queue : i \in DOMAIN queue' /\ queue'[i] = queue[i]
        /\ \A i \in DOMAIN queue' : i \in DOMAIN queue \/ queue'[i] = w
    BY <1>0, <1>2
  <2>. QED
    BY <2>1 DEF SettlesInactive
<1>. QED
  BY <1>1, <1>2 DEF Enqueue

\* ... a write that deactivates the row settles it, unless it is dropped ...
LEMMA SettlesLast ==
  ASSUME QueueOK, NEW c \in Conn, NEW w \in Writes, Enqueue(w), Disables(w, c), c \notin lost'
  PROVE  SettlesInactive(c)'
<1>1. queue \in Seq(Writes) /\ w.conn = c
  BY DEF QueueOK, Disables
<1>2. queue' = Append(queue, w)
  BY <1>1 DEF Enqueue
<1>3. /\ Len(queue) + 1 \in DOMAIN queue'
      /\ queue'[Len(queue) + 1] = w
      /\ \A j \in DOMAIN queue' : ~(j > Len(queue) + 1)
  BY <1>1, <1>2
<1>. QED
  BY <1>3 DEF SettlesInactive

\* ... and the drain goroutine brings the row closer to it.
LEMMA SettlesDrained ==
  ASSUME QueueOK, row \in [Conn -> Row], NEW c \in Conn, Drain, SettlesInactive(c)
  PROVE  SettlesInactive(c)'
<1>0. queue \in Seq(Writes) /\ queue # <<>>
  BY DEF QueueOK, Drain
<1>. DEFINE w == queue[1]
<1>1. /\ w \in Writes
      /\ 1 \in DOMAIN queue
      /\ \A i \in DOMAIN queue : i \in Nat /\ (i # 1 => i - 1 \in DOMAIN queue' /\ queue'[i - 1] = queue[i])
      /\ \A i \in DOMAIN queue' : i \in Nat /\ i + 1 \in DOMAIN queue /\ queue'[i] = queue[i + 1] /\ i + 1 > 1
  BY <1>0 DEF Drain
<1>h. Head(queue) = w
  BY <1>0
<1>2. row' = [row EXCEPT ![w.conn] = Apply(row[w.conn], w)]
  <2>1. row' = [row EXCEPT ![Head(queue).conn] = Apply(row[Head(queue).conn], Head(queue))]
    BY DEF Drain
  <2>. QED
    BY <1>h, <2>1
<1>3. row[c] \in Row
  OBVIOUS
<1>4. (~row[c].active /\ ~Enables(w, c)) \/ Disables(w, c) => ~row'[c].active
  <2>1. CASE w.conn = c
    BY <1>1, <1>2, <1>3, <2>1, AppliedInactive
  <2>2. CASE w.conn # c
    BY <1>2, <2>2 DEF Disables
  <2>. QED
    BY <2>1, <2>2
<1>5. CASE ~row[c].active /\ \A i \in DOMAIN queue : ~Enables(queue[i], c)
  BY <1>1, <1>4, <1>5 DEF SettlesInactive
<1>6. CASE \E i \in DOMAIN queue :
             /\ Disables(queue[i], c)
             /\ \A j \in DOMAIN queue : j > i => ~Enables(queue[j], c)
  <2>1. PICK i \in DOMAIN queue :
             /\ Disables(queue[i], c)
             /\ \A j \in DOMAIN queue : j > i => ~Enables(queue[j], c)
    BY <1>6
  <2>2. CASE i = 1
    BY <1>1, <1>4, <2>1, <2>2 DEF SettlesInactive
  <2>3. CASE i # 1
    <3>1. i - 1 \in DOMAIN queue' /\ Disables(queue'[i - 1], c)
      BY <1>1, <2>1, <2>3
    <3>2. \A j \in DOMAIN queue' : j > i - 1 => ~Enables(queue'[j], c)
      BY <1>1, <2>1
    <3>. QED
      BY <3>1, <3>2 DEF SettlesInactive
  <2>. QED
    BY <2>2, <2>3
<1>. QED
  BY <1>5, <1>6 DEF SettlesInactive

\* The mutators the success handler, the router and the schedulers use never
\* disable, and leave nothing behind in an entry that does not exist.
Harmless(old, new) ==
  /\ new.status = "disabled" => old.status = "disabled"
  /\ new.entry = "absent" => new.status # "disabled" /\ new.ban = 0

LEMMA HarmlessMutators ==
  ASSUME NEW cs \in ConnectionState, cs.entry = "absent" => cs.status # "disabled" /\ cs.ban = 0
  PROVE  /\ Harmless(cs, cs)
         /\ Harmless(cs, SetStatus(cs, "ready"))
         /\ Harmless(cs, SetStatus(GetOrCreate(cs), "ready"))
         /\ Harmless(cs, ResetBanCount(cs))
         /\ Harmless(cs, RecordSuccess(GetOrCreate(cs)))
<1>1. cs.entry \in Entries
  BY DEF ConnectionState
<1>2. Harmless(cs, GetOrCreate(cs)) /\ GetOrCreate(cs) \in ConnectionState /\ GetOrCreate(cs).entry # "absent"
  <2>1. GetOrCreate(cs) \in ConnectionState
    BY Mutators DEF Statuses
  <2>. QED
    BY <1>1, <2>1 DEF Harmless, GetOrCreate, NoEntry
<1>3. ASSUME NEW x \in ConnectionState
      PROVE  SetStatus(x, "ready").status = "ready" /\ SetStatus(x, "ready").ban = 0
             /\ SetStatus(x, "ready").entry = x.entry
  BY DEF SetStatus, ConnectionState
<1>4. Harmless(cs, SetStatus(cs, "ready")) /\ Harmless(cs, SetStatus(GetOrCreate(cs), "ready"))
  BY <1>2, <1>3 DEF Harmless
<1>5. Harmless(cs, ResetBanCount(cs))
  BY DEF Harmless, ResetBanCount, ConnectionState
<1>6. Harmless(cs, RecordSuccess(GetOrCreate(cs)))
  BY <1>2, <1>3 DEF Harmless, RecordSuccess
<1>. QED
  BY <1>4, <1>5, <1>6 DEF Harmless

\* A step that disables nothing, does not disturb what is settled, and in which
\* no handler enters or leaves the places the invariant speaks of.
LEMMA QuietStep ==
  ASSUME TypeOK, PersistInv, UNCHANGED refresh, lost \subseteq lost',
         \A c \in Conn : Harmless(mem[c], mem'[c]),
         \A c \in Conn : SettlesInactive(c) => SettlesInactive(c)',
         \A r \in Request : \/ req'[r] = req[r]
                            \/ /\ req[r].pc \notin {"persist", "enqueue"}
                               /\ req'[r].pc \notin {"persist", "enqueue", "disable"}
  PROVE  PersistInv'
<1>1. \A r \in Request : req[r].pc \notin {"idle", "pick"} => req[r].conn \in Conn
  BY DEF TypeOK
<1>2. NoRefresh'
  BY DEF PersistInv, NoRefresh
<1>3. AbsentIsClean'
  BY DEF AbsentIsClean, Harmless
<1>4. EnablingIsSeen'
  BY <1>1 DEF PersistInv, EnablingIsSeen, Harmless
<1>5. StrikeIsQueued'
  BY <1>1 DEF PersistInv, StrikeIsQueued
<1>6. DisabledSettles'
  <2>. SUFFICES ASSUME NEW c \in Conn, c \notin lost', mem'[c].status = "disabled", ~Busy(c)'
                PROVE  SettlesInactive(c)'
    BY DEF DisabledSettles
  <2>1. c \notin lost /\ mem[c].status = "disabled"
    BY DEF Harmless
  <2>2. ~Busy(c)
    BY DEF Busy
  <2>. QED
    BY <2>1, <2>2 DEF PersistInv, DisabledSettles
<1>. QED
  BY <1>2, <1>3, <1>4, <1>5, <1>6 DEF PersistInv

LEMMA InitPersist == Init => PersistInv
<1>. SUFFICES ASSUME Init PROVE PersistInv
  OBVIOUS
<1>1. \A c \in Conn : mem[c] = [entry |-> "seeded", cooldown |-> 0, ban |-> 0, status |-> "ready"]
  BY DEF Init, Seed, Healable
<1>2. \A r \in Request : req[r].pc = "idle"
  BY DEF Init, Idle
<1>. QED
  BY <1>1, <1>2 DEF Init, PersistInv, NoRefresh, AbsentIsClean, EnablingIsSeen, StrikeIsQueued, DisabledSettles

LEMMA StepPersist == ASSUME OneAtATime PROVE TypeOK /\ RowInv /\ PersistInv /\ [Next]_vars => PersistInv'
<1>. SUFFICES ASSUME TypeOK, RowInv, PersistInv, [Next]_vars PROVE PersistInv'
  OBVIOUS
<1>a. RequestsOK /\ QueueOK /\ row \in [Conn -> Row] /\ mem \in [Conn -> ConnectionState] /\ now \in Nat
  BY DEF TypeOK, RequestsOK, QueueOK
<1>b. \A c \in Conn : /\ mem[c] \in ConnectionState
                      /\ mem[c].entry = "absent" => mem[c].status # "disabled" /\ mem[c].ban = 0
  BY <1>a DEF PersistInv, AbsentIsClean
<1>c. \A c \in Conn : /\ Harmless(mem[c], mem[c])
                      /\ Harmless(mem[c], SetStatus(mem[c], "ready"))
                      /\ Harmless(mem[c], SetStatus(GetOrCreate(mem[c]), "ready"))
                      /\ Harmless(mem[c], ResetBanCount(mem[c]))
                      /\ Harmless(mem[c], RecordSuccess(GetOrCreate(mem[c])))
  BY <1>b, HarmlessMutators
<1>d. UNCHANGED mem => \A c \in Conn : Harmless(mem[c], mem'[c])
  BY <1>c
<1>e. UNCHANGED <<row, queue>> => \A c \in Conn : SettlesInactive(c) => SettlesInactive(c)'
  BY DEF SettlesInactive
<1>f. ASSUME NEW w \in Writes, w.kind # "cooldown", Enqueue(w), UNCHANGED row
      PROVE  lost \subseteq lost' /\ \A c \in Conn : SettlesInactive(c) => SettlesInactive(c)'
  <2>1. \A c \in Conn : ~Enables(w, c)
    BY <1>f DEF Enables
  <2>2. \A c \in Conn : SettlesInactive(c) => SettlesInactive(c)'
    BY <1>a, <1>f, <2>1, SettlesBehind
  <2>. QED
    BY <1>f, <2>2 DEF Enqueue
<1>g. \A r \in Request : req[r] \in Requests /\ (req[r].pc \notin {"idle", "pick"} => req[r].conn \in Conn)
                         /\ (req[r].pc \in Failing => req[r].det \in Detection)
  BY <1>a DEF RequestsOK
<1>h. \A r1, r2 \in Request : r1 = r2
  BY DEF OneAtATime
<1>i. ASSUME NEW r \in Request, NEW x, req' = [req EXCEPT ![r] = x],
             req[r].pc \notin {"persist", "enqueue"}, x.pc \notin {"persist", "enqueue", "disable"}
      PROVE  \A q \in Request : \/ req'[q] = req[q]
                                \/ /\ req[q].pc \notin {"persist", "enqueue"}
                                   /\ req'[q].pc \notin {"persist", "enqueue", "disable"}
  BY <1>a, <1>i DEF RequestsOK
<1>j. ASSUME NEW r \in Request, NEW pc, Goto(r, pc),
             req[r].pc \notin {"persist", "enqueue"}, pc \notin {"persist", "enqueue", "disable"}
      PROVE  \A q \in Request : \/ req'[q] = req[q]
                                \/ /\ req[q].pc \notin {"persist", "enqueue"}
                                   /\ req'[q].pc \notin {"persist", "enqueue", "disable"}
  BY <1>a, <1>j DEF RequestsOK, Requests, Goto
<1>1. ASSUME NEW r \in Request, Start(r) PROVE PersistInv'
  <2>1. \A m \in Model : Attempt(m, 1, NoConn).pc = "pick"
    BY Attempts, ConnHealthAssumption
  <2>. QED
    BY <1>1, <1>d, <1>e, <1>i, <2>1, QuietStep DEF Start
<1>2. ASSUME NEW r \in Request, Route(r) PROVE PersistInv'
  <2>1. ASSUME NEW c \in Conn, Consider(r, c) PROVE PersistInv'
    <3>1. Rejected(req[r], c).pc = "pick"
      BY <1>g, Rejections
    <3>2. \A pc \in {"heal", "check"} : Considering(req[r], c, pc).pc = pc
      BY <1>g, Considerations
    <3>3. \/ req' = [req EXCEPT ![r] = Rejected(req[r], c)]
          \/ \E pc \in {"heal", "check"} : req' = [req EXCEPT ![r] = Considering(req[r], c, pc)]
      BY <2>1 DEF Consider
    <3>4. \A q \in Request : \/ req'[q] = req[q]
                             \/ /\ req[q].pc \notin {"persist", "enqueue"}
                                /\ req'[q].pc \notin {"persist", "enqueue", "disable"}
      BY <1>i, <2>1, <3>1, <3>2, <3>3 DEF Consider
    <3>. QED
      BY <2>1, <1>d, <1>e, <3>4, QuietStep DEF Consider
  <2>2. CASE Heal(r)
    <3>1. \A c \in Conn : Harmless(mem[c], mem'[c])
      BY <1>a, <1>c, <2>2 DEF Heal
    <3>. QED
      BY <2>2, <1>e, <1>j, <3>1, QuietStep DEF Heal
  <2>3. CASE Check(r)
    <3>0. req[r].conn \in Conn
      BY <1>g, <2>3 DEF Check
    <3>1. Rejected(req[r], req[r].conn).pc = "pick"
      BY <1>g, <3>0, Rejections
    <3>2. Goto(r, "inflight") \/ req' = [req EXCEPT ![r] = Rejected(req[r], req[r].conn)]
      BY <2>3 DEF Check
    <3>. QED
      BY <2>3, <1>d, <1>e, <1>i, <1>j, <3>1, <3>2, QuietStep DEF Check
  <2>4. CASE NextPass(r)
    <3>1. Passed(req[r]).pc \in {"idle", "pick"}
      BY <1>g, <2>4, Passes DEF NextPass
    <3>. QED
      BY <2>4, <1>d, <1>e, <1>i, <3>1, QuietStep DEF NextPass
  <2>. QED
    BY <1>2, <2>1, <2>2, <2>3, <2>4 DEF Route
<1>3. ASSUME NEW r \in Request, Handle(r) PROVE PersistInv'
  <2>c. PICK c : c = req[r].conn
    OBVIOUS
  <2>0. \A q \in Request : q = r
    BY <1>h
  <2>a. Failover(req[r]).pc \in {"idle", "pick"}
    BY <1>g, Failovers
  <2>1. CASE ResetBan(r)
    <3>1. \A d \in Conn : Harmless(mem[d], mem'[d])
      BY <1>a, <1>c, <2>1 DEF ResetBan
    <3>. QED
      BY <2>1, <1>e, <1>j, <3>1, QuietStep DEF ResetBan
  <2>2. CASE EnqueueResetBan(r)
    <3>1. [kind |-> "resetBan", conn |-> c] \in Writes
      BY <2>c, <1>g, <2>2, WriteTypes DEF EnqueueResetBan
    <3>. QED
      BY <2>c, <2>2, <1>d, <1>f, <1>j, <3>1, QuietStep DEF EnqueueResetBan
  <2>3. CASE PersistSuccess(r)
    <3>1. \A d \in Conn : Harmless(mem[d], mem'[d])
      BY <1>a, <1>c, <2>3 DEF PersistSuccess
    <3>. QED
      BY <2>3, <1>e, <1>j, <3>1, QuietStep DEF PersistSuccess
  <2>4. CASE EnqueueSuccess(r)
    <3>1. [kind |-> "success", conn |-> c, at |-> now] \in Writes
      BY <2>c, <1>a, <1>g, <2>4, WriteTypes DEF EnqueueSuccess
    <3>. QED
      BY <2>c, <2>4, <1>d, <1>f, <1>j, <3>1, QuietStep DEF EnqueueSuccess
  <2>5. CASE SuccessRecorded(r)
    <3>1. \A d \in Conn : Harmless(mem[d], mem'[d])
      BY <1>a, <1>c, <2>5 DEF SuccessRecorded
    <3>. QED
      BY <2>5, <1>e, <1>j, <3>1, QuietStep DEF SuccessRecorded
  <2>6. CASE Finish(r)
    <3>1. Idle.pc = "idle"
      BY Idles
    <3>. QED
      BY <2>6, <1>d, <1>e, <1>i, <3>1, QuietStep DEF Finish
  <2>7. ASSUME NEW category \in Failures, Fail(r, category) PROVE PersistInv'
    <3>. DEFINE det == DetectError(category, now)
    <3>0. det \in Detection
      BY <1>a, ConnHealthAssumption, Detections
    <3>1. /\ mem' = [mem EXCEPT ![c] = RecordFailure(GetOrCreate(mem[c]), det)]
          /\ req' = [req EXCEPT ![r] = Failed(req[r], det)]
          /\ UNCHANGED <<row, queue, lost, refresh>>
          /\ c \in Conn
      BY <2>c, <1>g, <2>7 DEF Fail
    <3>. HIDE DEF det
    <3>2. Failed(req[r], det).pc = "persist" /\ Failed(req[r], det).conn = c
      BY <2>c, <1>g, <3>0, FailedRecords
    <3>3. RecordFailure(GetOrCreate(mem[c]), det).entry # "absent"
      BY <1>a, <3>1 DEF RecordFailure, GetOrCreate, NoEntry, SetStatus, SetDisabledUntil, SetQuotaCooldown,
                        SetCooldown, ConnectionState, Entries
    <3>4. req'[r].pc = "persist" /\ Busy(c)'
      BY <1>a, <3>1, <3>2 DEF Busy, RequestsOK
    <3>5. \A d \in Conn \ {c} : mem'[d] = mem[d] /\ ~Busy(d)
      BY <1>a, <2>0, <2>7, <3>1 DEF Busy, Fail
    <3>6. NoRefresh' /\ EnablingIsSeen' /\ StrikeIsQueued'
      BY <2>0, <3>1, <3>4 DEF PersistInv, NoRefresh, EnablingIsSeen, StrikeIsQueued
    <3>7. AbsentIsClean'
      BY <1>a, <1>b, <3>1, <3>3, <3>5 DEF AbsentIsClean
    <3>8. DisabledSettles'
      BY <1>e, <3>1, <3>4, <3>5 DEF PersistInv, DisabledSettles
    <3>. QED
      BY <3>6, <3>7, <3>8 DEF PersistInv
  <2>8. CASE PersistCooldown(r)
    <3>1. /\ mem' = [mem EXCEPT ![c] = IF req[r].det.status = "quota_exhausted"
                        THEN IF mem[c].entry = "absent" THEN mem[c] ELSE SetQuotaCooldown(mem[c], req[r].det.until)
                        ELSE SetStatus(GetOrCreate(mem[c]), req[r].det.status)]
          /\ Goto(r, "enqueue")
          /\ UNCHANGED <<row, queue, lost, refresh>>
          /\ c \in Conn
      BY <2>c, <1>g, <2>8 DEF PersistCooldown
    <3>2. req'[r].pc = "enqueue" /\ req'[r].conn = c /\ req'[r].det = req[r].det
      BY <2>c, <1>a, <1>g, <3>1 DEF Goto, RequestsOK, Requests
    <3>3. /\ mem'[c].entry = "absent" => mem'[c].status # "disabled" /\ mem'[c].ban = 0
          /\ req[r].det.status # "disabled" => mem'[c].status # "disabled"
      <4>1. mem[c] \in ConnectionState
        BY <1>a, <3>1
      <4>2. CASE req[r].det.status = "quota_exhausted"
        BY <1>a, <1>b, <3>1, <4>1, <4>2 DEF SetQuotaCooldown, ConnectionState
      <4>3. CASE req[r].det.status # "quota_exhausted"
        <5>1. GetOrCreate(mem[c]) \in ConnectionState /\ GetOrCreate(mem[c]).entry # "absent"
          BY <4>1, Mutators DEF GetOrCreate, NoEntry, Statuses
        <5>2. /\ SetStatus(GetOrCreate(mem[c]), req[r].det.status).entry # "absent"
              /\ SetStatus(GetOrCreate(mem[c]), req[r].det.status).status = req[r].det.status
          BY <5>1 DEF SetStatus, ConnectionState
        <5>. QED
          BY <1>a, <3>1, <4>3, <5>2
      <4>. QED
        BY <4>2, <4>3
    <3>4. \A d \in Conn \ {c} : mem'[d] = mem[d] /\ ~Busy(d)
      BY <2>c, <1>a, <2>0, <3>1 DEF Busy
    <3>5. Busy(c)'
      BY <3>2 DEF Busy
    <3>6. NoRefresh' /\ StrikeIsQueued'
      BY <2>0, <3>1, <3>2 DEF PersistInv, NoRefresh, StrikeIsQueued
    <3>7. EnablingIsSeen'
      BY <2>0, <3>2, <3>3 DEF EnablingIsSeen
    <3>8. AbsentIsClean'
      BY <1>b, <3>3, <3>4 DEF AbsentIsClean
    <3>9. DisabledSettles'
      BY <1>e, <3>1, <3>4, <3>5 DEF PersistInv, DisabledSettles
    <3>. QED
      BY <3>6, <3>7, <3>8, <3>9 DEF PersistInv
  <2>9. CASE EnqueueCooldown(r)
    <3>. DEFINE w == [kind |-> "cooldown", conn |-> c, status |-> req[r].det.status, until |-> req[r].det.until]
    <3>1. /\ Enqueue(w)
          /\ Goto(r, "strike")
          /\ UNCHANGED <<mem, row, refresh>>
          /\ req[r].pc = "enqueue"
      BY <2>c, <2>9 DEF EnqueueCooldown
    <3>2. c \in Conn /\ req[r].det.status \in Statuses /\ req[r].det.until \in Nat
      BY <2>c, <1>g, <3>1 DEF Failing, Detection
    <3>3. w \in Writes /\ w.conn = c /\ w.kind = "cooldown" /\ w.status = req[r].det.status
      BY <3>2, WriteTypes
    <3>4. req'[r].pc = "strike"
      BY <1>a, <1>g, <3>1 DEF Goto, RequestsOK, Requests
    <3>5. req[r].det.status # "disabled" => mem[c].status # "disabled"
      BY <2>c, <3>1 DEF PersistInv, EnablingIsSeen
    <3>6. \A d \in Conn \ {c} : ~Busy(d)
      BY <2>c, <2>0 DEF Busy
    <3>. HIDE DEF w
    <3>7. NoRefresh' /\ EnablingIsSeen' /\ StrikeIsQueued' /\ AbsentIsClean'
      BY <2>0, <3>1, <3>4 DEF PersistInv, NoRefresh, EnablingIsSeen, StrikeIsQueued, AbsentIsClean
    <3>8. DisabledSettles'
      <4>. SUFFICES ASSUME NEW d \in Conn, d \notin lost', mem'[d].status = "disabled"
                    PROVE  SettlesInactive(d)'
        BY DEF DisabledSettles
      <4>1. CASE d = c
        <5>1. Disables(w, c)
          BY <3>1, <3>3, <3>5, <4>1 DEF Disables
        <5>. QED
          BY <1>a, <3>1, <3>2, <3>3, <4>1, <5>1, SettlesLast
      <4>2. CASE d # c
        <5>1. SettlesInactive(d)
          BY <3>1, <3>6, <4>2 DEF PersistInv, DisabledSettles, Enqueue
        <5>2. ~Enables(w, d)
          BY <3>3, <4>2 DEF Enables
        <5>. QED
          BY <1>a, <3>1, <3>3, <5>1, <5>2, SettlesBehind
      <4>. QED
        BY <4>1, <4>2
    <3>. QED
      BY <3>7, <3>8 DEF PersistInv
  <2>10. CASE CheckAutoDisable(r)
    <3>. DEFINE w == [kind |-> "ban", conn |-> c, ban |-> mem[c].ban]
    <3>1. c \in Conn /\ mem[c].ban \in 0..BanThreshold /\ req[r].pc = "strike" /\ UNCHANGED <<mem, row, refresh>>
      BY <2>c, <1>a, <1>g, <2>10 DEF CheckAutoDisable, ConnectionState
    <3>2. w \in Writes /\ w.conn = c /\ w.kind = "ban" /\ w.ban = mem[c].ban
      BY <3>1, WriteTypes
    <3>3. Enqueue(w) \/ (mem[c].entry = "absent" /\ UNCHANGED <<queue, lost>>)
      BY <2>c, <2>10 DEF CheckAutoDisable
    <3>4. lost \subseteq lost' /\ \A d \in Conn : SettlesInactive(d) => SettlesInactive(d)'
      BY <1>e, <1>f, <3>1, <3>2, <3>3
    <3>5. CASE mem[c].ban >= BanThreshold
      <4>1. Goto(r, "disable")
        BY <2>c, <2>10, <3>5 DEF CheckAutoDisable
      <4>2. req'[r].pc = "disable" /\ req'[r].conn = c
        BY <2>c, <1>a, <1>g, <4>1 DEF Goto, RequestsOK, Requests
      <4>3. mem[c].entry # "absent"
        BY <1>b, <3>1, <3>5, ConnStateAssumption
      <4>4. Disables(w, c)
        BY <3>2, <3>5 DEF Disables
      <4>5. \A d \in Conn : ~Busy(d)
        BY <2>0, <3>1 DEF Busy
      <4>. HIDE DEF w
      <4>6. c \notin lost' => SettlesInactive(c)'
        BY <1>a, <3>1, <3>2, <3>3, <4>3, <4>4, SettlesLast
      <4>7. NoRefresh' /\ AbsentIsClean' /\ EnablingIsSeen' /\ StrikeIsQueued'
        BY <2>0, <3>1, <4>2, <4>6 DEF PersistInv, NoRefresh, AbsentIsClean, EnablingIsSeen, StrikeIsQueued
      <4>8. DisabledSettles'
        BY <3>1, <3>4, <4>5 DEF PersistInv, DisabledSettles
      <4>. QED
        BY <4>7, <4>8 DEF PersistInv
    <3>6. CASE ~(mem[c].ban >= BanThreshold)
      <4>1. req' = [req EXCEPT ![r] = Failover(req[r])]
        BY <2>c, <2>10, <3>6 DEF CheckAutoDisable
      <4>. QED
        BY <1>d, <1>i, <2>a, <3>1, <3>4, <4>1, QuietStep
    <3>. QED
      BY <3>5, <3>6
  <2>11. CASE AutoDisable(r)
    <3>1. /\ req[r].pc = "disable"
          /\ mem' = [mem EXCEPT ![c] = SetStatus(GetOrCreate(mem[c]), "disabled")]
          /\ req' = [req EXCEPT ![r] = Failover(req[r])]
          /\ UNCHANGED <<row, queue, lost, refresh>>
          /\ c \in Conn
      BY <2>c, <1>g, <2>11 DEF AutoDisable
    <3>2. c \notin lost => SettlesInactive(c)
      BY <2>c, <3>1 DEF PersistInv, StrikeIsQueued
    <3>3. SetStatus(GetOrCreate(mem[c]), "disabled").entry # "absent"
      BY <1>a, <3>1 DEF SetStatus, GetOrCreate, NoEntry, ConnectionState, Entries
    <3>4. req'[r].pc \in {"idle", "pick"}
      BY <1>a, <2>a, <3>1 DEF RequestsOK
    <3>5. \A d \in Conn : ~Busy(d)
      BY <2>0, <3>1 DEF Busy
    <3>6. NoRefresh' /\ EnablingIsSeen' /\ StrikeIsQueued'
      BY <2>0, <3>1, <3>4 DEF PersistInv, NoRefresh, EnablingIsSeen, StrikeIsQueued
    <3>7. AbsentIsClean'
      BY <1>a, <1>b, <3>1, <3>3 DEF AbsentIsClean
    <3>8. DisabledSettles'
      BY <1>a, <1>e, <3>1, <3>2, <3>5 DEF PersistInv, DisabledSettles
    <3>. QED
      BY <3>6, <3>7, <3>8 DEF PersistInv
  <2>. QED
    BY <1>3, <2>1, <2>2, <2>3, <2>4, <2>5, <2>6, <2>7, <2>8, <2>9, <2>10, <2>11 DEF Handle
<1>4. ASSUME NEW c \in Conn, Spot(c) PROVE PersistInv'
  <2>1. CASE SpotEntry(c)
    BY <1>d, <1>e, <2>1, QuietStep DEF SpotEntry
  <2>2. CASE RecoverRow(c)
    <3>1. [kind |-> "recover", conn |-> c] \in Writes
      BY WriteTypes
    <3>. QED
      BY <1>d, <1>f, <2>2, <3>1, QuietStep DEF RecoverRow
  <2>. QED
    BY <1>4, <2>1, <2>2 DEF Spot
<1>5. ASSUME NEW c \in Conn, Refresh(c) PROVE PersistInv'
  <2>1. ~OAuth /\ refresh[c] = "no"
    BY DEF OneAtATime, PersistInv, NoRefresh
  <2>. QED
    BY <1>5, <2>1 DEF Refresh, StartRefresh, Refreshed, RefreshFailed, RefreshRecorded
<1>6. CASE Recover
  <2>1. \A c \in Conn : Harmless(mem[c], mem'[c])
    BY <1>a, <1>c, <1>6 DEF Recover
  <2>. QED
    BY <1>e, <1>6, <2>1, QuietStep DEF Recover
<1>7. CASE Drain
  <2>1. \A c \in Conn : SettlesInactive(c) => SettlesInactive(c)'
    BY <1>a, <1>7, SettlesDrained
  <2>. QED
    BY <1>d, <1>7, <2>1, QuietStep DEF Drain
<1>8. CASE Restart
  <2>1. \A r \in Request : req'[r].pc = "idle"
    BY <1>8, Idles DEF Restart
  <2>2. ASSUME NEW c \in Conn
        PROVE  /\ mem'[c].status # "disabled"
               /\ mem'[c].entry = "absent" => mem'[c].ban = 0
    <3>1. Coherent(row[c]) /\ row[c] \in Row
      BY <1>a, RowInvParts
    <3>2. /\ Seed(row[c]).status # "disabled"
          /\ Seed(row[c]).entry = "absent" => Seed(row[c]).ban = 0
      BY <3>1 DEF Seed, Coherent, NoEntry, SetQuotaCooldown, SetCooldown, Row
    <3>. QED
      BY <1>8, <3>2 DEF Restart
  <2>3. NoRefresh' /\ AbsentIsClean' /\ EnablingIsSeen' /\ StrikeIsQueued' /\ DisabledSettles'
    BY <1>8, <2>1, <2>2 DEF Restart, NoRefresh, AbsentIsClean, EnablingIsSeen, StrikeIsQueued, DisabledSettles
  <2>. QED
    BY <2>3 DEF PersistInv
<1>9. CASE Tick
  BY <1>d, <1>e, <1>9, QuietStep DEF Tick
<1>10. CASE UNCHANGED vars
  BY <1>d, <1>e, <1>10, QuietStep DEF vars
<1>11. CASE SpotRows
  BY <1>d, <1>e, <1>11, QuietStep DEF SpotRows
<1>. QED
  BY <1>1, <1>2, <1>3, <1>4, <1>5, <1>6, <1>7, <1>8, <1>9, <1>10, <1>11 DEF Next, Work

\* While one request runs at a time and no token is refreshed beside it, a
\* connection that memory holds disabled is inactive in its row once the failure
\* handler and the queue are done with it, so that a restart does not resurrect
\* it - whatever the schedulers, the drain goroutine, drops and restarts do.
THEOREM DisabledPersists == ASSUME OneAtATime PROVE Spec => []DisabledIsPersisted
<1>1. TypeOK /\ PersistInv => DisabledIsPersisted
  <2>. SUFFICES ASSUME PersistInv, NEW c \in Conn, c \notin lost, Settled(c), mem[c].status = "disabled"
                PROVE  ~row[c].active
    BY DEF DisabledIsPersisted
  <2>1. ~Busy(c)
    BY DEF Settled, Busy
  <2>2. SettlesInactive(c)
    BY <2>1 DEF PersistInv, DisabledSettles
  <2>3. \A i \in DOMAIN queue : ~Disables(queue[i], c)
    BY DEF Settled, Disables
  <2>. QED
    BY <2>2, <2>3 DEF SettlesInactive
<1>2. Spec => []RowInv
  BY InitRow, StepRow, TypeCorrect, PTL DEF Spec
<1>3. TypeOK /\ RowInv /\ PersistInv /\ [Next]_vars => PersistInv'
  BY StepPersist
<1>. QED
  BY InitPersist, <1>1, <1>2, <1>3, TypeCorrect, PTL DEF Spec

-----------------------------------------------------------------------------
(* The whole inductive invariant, as the run checks it. *)

\* What ConnHealthInv.IInv says of types, rows and the queue is preserved together,
\* while one request runs at a time and no token is refreshed beside it.
THEOREM InvariantHolds == ASSUME OneAtATime PROVE Spec => []IInv
<1>1. Init => IInv
  BY InitTypes, InitRow, InitPersist DEF IInv
<1>2. IInv /\ [Next]_vars => IInv'
  BY StepTypes, StepRow, StepPersist DEF IInv
<1>. QED
  BY <1>1, <1>2, PTL DEF Spec

-----------------------------------------------------------------------------
(* Writers past the queue. *)

LEMMA DirectTypes == DirectTypeOK /\ [DirectNext]_directVars => DirectTypeOK'
<1>. SUFFICES ASSUME DirectTypeOK, [DirectNext]_directVars PROVE DirectTypeOK'
  OBVIOUS
<1>a. TypeOK /\ admin \in Admins /\ fetch \in Fetches
  BY DEF DirectTypeOK
<1>b. /\ now \in Nat
      /\ mem \in [Conn -> ConnectionState]
      /\ marks \in [Conn -> [model: [Model -> Nat], conn: Nat]]
      /\ row \in [Conn -> Row]
      /\ \A c \in Conn : mem[c] \in ConnectionState /\ row[c] \in Row
  BY <1>a DEF TypeOK
<1>c. NoAdmin \in Admins /\ NoFetch \in Fetches
  BY DEF Admins, Fetches
<1>d. {"ready", "disabled", "quota_exhausted"} \subseteq Statuses
  BY DEF Statuses
<1>e. \A c \in Conn, s \in Statuses :
        SetStatus(mem[c], s) \in ConnectionState /\ SetStatus(GetOrCreate(mem[c]), s) \in ConnectionState
  <2>1. 0 \in Nat
    OBVIOUS
  <2>2. \A c \in Conn : GetOrCreate(mem[c]) \in ConnectionState
    BY <1>b, <1>d, <2>1, Mutators
  <2>. QED
    BY <1>b, <2>1, <2>2, Mutators
<1>f. /\ (row \in [Conn -> Row])'
      /\ (mem \in [Conn -> ConnectionState])'
      /\ (marks \in [Conn -> [model: [Model -> Nat], conn: Nat]])'
      /\ UNCHANGED <<now, queue, lost, due, recovering, refresh, req>>
      => TypeOK'
  BY <1>a DEF TypeOK
<1>g. \A c \in Conn, t \in Nat : [marks EXCEPT ![c].conn = t] \in [Conn -> [model: [Model -> Nat], conn: Nat]]
  BY <1>b
<1>1. CASE (Work \/ Tick) /\ UNCHANGED <<admin, fetch>>
  <2>1. TypeOK'
    BY <1>a, <1>1, StepTypes DEF Next
  <2>. QED
    BY <1>a, <1>1, <2>1 DEF DirectTypeOK
<1>2. CASE Restart /\ admin' = NoAdmin /\ fetch' = NoFetch
  <2>1. TypeOK'
    BY <1>a, <1>2, StepTypes DEF Next
  <2>. QED
    BY <1>c, <1>2, <2>1 DEF DirectTypeOK
<1>3. ASSUME NEW c \in Conn, NEW rw \in Row, NEW act \in {"sync", "syncAndClear"}, NEW s \in Statuses,
             WriteRow(c, rw, act, s)
      PROVE  DirectTypeOK'
  <2>1. (row \in [Conn -> Row])'
    BY <1>b, <1>3 DEF WriteRow
  <2>2. admin' \in Admins
    BY <1>3 DEF WriteRow, Admins
  <2>. QED
    BY <1>a, <1>b, <1>f, <1>3, <2>1, <2>2 DEF WriteRow, DirectTypeOK
<1>4. ASSUME NEW c \in Conn, Administer(c) PROVE DirectTypeOK'
  <2>1. ASSUME NEW active \in BOOLEAN, SetActive(c, active) PROVE DirectTypeOK'
    <3>. DEFINE status == IF active THEN "ready" ELSE "disabled"
    <3>1. status \in Statuses /\ [row[c] EXCEPT !.active = active, !.status = status] \in Row
      BY <1>b, <1>d DEF Row
    <3>2. WriteRow(c, [row[c] EXCEPT !.active = active, !.status = status], "sync", status)
      BY <2>1 DEF SetActive
    <3>. QED
      BY <1>3, <3>1, <3>2
  <2>2. ASSUME NEW status \in {"ready", "disabled"}, PutStatus(c, status) PROVE DirectTypeOK'
    <3>1. status \in Statuses /\ [row[c] EXCEPT !.status = status] \in Row
      BY <1>b, <1>d DEF Row
    <3>. QED
      BY <1>3, <2>2, <3>1 DEF PutStatus
  <2>3. CASE Reset(c)
    <3>1. [row[c] EXCEPT !.status = "ready", !.cooldown = 0] \in Row
      BY <1>b, <1>d DEF Row
    <3>. QED
      BY <1>3, <1>d, <2>3, <3>1 DEF Reset
  <2>4. ASSUME NEW category \in Failures, TestFailed(c, category) PROVE DirectTypeOK'
    <3>. DEFINE det == DetectError(category, now)
    <3>1. det \in Detection /\ det.status \in Statuses /\ GetOrCreate(mem[c]) \in ConnectionState
      <4>1. category \in Categories
        BY ConnHealthAssumption
      <4>2. det \in Detection
        BY <1>b, <4>1, Detections
      <4>3. GetOrCreate(mem[c]) \in ConnectionState
        BY <1>b, <1>d, Mutators, 0 \in Nat
      <4>. QED
        BY <4>2, <4>3 DEF Detection
    <3>2. RecordFailure(GetOrCreate(mem[c]), det) \in ConnectionState
      BY <3>1, Failure
    <3>3. SetStatus(RecordFailure(GetOrCreate(mem[c]), det), det.status) \in ConnectionState
      BY <3>1, <3>2, Mutators, 0 \in Nat
    <3>4. /\ mem' = [mem EXCEPT ![c] = SetStatus(RecordFailure(GetOrCreate(@), det), det.status)]
          /\ admin' = [act |-> "test", conn |-> c, det |-> det]
          /\ UNCHANGED <<now, marks, row, queue, lost, due, recovering, refresh, req, fetch>>
      BY <2>4 DEF TestFailed
    <3>. HIDE DEF det
    <3>5. (mem \in [Conn -> ConnectionState])'
      BY <1>b, <3>3, <3>4
    <3>6. admin' \in Admins
      BY <3>1, <3>4 DEF Admins
    <3>. QED
      BY <1>a, <1>b, <1>f, <3>4, <3>5, <3>6 DEF DirectTypeOK
  <2>. QED
    BY <1>4, <2>1, <2>2, <2>3, <2>4 DEF Administer
<1>5. CASE Sync
  <2>1. admin.conn \in Conn /\ admin.status \in Statuses
    BY <1>a, <1>5 DEF Sync, Admins, NoAdmin
  <2>2. (mem \in [Conn -> ConnectionState])' /\ (marks \in [Conn -> [model: [Model -> Nat], conn: Nat]])'
    BY <1>b, <1>e, <1>g, <1>5, <2>1 DEF Sync
  <2>. QED
    BY <1>a, <1>b, <1>c, <1>f, <1>5, <2>2 DEF Sync, DirectTypeOK
<1>6. CASE TestWritten
  <2>1. admin.conn \in Conn /\ admin.det \in Detection
    BY <1>a, <1>6 DEF TestWritten, Admins, NoAdmin
  <2>2. admin.det.status \in Statuses /\ admin.det.until \in Nat
    BY <2>1 DEF Detection
  <2>3. (row \in [Conn -> Row])'
    <3>1. TestedRow(row[admin.conn], admin.det) \in Row
      BY <1>b, <2>1, <2>2 DEF TestedRow, Row
    <3>. QED
      BY <1>b, <1>6, <2>1, <3>1 DEF TestWritten
  <2>4. (marks \in [Conn -> [model: [Model -> Nat], conn: Nat]])'
    BY <1>b, <1>g, <1>6, <2>1, <2>2 DEF TestWritten
  <2>. QED
    BY <1>a, <1>b, <1>c, <1>f, <1>6, <2>3, <2>4 DEF TestWritten, DirectTypeOK
<1>7. ASSUME NEW c \in Conn, NEW report \in Reports, ReadStatus(c, report) PROVE DirectTypeOK'
  <2>1. ReportedStatus[report] \in Statuses
    BY DirectAssumption DEF AllReports, ReportedStatus, Statuses
  <2>2. fetch' \in Fetches
    BY <1>7, <2>1 DEF ReadStatus, Fetches
  <2>3. TypeOK'
    BY <1>a, <1>7 DEF ReadStatus, vars, TypeOK
  <2>. QED
    BY <1>a, <1>7, <2>2, <2>3 DEF ReadStatus, DirectTypeOK
<1>8. CASE WriteStatus
  <2>1. fetch \in [act: {"write", "sync"}, conn: Conn, status: Statuses]
    BY <1>a, <1>8 DEF WriteStatus, Fetches, NoFetch
  <2>2. fetch' \in Fetches
    BY <1>8, <2>1 DEF WriteStatus, Fetches
  <2>3. (row \in [Conn -> Row])'
    <3>1. ReportedRow(row[fetch.conn], fetch.status) \in Row
      BY <1>b, <2>1 DEF ReportedRow, Row
    <3>. QED
      BY <1>b, <1>8, <2>1, <3>1 DEF WriteStatus
  <2>. QED
    BY <1>a, <1>b, <1>f, <1>8, <2>2, <2>3 DEF WriteStatus, DirectTypeOK
<1>9. CASE SyncStatus
  <2>1. fetch.conn \in Conn /\ fetch.status \in Statuses
    BY <1>a, <1>9 DEF SyncStatus, Fetches, NoFetch
  <2>2. (mem \in [Conn -> ConnectionState])' /\ (marks \in [Conn -> [model: [Model -> Nat], conn: Nat]])'
    BY <1>b, <1>e, <1>g, <1>9, <2>1 DEF SyncStatus
  <2>. QED
    BY <1>a, <1>b, <1>c, <1>f, <1>9, <2>2 DEF SyncStatus, DirectTypeOK
<1>10. CASE UNCHANGED directVars
  BY <1>a, <1>10, StepTypes DEF directVars, DirectTypeOK
<1>. QED
  BY <1>1, <1>2, <1>4, <1>5, <1>6, <1>7, <1>8, <1>9, <1>10 DEF DirectNext

\* Rows, memory and the calls in flight stay well typed also when administrators
\* and quota reports write rows past whatever the queue still holds for them.
THEOREM DirectTypeCorrect == DirectSpec => []DirectTypeOK
<1>1. DirectInit => DirectTypeOK
  BY InitTypes DEF DirectInit, DirectTypeOK, Admins, Fetches
<1>. QED
  BY <1>1, DirectTypes, PTL DEF DirectSpec

-----------------------------------------------------------------------------
(* Quota verdicts stand. *)

\* Requests that may run into a rate limit do not overlap.
LimitsComeAlone == "rate_limit" \in Failures => \A r, s \in Request : r = s

\* The request has been sent, and may fail yet.
Sent == {"inflight", "unbanned", "succeeded", "healed", "queued", "streaming"}

\* Until a verdict's horizon the mark of its model stands, which only another failure of
\* a request could bring forward - and none is on its way over this connection.
VerdictInv ==
  /\ quotaUntil \in [Conn -> [Model -> Nat]]
  /\ \A c \in Conn, m \in Model : quotaUntil[c][m] <= now \/ quotaUntil[c][m] <= marks[c].model[m]
  /\ "rate_limit" \in Failures =>
       \A r \in Request : req[r].pc \in Sent => quotaUntil[req[r].conn][req[r].model] <= now

\* No mark of a model changes.
ModelsMarked == \A c \in Conn : marks'[c].model = marks[c].model

\* The router lets the request pass.
LetThrough(r) ==
  /\ req[r].pc = "check" /\ Usable(r, req[r].conn)
  /\ req'[r].pc = "inflight" /\ req'[r].conn = req[r].conn /\ req'[r].model = req[r].model

\* A request counts as sent when it was so before, or the router lets it pass.
SentBefore ==
  \A r \in Request : req'[r].pc \in Sent =>
    \/ LetThrough(r)
    \/ req[r].pc \in Sent /\ req'[r].conn = req[r].conn /\ req'[r].model = req[r].model

\* The router passes requests on, and marks nothing.
LEMMA RouteSends ==
  ASSUME TypeOK, NEW s \in Request, Start(s) \/ Route(s)
  PROVE  SentBefore /\ ModelsMarked /\ now' = now
<1>1. req \in [Request -> Requests] BY DEF TypeOK
<1>2. ASSUME UNCHANGED <<now, marks>>, NEW rq, req' = [req EXCEPT ![s] = rq],
             \/ rq.pc \notin Sent
             \/ /\ req[s].pc = "check" /\ Usable(s, req[s].conn)
                /\ rq.pc = "inflight" /\ rq.conn = req[s].conn /\ rq.model = req[s].model
      PROVE  SentBefore /\ ModelsMarked /\ now' = now
  BY <1>1, <1>2 DEF SentBefore, ModelsMarked, LetThrough
<1>3. CASE Start(s)
  BY <1>2, <1>3 DEF Start, Attempt, Idle, Sent
<1>4. ASSUME NEW c \in Conn, Consider(s, c) PROVE SentBefore /\ ModelsMarked /\ now' = now
  <2>1. Rejected(req[s], c).pc \notin Sent
    BY <1>1 DEF Rejected, Sent, Requests
  <2>2. \A pc \in {"heal", "check"} : Considering(req[s], c, pc).pc \notin Sent
    BY <1>1 DEF Considering, Sent, Requests
  <2>. QED
    BY <1>1, <1>2, <1>4, <2>1, <2>2 DEF Consider
<1>5. CASE Heal(s)
  <2>1. req' = [req EXCEPT ![s] = [req[s] EXCEPT !.pc = "check"]] BY <1>1, <1>5 DEF Heal, Goto
  <2>. QED BY <1>1, <1>2, <1>5, <2>1 DEF Heal, Sent, Requests
<1>6. CASE Check(s)
  <2>1. CASE Usable(s, req[s].conn)
    <3>1. req' = [req EXCEPT ![s] = [req[s] EXCEPT !.pc = "inflight"]] BY <1>1, <1>6, <2>1 DEF Check, Goto
    <3>2. /\ [req[s] EXCEPT !.pc = "inflight"].pc = "inflight"
          /\ [req[s] EXCEPT !.pc = "inflight"].conn = req[s].conn
          /\ [req[s] EXCEPT !.pc = "inflight"].model = req[s].model
      BY <1>1 DEF Requests
    <3>. QED BY <1>2, <1>6, <2>1, <3>1, <3>2 DEF Check
  <2>2. CASE ~Usable(s, req[s].conn)
    <3>1. req' = [req EXCEPT ![s] = Rejected(req[s], req[s].conn)] BY <1>1, <1>6, <2>2 DEF Check
    <3>2. Rejected(req[s], req[s].conn).pc \notin Sent BY <1>1 DEF Rejected, Sent, Requests
    <3>. QED BY <1>2, <1>6, <3>1, <3>2 DEF Check
  <2>. QED BY <2>1, <2>2
<1>7. CASE NextPass(s)
  <2>1. req' = [req EXCEPT ![s] = Passed(req[s])] BY <1>1, <1>7 DEF NextPass
  <2>2. Passed(req[s]).pc \notin Sent
    BY <1>1, <1>7 DEF NextPass, Passed, Idle, Sent, Requests
  <2>. QED BY <1>2, <1>7, <2>1, <2>2 DEF NextPass
<1>. QED
  BY <1>3, <1>4, <1>5, <1>6, <1>7 DEF Route

\* A handler sends nothing, and only a limit or an empty quota marks a model.
LEMMA HandleSends ==
  ASSUME TypeOK, NEW s \in Request, Handle(s)
  PROVE  /\ SentBefore /\ now' = now
         /\ ModelsMarked \/ \E category \in Failures \cap {"rate_limit", "quota"} : Fail(s, category)
<1>1. req \in [Request -> Requests] BY DEF TypeOK
<1>2. ASSUME UNCHANGED now, NEW rq, req' = [req EXCEPT ![s] = rq],
             rq.pc \notin Sent \/ (req[s].pc \in Sent /\ rq.conn = req[s].conn /\ rq.model = req[s].model)
      PROVE  SentBefore /\ now' = now
  BY <1>1, <1>2 DEF SentBefore
<1>3. ASSUME UNCHANGED <<now, marks>>, NEW pc, Goto(s, pc), req[s].pc \in Sent \/ pc \notin Sent
      PROVE  SentBefore /\ ModelsMarked /\ now' = now
  <2>1. req' = [req EXCEPT ![s] = [req[s] EXCEPT !.pc = pc]] BY <1>1, <1>3 DEF Goto
  <2>2. /\ [req[s] EXCEPT !.pc = pc].pc = pc /\ [req[s] EXCEPT !.pc = pc].conn = req[s].conn
        /\ [req[s] EXCEPT !.pc = pc].model = req[s].model
    BY <1>1 DEF Requests
  <2>. QED BY <1>2, <1>3, <2>1, <2>2 DEF ModelsMarked
<1>4. Idle.pc \notin Sent /\ Failover(req[s]).pc \notin Sent
  BY DEF Idle, Failover, Attempt, Sent
<1>5. CASE ResetBan(s) BY <1>3, <1>5 DEF ResetBan, Sent
<1>6. CASE EnqueueResetBan(s) BY <1>3, <1>6 DEF EnqueueResetBan, Sent
<1>7. CASE PersistSuccess(s) BY <1>3, <1>7 DEF PersistSuccess, Sent
<1>8. CASE EnqueueSuccess(s) BY <1>3, <1>8 DEF EnqueueSuccess, Sent
<1>9. CASE SuccessRecorded(s) BY <1>3, <1>9 DEF SuccessRecorded, Sent
<1>10. CASE Finish(s) BY <1>2, <1>4, <1>10 DEF Finish, ModelsMarked
<1>11. ASSUME NEW category \in Failures, Fail(s, category)
       PROVE  SentBefore /\ now' = now /\ (ModelsMarked \/ category \in {"rate_limit", "quota"})
  <2>1. req' = [req EXCEPT ![s] = Failed(req[s], DetectError(category, now))] BY <1>1, <1>11 DEF Fail
  <2>2. Failed(req[s], DetectError(category, now)).pc \notin Sent BY <1>1 DEF Failed, Sent, Requests
  <2>3. category \in {"rate_limit", "quota"} \/ marks' = marks BY <1>11 DEF Fail
  <2>. QED BY <1>2, <1>11, <2>1, <2>2, <2>3 DEF Fail, ModelsMarked
<1>12. CASE PersistCooldown(s) BY <1>3, <1>12 DEF PersistCooldown, Sent
<1>13. CASE EnqueueCooldown(s) BY <1>3, <1>13 DEF EnqueueCooldown, Sent
<1>14. CASE CheckAutoDisable(s)
  <2>1. CASE Goto(s, "disable") BY <1>3, <1>14, <2>1 DEF CheckAutoDisable, Sent
  <2>2. CASE req' = [req EXCEPT ![s] = Failover(@)]
    BY <1>2, <1>4, <1>14, <2>2 DEF CheckAutoDisable, ModelsMarked
  <2>. QED BY <1>14, <2>1, <2>2 DEF CheckAutoDisable
<1>15. CASE AutoDisable(s) BY <1>2, <1>4, <1>15 DEF AutoDisable, ModelsMarked
<1>. QED
  BY <1>5, <1>6, <1>7, <1>8, <1>9, <1>10, <1>11, <1>12, <1>13, <1>14, <1>15 DEF Handle

\* Whatever else goes on touches no request and no mark of a model.
LEMMA StepSends ==
  ASSUME DirectTypeOK, [DirectNext]_directVars
  PROVE  /\ SentBefore /\ (now' = now \/ now' = now + 1)
         /\ \/ ModelsMarked
            \/ Restart
            \/ \E s \in Request, category \in Failures \cap {"rate_limit", "quota"} : Fail(s, category)
<1>1. /\ TypeOK /\ req \in [Request -> Requests] /\ marks \in [Conn -> [model: [Model -> Nat], conn: Nat]]
      BY DEF DirectTypeOK, TypeOK
<1>2. UNCHANGED req => SentBefore BY DEF SentBefore
<1>3. UNCHANGED marks => ModelsMarked BY DEF ModelsMarked
<1>4. \A c : marks' = [marks EXCEPT ![c].conn = 0] => ModelsMarked
  BY <1>1 DEF ModelsMarked
<1>5. CASE \E s \in Request : Start(s) \/ Route(s) \/ Handle(s)
  BY <1>1, <1>5, RouteSends, HandleSends
<1>6. CASE (\E c \in Conn : Spot(c) \/ Refresh(c)) \/ SpotRows \/ Recover \/ Drain \/ Tick
  <2>1. UNCHANGED req /\ (now' = now \/ now' = now + 1)
    BY <1>6 DEF Spot, SpotEntry, RecoverRow, Refresh, StartRefresh, Refreshed, RefreshFailed,
                RefreshRecorded, SpotRows, Recover, Drain, Tick
  <2>2. UNCHANGED marks \/ Recover
    BY <1>6 DEF Spot, SpotEntry, RecoverRow, Refresh, StartRefresh, Refreshed, RefreshFailed,
                RefreshRecorded, SpotRows, Drain, Tick
  <2>3. Recover => ModelsMarked BY <1>4 DEF Recover
  <2>. QED BY <1>2, <1>3, <2>1, <2>2, <2>3
<1>7. CASE Restart
  <2>1. \A r \in Request : req'[r].pc \notin Sent BY <1>7 DEF Restart, Idle, Sent
  <2>. QED BY <1>7, <2>1 DEF Restart, SentBefore
<1>8. CASE \E c \in Conn : Administer(c) \/ \E report \in Reports : ReadStatus(c, report)
  <2>1. UNCHANGED <<req, now, marks>>
    BY <1>8 DEF Administer, SetActive, PutStatus, Reset, WriteRow, TestFailed, ReadStatus, vars
  <2>. QED BY <1>2, <1>3, <2>1
<1>9. CASE Sync BY <1>2, <1>3, <1>4, <1>9 DEF Sync
<1>10. CASE TestWritten
  <2>1. ModelsMarked BY <1>1, <1>10 DEF TestWritten, ModelsMarked
  <2>. QED BY <1>2, <1>10, <2>1 DEF TestWritten
<1>11. CASE WriteStatus BY <1>2, <1>3, <1>11 DEF WriteStatus
<1>12. CASE SyncStatus BY <1>2, <1>3, <1>4, <1>12 DEF SyncStatus
<1>13. CASE UNCHANGED directVars BY <1>2, <1>3, <1>13 DEF directVars, vars
<1>. QED
  BY <1>5, <1>6, <1>7, <1>8, <1>9, <1>10, <1>11, <1>12, <1>13 DEF DirectNext, Work

\* Until its horizon is past, a verdict's mark stops the router.
LEMMA MarkStops ==
  ASSUME VerdictInv, TypeOK, NEW r \in Request, req[r].pc = "check", Usable(r, req[r].conn)
  PROVE  quotaUntil[req[r].conn][req[r].model] <= now
<1>1. /\ req[r].conn \in Conn /\ req[r].model \in Model /\ now \in Nat
      /\ marks[req[r].conn].model[req[r].model] \in Nat
  BY DEF TypeOK
<1>2. quotaUntil[req[r].conn][req[r].model] \in Nat BY <1>1 DEF VerdictInv
<1>. QED BY <1>1, <1>2 DEF VerdictInv, Usable, Exhausted

\* A failure that marks a model marks that of its own request and connection, a verdict
\* up to the verdict's horizon.
LEMMA Judged ==
  ASSUME TypeOK, NEW s \in Request, NEW category \in {"rate_limit", "quota"}, Fail(s, category)
  PROVE  /\ req[s].conn \in Conn /\ req[s].model \in Model
         /\ req[s].pc \in Sent /\ req'[s].pc = "persist"
         /\ category = "quota" => marks'[req[s].conn].model[req[s].model] = now + LongCooldown
         /\ \A c \in Conn, m \in Model : c # req[s].conn \/ m # req[s].model =>
              marks'[c].model[m] = marks[c].model[m]
<1>1. /\ req \in [Request -> Requests] /\ marks \in [Conn -> [model: [Model -> Nat], conn: Nat]]
      /\ req[s].pc \in {"inflight", "streaming"}
  BY DEF TypeOK, Fail
<1>2. req[s].conn \in Conn /\ req[s].model \in Model BY <1>1 DEF TypeOK
<1>3. DetectError("quota", now).until = now + LongCooldown BY DEF DetectError, CooldownOf
<1>4. marks' = [marks EXCEPT ![req[s].conn].model[req[s].model] = DetectError(category, now).until] BY DEF Fail
<1>5. req'[s].pc = "persist" BY <1>1 DEF Fail, Failed, Requests
<1>. QED BY <1>1, <1>2, <1>3, <1>4, <1>5 DEF Sent

\* One case per way for the horizon, the mark or a request to change.
LEMMA StepVerdict ==
  ASSUME LimitsComeAlone
  PROVE  DirectTypeOK /\ VerdictInv /\ [HistNext]_histVars => VerdictInv'
<1>. SUFFICES ASSUME DirectTypeOK, VerdictInv, [HistNext]_histVars PROVE VerdictInv'
  OBVIOUS
<1>1. /\ TypeOK /\ now \in Nat /\ now' \in Nat /\ now <= now' /\ LongCooldown \in Nat
      /\ [DirectNext]_directVars /\ TypeOK'
  <2>1. [DirectNext]_directVars BY DEF HistNext, histVars
  <2>2. now \in Nat /\ TypeOK BY DEF DirectTypeOK, TypeOK
  <2>3. now' = now \/ now' = now + 1 BY <2>1, StepSends
  <2>4. TypeOK' BY <2>1, DirectTypes DEF DirectTypeOK
  <2>. QED BY <2>1, <2>2, <2>3, <2>4, ConnStateAssumption
<1>2. CASE UNCHANGED histVars
  BY <1>2 DEF VerdictInv, histVars, directVars, vars
<1>3. CASE HistNext
  <2>1. /\ quotaUntil \in [Conn -> [Model -> Nat]]
        /\ \A c \in Conn, m \in Model : quotaUntil[c][m] \in Nat
        /\ \A c \in Conn, m \in Model : quotaUntil[c][m] <= now \/ quotaUntil[c][m] <= marks[c].model[m]
    BY DEF VerdictInv
  <2>a. quotaUntil' = [c \in Conn |-> [m \in Model |->
          IF Verdict(c, m) THEN now + LongCooldown
          ELSE IF quotaUntil[c][m] <= now \/ Renewed(c) THEN 0
          ELSE quotaUntil[c][m]]]
    BY <1>3 DEF HistNext
  <2>2. \A c \in Conn, m \in Model :
          /\ Verdict(c, m) => quotaUntil'[c][m] = now + LongCooldown
          /\ ~Verdict(c, m) => quotaUntil'[c][m] \in {0, quotaUntil[c][m]}
          /\ ~Verdict(c, m) /\ Restart => quotaUntil'[c][m] = 0
    <3>1. Restart => \A c \in Conn : Renewed(c) BY DEF Renewed
    <3>. QED BY <2>a, <3>1, Zenon
  <2>3. quotaUntil' \in [Conn -> [Model -> Nat]]
    <3>. DEFINE next(c, m) == IF Verdict(c, m) THEN now + LongCooldown
                              ELSE IF quotaUntil[c][m] <= now \/ Renewed(c) THEN 0
                              ELSE quotaUntil[c][m]
    <3>1. \A c \in Conn, m \in Model : next(c, m) \in Nat BY <1>1, <2>1
    <3>2. quotaUntil' = [c \in Conn |-> [m \in Model |-> next(c, m)]] BY <2>a
    <3>. HIDE DEF next
    <3>. QED BY <3>1, <3>2
  <2>4. ASSUME NEW c \in Conn, NEW m \in Model
        PROVE  quotaUntil'[c][m] <= now' \/ quotaUntil'[c][m] <= marks'[c].model[m]
    <3>1. CASE Verdict(c, m)
      <4>1. PICK s \in Request : req[s].conn = c /\ req[s].model = m /\ Fail(s, "quota") BY <3>1 DEF Verdict
      <4>2. marks'[c].model[m] = now + LongCooldown BY <1>1, <4>1, Judged
      <4>. QED BY <1>1, <2>2, <3>1, <4>2
    <3>2. CASE ~Verdict(c, m) /\ (quotaUntil'[c][m] = 0 \/ quotaUntil[c][m] <= now)
      BY <1>1, <2>1, <2>2, <3>2
    <3>3. CASE ~Verdict(c, m) /\ quotaUntil'[c][m] = quotaUntil[c][m] /\ ~(quotaUntil[c][m] <= now)
      <4>1. CASE ModelsMarked BY <2>1, <3>3, <4>1 DEF ModelsMarked
      <4>2. CASE Restart BY <1>1, <2>1, <2>2, <3>3, <4>2
      <4>3. ASSUME NEW s \in Request, NEW category \in Failures \cap {"rate_limit", "quota"}, Fail(s, category)
            PROVE  marks'[c].model[m] = marks[c].model[m]
        <5>1. CASE req[s].conn = c /\ req[s].model = m
          <6>1. category = "rate_limit" BY <3>3, <4>3, <5>1 DEF Verdict
          <6>2. req[s].pc \in Sent BY <1>1, <4>3, Judged
          <6>. QED BY <3>3, <5>1, <6>1, <6>2 DEF VerdictInv
        <5>2. CASE ~(req[s].conn = c /\ req[s].model = m) BY <1>1, <4>3, <5>2, Judged
        <5>. QED BY <5>1, <5>2
      <4>. QED BY <1>1, <2>1, <3>3, <4>1, <4>2, <4>3, StepSends
    <3>. QED BY <2>2, <3>1, <3>2, <3>3
  <2>5. ASSUME "rate_limit" \in Failures, NEW r \in Request, req'[r].pc \in Sent
        PROVE  quotaUntil'[req'[r].conn][req'[r].model] <= now'
    <3>1. /\ req'[r].conn = req[r].conn /\ req'[r].model = req[r].model
          /\ LetThrough(r) \/ req[r].pc \in Sent
      BY <1>1, <2>5, StepSends DEF SentBefore, LetThrough
    <3>2. req[r].conn \in Conn /\ req[r].model \in Model
      BY <1>1, <3>1 DEF TypeOK, LetThrough, Sent
    <3>3. quotaUntil[req[r].conn][req[r].model] <= now
      <4>1. CASE LetThrough(r) BY <1>1, <4>1, MarkStops DEF LetThrough
      <4>2. CASE req[r].pc \in Sent BY <2>5, <4>2 DEF VerdictInv
      <4>. QED BY <3>1, <4>1, <4>2
    <3>4. ~Verdict(req[r].conn, req[r].model)
      <4>1. SUFFICES ASSUME NEW s \in Request, Fail(s, "quota") PROVE FALSE BY DEF Verdict
      <4>2. s = r BY <2>5 DEF LimitsComeAlone
      <4>3. req'[r].pc = "persist" BY <1>1, <4>1, <4>2, Judged
      <4>. QED BY <2>5, <4>3 DEF Sent
    <3>. QED BY <1>1, <2>1, <2>2, <3>1, <3>2, <3>3, <3>4
  <2>. QED BY <2>3, <2>4, <2>5 DEF VerdictInv
<1>. QED BY <1>2, <1>3

\* Whatever an administrator, quota reports and the schedulers do to rows, memory and
\* the connection's mark, no request is sent before the horizon of a quota verdict on
\* its model of the connection, as long as no two requests overlap of which one may
\* meet a rate limit.
THEOREM VerdictsStand == ASSUME LimitsComeAlone PROVE HistSpec => QuotaNeverBypassed
<1>1. HistInit => DirectTypeOK /\ VerdictInv
  <2>1. SUFFICES ASSUME HistInit PROVE DirectTypeOK /\ VerdictInv OBVIOUS
  <2>2. DirectTypeOK BY <2>1, InitTypes DEF HistInit, DirectInit, DirectTypeOK, Admins, Fetches
  <2>3. VerdictInv BY <2>1 DEF HistInit, DirectInit, Init, VerdictInv, Idle, Sent
  <2>. QED BY <2>2, <2>3
<1>2. DirectTypeOK /\ [HistNext]_histVars => DirectTypeOK'
  <2>1. [HistNext]_histVars => [DirectNext]_directVars BY DEF HistNext, histVars
  <2>. QED BY <2>1, DirectTypes
<1>3. DirectTypeOK /\ VerdictInv /\ [HistNext]_histVars =>
        [\A r \in Request :
           req[r].pc = "check" /\ req'[r].pc = "inflight" =>
             quotaUntil[req[r].conn][req[r].model] <= now]_histVars
  <2>. SUFFICES ASSUME DirectTypeOK, VerdictInv, [HistNext]_histVars, NEW r \in Request,
                       req[r].pc = "check", req'[r].pc = "inflight"
                PROVE  quotaUntil[req[r].conn][req[r].model] <= now
    OBVIOUS
  <2>1. [DirectNext]_directVars BY DEF HistNext, histVars
  <2>2. LetThrough(r) BY <2>1, StepSends DEF SentBefore, Sent
  <2>. QED BY <2>2, MarkStops DEF LetThrough, DirectTypeOK
<1>. QED
  BY <1>1, <1>2, <1>3, StepVerdict, PTL DEF HistSpec, QuotaNeverBypassed

-----------------------------------------------------------------------------
(* No request goes round. *)

\* A candidate that is being considered has not been refused in this pass.
Untried(rq) == rq.pc \in {"heal", "check"} => rq.conn \notin rq.tried

\* What a step makes of the record of a request that is under way.
Advances(rq, next) == Nearer(rq, next) /\ Untried(next)

\* Going on within an attempt and a pass, with the same candidates refused.
LEMMA Onward ==
  ASSUME NEW rq \in Requests, NEW pc \in PCs, pc # "idle", Stage[rq.pc] < Stage[pc],
         pc \in {"heal", "check"} => Untried(rq) /\ rq.pc = "heal"
  PROVE  Advances(rq, [rq EXCEPT !.pc = pc])
BY DEF Advances, Nearer, Untried, Requests

LEMMA AdvancingRecords ==
  ASSUME NEW rq \in Requests
  PROVE  /\ Advances(rq, Idle)
         /\ Advances(rq, Failover(rq))
         /\ rq.pc = "pick" => Advances(rq, Passed(rq))
         /\ \A c \in Conn \ rq.tried :
              /\ Advances(rq, Rejected(rq, c))
              /\ \A pc \in {"heal", "check"} : rq.pc = "pick" => Advances(rq, Considering(rq, c, pc))
         /\ \A det \in Detection : rq.pc \in {"inflight", "streaming"} => Advances(rq, Failed(rq, det))
<1>1. Advances(rq, Idle)
  BY DEF Advances, Nearer, Untried, Idle
<1>2. Advances(rq, Failover(rq))
  <2>1. rq.attempt \in Nat
    BY ConnHealthAssumption DEF Requests
  <2>. DEFINE next == Attempt(rq.model, rq.attempt + 1, rq.conn)
  <2>2. next.attempt = rq.attempt + 1 /\ next.pc = "pick"
    BY DEF Attempt, Idle
  <2>3. Advances(rq, next)
    BY <2>1, <2>2 DEF Advances, Nearer, Untried
  <2>. QED
    BY <1>1, <2>3 DEF Failover
<1>3. ASSUME rq.pc = "pick" PROVE Advances(rq, Passed(rq))
  <2>1. rq.pass = 1 => Advances(rq, [rq EXCEPT !.pass = 2, !.tried = {}])
    BY <1>3 DEF Advances, Nearer, Untried, Requests
  <2>. QED
    BY <1>1, <2>1 DEF Passed
<1>4. ASSUME NEW c \in Conn \ rq.tried PROVE Advances(rq, Rejected(rq, c))
  <2>. DEFINE next == Rejected(rq, c)
  <2>1. next.pc = "pick" /\ next.attempt = rq.attempt /\ next.pass = rq.pass /\ next.tried = rq.tried \cup {c}
    BY DEF Rejected, Requests
  <2>. QED
    BY <2>1 DEF Advances, Nearer, Untried
<1>5. ASSUME NEW c \in Conn \ rq.tried, NEW pc \in {"heal", "check"}, rq.pc = "pick"
      PROVE  Advances(rq, Considering(rq, c, pc))
  <2>. DEFINE next == Considering(rq, c, pc)
  <2>1. /\ next.pc = pc /\ next.attempt = rq.attempt /\ next.pass = rq.pass /\ next.tried = rq.tried
        /\ next.conn = c
    BY DEF Considering, Requests
  <2>2. Stage[rq.pc] < Stage[pc]
    BY <1>5 DEF Stage
  <2>. QED
    BY <2>1, <2>2 DEF Advances, Nearer, Untried
<1>6. ASSUME NEW det \in Detection, rq.pc \in {"inflight", "streaming"} PROVE Advances(rq, Failed(rq, det))
  <2>. DEFINE next == Failed(rq, det)
  <2>1. next.pc = "persist" /\ next.attempt = rq.attempt /\ next.pass = rq.pass /\ next.tried = rq.tried
    BY DEF Failed, Requests
  <2>2. Stage[rq.pc] < Stage[next.pc]
    BY <1>6, <2>1 DEF Stage
  <2>. QED
    BY <2>1, <2>2 DEF Advances, Nearer, Untried
<1>. QED
  BY <1>1, <1>2, <1>3, <1>4, <1>5, <1>6

LEMMA StepAdvances ==
  ASSUME TypeOK, [Next]_vars, NEW r \in Request, Untried(req[r])
  PROVE  \/ req'[r] = req[r]
         \/ req[r].pc = "idle" /\ Untried(req'[r])
         \/ Advances(req[r], req'[r])
<1>. DEFINE Goal == \/ req'[r] = req[r]
                    \/ req[r].pc = "idle" /\ Untried(req'[r])
                    \/ Advances(req[r], req'[r])
<1>0. req \in [Request -> Requests] /\ req[r] \in Requests /\ now \in Nat
      /\ (req[r].pc \notin {"idle", "pick"} => req[r].conn \in Conn)
  BY DEF TypeOK
<1>1. ASSUME NEW s \in Request, NEW x, req' = [req EXCEPT ![s] = x], s = r => Advances(req[r], x) PROVE Goal
  BY <1>0, <1>1
<1>2. ASSUME NEW s \in Request, NEW pc \in PCs, Goto(s, pc), pc # "idle",
             s = r => /\ Stage[req[r].pc] < Stage[pc]
                      /\ pc \in {"heal", "check"} => req[r].pc = "heal"
      PROVE  Goal
  <2>1. req' = [req EXCEPT ![s] = [req[s] EXCEPT !.pc = pc]]
    BY <1>0, <1>2 DEF Goto
  <2>2. s = r => Advances(req[r], [req[r] EXCEPT !.pc = pc])
    BY <1>0, <1>2, Onward
  <2>. QED
    BY <1>1, <2>1, <2>2
<1>3. ASSUME NEW s \in Request, Start(s) PROVE Goal
  <2>1. PICK m \in Model : req' = [req EXCEPT ![s] = Attempt(m, 1, NoConn)] /\ req[s].pc = "idle"
    BY <1>3 DEF Start
  <2>2. Untried(Attempt(m, 1, NoConn))
    BY DEF Untried, Attempt, Idle
  <2>. QED
    BY <1>0, <2>1, <2>2
<1>4. ASSUME NEW s \in Request, Route(s) PROVE Goal
  <2>1. ASSUME NEW c \in Conn, Consider(s, c) PROVE Goal
    <3>1. /\ req[s].pc = "pick" /\ c \notin req[s].tried
          /\ \/ req' = [req EXCEPT ![s] = Rejected(req[s], c)]
             \/ \E pc \in {"heal", "check"} : req' = [req EXCEPT ![s] = Considering(req[s], c, pc)]
      BY <2>1 DEF Consider
    <3>. QED
      BY <1>0, <1>1, <3>1, AdvancingRecords
  <2>2. CASE Heal(s)
    BY <1>2, <2>2 DEF Heal, PCs, Stage
  <2>3. CASE Check(s)
    <3>1. CASE Goto(s, "inflight")
      BY <1>2, <2>3, <3>1 DEF Check, PCs, Stage
    <3>2. CASE req' = [req EXCEPT ![s] = Rejected(req[s], req[s].conn)]
      <4>1. s = r => req[r].conn \in Conn \ req[r].tried
        BY <1>0, <2>3 DEF Check, Untried
      <4>. QED
        BY <1>0, <1>1, <3>2, <4>1, AdvancingRecords
    <3>. QED
      BY <2>3, <3>1, <3>2 DEF Check
  <2>4. CASE NextPass(s)
    <3>1. req[s].pc = "pick" /\ req' = [req EXCEPT ![s] = Passed(req[s])]
      BY <2>4 DEF NextPass
    <3>. QED
      BY <1>0, <1>1, <3>1, AdvancingRecords
  <2>. QED
    BY <1>4, <2>1, <2>2, <2>3, <2>4 DEF Route
<1>5. ASSUME NEW s \in Request, Handle(s) PROVE Goal
  <2>1. CASE \E pc \in PCs : /\ Goto(s, pc) /\ Stage[req[s].pc] < Stage[pc]
                             /\ pc \notin {"idle", "heal", "check"}
    BY <1>2, <2>1
  <2>2. CASE req' = [req EXCEPT ![s] = Idle] \/ req' = [req EXCEPT ![s] = Failover(req[s])]
    BY <1>0, <1>1, <2>2, AdvancingRecords
  <2>3. ASSUME NEW category \in Failures, Fail(s, category) PROVE Goal
    <3>1. DetectError(category, now) \in Detection
      BY <1>0, ConnHealthAssumption, Detections
    <3>2. req[s].pc \in {"inflight", "streaming"}
          /\ req' = [req EXCEPT ![s] = Failed(req[s], DetectError(category, now))]
      BY <2>3 DEF Fail
    <3>. QED
      BY <1>0, <1>1, <3>1, <3>2, AdvancingRecords
  <2>4. ResetBan(s) \/ EnqueueResetBan(s) \/ PersistSuccess(s) \/ EnqueueSuccess(s) \/ SuccessRecorded(s)
          => \E pc \in PCs : /\ Goto(s, pc) /\ Stage[req[s].pc] < Stage[pc]
                             /\ pc \notin {"idle", "heal", "check"}
    BY DEF ResetBan, EnqueueResetBan, PersistSuccess, EnqueueSuccess, SuccessRecorded, PCs, Stage
  <2>5. PersistCooldown(s) \/ EnqueueCooldown(s)
          => \E pc \in PCs : /\ Goto(s, pc) /\ Stage[req[s].pc] < Stage[pc]
                             /\ pc \notin {"idle", "heal", "check"}
    BY DEF PersistCooldown, EnqueueCooldown, PCs, Stage
  <2>6. CheckAutoDisable(s) =>
          \/ \E pc \in PCs : /\ Goto(s, pc) /\ Stage[req[s].pc] < Stage[pc]
                             /\ pc \notin {"idle", "heal", "check"}
          \/ req' = [req EXCEPT ![s] = Failover(req[s])]
    BY DEF CheckAutoDisable, PCs, Stage
  <2>7. (Finish(s) => req' = [req EXCEPT ![s] = Idle]) /\ (AutoDisable(s) => req' = [req EXCEPT ![s] = Failover(req[s])])
    BY DEF Finish, AutoDisable
  <2>. QED
    BY <1>5, <2>1, <2>2, <2>3, <2>4, <2>5, <2>6, <2>7 DEF Handle
<1>6. CASE (\E c \in Conn : Spot(c) \/ Refresh(c)) \/ SpotRows \/ Recover \/ Drain \/ Tick \/ UNCHANGED vars
  BY <1>6 DEF Spot, SpotEntry, RecoverRow, Refresh, StartRefresh, Refreshed, RefreshFailed,
              RefreshRecorded, SpotRows, Recover, Drain, Tick, vars
<1>7. CASE Restart
  <2>1. req'[r] = Idle
    BY <1>7 DEF Restart
  <2>. QED
    BY <1>0, <2>1, AdvancingRecords
<1>. QED
  BY <1>3, <1>4, <1>5, <1>6, <1>7 DEF Next, Work

\* Each step of a request takes it to its end, a later attempt, a later pass, one more
\* candidate refused or a later stage, for any connections, requests, failures and
\* attempts, whatever the schedulers, the queue and restarts do meanwhile.
THEOREM RequestsDoAdvance == Spec => RequestsAdvance
<1>. DEFINE Inv == TypeOK /\ \A r \in Request : Untried(req[r])
<1>1. Init => Inv
  <2>1. Init => \A r \in Request : Untried(req[r])
    BY DEF Init, Idle, Untried
  <2>. QED
    BY <2>1, InitTypes
<1>2. Inv /\ [Next]_vars => Inv'
  <2>. SUFFICES ASSUME Inv, [Next]_vars PROVE Inv'
    OBVIOUS
  <2>1. ASSUME NEW r \in Request PROVE Untried(req'[r])
    BY StepAdvances DEF Advances
  <2>2. TypeOK'
    BY StepTypes
  <2>3. (\A r \in Request : Untried(req[r]))'
    BY <2>1 DEF Untried
  <2>. QED
    BY <2>2, <2>3
<1>3. Inv /\ [Next]_vars =>
        [\A r \in Request : req[r].pc # "idle" /\ req'[r] # req[r] => Nearer(req[r], req'[r])]_vars
  BY StepAdvances DEF Advances
<1>. QED
  BY <1>1, <1>2, <1>3, PTL DEF Spec, RequestsAdvance

-----------------------------------------------------------------------------
(* Every active row can be routed to. *)

\* An entry routing does not know belongs to an inactive row, which nobody is about
\* to activate: no request runs over it, and no write that activates is queued.
Unknown(c) ==
  /\ ~row[c].active
  /\ \A r \in Request : req[r].conn # c
  /\ \A i \in DOMAIN queue : ~Enables(queue[i], c)

RoutableInv == \A c \in Conn : mem[c].entry # "seeded" => Unknown(c)

LEMMA EntriesKept ==
  ASSUME NEW cs \in ConnectionState, NEW s \in Statuses, NEW det \in Detection, cs.entry = "seeded"
  PROVE  /\ GetOrCreate(cs) = cs
         /\ SetStatus(cs, s).entry = "seeded"
         /\ ResetBanCount(cs).entry = "seeded"
         /\ SetQuotaCooldown(cs, det.until).entry = "seeded"
         /\ RecordSuccess(cs).entry = "seeded"
         /\ RecordFailure(cs, det).entry = "seeded"
<1>1. GetOrCreate(cs) = cs
  BY DEF GetOrCreate
<1>2. \A x : SetStatus(cs, x).entry = "seeded"
  BY DEF SetStatus, ConnectionState
<1>3. /\ ResetBanCount(cs).entry = "seeded"
      /\ \A u : /\ SetQuotaCooldown(cs, u).entry = "seeded"
                /\ SetCooldown(cs, u).entry = "seeded"
                /\ SetDisabledUntil(cs, u).entry = "seeded"
  BY DEF ResetBanCount, SetQuotaCooldown, SetCooldown, SetDisabledUntil, ConnectionState
<1>4. RecordSuccess(cs).entry = "seeded"
  BY <1>2 DEF RecordSuccess
<1>5. RecordFailure(cs, det).entry = "seeded"
  BY <1>2, <1>3 DEF RecordFailure
<1>. QED
  BY <1>1, <1>2, <1>3, <1>4, <1>5

\* Nothing but a restart takes an entry out of routing.
LEMMA StaysKnown ==
  ASSUME TypeOK, Work \/ Tick, NEW c \in Conn, mem[c].entry = "seeded"
  PROVE  mem'[c].entry = "seeded"
<1>1. /\ mem \in [Conn -> ConnectionState] /\ mem[c] \in ConnectionState /\ now \in Nat
      /\ {"ready", "disabled"} \subseteq Statuses
  BY DEF TypeOK, Statuses
<1>2. DetectError("rate_limit", now) \in Detection
  BY <1>1, Detections DEF Categories
<1>3. /\ GetOrCreate(mem[c]) = mem[c]
      /\ \A s \in Statuses : SetStatus(mem[c], s).entry = "seeded"
      /\ ResetBanCount(mem[c]).entry = "seeded"
      /\ RecordSuccess(mem[c]).entry = "seeded"
      /\ \A det \in Detection : /\ RecordFailure(mem[c], det).entry = "seeded"
                                /\ SetQuotaCooldown(mem[c], det.until).entry = "seeded"
  BY <1>1, <1>2, EntriesKept
<1>4. ASSUME NEW r \in Request, Start(r) \/ Route(r) PROVE mem'[c].entry = "seeded"
  BY <1>1, <1>3, <1>4 DEF Start, Route, Consider, Heal, Check, NextPass
<1>5. ASSUME NEW r \in Request, Handle(r) PROVE mem'[c].entry = "seeded"
  <2>1. CASE \E category \in Failures : Fail(r, category)
    <3>1. PICK category \in Failures : Fail(r, category)
      BY <2>1
    <3>2. DetectError(category, now) \in Detection
      BY <1>1, ConnHealthAssumption, Detections
    <3>3. mem' = [mem EXCEPT ![req[r].conn] = RecordFailure(GetOrCreate(mem[req[r].conn]), DetectError(category, now))]
      BY <3>1 DEF Fail
    <3>. QED
      BY <1>1, <1>3, <3>2, <3>3
  <2>2. CASE PersistCooldown(r)
    <3>. DEFINE d == req[r].conn
                x == IF req[r].det.status = "quota_exhausted"
                     THEN IF mem[d].entry = "absent" THEN mem[d] ELSE SetQuotaCooldown(mem[d], req[r].det.until)
                     ELSE SetStatus(GetOrCreate(mem[d]), req[r].det.status)
    <3>1. req[r].det \in Detection /\ req[r].det.status \in Statuses
      BY <2>2 DEF PersistCooldown, TypeOK, Failing, Detection
    <3>2. mem' = [mem EXCEPT ![d] = x]
      BY <2>2, Zenon DEF PersistCooldown
    <3>3. d = c => x.entry = "seeded"
      BY <1>3, <3>1
    <3>. HIDE DEF x
    <3>. QED
      BY <1>1, <3>2, <3>3
  <2>3. CASE SuccessRecorded(r)
    BY <1>1, <1>3, <2>3 DEF SuccessRecorded
  <2>4. CASE ResetBan(r) \/ PersistSuccess(r) \/ AutoDisable(r)
    BY <1>1, <1>3, <2>4 DEF ResetBan, PersistSuccess, AutoDisable
  <2>5. CASE EnqueueResetBan(r) \/ EnqueueSuccess(r) \/ Finish(r) \/ EnqueueCooldown(r) \/ CheckAutoDisable(r)
    BY <1>1, <2>5 DEF EnqueueResetBan, EnqueueSuccess, Finish, EnqueueCooldown, CheckAutoDisable
  <2>. QED
    BY <1>5, <2>1, <2>2, <2>3, <2>4, <2>5 DEF Handle
<1>6. CASE (\E d \in Conn : Spot(d) \/ Refresh(d)) \/ SpotRows \/ Recover \/ Drain \/ Tick
  <2>1. ASSUME NEW d \in Conn, RefreshRecorded(d) PROVE mem'[c].entry = "seeded"
    <3>1. PICK s \in Statuses : mem' = [mem EXCEPT ![d] = IF mem[d].entry = "absent" THEN mem[d] ELSE SetStatus(mem[d], s)]
      BY <1>1, <2>1 DEF RefreshRecorded
    <3>. QED
      BY <1>1, <1>3, <3>1
  <2>2. CASE Recover
    BY <1>1, <1>3, <2>2 DEF Recover
  <2>. QED
    BY <1>6, <2>1, <2>2 DEF Spot, SpotEntry, RecoverRow, Refresh, StartRefresh, Refreshed, RefreshFailed,
                            SpotRows, Drain, Tick
<1>. QED
  BY <1>4, <1>5, <1>6 DEF Work

\* Only the router gives a request a connection, one that routing knows.
LEMMA StaysAway ==
  ASSUME TypeOK, [Next]_vars, NEW c \in Conn, mem[c].entry # "seeded",
         \A r \in Request : req[r].conn # c
  PROVE  \A r \in Request : req'[r].conn # c
<1>0. /\ req \in [Request -> Requests] /\ NoConn # c /\ Idle.conn # c
      /\ \A r \in Request : req[r] \in Requests
  BY ConnHealthAssumption DEF TypeOK, Idle
<1>1. ASSUME NEW s \in Request, NEW x, req' = [req EXCEPT ![s] = x], x.conn # c
      PROVE  \A r \in Request : req'[r].conn # c
  BY <1>0, <1>1
<1>2. ASSUME NEW s \in Request, NEW pc, Goto(s, pc) PROVE \A r \in Request : req'[r].conn # c
  BY <1>0, <1>2 DEF Goto, Requests
<1>3. \A m, n, last : Attempt(m, n, last).conn # c
  BY <1>0 DEF Attempt, Idle
<1>4. ASSUME NEW r \in Request, Start(r) \/ Route(r) PROVE \A q \in Request : req'[q].conn # c
  <2>1. ASSUME NEW d \in Conn, Consider(r, d) PROVE \A q \in Request : req'[q].conn # c
    <3>1. d # c
      BY <2>1 DEF Consider, Candidates
    <3>2. Rejected(req[r], d).conn # c /\ \A pc : Considering(req[r], d, pc).conn # c
      BY <1>0, <3>1 DEF Rejected, Considering, Requests
    <3>3. \/ req' = [req EXCEPT ![r] = Rejected(req[r], d)]
          \/ \E pc \in {"heal", "check"} : req' = [req EXCEPT ![r] = Considering(req[r], d, pc)]
      BY <2>1 DEF Consider
    <3>. QED
      BY <1>1, <3>2, <3>3
  <2>2. Rejected(req[r], req[r].conn).conn # c
    BY <1>0 DEF Rejected, Requests
  <2>3. Passed(req[r]).conn # c
    BY <1>0 DEF Passed, Requests
  <2>. QED
    BY <1>1, <1>2, <1>3, <1>4, <2>1, <2>2, <2>3 DEF Start, Route, Heal, Check, NextPass
<1>5. ASSUME NEW r \in Request, Handle(r) PROVE \A q \in Request : req'[q].conn # c
  <2>1. Failover(req[r]).conn # c
    BY <1>0, <1>3 DEF Failover
  <2>2. \A det : Failed(req[r], det).conn # c
    BY <1>0 DEF Failed, Requests
  <2>. QED
    BY <1>0, <1>1, <1>2, <1>5, <2>1, <2>2
       DEF Handle, ResetBan, EnqueueResetBan, PersistSuccess, EnqueueSuccess, SuccessRecorded, Finish, Fail,
           PersistCooldown, EnqueueCooldown, CheckAutoDisable, AutoDisable
<1>6. CASE (\E d \in Conn : Spot(d) \/ Refresh(d)) \/ SpotRows \/ Recover \/ Drain \/ Tick \/ UNCHANGED vars
  BY <1>6 DEF Spot, SpotEntry, RecoverRow, Refresh, StartRefresh, Refreshed, RefreshFailed,
              RefreshRecorded, SpotRows, Recover, Drain, Tick, vars
<1>7. CASE Restart
  BY <1>0, <1>7 DEF Restart
<1>. QED
  BY <1>4, <1>5, <1>6, <1>7 DEF Next, Work

\* Only a request over the connection queues a write that activates its row, and only
\* such a write, once drained, does.
LEMMA StaysInactive ==
  ASSUME TypeOK, [Next]_vars, NEW c \in Conn, Unknown(c)
  PROVE  ~row'[c].active /\ \A i \in DOMAIN queue' : ~Enables(queue'[i], c)
<1>. DEFINE Goal == ~row'[c].active /\ \A i \in DOMAIN queue' : ~Enables(queue'[i], c)
<1>0. queue \in Seq(Writes) /\ row \in [Conn -> Row] /\ row[c] \in Row
  BY DEF TypeOK
<1>1. UNCHANGED <<row, queue>> => Goal
  BY DEF Unknown
<1>2. ASSUME NEW w, Enqueue(w), ~Enables(w, c), UNCHANGED row PROVE Goal
  <2>1. CASE queue' = Append(queue, w)
    <3>1. \A i \in DOMAIN queue' : (i \in DOMAIN queue /\ queue'[i] = queue[i]) \/ queue'[i] = w
      BY <1>0, <2>1
    <3>. QED
      BY <1>2, <3>1 DEF Unknown
  <2>. QED
    BY <1>1, <1>2, <2>1 DEF Enqueue
<1>3. \A w : w.kind # "cooldown" => ~Enables(w, c)
  BY DEF Enables
<1>4. ASSUME NEW r \in Request, Start(r) \/ Route(r) PROVE Goal
  BY <1>1, <1>4 DEF Start, Route, Consider, Heal, Check, NextPass
<1>5. ASSUME NEW r \in Request, Handle(r) PROVE Goal
  <2>1. CASE EnqueueCooldown(r)
    <3>. DEFINE w == [kind |-> "cooldown", conn |-> req[r].conn, status |-> req[r].det.status, until |-> req[r].det.until]
    <3>1. ~Enables(w, c)
      BY DEF Enables, Unknown
    <3>2. Enqueue(w) /\ UNCHANGED row
      BY <2>1 DEF EnqueueCooldown
    <3>. HIDE DEF w
    <3>. QED
      BY <1>2, <3>1, <3>2
  <2>2. CASE EnqueueResetBan(r)
    BY <1>2, <1>3, <2>2 DEF EnqueueResetBan
  <2>3. CASE EnqueueSuccess(r)
    BY <1>2, <1>3, <2>3 DEF EnqueueSuccess
  <2>4. CASE CheckAutoDisable(r)
    BY <1>1, <1>2, <1>3, <2>4 DEF CheckAutoDisable
  <2>. QED
    BY <1>1, <1>5, <2>1, <2>2, <2>3, <2>4
       DEF Handle, ResetBan, PersistSuccess, SuccessRecorded, Finish, Fail, PersistCooldown, AutoDisable
<1>6. ASSUME NEW d \in Conn, Spot(d) PROVE Goal
  BY <1>1, <1>2, <1>3, <1>6 DEF Spot, SpotEntry, RecoverRow
<1>7. ASSUME NEW d \in Conn, Refresh(d) PROVE Goal
  <2>1. ASSUME NEW outcome \in {"setReady", "authFailed"}, Refreshed(d, outcome) PROVE Goal
    BY <1>2, <1>3, <2>1 DEF Refreshed
  <2>. QED
    BY <1>1, <1>7, <2>1 DEF Refresh, StartRefresh, RefreshFailed, RefreshRecorded
<1>8. CASE SpotRows \/ Recover \/ Tick \/ UNCHANGED vars
  BY <1>1, <1>8 DEF SpotRows, Recover, Tick, vars
<1>9. CASE Restart
  BY <1>9 DEF Restart, Unknown
<1>10. CASE Drain
  <2>0. queue # <<>>
    BY <1>10 DEF Drain
  <2>1. /\ Head(queue) \in Writes /\ Head(queue) = queue[1] /\ 1 \in DOMAIN queue
        /\ \A i \in DOMAIN Tail(queue) : i + 1 \in DOMAIN queue /\ Tail(queue)[i] = queue[i + 1]
    BY <1>0, <2>0
  <2>2. ~row[c].active /\ ~Enables(Head(queue), c)
    BY <2>1 DEF Unknown
  <2>3. Head(queue).conn = c => ~Apply(row[c], Head(queue)).active
    BY <1>0, <2>1, <2>2, AppliedInactive
  <2>4. /\ row' = [row EXCEPT ![Head(queue).conn] = Apply(row[Head(queue).conn], Head(queue))]
        /\ queue' = Tail(queue)
    BY <1>10 DEF Drain
  <2>5. ~row'[c].active
    BY <1>0, <2>2, <2>3, <2>4
  <2>. QED
    BY <2>1, <2>4, <2>5 DEF Unknown
<1>. QED
  BY <1>4, <1>5, <1>6, <1>7, <1>8, <1>9, <1>10 DEF Next, Work

\* A restart makes exactly the active rows known to routing.
LEMMA SeedsActive ==
  ASSUME NEW rw \in Row
  PROVE  rw.active => Seed(rw).entry = "seeded"
BY DEF Seed, SetQuotaCooldown, SetCooldown, Row

\* An active row always has an entry routing finds, for any number of requests and
\* connections, and whatever the schedulers, token refreshes and late writes do.
THEOREM ActiveRowsAreRoutable == Spec => []ActiveIsRoutable
<1>. DEFINE Inv == TypeOK /\ RoutableInv
<1>1. Init => Inv
  <2>. SUFFICES ASSUME Init PROVE Inv
    OBVIOUS
  <2>1. \A c \in Conn : mem[c].entry = "seeded"
    BY DEF Init, Seed
  <2>. QED
    BY <2>1, InitTypes DEF RoutableInv
<1>2. Inv /\ [Next]_vars => Inv'
  <2>. SUFFICES ASSUME Inv, [Next]_vars PROVE Inv'
    OBVIOUS
  <2>1. ASSUME NEW c \in Conn, mem'[c].entry # "seeded" PROVE Unknown(c)'
    <3>1. CASE mem[c].entry # "seeded"
      <4>1. Unknown(c)
        BY <3>1 DEF RoutableInv
      <4>2. \A r \in Request : req'[r].conn # c
        BY <3>1, <4>1, StaysAway DEF Unknown
      <4>. QED
        BY <4>1, <4>2, StaysInactive DEF Unknown
    <3>2. CASE mem[c].entry = "seeded"
      <4>1. Restart
        BY <2>1, <3>2, StaysKnown DEF Next, vars
      <4>2. row[c] \in Row /\ mem'[c] = Seed(row[c]) /\ UNCHANGED row
        BY <4>1 DEF Restart, TypeOK
      <4>3. ~row'[c].active
        BY <2>1, <4>2, SeedsActive
      <4>4. \A r \in Request : req'[r].conn # c
        BY <4>1, ConnHealthAssumption DEF Restart, Idle
      <4>. QED
        BY <4>1, <4>3, <4>4 DEF Restart, Unknown
    <3>. QED
      BY <3>1, <3>2
  <2>2. TypeOK'
    BY StepTypes
  <2>. QED
    BY <2>1, <2>2 DEF RoutableInv
<1>3. Inv => ActiveIsRoutable
  BY DEF RoutableInv, ActiveIsRoutable, Unknown
<1>. QED
  BY <1>1, <1>2, <1>3, PTL DEF Spec

-----------------------------------------------------------------------------
(* Limited connections are found. *)

\* A connection may be refused for good: rejected credentials, an empty account.
MayRefuse == "auth" \in Failures \/ "balance" \in Failures

\* Requests over connections that may be refused do not overlap.
RefusalsComeAlone == MayRefuse => \A r, s \in Request : r = s

AbsentIsUnlimited == \A c \in Conn : mem[c].entry = "absent" => mem[c].status \notin Healable

\* A detection on its way to the row gives the scheduler something to find, or is a
\* refusal - and when that is about to be queued, memory has it already.
Awaitable(det) == (det.status \in Awaited /\ det.until # 0) \/ (det.status = "disabled" /\ MayRefuse)

DetectionsAwaitable ==
  \A r \in Request : req[r].pc \in {"persist", "enqueue"} => Awaitable(req[r].det)

RefusalIsSeen ==
  \A r \in Request :
    req[r].pc = "enqueue" /\ req[r].det.status = "disabled" => mem[req[r].conn].status \notin Healable

FoundInv == AbsentIsUnlimited /\ DetectionsAwaitable /\ RefusalIsSeen /\ LimitedIsFound

\* A write that wakes makes a row the scheduler finds, and one that does not hush
\* leaves it one.
LEMMA AppliedFound ==
  ASSUME NEW rw \in Row, NEW w \in Writes, NEW c \in Conn, w.conn = c,
         (Found(rw) /\ ~Hushes(w, c)) \/ Wakes(w, c)
  PROVE  Found(Apply(rw, w))
<1>. USE DEF Writes, Found, Hushes, Wakes
<1>1. CASE w.kind = "ban"
  <2>1. w.ban \in Nat /\ BanThreshold \in Nat /\ ~(w.ban >= BanThreshold)
    BY <1>1, ConnStateAssumption
  <2>2. Found(BanWrite(rw, w))
    BY <1>1, <2>1 DEF BanWrite, Row
  <2>. QED
    BY <2>2, <1>1, Zenon DEF Apply
<1>2. CASE w.kind = "cooldown"
  <2>1. Found(CooldownWrite(rw, w))
    BY <1>2 DEF CooldownWrite
  <2>. QED
    BY <2>1, <1>2, Zenon DEF Apply
<1>3. CASE w.kind = "setReady"
  <2>1. Found([rw EXCEPT !.status = "ready"])
    BY <1>3 DEF Row, Awaited
  <2>. QED
    BY <2>1, <1>3, Zenon DEF Apply
<1>4. CASE w.kind = "resetBan"
  <2>1. Found([rw EXCEPT !.ban = 0])
    BY <1>4 DEF Row
  <2>. QED
    BY <2>1, <1>4, Zenon DEF Apply
<1>. QED
  BY <1>1, <1>2, <1>3, <1>4

\* What the queue will leave for the scheduler stays so when a write that does not
\* hush is queued behind it ...
LEMMA FoundBehind ==
  ASSUME QueueOK, NEW c \in Conn, NEW w \in Writes, Enqueue(w), ~Hushes(w, c),
         UNCHANGED row, SettlesFound(c)
  PROVE  SettlesFound(c)'
<1>0. queue \in Seq(Writes)
  BY DEF QueueOK
<1>1. CASE UNCHANGED queue
  BY <1>1 DEF SettlesFound
<1>2. CASE queue' = Append(queue, w)
  <2>1. /\ \A i \in DOMAIN queue : i \in DOMAIN queue' /\ queue'[i] = queue[i]
        /\ \A i \in DOMAIN queue' : i \in DOMAIN queue \/ queue'[i] = w
    BY <1>0, <1>2
  <2>. QED
    BY <2>1 DEF SettlesFound
<1>. QED
  BY <1>1, <1>2 DEF Enqueue

\* ... a write that wakes is one, unless it is dropped ...
LEMMA FoundLast ==
  ASSUME QueueOK, NEW c \in Conn, NEW w \in Writes, Enqueue(w), Wakes(w, c), c \notin lost'
  PROVE  SettlesFound(c)'
<1>1. queue \in Seq(Writes) /\ w.conn = c
  BY DEF QueueOK, Wakes
<1>2. queue' = Append(queue, w)
  BY <1>1 DEF Enqueue
<1>3. /\ Len(queue) + 1 \in DOMAIN queue'
      /\ queue'[Len(queue) + 1] = w
      /\ \A j \in DOMAIN queue' : ~(j > Len(queue) + 1)
  BY <1>1, <1>2
<1>. QED
  BY <1>3 DEF SettlesFound

\* ... and draining the queue brings it about.
LEMMA FoundDrained ==
  ASSUME QueueOK, row \in [Conn -> Row], NEW c \in Conn, Drain, SettlesFound(c)
  PROVE  SettlesFound(c)'
<1>0. queue \in Seq(Writes) /\ queue # <<>>
  BY DEF QueueOK, Drain
<1>. DEFINE w == queue[1]
<1>1. /\ w \in Writes
      /\ 1 \in DOMAIN queue
      /\ \A i \in DOMAIN queue : i \in Nat /\ (i # 1 => i - 1 \in DOMAIN queue' /\ queue'[i - 1] = queue[i])
      /\ \A i \in DOMAIN queue' : i \in Nat /\ i + 1 \in DOMAIN queue /\ queue'[i] = queue[i + 1] /\ i + 1 > 1
  BY <1>0 DEF Drain
<1>h. Head(queue) = w
  BY <1>0
<1>2. row' = [row EXCEPT ![w.conn] = Apply(row[w.conn], w)]
  <2>1. row' = [row EXCEPT ![Head(queue).conn] = Apply(row[Head(queue).conn], Head(queue))]
    BY DEF Drain
  <2>. QED
    BY <1>h, <2>1
<1>3. row[c] \in Row
  OBVIOUS
<1>4. (Found(row[c]) /\ ~Hushes(w, c)) \/ Wakes(w, c) => Found(row'[c])
  <2>1. CASE w.conn = c
    BY <1>1, <1>2, <1>3, <2>1, AppliedFound
  <2>2. CASE w.conn # c
    BY <1>2, <2>2 DEF Wakes
  <2>. QED
    BY <2>1, <2>2
<1>5. CASE Found(row[c]) /\ \A i \in DOMAIN queue : ~Hushes(queue[i], c)
  BY <1>1, <1>4, <1>5 DEF SettlesFound
<1>6. CASE \E i \in DOMAIN queue :
             /\ Wakes(queue[i], c)
             /\ \A j \in DOMAIN queue : j > i => ~Hushes(queue[j], c)
  <2>1. PICK i \in DOMAIN queue :
             /\ Wakes(queue[i], c)
             /\ \A j \in DOMAIN queue : j > i => ~Hushes(queue[j], c)
    BY <1>6
  <2>2. CASE i = 1
    BY <1>1, <1>4, <2>1, <2>2 DEF SettlesFound
  <2>3. CASE i # 1
    <3>1. i - 1 \in DOMAIN queue' /\ Wakes(queue'[i - 1], c)
      BY <1>1, <2>1, <2>3
    <3>2. \A j \in DOMAIN queue' : j > i - 1 => ~Hushes(queue'[j], c)
      BY <1>1, <2>1
    <3>. QED
      BY <3>1, <3>2 DEF SettlesFound
  <2>. QED
    BY <2>2, <2>3
<1>. QED
  BY <1>5, <1>6 DEF SettlesFound

\* Most mutators limit nothing, and leave the cooldown of what is limited alone.
Keeps(old, new) ==
  new.status \in Healable =>
    old.status \in Healable /\ new.cooldown = old.cooldown /\ new.entry = old.entry

LEMMA KeepingMutators ==
  ASSUME NEW cs \in ConnectionState
  PROVE  /\ Keeps(cs, cs)
         /\ \A s \in {"ready", "disabled"} : Keeps(cs, SetStatus(cs, s)) /\ Keeps(cs, SetStatus(GetOrCreate(cs), s))
         /\ Keeps(cs, ResetBanCount(cs))
         /\ Keeps(cs, RecordSuccess(GetOrCreate(cs)))
<1>1. GetOrCreate(cs) \in ConnectionState
  BY Mutators DEF Statuses
<1>2. ASSUME NEW x \in ConnectionState, NEW s \in {"ready", "disabled"} PROVE SetStatus(x, s).status = s
  BY <1>2 DEF SetStatus, ConnectionState
<1>3. \A x \in ConnectionState, s \in {"ready", "disabled"} : SetStatus(x, s).status \notin Healable
  BY <1>2 DEF Healable
<1>4. Keeps(cs, ResetBanCount(cs))
  BY DEF Keeps, ResetBanCount, ConnectionState
<1>5. RecordSuccess(GetOrCreate(cs)).status \notin Healable
  BY <1>1, <1>3 DEF RecordSuccess, Healable
<1>. QED
  BY <1>1, <1>3, <1>4, <1>5 DEF Keeps

\* The places of a request that leaving may end Between.
Leaving == {"enqueue", "queued", "disable"}

\* A step that limits nothing, and in which no handler enters the places before the
\* queue: what remains is what becomes of the row and of those between their writes.
LEMMA KeepingStep ==
  ASSUME TypeOK, FoundInv, lost \subseteq lost',
         \A c \in Conn : Keeps(mem[c], mem'[c]),
         \A r \in Request : req'[r] = req[r] \/ req'[r].pc \notin {"persist", "enqueue"},
         \A c \in Conn \ lost' :
           \/ mem'[c].status \notin Healable
           \/ Between(c)' \/ SettlesFound(c)'
           \/ (SettlesFound(c) => SettlesFound(c)') /\ (Between(c) => Between(c)')
  PROVE  FoundInv'
<1>1. AbsentIsUnlimited'
  BY DEF FoundInv, AbsentIsUnlimited, Keeps
<1>2. DetectionsAwaitable'
  BY DEF FoundInv, DetectionsAwaitable, Awaitable
<1>3. RefusalIsSeen'
  <2>. SUFFICES ASSUME NEW r \in Request, req'[r].pc = "enqueue", req'[r].det.status = "disabled"
                PROVE  mem'[req'[r].conn].status \notin Healable
    BY DEF RefusalIsSeen
  <2>1. req'[r] = req[r] /\ req[r].conn \in Conn
    BY DEF TypeOK
  <2>. QED
    BY <2>1 DEF FoundInv, RefusalIsSeen, Keeps
<1>4. LimitedIsFound'
  <2>. SUFFICES ASSUME NEW c \in Conn, c \notin lost', mem'[c].status \in Healable, ~Between(c)'
                PROVE  mem'[c].cooldown # 0 \/ SettlesFound(c)'
    BY DEF LimitedIsFound
  <2>1. c \notin lost /\ mem[c].status \in Healable /\ mem'[c].cooldown = mem[c].cooldown
    BY DEF Keeps
  <2>. QED
    BY <2>1 DEF FoundInv, LimitedIsFound
<1>. QED
  BY <1>1, <1>2, <1>3, <1>4 DEF FoundInv

\* Every step keeps it.
LEMMA StepFound == ASSUME RefusalsComeAlone PROVE TypeOK /\ FoundInv /\ [Next]_vars => FoundInv'
<1>. SUFFICES ASSUME TypeOK, FoundInv, [Next]_vars PROVE FoundInv'
  OBVIOUS
<1>a. RequestsOK /\ QueueOK /\ row \in [Conn -> Row] /\ mem \in [Conn -> ConnectionState] /\ now \in Nat
  BY DEF TypeOK, RequestsOK, QueueOK
<1>b. \A c \in Conn : mem[c] \in ConnectionState
  BY <1>a
<1>c. \A c \in Conn : /\ Keeps(mem[c], mem[c])
                      /\ \A s \in {"ready", "disabled"} : /\ Keeps(mem[c], SetStatus(mem[c], s))
                                                          /\ Keeps(mem[c], SetStatus(GetOrCreate(mem[c]), s))
                      /\ Keeps(mem[c], ResetBanCount(mem[c]))
                      /\ Keeps(mem[c], RecordSuccess(GetOrCreate(mem[c])))
  BY <1>b, KeepingMutators
<1>d. UNCHANGED mem => \A c \in Conn : Keeps(mem[c], mem'[c])
  BY <1>c
<1>e. UNCHANGED <<row, queue>> => \A c \in Conn : SettlesFound(c) => SettlesFound(c)'
  BY DEF SettlesFound
<1>f. ASSUME NEW w \in Writes, Enqueue(w), UNCHANGED row
      PROVE  /\ lost \subseteq lost'
             /\ \A c \in Conn : ~Hushes(w, c) /\ SettlesFound(c) => SettlesFound(c)'
  <2>1. \A c \in Conn : ~Hushes(w, c) /\ SettlesFound(c) => SettlesFound(c)'
    BY <1>a, <1>f, FoundBehind
  <2>. QED
    BY <1>f, <2>1 DEF Enqueue
<1>g. \A r \in Request : req[r] \in Requests /\ (req[r].pc \notin {"idle", "pick"} => req[r].conn \in Conn)
                         /\ (req[r].pc \in Failing => req[r].det \in Detection)
  BY <1>a DEF RequestsOK
<1>h. \A r \in Request : \A x :
        req' = [req EXCEPT ![r] = x] => req'[r] = x /\ \A q \in Request \ {r} : req'[q] = req[q]
  BY <1>a DEF RequestsOK
<1>i. ASSUME NEW r \in Request, NEW pc, Goto(r, pc)
      PROVE  req' = [req EXCEPT ![r] = [req[r] EXCEPT !.pc = pc]] /\ req'[r].pc = pc
             /\ req'[r].conn = req[r].conn /\ req'[r].det = req[r].det
  BY <1>a, <1>g, <1>i DEF Goto, RequestsOK, Requests
<1>j. ASSUME NEW r \in Request, NEW x, req' = [req EXCEPT ![r] = x], UNCHANGED <<recovering, refresh>>
      PROVE  \A c \in Conn : req[r].pc \notin Leaving \/ req[r].conn # c => (Between(c) => Between(c)')
  <2>. SUFFICES ASSUME NEW c \in Conn, req[r].pc \notin Leaving \/ req[r].conn # c, Between(c) PROVE Between(c)'
    OBVIOUS
  <2>1. CASE \E q \in Request : req[q].conn = c /\ req[q].pc \in Leaving
    <3>1. PICK q \in Request : req[q].conn = c /\ req[q].pc \in Leaving
      BY <2>1
    <3>2. req'[q] = req[q]
      BY <1>h, <1>j, <3>1
    <3>. QED
      BY <3>1, <3>2 DEF Between, Leaving
  <2>. QED
    BY <1>j, <2>1 DEF Between, Leaving
<1>k. UNCHANGED <<req, recovering, refresh>> => \A c \in Conn : Between(c) => Between(c)'
  BY DEF Between
<1>l. \A r \in Request : /\ Failover(req[r]).pc \in {"idle", "pick"} /\ Idle.pc = "idle"
                         /\ \A m \in Model : Attempt(m, 1, NoConn).pc = "pick"
  BY <1>g, Failovers, Idles, Attempts, ConnHealthAssumption
\* A step of one request that writes neither memory nor anything else.
<1>m. ASSUME NEW r \in Request, NEW x, req' = [req EXCEPT ![r] = x], x.pc \notin {"persist", "enqueue"},
             req[r].pc \notin Leaving, UNCHANGED <<row, queue, lost, recovering, refresh>>,
             \A c \in Conn : Keeps(mem[c], mem'[c])
      PROVE  FoundInv'
  <2>1. \A q \in Request : req'[q] = req[q] \/ req'[q].pc \notin {"persist", "enqueue"}
    BY <1>h, <1>m
  <2>. QED
    BY <1>e, <1>j, <1>m, <2>1, KeepingStep
<1>1. ASSUME NEW r \in Request, Start(r) PROVE FoundInv'
  BY <1>1, <1>d, <1>l, <1>m DEF Start, Leaving
<1>2. ASSUME NEW r \in Request, Route(r) PROVE FoundInv'
  <2>1. ASSUME NEW c \in Conn, Consider(r, c) PROVE FoundInv'
    <3>1. Rejected(req[r], c).pc = "pick"
      BY <1>g, Rejections
    <3>2. \A pc \in {"heal", "check"} : Considering(req[r], c, pc).pc = pc
      BY <1>g, Considerations
    <3>3. \/ req' = [req EXCEPT ![r] = Rejected(req[r], c)]
          \/ \E pc \in {"heal", "check"} : req' = [req EXCEPT ![r] = Considering(req[r], c, pc)]
      BY <2>1 DEF Consider
    <3>4. PICK x : req' = [req EXCEPT ![r] = x] /\ x.pc \notin {"persist", "enqueue"}
      BY <3>1, <3>2, <3>3
    <3>. QED
      BY <2>1, <1>d, <1>m, <3>4 DEF Consider, Leaving
  <2>2. CASE Heal(r)
    <3>1. \A c \in Conn : Keeps(mem[c], mem'[c])
      BY <1>a, <1>c, <2>2 DEF Heal
    <3>2. Goto(r, "check") /\ req[r].pc = "heal" /\ UNCHANGED <<row, queue, lost, recovering, refresh>>
      BY <2>2 DEF Heal
    <3>. QED
      BY <1>h, <1>i, <1>m, <3>1, <3>2 DEF Leaving
  <2>3. CASE Check(r)
    <3>0. req[r].conn \in Conn
      BY <1>g, <2>3 DEF Check
    <3>1. Rejected(req[r], req[r].conn).pc = "pick"
      BY <1>g, <3>0, Rejections
    <3>2. Goto(r, "inflight") \/ req' = [req EXCEPT ![r] = Rejected(req[r], req[r].conn)]
      BY <2>3 DEF Check
    <3>3. PICK x : req' = [req EXCEPT ![r] = x] /\ x.pc \notin {"persist", "enqueue"}
      BY <1>h, <1>i, <3>1, <3>2
    <3>. QED
      BY <2>3, <1>d, <1>m, <3>3 DEF Check, Leaving
  <2>4. CASE NextPass(r)
    <3>1. Passed(req[r]).pc \in {"idle", "pick"}
      BY <1>g, <2>4, Passes DEF NextPass
    <3>. QED
      BY <2>4, <1>d, <1>m, <3>1 DEF NextPass, Leaving
  <2>. QED
    BY <1>2, <2>1, <2>2, <2>3, <2>4 DEF Route
\* Nobody else is about to queue a refusal while a connection becomes limited.
<1>n. ASSUME NEW r \in Request, NEW x, req' = [req EXCEPT ![r] = x], x.pc \in {"persist", "enqueue"},
             \A c \in Conn \ {req[r].conn} : mem'[c] = mem[c], Awaitable(x.det),
             x.pc = "enqueue" /\ x.det.status = "disabled" => mem'[x.conn].status \notin Healable
      PROVE  DetectionsAwaitable' /\ RefusalIsSeen'
  <2>1. \A q \in Request \ {r} : req'[q] = req[q]
    BY <1>h, <1>n
  <2>2. req'[r] = x
    BY <1>h, <1>n
  <2>3. DetectionsAwaitable'
    BY <1>n, <2>1, <2>2 DEF FoundInv, DetectionsAwaitable, Awaitable
  <2>4. ASSUME NEW q \in Request, req'[q].pc = "enqueue", req'[q].det.status = "disabled"
        PROVE  mem'[req'[q].conn].status \notin Healable
    <3>1. CASE q = r
      BY <1>n, <2>2, <2>4, <3>1
    <3>2. CASE q # r
      <4>1. Awaitable(req[q].det) /\ req[q].det.status = "disabled"
        BY <2>1, <2>4, <3>2 DEF FoundInv, DetectionsAwaitable
      <4>2. MayRefuse
        BY <4>1 DEF Awaitable, Awaited
      <4>. QED
        BY <3>2, <4>2 DEF RefusalsComeAlone
    <3>. QED
      BY <3>1, <3>2
  <2>. QED
    BY <2>3, <2>4 DEF RefusalIsSeen
\* ... and the others stay in the scheduler's sight.
<1>o. ASSUME NEW r \in Request, NEW x, req' = [req EXCEPT ![r] = x],
             \A c \in Conn \ {req[r].conn} : mem'[c] = mem[c], req[r].pc \notin Leaving,
             UNCHANGED <<row, queue, lost, recovering, refresh>>,
             \/ mem'[req[r].conn].status \notin Healable
             \/ mem'[req[r].conn].cooldown # 0
             \/ x.pc = "enqueue" /\ x.conn = req[r].conn
      PROVE  LimitedIsFound'
  <2>. SUFFICES ASSUME NEW c \in Conn, c \notin lost', mem'[c].status \in Healable, ~Between(c)'
                PROVE  mem'[c].cooldown # 0 \/ SettlesFound(c)'
    BY DEF LimitedIsFound
  <2>1. CASE c = req[r].conn
    <3>1. req'[r] = x
      BY <1>h, <1>o
    <3>. QED
      BY <1>o, <2>1, <3>1 DEF Between
  <2>2. CASE c # req[r].conn
    <3>1. mem'[c] = mem[c] /\ ~Between(c) /\ (SettlesFound(c) => SettlesFound(c)')
      BY <1>e, <1>j, <1>o, <2>2
    <3>. QED
      BY <1>o, <3>1 DEF FoundInv, LimitedIsFound
  <2>. QED
    BY <2>1, <2>2
<1>3. ASSUME NEW r \in Request, Handle(r) PROVE FoundInv'
  <2>0. req[r].pc \notin {"idle", "pick"} => req[r].conn \in Conn
    BY <1>g
  <2>1. CASE ResetBan(r)
    <3>1. \A c \in Conn : Keeps(mem[c], mem'[c])
      BY <1>a, <1>c, <2>1 DEF ResetBan
    <3>2. PICK pc \in {"unbanned", "succeeded"} : Goto(r, pc)
      BY <2>1 DEF ResetBan
    <3>. QED
      BY <1>h, <1>i, <1>m, <2>1, <3>1, <3>2 DEF ResetBan, Leaving
  <2>2. CASE EnqueueResetBan(r)
    <3>. DEFINE w == [kind |-> "resetBan", conn |-> req[r].conn]
    <3>1. w \in Writes /\ \A c \in Conn : ~Hushes(w, c)
      BY <2>0, <2>2, WriteTypes DEF EnqueueResetBan, Hushes
    <3>2. /\ Enqueue(w) /\ Goto(r, "succeeded") /\ req[r].pc = "unbanned"
          /\ UNCHANGED <<mem, row, recovering, refresh>>
      BY <2>2 DEF EnqueueResetBan
    <3>. HIDE DEF w
    <3>3. \A c \in Conn : Between(c) => Between(c)'
      BY <1>i, <1>j, <3>2 DEF Leaving
    <3>4. \A q \in Request : req'[q] = req[q] \/ req'[q].pc \notin {"persist", "enqueue"}
      BY <1>h, <1>i, <3>2
    <3>. QED
      BY <1>d, <1>f, <3>1, <3>2, <3>3, <3>4, KeepingStep
  <2>3. CASE PersistSuccess(r)
    <3>1. \A c \in Conn : Keeps(mem[c], mem'[c])
      BY <1>a, <1>c, <2>3 DEF PersistSuccess
    <3>. QED
      BY <1>h, <1>i, <1>m, <2>3, <3>1 DEF PersistSuccess, Leaving
  <2>4. CASE EnqueueSuccess(r)
    <3>. DEFINE w == [kind |-> "success", conn |-> req[r].conn, at |-> now]
    <3>1. w \in Writes /\ \A c \in Conn : c # req[r].conn => ~Hushes(w, c)
      BY <1>a, <2>0, <2>4, WriteTypes DEF EnqueueSuccess, Hushes
    <3>2. /\ Enqueue(w) /\ Goto(r, "queued") /\ req[r].pc = "healed"
          /\ UNCHANGED <<mem, row, recovering, refresh>>
      BY <2>4 DEF EnqueueSuccess
    <3>. HIDE DEF w
    <3>3. \A c \in Conn : Between(c) => Between(c)'
      BY <1>i, <1>j, <3>2 DEF Leaving
    <3>4. \A q \in Request : req'[q] = req[q] \/ req'[q].pc \notin {"persist", "enqueue"}
      BY <1>h, <1>i, <3>2
    <3>5. \A c \in Conn : c = req[r].conn => Between(c)'
      BY <1>i, <3>2 DEF Between
    <3>. QED
      BY <1>d, <1>f, <3>1, <3>2, <3>3, <3>4, <3>5, KeepingStep
  <2>5. CASE SuccessRecorded(r)
    <3>0. req[r].conn \in Conn /\ mem[req[r].conn] \in ConnectionState
      BY <1>b, <2>0, <2>5 DEF SuccessRecorded
    <3>1. RecordSuccess(GetOrCreate(mem[req[r].conn])).status = "ready"
      BY DEF RecordSuccess, SetStatus, GetOrCreate, NoEntry
    <3>2. /\ mem' = [mem EXCEPT ![req[r].conn] = RecordSuccess(GetOrCreate(mem[req[r].conn]))]
          /\ Goto(r, "streaming") /\ UNCHANGED <<row, queue, lost, recovering, refresh>>
      BY <2>5 DEF SuccessRecorded
    <3>3. \A c \in Conn : Keeps(mem[c], mem'[c])
      BY <1>a, <1>c, <3>2
    <3>4. \A c \in Conn : c = req[r].conn => mem'[c].status \notin Healable
      BY <1>a, <3>1, <3>2 DEF Healable
    <3>5. \A c \in Conn : c # req[r].conn => (Between(c) => Between(c)')
      BY <1>i, <1>j, <3>2
    <3>6. \A q \in Request : req'[q] = req[q] \/ req'[q].pc \notin {"persist", "enqueue"}
      BY <1>h, <1>i, <3>2
    <3>. QED
      BY <1>e, <3>2, <3>3, <3>4, <3>5, <3>6, KeepingStep
  <2>6. CASE Finish(r)
    BY <1>d, <1>l, <1>m, <2>6 DEF Finish, Leaving
  <2>7. ASSUME NEW category \in Failures, Fail(r, category) PROVE FoundInv'
    <3>. DEFINE det == DetectError(category, now)
                c == req[r].conn
                x == Failed(req[r], det)
                new == RecordFailure(GetOrCreate(mem[c]), det)
    <3>1. det \in Detection /\ Awaitable(det)
      <4>1. category \in Categories /\ det \in Detection
        BY <1>a, ConnHealthAssumption, Detections
      <4>2. det.until # 0 \/ category = "balance"
        BY <1>a, <4>1, ConnStateAssumption DEF DetectError, CooldownOf, Categories
      <4>3. /\ category \in {"auth", "balance"} => det.status = "disabled"
            /\ category \notin {"auth", "balance"} => det.status \in Awaited
        BY <4>1 DEF DetectError, StatusOf, Categories, Awaited
      <4>. QED
        BY <4>1, <4>2, <4>3 DEF Awaitable, MayRefuse
    <3>2. /\ mem' = [mem EXCEPT ![c] = new] /\ req' = [req EXCEPT ![r] = x]
          /\ req[r].pc \in {"inflight", "streaming"} /\ UNCHANGED <<row, queue, lost, recovering, refresh>>
      BY <2>7 DEF Fail
    <3>3. x.pc = "persist" /\ x.det = det
      BY <1>g, <3>1, FailedRecords
    <3>4. c \in Conn /\ mem[c] \in ConnectionState
      BY <1>b, <2>0, <3>2
    <3>5. new.entry # "absent" /\ (new.status \notin Healable \/ new.cooldown # 0)
      <4>1. GetOrCreate(mem[c]) \in ConnectionState /\ GetOrCreate(mem[c]).entry # "absent"
        <5>1. GetOrCreate(mem[c]) \in ConnectionState
          BY <3>4, Mutators DEF Statuses
        <5>. QED
          BY <5>1, <3>4 DEF GetOrCreate, NoEntry
      <4>. QED
        BY <3>1, <4>1 DEF RecordFailure, SetStatus, SetDisabledUntil, SetQuotaCooldown, SetCooldown,
                          ConnectionState, Awaitable, Healable
    <3>. HIDE DEF det, x, new, c
    <3>6. \A d \in Conn \ {c} : mem'[d] = mem[d]
      BY <1>a, <3>2, <3>4
    <3>7. mem'[c] = new
      BY <1>a, <3>2, <3>4
    <3>8. DetectionsAwaitable' /\ RefusalIsSeen'
      BY <1>n, <3>1, <3>2, <3>3, <3>6 DEF c
    <3>9. LimitedIsFound'
      BY <1>o, <3>2, <3>3, <3>5, <3>6, <3>7 DEF c, Leaving
    <3>10. AbsentIsUnlimited'
      BY <3>5, <3>6, <3>7 DEF FoundInv, AbsentIsUnlimited
    <3>. QED
      BY <3>8, <3>9, <3>10 DEF FoundInv
  <2>8. CASE PersistCooldown(r)
    <3>. DEFINE det == req[r].det
                c == req[r].conn
                x == [req[r] EXCEPT !.pc = "enqueue"]
                new == IF det.status = "quota_exhausted"
                       THEN IF mem[c].entry = "absent" THEN mem[c] ELSE SetQuotaCooldown(mem[c], det.until)
                       ELSE SetStatus(GetOrCreate(mem[c]), det.status)
    <3>1. /\ mem' = [mem EXCEPT ![c] = new] /\ Goto(r, "enqueue")
          /\ req[r].pc = "persist" /\ UNCHANGED <<row, queue, lost, recovering, refresh>>
      BY <2>8, Zenon DEF PersistCooldown
    <3>2. req' = [req EXCEPT ![r] = x] /\ x.pc = "enqueue" /\ x.det = det /\ x.conn = c
      BY <1>g, <1>h, <1>i, <3>1
    <3>3. c \in Conn /\ mem[c] \in ConnectionState /\ Awaitable(det)
      BY <1>b, <2>0, <3>1 DEF FoundInv, DetectionsAwaitable
    <3>4. new.entry = "absent" => new.status \notin Healable
      <4>1. GetOrCreate(mem[c]) \in ConnectionState /\ GetOrCreate(mem[c]).entry # "absent"
        <5>1. GetOrCreate(mem[c]) \in ConnectionState
          BY <3>3, Mutators DEF Statuses
        <5>. QED
          BY <5>1, <3>3 DEF GetOrCreate, NoEntry
      <4>2. SetStatus(GetOrCreate(mem[c]), det.status).entry # "absent"
        BY <4>1 DEF SetStatus, ConnectionState
      <4>3. mem[c].entry # "absent" => SetQuotaCooldown(mem[c], det.until).entry # "absent"
        BY <3>3 DEF SetQuotaCooldown, ConnectionState
      <4>4. mem[c].entry = "absent" => mem[c].status \notin Healable
        BY <3>3 DEF FoundInv, AbsentIsUnlimited
      <4>. QED
        BY <4>2, <4>3, <4>4
    <3>5. det.status = "disabled" => new.status \notin Healable
      <4>1. GetOrCreate(mem[c]) \in ConnectionState
        BY <3>3, Mutators DEF Statuses
      <4>2. SetStatus(GetOrCreate(mem[c]), "disabled").status = "disabled"
        BY <4>1 DEF SetStatus, ConnectionState
      <4>. QED
        BY <4>2 DEF Healable
    <3>. HIDE DEF det, x, new, c
    <3>6. \A d \in Conn \ {c} : mem'[d] = mem[d]
      BY <1>a, <3>1, <3>3
    <3>7. mem'[c] = new
      BY <1>a, <3>1, <3>3
    <3>8. DetectionsAwaitable' /\ RefusalIsSeen'
      BY <1>n, <3>1, <3>2, <3>3, <3>5, <3>6, <3>7 DEF c
    <3>9. LimitedIsFound'
      BY <1>o, <3>1, <3>2, <3>6 DEF c, Leaving
    <3>10. AbsentIsUnlimited'
      BY <3>4, <3>6, <3>7 DEF FoundInv, AbsentIsUnlimited
    <3>. QED
      BY <3>8, <3>9, <3>10 DEF FoundInv
  <2>9. CASE EnqueueCooldown(r)
    <3>. DEFINE c == req[r].conn
                w == [kind |-> "cooldown", conn |-> c, status |-> req[r].det.status, until |-> req[r].det.until]
    <3>1. /\ req[r].pc = "enqueue" /\ Enqueue(w) /\ Goto(r, "strike")
          /\ UNCHANGED <<mem, row, recovering, refresh>>
      BY <2>9 DEF EnqueueCooldown
    <3>2. c \in Conn /\ req[r].det \in Detection /\ Awaitable(req[r].det)
      BY <1>g, <3>1 DEF Failing, FoundInv, DetectionsAwaitable
    <3>3. w \in Writes
      BY <3>2, WriteTypes DEF Detection
    <3>4. Wakes(w, c) \/ mem[c].status \notin Healable
      BY <3>1, <3>2 DEF Wakes, Awaitable, FoundInv, RefusalIsSeen
    <3>5. \A d \in Conn : d # c => ~Hushes(w, d)
      BY DEF Hushes
    <3>. HIDE DEF w
    <3>6. \A d \in Conn : d # c => (Between(d) => Between(d)')
      BY <1>i, <1>j, <3>1
    <3>7. \A q \in Request : req'[q] = req[q] \/ req'[q].pc \notin {"persist", "enqueue"}
      BY <1>h, <1>i, <3>1
    <3>8. \A d \in Conn \ lost' : d = c => mem'[d].status \notin Healable \/ SettlesFound(d)'
      BY <1>a, <3>1, <3>3, <3>4, FoundLast
    <3>9. lost \subseteq lost' /\ \A d \in Conn : d # c => (SettlesFound(d) => SettlesFound(d)')
      BY <1>f, <3>1, <3>3, <3>5
    <3>. HIDE DEF c
    <3>. QED
      BY <1>d, <3>1, <3>6, <3>7, <3>8, <3>9, KeepingStep
  <2>10. CASE CheckAutoDisable(r)
    <3>. DEFINE c == req[r].conn
                w == [kind |-> "ban", conn |-> c, ban |-> mem[c].ban]
    <3>0. /\ req[r].pc = "strike" /\ UNCHANGED <<mem, row, recovering, refresh>>
          /\ (UNCHANGED <<queue, lost>> \/ Enqueue(w))
          /\ IF mem[c].ban >= BanThreshold THEN Goto(r, "disable") ELSE req' = [req EXCEPT ![r] = Failover(req[r])]
      BY <2>10 DEF CheckAutoDisable
    <3>1. c \in Conn /\ w \in Writes
      <4>1. c \in Conn
        BY <2>0, <3>0
      <4>2. mem[c].ban \in 0..BanThreshold
        BY <1>b, <4>1 DEF ConnectionState
      <4>. QED
        BY <4>1, <4>2, WriteTypes
    <3>2. \A d \in Conn : Hushes(w, d) => d = c /\ mem[c].ban >= BanThreshold
      BY DEF Hushes
    <3>. HIDE DEF w
    <3>3. \A d \in Conn : Between(d) => Between(d)'
      BY <1>i, <1>j, <3>0 DEF Leaving
    <3>4. \A q \in Request : req'[q] = req[q] \/ req'[q].pc \notin {"persist", "enqueue"}
      <4>1. Failover(req[r]).pc \notin {"persist", "enqueue"}
        BY <1>l
      <4>. QED
        BY <1>h, <1>i, <3>0, <4>1
    <3>5. \A d \in Conn : d = c /\ mem[c].ban >= BanThreshold => Between(d)'
      BY <1>i, <3>0 DEF Between
    <3>6. CASE UNCHANGED <<queue, lost>>
      BY <1>d, <1>e, <3>0, <3>3, <3>4, <3>6, KeepingStep
    <3>7. CASE Enqueue(w)
      <4>1. lost \subseteq lost' /\ \A d \in Conn : ~Hushes(w, d) => (SettlesFound(d) => SettlesFound(d)')
        BY <1>f, <3>0, <3>1, <3>7
      <4>2. \A d \in Conn : Between(d)' \/ (SettlesFound(d) => SettlesFound(d)')
        BY <3>2, <3>5, <4>1
      <4>. QED
        BY <1>d, <3>0, <3>3, <3>4, <4>1, <4>2, KeepingStep
    <3>. QED
      BY <3>0, <3>6, <3>7
  <2>11. CASE AutoDisable(r)
    <3>0. req[r].conn \in Conn /\ mem[req[r].conn] \in ConnectionState
      BY <1>b, <2>0, <2>11 DEF AutoDisable
    <3>1. SetStatus(GetOrCreate(mem[req[r].conn]), "disabled").status = "disabled"
      <4>1. GetOrCreate(mem[req[r].conn]) \in ConnectionState
        BY <3>0, Mutators DEF Statuses
      <4>. QED
        BY <4>1 DEF SetStatus, ConnectionState
    <3>2. /\ mem' = [mem EXCEPT ![req[r].conn] = SetStatus(GetOrCreate(mem[req[r].conn]), "disabled")]
          /\ req' = [req EXCEPT ![r] = Failover(req[r])] /\ UNCHANGED <<row, queue, lost, recovering, refresh>>
      BY <2>11 DEF AutoDisable
    <3>3. \A c \in Conn : Keeps(mem[c], mem'[c])
      BY <1>a, <1>c, <3>2
    <3>4. \A c \in Conn : c = req[r].conn => mem'[c].status \notin Healable
      BY <1>a, <3>1, <3>2 DEF Healable
    <3>5. \A c \in Conn : c # req[r].conn => (Between(c) => Between(c)')
      BY <1>j, <3>2
    <3>6. \A q \in Request : req'[q] = req[q] \/ req'[q].pc \notin {"persist", "enqueue"}
      BY <1>h, <1>l, <3>2
    <3>. QED
      BY <1>e, <3>2, <3>3, <3>4, <3>5, <3>6, KeepingStep
  <2>. QED
    BY <1>3, <2>1, <2>2, <2>3, <2>4, <2>5, <2>6, <2>7, <2>8, <2>9, <2>10, <2>11 DEF Handle
<1>4. ASSUME NEW c \in Conn, Spot(c) PROVE FoundInv'
  <2>1. CASE SpotEntry(c)
    <3>1. \A d \in Conn : Between(d) => Between(d)'
      BY <2>1, ConnHealthAssumption DEF SpotEntry, Between
    <3>. QED
      BY <1>d, <1>e, <2>1, <3>1, KeepingStep DEF SpotEntry
  <2>2. CASE RecoverRow(c)
    <3>. DEFINE w == [kind |-> "recover", conn |-> c]
    <3>1. w \in Writes /\ \A d \in Conn : d # c => ~Hushes(w, d)
      BY WriteTypes DEF Hushes
    <3>2. Enqueue(w) /\ recovering = NoConn /\ recovering' = c /\ UNCHANGED <<mem, row, refresh, req>>
      BY <2>2 DEF RecoverRow
    <3>. HIDE DEF w
    <3>3. Between(c)' /\ \A d \in Conn : Between(d) => Between(d)'
      BY <3>2, ConnHealthAssumption DEF Between
    <3>. QED
      BY <1>d, <1>f, <3>1, <3>2, <3>3, KeepingStep
  <2>. QED
    BY <1>4, <2>1, <2>2 DEF Spot
<1>5. ASSUME NEW c \in Conn, Refresh(c) PROVE FoundInv'
  <2>0. refresh \in [Conn -> {"no", "running", "setReady", "authFailed"}]
    BY DEF TypeOK
  <2>a. UNCHANGED <<req, recovering>> /\ (\A d \in Conn \ {c} : refresh'[d] = refresh[d])
          => \A d \in Conn \ {c} : Between(d) => Between(d)'
    BY DEF Between
  <2>1. CASE StartRefresh(c) \/ RefreshFailed(c)
    <3>1. \A d \in Conn : Between(d) => Between(d)'
      BY <2>0, <2>1 DEF StartRefresh, RefreshFailed, Between
    <3>. QED
      BY <1>d, <1>e, <2>1, <3>1, KeepingStep DEF StartRefresh, RefreshFailed
  <2>2. ASSUME NEW outcome \in {"setReady", "authFailed"}, Refreshed(c, outcome) PROVE FoundInv'
    <3>. DEFINE w == [kind |-> outcome, conn |-> c]
    <3>1. w \in Writes /\ \A d \in Conn : d # c => ~Hushes(w, d)
      BY WriteTypes DEF Hushes
    <3>2. Enqueue(w) /\ refresh' = [refresh EXCEPT ![c] = outcome] /\ UNCHANGED <<mem, row, recovering, req>>
      BY <2>2 DEF Refreshed
    <3>. HIDE DEF w
    <3>3. Between(c)' /\ \A d \in Conn \ {c} : Between(d) => Between(d)'
      BY <2>0, <2>a, <3>2 DEF Between
    <3>. QED
      BY <1>d, <1>f, <3>1, <3>2, <3>3, KeepingStep
  <2>3. CASE RefreshRecorded(c)
    <3>1. PICK s \in {"ready", "disabled"} :
            mem' = [mem EXCEPT ![c] = IF mem[c].entry = "absent" THEN mem[c] ELSE SetStatus(mem[c], s)]
      BY <2>3 DEF RefreshRecorded
    <3>2. refresh' = [refresh EXCEPT ![c] = "no"] /\ UNCHANGED <<row, queue, lost, recovering, req>>
      BY <2>3 DEF RefreshRecorded
    <3>3. \A d \in Conn : Keeps(mem[d], mem'[d])
      BY <1>a, <1>c, <3>1
    <3>4. mem'[c].status \notin Healable
      <4>1. SetStatus(mem[c], s).status = s
        BY <1>b DEF SetStatus, ConnectionState
      <4>2. mem[c].entry = "absent" => mem[c].status \notin Healable
        BY DEF FoundInv, AbsentIsUnlimited
      <4>. QED
        BY <1>a, <3>1, <4>1, <4>2 DEF Healable
    <3>5. \A d \in Conn \ {c} : Between(d) => Between(d)'
      BY <2>0, <2>a, <3>2
    <3>. QED
      BY <1>e, <3>2, <3>3, <3>4, <3>5, KeepingStep
  <2>. QED
    BY <1>5, <2>1, <2>2, <2>3 DEF Refresh
<1>6. CASE Recover
  <2>1. recovering \in Conn /\ mem' = [mem EXCEPT ![recovering] = SetStatus(GetOrCreate(mem[recovering]), "ready")]
        /\ UNCHANGED <<row, queue, lost, refresh, req>>
    BY <1>6 DEF Recover, TypeOK
  <2>2. \A c \in Conn : Keeps(mem[c], mem'[c])
    BY <1>a, <1>c, <2>1
  <2>3. SetStatus(GetOrCreate(mem[recovering]), "ready").status = "ready"
    <3>1. GetOrCreate(mem[recovering]) \in ConnectionState
      BY <1>b, <2>1, Mutators DEF Statuses
    <3>. QED
      BY <3>1 DEF SetStatus, ConnectionState
  <2>4. \A c \in Conn : c = recovering => mem'[c].status \notin Healable
    BY <1>a, <2>1, <2>3 DEF Healable
  <2>5. \A c \in Conn : c # recovering => (Between(c) => Between(c)')
    BY <2>1 DEF Between
  <2>. QED
    BY <1>e, <2>1, <2>2, <2>4, <2>5, KeepingStep
<1>7. CASE Drain
  <2>1. \A c \in Conn : SettlesFound(c) => SettlesFound(c)'
    BY <1>a, <1>7, FoundDrained
  <2>. QED
    BY <1>d, <1>k, <1>7, <2>1, KeepingStep DEF Drain
<1>8. CASE Restart
  <2>0. \A c \in Conn : mem'[c] = Seed(row[c]) /\ row[c] \in Row
    BY <1>a, <1>8 DEF Restart
  <2>1. \A r \in Request : req'[r].pc = "idle"
    BY <1>8, Idles DEF Restart
  <2>2. ASSUME NEW rw \in Row
        PROVE  /\ Seed(rw).entry = "absent" => Seed(rw).status \notin Healable
               /\ Seed(rw).status \in Healable => Seed(rw).cooldown # 0
    BY <1>a DEF Seed, SetQuotaCooldown, SetCooldown, NoEntry, Row, Healable
  <2>3. AbsentIsUnlimited' /\ LimitedIsFound'
    BY <2>0, <2>2 DEF AbsentIsUnlimited, LimitedIsFound
  <2>. QED
    BY <2>1, <2>3 DEF FoundInv, DetectionsAwaitable, RefusalIsSeen
<1>9. CASE SpotRows \/ Tick
  BY <1>d, <1>e, <1>k, <1>9, KeepingStep DEF SpotRows, Tick
<1>10. CASE UNCHANGED vars
  BY <1>d, <1>e, <1>k, <1>10, KeepingStep DEF vars
<1>. QED
  BY <1>1, <1>2, <1>3, <1>4, <1>5, <1>6, <1>7, <1>8, <1>9, <1>10 DEF Next, Work

\* A limited connection whose row was not dropped stays in the scheduler's sight,
\* through its entry, its row or the queue, for any number of concurrent requests over
\* connections that meet limits - or one at a time, if they may be refused for good.
THEOREM LimitedConnectionsAreFound == ASSUME RefusalsComeAlone PROVE Spec => []LimitedIsFound
<1>1. Init => FoundInv
  <2>. SUFFICES ASSUME Init PROVE FoundInv
    OBVIOUS
  <2>1. \A c \in Conn : mem[c].entry = "seeded" /\ mem[c].status = "ready"
    BY DEF Init, Seed, Healable
  <2>2. \A r \in Request : req[r].pc = "idle"
    BY Idles DEF Init
  <2>. QED
    BY <2>1, <2>2 DEF FoundInv, AbsentIsUnlimited, DetectionsAwaitable, RefusalIsSeen, LimitedIsFound, Healable
<1>2. FoundInv => LimitedIsFound
  BY DEF FoundInv
<1>. QED
  BY <1>1, <1>2, StepFound, TypeCorrect, PTL DEF Spec

-----------------------------------------------------------------------------
(* Nothing is disabled without cause. *)

\* What belongs to a connection that gave no cause: neither its entry nor its row is
\* disabled or near the threshold, and nothing on the way to either makes it so.
CleanEntry(cs) == cs.status # "disabled" /\ cs.ban <= 1

CleanRow(rw) == rw.active /\ rw.status # "disabled" /\ rw.ban <= 1

CleanWrite(w) ==
  /\ w.kind # "authFailed"
  /\ w.kind = "ban" => w.ban <= 1
  /\ w.kind = "cooldown" => w.status # "disabled"

CleanRequest(rq) == rq.pc # "disable" /\ (rq.pc \in {"persist", "enqueue"} => rq.det.status # "disabled")

CleanQueue(c) == \A i \in DOMAIN queue : queue[i].conn = c => CleanWrite(queue[i])

CleanRequests(c) == \A r \in Request : req[r].conn = c => CleanRequest(req[r])

CleanCalls(c) ==
  /\ refresh[c] # "authFailed"
  /\ admin.act \in {"sync", "syncAndClear"} /\ admin.conn = c => admin.status = "ready"
  /\ admin.act = "test" /\ admin.conn = c => admin.det.status # "disabled"
  /\ fetch.act \in {"write", "sync"} /\ fetch.conn = c => fetch.status = "ready"

Clean(c) == CleanEntry(mem[c]) /\ CleanRow(row[c]) /\ CleanQueue(c) /\ CleanRequests(c) /\ CleanCalls(c)

\* Only a refusal is taken for a reason to disable.
LEMMA Verdicts ==
  ASSUME NEW category \in Categories, NEW t \in Nat
  PROVE  /\ DetectError(category, t).category = category
         /\ DetectError(category, t).status = "disabled" => category \in Refusals
         /\ DetectError(category, t).status = "quota_exhausted" => category = "quota"
BY DEF DetectError, StatusOf, Categories, Refusals

LEMMA CleanMutators ==
  ASSUME BanThreshold > 1, NEW cs \in ConnectionState, CleanEntry(cs)
  PROVE  /\ GetOrCreate(cs) \in ConnectionState /\ CleanEntry(GetOrCreate(cs))
         /\ \A s \in Statuses \ {"disabled", "quota_exhausted"} : CleanEntry(SetStatus(cs, s))
         /\ \A u : CleanEntry(SetQuotaCooldown(cs, u)) /\ CleanEntry(SetCooldown(cs, u))
         /\ CleanEntry(ResetBanCount(cs))
         /\ CleanEntry(RecordSuccess(cs))
<1>1. cs.ban \in 0..BanThreshold /\ BanThreshold \in Nat
  BY ConnStateAssumption DEF ConnectionState
<1>2. GetOrCreate(cs) \in ConnectionState
  BY Mutators DEF Statuses
<1>3. CleanEntry(GetOrCreate(cs))
  BY DEF GetOrCreate, NoEntry, CleanEntry
<1>4. \A s \in Statuses \ {"disabled", "quota_exhausted"} : CleanEntry(SetStatus(cs, s))
  BY <1>1 DEF SetStatus, CleanEntry, ConnectionState
<1>5. \A u : CleanEntry(SetQuotaCooldown(cs, u)) /\ CleanEntry(SetCooldown(cs, u))
  BY <1>1 DEF SetQuotaCooldown, SetCooldown, CleanEntry, ConnectionState
<1>6. CleanEntry(ResetBanCount(cs))
  BY <1>1 DEF ResetBanCount, CleanEntry, ConnectionState
<1>7. CleanEntry(RecordSuccess(cs))
  BY <1>4 DEF RecordSuccess, Statuses
<1>. QED
  BY <1>2, <1>3, <1>4, <1>5, <1>6, <1>7

\* A failure that is no refusal, recorded by a request or a connection test.
LEMMA CleanFailure ==
  ASSUME BanThreshold > 1, NEW cs \in ConnectionState, CleanEntry(cs),
         NEW category \in Categories \ Refusals, NEW t \in Nat
  PROVE  LET det == DetectError(category, t) IN
         /\ CleanEntry(RecordFailure(cs, det))
         /\ CleanEntry(SetStatus(RecordFailure(cs, det), det.status))
<1>. DEFINE det == DetectError(category, t)
            failed == RecordFailure(cs, det)
<1>1. det \in Detection /\ det.category = category /\ det.status # "disabled"
      /\ det.status \in Statuses /\ det.until \in Nat
      /\ (det.status = "quota_exhausted" => category = "quota")
  BY Detections, Verdicts DEF Detection
<1>2. failed = IF category = "quota" THEN SetQuotaCooldown(cs, det.until) ELSE SetCooldown(cs, det.until)
  BY <1>1 DEF RecordFailure
<1>3. failed \in ConnectionState /\ CleanEntry(failed)
  <2>1. SetQuotaCooldown(cs, det.until) \in ConnectionState /\ SetCooldown(cs, det.until) \in ConnectionState
    BY <1>1, Mutators
  <2>. HIDE DEF det, failed
  <2>. QED
    BY <1>2, <2>1, CleanMutators
<1>4. CASE category # "quota"
  <2>1. det.status \in Statuses \ {"disabled", "quota_exhausted"}
    BY <1>1, <1>4
  <2>. HIDE DEF det, failed
  <2>2. CleanEntry(SetStatus(failed, det.status))
    BY <1>3, <2>1, CleanMutators
  <2>. QED
    BY <1>3, <2>2 DEF det, failed
<1>5. CASE category = "quota"
  <2>1. det.status = "quota_exhausted"
    BY <1>5 DEF DetectError, StatusOf
  <2>2. failed.ban = 0
    BY <1>2, <1>5 DEF SetQuotaCooldown, ConnectionState
  <2>. HIDE DEF det, failed
  <2>3. SetStatus(failed, "quota_exhausted").ban = Bump(0)
        /\ SetStatus(failed, "quota_exhausted").status = "quota_exhausted"
    BY <1>3, <2>2 DEF SetStatus, ConnectionState
  <2>4. Bump(0) = 1
    BY ConnStateAssumption DEF Bump
  <2>5. CleanEntry(SetStatus(failed, det.status))
    BY <2>1, <2>3, <2>4 DEF CleanEntry
  <2>. QED
    BY <1>3, <2>5 DEF det, failed
<1>. QED
  BY <1>4, <1>5

\* The entry of a connection that gives no cause stays clean.
LEMMA CleanEntryKept ==
  ASSUME BanThreshold > 1, DirectTypeOK, [DirectNext]_directVars,
         NEW c \in Conn, Clean(c), ~Blames(c)
  PROVE  CleanEntry(mem'[c])
<1>0. /\ mem \in [Conn -> ConnectionState] /\ mem[c] \in ConnectionState /\ now \in Nat
      /\ TypeOK /\ BanThreshold > 1 /\ CleanEntry(mem[c]) /\ Failures \subseteq Categories
  BY ConnHealthAssumption DEF DirectTypeOK, TypeOK, Clean
<1>1. \A s \in Statuses \ {"disabled", "quota_exhausted"} :
        CleanEntry(SetStatus(mem[c], s)) /\ CleanEntry(SetStatus(GetOrCreate(mem[c]), s))
  BY <1>0, CleanMutators
<1>2. /\ CleanEntry(ResetBanCount(mem[c]))
      /\ CleanEntry(RecordSuccess(GetOrCreate(mem[c])))
      /\ \A u : CleanEntry(SetQuotaCooldown(mem[c], u))
  BY <1>0, CleanMutators
<1>3. "ready" \in Statuses \ {"disabled", "quota_exhausted"}
  BY DEF Statuses
<1>4. UNCHANGED mem => CleanEntry(mem'[c])
  BY <1>0
<1>5. ASSUME NEW r \in Request, Start(r) \/ Route(r) PROVE CleanEntry(mem'[c])
  BY <1>0, <1>1, <1>3, <1>5 DEF Start, Route, Consider, Heal, Check, NextPass
<1>6. ASSUME NEW r \in Request, Handle(r) PROVE CleanEntry(mem'[c])
  <2>1. ASSUME NEW category \in Failures, Fail(r, category) PROVE CleanEntry(mem'[c])
    <3>1. mem' = [mem EXCEPT ![req[r].conn] = RecordFailure(GetOrCreate(mem[req[r].conn]), DetectError(category, now))]
      BY <2>1 DEF Fail
    <3>2. CASE req[r].conn = c
      <4>1. category \in Categories \ Refusals
        BY <1>0, <2>1, <3>2 DEF Blames
      <4>2. GetOrCreate(mem[c]) \in ConnectionState /\ CleanEntry(GetOrCreate(mem[c]))
        BY <1>0, CleanMutators
      <4>3. CleanEntry(RecordFailure(GetOrCreate(mem[c]), DetectError(category, now)))
        BY <1>0, <4>1, <4>2, CleanFailure
      <4>. QED
        BY <1>0, <3>1, <3>2, <4>3
    <3>3. CASE req[r].conn # c
      BY <1>0, <3>1, <3>3
    <3>. QED
      BY <3>2, <3>3
  <2>2. CASE PersistCooldown(r)
    <3>. DEFINE d == req[r].conn
                det == req[r].det
                x == IF det.status = "quota_exhausted"
                     THEN IF mem[d].entry = "absent" THEN mem[d] ELSE SetQuotaCooldown(mem[d], det.until)
                     ELSE SetStatus(GetOrCreate(mem[d]), det.status)
    <3>1. mem' = [mem EXCEPT ![d] = x] /\ req[r].pc = "persist"
      BY <2>2, Zenon DEF PersistCooldown
    <3>2. det.status \in Statuses
      BY <1>0, <3>1 DEF TypeOK, Failing, Detection
    <3>3. d = c => det.status # "disabled"
      BY <3>1 DEF Clean, CleanRequests, CleanRequest
    <3>4. d = c => CleanEntry(x)
      BY <1>0, <1>1, <1>2, <3>2, <3>3
    <3>. HIDE DEF x, d, det
    <3>. QED
      BY <1>0, <3>1, <3>4
  <2>3. CASE AutoDisable(r)
    <3>1. req[r].conn # c
      BY <2>3 DEF AutoDisable, Clean, CleanRequests, CleanRequest
    <3>. QED
      BY <1>0, <2>3, <3>1 DEF AutoDisable
  <2>4. CASE ResetBan(r) \/ SuccessRecorded(r)
    BY <1>0, <1>2, <2>4 DEF ResetBan, SuccessRecorded
  <2>5. CASE PersistSuccess(r)
    BY <1>0, <1>1, <1>3, <2>5 DEF PersistSuccess
  <2>. QED
    BY <1>4, <1>6, <2>1, <2>2, <2>3, <2>4, <2>5
       DEF Handle, EnqueueResetBan, EnqueueSuccess, Finish, EnqueueCooldown, CheckAutoDisable
<1>7. CASE (\E d \in Conn : Spot(d) \/ Refresh(d)) \/ SpotRows \/ Recover \/ Drain \/ Tick
  <2>1. ASSUME NEW d \in Conn, RefreshRecorded(d) PROVE CleanEntry(mem'[c])
    <3>1. PICK s \in {"ready", "disabled"} :
            /\ mem' = [mem EXCEPT ![d] = IF mem[d].entry = "absent" THEN mem[d] ELSE SetStatus(mem[d], s)]
            /\ s = "disabled" => refresh[d] = "authFailed"
      BY <2>1 DEF RefreshRecorded
    <3>2. d = c => s = "ready"
      BY <3>1 DEF Clean, CleanCalls
    <3>. QED
      BY <1>0, <1>1, <1>3, <3>1, <3>2
  <2>2. CASE Recover
    BY <1>0, <1>1, <1>3, <2>2 DEF Recover
  <2>. QED
    BY <1>4, <1>7, <2>1, <2>2 DEF Spot, SpotEntry, RecoverRow, Refresh, StartRefresh, Refreshed, RefreshFailed,
                                  SpotRows, Drain, Tick
<1>8. CASE Restart
  <2>1. mem'[c] = Seed(row[c]) /\ row[c] \in Row /\ CleanRow(row[c])
    BY <1>0, <1>8 DEF Restart, TypeOK, Clean
  <2>2. CleanEntry(Seed(row[c]))
    BY <2>1 DEF Seed, CleanRow, CleanEntry, SetQuotaCooldown, SetCooldown, Row
  <2>. QED
    BY <2>1, <2>2
<1>9. ASSUME NEW d \in Conn, Administer(d) PROVE CleanEntry(mem'[c])
  <2>1. ASSUME NEW category \in Failures, TestFailed(d, category) PROVE CleanEntry(mem'[c])
    <3>. DEFINE det == DetectError(category, now)
    <3>1. mem' = [mem EXCEPT ![d] = SetStatus(RecordFailure(GetOrCreate(mem[d]), det), det.status)]
      BY <2>1 DEF TestFailed
    <3>2. CASE d = c
      <4>1. category \in Categories \ Refusals
        BY <1>0, <2>1, <3>2 DEF Blames
      <4>2. GetOrCreate(mem[c]) \in ConnectionState /\ CleanEntry(GetOrCreate(mem[c]))
        BY <1>0, CleanMutators
      <4>3. CleanEntry(SetStatus(RecordFailure(GetOrCreate(mem[c]), det), det.status))
        BY <1>0, <4>1, <4>2, CleanFailure
      <4>. QED
        BY <1>0, <3>1, <3>2, <4>3
    <3>3. CASE d # c
      BY <1>0, <3>1, <3>3
    <3>. QED
      BY <3>2, <3>3
  <2>. QED
    BY <1>4, <1>9, <2>1 DEF Administer, SetActive, PutStatus, Reset, WriteRow
<1>10. CASE Sync
  <2>1. admin.conn = c => admin.status = "ready"
    BY <1>10 DEF Sync, Clean, CleanCalls
  <2>. QED
    BY <1>0, <1>1, <1>3, <1>10, <2>1 DEF Sync
<1>11. CASE SyncStatus
  <2>1. fetch.conn = c => fetch.status = "ready"
    BY <1>11 DEF SyncStatus, Clean, CleanCalls
  <2>. QED
    BY <1>0, <1>1, <1>3, <1>11, <2>1 DEF SyncStatus
<1>12. CASE (\E d \in Conn, report \in Reports : ReadStatus(d, report)) \/ TestWritten \/ WriteStatus
            \/ UNCHANGED directVars
  BY <1>4, <1>12 DEF ReadStatus, TestWritten, WriteStatus, directVars, vars
<1>. QED
  BY <1>5, <1>6, <1>7, <1>8, <1>9, <1>10, <1>11, <1>12 DEF DirectNext, Work

LEMMA AppliedClean ==
  ASSUME BanThreshold > 1, NEW rw \in Row, CleanRow(rw), NEW w \in Writes, CleanWrite(w)
  PROVE  CleanRow(Apply(rw, w))
<1>. USE DEF Writes, CleanRow, CleanWrite
<1>1. CASE w.kind = "ban"
  <2>1. w.ban \in Nat /\ BanThreshold \in Nat /\ ~(w.ban >= BanThreshold)
    BY <1>1, ConnStateAssumption
  <2>2. CleanRow(BanWrite(rw, w))
    BY <1>1, <2>1 DEF BanWrite, Row
  <2>. QED
    BY <2>2, <1>1, Zenon DEF Apply
<1>2. CASE w.kind = "cooldown"
  <2>. DEFINE rw2 == CooldownWrite(rw, w)
  <2>1. w.status # "disabled"
    BY <1>2
  <2>2. rw2 = [active |-> TRUE, status |-> w.status, cooldown |-> w.until,
               ban |-> IF w.status = "quota_exhausted" THEN 0 ELSE rw.ban]
    BY <2>1, Zenon DEF CooldownWrite
  <2>3. rw2.active /\ rw2.status = w.status /\ (rw2.ban = 0 \/ rw2.ban = rw.ban)
    BY <2>2
  <2>. HIDE DEF rw2
  <2>4. CleanRow(rw2)
    BY <2>1, <2>3
  <2>. QED
    BY <2>4, <1>2, Zenon DEF Apply, rw2
<1>3. CASE w.kind = "success"
  <2>1. CleanRow(SuccessWrite(rw, w))
    BY <1>3 DEF SuccessWrite, Row
  <2>. QED
    BY <2>1, <1>3, Zenon DEF Apply
<1>4. CASE w.kind = "resetBan"
  <2>1. CleanRow([rw EXCEPT !.ban = 0])
    BY DEF Row
  <2>. QED
    BY <2>1, <1>4, Zenon DEF Apply
<1>5. CASE w.kind = "recover"
  <2>1. CleanRow([rw EXCEPT !.status = "ready", !.cooldown = 0])
    BY DEF Row
  <2>. QED
    BY <2>1, <1>5, Zenon DEF Apply
<1>6. CASE w.kind = "setReady"
  <2>1. CleanRow([rw EXCEPT !.status = "ready"])
    BY DEF Row
  <2>. QED
    BY <2>1, <1>6, Zenon DEF Apply
<1>. QED
  BY <1>1, <1>2, <1>3, <1>4, <1>5, <1>6

\* ... its row too, whoever writes it, ...
LEMMA CleanRowKept ==
  ASSUME BanThreshold > 1, DirectTypeOK, [DirectNext]_directVars,
         NEW c \in Conn, Clean(c), ~Blames(c)
  PROVE  CleanRow(row'[c])
<1>0. /\ row \in [Conn -> Row] /\ row[c] \in Row /\ queue \in Seq(Writes)
      /\ BanThreshold > 1 /\ CleanRow(row[c])
  BY DEF DirectTypeOK, TypeOK, Clean
<1>1. UNCHANGED row => CleanRow(row'[c])
  BY <1>0
<1>2. CASE Drain
  <2>1. queue # <<>> /\ row' = [row EXCEPT ![Head(queue).conn] = Apply(row[Head(queue).conn], Head(queue))]
    BY <1>2 DEF Drain
  <2>2. Head(queue) \in Writes /\ Head(queue) = queue[1] /\ 1 \in DOMAIN queue
    BY <1>0, <2>1
  <2>3. Head(queue).conn = c => CleanRow(Apply(row[c], Head(queue)))
    BY <1>0, <2>2, AppliedClean DEF Clean, CleanQueue
  <2>. QED
    BY <1>0, <2>1, <2>3
<1>3. CASE Restart \/ Tick \/ SpotRows \/ Recover
  BY <1>1, <1>3 DEF Restart, Tick, SpotRows, Recover
<1>4. ASSUME NEW r \in Request, Start(r) \/ Route(r) \/ Handle(r) PROVE CleanRow(row'[c])
  BY <1>1, <1>4 DEF Start, Route, Consider, Heal, Check, NextPass, Handle, ResetBan, EnqueueResetBan,
       PersistSuccess, EnqueueSuccess, SuccessRecorded, Finish, Fail, PersistCooldown, EnqueueCooldown,
       CheckAutoDisable, AutoDisable
<1>5. ASSUME NEW d \in Conn, Spot(d) \/ Refresh(d) PROVE CleanRow(row'[c])
  BY <1>1, <1>5 DEF Spot, SpotEntry, RecoverRow, Refresh, StartRefresh, Refreshed, RefreshFailed, RefreshRecorded
<1>6. ASSUME NEW d \in Conn, Administer(d) PROVE CleanRow(row'[c])
  <2>1. ASSUME NEW active \in BOOLEAN, SetActive(d, active) PROVE CleanRow(row'[c])
    <3>1. d = c => active
      BY <2>1 DEF Blames
    <3>2. active => row' = [row EXCEPT ![d] = [row[d] EXCEPT !.active = TRUE, !.status = "ready"]]
      BY <2>1 DEF SetActive, WriteRow
    <3>3. CASE d = c
      <4>1. CleanRow([row[c] EXCEPT !.active = TRUE, !.status = "ready"])
        BY <1>0 DEF CleanRow, Row
      <4>. QED
        BY <1>0, <3>1, <3>2, <3>3, <4>1
    <3>4. CASE d # c
      BY <1>0, <2>1, <3>4 DEF SetActive, WriteRow
    <3>. QED
      BY <3>3, <3>4
  <2>2. ASSUME NEW status \in {"ready", "disabled"}, PutStatus(d, status) PROVE CleanRow(row'[c])
    <3>1. d = c => status = "ready"
      BY <2>2 DEF Blames
    <3>2. CleanRow([row[c] EXCEPT !.status = "ready"])
      BY <1>0 DEF CleanRow, Row
    <3>. QED
      BY <1>0, <2>2, <3>1, <3>2 DEF PutStatus, WriteRow
  <2>3. CASE Reset(d)
    <3>1. CleanRow([row[c] EXCEPT !.status = "ready", !.cooldown = 0])
      BY <1>0 DEF CleanRow, Row
    <3>. QED
      BY <1>0, <2>3, <3>1 DEF Reset, WriteRow
  <2>. QED
    BY <1>1, <1>6, <2>1, <2>2, <2>3 DEF Administer, TestFailed
<1>7. CASE TestWritten
  <2>1. row' = [row EXCEPT ![admin.conn] = TestedRow(row[admin.conn], admin.det)]
    BY <1>7 DEF TestWritten
  <2>2. admin.conn = c => admin.det.status # "disabled"
    BY <1>7 DEF TestWritten, Clean, CleanCalls
  <2>3. admin.det.status # "disabled" => CleanRow(TestedRow(row[c], admin.det))
    BY <1>0 DEF TestedRow, CleanRow, Row
  <2>. QED
    BY <1>0, <2>1, <2>2, <2>3
<1>8. CASE WriteStatus
  <2>1. row' = [row EXCEPT ![fetch.conn] = ReportedRow(row[fetch.conn], fetch.status)]
    BY <1>8 DEF WriteStatus
  <2>2. fetch.conn = c => fetch.status = "ready"
    BY <1>8 DEF WriteStatus, Clean, CleanCalls
  <2>3. CleanRow(ReportedRow(row[c], "ready"))
    BY <1>0 DEF ReportedRow, CleanRow, Row
  <2>. QED
    BY <1>0, <2>1, <2>2, <2>3
<1>9. CASE (\E d \in Conn, report \in Reports : ReadStatus(d, report)) \/ Sync \/ SyncStatus \/ UNCHANGED directVars
  BY <1>1, <1>9 DEF ReadStatus, Sync, SyncStatus, directVars, vars
<1>. QED
  BY <1>2, <1>3, <1>4, <1>5, <1>6, <1>7, <1>8, <1>9 DEF DirectNext, Work

\* ... and so does what is on the way to either: the queue, ...
LEMMA CleanEnqueue ==
  ASSUME NEW c \in Conn, CleanQueue(c), queue \in Seq(Writes), NEW w \in Writes, Enqueue(w),
         w.conn = c => CleanWrite(w)
  PROVE  CleanQueue(c)'
<1>1. CASE Len(queue) < QueueCap
  <2>1. queue' = Append(queue, w)
    BY <1>1 DEF Enqueue
  <2>2. ASSUME NEW i \in DOMAIN queue', queue'[i].conn = c PROVE CleanWrite(queue'[i])
    <3>1. queue'[i] = w \/ (i \in DOMAIN queue /\ queue'[i] = queue[i])
      BY <2>1
    <3>. QED
      BY <2>2, <3>1 DEF CleanQueue
  <2>. QED
    BY <2>2 DEF CleanQueue, CleanWrite
<1>2. CASE ~(Len(queue) < QueueCap)
  BY <1>2 DEF Enqueue, CleanQueue, CleanWrite
<1>. QED
  BY <1>1, <1>2

LEMMA CleanQueueKept ==
  ASSUME BanThreshold > 1, DirectTypeOK, [DirectNext]_directVars,
         NEW c \in Conn, Clean(c), ~Blames(c)
  PROVE  CleanQueue(c)'
<1>0. /\ queue \in Seq(Writes) /\ CleanQueue(c) /\ TypeOK /\ now \in Nat
      /\ mem \in [Conn -> ConnectionState] /\ row \in [Conn -> Row] /\ CleanEntry(mem[c])
  BY DEF DirectTypeOK, TypeOK, Clean
<1>1. UNCHANGED queue => CleanQueue(c)'
  BY <1>0 DEF CleanQueue, CleanWrite
<1>2. ASSUME NEW w \in Writes, Enqueue(w), w.conn = c => CleanWrite(w) PROVE CleanQueue(c)'
  BY <1>0, <1>2, CleanEnqueue
<1>3. ASSUME NEW r \in Request, Start(r) \/ Route(r) PROVE CleanQueue(c)'
  BY <1>1, <1>3 DEF Start, Route, Consider, Heal, Check, NextPass
<1>4. ASSUME NEW r \in Request, Handle(r) PROVE CleanQueue(c)'
  <2>. DEFINE d == req[r].conn
  <2>0. /\ req[r].pc \notin {"idle", "pick"} => d \in Conn
        /\ req[r].pc \in Failing => req[r].det \in Detection
    BY <1>0 DEF TypeOK
  <2>1. CASE EnqueueResetBan(r)
    <3>. DEFINE w == [kind |-> "resetBan", conn |-> d]
    <3>1. w \in Writes /\ CleanWrite(w) /\ Enqueue(w)
      BY <2>0, <2>1, WriteTypes DEF EnqueueResetBan, CleanWrite
    <3>. QED
      BY <1>2, <3>1
  <2>2. CASE EnqueueSuccess(r)
    <3>. DEFINE w == [kind |-> "success", conn |-> d, at |-> now]
    <3>1. w \in Writes /\ CleanWrite(w) /\ Enqueue(w)
      BY <1>0, <2>0, <2>2, WriteTypes DEF EnqueueSuccess, CleanWrite
    <3>. QED
      BY <1>2, <3>1
  <2>3. CASE EnqueueCooldown(r)
    <3>. DEFINE det == req[r].det
                w == [kind |-> "cooldown", conn |-> d, status |-> det.status, until |-> det.until]
    <3>1. req[r].pc = "enqueue" /\ Enqueue(w)
      BY <2>3 DEF EnqueueCooldown
    <3>2. d \in Conn /\ det.status \in Statuses /\ det.until \in Nat
      BY <2>0, <3>1 DEF Failing, Detection
    <3>3. w \in Writes
      BY <3>2, WriteTypes
    <3>4. d = c => det.status # "disabled"
      BY <3>1 DEF Clean, CleanRequests, CleanRequest
    <3>5. w.conn = c => CleanWrite(w)
      BY <3>4 DEF CleanWrite
    <3>. HIDE DEF w
    <3>. QED
      BY <1>2, <3>1, <3>3, <3>5
  <2>4. CASE CheckAutoDisable(r)
    <3>. DEFINE w == [kind |-> "ban", conn |-> d, ban |-> mem[d].ban]
    <3>1. req[r].pc = "strike" /\ (UNCHANGED queue \/ Enqueue(w))
      BY <2>4 DEF CheckAutoDisable
    <3>2. d \in Conn
      BY <2>0, <3>1
    <3>3. mem[d].ban \in 0..BanThreshold
      BY <1>0, <3>2 DEF ConnectionState
    <3>4. w \in Writes
      BY <3>2, <3>3, WriteTypes
    <3>5. w.conn = c => CleanWrite(w)
      BY <1>0 DEF CleanWrite, CleanEntry
    <3>. HIDE DEF w
    <3>. QED
      BY <1>1, <1>2, <3>1, <3>4, <3>5
  <2>. QED
    BY <1>1, <1>4, <2>1, <2>2, <2>3, <2>4
       DEF Handle, ResetBan, PersistSuccess, SuccessRecorded, Finish, Fail, PersistCooldown, AutoDisable
<1>5. ASSUME NEW d \in Conn, RecoverRow(d) PROVE CleanQueue(c)'
  <2>. DEFINE w == [kind |-> "recover", conn |-> d]
  <2>1. w \in Writes /\ CleanWrite(w) /\ Enqueue(w)
    BY <1>5, WriteTypes DEF RecoverRow, CleanWrite
  <2>. QED
    BY <1>2, <2>1
<1>6. ASSUME NEW d \in Conn, NEW outcome \in {"setReady", "authFailed"}, Refreshed(d, outcome) PROVE CleanQueue(c)'
  <2>. DEFINE w == [kind |-> outcome, conn |-> d]
  <2>1. w \in Writes /\ Enqueue(w)
    BY <1>6, WriteTypes DEF Refreshed
  <2>2. d = c => outcome = "setReady"
    BY <1>6 DEF Blames
  <2>3. w.conn = c => CleanWrite(w)
    BY <2>2 DEF CleanWrite
  <2>. HIDE DEF w
  <2>. QED
    BY <1>2, <2>1, <2>3
<1>7. ASSUME NEW d \in Conn, SpotEntry(d) \/ StartRefresh(d) \/ RefreshFailed(d) \/ RefreshRecorded(d)
      PROVE  CleanQueue(c)'
  BY <1>1, <1>7 DEF SpotEntry, StartRefresh, RefreshFailed, RefreshRecorded
<1>8. CASE Drain
  <2>1. queue # <<>> /\ queue' = Tail(queue)
    BY <1>8 DEF Drain
  <2>2. ASSUME NEW i \in DOMAIN queue', queue'[i].conn = c PROVE CleanWrite(queue'[i])
    <3>1. i + 1 \in DOMAIN queue /\ queue'[i] = queue[i + 1]
      BY <1>0, <2>1
    <3>. QED
      BY <1>0, <2>2, <3>1 DEF CleanQueue
  <2>. QED
    BY <2>2 DEF CleanQueue, CleanWrite
<1>9. CASE Restart
  <2>1. queue' = <<>>
    BY <1>9 DEF Restart
  <2>. QED
    BY <2>1 DEF CleanQueue
<1>10. CASE SpotRows \/ Recover \/ Tick
  BY <1>1, <1>10 DEF SpotRows, Recover, Tick
<1>11. ASSUME NEW d \in Conn, Administer(d) PROVE CleanQueue(c)'
  BY <1>1, <1>11 DEF Administer, SetActive, PutStatus, Reset, WriteRow, TestFailed
<1>12. CASE (\E d \in Conn, report \in Reports : ReadStatus(d, report))
            \/ Sync \/ TestWritten \/ WriteStatus \/ SyncStatus \/ UNCHANGED directVars
  BY <1>1, <1>12 DEF ReadStatus, Sync, TestWritten, WriteStatus, SyncStatus, directVars, vars
<1>. QED
  BY <1>3, <1>4, <1>5, <1>6, <1>7, <1>8, <1>9, <1>10, <1>11, <1>12 DEF DirectNext, Work, Spot, Refresh

\* ... the requests, ...
LEMMA CleanRequestsKept ==
  ASSUME BanThreshold > 1, DirectTypeOK, [DirectNext]_directVars,
         NEW c \in Conn, Clean(c), ~Blames(c)
  PROVE  CleanRequests(c)'
<1>0. /\ TypeOK /\ req \in [Request -> Requests] /\ CleanRequests(c) /\ BanThreshold > 1
      /\ BanThreshold \in Nat /\ now \in Nat /\ Failures \subseteq Categories
      /\ mem \in [Conn -> ConnectionState] /\ CleanEntry(mem[c])
  BY ConnHealthAssumption, ConnStateAssumption DEF DirectTypeOK, TypeOK, Clean
<1>1. UNCHANGED req => CleanRequests(c)'
  BY <1>0 DEF CleanRequests, CleanRequest
<1>2. ASSUME NEW r \in Request, NEW x, req' = [req EXCEPT ![r] = x], x.conn = c => CleanRequest(x)
      PROVE  CleanRequests(c)'
  <2>1. ASSUME NEW q \in Request, req'[q].conn = c PROVE CleanRequest(req'[q])
    <3>1. req'[q] = x \/ req'[q] = req[q]
      BY <1>0, <1>2
    <3>. QED
      BY <1>0, <1>2, <2>1, <3>1 DEF CleanRequests
  <2>. QED
    BY <2>1 DEF CleanRequests, CleanRequest
<1>3. \A x : x.pc \notin {"disable", "persist", "enqueue"} => CleanRequest(x)
  BY DEF CleanRequest
<1>4. ASSUME NEW r \in Request, NEW pc \in PCs \ {"disable", "persist", "enqueue"}, Goto(r, pc) PROVE CleanRequests(c)'
  <2>. DEFINE x == [req[r] EXCEPT !.pc = pc]
  <2>1. req' = [req EXCEPT ![r] = x] /\ x.pc = pc
    BY <1>0, <1>4 DEF Goto, Requests
  <2>. HIDE DEF x
  <2>. QED
    BY <1>2, <1>3, <2>1
<1>5. ASSUME NEW r \in Request, Start(r) \/ Route(r) PROVE CleanRequests(c)'
  <2>0. req[r] \in Requests /\ (req[r].pc \notin {"idle", "pick"} => req[r].conn \in Conn)
    BY <1>0 DEF TypeOK
  <2>1. CASE Start(r)
    <3>1. \A m \in Model : Attempt(m, 1, NoConn).pc = "pick"
      BY Attempts, ConnHealthAssumption
    <3>. QED
      BY <1>2, <1>3, <2>1, <3>1 DEF Start
  <2>2. ASSUME NEW d \in Conn, Consider(r, d) PROVE CleanRequests(c)'
    <3>1. Rejected(req[r], d).pc = "pick"
      BY <2>0, Rejections
    <3>2. PICK pc \in {"heal", "check"} :
            \/ req' = [req EXCEPT ![r] = Rejected(req[r], d)]
            \/ req' = [req EXCEPT ![r] = Considering(req[r], d, pc)]
      BY <2>2 DEF Consider
    <3>3. Considering(req[r], d, pc).pc = pc
      BY <2>0, Considerations
    <3>. QED
      BY <1>2, <1>3, <3>1, <3>2, <3>3
  <2>3. CASE Heal(r)
    BY <1>4, <2>3 DEF Heal, PCs
  <2>4. CASE Check(r)
    <3>1. req[r].conn \in Conn
      BY <2>0, <2>4 DEF Check
    <3>2. Rejected(req[r], req[r].conn).pc = "pick"
      BY <2>0, <3>1, Rejections
    <3>3. Goto(r, "inflight") \/ req' = [req EXCEPT ![r] = Rejected(req[r], req[r].conn)]
      BY <2>4 DEF Check
    <3>. QED
      BY <1>2, <1>3, <1>4, <3>2, <3>3 DEF PCs
  <2>5. CASE NextPass(r)
    <3>1. Passed(req[r]).pc \in {"idle", "pick"} /\ req' = [req EXCEPT ![r] = Passed(req[r])]
      BY <2>0, <2>5, Passes DEF NextPass
    <3>. QED
      BY <1>2, <1>3, <3>1
  <2>. QED
    BY <1>5, <2>1, <2>2, <2>3, <2>4, <2>5 DEF Route
<1>6. ASSUME NEW r \in Request, Handle(r) PROVE CleanRequests(c)'
  <2>0. /\ req[r] \in Requests /\ (req[r].pc \notin {"idle", "pick"} => req[r].conn \in Conn)
        /\ Failover(req[r]).pc \in {"idle", "pick"} /\ Idle.pc = "idle"
    BY <1>0, Failovers, Idles DEF TypeOK
  <2>1. CASE ResetBan(r)
    <3>1. Goto(r, "unbanned") \/ Goto(r, "succeeded")
      BY <2>1 DEF ResetBan
    <3>. QED
      BY <1>4, <3>1 DEF PCs
  <2>2. CASE EnqueueResetBan(r) \/ PersistSuccess(r) \/ EnqueueSuccess(r) \/ SuccessRecorded(r) \/ EnqueueCooldown(r)
    BY <1>4, <2>2 DEF EnqueueResetBan, PersistSuccess, EnqueueSuccess, SuccessRecorded, EnqueueCooldown, PCs
  <2>3. CASE Finish(r)
    BY <1>2, <1>3, <2>0, <2>3 DEF Finish
  <2>4. ASSUME NEW category \in Failures, Fail(r, category) PROVE CleanRequests(c)'
    <3>. DEFINE det == DetectError(category, now)
                x == Failed(req[r], det)
    <3>1. req' = [req EXCEPT ![r] = x]
      BY <2>4 DEF Fail
    <3>2. det \in Detection /\ (det.status = "disabled" => category \in Refusals)
      BY <1>0, Detections, Verdicts
    <3>3. x.conn = req[r].conn /\ x.det = det /\ x.pc = "persist"
      BY <2>0, <3>2, FailedRecords
    <3>4. req[r].conn = c => category \notin Refusals
      BY <2>4 DEF Blames
    <3>. HIDE DEF det, x
    <3>5. x.conn = c => CleanRequest(x)
      BY <3>2, <3>3, <3>4 DEF CleanRequest
    <3>. QED
      BY <1>2, <3>1, <3>5
  <2>5. CASE PersistCooldown(r)
    <3>. DEFINE x == [req[r] EXCEPT !.pc = "enqueue"]
    <3>1. req' = [req EXCEPT ![r] = x] /\ req[r].pc = "persist"
      BY <2>5 DEF PersistCooldown, Goto
    <3>2. x.conn = req[r].conn /\ x.det = req[r].det /\ x.pc = "enqueue"
      BY <2>0 DEF Requests
    <3>. HIDE DEF x
    <3>3. x.conn = c => CleanRequest(x)
      BY <1>0, <3>1, <3>2 DEF CleanRequests, CleanRequest
    <3>. QED
      BY <1>2, <3>1, <3>3
  <2>6. CASE CheckAutoDisable(r)
    <3>. DEFINE x == [req[r] EXCEPT !.pc = "disable"]
    <3>1. \/ req' = [req EXCEPT ![r] = Failover(req[r])]
          \/ req' = [req EXCEPT ![r] = x] /\ mem[req[r].conn].ban >= BanThreshold
      BY <2>6 DEF CheckAutoDisable, Goto
    <3>2. x.conn = req[r].conn
      BY <2>0 DEF Requests
    <3>3. mem[c] \in ConnectionState /\ ~(mem[c].ban >= BanThreshold)
      BY <1>0 DEF CleanEntry, ConnectionState
    <3>. HIDE DEF x
    <3>. QED
      BY <1>2, <1>3, <2>0, <3>1, <3>2, <3>3
  <2>7. CASE AutoDisable(r)
    BY <1>2, <1>3, <2>0, <2>7 DEF AutoDisable
  <2>. QED
    BY <1>6, <2>1, <2>2, <2>3, <2>4, <2>5, <2>6, <2>7 DEF Handle
<1>7. CASE Restart
  <2>1. \A r \in Request : req'[r].pc = "idle"
    BY <1>7, Idles DEF Restart
  <2>. QED
    BY <2>1 DEF CleanRequests, CleanRequest
<1>8. CASE (\E d \in Conn : Spot(d) \/ Refresh(d)) \/ SpotRows \/ Recover \/ Drain \/ Tick
  BY <1>1, <1>8 DEF Spot, SpotEntry, RecoverRow, Refresh, StartRefresh, Refreshed, RefreshFailed, RefreshRecorded,
                    SpotRows, Recover, Drain, Tick
<1>9. ASSUME NEW d \in Conn, Administer(d) PROVE CleanRequests(c)'
  BY <1>1, <1>9 DEF Administer, SetActive, PutStatus, Reset, WriteRow, TestFailed
<1>10. CASE (\E d \in Conn, report \in Reports : ReadStatus(d, report))
            \/ Sync \/ TestWritten \/ WriteStatus \/ SyncStatus \/ UNCHANGED directVars
  BY <1>1, <1>10 DEF ReadStatus, Sync, TestWritten, WriteStatus, SyncStatus, directVars, vars
<1>. QED
  BY <1>5, <1>6, <1>7, <1>8, <1>9, <1>10 DEF DirectNext, Work

\* ... and the refreshes, administrative calls and quota reports.
LEMMA CleanCallsKept ==
  ASSUME BanThreshold > 1, DirectTypeOK, [DirectNext]_directVars,
         NEW c \in Conn, Clean(c), ~Blames(c)
  PROVE  CleanCalls(c)'
<1>0. /\ TypeOK /\ CleanCalls(c) /\ now \in Nat /\ Failures \subseteq Categories
      /\ refresh \in [Conn -> {"no", "running", "setReady", "authFailed"}]
      /\ admin \in Admins /\ fetch \in Fetches
  BY ConnHealthAssumption DEF DirectTypeOK, TypeOK, Clean
<1>. DEFINE AdminOK(a) == /\ a.act \in {"sync", "syncAndClear"} /\ a.conn = c => a.status = "ready"
                          /\ a.act = "test" /\ a.conn = c => a.det.status # "disabled"
            FetchOK(f) == f.act \in {"write", "sync"} /\ f.conn = c => f.status = "ready"
<1>1. /\ refresh[c] # "authFailed" /\ AdminOK(admin) /\ FetchOK(fetch)
      /\ (refresh'[c] # "authFailed" /\ AdminOK(admin') /\ FetchOK(fetch') => CleanCalls(c)')
  BY <1>0 DEF CleanCalls
<1>2. AdminOK(NoAdmin) /\ FetchOK(NoFetch)
  BY DEF NoAdmin, NoFetch
<1>. HIDE DEF AdminOK, FetchOK
<1>3. UNCHANGED <<refresh, admin, fetch>> => CleanCalls(c)'
  BY <1>1
<1>4. CASE UNCHANGED <<admin, fetch>> /\ ((\E r \in Request : Start(r) \/ Route(r) \/ Handle(r)) \/ (\E d \in Conn : Spot(d))
                                          \/ SpotRows \/ Recover \/ Drain \/ Tick)
  BY <1>3, <1>4 DEF Start, Route, Consider, Heal, Check, NextPass, Handle, ResetBan, EnqueueResetBan, PersistSuccess,
       EnqueueSuccess, SuccessRecorded, Finish, Fail, PersistCooldown, EnqueueCooldown, CheckAutoDisable, AutoDisable,
       Spot, SpotEntry, RecoverRow, SpotRows, Recover, Drain, Tick
<1>5. ASSUME NEW d \in Conn, Refresh(d), UNCHANGED <<admin, fetch>> PROVE CleanCalls(c)'
  <2>1. ASSUME NEW outcome \in {"setReady", "authFailed"}, Refreshed(d, outcome) PROVE refresh'[c] # "authFailed"
    <3>1. d = c => outcome = "setReady"
      BY <2>1 DEF Blames
    <3>. QED
      BY <1>0, <1>1, <2>1, <3>1 DEF Refreshed
  <2>2. ASSUME StartRefresh(d) \/ RefreshFailed(d) \/ RefreshRecorded(d) PROVE refresh'[c] # "authFailed"
    <3>1. refresh' = [refresh EXCEPT ![d] = "running"] \/ refresh' = [refresh EXCEPT ![d] = "no"]
      BY <2>2, Zenon DEF StartRefresh, RefreshFailed, RefreshRecorded
    <3>2. refresh'[c] # "authFailed"
      BY <1>0, <1>1, <3>1
    <3>. QED
      BY <3>2
  <2>3. refresh'[c] # "authFailed"
    BY <1>5, <2>1, <2>2, Zenon DEF Refresh
  <2>. QED
    BY <1>1, <1>5, <2>3
<1>6. CASE Restart /\ admin' = NoAdmin /\ fetch' = NoFetch
  BY <1>1, <1>2, <1>6 DEF Restart
<1>7. ASSUME NEW d \in Conn, NEW rw, NEW act, NEW s, WriteRow(d, rw, act, s), d = c => s = "ready", act # "test"
      PROVE  CleanCalls(c)'
  <2>1. AdminOK(admin')
    BY <1>7 DEF WriteRow, AdminOK
  <2>. QED
    BY <1>1, <1>7, <2>1 DEF WriteRow
<1>8. ASSUME NEW d \in Conn, Administer(d) PROVE CleanCalls(c)'
  <2>1. ASSUME NEW active \in BOOLEAN, SetActive(d, active) PROVE CleanCalls(c)'
    <3>. DEFINE status == IF active THEN "ready" ELSE "disabled"
    <3>1. d = c => status = "ready"
      BY <2>1 DEF Blames
    <3>2. WriteRow(d, [row[d] EXCEPT !.active = active, !.status = status], "sync", status)
      BY <2>1 DEF SetActive
    <3>. HIDE DEF status
    <3>. QED
      BY <1>7, <3>1, <3>2
  <2>2. ASSUME NEW status \in {"ready", "disabled"}, PutStatus(d, status) PROVE CleanCalls(c)'
    <3>1. d = c => status = "ready"
      BY <2>2 DEF Blames
    <3>. QED
      BY <1>7, <2>2, <3>1 DEF PutStatus
  <2>3. CASE Reset(d)
    BY <1>7, <2>3 DEF Reset
  <2>4. ASSUME NEW category \in Failures, TestFailed(d, category) PROVE CleanCalls(c)'
    <3>. DEFINE det == DetectError(category, now)
    <3>1. det.status = "disabled" => category \in Refusals
      BY <1>0, Verdicts
    <3>2. d = c => category \notin Refusals
      BY <2>4 DEF Blames
    <3>3. admin' = [act |-> "test", conn |-> d, det |-> det] /\ UNCHANGED <<refresh, fetch>>
      BY <2>4 DEF TestFailed
    <3>. HIDE DEF det
    <3>4. AdminOK(admin')
      BY <3>1, <3>2, <3>3 DEF AdminOK
    <3>. QED
      BY <1>1, <3>3, <3>4
  <2>. QED
    BY <1>8, <2>1, <2>2, <2>3, <2>4 DEF Administer
<1>9. ASSUME NEW d \in Conn, NEW report \in Reports, ReadStatus(d, report) PROVE CleanCalls(c)'
  <2>1. d = c => report \notin {"rejected", "exhausted"}
    BY <1>9 DEF Blames
  <2>2. report \in {"ok", "exhausted", "rejected"}
    BY DirectAssumption DEF AllReports
  <2>3. fetch' = [act |-> "write", conn |-> d, status |-> ReportedStatus[report]]
        /\ UNCHANGED <<refresh, admin>>
    BY <1>9 DEF ReadStatus, vars
  <2>4. d = c => ReportedStatus[report] = "ready"
    BY <2>1, <2>2 DEF ReportedStatus
  <2>5. FetchOK(fetch')
    BY <2>3, <2>4 DEF FetchOK
  <2>. QED
    BY <1>1, <2>3, <2>5
<1>10. CASE Sync \/ TestWritten
  BY <1>1, <1>2, <1>10 DEF Sync, TestWritten
<1>11. CASE WriteStatus
  <2>1. fetch \in [act: {"write", "sync"}, conn: Conn, status: Statuses]
    BY <1>0, <1>11 DEF WriteStatus, Fetches, NoFetch
  <2>2. fetch'.conn = fetch.conn /\ fetch'.status = fetch.status /\ fetch.act = "write"
        /\ UNCHANGED <<refresh, admin>>
    BY <1>11, <2>1 DEF WriteStatus
  <2>3. FetchOK(fetch')
    BY <1>1, <2>2 DEF FetchOK
  <2>. QED
    BY <1>1, <2>2, <2>3
<1>12. CASE SyncStatus
  BY <1>1, <1>2, <1>12 DEF SyncStatus
<1>13. CASE UNCHANGED directVars
  BY <1>3, <1>13 DEF directVars, vars
<1>. QED
  BY <1>4, <1>5, <1>6, <1>8, <1>9, <1>10, <1>11, <1>12, <1>13 DEF DirectNext, Work

\* The inductive invariant: what was never blamed is clean.
CauseInv == \A c \in Conn \ blamed : Clean(c)

LEMMA StepCauses ==
  ASSUME BanThreshold > 1
  PROVE  DirectTypeOK /\ CauseInv /\ [CauseNext]_causeVars => CauseInv'
<1>. SUFFICES ASSUME DirectTypeOK, CauseInv, [CauseNext]_causeVars, NEW c \in Conn, c \notin blamed'
              PROVE  Clean(c)'
  BY DEF CauseInv
<1>1. CASE CauseNext
  <2>1. c \notin blamed /\ ~Blames(c) /\ [DirectNext]_directVars
    BY <1>1 DEF CauseNext, Remember
  <2>2. Clean(c)
    BY <2>1 DEF CauseInv
  <2>3. CleanEntry(mem'[c]) /\ CleanRow(row'[c]) /\ CleanQueue(c)' /\ CleanRequests(c)' /\ CleanCalls(c)'
    BY <2>1, <2>2, CleanEntryKept, CleanRowKept, CleanQueueKept, CleanRequestsKept, CleanCallsKept
  <2>. QED
    BY <2>3 DEF Clean
<1>2. CASE UNCHANGED causeVars
  <2>1. Clean(c)
    BY <1>2 DEF CauseInv, causeVars
  <2>2. UNCHANGED <<mem, row, queue, req, refresh, admin, fetch>>
    BY <1>2 DEF causeVars, directVars, vars
  <2>. QED
    BY <2>1, <2>2 DEF Clean, CleanQueue, CleanRequests, CleanCalls
<1>. QED
  BY <1>1, <1>2

\* Nothing disables a connection that upstream never rejected, no report found exhausted
\* and nobody switched off - neither limits, exhausted quotas and server errors, however
\* many requests and tests meet them and however often, nor the schedulers, the queue or
\* a restart.  A threshold of one would be reached by a single test of an exhausted
\* account, which counts one.
THEOREM NothingDisablesWithoutCause == ASSUME BanThreshold > 1 PROVE CauseSpec => []DisabledForCause
<1>1. CauseInit => DirectTypeOK /\ CauseInv
  <2>. SUFFICES ASSUME CauseInit PROVE DirectTypeOK /\ CauseInv
    OBVIOUS
  <2>1. DirectTypeOK
    BY InitTypes DEF CauseInit, DirectInit, DirectTypeOK, Admins, Fetches, NoAdmin, NoFetch
  <2>2. ASSUME NEW c \in Conn PROVE Clean(c)
    <3>1. row[c] = [active |-> TRUE, status |-> "ready", cooldown |-> 0, ban |-> 0] /\ mem[c] = Seed(row[c]) /\ now = 1
      BY DEF CauseInit, DirectInit, Init
    <3>2. CleanRow(row[c])
      BY <3>1 DEF CleanRow
    <3>3. CleanEntry(mem[c])
      BY <3>1 DEF Seed, CleanEntry, Healable
    <3>4. CleanQueue(c) /\ CleanRequests(c)
      BY Idles DEF CauseInit, DirectInit, Init, CleanQueue, CleanRequests, CleanRequest
    <3>5. CleanCalls(c)
      BY DEF CauseInit, DirectInit, Init, CleanCalls, NoAdmin, NoFetch
    <3>. QED
      BY <3>2, <3>3, <3>4, <3>5 DEF Clean
  <2>. QED
    BY <2>1, <2>2 DEF CauseInv
<1>2. DirectTypeOK /\ CauseInv /\ [CauseNext]_causeVars => DirectTypeOK' /\ CauseInv'
  <2>1. [CauseNext]_causeVars => [DirectNext]_directVars
    BY DEF CauseNext, causeVars
  <2>. QED
    BY <2>1, DirectTypes, StepCauses
<1>3. CauseInv => DisabledForCause
  BY DEF CauseInv, Clean, CleanEntry, CleanRow, DisabledForCause
<1>. QED
  BY <1>1, <1>2, <1>3, PTL DEF CauseSpec
=============================================================================
