------------------------- MODULE ComboRoutingProofs -------------------------
(***************************************************************************)
(* What holds of any number of requests, combos, connections and models:   *)
(* the clean-up loses nothing of a breaker that stays in use, and every    *)
(* request comes nearer to its end.                                        *)
(* And of a combo whose steps are asked at once, in the last part: results *)
(* are neither lost nor counted twice, and enough of them are waited for.  *)
(***************************************************************************)
EXTENDS ComboRouting, Fusion, SequenceTheorems, FiniteSetTheorems, TLAPS

\* A request under way has a step to try, and from "load" to the end of the
\* attempt a connection.  Its breaker can be dropped only while it has it in
\* hand, and only a failure is noted of an answer that had begun.
RequestOK(rq) ==
  rq # Idle =>
    /\ rq.steps # <<>>
    /\ rq.pc \in {"load", "sent", "hold", "note", "stream"} => rq.conn \in Conn
    /\ rq.lost => rq.pc = "hold"
    /\ rq.streamed => rq.pc \in {"hold", "note"} /\ rq.outcome \in Failures

\* The prober is at a lock from the test until its answer has been recorded.
ProbeAt == probe.pc \in {"sent", "renewed", "cleared"} => probe.at \in Conn \X Model

Typed == RoutingTypeOK /\ ProbeAt /\ \A r \in Request : RequestOK(request[r])

\* A connection out of the store, or out of what the clean-up has found in it,
\* has been out of it; so has one whose breaker was dropped out of a request's hand.
Absent ==
  /\ Conn \ store \subseteq gone
  /\ Conn \ active \subseteq gone
  /\ \A r \in Request : request[r] # Idle /\ request[r].lost => request[r].conn \in gone

BreakerInv == Absent /\ BreakerKept

USE ComboRoutingAssumption

-----------------------------------------------------------------------------
(* The breaker. *)

LEMMA FreshTyped == Fresh \in Breakers
  BY DEF Fresh, Breakers

LEMMA FailureTyped == ASSUME NEW b \in Breakers PROVE AfterFailure(b) \in Breakers
<1>1. Tripped \in Breakers BY DEF Tripped, Breakers
<1>2. CASE b.state = "closed" /\ b.fails + 1 < FailureThreshold
  <2>1. b.fails + 1 \in 0..FailureThreshold BY <1>2 DEF Breakers
  <2> QED BY <1>2, <2>1 DEF AfterFailure, Breakers
<1> QED BY <1>1, <1>2 DEF AfterFailure

LEMMA SuccessTyped == ASSUME NEW b \in Breakers PROVE AfterSuccess(b) \in Breakers
<1>1. CASE b.state = "half_open" /\ b.succs + 1 < SuccessThreshold
  <2>1. b.succs + 1 \in 0..SuccessThreshold BY <1>1 DEF Breakers
  <2>2. AfterSuccess(b) = [b EXCEPT !.succs = @ + 1] BY <1>1 DEF AfterSuccess
  <2> QED BY <2>1, <2>2 DEF Breakers
<1>2. CASE ~(b.state = "half_open" /\ b.succs + 1 < SuccessThreshold)
  <2>1. b.state \in {"closed", "open", "half_open"} BY DEF Breakers
  <2> QED BY <1>2, <2>1, FreshTyped DEF AfterSuccess
<1> QED BY <1>1, <1>2

LEMMA AskedTyped == ASSUME NEW b \in Breakers PROVE Asked(b) \in Breakers
  BY DEF Asked, Breakers

-----------------------------------------------------------------------------
(* One request moves on: what its next record must be. *)

Moves(r, new) ==
  /\ new \in Working \cup {Idle}
  /\ RequestOK(new)
  /\ new # Idle => ~new.lost
  /\ request[r] # Idle => Nearer(new, request[r])
  /\ request' = [request EXCEPT ![r] = new]

LEMMA IdleApart == \A rq \in Working : rq.pc # "idle" /\ rq # Idle
  BY DEF Working, Idle

LEMMA Under ==
  ASSUME Typed, NEW r \in Request, ~At(r, "idle")
  PROVE  /\ request[r] \in Working /\ request[r] # Idle
         /\ request[r].steps # <<>> /\ ModelOf(r) \in Model
<1>1. request[r] \in Working BY DEF Typed, RoutingTypeOK, At, Idle
<1>2. request[r] # Idle BY <1>1, IdleApart
<1>3. request[r].steps # <<>> /\ request[r].steps \in Seq(Model)
  BY <1>1, <1>2 DEF Typed, RequestOK, Working
<1> QED BY <1>1, <1>2, <1>3, HeadTailProperties DEF ModelOf

LEMMA RequestedOK ==
  ASSUME NEW combo \in BOOLEAN, NEW steps \in Seq(Model), steps # <<>>
  PROVE  /\ Requested(combo, steps) \in Working /\ RequestOK(Requested(combo, steps))
         /\ ~Requested(combo, steps).lost /\ Requested(combo, steps).steps = steps
  BY DEF Requested, Working, RequestOK

LEMMA NextStepOK ==
  ASSUME NEW rq \in Working, rq.steps # <<>>
  PROVE  /\ NextStep(rq) \in Working \cup {Idle} /\ RequestOK(NextStep(rq))
         /\ NextStep(rq) # Idle => ~NextStep(rq).lost
         /\ Nearer(NextStep(rq), rq)
<1>1. CASE Len(rq.steps) = 1
  BY <1>1 DEF NextStep, RequestOK, Nearer
<1>2. CASE Len(rq.steps) # 1
  <2>1. rq.steps \in Seq(Model) /\ rq.combo \in BOOLEAN BY DEF Working
  <2>2. Tail(rq.steps) \in Seq(Model) /\ Len(Tail(rq.steps)) = Len(rq.steps) - 1
    BY <2>1, HeadTailProperties
  <2>3. Len(rq.steps) \in Nat \ {0} BY <2>1, EmptySeq
  <2>4. Tail(rq.steps) # <<>>
    <3>1. Len(Tail(rq.steps)) # 0 BY <1>2, <2>2, <2>3
    <3>2. Len(<<>>) = 0 BY <2>1, EmptySeq
    <3> QED BY <3>1, <3>2
  <2>5. NextStep(rq) = Requested(rq.combo, Tail(rq.steps)) BY <1>2 DEF NextStep
  <2>6. NextStep(rq).steps = Tail(rq.steps) BY <2>1, <2>2, <2>4, <2>5, RequestedOK
  <2>7. Len(Tail(rq.steps)) < Len(rq.steps) BY <2>2, <2>3
  <2> QED BY <2>1, <2>2, <2>4, <2>5, <2>6, <2>7, RequestedOK DEF Nearer
<1> QED BY <1>1, <1>2

LEMMA NextConnOK ==
  ASSUME NEW rq \in Working, rq.steps # <<>>, ~rq.lost, rq.pc \in {"load", "note"}
  PROVE  /\ NextConn(rq) \in Working /\ RequestOK(NextConn(rq)) /\ ~NextConn(rq).lost
         /\ Nearer(NextConn(rq), rq)
<1>1. NextConn(rq) \in Working BY DEF NextConn, Working
<1>2. /\ NextConn(rq).pc = "next" /\ NextConn(rq).steps = rq.steps /\ NextConn(rq).list = rq.list
      /\ ~NextConn(rq).lost /\ ~NextConn(rq).streamed
  BY DEF NextConn, Working
<1> QED BY <1>1, <1>2 DEF RequestOK, Nearer, Stage

-----------------------------------------------------------------------------
(* Every step of a request moves it on.                                    *)

LEMMA BeginMoves ==
  ASSUME Typed, NEW r \in Request, Begin(r)
  PROVE  \E new : Moves(r, new)
<1>1. request[r] = Idle BY IdleApart DEF Begin, At, Typed, RoutingTypeOK
<1>2. CASE \E steps \in Orders : request' = [request EXCEPT ![r] = Requested(TRUE, steps)]
  <2>1. PICK steps \in Orders : request' = [request EXCEPT ![r] = Requested(TRUE, steps)] BY <1>2
  <2>2. steps \in Seq(Model) /\ steps # <<>> OBVIOUS
  <2> QED BY <1>1, <2>1, <2>2, RequestedOK DEF Moves
<1>3. CASE \E m \in Model : request' = [request EXCEPT ![r] = Requested(FALSE, <<m>>)]
  <2>1. PICK m \in Model : request' = [request EXCEPT ![r] = Requested(FALSE, <<m>>)] BY <1>3
  <2>2. <<m>> \in Seq(Model) /\ <<m>> # <<>> OBVIOUS
  <2> QED BY <1>1, <2>1, <2>2, RequestedOK DEF Moves
<1> QED BY <1>2, <1>3 DEF Begin

LEMMA PickMoves ==
  ASSUME Typed, NEW r \in Request, NEW snapshot \in SUBSET Conn, Pick(r, snapshot)
  PROVE  \E new : Moves(r, new)
<1> DEFINE rq == request[r]
<1>1. rq \in Working /\ rq # Idle /\ rq.steps # <<>> /\ rq.pc = "pick" /\ RequestOK(rq)
  BY Under DEF Pick, At, Typed
<1>2. PICK list \in SUBSET Conn :
        request' = [request EXCEPT ![r] = [rq EXCEPT !.pc = "next", !.list = list]]
  BY Zenon DEF Pick
<1> DEFINE new == [rq EXCEPT !.pc = "next", !.list = list]
<1>3. new \in Working BY <1>1 DEF Working
<1>4. new.pc = "next" /\ new.steps = rq.steps /\ new.lost = rq.lost /\ new.streamed = rq.streamed
  BY <1>1 DEF Working
<1>5. RequestOK(new) /\ ~new.lost /\ Nearer(new, rq) BY <1>1, <1>4 DEF RequestOK, Nearer
<1> HIDE DEF new
<1> QED BY <1>2, <1>3, <1>5 DEF Moves, new

LEMMA PrepareMoves ==
  ASSUME Typed, NEW r \in Request, NEW c \in Conn, Prepare(r, c)
  PROVE  \E new : Moves(r, new)
<1> DEFINE rq == request[r]
           tried == [rq EXCEPT !.list = @ \ {c}]
           load == [rq EXCEPT !.list = @ \ {c}, !.pc = "load", !.conn = c]
<1>1. rq \in Working /\ rq # Idle /\ rq.steps # <<>> /\ rq.pc = "next" /\ RequestOK(rq) /\ c \in rq.list
  BY Under DEF Prepare, At, Typed
<1>2. request' = [request EXCEPT ![r] = tried] \/ request' = [request EXCEPT ![r] = load]
  BY DEF Prepare, Typed, RoutingTypeOK
<1>3. tried \in Working /\ load \in Working BY <1>1 DEF Working
<1>4. /\ tried.pc = "next" /\ tried.steps = rq.steps /\ tried.lost = rq.lost
      /\ tried.streamed = rq.streamed /\ tried.list = rq.list \ {c}
      /\ load.pc = "load" /\ load.steps = rq.steps /\ load.lost = rq.lost /\ load.conn = c
      /\ load.streamed = rq.streamed /\ load.list = rq.list \ {c}
  BY <1>1 DEF Working
<1>5. RequestOK(tried) /\ ~tried.lost /\ Nearer(tried, rq) BY <1>1, <1>4 DEF RequestOK, Nearer
<1>6. RequestOK(load) /\ ~load.lost /\ Nearer(load, rq) BY <1>1, <1>4 DEF RequestOK, Nearer
<1> HIDE DEF tried, load
<1> QED BY <1>2, <1>3, <1>5, <1>6 DEF Moves

LEMMA LoadMoves ==
  ASSUME Typed, NEW r \in Request, Load(r)
  PROVE  \E new : Moves(r, new)
<1> DEFINE rq == request[r]
           new == [rq EXCEPT !.pc = "sent"]
<1>1. /\ rq \in Working /\ rq # Idle /\ rq.steps # <<>> /\ RequestOK(rq) /\ rq.pc = "load"
      /\ ~rq.lost
  BY Under DEF Load, At, Typed, RequestOK
<1>2. request' = [request EXCEPT ![r] = new] \/ request' = [request EXCEPT ![r] = NextConn(rq)]
  BY DEF Load, Typed, RoutingTypeOK
<1>3. new \in Working BY <1>1 DEF Working
<1>4. /\ new.pc = "sent" /\ new.steps = rq.steps /\ new.lost = rq.lost /\ new.conn = rq.conn
      /\ new.streamed = rq.streamed /\ new.list = rq.list
  BY <1>1 DEF Working
<1>5. RequestOK(new) /\ ~new.lost /\ Nearer(new, rq) BY <1>1, <1>4 DEF RequestOK, Nearer, Stage
<1> HIDE DEF new
<1> QED BY <1>1, <1>2, <1>3, <1>5, NextConnOK DEF Moves

LEMMA EndMoves ==
  ASSUME Typed, NEW r \in Request, StepDone(r) \/ GiveUp(r) \/ Dropped(r)
  PROVE  \E new : Moves(r, new)
<1> DEFINE rq == request[r]
<1>1. rq \in Working /\ rq # Idle /\ rq.steps # <<>>
  BY Under DEF StepDone, GiveUp, Dropped, At
<1>2. request' = [request EXCEPT ![r] = NextStep(rq)] \/ request' = [request EXCEPT ![r] = Idle]
  BY DEF StepDone, GiveUp, Dropped
<1>3. RequestOK(Idle) /\ Nearer(Idle, rq) BY DEF RequestOK, Nearer
<1> QED BY <1>1, <1>2, <1>3, NextStepOK DEF Moves

LEMMA OutcomeMoves ==
  ASSUME Typed, NEW r \in Request,
         \/ Succeeded(r)
         \/ \E failure \in Failures, marks \in BOOLEAN : Failed(r, failure, marks)
  PROVE  \E new : Moves(r, new)
<1> DEFINE rq == request[r]
<1>1. rq \in Working /\ rq # Idle /\ rq.steps # <<>> /\ RequestOK(rq) /\ rq.pc \in {"sent", "stream"}
  BY Under DEF Succeeded, Failed, At, Typed
<1>2. CASE Succeeded(r)
  <2>1. PICK outcome \in {"success", "stream"} :
          request' = [request EXCEPT ![r] = [rq EXCEPT !.pc = "hold", !.outcome = outcome]]
    BY <1>2 DEF Succeeded, Typed, RoutingTypeOK
  <2> DEFINE new == [rq EXCEPT !.pc = "hold", !.outcome = outcome]
  <2>2. new \in Working BY <1>1 DEF Working
  <2>3. /\ new.pc = "hold" /\ new.steps = rq.steps /\ new.lost = rq.lost /\ new.conn = rq.conn
        /\ new.streamed = rq.streamed /\ new.list = rq.list
    BY <1>1 DEF Working
  <2>4. rq.pc = "sent" BY <1>2 DEF Succeeded, At
  <2>5. RequestOK(new) /\ ~new.lost /\ ~rq.streamed BY <1>1, <2>3, <2>4 DEF RequestOK
  <2>6. Nearer(new, rq) BY <1>1, <2>3, <2>4, <2>5 DEF Nearer, Stage
  <2> HIDE DEF new
  <2> QED BY <2>1, <2>2, <2>5, <2>6 DEF Moves, new
<1>3. CASE \E failure \in Failures, marks \in BOOLEAN : Failed(r, failure, marks)
  <2>a. PICK failure \in Failures, marks \in BOOLEAN : Failed(r, failure, marks)
    BY <1>3
  <2>b. r \in DOMAIN request BY DEF Typed, RoutingTypeOK
  <2>c. request' = [request EXCEPT ![r].pc = "hold", ![r].outcome = failure,
                                   ![r].streamed = At(r, "stream")]
    BY <2>a, Zenon DEF Failed
  <2>1. request' = [request EXCEPT ![r] =
               [rq EXCEPT !.pc = "hold", !.outcome = failure, !.streamed = At(r, "stream")]]
    BY <2>b, <2>c
  <2> DEFINE new == [rq EXCEPT !.pc = "hold", !.outcome = failure, !.streamed = At(r, "stream")]
  <2>2. At(r, "stream") \in BOOLEAN BY DEF At
  <2>3. new \in Working BY <1>1, <2>2 DEF Working
  <2>4. /\ new.pc = "hold" /\ new.steps = rq.steps /\ new.lost = rq.lost /\ new.conn = rq.conn
        /\ new.streamed = (rq.pc = "stream") /\ new.list = rq.list /\ new.outcome = failure
    BY <1>1 DEF Working, At
  <2>5. RequestOK(new) /\ ~new.lost BY <1>1, <2>4 DEF RequestOK
  <2>6. Stage(new) > Stage(rq)
    <3>1. CASE rq.pc = "sent" BY <2>4, <3>1 DEF Stage
    <3>2. CASE rq.pc = "stream"
      <4>1. new.streamed BY <2>4, <3>2
      <4>2. Stage(new) = 6 BY <2>4, <4>1 DEF Stage
      <4>3. Stage(rq) = 5 BY <3>2 DEF Stage
      <4> QED BY <4>2, <4>3
    <3> QED BY <1>1, <3>1, <3>2
  <2>7. Nearer(new, rq) BY <2>4, <2>6 DEF Nearer
  <2> HIDE DEF new
  <2> QED BY <2>1, <2>3, <2>5, <2>7 DEF Moves, new
<1> QED BY <1>2, <1>3

LEMMA RecordMoves ==
  ASSUME Typed, NEW r \in Request, Record(r)
  PROVE  \E new : Moves(r, new)
<1> DEFINE rq == request[r]
           new == [rq EXCEPT !.pc = "note", !.lost = FALSE]
<1>1. rq \in Working /\ rq # Idle /\ rq.steps # <<>> /\ RequestOK(rq) /\ rq.pc = "hold"
  BY Under DEF Record, At, Typed
<1>2. request' = [request EXCEPT ![r] = new] BY DEF Record, Typed, RoutingTypeOK
<1>3. new \in Working BY <1>1 DEF Working
<1>4. /\ new.pc = "note" /\ new.steps = rq.steps /\ ~new.lost /\ new.conn = rq.conn
      /\ new.streamed = rq.streamed /\ new.list = rq.list /\ new.outcome = rq.outcome
  BY <1>1 DEF Working
<1>5. RequestOK(new) BY <1>1, <1>4 DEF RequestOK
<1>6. Nearer(new, rq) BY <1>1, <1>4 DEF Nearer, Stage
<1> HIDE DEF new
<1> QED BY <1>2, <1>3, <1>4, <1>5, <1>6 DEF Moves

LEMMA NoteMoves ==
  ASSUME Typed, NEW r \in Request, Note(r)
  PROVE  \E new : Moves(r, new)
<1> DEFINE rq == request[r]
           stream == [rq EXCEPT !.pc = "stream"]
<1>1. /\ rq \in Working /\ rq # Idle /\ rq.steps # <<>> /\ RequestOK(rq) /\ rq.pc = "note"
      /\ ~rq.lost
  BY Under DEF Note, At, Typed, RequestOK
<1>2. rq.outcome \in Failures \cup {"success", "stream"} BY <1>1 DEF Working
<1>3. CASE rq.outcome = "success"
  <2>1. request' = [request EXCEPT ![r] = Idle] BY <1>3 DEF Note
  <2>2. RequestOK(Idle) /\ Nearer(Idle, rq) BY DEF RequestOK, Nearer
  <2> QED BY <2>1, <2>2 DEF Moves
<1>4. CASE rq.outcome = "stream"
  <2>1. request' = [request EXCEPT ![r] = stream] BY <1>4 DEF Note
  <2>2. stream \in Working BY <1>1 DEF Working
  <2>3. /\ stream.pc = "stream" /\ stream.steps = rq.steps /\ stream.lost = rq.lost
        /\ stream.conn = rq.conn /\ stream.streamed = rq.streamed /\ stream.list = rq.list
    BY <1>1 DEF Working
  <2>4. ~rq.streamed BY <1>1, <1>4 DEF RequestOK
  <2>5. RequestOK(stream) /\ Nearer(stream, rq) BY <1>1, <2>3, <2>4 DEF RequestOK, Nearer, Stage
  <2> HIDE DEF stream
  <2> QED BY <1>1, <2>1, <2>2, <2>3, <2>5 DEF Moves
<1>5. CASE rq.outcome \in Failures
  <2>1. \/ request' = [request EXCEPT ![r] = NextStep(rq)]
        \/ request' = [request EXCEPT ![r] = NextConn(rq)]
    BY <1>5 DEF Note
  <2> QED BY <1>1, <2>1, NextStepOK, NextConnOK DEF Moves
<1> QED BY <1>2, <1>3, <1>4, <1>5

-----------------------------------------------------------------------------
(* Typing.                                                                 *)

LEMMA RequestsTyped ==
  ASSUME Typed, \/ UNCHANGED request
                \/ \E r \in Request : \E new : Moves(r, new)
  PROVE  /\ request' \in [Request -> Working \cup {Idle}]
         /\ \A r \in Request : RequestOK(request[r])'
<1>1. CASE UNCHANGED request BY <1>1 DEF Typed, RoutingTypeOK, RequestOK
<1>2. CASE \E r \in Request : \E new : Moves(r, new)
  <2>1. PICK r \in Request : \E new : Moves(r, new) BY <1>2
  <2>0. PICK new : Moves(r, new) BY <2>1
  <2>2. request' = [request EXCEPT ![r] = new] /\ new \in Working \cup {Idle} /\ RequestOK(new)
    BY <2>0 DEF Moves
  <2>3. request' \in [Request -> Working \cup {Idle}] BY <2>2 DEF Typed, RoutingTypeOK
  <2>4. \A q \in Request : RequestOK(request'[q])
    BY <2>2 DEF Typed, RoutingTypeOK
  <2>5. \A q \in Request : RequestOK(request[q])' BY <2>4 DEF RequestOK
  <2> QED BY <2>3, <2>5
<1> QED BY <1>1, <1>2

\* Whatever a request does, it moves on.
LEMMA ProceedMoves ==
  ASSUME Typed, NEW r \in Request, Begin(r) \/ Proceed(r)
  PROVE  \E new : Moves(r, new)
BY BeginMoves, PickMoves, PrepareMoves, LoadMoves, EndMoves, OutcomeMoves, RecordMoves, NoteMoves DEF Proceed

\* Both breakers of a connection are asked, or neither is.
LEMMA PickAsks ==
  ASSUME NEW r \in Request, NEW snapshot \in SUBSET Conn, Pick(r, snapshot)
  PROVE  \E asked :
           /\ breaker' = [c \in Conn |-> IF c \in asked THEN Asked(breaker[c]) ELSE breaker[c]]
           /\ ideal' = [c \in Conn |-> IF c \in asked THEN Asked(ideal[c]) ELSE ideal[c]]
<1> DEFINE asked == IF request[r].combo THEN {c \in snapshot \cap store : ModelOf(r) \notin lock[c]} ELSE {}
<1>1. /\ breaker' = [c \in Conn |-> IF c \in asked THEN Asked(breaker[c]) ELSE breaker[c]]
      /\ ideal' = [c \in Conn |-> IF c \in asked THEN Asked(ideal[c]) ELSE ideal[c]]
  BY DEF Pick
<1> HIDE DEF asked
<1> QED BY <1>1

LEMMA RequestTypes ==
  ASSUME Typed, NEW r \in Request, Begin(r) \/ Proceed(r)
  PROVE  Typed'
<1>1. \E new : Moves(r, new) BY ProceedMoves
<1>2. /\ request' \in [Request -> Working \cup {Idle}]
      /\ \A q \in Request : RequestOK(request[q])'
  BY <1>1, RequestsTyped
<1>3. UNCHANGED probe /\ ProbeAt'
  BY DEF Begin, Proceed, Pick, Prepare, Load, StepDone, GiveUp, Dropped, Succeeded, Failed, Record, Note,
         Typed, ProbeAt
<1>4. UNCHANGED <<active, gone>>
  BY DEF Begin, Proceed, Pick, Prepare, Load, StepDone, GiveUp, Dropped, Succeeded, Failed, Record, Note
<1> DEFINE Rest == /\ store' \subseteq Conn
                   /\ breaker' \in [Conn -> Breakers] /\ ideal' \in [Conn -> Breakers]
                   /\ lock' \in [Conn -> SUBSET Model] /\ mark' \in [Conn -> SUBSET Model]
<1>5. Rest
  <2>1. CASE \/ Begin(r) \/ StepDone(r) \/ GiveUp(r) \/ Dropped(r) \/ Succeeded(r) \/ Load(r)
             \/ \E c \in Conn : Prepare(r, c)
    BY <2>1 DEF Begin, Prepare, Load, StepDone, GiveUp, Dropped, Succeeded, Typed, RoutingTypeOK,
                breakerVars, lockVars
  <2>2. CASE \E snapshot \in SUBSET Conn : Pick(r, snapshot)
    <3>1. \E asked :
            /\ breaker' = [c \in Conn |-> IF c \in asked THEN Asked(breaker[c]) ELSE breaker[c]]
            /\ ideal' = [c \in Conn |-> IF c \in asked THEN Asked(ideal[c]) ELSE ideal[c]]
      BY <2>2, PickAsks
    <3>2. \A c \in Conn : Asked(breaker[c]) \in Breakers /\ Asked(ideal[c]) \in Breakers
      BY AskedTyped DEF Typed, RoutingTypeOK
    <3>3. UNCHANGED <<store, lock, mark>> BY <2>2 DEF Pick, lockVars
    <3> QED BY <3>1, <3>2, <3>3 DEF Typed, RoutingTypeOK
  <2>3. CASE \E failure \in Failures, marks \in BOOLEAN : Failed(r, failure, marks)
    <3>1. ~At(r, "idle") BY <2>3 DEF Failed, At
    <3>2. ModelOf(r) \in Model /\ request[r].conn \in Conn
      BY <2>3, <3>1, Under DEF Failed, At, Typed, RequestOK
    <3>3. ScopeOf[ModelOf(r)] \in Model BY <3>2
    <3> QED BY <2>3, <3>2, <3>3 DEF Failed, Typed, RoutingTypeOK, breakerVars
  <2>4. CASE Record(r)
    <3>1. ~At(r, "idle") BY <2>4 DEF Record, At
    <3>2. request[r].conn \in Conn BY <2>4, <3>1, Under DEF Record, At, Typed, RequestOK
    <3>3. breaker[request[r].conn] \in Breakers /\ ideal[request[r].conn] \in Breakers
      BY <3>2 DEF Typed, RoutingTypeOK
    <3> QED BY <2>4, <3>2, <3>3, FailureTyped, SuccessTyped DEF Record, Typed, RoutingTypeOK, lockVars
  <2>5. CASE Note(r)
    <3>1. ~At(r, "idle") BY <2>5 DEF Note, At
    <3>2. ModelOf(r) \in Model /\ request[r].conn \in Conn
      BY <2>5, <3>1, Under DEF Note, At, Typed, RequestOK
    <3> QED BY <2>5, <3>2 DEF Note, Typed, RoutingTypeOK, breakerVars
  <2> QED BY <2>1, <2>2, <2>3, <2>4, <2>5 DEF Proceed
<1> QED BY <1>2, <1>3, <1>4, <1>5 DEF Typed, RoutingTypeOK

LEMMA ProbeTypes ==
  ASSUME Typed, Probe
  PROVE  Typed'
<1>1. UNCHANGED <<store, breaker, ideal, request, active, gone>>
  BY DEF Probe, CollectLocks, SendProbe, ProbeFailed, ProbeLimited, RenewMark, ProbeSucceeded,
         ClearMark, ProbesDone, breakerVars
<1>2. \A r \in Request : RequestOK(request[r])' BY <1>1 DEF Typed, RequestOK
<1>3. ASSUME probe.pc \in {"sent", "renewed", "cleared"}
      PROVE  probe.at[1] \in Conn /\ probe.at[2] \in Model /\ ScopeOf[probe.at[2]] \in Model
             /\ <<probe.at[1], probe.at[2]>> \in Conn \X Model
  BY <1>3 DEF Typed, ProbeAt
<1> DEFINE Rest == /\ lock' \in [Conn -> SUBSET Model] /\ mark' \in [Conn -> SUBSET Model]
                   /\ probe' \in Probes /\ ProbeAt'
<1>4. Rest
  <2>1. CASE CollectLocks
    BY <2>1 DEF CollectLocks, Typed, RoutingTypeOK, Probes, ProbeAt, lockVars
  <2>2. CASE \E c \in Conn, m \in Model : SendProbe(c, m)
    <3>1. PICK c \in Conn, m \in Model : SendProbe(c, m) BY <2>2
    <3>2. UNCHANGED <<lock, mark>> BY <3>1 DEF SendProbe, lockVars
    <3>3. probe \in Probes /\ probe.pc = "pick" BY <3>1 DEF SendProbe, Typed, RoutingTypeOK
    <3>4. CASE probe' = [probe EXCEPT !.locks = @ \ {<<c, m>>}]
      <4>1. probe' \in Probes /\ probe'.pc = "pick" BY <3>3, <3>4 DEF Probes
      <4> QED BY <3>2, <4>1 DEF ProbeAt, Typed, RoutingTypeOK
    <3>5. CASE probe' = [probe EXCEPT !.locks = @ \ {<<c, m>>}, !.pc = "sent", !.at = <<c, m>>]
      <4>1. <<c, m>> \in Conn \X Model OBVIOUS
      <4>2. probe' \in Probes /\ probe'.at = <<c, m>> BY <3>3, <3>5, <4>1 DEF Probes
      <4> QED BY <3>2, <4>1, <4>2 DEF ProbeAt, Typed, RoutingTypeOK
    <3> QED BY <3>1, <3>4, <3>5 DEF SendProbe
  <2>3. CASE ProbeFailed
    BY <2>3 DEF ProbeFailed, NextProbe, Typed, RoutingTypeOK, Probes, ProbeAt, lockVars
  <2>4. CASE ProbeLimited
    BY <1>3, <2>4 DEF ProbeLimited, Typed, RoutingTypeOK, Probes, ProbeAt
  <2>5. CASE RenewMark
    BY <1>3, <2>5 DEF RenewMark, NextProbe, Typed, RoutingTypeOK, Probes, ProbeAt
  <2>6. CASE ProbeSucceeded
    BY <1>3, <2>6 DEF ProbeSucceeded, Typed, RoutingTypeOK, Probes, ProbeAt
  <2>7. CASE ClearMark
    BY <1>3, <2>7 DEF ClearMark, NextProbe, Typed, RoutingTypeOK, Probes, ProbeAt
  <2>8. CASE ProbesDone
    BY <2>8 DEF ProbesDone, NoProbe, Typed, RoutingTypeOK, Probes, ProbeAt, lockVars
  <2> QED BY <2>1, <2>2, <2>3, <2>4, <2>5, <2>6, <2>7, <2>8 DEF Probe
<1> QED BY <1>1, <1>2, <1>4 DEF Typed, RoutingTypeOK

\* The clean-up moves no request on, it only takes breakers out of their hands.
LEMMA CleanupTakes ==
  ASSUME Typed, Cleanup
  PROVE  /\ request' \in [Request -> Working \cup {Idle}]
         /\ \A r \in Request :
              \/ request'[r] = request[r]
              \/ /\ At(r, "hold") /\ request[r].conn \in Conn \ active
                 /\ request[r] \in Working
                 /\ request'[r] = [request[r] EXCEPT !.lost = TRUE]
<1>1. \A r \in Request : At(r, "hold") => request[r] \in Working /\ request[r].conn \in Conn
  BY Under DEF At, Typed, RequestOK
<1>2. \A rq \in Working : [rq EXCEPT !.lost = TRUE] \in Working BY DEF Working
<1> QED BY <1>1, <1>2 DEF Cleanup, Typed, RoutingTypeOK

LEMMA CleanupTypes ==
  ASSUME Typed, CollectActive \/ Cleanup
  PROVE  Typed'
<1>1. CASE CollectActive
  BY <1>1 DEF CollectActive, Typed, RoutingTypeOK, ProbeAt, RequestOK, breakerVars, lockVars
<1>2. CASE Cleanup
  <2>1. breaker' \in [Conn -> Breakers] BY <1>2, FreshTyped DEF Cleanup, Typed, RoutingTypeOK
  <2>2. ASSUME NEW r \in Request PROVE RequestOK(request'[r])
    <3>1. CASE request'[r] = request[r] BY <3>1 DEF Typed
    <3>2. CASE /\ At(r, "hold") /\ request[r] \in Working
               /\ request'[r] = [request[r] EXCEPT !.lost = TRUE]
      <4>1. /\ request'[r].pc = "hold" /\ request'[r].steps = request[r].steps
            /\ request'[r].conn = request[r].conn /\ request'[r].streamed = request[r].streamed
            /\ request'[r].outcome = request[r].outcome
        BY <3>2 DEF Working, At
      <4>2. request[r] # Idle /\ RequestOK(request[r]) BY <3>2, IdleApart DEF Typed
      <4> QED BY <3>2, <4>1, <4>2 DEF RequestOK, At
    <3> QED BY <1>2, <3>1, <3>2, CleanupTakes
  <2>3. \A r \in Request : RequestOK(request[r])' BY <2>2 DEF RequestOK
  <2>4. request' \in [Request -> Working \cup {Idle}] BY <1>2, CleanupTakes
  <2> QED BY <1>2, <2>1, <2>3, <2>4 DEF Cleanup, Typed, RoutingTypeOK, ProbeAt, lockVars
<1> QED BY <1>1, <1>2

LEMMA OutsideTypes ==
  ASSUME Typed, Administer \/ Time
  PROVE  Typed'
<1>1. UNCHANGED <<request, probe, active>>
  BY DEF Administer, Time, Delete, SeedConnection, WindowElapsed, CooldownOver, MarkOver
<1>2. ProbeAt' /\ \A r \in Request : RequestOK(request[r])' BY <1>1 DEF Typed, ProbeAt, RequestOK
<1>3. CASE \E c \in Conn : WindowElapsed(c)
  <2>1. PICK c \in Conn : WindowElapsed(c) BY <1>3
  <2>2. \A b \in Breakers : [b EXCEPT !.waits = FALSE] \in Breakers BY DEF Breakers
  <2>3. breaker' = [breaker EXCEPT ![c] = [breaker[c] EXCEPT !.waits = FALSE]]
        /\ ideal' = [ideal EXCEPT ![c] = [ideal[c] EXCEPT !.waits = FALSE]]
    BY <2>1 DEF WindowElapsed, Typed, RoutingTypeOK
  <2>4. breaker' \in [Conn -> Breakers] /\ ideal' \in [Conn -> Breakers]
    BY <2>2, <2>3 DEF Typed, RoutingTypeOK
  <2> QED BY <1>1, <1>2, <2>1, <2>4 DEF WindowElapsed, Typed, RoutingTypeOK, lockVars
<1>4. CASE \E c \in Conn, m \in Model : CooldownOver(c, m) \/ MarkOver(c, m)
  BY <1>1, <1>2, <1>4 DEF CooldownOver, MarkOver, Typed, RoutingTypeOK, breakerVars
<1>5. CASE Administer
  BY <1>1, <1>2, <1>5 DEF Administer, Delete, SeedConnection, Typed, RoutingTypeOK, breakerVars, lockVars
<1> QED BY <1>3, <1>4, <1>5 DEF Time

LEMMA InitTyped == RoutingInit => Typed
<1>1. Idle \in Working \cup {Idle} /\ RequestOK(Idle) BY DEF RequestOK
<1> QED BY <1>1, FreshTyped DEF RoutingInit, Typed, RoutingTypeOK, ProbeAt, NoProbe, Probes

LEMMA NextTyped == Typed /\ [RoutingNext]_routingVars => Typed'
<1> SUFFICES ASSUME Typed, [RoutingNext]_routingVars PROVE Typed'
  OBVIOUS
<1>1. CASE UNCHANGED routingVars
  BY <1>1 DEF routingVars, Typed, RoutingTypeOK, ProbeAt, RequestOK
<1>2. CASE RoutingNext
  BY <1>2, RequestTypes, ProbeTypes, CleanupTypes, OutsideTypes DEF RoutingNext
<1> QED BY <1>1, <1>2

\* For any number of requests, connections and models and any two thresholds,
\* locks, marks, breakers, requests and probes are of the type the code gives them.
THEOREM TypeCorrect == RoutingSpec => []RoutingTypeOK
<1>1. Typed => RoutingTypeOK BY DEF Typed
<1> QED BY <1>1, InitTyped, NextTyped, PTL DEF RoutingSpec

-----------------------------------------------------------------------------
(* The clean-up keeps every breaker that matters.                          *)

LEMMA MovesKeepAbsent ==
  ASSUME Typed, Absent, NEW r \in Request, Begin(r) \/ Proceed(r)
  PROVE  Absent'
<1>1. PICK new : Moves(r, new) BY ProceedMoves
<1>2. /\ new # Idle => ~new.lost
      /\ request' = [request EXCEPT ![r] = new]
  BY <1>1 DEF Moves
<1>3. \A q \in Request : request'[q] = request[q] \/ request'[q] = new
  BY <1>2 DEF Typed, RoutingTypeOK
<1>4. UNCHANGED <<active, gone>> /\ store \subseteq store'
  BY DEF Begin, Proceed, Pick, Prepare, Load, StepDone, GiveUp, Dropped, Succeeded, Failed, Record, Note
<1> QED BY <1>2, <1>3, <1>4 DEF Absent

LEMMA RequestKeeps ==
  ASSUME Typed, BreakerInv, NEW r \in Request, Begin(r) \/ Proceed(r)
  PROVE  BreakerKept'
<1>1. CASE \/ Begin(r) \/ StepDone(r) \/ GiveUp(r) \/ Dropped(r) \/ Succeeded(r) \/ Note(r) \/ Load(r)
           \/ \E c \in Conn : Prepare(r, c)
           \/ \E failure \in Failures, marks \in BOOLEAN : Failed(r, failure, marks)
  BY <1>1 DEF Begin, Prepare, Load, StepDone, GiveUp, Dropped, Succeeded, Failed, Note, BreakerInv,
              BreakerKept, breakerVars
<1>2. CASE \E snapshot \in SUBSET Conn : Pick(r, snapshot)
  <2>1. PICK asked :
          /\ breaker' = [c \in Conn |-> IF c \in asked THEN Asked(breaker[c]) ELSE breaker[c]]
          /\ ideal' = [c \in Conn |-> IF c \in asked THEN Asked(ideal[c]) ELSE ideal[c]]
    BY <1>2, PickAsks
  <2>2. UNCHANGED gone BY <1>2 DEF Pick
  <2> QED BY <2>1, <2>2 DEF BreakerInv, BreakerKept
<1>3. CASE Record(r)
  <2> DEFINE c == request[r].conn
             After(b) == IF request[r].outcome \in Failures THEN AfterFailure(b) ELSE AfterSuccess(b)
  <2>1. request[r] # Idle /\ c \in Conn
    BY <1>3, Under DEF Record, At, Typed, RequestOK
  <2>2. ideal' = [ideal EXCEPT ![c] = After(ideal[c])] /\ UNCHANGED gone BY <1>3 DEF Record
  <2>3. CASE request[r].lost
    <3>1. breaker' = breaker /\ c \in gone BY <1>3, <2>1, <2>3 DEF Record, BreakerInv, Absent
    <3> QED BY <2>1, <2>2, <3>1 DEF BreakerInv, BreakerKept, Typed, RoutingTypeOK
  <2>4. CASE ~request[r].lost
    <3>1. breaker' = [breaker EXCEPT ![c] = After(breaker[c])] BY <1>3, <2>4 DEF Record
    <3> HIDE DEF After
    <3> QED BY <2>1, <2>2, <3>1 DEF BreakerInv, BreakerKept, Typed, RoutingTypeOK
  <2> QED BY <2>3, <2>4
<1> QED BY <1>1, <1>2, <1>3 DEF Proceed

LEMMA CleanupKeeps ==
  ASSUME Typed, BreakerInv, CollectActive \/ Cleanup
  PROVE  BreakerInv'
<1>1. CASE CollectActive
  BY <1>1 DEF CollectActive, BreakerInv, BreakerKept, Absent, breakerVars
<1>2. CASE Cleanup
  <2>1. BreakerKept' BY <1>2 DEF Cleanup, BreakerInv, BreakerKept, Absent
  <2>2. ASSUME NEW r \in Request, request'[r] # Idle, request'[r].lost
        PROVE  request'[r].conn \in gone
    <3>1. CASE request'[r] = request[r] BY <2>2, <3>1 DEF BreakerInv, Absent
    <3>2. CASE /\ request[r].conn \in Conn \ active /\ request[r] \in Working
               /\ request'[r] = [request[r] EXCEPT !.lost = TRUE]
      <4>1. request'[r].conn = request[r].conn BY <3>2 DEF Working
      <4> QED BY <3>2, <4>1 DEF BreakerInv, Absent
    <3> QED BY <1>2, <3>1, <3>2, CleanupTakes
  <2> QED BY <1>2, <2>1, <2>2 DEF Cleanup, BreakerInv, Absent
<1> QED BY <1>1, <1>2

LEMMA OutsideKeeps ==
  ASSUME Typed, BreakerInv, Probe \/ Administer \/ Time
  PROVE  BreakerInv'
<1>1. UNCHANGED <<request, active>>
  BY DEF Probe, CollectLocks, SendProbe, ProbeFailed, ProbeLimited, RenewMark, ProbeSucceeded,
         ClearMark, ProbesDone, Administer, Time, Delete, SeedConnection, WindowElapsed,
         CooldownOver, MarkOver
<1>2. CASE Probe \/ \E c \in Conn, m \in Model : CooldownOver(c, m) \/ MarkOver(c, m)
  <2>1. UNCHANGED <<store, gone, breaker, ideal>>
    BY <1>2 DEF Probe, CollectLocks, SendProbe, ProbeFailed, ProbeLimited, RenewMark,
         ProbeSucceeded, ClearMark, ProbesDone, CooldownOver, MarkOver, breakerVars
  <2> QED BY <1>1, <2>1 DEF BreakerInv, BreakerKept, Absent
<1>3. CASE Administer
  <2>1. UNCHANGED <<breaker, ideal>> /\ gone \subseteq gone' /\ Conn \ store' \subseteq gone'
    BY <1>3 DEF Administer, Delete, SeedConnection, breakerVars, BreakerInv, Absent
  <2> QED BY <1>1, <2>1 DEF BreakerInv, BreakerKept, Absent
<1>4. CASE \E c \in Conn : WindowElapsed(c)
  <2>1. PICK c \in Conn : WindowElapsed(c) BY <1>4
  <2>2. /\ breaker' = [breaker EXCEPT ![c] = [breaker[c] EXCEPT !.waits = FALSE]]
        /\ ideal' = [ideal EXCEPT ![c] = [ideal[c] EXCEPT !.waits = FALSE]]
        /\ UNCHANGED <<store, gone>>
    BY <2>1 DEF WindowElapsed, Typed, RoutingTypeOK
  <2> QED BY <1>1, <2>2 DEF BreakerInv, BreakerKept, Absent, Typed, RoutingTypeOK
<1> QED BY <1>2, <1>3, <1>4 DEF Time

LEMMA NextKeeps == Typed /\ BreakerInv /\ [RoutingNext]_routingVars => BreakerInv'
<1> SUFFICES ASSUME Typed, BreakerInv, [RoutingNext]_routingVars PROVE BreakerInv'
  OBVIOUS
<1>1. CASE UNCHANGED routingVars
  BY <1>1 DEF routingVars, BreakerInv, BreakerKept, Absent
<1>2. CASE RoutingNext
  BY <1>2, MovesKeepAbsent, RequestKeeps, CleanupKeeps, OutsideKeeps DEF RoutingNext, BreakerInv
<1> QED BY <1>1, <1>2

LEMMA InitKept == RoutingInit => BreakerInv
  BY IdleApart DEF RoutingInit, BreakerInv, BreakerKept, Absent

\* However the clean-up falls between the look-up and the record of any number of
\* requests, the breaker of a connection that stays in the store forgets nothing.
THEOREM CleanupForgetsNothing == RoutingSpec => []BreakerKept
<1>1. BreakerInv => BreakerKept BY DEF BreakerInv
<1> QED BY <1>1, InitTyped, NextTyped, InitKept, NextKeeps, PTL DEF RoutingSpec

-----------------------------------------------------------------------------
(* Every request comes nearer to its end.                                  *)

\* A step of one request, or of none, is a step of none or of that request alone.
LEMMA WhoMoves ==
  ASSUME Typed, [RoutingNext]_routingVars
  PROVE  \/ UNCHANGED request
         \/ \E r \in Request : Begin(r) \/ Proceed(r)
         \/ Cleanup
BY DEF RoutingNext, routingVars, Probe, CollectLocks, SendProbe, ProbeFailed, ProbeLimited, RenewMark,
       ProbeSucceeded, ClearMark, ProbesDone, Administer, Time, Delete, SeedConnection,
       WindowElapsed, CooldownOver, MarkOver, CollectActive

LEMMA Advances ==
  ASSUME Typed, [RoutingNext]_routingVars, NEW r \in Request,
         ~At(r, "idle"), request'[r] # request[r]
  PROVE  Nearer(request'[r], request[r]) \/ request'[r] = [request[r] EXCEPT !.lost = TRUE]
<1>1. CASE UNCHANGED request BY <1>1
<1>2. CASE Cleanup BY <1>2, CleanupTakes
<1>3. CASE \E q \in Request : Begin(q) \/ Proceed(q)
  <2>1. PICK q \in Request : \E new : Moves(q, new) BY <1>3, ProceedMoves
  <2>2. PICK new : Moves(q, new) BY <2>1
  <2>3. q = r /\ request'[r] = new BY <2>2 DEF Moves, Typed, RoutingTypeOK
  <2>4. request[r] # Idle BY Under
  <2> QED BY <2>2, <2>3, <2>4 DEF Moves
<1> QED BY <1>1, <1>2, <1>3, WhoMoves

\* With any number of models, connections and failures no request goes round.
THEOREM NobodyGoesRound == RoutingSpec => RoutingAdvances
<1>1. Typed /\ [RoutingNext]_routingVars =>
        [\A r \in Request :
           ~At(r, "idle") /\ request'[r] # request[r] =>
             Nearer(request'[r], request[r]) \/ request'[r] = [request[r] EXCEPT !.lost = TRUE]]_routingVars
  BY Advances
<1> QED BY <1>1, InitTyped, NextTyped, PTL DEF RoutingSpec, RoutingAdvances

-----------------------------------------------------------------------------
(* Fusion: the whole panel is asked at once. *)

\* The panels whose goroutine has handed over its result.
DonePanel == {p \in Panel : panel[p] = "done"}

\* Each panel hands over once, and its answer is in the channel or received.
HandedOnce ==
  /\ successes \subseteq DonePanel
  /\ \A i \in DOMAIN resultsCh : resultsCh[i].from \in DonePanel \ successes
  /\ \A i, j \in DOMAIN resultsCh : resultsCh[i].from = resultsCh[j].from => i = j

Counted == Cardinality(successes) + failures + Len(resultsCh) = Cardinality(DonePanel)

\* As long as failures are counted none is lost, and the channel is closed, and
\* the stragglers are given grace, for no other reason than the code has for it.
FusionInv ==
  /\ HandedOnce
  /\ fusion = "collect" \/ (fusion = "answer" /\ successes = {}) => Counted
  /\ closed => DonePanel = Panel
  /\ fusion = "grace" => Enough
  /\ QuorumOrTimeout

LEMMA Cards ==
  /\ PanelSize \in Nat /\ MinPanel \in 1..PanelSize
  /\ Cardinality({}) = 0
  /\ \A S \in SUBSET Panel :
       /\ Cardinality(S) \in 0..PanelSize
       /\ Cardinality(S) = 0 <=> S = {}
       /\ Cardinality(S) = PanelSize <=> S = Panel
       /\ \A p \in Panel \ S : Cardinality(S \cup {p}) = Cardinality(S) + 1
<1>1. IsFiniteSet(Panel) /\ Cardinality(Panel) \in Nat
  BY FusionAssumption, FS_CardinalityType
<1>2. ASSUME NEW S \in SUBSET Panel
      PROVE  /\ Cardinality(S) \in 0..PanelSize
             /\ Cardinality(S) = 0 <=> S = {}
             /\ Cardinality(S) = PanelSize <=> S = Panel
             /\ \A p \in Panel \ S : Cardinality(S \cup {p}) = Cardinality(S) + 1
  <2>1. /\ IsFiniteSet(S) /\ Cardinality(S) <= Cardinality(Panel)
        /\ Cardinality(S) = Cardinality(Panel) <=> S = Panel
    BY <1>1, FS_Subset
  <2>2. Cardinality(S) \in Nat BY <2>1, FS_CardinalityType
  <2>3. \A p \in Panel \ S : Cardinality(S \cup {p}) = Cardinality(S) + 1
    BY <2>1, FS_AddElement
  <2>4. Cardinality(S) = 0 <=> S = {} BY <2>1, FS_EmptySet
  <2>5. Cardinality(S) \in 0..Cardinality(Panel) BY <1>1, <2>1, <2>2
  <2> QED BY <2>1, <2>3, <2>4, <2>5 DEF PanelSize
<1> QED BY <1>1, <1>2, FusionAssumption, FS_EmptySet DEF PanelSize

\* What is in the channel.
Results == [from: Panel, answer: PanelAnswers]

\* What is received leaves the channel in order.
LEMMA Received ==
  ASSUME FusionTypeOK, HandedOnce, resultsCh # <<>>, resultsCh' = Tail(resultsCh)
  PROVE  /\ Head(resultsCh) \in Results
         /\ Head(resultsCh).from \in DonePanel \ successes
         /\ resultsCh' \in Seq(Results) /\ Len(resultsCh') = Len(resultsCh) - 1
         /\ \A i \in DOMAIN resultsCh' : /\ resultsCh'[i].from \in DonePanel \ successes
                                         /\ resultsCh'[i].from # Head(resultsCh).from
         /\ \A i, j \in DOMAIN resultsCh' : resultsCh'[i].from = resultsCh'[j].from => i = j
<1>1. resultsCh \in Seq(Results) BY DEF FusionTypeOK, Results
<1>2. /\ Len(resultsCh) \in Nat \ {0} /\ DOMAIN resultsCh = 1..Len(resultsCh)
      /\ Head(resultsCh) = resultsCh[1] /\ resultsCh[1] \in Results
  BY <1>1
<1>3. resultsCh' \in Seq(Results) /\ Len(resultsCh') = Len(resultsCh) - 1
  BY <1>1
<1>4. DOMAIN resultsCh' = 1..(Len(resultsCh) - 1) /\ \A i \in DOMAIN resultsCh' :
         resultsCh'[i] = resultsCh[i + 1] /\ i + 1 \in DOMAIN resultsCh /\ i + 1 # 1 /\ i \in Nat
  BY <1>1, <1>2, <1>3
<1> QED BY <1>2, <1>3, <1>4 DEF HandedOnce

LEMMA FusionTyped ==
  ASSUME FusionTypeOK, FusionInv
  PROVE  /\ panel \in [Panel -> {"calling", "done"} \cup PanelAnswers]
         /\ resultsCh \in Seq(Results) /\ Len(resultsCh) \in 0..PanelSize
         /\ DonePanel \subseteq Panel /\ successes \subseteq DonePanel
         /\ Cardinality(successes) \in 0..PanelSize /\ Cardinality(DonePanel) \in 0..PanelSize
         /\ failures \in 0..PanelSize
<1>1. DonePanel \subseteq Panel BY DEF DonePanel
<1>2. Len(resultsCh) \in Nat BY DEF FusionTypeOK
<1> QED BY <1>1, <1>2, Cards DEF FusionTypeOK, Results, FusionInv, HandedOnce

FusionKept == FusionTypeOK' /\ FusionInv'

\* A goroutine of the panel.
LEMMA CalledKeeps ==
  ASSUME FusionTypeOK, FusionInv, NEW p \in Panel, NEW answer \in PanelAnswers, Called(p, answer)
  PROVE  FusionKept
<1>1. DonePanel' = DonePanel BY FusionTyped DEF Called, DonePanel, PanelAnswers
<1>2. FusionTypeOK' BY FusionTyped DEF Called, FusionTypeOK, timerVars, answerVars, countVars
<1>3. UNCHANGED <<resultsCh, closed, ctx, timer, grace, fusion, reply, streams, successes, failures>>
  BY DEF Called, timerVars, answerVars, countVars
<1>4. DonePanel = {q \in Panel : panel[q] = "done"} /\ DonePanel' = {q \in Panel : panel'[q] = "done"}
  BY DEF DonePanel
<1>5. QuorumOrTimeout' BY <1>1, <1>3, <1>4 DEF FusionInv, QuorumOrTimeout, Enough
<1> QED BY <1>1, <1>2, <1>3, <1>5 DEF FusionKept, FusionInv, HandedOnce, Counted, Enough

LEMMA HandOverKeeps ==
  ASSUME FusionTypeOK, FusionInv, NEW p \in Panel, HandOver(p)
  PROVE  FusionKept
<1>1. panel[p] \in PanelAnswers /\ panel[p] # "done" /\ p \notin DonePanel
  BY DEF HandOver, PanelAnswers, DonePanel
<1>2. DonePanel' = DonePanel \cup {p} BY FusionTyped DEF HandOver, DonePanel
<1>3. UNCHANGED <<closed, ctx, timer, grace, fusion, reply, streams, successes, failures>>
  BY DEF HandOver, timerVars, answerVars, countVars
<1> DEFINE r == [from |-> p, answer |-> panel[p]]
<1>4. r \in Results BY <1>1 DEF Results
<1>5. resultsCh' = Append(resultsCh, r) /\ Len(resultsCh) < PanelSize BY DEF HandOver
<1>6. /\ resultsCh' \in Seq(Results) /\ Len(resultsCh') = Len(resultsCh) + 1
      /\ DOMAIN resultsCh' = DOMAIN resultsCh \cup {Len(resultsCh) + 1}
      /\ DOMAIN resultsCh = 1..Len(resultsCh)
      /\ resultsCh'[Len(resultsCh) + 1] = r
      /\ \A i \in DOMAIN resultsCh : resultsCh'[i] = resultsCh[i]
  <2> HIDE DEF r
  <2> QED BY <1>4, <1>5, FusionTyped
<1>7. FusionTypeOK'
  BY <1>3, <1>5, <1>6, FusionTyped, Cards DEF HandOver, FusionTypeOK, Results
<1>8. HandedOnce'
  <2>1. r.from = p OBVIOUS
  <2> HIDE DEF r
  <2> QED BY <1>1, <1>2, <1>3, <1>6, <2>1 DEF FusionInv, HandedOnce
<1>9. Cardinality(DonePanel)' = Cardinality(DonePanel) + 1
  BY <1>1, <1>2, FusionTyped, Cards
<1>10. Counted => Counted' BY <1>3, <1>6, <1>9, FusionTyped DEF Counted
<1>11. ~closed /\ ~\A q \in Panel : panel[q] = "done" BY <1>1 DEF FusionInv, DonePanel
<1>12. QuorumOrTimeout' BY <1>3, <1>11 DEF FusionInv, QuorumOrTimeout, Enough
<1> QED BY <1>3, <1>7, <1>8, <1>10, <1>11, <1>12 DEF FusionKept, FusionInv, Enough

LEMMA CloseKeeps == ASSUME FusionTypeOK, FusionInv, CloseResults PROVE FusionKept
<1>1. DonePanel = Panel /\ DonePanel' = DonePanel BY DEF CloseResults, DonePanel
<1>2. UNCHANGED <<panel, resultsCh, ctx, timer, grace, fusion, reply, streams, successes, failures>> /\ closed'
  BY DEF CloseResults, timerVars, answerVars, countVars
<1>3. FusionTypeOK' BY <1>2 DEF FusionTypeOK
<1>4. QuorumOrTimeout' BY <1>2 DEF FusionInv, QuorumOrTimeout, Enough
<1> QED BY <1>1, <1>2, <1>3, <1>4 DEF FusionKept, FusionInv, HandedOnce, Counted, Enough

LEMMA ClockKeeps == ASSUME FusionTypeOK, FusionInv, Clock PROVE FusionKept
<1>1. UNCHANGED <<panel, resultsCh, closed, fusion, reply, streams, successes, failures>>
  BY DEF Clock, ContextOver, TimerFires, GraceFires, answerVars, countVars
<1>2. timer' = timer \/ timer = "running"
  BY DEF Clock, ContextOver, TimerFires, GraceFires
<1>3. FusionTypeOK'
  BY <1>1 DEF FusionTypeOK, Clock, ContextOver, TimerFires, GraceFires, Timers
<1>4. DonePanel' = DonePanel BY <1>1 DEF DonePanel
<1>5. QuorumOrTimeout' BY <1>1, <1>2 DEF FusionInv, QuorumOrTimeout, Enough
<1> QED BY <1>1, <1>3, <1>4, <1>5 DEF FusionKept, FusionInv, HandedOnce, Counted, Enough

\* The request.
LEMMA CollectKeeps == ASSUME FusionTypeOK, FusionInv, CollectResult PROVE FusionKept
<1> DEFINE r == Head(resultsCh)
<1>1. /\ fusion = "collect" /\ ~Enough /\ resultsCh # <<>> /\ resultsCh' = Tail(resultsCh)
      /\ UNCHANGED <<panel, closed, ctx, timer, grace, fusion, reply, streams>>
  BY DEF CollectResult, Collecting, ReceiveResult, timerVars, answerVars
<1>2. DonePanel' = DonePanel BY <1>1 DEF DonePanel
<1>3. HandedOnce /\ Counted BY <1>1 DEF FusionInv
<1>4. /\ r \in Results /\ r.from \in DonePanel \ successes
      /\ resultsCh' \in Seq(Results) /\ Len(resultsCh') = Len(resultsCh) - 1
      /\ \A i \in DOMAIN resultsCh' : /\ resultsCh'[i].from \in DonePanel \ successes
                                      /\ resultsCh'[i].from # r.from
      /\ \A i, j \in DOMAIN resultsCh' : resultsCh'[i].from = resultsCh'[j].from => i = j
  BY <1>1, <1>3, Received
<1>5. \/ successes' = successes \cup {r.from} /\ failures' = failures
      \/ successes' = successes /\ failures' = failures + 1
  BY DEF CollectResult, ReceiveResult
<1> HIDE DEF r
<1>6. HandedOnce' BY <1>2, <1>3, <1>4, <1>5 DEF HandedOnce
<1>7. Cardinality(successes \cup {r.from}) = Cardinality(successes) + 1
  BY <1>4, FusionTyped, Cards
<1>8. Len(resultsCh) \in Nat \ {0} BY <1>1, FusionTyped
<1>9. Counted'
  <2>1. CASE successes' = successes \cup {r.from} /\ failures' = failures
    <3>1. Cardinality(successes') = Cardinality(successes) + 1 BY <1>7, <2>1
    <3> QED BY <1>2, <1>3, <1>4, <1>8, <2>1, <3>1, FusionTyped DEF Counted
  <2>2. CASE successes' = successes /\ failures' = failures + 1
    BY <1>2, <1>3, <1>4, <1>8, <2>2, FusionTyped DEF Counted
  <2> QED BY <1>5, <2>1, <2>2
<1>10. successes' \subseteq Panel BY <1>2, <1>6, FusionTyped DEF HandedOnce
<1>11. Cardinality(successes') \in 0..PanelSize BY <1>10, Cards
<1>12. Len(resultsCh') \in 0..PanelSize BY <1>4, <1>8, FusionTyped, Cards
<1>13. failures' \in 0..PanelSize
  <2>1. failures' \in Nat BY <1>5, FusionTyped
  <2>2. failures' <= Cardinality(DonePanel) BY <1>2, <1>9, <1>11, <1>12, <2>1, FusionTyped DEF Counted
  <2> QED BY <2>1, <2>2, FusionTyped, Cards
<1>14. FusionTypeOK' BY <1>1, <1>4, <1>10, <1>12, <1>13 DEF FusionTypeOK, Results
<1>15. QuorumOrTimeout'
  <2>1. reply # "failed" => reply' # "failed" BY <1>1
  <2>2. reply = "failed" => timer = "seen" \/ failures = PanelSize BY DEF FusionInv, QuorumOrTimeout
  <2>3. failures = PanelSize => FALSE
    BY <1>3, <1>8, FusionTyped DEF Counted
  <2> QED BY <1>1, <2>1, <2>2, <2>3 DEF QuorumOrTimeout
<1> QED BY <1>1, <1>2, <1>6, <1>9, <1>14, <1>15 DEF FusionKept, FusionInv

LEMMA StopCollectingKeeps == ASSUME FusionTypeOK, FusionInv, StopCollecting PROVE FusionKept
<1>1. /\ fusion = "collect" /\ ~Enough /\ fusion' = "answer" /\ Counted
      /\ UNCHANGED <<panel, resultsCh, closed, ctx, grace, successes, failures, reply, streams>>
  BY DEF StopCollecting, Collecting, countVars, FusionInv
<1>2. timer' = timer \/ timer' = "seen"
  BY DEF StopCollecting, StopWaiting
<1>3. DonePanel' = DonePanel BY <1>1 DEF DonePanel
<1>4. FusionTypeOK' BY <1>1, <1>2 DEF FusionTypeOK, Timers
<1>5. timer' = "seen" \/ (resultsCh = <<>> /\ DonePanel = Panel)
  <2>2. CASE closed /\ resultsCh = <<>> BY <2>2 DEF FusionInv
  <2>3. CASE AllReported
    <3>1. Len(resultsCh) = 0 /\ Cardinality(DonePanel) = PanelSize
      BY <1>1, <2>3, FusionTyped, Cards DEF Counted, AllReported
    <3> QED BY <3>1, FusionTyped, Cards
  <2>4. timer' = "seen" \/ (closed /\ resultsCh = <<>>) \/ AllReported
    BY DEF StopCollecting, StopWaiting
  <2> QED BY <2>2, <2>3, <2>4
<1>6. DonePanel = Panel => \A p \in Panel : panel[p] = "done" BY DEF DonePanel
<1>7. QuorumOrTimeout'
  BY <1>1, <1>2, <1>5, <1>6 DEF FusionInv, QuorumOrTimeout
<1> QED BY <1>1, <1>3, <1>4, <1>7 DEF FusionKept, FusionInv, HandedOnce, Counted

LEMMA StartGraceKeeps == ASSUME FusionTypeOK, FusionInv, StartGrace PROVE FusionKept
<1>1. /\ Enough /\ fusion' = "grace" /\ grace' = "running"
      /\ UNCHANGED <<panel, resultsCh, closed, ctx, timer, successes, failures, reply, streams>>
  BY DEF StartGrace, countVars
<1>2. DonePanel' = DonePanel /\ (Enough <=> Enough') BY <1>1 DEF DonePanel, Enough
<1>3. FusionTypeOK' BY <1>1 DEF FusionTypeOK, Timers
<1>4. QuorumOrTimeout' BY <1>1, <1>2 DEF FusionInv, QuorumOrTimeout
<1> QED BY <1>1, <1>2, <1>3, <1>4 DEF FusionKept, FusionInv, HandedOnce

LEMMA StragglerKeeps == ASSUME FusionTypeOK, FusionInv, CollectStraggler PROVE FusionKept
<1> DEFINE r == Head(resultsCh)
<1>1. /\ fusion = "grace" /\ Enough /\ resultsCh # <<>> /\ resultsCh' = Tail(resultsCh)
      /\ fusion' \in {"grace", "answer"} /\ grace' \in {grace, "off"}
      /\ UNCHANGED <<panel, closed, ctx, timer, failures, reply, streams>>
  BY DEF CollectStraggler, FusionInv
<1>2. DonePanel' = DonePanel BY <1>1 DEF DonePanel
<1>3. HandedOnce BY DEF FusionInv
<1>4. /\ r \in Results /\ r.from \in DonePanel \ successes
      /\ resultsCh' \in Seq(Results) /\ Len(resultsCh') = Len(resultsCh) - 1
      /\ \A i \in DOMAIN resultsCh' : /\ resultsCh'[i].from \in DonePanel \ successes
                                      /\ resultsCh'[i].from # r.from
      /\ \A i, j \in DOMAIN resultsCh' : resultsCh'[i].from = resultsCh'[j].from => i = j
  BY <1>1, <1>3, Received
<1>5. successes' \in {successes, successes \cup {r.from}}
  BY DEF CollectStraggler
<1> HIDE DEF r
<1>6. HandedOnce' BY <1>2, <1>3, <1>4, <1>5 DEF HandedOnce
<1>7. Cardinality(successes') >= Cardinality(successes) /\ successes' \subseteq Panel
  BY <1>4, <1>5, FusionTyped, Cards
<1>8. Enough' BY <1>1, <1>7, FusionTyped, Cards DEF Enough
<1>9. successes' # {} BY <1>8, Cards DEF Enough
<1>10. Len(resultsCh') \in 0..PanelSize
  <2>1. Len(resultsCh) \in Nat \ {0} BY <1>1, FusionTyped
  <2> QED BY <1>4, <2>1, FusionTyped, Cards
<1>11. FusionTypeOK' BY <1>1, <1>4, <1>7, <1>10 DEF FusionTypeOK, Results, Timers
<1>12. QuorumOrTimeout' BY <1>1, <1>8 DEF FusionInv, QuorumOrTimeout
<1> QED BY <1>1, <1>2, <1>6, <1>8, <1>9, <1>11, <1>12 DEF FusionKept, FusionInv

LEMMA StopGraceKeeps == ASSUME FusionTypeOK, FusionInv, StopGrace PROVE FusionKept
<1>1. /\ Enough /\ fusion' = "answer" /\ grace' = "off" /\ (timer' = timer \/ timer' = "seen")
      /\ UNCHANGED <<panel, resultsCh, closed, ctx, successes, failures, reply, streams>>
  BY DEF StopGrace, StopWaiting, countVars, FusionInv
<1>2. DonePanel' = DonePanel /\ (Enough <=> Enough') BY <1>1 DEF DonePanel, Enough
<1>3. FusionTypeOK' BY <1>1 DEF FusionTypeOK, Timers
<1>4. QuorumOrTimeout' BY <1>1, <1>2 DEF FusionInv, QuorumOrTimeout
<1>5. successes # {} BY <1>1, Cards DEF Enough
<1> QED BY <1>1, <1>2, <1>3, <1>4, <1>5 DEF FusionKept, FusionInv, HandedOnce

LEMMA ConcludeKeeps == ASSUME FusionTypeOK, FusionInv, Conclude PROVE FusionKept
<1>1. /\ fusion = "answer" /\ fusion' = "replied"
      /\ UNCHANGED <<panel, resultsCh, closed, ctx, timer, grace, successes, failures, streams>>
  BY DEF Conclude, timerVars, countVars
<1>2. reply' \in {"failed", "panel", "asked"} /\ (reply' = "failed" => successes = {})
  BY DEF Conclude
<1>3. DonePanel' = DonePanel /\ (Enough <=> Enough') BY <1>1 DEF DonePanel, Enough
<1>4. FusionTypeOK' BY <1>1, <1>2 DEF FusionTypeOK
<1>5. ASSUME successes = {} PROVE timer = "seen" \/ failures = PanelSize
  <2>1. ~Enough BY <1>5, Cards DEF Enough
  <2>2. CASE resultsCh = <<>> /\ \A p \in Panel : panel[p] = "done"
    <3>1. DonePanel = Panel BY <2>2 DEF DonePanel
    <3>2. Counted BY <1>1, <1>5 DEF FusionInv
    <3> QED BY <1>5, <2>2, <3>1, <3>2, FusionTyped, Cards DEF Counted
  <2> QED BY <1>1, <2>1, <2>2 DEF FusionInv, QuorumOrTimeout
<1>6. QuorumOrTimeout' BY <1>1, <1>2, <1>3, <1>5 DEF FusionInv, QuorumOrTimeout
<1> QED BY <1>1, <1>3, <1>4, <1>6 DEF FusionKept, FusionInv, HandedOnce

LEMMA LaunchKeeps == ASSUME FusionTypeOK, FusionInv, Launch PROVE FusionKept
<1>1. DonePanel' = {} BY DEF Launch, DonePanel
<1>2. FusionTypeOK'
  <2>1. resultsCh' \in Seq(Results) /\ Len(resultsCh') = 0 BY DEF Launch
  <2>2. Len(resultsCh)' <= PanelSize /\ failures' \in 0..PanelSize BY <2>1, Cards DEF Launch
  <2>3. panel' \in [Panel -> {"calling", "done"} \cup PanelAnswers] BY DEF Launch
  <2> QED BY <2>1, <2>2, <2>3 DEF Launch, FusionTypeOK, Timers, Results
<1>3. HandedOnce' BY <1>1 DEF Launch, HandedOnce
<1>4. Counted' BY <1>1, Cards DEF Launch, Counted
<1>5. QuorumOrTimeout' BY DEF Launch, QuorumOrTimeout
<1> QED BY <1>1, <1>2, <1>3, <1>4, <1>5 DEF Launch, FusionKept, FusionInv

LEMMA FusionStarts == FusionInit => FusionTypeOK /\ FusionInv
<1> SUFFICES ASSUME FusionInit PROVE FusionTypeOK /\ FusionInv
  OBVIOUS
<1>1. DonePanel = Panel BY DEF FusionInit, DonePanel
<1>2. FusionTypeOK
  <2>1. resultsCh \in Seq(Results) /\ Len(resultsCh) = 0 BY DEF FusionInit
  <2>2. Len(resultsCh) <= PanelSize /\ failures \in 0..PanelSize BY <2>1, Cards DEF FusionInit
  <2>3. panel \in [Panel -> {"calling", "done"} \cup PanelAnswers] BY DEF FusionInit
  <2> QED BY <2>1, <2>2, <2>3 DEF FusionInit, FusionTypeOK, Timers, Results
<1>3. HandedOnce BY DEF FusionInit, HandedOnce
<1>4. QuorumOrTimeout BY DEF FusionInit, QuorumOrTimeout
<1> QED BY <1>1, <1>2, <1>3, <1>4 DEF FusionInit, FusionInv

LEMMA FusionSteps == FusionTypeOK /\ FusionInv /\ [FusionNext]_fusionVars => FusionKept
<1> SUFFICES ASSUME FusionTypeOK, FusionInv, [FusionNext]_fusionVars PROVE FusionKept
  OBVIOUS
<1>1. ASSUME NEW p \in Panel, Goroutine(p) PROVE FusionKept
  BY <1>1, CalledKeeps, HandOverKeeps DEF Goroutine
<1>2. CASE Conduct
  BY <1>2, CollectKeeps, StopCollectingKeeps, StartGraceKeeps, StragglerKeeps, StopGraceKeeps,
     ConcludeKeeps DEF Conduct
<1>3. CASE UNCHANGED fusionVars
  <2>1. DonePanel' = DonePanel BY <1>3 DEF fusionVars, DonePanel
  <2> QED BY <1>3, <2>1 DEF fusionVars, FusionKept, FusionTypeOK, FusionInv, HandedOnce, Counted, Enough, QuorumOrTimeout
<1> QED BY <1>1, <1>2, <1>3, LaunchKeeps, CloseKeeps, ClockKeeps DEF FusionNext

\* For any panel and any min_panel, in whatever order answers, timers and the end
\* of the context come: a request goes on to its answer with fewer than min_panel
\* results only when none can come any more or time was up, and reports a failure
\* only when every panel has failed or time was up.
THEOREM QuorumIsWaitedFor == FusionSpec => []QuorumOrTimeout
<1>1. FusionInv => QuorumOrTimeout BY DEF FusionInv
<1> QED BY FusionStarts, FusionSteps, <1>1, PTL DEF FusionSpec, FusionKept

\* No result is lost or counted twice, and the channel never overflows.
THEOREM FusionTypeCorrect == FusionSpec => []FusionTypeOK
  BY FusionStarts, FusionSteps, PTL DEF FusionSpec, FusionKept
=============================================================================
