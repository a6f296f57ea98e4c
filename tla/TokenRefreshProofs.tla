------------------------- MODULE TokenRefreshProofs -------------------------
(***************************************************************************)
(* What refreshing guarantees for any number of callers and connections:   *)
(* within a rotation group one caller at a time is past the gate, the gate *)
(* is never lost, the newest token is what the row ends up with, and what  *)
(* becomes of the group's tokens is what TokenLedger promises.             *)
(***************************************************************************)
EXTENDS TokenRefresh, TLAPS

Connected == \A k \in Caller : caller[k].pc # "idle" => caller[k].conn \in Conn

AtGate == \A k \in Caller : caller[k].pc = "gate" => caller[k].conn \in Gated

GateInv ==
  /\ AtGate
  /\ OnePastGate
  /\ GateIsHeldBySomebody
  /\ gate # "held" => \A k \in Caller : ~PastGate(k)

\* The row lags behind what is queued, that behind the answers, those behind
\* upstream; and what a caller holds was in the row.
Ordered(c) ==
  /\ row[c] <= known[c]
  /\ known[c] <= live[c]
  /\ \A i \in DOMAIN queue : queue[i].conn = c => row[c] <= queue[i].tok /\ queue[i].tok <= known[c]
  /\ \A i, j \in DOMAIN queue :
       i < j /\ queue[i].conn = c /\ queue[j].conn = c => queue[i].tok <= queue[j].tok
  /\ \A k \in Caller : caller[k].conn = c => caller[k].tok <= row[c]

Carrying(k) == caller[k].pc \in {"answered", "saving"}

\* An answer on its way to the row brings the newest token, and nothing newer
\* than the token it replaces is stored or queued.
Carried(c) ==
  \A k \in Caller : caller[k].conn = c /\ Carrying(k) =>
    /\ caller[k].new = known[c]
    /\ caller[k].new # caller[k].tok =>
         /\ row[c] <= caller[k].tok
         /\ \A i \in DOMAIN queue : queue[i].conn = c => queue[i].tok <= caller[k].tok

\* When no answer is on its way, its token is stored or queued.
Reaches(c) ==
  c \notin lost /\ (\A k \in Caller : caller[k].conn = c => ~Carrying(k)) =>
    row[c] = known[c] \/ \E i \in DOMAIN queue : queue[i].conn = c /\ queue[i].tok = known[c]

Newest(c) == Ordered(c) /\ Carried(c) /\ Reaches(c)

NewestInv == \A c \in Gated : Newest(c)

Typed == TypeOK /\ Connected

USE TokenAssumption DEF Tokens

-----------------------------------------------------------------------------
(* Types. *)

LEMMA InitTyped == Init => Typed
  BY DEF Init, Typed, TypeOK, Connected, Idle, PCs

CallersOK ==
  /\ caller \in [Caller -> [pc: PCs, conn: Conn \cup {NoConn}, tok: Tokens, new: Tokens]]
  /\ Connected

\* The queue takes a write, and gives one up, within its type and capacity.
LEMMA Appended ==
  ASSUME NEW T, NEW q \in Seq(T), NEW e \in T, Len(q) < Cap
  PROVE  Append(q, e) \in Seq(T) /\ Len(Append(q, e)) <= Cap
  OBVIOUS

LEMMA Taken ==
  ASSUME NEW T, NEW q \in Seq(T), q # <<>>, Len(q) <= Cap
  PROVE  Head(q) \in T /\ Tail(q) \in Seq(T) /\ Len(Tail(q)) <= Cap
  OBVIOUS

LEMMA PutTyped ==
  ASSUME CallersOK, NEW K \in SUBSET Caller, \A k \in K : caller[k].pc # "idle",
         NEW pc \in PCs, Put(K, pc)
  PROVE  CallersOK'
  BY DEF CallersOK, Connected, Put

LEMMA ReturnTyped ==
  ASSUME CallersOK, NEW K \in SUBSET Caller, Return(K)
  PROVE  CallersOK'
  BY DEF CallersOK, Connected, Return, Idle, PCs

LEMMA TypedParts ==
  Typed <=>
    /\ live \in [Conn -> Tokens] /\ known \in [Conn -> Tokens] /\ row \in [Conn -> Tokens]
    /\ queue \in Seq([conn: Conn, tok: Tokens]) /\ Len(queue) <= Cap
    /\ rotation \subseteq Conn \X Tokens
    /\ gate \in {"open", "held", "spacing"}
    /\ lost \subseteq Conn
    /\ CallersOK
  BY DEF Typed, TypeOK, CallersOK

\* Every step of a caller before it has an answer.
LEMMA CallTyped ==
  ASSUME Typed, NEW k \in Caller, NEW c \in Conn,
         Read(k, c) \/ Redirect(k) \/ Miss(k) \/ TakeGate(k) \/ GiveUp(k) \/ Call(k) \/ Join(k)
  PROVE  Typed'
<1> USE DEF Typed, TypeOK, CallersOK
<1>0. {"holding", "gate", "ready", "calling", "joined"} \subseteq PCs BY DEF PCs
<1>1. CASE Read(k, c) BY <1>0, <1>1 DEF Read, Connected
<1>2. CASE Redirect(k) BY <1>2, ReturnTyped, {k} \in SUBSET Caller DEF Redirect
<1>3. CASE Miss(k)
  <2>1. PICK pc \in {"gate", "ready"} : Put({k}, pc) BY <1>3 DEF Miss
  <2>2. CallersOK' BY <1>0, <1>3, <2>1, PutTyped, {k} \in SUBSET Caller DEF Miss
  <2> QED BY <1>3, <2>2 DEF Miss
<1>4. CASE TakeGate(k) BY <1>0, <1>4, PutTyped, {k} \in SUBSET Caller DEF TakeGate
<1>5. CASE GiveUp(k) BY <1>5, ReturnTyped, {k} \in SUBSET Caller DEF GiveUp
<1>6. CASE Call(k) BY <1>0, <1>6, PutTyped, {k} \in SUBSET Caller DEF Call
<1>7. CASE Join(k) BY <1>0, <1>7, PutTyped, {k} \in SUBSET Caller DEF Join
<1> QED BY <1>1, <1>2, <1>3, <1>4, <1>5, <1>6, <1>7

LEMMA SharingSubset == \A k \in Caller : Sharing(k) \subseteq Caller /\ k \in Sharing(k)
  BY DEF Sharing

LEMMA SharingActive ==
  \A k \in Caller : caller[k].pc = "calling" => \A j \in Sharing(k) : caller[j].pc # "idle"
  BY DEF Sharing

LEMMA AnswerTyped ==
  ASSUME Typed, NEW k \in Caller,
         Replaced(k) \/ Kept(k) \/ AnswerLost(k) \/ Unreachable(k) \/ Rejected(k) \/ Disable(k)
  PROVE  Typed'
<1> USE DEF Typed, TypeOK, CallersOK, Release
<1>0. /\ {"answered", "rejected"} \subseteq PCs
      /\ Sharing(k) \in SUBSET Caller
  BY SharingSubset DEF PCs
<1>1. ASSUME NEW new \in Tokens, caller[k].pc = "calling", Answer(k, new) PROVE CallersOK'
  BY <1>0, <1>1, SharingActive DEF Answer, Connected
<1>2. caller[k].pc = "calling" => caller[k].conn \in Conn BY DEF Connected
<1>3. CASE Replaced(k)
  <2>1. live[caller[k].conn] + 1 \in Tokens BY <1>2, <1>3 DEF Replaced
  <2> QED BY <1>1, <1>2, <1>3, <2>1 DEF Replaced
<1>4. CASE Kept(k) BY <1>1, <1>4 DEF Kept
<1>5. CASE AnswerLost(k)
  <2>1. live[caller[k].conn] + 1 \in Tokens BY <1>2, <1>5 DEF AnswerLost
  <2> QED BY <1>0, <1>2, <1>5, <2>1, ReturnTyped DEF AnswerLost
<1>6. CASE Unreachable(k) BY <1>0, <1>6, ReturnTyped DEF Unreachable
<1>7. CASE Rejected(k) BY <1>0, <1>7, PutTyped, SharingActive DEF Rejected
<1>8. CASE Disable(k) BY <1>8, ReturnTyped, {k} \in SUBSET Caller DEF Disable
<1> QED BY <1>3, <1>4, <1>5, <1>6, <1>7, <1>8

LEMMA StoreTyped ==
  ASSUME Typed, NEW k \in Caller,
         Compare(k) \/ ReadFails(k) \/ Save(k) \/ Record(k)
  PROVE  Typed'
<1> USE DEF Typed, TypeOK, CallersOK, Release, LostBy
<1>0. {"saving", "recording"} \subseteq PCs BY DEF PCs
<1>5. {k} \in SUBSET Caller OBVIOUS
<1>1. CASE Compare(k)
  <2>1. PICK pc \in {"saving", "recording"} : Put({k}, pc) BY <1>1 DEF Compare
  <2>2. CallersOK' BY <1>0, <1>5, <1>1, <2>1, PutTyped DEF Compare
  <2> QED BY <1>1, <2>2 DEF Compare
<1>2. CASE ReadFails(k)
  <2>1. CallersOK' BY <1>0, <1>5, <1>2, PutTyped DEF ReadFails
  <2>2. caller[k].conn \in Conn BY <1>2 DEF ReadFails, Connected
  <2> QED BY <1>2, <2>1, <2>2 DEF ReadFails
<1>3. CASE Save(k)
  <2>1. CallersOK' BY <1>0, <1>5, <1>3, PutTyped DEF Save
  <2>2. caller[k].conn \in Conn BY <1>3 DEF Save, Connected
  <2>3. [conn |-> caller[k].conn, tok |-> caller[k].new] \in [conn: Conn, tok: Tokens] BY <2>2
  <2>4. queue' \in Seq([conn: Conn, tok: Tokens]) /\ Len(queue') <= Cap
    <3>1. CASE Len(queue) < Cap /\ queue' = Append(queue, [conn |-> caller[k].conn, tok |-> caller[k].new])
      <4>1. queue \in Seq([conn: Conn, tok: Tokens]) OBVIOUS
      <4> QED BY <2>3, <3>1, <4>1, Appended, Zenon
    <3>2. CASE queue' = queue BY <3>2
    <3> QED BY <1>3, <3>1, <3>2 DEF Save
  <2> QED BY <1>3, <2>1, <2>2, <2>4 DEF Save
<1>4. CASE Record(k)
  <2>1. CallersOK' BY <1>0, <1>5, <1>4, ReturnTyped DEF Record
  <2>2. caller[k].conn \in Conn BY <1>4 DEF Record, Connected
  <2> QED BY <1>4, <2>1, <2>2 DEF Record
<1> QED BY <1>1, <1>2, <1>3, <1>4

LEMMA OtherTyped ==
  ASSUME Typed,
         Reopen \/ (\E r \in rotation : Forget(r)) \/ Drain \/ Restart \/ UNCHANGED vars
  PROVE  Typed'
<1> USE DEF Typed, TypeOK, CallersOK
<1>1. CASE Reopen BY <1>1 DEF Reopen, Connected
<1>2. CASE \E r \in rotation : Forget(r) BY <1>2 DEF Forget, Connected
<1>3. CASE Drain
  <2>1. queue # <<>> BY <1>3 DEF Drain
  <2>2. /\ Head(queue) \in [conn: Conn, tok: Tokens]
        /\ Tail(queue) \in Seq([conn: Conn, tok: Tokens])
        /\ Len(Tail(queue)) <= Cap
    BY <2>1, Taken, Zenon
  <2> QED BY <1>3, <2>2 DEF Drain, Connected
<1>4. CASE Restart
  <2>1. CallersOK' BY <1>4, ReturnTyped, Caller \in SUBSET Caller DEF Restart
  <2> QED BY <1>4, <2>1 DEF Restart
<1>5. CASE UNCHANGED vars BY <1>5 DEF vars, Connected
<1> QED BY <1>1, <1>2, <1>3, <1>4, <1>5

LEMMA StepTyped == Typed /\ [Next]_vars => Typed'
<1> SUFFICES ASSUME Typed, [Next]_vars PROVE Typed'
  OBVIOUS
<1>1. ASSUME NEW k \in Caller, NEW c \in Conn, Read(k, c) PROVE Typed' BY <1>1, CallTyped
<1>2. ASSUME NEW k \in Caller, Step(k) PROVE Typed'
  <2>1. CASE Redirect(k) \/ Miss(k) \/ Call(k) \/ Join(k)
    <3>1. caller[k].pc # "idle" BY <2>1 DEF Redirect, Miss, Call, Join
    <3>2. Conn # {} BY <3>1 DEF Typed, Connected
    <3> QED BY <2>1, <3>2, CallTyped
  <2> QED BY <1>2, <2>1, AnswerTyped, StoreTyped DEF Step
<1>3. ASSUME NEW k \in Caller, TakeGate(k) \/ GiveUp(k) PROVE Typed'
  <2>1. Conn # {} BY <1>3 DEF TakeGate, GiveUp, Typed, Connected
  <2> QED BY <1>3, <2>1, CallTyped
<1> QED BY <1>1, <1>2, <1>3, OtherTyped DEF Next

\* The state is well-typed whatever is called, answered, lost and restarted.
THEOREM TypeCorrect == Spec => []TypeOK
<1>1. Typed => TypeOK BY DEF Typed
<1> QED BY InitTyped, StepTyped, <1>1, PTL DEF Spec

-----------------------------------------------------------------------------
(* The gate. *)

LEMMA InitGate == Init => GateInv
  BY DEF Init, Idle, GateInv, AtGate, OnePastGate, GateIsHeldBySomebody, PastGate

\* A step that brings nobody past the gate and nobody out of it.
LEMMA GateAsBefore ==
  ASSUME GateInv, gate' = gate, AtGate', \A k \in Caller : PastGate(k)' <=> PastGate(k)
  PROVE  GateInv'
  BY DEF GateInv, OnePastGate, GateIsHeldBySomebody

\* The callers of K, all of one connection and one of them k, leave refreshToken.
LEMMA GateReleased ==
  ASSUME GateInv, AtGate', NEW k \in Caller, NEW K \in SUBSET Caller, k \in K,
         caller[k].pc \in {"calling", "recording"},
         \A j \in K : caller[j].conn = caller[k].conn,
         Release(caller[k].conn),
         \A j \in Caller : PastGate(j)' <=> PastGate(j) /\ j \notin K
  PROVE  GateInv'
<1>1. CASE caller[k].conn \in Gated
  <2>1. PastGate(k) BY <1>1 DEF PastGate
  <2>2. \A j \in Caller : ~PastGate(j)' BY <2>1 DEF GateInv, OnePastGate
  <2> QED BY <1>1, <2>2 DEF GateInv, OnePastGate, GateIsHeldBySomebody, Release
<1>2. CASE caller[k].conn \notin Gated
  <2>1. \A j \in K : ~PastGate(j) BY <1>2 DEF PastGate
  <2>2. gate' = gate BY <1>2 DEF Release
  <2> QED BY <2>1, <2>2, GateAsBefore
<1> QED BY <1>1, <1>2

LEMMA CallGate ==
  ASSUME Typed, GateInv, NEW k \in Caller, NEW c \in Conn,
         Read(k, c) \/ Redirect(k) \/ Miss(k) \/ TakeGate(k) \/ GiveUp(k) \/ Call(k) \/ Join(k)
  PROVE  GateInv'
<1> USE DEF Typed, TypeOK, GateInv, AtGate, PastGate, Put, Return, Idle
<1>1. CASE Read(k, c) BY <1>1, GateAsBefore DEF Read
<1>2. CASE Redirect(k) BY <1>2, GateAsBefore DEF Redirect
<1>3. CASE Miss(k) BY <1>3, GateAsBefore DEF Miss
<1>4. CASE TakeGate(k)
  <2>1. \A j \in Caller : PastGate(j)' <=> j = k BY <1>4 DEF TakeGate
  <2> QED BY <1>4, <2>1 DEF TakeGate, OnePastGate, GateIsHeldBySomebody
<1>5. CASE GiveUp(k) BY <1>5, GateAsBefore DEF GiveUp
<1>6. CASE Call(k) BY <1>6, GateAsBefore DEF Call
<1>7. CASE Join(k) BY <1>7, GateAsBefore DEF Join
<1> QED BY <1>1, <1>2, <1>3, <1>4, <1>5, <1>6, <1>7

LEMMA AnswerGate ==
  ASSUME Typed, GateInv, NEW k \in Caller,
         Replaced(k) \/ Kept(k) \/ AnswerLost(k) \/ Unreachable(k) \/ Rejected(k) \/ Disable(k)
  PROVE  GateInv'
<1> USE DEF Typed, TypeOK, AtGate, PastGate, Put, Return, Idle
<1>0. /\ Sharing(k) \in SUBSET Caller
      /\ k \in Sharing(k)
      /\ \A j \in Sharing(k) : caller[j].conn = caller[k].conn /\ caller[j].pc \in {"joined", caller[k].pc}
  BY DEF Sharing, SameCall
<1>1. ASSUME NEW new, caller[k].pc = "calling", Answer(k, new), gate' = gate PROVE GateInv'
  <2>1. \A j \in Caller : caller'[j].conn = caller[j].conn BY <1>1 DEF Answer
  <2>2. \A j \in Caller : caller'[j].pc = IF j \in Sharing(k) THEN "answered" ELSE caller[j].pc
    BY <1>1 DEF Answer
  <2>3. \A j \in Caller : PastGate(j)' <=> PastGate(j) BY <1>0, <1>1, <2>1, <2>2
  <2>4. AtGate' BY <2>1, <2>2 DEF GateInv
  <2> QED BY <1>1, <2>3, <2>4, GateAsBefore
<1>2. ASSUME caller[k].pc = "calling", Return(Sharing(k)) \/ Put(Sharing(k), "rejected"),
             Release(caller[k].conn)
      PROVE GateInv'
  <2>1. \A j \in Caller : PastGate(j)' <=> PastGate(j) /\ j \notin Sharing(k) BY <1>0, <1>2
  <2>2. \A j \in Caller : caller'[j].pc = "gate" => caller'[j] = caller[j]
    <3>1. CASE Return(Sharing(k)) BY <3>1
    <3>2. CASE Put(Sharing(k), "rejected") BY <3>2
    <3> QED BY <1>2, <3>1, <3>2
  <2>3. AtGate' BY <2>2 DEF GateInv
  <2> QED BY <1>0, <1>2, <2>1, <2>3, GateReleased
<1>3. CASE Replaced(k) BY <1>1, <1>3 DEF Replaced
<1>4. CASE Kept(k) BY <1>1, <1>4 DEF Kept
<1>5. CASE AnswerLost(k) BY <1>2, <1>5 DEF AnswerLost
<1>6. CASE Unreachable(k) BY <1>2, <1>6 DEF Unreachable
<1>7. CASE Rejected(k) BY <1>2, <1>7 DEF Rejected
<1>8. CASE Disable(k) BY <1>8, GateAsBefore DEF Disable, GateInv
<1> QED BY <1>3, <1>4, <1>5, <1>6, <1>7, <1>8

LEMMA StoreGate ==
  ASSUME Typed, GateInv, NEW k \in Caller,
         Compare(k) \/ ReadFails(k) \/ Save(k) \/ Record(k)
  PROVE  GateInv'
<1> USE DEF Typed, TypeOK, GateInv, AtGate, PastGate, Put, Return, Idle
<1>1. CASE Compare(k)
  <2>1. PICK pc \in {"saving", "recording"} : Put({k}, pc) BY <1>1 DEF Compare
  <2> QED BY <1>1, <2>1, GateAsBefore DEF Compare
<1>2. CASE ReadFails(k) BY <1>2, GateAsBefore DEF ReadFails
<1>3. CASE Save(k)
  <2>1. caller[k].pc = "saving" /\ Put({k}, "recording") /\ gate' = gate BY <1>3 DEF Save
  <2> QED BY <2>1, GateAsBefore
<1>4. CASE Record(k)
  <2>1. \A j \in Caller : PastGate(j)' <=> PastGate(j) /\ j \notin {k} BY <1>4 DEF Record
  <2> QED BY <1>4, <2>1, GateReleased, {k} \in SUBSET Caller, k \in {k} DEF Record
<1> QED BY <1>1, <1>2, <1>3, <1>4

LEMMA OtherGate ==
  ASSUME Typed, GateInv,
         Reopen \/ (\E r \in rotation : Forget(r)) \/ Drain \/ Restart \/ UNCHANGED vars
  PROVE  GateInv'
<1> USE DEF Typed, TypeOK, GateInv, AtGate, PastGate
<1>1. CASE Reopen BY <1>1 DEF Reopen, OnePastGate, GateIsHeldBySomebody
<1>2. CASE \E r \in rotation : Forget(r) BY <1>2, GateAsBefore DEF Forget
<1>3. CASE Drain BY <1>3, GateAsBefore DEF Drain
<1>4. CASE Restart BY <1>4 DEF Restart, Return, Idle, OnePastGate, GateIsHeldBySomebody
<1>5. CASE UNCHANGED vars BY <1>5, GateAsBefore DEF vars
<1> QED BY <1>1, <1>2, <1>3, <1>4, <1>5

LEMMA StepGate == Typed /\ GateInv /\ [Next]_vars => GateInv'
<1> SUFFICES ASSUME Typed /\ GateInv, [Next]_vars PROVE GateInv'
  OBVIOUS
<1>1. ASSUME NEW k \in Caller, NEW c \in Conn, Read(k, c) PROVE GateInv' BY <1>1, CallGate
<1>2. ASSUME NEW k \in Caller, Step(k) PROVE GateInv'
  <2>1. CASE Redirect(k) \/ Miss(k) \/ Call(k) \/ Join(k)
    <3>1. caller[k].pc # "idle" BY <2>1 DEF Redirect, Miss, Call, Join
    <3>2. Conn # {} BY <3>1 DEF Typed, Connected
    <3> QED BY <2>1, <3>2, CallGate
  <2> QED BY <1>2, <2>1, AnswerGate, StoreGate DEF Step
<1>3. ASSUME NEW k \in Caller, TakeGate(k) \/ GiveUp(k) PROVE GateInv'
  <2>1. Conn # {} BY <1>3 DEF TakeGate, GiveUp, Typed, Connected
  <2> QED BY <1>3, <2>1, CallGate
<1> QED BY <1>1, <1>2, <1>3, OtherGate DEF Next

LEMMA Gate == Spec => [](Typed /\ GateInv)
  BY InitTyped, InitGate, StepTyped, StepGate, PTL DEF Spec

\* Whatever the callers' contexts and upstream do, one caller of a rotation group
\* at a time calls, compares and stores.
THEOREM GateExcludes == Spec => []OnePastGate
<1>1. GateInv => OnePastGate BY DEF GateInv
<1> QED BY Gate, <1>1, PTL

\* No way out of a refresh leaves the gate shut.
THEOREM GateIsNeverLost == Spec => []GateIsHeldBySomebody
<1>1. GateInv => GateIsHeldBySomebody BY DEF GateInv
<1> QED BY Gate, <1>1, PTL

-----------------------------------------------------------------------------
(* The newest token. *)

LEMMA InitNewest == ASSUME Init, NEW c \in Gated PROVE Newest(c)
<1>1. c \in Conn OBVIOUS
<1>2. \A k \in Caller : caller[k].conn # c BY <1>1 DEF Init, Idle
<1> QED BY <1>1, <1>2 DEF Init, Newest, Ordered, Carried, Reaches

LEMMA Members ==
  ASSUME NEW T, NEW q \in Seq(T)
  PROVE  Len(q) \in Nat /\ DOMAIN q = 1..Len(q) /\ \A i \in DOMAIN q : q[i] \in T
  OBVIOUS

LEMMA Numbers ==
  ASSUME Typed
  PROVE  /\ \A c \in Conn : live[c] \in Nat /\ known[c] \in Nat /\ row[c] \in Nat
         /\ \A i \in DOMAIN queue : queue[i].conn \in Conn /\ queue[i].tok \in Nat
         /\ \A k \in Caller : caller[k].tok \in Nat /\ caller[k].new \in Nat
         /\ Len(queue) \in Nat /\ DOMAIN queue = 1..Len(queue)
<1> USE DEF Typed, TypeOK
<1>1. queue \in Seq([conn: Conn, tok: Tokens]) OBVIOUS
<1>2. /\ Len(queue) \in Nat /\ DOMAIN queue = 1..Len(queue)
      /\ \A i \in DOMAIN queue : queue[i] \in [conn: Conn, tok: Tokens]
  BY <1>1, Members, Zenon
<1>3. \A i \in DOMAIN queue : queue[i].conn \in Conn /\ queue[i].tok \in Nat BY <1>2
<1>4. \A c \in Conn : live[c] \in Nat /\ known[c] \in Nat /\ row[c] \in Nat OBVIOUS
<1>5. \A k \in Caller : caller[k].tok \in Nat /\ caller[k].new \in Nat OBVIOUS
<1> QED BY <1>2, <1>3, <1>4, <1>5

\* A step that leaves row, queue and known alone as far as c goes: answers may
\* stop being carried only if that costs nothing or is remembered.
LEMMA NewestAsBefore ==
  ASSUME Typed, NEW c \in Gated, Newest(c),
         queue' = queue, row'[c] = row[c], known'[c] = known[c],
         live'[c] \in Nat, live[c] <= live'[c],
         \A j \in Caller : caller'[j].conn = c =>
           /\ caller'[j].tok <= row[c]
           /\ Carrying(j)' => Carrying(j) /\ caller[j].conn = c
                              /\ caller'[j].tok = caller[j].tok /\ caller'[j].new = caller[j].new,
         c \notin lost' => c \notin lost,
         c \notin lost' => \A j \in Caller : caller[j].conn = c /\ Carrying(j) =>
           (caller'[j].conn = c /\ Carrying(j)') \/ row[c] = known[c]
  PROVE  Newest(c)'
<1> USE DEF Newest
<1>1. c \in Conn OBVIOUS
<1>2. Ordered(c)' BY <1>1, Numbers DEF Ordered
<1>3. Carried(c)' BY DEF Carried
<1>4. Reaches(c)' BY DEF Reaches
<1> QED BY <1>2, <1>3, <1>4

\* Callers that carry nothing take a step that gives them nothing to carry.
LEMMA PutNewest ==
  ASSUME Typed, NEW c \in Gated, Newest(c), NEW K \in SUBSET Caller, NEW pc,
         \A j \in K : ~Carrying(j), pc \notin {"answered", "saving"}, Put(K, pc),
         UNCHANGED <<live, known, row, queue, lost>>
  PROVE  Newest(c)'
<1>1. c \in Conn /\ live[c] \in Nat /\ live[c] <= live[c] BY Numbers DEF Typed, TypeOK
<1>2. \A j \in Caller :
        /\ caller'[j].conn = caller[j].conn /\ caller'[j].tok = caller[j].tok
        /\ caller'[j].new = caller[j].new
        /\ Carrying(j)' <=> Carrying(j)
  BY DEF Put, Typed, TypeOK, Carrying
<1>3. \A j \in Caller : caller[j].conn = c => caller[j].tok <= row[c] BY DEF Newest, Ordered
<1> QED BY <1>1, <1>2, <1>3, NewestAsBefore, SMT

\* They leave; upstream may have moved on, and something may have been lost.
LEMMA ReturnNewest ==
  ASSUME Typed, NEW c \in Gated, Newest(c), NEW K \in SUBSET Caller,
         \A j \in K : ~Carrying(j), Return(K),
         UNCHANGED <<known, row, queue, lost>>, live'[c] \in Nat, live[c] <= live'[c]
  PROVE  Newest(c)'
<1>1. c \in Conn /\ c # NoConn OBVIOUS
<1>2. \A j \in Caller : caller'[j].conn = c => caller'[j] = caller[j] BY <1>1 DEF Return, Idle
<1>3. \A j \in Caller : Carrying(j) => caller'[j] = caller[j] BY DEF Return
<1>4. \A j \in Caller : caller[j].conn = c => caller[j].tok <= row[c] BY DEF Newest, Ordered
<1> QED BY <1>1, <1>2, <1>3, <1>4, NewestAsBefore, SMT DEF Carrying

LEMMA CallNewest ==
  ASSUME Typed, NEW c \in Gated, Newest(c), NEW k \in Caller, NEW d \in Conn,
         Read(k, d) \/ Redirect(k) \/ Miss(k) \/ TakeGate(k) \/ GiveUp(k) \/ Call(k) \/ Join(k)
  PROVE  Newest(c)'
<1>1. c \in Conn /\ live[c] \in Nat /\ row[c] \in Nat /\ {k} \in SUBSET Caller BY Numbers
<1>2. live[c] <= live[c] /\ row[c] <= row[c] BY <1>1
<1>3. CASE Read(k, d)
  <2>1. \A j \in Caller : caller[j].conn = c => caller[j].tok <= row[c] BY DEF Newest, Ordered
  <2>2. /\ caller'[k] = [pc |-> "holding", conn |-> d, tok |-> row[d], new |-> row[d]]
        /\ caller[k].pc = "idle"
        /\ \A j \in Caller \ {k} : caller'[j] = caller[j]
    BY <1>3 DEF Read, Typed, TypeOK
  <2>3. UNCHANGED <<live, known, row, queue, lost>> BY <1>3 DEF Read
  <2> QED BY <1>1, <1>2, <2>1, <2>2, <2>3, NewestAsBefore DEF Carrying
<1>4. CASE Redirect(k) BY <1>1, <1>2, <1>4, ReturnNewest DEF Redirect, Carrying
<1>5. CASE Miss(k)
  <2>1. PICK pc \in {"gate", "ready"} : Put({k}, pc) BY <1>5 DEF Miss
  <2> QED BY <1>1, <1>5, <2>1, PutNewest DEF Miss, Carrying
<1>6. CASE TakeGate(k) BY <1>1, <1>6, PutNewest DEF TakeGate, Carrying
<1>7. CASE GiveUp(k) BY <1>1, <1>2, <1>7, ReturnNewest DEF GiveUp, Carrying
<1>8. CASE Call(k) BY <1>1, <1>8, PutNewest DEF Call, Carrying
<1>9. CASE Join(k) BY <1>1, <1>9, PutNewest DEF Join, Carrying
<1> QED BY <1>3, <1>4, <1>5, <1>6, <1>7, <1>8, <1>9

\* Past the gate nobody else is at work on a connection of the group.
LEMMA Alone ==
  ASSUME GateInv, NEW c \in Gated, NEW k \in Caller, caller[k].conn = c,
         caller[k].pc = "calling" \/ Carrying(k)
  PROVE  /\ Sharing(k) = {k}
         /\ \A j \in Caller : caller[j].conn = c /\ Carrying(j) => j = k
<1> USE DEF GateInv, OnePastGate, PastGate, Carrying
<1>1. \A j \in Sharing(k) : j = k BY DEF Sharing, SameCall
<1>2. k \in Sharing(k) BY DEF Sharing
<1> QED BY <1>1, <1>2

\* Upstream has answered k: the token presented was the newest of all.
LEMMA AnsweredNewest ==
  ASSUME Typed, GateInv, NEW c \in Gated, Newest(c), NEW k \in Caller,
         caller[k].pc = "calling", caller[k].tok = live[caller[k].conn],
         NEW new \in Nat, Answer(k, new), UNCHANGED <<row, queue, lost>>,
         \/ new = caller[k].tok + 1 /\ live' = [live EXCEPT ![caller[k].conn] = new]
                                  /\ known' = [known EXCEPT ![caller[k].conn] = new]
         \/ new = caller[k].tok /\ UNCHANGED <<live, known>>
  PROVE  Newest(c)'
<1> USE DEF Typed, TypeOK
<1>1. c \in Conn /\ caller[k].conn \in Conn BY DEF Connected
<1>2. CASE caller[k].conn = c
  <2>1. Sharing(k) = {k} /\ \A j \in Caller : caller[j].conn = c => ~Carrying(j)
    BY <1>2, Alone DEF Carrying
  <2>2. /\ caller'[k].conn = c /\ caller'[k].tok = caller[k].tok /\ caller'[k].new = new
        /\ caller'[k].pc = "answered"
        /\ \A j \in Caller \ {k} : caller'[j] = caller[j]
    BY <1>2, <2>1 DEF Answer
  <2>3. /\ row[c] <= caller[k].tok /\ caller[k].tok <= row[c] /\ known[c] = caller[k].tok
        /\ known'[c] = new /\ live'[c] = new
    <3>1. /\ row[c] \in Nat /\ known[c] \in Nat /\ live[c] \in Nat /\ caller[k].tok \in Nat
          /\ caller[k].tok = live[c]
      BY <1>1, <1>2, Numbers
    <3>2. row[c] <= known[c] /\ known[c] <= live[c] /\ caller[k].tok <= row[c]
      BY <1>2 DEF Newest, Ordered
    <3>3. row[c] <= caller[k].tok /\ known[c] = caller[k].tok BY <3>1, <3>2
    <3>4. known'[c] = new /\ live'[c] = new BY <1>1, <1>2, <3>1, <3>3
    <3> QED BY <3>2, <3>3, <3>4
  <2>4. Ordered(c)'
    <3>1. known[c] <= new BY <1>1, <2>3, Numbers
    <3>2. \A j \in Caller : caller'[j].conn = c => caller'[j].tok <= row[c]
      BY <1>2, <2>2 DEF Newest, Ordered
    <3>3. \A i \in DOMAIN queue : queue[i].conn = c => queue[i].tok <= new
      <4>1. known[c] \in Nat /\ \A i \in DOMAIN queue : queue[i].tok \in Nat BY <1>1, Numbers
      <4>2. \A i \in DOMAIN queue : queue[i].conn = c => queue[i].tok <= known[c]
        BY DEF Newest, Ordered
      <4> HIDE DEF Typed, TypeOK
      <4> QED BY <3>1, <4>1, <4>2
    <3>4. row[c] <= new BY <1>1, <2>3, <3>1, Numbers
    <3> QED BY <2>3, <3>2, <3>3, <3>4 DEF Newest, Ordered
  <2>5. \A j \in Caller : caller'[j].conn = c /\ Carrying(j)' => j = k BY <2>1, <2>2 DEF Carrying
  <2>6. Carried(c)' BY <1>1, <2>2, <2>3, <2>5, Numbers DEF Newest, Ordered, Carried
  <2>7. Reaches(c)' BY <2>2 DEF Reaches, Carrying
  <2> QED BY <2>4, <2>6, <2>7 DEF Newest
<1>3. CASE caller[k].conn # c
  <2>1. \A j \in Caller : caller'[j].conn = caller[j].conn BY DEF Answer
  <2>2. \A j \in Caller : caller[j].conn = c => caller'[j] = caller[j]
    BY <1>3 DEF Answer, Sharing, SameCall
  <2>3. known'[c] = known[c] /\ live'[c] = live[c] BY <1>1, <1>3
  <2>4. live[c] \in Nat /\ live[c] <= live[c] BY <1>1, Numbers
  <2>5. \A j \in Caller : caller[j].conn = c => caller[j].tok <= row[c] BY DEF Newest, Ordered
  <2> QED BY <2>1, <2>2, <2>3, <2>4, <2>5, NewestAsBefore DEF Carrying
<1> QED BY <1>2, <1>3

LEMMA AnswerNewest ==
  ASSUME Typed, GateInv, NEW c \in Gated, Newest(c), NEW k \in Caller,
         Replaced(k) \/ Kept(k) \/ AnswerLost(k) \/ Unreachable(k) \/ Rejected(k) \/ Disable(k)
  PROVE  Newest(c)'
<1>0. /\ Sharing(k) \in SUBSET Caller
      /\ caller[k].pc = "calling" => \A j \in Sharing(k) : ~Carrying(j)
  BY DEF Sharing, Carrying
<1>1. c \in Conn /\ live[c] \in Nat /\ live[c] <= live[c] BY Numbers
<1>2. caller[k].pc # "idle" => caller[k].conn \in Conn /\ live[caller[k].conn] \in Nat
  BY Numbers DEF Typed, Connected
<1>3. CASE Replaced(k)
  <2>1. live[caller[k].conn] + 1 \in Nat BY <1>2, <1>3 DEF Replaced
  <2> QED BY <1>3, <2>1, AnsweredNewest DEF Replaced
<1>4. CASE Kept(k)
  <2>1. caller[k].tok \in Nat BY Numbers
  <2> QED BY <1>4, <2>1, AnsweredNewest DEF Kept
<1>5. CASE AnswerLost(k)
  <2>1. live'[c] \in Nat /\ live[c] <= live'[c] BY <1>1, <1>2, <1>5 DEF AnswerLost, Typed, TypeOK
  <2> QED BY <1>0, <1>5, <2>1, ReturnNewest DEF AnswerLost
<1>6. CASE Unreachable(k) BY <1>0, <1>1, <1>6, ReturnNewest DEF Unreachable
<1>7. CASE Rejected(k) BY <1>0, <1>7, PutNewest DEF Rejected
<1>8. CASE Disable(k)
  <2>1. {k} \in SUBSET Caller /\ ~Carrying(k) BY <1>8 DEF Disable, Carrying
  <2> QED BY <1>1, <1>8, <2>1, ReturnNewest DEF Disable
<1> QED BY <1>3, <1>4, <1>5, <1>6, <1>7, <1>8

\* The write of an answer is queued behind all others.
LEMMA SavedNewest ==
  ASSUME Typed, GateInv, NEW c \in Gated, Newest(c), NEW k \in Caller,
         Carrying(k), Put({k}, "recording"), UNCHANGED <<live, known, row, lost>>,
         queue' = Append(queue, [conn |-> caller[k].conn, tok |-> caller[k].new])
  PROVE  Newest(c)'
<1>1. /\ c \in Conn /\ row[c] \in Nat /\ known[c] \in Nat
      /\ Len(queue) \in Nat /\ DOMAIN queue = 1..Len(queue)
      /\ \A i \in DOMAIN queue : queue[i].tok \in Nat
  BY Numbers
<1>2. /\ DOMAIN queue' = 1..(Len(queue) + 1)
      /\ \A i \in 1..Len(queue) : queue'[i] = queue[i]
      /\ queue'[Len(queue) + 1] = [conn |-> caller[k].conn, tok |-> caller[k].new]
  BY DEF Typed, TypeOK
<1>3. \A j \in Caller :
        /\ caller'[j].conn = caller[j].conn /\ caller'[j].tok = caller[j].tok
        /\ caller'[j].new = caller[j].new
        /\ Carrying(j)' <=> Carrying(j) /\ j # k
  BY DEF Put, Carrying, Typed, TypeOK
<1>4. /\ row[c] <= known[c] /\ known[c] <= live[c]
      /\ \A i \in 1..Len(queue) : queue[i].conn = c => row[c] <= queue[i].tok /\ queue[i].tok <= known[c]
      /\ \A i, j \in 1..Len(queue) :
           i < j /\ queue[i].conn = c /\ queue[j].conn = c => queue[i].tok <= queue[j].tok
      /\ \A j \in Caller : caller[j].conn = c => caller[j].tok <= row[c]
  BY <1>1 DEF Newest, Ordered
<1>5. caller[k].conn = c => caller[k].new = known[c] BY DEF Newest, Carried
<1>6. \A i \in 1..(Len(queue) + 1) : i \in 1..Len(queue) \/ i = Len(queue) + 1 BY <1>1
<1>7. Ordered(c)'
  <2>1. \A i \in DOMAIN queue' : queue'[i].conn = c => row[c] <= queue'[i].tok /\ queue'[i].tok <= known[c]
    BY <1>1, <1>2, <1>4, <1>5, <1>6
  <2>2. ASSUME NEW i \in DOMAIN queue', NEW j \in DOMAIN queue', i < j,
               queue'[i].conn = c, queue'[j].conn = c
        PROVE  queue'[i].tok <= queue'[j].tok
    <3>1. i \in 1..Len(queue) BY <1>1, <1>2, <2>2
    <3>2. CASE j \in 1..Len(queue) BY <1>2, <1>4, <2>2, <3>1, <3>2
    <3>3. CASE j = Len(queue) + 1 BY <1>2, <1>4, <1>5, <2>2, <3>1, <3>3
    <3> QED BY <1>2, <1>6, <3>2, <3>3
  <2> QED BY <1>3, <1>4, <2>1, <2>2 DEF Ordered
<1>8. Carried(c)'
  <2>1. ASSUME NEW j \in Caller, caller'[j].conn = c, Carrying(j)' PROVE caller[k].conn # c
    BY <1>3, <2>1, Alone
  <2>2. ASSUME NEW j \in Caller, caller'[j].conn = c, Carrying(j)',
               NEW i \in DOMAIN queue', queue'[i].conn = c
        PROVE  i \in 1..Len(queue) /\ queue'[i] = queue[i]
    BY <1>2, <1>6, <2>1, <2>2
  <2> QED BY <1>1, <1>3, <2>2 DEF Newest, Carried
<1>9. Reaches(c)'
  <2>1. CASE caller[k].conn = c
    <3>1. Len(queue) + 1 \in DOMAIN queue' BY <1>1, <1>2
    <3> QED BY <1>2, <1>5, <2>1, <3>1 DEF Reaches
  <2>2. CASE caller[k].conn # c
    <3>1. \A j \in Caller : caller[j].conn = c => (Carrying(j)' <=> Carrying(j)) BY <1>3, <2>2
    <3>2. \A i \in DOMAIN queue : i \in DOMAIN queue' /\ queue'[i] = queue[i] BY <1>1, <1>2
    <3> QED BY <1>3, <3>1, <3>2 DEF Newest, Reaches
  <2> QED BY <2>1, <2>2
<1> QED BY <1>7, <1>8, <1>9 DEF Newest

\* An answer on its way brings the newest token, and the row holds it, or the one
\* it replaces.
LEMMA Fetched ==
  ASSUME Typed, NEW c \in Gated, Newest(c), NEW k \in Caller, caller[k].conn = c, Carrying(k)
  PROVE  /\ caller[k].new = known[c]
         /\ caller[k].new = caller[k].tok => row[c] = known[c]
         /\ caller[k].new # caller[k].tok => row[c] = caller[k].tok
<1>1. c \in Conn /\ row[c] \in Nat /\ known[c] \in Nat /\ caller[k].tok \in Nat BY Numbers
<1>2. caller[k].tok <= row[c] /\ row[c] <= known[c] BY DEF Newest, Ordered
<1> QED BY <1>1, <1>2 DEF Newest, Carried

LEMMA StoreNewest ==
  ASSUME Typed, GateInv, NEW c \in Gated, Newest(c), NEW k \in Caller,
         Compare(k) \/ ReadFails(k) \/ Save(k) \/ Record(k)
  PROVE  Newest(c)'
<1>1. /\ c \in Conn /\ live[c] \in Nat /\ live[c] <= live[c]
      /\ row[c] \in Nat /\ known[c] \in Nat /\ caller[k].tok \in Nat
  BY Numbers
<1>2. \A j \in Caller : caller[j].conn = c => caller[j].tok <= row[c] BY DEF Newest, Ordered
<1>3. row[c] <= known[c] BY DEF Newest, Ordered
<1>4. ASSUME caller[k].conn = c, Carrying(k)
      PROVE  /\ caller[k].new = known[c]
             /\ caller[k].new = caller[k].tok => row[c] = known[c]
             /\ caller[k].new # caller[k].tok => row[c] = caller[k].tok
  BY <1>4, Fetched
<1>5. ASSUME NEW pc \in {"saving", "recording"}, Put({k}, pc), Carrying(k),
             UNCHANGED <<live, known, row, queue>>, c \notin lost' => c \notin lost,
             caller[k].conn = c /\ c \notin lost' => pc = "saving" \/ row[c] = known[c]
      PROVE  Newest(c)'
  <2>1. \A j \in Caller :
          /\ caller'[j].conn = caller[j].conn /\ caller'[j].tok = caller[j].tok
          /\ caller'[j].new = caller[j].new
          /\ j # k => (Carrying(j)' <=> Carrying(j))
          /\ Carrying(k)' <=> pc = "saving"
    BY <1>5 DEF Put, Carrying, Typed, TypeOK
  <2> QED BY <1>1, <1>2, <1>5, <2>1, NewestAsBefore
<1>6. ASSUME lost' = LostBy(k), c \notin lost', caller[k].conn = c, Carrying(k)
      PROVE  row[c] = known[c]
  BY <1>4, <1>6 DEF LostBy
<1>7. CASE Compare(k)
  <2>1. caller[k].conn = c => row[c] = caller[k].tok BY <1>4, <1>7 DEF Compare, Carrying
  <2>2. PICK pc \in {"saving", "recording"} :
          Put({k}, pc) /\ (caller[k].conn = c => pc = "saving")
    BY <1>7, <2>1 DEF Compare
  <2> QED BY <1>5, <1>7, <2>2 DEF Compare, Carrying
<1>8. CASE ReadFails(k)
  <2>1. c \notin lost' => c \notin lost BY <1>8 DEF ReadFails, LostBy
  <2> QED BY <1>5, <1>6, <1>8, <2>1 DEF ReadFails, Carrying
<1>9. CASE Save(k)
  <2>1. Put({k}, "recording") /\ Carrying(k) /\ UNCHANGED <<live, known, row>>
    BY <1>9 DEF Save, Carrying
  <2>2. CASE lost' = LostBy(k) /\ UNCHANGED queue
    <3>1. c \notin lost' => c \notin lost BY <2>2 DEF LostBy
    <3> QED BY <1>5, <1>6, <2>1, <2>2, <3>1
  <2>3. CASE /\ queue' = Append(queue, [conn |-> caller[k].conn, tok |-> caller[k].new])
             /\ UNCHANGED lost
    BY <2>1, <2>3, SavedNewest
  <2> QED BY <1>9, <2>2, <2>3 DEF Save
<1>10. CASE Record(k)
  <2>1. {k} \in SUBSET Caller /\ ~Carrying(k) BY <1>10 DEF Record, Carrying
  <2> QED BY <1>1, <1>10, <2>1, ReturnNewest DEF Record
<1> QED BY <1>7, <1>8, <1>9, <1>10

LEMMA Shifted ==
  ASSUME NEW T, NEW q \in Seq(T), q # <<>>
  PROVE  /\ 1 \in DOMAIN q /\ Head(q) = q[1]
         /\ DOMAIN Tail(q) = 1..(Len(q) - 1)
         /\ \A i \in 1..(Len(q) - 1) : Tail(q)[i] = q[i + 1]
  OBVIOUS

\* The oldest write reaches the row.
LEMMA DrainNewest == ASSUME Typed, NEW c \in Gated, Newest(c), Drain PROVE Newest(c)'
<1>1. /\ c \in Conn /\ row[c] \in Nat /\ known[c] \in Nat
      /\ Len(queue) \in Nat /\ DOMAIN queue = 1..Len(queue)
      /\ \A i \in DOMAIN queue : queue[i].conn \in Conn /\ queue[i].tok \in Nat
      /\ \A j \in Caller : caller[j].tok \in Nat
  BY Numbers
<1>2. /\ 1 \in DOMAIN queue
      /\ DOMAIN queue' = 1..(Len(queue) - 1)
      /\ \A i \in 1..(Len(queue) - 1) : queue'[i] = queue[i + 1]
      /\ row' = [row EXCEPT ![queue[1].conn] = queue[1].tok]
  <2>1. /\ queue # <<>> /\ queue' = Tail(queue)
        /\ row' = [row EXCEPT ![Head(queue).conn] = Head(queue).tok]
    BY DEF Drain
  <2>2. queue \in Seq([conn: Conn, tok: Tokens]) BY DEF Typed, TypeOK
  <2>3. /\ 1 \in DOMAIN queue /\ Head(queue) = queue[1]
        /\ DOMAIN Tail(queue) = 1..(Len(queue) - 1)
        /\ \A i \in 1..(Len(queue) - 1) : Tail(queue)[i] = queue[i + 1]
    BY <2>1, <2>2, Shifted, Zenon
  <2> QED BY <2>1, <2>3
<1>3. UNCHANGED <<live, known, caller, lost>> BY DEF Drain
<1>4. row'[c] = IF queue[1].conn = c THEN queue[1].tok ELSE row[c]
  BY <1>1, <1>2 DEF Typed, TypeOK
<1>5. \A i \in DOMAIN queue' :
        /\ i + 1 \in DOMAIN queue /\ 1 < i + 1 /\ queue'[i] = queue[i + 1]
        /\ i \in Nat
  BY <1>1, <1>2
<1>6. /\ row[c] <= known[c] /\ known[c] <= live[c]
      /\ \A i \in DOMAIN queue : queue[i].conn = c => row[c] <= queue[i].tok /\ queue[i].tok <= known[c]
      /\ \A i, j \in DOMAIN queue :
           i < j /\ queue[i].conn = c /\ queue[j].conn = c => queue[i].tok <= queue[j].tok
      /\ \A j \in Caller : caller[j].conn = c => caller[j].tok <= row[c]
  BY DEF Newest, Ordered
<1>7. row[c] <= row'[c] /\ row'[c] <= known[c] /\ row'[c] \in Nat BY <1>1, <1>2, <1>4, <1>6
<1>8. Ordered(c)'
  <2>1. \A i \in DOMAIN queue' : queue'[i].conn = c => row'[c] <= queue'[i].tok /\ queue'[i].tok <= known[c]
    BY <1>2, <1>4, <1>5, <1>6
  <2>2. \A i, j \in DOMAIN queue' :
          i < j /\ queue'[i].conn = c /\ queue'[j].conn = c => queue'[i].tok <= queue'[j].tok
    BY <1>5, <1>6
  <2>3. \A j \in Caller : caller[j].conn = c => caller[j].tok <= row'[c] BY <1>1, <1>6, <1>7
  <2> QED BY <1>3, <1>6, <1>7, <2>1, <2>2, <2>3 DEF Ordered
<1>9. Carried(c)'
  BY <1>2, <1>3, <1>4, <1>5 DEF Newest, Carried, Carrying
<1>10. Reaches(c)'
  <2>1. ASSUME c \notin lost', \A j \in Caller : caller'[j].conn = c => ~Carrying(j)'
        PROVE  row[c] = known[c] \/ \E i \in DOMAIN queue : queue[i].conn = c /\ queue[i].tok = known[c]
    BY <1>3, <2>1 DEF Newest, Reaches, Carrying
  <2>2. CASE row[c] = known[c] BY <1>1, <1>3, <1>7, <2>2 DEF Reaches
  <2>3. ASSUME NEW i \in DOMAIN queue, queue[i].conn = c, queue[i].tok = known[c] PROVE Reaches(c)'
    <3>1. CASE i = 1 BY <1>3, <1>4, <2>3, <3>1 DEF Reaches
    <3>2. CASE i # 1
      <4>1. i - 1 \in DOMAIN queue' /\ queue'[i - 1] = queue[i] BY <1>1, <1>2, <3>2
      <4> QED BY <1>3, <2>3, <4>1 DEF Reaches
    <3> QED BY <3>1, <3>2
  <2> QED BY <2>1, <2>2, <2>3 DEF Reaches
<1> QED BY <1>8, <1>9, <1>10 DEF Newest

LEMMA OtherNewest ==
  ASSUME Typed, NEW c \in Gated, Newest(c),
         Reopen \/ (\E r \in rotation : Forget(r)) \/ Drain \/ Restart \/ UNCHANGED vars
  PROVE  Newest(c)'
<1>1. CASE UNCHANGED <<live, known, row, queue, caller, lost>>
  BY <1>1 DEF Newest, Ordered, Carried, Reaches, Carrying
<1>2. CASE Restart
  <2>1. c \in Conn /\ c # NoConn OBVIOUS
  <2>2. \A j \in Caller : caller'[j].conn # c BY <1>2, <2>1 DEF Restart, Return, Idle
  <2>3. queue' = <<>> /\ UNCHANGED <<live, known, row>> BY <1>2 DEF Restart
  <2>4. Ordered(c)' BY <2>2, <2>3 DEF Newest, Ordered
  <2>5. Carried(c)' BY <2>2 DEF Carried
  <2>6. Reaches(c)' BY <1>2, <2>1, <2>3 DEF Restart, Reaches
  <2> QED BY <2>4, <2>5, <2>6 DEF Newest
<1> QED BY <1>1, <1>2, DrainNewest DEF Reopen, Forget, vars

LEMMA StepNewest == Typed /\ GateInv /\ NewestInv /\ [Next]_vars => NewestInv'
<1> SUFFICES ASSUME Typed, GateInv, NewestInv, [Next]_vars, NEW c \in Gated PROVE Newest(c)'
  BY DEF NewestInv
<1>0. Newest(c) /\ c \in Conn BY DEF NewestInv
<1>1. ASSUME NEW k \in Caller, NEW d \in Conn, Read(k, d) PROVE Newest(c)'
  BY <1>0, <1>1, CallNewest
<1>2. ASSUME NEW k \in Caller, Step(k) PROVE Newest(c)'
  BY <1>0, <1>2, CallNewest, AnswerNewest, StoreNewest DEF Step
<1>3. ASSUME NEW k \in Caller, TakeGate(k) \/ GiveUp(k) PROVE Newest(c)'
  BY <1>0, <1>3, CallNewest
<1> QED BY <1>0, <1>1, <1>2, <1>3, OtherNewest DEF Next

\* Within a rotation group the newest token always reaches the row, unless its
\* write is dropped, its row cannot be read, or the process dies.
THEOREM NewestIsStored == Spec => []GroupStoresNewest
<1>1. Init => NewestInv BY InitNewest DEF NewestInv
<1>2. Typed /\ NewestInv => GroupStoresNewest
  <2> SUFFICES ASSUME Typed, NewestInv, NEW c \in Gated, Stored(c), c \notin lost
               PROVE  row[c] = known[c]
    BY DEF GroupStoresNewest, NewestStored
  <2>1. Reaches(c) BY DEF NewestInv, Newest
  <2> QED BY <2>1 DEF Reaches, Stored, Carrying
<1> QED BY Gate, <1>1, <1>2, StepNewest, PTL DEF Spec

-----------------------------------------------------------------------------
(* TokenLedger is implemented. *)

\* Whatever is queued of an account is its newest token or the one in its row.
TwoTokens(c) == \A i \in DOMAIN queue : queue[i].conn = c => queue[i].tok \in {row[c], known[c]}

\* What is given up is nowhere any more.
Gone(c) ==
  c \in lost =>
    /\ row[c] # known[c]
    /\ \A i \in DOMAIN queue : queue[i].conn = c => queue[i].tok # known[c]
    /\ \A k \in Caller : caller[k].conn = c => ~Carrying(k)

LedgerInv == \A c \in Gated : TwoTokens(c) /\ Gone(c)

\* How a step shows in the ledger of one account.
Same(c) ==
  /\ known'[c] = known[c] /\ row'[c] = row[c]
  /\ Stored(c)' <=> Stored(c)
  /\ c \in lost' <=> c \in lost

Arrives(c) ==
  /\ row[c] = known[c] /\ known'[c] \in {known[c], known[c] + 1} /\ row'[c] = row[c]
  /\ ~Stored(c)'
  /\ c \in lost' <=> c \in lost

Stores(c) ==
  /\ ~Stored(c)
  /\ known'[c] = known[c] /\ row'[c] = known[c]
  /\ c \notin lost /\ c \notin lost'

Settles(c) ==
  /\ ~Stored(c) /\ Stored(c)'
  /\ row[c] = known[c] \/ c \in lost
  /\ known'[c] = known[c] /\ row'[c] = row[c]
  /\ c \in lost' <=> c \in lost

GivesUp(c) ==
  /\ ~Stored(c)
  /\ row[c] # known[c]
  /\ known'[c] = known[c] /\ row'[c] = row[c]
  /\ c \in lost'

\* What a step that concerns c comes to in the ledger.
Shown(c) ==
  /\ \A d \in Gated \ {c} : Same(d)
  /\ c \in Gated => Same(c) \/ Arrives(c) \/ Stores(c) \/ Settles(c) \/ GivesUp(c)

\* A step that concerns one account is a step of the ledger, or none.
LEMMA Shows ==
  ASSUME NEW c \in Conn, Shown(c)
  PROVE  [Ledger!Next]_(Ledger!vars)
<1> USE DEF Shown
<1> DEFINE way == {d \in Gated : ~Stored(d)}
           wayAfter == {d \in Gated : ~Stored(d)'}
<1>1. CASE \A d \in Gated : Same(d)
  <2>1. /\ [d \in Gated |-> known'[d]] = [d \in Gated |-> known[d]]
        /\ [d \in Gated |-> row'[d]] = [d \in Gated |-> row[d]]
        /\ wayAfter = way
        /\ lost' \cap Gated = lost \cap Gated
    BY <1>1 DEF Same
  <2> QED BY <2>1 DEF Ledger!vars
<1>2. CASE c \in Gated /\ Arrives(c)
  <2>1. /\ [d \in Gated |-> row'[d]] = [d \in Gated |-> row[d]]
        /\ wayAfter = way \cup {c}
        /\ lost' \cap Gated = lost \cap Gated
    BY <1>2 DEF Same, Arrives
  <2>2. [d \in Gated |-> known'[d]] = [[d \in Gated |-> known[d]] EXCEPT ![c] = known'[c]]
    BY <1>2 DEF Same
  <2>3. Ledger!Arrive(c) BY <1>2, <2>1, <2>2 DEF Ledger!Arrive, Arrives
  <2> QED BY <1>2, <2>3 DEF Ledger!Next
<1>3. CASE c \in Gated /\ Stores(c)
  <2>1. /\ [d \in Gated |-> known'[d]] = [d \in Gated |-> known[d]]
        /\ c \in way /\ wayAfter \in {way, way \ {c}}
        /\ lost' \cap Gated = lost \cap Gated
    BY <1>3 DEF Same, Stores
  <2>2. [d \in Gated |-> row'[d]] = [[d \in Gated |-> row[d]] EXCEPT ![c] = known[c]]
    BY <1>3 DEF Same, Stores
  <2>3. c \in way \ (lost \cap Gated) BY <1>3, <2>1 DEF Stores
  <2>4. Ledger!Store(c) BY <1>3, <2>1, <2>2, <2>3 DEF Ledger!Store
  <2> QED BY <1>3, <2>4 DEF Ledger!Next
<1>4. CASE c \in Gated /\ Settles(c)
  <2>1. /\ [d \in Gated |-> known'[d]] = [d \in Gated |-> known[d]]
        /\ [d \in Gated |-> row'[d]] = [d \in Gated |-> row[d]]
        /\ c \in way /\ wayAfter = way \ {c}
        /\ lost' \cap Gated = lost \cap Gated
    BY <1>4 DEF Same, Settles
  <2>2. Ledger!Settle(c) BY <1>4, <2>1 DEF Ledger!Settle, Settles
  <2> QED BY <1>4, <2>2 DEF Ledger!Next
<1>5. CASE c \in Gated /\ GivesUp(c)
  <2>1. /\ [d \in Gated |-> known'[d]] = [d \in Gated |-> known[d]]
        /\ [d \in Gated |-> row'[d]] = [d \in Gated |-> row[d]]
        /\ c \in way /\ wayAfter \in {way, way \ {c}}
        /\ lost' \cap Gated = (lost \cap Gated) \cup {c}
    BY <1>5 DEF Same, GivesUp
  <2>2. Ledger!GiveUp(c) BY <1>5, <2>1 DEF Ledger!GiveUp, GivesUp
  <2> QED BY <1>5, <2>2 DEF Ledger!Next
<1> QED BY <1>1, <1>2, <1>3, <1>4, <1>5

\* Nobody starts or stops carrying an answer for c.
CarriersStay(c) ==
  \A j \in Caller : caller'[j].conn = c /\ Carrying(j)' <=> caller[j].conn = c /\ Carrying(j)

\* What is still to be stored of c depends on its carriers and on the queue.
LEMMA StaysStored ==
  ASSUME NEW c, CarriersStay(c), queue' = queue
  PROVE  Stored(c)' <=> Stored(c)
  BY DEF CarriersStay, Stored, Carrying

\* Moving, or sending away, callers that carry nothing.
LEMMA PutStays ==
  ASSUME Typed, NEW K \in SUBSET Caller, \A j \in K : ~Carrying(j),
         NEW pc, pc \notin {"answered", "saving"}, Put(K, pc), NEW c
  PROVE  CarriersStay(c)
  BY DEF CarriersStay, Put, Carrying, Typed, TypeOK

LEMMA ReturnStays ==
  ASSUME NEW K \in SUBSET Caller, \A j \in K : ~Carrying(j), Return(K), NEW c
  PROVE  CarriersStay(c)
  BY DEF CarriersStay, Return, Carrying, Idle

\* A step that leaves tokens and carriers alone does not show in the ledger.
LEMMA QuietShows ==
  ASSUME UNCHANGED <<known, row, queue, lost>>, \A d \in Gated : CarriersStay(d)
  PROVE  \A d \in Gated : Same(d)
  BY StaysStored DEF Same

\* Up to the call nothing is carried.
LEMMA CallStays ==
  ASSUME Typed, NEW k \in Caller, NEW d \in Conn, NEW c,
         Read(k, d) \/ Redirect(k) \/ Miss(k) \/ TakeGate(k) \/ GiveUp(k) \/ Call(k) \/ Join(k)
  PROVE  CarriersStay(c)
<1>9. {k} \in SUBSET Caller OBVIOUS
<1>1. CASE Read(k, d)
  <2>1. /\ caller'[k].pc = "holding" /\ caller[k].pc = "idle"
        /\ \A j \in Caller \ {k} : caller'[j] = caller[j]
    BY <1>1 DEF Read, Typed, TypeOK
  <2> QED BY <2>1 DEF CarriersStay, Carrying
<1>2. CASE Redirect(k) \/ GiveUp(k)
  BY <1>9, <1>2, ReturnStays DEF Redirect, GiveUp, Carrying
<1>3. CASE Miss(k)
  <2>1. PICK pc \in {"gate", "ready"} : Put({k}, pc) BY <1>3 DEF Miss
  <2> QED BY <1>9, <1>3, <2>1, PutStays DEF Miss, Carrying
<1>4. CASE TakeGate(k) \/ Call(k) \/ Join(k)
  <2>1. PICK pc \in {"ready", "calling", "joined"} : Put({k}, pc) BY <1>4 DEF TakeGate, Call, Join
  <2> QED BY <1>9, <1>4, <2>1, PutStays DEF TakeGate, Call, Join, Carrying
<1> QED BY <1>1, <1>2, <1>3, <1>4

\* So nothing up to the call shows in the ledger.
LEMMA CallShows ==
  ASSUME Typed, NEW k \in Caller, NEW d \in Conn,
         Read(k, d) \/ Redirect(k) \/ Miss(k) \/ TakeGate(k) \/ GiveUp(k) \/ Call(k) \/ Join(k)
  PROVE  \A c \in Gated : Same(c)
<1>1. UNCHANGED <<known, row, queue, lost>>
  BY DEF Read, Redirect, Miss, TakeGate, GiveUp, Call, Join
<1> QED BY <1>1, CallStays, QuietShows

\* Upstream replaces the newest token, which the row holds, or answers without one.
LEMMA AnswerShows ==
  ASSUME Typed, NewestInv, NEW k \in Caller, NEW c \in Conn, caller[k].conn = c,
         Replaced(k) \/ Kept(k) \/ AnswerLost(k) \/ Unreachable(k) \/ Rejected(k) \/ Disable(k)
  PROVE  Shown(c)
<1>0. /\ Sharing(k) \in SUBSET Caller
      /\ caller[k].pc = "calling" => \A j \in Sharing(k) : ~Carrying(j)
      /\ {k} \in SUBSET Caller
  BY DEF Sharing, Carrying
<1>2. ASSUME NEW new, caller[k].pc = "calling", Answer(k, new), UNCHANGED <<row, queue, lost>>,
             caller[k].tok = live[c], new \in {known[c], known[c] + 1},
             known' = [known EXCEPT ![c] = new] \/ (new = known[c] /\ known' = known)
      PROVE  (\A d \in Gated \ {c} : Same(d)) /\ (c \in Gated /\ row[c] = known[c] => Arrives(c))
  <2>1. /\ \A j \in Caller \ Sharing(k) : caller'[j] = caller[j]
        /\ \A j \in Sharing(k) : caller'[j].conn = caller[j].conn /\ caller[j].conn = c
        /\ caller'[k].pc = "answered" /\ caller'[k].conn = c
    BY <1>0, <1>2 DEF Answer, Sharing, SameCall, Typed, TypeOK
  <2>2. ASSUME NEW d \in Gated \ {c} PROVE Same(d)
    <3>1. CarriersStay(d) BY <2>1, <2>2 DEF CarriersStay, Carrying
    <3>2. known'[d] = known[d] BY <1>2, <2>2 DEF Typed, TypeOK
    <3> QED BY <1>2, <3>1, <3>2, StaysStored DEF Same
  <2>3. ~Stored(c)' BY <2>1 DEF Stored
  <2>4. known'[c] = new BY <1>2 DEF Typed, TypeOK
  <2> QED BY <1>2, <2>2, <2>3, <2>4 DEF Arrives
<1>3. ASSUME caller[k].tok = live[c], c \in Gated
      PROVE  row[c] = known[c] /\ known[c] = live[c]
  <2>1. row[c] <= known[c] /\ known[c] <= live[c] /\ caller[k].tok <= row[c]
    BY <1>3 DEF NewestInv, Newest, Ordered
  <2> QED BY <1>3, <2>1, Numbers
<1>4. CASE Replaced(k) \/ Kept(k)
  <2>1. CASE c \in Gated
    <3>1. row[c] = known[c] /\ known[c] = live[c] BY <1>3, <1>4, <2>1 DEF Replaced, Kept
    <3>2. CASE Replaced(k)
      <4>1. /\ caller[k].pc = "calling" /\ Answer(k, known[c] + 1) /\ UNCHANGED <<row, queue, lost>>
            /\ known' = [known EXCEPT ![c] = known[c] + 1] /\ caller[k].tok = live[c]
        BY <3>1, <3>2 DEF Replaced
      <4> QED BY <1>2, <2>1, <3>1, <4>1 DEF Shown
    <3>3. CASE Kept(k)
      <4>1. /\ caller[k].pc = "calling" /\ Answer(k, known[c]) /\ UNCHANGED <<row, queue, lost>>
            /\ known' = known /\ caller[k].tok = live[c]
        BY <3>1, <3>3 DEF Kept
      <4> QED BY <1>2, <2>1, <3>1, <4>1 DEF Shown
    <3> QED BY <1>4, <3>2, <3>3
  <2>2. CASE c \notin Gated
    <3>1. ASSUME NEW d \in Gated PROVE Same(d)
      <4>1. PICK new : Answer(k, new) BY <1>4 DEF Replaced, Kept
      <4>2. \A j \in Caller : caller[j].conn = d \/ caller'[j].conn = d => caller'[j] = caller[j]
        <5>1. \A j \in Sharing(k) : caller[j].conn = c /\ caller'[j].conn = c
          BY <1>0, <4>1 DEF Answer, Sharing, SameCall, Typed, TypeOK
        <5>2. \A j \in Caller \ Sharing(k) : caller'[j] = caller[j] BY <4>1 DEF Answer
        <5> QED BY <2>2, <5>1, <5>2
      <4>3. CarriersStay(d) BY <4>2 DEF CarriersStay, Carrying
      <4>4. known'[d] = known[d] /\ UNCHANGED <<row, queue, lost>>
        BY <1>4, <2>2 DEF Replaced, Kept, Typed, TypeOK
      <4> QED BY <4>3, <4>4, StaysStored DEF Same
    <3> QED BY <2>2, <3>1 DEF Shown
  <2> QED BY <2>1, <2>2
<1>5. CASE AnswerLost(k) \/ Unreachable(k) \/ Rejected(k) \/ Disable(k)
  <2>1. UNCHANGED <<known, row, queue, lost>> BY <1>5 DEF AnswerLost, Unreachable, Rejected, Disable
  <2>2. ASSUME NEW d \in Gated PROVE CarriersStay(d)
    BY <1>0, <1>5, ReturnStays, PutStays DEF AnswerLost, Unreachable, Rejected, Disable, Carrying
  <2> QED BY <2>1, <2>2, QuietShows DEF Shown
<1> QED BY <1>4, <1>5

\* An answer on its way is compared, written or given up.
LEMMA StoreShows ==
  ASSUME Typed, NewestInv, NEW k \in Caller, NEW c \in Conn, caller[k].conn = c,
         Compare(k) \/ ReadFails(k) \/ Save(k) \/ Record(k)
  PROVE  Shown(c)
<1>2. c \in Gated /\ Carrying(k) =>
        /\ caller[k].new = known[c]
        /\ caller[k].new = caller[k].tok => row[c] = known[c]
        /\ caller[k].new # caller[k].tok => row[c] = caller[k].tok
  BY Fetched DEF NewestInv
<1>3. ASSUME NEW pc \in PCs, Put({k}, pc)
      PROVE  /\ \A j \in Caller \ {k} : caller'[j] = caller[j]
             /\ caller'[k].pc = pc /\ caller'[k].conn = c
  BY <1>3 DEF Put, Typed, TypeOK
<1>4. {"saving", "recording"} \subseteq PCs BY DEF PCs
<1>5. ASSUME NEW pc \in PCs, Put({k}, pc), queue' = queue
      PROVE  \A d \in Gated \ {c} : Stored(d)' <=> Stored(d)
  <2>1. \A d \in Gated \ {c} : CarriersStay(d) BY <1>3, <1>5 DEF CarriersStay, Carrying
  <2> QED BY <1>5, <2>1, StaysStored
<1>6. ASSUME Carrying(k), Put({k}, "recording"), UNCHANGED <<known, row, queue>>, lost' = LostBy(k)
      PROVE  Shown(c)
  <2>1. \A d \in Gated \ {c} : Same(d) BY <1>4, <1>5, <1>6 DEF Same, LostBy
  <2>2. ~Stored(c) BY <1>6 DEF Stored, Carrying
  <2>3. ASSUME c \in Gated PROVE Same(c) \/ Settles(c) \/ GivesUp(c)
    <3>1. CASE caller[k].new = caller[k].tok
      <4>1. row[c] = known[c] /\ lost' = lost BY <1>2, <1>6, <2>3, <3>1 DEF LostBy
      <4> QED BY <1>6, <2>2, <4>1 DEF Same, Settles
    <3>2. CASE caller[k].new # caller[k].tok
      <4>1. row[c] # known[c] /\ c \in lost' BY <1>2, <1>6, <2>3, <3>2 DEF LostBy
      <4> QED BY <1>6, <2>2, <4>1 DEF GivesUp
    <3> QED BY <3>1, <3>2
  <2> QED BY <2>1, <2>3 DEF Shown
<1>7. CASE Compare(k)
  <2>1. PICK pc \in {"saving", "recording"} : Put({k}, pc) /\ (row[c] = caller[k].tok => pc = "saving")
    BY <1>7 DEF Compare
  <2>2. \A d \in Gated \ {c} : Same(d) BY <1>4, <1>5, <1>7, <2>1 DEF Compare, Same
  <2>3. ASSUME c \in Gated PROVE Same(c)
    <3>1. row[c] = caller[k].tok
      <4>1. caller[k].tok <= row[c] /\ row[c] <= known[c] BY <2>3 DEF NewestInv, Newest, Ordered
      <4>2. Carrying(k) BY <1>7 DEF Compare, Carrying
      <4> QED BY <1>2, <2>3, <4>1, <4>2, Numbers
    <3>2. Carrying(k) /\ caller'[k].pc = "saving" /\ caller'[k].conn = c
      BY <1>3, <1>4, <1>7, <2>1, <3>1 DEF Compare, Carrying
    <3>3. ~Stored(c) /\ ~Stored(c)' BY <3>2 DEF Stored, Carrying
    <3> QED BY <1>7, <3>3 DEF Compare, Same
  <2> QED BY <2>2, <2>3 DEF Shown
<1>8. CASE ReadFails(k) BY <1>6, <1>8 DEF ReadFails, Carrying
<1>9. CASE Save(k)
  <2>1. Put({k}, "recording") /\ Carrying(k) /\ UNCHANGED <<known, row>> BY <1>9 DEF Save, Carrying
  <2>2. CASE lost' = LostBy(k) /\ UNCHANGED queue BY <1>6, <2>1, <2>2
  <2>3. CASE queue' = Append(queue, [conn |-> c, tok |-> caller[k].new]) /\ UNCHANGED lost
    <3>1. /\ Len(queue) \in Nat /\ DOMAIN queue = 1..Len(queue)
          /\ DOMAIN queue' = 1..(Len(queue) + 1)
          /\ \A i \in 1..Len(queue) : queue'[i] = queue[i]
          /\ queue'[Len(queue) + 1].conn = c
      BY <2>3 DEF Typed, TypeOK
    <3>2. \A i \in DOMAIN queue' : i \in DOMAIN queue \/ i = Len(queue) + 1 BY <3>1
    <3>3. ASSUME NEW d \in Gated \ {c} PROVE Same(d)
      <4>1. CarriersStay(d) BY <1>3, <1>4, <2>1, <3>3 DEF CarriersStay, Carrying
      <4>2. (\A i \in DOMAIN queue' : queue'[i].conn # d) <=> (\A i \in DOMAIN queue : queue[i].conn # d)
        BY <3>1, <3>2, <3>3
      <4>3. Stored(d)' <=> Stored(d) BY <4>1, <4>2 DEF Stored, CarriersStay, Carrying
      <4> QED BY <2>1, <2>3, <4>3 DEF Same
    <3>4. ~Stored(c) /\ ~Stored(c)'
      <4>1. Len(queue) + 1 \in DOMAIN queue' BY <3>1
      <4>2. ~Stored(c)' BY <3>1, <4>1 DEF Stored
      <4>3. ~Stored(c) BY <2>1 DEF Stored, Carrying
      <4> QED BY <4>2, <4>3
    <3> QED BY <2>1, <2>3, <3>3, <3>4 DEF Shown, Same
  <2> QED BY <1>9, <2>2, <2>3 DEF Save
<1>10. CASE Record(k)
  <2>1. {k} \in SUBSET Caller /\ ~Carrying(k) BY <1>10 DEF Record, Carrying
  <2>2. \A d \in Gated : CarriersStay(d) BY <1>10, <2>1, ReturnStays DEF Record
  <2> QED BY <1>10, <2>2, QuietShows DEF Record, Shown
<1> QED BY <1>7, <1>8, <1>9, <1>10

\* The oldest write is of the newest token, or one the row has already.
LEMMA DrainShows ==
  ASSUME Typed, NewestInv, LedgerInv, Drain
  PROVE  \E c \in Conn : Shown(c)
<1>0. PICK c \in Conn : queue # <<>> /\ c = queue[1].conn
  <2>1. queue # <<>> /\ queue \in Seq([conn: Conn, tok: Tokens]) BY DEF Drain, Typed, TypeOK
  <2>2. 1 \in DOMAIN queue BY <2>1, Shifted, Zenon
  <2> QED BY <2>1, <2>2, Numbers
<1>1. /\ 1 \in DOMAIN queue /\ DOMAIN queue = 1..Len(queue) /\ Len(queue) \in Nat
      /\ DOMAIN queue' = 1..(Len(queue) - 1)
      /\ \A i \in 1..(Len(queue) - 1) : queue'[i] = queue[i + 1]
      /\ row' = [row EXCEPT ![c] = queue[1].tok]
  <2>1. /\ queue # <<>> /\ queue' = Tail(queue)
        /\ row' = [row EXCEPT ![Head(queue).conn] = Head(queue).tok]
    BY DEF Drain
  <2>2. queue \in Seq([conn: Conn, tok: Tokens]) BY DEF Typed, TypeOK
  <2>3. /\ 1 \in DOMAIN queue /\ Head(queue) = queue[1]
        /\ DOMAIN Tail(queue) = 1..(Len(queue) - 1)
        /\ \A i \in 1..(Len(queue) - 1) : Tail(queue)[i] = queue[i + 1]
    BY <2>1, <2>2, Shifted, Zenon
  <2> QED BY <1>0, <2>1, <2>3, Numbers
<1>2. UNCHANGED <<known, caller, lost>> BY DEF Drain
<1>3. \A i \in DOMAIN queue : i = 1 \/ (i - 1 \in DOMAIN queue' /\ queue'[i - 1] = queue[i]) BY <1>1
<1>4. \A i \in DOMAIN queue' : i + 1 \in DOMAIN queue /\ queue'[i] = queue[i + 1] BY <1>1
<1>5. ASSUME NEW d \in Gated \ {c} PROVE Same(d)
  <2>1. (\A i \in DOMAIN queue' : queue'[i].conn # d) <=> (\A i \in DOMAIN queue : queue[i].conn # d)
    BY <1>0, <1>1, <1>3, <1>4, <1>5
  <2>2. Stored(d)' <=> Stored(d) BY <1>2, <2>1 DEF Stored
  <2>3. row'[d] = row[d] BY <1>1, <1>5 DEF Typed, TypeOK
  <2> QED BY <1>2, <2>2, <2>3 DEF Same
<1>6. ASSUME c \in Gated PROVE Same(c) \/ Stores(c) \/ Settles(c)
  <2>1. ~Stored(c) BY <1>0, <1>1 DEF Stored
  <2>2. row'[c] = queue[1].tok /\ queue[1].tok \in {row[c], known[c]}
    BY <1>0, <1>1, <1>2, <1>6 DEF LedgerInv, TwoTokens, Typed, TypeOK
  <2>3. CASE row'[c] = known[c]
    <3>1. c \notin lost
      <4>1. queue[1].conn = c /\ queue[1].tok = known[c] BY <1>0, <2>2, <2>3
      <4> QED BY <1>1, <1>6, <4>1 DEF LedgerInv, Gone
    <3> QED BY <1>2, <2>1, <2>3, <3>1 DEF Stores
  <2>4. CASE row'[c] = row[c] /\ ~Stored(c)' BY <1>2, <2>1, <2>4 DEF Same
  <2>5. CASE row'[c] = row[c] /\ Stored(c)' /\ row'[c] # known[c]
    <3>1. Newest(c)' BY <1>6, DrainNewest DEF NewestInv
    <3>2. c \in lost' BY <1>2, <2>5, <3>1 DEF Newest, Reaches, Stored, Carrying
    <3> QED BY <1>2, <2>1, <2>5, <3>2 DEF Settles
  <2> QED BY <2>2, <2>3, <2>4, <2>5
<1> QED BY <1>2, <1>5, <1>6 DEF Shown

\* Only newest tokens join the queue, and the next answer finds the newest one stored.
LEMMA StepTwo ==
  ASSUME Typed, NEW c \in Gated, Newest(c), TwoTokens(c), [Next]_vars
  PROVE  TwoTokens(c)'
<1>0. c \in Conn OBVIOUS
<1>1. CASE queue' = queue /\ row'[c] = row[c] /\ known'[c] = known[c] BY <1>0, <1>1 DEF TwoTokens
<1>2. ASSUME NEW k \in Caller, Replaced(k) PROVE TwoTokens(c)'
  <2>1. CASE caller[k].conn # c
    BY <1>0, <1>1, <1>2, <2>1 DEF Replaced, Typed, TypeOK
  <2>2. CASE caller[k].conn = c
    <3>1. row[c] <= known[c] /\ known[c] <= live[c] /\ caller[k].tok <= row[c] /\ caller[k].tok = live[c]
      BY <1>0, <1>2, <2>2 DEF Newest, Ordered, Replaced
    <3>2. row[c] = known[c] BY <1>0, <3>1, Numbers
    <3> QED BY <1>0, <1>2, <3>2 DEF TwoTokens, Replaced
  <2> QED BY <2>1, <2>2
<1>3. ASSUME NEW k \in Caller, Save(k) PROVE TwoTokens(c)'
  <2>1. CASE queue' = queue BY <1>1, <1>3, <2>1 DEF Save
  <2>2. CASE queue' = Append(queue, [conn |-> caller[k].conn, tok |-> caller[k].new])
    <3>1. /\ DOMAIN queue = 1..Len(queue) /\ Len(queue) \in Nat
          /\ DOMAIN queue' = 1..(Len(queue) + 1)
          /\ \A i \in 1..Len(queue) : queue'[i] = queue[i]
          /\ queue'[Len(queue) + 1] = [conn |-> caller[k].conn, tok |-> caller[k].new]
      BY <2>2 DEF Typed, TypeOK
    <3>2. caller[k].conn = c => caller[k].new = known[c]
      BY <1>0, <1>3 DEF Newest, Carried, Carrying, Save
    <3>3. \A i \in DOMAIN queue' : i \in DOMAIN queue \/ i = Len(queue) + 1 BY <3>1
    <3>4. row' = row /\ known' = known BY <1>3 DEF Save
    <3> QED BY <1>0, <3>1, <3>2, <3>3, <3>4 DEF TwoTokens
  <2> QED BY <1>3, <2>1, <2>2 DEF Save
<1>4. CASE Drain
  <2>1. /\ queue # <<>> /\ queue' = Tail(queue) /\ known' = known
        /\ row' = [row EXCEPT ![Head(queue).conn] = Head(queue).tok]
        /\ queue \in Seq([conn: Conn, tok: Tokens])
    BY <1>4 DEF Drain, Typed, TypeOK
  <2>2. /\ 1 \in DOMAIN queue /\ Head(queue) = queue[1]
        /\ DOMAIN Tail(queue) = 1..(Len(queue) - 1)
        /\ \A i \in 1..(Len(queue) - 1) : Tail(queue)[i] = queue[i + 1]
    BY <2>1, Shifted, Zenon
  <2>3. \A i \in DOMAIN queue' : i + 1 \in DOMAIN queue /\ 1 < i + 1 /\ queue'[i] = queue[i + 1]
    BY <2>1, <2>2, Numbers
  <2>4. row'[c] = IF queue[1].conn = c THEN queue[1].tok ELSE row[c]
    BY <1>0, <2>1, <2>2 DEF Typed, TypeOK
  <2>5. CASE queue[1].conn # c \/ queue[1].tok = row[c]
    BY <1>0, <2>1, <2>3, <2>4, <2>5 DEF TwoTokens
  <2>6. CASE queue[1].conn = c /\ queue[1].tok = known[c]
    <3>1. \A i \in DOMAIN queue' : queue'[i].conn = c => known[c] <= queue'[i].tok /\ queue'[i].tok <= known[c]
      BY <1>0, <2>2, <2>3, <2>6 DEF Newest, Ordered
    <3>2. \A i \in DOMAIN queue' : queue'[i].tok \in Nat BY <2>3, Numbers
    <3> QED BY <1>0, <2>1, <3>1, <3>2, Numbers DEF TwoTokens
  <2> QED BY <1>0, <2>2, <2>5, <2>6 DEF TwoTokens
<1>5. CASE Restart BY <1>5 DEF Restart, TwoTokens
<1>6. ASSUME NEW k \in Caller, (\E d \in Conn : Read(k, d)) \/ Redirect(k) \/ Miss(k) \/ Call(k) \/ Join(k) \/ TakeGate(k) \/ GiveUp(k)
      PROVE  TwoTokens(c)'
  BY <1>1, <1>6 DEF Read, Redirect, Miss, Call, Join, TakeGate, GiveUp
<1>7. ASSUME NEW k \in Caller, Kept(k) \/ AnswerLost(k) \/ Unreachable(k) \/ Rejected(k) \/ Disable(k)
      PROVE  TwoTokens(c)'
  BY <1>1, <1>7 DEF Kept, AnswerLost, Unreachable, Rejected, Disable
<1>8. ASSUME NEW k \in Caller, Compare(k) \/ ReadFails(k) \/ Record(k) PROVE TwoTokens(c)'
  BY <1>1, <1>8 DEF Compare, ReadFails, Record
<1>9. CASE Reopen \/ (\E r \in rotation : Forget(r)) \/ UNCHANGED vars
  BY <1>1, <1>9 DEF Reopen, Forget, vars
<1> QED BY <1>2, <1>3, <1>4, <1>5, <1>6, <1>7, <1>8, <1>9 DEF Next, Step

\* A token is given up by the only caller that carries it, or with the process.
LEMMA StepGone ==
  ASSUME Typed, GateInv, NEW c \in Gated, Newest(c), Gone(c), [Next]_vars
  PROVE  Gone(c)'
<1>0. /\ c \in Conn
      /\ \A k \in Caller : {k} \in SUBSET Caller /\ Sharing(k) \in SUBSET Caller
      /\ \A k \in Caller : caller[k].pc = "calling" => \A j \in Sharing(k) : ~Carrying(j)
  BY DEF Sharing, Carrying
<1>1. CASE UNCHANGED <<known, row, queue, lost>> /\ CarriersStay(c)
  BY <1>1 DEF Gone, CarriersStay
<1>2. ASSUME NEW k \in Caller, Replaced(k) \/ Kept(k) PROVE Gone(c)'
  <2>1. CASE caller[k].conn = c
    <3>1. row[c] <= known[c] /\ known[c] <= live[c] /\ caller[k].tok <= row[c] /\ caller[k].tok = live[c]
      BY <1>2, <2>1 DEF Newest, Ordered, Replaced, Kept
    <3>2. row[c] = known[c] BY <1>0, <3>1, Numbers
    <3> QED BY <1>2, <3>2 DEF Gone, Replaced, Kept
  <2>2. CASE caller[k].conn # c
    <3>1. known'[c] = known[c] /\ UNCHANGED <<row, queue, lost>>
      BY <1>0, <1>2, <2>2 DEF Replaced, Kept, Typed, TypeOK
    <3>2. PICK new : Answer(k, new) BY <1>2 DEF Replaced, Kept
    <3>3. CarriersStay(c)
      <4>0. ASSUME NEW j \in Sharing(k) PROVE caller[j].conn # c /\ caller'[j].conn # c
        <5>1. j \in Caller /\ caller[j].conn = caller[k].conn BY <4>0 DEF Sharing, SameCall
        <5>2. caller'[j].conn = caller[j].conn
          BY <3>2, <4>0, <5>1 DEF Answer, Put, Typed, TypeOK
        <5> QED BY <2>2, <5>1, <5>2
      <4>1. \A j \in Sharing(k) : caller[j].conn # c /\ caller'[j].conn # c BY <4>0
      <4>2. \A j \in Caller \ Sharing(k) : caller'[j] = caller[j] BY <3>2 DEF Answer
      <4> QED BY <4>1, <4>2 DEF CarriersStay, Carrying
    <3> QED BY <3>1, <3>3 DEF Gone, CarriersStay
  <2> QED BY <2>1, <2>2
<1>3. ASSUME NEW k \in Caller, AnswerLost(k) \/ Unreachable(k) \/ Rejected(k) \/ Disable(k) PROVE Gone(c)'
  <2>1. CarriersStay(c)
    BY <1>0, <1>3, ReturnStays, PutStays DEF AnswerLost, Unreachable, Rejected, Disable, Carrying
  <2> QED BY <1>1, <1>3, <2>1 DEF AnswerLost, Unreachable, Rejected, Disable
<1>4. ASSUME NEW k \in Caller, Carrying(k), NEW pc \in PCs, Put({k}, pc), UNCHANGED <<known, row>>,
             \/ UNCHANGED <<queue, lost>>
             \/ lost' = LostBy(k) /\ UNCHANGED queue /\ pc = "recording"
             \/ /\ queue' = Append(queue, [conn |-> caller[k].conn, tok |-> caller[k].new])
                /\ UNCHANGED lost
      PROVE  Gone(c)'
  <2>1. /\ \A j \in Caller \ {k} : caller'[j] = caller[j]
        /\ caller'[k].pc = pc /\ caller'[k].conn = caller[k].conn
    BY <1>4 DEF Put, Typed, TypeOK
  <2>2. CASE caller[k].conn # c
    <3>1. CarriersStay(c) BY <2>1, <2>2 DEF CarriersStay, Carrying
    <3>2. c \in lost' <=> c \in lost BY <1>4, <2>2 DEF LostBy
    <3>3. \A i \in DOMAIN queue' : queue'[i].conn = c => i \in DOMAIN queue /\ queue'[i] = queue[i]
      <4>1. CASE queue' = queue BY <4>1
      <4>2. CASE queue' = Append(queue, [conn |-> caller[k].conn, tok |-> caller[k].new])
        <5>1. /\ DOMAIN queue = 1..Len(queue) /\ Len(queue) \in Nat
              /\ DOMAIN queue' = 1..(Len(queue) + 1)
              /\ \A i \in 1..Len(queue) : queue'[i] = queue[i]
              /\ queue'[Len(queue) + 1].conn = caller[k].conn
          BY <4>2 DEF Typed, TypeOK
        <5> QED BY <2>2, <5>1
      <4> QED BY <1>4, <4>1, <4>2
    <3> QED BY <1>4, <3>1, <3>2, <3>3 DEF Gone, CarriersStay
  <2>3. CASE caller[k].conn = c
    <3>1. c \notin lost BY <1>4, <2>3 DEF Gone
    <3>2. ASSUME c \in lost'
          PROVE  lost' = LostBy(k) /\ queue' = queue /\ pc = "recording" /\ caller[k].new # caller[k].tok
      BY <1>4, <3>1, <3>2 DEF LostBy
    <3>3. /\ caller[k].new = known[c]
          /\ caller[k].new # caller[k].tok => row[c] = caller[k].tok
      BY <1>4, <2>3, Fetched
    <3>4. \A j \in Caller : caller[j].conn = c /\ Carrying(j) => j = k BY <1>4, <2>3, Alone
    <3>5. ASSUME c \in lost' PROVE Gone(c)'
      <4>1. row[c] # known[c] BY <3>2, <3>3, <3>5
      <4>2. ASSUME NEW i \in DOMAIN queue, queue[i].conn = c PROVE queue[i].tok # known[c]
        <5>1. queue[i].tok <= caller[k].tok /\ caller[k].tok # known[c] /\ caller[k].tok <= known[c]
          BY <1>4, <2>3, <3>2, <3>3, <3>5, <4>2 DEF Newest, Carried, Ordered
        <5> QED BY <1>0, <4>2, <5>1, Numbers
      <4>3. \A j \in Caller : caller'[j].conn = c => ~Carrying(j)'
        BY <2>1, <3>2, <3>4, <3>5 DEF Carrying
      <4> QED BY <1>4, <3>2, <3>5, <4>1, <4>2, <4>3 DEF Gone
    <3> QED BY <3>5 DEF Gone
  <2> QED BY <2>2, <2>3
<1>5. ASSUME NEW k \in Caller, Compare(k) \/ ReadFails(k) \/ Save(k) PROVE Gone(c)'
  <2>1. {"saving", "recording"} \subseteq PCs /\ Carrying(k) /\ UNCHANGED <<known, row>>
    BY <1>5 DEF Compare, ReadFails, Save, Carrying, PCs
  <2>2. CASE Compare(k)
    <3>1. PICK pc \in {"saving", "recording"} : Put({k}, pc) BY <2>2 DEF Compare
    <3> QED BY <1>4, <2>1, <2>2, <3>1 DEF Compare
  <2>3. CASE ReadFails(k) BY <1>4, <2>1, <2>3 DEF ReadFails
  <2>4. CASE Save(k) BY <1>4, <2>1, <2>4 DEF Save
  <2> QED BY <1>5, <2>2, <2>3, <2>4
<1>6. ASSUME NEW k \in Caller, Record(k) PROVE Gone(c)'
  <2>1. ~Carrying(k) BY <1>6 DEF Record, Carrying
  <2>2. CarriersStay(c) BY <1>0, <1>6, <2>1, ReturnStays DEF Record
  <2> QED BY <1>1, <1>6, <2>2 DEF Record
<1>7. ASSUME NEW k \in Caller, NEW d \in Conn,
             Read(k, d) \/ Redirect(k) \/ Miss(k) \/ TakeGate(k) \/ GiveUp(k) \/ Call(k) \/ Join(k)
      PROVE  Gone(c)'
  <2>1. UNCHANGED <<known, row, queue, lost>>
    BY <1>7 DEF Read, Redirect, Miss, TakeGate, GiveUp, Call, Join
  <2> QED BY <1>1, <1>7, <2>1, CallStays
<1>8. CASE Drain
  <2>1. /\ queue # <<>> /\ queue' = Tail(queue) /\ UNCHANGED <<known, lost, caller>>
        /\ row' = [row EXCEPT ![Head(queue).conn] = Head(queue).tok]
        /\ queue \in Seq([conn: Conn, tok: Tokens])
    BY <1>8 DEF Drain, Typed, TypeOK
  <2>2. /\ 1 \in DOMAIN queue /\ Head(queue) = queue[1]
        /\ DOMAIN Tail(queue) = 1..(Len(queue) - 1)
        /\ \A i \in 1..(Len(queue) - 1) : Tail(queue)[i] = queue[i + 1]
    BY <2>1, Shifted, Zenon
  <2>3. \A i \in DOMAIN queue' : i + 1 \in DOMAIN queue /\ queue'[i] = queue[i + 1]
    BY <2>1, <2>2, Numbers
  <2>4. row'[c] = IF queue[1].conn = c THEN queue[1].tok ELSE row[c]
    BY <1>0, <2>1, <2>2 DEF Typed, TypeOK
  <2> QED BY <2>1, <2>2, <2>3, <2>4 DEF Gone, Carrying
<1>9. CASE Restart
  <2>1. /\ row' = row /\ known' = known /\ queue' = <<>>
        /\ lost' = lost \cup {d \in Conn : row[d] # known[d]}
        /\ \A k \in Caller : caller'[k].pc = "idle"
    BY <1>9 DEF Restart, Return, Idle
  <2> QED BY <1>0, <2>1 DEF Gone, Carrying
<1>10. CASE Reopen \/ (\E r \in rotation : Forget(r)) \/ UNCHANGED vars
  BY <1>1, <1>10 DEF Reopen, Forget, vars, CarriersStay, Carrying
<1>11. ASSUME NEW k \in Caller, Step(k) \/ TakeGate(k) \/ GiveUp(k) PROVE Gone(c)'
  BY <1>0, <1>2, <1>3, <1>5, <1>6, <1>7, <1>11 DEF Step
<1> QED BY <1>7, <1>8, <1>9, <1>10, <1>11 DEF Next

\* Both parts of the ledger's invariant are kept, account by account.
LEMMA StepLedgerInv == Typed /\ GateInv /\ NewestInv /\ LedgerInv /\ [Next]_vars => LedgerInv'
  BY StepTwo, StepGone DEF LedgerInv, NewestInv

\* Each step of the program is one of the ledger, or does not show in it.
LEMMA StepLedger == Typed /\ NewestInv /\ LedgerInv /\ [Next]_vars => [Ledger!Next]_(Ledger!vars)
<1> SUFFICES ASSUME Typed, NewestInv, LedgerInv, [Next]_vars PROVE [Ledger!Next]_(Ledger!vars)
  OBVIOUS
<1>1. ASSUME \A c \in Gated : Same(c) PROVE [Ledger!Next]_(Ledger!vars)
  <2>1. CASE Conn = {}
    <3>1. Gated = {} BY <2>1
    <3>2. /\ [d \in Gated |-> known'[d]] = [d \in Gated |-> known[d]]
          /\ [d \in Gated |-> row'[d]] = [d \in Gated |-> row[d]]
          /\ {d \in Gated : ~Stored(d)'} = {d \in Gated : ~Stored(d)}
          /\ lost' \cap Gated = lost \cap Gated
      BY <3>1
    <3> QED BY <3>2 DEF Ledger!vars
  <2>2. CASE Conn # {}
    <3>1. PICK c \in Conn : TRUE BY <2>2
    <3> QED BY <1>1, <3>1, Shows DEF Shown
  <2> QED BY <2>1, <2>2
<1>2. ASSUME NEW k \in Caller, NEW c \in Conn, Read(k, c) PROVE [Ledger!Next]_(Ledger!vars)
  BY <1>1, <1>2, CallShows
<1>3. ASSUME NEW k \in Caller, Step(k) \/ TakeGate(k) \/ GiveUp(k) PROVE [Ledger!Next]_(Ledger!vars)
  <2>1. PICK c \in Conn : caller[k].conn = c
    BY <1>3 DEF Typed, Connected, Step, TakeGate, GiveUp, Redirect, Miss, Call, Join, Replaced, Kept,
                AnswerLost, Unreachable, Rejected, Disable, Compare, ReadFails, Save, Record
  <2>2. CASE Redirect(k) \/ Miss(k) \/ Call(k) \/ Join(k) \/ TakeGate(k) \/ GiveUp(k)
    BY <1>1, <2>1, <2>2, CallShows
  <2>3. CASE ~(Redirect(k) \/ Miss(k) \/ Call(k) \/ Join(k) \/ TakeGate(k) \/ GiveUp(k))
    <3>1. Shown(c) BY <1>3, <2>1, <2>3, AnswerShows, StoreShows DEF Step
    <3> QED BY <3>1, Shows
  <2> QED BY <2>2, <2>3
<1>4. CASE Drain
  <2>1. PICK c \in Conn : Shown(c) BY <1>4, DrainShows
  <2> QED BY <2>1, Shows
<1>5. CASE Reopen \/ (\E r \in rotation : Forget(r)) \/ UNCHANGED vars
  <2>1. UNCHANGED <<known, row, queue, lost, caller>> BY <1>5 DEF Reopen, Forget, vars
  <2> QED BY <1>1, <2>1, QuietShows DEF CarriersStay, Carrying
<1>6. CASE Restart
  <2>1. UNCHANGED <<known, row>> /\ lost' = lost \cup {c \in Conn : row[c] # known[c]} BY <1>6 DEF Restart
  <2>2. \A c \in Gated : Stored(c)' BY <1>6 DEF Restart, Return, Idle, Stored
  <2>3. /\ lost' \cap Gated = (lost \cap Gated) \cup {c \in Gated : row[c] # known[c]}
        /\ {c \in Gated : ~Stored(c)'} = {}
    BY <2>1, <2>2
  <2>4. Ledger!Crash BY <2>1, <2>3 DEF Ledger!Crash
  <2> QED BY <2>4 DEF Ledger!Next
<1> QED BY <1>2, <1>3, <1>4, <1>5, <1>6 DEF Next

\* For any number of callers and accounts, what becomes of the tokens of a rotation
\* group is what TokenLedger promises.
THEOREM LedgerIsKept == Spec => KeepsLedger
<1>1. Init => NewestInv /\ LedgerInv BY InitNewest DEF NewestInv, LedgerInv, TwoTokens, Gone, Init
<1>2. Init => Ledger!Init
  <2> SUFFICES ASSUME Init PROVE Ledger!Init OBVIOUS
  <2>1. \A c \in Gated : Stored(c)
    <3>1. \A c \in Gated, k \in Caller : caller[k].conn # c BY DEF Init, Idle
    <3>2. DOMAIN queue = {} BY DEF Init
    <3> QED BY <3>1, <3>2 DEF Stored
  <2>2. {c \in Gated : ~Stored(c)} = {} BY <2>1
  <2> QED BY <2>2 DEF Init, Ledger!Init
<1> QED BY Gate, <1>1, <1>2, StepNewest, StepLedgerInv, StepLedger, PTL DEF Spec, KeepsLedger, Ledger!Spec
=============================================================================
