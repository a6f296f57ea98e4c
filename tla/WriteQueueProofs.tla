-------------------------- MODULE WriteQueueProofs --------------------------
(***************************************************************************)
(* Theorems about WriteQueue, for any writes and ways of handing them in,  *)
(* any capacity and any number of restores.                                *)
(***************************************************************************)
EXTENDS WriteQueue, TLAPS

\* The state of the worker says whether it holds a write.
WorkerInv ==
  /\ worker.pc \in {"gate", "asleep", "running", "draining"} => worker.op \in Write
  /\ worker.pc \in {"select", "drain"} => worker.op = NoWrite
  /\ worker.pc \in {"drain", "draining", "done"} => Stopped

Facts == TypeOK /\ WorkerInv

-----------------------------------------------------------------------------
\* What the worker and the callers may do with the channel.
LEMMA ChannelOK ==
  ASSUME Facts
  PROVE  /\ ch # <<>> => Head(ch) \in Write /\ Tail(ch) \in Seq(Write) /\ Len(Tail(ch)) <= Cap
         /\ \A w \in Write : Append(ch, w) \in Seq(Write)
         /\ \A w \in Write : Len(ch) < Cap => Len(Append(ch, w)) <= Cap
         /\ Elements(ch) \subseteq Write
<1>1. Cap \in Nat \ {0}
  BY WriteQueueAssumption
<1>2. ch \in Seq(Write) /\ Len(ch) \in Nat /\ Len(ch) <= Cap
  BY DEF Facts, TypeOK
<1>3. ch # <<>> => Head(ch) \in Write /\ Tail(ch) \in Seq(Write) /\ Len(Tail(ch)) = Len(ch) - 1
  BY <1>2
<1>4. \A w \in Write : Append(ch, w) \in Seq(Write) /\ Len(Append(ch, w)) = Len(ch) + 1
  BY <1>2
<1>5. Elements(ch) \subseteq Write
  BY <1>2 DEF Elements
<1>. QED
  BY <1>1, <1>2, <1>3, <1>4, <1>5

LEMMA InitFacts == Init => Facts
<1>1. Cap \in Nat \ {0}
  BY WriteQueueAssumption
<1>2. <<>> \in Seq(Write) /\ Len(<<>>) = 0
  OBVIOUS
<1>. SUFFICES ASSUME Init
              PROVE  Facts
  OBVIOUS
<1>3. ch \in Seq(Write) /\ Len(ch) <= Cap /\ ran \in Seq(Write)
  BY <1>1, <1>2 DEF Init
<1>4. worker = [pc |-> "select", op |-> NoWrite]
  BY DEF Init
<1>5. worker \in [pc: WorkerPCs, op: Write \cup {NoWrite}] /\ WorkerInv
  BY <1>4 DEF WorkerPCs, WorkerInv
<1>6. TypeOK
  BY <1>3, <1>5 DEF Init, TypeOK
<1>. QED
  BY <1>5, <1>6 DEF Facts

LEMMA StepFacts == Facts /\ [Next]_vars => Facts'
<1>. SUFFICES ASSUME Facts, [Next]_vars
              PROVE  Facts'
  OBVIOUS
<1>. USE DEF Facts, TypeOK, WorkerInv, WorkerPCs, Stopped
<1>1. ASSUME NEW w \in Write, Submit(w) \/ GiveUp(w)
      PROVE  Facts'
  <2>1. CASE Pass(w)
    BY <2>1 DEF Pass
  <2>2. CASE Send(w)
    BY <2>2, ChannelOK DEF Send
  <2>3. CASE Drop(w)
    BY <2>3 DEF Drop
  <2>4. CASE Answer(w)
    BY <2>4 DEF Answer
  <2>5. CASE GiveUp(w)
    BY <2>5 DEF GiveUp
  <2>. QED
    BY <1>1, <2>1, <2>2, <2>3, <2>4, <2>5 DEF Submit
<1>2. CASE Receive
  BY <1>2, ChannelOK DEF Receive
<1>3. CASE Gate
  BY <1>3 DEF Gate
<1>4. CASE Execute
  <2>1. worker.op \in Write
    BY <1>4 DEF Execute
  <2>2. Append(ran, worker.op) \in Seq(Write)
    BY <2>1
  <2>. QED
    BY <1>4, <2>1, <2>2 DEF Execute
<1>5. CASE StopSeen
  BY <1>5 DEF StopSeen
<1>6. CASE Drain
  <2>1. CASE ch = <<>>
    BY <1>6, <2>1 DEF Drain
  <2>2. CASE ch # <<>>
    <3>1. worker' = [pc |-> "draining", op |-> Head(ch)] /\ ch' = Tail(ch) /\ Stopped
      BY <1>6, <2>2 DEF Drain
    <3>. QED
      BY <1>6, <2>2, <3>1, ChannelOK DEF Drain
  <2>. QED
    BY <2>1, <2>2
<1>7. ASSUME NEW r \in Restorer, Pause(r) \/ Resume(r)
      PROVE  Facts'
  <2>1. CASE Pause(r)
    BY <2>1 DEF Pause
  <2>2. CASE Resume(r)
    BY <2>2 DEF Resume, Broadcast
  <2>. QED
    BY <1>7, <2>1, <2>2
<1>8. CASE StopOpensGate
  BY <1>8 DEF StopOpensGate, Broadcast
<1>9. CASE StopCloses
  BY <1>9, ChannelOK DEF StopCloses
<1>10. CASE UNCHANGED vars
  BY <1>10 DEF vars
<1>. QED
  BY <1>1, <1>2, <1>3, <1>4, <1>5, <1>6, <1>7, <1>8, <1>9, <1>10 DEF Next, Work

\* The queue is type correct, and its worker holds a write just when its place
\* in the loop says so.
THEOREM TypeCorrect == Spec => []Facts
  BY InitFacts, StepFacts, PTL DEF Spec

-----------------------------------------------------------------------------
(* Pause: only the write that was past the gate may still be executed.     *)

PauseInv ==
  paused /\ ~Stopped => since + (IF worker.pc = "running" THEN 1 ELSE 0) <= 1

LEMMA StepPause == Facts /\ PauseInv /\ [Next]_vars => PauseInv'
<1>. SUFFICES ASSUME Facts, PauseInv, [Next]_vars
              PROVE  PauseInv'
  OBVIOUS
<1>. USE DEF PauseInv, Facts, TypeOK, WorkerInv, Stopped
<1>1. ASSUME NEW w \in Write, Submit(w) \/ GiveUp(w)
      PROVE  PauseInv'
  BY <1>1 DEF Submit, Pass, Send, Drop, Answer, GiveUp
<1>2. CASE Receive
  BY <1>2 DEF Receive
<1>3. CASE Gate
  BY <1>3 DEF Gate
<1>4. CASE Execute
  BY <1>4 DEF Execute
<1>5. CASE StopSeen \/ Drain
  BY <1>5 DEF StopSeen, Drain
<1>6. ASSUME NEW r \in Restorer, Pause(r) \/ Resume(r)
      PROVE  PauseInv'
  BY <1>6 DEF Pause, Resume, Broadcast
<1>7. CASE StopOpensGate \/ StopCloses
  BY <1>7 DEF StopOpensGate, StopCloses, Broadcast
<1>8. CASE UNCHANGED vars
  BY <1>8 DEF vars
<1>. QED
  BY <1>1, <1>2, <1>3, <1>4, <1>5, <1>6, <1>7, <1>8 DEF Next, Work

\* However many writes are buffered, Pause lets at most one through before the
\* queue is resumed or stopped.
THEOREM PauseIsBounded == Spec => []PauseBounds
<1>1. Init => PauseInv
  BY DEF Init, PauseInv
<1>2. Facts /\ PauseInv => PauseBounds
  BY DEF Facts, TypeOK, PauseInv, PauseBounds
<1>. QED
  BY <1>1, <1>2, TypeCorrect, StepPause, PTL DEF Spec

-----------------------------------------------------------------------------
(* Stop: what was accepted before is in the buffer, in hand, or executed.  *)

StopInv ==
  /\ ~Stopped => owed = {}
  /\ worker.pc # "done" => owed \subseteq Elements(ch) \cup {worker.op}
  /\ worker.pc = "done" /\ worker.op = NoWrite => owed = {}

LEMMA TakeHead ==
  ASSUME NEW s \in Seq(Write), s # <<>>
  PROVE  Elements(s) = {Head(s)} \cup Elements(Tail(s))
<1>1. /\ Len(s) \in Nat \ {0}
      /\ DOMAIN s = 1..Len(s)
      /\ DOMAIN Tail(s) = 1..(Len(s) - 1)
      /\ \A i \in 1..(Len(s) - 1) : Tail(s)[i] = s[i + 1]
      /\ Head(s) = s[1]
  OBVIOUS
<1>2. ASSUME NEW x \in Elements(s)
      PROVE  x \in {Head(s)} \cup Elements(Tail(s))
  <2>1. PICK j \in 1..Len(s) : x = s[j]
    BY <1>1, <1>2 DEF Elements
  <2>2. CASE j = 1
    BY <1>1, <2>1, <2>2
  <2>3. CASE j # 1
    <3>1. j - 1 \in 1..(Len(s) - 1) /\ Tail(s)[j - 1] = x
      BY <1>1, <2>1, <2>3
    <3>. QED
      BY <1>1, <3>1 DEF Elements
  <2>. QED
    BY <2>2, <2>3
<1>3. Head(s) \in Elements(s)
  BY <1>1 DEF Elements
<1>4. ASSUME NEW x \in Elements(Tail(s))
      PROVE  x \in Elements(s)
  <2>1. PICK i \in 1..(Len(s) - 1) : x = Tail(s)[i]
    BY <1>1, <1>4 DEF Elements
  <2>2. i + 1 \in 1..Len(s) /\ x = s[i + 1]
    BY <1>1, <2>1
  <2>. QED
    BY <1>1, <2>2 DEF Elements
<1>. QED
  BY <1>2, <1>3, <1>4

LEMMA AppendElements ==
  ASSUME NEW s \in Seq(Write), NEW w \in Write
  PROVE  Elements(Append(s, w)) = Elements(s) \cup {w}
<1>1. /\ Len(s) \in Nat
      /\ DOMAIN s = 1..Len(s)
      /\ DOMAIN Append(s, w) = 1..(Len(s) + 1)
      /\ \A i \in 1..Len(s) : Append(s, w)[i] = s[i]
      /\ Append(s, w)[Len(s) + 1] = w
  OBVIOUS
<1>2. 1..(Len(s) + 1) = 1..Len(s) \cup {Len(s) + 1}
  BY <1>1
<1>3. Elements(Append(s, w)) = {Append(s, w)[i] : i \in 1..Len(s)} \cup {Append(s, w)[Len(s) + 1]}
  BY <1>1, <1>2 DEF Elements
<1>4. {Append(s, w)[i] : i \in 1..Len(s)} = Elements(s)
  BY <1>1 DEF Elements
<1>. QED
  BY <1>1, <1>3, <1>4

LEMMA StepStop == Facts /\ StopInv /\ [Next]_vars => StopInv'
<1>. SUFFICES ASSUME Facts, StopInv, [Next]_vars
              PROVE  StopInv'
  OBVIOUS
<1>a. /\ ch \in Seq(Write) /\ owed \subseteq Write /\ NoWrite \notin Write
      /\ ch # <<>> => Elements(ch) = {Head(ch)} \cup Elements(Tail(ch))
      /\ \A w \in Write : Elements(Append(ch, w)) = Elements(ch) \cup {w}
  BY TakeHead, AppendElements, WriteQueueAssumption DEF Facts, TypeOK
<1>. USE <1>a DEF StopInv, Facts, TypeOK, WorkerInv, WorkerPCs, Stopped
<1>1. ASSUME NEW w \in Write, Submit(w) \/ GiveUp(w)
      PROVE  StopInv'
  <2>1. CASE Send(w)
    BY <2>1 DEF Send
  <2>2. CASE Pass(w) \/ Drop(w) \/ Answer(w) \/ GiveUp(w)
    BY <2>2 DEF Pass, Drop, Answer, GiveUp, Elements
  <2>. QED
    BY <1>1, <2>1, <2>2 DEF Submit
<1>2. CASE Receive
  BY <1>2 DEF Receive
<1>3. CASE Gate
  BY <1>3 DEF Gate, Elements
<1>4. CASE Execute
  BY <1>4 DEF Execute, Elements
<1>5. CASE StopSeen
  BY <1>5 DEF StopSeen, Elements
<1>6. CASE Drain
  <2>1. CASE ch = <<>>
    <3>1. Elements(ch) = {}
      BY <2>1 DEF Elements
    <3>. QED
      BY <1>6, <2>1, <3>1 DEF Drain
  <2>2. CASE ch # <<>>
    <3>1. worker' = [pc |-> "draining", op |-> Head(ch)] /\ ch' = Tail(ch) /\ owed' = owed /\ stopper' = stopper
      BY <1>6, <2>2 DEF Drain
    <3>2. worker.pc = "drain" /\ worker.op = NoWrite /\ Stopped
      BY <1>6 DEF Drain
    <3>3. Elements(ch)' = Elements(Tail(ch))
      BY <3>1 DEF Elements
    <3>4. owed \subseteq {Head(ch)} \cup Elements(Tail(ch))
      BY <2>2, <3>2
    <3>. QED
      BY <3>1, <3>2, <3>3, <3>4
  <2>. QED
    BY <2>1, <2>2
<1>7. ASSUME NEW r \in Restorer, Pause(r) \/ Resume(r)
      PROVE  StopInv'
  BY <1>7 DEF Pause, Resume, Broadcast, Elements
<1>8. CASE StopOpensGate
  BY <1>8 DEF StopOpensGate, Broadcast, Elements
<1>9. CASE StopCloses
  BY <1>9 DEF StopCloses, Elements
<1>10. CASE UNCHANGED vars
  BY <1>10 DEF vars, Elements
<1>. QED
  BY <1>1, <1>2, <1>3, <1>4, <1>5, <1>6, <1>7, <1>8, <1>9, <1>10 DEF Next, Work

\* When the worker has left, nothing that was accepted before Stop is left,
\* unless a restore has paused the queue again and the worker left with a write
\* in hand.
THEOREM StopHasFlushed == Spec => []StopFlushes
<1>1. Init => StopInv
  BY DEF Init, StopInv
<1>2. StopInv => StopFlushes
  BY DEF StopInv, StopFlushes
<1>. QED
  BY <1>1, <1>2, TypeCorrect, StepStop, PTL DEF Spec

-----------------------------------------------------------------------------
(* The refinement of WriteFifo.  A write that is queued or executed is one *)
(* its caller has handed in, so what is sent or dropped is new.            *)

Taken(w) == caller[w] \in {"accepted", "cancelled", "answered"}

AcceptInv ==
  /\ \A w \in Elements(ch) \cup Elements(ran) : Taken(w)
  /\ worker.op # NoWrite => Taken(worker.op)

LEMMA StepAccept == Facts /\ AcceptInv /\ [Next]_vars => AcceptInv'
<1>. SUFFICES ASSUME Facts, AcceptInv, [Next]_vars
              PROVE  AcceptInv'
  OBVIOUS
<1>a. /\ ch \in Seq(Write) /\ ran \in Seq(Write) /\ NoWrite \notin Write
      /\ Elements(ch) \subseteq Write /\ Elements(ran) \subseteq Write
      /\ worker.op \in Write \cup {NoWrite}
      /\ caller \in [Write -> {"new", "passed", "accepted", "dropped", "gaveUp", "cancelled", "answered"}]
  BY WriteQueueAssumption DEF Facts, TypeOK, Elements
<1>b. /\ ch # <<>> => Elements(ch) = {Head(ch)} \cup Elements(Tail(ch))
      /\ \A w \in Write : Elements(Append(ch, w)) = Elements(ch) \cup {w}
      /\ \A w \in Write : Elements(Append(ran, w)) = Elements(ran) \cup {w}
  BY <1>a, TakeHead, AppendElements
<1>c. ASSUME ch' = ch, ran' = ran
      PROVE  Elements(ch)' = Elements(ch) /\ Elements(ran)' = Elements(ran)
  BY <1>c DEF Elements
<1>1. ASSUME NEW w \in Write, Submit(w) \/ GiveUp(w)
      PROVE  AcceptInv'
  <2>1. CASE Send(w)
    <3>1. Elements(ch)' = Elements(ch) \cup {w} /\ Elements(ran)' = Elements(ran)
      BY <1>b, <2>1 DEF Send, Elements
    <3>2. worker' = worker /\ caller' = [caller EXCEPT ![w] = "accepted"]
      BY <2>1 DEF Send
    <3>. QED
      BY <1>a, <3>1, <3>2 DEF AcceptInv, Taken
  <2>2. CASE Pass(w) \/ Drop(w) \/ Answer(w) \/ GiveUp(w)
    <3>1. ch' = ch /\ ran' = ran /\ worker' = worker
      BY <2>2 DEF Pass, Drop, Answer, GiveUp
    <3>2. PICK s \in {"passed", "dropped", "gaveUp", "cancelled", "answered"} :
             /\ caller' = [caller EXCEPT ![w] = s]
             /\ Taken(w) => s \in {"cancelled", "answered"}
      BY <2>2 DEF Pass, Drop, Answer, GiveUp, AtChannel, Taken
    <3>. QED
      BY <1>a, <1>c, <3>1, <3>2 DEF AcceptInv, Taken
  <2>. QED
    BY <1>1, <2>1, <2>2 DEF Submit
<1>2. ASSUME ch # <<>>, ch' = Tail(ch), worker'.op = Head(ch), ran' = ran, caller' = caller
      PROVE  AcceptInv'
  <2>1. Elements(ch)' = Elements(Tail(ch)) /\ Elements(ran)' = Elements(ran)
    BY <1>2 DEF Elements
  <2>. QED
    BY <1>2, <1>b, <2>1 DEF AcceptInv, Taken
<1>3. ASSUME ch' = ch, ran' = ran, caller' = caller, worker'.op = worker.op
      PROVE  AcceptInv'
  BY <1>3, <1>c DEF AcceptInv, Taken
<1>4. CASE Execute
  <2>1. worker.op \in Write
    BY <1>4 DEF Execute, Facts, WorkerInv
  <2>2. Elements(ran)' = Elements(ran) \cup {worker.op} /\ Elements(ch)' = Elements(ch)
    BY <1>4, <1>b, <2>1 DEF Execute, Elements
  <2>3. caller' = caller /\ worker'.op = NoWrite
    BY <1>4 DEF Execute
  <2>. QED
    BY <1>a, <2>1, <2>2, <2>3 DEF AcceptInv, Taken
<1>5. CASE Receive
  BY <1>5, <1>2 DEF Receive
<1>6. CASE Drain
  <2>1. CASE ch = <<>>
    BY <1>3, <1>6, <2>1 DEF Drain, Facts, TypeOK
  <2>2. CASE ch # <<>>
    BY <1>2, <1>6, <2>2 DEF Drain
  <2>. QED
    BY <2>1, <2>2
<1>7. CASE Gate \/ StopSeen
  BY <1>3, <1>7 DEF Gate, StopSeen, Facts, TypeOK
<1>8. ASSUME NEW r \in Restorer, Pause(r) \/ Resume(r)
      PROVE  AcceptInv'
  BY <1>3, <1>8 DEF Pause, Resume, Broadcast, Facts, TypeOK
<1>9. CASE StopOpensGate \/ StopCloses
  BY <1>3, <1>9 DEF StopOpensGate, StopCloses, Broadcast, Facts, TypeOK
<1>10. CASE UNCHANGED vars
  BY <1>3, <1>10 DEF vars
<1>. QED
  BY <1>1, <1>4, <1>5, <1>6, <1>7, <1>8, <1>9, <1>10 DEF Next, Work

\* The abstract queue: its elements, and how the steps of the channel show in it.
LEMMA Queued ==
  ASSUME Facts
  PROVE  /\ Held \o ch \in Seq(Write)
         /\ Len(Held \o ch) = Len(ch) + (IF worker.op = NoWrite THEN 0 ELSE 1)
         /\ Fifo!Elements(Held \o ch) \subseteq Elements(ch) \cup ({worker.op} \ {NoWrite})
         /\ \A w \in Write : Held \o Append(ch, w) = Append(Held \o ch, w)
         /\ worker.op = NoWrite => Held \o ch = ch
         /\ worker.op # NoWrite => Held \o ch # <<>> /\ Head(Held \o ch) = worker.op /\ Tail(Held \o ch) = ch
<1>1. ch \in Seq(Write) /\ worker.op \in Write \cup {NoWrite}
  BY DEF Facts, TypeOK
<1>2. CASE worker.op = NoWrite
  <2>1. Held = <<>>
    BY <1>2 DEF Held
  <2>2. <<>> \o ch = ch
    BY <1>1
  <2>. QED
    BY <1>1, <1>2, <2>1, <2>2 DEF Fifo!Elements, Elements
<1>3. CASE worker.op # NoWrite
  <2>1. Held = <<worker.op>> /\ worker.op \in Write /\ Held \in Seq(Write)
    BY <1>1, <1>3 DEF Held
  <2>2. /\ Held \o ch \in Seq(Write)
        /\ Len(Held \o ch) = Len(ch) + 1
        /\ (Held \o ch)[1] = worker.op
        /\ \A i \in 1..Len(ch) : (Held \o ch)[i + 1] = ch[i]
    BY <1>1, <2>1
  <2>3. ASSUME NEW j \in DOMAIN (Held \o ch)
        PROVE  (Held \o ch)[j] \in Elements(ch) \cup {worker.op}
    <3>1. j = 1 \/ (j - 1 \in 1..Len(ch) /\ (Held \o ch)[j] = ch[j - 1])
      BY <1>1, <2>2
    <3>. QED
      BY <1>1, <2>2, <3>1 DEF Elements
  <2>4. \A w \in Write : Held \o Append(ch, w) = Append(Held \o ch, w)
    BY <1>1, <2>1
  <2>5. Held \o ch # <<>> /\ Head(Held \o ch) = worker.op /\ Tail(Held \o ch) = ch
    BY <1>1, <2>1
  <2>. QED
    BY <1>1, <1>3, <2>2, <2>3, <2>4, <2>5 DEF Fifo!Elements
<1>. QED
  BY <1>1, <1>2, <1>3

LEMMA HandedInOnce ==
  ASSUME Facts, AcceptInv, NEW w \in Write, AtChannel(w)
  PROVE  Fifo!Fresh(w)
<1>1. ~Taken(w) /\ caller[w] # "dropped"
  BY DEF AtChannel, Taken
<1>2. w \notin Elements(ch) /\ w \notin Elements(ran) /\ w # worker.op
  BY <1>1, WriteQueueAssumption DEF AcceptInv
<1>3. w \notin Fifo!Elements(Held \o ch)
  BY <1>2, Queued
<1>4. Fifo!Elements(ran) = Elements(ran)
  BY DEF Fifo!Elements, Elements
<1>. QED
  BY <1>1, <1>2, <1>3, <1>4 DEF Fifo!Fresh

LEMMA StepFifo == Facts /\ Facts' /\ AcceptInv /\ [Next]_vars => [Fifo!Next]_(Fifo!vars)
<1>. SUFFICES ASSUME Facts, Facts', AcceptInv, [Next]_vars
              PROVE  Fifo!Next \/ UNCHANGED Fifo!vars
  OBVIOUS
<1>. DEFINE refused == {w \in Write : caller[w] = "dropped"}
<1>a. /\ ch \in Seq(Write) /\ Cap \in Nat /\ NoWrite \notin Write /\ Len(ch) \in Nat
      /\ caller \in [Write -> {"new", "passed", "accepted", "dropped", "gaveUp", "cancelled", "answered"}]
  BY WriteQueueAssumption DEF Facts, TypeOK
<1>b. ASSUME (Held \o ch)' = Held \o ch, ran' = ran, refused' = refused
      PROVE  UNCHANGED Fifo!vars
  BY <1>b DEF Fifo!vars
<1>c. ASSUME ch' = ch, worker'.op = worker.op, ran' = ran, caller' = caller
      PROVE  UNCHANGED Fifo!vars
  BY <1>b, <1>c DEF Held
<1>1. ASSUME NEW w \in Write, Submit(w) \/ GiveUp(w)
      PROVE  Fifo!Next \/ UNCHANGED Fifo!vars
  <2>1. CASE Send(w)
    <3>1. (Held \o ch)' = Append(Held \o ch, w)
      BY <2>1, Queued DEF Send, Held
    <3>2. Len(Held \o ch) <= Cap
      BY <1>a, <2>1, Queued DEF Send
    <3>3. refused' = refused
      BY <1>a, <2>1 DEF Send, AtChannel
    <3>4. Fifo!Accept(w)
      BY <2>1, <3>1, <3>2, <3>3, HandedInOnce DEF Send, Fifo!Accept
    <3>. QED
      BY <3>4 DEF Fifo!Next
  <2>2. CASE Drop(w)
    <3>1. (Held \o ch)' = Held \o ch /\ ran' = ran
      BY <2>2 DEF Drop, Held
    <3>2. Len(Held \o ch) >= Cap
      BY <1>a, <2>2, Queued DEF Drop
    <3>3. refused' = refused \cup {w}
      BY <1>a, <2>2 DEF Drop
    <3>4. Fifo!Refuse(w)
      BY <2>2, <3>1, <3>2, <3>3, HandedInOnce DEF Drop, Fifo!Refuse
    <3>. QED
      BY <3>4 DEF Fifo!Next
  <2>3. CASE Pass(w) \/ Answer(w) \/ GiveUp(w)
    <3>1. (Held \o ch)' = Held \o ch /\ ran' = ran
      BY <2>3 DEF Pass, Answer, GiveUp, Held
    <3>2. PICK s \in {"passed", "gaveUp", "cancelled", "answered"} :
             caller' = [caller EXCEPT ![w] = s] /\ caller[w] # "dropped"
      BY <2>3 DEF Pass, Answer, GiveUp, AtChannel
    <3>3. refused' = refused
      BY <1>a, <3>2
    <3>. QED
      BY <1>b, <3>1, <3>3
  <2>. QED
    BY <1>1, <2>1, <2>2, <2>3 DEF Submit
<1>2. ASSUME worker.op = NoWrite, ch # <<>>, worker'.op = Head(ch), ch' = Tail(ch), ran' = ran, caller' = caller
      PROVE  UNCHANGED Fifo!vars
  <2>1. Head(ch) \in Write /\ Held' = <<Head(ch)>> /\ Held \o ch = ch
    BY <1>a, <1>2, Queued, ChannelOK DEF Held
  <2>2. <<Head(ch)>> \o Tail(ch) = ch
    BY <1>a, <1>2
  <2>. QED
    BY <1>b, <1>2, <2>1, <2>2
<1>3. CASE Receive
  BY <1>2, <1>3 DEF Receive, Facts, WorkerInv
<1>4. CASE Drain
  <2>1. CASE ch = <<>>
    BY <1>c, <1>4, <2>1 DEF Drain, Facts, TypeOK
  <2>2. CASE ch # <<>>
    BY <1>2, <1>4, <2>2 DEF Drain, Facts, WorkerInv
  <2>. QED
    BY <2>1, <2>2
<1>5. CASE Execute
  <2>1. worker.op \in Write /\ worker.op # NoWrite
    BY <1>a, <1>5 DEF Execute, Facts, WorkerInv
  <2>2. Held' = <<>> /\ ch' = ch
    BY <1>5 DEF Execute, Held
  <2>3. (Held \o ch)' = Tail(Held \o ch)
    BY <1>a, <2>1, <2>2, Queued
  <2>4. ran' = Append(ran, Head(Held \o ch)) /\ refused' = refused /\ Held \o ch # <<>>
    BY <1>5, <2>1, Queued DEF Execute
  <2>5. Fifo!Apply
    BY <2>3, <2>4 DEF Fifo!Apply
  <2>. QED
    BY <2>5 DEF Fifo!Next
<1>6. CASE Gate \/ StopSeen
  BY <1>c, <1>6 DEF Gate, StopSeen, Facts, TypeOK
<1>7. ASSUME NEW r \in Restorer, Pause(r) \/ Resume(r)
      PROVE  UNCHANGED Fifo!vars
  BY <1>c, <1>7 DEF Pause, Resume, Broadcast, Facts, TypeOK
<1>8. CASE StopOpensGate \/ StopCloses
  BY <1>c, <1>8 DEF StopOpensGate, StopCloses, Broadcast, Facts, TypeOK
<1>9. CASE UNCHANGED vars
  BY <1>c, <1>9 DEF vars
<1>. QED
  BY <1>1, <1>3, <1>4, <1>5, <1>6, <1>7, <1>8, <1>9 DEF Next, Work

\* The queue implements WriteFifo: every write handed in is applied at most once
\* and in the order of acceptance, whatever is paused, resumed, given up or
\* stopped, and only a caller of Enqueue finds its write refused, when the
\* buffer is full.
THEOREM Refinement == Spec => KeepsOrder
<1>1. Init => AcceptInv
  BY DEF Init, AcceptInv, Elements
<1>2. Init => Fifo!Init
  <2>. SUFFICES ASSUME Init
                PROVE  Fifo!Init
    OBVIOUS
  <2>1. Held \o ch = <<>>
    BY DEF Init, Held
  <2>2. {w \in Write : caller[w] = "dropped"} = {}
    BY DEF Init
  <2>. QED
    BY <2>1, <2>2 DEF Init, Fifo!Init
<1>. QED
  BY <1>1, <1>2, TypeCorrect, StepAccept, StepFifo, PTL DEF Spec, KeepsOrder, Fifo!Spec
=============================================================================
