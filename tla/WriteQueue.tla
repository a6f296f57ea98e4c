----------------------------- MODULE WriteQueue -----------------------------
(***************************************************************************)
(* The queue through which all writes of the request path reach SQLite: a  *)
(* buffered channel, the goroutine that drains it, the gate that a restore *)
(* closes, and the three ways of handing a write in - Enqueue (drops when  *)
(* the buffer is full), EnqueueOrBlock (waits) and Do (waits for the       *)
(* result).                                                                *)
(*                                                                         *)
(* The gate is a flag under a mutex with a condition variable.  Passing it *)
(* and what follows - sending, or executing - are separate steps, so Pause *)
(* does not stop whoever has passed.                                       *)
(***************************************************************************)
EXTENDS Naturals, Sequences

CONSTANTS Write,     \* the writes handed to the queue, each once
          NoWrite,   \* no write
          Mode,      \* write -> how it is handed in
          Cap,       \* capacity of the channel
          Restorer,  \* restores that may run at once
          Stops      \* does somebody call Stop?

ASSUME WriteQueueAssumption ==
  /\ NoWrite \notin Write
  /\ Mode \in [Write -> {"drop", "block", "do"}]
  /\ Cap \in Nat \ {0}
  /\ Stops \in BOOLEAN

VARIABLES
  ch,       \* WriteQueue.ch
  paused,   \* WriteQueue.paused
  stopper,  \* Stop: not called, gate opened, stop channel closed
  worker,   \* the draining goroutine
  caller,   \* what has become of the call for each write
  restore,  \* what each restore is doing
  ran,      \* writes executed, in order (history)
  since,    \* number of writes executed since the last Pause (history)
  owed      \* writes accepted and not executed when stop was closed (history)

vars == <<ch, paused, stopper, worker, caller, restore, ran, since, owed>>

Stopped == stopper = "closed"

Elements(s) == {s[i] : i \in DOMAIN s}

-----------------------------------------------------------------------------
(* Callers. *)

\* Enqueue and EnqueueOrBlock wait while the queue is paused; Do does not.
Pass(w) ==
  /\ caller[w] = "new"
  /\ Mode[w] # "do"
  /\ ~paused
  /\ caller' = [caller EXCEPT ![w] = "passed"]
  /\ UNCHANGED <<ch, paused, stopper, worker, restore, ran, since, owed>>

AtChannel(w) == caller[w] = IF Mode[w] = "do" THEN "new" ELSE "passed"

\* Fault: the buffer grows.
SendUnbounded(w) ==
  /\ AtChannel(w)
  /\ ch' = Append(ch, w)
  /\ caller' = [caller EXCEPT ![w] = "accepted"]
  /\ UNCHANGED <<paused, stopper, worker, restore, ran, since, owed>>

Send(w) ==
  /\ AtChannel(w)
  /\ Len(ch) < Cap
  /\ ch' = Append(ch, w)
  /\ caller' = [caller EXCEPT ![w] = "accepted"]
  /\ UNCHANGED <<paused, stopper, worker, restore, ran, since, owed>>

Drop(w) ==
  /\ AtChannel(w)
  /\ Mode[w] = "drop"
  /\ Len(ch) = Cap
  /\ caller' = [caller EXCEPT ![w] = "dropped"]
  /\ UNCHANGED <<ch, paused, stopper, worker, restore, ran, since, owed>>

\* The caller's context ends while it waits: for a place in the buffer, or -
\* the write stays in the queue - for the result.
GiveUp(w) ==
  /\ Mode[w] # "drop"
  /\ \/ AtChannel(w) /\ caller' = [caller EXCEPT ![w] = "gaveUp"]
     \/ Mode[w] = "do" /\ caller[w] = "accepted" /\ caller' = [caller EXCEPT ![w] = "cancelled"]
  /\ UNCHANGED <<ch, paused, stopper, worker, restore, ran, since, owed>>

\* The executed closure has sent its error, or nil, to Do.
Answer(w) ==
  /\ Mode[w] = "do"
  /\ caller[w] = "accepted"
  /\ w \in Elements(ran)
  /\ caller' = [caller EXCEPT ![w] = "answered"]
  /\ UNCHANGED <<ch, paused, stopper, worker, restore, ran, since, owed>>

-----------------------------------------------------------------------------
(* The draining goroutine, loop. *)

WorkerPCs == {"select", "gate", "asleep", "running", "drain", "draining", "done"}

\* Fault: the gate is not looked at.
ReceiveUngated ==
  /\ worker.pc = "select"
  /\ ch # <<>>
  /\ worker' = [pc |-> "running", op |-> Head(ch)]
  /\ ch' = Tail(ch)
  /\ UNCHANGED <<paused, stopper, caller, restore, ran, since, owed>>

Receive ==
  /\ worker.pc = "select"
  /\ ch # <<>>
  /\ worker' = [pc |-> "gate", op |-> Head(ch)]
  /\ ch' = Tail(ch)
  /\ UNCHANGED <<paused, stopper, caller, restore, ran, since, owed>>

\* Fault: an operation received while the queue is paused is given up.
GateOrSkip ==
  /\ worker.pc = "gate"
  /\ worker' = IF paused THEN [pc |-> "select", op |-> NoWrite] ELSE [worker EXCEPT !.pc = "running"]
  /\ UNCHANGED <<ch, paused, stopper, caller, restore, ran, since, owed>>

\* waitUntilResumedOrStopped.  Paused again after Stop, the worker leaves with
\* the operation it has received.
Gate ==
  /\ worker.pc = "gate"
  /\ worker' = [worker EXCEPT !.pc = IF ~paused THEN "running" ELSE IF Stopped THEN "done" ELSE "asleep"]
  /\ UNCHANGED <<ch, paused, stopper, caller, restore, ran, since, owed>>

\* The operation takes effect, whatever has happened to the gate meanwhile.
Execute ==
  /\ worker.pc \in {"running", "draining"}
  /\ ran' = Append(ran, worker.op)
  /\ since' = since + 1
  /\ owed' = owed \ {worker.op}
  /\ worker' = [pc |-> IF worker.pc = "running" THEN "select" ELSE "drain", op |-> NoWrite]
  /\ UNCHANGED <<ch, paused, stopper, caller, restore>>

\* Fault: the worker leaves as soon as it is told to stop.
StopSeenAtOnce ==
  /\ worker.pc = "select"
  /\ Stopped
  /\ worker' = [worker EXCEPT !.pc = "done"]
  /\ UNCHANGED <<ch, paused, stopper, caller, restore, ran, since, owed>>

StopSeen ==
  /\ worker.pc = "select"
  /\ Stopped
  /\ worker' = [worker EXCEPT !.pc = "drain"]
  /\ UNCHANGED <<ch, paused, stopper, caller, restore, ran, since, owed>>

\* What is left is executed without a look at the gate.
Drain ==
  /\ worker.pc = "drain"
  /\ IF ch = <<>>
     THEN worker' = [worker EXCEPT !.pc = "done"] /\ UNCHANGED ch
     ELSE worker' = [pc |-> "draining", op |-> Head(ch)] /\ ch' = Tail(ch)
  /\ UNCHANGED <<paused, stopper, caller, restore, ran, since, owed>>

-----------------------------------------------------------------------------
(* Restores, and Stop. *)

Broadcast == worker' = IF worker.pc = "asleep" THEN [worker EXCEPT !.pc = "gate"] ELSE worker

Pause(r) ==
  /\ restore[r] = "idle"
  /\ paused' = TRUE
  /\ since' = 0
  /\ restore' = [restore EXCEPT ![r] = "copying"]
  /\ UNCHANGED <<ch, stopper, worker, caller, ran, owed>>

\* Fault: nobody is woken.
ResumeSilently(r) ==
  /\ restore[r] = "copying"
  /\ paused' = FALSE
  /\ restore' = [restore EXCEPT ![r] = "idle"]
  /\ UNCHANGED <<ch, stopper, worker, caller, ran, since, owed>>

\* The gate is a flag: the first of two restores to end opens it for both.
Resume(r) ==
  /\ restore[r] = "copying"
  /\ paused' = FALSE
  /\ Broadcast
  /\ restore' = [restore EXCEPT ![r] = "idle"]
  /\ UNCHANGED <<ch, stopper, caller, ran, since, owed>>

StopOpensGate ==
  /\ Stops
  /\ stopper = "no"
  /\ paused' = FALSE
  /\ Broadcast
  /\ stopper' = "opened"
  /\ UNCHANGED <<ch, caller, restore, ran, since, owed>>

StopCloses ==
  /\ stopper = "opened"
  /\ stopper' = "closed"
  /\ owed' = (Elements(ch) \cup {worker.op}) \ {NoWrite}
  /\ UNCHANGED <<ch, paused, worker, caller, restore, ran, since>>

-----------------------------------------------------------------------------
Init ==
  /\ ch = <<>>
  /\ paused = FALSE
  /\ stopper = "no"
  /\ worker = [pc |-> "select", op |-> NoWrite]
  /\ caller = [w \in Write |-> "new"]
  /\ restore = [r \in Restorer |-> "idle"]
  /\ ran = <<>>
  /\ since = 0
  /\ owed = {}

Submit(w) == Pass(w) \/ Send(w) \/ Drop(w) \/ Answer(w)

Work == Receive \/ Gate \/ Execute \/ StopSeen \/ Drain

Next ==
  \/ \E w \in Write : Submit(w) \/ GiveUp(w)
  \/ Work
  \/ \E r \in Restorer : Pause(r) \/ Resume(r)
  \/ StopOpensGate
  \/ StopCloses

Spec == Init /\ [][Next]_vars

\* Goroutines are scheduled and restores end.
FairSpec ==
  /\ Spec
  /\ \A w \in Write : WF_vars(Submit(w))
  /\ WF_vars(Work)
  /\ \A r \in Restorer : WF_vars(Resume(r))

-----------------------------------------------------------------------------
(* Properties. *)

\* The buffer stays within its capacity, and callers, worker and restores are of
\* the type the code gives them.
TypeOK ==
  /\ ch \in Seq(Write) /\ Len(ch) <= Cap
  /\ paused \in BOOLEAN
  /\ stopper \in {"no", "opened", "closed"}
  /\ worker \in [pc: WorkerPCs, op: Write \cup {NoWrite}]
  /\ caller \in [Write -> {"new", "passed", "accepted", "dropped", "gaveUp", "cancelled", "answered"}]
  /\ restore \in [Restorer -> {"idle", "copying"}]
  /\ ran \in Seq(Write)
  /\ since \in Nat
  /\ owed \subseteq Write

\* The queue keeps the promise ConnHealth relies on: writes take effect once
\* and in the order of the Enqueues, and only a full buffer drops one.  What
\* the worker holds is the head of the abstract queue.
Held == IF worker.op = NoWrite THEN <<>> ELSE <<worker.op>>

Fifo == INSTANCE WriteFifo WITH
  Droppable <- {w \in Write : Mode[w] = "drop"},
  pending   <- Held \o ch,
  applied   <- ran,
  refused   <- {w \in Write : caller[w] = "dropped"}

KeepsOrder == Fifo!Spec

\* Pause lets at most one write through - the one the worker was at - however
\* many are buffered, unless the queue is stopped, which drains it regardless.
PauseBounds == paused /\ ~Stopped => since <= 1

\* Stop flushes: when it returns nothing accepted before is left, unless a
\* restore paused the queue again and the worker left with a write in hand.
StopFlushes == worker.pc = "done" /\ worker.op = NoWrite => owed = {}

Waiting(w) == caller[w] = "passed" \/ (Mode[w] = "do" /\ caller[w] = "accepted")

\* Whoever has passed the gate gets an answer - a place in the buffer or, from
\* Do, the result - once the restores are over, as long as nobody stops the
\* queue: after that Do waits for an answer nobody will send.
CallersReturn ==
  <>[]~paused => <>[](stopper # "no" \/ \A w \in Write : ~Waiting(w))
=============================================================================
