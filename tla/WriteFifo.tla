------------------------------ MODULE WriteFifo ------------------------------
(***************************************************************************)
(* What the write queue promises its callers: a write that is accepted is  *)
(* applied once, in the order of acceptance, and a write is refused only   *)
(* if its caller said that it may be and the buffer is full.  One write    *)
(* may be out of the buffer, about to be applied.                          *)
(***************************************************************************)
EXTENDS Naturals, Sequences

CONSTANTS Write,      \* the writes handed to the queue, each once
          Droppable,  \* those that may be refused
          Cap         \* capacity of the buffer

VARIABLES pending, applied, refused

vars == <<pending, applied, refused>>

Elements(s) == {s[i] : i \in DOMAIN s}

Fresh(w) == w \notin Elements(pending) \cup Elements(applied) \cup refused

Init == pending = <<>> /\ applied = <<>> /\ refused = {}

Accept(w) ==
  /\ Fresh(w)
  /\ Len(pending) <= Cap
  /\ pending' = Append(pending, w)
  /\ UNCHANGED <<applied, refused>>

Refuse(w) ==
  /\ Fresh(w)
  /\ w \in Droppable
  /\ Len(pending) >= Cap
  /\ refused' = refused \cup {w}
  /\ UNCHANGED <<pending, applied>>

Apply ==
  /\ pending # <<>>
  /\ applied' = Append(applied, Head(pending))
  /\ pending' = Tail(pending)
  /\ UNCHANGED refused

Next == (\E w \in Write : Accept(w) \/ Refuse(w)) \/ Apply

Spec == Init /\ [][Next]_vars
=============================================================================
