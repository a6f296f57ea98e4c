---------------------------- MODULE ConnHealthInv ---------------------------
(***************************************************************************)
(* The inductive invariants behind RowCoherent and DisabledIsPersisted.    *)
(***************************************************************************)
EXTENDS ConnHealth

\* RowCoherent needs that whatever may still become a row has its horizon:
\* the queued cooldown writes, and the detections on the way to the queue.
HasHorizon(status, until) == status \in Healable => until # 0

RowInv ==
  /\ RowCoherent
  /\ \A i \in DOMAIN queue :
       queue[i].kind = "cooldown" => HasHorizon(queue[i].status, queue[i].until)
  /\ \A r \in Request :
       req[r].pc \in {"persist", "enqueue"} => HasHorizon(req[r].det.status, req[r].det.until)

-----------------------------------------------------------------------------
(* DisabledIsPersisted holds while the calls on the store and the Enqueues *)
(* that follow them cannot overtake each other: one request at a time, and *)
(* no token refresh beside it.  The schedulers, the drain goroutine, drops *)
(* and restarts run on.                                                    *)

OneAtATime == ~OAuth /\ \A r1, r2 \in Request : r1 = r2

\* The only write that activates a row, and those that deactivate it.
Enables(w, c) == w.conn = c /\ w.kind = "cooldown" /\ w.status # "disabled"

Disables(w, c) ==
  /\ w.conn = c
  /\ \/ w.kind = "cooldown" /\ w.status = "disabled"
     \/ w.kind = "ban" /\ w.ban >= BanThreshold

\* The queue, once drained, leaves the row of c inactive.
SettlesInactive(c) ==
  \/ /\ ~row[c].active
     /\ \A i \in DOMAIN queue : ~Enables(queue[i], c)
  \/ \E i \in DOMAIN queue :
       /\ Disables(queue[i], c)
       /\ \A j \in DOMAIN queue : j > i => ~Enables(queue[j], c)

\* A failure handler has written, or is about to write, the store for c and
\* has not queued the row yet.
Busy(c) == \E r \in Request : req[r].conn = c /\ req[r].pc \in {"persist", "enqueue"}

NoRefresh == \A c \in Conn : refresh[c] = "no"

AbsentIsClean == \A c \in Conn : mem[c].entry = "absent" => mem[c].status # "disabled" /\ mem[c].ban = 0

\* Before an enabling write is queued the store no longer says disabled, and
\* before the store says disabled on a strike the disabling write is queued.
EnablingIsSeen ==
  \A r \in Request :
    req[r].pc = "enqueue" /\ req[r].det.status # "disabled" => mem[req[r].conn].status # "disabled"

StrikeIsQueued ==
  \A r \in Request :
    req[r].pc = "disable" /\ req[r].conn \notin lost => SettlesInactive(req[r].conn)

DisabledSettles ==
  \A c \in Conn \ lost : mem[c].status = "disabled" /\ ~Busy(c) => SettlesInactive(c)

PersistInv ==
  /\ NoRefresh
  /\ AbsentIsClean
  /\ EnablingIsSeen
  /\ StrikeIsQueued
  /\ DisabledSettles

IInv == TypeOK /\ RowInv /\ PersistInv
=============================================================================
