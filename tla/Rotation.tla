------------------------------ MODULE Rotation ------------------------------
(***************************************************************************)
(* The round-robin counters of combos.  A pick reads and advances the      *)
(* counter in memory, under the manager's lock; what is to be saved waits  *)
(* in a pending map for a goroutine that sleeps, takes the map and writes  *)
(* one row after the other with no lock held.  A counter not in memory is  *)
(* read from its row.  A reset clears memory under the lock and deletes    *)
(* the row after it; deleting a combo deletes the row and leaves memory as *)
(* it is.                                                                  *)
(***************************************************************************)
EXTENDS Naturals

CONSTANTS Rotated,   \* combos that are rotated through
          Flusher,   \* flush goroutines at a time
          Resetter,  \* resets at a time
          NoReset,   \* what a resetter without work is at
          MaxCount   \* bound on the counters and on the picks between two resets

ASSUME RotationAssumption ==
  /\ NoReset \notin Rotated
  /\ MaxCount \in Nat

VARIABLES
  counters,   \* RotationManager.counters, a combo without one has NoCount
  pending,    \* RotationManager.pending
  flushScheduled,  \* RotationManager.flushScheduled
  flusher,    \* the flush goroutines, each with what it has still to write
  resetter,   \* resets between memory and row
  savedCount,      \* table rotation_state, NoCount where there is no row
  deleted,    \* combos whose row in combos is gone
  picks,      \* picks since the last reset (history)
  resetCrossed,    \* combos a reset has crossed a flush or a pick at (history)
  overlapped  \* combos the latest flush has in hand, or had, while another one had (history)

rotationVars == <<counters, pending, flushScheduled, flusher, resetter, savedCount, deleted,
                  picks, resetCrossed, overlapped>>

NoCount == MaxCount + 1
Counts == 0..MaxCount
NoCounts == [c \in Rotated |-> NoCount]

FreeFlusher   == [pc |-> "free"]
Asleep == [pc |-> "asleep"]
Flushers == [pc: {"writing"}, batch: [Rotated -> Counts \cup {NoCount}]] \cup {FreeFlusher, Asleep}

InBatch(f, c) == flusher[f].pc = "writing" /\ flusher[f].batch[c] # NoCount

InFlush(c) == \E f \in Flusher : InBatch(f, c)

\* loadCounter
LoadCounter(c) == IF savedCount[c] = NoCount THEN 0 ELSE savedCount[c]

\* The counter the next pick hands out.
Current(c) == IF counters[c] = NoCount THEN LoadCounter(c) ELSE counters[c]

-----------------------------------------------------------------------------
\* Fault: a flush is started only when nothing was pending.
NextCounterUnlessPending(c) ==
  /\ Current(c) < MaxCount
  /\ picks[c] < MaxCount
  /\ counters' = [counters EXCEPT ![c] = Current(c) + 1]
  /\ pending' = [pending EXCEPT ![c] = Current(c) + 1]
  /\ IF pending # NoCounts THEN UNCHANGED flusher
     ELSE \E f \in Flusher : flusher[f] = FreeFlusher /\ flusher' = [flusher EXCEPT ![f] = Asleep]
  /\ flushScheduled' = TRUE
  /\ picks' = [picks EXCEPT ![c] = @ + 1]
  /\ resetCrossed' = IF \E a \in Resetter : resetter[a] = c THEN resetCrossed \cup {c} ELSE resetCrossed
  /\ UNCHANGED <<resetter, savedCount, deleted, overlapped>>

\* Fault: a value that waits to be saved already is not replaced.
NextCounterKeepsPending(c) ==
  /\ Current(c) < MaxCount
  /\ picks[c] < MaxCount
  /\ counters' = [counters EXCEPT ![c] = Current(c) + 1]
  /\ pending' = [pending EXCEPT ![c] = IF @ = NoCount THEN Current(c) + 1 ELSE @]
  /\ IF flushScheduled THEN UNCHANGED flusher
     ELSE \E f \in Flusher : flusher[f] = FreeFlusher /\ flusher' = [flusher EXCEPT ![f] = Asleep]
  /\ flushScheduled' = TRUE
  /\ picks' = [picks EXCEPT ![c] = @ + 1]
  /\ resetCrossed' = IF \E a \in Resetter : resetter[a] = c THEN resetCrossed \cup {c} ELSE resetCrossed
  /\ UNCHANGED <<resetter, savedCount, deleted, overlapped>>

\* nextCounter
NextCounter(c) ==
  /\ Current(c) < MaxCount
  /\ picks[c] < MaxCount
  /\ counters' = [counters EXCEPT ![c] = Current(c) + 1]
  /\ pending' = [pending EXCEPT ![c] = Current(c) + 1]
  /\ IF flushScheduled THEN UNCHANGED flusher
     ELSE \E f \in Flusher : flusher[f] = FreeFlusher /\ flusher' = [flusher EXCEPT ![f] = Asleep]
  /\ flushScheduled' = TRUE
  /\ picks' = [picks EXCEPT ![c] = @ + 1]
  /\ resetCrossed' = IF \E a \in Resetter : resetter[a] = c THEN resetCrossed \cup {c} ELSE resetCrossed
  /\ UNCHANGED <<resetter, savedCount, deleted, overlapped>>

\* flushPending, when its sleep is over.
TakePending(f) ==
  /\ flusher[f] = Asleep
  /\ flusher' = [flusher EXCEPT ![f] = [pc |-> "writing", batch |-> pending]]
  /\ pending' = NoCounts
  /\ flushScheduled' = FALSE
  /\ overlapped' = {c \in Rotated : IF pending[c] = NoCount THEN c \in overlapped ELSE InFlush(c)}
  /\ UNCHANGED <<counters, resetter, savedCount, deleted, picks, resetCrossed>>

\* persistCounter, in the order of no map; the row of a deleted combo is
\* refused by its foreign key.
PersistCounter(f, c) ==
  /\ InBatch(f, c)
  /\ savedCount' = IF c \in deleted THEN savedCount ELSE [savedCount EXCEPT ![c] = flusher[f].batch[c]]
  /\ flusher' = [flusher EXCEPT ![f].batch[c] = NoCount]
  /\ UNCHANGED <<counters, pending, flushScheduled, resetter, deleted, picks, resetCrossed, overlapped>>

Flushed(f) ==
  /\ flusher[f] = [pc |-> "writing", batch |-> NoCounts]
  /\ flusher' = [flusher EXCEPT ![f] = FreeFlusher]
  /\ UNCHANGED <<counters, pending, flushScheduled, resetter, savedCount, deleted, picks, resetCrossed, overlapped>>

\* Fault: what waits to be flushed is left there.
ResetCounterOnly(a, c) ==
  /\ resetter[a] = NoReset
  /\ counters' = [counters EXCEPT ![c] = NoCount]
  /\ resetter' = [resetter EXCEPT ![a] = c]
  /\ picks' = [picks EXCEPT ![c] = 0]
  /\ resetCrossed' = IF InFlush(c) THEN resetCrossed \cup {c} ELSE resetCrossed
  /\ UNCHANGED <<pending, flushScheduled, flusher, savedCount, deleted, overlapped>>

\* ResetCounter: memory under the lock, then the row.
ResetCounter(a, c) ==
  /\ resetter[a] = NoReset
  /\ counters' = [counters EXCEPT ![c] = NoCount]
  /\ pending' = [pending EXCEPT ![c] = NoCount]
  /\ resetter' = [resetter EXCEPT ![a] = c]
  /\ picks' = [picks EXCEPT ![c] = 0]
  /\ resetCrossed' = IF InFlush(c) THEN resetCrossed \cup {c} ELSE resetCrossed
  /\ UNCHANGED <<flushScheduled, flusher, savedCount, deleted, overlapped>>

ResetRow(a) ==
  /\ resetter[a] # NoReset
  /\ savedCount' = [savedCount EXCEPT ![resetter[a]] = NoCount]
  /\ resetter' = [resetter EXCEPT ![a] = NoReset]
  /\ UNCHANGED <<counters, pending, flushScheduled, flusher, deleted, picks, resetCrossed, overlapped>>

\* deleteComboDB; requests that resolved the combo before go on picking.
DeleteCombo(c) ==
  /\ deleted' = deleted \cup {c}
  /\ savedCount' = [savedCount EXCEPT ![c] = NoCount]
  /\ UNCHANGED <<counters, pending, flushScheduled, flusher, resetter, picks, resetCrossed, overlapped>>

RotationRestart ==
  /\ counters' = NoCounts
  /\ pending' = NoCounts
  /\ flushScheduled' = FALSE
  /\ flusher' = [f \in Flusher |-> FreeFlusher]
  /\ resetter' = [a \in Resetter |-> NoReset]
  /\ resetCrossed' = resetCrossed \cup {c \in Rotated : \E a \in Resetter : resetter[a] = c}
  /\ UNCHANGED <<savedCount, deleted, picks, overlapped>>

-----------------------------------------------------------------------------
RotationInit ==
  /\ counters = NoCounts
  /\ pending = NoCounts
  /\ flushScheduled = FALSE
  /\ flusher = [f \in Flusher |-> FreeFlusher]
  /\ resetter = [a \in Resetter |-> NoReset]
  /\ savedCount = NoCounts
  /\ deleted = {}
  /\ picks = [c \in Rotated |-> 0]
  /\ resetCrossed = {}
  /\ overlapped = {}

RotationNext ==
  \/ \E c \in Rotated : NextCounter(c) \/ DeleteCombo(c)
  \/ \E f \in Flusher : TakePending(f) \/ Flushed(f)
  \/ \E f \in Flusher, c \in Rotated : PersistCounter(f, c)
  \/ \E a \in Resetter : ResetRow(a)
  \/ \E a \in Resetter, c \in Rotated : ResetCounter(a, c)
  \/ RotationRestart

RotationSpec == RotationInit /\ [][RotationNext]_rotationVars

-----------------------------------------------------------------------------
(* Properties. *)

\* Counters, rows, flushes and resets are of the type the code gives them.
RotationTypeOK ==
  /\ counters \in [Rotated -> Counts \cup {NoCount}]
  /\ pending \in [Rotated -> Counts \cup {NoCount}]
  /\ flushScheduled \in BOOLEAN
  /\ flusher \in [Flusher -> Flushers]
  /\ resetter \in [Resetter -> Rotated \cup {NoReset}]
  /\ savedCount \in [Rotated -> Counts \cup {NoCount}]
  /\ deleted \subseteq Rotated
  /\ picks \in [Rotated -> Counts]
  /\ resetCrossed \subseteq Rotated
  /\ overlapped \subseteq Rotated

\* No counter waits for a flush that nobody is going to make, and no two flushes
\* wait at once: the flag says that exactly one goroutine sleeps.
OneSleeper ==
  /\ pending # NoCounts => flushScheduled
  /\ flushScheduled <=> \E f \in Flusher : flusher[f] = Asleep
  /\ \A f, g \in Flusher : flusher[f] = Asleep /\ flusher[g] = Asleep => f = g

\* A restart may repeat positions of a rotation and skips none, and a reset
\* starts it over: the row is never ahead of memory, nor either ahead of the
\* picks since the reset - although rows are written late, in any order, and
\* twice at a time.  (A reset that crosses a flush, or a pick, may be undone.)
NeverAhead ==
  \A c \in Rotated \ resetCrossed :
    /\ counters[c] # NoCount => counters[c] <= picks[c]
    /\ savedCount[c] # NoCount => savedCount[c] <= picks[c] \/ \E a \in Resetter : resetter[a] = c
    /\ counters[c] # NoCount /\ savedCount[c] # NoCount => savedCount[c] <= counters[c]

\* What is picked is saved: a counter that neither waits nor is being written
\* stands in its row - unless its last flush ran beside another one.
PicksAreSaved ==
  \A c \in Rotated \ (deleted \cup resetCrossed \cup overlapped) :
    counters[c] # NoCount /\ pending[c] = NoCount /\ ~InFlush(c) => savedCount[c] = counters[c]
=============================================================================
