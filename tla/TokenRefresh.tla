---------------------------- MODULE TokenRefresh ----------------------------
(***************************************************************************)
(* Refreshing OAuth tokens: Manager.refreshToken, which every request, the *)
(* refresh scheduler, the quota fetcher and the console call, and the      *)
(* writer that puts the new tokens into the row by way of the write queue. *)
(*                                                                         *)
(* A refresh token is a number: upstream replaces n by n + 1 and from then *)
(* on rejects n.  Access tokens go with the refresh token and are left     *)
(* out.  A caller holds credentials it has read from the row, for as long  *)
(* as it likes, as the connection cache does.  A token that came from a    *)
(* refresh is not due again before its write has been applied, so callers  *)
(* that would present one are left out.                                    *)
(***************************************************************************)
EXTENDS Naturals, Sequences

CONSTANTS Conn,      \* connections with a refresh token
          NoConn,    \* no connection
          Gated,     \* those whose provider is in a rotation group (one group)
          Caller,    \* goroutines that refresh
          Cap,       \* capacity of the write queue
          Omits,     \* may an answer bring no refresh token?
          Forgets,   \* may an entry of the rotation map expire?
          MaxToken   \* bound: how often upstream replaces a token

ASSUME TokenAssumption ==
  /\ NoConn \notin Conn
  /\ Gated \subseteq Conn
  /\ Cap \in Nat \ {0}
  /\ Omits \in BOOLEAN /\ Forgets \in BOOLEAN
  /\ MaxToken \in Nat

VARIABLES
  live,      \* the refresh token upstream honours
  known,     \* the newest one an answer has brought (history)
  row,       \* connections.oauth_refresh_token
  queue,     \* WriteQueue.ch: the writes of SaveTokens
  rotation,  \* Manager.rotationMap: the tokens it knows the replacement of
  gate,      \* Manager.groupTail: open, held, or closed for the spacing
  caller,    \* the goroutines
  lost       \* connections whose newest token will not be stored (history)

vars == <<live, known, row, queue, rotation, gate, caller, lost>>

Tokens == 0..MaxToken

PCs == {"idle", "holding", "gate", "ready", "calling", "joined",
        "answered", "saving", "recording", "rejected"}

Idle == [pc |-> "idle", conn |-> NoConn, tok |-> 0, new |-> 0]

Return(K) == caller' = [k \in Caller |-> IF k \in K THEN Idle ELSE caller[k]]

Put(K, pc) == caller' = [k \in Caller |-> IF k \in K THEN [caller[k] EXCEPT !.pc = pc] ELSE caller[k]]

\* refreshToken returns: the deferred goroutine will reopen the gate.
Release(c) == gate' = IF c \in Gated THEN "spacing" ELSE gate

-----------------------------------------------------------------------------
(* Up to the call. *)

Read(k, c) ==
  /\ caller[k].pc = "idle"
  /\ caller' = [caller EXCEPT ![k] = [pc |-> "holding", conn |-> c, tok |-> row[c], new |-> row[c]]]
  /\ UNCHANGED <<live, known, row, queue, rotation, gate, lost>>

\* lookupRotation hits: the caller gets the recorded tokens.
Redirect(k) ==
  /\ caller[k].pc = "holding"
  /\ <<caller[k].conn, caller[k].tok>> \in rotation
  /\ Return({k})
  /\ UNCHANGED <<live, known, row, queue, rotation, gate, lost>>

Miss(k) ==
  /\ caller[k].pc = "holding"
  /\ <<caller[k].conn, caller[k].tok>> \notin rotation
  /\ Put({k}, IF caller[k].conn \in Gated THEN "gate" ELSE "ready")
  /\ UNCHANGED <<live, known, row, queue, rotation, gate, lost>>

\* Fault: the gate lets everybody through.
TakeOpenGate(k) ==
  /\ caller[k].pc = "gate"
  /\ gate' = "held"
  /\ Put({k}, "ready")
  /\ UNCHANGED <<live, known, row, queue, rotation, lost>>

TakeGate(k) ==
  /\ caller[k].pc = "gate"
  /\ gate = "open"
  /\ gate' = "held"
  /\ Put({k}, "ready")
  /\ UNCHANGED <<live, known, row, queue, rotation, lost>>

\* The context ends while the caller waits at the gate.
GiveUp(k) ==
  /\ caller[k].pc = "gate"
  /\ Return({k})
  /\ UNCHANGED <<live, known, row, queue, rotation, gate, lost>>

\* Two reopenings never meet: one goroutine at a time is past the gate.
Reopen ==
  /\ gate = "spacing"
  /\ gate' = "open"
  /\ UNCHANGED <<live, known, row, queue, rotation, caller, lost>>

SameCall(j, k) == caller[j].conn = caller[k].conn /\ caller[j].tok = caller[k].tok

\* singleflight.Do: the first caller with a token calls, the others wait.
Call(k) ==
  /\ caller[k].pc = "ready"
  /\ ~ \E j \in Caller : caller[j].pc = "calling" /\ SameCall(j, k)
  /\ Put({k}, "calling")
  /\ UNCHANGED <<live, known, row, queue, rotation, gate, lost>>

Join(k) ==
  /\ caller[k].pc = "ready"
  /\ \E j \in Caller : caller[j].pc = "calling" /\ SameCall(j, k)
  /\ Put({k}, "joined")
  /\ UNCHANGED <<live, known, row, queue, rotation, gate, lost>>

-----------------------------------------------------------------------------
(* What upstream makes of the call of k; those who joined get the same. *)

Sharing(k) == {k} \cup {j \in Caller : caller[j].pc = "joined" /\ SameCall(j, k)}

Answer(k, new) ==
  caller' = [j \in Caller |-> IF j \in Sharing(k)
                              THEN [caller[j] EXCEPT !.pc = "answered", !.new = new]
                              ELSE caller[j]]

Replaced(k) ==
  LET c == caller[k].conn IN
  /\ caller[k].pc = "calling"
  /\ caller[k].tok = live[c]
  /\ live[c] < MaxToken
  /\ live' = [live EXCEPT ![c] = live[c] + 1]
  /\ known' = [known EXCEPT ![c] = live[c] + 1]
  /\ Answer(k, live[c] + 1)
  /\ UNCHANGED <<row, queue, rotation, gate, lost>>

\* The answer brings no refresh token; the old one stays in use.
Kept(k) ==
  /\ Omits
  /\ caller[k].pc = "calling"
  /\ caller[k].tok = live[caller[k].conn]
  /\ Answer(k, caller[k].tok)
  /\ UNCHANGED <<live, known, row, queue, rotation, gate, lost>>

\* Upstream replaces the token and the answer is lost.
AnswerLost(k) ==
  LET c == caller[k].conn IN
  /\ caller[k].pc = "calling"
  /\ caller[k].tok = live[c]
  /\ live[c] < MaxToken
  /\ live' = [live EXCEPT ![c] = live[c] + 1]
  /\ Return(Sharing(k))
  /\ Release(c)
  /\ UNCHANGED <<known, row, queue, rotation, lost>>

\* Fault: the error path forgets the gate.
UnreachableKeepsGate(k) ==
  /\ caller[k].pc = "calling"
  /\ Return(Sharing(k))
  /\ UNCHANGED <<live, known, row, queue, rotation, gate, lost>>

Unreachable(k) ==
  /\ caller[k].pc = "calling"
  /\ Return(Sharing(k))
  /\ Release(caller[k].conn)
  /\ UNCHANGED <<live, known, row, queue, rotation, lost>>

\* An unrecoverable error: requests, scheduler and quota fetcher disable the
\* connection, see ConnHealth.
Rejected(k) ==
  /\ caller[k].pc = "calling"
  /\ caller[k].tok # live[caller[k].conn]
  /\ Put(Sharing(k), "rejected")
  /\ Release(caller[k].conn)
  /\ UNCHANGED <<live, known, row, queue, rotation, lost>>

Disable(k) ==
  /\ caller[k].pc = "rejected"
  /\ Return({k})
  /\ UNCHANGED <<live, known, row, queue, rotation, gate, lost>>

-----------------------------------------------------------------------------
(* Storing the answer: compare with the row, queue the write, record. *)

LostBy(k) == IF caller[k].new = caller[k].tok THEN lost ELSE lost \cup {caller[k].conn}

Compare(k) ==
  /\ caller[k].pc = "answered"
  /\ Put({k}, IF row[caller[k].conn] = caller[k].tok THEN "saving" ELSE "recording")
  /\ UNCHANGED <<live, known, row, queue, rotation, gate, lost>>

\* The row cannot be read, for one because the context has ended.
ReadFails(k) ==
  /\ caller[k].pc = "answered"
  /\ Put({k}, "recording")
  /\ lost' = LostBy(k)
  /\ UNCHANGED <<live, known, row, queue, rotation, gate>>

\* Fault: the buffer grows.
SaveUnbounded(k) ==
  /\ caller[k].pc = "saving"
  /\ queue' = Append(queue, [conn |-> caller[k].conn, tok |-> caller[k].new])
  /\ UNCHANGED lost
  /\ Put({k}, "recording")
  /\ UNCHANGED <<live, known, row, rotation, gate>>

\* SaveTokens; a full queue drops the write and SaveTokens returns nil.
Save(k) ==
  /\ caller[k].pc = "saving"
  /\ \/ /\ Len(queue) < Cap
        /\ queue' = Append(queue, [conn |-> caller[k].conn, tok |-> caller[k].new])
        /\ UNCHANGED lost
     \/ /\ Len(queue) = Cap
        /\ lost' = LostBy(k)
        /\ UNCHANGED queue
  /\ Put({k}, "recording")
  /\ UNCHANGED <<live, known, row, rotation, gate>>

\* recordRotation, which ignores a token that has not changed, and return.
Record(k) ==
  /\ caller[k].pc = "recording"
  /\ rotation' = IF caller[k].new = caller[k].tok THEN rotation
                 ELSE rotation \cup {<<caller[k].conn, caller[k].tok>>}
  /\ Return({k})
  /\ Release(caller[k].conn)
  /\ UNCHANGED <<live, known, row, queue, lost>>

\* An entry is forgotten after its minute.
Forget(r) ==
  /\ Forgets
  /\ rotation' = rotation \ {r}
  /\ UNCHANGED <<live, known, row, queue, gate, caller, lost>>

Drain ==
  /\ queue # <<>>
  /\ row' = [row EXCEPT ![Head(queue).conn] = Head(queue).tok]
  /\ queue' = Tail(queue)
  /\ UNCHANGED <<live, known, rotation, gate, caller, lost>>

\* The process dies with what it has not stored.
Restart ==
  /\ queue' = <<>>
  /\ rotation' = {}
  /\ gate' = "open"
  /\ Return(Caller)
  /\ lost' = lost \cup {c \in Conn : row[c] # known[c]}
  /\ UNCHANGED <<live, known, row>>

-----------------------------------------------------------------------------
Init ==
  /\ live = [c \in Conn |-> 0]
  /\ known = live
  /\ row = live
  /\ queue = <<>>
  /\ rotation = {}
  /\ gate = "open"
  /\ caller = [k \in Caller |-> Idle]
  /\ lost = {}

Step(k) ==
  \/ Redirect(k) \/ Miss(k) \/ Call(k) \/ Join(k)
  \/ Replaced(k) \/ Kept(k) \/ AnswerLost(k) \/ Unreachable(k) \/ Rejected(k) \/ Disable(k)
  \/ Compare(k) \/ ReadFails(k) \/ Save(k) \/ Record(k)

Next ==
  \/ \E k \in Caller : (\E c \in Conn : Read(k, c)) \/ Step(k) \/ TakeGate(k) \/ GiveUp(k)
  \/ Reopen
  \/ \E r \in rotation : Forget(r)
  \/ Drain
  \/ Restart

Spec == Init /\ [][Next]_vars

-----------------------------------------------------------------------------
(* Properties. *)

\* Tokens, gate, callers and queue are of the type the code gives them.
TypeOK ==
  /\ live \in [Conn -> Tokens]
  /\ known \in [Conn -> Tokens]
  /\ row \in [Conn -> Tokens]
  /\ queue \in Seq([conn: Conn, tok: Tokens]) /\ Len(queue) <= Cap
  /\ rotation \subseteq Conn \X Tokens
  /\ gate \in {"open", "held", "spacing"}
  /\ caller \in [Caller -> [pc: PCs, conn: Conn \cup {NoConn}, tok: Tokens, new: Tokens]]
  /\ lost \subseteq Conn

\* Nothing of c is on its way to the row.
Stored(c) ==
  /\ \A k \in Caller : caller[k].conn = c => caller[k].pc \notin {"answered", "saving"}
  /\ \A i \in DOMAIN queue : queue[i].conn # c

NewestStored(c) == Stored(c) /\ c \notin lost => row[c] = known[c]

\* Within a rotation group the newest token is the one that ends up in the
\* row, however many callers refresh, unless its write was given up.
GroupStoresNewest == \A c \in Gated : NewestStored(c)

Ledger == INSTANCE TokenLedger WITH
  Account  <- Gated,
  newest   <- [c \in Gated |-> known[c]],
  stored   <- [c \in Gated |-> row[c]],
  onItsWay <- {c \in Gated : ~Stored(c)},
  givenUp  <- lost \cap Gated

\* What happens to the tokens of a rotation group, in memory, the queue and the row,
\* is what TokenLedger promises: in particular no late write puts an older token
\* over a newer one, and no token is replaced before it has been stored.
KeepsLedger == Ledger!Spec

PastGate(k) ==
  /\ caller[k].conn \in Gated
  /\ caller[k].pc \in {"ready", "calling", "joined", "answered", "saving", "recording"}

\* Callers in a rotation group call upstream, compare and store one after the
\* other.
OnePastGate == \A j, k \in Caller : PastGate(j) /\ PastGate(k) => j = k

\* Whatever becomes of a refresh, it lets go of the gate when it is over: a gate
\* nobody holds opens again.
GateIsHeldBySomebody == gate = "held" => \E k \in Caller : PastGate(k)

\* A token is rejected, and its connection disabled, only when the program
\* knows of no newer one, or failed to store it.
RejectedOnlyIfNewest ==
  \A k \in Caller : caller[k].pc = "rejected" =>
    caller[k].tok = known[caller[k].conn] \/ caller[k].conn \in lost
=============================================================================
