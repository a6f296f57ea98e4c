---------------------------- MODULE ComboRouting ----------------------------
(***************************************************************************)
(* Requests that try the models of a combo one after the other, each over  *)
(* the connections of its provider, and what decides which of them are     *)
(* tried: a circuit breaker per connection, a cooldown per model of a      *)
(* connection, and an exhaustion mark per quota scope of a connection.     *)
(* Beside the requests a prober tests the models that are locked, and a    *)
(* clean-up drops the breakers of connections that have left the store.    *)
(* Whoever reads one of these and acts on it later holds no lock.          *)
(*                                                                         *)
(* Providers with a quota per model only: a connection-wide cooldown is    *)
(* the subject of ConnHealth.  Windows and cooldowns are durations of      *)
(* unknown length: each may be over at any time after it began, whether it *)
(* has been renewed since, for longer or for less, or not.                 *)
(***************************************************************************)
EXTENDS Naturals, Sequences

CONSTANTS Conn,              \* connections
          NoConn,            \* no connection
          Model,             \* models
          ScopeOf,           \* model -> quota scope, a model of that scope
          Orders,            \* the orders of models a combo may try
          Request,           \* requests at a time
          Failures,          \* what upstream answers: "model" limited, "server" error
          FailureThreshold,  \* failures in a row that open a breaker
          SuccessThreshold   \* successes that close it again

ASSUME ComboRoutingAssumption ==
  /\ NoConn \notin Conn
  /\ ScopeOf \in [Model -> Model]
  /\ \A m \in Model : ScopeOf[ScopeOf[m]] = ScopeOf[m]
  /\ Orders \subseteq Seq(Model) \ {<<>>}
  /\ Failures \subseteq {"model", "server"}
  /\ FailureThreshold \in Nat \ {0}
  /\ SuccessThreshold \in Nat \ {0}

VARIABLES
  store,    \* connections with an entry in Store.states
  breaker,  \* FallbackManager.breakers; one that is not there is new
  lock,     \* connection -> models in cooldown
  mark,     \* connection -> quota scopes marked exhausted
  request,  \* what each request is doing
  probe,    \* what the rate-limit prober is doing
  active,   \* connections the clean-up has found in the store, or Conn
  ideal,    \* the breakers, if none were ever dropped (history)
  gone      \* connections that have ever been out of the store (history)

breakerVars == <<breaker, ideal>>
lockVars    == <<lock, mark>>
routingVars == <<store, breaker, lock, mark, request, probe, active, ideal, gone>>

-----------------------------------------------------------------------------
(* The circuit breaker.  waits says that its window is not over. *)

Fresh   == [state |-> "closed", fails |-> 0, succs |-> 0, waits |-> FALSE]
Tripped == [state |-> "open", fails |-> FailureThreshold, succs |-> 0, waits |-> TRUE]

Breakers == [state: {"closed", "open", "half_open"}, fails: 0..FailureThreshold,
             succs: 0..SuccessThreshold, waits: BOOLEAN]

AfterFailure(b) ==
  IF b.state = "closed" /\ b.fails + 1 < FailureThreshold
  THEN [b EXCEPT !.fails = @ + 1]
  ELSE Tripped

\* Fault: successes never close a breaker that is half open.
AfterSuccessStaysHalfOpen(b) ==
  CASE b.state = "closed" -> Fresh
    [] b.state = "open" -> b
    [] b.state = "half_open" -> [b EXCEPT !.succs = @ + 1]

AfterSuccess(b) ==
  CASE b.state = "closed" -> Fresh
    [] b.state = "open" -> b
    [] b.state = "half_open" ->
         IF b.succs + 1 < SuccessThreshold THEN [b EXCEPT !.succs = @ + 1] ELSE Fresh

\* IsAllowed: whoever asks first after the window opens the breaker half.
Asked(b) ==
  IF b.state = "open" /\ ~b.waits THEN [b EXCEPT !.state = "half_open"] ELSE b

Allowed(b) == Asked(b).state # "open"

-----------------------------------------------------------------------------
(* What each process has still to do. *)

Idle == [pc |-> "idle"]

\* A combo request tries the models of steps, a direct one a single model; of
\* the first it has yet to try the connections of list.  conn and outcome are
\* of the attempt under way: "load" is between the checks of a connection and
\* the request that is sent over it.  streamed says that the answer had begun,
\* and lost that the breaker in hand is no longer the one of the map.
Working == [pc: {"pick", "next", "load", "sent", "hold", "note", "stream"},
            combo: BOOLEAN, steps: Seq(Model), list: SUBSET Conn, conn: Conn \cup {NoConn},
            outcome: Failures \cup {"success", "stream"}, streamed: BOOLEAN, lost: BOOLEAN]

Requested(combo, steps) ==
  [pc |-> "pick", combo |-> combo, steps |-> steps, list |-> {}, conn |-> NoConn,
   outcome |-> "success", streamed |-> FALSE, lost |-> FALSE]

At(r, pc) == request[r].pc = pc
ModelOf(r) == Head(request[r].steps)

\* The next connection, or the next step, of a request that has done with one.
NextConn(rq) == [rq EXCEPT !.pc = "next", !.conn = NoConn, !.outcome = "success",
                           !.streamed = FALSE]
NextStep(rq) ==
  IF Len(rq.steps) = 1 THEN Idle ELSE Requested(rq.combo, Tail(rq.steps))

NoProbe == [pc |-> "rest", locks |-> {}, at |-> <<>>]

Probes == [pc: {"rest", "pick", "sent", "renewed", "cleared"},
           locks: SUBSET (Conn \X Model), at: Conn \X Model \cup {<<>>}]

-----------------------------------------------------------------------------
(* Choosing. *)

Begin(r) ==
  /\ At(r, "idle")
  /\ \/ \E steps \in Orders : request' = [request EXCEPT ![r] = Requested(TRUE, steps)]
     \/ \E m \in Model : request' = [request EXCEPT ![r] = Requested(FALSE, <<m>>)]
  /\ UNCHANGED <<store, breakerVars, lockVars, probe, active, gone>>

\* PickConnections, over whatever a snapshot held: the store, the cooldown of
\* the model and the breaker, which is not asked before the others agree.  A
\* direct request asks no breaker.
Pick(r, snapshot) ==
  LET known == {c \in snapshot \cap store : ModelOf(r) \notin lock[c]}
      asked == IF request[r].combo THEN known ELSE {}
      Ask(b) == [c \in Conn |-> IF c \in asked THEN Asked(b[c]) ELSE b[c]] IN
  /\ At(r, "pick")
  /\ breaker' = Ask(breaker)
  /\ ideal' = Ask(ideal)
  /\ request' = [request EXCEPT ![r].pc = "next",
                                ![r].list = known \ {c \in asked : ~Allowed(breaker[c])}]
  /\ UNCHANGED <<store, lockVars, probe, active, gone>>

Locked(c, m) == m \in lock[c] \/ ScopeOf[m] \in mark[c]

\* prepareConnection, for the next of the list: the checks come first.
Prepare(r, c) ==
  LET tried == [request EXCEPT ![r].list = @ \ {c}] IN
  /\ At(r, "next")
  /\ c \in request[r].list
  /\ IF c \in store /\ ~Locked(c, ModelOf(r))
     THEN request' = [tried EXCEPT ![r].pc = "load", ![r].conn = c]
     ELSE request' = tried
  /\ UNCHANGED <<store, breakerVars, lockVars, probe, active, gone>>

\* Then the credentials are read, or they are not to be had, and an OAuth token
\* that is about to expire is refreshed over the network.  Nothing is checked
\* again: a limit recorded meanwhile does not hold the request back.
Load(r) ==
  /\ At(r, "load")
  /\ \/ request' = [request EXCEPT ![r].pc = "sent"]
     \/ request' = [request EXCEPT ![r] = NextConn(@)]
  /\ UNCHANGED <<store, breakerVars, lockVars, probe, active, gone>>

\* Fault: a step without connections is tried again.
StepDoneOrAgain(r) ==
  /\ At(r, "next")
  /\ request[r].list = {}
  /\ \/ request' = [request EXCEPT ![r] = NextStep(@)]
     \/ request' = [request EXCEPT ![r] = Requested(@.combo, @.steps)]
  /\ UNCHANGED <<store, breakerVars, lockVars, probe, active, gone>>

StepDone(r) ==
  /\ At(r, "next")
  /\ request[r].list = {}
  /\ request' = [request EXCEPT ![r] = NextStep(@)]
  /\ UNCHANGED <<store, breakerVars, lockVars, probe, active, gone>>

\* The combo's timeout, or the attempts of a direct request, are used up.
GiveUp(r) ==
  /\ At(r, "next")
  /\ request' = [request EXCEPT ![r] = Idle]
  /\ UNCHANGED <<store, breakerVars, lockVars, probe, active, gone>>

-----------------------------------------------------------------------------
(* Outcomes. *)

\* The client has gone, or the model is not found: nothing is recorded.
Dropped(r) ==
  /\ request[r].pc \in {"sent", "stream"}
  /\ \/ request' = [request EXCEPT ![r] = Idle]
     \/ At(r, "stream") /\ request' = [request EXCEPT ![r] = NextStep(@)]
  /\ UNCHANGED <<store, breakerVars, lockVars, probe, active, gone>>

\* A success is recorded before any of its stream has been read.  GetBreaker:
\* from here on the request has the breaker in hand.
Succeeded(r) ==
  /\ At(r, "sent")
  /\ \E outcome \in {"success", "stream"} :
       request' = [request EXCEPT ![r].pc = "hold", ![r].outcome = outcome]
  /\ UNCHANGED <<store, breakerVars, lockVars, probe, active, gone>>

\* A stream that fails while it is held back leaves no mark, one that fails
\* later does, as does a failure before the stream.
Failed(r, failure, marks) ==
  LET c == request[r].conn IN
  /\ failure \in Failures
  /\ (At(r, "sent") /\ marks) \/ At(r, "stream")
  /\ mark' = IF marks /\ failure = "model"
             THEN [mark EXCEPT ![c] = @ \cup {ScopeOf[ModelOf(r)]}] ELSE mark
  /\ request' = [request EXCEPT ![r].pc = "hold", ![r].outcome = failure,
                                ![r].streamed = At(r, "stream")]
  /\ UNCHANGED <<store, breakerVars, lock, probe, active, gone>>

\* RecordSuccess and RecordFailure of the breaker in hand.
Record(r) ==
  LET c == request[r].conn
      After(b) == IF request[r].outcome \in Failures THEN AfterFailure(b) ELSE AfterSuccess(b) IN
  /\ At(r, "hold")
  /\ breaker' = IF request[r].lost THEN breaker ELSE [breaker EXCEPT ![c] = After(@)]
  /\ ideal' = [ideal EXCEPT ![c] = After(@)]
  /\ request' = [request EXCEPT ![r].pc = "note", ![r].lost = FALSE]
  /\ UNCHANGED <<store, lockVars, probe, active, gone>>

\* RecordSuccess and RecordFailure of the store, which makes an entry for a
\* connection that has none.  A server error leaves nothing there: the status
\* written after its cooldown clears it.
Note(r) ==
  LET rq == request[r]
      c  == rq.conn
      m  == ModelOf(r) IN
  /\ At(r, "note")
  /\ store' = store \cup {c}
  /\ IF rq.outcome = "model"
     THEN lock' = [lock EXCEPT ![c] = @ \cup {m}]
     ELSE lock' = lock
  /\ request' = [request EXCEPT ![r] =
       CASE rq.outcome = "success" -> Idle
         [] rq.outcome = "stream"  -> [rq EXCEPT !.pc = "stream"]
         [] rq.outcome \in Failures -> IF rq.streamed /\ rq.combo THEN NextStep(rq) ELSE NextConn(rq)]
  /\ UNCHANGED <<breakerVars, mark, probe, active, gone>>

-----------------------------------------------------------------------------
(* The prober.  It collects the locks, then tests one after the other; the *)
(* answer to a test may come long after another request was limited.       *)

CollectLocks ==
  /\ probe.pc = "rest"
  /\ probe' = [probe EXCEPT !.pc = "pick", !.locks =
       {l \in store \X Model :
          \/ l[2] \in lock[l[1]]
          \/ l[2] \in mark[l[1]] /\ \A n \in lock[l[1]] : ScopeOf[n] # l[2]}]
  /\ UNCHANGED <<store, breakerVars, lockVars, request, active, gone>>

\* Or not, when the connection's row is not to be had.
SendProbe(c, m) ==
  /\ probe.pc = "pick"
  /\ <<c, m>> \in probe.locks
  /\ probe' \in {[probe EXCEPT !.locks = @ \ {<<c, m>>}, !.pc = "sent", !.at = <<c, m>>],
                 [probe EXCEPT !.locks = @ \ {<<c, m>>}]}
  /\ UNCHANGED <<store, breakerVars, lockVars, request, active, gone>>

NextProbe == probe' = [probe EXCEPT !.pc = "pick", !.at = <<>>]

ProbeFailed ==
  /\ probe.pc = "sent"
  /\ NextProbe
  /\ UNCHANGED <<store, breakerVars, lockVars, request, active, gone>>

ProbeLimited ==
  LET c == probe.at[1] m == probe.at[2] IN
  /\ probe.pc = "sent"
  /\ c \in store
  /\ lock' = [lock EXCEPT ![c] = @ \cup {m}]
  /\ probe' = [probe EXCEPT !.pc = "renewed"]
  /\ UNCHANGED <<store, breakerVars, mark, request, active, gone>>

RenewMark ==
  LET c == probe.at[1] m == probe.at[2] IN
  /\ probe.pc = "renewed"
  /\ mark' = [mark EXCEPT ![c] = @ \cup {ScopeOf[m]}]
  /\ NextProbe
  /\ UNCHANGED <<store, breakerVars, lock, request, active, gone>>

\* The model was free when it was tested; whatever has been set since is lifted.
ProbeSucceeded ==
  LET c == probe.at[1] m == probe.at[2] IN
  /\ probe.pc = "sent"
  /\ lock' = [lock EXCEPT ![c] = @ \ {m}]
  /\ probe' = [probe EXCEPT !.pc = "cleared"]
  /\ UNCHANGED <<store, breakerVars, mark, request, active, gone>>

ClearMark ==
  LET c == probe.at[1] m == probe.at[2] IN
  /\ probe.pc = "cleared"
  /\ mark' = [mark EXCEPT ![c] = @ \ {ScopeOf[m]}]
  /\ NextProbe
  /\ UNCHANGED <<store, breakerVars, lock, request, active, gone>>

ProbesDone ==
  /\ probe.pc = "pick"
  /\ probe.locks = {}
  /\ probe' = NoProbe
  /\ UNCHANGED <<store, breakerVars, lockVars, request, active, gone>>

-----------------------------------------------------------------------------
(* The clean-up, in two steps: the store, then the breakers. *)

\* Fault: a connection without a free model does not count as active.
CollectRoutable ==
  /\ active' = {c \in store : lock[c] = {}}
  /\ UNCHANGED <<store, breakerVars, lockVars, request, probe, gone>>

CollectActive ==
  /\ active' = store
  /\ UNCHANGED <<store, breakerVars, lockVars, request, probe, gone>>

\* Cleanup: whoever has looked a dropped breaker up goes on with it.
Cleanup ==
  /\ breaker' = [c \in Conn |-> IF c \in active THEN breaker[c] ELSE Fresh]
  /\ request' = [r \in Request |->
       IF At(r, "hold") /\ request[r].conn \notin active
       THEN [request[r] EXCEPT !.lost = TRUE] ELSE request[r]]
  /\ active' = Conn
  /\ UNCHANGED <<store, ideal, lockVars, probe, gone>>

-----------------------------------------------------------------------------
(* Time, and connections that leave and come back. *)

WindowElapsed(c) ==
  /\ breaker[c].waits \/ ideal[c].waits
  /\ breaker' = [breaker EXCEPT ![c].waits = FALSE]
  /\ ideal' = [ideal EXCEPT ![c].waits = FALSE]
  /\ UNCHANGED <<store, lockVars, request, probe, active, gone>>

CooldownOver(c, m) ==
  /\ m \in lock[c]
  /\ lock' = [lock EXCEPT ![c] = @ \ {m}]
  /\ UNCHANGED <<store, breakerVars, mark, request, probe, active, gone>>

MarkOver(c, s) ==
  /\ s \in mark[c]
  /\ mark' = [mark EXCEPT ![c] = @ \ {s}]
  /\ UNCHANGED <<store, breakerVars, lock, request, probe, active, gone>>

\* The entry goes with its cooldowns; the marks and the breaker stay.
Delete(c) ==
  /\ c \in store
  /\ store' = store \ {c}
  /\ lock' = [lock EXCEPT ![c] = {}]
  /\ gone' = gone \cup {c}
  /\ UNCHANGED <<breakerVars, mark, request, probe, active>>

SeedConnection(c) ==
  /\ c \notin store
  /\ store' = store \cup {c}
  /\ UNCHANGED <<breakerVars, lockVars, request, probe, active, gone>>

-----------------------------------------------------------------------------
RoutingInit ==
  /\ store \in SUBSET Conn
  /\ breaker = [c \in Conn |-> Fresh]
  /\ lock = [c \in Conn |-> {}]
  /\ mark = [c \in Conn |-> {}]
  /\ request = [r \in Request |-> Idle]
  /\ probe = NoProbe
  /\ active = Conn
  /\ ideal = breaker
  /\ gone = Conn \ store

\* What a request does once it has begun.
Proceed(r) ==
  \/ \E snapshot \in SUBSET Conn : Pick(r, snapshot)
  \/ \E c \in Conn : Prepare(r, c)
  \/ Load(r)
  \/ StepDone(r)
  \/ GiveUp(r)
  \/ Dropped(r)
  \/ Succeeded(r)
  \/ \E failure \in Failures, marks \in BOOLEAN : Failed(r, failure, marks)
  \/ Record(r)
  \/ Note(r)

Probe ==
  \/ CollectLocks
  \/ \E c \in Conn, m \in Model : SendProbe(c, m)
  \/ ProbeFailed
  \/ ProbeLimited
  \/ RenewMark
  \/ ProbeSucceeded
  \/ ClearMark
  \/ ProbesDone

Time ==
  \/ \E c \in Conn : WindowElapsed(c)
  \/ \E c \in Conn, m \in Model : CooldownOver(c, m) \/ MarkOver(c, m)

Administer == \E c \in Conn : Delete(c) \/ SeedConnection(c)

RoutingNext ==
  \/ \E r \in Request : Begin(r) \/ Proceed(r)
  \/ Probe
  \/ CollectActive
  \/ Cleanup
  \/ Administer
  \/ Time

RoutingSpec == RoutingInit /\ [][RoutingNext]_routingVars

-----------------------------------------------------------------------------
(* Properties. *)

\* Locks, marks, breakers, requests and probes are of the type the code gives them.
RoutingTypeOK ==
  /\ store \subseteq Conn
  /\ breaker \in [Conn -> Breakers]
  /\ lock \in [Conn -> SUBSET Model]
  /\ mark \in [Conn -> SUBSET Model]
  /\ request \in [Request -> Working \cup {Idle}]
  /\ probe \in Probes
  /\ active \subseteq Conn
  /\ ideal \in [Conn -> Breakers]
  /\ gone \subseteq Conn

\* The clean-up forgets no failure and no success of a connection that has
\* stayed in the store: its breaker is what it would be if none were dropped,
\* whoever looks it up, records on it or asks it meanwhile.
BreakerKept == \A c \in Conn \ gone : breaker[c] = ideal[c]

\* How far a request is with the connection it has taken from its list.
Stage(rq) ==
  CASE rq.pc = "load"   -> 1
    [] rq.pc = "sent"   -> 2
    [] rq.pc = "hold"   -> IF rq.streamed THEN 6 ELSE 3
    [] rq.pc = "note"   -> IF rq.streamed THEN 7 ELSE 4
    [] rq.pc = "stream" -> 5
    [] rq.pc = "next"   -> 8

\* Steps first, then the choice of connections, then the connections left, then
\* the attempt under way.
Nearer(new, old) ==
  \/ new = Idle
  \/ Len(new.steps) < Len(old.steps)
  \/ /\ new.steps = old.steps
     /\ new.pc # "pick"
     /\ \/ old.pc = "pick"
        \/ new.list \subseteq old.list /\ new.list # old.list
        \/ new.list = old.list /\ Stage(new) > Stage(old)

\* No request goes round: whatever fails, before a stream or in the middle of
\* one, each of its steps brings it nearer to its end, which it reaches because
\* steps and connections are finitely many.
RoutingAdvances ==
  [][\A r \in Request :
       ~At(r, "idle") /\ request'[r] # request[r] =>
         Nearer(request'[r], request[r]) \/ request'[r] = [request[r] EXCEPT !.lost = TRUE]]_routingVars
=============================================================================
