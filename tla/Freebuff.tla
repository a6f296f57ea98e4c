------------------------------ MODULE Freebuff ------------------------------
(***************************************************************************)
(* Requests over one Freebuff account.  Each claims a session for its      *)
(* model, starts an agent run, sends its chat, and reports how the run     *)
(* ended.  Sessions are cached; of several requests that find none one     *)
(* claims it and the others wait for its answer.  A chat refused because   *)
(* the session is stale ends the run and claims another session by force,  *)
(* whatever is cached or being claimed.  A refusal of the egress address   *)
(* sends the request on to its next proxy candidate, one of the account    *)
(* locks the account, both for a while.                                    *)
(*                                                                         *)
(* Upstream, the account and what it answers are the environment.  A       *)
(* FINISH counts as reported when its goroutine is started.                *)
(***************************************************************************)
EXTENDS Naturals, Sequences

CONSTANTS Chat,       \* requests at a time
          Nobody,     \* not a request
          LLM,        \* models of the account
          Egress,     \* proxy pools, and the direct connection
          Candidates, \* what a request's proxy candidates may be
          NetworkRetries,  \* after a network error: 2
          RetryLimits      \* freebuffRetryConfig: 2 after 429, 503 and 504, 3 after 502

ASSUME FreebuffAssumption ==
  /\ Nobody \notin Chat
  /\ Candidates \subseteq Seq(Egress)
  /\ NetworkRetries \in Nat
  /\ RetryLimits \subseteq Nat

VARIABLES
  sessions,    \* models with a cached session
  inflight,    \* the request whose claim is in FreebuffExecutor.inflight
  accountLock, \* accountLockUntil: is the account locked?
  modelLock,   \* modelLockCooldowns
  poolLimit,   \* poolLimitCooldowns
  chats,       \* the requests
  overtaken    \* requests whose claim was taken out of inflight by force (history)

freebuffVars == <<sessions, inflight, accountLock, modelLock, poolLimit, chats, overtaken>>

lockVars  == <<accountLock, modelLock, poolLimit>>
claimVars == <<sessions, inflight, overtaken>>

NoRun == [active |-> FALSE, known |-> "none"]

\* activeRunID, and what upstream has been told of the latest run (history).
Runs == [active: BOOLEAN, known: {"none", "open", "finished", "abandoned", "twice"}]

Rest(run) == [pc |-> "rest", model |-> "none", cands |-> <<>>, force |-> FALSE,
              attempt |-> 0, on |-> Nobody, gate |-> "none", run |-> run]

ClaimAnswers == {"active", "none", "limited_ip", "model_locked", "error"}
ChatAnswers  == {"ok", "network", "retry", "limited_ip", "model_locked", "stale",
                 "unauthorized", "error"}

Claiming(q, m) == chats[q].pc \in {"claim", "announce"} /\ chats[q].model = m

-----------------------------------------------------------------------------
(* Runs. *)

Told(known) == IF known = "open" THEN "finished" ELSE "twice"

\* Fault: the run stays the active one.
MarkFinishedOnly(rec) ==
  IF rec.run.active THEN [rec EXCEPT !.run.known = Told(@)] ELSE rec

\* markFinished
MarkFinished(rec) ==
  IF rec.run.active THEN [rec EXCEPT !.run = [active |-> FALSE, known |-> Told(@.known)]] ELSE rec

\* attemptPool returns: the deferred call finishes a run that is still active.
ReturnChat(rec) ==
  LET run == MarkFinished(rec).run IN
  Rest(IF run.known = "finished" THEN NoRun ELSE run)

\* The next candidate, after a refusal of this one.
NextCandidate(rec) ==
  LET run == MarkFinished(rec).run IN
  [Rest(run) EXCEPT !.pc = "pick", !.model = rec.model, !.cands = Tail(rec.cands)]

\* startRun
Started(rec) ==
  [rec EXCEPT !.pc = IF rec.force THEN "resend" ELSE "send",
              !.run = [active |-> TRUE,
                       known |-> IF @.known = "open" THEN "abandoned" ELSE "open"]]

-----------------------------------------------------------------------------
(* A request, up to its session. *)

\* run: a locked account, or model, is refused at once.
Run(q, m, cands) ==
  /\ chats[q].pc = "rest"
  /\ ~accountLock
  /\ m \notin modelLock
  /\ chats' = [chats EXCEPT ![q].pc = "pick", ![q].model = m, ![q].cands = cands]
  /\ UNCHANGED <<claimVars, lockVars>>

Limited(q) == <<Head(chats[q].cands), chats[q].model>> \in poolLimit

PickCandidate(q) ==
  /\ chats[q].pc = "pick"
  /\ chats' = [chats EXCEPT ![q] =
       IF chats[q].cands = <<>> THEN ReturnChat(chats[q])
       ELSE IF Limited(q) THEN NextCandidate(chats[q])
       ELSE [chats[q] EXCEPT !.pc = "ensure"]]
  /\ UNCHANGED <<claimVars, lockVars>>

\* ensureSession finds a session,
SessionCached(q) ==
  /\ chats[q].pc = "ensure"
  /\ ~chats[q].force
  /\ chats[q].model \in sessions
  /\ chats' = [chats EXCEPT ![q].pc = "start"]
  /\ UNCHANGED <<claimVars, lockVars>>

\* or somebody claiming one,
JoinClaim(q) ==
  LET m == chats[q].model IN
  /\ chats[q].pc = "ensure"
  /\ ~chats[q].force
  /\ m \notin sessions
  /\ inflight[m] # Nobody
  /\ chats' = [chats EXCEPT ![q].pc = "wait", ![q].on = inflight[m]]
  /\ UNCHANGED <<claimVars, lockVars>>

\* or claims it.  Force drops what is cached, and the claim of somebody else.
BeginClaim(q) ==
  LET m == chats[q].model IN
  /\ chats[q].pc = "ensure"
  /\ chats[q].force \/ (m \notin sessions /\ inflight[m] = Nobody)
  /\ sessions' = sessions \ {m}
  /\ inflight' = [inflight EXCEPT ![m] = q]
  /\ overtaken' = overtaken \cup {o \in Chat : Claiming(o, m)}
  /\ chats' = [chats EXCEPT ![q].pc = "claim"]
  /\ UNCHANGED lockVars

\* requestSession answers.  A session is cached, by whomever it was claimed.
Claimed(q, answer) ==
  /\ chats[q].pc = "claim"
  /\ sessions' = IF answer = "active" THEN sessions \cup {chats[q].model} ELSE sessions
  /\ chats' = [chats EXCEPT ![q].pc = "announce", ![q].gate = answer]
  /\ UNCHANGED <<inflight, overtaken, lockVars>>

Announced(q) == [o \in Chat |->
  IF o = q \/ chats[o].on = q
  THEN [chats[o] EXCEPT !.pc = "answered", !.on = Nobody, !.gate = chats[q].gate]
  ELSE chats[o]]

\* Fault: whatever claim is in flight is removed.
AnnounceForAll(q) ==
  /\ chats[q].pc = "announce"
  /\ inflight' = [inflight EXCEPT ![chats[q].model] = Nobody]
  /\ overtaken' = overtaken \ {q}
  /\ chats' = Announced(q)
  /\ UNCHANGED <<sessions, lockVars>>

\* Everybody who waits gets the claimer's answer, its errors included.
Announce(q) ==
  LET m == chats[q].model IN
  /\ chats[q].pc = "announce"
  /\ inflight' = IF inflight[m] = q THEN [inflight EXCEPT ![m] = Nobody] ELSE inflight
  /\ overtaken' = overtaken \ {q}
  /\ chats' = Announced(q)
  /\ UNCHANGED <<sessions, lockVars>>

-----------------------------------------------------------------------------
(* What a refusal does.                                                    *)

LockAccount(m) ==
  /\ accountLock' = TRUE
  /\ modelLock' = modelLock \cup {m}
  /\ UNCHANGED poolLimit

LimitPool(q) ==
  /\ poolLimit' = poolLimit \cup {<<Head(chats[q].cands), chats[q].model>>}
  /\ UNCHANGED <<accountLock, modelLock>>

\* The gate of the session: a refusal by the account locks it only when the
\* session was not claimed by force.
GotSession(q) ==
  LET rec == [chats[q] EXCEPT !.gate = "none"] IN
  /\ rec.pc = "answered"
  /\ \/ /\ chats[q].gate \in {"active", "none"}
        /\ chats' = [chats EXCEPT ![q] = [rec EXCEPT !.pc = "start"]]
        /\ UNCHANGED lockVars
     \/ /\ chats[q].gate = "limited_ip"
        /\ LimitPool(q)
        /\ chats' = [chats EXCEPT ![q] = NextCandidate(rec)]
     \/ /\ chats[q].gate = "model_locked"
        /\ IF rec.force THEN UNCHANGED lockVars ELSE LockAccount(rec.model)
        /\ chats' = [chats EXCEPT ![q] = ReturnChat(rec)]
     \/ /\ chats[q].gate = "error"
        /\ chats' = [chats EXCEPT ![q] = ReturnChat(rec)]
        /\ UNCHANGED lockVars
  /\ UNCHANGED claimVars

StartRun(q) ==
  /\ chats[q].pc = "start"
  /\ \E rec \in {Started(chats[q]), ReturnChat(chats[q])} : chats' = [chats EXCEPT ![q] = rec]
  /\ UNCHANGED <<claimVars, lockVars>>

-----------------------------------------------------------------------------
(* The chat. *)

Sending(q) == chats[q].pc \in {"send", "resend"}

\* The attempts of a chat are counted together, whatever each of them met.
Retries(q, answer) ==
  \/ answer = "network" /\ chats[q].pc = "send" /\ chats[q].attempt < NetworkRetries
  \/ answer = "retry" /\ \E limit \in RetryLimits : chats[q].attempt < limit

SendAgain(q, answer) ==
  /\ Sending(q)
  /\ Retries(q, answer)
  /\ chats' = [chats EXCEPT ![q].pc = "sleep", ![q].force = FALSE]
  /\ UNCHANGED <<claimVars, lockVars>>

Slept(q) ==
  /\ chats[q].pc = "sleep"
  /\ chats' = [chats EXCEPT ![q].pc = "send", ![q].attempt = @ + 1]
  /\ UNCHANGED <<claimVars, lockVars>>

\* The client goes away during the sleep.
SleepCancelled(q) ==
  /\ chats[q].pc = "sleep"
  /\ chats' = [chats EXCEPT ![q] = ReturnChat(chats[q])]
  /\ UNCHANGED <<claimVars, lockVars>>

\* The first refusal of the session: another one is claimed, by force.
Reclaim(q) ==
  /\ chats[q].pc = "send"
  /\ chats' = [chats EXCEPT ![q] = [MarkFinished(chats[q]) EXCEPT !.pc = "ensure", !.force = TRUE]]
  /\ UNCHANGED <<claimVars, lockVars>>

Refused(q, answer) ==
  /\ Sending(q)
  /\ \/ /\ answer = "limited_ip"
        /\ LimitPool(q)
        /\ chats' = [chats EXCEPT ![q] = NextCandidate(chats[q])]
        /\ UNCHANGED sessions
     \/ /\ answer = "model_locked"
        /\ LockAccount(chats[q].model)
        /\ chats' = [chats EXCEPT ![q] = ReturnChat(MarkFinished(chats[q]))]
        /\ UNCHANGED sessions
     \/ /\ answer = "unauthorized"
        /\ sessions' = sessions \ {chats[q].model}    \* dropSession
        /\ accountLock' = FALSE
        /\ chats' = [chats EXCEPT ![q] = ReturnChat(MarkFinished(chats[q]))]
        /\ UNCHANGED <<modelLock, poolLimit>>
     \/ /\ \/ answer = "error"
           \/ answer = "stale" /\ chats[q].pc = "resend"
           \/ answer = "network" /\ (chats[q].pc = "resend" \/ chats[q].attempt >= NetworkRetries)
           \/ answer = "retry" /\ \E limit \in RetryLimits : chats[q].attempt >= limit
        /\ chats' = [chats EXCEPT ![q] = ReturnChat(MarkFinished(chats[q]))]
        /\ UNCHANGED <<sessions, lockVars>>
  /\ UNCHANGED <<inflight, overtaken>>

\* clearCooldowns; the run of a stream is left to its watcher.
Answered(q, stream) ==
  /\ Sending(q)
  /\ accountLock' = FALSE
  /\ modelLock' = modelLock \ {chats[q].model}
  /\ poolLimit' = poolLimit \ {<<Head(chats[q].cands), chats[q].model>>}
  /\ chats' = [chats EXCEPT ![q] =
       IF stream THEN [Rest(chats[q].run) EXCEPT !.pc = "stream"]
       ELSE ReturnChat(MarkFinished(chats[q]))]
  /\ UNCHANGED claimVars

\* The watcher of freebuffFinalizeStreamRun: the stream has ended, failed, or
\* been left by the client.
StreamOver(q) ==
  /\ chats[q].pc = "stream"
  /\ chats' = [chats EXCEPT ![q] = ReturnChat(MarkFinished(chats[q]))]
  /\ UNCHANGED <<claimVars, lockVars>>

-----------------------------------------------------------------------------
\* Sessions and cooldowns run out, or are pruned.
Prune ==
  /\ \/ \E m \in sessions : sessions' = sessions \ {m} /\ UNCHANGED lockVars
     \/ accountLock /\ accountLock' = FALSE /\ UNCHANGED <<sessions, modelLock, poolLimit>>
     \/ \E m \in modelLock :
          modelLock' = modelLock \ {m} /\ UNCHANGED <<sessions, accountLock, poolLimit>>
     \/ \E l \in poolLimit :
          poolLimit' = poolLimit \ {l} /\ UNCHANGED <<sessions, accountLock, modelLock>>
  /\ UNCHANGED <<inflight, overtaken, chats>>

FreebuffInit ==
  /\ sessions = {}
  /\ inflight = [m \in LLM |-> Nobody]
  /\ accountLock = FALSE
  /\ modelLock = {}
  /\ poolLimit = {}
  /\ chats = [q \in Chat |-> Rest(NoRun)]
  /\ overtaken = {}

ChatStep(q) ==
  \/ \E m \in LLM, cands \in Candidates : Run(q, m, cands)
  \/ PickCandidate(q)
  \/ SessionCached(q)
  \/ JoinClaim(q)
  \/ BeginClaim(q)
  \/ \E answer \in ClaimAnswers : Claimed(q, answer)
  \/ Announce(q)
  \/ GotSession(q)
  \/ StartRun(q)
  \/ \E answer \in ChatAnswers : SendAgain(q, answer) \/ Refused(q, answer)
  \/ Slept(q)
  \/ SleepCancelled(q)
  \/ Reclaim(q)
  \/ \E stream \in BOOLEAN : Answered(q, stream)
  \/ StreamOver(q)

FreebuffNext == Prune \/ \E q \in Chat : ChatStep(q)

FreebuffSpec == FreebuffInit /\ [][FreebuffNext]_freebuffVars

-----------------------------------------------------------------------------
(* Properties. *)

ChatPCs == {"rest", "pick", "ensure", "wait", "claim", "announce", "answered", "start",
            "send", "resend", "sleep", "stream"}

Chats == [pc: ChatPCs, model: LLM \cup {"none"}, cands: Seq(Egress), force: BOOLEAN,
          attempt: Nat, on: Chat \cup {Nobody}, gate: ClaimAnswers \cup {"none"}, run: Runs]

\* Sessions, claims, locks and requests are of the type the code gives them, and
\* no chat is retried more often than its retry table has it.
FreebuffTypeOK ==
  /\ sessions \subseteq LLM
  /\ inflight \in [LLM -> Chat \cup {Nobody}]
  /\ accountLock \in BOOLEAN
  /\ modelLock \subseteq LLM
  /\ poolLimit \subseteq Egress \X LLM
  /\ chats \in [Chat -> Chats]
  /\ \A q \in Chat :
       chats[q].attempt <= NetworkRetries \/ \E limit \in RetryLimits : chats[q].attempt <= limit
  /\ overtaken \subseteq Chat

\* One claim per model is under way, those apart that a forced one has taken the
\* place of, and nobody waits for a claim that is over: of the claims that end
\* late none removes another one's.
OneClaim ==
  /\ \A m \in LLM, q \in Chat \ overtaken : Claiming(q, m) => inflight[m] = q
  /\ \A m \in LLM : inflight[m] # Nobody => Claiming(inflight[m], m)
  /\ \A q \in Chat : chats[q].pc = "wait" => Claiming(chats[q].on, chats[q].model)

\* Of each run upstream is told once that it is over - neither twice, when a
\* retry, a new session, a watcher and a deferred call are all about to, nor
\* never - and no request is at rest with a run that goes on.
RunsFinished ==
  \A q \in Chat :
    /\ chats[q].run.known \in {"none", "open", "finished"}
    /\ chats[q].run.known = "open" => chats[q].pc \in {"send", "resend", "sleep", "stream"}
=============================================================================
