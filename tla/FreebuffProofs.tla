--------------------------- MODULE FreebuffProofs ---------------------------
(***************************************************************************)
(* What the requests over one Freebuff account guarantee, for any number   *)
(* of them, of models and of proxy candidates: one claim per model that    *)
(* none has taken the place of, and every run reported finished once.      *)
(***************************************************************************)
EXTENDS Freebuff, TLAPS

\* Only a request that waits is set on another one's claim.
OnlyWaiting == \A q \in Chat : chats[q].on # Nobody <=> chats[q].pc = "wait"

ClaimInv == OneClaim /\ OnlyWaiting

\* A run is the active one exactly as long as upstream takes it to be open.
RunOK(rec) ==
  /\ rec.run.known \in {"none", "open", "finished"}
  /\ rec.run.active <=> rec.run.known = "open"
  /\ rec.run.known = "open" => rec.pc \in {"send", "resend", "sleep", "stream"}

RunInv == \A q \in Chat : RunOK(chats[q])

\* A request that sleeps has a retry left, and one that is under way a model.
Within(n) == n <= NetworkRetries \/ \E limit \in RetryLimits : n <= limit

ChatOK(rec) ==
  /\ rec \in Chats
  /\ Within(rec.attempt)
  /\ rec.pc = "sleep" => Within(rec.attempt + 1)
  /\ rec.pc \notin {"rest", "stream"} => rec.model \in LLM
  /\ rec.pc \in {"ensure", "wait", "claim", "announce", "answered", "start", "send", "resend", "sleep"} =>
       rec.cands # <<>>
  /\ rec.pc = "announce" => rec.gate \in ClaimAnswers

Typed == FreebuffTypeOK /\ \A q \in Chat : ChatOK(chats[q])

USE FreebuffAssumption

-----------------------------------------------------------------------------
(* The records of a request. *)

LEMMA RunTyped == NoRun \in Runs /\ NoRun.known = "none" /\ ~NoRun.active
  BY DEF NoRun, Runs

LEMMA RestOK == ASSUME NEW run \in Runs PROVE ChatOK(Rest(run)) /\ Rest(run).on = Nobody
  BY DEF Rest, ChatOK, Chats, ChatPCs, Within

LEMMA Marked ==
  ASSUME NEW rec \in Chats
  PROVE  /\ MarkFinished(rec) \in Chats
         /\ MarkFinished(rec).pc = rec.pc /\ MarkFinished(rec).model = rec.model
         /\ MarkFinished(rec).cands = rec.cands /\ MarkFinished(rec).on = rec.on
         /\ MarkFinished(rec).attempt = rec.attempt
         /\ MarkFinished(rec).run \in Runs
         /\ RunOK(rec) => /\ MarkFinished(rec).run.known \in {"none", "finished"}
                          /\ ~MarkFinished(rec).run.active
<1>1. rec.run \in Runs BY DEF Chats
<1>2. Told(rec.run.known) \in {"finished", "twice"} BY DEF Told
<1>3. [active |-> FALSE, known |-> Told(rec.run.known)] \in Runs BY <1>2 DEF Runs
<1> QED BY <1>1, <1>2, <1>3 DEF MarkFinished, Chats, RunOK, Told, Runs

LEMMA Returned ==
  ASSUME NEW rec \in Chats
  PROVE  /\ ChatOK(ReturnChat(rec)) /\ ReturnChat(rec).on = Nobody /\ ReturnChat(rec).pc = "rest"
         /\ RunOK(rec) => RunOK(ReturnChat(rec))
<1> DEFINE run == MarkFinished(rec).run
           left == IF run.known = "finished" THEN NoRun ELSE run
<1>1. run \in Runs BY Marked
<1>2. left \in Runs BY <1>1, RunTyped
<1>3. ReturnChat(rec) = Rest(left) BY DEF ReturnChat
<1>4. Rest(left).run = left /\ Rest(left).pc = "rest" BY DEF Rest
<1>5. RunOK(rec) => left.known = "none" /\ ~left.active BY Marked, RunTyped
<1>6. RunOK(rec) => RunOK(Rest(left)) BY <1>4, <1>5 DEF RunOK
<1> HIDE DEF left
<1> QED BY <1>2, <1>3, <1>4, <1>6, RestOK

LEMMA MovedOn ==
  ASSUME NEW rec \in Chats, rec.model \in LLM, rec.cands # <<>>
  PROVE  /\ ChatOK(NextCandidate(rec)) /\ NextCandidate(rec).on = Nobody
         /\ NextCandidate(rec).pc = "pick"
         /\ RunOK(rec) => RunOK(NextCandidate(rec))
<1> DEFINE run == MarkFinished(rec).run
<1>1. run \in Runs BY Marked
<1>2. Tail(rec.cands) \in Seq(Egress) BY DEF Chats
<1>3. RunOK(rec) => run.known \in {"none", "finished"} /\ ~run.active BY Marked
<1>4. NextCandidate(rec) = [Rest(run) EXCEPT !.pc = "pick", !.model = rec.model, !.cands = Tail(rec.cands)]
  BY DEF NextCandidate
<1> HIDE DEF run
<1> DEFINE next == [pc |-> "pick", model |-> rec.model, cands |-> Tail(rec.cands), force |-> FALSE,
                    attempt |-> 0, on |-> Nobody, gate |-> "none", run |-> run]
<1>5. NextCandidate(rec) = next BY <1>4 DEF Rest
<1>6. next \in Chats BY <1>1, <1>2 DEF Chats, ChatPCs
<1>7. ChatOK(next) BY <1>6 DEF ChatOK, Within
<1>8. RunOK(rec) => RunOK(next) BY <1>3 DEF RunOK
<1> QED BY <1>5, <1>7, <1>8

LEMMA RunStarted ==
  ASSUME NEW rec, ChatOK(rec), RunOK(rec), rec.pc = "start"
  PROVE  /\ ChatOK(Started(rec)) /\ RunOK(Started(rec)) /\ Started(rec).on = rec.on
         /\ Started(rec).pc \in {"send", "resend"}
<1>1. rec.run.known # "open" /\ rec \in Chats BY DEF RunOK, ChatOK
<1>2. Started(rec) = [rec EXCEPT !.pc = IF rec.force THEN "resend" ELSE "send",
                                 !.run = [active |-> TRUE, known |-> "open"]]
  BY <1>1 DEF Started
<1>3. [active |-> TRUE, known |-> "open"] \in Runs BY DEF Runs
<1>4. Started(rec) \in Chats BY <1>1, <1>2, <1>3 DEF Chats, ChatPCs
<1>5. /\ Started(rec).pc \in {"send", "resend"} /\ Started(rec).on = rec.on
      /\ Started(rec).attempt = rec.attempt /\ Started(rec).model = rec.model
      /\ Started(rec).cands = rec.cands
      /\ Started(rec).run = [active |-> TRUE, known |-> "open"]
  BY <1>1, <1>2 DEF Chats
<1>6. ChatOK(Started(rec)) BY <1>4, <1>5 DEF ChatOK
<1>7. RunOK(Started(rec)) BY <1>5 DEF RunOK
<1> QED BY <1>5, <1>6, <1>7

-----------------------------------------------------------------------------
(* One request moves on: what it needs to be as it should be.              *)

Good(rec) == ChatOK(rec) /\ RunOK(rec)

Goods == Typed /\ RunInv /\ ClaimInv

\* A step of q between two points where it has nothing to do with claims.
Moves(q, rec) ==
  /\ chats' = [chats EXCEPT ![q] = rec]
  /\ UNCHANGED <<inflight, overtaken>>

LEMMA GoodChat == ASSUME Goods, NEW q \in Chat PROVE Good(chats[q]) /\ chats[q] \in Chats
  BY DEF Goods, Typed, RunInv, Good, ChatOK

Rows == /\ sessions \subseteq LLM
        /\ accountLock \in BOOLEAN
        /\ modelLock \subseteq LLM
        /\ poolLimit \subseteq Egress \X LLM

LEMMA GoodRows == Goods => Rows BY DEF Goods, Typed, FreebuffTypeOK, Rows

LEMMA StillTyped ==
  ASSUME Rows', inflight' \in [LLM -> Chat \cup {Nobody}], overtaken' \subseteq Chat,
         chats' \in [Chat -> Chats], \A q \in Chat : ChatOK(chats'[q])
  PROVE  Typed'
  BY DEF Rows, Typed, FreebuffTypeOK, ChatOK, Within

LEMMA Advances ==
  ASSUME Goods, Rows', NEW q \in Chat, NEW rec, Moves(q, rec), Good(rec), rec.on = Nobody,
         chats[q].pc \notin {"claim", "announce", "wait"},
         rec.pc \notin {"claim", "announce", "wait"}
  PROVE  Goods'
<1>1. chats'[q] = rec /\ \A o \in Chat \ {q} : chats'[o] = chats[o]
  BY DEF Moves, Goods, Typed, FreebuffTypeOK
<1>2. chats' \in [Chat -> Chats] BY DEF Moves, Goods, Typed, FreebuffTypeOK, Good, ChatOK
<1>3. \A o \in Chat : Good(chats'[o]) BY <1>1, GoodChat
<1>4. Typed' BY <1>2, <1>3, StillTyped DEF Good, Goods, Typed, FreebuffTypeOK, Moves
<1>5. RunInv' BY <1>3 DEF RunInv, Good
<1>6. OnlyWaiting' BY <1>1 DEF OnlyWaiting, Goods, ClaimInv
<1>7. \A o \in Chat, m \in LLM : Claiming(o, m)' <=> Claiming(o, m) BY <1>1 DEF Claiming
<1>8. OneClaim'
  <2>1. \A o \in Chat : chats'[o].pc = "wait" => o # q BY <1>1
  <2>2. \A o \in Chat : chats[o].pc = "wait" => chats[o].model \in LLM /\ chats[o].on \in Chat \cup {Nobody}
    BY GoodChat DEF Good, ChatOK, Chats
  <2>3. inflight \in [LLM -> Chat \cup {Nobody}] BY DEF Goods, Typed, FreebuffTypeOK
  <2>4. UNCHANGED <<inflight, overtaken>> BY DEF Moves
  <2>5. OneClaim BY DEF Goods, ClaimInv
  <2>6. ASSUME NEW o \in Chat, chats'[o].pc = "wait"
        PROVE  Claiming(chats[o].on, chats[o].model)'
    <3>1. o # q /\ chats'[o] = chats[o] BY <1>1, <2>1, <2>6
    <3>2. Claiming(chats[o].on, chats[o].model) BY <2>5, <2>6, <3>1 DEF OneClaim
    <3>3. chats[o].on \in Chat BY <2>2, <2>6, <3>1 DEF Goods, ClaimInv, OnlyWaiting
    <3>4. chats[o].on # q BY <3>2 DEF Claiming
    <3>5. chats'[chats[o].on] = chats[chats[o].on] BY <1>1, <3>3, <3>4
    <3> QED BY <3>1, <3>2, <3>5 DEF Claiming
  <2>7. ASSUME NEW m \in LLM, inflight'[m] # Nobody
        PROVE  Claiming(inflight[m], m)'
    <3>1. inflight[m] \in Chat /\ Claiming(inflight[m], m) BY <2>3, <2>4, <2>5, <2>7 DEF OneClaim
    <3>2. chats'[inflight[m]] = chats[inflight[m]] BY <1>1, <3>1 DEF Claiming
    <3> QED BY <2>4, <3>1, <3>2 DEF Claiming
  <2>8. ASSUME NEW m \in LLM, NEW o \in Chat, o \notin overtaken', Claiming(o, m)'
        PROVE  inflight'[m] = o
    BY <1>7, <2>4, <2>5, <2>8 DEF OneClaim
  <2> QED BY <2>6, <2>7, <2>8 DEF OneClaim
<1> QED BY <1>4, <1>5, <1>6, <1>8 DEF Goods, ClaimInv

-----------------------------------------------------------------------------
(* The steps that have nothing to do with claims. *)

LEMMA RunKeeps ==
  ASSUME Goods, NEW q \in Chat, NEW m \in LLM, NEW cands \in Candidates, Run(q, m, cands)
  PROVE  Goods'
<1> DEFINE rec == [chats[q] EXCEPT !.pc = "pick", !.model = m, !.cands = cands]
<1>1. Good(chats[q]) /\ chats[q] \in Chats BY GoodChat
<1>2. cands \in Seq(Egress) OBVIOUS
<1>3. rec \in Chats BY <1>1, <1>2 DEF Chats, ChatPCs
<1>4. rec.pc = "pick" /\ rec.model = m /\ rec.attempt = chats[q].attempt /\ rec.run = chats[q].run
      /\ rec.on = chats[q].on
  BY <1>1 DEF Chats
<1>5. ChatOK(rec) BY <1>1, <1>3, <1>4 DEF ChatOK, Good
<1>6. RunOK(rec) BY <1>1, <1>4 DEF RunOK, Good, Run
<1>7. chats[q].on = Nobody BY DEF Run, Goods, ClaimInv, OnlyWaiting
<1>8. Moves(q, rec) BY DEF Moves, Run, claimVars
<1>9. Rows' BY GoodRows DEF Run, claimVars, lockVars, Rows
<1> HIDE DEF rec
<1> QED BY <1>4, <1>5, <1>6, <1>7, <1>8, <1>9, Advances DEF Run, Good

\* A step to another point that leaves the run and the place in the retries.
LEMMA Reached ==
  ASSUME NEW rec, Good(rec), rec.on = Nobody, NEW pc \in {"ensure", "start", "send"},
         rec.cands # <<>>, rec.model \in LLM,
         rec.run.known = "open" => pc = "send"
  PROVE  LET new == [rec EXCEPT !.pc = pc] IN
         Good(new) /\ new.on = Nobody /\ new.pc = pc
<1> DEFINE new == [rec EXCEPT !.pc = pc]
<1>1. rec \in Chats BY DEF Good, ChatOK
<1>2. new \in Chats BY <1>1 DEF Chats, ChatPCs
<1>3. new.pc = pc /\ new.model = rec.model /\ new.cands = rec.cands /\ new.attempt = rec.attempt
      /\ new.run = rec.run /\ new.on = rec.on
  BY <1>1 DEF Chats
<1>5. ChatOK(new) BY <1>2, <1>3 DEF Good, ChatOK
<1>6. RunOK(new) BY <1>3 DEF RunOK, Good
<1> QED BY <1>3, <1>5, <1>6 DEF Good

LEMMA PickKeeps ==
  ASSUME Goods, NEW q \in Chat, PickCandidate(q)
  PROVE  Goods'
<1>1. Good(chats[q]) /\ chats[q] \in Chats /\ chats[q].on = Nobody
  BY GoodChat DEF Goods, ClaimInv, OnlyWaiting, PickCandidate
<1>2. chats[q].pc = "pick" /\ chats[q].model \in LLM BY <1>1 DEF PickCandidate, Good, ChatOK
<1>3. PICK rec : /\ chats' = [chats EXCEPT ![q] = rec]
                 /\ \/ chats[q].cands = <<>> /\ rec = ReturnChat(chats[q])
                    \/ chats[q].cands # <<>> /\ rec = NextCandidate(chats[q])
                    \/ chats[q].cands # <<>> /\ rec = [chats[q] EXCEPT !.pc = "ensure"]
  BY Zenon DEF PickCandidate
<1>4. Good(rec) /\ rec.on = Nobody /\ rec.pc \in {"rest", "pick", "ensure"}
  <2>1. CASE rec = ReturnChat(chats[q]) BY <1>1, <2>1, Returned DEF Good
  <2>2. CASE chats[q].cands # <<>> /\ rec = NextCandidate(chats[q])
    BY <1>1, <1>2, <2>2, MovedOn DEF Good
  <2>3. CASE chats[q].cands # <<>> /\ rec = [chats[q] EXCEPT !.pc = "ensure"]
    <3>1. chats[q].run.known # "open" BY <1>1, <1>2 DEF Good, RunOK
    <3> QED BY <1>1, <1>2, <2>3, <3>1, Reached
  <2> QED BY <1>3, <2>1, <2>2, <2>3
<1>5. Moves(q, rec) /\ Rows'
  BY <1>3, GoodRows DEF Moves, PickCandidate, claimVars, lockVars, Rows
<1> QED BY <1>2, <1>4, <1>5, Advances

LEMMA CachedKeeps ==
  ASSUME Goods, NEW q \in Chat, SessionCached(q)
  PROVE  Goods'
<1> DEFINE rec == [chats[q] EXCEPT !.pc = "start"]
<1>1. Good(chats[q]) /\ chats[q] \in Chats /\ chats[q].on = Nobody /\ chats[q].pc = "ensure"
  BY GoodChat DEF Goods, ClaimInv, OnlyWaiting, SessionCached
<1>2. chats[q].run.known # "open" BY <1>1 DEF Good, RunOK
<1>3. chats[q].cands # <<>> /\ chats[q].model \in LLM BY <1>1 DEF Good, ChatOK
<1>4. Good(rec) /\ rec.on = Nobody /\ rec.pc = "start" BY <1>1, <1>2, <1>3, Reached
<1>5. Moves(q, rec) /\ Rows' BY GoodRows DEF Moves, SessionCached, claimVars, lockVars, Rows
<1> HIDE DEF rec
<1> QED BY <1>1, <1>4, <1>5, Advances

\* The record of a request that has got its answer, the gate forgotten.
LEMMA Forgotten ==
  ASSUME NEW old, Good(old), old.pc = "answered", old.on = Nobody,
         NEW rec, rec = [old EXCEPT !.gate = "none"]
  PROVE  /\ Good(rec) /\ rec \in Chats /\ rec.on = Nobody /\ rec.pc = "answered"
         /\ rec.model \in LLM /\ rec.cands # <<>> /\ rec.run.known # "open" /\ rec.cands = old.cands
<1>1. old \in Chats BY DEF Good, ChatOK
<1>2. rec \in Chats BY <1>1 DEF Chats
<1>3. /\ rec.pc = "answered" /\ rec.model = old.model /\ rec.cands = old.cands
      /\ rec.attempt = old.attempt /\ rec.run = old.run /\ rec.on = old.on
  BY <1>1 DEF Chats
<1>4. ChatOK(rec) BY <1>2, <1>3 DEF Good, ChatOK
<1>5. RunOK(rec) BY <1>3 DEF Good, RunOK
<1>6. rec.run.known # "open" BY <1>3, <1>5 DEF RunOK
<1>7. rec.model \in LLM /\ rec.cands # <<>> BY <1>3, <1>4 DEF ChatOK
<1> QED BY <1>2, <1>3, <1>4, <1>5, <1>6, <1>7 DEF Good

LEMMA LimitTyped ==
  ASSUME Rows, NEW q \in Chat, chats[q] \in Chats, chats[q].model \in LLM, chats[q].cands # <<>>,
         LimitPool(q)
  PROVE  /\ accountLock' \in BOOLEAN /\ modelLock' \subseteq LLM
         /\ poolLimit' \subseteq Egress \X LLM
<1>1. Head(chats[q].cands) \in Egress BY DEF Chats
<1>2. <<Head(chats[q].cands), chats[q].model>> \in Egress \X LLM BY <1>1
<1> QED BY <1>2 DEF LimitPool, Rows

LEMMA GotKeeps ==
  ASSUME Goods, NEW q \in Chat, GotSession(q)
  PROVE  Goods'
<1> DEFINE old == [chats[q] EXCEPT !.gate = "none"]
<1>1. Good(chats[q]) /\ chats[q] \in Chats /\ chats[q].on = Nobody /\ chats[q].pc = "answered"
  <2>1. chats[q] \in Chats /\ Good(chats[q]) BY GoodChat
  <2>2. chats[q].pc = "answered" BY <2>1 DEF GotSession, Chats
  <2> QED BY <2>1, <2>2 DEF Goods, ClaimInv, OnlyWaiting
<1>2. /\ Good(old) /\ old \in Chats /\ old.on = Nobody /\ old.pc = "answered"
      /\ old.model \in LLM /\ old.cands # <<>> /\ old.run.known # "open"
      /\ old.cands = chats[q].cands
  BY <1>1, Forgotten
<1>3. UNCHANGED claimVars BY DEF GotSession
<1>4. chats[q].model \in LLM /\ chats[q].cands # <<>> BY <1>1 DEF Good, ChatOK
<1>5. \/ chats' = [chats EXCEPT ![q] = [old EXCEPT !.pc = "start"]] /\ UNCHANGED lockVars
      \/ chats' = [chats EXCEPT ![q] = NextCandidate(old)] /\ LimitPool(q)
      \/ /\ chats' = [chats EXCEPT ![q] = ReturnChat(old)]
         /\ UNCHANGED lockVars \/ LockAccount(old.model)
  BY DEF GotSession
<1>6. Rows' BY <1>1, <1>2, <1>3, <1>4, <1>5, GoodRows, LimitTyped
            DEF Rows, lockVars, claimVars, LockAccount
<1>7. PICK rec : /\ chats' = [chats EXCEPT ![q] = rec]
                 /\ \/ rec = [old EXCEPT !.pc = "start"]
                    \/ rec = NextCandidate(old)
                    \/ rec = ReturnChat(old)
  BY <1>5, Zenon
<1> HIDE DEF old
<1>8. Good(rec) /\ rec.on = Nobody /\ rec.pc \in {"rest", "pick", "start"}
  <2>1. CASE rec = ReturnChat(old) BY <1>2, <2>1, Returned DEF Good
  <2>2. CASE rec = NextCandidate(old) BY <1>2, <2>2, MovedOn DEF Good
  <2>3. CASE rec = [old EXCEPT !.pc = "start"] BY <1>2, <2>3, Reached
  <2> QED BY <1>7, <2>1, <2>2, <2>3
<1>9. Moves(q, rec) BY <1>3, <1>7 DEF Moves, claimVars
<1> QED BY <1>1, <1>6, <1>8, <1>9, Advances

LEMMA StartKeeps ==
  ASSUME Goods, NEW q \in Chat, StartRun(q)
  PROVE  Goods'
<1>1. Good(chats[q]) /\ chats[q] \in Chats /\ chats[q].on = Nobody /\ chats[q].pc = "start"
  BY GoodChat DEF Goods, ClaimInv, OnlyWaiting, StartRun
<1>2. PICK rec \in {Started(chats[q]), ReturnChat(chats[q])} : chats' = [chats EXCEPT ![q] = rec]
  BY DEF StartRun
<1>3. Good(rec) /\ rec.on = Nobody /\ rec.pc \in {"rest", "send", "resend"}
  <2>1. CASE rec = Started(chats[q]) BY <1>1, <2>1, RunStarted DEF Good
  <2>2. CASE rec = ReturnChat(chats[q]) BY <1>1, <2>2, Returned DEF Good
  <2> QED BY <1>2, <2>1, <2>2
<1>4. Moves(q, rec) /\ Rows' BY <1>2, GoodRows DEF Moves, StartRun, claimVars, lockVars, Rows
<1> QED BY <1>1, <1>3, <1>4, Advances

\* A request that is sending: what it knows, and that it may return.
LEMMA AtWork ==
  ASSUME Goods, NEW q \in Chat, chats[q].pc \in {"send", "resend", "sleep", "stream"}
  PROVE  /\ Good(chats[q]) /\ chats[q] \in Chats /\ chats[q].on = Nobody
         /\ chats[q].pc # "stream" => chats[q].model \in LLM /\ chats[q].cands # <<>>
<1>1. Good(chats[q]) /\ chats[q] \in Chats BY GoodChat
<1> QED BY <1>1 DEF Goods, ClaimInv, OnlyWaiting, Good, ChatOK

\* The run is finished, and the request returns: with a stale deferred call.
LEMMA ReturnedMarked ==
  ASSUME NEW old, Good(old)
  PROVE  LET rec == ReturnChat(MarkFinished(old)) IN
         Good(rec) /\ rec.on = Nobody /\ rec.pc = "rest"
<1> DEFINE mid == MarkFinished(old)
<1>1. old \in Chats /\ RunOK(old) BY DEF Good, ChatOK
<1>2. mid \in Chats BY <1>1, Marked
<1>3. RunOK(mid)
  <2>1. CASE old.run.active
    <3>1. mid = [old EXCEPT !.run = [active |-> FALSE, known |-> "finished"]]
      BY <1>1, <2>1 DEF MarkFinished, Told, RunOK
    <3>2. mid.run = [active |-> FALSE, known |-> "finished"] BY <1>1, <3>1 DEF Chats
    <3> QED BY <3>2 DEF RunOK
  <2>2. CASE ~old.run.active
    <3>1. mid = old BY <2>2 DEF MarkFinished
    <3> QED BY <1>1, <3>1
  <2> QED BY <2>1, <2>2
<1> HIDE DEF mid
<1>4. ChatOK(ReturnChat(mid)) /\ ReturnChat(mid).on = Nobody /\ ReturnChat(mid).pc = "rest"
      /\ RunOK(ReturnChat(mid))
  BY <1>2, <1>3, Returned
<1> QED BY <1>4 DEF mid, Good

LEMMA AgainKeeps ==
  ASSUME Goods, NEW q \in Chat, NEW answer, SendAgain(q, answer)
  PROVE  Goods'
<1> DEFINE rec == [chats[q] EXCEPT !.pc = "sleep", !.force = FALSE]
<1>1. chats[q].pc \in {"send", "resend"} BY DEF SendAgain, Sending
<1>2. /\ Good(chats[q]) /\ chats[q] \in Chats /\ chats[q].on = Nobody
      /\ chats[q].model \in LLM /\ chats[q].cands # <<>>
  BY <1>1, AtWork
<1>3. chats[q].attempt \in Nat BY <1>2 DEF Chats
<1>4. Within(chats[q].attempt + 1) BY <1>3 DEF SendAgain, Retries, Within
<1>5. rec \in Chats BY <1>2 DEF Chats, ChatPCs
<1>6. /\ rec.pc = "sleep" /\ rec.model = chats[q].model /\ rec.cands = chats[q].cands
      /\ rec.attempt = chats[q].attempt /\ rec.run = chats[q].run /\ rec.on = chats[q].on
  BY <1>2 DEF Chats
<1>7. ChatOK(rec) BY <1>2, <1>4, <1>5, <1>6 DEF ChatOK, Good
<1>8. RunOK(rec) BY <1>2, <1>6 DEF RunOK, Good
<1>9. Moves(q, rec) /\ Rows' BY GoodRows DEF Moves, SendAgain, claimVars, lockVars, Rows
<1> HIDE DEF rec
<1> QED BY <1>1, <1>2, <1>6, <1>7, <1>8, <1>9, Advances DEF Good

LEMMA SleptKeeps ==
  ASSUME Goods, NEW q \in Chat, Slept(q)
  PROVE  Goods'
<1> DEFINE rec == [chats[q] EXCEPT !.pc = "send", !.attempt = @ + 1]
<1>1. chats[q].pc = "sleep" BY DEF Slept
<1>2. /\ Good(chats[q]) /\ chats[q] \in Chats /\ chats[q].on = Nobody
      /\ chats[q].model \in LLM /\ chats[q].cands # <<>>
  BY <1>1, AtWork
<1>3. chats[q].attempt \in Nat /\ Within(chats[q].attempt + 1) BY <1>1, <1>2 DEF Chats, Good, ChatOK
<1>4. rec \in Chats
  <2>1. chats[q].attempt + 1 \in Nat /\ "send" \in ChatPCs BY <1>3 DEF ChatPCs
  <2> QED BY <1>2, <2>1 DEF Chats
<1>5. /\ rec.pc = "send" /\ rec.model = chats[q].model /\ rec.cands = chats[q].cands
      /\ rec.attempt = chats[q].attempt + 1 /\ rec.run = chats[q].run /\ rec.on = chats[q].on
  BY <1>2 DEF Chats
<1>6. ChatOK(rec) BY <1>2, <1>3, <1>4, <1>5 DEF ChatOK
<1>7. RunOK(rec) BY <1>2, <1>5 DEF RunOK, Good
<1>8. Moves(q, rec) /\ Rows' BY GoodRows DEF Moves, Slept, claimVars, lockVars, Rows
<1> HIDE DEF rec
<1> QED BY <1>1, <1>2, <1>5, <1>6, <1>7, <1>8, Advances DEF Good

LEMMA CancelledKeeps ==
  ASSUME Goods, NEW q \in Chat, SleepCancelled(q)
  PROVE  Goods'
<1> DEFINE rec == ReturnChat(chats[q])
<1>1. chats[q].pc = "sleep" BY DEF SleepCancelled
<1>2. Good(chats[q]) /\ chats[q] \in Chats BY <1>1, AtWork
<1>3. Good(rec) /\ rec.on = Nobody /\ rec.pc = "rest" BY <1>2, Returned DEF Good
<1>4. Moves(q, rec) /\ Rows' BY GoodRows DEF Moves, SleepCancelled, claimVars, lockVars, Rows
<1> HIDE DEF rec
<1> QED BY <1>1, <1>3, <1>4, Advances

LEMMA ReclaimKeeps ==
  ASSUME Goods, NEW q \in Chat, Reclaim(q)
  PROVE  Goods'
<1> DEFINE mid == MarkFinished(chats[q])
           rec == [mid EXCEPT !.pc = "ensure", !.force = TRUE]
<1>1. chats[q].pc = "send" BY DEF Reclaim
<1>2. /\ Good(chats[q]) /\ chats[q] \in Chats /\ chats[q].on = Nobody
      /\ chats[q].model \in LLM /\ chats[q].cands # <<>>
  BY <1>1, AtWork
<1>3. /\ mid \in Chats /\ mid.model \in LLM /\ mid.cands # <<>> /\ mid.on = Nobody
      /\ mid.attempt = chats[q].attempt
      /\ mid.run.known \in {"none", "finished"} /\ ~mid.run.active
  BY <1>2, Marked DEF Good
<1>4. Moves(q, rec) /\ Rows' BY GoodRows DEF Moves, Reclaim, claimVars, lockVars, Rows
<1> HIDE DEF mid
<1>5. rec \in Chats BY <1>3 DEF Chats, ChatPCs
<1>6. /\ rec.pc = "ensure" /\ rec.model = mid.model /\ rec.cands = mid.cands
      /\ rec.attempt = mid.attempt /\ rec.run = mid.run /\ rec.on = mid.on
  BY <1>3 DEF Chats
<1>7. ChatOK(rec) BY <1>2, <1>3, <1>5, <1>6 DEF ChatOK, Good
<1>8. RunOK(rec) BY <1>3, <1>6 DEF RunOK
<1> HIDE DEF rec
<1> QED BY <1>1, <1>3, <1>4, <1>6, <1>7, <1>8, Advances DEF Good

LEMMA RefusedKeeps ==
  ASSUME Goods, NEW q \in Chat, NEW answer, Refused(q, answer)
  PROVE  Goods'
<1>1. chats[q].pc \in {"send", "resend"} BY DEF Refused, Sending
<1>2. /\ Good(chats[q]) /\ chats[q] \in Chats /\ chats[q].on = Nobody
      /\ chats[q].model \in LLM /\ chats[q].cands # <<>>
  BY <1>1, AtWork
<1>3. \/ chats' = [chats EXCEPT ![q] = NextCandidate(chats[q])]
      \/ chats' = [chats EXCEPT ![q] = ReturnChat(MarkFinished(chats[q]))]
  BY DEF Refused
<1>4. PICK rec : /\ chats' = [chats EXCEPT ![q] = rec]
                 /\ \/ rec = NextCandidate(chats[q])
                    \/ rec = ReturnChat(MarkFinished(chats[q]))
  BY <1>3, Zenon
<1>5. Good(rec) /\ rec.on = Nobody /\ rec.pc \in {"rest", "pick"}
  <2>1. CASE rec = NextCandidate(chats[q]) BY <1>2, <2>1, MovedOn DEF Good
  <2>2. CASE rec = ReturnChat(MarkFinished(chats[q])) BY <1>2, <2>2, ReturnedMarked
  <2> QED BY <1>4, <2>1, <2>2
<1>6. Moves(q, rec) BY <1>4 DEF Moves, Refused
<1>7. Rows'
  <2>1. CASE LimitPool(q) /\ UNCHANGED sessions BY <1>2, <2>1, GoodRows, LimitTyped DEF Rows
  <2>2. CASE LockAccount(chats[q].model) /\ UNCHANGED sessions
    BY <1>2, <2>2, GoodRows DEF Rows, LockAccount
  <2>3. CASE /\ sessions' = sessions \ {chats[q].model} /\ accountLock' = FALSE
             /\ UNCHANGED <<modelLock, poolLimit>>
    BY <2>3, GoodRows DEF Rows
  <2>4. CASE UNCHANGED <<sessions, lockVars>> BY <2>4, GoodRows DEF Rows, lockVars
  <2> QED BY <2>1, <2>2, <2>3, <2>4 DEF Refused
<1> QED BY <1>1, <1>5, <1>6, <1>7, Advances

LEMMA AnsweredKeeps ==
  ASSUME Goods, NEW q \in Chat, NEW stream \in BOOLEAN, Answered(q, stream)
  PROVE  Goods'
<1>1. chats[q].pc \in {"send", "resend"} BY DEF Answered, Sending
<1>2. /\ Good(chats[q]) /\ chats[q] \in Chats /\ chats[q].on = Nobody
  BY <1>1, AtWork
<1> DEFINE streaming == [Rest(chats[q].run) EXCEPT !.pc = "stream"]
<1>3. PICK rec : /\ chats' = [chats EXCEPT ![q] = rec]
                 /\ rec = streaming \/ rec = ReturnChat(MarkFinished(chats[q]))
  BY Zenon DEF Answered
<1>4. Good(rec) /\ rec.on = Nobody /\ rec.pc \in {"rest", "stream"}
  <2>1. CASE rec = streaming
    <3>1. chats[q].run \in Runs BY <1>2 DEF Chats
    <3>2. rec = [pc |-> "stream", model |-> "none", cands |-> <<>>, force |-> FALSE,
                 attempt |-> 0, on |-> Nobody, gate |-> "none", run |-> chats[q].run]
      BY <2>1 DEF Rest
    <3>3. rec \in Chats BY <3>1, <3>2 DEF Chats, ChatPCs
    <3>4. ChatOK(rec) BY <3>2, <3>3 DEF ChatOK, Within
    <3>5. RunOK(rec) BY <1>2, <3>2 DEF Good, RunOK
    <3> QED BY <3>2, <3>4, <3>5 DEF Good
  <2>2. CASE rec = ReturnChat(MarkFinished(chats[q])) BY <1>2, <2>2, ReturnedMarked
  <2> QED BY <1>3, <2>1, <2>2
<1>5. Moves(q, rec) /\ Rows' BY <1>3, GoodRows DEF Moves, Answered, claimVars, Rows
<1> QED BY <1>1, <1>4, <1>5, Advances

LEMMA StreamOverKeeps ==
  ASSUME Goods, NEW q \in Chat, StreamOver(q)
  PROVE  Goods'
<1> DEFINE rec == ReturnChat(MarkFinished(chats[q]))
<1>1. chats[q].pc = "stream" BY DEF StreamOver
<1>2. Good(chats[q]) BY <1>1, AtWork
<1>3. Good(rec) /\ rec.on = Nobody /\ rec.pc = "rest" BY <1>2, ReturnedMarked
<1>4. Moves(q, rec) /\ Rows' BY GoodRows DEF Moves, StreamOver, claimVars, lockVars, Rows
<1> HIDE DEF rec
<1> QED BY <1>1, <1>3, <1>4, Advances

-----------------------------------------------------------------------------
(* The steps of a claim. *)

LEMMA InflightTyped == Goods => inflight \in [LLM -> Chat \cup {Nobody}] /\ chats \in [Chat -> Chats]
                                /\ overtaken \subseteq Chat
  BY DEF Goods, Typed, FreebuffTypeOK

\* What is left to show of a step that keeps the tables.
LEMMA GoodAgain ==
  ASSUME Rows', inflight' \in [LLM -> Chat \cup {Nobody}], overtaken' \subseteq Chat,
         chats' \in [Chat -> Chats], \A o \in Chat : Good(chats'[o]), ClaimInv'
  PROVE  Goods'
  BY StillTyped DEF Goods, Good, RunInv

LEMMA JoinKeeps ==
  ASSUME Goods, NEW q \in Chat, JoinClaim(q)
  PROVE  Goods'
<1> DEFINE m   == chats[q].model
           on  == inflight[m]
           rec == [chats[q] EXCEPT !.pc = "wait", !.on = on]
<1>1. Good(chats[q]) /\ chats[q] \in Chats /\ chats[q].pc = "ensure" BY GoodChat DEF JoinClaim
<1>2. m \in LLM /\ chats[q].cands # <<>> /\ chats[q].run.known # "open"
  BY <1>1 DEF Good, ChatOK, RunOK
<1>3. on \in Chat /\ Claiming(on, m) BY <1>2, InflightTyped DEF JoinClaim, Goods, ClaimInv, OneClaim
<1>4. chats' = [chats EXCEPT ![q] = rec] BY <1>1 DEF JoinClaim, Chats
<1>5. rec \in Chats BY <1>1, <1>3 DEF Chats, ChatPCs
<1>6. /\ rec.pc = "wait" /\ rec.on = on /\ rec.model = m /\ rec.cands = chats[q].cands
      /\ rec.attempt = chats[q].attempt /\ rec.run = chats[q].run
  BY <1>1 DEF Chats
<1>7. Good(rec) BY <1>1, <1>2, <1>5, <1>6 DEF Good, ChatOK, RunOK
<1> HIDE DEF rec, on, m
<1>8. chats'[q] = rec /\ \A o \in Chat \ {q} : chats'[o] = chats[o] BY <1>4, InflightTyped
<1>9. UNCHANGED <<inflight, overtaken>> /\ Rows'
  BY GoodRows DEF JoinClaim, claimVars, lockVars, Rows
<1>10. \A o \in Chat : Good(chats'[o]) BY <1>7, <1>8, GoodChat
<1>11. \A o \in Chat, n \in LLM : Claiming(o, n)' <=> Claiming(o, n) BY <1>1, <1>6, <1>8 DEF Claiming
<1>12. OnlyWaiting' BY <1>3, <1>6, <1>8 DEF OnlyWaiting, Goods, ClaimInv
<1>13. OneClaim'
  <2>1. OneClaim BY DEF Goods, ClaimInv
  <2>2. ASSUME NEW n \in LLM, NEW o \in Chat, o \notin overtaken', Claiming(o, n)'
        PROVE  inflight'[n] = o
    BY <1>9, <1>11, <2>1, <2>2 DEF OneClaim
  <2>3. ASSUME NEW n \in LLM, inflight'[n] # Nobody PROVE Claiming(inflight[n], n)'
    <3>1. inflight[n] \in Chat /\ Claiming(inflight[n], n)
      BY <1>9, <2>1, <2>3, InflightTyped DEF OneClaim
    <3>2. inflight[n] # q BY <1>1, <3>1 DEF Claiming
    <3> QED BY <1>8, <1>9, <3>1, <3>2 DEF Claiming
  <2>4. ASSUME NEW o \in Chat, chats'[o].pc = "wait" PROVE Claiming(chats[o].on, chats[o].model)'
    <3>1. CASE o = q
      <4>1. on # q BY <1>1, <1>3 DEF Claiming
      <4>2. chats'[on] = chats[on] BY <1>3, <1>8, <4>1
      <4> QED BY <1>3, <1>6, <1>8, <3>1, <4>2 DEF Claiming
    <3>2. CASE o # q
      <4>1. chats'[o] = chats[o] BY <1>8, <3>2
      <4>2. Claiming(chats[o].on, chats[o].model) BY <2>1, <2>4, <4>1 DEF OneClaim
      <4>3. chats[o].on \in Chat
        BY <2>4, <4>1, GoodChat DEF Goods, ClaimInv, OnlyWaiting, Chats
      <4>4. chats[o].on # q BY <1>1, <4>2 DEF Claiming
      <4> QED BY <1>8, <4>1, <4>2, <4>3, <4>4 DEF Claiming
    <3> QED BY <3>1, <3>2
  <2> QED BY <2>2, <2>3, <2>4 DEF OneClaim
<1> QED BY <1>5, <1>4, <1>9, <1>10, <1>12, <1>13, InflightTyped, GoodAgain DEF ClaimInv

LEMMA BeginKeeps ==
  ASSUME Goods, NEW q \in Chat, BeginClaim(q)
  PROVE  Goods'
<1> DEFINE m   == chats[q].model
           rec == [chats[q] EXCEPT !.pc = "claim"]
<1>1. Good(chats[q]) /\ chats[q] \in Chats /\ chats[q].pc = "ensure" /\ chats[q].on = Nobody
  BY GoodChat DEF BeginClaim, Goods, ClaimInv, OnlyWaiting
<1>2. m \in LLM /\ chats[q].cands # <<>> /\ chats[q].run.known # "open"
  BY <1>1 DEF Good, ChatOK, RunOK
<1>3. /\ chats' = [chats EXCEPT ![q] = rec] /\ inflight' = [inflight EXCEPT ![m] = q]
      /\ overtaken' = overtaken \cup {o \in Chat : Claiming(o, m)}
  BY <1>1 DEF BeginClaim, Chats
<1>4. rec \in Chats BY <1>1 DEF Chats, ChatPCs
<1>5. /\ rec.pc = "claim" /\ rec.on = Nobody /\ rec.model = m /\ rec.cands = chats[q].cands
      /\ rec.attempt = chats[q].attempt /\ rec.run = chats[q].run
  BY <1>1 DEF Chats
<1>6. Good(rec) BY <1>1, <1>2, <1>4, <1>5 DEF Good, ChatOK, RunOK
<1>7. Rows' BY GoodRows DEF BeginClaim, lockVars, Rows
<1> HIDE DEF rec, m
<1>8. chats'[q] = rec /\ \A o \in Chat \ {q} : chats'[o] = chats[o] BY <1>3, InflightTyped
<1>9. \A o \in Chat : Good(chats'[o]) BY <1>6, <1>8, GoodChat
<1>10. OnlyWaiting' BY <1>5, <1>8 DEF OnlyWaiting, Goods, ClaimInv
<1>11. OneClaim'
  <2>1. OneClaim BY DEF Goods, ClaimInv
  <2>2. ASSUME NEW n \in LLM, NEW o \in Chat, o \notin overtaken', Claiming(o, n)'
        PROVE  inflight'[n] = o
    <3>1. CASE o = q
      <4>1. n = m BY <1>5, <1>8, <2>2, <3>1 DEF Claiming
      <4> QED BY <1>2, <1>3, <3>1, <4>1, InflightTyped
    <3>2. CASE o # q
      <4>1. Claiming(o, n) BY <1>8, <2>2, <3>2 DEF Claiming
      <4>2. n # m /\ o \notin overtaken BY <1>3, <2>2, <4>1
      <4> QED BY <1>3, <2>1, <4>1, <4>2, InflightTyped DEF OneClaim
    <3> QED BY <3>1, <3>2
  <2>3. ASSUME NEW n \in LLM, inflight'[n] # Nobody PROVE Claiming(inflight[n], n)'
    <3>1. CASE n = m
      <4>1. inflight'[n] = q BY <1>2, <1>3, <3>1, InflightTyped
      <4> QED BY <1>5, <1>8, <3>1, <4>1 DEF Claiming
    <3>2. CASE n # m
      <4>1. inflight'[n] = inflight[n] BY <1>3, <3>2, InflightTyped
      <4>2. inflight[n] \in Chat /\ Claiming(inflight[n], n)
        BY <2>1, <2>3, <4>1, InflightTyped DEF OneClaim
      <4>3. inflight[n] # q BY <1>1, <4>2 DEF Claiming
      <4> QED BY <1>8, <4>1, <4>2, <4>3 DEF Claiming
    <3> QED BY <3>1, <3>2
  <2>4. ASSUME NEW o \in Chat, chats'[o].pc = "wait" PROVE Claiming(chats[o].on, chats[o].model)'
    <3>1. o # q /\ chats'[o] = chats[o] BY <1>5, <1>8, <2>4
    <3>2. Claiming(chats[o].on, chats[o].model) BY <2>1, <2>4, <3>1 DEF OneClaim
    <3>3. chats[o].on \in Chat
      BY <2>4, <3>1, GoodChat DEF Goods, ClaimInv, OnlyWaiting, Chats
    <3>4. chats[o].on # q BY <1>1, <3>2 DEF Claiming
    <3> QED BY <1>8, <3>1, <3>2, <3>3, <3>4 DEF Claiming
  <2> QED BY <2>2, <2>3, <2>4 DEF OneClaim
<1>12. inflight' \in [LLM -> Chat \cup {Nobody}] /\ overtaken' \subseteq Chat
       /\ chats' \in [Chat -> Chats]
  BY <1>3, <1>4, InflightTyped
<1> QED BY <1>7, <1>9, <1>10, <1>11, <1>12, GoodAgain DEF ClaimInv

LEMMA ClaimedKeeps ==
  ASSUME Goods, NEW q \in Chat, NEW answer \in ClaimAnswers, Claimed(q, answer)
  PROVE  Goods'
<1> DEFINE rec == [chats[q] EXCEPT !.pc = "announce", !.gate = answer]
<1>1. Good(chats[q]) /\ chats[q] \in Chats /\ chats[q].pc = "claim" /\ chats[q].on = Nobody
  BY GoodChat DEF Claimed, Goods, ClaimInv, OnlyWaiting
<1>2. chats[q].model \in LLM /\ chats[q].cands # <<>> /\ chats[q].run.known # "open"
  BY <1>1 DEF Good, ChatOK, RunOK
<1>3. chats' = [chats EXCEPT ![q] = rec] /\ UNCHANGED <<inflight, overtaken, lockVars>>
  BY DEF Claimed
<1>4. rec \in Chats BY <1>1 DEF Chats, ChatPCs
<1>5. /\ rec.pc = "announce" /\ rec.on = Nobody /\ rec.model = chats[q].model
      /\ rec.cands = chats[q].cands /\ rec.gate = answer
      /\ rec.attempt = chats[q].attempt /\ rec.run = chats[q].run
  BY <1>1 DEF Chats
<1>6. Good(rec) BY <1>1, <1>2, <1>4, <1>5 DEF Good, ChatOK, RunOK
<1>7. Rows' BY <1>2, <1>3, GoodRows DEF Claimed, lockVars, Rows
<1> HIDE DEF rec
<1>8. chats'[q] = rec /\ \A o \in Chat \ {q} : chats'[o] = chats[o] BY <1>3, InflightTyped
<1>9. \A o \in Chat : Good(chats'[o]) BY <1>6, <1>8, GoodChat
<1>10. OnlyWaiting' BY <1>5, <1>8 DEF OnlyWaiting, Goods, ClaimInv
<1>11. \A o \in Chat, n \in LLM : Claiming(o, n)' <=> Claiming(o, n)
  BY <1>1, <1>5, <1>8 DEF Claiming
<1>12. OneClaim'
  <2>1. OneClaim BY DEF Goods, ClaimInv
  <2>2. ASSUME NEW n \in LLM, NEW o \in Chat, o \notin overtaken', Claiming(o, n)'
        PROVE  inflight'[n] = o
    BY <1>3, <1>11, <2>1, <2>2 DEF OneClaim
  <2>3. ASSUME NEW n \in LLM, inflight'[n] # Nobody PROVE Claiming(inflight[n], n)'
    <3>1. inflight[n] \in Chat /\ Claiming(inflight[n], n)
      BY <1>3, <2>1, <2>3, InflightTyped DEF OneClaim
    <3> QED BY <1>1, <1>3, <1>5, <1>8, <3>1 DEF Claiming
  <2>4. ASSUME NEW o \in Chat, chats'[o].pc = "wait" PROVE Claiming(chats[o].on, chats[o].model)'
    <3>1. o # q /\ chats'[o] = chats[o] BY <1>5, <1>8, <2>4
    <3>2. Claiming(chats[o].on, chats[o].model) BY <2>1, <2>4, <3>1 DEF OneClaim
    <3>3. chats[o].on \in Chat
      BY <2>4, <3>1, GoodChat DEF Goods, ClaimInv, OnlyWaiting, Chats
    <3> QED BY <1>1, <1>5, <1>8, <3>1, <3>2, <3>3 DEF Claiming
  <2> QED BY <2>2, <2>3, <2>4 DEF OneClaim
<1>13. inflight' \in [LLM -> Chat \cup {Nobody}] /\ overtaken' \subseteq Chat
       /\ chats' \in [Chat -> Chats]
  BY <1>3, <1>4, InflightTyped
<1> QED BY <1>7, <1>9, <1>10, <1>12, <1>13, GoodAgain DEF ClaimInv

LEMMA AnnounceKeeps ==
  ASSUME Goods, NEW q \in Chat, Announce(q)
  PROVE  Goods'
<1> DEFINE m      == chats[q].model
           gate   == chats[q].gate
           Hears(o) == o = q \/ chats[o].on = q
           Heard(o) == [chats[o] EXCEPT !.pc = "answered", !.on = Nobody, !.gate = gate]
<1>1. Good(chats[q]) /\ chats[q] \in Chats /\ chats[q].pc = "announce" /\ chats[q].on = Nobody
  BY GoodChat DEF Announce, Goods, ClaimInv, OnlyWaiting
<1>2. m \in LLM /\ gate \in ClaimAnswers BY <1>1 DEF Good, ChatOK
<1>3. /\ inflight' = IF inflight[m] = q THEN [inflight EXCEPT ![m] = Nobody] ELSE inflight
      /\ overtaken' = overtaken \ {q}
      /\ UNCHANGED <<sessions, lockVars>>
  BY DEF Announce
<1>4. \A o \in Chat : chats'[o] = IF Hears(o) THEN Heard(o) ELSE chats[o]
  BY DEF Announce, Announced
<1>5. \A o \in Chat : Hears(o) => chats[o].pc \in {"wait", "announce"}
  BY <1>1 DEF Goods, ClaimInv, OnlyWaiting
<1>6. ASSUME NEW o \in Chat, Hears(o)
      PROVE  /\ Good(Heard(o)) /\ Heard(o) \in Chats
             /\ Heard(o).pc = "answered" /\ Heard(o).on = Nobody
  <2>1. Good(chats[o]) /\ chats[o] \in Chats /\ chats[o].pc \in {"wait", "announce"}
    BY <1>5, <1>6, GoodChat
  <2>2. Heard(o) \in Chats BY <1>2, <2>1 DEF Chats, ChatPCs
  <2>3. /\ Heard(o).pc = "answered" /\ Heard(o).on = Nobody /\ Heard(o).model = chats[o].model
        /\ Heard(o).cands = chats[o].cands /\ Heard(o).attempt = chats[o].attempt
        /\ Heard(o).run = chats[o].run
    BY <2>1 DEF Chats
  <2>4. ChatOK(Heard(o)) BY <2>1, <2>2, <2>3 DEF Good, ChatOK
  <2>5. RunOK(Heard(o)) BY <2>1, <2>3 DEF Good, RunOK
  <2> QED BY <2>2, <2>3, <2>4, <2>5 DEF Good
<1>7. Rows' BY <1>3, GoodRows DEF lockVars, Rows
<1>8. \A o \in Chat : Good(chats'[o]) /\ chats'[o] \in Chats BY <1>4, <1>6, GoodChat
<1>9. chats' \in [Chat -> Chats] BY <1>8 DEF Announce, Announced
<1>10. \A o \in Chat : Hears(o) => chats'[o].pc = "answered" /\ chats'[o].on = Nobody BY <1>4, <1>6
<1>11. \A o \in Chat : ~Hears(o) => chats'[o] = chats[o] BY <1>4
<1>12. Hears(q) OBVIOUS
<1> HIDE DEF Heard, gate, m
<1>13. OnlyWaiting' BY <1>10, <1>11 DEF OnlyWaiting, Goods, ClaimInv
<1>14. OneClaim'
  <2>1. OneClaim /\ OnlyWaiting BY DEF Goods, ClaimInv
  <2>2. ASSUME NEW n \in LLM, NEW o \in Chat, o \notin overtaken', Claiming(o, n)'
        PROVE  inflight'[n] = o
    <3>1. ~Hears(o) BY <1>10, <2>2 DEF Claiming
    <3>2. o # q /\ chats'[o] = chats[o] BY <1>11, <1>12, <3>1
    <3>3. Claiming(o, n) /\ o \notin overtaken BY <1>3, <2>2, <3>2 DEF Claiming
    <3>4. inflight[n] = o BY <2>1, <3>3 DEF OneClaim
    <3> QED BY <1>3, <3>2, <3>4, InflightTyped
  <2>3. ASSUME NEW n \in LLM, inflight'[n] # Nobody PROVE Claiming(inflight[n], n)'
    <3>1. inflight'[n] = inflight[n] /\ (n = m => inflight[n] # q)
      BY <1>2, <1>3, <2>3, InflightTyped
    <3>2. inflight[n] \in Chat /\ Claiming(inflight[n], n)
      BY <2>1, <2>3, <3>1, InflightTyped DEF OneClaim
    <3>3. inflight[n] # q BY <3>1, <3>2 DEF Claiming, m
    <3>4. ~Hears(inflight[n]) BY <2>1, <3>2, <3>3 DEF OnlyWaiting, Claiming
    <3> QED BY <1>11, <3>1, <3>2, <3>4 DEF Claiming
  <2>4. ASSUME NEW o \in Chat, chats'[o].pc = "wait" PROVE Claiming(chats[o].on, chats[o].model)'
    <3>1. ~Hears(o) /\ chats'[o] = chats[o] BY <1>10, <1>11, <2>4
    <3>2. Claiming(chats[o].on, chats[o].model) BY <2>1, <2>4, <3>1 DEF OneClaim
    <3>3. chats[o].on \in Chat /\ chats[o].on # q
      BY <2>1, <2>4, <3>1, GoodChat DEF OnlyWaiting, Chats
    <3>4. ~Hears(chats[o].on)
      BY <2>1, <3>2, <3>3 DEF OnlyWaiting, Claiming
    <3> QED BY <1>11, <3>1, <3>2, <3>3, <3>4 DEF Claiming
  <2> QED BY <2>2, <2>3, <2>4 DEF OneClaim
<1>15. inflight' \in [LLM -> Chat \cup {Nobody}] /\ overtaken' \subseteq Chat
  BY <1>3, InflightTyped
<1> QED BY <1>7, <1>8, <1>9, <1>13, <1>14, <1>15, GoodAgain DEF ClaimInv

LEMMA PruneKeeps ==
  ASSUME Goods, Prune
  PROVE  Goods'
<1>1. UNCHANGED <<inflight, overtaken, chats>> BY DEF Prune
<1>2. Rows' BY GoodRows DEF Prune, Rows, lockVars
<1>3. ClaimInv' BY <1>1 DEF Goods, ClaimInv, OneClaim, OnlyWaiting, Claiming
<1>4. \A o \in Chat : Good(chats'[o]) BY <1>1, GoodChat
<1> QED BY <1>1, <1>2, <1>3, <1>4, InflightTyped, GoodAgain

-----------------------------------------------------------------------------
LEMMA InitGood == FreebuffInit => Goods
<1> SUFFICES ASSUME FreebuffInit PROVE Goods OBVIOUS
<1>1. \A q \in Chat : chats[q] = Rest(NoRun) BY DEF FreebuffInit
<1>2. ChatOK(Rest(NoRun)) /\ Rest(NoRun).on = Nobody BY RunTyped, RestOK
<1>3. Rest(NoRun).pc = "rest" /\ Rest(NoRun).run = NoRun BY DEF Rest
<1>4. RunOK(Rest(NoRun)) BY <1>3, RunTyped DEF RunOK
<1>5. chats \in [Chat -> Chats] BY <1>2 DEF FreebuffInit, ChatOK
<1>6. Typed BY <1>1, <1>2, <1>5 DEF Typed, FreebuffTypeOK, FreebuffInit, ChatOK, Within
<1>7. RunInv BY <1>1, <1>4 DEF RunInv
<1>8. ClaimInv BY <1>1, <1>2, <1>3 DEF ClaimInv, OneClaim, OnlyWaiting, Claiming, FreebuffInit
<1> QED BY <1>6, <1>7, <1>8 DEF Goods

LEMMA NextGood == Goods /\ [FreebuffNext]_freebuffVars => Goods'
<1> SUFFICES ASSUME Goods, [FreebuffNext]_freebuffVars PROVE Goods' OBVIOUS
<1>1. ASSUME NEW q \in Chat, ChatStep(q) PROVE Goods'
  <2>1. CASE \E m \in LLM, cands \in Candidates : Run(q, m, cands) BY <2>1, RunKeeps
  <2>2. CASE PickCandidate(q) BY <2>2, PickKeeps
  <2>3. CASE SessionCached(q) BY <2>3, CachedKeeps
  <2>4. CASE JoinClaim(q) BY <2>4, JoinKeeps
  <2>5. CASE BeginClaim(q) BY <2>5, BeginKeeps
  <2>6. CASE \E answer \in ClaimAnswers : Claimed(q, answer) BY <2>6, ClaimedKeeps
  <2>7. CASE Announce(q) BY <2>7, AnnounceKeeps
  <2>8. CASE GotSession(q) BY <2>8, GotKeeps
  <2>9. CASE StartRun(q) BY <2>9, StartKeeps
  <2>10. CASE \E answer \in ChatAnswers : SendAgain(q, answer) \/ Refused(q, answer)
    BY <2>10, AgainKeeps, RefusedKeeps
  <2>11. CASE Slept(q) BY <2>11, SleptKeeps
  <2>12. CASE SleepCancelled(q) BY <2>12, CancelledKeeps
  <2>13. CASE Reclaim(q) BY <2>13, ReclaimKeeps
  <2>14. CASE \E stream \in BOOLEAN : Answered(q, stream) BY <2>14, AnsweredKeeps
  <2>15. CASE StreamOver(q) BY <2>15, StreamOverKeeps
  <2> QED BY <1>1, <2>1, <2>2, <2>3, <2>4, <2>5, <2>6, <2>7, <2>8, <2>9, <2>10, <2>11, <2>12,
             <2>13, <2>14, <2>15 DEF ChatStep
<1>2. CASE Prune BY <1>2, PruneKeeps
<1>3. CASE UNCHANGED freebuffVars
  <2>1. UNCHANGED <<sessions, inflight, accountLock, modelLock, poolLimit, chats, overtaken>>
    BY <1>3 DEF freebuffVars
  <2>2. Rows' BY <2>1, GoodRows DEF Rows
  <2>3. ClaimInv' BY <2>1 DEF Goods, ClaimInv, OneClaim, OnlyWaiting, Claiming
  <2>4. \A o \in Chat : Good(chats'[o]) BY <2>1, GoodChat
  <2> QED BY <2>1, <2>2, <2>3, <2>4, InflightTyped, GoodAgain
<1> QED BY <1>1, <1>2, <1>3 DEF FreebuffNext

LEMMA StaysGood == FreebuffSpec => []Goods
  BY InitGood, NextGood, PTL DEF FreebuffSpec

\* Freebuff is type correct, and retries within its table, for every set of
\* requests, models, proxy candidates and limits.
THEOREM TypeCorrect == FreebuffSpec => []FreebuffTypeOK
<1>1. Goods => FreebuffTypeOK BY DEF Goods, Typed
<1> QED BY <1>1, StaysGood, PTL

\* For any number of requests, one claim per model is under way that none has
\* taken the place of, and whoever waits waits for one under way.
THEOREM ClaimsOnce == FreebuffSpec => []OneClaim
<1>1. Goods => OneClaim BY DEF Goods, ClaimInv
<1> QED BY <1>1, StaysGood, PTL

\* For any number of requests, of each run upstream is told once that it is over.
THEOREM RunsAreFinished == FreebuffSpec => []RunsFinished
<1>1. Goods => RunsFinished BY DEF Goods, RunInv, RunOK, RunsFinished
<1> QED BY <1>1, StaysGood, PTL
=============================================================================
