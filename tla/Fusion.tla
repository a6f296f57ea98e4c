------------------------------- MODULE Fusion -------------------------------
(***************************************************************************)
(* A fusion request: every step of the combo is asked at once, each by a   *)
(* goroutine of a panel that hands its result to the request over a        *)
(* channel; when enough have answered, those that are late get some grace; *)
(* then a judge makes one answer of those received.  A request that stops  *)
(* reading leaves the late goroutines to themselves.                       *)
(*                                                                         *)
(* One context limits the panel, and the judge too unless its answer is    *)
(* streamed; one timer of the same length, started after it, limits the    *)
(* collection.                                                             *)
(***************************************************************************)
EXTENDS Naturals, Sequences, FiniteSets

CONSTANTS Panel,     \* the steps of the combo, one goroutine each
          MinPanel   \* min_panel, once validated

ASSUME FusionAssumption ==
  /\ IsFiniteSet(Panel)
  /\ MinPanel \in 1..Cardinality(Panel)

VARIABLES
  panel,      \* what each goroutine is doing
  resultsCh,  \* the results handed over and not received
  closed,     \* is resultsCh closed?
  ctx,        \* has the panel's context not run out?
  timer,      \* hardTimeout: running, fired, or received from
  grace,      \* the timer of the stragglers
  fusion,     \* where the request is
  successes,  \* panels whose answers it has received
  failures,   \* how many failures it has received
  streams,    \* does the client want a stream?
  reply       \* what the client got

fusionVars == <<panel, resultsCh, closed, ctx, timer, grace, fusion, successes, failures,
                streams, reply>>

answerVars == <<fusion, reply, streams>>
timerVars  == <<ctx, timer, grace>>
countVars  == <<successes, failures>>

PanelSize == Cardinality(Panel)
PanelAnswers == {"ok", "err"}
Timers == {"off", "running", "fired", "seen"}

-----------------------------------------------------------------------------
(* The panel. *)

\* No connection, an upstream that answers in time, or one that does not: a call
\* ends with its context.
Called(p, answer) ==
  /\ panel[p] = "calling"
  /\ panel' = [panel EXCEPT ![p] = answer]
  /\ UNCHANGED <<resultsCh, closed, timerVars, answerVars, countVars>>

\* Fault: the channel holds as many results as are waited for.
HandOverBounded(p) ==
  /\ panel[p] \in PanelAnswers
  /\ Len(resultsCh) < MinPanel
  /\ resultsCh' = Append(resultsCh, [from |-> p, answer |-> panel[p]])
  /\ panel' = [panel EXCEPT ![p] = "done"]
  /\ UNCHANGED <<closed, timerVars, answerVars, countVars>>

HandOver(p) ==
  /\ panel[p] \in PanelAnswers
  /\ Len(resultsCh) < PanelSize
  /\ resultsCh' = Append(resultsCh, [from |-> p, answer |-> panel[p]])
  /\ panel' = [panel EXCEPT ![p] = "done"]
  /\ UNCHANGED <<closed, timerVars, answerVars, countVars>>

\* The goroutine that waits for all of them.
CloseResults ==
  /\ ~closed
  /\ \A p \in Panel : panel[p] = "done"
  /\ closed' = TRUE
  /\ UNCHANGED <<panel, resultsCh, timerVars, answerVars, countVars>>

-----------------------------------------------------------------------------
(* Time: the context is older than the timer, and grace the shorter one. *)

ContextOver ==
  /\ ctx
  /\ ctx' = FALSE
  /\ UNCHANGED <<panel, resultsCh, closed, timer, grace, answerVars, countVars>>

TimerFires ==
  /\ ~ctx
  /\ timer = "running"
  /\ timer' = "fired"
  /\ UNCHANGED <<panel, resultsCh, closed, ctx, grace, answerVars, countVars>>

GraceFires ==
  /\ grace = "running"
  /\ grace' = "fired"
  /\ UNCHANGED <<panel, resultsCh, closed, ctx, timer, answerVars, countVars>>

-----------------------------------------------------------------------------
(* The request.  What its selects find ready they take in any order. *)

Enough == Cardinality(successes) >= MinPanel
AllReported == Cardinality(successes) + failures >= PanelSize

ReceiveResult ==
  /\ resultsCh # <<>>
  /\ resultsCh' = Tail(resultsCh)
  /\ LET r == Head(resultsCh) IN
     IF r.answer = "ok"
     THEN successes' = successes \cup {r.from} /\ UNCHANGED failures
     ELSE failures' = failures + 1 /\ UNCHANGED successes
  /\ UNCHANGED <<panel, closed, timerVars, answerVars>>

Collecting == fusion = "collect" /\ ~Enough /\ ~AllReported

StopWaiting(why) ==
  \/ why = "closed" /\ closed /\ resultsCh = <<>> /\ UNCHANGED timer
  \/ why = "timeout" /\ timer = "fired" /\ timer' = "seen"

CollectResult == Collecting /\ ReceiveResult

\* Nobody is waited for any more: all have reported, or time is up.
StopCollecting ==
  /\ \/ Collecting /\ \E why \in {"closed", "timeout"} : StopWaiting(why)
     \/ fusion = "collect" /\ ~Enough /\ AllReported /\ UNCHANGED timer
  /\ fusion' = "answer"
  /\ UNCHANGED <<panel, resultsCh, closed, ctx, grace, countVars, reply, streams>>

\* Fault: one answer is enough.
StartGraceEarly ==
  /\ fusion = "collect"
  /\ successes # {}
  /\ fusion' = "grace"
  /\ grace' = "running"
  /\ UNCHANGED <<panel, resultsCh, closed, ctx, timer, countVars, reply, streams>>

StartGrace ==
  /\ fusion = "collect"
  /\ Enough
  /\ fusion' = "grace"
  /\ grace' = "running"
  /\ UNCHANGED <<panel, resultsCh, closed, ctx, timer, countVars, reply, streams>>

\* In the grace loop the number of answers is looked at after a receive only.
CollectStraggler ==
  /\ fusion = "grace"
  /\ resultsCh # <<>>
  /\ resultsCh' = Tail(resultsCh)
  /\ LET r == Head(resultsCh) IN
     successes' = IF r.answer = "ok" THEN successes \cup {r.from} ELSE successes
  /\ IF Cardinality(successes') >= PanelSize
     THEN fusion' = "answer" /\ grace' = "off"
     ELSE UNCHANGED <<fusion, grace>>
  /\ UNCHANGED <<panel, closed, ctx, timer, failures, reply, streams>>

StopGrace ==
  /\ fusion = "grace"
  /\ \/ \E why \in {"closed", "timeout"} : StopWaiting(why)
     \/ grace = "fired" /\ UNCHANGED timer
  /\ fusion' = "answer"
  /\ grace' = "off"
  /\ UNCHANGED <<panel, resultsCh, closed, ctx, countVars, reply, streams>>

\* None: an error.  One: that model is asked again for the client, its answer
\* standing in if that fails.  More: the judge is asked, the first answer
\* standing in.  A call that is not streamed runs in the panel's context.
Conclude ==
  /\ fusion = "answer"
  /\ reply' \in CASE successes = {} -> {"failed"}
                  [] successes # {} -> {"panel"} \cup (IF ctx \/ streams THEN {"asked"} ELSE {})
  /\ fusion' = "replied"
  /\ UNCHANGED <<panel, resultsCh, closed, timerVars, countVars, streams>>

-----------------------------------------------------------------------------
FusionInit ==
  /\ panel = [p \in Panel |-> "done"]
  /\ resultsCh = <<>>
  /\ closed = TRUE
  /\ ctx = TRUE
  /\ timer = "off"
  /\ grace = "off"
  /\ fusion = "replied"
  /\ successes = {}
  /\ failures = 0
  /\ streams = FALSE
  /\ reply = "none"

\* The next request: everything is made anew.
Launch ==
  /\ fusion = "replied"
  /\ closed
  /\ panel' = [p \in Panel |-> "calling"]
  /\ resultsCh' = <<>>
  /\ closed' = FALSE
  /\ ctx' = TRUE
  /\ timer' = "running"
  /\ grace' = "off"
  /\ fusion' = "collect"
  /\ successes' = {}
  /\ failures' = 0
  /\ streams' \in BOOLEAN
  /\ reply' = "none"

Overdue(p) == ~ctx /\ \E answer \in PanelAnswers : Called(p, answer)

Goroutine(p) == (\E answer \in PanelAnswers : Called(p, answer)) \/ HandOver(p)

Conduct ==
  \/ CollectResult
  \/ StopCollecting
  \/ StartGrace
  \/ CollectStraggler
  \/ StopGrace
  \/ Conclude

Clock == ContextOver \/ TimerFires \/ GraceFires

FusionNext == Launch \/ (\E p \in Panel : Goroutine(p)) \/ CloseResults \/ Clock \/ Conduct

FusionSpec == FusionInit /\ [][FusionNext]_fusionVars

\* The request and the panel are scheduled, time passes, and a call ends once its
\* context has; nothing else is promised of upstream.
FusionFairSpec ==
  /\ FusionSpec
  /\ WF_fusionVars(Conduct)
  /\ WF_fusionVars(ContextOver)
  /\ WF_fusionVars(TimerFires)
  /\ \A p \in Panel : WF_fusionVars(HandOver(p))
  /\ \A p \in Panel : WF_fusionVars(Overdue(p))

-----------------------------------------------------------------------------
(* Properties. *)

\* Panels, results and timers are of the type the code gives them.
FusionTypeOK ==
  /\ panel \in [Panel -> {"calling", "done"} \cup PanelAnswers]
  /\ resultsCh \in Seq([from: Panel, answer: PanelAnswers]) /\ Len(resultsCh) <= PanelSize
  /\ closed \in BOOLEAN
  /\ ctx \in BOOLEAN
  /\ timer \in Timers
  /\ grace \in Timers
  /\ fusion \in {"collect", "grace", "answer", "replied"}
  /\ successes \subseteq Panel
  /\ failures \in 0..PanelSize
  /\ streams \in BOOLEAN
  /\ reply \in {"none", "failed", "panel", "asked"}

\* Fewer answers than min_panel are made do with only when no more can come or
\* the timeout is over, and the client gets an error only when every panel has
\* failed or the timeout was over first.
QuorumOrTimeout ==
  /\ fusion # "collect" => \/ Enough
                           \/ timer = "seen"
                           \/ resultsCh = <<>> /\ \A p \in Panel : panel[p] = "done"
  /\ reply = "failed" => timer = "seen" \/ failures = PanelSize

\* Whoever is late, the request is answered, and no goroutine stays behind with
\* a result that nobody reads.
FusionEnds == fusion = "collect" ~> fusion = "replied" /\ \A p \in Panel : panel[p] = "done"
=============================================================================
