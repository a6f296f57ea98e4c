----------------------------- MODULE Eligibility -----------------------------
(***************************************************************************)
(* The eligibility snapshot the router reads without a lock, and the       *)
(* rebuilds that keep it in step with the store.  Handlers, administration *)
(* and schedulers call for a rebuild after they have changed a             *)
(* connection's health; a token refresh, a pick that heals and a cooldown  *)
(* that runs out change it and call for none.  Calls within a window of    *)
(* the last rebuild collapse into one that runs when the window is over.   *)
(* A rebuild reads the store connection by connection, publishes what it   *)
(* found per provider, and assembles the snapshot from what all providers  *)
(* have published - no lock is held during any of it.                      *)
(*                                                                         *)
(* Of a snapshot only its members matter here; the order within a          *)
(* provider, by remaining quota and last use, is left out.                 *)
(***************************************************************************)
EXTENDS Naturals

CONSTANTS Provider, Conn,
          ProviderOf,   \* connection -> provider
          All,          \* the key of rebuilds that cover every provider
          Rebuilder,    \* goroutines that may be rebuilding at once
          Calls,        \* how the changers of a status call for a rebuild
          MaxOwed,      \* bound on calls not made yet
          Prompt        \* is a rebuild over before its window is?

ASSUME EligibilityAssumption ==
  /\ ProviderOf \in [Conn -> Provider]
  /\ All \notin Provider
  /\ Calls \subseteq {"provider", "all", "now"}
  /\ MaxOwed \in Nat \ {0}
  /\ Prompt \in BOOLEAN

VARIABLES
  eligible,   \* connections the store says are ready and out of cooldown
  silent,     \* connections changed without a call, and no rebuild begun since (history)
  uncalled,   \* calls for a rebuild that follow a change already made
  scheduled,  \* updateScheduled and providerUpdateScheduled
  recent,     \* is the last rebuild of this key less than a window ago?
  sleepers,   \* goroutines waiting out the window
  published,  \* byProvider: what each provider last published
  snapshot,   \* the aggregate the router reads
  work        \* what each rebuilder is doing

eligVars == <<eligible, silent, uncalled, scheduled, recent, sleepers, published, snapshot, work>>

Key == Provider \cup {All}
Covered(k) == IF k = All THEN Provider ELSE {k}
ConnsOf(p) == {c \in Conn : ProviderOf[c] = p}

\* What there is to do: connections to read, then providers to publish, then
\* providers to collect.
Resting == [pc |-> "rest", key |-> All, todo |-> {}, found |-> {}]

Phases == {"rest", "scan", "publish", "collect"}

RebuilderStates == [pc: Phases, key: Key, todo: SUBSET (Conn \cup Provider), found: SUBSET Conn]

Scanning(k) ==
  [pc |-> "scan", key |-> k, todo |-> {c \in Conn : ProviderOf[c] \in Covered(k)}, found |-> {}]

Start(k) ==
  /\ \E w \in Rebuilder : work[w].pc = "rest" /\ work' = [work EXCEPT ![w] = Scanning(k)]
  /\ silent' = {c \in silent : ProviderOf[c] \notin Covered(k)}

-----------------------------------------------------------------------------
(* Changes and the calls that follow them. *)

\* Who calls for a rebuild does so whether or not the store says otherwise now.
Change(c) ==
  /\ uncalled[ProviderOf[c]] < MaxOwed
  /\ eligible' \in {eligible \ {c}, eligible \cup {c}}
  /\ uncalled' = [uncalled EXCEPT ![ProviderOf[c]] = @ + 1]
  /\ UNCHANGED <<silent, scheduled, recent, sleepers, published, snapshot, work>>

\* TokenRefreshScheduler.persist, the healing in a pick, the end of a cooldown.
ChangeSilently(c) ==
  /\ eligible' = IF c \in eligible THEN eligible \ {c} ELSE eligible \cup {c}
  /\ silent' = silent \cup {c}
  /\ UNCHANGED <<uncalled, scheduled, recent, sleepers, published, snapshot, work>>

\* Fault: every call within the window gets a goroutine of its own.
ScheduleEach(k) ==
  \/ /\ ~recent[k]
     /\ recent' = [recent EXCEPT ![k] = TRUE]
     /\ Start(k)
     /\ UNCHANGED <<scheduled, sleepers>>
  \/ /\ recent[k]
     /\ scheduled' = [scheduled EXCEPT ![k] = TRUE]
     /\ sleepers' = [sleepers EXCEPT ![k] = @ + 1]
     /\ UNCHANGED <<silent, recent, work>>

\* ScheduleUpdate and ScheduleUpdateProvider, under updateMu: somebody waits
\* already, or the window is over, or a goroutine waits for it to be over.
Schedule(k) ==
  \/ /\ scheduled[k]
     /\ UNCHANGED <<silent, scheduled, recent, sleepers, work>>
  \/ /\ ~scheduled[k] /\ ~recent[k]
     /\ recent' = [recent EXCEPT ![k] = TRUE]
     /\ Start(k)
     /\ UNCHANGED <<scheduled, sleepers>>
  \/ /\ ~scheduled[k] /\ recent[k]
     /\ scheduled' = [scheduled EXCEPT ![k] = TRUE]
     /\ sleepers' = [sleepers EXCEPT ![k] = @ + 1]
     /\ UNCHANGED <<silent, recent, work>>

Call(p) ==
  /\ uncalled[p] > 0
  /\ uncalled' = [uncalled EXCEPT ![p] = @ - 1]
  /\ \/ "provider" \in Calls /\ Schedule(p)
     \/ "all" \in Calls /\ Schedule(All)
     \/ "now" \in Calls /\ Start(All) /\ UNCHANGED <<scheduled, recent, sleepers>>
  /\ UNCHANGED <<eligible, published, snapshot>>

WindowOver(k) ==
  /\ recent[k]
  /\ Prompt => \A w \in Rebuilder : work[w].pc # "rest" => work[w].key # k
  /\ recent' = [recent EXCEPT ![k] = FALSE]
  /\ UNCHANGED <<eligible, silent, uncalled, scheduled, sleepers, published, snapshot, work>>

\* Fault: the pending flag stays up.
WakeFlagged(k) ==
  /\ sleepers[k] > 0
  /\ ~recent[k]
  /\ sleepers' = [sleepers EXCEPT ![k] = @ - 1]
  /\ recent' = [recent EXCEPT ![k] = TRUE]
  /\ Start(k)
  /\ UNCHANGED <<eligible, uncalled, scheduled, published, snapshot>>

\* The pending flag falls before the rebuild starts to read the store.
Wake(k) ==
  /\ sleepers[k] > 0
  /\ ~recent[k]
  /\ sleepers' = [sleepers EXCEPT ![k] = @ - 1]
  /\ scheduled' = [scheduled EXCEPT ![k] = FALSE]
  /\ recent' = [recent EXCEPT ![k] = TRUE]
  /\ Start(k)
  /\ UNCHANGED <<eligible, uncalled, published, snapshot>>

-----------------------------------------------------------------------------
(* Update and UpdateProvider, step by step. *)

Scan(w, c) ==
  /\ work[w].pc = "scan"
  /\ c \in work[w].todo
  /\ work' = [work EXCEPT ![w].todo = @ \ {c},
                          ![w].found = IF c \in eligible THEN @ \cup {c} ELSE @]
  /\ UNCHANGED <<eligible, silent, uncalled, scheduled, recent, sleepers, published, snapshot>>

Scanned(w) ==
  /\ work[w].pc = "scan"
  /\ work[w].todo = {}
  /\ work' = [work EXCEPT ![w].pc = "publish", ![w].todo = Covered(work[w].key)]
  /\ UNCHANGED <<eligible, silent, uncalled, scheduled, recent, sleepers, published, snapshot>>

\* Fault: a provider without eligible connections keeps what it published.
PublishEligible(w, p) ==
  LET found == work[w].found \cap ConnsOf(p) IN
  /\ work[w].pc = "publish"
  /\ p \in work[w].todo
  /\ published' = IF found = {} THEN published ELSE [published EXCEPT ![p] = found]
  /\ work' = [work EXCEPT ![w].todo = @ \ {p}]
  /\ UNCHANGED <<eligible, silent, uncalled, scheduled, recent, sleepers, snapshot>>

\* Providers with eligible connections come first; those without are stale,
\* and are deleted.
Publish(w, p) ==
  LET found(q) == work[w].found \cap ConnsOf(q) IN
  /\ work[w].pc = "publish"
  /\ p \in work[w].todo
  /\ found(p) = {} => \A q \in work[w].todo : found(q) = {}
  /\ published' = [published EXCEPT ![p] = found(p)]
  /\ work' = [work EXCEPT ![w].todo = @ \ {p}]
  /\ UNCHANGED <<eligible, silent, uncalled, scheduled, recent, sleepers, snapshot>>

Published(w) ==
  /\ work[w].pc = "publish"
  /\ work[w].todo = {}
  /\ work' = [work EXCEPT ![w].pc = "collect", ![w].todo = Provider, ![w].found = {}]
  /\ UNCHANGED <<eligible, silent, uncalled, scheduled, recent, sleepers, published, snapshot>>

\* rebuildAggregate.
Collect(w, p) ==
  /\ work[w].pc = "collect"
  /\ p \in work[w].todo
  /\ work' = [work EXCEPT ![w].todo = @ \ {p}, ![w].found = @ \cup published[p]]
  /\ UNCHANGED <<eligible, silent, uncalled, scheduled, recent, sleepers, published, snapshot>>

Collected(w) ==
  /\ work[w].pc = "collect"
  /\ work[w].todo = {}
  /\ snapshot' = work[w].found
  /\ work' = [work EXCEPT ![w] = Resting]
  /\ UNCHANGED <<eligible, silent, uncalled, scheduled, recent, sleepers, published>>

-----------------------------------------------------------------------------
\* Every connection starts eligible and the first Update has been made.
EligInit ==
  /\ eligible = Conn
  /\ silent = {}
  /\ uncalled = [p \in Provider |-> 0]
  /\ scheduled = [k \in Key |-> FALSE]
  /\ recent = [k \in Key |-> FALSE]
  /\ sleepers = [k \in Key |-> 0]
  /\ published = [p \in Provider |-> ConnsOf(p)]
  /\ snapshot = Conn
  /\ work = [w \in Rebuilder |-> Resting]

Rebuild(w) ==
  \/ \E c \in Conn : Scan(w, c)
  \/ Scanned(w)
  \/ \E p \in Provider : Publish(w, p)
  \/ Published(w)
  \/ \E p \in Provider : Collect(w, p)
  \/ Collected(w)

EligNext ==
  \/ \E c \in Conn : Change(c) \/ ChangeSilently(c)
  \/ \E p \in Provider : Call(p)
  \/ \E k \in Key : WindowOver(k) \/ Wake(k)
  \/ \E w \in Rebuilder : Rebuild(w)

EligSpec == EligInit /\ [][EligNext]_eligVars

\* Goroutines are scheduled and time passes; statuses need not change.
EligFairSpec ==
  /\ EligSpec
  /\ \A p \in Provider : WF_eligVars(Call(p))
  /\ \A k \in Key : WF_eligVars(WindowOver(k)) /\ WF_eligVars(Wake(k))
  /\ \A w \in Rebuilder : WF_eligVars(Rebuild(w))

-----------------------------------------------------------------------------
(* Properties. *)

\* Store, snapshot, calls and rebuilds are of the type the code gives them.
EligTypeOK ==
  /\ eligible \subseteq Conn
  /\ silent \subseteq Conn
  /\ uncalled \in [Provider -> 0..MaxOwed]
  /\ scheduled \in [Key -> BOOLEAN]
  /\ recent \in [Key -> BOOLEAN]
  /\ sleepers \in [Key -> Nat]
  /\ published \in [Provider -> SUBSET Conn]
  /\ snapshot \subseteq Conn
  /\ work \in [Rebuilder -> RebuilderStates]

\* All calls within a window collapse into one rebuild: at most one goroutine
\* waits for a key, exactly while its flag is up.
Coalesced == \A k \in Key : sleepers[k] = IF scheduled[k] THEN 1 ELSE 0

\* Nobody owes, waits for or works on a rebuild.
Quiescent ==
  /\ \A p \in Provider : uncalled[p] = 0
  /\ \A k \in Key : ~scheduled[k]
  /\ \A w \in Rebuilder : work[w].pc = "rest"

\* The snapshot says of a connection what the store says, those left aside that were
\* changed without a call since the last rebuild of their provider began.
Current == \A c \in Conn \ silent : c \in snapshot <=> c \in eligible

\* Coalescing loses no change: when the last rebuild is over the router sees of every
\* connection what the store says.  Only what has been changed without a call stays
\* unseen, and that until the next rebuild of its provider, whoever calls for it.
SnapshotCurrent == Quiescent => Current

\* And it comes to that: once statuses stay and nobody calls for more, the router sees
\* them, whatever the changes, calls and rebuilds before.
Settling == eligible' = eligible /\ \A p \in Provider : uncalled'[p] <= uncalled[p]

SnapshotConverges == (<>[][Settling]_eligVars) => <>[]Current
=============================================================================
