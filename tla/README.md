# AxonRouter verification

AxonRouter is a proxy that routes LLM requests over many upstream *connections*
(accounts and API keys).  What makes it hard is the **health** of a connection -
ready, rate limited, out of quota, disabled - which upstream answers change, which
routing reads, which several schedulers heal, and which exists twice: in memory,
written at once, and in the database, written later by one goroutine that drains a
queue.  This directory specifies that core in TLA+, model-checks it with TLC, and
proves its main invariants with TLAPS.

Paths below are relative to `src/internal/` of the repository.

## 1. The system

| component | source | state | operations |
|---|---|---|---|
| connection state, failure detection | `connstate/state.go`, `store.go`, `detector.go` | one record per connection under its own mutex: status, cooldown, ban count; the map of records | mutators, `RecordSuccess`, `RecordFailure`, `DetectError` |
| request routing, failover | `api/handlers/v1/handler.go`, `chat.go` | none but the request's own | two-pass pick, healing, success and failure handlers, failover loop |
| write queue | `db/writequeue.go`, `backup/restore.go` | a bounded channel of writes, the gate, the stop channel | `Enqueue` (drops when full), `EnqueueOrBlock`, `Do`, the worker, `Pause`, `Resume`, `Stop` |
| persistence, restart | `api/router.go`, `db/migrations.go` | the `connections` table | the health writes, seeding at start |
| background schedulers | `background/quota_scheduler.go`, `token_refresh_scheduler.go` | in-progress map | recovery of elapsed cooldowns, refresh of tokens |
| administration | `api/handlers/admin/connections.go` | - | activate, status, reset, test |
| quota reports, marks | `quota/cache.go`, `exhaustion.go` | exhaustion marks with expiry | apply a report to the row and the store |
| eligibility snapshot | `connstate/eligibility.go` | per-provider snapshots, the aggregate, coalescing flags | rebuilds, coalesced per provider or over all |
| token refresh | `auth/manager.go`, `db/oauth_token_writer.go` | rotation map, group gates, single flight | refresh, compare-and-swap of tokens |
| circuit breaker, combo fallback | `connstate/circuit_breaker.go`, `combo/fallback.go`, `combo/combo.go`, `api/handlers/v1/chat.go` | one breaker per connection and their map | allow, record, clean up; the steps of a combo, the connections of a step |
| prober, per-model locks | `background/rate_limit_prober.go`, `connstate/modellock.go`, `quota/exhaustion.go` | cooldowns per (connection, model), marks per quota family | lock, probe, renew, lift, expire |
| combos | `combo/combo.go`, `api/handlers/admin/combos.go` | tables `combos`, `combo_steps`, and the copy of them requests are resolved in | create, update, delete, steps, refresh |
| rotation | `combo/rotation.go` | counters in memory, the pending map, `rotation_state` | pick, delayed flush, reset |
| fusion | `combo/fusion.go` | one request: panels, two timers, a channel | launch, collect, grace, judge |
| proxy pools | `proxypool/`, `api/handlers/admin/proxy_pools.go` | tables of pools and groups, two caches of their rows | resolve, edit, test, invalidate |
| Freebuff executor | `executor/freebuff.go` | sessions, claims in flight, locks of account, model and egress | claim, run, chat, retry, finish |
| lifecycle, affinity, active registry, usage, response cache, smart router | `background/lifecycle.go`, `connstate/sessioncache.go`, `active/`, `usage/`, `cache/`, `smart/` | state of their own | not modelled, see below |
| translators, other executors, console | `executor/`, `translator/`, `web/`, `cmd/` | data conversion and I/O | - |

**How they interact.**  An HTTP goroutine picks a connection from the eligibility
snapshot and the store, sends, and calls either the success or the failure handler.
A handler writes the store (a method call under the record's mutex), then the
exhaustion marks, then puts a closure into the write queue, then asks for a rebuild
of the snapshot; nothing is held across two of these calls.  The drain goroutine
executes the closures in order.  `QuotaSchedulerDB` sweeps the store and the table
for elapsed cooldowns; `TokenRefreshScheduler` sweeps the table for tokens that
expire; the administration and the quota fetcher write the table *themselves*, past
the queue, and the store in a separate step.  At start the store is rebuilt from the
active rows.  A combo request resolves its name in the copy of the combo tables, takes
an order of steps (rotated by the counters, or all of them at once in a fusion), and
asks the breakers which connections of a step to try.  Every send goes through the
egress the resolver of the proxy pools found; the Freebuff executor tries several, and
keeps sessions and locks of its own.

**Which behaviours are hard.**  Two handlers of one connection in any order; a
candidate that changes between being judged and being used; a recovery decided upon
before a new failure; a write dropped by a full queue; a restart between the write of
memory and the write of the row; rebuilds that overlap; calls that return at once
because another goroutine is to do the work; a copy of a row stored after the row has
changed; a breaker dropped while somebody has it in hand; a counter flushed twice at a
time; a verdict about an address that is no longer the one in the row; a claim taken
over by force whose first owner still announces its answer; a goroutine that hands a
result to a request that no longer reads.  `PROJECT.json` lists them as hazards, each
at its line with the properties that watch it.

**What would make each component correct.**

- *Routing*: a model of an account that upstream has called exhausted is not asked for
  before its window is over; an account found empty or rejected is not used before somebody
  renews it; every request is answered.
- *Health*: what a restart and the schedulers need of a row is always there
  (`disabled` means inactive, healable means it has a horizon); what memory disables
  becomes durable; a limited connection recovers.
- *Snapshot*: no change of health is lost by coalescing or by overlapping rebuilds.
- *Write queue*: order, no loss but by the documented drop, a pause that bounds what is
  still written, a stop that flushes, and no caller left waiting.
- *Token refresh*: a replaced refresh token is not presented again, and the newest one
  is what ends up stored.
- *Breaker, locks*: a clean-up forgets nothing of a connection still in use; no request
  goes round.
- *Combos, rotation*: requests are routed as the tables say; what is picked is saved,
  and the saved counter never runs ahead.
- *Fusion*: an answer on fewer than `min_panel` panels only when no more can come or the
  time is up, an end for every request, and no goroutine left behind.
- *Proxy pools*: a request is resolved from the rows as they are, keeps every
  candidate it could have, and each pool is in the end judged by its present address.
- *Freebuff*: one claim of a session at a time, and upstream is told once of every run
  that it is over.

## 2. Modules

| module | models | extends |
|---|---|---|
| `ConnState` | the record of a connection, its mutators, the failure categories (constant level) | - |
| `ConnHealth` | routing, both handlers, schedulers, queue, restart | `ConnState` |
| `ConnHealthInv` | the inductive invariants | `ConnHealth` |
| `ConnHealthDirect` | administration and quota reports, the writers past the queue | `ConnHealth` |
| `ConnHealthVerdicts` | a history variable: the last quota verdict on each model | `ConnHealthDirect` |
| `ConnHealthCauses` | a history variable: who has given cause to be disabled | `ConnHealthDirect` |
| `Eligibility` | the snapshot and its rebuilds | - |
| `WriteFifo` | what the write queue promises: an ordered buffer that may refuse when full | - |
| `WriteQueue` | the queue with its gate, worker, restores and stop; implements `WriteFifo` | - |
| `TokenLedger` | what refreshing promises of the tokens of a rotation group | - |
| `TokenRefresh` | refreshing OAuth tokens and storing them; implements `TokenLedger` | - |
| `ComboRouting` | combo and direct requests over breakers, per-model locks and marks; prober, clean-up | - |
| `Combos` | the combo tables and their copy | - |
| `Rotation` | the rotation counters and their delayed flush | - |
| `Fusion` | one fusion request | - |
| `ProxyPools` | resolver, its caches, administration and health check of the pools | - |
| `Freebuff` | requests over one Freebuff account | - |
| `EligibilityProofs`, `WriteQueueProofs`, `TokenRefreshProofs`, `ProxyPoolsProofs`, `FreebuffProofs` | theorems | their module, `TLAPS` |
| `ConnHealthProofs` | theorems | `ConnHealthVerdicts`, `ConnHealthCauses`, `ConnHealthInv`, `TLAPS` |
| `ComboRoutingProofs` | theorems of both ways to ask several models | `ComboRouting`, `Fusion`, `TLAPS` |
| `CombosProofs` | theorems of the combo tables and of their counters | `Combos`, `Rotation`, `TLAPS` |
| `MCConnHealth`, `MCConnHealthVerdicts`, `MCTokenRefresh`, `MCComboRouting` | instances for TLC | one component each |
| `MCDirectWriters` | administrator, tester, quota fetcher or token refresh beside a request | `ConnHealthVerdicts`, `ConnHealthCauses` |
| `MCModelsBlocked` | a history variable: which models have failed where | `ComboRouting` |
| `MCQueues`, `MCTables`, `MCAccounts` | instances of several components side by side | see below |

### ConnState

A connection is `[entry, status, cooldown, ban]`.  `entry` is `absent` (never seeded),
`bare` (made by `GetOrCreate`, without a provider prefix, so no router finds it) or
`seeded`.  The mutators keep the code's surprises, because they are what the
properties are about: `SetCooldown` sets the status *ready*, whatever it was;
`SetStatus("ready")` clears the cooldown and the ban count; `SetStatus("disabled")`
counts a ban and leaves the cooldown.  The ban count saturates at the threshold: the
code only asks whether it is positive and whether it has reached it.  Time 0 is a nil
`*time.Time`.  Success and failure counters, texts, and the cooldowns per model that
`RecordFailure` sets for the `oc` and `ag` providers are left out (`ComboRouting` has
those).

### ConnHealth

| variable | code |
|---|---|
| `now` | `time.Now()` |
| `mem` | `Store.states` |
| `marks` | `ExhaustionCache`: per connection, a mark for each model and one for the connection |
| `row` | table `connections` |
| `queue` | `WriteQueue.ch`, one record per kind of closure |
| `lost` | history: connections of which a full queue has dropped a write since the start |
| `due`, `recovering` | where `QuotaSchedulerDB.check` is: the rows it has read and not come to, the one it is setting ready |
| `refresh` | `TokenRefreshScheduler.inProgress` and what the refresh came to |
| `req` | the program counter and the locals of each request |

A request asks for one `Model` throughout.  `Fail` marks that model of the connection
(`handler.go:1696-1698`), and `Check` and `Usable` ask the mark of the model requested
(`Exhausted`).  A `Model` stands for what marks are keyed by (`ModelScope`: a model, or a
quota family); the fall-back to the mark of the whole connection when an error names no
model is left out, because a chat always names one.

One action is the stretch of code between two points where another goroutine can see
or change something: `Consider` (the candidate is judged by its status), `Heal`,
`Check` (cooldown and marks); `Fail` (`MarkExhausted`, `RecordFailure`),
`PersistCooldown`, `EnqueueCooldown` (`persistCooldownScoped`), `CheckAutoDisable`,
`AutoDisable`; `ResetBan`, `EnqueueResetBan`, `PersistSuccess`, `EnqueueSuccess`,
`SuccessRecorded`.  A success handler that has run leaves the request `streaming`: the
stream may still break and run the failure handler.  `Drain` executes one closure;
`Apply` has one case per closure.  `Restart` drops everything in memory and seeds the
store from the rows.

Merged or left out, and why: the pass over the eligibility snapshot and the pass over
the store make the same checks, so pass 1 is one pass in any order; a pick reads the
clock once, the model reads it at each step (more behaviours); the check and the set
inside one store call are one step; reading the ban count and queueing it are one
step; a candidate the connection cache cannot produce is only refused;
`recordTestSuccess` has the effect of `Reset`; combo routes and model-scoped cooldowns
are in `ComboRouting`, with the prober that lifts the mark of a model it has tested
(`rate_limit_prober.go:322`): such a test that succeeds ends a verdict, and has no step
here; affinity, the inline quota refresh of codebuddy, bulk update and
delete are not modelled.

### ConnHealthDirect, ConnHealthVerdicts, ConnHealthCauses

`admin` and `fetch` are an administration handler and a quota report between their
steps.  An administrator writes the row and then, in `Sync`, the store;
`UpdateConnectionQuotaStatus` reads the row (`ReadStatus`), writes it (`WriteStatus`)
and then the store (`SyncStatus`).  `ConnHealthVerdicts` adds what upstream last said,
which the program nowhere records: `quotaUntil`, per connection and model.  A restart,
an administrator and a report that finds quota again start a connection anew.  A verdict
is about the model it was given for, as the mark is: `TokenRefreshScheduler.persist`
sets row and memory ready (`token_refresh_scheduler.go:216`, `234-237`), the cooldown of
the whole connection goes with that, and a request for *another* model is sent before
the horizon.  `handler.go:656-657` calls the cooldown "account-wide"; with that reading
TLC finds the property violated as soon as a refresh ends.  `ConnHealthCauses` adds
`blamed`: the connections that upstream has rejected or found empty - in a request, a
refresh, a test or a quota report - those a quota report has called exhausted, which
`SyncStatus` counts as a ban signal, and those an administrator has switched off.
Nobody is taken off it again, so what is not in it never had a reason to be disabled.

### Eligibility

A change of health by a handler, an administrator or the scheduler is `Change`, which
leaves a call owed; `Call` is one of the three ways the code calls
(`ScheduleUpdateProvider`, `ScheduleUpdate`, `Update`).  Some changes are followed by no
call: `TokenRefreshScheduler.persist` sets an entry ready
(`token_refresh_scheduler.go:234-238`), a pick heals what it considers
(`handler.go:716`, `893`, `975`), and a cooldown runs out.  They are `ChangeSilently`,
and `silent` (history) has the connections so changed until the next rebuild of their
provider begins.  There is no periodic rebuild, so the snapshot may say otherwise than
the store of such a connection for as long as nobody calls; requests do find it in the
pass over the store.  The properties are about everything else (`Current`), and say that
the next rebuild sees it.
`Schedule(k)` is the critical section under `updateMu`; `Wake` is the goroutine after
its sleep; `Scan`, `Publish`, `Collect`, `Collected` are a rebuild, connection by
connection and provider by provider, with no lock.  The window is nondeterministic:
`WindowOver` may come at any time, and with `Prompt` only when the rebuild that opened
it is over.  The order within a provider is left out.

### WriteQueue, WriteFifo

`ch`, `paused` are the fields of the struct; `stopper` is how far `Stop` has come (it
opens the gate, then closes the channel `stop`); `worker` is the goroutine `loop` with
the operation it has in hand; `caller` is what has become of each call.  Passing the
gate (`Pass`, `Gate`) and what follows (`Send`, `Execute`) are separate steps, because
the code holds no lock across them.  A restore (`backup/restore.go`) is a `Pause` and a
`Resume`; two may run at once, and the gate is one flag.  `Do` does not look at the
gate; its caller may give up while the write stays queued.  Every write is handed in
once, so a write stands for its call.

`WriteFifo` is the abstract queue: `Accept`, `Refuse`, `Apply`.  The mapping takes the
operation in the worker's hand followed by the channel as the abstract buffer.  The
`queue` of `ConnHealth` and of `TokenRefresh` is this buffer for callers that use
`Enqueue`: `Append` is `Accept`, the drop is `Refuse`, `Drain` is `Apply`.  There the
operation in hand still counts as queued, so a capacity `Cap` of the code is
`QueueCap = Cap + 1` with a drop that comes, at the earliest, one write later; as the
capacity is arbitrary in the proofs, nothing depends on it.

### TokenRefresh, TokenLedger

A refresh token is a number that upstream raises; it honours `live[c]` only.  `known`
is the newest an answer has brought, `row` the column, `rotation` the keys of the
rotation map, `gate` the channel of the rotation group, `caller` the goroutines inside
`refreshToken`.  One action is one critical section or one call: `Miss`/`Redirect` (the
lookup), `TakeGate`, `Call`/`Join` (single flight; followers share the leader's
outcome), the five things upstream may do, `Compare`, `Save`, `Record`.  The gate comes
back by a deferred goroutine after its spacing (`Release`, `Reopen`).  Callers read the
row and may hold what they read for as long as they like.  Left out: access tokens and
expiry (so a caller never presents a token whose own write is still queued - it would
not be due), a login that replaces the tokens, and what a rejection does to the
connection's health, which is `RefreshFailed` in `ConnHealth`.

`TokenLedger` is what one may rely on for an account in a rotation group, without
callers, gate or queue: the `newest` token, the one `stored`, whether one is
`onItsWay`, and whether the newest was `givenUp`.  `Arrive` needs the newest to be
stored, so no answer replaces a token that the row does not have yet; `Store` puts
the newest, never an older one; who has been given up is never stored or replaced
again.  The mapping takes `known` and `row` of the gated connections, and for `onItsWay`
those an answer or a queued write is still about (`Stored` negated).  A step that moves
none of these - a lookup, the gate, a call - does not show.

### ComboRouting

A request (`request`) runs through `pick` (`PickConnections`), `next` (one connection
of the list after the other, the checks of `prepareConnection`), `load` (its credentials
and, for OAuth, a token refresh over the network: nothing is checked again after it),
`sent`, `hold` (it has looked its
breaker up), `note` (what remains is the store) and perhaps `stream`.  `breaker` is the
map of breakers, where a missing entry is a new breaker; `Cleanup` drops those of
connections it did not see in the store *earlier* (`CollectActive`, `active`), and a
request that has a dropped one in hand goes on with it (`lost`).  `lock` are the
per-model cooldowns of the store, `mark` the exhaustion marks per quota family
(`ScopeOf`).  The prober collects locks, tests one after the other and then writes lock
and mark in two steps.  `ideal` (the breakers if none were dropped) and `gone` are
history.  Windows and cooldowns have no length: each may be over at any time after it
began, so a shorter cooldown written over a longer one (`SetModelCooldown`,
`state.go:269-272`) is among the behaviours and not told apart from one that ran out.

The code's surprises are kept.  A success is recorded before any of its stream is read
and resets the failure count, so failures in mid-stream alone never open a closed
breaker.  After a stream that broke, a combo goes on with the next step, where a comment
(`chat.go:748`) speaks of the next connection, and it goes on after an authentication
error, where a comment (`chat.go:645`) says that the combo ends.  `Note` re-creates the
entry of a connection that has been deleted meanwhile, and marks survive a deletion.
The prober lifts whatever lock there is on the model it has tested, also a newer one, and
a limit recorded between the checks of a connection and the request over it
(`handler.go:988-997`) does not hold the request back; so no claim is made that a
recorded limit keeps requests away.
Left out: a restart (all of this lives in memory), the connection-wide recovery of the
prober (`check`), and the strategies that only order the steps.

### Combos

`table` are the rows of `combos` and `combo_steps`, `copy`, `byName` and `steps` the
three maps of the handler.  A call writes the tables in one transaction and the copy
later, under the lock (`Transact`, `WriteCopy`); adding or removing a step reads the
steps in between (`LoadSteps`); a refresh reads everything and replaces the copy later
(`ReadTables`, `Refreshed`).  `raced` are the combos at which two calls have crossed -
the last one to write the copy need not be the last one in the table, and the copy then
stays stale until the next refresh; no claim is made of those.  `dormant` are those that
were inactive when the tables were read: a combo deactivated *later* goes on being
found by its name, although `ListCombos` speaks of active combos only.

### Rotation

`counters`, `pending` and `flushScheduled` are the fields of the manager, `savedCount`
the table.  `NextCounter` is the critical section of a pick; the goroutine it starts
sleeps, takes the pending map (`TakePending`) and writes row by row
(`PersistCounter`).  A reset clears memory (`ResetCounter`) and deletes the row
afterwards (`ResetRow`).  `picks`, `resetCrossed`, `overlapped` and `deleted` are
history: two flushes may be under way, and a reset may fall between the taking of the
pending map and its writing, which then undoes it (`resetCrossed`: `NeverAhead` and
`PicksAreSaved` make no claim).  Of two flushes the older may write last
(`overlapped`): the row then lags, which `NeverAhead` allows and `PicksAreSaved` does
not speak of.

### Fusion

One request.  `panel` is what each goroutine is doing, `resultsCh` and `closed` the
channel, `ctx` the context of the panel, `timer` the hard timeout, `grace` that of the
stragglers, `fusion` where the request is.  The three clocks run independently, as the
code starts them one after the other.  `Conclude` covers zero, one and several answers;
the judge of a request that is not streamed shares the panel's context, so after the
hard timeout its call fails and the first answer is used.  Left out: a client that goes
away.  Panels record nothing on breakers and locks.

### ProxyPools

`poolRow` and `groupRow` are the tables, `cached` the resolver's two maps.  A `Seeker`
is a request inside `ResolveCandidates`: it reads a row (`ReadRow`) and stores the copy
later, whatever has happened to the row meanwhile.  An `Editor` is an administrative
call: it writes the row, for a new address tests it (`Retested`), and drops all copies
at its end (`Invalidate`); when its second UPDATE fails it returns before that
(`RetestFails`).  A pool is deleted through the write queue: `DeletePool` hands the
cascade to `Do`, `DeleteRows` is the worker.  The call may give up waiting when its
client has gone (`GiveUpDelete`, `writequeue.go:148-158`), before the deletion is queued,
while it is (`orphaned`, then `DeleteLate`), or when it has just been made; it then
answers 500 and drops no copies.  The health check reads the pools in use, tests each and writes the
verdict by the pool's id, whatever address the row has by then; it does not drop
copies.  `crossed` are the keys whose stale copy is due to a fill, to a failed call or to
a deletion nobody waited for - this last is the hazard at `writequeue.go:156` seen from
its caller; such a copy stays until another call drops all copies or it is old, and both
take its key out of `crossed` again.

The pools of a group are a list, as posted (`proxy_groups.go:214-232`): a group posted as
`[a, a]` has `a` twice among its candidates, and a request tries it twice.  `PoolLists`
are the lists an instance allows, closed under the deletion of a pool, as all sequences
of pools are.  `pick` chooses any pool, and the list is rotated to its first entry.

Kept as in the code: a group that yields no candidate, strict or not, leaves the request
to the pool pinned to the connection and then to the direct connection (`Fallback`),
though a comment of the executors (`base.go:696`) says that for Freebuff the handler
makes this last candidate strict, which it does not; in a group that is not strict, a
pool that has failed between two looks at it stands for a direct connection (`marker`)
before the candidates are through.  The comment at `proxy_pools.go:721`, "a
stale active status can never outlive a dead endpoint edit", holds only in the end: a
test of the old address may write its verdict after the edit.  `VerdictsSettle` is
what is left of it.  Left out: defaults of providers, batch import, deployment.

### Freebuff

`sessions`, `inflight`, `accountLock`, `modelLock`, `poolLimit` are the maps of the
executor; a record of `chats` is one request with its candidates, the claim it waits on
(`on`) and its agent run.  A run is `known` upstream as open, finished, abandoned or
finished twice.  `JoinClaim`, `BeginClaim`, `Announce` are `ensureSession`;
`StartRun`, the chat with its retries (`SendAgain`, `Slept`, `SleepCancelled`), the
refusals by kind (`Refused`), `Reclaim` (a claim by force, which replaces the claim in
flight) and the stream with its watcher follow.  `overtaken` is history.

Kept as in the code: a claim that has been overtaken still stores its session
(`freebuff.go:714` says otherwise); those who wait share the claimer's error, also
when that is its client's cancellation, and wait without looking at their own; a waiter
on another egress marks *its* pool unfit for the refusal the claimer got; a success
lifts an account lock that was set meanwhile.  A lost answer to START leaves a run
upstream that nobody knows of; of that the model makes no claim.

### Instances of several components

TLC is run once for components that share no state: `MCQueues`, `MCTables` and
`MCAccounts` choose at the start which part a behaviour is of, and the others stay at
their initial state.  So the states of a run are the sum of its parts, and an invariant
of one part is checked in exactly the behaviours it would be checked in alone.
`QueuesFairness` is the fairness each part's own `FairSpec` states, for its behaviours.
`MCComboRouting` explores the requests beside the prober, beside the clean-up, and one
request over two connections with failover, in the same way.

## 3. What is checked

All passing runs complete; deadlock is checked in each.

| run | question | bounds |
|---|---|---|
| `concurrent` | `RowCoherent` whatever order two handlers, both schedulers, drops and restarts take | 1 connection, 2 requests, `auth`, token refresh, queue 1, ban threshold 2, clock 3 |
| `sequential` | `DisabledIsPersisted`, `ActiveIsRoutable` and the inductive invariant with every category and failover | 1 request, queue 2, 2 attempts, clock 4 |
| `liveness` | `LimitedIsFound`, `RequestsAdvance`, `RequestsEnd`, `HealableRecovers` | 2 requests, 2 attempts, `rate_limit`, queue 1 |
| `direct_writers` | `QuotaNeverBypassed`, `DisabledForCause` beside activation, status and reset, beside connection tests (that succeed, or fail), beside the quota fetcher, or beside token refreshes that succeed | 1 request, `quota`, ban threshold 2, clock 3; 2 models beside the refresh, 1 beside the others |
| `queues` | write queue: `KeepsOrder` (refinement of `WriteFifo`), `PauseBounds`, `StopFlushes`, `CallersReturn` | a write of each kind, capacity 1, 2 restores, a stop |
| | rebuilds: `Coalesced`, `SnapshotCurrent`, `SnapshotConverges` | 2 providers, 1 rebuilder; all three calls, or silent changes of one connection beside changes and calls of the other provider (two of the calls rebuild both) |
| | fusion: `QuorumOrTimeout`, `FusionEnds` | 3 panels, `min_panel` 2 |
| | pool tests: `VerdictsSettle` | 1 pool, 2 addresses, 2 concurrent edits, health check |
| `tables` | combos: `RoutedAsStored` | 2 combos, 2 names, 1 step, 2 concurrent calls |
| | rotation: `OneSleeper`, `NeverAhead`, `PicksAreSaved` | 2 combos, 2 flushes and a reset at a time, 2 picks between resets |
| | proxy pools: `CacheCurrent`, `CandidatesKept` | 2 pools and a group with a list of up to 2, 2 addresses, 1 request beside 1 edit |
| `accounts` | tokens: `KeepsLedger` (refinement of `TokenLedger`), `GroupStoresNewest`, `OnePastGate`, `GateIsHeldBySomebody` | 2 callers, a gated and an ungated connection, 2 replacements each, queue 1 |
| | Freebuff: `OneClaim`, `RunsFinished` | 3 requests, 1 model, 1 egress, 1 retry |
| `combo_routing` | `BreakerKept`, `RoutingAdvances` | 2 requests over 1 connection beside the prober or the clean-up, 1 request over 2 connections; 2 models of one quota family, 2 steps, failure threshold 2, success threshold 1 |

**Why the bounds are enough.**  In `ConnHealth` nothing relates two connections except
failover, which leaves out the failed one, so one connection shows every interleaving
of handlers (two requests contend for it; in `sequential` the failover pick finds no
other candidate and runs into the second pass).  A queue of one both holds a write
behind memory and drops; two is the least that has an order.  The clock runs one tick
past `MaxTime` (not in `direct_writers`): a cooldown can be set, lapse and be followed by another, and at
`MaxTime = 3` a recovery of an older cooldown can overtake a fresh verdict, which is
what `QuotaNeverBypassed` must survive.  `BanThreshold` is the code's 3; every
authentication failure counts twice, so it is reached in two.  `MaxAttempts` 2 is one
failover.  In `concurrent` and `direct_writers` the
threshold is 2: one authentication failure bans, and so would one exhausted quota if it
were counted.

In `WriteQueue` a capacity of one is full after one write, and two restores are the
least that can overlap.  In `TokenRefresh` two replacements are the least by which a
late write can be older than the row.  In `Eligibility` one owed call per provider at a
time is enough for a change to arrive in every phase of a rebuild.  A fusion of three
panels has one that is late when two have answered, and one more that fails.  In
`Combos` two calls over two combos and two names are the least in which a rename can
take the name another one is losing.  In `Rotation` two flushes at a time, and a counter
that may be advanced after the first has taken the pending map, are the least that can
write in the wrong order.  In `Freebuff` three requests give a claim, one that waits for
it and one that takes its place by force; two requests with two egress addresses and the
code's own retry limits (2 after network errors, 2 or 3 by status), and three requests
with two addresses, were checked as well.  `ComboRouting` with two steps of one family
has a limit of one model beside an attempt at the other; with a threshold of two a
failure may be counted before and after a clean-up.  A list of two pools can have one
twice, or two in either order.  In `tables` a part has one edit of proxy pools, so a copy
that was crossed and is then dropped and filled again is put to the test by the time-out
of copies only; that a later call takes a key out of `crossed` with good reason rests on
the proof.

What is proved (below) holds for all bounds, which leaves the bounds to matter for the
liveness properties.

**Fairness.**  `RequestSpec`: a goroutine that serves a request is scheduled, and an
upstream call ends because executors have time-outs.  `FairSpec` adds weak fairness
of the drain goroutine, of each loop of the scheduler (a ticker, one goroutine) and
of the clock.  Nothing obliges a client to send, an upstream to fail, an
administrator to act, or the process to restart.  `EligFairSpec`: goroutines
are scheduled, who owes a call makes it, and windows pass; nobody need make a call that
is not owed.  `SnapshotConverges` only asks for convergence once statuses stop changing
and no new calls fall due, and not of what was changed silently.  `WriteQueue!FairSpec`: callers and worker are scheduled
and a restore ends; `CallersReturn` asks for nothing while restores keep coming, nor
after a stop, when `Do` waits for an answer nobody will send.  `FusionFairSpec`: the
request and its goroutines are scheduled, the context and the hard timeout run out, and
a call whose context is over returns; no panel needs to answer by itself.
`ProxyFairSpec`: the health check runs, and its tests have a time-out; nobody needs to
edit anything.  Weak fairness is enough everywhere because no step that
must happen is disabled again and again by another.

**Violations.**  Four runs show the code doing other than what a comment in the
repository says; `PROJECT.json` quotes the comment.

| run | what happens |
|---|---|
| `quota_bypassed` | two requests are in flight; one is told that the quota is used up, the other, for the same model, is told later that it is rate limited.  `SetCooldown` overwrites status and horizon, and the mark is written anew with the shorter one, after which both passes pick the account again, before its window is over |
| `overtaking` | two handlers write memory in one order and the queue in the other: memory says disabled, the row ends up active, and a restart brings the account back |
| `token_rejected` | two callers hold the same refresh token and miss the rotation map; one passes the gate and has the token replaced, the other then passes and presents the replaced one.  Upstream rejects it, and the connection is disabled though its row holds a good token |
| `models_blocked` | a combo asks one model of a connection again and again while it is rate limited; the failures are counted on the connection's breaker, which opens and keeps combos off its other models, although the provider limits per model |

The passing runs state what holds around these: `QuotaNeverBypassed` holds with one
request at a time, model by model, whatever the administration, the fetcher, token
refreshes and the schedulers do;
`DisabledIsPersisted` holds when handlers of a connection do not overlap;
`DisabledForCause` holds of everyone no quota report has called exhausted; in `accounts`
the gate does order the callers and the newest token is stored, although a caller may be
rejected.

Some more such traces were met and have no run.  With two rebuilders the aggregate
collected first may be stored last, and nobody owes a rebuild: `SnapshotCurrent` needs
rebuilds that do not overlap (`Rebuilder` with one element, the theorem's hypothesis).
After a server error `persistCooldownScoped` sets the status ready (`handler.go:2455`),
which clears the cooldown `RecordFailure` has just set, and the one of a concurrent
rate limit, whose own second write then makes the entry rate limited with no cooldown:
only the row brings it back, which is why `LimitedIsFound` speaks of it.  When a rate limit and
an authentication failure overlap, memory may take the rate limit last - without its
cooldown, which the scheduler has ended in between - and the queue the refusal: the row
is disabled, the entry rate limited, the scheduler finds neither, and the entry stays so
until a request considers it and heals it.

Three more contradict a comment, or a test.  `SetStatus(disabled)` leaves the cooldown
of an earlier failure in place, and the scheduler sets ready whatever has an elapsed one
(`quota_scheduler.go:161`): an account that was rate limited and then found empty is
used again, where `detector.go:207` says that this is "permanent until manual top-up".
`UpdateConnectionQuotaStatus` tells the store of an exhausted quota by `SetStatus`
(`quota/cache.go:399`), which counts a ban: with reports of exhaustion between rate
limits, TLC reaches a third one that disables a connection nobody has rejected, where a
test says that "quota exhaustion must not increase BanCount" (`store_test.go:81`).
Outside a rotation group two refreshes may compare with the same row; the one that was
given no new token then queues the old one and writes it over the new
(`auth/manager.go:287`), where the comment there speaks of a compare-and-swap.

Further ones are named with their modules in section 2.

**Statements that fail.**  SQL failures are left out almost everywhere: they are taken to
be the environment's, and the code as a rule logs them and goes on.  So the model has no
step in which a combo's steps are read as none because the query failed
(`loadStepsForCombo`, `combo.go:246`), a rotation counter is lost because its UPSERT
failed (`persistCounter`, `rotation.go:306`) or starts again at 0 because it could not be
read (`loadCounter`), or a DELETE fails and is ignored; `RoutedAsStored`, `NeverAhead` and
`PicksAreSaved` say nothing of those.  The exceptions are the ones the code treats as an
outcome: reads and writes of tokens (`ReadFails`), the second statement of a pool's update
(`RetestFails`), credentials that cannot be read (`Load`), and what a full queue drops.

Every property has a mutant (operators marked *Fault* in the modules): a plausible
bug in one definition that TLC finds by that property.

## 4. What is proved

For every set of connections and requests, every set of failure categories, every
queue capacity, threshold and cooldown (the named assumptions are on the ranges of
the constants only):

- `ConnHealthProofs!TypeCorrect` - `Spec => []TypeOK`.  Runs check it within `IInv`
  (`sequential`) and `DirectTypeOK` (`direct_writers`).
- `ConnHealthProofs!RowsCoherent` - `Spec => []RowCoherent`, for any number of
  concurrent requests, with token refresh, drops and restarts.  `RowCoherent` says
  something of rows only; what becomes a row is still in the queue, or on the way to
  it in a request.  `RowInv` therefore adds that every queued cooldown write and
  every detection before its `Enqueue` has a horizon if its status is healable.  The
  fact that carries it is `DetectError`'s: only the balance detection has none, and it
  disables.
- `ConnHealthProofs!DisabledPersists` - `Spec => []DisabledIsPersisted`, assuming
  at most one request and no token refresh (`OneAtATime`).  The property speaks of
  settled connections; the invariant must follow the disabling write through the
  queue.  `SettlesInactive(c)`: the row is inactive and nothing
  queued enables it, or a disabling write is queued and nothing behind it enables.
  `DisabledSettles` says this of every connection memory disables, unless a handler is
  between its two writes; `StrikeIsQueued` covers the auto-disable, which writes the
  queue first and memory second; `EnablingIsSeen` says that an enabling write is only
  queued when memory no longer says disabled - exactly what two overlapping handlers
  break (run `overtaking`), hence the assumption.  `InvariantHolds` is the conjunction
  of all this, `IInv`, which the run `sequential` checks as well.
- `ConnHealthProofs!DirectTypeCorrect` - `DirectSpec => []DirectTypeOK`: with
  administration and quota reports writing past the queue, rows, memory and the calls
  in flight stay well typed.
- `ConnHealthProofs!VerdictsStand` - `HistSpec => QuotaNeverBypassed`, for any number of
  connections, administrative acts and quota reports and all failures, assuming that
  requests of which one may meet a rate limit do not overlap (`LimitsComeAlone`; run
  `quota_bypassed` shows why).  It speaks of each model of a connection.  Memory and the
  connection's own mark are overwritten by administrators, reports, refreshes and
  schedulers; what stands is the mark of the model, which none of them lifts but a
  restart.  `VerdictInv` says that it reaches as far as the verdict, and that no request
  for the model already sent over the connection can bring it forward.
- `ConnHealthProofs!RequestsDoAdvance` - `Spec => RequestsAdvance`, for any number of
  requests, connections and attempts: no step of a request leads it round, although
  other requests and the schedulers change its candidates under it and a restart may
  change which there are.  The measure is lexicographic: attempt, pass, candidates
  refused in this pass, stage.  `Untried` is what it needs of a state: a candidate
  being considered has not been refused in this pass, so its refusal is progress.
- `ConnHealthProofs!ActiveRowsAreRoutable` - `Spec => []ActiveIsRoutable`, for any
  number of requests, with token refresh, drops and restarts.  `RoutableInv` says of a
  connection routing does not know (`Unknown`) that its row is inactive, that no request
  runs over it, and that no write that activates is queued; it is the seeding from
  active rows only, and `Candidates`, that keep it so.  With an administrator at work it
  is false until the next restart (section 2, `bare`), so it is stated of `Spec`.
- `ConnHealthProofs!LimitedConnectionsAreFound` - `Spec => []LimitedIsFound`, the safety
  half of `HealableRecovers`, for any number of requests, failures and attempts,
  assuming that requests do not overlap if one of them may be refused for good
  (`RefusalsComeAlone`; with rate limits and exhausted quotas alone they may).
  The overlap of a rate limit and an authentication failure that makes it false is
  described in section 3.  `FoundInv` adds what concerns the way: a detection between
  its two writes is one whose row will be found, or is a refusal (`Awaitable`) that
  memory has already when it is about to be queued (`RefusalIsSeen`), and an absent
  entry is not limited.  What carries the proof is that memory loses the
  cooldown only where a write the scheduler will find is in the queue behind all those
  that would end it, or about to be (`Between`): the lemmas `FoundBehind`, `FoundLast`
  and `FoundDrained` follow it through the queue.
- `ConnHealthProofs!NothingDisablesWithoutCause` - `CauseSpec => []DisabledForCause`,
  for any number of requests, connection tests, administrative acts and quota reports,
  assuming that the threshold is not one (the code's is three): a test of an exhausted
  account counts one, and no two of them add up.  `Clean(c)` says of a
  connection never blamed that its entry and row count at most one, and that no queued
  write, detection, refresh, administrative call or report on its way to either
  disables it; `CauseInv` says so of all of them.  One lemma for each of the five parts
  shows that a step without blame keeps it.
- `WriteQueueProofs` - `TypeCorrect`; `PauseIsBounded`, `StopHasFlushed`, and
  `Refinement`, `Spec => KeepsOrder`, for any number of callers and restores and any
  capacity.  `WorkerInv` says that the worker has an operation in hand exactly where
  its program counter says so; `PauseInv` that the writes executed since a pause, with
  the one about to be, are at most one; `StopInv` that what was owed at the stop is in
  the channel or in hand; `AcceptInv` that a write buffered, in hand or executed has
  been accepted and cannot be sent again, which makes each concrete `Send` an `Accept`
  of a fresh write.
- `TokenRefreshProofs` - `TypeCorrect`; `GateExcludes` and `GateIsNeverLost`, for any
  number of callers: every way out of `refreshToken` reopens the gate, and nobody
  passes a closed one.  `NewestIsStored`, `Spec => []GroupStoresNewest`: `Ordered(c)`
  says row <= queued <= known <= live and that queued tokens do not decrease, so what
  a caller presents successfully is what the row holds; `Carried(c)` that an answer
  being stored is the newest one; `Reaches(c)` that otherwise the newest is in the row
  or queued, unless it was given up.  All three rest on the gate.  `LedgerIsKept`,
  `Spec => KeepsLedger`, shows each step as one step of `TokenLedger` or none.  Two
  facts are needed beyond those: `TwoTokens(c)`, whatever is queued is the newest token
  or the one the row has, so a queued write either stores the newest or changes nothing;
  and `Gone(c)`, a token that was given up is in no answer and no queued write, so it
  cannot turn up in the row after all.
- `EligibilityProofs` - `TypeCorrect`; `CallsCollapse`, for any number of goroutines
  that rebuild; `CoalescingLosesNothing`, `EligSpec => []SnapshotCurrent`, for any
  number of providers, connections and calls, assuming that one goroutine at a time
  rebuilds.  `Right(w, c)` says what the rebuilder knows of a connection in each phase:
  not looked at yet, found as the store has it, published so, or collected so.
  `NothingLost` says it of every connection of whose provider no call is owed and no
  flag is up, the silently changed ones apart; a change with a call makes its provider
  one of those, and a flag falls, and a connection leaves `silent`, only as a rebuild that
  covers it begins.  `InPlace` adds that providers publish their own
  connections only.
- `ComboRoutingProofs` - `TypeCorrect`; `CleanupForgetsNothing` and `NobodyGoesRound`, for any number of requests, steps, connections, models and any
  thresholds.  The first needs `Absent`: whatever the clean-up did not see in the store
  has been out of it, and a request holds a dropped breaker only of such a connection -
  so that a record that goes astray is one nobody will miss.  The second is a measure that each step
  lowers: steps left, connections left, and the stage of the attempt; `RequestOK` knows
  that an answer that had begun is noted as a failure only.
- `ComboRoutingProofs`, second part - `FusionTypeCorrect`; `QuorumIsWaitedFor`,
  `FusionSpec => []QuorumOrTimeout`, for any number of panels and any quorum.
  `HandedOnce` says that each panel has one result, in the channel or received;
  `Counted`, that answers, failures and results in the channel together are the panels
  that are done - so a closed and empty channel means that no answer can still come,
  and a count of failures as high as the panel that all have failed.
- `ProxyPoolsProofs` - `ProxyTypeCorrect`; `CopiesAreCurrent` and `CandidatesAreKept`,
  for any number of pools, requests, administrative calls and tests.  `Fresh(k, v)` says
  that a value read of a row is what the row says, or a call that wrote the row has still
  to drop the copies, or the two have crossed - by a fill, a failed update or a deletion
  whose caller has gone.  It must be said of the copies
  (`CopiesFresh`) and of what a request has read and not yet stored (`FillsFresh`),
  because a fill becomes a copy whatever has happened meanwhile.  For the second,
  `SeekOK` says where each pool of a strict group is while the request looks at them one
  by one and resolves them again: in the list still to be looked at, among those known
  to be alive, a candidate, or seen to be of no use.  What `rotateFrom` returns has the
  same entries.
- `CombosProofs`, first part - `ComboTypeCorrect`; `CombosAreRouted`,
  `ComboSpec => []RoutedAsStored`, for any number of combos, names and calls.  `Kept(c)`
  is what holds of a combo that no two calls have crossed at: one call at a time has it
  in hand, nobody else has its name or is about to take it (`NameIsKept`), the index
  finds it by the name of its copy only, and the copy follows the row unless a call is
  between the two - when `Owed` says what the call has still to do, from its own
  locals, makes up the difference.
- `CombosProofs`, second part - `RotationTypeCorrect`, `SleepsAlone`, `StaysBehind`,
  `EveryPickIsSaved`,
  for any number of combos, flushes and resets.  `Waits`: what waits to be saved is the
  counter; `Behind`: rows and batches are not ahead of memory, nor memory of the picks;
  `AloneInFlush` and `Latest`: where no newer value waits, what is in hand to be
  written, or has been written, is the counter - save where two flushes or a reset have
  crossed; `Resetting` ties a reset between memory and row to a counter that is gone.
- `FreebuffProofs` - `TypeCorrect`, `ClaimsOnce`, `RunsAreFinished`, for any number of
  requests, models and candidates and any retry limits.  `RunOK` relates the flag the
  executor keeps of a run to what upstream has been told; `OnlyWaiting` says that only
  a request that waits is set on another one's claim, which is why an announcement
  reaches all that wait and nobody else.

Each step lemma has one case per action.

Only model-checked: liveness (fairness and ENABLED are beyond the prover: `RequestsEnd`,
`HealableRecovers`, `SnapshotConverges`, `CallersReturn`, `FusionEnds`,
`VerdictsSettle`).  Of the first two the theorems on `RequestsAdvance` and
`LimitedIsFound` are what does not need fairness.  The type invariants of the runs that
put components side by side (`QueuesTypeOK`, `TablesTypeOK`, `AccountsTypeOK`) are
conjunctions of the components' own, each of which is proved with its module.

## 5. What is left

1. What holds of the token of a connection outside a rotation group, where the
   compare-and-swap races; the cache of credentials in front of `TokenRefresh`; the contents of a
   restore.
2. The connection-wide recovery of the prober (`rate_limit_prober.go`, `check`) in
   `ConnHealth`, together with the properties its hazards are still without.
3. The defaults of providers, batch import and deployment of proxy pools.

### Not modelled

- *Usage tracking* (`usage/tracker.go`): `Log` drops an entry when its channel is full,
  one worker writes batches, `Stop` does not wait for the last of them.  Nothing reads
  them back into a decision, and what may be lost is what the code accepts.
- *Session affinity, active requests, response cache, smart routing*: one mutex per
  operation, and a stale answer is judged again like any other candidate, shown on the
  dashboard, or a cache hit.
- *Life-cycle clean-up* (`background/lifecycle.go`): one transaction of DELETEs over
  statuses the present code no longer writes.
- *Translators, the other executors, authentication drivers, console, installer*: the
  greater part of the source.  They convert bodies, speak to upstreams and draw pages;
  what they share between calls is caches of clients and of reasoning items, maps under
  one mutex, and their control as far as it matters is in what routing does with the
  answer.
- *Codex over websockets* (`executor/codex_websockets.go`): keeps a session for each
  connection, with a transcript that is read before a request is sent and extended after
  its answer, so two requests of one session may interleave.  Nothing but its tests
  constructs it (`NewCodexWebsocketsExecutor`), so no behaviour of the program reaches it.
