----------------------------- MODULE ProxyPools -----------------------------
(***************************************************************************)
(* Proxy pools, the group a connection is bound to, and the copies of      *)
(* their rows that a request is resolved from.  A copy is filled by the    *)
(* request that misses it: it reads the row, and stores what it has read   *)
(* later; nothing keeps the two together.  A copy is dropped when it is    *)
(* old, or with all the others by an administrative call that has written  *)
(* a row.  Pools are tested by a health check, now and then, and by the    *)
(* calls that give them an address; the verdict is written to the row some *)
(* time after the address was read from it.  Pools are deleted through the *)
(* write queue: a call that gives up while it waits leaves its deletion to *)
(* be made later, when nobody drops the copies.                            *)
(*                                                                         *)
(* A pool is resolved to a candidate, or to none; the candidates of a      *)
(* request are tried in turn.  The pools of a group are a list, as it was  *)
(* posted, twice in it what was posted twice.  Of an address only its      *)
(* identity is kept.                                                       *)
(* The third source of candidates, the defaults of a provider, is left     *)
(* out.                                                                    *)
(***************************************************************************)
EXTENDS Naturals, Sequences

CONSTANTS Pool,       \* proxy pools
          PoolLists,  \* lists of pools a group may be given
          Address,    \* what proxy_url may be
          Group,      \* the proxy group
          Seeker,     \* requests that resolve at a time
          Editor,     \* administrative calls, and deletions they left behind, at a time
          Tester,     \* healthConcurrency: tests of the health check at a time
          NoDirect,   \* is the provider mimocode, which is never sent to directly?
          MaxEdits    \* bound on the administrative calls

\* The list without any p.
WithoutPool(s, p) == SelectSeq(s, LAMBDA x : x # p)

ASSUME ProxyAssumption ==
  /\ PoolLists \subseteq Seq(Pool)
  /\ \A s \in PoolLists, p \in Pool : WithoutPool(s, p) \in PoolLists
  /\ Group \notin Pool
  /\ {"marker", "direct"} \cap Pool = {}
  /\ NoDirect \in BOOLEAN
  /\ MaxEdits \in Nat

VARIABLES
  poolRow,    \* table proxy_pools
  groupRow,   \* the row of table proxy_groups
  cached,     \* Resolver.pools and Resolver.groups
  seeker,     \* the requests
  editor,     \* the administrative calls
  tester,     \* the tests the health check has under way
  checking,   \* HealthChecker.run, and the pools it has still to test
  edits,      \* administrative calls made (bounded)
  crossed     \* rows a fill or a failed call may have left a stale copy of (history)

proxyVars == <<poolRow, groupRow, cached, seeker, editor, tester, checking, edits, crossed>>

rowVars == <<poolRow, groupRow>>

ProxyKey == Pool \cup {Group}

Missing  == [kind |-> "missing"]   \* no row (any more), or no copy of it
Unborn   == [kind |-> "unborn"]    \* an id that has not been given yet
Verdicts == {"active", "error"}
Copies   == [kind: {"pool"}, url: Address, on: BOOLEAN, status: Verdicts]
PoolRows == [kind: {"pool"}, url: Address, on: BOOLEAN, status: Verdicts, tested: Address]
Groups   == [kind: {"group"}, pools: PoolLists, strict: BOOLEAN, on: BOOLEAN]

InTable(p) == poolRow[p].kind = "pool"

Listed(s) == {s[i] : i \in DOMAIN s}

\* What a query for the row of k finds.  (tested, the address that test_status is
\* about, is a history variable.)
Found(k) ==
  CASE k = Group -> groupRow
    [] k # Group /\ InTable(k) -> [kind |-> "pool", url |-> poolRow[k].url, on |-> poolRow[k].on,
                                   status |-> poolRow[k].status]
    [] OTHER -> Missing

\* Do two copies say the same, the verdict of the tests apart?
SameEndpoint(v, w) ==
  IF v.kind = "pool" /\ w.kind = "pool" THEN v.url = w.url /\ v.on = w.on ELSE v = w

-----------------------------------------------------------------------------
(* A request: the group, each pool of it, those that are alive again, then *)
(* the pool the connection is bound to itself.                             *)

NoFill == [key |-> Group, row |-> Missing]

AtRest == [pc |-> "rest", pinned |-> <<>>, group |-> Missing, todo |-> <<>>, live |-> <<>>,
           unfit |-> {}, cands |-> <<>>, fill |-> NoFill]

SeekerPCs == {"rest", "group", "scan", "resolve", "pinned", "try"}
Routes == Pool \cup {"marker", "direct"}
Fills  == [key: ProxyKey, row: Groups \cup Copies \cup {Missing}]

Seekers == [pc: SeekerPCs, pinned: Seq(Pool), group: Groups \cup {Missing}, todo: Seq(Pool),
            live: Seq(Pool), unfit: SUBSET Pool, cands: Seq(Routes), fill: Fills]

\* Is k the row q looks up next?
Wants(q, k) ==
  \/ seeker[q].pc = "group" /\ k = Group
  \/ /\ seeker[q].pc \in {"scan", "resolve", "pinned"}
     /\ seeker[q].todo # <<>>
     /\ k = Head(seeker[q].todo)

ResolveCandidates(q, bound, pinned) ==
  /\ seeker[q].pc = "rest"
  /\ seeker' = [seeker EXCEPT ![q].pc = IF bound THEN "group" ELSE "pinned",
                              ![q].pinned = IF bound THEN pinned ELSE <<>>,
                              ![q].todo = IF bound THEN <<>> ELSE pinned]
  /\ UNCHANGED <<rowVars, cached, editor, tester, checking, edits, crossed>>

\* A miss reads the row; of one that is not there nothing is kept.
ReadRow(q, k) ==
  /\ Wants(q, k)
  /\ cached[k] = Missing
  /\ seeker[q].fill = NoFill
  /\ Found(k) # Missing
  /\ seeker' = [seeker EXCEPT ![q].fill = [key |-> k, row |-> Found(k)]]
  /\ UNCHANGED <<rowVars, cached, editor, tester, checking, edits, crossed>>

\* getPool and getGroup return v: a copy, or what was read, which is stored now.
Gets(q, k, v) ==
  /\ Wants(q, k)
  /\ IF seeker[q].fill = NoFill
     THEN /\ v = cached[k]
          /\ v = Missing => Found(k) = Missing
          /\ UNCHANGED cached
     ELSE /\ seeker[q].fill = [key |-> k, row |-> v]
          /\ cached' = [cached EXCEPT ![k] = v]
  /\ UNCHANGED <<rowVars, editor, tester, checking, edits, crossed>>

Alive(v)  == v # Missing /\ v.on /\ v.status = "active"
Failed(v) == v # Missing /\ v.on /\ v.status = "error"

Strict(g) == g # Missing /\ g.strict

Fallback(rec) == [rec EXCEPT !.pc = "pinned", !.todo = rec.pinned, !.pinned = <<>>]

GetGroup(q) ==
  \E v \in Groups \cup {Missing} :
    /\ seeker[q].pc = "group"
    /\ Gets(q, Group, v)
    /\ LET rec == [seeker[q] EXCEPT !.fill = NoFill] IN
       seeker' = [seeker EXCEPT ![q] =
         IF v # Missing /\ v.on
         THEN [rec EXCEPT !.pc = "scan", !.group = v, !.todo = v.pools]
         ELSE Fallback(rec)]

\* The pools of a strict group that have been seen to be of no use (history).
Unfit(q, p, v) ==
  IF Alive(v) \/ ~seeker[q].group.strict THEN seeker[q].unfit ELSE seeker[q].unfit \cup {p}

\* activePools
ActivePool(q, p) ==
  \E v \in Copies \cup {Missing} :
    /\ seeker[q].pc = "scan"
    /\ Gets(q, p, v)
    /\ seeker' = [seeker EXCEPT ![q].fill = NoFill,
                                ![q].todo = Tail(@),
                                ![q].live = IF Alive(v) THEN Append(@, p) ELSE @,
                                ![q].unfit = Unfit(q, p, v)]

\* rotateFrom
RotateFrom(s, i) == SubSeq(s, i, Len(s)) \o SubSeq(s, 1, i - 1)

FirstOfItsKind(s, i) == \A j \in DOMAIN s : s[j] = s[i] => i <= j

\* pick: whichever it is that comes first, where it is first listed, the others follow.
PickPool(q) ==
  /\ seeker[q].pc = "scan"
  /\ seeker[q].todo = <<>>
  /\ LET rec == seeker[q] IN
     IF rec.live = <<>>
     THEN seeker' = [seeker EXCEPT ![q] = Fallback(rec)]
     ELSE \E i \in DOMAIN rec.live :
            /\ FirstOfItsKind(rec.live, i)
            /\ seeker' = [seeker EXCEPT ![q] =
                 [rec EXCEPT !.pc = "resolve", !.todo = RotateFrom(rec.live, i), !.live = <<>>]]
  /\ UNCHANGED <<rowVars, cached, editor, tester, checking, edits, crossed>>

\* Fault: a pool in error stands for a direct connection in any group.
ResolvePoolLeniently(q, p) ==
  \E v \in Copies \cup {Missing} :
    /\ seeker[q].pc = "resolve"
    /\ Gets(q, p, v)
    /\ seeker' = [seeker EXCEPT
         ![q].fill = NoFill,
         ![q].todo = Tail(@),
         ![q].cands = @ \o (IF Alive(v) THEN <<p>> ELSE IF Failed(v) THEN <<"marker">> ELSE <<>>)]

\* resolvePool reads the pool again: one that has failed since stands for a
\* direct connection, unless the group is strict.
ResolvePool(q, p) ==
  \E v \in Copies \cup {Missing} :
    /\ seeker[q].pc = "resolve"
    /\ Gets(q, p, v)
    /\ seeker' = [seeker EXCEPT
         ![q].fill = NoFill,
         ![q].todo = Tail(@),
         ![q].unfit = Unfit(q, p, v),
         ![q].cands = @ \o (CASE Alive(v) -> <<p>>
                              [] Failed(v) /\ ~seeker[q].group.strict -> <<"marker">>
                              [] OTHER -> <<>>)]

\* Without a candidate the strictness of the group is forgotten.
GroupResolved(q) ==
  /\ seeker[q].pc = "resolve"
  /\ seeker[q].todo = <<>>
  /\ LET rec == seeker[q] IN
     seeker' = [seeker EXCEPT ![q] =
       IF rec.cands = <<>> THEN Fallback(rec)
       ELSE [rec EXCEPT !.pc = "try", !.pinned = <<>>,
                        !.cands = IF rec.group.strict \/ NoDirect THEN rec.cands
                                  ELSE Append(rec.cands, "direct")]]
  /\ UNCHANGED <<rowVars, cached, editor, tester, checking, edits, crossed>>

TryLast(rec, cands) ==
  [rec EXCEPT !.pc = "try", !.todo = <<>>, !.fill = NoFill,
              !.cands = IF cands # <<>> /\ NoDirect THEN cands ELSE Append(cands, "direct")]

PinnedPool(q, p) ==
  \E v \in Copies \cup {Missing} :
    /\ seeker[q].pc = "pinned"
    /\ Gets(q, p, v)
    /\ seeker' = [seeker EXCEPT ![q] = TryLast(@, IF Alive(v) THEN <<p>> ELSE <<>>)]

NotPinned(q) ==
  /\ seeker[q].pc = "pinned"
  /\ seeker[q].todo = <<>>
  /\ seeker' = [seeker EXCEPT ![q] = TryLast(@, <<>>)]
  /\ UNCHANGED <<rowVars, cached, editor, tester, checking, edits, crossed>>

\* The candidates are tried in turn, which changes nothing here.
Tried(q) ==
  /\ seeker[q].pc = "try"
  /\ seeker' = [seeker EXCEPT ![q] = AtRest]
  /\ UNCHANGED <<rowVars, cached, editor, tester, checking, edits, crossed>>

-----------------------------------------------------------------------------
(* Copies are given up. *)

NoEdit  == [pc |-> "none"]
Edits   == [pc: {"update", "retest", "test"}, key: Pool, url: Address]
Deletes == [pc: {"deleting", "orphaned", "deleted"}, key: Pool]
Written == [pc: {"invalidate"}, key: ProxyKey]

\* A request is about to store what the row said before.
Overtaken(k) ==
  \E q \in Seeker : /\ seeker[q].fill # NoFill
                    /\ seeker[q].fill.key = k
                    /\ ~SameEndpoint(seeker[q].fill.row, Found(k))

Expire(k) ==
  /\ cached[k] # Missing
  /\ cached' = [cached EXCEPT ![k] = Missing]
  /\ crossed' = IF Overtaken(k) THEN crossed ELSE crossed \ {k}
  /\ UNCHANGED <<rowVars, seeker, editor, tester, checking, edits>>

\* Fault: the groups are kept.
InvalidatePools(a) ==
  /\ editor[a].pc \in {"invalidate", "deleted"}
  /\ cached' = [k \in ProxyKey |-> IF k = Group THEN cached[k] ELSE Missing]
  /\ editor' = [editor EXCEPT ![a] = NoEdit]
  /\ crossed' = {k \in ProxyKey : Overtaken(k)}
  /\ UNCHANGED <<rowVars, seeker, tester, checking, edits>>

Invalidate(a) ==
  /\ editor[a].pc \in {"invalidate", "deleted"}
  /\ cached' = [k \in ProxyKey |-> Missing]
  /\ editor' = [editor EXCEPT ![a] = NoEdit]
  /\ crossed' = {k \in ProxyKey : Overtaken(k)}
  /\ UNCHANGED <<rowVars, seeker, tester, checking, edits>>

-----------------------------------------------------------------------------
(* Administrative calls. *)

BeginEdit(a, edit) ==
  /\ editor[a] = NoEdit
  /\ edits < MaxEdits
  /\ edits' = edits + 1
  /\ editor' = [editor EXCEPT ![a] = edit]
  /\ UNCHANGED <<cached, seeker, tester, checking, crossed>>

RowWritten(k) == [pc |-> "invalidate", key |-> k]

\* Create tests the address before it inserts the row.  (Addresses that are in
\* use are refused by a look before the write; here two pools may have one.)
CreatePool(a, p, u, on) ==
  /\ poolRow[p] = Unborn
  /\ BeginEdit(a, RowWritten(p))
  /\ poolRow' = [poolRow EXCEPT ![p] =
       [kind |-> "pool", url |-> u, on |-> on, status |-> "active", tested |-> u]]
  /\ UNCHANGED groupRow

\* Delete reads the row, and has deletePoolCascade write through the queue.
DeletePool(a, p) ==
  /\ InTable(p)
  /\ BeginEdit(a, [pc |-> "deleting", key |-> p])
  /\ UNCHANGED rowVars

\* deletePoolCascadeTx, in one transaction: a group left without pools goes too.
Cascade(p) ==
  /\ poolRow' = [poolRow EXCEPT ![p] = Missing]
  /\ groupRow' = IF groupRow = Missing \/ p \notin Listed(groupRow.pools) THEN groupRow
                 ELSE IF WithoutPool(groupRow.pools, p) = <<>> THEN Missing
                 ELSE [groupRow EXCEPT !.pools = WithoutPool(@, p)]

DeleteRows(a) ==
  /\ editor[a].pc = "deleting"
  /\ Cascade(editor[a].key)
  /\ editor' = [editor EXCEPT ![a].pc = "deleted"]
  /\ UNCHANGED <<cached, seeker, tester, checking, edits, crossed>>

\* The context of the request is over while Do waits - for room in the queue, for
\* the worker, or no longer - and the call returns without Invalidate.
GiveUpDelete(a) ==
  /\ \/ /\ editor[a].pc = "deleting"
        /\ editor' \in {[editor EXCEPT ![a] = NoEdit], [editor EXCEPT ![a].pc = "orphaned"]}
        /\ UNCHANGED crossed
     \/ /\ editor[a].pc = "deleted"
        /\ editor' = [editor EXCEPT ![a] = NoEdit]
        /\ crossed' = crossed \cup {editor[a].key, Group}
  /\ UNCHANGED <<rowVars, cached, seeker, tester, checking, edits>>

\* The worker comes to a deletion whose caller has gone.
DeleteLate(a) ==
  /\ editor[a].pc = "orphaned"
  /\ Cascade(editor[a].key)
  /\ editor' = [editor EXCEPT ![a] = NoEdit]
  /\ crossed' = crossed \cup {editor[a].key, Group}
  /\ UNCHANGED <<cached, seeker, tester, checking, edits>>

\* Update, and Delete, of a group.  Its pools are looked up before it is
\* written, and may have been deleted by then.
SetGroup(a, g) ==
  /\ groupRow # Missing
  /\ BeginEdit(a, RowWritten(Group))
  /\ groupRow' = g
  /\ UNCHANGED poolRow

DeleteGroup(a) == SetGroup(a, Missing)

UpdateGroup(a, g) == SetGroup(a, g) /\ \A p \in Listed(g.pools) : poolRow[p] # Unborn

\* Update reads the row before it writes it, and Test before it tests it.
OpenPool(a, p, pc) ==
  /\ InTable(p)
  /\ BeginEdit(a, [pc |-> pc, key |-> p, url |-> poolRow[p].url])
  /\ UNCHANGED rowVars

WritePool(p, row) == poolRow' = IF InTable(p) THEN [poolRow EXCEPT ![p] = row] ELSE poolRow

\* The address is tested if it is not the one that was read.
WriteAddress(a, u) ==
  LET p == editor[a].key IN
  /\ editor[a].pc = "update"
  /\ WritePool(p, [poolRow[p] EXCEPT !.url = u])
  /\ editor' = [editor EXCEPT ![a] =
       IF u # editor[a].url THEN [@ EXCEPT !.pc = "retest", !.url = u] ELSE RowWritten(p)]
  /\ UNCHANGED <<groupRow, cached, seeker, tester, checking, edits, crossed>>

\* isActive and testStatus, as the client wants them.
SwitchPool(a, on, status) ==
  LET p == editor[a].key IN
  /\ editor[a].pc = "update"
  /\ WritePool(p, [poolRow[p] EXCEPT !.on = on, !.status = status])
  /\ editor' = [editor EXCEPT ![a] = RowWritten(p)]
  /\ UNCHANGED <<groupRow, cached, seeker, tester, checking, edits, crossed>>

Judge(p, u, status) == WritePool(p, [poolRow[p] EXCEPT !.status = status, !.tested = u])

Retested(a, status) ==
  /\ editor[a].pc \in {"retest", "test"}
  /\ Judge(editor[a].key, editor[a].url, status)
  /\ editor' = [editor EXCEPT ![a] = RowWritten(editor[a].key)]
  /\ UNCHANGED <<groupRow, cached, seeker, tester, checking, edits, crossed>>

\* The second statement of an update fails: the call returns without Invalidate.
RetestFails(a) ==
  /\ editor[a].pc = "retest"
  /\ editor' = [editor EXCEPT ![a] = NoEdit]
  /\ crossed' = crossed \cup {editor[a].key}
  /\ UNCHANGED <<rowVars, cached, seeker, tester, checking, edits>>

-----------------------------------------------------------------------------
(* The health check: one at a time. *)

NoTest == [key |-> Group]
Tests  == [key: Pool, url: Address] \cup {NoTest}

InUse(p) == InTable(p) /\ poolRow[p].on

\* Fault: pools in error are given up.
RunNowOnHealthy ==
  /\ ~checking.run
  /\ checking' = [run |-> TRUE, todo |-> {p \in Pool : InUse(p) /\ poolRow[p].status = "active"}]
  /\ UNCHANGED <<rowVars, cached, seeker, editor, tester, edits, crossed>>

RunNow ==
  /\ ~checking.run
  /\ checking' = [run |-> TRUE, todo |-> {p \in Pool : InUse(p)}]
  /\ UNCHANGED <<rowVars, cached, seeker, editor, tester, edits, crossed>>

TestPool(t, p) ==
  /\ tester[t] = NoTest
  /\ p \in checking.todo
  /\ checking' = [checking EXCEPT !.todo = @ \ {p}]
  /\ tester' = [tester EXCEPT ![t] = IF InTable(p) THEN [key |-> p, url |-> poolRow[p].url] ELSE @]
  /\ UNCHANGED <<rowVars, cached, seeker, editor, edits, crossed>>

Tested(t, status) ==
  /\ tester[t] # NoTest
  /\ Judge(tester[t].key, tester[t].url, status)
  /\ tester' = [tester EXCEPT ![t] = NoTest]
  /\ UNCHANGED <<groupRow, cached, seeker, editor, checking, edits, crossed>>

RunOver ==
  /\ checking.run
  /\ checking.todo = {}
  /\ \A t \in Tester : tester[t] = NoTest
  /\ checking' = [checking EXCEPT !.run = FALSE]
  /\ UNCHANGED <<rowVars, cached, seeker, editor, tester, edits, crossed>>

-----------------------------------------------------------------------------
ProxyInit ==
  /\ poolRow \in [Pool -> {Unborn} \cup {row \in PoolRows : row.on /\ row.status = "active"
                                                           /\ row.tested = row.url}]
  /\ groupRow \in {g \in Groups : g.on /\ Listed(g.pools) = {p \in Pool : InTable(p)}}
  /\ cached = [k \in ProxyKey |-> Missing]
  /\ seeker = [q \in Seeker |-> AtRest]
  /\ editor = [a \in Editor |-> NoEdit]
  /\ tester = [t \in Tester |-> NoTest]
  /\ checking = [run |-> FALSE, todo |-> {}]
  /\ edits = 0
  /\ crossed = {}

Seek(q) ==
  \/ \E bound \in BOOLEAN, pinned \in {<<>>} \cup {<<p>> : p \in Pool} :
       ResolveCandidates(q, bound, pinned)
  \/ \E k \in ProxyKey : ReadRow(q, k)
  \/ GetGroup(q)
  \/ PickPool(q)
  \/ \E p \in Pool : ActivePool(q, p) \/ ResolvePool(q, p) \/ PinnedPool(q, p)
  \/ GroupResolved(q)
  \/ NotPinned(q)
  \/ Tried(q)

Administer(a) ==
  \/ \E p \in Pool, u \in Address, on \in BOOLEAN : CreatePool(a, p, u, on)
  \/ \E p \in Pool : DeletePool(a, p)
  \/ DeleteRows(a)
  \/ GiveUpDelete(a)
  \/ DeleteLate(a)
  \/ \E g \in Groups : UpdateGroup(a, g)
  \/ DeleteGroup(a)
  \/ \E p \in Pool, pc \in {"update", "test"} : OpenPool(a, p, pc)
  \/ \E u \in Address : WriteAddress(a, u)
  \/ \E on \in BOOLEAN, status \in Verdicts : SwitchPool(a, on, status)
  \/ \E status \in Verdicts : Retested(a, status)
  \/ RetestFails(a)
  \/ Invalidate(a)

CheckPools(t) ==
  \/ \E p \in Pool : TestPool(t, p)
  \/ \E status \in Verdicts : Tested(t, status)

ProxyNext ==
  \/ \E q \in Seeker : Seek(q)
  \/ \E k \in ProxyKey : Expire(k)
  \/ \E a \in Editor : Administer(a)
  \/ \E t \in Tester : CheckPools(t)
  \/ RunNow
  \/ RunOver

ProxySpec == ProxyInit /\ [][ProxyNext]_proxyVars

\* The health check is made time and again.
ProxyFairSpec ==
  /\ ProxySpec
  /\ \A t \in Tester : WF_proxyVars(CheckPools(t))
  /\ WF_proxyVars(RunNow \/ RunOver)

-----------------------------------------------------------------------------
(* Properties. *)

\* Rows, copies, requests, calls and tests are of the type the code gives them.
ProxyTypeOK ==
  /\ poolRow \in [Pool -> PoolRows \cup {Missing, Unborn}]
  /\ groupRow \in Groups \cup {Missing}
  /\ cached \in [ProxyKey -> Groups \cup Copies \cup {Missing}]
  /\ seeker \in [Seeker -> Seekers]
  /\ editor \in [Editor -> {NoEdit} \cup Edits \cup Deletes \cup Written]
  /\ tester \in [Tester -> Tests]
  /\ checking \in [run: BOOLEAN, todo: SUBSET Pool]
  /\ edits \in 0..MaxEdits
  /\ crossed \subseteq ProxyKey

\* Has a's call written the row of k?
HasWritten(a, k) ==
  \/ editor[a].pc \in {"retest", "invalidate"} /\ editor[a].key = k
  \/ editor[a].pc = "deleted" /\ k \in {editor[a].key, Group}

\* Once a call that has written a row is over no request is resolved from what
\* the row said before - unless a request that had read the old row stores it
\* when the copies have been dropped, or the call has failed half way or given up
\* waiting for the deletion of a pool.  Such a copy stays until the next call that
\* drops all copies, or until it is old.
CacheCurrent ==
  \A k \in ProxyKey \ crossed :
    \/ cached[k] = Missing
    \/ SameEndpoint(cached[k], Found(k))
    \/ \E a \in Editor : HasWritten(a, k)

Tries(q, cand) == \E i \in DOMAIN seeker[q].cands : seeker[q].cands[i] = cand

\* A strict group is left only when each of its pools has been seen to be of no
\* use; and a pool of it that was never seen to be of no use is tried.
CandidatesKept ==
  \A q \in Seeker : seeker[q].pc = "try" /\ Strict(seeker[q].group) =>
    \A p \in Listed(seeker[q].group.pools) \ seeker[q].unfit :
      Tries(q, p) /\ ~Tries(q, "direct") /\ ~Tries(q, "marker")

\* Whatever tests and changes of an address have crossed, when nothing is
\* changed any more each pool in use is judged by a test of its present address.
VerdictsSettle == <>[](\A p \in Pool : InUse(p) => poolRow[p].tested = poolRow[p].url)
=============================================================================
