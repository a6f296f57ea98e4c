--------------------------- MODULE ProxyPoolsProofs ---------------------------
(***************************************************************************)
(* What the copies of proxy pools and the candidates of a request are      *)
(* worth, for any number of pools, requests, administrative calls and      *)
(* tests.                                                                  *)
(***************************************************************************)
EXTENDS ProxyPools, SequenceTheorems, TLAPS

\* A copy, or what a request has read and is about to store, says what the row
\* says - unless a call that wrote the row has still to drop the copies, or has
\* crossed the request or failed before.
Fresh(k, v) == k \in crossed \/ SameEndpoint(v, Found(k)) \/ \E a \in Editor : HasWritten(a, k)

WillBeFresh(k, v) ==
  k \in crossed' \/ SameEndpoint(v, Found(k)') \/ \E a \in Editor : HasWritten(a, k)'

CopiesFresh == \A k \in ProxyKey : cached[k] # Missing => Fresh(k, cached[k])
FillsFresh  == \A q \in Seeker : seeker[q].fill # NoFill => Fresh(seeker[q].fill.key, seeker[q].fill.row)

\* The pools of a strict group that are not among S.
Spared(rec, S) == Strict(rec.group) => Listed(rec.group.pools) \subseteq S

\* Where a request has come to, each pool of a strict group is still to be looked
\* at, is known to be alive, is a candidate, or has been seen to be of no use.
SeekOK(rec) ==
  /\ rec.pc \notin {"resolve", "try"} => rec.cands = <<>>
  /\ rec.pc \in {"rest", "group"} => rec.group = Missing
  /\ rec.pc \in {"scan", "resolve"} => rec.group # Missing
  /\ rec.pc = "scan" => Spared(rec, Listed(rec.todo) \cup Listed(rec.live) \cup rec.unfit)
  /\ rec.pc = "resolve" =>
       /\ Spared(rec, Listed(rec.todo) \cup rec.unfit \cup Listed(rec.cands))
       /\ "direct" \notin Listed(rec.cands)
       /\ Strict(rec.group) => "marker" \notin Listed(rec.cands)
  /\ rec.pc = "pinned" => Spared(rec, rec.unfit)
  /\ rec.pc = "try" =>
       /\ Spared(rec, rec.unfit \cup Listed(rec.cands))
       /\ Listed(rec.cands) \cap {"direct", "marker"} # {} => Spared(rec, rec.unfit)

SeekInv == \A q \in Seeker : SeekOK(seeker[q])
ProxyInv == ProxyTypeOK /\ CopiesFresh /\ FillsFresh /\ SeekInv

USE ProxyAssumption

-----------------------------------------------------------------------------
(* Rows, copies and calls. *)

LEMMA Kinds ==
  /\ \A g \in Groups : g.kind = "group" /\ g # Missing
  /\ \A v \in Copies : v.kind = "pool" /\ v # Missing
  /\ \A v \in PoolRows : v.kind = "pool" /\ v # Missing /\ v # Unborn
  /\ Missing.kind = "missing" /\ Unborn.kind = "unborn"
  /\ NoFill \in Fills /\ \A p \in Pool : p # Group
  BY DEF Groups, Copies, PoolRows, Missing, Unborn, NoFill, Fills, ProxyKey

LEMMA FoundIs ==
  /\ Found(Group) = groupRow
  /\ \A p \in Pool : /\ ~InTable(p) => Found(p) = Missing
                     /\ InTable(p) => Found(p) = [kind |-> "pool", url |-> poolRow[p].url,
                                                  on |-> poolRow[p].on, status |-> poolRow[p].status]
<1>1. \A p \in Pool : p # Group OBVIOUS
<1> QED BY <1>1, Zenon DEF Found

LEMMA FoundWillBe ==
  /\ Found(Group)' = groupRow'
  /\ \A p \in Pool : /\ ~InTable(p)' => Found(p)' = Missing
                     /\ InTable(p)' => Found(p)' = [kind |-> "pool", url |-> poolRow'[p].url,
                                                    on |-> poolRow'[p].on, status |-> poolRow'[p].status]
<1>1. \A p \in Pool : p # Group OBVIOUS
<1> QED BY <1>1, Zenon DEF Found, InTable

LEMMA RowTyped ==
  ASSUME ProxyTypeOK
  PROVE  /\ \A p \in Pool : InTable(p) => poolRow[p] \in PoolRows
         /\ \A k \in ProxyKey : Found(k) \in Groups \cup Copies \cup {Missing}
<1>1. \A p \in Pool : InTable(p) => poolRow[p] \in PoolRows
  BY Kinds DEF ProxyTypeOK, InTable
<1>2. ASSUME NEW p \in Pool PROVE Found(p) \in Copies \cup {Missing}
  <2>1. CASE ~InTable(p) BY <2>1, FoundIs
  <2>2. CASE InTable(p)
    <3>1. poolRow[p] \in PoolRows BY <1>1, <2>2
    <3>2. Found(p) = [kind |-> "pool", url |-> poolRow[p].url, on |-> poolRow[p].on,
                      status |-> poolRow[p].status]
      BY <2>2, FoundIs
    <3> QED BY <3>1, <3>2 DEF PoolRows, Copies
  <2> QED BY <2>1, <2>2
<1> QED BY <1>1, <1>2, FoundIs DEF ProxyTypeOK, ProxyKey

\* Two rows alike are told apart by no copy.
Alike(w, x) == w = x \/ (w.kind = "pool" /\ x.kind = "pool" /\ w.url = x.url /\ w.on = x.on)

LEMMA AlikeToAll ==
  ASSUME NEW v, NEW w, NEW x, Alike(w, x), SameEndpoint(v, w)
  PROVE  SameEndpoint(v, x)
  BY DEF Alike, SameEndpoint

FreshStays == \A k \in ProxyKey : \A v : Fresh(k, v) => WillBeFresh(k, v)

\* A call that changes rows has them among those it has written, and one that is
\* over leaves none that has changed.
LEMMA EditStays ==
  ASSUME NEW a \in Editor, NEW e, NEW K, editor \in [Editor -> {NoEdit} \cup Edits \cup Deletes \cup Written],
         editor' = [editor EXCEPT ![a] = e],
         crossed \subseteq crossed',
         \A k \in ProxyKey \ K : Alike(Found(k), Found(k)'),
         \A k \in ProxyKey \cap K : HasWritten(a, k)',
         \A k \in ProxyKey : HasWritten(a, k) => k \in crossed' \/ HasWritten(a, k)'
  PROVE  FreshStays
<1> SUFFICES ASSUME NEW k \in ProxyKey, NEW v, Fresh(k, v) PROVE WillBeFresh(k, v)
  BY DEF FreshStays
<1>1. \A b \in Editor \ {a} : HasWritten(b, k) => HasWritten(b, k)' BY DEF HasWritten
<1>2. CASE k \in crossed BY <1>2 DEF Fresh, WillBeFresh
<1>3. CASE SameEndpoint(v, Found(k))
  <2>1. CASE k \in K BY <2>1 DEF Fresh, WillBeFresh
  <2>2. CASE k \notin K
    <3>1. SameEndpoint(v, Found(k)') BY <1>3, <2>2, AlikeToAll
    <3> QED BY <3>1 DEF Fresh, WillBeFresh, SameEndpoint
  <2> QED BY <2>1, <2>2
<1>4. ASSUME NEW b \in Editor, HasWritten(b, k) PROVE WillBeFresh(k, v)
  BY <1>1, <1>4 DEF Fresh, WillBeFresh
<1> QED BY <1>2, <1>3, <1>4 DEF Fresh, WillBeFresh

\* What has changed but the verdict of a test is of no concern.
LEMMA QuietStays ==
  ASSUME UNCHANGED <<editor, crossed>>, \A k \in ProxyKey : Alike(Found(k), Found(k)')
  PROVE  FreshStays
<1> SUFFICES ASSUME NEW k \in ProxyKey, NEW v, Fresh(k, v) PROVE WillBeFresh(k, v)
  BY DEF FreshStays
<1>1. \A b \in Editor : HasWritten(b, k) => HasWritten(b, k)' BY DEF HasWritten
<1>2. SameEndpoint(v, Found(k)) => SameEndpoint(v, Found(k)') BY AlikeToAll
<1> QED BY <1>1, <1>2 DEF Fresh, WillBeFresh, SameEndpoint

LEMMA RowsStay ==
  ASSUME UNCHANGED rowVars
  PROVE  \A k \in ProxyKey : Found(k)' = Found(k) /\ Alike(Found(k), Found(k)')
  BY DEF rowVars, Found, InTable, Alike

\* A verdict is written.
LEMMA Judged ==
  ASSUME ProxyTypeOK, NEW p \in Pool, NEW u \in Address, NEW status \in Verdicts,
         Judge(p, u, status), UNCHANGED groupRow
  PROVE  /\ poolRow' \in [Pool -> PoolRows \cup {Missing, Unborn}]
         /\ \A k \in ProxyKey : Alike(Found(k), Found(k)')
<1>1. poolRow \in [Pool -> PoolRows \cup {Missing, Unborn}] BY DEF ProxyTypeOK
<1>2. CASE ~InTable(p)
  <2>1. UNCHANGED rowVars BY <1>2, Zenon DEF Judge, WritePool, rowVars
  <2> QED BY <1>1, <2>1, RowsStay DEF rowVars
<1>3. CASE InTable(p)
  <2> DEFINE new == [poolRow[p] EXCEPT !.status = status, !.tested = u]
  <2>1. poolRow[p] \in PoolRows BY <1>3, RowTyped
  <2>2. new \in PoolRows /\ new.url = poolRow[p].url /\ new.on = poolRow[p].on
    BY <2>1 DEF PoolRows
  <2>3. poolRow' = [poolRow EXCEPT ![p] = new] BY <1>3 DEF Judge, WritePool
  <2> HIDE DEF new
  <2>4. poolRow' \in [Pool -> PoolRows \cup {Missing, Unborn}] BY <1>1, <2>2, <2>3
  <2>5. InTable(p)' /\ poolRow'[p] = new BY <1>1, <2>2, <2>3, Kinds DEF InTable
  <2>6. Alike(Found(p), Found(p)') BY <1>3, <2>2, <2>5, FoundIs, FoundWillBe DEF Alike
  <2>7. \A k \in Pool \ {p} : poolRow'[k] = poolRow[k] /\ (InTable(k)' <=> InTable(k))
    BY <1>1, <2>3 DEF InTable
  <2>8. \A k \in Pool \ {p} : Found(k)' = Found(k) BY <2>7, FoundIs, FoundWillBe
  <2>9. Found(Group)' = Found(Group) BY FoundIs, FoundWillBe
  <2> QED BY <2>4, <2>6, <2>8, <2>9 DEF Alike, ProxyKey
<1> QED BY <1>2, <1>3

-----------------------------------------------------------------------------
(* Candidates. *)

LEMMA OneMore ==
  ASSUME NEW S, NEW s \in Seq(S), NEW x \in S
  PROVE  /\ s \o <<x>> \in Seq(S) /\ Append(s, x) = s \o <<x>> /\ s \o <<x>> # <<>>
         /\ Listed(s \o <<x>>) = Listed(s) \cup {x}
<1> DEFINE t == s \o <<x>>
<1>1. /\ t \in Seq(S) /\ Append(s, x) = t /\ Len(t) = Len(s) + 1 /\ t # <<>>
      /\ \A i \in 1..Len(s) : t[i] = s[i]
      /\ t[Len(s) + 1] = x
  OBVIOUS
<1>2. DOMAIN s = 1..Len(s) /\ DOMAIN t = 1..(Len(s) + 1) /\ Len(s) \in Nat BY <1>1
<1> HIDE DEF t
<1>3. Listed(t) = Listed(s) \cup {x} BY <1>1, <1>2 DEF Listed
<1> QED BY <1>1, <1>3 DEF t

LEMMA OnePoolMore ==
  ASSUME NEW s \in Seq(Pool), NEW p \in Pool
  PROVE  Append(s, p) \in Seq(Pool) /\ Listed(Append(s, p)) = Listed(s) \cup {p}
<1>1. Append(s, p) \in Seq(Pool) /\ Append(s, p) = s \o <<p>> OBVIOUS
<1>2. Listed(s \o <<p>>) = Listed(s) \cup {p} BY OneMore
<1> QED BY <1>1, <1>2

LEMMA NoneYet ==
  ASSUME NEW S
  PROVE  /\ <<>> \in Seq(S) /\ Listed(<<>>) = {}
         /\ \A s \in Seq(S) : s \o <<>> = s
  BY DEF Listed

LEMMA OneOnly ==
  ASSUME NEW S, NEW x \in S
  PROVE  <<x>> \in Seq(S) /\ <<x>> # <<>> /\ Append(<<>>, x) = <<x>> /\ Listed(<<x>>) = {x}
<1>1. <<x>> \in Seq(S) /\ <<x>> # <<>> /\ Append(<<>>, x) = <<x>> OBVIOUS
<1>2. DOMAIN <<x>> = {1} /\ <<x>>[1] = x OBVIOUS
<1>3. Listed(<<x>>) = {x} BY <1>2 DEF Listed
<1> QED BY <1>1, <1>3

LEMMA OneLess ==
  ASSUME NEW S, NEW s \in Seq(S), s # <<>>
  PROVE  Tail(s) \in Seq(S) /\ Head(s) \in S /\ Listed(s) = {Head(s)} \cup Listed(Tail(s))
<1>1. /\ Tail(s) \in Seq(S) /\ Head(s) \in S /\ Head(s) = s[1] /\ Len(s) \in Nat \ {0}
      /\ DOMAIN s = 1..Len(s) /\ DOMAIN Tail(s) = 1..(Len(s) - 1)
      /\ \A i \in 1..(Len(s) - 1) : Tail(s)[i] = s[i + 1]
  OBVIOUS
<1>2. \A i \in 1..Len(s) : i = 1 \/ (i - 1 \in 1..(Len(s) - 1) /\ s[i] = Tail(s)[i - 1]) BY <1>1
<1>3. \A i \in 1..(Len(s) - 1) : i + 1 \in 1..Len(s) BY <1>1
<1>4. 1 \in 1..Len(s) BY <1>1
<1>5. Listed(s) \subseteq {Head(s)} \cup Listed(Tail(s))
  <2> SUFFICES ASSUME NEW i \in 1..Len(s) PROVE s[i] \in {Head(s)} \cup Listed(Tail(s))
    BY <1>1 DEF Listed
  <2>1. CASE i = 1 BY <1>1, <2>1
  <2>2. CASE i # 1
    <3>1. i - 1 \in DOMAIN Tail(s) /\ s[i] = Tail(s)[i - 1] BY <1>1, <1>2, <2>2
    <3> QED BY <3>1, Zenon DEF Listed
  <2> QED BY <2>1, <2>2
<1>6. Head(s) \in Listed(s) BY <1>1, <1>4 DEF Listed
<1>7. Listed(Tail(s)) \subseteq Listed(s) BY <1>1, <1>3 DEF Listed
<1> QED BY <1>1, <1>5, <1>6, <1>7

LEMMA Rotated ==
  ASSUME NEW S, NEW s \in Seq(S), NEW k \in DOMAIN s
  PROVE  RotateFrom(s, k) \in Seq(S) /\ Listed(RotateFrom(s, k)) = Listed(s)
<1> DEFINE l == SubSeq(s, k, Len(s))
           f == SubSeq(s, 1, k - 1)
           t == l \o f
<1>1. Len(s) \in Nat /\ k \in 1..Len(s) /\ DOMAIN s = 1..Len(s) OBVIOUS
<1>2. /\ l \in Seq(S) /\ Len(l) = Len(s) - k + 1
      /\ \A i \in 1..(Len(s) - k + 1) : l[i] = s[k + i - 1]
  BY <1>1
<1>3. /\ f \in Seq(S) /\ Len(f) = k - 1
      /\ \A i \in 1..(k - 1) : f[i] = s[i]
  BY <1>1
<1> HIDE DEF l, f
<1>4. /\ t \in Seq(S) /\ Len(t) = Len(s)
      /\ \A i \in 1..Len(l) : t[i] = l[i]
      /\ \A i \in 1..Len(f) : t[Len(l) + i] = f[i]
  <2>1. /\ t \in Seq(S) /\ Len(t) = Len(l) + Len(f)
        /\ \A i \in 1..(Len(l) + Len(f)) : t[i] = IF i <= Len(l) THEN l[i] ELSE f[i - Len(l)]
    BY <1>2, <1>3, ConcatProperties
  <2>2. Len(l) \in Nat /\ Len(f) \in Nat BY <1>1, <1>2, <1>3
  <2> HIDE DEF t
  <2>3. ASSUME NEW i \in 1..Len(f) PROVE t[Len(l) + i] = f[i]
    <3> DEFINE h == Len(l) + i
    <3>1. h \in 1..(Len(l) + Len(f)) /\ ~(h <= Len(l)) /\ h - Len(l) = i BY <2>2
    <3> HIDE DEF h
    <3>2. t[h] = f[i] BY <2>1, <3>1
    <3> QED BY <3>2 DEF h
  <2>4. ASSUME NEW i \in 1..Len(l) PROVE t[i] = l[i]
    <3>1. i \in 1..(Len(l) + Len(f)) /\ i <= Len(l) BY <2>2
    <3> QED BY <2>1, <3>1
  <2>5. Len(l) + Len(f) = Len(s) BY <1>1, <1>2, <1>3
  <2> QED BY <2>1, <2>3, <2>4, <2>5
<1>5. DOMAIN t = 1..Len(s) BY <1>4
<1> HIDE DEF t
<1>6. ASSUME NEW i \in 1..Len(s) PROVE \E j \in 1..Len(s) : t[i] = s[j]
  <2>1. CASE i <= Len(s) - k + 1
    <3>1. i \in 1..(Len(s) - k + 1) /\ k + i - 1 \in 1..Len(s) BY <1>1, <2>1
    <3>2. t[i] = s[k + i - 1] BY <1>2, <1>4, <3>1
    <3> QED BY <3>1, <3>2
  <2>2. CASE ~(i <= Len(s) - k + 1)
    <3> DEFINE h == i - (Len(s) - k + 1)
    <3>1. h \in 1..(k - 1) /\ h \in 1..Len(s) /\ i = Len(l) + h BY <1>1, <1>2, <2>2
    <3>2. t[i] = s[h] BY <1>3, <1>4, <3>1
    <3> QED BY <3>1, <3>2
  <2> QED BY <2>1, <2>2
<1>7. ASSUME NEW j \in 1..Len(s) PROVE \E i \in 1..Len(s) : t[i] = s[j]
  <2>1. CASE j >= k
    <3> DEFINE h == j - k + 1
    <3>1. h \in 1..(Len(s) - k + 1) /\ h \in 1..Len(s) /\ j = k + h - 1 BY <1>1, <2>1
    <3>2. t[h] = s[j] BY <1>2, <1>4, <3>1
    <3> QED BY <3>1, <3>2
  <2>2. CASE ~(j >= k)
    <3>1. j \in 1..(k - 1) /\ Len(l) + j \in 1..Len(s) BY <1>1, <1>2, <2>2
    <3>2. t[Len(l) + j] = s[j] BY <1>3, <1>4, <3>1
    <3> QED BY <3>1, <3>2
  <2> QED BY <2>1, <2>2
<1>8. Listed(t) = Listed(s)
  <2>1. Listed(t) = {t[i] : i \in 1..Len(s)} /\ Listed(s) = {s[i] : i \in 1..Len(s)}
    BY <1>1, <1>5 DEF Listed
  <2> QED BY <1>6, <1>7, <2>1, Zenon
<1>9. RotateFrom(s, k) = t BY DEF RotateFrom, t, l, f
<1> QED BY <1>4, <1>8, <1>9

-----------------------------------------------------------------------------
(* A request takes a step. *)

StoresFill(q) ==
  /\ seeker[q].fill # NoFill
  /\ cached' = [cached EXCEPT ![seeker[q].fill.key] = seeker[q].fill.row]

\* The step of a request keeps to its record, and stores only what it has read.
Moves(q, new) ==
  /\ seeker' = [seeker EXCEPT ![q] = new]
  /\ new \in Seekers
  /\ SeekOK(new)
  /\ new.fill \in {NoFill, seeker[q].fill} \/ new.fill.row = Found(new.fill.key)
  /\ UNCHANGED cached \/ StoresFill(q)
  /\ UNCHANGED <<rowVars, editor, tester, checking, edits, crossed>>

LEMMA SeekerMoves ==
  ASSUME ProxyInv, NEW q \in Seeker, NEW new, Moves(q, new)
  PROVE  ProxyInv'
<1> USE DEF Moves
<1>1. seeker \in [Seeker -> Seekers] BY DEF ProxyInv, ProxyTypeOK
<1>2. /\ seeker' \in [Seeker -> Seekers] /\ seeker'[q] = new
      /\ \A o \in Seeker \ {q} : seeker'[o] = seeker[o]
  BY <1>1
<1>3. FreshStays BY RowsStay, QuietStays
<1>4. seeker[q].fill \in Fills BY <1>1 DEF Seekers
<1>5. ProxyTypeOK'
  <2>1. cached' \in [ProxyKey -> Groups \cup Copies \cup {Missing}]
    BY <1>4 DEF ProxyInv, ProxyTypeOK, StoresFill, Fills
  <2>2. UNCHANGED <<poolRow, groupRow>> BY DEF rowVars
  <2> QED BY <1>2, <2>1, <2>2 DEF ProxyInv, ProxyTypeOK
<1>6. CopiesFresh'
  <2> SUFFICES ASSUME NEW k \in ProxyKey, cached'[k] # Missing PROVE WillBeFresh(k, cached'[k])
    BY DEF CopiesFresh, Fresh, WillBeFresh
  <2>1. CASE cached'[k] = cached[k]
    <3>1. Fresh(k, cached[k]) BY <2>1 DEF ProxyInv, CopiesFresh
    <3> QED BY <1>3, <2>1, <3>1 DEF FreshStays
  <2>2. CASE cached'[k] # cached[k]
    <3>1. seeker[q].fill # NoFill /\ k = seeker[q].fill.key /\ cached'[k] = seeker[q].fill.row
      BY <2>2 DEF StoresFill, ProxyInv, ProxyTypeOK
    <3>2. Fresh(k, cached'[k]) BY <3>1 DEF ProxyInv, FillsFresh
    <3> QED BY <1>3, <3>2 DEF FreshStays
  <2> QED BY <2>1, <2>2
<1>7. FillsFresh'
  <2> SUFFICES ASSUME NEW o \in Seeker, NEW k, NEW v, seeker'[o].fill # NoFill,
                      k = seeker'[o].fill.key, v = seeker'[o].fill.row
               PROVE  WillBeFresh(k, v)
    BY DEF FillsFresh, Fresh, WillBeFresh
  <2>1. k \in ProxyKey BY <1>2 DEF Seekers, Fills
  <2>2. Fresh(k, v)
    <3>1. CASE seeker'[o].fill = seeker[o].fill BY <3>1 DEF ProxyInv, FillsFresh
    <3>2. CASE o = q /\ new.fill.row = Found(new.fill.key) BY <1>2, <3>2 DEF Fresh, SameEndpoint
    <3> QED BY <1>2, <3>1, <3>2
  <2> QED BY <1>3, <2>1, <2>2 DEF FreshStays
<1>8. SeekInv' BY <1>2 DEF ProxyInv, SeekInv
<1> QED BY <1>5, <1>6, <1>7, <1>8 DEF ProxyInv

LEMMA SeekerTyped ==
  ASSUME ProxyInv, NEW q \in Seeker
  PROVE  seeker[q] \in Seekers /\ SeekOK(seeker[q]) /\ seeker \in [Seeker -> Seekers]
  BY DEF ProxyInv, ProxyTypeOK, SeekInv

LEMMA GetsOne ==
  ASSUME ProxyInv, NEW q \in Seeker, NEW k \in ProxyKey, NEW v, Gets(q, k, v)
  PROVE  /\ UNCHANGED cached \/ StoresFill(q)
         /\ UNCHANGED <<rowVars, editor, tester, checking, edits, crossed>>
         /\ Wants(q, k)
  BY DEF Gets, StoresFill

\* The pool that is looked up is the next of the list.
LEMMA WantedIs ==
  ASSUME ProxyInv, NEW q \in Seeker, NEW p, Wants(q, p),
         seeker[q].pc \in {"scan", "resolve", "pinned"}
  PROVE  /\ Tail(seeker[q].todo) \in Seq(Pool)
         /\ Listed(seeker[q].todo) = {p} \cup Listed(Tail(seeker[q].todo))
<1>1. seeker[q].todo \in Seq(Pool) BY SeekerTyped DEF Seekers
<1>2. seeker[q].todo # <<>> /\ p = Head(seeker[q].todo) BY DEF Wants
<1> QED BY <1>1, <1>2, OneLess

LEMMA FallbackOK ==
  ASSUME NEW rec \in Seekers, rec.cands = <<>>, Spared(rec, rec.unfit)
  PROVE  Fallback(rec) \in Seekers /\ SeekOK(Fallback(rec)) /\ Fallback(rec).fill = rec.fill
<1> DEFINE new == Fallback(rec)
<1>1. /\ new \in Seekers
      /\ new.pc = "pinned" /\ new.cands = <<>> /\ new.fill = rec.fill
      /\ new.unfit = rec.unfit /\ new.group = rec.group
  BY NoneYet DEF Fallback, Seekers, SeekerPCs
<1> HIDE DEF new
<1>2. SeekOK(new) BY <1>1, NoneYet DEF SeekOK, Spared
<1> QED BY <1>1, <1>2 DEF new

LEMMA RequestMoves ==
  ASSUME ProxyInv, NEW q \in Seeker, NEW bound \in BOOLEAN, NEW pinned \in Seq(Pool),
         ResolveCandidates(q, bound, pinned)
  PROVE  ProxyInv'
<1> DEFINE new == [seeker[q] EXCEPT !.pc = IF bound THEN "group" ELSE "pinned",
                                    !.pinned = IF bound THEN pinned ELSE <<>>,
                                    !.todo = IF bound THEN <<>> ELSE pinned]
<1>1. seeker[q] \in Seekers /\ SeekOK(seeker[q]) /\ seeker[q].pc = "rest"
  BY SeekerTyped DEF ResolveCandidates
<1>2. /\ new \in Seekers /\ new.pc \in {"group", "pinned"} /\ new.cands = seeker[q].cands
      /\ new.group = seeker[q].group /\ new.fill = seeker[q].fill
  BY <1>1, NoneYet DEF Seekers, SeekerPCs
<1>3. seeker' = [seeker EXCEPT ![q] = new] BY SeekerTyped DEF ResolveCandidates
<1> HIDE DEF new
<1>4. SeekOK(new) BY <1>1, <1>2, NoneYet DEF SeekOK, Spared, Strict
<1>5. Moves(q, new) BY <1>2, <1>3, <1>4, Zenon DEF Moves, ResolveCandidates
<1> QED BY <1>5, SeekerMoves

LEMMA RowMoves ==
  ASSUME ProxyInv, NEW q \in Seeker, NEW k \in ProxyKey, ReadRow(q, k)
  PROVE  ProxyInv'
<1> DEFINE new == [seeker[q] EXCEPT !.fill = [key |-> k, row |-> Found(k)]]
<1>1. seeker[q] \in Seekers /\ SeekOK(seeker[q]) BY SeekerTyped
<1>2. Found(k) \in Groups \cup Copies \cup {Missing} BY RowTyped DEF ProxyInv
<1>3. /\ new \in Seekers /\ new.fill.key = k /\ new.fill.row = Found(k)
  BY <1>1, <1>2 DEF Seekers, Fills
<1>4. SeekOK(new) BY <1>1 DEF SeekOK, Spared, Seekers
<1>5. seeker' = [seeker EXCEPT ![q] = new] BY SeekerTyped DEF ReadRow
<1> HIDE DEF new
<1>6. Moves(q, new) BY <1>3, <1>4, <1>5, Zenon DEF Moves, ReadRow
<1> QED BY <1>6, SeekerMoves

LEMMA GroupMoves ==
  ASSUME ProxyInv, NEW q \in Seeker, GetGroup(q)
  PROVE  ProxyInv'
<1>1. PICK v \in Groups \cup {Missing} :
        /\ seeker[q].pc = "group"
        /\ Gets(q, Group, v)
        /\ LET rec == [seeker[q] EXCEPT !.fill = NoFill] IN
           seeker' = [seeker EXCEPT ![q] =
             IF v # Missing /\ v.on
             THEN [rec EXCEPT !.pc = "scan", !.group = v, !.todo = v.pools]
             ELSE Fallback(rec)]
  BY Zenon DEF GetGroup
<1> DEFINE rec == [seeker[q] EXCEPT !.fill = NoFill]
           scan == [rec EXCEPT !.pc = "scan", !.group = v, !.todo = v.pools]
<1>2. seeker[q] \in Seekers /\ SeekOK(seeker[q]) BY SeekerTyped
<1>3. /\ rec \in Seekers /\ rec.cands = seeker[q].cands /\ rec.group = seeker[q].group
      /\ rec.fill = NoFill
  BY <1>2, Kinds DEF Seekers
<1>4. seeker[q].cands = <<>> /\ seeker[q].group = Missing BY <1>1, <1>2 DEF SeekOK
<1>5. CASE v # Missing /\ v.on
  <2>1. v.pools \in Seq(Pool) BY <1>5 DEF Groups
  <2>2. /\ scan \in Seekers /\ scan.pc = "scan" /\ scan.group = v /\ scan.todo = v.pools
        /\ scan.cands = rec.cands /\ scan.fill = rec.fill
    BY <1>3, <2>1 DEF Seekers, SeekerPCs
  <2>3. seeker' = [seeker EXCEPT ![q] = scan] BY <1>1, <1>5
  <2> HIDE DEF scan, rec
  <2>4. SeekOK(scan) BY <1>3, <1>4, <1>5, <2>2, NoneYet DEF SeekOK, Spared
  <2>5. Moves(q, scan) BY <1>1, <1>3, <2>2, <2>3, <2>4, GetsOne DEF Moves, ProxyKey
  <2> QED BY <2>5, SeekerMoves
<1>6. CASE ~(v # Missing /\ v.on)
  <2>1. seeker' = [seeker EXCEPT ![q] = Fallback(rec)] BY <1>1, <1>6
  <2> HIDE DEF rec
  <2>2. Spared(rec, rec.unfit) BY <1>3, <1>4 DEF Spared, Strict
  <2>3. Moves(q, Fallback(rec))
    BY <1>1, <1>3, <1>4, <2>1, <2>2, FallbackOK, GetsOne DEF Moves, ProxyKey
  <2> QED BY <2>3, SeekerMoves
<1> QED BY <1>5, <1>6

LEMMA PickMoves ==
  ASSUME ProxyInv, NEW q \in Seeker, PickPool(q)
  PROVE  ProxyInv'
<1> DEFINE rec == seeker[q]
           new(i) == [rec EXCEPT !.pc = "resolve", !.todo = RotateFrom(rec.live, i), !.live = <<>>]
<1>1. rec \in Seekers /\ SeekOK(rec) /\ rec.pc = "scan" /\ rec.todo = <<>> /\ rec.cands = <<>>
  BY SeekerTyped DEF PickPool, SeekOK
<1>2. Spared(rec, Listed(rec.live) \cup rec.unfit) BY <1>1, NoneYet DEF SeekOK, Spared
<1>3. CASE rec.live = <<>>
  <2>1. seeker' = [seeker EXCEPT ![q] = Fallback(rec)] BY <1>3 DEF PickPool
  <2>2. Spared(rec, rec.unfit) BY <1>2, <1>3, NoneYet DEF Spared
  <2> HIDE DEF rec
  <2>3. Fallback(rec) \in Seekers /\ SeekOK(Fallback(rec)) /\ Fallback(rec).fill = rec.fill
    BY <1>1, <2>2, FallbackOK
  <2>4. Moves(q, Fallback(rec)) BY <2>1, <2>3 DEF Moves, PickPool, rec
  <2> QED BY <2>4, SeekerMoves
<1>4. CASE rec.live # <<>>
  <2>1. PICK i \in DOMAIN rec.live : seeker' = [seeker EXCEPT ![q] = new(i)] BY <1>4 DEF PickPool
  <2>2. RotateFrom(rec.live, i) \in Seq(Pool) /\ Listed(RotateFrom(rec.live, i)) = Listed(rec.live)
    BY <1>1, Rotated DEF Seekers
  <2>3. /\ new(i) \in Seekers /\ new(i).pc = "resolve" /\ new(i).todo = RotateFrom(rec.live, i)
        /\ new(i).cands = rec.cands /\ new(i).unfit = rec.unfit /\ new(i).group = rec.group
        /\ new(i).fill = rec.fill
    BY <1>1, <2>2, NoneYet DEF Seekers, SeekerPCs
  <2> HIDE DEF new
  <2>4. SeekOK(new(i)) BY <1>1, <1>2, <2>2, <2>3, NoneYet DEF SeekOK, Spared
  <2>5. Moves(q, new(i)) BY <2>1, <2>3, <2>4 DEF Moves, PickPool
  <2> QED BY <2>5, SeekerMoves
<1> QED BY <1>3, <1>4

LEMMA ScanMoves ==
  ASSUME ProxyInv, NEW q \in Seeker, NEW p \in Pool, ActivePool(q, p)
  PROVE  ProxyInv'
<1>1. PICK v \in Copies \cup {Missing} :
        /\ seeker[q].pc = "scan"
        /\ Gets(q, p, v)
        /\ seeker' = [seeker EXCEPT ![q].fill = NoFill,
                                    ![q].todo = Tail(@),
                                    ![q].live = IF Alive(v) THEN Append(@, p) ELSE @,
                                    ![q].unfit = Unfit(q, p, v)]
  BY Zenon DEF ActivePool
<1> DEFINE rec == seeker[q]
           live == IF Alive(v) THEN Append(rec.live, p) ELSE rec.live
           new == [rec EXCEPT !.fill = NoFill, !.todo = Tail(rec.todo), !.live = live,
                              !.unfit = Unfit(q, p, v)]
<1>2. rec \in Seekers /\ SeekOK(rec) BY SeekerTyped
<1>3. /\ live \in Seq(Pool) /\ Unfit(q, p, v) \in SUBSET Pool
      /\ Listed(rec.live) \subseteq Listed(live) /\ (Alive(v) => p \in Listed(live))
  <2>1. rec.live \in Seq(Pool) BY <1>2 DEF Seekers
  <2>2. Append(rec.live, p) \in Seq(Pool) /\ Listed(Append(rec.live, p)) = Listed(rec.live) \cup {p}
    BY <2>1, OnePoolMore
  <2> QED BY <1>2, <2>1, <2>2 DEF Unfit, Seekers
<1>0. /\ Tail(rec.todo) \in Seq(Pool)
      /\ Listed(rec.todo) = {p} \cup Listed(Tail(rec.todo))
  BY <1>1, GetsOne, WantedIs DEF ProxyKey
<1> HIDE DEF live
<1>4. seeker' = [seeker EXCEPT ![q] = new] BY <1>1, SeekerTyped DEF live
<1>5. /\ new \in Seekers /\ new.pc = "scan" /\ new.todo = Tail(rec.todo) /\ new.live = live
      /\ new.unfit = Unfit(q, p, v) /\ new.cands = rec.cands /\ new.group = rec.group
      /\ new.fill = NoFill
  BY <1>0, <1>1, <1>2, <1>3, Kinds DEF Seekers
<1>6. rec.group \in Groups /\ rec.unfit \subseteq Unfit(q, p, v)
  BY <1>1, <1>2 DEF SeekOK, Seekers, Unfit
<1>7. rec.group.strict => p \in Listed(live) \cup Unfit(q, p, v) BY <1>3 DEF Unfit
<1> HIDE DEF new
<1>8. Spared(new, Listed(new.todo) \cup Listed(new.live) \cup new.unfit)
  BY <1>0, <1>1, <1>2, <1>3, <1>5, <1>6, <1>7 DEF SeekOK, Spared, Strict
<1>9. SeekOK(new) BY <1>1, <1>2, <1>5, <1>8 DEF SeekOK
<1>10. Moves(q, new) BY <1>1, <1>4, <1>5, <1>9, GetsOne DEF Moves, ProxyKey
<1> QED BY <1>10, SeekerMoves

LEMMA ResolveMoves ==
  ASSUME ProxyInv, NEW q \in Seeker, NEW p \in Pool, ResolvePool(q, p)
  PROVE  ProxyInv'
<1> DEFINE Suffix(v) == CASE Alive(v) -> <<p>>
                          [] Failed(v) /\ ~seeker[q].group.strict -> <<"marker">>
                          [] OTHER -> <<>>
<1>1. PICK v \in Copies \cup {Missing} :
        /\ seeker[q].pc = "resolve"
        /\ Gets(q, p, v)
        /\ seeker' = [seeker EXCEPT ![q].fill = NoFill,
                                    ![q].todo = Tail(@),
                                    ![q].unfit = Unfit(q, p, v),
                                    ![q].cands = @ \o Suffix(v)]
  BY Zenon DEF ResolvePool
<1> DEFINE rec == seeker[q]
           suffix == Suffix(v)
           new == [rec EXCEPT !.fill = NoFill, !.todo = Tail(rec.todo), !.unfit = Unfit(q, p, v),
                              !.cands = rec.cands \o suffix]
<1>2. \/ Alive(v) /\ suffix = <<p>>
      \/ ~Alive(v) /\ Failed(v) /\ ~rec.group.strict /\ suffix = <<"marker">>
      \/ ~Alive(v) /\ suffix = <<>>
  BY Zenon DEF Failed, Alive
<1> HIDE DEF Suffix, suffix
<1>3. rec \in Seekers /\ SeekOK(rec) /\ rec.pc = "resolve" BY <1>1, SeekerTyped
<1>4. rec.cands \in Seq(Routes) /\ Unfit(q, p, v) \in SUBSET Pool BY <1>3 DEF Unfit, Seekers
<1>5. /\ Tail(rec.todo) \in Seq(Pool)
      /\ Listed(rec.todo) = {p} \cup Listed(Tail(rec.todo))
  BY <1>1, <1>3, GetsOne, WantedIs DEF ProxyKey
<1>6. /\ Spared(rec, Listed(rec.todo) \cup rec.unfit \cup Listed(rec.cands))
      /\ "direct" \notin Listed(rec.cands)
      /\ Strict(rec.group) => "marker" \notin Listed(rec.cands)
      /\ rec.group \in Groups
  BY <1>3 DEF SeekOK, Seekers
<1>7. p \in Routes /\ "marker" \in Routes /\ p # "marker" /\ p # "direct" BY DEF Routes
<1>8. /\ rec.cands \o suffix \in Seq(Routes)
      /\ Listed(rec.cands) \subseteq Listed(rec.cands \o suffix)
      /\ "direct" \notin Listed(rec.cands \o suffix)
      /\ Alive(v) => p \in Listed(rec.cands \o suffix)
      /\ Strict(rec.group) => "marker" \notin Listed(rec.cands \o suffix)
  <2>1. CASE Alive(v) /\ suffix = <<p>> BY <1>4, <1>6, <1>7, <2>1, OneMore
  <2>2. CASE ~Alive(v) /\ ~rec.group.strict /\ suffix = <<"marker">>
    BY <1>4, <1>6, <1>7, <2>2, OneMore DEF Strict
  <2>3. CASE ~Alive(v) /\ suffix = <<>> BY <1>4, <1>6, <2>3, NoneYet
  <2> QED BY <1>2, <2>1, <2>2, <2>3
<1>9. seeker' = [seeker EXCEPT ![q] = new] BY <1>1, SeekerTyped DEF suffix
<1>10. /\ new \in Seekers /\ new.pc = "resolve" /\ new.todo = Tail(rec.todo)
       /\ new.unfit = Unfit(q, p, v) /\ new.cands = rec.cands \o suffix
       /\ new.group = rec.group /\ new.fill = NoFill
  BY <1>3, <1>4, <1>5, <1>8, Kinds DEF Seekers
<1>11. rec.unfit \subseteq Unfit(q, p, v) /\ (rec.group.strict /\ ~Alive(v) => p \in Unfit(q, p, v))
  BY DEF Unfit
<1> HIDE DEF new
<1>12. Spared(new, Listed(new.todo) \cup new.unfit \cup Listed(new.cands))
  BY <1>5, <1>6, <1>8, <1>10, <1>11 DEF Spared, Strict
<1>14. SeekOK(new) BY <1>6, <1>8, <1>10, <1>12, Kinds DEF SeekOK
<1>15. Moves(q, new) BY <1>1, <1>9, <1>10, <1>14, GetsOne DEF Moves, ProxyKey
<1> QED BY <1>15, SeekerMoves

LEMMA ResolvedMoves ==
  ASSUME ProxyInv, NEW q \in Seeker, GroupResolved(q)
  PROVE  ProxyInv'
<1> DEFINE rec == seeker[q]
           cands == IF rec.group.strict \/ NoDirect THEN rec.cands ELSE Append(rec.cands, "direct")
           new == [rec EXCEPT !.pc = "try", !.pinned = <<>>, !.cands = cands]
<1>1. rec \in Seekers /\ SeekOK(rec) /\ rec.pc = "resolve" /\ rec.todo = <<>>
  BY SeekerTyped DEF GroupResolved
<1>2. /\ Spared(rec, rec.unfit \cup Listed(rec.cands))
      /\ "direct" \notin Listed(rec.cands)
      /\ Strict(rec.group) => "marker" \notin Listed(rec.cands)
      /\ rec.group \in Groups /\ rec.cands \in Seq(Routes)
  BY <1>1, NoneYet DEF SeekOK, Seekers, Spared
<1>3. CASE rec.cands = <<>>
  <2>1. seeker' = [seeker EXCEPT ![q] = Fallback(rec)] BY <1>3 DEF GroupResolved
  <2>2. Spared(rec, rec.unfit) BY <1>2, <1>3, NoneYet DEF Spared
  <2> HIDE DEF rec
  <2>3. Fallback(rec) \in Seekers /\ SeekOK(Fallback(rec)) /\ Fallback(rec).fill = rec.fill
    BY <1>1, <1>3, <2>2, FallbackOK
  <2>4. Moves(q, Fallback(rec)) BY <2>1, <2>3 DEF Moves, GroupResolved, rec
  <2> QED BY <2>4, SeekerMoves
<1>4. CASE rec.cands # <<>>
  <2>1. seeker' = [seeker EXCEPT ![q] = new] BY <1>4 DEF GroupResolved
  <2>2. "direct" \in Routes BY DEF Routes
  <2>3. /\ cands \in Seq(Routes) /\ (Strict(rec.group) => cands = rec.cands)
        /\ Strict(rec.group) => Listed(cands) \cap {"direct", "marker"} = {}
    <3>1. CASE rec.group.strict \/ NoDirect
      <4>1. cands = rec.cands BY <3>1
      <4> QED BY <1>2, <4>1
    <3>2. CASE ~(rec.group.strict \/ NoDirect)
      <4>1. cands = rec.cands \o <<"direct">> BY <1>2, <2>2, <3>2, OneMore
      <4>2. ~Strict(rec.group) BY <3>2 DEF Strict
      <4> QED BY <1>2, <2>2, <4>1, <4>2, OneMore
    <3> QED BY <3>1, <3>2
  <2> HIDE DEF cands
  <2>4. /\ new \in Seekers /\ new.pc = "try" /\ new.cands = cands
        /\ new.unfit = rec.unfit /\ new.group = rec.group /\ new.fill = rec.fill
    BY <1>1, <2>3, NoneYet DEF Seekers, SeekerPCs
  <2> HIDE DEF new
  <2>5. SeekOK(new) BY <1>2, <2>3, <2>4 DEF SeekOK, Spared
  <2>6. Moves(q, new) BY <2>1, <2>4, <2>5 DEF Moves, GroupResolved
  <2> QED BY <2>6, SeekerMoves
<1> QED BY <1>3, <1>4

\* A request that is not, or no longer, resolved from a group.
LEMMA TryLastOK ==
  ASSUME NEW rec \in Seekers, SeekOK(rec), rec.pc = "pinned",
         NEW cands, cands = <<>> \/ \E p \in Pool : cands = <<p>>
  PROVE  TryLast(rec, cands) \in Seekers /\ SeekOK(TryLast(rec, cands)) /\ TryLast(rec, cands).fill = NoFill
<1> DEFINE all == IF cands # <<>> /\ NoDirect THEN cands ELSE Append(cands, "direct")
           new == [rec EXCEPT !.pc = "try", !.todo = <<>>, !.fill = NoFill, !.cands = all]
<1>1. "direct" \in Routes /\ \A p \in Pool : p \in Routes /\ p # "direct" BY DEF Routes
<1>2. cands \in Seq(Routes)
  <2>1. ASSUME NEW p \in Pool PROVE <<p>> \in Seq(Routes)
    <3>1. p \in Routes BY <1>1
    <3> QED BY <3>1
  <2>2. <<>> \in Seq(Routes) OBVIOUS
  <2> QED BY <2>1, <2>2, Zenon
<1>3. all \in Seq(Routes) BY <1>1, <1>2, OneMore
<1>4. TryLast(rec, cands) = new BY DEF TryLast
<1> HIDE DEF all
<1>5. /\ new \in Seekers /\ new.pc = "try" /\ new.cands = all
      /\ new.unfit = rec.unfit /\ new.group = rec.group /\ new.fill = NoFill
  BY <1>3, Kinds, NoneYet DEF Seekers, SeekerPCs
<1> HIDE DEF new
<1>6. SeekOK(new) BY <1>3, <1>5 DEF SeekOK, Spared
<1> QED BY <1>4, <1>5, <1>6

LEMMA PinnedMoves ==
  ASSUME ProxyInv, NEW q \in Seeker, NEW p \in Pool, PinnedPool(q, p)
  PROVE  ProxyInv'
<1>1. PICK v \in Copies \cup {Missing} :
        /\ seeker[q].pc = "pinned"
        /\ Gets(q, p, v)
        /\ seeker' = [seeker EXCEPT ![q] = TryLast(@, IF Alive(v) THEN <<p>> ELSE <<>>)]
  BY Zenon DEF PinnedPool
<1> DEFINE cands == IF Alive(v) THEN <<p>> ELSE <<>>
           new == TryLast(seeker[q], cands)
<1>2. seeker[q] \in Seekers /\ SeekOK(seeker[q]) BY SeekerTyped
<1>3. cands = <<>> \/ \E r \in Pool : cands = <<r>> OBVIOUS
<1>4. seeker' = [seeker EXCEPT ![q] = new] BY <1>1
<1> HIDE DEF cands
<1>5. new \in Seekers /\ SeekOK(new) /\ new.fill = NoFill BY <1>1, <1>2, <1>3, TryLastOK
<1> HIDE DEF new
<1>6. Moves(q, new) BY <1>1, <1>4, <1>5, GetsOne DEF Moves, ProxyKey
<1> QED BY <1>6, SeekerMoves

LEMMA NotPinnedMoves ==
  ASSUME ProxyInv, NEW q \in Seeker, NotPinned(q)
  PROVE  ProxyInv'
<1> DEFINE new == TryLast(seeker[q], <<>>)
<1>1. seeker[q] \in Seekers /\ SeekOK(seeker[q]) /\ seeker[q].pc = "pinned"
  BY SeekerTyped DEF NotPinned
<1>2. seeker' = [seeker EXCEPT ![q] = new] BY DEF NotPinned
<1>3. new \in Seekers /\ SeekOK(new) /\ new.fill = NoFill BY <1>1, TryLastOK
<1> HIDE DEF new
<1>4. Moves(q, new) BY <1>2, <1>3 DEF Moves, NotPinned
<1> QED BY <1>4, SeekerMoves

LEMMA TriedMoves ==
  ASSUME ProxyInv, NEW q \in Seeker, Tried(q)
  PROVE  ProxyInv'
<1>1. AtRest \in Seekers /\ SeekOK(AtRest) /\ AtRest.fill = NoFill
  BY NoneYet, Kinds DEF AtRest, Seekers, SeekerPCs, SeekOK, Spared, Strict
<1>2. seeker' = [seeker EXCEPT ![q] = AtRest] BY DEF Tried
<1>3. Moves(q, AtRest) BY <1>1, <1>2 DEF Moves, Tried
<1> QED BY <1>3, SeekerMoves

LEMMA SeekMoves ==
  ASSUME ProxyInv, NEW q \in Seeker, Seek(q)
  PROVE  ProxyInv'
<1>1. CASE \E bound \in BOOLEAN, pinned \in {<<>>} \cup {<<p>> : p \in Pool} :
             ResolveCandidates(q, bound, pinned)
  <2>1. PICK bound \in BOOLEAN, pinned \in {<<>>} \cup {<<p>> : p \in Pool} :
          ResolveCandidates(q, bound, pinned)
    BY <1>1
  <2>2. pinned \in Seq(Pool)
    <3>1. <<>> \in Seq(Pool) /\ \A p \in Pool : <<p>> \in Seq(Pool) OBVIOUS
    <3>2. pinned = <<>> \/ \E p \in Pool : pinned = <<p>> BY Zenon
    <3> QED BY <3>1, <3>2, Zenon
  <2> QED BY <2>1, <2>2, RequestMoves
<1>2. CASE \E k \in ProxyKey : ReadRow(q, k) BY <1>2, RowMoves
<1>3. CASE GetGroup(q) BY <1>3, GroupMoves
<1>4. CASE PickPool(q) BY <1>4, PickMoves
<1>5. CASE \E p \in Pool : ActivePool(q, p) \/ ResolvePool(q, p) \/ PinnedPool(q, p)
  BY <1>5, ScanMoves, ResolveMoves, PinnedMoves
<1>6. CASE GroupResolved(q) BY <1>6, ResolvedMoves
<1>7. CASE NotPinned(q) BY <1>7, NotPinnedMoves
<1>8. CASE Tried(q) BY <1>8, TriedMoves
<1> QED BY <1>1, <1>2, <1>3, <1>4, <1>5, <1>6, <1>7, <1>8 DEF Seek

-----------------------------------------------------------------------------
(* Copies are dropped, and rows written. *)

LEMMA Unread ==
  ASSUME ProxyInv, ProxyTypeOK', FreshStays, UNCHANGED <<cached, seeker>>
  PROVE  ProxyInv'
<1>1. CopiesFresh'
  <2> SUFFICES ASSUME NEW k \in ProxyKey, cached'[k] # Missing PROVE WillBeFresh(k, cached'[k])
    BY DEF CopiesFresh, Fresh, WillBeFresh
  <2>1. Fresh(k, cached[k]) BY DEF ProxyInv, CopiesFresh
  <2> QED BY <2>1 DEF FreshStays
<1>2. FillsFresh'
  <2> SUFFICES ASSUME NEW q \in Seeker, NEW k, NEW v, seeker'[q].fill # NoFill,
                      k = seeker'[q].fill.key, v = seeker'[q].fill.row
               PROVE  WillBeFresh(k, v)
    BY DEF FillsFresh, Fresh, WillBeFresh
  <2>1. k \in ProxyKey BY SeekerTyped DEF Seekers, Fills
  <2>2. Fresh(k, v) BY DEF ProxyInv, FillsFresh
  <2> QED BY <2>1, <2>2 DEF FreshStays
<1>3. SeekInv' BY DEF ProxyInv, SeekInv
<1> QED BY <1>1, <1>2, <1>3 DEF ProxyInv

LEMMA ExpireMoves ==
  ASSUME ProxyInv, NEW k \in ProxyKey, Expire(k)
  PROVE  ProxyInv'
<1> USE DEF Expire
<1>1. ProxyTypeOK'
  <2>1. crossed' \subseteq ProxyKey BY DEF ProxyInv, ProxyTypeOK
  <2> QED BY <2>1 DEF ProxyInv, ProxyTypeOK, rowVars
<1>2. \A j \in ProxyKey : \A v : Fresh(j, v) /\ j # k => WillBeFresh(j, v)
  <2>1. \A j \in ProxyKey : Found(j)' = Found(j) BY RowsStay
  <2>2. \A j \in ProxyKey : j \in crossed /\ j # k => j \in crossed' OBVIOUS
  <2>3. \A j : \A a \in Editor : HasWritten(a, j)' <=> HasWritten(a, j) BY DEF HasWritten
  <2> QED BY <2>1, <2>2, <2>3 DEF Fresh, WillBeFresh
<1>3. CopiesFresh'
  <2> SUFFICES ASSUME NEW j \in ProxyKey, cached'[j] # Missing PROVE WillBeFresh(j, cached'[j])
    BY DEF CopiesFresh, Fresh, WillBeFresh
  <2>1. cached'[j] = cached[j] /\ j # k BY DEF ProxyInv, ProxyTypeOK
  <2>2. Fresh(j, cached[j]) BY <2>1 DEF ProxyInv, CopiesFresh
  <2> QED BY <1>2, <2>1, <2>2
<1>4. FillsFresh'
  <2> SUFFICES ASSUME NEW q \in Seeker, NEW j, NEW v, seeker'[q].fill # NoFill,
                      j = seeker'[q].fill.key, v = seeker'[q].fill.row
               PROVE  WillBeFresh(j, v)
    BY DEF FillsFresh, Fresh, WillBeFresh
  <2>1. j \in ProxyKey BY SeekerTyped DEF Seekers, Fills
  <2>2. Fresh(j, v) BY DEF ProxyInv, FillsFresh
  <2>3. CASE j = k /\ ~Overtaken(k)
    <3>1. SameEndpoint(v, Found(j)) BY <2>3 DEF Overtaken
    <3>2. Found(j)' = Found(j) BY <2>1, RowsStay
    <3> QED BY <3>1, <3>2 DEF WillBeFresh
  <2>4. CASE Overtaken(k)
    <3>1. crossed' = crossed BY <2>4
    <3> QED BY <2>1, <2>2, <3>1, RowsStay, QuietStays DEF FreshStays
  <2> QED BY <1>2, <2>1, <2>2, <2>3, <2>4
<1>5. SeekInv' BY DEF ProxyInv, SeekInv
<1> QED BY <1>1, <1>3, <1>4, <1>5 DEF ProxyInv

\* What a request has read and not stored is as the row says, or is known to have
\* been overtaken.
LEMMA InvalidateMoves ==
  ASSUME ProxyInv, NEW a \in Editor, Invalidate(a)
  PROVE  ProxyInv'
<1> USE DEF Invalidate
<1>1. ProxyTypeOK' BY DEF ProxyInv, ProxyTypeOK, rowVars
<1>2. CopiesFresh' BY DEF CopiesFresh
<1>3. FillsFresh'
  <2> SUFFICES ASSUME NEW q \in Seeker, NEW k, NEW v, seeker'[q].fill # NoFill,
                      k = seeker'[q].fill.key, v = seeker'[q].fill.row
               PROVE  WillBeFresh(k, v)
    BY DEF FillsFresh, Fresh, WillBeFresh
  <2>1. k \in ProxyKey BY SeekerTyped DEF Seekers, Fills
  <2>2. CASE Overtaken(k) BY <2>1, <2>2 DEF WillBeFresh
  <2>3. CASE ~Overtaken(k)
    <3>1. SameEndpoint(v, Found(k)) BY <2>3 DEF Overtaken
    <3>2. Found(k)' = Found(k) BY <2>1, RowsStay
    <3> QED BY <3>1, <3>2 DEF WillBeFresh
  <2> QED BY <2>2, <2>3
<1>4. SeekInv' BY DEF ProxyInv, SeekInv
<1> QED BY <1>1, <1>2, <1>3, <1>4 DEF ProxyInv

LEMMA RowWrites ==
  ASSUME ProxyTypeOK, NEW p \in Pool, NEW row \in PoolRows \cup {Missing},
         poolRow' = [poolRow EXCEPT ![p] = row]
  PROVE  /\ poolRow' \in [Pool -> PoolRows \cup {Missing, Unborn}]
         /\ \A k \in Pool \ {p} : Found(k)' = Found(k)
<1>1. poolRow \in [Pool -> PoolRows \cup {Missing, Unborn}] BY DEF ProxyTypeOK
<1>2. \A k \in Pool \ {p} : poolRow'[k] = poolRow[k] /\ (InTable(k)' <=> InTable(k))
  BY <1>1 DEF InTable
<1>3. poolRow' \in [Pool -> PoolRows \cup {Missing, Unborn}] BY <1>1
<1> QED BY <1>2, <1>3, FoundIs, FoundWillBe

LEMMA PoolWrites ==
  ASSUME ProxyTypeOK, NEW p \in Pool, NEW row, InTable(p) => row \in PoolRows,
         WritePool(p, row), UNCHANGED groupRow
  PROVE  /\ poolRow' \in [Pool -> PoolRows \cup {Missing, Unborn}]
         /\ \A k \in ProxyKey \ {p} : Found(k)' = Found(k)
<1>1. CASE InTable(p)
  <2>1. poolRow' = [poolRow EXCEPT ![p] = row] BY <1>1 DEF WritePool
  <2>2. Found(Group)' = Found(Group) BY FoundIs, FoundWillBe
  <2> QED BY <1>1, <2>1, <2>2, RowWrites DEF ProxyKey
<1>2. CASE ~InTable(p)
  <2>1. UNCHANGED rowVars BY <1>2, Zenon DEF WritePool, rowVars
  <2> QED BY <2>1, RowsStay DEF ProxyTypeOK, rowVars
<1> QED BY <1>1, <1>2

\* A call that begins, with the rows K changed.
LEMMA Begins ==
  ASSUME ProxyInv, NEW a \in Editor, NEW edit, NEW K, BeginEdit(a, edit),
         edit \in Edits \cup Deletes \cup Written,
         poolRow' \in [Pool -> PoolRows \cup {Missing, Unborn}],
         groupRow' \in Groups \cup {Missing},
         \A k \in ProxyKey \ K : Found(k)' = Found(k),
         \A k \in ProxyKey \cap K : HasWritten(a, k)'
  PROVE  ProxyInv'
<1> USE DEF BeginEdit
<1>1. ProxyTypeOK' BY DEF ProxyInv, ProxyTypeOK
<1>2. \A k \in ProxyKey : ~HasWritten(a, k) BY DEF HasWritten, NoEdit
<1>3. FreshStays
  <2>1. editor \in [Editor -> {NoEdit} \cup Edits \cup Deletes \cup Written] BY DEF ProxyInv, ProxyTypeOK
  <2>2. \A k \in ProxyKey \ K : Alike(Found(k), Found(k)') BY DEF Alike
  <2> QED BY <1>2, <2>1, <2>2, EditStays
<1> QED BY <1>1, <1>3, Unread

LEMMA CreateMoves ==
  ASSUME ProxyInv, NEW a \in Editor, NEW p \in Pool, NEW u \in Address, NEW on \in BOOLEAN,
         CreatePool(a, p, u, on)
  PROVE  ProxyInv'
<1> DEFINE row == [kind |-> "pool", url |-> u, on |-> on, status |-> "active", tested |-> u]
<1>1. row \in PoolRows BY DEF PoolRows, Verdicts
<1>2. poolRow' = [poolRow EXCEPT ![p] = row] /\ UNCHANGED groupRow /\ BeginEdit(a, RowWritten(p))
  BY DEF CreatePool
<1> HIDE DEF row
<1>3. /\ poolRow' \in [Pool -> PoolRows \cup {Missing, Unborn}]
      /\ \A k \in Pool \ {p} : Found(k)' = Found(k)
  BY <1>1, <1>2, RowWrites DEF ProxyInv
<1>4. \A k \in ProxyKey \ {p} : Found(k)' = Found(k) BY <1>2, <1>3, FoundIs, FoundWillBe DEF ProxyKey
<1>5. groupRow' \in Groups \cup {Missing} BY <1>2 DEF ProxyInv, ProxyTypeOK
<1>6. RowWritten(p) \in Edits \cup Written BY DEF RowWritten, Written, ProxyKey
<1>7. \A k \in ProxyKey \cap {p} : HasWritten(a, k)'
  BY <1>2 DEF BeginEdit, HasWritten, RowWritten, ProxyInv, ProxyTypeOK
<1> QED BY <1>2, <1>3, <1>4, <1>5, <1>6, <1>7, Begins

LEMMA DeleteMoves ==
  ASSUME ProxyInv, NEW a \in Editor, NEW p \in Pool, DeletePool(a, p)
  PROVE  ProxyInv'
<1> DEFINE edit == [pc |-> "deleting", key |-> p]
<1>1. BeginEdit(a, edit) /\ UNCHANGED rowVars BY DEF DeletePool
<1>2. edit \in Deletes BY DEF Deletes
<1>3. \A k \in ProxyKey \ {} : Found(k)' = Found(k) BY <1>1, RowsStay
<1>4. /\ poolRow' \in [Pool -> PoolRows \cup {Missing, Unborn}]
      /\ groupRow' \in Groups \cup {Missing}
  BY <1>1 DEF ProxyInv, ProxyTypeOK, rowVars
<1> HIDE DEF edit
<1> QED BY <1>1, <1>2, <1>3, <1>4, Begins

LEMMA DeleterTyped ==
  ASSUME ProxyInv, NEW a \in Editor, editor[a].pc \in {"deleting", "orphaned", "deleted"}
  PROVE  /\ editor[a] \in Deletes /\ editor[a].key \in Pool /\ editor[a].key \in ProxyKey
         /\ editor \in [Editor -> {NoEdit} \cup Edits \cup Deletes \cup Written]
  BY DEF ProxyInv, ProxyTypeOK, NoEdit, Edits, Deletes, Written, ProxyKey

\* The transaction changes the row of the pool and of the group.
LEMMA CascadeRows ==
  ASSUME ProxyInv, NEW p \in Pool, Cascade(p)
  PROVE  /\ poolRow' \in [Pool -> PoolRows \cup {Missing, Unborn}]
         /\ groupRow' \in Groups \cup {Missing}
         /\ \A k \in ProxyKey \ {p, Group} : Alike(Found(k), Found(k)')
<1>1. poolRow' = [poolRow EXCEPT ![p] = Missing] BY DEF Cascade
<1>2. /\ poolRow' \in [Pool -> PoolRows \cup {Missing, Unborn}]
      /\ \A k \in Pool \ {p} : Found(k)' = Found(k)
  BY <1>1, RowWrites DEF ProxyInv
<1>3. groupRow' \in Groups \cup {Missing}
  <2>1. groupRow \in Groups \cup {Missing} BY DEF ProxyInv, ProxyTypeOK
  <2>2. CASE groupRow = Missing \/ p \notin Listed(groupRow.pools) BY <2>1, <2>2, Zenon DEF Cascade
  <2>3. CASE ~(groupRow = Missing \/ p \notin Listed(groupRow.pools))
    <3> DEFINE rest == WithoutPool(groupRow.pools, p)
    <3>1. groupRow' = IF rest = <<>> THEN Missing ELSE [groupRow EXCEPT !.pools = rest]
      BY <2>3, Zenon DEF Cascade
    <3>2. groupRow \in Groups /\ groupRow.pools \in PoolLists BY <2>1, <2>3 DEF Groups
    <3>3. rest \in PoolLists BY <3>2
    <3> HIDE DEF rest
    <3>4. [groupRow EXCEPT !.pools = rest] \in Groups BY <3>2, <3>3 DEF Groups
    <3> QED BY <3>1, <3>4
  <2> QED BY <2>2, <2>3
<1> QED BY <1>2, <1>3 DEF Alike, ProxyKey

LEMMA DeleteRowsMoves ==
  ASSUME ProxyInv, NEW a \in Editor, DeleteRows(a)
  PROVE  ProxyInv'
<1> DEFINE p == editor[a].key
           new == [editor[a] EXCEPT !.pc = "deleted"]
<1>1. /\ editor[a].pc = "deleting" /\ Cascade(p)
      /\ UNCHANGED <<cached, seeker, tester, checking, edits, crossed>>
  BY DEF DeleteRows
<1>2. /\ editor[a] \in Deletes /\ p \in Pool
      /\ editor \in [Editor -> {NoEdit} \cup Edits \cup Deletes \cup Written]
  BY <1>1, DeleterTyped
<1>3. new \in Deletes /\ new.pc = "deleted" /\ new.key = p BY <1>2 DEF Deletes
<1>4. editor' = [editor EXCEPT ![a] = new] BY <1>2 DEF DeleteRows
<1> HIDE DEF p, new
<1>5. ProxyTypeOK'
  <2>1. editor' \in [Editor -> {NoEdit} \cup Edits \cup Deletes \cup Written] BY <1>2, <1>3, <1>4
  <2> QED BY <1>1, <1>2, <2>1, CascadeRows DEF ProxyInv, ProxyTypeOK
<1>6. FreshStays
  <2>1. \A k \in ProxyKey \ {p, Group} : Alike(Found(k), Found(k)') BY <1>1, <1>2, CascadeRows
  <2>2. \A k \in ProxyKey \cap {p, Group} : HasWritten(a, k)' BY <1>2, <1>3, <1>4 DEF HasWritten
  <2>3. \A k \in ProxyKey : ~HasWritten(a, k) BY <1>1 DEF HasWritten
  <2> QED BY <1>1, <1>2, <1>4, <2>1, <2>2, <2>3, EditStays
<1> QED BY <1>1, <1>5, <1>6, Unread

LEMMA GiveUpMoves ==
  ASSUME ProxyInv, NEW a \in Editor, GiveUpDelete(a)
  PROVE  ProxyInv'
<1> DEFINE orphan == [editor[a] EXCEPT !.pc = "orphaned"]
<1>1. UNCHANGED <<rowVars, cached, seeker, tester, checking, edits>> BY DEF GiveUpDelete
<1>2. /\ editor[a] \in Deletes /\ editor[a].key \in ProxyKey
      /\ editor \in [Editor -> {NoEdit} \cup Edits \cup Deletes \cup Written]
  BY DeleterTyped DEF GiveUpDelete
<1>3. orphan \in Deletes /\ orphan.pc = "orphaned" BY <1>2 DEF Deletes
<1>4. PICK e \in {NoEdit, orphan} : editor' = [editor EXCEPT ![a] = e] BY <1>2 DEF GiveUpDelete
<1>5. /\ crossed \subseteq crossed' /\ crossed' \subseteq ProxyKey
      /\ editor[a].pc = "deleted" => crossed' = crossed \cup {editor[a].key, Group}
  BY <1>2 DEF GiveUpDelete, ProxyInv, ProxyTypeOK, ProxyKey
<1> HIDE DEF orphan
<1>6. ProxyTypeOK'
  <2>1. editor' \in [Editor -> {NoEdit} \cup Edits \cup Deletes \cup Written] BY <1>2, <1>3, <1>4
  <2> QED BY <1>1, <1>5, <2>1 DEF ProxyInv, ProxyTypeOK, rowVars
<1>7. FreshStays
  <2>1. \A k \in ProxyKey \cap {} : HasWritten(a, k)' OBVIOUS
  <2>2. \A k \in ProxyKey : HasWritten(a, k) => k \in crossed'
    BY <1>2, <1>5 DEF HasWritten, GiveUpDelete
  <2>3. \A k \in ProxyKey \ {} : Alike(Found(k), Found(k)') BY <1>1, RowsStay
  <2> QED BY <1>2, <1>4, <1>5, <2>1, <2>2, <2>3, EditStays
<1> QED BY <1>1, <1>6, <1>7, Unread

\* A row that goes without a call that could drop its copies.
LEMMA DeleteLateMoves ==
  ASSUME ProxyInv, NEW a \in Editor, DeleteLate(a)
  PROVE  ProxyInv'
<1> DEFINE p == editor[a].key
<1>1. /\ editor[a].pc = "orphaned" /\ Cascade(p)
      /\ UNCHANGED <<cached, seeker, tester, checking, edits>>
      /\ editor' = [editor EXCEPT ![a] = NoEdit]
      /\ crossed' = crossed \cup {p, Group}
  BY DEF DeleteLate
<1>2. /\ p \in Pool /\ p \in ProxyKey
      /\ editor \in [Editor -> {NoEdit} \cup Edits \cup Deletes \cup Written]
  BY <1>1, DeleterTyped
<1>3. \A k \in ProxyKey : ~HasWritten(a, k) BY <1>1 DEF HasWritten
<1> HIDE DEF p
<1>4. ProxyTypeOK'
  <2>1. editor' \in [Editor -> {NoEdit} \cup Edits \cup Deletes \cup Written] BY <1>1, <1>2
  <2>2. crossed' \subseteq ProxyKey BY <1>1, <1>2 DEF ProxyInv, ProxyTypeOK, ProxyKey
  <2> QED BY <1>1, <1>2, <2>1, <2>2, CascadeRows DEF ProxyInv, ProxyTypeOK
<1>5. FreshStays
  <2> SUFFICES ASSUME NEW k \in ProxyKey, NEW v, Fresh(k, v) PROVE WillBeFresh(k, v)
    BY DEF FreshStays
  <2>1. CASE k \in {p, Group} BY <1>1, <2>1 DEF WillBeFresh
  <2>2. CASE k \notin {p, Group}
    <3>1. SameEndpoint(v, Found(k)) => SameEndpoint(v, Found(k)')
      BY <1>1, <1>2, <2>2, CascadeRows, AlikeToAll
    <3>2. \A b \in Editor : HasWritten(b, k) => HasWritten(b, k)' BY <1>1, <1>2, <1>3 DEF HasWritten
    <3> QED BY <1>1, <3>1, <3>2 DEF Fresh, WillBeFresh, SameEndpoint
  <2> QED BY <2>1, <2>2
<1> QED BY <1>1, <1>4, <1>5, Unread

LEMMA SetGroupMoves ==
  ASSUME ProxyInv, NEW a \in Editor, NEW g \in Groups \cup {Missing}, SetGroup(a, g)
  PROVE  ProxyInv'
<1>1. groupRow' = g /\ UNCHANGED poolRow /\ BeginEdit(a, RowWritten(Group)) BY DEF SetGroup
<1>2. \A k \in Pool : InTable(k)' <=> InTable(k) BY <1>1 DEF InTable
<1>3. \A k \in ProxyKey \ {Group} : Found(k)' = Found(k)
  BY <1>1, <1>2, FoundIs, FoundWillBe DEF ProxyKey
<1>4. poolRow' \in [Pool -> PoolRows \cup {Missing, Unborn}] BY <1>1 DEF ProxyInv, ProxyTypeOK
<1>5. RowWritten(Group) \in Edits \cup Written BY DEF RowWritten, Written, ProxyKey
<1>6. \A k \in ProxyKey \cap {Group} : HasWritten(a, k)'
  BY <1>1 DEF BeginEdit, HasWritten, RowWritten, ProxyInv, ProxyTypeOK
<1> QED BY <1>1, <1>3, <1>4, <1>5, <1>6, Begins

LEMMA OpenMoves ==
  ASSUME ProxyInv, NEW a \in Editor, NEW p \in Pool, NEW pc \in {"update", "test"}, OpenPool(a, p, pc)
  PROVE  ProxyInv'
<1> DEFINE edit == [pc |-> pc, key |-> p, url |-> poolRow[p].url]
<1>1. InTable(p) /\ BeginEdit(a, edit) /\ UNCHANGED rowVars BY DEF OpenPool
<1>2. poolRow[p].url \in Address BY <1>1, RowTyped DEF ProxyInv, PoolRows
<1>3. edit \in Edits \cup Written BY <1>2 DEF Edits
<1>4. \A k \in ProxyKey \ {} : Found(k)' = Found(k) BY <1>1, RowsStay
<1>5. /\ poolRow' \in [Pool -> PoolRows \cup {Missing, Unborn}]
      /\ groupRow' \in Groups \cup {Missing}
  BY <1>1 DEF ProxyInv, ProxyTypeOK, rowVars
<1> HIDE DEF edit
<1> QED BY <1>1, <1>3, <1>4, <1>5, Begins

LEMMA EditorTyped ==
  ASSUME ProxyInv, NEW a \in Editor, editor[a].pc \in {"update", "retest", "test"}
  PROVE  /\ editor[a] \in Edits /\ editor[a].key \in Pool
         /\ editor \in [Editor -> {NoEdit} \cup Edits \cup Deletes \cup Written]
  BY DEF ProxyInv, ProxyTypeOK, NoEdit, Edits, Deletes, Written

LEMMA AddressMoves ==
  ASSUME ProxyInv, NEW a \in Editor, NEW u \in Address, WriteAddress(a, u)
  PROVE  ProxyInv'
<1> DEFINE p == editor[a].key
           row == [poolRow[p] EXCEPT !.url = u]
           next == IF u # editor[a].url THEN [editor[a] EXCEPT !.pc = "retest", !.url = u]
                   ELSE RowWritten(p)
<1>1. /\ editor[a].pc = "update" /\ WritePool(p, row) /\ UNCHANGED groupRow
      /\ UNCHANGED <<cached, seeker, tester, checking, edits, crossed>>
  BY DEF WriteAddress
<1>2. editor[a] \in Edits /\ p \in Pool /\ editor \in [Editor -> {NoEdit} \cup Edits \cup Deletes \cup Written]
  BY <1>1, EditorTyped
<1>3. editor' = [editor EXCEPT ![a] = next] BY <1>2 DEF WriteAddress
<1>4. InTable(p) => row \in PoolRows BY <1>2, RowTyped DEF ProxyInv, PoolRows
<1>5. next \in Edits \cup Written /\ next.pc \in {"retest", "invalidate"} /\ next.key = p
  <2>1. CASE u # editor[a].url BY <1>2, <2>1 DEF Edits
  <2>2. CASE u = editor[a].url BY <1>2, <2>2 DEF RowWritten, Written, ProxyKey
  <2> QED BY <2>1, <2>2
<1> HIDE DEF p, row, next
<1>6. /\ poolRow' \in [Pool -> PoolRows \cup {Missing, Unborn}]
      /\ \A k \in ProxyKey \ {p} : Found(k)' = Found(k)
  BY <1>1, <1>2, <1>4, PoolWrites DEF ProxyInv
<1>7. ProxyTypeOK'
  <2>1. editor' \in [Editor -> {NoEdit} \cup Edits \cup Deletes \cup Written] BY <1>2, <1>3, <1>5
  <2> QED BY <1>1, <1>6, <2>1 DEF ProxyInv, ProxyTypeOK
<1>8. FreshStays
  <2>1. \A k \in ProxyKey \ {p} : Alike(Found(k), Found(k)') BY <1>6 DEF Alike
  <2>2. \A k \in ProxyKey \cap {p} : HasWritten(a, k)' BY <1>2, <1>3, <1>5 DEF HasWritten
  <2>3. \A k \in ProxyKey : ~HasWritten(a, k) BY <1>1 DEF HasWritten
  <2> QED BY <1>1, <1>2, <1>3, <2>1, <2>2, <2>3, EditStays
<1> QED BY <1>1, <1>7, <1>8, Unread

LEMMA SwitchMoves ==
  ASSUME ProxyInv, NEW a \in Editor, NEW on \in BOOLEAN, NEW status \in Verdicts,
         SwitchPool(a, on, status)
  PROVE  ProxyInv'
<1> DEFINE p == editor[a].key
           row == [poolRow[p] EXCEPT !.on = on, !.status = status]
<1>1. /\ editor[a].pc = "update" /\ WritePool(p, row) /\ UNCHANGED groupRow
      /\ UNCHANGED <<cached, seeker, tester, checking, edits, crossed>>
      /\ editor' = [editor EXCEPT ![a] = RowWritten(p)]
  BY DEF SwitchPool
<1>2. p \in Pool /\ editor \in [Editor -> {NoEdit} \cup Edits \cup Deletes \cup Written] BY <1>1, EditorTyped
<1>3. InTable(p) => row \in PoolRows BY <1>2, RowTyped DEF ProxyInv, PoolRows
<1> HIDE DEF p, row
<1>4. /\ poolRow' \in [Pool -> PoolRows \cup {Missing, Unborn}]
      /\ \A k \in ProxyKey \ {p} : Found(k)' = Found(k)
  BY <1>1, <1>2, <1>3, PoolWrites DEF ProxyInv
<1>5. RowWritten(p) \in Written /\ RowWritten(p).pc = "invalidate" /\ RowWritten(p).key = p
  BY <1>2 DEF RowWritten, Written, ProxyKey
<1>6. ProxyTypeOK'
  <2>1. editor' \in [Editor -> {NoEdit} \cup Edits \cup Deletes \cup Written] BY <1>1, <1>2, <1>5
  <2> QED BY <1>1, <1>4, <2>1 DEF ProxyInv, ProxyTypeOK
<1>7. FreshStays
  <2>1. \A k \in ProxyKey \ {p} : Alike(Found(k), Found(k)') BY <1>4 DEF Alike
  <2>2. \A k \in ProxyKey \cap {p} : HasWritten(a, k)' BY <1>1, <1>2, <1>5 DEF HasWritten
  <2>3. \A k \in ProxyKey : ~HasWritten(a, k) BY <1>1 DEF HasWritten
  <2> QED BY <1>1, <1>2, <2>1, <2>2, <2>3, EditStays
<1> QED BY <1>1, <1>6, <1>7, Unread

\* What was written of the address is not undone by the verdict.
LEMMA RetestMoves ==
  ASSUME ProxyInv, NEW a \in Editor, NEW status \in Verdicts, Retested(a, status)
  PROVE  ProxyInv'
<1> DEFINE p == editor[a].key
<1>1. /\ editor[a].pc \in {"retest", "test"} /\ Judge(p, editor[a].url, status)
      /\ UNCHANGED <<groupRow, cached, seeker, tester, checking, edits, crossed>>
      /\ editor' = [editor EXCEPT ![a] = RowWritten(p)]
  BY DEF Retested
<1>2. /\ p \in Pool /\ editor[a].url \in Address
      /\ editor \in [Editor -> {NoEdit} \cup Edits \cup Deletes \cup Written]
  BY <1>1, EditorTyped DEF Edits
<1>3. /\ poolRow' \in [Pool -> PoolRows \cup {Missing, Unborn}]
      /\ \A k \in ProxyKey : Alike(Found(k), Found(k)')
  BY <1>1, <1>2, Judged DEF ProxyInv
<1>4. RowWritten(p) \in Written /\ RowWritten(p).pc = "invalidate" /\ RowWritten(p).key = p
  BY <1>2 DEF RowWritten, Written, ProxyKey
<1>5. ProxyTypeOK'
  <2>1. editor' \in [Editor -> {NoEdit} \cup Edits \cup Deletes \cup Written] BY <1>1, <1>2, <1>4
  <2> QED BY <1>1, <1>3, <2>1 DEF ProxyInv, ProxyTypeOK
<1>6. FreshStays
  <2>1. \A k \in ProxyKey \cap {} : HasWritten(a, k)' OBVIOUS
  <2>2. \A k \in ProxyKey : HasWritten(a, k) => HasWritten(a, k)'
    BY <1>1, <1>2, <1>4 DEF HasWritten
  <2>3. \A k \in ProxyKey \ {} : Alike(Found(k), Found(k)') BY <1>3
  <2> HIDE DEF p
  <2> QED BY <1>1, <1>2, <2>1, <2>2, <2>3, EditStays
<1> QED BY <1>1, <1>5, <1>6, Unread

LEMMA RetestFailsMoves ==
  ASSUME ProxyInv, NEW a \in Editor, RetestFails(a)
  PROVE  ProxyInv'
<1>1. /\ editor[a].pc = "retest"
      /\ UNCHANGED <<rowVars, cached, seeker, tester, checking, edits>>
      /\ editor' = [editor EXCEPT ![a] = NoEdit]
      /\ crossed' = crossed \cup {editor[a].key}
  BY DEF RetestFails
<1>2. /\ editor[a].key \in ProxyKey
      /\ editor \in [Editor -> {NoEdit} \cup Edits \cup Deletes \cup Written]
  BY <1>1, EditorTyped DEF ProxyKey
<1>3. ProxyTypeOK'
  <2>1. editor' \in [Editor -> {NoEdit} \cup Edits \cup Deletes \cup Written] BY <1>1, <1>2
  <2>2. crossed' \subseteq ProxyKey BY <1>1, <1>2 DEF ProxyInv, ProxyTypeOK
  <2> QED BY <1>1, <2>1, <2>2 DEF ProxyInv, ProxyTypeOK, rowVars
<1>4. FreshStays
  <2>1. \A k \in ProxyKey \cap {} : HasWritten(a, k)' OBVIOUS
  <2>2. \A k \in ProxyKey : HasWritten(a, k) => k \in crossed' BY <1>1 DEF HasWritten
  <2>3. \A k \in ProxyKey \ {} : Alike(Found(k), Found(k)') BY <1>1, RowsStay
  <2> QED BY <1>1, <1>2, <2>1, <2>2, <2>3, EditStays
<1> QED BY <1>1, <1>3, <1>4, Unread

LEMMA AdministerMoves ==
  ASSUME ProxyInv, NEW a \in Editor, Administer(a)
  PROVE  ProxyInv'
<1>1. CASE \E p \in Pool, u \in Address, on \in BOOLEAN : CreatePool(a, p, u, on) BY <1>1, CreateMoves
<1>2. CASE \E p \in Pool : DeletePool(a, p) BY <1>2, DeleteMoves
<1>3. CASE \E g \in Groups : UpdateGroup(a, g) BY <1>3, SetGroupMoves DEF UpdateGroup
<1>4. CASE DeleteGroup(a) BY <1>4, SetGroupMoves DEF DeleteGroup
<1>5. CASE \E p \in Pool, pc \in {"update", "test"} : OpenPool(a, p, pc) BY <1>5, OpenMoves
<1>6. CASE \E u \in Address : WriteAddress(a, u) BY <1>6, AddressMoves
<1>7. CASE \E on \in BOOLEAN, status \in Verdicts : SwitchPool(a, on, status) BY <1>7, SwitchMoves
<1>8. CASE \E status \in Verdicts : Retested(a, status) BY <1>8, RetestMoves
<1>9. CASE RetestFails(a) BY <1>9, RetestFailsMoves
<1>10. CASE Invalidate(a) BY <1>10, InvalidateMoves
<1>11. CASE DeleteRows(a) \/ GiveUpDelete(a) \/ DeleteLate(a)
  BY <1>11, DeleteRowsMoves, GiveUpMoves, DeleteLateMoves
<1> QED BY <1>1, <1>2, <1>3, <1>4, <1>5, <1>6, <1>7, <1>8, <1>9, <1>10, <1>11 DEF Administer

-----------------------------------------------------------------------------
(* The health check. *)

LEMMA CheckMoves ==
  ASSUME ProxyInv, NEW t \in Tester, CheckPools(t)
  PROVE  ProxyInv'
<1>1. ASSUME NEW p \in Pool, TestPool(t, p) PROVE ProxyInv'
  <2> USE <1>1 DEF TestPool
  <2>1. InTable(p) => poolRow[p].url \in Address BY RowTyped DEF ProxyInv, PoolRows
  <2>2. tester' \in [Tester -> Tests] BY <2>1 DEF ProxyInv, ProxyTypeOK, Tests
  <2>3. checking' \in [run: BOOLEAN, todo: SUBSET Pool] BY DEF ProxyInv, ProxyTypeOK
  <2>4. ProxyTypeOK' BY <2>2, <2>3 DEF ProxyInv, ProxyTypeOK, rowVars
  <2>5. FreshStays BY RowsStay, QuietStays
  <2> QED BY <2>4, <2>5, Unread
<1>2. ASSUME NEW status \in Verdicts, Tested(t, status) PROVE ProxyInv'
  <2> USE <1>2 DEF Tested
  <2>1. tester[t].key \in Pool /\ tester[t].url \in Address BY DEF ProxyInv, ProxyTypeOK, Tests
  <2>2. /\ poolRow' \in [Pool -> PoolRows \cup {Missing, Unborn}]
        /\ \A k \in ProxyKey : Alike(Found(k), Found(k)')
    BY <2>1, Judged DEF ProxyInv
  <2>3. tester' \in [Tester -> Tests] BY DEF ProxyInv, ProxyTypeOK, Tests
  <2>4. ProxyTypeOK' BY <2>2, <2>3 DEF ProxyInv, ProxyTypeOK
  <2>5. FreshStays BY <2>2, QuietStays
  <2> QED BY <2>4, <2>5, Unread
<1> QED BY <1>1, <1>2 DEF CheckPools

LEMMA RunMoves ==
  ASSUME ProxyInv, RunNow \/ RunOver
  PROVE  ProxyInv'
<1>1. UNCHANGED <<rowVars, cached, seeker, editor, tester, edits, crossed>> BY DEF RunNow, RunOver
<1>2. checking' \in [run: BOOLEAN, todo: SUBSET Pool]
  <2>1. CASE RunNow
    <3>1. {p \in Pool : InUse(p)} \in SUBSET Pool OBVIOUS
    <3> QED BY <2>1, <3>1 DEF RunNow
  <2>2. CASE RunOver BY <2>2 DEF RunOver, ProxyInv, ProxyTypeOK
  <2> QED BY <2>1, <2>2
<1>3. ProxyTypeOK' BY <1>1, <1>2 DEF ProxyInv, ProxyTypeOK, rowVars
<1>4. FreshStays BY <1>1, RowsStay, QuietStays
<1> QED BY <1>1, <1>3, <1>4, Unread

-----------------------------------------------------------------------------
(* Theorems. *)

LEMMA InvAtFirst == ProxyInit => ProxyInv
<1> SUFFICES ASSUME ProxyInit PROVE ProxyInv
  OBVIOUS
<1> USE DEF ProxyInit
<1>1. AtRest \in Seekers /\ SeekOK(AtRest) /\ AtRest.fill = NoFill
  BY NoneYet, Kinds DEF AtRest, Seekers, SeekerPCs, SeekOK, Spared, Strict
<1>2. ProxyTypeOK
  <2>1. editor \in [Editor -> {NoEdit} \cup Edits \cup Deletes \cup Written] OBVIOUS
  <2>2. tester \in [Tester -> Tests] BY DEF Tests
  <2>3. seeker \in [Seeker -> Seekers] BY <1>1
  <2>4. poolRow \in [Pool -> PoolRows \cup {Missing, Unborn}] OBVIOUS
  <2>5. cached \in [ProxyKey -> Groups \cup Copies \cup {Missing}] OBVIOUS
  <2>6. groupRow \in Groups /\ checking \in [run: BOOLEAN, todo: SUBSET Pool] OBVIOUS
  <2>7. edits \in 0..MaxEdits /\ crossed \subseteq ProxyKey OBVIOUS
  <2> QED BY <2>1, <2>2, <2>3, <2>4, <2>5, <2>6, <2>7 DEF ProxyTypeOK
<1>3. CopiesFresh /\ FillsFresh /\ SeekInv BY <1>1 DEF CopiesFresh, FillsFresh, SeekInv
<1> QED BY <1>2, <1>3 DEF ProxyInv

LEMMA InvMoves == ProxyInv /\ [ProxyNext]_proxyVars => ProxyInv'
<1> SUFFICES ASSUME ProxyInv, [ProxyNext]_proxyVars PROVE ProxyInv'
  OBVIOUS
<1>1. CASE \E q \in Seeker : Seek(q) BY <1>1, SeekMoves
<1>2. CASE \E k \in ProxyKey : Expire(k) BY <1>2, ExpireMoves
<1>3. CASE \E a \in Editor : Administer(a) BY <1>3, AdministerMoves
<1>4. CASE \E t \in Tester : CheckPools(t) BY <1>4, CheckMoves
<1>5. CASE RunNow \/ RunOver BY <1>5, RunMoves
<1>6. CASE UNCHANGED proxyVars
  <2> USE <1>6 DEF proxyVars
  <2>1. ProxyTypeOK' BY DEF ProxyInv, ProxyTypeOK
  <2>2. FreshStays BY RowsStay, QuietStays DEF rowVars
  <2> QED BY <2>1, <2>2, Unread
<1> QED BY <1>1, <1>2, <1>3, <1>4, <1>5, <1>6 DEF ProxyNext

THEOREM InvHolds == ProxySpec => []ProxyInv
  BY InvAtFirst, InvMoves, PTL DEF ProxySpec

\* Rows, copies, requests, calls and tests always are of the type the code gives
\* them (internal/proxypool, internal/api/handlers/admin/proxypools.go).
THEOREM ProxyTypeCorrect == ProxySpec => []ProxyTypeOK
<1>1. ProxyInv => ProxyTypeOK BY DEF ProxyInv
<1> QED BY <1>1, InvHolds, PTL

\* However requests that fill copies, the calls that write rows and drop the
\* copies, and tests interleave, a copy that differs from its row is owed to a
\* call that has still to drop it, to a request that stored what it had read
\* before, or to a call that failed half way or gave up waiting for the write queue -
\* and to the latter only until all copies, or this one, are dropped for whatever
\* reason (Resolver.getPool, Resolver.Invalidate, ProxyPoolHandler.Delete).
THEOREM CopiesAreCurrent == ProxySpec => []CacheCurrent
<1>1. ProxyInv => CacheCurrent BY DEF ProxyInv, CopiesFresh, Fresh, CacheCurrent
<1> QED BY <1>1, InvHolds, PTL

\* A request bound to a strict group, however its pools change while it looks at
\* them, tries each of them that it has not seen to be of no use, and goes past the
\* group only when it has seen so of all of them (Resolver.ResolveCandidates).
THEOREM CandidatesAreKept == ProxySpec => []CandidatesKept
<1>1. ASSUME ProxyInv PROVE CandidatesKept
  <2> SUFFICES ASSUME NEW q \in Seeker, seeker[q].pc = "try", Strict(seeker[q].group),
                      NEW p \in Listed(seeker[q].group.pools) \ seeker[q].unfit
               PROVE  Tries(q, p) /\ ~Tries(q, "direct") /\ ~Tries(q, "marker")
    BY DEF CandidatesKept
  <2>1. SeekOK(seeker[q]) BY <1>1, SeekerTyped
  <2>2. \A c : Tries(q, c) <=> c \in Listed(seeker[q].cands) BY DEF Tries, Listed
  <2> QED BY <2>1, <2>2 DEF SeekOK, Spared
<1> QED BY <1>1, InvHolds, PTL
===============================================================================
