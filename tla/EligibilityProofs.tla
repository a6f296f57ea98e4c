-------------------------- MODULE EligibilityProofs --------------------------
(***************************************************************************)
(* What the coalescing of rebuilds guarantees, for any number of           *)
(* providers, connections and calls: one goroutine at most waits for a     *)
(* key, and - while rebuilds do not overlap - no change is lost.           *)
(***************************************************************************)
EXTENDS Eligibility, TLAPS

\* Somebody is still to rebuild what provider p publishes.
Pending(p) == uncalled[p] > 0 \/ scheduled[p] \/ scheduled[All]

Agrees(c, set) == c \in set <=> c \in eligible

\* What rebuilder w knows of a connection nobody is to look at again.
Right(w, c) ==
  LET p == ProviderOf[c] IN
  CASE work[w].pc = "rest" -> Agrees(c, published[p]) /\ Agrees(c, snapshot)
    [] work[w].pc = "scan" ->
         IF p \in Covered(work[w].key)
         THEN c \notin work[w].todo => Agrees(c, work[w].found)
         ELSE Agrees(c, published[p])
    [] work[w].pc = "publish" ->
         IF p \in work[w].todo THEN Agrees(c, work[w].found) ELSE Agrees(c, published[p])
    [] work[w].pc = "collect" ->
         Agrees(c, published[p]) /\ (p \notin work[w].todo => Agrees(c, work[w].found))

NothingLost(w) == \A c \in Conn \ silent : ~Pending(ProviderOf[c]) => Right(w, c)

\* Each provider publishes connections of its own, and what a rebuild has
\* found is of what it has done with.
InPlace(w) ==
  /\ \A p \in Provider : published[p] \subseteq ConnsOf(p)
  /\ work[w].pc = "scan" => work[w].todo \cap work[w].found = {}
  /\ work[w].pc = "collect" =>
       \A c \in Conn : ProviderOf[c] \in work[w].todo => c \notin work[w].found

RebuildInv(w) == EligTypeOK /\ InPlace(w) /\ NothingLost(w)

USE EligibilityAssumption

-----------------------------------------------------------------------------
(* Typing. *)

LEMMA KeyIs == /\ Provider \subseteq Key /\ All \in Key
               /\ \A k \in Key : Covered(k) \subseteq Provider
               /\ \A p \in Provider : p \in Covered(p) /\ p \in Covered(All)
  BY DEF Key, Covered

LEMMA RestingTyped == Resting \in RebuilderStates /\ \A k \in Key : Scanning(k) \in RebuilderStates
<1>1. All \in Key BY KeyIs
<1> QED BY <1>1 DEF Resting, Scanning, RebuilderStates, Phases

LEMMA StartTyped ==
  ASSUME EligTypeOK, NEW k \in Key, Start(k)
  PROVE  work' \in [Rebuilder -> RebuilderStates] /\ silent' \subseteq Conn
  BY RestingTyped DEF Start, EligTypeOK

LEMMA RebuildTyped ==
  ASSUME EligTypeOK, NEW w \in Rebuilder, Rebuild(w)
  PROVE  EligTypeOK'
<1>1. work[w] \in RebuilderStates BY DEF EligTypeOK
<1>2. Covered(work[w].key) \subseteq Provider BY <1>1, KeyIs DEF RebuilderStates
<1> DEFINE Done(x, found) == [work[w] EXCEPT !.todo = @ \ {x}, !.found = found]
<1>0. ASSUME NEW x, NEW found \in SUBSET Conn, work' = [work EXCEPT ![w] = Done(x, found)]
      PROVE  work' \in [Rebuilder -> RebuilderStates]
  <2>1. Done(x, found) \in RebuilderStates BY <1>1 DEF RebuilderStates
  <2> HIDE DEF Done
  <2> QED BY <1>0, <2>1 DEF EligTypeOK
<1>3. CASE \E c \in Conn : Scan(w, c)
  <2>1. PICK c \in Conn : Scan(w, c) BY <1>3
  <2> DEFINE found == IF c \in eligible THEN work[w].found \cup {c} ELSE work[w].found
  <2>2. found \in SUBSET Conn BY <1>1 DEF RebuilderStates
  <2>3. work' = [work EXCEPT ![w] = Done(c, found)] BY <2>1 DEF Scan, EligTypeOK
  <2> HIDE DEF found, Done
  <2>4. work' \in [Rebuilder -> RebuilderStates] BY <1>0, <2>2, <2>3
  <2> QED BY <2>1, <2>4 DEF Scan, EligTypeOK
<1>4. CASE Scanned(w)
  BY <1>1, <1>2, <1>4 DEF Scanned, EligTypeOK, RebuilderStates, Phases
<1>5. CASE \E p \in Provider : Publish(w, p)
  <2>1. PICK p \in Provider : Publish(w, p) BY <1>5
  <2>2. work' = [work EXCEPT ![w].todo = @ \ {p}] BY <2>1 DEF Publish
  <2>3. published' = [published EXCEPT ![p] = work[w].found \cap ConnsOf(p)] BY <2>1 DEF Publish
  <2>4. work' \in [Rebuilder -> RebuilderStates] BY <1>1, <2>2 DEF EligTypeOK, RebuilderStates
  <2>5. published' \in [Provider -> SUBSET Conn] BY <2>3 DEF EligTypeOK, ConnsOf
  <2> QED BY <2>1, <2>4, <2>5 DEF Publish, EligTypeOK
<1>6. CASE Published(w)
  BY <1>1, <1>6 DEF Published, EligTypeOK, RebuilderStates, Phases
<1>7. CASE \E p \in Provider : Collect(w, p)
  <2>1. PICK p \in Provider : Collect(w, p) BY <1>7
  <2> DEFINE found == work[w].found \cup published[p]
  <2>2. found \in SUBSET Conn BY <1>1 DEF RebuilderStates, EligTypeOK
  <2>3. work' = [work EXCEPT ![w] = Done(p, found)] BY <2>1 DEF Collect, EligTypeOK
  <2> HIDE DEF found, Done
  <2>4. work' \in [Rebuilder -> RebuilderStates] BY <1>0, <2>2, <2>3
  <2> QED BY <2>1, <2>4 DEF Collect, EligTypeOK
<1>8. CASE Collected(w)
  BY <1>1, <1>8, RestingTyped DEF Collected, EligTypeOK, RebuilderStates
<1> QED BY <1>3, <1>4, <1>5, <1>6, <1>7, <1>8 DEF Rebuild

LEMMA CallTyped ==
  ASSUME EligTypeOK, NEW p \in Provider, Call(p)
  PROVE  EligTypeOK'
<1>1. uncalled' \in [Provider -> 0..MaxOwed] BY DEF Call, EligTypeOK
<1>2. ASSUME NEW k \in Key, Schedule(k)
      PROVE  /\ scheduled' \in [Key -> BOOLEAN] /\ recent' \in [Key -> BOOLEAN]
             /\ sleepers' \in [Key -> Nat] /\ work' \in [Rebuilder -> RebuilderStates]
             /\ silent' \subseteq Conn
  <2>1. CASE Start(k) /\ recent' = [recent EXCEPT ![k] = TRUE] /\ UNCHANGED <<scheduled, sleepers>>
    BY <2>1, StartTyped DEF EligTypeOK
  <2>2. CASE ~(Start(k) /\ recent' = [recent EXCEPT ![k] = TRUE] /\ UNCHANGED <<scheduled, sleepers>>)
    <3>1. /\ UNCHANGED <<silent, recent, work>>
          /\ \/ UNCHANGED <<scheduled, sleepers>>
             \/ /\ scheduled' = [scheduled EXCEPT ![k] = TRUE]
                /\ sleepers' = [sleepers EXCEPT ![k] = @ + 1]
      BY <1>2, <2>2, Zenon DEF Schedule
    <3>2. /\ scheduled \in [Key -> BOOLEAN] /\ sleepers \in [Key -> Nat] /\ silent \subseteq Conn
          /\ recent \in [Key -> BOOLEAN] /\ work \in [Rebuilder -> RebuilderStates]
      BY DEF EligTypeOK
    <3>3. scheduled' \in [Key -> BOOLEAN]
      <4>1. [scheduled EXCEPT ![k] = TRUE] \in [Key -> BOOLEAN] BY <3>2
      <4> QED BY <3>1, <3>2, <4>1, Zenon
    <3>4. sleepers' \in [Key -> Nat]
      <4>1. [sleepers EXCEPT ![k] = @ + 1] \in [Key -> Nat] BY <3>2
      <4> QED BY <3>1, <3>2, <4>1, Zenon
    <3> QED BY <3>1, <3>2, <3>3, <3>4
  <2> QED BY <2>1, <2>2
<1>3. /\ scheduled' \in [Key -> BOOLEAN] /\ recent' \in [Key -> BOOLEAN]
      /\ sleepers' \in [Key -> Nat] /\ work' \in [Rebuilder -> RebuilderStates]
      /\ silent' \subseteq Conn
  BY <1>2, KeyIs, StartTyped DEF Call, EligTypeOK
<1> QED BY <1>1, <1>3 DEF Call, EligTypeOK

LEMMA OthersTyped ==
  ASSUME EligTypeOK,
         \/ \E c \in Conn : Change(c) \/ ChangeSilently(c)
         \/ \E k \in Key : WindowOver(k) \/ Wake(k)
  PROVE  EligTypeOK'
<1>1. CASE \E c \in Conn : Change(c)
  <2>1. PICK c \in Conn : Change(c) BY <1>1
  <2>2. ProviderOf[c] \in Provider OBVIOUS
  <2> QED BY <2>1, <2>2 DEF Change, EligTypeOK
<1>2. CASE \E k \in Key : WindowOver(k)
  BY <1>2 DEF WindowOver, EligTypeOK
<1>3. CASE \E k \in Key : Wake(k)
  BY <1>3, StartTyped DEF Wake, EligTypeOK
<1>4. CASE \E c \in Conn : ChangeSilently(c)
  BY <1>4 DEF ChangeSilently, EligTypeOK
<1> QED BY <1>1, <1>2, <1>3, <1>4

LEMMA InitTyped == EligInit => EligTypeOK
  BY RestingTyped DEF EligInit, EligTypeOK, ConnsOf

LEMMA NextTyped == EligTypeOK /\ [EligNext]_eligVars => EligTypeOK'
<1> SUFFICES ASSUME EligTypeOK, [EligNext]_eligVars PROVE EligTypeOK'
  OBVIOUS
<1>1. CASE UNCHANGED eligVars BY <1>1 DEF eligVars, EligTypeOK
<1>2. CASE EligNext BY <1>2, RebuildTyped, CallTyped, OthersTyped DEF EligNext
<1> QED BY <1>1, <1>2

\* Store, snapshot, calls and rebuilds are of the type the code gives them, for
\* any number of providers, connections and goroutines that rebuild.
THEOREM TypeCorrect == EligSpec => []EligTypeOK
  BY InitTyped, NextTyped, PTL DEF EligSpec

-----------------------------------------------------------------------------
(* Coalescing. *)

LEMMA NextCoalesced == EligTypeOK /\ Coalesced /\ [EligNext]_eligVars => Coalesced'
<1> SUFFICES ASSUME EligTypeOK, Coalesced, [EligNext]_eligVars PROVE Coalesced'
  OBVIOUS
<1>1. CASE UNCHANGED <<sleepers, scheduled>> BY <1>1 DEF Coalesced
<1>2. ASSUME NEW k \in Key, Schedule(k) PROVE Coalesced'
  BY <1>2 DEF Schedule, Coalesced, EligTypeOK
<1>3. CASE \E p \in Provider : Call(p)
  BY <1>1, <1>2, <1>3, KeyIs DEF Call
<1>4. CASE \E k \in Key : Wake(k)
  BY <1>4 DEF Wake, Coalesced, EligTypeOK
<1>5. CASE \/ \E c \in Conn : Change(c) \/ ChangeSilently(c)
           \/ \E k \in Key : WindowOver(k)
           \/ \E w \in Rebuilder : Rebuild(w)
           \/ UNCHANGED eligVars
  BY <1>1, <1>5 DEF Change, ChangeSilently, WindowOver, Rebuild, Scan, Scanned, Publish, Published,
                    Collect, Collected, eligVars
<1> QED BY <1>3, <1>4, <1>5 DEF EligNext

\* Whatever the calls and however many goroutines rebuild, one at most waits out
\* the window of a key, exactly while the key's flag is up.
THEOREM CallsCollapse == EligSpec => []Coalesced
<1>1. EligInit => Coalesced BY DEF EligInit, Coalesced
<1> QED BY <1>1, InitTyped, NextTyped, NextCoalesced, PTL DEF EligSpec

-----------------------------------------------------------------------------
(* No change is lost while rebuilds do not overlap.                        *)

LEMMA StartsRight ==
  ASSUME NEW w, Rebuilder = {w}, RebuildInv(w), NEW k \in Key, Start(k),
         UNCHANGED <<eligible, published, snapshot>>
  PROVE  /\ InPlace(w)'
         /\ \A c \in Conn \ silent' :
              ProviderOf[c] \in Covered(k) \/ ~Pending(ProviderOf[c]) => Right(w, c)'
<1>1. work[w].pc = "rest" /\ work'[w] = Scanning(k) BY DEF Start, RebuildInv, EligTypeOK
<1>2. /\ work'[w].pc = "scan" /\ work'[w].key = k /\ work'[w].found = {}
      /\ work'[w].todo = {c \in Conn : ProviderOf[c] \in Covered(k)}
  BY <1>1 DEF Scanning
<1>3. InPlace(w)' BY <1>2 DEF InPlace, RebuildInv
<1>4. ASSUME NEW c \in Conn, ProviderOf[c] \in Covered(k) PROVE Right(w, c)'
  BY <1>2, <1>4 DEF Right
<1>5. ASSUME NEW c \in Conn \ silent', ProviderOf[c] \notin Covered(k), ~Pending(ProviderOf[c])
      PROVE  Right(w, c)'
  <2>1. c \notin silent BY <1>5 DEF Start
  <2>2. Agrees(c, published[ProviderOf[c]]) BY <1>1, <1>5, <2>1 DEF RebuildInv, NothingLost, Right
  <2> QED BY <1>2, <1>5, <2>2 DEF Right, Agrees
<1> QED BY <1>3, <1>4, <1>5

\* Nothing that a rebuild goes by has changed.
LEMMA StaysRight ==
  ASSUME NEW w, InPlace(w), UNCHANGED <<eligible, published, snapshot, work>>
  PROVE  /\ InPlace(w)'
         /\ \A c \in Conn : Right(w, c) => Right(w, c)'
  BY DEF InPlace, Right, Agrees

LEMMA CallKeepsRight ==
  ASSUME NEW w, Rebuilder = {w}, RebuildInv(w), NEW p \in Provider, Call(p)
  PROVE  InPlace(w)' /\ NothingLost(w)'
<1>1. /\ UNCHANGED <<eligible, published, snapshot>>
      /\ \A q \in Provider : q # p => uncalled'[q] = uncalled[q]
  BY DEF Call, RebuildInv, EligTypeOK
<1>2. p \in Key /\ All \in Key /\ p \in Covered(p) /\ p \in Covered(All) BY KeyIs
<1>3. ASSUME NEW k \in Key, p \in Covered(k), Start(k), UNCHANGED scheduled
      PROVE  InPlace(w)' /\ NothingLost(w)'
  <2>1. ASSUME NEW c \in Conn \ silent', ~Pending(ProviderOf[c])' PROVE Right(w, c)'
    <3>1. ProviderOf[c] \in Provider OBVIOUS
    <3>2. ProviderOf[c] = p \/ ~Pending(ProviderOf[c]) BY <1>1, <1>3, <2>1, <3>1 DEF Pending
    <3> QED BY <1>1, <1>3, <3>2, StartsRight
  <2> QED BY <1>1, <1>3, <2>1, StartsRight DEF NothingLost
<1>4. ASSUME NEW k \in Key, p \in Covered(k), k = p \/ k = All, UNCHANGED <<silent, work>>,
             scheduled'[k],
             \A q \in Key : scheduled[q] => scheduled'[q]
      PROVE  InPlace(w)' /\ NothingLost(w)'
  <2>1. ASSUME NEW c \in Conn \ silent, ~Pending(ProviderOf[c])' PROVE Right(w, c)
    <3>1. ProviderOf[c] \in Provider /\ ProviderOf[c] \in Key BY KeyIs
    <3>2. ProviderOf[c] # p BY <1>4, <2>1 DEF Pending
    <3>3. ~Pending(ProviderOf[c]) BY <1>1, <1>2, <1>4, <2>1, <3>1, <3>2 DEF Pending
    <3> QED BY <3>3 DEF RebuildInv, NothingLost
  <2> QED BY <1>1, <1>4, <2>1, StaysRight DEF NothingLost, RebuildInv
<1>5. ASSUME NEW k \in Key, p \in Covered(k), k = p \/ k = All, Schedule(k)
      PROVE  InPlace(w)' /\ NothingLost(w)'
  <2>1. CASE Start(k) /\ UNCHANGED scheduled BY <1>3, <1>5, <2>1
  <2>2. CASE ~(Start(k) /\ UNCHANGED scheduled)
    <3>1. UNCHANGED <<silent, work>> /\ scheduled'[k] /\ \A q \in Key : scheduled[q] => scheduled'[q]
      BY <1>5, <2>2 DEF Schedule, RebuildInv, EligTypeOK
    <3> QED BY <1>4, <1>5, <3>1
  <2> QED BY <2>1, <2>2
<1> QED BY <1>2, <1>3, <1>5 DEF Call

LEMMA WakeKeepsRight ==
  ASSUME NEW w, Rebuilder = {w}, RebuildInv(w), NEW k \in Key, Wake(k)
  PROVE  InPlace(w)' /\ NothingLost(w)'
<1>1. Start(k) /\ UNCHANGED <<eligible, published, snapshot, uncalled>> BY DEF Wake
<1>2. \A q \in Key : q # k => scheduled'[q] = scheduled[q] BY DEF Wake, RebuildInv, EligTypeOK
<1>3. ASSUME NEW c \in Conn \ silent', ~Pending(ProviderOf[c])' PROVE Right(w, c)'
  <2>1. ProviderOf[c] \in Key /\ All \in Key /\ ProviderOf[c] \in Provider BY KeyIs
  <2>2. CASE k = All \/ k = ProviderOf[c]
    <3>1. ProviderOf[c] \in Covered(k) BY <2>1, <2>2, KeyIs
    <3> QED BY <1>1, <3>1, StartsRight
  <2>3. CASE k # All /\ k # ProviderOf[c]
    <3>1. ~Pending(ProviderOf[c]) BY <1>1, <1>2, <1>3, <2>1, <2>3 DEF Pending
    <3> QED BY <1>1, <3>1, StartsRight
  <2> QED BY <2>2, <2>3
<1> QED BY <1>1, <1>3, StartsRight DEF NothingLost

LEMMA RebuildKeepsRight ==
  ASSUME NEW w, Rebuilder = {w}, RebuildInv(w), Rebuild(w)
  PROVE  InPlace(w)' /\ NothingLost(w)'
<1>1. /\ w \in Rebuilder /\ work[w] \in RebuilderStates
      /\ work \in [Rebuilder -> RebuilderStates] /\ published \in [Provider -> SUBSET Conn]
  BY DEF RebuildInv, EligTypeOK
<1>2. UNCHANGED <<eligible, silent, uncalled, scheduled>>
  BY DEF Rebuild, Scan, Scanned, Publish, Published, Collect, Collected
<1>3. \A c \in Conn \ silent' : ~Pending(ProviderOf[c])' => Right(w, c)
  BY <1>2 DEF RebuildInv, NothingLost, Pending
<1>4. /\ \A c \in Conn : ProviderOf[c] \in Provider
      /\ \A p \in Provider : \A c \in ConnsOf(p) : c \in Conn /\ ProviderOf[c] = p
      /\ \A c \in Conn : c \in ConnsOf(ProviderOf[c])
  BY DEF ConnsOf
<1>5. ASSUME NEW c \in Conn, Scan(w, c) PROVE InPlace(w)' /\ NothingLost(w)'
  <2>1. /\ work[w].pc = "scan" /\ UNCHANGED <<published, snapshot>> /\ c \in work[w].todo
        /\ work'[w].pc = "scan" /\ work'[w].key = work[w].key
        /\ work'[w].todo = work[w].todo \ {c}
        /\ work'[w].found = IF c \in eligible THEN work[w].found \cup {c} ELSE work[w].found
    BY <1>1, <1>5 DEF Scan, RebuilderStates
  <2>2. work[w].todo \cap work[w].found = {} BY <2>1 DEF RebuildInv, InPlace
  <2>3. InPlace(w)' BY <2>1, <2>2 DEF RebuildInv, InPlace
  <2>4. ASSUME NEW d \in Conn, Right(w, d) PROVE Right(w, d)'
    BY <1>2, <2>1, <2>2, <2>4 DEF Right, Agrees
  <2> QED BY <1>3, <2>3, <2>4 DEF NothingLost
<1>6. CASE Scanned(w)
  <2>1. /\ work[w].pc = "scan" /\ work[w].todo = {} /\ UNCHANGED <<published, snapshot>>
        /\ work'[w].pc = "publish" /\ work'[w].todo = Covered(work[w].key)
        /\ work'[w].found = work[w].found
    BY <1>1, <1>6 DEF Scanned, RebuilderStates
  <2>2. InPlace(w)' BY <2>1 DEF RebuildInv, InPlace
  <2>3. ASSUME NEW d \in Conn, Right(w, d) PROVE Right(w, d)'
    BY <1>2, <2>1, <2>3 DEF Right, Agrees
  <2> QED BY <1>3, <2>2, <2>3 DEF NothingLost
<1>7. ASSUME NEW p \in Provider, Publish(w, p) PROVE InPlace(w)' /\ NothingLost(w)'
  <2>1. /\ work[w].pc = "publish" /\ UNCHANGED snapshot /\ p \in work[w].todo
        /\ work'[w].pc = "publish" /\ work'[w].found = work[w].found
        /\ work'[w].todo = work[w].todo \ {p}
    BY <1>1, <1>7 DEF Publish, RebuilderStates
  <2>2. /\ published'[p] = work[w].found \cap ConnsOf(p)
        /\ \A q \in Provider : q # p => published'[q] = published[q]
    BY <1>1, <1>7 DEF Publish
  <2>3. InPlace(w)' BY <2>1, <2>2 DEF RebuildInv, InPlace
  <2>4. ASSUME NEW d \in Conn, Right(w, d) PROVE Right(w, d)'
    <3>1. ProviderOf[d] \in Provider /\ d \in ConnsOf(ProviderOf[d]) BY <1>4
    <3>2. CASE ProviderOf[d] = p
      BY <1>2, <2>1, <2>2, <2>4, <3>1, <3>2 DEF Right, Agrees
    <3>3. CASE ProviderOf[d] # p
      BY <1>2, <2>1, <2>2, <2>4, <3>1, <3>3 DEF Right, Agrees
    <3> QED BY <3>2, <3>3
  <2> QED BY <1>3, <2>3, <2>4 DEF NothingLost
<1>8. CASE Published(w)
  <2>1. /\ work[w].pc = "publish" /\ work[w].todo = {} /\ UNCHANGED <<published, snapshot>>
        /\ work'[w].pc = "collect" /\ work'[w].todo = Provider /\ work'[w].found = {}
    BY <1>1, <1>8 DEF Published, RebuilderStates
  <2>2. InPlace(w)' BY <2>1 DEF RebuildInv, InPlace
  <2>3. ASSUME NEW d \in Conn, Right(w, d) PROVE Right(w, d)'
    BY <1>2, <1>4, <2>1, <2>3 DEF Right, Agrees
  <2> QED BY <1>3, <2>2, <2>3 DEF NothingLost
<1>9. ASSUME NEW p \in Provider, Collect(w, p) PROVE InPlace(w)' /\ NothingLost(w)'
  <2>1. /\ work[w].pc = "collect" /\ UNCHANGED <<published, snapshot>> /\ p \in work[w].todo
        /\ work'[w].pc = "collect" /\ work'[w].todo = work[w].todo \ {p}
        /\ work'[w].found = work[w].found \cup published[p]
    BY <1>1, <1>9 DEF Collect, RebuilderStates
  <2>2. \A c \in published[p] : c \in Conn /\ ProviderOf[c] = p
    BY <1>4 DEF RebuildInv, InPlace
  <2>3. \A c \in Conn : ProviderOf[c] \in work[w].todo => c \notin work[w].found
    BY <2>1 DEF RebuildInv, InPlace
  <2>4. InPlace(w)' BY <2>1, <2>2, <2>3 DEF RebuildInv, InPlace
  <2>5. ASSUME NEW d \in Conn, Right(w, d) PROVE Right(w, d)'
    <3>1. Agrees(d, published[ProviderOf[d]]) BY <2>1, <2>5 DEF Right
    <3>2. CASE ProviderOf[d] = p
      <4>1. d \notin work[w].found BY <2>1, <2>3, <3>2
      <4>2. d \in work'[w].found <=> d \in published[p] BY <2>1, <4>1
      <4> QED BY <1>2, <2>1, <3>1, <3>2, <4>2 DEF Right, Agrees
    <3>3. CASE ProviderOf[d] # p
      <4>1. d \in work'[w].found <=> d \in work[w].found BY <2>1, <2>2, <3>3
      <4> QED BY <1>2, <2>1, <2>5, <3>1, <3>3, <4>1 DEF Right, Agrees
    <3> QED BY <3>2, <3>3
  <2> QED BY <1>3, <2>4, <2>5 DEF NothingLost
<1>10. CASE Collected(w)
  <2>1. /\ work[w].pc = "collect" /\ work[w].todo = {} /\ UNCHANGED published
        /\ snapshot' = work[w].found /\ work'[w].pc = "rest"
    BY <1>1, <1>10 DEF Collected, Resting
  <2>2. InPlace(w)' BY <2>1 DEF RebuildInv, InPlace
  <2>3. ASSUME NEW d \in Conn, Right(w, d) PROVE Right(w, d)'
    BY <1>2, <2>1, <2>3 DEF Right, Agrees
  <2> QED BY <1>3, <2>2, <2>3 DEF NothingLost
<1> QED BY <1>5, <1>6, <1>7, <1>8, <1>9, <1>10 DEF Rebuild

LEMMA ChangeKeepsRight ==
  ASSUME NEW w, RebuildInv(w), NEW c \in Conn, Change(c)
  PROVE  InPlace(w)' /\ NothingLost(w)'
<1>1. /\ UNCHANGED <<silent, scheduled, published, snapshot, work>>
      /\ \A d \in Conn \ {c} : d \in eligible' <=> d \in eligible
  BY DEF Change
<1>2. /\ uncalled'[ProviderOf[c]] > 0
      /\ \A d \in Conn : ProviderOf[d] # ProviderOf[c] => uncalled'[ProviderOf[d]] = uncalled[ProviderOf[d]]
  BY DEF Change, RebuildInv, EligTypeOK
<1>3. InPlace(w)' BY <1>1 DEF RebuildInv, InPlace
<1>4. ASSUME NEW d \in Conn \ silent', ~Pending(ProviderOf[d])' PROVE Right(w, d)'
  <2>1. ProviderOf[d] # ProviderOf[c] /\ d # c BY <1>2, <1>4 DEF Pending
  <2>2. Right(w, d) BY <1>1, <1>2, <1>4, <2>1 DEF Pending, RebuildInv, NothingLost
  <2> QED BY <1>1, <2>1, <2>2 DEF Right, Agrees
<1> QED BY <1>3, <1>4 DEF NothingLost

LEMMA SilenceKeepsRight ==
  ASSUME NEW w, RebuildInv(w), NEW c \in Conn, ChangeSilently(c)
  PROVE  InPlace(w)' /\ NothingLost(w)'
<1>1. /\ UNCHANGED <<uncalled, scheduled, published, snapshot, work>>
      /\ \A d \in Conn \ silent' : d \notin silent /\ (d \in eligible' <=> d \in eligible)
  BY DEF ChangeSilently
<1>2. InPlace(w)' BY <1>1 DEF RebuildInv, InPlace
<1>3. ASSUME NEW d \in Conn \ silent', ~Pending(ProviderOf[d])' PROVE Right(w, d)'
  <2>1. Right(w, d) BY <1>1, <1>3 DEF Pending, RebuildInv, NothingLost
  <2> QED BY <1>1, <1>3, <2>1 DEF Right, Agrees
<1> QED BY <1>2, <1>3 DEF NothingLost

LEMMA NextKeepsRight ==
  ASSUME NEW w, Rebuilder = {w}
  PROVE  RebuildInv(w) /\ [EligNext]_eligVars => RebuildInv(w)'
<1> SUFFICES ASSUME RebuildInv(w), [EligNext]_eligVars PROVE RebuildInv(w)'
  OBVIOUS
<1>1. EligTypeOK' BY NextTyped DEF RebuildInv
<1>2. CASE UNCHANGED <<eligible, silent, uncalled, scheduled, published, snapshot, work>>
  <2>1. InPlace(w)' /\ \A c \in Conn : Right(w, c) => Right(w, c)'
    BY <1>2, StaysRight DEF RebuildInv
  <2> QED BY <1>1, <1>2, <2>1 DEF RebuildInv, NothingLost, Pending
<1>3. CASE EligNext
  BY <1>1, <1>2, <1>3, CallKeepsRight, WakeKeepsRight, RebuildKeepsRight, ChangeKeepsRight,
     SilenceKeepsRight
  DEF EligNext, RebuildInv, WindowOver
<1> QED BY <1>2, <1>3 DEF eligVars

LEMMA InitRight ==
  ASSUME NEW w, Rebuilder = {w}
  PROVE  EligInit => RebuildInv(w)
<1> SUFFICES ASSUME EligInit PROVE RebuildInv(w)
  OBVIOUS
<1>1. work[w].pc = "rest" BY DEF EligInit, Resting
<1>2. InPlace(w) BY <1>1 DEF EligInit, InPlace
<1>3. \A c \in Conn : Right(w, c) BY <1>1 DEF EligInit, Right, Agrees, ConnsOf
<1> QED BY <1>2, <1>3, InitTyped DEF RebuildInv, NothingLost

\* For any number of providers, connections and calls of any kind: while one
\* goroutine at a time rebuilds, the router sees every change that somebody has
\* called for once nobody owes, waits for or works on a rebuild, and of the changes
\* made without a call those that came before the last rebuild of their provider.
THEOREM CoalescingLosesNothing ==
  ASSUME NEW CONSTANT w, Rebuilder = {w}
  PROVE  EligSpec => []SnapshotCurrent
<1>1. RebuildInv(w) => SnapshotCurrent
  <2> SUFFICES ASSUME RebuildInv(w), Quiescent PROVE Current
    BY DEF SnapshotCurrent
  <2>1. work[w].pc = "rest" BY DEF Quiescent
  <2>2. ASSUME NEW c \in Conn \ silent PROVE Agrees(c, snapshot)
    <3>1. ProviderOf[c] \in Provider /\ ProviderOf[c] \in Key /\ All \in Key BY KeyIs
    <3>2. ~Pending(ProviderOf[c]) BY <3>1 DEF Quiescent, Pending
    <3> QED BY <2>1, <3>2 DEF RebuildInv, NothingLost, Right
  <2> QED BY <2>2 DEF Current, Agrees
<1>2. EligInit => RebuildInv(w) BY InitRight
<1>3. RebuildInv(w) /\ [EligNext]_eligVars => RebuildInv(w)' BY NextKeepsRight
<1> QED BY <1>1, <1>2, <1>3, PTL DEF EligSpec
=============================================================================
