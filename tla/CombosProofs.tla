---------------------------- MODULE CombosProofs ----------------------------
(***************************************************************************)
(* What is proved of combos, for any number of combos, names, steps and    *)
(* administrative calls: requests are routed as the tables say.  And, in   *)
(* the second half, of their rotation counters, for any number of combos,  *)
(* flush goroutines and resets: one flush waits at a time, a row is never  *)
(* ahead of memory nor either ahead of the picks, and what is picked is    *)
(* saved.                                                                  *)
(***************************************************************************)
EXTENDS Combos, Rotation, TLAPS

\* No two rows have a name in common.
Unique(rows) ==
  \A c, d \in Combo :
    rows[c] # NoRow /\ rows[d] # NoRow /\ rows[c].name = rows[d].name => c = d

\* Ids are given once, and a refresh holds what the tables once were.
TablesOK ==
  /\ Unique(table)
  /\ \A c \in Combo : Exists(c) \/ c \in dormant => c \in used
  /\ \A a \in Admin : call[a].do = "refresh" =>
       /\ Unique(call[a].rows)
       /\ \A c \in Combo : call[a].rows[c] # NoRow => c \in used

Handles(a, c) == OfCombo(a) /\ call[a].combo = c

\* One call at a time has the combo in hand, and what a refresh is about to
\* store of it is what the tables say.
OneInHand(c) ==
  /\ \A a, b \in Admin : Handles(a, c) /\ Handles(b, c) => a = b
  /\ \A a \in Admin : call[a].do = "refresh" => call[a].rows[c] = table[c]

\* Nobody else has, or is about to give himself, the combo's name.
NameIsKept(c) ==
  Exists(c) =>
    /\ \A d \in Combo \ {c} : IsLoaded(d) => copy[d].name # table[c].name
    /\ \A a \in Admin : call[a].do \in {"create", "update"} /\ call[a].combo # c =>
         call[a].name # table[c].name

\* The index finds the combo by no name but the one of its copy, and by that one
\* if it is the name of its row.
Indexed(c) ==
  /\ \A n \in Name : byName[n] = c => IsLoaded(c) /\ copy[c].name = n
  /\ IsLoaded(c) /\ Exists(c) /\ copy[c].name = table[c].name => byName[copy[c].name] = c

\* What the copy holds of a combo once its calls are over.
CopyOfRow(c) == IF Exists(c) /\ c \notin dormant THEN Entry(table[c]) ELSE NoRow

\* The copy says what the row says.
Follows(c) ==
  /\ copy[c] = CopyOfRow(c)
  /\ Exists(c) /\ c \notin dormant => steps[c] = table[c].steps

\* What the call has still to do makes the copy follow the row.
Owed(a, c) ==
  LET cl == call[a] IN
  /\ cl.do = "create" =>
       /\ table[c] = [kind |-> "row", name |-> cl.name, active |-> TRUE, steps |-> cl.steps]
       /\ c \notin dormant
       /\ copy[c] \in {NoRow, CopyOfRow(c)}
  /\ cl.do = "update" =>
       /\ Exists(c)
       /\ cl.name \in {NoName, table[c].name}
       /\ Flag(cl.active, table[c].active) = table[c].active
       /\ c \in dormant => copy[c] = NoRow
       /\ c \notin dormant =>
            /\ IsLoaded(c)
            /\ cl.name = NoName => copy[c].name = table[c].name
            /\ Flag(cl.active, copy[c].active) = table[c].active
            /\ steps[c] = table[c].steps
  /\ cl.do = "delete" => ~Exists(c)
  /\ cl.do \in {"load", "store"} => Exists(c) /\ copy[c] = CopyOfRow(c)
  /\ cl.do = "store" => cl.steps = table[c].steps

\* What holds of a combo that no two calls have crossed at.
Kept(c) ==
  /\ OneInHand(c)
  /\ NameIsKept(c)
  /\ Indexed(c)
  /\ ~Busy(c) => Follows(c)
  /\ \A a \in Admin : Handles(a, c) => Owed(a, c)

ComboInv == ComboTypeOK /\ TablesOK /\ \A c \in Combo \ raced : Kept(c)

-----------------------------------------------------------------------------
(* Calls and rows. *)

LEMMA RowKinds ==
  /\ \A rw \in [kind: {"row"}, name: Name, active: BOOLEAN, steps: SUBSET ComboStep] : rw # NoRow
  /\ \A e \in [kind: {"entry"}, name: Name, active: BOOLEAN] : e # NoRow
  /\ NoRow \in Rows /\ NoRow \in Entries
  BY DEF NoRow, Rows, Entries

LEMMA CallKinds ==
  ASSUME NEW cl \in Calls
  PROVE  /\ cl.do \in {"create", "update", "delete", "load", "store", "refresh", "nothing"}
         /\ cl.do = "create" => cl.combo \in Combo /\ cl.name \in Name /\ cl.steps \in SUBSET ComboStep
         /\ cl.do = "update" => /\ cl.combo \in Combo /\ cl.name \in Name \cup {NoName}
                                /\ cl.active \in {"keep", "on", "off"}
         /\ cl.do \in {"delete", "load"} => cl.combo \in Combo
         /\ cl.do = "store" => cl.combo \in Combo /\ cl.steps \in SUBSET ComboStep
         /\ cl.do = "refresh" => cl.rows \in [Combo -> Rows]
         /\ cl.do = "nothing" => cl = Done
  BY DEF Calls, Done

LEMMA EntryTyped ==
  ASSUME NEW rw \in Rows, rw # NoRow
  PROVE  Entry(rw) \in Entries /\ Entry(rw) # NoRow /\ Entry(rw).name = rw.name /\ Entry(rw).active = rw.active
         /\ rw.name \in Name /\ rw.active \in BOOLEAN /\ rw.steps \in SUBSET ComboStep
  BY DEF Rows, Entries, Entry, NoRow

-----------------------------------------------------------------------------
(* What the steps of a call leave of a combo's invariant: a transaction of *)
(* another combo, one of the combo itself, and the same under the lock.    *)

LEMMA OtherRow ==
  ASSUME ComboTypeOK, NEW c \in Combo, Kept(c), NEW a \in Admin, NEW rest,
         call[a] = Done, call' = [call EXCEPT ![a] = rest], rest.do # "nothing",
         table'[c] = table[c], UNCHANGED <<copyVars, dormant>>,
         rest.do = "refresh" => rest.rows[c] = table[c],
         rest.do # "refresh" => rest.combo # c,
         Exists(c) /\ rest.do \in {"create", "update"} => rest.name # table[c].name
  PROVE  Kept(c)'
<1> USE DEF copyVars
<1>1. call \in [Admin -> Calls] BY DEF ComboTypeOK
<1>2. /\ call'[a] = rest /\ \A b \in Admin \ {a} : call'[b] = call[b]
      /\ ~Handles(a, c) /\ ~Handles(a, c)'
      /\ Exists(c)' <=> Exists(c)
      /\ IsLoaded(c)' <=> IsLoaded(c)
  BY <1>1 DEF Handles, OfCombo, Done, Exists, IsLoaded
<1>3. \A b \in Admin : Handles(b, c)' <=> Handles(b, c) BY <1>2 DEF Handles, OfCombo
<1>4. OneInHand(c)' BY <1>2, <1>3 DEF Kept, OneInHand
<1>5. NameIsKept(c)' BY <1>2 DEF Kept, NameIsKept, IsLoaded
<1>6. Indexed(c)' BY <1>2 DEF Kept, Indexed
<1>7. CopyOfRow(c)' = CopyOfRow(c) BY <1>2 DEF CopyOfRow, Entry
<1>8. (Follows(c) => Follows(c)') /\ (Busy(c)' <=> Busy(c))
  BY <1>2, <1>3, <1>7 DEF Follows, Busy, Handles
<1>9. ASSUME NEW b \in Admin, Handles(b, c)' PROVE Owed(b, c)'
  <2>1. b # a /\ Handles(b, c) /\ call'[b] = call[b] BY <1>2, <1>3, <1>9
  <2>2. Owed(b, c) BY <2>1 DEF Kept
  <2> QED BY <1>2, <1>7, <2>1, <2>2 DEF Owed
<1> QED BY <1>4, <1>5, <1>6, <1>8, <1>9 DEF Kept

LEMMA OwnRow ==
  ASSUME ComboTypeOK, NEW c \in Combo, Kept(c), NEW a \in Admin, NEW rest,
         call[a] = Done, call' = [call EXCEPT ![a] = rest],
         rest.do \notin {"nothing", "refresh"}, rest.combo = c,
         ~Crosses(a, c), UNCHANGED <<copyVars, dormant>>,
         Exists(c)' => \/ Exists(c) /\ table'[c].name = table[c].name
                       \/ table'[c].name # NoName /\ ~NameInHand(a, c, table'[c].name),
         Exists(c)' /\ IsLoaded(c) => \/ Exists(c) /\ table'[c].name = table[c].name
                                      \/ copy[c].name # table'[c].name
                                      \/ byName[copy[c].name] = c,
         Owed(a, c)'
  PROVE  Kept(c)'
<1> USE DEF copyVars
<1>1. call \in [Admin -> Calls] BY DEF ComboTypeOK
<1>2. /\ call'[a] = rest /\ \A b \in Admin \ {a} : call'[b] = call[b]
      /\ Handles(a, c)'
      /\ IsLoaded(c)' <=> IsLoaded(c)
  BY <1>1 DEF Handles, OfCombo, IsLoaded
<1>3. \A b \in Admin \ {a} : ~Handles(b, c) /\ ~Handles(b, c)' /\ call[b].do # "refresh"
  BY <1>2 DEF Crosses, Handles, OfCombo
<1>4. OneInHand(c)' BY <1>2, <1>3 DEF OneInHand
<1>5. NameIsKept(c)'
  <2> SUFFICES ASSUME Exists(c)'
               PROVE  /\ \A d \in Combo \ {c} : IsLoaded(d) => copy[d].name # table'[c].name
                      /\ \A b \in Admin : call'[b].do \in {"create", "update"} /\ call'[b].combo # c =>
                            call'[b].name # table'[c].name
    BY DEF NameIsKept, IsLoaded
  <2>1. CASE Exists(c) /\ table'[c].name = table[c].name
    BY <1>2, <2>1 DEF Kept, NameIsKept
  <2>2. CASE table'[c].name # NoName /\ ~NameInHand(a, c, table'[c].name)
    BY <1>2, <2>2 DEF NameInHand
  <2> QED BY <2>1, <2>2
<1>6. Indexed(c)' BY <1>2 DEF Kept, Indexed, IsLoaded
<1>7. Busy(c)' BY <1>2 DEF Busy, Handles
<1> QED BY <1>3, <1>4, <1>5, <1>6, <1>7 DEF Kept

LEMMA OtherCopy ==
  ASSUME ComboTypeOK, NEW c \in Combo, Kept(c), NEW a \in Admin, ~Handles(a, c), Finish(a),
         UNCHANGED <<table, dormant>>, copy'[c] = copy[c], steps'[c] = steps[c],
         \A d \in Combo \ {c} : IsLoaded(d)' =>
           \/ IsLoaded(d) /\ copy'[d].name = copy[d].name
           \/ OfCombo(a) /\ call[a].do \in {"create", "update"} /\ copy'[d].name = call[a].name,
         \A n \in Name : byName'[n] = c => byName[n] = c,
         Exists(c) => byName'[table[c].name] = byName[table[c].name]
  PROVE  Kept(c)'
<1> USE DEF Finish
<1>1. call \in [Admin -> Calls] BY DEF ComboTypeOK
<1>2. /\ call'[a] = Done /\ \A b \in Admin \ {a} : call'[b] = call[b]
      /\ ~Handles(a, c)'
      /\ Exists(c)' <=> Exists(c)
      /\ IsLoaded(c)' <=> IsLoaded(c)
  BY <1>1 DEF Handles, OfCombo, Done, Exists, IsLoaded
<1>3. \A b \in Admin : Handles(b, c)' <=> Handles(b, c) BY <1>2 DEF Handles, OfCombo
<1>4. OneInHand(c)' BY <1>2, <1>3 DEF Kept, OneInHand, Done
<1>5. NameIsKept(c)'
  <2> SUFFICES ASSUME Exists(c)
               PROVE  /\ \A d \in Combo \ {c} : IsLoaded(d)' => copy'[d].name # table[c].name
                      /\ \A b \in Admin : call'[b].do \in {"create", "update"} /\ call'[b].combo # c =>
                            call'[b].name # table[c].name
    BY <1>2 DEF NameIsKept, IsLoaded
  <2>1. OfCombo(a) /\ call[a].do \in {"create", "update"} => call[a].name # table[c].name
    BY DEF Kept, NameIsKept, Handles
  <2> QED BY <1>2, <2>1 DEF Kept, NameIsKept, Done
<1>6. Indexed(c)' BY <1>2 DEF Kept, Indexed
<1>7. CopyOfRow(c)' = CopyOfRow(c) BY <1>2 DEF CopyOfRow, Entry
<1>8. (Follows(c) => Follows(c)') /\ (Busy(c)' <=> Busy(c))
  BY <1>2, <1>3, <1>7 DEF Follows, Busy, Handles
<1>9. ASSUME NEW b \in Admin, Handles(b, c)' PROVE Owed(b, c)'
  <2>1. b # a /\ Handles(b, c) /\ call'[b] = call[b] BY <1>2, <1>3, <1>9
  <2>2. Owed(b, c) BY <2>1 DEF Kept
  <2> QED BY <1>2, <1>7, <2>1, <2>2 DEF Owed
<1> QED BY <1>4, <1>5, <1>6, <1>8, <1>9 DEF Kept

LEMMA OwnCopy ==
  ASSUME ComboTypeOK, NEW c \in Combo, Kept(c), NEW a \in Admin, Handles(a, c), Finish(a),
         UNCHANGED <<table, dormant>>,
         \A d \in Combo \ {c} : copy'[d] = copy[d],
         Follows(c)', Indexed(c)'
  PROVE  Kept(c)'
<1> USE DEF Finish
<1>1. call \in [Admin -> Calls] BY DEF ComboTypeOK
<1>2. call'[a] = Done /\ (\A b \in Admin \ {a} : call'[b] = call[b]) /\ ~Handles(a, c)'
  BY <1>1 DEF Handles, OfCombo, Done
<1>3. \A b \in Admin : ~Handles(b, c)' BY <1>2 DEF Kept, OneInHand, Handles, OfCombo
<1>4. OneInHand(c)' BY <1>2, <1>3 DEF Kept, OneInHand, Done
<1>5. NameIsKept(c)' BY <1>2 DEF Kept, NameIsKept, IsLoaded, Exists, Done
<1> QED BY <1>3, <1>4, <1>5 DEF Kept

-----------------------------------------------------------------------------
(* Transactions. *)

\* One transaction: the row of c is written, and rest is what the call has still to do.
LEMMA RowWritten ==
  ASSUME ComboInv, NEW c \in Combo, NEW a \in Admin, NEW n, NEW rest \in Calls, Begin(a, rest),
         rest.do \notin {"nothing", "refresh"}, rest.combo = c,
         rest.do \in {"create", "update"} => rest.name = n,
         Writes(a, c, n), UNCHANGED <<copyVars, dormant>>,
         table' \in [Combo -> Rows],
         \A d \in Combo \ {c} : table'[d] = table[d],
         used \subseteq used', used' \subseteq Combo \cup ComboStep, c \in used',
         Exists(c)' => \/ Exists(c) /\ table'[c].name = table[c].name
                       \/ table'[c].name = n /\ n # NoName,
         n # NoName => \A d \in Combo \ {c} : Exists(d) => table[d].name # n,
         c \notin raced /\ Kept(c) /\ ~Busy(c) => Owed(a, c)'
  PROVE  ComboInv'
<1> USE DEF Begin, copyVars
<1>1. call[a] = Done /\ call' = [call EXCEPT ![a] = rest] OBVIOUS
<1>2. call \in [Admin -> Calls] /\ ComboTypeOK /\ TablesOK BY DEF ComboInv, ComboTypeOK
<1>3. raced' \subseteq raced \cup {c} /\ raced \subseteq raced'
      /\ (c \notin raced' => c \notin raced /\ ~Crosses(a, c) /\ ~NameInHand(a, c, n))
  BY DEF Writes
<1>4. ComboTypeOK' BY <1>1, <1>2, <1>3 DEF ComboTypeOK
<1>5. TablesOK'
  <2>1. Unique(table)'
    <3> SUFFICES ASSUME NEW d \in Combo, NEW e \in Combo, d # e, Exists(d)', Exists(e)',
                        table'[d].name = table'[e].name
                 PROVE  FALSE
      BY DEF Unique, Exists
    <3>1. CASE d # c /\ e # c BY <1>2, <3>1 DEF TablesOK, Unique, Exists
    <3>2. CASE d = c BY <1>2, <3>2 DEF TablesOK, Unique, Exists
    <3>3. CASE e = c BY <1>2, <3>3 DEF TablesOK, Unique, Exists
    <3> QED BY <3>1, <3>2, <3>3
  <2>2. \A d \in Combo : Exists(d)' \/ d \in dormant' => d \in used' BY <1>2 DEF TablesOK, Exists
  <2>3. ASSUME NEW b \in Admin, call'[b].do = "refresh"
        PROVE  /\ Unique(call'[b].rows)
               /\ \A d \in Combo : call'[b].rows[d] # NoRow => d \in used'
    BY <1>1, <1>2, <2>3 DEF TablesOK
  <2> QED BY <2>1, <2>2, <2>3 DEF TablesOK, Unique
<1>6. ASSUME NEW d \in Combo \ raced' PROVE Kept(d)'
  <2>1. Kept(d) BY <1>3 DEF ComboInv
  <2>2. CASE d # c
    <3>1. Exists(d) /\ rest.do \in {"create", "update"} => rest.name # table[d].name
      <4>1. Exists(d) => table[d].name \in Name BY <1>2, EntryTyped DEF ComboTypeOK, Exists
      <4> QED BY <2>2, <4>1, CombosAssumption
    <3> QED BY <1>1, <1>2, <2>1, <2>2, <3>1, OtherRow
  <2>3. CASE d = c
    <3>1. c \notin raced /\ ~Crosses(a, c) /\ ~NameInHand(a, c, n) /\ Kept(c) BY <1>3, <2>1, <2>3
    <3>2. ~Busy(c) BY <1>1, <3>1 DEF Busy, Crosses, OfCombo, Done
    <3>3. Owed(a, c)' BY <3>1, <3>2
    <3>4. copy[c] = CopyOfRow(c) BY <3>1, <3>2 DEF Kept, Follows
    <3>5. IsLoaded(c) => Exists(c) /\ copy[c].name = table[c].name
      BY <3>4 DEF CopyOfRow, IsLoaded, Entry
    <3>6. Exists(c)' => \/ Exists(c) /\ table'[c].name = table[c].name
                        \/ table'[c].name # NoName /\ ~NameInHand(a, c, table'[c].name)
      BY <3>1
    <3>7. Exists(c)' /\ IsLoaded(c) => \/ Exists(c) /\ table'[c].name = table[c].name
                                       \/ copy[c].name # table'[c].name
                                       \/ byName[copy[c].name] = c
      BY <3>5
    <3>8. Kept(c)' BY <1>1, <1>2, <3>1, <3>3, <3>6, <3>7, OwnRow
    <3> QED BY <2>3, <3>8
  <2> QED BY <2>2, <2>3
<1> QED BY <1>4, <1>5, <1>6 DEF ComboInv

LEMMA TableTyped ==
  ASSUME ComboInv, NEW c \in Combo, Exists(c)
  PROVE  /\ table \in [Combo -> Rows] /\ c \in used /\ used \subseteq Combo \cup ComboStep
         /\ table[c] \in [kind: {"row"}, name: Name, active: BOOLEAN, steps: SUBSET ComboStep]
  BY DEF ComboInv, ComboTypeOK, TablesOK, Exists, Rows

LEMMA CreateKeeps ==
  ASSUME ComboInv, NEW a \in Admin, NEW c \in Combo, NEW n \in Name, NEW S \in SUBSET ComboStep,
         CreateRow(a, c, n, S)
  PROVE  ComboInv'
<1> DEFINE rest == [do |-> "create", combo |-> c, name |-> n, steps |-> S]
           row  == [kind |-> "row", name |-> n, active |-> TRUE, steps |-> S]
<1>1. /\ c \notin used /\ NameIsFree(n) /\ Begin(a, rest) /\ Writes(a, c, n)
      /\ table' = [table EXCEPT ![c] = row] /\ used' = used \cup {c} \cup S
      /\ UNCHANGED <<copyVars, dormant>>
  BY DEF CreateRow
<1>2. table \in [Combo -> Rows] /\ used \subseteq Combo \cup ComboStep BY DEF ComboInv, ComboTypeOK
<1>3. row \in Rows /\ row # NoRow /\ rest \in Calls BY DEF Rows, NoRow, Calls
<1>4. table' \in [Combo -> Rows] /\ table'[c] = row /\ \A d \in Combo \ {c} : table'[d] = table[d]
  BY <1>1, <1>2, <1>3
<1>5. \A d \in Combo \ {c} : Exists(d) => table[d].name # n BY <1>1 DEF NameIsFree
<1>6. ASSUME Kept(c), ~Busy(c) PROVE Owed(a, c)'
  <2>1. ~Exists(c) /\ c \notin dormant BY <1>1 DEF ComboInv, TablesOK
  <2>2. copy[c] = NoRow BY <1>6, <2>1 DEF Kept, Follows, CopyOfRow
  <2>3. call'[a] = rest BY <1>1 DEF Begin, ComboInv, ComboTypeOK
  <2> QED BY <1>1, <1>4, <2>1, <2>2, <2>3 DEF Owed, copyVars
<1>7. /\ rest.do = "create" /\ rest.combo = c /\ rest.name = n
      /\ c \in used' /\ used \subseteq used' /\ used' \subseteq Combo \cup ComboStep
      /\ table'[c].name = n /\ n # NoName
  BY <1>1, <1>2, <1>4, CombosAssumption
<1> HIDE DEF rest, row
<1> QED BY <1>1, <1>3, <1>4, <1>5, <1>6, <1>7, RowWritten

LEMMA UpdateKeeps ==
  ASSUME ComboInv, NEW a \in Admin, NEW c \in Combo, NEW n \in Name \cup {NoName},
         NEW active \in {"keep", "on", "off"}, UpdateRow(a, c, n, active)
  PROVE  ComboInv'
<1> DEFINE rest == [do |-> "update", combo |-> c, name |-> n, active |-> active]
           row  == [table[c] EXCEPT !.name = Named(n, table[c].name),
                                    !.active = Flag(active, table[c].active)]
<1>1. /\ Exists(c) /\ Begin(a, rest) /\ Writes(a, c, n) /\ UNCHANGED <<used, copyVars, dormant>>
      /\ n # NoName => \A d \in Combo \ {c} : Exists(d) => table[d].name # n
  BY DEF UpdateRow
<1>2. /\ table \in [Combo -> Rows] /\ c \in used /\ used \subseteq Combo \cup ComboStep
      /\ table[c] \in [kind: {"row"}, name: Name, active: BOOLEAN, steps: SUBSET ComboStep]
  BY <1>1, TableTyped
<1>3. table' = [table EXCEPT ![c] = row] BY <1>2 DEF UpdateRow
<1>4. Named(n, table[c].name) \in Name /\ Flag(active, table[c].active) \in BOOLEAN
  BY <1>2 DEF Named, Flag
<1>5. /\ row \in [kind: {"row"}, name: Name, active: BOOLEAN, steps: SUBSET ComboStep]
      /\ row.name = Named(n, table[c].name) /\ row.active = Flag(active, table[c].active)
      /\ row.steps = table[c].steps
  BY <1>2, <1>4
<1> HIDE DEF row
<1>6. /\ table' \in [Combo -> Rows] /\ table'[c] = row /\ row # NoRow
      /\ \A d \in Combo \ {c} : table'[d] = table[d]
  BY <1>2, <1>3, <1>5, RowKinds DEF Rows
<1>7. rest \in Calls /\ rest.do = "update" /\ rest.combo = c /\ rest.name = n BY DEF Calls
<1>8. ASSUME Kept(c), ~Busy(c) PROVE Owed(a, c)'
  <2>1. call'[a] = rest BY <1>1 DEF Begin, ComboInv, ComboTypeOK
  <2>2. copy[c] = CopyOfRow(c) /\ (c \notin dormant => steps[c] = table[c].steps)
    BY <1>1, <1>8 DEF Kept, Follows
  <2>3. Exists(c)' BY <1>6 DEF Exists
  <2>4. n \in {NoName, table'[c].name} BY <1>5, <1>6 DEF Named
  <2>5. Flag(active, table'[c].active) = table'[c].active BY <1>5, <1>6 DEF Flag
  <2>6. c \in dormant' => copy'[c] = NoRow BY <1>1, <2>2 DEF CopyOfRow, copyVars
  <2>7. ASSUME c \notin dormant
        PROVE  /\ copy[c] # NoRow
               /\ n = NoName => copy[c].name = table'[c].name
               /\ Flag(active, copy[c].active) = table'[c].active
               /\ steps[c] = table'[c].steps
    <3>1. copy[c] = Entry(table[c]) BY <1>1, <2>2, <2>7 DEF CopyOfRow
    <3> QED BY <1>2, <1>5, <1>6, <2>2, <2>7, <3>1, RowKinds DEF Entry, Named, NoRow
  <2> QED BY <1>1, <2>1, <2>3, <2>4, <2>5, <2>6, <2>7 DEF Owed, copyVars, IsLoaded
<1>9. Exists(c)' => \/ Exists(c) /\ table'[c].name = table[c].name
                    \/ table'[c].name = n /\ n # NoName
  BY <1>1, <1>5, <1>6 DEF Named
<1> HIDE DEF rest
<1> QED BY <1>1, <1>2, <1>6, <1>7, <1>8, <1>9, RowWritten

LEMMA DeleteKeeps ==
  ASSUME ComboInv, NEW a \in Admin, NEW c \in Combo, DeleteRow(a, c)
  PROVE  ComboInv'
<1> DEFINE rest == [do |-> "delete", combo |-> c]
<1>1. /\ c \in used /\ Begin(a, rest) /\ Writes(a, c, NoName) /\ UNCHANGED <<used, copyVars, dormant>>
      /\ table' = [table EXCEPT ![c] = NoRow]
  BY DEF DeleteRow
<1>2. table \in [Combo -> Rows] /\ used \subseteq Combo \cup ComboStep BY DEF ComboInv, ComboTypeOK
<1>3. /\ table' \in [Combo -> Rows] /\ ~Exists(c)'
      /\ \A d \in Combo \ {c} : table'[d] = table[d]
  BY <1>1, <1>2, RowKinds DEF Exists
<1>4. rest \in Calls /\ rest.do = "delete" /\ rest.combo = c BY DEF Calls
<1>5. call'[a] = rest BY <1>1 DEF Begin, ComboInv, ComboTypeOK
<1>6. Owed(a, c)' BY <1>3, <1>4, <1>5 DEF Owed
<1> HIDE DEF rest
<1> QED BY <1>1, <1>2, <1>3, <1>4, <1>6, RowWritten

LEMMA StepKeeps ==
  ASSUME ComboInv, NEW a \in Admin, NEW c \in Combo, NEW s \in ComboStep,
         InsertStep(a, c, s) \/ DeleteStep(a, c, s)
  PROVE  ComboInv'
<1> DEFINE rest == [do |-> "load", combo |-> c]
<1>1. PICK S \in SUBSET ComboStep : table' = [table EXCEPT ![c].steps = S]
  <2>1. Exists(c) BY DEF InsertStep, DeleteStep
  <2>2. table[c].steps \cup {s} \in SUBSET ComboStep /\ table[c].steps \ {s} \in SUBSET ComboStep
    BY <2>1, TableTyped
  <2>3. CASE InsertStep(a, c, s)
    <3>1. table' = [table EXCEPT ![c].steps = table[c].steps \cup {s}] BY <2>3 DEF InsertStep
    <3> QED BY <2>2, <3>1
  <2>4. CASE DeleteStep(a, c, s)
    <3>1. table' = [table EXCEPT ![c].steps = table[c].steps \ {s}] BY <2>4 DEF DeleteStep
    <3> QED BY <2>2, <3>1
  <2> QED BY <2>3, <2>4
<1>2. /\ Exists(c) /\ Begin(a, rest) /\ Writes(a, c, NoName) /\ UNCHANGED <<copyVars, dormant>>
      /\ used' \in {used, used \cup {s}}
  BY DEF InsertStep, DeleteStep
<1>3. /\ table \in [Combo -> Rows] /\ c \in used /\ used \subseteq Combo \cup ComboStep
      /\ table[c] \in [kind: {"row"}, name: Name, active: BOOLEAN, steps: SUBSET ComboStep]
  BY <1>2, TableTyped
<1> DEFINE row == [table[c] EXCEPT !.steps = S]
<1>4. /\ row \in [kind: {"row"}, name: Name, active: BOOLEAN, steps: SUBSET ComboStep]
      /\ row.name = table[c].name /\ row.active = table[c].active
  BY <1>3
<1>5. table' = [table EXCEPT ![c] = row] BY <1>1, <1>3
<1> HIDE DEF row
<1>6. /\ table' \in [Combo -> Rows] /\ table'[c] = row /\ Exists(c)'
      /\ \A d \in Combo \ {c} : table'[d] = table[d]
  BY <1>3, <1>4, <1>5, RowKinds DEF Rows, Exists
<1>7. rest \in Calls /\ rest.do = "load" /\ rest.combo = c BY DEF Calls
<1>8. ASSUME Kept(c), ~Busy(c) PROVE Owed(a, c)'
  <2>1. call'[a] = rest BY <1>2 DEF Begin, ComboInv, ComboTypeOK
  <2>2. copy[c] = CopyOfRow(c) BY <1>8 DEF Kept, Follows
  <2>3. CopyOfRow(c)' = CopyOfRow(c) BY <1>2, <1>4, <1>6 DEF CopyOfRow, Entry
  <2> QED BY <1>2, <1>6, <1>7, <2>1, <2>2, <2>3 DEF Owed, copyVars
<1>9. used \subseteq used' /\ used' \subseteq Combo \cup ComboStep /\ c \in used' BY <1>2, <1>3
<1>10. table'[c].name = table[c].name BY <1>4, <1>6
<1> HIDE DEF rest
<1> QED BY <1>2, <1>6, <1>7, <1>8, <1>9, <1>10, RowWritten

LEMMA ReadKeeps ==
  ASSUME ComboInv, NEW a \in Admin, ReadTables(a)
  PROVE  ComboInv'
<1> DEFINE rest == [do |-> "refresh", rows |-> table]
<1>1. /\ call[a] = Done /\ call' = [call EXCEPT ![a] = rest]
      /\ UNCHANGED <<tableVars, copyVars, dormant, raced>>
  BY DEF ReadTables, Begin
<1>2. call \in [Admin -> Calls] /\ table \in [Combo -> Rows] /\ ComboTypeOK /\ TablesOK
  BY DEF ComboInv, ComboTypeOK
<1>3. rest \in Calls BY <1>2 DEF Calls
<1>4. rest.do = "refresh" /\ rest.rows = table OBVIOUS
<1> HIDE DEF rest
<1>5. ComboTypeOK' BY <1>1, <1>2, <1>3 DEF ComboTypeOK, tableVars, copyVars
<1>6. call'[a] = rest /\ \A b \in Admin \ {a} : call'[b] = call[b] BY <1>1, <1>2
<1>7. TablesOK' BY <1>1, <1>2, <1>4, <1>6 DEF TablesOK, Exists, tableVars, Unique
<1>8. ASSUME NEW d \in Combo \ raced' PROVE Kept(d)'
  <2>1. Kept(d) BY <1>1 DEF ComboInv
  <2> QED BY <1>1, <1>2, <1>4, <2>1, OtherRow DEF tableVars
<1> QED BY <1>5, <1>7, <1>8 DEF ComboInv

LEMMA LoadKeeps ==
  ASSUME ComboInv, NEW a \in Admin, LoadSteps(a)
  PROVE  ComboInv'
<1> DEFINE c == call[a].combo
           S == IF Exists(c) THEN table[c].steps ELSE {}
           rest == [do |-> "store", combo |-> c, steps |-> S]
<1>1. /\ call[a].do = "load" /\ call' = [call EXCEPT ![a] = rest]
      /\ UNCHANGED <<tableVars, copyVars, dormant, raced>>
  BY DEF LoadSteps
<1>2. call \in [Admin -> Calls] /\ table \in [Combo -> Rows] /\ ComboTypeOK /\ TablesOK
  BY DEF ComboInv, ComboTypeOK
<1>3. c \in Combo BY <1>1, <1>2, CallKinds
<1>4. S \in SUBSET ComboStep BY <1>3, TableTyped
<1>5. rest \in Calls /\ rest.do = "store" /\ rest.combo = c /\ rest.steps = S
  BY <1>3, <1>4 DEF Calls
<1>6. Handles(a, c) /\ (\A d \in Combo : Handles(a, d) => d = c) BY <1>1 DEF Handles, OfCombo
<1> HIDE DEF rest, c, S
<1>7. call'[a] = rest /\ \A b \in Admin \ {a} : call'[b] = call[b] BY <1>1, <1>2
<1>8. \A b \in Admin, d \in Combo : Handles(b, d)' <=> Handles(b, d)
  BY <1>1, <1>5, <1>6, <1>7 DEF Handles, OfCombo
<1>9. ComboTypeOK' BY <1>1, <1>2, <1>5 DEF ComboTypeOK, tableVars, copyVars
<1>10. TablesOK' BY <1>1, <1>2, <1>5, <1>7 DEF TablesOK, Exists, tableVars, Unique
<1>11. ASSUME NEW d \in Combo \ raced' PROVE Kept(d)'
  <2>1. Kept(d) BY <1>1 DEF ComboInv
  <2> USE <1>1 DEF tableVars, copyVars
  <2>2. OneInHand(d)' BY <1>5, <1>7, <1>8, <2>1 DEF Kept, OneInHand
  <2>3. NameIsKept(d)' BY <1>5, <1>7, <2>1 DEF Kept, NameIsKept, Exists, IsLoaded
  <2>4. Indexed(d)' BY <2>1 DEF Kept, Indexed, Exists, IsLoaded
  <2>5. CopyOfRow(d)' = CopyOfRow(d) BY DEF CopyOfRow, Exists, Entry
  <2>6. ~Busy(d)' => Follows(d)'
    BY <1>8, <2>1, <2>5 DEF Kept, Busy, Handles, Follows, Exists
  <2>7. ASSUME NEW b \in Admin, Handles(b, d)' PROVE Owed(b, d)'
    <3>1. Handles(b, d) /\ Owed(b, d) BY <1>8, <2>1, <2>7 DEF Kept
    <3>2. CASE b = a
      <4>1. d = c /\ Exists(d) /\ copy[d] = CopyOfRow(d) BY <1>6, <3>1, <3>2 DEF Owed
      <4>2. S = table[d].steps BY <4>1 DEF S
      <4> QED BY <1>5, <1>7, <2>5, <3>2, <4>1, <4>2 DEF Owed, Exists
    <3>3. CASE b # a BY <1>7, <2>5, <3>1, <3>3 DEF Owed, Exists, IsLoaded
    <3> QED BY <3>2, <3>3
  <2> QED BY <2>2, <2>3, <2>4, <2>6, <2>7 DEF Kept
<1> QED BY <1>9, <1>10, <1>11 DEF ComboInv

-----------------------------------------------------------------------------
(* Under the lock. *)

LEMMA CopyTyped ==
  ASSUME ComboInv
  PROVE  /\ call \in [Admin -> Calls] /\ table \in [Combo -> Rows] /\ copy \in [Combo -> Entries]
         /\ byName \in [Name -> Combo \cup {NoCombo}] /\ steps \in [Combo -> SUBSET ComboStep]
         /\ ComboTypeOK /\ TablesOK
         /\ \A c \in Combo : IsLoaded(c) =>
              copy[c] \in [kind: {"entry"}, name: Name, active: BOOLEAN]
  BY DEF ComboInv, ComboTypeOK, IsLoaded, Entries

\* A call is over: what it leaves of the tables.
LEMMA TablesStay ==
  ASSUME ComboInv, NEW a \in Admin, Finish(a), UNCHANGED <<tableVars, dormant, raced>>,
         copy' \in [Combo -> Entries], byName' \in [Name -> Combo \cup {NoCombo}],
         steps' \in [Combo -> SUBSET ComboStep]
  PROVE  ComboTypeOK' /\ TablesOK'
<1> USE DEF Finish, tableVars
<1>1. Done \in Calls BY DEF Calls
<1>2. ComboTypeOK' BY <1>1, CopyTyped DEF ComboTypeOK
<1>3. call'[a] = Done /\ \A b \in Admin \ {a} : call'[b] = call[b] BY CopyTyped
<1>4. TablesOK' BY <1>3, CopyTyped DEF TablesOK, Exists, Unique, Done
<1> QED BY <1>2, <1>4

LEMMA CreatedKeeps ==
  ASSUME ComboInv, NEW a \in Admin, Created(a)
  PROVE  ComboInv'
<1>0. PICK c \in Combo, n \in Name : c = call[a].combo /\ n = call[a].name
  BY CopyTyped, CallKinds DEF Created
<1> DEFINE entry == [kind |-> "entry", name |-> n, active |-> TRUE]
<1>1. /\ call[a].do = "create" /\ Finish(a) /\ UNCHANGED <<tableVars, dormant, raced>>
      /\ copy' = [copy EXCEPT ![c] = entry]
      /\ byName' = [byName EXCEPT ![n] = c]
      /\ steps' = [steps EXCEPT ![c] = call[a].steps]
  BY <1>0 DEF Created
<1>2. c \in Combo /\ n \in Name /\ call[a].steps \in SUBSET ComboStep BY <1>1, CopyTyped, CallKinds
<1>3. entry \in Entries /\ entry # NoRow /\ entry.name = n BY <1>2 DEF Entries, NoRow
<1>4. Handles(a, c) /\ OfCombo(a) /\ \A d \in Combo : Handles(a, d) => d = c
  BY <1>0, <1>1 DEF Handles, OfCombo
<1>5. /\ copy' \in [Combo -> Entries] /\ byName' \in [Name -> Combo \cup {NoCombo}]
      /\ steps' \in [Combo -> SUBSET ComboStep]
      /\ copy'[c] = entry /\ byName'[n] = c /\ steps'[c] = call[a].steps
      /\ \A d \in Combo \ {c} : copy'[d] = copy[d] /\ steps'[d] = steps[d]
      /\ \A m \in Name \ {n} : byName'[m] = byName[m]
  BY <1>1, <1>2, <1>3, CopyTyped
<1>6. ASSUME NEW d \in Combo \ raced' PROVE Kept(d)'
  <2>1. Kept(d) BY <1>1 DEF ComboInv
  <2>2. CASE d # c
    <3>1. Exists(d) => table[d].name # n
      BY <1>0, <1>1, <2>1, <2>2 DEF Kept, NameIsKept
    <3>2. Exists(d) => table[d].name \in Name BY TableTyped
    <3>3. \A e \in Combo \ {d} : IsLoaded(e)' =>
            \/ IsLoaded(e) /\ copy'[e].name = copy[e].name
            \/ OfCombo(a) /\ call[a].do \in {"create", "update"} /\ copy'[e].name = call[a].name
      BY <1>0, <1>1, <1>3, <1>4, <1>5 DEF IsLoaded
    <3>4. \A m \in Name : byName'[m] = d => byName[m] = d BY <1>5, <2>2
    <3>5. Exists(d) => byName'[table[d].name] = byName[table[d].name] BY <1>5, <3>1, <3>2
    <3>6. ~Handles(a, d) BY <1>4, <2>2
    <3>7. copy'[d] = copy[d] /\ steps'[d] = steps[d] BY <1>5, <2>2
    <3> QED BY <1>1, <2>1, <3>3, <3>4, <3>5, <3>6, <3>7, CopyTyped, OtherCopy DEF tableVars
  <2>3. CASE d = c
    <3>1. Owed(a, c) BY <1>4, <2>1, <2>3 DEF Kept
    <3>2. /\ table[c] = [kind |-> "row", name |-> n, active |-> TRUE, steps |-> call[a].steps]
          /\ c \notin dormant /\ copy[c] \in {NoRow, CopyOfRow(c)}
      BY <1>0, <1>1, <3>1 DEF Owed
    <3>3. Exists(c) /\ table[c].name = n /\ Entry(table[c]) = entry /\ table[c].steps = call[a].steps
      BY <3>2 DEF Exists, NoRow, Entry
    <3>4. CopyOfRow(c)' = entry /\ CopyOfRow(c) = entry
      BY <1>1, <3>2, <3>3 DEF CopyOfRow, Exists, Entry, tableVars
    <3>5. Follows(c)' BY <1>1, <1>5, <3>3, <3>4 DEF Follows, tableVars
    <3>6. \A m \in Name : byName[m] = c => m = n
      BY <2>1, <2>3, <3>2, <3>4 DEF Kept, Indexed, IsLoaded
    <3>7. Indexed(c)' BY <1>2, <1>3, <1>5, <3>6 DEF Indexed, IsLoaded
    <3> QED BY <1>1, <1>4, <1>5, <2>1, <2>3, <3>5, <3>7, CopyTyped, OwnCopy DEF tableVars
  <2> QED BY <2>2, <2>3
<1>7. ComboTypeOK' /\ TablesOK' BY <1>1, <1>5, TablesStay
<1> QED BY <1>6, <1>7 DEF ComboInv

LEMMA UpdatedKeeps ==
  ASSUME ComboInv, NEW a \in Admin, Updated(a)
  PROVE  ComboInv'
<1>0. PICK c \in Combo, n \in Name \cup {NoName} : c = call[a].combo /\ n = call[a].name
  BY CopyTyped, CallKinds DEF Updated
<1> DEFINE entry == [copy[c] EXCEPT !.name = Named(n, copy[c].name),
                                    !.active = Flag(call[a].active, copy[c].active)]
<1>1. /\ call[a].do = "update" /\ Finish(a) /\ UNCHANGED <<tableVars, steps, dormant, raced>>
  BY DEF Updated
<1>2. c \in Combo /\ n \in Name \cup {NoName} /\ call[a].active \in {"keep", "on", "off"}
  BY <1>1, CopyTyped, CallKinds
<1>3. IsLoaded(c) => /\ copy' = [copy EXCEPT ![c] = entry]
                     /\ byName' = IF n \in {NoName, copy[c].name} THEN byName
                                  ELSE [byName EXCEPT ![copy[c].name] = NoCombo, ![n] = c]
  BY <1>0, CopyTyped DEF Updated
<1>4. ~IsLoaded(c) => UNCHANGED <<copy, byName>> BY <1>0 DEF Updated
<1>5. Handles(a, c) /\ OfCombo(a) /\ \A d \in Combo : Handles(a, d) => d = c
  BY <1>0, <1>1 DEF Handles, OfCombo
<1>6. IsLoaded(c) => copy[c] \in [kind: {"entry"}, name: Name, active: BOOLEAN]
  BY <1>2, CopyTyped
<1>7. IsLoaded(c) => /\ entry \in [kind: {"entry"}, name: Name, active: BOOLEAN]
                     /\ entry.name = Named(n, copy[c].name) /\ Named(n, copy[c].name) \in Name
                     /\ entry.active = Flag(call[a].active, copy[c].active)
  <2> SUFFICES ASSUME IsLoaded(c) PROVE <1>7!2
    OBVIOUS
  <2>1. Named(n, copy[c].name) \in Name /\ Flag(call[a].active, copy[c].active) \in BOOLEAN
    BY <1>2, <1>6 DEF Named, Flag
  <2> QED BY <1>6, <2>1
<1> HIDE DEF entry
<1>8. /\ copy' \in [Combo -> Entries] /\ byName' \in [Name -> Combo \cup {NoCombo}]
      /\ \A d \in Combo \ {c} : copy'[d] = copy[d]
      /\ \A m \in Name : byName'[m] = byName[m] \/ byName'[m] = c \/ byName'[m] = NoCombo
  BY <1>2, <1>3, <1>4, <1>6, <1>7, CopyTyped DEF Entries
<1>9. ASSUME NEW d \in Combo \ raced' PROVE Kept(d)'
  <2>1. Kept(d) BY <1>1 DEF ComboInv
  <2>2. CASE d # c
    <3>1. Exists(d) => table[d].name # n /\ (IsLoaded(c) => table[d].name # copy[c].name)
      BY <1>0, <1>1, <1>5, <2>1, <2>2 DEF Kept, NameIsKept
    <3>2. Exists(d) => table[d].name \in Name BY TableTyped
    <3>3. \A e \in Combo \ {d} : IsLoaded(e)' =>
            \/ IsLoaded(e) /\ copy'[e].name = copy[e].name
            \/ OfCombo(a) /\ call[a].do \in {"create", "update"} /\ copy'[e].name = call[a].name
      <4> SUFFICES ASSUME NEW e \in Combo \ {d}, IsLoaded(e)' PROVE <3>3!(e)!2
        OBVIOUS
      <4>1. CASE e # c \/ ~IsLoaded(c) BY <1>4, <1>8, <4>1 DEF IsLoaded
      <4>2. CASE e = c /\ IsLoaded(c)
        <5>1. copy'[c] = entry BY <1>2, <1>3, <4>2, CopyTyped
        <5> QED BY <1>0, <1>1, <1>5, <1>7, <4>2, <5>1 DEF Named
      <4> QED BY <4>1, <4>2
    <3>4. \A m \in Name : byName'[m] = d => byName[m] = d BY <1>8, <2>2, CombosAssumption
    <3>5. Exists(d) => byName'[table[d].name] = byName[table[d].name]
      BY <1>2, <1>3, <1>4, <3>1, <3>2, CopyTyped
    <3>6. ~Handles(a, d) BY <1>5, <2>2
    <3>7. copy'[d] = copy[d] /\ steps'[d] = steps[d] BY <1>1, <1>8, <2>2
    <3> QED BY <1>1, <2>1, <3>3, <3>4, <3>5, <3>6, <3>7, CopyTyped, OtherCopy DEF tableVars
  <2>3. CASE d = c
    <3>1. Owed(a, c) BY <1>5, <2>1, <2>3 DEF Kept
    <3>2. /\ Exists(c) /\ n \in {NoName, table[c].name}
          /\ Flag(call[a].active, table[c].active) = table[c].active
      BY <1>0, <1>1, <3>1 DEF Owed
    <3>3. CASE c \in dormant
      <4>1. ~IsLoaded(c) BY <1>1, <3>1, <3>3 DEF Owed, IsLoaded
      <4>2. copy'[c] = NoRow /\ byName' = byName BY <1>4, <4>1 DEF IsLoaded
      <4>3. Follows(c)' BY <1>1, <3>3, <4>2 DEF Follows, CopyOfRow
      <4>4. Indexed(c)' BY <2>1, <2>3, <4>1, <4>2 DEF Kept, Indexed, IsLoaded
      <4> QED BY <1>1, <1>5, <1>8, <2>1, <2>3, <4>3, <4>4, CopyTyped, OwnCopy DEF tableVars
    <3>4. CASE c \notin dormant
      <4>1. /\ IsLoaded(c) /\ steps[c] = table[c].steps
            /\ n = NoName => copy[c].name = table[c].name
            /\ Flag(call[a].active, copy[c].active) = table[c].active
        BY <1>0, <1>1, <3>1, <3>4 DEF Owed
      <4>2. copy'[c] = entry /\ entry.name = table[c].name /\ entry.active = table[c].active
        BY <1>2, <1>3, <1>7, <3>2, <4>1, CopyTyped DEF Named
      <4>3. entry = Entry(table[c]) BY <1>7, <4>1, <4>2 DEF Entry
      <4>4. CopyOfRow(c)' = entry
        BY <1>1, <3>2, <3>4, <4>3 DEF CopyOfRow, Exists, Entry, tableVars
      <4>5. Follows(c)' BY <1>1, <4>1, <4>2, <4>4 DEF Follows, tableVars
      <4>6. \A m \in Name : byName[m] = c => m = copy[c].name BY <2>1, <2>3 DEF Kept, Indexed
      <4>7. Indexed(c)'
        <5>1. CASE n \in {NoName, copy[c].name}
          <6>1. byName' = byName /\ copy[c].name = table[c].name BY <1>3, <3>2, <4>1, <5>1
          <6>2. byName[copy[c].name] = c BY <2>1, <2>3, <3>2, <4>1, <6>1 DEF Kept, Indexed
          <6> QED BY <4>2, <4>6, <6>1, <6>2, <1>1, <4>4, <1>7, RowKinds, <4>1 DEF Indexed, IsLoaded
        <5>2. CASE n \notin {NoName, copy[c].name}
          <6>1. byName' = [byName EXCEPT ![copy[c].name] = NoCombo, ![n] = c] BY <1>3, <4>1, <5>2
          <6>2. n = table[c].name /\ n \in Name BY <1>2, <3>2, <5>2
          <6>3. byName'[n] = c /\ \A m \in Name : byName'[m] = c => m = n
            BY <1>2, <1>6, <4>1, <4>6, <6>1, <6>2, CopyTyped, CombosAssumption
          <6> QED BY <1>7, <4>1, <4>2, <6>2, <6>3, RowKinds DEF Indexed, IsLoaded
        <5> QED BY <5>1, <5>2
      <4> QED BY <1>1, <1>5, <1>8, <2>1, <2>3, <4>5, <4>7, CopyTyped, OwnCopy DEF tableVars
    <3> QED BY <3>3, <3>4
  <2> QED BY <2>2, <2>3
<1>10. steps' \in [Combo -> SUBSET ComboStep] BY <1>1, CopyTyped
<1>11. ComboTypeOK' /\ TablesOK' BY <1>1, <1>8, <1>10, TablesStay
<1> QED BY <1>9, <1>11 DEF ComboInv

LEMMA DeletedKeeps ==
  ASSUME ComboInv, NEW a \in Admin, Deleted(a)
  PROVE  ComboInv'
<1>0. PICK c \in Combo : c = call[a].combo BY CopyTyped, CallKinds DEF Deleted
<1>1. /\ call[a].do = "delete" /\ Finish(a) /\ UNCHANGED <<tableVars, dormant, raced>>
      /\ copy' = [copy EXCEPT ![c] = NoRow]
      /\ steps' = [steps EXCEPT ![c] = {}]
      /\ byName' = IF IsLoaded(c) THEN [byName EXCEPT ![copy[c].name] = NoCombo] ELSE byName
  BY <1>0 DEF Deleted
<1>2. c \in Combo BY <1>1, CopyTyped, CallKinds
<1>3. Handles(a, c) /\ \A d \in Combo : Handles(a, d) => d = c BY <1>0, <1>1 DEF Handles, OfCombo
<1>4. IsLoaded(c) => copy[c].name \in Name BY <1>2, CopyTyped
<1>5. /\ copy' \in [Combo -> Entries] /\ byName' \in [Name -> Combo \cup {NoCombo}]
      /\ steps' \in [Combo -> SUBSET ComboStep]
      /\ copy'[c] = NoRow
      /\ \A d \in Combo \ {c} : copy'[d] = copy[d] /\ steps'[d] = steps[d]
      /\ \A m \in Name : byName'[m] = IF IsLoaded(c) /\ m = copy[c].name THEN NoCombo ELSE byName[m]
  BY <1>1, <1>2, <1>4, RowKinds, CopyTyped
<1>6. ASSUME NEW d \in Combo \ raced' PROVE Kept(d)'
  <2>1. Kept(d) BY <1>1 DEF ComboInv
  <2>2. CASE d # c
    <3>1. Exists(d) => (IsLoaded(c) => table[d].name # copy[c].name) /\ table[d].name \in Name
      BY <1>2, <2>1, <2>2, TableTyped DEF Kept, NameIsKept
    <3>2. \A e \in Combo \ {d} : IsLoaded(e)' => IsLoaded(e) /\ copy'[e].name = copy[e].name
      BY <1>5 DEF IsLoaded
    <3>3. \A m \in Name : byName'[m] = d => byName[m] = d BY <1>5, CombosAssumption
    <3>4. Exists(d) => byName'[table[d].name] = byName[table[d].name] BY <1>5, <3>1
    <3>5. ~Handles(a, d) BY <1>3, <2>2
    <3>6. copy'[d] = copy[d] /\ steps'[d] = steps[d] BY <1>5, <2>2
    <3> QED BY <1>1, <2>1, <3>2, <3>3, <3>4, <3>5, <3>6, CopyTyped, OtherCopy DEF tableVars
  <2>3. CASE d = c
    <3>1. ~Exists(c) BY <1>1, <1>3, <2>1, <2>3 DEF Kept, Owed
    <3>2. Follows(c)' BY <1>1, <1>5, <3>1 DEF Follows, CopyOfRow, Exists, tableVars
    <3>3. Indexed(c)'
      BY <1>2, <1>5, <2>1, <2>3, CombosAssumption DEF Kept, Indexed, IsLoaded
    <3> QED BY <1>1, <1>3, <1>5, <2>1, <2>3, <3>2, <3>3, CopyTyped, OwnCopy DEF tableVars
  <2> QED BY <2>2, <2>3
<1>7. ComboTypeOK' /\ TablesOK' BY <1>1, <1>5, TablesStay
<1> QED BY <1>6, <1>7 DEF ComboInv

LEMMA StoreKeeps ==
  ASSUME ComboInv, NEW a \in Admin, StoreSteps(a)
  PROVE  ComboInv'
<1>0. PICK c \in Combo : c = call[a].combo BY CopyTyped, CallKinds DEF StoreSteps
<1>1. /\ call[a].do = "store" /\ Finish(a) /\ UNCHANGED <<tableVars, copy, byName, dormant, raced>>
      /\ steps' = [steps EXCEPT ![c] = call[a].steps]
  BY <1>0 DEF StoreSteps
<1>2. c \in Combo /\ call[a].steps \in SUBSET ComboStep BY <1>1, CopyTyped, CallKinds
<1>3. Handles(a, c) /\ \A d \in Combo : Handles(a, d) => d = c BY <1>0, <1>1 DEF Handles, OfCombo
<1>4. /\ steps' \in [Combo -> SUBSET ComboStep] /\ steps'[c] = call[a].steps
      /\ \A d \in Combo \ {c} : steps'[d] = steps[d]
  BY <1>1, <1>2, CopyTyped
<1>5. ASSUME NEW d \in Combo \ raced' PROVE Kept(d)'
  <2>1. Kept(d) BY <1>1 DEF ComboInv
  <2>2. CASE d # c
    <3>1. \A e \in Combo \ {d} : IsLoaded(e)' => IsLoaded(e) /\ copy'[e].name = copy[e].name
      BY <1>1 DEF IsLoaded
    <3>2. ~Handles(a, d) /\ steps'[d] = steps[d] BY <1>3, <1>4, <2>2
    <3> QED BY <1>1, <2>1, <3>1, <3>2, CopyTyped, OtherCopy DEF tableVars
  <2>3. CASE d = c
    <3>1. Exists(c) /\ copy[c] = CopyOfRow(c) /\ call[a].steps = table[c].steps
      BY <1>1, <1>3, <2>1, <2>3 DEF Kept, Owed
    <3>2. Follows(c)'
      BY <1>1, <1>4, <3>1 DEF Follows, CopyOfRow, Exists, Entry, tableVars
    <3>3. Indexed(c)' BY <1>1, <2>1, <2>3 DEF Kept, Indexed, IsLoaded, Exists, tableVars
    <3> QED BY <1>1, <1>3, <2>1, <2>3, <3>2, <3>3, CopyTyped, OwnCopy DEF tableVars
  <2> QED BY <2>2, <2>3
<1>6. copy' \in [Combo -> Entries] /\ byName' \in [Name -> Combo \cup {NoCombo}] BY <1>1, CopyTyped
<1>7. ComboTypeOK' /\ TablesOK' BY <1>1, <1>4, <1>6, TablesStay
<1> QED BY <1>5, <1>7 DEF ComboInv

\* A load of all the tables, from what they said when they were read.
LEMMA LoadedOne ==
  ASSUME NEW rows \in [Combo -> Rows], Unique(rows), Loaded(rows), UNCHANGED table,
         NEW c \in Combo, rows[c] = table[c]
  PROVE  /\ Follows(c)' /\ Indexed(c)'
         /\ Exists(c) => \A d \in Combo \ {c} : IsLoaded(d)' => copy'[d].name # table[c].name
         /\ c \in dormant' => Exists(c) /\ ~table[c].active
<1>1. \A d \in Combo : /\ copy'[d] = IF Active(rows, d) THEN Entry(rows[d]) ELSE NoRow
                       /\ steps'[d] = IF Active(rows, d) THEN rows[d].steps ELSE {}
                       /\ d \in dormant' <=> rows[d] # NoRow /\ ~rows[d].active
  BY DEF Loaded
<1>2. \A d \in Combo : Active(rows, d) => /\ Entry(rows[d]) # NoRow /\ rows[d] # NoRow
                                          /\ Entry(rows[d]).name = rows[d].name
                                          /\ rows[d].name \in Name
  BY EntryTyped DEF Active
<1>3. \A d \in Combo : IsLoaded(d)' <=> Active(rows, d) BY <1>1, <1>2 DEF IsLoaded
<1>4. ASSUME NEW n \in Name, NEW d \in Combo, Active(rows, d), rows[d].name = n
      PROVE  byName'[n] = d
  <2> DEFINE Bears(e) == Active(rows, e) /\ rows[e].name = n
  <2>1. byName'[n] = CHOOSE e \in Combo : Bears(e) BY <1>4 DEF Loaded
  <2>2. \E e \in Combo : Bears(e) BY <1>4
  <2>3. \A e \in Combo : Bears(e) => e = d BY <1>4 DEF Unique, Active
  <2> HIDE DEF Bears
  <2> QED BY <2>1, <2>2, <2>3
<1>5. ASSUME NEW n \in Name, byName'[n] = c PROVE Active(rows, c) /\ rows[c].name = n
  <2>1. CASE \E d \in Combo : Active(rows, d) /\ rows[d].name = n BY <1>4, <1>5, <2>1
  <2>2. CASE ~\E d \in Combo : Active(rows, d) /\ rows[d].name = n
    <3>1. byName'[n] = NoCombo BY <2>2 DEF Loaded
    <3> QED BY <1>5, <3>1, CombosAssumption
  <2> QED BY <2>1, <2>2
<1>6. Follows(c)' BY <1>1 DEF Follows, CopyOfRow, Exists, Active, Entry
<1>7. Indexed(c)'
  <2>1. \A n \in Name : byName'[n] = c => IsLoaded(c)' /\ copy'[c].name = n BY <1>1, <1>2, <1>3, <1>5
  <2>2. IsLoaded(c)' => byName'[copy'[c].name] = c BY <1>1, <1>2, <1>3, <1>4
  <2> QED BY <2>1, <2>2 DEF Indexed, IsLoaded
<1>8. Exists(c) => \A d \in Combo \ {c} : IsLoaded(d)' => copy'[d].name # table[c].name
  BY <1>1, <1>2, <1>3 DEF Unique, Exists
<1>9. c \in dormant' => Exists(c) /\ ~table[c].active BY <1>1 DEF Exists
<1> QED BY <1>6, <1>7, <1>8, <1>9

LEMMA LoadedTyped ==
  ASSUME NEW rows \in [Combo -> Rows], Loaded(rows)
  PROVE  /\ copy' \in [Combo -> Entries] /\ byName' \in [Name -> Combo \cup {NoCombo}]
         /\ steps' \in [Combo -> SUBSET ComboStep]
         /\ dormant' \subseteq Combo /\ \A c \in dormant' : rows[c] # NoRow
<1>1. copy' \in [Combo -> Entries]
  <2>1. \A c \in Combo : (IF Active(rows, c) THEN Entry(rows[c]) ELSE NoRow) \in Entries
    BY EntryTyped, RowKinds DEF Active
  <2> QED BY <2>1 DEF Loaded
<1>2. byName' \in [Name -> Combo \cup {NoCombo}]
  <2>1. ASSUME NEW n \in Name
        PROVE  (IF \E c \in Combo : Active(rows, c) /\ rows[c].name = n
                THEN CHOOSE c \in Combo : Active(rows, c) /\ rows[c].name = n
                ELSE NoCombo) \in Combo \cup {NoCombo}
    <3> DEFINE Bears(c) == Active(rows, c) /\ rows[c].name = n
    <3>1. CASE \E c \in Combo : Bears(c)
      <4> HIDE DEF Bears
      <4>1. (CHOOSE c \in Combo : Bears(c)) \in Combo BY <3>1
      <4> QED BY <3>1, <4>1 DEF Bears
    <3>2. CASE ~\E c \in Combo : Bears(c) BY <3>2
    <3> QED BY <3>1, <3>2
  <2> QED BY <2>1 DEF Loaded
<1>3. steps' \in [Combo -> SUBSET ComboStep]
  <2>1. \A c \in Combo : (IF Active(rows, c) THEN rows[c].steps ELSE {}) \in SUBSET ComboStep
    BY EntryTyped DEF Active
  <2> QED BY <2>1 DEF Loaded
<1> QED BY <1>1, <1>2, <1>3 DEF Loaded

LEMMA RefreshedKeeps ==
  ASSUME ComboInv, NEW a \in Admin, Refreshed(a)
  PROVE  ComboInv'
<1>1. /\ call[a].do = "refresh" /\ Loaded(call[a].rows) /\ call' = [call EXCEPT ![a] = Done]
      /\ UNCHANGED <<tableVars, raced>>
  BY DEF Refreshed, Finish
<1>2. PICK rows \in [Combo -> Rows] : rows = call[a].rows BY <1>1, CopyTyped, CallKinds
<1>3. /\ Unique(rows) /\ (\A c \in Combo : rows[c] # NoRow => c \in used)
  BY <1>1, <1>2, CopyTyped DEF TablesOK
<1>4. Loaded(rows) BY <1>1, <1>2
<1>5. /\ call'[a] = Done /\ \A b \in Admin \ {a} : call'[b] = call[b]
  BY <1>1, CopyTyped
<1>6. Done \in Calls BY DEF Calls
<1>7. ComboTypeOK' BY <1>1, <1>4, <1>6, LoadedTyped, CopyTyped DEF ComboTypeOK, tableVars
<1>8. TablesOK'
  BY <1>1, <1>3, <1>4, <1>5, LoadedTyped, CopyTyped DEF TablesOK, Exists, Unique, Done, tableVars
<1>9. ASSUME NEW c \in Combo \ raced' PROVE Kept(c)'
  <2>1. Kept(c) BY <1>1 DEF ComboInv
  <2>2. rows[c] = table[c] BY <1>1, <1>2, <2>1 DEF Kept, OneInHand
  <2>3. /\ Follows(c)' /\ Indexed(c)'
        /\ Exists(c) => \A d \in Combo \ {c} : IsLoaded(d)' => copy'[d].name # table[c].name
        /\ c \in dormant' => Exists(c) /\ ~table[c].active
    BY <1>1, <1>3, <1>4, <2>2, LoadedOne DEF tableVars
  <2>4. \A b \in Admin : Handles(b, c)' <=> Handles(b, c)
    BY <1>1, <1>5 DEF Handles, OfCombo, Done
  <2>5. OneInHand(c)' BY <1>1, <1>5, <2>1, <2>4 DEF Kept, OneInHand, Done, tableVars
  <2>6. NameIsKept(c)'
    BY <1>1, <1>5, <2>1, <2>3 DEF Kept, NameIsKept, Exists, IsLoaded, Done, tableVars
  <2>7. ASSUME NEW b \in Admin, Handles(b, c)' PROVE Owed(b, c)'
    <3>1. Owed(b, c) /\ call'[b] = call[b] BY <1>1, <1>5, <2>1, <2>4, <2>7 DEF Kept, Handles, OfCombo
    <3>2. copy'[c] = CopyOfRow(c)' /\ (Exists(c) /\ c \notin dormant' => steps'[c] = table[c].steps)
      BY <1>1, <2>3 DEF Follows, Exists, tableVars
    <3>3. UNCHANGED table BY <1>1 DEF tableVars
    <3>4. Exists(c) => table[c].name \in Name BY TableTyped
    <3>5. CASE call[b].do = "create"
      <4>1. table[c].active BY <3>1, <3>5 DEF Owed
      <4> QED BY <2>3, <3>1, <3>2, <3>3, <3>5, <4>1 DEF Owed
    <3>6. CASE call[b].do = "update"
      <4>1. /\ Exists(c) /\ call[b].name \in {NoName, table[c].name}
            /\ Flag(call[b].active, table[c].active) = table[c].active
        BY <3>1, <3>6 DEF Owed
      <4>2. c \in dormant' => copy'[c] = NoRow BY <3>2, <3>3 DEF CopyOfRow
      <4>3. c \notin dormant' => copy'[c] = Entry(table[c])
        BY <3>2, <3>3, <4>1 DEF CopyOfRow, Exists, Entry
      <4>4. /\ Entry(table[c]) # NoRow /\ Entry(table[c]).name = table[c].name
            /\ Entry(table[c]).active = table[c].active
        BY <4>1, EntryTyped, CopyTyped DEF Exists
      <4> QED BY <3>1, <3>2, <3>3, <3>6, <4>1, <4>2, <4>3, <4>4 DEF Owed, Exists, IsLoaded
    <3>7. CASE call[b].do \in {"delete", "load", "store"}
      BY <3>1, <3>2, <3>3, <3>7 DEF Owed, Exists
    <3>8. call[b].do \in {"create", "update", "delete", "load", "store"}
      BY <2>4, <2>7, CopyTyped, CallKinds DEF Handles, OfCombo
    <3> QED BY <3>5, <3>6, <3>7, <3>8
  <2> QED BY <2>3, <2>5, <2>6, <2>7 DEF Kept
<1> QED BY <1>7, <1>8, <1>9 DEF ComboInv

LEMMA RestartedKeeps ==
  ASSUME ComboInv, Restarted
  PROVE  ComboInv'
<1>1. Loaded(table) /\ call' = [a \in Admin |-> Done] /\ raced' = {} /\ UNCHANGED tableVars
  BY DEF Restarted
<1>2. Unique(table) /\ (\A c \in Combo : Exists(c) => c \in used) /\ table \in [Combo -> Rows]
  BY CopyTyped DEF TablesOK
<1>3. Done \in Calls /\ \A a \in Admin : call'[a] = Done BY <1>1 DEF Calls
<1>4. ComboTypeOK' BY <1>1, <1>2, <1>3, LoadedTyped, CopyTyped DEF ComboTypeOK, tableVars
<1>5. TablesOK'
  BY <1>1, <1>2, <1>3, LoadedTyped DEF TablesOK, Exists, Unique, Done, tableVars
<1>6. ASSUME NEW c \in Combo \ raced' PROVE Kept(c)'
  <2>1. /\ Follows(c)' /\ Indexed(c)'
        /\ Exists(c) => \A d \in Combo \ {c} : IsLoaded(d)' => copy'[d].name # table[c].name
    BY <1>1, <1>2, LoadedOne DEF tableVars
  <2>2. \A a \in Admin : ~Handles(a, c)' BY <1>3 DEF Handles, OfCombo, Done
  <2>3. OneInHand(c)' BY <1>3, <2>2 DEF OneInHand, Done
  <2>4. NameIsKept(c)' BY <1>1, <1>3, <2>1 DEF NameIsKept, Exists, IsLoaded, Done, tableVars
  <2> QED BY <2>1, <2>2, <2>3, <2>4 DEF Kept
<1> QED BY <1>4, <1>5, <1>6 DEF ComboInv

-----------------------------------------------------------------------------
(* Theorems. *)

LEMMA CombosAtFirst == ComboInit => ComboInv
<1> SUFFICES ASSUME ComboInit PROVE ComboInv
  OBVIOUS
<1> USE DEF ComboInit
<1>1. Done \in Calls BY DEF Calls
<1>2. ComboTypeOK BY <1>1, RowKinds DEF ComboTypeOK
<1>3. TablesOK BY DEF TablesOK, Unique, Exists, Done
<1>4. ASSUME NEW c \in Combo PROVE Kept(c)
  <2>1. \A a \in Admin : ~Handles(a, c) BY DEF Handles, OfCombo, Done
  <2>2. OneInHand(c) BY <2>1 DEF OneInHand, Done
  <2>3. NameIsKept(c) BY DEF NameIsKept, Exists
  <2>4. Indexed(c) BY CombosAssumption DEF Indexed, IsLoaded
  <2>5. Follows(c) BY DEF Follows, CopyOfRow, Exists
  <2> QED BY <2>1, <2>2, <2>3, <2>4, <2>5 DEF Kept
<1> QED BY <1>2, <1>3, <1>4 DEF ComboInv

LEMMA CombosStay == ComboInv /\ UNCHANGED comboVars => ComboInv'
  BY DEF ComboInv, comboVars, ComboTypeOK, TablesOK, Unique, Exists, Kept, OneInHand, Handles,
         OfCombo, NameIsKept, IsLoaded, Indexed, Busy, Follows, CopyOfRow, Entry, Owed

LEMMA CombosMove == ComboInv /\ [ComboNext]_comboVars => ComboInv'
<1> SUFFICES ASSUME ComboInv, [ComboNext]_comboVars PROVE ComboInv'
  OBVIOUS
<1>1. ASSUME NEW a \in Admin, Transact(a) PROVE ComboInv'
  <2>1. CASE \E c \in Combo, n \in Name, S \in SUBSET ComboStep : CreateRow(a, c, n, S)
    BY <2>1, CreateKeeps
  <2>2. CASE \E c \in Combo, n \in Name : UpdateRow(a, c, n, "keep") BY <2>2, UpdateKeeps
  <2>3. CASE \E c \in Combo, active \in {"on", "off"} : UpdateRow(a, c, NoName, active)
    BY <2>3, UpdateKeeps
  <2>4. CASE \E c \in Combo : DeleteRow(a, c) BY <2>4, DeleteKeeps
  <2>5. CASE \E c \in Combo, s \in ComboStep : InsertStep(a, c, s) \/ DeleteStep(a, c, s)
    BY <2>5, StepKeeps
  <2>6. CASE ReadTables(a) BY <2>6, ReadKeeps
  <2> QED BY <1>1, <2>1, <2>2, <2>3, <2>4, <2>5, <2>6 DEF Transact
<1>2. ASSUME NEW a \in Admin, LoadSteps(a) PROVE ComboInv' BY <1>2, LoadKeeps
<1>3. ASSUME NEW a \in Admin, WriteCopy(a) PROVE ComboInv'
  BY <1>3, CreatedKeeps, UpdatedKeeps, DeletedKeeps, StoreKeeps, RefreshedKeeps DEF WriteCopy
<1>4. CASE Restarted BY <1>4, RestartedKeeps
<1>5. CASE UNCHANGED comboVars BY <1>5, CombosStay
<1> QED BY <1>1, <1>2, <1>3, <1>4, <1>5 DEF ComboNext

LEMMA CombosHold == ComboSpec => []ComboInv
  BY CombosAtFirst, CombosMove, PTL DEF ComboSpec

\* For any number of combos, steps, names and administrative calls, tables, copy,
\* index and calls are of the type the code gives them (internal/combo).
THEOREM ComboTypeCorrect == ComboSpec => []ComboTypeOK
<1>1. ComboInv => ComboTypeOK BY DEF ComboInv
<1> QED BY <1>1, CombosHold, PTL

\* However administrative calls, refreshes of the whole copy and restarts
\* interleave, a combo that no two calls have crossed at is routed as its rows
\* say: by its name alone, to its steps, and by no name once it is deleted
\* (combo.Handler, ResolveByKind).
THEOREM CombosAreRouted == ComboSpec => []RoutedAsStored
<1>1. ASSUME ComboInv PROVE RoutedAsStored
  <2> SUFFICES ASSUME NEW c \in Combo \ raced, ~Busy(c)
               PROVE  IF Exists(c) /\ c \notin dormant
                      THEN /\ copy[c] = Entry(table[c])
                           /\ steps[c] = table[c].steps
                           /\ \A n \in Name : Resolve(n) = c <=> n = table[c].name /\ table[c].steps # {}
                      ELSE \A n \in Name : Resolve(n) # c
    BY DEF RoutedAsStored
  <2>1. Follows(c) /\ Indexed(c) BY <1>1 DEF ComboInv, Kept
  <2>2. \A n \in Name : Resolve(n) = c <=> byName[n] = c /\ steps[c] # {}
    BY CombosAssumption DEF Resolve
  <2>3. CASE Exists(c) /\ c \notin dormant
    <3>1. copy[c] = Entry(table[c]) /\ steps[c] = table[c].steps
      BY <2>1, <2>3 DEF Follows, CopyOfRow
    <3>2. Entry(table[c]) # NoRow /\ Entry(table[c]).name = table[c].name
      BY <1>1, <2>3, EntryTyped, CopyTyped DEF Exists
    <3>3. \A n \in Name : byName[n] = c <=> n = table[c].name
      BY <2>1, <2>3, <3>1, <3>2 DEF Indexed, IsLoaded
    <3> QED BY <2>2, <2>3, <3>1, <3>3
  <2>4. CASE ~(Exists(c) /\ c \notin dormant)
    <3>1. copy[c] = NoRow BY <2>1, <2>4 DEF Follows, CopyOfRow
    <3>2. \A n \in Name : byName[n] # c BY <2>1, <3>1 DEF Indexed, IsLoaded
    <3> QED BY <2>2, <2>4, <3>2
  <2> QED BY <2>3, <2>4
<1> QED BY <1>1, CombosHold, PTL

-----------------------------------------------------------------------------
(* Rotation: what is waiting, being written or saved of a counter. *)

Batch(f, c) == flusher[f].batch[c]

\* What waits to be saved is the counter.
Waits(c) == pending[c] # NoCount => pending[c] = counters[c]

\* Rows, and what is about to become one, are behind memory, and memory is
\* behind the picks.
Behind(c) ==
  c \notin resetCrossed =>
    /\ counters[c] # NoCount => counters[c] <= picks[c]
    /\ savedCount[c] # NoCount => savedCount[c] <= picks[c] \/ \E a \in Resetter : resetter[a] = c
    /\ counters[c] # NoCount /\ savedCount[c] # NoCount => savedCount[c] <= counters[c]
    /\ \A f \in Flusher : InBatch(f, c) => counters[c] # NoCount /\ Batch(f, c) <= counters[c]

AloneInFlush(c) ==
  c \notin overlapped => \A f, g \in Flusher : InBatch(f, c) /\ InBatch(g, c) => f = g

\* Where no newer value waits, what is being written is the counter, and so is
\* the row when it has been.
Latest(c) ==
  c \notin deleted \cup resetCrossed \cup overlapped =>
    /\ \A f \in Flusher : InBatch(f, c) /\ pending[c] = NoCount => Batch(f, c) = counters[c]
    /\ counters[c] # NoCount /\ pending[c] = NoCount /\ ~InFlush(c) => savedCount[c] = counters[c]

\* A reset that has still to delete the row has been crossed, or left no counter.
Resetting(c) ==
  \A a \in Resetter : resetter[a] = c => counters[c] = NoCount \/ c \in resetCrossed

CounterInv ==
  \A c \in Rotated : Waits(c) /\ Behind(c) /\ AloneInFlush(c) /\ Latest(c) /\ Resetting(c)

USE RotationAssumption DEF NoCount, Counts

-----------------------------------------------------------------------------
(* What each step does to the batches, so that the other lemmas need not   *)
(* look into a goroutine.                                                  *)

SameBatches ==
  \A g \in Flusher, d \in Rotated :
    /\ InBatch(g, d)' <=> InBatch(g, d)
    /\ InBatch(g, d) => Batch(g, d)' = Batch(g, d)

LEMMA Unflushed ==
  ASSUME UNCHANGED flusher
  PROVE  SameBatches
  BY DEF SameBatches, InBatch, Batch

LEMMA Scheduled ==
  ASSUME RotationTypeOK, NEW f \in Flusher, flusher[f] = FreeFlusher,
         flusher' = [flusher EXCEPT ![f] = Asleep]
  PROVE  SameBatches
  BY DEF SameBatches, InBatch, Batch, RotationTypeOK, FreeFlusher, Asleep

LEMMA TakenBatch ==
  ASSUME RotationTypeOK, NEW f \in Flusher, TakePending(f)
  PROVE  \A g \in Flusher, d \in Rotated :
           /\ InBatch(g, d)' <=> IF g = f THEN pending[d] # NoCount ELSE InBatch(g, d)
           /\ Batch(g, d)' = IF g = f THEN pending[d] ELSE Batch(g, d)
           /\ ~InBatch(f, d)
  BY DEF InBatch, Batch, RotationTypeOK, TakePending, Asleep

LEMMA WritingBatch ==
  ASSUME RotationTypeOK, NEW f \in Flusher, flusher[f].pc = "writing"
  PROVE  flusher[f] \in [pc: {"writing"}, batch: [Rotated -> Counts \cup {NoCount}]]
  BY DEF RotationTypeOK, Flushers, FreeFlusher, Asleep

LEMMA PersistedBatch ==
  ASSUME RotationTypeOK, NEW f \in Flusher, NEW c \in Rotated, PersistCounter(f, c)
  PROVE  \A g \in Flusher, d \in Rotated :
           /\ InBatch(g, d)' <=> InBatch(g, d) /\ ~(g = f /\ d = c)
           /\ InBatch(g, d)' => Batch(g, d)' = Batch(g, d)
<1>1. flusher[f] \in [pc: {"writing"}, batch: [Rotated -> Counts \cup {NoCount}]]
  BY WritingBatch DEF PersistCounter, InBatch
<1> QED BY <1>1 DEF InBatch, Batch, RotationTypeOK, PersistCounter

LEMMA FlushedBatch ==
  ASSUME RotationTypeOK, NEW f \in Flusher, Flushed(f)
  PROVE  SameBatches
  BY DEF SameBatches, InBatch, Batch, RotationTypeOK, Flushed, FreeFlusher, NoCounts

LEMMA NextBatches ==
  ASSUME RotationTypeOK, NEW c \in Rotated, NextCounter(c)
  PROVE  SameBatches
  BY Unflushed, Scheduled DEF NextCounter

LEMMA RestartBatches ==
  ASSUME RotationRestart
  PROVE  \A g \in Flusher, d \in Rotated : ~InBatch(g, d)'
  BY DEF RotationRestart, InBatch, FreeFlusher

LEMMA BatchTyped ==
  ASSUME RotationTypeOK, NEW f \in Flusher, NEW c \in Rotated, InBatch(f, c)
  PROVE  Batch(f, c) \in Counts
  BY WritingBatch DEF InBatch, Batch

LEMMA CurrentTyped ==
  ASSUME RotationTypeOK, NEW c \in Rotated
  PROVE  Current(c) \in Counts
  BY DEF RotationTypeOK, Current, LoadCounter

-----------------------------------------------------------------------------
(* Types. *)

LEMMA InitTyped == RotationInit => RotationTypeOK
<1> SUFFICES ASSUME RotationInit PROVE RotationTypeOK OBVIOUS
<1>1. NoCounts \in [Rotated -> Counts \cup {NoCount}] BY DEF NoCounts
<1>2. flusher \in [Flusher -> Flushers] BY DEF RotationInit, Flushers
<1>3. picks \in [Rotated -> Counts] /\ resetter \in [Resetter -> Rotated \cup {NoReset}]
  BY DEF RotationInit
<1> QED BY <1>1, <1>2, <1>3 DEF RotationInit, RotationTypeOK

LEMMA NextTyped == RotationTypeOK /\ [RotationNext]_rotationVars => RotationTypeOK'
<1> SUFFICES ASSUME RotationTypeOK, [RotationNext]_rotationVars PROVE RotationTypeOK'
  OBVIOUS
<1>0. FreeFlusher \in Flushers /\ Asleep \in Flushers BY DEF Flushers
<1>1. ASSUME NEW c \in Rotated, NextCounter(c) PROVE RotationTypeOK'
  <2>1. Current(c) + 1 \in Counts BY <1>1, CurrentTyped DEF NextCounter
  <2>2. flusher' \in [Flusher -> Flushers] BY <1>0, <1>1 DEF NextCounter, RotationTypeOK
  <2>3. picks' \in [Rotated -> Counts] BY <1>1 DEF NextCounter, RotationTypeOK
  <2>4. counters' \in [Rotated -> Counts \cup {NoCount}] /\ pending' \in [Rotated -> Counts \cup {NoCount}]
    BY <1>1, <2>1 DEF NextCounter, RotationTypeOK
  <2> QED BY <1>1, <2>2, <2>3, <2>4 DEF NextCounter, RotationTypeOK
<1>2. ASSUME NEW f \in Flusher, TakePending(f) PROVE RotationTypeOK'
  <2>1. [pc |-> "writing", batch |-> pending] \in Flushers BY DEF Flushers, RotationTypeOK
  <2> QED BY <1>2, <2>1 DEF TakePending, RotationTypeOK, NoCounts
<1>3. ASSUME NEW f \in Flusher, NEW c \in Rotated, PersistCounter(f, c) PROVE RotationTypeOK'
  <2>1. flusher[f] \in [pc: {"writing"}, batch: [Rotated -> Counts \cup {NoCount}]]
    BY <1>3, WritingBatch DEF PersistCounter, InBatch
  <2>2. [flusher[f] EXCEPT !.batch[c] = NoCount] \in Flushers BY <2>1 DEF Flushers
  <2>3. flusher' \in [Flusher -> Flushers] BY <1>3, <2>2 DEF PersistCounter, RotationTypeOK
  <2>4. savedCount' \in [Rotated -> Counts \cup {NoCount}]
    BY <1>3, <2>1 DEF PersistCounter, RotationTypeOK
  <2> QED BY <1>3, <2>3, <2>4 DEF PersistCounter, RotationTypeOK
<1>4. ASSUME NEW f \in Flusher, Flushed(f) PROVE RotationTypeOK'
  BY <1>0, <1>4 DEF Flushed, RotationTypeOK
<1>5. ASSUME NEW a \in Resetter, NEW c \in Rotated, ResetCounter(a, c) PROVE RotationTypeOK'
  BY <1>5 DEF ResetCounter, RotationTypeOK
<1>6. ASSUME NEW a \in Resetter, ResetRow(a) PROVE RotationTypeOK'
  BY <1>6 DEF ResetRow, RotationTypeOK
<1>7. ASSUME NEW c \in Rotated, DeleteCombo(c) PROVE RotationTypeOK'
  BY <1>7 DEF DeleteCombo, RotationTypeOK
<1>8. CASE RotationRestart BY <1>0, <1>8 DEF RotationRestart, RotationTypeOK, NoCounts
<1>9. CASE UNCHANGED rotationVars BY <1>9 DEF rotationVars, RotationTypeOK
<1> QED BY <1>1, <1>2, <1>3, <1>4, <1>5, <1>6, <1>7, <1>8, <1>9 DEF RotationNext

\* Rotation is type correct for every set of combos, flushes and resets.
THEOREM RotationTypeCorrect == RotationSpec => []RotationTypeOK
  BY InitTyped, NextTyped, PTL DEF RotationSpec

-----------------------------------------------------------------------------
(* One goroutine sleeps when something waits, and one only. *)

LEMMA InitSleeps == RotationInit => OneSleeper
  BY DEF RotationInit, OneSleeper, FreeFlusher, Asleep

LEMMA NextSleeps ==
  RotationTypeOK /\ OneSleeper /\ [RotationNext]_rotationVars => OneSleeper'
<1> SUFFICES ASSUME RotationTypeOK, OneSleeper, [RotationNext]_rotationVars PROVE OneSleeper'
  OBVIOUS
<1> USE DEF OneSleeper, RotationTypeOK
<1>1. ASSUME NEW c \in Rotated, NextCounter(c) PROVE OneSleeper'
  BY <1>1 DEF NextCounter
<1>2. ASSUME NEW f \in Flusher, TakePending(f) PROVE OneSleeper'
  <2>1. \A g \in Flusher : flusher'[g] = Asleep => g # f /\ flusher[g] = Asleep
    BY <1>2 DEF TakePending, Asleep
  <2> QED BY <1>2, <2>1 DEF TakePending
<1>3. ASSUME NEW f \in Flusher, NEW c \in Rotated, PersistCounter(f, c) PROVE OneSleeper'
  <2>1. flusher[f].pc = "writing" /\ flusher[f] # Asleep BY <1>3 DEF PersistCounter, InBatch, Asleep
  <2>2. flusher'[f].pc = "writing"
    BY <1>3, WritingBatch, <2>1 DEF PersistCounter
  <2>3. \A g \in Flusher : flusher'[g] = Asleep <=> flusher[g] = Asleep
    BY <1>3, <2>1, <2>2 DEF PersistCounter, Asleep
  <2> QED BY <1>3, <2>3 DEF PersistCounter
<1>4. ASSUME NEW f \in Flusher, Flushed(f) PROVE OneSleeper'
  <2>1. \A g \in Flusher : flusher'[g] = Asleep <=> flusher[g] = Asleep
    BY <1>4 DEF Flushed, Asleep, FreeFlusher
  <2> QED BY <1>4, <2>1 DEF Flushed
<1>5. ASSUME NEW a \in Resetter, NEW c \in Rotated, ResetCounter(a, c) PROVE OneSleeper'
  BY <1>5 DEF ResetCounter, NoCounts
<1>6. ASSUME NEW a \in Resetter, ResetRow(a) PROVE OneSleeper' BY <1>6 DEF ResetRow
<1>7. ASSUME NEW c \in Rotated, DeleteCombo(c) PROVE OneSleeper' BY <1>7 DEF DeleteCombo
<1>8. CASE RotationRestart BY <1>8 DEF RotationRestart, Asleep, FreeFlusher
<1>9. CASE UNCHANGED rotationVars BY <1>9 DEF rotationVars
<1> QED BY <1>1, <1>2, <1>3, <1>4, <1>5, <1>6, <1>7, <1>8, <1>9 DEF RotationNext

\* For any number of flush goroutines, whatever waits to be saved has exactly
\* one of them sleeping for it.
THEOREM SleepsAlone == RotationSpec => []OneSleeper
  BY InitSleeps, NextSleeps, RotationTypeCorrect, PTL DEF RotationSpec

-----------------------------------------------------------------------------
(* Counters and rows. *)

CounterKept(c) == Waits(c) /\ Behind(c) /\ AloneInFlush(c) /\ Latest(c) /\ Resetting(c)

LEMMA InitCounters == RotationInit => CounterInv
<1> SUFFICES ASSUME RotationInit, NEW c \in Rotated PROVE CounterKept(c)
  BY DEF CounterInv, CounterKept
<1>1. \A f \in Flusher : ~InBatch(f, c) BY DEF RotationInit, InBatch, FreeFlusher
<1>2. counters[c] = NoCount /\ pending[c] = NoCount /\ savedCount[c] = NoCount
  BY DEF RotationInit, NoCounts
<1>3. \A a \in Resetter : resetter[a] # c BY DEF RotationInit
<1> QED BY <1>1, <1>2, <1>3 DEF CounterKept, Waits, Behind, AloneInFlush, Latest, Resetting

\* A step that leaves the batches and all there is of d alone.
LEMMA Untouched ==
  ASSUME NEW d \in Rotated, CounterKept(d), SameBatches,
         counters'[d] = counters[d], pending'[d] = pending[d], savedCount'[d] = savedCount[d],
         picks'[d] = picks[d], d \in deleted => d \in deleted',
         d \in resetCrossed' <=> d \in resetCrossed, d \in overlapped' <=> d \in overlapped,
         \A a \in Resetter : resetter'[a] = d <=> resetter[a] = d
  PROVE  CounterKept(d)'
  BY DEF CounterKept, Waits, Behind, AloneInFlush, Latest, Resetting, SameBatches, InFlush

LEMMA PickedKeeps ==
  ASSUME RotationTypeOK, NEW c \in Rotated, NEW d \in Rotated, CounterKept(d), NextCounter(c)
  PROVE  CounterKept(d)'
<1>1. SameBatches BY NextBatches
<1>2. CASE d # c BY <1>1, <1>2, Untouched DEF NextCounter, RotationTypeOK
<1>3. CASE d = c
  <2> USE DEF NextCounter, RotationTypeOK
  <2>1. Current(c) \in Counts /\ Current(c) < MaxCount BY CurrentTyped
  <2>2. counters'[c] = Current(c) + 1 /\ pending'[c] = Current(c) + 1 /\ picks'[c] = picks[c] + 1
    OBVIOUS
  <2>3. Current(c) + 1 # NoCount BY <2>1
  <2>4. Waits(c)' BY <2>2 DEF Waits
  <2>5. AloneInFlush(c)' BY <1>1, <1>3 DEF AloneInFlush, CounterKept, SameBatches
  <2>6. Latest(c)' BY <2>2, <2>3 DEF Latest
  <2>7. Resetting(c)'
    BY DEF Resetting
  <2>8. Behind(c)'
    <3>1. SUFFICES ASSUME c \notin resetCrossed', c \notin resetCrossed,
                          \A a \in Resetter : resetter[a] # c
                   PROVE  Behind(c)'
      BY DEF Behind
    <3>2. /\ counters[c] # NoCount => counters[c] <= picks[c]
          /\ savedCount[c] # NoCount => savedCount[c] <= picks[c]
          /\ counters[c] # NoCount /\ savedCount[c] # NoCount => savedCount[c] <= counters[c]
          /\ \A f \in Flusher : InBatch(f, c) => counters[c] # NoCount /\ Batch(f, c) <= counters[c]
      BY <1>3, <3>1 DEF CounterKept, Behind
    <3>3. Current(c) <= picks[c] BY <3>2 DEF Current, LoadCounter
    <3>4. counters'[c] <= picks'[c] BY <2>1, <2>2, <3>3
    <3>5. savedCount[c] # NoCount => savedCount[c] <= Current(c)
      BY <3>2 DEF Current, LoadCounter
    <3>6. \A f \in Flusher : InBatch(f, c)' => Batch(f, c)' <= counters'[c]
      <4> TAKE f \in Flusher
      <4> HAVE InBatch(f, c)'
      <4>1. InBatch(f, c) /\ Batch(f, c)' = Batch(f, c) BY <1>1 DEF SameBatches
      <4>2. Batch(f, c) \in Counts BY <4>1, BatchTyped
      <4>3. Batch(f, c) <= Current(c) BY <3>2, <4>1 DEF Current
      <4> QED BY <2>1, <2>2, <4>1, <4>2, <4>3
    <3>7. savedCount'[c] # NoCount => savedCount'[c] <= counters'[c] /\ savedCount'[c] <= picks'[c]
      BY <2>1, <2>2, <3>3, <3>5
    <3> QED BY <2>2, <2>3, <3>4, <3>6, <3>7 DEF Behind
  <2> QED BY <1>3, <2>4, <2>5, <2>6, <2>7, <2>8 DEF CounterKept
<1> QED BY <1>2, <1>3

LEMMA TakenKeeps ==
  ASSUME RotationTypeOK, NEW f \in Flusher, NEW d \in Rotated, CounterKept(d), TakePending(f)
  PROVE  CounterKept(d)'
<1> DEFINE Taken(g) == IF g = f THEN pending[d] # NoCount ELSE InBatch(g, d)
<1>1. \A g \in Flusher : /\ InBatch(g, d)' <=> Taken(g)
                         /\ Batch(g, d)' = IF g = f THEN pending[d] ELSE Batch(g, d)
                         /\ ~InBatch(f, d)
  BY TakenBatch
<1>2. UNCHANGED <<counters, resetter, savedCount, deleted, picks, resetCrossed>> BY DEF TakePending
<1>3. pending'[d] = NoCount BY DEF TakePending, NoCounts
<1>4. d \in overlapped' <=> IF pending[d] = NoCount THEN d \in overlapped ELSE InFlush(d)
  BY DEF TakePending
<1>5. Waits(d)' /\ Resetting(d)' BY <1>2, <1>3 DEF Waits, Resetting, CounterKept
<1>6. Behind(d)'
  <2>1. pending[d] # NoCount => pending[d] = counters[d] BY DEF CounterKept, Waits
  <2>2. pending[d] # NoCount => pending[d] \in Counts BY DEF RotationTypeOK
  <2> QED BY <1>1, <1>2, <2>1, <2>2 DEF Behind, CounterKept
<1>7. AloneInFlush(d)'
  BY <1>1, <1>4 DEF AloneInFlush, CounterKept, InFlush
<1>8. Latest(d)'
  <2>1. CASE pending[d] = NoCount
    <3>1. \A g \in Flusher : /\ InBatch(g, d)' <=> InBatch(g, d)
                             /\ InBatch(g, d) => Batch(g, d)' = Batch(g, d)
      BY <1>1, <2>1
    <3> QED BY <1>2, <1>3, <1>4, <2>1, <3>1 DEF Latest, CounterKept, InFlush
  <2>2. CASE pending[d] # NoCount
    <3>1. InFlush(d)' BY <1>1, <2>2 DEF InFlush
    <3>2. d \notin overlapped' => \A g \in Flusher : InBatch(g, d)' => g = f
      BY <1>1, <1>4, <2>2 DEF InFlush
    <3>3. pending[d] = counters[d] BY <2>2 DEF CounterKept, Waits
    <3> QED BY <1>1, <1>2, <3>1, <3>2, <3>3 DEF Latest
  <2> QED BY <2>1, <2>2
<1> QED BY <1>5, <1>6, <1>7, <1>8 DEF CounterKept

LEMMA PersistedKeeps ==
  ASSUME RotationTypeOK, NEW f \in Flusher, NEW c \in Rotated, NEW d \in Rotated, CounterKept(d),
         PersistCounter(f, c)
  PROVE  CounterKept(d)'
<1>1. \A g \in Flusher : /\ InBatch(g, d)' <=> InBatch(g, d) /\ ~(g = f /\ d = c)
                         /\ InBatch(g, d)' => Batch(g, d)' = Batch(g, d)
  BY PersistedBatch
<1>2. UNCHANGED <<counters, pending, resetter, deleted, picks, resetCrossed, overlapped>>
  BY DEF PersistCounter
<1>3. CASE d # c
  <2>1. savedCount'[d] = savedCount[d] BY <1>3 DEF PersistCounter, RotationTypeOK
  <2> QED BY <1>1, <1>2, <1>3, <2>1
          DEF CounterKept, Waits, Behind, AloneInFlush, Latest, Resetting, InFlush
<1>4. CASE d = c
  <2>1. InBatch(f, d) BY <1>4 DEF PersistCounter
  <2>2. savedCount'[d] = IF d \in deleted THEN savedCount[d] ELSE Batch(f, d)
    BY <1>4 DEF PersistCounter, RotationTypeOK, Batch
  <2>3. Batch(f, d) \in Counts BY <2>1, BatchTyped
  <2>4. counters[d] \in Counts \cup {NoCount} /\ picks[d] \in Counts BY DEF RotationTypeOK
  <2>5. Waits(d)' /\ AloneInFlush(d)' /\ Resetting(d)'
    BY <1>1, <1>2 DEF CounterKept, Waits, AloneInFlush, Resetting
  <2>6. Behind(d)' BY <1>1, <1>2, <2>1, <2>2, <2>3, <2>4 DEF CounterKept, Behind
  <2>7. Latest(d)'
    <3>1. d \notin deleted \cup resetCrossed \cup overlapped /\ pending[d] = NoCount =>
            savedCount'[d] = counters[d]
      BY <2>1, <2>2 DEF CounterKept, Latest
    <3> QED BY <1>1, <1>2, <3>1 DEF CounterKept, Latest
  <2> QED BY <2>5, <2>6, <2>7 DEF CounterKept
<1> QED BY <1>3, <1>4

LEMMA ResetKeeps ==
  ASSUME RotationTypeOK, NEW a \in Resetter, NEW c \in Rotated, NEW d \in Rotated, CounterKept(d),
         ResetCounter(a, c)
  PROVE  CounterKept(d)'
<1>1. SameBatches BY Unflushed DEF ResetCounter
<1> USE DEF ResetCounter, RotationTypeOK
<1>2. CASE d # c
  <2>1. \A b \in Resetter : resetter'[b] = d <=> resetter[b] = d BY <1>2
  <2> QED BY <1>1, <1>2, <2>1, Untouched
<1>3. CASE d = c
  <2>1. counters'[d] = NoCount /\ pending'[d] = NoCount /\ resetter'[a] = d BY <1>3
  <2>2. d \notin resetCrossed' => d \notin resetCrossed /\ ~InFlush(d) BY <1>3
  <2>3. \A f \in Flusher : d \notin resetCrossed' => ~InBatch(f, d)'
    BY <1>1, <2>2 DEF SameBatches, InFlush
  <2> QED BY <1>1, <2>1, <2>2, <2>3
          DEF CounterKept, Waits, Behind, AloneInFlush, Latest, Resetting, SameBatches
<1> QED BY <1>2, <1>3

LEMMA RowResetKeeps ==
  ASSUME RotationTypeOK, NEW a \in Resetter, NEW d \in Rotated, CounterKept(d), ResetRow(a)
  PROVE  CounterKept(d)'
<1>1. SameBatches BY Unflushed DEF ResetRow
<1> USE DEF ResetRow, RotationTypeOK
<1>2. CASE d # resetter[a]
  <2>1. \A b \in Resetter : resetter'[b] = d <=> resetter[b] = d BY <1>2
  <2> QED BY <1>1, <1>2, <2>1, Untouched
<1>3. CASE d = resetter[a]
  <2>1. savedCount'[d] = NoCount BY <1>3
  <2>2. \A b \in Resetter : resetter'[b] = d => resetter[b] = d OBVIOUS
  <2>3. counters[d] = NoCount \/ d \in resetCrossed BY <1>3 DEF CounterKept, Resetting
  <2> QED BY <1>1, <2>1, <2>2, <2>3
          DEF CounterKept, Waits, Behind, AloneInFlush, Latest, Resetting, SameBatches, InFlush
<1> QED BY <1>2, <1>3

LEMMA RowGoneKeeps ==
  ASSUME RotationTypeOK, NEW c \in Rotated, NEW d \in Rotated, CounterKept(d), DeleteCombo(c)
  PROVE  CounterKept(d)'
<1>1. SameBatches BY Unflushed DEF DeleteCombo
<1> USE DEF DeleteCombo, RotationTypeOK
<1>2. CASE d # c BY <1>1, <1>2, Untouched
<1>3. CASE d = c
  <2>1. d \in deleted' /\ savedCount'[d] = NoCount BY <1>3
  <2> QED BY <1>1, <2>1
          DEF CounterKept, Waits, Behind, AloneInFlush, Latest, Resetting, SameBatches
<1> QED BY <1>2, <1>3

LEMMA RestartKeeps ==
  ASSUME RotationTypeOK, NEW d \in Rotated, CounterKept(d), RotationRestart
  PROVE  CounterKept(d)'
<1>1. \A g \in Flusher : ~InBatch(g, d)' BY RestartBatches
<1>2. counters'[d] = NoCount /\ pending'[d] = NoCount BY DEF RotationRestart, NoCounts
<1>3. \A a \in Resetter : resetter'[a] # d BY DEF RotationRestart
<1>4. d \notin resetCrossed' => d \notin resetCrossed /\ \A a \in Resetter : resetter[a] # d
  BY DEF RotationRestart
<1>5. UNCHANGED <<savedCount, picks>> BY DEF RotationRestart
<1> QED BY <1>1, <1>2, <1>3, <1>4, <1>5
        DEF CounterKept, Waits, Behind, AloneInFlush, Latest, Resetting

LEMMA NextCounters ==
  RotationTypeOK /\ CounterInv /\ [RotationNext]_rotationVars => CounterInv'
<1> SUFFICES ASSUME RotationTypeOK, CounterInv, [RotationNext]_rotationVars, NEW d \in Rotated
             PROVE  CounterKept(d)'
  BY DEF CounterInv, CounterKept
<1>0. CounterKept(d) BY DEF CounterInv, CounterKept
<1>1. ASSUME NEW c \in Rotated, NextCounter(c) PROVE CounterKept(d)' BY <1>0, <1>1, PickedKeeps
<1>2. ASSUME NEW f \in Flusher, TakePending(f) PROVE CounterKept(d)' BY <1>0, <1>2, TakenKeeps
<1>3. ASSUME NEW f \in Flusher, NEW c \in Rotated, PersistCounter(f, c) PROVE CounterKept(d)'
  BY <1>0, <1>3, PersistedKeeps
<1>4. ASSUME NEW f \in Flusher, Flushed(f) PROVE CounterKept(d)'
  BY <1>0, <1>4, FlushedBatch, Untouched DEF Flushed
<1>5. ASSUME NEW a \in Resetter, NEW c \in Rotated, ResetCounter(a, c) PROVE CounterKept(d)'
  BY <1>0, <1>5, ResetKeeps
<1>6. ASSUME NEW a \in Resetter, ResetRow(a) PROVE CounterKept(d)' BY <1>0, <1>6, RowResetKeeps
<1>7. ASSUME NEW c \in Rotated, DeleteCombo(c) PROVE CounterKept(d)' BY <1>0, <1>7, RowGoneKeeps
<1>8. CASE RotationRestart BY <1>0, <1>8, RestartKeeps
<1>9. CASE UNCHANGED rotationVars BY <1>0, <1>9, Unflushed, Untouched DEF rotationVars
<1> QED BY <1>1, <1>2, <1>3, <1>4, <1>5, <1>6, <1>7, <1>8, <1>9 DEF RotationNext

LEMMA CountersHold == RotationSpec => []CounterInv
  BY InitCounters, NextCounters, RotationTypeCorrect, PTL DEF RotationSpec

\* For any number of combos, flushes and resets, and any bound on the counters,
\* no row is ahead of memory and no counter ahead of the picks.
THEOREM StaysBehind == RotationSpec => []NeverAhead
<1>1. CounterInv => NeverAhead BY DEF CounterInv, Behind, NeverAhead
<1> QED BY <1>1, CountersHold, PTL

\* For any number of combos, flushes and resets, a counter that neither waits
\* nor is being written stands in its row.
THEOREM EveryPickIsSaved == RotationSpec => []PicksAreSaved
<1>1. CounterInv => PicksAreSaved BY DEF CounterInv, Latest, PicksAreSaved
<1> QED BY <1>1, CountersHold, PTL
=============================================================================
