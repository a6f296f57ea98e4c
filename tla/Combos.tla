------------------------------- MODULE Combos -------------------------------
(***************************************************************************)
(* Combos - named routes made of steps - and the copy of their tables that *)
(* every request resolves its model name in.  An administrative call       *)
(* writes the tables in one transaction and the copy afterwards, under its *)
(* lock; adding or removing a step reads the steps again in between, with  *)
(* no lock held; a refresh reads all of the tables first and replaces the  *)
(* whole copy later.  Nothing orders two calls.                            *)
(*                                                                         *)
(* Of a step only its identity is kept, of a combo its name, whether it is *)
(* active, and its steps.  byName holds combos by their identity, where    *)
(* the code holds pointers to objects, and nothing is read through it but  *)
(* the identity.                                                           *)
(***************************************************************************)
EXTENDS Naturals

CONSTANTS Combo,    \* the ids combos are given, each once
          NoCombo,  \* no combo
          Name,     \* names
          NoName,   \* a call that leaves the name alone
          ComboStep,     \* the ids steps are given, each once
          Admin     \* administrative calls at a time

ASSUME CombosAssumption ==
  /\ NoCombo \notin Combo
  /\ NoName \notin Name

VARIABLES
  table,    \* tables combos and combo_steps
  used,     \* ids that have been given away
  copy,     \* Handler.combos
  byName,   \* Handler.byName
  steps,    \* Handler.steps
  call,     \* what each administrative call still has to do
  dormant,  \* combos that were inactive when the copy was last read as a whole (history)
  raced     \* combos two calls have crossed at since the start (history)

tableVars == <<table, used>>
copyVars  == <<copy, byName, steps>>
comboVars == <<table, used, copy, byName, steps, call, dormant, raced>>

NoRow   == [kind |-> "none"]
Rows    == [kind: {"row"}, name: Name, active: BOOLEAN, steps: SUBSET ComboStep] \cup {NoRow}
Entries == [kind: {"entry"}, name: Name, active: BOOLEAN] \cup {NoRow}

Done == [do |-> "nothing"]

Calls ==
       [do: {"create"}, combo: Combo, name: Name, steps: SUBSET ComboStep]
  \cup [do: {"update"}, combo: Combo, name: Name \cup {NoName}, active: {"keep", "on", "off"}]
  \cup [do: {"delete", "load"}, combo: Combo]
  \cup [do: {"store"}, combo: Combo, steps: SUBSET ComboStep]
  \cup [do: {"refresh"}, rows: [Combo -> Rows]]
  \cup {Done}

Exists(c)    == table[c] # NoRow
IsLoaded(c)  == copy[c] # NoRow
OfCombo(a)   == call[a].do \notin {"nothing", "refresh"}

Flag(active, was) == IF active = "keep" THEN was ELSE active = "on"

\* Fault: a name that the call leaves out is stored as well.
NamedAsGiven(n, was) == n

Named(n, was) == IF n = NoName THEN was ELSE n

-----------------------------------------------------------------------------
(* Which calls cross.  A call that writes the rows of a combo crosses      *)
(* another one that has the same combo in hand, any refresh that has read  *)
(* the tables and not stored them, and whoever still has to take the name  *)
(* it gives to the combo out of the index, or is about to put it in.       *)

Crosses(a, c) ==
  \E b \in Admin \ {a} : call[b].do = "refresh" \/ (OfCombo(b) /\ call[b].combo = c)

NameInHand(a, c, n) ==
  /\ n # NoName
  /\ \/ \E d \in Combo \ {c} : IsLoaded(d) /\ copy[d].name = n
     \/ \E b \in Admin \ {a} :
          call[b].do \in {"create", "update"} /\ call[b].combo # c /\ call[b].name = n

Writes(a, c, n) ==
  raced' = IF Crosses(a, c) \/ NameInHand(a, c, n) THEN raced \cup {c} ELSE raced

-----------------------------------------------------------------------------
(* The transactions.  The names of the rows are unique. *)

Begin(a, rest) == call[a] = Done /\ call' = [call EXCEPT ![a] = rest]

NameIsFree(n) == \A d \in Combo : Exists(d) => table[d].name # n

CreateRow(a, c, n, S) ==
  /\ c \notin used
  /\ S \cap used = {}
  /\ NameIsFree(n)
  /\ Begin(a, [do |-> "create", combo |-> c, name |-> n, steps |-> S])
  /\ table' = [table EXCEPT ![c] = [kind |-> "row", name |-> n, active |-> TRUE, steps |-> S]]
  /\ used' = used \cup {c} \cup S
  /\ Writes(a, c, n)
  /\ UNCHANGED <<copyVars, dormant>>

UpdateRow(a, c, n, active) ==
  /\ Exists(c)
  /\ n # NoName => \A d \in Combo \ {c} : Exists(d) => table[d].name # n
  /\ Begin(a, [do |-> "update", combo |-> c, name |-> n, active |-> active])
  /\ table' = [table EXCEPT ![c].name   = Named(n, @),
                            ![c].active = Flag(active, @)]
  /\ Writes(a, c, n)
  /\ UNCHANGED <<used, copyVars, dormant>>

\* The handler asked whether the row exists some time before.
DeleteRow(a, c) ==
  /\ c \in used
  /\ Begin(a, [do |-> "delete", combo |-> c])
  /\ table' = [table EXCEPT ![c] = NoRow]
  /\ Writes(a, c, NoName)
  /\ UNCHANGED <<used, copyVars, dormant>>

InsertStep(a, c, s) ==
  /\ s \notin used
  /\ Exists(c)
  /\ Begin(a, [do |-> "load", combo |-> c])
  /\ table' = [table EXCEPT ![c].steps = @ \cup {s}]
  /\ used' = used \cup {s}
  /\ Writes(a, c, NoName)
  /\ UNCHANGED <<copyVars, dormant>>

DeleteStep(a, c, s) ==
  /\ Exists(c)
  /\ s \in table[c].steps
  /\ Begin(a, [do |-> "load", combo |-> c])
  /\ table' = [table EXCEPT ![c].steps = @ \ {s}]
  /\ Writes(a, c, NoName)
  /\ UNCHANGED <<used, copyVars, dormant>>

\* snapshotFromDB, one transaction.
ReadTables(a) ==
  /\ Begin(a, [do |-> "refresh", rows |-> table])
  /\ UNCHANGED <<tableVars, copyVars, dormant, raced>>

\* loadStepsForCombo, after the transaction of the step and before the lock.
LoadSteps(a) ==
  /\ call[a].do = "load"
  /\ call' = [call EXCEPT ![a] =
       [do |-> "store", combo |-> @.combo,
        steps |-> IF Exists(@.combo) THEN table[@.combo].steps ELSE {}]]
  /\ UNCHANGED <<tableVars, copyVars, dormant, raced>>

-----------------------------------------------------------------------------
(* The copy, each under its lock. *)

Finish(a) == call' = [call EXCEPT ![a] = Done]

Entry(rw) == [kind |-> "entry", name |-> rw.name, active |-> rw.active]

Created(a) ==
  LET cl == call[a] IN
  /\ cl.do = "create"
  /\ copy' = [copy EXCEPT ![cl.combo] = [kind |-> "entry", name |-> cl.name, active |-> TRUE]]
  /\ byName' = [byName EXCEPT ![cl.name] = cl.combo]
  /\ steps' = [steps EXCEPT ![cl.combo] = cl.steps]
  /\ Finish(a)
  /\ UNCHANGED <<tableVars, dormant, raced>>

\* Fault: the index keeps the old name.
UpdatedKeepsOldName(a) ==
  LET cl == call[a]
      c  == cl.combo IN
  /\ cl.do = "update"
  /\ IF IsLoaded(c)
     THEN /\ copy' = [copy EXCEPT ![c].name   = Named(cl.name, @),
                                  ![c].active = Flag(cl.active, @)]
          /\ byName' = IF cl.name \in {NoName, copy[c].name} THEN byName
                       ELSE [byName EXCEPT ![cl.name] = c]
     ELSE UNCHANGED <<copy, byName>>
  /\ Finish(a)
  /\ UNCHANGED <<tableVars, steps, dormant, raced>>

\* A combo that is not in the copy is not put there.
Updated(a) ==
  LET cl == call[a]
      c  == cl.combo IN
  /\ cl.do = "update"
  /\ IF IsLoaded(c)
     THEN /\ copy' = [copy EXCEPT ![c].name   = Named(cl.name, @),
                                  ![c].active = Flag(cl.active, @)]
          /\ byName' = IF cl.name \in {NoName, copy[c].name} THEN byName
                       ELSE [byName EXCEPT ![copy[c].name] = NoCombo, ![cl.name] = c]
     ELSE UNCHANGED <<copy, byName>>
  /\ Finish(a)
  /\ UNCHANGED <<tableVars, steps, dormant, raced>>

\* The name is taken out of the index whoever it belongs to by now.
Deleted(a) ==
  LET c == call[a].combo IN
  /\ call[a].do = "delete"
  /\ byName' = IF IsLoaded(c) THEN [byName EXCEPT ![copy[c].name] = NoCombo] ELSE byName
  /\ copy' = [copy EXCEPT ![c] = NoRow]
  /\ steps' = [steps EXCEPT ![c] = {}]
  /\ Finish(a)
  /\ UNCHANGED <<tableVars, dormant, raced>>

StoreSteps(a) ==
  /\ call[a].do = "store"
  /\ steps' = [steps EXCEPT ![call[a].combo] = call[a].steps]
  /\ Finish(a)
  /\ UNCHANGED <<tableVars, copy, byName, dormant, raced>>

Active(rows, c) == rows[c] # NoRow /\ rows[c].active

\* What a load of all the tables leaves in the copy: the active rows only.
Loaded(rows) ==
  /\ copy' = [c \in Combo |-> IF Active(rows, c) THEN Entry(rows[c]) ELSE NoRow]
  /\ byName' = [n \in Name |->
       IF \E c \in Combo : Active(rows, c) /\ rows[c].name = n
       THEN CHOOSE c \in Combo : Active(rows, c) /\ rows[c].name = n
       ELSE NoCombo]
  /\ steps' = [c \in Combo |-> IF Active(rows, c) THEN rows[c].steps ELSE {}]
  /\ dormant' = {c \in Combo : rows[c] # NoRow /\ ~rows[c].active}

Refreshed(a) ==
  /\ call[a].do = "refresh"
  /\ Loaded(call[a].rows)
  /\ Finish(a)
  /\ UNCHANGED <<tableVars, raced>>

\* The process dies, and loads the copy before it serves again.
Restarted ==
  /\ Loaded(table)
  /\ call' = [a \in Admin |-> Done]
  /\ raced' = {}
  /\ UNCHANGED tableVars

-----------------------------------------------------------------------------
ComboInit ==
  /\ table = [c \in Combo |-> NoRow]
  /\ used = {}
  /\ copy = [c \in Combo |-> NoRow]
  /\ byName = [n \in Name |-> NoCombo]
  /\ steps = [c \in Combo |-> {}]
  /\ call = [a \in Admin |-> Done]
  /\ dormant = {}
  /\ raced = {}

Transact(a) ==
  \/ \E c \in Combo, n \in Name, S \in SUBSET ComboStep : CreateRow(a, c, n, S)
  \/ \E c \in Combo, n \in Name : UpdateRow(a, c, n, "keep")
  \/ \E c \in Combo, active \in {"on", "off"} : UpdateRow(a, c, NoName, active)
  \/ \E c \in Combo : DeleteRow(a, c)
  \/ \E c \in Combo, s \in ComboStep : InsertStep(a, c, s) \/ DeleteStep(a, c, s)
  \/ ReadTables(a)

WriteCopy(a) ==
  \/ Created(a)
  \/ Updated(a)
  \/ Deleted(a)
  \/ StoreSteps(a)
  \/ Refreshed(a)

ComboNext ==
  \/ \E a \in Admin : Transact(a) \/ LoadSteps(a) \/ WriteCopy(a)
  \/ Restarted

ComboSpec == ComboInit /\ [][ComboNext]_comboVars

-----------------------------------------------------------------------------
(* Properties. *)

\* Rows, copy, index and pending calls are of the type the code gives them.
ComboTypeOK ==
  /\ table \in [Combo -> Rows]
  /\ used \subseteq Combo \cup ComboStep
  /\ copy \in [Combo -> Entries]
  /\ byName \in [Name -> Combo \cup {NoCombo}]
  /\ steps \in [Combo -> SUBSET ComboStep]
  /\ call \in [Admin -> Calls]
  /\ dormant \subseteq Combo
  /\ raced \subseteq Combo

\* ResolveByKind: what a request asking for n is routed over.
Resolve(n) == IF byName[n] # NoCombo /\ steps[byName[n]] # {} THEN byName[n] ELSE NoCombo

Busy(c) == \E a \in Admin : OfCombo(a) /\ call[a].combo = c

\* Requests are routed as the tables say: once the calls for a combo are over,
\* it is found by its present name alone, with its present steps, and a deleted one by
\* no name at all - unless two calls have crossed at it, or it was inactive
\* when the tables were last read as a whole.  (A combo deactivated since goes
\* on being found.)
RoutedAsStored ==
  \A c \in Combo \ raced : ~Busy(c) =>
    IF Exists(c) /\ c \notin dormant
    THEN /\ copy[c] = Entry(table[c])
         /\ steps[c] = table[c].steps
         /\ \A n \in Name :
              Resolve(n) = c <=> n = table[c].name /\ table[c].steps # {}
    ELSE \A n \in Name : Resolve(n) # c
=============================================================================
