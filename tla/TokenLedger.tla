----------------------------- MODULE TokenLedger -----------------------------
(***************************************************************************)
(* What refreshing promises of the tokens of a rotation group: an answer   *)
(* replaces the newest token only when that one is stored; what it brings  *)
(* is stored next, nothing older is stored over it, and until it is stored *)
(* it is on its way - or has been given up, for good: the row then holds   *)
(* the token before it, which upstream rejects.                            *)
(***************************************************************************)
EXTENDS Naturals

CONSTANT Account

VARIABLES
  newest,    \* the newest token an answer has brought
  stored,    \* the token in the row
  onItsWay,  \* accounts with an answer that is still to be stored
  givenUp    \* accounts whose newest token will not be stored

vars == <<newest, stored, onItsWay, givenUp>>

Init ==
  /\ newest = [c \in Account |-> 0]
  /\ stored = newest
  /\ onItsWay = {}
  /\ givenUp = {}

\* An answer brings the next token, or none, and the one presented stays in use.
Arrive(c) ==
  /\ stored[c] = newest[c]
  /\ \E tok \in {newest[c], newest[c] + 1} : newest' = [newest EXCEPT ![c] = tok]
  /\ onItsWay' = onItsWay \cup {c}
  /\ UNCHANGED <<stored, givenUp>>

\* Answers that brought the same token may all be written.
Store(c) ==
  /\ c \in onItsWay \ givenUp
  /\ stored' = [stored EXCEPT ![c] = newest[c]]
  /\ onItsWay' \in {onItsWay, onItsWay \ {c}}
  /\ UNCHANGED <<newest, givenUp>>

\* Nothing more has to be stored of the account.
Settle(c) ==
  /\ c \in onItsWay
  /\ stored[c] = newest[c] \/ c \in givenUp
  /\ onItsWay' = onItsWay \ {c}
  /\ UNCHANGED <<newest, stored, givenUp>>

GiveUp(c) ==
  /\ c \in onItsWay
  /\ stored[c] # newest[c]
  /\ givenUp' = givenUp \cup {c}
  /\ onItsWay' \in {onItsWay, onItsWay \ {c}}
  /\ UNCHANGED <<newest, stored>>

Crash ==
  /\ givenUp' = givenUp \cup {c \in Account : stored[c] # newest[c]}
  /\ onItsWay' = {}
  /\ UNCHANGED <<newest, stored>>

Next == (\E c \in Account : Arrive(c) \/ Store(c) \/ Settle(c) \/ GiveUp(c)) \/ Crash

Spec == Init /\ [][Next]_vars
=============================================================================
