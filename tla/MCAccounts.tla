----------------------------- MODULE MCAccounts -----------------------------
(***************************************************************************)
(* Two parts that share no state, each checked for its invariants: the     *)
(* refresh of tokens, and Freebuff sessions.  A behaviour is one of one    *)
(* part, chosen at the start, while the other stays at its own.            *)
(***************************************************************************)
EXTENDS TokenRefresh, Freebuff, TLC

CONSTANTS c1, c2, k1, k2

VARIABLE part

AccountsInit ==
  /\ part \in {"tokens", "freebuff"}
  /\ Init
  /\ FreebuffInit

AccountsNext ==
  /\ UNCHANGED part
  /\ \/ part = "tokens" /\ Next /\ UNCHANGED freebuffVars
     \/ part = "freebuff" /\ FreebuffNext /\ UNCHANGED vars

AccountsSpec == AccountsInit /\ [][AccountsNext]_<<part, vars, freebuffVars>>

\* The state of both parts is of the type the code gives it: no queue holds more
\* than its capacity, and no chat is retried more often than the retry table has it.
AccountsTypeOK == TypeOK /\ FreebuffTypeOK

OnlyCands == {<<"p">>}

CallerSymmetry == Permutations({k1, k2})
=============================================================================
