--------------------------- MODULE MCDirectWriters ---------------------------
(* Instances of ConnHealthVerdicts and ConnHealthCauses for TLC: in each       *)
(* behaviour an administrator who edits or resets, one who tests connections,  *)
(* the quota fetcher or a token refresh that succeeds writes beside the        *)
(* request, as chosen at the start.  Beside the refresh the requests ask for   *)
(* any model, beside the others for one.  Nothing tells the models apart.      *)
EXTENDS ConnHealthVerdicts, ConnHealthCauses, TLC

VARIABLES writer, asked

\* What each may have in flight.
Acts == [administrator |-> {"none", "sync", "syncAndClear"},
         tester        |-> {"none", "test", "syncAndClear"},
         fetcher       |-> {"none"},
         refresher     |-> {"none"}]

WriterInit ==
  /\ HistInit
  /\ blamed = {}
  /\ writer \in DOMAIN Acts
  /\ IF writer = "refresher" THEN asked = Model ELSE \E m \in Model : asked = {m}

WriterNext ==
  /\ HistNext
  /\ Remember
  /\ admin'.act \in Acts[writer]
  /\ writer # "fetcher" => fetch' = NoFetch
  /\ IF writer = "refresher"
     THEN \A c \in Conn : refresh'[c] # "authFailed"
     ELSE UNCHANGED refresh
  /\ now' <= MaxTime
  /\ \A r \in Request : req'[r].model \in asked \cup {NoModel}
  /\ UNCHANGED <<writer, asked>>

WriterSpec == WriterInit /\ [][WriterNext]_<<histVars, blamed, writer, asked>>

ModelSymmetry == Permutations(Model)
=============================================================================
