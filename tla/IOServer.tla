------------------------------ MODULE IOServer ------------------------------
(***************************************************************************)
(* The IO-Server process: the HTTP threads of OrderStore and the Redis     *)
(* thread of MessageIngest on one SQLite connection, whose last row id     *)
(* they share.  main() starts them and nothing else orders their steps.    *)
(***************************************************************************)
EXTENDS OrderStore, MessageIngest

ServerInit == StoreInit /\ IngestInit

Serve == (\E t \in Workers : WorkerStep(t)) /\ UNCHANGED ingestVars

Subscribe == IngestStep /\ UNCHANGED storeVars

\* The process ends and is started again; bootstrap.sql creates only what is not
\* there.
Restart == StoreRestart /\ IngestRestart

serverVars == <<storeVars, ingestVars, last>>

ServerSpec == ServerInit /\ [][Serve \/ Subscribe \/ Restart]_serverVars
=============================================================================
