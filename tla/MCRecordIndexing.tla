-------------------------- MODULE MCRecordIndexing --------------------------
(***************************************************************************)
(* Index runs for TLC: in some behaviours a listener thread follows the    *)
(* table, in others a request writes it.  Both at once are beyond TLC.     *)
(***************************************************************************)
EXTENDS RecordIndexing

VARIABLE others   \* who else writes documents, for the whole behaviour

Company == IF Threads = {} /\ Requests = {} THEN {"nobody"} ELSE {"listener", "requests"}

MCIndexInit ==
  /\ IndexInit /\ others \in Company
  /\ on = IF others = "listener" THEN Threads ELSE {}

ByOthers == IF others = "listener" THEN request' = request ELSE on' = {}

(* IndexNext, an action of its own for each of its disjuncts               *)
MCIndexNext ==
  \/ IndexStarts /\ UNCHANGED others
  \/ IndexFetches /\ UNCHANGED others
  \/ IndexWrites /\ UNCHANGED others
  \/ IndexLogs /\ UNCHANGED others
  \/ IndexSearches /\ UNCHANGED others
  \/ IndexSweeps /\ UNCHANGED others
  \/ IndexFindsGone /\ UNCHANGED others
  \/ IndexCleans /\ UNCHANGED others
  \/ IndexRejected /\ UNCHANGED others
  \/ IndexSkips /\ UNCHANGED others
  \/ IndexCrashes /\ UNCHANGED others
  \/ CronSyncs /\ UNCHANGED others
  \/ OthersStep /\ ByOthers /\ UNCHANGED others

MCIndexSpec ==
  /\ MCIndexInit /\ [][MCIndexNext]_<<allVars, others>>
  /\ WF_allVars(IndexJob) /\ WF_allVars(CronSyncs)
  /\ \A l \in Threads : WF_allVars(OthersStep /\ Handles(l))
=============================================================================
