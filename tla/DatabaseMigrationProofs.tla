---------------------- MODULE DatabaseMigrationProofs ----------------------
(***************************************************************************)
(* Proofs about a first migration (Spec of DatabaseMigration), for any     *)
(* number of tables, batches and faults and for every kind of base.        *)
(***************************************************************************)
EXTENDS DatabaseMigration, TLAPS

-----------------------------------------------------------------------------
(* The inductive invariant. *)

(* Before the sync begins nothing has happened yet.                        *)
Fresh == known = {} /\ jobs = {} /\ batches = {}

(* The one sync of a first migration, and what it has done so far.         *)
SyncPhase ==
  /\ worker[FALSE] = Idle
  /\ queue \in {{}, {"migrate"}, {"sync_new"}}
  /\ queue # {} => worker[TRUE] = Idle /\ status = "analyzing_base" /\ Fresh
  /\ worker[TRUE].pc = "notify" => status = "creating_listeners" /\ Fresh
  /\ worker[TRUE].pc \in {"tables", "advance"} =>
       /\ worker[TRUE].seen = "analyzing_base" /\ status = "analyzing_base"
       /\ Fresh
  /\ worker[TRUE].pc = "create" =>
       /\ status = "migrating_metadata" /\ batches = {} /\ worker[TRUE].drop = {}
       /\ ~ worker[TRUE].pushed => jobs = {}
  /\ base.created => Fresh /\ worker[TRUE].pc \in {"idle", "notify"}

(* One batch at a time, and only jobs of that batch await a first attempt. *)
OneBatch ==
  /\ \A c, d \in batches : c = d
  /\ batches # {} => worker[TRUE] = Idle /\ status # "analyzing_base"
  /\ \A j \in jobs : j.batch # NoBatch =>
       \/ \E c \in batches : c.id = j.batch
       \/ worker[TRUE].pc = "create" /\ worker[TRUE].batch = j.batch

PolledLast == polled => status = "migrated"

Inv == SyncPhase /\ OneBatch /\ PolledLast /\ StageBarrier /\ NothingForgotten
IInv == TypeOK /\ Inv

-----------------------------------------------------------------------------
(* Type correctness. *)

(* The stage on_complete goes on to is one of the enum's.                  *)
LEMMA NextStageType == \A s \in Stages!Stage : NextStage(s) \in Stages!Stage
  BY DEF NextStage, Stages!Stage

(* A stage's jobs are jobs, whichever batch they are pushed in.            *)
LEMMA JobsOfType ==
  ASSUME TypeOK, NEW s, NEW new \in BOOLEAN, NEW b \in BatchId \cup {NoBatch}
  PROVE  JobsOf(s, new, b) \in SUBSET Job
  BY DEF JobsOf, StepOf, Job, Steps, TypeOK

(* Taking jobs out of their batch leaves them jobs.                        *)
LEMMA UnbatchedType ==
  ASSUME NEW S \in SUBSET Job
  PROVE  Unbatched(S) \in SUBSET Job
  BY DEF Unbatched, Job

(* Closing a batch, which frees its jobs, leaves a set of jobs.             *)
LEMMA ClosedType ==
  ASSUME TypeOK, NEW b
  PROVE  Closed(b) \in SUBSET Job
  <1>1. {j \in jobs : j.batch = b} \in SUBSET Job
    BY DEF TypeOK
  <1>2. QED
    BY <1>1, UnbatchedType DEF Closed, TypeOK

(* Adding the jobs of a stage keeps jobs and batches well typed.           *)
LEMMA EnqueueType ==
  ASSUME NEW S \in SUBSET Job, NEW b \in BatchId, NEW new \in BOOLEAN,
         NEW J \in SUBSET Job, NEW B \in SUBSET Batch,
         Enqueue(S, b, new, J, B)
  PROVE  jobs' \in SUBSET Job /\ batches' \in SUBSET Batch
  <1>1. Unbatched({j \in S : ~ Queued(j)}) \in SUBSET Job
    BY UnbatchedType
  <1>2. [id |-> b, new |-> new] \in Batch
    BY DEF Batch
  <1>3. QED
    BY <1>1, <1>2 DEF Enqueue

(* One run of the callback on_complete keeps the types it touches.         *)
LEMMA OnCompleteType ==
  ASSUME TypeOK, NEW s \in Stages!Stage, NEW new \in BOOLEAN,
         NEW B \in SUBSET Batch, OnComplete(s, new, jobs, B)
  PROVE  /\ status' \in Stages!Stage
         /\ migrated' \in SUBSET Tables
         /\ polled' \in BOOLEAN
         /\ jobs' \in SUBSET Job
         /\ batches' \in SUBSET Batch
  <1>1. CASE s = "migrated"
    BY <1>1 DEF OnComplete, TypeOK
  <1>2. CASE s # "migrated" /\ NextStage(s) = "migrated"
    BY <1>2, NextStageType DEF OnComplete, TypeOK
  <1>3. CASE s # "migrated" /\ NextStage(s) # "migrated"
    <2>1. PICK b \in FreeBatch(jobs, B) :
            Enqueue(JobsOf(NextStage(s), new, b), b, new, jobs, B)
      BY <1>3 DEF OnComplete
    <2>2. b \in BatchId
      BY DEF FreeBatch
    <2>3. JobsOf(NextStage(s), new, b) \in SUBSET Job
      BY <2>2, JobsOfType
    <2>4. jobs' \in SUBSET Job /\ batches' \in SUBSET Batch
      BY <2>1, <2>2, <2>3, EnqueueType DEF TypeOK
    <2>5. QED
      BY <1>3, <2>4, NextStageType DEF OnComplete, TypeOK
  <1>4. QED
    BY <1>1, <1>2, <1>3

(* So does a run of it that an error cuts short.                           *)
LEMMA OnCompleteFailsType ==
  ASSUME TypeOK, NEW s \in Stages!Stage, NEW new \in BOOLEAN, OnCompleteFails(s, new)
  PROVE  /\ status' \in Stages!Stage
         /\ migrated' \in SUBSET Tables
         /\ jobs' \in SUBSET Job
         /\ lost' \in SUBSET (Steps \X Tables)
  <1> DEFINE all == JobsOf(NextStage(s), new, NoBatch)
  <1>1. all \in SUBSET Job
    BY JobsOfType DEF NoBatch
  <1>2. PICK pushed \in SUBSET {j \in all : ~ Queued(j)} :
          /\ jobs' = jobs \cup pushed
          /\ lost' = lost \cup {<<j.step, j.table>> : j \in all \ pushed}
    BY DEF OnCompleteFails
  <1>3. {<<j.step, j.table>> : j \in all \ pushed} \in SUBSET (Steps \X Tables)
    BY <1>1 DEF Job
  <1>4. status' \in Stages!Stage /\ migrated' \in SUBSET Tables
    BY NextStageType DEF OnCompleteFails, TypeOK
  <1> HIDE DEF all
  <1>5. QED
    BY <1>1, <1>2, <1>3, <1>4 DEF TypeOK

(* What a SyncDatabaseWorker that is under way carries with it.            *)
LEMMA WorkerType ==
  ASSUME TypeOK, NEW new \in BOOLEAN
  PROVE  /\ worker[new] \in Running \cup {Idle}
         /\ worker[new].pc \in {"tables", "advance"} =>
              worker[new].seen \in Stages!Stage
         /\ worker[new].pc = "create" => worker[new] \in Creating
  <1>1. worker[new] \in Notifying \cup Checking \cup Creating \cup {Idle}
    BY DEF TypeOK, Running
  <1>2. \A w \in Notifying \cup {Idle} : w.pc \in {"notify", "idle"}
    BY DEF Notifying, Idle
  <1>3. \A w \in Checking : w.pc \in {"tables", "advance"} /\ w.seen \in Stages!Stage
    BY DEF Checking
  <1>4. \A w \in Creating : w.pc = "create"
    BY DEF Creating
  <1>5. QED
    BY <1>1, <1>2, <1>3, <1>4 DEF Running

(* A worker is replaced by one that is idle or under way.                  *)
LEMMA WorkerUpdate ==
  ASSUME TypeOK, NEW new \in BOOLEAN, NEW w \in Running \cup {Idle},
         worker' = [worker EXCEPT ![new] = w]
  PROVE  worker' \in [BOOLEAN -> Running \cup {Idle}]
  BY DEF TypeOK

(* A base just connected is well typed.                                    *)
LEMMA TypeInit == Init => TypeOK
  <1> SUFFICES ASSUME Init PROVE TypeOK
    OBVIOUS
  <1>1. faults \in 0..MaxFaults
    BY MigrationAssumption DEF Init
  <1>2. worker \in [BOOLEAN -> Running \cup {Idle}]
    BY DEF Init
  <1>3. done \in [Tables -> SUBSET Steps]
    BY DEF Init
  <1>4. QED
    BY <1>1, <1>2, <1>3 DEF Init, TypeOK, Stages!Stage

(* SyncDatabaseWorker#perform up to its first branch keeps the types.      *)
LEMMA TypeSyncStart ==
  ASSUME TypeOK, NEW new \in BOOLEAN, SyncStart(new)
  PROVE  TypeOK'
  <1>1. CASE base.created /\ new
    <2>1. [pc |-> "notify"] \in Running
      BY DEF Running, Notifying
    <2>2. worker' = [worker EXCEPT ![new] = [pc |-> "notify"]] /\ status' = "creating_listeners"
      BY <1>1 DEF SyncStart
    <2>3. worker' \in [BOOLEAN -> Running \cup {Idle}]
      BY <2>1, <2>2, WorkerUpdate
    <2>4. QED
      BY <2>2, <2>3 DEF TypeOK, SyncStart, envVars, tableVars, jobVars, Stages!Stage
  <1>2. CASE ~ (base.created /\ new) /\ remote = known
    <2> DEFINE w == [pc |-> "tables", seen |-> status]
    <2>1. w \in Running
      BY DEF Running, Checking, TypeOK
    <2>2. worker' = [worker EXCEPT ![new] = w] /\ status' = status
      BY <1>2 DEF SyncStart
    <2>3. worker' \in [BOOLEAN -> Running \cup {Idle}]
      BY <2>1, <2>2, WorkerUpdate
    <2>4. QED
      BY <2>2, <2>3 DEF TypeOK, SyncStart, envVars, tableVars, jobVars
  <1>3. CASE ~ (base.created /\ new) /\ remote # known
    <2>1. PICK b \in FreeBatch(jobs, batches) : worker' = [worker EXCEPT ![new] =
            [pc |-> "create", todo |-> remote \ known, drop |-> known \ remote,
             batch |-> b, pushed |-> FALSE]]
      BY <1>3 DEF SyncStart
    <2> DEFINE w == [pc |-> "create", todo |-> remote \ known, drop |-> known \ remote,
                     batch |-> b, pushed |-> FALSE]
    <2>2. w \in Running
      BY DEF Running, Creating, TypeOK, FreeBatch
    <2>3. worker' \in [BOOLEAN -> Running \cup {Idle}]
      BY <2>1, <2>2, WorkerUpdate
    <2>4. status' = "migrating_metadata"
      BY <1>3 DEF SyncStart
    <2>5. QED
      BY <2>3, <2>4 DEF TypeOK, SyncStart, envVars, tableVars, jobVars, Stages!Stage
  <1>4. QED
    BY <1>1, <1>2, <1>3

(* Creating the record of a table and its job keeps the types.             *)
LEMMA TypeSyncCreateTable ==
  ASSUME TypeOK, NEW new \in BOOLEAN, SyncCreateTable(new)
  PROVE  TypeOK'
  <1>1. PICK t \in worker[new].todo :
          /\ known' = known \cup {t}
          /\ jobs' = jobs \cup {[step |-> "columns", table |-> t, batch |-> worker[new].batch]}
          /\ worker' = [worker EXCEPT ![new] =
               [pc |-> "create", todo |-> worker[new].todo \ {t}, drop |-> worker[new].drop,
                batch |-> worker[new].batch, pushed |-> TRUE]]
    BY DEF SyncCreateTable
  <1> DEFINE w == [pc |-> "create", todo |-> worker[new].todo \ {t}, drop |-> worker[new].drop,
                   batch |-> worker[new].batch, pushed |-> TRUE]
  <1>2. worker[new] \in Creating
    BY WorkerType DEF SyncCreateTable
  <1>3. w \in Running
    BY <1>2 DEF Running, Creating
  <1>4. worker' = [worker EXCEPT ![new] = w]
    BY <1>1, <1>2 DEF TypeOK
  <1>5. worker' \in [BOOLEAN -> Running \cup {Idle}]
    BY <1>3, <1>4, WorkerUpdate
  <1>6. t \in Tables /\ [step |-> "columns", table |-> t, batch |-> worker[new].batch] \in Job
    BY <1>2 DEF Creating, Job, Steps
  <1>7. QED
    BY <1>1, <1>5, <1>6 DEF TypeOK, SyncCreateTable, envVars

(* Syncing the known tables in place keeps the types.                      *)
LEMMA TypeSyncTables ==
  ASSUME TypeOK, NEW new \in BOOLEAN, SyncTables(new)
  PROVE  TypeOK'
  <1>1. done' \in [Tables -> SUBSET Steps] /\ migrated' \in SUBSET Tables
    BY DEF SyncTables, SyncInPlace, TypeOK, Steps
  <1>2. PICK b \in FreeBatch(jobs, batches) : Enqueue(IndexJobs(known, b), b, new, jobs, batches)
    BY DEF SyncTables
  <1>3. b \in BatchId
    BY DEF FreeBatch
  <1>4. IndexJobs(known, b) \in SUBSET Job
    BY <1>3 DEF IndexJobs, Unsynced, Bare, Job, Steps, TypeOK
  <1>5. jobs' \in SUBSET Job /\ batches' \in SUBSET Batch
    BY <1>2, <1>3, <1>4, EnqueueType DEF TypeOK
  <1> DEFINE w == IF worker[new].seen = "migrated" THEN Idle
                  ELSE [pc |-> "advance", seen |-> worker[new].seen]
  <1>6. worker[new].seen \in Stages!Stage
    BY WorkerType DEF SyncTables
  <1>7. w \in Running \cup {Idle}
    BY <1>6 DEF Running, Checking
  <1>8. worker' = [worker EXCEPT ![new] = w]
    BY DEF SyncTables, TypeOK
  <1> HIDE DEF w
  <1>9. worker' \in [BOOLEAN -> Running \cup {Idle}]
    BY <1>7, <1>8, WorkerUpdate
  <1>10. QED
    BY <1>1, <1>5, <1>9 DEF SyncTables, TypeOK, envVars

(* An error rescued by perform keeps the types.                            *)
LEMMA TypeSyncAborts ==
  ASSUME TypeOK, NEW new \in BOOLEAN, worker[new] # Idle, SyncAborts(new)
  PROVE  /\ worker' \in [BOOLEAN -> Running \cup {Idle}]
         /\ known' \in SUBSET Tables
         /\ done' \in [Tables -> SUBSET Steps]
         /\ jobs' \in SUBSET Job
         /\ status' \in Stages!Stage
         /\ migrated' \in SUBSET Tables
         /\ lost' \in SUBSET (Steps \X Tables)
  <1>1. worker' \in [BOOLEAN -> Running \cup {Idle}]
    BY WorkerUpdate DEF SyncAborts
  <1>2. CASE /\ worker[new].pc \in {"notify", "advance"}
             /\ UNCHANGED <<known, done, jobs, status, migrated, lost>>
    BY <1>1, <1>2 DEF TypeOK
  <1>3. CASE /\ worker[new].pc = "tables"
             /\ \E S \in SUBSET (known \cap remote) :
                  /\ SyncInPlace(S)
                  /\ jobs' = jobs \cup {j \in IndexJobs(S, NoBatch) : ~ Queued(j)}
             /\ UNCHANGED <<known, status, lost>>
    <2>1. PICK S \in SUBSET (known \cap remote) :
             /\ SyncInPlace(S)
             /\ jobs' = jobs \cup {j \in IndexJobs(S, NoBatch) : ~ Queued(j)}
      BY <1>3
    <2>2. done' \in [Tables -> SUBSET Steps] /\ migrated' \in SUBSET Tables
      BY <2>1 DEF SyncInPlace, TypeOK, Steps
    <2>3. IndexJobs(S, NoBatch) \in SUBSET Job
      BY DEF IndexJobs, Unsynced, Bare, Job, Steps, TypeOK, NoBatch
    <2>4. QED
      BY <1>1, <1>3, <2>1, <2>2, <2>3 DEF TypeOK
  <1>4. CASE /\ worker[new].pc = "advance"
             /\ OnCompleteFails(worker[new].seen, TRUE)
             /\ UNCHANGED <<known, done>>
    <2>1. worker[new].seen \in Stages!Stage
      BY <1>4, WorkerType
    <2>2. QED
      BY <1>1, <1>4, <2>1, OnCompleteFailsType DEF TypeOK
  <1>5. CASE /\ worker[new].pc = "create"
             /\ \E half \in SUBSET worker[new].todo :
                  /\ Cardinality(half) <= 1
                  /\ known' = known \cup half
                  /\ lost' = lost \cup ({"columns"} \X half)
             /\ jobs' = Closed(worker[new].batch)
             /\ UNCHANGED <<done, status, migrated>>
    <2>1. PICK half \in SUBSET worker[new].todo :
             /\ known' = known \cup half
             /\ lost' = lost \cup ({"columns"} \X half)
      BY <1>5
    <2>2. worker[new].todo \in SUBSET Tables
      BY <1>5, WorkerType DEF Creating
    <2>3. jobs' \in SUBSET Job
      BY <1>5, ClosedType
    <2>4. lost' \in SUBSET (Steps \X Tables)
      BY <2>1, <2>2 DEF TypeOK, Steps
    <2>5. QED
      BY <1>1, <1>5, <2>1, <2>2, <2>3, <2>4 DEF TypeOK
  <1>6. QED
    BY <1>2, <1>3, <1>4, <1>5 DEF SyncAborts

(* The fault budget is respected.                                          *)
LEMMA FaultType ==
  ASSUME faults \in 0..MaxFaults, Fault
  PROVE  faults' \in 0..MaxFaults
  BY MigrationAssumption DEF Fault, MigrationAssumption

(* Every step of a SyncDatabaseWorker job keeps the types.                 *)
LEMMA TypeSync ==
  ASSUME TypeOK, NEW new \in BOOLEAN, SyncStep(new) \/ SyncFails(new)
  PROVE  TypeOK'
  <1>1. CASE SyncStart(new)
    BY <1>1, TypeSyncStart
  <1>2. CASE SyncNotified(new)
    <2>1. worker' \in [BOOLEAN -> Running \cup {Idle}]
      BY <1>2, WorkerUpdate DEF SyncNotified
    <2>2. QED
      BY <1>2, <2>1 DEF TypeOK, SyncNotified, envVars, tableVars, jobVars, Stages!Stage
  <1>3. CASE SyncCreateTable(new)
    BY <1>3, TypeSyncCreateTable
  <1>4. CASE SyncFinish(new)
    <2>1. worker' \in [BOOLEAN -> Running \cup {Idle}]
      BY <1>4, WorkerUpdate DEF SyncFinish
    <2>2. worker[new] \in Creating
      BY <1>4, WorkerType DEF SyncFinish
    <2>3. known' \in SUBSET Tables /\ migrated' \in SUBSET Tables
      BY <1>4 DEF SyncFinish, TypeOK
    <2>4. done' \in [Tables -> SUBSET Steps]
      BY <1>4 DEF SyncFinish, TypeOK
    <2>5. [id |-> worker[new].batch, new |-> new] \in Batch
      BY <2>2 DEF Creating, Batch
    <2>6. batches' \in SUBSET Batch
      BY <1>4, <2>5 DEF SyncFinish, TypeOK
    <2>7. QED
      BY <1>4, <2>1, <2>3, <2>4, <2>6 DEF TypeOK, SyncFinish, envVars
  <1>5. CASE SyncTables(new)
    BY <1>5, TypeSyncTables
  <1>6. CASE SyncAdvance(new)
    <2>1. worker[new].seen \in Stages!Stage
      BY <1>6, WorkerType DEF SyncAdvance
    <2>2. worker' \in [BOOLEAN -> Running \cup {Idle}]
      BY <1>6, WorkerUpdate DEF SyncAdvance
    <2>3. batches \in SUBSET Batch
      BY DEF TypeOK
    <2>4. OnComplete(worker[new].seen, TRUE, jobs, batches)
      BY <1>6 DEF SyncAdvance
    <2>5. /\ status' \in Stages!Stage /\ migrated' \in SUBSET Tables /\ polled' \in BOOLEAN
          /\ jobs' \in SUBSET Job /\ batches' \in SUBSET Batch
      BY <2>1, <2>3, <2>4, OnCompleteType
    <2>6. QED
      BY <1>6, <2>2, <2>5 DEF TypeOK, SyncAdvance, envVars
  <1>7. CASE SyncRaises(new)
    <2>1. worker[new] # Idle
      BY <1>7 DEF SyncRaises, Idle
    <2>2. QED
      BY <1>7, <2>1, TypeSyncAborts DEF TypeOK, SyncRaises, SyncAborts, envVars
  <1>8. CASE SyncFails(new)
    <2>1. faults' \in 0..MaxFaults
      BY <1>8, FaultType DEF SyncFails, TypeOK
    <2>2. QED
      BY <1>8, <2>1, TypeSyncAborts DEF TypeOK, SyncFails, SyncAborts, envVars
  <1>9. QED
    BY <1>1, <1>2, <1>3, <1>4, <1>5, <1>6, <1>7, <1>8 DEF SyncStep

(* The callback of a batch, whole or cut short, keeps the types.           *)
LEMMA TypeBatch ==
  ASSUME TypeOK, NEW c \in batches, BatchComplete(c) \/ CallbackFails(c)
  PROVE  TypeOK'
  <1>1. c.new \in BOOLEAN /\ status \in Stages!Stage
    BY DEF TypeOK, Batch
  <1>2. CASE BatchComplete(c)
    <2>1. batches \ {c} \in SUBSET Batch
      BY DEF TypeOK
    <2>2. OnComplete(status, c.new, jobs, batches \ {c})
      BY <1>2 DEF BatchComplete
    <2>3. /\ status' \in Stages!Stage /\ migrated' \in SUBSET Tables /\ polled' \in BOOLEAN
          /\ jobs' \in SUBSET Job /\ batches' \in SUBSET Batch
      BY <1>1, <2>1, <2>2, OnCompleteType
    <2>4. QED
      BY <1>2, <2>3 DEF TypeOK, BatchComplete, envVars
  <1>3. CASE CallbackFails(c)
    <2>1. faults' \in 0..MaxFaults
      BY <1>3, FaultType DEF CallbackFails, TypeOK
    <2>2. OnCompleteFails(status, c.new)
      BY <1>3 DEF CallbackFails
    <2>3. QED
      BY <1>1, <1>3, <2>1, <2>2, OnCompleteFailsType DEF TypeOK, CallbackFails, envVars
  <1>4. QED
    BY <1>2, <1>3

(* A table worker that succeeds, fails or is lost keeps the types.         *)
LEMMA TypeJob ==
  ASSUME TypeOK, NEW j \in jobs, JobSucceeds(j) \/ JobFails(j) \/ JobLost(j)
  PROVE  TypeOK'
  <1>1. j \in Job /\ j.table \in Tables /\ j.step \in Steps
    BY DEF TypeOK, Job
  <1>2. Unbatched({j}) \in SUBSET Job
    BY <1>1, UnbatchedType
  <1>3. CASE JobSucceeds(j)
    <2>1. migrated' \in SUBSET Tables
      BY <1>1, <1>3 DEF JobSucceeds, Marked, TypeOK
    <2>2. done' \in [Tables -> SUBSET Steps]
      BY <1>1, <1>3 DEF JobSucceeds, TypeOK
    <2>3. QED
      BY <1>3, <2>1, <2>2 DEF TypeOK, JobSucceeds, envVars
  <1>4. CASE JobFails(j)
    <2>1. faults' \in 0..MaxFaults
      BY <1>4, FaultType DEF JobFails, TypeOK
    <2>2. QED
      BY <1>2, <1>4, <2>1 DEF TypeOK, JobFails, envVars
  <1>5. CASE JobLost(j)
    <2>1. faults' \in 0..MaxFaults
      BY <1>5, FaultType DEF JobLost, TypeOK
    <2>2. lost' \in SUBSET (Steps \X Tables)
      BY <1>1, <1>5 DEF JobLost, TypeOK
    <2>3. jobs' \in SUBSET Job /\ batches' \in SUBSET Batch
      BY <1>5, ClosedType DEF JobLost, TypeOK
    <2>4. QED
      BY <1>5, <2>1, <2>2, <2>3 DEF TypeOK, JobLost, envVars, tableVars
  <1>6. QED
    BY <1>3, <1>4, <1>5

(* Every step of a migration keeps the types.                              *)
LEMMA TypeNext == TypeOK /\ [Next]_vars => TypeOK'
  <1> SUFFICES ASSUME TypeOK, [Next]_vars PROVE TypeOK'
    OBVIOUS
  <1>1. CASE MigrationWorker
    BY <1>1 DEF TypeOK, MigrationWorker, envVars, tableVars, jobVars
  <1>2. CASE DatabaseJobLost
    <2>1. faults' \in 0..MaxFaults
      BY <1>2, FaultType DEF DatabaseJobLost, TypeOK
    <2>2. QED
      BY <1>2, <2>1 DEF TypeOK, DatabaseJobLost, envVars, tableVars, jobVars
  <1>3. ASSUME NEW new \in BOOLEAN, SyncStep(new) \/ SyncFails(new)
        PROVE  TypeOK'
    BY <1>3, TypeSync
  <1>4. ASSUME NEW c \in batches, BatchComplete(c) \/ CallbackFails(c)
        PROVE  TypeOK'
    BY <1>4, TypeBatch
  <1>5. ASSUME NEW j \in jobs, JobSucceeds(j) \/ JobFails(j) \/ JobLost(j)
        PROVE  TypeOK'
    BY <1>5, TypeJob
  <1>6. CASE UNCHANGED vars
    BY <1>6 DEF TypeOK, vars
  <1>7. QED
    BY <1>1, <1>2, <1>3, <1>4, <1>5, <1>6 DEF Next

(* Every variable of a migration keeps its type.                           *)
THEOREM TypeCorrect == Spec => []TypeOK
  <1>1. QED
    BY TypeInit, TypeNext, PTL DEF Spec

-----------------------------------------------------------------------------
(* The invariant. *)

(* A worker that performs nothing is at no step of perform.                *)
LEMMA IdlePc == Idle.pc = "idle"
  BY DEF Idle

(* The invariant holds of a base just connected.                           *)
LEMMA InvInit == Init => Inv
  <1> SUFFICES ASSUME Init PROVE Inv
    OBVIOUS
  <1>1. worker[TRUE] = Idle /\ worker[FALSE] = Idle
    BY DEF Init
  <1>2. SyncPhase
    BY <1>1 DEF Init, SyncPhase, Fresh, Idle
  <1>3. OneBatch /\ PolledLast /\ StageBarrier /\ NothingForgotten
    BY DEF Init, OneBatch, PolledLast, StageBarrier, NothingForgotten
  <1>4. QED
    BY <1>2, <1>3 DEF Inv

(* A migration that has done nothing yet has forgotten nothing.            *)
LEMMA FreshInv ==
  ASSUME Fresh'
  PROVE  OneBatch' /\ StageBarrier' /\ NothingForgotten'
  BY DEF Fresh, OneBatch, StageBarrier, NothingForgotten

(* A first migration runs the sync of the new connection, never another.   *)
LEMMA OnlyNewSync ==
  ASSUME IInv, NEW new \in BOOLEAN, SyncStep(new) \/ SyncFails(new)
  PROVE  new = TRUE
  <1> SUFFICES ASSUME new = FALSE PROVE FALSE
    OBVIOUS
  <1>1. worker[FALSE] = Idle /\ "sync" \notin queue
    BY DEF IInv, Inv, SyncPhase
  <1>2. worker[FALSE].pc = "idle"
    BY <1>1 DEF Idle
  <1>3. ~ SyncStart(FALSE) /\ ~ SyncFails(FALSE)
    BY <1>1 DEF SyncStart, SyncFails, SyncJob
  <1>4. worker[FALSE].pc \notin {"notify", "create", "tables", "advance"}
    BY <1>2
  <1>5. QED
    BY <1>3, <1>4 DEF SyncStep, SyncNotified, SyncCreateTable,
                      SyncFinish, SyncTables, SyncAdvance, SyncRaises

(* perform begins with no job and no batch about.                          *)
LEMMA InvSyncStart ==
  ASSUME IInv, SyncStart(TRUE)
  PROVE  Inv'
  <1>1. queue = {"sync_new"} /\ worker[FALSE] = Idle /\ status = "analyzing_base" /\ Fresh
    BY DEF IInv, Inv, SyncPhase, SyncStart, SyncJob
  <1>2. queue' = {} /\ Fresh' /\ base' = base /\ polled' = polled
    BY <1>1 DEF SyncStart, SyncJob, Fresh, tableVars, jobVars, envVars
  <1>3. worker'[FALSE] = Idle
    BY <1>1 DEF SyncStart, IInv, TypeOK
  <1>4. ~ polled
    BY <1>1 DEF IInv, Inv, PolledLast
  <1>5. SyncPhase'
    <2>1. CASE base.created
      <3>1. worker'[TRUE] = [pc |-> "notify"] /\ status' = "creating_listeners"
        BY <2>1 DEF SyncStart, IInv, TypeOK
      <3>2. worker'[TRUE].pc = "notify"
        BY <3>1
      <3>3. QED
        BY <1>2, <1>3, <3>1, <3>2 DEF SyncPhase
    <2>2. CASE ~ base.created /\ remote = known
      <3>1. worker'[TRUE] = [pc |-> "tables", seen |-> status] /\ status' = status
        BY <2>2 DEF SyncStart, IInv, TypeOK
      <3>2. worker'[TRUE].pc = "tables" /\ worker'[TRUE].seen = status
        BY <3>1
      <3>3. QED
        BY <1>1, <1>2, <1>3, <2>2, <3>1, <3>2 DEF SyncPhase
    <2>3. CASE ~ base.created /\ remote # known
      <3>1. PICK b \in FreeBatch(jobs, batches) : worker' = [worker EXCEPT ![TRUE] =
              [pc |-> "create", todo |-> remote \ known, drop |-> known \ remote,
               batch |-> b, pushed |-> FALSE]]
        BY <2>3 DEF SyncStart
      <3>2. worker'[TRUE].pc = "create" /\ worker'[TRUE].drop = {} /\ jobs' = {}
        BY <1>1, <1>2, <3>1 DEF IInv, TypeOK, Fresh
      <3>3. status' = "migrating_metadata"
        BY <2>3 DEF SyncStart
      <3>4. QED
        BY <1>2, <1>3, <2>3, <3>2, <3>3 DEF SyncPhase, Fresh
    <2>4. QED
      BY <2>1, <2>2, <2>3
  <1>6. QED
    BY <1>2, <1>4, <1>5, FreshInv DEF Inv, PolledLast

(* A base Powerbase created goes straight to its last stage.               *)
LEMMA InvSyncNotified ==
  ASSUME IInv, SyncNotified(TRUE)
  PROVE  Inv'
  <1>1. Fresh' /\ worker'[TRUE] = Idle /\ worker'[FALSE] = Idle /\ queue' = queue
    BY DEF IInv, Inv, TypeOK, SyncPhase, SyncNotified, Fresh, tableVars, jobVars
  <1>2. queue = {}
    BY DEF IInv, Inv, SyncPhase, SyncNotified, Idle
  <1>3. SyncPhase'
    BY <1>1, <1>2 DEF SyncPhase, Idle
  <1>4. QED
    BY <1>1, <1>3, FreshInv DEF Inv, PolledLast, SyncNotified

(* A created table has its columns job in the batch being filled.          *)
LEMMA InvSyncCreateTable ==
  ASSUME IInv, SyncCreateTable(TRUE)
  PROVE  Inv'
  <1> DEFINE w == worker[TRUE]
             k(t) == [step |-> "columns", table |-> t, batch |-> w.batch]
  <1>1. PICK t \in w.todo :
          /\ known' = known \cup {t}
          /\ jobs' = jobs \cup {k(t)}
          /\ worker' = [worker EXCEPT ![TRUE] =
               [pc |-> "create", todo |-> w.todo \ {t}, drop |-> w.drop,
                batch |-> w.batch, pushed |-> TRUE]]
    BY DEF SyncCreateTable
  <1>0. k(t).step = "columns" /\ k(t).table = t /\ k(t).batch = w.batch
    OBVIOUS
  <1>2. /\ w.pc = "create" /\ w.drop = {} /\ status = "migrating_metadata" /\ batches = {}
        /\ queue = {} /\ worker[FALSE] = Idle /\ ~ base.created
    BY DEF SyncCreateTable, IInv, Inv, SyncPhase, Idle
  <1>3. /\ worker'[TRUE].pc = "create" /\ worker'[TRUE].drop = {}
        /\ worker'[TRUE].batch = w.batch /\ worker'[TRUE].pushed = TRUE
        /\ worker'[FALSE] = Idle
    BY <1>1, <1>2 DEF IInv, TypeOK
  <1>4. UNCHANGED <<base, status, batches, queue, polled, done, lost>>
    BY DEF SyncCreateTable, envVars
  <1>5. SyncPhase'
    BY <1>2, <1>3, <1>4 DEF SyncPhase, Fresh
  <1> HIDE DEF k
  <1>6. OneBatch'
    BY <1>0, <1>1, <1>2, <1>3, <1>4 DEF IInv, Inv, OneBatch
  <1>7. StageBarrier'
    <2>1. StepOf(status)' = StepOf(status) /\ "columns" \in StepOf(status)
      BY <1>2, <1>4 DEF StepOf, StageStep, Steps
    <2>2. QED
      BY <1>0, <1>1, <2>1 DEF IInv, Inv, StageBarrier
  <1>8. NothingForgotten'
    <2>1. Required = {"columns"} /\ Required' = Required
      BY <1>2, <1>4 DEF Required, Passed, Steps, Stages!Before, Stages!Stage
    <2>2. \E j \in jobs' : j.step = "columns" /\ j.table = t
      BY <1>0, <1>1
    <2>3. jobs \subseteq jobs' /\ known' = known \cup {t}
      BY <1>1
    <2>4. QED
      BY <1>4, <2>1, <2>2, <2>3 DEF IInv, Inv, NothingForgotten
  <1>9. QED
    BY <1>4, <1>5, <1>6, <1>7, <1>8 DEF IInv, Inv, PolledLast

(* The batch that is registered holds the jobs that were pushed.           *)
LEMMA InvSyncFinish ==
  ASSUME IInv, SyncFinish(TRUE)
  PROVE  Inv'
  <1> DEFINE w == worker[TRUE]
             c == [id |-> w.batch, new |-> TRUE]
  <1>1. /\ w.pc = "create" /\ w.drop = {} /\ status = "migrating_metadata" /\ batches = {}
        /\ queue = {} /\ worker[FALSE] = Idle /\ ~ base.created
        /\ ~ w.pushed => jobs = {}
    BY DEF SyncFinish, IInv, Inv, SyncPhase, Idle
  <1>2. UNCHANGED <<base, status, jobs, queue, polled, lost>>
    BY DEF SyncFinish, envVars
  <1>3. known' = known /\ \A t \in Tables : done'[t] = done[t]
    BY <1>1 DEF SyncFinish
  <1>4. batches' = IF w.pushed THEN {c} ELSE {}
    BY <1>1 DEF SyncFinish
  <1>5. worker'[TRUE] = Idle /\ worker'[FALSE] = Idle /\ worker'[TRUE].pc = "idle"
    BY <1>1 DEF SyncFinish, IInv, TypeOK, Idle
  <1>6. SyncPhase'
    BY <1>1, <1>2, <1>5 DEF SyncPhase
  <1>7. c.id = w.batch
    OBVIOUS
  <1> HIDE DEF c
  <1>8. OneBatch'
    <2>1. \A j \in jobs : j.batch # NoBatch => w.pushed /\ j.batch = w.batch
      BY <1>1 DEF IInv, Inv, OneBatch
    <2>2. QED
      BY <1>1, <1>2, <1>4, <1>5, <1>7, <2>1 DEF OneBatch
  <1>9. StageBarrier'
    BY <1>2 DEF IInv, Inv, StageBarrier, StepOf
  <1>10. NothingForgotten'
    <2>1. Required' = Required
      BY <1>2 DEF Required, Passed, Stages!Before
    <2>2. QED
      BY <1>2, <1>3, <2>1 DEF IInv, Inv, TypeOK, NothingForgotten
  <1>11. QED
    BY <1>2, <1>6, <1>8, <1>9, <1>10 DEF IInv, Inv, PolledLast

(* Tables synced in place lack none of the steps required so far.          *)
LEMMA InvSyncTables ==
  ASSUME IInv, SyncTables(TRUE)
  PROVE  Inv'
  <1>1. /\ worker[TRUE].pc = "tables" /\ worker[TRUE].seen = "analyzing_base"
        /\ status = "analyzing_base" /\ Fresh /\ queue = {} /\ worker[FALSE] = Idle
        /\ base.created => FALSE
    BY IdlePc DEF SyncTables, IInv, Inv, SyncPhase
  <1>2. UNCHANGED <<base, status, known, queue, polled>>
    BY DEF SyncTables, envVars
  <1>3. PICK b \in FreeBatch(jobs, batches) : Enqueue(IndexJobs(known, b), b, TRUE, jobs, batches)
    BY DEF SyncTables
  <1>4. IndexJobs(known, b) = {}
    BY <1>1 DEF IndexJobs, Unsynced, Bare, Fresh
  <1>5. jobs' = {} /\ batches' = {}
    BY <1>1, <1>3, <1>4 DEF Enqueue, Unbatched, Fresh
  <1>6. worker'[FALSE] = Idle /\ worker'[TRUE] = [pc |-> "advance", seen |-> "analyzing_base"]
    BY <1>1 DEF SyncTables, IInv, TypeOK
  <1>7. worker'[TRUE].pc = "advance" /\ worker'[TRUE].seen = "analyzing_base"
    BY <1>6
  <1>8. Fresh'
    BY <1>1, <1>2, <1>5 DEF Fresh
  <1>9. SyncPhase'
    BY <1>1, <1>2, <1>6, <1>7, <1>8 DEF SyncPhase
  <1>10. QED
    BY <1>1, <1>2, <1>8, <1>9, FreshInv DEF IInv, Inv, PolledLast

(* The direct call of on_complete begins the stage of the jobs it adds.    *)
LEMMA InvSyncAdvance ==
  ASSUME IInv, SyncAdvance(TRUE)
  PROVE  Inv'
  <1>1. /\ worker[TRUE].pc = "advance" /\ worker[TRUE].seen = "analyzing_base"
        /\ status = "analyzing_base" /\ Fresh /\ queue = {} /\ worker[FALSE] = Idle
        /\ ~ polled
    BY IdlePc DEF SyncAdvance, IInv, Inv, SyncPhase, PolledLast
  <1>2. UNCHANGED <<base, known, queue>>
    BY DEF SyncAdvance, envVars
  <1>3. OnComplete("analyzing_base", TRUE, jobs, batches)
    BY <1>1 DEF SyncAdvance, OnComplete
  <1>4. worker'[TRUE] = Idle /\ worker'[FALSE] = Idle /\ worker'[TRUE].pc = "idle"
    BY <1>1 DEF SyncAdvance, IInv, TypeOK, Idle
  <1>5. jobs' = {} /\ batches' = {} /\ PolledLast'
    <2>1. CASE NextStage("analyzing_base") = "migrated"
      BY <1>1, <1>3, <2>1 DEF OnComplete, Fresh, PolledLast
    <2>2. CASE NextStage("analyzing_base") # "migrated"
      <3>1. PICK b \in FreeBatch(jobs, batches) :
              Enqueue(JobsOf(NextStage("analyzing_base"), TRUE, b), b, TRUE, jobs, batches)
        BY <1>3, <2>2 DEF OnComplete
      <3>2. JobsOf(NextStage("analyzing_base"), TRUE, b) = {}
        BY <1>1 DEF JobsOf, Fresh
      <3>3. jobs' = {} /\ batches' = {}
        BY <1>1, <3>1, <3>2 DEF Enqueue, Unbatched, Fresh
      <3>4. polled' = polled
        BY <1>3, <2>2 DEF OnComplete
      <3>5. QED
        BY <1>1, <3>3, <3>4 DEF PolledLast
    <2>3. QED
      BY <2>1, <2>2
  <1>6. Fresh'
    BY <1>1, <1>2, <1>5 DEF Fresh
  <1>7. SyncPhase'
    BY <1>1, <1>2, <1>4, <1>6 DEF SyncPhase
  <1>8. QED
    BY <1>5, <1>6, <1>7, FreshInv DEF Inv

(* Taking jobs out of their batch keeps what they are to do.               *)
LEMMA UnbatchedJobs ==
  ASSUME NEW S
  PROVE  /\ \A j \in Unbatched(S) : j.batch = NoBatch
         /\ \A k \in Unbatched(S) : \E j \in S : k.step = j.step /\ k.table = j.table
         /\ \A j \in S : \E k \in Unbatched(S) : k.step = j.step /\ k.table = j.table
  <1> DEFINE k(j) == [step |-> j.step, table |-> j.table, batch |-> NoBatch]
  <1>1. \A j : k(j).step = j.step /\ k(j).table = j.table /\ k(j).batch = NoBatch
    OBVIOUS
  <1>2. Unbatched(S) = {k(j) : j \in S}
    BY DEF Unbatched
  <1> HIDE DEF k
  <1>3. QED
    BY <1>1, <1>2

(* A job taken out of its batch is still a job of its table.               *)
LEMMA ClosedJobs ==
  ASSUME NEW b
  PROVE  /\ \A j \in Closed(b) : j.batch # NoBatch => j \in jobs /\ j.batch # b
         /\ \A j \in jobs : \E k \in Closed(b) : k.step = j.step /\ k.table = j.table
  <1> DEFINE S == {j \in jobs : j.batch = b}
  <1>1. Closed(b) = {j \in jobs : j.batch # b} \cup Unbatched(S)
    BY DEF Closed
  <1>2. /\ \A j \in Unbatched(S) : j.batch = NoBatch
        /\ \A j \in S : \E k \in Unbatched(S) : k.step = j.step /\ k.table = j.table
    BY UnbatchedJobs
  <1>3. QED
    BY <1>1, <1>2

(* What an error in perform leaves undone is lost, and only that.          *)
LEMMA InvSyncFails ==
  ASSUME IInv, SyncFails(TRUE)
  PROVE  Inv'
  <1>1. worker[TRUE] # Idle /\ SyncAborts(TRUE)
    BY DEF SyncFails
  <1>2. queue = {} /\ worker[FALSE] = Idle /\ batches = {}
    BY <1>1 DEF IInv, Inv, SyncPhase, OneBatch
  <1>3. UNCHANGED <<base, batches, queue, polled>>
    BY <1>1 DEF SyncAborts, envVars
  <1>4. worker'[TRUE] = Idle /\ worker'[FALSE] = Idle
    BY <1>1, <1>2 DEF SyncAborts, IInv, TypeOK
  <1>5. CASE worker[TRUE].pc \in {"notify", "tables", "advance"}
    <2>1. Fresh /\ status # "migrated"
      BY <1>5 DEF IInv, Inv, SyncPhase
    <2>2. ~ polled
      BY <2>1 DEF IInv, Inv, PolledLast
    <2>3. known' = {} /\ jobs' = {}
      <3>1. CASE UNCHANGED <<known, done, jobs, status, migrated, lost>>
        BY <2>1, <3>1 DEF Fresh
      <3>2. CASE /\ \E S \in SUBSET (known \cap remote) :
                      /\ SyncInPlace(S)
                      /\ jobs' = jobs \cup {j \in IndexJobs(S, NoBatch) : ~ Queued(j)}
                 /\ UNCHANGED <<known, status, lost>>
        <4>1. PICK S \in SUBSET (known \cap remote) :
                jobs' = jobs \cup {j \in IndexJobs(S, NoBatch) : ~ Queued(j)}
          BY <3>2
        <4>2. S = {}
          BY <2>1 DEF Fresh
        <4>3. IndexJobs(S, NoBatch) = {}
          BY <4>2 DEF IndexJobs, Unsynced, Bare
        <4>4. QED
          BY <2>1, <3>2, <4>1, <4>3 DEF Fresh
      <3>3. CASE OnCompleteFails(worker[TRUE].seen, TRUE) /\ UNCHANGED <<known, done>>
        <4>1. JobsOf(NextStage(worker[TRUE].seen), TRUE, NoBatch) = {}
          BY <2>1 DEF JobsOf, Fresh
        <4>2. jobs' = jobs
          BY <3>3, <4>1 DEF OnCompleteFails
        <4>3. QED
          BY <2>1, <3>3, <4>2 DEF Fresh
      <3>4. QED
        BY <1>1, <1>5, <3>1, <3>2, <3>3 DEF SyncAborts
    <2>4. Fresh'
      BY <1>2, <1>3, <2>3 DEF Fresh
    <2>5. SyncPhase'
      BY <1>2, <1>3, <1>4, <2>4, IdlePc DEF SyncPhase
    <2>6. PolledLast'
      BY <1>3, <2>2 DEF PolledLast
    <2>7. QED
      BY <2>4, <2>5, <2>6, FreshInv DEF Inv
  <1>6. CASE worker[TRUE].pc = "create"
    <2>1. status = "migrating_metadata" /\ ~ base.created
      BY <1>6 DEF IInv, Inv, SyncPhase
    <2>2. PICK half \in SUBSET worker[TRUE].todo :
            known' = known \cup half /\ lost' = lost \cup ({"columns"} \X half)
      BY <1>1, <1>6 DEF SyncAborts
    <2>3. jobs' = Closed(worker[TRUE].batch) /\ UNCHANGED <<done, status>>
      BY <1>1, <1>6 DEF SyncAborts
    <2>4. \A j \in jobs' : j.batch = NoBatch
      BY <1>2, <2>3, ClosedJobs DEF IInv, Inv, OneBatch
    <2>5. \A j \in jobs : \E k \in jobs' : k.step = j.step /\ k.table = j.table
      BY <2>3, ClosedJobs
    <2>6. Required' = {"columns"} /\ Required = {"columns"}
      BY <2>1, <2>3 DEF Required, Passed, Steps, Stages!Before, Stages!Stage
    <2>7. NothingForgotten'
      <3> SUFFICES ASSUME NEW t \in known'
                   PROVE  \/ "columns" \in done'[t]
                          \/ \E k \in jobs' : k.step = "columns" /\ k.table = t
                          \/ <<"columns", t>> \in lost'
        BY <2>6 DEF NothingForgotten
      <3>1. CASE t \in known
        BY <2>2, <2>3, <2>5, <2>6, <3>1 DEF IInv, Inv, NothingForgotten
      <3>2. CASE t \in half
        BY <2>2, <3>2
      <3>3. QED
        BY <2>2, <3>1, <3>2
    <2>8. SyncPhase' /\ OneBatch' /\ StageBarrier'
      BY <1>2, <1>3, <1>4, <2>1, <2>4, IdlePc DEF SyncPhase, OneBatch, StageBarrier
    <2>9. QED
      BY <1>3, <2>1, <2>3, <2>7, <2>8 DEF IInv, Inv, PolledLast
  <1>7. worker[TRUE].pc \in {"notify", "tables", "advance", "create"}
    BY <1>1 DEF SyncAborts
  <1>8. QED
    BY <1>5, <1>6, <1>7

(* Every step of a SyncDatabaseWorker job keeps the invariant.             *)
LEMMA InvSync ==
  ASSUME IInv, NEW new \in BOOLEAN, SyncStep(new) \/ SyncFails(new)
  PROVE  Inv'
  <1>1. new = TRUE
    BY OnlyNewSync
  <1>2. ~ SyncRaises(TRUE)
    BY DEF SyncRaises, IInv, Inv, SyncPhase, Fresh
  <1>3. SyncStep(TRUE) \/ SyncFails(TRUE)
    BY <1>1
  <1>4. QED
    BY <1>2, <1>3, InvSyncStart, InvSyncNotified, InvSyncCreateTable, InvSyncFinish,
       InvSyncTables, InvSyncAdvance, InvSyncFails DEF SyncStep

(* A stage adds at most its own step to what every table should have had.  *)
LEMMA RequiredGrows ==
  ASSUME TypeOK, status \notin {"analyzing_base", "migrated"},
         status' = NextStage(status), base' = base
  PROVE  Required' \subseteq Required \cup StepOf(NextStage(status))
  BY DEF TypeOK, Required, Passed, NextStage, StepOf, StageStep, Steps,
         Stages!Before, Stages!Stage

(* A stage's jobs cover every table, unless Powerbase created the base.    *)
LEMMA StageJobs ==
  ASSUME NEW s, NEW new, NEW b
  PROVE  /\ \A j \in JobsOf(s, new, b) : j.step \in StepOf(s) /\ j.batch = b
         /\ ~ base.created => \A t \in known, step \in StepOf(s) :
              \E j \in JobsOf(s, new, b) : j.step = step /\ j.table = t
  <1>1. \A j \in [step : StepOf(s), table : known, batch : {b}] :
          j.step \in StepOf(s) /\ j.batch = b
    OBVIOUS
  <1> DEFINE k(step, t) == [step |-> step, table |-> t, batch |-> b]
  <1>2. \A t \in known, step \in StepOf(s) :
          k(step, t) \in [step : StepOf(s), table : known, batch : {b}]
    OBVIOUS
  <1>3. \A t, step : k(step, t).step = step /\ k(step, t).table = t
    OBVIOUS
  <1> HIDE DEF k
  <1>4. QED
    BY <1>1, <1>2, <1>3 DEF JobsOf

(* What enqueueing a set of jobs leaves behind: each is queued, batched or *)
(* not, and nothing else is.                                               *)
LEMMA Enqueued ==
  ASSUME NEW S, NEW b, NEW new, Enqueue(S, b, new, jobs, {})
  PROVE  /\ jobs \subseteq jobs'
         /\ \A j \in S : \E k \in jobs' : k.step = j.step /\ k.table = j.table
         /\ \A j \in jobs' : \/ j \in jobs \cup {k \in jobs' : k.batch = NoBatch}
                             \/ j \in S /\ batches' = {[id |-> b, new |-> new]}
         /\ batches' \in {{}, {[id |-> b, new |-> new]}}
  <1> DEFINE fresh == {j \in S : ~ Queued(j)}
             c == [id |-> b, new |-> new]
  <1>1. \A j \in S : j \in fresh \/ \E k \in jobs : k.step = j.step /\ k.table = j.table
    BY DEF Queued
  <1>2. /\ \A j \in Unbatched(fresh) : j.batch = NoBatch
        /\ \A j \in fresh : \E k \in Unbatched(fresh) : k.step = j.step /\ k.table = j.table
    BY UnbatchedJobs
  <1>3. \/ jobs' = jobs \cup S /\ batches' = {c}
        \/ jobs' = jobs \cup Unbatched(fresh) /\ batches' = {}
    BY DEF Enqueue
  <1> HIDE DEF fresh, c
  <1>4. CASE jobs' = jobs \cup S /\ batches' = {c}
    BY <1>4 DEF c
  <1>5. CASE jobs' = jobs \cup Unbatched(fresh) /\ batches' = {}
    BY <1>1, <1>2, <1>5
  <1>6. QED
    BY <1>3, <1>4, <1>5

(* A completed batch of a migration: what holds when its callback runs.    *)
LEMMA CallbackContext ==
  ASSUME IInv, NEW c \in batches, Attempted(c)
  PROVE  /\ batches \ {c} = {} /\ worker[TRUE] = Idle /\ worker[FALSE] = Idle
         /\ queue = {} /\ ~ base.created /\ status # "analyzing_base"
         /\ \A j \in jobs : j.batch = NoBatch
  <1>1. batches # {}
    OBVIOUS
  <1>2. /\ worker[TRUE] = Idle /\ worker[FALSE] = Idle /\ status # "analyzing_base"
        /\ queue = {} /\ ~ base.created
    BY <1>1 DEF IInv, Inv, OneBatch, SyncPhase, Fresh
  <1>3. \A d \in batches : d = c
    BY DEF IInv, Inv, OneBatch
  <1>4. \A j \in jobs : j.batch = NoBatch
    BY <1>2, <1>3, IdlePc DEF IInv, Inv, OneBatch, Attempted
  <1>5. QED
    BY <1>2, <1>3, <1>4

(* The callback finds no job waiting for its first attempt.                *)
LEMMA InvBatchComplete ==
  ASSUME IInv, NEW c \in batches, BatchComplete(c)
  PROVE  Inv'
  <1>1. /\ worker[TRUE] = Idle /\ worker[FALSE] = Idle /\ queue = {} /\ ~ base.created
        /\ status # "analyzing_base" /\ \A j \in jobs : j.batch = NoBatch
    BY CallbackContext DEF BatchComplete
  <1>2. batches \ {c} = {}
    BY CallbackContext DEF BatchComplete
  <1>3. UNCHANGED <<base, known, done, queue, worker, lost>>
    BY DEF BatchComplete, envVars
  <1>4. OnComplete(status, c.new, jobs, {})
    BY <1>2 DEF BatchComplete, OnComplete
  <1>5. SyncPhase'
    BY <1>1, <1>3, IdlePc DEF SyncPhase
  <1>6. CASE status = "migrated"
    <2>1. jobs' = jobs /\ batches' = {} /\ status' = status
      BY <1>4, <1>6 DEF OnComplete
    <2>2. polled' = polled
      BY <1>4, <1>6 DEF OnComplete
    <2>3. OneBatch' /\ StageBarrier' /\ PolledLast'
      BY <1>1, <1>6, <2>1, <2>2 DEF OneBatch, StageBarrier, PolledLast
    <2>4. Required' = Required
      BY <1>3, <2>1 DEF Required, Passed, Stages!Before
    <2>5. NothingForgotten'
      BY <1>3, <2>1, <2>4 DEF IInv, Inv, NothingForgotten
    <2>6. QED
      BY <1>5, <2>3, <2>5 DEF Inv
  <1>7. CASE status # "migrated" /\ NextStage(status) = "migrated"
    <2>1. jobs' = jobs /\ batches' = {} /\ status' = "migrated"
      BY <1>4, <1>7 DEF OnComplete
    <2>2. OneBatch' /\ StageBarrier' /\ PolledLast'
      BY <1>1, <2>1 DEF OneBatch, StageBarrier, PolledLast
    <2>3. Required' \subseteq Required
      <3>1. StepOf("migrated") = {}
        BY DEF StepOf, StageStep
      <3>2. QED
        BY <1>1, <1>3, <1>7, <2>1, <3>1, RequiredGrows DEF IInv
    <2>4. NothingForgotten'
      BY <1>3, <2>1, <2>3 DEF IInv, Inv, NothingForgotten
    <2>5. QED
      BY <1>5, <2>2, <2>4 DEF Inv
  <1>8. CASE status # "migrated" /\ NextStage(status) # "migrated"
    <2> DEFINE s == NextStage(status)
    <2>1. PICK b \in FreeBatch(jobs, {}) : Enqueue(JobsOf(s, c.new, b), b, c.new, jobs, {})
      BY <1>4, <1>8 DEF OnComplete
    <2> DEFINE S == JobsOf(s, c.new, b)
               d == [id |-> b, new |-> c.new]
    <2>2. status' = s
      BY <1>4, <1>8 DEF OnComplete
    <2>3. polled' = polled
      BY <1>4, <1>8 DEF OnComplete
    <2>4. /\ \A j \in S : j.step \in StepOf(s) /\ j.batch = b
          /\ \A t \in known, step \in StepOf(s) : \E j \in S : j.step = step /\ j.table = t
      BY <1>1, StageJobs
    <2>5. /\ jobs \subseteq jobs'
          /\ \A j \in S : \E k \in jobs' : k.step = j.step /\ k.table = j.table
          /\ \A j \in jobs' : \/ j \in jobs \cup {k \in jobs' : k.batch = NoBatch}
                              \/ j \in S /\ batches' = {d}
          /\ batches' \in {{}, {d}}
      BY <2>1, Enqueued
    <2>6. d.id = b
      OBVIOUS
    <2> HIDE DEF S, d, s
    <2>7. s # "analyzing_base"
      BY <1>1 DEF s, NextStage
    <2>8. OneBatch'
      BY <1>1, <1>3, <2>2, <2>4, <2>5, <2>6, <2>7 DEF OneBatch
    <2>9. StageBarrier'
      BY <1>1, <2>2, <2>4, <2>5 DEF StageBarrier, StepOf
    <2>10. PolledLast'
      BY <1>8, <2>3 DEF IInv, Inv, PolledLast
    <2>11. Required' \subseteq Required \cup StepOf(s)
      BY <1>1, <1>3, <1>8, <2>2, RequiredGrows DEF IInv, s
    <2>12. NothingForgotten'
      <3> SUFFICES ASSUME NEW t \in known, NEW step \in Required'
                   PROVE  \/ step \in done[t]
                          \/ \E j \in jobs' : j.step = step /\ j.table = t
                          \/ <<step, t>> \in lost
        BY <1>3 DEF NothingForgotten
      <3>1. CASE step \in Required
        BY <2>5, <3>1 DEF IInv, Inv, NothingForgotten
      <3>2. CASE step \in StepOf(s)
        BY <2>4, <2>5, <3>2
      <3>3. QED
        BY <2>11, <3>1, <3>2
    <2>13. QED
      BY <1>5, <2>8, <2>9, <2>10, <2>12 DEF Inv
  <1>9. QED
    BY <1>6, <1>7, <1>8

(* What a callback that fails did not push is lost.                        *)
LEMMA InvCallbackFails ==
  ASSUME IInv, NEW c \in batches, CallbackFails(c)
  PROVE  Inv'
  <1>1. /\ worker[TRUE] = Idle /\ worker[FALSE] = Idle /\ queue = {} /\ ~ base.created
        /\ status # "analyzing_base" /\ \A j \in jobs : j.batch = NoBatch
    BY CallbackContext DEF CallbackFails
  <1>2. UNCHANGED <<base, known, done, batches, queue, worker>> /\ polled' = polled
    BY DEF CallbackFails, envVars
  <1> DEFINE s == NextStage(status)
             all == JobsOf(s, c.new, NoBatch)
  <1>3. OnCompleteFails(status, c.new)
    BY DEF CallbackFails
  <1>4. status # "migrated" /\ status' = s
    BY <1>3 DEF OnCompleteFails
  <1>5. PICK pushed \in SUBSET {j \in all : ~ Queued(j)} :
          /\ jobs' = jobs \cup pushed
          /\ lost' = lost \cup {<<j.step, j.table>> : j \in all \ pushed}
    BY <1>3 DEF OnCompleteFails
  <1>6. /\ \A j \in all : j.batch = NoBatch
        /\ \A t \in known, step \in StepOf(s) : \E j \in all : j.step = step /\ j.table = t
    BY <1>1, StageJobs
  <1>7. s # "analyzing_base"
    BY <1>1 DEF NextStage
  <1>8. Required' \subseteq Required \cup StepOf(s)
    BY <1>1, <1>2, <1>4, RequiredGrows DEF IInv
  <1> HIDE DEF s, all
  <1>9. \A j \in jobs' : j.batch = NoBatch
    BY <1>1, <1>5, <1>6
  <1>10. SyncPhase' /\ OneBatch' /\ StageBarrier'
    BY <1>1, <1>2, <1>4, <1>7, <1>9, IdlePc DEF IInv, Inv, SyncPhase, OneBatch, StageBarrier
  <1>11. PolledLast'
    BY <1>2, <1>4 DEF IInv, Inv, PolledLast
  <1>12. NothingForgotten'
    <2> SUFFICES ASSUME NEW t \in known, NEW step \in Required'
                 PROVE  \/ step \in done[t]
                        \/ \E j \in jobs' : j.step = step /\ j.table = t
                        \/ <<step, t>> \in lost'
      BY <1>2 DEF NothingForgotten
    <2>1. CASE step \in Required
      BY <1>5, <2>1 DEF IInv, Inv, NothingForgotten
    <2>2. CASE step \in StepOf(s)
      BY <1>5, <1>6, <2>2
    <2>3. QED
      BY <1>8, <2>1, <2>2
  <1>13. QED
    BY <1>10, <1>11, <1>12 DEF Inv

(* A step of a job leaves the sync and the stage alone; what remains to be *)
(* shown is that no table is forgotten and no job is adopted by a batch.   *)
LEMMA InvJobStep ==
  ASSUME IInv, NEW j \in jobs, JobSucceeds(j) \/ JobFails(j) \/ JobLost(j)
  PROVE  SyncPhase' /\ PolledLast'
  <1>1. UNCHANGED <<base, status, worker, queue, known>> /\ polled' = polled
    BY DEF JobSucceeds, JobFails, JobLost, envVars, tableVars
  <1>2. batches' \subseteq batches
    BY DEF JobSucceeds, JobFails, JobLost
  <1>3. jobs # {}
    OBVIOUS
  <1>4. SyncPhase'
    BY <1>1, <1>2, <1>3 DEF IInv, Inv, SyncPhase, Fresh
  <1>5. QED
    BY <1>1, <1>4 DEF IInv, Inv, PolledLast

(* A job that is gone has done its step.                                   *)
LEMMA InvJobSucceeds ==
  ASSUME IInv, NEW j \in jobs, JobSucceeds(j)
  PROVE  Inv'
  <1>1. /\ jobs' = jobs \ {j} /\ done' = [done EXCEPT ![j.table] = @ \cup {j.step}]
        /\ UNCHANGED <<base, known, batches, status, worker, lost>>
    BY DEF JobSucceeds, envVars
  <1>2. OneBatch' /\ StageBarrier'
    BY <1>1 DEF IInv, Inv, OneBatch, StageBarrier, StepOf
  <1>3. NothingForgotten'
    <2>1. Required' = Required
      BY <1>1 DEF Required, Passed, Stages!Before
    <2> SUFFICES ASSUME NEW t \in known, NEW step \in Required
                 PROVE  \/ step \in done'[t]
                        \/ \E k \in jobs' : k.step = step /\ k.table = t
                        \/ <<step, t>> \in lost
      BY <1>1, <2>1 DEF NothingForgotten
    <2>2. t \in Tables /\ j.table \in Tables /\ done[t] \subseteq done'[t]
      BY <1>1 DEF IInv, TypeOK, Job
    <2>3. CASE j.step = step /\ j.table = t
      BY <1>1, <2>2, <2>3 DEF IInv, TypeOK
    <2>4. CASE ~ (j.step = step /\ j.table = t)
      BY <1>1, <2>2, <2>4 DEF IInv, Inv, NothingForgotten
    <2>5. QED
      BY <2>3, <2>4
  <1>4. QED
    BY <1>2, <1>3, InvJobStep DEF Inv

(* A job that failed waits for its retry, outside of its batch.            *)
LEMMA InvJobFails ==
  ASSUME IInv, NEW j \in jobs, JobFails(j)
  PROVE  Inv'
  <1>1. /\ jobs' = (jobs \ {j}) \cup Unbatched({j})
        /\ UNCHANGED <<base, known, done, batches, status, worker, lost>>
    BY DEF JobFails, envVars
  <1>2. /\ \A k \in Unbatched({j}) : k.batch = NoBatch
        /\ \E k \in Unbatched({j}) : k.step = j.step /\ k.table = j.table
    BY UnbatchedJobs
  <1>3. OneBatch' /\ StageBarrier'
    BY <1>1, <1>2 DEF IInv, Inv, OneBatch, StageBarrier, StepOf
  <1>4. NothingForgotten'
    <2>1. Required' = Required
      BY <1>1 DEF Required, Passed, Stages!Before
    <2>2. \A i \in jobs : \E k \in jobs' : k.step = i.step /\ k.table = i.table
      BY <1>1, <1>2
    <2> SUFFICES ASSUME NEW t \in known, NEW step \in Required
                 PROVE  \/ step \in done[t]
                        \/ \E k \in jobs' : k.step = step /\ k.table = t
                        \/ <<step, t>> \in lost
      BY <1>1, <2>1 DEF NothingForgotten
    <2>3. QED
      BY <2>2 DEF IInv, Inv, NothingForgotten
  <1>5. QED
    BY <1>3, <1>4, InvJobStep DEF Inv

(* A job that is lost is recorded as such.                                 *)
LEMMA InvJobLost ==
  ASSUME IInv, NEW j \in jobs, JobLost(j)
  PROVE  Inv'
  <1>1. /\ lost' = lost \cup {<<j.step, j.table>>}
        /\ UNCHANGED <<base, known, done, status, worker>>
    BY DEF JobLost, envVars, tableVars
  <1>2. OneBatch' /\ StageBarrier'
    <2>1. CASE jobs' = jobs \ {j} /\ UNCHANGED batches
      BY <1>1, <2>1 DEF IInv, Inv, OneBatch, StageBarrier, StepOf
    <2>2. CASE /\ jobs' = Closed(j.batch) \ Unbatched({j})
               /\ batches' = {c \in batches : c.id # j.batch}
      <3>1. \A k \in jobs' : k.batch # NoBatch => k \in jobs /\ k.batch # j.batch
        BY <2>2, ClosedJobs
      <3>2. QED
        BY <1>1, <2>2, <3>1 DEF IInv, Inv, OneBatch, StageBarrier, StepOf
    <2>3. QED
      BY <2>1, <2>2 DEF JobLost
  <1>3. \A i \in jobs : \/ i.step = j.step /\ i.table = j.table
                       \/ \E k \in jobs' : k.step = i.step /\ k.table = i.table
    <2>1. CASE jobs' = jobs \ {j}
      BY <2>1
    <2>2. CASE jobs' = Closed(j.batch) \ Unbatched({j})
      <3>1. \A i \in jobs : \E k \in Closed(j.batch) : k.step = i.step /\ k.table = i.table
        BY ClosedJobs
      <3>2. \A k \in Unbatched({j}) : k.step = j.step /\ k.table = j.table
        BY UnbatchedJobs
      <3>3. QED
        BY <2>2, <3>1, <3>2
    <2>3. QED
      BY <2>1, <2>2 DEF JobLost
  <1>4. NothingForgotten'
    <2>1. Required' = Required
      BY <1>1 DEF Required, Passed, Stages!Before
    <2> SUFFICES ASSUME NEW t \in known, NEW step \in Required
                 PROVE  \/ step \in done[t]
                        \/ \E k \in jobs' : k.step = step /\ k.table = t
                        \/ <<step, t>> \in lost'
      BY <1>1, <2>1 DEF NothingForgotten
    <2>2. QED
      BY <1>1, <1>3 DEF IInv, Inv, NothingForgotten
  <1>5. QED
    BY <1>2, <1>4, InvJobStep DEF Inv

(* Every step of a migration keeps the invariant.                          *)
LEMMA InvNext == IInv /\ [Next]_vars => Inv'
  <1> SUFFICES ASSUME IInv, [Next]_vars PROVE Inv'
    OBVIOUS
  <1>1. CASE MigrationWorker
    <2>1. /\ queue = {"migrate"} /\ status = "analyzing_base"
      BY <1>1 DEF MigrationWorker, IInv, Inv, SyncPhase
    <2>2. queue' = {"sync_new"}
      BY <1>1, <2>1 DEF MigrationWorker
    <2>3. UNCHANGED <<base, known, done, jobs, batches, status, worker, lost>> /\ polled' = polled
      BY <1>1 DEF MigrationWorker, envVars, tableVars, jobVars
    <2>4. SyncPhase'
      BY <2>1, <2>2, <2>3 DEF IInv, Inv, SyncPhase, Fresh
    <2>5. Required' = Required
      BY <2>3 DEF Required, Passed, Stages!Before
    <2>6. QED
      BY <2>3, <2>4, <2>5
         DEF IInv, Inv, OneBatch, PolledLast, StageBarrier, StepOf, NothingForgotten
  <1>2. CASE DatabaseJobLost
    <2>1. queue' = {}
      BY <1>2 DEF DatabaseJobLost, IInv, Inv, SyncPhase
    <2>2. UNCHANGED <<base, known, done, jobs, batches, status, worker, lost>> /\ polled' = polled
      BY <1>2 DEF DatabaseJobLost, envVars, tableVars, jobVars
    <2>3. SyncPhase'
      BY <2>1, <2>2 DEF IInv, Inv, SyncPhase, Fresh
    <2>4. Required' = Required
      BY <2>2 DEF Required, Passed, Stages!Before
    <2>5. QED
      BY <2>2, <2>3, <2>4
         DEF IInv, Inv, OneBatch, PolledLast, StageBarrier, StepOf, NothingForgotten
  <1>3. ASSUME NEW new \in BOOLEAN, SyncStep(new) \/ SyncFails(new)
        PROVE  Inv'
    BY <1>3, InvSync
  <1>4. ASSUME NEW c \in batches, BatchComplete(c) \/ CallbackFails(c)
        PROVE  Inv'
    BY <1>4, InvBatchComplete, InvCallbackFails
  <1>5. ASSUME NEW j \in jobs, JobSucceeds(j) \/ JobFails(j) \/ JobLost(j)
        PROVE  Inv'
    BY <1>5, InvJobSucceeds, InvJobFails, InvJobLost
  <1>6. CASE UNCHANGED vars
    <2>1. UNCHANGED <<base, known, done, jobs, batches, status, worker, queue, lost>>
          /\ polled' = polled
      BY <1>6 DEF vars
    <2>2. SyncPhase' /\ OneBatch' /\ PolledLast' /\ StageBarrier'
      BY <2>1 DEF IInv, Inv, SyncPhase, Fresh, OneBatch, PolledLast, StageBarrier, StepOf
    <2>3. Required' = Required
      BY <2>1 DEF Required, Passed, Stages!Before
    <2>4. QED
      BY <2>1, <2>2, <2>3 DEF IInv, Inv, NothingForgotten
  <1>7. QED
    BY <1>1, <1>2, <1>3, <1>4, <1>5, <1>6 DEF Next

(* The inductive invariant holds throughout a first migration.             *)
THEOREM Invariant == Spec => []IInv
  <1>1. Init => IInv
    BY TypeInit, InvInit DEF IInv
  <1>2. IInv /\ [Next]_vars => IInv'
    BY TypeNext, InvNext DEF IInv
  <1>3. QED
    BY <1>1, <1>2, PTL DEF Spec

(* Whatever a table still lacks is queued for it, or a fault destroyed it. *)
THEOREM NothingIsForgotten == Spec => []NothingForgotten
  <1>1. IInv => NothingForgotten
    BY DEF IInv, Inv
  <1>2. QED
    BY <1>1, Invariant, PTL

(* A job awaiting its first attempt is one of the current stage.           *)
THEOREM StagesAreBarriers == Spec => []StageBarrier
  <1>1. IInv => StageBarrier
    BY DEF IInv, Inv
  <1>2. QED
    BY <1>1, Invariant, PTL

-----------------------------------------------------------------------------
(* A migration that meets no fault.                                        *)

(* The tables to create are those that are missing, until none is.         *)
TablesKnown ==
  \/ queue # {}
  \/ worker[TRUE].pc = "create" /\ known \subseteq remote /\ worker[TRUE].todo = remote \ known
  \/ worker[TRUE].pc # "create" /\ known = remote

(* Every job has a batch to wait for it, and can be done.                  *)
Undisturbed ==
  /\ lost = {} /\ TablesKnown
  /\ \A j \in jobs : j.batch # NoBatch /\ j.table \in known
  /\ \A c \in batches : c.new
  /\ status = "migrated" => polled /\ migrated = known

CleanInv ==
  /\ base.created => remote = {}
  /\ migrated \subseteq known
  /\ faults = 0 => Undisturbed

(* A fault is remembered.                                                  *)
LEMMA FaultCounts ==
  ASSUME TypeOK, Fault
  PROVE  faults' # 0
BY MigrationAssumption DEF TypeOK, Fault

LEMMA StagesOfSteps ==
  /\ StepOf("migrated") = {}
  /\ \A s : "records" \in StepOf(s) => "columns" \notin StepOf(s)
BY DEF StepOf, StageStep

LEMMA NumberedBatch == \A b \in BatchId : b # NoBatch
BY DEF BatchId, NoBatch

(* The jobs that wait are jobs of the current stage, so whatever a table   *)
(* should have had before is done.                                         *)
LEMMA StepsDone ==
  ASSUME IInv, Undisturbed, NEW t \in known, NEW s \in Required, s \notin StepOf(status)
  PROVE  s \in done[t]
BY DEF IInv, Inv, NothingForgotten, StageBarrier, Undisturbed

LEMMA JobsCanBeDone ==
  ASSUME IInv, Undisturbed, NEW j \in jobs
  PROVE  CanDo(j) /\ status # "migrated"
<1>1. j.step \in StepOf(status) /\ j.table \in known
  BY DEF Undisturbed, IInv, Inv, StageBarrier
<1>2. j.table \in remote
  <2>1. queue = {}
    BY DEF IInv, Inv, SyncPhase, Fresh
  <2>2. QED
    BY <1>1, <2>1 DEF Undisturbed, TablesKnown
<1>3. "columns" \in Required
  BY DEF Required, Steps
<1>4. j.step = "records" => "columns" \in done[j.table]
  BY <1>1, <1>3, StagesOfSteps, StepsDone
<1>5. QED
  BY <1>1, <1>2, <1>4, StagesOfSteps DEF CanDo

(* The callback finds no job left, and begins the next stage.              *)
LEMMA CleanComplete ==
  ASSUME TypeOK, NEW s, jobs = {}, OnComplete(s, TRUE, {}, {}), migrated \subseteq known,
         known = remote, s = "migrated" => polled /\ migrated = known /\ status = "migrated"
  PROVE  /\ \A j \in jobs' : j.batch # NoBatch /\ j.table \in known
         /\ \A c \in batches' : c.new
         /\ status' = "migrated" => polled' /\ migrated' = known
         /\ migrated' \subseteq known
<1>1. CASE s = "migrated"
  BY <1>1 DEF OnComplete
<1>2. CASE s # "migrated" /\ NextStage(s) = "migrated"
  BY <1>2 DEF OnComplete
<1>3. CASE s # "migrated" /\ NextStage(s) # "migrated"
  <2>1. /\ status' = NextStage(s) /\ UNCHANGED <<migrated, polled>>
        /\ \E b \in FreeBatch({}, {}) : Enqueue(JobsOf(NextStage(s), TRUE, b), b, TRUE, {}, {})
    BY <1>3 DEF OnComplete
  <2>2. PICK b \in FreeBatch({}, {}) : Enqueue(JobsOf(NextStage(s), TRUE, b), b, TRUE, {}, {})
    BY <2>1
  <2> DEFINE S == JobsOf(NextStage(s), TRUE, b)
  <2>3. b \in BatchId /\ b # NoBatch
    BY NumberedBatch DEF FreeBatch
  <2>4. \A j \in S : j.batch = b /\ j.table \in known
    BY DEF JobsOf
  <2>5. {j \in S : ~ Queued(j)} = S
    BY DEF Queued
  <2>6. Enqueue(S, b, TRUE, {}, {})
    BY <2>2
  <2> HIDE DEF S
  <2>7. CASE S = {}
    <3>1. jobs' = Unbatched({}) /\ batches' = {}
      BY <2>6, <2>5, <2>7 DEF Enqueue
    <3>2. jobs' = {}
      BY <3>1 DEF Unbatched
    <3>3. QED
      BY <1>3, <2>1, <3>1, <3>2
  <2>8. CASE S # {}
    <3>1. jobs' = S /\ batches' = {[id |-> b, new |-> TRUE]}
      BY <2>6, <2>5, <2>8 DEF Enqueue
    <3>2. \A j \in jobs' : j.batch # NoBatch /\ j.table \in known
      BY <2>3, <2>4, <3>1
    <3>3. \A d \in batches' : d.new
      BY <3>1
    <3>4. QED
      BY <1>3, <2>1, <3>2, <3>3
  <2>9. QED
    BY <2>7, <2>8
<1>4. QED
  BY <1>1, <1>2, <1>3

LEMMA CleanSync ==
  ASSUME IInv, CleanInv, SyncStep(TRUE)
  PROVE  CleanInv'
<1>1. UNCHANGED <<base, remote, faults, lost>>
  BY DEF SyncStep, SyncStart, SyncNotified, SyncCreateTable, SyncFinish, SyncTables, SyncAdvance,
         SyncRaises, IInv, Inv, SyncPhase, Fresh, envVars
<1>2. CASE SyncStart(TRUE)
  <2>1. /\ UNCHANGED <<jobs, batches, known, migrated, polled>> /\ status' # "migrated"
        /\ Fresh /\ queue' = {} /\ status = "analyzing_base"
    BY <1>2 DEF SyncStart, SyncJob, jobVars, tableVars, IInv, Inv, SyncPhase
  <2>2. TablesKnown'
    <3>1. CASE base.created
      <4>1. worker' = [worker EXCEPT ![TRUE] = [pc |-> "notify"]]
        BY <1>2, <3>1 DEF SyncStart
      <4>2. worker'[TRUE].pc = "notify"
        BY <4>1 DEF IInv, TypeOK
      <4>3. QED
        BY <1>1, <2>1, <3>1, <4>2 DEF CleanInv, Fresh, TablesKnown
    <3>2. CASE ~ base.created /\ remote = known
      <4>1. worker' = [worker EXCEPT ![TRUE] = [pc |-> "tables", seen |-> status]]
        BY <1>2, <3>2 DEF SyncStart
      <4>2. worker'[TRUE].pc = "tables"
        BY <4>1 DEF IInv, TypeOK
      <4>3. QED
        BY <1>1, <2>1, <3>2, <4>2 DEF TablesKnown
    <3>3. CASE ~ base.created /\ remote # known
      <4>1. PICK b \in FreeBatch(jobs, batches) :
              worker' = [worker EXCEPT ![TRUE] =
                [pc |-> "create", todo |-> remote \ known, drop |-> known \ remote,
                 batch |-> b, pushed |-> FALSE]]
        BY <1>2, <3>3 DEF SyncStart
      <4>2. worker'[TRUE].pc = "create" /\ worker'[TRUE].todo = remote \ known
        BY <4>1 DEF IInv, TypeOK
      <4>3. QED
        BY <1>1, <2>1, <4>2 DEF TablesKnown, Fresh
    <3>4. QED
      BY <3>1, <3>2, <3>3
  <2>3. QED
    BY <1>1, <2>1, <2>2 DEF CleanInv, Undisturbed
<1>3. CASE SyncNotified(TRUE)
  <2>1. /\ UNCHANGED <<jobs, batches, known, migrated>> /\ polled' = TRUE /\ known = {}
        /\ worker[TRUE].pc = "notify"
    BY <1>3 DEF SyncNotified, jobVars, tableVars, IInv, Inv, SyncPhase, Fresh
  <2>2. queue = {} /\ worker'[TRUE].pc = "idle"
    BY <1>3, <2>1, IdlePc DEF SyncNotified, IInv, Inv, TypeOK, SyncPhase
  <2>3. QED
    BY <1>1, <2>1, <2>2 DEF CleanInv, Undisturbed, TablesKnown
<1>4. CASE SyncCreateTable(TRUE)
  <2> DEFINE w == worker[TRUE]
  <2>1. PICK t \in w.todo :
          /\ known' = known \cup {t}
          /\ jobs' = jobs \cup {[step |-> "columns", table |-> t, batch |-> w.batch]}
          /\ worker' = [worker EXCEPT ![TRUE] =
               [pc |-> "create", todo |-> @.todo \ {t}, drop |-> @.drop,
                batch |-> @.batch, pushed |-> TRUE]]
    BY <1>4 DEF SyncCreateTable
  <2>2. /\ w.pc = "create" /\ status' = "migrating_metadata"
        /\ UNCHANGED <<batches, migrated, queue>>
    BY <1>4 DEF SyncCreateTable, IInv, Inv, SyncPhase
  <2>3. w.batch # NoBatch
    <3>1. w \in Creating
      BY <2>2, WorkerType DEF IInv
    <3>2. QED
      BY <3>1, NumberedBatch DEF Creating
  <2>4. worker'[TRUE].pc = "create" /\ worker'[TRUE].todo = w.todo \ {t}
    BY <2>1 DEF IInv, TypeOK
  <2>5. queue = {}
    BY <2>2, IdlePc DEF IInv, Inv, SyncPhase
  <2>6. TablesKnown => TablesKnown'
    BY <1>1, <2>1, <2>2, <2>4, <2>5 DEF TablesKnown
  <2>7. faults = 0 => \A j \in jobs' : j.batch # NoBatch /\ j.table \in known'
    <3> DEFINE n == [step |-> "columns", table |-> t, batch |-> w.batch]
    <3>1. n.batch # NoBatch /\ n.table \in known' /\ jobs' = jobs \cup {n}
      BY <2>1, <2>3
    <3> HIDE DEF n
    <3>2. QED
      BY <2>1, <3>1 DEF CleanInv, Undisturbed
  <2>8. QED
    BY <1>1, <2>1, <2>2, <2>6, <2>7 DEF CleanInv, Undisturbed
<1>5. CASE SyncFinish(TRUE)
  <2> DEFINE w == worker[TRUE]
  <2>1. /\ w.pc = "create" /\ w.todo = {} /\ w.drop = {} /\ status' = "migrating_metadata"
        /\ known' = known /\ migrated' = migrated /\ UNCHANGED <<jobs, queue>>
        /\ batches' \subseteq batches \cup {[id |-> w.batch, new |-> TRUE]}
    BY <1>5 DEF SyncFinish, IInv, Inv, SyncPhase
  <2>2. queue = {}
    BY <2>1, IdlePc DEF IInv, Inv, SyncPhase
  <2>3. worker'[TRUE].pc = "idle"
    BY <1>5, IdlePc DEF SyncFinish, IInv, TypeOK
  <2>4. TablesKnown => TablesKnown'
    BY <1>1, <2>1, <2>2, <2>3 DEF TablesKnown
  <2>5. (\A c \in batches : c.new) => \A c \in batches' : c.new
    <3> DEFINE n == [id |-> w.batch, new |-> TRUE]
    <3>1. n.new /\ batches' \subseteq batches \cup {n}
      BY <2>1
    <3> HIDE DEF n
    <3>2. QED
      BY <3>1
  <2>6. QED
    BY <1>1, <2>1, <2>4, <2>5 DEF CleanInv, Undisturbed
<1>6. CASE SyncTables(TRUE)
  <2>1. /\ known = {} /\ jobs = {} /\ batches = {} /\ worker[TRUE].pc = "tables"
        /\ UNCHANGED <<known, status, queue>> /\ status = "analyzing_base"
        /\ migrated' \subseteq migrated \cup known
    BY <1>6 DEF SyncTables, SyncInPlace, IInv, Inv, SyncPhase, Fresh
  <2>2. PICK b \in FreeBatch(jobs, batches) : Enqueue(IndexJobs(known, b), b, TRUE, jobs, batches)
    BY <1>6 DEF SyncTables
  <2>3. IndexJobs(known, b) = {}
    BY <2>1 DEF IndexJobs, Unsynced, Bare
  <2>4. jobs' = {} /\ batches' = {}
    BY <2>1, <2>2, <2>3 DEF Enqueue, Unbatched
  <2>5. queue = {} /\ worker'[TRUE].pc \in {"idle", "advance"}
    BY <1>6, <2>1, IdlePc DEF SyncTables, IInv, Inv, TypeOK, SyncPhase
  <2>6. QED
    BY <1>1, <2>1, <2>4, <2>5 DEF CleanInv, Undisturbed, TablesKnown
<1>7. CASE SyncAdvance(TRUE)
  <2>1. /\ jobs = {} /\ batches = {} /\ worker[TRUE].pc = "advance"
        /\ worker[TRUE].seen = "analyzing_base" /\ status = "analyzing_base"
        /\ UNCHANGED <<known, queue>>
    BY <1>7 DEF SyncAdvance, IInv, Inv, SyncPhase, Fresh
  <2>2. queue = {} /\ worker'[TRUE].pc = "idle"
    BY <1>7, <2>1, IdlePc DEF SyncAdvance, IInv, Inv, TypeOK, SyncPhase
  <2>3. OnComplete("analyzing_base", TRUE, {}, {})
    BY <1>7, <2>1 DEF SyncAdvance
  <2>4. migrated' \subseteq known
    BY <2>3 DEF OnComplete, CleanInv
  <2>5. CASE faults = 0
    <3>1. known = remote
      BY <2>1, <2>2, <2>5 DEF CleanInv, Undisturbed, TablesKnown
    <3>2. /\ \A j \in jobs' : j.batch # NoBatch /\ j.table \in known
          /\ \A c \in batches' : c.new
          /\ status' = "migrated" => polled' /\ migrated' = known
      BY <2>1, <2>3, <3>1, CleanComplete DEF CleanInv, IInv
    <3>3. TablesKnown'
      BY <1>1, <2>1, <2>2, <3>1 DEF TablesKnown
    <3>4. lost' = {}
      BY <1>1, <2>5 DEF CleanInv, Undisturbed
    <3>5. QED
      BY <1>1, <2>1, <2>4, <3>2, <3>3, <3>4 DEF CleanInv, Undisturbed
  <2>6. QED
    BY <1>1, <2>1, <2>4, <2>5 DEF CleanInv
<1>8. ~ SyncRaises(TRUE)
  BY DEF SyncRaises, IInv, Inv, SyncPhase, Fresh
<1>9. QED
  BY <1>2, <1>3, <1>4, <1>5, <1>6, <1>7, <1>8 DEF SyncStep

(* A step that is a fault ends what is said of a run without.              *)
LEMMA CleanFault ==
  ASSUME IInv, CleanInv, TypeOK',
         \/ DatabaseJobLost \/ (\E new \in BOOLEAN : SyncFails(new))
         \/ (\E c \in batches : CallbackFails(c)) \/ (\E j \in jobs : JobLost(j))
  PROVE  CleanInv'
<1>1. Fault /\ UNCHANGED <<base, remote>>
  BY DEF DatabaseJobLost, SyncFails, SyncAborts, CallbackFails, JobLost, envVars
<1>2. migrated' \subseteq known'
  <2>1. CASE DatabaseJobLost
    BY <2>1 DEF DatabaseJobLost, tableVars, CleanInv
  <2>2. ASSUME NEW new \in BOOLEAN, SyncFails(new) PROVE migrated' \subseteq known'
    BY <2>2 DEF SyncFails, SyncAborts, SyncInPlace, OnCompleteFails, CleanInv
  <2>3. ASSUME NEW c \in batches, CallbackFails(c) PROVE migrated' \subseteq known'
    BY <2>3 DEF CallbackFails, OnCompleteFails, CleanInv
  <2>4. ASSUME NEW j \in jobs, JobLost(j) PROVE migrated' \subseteq known'
    BY <2>4 DEF JobLost, tableVars, CleanInv
  <2>5. QED
    BY <2>1, <2>2, <2>3, <2>4
<1>3. faults' # 0
  BY <1>1, FaultCounts DEF IInv
<1>4. QED
  BY <1>1, <1>2, <1>3 DEF CleanInv

LEMMA CleanBatch ==
  ASSUME IInv, CleanInv, NEW c \in batches, BatchComplete(c)
  PROVE  CleanInv'
<1>1. /\ OnComplete(status, c.new, jobs, batches \ {c})
      /\ UNCHANGED <<base, remote, known, queue, worker, lost, faults>>
  BY DEF BatchComplete, envVars
<1>2. batches \ {c} = {} /\ queue = {} /\ worker[TRUE] = Idle /\ \A j \in jobs : j.batch = NoBatch
  BY CallbackContext DEF BatchComplete
<1>3. migrated' \subseteq known
  BY <1>1 DEF OnComplete, CleanInv
<1>4. CASE faults = 0
  <2>1. Undisturbed /\ jobs = {} /\ c.new
    BY <1>2, <1>4 DEF CleanInv, Undisturbed
  <2>2. c.new = TRUE
    BY <2>1 DEF IInv, TypeOK, Batch
  <2>3. known = remote
    BY <1>2, <2>1, IdlePc DEF Undisturbed, TablesKnown
  <2>4. OnComplete(status, TRUE, {}, {})
    BY <1>1, <1>2, <2>1, <2>2
  <2>5. QED
    BY <1>1, <1>3, <1>4, <2>1, <2>3, <2>4, CleanComplete
       DEF CleanInv, Undisturbed, TablesKnown, IInv
<1>5. QED
  BY <1>1, <1>3, <1>4 DEF CleanInv

LEMMA CleanJob ==
  ASSUME IInv, CleanInv, TypeOK', NEW j \in jobs, JobSucceeds(j) \/ JobFails(j)
  PROVE  CleanInv'
<1>1. UNCHANGED <<base, remote, known, batches, status, queue, worker, polled, lost>>
  BY DEF JobSucceeds, JobFails, envVars
<1>2. migrated' \subseteq known
  BY DEF JobSucceeds, JobFails, Marked, CanDo, CleanInv
<1>3. CASE faults' = 0
  <2>1. faults = 0 /\ JobSucceeds(j)
    <3>1. ~ Fault
      BY <1>3, FaultCounts DEF IInv
    <3>2. faults = 0
      BY <1>3, <3>1 DEF JobSucceeds, JobFails
    <3>3. CanDo(j)
      BY <3>2, JobsCanBeDone DEF CleanInv
    <3>4. QED
      BY <3>1, <3>2, <3>3 DEF JobFails
  <2>2. Undisturbed /\ status # "migrated" /\ jobs' \subseteq jobs
    BY <2>1, JobsCanBeDone DEF CleanInv, JobSucceeds
  <2>3. QED
    BY <1>1, <1>2, <2>2 DEF CleanInv, Undisturbed, TablesKnown
<1>4. QED
  BY <1>1, <1>2, <1>3 DEF CleanInv

LEMMA CleanNext == IInv /\ CleanInv /\ IInv' /\ [Next]_vars => CleanInv'
<1> SUFFICES ASSUME IInv, CleanInv, IInv', [Next]_vars PROVE CleanInv'
  OBVIOUS
<1>1. TypeOK'
  BY DEF IInv
<1>2. CASE MigrationWorker
  <2>1. queue' # {} /\ UNCHANGED <<base, remote, known, migrated, jobs, batches, status, polled, lost, faults>>
    BY <1>2 DEF MigrationWorker, IInv, Inv, SyncPhase, envVars, tableVars, jobVars
  <2>2. QED
    BY <2>1 DEF CleanInv, Undisturbed, TablesKnown
<1>3. ASSUME NEW new \in BOOLEAN, SyncStep(new) PROVE CleanInv'
  <2>1. new = TRUE
    BY <1>3, OnlyNewSync
  <2>2. QED
    BY <1>3, <2>1, CleanSync
<1>4. CASE UNCHANGED vars
  BY <1>4 DEF vars, CleanInv, Undisturbed, TablesKnown
<1>5. QED
  BY <1>1, <1>2, <1>3, <1>4, CleanFault, CleanBatch, CleanJob DEF Next

(* A migration that met no fault ends with every table complete and shown  *)
(* as migrated, and with the base's listener polled.                       *)
THEOREM MigrationEndsClean == Spec => []CleanFinish
<1>1. Init => CleanInv
  BY DEF Init, CleanInv, Undisturbed, TablesKnown
<1>2. IInv /\ CleanInv => CleanFinish
  <2> SUFFICES ASSUME IInv, CleanInv, status = "migrated", faults = 0
               PROVE  /\ polled /\ migrated = known /\ known = remote
                      /\ \A t \in known : Required \subseteq done[t]
    BY DEF CleanFinish
  <2>1. Undisturbed
    BY DEF CleanInv
  <2>2. known = remote
    BY <2>1 DEF Undisturbed, TablesKnown, IInv, Inv, SyncPhase
  <2>3. \A t \in known : Required \subseteq done[t]
    BY <2>1, StepsDone, StagesOfSteps
  <2>4. QED
    BY <2>1, <2>2, <2>3 DEF Undisturbed
<1>3. QED
  BY <1>1, <1>2, Invariant, CleanNext, PTL DEF Spec

-----------------------------------------------------------------------------
(* A migration implements MigrationStages. *)

(* The stage on_complete goes on to comes after the one it finds.          *)
LEMMA NextStageAdvances ==
  \A s \in Stages!Stage \ {"migrated"} : Stages!Before(s, NextStage(s))
  BY DEF NextStage, Stages!Before, Stages!Stage

(* A step that moves the status forward, and polls only a migrated base.   *)
LEMMA AdvanceStep ==
  ASSUME TypeOK, TypeOK', Stages!Before(status, status'), polled' => status' = "migrated"
  PROVE  Stages!Next
  BY DEF TypeOK, Stages!Next, Stages!Advance

(* What a run of the callback does to the status the user watches.         *)
LEMMA OnCompleteStep ==
  ASSUME IInv, TypeOK', NEW new, NEW B, OnComplete(status, new, jobs, B)
  PROVE  Stages!Next \/ UNCHANGED Stages!vars
  <1>1. CASE status = "migrated"
    BY <1>1 DEF OnComplete, Stages!vars
  <1>2. CASE status # "migrated"
    <2>1. ~ polled
      BY <1>2 DEF IInv, Inv, PolledLast
    <2>2. Stages!Before(status, NextStage(status)) /\ status' = NextStage(status)
      BY <1>2, NextStageAdvances DEF OnComplete, IInv, TypeOK
    <2>3. polled' => status' = "migrated"
      <3>1. CASE NextStage(status) = "migrated"
        BY <2>2, <3>1
      <3>2. CASE NextStage(status) # "migrated"
        <4>1. polled' = polled
          BY <1>2, <3>2 DEF OnComplete
        <4>2. QED
          BY <2>1, <4>1
      <3>3. QED
        BY <3>1, <3>2
    <2>4. QED
      BY <2>2, <2>3, AdvanceStep DEF IInv
  <1>3. QED
    BY <1>1, <1>2

(* A callback that fails has moved the base one stage on.                  *)
LEMMA OnCompleteFailsStep ==
  ASSUME IInv, TypeOK', NEW new, OnCompleteFails(status, new), polled' = polled
  PROVE  Stages!Next
  <1>1. status # "migrated" /\ status' = NextStage(status)
    BY DEF OnCompleteFails
  <1>2. ~ polled
    BY <1>1 DEF IInv, Inv, PolledLast
  <1>3. polled' => status' = "migrated"
    BY <1>2
  <1>4. Stages!Before(status, status')
    BY <1>1, NextStageAdvances DEF IInv, TypeOK
  <1>5. QED
    BY <1>3, <1>4, AdvanceStep DEF IInv

(* Every step of a SyncDatabaseWorker job advances a stage or none.        *)
LEMMA SyncImplements ==
  ASSUME IInv, TypeOK', NEW new \in BOOLEAN, SyncStep(new) \/ SyncFails(new)
  PROVE  Stages!Next \/ UNCHANGED Stages!vars
  <1>1. new = TRUE
    BY OnlyNewSync
  <1>2. CASE SyncStart(TRUE)
    <2>1. status = "analyzing_base"
      BY <1>2 DEF IInv, Inv, SyncPhase, SyncStart, SyncJob
    <2>2. ~ polled
      BY <2>1 DEF IInv, Inv, PolledLast
    <2>3. polled' = polled
      BY <1>2 DEF SyncStart
    <2>4. status' \in {"creating_listeners", "migrating_metadata"} \/ status' = status
      BY <1>2 DEF SyncStart
    <2>5. CASE status' = status
      BY <2>3, <2>5 DEF Stages!vars
    <2>6. CASE status' \in {"creating_listeners", "migrating_metadata"}
      <3>1. Stages!Before(status, status')
        BY <2>1, <2>6 DEF Stages!Before, Stages!Stage
      <3>2. ~ polled'
        BY <2>2, <2>3
      <3>3. QED
        BY <3>1, <3>2, AdvanceStep DEF IInv
    <2>7. QED
      BY <2>4, <2>5, <2>6
  <1>3. CASE SyncNotified(TRUE)
    <2>1. status = "creating_listeners" /\ status' = "migrated"
      BY <1>3 DEF IInv, Inv, SyncPhase, SyncNotified
    <2>2. Stages!Before(status, status')
      BY <2>1 DEF Stages!Before
    <2>3. QED
      BY <2>1, <2>2, AdvanceStep DEF IInv
  <1>4. CASE SyncCreateTable(TRUE)
    BY <1>4 DEF SyncCreateTable, Stages!vars
  <1>5. CASE SyncFinish(TRUE)
    BY <1>5 DEF SyncFinish, Stages!vars
  <1>6. CASE SyncTables(TRUE)
    BY <1>6 DEF SyncTables, Stages!vars
  <1>7. CASE SyncAdvance(TRUE)
    <2>1. worker[TRUE].seen = status
      BY <1>7 DEF IInv, Inv, SyncPhase, SyncAdvance
    <2>2. OnComplete(status, TRUE, jobs, batches)
      BY <1>7, <2>1 DEF SyncAdvance, OnComplete
    <2>3. QED
      BY <2>2, OnCompleteStep
  <1>8. CASE SyncFails(TRUE)
    <2>1. polled' = polled /\ SyncAborts(TRUE)
      BY <1>8 DEF SyncFails, SyncAborts
    <2>2. CASE UNCHANGED status
      BY <2>1, <2>2 DEF Stages!vars
    <2>3. CASE worker[TRUE].pc = "advance" /\ OnCompleteFails(worker[TRUE].seen, TRUE)
      <3>1. worker[TRUE].seen = status
        BY <2>3 DEF IInv, Inv, SyncPhase
      <3>2. OnCompleteFails(status, TRUE)
        BY <2>3, <3>1 DEF OnCompleteFails
      <3>3. QED
        BY <2>1, <3>2, OnCompleteFailsStep
    <2>4. QED
      BY <2>1, <2>2, <2>3 DEF SyncAborts
  <1>9. ~ SyncRaises(TRUE)
    BY DEF SyncRaises, IInv, Inv, SyncPhase, Fresh
  <1>10. QED
    BY <1>1, <1>2, <1>3, <1>4, <1>5, <1>6, <1>7, <1>8, <1>9 DEF SyncStep

(* Every step of a migration is a step of the stages, or none.             *)
LEMMA StepImplements == IInv /\ IInv' /\ [Next]_vars => [Stages!Next]_(Stages!vars)
  <1> SUFFICES ASSUME IInv, TypeOK', [Next]_vars
               PROVE  Stages!Next \/ UNCHANGED Stages!vars
    BY DEF IInv
  <1>1. CASE MigrationWorker
    BY <1>1 DEF MigrationWorker, Stages!vars
  <1>2. CASE DatabaseJobLost
    BY <1>2 DEF DatabaseJobLost, Stages!vars
  <1>3. ASSUME NEW new \in BOOLEAN, SyncStep(new) \/ SyncFails(new)
        PROVE  Stages!Next \/ UNCHANGED Stages!vars
    BY <1>3, SyncImplements
  <1>4. ASSUME NEW c \in batches, BatchComplete(c)
        PROVE  Stages!Next \/ UNCHANGED Stages!vars
    BY <1>4, OnCompleteStep DEF BatchComplete
  <1>5. ASSUME NEW c \in batches, CallbackFails(c)
        PROVE  Stages!Next
    BY <1>5, OnCompleteFailsStep DEF CallbackFails
  <1>6. ASSUME NEW j \in jobs, JobSucceeds(j) \/ JobFails(j) \/ JobLost(j)
        PROVE  UNCHANGED Stages!vars
    BY <1>6 DEF JobSucceeds, JobFails, JobLost, Stages!vars
  <1>7. CASE UNCHANGED vars
    BY <1>7 DEF vars, Stages!vars
  <1>8. QED
    BY <1>1, <1>2, <1>3, <1>4, <1>5, <1>6, <1>7 DEF Next

(* The status of a base moves forward through the stages of the enum and   *)
(* its listener is polled only once it is migrated, whatever faults occur. *)
THEOREM MigrationImplementsStages == Spec => ImplementsStages
  <1>1. Init => Stages!Init
    BY DEF Init, Stages!Init
  <1>2. IInv /\ IInv' /\ [Next]_vars => [Stages!Next]_(Stages!vars)
    BY StepImplements
  <1>3. QED
    BY <1>1, <1>2, Invariant, PTL DEF Spec, Stages!Spec, ImplementsStages
=============================================================================
