------------------------- MODULE DatabaseMigration -------------------------
(***************************************************************************)
(* The migration of one base: DatabaseMigrationWorker, SyncDatabaseWorker  *)
(* with its batch callback, Databases::Syncer, and the per-table workers   *)
(* they enqueue.  Each stage enqueues one job per table in a Sidekiq       *)
(* batch; when every job of the batch has been ATTEMPTED (not: succeeded)  *)
(* the callback SyncDatabaseWorker#on_complete starts the next stage.      *)
(* Jobs fail and are retried, are lost with a killed process or die after  *)
(* their last retry; a callback that raises is run again; an error in      *)
(* SyncDatabaseWorker#perform is rescued and never retried.                *)
(*                                                                         *)
(* Spec is a first migration on its own.  CronSpec adds what can run       *)
(* beside it: a server restart, which registers the base with the syncer   *)
(* cron job, the syncs that job enqueues, and DDL on the remote database.  *)
(***************************************************************************)
EXTENDS Naturals, FiniteSets

CONSTANTS
  Tables,      \* the tables the remote database may have
  Bases,       \* the kinds of base: is_turbo, is_created, ENABLE_LISTENER
  MaxBatch,    \* bound: batches in progress at a time
  MaxFaults    \* bound: failures, crashes, lost jobs and DDL on the remote

ASSUME MigrationAssumption ==
  /\ IsFiniteSet(Tables)
  /\ Bases \subseteq [turbo : BOOLEAN, created : BOOLEAN, listener : BOOLEAN]
  /\ MaxBatch \in Nat /\ MaxFaults \in Nat

VARIABLES
  base,       \* the base's kind, which never changes
  remote,     \* the tables of the remote database
  known,      \* the tables with a PowerbaseTable record
  status,     \* powerbase_databases.status
  done,       \* per table, the steps its workers have completed
  migrated,   \* the tables whose is_migrated is set
  queue,      \* database-level jobs: "migrate", "sync_new" and "sync"
  jobs,       \* table-level jobs: queued, or waiting for a retry
  batches,    \* batches whose :complete callback has not run
  worker,     \* the SyncDatabaseWorker jobs being performed, by argument
  polled,     \* is the base in the arguments of the "Database Listeners" cron job?
  inCron,     \* ... and in those of the "Database Syncer" cron job?
  lost,       \* history: <<step, table>> whose job was lost before it was done
  faults      \* bounded: failures, losses and remote DDL so far

envVars  == <<base, remote>>
jobVars  == <<jobs, batches>>
tableVars == <<known, done, migrated>>
vars == <<base, remote, known, status, done, migrated, queue, jobs, batches,
          worker, polled, inCron, lost, faults>>

Stages == INSTANCE MigrationStages WITH status <- status, polled <- polled

Steps == {"columns", "connections", "listener", "records"}
BatchId == 1..MaxBatch
NoBatch == 0

(* A job's batch is the one that waits for its first attempt, if any.      *)
Job == [step : Steps, table : Tables, batch : BatchId \cup {NoBatch}]
Batch == [id : BatchId, new : BOOLEAN]

(* A SyncDatabaseWorker between two of its steps; "seen" is the status of  *)
(* the record it loaded, which nothing reloads while it performs.          *)
Idle == [pc |-> "idle"]
Notifying == [pc : {"notify"}]
Checking == [pc : {"tables", "advance"}, seen : Stages!Stage]
Creating == [pc : {"create"}, todo : SUBSET Tables, drop : SUBSET Tables,
             batch : BatchId, pushed : BOOLEAN]
Running == Notifying \cup Checking \cup Creating

TypeOK ==
  /\ base \in Bases
  /\ remote \in SUBSET Tables /\ known \in SUBSET Tables
  /\ status \in Stages!Stage
  /\ done \in [Tables -> SUBSET Steps]
  /\ migrated \in SUBSET Tables
  /\ queue \in SUBSET {"migrate", "sync_new", "sync"}
  /\ jobs \in SUBSET Job /\ batches \in SUBSET Batch
  /\ worker \in [BOOLEAN -> Running \cup {Idle}]
  /\ polled \in BOOLEAN /\ inCron \in BOOLEAN
  /\ lost \in SUBSET (Steps \X Tables)
  /\ faults \in 0..MaxFaults

-----------------------------------------------------------------------------
(* Stages. *)

(* Mutants of NextStage: a status the enum does not have, an indexing stage*)
(* that only follows the connections, and a stage that goes back.          *)
NextStageMisspelt(s) ==
  IF s = "adding_connections" /\ base.listener THEN "creating_listener"
  ELSE IF s = "migrating_metadata" THEN "adding_connections" ELSE "migrated"
NextStageNoIndex(s) ==
  IF s = "migrating_metadata" THEN "adding_connections"
  ELSE IF s = "adding_connections" /\ base.listener THEN "creating_listeners"
  ELSE IF s = "adding_connections" /\ base.turbo THEN "indexing_records"
  ELSE "migrated"
NextStageBack(s) ==
  IF s = "migrating_metadata" THEN "adding_connections"
  ELSE IF s = "adding_connections" /\ base.listener THEN "creating_listeners"
  ELSE IF s = "creating_listeners" /\ base.turbo THEN "adding_connections"
  ELSE "migrated"

(* The branches of on_complete: the stage that follows the one it finds. *)
NextStage(s) ==
  IF s = "migrating_metadata" THEN "adding_connections"
  ELSE IF s = "adding_connections" /\ base.listener THEN "creating_listeners"
  ELSE IF s # "indexing_records" /\ base.turbo THEN "indexing_records"
  ELSE "migrated"

(* The job a stage enqueues for every table. *)
StageStep == {<<"migrating_metadata", "columns">>, <<"adding_connections", "connections">>,
              <<"creating_listeners", "listener">>, <<"indexing_records", "records">>}
StepOf(s) == {step \in Steps : <<s, step>> \in StageStep}

(* create_listeners returns before its batch for a base Powerbase created. *)
JobsOf(s, new, b) ==
  IF s = "creating_listeners" /\ new /\ base.created THEN {}
  ELSE [step : StepOf(s), table : known, batch : {b}]

(* The batch numbers left by the jobs J, the batches B and the workers.    *)
FreeBatch(J, B) ==
  BatchId \ ({c.id : c \in B} \cup {j.batch : j \in J}
             \cup {worker[n].batch : n \in {m \in BOOLEAN : worker[m].pc = "create"}})

(* TableIndexWorker is unique: while one is queued for a table a second is *)
(* dropped.  The batch has counted it, so that batch never completes: its  *)
(* other jobs belong to no batch any more.                                 *)
Queued(j) == j.step = "records" /\ \E k \in jobs : k.step = j.step /\ k.table = j.table
Unbatched(S) == {[step |-> j.step, table |-> j.table, batch |-> NoBatch] : j \in S}

(* The jobs once nothing waits for batch b any more.                       *)
Closed(b) == {j \in jobs : j.batch # b} \cup Unbatched({j \in jobs : j.batch = b})

(* Mutant: a batch of one job is taken for an empty one. *)
EnqueueMany(S, b, new, J, B) ==
  /\ jobs' = J \cup S
  /\ batches' = IF Cardinality(S) > 1 THEN B \cup {[id |-> b, new |-> new]} ELSE B

(* Adds a stage's jobs, as batch b, to the jobs J and the batches B.       *)
Enqueue(S, b, new, J, B) ==
  LET fresh == {j \in S : ~ Queued(j)} IN
  IF fresh = S /\ S # {}
  THEN jobs' = J \cup S /\ batches' = B \cup {[id |-> b, new |-> new]}
  ELSE jobs' = J \cup Unbatched(fresh) /\ batches' = B

(* One run of on_complete that finds the base in stage s.  The base joins  *)
(* the listener cron job only if it is a new connection.                   *)
OnComplete(s, new, J, B) ==
  \/ /\ s = "migrated"
     /\ jobs' = J /\ batches' = B
     /\ UNCHANGED <<status, migrated, polled>>
  \/ /\ s # "migrated" /\ NextStage(s) = "migrated"
     /\ status' = "migrated"
     /\ polled' = (polled \/ new)
     /\ migrated' = known
     /\ jobs' = J /\ batches' = B
  \/ /\ s # "migrated" /\ NextStage(s) # "migrated"
     /\ status' = NextStage(s)
     /\ \E b \in FreeBatch(J, B) : Enqueue(JobsOf(NextStage(s), new, b), b, new, J, B)
     /\ UNCHANGED <<migrated, polled>>

(* The same run cut short by an error: the status is already written, but  *)
(* only some of the stage's jobs are pushed and no batch waits for them.   *)
OnCompleteFails(s, new) ==
  LET all == JobsOf(NextStage(s), new, NoBatch) IN
  /\ s # "migrated"
  /\ status' = NextStage(s)
  /\ migrated' = IF NextStage(s) = "migrated" THEN known ELSE migrated
  /\ \E pushed \in SUBSET {j \in all : ~ Queued(j)} :
       /\ jobs' = jobs \cup pushed
       /\ lost' = lost \cup {<<j.step, j.table>> : j \in all \ pushed}

Fault == faults < MaxFaults /\ faults' = faults + 1

-----------------------------------------------------------------------------
Init ==
  /\ base \in Bases
  /\ remote \in SUBSET Tables /\ (base.created => remote = {})
  /\ known = {} /\ migrated = {} /\ done = [t \in Tables |-> {}]
  /\ status = "analyzing_base"
  /\ queue = {"migrate"} /\ jobs = {} /\ batches = {}
  /\ worker = [new \in BOOLEAN |-> Idle]
  /\ polled = FALSE /\ inCron = FALSE
  /\ lost = {} /\ faults = 0

-----------------------------------------------------------------------------
(* DatabaseMigrationWorker: refuses a base that is already migrated (the   *)
(* refusal itself raises, so the job ends up dead), else enqueues the sync.*)
MigrationWorker ==
  /\ "migrate" \in queue
  /\ queue' = (queue \ {"migrate"}) \cup (IF status = "migrated" THEN {} ELSE {"sync_new"})
  /\ UNCHANGED <<envVars, tableVars, jobVars, status, worker, polled, inCron, lost, faults>>

(* A database-level job killed with its process, or a sync whose first      *)
(* query of the remote fails: perform rescues the error and does nothing.   *)
DatabaseJobLost ==
  /\ \E q \in queue : queue' = queue \ {q}
  /\ Fault
  /\ UNCHANGED <<envVars, tableVars, jobVars, status, worker, polled, inCron, lost>>

-----------------------------------------------------------------------------
(* SyncDatabaseWorker#perform.  The unique lock is released when the job   *)
(* starts; bound: one running job per argument.                            *)
SyncJob(new) == IF new THEN "sync_new" ELSE "sync"

(* Databases::Syncer compares the remote tables with the known ones.       *)
SyncStart(new) ==
  /\ SyncJob(new) \in queue /\ worker[new] = Idle
  /\ queue' = queue \ {SyncJob(new)}
  /\ \/ /\ base.created /\ new
        /\ status' = "creating_listeners"
        /\ worker' = [worker EXCEPT ![new] = [pc |-> "notify"]]
     \/ /\ ~ (base.created /\ new) /\ remote = known
        /\ worker' = [worker EXCEPT ![new] = [pc |-> "tables", seen |-> status]]
        /\ UNCHANGED status
     \/ /\ ~ (base.created /\ new) /\ remote # known
        /\ status' = "migrating_metadata"
        /\ \E b \in FreeBatch(jobs, batches) :
             worker' = [worker EXCEPT ![new] =
               [pc |-> "create", todo |-> remote \ known, drop |-> known \ remote,
                batch |-> b, pushed |-> FALSE]]
  /\ UNCHANGED <<envVars, tableVars, jobVars, polled, inCron, lost, faults>>

(* A base Powerbase created itself: only the notifier functions are needed.*)
SyncNotified(new) ==
  /\ worker[new].pc = "notify"
  /\ status' = "migrated" /\ polled' = TRUE
  /\ worker' = [worker EXCEPT ![new] = Idle]
  /\ UNCHANGED <<envVars, tableVars, jobVars, queue, inCron, lost, faults>>

SyncCreateTable(new) ==
  /\ worker[new].pc = "create"
  /\ \E t \in worker[new].todo :
       /\ known' = known \cup {t}
       /\ jobs' = jobs \cup {[step |-> "columns", table |-> t,
                              batch |-> worker[new].batch]}
       /\ worker' = [worker EXCEPT ![new] =
            [pc |-> "create", todo |-> @.todo \ {t}, drop |-> @.drop,
             batch |-> @.batch, pushed |-> TRUE]]
  /\ UNCHANGED <<envVars, done, migrated, batches, status, queue, polled, inCron, lost, faults>>

(* The end of db_syncer.sync! and of its batch: a sync that only dropped   *)
(* tables pushed no job, so its batch is empty and calls nothing back.     *)
SyncFinish(new) ==
  /\ worker[new].pc = "create" /\ worker[new].todo = {}
  /\ LET w == worker[new] IN
       /\ known' = known \ w.drop
       /\ migrated' = migrated \ w.drop
       /\ done' = [t \in Tables |-> IF t \in w.drop THEN {} ELSE done[t]]
       /\ batches' = batches \cup (IF w.pushed THEN {[id |-> w.batch, new |-> new]} ELSE {})
  /\ worker' = [worker EXCEPT ![new] = Idle]
  /\ UNCHANGED <<envVars, jobs, status, queue, polled, inCron, lost, faults>>

(* No table to add or drop: every known table is marked as migrated by     *)
(* Tables::Syncer#in_synced?, then those with columns or records missing   *)
(* are synced in place and their index jobs enqueued.                      *)
Bare(S) == {t \in S : "columns" \notin done[t]}
Unsynced(S) == Bare(S) \cup {t \in S : base.turbo /\ "records" \notin done[t]}
IndexJobs(S, b) ==
  [step : {"records"}, table : Unsynced(S), batch : {b}]

SyncInPlace(S) ==
  /\ done' = [t \in Tables |-> IF t \in Bare(S) THEN done[t] \cup {"columns", "connections"}
                               ELSE done[t]]
  /\ migrated' = (migrated \cup S) \ Bare(S)

SyncTables(new) ==
  /\ worker[new].pc = "tables" /\ known \subseteq remote
  /\ SyncInPlace(known)
  /\ \E b \in FreeBatch(jobs, batches) : Enqueue(IndexJobs(known, b), b, new, jobs, batches)
  /\ worker' = [worker EXCEPT ![new] =
       IF @.seen = "migrated" THEN Idle ELSE [pc |-> "advance", seen |-> @.seen]]
  /\ UNCHANGED <<envVars, known, status, queue, polled, inCron, lost, faults>>

(* on_complete(nil, {new_connection: ...}.to_json): indexing that String   *)
(* with "database_id" gives nil, so the stale record stays in use, and     *)
(* with "new_connection" gives the substring, so it always counts as new.  *)
SyncAdvance(new) ==
  /\ worker[new].pc = "advance"
  /\ OnComplete(worker[new].seen, TRUE, jobs, batches)
  /\ worker' = [worker EXCEPT ![new] = Idle]
  /\ UNCHANGED <<envVars, known, done, queue, inCron, lost, faults>>

(* perform rescues every error and is not retried; a killed process loses  *)
(* the job the same way.  What was done before the error stays, and the    *)
(* jobs pushed so far belong to no batch.                                  *)
SyncAborts(new) ==
  /\ worker' = [worker EXCEPT ![new] = Idle]
  /\ \/ /\ worker[new].pc \in {"notify", "advance"}
        /\ UNCHANGED <<known, done, jobs, status, migrated, lost>>
     \/ /\ worker[new].pc = "tables"
        /\ \E S \in SUBSET (known \cap remote) :
             /\ SyncInPlace(S)
             /\ jobs' = jobs \cup {j \in IndexJobs(S, NoBatch) : ~ Queued(j)}
        /\ UNCHANGED <<known, status, lost>>
     \/ /\ worker[new].pc = "advance"
        /\ OnCompleteFails(worker[new].seen, TRUE)
        /\ UNCHANGED <<known, done>>
     \/ /\ worker[new].pc = "create"
        /\ \E half \in SUBSET worker[new].todo :
             /\ Cardinality(half) <= 1
             /\ known' = known \cup half
             /\ lost' = lost \cup ({"columns"} \X half)
        /\ jobs' = Closed(worker[new].batch)
        /\ UNCHANGED <<done, status, migrated>>
  /\ UNCHANGED <<envVars, batches, queue, polled, inCron>>

SyncFails(new) == worker[new] # Idle /\ Fault /\ SyncAborts(new)

(* The query of a table that has been dropped from the remote raises.      *)
SyncRaises(new) ==
  /\ worker[new].pc = "tables" /\ ~ (known \subseteq remote)
  /\ SyncAborts(new) /\ UNCHANGED faults

-----------------------------------------------------------------------------
(* The :complete callback of a batch: once every job has been attempted.   *)
(* Mutant: the callback does not wait for the last job of its batch. *)
AttemptedAlmost(c) == Cardinality({j \in jobs : j.batch = c.id}) <= 1

Attempted(c) == \A j \in jobs : j.batch # c.id

BatchComplete(c) ==
  /\ c \in batches /\ Attempted(c)
  /\ OnComplete(status, c.new, jobs, batches \ {c})
  /\ UNCHANGED <<envVars, known, done, queue, worker, inCron, lost, faults>>

(* The callback raises: Sidekiq runs it again, from the status it wrote.   *)
CallbackFails(c) ==
  /\ c \in batches /\ Attempted(c) /\ Fault
  /\ OnCompleteFails(status, c.new)
  /\ UNCHANGED <<envVars, known, done, batches, queue, worker, polled, inCron>>

-----------------------------------------------------------------------------
(* The table workers.  Each begins with PowerbaseTable.find and a query of *)
(* the remote table; index! needs a field to order the records by.         *)
CanDo(j) ==
  /\ j.table \in known \cap remote
  /\ j.step = "records" => "columns" \in done[j.table]

(* What the step leaves in is_migrated.                                    *)
Marked(j) ==
  CASE j.step = "records" -> migrated \cup {j.table}
    [] j.step = "columns" /\ ~ base.turbo -> migrated \cup {j.table}
    [] j.step = "listener" /\ ~ base.listener -> migrated
    [] OTHER -> migrated \ {j.table}

JobSucceeds(j) ==
  /\ j \in jobs /\ CanDo(j)
  /\ jobs' = jobs \ {j}
  /\ done' = [done EXCEPT ![j.table] = @ \cup {j.step}]
  /\ migrated' = Marked(j)
  /\ UNCHANGED <<envVars, known, batches, status, queue, worker, polled, inCron, lost, faults>>

(* Mutant: a failed job is not retried. *)
JobFailsForGood(j) ==
  /\ j \in jobs
  /\ \/ ~ CanDo(j) /\ UNCHANGED faults
     \/ CanDo(j) /\ Fault
  /\ jobs' = jobs \ {j}
  /\ UNCHANGED <<envVars, tableVars, batches, status, queue, worker, polled, inCron, lost>>

JobFails(j) ==
  /\ j \in jobs
  /\ \/ ~ CanDo(j) /\ UNCHANGED faults
     \/ CanDo(j) /\ Fault
  /\ jobs' = (jobs \ {j}) \cup Unbatched({j})
  /\ migrated' \in {migrated, migrated \ {j.table}}
  /\ UNCHANGED <<envVars, known, done, batches, status, queue, worker, polled, inCron, lost>>

(* Killed with its process, or dead after its last retry.  A batch that    *)
(* loses a job it has not seen attempted never completes.                  *)
JobLost(j) ==
  /\ j \in jobs /\ Fault
  /\ lost' = lost \cup {<<j.step, j.table>>}
  /\ \/ /\ j.batch = NoBatch
        /\ jobs' = jobs \ {j}
        /\ UNCHANGED batches
     \/ /\ \E c \in batches : c.id = j.batch
        /\ jobs' = Closed(j.batch) \ Unbatched({j})
        /\ batches' = {c \in batches : c.id # j.batch}
  /\ UNCHANGED <<envVars, tableVars, status, queue, worker, polled, inCron>>

-----------------------------------------------------------------------------
(* What may run beside a migration.                                        *)

(* config/initializers/powerbase_listener.rb, when the server boots.       *)
ServerBoots ==
  /\ base.listener /\ ~ inCron
  /\ inCron' = TRUE /\ polled' = TRUE
  /\ queue' = queue \cup {"sync"}
  /\ UNCHANGED <<envVars, tableVars, jobVars, status, worker, lost, faults>>

(* Mutant: only bases that are migrated are synced. *)
SyncerCronMigrated ==
  /\ inCron /\ status = "migrated" /\ \A new \in BOOLEAN : worker[new] = Idle
  /\ queue' = queue \cup {"sync"}
  /\ UNCHANGED <<envVars, tableVars, jobVars, status, worker, polled, inCron, lost, faults>>

(* Bound: the cron job ticks only while no sync of the base is running.    *)
SyncerCron ==
  /\ inCron /\ \A new \in BOOLEAN : worker[new] = Idle
  /\ queue' = queue \cup {"sync"}
  /\ UNCHANGED <<envVars, tableVars, jobVars, status, worker, polled, inCron, lost, faults>>

RemoteDDL(t) ==
  /\ Fault
  /\ remote' = IF t \in remote THEN remote \ {t} ELSE remote \cup {t}
  /\ UNCHANGED <<base, tableVars, jobVars, status, queue, worker, polled, inCron, lost>>

-----------------------------------------------------------------------------
SyncStep(new) ==
  SyncStart(new) \/ SyncNotified(new) \/ SyncCreateTable(new)
  \/ SyncFinish(new) \/ SyncTables(new) \/ SyncAdvance(new)
  \/ SyncRaises(new)

Next ==
  \/ MigrationWorker \/ DatabaseJobLost
  \/ \E new \in BOOLEAN : SyncStep(new) \/ SyncFails(new)
  \/ \E c \in batches : BatchComplete(c) \/ CallbackFails(c)
  \/ \E j \in jobs : JobSucceeds(j) \/ JobFails(j) \/ JobLost(j)

CronNext ==
  \/ Next
  \/ ServerBoots \/ SyncerCron
  \/ \E t \in Tables : RemoteDDL(t)

(* Sidekiq keeps starting queued jobs and retries failed ones, and runs    *)
(* the callback of a completed batch; nothing makes it fail.               *)
Attempt(step, t) ==
  \E j \in jobs : j.step = step /\ j.table = t
                 /\ (JobSucceeds(j) \/ (j.batch # NoBatch /\ ~ CanDo(j) /\ JobFails(j)))

SidekiqFairness ==
  /\ WF_vars(MigrationWorker)
  /\ \A new \in BOOLEAN : WF_vars(SyncStep(new))
  /\ WF_vars(\E c \in batches : BatchComplete(c))
  /\ \A step \in Steps, t \in Tables : WF_vars(Attempt(step, t))

Spec == Init /\ [][Next]_vars /\ SidekiqFairness
CronSpec == Init /\ [][CronNext]_vars /\ SidekiqFairness /\ WF_vars(SyncerCron)

-----------------------------------------------------------------------------
(* Properties. *)

Passed(s) == s = status \/ Stages!Before(s, status)

(* The steps every table should have had, or have queued, by now.          *)
Required ==
  {s \in Steps :
    /\ s = "connections" => Passed("adding_connections")
    /\ s = "listener" => Passed("creating_listeners") /\ base.listener
    /\ s = "records" => Passed("indexing_records") /\ base.turbo}

(* Going on to the next stage although jobs of the last one have failed    *)
(* loses nothing: whatever a table still lacks is in a job waiting for its *)
(* retry, or was in one that a fault destroyed.                            *)
NothingForgotten ==
  \A t \in known, s \in Required :
     \/ s \in done[t]
     \/ \E j \in jobs : j.step = s /\ j.table = t
     \/ <<s, t>> \in lost

(* A stage waits for the one before: a job still waiting for its first     *)
(* attempt belongs to the current stage, unless a fault took it out of its *)
(* batch.                                                                  *)
StageBarrier ==
  \A j \in jobs : j.batch # NoBatch => j.step \in StepOf(status)

(* A migration that met no fault ends with every table complete and shown  *)
(* as migrated, and with the base's listener polled.                       *)
CleanFinish ==
  status = "migrated" /\ faults = 0 =>
    /\ polled /\ migrated = known /\ known = remote
    /\ \A t \in known : Required \subseteq done[t]

(* The migration of a base only moves forward through its stages.          *)
ImplementsStages == Stages!Spec

(* Without faults a base with at least one table is eventually migrated.   *)
FirstMigrationCompletes ==
  <>(status = "migrated" \/ faults > 0 \/ remote = {})

(* Once a base is in the syncer cron job it ends up migrated with the      *)
(* remote's tables, their columns and records, whatever was lost before.   *)
CronConverges ==
  inCron ~> [](/\ status = "migrated" /\ known = remote
               /\ \A t \in known : "columns" \in done[t]
                                  /\ (base.turbo => "records" \in done[t]))
=============================================================================
