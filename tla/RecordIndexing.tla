--------------------------- MODULE RecordIndexing ---------------------------
(***************************************************************************)
(* The index run of a turbo table, Tables::Migrator#index!, as the job     *)
(* TableIndexWorker performs it, beside the listener, the requests and the *)
(* clients of the remote table (ChangeFeed, RecordWrites).                 *)
(*                                                                         *)
(* A run that starts afresh marks the documents it finds as not in sync,   *)
(* then reads the table page by page with LIMIT and OFFSET, each page in a *)
(* query of its own, upserts every row as in sync and deletes what is still*)
(* marked in the end.  The offset is logged after each page, so the retry  *)
(* of a job that died goes on from there.  The cron sync starts a run when *)
(* the number of documents differs from the number of rows.                *)
(***************************************************************************)
EXTENDS RecordWrites

CONSTANTS
  PageSize,     \* DEFAULT_PAGE_SIZE
  SweepLimit,   \* hits of a search that gives no size
  MaxFaults     \* bound: crashes, and records and clean-ups that fail

ASSUME IndexAssumption ==
  /\ Keys \subseteq Nat /\ IsFiniteSet(Keys)
  /\ PageSize \in Nat \ {0} /\ SweepLimit \in Nat \ {0} /\ MaxFaults \in Nat

VARIABLES
  mark,      \* per document, _in_synced: "none" when it has no such field
  queued,    \* is an index job of the table queued?
  pc,        \* the step the running job is at, "idle" if none runs
  offset,    \* logs["migration"]["offset"]
  total,     \* @total_records
  page,      \* the rows of the page that are still to be written
  hits,      \* the documents found to be deleted
  status,    \* logs["migration"]["status"]
  steady,    \* history: has nobody else added or removed a row, or removed a
             \* document, since the run began, and has no record been skipped?
  touched,   \* history: keys whose row or document others have written since
  faults     \* bounded: faults so far

jobVars == <<pc, offset, total, page, hits, status>>
sinceVars == <<steady, touched>>
indexVars == <<mark, queued, jobVars, sinceVars, faults>>
allVars == <<writeVars, indexVars>>

IndexTypeOK ==
  /\ WriteTypeOK
  /\ mark \in [Keys -> {"none", "false", "true"}]
  /\ queued \in BOOLEAN
  /\ steady \in BOOLEAN /\ touched \in SUBSET Keys
  /\ pc \in {"idle", "page", "write", "sweep"}
  /\ offset \in Nat /\ total \in 0..Cardinality(Keys)
  /\ page \in SUBSET [key : Keys, row : Version]
  /\ hits \in SUBSET Keys
  /\ status \in {"indexing_records", "migrated"}
  /\ faults \in 0..MaxFaults

Fault == faults < MaxFaults /\ faults' = faults + 1

(* Mutant: LIMIT is one short of the step of the offset. *)
PageShort(o) ==
  {[key |-> k, row |-> remote[k]] :
     k \in {m \in Live : Cardinality({n \in Live : n < m}) \in o .. (o + PageSize - 2)}}

(* The rows from offset o in the order of the primary key, one page of them*)
Position(k) == Cardinality({m \in Live : m < k})
PageAt(o) == {[key |-> k, row |-> remote[k]] :
                k \in {m \in Live : Position(m) \in o .. (o + PageSize - 1)}}

-----------------------------------------------------------------------------
(* index! up to the loop: a run whose last one ended starts afresh, one    *)
(* that was interrupted goes on.  An empty table is done at once.          *)
(* Mutant: the documents are not marked before the run. *)
MarkedNone == mark

Marked == [k \in Keys |-> IF k \in docs /\ mark[k] = "none" THEN "false" ELSE mark[k]]

IndexStarts ==
  /\ queued /\ pc = "idle"
  /\ queued' = FALSE
  /\ total' = Cardinality(Live)
  /\ IF status = "indexing_records" THEN UNCHANGED <<offset, mark, sinceVars>>
     ELSE offset' = 0 /\ mark' = Marked /\ steady' = TRUE /\ touched' = {}
  /\ IF Live = {} THEN status' = "migrated" /\ pc' = pc
     ELSE status' = "indexing_records" /\ pc' = "page"
  /\ UNCHANGED <<writeVars, page, hits, faults>>

(* The unique lock of the worker: a job that starts while another runs is  *)
(* rejected for good.                                                      *)
IndexRejected ==
  /\ queued /\ pc # "idle"
  /\ queued' = FALSE
  /\ UNCHANGED <<writeVars, mark, jobVars, sinceVars, faults>>

(* fetch_table_records!: the loop goes by the count of the last page.      *)
IndexFetches ==
  /\ pc = "page" /\ offset < total
  /\ total' = Cardinality(Live)
  /\ page' = PageAt(offset)
  /\ pc' = "write"
  /\ UNCHANGED <<writeVars, mark, queued, offset, hits, status, sinceVars, faults>>

First == CHOOSE p \in page : \A q \in page : p.key <= q.key

IndexWrites ==
  /\ pc = "write" /\ page # {}
  /\ Upsert(First.key, First.row)
  /\ mark' = [mark EXCEPT ![First.key] = "true"]
  /\ page' = page \ {First}
  /\ UNCHANGED <<rowVars, on, feed, busy, drifted, request, contended,
                 queued, pc, offset, total, hits, status, sinceVars, faults>>

(* An error on one record is logged, and the loop goes on with the next.   *)
IndexSkips ==
  /\ pc = "write" /\ page # {} /\ Fault
  /\ page' = page \ {First}
  /\ steady' = FALSE
  /\ UNCHANGED <<writeVars, mark, queued, pc, offset, total, hits, status, touched>>

(* Mutant: a status in_synced? does not know. *)
IndexLogsOther ==
  /\ pc = "write" /\ page = {}
  /\ offset' = offset + PageSize /\ pc' = "page"
  /\ status' = "indexing"
  /\ UNCHANGED <<writeVars, mark, queued, total, page, hits, sinceVars, faults>>

(* The job saves its own copy of the logs, its status included.            *)
IndexLogs ==
  /\ pc = "write" /\ page = {}
  /\ offset' = offset + PageSize
  /\ status' = "indexing_records"
  /\ pc' = "page"
  /\ UNCHANGED <<writeVars, mark, queued, total, page, hits, sinceVars, faults>>

(* The documents still marked, as many as one search returns.              *)
Unmarked == {k \in docs : mark[k] = "false"}

IndexSearches ==
  /\ pc = "page" /\ offset >= total
  /\ \E H \in SUBSET Unmarked :
       /\ Cardinality(H) <= SweepLimit
       /\ H = Unmarked \/ Cardinality(H) = SweepLimit
       /\ hits' = H
  /\ pc' = "sweep"
  /\ UNCHANGED <<writeVars, mark, queued, offset, total, page, status, sinceVars, faults>>

IndexSweeps ==
  /\ pc = "sweep"
  /\ \E k \in hits \cap docs :
       /\ DeleteDoc(k)
       /\ mark' = [mark EXCEPT ![k] = "none"]
       /\ hits' = hits \ {k}
  /\ UNCHANGED <<rowVars, on, feed, busy, drifted, request, contended,
                 queued, pc, offset, total, page, status, sinceVars, faults>>

(* The job ends with an error: Sidekiq queues it again, unless it was the  *)
(* last of its retries.                                                    *)
Ends == pc' = "idle" /\ page' = {} /\ hits' = {} /\ total' = 0

(* A document to delete that somebody else has deleted raises NotFound.    *)
IndexFindsGone ==
  /\ pc = "sweep" /\ hits \ docs # {}
  /\ Ends /\ queued' = TRUE
  /\ UNCHANGED <<writeVars, mark, offset, status, sinceVars, faults>>

IndexCrashes ==
  /\ pc # "idle" /\ Fault
  /\ Ends /\ queued' \in {TRUE, queued}
  /\ UNCHANGED <<writeVars, mark, offset, status, sinceVars>>

(* remove_es_column, whose errors are rescued, and the final log.          *)
IndexCleans ==
  /\ pc = "sweep" /\ hits = {}
  /\ \/ mark' = [k \in Keys |-> "none"] /\ UNCHANGED faults
     \/ UNCHANGED mark /\ Fault
  /\ status' = "migrated"
  /\ Ends
  /\ UNCHANGED <<writeVars, queued, offset, sinceVars>>

-----------------------------------------------------------------------------
(* The cron sync, Tables::Syncer: its in_synced? marks the table migrated  *)
(* whatever is under way, and compares the counts.                         *)
CronSyncs ==
  /\ status' = "migrated"
  /\ queued' = (queued \/ Cardinality(docs) # Cardinality(Live))
  /\ UNCHANGED <<writeVars, mark, pc, offset, total, page, hits, sinceVars, faults>>

(* Everybody else: a document that is deleted loses its mark.              *)
OthersStep ==
  /\ WriteNext
  /\ mark' = [k \in Keys |-> IF k \in docs' THEN mark[k] ELSE "none"]
  /\ steady' = (steady /\ Live' = Live /\ docs \subseteq docs')
  /\ touched' = touched \cup {k \in Keys : remote'[k] # remote[k] \/ body'[k] # body[k]}
  /\ UNCHANGED <<queued, jobVars, faults>>

-----------------------------------------------------------------------------
(* A table whose index has drifted from it in some way, or was never built.*)
IndexInit ==
  /\ remote \in [Keys -> {0, 2}] /\ clock = 2 /\ MaxVersion >= 2
  /\ docs \in SUBSET Keys
  /\ body \in [Keys -> 0..2] /\ \A k \in Keys : (body[k] = 0) <=> (k \notin docs)
  /\ drifted = Keys /\ contended = Keys
  /\ on \in SUBSET Threads
  /\ feed = [l \in Threads |-> <<>>] /\ busy = [l \in Threads |-> Idle]
  /\ request = [r \in Requests |-> NoRequest]
  /\ mark = [k \in Keys |-> "none"]
  /\ queued = FALSE /\ pc = "idle" /\ offset = 0 /\ total = 0
  /\ page = {} /\ hits = {} /\ status = "migrated"
  /\ steady = FALSE /\ touched = {} /\ faults = 0

IndexJob ==
  \/ IndexStarts \/ IndexFetches \/ IndexWrites \/ IndexLogs
  \/ IndexSearches \/ IndexSweeps \/ IndexFindsGone \/ IndexCleans

IndexNext ==
  \/ IndexJob \/ IndexRejected \/ IndexSkips \/ IndexCrashes
  \/ CronSyncs
  \/ OthersStep

(* Sidekiq performs queued jobs, the cron job ticks, and a listener thread *)
(* that runs handles what it hears.                                        *)
IndexSpec ==
  /\ IndexInit /\ [][IndexNext]_allVars
  /\ WF_allVars(IndexJob) /\ WF_allVars(CronSyncs)
  /\ \A l \in Threads : WF_allVars(OthersStep /\ Handles(l))

-----------------------------------------------------------------------------
(* Properties. *)

(* A run, however often it crashed and was resumed, leaves every row with a*)
(* document, unless rows came or went under its pages; updates of rows may *)
(* go on.  What nobody else wrote meanwhile agrees with its row.           *)
IndexComplete ==
  [][IndexCleans /\ steady =>
       \A k \in Live : k \in docs /\ (k \in touched \/ Agree(k))]_allVars

(* Once changes and requests stop, the cron sync brings the number of      *)
(* documents to the number of rows, unless the table is empty.             *)
CountsConverge ==
  \/ []<>(\E r \in Requests : request[r] # NoRequest)
  \/ <>[](Cardinality(docs) = Cardinality(Live) \/ Live = {})

(* "Remove deleted indexed records based on _in_synced" (migrator.rb:237): *)
(* the sweep never deletes the document of a row that has been there,      *)
(* unchanged, since the run began.                                         *)
SweepKeepsLive ==
  [][IndexSweeps => \A k \in docs \ docs' : k \notin Live \/ k \in touched]_allVars

(* "This is to detect deleted records on re-indexing" (migrator.rb:65): the*)
(* documents of rows that are gone for good leave the index.               *)
DeletedLeave == (clock = MaxVersion /\ Live = {}) ~> docs = {}
=============================================================================
