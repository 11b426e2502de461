# Powerbase: models, checks and proofs

Powerbase connects a remote PostgreSQL database (a *base*), copies its metadata
into its own database, and, for *turbo* bases, keeps an Elasticsearch index of
every table. This directory holds TLA+ models of two parts of it. Of the Rails
server (`src/powerbase-server`): how a base is migrated and kept in sync, how a
table's index is built, how it follows the remote table, and how requests write
records. Of the web client (`src/powerbase-client`): how its pages show what they
expect of the server before it has answered, keep several copies of what it
has, and bring them together again. Each module is translated from the code;
`PROJECT.json` names, for every definition, the lines it stands for.

- [1. The system](#1-the-system)
- [2. The modules and how they correspond to the code](#2-the-modules-and-how-they-correspond-to-the-code)
- [3. Runs, bounds and what they show](#3-runs-bounds-and-what-they-show)
- [4. Fairness](#4-fairness)
- [5. What is proved](#5-what-is-proved)
- [6. What the models say is wrong](#6-what-the-models-say-is-wrong)
- [7. What is not modelled](#7-what-is-not-modelled)
- [8. Plan](#8-plan)
- [9. Running it](#9-running-it)

## 1. The system

Everything below runs in Rails request threads, in Sidekiq worker processes
(one job per thread, several processes), in listener threads inside those
processes, in the remote database and Elasticsearch, which other clients use
too, and in the browsers of the users, each with caches of its own. No component
holds a lock or a transaction over two stores.

| Component | Code | State | Operations | Hard behaviour | What makes it correct |
|---|---|---|---|---|---|
| **Database migration and sync pipeline** | `app/workers/sync_database_worker.rb`, `database_migration_worker.rb`, `syncer_cron_worker.rb`, `lib/databases/syncer.rb`, `config/initializers/powerbase_listener.rb` | `powerbase_databases.status`, table records and their `is_migrated`, Sidekiq queues and batches, the arguments of two cron jobs | migrate a new base; sync a base; one callback per stage; one job per table and stage | jobs retried, lost or dead; callbacks run again; rescued errors; overlapping chains of stages; DDL on the remote meanwhile | no step of a table is forgotten; stages wait for each other; the status only moves forward; every base ends up migrated |
| **Table indexing** | `lib/tables/migrator.rb#index!`, `workers/table_index_worker.rb`, `models/powerbase_table.rb` | the documents and their `_in_synced` marks; `logs["migration"]` (offset, status); the job's own copy of both | mark, page through the table, upsert, sweep, clean up; resume after a crash | rows that come and go between pages; crashes anywhere; the cron sync changing the status under a running job | after a run every row has its document, no live document is swept, dead ones leave |
| **Change listener** | `lib/powerbase/listener.rb`, `notifier.rb`, `workers/poll_worker.rb`, `models/powerbase_database.rb#listen!` | notifications queued in a session; the one being handled | trigger sends; thread takes, reads the row, writes the document; threads are reset every five minutes | notifications lost with a thread; several threads of one base; a row read now and written later | a document agrees with its row unless a change is on its way or lost |
| **Record writes** | `lib/powerbase/model.rb`, `controllers/table_records_controller.rb`, `helpers/elasticsearch_helper.rb` | the remote row and its document | add, update, delete, sync a record | two stores without a transaction; the listener writes the same document; a request that dies half way | once all writers are done the document agrees with the row |
| **Base creation and removal** | `lib/databases/creator.rb`, `workers/drop_database_worker.rb`, `controllers/powerbase_databases_controller.rb` | the base's record, the job that migrates it | connect or create a base, disconnect, drop | running jobs of a base that is gone | a new base is migrated exactly once |
| **Table sync** | `lib/tables/syncer.rb`, `workers/sync_table_worker.rb` | fields, keys and connections of one table | compare with the remote schema, add, drop and update | a value that is `nil` after a dropped column; a memo read before it is computed | fields end equal to the columns |
| **Schema modification** | `models/concerns/table_schema_modification.rb`, `lib/fields/creator.rb`, `lib/*/schema.rb`, controllers of tables and fields | table and field records against remote DDL | add, rename, drop, hide; roll back on error | two stores, check then act | no record without its remote object |
| **Views and connections** | `controllers/table_views_controller.rb`, `base_connections_controller.rb`, `lib/table_views/creator.rb`, `lib/base_connection/creator.rb` | views, field order, connections | create, reorder, delete | a table's default view; connections of dropped tables | every table has a default view that exists |
| **Guests and permissions** | `lib/guests/*`, `lib/*/updater.rb`, `workers/*_guest_worker.rb`, `models/user.rb` | allowed and restricted lists on bases, tables and fields; a guest's own record | invite, change, remove; `can?` | one decision kept twice; whole-column lists read, edited and saved | the lists and the guest's record say the same |
| **Query compiler** | `lib/powerbase/query_compiler.rb` | none | one filter tree to SQL and to Elasticsearch | two translations of one meaning | both select the same records |
| **Users and authentication** | `models/concerns/user/*`, `lib/devise/*` | confirmation and reset tokens | issue, use, expire | a token used twice or late | a token works once and in time |
| **Notifications, settings, HubSpot bases** | their controllers | one record each | single assignments | none | - |

The client is React with `swr`. A *response* is a cache that is revalidated when
the window gets the focus, when `mutate` is called, and when a message of
Pusher comes in; components copy it into a state of their own, and most
handlers change that state first and ask the server then. Paths are below
`src/powerbase-client/src`.

| Page | Code | State | Operations | Hard behaviour | What makes it correct |
|---|---|---|---|---|---|
| **Table grid** | `lib/hooks/data-grid/*`, `components/tables/TableGrid*`, `lib/hooks/virtual-table/useAddRecord.jsx`, `models/TableRecords*.jsx` | the cached rows, the rows shown, the number of rows | edit a cell, add a row or record, delete from the menu or the modal | handlers that overlap each other and a fetch; what is put back after an error | once answered, the grid shows the server's rows |
| **Record modal** | `components/record/SingleRecordModal.jsx`, `RecordItem/*`, `lib/hooks/record/*` | the values of the form with their *updated* flags, the text of each input, the chain of linked records | type, keep or apply what the server has, show hidden fields, update, delete, open linked records | two answers of the server replace the form while the user types; an input enters its own value when it is mounted | what is sent was entered last; a difference is offered |
| **Permissions** | `components/permissions/*`, `components/guest/*`, `components/bases/share/*`, `models/BaseUser.jsx` | copies of lists and guests, the modals, the status "Saving" | change the group, allow, restrict, configure, invite, change role, remove | the same rules written again in the client; two records of one decision | a guest may do what was decided, and both sides answer alike |
| **Filters and sort** | `components/filter/*`, `components/sort/*`, `models/views/ViewOptions.jsx` | the tree in the form, the options of the view, the sort items on the page, the cached list of views | add, change and remove filters, groups and sort keys; change views | options that any change of any view sets back; a debounced request of the view that was left; ids from a counter that is set back | the options end as the server's |
| **Fields of a view** | `components/fields/*`, `lib/hooks/fields/*`, `models/view/ViewFieldState.jsx` | cached fields, list, columns | move, resize, hide, drop, change | seven handlers over three copies, one of them kept in a confirmation | list and columns end as the server's fields |
| **Names of new tables and fields** | `components/tables/CreateTable*`, `components/fields/CreateField/*` | texts, errors and questions of two inputs | type, ask whether it is taken, submit | an answer to an earlier text; names freed by others; two snake cases | a form without an error has a free name |
| **Fields of a new table** | `CreateTableFields.jsx`, `CreateField.jsx`, `FieldDataTypeSelect.jsx`, `CreateFieldSelectOptions.jsx` | the list, the form of one field, its options | add, change, move, remove; keys and increments | ids from counters that begin again | one incrementing key; ids that tell fields apart |
| **Tables of a base** | `components/tables/TableTabs*`, `components/bases/settings/BaseTablesSettings.jsx` | cache, tabs, bar, list of the settings | hide, show, drop, rename, move, reindex | a list copied once from a shared cache; one debounced rename for all tables; the last visible table | tabs and settings end as the server's; one table stays visible |
| **Views of a table** | `components/views/*`, `models/views/CurrentTableView.jsx` | cached views, menu, open view and the data of each, the form | open, add, edit, delete, move | a form that is reused; a default view set later than it is opened; a view opened by its address | the open view exists; an update changes what was changed |
| **Session and authentication** | `models/AuthUser.jsx`, `pages/login.jsx` | the token | log in, out | none of its own | - |
| **Connecting and onboarding** | `components/bases/BaseConnect.jsx`, `pages/onboarding.jsx` | a form | one request | none of its own | - |
| **Notifications, connections, presentation** | `App.jsx`, `models/BaseConnections.jsx`, `components/ui/*` | fetched lists | display | none | - |

How they interact. `Databases::Creator` queues `DatabaseMigrationWorker`, which
queues `SyncDatabaseWorker`. That worker creates table records and, stage by
stage, batches of table jobs (columns, connections, listener trigger, index);
a batch's `:complete` callback starts the next stage. A finished migration
hands the base to `PollWorker`'s cron job, which starts the listener thread. A
server boot registers every base in the listener and syncer cron jobs; the
latter runs the same `SyncDatabaseWorker` every 30 minutes, which is the
system's only repair: it recreates missing tables and columns and starts an
index run of a table whose number of documents is wrong. Documents have three
writers: the index job, the listener threads and the requests. The pages of the
client talk to the server only: two pages share no state but the server's, and
another user's page is, to this one, a change of the server's state.

The hazards of this code, each at its line and with the properties that cover
it, are listed under `hazards` in `PROJECT.json`.

## 2. The modules and how they correspond to the code

```
MigrationStages          what a first migration promises
   ^ implemented by
DatabaseMigration  <---  MCDatabaseMigration (TLC), DatabaseMigrationProofs (TLAPS)

ChangeFeed
   ^ extended by
RecordWrites       <---  RecordWritesProofs (TLAPS), of both
   ^ extended by
RecordIndexing           + the index job and the cron sync of one table
   ^ extended by
MCRecordIndexing         either a listener or a request beside it (TLC)

RecordIndexingProofs extends RecordIndexing and RecordWritesProofs  (TLAPS)

ClientLists              filtering a list, moving one of its elements
   ^ extended by
ClientFilters  ClientFields  ClientNewTable  ClientTables  ClientViews
ClientGrid  ClientRecordModal  ClientPermissions  ClientNames   (without it)
   ^ all nine extended by
MCWebClient              one page per behaviour (TLC)

ClientListsProofs        what lists do                               (TLAPS)
   ^ extended by
ClientGridProofs         grid, fields of a view, filters and sort    (TLAPS)
ClientFormsProofs        record modal, names, new table, permissions (TLAPS)
ClientTablesProofs       tables of a base, views of a table          (TLAPS)
   ^ extended by
WebClientProofs          MCWebClient: the pages put together         (TLAPS)
```

### MigrationStages and DatabaseMigration

`MigrationStages` has two variables, the status enum and whether the base is in
the listener cron job, and one action: the status jumps forward, polling starts
with `migrated`.

`DatabaseMigration` is the code. Its state is the remote's tables, the records
the server knows, per table the steps that were completed, the base-level
queue, the table jobs with the batch that still waits for their first attempt,
the batches whose callback is due, and the local state of the running
`SyncDatabaseWorker`s.

| Action | Code |
|---|---|
| `MigrationWorker` | `DatabaseMigrationWorker#perform`; the refusal of a migrated base raises and the job ends dead |
| `SyncStart` | `SyncDatabaseWorker#perform` with `Databases::Syncer#initialize`: the difference of remote and known tables is computed once |
| `SyncNotified` | the branch for a base Powerbase created itself |
| `SyncCreateTable`, `SyncFinish` | `Databases::Syncer#sync!`, one table record and its column job at a time, then the drops and the end of the batch |
| `SyncTables`, `SyncAdvance` | the branch without new tables: sync tables in place, index those that need it, then the direct call of `on_complete` with its JSON *string* (so the stale record is kept and the connection counts as new) |
| `SyncFails`, `SyncRaises` | an error at any of these points: `perform` rescues it and is not retried |
| `BatchComplete`, `CallbackFails` | `on_complete`; a failing callback has already written the status and is run again from there |
| `JobSucceeds`, `JobFails`, `JobLost` | the table workers; the first attempt, successful or not, frees the batch |
| `ServerBoots`, `SyncerCron` | the initializer and `SyncerCronWorker` |
| `RemoteDDL` | other clients of the remote database create or drop a table |

`Enqueue` models two facts of Sidekiq: an empty batch calls nothing back, and
a `TableIndexWorker` dropped by its unique lock was counted by its batch, which
never completes. `Spec` is one first migration, faults included; `CronSpec`
adds the cron jobs and remote DDL.

The work of one table job is one step: it needs the table to exist (and, to
index, its columns) and adds the step to `done`. The index run behind
`"records"` is the subject of `RecordIndexing`.

### ChangeFeed

One turbo table. A row is the version of its last change, 0 when there is none;
`body` is the version a document shows. The trigger appends a notification to
the queue of every session that listens; `ListenerTakes` is the head of
`notifier_callback` up to the query of the row, `ListenerWrites` the write of
the document. `ListenerStops` stands for `PollWorker`'s reset, the death of the
process and the error that ends `listen!` - in each the session goes with what
it held. `Rekey` is an UPDATE of the primary key, of which the trigger names the
new key only.

`drifted` is a history variable: the keys whose last change no thread heard or
whose last pending notification was killed. It says precisely what the feed
cannot repair by itself, so that the properties are about everything else.

### RecordWrites

Requests begin with the store the code writes first and keep what they will
write to the other. `AddRecord` inserts, reads back and upserts; `UpdateRecord`
updates the row and patches the *same fields* of the document, which leaves a
mixture when the document showed another version (`Patched`, version 0 being
the body that agrees with no row); `SyncRecord` refreshes; `DeleteRecord`
deletes the document, then the row. `WriteDocument` without `doc_as_upsert`
raises when the document is missing. `RequestDies` drops the rest.
`contended` is history: keys that two writers changed at a time, or that a
dead request left half written.

### RecordIndexing

`index!` step by step: `IndexStarts` (offset and marks reset unless the status
says a run was interrupted; an empty table is done at once), `IndexFetches` (one
`LIMIT`/`OFFSET` query), `IndexWrites` and `IndexSkips` (one record, or its
rescued error), `IndexLogs` (offset saved after the page), `IndexSearches` and
`IndexSweeps` (the documents still marked, one default page of hits),
`IndexCleans` (marks removed, or the rescued error of that), `IndexCrashes`,
`IndexFindsGone` (`delete_record` raises NotFound and the job is retried) and
`IndexRejected` (the `until_and_while_executing` lock). `CronSyncs` is
`Tables::Syncer` for this table: its `in_synced?` writes the status `migrated`
whatever is running and compares the counts. `OthersStep` is any step of
`RecordWrites`. History: `steady` and `touched` say what others did since the
run began.

`MCRecordIndexing` adds a variable, `others`, that never changes: beside the job
there is nobody, a listener thread, or a request. Each disjunct of `IndexNext` is
there an action of its own. All of them together are beyond TLC; the proofs
about `IndexSpec` have them together.

### The pages of the client

Each module has the server's record of what the page shows, the copies the page
keeps, the requests under way, and a revalidation in two steps (the server is
read, the answer arrives), so that an answer may be older than what it replaces.
A handler is one action: it checks what the code checks, changes the copies as
the code does and adds a request; that the server serves it, or refuses it, is a
second; what follows its `await` is a third, with the values the handler closed
over. Requests are served and answered in any order. Other users change the
server's record, and the page can be left and opened again.

| Module | Actions and their code |
|---|---|
| `ClientGrid` | `EditCell` (`useEditCell`), `AddRow` (`useAddRow`), `AddRecord` (`AddRecordModal`), `DeleteRow` (`CellMenu`), `DeleteRecord` (`SingleRecordModal`), which keep the rows of their render in `before` and `after`; `Succeeds` writes the expected rows to the cache, `Fails` puts the old ones back - but for the cell menu, whose `catch` calls a hook; `FocusAsks`, `FetchReads`, `FetchArrives`, `Rerender` |
| `ClientRecordModal` | `ExpandRecord`; `TypesText`, `ChoosesOption` (`RecordItemValue`); `ShowsHidden` and `HidesHidden`, with the effect of an input that is mounted (`Mounts`); `Synced` (`useSyncRecord`) and `RemoteArrives` (`useTableRecord`), which replace the items; `KeepsChange`, `AppliesChange`; `Submits`, `UpdateAnswered`; deletion and linked records |
| `ClientPermissions` | the server: `DecideGuest`, `ChangeGuestAccess`, `ConfigureGuest`, `InviteGuest`, `RemoveGuest` and `GuestWorker` (`Guests::Updater`, `Guests::Creator`, the workers), `ReaccessList` (`Fields::Updater` and the updaters of tables and bases), `ServerCan` (`User#can?`); the client: `ClientCan` (`BaseUser`, which finds no choice for a table) and the handlers of the six modals, which are grouped as the components are |
| `ClientFilters` | `OpenFilter` (`initializeFilterGroup`), the form (`FilterGroup`, `SingleFilter`), `SaveFires`, the debounced `updateTableRecords` with `BuiltTree` (`buildFilterTree`); the sort, whose items send it again when they are mounted (`MountsSend`); `ViewUpdated`; `ViewsReadForOptions` and `ViewsArriveForOptions` (`useCurrentView`), after which the options are those of the new list (`OptionsFollow`, `useViewOptions`) if it is another one at all (`NewReference`); `SwitchView` |
| `ClientFields` | the header menu (`ChangesType`, `TogglesValidation`, `TogglesPII`, `HidesField`, and `AsksToDrop`, whose columns `DropsField` and its error take), `ResizesColumn`, `RearrangesColumn`, the popover (`TogglesVisibility`, `HidesAll`, `ReordersList`), `AddsField`; `FieldHandled` is the controller, `FieldSucceeds` and `FieldFails` what follows |
| `ClientNames` | `TypesAlias`, `TypesName`, `AliasAnswered`, `NameAnswered` (`useData`), `Checked` (the effect that sets the error when the status changes), `SubmitsForm`; `SnakeCase` is the client's, `Snakecased` the server's; others create, drop and rename |
| `ClientNewTable` | `CreateTableFields` (move, keys, increments, remove), `CreateField` (name, type, data type, options, submit), `SubmitsTable` |
| `ClientTables` | `TableTabItemMenu`, `ReordersTabs`, the list of `BaseTablesSettings` with its debounced rename; `TableChecked` and `TableActs` are the controller's look at the other tables and its act, whose answer may be lost (`TableLost`); `OpensSettings` copies the cache of the tabs |
| `ClientViews` | `ViewMenu`, `AddsView`, `EditView` and the controller, which keeps the default view from being deleted (`MayDelete`); after an update the views are fetched (`ViewsArrive`), then the data of the open view (`ViewsFetched`, `ViewDataArrive`) |

`ClientLists` has the two things that every page does with an array: `Filtered`
(`filter`) and `Moved` (`arrayMove` of the library that sorts by dragging), both
by the places of the elements, so that they can be reasoned about.

`MCWebClient` puts the nine beside each other. Since the pages share no state of
the client, a behaviour stays on one of them (`page`, which never changes): the
states are the sum of the pages', not their product, and `WebTypeOK` is the type
invariant of the page the behaviour is on. `PagesVisited` says which pages a run
is about; the theorems hold for any of them.

Histories. Most handlers of the client are written for a user who waits for the
answer, and several copies come apart for good when the user does not. A
property that is to say something of all other cases names these:
`excused`, `viewExcused`, `fieldExcused`, `tableExcused` and `viewsExcused` record
that a request failed for which the code puts nothing back, overlapped another,
or met another user's change - the comment of each property says which; a later
fetch with nothing under way takes the excuse back where it repairs the page.
`racedVisible`, `sameAccess`, `recounted`, `doubled`, `freed`, `settled` and
`viewFromUrl` record one event each, `typed` and `wrote` what was entered in a field.
No action reads a history.

### Mutants

Definitions commented *Mutant* are plausible bugs, each with the parameters of
the definition it would replace; they appear in no specification. For every
checked property one of them makes the property fail.

## 3. Runs, bounds and what they show

| Run | Instance | Properties | Distinct states |
|---|---|---|---|
| `first_migration` | 2 tables, all 8 kinds of base, 2 batches, 2 faults | `TypeOK`, `NothingForgotten`, `StageBarrier`, `CleanFinish`, `ImplementsStages`, `FirstMigrationCompletes` | 9,562 |
| `auto_sync` | 1 table, turbo base with listener, 2 batches, 1 fault or DDL | `CronConverges` | 375,235 |
| `change_feed` | 2 keys, 2 threads, versions to 4 | `FeedTypeOK`, `Accounted`, `ChangesArrive` | 58,676 |
| `record_writes` | 2 keys, 2 threads, 1 request at a time, versions to 3 | `WriteTypeOK`, `WritesAccounted` | 231,548 |
| `quiet_index` | 3 keys, pages of 2, sweeps of 1, 2 faults, nobody else | `IndexTypeOK`, `IndexComplete`, `CountsConverge` | 18,945 |
| `busy_index` | 2 keys, pages of 1, 1 fault; a thread, or a request | `IndexComplete`, `CountsConverge` | 378,992 |
| `web_client` | the five pages of a table's records, see below | 10 | 1,223,704 |
| `web_lists` | the pages of names, tables and views, and the filters again, see below | 13 | 1,133,375 |
| `empty_document` | as `change_feed`, 1 thread | `NoEmptyDocument` violated | |
| `sweep_keeps_live` | as `busy_index` with a thread, no fault | `SweepKeepsLive` violated | |
| `deleted_leave` | as `busy_index` with a thread, no fault | `DeletedLeave` violated | |
| `kept_change` | the record modal | `KeptChangeSaved` violated | |

**First migration.** Although the callback goes on when jobs have merely been
attempted, whatever a table lacks is in a job that waits for its retry or was
in one that a fault destroyed (`NothingForgotten`), and a first attempt never
belongs to an earlier stage (`StageBarrier`). A run without faults ends
complete (`CleanFinish`) and, if there is a table, does end
(`FirstMigrationCompletes`; a turbo base without tables stays in
`indexing_records`, whose batch is empty, until a cron sync). Two tables make a batch with one job
done and one not; two faults let a retry meet a second fault or a callback.
A first migration never has two batches at a time (this is part of the proved
invariant), so `MaxBatch` = 2 restricts nothing.

**Auto sync.** Whatever one fault or one DDL statement did, a base in the
syncer cron job ends migrated with the remote's tables, their columns and their
records. It says nothing of the listener and connection steps: no sync repairs
those. One table suffices for every combination of two chains of stages, since
tables meet only in their batches; with two tables the same run has well over
a million states and its liveness check takes far longer.

**Change feed.** Two threads that start, stop and overlap, four versions: a
thread can hold an old read of a row while the other has written two newer
ones. `Accounted` is the safety part, `ChangesArrive` the liveness part.

**Record writes.** `WritesAccounted` lets a request, two threads and other
clients write the same document in any order. Requests have one slot, reused
without limit; two requests that write one key at a time are excused by the
property (`contended`), so a second slot would add states, not cases.

**Index runs.** Three keys in pages of two give a full and a partial page; one
hit per sweep with two stale documents makes one run too few. `IndexComplete`:
a run, however often it was resumed, leaves each row with a document, unless
rows came or went under its pages. `CountsConverge`: once changes stop, the
cron sync brings the counts together, unless the table is empty. `busy_index`
has the behaviours with a listener thread and those with a request.

**Web client.** Two runs of one module, of which each page is a part - two,
because TLC does not check all nine pages within five minutes:

| Page | Instance | Properties | Distinct states |
|---|---|---|---|
| grid | 2 keys, 2 values, 2 handlers, 2 requests at a time | `GridSettles` | 56,685 |
| record | 2 fields, one a select and one hidden, 2 texts, 2 changes, a linked record | `SendsOnlyEntered`, `DifferenceOffered` | 316,688 |
| permissions | 1 guest, 3 roles, 4 groups, a base, table or field, 1 request | `ChoiceHonoured`, `AnswersAgree`, `SavingEnds`, `DecisionTakes` | 259,430 |
| filters, in `web_client` | 2 views, 2 conditions, 1 sort key, groups of 2, 3 edits, 2 updates | `OptionsSettle` | 55,810 |
| filters, in `web_lists` | 1 view, else as above, 4 edits | `RemovesOne` | 65,826 |
| fields | 2 fields, 2 handlers and requests | `ColumnsSettle` | 535,091 |
| names | 5 aliases, 4 names, 4 keys, clicks or acts of others | `FreeWhenChecked`, `CheckingEnds` | 331,915 |
| new table | 3 fields, 3 options, 7 clicks | `OneIncrementing`, `SameNameSameId`, `IdsDistinct` | 21,773 |
| tables | 2 tables, 2 handlers and requests | `TabsSettle`, `SettingsSettle`, `LastVisible` | 65,815 |
| views | 2 views, one with its switch on, 2 names, 2 handlers and requests | `MenuSettles`, `OpenViewLives`, `UpdatesWhatChanged` | 648,046 |

The bounds count what a user does in one visit of the page; a visit can be
begun anew, so runs are not bounded in length. Two handlers and two requests are
what it takes for a handler to start before another's answer, for answers to
change places, and for a fetch to come between; a third would repeat one of the
two. A form of filters needs four edits to remove one of two that were added (open, add,
add, remove), for which one view is enough; two views and three edits are what the
options need to be changed here and elsewhere and to be left with a change pending. A table
needs seven clicks to have fields added, removed and added again with an option
in between, a name four keys to be asked, changed, asked again and taken or freed
by somebody else meanwhile.
One guest suffices because no rule of the lists looks at two, and the grid's two
keys because its handlers find a row by position or by key.
The claims proved (section 5) hold for any number of each.

The properties say the same thing for each page: whatever the order of
handlers, answers and fetches, the copies end as the server's record. The
others are about what a user's decision does: `SendsOnlyEntered` and
`UpdatesWhatChanged` that a request changes no more than the user did,
`DecisionTakes` and `ChoiceHonoured` that it does change it, `AnswersAgree` that the
client hides and shows what the server refuses and allows, `LastVisible` and
`OpenViewLives` that nobody ends on a table or a view that is not there.

Bounds in the guards: `MaxVersion` (changes of the remote table), `MaxBatch`,
`MaxFaults`, one running `SyncDatabaseWorker` per argument, and no cron tick
while one runs; of the client the bounds of its table. Deadlock is checked in
every run but `first_migration`, where a base that is migrated, or stuck until a
cron sync, has nothing left to do.

## 4. Fairness

- `SidekiqFairness`: a queued base-level job is started, a running worker takes
  its next step, a complete batch has its callback run, and each table step with
  a job that can be attempted is attempted (Sidekiq polls its queues and its retry set for as
  long as a worker process runs). No fault is fair: nothing makes a job fail.
- `CronSpec` adds that the syncer cron job keeps ticking (sidekiq-cron, every 30
  minutes), never that the server boots.
- `FeedSpec`: a thread handles what it has, and a thread that is not listening
  is eventually started (`listen!` loops for ever, and `PollWorker`, run every
  five minutes, starts it anew). Stopping is not fair.
- `IndexSpec`, and `MCIndexSpec` likewise: the index job runs when queued, the cron sync ticks, a thread
  that listens handles what it hears. Requests need not finish, threads need not
  start.
- The modules of the client assume none: a user need not act and a request need
  not be answered. What they say of the end of things is a state property: when
  nothing is under way, the copies agree.

## 5. What is proved

With TLAPS, for every value of the constants that satisfies the modules'
assumptions (finite sets of tables, kinds of base, natural bounds).

`DatabaseMigrationProofs`, about `Spec` (a first migration with any faults):

- `TypeCorrect`: `Spec => []TypeOK`.
- `Invariant`: `Spec => []IInv`, with `IInv` = `TypeOK` and
  - `SyncPhase`: where the one sync of the base is, and that nothing exists
    before it has begun;
  - `OneBatch`: there is at most one batch, none while a worker builds one, and
    every job that waits for its first attempt is in it;
  - `PolledLast`: a polled base is migrated;
  - `StageBarrier` and `NothingForgotten`.

  The two properties are not inductive alone. That a stage's jobs belong to the
  status the callback finds needs `OneBatch` (otherwise another batch's jobs
  survive the change of status), and `OneBatch` needs `SyncPhase` (otherwise a
  second sync opens another batch).
- `NothingIsForgotten`, `StagesAreBarriers`: the two properties.
- `MigrationEndsClean`: `Spec => []CleanFinish`. The invariant is extended for a
  run without faults (`CleanInv`): every job has a batch to wait for it, so with
  `StageBarrier` no job of an earlier stage is left and with `NothingForgotten`
  whatever a passed stage requires is done; then every job *can* be done, and
  none fails; and the tables still to be created are those that are missing.
- `MigrationImplementsStages`: `Spec => Stages!Spec`, from `SyncPhase` (which
  statuses a step can start from) and `PolledLast`.

`RecordWritesProofs`, about `FeedSpec`:

- `TypeCorrect`: `FeedSpec => []FeedTypeOK`.
- `Invariant`: `FeedSpec => []IInv`, with `FeedTypeOK` and
  - `QueueRight`: the last notification of a key in a thread's queue is a DELETE
    exactly when the row is gone, unless a later change was lost;
  - `WriteRight`: what a thread is about to write is what the row is, unless a
    newer notification of the key waits behind it in the same queue;
  - `OffQuiet`: a thread that does not listen holds nothing;
  - `Accounted`.

  `Accounted` alone says nothing of what a thread will write, and the write is
  the step that could break it. The argument is per thread: each one sees every
  notification sent while it listens, so a thread with a stale value always has
  the newer notification still to come.
- `EveryChangeAccounted`: `FeedSpec => []Accounted`.

The same module, about `WriteSpec`:

- `WriteTypeCorrect`: `WriteSpec => []WriteTypeOK`.
- `EveryWriteAccounted`: `WriteSpec => []WritesAccounted`, from `WInv`: what
  was shown of the threads (`Held`; each step of the feed keeps it, and keeps
  what is settled settled), and
  - `Alone`: two requests of one key have made it contended;
  - `RowKnown`: a request that has its key for itself carries the row's version,
    so its write is right whenever it comes;
  - `DriftedQuiet`, `NoDocNoBody`: of a key that drifted and has a row nothing is
    on its way, so a request that repairs its document is not undone;
  - `WritesSettled`: only a removal under way leaves a key unsettled.

`RecordIndexingProofs`, about `IndexSpec`, with any number of listener threads
and requests beside the job:

- `IndexTypeCorrect`: `IndexSpec => []IndexTypeOK`.
- `RunsAreComplete`: `IndexSpec => IndexComplete`, from `RunInv`: of every row the
  run has passed (`Passed`: it lies before the offset, or was taken from the page,
  or the last page is read) the document is there, is not marked, and agrees
  unless others wrote it; the rows of the page are those of the table; no live
  document is among the hits. It holds while a job runs *and* while an
  interrupted run waits for its retry, which is what makes resuming correct; the
  status that the cron sync writes ends the obligation. The argument about
  pages needs the position of a row to be below the number of rows
  (`FiniteSetTheorems`) and a page to have a first row (`WellFoundedInduction`).

The client. All pages have one shape of argument. A copy of what the server has
is wrong only while something is under way that will set it right, so the
invariant says, for each copy, *what it follows*: the cache, or what a request
under way has put there, or what a fetch that was asked for will bring. The
property is the case in which nothing is under way. What makes the step from one
to the other is what a request knows of its company: the flag `alone` of a
request that nothing overlapped, for which what it puts back is still the
server's. An excuse ends the obligation; a fetch with nothing under way begins it
again.

`ClientListsProofs`: for lists of any elements and any length, what `Filtered`
returns (`FilteredList`: the elements of the kept places, in their order), what
`Moved` returns (`MovedList`: the same elements, each from a place of its own),
what `FlattenSeq` has as its type (`FlattenExists`, `FlattenType`), and that the
orders of finitely many elements can be sorted in exactly one way (`SortedExists`,
`AscendingCounts`, `SortedUnique`), which is why a list that agrees with the server
in its elements and rises in their order is the list the server sends.

`ClientGridProofs`:

- `GridSpec`: `GridTypeCorrect`, and `GridIsSettled`: `GridSpec => []GridSettles`, for
  tables of any length: as long as a request is alone, the rows it keeps are the
  server's before and after it, and an edit by position is an edit by key.
- `FieldsSpec`: `FieldTypeCorrect`, and `ColumnsDoSettle`: `FieldsSpec => []ColumnsSettle`,
  from `CacheFollows` (the cache, or the answer of a fetch, is the server's list, or
  a request is under way that leads to a new fetch), `ListFollows`, `ColumnsFollow`
  and `AloneIsAlone` (a request that is alone puts back the columns of the cache).
- `FilterSpec`: `FilterTypeCorrect`; `OptionsDoSettle`: `FilterSpec => []OptionsSettle`,
  from `FetchKnows` (what a fetch of the views read is the server's unless something
  was saved since, and a list that is the cached one has nothing new) and
  `OptionsFrom` (what the options have of a part is the server's, or what a request
  under way brings there, unless the list still has to be fetched); `RemovesOnlyOne`: `FilterSpec => RemovesOne`,
  from `KidsKnown` (no id is there twice, and the numbers in the ids are below the
  count of the form).

`ClientFormsProofs`:

- `ModalSpec`: `ModalTypeCorrect`; `OnlyEnteredIsSent`: `ModalSpec => SendsOnlyEntered`,
  since an item with the updated flag holds what its input entered last
  (`FlaggedIsEntered`), and hidden fields are mounted only while the modal is open
  (`Folded`); `DifferencesAreOffered`: `ModalSpec => []DifferenceOffered`, which
  is inductive.
- `NamesSpec`: `NamesTypeCorrect`; `CheckedIsFree`: `NamesSpec => []FreeWhenChecked`;
  `CheckingDoesEnd`: `NamesSpec => []CheckingEnds`. The invariant relates the error
  shown to the status of the question (`InputRight`), what was found to what is known
  to be taken, as long as others freed no name (`FoundKnown`), and an error-free name
  that was found to the alias it was made from (`NameFollows`), whose question has the
  same answer where the two snake cases give one name.
- `NewTableSpec`: `NewTableTypeCorrect`; `OneKeyIncrements`, `OneNameOneId` and
  `NewIdsDiffer`, the three properties of the list. `OneIncrementing` is not inductive:
  a key is found by its id, which several fields may have, so `KeysRight` says of
  each incrementing field that its id has an incrementing key; `IdsRight` that ids are
  below the counter; `TakenKnown` that the open form knows whether its name is taken.
- `PermSpec`: `PermTypeCorrect`; `ChoiceIsHonoured`: `PermSpec => []ChoiceHonoured`, from
  `Listed`: whatever group the resource is given, its lists alone already say what
  the guest's own record says, which the updater relies on when it finds that
  nothing changed; `SavingDoesEnd`: `PermSpec => []SavingEnds`; `AnswersDoAgree`:
  `PermSpec => []AnswersAgree`, by cases over roles and groups from the shapes of the
  records; `DecisionsTake`: `PermSpec => DecisionTakes`.

`ClientTablesProofs`:

- `TablesSpec`: `TablesTypeCorrect`; `OneStaysVisible`: `TablesSpec => []LastVisible`, from
  `OneAtATime`: while no two requests have looked at once, the one between its look
  and its act still finds another visible table. `TabsDoSettle`:
  `TablesSpec => []TabsSettle`, from `TabsFollow`: what a fetch read is the server's or
  will be read again (`FetchFollows`), the bar shows the cache, a handler's
  expectation or the order it sent (`BarFollows`), it and the open tab are known
  (`TabsKnown`), and it has the server's tables when only an order is under way
  (`BarRests`). `SettingsDoSettle`: `TablesSpec => []SettingsSettle`, from
  `SettingsFollow`: each table of the list shows the alias and the visibility that are
  to be saved, or the server's where none are (`AliasFollows`, `HiddenFollows`,
  `OrderFollows`), no two requests are about the same (`NoTwo`), and one that was sent
  alone would put back what the server has (`PutsBackRight`).
- `ViewsSpec`: `ViewsTypeCorrect`; `MenuDoesSettle`: `ViewsSpec => []MenuSettles`, from
  `CreatesNew` (a creation under way has a number nothing else has), `MenuFollows`
  (the menu is the cache, or what an order under way asks for, or rises with the
  server's order) and `DataFollows` (the data kept for a view are its own, or are being fetched);
  `OpenViewDoesLive`: `ViewsSpec => []OpenViewLives`, from `OpenFollows`: the open
  view, unless an address named it, exists and is the server's default or what the
  one request for the default asks for, beside which there is no deletion
  (`DefaultsAlone`), and a menu that is not to be fetched again shows no view that
  was deleted;
  `UpdatesChangeThat`: `ViewsSpec => UpdatesWhatChanged`.

`WebClientProofs`, about `WebSpec`: each page's specification is implied by the
composition (`GridRefined` to `ViewsRefined`), so `WebTypeCorrect`
(`WebSpec => []WebTypeOK`), `PagesStayRight` (the seventeen invariants of the pages)
and `PagesStepRight` (their four action properties) hold in the client as a whole.

Assumed are only the named assumptions on the constants, which TLC evaluates.
No module declares a `RECURSIVE` operator. The library's induction theorems are out
of reach, since they take an operator; the few facts that need one (the k-th element
that is kept, the function that joins lists, the sorting of finitely many elements)
are proved from the least counterexample (`LeastNumber`).

Only model-checked are the four liveness properties, `FirstMigrationCompletes`,
`CronConverges`, `ChangesArrive` and `CountsConverge` (fairness and `ENABLED` are
outside the prover's reach), and with `CronConverges` whatever is said of
`CronSpec`. Every other property of a passing run is stated by a theorem.

The proofs changed the models where these were wrong or could not be reasoned about:

- `ClientFields`. A request counted as alone although a fetch had been asked for
  beside it, and what it puts back after an error is then not what the fetch
  brings: with four handlers `ColumnsSettle` was false. A fetch that is asked for
  now takes the flag from the requests under way (`Beside`).
- `ClientFilters`. `Recount` set the count of the form from the form's own tree; the
  code counts `initialFilterGroup`, the tree that arrives (`FilterGroup.jsx:49-53`), which
  may have fewer filters than the form. With seven edits `RemovesOne` was false. The
  history `recounted` now begins where the count is set, and ids are pairs of a
  kind and a number instead of numbers from two ranges. The options follow the list
  of views by reference, so that a list that differs anywhere sets them, and the
  count, back.
- `ClientViews`. Two creations under way could be given one id, which the server's
  counter does not do; `NewViewId` leaves out what is under way.
- `ClientPermissions`. The cases of `ServerCan` and `ClientCan` overlapped for guests
  without a role, so that what they return rested on `CASE` choosing the first.
- Bounds that only served TLC are gone from the types: the order of a field or a
  table is any number, and a group has any number of conditions.

## 6. What the models say is wrong

Statements of the code's own comments, constants and messages that runs refute:

1. **A document without fields** (`listener.rb:176`). `notifier_callback` formats the row before
   it tests it, and an absent row formats to an empty hash, so "No inserted
   record found." is never reached: a row inserted and deleted before its
   INSERT is handled gets an empty document, which stays until its DELETE is
   handled - for good if that one is lost.
2. **The sweep deletes live documents** (`migrator.rb:429`). A row
   deleted from an earlier page shifts the rest by one: one row is never read
   and keeps its mark, and the sweep that should "remove deleted indexed
   records" removes it. The counts then differ, and the next cron sync's run
   brings it back.
3. **An emptied table keeps its documents** (`migrator.rb:77`). A run of a table without
   rows returns before the sweep, so documents of rows deleted while nobody
   listened stay, and each cron sync starts the same futile run.
4. **A change that is kept is not saved** (`SingleRecordModal.jsx:87`,
   `RecordItemValue.jsx:186`). While the user types, the answer of the server
   replaces the value and the flag of every item. "Keep current change" drops
   the offer of the new value and leaves the text on the screen, but not the
   flag: the update that follows does not send it.

The models have three more such cases, which properties leave out by name:

- Editors may not edit (`BaseUser.jsx:83`). "editors and up" may edit a field's data by
  default (`permissions.js:227`), and an editor "Can edit records" (`:53`), but for the
  default group `can` answers from the list of the role, in which an editor has no
  `editFieldData`. The server's `can?` does the same, so `AnswersAgree` has nothing to
  say of it.
- A choice for a table is not found (`BaseUser.jsx:123`). A custom guest's choices
  ("Configure your own permissions.", `permissions.js:47`) are kept under a table's id
  and looked up by the table itself, which callers pass (`SingleRecordModal.jsx:75`):
  the client always answers the default, and does not let a guest do what the server
  does. `AnswersAgree` excuses this case.
- A name that is said to be free is taken (`powerbase_tables_controller.rb:79`). The
  server looks for the name of an alias by its own snake case (`string.rb:2`), which
  keeps blanks and punctuation that the client's drops (`textTypeFormatters.js:1`). For
  'Id ' it finds nothing although the name filled in, 'id', is taken, and the form says
  "Table name is available." (`CreateTableAlias.jsx:74`). The question about the name
  itself may still find it; an alias that is changed to another with the same name
  clears that error. `FreeWhenChecked` excuses aliases on which the two differ.

Limitations that follow from the code and that the properties exclude by name:
an empty turbo base shows "indexing_records" until a cron sync; so does a sync
that only drops tables show "migrating_metadata"; listener and connection jobs
that are lost are never made up for; a callback that is retried skips the stage
whose jobs it failed to push; a cron sync in the middle of a migration starts a
second chain of stages; a late retry of a connections job leaves `is_migrated`
false until the next sync.

Of the client, excused by name in the properties' histories and comments: two
overlapping handlers of the grid leave it apart until the next fetch; an error
of the cell menu leaves the row off the screen; tabs, fields and views show what
a failed request did not do, and what the settings and a refused drop put back is
older than a request that was done and whose answer was lost; the settings copy the
tables once, from a cache that is stale after tabs were moved; two tables renamed
within the debounce lose the first name; a view opened by its address can be
deleted while it is open; choosing the access that is already set leaves "Saving" on and the
menus locked; a custom guest without a choice is answered differently by client
and server, as is a resource given to specific users; showing the hidden fields of
a record marks their values as updated, and the next update sends them although
nobody typed them; a filter added after a save, or after any view was changed, may
get another's id and is then removed with it; two requests may hide a
base's last two tables. Each is a case a user meets, none contradicts a
statement of the repository.

## 7. What is not modelled

- Tables are migrated, and indexed, by primary keys of a single column, which is
  what orders the pages. Composite keys, whose pages are ordered by their first
  column only, a changed primary key's re-indexing, virtual tables and the magic
  fields of non-turbo bases are left out.
- Records over the size limit are skipped by the code in every run; the models
  have only records whose failure is transient (`IndexSkips`).
- The count and the page of one fetch, the count and the reset of a start, and
  `add_record`'s insert and read-back are one step each.
- Of the logs JSON that concurrent jobs save as a whole only offset and status
  are kept.
- A batch that is being filled loses none of its jobs before it is closed.
- A key that a `Rekey` took away counts as drifted: the feed never repairs it.
- DDL notifications of the listener are left out; DDL is found by the cron sync.
- Of the grid: keyboard, selection, scrolling and further pages of records; of
  the permissions: several permissions of one resource, invitations by mail, and
  the requests of two owners that race inside the server; of the filters: which
  operator a condition has; of fields: which of its attributes a handler changes;
  of the tables: uploads and error logs.
- The data type that `FieldDataTypeSelect.jsx:53-58` computes anew for a select when
  its name changes; what SWR shows while an answer comes for a key that is not
  asked for any more; the data of views that are no longer listed. An address
  names one of the views the table has or had.
- A page's requests fail as a whole: a controller that has written one of two
  records when it fails is not modelled for the client.
- **Table sync**, **schema modification**: what they do to the set of tables and
  columns is in `DatabaseMigration`, their own steps are not (section 8).
- **Query compiler**: a pure translation to two foreign query languages, whose
  meaning would have to be modelled first. **Users and authentication**: the life
  of a token is Devise's. **Notifications, settings, HubSpot bases**, **session**,
  **connecting and onboarding**, **presentation**: single assignments, forms that
  end in one request, widgets.
- Logging, Sentry and Pusher throughout; a message of Pusher is, to a page, a
  revalidation.

## 8. Plan

Written, in this order: the pipeline, the feed, the writes and the index runs,
each of which relies on the one before; the pages of the client; the proofs.
What remains:

1. `TableSync`: `Tables::Syncer` for one table. Columns added, dropped and
   updated, primary and foreign keys; the early `return` in `initialize`
   (`syncer.rb:53`) after which `updated_columns` is `nil`, and the memo read before it
   is computed (`:112`). Properties: fields end equal to columns; a sync that
   reports success leaves nothing to do. Composed with the listener's DDL
   callback (`listener.rb:69`), which creates a table beside the cron sync.
2. `RecordIndexing`, extended: composite keys and changed primary keys.
3. `SchemaModification`: the creators of tables and fields with their rollback;
   no field without a column. (That a base keeps a visible table is
   `ClientTables`, `LastVisible`.)
4. `ClientPermissions`, extended: two owners at once, several permissions, and an
   abstract specification (a set of allowed pairs) that the lists implement.
5. `QueryFilter`: filter trees over small records, the two translations
   compared; operators only.
6. Proofs: the safety of `CronSpec` (types, and which steps of a table no sync
   makes up for), whose chains of stages overlap, so that `OneBatch` no longer
   holds; the modules of this list as they are written.

## 9. Running it

```
tlc -workers 2 -config FirstMigration.cfg MCDatabaseMigration
tlc -workers 2 -config ChangeFeed.cfg ChangeFeed
tlc -workers 2 -config BusyIndex.cfg MCRecordIndexing
tlc -workers 2 -config WebClient.cfg MCWebClient
tlc -workers 2 -config WebLists.cfg MCWebClient
tlapm DatabaseMigrationProofs.tla
tlapm RecordIndexingProofs.tla
tlapm WebClientProofs.tla
```

`PROJECT.json` pairs every configuration with its module and lists the theorems
with theirs. `auto_sync`, `busy_index`, `web_client` and `web_lists` take two to four
minutes, every other run less than one. `ClientTablesProofs`, the longest of the proofs,
takes six minutes from nothing.
