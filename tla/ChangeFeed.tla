----------------------------- MODULE ChangeFeed -----------------------------
(***************************************************************************)
(* How a turbo table's search index follows the remote table: the trigger  *)
(* of Powerbase::Notifier sends a notification per changed row, and the    *)
(* threads of Powerbase::Listener, which PollWorker starts and resets, take*)
(* them one by one, read the row as it is NOW and write the document.      *)
(*                                                                         *)
(* A notification reaches the sessions that listen when it is sent; one    *)
(* that no session hears, or whose thread is killed before it wrote, is    *)
(* gone.  PollWorker takes no lock and looks for the thread by name in its *)
(* own process, so there may be several threads: each hears everything.    *)
(***************************************************************************)
EXTENDS Naturals, Sequences, FiniteSets

CONSTANTS
  Keys,         \* primary key values, each with its document id
  Threads,      \* the listener threads there may be at a time
  MaxVersion    \* bound: changes of the remote table

ASSUME FeedAssumption == MaxVersion \in Nat

VARIABLES
  remote,    \* per key, the version of the row, 0 when there is none
  docs,      \* the keys that have a document
  body,      \* per key, the version its document shows, 0 when it shows none
  clock,     \* the last version given to a row
  on,        \* the threads that are listening
  feed,      \* per thread, the notifications its session has not handled
  busy,      \* per thread, the notification it is handling
  drifted    \* history: keys whose last change the listener cannot repair

rowVars == <<remote, clock>>
docVars == <<docs, body>>
feedVars == <<remote, docs, body, clock, on, feed, busy, drifted>>

Version == 0..MaxVersion
Op == {"INSERT", "UPDATE", "DELETE"}
Notification == [op : Op, key : Keys]
Idle == [op |-> "none"]
Handling == [op : Op, key : Keys, row : Version]

FeedTypeOK ==
  /\ remote \in [Keys -> Version] /\ body \in [Keys -> Version]
  /\ docs \in SUBSET Keys /\ drifted \in SUBSET Keys
  /\ clock \in Version
  /\ on \in SUBSET Threads
  /\ feed \in [Threads -> Seq(Notification)]
  /\ busy \in [Threads -> Handling \cup {Idle}]

Live == {k \in Keys : remote[k] # 0}

(* Mutant: the document is created but never updated. *)
CreateOnly(k, row) ==
  /\ docs' = docs \cup {k}
  /\ body' = [body EXCEPT ![k] = IF k \in docs THEN @ ELSE row]

(* update_record with doc_as_upsert merges the fields it is given: none    *)
(* when the row was gone, which still creates the document.                *)
Upsert(k, row) ==
  /\ docs' = docs \cup {k}
  /\ body' = [body EXCEPT ![k] = IF row = 0 THEN @ ELSE row]

DeleteDoc(k) ==
  /\ docs' = docs \ {k}
  /\ body' = [body EXCEPT ![k] = 0]

-----------------------------------------------------------------------------
(* The remote table.  Any client of it may change a row, in a transaction  *)
(* whose trigger notifies the sessions that are listening.                 *)
Notify(op, k) ==
  feed' = [l \in Threads |-> IF l \in on THEN Append(feed[l], [op |-> op, key |-> k])
                             ELSE feed[l]]

(* A change no thread hears drifts; a later one that is heard repairs it.  *)
Heard(k) == IF on = {} THEN drifted \cup {k} ELSE drifted \ {k}

Put(op, k) ==
  /\ clock < MaxVersion
  /\ clock' = clock + 1
  /\ remote' = [remote EXCEPT ![k] = clock + 1]
  /\ Notify(op, k)
  /\ drifted' = Heard(k)

Insert(k) == k \notin Live /\ Put("INSERT", k)
Update(k) == k \in Live /\ Put("UPDATE", k)

Delete(k) ==
  /\ k \in Live /\ clock < MaxVersion
  /\ clock' = clock + 1
  /\ remote' = [remote EXCEPT ![k] = 0]
  /\ Notify("DELETE", k)
  /\ drifted' = Heard(k)

(* An UPDATE that changes the primary key: the trigger only names the new. *)
Rekey(k, m) ==
  /\ k \in Live /\ m \notin Live /\ clock < MaxVersion
  /\ clock' = clock + 1
  /\ remote' = [remote EXCEPT ![k] = 0, ![m] = clock + 1]
  /\ Notify("UPDATE", m)
  /\ drifted' = Heard(m) \cup {k}

RemoteChange ==
  /\ \E k \in Keys : Insert(k) \/ Update(k) \/ Delete(k) \/ \E m \in Keys : Rekey(k, m)
  /\ UNCHANGED <<docVars, on, busy>>

-----------------------------------------------------------------------------
(* Mutants of the listener: it does not read the row, and it does not come *)
(* back from a notification whose row is gone.                             *)
ListenerTakesPayload(l) ==
  /\ busy[l] = Idle /\ feed[l] # <<>>
  /\ busy' = [busy EXCEPT ![l] = Head(feed[l])]
  /\ feed' = [feed EXCEPT ![l] = Tail(@)]
  /\ UNCHANGED <<rowVars, docVars, on, drifted>>
ListenerHangs(l) ==
  /\ busy[l] # Idle
  /\ busy[l].op = "DELETE" \/ busy[l].row # 0
  /\ IF busy[l].op = "DELETE" THEN DeleteDoc(busy[l].key)
                              ELSE Upsert(busy[l].key, busy[l].row)
  /\ busy' = [busy EXCEPT ![l] = Idle]
  /\ UNCHANGED <<rowVars, on, feed, drifted>>

(* Powerbase::Listener#notifier_callback. *)
ListenerTakes(l) ==
  /\ busy[l] = Idle /\ feed[l] # <<>>
  /\ LET n == Head(feed[l]) IN
       busy' = [busy EXCEPT ![l] =
         [op |-> n.op, key |-> n.key, row |-> IF n.op = "DELETE" THEN 0 ELSE remote[n.key]]]
  /\ feed' = [feed EXCEPT ![l] = Tail(@)]
  /\ UNCHANGED <<rowVars, docVars, on, drifted>>

ListenerWrites(l) ==
  /\ busy[l] # Idle
  /\ IF busy[l].op = "DELETE" THEN DeleteDoc(busy[l].key)
                              ELSE Upsert(busy[l].key, busy[l].row)
  /\ busy' = [busy EXCEPT ![l] = Idle]
  /\ UNCHANGED <<rowVars, on, feed, drifted>>

(* Is a change of k still on its way through thread l?                     *)
Queued(l, k) == \E i \in 1..Len(feed[l]) : feed[l][i].key = k
PendingIn(l, k) == Queued(l, k) \/ (busy[l] # Idle /\ busy[l].key = k)
Pending(k) == \E l \in Threads : PendingIn(l, k)

(* The thread is killed by PollWorker#initialize_pg_listener! or with its   *)
(* process, or an error ends listen!: what its session had not handled is  *)
(* gone.                                                                   *)
ListenerStops(l) ==
  /\ l \in on
  /\ on' = on \ {l}
  /\ feed' = [feed EXCEPT ![l] = <<>>]
  /\ busy' = [busy EXCEPT ![l] = Idle]
  /\ drifted' = drifted \cup {k \in Keys : PendingIn(l, k)
                                /\ \A m \in Threads \ {l} : ~ PendingIn(m, k)}
  /\ UNCHANGED <<rowVars, docVars>>

(* PowerbaseDatabase#listen!, or its loop calling listen! again.           *)
ListenerStarts(l) ==
  /\ l \notin on
  /\ on' = on \cup {l}
  /\ UNCHANGED <<rowVars, docVars, feed, busy, drifted>>

-----------------------------------------------------------------------------
(* A table just indexed, with its listener running or not yet polled.      *)
FeedInit ==
  /\ remote \in [Keys -> {0, 1}] /\ clock = 1 /\ MaxVersion >= 1
  /\ docs = Live /\ body = remote
  /\ on \in SUBSET Threads
  /\ feed = [l \in Threads |-> <<>>] /\ busy = [l \in Threads |-> Idle]
  /\ drifted = {}

Handles(l) == ListenerTakes(l) \/ ListenerWrites(l)

FeedNext ==
  \/ RemoteChange
  \/ \E l \in Threads : Handles(l) \/ ListenerStops(l) \/ ListenerStarts(l)

FeedSpec ==
  /\ FeedInit /\ [][FeedNext]_feedVars
  /\ \A l \in Threads : WF_feedVars(Handles(l)) /\ WF_feedVars(ListenerStarts(l))

-----------------------------------------------------------------------------
(* Properties. *)

Agree(k) == (k \in docs <=> k \in Live) /\ body[k] = remote[k]

(* However many threads handle the same notifications, each at its own     *)
(* pace, the document of a key agrees with its row unless a change of it   *)
(* is still on its way or one was lost.                                    *)
Accounted == \A k \in Keys : Agree(k) \/ Pending(k) \/ k \in drifted

(* Every change that is not lost reaches the index.                        *)
ChangesArrive == \A k \in Keys : []<>(Agree(k) \/ k \in drifted)

(* Powerbase::Listener "No inserted record found." returns before a        *)
(* document is written for a row that is gone: no document without fields. *)
NoEmptyDocument == \A k \in docs : body[k] # 0
=============================================================================
