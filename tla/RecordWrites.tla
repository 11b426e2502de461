---------------------------- MODULE RecordWrites ----------------------------
(***************************************************************************)
(* The requests of TableRecordsController that write a record of a turbo   *)
(* table (Powerbase::Model): each writes the remote row and the document   *)
(* in two steps, without a transaction over both, beside the listener of   *)
(* ChangeFeed, which is told of the same row change and writes the same    *)
(* document.  A request that dies between its steps is not resumed.        *)
(***************************************************************************)
EXTENDS ChangeFeed

CONSTANT Requests   \* requests in progress at a time

VARIABLES
  request,     \* per request, the step that is left and its data
  contended    \* history: keys two writers wrote at a time, or a dead request

writeVars == <<remote, docs, body, clock, on, feed, busy, drifted, request, contended>>

NoRequest == [pc |-> "none"]
Left == [pc : {"upsert", "refresh"}, key : Keys, row : Version]
        \cup [pc : {"patch"}, key : Keys, from : Version, row : Version]
        \cup [pc : {"remove"}, key : Keys]

WriteTypeOK ==
  /\ FeedTypeOK
  /\ request \in [Requests -> Left \cup {NoRequest}]
  /\ contended \in SUBSET Keys

Writing(k) == \E r \in Requests : request[r] # NoRequest /\ request[r].key = k

Begin(r, left) ==
  /\ request[r] = NoRequest
  /\ request' = [request EXCEPT ![r] = left]
  /\ contended' = IF Writing(left.key) THEN contended \cup {left.key} ELSE contended

End(r) == request' = [request EXCEPT ![r] = NoRequest]

-----------------------------------------------------------------------------
(* add_record: inserts the row and reads it back, then upserts the document*)
AddRecord(r, k) ==
  /\ Insert(k)
  /\ Begin(r, [pc |-> "upsert", key |-> k, row |-> clock'])
  /\ UNCHANGED <<docVars, on, busy>>

(* Mutant: the request does not keep the versions for the document. *)
UpdateRecordNoRow(r, k) ==
  /\ Update(k)
  /\ Begin(r, [pc |-> "patch", key |-> k])
  /\ UNCHANGED <<docVars, on, busy>>

(* update_remote_record: updates some columns of the row and goes on to the*)
(* same fields of the document, which is how `from' becomes `row'.         *)
UpdateRecord(r, k) ==
  /\ Update(k)
  /\ Begin(r, [pc |-> "patch", key |-> k, from |-> remote[k], row |-> clock'])
  /\ UNCHANGED <<docVars, on, busy>>

(* The update of a row that is gone changes no row, and still goes on.     *)
UpdateGoneRecord(r, k) ==
  /\ k \notin Live
  /\ Begin(r, [pc |-> "patch", key |-> k, from |-> 0, row |-> 0])
  /\ UNCHANGED feedVars

(* sync_record compares the document with the row and rewrites it.         *)
SyncRecord(r, k) ==
  /\ k \in docs /\ k \in Live /\ body[k] # remote[k]
  /\ Begin(r, [pc |-> "refresh", key |-> k, row |-> remote[k]])
  /\ UNCHANGED feedVars

(* A patch of a document that shows another version leaves a mixture,      *)
(* unless the document already shows what the patch changed.               *)
Patched(b, from, row) ==
  IF b \in {from, row} THEN {row} ELSE IF b > row THEN {b, 0} ELSE {0}

Patch(k, from, row) ==
  /\ \E b \in Patched(body[k], from, row) : body' = [body EXCEPT ![k] = b]
  /\ UNCHANGED docs

(* update_record of the helper: without doc_as_upsert it raises for a      *)
(* document that does not exist.                                           *)
WriteDocument(r) ==
  /\ LET q == request[r] IN
       \/ q.pc = "upsert" /\ Upsert(q.key, q.row)
       \/ q.pc = "refresh" /\ q.key \in docs /\ Upsert(q.key, q.row)
       \/ q.pc = "patch" /\ q.key \in docs /\ Patch(q.key, q.from, q.row)
       \/ q.pc \in {"refresh", "patch"} /\ q.key \notin docs /\ UNCHANGED docVars
  /\ drifted' = {k \in drifted : k # request[r].key \/ k \notin Live \/ body'[k] # remote[k]}
  /\ End(r)
  /\ UNCHANGED <<rowVars, on, feed, busy, contended>>

(* delete_merged_record: the document first, if there is one, then the row.*)
DeleteRecord(r, k) ==
  /\ DeleteDoc(k)
  /\ Begin(r, [pc |-> "remove", key |-> k])
  /\ UNCHANGED <<rowVars, on, feed, busy, drifted>>

(* Mutant: the row stays. *)
RemoveNothing(r) ==
  /\ request[r].pc = "remove"
  /\ End(r)
  /\ UNCHANGED <<feedVars, contended>>

RemoveRow(r) ==
  /\ request[r].pc = "remove"
  /\ \/ Delete(request[r].key)
     \/ request[r].key \notin Live /\ UNCHANGED <<rowVars, feed, drifted>>
  /\ End(r)
  /\ UNCHANGED <<docVars, on, busy, contended>>

(* The server dies, or Elasticsearch or the remote database refuses.       *)
RequestDies(r) ==
  /\ request[r] # NoRequest
  /\ End(r)
  /\ contended' = contended \cup {request[r].key}
  /\ UNCHANGED feedVars

(* The listener, and the other clients of the remote table.                *)
FeedStep ==
  /\ FeedNext
  /\ contended' = contended \cup {k \in Keys : Writing(k) /\ remote'[k] # remote[k]}
  /\ UNCHANGED request

-----------------------------------------------------------------------------
WriteInit ==
  /\ FeedInit
  /\ request = [r \in Requests |-> NoRequest] /\ contended = {}

Starts(r) ==
  \E k \in Keys : \/ AddRecord(r, k) \/ UpdateRecord(r, k) \/ UpdateGoneRecord(r, k)
                  \/ SyncRecord(r, k) \/ DeleteRecord(r, k)

WriteNext ==
  \/ FeedStep
  \/ \E r \in Requests : Starts(r) \/ WriteDocument(r) \/ RemoveRow(r) \/ RequestDies(r)

WriteSpec == WriteInit /\ [][WriteNext]_writeVars

-----------------------------------------------------------------------------
(* Properties. *)

(* Although a request and the listener both write the document of a changed*)
(* row, in any order, it agrees with the row once both are done, unless two*)
(* writers changed the row at a time, a request died or a change was lost. *)
WritesAccounted ==
  \A k \in Keys : \/ Agree(k) \/ Pending(k) \/ Writing(k)
                  \/ k \in drifted \/ k \in contended
=============================================================================
