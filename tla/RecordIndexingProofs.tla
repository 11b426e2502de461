------------------------ MODULE RecordIndexingProofs ------------------------
(***************************************************************************)
(* Proofs about RecordIndexing, for any keys, sizes of a page and a sweep, *)
(* listener threads, requests and faults: its types, and that an index run *)
(* is complete, however often it crashed and was resumed.                  *)
(*                                                                         *)
(* What a run has done lives in the documents, so the invariant says of    *)
(* every row that the run has passed (Passed) that its document is there,  *)
(* is not marked for the sweep, and agrees with the row unless others have *)
(* written either (Done).  It holds of a run that is under way and of one  *)
(* that was interrupted, whose offset a retry goes on from; a run that the *)
(* cron sync marked as ended has nothing to keep once its job is gone.     *)
(***************************************************************************)
EXTENDS RecordIndexing, RecordWritesProofs, FiniteSetTheorems, WellFoundedInduction

UnderWay == pc # "idle" \/ status = "indexing_records"

Done(k) == k \in docs /\ mark[k] # "false" /\ (k \in touched \/ Agree(k))

(* The run will not come to k again: it lies before the offset, was written*)
(* from the page, or the run has read every page.                          *)
Passed(k) ==
  \/ Position(k) < offset
  \/ pc = "write" /\ Position(k) < offset + PageSize /\ \A p \in page : p.key # k
  \/ pc = "sweep"

PassedDone == \A k \in Live : Passed(k) => Done(k)
PageRight == \A p \in page : p.key \in Live /\ (p.key \in touched \/ p.row = remote[p.key])
SweepsDead == hits \cap Live = {}
CountRight == pc # "idle" => total = Cardinality(Live)

RunRight == steady /\ UnderWay => PassedDone /\ PageRight /\ SweepsDead /\ CountRight
InPlace == (pc # "write" => page = {}) /\ (pc # "sweep" => hits = {})
RunInv == IndexTypeOK /\ InPlace /\ RunRight

-----------------------------------------------------------------------------
(* Positions and pages                                                     *)

LEMMA LiveFinite ==
  /\ Live \subseteq Keys /\ IsFiniteSet(Live)
  /\ Cardinality(Live) \in 0..Cardinality(Keys)
<1>1. Live \subseteq Keys /\ IsFiniteSet(Keys)
  BY IndexAssumption DEF Live
<1>2. IsFiniteSet(Live) /\ Cardinality(Live) <= Cardinality(Keys)
  BY <1>1, FS_Subset
<1>3. Cardinality(Live) \in Nat /\ Cardinality(Keys) \in Nat
  BY <1>1, <1>2, FS_CardinalityType
<1>4. QED
  BY <1>1, <1>2, <1>3

(* The position of a live key is a number below that of the live keys.     *)
LEMMA Positions ==
  ASSUME NEW k \in Live
  PROVE  Position(k) \in Nat /\ Position(k) < Cardinality(Live)
<1> DEFINE before == {m \in Live : m < k}
<1>1. before \subseteq Live /\ k \notin before
  BY LiveFinite, IndexAssumption
<1>2. IsFiniteSet(before) /\ Cardinality(before) <= Cardinality(Live)
      /\ (Cardinality(before) = Cardinality(Live) => before = Live)
  BY <1>1, LiveFinite, FS_Subset
<1>3. Cardinality(before) \in Nat /\ Cardinality(Live) \in Nat
  BY <1>2, LiveFinite, FS_CardinalityType
<1>4. before # Live
  BY <1>1
<1>5. Cardinality(before) < Cardinality(Live)
  BY <1>2, <1>3, <1>4
<1>6. QED
  BY <1>3, <1>5 DEF Position

LEMMA LeastNumber ==
  ASSUME NEW S \in SUBSET Nat, S # {}
  PROVE  \E n \in S : \A m \in S : n <= m
<1> DEFINE R == OpToRel(<, Nat)
<1>1. IsWellFoundedOn(R, Nat)
  BY NatLessThanWellFounded
<1>2. \A m, n \in Nat : m < n => <<m, n>> \in R
  BY DEF OpToRel
<1> HIDE DEF R
<1>3. PICK n \in S : \A m \in S : ~ (<<m, n>> \in R)
  BY <1>1, WFMin
<1>4. \A m \in S : ~ (m < n)
  BY <1>2, <1>3
<1>5. QED
  BY <1>4

(* The record the job writes next is one of the page.                      *)
LEMMA FirstOfPage ==
  ASSUME IndexTypeOK, page # {}
  PROVE  First \in page /\ First.key \in Keys /\ First.row \in Version
<1> DEFINE S == {p.key : p \in page}
<1>1. \A p \in page : p.key \in Keys /\ p.key \in Nat /\ p.row \in Version
  BY IndexAssumption DEF IndexTypeOK
<1>2. S \in SUBSET Nat /\ S # {}
  BY <1>1
<1>3. \E n \in S : \A m \in S : n <= m
  BY <1>2, LeastNumber
<1>4. \E p \in page : \A q \in page : p.key <= q.key
  BY <1>3
<1>5. First \in page
  BY <1>4 DEF First
<1>6. QED
  BY <1>1, <1>5

-----------------------------------------------------------------------------
(* The types                                                               *)

LEMMA BeginTypes ==
  ASSUME WriteTypeOK, NEW r \in Requests, NEW left \in Left, Begin(r, left)
  PROVE  request' \in [Requests -> Left \cup {NoRequest}] /\ contended' \in SUBSET Keys
BY LeftFields DEF Begin, WriteTypeOK

LEMMA ZeroIsVersion == 0 \in Version
BY FeedAssumption DEF Version

LEMMA StartTypes ==
  ASSUME WriteTypeOK, NEW r \in Requests, Starts(r)
  PROVE  WriteTypeOK'
<1>1. PICK k \in Keys : \/ AddRecord(r, k) \/ UpdateRecord(r, k) \/ UpdateGoneRecord(r, k)
                        \/ SyncRecord(r, k) \/ DeleteRecord(r, k)
  BY DEF Starts
<1>2. FeedTypeOK /\ remote[k] \in Version /\ 0 \in Version
  BY ZeroIsVersion DEF WriteTypeOK, FeedTypeOK
<1>3. CASE AddRecord(r, k)
  <2>1. FeedTypeOK'
    BY <1>2, <1>3, TypeNext DEF AddRecord, FeedNext, RemoteChange
  <2>2. [pc |-> "upsert", key |-> k, row |-> clock'] \in Left
    BY <2>1 DEF Left, FeedTypeOK
  <2>3. QED
    BY <1>3, <2>1, <2>2, BeginTypes DEF AddRecord, WriteTypeOK
<1>4. CASE UpdateRecord(r, k)
  <2>1. FeedTypeOK'
    BY <1>2, <1>4, TypeNext DEF UpdateRecord, FeedNext, RemoteChange
  <2>2. [pc |-> "patch", key |-> k, from |-> remote[k], row |-> clock'] \in Left
    BY <1>2, <2>1 DEF Left, FeedTypeOK
  <2>3. QED
    BY <1>4, <2>1, <2>2, BeginTypes DEF UpdateRecord, WriteTypeOK
<1>5. CASE UpdateGoneRecord(r, k)
  <2>1. FeedTypeOK'
    BY <1>2, <1>5, TypeNext DEF UpdateGoneRecord
  <2>2. [pc |-> "patch", key |-> k, from |-> 0, row |-> 0] \in Left
    BY <1>2 DEF Left
  <2>3. QED
    BY <1>5, <2>1, <2>2, BeginTypes DEF UpdateGoneRecord, WriteTypeOK
<1>6. CASE SyncRecord(r, k)
  <2>1. FeedTypeOK'
    BY <1>2, <1>6, TypeNext DEF SyncRecord
  <2>2. [pc |-> "refresh", key |-> k, row |-> remote[k]] \in Left
    BY <1>2 DEF Left
  <2>3. QED
    BY <1>6, <2>1, <2>2, BeginTypes DEF SyncRecord, WriteTypeOK
<1>7. CASE DeleteRecord(r, k)
  <2>1. FeedTypeOK'
    BY <1>2, <1>7 DEF DeleteRecord, DeleteDoc, rowVars, FeedTypeOK
  <2>2. [pc |-> "remove", key |-> k] \in Left
    BY DEF Left
  <2>3. QED
    BY <1>7, <2>1, <2>2, BeginTypes DEF DeleteRecord, WriteTypeOK
<1>8. QED
  BY <1>1, <1>3, <1>4, <1>5, <1>6, <1>7

LEMMA UpsertTypes ==
  ASSUME FeedTypeOK, NEW k \in Keys, NEW row \in Version, Upsert(k, row)
  PROVE  docs' \in SUBSET Keys /\ body' \in [Keys -> Version]
BY DEF Upsert, FeedTypeOK

LEMMA EndTypes ==
  ASSUME WriteTypeOK, NEW r \in Requests, End(r)
  PROVE  request' \in [Requests -> Left \cup {NoRequest}]
BY DEF End, WriteTypeOK

LEMMA DocumentTypes ==
  ASSUME WriteTypeOK, NEW r \in Requests, WriteDocument(r)
  PROVE  WriteTypeOK'
<1> DEFINE q == request[r]
<1>1. q.pc \in {"upsert", "refresh", "patch"} /\ q \in Left /\ FeedTypeOK
  BY RequestTypes DEF WriteDocument, InProgress, WriteTypeOK
<1>2. q.key \in Keys /\ q.row \in Version
  BY <1>1, LeftFields
<1>3. docs' \in SUBSET Keys /\ body' \in [Keys -> Version]
  <2>1. CASE Upsert(q.key, q.row)
    BY <1>1, <1>2, <2>1, UpsertTypes
  <2>2. CASE Patch(q.key, q.from, q.row)
    <3>1. PICK b \in Patched(body[q.key], q.from, q.row) : body' = [body EXCEPT ![q.key] = b]
      BY <2>2 DEF Patch
    <3>2. b \in {q.row, body[q.key], 0}
      BY <3>1 DEF Patched
    <3>3. b \in Version
      BY <1>1, <1>2, <3>2, ZeroIsVersion DEF FeedTypeOK
    <3>4. QED
      BY <1>1, <2>2, <3>1, <3>3 DEF Patch, FeedTypeOK
  <2>3. CASE UNCHANGED docVars
    BY <1>1, <2>3 DEF docVars, FeedTypeOK
  <2>4. QED
    BY <2>1, <2>2, <2>3 DEF WriteDocument
<1>4. /\ drifted' \subseteq drifted /\ UNCHANGED <<remote, clock, on, feed, busy, contended>>
      /\ End(r)
  BY DEF WriteDocument, rowVars
<1>5. QED
  BY <1>1, <1>3, <1>4, EndTypes DEF FeedTypeOK, WriteTypeOK

LEMMA RemoveTypes ==
  ASSUME WriteTypeOK, NEW r \in Requests, RemoveRow(r)
  PROVE  WriteTypeOK'
<1>1. request[r].pc = "remove" /\ request[r] \in Left /\ FeedTypeOK
  BY RequestTypes DEF RemoveRow, InProgress, WriteTypeOK
<1>2. request[r].key \in Keys
  BY <1>1, LeftFields
<1>3. FeedTypeOK'
  <2>1. CASE Delete(request[r].key)
    <3>1. RemoteChange
      BY <1>2, <2>1 DEF RemoveRow, RemoteChange
    <3>2. QED
      BY <1>1, <3>1, TypeNext DEF FeedNext
  <2>2. CASE UNCHANGED <<rowVars, feed, drifted>>
    BY <1>1, <2>2 DEF RemoveRow, rowVars, docVars, FeedTypeOK
  <2>3. QED
    BY <2>1, <2>2 DEF RemoveRow
<1>4. QED
  BY <1>3, EndTypes DEF RemoveRow, WriteTypeOK

LEMMA WriteTypesKeep == WriteTypeOK /\ WriteNext => WriteTypeOK'
<1> SUFFICES ASSUME WriteTypeOK, WriteNext PROVE WriteTypeOK'
  OBVIOUS
<1>1. CASE FeedStep
  BY <1>1, TypeNext DEF FeedStep, WriteTypeOK
<1>2. ASSUME NEW r \in Requests, RequestDies(r) PROVE WriteTypeOK'
  <2>1. request[r].key \in Keys
    BY <1>2, RequestTypes, LeftFields DEF RequestDies
  <2>2. FeedTypeOK'
    BY <1>2, TypeNext DEF RequestDies, WriteTypeOK
  <2>3. QED
    BY <1>2, <2>1, <2>2, EndTypes DEF RequestDies, WriteTypeOK
<1>3. QED
  BY <1>1, <1>2, StartTypes, DocumentTypes, RemoveTypes DEF WriteNext

LEMMA IndexTypeInit == IndexInit => IndexTypeOK
<1> SUFFICES ASSUME IndexInit PROVE IndexTypeOK
  OBVIOUS
<1>1. {0, 2} \subseteq Version /\ 0..2 \subseteq Version /\ 2 \in Version
  BY FeedAssumption DEF IndexInit, Version
<1>2. <<>> \in Seq(Notification)
  BY EmptySeq
<1>3. FeedTypeOK
  BY <1>1, <1>2 DEF IndexInit, FeedTypeOK
<1>4. WriteTypeOK
  BY <1>3 DEF IndexInit, WriteTypeOK
<1>5. 0 \in 0..Cardinality(Keys) /\ 0 \in 0..MaxFaults
  BY IndexAssumption, FS_CardinalityType
<1>6. QED
  BY <1>4, <1>5 DEF IndexInit, IndexTypeOK

(* Steps that write neither rows nor documents, and are no request's       *)
LEMMA IndexTypeNext == IndexTypeOK /\ [IndexNext]_allVars => IndexTypeOK'
<1> SUFFICES ASSUME IndexTypeOK, [IndexNext]_allVars PROVE IndexTypeOK'
  OBVIOUS
<1>0. /\ WriteTypeOK /\ 0 \in 0..Cardinality(Keys) /\ offset + PageSize \in Nat
      /\ Cardinality(Live) \in 0..Cardinality(Keys)
      /\ Fault => faults' \in 0..MaxFaults
  <2>1. offset + PageSize \in Nat /\ (Fault => faults' \in 0..MaxFaults)
    BY IndexAssumption DEF IndexTypeOK, Fault
  <2>2. 0 \in 0..Cardinality(Keys) /\ Cardinality(Live) \in 0..Cardinality(Keys)
    BY LiveFinite, IndexAssumption, FS_CardinalityType
  <2>3. QED
    BY <2>1, <2>2 DEF IndexTypeOK
<1>1. ASSUME UNCHANGED writeVars PROVE WriteTypeOK'
  BY <1>0, <1>1 DEF writeVars, WriteTypeOK, FeedTypeOK
<1>2. CASE IndexStarts
  <2>1. mark' \in [Keys -> {"none", "false", "true"}]
    BY <1>2 DEF IndexStarts, Marked, IndexTypeOK
  <2>2. queued' \in BOOLEAN /\ steady' \in BOOLEAN
    BY <1>2 DEF IndexStarts, IndexTypeOK, sinceVars
  <2>3. offset' \in Nat /\ touched' \in SUBSET Keys
    BY <1>2 DEF IndexStarts, IndexTypeOK, sinceVars
  <2>4. pc' \in {"idle", "page", "write", "sweep"} /\ status' \in {"indexing_records", "migrated"}
    BY <1>2 DEF IndexStarts, IndexTypeOK
  <2>5. WriteTypeOK' /\ UNCHANGED <<page, hits, faults>> /\ total' \in 0..Cardinality(Keys)
    BY <1>0, <1>1, <1>2 DEF IndexStarts
  <2>6. QED
    BY <2>1, <2>2, <2>3, <2>4, <2>5 DEF IndexTypeOK
<1>3. CASE IndexRejected
  BY <1>1, <1>3 DEF IndexRejected, IndexTypeOK, jobVars, sinceVars
<1>4. CASE IndexFetches
  <2>1. page' \in SUBSET [key : Keys, row : Version]
    BY <1>0, <1>4 DEF IndexFetches, PageAt, Live, WriteTypeOK, FeedTypeOK
  <2>2. QED
    BY <1>0, <1>1, <1>4, <2>1 DEF IndexFetches, IndexTypeOK, sinceVars
<1>5. CASE IndexWrites
  <2>1. First.key \in Keys /\ First.row \in Version
    BY <1>5, FirstOfPage DEF IndexWrites
  <2>2. docs' \in SUBSET Keys /\ body' \in [Keys -> Version]
    BY <1>0, <1>5, <2>1, UpsertTypes DEF IndexWrites, WriteTypeOK
  <2>3. WriteTypeOK'
    BY <1>0, <1>5, <2>2 DEF IndexWrites, WriteTypeOK, FeedTypeOK, rowVars
  <2>4. QED
    BY <1>5, <2>3 DEF IndexWrites, IndexTypeOK, sinceVars
<1>6. CASE IndexSkips
  BY <1>0, <1>1, <1>6 DEF IndexSkips, IndexTypeOK
<1>7. CASE IndexLogs
  BY <1>0, <1>1, <1>7 DEF IndexLogs, IndexTypeOK, sinceVars
<1>8. CASE IndexSearches
  BY <1>1, <1>8 DEF IndexSearches, Unmarked, IndexTypeOK, WriteTypeOK, FeedTypeOK, sinceVars
<1>9. CASE IndexSweeps
  <2>1. PICK k \in hits \cap docs : /\ DeleteDoc(k) /\ mark' = [mark EXCEPT ![k] = "none"]
                                    /\ hits' = hits \ {k}
    BY <1>9 DEF IndexSweeps
  <2>2. WriteTypeOK'
    BY <1>0, <1>9, <2>1, ZeroIsVersion DEF IndexSweeps, DeleteDoc, WriteTypeOK, FeedTypeOK, rowVars
  <2>3. QED
    BY <1>9, <2>1, <2>2 DEF IndexSweeps, IndexTypeOK, sinceVars
<1>10. CASE IndexFindsGone
  BY <1>0, <1>1, <1>10 DEF IndexFindsGone, Ends, IndexTypeOK, sinceVars
<1>11. CASE IndexCrashes
  BY <1>0, <1>1, <1>11 DEF IndexCrashes, Ends, IndexTypeOK, sinceVars
<1>12. CASE IndexCleans
  BY <1>0, <1>1, <1>12 DEF IndexCleans, Ends, IndexTypeOK, sinceVars
<1>13. CASE CronSyncs
  BY <1>1, <1>13 DEF CronSyncs, IndexTypeOK, sinceVars
<1>14. CASE OthersStep
  <2>1. WriteTypeOK'
    BY <1>0, <1>14, WriteTypesKeep DEF OthersStep
  <2>2. touched' \in SUBSET Keys /\ mark' \in [Keys -> {"none", "false", "true"}]
    BY <1>14 DEF OthersStep, IndexTypeOK
  <2>3. steady' \in BOOLEAN
    BY <1>14 DEF OthersStep, IndexTypeOK
  <2>4. QED
    BY <1>14, <2>1, <2>2, <2>3 DEF OthersStep, IndexTypeOK, jobVars
<1>15. CASE UNCHANGED allVars
  BY <1>1, <1>15 DEF allVars, indexVars, jobVars, sinceVars, IndexTypeOK
<1>16. QED
  BY <1>2, <1>3, <1>4, <1>5, <1>6, <1>7, <1>8, <1>9, <1>10, <1>11, <1>12, <1>13, <1>14, <1>15
     DEF IndexNext, IndexJob

(* The types hold in every reachable state, whatever the job and everybody *)
(* else are at.                                                            *)
THEOREM IndexTypeCorrect == IndexSpec => []IndexTypeOK
BY IndexTypeInit, IndexTypeNext, PTL DEF IndexSpec

-----------------------------------------------------------------------------
(* The run                                                                 *)

LEMMA RunInit == IndexInit => InPlace /\ RunRight
BY DEF IndexInit, InPlace, RunRight

(* Steps of the job, and the faults, that leave rows and documents alone   *)
LEMMA JobKeeps ==
  ASSUME RunInv, IndexTypeOK', UNCHANGED writeVars,
         \/ IndexStarts \/ IndexRejected \/ IndexFetches \/ IndexSkips \/ IndexLogs
         \/ IndexSearches \/ IndexFindsGone \/ IndexCrashes \/ IndexCleans \/ CronSyncs
  PROVE  InPlace' /\ RunRight'
<1>0. /\ Live' = Live /\ \A k : Position(k)' = Position(k)
      /\ UNCHANGED <<remote, docs, body>>
      /\ RunRight /\ InPlace /\ IndexTypeOK
      /\ PageSize \in Nat \ {0} /\ offset \in Nat
      /\ \A k \in Live : Position(k) \in Nat /\ Position(k) < Cardinality(Live)
  BY Positions, IndexAssumption DEF Live, Position, writeVars, RunInv, IndexTypeOK
<1>1. ASSUME UNCHANGED <<mark, touched>>, NEW k, Done(k) PROVE Done(k)'
  BY <1>0, <1>1 DEF Done, Agree, Live
<1>2. CASE IndexStarts
  <2>1. InPlace'
    BY <1>0, <1>2 DEF IndexStarts, InPlace
  <2>2. CASE status = "indexing_records" /\ Live # {}
    <3>1. /\ UNCHANGED <<mark, touched, steady, offset>> /\ pc = "idle" /\ pc' = "page"
          /\ page = {} /\ hits = {} /\ UNCHANGED <<page, hits>> /\ total' = Cardinality(Live)
      BY <1>0, <1>2, <2>2 DEF IndexStarts, sinceVars, InPlace
    <3>2. \A k \in Live : Passed(k)' => Passed(k)
      BY <1>0, <3>1 DEF Passed
    <3>3. QED
      BY <1>0, <1>1, <2>1, <2>2, <3>1, <3>2
         DEF RunRight, UnderWay, PassedDone, PageRight, SweepsDead, CountRight
  <2>3. CASE status # "indexing_records" /\ Live # {}
    <3>1. /\ offset' = 0 /\ pc' = "page" /\ page = {} /\ hits = {} /\ UNCHANGED <<page, hits>>
          /\ total' = Cardinality(Live)
      BY <1>0, <1>2, <2>3 DEF IndexStarts, InPlace
    <3>2. \A k \in Live : ~ Passed(k)'
      BY <1>0, <3>1 DEF Passed
    <3>3. QED
      BY <1>0, <2>1, <3>1, <3>2 DEF RunRight, PassedDone, PageRight, SweepsDead, CountRight
  <2>4. CASE Live = {}
    <3>1. ~ UnderWay'
      BY <1>2, <2>4 DEF IndexStarts, UnderWay
    <3>2. QED
      BY <2>1, <3>1 DEF RunRight
  <2>5. QED
    BY <2>2, <2>3, <2>4
<1>3. CASE IndexRejected
  BY <1>0, <1>1, <1>3
     DEF IndexRejected, jobVars, sinceVars, InPlace, RunRight, UnderWay, PassedDone, Passed,
         PageRight, SweepsDead, CountRight
<1>4. CASE IndexFetches
  <2>1. InPlace'
    BY <1>0, <1>4 DEF IndexFetches, InPlace
  <2>2. /\ UNCHANGED <<mark, touched, steady, offset, hits>> /\ pc = "page" /\ pc' = "write"
        /\ page' = PageAt(offset) /\ total' = Cardinality(Live)
    BY <1>4 DEF IndexFetches, sinceVars
  <2>3. ASSUME NEW k \in Live, Passed(k)' PROVE Passed(k)
    <3>1. Position(k) < offset \/ (Position(k) < offset + PageSize /\ \A p \in PageAt(offset) : p.key # k)
      BY <1>0, <2>2, <2>3 DEF Passed
    <3>2. ASSUME Position(k) \in offset .. (offset + PageSize - 1)
          PROVE  \E p \in PageAt(offset) : p.key = k
      <4>1. [key |-> k, row |-> remote[k]] \in PageAt(offset)
        BY <3>2 DEF PageAt
      <4>2. QED
        BY <4>1
    <3>3. CASE Position(k) >= offset
      <4>1. Position(k) \in offset .. (offset + PageSize - 1)
        BY <1>0, <3>1, <3>3
      <4>2. QED
        BY <1>0, <3>1, <3>2, <3>3, <4>1
    <3>4. QED
      BY <1>0, <3>3 DEF Passed
  <2>4. PageRight'
    BY <1>0, <2>2 DEF PageRight, PageAt
  <2>5. QED
    BY <1>0, <1>1, <2>1, <2>2, <2>3, <2>4
       DEF RunRight, UnderWay, PassedDone, SweepsDead, CountRight
<1>5. CASE IndexSkips
  BY <1>0, <1>5 DEF IndexSkips, InPlace, RunRight
<1>6. CASE IndexLogs
  <2>1. /\ UNCHANGED <<mark, touched, steady, hits, page, total>> /\ pc = "write" /\ pc' = "page"
        /\ page = {} /\ offset' = offset + PageSize
    BY <1>6 DEF IndexLogs, sinceVars
  <2>2. \A k \in Live : Passed(k)' => Passed(k)
    BY <1>0, <2>1 DEF Passed
  <2>3. QED
    BY <1>0, <1>1, <2>1, <2>2
       DEF InPlace, RunRight, UnderWay, PassedDone, PageRight, SweepsDead, CountRight
<1>7. CASE IndexSearches
  <2>1. /\ UNCHANGED <<mark, touched, steady, page, total, status>> /\ pc = "page" /\ pc' = "sweep"
        /\ offset >= total /\ hits' \subseteq Unmarked
    BY <1>7 DEF IndexSearches, sinceVars
  <2>2. InPlace'
    BY <1>0, <2>1 DEF InPlace
  <2>3. SUFFICES ASSUME steady PROVE PassedDone' /\ PageRight' /\ SweepsDead' /\ CountRight'
    BY <2>1, <2>2 DEF RunRight
  <2>4. PassedDone /\ PageRight /\ total = Cardinality(Live)
    BY <1>0, <2>1, <2>3 DEF RunRight, UnderWay, CountRight
  <2>5. ASSUME NEW k \in Live PROVE Done(k)
    <3>1. Position(k) < offset
      BY <1>0, <2>1, <2>4, LiveFinite, FS_CardinalityType
    <3>2. QED
      BY <2>4, <3>1 DEF PassedDone, Passed
  <2>6. PassedDone' /\ PageRight' /\ CountRight'
    BY <1>0, <1>1, <2>1, <2>4, <2>5 DEF PassedDone, PageRight, CountRight
  <2>7. SweepsDead'
    BY <1>0, <2>1, <2>5 DEF SweepsDead, Unmarked, Done
  <2>8. QED
    BY <2>6, <2>7
<1>8. CASE pc # "idle" /\ Ends /\ UNCHANGED <<mark, offset, status, sinceVars>>
  <2>1. \A k \in Live : Passed(k)' => Passed(k)
    BY <1>0, <1>8 DEF Passed, Ends
  <2>2. InPlace'
    BY <1>8 DEF InPlace, Ends
  <2>3. QED
    BY <1>0, <1>1, <1>8, <2>1, <2>2
       DEF Ends, sinceVars, RunRight, UnderWay, PassedDone, PageRight, SweepsDead, CountRight
<1>9. CASE IndexCleans
  BY <1>9 DEF IndexCleans, Ends, InPlace, RunRight, UnderWay
<1>10. CASE CronSyncs
  <2>1. InPlace'
    BY <1>0, <1>10 DEF CronSyncs, InPlace
  <2>2. UnderWay' => UnderWay
    BY <1>10 DEF CronSyncs, UnderWay
  <2>3. \A k \in Live : Passed(k)' => Passed(k)
    BY <1>0, <1>10 DEF CronSyncs, Passed
  <2>4. QED
    BY <1>0, <1>1, <1>10, <2>1, <2>2, <2>3
       DEF CronSyncs, sinceVars, RunRight, PassedDone, PageRight, SweepsDead, CountRight
<1>11. QED
  BY <1>2, <1>3, <1>4, <1>5, <1>6, <1>7, <1>8, <1>9, <1>10 DEF IndexFindsGone, IndexCrashes

(* One record of the page is written, and marked as in sync.               *)
LEMMA WritingKeeps ==
  ASSUME RunInv, IndexTypeOK', IndexWrites
  PROVE  InPlace' /\ RunRight'
<1>1. PICK f \in page : f = First /\ f.key \in Keys /\ f.row \in Version
  BY FirstOfPage DEF RunInv, IndexWrites
<1>2. /\ UNCHANGED <<remote, pc, offset, total, hits, status, steady, touched>>
      /\ pc = "write" /\ page' = page \ {f} /\ mark' = [mark EXCEPT ![f.key] = "true"]
      /\ Upsert(f.key, f.row)
  BY <1>1 DEF IndexWrites, rowVars, sinceVars
<1>3. InPlace'
  BY <1>2 DEF RunInv, InPlace
<1>4. SUFFICES ASSUME steady PROVE PassedDone' /\ PageRight' /\ SweepsDead' /\ CountRight'
  BY <1>2, <1>3 DEF RunRight
<1>5. PassedDone /\ PageRight /\ SweepsDead /\ CountRight
  BY <1>2, <1>4 DEF RunInv, RunRight, UnderWay
<1>6. /\ Live' = Live /\ \A k : Position(k)' = Position(k)
      /\ mark'[f.key] = "true" /\ \A k \in Keys \ {f.key} : mark'[k] = mark[k]
      /\ docs' = docs \cup {f.key}
      /\ body'[f.key] = (IF f.row = 0 THEN body[f.key] ELSE f.row)
      /\ \A k \in Keys \ {f.key} : body'[k] = body[k]
  BY <1>1, <1>2 DEF Live, Position, Upsert, RunInv, IndexTypeOK, WriteTypeOK, FeedTypeOK
<1>7. Done(f.key)'
  <2>1. f.key \in Live /\ (f.key \in touched \/ f.row = remote[f.key])
    BY <1>1, <1>5 DEF PageRight
  <2>2. f.key \notin touched => Agree(f.key)'
    BY <1>2, <1>6, <2>1 DEF Agree, Live
  <2>3. QED
    BY <1>2, <1>6, <2>2 DEF Done
<1>8. ASSUME NEW k \in Live, k # f.key, Passed(k)' PROVE Done(k)'
  <2>1. Passed(k)
    BY <1>2, <1>6, <1>8 DEF Passed
  <2>2. Done(k) /\ k \in Keys
    BY <1>5, <2>1 DEF PassedDone, Live
  <2>3. QED
    BY <1>2, <1>6, <1>8, <2>2 DEF Done, Agree
<1>9. PassedDone'
  BY <1>6, <1>7, <1>8 DEF PassedDone
<1>10. QED
  BY <1>2, <1>5, <1>6, <1>9 DEF PageRight, SweepsDead, CountRight

(* A document that is swept is not that of a live row.                     *)
LEMMA SweepingKeeps ==
  ASSUME RunInv, IndexTypeOK', IndexSweeps
  PROVE  InPlace' /\ RunRight'
<1>1. PICK h \in hits \cap docs : /\ DeleteDoc(h) /\ mark' = [mark EXCEPT ![h] = "none"]
                                  /\ hits' = hits \ {h}
  BY DEF IndexSweeps
<1>2. /\ UNCHANGED <<remote, pc, offset, total, page, status, steady, touched>> /\ pc = "sweep"
  BY DEF IndexSweeps, rowVars, sinceVars
<1>3. InPlace'
  BY <1>2 DEF RunInv, InPlace
<1>4. SUFFICES ASSUME steady PROVE PassedDone' /\ PageRight' /\ SweepsDead' /\ CountRight'
  BY <1>2, <1>3 DEF RunRight
<1>5. PassedDone /\ PageRight /\ SweepsDead /\ CountRight
  BY <1>2, <1>4 DEF RunInv, RunRight, UnderWay
<1>6. /\ Live' = Live /\ docs' = docs \ {h}
      /\ \A k \in Keys \ {h} : mark'[k] = mark[k] /\ body'[k] = body[k]
  BY <1>1, <1>2 DEF Live, DeleteDoc, RunInv, IndexTypeOK, WriteTypeOK, FeedTypeOK
<1>7. \A k \in Live : k # h /\ k \in Keys /\ Done(k)
  BY <1>1, <1>2, <1>5 DEF SweepsDead, PassedDone, Passed, Live
<1>8. PassedDone'
  BY <1>2, <1>6, <1>7 DEF PassedDone, Done, Agree
<1>9. QED
  BY <1>1, <1>2, <1>5, <1>6, <1>8 DEF PageRight, SweepsDead, CountRight

(* What others write they touch, and a run they keep steady loses nothing. *)
LEMMA OthersKeep ==
  ASSUME RunInv, IndexTypeOK', OthersStep
  PROVE  InPlace' /\ RunRight'
<1>1. /\ mark' = [k \in Keys |-> IF k \in docs' THEN mark[k] ELSE "none"]
      /\ steady' = (steady /\ Live' = Live /\ docs \subseteq docs')
      /\ touched' = touched \cup {k \in Keys : remote'[k] # remote[k] \/ body'[k] # body[k]}
      /\ UNCHANGED <<pc, offset, total, page, hits, status>>
  BY DEF OthersStep, jobVars
<1>2. InPlace'
  BY <1>1 DEF RunInv, InPlace
<1>3. SUFFICES ASSUME steady', UnderWay' PROVE PassedDone' /\ PageRight' /\ SweepsDead' /\ CountRight'
  BY <1>2 DEF RunRight
<1>4. /\ steady /\ UnderWay /\ Live' = Live /\ docs \subseteq docs'
      /\ \A k : Position(k)' = Position(k)
  BY <1>1, <1>3 DEF UnderWay, Position
<1>5. PassedDone /\ PageRight /\ SweepsDead /\ CountRight
  BY <1>4 DEF RunInv, RunRight
<1>6. ASSUME NEW k \in Live, Done(k) PROVE Done(k)'
  <2>1. k \in Keys /\ k \in docs'
    BY <1>4, <1>6 DEF Done, Live
  <2>2. mark'[k] # "false"
    BY <1>1, <1>6, <2>1 DEF Done
  <2>3. k \in touched' \/ Agree(k)'
    BY <1>1, <1>4, <1>6, <2>1 DEF Done, Agree
  <2>4. QED
    BY <2>1, <2>2, <2>3 DEF Done
<1>7. PassedDone'
  BY <1>1, <1>4, <1>5, <1>6 DEF PassedDone, Passed
<1>8. PageRight'
  <2> SUFFICES ASSUME NEW p \in page
               PROVE  p.key \in Live /\ (p.key \in touched' \/ p.row = remote'[p.key])
    BY <1>1, <1>4 DEF PageRight
  <2>1. p.key \in Live /\ p.key \in Keys /\ (p.key \in touched \/ p.row = remote[p.key])
    BY <1>5 DEF PageRight, Live
  <2>2. QED
    BY <1>1, <2>1
<1>9. QED
  BY <1>1, <1>4, <1>5, <1>7, <1>8 DEF SweepsDead, CountRight

LEMMA RunNext == RunInv /\ [IndexNext]_allVars => RunInv'
<1> SUFFICES ASSUME RunInv, [IndexNext]_allVars PROVE RunInv'
  OBVIOUS
<1>1. IndexTypeOK'
  BY IndexTypeNext DEF RunInv
<1>2. CASE UNCHANGED allVars
  <2>1. /\ UNCHANGED <<remote, docs, body, mark, pc, offset, total, page, hits, status, steady, touched>>
    BY <1>2 DEF allVars, writeVars, indexVars, jobVars, sinceVars
  <2>2. Live' = Live /\ \A k : Position(k)' = Position(k) /\ Done(k)' = Done(k)
    BY <2>1 DEF Live, Position, Done, Agree
  <2>3. QED
    BY <1>1, <2>1, <2>2 DEF RunInv, InPlace, RunRight, UnderWay, PassedDone, Passed, PageRight,
                            SweepsDead, CountRight
<1>3. ASSUME \/ IndexStarts \/ IndexRejected \/ IndexFetches \/ IndexSkips \/ IndexLogs
             \/ IndexSearches \/ IndexFindsGone \/ IndexCrashes \/ IndexCleans \/ CronSyncs
      PROVE  UNCHANGED writeVars
  BY <1>3 DEF IndexStarts, IndexRejected, IndexFetches, IndexSkips, IndexLogs, IndexSearches,
              IndexFindsGone, IndexCrashes, IndexCleans, CronSyncs
<1>4. QED
  BY <1>1, <1>2, <1>3, JobKeeps, WritingKeeps, SweepingKeeps, OthersKeep
     DEF IndexNext, IndexJob, RunInv

(* A run, however often it crashed and was resumed, and whoever else writes*)
(* rows and documents meanwhile, leaves every row with a document, unless  *)
(* rows came or went under its pages; what nobody else wrote agrees.       *)
THEOREM RunsAreComplete == IndexSpec => IndexComplete
<1>1. RunInv => (IndexCleans /\ steady =>
                   \A k \in Live : k \in docs /\ (k \in touched \/ Agree(k)))
  BY DEF RunInv, RunRight, UnderWay, PassedDone, Passed, Done, IndexCleans
<1>2. IndexInit => RunInv
  BY RunInit, IndexTypeInit DEF RunInv
<1>3. QED
  BY <1>1, <1>2, RunNext, PTL DEF IndexSpec, IndexComplete
=============================================================================
