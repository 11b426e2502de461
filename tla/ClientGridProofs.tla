-------------------------- MODULE ClientGridProofs --------------------------
(***************************************************************************)
(* What a table shows, for any rows, columns, views and conditions: its    *)
(* grid, the fields of its view, and the view's filters and sort.          *)
(*                                                                         *)
(* Each page has copies of what the server has, and settles on it once its *)
(* requests are done.  That is not inductive: the invariants say, of every *)
(* copy, which of the other copies, the requests under way and the fetch   *)
(* that was asked for will bring it there: Settling for the grid's rows,   *)
(* CacheFollows, ListFollows and ColumnsFollow for fields, OptionsFrom     *)
(* for filters and sort.  That removing a filter removes one rests on the  *)
(* ids of the form, which differ and are below the next (KidsKnown).       *)
(***************************************************************************)
EXTENDS ClientGrid, ClientFields, ClientFilters, ClientListsProofs, TLAPS

-----------------------------------------------------------------------------
(* Rows                                                                    *)

LEMMA PutRows ==
  ASSUME NEW rows \in Rows, NEW k \in RowKeys, NEW v \in RowValues
  PROVE  /\ Put(rows, k, v) \in Rows /\ Len(Put(rows, k, v)) = Len(rows)
         /\ DistinctKeys(rows) => DistinctKeys(Put(rows, k, v))
<1>1. /\ Put(rows, k, v) \in Rows /\ Len(Put(rows, k, v)) = Len(rows)
      /\ DOMAIN Put(rows, k, v) = DOMAIN rows
      BY DEF Put, Rows, Row
<1>2. \A i \in DOMAIN rows : Put(rows, k, v)[i].key = rows[i].key
      BY DEF Put, Rows, Row
<1> QED BY <1>1, <1>2 DEF DistinctKeys

(* The edit of a position is the edit of its key.                          *)
LEMMA PutIsPositional ==
  ASSUME NEW rows \in Rows, DistinctKeys(rows), NEW i \in DOMAIN rows, NEW v \in RowValues
  PROVE  [rows EXCEPT ![i].val = v] = Put(rows, rows[i].key, v)
<1> DEFINE a == [rows EXCEPT ![i].val = v]
           b == Put(rows, rows[i].key, v)
<1>1. DOMAIN a = DOMAIN rows /\ DOMAIN b = DOMAIN rows
      BY DEF Put
<1>2. ASSUME NEW j \in DOMAIN rows PROVE a[j] = b[j]
      <2>1. rows[j] \in Row /\ rows[i] \in Row
            BY DEF Rows
      <2>2. CASE j = i
            BY <2>1, <2>2 DEF Put, Row
      <2>3. CASE j # i
            <3>1. rows[j].key # rows[i].key
                  BY <2>3 DEF DistinctKeys
            <3> QED BY <2>3, <3>1 DEF Put
      <2> QED BY <2>2, <2>3
<1> QED BY <1>1, <1>2 DEF Put

LEMMA AppendRows ==
  ASSUME NEW rows \in Rows, NEW row \in Row
  PROVE  /\ Append(rows, row) \in Rows
         /\ DistinctKeys(rows) /\ ~ Has(rows, row.key) => DistinctKeys(Append(rows, row))
<1>1. /\ Append(rows, row) \in Rows /\ DOMAIN Append(rows, row) = 1..(Len(rows) + 1)
      /\ DOMAIN rows = 1..Len(rows) /\ Append(rows, row)[Len(rows) + 1] = row
      /\ \A i \in 1..Len(rows) : Append(rows, row)[i] = rows[i]
      /\ Len(rows) \in Nat
      BY DEF Rows
<1>2. ~ Has(rows, row.key) => \A i \in 1..Len(rows) : rows[i].key # row.key
      BY <1>1 DEF Has, At
<1> QED BY <1>1, <1>2 DEF DistinctKeys

LEMMA WithoutRows ==
  ASSUME NEW rows \in Rows, NEW k
  PROVE  /\ Without(rows, k) \in Rows
         /\ DistinctKeys(rows) => DistinctKeys(Without(rows, k))
<1> DEFINE i == CHOOSE i \in At(rows, k) : TRUE
<1>1. CASE ~ Has(rows, k)
      BY <1>1 DEF Without
<1>2. CASE Has(rows, k)
      <2>1. i \in At(rows, k)
            BY <1>2 DEF Has
      <2>2. i \in 1..Len(rows) /\ Len(rows) \in Nat
            BY <2>1 DEF At, Rows
      <2> DEFINE r == RemoveAt(rows, i)
      <2>3. Without(rows, k) = r
            BY <1>2 DEF Without
      <2> HIDE DEF i
      <2> DEFINE p == SubSeq(rows, 1, i - 1)
                 q == SubSeq(rows, i + 1, Len(rows))
                 n == Len(rows)
      <2>4. /\ p \in Seq(Row) /\ Len(p) = i - 1
            /\ \A j \in 1..(i - 1) : p[j] = rows[j]
            BY <2>2 DEF Rows
      <2>5. /\ q \in Seq(Row) /\ Len(q) = n - i
            /\ \A j \in 1..(n - i) : q[j] = rows[j + i]
            BY <2>2 DEF Rows
      <2>6. r = p \o q
            BY DEF RemoveAt
      <2> HIDE DEF p, q, r
      <2>7. r \in Seq(Row) /\ Len(r) = n - 1
            <3>1. r \in Seq(Row) /\ Len(r) = Len(p) + Len(q)
                  BY <2>4, <2>5, <2>6, ConcatProperties
            <3> QED BY <2>2, <2>4, <2>5, <3>1
      <2>8. ASSUME NEW j \in 1..(n - 1)
            PROVE  r[j] = IF j < i THEN rows[j] ELSE rows[j + 1]
            <3>1. CASE j < i
                  BY <2>2, <2>4, <2>5, <2>6, <3>1
            <3>2. CASE ~ (j < i)
                  <4>1. r[j] = q[j - (i - 1)] /\ j - (i - 1) \in 1..(n - i)
                        BY <2>2, <2>4, <2>5, <2>6, <3>2
                  <4>2. (j - (i - 1)) + i = j + 1
                        BY <2>2
                  <4> QED BY <2>5, <3>2, <4>1, <4>2
            <3> QED BY <3>1, <3>2
      <2>9. ASSUME DistinctKeys(rows), NEW j \in DOMAIN r, NEW m \in DOMAIN r, r[j].key = r[m].key
            PROVE  j = m
            <3>1. j \in 1..(n - 1) /\ m \in 1..(n - 1) /\ DOMAIN rows = 1..n
                  BY <2>2, <2>7, <2>9 DEF Rows
            <3> DEFINE old(h) == IF h < i THEN h ELSE h + 1
            <3>2. \A h \in 1..(n - 1) : old(h) \in 1..n /\ r[h] = rows[old(h)]
                  BY <2>2, <2>8
            <3>3. old(j) = old(m)
                  BY <2>9, <3>1, <3>2 DEF DistinctKeys
            <3> QED BY <2>2, <3>1, <3>3
      <2>10. DistinctKeys(rows) => DistinctKeys(r)
            BY <2>9 DEF DistinctKeys
      <2> QED BY <2>3, <2>7, <2>10 DEF Rows
<1> QED BY <1>1, <1>2
-----------------------------------------------------------------------------
(* What a request under way knows, as long as it is the only one: the rows *)
(* it found are the server's until the server has handled it, and then     *)
(* those it expects are.                                                   *)
GridExpects(w) ==
  /\ w.answer = "ok" => w.after = stored
  /\ w.answer # "ok" =>
       /\ w.before = stored /\ cached = stored
       /\ fetching[1] = "read" => fetching[2] = stored
  /\ w.answer = "none" => w.after = Applied(w)
  /\ w.op = "edit" \/ (w.op = "add" /\ w.answer # "ok") => totalRecords = Len(stored)

AtRest ==
  /\ shown = stored /\ cached = stored /\ totalRecords = Len(stored)
  /\ fetching[1] = "read" => fetching[2] = stored

Settling ==
  ~ excused =>
    /\ \A w, u \in writes : w = u
    /\ \A w \in writes : GridExpects(w)
    /\ writes = {} => AtRest

GridInv == GridTypeOK /\ DistinctKeys(stored) /\ Settling

LEMMA RowsAreCounted == ASSUME NEW rows \in Rows PROVE Len(rows) \in Nat
BY DEF Rows

LEMMA NothingFetched == NoFetch \in {"no", "asked", "read"} \X Rows /\ NoFetch[1] # "read"
BY EmptySeq DEF NoFetch, Rows

LEMMA GridInitInv == GridInit => GridInv
<1> SUFFICES ASSUME GridInit PROVE GridInv
    OBVIOUS
<1>1. stored \in Rows /\ DistinctKeys(stored)
      BY GridAssumption DEF GridInit, Rows
<1>2. GridTypeOK
      <2>1. actions \in 0..MaxActions /\ cellMenu \in Nat /\ writes \subseteq Write
            BY GridAssumption DEF GridInit
      <2> QED BY <1>1, <2>1, NothingFetched, RowsAreCounted, GridAssumption DEF GridInit, GridTypeOK
<1>3. Settling
      BY NothingFetched DEF GridInit, Settling, AtRest
<1> QED BY <1>1, <1>2, <1>3 DEF GridInv

(* A handler may start alone or beside others; alone, it starts from the   *)
(* server's rows.                                                          *)
LEMMA GridStartKeeps ==
  ASSUME GridInv, NEW w \in Write, Starts(w), w.answer = "none",
         shown' \in Rows, totalRecords' \in Nat, cellMenu' \in Nat,
         AtRest => /\ w.before = stored /\ w.after = Applied(w)
                   /\ w.op # "delete" => totalRecords' = totalRecords
  PROVE  GridInv'
<1>1. GridTypeOK'
      <2>1. actions' \in 0..MaxActions
            BY GridAssumption DEF GridInv, GridTypeOK, Starts
      <2>2. gridSaving' \in BOOLEAN /\ excused' \in BOOLEAN
            BY DEF Starts
      <2>3. writes' \subseteq Write
            BY DEF GridInv, GridTypeOK, Starts
      <2> QED BY <2>1, <2>2, <2>3 DEF GridInv, GridTypeOK, Starts
<1>2. DistinctKeys(stored)'
      BY DEF GridInv, Starts, DistinctKeys
<1>3. Settling'
      <2> SUFFICES ASSUME ~ excused'
                   PROVE  /\ \A v, u \in writes' : v = u
                          /\ \A v \in writes' : GridExpects(v)'
                          /\ writes' # {}
          BY DEF Settling
      <2>1. writes' = {w} /\ AtRest
            BY DEF GridInv, Settling, Starts
      <2>2. stored' = stored /\ cached' = cached /\ fetching' = fetching
            BY DEF Starts
      <2>3. Applied(w)' = Applied(w)
            BY <2>2 DEF Applied
      <2>4. GridExpects(w)'
            BY <2>1, <2>2, <2>3 DEF GridExpects, AtRest
      <2> QED BY <2>1, <2>4
<1> QED BY <1>1, <1>2, <1>3 DEF GridInv

LEMMA GridUserKeeps == GridInv /\ GridUser => GridInv'
<1> SUFFICES ASSUME GridInv, GridUser PROVE GridInv'
    OBVIOUS
<1> USE DEF GridInv, GridTypeOK
<1>1. CASE EditCell
      <2> PICK i \in DOMAIN shown, v \in RowValues :
            LET after == [shown EXCEPT ![i].val = v] IN
            /\ Starts(Request("edit", shown[i].key, v, after, "grid"))
            /\ shown' = after
            /\ UNCHANGED <<totalRecords, cellMenu>>
          BY <1>1 DEF EditCell
      <2> DEFINE after == [shown EXCEPT ![i].val = v]
                 w == Request("edit", shown[i].key, v, after, "grid")
      <2>1. shown[i] \in Row
            BY DEF Rows
      <2> HIDE DEF GridInv, GridTypeOK
      <2>4. after \in Rows
            <3>1. shown \in Seq(Row)
                  BY DEF GridInv, GridTypeOK, Rows
            <3>2. [shown[i] EXCEPT !.val = v] \in Row
                  BY <2>1 DEF Row
            <3> QED BY <3>1, <3>2 DEF Rows
      <2>2. w \in Write
            BY <2>1, <2>4 DEF Request, Write, Row, GridInv, GridTypeOK
      <2>3. AtRest => w.after = Applied(w)
            <3>1. w.op = "edit" /\ w.key = shown[i].key /\ w.val = v /\ w.after = after
                  BY DEF Request
            <3> HIDE DEF w
            <3>2. Applied(w) = Put(stored, shown[i].key, v)
                  BY <3>1 DEF Applied
            <3>3. AtRest => after = Put(shown, shown[i].key, v)
                  BY PutIsPositional DEF AtRest, GridInv, GridTypeOK
            <3> QED BY <3>1, <3>2, <3>3 DEF AtRest
      <2>5. totalRecords' \in Nat /\ cellMenu' \in Nat
            BY DEF GridInv, GridTypeOK
      <2> QED BY <2>2, <2>3, <2>4, <2>5, GridStartKeeps DEF AtRest, Request
<1>2. CASE EditRejected
      <2>1. actions' \in 0..MaxActions
            BY <1>2, GridAssumption DEF EditRejected
      <2>3. gridSaving' \in BOOLEAN
            BY <1>2 DEF EditRejected
      <2>2. GridTypeOK'
            BY <1>2, <2>1, <2>3 DEF EditRejected
      <2> QED BY <1>2, <2>2 DEF EditRejected, Settling, AtRest, GridExpects, Applied, DistinctKeys
<1>3. ASSUME NEW from \in {"grid", "modal"}, NEW showsNow \in BOOLEAN, Adds(from, showsNow)
      PROVE  GridInv'
      <2> PICK k \in RowKeys, v \in RowValues :
            LET after == Append(shown, [key |-> k, val |-> v]) IN
            /\ Starts(Request("add", k, v, after, from))
            /\ shown' = IF showsNow THEN after ELSE shown
            /\ UNCHANGED <<totalRecords, cellMenu>>
          BY <1>3 DEF Adds
      <2> DEFINE after == Append(shown, [key |-> k, val |-> v])
                 w == Request("add", k, v, after, from)
      <2>1. after \in Rows
            BY AppendRows DEF Row
      <2>2. w \in Write
            BY <2>1 DEF Request, Write
      <2>3. AtRest => w.after = Applied(w)
            BY DEF AtRest, Request, Applied
      <2> QED BY <2>1, <2>2, <2>3, GridStartKeeps DEF AtRest, Request
<1>4. CASE OpenCellMenu
      <2>1. cellMenu' \in Nat
            BY <1>4 DEF OpenCellMenu, Rows
      <2>2. GridTypeOK'
            BY <1>4, <2>1 DEF OpenCellMenu
      <2> QED BY <1>4, <2>2 DEF OpenCellMenu, Settling, AtRest, GridExpects, Applied, DistinctKeys
<1>5. CASE DeleteRow
      <2> DEFINE k == shown[cellMenu].key
                 after == Without(shown, k)
                 w == Request("delete", k, shown[cellMenu].val, after, "menu")
      <2>1. Starts(w) /\ shown' = after /\ totalRecords' = Len(after) /\ cellMenu' = 0
            BY <1>5 DEF DeleteRow
      <2>2. after \in Rows /\ Len(after) \in Nat
            BY WithoutRows, RowsAreCounted
      <2>3. shown[cellMenu] \in Row
            BY <1>5 DEF DeleteRow, Rows
      <2>4. w \in Write
            BY <2>2, <2>3 DEF Request, Write, Row
      <2>5. AtRest => w.after = Applied(w)
            BY DEF AtRest, Request, Applied
      <2> QED BY <2>1, <2>2, <2>4, <2>5, GridStartKeeps DEF AtRest, Request
<1>6. CASE DeleteRecord
      <2> PICK i \in DOMAIN shown :
            LET k == shown[i].key
                after == Without(cached, k) IN
            /\ Starts([Request("delete", k, shown[i].val, after, "modal") EXCEPT !.before = cached])
            /\ shown' = after /\ totalRecords' = Len(after)
            /\ UNCHANGED cellMenu
          BY <1>6 DEF DeleteRecord
      <2> DEFINE k == shown[i].key
                 after == Without(cached, k)
                 w == [Request("delete", k, shown[i].val, after, "modal") EXCEPT !.before = cached]
      <2>1. after \in Rows /\ Len(after) \in Nat
            BY WithoutRows, RowsAreCounted
      <2>2. shown[i] \in Row
            BY DEF Rows
      <2>3. w \in Write
            BY <2>1, <2>2 DEF Request, Write, Row
      <2>4. AtRest => w.before = stored /\ w.after = Applied(w)
            BY DEF AtRest, Request, Applied
      <2> QED BY <2>1, <2>3, <2>4, GridStartKeeps DEF Request
<1> QED BY <1>1, <1>2, <1>3, <1>4, <1>5, <1>6 DEF GridUser, AddRow, AddRecord

LEMMA AppliedRows ==
  ASSUME GridInv, NEW w \in Write,
         w.op = "add" => ~ Has(stored, w.key)
  PROVE  /\ Applied(w) \in Rows /\ DistinctKeys(Applied(w))
         /\ w.op = "edit" => Len(Applied(w)) = Len(stored)
<1>1. /\ stored \in Rows /\ DistinctKeys(stored) /\ w.key \in RowKeys /\ w.val \in RowValues
      /\ w.op \in {"edit", "add", "delete"}
      BY DEF GridInv, GridTypeOK, Write
<1>2. CASE w.op = "edit"
      BY <1>1, <1>2, PutRows DEF Applied
<1>3. CASE w.op = "add"
      <2> DEFINE row == [key |-> w.key, val |-> w.val]
      <2>1. row \in Row /\ row.key = w.key
            BY <1>1 DEF Row
      <2>2. Applied(w) = Append(stored, row)
            BY <1>3 DEF Applied
      <2> HIDE DEF row
      <2> QED BY <1>1, <1>3, <2>1, <2>2, AppendRows
<1>4. CASE w.op = "delete"
      BY <1>1, <1>4, WithoutRows DEF Applied
<1> QED BY <1>1, <1>2, <1>3, <1>4

LEMMA HandledKeeps == ASSUME GridInv, NEW w \in writes, Handled(w) PROVE GridInv'
<1> USE DEF Handled
<1>1. w \in Write
      BY DEF GridInv, GridTypeOK
<1> DEFINE ok == [w EXCEPT !.answer = "ok"]
           error == [w EXCEPT !.answer = "error"]
<1>2. ok \in Write /\ error \in Write
      BY <1>1 DEF Write
<1>3. CASE /\ w.op = "add" => ~ Has(stored, w.key)
           /\ stored' = Applied(w)
           /\ writes' = (writes \ {w}) \cup {ok}
      <2>1. /\ stored' \in Rows /\ DistinctKeys(stored')
            /\ w.op = "edit" => Len(stored') = Len(stored)
            BY <1>1, <1>3, AppliedRows
      <2>2. GridTypeOK'
            BY <1>2, <1>3, <2>1 DEF GridInv, GridTypeOK
      <2>3. Settling'
            <3> SUFFICES ASSUME ~ excused PROVE writes' = {ok} /\ GridExpects(ok)'
                BY DEF Settling
            <3>1. writes' = {ok} /\ GridExpects(w)
                  BY <1>3 DEF GridInv, Settling
            <3>2. ok.answer = "ok" /\ ok.after = w.after /\ ok.op = w.op
                  BY <1>1 DEF Write
            <3> HIDE DEF ok
            <3> QED BY <1>3, <2>1, <3>1, <3>2 DEF GridExpects
      <2> QED BY <2>1, <2>2, <2>3 DEF GridInv, DistinctKeys
<1>4. CASE writes' = (writes \ {w}) \cup {error} /\ stored' = stored
      <2>1. GridTypeOK'
            BY <1>2, <1>4 DEF GridInv, GridTypeOK
      <2>2. Settling'
            <3> SUFFICES ASSUME ~ excused PROVE writes' = {error} /\ GridExpects(error)'
                BY DEF Settling
            <3>1. writes' = {error} /\ GridExpects(w)
                  BY <1>4 DEF GridInv, Settling
            <3>2. error.answer = "error" /\ error.before = w.before /\ error.op = w.op
                  BY <1>1 DEF Write
            <3> HIDE DEF error
            <3> QED BY <1>4, <3>1, <3>2 DEF GridExpects
      <2> QED BY <1>4, <2>1, <2>2 DEF GridInv, DistinctKeys
<1> QED BY <1>3, <1>4

LEMMA AnsweredKeeps == ASSUME GridInv, NEW w \in writes, Succeeds(w) \/ Fails(w) PROVE GridInv'
<1>1. w \in Write /\ w.after \in Rows /\ w.before \in Rows
      BY DEF GridInv, GridTypeOK, Write
<1>2. CASE Succeeds(w)
      <2> USE <1>2 DEF Succeeds, Kept
      <2>1. fetching' \in {"no", "asked", "read"} \X Rows /\ gridSaving' \in BOOLEAN
            BY NothingFetched
      <2>2. totalRecords' \in Nat
            BY RowsAreCounted DEF GridInv, GridTypeOK
      <2>3. GridTypeOK'
            BY <1>1, <2>1, <2>2 DEF GridInv, GridTypeOK
      <2>4. Settling'
            <3> SUFFICES ASSUME ~ excused PROVE writes' = {} /\ AtRest'
                BY DEF Settling
            <3>1. writes' = {} /\ GridExpects(w)
                  BY DEF GridInv, Settling
            <3>2. fetching'[1] # "read"
                  BY NothingFetched
            <3> QED BY <3>1, <3>2 DEF GridExpects, AtRest
      <2> QED BY <2>3, <2>4 DEF GridInv, DistinctKeys
<1>3. CASE Fails(w)
      <2> USE <1>3 DEF Fails
      <2>1. gridSaving' \in BOOLEAN /\ excused' \in BOOLEAN
            BY DEF GridInv, GridTypeOK
      <2>2. totalRecords' \in Nat /\ shown' \in Rows
            BY <1>1, RowsAreCounted DEF GridInv, GridTypeOK
      <2>3. GridTypeOK'
            BY <2>1, <2>2 DEF GridInv, GridTypeOK
      <2>4. Settling'
            <3> SUFFICES ASSUME ~ excused' PROVE writes' = {} /\ AtRest'
                BY DEF Settling
            <3>1. w.from # "menu" /\ ~ excused
                  OBVIOUS
            <3>2. writes' = {} /\ GridExpects(w)
                  BY <3>1 DEF GridInv, Settling
            <3>3. w.op \in {"edit", "add", "delete"}
                  BY <1>1 DEF Write
            <3> QED BY <3>1, <3>2, <3>3 DEF GridExpects, AtRest
      <2> QED BY <2>3, <2>4 DEF GridInv, DistinctKeys
<1> QED BY <1>2, <1>3

LEMMA FetchKeeps == GridInv /\ (FocusAsks \/ FetchReads \/ FetchArrives \/ Rerender) => GridInv'
<1> SUFFICES ASSUME GridInv, FocusAsks \/ FetchReads \/ FetchArrives \/ Rerender PROVE GridInv'
    OBVIOUS
<1>1. <<"asked", <<>>>> \in {"no", "asked", "read"} \X Rows
      BY EmptySeq DEF Rows
<1>2. CASE FocusAsks
      <2>1. actions' \in 0..MaxActions
            BY <1>2, GridAssumption DEF FocusAsks, GridInv, GridTypeOK
      <2>2. GridTypeOK'
            BY <1>1, <1>2, <2>1 DEF FocusAsks, GridInv, GridTypeOK
      <2> QED BY <1>2, <2>2 DEF FocusAsks, GridInv, Settling, AtRest, GridExpects, Applied, DistinctKeys
<1>3. CASE FetchReads
      <2>1. GridTypeOK'
            BY <1>3 DEF FetchReads, GridInv, GridTypeOK
      <2> QED BY <1>3, <2>1 DEF FetchReads, GridInv, Settling, AtRest, GridExpects, Applied, DistinctKeys
<1>4. CASE FetchArrives
      <2>1. fetching[2] \in Rows /\ fetching' \in {"no", "asked", "read"} \X Rows
            BY <1>4, NothingFetched DEF FetchArrives, GridInv, GridTypeOK
      <2>2. totalRecords' \in Nat
            BY <1>4, RowsAreCounted DEF FetchArrives, GridInv, GridTypeOK
      <2>3. excused' \in BOOLEAN
            BY <1>4 DEF FetchArrives
      <2>4. GridTypeOK'
            BY <1>4, <2>1, <2>2, <2>3 DEF FetchArrives, GridInv, GridTypeOK
      <2>5. Settling'
            <3>1. fetching'[1] # "read"
                  BY <1>4, NothingFetched DEF FetchArrives
            <3>2. CASE excused
                  BY <1>4, <3>1, <3>2 DEF FetchArrives, Settling, AtRest
            <3>3. CASE ~ excused
                  BY <1>4, <3>1, <3>3 DEF FetchArrives, GridInv, Settling, AtRest, GridExpects, Applied
            <3> QED BY <3>2, <3>3
      <2> QED BY <1>4, <2>4, <2>5 DEF FetchArrives, GridInv, DistinctKeys
<1>5. CASE Rerender
      <2>1. GridTypeOK'
            BY <1>5 DEF Rerender, GridInv, GridTypeOK
      <2> QED BY <1>5, <2>1 DEF Rerender, GridInv, Settling, AtRest, GridExpects, Applied, DistinctKeys
<1> QED BY <1>2, <1>3, <1>4, <1>5

LEMMA GridPageKeeps == GridInv /\ (OthersWrite \/ VisitGrid) => GridInv'
<1> SUFFICES ASSUME GridInv, OthersWrite \/ VisitGrid PROVE GridInv'
    OBVIOUS
<1>1. CASE OthersWrite
      <2>1. PICK i \in DOMAIN stored, v \in RowValues :
              stored' \in {[stored EXCEPT ![i].val = v], Without(stored, stored[i].key)}
            BY <1>1 DEF OthersWrite
      <2>2. stored \in Rows /\ DistinctKeys(stored) /\ stored[i] \in Row
            BY DEF GridInv, GridTypeOK, Rows
      <2>3. stored' \in {Put(stored, stored[i].key, v), Without(stored, stored[i].key)}
            BY <2>1, <2>2, PutIsPositional
      <2>4. stored[i].key \in RowKeys
            BY <2>2 DEF Row
      <2>5. stored' \in Rows /\ DistinctKeys(stored')
            BY <2>2, <2>3, <2>4, PutRows, WithoutRows
      <2>6. fetching' \in {"no", "asked", "read"} \X Rows
            BY <1>1, EmptySeq DEF OthersWrite, Rows
      <2>7. actions' \in 0..MaxActions
            BY <1>1, GridAssumption DEF OthersWrite, GridInv, GridTypeOK
      <2>8. excused' \in BOOLEAN /\ Settling'
            BY <1>1 DEF OthersWrite, Settling
      <2>9. GridTypeOK'
            BY <1>1, <2>5, <2>6, <2>7, <2>8 DEF OthersWrite, GridInv, GridTypeOK
      <2> QED BY <2>5, <2>8, <2>9 DEF GridInv, DistinctKeys
<1>2. CASE VisitGrid
      <2>1. /\ fetching' \in {"no", "asked", "read"} \X Rows /\ fetching'[1] # "read"
            /\ totalRecords' \in Nat
            BY <1>2, NothingFetched, RowsAreCounted DEF VisitGrid, GridInv, GridTypeOK
      <2>2. gridSaving' \in BOOLEAN /\ excused' \in BOOLEAN
            BY <1>2 DEF VisitGrid
      <2>3. actions' \in 0..MaxActions
            BY <1>2, GridAssumption DEF VisitGrid
      <2>4. GridTypeOK'
            BY <1>2, <2>1, <2>2, <2>3 DEF VisitGrid, GridInv, GridTypeOK
      <2> QED BY <1>2, <2>1, <2>4 DEF VisitGrid, GridInv, Settling, AtRest, DistinctKeys
<1> QED BY <1>1, <1>2

LEMMA GridNextKeeps == GridInv /\ [GridNext]_gridVars => GridInv'
<1>1. ASSUME GridInv, UNCHANGED gridVars PROVE GridInv'
      <2>1. GridTypeOK' /\ DistinctKeys(stored)'
            BY <1>1 DEF gridVars, GridInv, GridTypeOK, DistinctKeys
      <2>2. Settling'
            BY <1>1 DEF gridVars, GridInv, Settling, AtRest, GridExpects, Applied
      <2> QED BY <2>1, <2>2 DEF GridInv
<1> QED BY <1>1, GridUserKeeps, HandledKeeps, AnsweredKeeps, FetchKeeps, GridPageKeeps DEF GridNext

(* The types of the grid hold in every reachable state, for any keys,      *)
(* values and bounds.                                                      *)
THEOREM GridTypeCorrect == GridSpec => []GridTypeOK
<1>1. GridInv => GridTypeOK
      BY DEF GridInv
<1> QED BY <1>1, GridInitInv, GridNextKeeps, PTL DEF GridSpec

(* A request that nothing overlaps but fetches leaves the grid with the    *)
(* server's rows and their number, whatever the order of the answers.      *)
THEOREM GridIsSettled == GridSpec => []GridSettles
<1>1. GridInv => GridSettles
      BY DEF GridInv, Settling, AtRest, GridSettles
<1> QED BY <1>1, GridInitInv, GridNextKeeps, PTL DEF GridSpec

-----------------------------------------------------------------------------
(* The fields of a view.  ColumnsSettle speaks of a page at rest; what     *)
(* holds before says who will still bring each copy to it: a request that  *)
(* succeeds fetches again, and shows what it expected in the list and the  *)
(* columns; one that fails excuses, unless it puts the columns back,       *)
(* nothing was beside it and nothing was done, and then the columns it     *)
(* keeps are the cache's.                                                  *)

FieldWriteFits(w) ==
  /\ DOMAIN w = {"op", "args", "before", "after", "rolls", "alone", "answer"}
  /\ w.before \in Seq(Shown) /\ w.after \in Seq(Shown)
  /\ w.rolls \in BOOLEAN /\ w.alone \in BOOLEAN /\ w.answer \in {"none", "ok", "error", "lost"}
  /\ w.op \in {"attr", "hide", "drop", "hideAll", "order", "add"}
  /\ w.op \in {"attr", "hide", "drop", "add"} => w.args[1] \in FieldIds
  /\ w.op = "attr" => w.args[2] \in 0..1
  /\ w.op = "hide" => w.args[2] \in BOOLEAN
  /\ w.op = "order" => w.args \in Seq(FieldIds) /\ ~ w.rolls

NoHidden(s) == \A i \in DOMAIN s : ~ s[i].hidden
DropFits(d) == d \in [open : BOOLEAN, id : FieldIds, fields : Seq(Shown)] /\ NoHidden(d.fields)

FieldsShape ==
  /\ DOMAIN viewFields \subseteq FieldIds /\ \A f \in DOMAIN viewFields : viewFields[f] \in Option
  /\ fieldsCache \in Seq(Shown) /\ fieldList \in Seq(Shown)
  /\ columns \in Seq(Shown) /\ NoHidden(columns)
  /\ fieldsFetch \in [at : {"no", "asked", "read"}, read : Seq(Shown)]
  /\ \A w \in fieldWrites : FieldWriteFits(w) /\ NoHidden(w.before)
  /\ fieldMenu \in [open : BOOLEAN, id : FieldIds, attr : 0..1] /\ DropFits(dropping)
  /\ resizing \in BOOLEAN /\ fieldExcused \in BOOLEAN /\ fieldActions \in 0..MaxFieldActions
  /\ fieldMenu.open \/ dropping.open => ~ resizing

(* Its end fetches the fields again, or excuses.                           *)
LeadsOn(w) == w.answer \in {"ok", "lost"} \/ (w.answer = "error" /\ (~ w.rolls \/ ~ w.alone))

CacheFollows ==
  /\ fieldsFetch.at = "read" =>
       fieldsFetch.read \in ServerFields(viewFields) \/ \E w \in fieldWrites : LeadsOn(w)
  /\ fieldsFetch.at = "no" =>
       fieldsCache \in ServerFields(viewFields) \/ \E w \in fieldWrites : LeadsOn(w)
ListFollows ==
  fieldList = fieldsCache \/ \E w \in fieldWrites : fieldList = w.after /\ w.op # "add" /\ ~ w.rolls
ColumnsFollow ==
  columns = Visible(fieldsCache) \/ resizing
    \/ \E w \in fieldWrites : columns = Visible(w.after) /\ w.op # "add"
AloneIsAlone ==
  \A w \in fieldWrites : w.alone =>
    /\ fieldWrites = {w} /\ fieldsFetch.at = "no"
    /\ w.rolls => w.before = Visible(fieldsCache)

FieldsFollow == ~ fieldExcused => CacheFollows /\ ListFollows /\ ColumnsFollow
FieldsInv == FieldsShape /\ FieldsFollow /\ (~ fieldExcused => AloneIsAlone)

(* What the handlers do with a list                                        *)
LEMMA ShownLists ==
  ASSUME NEW s \in Seq(Shown)
  PROVE  /\ DOMAIN s = 1..Len(s) /\ Len(s) \in Nat
         /\ \A i \in DOMAIN s : /\ s[i] \in Shown /\ s[i].id \in FieldIds
                                /\ s[i].hidden \in BOOLEAN /\ s[i].attr \in 0..1
<1>1. DOMAIN s = 1..Len(s) /\ Len(s) \in Nat /\ \A i \in DOMAIN s : s[i] \in Shown
      BY LenProperties
<1> QED BY <1>1 DEF Shown

LEMMA VisibleLists ==
  ASSUME NEW s \in Seq(Shown)
  PROVE  /\ Visible(s) \in Seq(Shown) /\ NoHidden(Visible(s))
         /\ NoHidden(s) => Visible(s) = s
<1> DEFINE keep == {i \in DOMAIN s : ~ s[i].hidden}
           t == Visible(s)
<1>1. keep \in SUBSET DOMAIN s /\ \A i \in keep : ~ s[i].hidden
      OBVIOUS
<1>2. t = Filtered(s, keep)
      BY DEF Visible
<1>3. ASSUME NoHidden(s) PROVE t = s
      <2>1. keep = DOMAIN s
            BY <1>3 DEF NoHidden
      <2> HIDE DEF keep
      <2> QED BY <1>2, <2>1, FilteredWhole
<1> HIDE DEF keep, t
<1>4. t \in Seq(Shown) /\ DOMAIN t = 1..Len(t) /\ \E p : FromPlaces(t, s, p, keep)
      BY <1>1, <1>2, FilteredList
<1>5. NoHidden(t)
      BY <1>1, <1>4 DEF NoHidden, FromPlaces
<1> QED BY <1>3, <1>4, <1>5 DEF t

LEMMA AttrLists ==
  ASSUME NEW s \in Seq(Shown), NEW id, NEW v \in 0..1
  PROVE  /\ WithAttr(s, id, v) \in Seq(Shown)
         /\ NoHidden(s) => NoHidden(WithAttr(s, id, v))
<1> DEFINE t == WithAttr(s, id, v)
<1>1. t = [i \in DOMAIN s |-> IF s[i].id = id THEN [s[i] EXCEPT !.attr = v] ELSE s[i]]
      BY DEF WithAttr, MapField
<1>2. DOMAIN t = DOMAIN s /\ t = [i \in DOMAIN s |-> t[i]]
      BY <1>1
<1>3. ASSUME NEW i \in DOMAIN s PROVE t[i] \in Shown /\ t[i].hidden = s[i].hidden
      <2>1. s[i] \in Shown
            BY ShownLists
      <2>2. CASE s[i].id = id
            BY <1>1, <2>1, <2>2 DEF Shown
      <2>3. CASE s[i].id # id
            BY <1>1, <2>1, <2>3
      <2> QED BY <2>2, <2>3
<1> HIDE DEF t
<1>4. t \in Seq(Shown)
      BY <1>2, <1>3, MappedList
<1>5. NoHidden(s) => NoHidden(t)
      BY <1>2, <1>3 DEF NoHidden
<1> QED BY <1>4, <1>5 DEF t

LEMMA HiddenLists ==
  ASSUME NEW s \in Seq(Shown), NEW id, NEW v \in BOOLEAN
  PROVE  WithHidden(s, id, v) \in Seq(Shown)
<1> DEFINE t == WithHidden(s, id, v)
<1>1. t = [i \in DOMAIN s |-> IF s[i].id = id THEN [s[i] EXCEPT !.hidden = v] ELSE s[i]]
      BY DEF WithHidden, MapField
<1>2. DOMAIN t = DOMAIN s /\ t = [i \in DOMAIN s |-> t[i]]
      BY <1>1
<1>3. ASSUME NEW i \in DOMAIN s PROVE t[i] \in Shown
      <2>1. s[i] \in Shown
            BY ShownLists
      <2>2. CASE s[i].id = id
            BY <1>1, <2>1, <2>2 DEF Shown
      <2>3. CASE s[i].id # id
            BY <1>1, <2>1, <2>3
      <2> QED BY <2>2, <2>3
<1> HIDE DEF t
<1>4. t \in Seq(Shown)
      BY <1>2, <1>3, MappedList
<1> QED BY <1>4 DEF t

LEMMA AllHiddenLists ==
  ASSUME NEW s \in Seq(Shown)
  PROVE  [i \in DOMAIN s |-> [s[i] EXCEPT !.hidden = TRUE]] \in Seq(Shown)
<1> DEFINE t == [i \in DOMAIN s |-> [s[i] EXCEPT !.hidden = TRUE]]
<1>1. DOMAIN t = DOMAIN s /\ t = [i \in DOMAIN s |-> t[i]]
      OBVIOUS
<1>2. ASSUME NEW i \in DOMAIN s PROVE t[i] \in Shown
      <2>1. s[i] \in Shown
            BY ShownLists
      <2> QED BY <2>1 DEF Shown
<1> HIDE DEF t
<1>3. t \in Seq(Shown)
      BY <1>1, <1>2, MappedList
<1> QED BY <1>3 DEF t

LEMMA DroppedLists ==
  ASSUME NEW s \in Seq(Shown), NEW id PROVE WithoutField(s, id) \in Seq(Shown)
<1> DEFINE keep == {i \in DOMAIN s : s[i].id # id}
<1>1. keep \in SUBSET DOMAIN s /\ WithoutField(s, id) = Filtered(s, keep)
      BY DEF WithoutField
<1> HIDE DEF keep
<1> QED BY <1>1, FilteredList

LEMMA MovedFields ==
  ASSUME NEW s \in Seq(Shown), NEW i \in DOMAIN s, NEW j \in DOMAIN s
  PROVE  /\ Moved(s, i, j) \in Seq(Shown)
         /\ NoHidden(s) => NoHidden(Moved(s, i, j))
         /\ [k \in DOMAIN Moved(s, i, j) |-> Moved(s, i, j)[k].id] \in Seq(FieldIds)
<1> DEFINE t == Moved(s, i, j)
<1>1. /\ t \in Seq(Shown) /\ DOMAIN t = DOMAIN s
      /\ \E p : FromPlaces(t, s, p, DOMAIN s)
      BY MovedList
<1> HIDE DEF t
<1>2. DOMAIN t = 1..Len(t) /\ \A k \in DOMAIN t : t[k].id \in FieldIds
      BY <1>1, ShownLists
<1>3. NoHidden(s) => NoHidden(t)
      BY <1>1, <1>2 DEF NoHidden, FromPlaces
<1>4. [k \in DOMAIN t |-> t[k].id] \in Seq(FieldIds)
      <2> DEFINE ids == [k \in DOMAIN t |-> t[k].id]
      <2>1. DOMAIN ids = DOMAIN t /\ ids = [k \in DOMAIN t |-> ids[k]] /\ \A k \in DOMAIN t : ids[k] \in FieldIds
            BY <1>2
      <2> HIDE DEF ids
      <2>2. ids \in Seq(FieldIds)
            BY <1>1, <2>1, MappedList
      <2> QED BY <2>2 DEF ids
<1> QED BY <1>1, <1>3, <1>4 DEF t

(* What the server would answer is a list of fields.                       *)
LEMMA ServerLists ==
  ASSUME NEW options, DOMAIN options \subseteq FieldIds, \A f \in DOMAIN options : options[f] \in Option
  PROVE  ServerFields(options) \subseteq Seq(Shown)
<1> DEFINE D == DOMAIN options
           field == [f \in D |-> [id |-> f, hidden |-> options[f].hidden, attr |-> options[f].attr]]
           S == {[id |-> f, hidden |-> options[f].hidden, attr |-> options[f].attr] : f \in D}
<1>1. \A f \in D : /\ field[f] = [id |-> f, hidden |-> options[f].hidden, attr |-> options[f].attr]
                   /\ field[f] \in Shown
      BY DEF Shown, Option
<1>2. S = {field[f] : f \in D}
      OBVIOUS
<1>3. field \in [D -> S]
      OBVIOUS
<1> HIDE DEF field, S
<1>4. S \in SUBSET Shown
      BY <1>1, <1>2
<1>5. field \in Surjection(D, S)
      BY <1>2, <1>3 DEF Surjection
<1>6. IsFiniteSet(D)
      BY FieldsAssumption, FS_Subset
<1>7. Cardinality(S) \in Nat
      <2>1. IsFiniteSet(S)
            BY <1>5, <1>6, FS_Surjection
      <2> QED BY <2>1, FS_CardinalityType
<1>8. ASSUME NEW s \in ServerFields(options) PROVE s \in Seq(Shown)
      <2>1. s \in SetToSeqs(S)
            BY DEF ServerFields, S
      <2>2. s \in [1..Cardinality(S) -> S]
            BY <2>1 DEF SetToSeqs
      <2> QED BY <1>4, <1>7, <2>2
<1> QED BY <1>8

-----------------------------------------------------------------------------
(* A handler up to its await                                               *)

FieldsFrame == UNCHANGED <<viewFields, fieldsCache, fieldsFetch, fieldExcused>>

LEMMA BesideFits ==
  ASSUME NEW w, FieldWriteFits(w)
  PROVE  /\ FieldWriteFits(Beside(w)) /\ Beside(w).before = w.before /\ Beside(w).after = w.after
         /\ Beside(w).op = w.op /\ Beside(w).rolls = w.rolls /\ Beside(w).answer = w.answer
         /\ ~ Beside(w).alone /\ (LeadsOn(w) => LeadsOn(Beside(w)))
<1> DEFINE b == Beside(w)
<1>1. /\ DOMAIN b = DOMAIN w /\ b.op = w.op /\ b.args = w.args /\ b.before = w.before
      /\ b.after = w.after /\ b.rolls = w.rolls /\ b.answer = w.answer /\ b.alone = FALSE
      BY DEF Beside, FieldWriteFits
<1> HIDE DEF b
<1>2. FieldWriteFits(b)
      BY <1>1 DEF FieldWriteFits
<1>3. LeadsOn(w) => LeadsOn(b)
      BY <1>1 DEF LeadsOn
<1> QED BY <1>1, <1>2, <1>3 DEF b

(* The write that is new                                                   *)
NewWrite(kept, op, args, after, rolls) ==
  [op |-> op, args |-> args, before |-> IF rolls THEN kept ELSE <<>>, after |-> after,
   rolls |-> rolls, answer |-> "none",
   alone |-> fieldWrites = {} /\ fieldsFetch.at = "no" /\ kept = columns]

RightArguments(op, args, rolls) ==
  /\ op \in {"attr", "hide", "drop", "hideAll", "order", "add"}
  /\ op \in {"attr", "hide", "drop", "add"} => args[1] \in FieldIds
  /\ op = "attr" => args[2] \in 0..1
  /\ op = "hide" => args[2] \in BOOLEAN
  /\ op = "order" => args \in Seq(FieldIds) /\ ~ rolls

AskedFits(kept, op, args, after, rolls) ==
  /\ kept \in Seq(Shown) /\ NoHidden(kept) /\ after \in Seq(Shown) /\ rolls \in BOOLEAN
  /\ RightArguments(op, args, rolls)

LEMMA NewWriteFits ==
  ASSUME FieldsShape, NEW kept, NEW op, NEW args, NEW after, NEW rolls,
         AskedFits(kept, op, args, after, rolls), NEW n, n = NewWrite(kept, op, args, after, rolls)
  PROVE  /\ FieldWriteFits(n) /\ NoHidden(n.before) /\ n.op = op /\ n.after = after /\ n.rolls = rolls
         /\ n.rolls => n.before = kept
         /\ n.alone => fieldWrites = {} /\ fieldsFetch.at = "no" /\ kept = columns
<1> DEFINE alone == fieldWrites = {} /\ fieldsFetch.at = "no" /\ kept = columns
           before == IF rolls THEN kept ELSE <<>>
<1>1. alone \in BOOLEAN /\ before \in Seq(Shown) /\ NoHidden(before)
      BY DEF FieldsShape, NoHidden, AskedFits
<1>2. /\ DOMAIN n = {"op", "args", "before", "after", "rolls", "alone", "answer"}
      /\ n.op = op /\ n.args = args /\ n.before = before /\ n.after = after /\ n.rolls = rolls
      /\ n.alone = alone /\ n.answer = "none"
      BY DEF NewWrite
<1> HIDE DEF alone, before
<1>3. FieldWriteFits(n)
      BY <1>1, <1>2 DEF FieldWriteFits, RightArguments, AskedFits
<1>4. n.rolls => n.before = kept
      BY <1>2 DEF before
<1>5. n.alone => fieldWrites = {} /\ fieldsFetch.at = "no" /\ kept = columns
      BY <1>2 DEF alone
<1> QED BY <1>1, <1>2, <1>3, <1>4, <1>5

LEMMA FieldsBound ==
  ASSUME FieldsShape, fieldActions < MaxFieldActions, fieldActions' = fieldActions + 1
  PROVE  fieldActions' \in 0..MaxFieldActions
<1>1. MaxFieldActions \in Nat /\ fieldActions \in 0..MaxFieldActions
      BY FieldsAssumption DEF FieldsShape
<1> QED BY <1>1

(* Whatever a handler asks: it shows what it expects, in the columns, in   *)
(* the list, or in both, or leaves them; only one that puts the columns    *)
(* back remembers them, and does so when no column is dragged.             *)
LEMMA KeptKeepsFields ==
  ASSUME FieldsInv, NEW op, NEW args, NEW after \in Seq(Shown), NEW rolls \in BOOLEAN,
         NEW kept \in Seq(Shown), NoHidden(kept), DropFits(dropping'),
         RightArguments(op, args, rolls), AsksWith(kept, op, args, after, rolls),
         columns' \in Seq(Shown), NoHidden(columns'),
         columns' = columns \/ (columns' = Visible(after) /\ op # "add"),
         fieldList' = fieldList \/ (fieldList' = after /\ op # "add" /\ ~ rolls),
         fieldMenu' \in [open : BOOLEAN, id : FieldIds, attr : 0..1], resizing' = FALSE,
         resizing => columns' = Visible(after) /\ op # "add",
         rolls => ~ resizing
  PROVE  FieldsInv'
<1> DEFINE n == NewWrite(kept, op, args, after, rolls)
<1>1. /\ fieldWrites' = {Beside(w) : w \in fieldWrites} \cup {n}
      /\ fieldActions < MaxFieldActions /\ fieldActions' = fieldActions + 1
      /\ UNCHANGED <<viewFields, fieldsCache, fieldsFetch, fieldExcused>>
      BY DEF AsksWith, NewWrite
<1>2. FieldsShape
      BY DEF FieldsInv
<1>3. /\ FieldWriteFits(n) /\ NoHidden(n.before) /\ n.op = op /\ n.after = after /\ n.rolls = rolls
      /\ n.rolls => n.before = kept
      /\ n.alone => fieldWrites = {} /\ fieldsFetch.at = "no" /\ kept = columns
      <2>1. n = NewWrite(kept, op, args, after, rolls)
            OBVIOUS
      <2>2. AskedFits(kept, op, args, after, rolls)
            BY DEF AskedFits
      <2> HIDE DEF n
      <2> QED BY <1>2, <2>1, <2>2, NewWriteFits
<1> HIDE DEF n
<1>4. n \in fieldWrites' /\ \A w \in fieldWrites : Beside(w) \in fieldWrites'
      BY <1>1
<1>5. \A w \in fieldWrites : FieldWriteFits(w) /\ NoHidden(w.before)
      BY <1>2 DEF FieldsShape
<1>6. \A w \in fieldWrites :
        /\ FieldWriteFits(Beside(w)) /\ Beside(w).before = w.before /\ Beside(w).after = w.after
        /\ Beside(w).op = w.op /\ Beside(w).rolls = w.rolls /\ Beside(w).answer = w.answer
        /\ ~ Beside(w).alone /\ (LeadsOn(w) => LeadsOn(Beside(w)))
      BY <1>5, BesideFits
<1>7. FieldsShape'
      <2>1. \A w \in fieldWrites' : FieldWriteFits(w) /\ NoHidden(w.before)
            BY <1>1, <1>3, <1>5, <1>6
      <2>2. fieldActions' \in 0..MaxFieldActions
            BY <1>1, <1>2, FieldsBound
      <2>3. fieldList' \in Seq(Shown)
            BY <1>2 DEF FieldsShape
      <2> QED BY <1>1, <1>2, <2>1, <2>2, <2>3 DEF FieldsShape
<1>8. ASSUME ~ fieldExcused' PROVE CacheFollows' /\ ListFollows' /\ ColumnsFollow' /\ AloneIsAlone'
      <2>1. CacheFollows /\ ListFollows /\ ColumnsFollow /\ AloneIsAlone
            BY <1>1, <1>8 DEF FieldsInv, FieldsFollow
      <2>2. (\E w \in fieldWrites : LeadsOn(w)) => \E w \in fieldWrites' : LeadsOn(w)
            BY <1>4, <1>6
      <2>3. CacheFollows'
            BY <1>1, <2>1, <2>2 DEF CacheFollows
      <2>4. ListFollows'
            <3>1. CASE fieldList' = after /\ op # "add" /\ ~ rolls
                  BY <1>3, <1>4, <3>1 DEF ListFollows
            <3>2. CASE fieldList' = fieldList
                  BY <1>1, <1>4, <1>6, <2>1, <3>2 DEF ListFollows
            <3> QED BY <3>1, <3>2
      <2>5. ColumnsFollow'
            <3>1. CASE columns' = Visible(after) /\ op # "add"
                  <4>1. columns' = Visible(n.after) /\ n.op # "add"
                        BY <1>3, <3>1
                  <4> QED BY <1>4, <4>1 DEF ColumnsFollow
            <3>2. CASE columns' = columns /\ ~ (columns' = Visible(after) /\ op # "add")
                  <4>1. resizing => resizing'
                        BY <3>2
                  <4> QED BY <1>1, <1>4, <1>6, <2>1, <3>2, <4>1 DEF ColumnsFollow
            <3> QED BY <3>1, <3>2
      <2>6. AloneIsAlone'
            <3>1. ASSUME n.alone
                  PROVE  /\ fieldWrites' = {n} /\ fieldsFetch.at = "no"
                         /\ n.rolls => n.before = Visible(fieldsCache)
                  <4>1. fieldWrites = {} /\ fieldsFetch.at = "no" /\ kept = columns
                        BY <1>3, <3>1
                  <4>2. columns = Visible(fieldsCache) \/ resizing
                        BY <2>1, <4>1 DEF ColumnsFollow
                  <4> QED BY <1>1, <1>3, <4>1, <4>2
            <3>2. \A w \in fieldWrites' : w.alone => w = n
                  BY <1>1, <1>6
            <3> QED BY <1>1, <3>1, <3>2 DEF AloneIsAlone
      <2> QED BY <2>3, <2>4, <2>5, <2>6
<1> QED BY <1>7, <1>8 DEF FieldsInv, FieldsFollow

LEMMA AskingKeepsFields ==
  ASSUME FieldsInv, NEW op, NEW args, NEW after \in Seq(Shown), NEW rolls \in BOOLEAN,
         RightArguments(op, args, rolls), Asks(op, args, after, rolls),
         columns' \in Seq(Shown), NoHidden(columns'),
         columns' = columns \/ (columns' = Visible(after) /\ op # "add"),
         fieldList' = fieldList \/ (fieldList' = after /\ op # "add" /\ ~ rolls),
         fieldMenu' \in [open : BOOLEAN, id : FieldIds, attr : 0..1], ~ resizing',
         resizing' \in BOOLEAN,
         resizing => columns' = Visible(after) /\ op # "add", rolls => ~ resizing
  PROVE  FieldsInv'
<1>1. columns \in Seq(Shown) /\ NoHidden(columns) /\ DropFits(dropping)
      BY DEF FieldsInv, FieldsShape
<1>2. AsksWith(columns, op, args, after, rolls) /\ dropping' = dropping
      BY DEF Asks
<1>3. DropFits(dropping')
      BY <1>1, <1>2
<1> QED BY <1>1, <1>2, <1>3, KeptKeepsFields

LEMMA NoMenuFits ==
  /\ NoMenu \in [open : BOOLEAN, id : FieldIds, attr : 0..1] /\ ~ NoMenu.open
  /\ DropFits(NoDrop) /\ ~ NoDrop.open
<1>1. (CHOOSE f \in FieldIds : TRUE) \in FieldIds
      BY FieldsAssumption
<1>2. NoMenu \in [open : BOOLEAN, id : FieldIds, attr : 0..1] /\ ~ NoMenu.open
      BY <1>1 DEF NoMenu
<1> QED BY <1>2 DEF NoDrop, DropFits, NoHidden

(* What leaves the requests, the server and the caches alone               *)
LEMMA OnlyColumns ==
  ASSUME FieldsInv, FieldsFrame, UNCHANGED <<fieldList, fieldWrites, fieldActions>>,
         columns' \in Seq(Shown), NoHidden(columns'),
         fieldMenu' \in [open : BOOLEAN, id : FieldIds, attr : 0..1], resizing' \in BOOLEAN,
         DropFits(dropping'), fieldMenu'.open \/ dropping'.open => ~ resizing',
         resizing' \/ (columns' = columns /\ ~ resizing)
  PROVE  FieldsInv'
<1>1. UNCHANGED <<viewFields, fieldsCache, fieldsFetch, fieldExcused, fieldList, fieldWrites, fieldActions>>
      BY DEF FieldsFrame
<1>2. FieldsShape'
      BY <1>1 DEF FieldsInv, FieldsShape
<1>3. ~ fieldExcused => CacheFollows' /\ ListFollows' /\ ColumnsFollow' /\ AloneIsAlone'
      BY <1>1 DEF FieldsInv, FieldsFollow, CacheFollows, ListFollows, ColumnsFollow, AloneIsAlone
<1> QED BY <1>1, <1>2, <1>3 DEF FieldsInv, FieldsFollow

LEMMA MenuColumnsKeep ==
  ASSUME FieldsInv, OpensMenu \/ ResizesColumn PROVE FieldsInv'
<1>1. FieldsShape /\ columns \in Seq(Shown) /\ NoHidden(columns) /\ resizing \in BOOLEAN
      BY DEF FieldsInv, FieldsShape
<1>2. CASE OpensMenu
      <2>1. PICK i \in DOMAIN columns :
              fieldMenu' = [open |-> TRUE, id |-> columns[i].id, attr |-> columns[i].attr]
            BY <1>2 DEF OpensMenu
      <2>2. columns[i].id \in FieldIds /\ columns[i].attr \in 0..1
            BY <1>1, ShownLists
      <2>3. fieldMenu' \in [open : BOOLEAN, id : FieldIds, attr : 0..1]
            BY <2>1, <2>2
      <2>4. /\ FieldsFrame /\ UNCHANGED <<fieldList, fieldWrites, fieldActions, columns, dropping, resizing>>
            /\ ~ resizing
            BY <1>2 DEF OpensMenu, FieldsFrame
      <2>5. DropFits(dropping')
            BY <1>1, <2>4 DEF FieldsShape
      <2> QED BY <1>1, <2>3, <2>4, <2>5, OnlyColumns
<1>3. CASE ResizesColumn
      <2>1. PICK i \in DOMAIN columns : columns' = WithAttr(columns, columns[i].id, 1 - columns[i].attr)
            BY <1>3 DEF ResizesColumn
      <2>2. 1 - columns[i].attr \in 0..1
            <3>1. columns[i].attr \in 0..1
                  BY <1>1, ShownLists
            <3> QED BY <3>1
      <2>3. columns' \in Seq(Shown) /\ NoHidden(columns')
            BY <1>1, <2>1, <2>2, AttrLists
      <2>4. /\ FieldsFrame /\ UNCHANGED <<fieldList, fieldWrites, fieldActions, fieldMenu, dropping>>
            /\ ~ fieldMenu.open /\ ~ dropping.open /\ resizing' = TRUE
            BY <1>3 DEF ResizesColumn, FieldsFrame
      <2>5. fieldMenu' \in [open : BOOLEAN, id : FieldIds, attr : 0..1] /\ DropFits(dropping')
            BY <1>1, <2>4 DEF FieldsShape
      <2> QED BY <2>3, <2>4, <2>5, OnlyColumns
<1> QED BY <1>2, <1>3

(* The handlers of the menu                                                *)
LEMMA FromMenuKeeps ==
  ASSUME FieldsInv, NEW op, NEW args, NEW after \in Seq(Shown), NEW rolls \in BOOLEAN,
         RightArguments(op, args, rolls), op # "add", FromMenu(op, args, after, rolls)
  PROVE  FieldsInv'
<1>1. /\ Asks(op, args, after, rolls) /\ columns' = Visible(after) /\ fieldList' = fieldList
      /\ fieldMenu.open /\ fieldMenu' = NoMenu /\ resizing' = resizing
      BY DEF FromMenu
<1>2. ~ resizing /\ resizing \in BOOLEAN
      BY <1>1 DEF FieldsInv, FieldsShape
<1>3. columns' \in Seq(Shown) /\ NoHidden(columns')
      BY <1>1, VisibleLists
<1> QED BY <1>1, <1>2, <1>3, NoMenuFits, AskingKeepsFields

LEMMA AttrFromMenuKeeps ==
  ASSUME FieldsInv, NEW fields \in {columns, fieldsCache}, NEW rolls \in BOOLEAN, NEW after,
         after \in {columns, WithAttr(fields, fieldMenu.id, 1 - fieldMenu.attr)},
         FromMenu("attr", <<fieldMenu.id, 1 - fieldMenu.attr>>, after, rolls)
  PROVE  FieldsInv'
<1>1. fieldMenu.id \in FieldIds /\ fieldMenu.attr \in 0..1 /\ columns \in Seq(Shown) /\ fields \in Seq(Shown)
      BY DEF FieldsInv, FieldsShape
<1>2. 1 - fieldMenu.attr \in 0..1
      BY <1>1
<1>3. after \in Seq(Shown)
      BY <1>1, <1>2, AttrLists
<1>4. RightArguments("attr", <<fieldMenu.id, 1 - fieldMenu.attr>>, rolls)
      BY <1>1, <1>2 DEF RightArguments
<1> QED BY <1>3, <1>4, FromMenuKeeps

LEMMA MenuKeeps ==
  ASSUME FieldsInv, LeavesMenu \/ FieldMenu PROVE FieldsInv'
<1>1. FieldsShape /\ columns \in Seq(Shown) /\ fieldMenu.id \in FieldIds /\ resizing \in BOOLEAN
      BY DEF FieldsInv, FieldsShape
<1>2. CASE LeavesMenu
      <2>1. CASE /\ fieldMenu.open /\ fieldMenu' = NoMenu
                 /\ UNCHANGED <<viewFields, fieldsCache, fieldList, columns, fieldWrites, fieldsFetch,
                                dropping, resizing, fieldActions, fieldExcused>>
            <3>1. ~ resizing /\ NoHidden(columns) /\ DropFits(dropping')
                  BY <2>1 DEF FieldsInv, FieldsShape
            <3>2. FieldsFrame
                  BY <2>1 DEF FieldsFrame
            <3> QED BY <1>1, <2>1, <3>1, <3>2, NoMenuFits, OnlyColumns
      <2>2. CASE FromMenu("attr", <<fieldMenu.id, 1 - fieldMenu.attr>>,
                          WithAttr(columns, fieldMenu.id, 1 - fieldMenu.attr), FALSE)
            BY <2>2, AttrFromMenuKeeps
      <2> QED BY <1>2, <2>1, <2>2 DEF LeavesMenu
<1>3. CASE ChangesType
      BY <1>3, AttrFromMenuKeeps DEF ChangesType
<1>4. CASE TogglesValidation
      <2>1. PICK fields \in {columns, fieldsCache} :
              FromMenu("attr", <<fieldMenu.id, 1 - fieldMenu.attr>>,
                       WithAttr(fields, fieldMenu.id, 1 - fieldMenu.attr), FALSE)
            BY <1>4 DEF TogglesValidation
      <2> QED BY <2>1, AttrFromMenuKeeps
<1>5. CASE TogglesPII
      BY <1>5, AttrFromMenuKeeps DEF TogglesPII
<1>6. CASE HidesField
      <2> DEFINE after == WithHidden(columns, fieldMenu.id, TRUE)
      <2>1. /\ Asks("hide", <<fieldMenu.id, TRUE>>, after, FALSE) /\ columns' = Visible(after)
            /\ UNCHANGED <<fieldList, fieldMenu, resizing>> /\ fieldMenu.open
            BY <1>6 DEF HidesField
      <2>2. after \in Seq(Shown)
            BY <1>1, HiddenLists
      <2> HIDE DEF after
      <2>3. columns' \in Seq(Shown) /\ NoHidden(columns')
            BY <2>1, <2>2, VisibleLists
      <2>4. RightArguments("hide", <<fieldMenu.id, TRUE>>, FALSE)
            BY <1>1 DEF RightArguments
      <2>5. /\ fieldMenu' \in [open : BOOLEAN, id : FieldIds, attr : 0..1] /\ ~ resizing
            BY <2>1 DEF FieldsInv, FieldsShape
      <2> QED BY <1>1, <2>1, <2>2, <2>3, <2>4, <2>5, AskingKeepsFields
<1>7. CASE AsksToDrop
      <2>1. /\ fieldMenu.open /\ dropping' = [open |-> TRUE, id |-> fieldMenu.id, fields |-> columns]
            /\ UNCHANGED <<viewFields, fieldsCache, fieldList, columns, fieldWrites, fieldsFetch, fieldMenu,
                           resizing, fieldActions, fieldExcused>>
            BY <1>7 DEF AsksToDrop
      <2>2. ~ resizing /\ NoHidden(columns) /\ fieldMenu' \in [open : BOOLEAN, id : FieldIds, attr : 0..1]
            BY <2>1 DEF FieldsInv, FieldsShape
      <2>3. DropFits(dropping') /\ FieldsFrame
            BY <1>1, <2>1, <2>2 DEF DropFits, FieldsFrame
      <2> QED BY <1>1, <2>1, <2>2, <2>3, OnlyColumns
<1> QED BY <1>2, <1>3, <1>4, <1>5, <1>6, <1>7 DEF FieldMenu

(* The modal that confirms a drop, with the columns of the click           *)
LEMMA DropKeeps ==
  ASSUME FieldsInv, DropsField \/ CancelsDrop PROVE FieldsInv'
<1>1. /\ FieldsShape /\ columns \in Seq(Shown) /\ NoHidden(columns) /\ DropFits(dropping)
      /\ dropping.fields \in Seq(Shown) /\ NoHidden(dropping.fields) /\ dropping.id \in FieldIds
      /\ dropping.open => ~ resizing
      /\ fieldMenu \in [open : BOOLEAN, id : FieldIds, attr : 0..1] /\ resizing \in BOOLEAN
      BY DEF FieldsInv, FieldsShape, DropFits
<1>2. CASE DropsField
      <2> DEFINE kept == dropping.fields
                 after == WithoutField(kept, dropping.id)
      <2>1. /\ dropping.open /\ AsksWith(kept, "drop", <<dropping.id>>, after, TRUE)
            /\ columns' = Visible(after) /\ UNCHANGED <<fieldList, fieldMenu, dropping, resizing>>
            BY <1>2 DEF DropsField
      <2>2. after \in Seq(Shown) /\ kept \in Seq(Shown) /\ NoHidden(kept)
            BY <1>1, DroppedLists
      <2> HIDE DEF kept, after
      <2>3. RightArguments("drop", <<dropping.id>>, TRUE)
            BY <1>1 DEF RightArguments
      <2>4. columns' \in Seq(Shown) /\ NoHidden(columns')
            BY <2>1, <2>2, VisibleLists
      <2>5. DropFits(dropping') /\ ~ resizing /\ ~ resizing' /\ resizing' \in BOOLEAN
            BY <1>1, <2>1
      <2> QED BY <1>1, <2>1, <2>2, <2>3, <2>4, <2>5, KeptKeepsFields
<1>3. CASE CancelsDrop
      <2>1. /\ dropping.open /\ dropping' = NoDrop
            /\ UNCHANGED <<viewFields, fieldsCache, fieldList, columns, fieldWrites, fieldsFetch, fieldMenu,
                           resizing, fieldActions, fieldExcused>>
            BY <1>3 DEF CancelsDrop
      <2>2. FieldsFrame
            BY <2>1 DEF FieldsFrame
      <2> QED BY <1>1, <2>1, <2>2, NoMenuFits, OnlyColumns
<1> QED BY <1>2, <1>3

(* The handlers of the grid                                                *)
LEMMA ColumnHandlersKeep ==
  ASSUME FieldsInv, ResizeEnds \/ RearrangesColumn PROVE FieldsInv'
<1>1. FieldsShape /\ columns \in Seq(Shown) /\ NoHidden(columns)
      BY DEF FieldsInv, FieldsShape
<1>2. fieldMenu \in [open : BOOLEAN, id : FieldIds, attr : 0..1] /\ resizing \in BOOLEAN
      BY <1>1 DEF FieldsShape
<1>3. CASE ResizeEnds
      <2>1. PICK i \in DOMAIN columns, v \in 0..1 :
              /\ Asks("attr", <<columns[i].id, v>>, WithAttr(columns, columns[i].id, v), FALSE)
              /\ columns' = WithAttr(columns, columns[i].id, v)
            BY <1>3 DEF ResizeEnds
      <2> DEFINE after == WithAttr(columns, columns[i].id, v)
      <2>2. after \in Seq(Shown) /\ NoHidden(after)
            BY <1>1, AttrLists
      <2>3. columns[i].id \in FieldIds
            BY <1>1, ShownLists
      <2>4. RightArguments("attr", <<columns[i].id, v>>, FALSE)
            BY <2>3 DEF RightArguments
      <2>5. columns' = after /\ Asks("attr", <<columns[i].id, v>>, after, FALSE)
            BY <2>1
      <2> HIDE DEF after
      <2>6. after = Visible(after)
            BY <2>2, VisibleLists
      <2>7. resizing' = FALSE /\ UNCHANGED <<fieldList, fieldMenu>>
            BY <1>3 DEF ResizeEnds
      <2> QED BY <1>2, <2>2, <2>4, <2>5, <2>6, <2>7, AskingKeepsFields
<1>4. CASE RearrangesColumn
      <2>1. PICK i, j \in DOMAIN columns :
              /\ Asks("order", [k \in DOMAIN Moved(columns, i, j) |-> Moved(columns, i, j)[k].id],
                      Moved(columns, i, j), FALSE)
              /\ columns' = Moved(columns, i, j)
            BY <1>4 DEF RearrangesColumn
      <2> DEFINE after == Moved(columns, i, j)
                 ids == [k \in DOMAIN after |-> after[k].id]
      <2>2. after \in Seq(Shown) /\ NoHidden(after) /\ ids \in Seq(FieldIds)
            BY <1>1, MovedFields
      <2>3. columns' = after /\ Asks("order", ids, after, FALSE)
            BY <2>1
      <2> HIDE DEF after, ids
      <2>4. RightArguments("order", ids, FALSE)
            BY <2>2 DEF RightArguments
      <2>5. after = Visible(after)
            BY <2>2, VisibleLists
      <2>6. UNCHANGED <<fieldList, fieldMenu, resizing>> /\ ~ fieldMenu.open /\ ~ resizing
            BY <1>4 DEF RearrangesColumn
      <2> QED BY <1>2, <2>2, <2>3, <2>4, <2>5, <2>6, AskingKeepsFields
<1> QED BY <1>3, <1>4

(* The handlers of the popover                                             *)
LEMMA FromListKeeps ==
  ASSUME FieldsInv, NEW op, NEW args, NEW after \in Seq(Shown), RightArguments(op, args, FALSE),
         NEW cols, FromList(op, args, after, cols), op = "add" => after = fieldList,
         cols \in {columns, Visible(after)}, op = "add" => cols = columns
  PROVE  FieldsInv'
<1>1. /\ Asks(op, args, after, FALSE) /\ fieldList' = after /\ columns' = cols
      /\ UNCHANGED <<fieldMenu, resizing>> /\ ~ fieldMenu.open /\ ~ resizing
      BY DEF FromList
<1>2. columns \in Seq(Shown) /\ NoHidden(columns)
      BY DEF FieldsInv, FieldsShape
<1>3. fieldMenu \in [open : BOOLEAN, id : FieldIds, attr : 0..1] /\ resizing \in BOOLEAN
      BY DEF FieldsInv, FieldsShape
<1>4. columns' \in Seq(Shown) /\ NoHidden(columns')
      BY <1>1, <1>2, VisibleLists
<1>5. columns' = columns \/ (columns' = Visible(after) /\ op # "add")
      BY <1>1
<1>6. fieldList' = fieldList \/ (fieldList' = after /\ op # "add")
      BY <1>1
<1> QED BY <1>1, <1>3, <1>4, <1>5, <1>6, AskingKeepsFields

LEMMA PopoverKeeps ==
  ASSUME FieldsInv, TogglesVisibility \/ HidesAll \/ ReordersList \/ AddsField PROVE FieldsInv'
<1>1. fieldList \in Seq(Shown) /\ fieldsCache \in Seq(Shown)
      BY DEF FieldsInv, FieldsShape
<1>2. CASE TogglesVisibility
      <2>1. PICK i \in DOMAIN fieldList :
              FromList("hide", <<fieldList[i].id, ~ fieldList[i].hidden>>,
                       WithHidden(fieldsCache, fieldList[i].id, ~ fieldList[i].hidden),
                       Visible(WithHidden(fieldsCache, fieldList[i].id, ~ fieldList[i].hidden)))
            BY <1>2 DEF TogglesVisibility
      <2> DEFINE id == fieldList[i].id
                 v == ~ fieldList[i].hidden
                 after == WithHidden(fieldsCache, id, v)
      <2>2. id \in FieldIds /\ v \in BOOLEAN
            BY <1>1, ShownLists
      <2>3. FromList("hide", <<id, v>>, after, Visible(after))
            BY <2>1
      <2> HIDE DEF id, v
      <2>4. after \in Seq(Shown)
            BY <1>1, <2>2, HiddenLists
      <2>5. RightArguments("hide", <<id, v>>, FALSE)
            BY <2>2 DEF RightArguments
      <2> HIDE DEF after
      <2> QED BY <2>3, <2>4, <2>5, FromListKeeps
<1>3. CASE HidesAll
      <2> DEFINE after == [i \in DOMAIN fieldList |-> [fieldList[i] EXCEPT !.hidden = TRUE]]
      <2>1. FromList("hideAll", <<>>, after, Visible(after))
            BY <1>3 DEF HidesAll
      <2>2. after \in Seq(Shown)
            BY <1>1, AllHiddenLists
      <2>3. RightArguments("hideAll", <<>>, FALSE)
            BY DEF RightArguments
      <2> HIDE DEF after
      <2> QED BY <2>1, <2>2, <2>3, FromListKeeps
<1>4. CASE ReordersList
      <2>1. PICK i, j \in DOMAIN fieldList :
              FromList("order", [k \in DOMAIN Moved(fieldList, i, j) |-> Moved(fieldList, i, j)[k].id],
                       Moved(fieldList, i, j), columns)
            BY <1>4 DEF ReordersList
      <2> DEFINE after == Moved(fieldList, i, j)
                 ids == [k \in DOMAIN after |-> after[k].id]
      <2>2. after \in Seq(Shown) /\ ids \in Seq(FieldIds)
            BY <1>1, MovedFields
      <2>3. FromList("order", ids, after, columns)
            BY <2>1
      <2> HIDE DEF after, ids
      <2>4. RightArguments("order", ids, FALSE)
            BY <2>2 DEF RightArguments
      <2> QED BY <2>2, <2>3, <2>4, FromListKeeps
<1>5. CASE AddsField
      <2>1. PICK f \in FieldIds : FromList("add", <<f>>, fieldList, columns)
            BY <1>5 DEF AddsField
      <2>2. RightArguments("add", <<f>>, FALSE)
            BY DEF RightArguments
      <2> QED BY <1>1, <2>1, <2>2, FromListKeeps
<1> QED BY <1>2, <1>3, <1>4, <1>5

-----------------------------------------------------------------------------
(* The server                                                              *)

ServerShown(options) ==
  DOMAIN options \subseteq FieldIds /\ \A f \in DOMAIN options : options[f] \in Option

LEMMA ReorderedFields ==
  ASSUME ServerShown(viewFields), NEW S, NEW ids \in Seq(S) PROVE ServerShown(Reordered(ids))
<1> DEFINE r == Reordered(ids)
<1>1. /\ DOMAIN r = DOMAIN viewFields
      /\ \A f \in DOMAIN viewFields :
           r[f] = IF \E i \in DOMAIN ids : ids[i] = f
                  THEN [viewFields[f] EXCEPT !.order = (CHOOSE i \in DOMAIN ids : ids[i] = f) - 1]
                  ELSE viewFields[f]
      BY DEF Reordered
<1>2. ASSUME NEW f \in DOMAIN viewFields PROVE r[f] \in Option
      <2>1. viewFields[f] \in Option
            BY DEF ServerShown
      <2>2. CASE \E i \in DOMAIN ids : ids[i] = f
            <3> DEFINE k == CHOOSE i \in DOMAIN ids : ids[i] = f
            <3>1. k \in DOMAIN ids
                  BY <2>2
            <3>2. DOMAIN ids = 1..Len(ids) /\ Len(ids) \in Nat
                  BY LenProperties
            <3>3. k - 1 \in Nat
                  <4> HIDE DEF k
                  <4> QED BY <3>1, <3>2
            <3>4. r[f] = [viewFields[f] EXCEPT !.order = k - 1]
                  BY <1>1, <2>2
            <3> HIDE DEF k, r
            <3> QED BY <2>1, <3>3, <3>4 DEF Option
      <2>3. CASE ~ \E i \in DOMAIN ids : ids[i] = f
            BY <1>1, <2>1, <2>3
      <2> QED BY <2>2, <2>3
<1> QED BY <1>1, <1>2 DEF ServerShown

LEMMA BeforeGoneFields ==
  ASSUME NEW ids \in Seq(FieldIds), Gone(ids) # {} PROVE BeforeGone(ids) \in Seq(FieldIds)
<1> DEFINE k == CHOOSE i \in Gone(ids) : \A j \in Gone(ids) : i <= j
<1>1. DOMAIN ids = 1..Len(ids) /\ Len(ids) \in Nat /\ \A i \in DOMAIN ids : ids[i] \in FieldIds
      BY LenProperties
<1>2. Gone(ids) \in SUBSET DOMAIN ids
      BY DEF Gone
<1>3. \E i \in Gone(ids) : \A j \in Gone(ids) : i <= j
      <2>1. Gone(ids) \in SUBSET Nat
            BY <1>1, <1>2
      <2> QED BY <2>1, LeastNumber
<1>4. k \in Gone(ids)
      BY <1>3
<1>5. BeforeGone(ids) = SubSeq(ids, 1, k - 1)
      BY DEF BeforeGone
<1> HIDE DEF k
<1>6. k \in 1..Len(ids) /\ k - 1 \in Int /\ \A i \in 1..k - 1 : i \in 1..Len(ids)
      BY <1>1, <1>2, <1>4
<1>7. \A i \in 1..k - 1 : ids[i] \in FieldIds
      BY <1>1, <1>6
<1> QED BY <1>5, <1>6, <1>7, SubSeqProperties

(* What the server does with one of its fields                             *)
LEMMA HandledFields ==
  ASSUME FieldsShape, NEW w \in fieldWrites, FieldHandled(w)
  PROVE  /\ ServerShown(viewFields')
         /\ \E a \in {"ok", "error", "lost"} :
              /\ fieldWrites' = (fieldWrites \ {w}) \cup {[w EXCEPT !.answer = a]}
              /\ a # "error" \/ w.op = "order" \/ viewFields' = viewFields
<1>1. FieldWriteFits(w) /\ ServerShown(viewFields)
      BY DEF FieldsShape, ServerShown
<1>2. ASSUME w.op = "attr", w.args[1] \in DOMAIN viewFields,
             viewFields' = [viewFields EXCEPT ![w.args[1]].attr = w.args[2]]
      PROVE  ServerShown(viewFields')
      <2>1. w.args[2] \in 0..1
            BY <1>1, <1>2 DEF FieldWriteFits
      <2> QED BY <1>1, <1>2, <2>1 DEF ServerShown, Option
<1>3. ASSUME w.op = "hide", w.args[1] \in DOMAIN viewFields,
             viewFields' = [viewFields EXCEPT ![w.args[1]].hidden = w.args[2]]
      PROVE  ServerShown(viewFields')
      <2>1. w.args[2] \in BOOLEAN
            BY <1>1, <1>3 DEF FieldWriteFits
      <2> QED BY <1>1, <1>3, <2>1 DEF ServerShown, Option
<1>4. ASSUME viewFields' = [g \in DOMAIN viewFields \ {w.args[1]} |-> viewFields[g]]
      PROVE  ServerShown(viewFields')
      BY <1>1, <1>4 DEF ServerShown
<1>5. ASSUME viewFields' = [g \in DOMAIN viewFields |-> [viewFields[g] EXCEPT !.hidden = TRUE]]
      PROVE  ServerShown(viewFields')
      BY <1>1, <1>5 DEF ServerShown, Option
<1>6. ASSUME w.op = "order" PROVE w.args \in Seq(FieldIds)
      BY <1>1, <1>6 DEF FieldWriteFits
<1>7. ASSUME w.op = "add",
             viewFields' = [g \in DOMAIN viewFields \cup {w.args[1]} |->
               IF g \in DOMAIN viewFields THEN viewFields[g]
               ELSE [order |-> Cardinality(DOMAIN viewFields) + 1, hidden |-> FALSE, attr |-> 0]]
      PROVE  ServerShown(viewFields')
      <2>1. w.args[1] \in FieldIds
            BY <1>1, <1>7 DEF FieldWriteFits
      <2>2. Cardinality(DOMAIN viewFields) \in Nat
            <3>1. IsFiniteSet(DOMAIN viewFields)
                  BY <1>1, FieldsAssumption, FS_Subset DEF ServerShown
            <3> QED BY <3>1, FS_CardinalityType
      <2> DEFINE new == [order |-> Cardinality(DOMAIN viewFields) + 1, hidden |-> FALSE, attr |-> 0]
      <2>3. new \in Option
            BY <2>2 DEF Option
      <2>4. viewFields' = [g \in DOMAIN viewFields \cup {w.args[1]} |->
                             IF g \in DOMAIN viewFields THEN viewFields[g] ELSE new]
            BY <1>7
      <2> HIDE DEF new
      <2> QED BY <1>1, <2>1, <2>3, <2>4 DEF ServerShown
<1>8. ASSUME NEW S, NEW ids \in Seq(S), viewFields' = Reordered(ids) PROVE ServerShown(viewFields')
      BY <1>1, <1>8, ReorderedFields
<1>9. ASSUME w.op = "order", Gone(w.args) # {}, viewFields' = Reordered(BeforeGone(w.args))
      PROVE  ServerShown(viewFields')
      BY <1>6, <1>8, <1>9, BeforeGoneFields
<1>10. ServerShown(viewFields')
      <2>1. FieldDone(w) => ServerShown(viewFields')
            BY <1>1, <1>2, <1>3, <1>4, <1>5, <1>6, <1>7, <1>8 DEF FieldDone
      <2> QED BY <1>1, <1>9, <2>1 DEF FieldHandled
<1>11. \E a \in {"ok", "error", "lost"} :
         /\ fieldWrites' = (fieldWrites \ {w}) \cup {[w EXCEPT !.answer = a]}
         /\ a # "error" \/ w.op = "order" \/ viewFields' = viewFields
       BY DEF FieldHandled
<1> QED BY <1>10, <1>11

LEMMA FieldHandledKeeps ==
  ASSUME FieldsInv, NEW w \in fieldWrites, FieldHandled(w) PROVE FieldsInv'
<1>1. FieldsShape
      BY DEF FieldsInv
<1>2. PICK a \in {"ok", "error", "lost"} :
        /\ ServerShown(viewFields')
        /\ fieldWrites' = (fieldWrites \ {w}) \cup {[w EXCEPT !.answer = a]}
        /\ a # "error" \/ w.op = "order" \/ viewFields' = viewFields
      BY <1>1, HandledFields
<1> DEFINE v == [w EXCEPT !.answer = a]
<1>3. /\ w.answer = "none"
      /\ UNCHANGED <<fieldsCache, fieldList, columns, fieldsFetch, fieldMenu, dropping, resizing,
                     fieldActions, fieldExcused>>
      BY DEF FieldHandled
<1>4. FieldWriteFits(w) /\ NoHidden(w.before)
      BY <1>1 DEF FieldsShape
<1>5. /\ DOMAIN v = DOMAIN w /\ v.op = w.op /\ v.args = w.args /\ v.before = w.before
      /\ v.after = w.after /\ v.rolls = w.rolls /\ v.answer = a /\ v.alone = w.alone
      BY <1>4 DEF FieldWriteFits
<1>6. v \in fieldWrites' /\ \A u \in fieldWrites : u # w => u \in fieldWrites'
      BY <1>2
<1>7. \A u \in fieldWrites' : u = v \/ (u \in fieldWrites /\ u # w)
      BY <1>2
<1> HIDE DEF v
<1>8. FieldWriteFits(v) /\ NoHidden(v.before)
      BY <1>2, <1>4, <1>5 DEF FieldWriteFits
<1>9. FieldsShape'
      <2>1. \A u \in fieldWrites' : FieldWriteFits(u) /\ NoHidden(u.before)
            BY <1>1, <1>7, <1>8 DEF FieldsShape
      <2> QED BY <1>1, <1>2, <1>3, <2>1 DEF FieldsShape, ServerShown
<1>10. ASSUME ~ fieldExcused' PROVE CacheFollows' /\ ListFollows' /\ ColumnsFollow' /\ AloneIsAlone'
      <2>1. CacheFollows /\ ListFollows /\ ColumnsFollow /\ AloneIsAlone
            BY <1>3, <1>10 DEF FieldsInv, FieldsFollow
      <2>2. CacheFollows'
            <3>1. CASE a # "error" \/ w.op = "order"
                  <4>1. LeadsOn(v)
                        BY <1>2, <1>4, <1>5, <3>1 DEF LeadsOn, FieldWriteFits
                  <4> QED BY <1>6, <4>1 DEF CacheFollows
            <3>2. CASE viewFields' = viewFields
                  <4>1. (\E u \in fieldWrites : LeadsOn(u)) => \E u \in fieldWrites' : LeadsOn(u)
                        BY <1>3, <1>6 DEF LeadsOn
                  <4> QED BY <1>3, <2>1, <3>2, <4>1 DEF CacheFollows
            <3> QED BY <1>2, <3>1, <3>2
      <2>3. ListFollows'
            BY <1>3, <1>5, <1>6, <2>1 DEF ListFollows
      <2>4. ColumnsFollow'
            BY <1>3, <1>5, <1>6, <2>1 DEF ColumnsFollow
      <2>5. AloneIsAlone'
            <3>1. ASSUME NEW u \in fieldWrites', u.alone
                  PROVE  /\ fieldWrites' = {u} /\ fieldsFetch.at = "no"
                         /\ u.rolls => u.before = Visible(fieldsCache)
                  <4>1. CASE u = v
                        <5>1. fieldWrites = {w} /\ fieldsFetch.at = "no"
                              /\ (w.rolls => w.before = Visible(fieldsCache))
                              BY <1>5, <2>1, <3>1, <4>1 DEF AloneIsAlone
                        <5> QED BY <1>5, <1>6, <1>7, <4>1, <5>1
                  <4>2. CASE u \in fieldWrites /\ u # w
                        BY <2>1, <3>1, <4>2 DEF AloneIsAlone
                  <4> QED BY <1>7, <4>1, <4>2
            <3> QED BY <1>3, <3>1 DEF AloneIsAlone
      <2> QED BY <2>2, <2>3, <2>4, <2>5
<1> QED BY <1>9, <1>10 DEF FieldsInv, FieldsFollow

-----------------------------------------------------------------------------
(* The answers, and the fetches                                            *)

LEMMA CacheBecomesRight ==
  ASSUME FieldsShape, NEW fields \in Seq(Shown), CacheBecomes(fields)
  PROVE  /\ fieldsCache' = fields /\ fieldList' \in Seq(Shown)
         /\ columns' \in Seq(Shown) /\ NoHidden(columns')
         /\ \/ fields = fieldsCache /\ fieldList' = fieldList /\ columns' = columns
            \/ fieldList' = fieldsCache' /\ columns' = Visible(fieldsCache')
BY VisibleLists DEF CacheBecomes, FieldsShape

LEMMA NotFetchingFits ==
  /\ NotFetching \in [at : {"no", "asked", "read"}, read : Seq(Shown)] /\ NotFetching.at = "no"
  /\ Refetch \in [at : {"no", "asked", "read"}, read : Seq(Shown)] /\ Refetch.at = "asked"
BY DEF NotFetching, Refetch

LEMMA ModalAfterFits ==
  ASSUME FieldsShape, NEW w, dropping' = ModalAfter(w)
  PROVE  DropFits(dropping') /\ (dropping'.open => dropping.open)
BY NoMenuFits DEF FieldsShape, ModalAfter

LEMMA FieldSucceedsKeeps ==
  ASSUME FieldsInv, NEW w \in fieldWrites, FieldSucceeds(w) PROVE FieldsInv'
<1>1. FieldsShape /\ FieldWriteFits(w)
      BY DEF FieldsInv, FieldsShape
<1>2. /\ fieldWrites' = fieldWrites \ {w} /\ fieldsFetch' = Refetch /\ dropping' = ModalAfter(w)
      /\ UNCHANGED <<viewFields, fieldMenu, resizing, fieldActions, fieldExcused>>
      BY DEF FieldSucceeds
<1>3. /\ fieldsCache' \in Seq(Shown) /\ fieldList' \in Seq(Shown)
      /\ columns' \in Seq(Shown) /\ NoHidden(columns')
      /\ \/ /\ fieldsCache' = fieldsCache /\ fieldList' = fieldList /\ columns' = columns
            /\ w.op = "add" \/ w.after = fieldsCache
         \/ fieldList' = fieldsCache' /\ columns' = Visible(fieldsCache')
      <2>1. CASE w.op = "add"
            BY <1>1, <2>1 DEF FieldSucceeds, FieldsShape
      <2>2. CASE w.op # "add"
            <3>1. CacheBecomes(w.after) /\ w.after \in Seq(Shown)
                  BY <1>1, <2>2 DEF FieldSucceeds, FieldWriteFits
            <3> QED BY <1>1, <3>1, CacheBecomesRight
      <2> QED BY <2>1, <2>2
<1>4. FieldsShape'
      <2>1. DropFits(dropping') /\ (dropping'.open => dropping.open)
            BY <1>1, <1>2, ModalAfterFits
      <2> QED BY <1>1, <1>2, <1>3, <2>1, NotFetchingFits DEF FieldsShape
<1>5. ASSUME ~ fieldExcused' PROVE CacheFollows' /\ ListFollows' /\ ColumnsFollow' /\ AloneIsAlone'
      <2>1. CacheFollows /\ ListFollows /\ ColumnsFollow /\ AloneIsAlone
            BY <1>2, <1>5 DEF FieldsInv, FieldsFollow
      <2>2. CacheFollows'
            BY <1>2, NotFetchingFits DEF CacheFollows
      <2>3. ListFollows' /\ ColumnsFollow'
            <3>1. CASE fieldList' = fieldsCache' /\ columns' = Visible(fieldsCache')
                  BY <3>1 DEF ListFollows, ColumnsFollow
            <3>2. CASE /\ fieldsCache' = fieldsCache /\ fieldList' = fieldList /\ columns' = columns
                       /\ w.op = "add" \/ w.after = fieldsCache
                  BY <1>2, <2>1, <3>2 DEF ListFollows, ColumnsFollow
            <3> QED BY <1>3, <3>1, <3>2
      <2>4. AloneIsAlone'
            <3>1. \A u \in fieldWrites' : ~ u.alone
                  BY <1>2, <2>1 DEF AloneIsAlone
            <3> QED BY <3>1 DEF AloneIsAlone
      <2> QED BY <2>2, <2>3, <2>4
<1> QED BY <1>4, <1>5 DEF FieldsInv, FieldsFollow

LEMMA FieldFailsKeeps ==
  ASSUME FieldsInv, NEW w \in fieldWrites, FieldFails(w) PROVE FieldsInv'
<1>1. FieldsShape /\ FieldWriteFits(w) /\ NoHidden(w.before)
      BY DEF FieldsInv, FieldsShape
<1>2. /\ w.answer \in {"error", "lost"} /\ fieldWrites' = fieldWrites \ {w} /\ dropping' = ModalAfter(w)
      /\ columns' = IF w.rolls THEN w.before ELSE columns
      /\ fieldExcused' = (fieldExcused \/ ~ w.rolls \/ ~ w.alone \/ w.answer = "lost")
      /\ UNCHANGED <<viewFields, fieldsCache, fieldList, fieldsFetch, fieldMenu, resizing, fieldActions>>
      BY DEF FieldFails
<1>3. columns' \in Seq(Shown) /\ NoHidden(columns') /\ fieldExcused' \in BOOLEAN
      BY <1>1, <1>2 DEF FieldWriteFits, FieldsShape
<1>4. FieldsShape'
      <2>1. DropFits(dropping') /\ (dropping'.open => dropping.open)
            BY <1>1, <1>2, ModalAfterFits
      <2> QED BY <1>1, <1>2, <1>3, <2>1 DEF FieldsShape
<1>5. ASSUME ~ fieldExcused' PROVE CacheFollows' /\ ListFollows' /\ ColumnsFollow' /\ AloneIsAlone'
      <2>1. ~ fieldExcused /\ w.rolls /\ w.alone /\ w.answer = "error"
            BY <1>2, <1>5
      <2>2. CacheFollows /\ ListFollows /\ AloneIsAlone
            BY <2>1 DEF FieldsInv, FieldsFollow
      <2>3. fieldWrites = {w} /\ fieldsFetch.at = "no" /\ w.before = Visible(fieldsCache)
            BY <2>1, <2>2 DEF AloneIsAlone
      <2>4. ~ LeadsOn(w)
            BY <1>2, <2>1 DEF LeadsOn
      <2>5. fieldWrites' = {} /\ columns' = Visible(fieldsCache')
            BY <1>2, <2>1, <2>3
      <2>6. CacheFollows'
            BY <1>2, <2>2, <2>3, <2>4 DEF CacheFollows
      <2>7. ListFollows'
            BY <1>2, <2>1, <2>2, <2>3 DEF ListFollows
      <2> QED BY <2>5, <2>6, <2>7 DEF ColumnsFollow, AloneIsAlone
<1> QED BY <1>4, <1>5 DEF FieldsInv, FieldsFollow

LEMMA FieldsFetchKeeps ==
  ASSUME FieldsInv, FieldsAsked \/ FieldsRead \/ FieldsArrive PROVE FieldsInv'
<1>1. FieldsShape /\ ServerFields(viewFields) \subseteq Seq(Shown)
      BY ServerLists DEF FieldsInv, FieldsShape
<1>2. CASE FieldsAsked
      <2>1. /\ fieldsFetch' = Refetch /\ fieldWrites' = {Beside(w) : w \in fieldWrites}
            /\ UNCHANGED <<viewFields, fieldsCache, fieldList, columns, fieldMenu, dropping, resizing,
                           fieldActions, fieldExcused>>
            BY <1>2 DEF FieldsAsked
      <2>2. \A w \in fieldWrites : FieldWriteFits(w) /\ NoHidden(w.before)
            BY <1>1 DEF FieldsShape
      <2>3. \A w \in fieldWrites :
              /\ Beside(w) \in fieldWrites'
              /\ FieldWriteFits(Beside(w)) /\ Beside(w).before = w.before /\ Beside(w).after = w.after
              /\ Beside(w).op = w.op /\ Beside(w).rolls = w.rolls /\ ~ Beside(w).alone
            BY <2>1, <2>2, BesideFits
      <2>4. \A w \in fieldWrites' : FieldWriteFits(w) /\ NoHidden(w.before) /\ ~ w.alone
            BY <2>1, <2>2, <2>3
      <2>5. FieldsShape'
            BY <1>1, <2>1, <2>4, NotFetchingFits DEF FieldsShape
      <2>6. ASSUME ~ fieldExcused' PROVE CacheFollows' /\ ListFollows' /\ ColumnsFollow' /\ AloneIsAlone'
            <3>1. ListFollows /\ ColumnsFollow
                  BY <2>1, <2>6 DEF FieldsInv, FieldsFollow
            <3>2. CacheFollows' /\ AloneIsAlone'
                  BY <2>1, <2>4, NotFetchingFits DEF CacheFollows, AloneIsAlone
            <3> QED BY <2>1, <2>3, <3>1, <3>2 DEF ListFollows, ColumnsFollow
      <2> QED BY <2>5, <2>6 DEF FieldsInv, FieldsFollow
<1>3. CASE FieldsRead
      <2>1. PICK s \in ServerFields(viewFields) : fieldsFetch' = [at |-> "read", read |-> s]
            BY <1>3 DEF FieldsRead
      <2>2. /\ fieldsFetch.at = "asked"
            /\ UNCHANGED <<viewFields, fieldsCache, fieldList, columns, fieldWrites, fieldMenu, dropping,
                           resizing, fieldActions, fieldExcused>>
            BY <1>3 DEF FieldsRead
      <2>3. FieldsShape'
            BY <1>1, <2>1, <2>2 DEF FieldsShape
      <2>4. ASSUME ~ fieldExcused' PROVE CacheFollows' /\ ListFollows' /\ ColumnsFollow' /\ AloneIsAlone'
            <3>1. ListFollows /\ ColumnsFollow /\ AloneIsAlone
                  BY <2>2, <2>4 DEF FieldsInv, FieldsFollow
            <3>2. CacheFollows'
                  BY <2>1, <2>2 DEF CacheFollows
            <3> QED BY <2>2, <3>1, <3>2 DEF ListFollows, ColumnsFollow, AloneIsAlone
      <2> QED BY <2>3, <2>4 DEF FieldsInv, FieldsFollow
<1>4. CASE FieldsArrive
      <2>1. /\ fieldsFetch.at = "read" /\ fieldsFetch' = NotFetching
            /\ UNCHANGED <<viewFields, fieldWrites, fieldMenu, dropping, resizing, fieldActions>>
            BY <1>4 DEF FieldsArrive
      <2>2. fieldsFetch.read \in Seq(Shown)
            BY <1>1 DEF FieldsShape
      <2>3. CASE CacheBecomes(fieldsFetch.read) /\ UNCHANGED fieldExcused
            <3>1. /\ fieldsCache' = fieldsFetch.read /\ fieldList' \in Seq(Shown)
                  /\ columns' \in Seq(Shown) /\ NoHidden(columns')
                  /\ \/ fieldsFetch.read = fieldsCache /\ fieldList' = fieldList /\ columns' = columns
                     \/ fieldList' = fieldsCache' /\ columns' = Visible(fieldsCache')
                  BY <1>1, <2>2, <2>3, CacheBecomesRight
            <3>2. FieldsShape'
                  BY <1>1, <2>1, <2>2, <2>3, <3>1, NotFetchingFits DEF FieldsShape
            <3>3. ASSUME ~ fieldExcused' PROVE CacheFollows' /\ ListFollows' /\ ColumnsFollow' /\ AloneIsAlone'
                  <4>1. CacheFollows /\ ListFollows /\ ColumnsFollow /\ AloneIsAlone
                        BY <2>3, <3>3 DEF FieldsInv, FieldsFollow
                  <4>2. CacheFollows'
                        BY <2>1, <3>1, <4>1, NotFetchingFits DEF CacheFollows
                  <4>3. ListFollows' /\ ColumnsFollow'
                        BY <2>1, <3>1, <4>1 DEF ListFollows, ColumnsFollow
                  <4>4. AloneIsAlone'
                        BY <2>1, <4>1 DEF AloneIsAlone
                  <4> QED BY <4>2, <4>3, <4>4
            <3> QED BY <3>2, <3>3 DEF FieldsInv, FieldsFollow
      <2>4. CASE UNCHANGED <<fieldsCache, fieldList, columns>> /\ fieldExcused' = TRUE
            <3>1. FieldsShape'
                  BY <1>1, <2>1, <2>4, NotFetchingFits DEF FieldsShape
            <3> QED BY <2>4, <3>1 DEF FieldsInv, FieldsFollow
      <2> QED BY <1>4, <2>3, <2>4 DEF FieldsArrive
<1> QED BY <1>2, <1>3, <1>4

-----------------------------------------------------------------------------
(* The view                                                                *)

(* A page that shows what the server has                                   *)
LEMMA FreshFields ==
  ASSUME ServerShown(viewFields), fieldsCache \in ServerFields(viewFields), fieldList = fieldsCache,
         columns = Visible(fieldsCache), fieldWrites = {}, fieldsFetch = NotFetching,
         fieldMenu = NoMenu, dropping = NoDrop, resizing = FALSE, fieldActions = 0, fieldExcused = FALSE
  PROVE  FieldsInv
<1>1. fieldsCache \in Seq(Shown)
      BY ServerLists DEF ServerShown
<1>2. columns \in Seq(Shown) /\ NoHidden(columns)
      BY <1>1, VisibleLists
<1>3. fieldActions \in 0..MaxFieldActions
      <2>1. MaxFieldActions \in Nat
            BY FieldsAssumption
      <2> QED BY <2>1
<1>4. FieldsShape
      BY <1>1, <1>2, <1>3, NotFetchingFits, NoMenuFits DEF FieldsShape, ServerShown
<1>5. CacheFollows /\ ListFollows /\ ColumnsFollow /\ AloneIsAlone
      BY NotFetchingFits DEF CacheFollows, ListFollows, ColumnsFollow, AloneIsAlone
<1> QED BY <1>4, <1>5 DEF FieldsInv, FieldsFollow

LEMMA VisitFieldsKeeps == ASSUME FieldsInv, VisitFields PROVE FieldsInv'
<1>1. PICK there \in SUBSET FieldIds, hid \in SUBSET FieldIds :
        viewFields' = [f \in there |-> [order |-> Cardinality({g \in there : g <= f}),
                                        hidden |-> f \in hid, attr |-> 0]]
      BY DEF VisitFields
<1>2. ASSUME NEW f \in there PROVE viewFields'[f] \in Option
      <2> DEFINE upto == {g \in there : g <= f}
      <2>1. upto \in SUBSET FieldIds
            OBVIOUS
      <2>2. viewFields'[f] = [order |-> Cardinality(upto), hidden |-> f \in hid, attr |-> 0]
            BY <1>1
      <2> HIDE DEF upto
      <2>3. Cardinality(upto) \in Nat
            BY <2>1, FieldsAssumption, FS_Subset, FS_CardinalityType
      <2>4. (f \in hid) \in BOOLEAN
            OBVIOUS
      <2> QED BY <2>2, <2>3, <2>4 DEF Option
<1>3. ServerShown(viewFields')
      BY <1>1, <1>2 DEF ServerShown
<1>4. FieldsInv'
      <2>1. /\ fieldsCache' \in ServerFields(viewFields')
            /\ fieldList' = fieldsCache' /\ columns' = Visible(fieldsCache')
            /\ fieldsFetch' = NotFetching /\ fieldMenu' = NoMenu /\ dropping' = NoDrop /\ resizing' = FALSE
            /\ fieldActions' = 0 /\ fieldExcused' = FALSE /\ fieldWrites' = {}
            BY DEF VisitFields
      <2>2. fieldsCache' \in Seq(Shown)
            BY <1>3, <2>1, ServerLists DEF ServerShown
      <2>3. columns' \in Seq(Shown) /\ NoHidden(columns')
            BY <2>1, <2>2, VisibleLists
      <2>4. fieldActions' \in 0..MaxFieldActions
            <3>1. MaxFieldActions \in Nat
                  BY FieldsAssumption
            <3> QED BY <2>1, <3>1
      <2>5. FieldsShape'
            BY <1>3, <2>1, <2>2, <2>3, <2>4, NotFetchingFits, NoMenuFits DEF FieldsShape, ServerShown
      <2>6. CacheFollows' /\ ListFollows' /\ ColumnsFollow' /\ AloneIsAlone'
            BY <2>1, NotFetchingFits DEF CacheFollows, ListFollows, ColumnsFollow, AloneIsAlone
      <2> QED BY <2>5, <2>6 DEF FieldsInv, FieldsFollow
<1> QED BY <1>4

LEMMA FieldsInitInv == FieldsInit => FieldsInv
<1> SUFFICES ASSUME FieldsInit PROVE FieldsInv
    OBVIOUS
<1>1. PICK f \in FieldIds : viewFields \in [{f} -> {[order |-> 1, hidden |-> FALSE, attr |-> 0]}]
      BY DEF FieldsInit
<1>2. ServerShown(viewFields)
      <2>1. [order |-> 1, hidden |-> FALSE, attr |-> 0] \in Option
            BY DEF Option
      <2> QED BY <1>1, <2>1 DEF ServerShown
<1> QED BY <1>2, FreshFields DEF FieldsInit

LEMMA FieldsNextKeeps == FieldsInv /\ [FieldsNext]_fieldVars => FieldsInv'
<1>1. ASSUME FieldsInv, UNCHANGED fieldVars PROVE FieldsInv'
      <2>1. UNCHANGED <<viewFields, fieldsCache, fieldList, columns, fieldWrites, fieldsFetch,
                        fieldMenu, dropping, resizing, fieldActions, fieldExcused>>
            BY <1>1 DEF fieldVars
      <2>2. FieldsShape'
            BY <1>1, <2>1 DEF FieldsInv, FieldsShape
      <2>3. CacheFollows' = CacheFollows /\ ListFollows' = ListFollows /\ ColumnsFollow' = ColumnsFollow
            BY <2>1 DEF CacheFollows, ListFollows, ColumnsFollow
      <2>4. AloneIsAlone' = AloneIsAlone
            BY <2>1 DEF AloneIsAlone
      <2> QED BY <1>1, <2>1, <2>2, <2>3, <2>4 DEF FieldsInv, FieldsFollow
<1>2. ASSUME FieldsInv, NEW w \in fieldWrites, FieldHandled(w) \/ FieldSucceeds(w) \/ FieldFails(w)
      PROVE  FieldsInv'
      BY <1>2, FieldHandledKeeps, FieldSucceedsKeeps, FieldFailsKeeps
<1> QED BY <1>1, <1>2, MenuColumnsKeep, MenuKeeps, DropKeeps, ColumnHandlersKeep, PopoverKeeps, FieldsFetchKeeps,
        VisitFieldsKeeps DEF FieldsNext

(* Every copy of the fields is a list of fields in every reachable state.  *)
THEOREM FieldTypeCorrect == FieldsSpec => []FieldTypeOK
<1>1. FieldsInv => FieldTypeOK
      BY DEF FieldsInv, FieldsShape, FieldWriteFits, DropFits, FieldTypeOK
<1> QED BY <1>1, FieldsInitInv, FieldsNextKeeps, PTL DEF FieldsSpec

(* Whatever handlers overlapped, and in whatever order they were answered  *)
(* and the fields fetched: at rest all four copies agree, unless one of    *)
(* the failures that ColumnsSettle names was among them.                   *)
THEOREM ColumnsDoSettle == FieldsSpec => []ColumnsSettle
<1>1. FieldsInv => ColumnsSettle
      BY DEF FieldsInv, FieldsFollow, CacheFollows, ListFollows, ColumnsFollow, ColumnsSettle
<1> QED BY <1>1, FieldsInitInv, FieldsNextKeeps, PTL DEF FieldsSpec

-----------------------------------------------------------------------------
(* Filters and sort: the form and what it makes of a tree                  *)

Kid == [op : LogicalOps \cup {"one"}, conds : Seq(Conditions)]
KidEntry == [id : {"shown", "filter", "group"} \X Nat, kid : Kid]
FilterFormFits(f) ==
  f \in [open : BOOLEAN, op : LogicalOps, kids : Seq(KidEntry), count : Nat \ {0}, recounted : BOOLEAN]

(* The ids of the children differ, and no child that was added has an id   *)
(* that is still to be given.                                              *)
KidsKnown(f) ==
  f.open /\ ~ f.recounted =>
    /\ \A i, j \in DOMAIN f.kids : f.kids[i].id = f.kids[j].id => i = j
    /\ \A i \in DOMAIN f.kids : f.kids[i].id[1] # "shown" => f.kids[i].id[2] < f.count

(* What a step may do with the form                                        *)
FormSame(f, g) ==
  /\ FilterFormFits(g) /\ g.open = f.open /\ g.recounted = f.recounted /\ g.count = f.count
  /\ DOMAIN g.kids = DOMAIN f.kids /\ \A i \in DOMAIN f.kids : g.kids[i].id = f.kids[i].id
FormGrows(f, g) ==
  \E id \in {"filter", "group"}, kid \in Kid :
    g = [f EXCEPT !.kids = Append(@, [id |-> <<id, f.count>>, kid |-> kid]), !.count = f.count + 1]
FormLoses(f, g) ==
  \E i \in DOMAIN f.kids :
    g = [f EXCEPT !.kids = Filtered(@, {k \in DOMAIN @ : @[k].id # f.kids[i].id})]

LEMMA FormFields ==
  ASSUME NEW f, FilterFormFits(f)
  PROVE  /\ f.open \in BOOLEAN /\ f.op \in LogicalOps /\ f.kids \in Seq(KidEntry)
         /\ f.count \in Nat \ {0} /\ f.recounted \in BOOLEAN
         /\ DOMAIN f.kids = 1..Len(f.kids) /\ Len(f.kids) \in Nat
         /\ \A i \in DOMAIN f.kids : f.kids[i] \in KidEntry
BY LenProperties DEF FilterFormFits

LEMMA ClosedFormFits == FilterFormFits(ClosedForm) /\ ~ ClosedForm.open
<1>1. <<>> \in Seq(KidEntry) /\ 1 \in Nat \ {0}
      OBVIOUS
<1> QED BY <1>1 DEF FilterFormFits, ClosedForm, LogicalOps

LEMMA InitializedFits ==
  ASSUME NEW tree \in Tree
  PROVE  FilterFormFits(InitializedGroup(tree)) /\ KidsKnown(InitializedGroup(tree))
<1> DEFINE s == tree.kids
           kids == [i \in DOMAIN s |-> [id |-> <<"shown", i>>, kid |-> s[i]]]
           count == IF s = <<>> THEN 1 ELSE Len(s)
           g == InitializedGroup(tree)
<1>1. s \in Seq(Kid) /\ tree.op \in LogicalOps
      BY DEF Tree, Kid
<1>2. DOMAIN s = 1..Len(s) /\ Len(s) \in Nat /\ \A i \in DOMAIN s : s[i] \in Kid
      BY <1>1, LenProperties
<1>3. \A i \in DOMAIN s : kids[i].id = <<"shown", i>> /\ kids[i] \in KidEntry
      BY <1>2 DEF KidEntry
<1>4. DOMAIN kids = DOMAIN s /\ kids = [i \in DOMAIN s |-> kids[i]]
      OBVIOUS
<1>5. count \in Nat \ {0}
      <2>1. s # <<>> => Len(s) # 0
            BY <1>1, EmptySeq
      <2>2. 1 \in Nat \ {0}
            OBVIOUS
      <2> QED BY <1>2, <2>1, <2>2
<1>6. g = [open |-> TRUE, op |-> tree.op, kids |-> kids, count |-> count, recounted |-> FALSE]
      BY DEF InitializedGroup
<1> HIDE DEF kids, count, g
<1>7. kids \in Seq(KidEntry)
      <2>1. \A i \in DOMAIN s : kids[i] \in KidEntry
            BY <1>3
      <2> QED BY <1>1, <1>4, <2>1, MappedList
<1>8. g \in [open : BOOLEAN, op : LogicalOps, kids : Seq(KidEntry), count : Nat \ {0}, recounted : BOOLEAN]
      BY <1>1, <1>5, <1>6, <1>7
<1>9. /\ \A i, j \in DOMAIN kids : kids[i].id = kids[j].id => i = j
      /\ \A i \in DOMAIN kids : kids[i].id[1] = "shown"
      <2>1. \A i, j : <<"shown", i>> = <<"shown", j>> => i = j
            OBVIOUS
      <2>2. \A i : <<"shown", i>>[1] = "shown"
            OBVIOUS
      <2>3. \A i \in DOMAIN kids : kids[i].id = <<"shown", i>>
            BY <1>3, <1>4
      <2>4. \A i, j \in DOMAIN kids : kids[i].id = kids[j].id => i = j
            BY <2>1, <2>3
      <2>5. \A i \in DOMAIN kids : kids[i].id[1] = "shown"
            BY <2>2, <2>3
      <2> QED BY <2>4, <2>5
<1>10. KidsKnown(g)
      BY <1>6, <1>9 DEF KidsKnown
<1> QED BY <1>8, <1>10 DEF FilterFormFits, g

LEMMA BuiltFits == ASSUME NEW f, FilterFormFits(f) PROVE BuiltTree(f) \in Tree
<1> DEFINE s == f.kids
           seqs == [i \in DOMAIN s |-> IF s[i].kid.op = "one" THEN <<>> ELSE s[i].kid.conds]
           t == [i \in DOMAIN s |-> IF s[i].kid.op = "one" THEN s[i].kid
                                    ELSE Group(s[i].kid.op, Joined(s))]
<1>1. s \in Seq(KidEntry) /\ f.op \in LogicalOps /\ \A i \in DOMAIN s : s[i].kid \in Kid
      BY FormFields DEF KidEntry
<1>2. \A i \in DOMAIN s : seqs[i] \in Seq(Conditions)
      BY <1>1 DEF Kid
<1>3. DOMAIN seqs = DOMAIN s /\ seqs = [i \in DOMAIN s |-> seqs[i]]
      OBVIOUS
<1>4. Joined(s) = FlattenSeq(seqs)
      BY DEF Joined
<1>5. seqs \in Seq(Seq(Conditions))
      <2>1. s \in Seq(KidEntry)
            BY <1>1
      <2> HIDE DEF seqs, t, s
      <2> QED BY <2>1, <1>2, <1>3, MappedList
<1> HIDE DEF seqs
<1>6. Joined(s) \in Seq(Conditions)
      BY <1>4, <1>5, FlattenType
<1>7. ASSUME NEW i \in DOMAIN s PROVE t[i] \in Kid
      BY <1>1, <1>6 DEF Kid, Group
<1>8. DOMAIN t = DOMAIN s /\ t = [i \in DOMAIN s |-> t[i]]
      OBVIOUS
<1>9. BuiltTree(f) = [op |-> f.op, kids |-> t]
      BY DEF BuiltTree
<1> HIDE DEF t
<1>10. t \in Seq(Kid)
      BY <1>1, <1>7, <1>8, MappedList
<1> QED BY <1>1, <1>9, <1>10 DEF Tree, Kid

LEMMA RecountFits ==
  ASSUME NEW f, FilterFormFits(f), NEW tree \in Tree
  PROVE  LET g == Recount(f, tree) IN
         FilterFormFits(g) /\ g.open = f.open /\ g.kids = f.kids /\ (g = f \/ g.recounted)
<1>1. tree.kids \in Seq(Kid)
      BY DEF Tree, Kid
<1>2. tree.kids # <<>> => Len(tree.kids) \in Nat \ {0}
      BY <1>1, EmptySeq, LenProperties
<1> QED BY <1>2 DEF Recount, FilterFormFits

LEMMA SameForm == ASSUME NEW f, FilterFormFits(f) PROVE FormSame(f, f)
BY DEF FormSame

(* A child of the form is given other conditions, or another operator.     *)
LEMMA ChangedKid ==
  ASSUME NEW f, FilterFormFits(f), NEW i \in DOMAIN f.kids, NEW kid \in Kid
  PROVE  FormSame(f, [f EXCEPT !.kids = [@ EXCEPT ![i].kid = kid]])
<1> DEFINE s == f.kids
           t == [s EXCEPT ![i].kid = kid]
<1>1. s \in Seq(KidEntry) /\ \A k \in DOMAIN s : s[k] \in KidEntry
      BY FormFields
<1>2. s = [k \in DOMAIN s |-> s[k]]
      BY <1>1, LenProperties
<1>3. DOMAIN t = DOMAIN s /\ t = [k \in DOMAIN s |-> t[k]]
      BY <1>2
<1>4. \A k \in DOMAIN s : t[k] \in KidEntry /\ t[k].id = s[k].id
      BY <1>1, <1>2 DEF KidEntry
<1> DEFINE g == [f EXCEPT !.kids = t]
<1>5. [f EXCEPT !.kids = [@ EXCEPT ![i].kid = kid]] = g
      OBVIOUS
<1> HIDE DEF t
<1>6. t \in Seq(KidEntry)
      BY <1>1, <1>3, <1>4, MappedList
<1>7. FilterFormFits(g) /\ g.open = f.open /\ g.recounted = f.recounted /\ g.count = f.count /\ g.kids = t
      BY <1>6 DEF FilterFormFits
<1> HIDE DEF g
<1> QED BY <1>3, <1>4, <1>5, <1>7 DEF FormSame

-----------------------------------------------------------------------------
(* Filters and sort: what the user does with the form                      *)

FormMoves(f, g) == FormSame(f, g) \/ FormGrows(f, g) \/ FormLoses(f, g)

LEMMA SameKnown ==
  ASSUME NEW f, NEW g, FormSame(f, g), KidsKnown(f) PROVE FilterFormFits(g) /\ KidsKnown(g)
BY DEF FormSame, KidsKnown

LEMMA GrownKnown ==
  ASSUME NEW f, NEW g, FilterFormFits(f), FormGrows(f, g), KidsKnown(f)
  PROVE  FilterFormFits(g) /\ KidsKnown(g)
<1> DEFINE s == f.kids
<1>1. PICK id \in {"filter", "group"}, kid \in Kid :
        g = [f EXCEPT !.kids = Append(@, [id |-> <<id, f.count>>, kid |-> kid]), !.count = f.count + 1]
      BY DEF FormGrows
<1>2. /\ s \in Seq(KidEntry) /\ f.count \in Nat \ {0} /\ f.open \in BOOLEAN /\ f.op \in LogicalOps
      /\ f.recounted \in BOOLEAN /\ \A i \in DOMAIN s : s[i] \in KidEntry
      BY FormFields
<1> DEFINE e == [id |-> <<id, f.count>>, kid |-> kid]
           t == Append(s, e)
<1>3. e \in KidEntry /\ e.id = <<id, f.count>> /\ e.id[2] = f.count /\ e.id[1] # "shown"
      BY <1>2 DEF KidEntry
<1>4. g = [f EXCEPT !.kids = t, !.count = f.count + 1]
      BY <1>1
<1> HIDE DEF e
<1>5. /\ t \in Seq(KidEntry) /\ DOMAIN s \subseteq DOMAIN t
      /\ \A i \in DOMAIN s : t[i] = s[i]
      /\ \A i \in DOMAIN t : i \notin DOMAIN s => t[i] = e
      /\ \A i, j \in DOMAIN t : i \notin DOMAIN s /\ j \notin DOMAIN s => i = j
      BY <1>2, <1>3, AppendedList
<1> HIDE DEF t
<1>6. /\ g.kids = t /\ g.count = f.count + 1 /\ g.open = f.open /\ g.recounted = f.recounted
      /\ FilterFormFits(g)
      <2>1. f.count + 1 \in Nat \ {0}
            BY <1>2
      <2> QED BY <2>1, <1>4, <1>5 DEF FilterFormFits
<1>7. ASSUME f.open, ~ f.recounted PROVE KidsKnown(g)
      <2>1. /\ \A i, j \in DOMAIN s : s[i].id = s[j].id => i = j
            /\ \A i \in DOMAIN s : s[i].id[1] # "shown" => s[i].id[2] < f.count
            BY <1>7 DEF KidsKnown
      <2>2. \A i \in DOMAIN s : s[i].id # e.id
            BY <1>2, <1>3, <2>1
      <2>3. \A i, j \in DOMAIN t : t[i].id = t[j].id => i = j
            BY <1>5, <2>1, <2>2
      <2>4. \A i \in DOMAIN t : t[i].id[1] # "shown" => t[i].id[2] < f.count + 1
            <3>1. SUFFICES ASSUME NEW i \in DOMAIN t, t[i].id[1] # "shown"
                           PROVE  t[i].id[2] < f.count + 1
                  OBVIOUS
            <3>2. CASE i \in DOMAIN s
                  <4>1. s[i].id[2] \in Nat /\ s[i].id[2] < f.count
                        BY <1>2, <1>5, <2>1, <3>1, <3>2 DEF KidEntry
                  <4> QED BY <1>2, <1>5, <3>2, <4>1
            <3>3. CASE i \notin DOMAIN s
                  BY <1>2, <1>3, <1>5, <3>3
            <3> QED BY <3>2, <3>3
      <2> QED BY <1>6, <2>3, <2>4 DEF KidsKnown
<1>8. KidsKnown(g)
      BY <1>6, <1>7 DEF KidsKnown
<1> QED BY <1>6, <1>8

LEMMA LostKnown ==
  ASSUME NEW f, NEW g, FilterFormFits(f), FormLoses(f, g), KidsKnown(f)
  PROVE  /\ FilterFormFits(g) /\ KidsKnown(g)
         /\ f.open /\ ~ f.recounted => Len(g.kids) = Len(f.kids) - 1
<1> DEFINE s == f.kids
<1>1. PICK i \in DOMAIN s :
        g = [f EXCEPT !.kids = Filtered(@, {k \in DOMAIN @ : @[k].id # f.kids[i].id})]
      BY DEF FormLoses
<1> DEFINE keep == {k \in DOMAIN s : s[k].id # s[i].id}
           t == Filtered(s, keep)
<1>2. /\ s \in Seq(KidEntry) /\ f.count \in Nat \ {0} /\ f.open \in BOOLEAN /\ f.op \in LogicalOps
      /\ f.recounted \in BOOLEAN /\ DOMAIN s = 1..Len(s) /\ Len(s) \in Nat
      BY FormFields
<1>3. g = [f EXCEPT !.kids = t]
      BY <1>1
<1>4. keep \in SUBSET DOMAIN s /\ i \notin keep
      OBVIOUS
<1> HIDE DEF keep
<1>5. /\ t \in Seq(KidEntry) /\ Len(t) = Cardinality(keep) /\ DOMAIN t = 1..Len(t)
      /\ \E p : FromPlaces(t, s, p, keep) /\ Ascending(t, p)
      BY <1>2, <1>4, FilteredList
<1> HIDE DEF t
<1>6. PICK p : FromPlaces(t, s, p, keep)
      BY <1>5
<1>7. /\ \A k \in DOMAIN t : p[k] \in DOMAIN s /\ t[k] = s[p[k]]
      /\ \A k, l \in DOMAIN t : p[k] = p[l] => k = l
      BY <1>4, <1>5, <1>6 DEF FromPlaces
<1>8. /\ g.kids = t /\ g.count = f.count /\ g.open = f.open /\ g.recounted = f.recounted
      /\ FilterFormFits(g)
      BY <1>2, <1>3, <1>5 DEF FilterFormFits
<1>9. ASSUME f.open, ~ f.recounted PROVE KidsKnown(g) /\ Len(t) = Len(s) - 1
      <2>1. /\ \A k, l \in DOMAIN s : s[k].id = s[l].id => k = l
            /\ \A k \in DOMAIN s : s[k].id[1] # "shown" => s[k].id[2] < f.count
            BY <1>9 DEF KidsKnown
      <2>2. \A k, l \in DOMAIN t : t[k].id = t[l].id => k = l
            BY <1>7, <2>1
      <2>3. \A k \in DOMAIN t : t[k].id[1] # "shown" => t[k].id[2] < f.count
            BY <1>7, <2>1
      <2>4. keep = (DOMAIN s) \ {i}
            BY <2>1 DEF keep
      <2>5. IsFiniteSet(DOMAIN s) /\ Cardinality(DOMAIN s) = Len(s)
            <3>1. Cardinality(1..Len(s)) = Len(s) /\ IsFiniteSet(1..Len(s))
                  BY <1>2, FS_Interval
            <3> QED BY <1>2, <3>1
      <2>6. Cardinality((DOMAIN s) \ {i}) = Len(s) - 1
            <3>1. IsFiniteSet(DOMAIN s) => Cardinality((DOMAIN s) \ {i}) = Cardinality(DOMAIN s) - 1
                  BY FS_RemoveElement
            <3> QED BY <2>5, <3>1
      <2> QED BY <1>5, <1>8, <2>2, <2>3, <2>4, <2>6 DEF KidsKnown
<1>10. KidsKnown(g)
       BY <1>8, <1>9 DEF KidsKnown
<1> QED BY <1>8, <1>9, <1>10

LEMMA MovedKnown ==
  ASSUME NEW f, NEW g, FilterFormFits(f), FormMoves(f, g), KidsKnown(f)
  PROVE  FilterFormFits(g) /\ KidsKnown(g)
BY SameKnown, GrownKnown, LostKnown DEF FormMoves

(* A list without the element at a place                                   *)
LEMMA WithoutPlace ==
  ASSUME NEW S, NEW s \in Seq(S), NEW j \in DOMAIN s
  PROVE  SubSeq(s, 1, j - 1) \o SubSeq(s, j + 1, Len(s)) \in Seq(S)
<1>1. Len(s) \in Nat /\ j \in 1..Len(s) /\ \A k \in 1..Len(s) : s[k] \in S
      BY LenProperties
<1>2. SubSeq(s, 1, j - 1) \in Seq(S)
      BY <1>1
<1>3. SubSeq(s, j + 1, Len(s)) \in Seq(S)
      BY <1>1
<1> QED BY <1>2, <1>3

-----------------------------------------------------------------------------
(* Filters and sort: the invariant                                         *)

WriteParts == {"filters", "sort"}
ViewWriteFits(w) == w \in [part : WriteParts, view : Views, value : Parts]
WritesFit(b) == \A w \in DOMAIN b : ViewWriteFits(w) /\ b[w] \in Nat \ {0}
OptionsFit(o) == o \in [filters : Tree, sort : Seq(SortEntry)]
ShownFits(mounted) == DOMAIN mounted \subseteq SortIds /\ \A id \in DOMAIN mounted : mounted[id] \in SortKeys
FetchFits(f) ==
  /\ f \in [at : {"no", "read"}, read : {f.read}, differs : BOOLEAN, late : BOOLEAN]
  /\ f.at = "read" => f.read \in [Views -> Parts]

FilterShape ==
  /\ viewServer \in [Views -> Parts] /\ viewCache \in [Views -> Parts]
  /\ viewsChanged \in BOOLEAN /\ FetchFits(optionsFetch)
  /\ view \in Views /\ OptionsFit(viewOptions) /\ ShownFits(sortShown)
  /\ FilterFormFits(filterForm) /\ filterTimers \in SUBSET Views
  /\ sortOpen \in BOOLEAN /\ viewExcused \in BOOLEAN /\ edits \in 0..MaxEdits
  /\ WritesFit(viewWrites)

(* What was saved since the cached list was read makes it another one, and *)
(* a fetch that was read before brings neither.                            *)
FetchKnows ==
  /\ ~ viewsChanged => viewCache = viewServer
  /\ optionsFetch.late => viewsChanged
  /\ optionsFetch.at = "read" /\ ~ optionsFetch.late => optionsFetch.read = viewServer
  /\ optionsFetch.at = "read" /\ ~ optionsFetch.late /\ ~ optionsFetch.differs => ~ viewsChanged

(* What the page has of a part is what the server has, or what a request   *)
(* under way brings there.                                                 *)
Shows(p) == IF p = "sort" THEN KeysOf(viewOptions.sort) ELSE viewOptions.filters
Brings(w, p) == w.view = view /\ w.part = p /\ w.value[p] = Shows(p)
OptionsFrom(p) ==
  ~ viewsChanged =>
    Shows(p) = viewServer[view][p] \/ \E w \in DOMAIN viewWrites : Brings(w, p)

FilterInv ==
  /\ FilterShape /\ FetchKnows /\ KidsKnown(filterForm)
  /\ ~ viewExcused => \A p \in WriteParts : OptionsFrom(p)

(* What the user does with the form changes the form, and the save that is *)
(* pending, and nothing else.                                              *)
FormStep ==
  /\ edits < MaxEdits /\ edits' = edits + 1
  /\ FormMoves(filterForm, filterForm')
  /\ filterTimers' = filterTimers \/ filterTimers' = filterTimers \cup {view}
  /\ FormOnly

LEMMA KidsChange ==
  ASSUME FilterFormFits(filterForm), NEW i \in DOMAIN filterForm.kids, NEW conds \in Seq(Conditions),
         filterForm' = [filterForm EXCEPT !.kids[i].kid.conds = conds]
  PROVE  FormMoves(filterForm, filterForm')
<1> DEFINE kid == [filterForm.kids[i].kid EXCEPT !.conds = conds]
           g == [filterForm EXCEPT !.kids = [@ EXCEPT ![i].kid = kid]]
<1>1. filterForm.kids[i].kid \in Kid
      BY FormFields DEF KidEntry
<1>2. kid \in Kid
      BY <1>1 DEF Kid
<1>3. filterForm' = g
      OBVIOUS
<1> HIDE DEF kid
<1>4. FormSame(filterForm, g)
      BY <1>2, ChangedKid
<1> QED BY <1>3, <1>4 DEF FormMoves

LEMMA KidsOperator ==
  ASSUME FilterFormFits(filterForm), NEW i \in DOMAIN filterForm.kids, NEW op \in LogicalOps,
         filterForm' = [filterForm EXCEPT !.kids[i].kid.op = op]
  PROVE  FormMoves(filterForm, filterForm')
<1> DEFINE kid == [filterForm.kids[i].kid EXCEPT !.op = op]
           g == [filterForm EXCEPT !.kids = [@ EXCEPT ![i].kid = kid]]
<1>1. filterForm.kids[i].kid \in Kid
      BY FormFields DEF KidEntry
<1>2. kid \in Kid
      BY <1>1 DEF Kid
<1>3. filterForm' = g
      OBVIOUS
<1> HIDE DEF kid
<1>4. FormSame(filterForm, g)
      BY <1>2, ChangedKid
<1> QED BY <1>3, <1>4 DEF FormMoves

LEMMA FormsOperator ==
  ASSUME FilterFormFits(filterForm), NEW op \in LogicalOps,
         filterForm' = [filterForm EXCEPT !.op = op]
  PROVE  FormMoves(filterForm, filterForm')
<1>1. FormSame(filterForm, filterForm')
      BY DEF FilterFormFits, FormSame
<1> QED BY <1>1 DEF FormMoves

LEMMA AddsKid ==
  ASSUME FilterFormFits(filterForm), NEW id \in {"filter", "group"}, NEW kid \in Kid,
         AddKid(<<id, filterForm.count>>, kid)
  PROVE  FormStep
<1>1. FormGrows(filterForm, filterForm')
      BY DEF AddKid, Edited, NextCount, FormGrows
<1> QED BY <1>1 DEF AddKid, Edited, Edits, FormOnly, FormStep, FormMoves

LEMMA LeafFits == \A c \in Conditions : Leaf(c) \in Kid /\ Group("and", <<c>>) \in Kid
<1>1. \A c \in Conditions : <<c>> \in Seq(Conditions)
      OBVIOUS
<1> QED BY <1>1 DEF Leaf, Group, Kid, LogicalOps

LEMMA RemovesKid ==
  ASSUME NEW i \in DOMAIN filterForm.kids, filterForm' = WithoutKid(filterForm.kids[i].id)
  PROVE  FormMoves(filterForm, filterForm')
<1>1. FormLoses(filterForm, filterForm')
      BY DEF WithoutKid, FormLoses
<1> QED BY <1>1 DEF FormMoves

LEMMA ConditionsFit ==
  ASSUME NEW f, FilterFormFits(f), NEW i \in DOMAIN f.kids
  PROVE  f.kids[i].kid.conds \in Seq(Conditions) /\ f.kids[i].kid \in Kid
<1>1. f.kids[i] \in KidEntry
      BY FormFields
<1> QED BY <1>1 DEF KidEntry, Kid

LEMMA ChangesCondition ==
  ASSUME FilterFormFits(filterForm), NEW i \in DOMAIN filterForm.kids, ChangeCondition(i)
  PROVE  FormMoves(filterForm, filterForm') /\ Edits /\ FormOnly
<1> DEFINE conds == filterForm.kids[i].kid.conds
<1>1. PICK j \in DOMAIN conds, c \in Conditions :
        Edited([filterForm EXCEPT !.kids[i].kid.conds[j] = c])
      BY DEF ChangeCondition
<1>2. filterForm' = [filterForm EXCEPT !.kids[i].kid.conds = [conds EXCEPT ![j] = c]]
      BY <1>1 DEF Edited
<1>3. [conds EXCEPT ![j] = c] \in Seq(Conditions)
      <2>1. conds \in Seq(Conditions)
            BY ConditionsFit
      <2> QED BY <2>1
<1> HIDE DEF conds
<1>4. FormMoves(filterForm, filterForm')
      BY <1>2, <1>3, KidsChange
<1> QED BY <1>1, <1>4 DEF Edited

LEMMA FormUserSteps == ASSUME FilterFormFits(filterForm), FilterGroupUser PROVE FormStep
<1>1. CASE AddFilter
      BY <1>1, LeafFits, AddsKid DEF AddFilter
<1>2. CASE AddGroup
      BY <1>2, LeafFits, AddsKid DEF AddGroup
<1>3. CASE ChangeLogicalOp
      <2>1. PICK op \in LogicalOps :
               \/ Edited([filterForm EXCEPT !.op = op])
               \/ \E i \in DOMAIN filterForm.kids : Edited([filterForm EXCEPT !.kids[i].kid.op = op])
            BY <1>3 DEF ChangeLogicalOp
      <2>2. FormMoves(filterForm, filterForm')
            <3>1. CASE Edited([filterForm EXCEPT !.op = op])
                  BY <3>1, FormsOperator DEF Edited
            <3>2. ASSUME NEW i \in DOMAIN filterForm.kids, Edited([filterForm EXCEPT !.kids[i].kid.op = op])
                  PROVE  FormMoves(filterForm, filterForm')
                  BY <3>2, KidsOperator DEF Edited
            <3> QED BY <2>1, <3>1, <3>2
      <2>3. Edits /\ FormOnly
            BY <2>1 DEF Edited
      <2>4. UpdateTableRecords
            BY <1>3 DEF ChangeLogicalOp
      <2> QED BY <2>2, <2>3, <2>4 DEF FormStep, Edits, FormOnly, UpdateTableRecords
<1>4. ASSUME NEW i \in DOMAIN filterForm.kids,
             AddToGroup(i) \/ RemoveFilter(i) \/ RemoveFromGroup(i) \/ FieldChanges(i) \/ ValueChanges(i)
      PROVE  FormStep
      <2> DEFINE conds == filterForm.kids[i].kid.conds
      <2>1. conds \in Seq(Conditions)
            BY ConditionsFit
      <2>2. CASE AddToGroup(i)
            <3>1. PICK c \in Conditions : Edited([filterForm EXCEPT !.kids[i].kid.conds = Append(@, c)])
                  BY <2>2 DEF AddToGroup
            <3>2. filterForm' = [filterForm EXCEPT !.kids[i].kid.conds = Append(conds, c)]
                  BY <3>1 DEF Edited
            <3>3. Append(conds, c) \in Seq(Conditions)
                  BY <2>1
            <3> HIDE DEF conds
            <3>4. FormMoves(filterForm, filterForm')
                  BY <3>2, <3>3, KidsChange
            <3> QED BY <2>2, <3>1, <3>4 DEF AddToGroup, Edited, Edits, FormOnly, FormStep
      <2>3. CASE RemoveFilter(i)
            <3>1. FormMoves(filterForm, filterForm')
                  BY <2>3, RemovesKid DEF RemoveFilter, Edited
            <3> QED BY <2>3, <3>1 DEF RemoveFilter, Edited, Edits, FormOnly, FormStep, UpdateTableRecords
      <2>4. CASE RemoveFromGroup(i)
            <3>1. \/ Edited(WithoutKid(filterForm.kids[i].id))
                  \/ \E j \in DOMAIN conds :
                       Edited([filterForm EXCEPT !.kids[i].kid.conds =
                                 SubSeq(conds, 1, j - 1) \o SubSeq(conds, j + 1, Len(conds))])
                  BY <2>4 DEF RemoveFromGroup
            <3>2. ASSUME Edited(WithoutKid(filterForm.kids[i].id)) PROVE FormMoves(filterForm, filterForm')
                  BY <3>2, RemovesKid DEF Edited
            <3>3. ASSUME NEW j \in DOMAIN conds,
                         Edited([filterForm EXCEPT !.kids[i].kid.conds =
                                   SubSeq(conds, 1, j - 1) \o SubSeq(conds, j + 1, Len(conds))])
                  PROVE  FormMoves(filterForm, filterForm')
                  <4> DEFINE left == SubSeq(conds, 1, j - 1) \o SubSeq(conds, j + 1, Len(conds))
                  <4>1. left \in Seq(Conditions)
                        BY <2>1, WithoutPlace
                  <4>2. filterForm' = [filterForm EXCEPT !.kids[i].kid.conds = left]
                        BY <3>3 DEF Edited
                  <4> HIDE DEF left
                  <4> QED BY <4>1, <4>2, KidsChange
            <3>4. FormMoves(filterForm, filterForm')
                  BY <3>1, <3>2, <3>3
            <3>5. Edits /\ FormOnly
                  BY <3>1 DEF Edited
            <3>6. UpdateTableRecords
                  BY <2>4 DEF RemoveFromGroup
            <3> QED BY <3>4, <3>5, <3>6 DEF Edits, FormOnly, FormStep, UpdateTableRecords
      <2>5. CASE FieldChanges(i) \/ ValueChanges(i)
            <3>1. ChangeCondition(i) /\ (filterTimers' = filterTimers \/ UpdateTableRecords)
                  BY <2>5 DEF FieldChanges, ValueChanges
            <3>2. FormMoves(filterForm, filterForm') /\ Edits /\ FormOnly
                  BY <3>1, ChangesCondition
            <3> QED BY <3>1, <3>2 DEF Edits, FormOnly, FormStep, UpdateTableRecords
      <2> QED BY <1>4, <2>2, <2>3, <2>4, <2>5
<1> QED BY <1>1, <1>2, <1>3, <1>4 DEF FilterGroupUser

-----------------------------------------------------------------------------
(* Filters and sort: bags of requests                                      *)

LEMMA BagOfOne ==
  ASSUME NEW w, ViewWriteFits(w)
  PROVE  WritesFit(SetToBag({w})) /\ DOMAIN SetToBag({w}) = {w} /\ WritesFit(EmptyBag)
         /\ DOMAIN EmptyBag = {}
BY DEF SetToBag, EmptyBag, WritesFit

LEMMA BagsTogether ==
  ASSUME NEW b, NEW c, WritesFit(b), WritesFit(c)
  PROVE  WritesFit(b (+) c) /\ DOMAIN (b (+) c) = DOMAIN b \cup DOMAIN c
<1> DEFINE n(e) == (IF e \in DOMAIN b THEN b[e] ELSE 0) + (IF e \in DOMAIN c THEN c[e] ELSE 0)
<1>1. b (+) c = [e \in (DOMAIN b) \cup (DOMAIN c) |-> n(e)]
      BY DEF (+)
<1>2. \A e \in DOMAIN b : b[e] \in Nat \ {0}
      BY DEF WritesFit
<1>3. \A e \in DOMAIN c : c[e] \in Nat \ {0}
      BY DEF WritesFit
<1>4. \A e \in (DOMAIN b) \cup (DOMAIN c) : n(e) \in Nat \ {0}
      BY <1>2, <1>3
<1> HIDE DEF n
<1>5. \A e \in DOMAIN (b (+) c) : (b (+) c)[e] \in Nat \ {0}
      BY <1>1, <1>4
<1> QED BY <1>1, <1>5 DEF WritesFit

LEMMA BagWithout ==
  ASSUME NEW b, NEW w, WritesFit(b)
  PROVE  LET c == b (-) SetToBag({w}) IN
         WritesFit(c) /\ DOMAIN c \subseteq DOMAIN b /\ \A u \in DOMAIN b : u # w => u \in DOMAIN c
<1> DEFINE one == SetToBag({w})
           m == [e \in DOMAIN b |-> IF e \in DOMAIN one THEN b[e] - one[e] ELSE b[e]]
           c == b (-) one
<1>1. c = [e \in {d \in DOMAIN m : m[d] > 0} |-> m[e]]
      BY DEF (-)
<1>2. DOMAIN one = {w} /\ one[w] = 1
      BY DEF SetToBag
<1> HIDE DEF one
<1>3. DOMAIN m = DOMAIN b /\ \A e \in DOMAIN b : m[e] = IF e = w THEN b[e] - 1 ELSE b[e]
      BY <1>2
<1>4. \A e \in DOMAIN b : b[e] \in Nat \ {0}
      BY DEF WritesFit
<1>5. \A e \in DOMAIN b : m[e] \in Nat /\ (e # w => m[e] > 0)
      BY <1>3, <1>4
<1> HIDE DEF m, c
<1>6. /\ DOMAIN c \subseteq DOMAIN b /\ \A u \in DOMAIN b : u # w => u \in DOMAIN c
      /\ \A u \in DOMAIN c : c[u] \in Nat \ {0}
      BY <1>1, <1>3, <1>5
<1>7. WritesFit(c)
      BY <1>6 DEF WritesFit
<1> QED BY <1>6, <1>7 DEF c, one

-----------------------------------------------------------------------------
(* Filters and sort: the items of the sort                                 *)

LEMMA OptionFields ==
  ASSUME NEW o, OptionsFit(o) PROVE o.filters \in Tree /\ o.sort \in Seq(SortEntry)
BY DEF OptionsFit

LEMMA KeysFit ==
  ASSUME NEW items \in Seq(SortEntry)
  PROVE  KeysOf(items) \in Seq(SortKeys) /\ DOMAIN KeysOf(items) = DOMAIN items
<1> DEFINE t == [i \in DOMAIN items |-> items[i].key]
<1>1. \A i \in DOMAIN items : t[i] \in SortKeys
      <2>1. \A i \in DOMAIN items : items[i] \in SortEntry
            BY LenProperties
      <2> QED BY <2>1 DEF SortEntry
<1>2. DOMAIN t = DOMAIN items /\ t = [i \in DOMAIN items |-> t[i]] /\ KeysOf(items) = t
      BY DEF KeysOf
<1> HIDE DEF t
<1>3. t \in Seq(SortKeys)
      BY <1>1, <1>2, MappedList
<1> QED BY <1>2, <1>3

LEMMA InitializedSortFits ==
  ASSUME NEW sort \in Seq(SortKeys)
  PROVE  InitializedSort(sort) \in Seq(SortEntry) /\ KeysOf(InitializedSort(sort)) = sort
<1> DEFINE t == [i \in DOMAIN sort |-> [id |-> <<sort[i], i>>, key |-> sort[i]]]
<1>1. DOMAIN sort = 1..Len(sort) /\ Len(sort) \in Nat /\ \A i \in DOMAIN sort : sort[i] \in SortKeys
      BY LenProperties
<1>2. \A i \in DOMAIN sort : t[i] \in SortEntry /\ t[i].key = sort[i]
      BY <1>1 DEF SortEntry, SortIds
<1>3. DOMAIN t = DOMAIN sort /\ t = [i \in DOMAIN sort |-> t[i]] /\ InitializedSort(sort) = t
      BY DEF InitializedSort
<1> HIDE DEF t
<1>4. t \in Seq(SortEntry)
      BY <1>2, <1>3, MappedList
<1>5. sort = [i \in DOMAIN sort |-> sort[i]]
      BY <1>1
<1>6. KeysOf(t) = sort
      <2>1. KeysOf(t) = [i \in DOMAIN sort |-> t[i].key]
            BY <1>3 DEF KeysOf
      <2>2. [i \in DOMAIN sort |-> t[i].key] = [i \in DOMAIN sort |-> sort[i]]
            BY <1>2
      <2> QED BY <1>5, <2>1, <2>2
<1> QED BY <1>3, <1>4, <1>6

LEMMA OnPageFits ==
  ASSUME NEW items \in Seq(SortEntry), NEW mounted, ShownFits(mounted)
  PROVE  OnPage(items, mounted) \in Seq(SortEntry)
<1> DEFINE t == [i \in DOMAIN items |-> IF items[i].id \in DOMAIN mounted
                                        THEN [items[i] EXCEPT !.key = mounted[items[i].id]] ELSE items[i]]
<1>1. \A i \in DOMAIN items : items[i] \in SortEntry
      BY LenProperties
<1>2. \A i \in DOMAIN items : t[i] \in SortEntry
      BY <1>1 DEF ShownFits, SortEntry
<1>3. DOMAIN t = DOMAIN items /\ t = [i \in DOMAIN items |-> t[i]] /\ OnPage(items, mounted) = t
      BY DEF OnPage
<1> HIDE DEF t
<1> QED BY <1>2, <1>3, MappedList

LEMMA ShownByFits == ASSUME NEW items \in Seq(SortEntry) PROVE ShownFits(ShownBy(items))
<1>1. \A i \in DOMAIN items : items[i].id \in SortIds /\ items[i].key \in SortKeys
      <2>1. \A i \in DOMAIN items : items[i] \in SortEntry
            BY LenProperties
      <2> QED BY <2>1 DEF SortEntry
<1>2. IdsOf(items) \subseteq SortIds
      BY <1>1 DEF IdsOf
<1>3. ASSUME NEW id \in IdsOf(items)
      PROVE  items[CHOOSE i \in DOMAIN items : items[i].id = id].key \in SortKeys
      <2>1. \E i \in DOMAIN items : items[i].id = id
            BY DEF IdsOf
      <2> QED BY <1>1, <2>1
<1> QED BY <1>2, <1>3 DEF ShownFits, ShownBy

LEMMA IdsFinite == ASSUME NEW items \in Seq(SortEntry) PROVE IsFiniteSet(IdsOf(items))
<1> DEFINE g == [i \in DOMAIN items |-> items[i].id]
<1>1. DOMAIN items = 1..Len(items) /\ Len(items) \in Nat
      BY LenProperties
<1>2. IsFiniteSet(DOMAIN items)
      BY <1>1, FS_Interval
<1>3. g \in Surjection(DOMAIN items, IdsOf(items))
      BY DEF Surjection, IdsOf
<1> HIDE DEF g
<1> QED BY <1>2, <1>3, FS_Surjection

LEMMA PartsFit ==
  /\ \A sort \in Seq(SortKeys) : SortPart(sort) \in Parts /\ SortPart(sort)["sort"] = sort
  /\ \A tree \in Tree : FiltersPart(tree) \in Parts /\ FiltersPart(tree)["filters"] = tree
<1> DEFINE blank == [op |-> "and", kids |-> <<>>]
<1>1. blank \in Tree
      BY DEF Tree, LogicalOps
<1> HIDE DEF blank
<1>2. \A sort \in Seq(SortKeys) : SortPart(sort) = [filters |-> blank, sort |-> sort]
      BY DEF SortPart, blank
<1>3. PICK none \in Seq(SortKeys) : none = <<>>
      <2>1. <<>> \in Seq(SortKeys)
            OBVIOUS
      <2> QED BY <2>1
<1>4. \A tree \in Tree : FiltersPart(tree) = [filters |-> tree, sort |-> none]
      BY <1>3 DEF FiltersPart
<1>5. ASSUME NEW sort \in Seq(SortKeys)
      PROVE  SortPart(sort) \in Parts /\ SortPart(sort)["sort"] = sort
      BY <1>1, <1>2 DEF Parts
<1>6. ASSUME NEW tree \in Tree
      PROVE  FiltersPart(tree) \in Parts /\ FiltersPart(tree)["filters"] = tree
      BY <1>4 DEF Parts
<1> QED BY <1>5, <1>6

LEMMA PartFields ==
  ASSUME NEW parts \in Parts
  PROVE  /\ parts.filters = parts["filters"] /\ parts.sort = parts["sort"]
         /\ parts.filters \in Tree /\ parts.sort \in Seq(SortKeys)
BY DEF Parts

LEMMA SortWriteFits ==
  ASSUME view \in Views, NEW items \in Seq(SortEntry)
  PROVE  /\ ViewWriteFits(SortWrite(items))
         /\ SortWrite(items).view = view /\ SortWrite(items).part = "sort"
         /\ SortWrite(items).value["sort"] = KeysOf(items)
<1>1. KeysOf(items) \in Seq(SortKeys)
      BY KeysFit
<1> DEFINE value == SortPart(KeysOf(items))
<1>2. value \in Parts /\ value["sort"] = KeysOf(items)
      BY <1>1, PartsFit
<1>3. SortWrite(items) = [part |-> "sort", view |-> view, value |-> value]
      BY DEF SortWrite, OptionsWrite
<1> HIDE DEF value
<1> QED BY <1>2, <1>3 DEF ViewWriteFits, WriteParts

(* What is sent when the items of a sort are mounted                       *)
LEMMA MountsFit ==
  ASSUME view \in Views, NEW items \in Seq(SortEntry), NEW mounted, ShownFits(mounted)
  PROVE  LET b == MountsSend(items, mounted) IN
         /\ WritesFit(b)
         /\ Mounting(items, mounted) # {} => DOMAIN b = {SortWrite(OnPage(items, mounted))}
         /\ Mounting(items, mounted) = {} => DOMAIN b = {}
<1> DEFINE w == SortWrite(OnPage(items, mounted))
           n == Cardinality(Mounting(items, mounted))
<1>1. ViewWriteFits(w)
      BY OnPageFits, SortWriteFits
<1>2. CASE Mounting(items, mounted) = {}
      BY <1>1, <1>2, BagOfOne DEF MountsSend
<1>3. CASE Mounting(items, mounted) # {}
      <2>1. IsFiniteSet(Mounting(items, mounted))
            BY IdsFinite, FS_Subset DEF Mounting
      <2>2. n \in Nat /\ n # 0
            BY <1>3, <2>1, FS_CardinalityType, FS_EmptySet
      <2>3. MountsSend(items, mounted) = [x \in {w} |-> n]
            BY <1>3 DEF MountsSend
      <2> HIDE DEF w, n
      <2> QED BY <1>1, <1>3, <2>2, <2>3 DEF WritesFit, w
<1> QED BY <1>2, <1>3

LEMMA RendersFit ==
  ASSUME NEW items \in Seq(SortEntry), NEW mounted, ShownFits(mounted), NEW tree \in Tree,
         RendersSort(items, mounted, tree)
  PROVE  /\ OptionsFit(viewOptions') /\ ShownFits(sortShown') /\ viewOptions'.filters = tree
         /\ Mounting(items, mounted) = {} => viewOptions'.sort = items
         /\ Mounting(items, mounted) # {} => viewOptions'.sort = OnPage(items, mounted)
<1> DEFINE page == OnPage(items, mounted)
           new == IF Mounting(items, mounted) = {} THEN items ELSE page
<1>1. page \in Seq(SortEntry)
      BY OnPageFits
<1>2. viewOptions' = [filters |-> tree, sort |-> new] /\ sortShown' = ShownBy(page)
      BY DEF RendersSort
<1>3. ShownFits(sortShown')
      BY <1>1, <1>2, ShownByFits
<1> HIDE DEF page
<1>4. new \in Seq(SortEntry)
      BY <1>1
<1>5. /\ Mounting(items, mounted) = {} => new = items
      /\ Mounting(items, mounted) # {} => new = page
      OBVIOUS
<1> HIDE DEF new
<1> QED BY <1>2, <1>3, <1>4, <1>5 DEF OptionsFit, page

-----------------------------------------------------------------------------
(* Filters and sort: the steps that send                                   *)

(* A change of the sort, or what opening its popover sends                 *)
SortStep ==
  /\ edits < MaxEdits /\ edits' = edits + 1 /\ sortOpen' \in BOOLEAN
  /\ OptionsFit(viewOptions') /\ ShownFits(sortShown') /\ viewOptions'.filters = viewOptions.filters
  /\ WritesFit(viewWrites') /\ DOMAIN viewWrites \subseteq DOMAIN viewWrites'
  /\ viewOptions'.sort = viewOptions.sort \/ SortWrite(viewOptions'.sort) \in DOMAIN viewWrites'
  /\ SortOnly

LEMMA UpdateSortSteps ==
  ASSUME FilterShape, NEW items \in Seq(SortEntry), NEW mounted, ShownFits(mounted), UpdateSort(items, mounted)
  PROVE  SortStep
<1> DEFINE sent == viewWrites (+) SetToBag({SortWrite(items)})
           mounts == MountsSend(items, mounted)
<1>1. viewOptions.filters \in Tree /\ view \in Views /\ WritesFit(viewWrites) /\ sortOpen \in BOOLEAN
      BY OptionFields DEF FilterShape
<1>2. /\ OptionsFit(viewOptions') /\ ShownFits(sortShown') /\ viewOptions'.filters = viewOptions.filters
      /\ Mounting(items, mounted) = {} => viewOptions'.sort = items
      /\ Mounting(items, mounted) # {} => viewOptions'.sort = OnPage(items, mounted)
      BY <1>1, RendersFit DEF UpdateSort
<1>3. WritesFit(sent) /\ DOMAIN sent = DOMAIN viewWrites \cup {SortWrite(items)}
      <2>1. ViewWriteFits(SortWrite(items))
            BY <1>1, SortWriteFits
      <2>2. WritesFit(SetToBag({SortWrite(items)})) /\ DOMAIN SetToBag({SortWrite(items)}) = {SortWrite(items)}
            BY <2>1, BagOfOne
      <2> QED BY <1>1, <2>2, BagsTogether
<1>4. /\ WritesFit(mounts)
      /\ Mounting(items, mounted) # {} => DOMAIN mounts = {SortWrite(OnPage(items, mounted))}
      BY <1>1, MountsFit
<1>5. viewWrites' = sent (+) mounts
      BY DEF UpdateSort
<1> HIDE DEF sent, mounts
<1>6. WritesFit(viewWrites') /\ DOMAIN viewWrites' = DOMAIN sent \cup DOMAIN mounts
      BY <1>3, <1>4, <1>5, BagsTogether
<1>7. SortWrite(viewOptions'.sort) \in DOMAIN viewWrites'
      BY <1>2, <1>3, <1>4, <1>6
<1>8. Edits /\ SortOnly /\ UNCHANGED sortOpen
      BY DEF UpdateSort
<1> QED BY <1>1, <1>2, <1>3, <1>6, <1>7, <1>8 DEF SortStep, Edits

LEMMA NoItemShown == ShownFits(<<>>)
BY DEF ShownFits

LEMMA SortUserSteps == ASSUME FilterShape, OpenSort \/ SortUser PROVE SortStep
<1> DEFINE sort == viewOptions.sort
<1>1. /\ sort \in Seq(SortEntry) /\ Len(sort) \in Nat /\ DOMAIN sort = 1..Len(sort)
      /\ \A i \in DOMAIN sort : sort[i] \in SortEntry
      <2>1. sort \in Seq(SortEntry)
            BY OptionFields DEF FilterShape
      <2> QED BY <2>1, LenProperties
<1>2. ShownFits(sortShown) /\ view \in Views /\ WritesFit(viewWrites) /\ viewOptions.filters \in Tree
      BY OptionFields DEF FilterShape
<1>3. ASSUME OpenSort PROVE SortStep
      <2> DEFINE mounts == MountsSend(sort, <<>>)
      <2>1. /\ OptionsFit(viewOptions') /\ ShownFits(sortShown') /\ viewOptions'.filters = viewOptions.filters
            /\ Mounting(sort, <<>>) = {} => viewOptions'.sort = sort
            /\ Mounting(sort, <<>>) # {} => viewOptions'.sort = OnPage(sort, <<>>)
            BY <1>1, <1>2, <1>3, NoItemShown, RendersFit DEF OpenSort
      <2>2. /\ WritesFit(mounts)
            /\ Mounting(sort, <<>>) # {} => DOMAIN mounts = {SortWrite(OnPage(sort, <<>>))}
            BY <1>1, <1>2, NoItemShown, MountsFit
      <2>3. viewWrites' = viewWrites (+) mounts
            BY <1>3 DEF OpenSort
      <2> HIDE DEF mounts
      <2>4. WritesFit(viewWrites') /\ DOMAIN viewWrites' = DOMAIN viewWrites \cup DOMAIN mounts
            BY <1>2, <2>2, <2>3, BagsTogether
      <2>5. viewOptions'.sort = sort \/ SortWrite(viewOptions'.sort) \in DOMAIN viewWrites'
            BY <2>1, <2>2, <2>4
      <2>6. Edits /\ SortOnly /\ sortOpen' = TRUE
            BY <1>3 DEF OpenSort
      <2> QED BY <2>1, <2>4, <2>5, <2>6 DEF SortStep, Edits
<1>4. ASSUME SortUser PROVE SortStep
      <2>1. ASSUME AddSortItem PROVE SortStep
            <3>1. PICK k \in SortKeys :
                    LET keys == Append(KeysOf(viewOptions.sort), k)
                        first == CHOOSE f \in SortKeys : TRUE
                    IN UpdateSort([i \in DOMAIN keys |-> [id |-> <<first, i>>, key |-> keys[i]]], sortShown)
                  BY <2>1 DEF AddSortItem
            <3> DEFINE keys == Append(KeysOf(sort), k)
                       first == CHOOSE f \in SortKeys : TRUE
                       new == [i \in DOMAIN keys |-> [id |-> <<first, i>>, key |-> keys[i]]]
            <3>2. UpdateSort(new, sortShown)
                  BY <3>1
            <3>3. first \in SortKeys
                  BY FiltersAssumption
            <3>4. keys \in Seq(SortKeys)
                  BY <1>1, KeysFit
            <3> HIDE DEF keys, first
            <3>5. DOMAIN keys = 1..Len(keys) /\ Len(keys) \in Nat /\ \A i \in DOMAIN keys : keys[i] \in SortKeys
                  BY <3>4, LenProperties
            <3>6. \A i \in DOMAIN keys : new[i] \in SortEntry
                  BY <3>3, <3>5 DEF SortEntry, SortIds
            <3>7. DOMAIN new = DOMAIN keys /\ new = [i \in DOMAIN keys |-> new[i]]
                  OBVIOUS
            <3> HIDE DEF new
            <3>8. new \in Seq(SortEntry)
                  BY <3>4, <3>6, <3>7, MappedList
            <3> QED BY <1>2, <3>2, <3>8, UpdateSortSteps
      <2>2. ASSUME NEW i \in DOMAIN sort, RemoveSortItem(i) PROVE SortStep
            <3> DEFINE left == Filtered(sort, DOMAIN sort \ {i})
            <3>1. UpdateSort(left, sortShown)
                  BY <2>2 DEF RemoveSortItem
            <3>2. left \in Seq(SortEntry)
                  BY <1>1, FilteredList
            <3> HIDE DEF left
            <3> QED BY <1>2, <3>1, <3>2, UpdateSortSteps
      <2>3. ASSUME NEW i \in DOMAIN sort, ChangeSortItem(i) PROVE SortStep
            <3>1. PICK k \in SortKeys :
                    LET mounted == [sortShown EXCEPT ![viewOptions.sort[i].id] = k] IN
                    UpdateSort(OnPage(viewOptions.sort, mounted), mounted)
                  BY <2>3 DEF ChangeSortItem
            <3> DEFINE mounted == [sortShown EXCEPT ![sort[i].id] = k]
            <3>2. UpdateSort(OnPage(sort, mounted), mounted)
                  BY <3>1
            <3>3. ShownFits(mounted)
                  BY <1>2 DEF ShownFits
            <3> HIDE DEF mounted
            <3>4. OnPage(sort, mounted) \in Seq(SortEntry)
                  BY <1>1, <3>3, OnPageFits
            <3> QED BY <3>2, <3>3, <3>4, UpdateSortSteps
      <2>4. ASSUME NEW i \in DOMAIN sort, NEW j \in DOMAIN sort, ReorderSort(i, j) PROVE SortStep
            <3> DEFINE new == Moved(sort, i, j)
            <3>1. UpdateSort(new, sortShown)
                  BY <2>4 DEF ReorderSort
            <3>2. new \in Seq(SortEntry)
                  BY <1>1, MovedList
            <3> HIDE DEF new
            <3> QED BY <1>2, <3>1, <3>2, UpdateSortSteps
      <2> QED BY <1>4, <2>1, <2>2, <2>3, <2>4 DEF SortUser
<1> QED BY <1>3, <1>4

(* What the page shows of a part stays from where it was, when the part,   *)
(* the server and the view stay and no request of it is answered.          *)
LEMMA FromStays ==
  ASSUME NEW p, OptionsFrom(p), UNCHANGED <<viewServer, viewsChanged, view>>, Shows(p)' = Shows(p),
         DOMAIN viewWrites \subseteq DOMAIN viewWrites'
  PROVE  OptionsFrom(p)'
BY DEF OptionsFrom, Brings

LEMMA FromRequest ==
  ASSUME NEW p, NEW w \in DOMAIN viewWrites', w.view = view', w.part = p, w.value[p] = Shows(p)'
  PROVE  OptionsFrom(p)'
BY DEF OptionsFrom, Brings

LEMMA FromServer ==
  ASSUME NEW p, ~ viewsChanged' => Shows(p)' = viewServer'[view'][p] PROVE OptionsFrom(p)'
BY DEF OptionsFrom

LEMMA KnowsStays ==
  ASSUME FetchKnows, UNCHANGED <<viewServer, viewCache, viewsChanged, optionsFetch>> PROVE FetchKnows'
BY DEF FetchKnows

LEMMA SortStepKeeps == ASSUME FilterInv, SortStep PROVE FilterInv'
<1> USE DEF FilterInv
<1>1. /\ UNCHANGED <<viewServer, viewCache, viewsChanged, optionsFetch, view, filterForm, filterTimers, viewExcused>>
      /\ edits' = edits + 1 /\ edits < MaxEdits
      /\ WritesFit(viewWrites') /\ DOMAIN viewWrites \subseteq DOMAIN viewWrites'
      BY DEF SortStep, SortOnly, ViewsKept
<1>2. OptionsFit(viewOptions') /\ ShownFits(sortShown') /\ sortOpen' \in BOOLEAN
      BY DEF SortStep
<1>3. edits' \in 0..MaxEdits
      BY <1>1, FiltersAssumption DEF FilterShape
<1>4. FilterShape'
      BY <1>1, <1>2, <1>3 DEF FilterShape
<1>5. FetchKnows'
      BY <1>1, KnowsStays
<1>6. ASSUME ~ viewExcused PROVE OptionsFrom("filters")'
      <2>1. OptionsFrom("filters")
            BY <1>6 DEF WriteParts
      <2>2. Shows("filters")' = Shows("filters")
            BY DEF Shows, SortStep
      <2> QED BY <1>1, <2>1, <2>2, FromStays
<1>7. ASSUME ~ viewExcused PROVE OptionsFrom("sort")'
      <2>1. CASE viewOptions'.sort = viewOptions.sort
            <3>1. OptionsFrom("sort")
                  BY <1>7 DEF WriteParts
            <3>2. Shows("sort")' = Shows("sort")
                  BY <2>1 DEF Shows, KeysOf
            <3> QED BY <1>1, <3>1, <3>2, FromStays
      <2>2. CASE SortWrite(viewOptions'.sort) \in DOMAIN viewWrites'
            <3>1. viewOptions'.sort \in Seq(SortEntry) /\ view \in Views
                  BY <1>2, OptionFields DEF FilterShape
            <3> DEFINE w == SortWrite(viewOptions'.sort)
            <3>2. w.view = view /\ w.part = "sort" /\ w.value["sort"] = KeysOf(viewOptions'.sort)
                  BY <3>1, SortWriteFits
            <3>3. Shows("sort")' = KeysOf(viewOptions'.sort)
                  BY DEF Shows, KeysOf
            <3> HIDE DEF w
            <3>4. w \in DOMAIN viewWrites'
                  BY <2>2 DEF w
            <3> QED BY <1>1, <3>2, <3>3, <3>4, FromRequest
      <2> QED BY <2>1, <2>2 DEF SortStep
<1>8. KidsKnown(filterForm)'
      BY <1>1
<1> QED BY <1>1, <1>4, <1>5, <1>6, <1>7, <1>8 DEF WriteParts

-----------------------------------------------------------------------------
(* Filters and sort: the save of the filters                               *)

LEMMA SaveFiresKeeps == ASSUME FilterInv, NEW v \in Views, SaveFires(v) PROVE FilterInv'
<1> USE DEF FilterInv
<1>1. /\ v \in filterTimers /\ filterTimers' = filterTimers \ {v}
      /\ UNCHANGED <<viewServer, viewCache, viewsChanged, optionsFetch, view, sortOpen, sortShown, edits>>
      /\ viewExcused' = (viewExcused \/ (filterForm.open /\ v # view))
      BY DEF SaveFires, ViewsKept
<1>2. FilterFormFits(filterForm) /\ filterForm.open \in BOOLEAN /\ viewExcused \in BOOLEAN
      BY FormFields DEF FilterShape
<1>3. viewExcused' \in BOOLEAN /\ filterTimers' \in SUBSET Views
      BY <1>1, <1>2 DEF FilterShape
<1>4. FetchKnows'
      BY <1>1, KnowsStays
<1>5. CASE ~ filterForm.open
      <2>1. UNCHANGED <<viewOptions, filterForm, viewWrites>> /\ viewExcused' = viewExcused
            BY <1>1, <1>2, <1>5 DEF SaveFires
      <2>2. FilterShape'
            BY <1>1, <1>3, <2>1 DEF FilterShape
      <2>3. ASSUME ~ viewExcused, NEW p \in WriteParts PROVE OptionsFrom(p)'
            <3>1. OptionsFrom(p) /\ Shows(p)' = Shows(p)
                  BY <2>1, <2>3 DEF Shows, KeysOf
            <3> QED BY <1>1, <2>1, <3>1, FromStays
      <2> QED BY <1>4, <2>1, <2>2, <2>3
<1>6. CASE filterForm.open
      <2>1. PICK tree : tree = BuiltTree(filterForm)
            OBVIOUS
      <2>2. tree \in Tree
            BY <1>2, <2>1, BuiltFits
      <2> DEFINE w == OptionsWrite("filters", v, FiltersPart(tree))
      <2>3. /\ viewOptions' = [viewOptions EXCEPT !.filters = tree]
            /\ filterForm' = Recount(filterForm, tree)
            /\ viewWrites' = viewWrites (+) SetToBag({w})
            BY <1>6, <2>1 DEF SaveFires
      <2>4. OptionsFit(viewOptions') /\ viewOptions'.filters = tree /\ viewOptions'.sort = viewOptions.sort
            BY <2>2, <2>3 DEF FilterShape, OptionsFit
      <2>5. ViewWriteFits(w) /\ w.view = v /\ w.part = "filters" /\ w.value["filters"] = tree
            <3>1. FiltersPart(tree) \in Parts /\ FiltersPart(tree)["filters"] = tree
                  BY <2>2, PartsFit
            <3>2. w = [part |-> "filters", view |-> v, value |-> FiltersPart(tree)]
                  BY DEF OptionsWrite
            <3> HIDE DEF w
            <3> QED BY <3>1, <3>2 DEF ViewWriteFits, WriteParts
      <2> HIDE DEF w
      <2>6. WritesFit(viewWrites') /\ DOMAIN viewWrites' = DOMAIN viewWrites \cup {w}
            <3>1. WritesFit(SetToBag({w})) /\ DOMAIN SetToBag({w}) = {w} /\ WritesFit(viewWrites)
                  BY <2>5, BagOfOne DEF FilterShape
            <3> QED BY <2>3, <3>1, BagsTogether
      <2>7. FilterFormFits(filterForm') /\ KidsKnown(filterForm')
            <3>1. /\ FilterFormFits(filterForm') /\ filterForm'.open = filterForm.open
                  /\ filterForm' = filterForm \/ filterForm'.recounted
                  BY <1>2, <2>2, <2>3, RecountFits
            <3> QED BY <3>1 DEF KidsKnown
      <2>8. FilterShape'
            BY <1>1, <1>3, <2>4, <2>6, <2>7 DEF FilterShape
      <2>9. ASSUME ~ viewExcused' PROVE OptionsFrom("filters")'
            <3>1. v = view
                  BY <1>1, <1>2, <1>6, <2>9
            <3>2. Shows("filters")' = tree
                  BY <2>4 DEF Shows
            <3> QED BY <1>1, <2>5, <2>6, <3>1, <3>2, FromRequest
      <2>10. ASSUME ~ viewExcused' PROVE OptionsFrom("sort")'
            <3>1. ~ viewExcused
                  BY <1>1, <1>2, <2>10
            <3>2. OptionsFrom("sort")
                  BY <3>1 DEF WriteParts
            <3>3. Shows("sort")' = Shows("sort")
                  BY <2>4 DEF Shows, KeysOf
            <3> QED BY <1>1, <2>6, <3>2, <3>3, FromStays
      <2>11. KidsKnown(filterForm)'
             BY <2>7
      <2> QED BY <1>4, <2>8, <2>9, <2>10, <2>11 DEF WriteParts
<1> QED BY <1>5, <1>6

-----------------------------------------------------------------------------
(* Filters and sort: what the server saves, and what the cache says        *)

(* Whatever is saved, the fetch and the cache know of it.                  *)
LEMMA SavedKnows ==
  ASSUME FilterShape, FetchKnows, NEW changes \in BOOLEAN, Saved(changes), UNCHANGED viewCache,
         ~ changes => viewServer' = viewServer
  PROVE  FetchKnows' /\ FetchFits(optionsFetch') /\ viewsChanged' \in BOOLEAN
         /\ (changes => viewsChanged') /\ (~ changes => viewsChanged' = viewsChanged)
<1>1. /\ viewsChanged' = (viewsChanged \/ changes) /\ viewsChanged \in BOOLEAN
      /\ FetchFits(optionsFetch)
      BY DEF Saved, FilterShape
<1> DEFINE late == optionsFetch.late \/ (changes /\ optionsFetch.at = "read")
<1>2. optionsFetch' = [optionsFetch EXCEPT !.late = late]
      BY DEF Saved
<1>3. late \in BOOLEAN
      BY <1>1 DEF FetchFits
<1>4. /\ optionsFetch'.at = optionsFetch.at /\ optionsFetch'.read = optionsFetch.read
      /\ optionsFetch'.differs = optionsFetch.differs /\ optionsFetch'.late = late
      /\ FetchFits(optionsFetch')
      BY <1>1, <1>2, <1>3 DEF FetchFits
<1>5. CASE changes
      <2>1. viewsChanged' = TRUE /\ (optionsFetch.at = "read" => late)
            BY <1>1, <1>5
      <2> QED BY <1>4, <1>5, <2>1 DEF FetchKnows
<1>6. CASE ~ changes
      <2>1. viewsChanged' = viewsChanged /\ viewServer' = viewServer /\ late = optionsFetch.late
            BY <1>1, <1>3, <1>6 DEF FetchFits
      <2> HIDE DEF late
      <2> QED BY <1>1, <1>4, <1>6, <2>1 DEF FetchKnows
<1> QED BY <1>5, <1>6

LEMMA WriteFields ==
  ASSUME NEW w, ViewWriteFits(w)
  PROVE  w.part \in WriteParts /\ w.view \in Views /\ w.value \in Parts
BY DEF ViewWriteFits

LEMMA UpdatedFits ==
  ASSUME FilterShape, NEW w, ViewWriteFits(w)
  PROVE  /\ Updated(w) \in [Views -> Parts] /\ Updated(w)[w.view][w.part] = w.value[w.part]
<1>1. w.part \in WriteParts /\ w.view \in Views /\ w.value \in Parts
      BY WriteFields
<1> DEFINE old == viewServer[w.view]
           new == IF w.part = "sort" THEN [old EXCEPT !.sort = w.value.sort]
                  ELSE [old EXCEPT !.filters = w.value.filters]
<1>2. old \in Parts
      BY <1>1 DEF FilterShape
<1>3. new \in Parts /\ new[w.part] = w.value[w.part]
      BY <1>1, <1>2 DEF Parts, WriteParts
<1>4. Updated(w) = [viewServer EXCEPT ![w.view] = new]
      BY DEF Updated
<1> HIDE DEF new
<1> QED BY <1>1, <1>3, <1>4 DEF FilterShape

LEMMA ViewUpdatedKeeps ==
  ASSUME FilterInv, NEW w \in DOMAIN viewWrites, ViewUpdated(w) PROVE FilterInv'
<1> USE DEF FilterInv
<1>1. /\ viewWrites' = viewWrites (-) SetToBag({w})
      /\ UNCHANGED <<viewCache, view, viewOptions, filterForm, sortOpen, sortShown, filterTimers, edits>>
      BY DEF ViewUpdated
<1>2. /\ WritesFit(viewWrites') /\ DOMAIN viewWrites' \subseteq DOMAIN viewWrites
      /\ \A u \in DOMAIN viewWrites : u # w => u \in DOMAIN viewWrites'
      BY <1>1, BagWithout DEF FilterShape
<1>3. ViewWriteFits(w)
      BY DEF FilterShape, WritesFit
<1>4. CASE UNCHANGED <<viewServer, viewsChanged, optionsFetch>> /\ viewExcused' = TRUE
      <2>1. FilterShape'
            BY <1>1, <1>2, <1>4 DEF FilterShape
      <2>2. FetchKnows'
            BY <1>1, <1>4, KnowsStays
      <2>3. KidsKnown(filterForm)'
            BY <1>1
      <2> QED BY <1>4, <2>1, <2>2, <2>3
<1>5. ASSUME NEW changes \in {TRUE, Updated(w) # viewServer}, Saved(changes),
             viewServer' = Updated(w), UNCHANGED viewExcused
      PROVE  FilterInv'
      <2>1. changes \in BOOLEAN /\ (~ changes => viewServer' = viewServer)
            BY <1>5
      <2>2. /\ FetchKnows' /\ FetchFits(optionsFetch') /\ viewsChanged' \in BOOLEAN
            /\ (changes => viewsChanged') /\ (~ changes => viewsChanged' = viewsChanged)
            BY <1>1, <1>5, <2>1, SavedKnows
      <2>3. /\ viewServer' \in [Views -> Parts]
            /\ viewServer'[w.view][w.part] = w.value[w.part]
            BY <1>3, <1>5, UpdatedFits
      <2>4. FilterShape'
            BY <1>1, <1>2, <1>5, <2>2, <2>3 DEF FilterShape
      <2>5. ASSUME ~ viewExcused, NEW p \in WriteParts PROVE OptionsFrom(p)'
            <3>1. Shows(p)' = Shows(p)
                  BY <1>1 DEF Shows, KeysOf
            <3>2. CASE viewsChanged'
                  BY <3>2, FromServer
            <3>3. CASE ~ viewsChanged'
                  <4>1. viewServer' = viewServer /\ ~ viewsChanged
                        BY <2>1, <2>2, <3>3
                  <4>2. Shows(p) = viewServer[view][p] \/ \E u \in DOMAIN viewWrites : Brings(u, p)
                        BY <2>5, <4>1 DEF OptionsFrom
                  <4>3. ASSUME Shows(p) = viewServer[view][p] PROVE OptionsFrom(p)'
                        BY <1>1, <3>1, <4>1, <4>3, FromServer
                  <4>4. ASSUME NEW u \in DOMAIN viewWrites, Brings(u, p) PROVE OptionsFrom(p)'
                        <5>1. u.view = view /\ u.part = p /\ u.value[p] = Shows(p)
                              BY <4>4 DEF Brings
                        <5>2. CASE u = w
                              <6>1. Shows(p)' = viewServer'[view'][p]
                                    BY <1>1, <2>3, <3>1, <5>1, <5>2
                              <6> QED BY <6>1, FromServer
                        <5>3. CASE u # w
                              <6>1. u \in DOMAIN viewWrites' /\ u.view = view' /\ u.value[p] = Shows(p)'
                                    BY <1>1, <1>2, <3>1, <5>1, <5>3
                              <6> QED BY <5>1, <6>1, FromRequest
                        <5> QED BY <5>2, <5>3
                  <4> QED BY <4>2, <4>3, <4>4
            <3> QED BY <3>2, <3>3
      <2>6. KidsKnown(filterForm)'
            BY <1>1
      <2> QED BY <1>5, <2>2, <2>4, <2>5, <2>6
<1> QED BY <1>4, <1>5 DEF ViewUpdated

LEMMA LeafSequence == \A c \in Conditions : <<Leaf(c)>> \in Seq(Kid)
<1>1. ASSUME NEW c \in Conditions PROVE <<Leaf(c)>> \in Seq(Kid)
      <2>1. Leaf(c) \in Kid
            BY LeafFits
      <2> QED BY <2>1
<1> QED BY <1>1

LEMMA OthersWriteViewKeeps == ASSUME FilterInv, OthersWriteView PROVE FilterInv'
<1> USE DEF FilterInv
<1>1. /\ UNCHANGED <<viewCache, view, viewOptions, filterForm, sortOpen, sortShown, filterTimers,
                     viewWrites, viewExcused>>
      /\ edits < MaxEdits /\ edits' = edits + 1 /\ Saved(TRUE)
      BY DEF OthersWriteView, Edits
<1>2. viewServer' \in [Views -> Parts]
      <2>1. ASSUME NEW u \in Views, NEW c \in Conditions, NEW k \in SortKeys,
                   viewServer' \in {[viewServer EXCEPT ![u].filters.kids = <<Leaf(c)>>],
                                    [viewServer EXCEPT ![u].sort = <<k>>]}
            PROVE  viewServer' \in [Views -> Parts]
            <3>1. viewServer[u] \in Parts /\ viewServer \in [Views -> Parts]
                  BY DEF FilterShape
            <3> DEFINE kids == <<Leaf(c)>>
                       sort == <<k>>
            <3>2. kids \in Seq(Kid)
                  BY LeafSequence
            <3>3. sort \in Seq(SortKeys)
                  OBVIOUS
            <3> HIDE DEF kids, sort
            <3>4. viewServer' = [viewServer EXCEPT ![u].filters.kids = kids]
                  \/ viewServer' = [viewServer EXCEPT ![u].sort = sort]
                  BY <2>1 DEF kids, sort
            <3>5. [viewServer[u] EXCEPT !.filters.kids = kids] \in Parts
                  BY <3>1, <3>2 DEF Parts, Tree, Kid
            <3>6. [viewServer[u] EXCEPT !.sort = sort] \in Parts
                  BY <3>1, <3>3 DEF Parts
            <3> QED BY <3>1, <3>4, <3>5, <3>6
      <2>2. CASE UNCHANGED viewServer
            BY <2>2 DEF FilterShape
      <2> QED BY <2>1, <2>2 DEF OthersWriteView
<1>3. FetchKnows' /\ FetchFits(optionsFetch') /\ viewsChanged' \in BOOLEAN /\ viewsChanged'
      BY <1>1, SavedKnows
<1>4. edits' \in 0..MaxEdits
      BY <1>1, FiltersAssumption DEF FilterShape
<1>5. FilterShape'
      BY <1>1, <1>2, <1>3, <1>4 DEF FilterShape
<1>6. \A p : OptionsFrom(p)'
      BY <1>3, FromServer
<1>7. KidsKnown(filterForm)'
      BY <1>1
<1> QED BY <1>3, <1>5, <1>6, <1>7

LEMMA ViewsReadKeeps == ASSUME FilterInv, ViewsReadForOptions PROVE FilterInv'
<1> USE DEF FilterInv
<1>1. /\ UNCHANGED <<viewServer, viewCache, viewsChanged, view, viewOptions, filterForm, sortOpen,
                     sortShown, filterTimers, viewWrites, edits, viewExcused>>
      /\ optionsFetch' = [at |-> "read", read |-> viewServer, differs |-> viewsChanged, late |-> FALSE]
      BY DEF ViewsReadForOptions
<1>2. FetchFits(optionsFetch') /\ FetchKnows'
      BY <1>1 DEF FilterShape, FetchFits, FetchKnows
<1>3. FilterShape'
      BY <1>1, <1>2 DEF FilterShape
<1>4. ASSUME ~ viewExcused, NEW p \in WriteParts PROVE OptionsFrom(p)'
      <2>1. OptionsFrom(p) /\ Shows(p)' = Shows(p)
            BY <1>1, <1>4 DEF Shows, KeysOf
      <2> QED BY <1>1, <2>1, FromStays
<1>5. KidsKnown(filterForm)'
      BY <1>1
<1> QED BY <1>1, <1>2, <1>3, <1>4, <1>5

(* What the page has once the list came, if that was another one           *)
LEMMA FollowsNew ==
  ASSUME FilterShape, NEW parts \in Parts, OptionsFollow(parts), UNCHANGED view
  PROVE  /\ OptionsFit(viewOptions') /\ ShownFits(sortShown') /\ WritesFit(viewWrites')
         /\ DOMAIN viewWrites \subseteq DOMAIN viewWrites' /\ edits' \in 0..MaxEdits
         /\ Shows("filters")' = parts["filters"]
         /\ Shows("sort")' = parts["sort"]
            \/ \E w \in DOMAIN viewWrites' : w.view = view' /\ w.part = "sort" /\ w.value["sort"] = Shows("sort")'
<1> DEFINE items == InitializedSort(parts.sort)
           mounts == MountsSend(items, sortShown)
<1>1. items \in Seq(SortEntry) /\ KeysOf(items) = parts["sort"] /\ parts.filters \in Tree
      BY PartFields, InitializedSortFits
<1>2. /\ ShownFits(sortShown) /\ WritesFit(viewWrites) /\ view \in Views /\ sortOpen \in BOOLEAN
      /\ edits \in 0..MaxEdits
      BY DEF FilterShape
<1> HIDE DEF items
<1>3. CASE ~ sortOpen
      <2>1. viewOptions' = [filters |-> parts.filters, sort |-> items] /\ UNCHANGED <<sortShown, viewWrites, edits>>
            BY <1>3 DEF OptionsFollow, items
      <2>2. OptionsFit(viewOptions') /\ viewOptions'.filters = parts["filters"] /\ viewOptions'.sort = items
            BY <1>1, <2>1, PartFields DEF OptionsFit
      <2>3. Shows("filters")' = parts["filters"] /\ Shows("sort")' = parts["sort"]
            BY <1>1, <2>2 DEF Shows, KeysOf
      <2> QED BY <1>2, <2>1, <2>2, <2>3
<1>4. CASE sortOpen
      <2>1. /\ RendersSort(items, sortShown, parts.filters)
            /\ viewWrites' = viewWrites (+) mounts
            /\ IF Mounting(items, sortShown) = {} THEN UNCHANGED edits ELSE Edits /\ NotFull
            BY <1>4 DEF OptionsFollow, items
      <2>2. /\ OptionsFit(viewOptions') /\ ShownFits(sortShown') /\ viewOptions'.filters = parts.filters
            /\ Mounting(items, sortShown) = {} => viewOptions'.sort = items
            /\ Mounting(items, sortShown) # {} => viewOptions'.sort = OnPage(items, sortShown)
            BY <1>1, <1>2, <2>1, RendersFit
      <2>3. /\ WritesFit(mounts)
            /\ Mounting(items, sortShown) # {} => DOMAIN mounts = {SortWrite(OnPage(items, sortShown))}
            BY <1>1, <1>2, MountsFit
      <2> HIDE DEF mounts
      <2>4. WritesFit(viewWrites') /\ DOMAIN viewWrites' = DOMAIN viewWrites \cup DOMAIN mounts
            BY <1>2, <2>1, <2>3, BagsTogether
      <2>5. edits' \in 0..MaxEdits
            BY <1>2, <2>1, FiltersAssumption DEF Edits
      <2>6. Shows("filters")' = parts["filters"]
            BY <2>2, PartFields DEF Shows
      <2>7. Shows("sort")' = KeysOf(viewOptions'.sort)
            BY DEF Shows, KeysOf
      <2>8. CASE Mounting(items, sortShown) = {}
            <3>1. Shows("sort")' = parts["sort"]
                  BY <1>1, <2>2, <2>7, <2>8
            <3> QED BY <2>2, <2>4, <2>5, <2>6, <3>1
      <2>9. CASE Mounting(items, sortShown) # {}
            <3> DEFINE w == SortWrite(OnPage(items, sortShown))
            <3>1. w.view = view /\ w.part = "sort" /\ w.value["sort"] = KeysOf(OnPage(items, sortShown))
                  BY <1>1, <1>2, OnPageFits, SortWriteFits
            <3>2. w \in DOMAIN viewWrites'
                  BY <2>3, <2>4, <2>9
            <3>3. Shows("sort")' = KeysOf(OnPage(items, sortShown))
                  BY <2>2, <2>7, <2>9
            <3> HIDE DEF w
            <3> QED BY <2>2, <2>4, <2>5, <2>6, <3>1, <3>2, <3>3
      <2> QED BY <2>8, <2>9
<1> QED BY <1>2, <1>3, <1>4

LEMMA ViewsArriveKeeps == ASSUME FilterInv, ViewsArriveForOptions PROVE FilterInv'
<1> USE DEF FilterInv
<1>1. /\ optionsFetch.at = "read" /\ optionsFetch' = NoOptionsFetch /\ viewsChanged' = optionsFetch.late
      /\ UNCHANGED <<viewServer, view, sortOpen, filterTimers, viewExcused>>
      BY DEF ViewsArriveForOptions
<1>2. /\ FetchFits(optionsFetch') /\ viewsChanged' \in BOOLEAN /\ optionsFetch.read \in [Views -> Parts]
      /\ optionsFetch.differs \in BOOLEAN /\ optionsFetch'.at = "no" /\ optionsFetch'.late = FALSE
      BY <1>1 DEF FilterShape, FetchFits, NoOptionsFetch
<1>3. CASE optionsFetch.differs
      <2> DEFINE parts == optionsFetch.read[view]
      <2>1. viewCache' = optionsFetch.read /\ OptionsFollow(parts)
            BY <1>3 DEF ViewsArriveForOptions, NewReference
      <2>2. parts \in Parts /\ parts.filters \in Tree
            <3>1. parts \in Parts
                  BY <1>2 DEF FilterShape
            <3> QED BY <3>1, PartFields
      <2>3. filterForm' = Recount(filterForm, parts.filters)
            BY <2>1 DEF OptionsFollow
      <2> HIDE DEF parts
      <2>4. FilterFormFits(filterForm') /\ KidsKnown(filterForm')
            <3>1. /\ FilterFormFits(filterForm') /\ filterForm'.open = filterForm.open
                  /\ filterForm' = filterForm \/ filterForm'.recounted
                  BY <2>2, <2>3, RecountFits DEF FilterShape
            <3> QED BY <3>1 DEF KidsKnown
      <2>5. /\ OptionsFit(viewOptions') /\ ShownFits(sortShown') /\ WritesFit(viewWrites')
            /\ edits' \in 0..MaxEdits /\ Shows("filters")' = parts["filters"]
            /\ Shows("sort")' = parts["sort"]
               \/ \E w \in DOMAIN viewWrites' : w.view = view' /\ w.part = "sort" /\ w.value["sort"] = Shows("sort")'
            BY <1>1, <2>1, <2>2, FollowsNew
      <2>6. FilterShape'
            BY <1>1, <1>2, <2>1, <2>4, <2>5 DEF FilterShape
      <2>7. ~ viewsChanged' => viewCache' = viewServer' /\ parts = viewServer'[view']
            BY <1>1, <2>1 DEF FetchKnows, parts
      <2>8. FetchKnows'
            BY <1>2, <2>7 DEF FetchKnows
      <2>9. OptionsFrom("filters")'
            BY <2>5, <2>7, FromServer
      <2>10. OptionsFrom("sort")'
            <3>1. CASE Shows("sort")' = parts["sort"]
                  BY <2>7, <3>1, FromServer
            <3>2. ASSUME NEW w \in DOMAIN viewWrites',
                         w.view = view' /\ w.part = "sort" /\ w.value["sort"] = Shows("sort")'
                  PROVE  OptionsFrom("sort")'
                  BY <3>2, FromRequest
            <3> QED BY <2>5, <3>1, <3>2
      <2>11. KidsKnown(filterForm)'
             BY <2>4
      <2> QED BY <2>6, <2>8, <2>9, <2>10, <2>11 DEF WriteParts
<1>4. CASE ~ optionsFetch.differs
      <2>1. UNCHANGED <<viewCache, viewOptions, filterForm, sortShown, viewWrites, edits>>
            BY <1>4 DEF ViewsArriveForOptions, NewReference
      <2>2. FilterShape'
            BY <1>1, <1>2, <2>1 DEF FilterShape
      <2>3. ~ viewsChanged' => ~ viewsChanged
            BY <1>1, <1>4 DEF FetchKnows
      <2>4. FetchKnows'
            BY <1>1, <1>2, <2>1, <2>3 DEF FetchKnows
      <2>5. ASSUME ~ viewExcused, NEW p \in WriteParts PROVE OptionsFrom(p)'
            <3>1. Shows(p)' = Shows(p) /\ OptionsFrom(p)
                  BY <2>1, <2>5 DEF Shows, KeysOf
            <3> QED BY <1>1, <2>1, <2>3, <3>1 DEF OptionsFrom, Brings
      <2>6. KidsKnown(filterForm)'
            BY <2>1
      <2> QED BY <1>1, <2>2, <2>4, <2>5, <2>6
<1> QED BY <1>2, <1>3, <1>4

-----------------------------------------------------------------------------
(* Filters and sort: the form, and other views                             *)

LEMMA FormStepKeeps == ASSUME FilterInv, FormStep PROVE FilterInv'
<1> USE DEF FilterInv
<1>1. /\ edits < MaxEdits /\ edits' = edits + 1
      /\ FormMoves(filterForm, filterForm')
      /\ filterTimers' = filterTimers \/ filterTimers' = filterTimers \cup {view}
      /\ UNCHANGED <<viewServer, viewCache, viewsChanged, optionsFetch, view, viewOptions, sortOpen,
                     sortShown, viewWrites, viewExcused>>
      BY DEF FormStep, FormOnly, ViewsKept
<1>2. FilterFormFits(filterForm') /\ KidsKnown(filterForm')
      BY <1>1, MovedKnown DEF FilterShape
<1>3. edits' \in 0..MaxEdits /\ filterTimers' \in SUBSET Views
      BY <1>1, FiltersAssumption DEF FilterShape
<1>4. FilterShape'
      BY <1>1, <1>2, <1>3 DEF FilterShape
<1>5. FetchKnows'
      BY <1>1, KnowsStays
<1>6. ASSUME ~ viewExcused, NEW p \in WriteParts PROVE OptionsFrom(p)'
      <2>1. OptionsFrom(p) /\ Shows(p)' = Shows(p)
            BY <1>1, <1>6 DEF Shows, KeysOf
      <2> QED BY <1>1, <2>1, FromStays
<1>7. KidsKnown(filterForm)'
      BY <1>2
<1> QED BY <1>1, <1>4, <1>5, <1>6, <1>7

LEMMA FormOpensKeeps == ASSUME FilterInv, OpenFilter \/ CloseFilter \/ CloseSort PROVE FilterInv'
<1> USE DEF FilterInv
<1>1. /\ UNCHANGED <<viewServer, viewCache, viewsChanged, optionsFetch, view, viewOptions, viewWrites,
                     viewExcused, filterTimers>>
      /\ edits' = edits \/ (edits < MaxEdits /\ edits' = edits + 1)
      BY DEF OpenFilter, CloseFilter, CloseSort, Edited, Edits, FormOnly, SortOnly, ViewsKept
<1>2. sortOpen' \in BOOLEAN /\ ShownFits(sortShown')
      <2>1. (sortOpen' = sortOpen /\ sortShown' = sortShown) \/ (sortOpen' = FALSE /\ sortShown' = <<>>)
            BY DEF OpenFilter, CloseFilter, CloseSort, Edited, FormOnly
      <2> QED BY <2>1, NoItemShown DEF FilterShape
<1>3. FilterFormFits(filterForm') /\ KidsKnown(filterForm')
      <2>1. CASE OpenFilter
            <3>1. filterForm' = InitializedGroup(viewOptions.filters)
                  BY <2>1 DEF OpenFilter, Edited
            <3>2. viewOptions.filters \in Tree
                  BY OptionFields DEF FilterShape
            <3> QED BY <3>1, <3>2, InitializedFits
      <2>2. CASE CloseFilter
            <3>1. filterForm' = ClosedForm
                  BY <2>2 DEF CloseFilter
            <3> QED BY <3>1, ClosedFormFits DEF KidsKnown
      <2>3. CASE CloseSort
            BY <2>3 DEF CloseSort, SortOnly, FilterShape
      <2> QED BY <2>1, <2>2, <2>3
<1>4. edits' \in 0..MaxEdits
      BY <1>1, FiltersAssumption DEF FilterShape
<1>5. FilterShape'
      BY <1>1, <1>2, <1>3, <1>4 DEF FilterShape
<1>6. FetchKnows'
      BY <1>1, KnowsStays
<1>7. ASSUME ~ viewExcused, NEW p \in WriteParts PROVE OptionsFrom(p)'
      <2>1. OptionsFrom(p) /\ Shows(p)' = Shows(p)
            BY <1>1, <1>7 DEF Shows, KeysOf
      <2> QED BY <1>1, <2>1, FromStays
<1>8. KidsKnown(filterForm)'
      BY <1>3
<1> QED BY <1>1, <1>5, <1>6, <1>7, <1>8

LEMMA OpenedFits ==
  ASSUME NEW parts \in Parts
  PROVE  /\ OptionsFit(Opened(parts)) /\ Opened(parts).filters = parts["filters"]
         /\ KeysOf(Opened(parts).sort) = parts["sort"]
<1>1. parts.filters = parts["filters"] /\ parts.sort = parts["sort"] /\ parts.filters \in Tree
      /\ parts.sort \in Seq(SortKeys)
      BY PartFields
<1> DEFINE items == InitializedSort(parts.sort)
<1>2. items \in Seq(SortEntry) /\ KeysOf(items) = parts["sort"]
      BY <1>1, InitializedSortFits
<1>3. Opened(parts) = [filters |-> parts.filters, sort |-> items]
      BY DEF Opened
<1> HIDE DEF items
<1> QED BY <1>1, <1>2, <1>3 DEF OptionsFit

(* A view is opened with what the cache has of it.                         *)
LEMMA OpenedFrom ==
  ASSUME NEW parts \in Parts, viewOptions' = Opened(parts), ~ viewsChanged' => parts = viewServer'[view'],
         NEW p \in WriteParts
  PROVE  OptionsFrom(p)'
<1>1. viewOptions'.filters = parts["filters"] /\ KeysOf(viewOptions'.sort) = parts["sort"]
      BY OpenedFits
<1>2. Shows("sort")' = KeysOf(viewOptions'.sort) /\ Shows("filters")' = viewOptions'.filters
      BY DEF Shows, KeysOf
<1>3. Shows(p)' = parts[p]
      BY <1>1, <1>2 DEF WriteParts
<1> QED BY <1>3, FromServer

LEMMA SwitchViewKeeps == ASSUME FilterInv, NEW v \in Views, SwitchView(v) PROVE FilterInv'
<1> USE DEF FilterInv
<1>1. /\ edits < MaxEdits /\ edits' = edits + 1
      /\ view' = v /\ viewOptions' = Opened(viewCache[v])
      /\ filterForm' = ClosedForm /\ sortOpen' = FALSE /\ sortShown' = <<>>
      /\ UNCHANGED <<viewServer, viewCache, viewsChanged, optionsFetch, filterTimers, viewWrites, viewExcused>>
      BY DEF SwitchView, Edits, ViewsKept
<1>2. viewCache[v] \in Parts
      BY DEF FilterShape
<1>3. edits' \in 0..MaxEdits /\ OptionsFit(viewOptions') /\ ShownFits(sortShown')
      BY <1>1, <1>2, OpenedFits, NoItemShown, FiltersAssumption DEF FilterShape
<1>4. FilterFormFits(filterForm') /\ KidsKnown(filterForm)'
      BY <1>1, ClosedFormFits DEF KidsKnown
<1>5. FilterShape'
      BY <1>1, <1>3, <1>4 DEF FilterShape
<1>6. FetchKnows'
      BY <1>1, KnowsStays
<1>7. ~ viewsChanged' => viewCache[v] = viewServer'[view']
      BY <1>1 DEF FetchKnows
<1>8. ASSUME NEW p \in WriteParts PROVE OptionsFrom(p)'
      BY <1>1, <1>2, <1>7, OpenedFrom
<1> QED BY <1>4, <1>5, <1>6, <1>8

LEMMA ServersViewFits == ServersView \subseteq Parts
<1>1. <<>> \in Seq(Kid) /\ <<>> \in Seq(SortKeys) /\ "and" \in LogicalOps
      BY DEF LogicalOps
<1> DEFINE kidss == {<<>>} \cup {<<Leaf(c)>> : c \in Conditions}
<1>2. kidss \subseteq Seq(Kid)
      BY <1>1, LeafSequence
<1>3. ServersView = [filters : {[op |-> "and", kids |-> kids] : kids \in kidss}, sort : {<<>>}]
      BY DEF ServersView
<1> HIDE DEF kidss
<1>4. \A kids \in kidss : [op |-> "and", kids |-> kids] \in Tree
      BY <1>1, <1>2 DEF Tree, Kid
<1>5. {[op |-> "and", kids |-> kids] : kids \in kidss} \subseteq Tree
      BY <1>4
<1> QED BY <1>1, <1>3, <1>5 DEF Parts

LEMMA NoOptionsFetchFits ==
  FetchFits(NoOptionsFetch) /\ NoOptionsFetch.at = "no" /\ NoOptionsFetch.late = FALSE
BY DEF FetchFits, NoOptionsFetch

LEMMA NoWritesFit == WritesFit(EmptyBag) /\ DOMAIN EmptyBag = {}
BY DEF WritesFit, EmptyBag, SetToBag

LEMMA FilterInitInv == FilterInit => FilterInv
<1> SUFFICES ASSUME FilterInit PROVE FilterInv
    OBVIOUS
<1>1. /\ viewServer \in [Views -> Parts] /\ viewCache = viewServer /\ view \in Views
      /\ viewsChanged = FALSE /\ optionsFetch = NoOptionsFetch /\ viewOptions = Opened(viewServer[view])
      /\ filterForm = ClosedForm /\ sortOpen = FALSE /\ sortShown = <<>>
      /\ filterTimers = {} /\ viewWrites = EmptyBag /\ edits = 0 /\ viewExcused = FALSE
      BY ServersViewFits DEF FilterInit
<1>2. viewServer[view] \in Parts
      BY <1>1
<1>3. /\ OptionsFit(viewOptions) /\ viewOptions.filters = viewServer[view]["filters"]
      /\ KeysOf(viewOptions.sort) = viewServer[view]["sort"]
      BY <1>1, <1>2, OpenedFits
<1>4. FilterFormFits(filterForm) /\ KidsKnown(filterForm)
      BY <1>1, ClosedFormFits DEF KidsKnown
<1>5. edits \in 0..MaxEdits /\ ShownFits(sortShown) /\ WritesFit(viewWrites) /\ FetchFits(optionsFetch)
      BY <1>1, FiltersAssumption, NoItemShown, NoWritesFit, NoOptionsFetchFits
<1>6. FilterShape
      BY <1>1, <1>3, <1>4, <1>5 DEF FilterShape
<1>7. FetchKnows
      BY <1>1, NoOptionsFetchFits DEF FetchKnows
<1>8. \A p \in WriteParts : OptionsFrom(p)
      BY <1>3 DEF OptionsFrom, Shows, WriteParts
<1> QED BY <1>4, <1>6, <1>7, <1>8 DEF FilterInv

LEMMA VisitTableKeeps == ASSUME FilterInv, VisitTable PROVE FilterInv'
<1>1. /\ viewServer' \in [Views -> Parts] /\ viewCache' = viewServer' /\ view' \in Views
      /\ viewsChanged' = FALSE /\ optionsFetch' = NoOptionsFetch /\ viewOptions' = Opened(viewServer'[view'])
      /\ filterForm' = ClosedForm /\ sortOpen' = FALSE /\ sortShown' = <<>>
      /\ filterTimers' = {} /\ viewWrites' = viewWrites /\ edits' = 0 /\ viewExcused' = FALSE
      BY ServersViewFits DEF VisitTable
<1>2. viewServer'[view'] \in Parts
      BY <1>1
<1>3. OptionsFit(viewOptions')
      BY <1>1, <1>2, OpenedFits
<1>4. FilterFormFits(filterForm') /\ KidsKnown(filterForm)'
      BY <1>1, ClosedFormFits DEF KidsKnown
<1>5. edits' \in 0..MaxEdits /\ ShownFits(sortShown') /\ WritesFit(viewWrites') /\ FetchFits(optionsFetch')
      BY <1>1, FiltersAssumption, NoItemShown, NoOptionsFetchFits DEF FilterInv, FilterShape
<1>6. FilterShape'
      BY <1>1, <1>3, <1>4, <1>5 DEF FilterShape
<1>7. FetchKnows'
      BY <1>1, NoOptionsFetchFits DEF FetchKnows
<1>8. ASSUME NEW p \in WriteParts PROVE OptionsFrom(p)'
      BY <1>1, <1>2, OpenedFrom
<1> QED BY <1>4, <1>6, <1>7, <1>8 DEF FilterInv

LEMMA FilterStays == ASSUME FilterInv, UNCHANGED filterVars PROVE FilterInv'
<1>1. FilterShape' /\ KidsKnown(filterForm)'
      BY DEF FilterInv, FilterShape, filterVars
<1>2. FetchKnows'
      BY KnowsStays DEF FilterInv, filterVars
<1>3. ASSUME ~ viewExcused, NEW p \in WriteParts PROVE OptionsFrom(p)'
      <2>1. OptionsFrom(p) /\ Shows(p)' = Shows(p)
            BY <1>3 DEF FilterInv, Shows, KeysOf, filterVars
      <2> QED BY <2>1, FromStays DEF filterVars
<1> QED BY <1>1, <1>2, <1>3 DEF FilterInv, filterVars

LEMMA FilterNextKeeps == FilterInv /\ [FilterNext]_filterVars => FilterInv'
<1> SUFFICES ASSUME FilterInv, [FilterNext]_filterVars PROVE FilterInv'
    OBVIOUS
<1>1. FilterShape /\ FilterFormFits(filterForm)
      BY DEF FilterInv, FilterShape
<1>2. CASE OpenFilter \/ CloseFilter \/ CloseSort
      BY <1>2, FormOpensKeeps
<1>3. CASE FilterGroupUser
      BY <1>1, <1>3, FormUserSteps, FormStepKeeps
<1>4. CASE OpenSort \/ SortUser
      BY <1>1, <1>4, SortUserSteps, SortStepKeeps
<1>5. CASE \E v \in Views : SaveFires(v) \/ SwitchView(v)
      BY <1>5, SaveFiresKeeps, SwitchViewKeeps
<1>6. CASE \E w \in DOMAIN viewWrites : ViewUpdated(w)
      BY <1>6, ViewUpdatedKeeps
<1>7. CASE OthersWriteView
      BY <1>7, OthersWriteViewKeeps
<1>8. CASE ViewsReadForOptions \/ ViewsArriveForOptions
      BY <1>8, ViewsReadKeeps, ViewsArriveKeeps
<1>9. CASE VisitTable
      BY <1>9, VisitTableKeeps
<1>10. CASE UNCHANGED filterVars
      BY <1>10, FilterStays
<1> QED BY <1>2, <1>3, <1>4, <1>5, <1>6, <1>7, <1>8, <1>9, <1>10 DEF FilterNext

LEMMA FilterInvAlways == FilterSpec => []FilterInv
BY FilterInitInv, FilterNextKeeps, PTL DEF FilterSpec

-----------------------------------------------------------------------------
(* Filters and sort: the theorems                                          *)

(* The view, its options, the form, the items of the sort and the requests *)
(* have the shapes that the handlers expect.                               *)
THEOREM FilterTypeCorrect == FilterSpec => []FilterTypeOK
<1>1. FilterInv => FilterTypeOK
      <2> SUFFICES ASSUME FilterInv PROVE FilterTypeOK
          OBVIOUS
      <2>1. FilterShape
            BY DEF FilterInv
      <2>2. /\ filterForm.open \in BOOLEAN /\ filterForm.op \in LogicalOps
            /\ filterForm.count \in Nat \ {0}
            BY <2>1, FormFields DEF FilterShape
      <2>3. \A w \in DOMAIN viewWrites : w.view \in Views /\ viewWrites[w] > 0
            <3>1. \A w \in DOMAIN viewWrites : w.view \in Views /\ viewWrites[w] \in Nat \ {0}
                  BY <2>1, WriteFields DEF FilterShape, WritesFit
            <3> QED BY <3>1
      <2>4. /\ optionsFetch.differs \in BOOLEAN /\ optionsFetch.late \in BOOLEAN
            /\ optionsFetch.at \in {"no", "read"}
            /\ optionsFetch.at = "read" => optionsFetch.read \in [Views -> Parts]
            BY <2>1 DEF FilterShape, FetchFits
      <2>5. viewOptions \in [filters : Tree, sort : Seq(SortEntry)]
            BY <2>1 DEF FilterShape, OptionsFit
      <2> QED BY <2>1, <2>2, <2>3, <2>4, <2>5 DEF FilterShape, ShownFits, FilterTypeOK
<1> QED BY <1>1, FilterInvAlways, PTL

(* Once no update is under way and the list of views was fetched since     *)
(* anything was saved, the filters and the sort of the page are the        *)
(* server's, unless an update was excused.                                 *)
THEOREM OptionsDoSettle == FilterSpec => []OptionsSettle
<1>1. FilterInv => OptionsSettle
      <2> SUFFICES ASSUME FilterInv, viewWrites = EmptyBag, ~ viewsChanged, ~ viewExcused
                   PROVE  /\ viewOptions.filters = viewServer[view].filters
                          /\ KeysOf(viewOptions.sort) = viewServer[view].sort
          BY DEF OptionsSettle
      <2>1. viewServer[view] \in Parts
            BY DEF FilterInv, FilterShape
      <2>2. \A p \in WriteParts : Shows(p) = viewServer[view][p]
            BY NoWritesFit DEF FilterInv, OptionsFrom
      <2>3. Shows("filters") = viewOptions.filters /\ Shows("sort") = KeysOf(viewOptions.sort)
            BY DEF Shows
      <2>4. /\ viewOptions.filters = viewServer[view]["filters"]
            /\ KeysOf(viewOptions.sort) = viewServer[view]["sort"]
            BY <2>2, <2>3 DEF WriteParts
      <2> QED BY <2>1, <2>4, PartFields
<1> QED BY <1>1, FilterInvAlways, PTL

(* A step of the form takes at most the one child that was asked for.      *)
RemovesOneNow ==
  filterForm.open /\ filterForm'.open /\ ~ filterForm.recounted
    /\ Len(filterForm'.kids) < Len(filterForm.kids)
  => Len(filterForm'.kids) = Len(filterForm.kids) - 1

LEMMA MovesTakeOne ==
  ASSUME FilterFormFits(filterForm), KidsKnown(filterForm), FormMoves(filterForm, filterForm')
  PROVE  RemovesOneNow
<1>1. filterForm.kids \in Seq(KidEntry) /\ Len(filterForm.kids) \in Nat
      BY FormFields
<1>2. CASE FormLoses(filterForm, filterForm')
      BY <1>2, LostKnown DEF RemovesOneNow
<1>3. CASE FormSame(filterForm, filterForm')
      <2>1. FilterFormFits(filterForm') /\ DOMAIN filterForm'.kids = DOMAIN filterForm.kids
            BY <1>3 DEF FormSame
      <2>2. filterForm'.kids \in Seq(KidEntry)
            BY <2>1, FormFields
      <2>3. Len(filterForm'.kids) = Len(filterForm.kids)
            BY <1>1, <2>1, <2>2
      <2> QED BY <1>1, <2>3 DEF RemovesOneNow
<1>4. CASE FormGrows(filterForm, filterForm')
      <2>1. PICK e : filterForm'.kids = Append(filterForm.kids, e) /\ e \in KidEntry
            <3>1. PICK id \in {"filter", "group"}, kid \in Kid :
                    filterForm' = [filterForm EXCEPT !.kids = Append(@, [id |-> <<id, filterForm.count>>, kid |-> kid]),
                                                     !.count = filterForm.count + 1]
                  BY <1>4 DEF FormGrows
            <3>2. filterForm.count \in Nat
                  BY FormFields
            <3>3. [id |-> <<id, filterForm.count>>, kid |-> kid] \in KidEntry
                  BY <3>2 DEF KidEntry
            <3>4. filterForm'.kids = Append(filterForm.kids, [id |-> <<id, filterForm.count>>, kid |-> kid])
                  BY <3>1 DEF FilterFormFits
            <3> QED BY <3>3, <3>4
      <2>2. Len(filterForm'.kids) = Len(filterForm.kids) + 1
            BY <1>1, <2>1, AppendProperties
      <2> QED BY <1>1, <2>2 DEF RemovesOneNow
<1> QED BY <1>2, <1>3, <1>4 DEF FormMoves

LEMMA StepsTakeOne == FilterInv /\ [FilterNext]_filterVars => RemovesOneNow
<1> SUFFICES ASSUME FilterInv, [FilterNext]_filterVars PROVE RemovesOneNow
    OBVIOUS
<1>1. FilterShape /\ FilterFormFits(filterForm) /\ KidsKnown(filterForm) /\ Len(filterForm.kids) \in Nat
      BY FormFields DEF FilterInv, FilterShape
<1>2. CASE FilterGroupUser
      BY <1>1, <1>2, FormUserSteps, MovesTakeOne DEF FormStep
<1>3. ASSUME filterForm'.kids = filterForm.kids PROVE RemovesOneNow
      BY <1>1, <1>3 DEF RemovesOneNow
<1>4. CASE ~ filterForm.open \/ ~ filterForm'.open
      BY <1>4 DEF RemovesOneNow
<1>5. ASSUME OpenFilter \/ CloseFilter \/ VisitTable PROVE ~ filterForm.open \/ ~ filterForm'.open
      BY <1>5, ClosedFormFits DEF OpenFilter, CloseFilter, VisitTable
<1>6. ASSUME NEW v \in Views, SwitchView(v) PROVE ~ filterForm'.open
      BY <1>6, ClosedFormFits DEF SwitchView
<1>7. ASSUME OpenSort \/ SortUser PROVE filterForm' = filterForm
      BY <1>1, <1>7, SortUserSteps DEF SortStep, SortOnly
<1>8. ASSUME NEW v \in Views, SaveFires(v) PROVE filterForm'.kids = filterForm.kids
      <2>1. CASE filterForm' = filterForm
            BY <2>1
      <2>2. CASE filterForm' = Recount(filterForm, BuiltTree(filterForm))
            BY <1>1, <2>2, BuiltFits, RecountFits
      <2> QED BY <1>8, <2>1, <2>2 DEF SaveFires
<1>9. ASSUME ViewsArriveForOptions PROVE filterForm'.kids = filterForm.kids
      <2> DEFINE parts == optionsFetch.read[view]
      <2>1. filterForm' = filterForm \/ filterForm' = Recount(filterForm, parts.filters)
            BY <1>9 DEF ViewsArriveForOptions, OptionsFollow
      <2>2. parts.filters \in Tree
            <3>1. parts \in Parts
                  BY <1>1, <1>9 DEF FilterShape, FetchFits, ViewsArriveForOptions
            <3> QED BY <3>1, PartFields
      <2> HIDE DEF parts
      <2> QED BY <1>1, <2>1, <2>2, RecountFits
<1>10. ASSUME \/ CloseSort \/ OthersWriteView \/ ViewsReadForOptions
              \/ (\E w \in DOMAIN viewWrites : ViewUpdated(w)) \/ UNCHANGED filterVars
       PROVE  filterForm' = filterForm
       BY <1>10 DEF CloseSort, SortOnly, OthersWriteView, ViewsReadForOptions, ViewUpdated, filterVars
<1> QED BY <1>2, <1>3, <1>4, <1>5, <1>6, <1>7, <1>8, <1>9, <1>10 DEF FilterNext

(* Removing a filter removes that one, until a save has counted the ids    *)
(* anew.                                                                   *)
THEOREM RemovesOnlyOne == FilterSpec => RemovesOne
<1>1. FilterInv /\ [FilterNext]_filterVars =>
        [filterForm.open /\ filterForm'.open /\ ~ filterForm.recounted
           /\ Len(filterForm'.kids) < Len(filterForm.kids)
         => Len(filterForm'.kids) = Len(filterForm.kids) - 1]_filterVars
      BY StepsTakeOne DEF RemovesOneNow
<1> QED BY <1>1, FilterInvAlways, PTL DEF FilterSpec, RemovesOne
=============================================================================
