----------------------------- MODULE ClientGrid -----------------------------
(***************************************************************************)
(* The grid of a table in the web client: cells are edited, records added  *)
(* and deleted optimistically.  Every handler keeps the rows it was called *)
(* with, shows what it expects, and when the server has answered writes    *)
(* the shown rows to the cache of useTableRecords, or puts the old ones    *)
(* back.  Nothing keeps a second handler from starting meanwhile.          *)
(*                                                                         *)
(* A row is its key and the value of the one field that can be edited.     *)
(***************************************************************************)
EXTENDS Naturals, Sequences, FiniteSets, SequencesExt

CONSTANTS
  RowKeys,    \* primary keys
  RowValues,  \* values of the field
  MaxActions, \* bound: what the user does in one visit of the page
  MaxOpen     \* bound: requests under way

ASSUME GridAssumption ==
  /\ RowKeys \subseteq Nat /\ IsFiniteSet(RowKeys) /\ RowValues # {}
  /\ MaxActions \in Nat /\ MaxOpen \in Nat

VARIABLES
  stored,    \* the rows the server has
  cached,    \* data of useTableRecords
  shown,     \* the rows BaseTableContent keeps as its own state
  totalRecords, \* data of useTableRecordsCount
  writes,    \* requests that have not been answered
  fetching,  \* a revalidation: "no", "asked" or "read", and the rows it read
  gridSaving,\* loading of useSaveStatus
  cellMenu,  \* the row whose menu is open, 0 if none
  actions,   \* bounded: handlers called
  excused    \* history: has the grid a reason to differ from the server?

gridVars == <<stored, cached, shown, totalRecords, writes, fetching, gridSaving,
              cellMenu, actions, excused>>

Row == [key : RowKeys, val : RowValues]
Rows == Seq(Row)
At(rows, k) == {i \in DOMAIN rows : rows[i].key = k}
Has(rows, k) == At(rows, k) # {}
DistinctKeys(rows) == \A i, j \in DOMAIN rows : rows[i].key = rows[j].key => i = j

Put(rows, k, v) == [i \in DOMAIN rows |-> IF rows[i].key = k THEN [key |-> k, val |-> v]
                                          ELSE rows[i]]

(* The filter on the primary keys drops one row at most.                   *)
Without(rows, k) == IF Has(rows, k) THEN RemoveAt(rows, CHOOSE i \in At(rows, k) : TRUE) ELSE rows

NoFetch == <<"no", <<>>>>
Write == [op : {"edit", "add", "delete"}, key : RowKeys, val : RowValues,
          before : Rows, after : Rows, from : {"grid", "modal", "menu"},
          answer : {"none", "ok", "error"}]

GridTypeOK ==
  /\ stored \in Rows /\ cached \in Rows /\ shown \in Rows
  /\ totalRecords \in Nat
  /\ writes \subseteq Write
  /\ fetching \in {"no", "asked", "read"} \X Rows
  /\ gridSaving \in BOOLEAN /\ excused \in BOOLEAN
  /\ cellMenu \in Nat
  /\ actions \in 0..MaxActions

-----------------------------------------------------------------------------
(* A handler up to its await: it keeps the rows it found on the screen.    *)
Starts(w) ==
  /\ actions < MaxActions /\ actions' = actions + 1
  /\ Cardinality(writes) < MaxOpen /\ w \notin writes
  /\ writes' = writes \cup {w}
  /\ gridSaving' = TRUE
  /\ excused' = (excused \/ writes # {})
  /\ UNCHANGED <<stored, cached, fetching>>

Request(op, k, v, after, from) ==
  [op |-> op, key |-> k, val |-> v, before |-> shown, after |-> after,
   from |-> from, answer |-> "none"]

(* handleCellEdited, handleExitEditing                                     *)
EditCell ==
  \E i \in DOMAIN shown : \E v \in RowValues \ {shown[i].val} :
    LET after == [shown EXCEPT ![i].val = v] IN
    /\ Starts(Request("edit", shown[i].key, v, after, "grid"))
    /\ shown' = after
    /\ UNCHANGED <<totalRecords, cellMenu>>

(* A value that does not validate, or a field that cannot be edited: the   *)
(* error takes the place of whatever status there was.                     *)
EditRejected ==
  /\ actions < MaxActions /\ actions' = actions + 1
  /\ shown # <<>>
  /\ gridSaving' = FALSE
  /\ UNCHANGED <<stored, cached, shown, totalRecords, writes, fetching, cellMenu, excused>>

(* The key of a new row is one that the table does not have.               *)
Adds(from, showsNow) ==
  \E k \in RowKeys, v \in RowValues :
    LET after == Append(shown, [key |-> k, val |-> v]) IN
    /\ ~ Has(shown, k) /\ ~ Has(stored, k)
    /\ Starts(Request("add", k, v, after, from))
    /\ shown' = IF showsNow THEN after ELSE shown
    /\ UNCHANGED <<totalRecords, cellMenu>>

(* saveNewRecord waits for the server before it shows the row.             *)
AddRow == Adds("grid", FALSE)

(* The form of AddRecordModal shows it at once, unless a field has its     *)
(* default value.                                                          *)
AddRecord == \E showsNow \in BOOLEAN : Adds("modal", showsNow)

(* onCellContextMenu: the menu keeps the position of the row               *)
OpenCellMenu ==
  /\ IF cellMenu # 0 THEN cellMenu' = 0 ELSE cellMenu' \in DOMAIN shown
  /\ UNCHANGED <<stored, cached, shown, totalRecords, writes, fetching, gridSaving,
                 actions, excused>>

(* confirmDeleteRecord of CellMenu; its button is off while something is   *)
(* being saved.                                                            *)
DeleteRow ==
  /\ cellMenu \in DOMAIN shown /\ ~ gridSaving
  /\ LET k == shown[cellMenu].key
         after == Without(shown, k) IN
       /\ Starts(Request("delete", k, shown[cellMenu].val, after, "menu"))
       /\ shown' = after /\ totalRecords' = Len(after)
  /\ cellMenu' = 0

(* confirmDeleteRecord of SingleRecordModal, which a cell menu opened      *)
DeleteRecord ==
  \E i \in DOMAIN shown :
    LET k == shown[i].key
        after == Without(cached, k) IN
    /\ Starts([Request("delete", k, shown[i].val, after, "modal") EXCEPT !.before = cached])
    /\ shown' = after /\ totalRecords' = Len(after)
    /\ UNCHANGED cellMenu

-----------------------------------------------------------------------------
(* The server handles a request.                                           *)
Applied(w) == CASE w.op = "edit" -> Put(stored, w.key, w.val)
                [] w.op = "add" -> Append(stored, [key |-> w.key, val |-> w.val])
                [] w.op = "delete" -> Without(stored, w.key)

Handled(w) ==
  /\ w.answer = "none"
  /\ \/ /\ w.op = "add" => ~ Has(stored, w.key)
        /\ w.op # "add" => Has(stored, w.key)
        /\ stored' = Applied(w)
        /\ writes' = (writes \ {w}) \cup {[w EXCEPT !.answer = "ok"]}
     \/ /\ writes' = (writes \ {w}) \cup {[w EXCEPT !.answer = "error"]}
        /\ UNCHANGED stored
  /\ UNCHANGED <<cached, shown, totalRecords, fetching, gridSaving, cellMenu, actions, excused>>

(* The rest of the handler.  mutate(rows, false) sets the cache and drops  *)
(* a revalidation under way; mutateTableRecordsCount asks for the count.   *)
(* Mutant: the rows the handler found are kept. *)
KeptBefore(w) == w.before

(* The rows mutateTableRecords is called with. *)
Kept(w) == w.after

Succeeds(w) ==
  /\ w.answer = "ok"
  /\ writes' = writes \ {w}
  /\ cached' = Kept(w) /\ shown' = Kept(w)
  /\ totalRecords' = IF w.op = "edit" THEN totalRecords ELSE Len(stored)
  /\ fetching' = NoFetch /\ gridSaving' = FALSE
  /\ UNCHANGED <<stored, cellMenu, actions, excused>>

(* The catch of the cell menu calls the hook useMounted, which throws      *)
(* outside of a component: nothing is put back and no error is shown.      *)
Fails(w) ==
  /\ w.answer = "error"
  /\ writes' = writes \ {w}
  /\ IF w.from = "menu"
     THEN excused' = TRUE /\ UNCHANGED <<shown, totalRecords, gridSaving>>
     ELSE /\ shown' = w.before /\ gridSaving' = FALSE
          /\ totalRecords' = IF w.op = "delete" THEN Len(w.before) ELSE totalRecords
          /\ UNCHANGED excused
  /\ UNCHANGED <<stored, cached, fetching, cellMenu, actions>>

-----------------------------------------------------------------------------
(* Somebody else changes the table, and useDataListener asks for the rows. *)
OthersWrite ==
  /\ actions < MaxActions /\ actions' = actions + 1
  /\ \E i \in DOMAIN stored, v \in RowValues :
       stored' \in {[stored EXCEPT ![i].val = v], Without(stored, stored[i].key)}
  /\ fetching' = <<"asked", <<>>>> /\ excused' = TRUE
  /\ UNCHANGED <<cached, shown, totalRecords, writes, gridSaving, cellMenu>>

(* SWR asks by itself, too, as when the window gets the focus.             *)
FocusAsks ==
  /\ fetching[1] = "no" /\ actions < MaxActions /\ actions' = actions + 1
  /\ fetching' = <<"asked", <<>>>>
  /\ UNCHANGED <<stored, cached, shown, totalRecords, writes, gridSaving, cellMenu, excused>>

FetchReads ==
  /\ fetching[1] = "asked"
  /\ fetching' = <<"read", stored>>
  /\ UNCHANGED <<stored, cached, shown, totalRecords, writes, gridSaving, cellMenu,
                 actions, excused>>

FetchArrives ==
  /\ fetching[1] = "read"
  /\ cached' = fetching[2] /\ shown' = fetching[2]
  /\ totalRecords' = Len(stored)
  /\ fetching' = NoFetch
  /\ excused' = (excused /\ ~ (writes = {} /\ fetching[2] = stored))
  /\ UNCHANGED <<stored, writes, gridSaving, cellMenu, actions>>

(* parsedData is a new array in every render of the provider, so the rows  *)
(* on the screen are set to the cached ones at any time.                   *)
Rerender ==
  /\ shown' = cached
  /\ UNCHANGED <<stored, cached, totalRecords, writes, fetching, gridSaving, cellMenu,
                 actions, excused>>

(* The page is left and opened again.                                      *)
VisitGrid ==
  /\ writes = {} /\ actions > 0
  /\ cached' = stored /\ shown' = stored /\ totalRecords' = Len(stored)
  /\ fetching' = NoFetch /\ gridSaving' = FALSE /\ cellMenu' = 0
  /\ actions' = 0 /\ excused' = FALSE
  /\ UNCHANGED <<stored, writes>>

GridInit ==
  /\ \E n \in 0..Cardinality(RowKeys) : stored \in {rows \in [1..n -> Row] : DistinctKeys(rows)}
  /\ cached = stored /\ shown = stored /\ totalRecords = Len(stored)
  /\ writes = {} /\ fetching = NoFetch /\ gridSaving = FALSE /\ cellMenu = 0
  /\ actions = 0 /\ excused = FALSE

GridUser ==
  EditCell \/ EditRejected \/ AddRow \/ AddRecord \/ OpenCellMenu \/ DeleteRow \/ DeleteRecord

GridNext ==
  \/ GridUser \/ OthersWrite \/ VisitGrid \/ Rerender
  \/ \E w \in writes : Handled(w) \/ Succeeds(w) \/ Fails(w)
  \/ FocusAsks \/ FetchReads \/ FetchArrives

GridSpec == GridInit /\ [][GridNext]_gridVars

-----------------------------------------------------------------------------
(* Handlers overlap nothing but a fetch, and once all is answered the grid *)
(* shows the server's rows and their number: the position a handler edits, *)
(* the row it expects and the copy it puts back are those of the request.  *)
(* What may leave the grid apart, until the rows are fetched with nothing  *)
(* under way, is counted in excused: two handlers that overlapped, other   *)
(* users, and an error of the cell menu.                                   *)
GridSettles ==
  writes = {} /\ ~ excused => shown = stored /\ cached = stored /\ totalRecords = Len(stored)
=============================================================================
