---------------------------- MODULE ClientFields ----------------------------
(***************************************************************************)
(* The fields of a view in the web client.  They are kept four times: by   *)
(* the server, in the cache of useViewFields, in the list of the Fields    *)
(* popover, and as the columns of the grid, which are the visible ones.    *)
(* The handlers of the header menu start from the columns, those of the    *)
(* popover from the list or the cache; each shows what it expects, sends   *)
(* its request, and hands what it expected to mutate, which asks for the   *)
(* server's fields again.  Some put the old columns back after an error.   *)
(*                                                                         *)
(* One attribute stands for the alias, type, options and flags of a field. *)
(***************************************************************************)
EXTENDS ClientLists

CONSTANTS
  FieldIds,        \* fields the table has or can get
  MaxFieldActions, \* bound: handlers called in one visit of the page
  MaxFieldWrites   \* bound: requests under way

ASSUME FieldsAssumption ==
  /\ IsFiniteSet(FieldIds) /\ FieldIds # {}
  /\ MaxFieldActions \in Nat /\ MaxFieldWrites \in Nat

VARIABLES
  viewFields,  \* the server's field options: order, hidden and attribute
  fieldsCache, \* data of useViewFields
  fieldList,   \* state of Fields
  columns,     \* state of useViewFieldState
  fieldWrites, \* requests that have not been answered
  fieldsFetch, \* a revalidation: "no", "asked" or "read", and what it read
  fieldMenu,   \* the field the header menu was opened with
  dropping,    \* the modal that confirms a drop, and the columns of the click
  resizing,    \* is a column being dragged to another width?
  fieldActions,\* bounded
  fieldExcused \* history: has the page a reason to differ from the server?

fieldVars == <<viewFields, fieldsCache, fieldList, columns, fieldWrites, fieldsFetch,
               fieldMenu, dropping, resizing, fieldActions, fieldExcused>>

Shown == [id : FieldIds, hidden : BOOLEAN, attr : 0..1]
Option == [order : Nat, hidden : BOOLEAN, attr : 0..1]
NoMenu == [open |-> FALSE, id |-> CHOOSE f \in FieldIds : TRUE, attr |-> 0]
NoDrop == [open |-> FALSE, id |-> NoMenu.id, fields |-> <<>>]
NotFetching == [at |-> "no", read |-> <<>>]

FieldTypeOK ==
  /\ DOMAIN viewFields \subseteq FieldIds
  /\ \A f \in DOMAIN viewFields : viewFields[f] \in Option
  /\ \A s \in {fieldsCache, fieldList, columns, dropping.fields, fieldsFetch.read} : s \in Seq(Shown)
  /\ fieldsFetch.at \in {"no", "asked", "read"}
  /\ \A w \in fieldWrites : w.before \in Seq(Shown) /\ w.after \in Seq(Shown)
  /\ fieldMenu.id \in FieldIds /\ resizing \in BOOLEAN /\ fieldExcused \in BOOLEAN
  /\ fieldActions \in 0..MaxFieldActions

(* The server sorts by order; which of two equal ones is first is open.    *)
ServerFields(options) ==
  {s \in SetToSeqs({[id |-> f, hidden |-> options[f].hidden, attr |-> options[f].attr] :
                      f \in DOMAIN options}) :
     \A i, j \in DOMAIN s : i < j => options[s[i].id].order <= options[s[j].id].order}

(* initializeFields                                                        *)
Visible(fields) == Filtered(fields, {i \in DOMAIN fields : ~ fields[i].hidden})

MapField(fields, id, g(_)) ==
  [i \in DOMAIN fields |-> IF fields[i].id = id THEN g(fields[i]) ELSE fields[i]]

WithAttr(fields, id, v) ==
  LET Set(f) == [f EXCEPT !.attr = v] IN MapField(fields, id, Set)
WithHidden(fields, id, v) ==
  LET Set(f) == [f EXCEPT !.hidden = v] IN MapField(fields, id, Set)
WithoutField(fields, id) == Filtered(fields, {i \in DOMAIN fields : fields[i].id # id})

-----------------------------------------------------------------------------
(* A handler up to its await.  op says what is asked of the server; kept   *)
(* are the columns it was created with; alone, whether nothing else has    *)
(* been under way since.                                                   *)
Beside(w) == [w EXCEPT !.alone = FALSE]

AsksWith(kept, op, args, after, rolls) ==
  /\ fieldActions < MaxFieldActions /\ fieldActions' = fieldActions + 1
  /\ Cardinality(fieldWrites) < MaxFieldWrites
  /\ fieldWrites' = {Beside(w) : w \in fieldWrites} \cup
       {[op |-> op, args |-> args, before |-> IF rolls THEN kept ELSE <<>>, after |-> after,
         rolls |-> rolls, answer |-> "none",
         alone |-> fieldWrites = {} /\ fieldsFetch.at = "no" /\ kept = columns]}
  /\ UNCHANGED <<viewFields, fieldsCache, fieldsFetch, fieldExcused>>

Asks(op, args, after, rolls) == AsksWith(columns, op, args, after, rolls) /\ UNCHANGED dropping

(* The menu of a column, onHeaderMenuClick, keeps the field as it was.     *)
OpensMenu ==
  /\ ~ fieldMenu.open /\ ~ dropping.open /\ ~ resizing /\ fieldActions < MaxFieldActions
  /\ \E i \in DOMAIN columns :
       fieldMenu' = [open |-> TRUE, id |-> columns[i].id, attr |-> columns[i].attr]
  /\ UNCHANGED <<viewFields, fieldsCache, fieldList, columns, fieldWrites, fieldsFetch,
                 dropping, resizing, fieldActions, fieldExcused>>

FromMenu(op, args, after, rolls) ==
  /\ fieldMenu.open /\ fieldMenu' = NoMenu
  /\ Asks(op, args, after, rolls)
  /\ columns' = Visible(after)
  /\ UNCHANGED <<fieldList, resizing>>

(* A click outside of the menu saves the alias, if it was changed.         *)
LeavesMenu ==
  LET f == fieldMenu.id  alias == 1 - fieldMenu.attr IN
  \/ /\ fieldMenu.open /\ fieldMenu' = NoMenu
     /\ UNCHANGED <<viewFields, fieldsCache, fieldList, columns, fieldWrites, fieldsFetch,
                    dropping, resizing, fieldActions, fieldExcused>>
  \/ FromMenu("attr", <<f, alias>>, WithAttr(columns, f, alias), FALSE)

(* handleFieldTypeChange, handleToggleNullable                             *)
ChangesType ==
  LET v == 1 - fieldMenu.attr IN
  FromMenu("attr", <<fieldMenu.id, v>>, WithAttr(columns, fieldMenu.id, v), TRUE)

(* handleToggleValidation; handleSelectCurrency starts from the cache.     *)
TogglesValidation ==
  \E fields \in {columns, fieldsCache} :
    LET v == 1 - fieldMenu.attr IN
    FromMenu("attr", <<fieldMenu.id, v>>, WithAttr(fields, fieldMenu.id, v), FALSE)

(* handleTogglePII expects nothing: it sets isPII, the field has isPii.    *)
TogglesPII == FromMenu("attr", <<fieldMenu.id, 1 - fieldMenu.attr>>, columns, TRUE)

(* handleHideField leaves the menu open.                                   *)
HidesField ==
  /\ fieldMenu.open
  /\ LET after == WithHidden(columns, fieldMenu.id, TRUE) IN
     Asks("hide", <<fieldMenu.id, TRUE>>, after, FALSE) /\ columns' = Visible(after)
  /\ UNCHANGED <<fieldList, fieldMenu, resizing>>

(* handleDropField: the modal gets the handler of this render.             *)
AsksToDrop ==
  /\ fieldMenu.open /\ dropping' = [open |-> TRUE, id |-> fieldMenu.id, fields |-> columns]
  /\ UNCHANGED <<viewFields, fieldsCache, fieldList, columns, fieldWrites, fieldsFetch, fieldMenu,
                 resizing, fieldActions, fieldExcused>>

FieldMenu ==
  /\ ~ dropping.open
  /\ ChangesType \/ TogglesValidation \/ TogglesPII \/ HidesField \/ AsksToDrop

(* handleConfirmDropField: the modal is open until the answer.             *)
DropsField ==
  /\ dropping.open /\ dropping.fields # <<>>
  /\ LET after == WithoutField(dropping.fields, dropping.id) IN
     /\ AsksWith(dropping.fields, "drop", <<dropping.id>>, after, TRUE)
     /\ columns' = Visible(after)
  /\ UNCHANGED <<fieldList, fieldMenu, dropping, resizing>>

CancelsDrop ==
  /\ dropping.open /\ dropping' = NoDrop
  /\ UNCHANGED <<viewFields, fieldsCache, fieldList, columns, fieldWrites, fieldsFetch, fieldMenu,
                 resizing, fieldActions, fieldExcused>>

(* useResizeField: the columns follow the mouse, the end is saved.         *)
ResizesColumn ==
  /\ ~ resizing /\ ~ fieldMenu.open /\ ~ dropping.open /\ fieldActions < MaxFieldActions
  /\ resizing' = TRUE
  /\ \E i \in DOMAIN columns : columns' = WithAttr(columns, columns[i].id, 1 - columns[i].attr)
  /\ UNCHANGED <<viewFields, fieldsCache, fieldList, fieldWrites, fieldsFetch, fieldMenu,
                 dropping, fieldActions, fieldExcused>>

ResizeEnds ==
  /\ resizing /\ resizing' = FALSE
  /\ \E i \in DOMAIN columns, v \in 0..1 :
       LET after == WithAttr(columns, columns[i].id, v) IN
       Asks("attr", <<columns[i].id, v>>, after, FALSE) /\ columns' = after
  /\ UNCHANGED <<fieldList, fieldMenu>>

(* handleRearrangeColumn: the order that is sent has the columns only.     *)
RearrangesColumn ==
  /\ ~ fieldMenu.open /\ ~ dropping.open /\ ~ resizing
  /\ \E i, j \in DOMAIN columns :
       /\ i # j
       /\ LET after == Moved(columns, i, j) IN
          Asks("order", [k \in DOMAIN after |-> after[k].id], after, FALSE) /\ columns' = after
  /\ UNCHANGED <<fieldList, fieldMenu, resizing>>

-----------------------------------------------------------------------------
(* The popover: handleToggleVisibility of FieldItem, handleHideAll and     *)
(* handleReorderFields of FieldList, and a field that is added.            *)
FromList(op, args, after, cols) ==
  /\ ~ fieldMenu.open /\ ~ dropping.open /\ ~ resizing
  /\ Asks(op, args, after, FALSE)
  /\ fieldList' = after /\ columns' = cols
  /\ UNCHANGED <<fieldMenu, resizing>>

TogglesVisibility ==
  \E i \in DOMAIN fieldList :
    LET f == fieldList[i]
        after == WithHidden(fieldsCache, f.id, ~ f.hidden) IN
    FromList("hide", <<f.id, ~ f.hidden>>, after, Visible(after))

HidesAll ==
  /\ \E i \in DOMAIN fieldList : ~ fieldList[i].hidden
  /\ LET after == [i \in DOMAIN fieldList |-> [fieldList[i] EXCEPT !.hidden = TRUE]] IN
     FromList("hideAll", <<>>, after, Visible(after))

ReordersList ==
  \E i, j \in DOMAIN fieldList :
    /\ i # j
    /\ LET after == Moved(fieldList, i, j) IN
       FromList("order", [k \in DOMAIN after |-> after[k].id], after, columns)

(* submit of CreateField: its page waits, and only asks for the fields.    *)
AddsField ==
  \E f \in FieldIds \ DOMAIN viewFields :
    /\ \A w \in fieldWrites : w.op # "add"
    /\ FromList("add", <<f>>, fieldList, columns)

-----------------------------------------------------------------------------
(* The server.  An order with a field that is gone fails half-way.         *)
Reordered(ids) ==
  [f \in DOMAIN viewFields |->
     IF \E i \in DOMAIN ids : ids[i] = f
     THEN [viewFields[f] EXCEPT !.order = (CHOOSE i \in DOMAIN ids : ids[i] = f) - 1]
     ELSE viewFields[f]]

Gone(ids) == {i \in DOMAIN ids : ids[i] \notin DOMAIN viewFields}
BeforeGone(ids) == SubSeq(ids, 1, (CHOOSE i \in Gone(ids) : \A j \in Gone(ids) : i <= j) - 1)

FieldDone(w) ==
  LET f == w.args[1] IN
  \/ /\ w.op \in {"attr", "hide", "drop"} /\ f \in DOMAIN viewFields
     /\ viewFields' =
          CASE w.op = "attr" -> [viewFields EXCEPT ![f].attr = w.args[2]]
            [] w.op = "hide" -> [viewFields EXCEPT ![f].hidden = w.args[2]]
            [] w.op = "drop" -> [g \in DOMAIN viewFields \ {f} |-> viewFields[g]]
  \/ /\ w.op = "hideAll"
     /\ viewFields' = [g \in DOMAIN viewFields |-> [viewFields[g] EXCEPT !.hidden = TRUE]]
  \/ w.op = "order" /\ Gone(w.args) = {} /\ viewFields' = Reordered(w.args)
  \/ /\ w.op = "add"
     /\ viewFields' = [g \in DOMAIN viewFields \cup {f} |->
          IF g \in DOMAIN viewFields THEN viewFields[g]
          ELSE [order |-> Cardinality(DOMAIN viewFields) + 1, hidden |-> FALSE, attr |-> 0]]

(* What was done may be answered, or the answer be lost.                   *)
FieldHandled(w) ==
  LET answers(a) == fieldWrites' = (fieldWrites \ {w}) \cup {[w EXCEPT !.answer = a]} IN
  /\ w.answer = "none"
  /\ \/ FieldDone(w) /\ \E a \in {"ok", "lost"} : answers(a)
     \/ w.op = "order" /\ Gone(w.args) # {} /\ answers("error")
        /\ viewFields' = Reordered(BeforeGone(w.args))
     \/ answers("error") /\ UNCHANGED viewFields
  /\ UNCHANGED <<fieldsCache, fieldList, columns, fieldsFetch, fieldMenu, dropping, resizing,
                 fieldActions, fieldExcused>>

(* Data that are new reach the list and the columns by their effects.      *)
CacheBecomes(fields) ==
  /\ fieldsCache' = fields
  /\ IF fields = fieldsCache THEN UNCHANGED <<fieldList, columns>>
     ELSE fieldList' = fields /\ columns' = Visible(fields)

\* Mutant: mutate is called with false, and does not ask the server.
NoRefetch == NotFetching

Refetch == [at |-> "asked", read |-> <<>>]

(* setConfirmModal(null) of a drop                                         *)
ModalAfter(w) == IF w.op = "drop" THEN NoDrop ELSE dropping

(* await mutateViewFields(updatedFields); a field added is only fetched.   *)
FieldSucceeds(w) ==
  /\ w.answer = "ok" /\ fieldWrites' = fieldWrites \ {w}
  /\ IF w.op = "add" THEN UNCHANGED <<fieldsCache, fieldList, columns>> ELSE CacheBecomes(w.after)
  /\ fieldsFetch' = Refetch /\ dropping' = ModalAfter(w)
  /\ UNCHANGED <<viewFields, fieldMenu, resizing, fieldActions, fieldExcused>>

FieldFails(w) ==
  /\ w.answer \in {"error", "lost"} /\ fieldWrites' = fieldWrites \ {w}
  /\ columns' = IF w.rolls THEN w.before ELSE columns
  /\ dropping' = ModalAfter(w)
  /\ fieldExcused' = (fieldExcused \/ ~ w.rolls \/ ~ w.alone \/ w.answer = "lost")
  /\ UNCHANGED <<viewFields, fieldsCache, fieldList, fieldsFetch, fieldMenu, resizing, fieldActions>>

(* SWR asks also by itself.                                                *)
FieldsAsked ==
  /\ fieldsFetch.at = "no" /\ fieldActions < MaxFieldActions
  /\ fieldsFetch' = Refetch /\ fieldWrites' = {Beside(w) : w \in fieldWrites}
  /\ UNCHANGED <<viewFields, fieldsCache, fieldList, columns, fieldMenu, dropping, resizing,
                 fieldActions, fieldExcused>>

FieldsRead ==
  /\ fieldsFetch.at = "asked"
  /\ \E s \in ServerFields(viewFields) : fieldsFetch' = [at |-> "read", read |-> s]
  /\ UNCHANGED <<viewFields, fieldsCache, fieldList, columns, fieldWrites, fieldMenu, dropping, resizing,
                 fieldActions, fieldExcused>>

FieldsArrive ==
  /\ fieldsFetch.at = "read" /\ fieldsFetch' = NotFetching
  /\ \/ CacheBecomes(fieldsFetch.read) /\ UNCHANGED fieldExcused
     \/ UNCHANGED <<fieldsCache, fieldList, columns>> /\ fieldExcused' = TRUE
  /\ UNCHANGED <<viewFields, fieldWrites, fieldMenu, dropping, resizing, fieldActions>>

(* Another view is opened; its fields may be in any order and hidden.      *)
VisitFields ==
  /\ fieldWrites = {} /\ fieldActions = MaxFieldActions
  /\ \E there \in SUBSET FieldIds, hid \in SUBSET FieldIds :
       /\ there # {} /\ hid \subseteq there
       /\ viewFields' = [f \in there |-> [order |-> Cardinality({g \in there : g <= f}),
                                          hidden |-> f \in hid, attr |-> 0]]
  /\ fieldsCache' \in ServerFields(viewFields')
  /\ fieldList' = fieldsCache' /\ columns' = Visible(fieldsCache')
  /\ fieldsFetch' = NotFetching /\ fieldMenu' = NoMenu /\ dropping' = NoDrop /\ resizing' = FALSE
  /\ fieldActions' = 0 /\ fieldExcused' = FALSE
  /\ UNCHANGED fieldWrites

FieldsInit ==
  /\ viewFields \in UNION {[there -> {[order |-> 1, hidden |-> FALSE, attr |-> 0]}] :
                             there \in {{f} : f \in FieldIds}}
  /\ fieldsCache \in ServerFields(viewFields)
  /\ fieldList = fieldsCache /\ columns = Visible(fieldsCache)
  /\ fieldWrites = {} /\ fieldsFetch = NotFetching /\ fieldMenu = NoMenu
  /\ dropping = NoDrop /\ resizing = FALSE /\ fieldActions = 0 /\ fieldExcused = FALSE

FieldsNext ==
  \/ OpensMenu \/ LeavesMenu \/ FieldMenu \/ DropsField \/ CancelsDrop
  \/ ResizesColumn \/ ResizeEnds \/ RearrangesColumn
  \/ TogglesVisibility \/ HidesAll \/ ReordersList \/ AddsField
  \/ \E w \in fieldWrites : FieldHandled(w) \/ FieldSucceeds(w) \/ FieldFails(w)
  \/ FieldsAsked \/ FieldsRead \/ FieldsArrive \/ VisitFields

FieldsSpec == FieldsInit /\ [][FieldsNext]_fieldVars

-----------------------------------------------------------------------------
(* Whatever handlers overlapped, once every request is answered and the    *)
(* fields were fetched, the list, the columns and the cache show the       *)
(* server's fields, unless a handler that puts nothing back failed, one    *)
(* that does failed beside others or after its columns were replaced (a    *)
(* drop has those of the click on "Drop Field"), the answer of what was    *)
(* done got lost, or the fetch failed.                                     *)
ColumnsSettle ==
  fieldWrites = {} /\ fieldsFetch.at = "no" /\ ~ resizing /\ ~ fieldExcused =>
    /\ fieldsCache \in ServerFields(viewFields)
    /\ fieldList = fieldsCache /\ columns = Visible(fieldsCache)
=============================================================================
