---------------------------- MODULE ClientFilters ---------------------------
(***************************************************************************)
(* The filters and the sort of a view in the web client.  What the user    *)
(* builds in the filter form is read from the page half a second after the *)
(* last change and sent; a change of the sort is sent at once.  Neither    *)
(* request is waited for.  The options of the view follow the form at      *)
(* once, and the cached list of the table's views whenever that is another *)
(* one than before, which any change of any view makes it.                 *)
(*                                                                         *)
(* A filter tree is the operator of its root and its children: conditions, *)
(* and groups of conditions.  The user may change views.                   *)
(***************************************************************************)
EXTENDS ClientLists, Bags

CONSTANTS
  Views,        \* views of the table
  Conditions,   \* a field, an operator and a value
  SortKeys,     \* a field and a direction
  MaxChildren,  \* bound: filters and groups of a form, conditions of a group, sorts
  MaxUpdates,   \* bound: updates under way
  MaxEdits      \* bound: what the user does in one visit of the page

ASSUME FiltersAssumption ==
  /\ Conditions # {} /\ SortKeys # {} /\ Views # {}
  /\ MaxChildren \in Nat /\ MaxUpdates \in Nat /\ MaxEdits \in Nat

VARIABLES
  viewServer,  \* filters and sort of each view, on the server
  viewCache,   \* data of viewsResponse: those of each view of the table
  viewsChanged,\* was a view saved that differs from the cached one, if only in updated_at?
  optionsFetch,\* a revalidation: what it read, if that differs, and what was saved since
  view,        \* the view shown
  viewOptions, \* state of useViewOptions: filters and sort
  filterForm,  \* the state of FilterGroup, while its popover is open
  sortOpen,    \* is the popover of the sort open?
  sortShown,   \* state of each SortItem on the page, by its key
  filterTimers,\* views whose debounced updateTableRecords is pending
  viewWrites,  \* updateTableView requests that have not been answered, a bag
  edits,       \* bounded: what the user did, and what remounting sent
  viewExcused  \* history: has an update failed, or gone to a view that was left?

filterVars == <<viewServer, viewCache, viewsChanged, optionsFetch, view, viewOptions, filterForm,
                sortOpen, sortShown, filterTimers, viewWrites, edits, viewExcused>>

LogicalOps == {"and", "or"}
Group(op, conds) == [op |-> op, conds |-> conds]
Leaf(c) == Group("one", <<c>>)
Tree == [op : LogicalOps, kids : Seq([op : LogicalOps \cup {"one"}, conds : Seq(Conditions)])]
Parts == [filters : Tree, sort : Seq(SortKeys)]
SortIds == SortKeys \X Nat
SortEntry == [id : SortIds, key : SortKeys]
ClosedForm == [open |-> FALSE, op |-> "and", kids |-> <<>>, count |-> 1, recounted |-> FALSE]
NoOptionsFetch == [at |-> "no", read |-> <<>>, differs |-> FALSE, late |-> FALSE]

FilterTypeOK ==
  /\ viewServer \in [Views -> Parts] /\ viewCache \in [Views -> Parts]
  /\ viewsChanged \in BOOLEAN /\ optionsFetch.differs \in BOOLEAN /\ optionsFetch.late \in BOOLEAN
  /\ optionsFetch.at \in {"no", "read"}
  /\ (optionsFetch.at = "read" => optionsFetch.read \in [Views -> Parts])
  /\ view \in Views /\ viewOptions \in [filters : Tree, sort : Seq(SortEntry)]
  /\ filterForm.open \in BOOLEAN /\ filterForm.op \in LogicalOps /\ filterForm.count \in Nat \ {0}
  /\ filterTimers \subseteq Views /\ sortOpen \in BOOLEAN /\ viewExcused \in BOOLEAN
  /\ DOMAIN sortShown \subseteq SortIds /\ \A id \in DOMAIN sortShown : sortShown[id] \in SortKeys
  /\ \A w \in DOMAIN viewWrites : w.view \in Views /\ viewWrites[w] > 0
  /\ edits \in 0..MaxEdits

-----------------------------------------------------------------------------
(* initializeFilterGroup: a child's id tells its place, and is none of the *)
(* ids of children added later.                                            *)
InitializedGroup(tree) ==
  [open |-> TRUE, op |-> tree.op,
   kids |-> [i \in DOMAIN tree.kids |-> [id |-> <<"shown", i>>, kid |-> tree.kids[i]]],
   count |-> IF tree.kids = <<>> THEN 1 ELSE Len(tree.kids), recounted |-> FALSE]

(* buildFilterTree of what the page shows: the children of a group are all *)
(* filters of the level below it, those of its siblings included.          *)
Joined(kids) ==
  FlattenSeq([i \in DOMAIN kids |-> IF kids[i].kid.op = "one" THEN <<>> ELSE kids[i].kid.conds])

BuiltTree(form) ==
  [op |-> form.op,
   kids |-> [i \in DOMAIN form.kids |->
               IF form.kids[i].kid.op = "one" THEN form.kids[i].kid
               ELSE Group(form.kids[i].kid.op, Joined(form.kids))]]

(* The effect on initialFilterGroup, at any new reference: the number of   *)
(* its filters becomes the count, and the next filter may get the id of    *)
(* one that is there.                                                      *)
Recount(form, tree) ==
  IF form.open /\ tree.kids # <<>>
  THEN [form EXCEPT !.count = Len(tree.kids), !.recounted = TRUE] ELSE form

Edits == edits < MaxEdits /\ edits' = edits + 1

ViewsKept == UNCHANGED <<viewServer, viewCache, viewsChanged, optionsFetch>>
FormOnly == ViewsKept /\ UNCHANGED <<view, viewOptions, sortOpen, sortShown, viewWrites, viewExcused>>
Edited(form) == Edits /\ filterForm' = form /\ FormOnly

OpenFilter ==
  /\ ~ filterForm.open /\ Edited(InitializedGroup(viewOptions.filters))
  /\ UNCHANGED filterTimers

(* The pending change is read from the page when it is sent: closing the   *)
(* popover first loses it.                                                 *)
CloseFilter ==
  /\ filterForm.open /\ filterForm' = ClosedForm
  /\ FormOnly /\ UNCHANGED <<filterTimers, edits>>

\* Mutant: the count is not advanced.
SameCount(form) == form.count

NextCount(form) == form.count + 1

(* handleAddFilter: what is added is saved with the next change only.      *)
AddKid(id, kid) ==
  /\ filterForm.open /\ Len(filterForm.kids) < MaxChildren
  /\ Edited([filterForm EXCEPT !.kids = Append(@, [id |-> id, kid |-> kid]),
                               !.count = NextCount(filterForm)])
  /\ UNCHANGED filterTimers

AddFilter == \E c \in Conditions : AddKid(<<"filter", filterForm.count>>, Leaf(c))
AddGroup == \E c \in Conditions : AddKid(<<"group", filterForm.count>>, Group("and", <<c>>))

AddToGroup(i) ==
  /\ filterForm.kids[i].kid.op # "one" /\ Len(filterForm.kids[i].kid.conds) < MaxChildren
  /\ \E c \in Conditions :
       Edited([filterForm EXCEPT !.kids[i].kid.conds = Append(@, c)])
  /\ UNCHANGED filterTimers

UpdateTableRecords == filterTimers' = filterTimers \cup {view}

(* handleRemoveChildFilter: by id                                          *)
WithoutKid(id) ==
  [filterForm EXCEPT !.kids = Filtered(@, {i \in DOMAIN @ : @[i].id # id})]

RemoveFilter(i) == Edited(WithoutKid(filterForm.kids[i].id)) /\ UpdateTableRecords

RemoveFromGroup(i) ==
  LET conds == filterForm.kids[i].kid.conds IN
  /\ filterForm.kids[i].kid.op # "one"
  /\ IF Len(conds) <= 1 THEN Edited(WithoutKid(filterForm.kids[i].id))
     ELSE \E j \in DOMAIN conds :
            Edited([filterForm EXCEPT !.kids[i].kid.conds =
                      SubSeq(conds, 1, j - 1) \o SubSeq(conds, j + 1, Len(conds))])
  /\ UpdateTableRecords

ChangeCondition(i) ==
  \E j \in DOMAIN filterForm.kids[i].kid.conds, c \in Conditions :
    Edited([filterForm EXCEPT !.kids[i].kid.conds[j] = c])

(* handleFieldChange: another field is saved with the next change only.    *)
FieldChanges(i) == ChangeCondition(i) /\ UNCHANGED filterTimers

(* handleOperatorChange, handleValueChange                                 *)
ValueChanges(i) == ChangeCondition(i) /\ UpdateTableRecords

(* handleChildLogicalOpChange: shown with the second child                 *)
ChangeLogicalOp ==
  /\ \E op \in LogicalOps :
       \/ Len(filterForm.kids) >= 2 /\ Edited([filterForm EXCEPT !.op = op])
       \/ \E i \in DOMAIN filterForm.kids :
            /\ filterForm.kids[i].kid.op # "one" /\ Len(filterForm.kids[i].kid.conds) >= 2
            /\ Edited([filterForm EXCEPT !.kids[i].kid.op = op])
  /\ UpdateTableRecords

FilterGroupUser ==
  \/ AddFilter \/ AddGroup \/ ChangeLogicalOp
  \/ \E i \in DOMAIN filterForm.kids :
       AddToGroup(i) \/ RemoveFilter(i) \/ RemoveFromGroup(i) \/ FieldChanges(i) \/ ValueChanges(i)

(* The request has filters or a sort; the other part is blank here.        *)
FiltersPart(tree) == [filters |-> tree, sort |-> <<>>]
SortPart(sort) == [filters |-> [op |-> "and", kids |-> <<>>], sort |-> sort]

OptionsWrite(part, v, value) == [part |-> part, view |-> v, value |-> value]
NotFull == Cardinality(DOMAIN viewWrites) < MaxUpdates

(* updateTableRecords, when its time has come: the view is the one of the  *)
(* closure, the form the one on the page.                                  *)
SaveFires(v) ==
  /\ v \in filterTimers /\ filterTimers' = filterTimers \ {v}
  /\ IF filterForm.open
     THEN /\ NotFull
          /\ viewOptions' = [viewOptions EXCEPT !.filters = BuiltTree(filterForm)]
          /\ filterForm' = Recount(filterForm, BuiltTree(filterForm))
          /\ viewWrites' = viewWrites (+)
               SetToBag({OptionsWrite("filters", v, FiltersPart(BuiltTree(filterForm)))})
     ELSE UNCHANGED <<viewOptions, filterForm, viewWrites>>
  /\ viewExcused' = (viewExcused \/ (filterForm.open /\ v # view))
  /\ ViewsKept /\ UNCHANGED <<view, sortOpen, sortShown, edits>>

-----------------------------------------------------------------------------
(* initializeSort: the id of an item, which is its key on the page, tells  *)
(* its field, operator and place; others give it as the item came.         *)
InitializedSort(sort) == [i \in DOMAIN sort |-> [id |-> <<sort[i], i>>, key |-> sort[i]]]
KeysOf(items) == [i \in DOMAIN items |-> items[i].key]

(* A SortItem whose key is on the page already keeps its state; the others *)
(* are mounted, and each of them sends the sort that the page then shows.  *)
IdsOf(items) == {items[i].id : i \in DOMAIN items}
Mounting(items, shown) == IdsOf(items) \ DOMAIN shown
OnPage(items, shown) ==
  [i \in DOMAIN items |-> IF items[i].id \in DOMAIN shown
                          THEN [items[i] EXCEPT !.key = shown[items[i].id]] ELSE items[i]]
ShownBy(items) ==
  [id \in IdsOf(items) |-> items[CHOOSE i \in DOMAIN items : items[i].id = id].key]

SortWrite(items) == OptionsWrite("sort", view, SortPart(KeysOf(items)))
MountsSend(items, shown) ==
  IF Mounting(items, shown) = {} THEN EmptyBag
  ELSE [w \in {SortWrite(OnPage(items, shown))} |-> Cardinality(Mounting(items, shown))]

RendersSort(items, shown, filters) ==
  /\ viewOptions' = [filters |-> filters,
                     sort |-> IF Mounting(items, shown) = {} THEN items ELSE OnPage(items, shown)]
  /\ sortShown' = ShownBy(OnPage(items, shown))

SortOnly == ViewsKept /\ UNCHANGED <<view, filterForm, filterTimers, viewExcused>>

(* updateSort shows the items and sends them.                              *)
UpdateSort(items, shown) ==
  /\ Edits /\ NotFull
  /\ RendersSort(items, shown, viewOptions.filters)
  /\ viewWrites' = (viewWrites (+) SetToBag({SortWrite(items)})) (+) MountsSend(items, shown)
  /\ SortOnly /\ UNCHANGED sortOpen

OpenSort ==
  /\ ~ sortOpen /\ ~ filterForm.open /\ sortOpen' = TRUE
  /\ Edits /\ NotFull
  /\ RendersSort(viewOptions.sort, <<>>, viewOptions.filters)
  /\ viewWrites' = viewWrites (+) MountsSend(viewOptions.sort, <<>>)
  /\ SortOnly

CloseSort ==
  /\ sortOpen /\ sortOpen' = FALSE /\ sortShown' = <<>>
  /\ SortOnly /\ UNCHANGED <<viewOptions, viewWrites, edits>>

(* handleAddSortItem gives every item an id of the first field.            *)
AddSortItem ==
  /\ Len(viewOptions.sort) < MaxChildren
  /\ \E k \in SortKeys :
       LET keys == Append(KeysOf(viewOptions.sort), k)
           first == CHOOSE f \in SortKeys : TRUE
       IN UpdateSort([i \in DOMAIN keys |-> [id |-> <<first, i>>, key |-> keys[i]]], sortShown)

RemoveSortItem(i) ==
  UpdateSort(Filtered(viewOptions.sort, DOMAIN viewOptions.sort \ {i}), sortShown)

(* The effect of a SortItem on its field and operator: updateRecords reads *)
(* the page.                                                               *)
ChangeSortItem(i) ==
  \E k \in SortKeys :
    LET shown == [sortShown EXCEPT ![viewOptions.sort[i].id] = k] IN
    UpdateSort(OnPage(viewOptions.sort, shown), shown)

ReorderSort(i, j) == i # j /\ UpdateSort(Moved(viewOptions.sort, i, j), sortShown)

SortUser ==
  /\ sortOpen
  /\ \/ AddSortItem
     \/ \E i \in DOMAIN viewOptions.sort : RemoveSortItem(i) \/ ChangeSortItem(i)
     \/ \E i, j \in DOMAIN viewOptions.sort : ReorderSort(i, j)

-----------------------------------------------------------------------------
(* What is saved has a new updated_at.                                     *)
Saved(changes) ==
  /\ viewsChanged' = (viewsChanged \/ changes)
  /\ optionsFetch' = [optionsFetch EXCEPT !.late = @ \/ (changes /\ optionsFetch.at = "read")]

Updated(w) ==
  [viewServer EXCEPT ![w.view] = IF w.part = "sort" THEN [@ EXCEPT !.sort = w.value.sort]
                                 ELSE [@ EXCEPT !.filters = w.value.filters]]

(* The server answers the updates in any order, or fails; saved() has      *)
(* already hidden the error.  What is as it was need not be saved.         *)
ViewUpdated(w) ==
  /\ viewWrites' = viewWrites (-) SetToBag({w})
  /\ \/ /\ viewServer' = Updated(w) /\ UNCHANGED viewExcused
        /\ \E changes \in {TRUE, Updated(w) # viewServer} : Saved(changes)
     \/ UNCHANGED <<viewServer, viewsChanged, optionsFetch>> /\ viewExcused' = TRUE
  /\ UNCHANGED <<viewCache, view, viewOptions, filterForm, sortOpen, sortShown, filterTimers, edits>>

(* Another user changes filters or sort of a view, or its name.            *)
OthersWriteView ==
  /\ Edits
  /\ \/ \E v \in Views, c \in Conditions, k \in SortKeys :
          viewServer' \in {[viewServer EXCEPT ![v].filters.kids = <<Leaf(c)>>],
                           [viewServer EXCEPT ![v].sort = <<k>>]}
     \/ UNCHANGED viewServer
  /\ Saved(TRUE)
  /\ UNCHANGED <<viewCache, view, viewOptions, filterForm, sortOpen, sortShown, filterTimers,
                 viewWrites, viewExcused>>

ViewsReadForOptions ==
  /\ optionsFetch.at = "no"
  /\ optionsFetch' = [at |-> "read", read |-> viewServer, differs |-> viewsChanged, late |-> FALSE]
  /\ UNCHANGED <<viewServer, viewCache, viewsChanged, view, viewOptions, filterForm, sortOpen,
                 sortShown, filterTimers, viewWrites, edits, viewExcused>>

\* Mutant: the options follow the values of the view.
OtherValues == optionsFetch.read[view] # viewCache[view]

(* SWR keeps a list that is deeply equal to the cached one.                *)
NewReference == optionsFetch.differs

(* The effects of useViewOptions on view.filters and view.sort             *)
OptionsFollow(new) ==
  LET items == InitializedSort(new.sort) IN
  /\ filterForm' = Recount(filterForm, new.filters)
  /\ IF sortOpen
     THEN /\ RendersSort(items, sortShown, new.filters)
          /\ viewWrites' = viewWrites (+) MountsSend(items, sortShown)
          /\ IF Mounting(items, sortShown) = {} THEN UNCHANGED edits ELSE Edits /\ NotFull
     ELSE /\ viewOptions' = [filters |-> new.filters, sort |-> items]
          /\ UNCHANGED <<sortShown, viewWrites, edits>>

ViewsArriveForOptions ==
  /\ optionsFetch.at = "read" /\ optionsFetch' = NoOptionsFetch
  /\ viewsChanged' = optionsFetch.late
  /\ IF NewReference
     THEN viewCache' = optionsFetch.read /\ OptionsFollow(optionsFetch.read[view])
     ELSE UNCHANGED <<viewCache, viewOptions, filterForm, sortShown, viewWrites, edits>>
  /\ UNCHANGED <<viewServer, view, sortOpen, filterTimers, viewExcused>>

Opened(parts) == [filters |-> parts.filters, sort |-> InitializedSort(parts.sort)]

(* Another view: the popovers close, a pending change does not.            *)
SwitchView(v) ==
  /\ v # view /\ Edits
  /\ view' = v /\ viewOptions' = Opened(viewCache[v])
  /\ filterForm' = ClosedForm /\ sortOpen' = FALSE /\ sortShown' = <<>>
  /\ ViewsKept /\ UNCHANGED <<filterTimers, viewWrites, viewExcused>>

ServersView == [filters : {[op |-> "and", kids |-> kids] :
                            kids \in {<<>>} \cup {<<Leaf(c)>> : c \in Conditions}},
                sort : {<<>>}]

(* Another table is opened, which has other views: nothing of this one is  *)
(* left, so that it is as good as at the end of the visit.                 *)
VisitTable ==
  /\ viewWrites = EmptyBag /\ edits = MaxEdits
  /\ viewServer' \in [Views -> ServersView] /\ viewCache' = viewServer'
  /\ viewsChanged' = FALSE /\ optionsFetch' = NoOptionsFetch
  /\ view' \in Views /\ viewOptions' = Opened(viewServer'[view'])
  /\ filterForm' = ClosedForm /\ sortOpen' = FALSE /\ sortShown' = <<>>
  /\ filterTimers' = {} /\ edits' = 0 /\ viewExcused' = FALSE
  /\ UNCHANGED viewWrites

FilterInit ==
  /\ viewServer \in [Views -> ServersView] /\ viewCache = viewServer
  /\ viewsChanged = FALSE /\ optionsFetch = NoOptionsFetch
  /\ view \in Views /\ viewOptions = Opened(viewServer[view])
  /\ filterForm = ClosedForm /\ sortOpen = FALSE /\ sortShown = <<>>
  /\ filterTimers = {} /\ viewWrites = EmptyBag /\ edits = 0 /\ viewExcused = FALSE

FilterNext ==
  \/ OpenFilter \/ CloseFilter \/ FilterGroupUser
  \/ OpenSort \/ CloseSort \/ SortUser
  \/ \E v \in Views : SaveFires(v) \/ SwitchView(v)
  \/ \E w \in DOMAIN viewWrites : ViewUpdated(w)
  \/ OthersWriteView \/ ViewsReadForOptions \/ ViewsArriveForOptions \/ VisitTable

FilterSpec == FilterInit /\ [][FilterNext]_filterVars

-----------------------------------------------------------------------------
(* The options follow two sources, what the user does and what the cache   *)
(* says.  Once no update is under way and the list of views was fetched    *)
(* since anything was saved, they are the server's, in whatever order the  *)
(* updates were served and the list came, unless an update failed or was   *)
(* sent to the view the user had left.                                     *)
OptionsSettle ==
  viewWrites = EmptyBag /\ ~ viewsChanged /\ ~ viewExcused =>
    /\ viewOptions.filters = viewServer[view].filters
    /\ KeysOf(viewOptions.sort) = viewServer[view].sort

(* Removing a filter removes that one: the ids of the children are unique  *)
(* from the opening of the form until filters that were saved, from here   *)
(* or elsewhere, or the list of views come back and set the count.         *)
RemovesOne ==
  [][filterForm.open /\ filterForm'.open /\ ~ filterForm.recounted
       /\ Len(filterForm'.kids) < Len(filterForm.kids)
     => Len(filterForm'.kids) = Len(filterForm.kids) - 1]_filterVars
=============================================================================
