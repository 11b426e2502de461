----------------------------- MODULE ClientViews ----------------------------
(***************************************************************************)
(* The menu of a table's views in the web client, and the forms that add,  *)
(* edit and delete one.  A click on a view opens it and makes it the       *)
(* table's default; the server keeps the default view from being deleted.  *)
(* The menu has a copy of the cached views that it rearranges itself.  The *)
(* form that edits a view stays where it is when it closes, and is used    *)
(* for the next view.                                                      *)
(*                                                                         *)
(* Beside their list, a view has its data in a cache of its own, under its *)
(* number: an update leaves the edited view in those of the open one until *)
(* they have been fetched.  One switch stands for a view's permission and  *)
(* its lock.                                                               *)
(***************************************************************************)
EXTENDS ClientLists

CONSTANTS
  ViewIds,        \* views the table has or can get
  ViewNames,      \* their names
  MaxViewActions, \* bound: handlers called in one visit of the page
  MaxViewWrites   \* bound: requests under way

ASSUME ViewsAssumption ==
  /\ ViewIds \subseteq Nat \ {0} /\ IsFiniteSet(ViewIds) /\ ViewIds # {}
  /\ IsFiniteSet(ViewNames) /\ Cardinality(ViewNames) >= Cardinality(ViewIds)
  /\ MaxViewActions \in Nat /\ MaxViewWrites \in Nat

VARIABLES
  tableViews,   \* the server's views: order, name and switch
  defaultView,  \* the table's default view, on the server
  viewsCache,   \* data of viewsResponse
  menuViews,    \* state "views" of ViewMenu
  openView,     \* viewId of useCurrentView
  viewData,     \* for a view, the one whose data useTableView has for it
  viewForm,     \* EditView, once it has been opened
  viewsSaving,  \* loading of useSaveStatus
  viewRequests, \* handlers under way, and how far they have come
  viewsFetch,   \* a revalidation: "no", "asked" or "read", and what it read
  viewActions,  \* bounded
  viewFromUrl,  \* history: the open view was neither chosen nor the default
  viewsExcused  \* history: failed or overlapping requests, other users

viewVars == <<tableViews, defaultView, viewsCache, menuViews, openView, viewData, viewForm,
              viewsSaving, viewRequests, viewsFetch, viewActions, viewFromUrl, viewsExcused>>

ListedView == [id : ViewIds, name : ViewNames, on : BOOLEAN]
NoViewsFetch == [at |-> "no", read |-> <<>>]
AnyName == CHOOSE n \in ViewNames : TRUE
NoForm == [open |-> FALSE, id |-> 0, name |-> AnyName, on |-> FALSE,
           was |-> [name |-> AnyName, on |-> FALSE], touched |-> {}, carried |-> FALSE]

ViewsTypeOK ==
  /\ DOMAIN tableViews \subseteq ViewIds
  /\ \A v \in DOMAIN tableViews : /\ tableViews[v].name \in ViewNames
                                  /\ tableViews[v].on \in BOOLEAN /\ tableViews[v].order \in Nat
  /\ \A s \in {viewsCache, menuViews, viewsFetch.read} : s \in Seq(ListedView)
  /\ {defaultView, openView} \subseteq ViewIds /\ viewData \in [ViewIds -> ViewIds]
  /\ viewForm.id \in ViewIds \cup {0} /\ viewForm.touched \subseteq {"name", "on"}
  /\ {viewsSaving, viewFromUrl, viewsExcused} \subseteq BOOLEAN /\ viewActions \in 0..MaxViewActions
  /\ viewsFetch.at \in {"no", "asked", "read"}

(* The server sorts by order; which of two equal ones is first is open.    *)
ServerViews(views) ==
  {s \in SetToSeqs({[id |-> v, name |-> views[v].name, on |-> views[v].on] : v \in DOMAIN views}) :
     \A i, j \in DOMAIN s : i < j => views[s[i].id].order <= views[s[j].id].order}

HasView(views, id) == \E i \in DOMAIN views : views[i].id = id
ViewIdsOf(views) == [i \in DOMAIN views |-> views[i].id]

(* TableContent shows a loader when the open view is not among the views.  *)
MenuShown == HasView(viewsCache, openView)

-----------------------------------------------------------------------------
(* A handler up to its await                                               *)
ViewAsks(op, args) ==
  /\ MenuShown
  /\ viewActions < MaxViewActions /\ viewActions' = viewActions + 1
  /\ Cardinality(viewRequests) < MaxViewWrites
  /\ viewRequests' = viewRequests \cup
       {[op |-> op, args |-> args, answer |-> "none", key |-> 0,
         form |-> IF op = "update" THEN viewForm ELSE NoForm]}
  /\ UNCHANGED <<tableViews, defaultView, viewsCache, viewData, viewsFetch>>

(* handleViewChange: a second request for the default, or one beside the   *)
(* deletion of a view, may be handled before the first; and until the      *)
(* views have been fetched again the menu shows one that was deleted.      *)
ClicksView ==
  /\ ~ viewForm.open
  /\ \E i \in DOMAIN menuViews :
       openView' = menuViews[i].id /\ ViewAsks("default", <<menuViews[i].id>>)
  /\ viewFromUrl' = FALSE
  /\ viewsExcused' =
       (\/ viewsExcused \/ viewsFetch.at # "no"
        \/ \E r \in viewRequests : \/ r.op = "default"
                                   \/ r.op = "delete" /\ r.answer \in {"none", "ok"})
  /\ UNCHANGED <<menuViews, viewForm, viewsSaving>>

(* handleViewsOrderChange                                                  *)
ReordersViews ==
  /\ ~ viewForm.open
  /\ \E i, j \in DOMAIN menuViews :
       /\ i # j /\ menuViews' = Moved(menuViews, i, j)
       /\ ViewAsks("order", ViewIdsOf(menuViews'))
  /\ viewsSaving' = TRUE
  /\ viewsExcused' = (viewsExcused \/ \E r \in viewRequests : r.op = "order")
  /\ UNCHANGED <<openView, viewForm, viewFromUrl>>

(* The number of a new view: none that a view has, or had, that is known.  *)
NewViewId(v) ==
  /\ v \notin DOMAIN tableViews \cup {viewForm.id, openView} /\ viewData[v] = v
  /\ ~ HasView(viewsCache, v) /\ ~ HasView(viewsFetch.read, v)
  /\ \A r \in viewRequests : r.args[1] # v /\ r.key # v

(* handleSubmit of AddView; its name is checked by the server.             *)
AddsView ==
  /\ ~ viewForm.open /\ ~ viewsSaving /\ viewsSaving' = TRUE
  /\ \E v \in ViewIds, n \in ViewNames : NewViewId(v) /\ ViewAsks("create", <<v, n>>)
  /\ UNCHANGED <<menuViews, openView, viewForm, viewFromUrl, viewsExcused>>

\* What another view finds; as a mutant of FormFor, with the name of the old.
FormAsItWas(f, v) == [f EXCEPT !.open = TRUE, !.id = v.id, !.was = [name |-> v.name, on |-> v.on],
                               !.touched = {}, !.carried = TRUE]

(* The effect on view.id: another view gives the form its name, and the    *)
(* switch stays what it was.                                               *)
FormFor(f, v) == [FormAsItWas(f, v) EXCEPT !.name = v.name]

(* handleViewOptions: the first time the form takes all of the view; a     *)
(* view that is opened again finds what was left of it.                    *)
OpensViewForm ==
  /\ MenuShown /\ ~ viewForm.open /\ viewActions < MaxViewActions
  /\ \E i \in DOMAIN menuViews :
       LET v == menuViews[i] IN
       /\ viewForm' = CASE viewForm.id = 0 ->
                             [NoForm EXCEPT !.open = TRUE, !.id = v.id, !.name = v.name, !.on = v.on,
                                            !.was = [name |-> v.name, on |-> v.on]]
                        [] viewForm.id = v.id -> [viewForm EXCEPT !.open = TRUE]
                        [] OTHER -> FormFor(viewForm, v)
       /\ viewsSaving' = (viewsSaving /\ viewForm.id \in {0, v.id})
  /\ UNCHANGED <<tableViews, defaultView, viewsCache, menuViews, openView, viewData,
                 viewRequests, viewsFetch, viewActions, viewFromUrl, viewsExcused>>

(* handleNameChange, and handleChangePermission or handleToggleLocked      *)
ChangesViewForm ==
  /\ viewForm.open /\ viewActions < MaxViewActions /\ viewActions' = viewActions + 1
  /\ \/ \E n \in ViewNames \ {viewForm.name} :
          viewForm' = [viewForm EXCEPT !.name = n, !.touched = @ \cup {"name"}]
     \/ viewForm' = [viewForm EXCEPT !.on = ~ @, !.touched = @ \cup {"on"}]
  /\ UNCHANGED <<tableViews, defaultView, viewsCache, menuViews, openView, viewData, viewsSaving,
                 viewRequests, viewsFetch, viewFromUrl, viewsExcused>>

ClosesViewForm ==
  /\ viewForm.open /\ viewForm' = [viewForm EXCEPT !.open = FALSE]
  /\ UNCHANGED <<tableViews, defaultView, viewsCache, menuViews, openView, viewData, viewsSaving,
                 viewRequests, viewsFetch, viewActions, viewFromUrl, viewsExcused>>

(* handleSubmit and handleDelete of EditView                               *)
UpdatesView ==
  /\ viewForm.open /\ ~ viewsSaving /\ viewsSaving' = TRUE
  /\ ViewAsks("update", <<viewForm.id, viewForm.name, viewForm.on>>)
  /\ UNCHANGED <<menuViews, openView, viewForm, viewFromUrl, viewsExcused>>

DeletesView ==
  /\ viewForm.open /\ ~ viewsSaving /\ viewsSaving' = TRUE
  /\ ViewAsks("delete", <<viewForm.id>>)
  /\ viewsExcused' = (viewsExcused \/ \E r \in viewRequests : r.op = "default")
  /\ UNCHANGED <<menuViews, openView, viewForm, viewFromUrl>>

EditView == ChangesViewForm \/ ClosesViewForm \/ UpdatesView \/ DeletesView

-----------------------------------------------------------------------------
(* TableViewsController and update_default_view, which takes any id        *)
NameIsTaken(n, v) == \E u \in DOMAIN tableViews \ {v} : tableViews[u].name = n

\* Mutant: the default view is deleted like any other.
AnyView(v) == TRUE

MayDelete(v) == v # defaultView

ViewServed(r) ==
  LET v == r.args[1]  there == DOMAIN tableViews IN
  \/ r.op = "default" /\ defaultView' = v /\ UNCHANGED tableViews
  \/ /\ r.op = "create" /\ ~ NameIsTaken(r.args[2], v) /\ UNCHANGED defaultView
     /\ tableViews' = [u \in there \cup {v} |-> IF u \in there THEN tableViews[u] ELSE
                         [order |-> Cardinality(there), name |-> r.args[2], on |-> FALSE]]
  \/ /\ r.op = "update" /\ v \in there /\ ~ NameIsTaken(r.args[2], v) /\ UNCHANGED defaultView
     /\ tableViews' = [tableViews EXCEPT ![v].name = r.args[2], ![v].on = r.args[3]]
  \/ /\ r.op = "delete" /\ v \in there /\ MayDelete(v) /\ UNCHANGED defaultView
     /\ \E s \in ServerViews([u \in there \ {v} |-> tableViews[u]]) :
          tableViews' = [u \in there \ {v} |-> [tableViews[u] EXCEPT
                           !.order = (CHOOSE i \in DOMAIN s : s[i].id = u) - 1]]
  \/ /\ r.op = "order" /\ (\A i \in DOMAIN r.args : r.args[i] \in there) /\ UNCHANGED defaultView
     /\ tableViews' = [u \in there |->
          IF \E i \in DOMAIN r.args : r.args[i] = u
          THEN [tableViews[u] EXCEPT !.order = (CHOOSE i \in DOMAIN r.args : r.args[i] = u) - 1]
          ELSE tableViews[u]]

(* What the server does not do, and what it does without the answer coming *)
(* back, are errors to the client; it goes on offering a view of which it  *)
(* does not know that it was deleted.                                      *)
ViewHandled(r) ==
  LET Answered(a) == viewRequests' = (viewRequests \ {r}) \cup
                                       {[r EXCEPT !.answer = a, !.form = NoForm]} IN
  /\ r.answer = "none"
  /\ \/ ViewServed(r) /\ Answered("ok") /\ UNCHANGED viewsExcused
     \/ UNCHANGED <<tableViews, defaultView, viewsExcused>> /\ Answered("error")
     \/ ViewServed(r) /\ Answered("error") /\ viewsExcused' = (viewsExcused \/ r.op = "delete")
  /\ UNCHANGED <<viewsCache, menuViews, openView, viewData, viewForm, viewsSaving, viewsFetch,
                 viewActions, viewFromUrl>>

(* A fetch of the views has ended, or a newer one has taken its place.     *)
FetchEnds(rs) == {IF r.answer = "views" THEN [r EXCEPT !.answer = "fetched"] ELSE r : r \in rs}

(* The answer to a request.  After that of a form the form closes and the  *)
(* views are asked for.  What failed is shown, or logged, and nothing is   *)
(* put back; an error without a response fails again before it ends the    *)
(* saving.                                                                 *)
ViewAnswered(r) ==
  LET form == r.op \in {"create", "update", "delete"} IN
  /\ r.answer \in {"ok", "error"}
  /\ IF form /\ r.answer = "ok"
     THEN /\ viewRequests' = FetchEnds(viewRequests \ {r}) \cup {[r EXCEPT !.answer = "views"]}
          /\ viewsFetch' = [at |-> "asked", read |-> <<>>]
          /\ viewForm' = [viewForm EXCEPT !.open = FALSE]
          /\ UNCHANGED viewsSaving
     ELSE /\ viewRequests' = viewRequests \ {r}
          /\ viewsSaving' \in CASE r.op = "default" -> {viewsSaving}
                                [] form -> {FALSE, viewsSaving}
                                [] OTHER -> {FALSE}
          /\ UNCHANGED <<viewsFetch, viewForm>>
  /\ viewsExcused' = (viewsExcused \/ (r.answer = "error" /\ r.op \in {"default", "order"}))
  /\ UNCHANGED <<tableViews, defaultView, viewsCache, menuViews, openView, viewData, viewActions,
                 viewFromUrl>>

(* The data of a view are asked for anew: an older fetch is passed over.   *)
FetchReplaced(rs, k) ==
  {IF r.answer = "view" /\ r.key = k THEN [r EXCEPT !.answer = "done"] ELSE r : r \in rs}

(* The views have come, or another fetch of them was begun.  AddView is    *)
(* done.  EditView has the data of the open view fetched, with those it    *)
(* sent in their place until then; where the open view is not listed any   *)
(* more nothing fetches, or shows, them.                                   *)
ViewsFetched(r) ==
  LET others == viewRequests \ {r} IN
  /\ r.answer = "fetched"
  /\ IF r.op \in {"update", "delete"} /\ MenuShown
     THEN /\ viewRequests' = FetchReplaced(others, openView) \cup
                              {[r EXCEPT !.answer = "view", !.key = openView]}
          /\ viewData' = IF r.op = "update" THEN [viewData EXCEPT ![openView] = r.args[1]] ELSE viewData
          /\ UNCHANGED viewsSaving
     ELSE viewRequests' = others /\ viewsSaving' = FALSE /\ UNCHANGED viewData
  /\ UNCHANGED <<tableViews, defaultView, viewsCache, menuViews, openView, viewForm, viewsFetch,
                 viewActions, viewFromUrl, viewsExcused>>

(* The answer to getTableView, which may fail                              *)
ViewDataArrive(r) ==
  /\ r.answer \in {"view", "done"} /\ viewRequests' = viewRequests \ {r} /\ viewsSaving' = FALSE
  /\ \/ r.answer = "done" /\ UNCHANGED <<viewData, viewsExcused>>
     \/ /\ r.answer = "view" /\ r.key \in DOMAIN tableViews /\ UNCHANGED viewsExcused
        /\ viewData' = [viewData EXCEPT ![r.key] = r.key]
     \/ /\ r.answer = "view" /\ UNCHANGED viewData
        /\ viewsExcused' = (viewsExcused \/ viewData[r.key] # r.key)
  /\ UNCHANGED <<tableViews, defaultView, viewsCache, menuViews, openView, viewForm, viewsFetch,
                 viewActions, viewFromUrl>>

(* The effect of ViewMenu runs also for new data of the table, such as     *)
(* another default view: the menu goes back to the cached order.           *)
TableRefreshed ==
  /\ menuViews' = viewsCache
  /\ UNCHANGED <<tableViews, defaultView, viewsCache, openView, viewData, viewForm, viewsSaving,
                 viewRequests, viewsFetch, viewActions, viewFromUrl, viewsExcused>>

ViewsAsked ==
  /\ viewsFetch.at = "no" /\ viewActions < MaxViewActions
  /\ viewsFetch' = [at |-> "asked", read |-> <<>>]
  /\ UNCHANGED <<tableViews, defaultView, viewsCache, menuViews, openView, viewData, viewForm,
                 viewsSaving, viewRequests, viewActions, viewFromUrl, viewsExcused>>

ViewsRead ==
  /\ viewsFetch.at = "asked"
  /\ \E s \in ServerViews(tableViews) : viewsFetch' = [at |-> "read", read |-> s]
  /\ UNCHANGED <<tableViews, defaultView, viewsCache, menuViews, openView, viewData, viewForm,
                 viewsSaving, viewRequests, viewActions, viewFromUrl, viewsExcused>>

\* Mutant: the menu takes new views over only when it is mounted.
MenuKept(views) == menuViews

(* The effect on initialViews                                              *)
MenuWith(views) == IF views = viewsCache THEN menuViews ELSE views

ViewsArrive ==
  /\ viewsFetch.at = "read" /\ viewsFetch' = NoViewsFetch /\ viewRequests' = FetchEnds(viewRequests)
  /\ \/ /\ viewsCache' = viewsFetch.read /\ menuViews' = MenuWith(viewsFetch.read)
        /\ viewForm' = IF HasView(viewsFetch.read, openView) THEN viewForm ELSE NoForm
        /\ UNCHANGED viewsExcused
     \/ UNCHANGED <<viewsCache, menuViews, viewForm>> /\ viewsExcused' = TRUE
  /\ UNCHANGED <<tableViews, defaultView, openView, viewData, viewsSaving, viewActions, viewFromUrl>>

(* Another user of the table                                               *)
OthersChangeViews ==
  /\ viewActions < MaxViewActions /\ viewActions' = viewActions + 1
  /\ \/ \E v \in DOMAIN tableViews : defaultView' = v /\ UNCHANGED tableViews
     \/ /\ UNCHANGED defaultView
        /\ \E v \in DOMAIN tableViews :
             tableViews' \in {[tableViews EXCEPT ![v].on = ~ @],
                              [u \in DOMAIN tableViews |-> [tableViews[u] EXCEPT !.order =
                                 IF u = v THEN 0 ELSE @ + 1]]}
  /\ viewsExcused' = TRUE
  /\ UNCHANGED <<viewsCache, menuViews, openView, viewData, viewForm, viewsSaving, viewRequests,
                 viewsFetch, viewFromUrl>>

(* Another table, with its default view, the one its address names, or the *)
(* one that was the default when the tables were fetched                   *)
VisitViews ==
  /\ viewRequests = {} /\ viewActions = MaxViewActions
  /\ \E there \in SUBSET ViewIds \ {{}} : \E on \in there :
       LET names == CHOOSE f \in [there -> ViewNames] : IsInjective(f) IN
       /\ tableViews' = [v \in there |-> [order |-> Cardinality({u \in there : u < v}),
                                          name |-> names[v], on |-> v = on]]
       /\ defaultView' \in there
  /\ viewsCache' \in ServerViews(tableViews') /\ menuViews' = viewsCache'
  /\ openView' \in ViewIds /\ viewFromUrl' = (openView' # defaultView')
  /\ viewData' = [v \in ViewIds |-> v] /\ viewForm' = NoForm
  /\ viewsSaving' = FALSE /\ viewsFetch' = NoViewsFetch
  /\ viewActions' = 0 /\ viewsExcused' = FALSE
  /\ UNCHANGED viewRequests

ViewsInit ==
  /\ \E v \in ViewIds : tableViews = [u \in {v} |-> [order |-> 0, name |-> AnyName, on |-> FALSE]]
                        /\ defaultView = v
  /\ viewsCache \in ServerViews(tableViews) /\ menuViews = viewsCache
  /\ openView \in ViewIds /\ viewFromUrl = (openView # defaultView)
  /\ viewData = [v \in ViewIds |-> v] /\ viewForm = NoForm
  /\ viewsSaving = FALSE /\ viewRequests = {} /\ viewsFetch = NoViewsFetch
  /\ viewActions = 0 /\ viewsExcused = FALSE

ViewMenu ==
  \/ ClicksView \/ ReordersViews \/ OpensViewForm
  \/ TableRefreshed

ViewsNext ==
  \/ ViewMenu \/ AddsView \/ EditView
  \/ \E r \in viewRequests : \/ ViewHandled(r) \/ ViewAnswered(r)
                              \/ ViewsFetched(r) \/ ViewDataArrive(r)
  \/ ViewsAsked \/ ViewsRead \/ ViewsArrive
  \/ OthersChangeViews \/ VisitViews

ViewsSpec == ViewsInit /\ [][ViewsNext]_viewVars

-----------------------------------------------------------------------------
(* With fresh views and nothing under way the menu shows them, and the     *)
(* data kept for the open view are its own, unless an order or a fetch     *)
(* failed, the views were rearranged again before the answer, or another   *)
(* user changed them.                                                      *)
MenuSettles ==
  (/\ viewRequests = {} /\ viewsFetch.at = "no" /\ ~ viewsExcused
   /\ viewsCache \in ServerViews(tableViews)) =>
    menuViews = viewsCache /\ (MenuShown => viewData[openView] = openView)

(* A view that was chosen from the menu, or was the default, exists as     *)
(* long as it is open: the default is not deleted.  Excused are a default  *)
(* that was not saved, overtook another or a deletion, or was chosen from  *)
(* a menu that was being fetched or had not learnt of a deletion, and      *)
(* other users.  A view that an address names can be deleted while open.   *)
OpenViewLives == viewsExcused \/ viewFromUrl \/ openView \in DOMAIN tableViews

(* An update changes of a view what the user changed in the form.  It may  *)
(* also undo what changed since the form first had the view, and gives it  *)
(* the permission and the lock of the view the form was first opened for.  *)
UpdatesWhatChanged ==
  [][\A r \in viewRequests :
       r.op = "update" /\ r.answer = "none" /\ r \notin viewRequests' =>
         LET v == r.args[1] IN
         v \in DOMAIN tableViews =>
           /\ tableViews'[v].name # tableViews[v].name =>
                "name" \in r.form.touched \/ r.form.was.name # tableViews[v].name
           /\ tableViews'[v].on # tableViews[v].on =>
                "on" \in r.form.touched \/ r.form.was.on # tableViews[v].on \/ r.form.carried]_viewVars
=============================================================================
