---------------------------- MODULE ClientTables ----------------------------
(***************************************************************************)
(* The tables of a base in the web client: the tabs above the grid, and    *)
(* the list of the base's settings.  The tabs are kept three times, in the *)
(* cache, as the visible tables of useCurrentView and in the bar that can  *)
(* be rearranged; the settings copy the cache once.  Handlers show what    *)
(* they expect and send it; those of the tabs put nothing back after an    *)
(* error, those of the settings put back the list they found.              *)
(*                                                                         *)
(* The alias of a table stands for what is shown of it.                    *)
(***************************************************************************)
EXTENDS ClientLists

CONSTANTS
  TableIds,        \* tables of the base
  MaxTableActions, \* bound: handlers called in one visit of a page
  MaxTableWrites   \* bound: requests under way

ASSUME TablesAssumption ==
  /\ TableIds \subseteq Nat \ {0} /\ IsFiniteSet(TableIds) /\ TableIds # {}
  /\ MaxTableActions \in Nat /\ MaxTableWrites \in Nat

VARIABLES
  baseTables,    \* the server's tables: order, hidden and alias
  tablesPage,    \* the page that is open: "tabs" or "settings"
  tablesCache,   \* data of tablesResponse, while the tabs are open
  tabs,          \* state "tables" of useCurrentView
  tabBar,        \* state "tables" of BaseTableTabs
  openTable,     \* tableId
  tabMenu,       \* the table whose menu is open, 0 if none
  settingsTables,\* state "tables" of BaseTablesSettings
  settingsLoading,
  renaming,      \* its debounced renameTableAlias: the call that is pending, and its list
  tableWrites,   \* requests that have not been answered
  tablesFetch,   \* a revalidation: "no", "asked" or "read", and what it read
  tableActions,  \* bounded
  tableExcused,  \* history: has the page a reason to differ from the server?
  racedVisible   \* history: were two tables checked to be the last at once?

tableVars == <<baseTables, tablesPage, tablesCache, tabs, tabBar, openTable, tabMenu,
               settingsTables, settingsLoading, renaming, tableWrites, tablesFetch,
               tableActions, tableExcused, racedVisible>>

ShownTable == [id : TableIds, hidden : BOOLEAN, alias : 0..1]
StoredTable == [order : Nat, hidden : BOOLEAN, alias : 0..1]
NoTablesFetch == [at |-> "no", read |-> <<>>]
NoRename == [id |-> 0, alias |-> 0, list |-> <<>>]

TablesTypeOK ==
  /\ DOMAIN baseTables \subseteq TableIds
  /\ \A t \in DOMAIN baseTables : baseTables[t] \in StoredTable
  /\ tablesPage \in {"tabs", "settings"}
  /\ \A s \in {tablesCache, tabs, tabBar, settingsTables, renaming.list, tablesFetch.read} : s \in Seq(ShownTable)
  /\ {openTable, tabMenu, renaming.id} \subseteq TableIds \cup {0}
  /\ {settingsLoading, tableExcused, racedVisible} \subseteq BOOLEAN
  /\ tablesFetch.at \in {"no", "asked", "read"} /\ tableActions \in 0..MaxTableActions
  /\ \A w \in tableWrites : /\ w.from \in {"tabs", "settings", "others"}
                            /\ w.at \in {"sent", "checked", "ok", "error"}

(* The server sorts by order; which of two equal ones is first is open.    *)
ServerTables(tables) ==
  {s \in SetToSeqs({[id |-> t, hidden |-> tables[t].hidden, alias |-> tables[t].alias] :
                      t \in DOMAIN tables}) :
     \A i, j \in DOMAIN s : i < j => tables[s[i].id].order <= tables[s[j].id].order}

VisibleTables(tables) == Filtered(tables, {i \in DOMAIN tables : ~ tables[i].hidden})
TableIdsOf(tables) == [i \in DOMAIN tables |-> tables[i].id]
HasTable(tables, id) == \E i \in DOMAIN tables : tables[i].id = id
WithoutTable(tables, id) == Filtered(tables, {i \in DOMAIN tables : tables[i].id # id})
Aliased(tables, id, alias) ==
  [i \in DOMAIN tables |-> IF tables[i].id = id THEN [tables[i] EXCEPT !.alias = alias] ELSE tables[i]]

-----------------------------------------------------------------------------
(* A handler up to its await.  after is what the tabs hand to mutate, or   *)
(* the list the settings put back; alone, whether nothing else has been    *)
(* under way with it.                                                      *)
Accompanied(w) == [w EXCEPT !.alone = FALSE]

TableAsks(op, args, after, from) ==
  /\ tableActions < MaxTableActions /\ tableActions' = tableActions + 1
  /\ Cardinality(tableWrites) < MaxTableWrites
  /\ tableWrites' = {Accompanied(w) : w \in tableWrites} \cup
       {[op |-> op, args |-> args, after |-> after, from |-> from, at |-> "sent",
         alone |-> tableWrites = {} /\ tablesFetch.at = "no" /\ renaming = NoRename]}
  /\ UNCHANGED <<baseTables, tablesPage, tablesCache, tablesFetch, racedVisible>>

TabsOnly == UNCHANGED <<settingsTables, settingsLoading, renaming>>
SettingsOnly == UNCHANGED <<tabs, tabBar, openTable, tabMenu>>

(* setTables of useCurrentView, whose new array resets the bar             *)
SetTabs(tables) == tabs' = tables /\ tabBar' = tables

(* handleTableChange, of a tab, its list on phones or the search           *)
ChangesTable ==
  /\ tabMenu = 0
  /\ \E i \in DOMAIN tabBar : openTable' = tabBar[i].id
  /\ UNCHANGED <<baseTables, tablesPage, tablesCache, tabs, tabBar, tabMenu, tableWrites,
                 tablesFetch, tableActions, tableExcused, racedVisible>>
  /\ TabsOnly

OpensTabMenu ==
  /\ tabMenu = 0 /\ tableActions < MaxTableActions
  /\ \E i \in DOMAIN tabBar : tabMenu' = tabBar[i].id
  /\ UNCHANGED <<baseTables, tablesPage, tablesCache, tabs, tabBar, openTable, tableWrites,
                 tablesFetch, tableActions, tableExcused, racedVisible>>
  /\ TabsOnly

(* handleOpenChange: an alias that was changed is saved with the closing.  *)
LeavesTabMenu ==
  /\ tabMenu # 0 /\ tabMenu' = 0
  /\ \/ UNCHANGED <<baseTables, tablesPage, tablesCache, tabs, tabBar, tableWrites,
                    tablesFetch, tableActions, tableExcused, racedVisible>>
     \/ \E i \in DOMAIN tabBar :
          /\ tabBar[i].id = tabMenu
          /\ LET alias == 1 - tabBar[i].alias
                 after == Aliased(tabs, tabMenu, alias) IN
             TableAsks("alias", <<tabMenu, alias>>, after, "tabs") /\ SetTabs(after)
          /\ UNCHANGED tableExcused
  /\ UNCHANGED openTable /\ TabsOnly

(* handleHideTable, confirmDropTable: the open table is left first.        *)
HidesOrDropsTable ==
  LET after == WithoutTable(tabs, tabMenu) IN
  /\ tabMenu # 0 /\ tabMenu' = 0
  /\ Len(tabs) > 1
  /\ openTable' = IF openTable = tabMenu THEN after[1].id ELSE openTable
  /\ \E op \in {"hide", "drop"} : TableAsks(op, <<tabMenu>>, after, "tabs")
  /\ SetTabs(after) /\ UNCHANGED tableExcused /\ TabsOnly

(* handleReindex; what it changes on the server is in RecordIndexing.      *)
ReindexesTable ==
  /\ tabMenu # 0 /\ tabMenu' = 0
  /\ TableAsks("reindex", <<tabMenu>>, <<>>, "tabs")
  /\ UNCHANGED <<tabs, tabBar, openTable, tableExcused>> /\ TabsOnly

TableTabItemMenu == LeavesTabMenu \/ HidesOrDropsTable \/ ReindexesTable

(* handleReorderViews of useTableTabsReorder: only the bar knows, and      *)
(* nobody waits for the answer.                                            *)
ReordersTabs ==
  /\ tabMenu = 0
  /\ \E i, j \in DOMAIN tabBar :
       /\ i # j /\ tabBar' = Moved(tabBar, i, j)
       /\ TableAsks("order", TableIdsOf(tabBar'), <<>>, "tabs")
  /\ tableExcused' = (tableExcused \/ tableWrites # {} \/ tablesFetch.at # "no")
  /\ UNCHANGED <<tabs, openTable, tabMenu>> /\ TabsOnly

-----------------------------------------------------------------------------
(* The settings.  renameTableAlias waits half a second after the last key, *)
(* of whatever row; the list it would put back is the one of that key, and *)
(* has the new alias, too.                                                 *)
RenamesTable ==
  /\ tableActions < MaxTableActions /\ tableActions' = tableActions + 1
  /\ \E i \in DOMAIN settingsTables :
       LET t == settingsTables[i]  alias == 1 - t.alias IN
       /\ settingsTables' = Aliased(settingsTables, t.id, alias)
       /\ renaming' = [id |-> t.id, alias |-> alias, list |-> settingsTables']
       /\ tableExcused' = (tableExcused \/ renaming.id \notin {0, t.id})
  /\ tableWrites' = {Accompanied(w) : w \in tableWrites}
  /\ UNCHANGED <<baseTables, tablesPage, tablesCache, settingsLoading, tablesFetch, racedVisible>>
  /\ SettingsOnly

RenameFires ==
  /\ renaming # NoRename /\ renaming' = NoRename
  /\ Cardinality(tableWrites) < MaxTableWrites
  /\ tableWrites' = {Accompanied(w) : w \in tableWrites} \cup
       {[op |-> "alias", args |-> <<renaming.id, renaming.alias>>, after |-> renaming.list,
         from |-> "settings", at |-> "sent", alone |-> FALSE]}
  /\ tableExcused' = (tableExcused \/ \E w \in tableWrites : w.op = "alias")
  /\ UNCHANGED <<baseTables, tablesPage, tablesCache, settingsTables, settingsLoading,
                 tablesFetch, tableActions, racedVisible>>
  /\ SettingsOnly

(* handleToggleVisibility                                                  *)
TogglesTable ==
  /\ ~ settingsLoading /\ settingsLoading' = TRUE
  /\ \E i \in DOMAIN settingsTables :
       LET t == settingsTables[i] IN
       /\ ~ t.hidden => Len(VisibleTables(settingsTables)) > 1
       /\ settingsTables' = [settingsTables EXCEPT ![i].hidden = ~ t.hidden]
       /\ TableAsks(IF t.hidden THEN "unhide" ELSE "hide", <<t.id>>, settingsTables, "settings")
       /\ tableExcused' = (tableExcused \/ \E w \in tableWrites : w.op # "alias" /\ w.args[1] = t.id)
  /\ UNCHANGED renaming /\ SettingsOnly

(* handleTablesOrderChange does not look at loading.                       *)
ReordersSettings ==
  /\ settingsLoading' = TRUE
  /\ \E i, j \in DOMAIN settingsTables :
       /\ i # j /\ settingsTables' = Moved(settingsTables, i, j)
       /\ TableAsks("order", TableIdsOf(settingsTables'), settingsTables, "settings")
  /\ tableExcused' = (tableExcused \/ \E w \in tableWrites : w.op = "order")
  /\ UNCHANGED renaming /\ SettingsOnly

BaseTablesSettings == RenamesTable \/ RenameFires \/ TogglesTable \/ ReordersSettings

-----------------------------------------------------------------------------
(* The server.  Hiding and dropping look for another visible table first,  *)
(* and act then.                                                           *)
TableAnswers(w, at) == tableWrites' = (tableWrites \ {w}) \cup {[w EXCEPT !.at = at]}

\* Mutant: the table itself is counted, too.
AnyVisible(id) == \E t \in DOMAIN baseTables : ~ baseTables[t].hidden

OthersVisible(id) == \E t \in DOMAIN baseTables \ {id} : ~ baseTables[t].hidden

TableChecked(w) ==
  /\ w.op \in {"hide", "drop"} /\ w.at = "sent"
  /\ w.args[1] \in DOMAIN baseTables /\ OthersVisible(w.args[1])
  /\ TableAnswers(w, "checked")
  /\ racedVisible' = (racedVisible \/ \E u \in tableWrites : u.at = "checked")
  /\ UNCHANGED <<baseTables, tableExcused>>

(* What a request does                                                     *)
TableActs(w) ==
  LET id == w.args[1] IN
  \/ /\ w.op \in {"hide", "drop"} /\ w.at = "checked" /\ id \in DOMAIN baseTables
     /\ baseTables' = IF w.op = "hide" THEN [baseTables EXCEPT ![id].hidden = TRUE]
                      ELSE [t \in DOMAIN baseTables \ {id} |-> baseTables[t]]
  \/ /\ w.op = "unhide" /\ w.at = "sent" /\ id \in DOMAIN baseTables
     /\ baseTables' = [baseTables EXCEPT ![id].hidden = FALSE]
  \/ /\ w.op = "alias" /\ w.at = "sent" /\ id \in DOMAIN baseTables
     /\ baseTables' = [baseTables EXCEPT ![id].alias = w.args[2]]
  \/ /\ w.op = "order" /\ w.at = "sent" /\ \A i \in DOMAIN w.args : w.args[i] \in DOMAIN baseTables
     /\ baseTables' = [t \in DOMAIN baseTables |->
          IF \E i \in DOMAIN w.args : w.args[i] = t
          THEN [baseTables[t] EXCEPT !.order = (CHOOSE i \in DOMAIN w.args : w.args[i] = t) - 1]
          ELSE baseTables[t]]
  \/ w.op = "reindex" /\ w.at = "sent" /\ UNCHANGED baseTables

TableServed(w) ==
  TableActs(w) /\ TableAnswers(w, "ok") /\ UNCHANGED <<racedVisible, tableExcused>>

(* The request is done, and its answer is lost on the way.                 *)
TableLost(w) ==
  TableActs(w) /\ TableAnswers(w, "error") /\ tableExcused' = TRUE /\ UNCHANGED racedVisible

TableRefused(w) ==
  /\ w.at \in {"sent", "checked"} /\ TableAnswers(w, "error")
  /\ UNCHANGED <<baseTables, racedVisible, tableExcused>>

TableHandled(w) ==
  /\ TableChecked(w) \/ TableServed(w) \/ TableLost(w) \/ TableRefused(w)
  /\ UNCHANGED <<tablesPage, tablesCache, tablesFetch, tableActions>>
  /\ TabsOnly /\ SettingsOnly

\* Mutant: the tabs show hidden tables, too.
AllTables(tables) == tables

TabsOf(tables) == VisibleTables(tables)

(* New data: the effect of useCurrentView sets the tabs, and opens the     *)
(* first table if the open one is not among them, hidden or not.           *)
TablesBecome(tables) ==
  /\ tablesCache' = tables
  /\ IF tables = tablesCache THEN UNCHANGED <<tabs, tabBar, openTable>>
     ELSE /\ SetTabs(TabsOf(tables))
          /\ openTable' = IF tables # <<>> /\ ~ HasTable(tables, openTable)
                          THEN tables[1].id ELSE openTable

(* The rest of a handler of the tabs: mutateTables(updatedTables) shows    *)
(* the visible tables until those of the server come; the order is not     *)
(* waited for.                                                             *)
TabsAnswered(w) ==
  /\ w.from = "tabs" /\ w.at \in {"ok", "error"}
  /\ tableWrites' = {Accompanied(u) : u \in tableWrites \ {w}}
  /\ IF w.at = "ok" /\ w.op # "order"
     THEN /\ tablesFetch' = [at |-> "asked", read |-> <<>>]
          /\ IF w.op = "reindex" THEN UNCHANGED <<tablesCache, tabs, tabBar, openTable>>
             ELSE TablesBecome(w.after)
     ELSE UNCHANGED <<tablesFetch, tablesCache, tabs, tabBar, openTable>>
  /\ tableExcused' = (tableExcused \/ w.at = "error" \/ (w.op = "order" /\ ~ w.alone))
  /\ UNCHANGED <<baseTables, tablesPage, tabMenu, tableActions, racedVisible>> /\ TabsOnly

\* Mutant: the list is not put back.
NotPutBack(w) == settingsTables

PutBack(w) == w.after

(* The rest of a handler of the settings; without a response the handler   *)
(* of the error fails before it ends the loading.                          *)
SettingsAnswered(w) ==
  /\ w.from = "settings" /\ w.at \in {"ok", "error"}
  /\ tableWrites' = tableWrites \ {w}
  /\ settingsTables' = IF w.at = "error" THEN PutBack(w) ELSE settingsTables
  /\ settingsLoading' \in CASE w.op = "alias" -> {settingsLoading}
                            [] w.at = "ok" -> {FALSE}
                            [] OTHER -> {FALSE, settingsLoading}
  /\ tableExcused' = (tableExcused \/ (w.at = "error" /\ ~ w.alone))
  /\ UNCHANGED <<baseTables, tablesPage, tablesCache, renaming, tablesFetch, tableActions,
                 racedVisible>>
  /\ SettingsOnly

(* Another user's request, whose answer does not come here                 *)
OthersHideTable ==
  /\ tableActions < MaxTableActions /\ Cardinality(tableWrites) < MaxTableWrites
  /\ tableActions' = tableActions + 1
  /\ \E t \in DOMAIN baseTables : \E op \in {"hide", "unhide"} :
       tableWrites' = tableWrites \cup
         {[op |-> op, args |-> <<t>>, after |-> <<>>, from |-> "others", at |-> "sent", alone |-> FALSE]}
  /\ tableExcused' = TRUE
  /\ UNCHANGED <<baseTables, tablesPage, tablesCache, tablesFetch, racedVisible>>
  /\ TabsOnly /\ SettingsOnly

OthersAnswered(w) ==
  /\ w.from = "others" /\ w.at \in {"ok", "error"}
  /\ tableWrites' = tableWrites \ {w}
  /\ UNCHANGED <<baseTables, tablesPage, tablesCache, tablesFetch, tableActions, tableExcused,
                 racedVisible>>
  /\ TabsOnly /\ SettingsOnly

-----------------------------------------------------------------------------
(* SWR asks by itself, and the listeners of migrations do.                 *)
TablesAsked ==
  /\ tablesFetch.at = "no" /\ tableActions < MaxTableActions
  /\ tablesFetch' = [at |-> "asked", read |-> <<>>]
  /\ tableWrites' = {Accompanied(w) : w \in tableWrites}
  /\ UNCHANGED <<baseTables, tablesPage, tablesCache, tableActions, tableExcused, racedVisible>>
  /\ TabsOnly /\ SettingsOnly

TablesRead ==
  /\ tablesFetch.at = "asked"
  /\ \E s \in ServerTables(baseTables) : tablesFetch' = [at |-> "read", read |-> s]
  /\ UNCHANGED <<baseTables, tablesPage, tablesCache, tableWrites, tableActions, tableExcused,
                 racedVisible>>
  /\ TabsOnly /\ SettingsOnly

TablesArrive ==
  /\ tablesFetch.at = "read" /\ tablesFetch' = NoTablesFetch
  /\ \/ TablesBecome(tablesFetch.read) /\ UNCHANGED tableExcused
     \/ UNCHANGED <<tablesCache, tabs, tabBar, openTable>> /\ tableExcused' = TRUE
  /\ UNCHANGED <<baseTables, tablesPage, tabMenu, tableWrites, tableActions, racedVisible>>
  /\ TabsOnly

TabsPage(list) ==
  /\ tablesPage' = "tabs" /\ tablesCache' = list
  /\ tabs' = VisibleTables(list) /\ tabBar' = tabs'
  /\ openTable' = list[1].id
  /\ settingsTables' = <<>>

SettingsPage(list) ==
  /\ tablesPage' = "settings" /\ tablesCache' = <<>>
  /\ tabs' = <<>> /\ tabBar' = <<>> /\ openTable' = 0
  /\ settingsTables' = list

(* The settings, from the tabs: their list is the cache of that moment,    *)
(* which need not be the server's.  What is asked anew sets the cache only.*)
(* Bound: the requests of the tabs have been answered.                     *)
OpensSettings ==
  /\ tablesPage = "tabs" /\ tableWrites = {} /\ tablesCache # <<>>
  /\ SettingsPage(tablesCache)
  /\ tabMenu' = 0 /\ settingsLoading' = FALSE /\ renaming' = NoRename
  /\ tablesFetch' = NoTablesFetch
  /\ tableExcused' = (tablesCache \notin ServerTables(baseTables))
  /\ UNCHANGED <<baseTables, tableWrites, tableActions, racedVisible>>

(* A page is loaded, with tables the server has.                           *)
VisitTables ==
  /\ tableWrites = {} /\ tableActions = MaxTableActions
  /\ \E there \in SUBSET TableIds, hid \in SUBSET TableIds :
       /\ hid \subseteq there /\ hid # there
       /\ baseTables' = [t \in there |-> [order |-> Cardinality({u \in there : u < t}),
                                          hidden |-> t \in hid, alias |-> 0]]
  /\ \E list \in ServerTables(baseTables') : TabsPage(list) \/ SettingsPage(list)
  /\ tabMenu' = 0 /\ settingsLoading' = FALSE /\ renaming' = NoRename
  /\ tablesFetch' = NoTablesFetch /\ tableActions' = 0
  /\ tableExcused' = FALSE /\ racedVisible' = FALSE
  /\ UNCHANGED tableWrites

TablesInit ==
  /\ \E t \in TableIds : baseTables = [u \in {t} |-> [order |-> 0, hidden |-> FALSE, alias |-> 0]]
  /\ tablesPage = "tabs" /\ tablesCache \in ServerTables(baseTables)
  /\ tabs = tablesCache /\ tabBar = tablesCache /\ openTable = tablesCache[1].id /\ tabMenu = 0
  /\ settingsTables = <<>> /\ settingsLoading = FALSE /\ renaming = NoRename
  /\ tableWrites = {} /\ tablesFetch = NoTablesFetch /\ tableActions = 0
  /\ tableExcused = FALSE /\ racedVisible = FALSE

TableTabs ==
  /\ tablesPage = "tabs"
  /\ ChangesTable \/ OpensTabMenu \/ TableTabItemMenu \/ ReordersTabs \/ TablesAsked

TablesNext ==
  \/ TableTabs
  \/ tablesPage = "settings" /\ BaseTablesSettings
  \/ \E w \in tableWrites :
       TableHandled(w) \/ TabsAnswered(w) \/ SettingsAnswered(w) \/ OthersAnswered(w)
  \/ OthersHideTable \/ TablesRead \/ TablesArrive \/ OpensSettings \/ VisitTables

TablesSpec == TablesInit /\ [][TablesNext]_tableVars

-----------------------------------------------------------------------------
(* Once everything is answered and fetched, the tabs are the tables of the *)
(* server that are visible, in its order, and the open table is one of the *)
(* server's if it has any, unless a request or a fetch failed, or tabs     *)
(* were moved beside something else under way: that order is never asked   *)
(* for again.                                                              *)
TabsSettle ==
  tablesPage = "tabs" /\ tableWrites = {} /\ tablesFetch.at = "no" /\ ~ tableExcused =>
    /\ \E s \in ServerTables(baseTables) : tabBar = VisibleTables(s)
    /\ openTable \in DOMAIN baseTables \/ DOMAIN baseTables = {}

(* The list of the settings ends as the server's, also after a request     *)
(* that was refused, unless the cache it copied was not the server's, the  *)
(* answer of what was done was lost, a rename was dropped for another,     *)
(* what failed had company, or the same was sent again: a table that is    *)
(* moved ends the loading of one that is hidden, which can then be shown   *)
(* before it was hidden.                                                   *)
SettingsSettle ==
  tablesPage = "settings" /\ tableWrites = {} /\ renaming = NoRename /\ ~ tableExcused =>
    settingsTables \in ServerTables(baseTables)

(* A base keeps one visible table, unless two requests found each other's  *)
(* table visible before either acted.                                      *)
LastVisible == racedVisible \/ \E t \in DOMAIN baseTables : ~ baseTables[t].hidden
=============================================================================
