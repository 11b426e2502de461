---------------------------- MODULE MCWebClient ----------------------------
(***************************************************************************)
(* The pages and modals of the web client, for TLC.  They share no state   *)
(* of the client: each keeps its own copies of what the server has.  A     *)
(* behaviour stays on one of them, so that the state space is the sum of   *)
(* theirs; the variables of the others keep one of their initial values.   *)
(* One run looks at what a table shows of its records, the other at the    *)
(* lists of tables and views and at what is added to a base; the filters   *)
(* are looked at by both, for two views and for more of what a user does.  *)
(***************************************************************************)
EXTENDS ClientGrid, ClientRecordModal, ClientPermissions, ClientFilters,
        ClientFields, ClientNames, ClientNewTable, ClientTables, ClientViews

CONSTANT PagesVisited   \* the pages this run looks at

VARIABLE page   \* what this behaviour is about

webVars == <<gridVars, modalVars, permVars, filterVars, fieldVars, nameVars,
             newTableVars, tableVars, viewVars, page>>

Pages == {"grid", "record", "permissions", "filters", "fields", "names",
          "new table", "tables", "views"}

ASSUME WebAssumption == PagesVisited \subseteq Pages

(* The first of the initial states, for a page that is not looked at.      *)
OrFirst(p, first) == page = p \/ first

WebInit ==
  /\ page \in PagesVisited
  /\ GridInit /\ OrFirst("grid", stored = <<>>)
  /\ ModalInit /\ OrFirst("record", record = Same(Blank))
  /\ PermInit /\ OrFirst("permissions", resource = "base" /\ guests = NoPeople)
  /\ FilterInit /\ OrFirst("filters", /\ view = (CHOOSE v \in Views : TRUE)
                                      /\ \A v \in Views : viewServer[v].filters.kids = <<>>)
  /\ FieldsInit /\ OrFirst("fields", 1 \in DOMAIN viewFields)
  /\ NamesInit /\ OrFirst("names", newKind = "table" /\ \A n \in SqlNames : aliasOf[n] = "")
  /\ NewTableInit
  /\ TablesInit /\ OrFirst("tables", 1 \in DOMAIN baseTables)
  /\ ViewsInit /\ OrFirst("views", defaultView = 1 /\ openView = 1)

(* A page that is not looked at keeps its state.                           *)
Rests(p, vars) == page # p => UNCHANGED vars

WebNext ==
  /\ UNCHANGED page
  /\ Rests("grid", gridVars) /\ Rests("record", modalVars) /\ Rests("permissions", permVars)
  /\ Rests("filters", filterVars) /\ Rests("fields", fieldVars) /\ Rests("names", nameVars)
  /\ Rests("new table", newTableVars) /\ Rests("tables", tableVars) /\ Rests("views", viewVars)
  /\ \/ page = "grid" /\ GridNext
     \/ page = "record" /\ ModalNext
     \/ page = "permissions" /\ PermNext
     \/ page = "filters" /\ FilterNext
     \/ page = "fields" /\ FieldsNext
     \/ page = "names" /\ NamesNext
     \/ page = "new table" /\ NewTableNext
     \/ page = "tables" /\ TablesNext
     \/ page = "views" /\ ViewsNext

WebSpec == WebInit /\ [][WebNext]_webVars

(* Every variable of a page has its type; those of the other pages keep    *)
(* one of its initial values.                                              *)
WebTypeOK ==
  CASE page = "grid" -> GridTypeOK
    [] page = "record" -> ModalTypeOK
    [] page = "permissions" -> PermTypeOK
    [] page = "filters" -> FilterTypeOK
    [] page = "fields" -> FieldTypeOK
    [] page = "names" -> NamesTypeOK
    [] page = "new table" -> NewTableTypeOK
    [] page = "tables" -> TablesTypeOK
    [] page = "views" -> ViewsTypeOK
=============================================================================
