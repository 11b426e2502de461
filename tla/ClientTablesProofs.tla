------------------------- MODULE ClientTablesProofs -------------------------
(***************************************************************************)
(* The tables of a base and the views of a table, for any of them and any  *)
(* number of requests under way.                                           *)
(*                                                                         *)
(* A base keeps a visible table: a request that has looked for another     *)
(* visible table must still find one when it acts.  It does because it is  *)
(* then the only one between its look and its act, and nothing else that a *)
(* request does hides a table.  The tabs, the settings and the menu of     *)
(* views settle on what the server has: TabsFollow, SettingsFollow and     *)
(* MenuFollows say which request, answer or fetch brings each copy there.  *)
(***************************************************************************)
EXTENDS ClientTables, ClientViews, ClientListsProofs, TLAPS

VisibleIn(tables) == \E t \in DOMAIN tables : ~ tables[t].hidden

(* The requests that have looked and not acted                             *)
CheckedRequests == {w \in tableWrites : w.at = "checked"}

TableShapes ==
  /\ baseTables = [t \in DOMAIN baseTables |-> baseTables[t]]
  /\ \A t \in DOMAIN baseTables : DOMAIN baseTables[t] = {"order", "hidden", "alias"}

WriteShapes ==
  \A w \in tableWrites : DOMAIN w = {"op", "args", "after", "from", "at", "alone"}

OneAtATime ==
  ~ racedVisible => /\ VisibleIn(baseTables)
                    /\ \A w, u \in CheckedRequests : w = u
                    /\ \A w \in CheckedRequests : OthersVisible(w.args[1])

LastInv == racedVisible \in BOOLEAN /\ TableShapes /\ WriteShapes /\ OneAtATime

-----------------------------------------------------------------------------
(* Requests that are not checked come in, and others lose their company.   *)
LEMMA OthersComeIn ==
  ASSUME LastInv, UNCHANGED <<baseTables, racedVisible>>, NEW some \in SUBSET tableWrites,
         NEW new, \A w \in new : /\ w.at # "checked"
                                 /\ DOMAIN w = {"op", "args", "after", "from", "at", "alone"},
         \/ tableWrites' = {Accompanied(w) : w \in some} \cup new
         \/ tableWrites' = some \cup new
  PROVE  LastInv'
<1>1. ASSUME NEW w \in tableWrites
      PROVE  /\ Accompanied(w).at = w.at /\ Accompanied(w).args = w.args
             /\ DOMAIN Accompanied(w) = {"op", "args", "after", "from", "at", "alone"}
      BY DEF LastInv, WriteShapes, Accompanied
<1>2. WriteShapes'
      BY <1>1 DEF LastInv, WriteShapes
<1>3. \A w \in CheckedRequests' : \E u \in CheckedRequests : w \in {u, Accompanied(u)} /\ w.args = u.args
      BY <1>1 DEF CheckedRequests
<1>4. \A w, u \in CheckedRequests' : (\A x, y \in CheckedRequests : x = y) => w = u
      <2>1. CASE tableWrites' = {Accompanied(w) : w \in some} \cup new
            <3>1. \A w \in CheckedRequests' : \E u \in CheckedRequests : w = Accompanied(u)
                  BY <1>1, <2>1 DEF CheckedRequests
            <3> QED BY <3>1
      <2>2. CASE tableWrites' = some \cup new
            BY <2>2 DEF CheckedRequests
      <2> QED BY <2>1, <2>2
<1>5. OneAtATime'
      <2> SUFFICES ASSUME ~ racedVisible PROVE /\ VisibleIn(baseTables')
                                               /\ \A w, u \in CheckedRequests' : w = u
                                               /\ \A w \in CheckedRequests' : OthersVisible(w.args[1])'
          BY DEF OneAtATime, OthersVisible
      <2>1. /\ VisibleIn(baseTables) /\ \A x, y \in CheckedRequests : x = y
            /\ \A w \in CheckedRequests : OthersVisible(w.args[1])
            BY DEF LastInv, OneAtATime
      <2> QED BY <1>3, <1>4, <2>1 DEF OthersVisible
<1> QED BY <1>2, <1>5 DEF LastInv, TableShapes

LEMMA OthersLeave ==
  ASSUME LastInv, UNCHANGED <<baseTables, racedVisible>>, NEW some \in SUBSET tableWrites,
         \/ tableWrites' = {Accompanied(w) : w \in some}
         \/ tableWrites' = some
  PROVE  LastInv'
<1> DEFINE new == {}
<1>1. \A w \in new : /\ w.at # "checked"
                     /\ DOMAIN w = {"op", "args", "after", "from", "at", "alone"}
      OBVIOUS
<1>2. \/ tableWrites' = {Accompanied(w) : w \in some} \cup new
      \/ tableWrites' = some \cup new
      OBVIOUS
<1> HIDE DEF new
<1> QED BY <1>1, <1>2, OthersComeIn

LEMMA AskedKeeps ==
  ASSUME LastInv, NEW op, NEW args, NEW after, NEW from, TableAsks(op, args, after, from)
  PROVE  LastInv'
<1> DEFINE w == [op |-> op, args |-> args, after |-> after, from |-> from, at |-> "sent",
                 alone |-> tableWrites = {} /\ tablesFetch.at = "no" /\ renaming = NoRename]
<1>1. tableWrites' = {Accompanied(u) : u \in tableWrites} \cup {w} /\ UNCHANGED <<baseTables, racedVisible>>
      BY DEF TableAsks
<1>2. w.at # "checked" /\ DOMAIN w = {"op", "args", "after", "from", "at", "alone"}
      OBVIOUS
<1> HIDE DEF w
<1> QED BY <1>1, <1>2, OthersComeIn

LEMMA NothingHappens ==
  ASSUME LastInv, UNCHANGED <<baseTables, racedVisible, tableWrites>> PROVE LastInv'
BY DEF LastInv, TableShapes, WriteShapes, OneAtATime, CheckedRequests, OthersVisible

-----------------------------------------------------------------------------
(* The server                                                              *)

LEMMA AnswerShapes ==
  ASSUME LastInv, NEW w \in tableWrites, NEW at, TableAnswers(w, at)
  PROVE  /\ WriteShapes'
         /\ [w EXCEPT !.at = at].at = at /\ [w EXCEPT !.at = at].args = w.args
BY DEF LastInv, WriteShapes, TableAnswers

LEMMA CheckedKeeps ==
  ASSUME LastInv, NEW w \in tableWrites, TableChecked(w) PROVE LastInv'
<1> DEFINE x == [w EXCEPT !.at = "checked"]
<1>1. /\ UNCHANGED baseTables /\ OthersVisible(w.args[1]) /\ w.at = "sent"
      /\ tableWrites' = (tableWrites \ {w}) \cup {x}
      /\ racedVisible' = (racedVisible \/ \E u \in tableWrites : u.at = "checked")
      BY DEF TableChecked, TableAnswers
<1>2. WriteShapes' /\ x.at = "checked" /\ x.args = w.args
      BY AnswerShapes DEF TableChecked
<1> HIDE DEF x
<1>3. ASSUME ~ racedVisible' PROVE ~ racedVisible /\ CheckedRequests' = {x}
      BY <1>1, <1>2, <1>3 DEF CheckedRequests, LastInv
<1>4. OneAtATime'
      <2>1. OthersVisible(x.args[1])'
            BY <1>1, <1>2 DEF OthersVisible
      <2> QED BY <1>1, <1>3, <2>1 DEF OneAtATime, LastInv
<1> QED BY <1>1, <1>2, <1>4 DEF LastInv, TableShapes

(* A request that acts as it may while it is the only one checked, or that *)
(* hides nothing                                                           *)
LEMMA ActedKeeps ==
  ASSUME LastInv, NEW w \in tableWrites, NEW at \in {"ok", "error"}, TableAnswers(w, at),
         UNCHANGED racedVisible, TableShapes',
         \/ /\ w.at = "checked"
            /\ OthersVisible(w.args[1]) => VisibleIn(baseTables')
         \/ /\ DOMAIN baseTables' = DOMAIN baseTables
            /\ \A t \in DOMAIN baseTables : baseTables'[t].hidden => baseTables[t].hidden
  PROVE  LastInv'
<1>1. WriteShapes' /\ CheckedRequests' = CheckedRequests \ {w}
      BY AnswerShapes DEF TableAnswers, CheckedRequests
<1>2. OneAtATime'
      <2> SUFFICES ASSUME ~ racedVisible
                   PROVE  /\ VisibleIn(baseTables') /\ \A v, u \in CheckedRequests' : v = u
                          /\ \A u \in CheckedRequests' : OthersVisible(u.args[1])'
          BY DEF OneAtATime
      <2>1. /\ VisibleIn(baseTables) /\ \A v, u \in CheckedRequests : v = u
            /\ \A u \in CheckedRequests : OthersVisible(u.args[1])
            BY DEF LastInv, OneAtATime
      <2>2. CASE w.at = "checked" /\ (OthersVisible(w.args[1]) => VisibleIn(baseTables'))
            <3>1. w \in CheckedRequests /\ CheckedRequests' = {}
                  BY <1>1, <2>1, <2>2 DEF CheckedRequests
            <3> QED BY <2>1, <2>2, <3>1
      <2>3. CASE /\ DOMAIN baseTables' = DOMAIN baseTables
                 /\ \A t \in DOMAIN baseTables : baseTables'[t].hidden => baseTables[t].hidden
            BY <1>1, <2>1, <2>3 DEF VisibleIn, OthersVisible
      <2> QED BY <2>2, <2>3
<1> QED BY <1>1, <1>2 DEF LastInv

LEMMA ServingTableKeeps ==
  ASSUME LastInv, NEW w \in tableWrites, TableServed(w) \/ TableLost(w) PROVE LastInv'
<1> DEFINE id == w.args[1]
<1>0. PICK at \in {"ok", "error"} : TableAnswers(w, at)
      BY DEF TableServed, TableLost
<1>1. TableAnswers(w, at) /\ UNCHANGED racedVisible /\ TableActs(w)
      BY <1>0 DEF TableServed, TableLost
<1>2. CASE /\ w.op \in {"hide", "drop"} /\ w.at = "checked" /\ id \in DOMAIN baseTables
           /\ baseTables' = IF w.op = "hide" THEN [baseTables EXCEPT ![id].hidden = TRUE]
                            ELSE [t \in DOMAIN baseTables \ {id} |-> baseTables[t]]
      <2>1. TableShapes'
            BY <1>2 DEF LastInv, TableShapes
      <2>2. OthersVisible(id) => VisibleIn(baseTables')
            BY <1>2 DEF LastInv, TableShapes, OthersVisible, VisibleIn
      <2> QED BY <1>1, <1>2, <2>1, <2>2, ActedKeeps
<1>3. CASE id \in DOMAIN baseTables /\ baseTables' = [baseTables EXCEPT ![id].hidden = FALSE]
      <2>1. TableShapes'
            BY <1>3 DEF LastInv, TableShapes
      <2>2. /\ DOMAIN baseTables' = DOMAIN baseTables
            /\ \A t \in DOMAIN baseTables : baseTables'[t].hidden => baseTables[t].hidden
            BY <1>3 DEF LastInv, TableShapes
      <2> QED BY <1>1, <2>1, <2>2, ActedKeeps
<1>4. CASE id \in DOMAIN baseTables /\ baseTables' = [baseTables EXCEPT ![id].alias = w.args[2]]
      <2>1. TableShapes'
            BY <1>4 DEF LastInv, TableShapes
      <2>2. /\ DOMAIN baseTables' = DOMAIN baseTables
            /\ \A t \in DOMAIN baseTables : baseTables'[t].hidden => baseTables[t].hidden
            BY <1>4 DEF LastInv, TableShapes
      <2> QED BY <1>1, <2>1, <2>2, ActedKeeps
<1>5. CASE baseTables' = [t \in DOMAIN baseTables |->
             IF \E i \in DOMAIN w.args : w.args[i] = t
             THEN [baseTables[t] EXCEPT !.order = (CHOOSE i \in DOMAIN w.args : w.args[i] = t) - 1]
             ELSE baseTables[t]]
      <2>1. TableShapes'
            BY <1>5 DEF LastInv, TableShapes
      <2>2. /\ DOMAIN baseTables' = DOMAIN baseTables
            /\ \A t \in DOMAIN baseTables : baseTables'[t].hidden => baseTables[t].hidden
            BY <1>5 DEF LastInv, TableShapes
      <2> QED BY <1>1, <2>1, <2>2, ActedKeeps
<1>6. CASE UNCHANGED baseTables
      BY <1>1, <1>6, ActedKeeps DEF LastInv, TableShapes
<1> QED BY <1>1, <1>2, <1>3, <1>4, <1>5, <1>6 DEF TableActs

LEMMA RefusingKeeps ==
  ASSUME LastInv, NEW w \in tableWrites, TableRefused(w) PROVE LastInv'
<1> DEFINE x == [w EXCEPT !.at = "error"]
<1>1. /\ tableWrites' = (tableWrites \ {w}) \cup {x} /\ UNCHANGED <<baseTables, racedVisible>>
      BY DEF TableRefused, TableAnswers
<1>2. x.at # "checked" /\ DOMAIN x = {"op", "args", "after", "from", "at", "alone"}
      BY DEF LastInv, WriteShapes
<1> HIDE DEF x
<1> QED BY <1>1, <1>2, OthersComeIn

-----------------------------------------------------------------------------
LEMMA TabsKeep == ASSUME LastInv, TableTabs PROVE LastInv'
<1>1. CASE ChangesTable \/ OpensTabMenu
      BY <1>1, NothingHappens DEF ChangesTable, OpensTabMenu
<1>2. CASE LeavesTabMenu
      BY <1>2, NothingHappens, AskedKeeps DEF LeavesTabMenu
<1>3. CASE HidesOrDropsTable
      BY <1>3, AskedKeeps DEF HidesOrDropsTable
<1>4. CASE ReindexesTable \/ ReordersTabs
      BY <1>4, AskedKeeps DEF ReindexesTable, ReordersTabs
<1>5. CASE TablesAsked
      <2>1. /\ tableWrites' = {Accompanied(w) : w \in tableWrites}
            /\ UNCHANGED <<baseTables, racedVisible>>
            BY <1>5 DEF TablesAsked
      <2> QED BY <2>1, OthersLeave
<1> QED BY <1>1, <1>2, <1>3, <1>4, <1>5 DEF TableTabs, TableTabItemMenu

LEMMA SettingsKeep == ASSUME LastInv, BaseTablesSettings PROVE LastInv'
<1>1. CASE RenamesTable
      <2>1. /\ tableWrites' = {Accompanied(w) : w \in tableWrites}
            /\ UNCHANGED <<baseTables, racedVisible>>
            BY <1>1 DEF RenamesTable
      <2> QED BY <2>1, OthersLeave
<1>2. CASE RenameFires
      <2> DEFINE w == [op |-> "alias", args |-> <<renaming.id, renaming.alias>>,
                       after |-> renaming.list, from |-> "settings", at |-> "sent", alone |-> FALSE]
      <2>1. /\ tableWrites' = {Accompanied(u) : u \in tableWrites} \cup {w}
            /\ UNCHANGED <<baseTables, racedVisible>>
            BY <1>2 DEF RenameFires
      <2>2. w.at # "checked" /\ DOMAIN w = {"op", "args", "after", "from", "at", "alone"}
            OBVIOUS
      <2> HIDE DEF w
      <2> QED BY <2>1, <2>2, OthersComeIn
<1>3. CASE TogglesTable \/ ReordersSettings
      BY <1>3, AskedKeeps DEF TogglesTable, ReordersSettings
<1> QED BY <1>1, <1>2, <1>3 DEF BaseTablesSettings

LEMMA TableAnsweredKeeps ==
  ASSUME LastInv, NEW w \in tableWrites, TabsAnswered(w) \/ SettingsAnswered(w) \/ OthersAnswered(w)
  PROVE  LastInv'
<1>1. /\ UNCHANGED <<baseTables, racedVisible>>
      /\ \/ tableWrites' = {Accompanied(u) : u \in tableWrites \ {w}}
         \/ tableWrites' = tableWrites \ {w}
      BY DEF TabsAnswered, SettingsAnswered, OthersAnswered
<1> DEFINE some == tableWrites \ {w}
<1>2. some \in SUBSET tableWrites
      OBVIOUS
<1>3. \/ tableWrites' = {Accompanied(u) : u \in some}
      \/ tableWrites' = some
      BY <1>1
<1> HIDE DEF some
<1> QED BY <1>1, <1>2, <1>3, OthersLeave

LEMMA OthersHideKeeps == ASSUME LastInv, OthersHideTable PROVE LastInv'
<1>1. PICK t \in DOMAIN baseTables, op \in {"hide", "unhide"} :
        tableWrites' = tableWrites \cup
          {[op |-> op, args |-> <<t>>, after |-> <<>>, from |-> "others", at |-> "sent", alone |-> FALSE]}
      BY DEF OthersHideTable
<1> DEFINE w == [op |-> op, args |-> <<t>>, after |-> <<>>, from |-> "others", at |-> "sent",
                 alone |-> FALSE]
<1>2. w.at # "checked" /\ DOMAIN w = {"op", "args", "after", "from", "at", "alone"}
      OBVIOUS
<1>3. tableWrites' = tableWrites \cup {w} /\ UNCHANGED <<baseTables, racedVisible>>
      BY <1>1 DEF OthersHideTable
<1> HIDE DEF w
<1> QED BY <1>2, <1>3, OthersComeIn

LEMMA VisitingTablesKeeps == ASSUME LastInv, VisitTables PROVE LastInv'
<1>1. /\ tableWrites' = {} /\ racedVisible' = FALSE
      BY DEF VisitTables
<1>2. PICK there \in SUBSET TableIds, hid \in SUBSET TableIds :
        /\ hid \subseteq there /\ hid # there
        /\ baseTables' = [t \in there |-> [order |-> Cardinality({u \in there : u < t}),
                                           hidden |-> t \in hid, alias |-> 0]]
      BY DEF VisitTables
<1>3. TableShapes'
      BY <1>2 DEF TableShapes
<1>4. VisibleIn(baseTables')
      <2>1. PICK t \in there : t \notin hid
            BY <1>2
      <2> QED BY <1>2, <2>1 DEF VisibleIn
<1> QED BY <1>1, <1>3, <1>4 DEF LastInv, WriteShapes, OneAtATime, CheckedRequests

LEMMA OpeningSettingsKeeps == ASSUME LastInv, OpensSettings PROVE LastInv'
BY NothingHappens DEF OpensSettings

LEMMA LastInitInv == TablesInit => LastInv
<1> SUFFICES ASSUME TablesInit PROVE LastInv
    OBVIOUS
<1>1. PICK t \in TableIds : baseTables = [u \in {t} |-> [order |-> 0, hidden |-> FALSE, alias |-> 0]]
      BY DEF TablesInit
<1>2. tableWrites = {} /\ racedVisible = FALSE
      BY DEF TablesInit
<1>3. TableShapes
      BY <1>1 DEF TableShapes
<1>4. VisibleIn(baseTables)
      BY <1>1 DEF VisibleIn
<1> QED BY <1>2, <1>3, <1>4 DEF LastInv, WriteShapes, OneAtATime, CheckedRequests

LEMMA LastNextKeeps == LastInv /\ [TablesNext]_tableVars => LastInv'
<1>1. ASSUME LastInv, UNCHANGED tableVars PROVE LastInv'
      BY <1>1, NothingHappens DEF tableVars
<1>2. ASSUME LastInv, NEW w \in tableWrites, TableHandled(w) PROVE LastInv'
      BY <1>2, CheckedKeeps, ServingTableKeeps, RefusingKeeps DEF TableHandled
<1>3. ASSUME LastInv, TablesRead \/ TablesArrive PROVE LastInv'
      BY <1>3, NothingHappens DEF TablesRead, TablesArrive
<1> QED BY <1>1, <1>2, <1>3, TabsKeep, SettingsKeep, TableAnsweredKeeps, OthersHideKeeps,
        OpeningSettingsKeeps, VisitingTablesKeeps DEF TablesNext

(* However hiding, dropping and other requests on a base's tables are      *)
(* ordered and refused, one table stays visible, unless two requests found *)
(* each other's table visible.                                             *)
THEOREM OneStaysVisible == TablesSpec => []LastVisible
<1>1. LastInv => LastVisible
      BY DEF LastInv, OneAtATime, VisibleIn, LastVisible
<1> QED BY <1>1, LastInitInv, LastNextKeeps, PTL DEF TablesSpec

-----------------------------------------------------------------------------
(* The lists of tables.  What the handlers do with one, and which lists    *)
(* the server may answer.                                                  *)

DistinctTables(s) == \A i, j \in DOMAIN s : s[i].id = s[j].id => i = j
NoneHidden(s) == \A i \in DOMAIN s : ~ s[i].hidden
TableListFits(s) == s \in Seq(ShownTable) /\ DistinctTables(s)
IdsIn(s) == {s[i].id : i \in DOMAIN s}
EntriesIn(s) == {s[i] : i \in DOMAIN s}

LEMMA TableLists ==
  ASSUME NEW s \in Seq(ShownTable)
  PROVE  /\ DOMAIN s = 1..Len(s) /\ Len(s) \in Nat
         /\ \A i \in DOMAIN s : /\ s[i] \in ShownTable /\ s[i].id \in TableIds
                                /\ s[i].hidden \in BOOLEAN /\ s[i].alias \in 0..1
<1>1. DOMAIN s = 1..Len(s) /\ Len(s) \in Nat /\ \A i \in DOMAIN s : s[i] \in ShownTable
      BY LenProperties
<1> QED BY <1>1 DEF ShownTable

LEMMA EmptyTableList == TableListFits(<<>>) /\ NoneHidden(<<>>) /\ IdsIn(<<>>) = {}
BY DEF TableListFits, DistinctTables, NoneHidden, IdsIn

(* What is taken from places of a list that are different is as the list.  *)
LEMMA PlacedTables ==
  ASSUME NEW s, TableListFits(s), NEW t \in Seq(ShownTable), NEW keep \in SUBSET DOMAIN s, NEW p,
         FromPlaces(t, s, p, keep)
  PROVE  TableListFits(t) /\ (NoneHidden(s) => NoneHidden(t))
<1>1. DOMAIN t = 1..Len(t)
      BY TableLists
<1>2. \A k \in DOMAIN t : p[k] \in DOMAIN s /\ t[k] = s[p[k]]
      BY <1>1 DEF FromPlaces
<1>3. DistinctTables(t)
      <2> SUFFICES ASSUME NEW k \in DOMAIN t, NEW l \in DOMAIN t, t[k].id = t[l].id PROVE k = l
          BY DEF DistinctTables
      <2>1. p[k] = p[l]
            BY <1>2 DEF TableListFits, DistinctTables
      <2> QED BY <1>1, <2>1 DEF FromPlaces
<1>4. NoneHidden(s) => NoneHidden(t)
      BY <1>2 DEF NoneHidden
<1> QED BY <1>3, <1>4 DEF TableListFits

LEMMA VisibleTableLists ==
  ASSUME NEW s, TableListFits(s)
  PROVE  LET t == VisibleTables(s) IN
         /\ TableListFits(t) /\ NoneHidden(t) /\ (NoneHidden(s) => t = s)
         /\ \A i \in DOMAIN s : ~ s[i].hidden => \E k \in DOMAIN t : t[k] = s[i]
         /\ \A k \in DOMAIN t : \E i \in DOMAIN s : t[k] = s[i]
         /\ \A k, l \in DOMAIN t : k < l => \E i, j \in DOMAIN s : i < j /\ t[k] = s[i] /\ t[l] = s[j]
<1> DEFINE keep == {i \in DOMAIN s : ~ s[i].hidden}
           t == VisibleTables(s)
<1>1. keep \in SUBSET DOMAIN s /\ \A i \in DOMAIN s : i \in keep <=> ~ s[i].hidden
      OBVIOUS
<1>2. t = Filtered(s, keep) /\ s \in Seq(ShownTable)
      BY DEF VisibleTables, TableListFits
<1>3. ASSUME NoneHidden(s) PROVE t = s
      <2>1. keep = DOMAIN s
            BY <1>3 DEF NoneHidden
      <2> HIDE DEF keep
      <2> QED BY <1>2, <2>1, FilteredWhole
<1> HIDE DEF keep, t
<1>4. /\ t \in Seq(ShownTable) /\ DOMAIN t = 1..Len(t)
      /\ \E p : FromPlaces(t, s, p, keep) /\ Ascending(t, p)
      BY <1>1, <1>2, FilteredList
<1>5. PICK p : FromPlaces(t, s, p, keep) /\ Ascending(t, p)
      BY <1>4
<1>6. TableListFits(t)
      BY <1>1, <1>4, <1>5, PlacedTables
<1>7. \A k \in DOMAIN t : p[k] \in keep /\ t[k] = s[p[k]]
      BY <1>4, <1>5 DEF FromPlaces
<1>8. NoneHidden(t)
      BY <1>1, <1>7 DEF NoneHidden
<1>9. \A i \in DOMAIN s : ~ s[i].hidden => \E k \in DOMAIN t : t[k] = s[i]
      BY <1>1, <1>4, <1>5, <1>7 DEF FromPlaces
<1>10. \A k, l \in DOMAIN t : k < l => \E i, j \in DOMAIN s : i < j /\ t[k] = s[i] /\ t[l] = s[j]
       BY <1>1, <1>4, <1>5, <1>7 DEF Ascending
<1>11. \A k \in DOMAIN t : \E i \in DOMAIN s : t[k] = s[i]
       BY <1>1, <1>7
<1> QED BY <1>3, <1>6, <1>8, <1>9, <1>10, <1>11 DEF t

LEMMA WithoutTableLists ==
  ASSUME NEW s, TableListFits(s), NEW id
  PROVE  LET t == WithoutTable(s, id) IN
         /\ TableListFits(t) /\ (NoneHidden(s) => NoneHidden(t))
         /\ \A i \in DOMAIN s : s[i].id # id => HasTable(t, s[i].id)
         /\ Len(s) > 1 => 1 \in DOMAIN t
<1> DEFINE keep == {i \in DOMAIN s : s[i].id # id}
           t == WithoutTable(s, id)
<1>1. keep \in SUBSET DOMAIN s /\ \A i \in DOMAIN s : i \in keep <=> s[i].id # id
      OBVIOUS
<1>2. t = Filtered(s, keep) /\ s \in Seq(ShownTable)
      BY DEF WithoutTable, TableListFits
<1> HIDE DEF keep, t
<1>3. t \in Seq(ShownTable) /\ DOMAIN t = 1..Len(t) /\ \E p : FromPlaces(t, s, p, keep)
      BY <1>1, <1>2, FilteredList
<1>4. PICK p : FromPlaces(t, s, p, keep)
      BY <1>3
<1>5. TableListFits(t) /\ (NoneHidden(s) => NoneHidden(t))
      BY <1>1, <1>3, <1>4, PlacedTables
<1>6. \A i \in keep : \E k \in DOMAIN t : t[k] = s[i]
      BY <1>3, <1>4 DEF FromPlaces
<1>7. \A i \in DOMAIN s : s[i].id # id => HasTable(t, s[i].id)
      BY <1>1, <1>6 DEF HasTable
<1>8. ASSUME Len(s) > 1 PROVE 1 \in DOMAIN t
      <2>1. 1 \in DOMAIN s /\ 2 \in DOMAIN s
            BY <1>2, <1>8, TableLists
      <2>2. s[1].id # s[2].id
            BY <2>1 DEF TableListFits, DistinctTables
      <2>3. \E i \in DOMAIN s : i \in keep
            BY <1>1, <2>1, <2>2
      <2>4. \E k \in DOMAIN t : TRUE
            BY <1>6, <2>3
      <2>5. Len(t) \in Nat
            BY <1>3, TableLists
      <2> QED BY <1>3, <2>4, <2>5
<1> QED BY <1>5, <1>7, <1>8 DEF t

(* A list that differs in what is shown of its tables                      *)
LEMMA ChangedTables ==
  ASSUME NEW s, TableListFits(s), NEW t, DOMAIN t = DOMAIN s, t = [i \in DOMAIN s |-> t[i]],
         \A i \in DOMAIN s : t[i] \in ShownTable /\ t[i].id = s[i].id
  PROVE  TableListFits(t) /\ TableIdsOf(t) = TableIdsOf(s) /\ IdsIn(t) = IdsIn(s)
<1>1. t \in Seq(ShownTable)
      BY MappedList DEF TableListFits
<1>2. DistinctTables(t)
      BY DEF TableListFits, DistinctTables
<1> QED BY <1>1, <1>2 DEF TableListFits, TableIdsOf, IdsIn

LEMMA AliasedTableLists ==
  ASSUME NEW s, TableListFits(s), NEW id, NEW alias \in 0..1
  PROVE  LET t == Aliased(s, id, alias) IN
         /\ TableListFits(t) /\ TableIdsOf(t) = TableIdsOf(s) /\ IdsIn(t) = IdsIn(s)
         /\ (NoneHidden(s) => NoneHidden(t)) /\ DOMAIN t = DOMAIN s
         /\ \A i \in DOMAIN s : /\ t[i].id = s[i].id /\ t[i].hidden = s[i].hidden
                                /\ t[i].alias = IF s[i].id = id THEN alias ELSE s[i].alias
<1> DEFINE t == Aliased(s, id, alias)
<1>1. t = [i \in DOMAIN s |-> IF s[i].id = id THEN [s[i] EXCEPT !.alias = alias] ELSE s[i]]
      BY DEF Aliased
<1>2. DOMAIN t = DOMAIN s /\ t = [i \in DOMAIN s |-> t[i]]
      BY <1>1
<1>3. ASSUME NEW i \in DOMAIN s
      PROVE  /\ t[i] \in ShownTable /\ t[i].id = s[i].id /\ t[i].hidden = s[i].hidden
             /\ t[i].alias = IF s[i].id = id THEN alias ELSE s[i].alias
      <2>1. s[i] \in ShownTable
            BY TableLists DEF TableListFits
      <2>2. CASE s[i].id = id
            BY <1>1, <2>1, <2>2 DEF ShownTable
      <2>3. CASE s[i].id # id
            BY <1>1, <2>1, <2>3
      <2> QED BY <2>2, <2>3
<1> HIDE DEF t
<1>4. TableListFits(t) /\ TableIdsOf(t) = TableIdsOf(s) /\ IdsIn(t) = IdsIn(s)
      BY <1>2, <1>3, ChangedTables
<1>5. NoneHidden(s) => NoneHidden(t)
      BY <1>2, <1>3 DEF NoneHidden
<1> QED BY <1>2, <1>3, <1>4, <1>5 DEF t

LEMMA ToggledTableLists ==
  ASSUME NEW s, TableListFits(s), NEW n \in DOMAIN s, NEW h \in BOOLEAN
  PROVE  LET t == [s EXCEPT ![n].hidden = h] IN
         /\ TableListFits(t) /\ TableIdsOf(t) = TableIdsOf(s) /\ IdsIn(t) = IdsIn(s)
         /\ DOMAIN t = DOMAIN s
         /\ \A i \in DOMAIN s : /\ t[i].id = s[i].id /\ t[i].alias = s[i].alias
                                /\ t[i].hidden = IF i = n THEN h ELSE s[i].hidden
<1> DEFINE t == [s EXCEPT ![n].hidden = h]
<1>1. s \in Seq(ShownTable) /\ \A i \in DOMAIN s : s[i] \in ShownTable
      BY TableLists DEF TableListFits
<1>2. s = [i \in DOMAIN s |-> s[i]]
      BY <1>1, LenProperties
<1>3. DOMAIN t = DOMAIN s /\ t = [i \in DOMAIN s |-> t[i]]
      BY <1>2
<1>4. ASSUME NEW i \in DOMAIN s
      PROVE  /\ t[i] \in ShownTable /\ t[i].id = s[i].id /\ t[i].alias = s[i].alias
             /\ t[i].hidden = IF i = n THEN h ELSE s[i].hidden
      BY <1>1, <1>2 DEF ShownTable
<1> HIDE DEF t
<1>5. TableListFits(t) /\ TableIdsOf(t) = TableIdsOf(s) /\ IdsIn(t) = IdsIn(s)
      BY <1>3, <1>4, ChangedTables
<1> QED BY <1>3, <1>4, <1>5 DEF t

LEMMA TableIdLists ==
  ASSUME NEW s, TableListFits(s)
  PROVE  TableIdsOf(s) \in Seq(TableIds) /\ DOMAIN TableIdsOf(s) = DOMAIN s
<1> DEFINE ids == TableIdsOf(s)
<1>1. DOMAIN ids = DOMAIN s /\ ids = [i \in DOMAIN s |-> ids[i]] /\ s \in Seq(ShownTable)
      BY DEF TableIdsOf, TableListFits
<1>2. \A i \in DOMAIN s : ids[i] \in TableIds
      BY <1>1, TableLists DEF TableIdsOf
<1> HIDE DEF ids
<1>3. ids \in Seq(TableIds)
      BY <1>1, <1>2, MappedList
<1> QED BY <1>1, <1>3 DEF ids

LEMMA MovedTableLists ==
  ASSUME NEW s, TableListFits(s), NEW i \in DOMAIN s, NEW j \in DOMAIN s
  PROVE  LET t == Moved(s, i, j) IN
         /\ TableListFits(t) /\ (NoneHidden(s) => NoneHidden(t))
         /\ IdsIn(t) = IdsIn(s) /\ EntriesIn(t) = EntriesIn(s) /\ TableIdsOf(t) \in Seq(TableIds)
<1> DEFINE t == Moved(s, i, j)
<1>1. s \in Seq(ShownTable)
      BY DEF TableListFits
<1>2. /\ t \in Seq(ShownTable) /\ DOMAIN t = DOMAIN s
      /\ \E p : FromPlaces(t, s, p, DOMAIN s)
      BY <1>1, MovedList
<1> HIDE DEF t
<1>3. PICK p : FromPlaces(t, s, p, DOMAIN s)
      BY <1>2
<1>4. TableListFits(t) /\ (NoneHidden(s) => NoneHidden(t))
      BY <1>2, <1>3, PlacedTables
<1>5. DOMAIN t = 1..Len(t)
      BY <1>2, TableLists
<1>6. /\ \A k \in DOMAIN t : p[k] \in DOMAIN s /\ t[k] = s[p[k]]
      /\ \A m \in DOMAIN s : \E k \in DOMAIN t : t[k] = s[m]
      BY <1>3, <1>5 DEF FromPlaces
<1>7. IdsIn(t) = IdsIn(s)
      BY <1>6 DEF IdsIn
<1>8. EntriesIn(t) = EntriesIn(s)
      BY <1>6 DEF EntriesIn
<1>9. TableIdsOf(t) \in Seq(TableIds)
      BY <1>4, TableIdLists
<1> QED BY <1>4, <1>7, <1>8, <1>9 DEF t

-----------------------------------------------------------------------------
(* What the server may answer: every list of all its tables that is sorted *)
TableEntry(tables, t) == [id |-> t, hidden |-> tables[t].hidden, alias |-> tables[t].alias]
TablesRight(tables) ==
  DOMAIN tables \subseteq TableIds /\ \A t \in DOMAIN tables : tables[t] \in StoredTable
TablesSorted(s, tables) ==
  \A i, j \in DOMAIN s : i < j => tables[s[i].id].order <= tables[s[j].id].order
ListsTables(s, tables) ==
  /\ TableListFits(s) /\ IdsIn(s) = DOMAIN tables /\ TablesSorted(s, tables)
  /\ \A i \in DOMAIN s : s[i] = TableEntry(tables, s[i].id)

LEMMA TableEntries ==
  ASSUME NEW tables, TablesRight(tables)
  PROVE  LET S == {TableEntry(tables, t) : t \in DOMAIN tables} IN
         /\ IsFiniteSet(S) /\ S \subseteq ShownTable
         /\ \A s : s \in ServerTables(tables) <=> s \in SetToSeqs(S) /\ TablesSorted(s, tables)
<1> DEFINE D == DOMAIN tables
           entry == [t \in D |-> TableEntry(tables, t)]
           S == {TableEntry(tables, t) : t \in D}
<1>1. IsFiniteSet(D)
      BY TablesAssumption, FS_Subset DEF TablesRight
<1>2. entry \in Surjection(D, S)
      BY DEF Surjection
<1>3. IsFiniteSet(S)
      <2> HIDE DEF entry, S, D
      <2> QED BY <1>1, <1>2, FS_Surjection
<1>4. S \subseteq ShownTable
      <2>1. \A t \in D : TableEntry(tables, t) \in ShownTable
            BY DEF TablesRight, StoredTable, ShownTable, TableEntry
      <2> QED BY <2>1
<1>5. \A s : s \in ServerTables(tables) <=> s \in SetToSeqs(S) /\ TablesSorted(s, tables)
      BY DEF ServerTables, TablesSorted, TableEntry
<1> QED BY <1>3, <1>4, <1>5

LEMMA ServerTablesAre ==
  ASSUME NEW tables, TablesRight(tables), NEW s
  PROVE  s \in ServerTables(tables) <=> ListsTables(s, tables)
<1> DEFINE S == {TableEntry(tables, t) : t \in DOMAIN tables}
<1>1. \A t \in DOMAIN tables : TableEntry(tables, t).id = t /\ TableEntry(tables, t) \in S
      BY DEF TableEntry
<1>2. \A x \in S : x.id \in DOMAIN tables /\ x = TableEntry(tables, x.id)
      BY DEF TableEntry
<1>3. /\ IsFiniteSet(S) /\ S \subseteq ShownTable
      /\ s \in ServerTables(tables) <=> s \in SetToSeqs(S) /\ TablesSorted(s, tables)
      BY TableEntries
<1> HIDE DEF S
<1>4. s \in SetToSeqs(S) <=> /\ s \in Seq(S) /\ \A i, j \in DOMAIN s : i # j => s[i] # s[j]
                             /\ \A x \in S : \E i \in DOMAIN s : s[i] = x
      BY <1>3, ListsOfSet
<1>5. ASSUME s \in SetToSeqs(S), TablesSorted(s, tables) PROVE ListsTables(s, tables)
      <2>1. /\ s \in Seq(S) /\ \A i, j \in DOMAIN s : i # j => s[i] # s[j]
            /\ \A x \in S : \E i \in DOMAIN s : s[i] = x
            BY <1>4, <1>5
      <2>2. \A i \in DOMAIN s : s[i] \in S
            BY <2>1, LenProperties
      <2>3. s \in Seq(ShownTable)
            BY <1>3, <2>1
      <2>4. DistinctTables(s)
            BY <1>2, <2>1, <2>2 DEF DistinctTables
      <2>5. IdsIn(s) = DOMAIN tables
            <3>1. \A i \in DOMAIN s : s[i].id \in DOMAIN tables
                  BY <1>2, <2>2
            <3>2. ASSUME NEW t \in DOMAIN tables PROVE \E i \in DOMAIN s : s[i].id = t
                  <4>1. TableEntry(tables, t) \in S /\ TableEntry(tables, t).id = t
                        BY <1>1
                  <4>2. PICK i \in DOMAIN s : s[i] = TableEntry(tables, t)
                        BY <2>1, <4>1
                  <4> QED BY <4>1, <4>2
            <3> QED BY <3>1, <3>2 DEF IdsIn
      <2> QED BY <1>2, <1>5, <2>2, <2>3, <2>4, <2>5 DEF ListsTables, TableListFits
<1>6. ASSUME ListsTables(s, tables) PROVE s \in SetToSeqs(S) /\ TablesSorted(s, tables)
      <2>1. /\ s \in Seq(ShownTable) /\ DistinctTables(s) /\ IdsIn(s) = DOMAIN tables
            /\ \A i \in DOMAIN s : s[i] = TableEntry(tables, s[i].id)
            BY <1>6 DEF ListsTables, TableListFits
      <2>2. \A i \in DOMAIN s : s[i] \in S
            BY <1>1, <2>1 DEF IdsIn
      <2>3. s \in Seq(S)
            <3>1. Len(s) \in Nat /\ s \in [1..Len(s) -> ShownTable]
                  BY <2>1, LenProperties
            <3> QED BY <2>2, <3>1
      <2>4. \A i, j \in DOMAIN s : i # j => s[i] # s[j]
            BY <2>1 DEF DistinctTables
      <2>5. \A x \in S : \E i \in DOMAIN s : s[i] = x
            BY <1>2, <2>1 DEF IdsIn
      <2> QED BY <1>4, <1>6, <2>3, <2>4, <2>5 DEF ListsTables
<1> QED BY <1>3, <1>5, <1>6

LEMMA TablesCanBeListed ==
  ASSUME NEW tables, TablesRight(tables) PROVE \E s : s \in ServerTables(tables)
<1> DEFINE S == {TableEntry(tables, t) : t \in DOMAIN tables}
           order == [x \in S |-> tables[x.id].order]
<1>1. \A x \in S : x.id \in DOMAIN tables
      BY DEF TableEntry
<1>2. order \in [S -> Nat]
      BY <1>1 DEF TablesRight, StoredTable
<1>3. /\ IsFiniteSet(S)
      /\ \A s : s \in ServerTables(tables) <=> s \in SetToSeqs(S) /\ TablesSorted(s, tables)
      BY TableEntries
<1>4. \A x \in S : order[x] = tables[x.id].order
      OBVIOUS
<1> HIDE DEF S, order
<1>5. PICK s \in SetToSeqs(S) : InOrder(s, order)
      BY <1>2, <1>3, SortedExists
<1>6. \A i \in DOMAIN s : s[i] \in S
      BY <1>3, <1>5, ListsOfSet, LenProperties
<1>7. TablesSorted(s, tables)
      BY <1>4, <1>5, <1>6 DEF TablesSorted, InOrder
<1> QED BY <1>3, <1>5, <1>7

ShowsServer(list, tables) == \E s \in ServerTables(tables) : list = VisibleTables(s)
VisibleEntries(tables) == {TableEntry(tables, t) : t \in {u \in DOMAIN tables : ~ tables[u].hidden}}

LEMMA ShownIsVisible ==
  ASSUME NEW tables, TablesRight(tables), NEW list, ShowsServer(list, tables)
  PROVE  TableListFits(list) /\ NoneHidden(list) /\ EntriesIn(list) = VisibleEntries(tables)
<1>1. PICK s : s \in ServerTables(tables) /\ list = VisibleTables(s)
      BY DEF ShowsServer
<1>2. ListsTables(s, tables)
      BY <1>1, ServerTablesAre
<1>3. /\ TableListFits(list) /\ NoneHidden(list)
      /\ \A i \in DOMAIN s : ~ s[i].hidden => \E k \in DOMAIN list : list[k] = s[i]
      /\ \A k \in DOMAIN list : \E i \in DOMAIN s : list[k] = s[i]
      BY <1>1, <1>2, VisibleTableLists DEF ListsTables
<1>4. ASSUME NEW x \in EntriesIn(list) PROVE x \in VisibleEntries(tables)
      <2>1. PICK k \in DOMAIN list, i \in DOMAIN s : x = list[k] /\ x = s[i]
            BY <1>3, <1>4 DEF EntriesIn
      <2>2. x = TableEntry(tables, s[i].id) /\ s[i].id \in DOMAIN tables /\ ~ x.hidden
            BY <1>2, <1>3, <2>1 DEF ListsTables, NoneHidden, IdsIn
      <2>3. ~ tables[s[i].id].hidden
            BY <2>2 DEF TableEntry
      <2> QED BY <2>2, <2>3 DEF VisibleEntries
<1>5. ASSUME NEW t \in DOMAIN tables, ~ tables[t].hidden PROVE TableEntry(tables, t) \in EntriesIn(list)
      <2>1. PICK i \in DOMAIN s : s[i].id = t
            BY <1>2 DEF ListsTables, IdsIn
      <2>2. s[i] = TableEntry(tables, t)
            BY <1>2, <2>1 DEF ListsTables
      <2>3. ~ s[i].hidden
            BY <1>5, <2>2 DEF TableEntry
      <2> QED BY <1>3, <2>2, <2>3 DEF EntriesIn
<1> QED BY <1>3, <1>4, <1>5 DEF VisibleEntries

(* A list of the visible tables along which their order ascends is the     *)
(* server's.                                                               *)
LEMMA AscendingIsShown ==
  ASSUME NEW tables, TablesRight(tables), NEW list, TableListFits(list),
         EntriesIn(list) = VisibleEntries(tables),
         \A k, l \in DOMAIN list : k < l => tables[list[k].id].order < tables[list[l].id].order
  PROVE  ShowsServer(list, tables)
<1>1. PICK s : s \in ServerTables(tables)
      BY TablesCanBeListed
<1> DEFINE t == VisibleTables(s)
<1>2. ShowsServer(t, tables)
      BY <1>1 DEF ShowsServer
<1>3. /\ ListsTables(s, tables) /\ TableListFits(t) /\ EntriesIn(t) = EntriesIn(list)
      /\ \A k, l \in DOMAIN t : k < l => \E i, j \in DOMAIN s : i < j /\ t[k] = s[i] /\ t[l] = s[j]
      <2>1. ListsTables(s, tables)
            BY <1>1, ServerTablesAre
      <2>2. EntriesIn(t) = EntriesIn(list)
            <3> HIDE DEF t
            <3> QED BY <1>2, ShownIsVisible
      <2> QED BY <2>1, <2>2, VisibleTableLists DEF ListsTables
<1> HIDE DEF t
<1>4. /\ DOMAIN t = 1..Len(t) /\ Len(t) \in Nat /\ DOMAIN list = 1..Len(list) /\ Len(list) \in Nat
      BY <1>3, TableLists DEF TableListFits
<1>5. \A k \in DOMAIN t : \E n \in DOMAIN list : t[k] = list[n]
      BY <1>3 DEF EntriesIn
<1> DEFINE place == [k \in DOMAIN t |-> CHOOSE n \in DOMAIN list : t[k] = list[n]]
<1>6. \A k \in DOMAIN t : place[k] \in DOMAIN list /\ t[k] = list[place[k]]
      BY <1>5
<1>7. place \in [1..Len(t) -> 1..Len(list)]
      BY <1>4, <1>6
<1> HIDE DEF place
<1>8. \A k \in DOMAIN list : tables[list[k].id].order \in Nat
      <2>1. ASSUME NEW k \in DOMAIN list PROVE list[k].id \in DOMAIN tables
            <3>1. PICK u \in DOMAIN tables : list[k] = TableEntry(tables, u)
                  BY DEF EntriesIn, VisibleEntries
            <3> QED BY <3>1 DEF TableEntry
      <2> QED BY <2>1 DEF TablesRight, StoredTable
<1>9. ASSUME NEW k \in 1..Len(t), NEW l \in 1..Len(t), k < l PROVE place[k] < place[l]
      <2>1. tables[t[k].id].order <= tables[t[l].id].order
            BY <1>3, <1>4, <1>9 DEF ListsTables, TablesSorted
      <2>2. /\ place[k] \in DOMAIN list /\ place[l] \in DOMAIN list
            /\ place[k] \in Int /\ place[l] \in Int
            BY <1>4, <1>6
      <2>3. place[k] # place[l]
            BY <1>3, <1>4, <1>6, <1>9 DEF TableListFits, DistinctTables
      <2>4. ~ (place[l] < place[k])
            <3>1. ASSUME place[l] < place[k] PROVE FALSE
                  <4>1. tables[list[place[l]].id].order < tables[list[place[k]].id].order
                        BY <2>2, <3>1
                  <4>2. tables[t[l].id].order < tables[t[k].id].order
                        BY <1>4, <1>6, <4>1
                  <4>3. tables[t[l].id].order \in Nat /\ tables[t[k].id].order \in Nat
                        BY <1>4, <1>6, <1>8
                  <4> QED BY <2>1, <4>2, <4>3
            <3> QED BY <3>1
      <2> QED BY <2>2, <2>3, <2>4
<1>10. ASSUME NEW n \in 1..Len(list) PROVE \E k \in 1..Len(t) : place[k] = n
      <2>1. list[n] \in EntriesIn(list)
            BY <1>4 DEF EntriesIn
      <2>5. list[n] \in EntriesIn(t)
            BY <1>3, <2>1
      <2>2. PICK k \in DOMAIN t : t[k] = list[n]
            BY <2>5 DEF EntriesIn
      <2>3. list[place[k]].id = list[n].id /\ place[k] \in DOMAIN list
            BY <1>6, <2>2
      <2>4. place[k] = n
            BY <1>4, <2>3 DEF TableListFits, DistinctTables
      <2> QED BY <1>4, <2>4
<1>11. Len(t) = Len(list) /\ \A k \in 1..Len(t) : place[k] = k
       <2>1. Climbs(place, Len(t), Len(list))
             BY <1>7, <1>9, <1>10 DEF Climbs
       <2> QED BY <1>4, <2>1, AscendingCounts
<1>12. \A k \in 1..Len(t) : t[k] = list[k]
       BY <1>4, <1>6, <1>11
<1>13. t = list
       <2>1. t \in [1..Len(t) -> ShownTable] /\ list \in [1..Len(list) -> ShownTable]
             BY <1>3, LenProperties DEF TableListFits
       <2> QED BY <1>11, <1>12, <2>1
<1> QED BY <1>2, <1>13

-----------------------------------------------------------------------------
(* The types, and whose requests there are: a page has its own only, and   *)
(* those of other users excuse it.                                         *)
TableWriteFits(w) ==
  /\ DOMAIN w = {"op", "args", "after", "from", "at", "alone"}
  /\ w.op \in {"alias", "hide", "unhide", "drop", "reindex", "order"}
  /\ w.op = "order" => w.args \in Seq(TableIds)
  /\ w.op # "order" => w.args[1] \in TableIds
  /\ w.op = "alias" => w.args[2] \in 0..1
  /\ TableListFits(w.after) /\ w.alone \in BOOLEAN
  /\ w.from \in {"tabs", "settings", "others"} /\ w.at \in {"sent", "checked", "ok", "error"}
  /\ w.at = "checked" => w.op \in {"hide", "drop"}
  /\ w.from = "tabs" => NoneHidden(w.after) /\ w.op # "unhide"
  /\ w.from = "settings" => w.op \in {"alias", "hide", "unhide", "order"} /\ (w.op = "alias" => ~ w.alone)
  /\ w.from = "others" => w.op \in {"hide", "unhide"}

FetchedTables == [at : {"no", "asked", "read"}, read : {s \in Seq(ShownTable) : DistinctTables(s)}]

RenamingFits(r) ==
  /\ r = [id |-> r.id, alias |-> r.alias, list |-> r.list]
  /\ r.id \in TableIds \cup {0} /\ r.alias \in 0..1 /\ TableListFits(r.list)
  /\ r.id = 0 => r = NoRename

TablesShape ==
  /\ baseTables = [t \in DOMAIN baseTables |-> baseTables[t]] /\ TablesRight(baseTables)
  /\ tablesPage \in {"tabs", "settings"}
  /\ TableListFits(tablesCache) /\ TableListFits(settingsTables)
  /\ TableListFits(tabs) /\ NoneHidden(tabs) /\ TableListFits(tabBar) /\ NoneHidden(tabBar)
  /\ tablesFetch \in FetchedTables
  /\ openTable \in TableIds \cup {0} /\ tabMenu \in TableIds \cup {0}
  /\ RenamingFits(renaming)
  /\ settingsLoading \in BOOLEAN /\ tableExcused \in BOOLEAN /\ racedVisible \in BOOLEAN
  /\ tableActions \in 0..MaxTableActions
  /\ \A w \in tableWrites : TableWriteFits(w)

OnePage ==
  /\ tablesPage = "tabs" => (\A w \in tableWrites : w.from # "settings") /\ renaming = NoRename
  /\ tablesPage = "settings" => (\A w \in tableWrites : w.from # "tabs") /\ tablesFetch = NoTablesFetch
  /\ ~ tableExcused => \A w \in tableWrites : w.from # "others"

AloneTable ==
  ~ tableExcused => \A w \in tableWrites : w.alone =>
    tableWrites = {w} /\ tablesFetch.at = "no" /\ renaming = NoRename

TablesInv == TablesShape /\ OnePage /\ AloneTable

LEMMA AccompaniedFits ==
  ASSUME NEW w, TableWriteFits(w)
  PROVE  /\ TableWriteFits(Accompanied(w)) /\ ~ Accompanied(w).alone
         /\ Accompanied(w).op = w.op /\ Accompanied(w).args = w.args /\ Accompanied(w).after = w.after
         /\ Accompanied(w).from = w.from /\ Accompanied(w).at = w.at
<1> DEFINE a == Accompanied(w)
<1>1. /\ DOMAIN a = DOMAIN w /\ a.op = w.op /\ a.args = w.args /\ a.after = w.after
      /\ a.from = w.from /\ a.at = w.at /\ a.alone = FALSE
      BY DEF Accompanied, TableWriteFits
<1> HIDE DEF a
<1>2. TableWriteFits(a)
      BY <1>1 DEF TableWriteFits
<1> QED BY <1>1, <1>2 DEF a

LEMMA TableAnswerFits ==
  ASSUME NEW w, TableWriteFits(w), NEW at \in {"sent", "checked", "ok", "error"},
         at = "checked" => w.op \in {"hide", "drop"}
  PROVE  LET x == [w EXCEPT !.at = at] IN
         /\ TableWriteFits(x) /\ x.alone = w.alone /\ x.at = at
         /\ x.op = w.op /\ x.args = w.args /\ x.after = w.after /\ x.from = w.from
<1> DEFINE x == [w EXCEPT !.at = at]
<1>1. /\ DOMAIN x = DOMAIN w /\ x.op = w.op /\ x.args = w.args /\ x.after = w.after
      /\ x.from = w.from /\ x.at = at /\ x.alone = w.alone
      BY DEF TableWriteFits
<1> HIDE DEF x
<1>2. TableWriteFits(x)
      BY <1>1 DEF TableWriteFits
<1> QED BY <1>1, <1>2 DEF x

LEMMA NoFetchFits ==
  /\ NoTablesFetch \in FetchedTables /\ NoTablesFetch.at = "no"
  /\ [at |-> "asked", read |-> <<>>] \in FetchedTables
BY EmptyTableList DEF NoTablesFetch, FetchedTables, TableListFits

LEMMA NoRenameFits == RenamingFits(NoRename) /\ NoRename.id = 0
BY EmptyTableList DEF NoRename, RenamingFits

LEMMA TablesBound ==
  ASSUME TablesShape, tableActions < MaxTableActions, tableActions' = tableActions + 1
  PROVE  tableActions' \in 0..MaxTableActions
<1>1. MaxTableActions \in Nat /\ tableActions \in 0..MaxTableActions
      BY TablesAssumption DEF TablesShape
<1> QED BY <1>1

LEMMA NoTableActions == 0 \in 0..MaxTableActions
<1>1. MaxTableActions \in Nat
      BY TablesAssumption
<1> QED BY <1>1

(* A request with what it is for                                           *)
TableArguments(op, args, after, from) ==
  /\ op \in {"alias", "hide", "unhide", "drop", "reindex", "order"}
  /\ op = "order" => args \in Seq(TableIds)
  /\ op # "order" => args[1] \in TableIds
  /\ op = "alias" => args[2] \in 0..1
  /\ TableListFits(after)
  /\ from = "tabs" => NoneHidden(after) /\ op # "unhide"
  /\ from = "settings" => op \in {"hide", "unhide", "order"}
  /\ from \in {"tabs", "settings"}

IsNewTableWrite(n, op, args, after, from) ==
  /\ tableWrites' = {Accompanied(w) : w \in tableWrites} \cup {n}
  /\ TableWriteFits(n) /\ n.op = op /\ n.args = args /\ n.after = after /\ n.from = from
  /\ n.at = "sent"
  /\ n.alone => tableWrites = {} /\ tablesFetch.at = "no" /\ renaming = NoRename

LEMMA TableAskedFits ==
  ASSUME NEW op, NEW args, NEW after, NEW from, TableArguments(op, args, after, from),
         TableAsks(op, args, after, from)
  PROVE  \E n : IsNewTableWrite(n, op, args, after, from)
<1> DEFINE alone == tableWrites = {} /\ tablesFetch.at = "no" /\ renaming = NoRename
<1>1. PICK b \in BOOLEAN : b = alone
      OBVIOUS
<1> DEFINE n == [op |-> op, args |-> args, after |-> after, from |-> from, at |-> "sent", alone |-> b]
<1>2. tableWrites' = {Accompanied(w) : w \in tableWrites} \cup {n}
      BY <1>1 DEF TableAsks
<1>3. /\ DOMAIN n = {"op", "args", "after", "from", "at", "alone"} /\ n.op = op /\ n.args = args
      /\ n.after = after /\ n.from = from /\ n.at = "sent" /\ n.alone = b
      OBVIOUS
<1> HIDE DEF n
<1>4. TableWriteFits(n)
      BY <1>3 DEF TableWriteFits, TableArguments
<1>5. n.alone => alone
      BY <1>1, <1>3
<1> QED BY <1>2, <1>3, <1>4, <1>5 DEF IsNewTableWrite

(* All requests under way, some of them without those that left            *)
LEMMA AccompaniedWrites ==
  ASSUME TablesShape, NEW some \in SUBSET tableWrites
  PROVE  \A w \in {Accompanied(u) : u \in some} :
           /\ TableWriteFits(w) /\ ~ w.alone
           /\ \E u \in some : /\ w.op = u.op /\ w.args = u.args /\ w.after = u.after
                              /\ w.from = u.from /\ w.at = u.at /\ w = Accompanied(u)
<1>1. \A u \in some : TableWriteFits(u)
      BY DEF TablesShape
<1> QED BY <1>1, AccompaniedFits

LEMMA AskingTable ==
  ASSUME TablesInv, NEW op, NEW args, NEW after, TableAsks(op, args, after, tablesPage),
         TableArguments(op, args, after, tablesPage),
         TableListFits(tabs'), NoneHidden(tabs'), TableListFits(tabBar'), NoneHidden(tabBar'),
         openTable' \in TableIds \cup {0}, tabMenu' \in TableIds \cup {0},
         TableListFits(settingsTables'), settingsLoading' \in BOOLEAN, renaming' = renaming,
         tableExcused' \in BOOLEAN, tableExcused => tableExcused'
  PROVE  TablesInv'
<1>1. PICK n : IsNewTableWrite(n, op, args, after, tablesPage)
      BY TableAskedFits
<1>2. /\ tableActions < MaxTableActions /\ tableActions' = tableActions + 1
      /\ UNCHANGED <<baseTables, tablesPage, tablesCache, tablesFetch, racedVisible>>
      BY DEF TableAsks
<1>3. /\ tableWrites' = {Accompanied(w) : w \in tableWrites} \cup {n}
      /\ TableWriteFits(n) /\ n.from = tablesPage
      /\ n.alone => tableWrites = {} /\ tablesFetch.at = "no" /\ renaming = NoRename
      BY <1>1 DEF IsNewTableWrite
<1>4. TablesShape /\ OnePage /\ AloneTable
      BY DEF TablesInv
<1>5. \A w \in tableWrites' : w = n \/ /\ TableWriteFits(w) /\ ~ w.alone
                                       /\ \E u \in tableWrites : w.from = u.from
      BY <1>3, <1>4, AccompaniedWrites
<1>6. TablesShape'
      BY <1>2, <1>3, <1>4, <1>5, TablesBound DEF TablesShape
<1>7. OnePage'
      BY <1>2, <1>3, <1>4, <1>5 DEF OnePage, TablesShape
<1>8. AloneTable'
      <2>1. ASSUME n.alone PROVE tableWrites' = {n}
            BY <1>3, <2>1
      <2> QED BY <1>2, <1>3, <1>5, <2>1 DEF AloneTable
<1> QED BY <1>6, <1>7, <1>8 DEF TablesInv

(* What leaves the requests, the server and the fetches alone              *)
LEMMA TablesOnScreen ==
  ASSUME TablesInv, UNCHANGED <<baseTables, tablesPage, tablesCache, tableWrites, tablesFetch,
                                tableActions, tableExcused, racedVisible, settingsTables,
                                settingsLoading, renaming, tabs, tabBar>>,
         openTable' \in TableIds \cup {0}, tabMenu' \in TableIds \cup {0}
  PROVE  TablesInv'
BY DEF TablesInv, TablesShape, OnePage, AloneTable

-----------------------------------------------------------------------------
(* The tabs                                                                *)

(* What LeavesTabMenu sends for a tab whose alias was changed              *)
LEMMA TabAliasFits ==
  ASSUME TablesShape, NEW i \in DOMAIN tabBar, tabBar[i].id = tabMenu
  PROVE  LET alias == 1 - tabBar[i].alias
             after == Aliased(tabs, tabMenu, alias) IN
         /\ TableArguments("alias", <<tabMenu, alias>>, after, "tabs")
         /\ TableListFits(after) /\ NoneHidden(after)
<1> DEFINE alias == 1 - tabBar[i].alias
           after == Aliased(tabs, tabMenu, alias)
<1>1. tabBar[i].alias \in 0..1 /\ tabMenu \in TableIds
      BY TableLists DEF TablesShape, TableListFits
<1>2. alias \in 0..1
      BY <1>1
<1>3. TableListFits(after) /\ NoneHidden(after)
      <2> HIDE DEF alias
      <2> QED BY <1>2, AliasedTableLists DEF TablesShape
<1> HIDE DEF alias, after
<1>4. TableArguments("alias", <<tabMenu, alias>>, after, "tabs")
      BY <1>1, <1>2, <1>3 DEF TableArguments
<1> QED BY <1>3, <1>4 DEF alias, after

LEMMA TabRemovalFits ==
  ASSUME TablesShape, tabMenu # 0, Len(tabs) > 1, NEW op \in {"hide", "drop"}
  PROVE  LET after == WithoutTable(tabs, tabMenu) IN
         /\ TableArguments(op, <<tabMenu>>, after, "tabs")
         /\ TableListFits(after) /\ NoneHidden(after)
         /\ 1 \in DOMAIN after /\ after[1].id \in TableIds
<1> DEFINE after == WithoutTable(tabs, tabMenu)
<1>1. TableListFits(after) /\ NoneHidden(after) /\ 1 \in DOMAIN after
      BY WithoutTableLists DEF TablesShape
<1> HIDE DEF after
<1>2. after[1].id \in TableIds
      BY <1>1, TableLists DEF TableListFits
<1>3. tabMenu \in TableIds
      BY DEF TablesShape
<1>4. TableArguments(op, <<tabMenu>>, after, "tabs")
      BY <1>1, <1>3 DEF TableArguments
<1> QED BY <1>1, <1>2, <1>4 DEF after

LEMMA ReorderFits ==
  ASSUME NEW s, TableListFits(s), NEW i \in DOMAIN s, NEW j \in DOMAIN s, NEW after,
         TableListFits(after), NEW from \in {"tabs", "settings"}, from = "tabs" => NoneHidden(after)
  PROVE  TableArguments("order", TableIdsOf(Moved(s, i, j)), after, from)
<1>1. TableIdsOf(Moved(s, i, j)) \in Seq(TableIds)
      BY MovedTableLists
<1> QED BY <1>1 DEF TableArguments

LEMMA TabsInvKeep == ASSUME TablesInv, TableTabs PROVE TablesInv'
<1>1. /\ TablesShape /\ OnePage /\ AloneTable /\ tablesPage = "tabs"
      BY DEF TablesInv, TableTabs
<1>2. /\ TableListFits(tabs) /\ NoneHidden(tabs) /\ TableListFits(tabBar) /\ NoneHidden(tabBar)
      /\ openTable \in TableIds \cup {0} /\ tabMenu \in TableIds \cup {0} /\ tableExcused \in BOOLEAN
      /\ TableListFits(settingsTables) /\ settingsLoading \in BOOLEAN
      BY <1>1 DEF TablesShape
<1>3. \A i \in DOMAIN tabBar : tabBar[i].id \in TableIds
      BY <1>2, TableLists DEF TableListFits
<1>4. CASE ChangesTable \/ OpensTabMenu
      <2>1. /\ openTable' \in TableIds \cup {0} /\ tabMenu' \in TableIds \cup {0}
            /\ UNCHANGED <<baseTables, tablesPage, tablesCache, tableWrites, tablesFetch,
                           tableActions, tableExcused, racedVisible, settingsTables,
                           settingsLoading, renaming, tabs, tabBar>>
            BY <1>2, <1>3, <1>4 DEF ChangesTable, OpensTabMenu, TabsOnly
      <2> QED BY <2>1, TablesOnScreen
<1>5. CASE LeavesTabMenu
      <2>1. CASE UNCHANGED <<baseTables, tablesPage, tablesCache, tabs, tabBar, tableWrites,
                             tablesFetch, tableActions, tableExcused, racedVisible>>
            <3>1. openTable' = openTable /\ tabMenu' = 0 /\ TabsOnly
                  BY <1>5 DEF LeavesTabMenu
            <3> QED BY <1>2, <2>1, <3>1, TablesOnScreen DEF TabsOnly
      <2>2. CASE ~ UNCHANGED <<baseTables, tablesPage, tablesCache, tabs, tabBar, tableWrites,
                               tablesFetch, tableActions, tableExcused, racedVisible>>
            <3>1. PICK i \in DOMAIN tabBar :
                    LET alias == 1 - tabBar[i].alias
                        after == Aliased(tabs, tabMenu, alias) IN
                    /\ tabBar[i].id = tabMenu
                    /\ TableAsks("alias", <<tabMenu, alias>>, after, "tabs") /\ SetTabs(after)
                    /\ UNCHANGED tableExcused
                  BY <1>5, <2>2 DEF LeavesTabMenu
            <3> DEFINE alias == 1 - tabBar[i].alias
                       after == Aliased(tabs, tabMenu, alias)
            <3>2. /\ TableArguments("alias", <<tabMenu, alias>>, after, "tabs")
                  /\ TableListFits(after) /\ NoneHidden(after)
                  BY <1>1, <3>1, TabAliasFits
            <3>3. /\ TableAsks("alias", <<tabMenu, alias>>, after, tablesPage)
                  /\ tabs' = after /\ tabBar' = after /\ tableExcused' = tableExcused
                  BY <1>1, <3>1 DEF SetTabs
            <3>4. openTable' = openTable /\ tabMenu' = 0 /\ TabsOnly
                  BY <1>5 DEF LeavesTabMenu
            <3> HIDE DEF alias, after
            <3> QED BY <1>1, <1>2, <3>2, <3>3, <3>4, AskingTable DEF TabsOnly
      <2> QED BY <2>1, <2>2
<1>6. CASE HidesOrDropsTable
      <2> DEFINE after == WithoutTable(tabs, tabMenu)
      <2>1. PICK op \in {"hide", "drop"} : TableAsks(op, <<tabMenu>>, after, "tabs")
            BY <1>6 DEF HidesOrDropsTable
      <2>2. /\ tabMenu # 0 /\ tabMenu' = 0 /\ Len(tabs) > 1 /\ tabs' = after /\ tabBar' = after
            /\ openTable' = (IF openTable = tabMenu THEN after[1].id ELSE openTable)
            /\ UNCHANGED tableExcused /\ TabsOnly
            BY <1>6 DEF HidesOrDropsTable, SetTabs
      <2>3. /\ TableArguments(op, <<tabMenu>>, after, "tabs")
            /\ TableListFits(after) /\ NoneHidden(after) /\ after[1].id \in TableIds
            BY <1>1, <2>2, TabRemovalFits
      <2>4. openTable' \in TableIds \cup {0}
            BY <1>2, <2>2, <2>3
      <2> HIDE DEF after
      <2> QED BY <1>1, <1>2, <2>1, <2>2, <2>3, <2>4, AskingTable DEF TabsOnly
<1>7. CASE ReindexesTable
      <2>1. TableArguments("reindex", <<tabMenu>>, <<>>, "tabs")
            BY <1>2, <1>7, EmptyTableList DEF ReindexesTable, TableArguments
      <2>2. /\ TableAsks("reindex", <<tabMenu>>, <<>>, tablesPage) /\ tabMenu' = 0
            /\ UNCHANGED <<tabs, tabBar, openTable, tableExcused>> /\ TabsOnly
            BY <1>1, <1>7 DEF ReindexesTable
      <2> QED BY <1>1, <1>2, <2>1, <2>2, AskingTable DEF TabsOnly
<1>8. CASE ReordersTabs
      <2>1. PICK i, j \in DOMAIN tabBar :
              /\ tabBar' = Moved(tabBar, i, j)
              /\ TableAsks("order", TableIdsOf(tabBar'), <<>>, "tabs")
            BY <1>8 DEF ReordersTabs
      <2> DEFINE ids == TableIdsOf(Moved(tabBar, i, j))
      <2>2. TableArguments("order", ids, <<>>, "tabs")
            BY <1>2, EmptyTableList, ReorderFits
      <2>3. TableAsks("order", ids, <<>>, tablesPage)
            BY <1>1, <2>1
      <2>4. TableListFits(tabBar') /\ NoneHidden(tabBar')
            BY <1>2, <2>1, MovedTableLists
      <2>5. tableExcused' = (tableExcused \/ tableWrites # {} \/ tablesFetch.at # "no")
            BY <1>8 DEF ReordersTabs
      <2>6. UNCHANGED <<tabs, openTable, tabMenu>> /\ TabsOnly
            BY <1>8 DEF ReordersTabs
      <2> HIDE DEF ids
      <2>7. tableExcused' \in BOOLEAN /\ (tableExcused => tableExcused')
            BY <2>5
      <2> QED BY <1>1, <1>2, <2>2, <2>3, <2>4, <2>6, <2>7, AskingTable DEF TabsOnly
<1>9. CASE TablesAsked
      <2>1. /\ tablesFetch' = [at |-> "asked", read |-> <<>>]
            /\ tableWrites' = {Accompanied(w) : w \in tableWrites}
            /\ UNCHANGED <<baseTables, tablesPage, tablesCache, tableActions, tableExcused, racedVisible,
                           settingsTables, settingsLoading, renaming, tabs, tabBar, openTable, tabMenu>>
            BY <1>9 DEF TablesAsked, TabsOnly, SettingsOnly
      <2>2. \A w \in tableWrites' : TableWriteFits(w) /\ ~ w.alone /\ \E u \in tableWrites : w.from = u.from
            BY <1>1, <2>1, AccompaniedWrites
      <2>3. TablesShape'
            BY <1>1, <2>1, <2>2, NoFetchFits DEF TablesShape
      <2>4. OnePage' /\ AloneTable'
            BY <1>1, <2>1, <2>2 DEF OnePage, AloneTable
      <2> QED BY <2>3, <2>4 DEF TablesInv
<1> QED BY <1>4, <1>5, <1>6, <1>7, <1>8, <1>9 DEF TableTabs, TableTabItemMenu

-----------------------------------------------------------------------------
(* The settings                                                            *)

LEMMA SettingsInvKeep == ASSUME TablesInv, tablesPage = "settings", BaseTablesSettings PROVE TablesInv'
<1>1. /\ TablesShape /\ OnePage /\ AloneTable
      BY DEF TablesInv
<1>2. /\ TableListFits(tabs) /\ NoneHidden(tabs) /\ TableListFits(tabBar) /\ NoneHidden(tabBar)
      /\ openTable \in TableIds \cup {0} /\ tabMenu \in TableIds \cup {0} /\ tableExcused \in BOOLEAN
      /\ TableListFits(settingsTables) /\ settingsLoading \in BOOLEAN
      BY <1>1 DEF TablesShape
<1>3. \A i \in DOMAIN settingsTables : /\ settingsTables[i].id \in TableIds
                                       /\ settingsTables[i].alias \in 0..1 /\ settingsTables[i].hidden \in BOOLEAN
      BY <1>2, TableLists DEF TableListFits
<1>4. CASE RenamesTable
      <2>1. PICK i \in DOMAIN settingsTables :
              LET t == settingsTables[i]  alias == 1 - t.alias IN
              /\ settingsTables' = Aliased(settingsTables, t.id, alias)
              /\ renaming' = [id |-> t.id, alias |-> alias, list |-> settingsTables']
              /\ tableExcused' = (tableExcused \/ renaming.id \notin {0, t.id})
            BY <1>4 DEF RenamesTable
      <2> DEFINE id == settingsTables[i].id
                 alias == 1 - settingsTables[i].alias
      <2>2. id \in TableIds /\ id # 0 /\ alias \in 0..1
            BY <1>3, TablesAssumption
      <2>3. /\ settingsTables' = Aliased(settingsTables, id, alias)
            /\ renaming' = [id |-> id, alias |-> alias, list |-> settingsTables']
            /\ tableExcused' = (tableExcused \/ renaming.id \notin {0, id})
            BY <2>1
      <2> HIDE DEF id, alias
      <2>4. TableListFits(settingsTables') /\ tableExcused' \in BOOLEAN /\ (tableExcused => tableExcused')
            BY <1>2, <2>2, <2>3, AliasedTableLists
      <2>9. RenamingFits(renaming')
            BY <2>2, <2>3, <2>4 DEF RenamingFits
      <2>5. /\ tableActions < MaxTableActions /\ tableActions' = tableActions + 1
            /\ tableWrites' = {Accompanied(w) : w \in tableWrites}
            /\ UNCHANGED <<baseTables, tablesPage, tablesCache, settingsLoading, tablesFetch, racedVisible,
                           tabs, tabBar, openTable, tabMenu>>
            BY <1>4 DEF RenamesTable, SettingsOnly
      <2>6. \A w \in tableWrites' : TableWriteFits(w) /\ ~ w.alone /\ \E u \in tableWrites : w.from = u.from
            BY <1>1, <2>5, AccompaniedWrites
      <2>7. TablesShape'
            BY <1>1, <2>2, <2>3, <2>4, <2>5, <2>6, <2>9, TablesBound DEF TablesShape
      <2>8. OnePage' /\ AloneTable'
            BY <1>1, <2>4, <2>5, <2>6 DEF OnePage, AloneTable
      <2> QED BY <2>7, <2>8 DEF TablesInv
<1>5. CASE RenameFires
      <2> DEFINE n == [op |-> "alias", args |-> <<renaming.id, renaming.alias>>, after |-> renaming.list,
                       from |-> "settings", at |-> "sent", alone |-> FALSE]
      <2>1. /\ renaming # NoRename /\ renaming' = NoRename
            /\ tableWrites' = {Accompanied(w) : w \in tableWrites} \cup {n}
            /\ tableExcused' = (tableExcused \/ \E w \in tableWrites : w.op = "alias")
            /\ UNCHANGED <<baseTables, tablesPage, tablesCache, settingsTables, settingsLoading,
                           tablesFetch, tableActions, racedVisible, tabs, tabBar, openTable, tabMenu>>
            BY <1>5 DEF RenameFires, SettingsOnly
      <2>2. renaming.id \in TableIds /\ renaming.alias \in 0..1 /\ TableListFits(renaming.list)
            BY <1>1, <2>1 DEF TablesShape, RenamingFits
      <2>3. /\ DOMAIN n = {"op", "args", "after", "from", "at", "alone"} /\ n.op = "alias"
            /\ n.args = <<renaming.id, renaming.alias>> /\ n.after = renaming.list
            /\ n.from = "settings" /\ n.at = "sent" /\ n.alone = FALSE
            OBVIOUS
      <2> HIDE DEF n
      <2>4. TableWriteFits(n)
            <3>1. n.args[1] \in TableIds /\ n.args[2] \in 0..1
                  BY <2>2, <2>3
            <3>2. TableListFits(n.after) /\ n.alone \in BOOLEAN /\ ~ n.alone
                  BY <2>2, <2>3
            <3> QED BY <2>3, <3>1, <3>2 DEF TableWriteFits
      <2>5. \A w \in tableWrites' : /\ TableWriteFits(w) /\ ~ w.alone
                                    /\ w = n \/ \E u \in tableWrites : w.from = u.from
            BY <1>1, <2>1, <2>3, <2>4, AccompaniedWrites
      <2>6. tableExcused' \in BOOLEAN /\ (tableExcused => tableExcused')
            BY <1>2, <2>1
      <2>7. TablesShape'
            BY <1>1, <2>1, <2>5, <2>6, NoRenameFits DEF TablesShape
      <2>8. OnePage' /\ AloneTable'
            BY <1>1, <2>1, <2>3, <2>5, <2>6 DEF OnePage, AloneTable
      <2> QED BY <2>7, <2>8 DEF TablesInv
<1>6. CASE TogglesTable
      <2>1. PICK i \in DOMAIN settingsTables :
              LET t == settingsTables[i] IN
              /\ settingsTables' = [settingsTables EXCEPT ![i].hidden = ~ t.hidden]
              /\ TableAsks(IF t.hidden THEN "unhide" ELSE "hide", <<t.id>>, settingsTables, "settings")
              /\ tableExcused' = (tableExcused \/ \E w \in tableWrites : w.op # "alias" /\ w.args[1] = t.id)
            BY <1>6 DEF TogglesTable
      <2> DEFINE id == settingsTables[i].id
                 op == IF settingsTables[i].hidden THEN "unhide" ELSE "hide"
                 h == ~ settingsTables[i].hidden
      <2>2. PICK b \in BOOLEAN : b = h
            OBVIOUS
      <2>3. TableListFits(settingsTables')
            <3>1. settingsTables' = [settingsTables EXCEPT ![i].hidden = b]
                  BY <2>1, <2>2
            <3> QED BY <1>2, <3>1, ToggledTableLists
      <2>4. TableArguments(op, <<id>>, settingsTables, "settings")
            BY <1>2, <1>3 DEF TableArguments
      <2>5. TableAsks(op, <<id>>, settingsTables, tablesPage)
            BY <2>1
      <2>6. tableExcused' \in BOOLEAN /\ (tableExcused => tableExcused')
            BY <2>1
      <2>7. settingsLoading' = TRUE /\ UNCHANGED renaming /\ SettingsOnly
            BY <1>6 DEF TogglesTable
      <2> HIDE DEF id, op, h
      <2> QED BY <1>2, <2>3, <2>4, <2>5, <2>6, <2>7, AskingTable DEF SettingsOnly
<1>7. CASE ReordersSettings
      <2>1. PICK i, j \in DOMAIN settingsTables :
              /\ settingsTables' = Moved(settingsTables, i, j)
              /\ TableAsks("order", TableIdsOf(settingsTables'), settingsTables, "settings")
            BY <1>7 DEF ReordersSettings
      <2> DEFINE ids == TableIdsOf(Moved(settingsTables, i, j))
      <2>2. TableArguments("order", ids, settingsTables, "settings")
            BY <1>2, ReorderFits
      <2>3. TableAsks("order", ids, settingsTables, tablesPage)
            BY <2>1
      <2>4. TableListFits(settingsTables')
            BY <1>2, <2>1, MovedTableLists
      <2>5. tableExcused' = (tableExcused \/ \E w \in tableWrites : w.op = "order")
            BY <1>7 DEF ReordersSettings
      <2>6. settingsLoading' = TRUE /\ UNCHANGED renaming /\ SettingsOnly
            BY <1>7 DEF ReordersSettings
      <2> HIDE DEF ids
      <2>7. tableExcused' \in BOOLEAN /\ (tableExcused => tableExcused')
            BY <2>5
      <2> QED BY <1>2, <2>2, <2>3, <2>4, <2>6, <2>7, AskingTable DEF SettingsOnly
<1> QED BY <1>4, <1>5, <1>6, <1>7 DEF BaseTablesSettings

-----------------------------------------------------------------------------
(* The server                                                              *)

LEMMA OrderedTables ==
  ASSUME TablesRight(baseTables), NEW S, NEW ids \in Seq(S),
         baseTables' = [t \in DOMAIN baseTables |->
             IF \E i \in DOMAIN ids : ids[i] = t
             THEN [baseTables[t] EXCEPT !.order = (CHOOSE i \in DOMAIN ids : ids[i] = t) - 1]
             ELSE baseTables[t]]
  PROVE  /\ DOMAIN baseTables' = DOMAIN baseTables /\ TablesRight(baseTables')
         /\ \A t \in DOMAIN baseTables : /\ baseTables'[t].hidden = baseTables[t].hidden
                                         /\ baseTables'[t].alias = baseTables[t].alias
         /\ \A i \in DOMAIN ids : (\A j \in DOMAIN ids : ids[i] = ids[j] => i = j) /\ ids[i] \in DOMAIN baseTables
              => baseTables'[ids[i]].order = i - 1
<1>1. DOMAIN ids = 1..Len(ids) /\ Len(ids) \in Nat
      BY LenProperties
<1>2. ASSUME NEW t \in DOMAIN baseTables
      PROVE  /\ baseTables'[t] \in StoredTable /\ baseTables'[t].hidden = baseTables[t].hidden
             /\ baseTables'[t].alias = baseTables[t].alias
      <2>1. baseTables[t] \in StoredTable
            BY DEF TablesRight
      <2>2. CASE \E i \in DOMAIN ids : ids[i] = t
            <3> DEFINE k == CHOOSE i \in DOMAIN ids : ids[i] = t
            <3>1. k \in DOMAIN ids
                  BY <2>2
            <3>2. k - 1 \in Nat
                  <4> HIDE DEF k
                  <4> QED BY <1>1, <3>1
            <3>3. baseTables'[t] = [baseTables[t] EXCEPT !.order = k - 1]
                  BY <2>2
            <3> HIDE DEF k
            <3> QED BY <2>1, <3>2, <3>3 DEF StoredTable
      <2>3. CASE ~ \E i \in DOMAIN ids : ids[i] = t
            BY <2>1, <2>3
      <2> QED BY <2>2, <2>3
<1>3. ASSUME NEW i \in DOMAIN ids, \A j \in DOMAIN ids : ids[i] = ids[j] => i = j, ids[i] \in DOMAIN baseTables
      PROVE  baseTables'[ids[i]].order = i - 1
      <2>1. (CHOOSE j \in DOMAIN ids : ids[j] = ids[i]) = i
            BY <1>3
      <2>2. baseTables'[ids[i]] = [baseTables[ids[i]] EXCEPT !.order = i - 1]
            BY <1>3, <2>1
      <2> QED BY <1>3, <2>2 DEF TablesRight, StoredTable
<1> QED BY <1>2, <1>3 DEF TablesRight

(* What the server does with one of its tables                             *)
TableServes(w, at) ==
  /\ TableAnswers(w, at) /\ at \in {"checked", "ok", "error"}
  /\ at = "checked" => w.op \in {"hide", "drop"}
  /\ TablesRight(baseTables') /\ baseTables' = [t \in DOMAIN baseTables' |-> baseTables'[t]]
  /\ racedVisible' \in BOOLEAN /\ tableExcused' \in {tableExcused, TRUE}
  /\ ~ tableExcused' /\ (at # "ok" \/ w.op = "reindex") => baseTables' = baseTables

LEMMA TableServedRight ==
  ASSUME TablesShape, NEW w \in tableWrites, TableHandled(w)
  PROVE  \E at : TableServes(w, at) /\ (at = "ok" => TableServed(w))
<1>1. TableWriteFits(w) /\ TablesRight(baseTables) /\ racedVisible \in BOOLEAN
      BY DEF TablesShape
<1>2. baseTables = [t \in DOMAIN baseTables |-> baseTables[t]]
      BY DEF TablesShape
<1>3. CASE TableChecked(w)
      <2>1. racedVisible' \in BOOLEAN
            BY <1>1, <1>3 DEF TableChecked
      <2>2. TableServes(w, "checked")
            BY <1>1, <1>2, <1>3, <2>1 DEF TableChecked, TableServes
      <2> QED BY <2>2
<1>4. CASE TableRefused(w)
      <2>1. TableServes(w, "error")
            BY <1>1, <1>2, <1>4 DEF TableRefused, TableServes
      <2> QED BY <2>1
<1>5. CASE TableServed(w) \/ TableLost(w)
      <2> DEFINE id == w.args[1]
      <2>1. TableActs(w) /\ UNCHANGED racedVisible
            BY <1>5 DEF TableServed, TableLost
      <2>2. ASSUME id \in DOMAIN baseTables,
                   \/ baseTables' = [baseTables EXCEPT ![id].hidden = TRUE]
                   \/ baseTables' = [baseTables EXCEPT ![id].hidden = FALSE]
            PROVE  TablesRight(baseTables') /\ baseTables' = [t \in DOMAIN baseTables' |-> baseTables'[t]]
            <3>1. PICK h \in BOOLEAN : baseTables' = [baseTables EXCEPT ![id].hidden = h]
                  BY <2>2
            <3>2. DOMAIN baseTables' = DOMAIN baseTables
                  BY <1>2, <3>1
            <3>3. ASSUME NEW t \in DOMAIN baseTables PROVE baseTables'[t] \in StoredTable
                  <4>1. baseTables[t] \in StoredTable
                        BY <1>1 DEF TablesRight
                  <4> QED BY <1>2, <3>1, <4>1 DEF StoredTable
            <3>4. baseTables' = [t \in DOMAIN baseTables' |-> baseTables'[t]]
                  BY <1>2, <3>1
            <3> QED BY <1>1, <3>2, <3>3, <3>4 DEF TablesRight
      <2>3. ASSUME baseTables' = [t \in DOMAIN baseTables \ {id} |-> baseTables[t]]
            PROVE  TablesRight(baseTables') /\ baseTables' = [t \in DOMAIN baseTables' |-> baseTables'[t]]
            BY <1>1, <2>3 DEF TablesRight
      <2>4. ASSUME w.op = "alias", id \in DOMAIN baseTables,
                   baseTables' = [baseTables EXCEPT ![id].alias = w.args[2]]
            PROVE  TablesRight(baseTables') /\ baseTables' = [t \in DOMAIN baseTables' |-> baseTables'[t]]
            <3>1. w.args[2] \in 0..1
                  BY <1>1, <2>4 DEF TableWriteFits
            <3> QED BY <1>1, <1>2, <2>4, <3>1 DEF TablesRight, StoredTable
      <2>5. ASSUME w.op = "order",
                   baseTables' = [t \in DOMAIN baseTables |->
                     IF \E i \in DOMAIN w.args : w.args[i] = t
                     THEN [baseTables[t] EXCEPT !.order = (CHOOSE i \in DOMAIN w.args : w.args[i] = t) - 1]
                     ELSE baseTables[t]]
            PROVE  TablesRight(baseTables') /\ baseTables' = [t \in DOMAIN baseTables' |-> baseTables'[t]]
            <3>1. w.args \in Seq(TableIds)
                  BY <1>1, <2>5 DEF TableWriteFits
            <3>2. TablesRight(baseTables')
                  BY <1>1, <2>5, <3>1, OrderedTables
            <3> QED BY <2>5, <3>2
      <2>6. TablesRight(baseTables') /\ baseTables' = [t \in DOMAIN baseTables' |-> baseTables'[t]]
            BY <1>1, <1>2, <2>1, <2>2, <2>3, <2>4, <2>5 DEF TableActs
      <2>7. w.op = "reindex" => baseTables' = baseTables
            BY <2>1 DEF TableActs
      <2>8. TableServed(w) => TableServes(w, "ok")
            BY <2>1, <2>6, <2>7, <1>1 DEF TableServes, TableServed
      <2>9. TableLost(w) => TableServes(w, "error")
            BY <2>1, <2>6, <1>1 DEF TableServes, TableLost
      <2> QED BY <1>5, <2>8, <2>9
<1> QED BY <1>3, <1>4, <1>5 DEF TableHandled

LEMMA TableAnswerSets ==
  ASSUME TablesShape, NEW w \in tableWrites, NEW at, TableServes(w, at)
  PROVE  \E x : /\ tableWrites' = (tableWrites \ {w}) \cup {x}
                /\ TableWriteFits(x) /\ x.alone = w.alone /\ x.at = at
                /\ x.op = w.op /\ x.args = w.args /\ x.after = w.after /\ x.from = w.from
<1> DEFINE x == [w EXCEPT !.at = at]
<1>1. TableWriteFits(w) /\ at \in {"sent", "checked", "ok", "error"} /\ (at = "checked" => w.op \in {"hide", "drop"})
      BY DEF TablesShape, TableServes
<1>2. /\ TableWriteFits(x) /\ x.alone = w.alone /\ x.at = at
      /\ x.op = w.op /\ x.args = w.args /\ x.after = w.after /\ x.from = w.from
      BY <1>1, TableAnswerFits
<1>3. tableWrites' = (tableWrites \ {w}) \cup {x}
      BY DEF TableServes, TableAnswers
<1> QED BY <1>2, <1>3

LEMMA ServerInvKeeps ==
  ASSUME TablesInv, NEW w \in tableWrites, TableHandled(w) PROVE TablesInv'
<1>1. TablesShape /\ OnePage /\ AloneTable
      BY DEF TablesInv
<1>2. PICK at : TableServes(w, at)
      BY <1>1, TableServedRight
<1>3. PICK x : /\ tableWrites' = (tableWrites \ {w}) \cup {x}
               /\ TableWriteFits(x) /\ x.alone = w.alone /\ x.from = w.from
      BY <1>1, <1>2, TableAnswerSets
<1>4. /\ UNCHANGED <<tablesPage, tablesCache, tablesFetch, tableActions>>
      /\ TabsOnly /\ SettingsOnly
      BY <1>2 DEF TableHandled
<1>8. tableExcused' \in BOOLEAN /\ (tableExcused => tableExcused')
      <2>1. tableExcused \in BOOLEAN /\ tableExcused' \in {tableExcused, TRUE}
            BY <1>1, <1>2 DEF TableServes, TablesShape
      <2> QED BY <2>1
<1>5. TablesShape'
      BY <1>1, <1>2, <1>3, <1>4, <1>8 DEF TablesShape, TableServes, TabsOnly, SettingsOnly
<1>6. OnePage'
      BY <1>1, <1>3, <1>4, <1>8 DEF OnePage, TabsOnly
<1>7. AloneTable'
      <2> SUFFICES ASSUME ~ tableExcused, NEW u \in tableWrites', u.alone
                   PROVE  tableWrites' = {u} /\ tablesFetch.at = "no" /\ renaming = NoRename
          BY <1>4, <1>8 DEF AloneTable, TabsOnly
      <2>1. CASE u = x
            <3>1. tableWrites = {w} /\ tablesFetch.at = "no" /\ renaming = NoRename
                  BY <1>1, <1>3, <2>1 DEF AloneTable
            <3> QED BY <1>3, <2>1, <3>1
      <2>2. CASE u # x
            <3>1. u \in tableWrites /\ u # w
                  BY <1>3, <2>2
            <3> QED BY <1>1, <3>1 DEF AloneTable
      <2> QED BY <2>1, <2>2
<1> QED BY <1>5, <1>6, <1>7 DEF TablesInv

-----------------------------------------------------------------------------
(* The answers, the fetches and the visits                                 *)

LEMMA TablesBecomeRight ==
  ASSUME TablesShape, NEW list, TableListFits(list), TablesBecome(list)
  PROVE  /\ tablesCache' = list /\ TableListFits(tablesCache')
         /\ TableListFits(tabs') /\ NoneHidden(tabs') /\ TableListFits(tabBar') /\ NoneHidden(tabBar')
         /\ openTable' \in TableIds \cup {0}
         /\ \/ list = tablesCache /\ UNCHANGED <<tabs, tabBar, openTable>>
            \/ /\ tabs' = VisibleTables(list) /\ tabBar' = VisibleTables(list)
               /\ list = <<>> \/ HasTable(list, openTable')
<1>1. /\ TableListFits(tabs) /\ NoneHidden(tabs) /\ TableListFits(tabBar) /\ NoneHidden(tabBar)
      /\ openTable \in TableIds \cup {0}
      BY DEF TablesShape
<1>2. CASE list = tablesCache
      BY <1>1, <1>2 DEF TablesBecome
<1>3. CASE list # tablesCache
      <2>1. /\ tablesCache' = list /\ tabs' = VisibleTables(list) /\ tabBar' = VisibleTables(list)
            /\ openTable' = IF list # <<>> /\ ~ HasTable(list, openTable) THEN list[1].id ELSE openTable
            BY <1>3 DEF TablesBecome, SetTabs, TabsOf
      <2>2. ASSUME list # <<>> PROVE list[1].id \in TableIds /\ HasTable(list, list[1].id)
            <3>1. list \in Seq(ShownTable) /\ DOMAIN list = 1..Len(list) /\ Len(list) \in Nat
                  BY TableLists DEF TableListFits
            <3>2. Len(list) # 0
                  BY <2>2, <3>1
            <3>3. 1 \in DOMAIN list
                  BY <3>1, <3>2
            <3> QED BY <3>1, <3>3, TableLists DEF HasTable
      <2>3. openTable' \in TableIds \cup {0} /\ (list = <<>> \/ HasTable(list, openTable'))
            BY <1>1, <2>1, <2>2
      <2>4. TableListFits(VisibleTables(list)) /\ NoneHidden(VisibleTables(list))
            BY VisibleTableLists
      <2> QED BY <2>1, <2>3, <2>4
<1> QED BY <1>2, <1>3

LEMMA AnswersInvKeep ==
  ASSUME TablesInv, NEW w \in tableWrites, TabsAnswered(w) \/ SettingsAnswered(w) \/ OthersAnswered(w)
  PROVE  TablesInv'
<1>1. TablesShape /\ OnePage /\ AloneTable /\ TableWriteFits(w) /\ tableExcused \in BOOLEAN
      BY DEF TablesInv, TablesShape
<1>2. CASE TabsAnswered(w)
      <2>1. /\ w.from = "tabs" /\ tableWrites' = {Accompanied(u) : u \in tableWrites \ {w}}
            /\ tableExcused' = (tableExcused \/ w.at = "error" \/ (w.op = "order" /\ ~ w.alone))
            /\ UNCHANGED <<baseTables, tablesPage, tabMenu, tableActions, racedVisible,
                           settingsTables, settingsLoading, renaming>>
            BY <1>2 DEF TabsAnswered, TabsOnly
      <2>2. \A u \in tableWrites' : /\ TableWriteFits(u) /\ ~ u.alone
                                    /\ \E v \in tableWrites \ {w} : u.from = v.from
            <3> DEFINE some == tableWrites \ {w}
            <3>1. some \in SUBSET tableWrites /\ tableWrites' = {Accompanied(u) : u \in some}
                  BY <2>1
            <3> HIDE DEF some
            <3>2. \A u \in tableWrites' : TableWriteFits(u) /\ ~ u.alone /\ \E v \in some : u.from = v.from
                  BY <1>1, <3>1, AccompaniedWrites
            <3> QED BY <3>2 DEF some
      <2>3. tableExcused' \in BOOLEAN /\ (tableExcused => tableExcused')
            BY <1>1, <2>1
      <2>4. /\ tablesFetch' \in FetchedTables /\ TableListFits(tablesCache')
            /\ TableListFits(tabs') /\ NoneHidden(tabs') /\ TableListFits(tabBar') /\ NoneHidden(tabBar')
            /\ openTable' \in TableIds \cup {0}
            <3>1. CASE w.at = "ok" /\ w.op # "order"
                  <4>1. tablesFetch' \in FetchedTables
                        BY <1>2, <3>1, NoFetchFits DEF TabsAnswered
                  <4>2. CASE w.op = "reindex"
                        BY <1>1, <1>2, <3>1, <4>1, <4>2 DEF TabsAnswered, TablesShape
                  <4>3. CASE w.op # "reindex"
                        <5>1. TablesBecome(w.after) /\ TableListFits(w.after)
                              BY <1>1, <1>2, <3>1, <4>3 DEF TabsAnswered, TableWriteFits
                        <5> QED BY <1>1, <4>1, <5>1, TablesBecomeRight
                  <4> QED BY <4>2, <4>3
            <3>2. CASE ~ (w.at = "ok" /\ w.op # "order")
                  BY <1>1, <1>2, <3>2 DEF TabsAnswered, TablesShape
            <3> QED BY <3>1, <3>2
      <2>5. TablesShape'
            BY <1>1, <2>1, <2>2, <2>3, <2>4 DEF TablesShape
      <2>6. tablesPage = "tabs"
            BY <1>1, <2>1 DEF OnePage, TablesShape
      <2>7. OnePage' /\ AloneTable'
            BY <1>1, <2>1, <2>2, <2>3, <2>6 DEF OnePage, AloneTable
      <2> QED BY <2>5, <2>7 DEF TablesInv
<1>3. CASE SettingsAnswered(w)
      <2>1. /\ w.from = "settings" /\ tableWrites' = tableWrites \ {w}
            /\ settingsTables' = (IF w.at = "error" THEN w.after ELSE settingsTables)
            /\ settingsLoading' \in {settingsLoading, FALSE}
            /\ tableExcused' = (tableExcused \/ (w.at = "error" /\ ~ w.alone))
            /\ UNCHANGED <<baseTables, tablesPage, tablesCache, renaming, tablesFetch, tableActions,
                           racedVisible, tabs, tabBar, openTable, tabMenu>>
            BY <1>3 DEF SettingsAnswered, SettingsOnly, PutBack
      <2>2. tableExcused' \in BOOLEAN /\ (tableExcused => tableExcused')
            BY <1>1, <2>1
      <2>3. TableListFits(settingsTables') /\ settingsLoading' \in BOOLEAN
            BY <1>1, <2>1 DEF TablesShape, TableWriteFits
      <2>4. TablesShape'
            BY <1>1, <2>1, <2>2, <2>3 DEF TablesShape
      <2>5. OnePage' /\ AloneTable'
            BY <1>1, <2>1, <2>2 DEF OnePage, AloneTable
      <2> QED BY <2>4, <2>5 DEF TablesInv
<1>4. CASE OthersAnswered(w)
      <2>1. /\ tableWrites' = tableWrites \ {w}
            /\ UNCHANGED <<baseTables, tablesPage, tablesCache, tablesFetch, tableActions, tableExcused,
                           racedVisible, settingsTables, settingsLoading, renaming,
                           tabs, tabBar, openTable, tabMenu>>
            BY <1>4 DEF OthersAnswered, TabsOnly, SettingsOnly
      <2> QED BY <1>1, <2>1 DEF TablesInv, TablesShape, OnePage, AloneTable
<1> QED BY <1>2, <1>3, <1>4

LEMMA OthersInvKeep == ASSUME TablesInv, OthersHideTable PROVE TablesInv'
<1>1. TablesShape /\ OnePage
      BY DEF TablesInv
<1>2. PICK t \in DOMAIN baseTables, op \in {"hide", "unhide"} :
        tableWrites' = tableWrites \cup
          {[op |-> op, args |-> <<t>>, after |-> <<>>, from |-> "others", at |-> "sent", alone |-> FALSE]}
      BY DEF OthersHideTable
<1> DEFINE n == [op |-> op, args |-> <<t>>, after |-> <<>>, from |-> "others", at |-> "sent", alone |-> FALSE]
<1>3. /\ DOMAIN n = {"op", "args", "after", "from", "at", "alone"} /\ n.op = op /\ n.args = <<t>>
      /\ n.after = <<>> /\ n.from = "others" /\ n.at = "sent" /\ n.alone = FALSE
      OBVIOUS
<1>4. tableWrites' = tableWrites \cup {n}
      BY <1>2
<1> HIDE DEF n
<1>5. TableWriteFits(n)
      <2>1. t \in TableIds
            BY <1>1 DEF TablesShape, TablesRight
      <2>2. n.args[1] \in TableIds
            BY <1>3, <2>1
      <2>3. TableListFits(n.after) /\ n.alone \in BOOLEAN
            BY <1>3, EmptyTableList
      <2>4. n.op \in {"hide", "unhide"}
            BY <1>3
      <2> QED BY <1>3, <2>2, <2>3, <2>4 DEF TableWriteFits
<1>6. /\ tableActions < MaxTableActions /\ tableActions' = tableActions + 1 /\ tableExcused' = TRUE
      /\ UNCHANGED <<baseTables, tablesPage, tablesCache, tablesFetch, racedVisible,
                     settingsTables, settingsLoading, renaming, tabs, tabBar, openTable, tabMenu>>
      BY DEF OthersHideTable, TabsOnly, SettingsOnly
<1>7. TablesShape'
      BY <1>1, <1>4, <1>5, <1>6, TablesBound DEF TablesShape
<1>8. OnePage' /\ AloneTable'
      BY <1>1, <1>3, <1>4, <1>6 DEF OnePage, AloneTable
<1> QED BY <1>7, <1>8 DEF TablesInv

LEMMA FetchesInvKeep == ASSUME TablesInv, TablesRead \/ TablesArrive PROVE TablesInv'
<1>1. TablesShape /\ OnePage /\ AloneTable /\ tableExcused \in BOOLEAN
      BY DEF TablesInv, TablesShape
<1>2. CASE TablesRead
      <2>1. PICK s \in ServerTables(baseTables) : tablesFetch' = [at |-> "read", read |-> s]
            BY <1>2 DEF TablesRead
      <2>2. TableListFits(s)
            BY <1>1, ServerTablesAre DEF ListsTables, TablesShape
      <2>3. tablesFetch' \in FetchedTables
            BY <2>1, <2>2 DEF FetchedTables, TableListFits
      <2>4. /\ tablesFetch.at = "asked"
            /\ UNCHANGED <<baseTables, tablesPage, tablesCache, tableWrites, tableActions, tableExcused,
                     racedVisible, settingsTables, settingsLoading, renaming,
                     tabs, tabBar, openTable, tabMenu>>
            BY <1>2 DEF TablesRead, TabsOnly, SettingsOnly
      <2>5. tablesPage = "tabs"
            BY <1>1, <2>4, NoFetchFits DEF OnePage, TablesShape
      <2>6. TablesShape'
            BY <1>1, <2>3, <2>4 DEF TablesShape
      <2>7. OnePage' /\ AloneTable'
            BY <1>1, <2>4, <2>5 DEF OnePage, AloneTable
      <2> QED BY <2>6, <2>7 DEF TablesInv
<1>3. CASE TablesArrive
      <2>1. /\ tablesFetch.at = "read" /\ tablesFetch' = NoTablesFetch
            /\ \/ TablesBecome(tablesFetch.read) /\ UNCHANGED tableExcused
               \/ UNCHANGED <<tablesCache, tabs, tabBar, openTable>> /\ tableExcused' = TRUE
            /\ UNCHANGED <<baseTables, tablesPage, tabMenu, tableWrites, tableActions, racedVisible,
                           settingsTables, settingsLoading, renaming>>
            BY <1>3 DEF TablesArrive, TabsOnly
      <2>2. TableListFits(tablesFetch.read)
            BY <1>1 DEF TablesShape, FetchedTables, TableListFits
      <2>3. /\ TableListFits(tablesCache') /\ openTable' \in TableIds \cup {0}
            /\ TableListFits(tabs') /\ NoneHidden(tabs') /\ TableListFits(tabBar') /\ NoneHidden(tabBar')
            <3>1. CASE TablesBecome(tablesFetch.read)
                  BY <1>1, <2>2, <3>1, TablesBecomeRight
            <3>2. CASE UNCHANGED <<tablesCache, tabs, tabBar, openTable>>
                  BY <1>1, <3>2 DEF TablesShape
            <3> QED BY <2>1, <3>1, <3>2
      <2>4. tableExcused' \in BOOLEAN /\ (tableExcused => tableExcused')
            BY <1>1, <2>1
      <2>5. TablesShape'
            BY <1>1, <2>1, <2>3, <2>4, NoFetchFits DEF TablesShape
      <2>6. OnePage' /\ AloneTable'
            BY <1>1, <2>1, <2>4, NoFetchFits DEF OnePage, AloneTable
      <2> QED BY <2>5, <2>6 DEF TablesInv
<1> QED BY <1>2, <1>3

(* A visited page                                                          *)
LEMMA VisitedPage ==
  ASSUME VisitTables
  PROVE  /\ TablesRight(baseTables') /\ baseTables' = [t \in DOMAIN baseTables' |-> baseTables'[t]]
         /\ DOMAIN baseTables' # {}
         /\ \E list : /\ list \in ServerTables(baseTables') /\ ListsTables(list, baseTables')
                      /\ TabsPage(list) \/ SettingsPage(list)
                      /\ 1 \in DOMAIN list /\ list[1].id \in TableIds
<1>1. PICK there \in SUBSET TableIds, hid \in SUBSET TableIds :
        /\ hid \subseteq there /\ hid # there
        /\ baseTables' = [t \in there |-> [order |-> Cardinality({u \in there : u < t}),
                                           hidden |-> t \in hid, alias |-> 0]]
      BY DEF VisitTables
<1>2. TablesRight(baseTables')
      <2>1. ASSUME NEW t \in there PROVE baseTables'[t] \in StoredTable
            <3> DEFINE before == {u \in there : u < t}
            <3>1. Cardinality(before) \in Nat
                  <4>1. IsFiniteSet(TableIds)
                        BY TablesAssumption
                  <4>2. before \in SUBSET TableIds
                        OBVIOUS
                  <4> HIDE DEF before
                  <4>3. IsFiniteSet(before)
                        BY <4>1, <4>2, FS_Subset
                  <4> QED BY <4>3, FS_CardinalityType
            <3>2. baseTables'[t] = [order |-> Cardinality(before), hidden |-> t \in hid, alias |-> 0]
                  BY <1>1
            <3> HIDE DEF before
            <3> QED BY <3>1, <3>2 DEF StoredTable
      <2> QED BY <1>1, <2>1 DEF TablesRight
<1>3. DOMAIN baseTables' # {}
      BY <1>1
<1>4. PICK list : list \in ServerTables(baseTables') /\ (TabsPage(list) \/ SettingsPage(list))
      BY DEF VisitTables
<1>5. ListsTables(list, baseTables')
      BY <1>2, <1>4, ServerTablesAre
<1>6. 1 \in DOMAIN list /\ list[1].id \in TableIds
      <2>1. list \in Seq(ShownTable) /\ IdsIn(list) # {}
            BY <1>3, <1>5 DEF ListsTables, TableListFits
      <2>2. \E i \in DOMAIN list : TRUE
            BY <2>1 DEF IdsIn
      <2>3. DOMAIN list = 1..Len(list) /\ Len(list) \in Nat
            BY <2>1, TableLists
      <2>4. 1 \in DOMAIN list
            BY <2>2, <2>3
      <2> QED BY <2>1, <2>4, TableLists
<1>7. baseTables' = [t \in DOMAIN baseTables' |-> baseTables'[t]]
      BY <1>1
<1> QED BY <1>2, <1>3, <1>4, <1>5, <1>6, <1>7

LEMMA VisitInvKeeps == ASSUME TablesInv, VisitTables PROVE TablesInv'
<1>1. /\ TablesRight(baseTables') /\ baseTables' = [t \in DOMAIN baseTables' |-> baseTables'[t]]
      /\ \E list : /\ list \in ServerTables(baseTables') /\ ListsTables(list, baseTables')
                   /\ TabsPage(list) \/ SettingsPage(list)
                   /\ 1 \in DOMAIN list /\ list[1].id \in TableIds
      BY VisitedPage
<1>2. PICK list : /\ ListsTables(list, baseTables') /\ (TabsPage(list) \/ SettingsPage(list))
                  /\ list[1].id \in TableIds
      BY <1>1
<1>3. TableListFits(list) /\ TableListFits(VisibleTables(list)) /\ NoneHidden(VisibleTables(list))
      BY <1>2, VisibleTableLists DEF ListsTables
<1>4. /\ tabMenu' = 0 /\ settingsLoading' = FALSE /\ renaming' = NoRename
      /\ tablesFetch' = NoTablesFetch /\ tableActions' = 0
      /\ tableExcused' = FALSE /\ racedVisible' = FALSE /\ tableWrites' = {}
      BY DEF VisitTables
<1>5. /\ tablesPage' \in {"tabs", "settings"} /\ openTable' \in TableIds \cup {0}
      /\ TableListFits(tablesCache') /\ TableListFits(settingsTables')
      /\ TableListFits(tabs') /\ NoneHidden(tabs') /\ TableListFits(tabBar') /\ NoneHidden(tabBar')
      <2>1. CASE TabsPage(list)
            BY <1>2, <1>3, <2>1, EmptyTableList DEF TabsPage
      <2>2. CASE SettingsPage(list)
            BY <1>3, <2>2, EmptyTableList DEF SettingsPage
      <2> QED BY <1>2, <2>1, <2>2
<1>6. TablesShape'
      BY <1>1, <1>4, <1>5, NoFetchFits, NoRenameFits, NoTableActions DEF TablesShape
<1>7. OnePage' /\ AloneTable'
      BY <1>4 DEF OnePage, AloneTable
<1> QED BY <1>6, <1>7 DEF TablesInv

(* The settings, opened from the tabs                                      *)
LEMMA OpensInvKeeps == ASSUME TablesInv, OpensSettings PROVE TablesInv'
<1>1. TablesShape /\ OnePage
      BY DEF TablesInv
<1>2. /\ tablesPage' = "settings" /\ tablesCache' = <<>> /\ tabs' = <<>> /\ tabBar' = <<>> /\ openTable' = 0
      /\ settingsTables' = tablesCache /\ tabMenu' = 0 /\ settingsLoading' = FALSE /\ renaming' = NoRename
      /\ tablesFetch' = NoTablesFetch /\ tableExcused' \in BOOLEAN /\ tableWrites = {}
      /\ UNCHANGED <<baseTables, tableWrites, tableActions, racedVisible>>
      BY DEF OpensSettings, SettingsPage
<1>3. TablesShape'
      BY <1>1, <1>2, NoFetchFits, NoRenameFits, EmptyTableList DEF TablesShape
<1>4. OnePage' /\ AloneTable'
      BY <1>2 DEF OnePage, AloneTable
<1> QED BY <1>3, <1>4 DEF TablesInv

LEMMA FirstTables ==
  ASSUME TablesInit
  PROVE  /\ TablesRight(baseTables) /\ baseTables = [t \in DOMAIN baseTables |-> baseTables[t]]
         /\ ListsTables(tablesCache, baseTables) /\ NoneHidden(tablesCache)
         /\ 1 \in DOMAIN tablesCache /\ tablesCache[1].id \in TableIds
<1>1. PICK t \in TableIds : baseTables = [u \in {t} |-> [order |-> 0, hidden |-> FALSE, alias |-> 0]]
      BY DEF TablesInit
<1>2. TablesRight(baseTables) /\ DOMAIN baseTables = {t}
      BY <1>1 DEF TablesRight, StoredTable
<1>3. ListsTables(tablesCache, baseTables)
      BY <1>2, ServerTablesAre DEF TablesInit
<1>4. NoneHidden(tablesCache)
      <2>1. ASSUME NEW i \in DOMAIN tablesCache PROVE ~ tablesCache[i].hidden
            <3>1. tablesCache[i].id \in DOMAIN baseTables
                  BY <1>3 DEF ListsTables, IdsIn
            <3>2. tablesCache[i] = TableEntry(baseTables, tablesCache[i].id)
                  BY <1>3 DEF ListsTables
            <3>3. tablesCache[i].id = t
                  BY <1>2, <3>1
            <3>4. tablesCache[i].hidden = baseTables[t].hidden
                  BY <3>2, <3>3 DEF TableEntry
            <3>5. baseTables[t].hidden = FALSE
                  BY <1>1
            <3> QED BY <3>4, <3>5
      <2> QED BY <2>1 DEF NoneHidden
<1>5. 1 \in DOMAIN tablesCache /\ tablesCache[1].id \in TableIds
      <2>1. tablesCache \in Seq(ShownTable) /\ IdsIn(tablesCache) # {}
            BY <1>2, <1>3 DEF ListsTables, TableListFits
      <2>2. \E i \in DOMAIN tablesCache : TRUE
            BY <2>1 DEF IdsIn
      <2>3. DOMAIN tablesCache = 1..Len(tablesCache) /\ Len(tablesCache) \in Nat
            BY <2>1, TableLists
      <2>4. 1 \in DOMAIN tablesCache
            BY <2>2, <2>3
      <2> QED BY <2>1, <2>4, TableLists
<1> QED BY <1>1, <1>2, <1>3, <1>4, <1>5

LEMMA TablesInitInv == TablesInit => TablesInv
<1> SUFFICES ASSUME TablesInit PROVE TablesInv
    OBVIOUS
<1>1. /\ TablesRight(baseTables) /\ baseTables = [t \in DOMAIN baseTables |-> baseTables[t]]
      /\ ListsTables(tablesCache, baseTables) /\ NoneHidden(tablesCache)
      /\ tablesCache[1].id \in TableIds
      BY FirstTables
<1>2. /\ tablesPage = "tabs" /\ tabs = tablesCache /\ tabBar = tablesCache
      /\ openTable = tablesCache[1].id /\ tabMenu = 0
      /\ settingsTables = <<>> /\ settingsLoading = FALSE /\ renaming = NoRename
      /\ tableWrites = {} /\ tablesFetch = NoTablesFetch /\ tableActions = 0
      /\ tableExcused = FALSE /\ racedVisible = FALSE
      BY DEF TablesInit
<1>3. TablesShape
      BY <1>1, <1>2, NoFetchFits, NoRenameFits, NoTableActions, EmptyTableList DEF TablesShape, ListsTables
<1>4. OnePage /\ AloneTable
      BY <1>2 DEF OnePage, AloneTable
<1> QED BY <1>3, <1>4 DEF TablesInv

LEMMA TablesInvNext == TablesInv /\ [TablesNext]_tableVars => TablesInv'
<1>1. ASSUME TablesInv, UNCHANGED tableVars PROVE TablesInv'
      BY <1>1 DEF tableVars, TablesInv, TablesShape, OnePage, AloneTable
<1> QED BY <1>1, TabsInvKeep, SettingsInvKeep, ServerInvKeeps, AnswersInvKeep, OthersInvKeep,
           FetchesInvKeep, OpensInvKeeps, VisitInvKeeps DEF TablesNext

LEMMA TablesAlways == TablesSpec => []TablesInv
BY TablesInitInv, TablesInvNext, PTL DEF TablesSpec

(* The lists of tables, wherever they are kept, are lists of tables of the *)
(* base, and every request is one of those the handlers send.              *)
THEOREM TablesTypeCorrect == TablesSpec => []TablesTypeOK
<1>1. TablesInv => TablesTypeOK
      <2> SUFFICES ASSUME TablesInv PROVE TablesTypeOK
          OBVIOUS
      <2>1. TablesShape
            BY DEF TablesInv
      <2>2. {openTable, tabMenu, renaming.id} \subseteq TableIds \cup {0}
            BY <2>1 DEF TablesShape, RenamingFits
      <2>3. {settingsLoading, tableExcused, racedVisible} \subseteq BOOLEAN
            BY <2>1 DEF TablesShape
      <2>4. \A s \in {tablesCache, tabs, tabBar, settingsTables, renaming.list, tablesFetch.read} :
              s \in Seq(ShownTable)
            BY <2>1 DEF TablesShape, TableListFits, FetchedTables, RenamingFits
      <2>5. tablesFetch.at \in {"no", "asked", "read"}
            BY <2>1 DEF TablesShape, FetchedTables
      <2> QED BY <2>1, <2>2, <2>3, <2>4, <2>5 DEF TablesTypeOK, TablesShape, TablesRight, TableWriteFits
<1> QED BY <1>1, TablesAlways, PTL

-----------------------------------------------------------------------------
(* What the tabs follow while requests and a revalidation are under way,   *)
(* unless something already has gone wrong that ends in an excuse.         *)
Changing(w) == w.op \in {"alias", "hide", "drop"}
TabsDoomed == \E w \in tableWrites : w.at = "error" \/ (w.op = "order" /\ ~ w.alone)
TabsOpen == tablesPage = "tabs" /\ ~ tableExcused /\ ~ TabsDoomed

(* What was read is still the server's, or will be read again.             *)
FetchFollows ==
  tablesFetch.at = "read" => \/ tablesFetch.read \in ServerTables(baseTables)
                             \/ \E w \in tableWrites : w.op # "order" /\ w.at = "ok"

(* The bar shows the cache, or what a handler expects, or the order it has *)
(* sent.                                                                   *)
BarFollows ==
  \/ tabBar = VisibleTables(tablesCache)
  \/ \E w \in tableWrites : Changing(w) /\ tabBar = w.after
  \/ /\ \A w \in tableWrites : ~ Changing(w)
     /\ ShowsServer(tabBar, baseTables) \/ \E w \in tableWrites : w.op = "order"

(* The tables of the bar and the open one are in the cache, or in what a   *)
(* handler will put there.                                                 *)
KnownTable(id) ==
  HasTable(tablesCache, id) \/ \E w \in tableWrites : Changing(w) /\ HasTable(w.after, id)
TabsKnown ==
  (\A i \in DOMAIN tabBar : KnownTable(tabBar[i].id)) /\ (tablesCache = <<>> \/ KnownTable(openTable))

(* With nothing but an order under way, the bar has the server's tables,   *)
(* and their order once that is served.                                    *)
BarRests ==
  tablesFetch.at = "no" /\ (\A w \in tableWrites : w.op = "order") =>
    /\ IdsIn(tablesCache) = DOMAIN baseTables
    /\ (\A w \in tableWrites : w.at = "ok") => ShowsServer(tabBar, baseTables)
    /\ \A w \in tableWrites : w.at # "ok" =>
         w.args = TableIdsOf(tabBar) /\ EntriesIn(tabBar) = VisibleEntries(baseTables)

TabsRight == FetchFollows /\ BarFollows /\ TabsKnown /\ BarRests
TabsFollow == TabsOpen => TabsRight

(* Requests that have company are no orders, and stay.                     *)
LEMMA CompanyStays ==
  ASSUME TablesShape, NEW some \in SUBSET tableWrites,
         {Accompanied(u) : u \in some} \subseteq tableWrites', ~ TabsDoomed'
  PROVE  \A u \in some : /\ u.op # "order" /\ u.at # "error"
                         /\ \E x \in tableWrites' : x.op = u.op /\ x.after = u.after /\ x.at = u.at
<1> SUFFICES ASSUME NEW u \in some
             PROVE  /\ u.op # "order" /\ u.at # "error"
                    /\ \E x \in tableWrites' : x.op = u.op /\ x.after = u.after /\ x.at = u.at
    OBVIOUS
<1>1. TableWriteFits(u)
      BY DEF TablesShape
<1> DEFINE a == Accompanied(u)
<1>2. a \in tableWrites'
      OBVIOUS
<1>3. ~ a.alone /\ a.op = u.op /\ a.after = u.after /\ a.at = u.at
      BY <1>1, AccompaniedFits
<1> HIDE DEF a
<1>4. ~ (a.at = "error" \/ (a.op = "order" /\ ~ a.alone))
      BY <1>2 DEF TabsDoomed
<1> QED BY <1>2, <1>3, <1>4

LEMMA KnownStays ==
  ASSUME \A u \in tableWrites : Changing(u) => \E x \in tableWrites' : x.op = u.op /\ x.after = u.after,
         tablesCache' = tablesCache, NEW id, KnownTable(id)
  PROVE  HasTable(tablesCache', id) \/ \E w \in tableWrites' : Changing(w) /\ HasTable(w.after, id)
<1>1. CASE HasTable(tablesCache, id)
      BY <1>1
<1>2. CASE \E w \in tableWrites : Changing(w) /\ HasTable(w.after, id)
      BY <1>2 DEF Changing
<1> QED BY <1>1, <1>2 DEF KnownTable

LEMMA KnownStill ==
  ASSUME \A u \in tableWrites : Changing(u) => \E x \in tableWrites' : x.op = u.op /\ x.after = u.after,
         UNCHANGED <<tablesCache, tabBar, openTable>>, TabsKnown
  PROVE  TabsKnown'
<1>1. \A i \in DOMAIN tabBar : KnownTable(tabBar[i].id)'
      BY KnownStays DEF TabsKnown, KnownTable
<1>2. tablesCache' = <<>> \/ KnownTable(openTable)'
      BY KnownStays DEF TabsKnown, KnownTable
<1> QED BY <1>1, <1>2 DEF TabsKnown

(* A handler of the tabs that shows what it expects                        *)
LEMMA ChangeFollows ==
  ASSUME TablesShape, TabsFollow, NEW n, NEW op \in {"alias", "hide", "drop"}, NEW args, NEW after,
         IsNewTableWrite(n, op, args, after, "tabs"), tabBar' = after,
         UNCHANGED <<baseTables, tablesPage, tablesCache, tablesFetch, tableExcused>>,
         openTable' = openTable \/ HasTable(after, openTable'), TabsOpen'
  PROVE  TabsRight'
<1>1. /\ tableWrites' = {Accompanied(w) : w \in tableWrites} \cup {n}
      /\ n.op = op /\ n.after = after /\ Changing(n) /\ n.op # "order"
      BY DEF IsNewTableWrite, Changing
<1>2. ~ TabsDoomed' /\ tablesPage = "tabs" /\ ~ tableExcused
      BY DEF TabsOpen
<1>3. \A u \in tableWrites : /\ u.op # "order" /\ u.at # "error"
                             /\ \E x \in tableWrites' : x.op = u.op /\ x.after = u.after /\ x.at = u.at
      BY <1>1, <1>2, CompanyStays
<1>4. TabsRight
      BY <1>2, <1>3 DEF TabsFollow, TabsOpen, TabsDoomed
<1>5. FetchFollows'
      BY <1>3, <1>4 DEF TabsRight, FetchFollows
<1>6. BarFollows'
      BY <1>1 DEF BarFollows
<1>7. \A i \in DOMAIN after : HasTable(after, after[i].id)
      BY DEF HasTable
<1>8. tablesCache' = <<>> \/ KnownTable(openTable)'
      <2>1. CASE openTable' = openTable
            BY <1>3, <1>4, <2>1, KnownStays DEF TabsRight, TabsKnown, KnownTable
      <2>2. CASE HasTable(after, openTable')
            BY <1>1, <2>2 DEF KnownTable
      <2> QED BY <2>1, <2>2
<1>9. TabsKnown'
      BY <1>1, <1>7, <1>8 DEF TabsKnown, KnownTable
<1>10. BarRests'
       BY <1>1 DEF BarRests
<1> QED BY <1>5, <1>6, <1>9, <1>10 DEF TabsRight

(* A request, or a revalidation, that shows nothing                        *)
LEMMA NothingShown ==
  ASSUME TablesShape, TabsFollow, {Accompanied(w) : w \in tableWrites} \subseteq tableWrites',
         \A x \in tableWrites' : ~ Changing(x) \/ x \in {Accompanied(w) : w \in tableWrites},
         UNCHANGED <<baseTables, tablesPage, tablesCache, tableExcused, tabBar, openTable>>,
         tablesFetch' = tablesFetch \/ tablesFetch'.at = "asked",
         tablesFetch'.at = "asked" \/ \E x \in tableWrites' : x.op # "order", TabsOpen'
  PROVE  TabsRight'
<1>1. ~ TabsDoomed' /\ tablesPage = "tabs" /\ ~ tableExcused
      BY DEF TabsOpen
<1>2. \A u \in tableWrites : /\ u.op # "order" /\ u.at # "error"
                             /\ \E x \in tableWrites' : x.op = u.op /\ x.after = u.after /\ x.at = u.at
      BY <1>1, CompanyStays
<1>3. TabsRight
      BY <1>1, <1>2 DEF TabsFollow, TabsOpen, TabsDoomed
<1>4. FetchFollows'
      <2>1. CASE tablesFetch' = tablesFetch
            BY <1>2, <1>3, <2>1 DEF TabsRight, FetchFollows
      <2>2. CASE tablesFetch'.at = "asked"
            BY <2>2 DEF FetchFollows
      <2> QED BY <2>1, <2>2
<1>5. BarFollows'
      <2>1. CASE tabBar = VisibleTables(tablesCache)
            BY <2>1 DEF BarFollows
      <2>2. CASE \E w \in tableWrites : Changing(w) /\ tabBar = w.after
            BY <1>2, <2>2 DEF BarFollows, Changing
      <2>3. CASE /\ \A w \in tableWrites : ~ Changing(w)
                 /\ ShowsServer(tabBar, baseTables) \/ \E w \in tableWrites : w.op = "order"
            <3>1. ShowsServer(tabBar, baseTables)
                  BY <1>2, <2>3
            <3>2. \A x \in {Accompanied(w) : w \in tableWrites} : ~ Changing(x)
                  <4>1. \A w \in tableWrites : Accompanied(w).op = w.op
                        BY AccompaniedFits DEF TablesShape
                  <4> QED BY <2>3, <4>1 DEF Changing
            <3> QED BY <3>1, <3>2 DEF BarFollows, ShowsServer
      <2> QED BY <1>3, <2>1, <2>2, <2>3 DEF TabsRight, BarFollows
<1>6. TabsKnown'
      BY <1>2, <1>3, KnownStill DEF TabsRight
<1>7. BarRests'
      BY DEF BarRests
<1> QED BY <1>4, <1>5, <1>6, <1>7 DEF TabsRight

(* An order that is sent alone                                             *)
LEMMA OrderFollowsBar ==
  ASSUME TablesInv, TabsFollow, tablesPage = "tabs", ReordersTabs, TabsOpen' PROVE TabsRight'
<1>1. PICK i, j \in DOMAIN tabBar :
        /\ tabBar' = Moved(tabBar, i, j)
        /\ TableAsks("order", TableIdsOf(tabBar'), <<>>, "tabs")
      BY DEF ReordersTabs
<1>2. /\ tableExcused' = (tableExcused \/ tableWrites # {} \/ tablesFetch.at # "no")
      /\ UNCHANGED <<tabs, openTable, tabMenu>>
      BY DEF ReordersTabs
<1>3. ~ tableExcused /\ tableWrites = {} /\ tablesFetch.at = "no"
      BY <1>2 DEF TabsOpen
<1>4. TableListFits(tabBar) /\ TablesRight(baseTables)
      BY DEF TablesInv, TablesShape
<1>5. TabsRight
      BY <1>3 DEF TabsFollow, TabsOpen, TabsDoomed
<1>6. IdsIn(tablesCache) = DOMAIN baseTables /\ ShowsServer(tabBar, baseTables)
      BY <1>3, <1>5 DEF TabsRight, BarRests
<1>7. EntriesIn(tabBar) = VisibleEntries(baseTables)
      BY <1>4, <1>6, ShownIsVisible
<1>8. EntriesIn(tabBar') = EntriesIn(tabBar) /\ IdsIn(tabBar') = IdsIn(tabBar)
      BY <1>1, <1>4, MovedTableLists
<1>9. UNCHANGED <<baseTables, tablesPage, tablesCache, tablesFetch, racedVisible>>
      BY <1>1 DEF TableAsks
<1>10. \A x \in tableWrites' : x.op = "order" /\ x.args = TableIdsOf(tabBar') /\ x.at = "sent"
       BY <1>1, <1>3 DEF TableAsks
<1>11. \E x \in tableWrites' : x.op = "order"
       <2> DEFINE ids == TableIdsOf(Moved(tabBar, i, j))
       <2>1. TableArguments("order", ids, <<>>, "tabs") /\ TableAsks("order", ids, <<>>, "tabs")
             BY <1>1, <1>4, EmptyTableList, ReorderFits
       <2> HIDE DEF ids
       <2>2. PICK n : IsNewTableWrite(n, "order", ids, <<>>, "tabs")
             BY <2>1, TableAskedFits
       <2> QED BY <2>2 DEF IsNewTableWrite
<1>12. FetchFollows'
       BY <1>3, <1>9 DEF FetchFollows
<1>13. BarFollows'
       BY <1>10, <1>11 DEF BarFollows, Changing
<1>14. \A id : HasTable(tablesCache, id) => KnownTable(id)'
       BY <1>9 DEF KnownTable
<1>15. \A id : KnownTable(id) => HasTable(tablesCache, id)
       BY <1>3 DEF KnownTable
<1>16. TabsKnown'
       <2>1. \A k \in DOMAIN tabBar' : HasTable(tablesCache, tabBar'[k].id)
             <3> SUFFICES ASSUME NEW k \in DOMAIN tabBar' PROVE HasTable(tablesCache, tabBar'[k].id)
                 OBVIOUS
             <3>1. tabBar'[k].id \in IdsIn(tabBar')
                   BY DEF IdsIn
             <3>2. PICK l \in DOMAIN tabBar : tabBar[l].id = tabBar'[k].id
                   BY <1>8, <3>1 DEF IdsIn
             <3> QED BY <1>5, <1>15, <3>2 DEF TabsRight, TabsKnown
       <2>2. tablesCache = <<>> \/ HasTable(tablesCache, openTable)
             BY <1>5, <1>15 DEF TabsRight, TabsKnown
       <2> QED BY <1>2, <1>9, <1>14, <2>1, <2>2 DEF TabsKnown
<1>17. BarRests'
       BY <1>6, <1>7, <1>8, <1>9, <1>10, <1>11 DEF BarRests
<1> QED BY <1>12, <1>13, <1>16, <1>17 DEF TabsRight

LEMMA TabsStepFollows ==
  ASSUME TablesInv, TabsFollow, TableTabs, TabsOpen' PROVE TabsRight'
<1>1. /\ TablesShape /\ OnePage /\ AloneTable /\ tablesPage = "tabs"
      BY DEF TablesInv, TableTabs
<1>2. CASE ChangesTable
      <2>1. UNCHANGED <<baseTables, tablesPage, tablesCache, tabs, tabBar, tabMenu, tableWrites,
                        tablesFetch, tableActions, tableExcused, racedVisible>>
            BY <1>2 DEF ChangesTable
      <2>2. PICK i \in DOMAIN tabBar : openTable' = tabBar[i].id
            BY <1>2 DEF ChangesTable
      <2>3. TabsRight
            BY <2>1 DEF TabsFollow, TabsOpen, TabsDoomed
      <2>4. KnownTable(openTable)'
            BY <2>1, <2>2, <2>3 DEF TabsRight, TabsKnown, KnownTable
      <2>5. TabsKnown'
            BY <2>1, <2>3, <2>4 DEF TabsRight, TabsKnown, KnownTable
      <2> QED BY <2>1, <2>3, <2>5 DEF TabsRight, FetchFollows, BarFollows, BarRests
<1>3. ASSUME UNCHANGED <<baseTables, tablesPage, tablesCache, tabs, tabBar, tableWrites,
                         tablesFetch, tableActions, tableExcused, racedVisible>>,
             openTable' = openTable
      PROVE  TabsRight'
      <2>1. TabsRight
            BY <1>3 DEF TabsFollow, TabsOpen, TabsDoomed
      <2> QED BY <1>3, <2>1 DEF TabsRight, FetchFollows, BarFollows, TabsKnown, KnownTable, BarRests
<1>4. CASE OpensTabMenu
      BY <1>3, <1>4 DEF OpensTabMenu
<1>5. CASE LeavesTabMenu
      <2>1. CASE UNCHANGED <<baseTables, tablesPage, tablesCache, tabs, tabBar, tableWrites,
                             tablesFetch, tableActions, tableExcused, racedVisible>>
            BY <1>3, <1>5, <2>1 DEF LeavesTabMenu
      <2>2. CASE ~ UNCHANGED <<baseTables, tablesPage, tablesCache, tabs, tabBar, tableWrites,
                               tablesFetch, tableActions, tableExcused, racedVisible>>
            <3>1. PICK i \in DOMAIN tabBar :
                    LET alias == 1 - tabBar[i].alias
                        after == Aliased(tabs, tabMenu, alias) IN
                    /\ tabBar[i].id = tabMenu
                    /\ TableAsks("alias", <<tabMenu, alias>>, after, "tabs") /\ SetTabs(after)
                    /\ UNCHANGED tableExcused
                  BY <1>5, <2>2 DEF LeavesTabMenu
            <3> DEFINE alias == 1 - tabBar[i].alias
                       after == Aliased(tabs, tabMenu, alias)
            <3>2. TableArguments("alias", <<tabMenu, alias>>, after, "tabs")
                  BY <1>1, <3>1, TabAliasFits
            <3>3. /\ TableAsks("alias", <<tabMenu, alias>>, after, "tabs")
                  /\ tabBar' = after /\ tableExcused' = tableExcused /\ openTable' = openTable
                  BY <1>5, <3>1 DEF SetTabs, LeavesTabMenu
            <3> HIDE DEF alias, after
            <3>4. UNCHANGED <<baseTables, tablesPage, tablesCache, tablesFetch, racedVisible>>
                  BY <3>3 DEF TableAsks
            <3>5. PICK n : IsNewTableWrite(n, "alias", <<tabMenu, alias>>, after, "tabs")
                  BY <3>2, <3>3, TableAskedFits
            <3> QED BY <1>1, <3>3, <3>4, <3>5, ChangeFollows
      <2> QED BY <2>1, <2>2
<1>6. CASE HidesOrDropsTable
      <2> DEFINE after == WithoutTable(tabs, tabMenu)
      <2>1. PICK op \in {"hide", "drop"} : TableAsks(op, <<tabMenu>>, after, "tabs")
            BY <1>6 DEF HidesOrDropsTable
      <2>2. /\ tabMenu # 0 /\ Len(tabs) > 1 /\ tabBar' = after
            /\ openTable' = (IF openTable = tabMenu THEN after[1].id ELSE openTable)
            /\ UNCHANGED tableExcused
            BY <1>6 DEF HidesOrDropsTable, SetTabs
      <2>3. TableArguments(op, <<tabMenu>>, after, "tabs") /\ 1 \in DOMAIN after
            BY <1>1, <2>2, TabRemovalFits
      <2> HIDE DEF after
      <2>4. openTable' = openTable \/ HasTable(after, openTable')
            BY <2>2, <2>3 DEF HasTable
      <2>5. UNCHANGED <<baseTables, tablesPage, tablesCache, tablesFetch, racedVisible>>
            BY <2>1 DEF TableAsks
      <2>6. PICK n : IsNewTableWrite(n, op, <<tabMenu>>, after, "tabs")
            BY <2>1, <2>3, TableAskedFits
      <2> QED BY <1>1, <2>2, <2>4, <2>5, <2>6, ChangeFollows
<1>7. CASE ReindexesTable
      <2>1. TableArguments("reindex", <<tabMenu>>, <<>>, "tabs")
            BY <1>1, <1>7, EmptyTableList DEF ReindexesTable, TableArguments, TablesShape
      <2>2. /\ TableAsks("reindex", <<tabMenu>>, <<>>, "tabs")
            /\ UNCHANGED <<tabs, tabBar, openTable, tableExcused>>
            BY <1>7 DEF ReindexesTable
      <2>3. UNCHANGED <<baseTables, tablesPage, tablesCache, tablesFetch, racedVisible>>
            BY <2>2 DEF TableAsks
      <2>4. PICK n : IsNewTableWrite(n, "reindex", <<tabMenu>>, <<>>, "tabs")
            BY <2>1, <2>2, TableAskedFits
      <2>5. /\ tableWrites' = {Accompanied(w) : w \in tableWrites} \cup {n}
            /\ ~ Changing(n) /\ n.op # "order"
            BY <2>4 DEF IsNewTableWrite, Changing
      <2> QED BY <1>1, <2>2, <2>3, <2>5, NothingShown
<1>8. CASE ReordersTabs
      BY <1>1, <1>8, OrderFollowsBar
<1>9. CASE TablesAsked
      <2>1. /\ tablesFetch' = [at |-> "asked", read |-> <<>>]
            /\ tableWrites' = {Accompanied(w) : w \in tableWrites}
            /\ UNCHANGED <<baseTables, tablesPage, tablesCache, tableExcused, tabBar, openTable>>
            BY <1>9 DEF TablesAsked, SettingsOnly
      <2>2. tablesFetch'.at = "asked"
            BY <2>1
      <2> QED BY <1>1, <2>1, <2>2, NothingShown
<1> QED BY <1>2, <1>4, <1>5, <1>6, <1>7, <1>8, <1>9 DEF TableTabs, TableTabItemMenu

-----------------------------------------------------------------------------
(* The server's steps, for the tabs                                        *)
HandledTable(w, x) ==
  /\ tableWrites' = (tableWrites \ {w}) \cup {x}
  /\ TableWriteFits(x) /\ x.alone = w.alone
  /\ x.op = w.op /\ x.args = w.args /\ x.after = w.after /\ x.from = w.from

LEMMA HandledStays ==
  ASSUME NEW w \in tableWrites, NEW x, HandledTable(w, x), w.at # "error", ~ TabsDoomed'
  PROVE  /\ ~ TabsDoomed /\ x \in tableWrites'
         /\ \A u \in tableWrites : \E y \in tableWrites' : y.op = u.op /\ y.after = u.after
         /\ \A y \in tableWrites' : \E u \in tableWrites : y.op = u.op /\ y.after = u.after
         /\ \A u \in tableWrites : u # w => u \in tableWrites'
BY DEF HandledTable, TabsDoomed

LEMMA ServedOrderFollows ==
  ASSUME TablesInv, TabsFollow, TablesInv', NEW w \in tableWrites, w.op = "order", w.at = "sent", tablesPage = "tabs",
         TableServed(w), UNCHANGED <<tablesCache, tablesFetch, tablesPage, tabBar, openTable>>, TabsOpen'
  PROVE  TabsRight'
<1>1. TablesShape /\ AloneTable /\ TablesRight(baseTables) /\ TableListFits(tabBar) /\ TableWriteFits(w)
      BY DEF TablesInv, TablesShape
<1>2. TableServes(w, "ok") /\ ~ tableExcused /\ UNCHANGED tableExcused
      <2>1. TableAnswers(w, "ok") /\ UNCHANGED <<racedVisible, tableExcused>>
            BY DEF TableServed
      <2>2. /\ TablesRight(baseTables') /\ baseTables' = [t \in DOMAIN baseTables' |-> baseTables'[t]]
            /\ racedVisible' \in BOOLEAN
            BY DEF TablesInv, TablesShape
      <2> QED BY <2>1, <2>2 DEF TableServes, TabsOpen
<1>3. PICK x : HandledTable(w, x) /\ x.at = "ok"
      BY <1>1, <1>2, TableAnswerSets DEF HandledTable
<1>4. /\ ~ TabsDoomed /\ w.alone
      BY <1>3, HandledStays DEF TabsOpen, TabsDoomed, HandledTable
<1>5. tableWrites = {w} /\ tablesFetch.at = "no" /\ TabsRight
      BY <1>1, <1>2, <1>4 DEF AloneTable, TabsFollow, TabsOpen
<1>6. tableWrites' = {x} /\ x.op = "order" /\ x.at = "ok"
      BY <1>3, <1>5 DEF HandledTable
<1>7. /\ IdsIn(tablesCache) = DOMAIN baseTables /\ w.args = TableIdsOf(tabBar)
      /\ EntriesIn(tabBar) = VisibleEntries(baseTables)
      BY <1>5 DEF TabsRight, BarRests
<1> DEFINE ids == TableIdsOf(tabBar)
<1>8. baseTables' = [t \in DOMAIN baseTables |->
             IF \E i \in DOMAIN ids : ids[i] = t
             THEN [baseTables[t] EXCEPT !.order = (CHOOSE i \in DOMAIN ids : ids[i] = t) - 1]
             ELSE baseTables[t]]
      BY <1>7 DEF TableServed, TableActs
<1>9. /\ ids \in Seq(TableIds) /\ DOMAIN ids = DOMAIN tabBar
      /\ \A i \in DOMAIN tabBar : ids[i] = tabBar[i].id
      BY <1>1, TableIdLists DEF TableIdsOf
<1> HIDE DEF ids
<1>10. /\ DOMAIN baseTables' = DOMAIN baseTables /\ TablesRight(baseTables')
       /\ \A t \in DOMAIN baseTables : /\ baseTables'[t].hidden = baseTables[t].hidden
                                       /\ baseTables'[t].alias = baseTables[t].alias
       /\ \A i \in DOMAIN ids : (\A j \in DOMAIN ids : ids[i] = ids[j] => i = j) /\ ids[i] \in DOMAIN baseTables
            => baseTables'[ids[i]].order = i - 1
       BY <1>1, <1>8, <1>9, OrderedTables
<1>11. VisibleEntries(baseTables') = VisibleEntries(baseTables)
       BY <1>10 DEF VisibleEntries, TableEntry
<1>12. \A i \in DOMAIN tabBar : baseTables'[tabBar[i].id].order = i - 1
       <2> SUFFICES ASSUME NEW i \in DOMAIN tabBar PROVE baseTables'[tabBar[i].id].order = i - 1
           OBVIOUS
       <2>1. tabBar[i] \in VisibleEntries(baseTables)
             BY <1>7 DEF EntriesIn
       <2>2. tabBar[i].id \in DOMAIN baseTables
             BY <2>1 DEF VisibleEntries, TableEntry
       <2>3. \A j \in DOMAIN ids : ids[i] = ids[j] => i = j
             BY <1>1, <1>9 DEF TableListFits, DistinctTables
       <2> QED BY <1>9, <1>10, <2>2, <2>3
<1>13. ShowsServer(tabBar, baseTables')
       <2>1. DOMAIN tabBar = 1..Len(tabBar)
             BY <1>1, TableLists DEF TableListFits
       <2>2. \A k, l \in DOMAIN tabBar : k < l =>
               baseTables'[tabBar[k].id].order < baseTables'[tabBar[l].id].order
             BY <1>12, <2>1
       <2>3. EntriesIn(tabBar) = VisibleEntries(baseTables')
             BY <1>7, <1>11
       <2> QED BY <1>1, <1>10, <2>2, <2>3, AscendingIsShown
<1>14. FetchFollows'
       BY <1>5 DEF FetchFollows
<1>15. BarFollows'
       BY <1>6, <1>13 DEF BarFollows, Changing, ShowsServer
<1>16. TabsKnown'
       BY <1>5, <1>6, KnownStill DEF TabsRight, Changing
<1>17. BarRests'
       BY <1>6, <1>7, <1>10, <1>13 DEF BarRests, ShowsServer
<1> QED BY <1>14, <1>15, <1>16, <1>17 DEF TabsRight

LEMMA HandledFollows ==
  ASSUME TablesInv, TabsFollow, TablesInv', NEW w \in tableWrites, TableHandled(w), TabsOpen' PROVE TabsRight'
<1>1. TablesShape /\ OnePage /\ TableWriteFits(w)
      BY DEF TablesInv, TablesShape
<1>2. PICK at : TableServes(w, at)
      BY <1>1, TableServedRight
<1>3. PICK x : HandledTable(w, x) /\ x.at = at
      BY <1>1, <1>2, TableAnswerSets DEF HandledTable
<1>4. /\ UNCHANGED <<tablesPage, tablesCache, tablesFetch, tableActions, tableExcused>>
      /\ TabsOnly /\ SettingsOnly
      BY <1>2 DEF TableHandled, TableServes, TabsOpen
<1>5. w.at # "error" /\ w.at # "ok"
      BY DEF TableHandled, TableChecked, TableServed, TableLost, TableActs, TableRefused
<1>6. /\ ~ TabsDoomed /\ x \in tableWrites' /\ at # "error"
      /\ \A u \in tableWrites : \E y \in tableWrites' : y.op = u.op /\ y.after = u.after
      /\ \A y \in tableWrites' : \E u \in tableWrites : y.op = u.op /\ y.after = u.after
      /\ \A u \in tableWrites : u # w => u \in tableWrites'
      BY <1>3, <1>5, HandledStays DEF TabsOpen, TabsDoomed
<1>7. TabsRight /\ tablesPage = "tabs" /\ ~ tableExcused
      BY <1>4, <1>6 DEF TabsFollow, TabsOpen
<1>8. w.from = "tabs" /\ w.op # "unhide"
      BY <1>1, <1>7 DEF OnePage, TableWriteFits
<1>9. CASE w.op = "order"
      <2>1. TableServed(w)
            <3>1. ~ TableChecked(w)
                  BY <1>9 DEF TableChecked
            <3>2. ~ TableRefused(w)
                  <4>1. ASSUME TableRefused(w) PROVE FALSE
                        <5>1. TableAnswers(w, "error")
                              BY <4>1 DEF TableRefused
                        <5>2. [w EXCEPT !.at = "error"] \in tableWrites'
                              BY <5>1 DEF TableAnswers
                        <5>3. [w EXCEPT !.at = "error"].at = "error"
                              BY <1>1 DEF TableWriteFits
                        <5> QED BY <5>2, <5>3 DEF TabsOpen, TabsDoomed
                  <4> QED BY <4>1
            <3>3. ~ TableLost(w)
                  BY DEF TableLost, TabsOpen
            <3> QED BY <3>1, <3>2, <3>3 DEF TableHandled
      <2>2. w.at = "sent"
            BY <1>9, <2>1 DEF TableServed, TableActs
      <2> QED BY <1>4, <1>7, <1>9, <2>1, <2>2, ServedOrderFollows DEF SettingsOnly
<1>10. CASE w.op # "order"
      <2>1. at \in {"checked", "ok"}
            BY <1>2, <1>6 DEF TableServes
      <2>2. x.op = w.op /\ x.at = at
            BY <1>3 DEF HandledTable
      <2>3. FetchFollows'
            <3>1. CASE at = "ok"
                  BY <1>6, <1>10, <2>2, <3>1 DEF FetchFollows
            <3>2. CASE at = "checked"
                  <4>1. baseTables' = baseTables
                        BY <1>2, <3>2 DEF TableServes, TabsOpen
                  <4> QED BY <1>4, <1>5, <1>6, <1>7, <4>1 DEF TabsRight, FetchFollows
            <3> QED BY <2>1, <3>1, <3>2
      <2>4. BarFollows'
            <3>1. CASE tabBar = VisibleTables(tablesCache)
                  BY <1>4, <3>1 DEF BarFollows, SettingsOnly
            <3>2. CASE \E u \in tableWrites : Changing(u) /\ tabBar = u.after
                  BY <1>4, <1>6, <3>2 DEF BarFollows, Changing, SettingsOnly
            <3>3. CASE /\ \A u \in tableWrites : ~ Changing(u)
                       /\ ShowsServer(tabBar, baseTables) \/ \E u \in tableWrites : u.op = "order"
                  <4>1. w.op = "reindex"
                        BY <1>1, <1>8, <1>10, <3>3 DEF Changing, TableWriteFits
                  <4>2. baseTables' = baseTables
                        BY <1>2, <4>1 DEF TableServes, TabsOpen
                  <4>3. \A y \in tableWrites' : ~ Changing(y)
                        BY <1>6, <3>3 DEF Changing
                  <4>4. (\E u \in tableWrites : u.op = "order") => \E y \in tableWrites' : y.op = "order"
                        BY <1>6
                  <4> QED BY <1>4, <3>3, <4>2, <4>3, <4>4 DEF BarFollows, SettingsOnly
            <3> QED BY <1>7, <3>1, <3>2, <3>3 DEF TabsRight, BarFollows
      <2>5. TabsKnown'
            BY <1>4, <1>6, <1>7, KnownStill DEF TabsRight, SettingsOnly
      <2>6. BarRests'
            BY <1>6, <1>10, <2>2 DEF BarRests
      <2> QED BY <2>3, <2>4, <2>5, <2>6 DEF TabsRight
<1> QED BY <1>9, <1>10

-----------------------------------------------------------------------------
(* The answers and the fetches, for the tabs                               *)

(* Where new data come, the tabs show them and the open table is known;    *)
(* where they are what is cached, nothing changes.                         *)
LEMMA BecomeShows ==
  ASSUME NEW list, TableListFits(list), TablesBecome(list)
  PROVE  /\ tablesCache' = list
         /\ \/ tablesCache = list /\ UNCHANGED <<tabs, tabBar, openTable>>
            \/ /\ tabBar' = VisibleTables(list) /\ \A i \in DOMAIN tabBar' : HasTable(list, tabBar'[i].id)
               /\ list = <<>> \/ HasTable(list, openTable')
<1>1. tablesCache' = list
      BY DEF TablesBecome
<1>2. CASE list = tablesCache
      BY <1>1, <1>2 DEF TablesBecome
<1>3. CASE list # tablesCache
      <2>1. /\ tabBar' = VisibleTables(list)
            /\ openTable' = (IF list # <<>> /\ ~ HasTable(list, openTable) THEN list[1].id ELSE openTable)
            BY <1>3 DEF TablesBecome, SetTabs, TabsOf
      <2>2. \A k \in DOMAIN tabBar' : HasTable(list, tabBar'[k].id)
            BY <2>1, VisibleTableLists DEF HasTable
      <2>3. ASSUME list # <<>> PROVE 1 \in DOMAIN list
            <3>1. list \in Seq(ShownTable)
                  BY DEF TableListFits
            <3>2. Len(list) \in Nat /\ Len(list) # 0 /\ DOMAIN list = 1..Len(list)
                  BY <2>3, <3>1, LenProperties
            <3> QED BY <3>2
      <2>4. list = <<>> \/ HasTable(list, openTable')
            BY <2>1, <2>3 DEF HasTable
      <2> QED BY <1>1, <2>1, <2>2, <2>4
<1> QED BY <1>2, <1>3

LEMMA AnsweredFollows ==
  ASSUME TablesInv, TabsFollow, NEW w \in tableWrites, TabsAnswered(w), TabsOpen' PROVE TabsRight'
<1>1. /\ TablesShape /\ OnePage /\ AloneTable /\ TableWriteFits(w)
      BY DEF TablesInv, TablesShape
<1> DEFINE some == tableWrites \ {w}
<1>2. /\ w.from = "tabs" /\ w.at \in {"ok", "error"}
      /\ tableWrites' = {Accompanied(u) : u \in some}
      /\ tableExcused' = (tableExcused \/ w.at = "error" \/ (w.op = "order" /\ ~ w.alone))
      /\ UNCHANGED <<baseTables, tablesPage>>
      BY DEF TabsAnswered
<1>3. /\ some \in SUBSET tableWrites /\ \A u \in tableWrites : u = w \/ u \in some
      /\ ~ tableExcused /\ w.at = "ok" /\ (w.op = "order" => w.alone) /\ tablesPage = "tabs"
      BY <1>2 DEF TabsOpen
<1> HIDE DEF some
<1>4. \A u \in some : /\ u.op # "order" /\ u.at # "error"
                      /\ \E x \in tableWrites' : x.op = u.op /\ x.after = u.after /\ x.at = u.at
      BY <1>1, <1>2, <1>3, CompanyStays DEF TabsOpen
<1>5. TabsRight
      BY <1>3, <1>4 DEF TabsFollow, TabsOpen, TabsDoomed
<1>6. \A x \in tableWrites' : \E u \in some : x.op = u.op /\ x.after = u.after
      BY <1>1, <1>2, <1>3, AccompaniedWrites
<1>7. CASE w.op = "order"
      <2>1. tableWrites = {w} /\ tablesFetch.at = "no"
            BY <1>1, <1>3, <1>7 DEF AloneTable
      <2>2. tableWrites' = {}
            BY <1>2, <2>1 DEF some
      <2>3. UNCHANGED <<tablesFetch, tablesCache, tabs, tabBar, openTable>>
            BY <1>7 DEF TabsAnswered
      <2>4. IdsIn(tablesCache) = DOMAIN baseTables /\ ShowsServer(tabBar, baseTables)
            BY <1>3, <1>5, <1>7, <2>1 DEF TabsRight, BarRests
      <2>5. FetchFollows' /\ BarFollows' /\ BarRests'
            BY <1>2, <2>1, <2>2, <2>3, <2>4 DEF FetchFollows, BarFollows, BarRests, ShowsServer
      <2>6. TabsKnown'
            BY <1>5, <1>7, <2>1, <2>3, KnownStill DEF TabsRight, Changing
      <2> QED BY <2>5, <2>6 DEF TabsRight
<1>8. CASE w.op # "order"
      <2>1. tablesFetch' = [at |-> "asked", read |-> <<>>]
            BY <1>3, <1>8 DEF TabsAnswered
      <2>2. tablesFetch'.at = "asked"
            BY <2>1
      <2>3. FetchFollows' /\ BarRests'
            BY <2>2 DEF FetchFollows, BarRests
      <2>4. ASSUME UNCHANGED <<tablesCache, tabBar>>, tabBar # VisibleTables(tablesCache), tabBar = w.after => ~ Changing(w)
            PROVE  BarFollows'
            <3>1. CASE \E u \in tableWrites : Changing(u) /\ tabBar = u.after
                  BY <1>3, <1>4, <2>4, <3>1 DEF BarFollows, Changing
            <3>2. CASE /\ \A u \in tableWrites : ~ Changing(u)
                       /\ ShowsServer(tabBar, baseTables) \/ \E u \in tableWrites : u.op = "order"
                  <4>1. ShowsServer(tabBar, baseTables)
                        BY <1>3, <1>4, <1>8, <3>2
                  <4>2. \A x \in tableWrites' : ~ Changing(x)
                        BY <1>3, <1>6, <3>2 DEF Changing
                  <4> QED BY <1>2, <2>4, <4>1, <4>2 DEF BarFollows, ShowsServer
            <3> QED BY <1>5, <2>4, <3>1, <3>2 DEF TabsRight, BarFollows
      <2>5. CASE w.op = "reindex"
            <3>1. UNCHANGED <<tablesCache, tabs, tabBar, openTable>> /\ ~ Changing(w)
                  BY <1>3, <2>5 DEF TabsAnswered, Changing
            <3>2. BarFollows'
                  BY <2>4, <3>1 DEF BarFollows
            <3>3. TabsKnown'
                  BY <1>3, <1>4, <1>5, <3>1, KnownStill DEF TabsRight
            <3> QED BY <2>3, <3>2, <3>3 DEF TabsRight
      <2>6. CASE w.op # "reindex"
            <3>1. Changing(w) /\ TablesBecome(w.after) /\ TableListFits(w.after) /\ NoneHidden(w.after)
                  BY <1>1, <1>2, <1>3, <1>8, <2>6 DEF TabsAnswered, TableWriteFits, Changing
            <3>2. /\ tablesCache' = w.after
                  /\ \/ tablesCache = w.after /\ UNCHANGED <<tabs, tabBar, openTable>>
                     \/ /\ tabBar' = VisibleTables(w.after)
                        /\ \A i \in DOMAIN tabBar' : HasTable(w.after, tabBar'[i].id)
                        /\ w.after = <<>> \/ HasTable(w.after, openTable')
                  BY <3>1, BecomeShows
            <3>3. CASE tablesCache = w.after /\ UNCHANGED <<tabs, tabBar, openTable>>
                  <4>1. VisibleTables(w.after) = w.after
                        BY <3>1, VisibleTableLists
                  <4>2. BarFollows'
                        BY <2>4, <3>2, <3>3, <4>1 DEF BarFollows
                  <4>3. ASSUME NEW id, KnownTable(id) PROVE KnownTable(id)'
                        <5>1. CASE HasTable(tablesCache, id)
                              BY <3>2, <3>3, <5>1 DEF KnownTable
                        <5>2. CASE \E u \in tableWrites : Changing(u) /\ HasTable(u.after, id)
                              <6>1. PICK u \in tableWrites : Changing(u) /\ HasTable(u.after, id)
                                    BY <5>2
                              <6>2. CASE u = w
                                    BY <3>2, <6>1, <6>2 DEF KnownTable
                              <6>3. CASE u \in some
                                    BY <1>4, <6>1, <6>3 DEF KnownTable, Changing
                              <6> QED BY <1>3, <6>2, <6>3
                        <5> QED BY <4>3, <5>1, <5>2 DEF KnownTable
                  <4>4. TabsKnown'
                        <5>1. \A i \in DOMAIN tabBar : KnownTable(tabBar[i].id)'
                              BY <1>5, <3>2, <3>3, <4>3 DEF TabsRight, TabsKnown, KnownTable
                        <5>2. tablesCache' = <<>> \/ KnownTable(openTable)'
                              BY <1>5, <3>2, <3>3, <4>3 DEF TabsRight, TabsKnown, KnownTable
                        <5> QED BY <3>2, <3>3, <5>1, <5>2 DEF TabsKnown, KnownTable
                  <4> QED BY <2>3, <4>2, <4>4 DEF TabsRight
            <3>4. CASE /\ tabBar' = VisibleTables(w.after)
                       /\ \A i \in DOMAIN tabBar' : HasTable(w.after, tabBar'[i].id)
                       /\ w.after = <<>> \/ HasTable(w.after, openTable')
                  <4>1. BarFollows'
                        BY <3>2, <3>4 DEF BarFollows
                  <4>2. TabsKnown'
                        BY <3>2, <3>4 DEF TabsKnown, KnownTable
                  <4> QED BY <2>3, <4>1, <4>2 DEF TabsRight
            <3> QED BY <3>2, <3>3, <3>4
      <2> QED BY <2>5, <2>6
<1> QED BY <1>7, <1>8

LEMMA ReadFollows ==
  ASSUME TablesInv, TabsFollow, TablesRead, TabsOpen' PROVE TabsRight'
<1>1. PICK s \in ServerTables(baseTables) : tablesFetch' = [at |-> "read", read |-> s]
      BY DEF TablesRead
<1>2. tablesFetch'.at = "read" /\ tablesFetch'.read = s
      BY <1>1
<1>3. UNCHANGED <<baseTables, tablesPage, tablesCache, tableWrites, tableExcused, tabBar, openTable>>
      BY DEF TablesRead, SettingsOnly
<1>4. TabsRight
      BY <1>3 DEF TabsFollow, TabsOpen, TabsDoomed
<1>5. FetchFollows'
      BY <1>2, <1>3 DEF FetchFollows
<1>6. BarFollows' /\ TabsKnown'
      BY <1>3, <1>4 DEF TabsRight, BarFollows, TabsKnown, KnownTable
<1>7. BarRests'
      BY <1>2 DEF BarRests
<1> QED BY <1>5, <1>6, <1>7 DEF TabsRight

LEMMA ArrivedFollows ==
  ASSUME TablesInv, TabsFollow, TablesArrive, TabsOpen' PROVE TabsRight'
<1> DEFINE list == tablesFetch.read
<1>1. /\ tablesFetch.at = "read" /\ tablesFetch' = NoTablesFetch
      /\ TablesBecome(list) /\ UNCHANGED tableExcused
      /\ UNCHANGED <<baseTables, tablesPage, tabMenu, tableWrites, tableActions, racedVisible>>
      BY DEF TablesArrive, TabsOpen
<1>2. /\ TablesShape /\ AloneTable /\ TablesRight(baseTables) /\ TableListFits(list)
      BY DEF TablesInv, TablesShape, FetchedTables, TableListFits
<1>3. TabsRight /\ ~ TabsDoomed /\ ~ tableExcused
      BY <1>1 DEF TabsFollow, TabsOpen, TabsDoomed
<1>4. \A w \in tableWrites : w.op # "order"
      BY <1>1, <1>2, <1>3 DEF AloneTable, TabsDoomed
<1> HIDE DEF list
<1>5. /\ tablesCache' = list
      /\ \/ tablesCache = list /\ UNCHANGED <<tabs, tabBar, openTable>>
         \/ /\ tabBar' = VisibleTables(list)
            /\ \A i \in DOMAIN tabBar' : HasTable(list, tabBar'[i].id)
            /\ list = <<>> \/ HasTable(list, openTable')
      BY <1>1, <1>2, BecomeShows
<1>6. FetchFollows'
      BY <1>1, NoFetchFits DEF FetchFollows
<1>7. BarFollows'
      BY <1>1, <1>3, <1>5 DEF TabsRight, BarFollows
<1>8. TabsKnown'
      BY <1>1, <1>3, <1>5 DEF TabsRight, TabsKnown, KnownTable
<1>9. BarRests'
      <2>1. SUFFICES ASSUME \A w \in tableWrites : w.op = "order"
                     PROVE  IdsIn(tablesCache') = DOMAIN baseTables /\ ShowsServer(tabBar', baseTables)
            BY <1>1, <1>4 DEF BarRests
      <2>2. tableWrites = {}
            BY <1>4, <2>1
      <2>3. list \in ServerTables(baseTables)
            BY <1>1, <1>3, <2>2 DEF TabsRight, FetchFollows, list
      <2>4. IdsIn(list) = DOMAIN baseTables
            BY <1>2, <2>3, ServerTablesAre DEF ListsTables
      <2>5. tabBar' = VisibleTables(list) \/ ShowsServer(tabBar', baseTables)
            BY <1>3, <1>5, <2>2 DEF TabsRight, BarFollows
      <2> QED BY <1>5, <2>3, <2>4, <2>5 DEF ShowsServer
<1> QED BY <1>6, <1>7, <1>8, <1>9 DEF TabsRight

LEMMA TabsVisited ==
  ASSUME VisitTables, TabsOpen' PROVE TabsRight'
<1>1. /\ TablesRight(baseTables')
      /\ \E list : /\ list \in ServerTables(baseTables') /\ ListsTables(list, baseTables')
                   /\ TabsPage(list) \/ SettingsPage(list)
                   /\ 1 \in DOMAIN list
      BY VisitedPage
<1>2. PICK list : /\ list \in ServerTables(baseTables') /\ ListsTables(list, baseTables') /\ TabsPage(list)
                  /\ 1 \in DOMAIN list
      BY <1>1 DEF TabsOpen, SettingsPage
<1>3. /\ tablesCache' = list /\ tabBar' = VisibleTables(list) /\ openTable' = list[1].id
      /\ tablesFetch' = NoTablesFetch /\ tableWrites' = {}
      BY <1>2 DEF TabsPage, VisitTables
<1>4. FetchFollows' /\ BarFollows'
      BY <1>3, NoFetchFits DEF FetchFollows, BarFollows
<1>5. TabsKnown'
      <2>1. \A k \in DOMAIN tabBar' : HasTable(list, tabBar'[k].id)
            BY <1>2, <1>3, VisibleTableLists DEF HasTable, ListsTables
      <2>2. HasTable(list, openTable')
            BY <1>2, <1>3 DEF HasTable
      <2> QED BY <1>3, <2>1, <2>2 DEF TabsKnown, KnownTable
<1>6. BarRests'
      <2>1. IdsIn(list) = DOMAIN baseTables' /\ ShowsServer(tabBar', baseTables')
            BY <1>2, <1>3 DEF ListsTables, ShowsServer
      <2> QED BY <1>3, <2>1 DEF BarRests, ShowsServer
<1> QED BY <1>4, <1>5, <1>6 DEF TabsRight

LEMMA TabsFollowFirst == TablesInit => TabsFollow
<1> SUFFICES ASSUME TablesInit PROVE TabsRight
    BY DEF TabsFollow
<1>1. /\ TablesRight(baseTables) /\ ListsTables(tablesCache, baseTables) /\ NoneHidden(tablesCache)
      /\ 1 \in DOMAIN tablesCache
      BY FirstTables
<1>2. /\ tabBar = tablesCache /\ openTable = tablesCache[1].id /\ tableWrites = {}
      /\ tablesFetch = NoTablesFetch /\ tablesCache \in ServerTables(baseTables)
      BY DEF TablesInit
<1>3. tabBar = VisibleTables(tablesCache)
      BY <1>1, <1>2, VisibleTableLists DEF ListsTables
<1>4. FetchFollows /\ BarFollows
      BY <1>2, <1>3, NoFetchFits DEF FetchFollows, BarFollows
<1>5. TabsKnown
      BY <1>1, <1>2 DEF TabsKnown, KnownTable, HasTable
<1>6. BarRests
      BY <1>1, <1>2, <1>3 DEF BarRests, ListsTables, ShowsServer
<1> QED BY <1>4, <1>5, <1>6 DEF TabsRight

LEMMA TabsFollowNext ==
  TablesInv /\ TabsFollow /\ TablesInv' /\ [TablesNext]_tableVars => TabsFollow'
<1> SUFFICES ASSUME TablesInv, TabsFollow, TablesInv', [TablesNext]_tableVars, TabsOpen' PROVE TabsRight'
    BY DEF TabsFollow
<1>1. CASE UNCHANGED tableVars
      BY <1>1 DEF tableVars, TabsFollow, TabsOpen, TabsDoomed, TabsRight, FetchFollows, BarFollows, TabsKnown,
                  KnownTable, BarRests, ShowsServer
<1>2. CASE tablesPage = "settings" /\ BaseTablesSettings
      BY <1>2 DEF BaseTablesSettings, RenamesTable, RenameFires, TogglesTable, ReordersSettings, TableAsks, TabsOpen
<1>3. ASSUME NEW w \in tableWrites, SettingsAnswered(w) \/ OthersAnswered(w) PROVE FALSE
      <2>1. tablesPage = "tabs" /\ ~ tableExcused
            <3>1. CASE SettingsAnswered(w)
                  <4>1. /\ tableExcused' = (tableExcused \/ (w.at = "error" /\ ~ w.alone))
                        /\ tablesPage' = tablesPage
                        BY <3>1 DEF SettingsAnswered
                  <4> QED BY <4>1 DEF TabsOpen
            <3>2. CASE OthersAnswered(w)
                  BY <3>2 DEF OthersAnswered, TabsOpen
            <3> QED BY <1>3, <3>1, <3>2
      <2> QED BY <1>3, <2>1 DEF SettingsAnswered, OthersAnswered, TablesInv, OnePage
<1>4. CASE OthersHideTable
      BY <1>4 DEF OthersHideTable, TabsOpen
<1>5. CASE OpensSettings
      BY <1>5 DEF OpensSettings, SettingsPage, TabsOpen
<1> QED BY <1>1, <1>2, <1>3, <1>4, <1>5, TabsStepFollows, HandledFollows, AnsweredFollows, ReadFollows,
           ArrivedFollows, TabsVisited DEF TablesNext

(* Once everything is answered and fetched, the tabs are the tables of the *)
(* server that are visible, in its order, and the open table is one of the *)
(* server's if it has any, unless a request or a fetch failed, or tabs     *)
(* were moved beside something else under way.                             *)
THEOREM TabsDoSettle == TablesSpec => []TabsSettle
<1>1. TablesSpec => []TabsFollow
      BY TabsFollowFirst, TabsFollowNext, TablesAlways, PTL DEF TablesSpec
<1>2. TablesInv /\ TabsFollow => TabsSettle
      <2> SUFFICES ASSUME TablesInv, TabsFollow, tablesPage = "tabs", tableWrites = {}, tablesFetch.at = "no",
                          ~ tableExcused
                   PROVE  /\ \E s \in ServerTables(baseTables) : tabBar = VisibleTables(s)
                          /\ openTable \in DOMAIN baseTables \/ DOMAIN baseTables = {}
          BY DEF TabsSettle
      <2>1. TabsRight
            BY DEF TabsFollow, TabsOpen, TabsDoomed
      <2>2. IdsIn(tablesCache) = DOMAIN baseTables /\ ShowsServer(tabBar, baseTables)
            BY <2>1 DEF TabsRight, BarRests
      <2>3. tablesCache = <<>> \/ HasTable(tablesCache, openTable)
            BY <2>1 DEF TabsRight, TabsKnown, KnownTable
      <2>4. HasTable(tablesCache, openTable) => openTable \in DOMAIN baseTables
            BY <2>2 DEF HasTable, IdsIn
      <2>5. tablesCache = <<>> => DOMAIN baseTables = {}
            BY <2>2, EmptyTableList
      <2> QED BY <2>2, <2>3, <2>4, <2>5 DEF ShowsServer
<1> QED BY <1>1, <1>2, TablesAlways, PTL

-----------------------------------------------------------------------------
(* What the list of the settings follows, unless a request failed that had *)
(* company: each of its tables shows what is to be saved of it, and what   *)
(* the server has where nothing is to be saved.                            *)
AliasesTable(w, id) == w.op = "alias" /\ w.args[1] = id
HidesTable(w, id) == w.op \in {"hide", "unhide"} /\ w.args[1] = id
SettingsDoomed == \E w \in tableWrites : w.at = "error" /\ ~ w.alone
SettingsOpen == tablesPage = "settings" /\ ~ tableExcused /\ ~ SettingsDoomed

AliasFollows(e) ==
  /\ renaming.id = e.id => e.alias = renaming.alias
  /\ renaming.id # e.id =>
       /\ \A w \in tableWrites : AliasesTable(w, e.id) => e.alias = w.args[2]
       /\ (\A w \in tableWrites : AliasesTable(w, e.id) => w.at = "ok") => e.alias = baseTables[e.id].alias
HiddenFollows(e) ==
  /\ \A w \in tableWrites : HidesTable(w, e.id) => (e.hidden <=> w.op = "hide")
  /\ (\A w \in tableWrites : HidesTable(w, e.id) => w.at = "ok") => (e.hidden <=> baseTables[e.id].hidden)
OrderFollows ==
  /\ \A w \in tableWrites : w.op = "order" => w.args = TableIdsOf(settingsTables)
  /\ (\A w \in tableWrites : w.op = "order" => w.at = "ok") => TablesSorted(settingsTables, baseTables)

(* No two requests are about the same, and one that was sent alone will    *)
(* put back what the server has.                                           *)
SameSubject(w, u) ==
  \/ w.op = "order" /\ u.op = "order"
  \/ w.op = "alias" /\ u.op = "alias"
  \/ \E id \in TableIds : HidesTable(w, id) /\ HidesTable(u, id)
NoTwo == \A w, u \in tableWrites : SameSubject(w, u) => w = u
PutsBackRight == \A w \in tableWrites : w.alone /\ w.at # "ok" => ListsTables(w.after, baseTables)

SettingsRight ==
  /\ IdsIn(settingsTables) = DOMAIN baseTables
  /\ \A e \in EntriesIn(settingsTables) : AliasFollows(e) /\ HiddenFollows(e)
  /\ OrderFollows /\ NoTwo /\ PutsBackRight
SettingsFollow == SettingsOpen => SettingsRight

LEMMA SettingsEntries ==
  ASSUME TablesShape, NEW e \in EntriesIn(settingsTables)
  PROVE  e \in ShownTable /\ e.id \in TableIds /\ e.id # 0 /\ e.id \in IdsIn(settingsTables)
<1>1. PICK i \in DOMAIN settingsTables : e = settingsTables[i]
      BY DEF EntriesIn
<1>2. e \in ShownTable /\ e.id \in TableIds
      BY <1>1, TableLists DEF TablesShape, TableListFits
<1> QED BY <1>1, <1>2, TablesAssumption DEF IdsIn

(* With nothing to be saved, the list is the server's, and the other way   *)
(* round.                                                                  *)
LEMMA SettingsAtRest ==
  ASSUME TablesShape, SettingsRight, tableWrites = {}, renaming = NoRename
  PROVE  ListsTables(settingsTables, baseTables)
<1>1. TableListFits(settingsTables)
      BY DEF TablesShape
<1>2. ASSUME NEW i \in DOMAIN settingsTables
      PROVE  settingsTables[i] = TableEntry(baseTables, settingsTables[i].id)
      <2> DEFINE e == settingsTables[i]
      <2>1. e \in EntriesIn(settingsTables)
            BY DEF EntriesIn
      <2>2. AliasFollows(e) /\ HiddenFollows(e)
            BY <2>1 DEF SettingsRight
      <2>3. e \in ShownTable /\ e.id # 0 /\ e.id \in DOMAIN baseTables
            BY <2>1, SettingsEntries DEF SettingsRight
      <2> HIDE DEF e
      <2>4. e.alias = baseTables[e.id].alias /\ (e.hidden <=> baseTables[e.id].hidden)
            BY <2>2, <2>3, NoRenameFits DEF AliasFollows, HiddenFollows
      <2>5. e.hidden \in BOOLEAN /\ baseTables[e.id].hidden \in BOOLEAN
            BY <2>3 DEF ShownTable, TablesShape, TablesRight, StoredTable
      <2>6. e.hidden = baseTables[e.id].hidden
            BY <2>4, <2>5
      <2>7. e = [id |-> e.id, hidden |-> e.hidden, alias |-> e.alias]
            BY <2>3 DEF ShownTable
      <2>8. e = TableEntry(baseTables, e.id)
            BY <2>4, <2>6, <2>7 DEF TableEntry
      <2> QED BY <2>8 DEF e
<1>3. TablesSorted(settingsTables, baseTables)
      BY DEF SettingsRight, OrderFollows
<1> QED BY <1>1, <1>2, <1>3 DEF ListsTables, SettingsRight

LEMMA ListedIsRight ==
  ASSUME TablesShape', ListsTables(settingsTables', baseTables'), tableWrites' = {}, renaming' = NoRename
  PROVE  SettingsRight'
<1>1. ASSUME NEW e \in EntriesIn(settingsTables') PROVE AliasFollows(e)' /\ HiddenFollows(e)'
      <2>1. PICK i \in DOMAIN settingsTables' : e = settingsTables'[i]
            BY <1>1 DEF EntriesIn
      <2>2. e = TableEntry(baseTables', e.id) /\ e.id \in TableIds
            BY <2>1, TableLists DEF ListsTables, TableListFits
      <2>3. renaming'.id # e.id
            BY <2>2, NoRenameFits, TablesAssumption
      <2>4. e.alias = baseTables'[e.id].alias /\ e.hidden = baseTables'[e.id].hidden
            <3> DEFINE id == e.id
            <3>1. e = [id |-> id, hidden |-> baseTables'[id].hidden, alias |-> baseTables'[id].alias]
                  BY <2>2 DEF TableEntry
            <3> HIDE DEF id
            <3>2. e.alias = baseTables'[id].alias /\ e.hidden = baseTables'[id].hidden
                  BY <3>1
            <3> QED BY <3>2 DEF id
      <2> QED BY <2>3, <2>4 DEF AliasFollows, HiddenFollows
<1>2. OrderFollows' /\ NoTwo' /\ PutsBackRight'
      BY DEF OrderFollows, NoTwo, PutsBackRight, ListsTables
<1> QED BY <1>1, <1>2 DEF SettingsRight, ListsTables

(* Requests that get company                                               *)
SameRequest(x, u) == x.op = u.op /\ x.args = u.args /\ x.after = u.after /\ x.at = u.at

LEMMA HaveCompany ==
  ASSUME TablesShape, NEW S, tableWrites' = {Accompanied(w) : w \in tableWrites} \cup S
  PROVE  /\ \A u \in tableWrites : \E x \in tableWrites' : ~ x.alone /\ SameRequest(x, u)
         /\ \A x \in tableWrites' : x \notin S =>
              ~ x.alone /\ \E u \in tableWrites : x = Accompanied(u) /\ SameRequest(x, u)
<1>1. \A u \in tableWrites : LET x == Accompanied(u) IN
        /\ x \in tableWrites' /\ ~ x.alone
        /\ SameRequest(x, u)
      BY AccompaniedFits DEF TablesShape, SameRequest
<1> QED BY <1>1

LEMMA BesideNotDoomed ==
  ASSUME TablesShape, NEW S, tableWrites' = {Accompanied(w) : w \in tableWrites} \cup S, ~ SettingsDoomed'
  PROVE  ~ SettingsDoomed
<1>1. \A u \in tableWrites : \E x \in tableWrites' : ~ x.alone /\ SameRequest(x, u)
      BY HaveCompany
<1> QED BY <1>1 DEF SettingsDoomed, SameRequest

(* A new request about something that no other is about                    *)
LEMMA NoTwoBeside ==
  ASSUME TablesShape, NEW S, tableWrites' = {Accompanied(w) : w \in tableWrites} \cup S, NoTwo,
         \A n, m \in S : n = m,
         \A n \in S, u \in tableWrites : ~ SameSubject(n, u) /\ ~ SameSubject(u, n)
  PROVE  NoTwo'
<1> SUFFICES ASSUME NEW x \in tableWrites', NEW y \in tableWrites', SameSubject(x, y) PROVE x = y
    BY DEF NoTwo
<1>1. x \notin S => \E u \in tableWrites : x = Accompanied(u) /\ x.op = u.op /\ x.args = u.args
      BY HaveCompany DEF SameRequest
<1>2. y \notin S => \E u \in tableWrites : y = Accompanied(u) /\ y.op = u.op /\ y.args = u.args
      BY HaveCompany DEF SameRequest
<1>3. CASE x \in S /\ y \in S
      BY <1>3
<1>4. CASE x \in S /\ y \notin S
      <2>1. PICK u \in tableWrites : y.op = u.op /\ y.args = u.args
            BY <1>2, <1>4
      <2>2. SameSubject(x, u)
            BY <2>1 DEF SameSubject, HidesTable
      <2> QED BY <1>4, <2>2
<1>5. CASE x \notin S /\ y \in S
      <2>1. PICK u \in tableWrites : x.op = u.op /\ x.args = u.args
            BY <1>1, <1>5
      <2>2. SameSubject(u, y)
            BY <2>1 DEF SameSubject, HidesTable
      <2> QED BY <1>5, <2>2
<1>6. CASE x \notin S /\ y \notin S
      <2>1. PICK u \in tableWrites : x = Accompanied(u) /\ x.op = u.op /\ x.args = u.args
            BY <1>1, <1>6
      <2>2. PICK v \in tableWrites : y = Accompanied(v) /\ y.op = v.op /\ y.args = v.args
            BY <1>2, <1>6
      <2>3. SameSubject(u, v)
            BY <2>1, <2>2 DEF SameSubject, HidesTable
      <2> QED BY <2>1, <2>2, <2>3 DEF NoTwo
<1> QED BY <1>3, <1>4, <1>5, <1>6

LEMMA RenameFollows ==
  ASSUME TablesInv, SettingsFollow, tablesPage = "settings", RenamesTable, SettingsOpen'
  PROVE  SettingsRight'
<1>1. PICK i \in DOMAIN settingsTables :
        LET t == settingsTables[i]  alias == 1 - t.alias IN
        /\ settingsTables' = Aliased(settingsTables, t.id, alias)
        /\ renaming' = [id |-> t.id, alias |-> alias, list |-> settingsTables']
        /\ tableExcused' = (tableExcused \/ renaming.id \notin {0, t.id})
      BY DEF RenamesTable
<1> DEFINE id == settingsTables[i].id
           alias == 1 - settingsTables[i].alias
<1>2. TablesShape /\ TableListFits(settingsTables)
      BY DEF TablesInv, TablesShape
<1>3. id \in TableIds /\ alias \in 0..1
      <2>1. settingsTables[i].alias \in 0..1 /\ settingsTables[i].id \in TableIds
            BY <1>2, TableLists DEF TableListFits
      <2> QED BY <2>1
<1>4. /\ settingsTables' = Aliased(settingsTables, id, alias) /\ renaming'.id = id /\ renaming'.alias = alias
      /\ tableExcused' = (tableExcused \/ renaming.id \notin {0, id})
      BY <1>1
<1> HIDE DEF id, alias
<1>5. tableWrites' = {Accompanied(w) : w \in tableWrites} /\ UNCHANGED <<baseTables, tablesPage>>
      BY DEF RenamesTable
<1>6. SettingsRight /\ renaming.id \in {0, id}
      <2>1. ~ SettingsDoomed
            BY <1>2, <1>5, BesideNotDoomed DEF SettingsOpen
      <2> QED BY <1>4, <2>1 DEF SettingsOpen, SettingsFollow
<1>7. /\ \A u \in tableWrites : \E x \in tableWrites' : SameRequest(x, u)
      /\ \A x \in tableWrites' : ~ x.alone /\ \E u \in tableWrites : SameRequest(x, u)
      <2> DEFINE S == {}
      <2>1. tableWrites' = {Accompanied(w) : w \in tableWrites} \cup S /\ \A x : x \notin S
            BY <1>5
      <2> HIDE DEF S
      <2> QED BY <1>2, <2>1, HaveCompany
<1>8. /\ TableIdsOf(settingsTables') = TableIdsOf(settingsTables) /\ IdsIn(settingsTables') = IdsIn(settingsTables)
      /\ DOMAIN settingsTables' = DOMAIN settingsTables
      /\ \A k \in DOMAIN settingsTables :
           /\ settingsTables'[k].id = settingsTables[k].id /\ settingsTables'[k].hidden = settingsTables[k].hidden
           /\ settingsTables'[k].alias = IF settingsTables[k].id = id THEN alias ELSE settingsTables[k].alias
      BY <1>2, <1>3, <1>4, AliasedTableLists
<1>9. ASSUME NEW e \in EntriesIn(settingsTables') PROVE AliasFollows(e)' /\ HiddenFollows(e)'
      <2>1. PICK k \in DOMAIN settingsTables : e = settingsTables'[k]
            BY <1>8, <1>9 DEF EntriesIn
      <2> DEFINE f == settingsTables[k]
      <2>2. AliasFollows(f) /\ HiddenFollows(f) /\ f.id # 0
            BY <1>2, <1>6, SettingsEntries DEF SettingsRight, EntriesIn
      <2>3. e.id = f.id /\ e.hidden = f.hidden /\ e.alias = IF f.id = id THEN alias ELSE f.alias
            BY <1>8, <2>1
      <2> HIDE DEF f
      <2>4. HiddenFollows(e)'
            BY <1>5, <1>7, <2>2, <2>3 DEF HiddenFollows, HidesTable, SameRequest
      <2>5. AliasFollows(e)'
            <3>1. CASE e.id = id
                  BY <1>4, <2>3, <3>1 DEF AliasFollows
            <3>2. CASE e.id # id
                  <4>1. renaming.id # e.id /\ e.id = f.id /\ e.alias = f.alias
                        BY <1>6, <2>2, <2>3, <3>2
                  <4>2. \A w \in tableWrites : AliasesTable(w, e.id) => e.alias = w.args[2]
                        BY <2>2, <4>1 DEF AliasFollows
                  <4>3. (\A w \in tableWrites : AliasesTable(w, e.id) => w.at = "ok")
                          => e.alias = baseTables[e.id].alias
                        BY <2>2, <4>1 DEF AliasFollows
                  <4>4. \A w \in tableWrites' : AliasesTable(w, e.id) => e.alias = w.args[2]
                        BY <1>7, <4>2 DEF AliasesTable, SameRequest
                  <4>5. (\A w \in tableWrites' : AliasesTable(w, e.id) => w.at = "ok")
                          => e.alias = baseTables[e.id].alias
                        BY <1>7, <4>3 DEF AliasesTable, SameRequest
                  <4> QED BY <1>4, <1>5, <3>2, <4>4, <4>5 DEF AliasFollows
            <3> QED BY <3>1, <3>2
      <2> QED BY <2>4, <2>5
<1>10. TablesSorted(settingsTables, baseTables) => TablesSorted(settingsTables', baseTables')
       BY <1>5, <1>8 DEF TablesSorted
<1>11. OrderFollows'
       BY <1>6, <1>7, <1>8, <1>10 DEF SettingsRight, OrderFollows, SameRequest
<1>12. NoTwo'
       <2> DEFINE S == {}
       <2>1. tableWrites' = {Accompanied(w) : w \in tableWrites} \cup S /\ \A x : x \notin S
             BY <1>5
       <2> HIDE DEF S
       <2>2. NoTwo
             BY <1>6 DEF SettingsRight
       <2> QED BY <1>2, <2>1, <2>2, NoTwoBeside
<1>13. PutsBackRight'
       BY <1>7 DEF PutsBackRight
<1> QED BY <1>5, <1>6, <1>8, <1>9, <1>11, <1>12, <1>13 DEF SettingsRight

LEMMA FiredFollows ==
  ASSUME TablesInv, SettingsFollow, tablesPage = "settings", RenameFires, SettingsOpen'
  PROVE  SettingsRight'
<1> DEFINE n == [op |-> "alias", args |-> <<renaming.id, renaming.alias>>, after |-> renaming.list,
                 from |-> "settings", at |-> "sent", alone |-> FALSE]
<1>1. /\ renaming' = NoRename
      /\ tableWrites' = {Accompanied(w) : w \in tableWrites} \cup {n}
      /\ tableExcused' = (tableExcused \/ \E w \in tableWrites : w.op = "alias")
      /\ UNCHANGED <<baseTables, tablesPage, settingsTables>>
      BY DEF RenameFires
<1>2. /\ n.op = "alias" /\ n.args = <<renaming.id, renaming.alias>> /\ n.at = "sent" /\ n.alone = FALSE
      /\ n \in tableWrites'
      BY <1>1
<1> HIDE DEF n
<1>3. TablesShape
      BY DEF TablesInv
<1>4. SettingsRight /\ \A w \in tableWrites : w.op # "alias"
      <2>1. ~ SettingsDoomed
            BY <1>1, <1>3, BesideNotDoomed DEF SettingsOpen
      <2> QED BY <1>1, <2>1 DEF SettingsOpen, SettingsFollow
<1>5. /\ \A u \in tableWrites : \E x \in tableWrites' : SameRequest(x, u)
      /\ \A x \in tableWrites' : x # n => ~ x.alone /\ \E u \in tableWrites : SameRequest(x, u)
      <2> DEFINE S == {n}
      <2>1. tableWrites' = {Accompanied(w) : w \in tableWrites} \cup S /\ \A x : x \in S <=> x = n
            BY <1>1
      <2> HIDE DEF S
      <2> QED BY <1>3, <2>1, HaveCompany
<1>6. n.args[1] = renaming.id /\ n.args[2] = renaming.alias /\ renaming'.id = 0
      BY <1>1, <1>2, NoRenameFits
<1>7. ASSUME NEW e \in EntriesIn(settingsTables) PROVE AliasFollows(e)' /\ HiddenFollows(e)'
      <2>1. AliasFollows(e) /\ HiddenFollows(e) /\ e.id # 0
            BY <1>3, <1>4, <1>7, SettingsEntries DEF SettingsRight
      <2>2. HiddenFollows(e)'
            BY <1>1, <1>2, <1>5, <2>1 DEF HiddenFollows, HidesTable, SameRequest
      <2>3. AliasFollows(e)'
            <3>1. \A x \in tableWrites' : AliasesTable(x, e.id) => x = n
                  BY <1>4, <1>5 DEF AliasesTable, SameRequest
            <3>2. \A u \in tableWrites : ~ AliasesTable(u, e.id)
                  BY <1>4 DEF AliasesTable
            <3>3. AliasesTable(n, e.id) <=> renaming.id = e.id
                  BY <1>2, <1>6 DEF AliasesTable
            <3>4. \A x \in tableWrites' : AliasesTable(x, e.id) => e.alias = x.args[2]
                  BY <1>6, <2>1, <3>1, <3>3 DEF AliasFollows
            <3>5. (\A x \in tableWrites' : AliasesTable(x, e.id) => x.at = "ok") => e.alias = baseTables[e.id].alias
                  BY <1>2, <2>1, <3>2, <3>3 DEF AliasFollows
            <3> QED BY <1>1, <1>6, <2>1, <3>4, <3>5 DEF AliasFollows
      <2> QED BY <2>2, <2>3
<1>8. OrderFollows'
      BY <1>1, <1>2, <1>4, <1>5 DEF SettingsRight, OrderFollows, TablesSorted, SameRequest
<1>9. NoTwo'
      <2>1. \A u \in tableWrites : ~ SameSubject(n, u) /\ ~ SameSubject(u, n)
            BY <1>2, <1>4 DEF SameSubject, HidesTable
      <2> DEFINE S == {n}
      <2>2. tableWrites' = {Accompanied(w) : w \in tableWrites} \cup S /\ \A x : x \in S <=> x = n
            BY <1>1
      <2> HIDE DEF S
      <2>3. NoTwo
            BY <1>4 DEF SettingsRight
      <2> QED BY <1>3, <2>1, <2>2, <2>3, NoTwoBeside
<1>10. PutsBackRight'
       BY <1>2, <1>5 DEF PutsBackRight
<1> QED BY <1>1, <1>4, <1>7, <1>8, <1>9, <1>10 DEF SettingsRight

-----------------------------------------------------------------------------
(* The settings hide, show and move a table                                *)

(* What a handler of the settings sends: the list that it puts back was    *)
(* the server's if nothing else was to be saved.                           *)
LEMMA SentPutsBack ==
  ASSUME TablesInv, SettingsRight, NEW n, NEW op, NEW args, UNCHANGED baseTables,
         IsNewTableWrite(n, op, args, settingsTables, "settings")
  PROVE  PutsBackRight'
<1>1. /\ tableWrites' = {Accompanied(w) : w \in tableWrites} \cup {n}
      /\ n.after = settingsTables /\ (n.alone => tableWrites = {} /\ renaming = NoRename)
      BY DEF IsNewTableWrite
<1>2. TablesShape
      BY DEF TablesInv
<1>3. \A x \in tableWrites' : x # n => ~ x.alone
      <2> DEFINE S == {n}
      <2>1. tableWrites' = {Accompanied(w) : w \in tableWrites} \cup S /\ \A x : x \in S <=> x = n
            BY <1>1
      <2> HIDE DEF S
      <2> QED BY <1>2, <2>1, HaveCompany
<1>4. n.alone => ListsTables(n.after, baseTables)
      BY <1>1, <1>2, SettingsAtRest
<1> QED BY <1>3, <1>4 DEF PutsBackRight

LEMMA SentBeside ==
  ASSUME TablesInv, SettingsFollow, NEW n, NEW op, NEW args, NEW after,
         IsNewTableWrite(n, op, args, after, "settings"),
         tablesPage = "settings", ~ tableExcused, SettingsOpen'
  PROVE  /\ n \in tableWrites' /\ n.op = op /\ n.args = args /\ n.at = "sent"
         /\ SettingsRight
         /\ \A u \in tableWrites : \E x \in tableWrites' : SameRequest(x, u)
         /\ \A x \in tableWrites' : x # n => \E u \in tableWrites : SameRequest(x, u)
         /\ (\A u \in tableWrites : ~ SameSubject(n, u) /\ ~ SameSubject(u, n)) => NoTwo'
<1> DEFINE S == {n}
<1>1. /\ tableWrites' = {Accompanied(w) : w \in tableWrites} \cup S /\ \A x : x \in S <=> x = n
      /\ n.op = op /\ n.args = args /\ n.at = "sent"
      BY DEF IsNewTableWrite
<1> HIDE DEF S
<1>2. TablesShape
      BY DEF TablesInv
<1>3. SettingsRight
      <2>1. ~ SettingsDoomed
            BY <1>1, <1>2, BesideNotDoomed DEF SettingsOpen
      <2> QED BY <2>1 DEF SettingsOpen, SettingsFollow
<1>4. /\ \A u \in tableWrites : \E x \in tableWrites' : SameRequest(x, u)
      /\ \A x \in tableWrites' : x # n => \E u \in tableWrites : SameRequest(x, u)
      BY <1>1, <1>2, HaveCompany
<1>5. ASSUME \A u \in tableWrites : ~ SameSubject(n, u) /\ ~ SameSubject(u, n) PROVE NoTwo'
      <2>1. NoTwo
            BY <1>3 DEF SettingsRight
      <2> QED BY <1>1, <1>2, <1>5, <2>1, NoTwoBeside
<1> QED BY <1>1, <1>3, <1>4, <1>5

LEMMA ToggleFollows ==
  ASSUME TablesInv, SettingsFollow, tablesPage = "settings", TogglesTable, SettingsOpen'
  PROVE  SettingsRight'
<1>1. PICK i \in DOMAIN settingsTables :
        LET t == settingsTables[i] IN
        /\ settingsTables' = [settingsTables EXCEPT ![i].hidden = ~ t.hidden]
        /\ TableAsks(IF t.hidden THEN "unhide" ELSE "hide", <<t.id>>, settingsTables, "settings")
        /\ tableExcused' = (tableExcused \/ \E w \in tableWrites : w.op # "alias" /\ w.args[1] = t.id)
      BY DEF TogglesTable
<1> DEFINE id == settingsTables[i].id
           op == IF settingsTables[i].hidden THEN "unhide" ELSE "hide"
<1>2. PICK h \in BOOLEAN : h <=> ~ settingsTables[i].hidden
      OBVIOUS
<1>3. TablesShape /\ TableListFits(settingsTables)
      BY DEF TablesInv, TablesShape
<1>4. settingsTables[i].hidden \in BOOLEAN /\ id \in TableIds
      BY <1>3, TableLists DEF TableListFits
<1>5. /\ settingsTables' = [settingsTables EXCEPT ![i].hidden = h]
      /\ op \in {"hide", "unhide"} /\ (h <=> op = "hide")
      BY <1>1, <1>2, <1>4
<1>6. /\ IdsIn(settingsTables') = IdsIn(settingsTables) /\ TableIdsOf(settingsTables') = TableIdsOf(settingsTables)
      /\ DOMAIN settingsTables' = DOMAIN settingsTables
      /\ \A k \in DOMAIN settingsTables :
           /\ settingsTables'[k].id = settingsTables[k].id /\ settingsTables'[k].alias = settingsTables[k].alias
           /\ settingsTables'[k].hidden = IF k = i THEN h ELSE settingsTables[k].hidden
      <2> DEFINE t == [settingsTables EXCEPT ![i].hidden = h]
      <2>1. /\ TableIdsOf(t) = TableIdsOf(settingsTables) /\ IdsIn(t) = IdsIn(settingsTables)
            /\ DOMAIN t = DOMAIN settingsTables
            /\ \A k \in DOMAIN settingsTables :
                 /\ t[k].id = settingsTables[k].id /\ t[k].alias = settingsTables[k].alias
                 /\ t[k].hidden = IF k = i THEN h ELSE settingsTables[k].hidden
            BY <1>3, ToggledTableLists
      <2>2. settingsTables' = t
            BY <1>5
      <2> HIDE DEF t
      <2> QED BY <2>1, <2>2
<1>7. TableAsks(op, <<id>>, settingsTables, "settings")
      BY <1>1
<1>8. tableExcused' = (tableExcused \/ \E w \in tableWrites : w.op # "alias" /\ w.args[1] = id)
      BY <1>1
<1>9. TableArguments(op, <<id>>, settingsTables, "settings")
      BY <1>3, <1>4, <1>5 DEF TableArguments
<1> HIDE DEF op
<1>10. UNCHANGED <<baseTables, tablesPage>> /\ UNCHANGED renaming
       BY <1>7 DEF TableAsks, TogglesTable
<1>11. PICK n : IsNewTableWrite(n, op, <<id>>, settingsTables, "settings")
       BY <1>7, <1>9, TableAskedFits
<1>12. ~ tableExcused /\ \A w \in tableWrites : ~ HidesTable(w, id)
       BY <1>8 DEF SettingsOpen, HidesTable
<1>13. /\ n \in tableWrites' /\ n.op = op /\ n.args = <<id>> /\ n.at = "sent"
       /\ SettingsRight
       /\ \A u \in tableWrites : \E x \in tableWrites' : SameRequest(x, u)
       /\ \A x \in tableWrites' : x # n => \E u \in tableWrites : SameRequest(x, u)
       /\ (\A u \in tableWrites : ~ SameSubject(n, u) /\ ~ SameSubject(u, n)) => NoTwo'
       BY <1>11, <1>12, SentBeside
<1>14. \A y : HidesTable(n, y) <=> y = id
       BY <1>5, <1>13 DEF HidesTable
<1>15. n.op # "alias" /\ n.op # "order"
       BY <1>5, <1>13
<1> HIDE DEF id
<1>16. ASSUME NEW e \in EntriesIn(settingsTables') PROVE AliasFollows(e)' /\ HiddenFollows(e)'
       <2>1. PICK k \in DOMAIN settingsTables : e = settingsTables'[k]
             BY <1>6, <1>16 DEF EntriesIn
       <2> DEFINE f == settingsTables[k]
       <2>2. AliasFollows(f) /\ HiddenFollows(f)
             BY <1>13 DEF SettingsRight, EntriesIn
       <2>3. e.id = f.id /\ e.alias = f.alias /\ e.hidden = (IF k = i THEN h ELSE f.hidden)
             BY <1>6, <2>1
       <2>4. k = i <=> f.id = id
             BY <1>3 DEF TableListFits, DistinctTables, id
       <2> HIDE DEF f
       <2>5. AliasFollows(e)'
             BY <1>10, <1>13, <1>15, <2>2, <2>3 DEF AliasFollows, AliasesTable, SameRequest
       <2>6. HiddenFollows(e)'
             <3>1. CASE e.id = id
                   <4>1. \A x \in tableWrites' : HidesTable(x, id) => x = n
                         BY <1>12, <1>13 DEF HidesTable, SameRequest
                   <4>2. HidesTable(n, id)
                         BY <1>14
                   <4>3. e.hidden <=> n.op = "hide"
                         BY <1>5, <1>13, <2>3, <2>4, <3>1
                   <4> QED BY <1>13, <3>1, <4>1, <4>2, <4>3 DEF HiddenFollows
             <3>2. CASE e.id # id
                   <4>1. e.hidden = f.hidden /\ ~ HidesTable(n, e.id)
                         BY <1>14, <2>3, <2>4, <3>2
                   <4> QED BY <1>10, <1>13, <2>2, <2>3, <4>1 DEF HiddenFollows, HidesTable, SameRequest
             <3> QED BY <3>1, <3>2
       <2> QED BY <2>5, <2>6
<1>17. TablesSorted(settingsTables, baseTables) => TablesSorted(settingsTables', baseTables')
       BY <1>6, <1>10 DEF TablesSorted
<1>18. OrderFollows'
       BY <1>6, <1>13, <1>15, <1>17 DEF SettingsRight, OrderFollows, SameRequest
<1>19. NoTwo'
       <2>1. \A u \in tableWrites : ~ SameSubject(n, u) /\ ~ SameSubject(u, n)
             BY <1>12, <1>14, <1>15 DEF SameSubject
       <2> QED BY <1>13, <2>1
<1>20. PutsBackRight'
       BY <1>10, <1>11, <1>13, SentPutsBack
<1> QED BY <1>6, <1>10, <1>13, <1>16, <1>18, <1>19, <1>20 DEF SettingsRight

LEMMA ReorderFollows ==
  ASSUME TablesInv, SettingsFollow, tablesPage = "settings", ReordersSettings, SettingsOpen'
  PROVE  SettingsRight'
<1>1. PICK i, j \in DOMAIN settingsTables :
        /\ settingsTables' = Moved(settingsTables, i, j)
        /\ TableAsks("order", TableIdsOf(settingsTables'), settingsTables, "settings")
      BY DEF ReordersSettings
<1> DEFINE ids == TableIdsOf(Moved(settingsTables, i, j))
<1>2. TablesShape /\ TableListFits(settingsTables)
      BY DEF TablesInv, TablesShape
<1>3. IdsIn(settingsTables') = IdsIn(settingsTables) /\ EntriesIn(settingsTables') = EntriesIn(settingsTables)
      BY <1>1, <1>2, MovedTableLists
<1>4. TableArguments("order", ids, settingsTables, "settings")
      BY <1>2, ReorderFits
<1>5. TableAsks("order", ids, settingsTables, "settings") /\ ids = TableIdsOf(settingsTables')
      BY <1>1
<1> HIDE DEF ids
<1>6. tableExcused' = (tableExcused \/ \E w \in tableWrites : w.op = "order")
      BY DEF ReordersSettings
<1>7. UNCHANGED <<baseTables, tablesPage>> /\ UNCHANGED renaming
      BY <1>5 DEF TableAsks, ReordersSettings
<1>8. PICK n : IsNewTableWrite(n, "order", ids, settingsTables, "settings")
      BY <1>4, <1>5, TableAskedFits
<1>9. ~ tableExcused /\ \A w \in tableWrites : w.op # "order"
      BY <1>6 DEF SettingsOpen
<1>10. /\ n \in tableWrites' /\ n.op = "order" /\ n.args = ids /\ n.at = "sent"
       /\ SettingsRight
       /\ \A u \in tableWrites : \E x \in tableWrites' : SameRequest(x, u)
       /\ \A x \in tableWrites' : x # n => \E u \in tableWrites : SameRequest(x, u)
       /\ (\A u \in tableWrites : ~ SameSubject(n, u) /\ ~ SameSubject(u, n)) => NoTwo'
       BY <1>8, <1>9, SentBeside
<1>11. ASSUME NEW e \in EntriesIn(settingsTables) PROVE AliasFollows(e)' /\ HiddenFollows(e)'
       <2>1. AliasFollows(e) /\ HiddenFollows(e)
             BY <1>10 DEF SettingsRight
       <2>2. AliasFollows(e)'
             BY <1>7, <1>10, <2>1 DEF AliasFollows, AliasesTable, SameRequest
       <2>3. HiddenFollows(e)'
             BY <1>7, <1>10, <2>1 DEF HiddenFollows, HidesTable, SameRequest
       <2> QED BY <2>2, <2>3
<1>12. OrderFollows'
       BY <1>5, <1>9, <1>10 DEF OrderFollows, SameRequest
<1>13. NoTwo'
       <2>1. \A u \in tableWrites : ~ SameSubject(n, u) /\ ~ SameSubject(u, n)
             BY <1>9, <1>10 DEF SameSubject, HidesTable
       <2> QED BY <1>10, <2>1
<1>14. PutsBackRight'
       BY <1>7, <1>8, <1>10, SentPutsBack
<1> QED BY <1>3, <1>7, <1>10, <1>11, <1>12, <1>13, <1>14 DEF SettingsRight

-----------------------------------------------------------------------------
(* The server's steps and the answers, for the settings                    *)

(* What the server does with a request of the settings that it serves      *)
LEMMA ServedSettings ==
  ASSUME TablesInv, NEW w \in tableWrites, TableServed(w), w.op \in {"alias", "hide", "unhide", "order"}
  PROVE  /\ DOMAIN baseTables' = DOMAIN baseTables
         /\ \A t \in DOMAIN baseTables :
              /\ baseTables'[t].alias = IF AliasesTable(w, t) THEN w.args[2] ELSE baseTables[t].alias
              /\ baseTables'[t].hidden <=> IF HidesTable(w, t) THEN w.op = "hide" ELSE baseTables[t].hidden
              /\ w.op # "order" => baseTables'[t].order = baseTables[t].order
         /\ w.op = "order" => \A i \in DOMAIN w.args :
              (\A j \in DOMAIN w.args : w.args[i] = w.args[j] => i = j) /\ w.args[i] \in DOMAIN baseTables
              => baseTables'[w.args[i]].order = i - 1
<1> DEFINE id == w.args[1]
<1>1. /\ TablesRight(baseTables) /\ TableWriteFits(w) /\ baseTables = [t \in DOMAIN baseTables |-> baseTables[t]]
      BY DEF TablesInv, TablesShape
<1>2. \A t \in DOMAIN baseTables : baseTables[t] \in StoredTable
      BY <1>1 DEF TablesRight
<1>3. CASE w.op \in {"hide", "unhide"}
      <2>1. PICK h \in BOOLEAN : (h <=> w.op = "hide") /\ id \in DOMAIN baseTables
                                 /\ baseTables' = [baseTables EXCEPT ![id].hidden = h]
            BY <1>3 DEF TableServed, TableActs
      <2>2. \A t : HidesTable(w, t) <=> t = id
            BY <1>3 DEF HidesTable
      <2>3. \A t : ~ AliasesTable(w, t)
            BY <1>3 DEF AliasesTable
      <2> HIDE DEF id
      <2>4. DOMAIN baseTables' = DOMAIN baseTables
            BY <1>1, <2>1
      <2>5. ASSUME NEW t \in DOMAIN baseTables
            PROVE  /\ baseTables'[t].alias = baseTables[t].alias /\ baseTables'[t].order = baseTables[t].order
                   /\ baseTables'[t].hidden = IF t = id THEN h ELSE baseTables[t].hidden
            BY <1>1, <1>2, <2>1 DEF StoredTable
      <2> QED BY <1>3, <2>1, <2>2, <2>3, <2>4, <2>5
<1>4. CASE w.op = "alias"
      <2>1. id \in DOMAIN baseTables /\ baseTables' = [baseTables EXCEPT ![id].alias = w.args[2]]
            BY <1>4 DEF TableServed, TableActs
      <2>2. \A t : ~ HidesTable(w, t)
            BY <1>4 DEF HidesTable
      <2>3. \A t : AliasesTable(w, t) <=> t = id
            BY <1>4 DEF AliasesTable
      <2> HIDE DEF id
      <2>4. DOMAIN baseTables' = DOMAIN baseTables
            BY <1>1, <2>1
      <2>5. ASSUME NEW t \in DOMAIN baseTables
            PROVE  /\ baseTables'[t].hidden = baseTables[t].hidden /\ baseTables'[t].order = baseTables[t].order
                   /\ baseTables'[t].alias = IF t = id THEN w.args[2] ELSE baseTables[t].alias
            BY <1>1, <1>2, <2>1 DEF StoredTable
      <2> QED BY <1>4, <2>2, <2>3, <2>4, <2>5
<1>5. CASE w.op = "order"
      <2>1. baseTables' = [t \in DOMAIN baseTables |->
              IF \E i \in DOMAIN w.args : w.args[i] = t
              THEN [baseTables[t] EXCEPT !.order = (CHOOSE i \in DOMAIN w.args : w.args[i] = t) - 1]
              ELSE baseTables[t]]
            BY <1>5 DEF TableServed, TableActs
      <2>2. w.args \in Seq(TableIds)
            BY <1>1, <1>5 DEF TableWriteFits
      <2> DEFINE ids == w.args
      <2>3. ids \in Seq(TableIds) /\ ids = w.args
            BY <2>2
      <2> HIDE DEF ids
      <2>4. /\ DOMAIN baseTables' = DOMAIN baseTables
            /\ \A t \in DOMAIN baseTables : /\ baseTables'[t].hidden = baseTables[t].hidden
                                            /\ baseTables'[t].alias = baseTables[t].alias
            /\ \A i \in DOMAIN ids : (\A j \in DOMAIN ids : ids[i] = ids[j] => i = j) /\ ids[i] \in DOMAIN baseTables
                 => baseTables'[ids[i]].order = i - 1
            BY <1>1, <2>1, <2>3, OrderedTables
      <2>5. \A t : ~ HidesTable(w, t) /\ ~ AliasesTable(w, t)
            BY <1>5 DEF HidesTable, AliasesTable
      <2> QED BY <1>5, <2>3, <2>4, <2>5
<1> QED BY <1>3, <1>4, <1>5

LEMMA ServedRight ==
  ASSUME TablesInv, NEW w \in tableWrites, NEW x, HandledTable(w, x), x.at = "ok", w.at # "ok", TableServed(w),
         w.op \in {"alias", "hide", "unhide", "order"}, SettingsRight, ~ tableExcused,
         UNCHANGED <<settingsTables, renaming>>
  PROVE  SettingsRight'
<1>1. /\ DOMAIN baseTables' = DOMAIN baseTables
      /\ \A t \in DOMAIN baseTables :
           /\ baseTables'[t].alias = IF AliasesTable(w, t) THEN w.args[2] ELSE baseTables[t].alias
           /\ baseTables'[t].hidden <=> IF HidesTable(w, t) THEN w.op = "hide" ELSE baseTables[t].hidden
           /\ w.op # "order" => baseTables'[t].order = baseTables[t].order
      /\ w.op = "order" => \A i \in DOMAIN w.args :
           (\A j \in DOMAIN w.args : w.args[i] = w.args[j] => i = j) /\ w.args[i] \in DOMAIN baseTables
           => baseTables'[w.args[i]].order = i - 1
      BY ServedSettings
<1>2. /\ tableWrites' = (tableWrites \ {w}) \cup {x}
      /\ x.op = w.op /\ x.args = w.args /\ x.after = w.after /\ x.alone = w.alone
      BY DEF HandledTable
<1>3. TablesShape /\ AloneTable /\ TableListFits(settingsTables)
      BY DEF TablesInv, TablesShape
<1>4. /\ \A u \in tableWrites' : u = x \/ (u # w /\ u \in tableWrites)
      /\ \A u \in tableWrites : u = w \/ u \in tableWrites'
      /\ x \in tableWrites'
      BY <1>2
<1>5. ASSUME NEW e \in EntriesIn(settingsTables) PROVE AliasFollows(e)' /\ HiddenFollows(e)'
      <2>1. AliasFollows(e) /\ HiddenFollows(e) /\ e.id \in DOMAIN baseTables
            BY <1>3, SettingsEntries DEF SettingsRight
      <2>2. /\ AliasesTable(x, e.id) <=> AliasesTable(w, e.id)
            /\ HidesTable(x, e.id) <=> HidesTable(w, e.id)
            BY <1>2 DEF AliasesTable, HidesTable
      <2>3. HiddenFollows(e)'
            <3>1. \A u \in tableWrites' : HidesTable(u, e.id) => (e.hidden <=> u.op = "hide")
                  BY <1>2, <1>4, <2>1, <2>2 DEF HiddenFollows
            <3>2. ASSUME \A u \in tableWrites' : HidesTable(u, e.id) => u.at = "ok"
                  PROVE  e.hidden <=> baseTables'[e.id].hidden
                  <4>1. CASE HidesTable(w, e.id)
                        BY <1>1, <2>1, <4>1 DEF HiddenFollows
                  <4>2. CASE ~ HidesTable(w, e.id)
                        <5>1. \A u \in tableWrites : HidesTable(u, e.id) => u.at = "ok"
                              BY <1>4, <3>2, <4>2
                        <5> QED BY <1>1, <2>1, <4>2, <5>1 DEF HiddenFollows
                  <4> QED BY <4>1, <4>2
            <3> QED BY <3>1, <3>2 DEF HiddenFollows
      <2>4. AliasFollows(e)'
            <3>1. CASE renaming.id = e.id
                  BY <2>1, <3>1 DEF AliasFollows
            <3>2. CASE renaming.id # e.id
                  <4>1. \A u \in tableWrites' : AliasesTable(u, e.id) => e.alias = u.args[2]
                        BY <1>2, <1>4, <2>1, <2>2, <3>2 DEF AliasFollows
                  <4>2. ASSUME \A u \in tableWrites' : AliasesTable(u, e.id) => u.at = "ok"
                        PROVE  e.alias = baseTables'[e.id].alias
                        <5>1. CASE AliasesTable(w, e.id)
                              BY <1>1, <2>1, <3>2, <5>1 DEF AliasFollows
                        <5>2. CASE ~ AliasesTable(w, e.id)
                              <6>1. \A u \in tableWrites : AliasesTable(u, e.id) => u.at = "ok"
                                    BY <1>4, <4>2, <5>2
                              <6> QED BY <1>1, <2>1, <3>2, <5>2, <6>1 DEF AliasFollows
                        <5> QED BY <5>1, <5>2
                  <4> QED BY <3>2, <4>1, <4>2 DEF AliasFollows
            <3> QED BY <3>1, <3>2
      <2> QED BY <2>3, <2>4
<1>6. OrderFollows'
      <2>1. OrderFollows
            BY DEF SettingsRight
      <2>2. \A u \in tableWrites' : u.op = "order" => u.args = TableIdsOf(settingsTables)
            BY <1>2, <1>4, <2>1 DEF OrderFollows
      <2>3. DOMAIN settingsTables = 1..Len(settingsTables)
            BY <1>3, TableLists DEF TableListFits
      <2>4. \A i \in DOMAIN settingsTables : settingsTables[i].id \in DOMAIN baseTables
            BY DEF SettingsRight, IdsIn
      <2>5. CASE w.op = "order"
            <3>1. w.args = TableIdsOf(settingsTables)
                  BY <2>1, <2>5 DEF OrderFollows
            <3>2. /\ DOMAIN w.args = DOMAIN settingsTables
                  /\ \A i \in DOMAIN settingsTables : w.args[i] = settingsTables[i].id
                  BY <3>1 DEF TableIdsOf
            <3>3. \A i \in DOMAIN settingsTables : baseTables'[settingsTables[i].id].order = i - 1
                  <4> SUFFICES ASSUME NEW i \in DOMAIN settingsTables
                               PROVE  baseTables'[settingsTables[i].id].order = i - 1
                      OBVIOUS
                  <4>1. \A j \in DOMAIN w.args : w.args[i] = w.args[j] => i = j
                        BY <1>3, <3>2 DEF TableListFits, DistinctTables
                  <4>2. w.args[i] = settingsTables[i].id /\ i \in DOMAIN w.args /\ w.args[i] \in DOMAIN baseTables
                        BY <2>4, <3>2
                  <4>3. baseTables'[w.args[i]].order = i - 1
                        BY <1>1, <2>5, <4>1, <4>2
                  <4> QED BY <4>2, <4>3
            <3>4. TablesSorted(settingsTables, baseTables')
                  BY <2>3, <3>3 DEF TablesSorted
            <3> QED BY <2>2, <3>4 DEF OrderFollows, TablesSorted
      <2>6. CASE w.op # "order"
            <3>1. ASSUME \A u \in tableWrites' : u.op = "order" => u.at = "ok"
                  PROVE  TablesSorted(settingsTables, baseTables')
                  <4>1. \A u \in tableWrites : u.op = "order" => u.at = "ok"
                        BY <1>4, <2>6, <3>1
                  <4>2. TablesSorted(settingsTables, baseTables)
                        BY <2>1, <4>1 DEF OrderFollows
                  <4> QED BY <1>1, <2>4, <2>6, <4>2 DEF TablesSorted
            <3> QED BY <2>2, <3>1 DEF OrderFollows, TablesSorted
      <2> QED BY <2>5, <2>6
<1>7. NoTwo'
      <2> SUFFICES ASSUME NEW u \in tableWrites', NEW v \in tableWrites', SameSubject(u, v) PROVE u = v
          BY DEF NoTwo
      <2>1. \A y : (SameSubject(x, y) <=> SameSubject(w, y)) /\ (SameSubject(y, x) <=> SameSubject(y, w))
            BY <1>2 DEF SameSubject, HidesTable
      <2>2. NoTwo
            BY DEF SettingsRight
      <2> QED BY <1>4, <2>1, <2>2 DEF NoTwo
<1>8. PutsBackRight'
      <2> SUFFICES ASSUME NEW u \in tableWrites', u.alone, u.at # "ok" PROVE FALSE
          BY DEF PutsBackRight
      <2>1. u # w /\ u \in tableWrites
            BY <1>4
      <2> QED BY <1>3, <2>1 DEF AloneTable
<1> QED BY <1>1, <1>5, <1>6, <1>7, <1>8 DEF SettingsRight

LEMMA UnservedRight ==
  ASSUME TablesInv, NEW w \in tableWrites, NEW x, HandledTable(w, x), x.at # "ok", w.at # "ok",
         SettingsRight, UNCHANGED <<baseTables, settingsTables, renaming>>
  PROVE  SettingsRight'
<1>1. /\ tableWrites' = (tableWrites \ {w}) \cup {x}
      /\ x.op = w.op /\ x.args = w.args /\ x.after = w.after /\ x.alone = w.alone
      BY DEF HandledTable
<1>2. /\ \A u \in tableWrites' : u = x \/ (u # w /\ u \in tableWrites)
      /\ \A u \in tableWrites : u = w \/ u \in tableWrites'
      /\ x \in tableWrites'
      BY <1>1
<1>3. ASSUME NEW e \in EntriesIn(settingsTables) PROVE AliasFollows(e)' /\ HiddenFollows(e)'
      <2>1. AliasFollows(e) /\ HiddenFollows(e)
            BY DEF SettingsRight
      <2>2. /\ AliasesTable(x, e.id) <=> AliasesTable(w, e.id)
            /\ HidesTable(x, e.id) <=> HidesTable(w, e.id)
            BY <1>1 DEF AliasesTable, HidesTable
      <2>3. HiddenFollows(e)'
            BY <1>1, <1>2, <2>1, <2>2 DEF HiddenFollows
      <2>4. AliasFollows(e)'
            BY <1>1, <1>2, <2>1, <2>2 DEF AliasFollows
      <2> QED BY <2>3, <2>4
<1>4. OrderFollows'
      BY <1>1, <1>2 DEF SettingsRight, OrderFollows, TablesSorted
<1>5. NoTwo'
      <2> SUFFICES ASSUME NEW u \in tableWrites', NEW v \in tableWrites', SameSubject(u, v) PROVE u = v
          BY DEF NoTwo
      <2>1. \A y : (SameSubject(x, y) <=> SameSubject(w, y)) /\ (SameSubject(y, x) <=> SameSubject(y, w))
            BY <1>1 DEF SameSubject, HidesTable
      <2>2. NoTwo
            BY DEF SettingsRight
      <2> QED BY <1>2, <2>1, <2>2 DEF NoTwo
<1>6. PutsBackRight'
      BY <1>1, <1>2 DEF SettingsRight, PutsBackRight, ListsTables, TablesSorted, TableEntry
<1> QED BY <1>3, <1>4, <1>5, <1>6 DEF SettingsRight

LEMMA HandledSettings ==
  ASSUME TablesInv, SettingsFollow, NEW w \in tableWrites, TableHandled(w), SettingsOpen' PROVE SettingsRight'
<1>1. TablesShape /\ OnePage /\ TableWriteFits(w)
      BY DEF TablesInv, TablesShape
<1>2. PICK at : TableServes(w, at) /\ (at = "ok" => TableServed(w))
      BY <1>1, TableServedRight
<1>3. PICK x : HandledTable(w, x) /\ x.at = at
      BY <1>1, <1>2, TableAnswerSets DEF HandledTable
<1>4. UNCHANGED <<tablesPage, tableExcused, settingsTables, renaming>>
      BY <1>2 DEF TableHandled, TableServes, TabsOnly, SettingsOpen
<1>5. w.at # "error" /\ w.at # "ok"
      BY DEF TableHandled, TableChecked, TableServed, TableLost, TableActs, TableRefused
<1>6. ~ SettingsDoomed
      BY <1>3, <1>5 DEF SettingsOpen, SettingsDoomed, HandledTable
<1>7. SettingsRight /\ tablesPage = "settings" /\ ~ tableExcused
      BY <1>4, <1>6 DEF SettingsFollow, SettingsOpen
<1>8. w.op \in {"alias", "hide", "unhide", "order"}
      BY <1>1, <1>7 DEF OnePage, TableWriteFits
<1>9. CASE at = "ok"
      <2>1. TableServed(w)
            BY <1>2, <1>9
      <2> QED BY <1>3, <1>4, <1>5, <1>7, <1>8, <1>9, <2>1, ServedRight
<1>10. CASE at # "ok"
       <2>1. baseTables' = baseTables
             BY <1>2, <1>10 DEF TableServes, SettingsOpen
       <2> QED BY <1>3, <1>4, <1>5, <1>7, <1>10, <2>1, UnservedRight
<1> QED BY <1>9, <1>10

-----------------------------------------------------------------------------
(* The rest of the settings                                                *)

LEMMA SettingsAnsweredFollows ==
  ASSUME TablesInv, TablesInv', SettingsFollow, NEW w \in tableWrites, SettingsAnswered(w), SettingsOpen'
  PROVE  SettingsRight'
<1>1. /\ w.from = "settings" /\ w.at \in {"ok", "error"} /\ tableWrites' = tableWrites \ {w}
      /\ settingsTables' = (IF w.at = "error" THEN w.after ELSE settingsTables)
      /\ tableExcused' = (tableExcused \/ (w.at = "error" /\ ~ w.alone))
      /\ UNCHANGED <<baseTables, tablesPage, renaming>>
      BY DEF SettingsAnswered, PutBack
<1>2. ~ tableExcused /\ (w.at = "error" => w.alone) /\ tablesPage = "settings"
      BY <1>1 DEF SettingsOpen
<1>3. SettingsRight
      <2>1. ~ SettingsDoomed
            BY <1>1, <1>2 DEF SettingsOpen, SettingsDoomed
      <2> QED BY <1>2, <2>1 DEF SettingsFollow, SettingsOpen
<1>4. CASE w.at = "error"
      <2>1. tableWrites' = {} /\ renaming = NoRename
            BY <1>1, <1>2, <1>4 DEF TablesInv, AloneTable
      <2>2. ListsTables(w.after, baseTables)
            BY <1>2, <1>3, <1>4 DEF SettingsRight, PutsBackRight
      <2>3. ListsTables(settingsTables', baseTables')
            BY <1>1, <1>4, <2>2
      <2> QED BY <1>1, <2>1, <2>3, ListedIsRight DEF TablesInv
<1>5. CASE w.at = "ok"
      <2>1. settingsTables' = settingsTables
            BY <1>1, <1>5
      <2>2. \A u \in tableWrites : u = w \/ u \in tableWrites'
            BY <1>1
      <2>3. \A u \in tableWrites' : u \in tableWrites
            BY <1>1
      <2>4. ASSUME NEW e \in EntriesIn(settingsTables) PROVE AliasFollows(e)' /\ HiddenFollows(e)'
            <3>1. AliasFollows(e) /\ HiddenFollows(e)
                  BY <1>3 DEF SettingsRight
            <3>2. HiddenFollows(e)'
                  BY <1>1, <1>5, <2>2, <2>3, <3>1 DEF HiddenFollows
            <3>3. AliasFollows(e)'
                  BY <1>1, <1>5, <2>2, <2>3, <3>1 DEF AliasFollows
            <3> QED BY <3>2, <3>3
      <2>5. OrderFollows'
            BY <1>1, <1>3, <1>5, <2>1, <2>2, <2>3 DEF SettingsRight, OrderFollows, TablesSorted
      <2>6. NoTwo'
            BY <1>3, <2>3 DEF SettingsRight, NoTwo
      <2>7. PutsBackRight'
            BY <1>1, <1>3, <2>3 DEF SettingsRight, PutsBackRight, ListsTables, TablesSorted, TableEntry
      <2> QED BY <1>1, <1>3, <2>1, <2>4, <2>5, <2>6, <2>7 DEF SettingsRight
<1> QED BY <1>1, <1>4, <1>5

LEMMA SettingsVisited ==
  ASSUME TablesInv', VisitTables, SettingsOpen' PROVE SettingsRight'
<1>1. \E list : ListsTables(list, baseTables') /\ (TabsPage(list) \/ SettingsPage(list))
      BY VisitedPage
<1>2. PICK list : ListsTables(list, baseTables') /\ SettingsPage(list)
      BY <1>1 DEF SettingsOpen, TabsPage
<1>3. settingsTables' = list /\ tableWrites' = {} /\ renaming' = NoRename
      BY <1>2 DEF SettingsPage, VisitTables
<1> QED BY <1>2, <1>3, ListedIsRight DEF TablesInv

(* A copy of the cache is right if the cache is the server's.              *)
LEMMA SettingsOpened ==
  ASSUME TablesInv, TablesInv', OpensSettings, SettingsOpen' PROVE SettingsRight'
<1>1. /\ settingsTables' = tablesCache /\ tableWrites' = {} /\ renaming' = NoRename
      /\ tablesCache \in ServerTables(baseTables) /\ baseTables' = baseTables
      BY DEF OpensSettings, SettingsPage, SettingsOpen
<1>2. ListsTables(tablesCache, baseTables)
      BY <1>1, ServerTablesAre DEF TablesInv, TablesShape
<1>3. ListsTables(settingsTables', baseTables')
      BY <1>1, <1>2
<1> QED BY <1>1, <1>3, ListedIsRight DEF TablesInv

LEMMA SettingsFollowNext ==
  TablesInv /\ SettingsFollow /\ TablesInv' /\ [TablesNext]_tableVars => SettingsFollow'
<1> SUFFICES ASSUME TablesInv, SettingsFollow, TablesInv', [TablesNext]_tableVars, SettingsOpen'
             PROVE  SettingsRight'
    BY DEF SettingsFollow
<1>1. CASE UNCHANGED tableVars
      BY <1>1 DEF tableVars, SettingsFollow, SettingsOpen, SettingsDoomed, SettingsRight, AliasFollows, HiddenFollows,
                  OrderFollows, NoTwo, PutsBackRight, ListsTables, TablesSorted, TableEntry
<1>2. CASE tablesPage = "settings" /\ BaseTablesSettings
      BY <1>2, RenameFollows, FiredFollows, ToggleFollows, ReorderFollows DEF BaseTablesSettings
<1>3. CASE TableTabs
      <2>1. tablesPage = "tabs" /\ tablesPage' = tablesPage
            BY <1>3 DEF TableTabs, ChangesTable, OpensTabMenu, TableTabItemMenu, LeavesTabMenu, HidesOrDropsTable,
                        ReindexesTable, ReordersTabs, TablesAsked, TableAsks
      <2> QED BY <2>1 DEF SettingsOpen
<1>4. ASSUME NEW w \in tableWrites, TabsAnswered(w) PROVE FALSE
      <2>1. w.from = "tabs" /\ tablesPage' = tablesPage
            BY <1>4 DEF TabsAnswered
      <2> QED BY <2>1 DEF TablesInv, OnePage, SettingsOpen
<1>5. ASSUME NEW w \in tableWrites, OthersAnswered(w) PROVE FALSE
      <2>1. w.from = "others" /\ tableExcused' = tableExcused
            BY <1>5 DEF OthersAnswered
      <2> QED BY <2>1 DEF TablesInv, OnePage, SettingsOpen
<1>6. CASE OthersHideTable
      BY <1>6 DEF OthersHideTable, SettingsOpen
<1>7. CASE TablesRead \/ TablesArrive
      <2>1. tablesFetch.at # "no" /\ tablesPage' = tablesPage
            BY <1>7 DEF TablesRead, TablesArrive
      <2> QED BY <2>1, NoFetchFits DEF TablesInv, OnePage, SettingsOpen
<1> QED BY <1>1, <1>2, <1>3, <1>4, <1>5, <1>6, <1>7, HandledSettings, SettingsAnsweredFollows, SettingsOpened,
        SettingsVisited DEF TablesNext

(* The list of the settings ends as the server's, also after a request     *)
(* that was refused, unless the cache it copied was not the server's, the  *)
(* answer of what was done was lost, a rename was dropped for another,     *)
(* what failed had company, or the same was sent again.                    *)
THEOREM SettingsDoSettle == TablesSpec => []SettingsSettle
<1>1. TablesInit => SettingsFollow
      BY DEF TablesInit, SettingsFollow, SettingsOpen
<1>2. TablesSpec => []SettingsFollow
      BY <1>1, SettingsFollowNext, TablesAlways, PTL DEF TablesSpec
<1>3. TablesInv /\ SettingsFollow => SettingsSettle
      <2> SUFFICES ASSUME TablesInv, SettingsFollow, tablesPage = "settings", tableWrites = {}, renaming = NoRename,
                          ~ tableExcused
                   PROVE  settingsTables \in ServerTables(baseTables)
          BY DEF SettingsSettle
      <2>1. SettingsRight
            BY DEF SettingsFollow, SettingsOpen, SettingsDoomed
      <2>2. ListsTables(settingsTables, baseTables)
            BY <2>1, SettingsAtRest DEF TablesInv
      <2> QED BY <2>2, ServerTablesAre DEF TablesInv, TablesShape
<1> QED BY <1>2, <1>3, TablesAlways, PTL

-----------------------------------------------------------------------------
(* The views of a table: their lists, and what the server may answer       *)

DistinctViews(s) == \A i, j \in DOMAIN s : s[i].id = s[j].id => i = j
ViewListFits(s) == s \in Seq(ListedView) /\ DistinctViews(s)
ViewEntry(views, v) == [id |-> v, name |-> views[v].name, on |-> views[v].on]
StoredView == [order : Nat, name : ViewNames, on : BOOLEAN]
ViewsRight(views) ==
  DOMAIN views \subseteq ViewIds /\ \A v \in DOMAIN views : views[v] \in StoredView
ViewsSorted(s, views) == \A i, j \in DOMAIN s : i < j => views[s[i].id].order <= views[s[j].id].order
ListsViews(s, views) ==
  /\ ViewListFits(s) /\ IdsIn(s) = DOMAIN views /\ ViewsSorted(s, views)
  /\ \A i \in DOMAIN s : s[i] = ViewEntry(views, s[i].id)

LEMMA ViewLists ==
  ASSUME NEW s \in Seq(ListedView)
  PROVE  /\ DOMAIN s = 1..Len(s) /\ Len(s) \in Nat
         /\ \A i \in DOMAIN s : /\ s[i] \in ListedView /\ s[i].id \in ViewIds
                                /\ s[i].name \in ViewNames /\ s[i].on \in BOOLEAN
<1>1. DOMAIN s = 1..Len(s) /\ Len(s) \in Nat /\ \A i \in DOMAIN s : s[i] \in ListedView
      BY LenProperties
<1> QED BY <1>1 DEF ListedView

LEMMA EmptyViewList == ViewListFits(<<>>) /\ IdsIn(<<>>) = {}
BY DEF ViewListFits, DistinctViews, IdsIn

LEMMA ViewIdLists ==
  ASSUME NEW s, ViewListFits(s)
  PROVE  LET ids == ViewIdsOf(s) IN
         /\ ids \in Seq(ViewIds) /\ DOMAIN ids = DOMAIN s /\ \A i \in DOMAIN s : ids[i] = s[i].id
<1> DEFINE ids == ViewIdsOf(s)
<1>1. /\ DOMAIN ids = DOMAIN s /\ ids = [i \in DOMAIN s |-> ids[i]] /\ s \in Seq(ListedView)
      /\ \A i \in DOMAIN s : ids[i] = s[i].id
      BY DEF ViewIdsOf, ViewListFits
<1>2. \A i \in DOMAIN s : ids[i] \in ViewIds
      BY <1>1, ViewLists
<1> HIDE DEF ids
<1>3. ids \in Seq(ViewIds)
      BY <1>1, <1>2, MappedList
<1> QED BY <1>1, <1>3 DEF ids

LEMMA MovedViewLists ==
  ASSUME NEW s, ViewListFits(s), NEW i \in DOMAIN s, NEW j \in DOMAIN s
  PROVE  ViewListFits(Moved(s, i, j)) /\ EntriesIn(Moved(s, i, j)) = EntriesIn(s)
<1> DEFINE t == Moved(s, i, j)
<1>1. s \in Seq(ListedView)
      BY DEF ViewListFits
<1>2. /\ t \in Seq(ListedView) /\ DOMAIN t = DOMAIN s
      /\ \E p : FromPlaces(t, s, p, DOMAIN s)
      BY <1>1, MovedList
<1> HIDE DEF t
<1>3. PICK p : FromPlaces(t, s, p, DOMAIN s)
      BY <1>2
<1>4. DOMAIN t = 1..Len(t)
      BY <1>2, ViewLists
<1>5. /\ \A k \in DOMAIN t : p[k] \in DOMAIN s /\ t[k] = s[p[k]]
      /\ \A m \in DOMAIN s : \E k \in DOMAIN t : t[k] = s[m]
      BY <1>3, <1>4 DEF FromPlaces
<1>6. DistinctViews(t)
      <2> SUFFICES ASSUME NEW k \in DOMAIN t, NEW l \in DOMAIN t, t[k].id = t[l].id PROVE k = l
          BY DEF DistinctViews
      <2>1. p[k] = p[l]
            BY <1>5 DEF ViewListFits, DistinctViews
      <2> QED BY <1>3, <1>4, <2>1 DEF FromPlaces
<1>7. EntriesIn(t) = EntriesIn(s)
      BY <1>5 DEF EntriesIn
<1> QED BY <1>2, <1>6, <1>7 DEF ViewListFits, t

LEMMA ServerViewsAre ==
  ASSUME NEW views, ViewsRight(views), NEW s
  PROVE  s \in ServerViews(views) <=> ListsViews(s, views)
<1> DEFINE D == DOMAIN views
           entry == [v \in D |-> ViewEntry(views, v)]
           S == {entry[v] : v \in D}
<1>1. IsFiniteSet(D) /\ DOMAIN entry = D
      BY ViewsAssumption, FS_Subset DEF ViewsRight
<1>2. \A v \in D : entry[v].id = v /\ entry[v] = ViewEntry(views, v)
      BY DEF ViewEntry
<1>3. s \in ServerViews(views) <=> s \in SetToSeqs(S) /\ ViewsSorted(s, views)
      <2>1. {[id |-> v, name |-> views[v].name, on |-> views[v].on] : v \in DOMAIN views} = S
            BY <1>2 DEF ViewEntry
      <2> HIDE DEF S, D, entry
      <2> QED BY <2>1 DEF ServerViews, ViewsSorted
<1>4. S \subseteq ListedView
      BY <1>2 DEF ViewsRight, StoredView, ListedView, ViewEntry
<1> HIDE DEF entry
<1>5. s \in SetToSeqs(S) <=> /\ s \in Seq(S) /\ \A i, j \in DOMAIN s : s[i].id = s[j].id => i = j
                             /\ {s[i].id : i \in DOMAIN s} = D
                             /\ \A i \in DOMAIN s : s[i] = entry[s[i].id]
      <2> HIDE DEF D
      <2> QED BY <1>1, <1>2, ListsOfEntries
<1>6. ASSUME s \in SetToSeqs(S), ViewsSorted(s, views) PROVE ListsViews(s, views)
      <2>1. s \in Seq(ListedView)
            BY <1>4, <1>5, <1>6
      <2>2. \A i \in DOMAIN s : s[i].id \in D
            BY <1>5, <1>6
      <2> QED BY <1>2, <1>5, <1>6, <2>1, <2>2 DEF ListsViews, ViewListFits, DistinctViews, IdsIn
<1>7. ASSUME ListsViews(s, views) PROVE s \in SetToSeqs(S) /\ ViewsSorted(s, views)
      <2>1. /\ s \in Seq(ListedView) /\ DistinctViews(s) /\ IdsIn(s) = D /\ ViewsSorted(s, views)
            /\ \A i \in DOMAIN s : s[i] = ViewEntry(views, s[i].id)
            BY <1>7 DEF ListsViews, ViewListFits
      <2>2. \A i \in DOMAIN s : s[i].id \in D /\ s[i] = entry[s[i].id]
            BY <1>2, <2>1 DEF IdsIn
      <2>3. \A i \in DOMAIN s : s[i] \in S
            BY <2>2
      <2>4. s \in Seq(S)
            <3>1. Len(s) \in Nat /\ s \in [1..Len(s) -> ListedView]
                  BY <2>1, LenProperties
            <3> QED BY <2>3, <3>1
      <2> QED BY <1>5, <2>1, <2>2, <2>4 DEF DistinctViews, IdsIn
<1> QED BY <1>3, <1>6, <1>7

(* A list of the server's views along which their order ascends is the     *)
(* only one there is.                                                      *)
LEMMA AscendingIsListed ==
  ASSUME NEW views, ViewsRight(views), NEW s, ListsViews(s, views), NEW t, ViewListFits(t),
         EntriesIn(t) = EntriesIn(s),
         \A k, l \in DOMAIN t : k < l => views[t[k].id].order < views[t[l].id].order
  PROVE  s = t
<1> DEFINE S == EntriesIn(s)
           order == [x \in S |-> views[x.id].order]
<1>1. s \in Seq(ListedView) /\ t \in Seq(ListedView)
      BY DEF ListsViews, ViewListFits
<1>2. /\ \A i \in DOMAIN s : s[i] \in S /\ \E n \in DOMAIN t : s[i] = t[n]
      /\ \A n \in DOMAIN t : t[n] \in S /\ \E i \in DOMAIN s : s[i] = t[n]
      BY DEF EntriesIn
<1>3. s \in Seq(S) /\ t \in Seq(S)
      <2>1. /\ Len(s) \in Nat /\ s \in [1..Len(s) -> ListedView]
            /\ Len(t) \in Nat /\ t \in [1..Len(t) -> ListedView]
            BY <1>1, LenProperties
      <2>2. s \in [1..Len(s) -> S] /\ t \in [1..Len(t) -> S]
            BY <1>1, <1>2, <2>1, ViewLists
      <2> HIDE DEF S
      <2> QED BY <2>1, <2>2
<1>4. \A x \in S : order[x] = views[x.id].order /\ order[x] \in Nat
      <2>1. \A x \in S : x.id \in DOMAIN views
            BY DEF EntriesIn, ListsViews, IdsIn
      <2> QED BY <2>1 DEF ViewsRight, StoredView
<1>5. NoneTwice(s)
      BY DEF ListsViews, ViewListFits, DistinctViews, NoneTwice
<1>6. InOrder(s, order)
      BY <1>2, <1>4 DEF ListsViews, ViewsSorted, InOrder
<1>7. Rises(t, order)
      BY <1>2, <1>4 DEF Rises
<1>8. SameElements(s, t)
      BY <1>2 DEF SameElements
<1>9. \A x \in S : order[x] \in Nat
      BY <1>4
<1> HIDE DEF S, order
<1> QED BY <1>8, <1>9, <1>3, <1>4, <1>5, <1>6, <1>7, SortedUnique

LEMMA AnyNameIsName == AnyName \in ViewNames
<1>1. ViewNames # {}
      <2>1. Cardinality(ViewIds) \in Nat /\ Cardinality(ViewIds) # 0
            BY ViewsAssumption, FS_CardinalityType, FS_EmptySet
      <2>2. Cardinality({}) = 0
            BY FS_EmptySet
      <2> QED BY <2>1, <2>2, ViewsAssumption
<1> QED BY <1>1 DEF AnyName

(* The views of a table can have different names.                          *)
LEMMA NamesSuffice ==
  ASSUME NEW there \in SUBSET ViewIds
  PROVE  \E f \in [there -> ViewNames] : IsInjective(f)
<1> DEFINE m == Cardinality(there)
           n == Cardinality(ViewNames)
<1>1. /\ IsFiniteSet(there) /\ m \in Nat /\ n \in Nat /\ m <= n
      <2>1. IsFiniteSet(there) /\ Cardinality(there) <= Cardinality(ViewIds)
            BY ViewsAssumption, FS_Subset
      <2>2. /\ Cardinality(there) \in Nat /\ Cardinality(ViewIds) \in Nat
            /\ Cardinality(ViewNames) \in Nat
            BY <2>1, ViewsAssumption, FS_CardinalityType
      <2> QED BY <2>1, <2>2, ViewsAssumption
<1>2. PICK f : f \in Bijection(1..m, there)
      <2>1. PICK k \in Nat : ExistsBijection(1..k, there)
            BY <1>1, FS_NatBijection
      <2>2. k = m
            BY <2>1, FS_CountingElements
      <2> QED BY <2>1, <2>2 DEF ExistsBijection
<1>3. PICK g : g \in Bijection(1..n, ViewNames)
      <2>1. PICK k \in Nat : ExistsBijection(1..k, ViewNames)
            BY ViewsAssumption, FS_NatBijection
      <2>2. k = n
            BY <2>1, FS_CountingElements
      <2> QED BY <2>1, <2>2 DEF ExistsBijection
<1> HIDE DEF m, n
<1>4. /\ f \in [1..m -> there] /\ \A v \in there : \E i \in 1..m : f[i] = v
      BY <1>2 DEF Bijection, Surjection, Injection
<1>5. /\ g \in [1..n -> ViewNames] /\ \A i, j \in 1..n : g[i] = g[j] => i = j
      BY <1>3 DEF Bijection, Injection, IsInjective
<1> DEFINE place == [v \in there |-> CHOOSE i \in 1..m : f[i] = v]
           h == [v \in there |-> g[place[v]]]
<1>6. \A v \in there : place[v] \in 1..m /\ f[place[v]] = v
      BY <1>4
<1>7. \A v \in there : place[v] \in 1..n
      BY <1>1, <1>6
<1> HIDE DEF place
<1>8. h \in [there -> ViewNames]
      BY <1>5, <1>7
<1>9. IsInjective(h)
      <2>1. \A v, w \in there : h[v] = h[w] => v = w
            BY <1>5, <1>6, <1>7
      <2> QED BY <2>1 DEF IsInjective
<1> QED BY <1>8, <1>9

-----------------------------------------------------------------------------
(* The types of what is kept of the views.  A form whose name has not been *)
(* touched has the name it took over, and the switch too unless it comes   *)
(* from another view; a request to update a view asks for what its form    *)
(* says.                                                                   *)

ViewFormFits(f) ==
  /\ f \in [open : BOOLEAN, id : ViewIds \cup {0}, name : ViewNames, on : BOOLEAN,
            was : [name : ViewNames, on : BOOLEAN], touched : SUBSET {"name", "on"},
            carried : BOOLEAN]
  /\ f.open => f.id # 0
  /\ "name" \notin f.touched => f.name = f.was.name
  /\ "on" \notin f.touched /\ ~ f.carried => f.on = f.was.on

ViewRequestFields == {"op", "args", "answer", "key", "form"}
LaterStages == {"views", "fetched", "view", "done"}
ViewFormOps == {"create", "update", "delete"}
ViewRequestFits(r) ==
  /\ DOMAIN r = ViewRequestFields /\ r = [x \in DOMAIN r |-> r[x]]
  /\ r.op \in {"default", "order", "create", "update", "delete"}
  /\ r.answer \in {"none", "ok", "error"} \cup LaterStages
  /\ r.answer \in LaterStages => r.op \in ViewFormOps
  /\ r.key \in ViewIds \cup {0} /\ (r.answer = "view" => r.key # 0)
  /\ r.op = "order" => r.args \in Seq(ViewIds)
  /\ r.op # "order" => r.args[1] \in ViewIds
  /\ r.op \in {"create", "update"} => r.args[2] \in ViewNames
  /\ r.op = "update" => r.args[3] \in BOOLEAN
  /\ r.op = "update" /\ r.answer = "none" =>
       ViewFormFits(r.form) /\ r.args[2] = r.form.name /\ r.args[3] = r.form.on

ViewListsFit ==
  /\ ViewListFits(viewsCache) /\ ViewListFits(menuViews)
  /\ EntriesIn(menuViews) = EntriesIn(viewsCache)
ViewsFetchFits ==
  /\ viewsFetch.at \in {"no", "asked", "read"} /\ ViewListFits(viewsFetch.read)
ViewPageFits ==
  /\ defaultView \in ViewIds /\ openView \in ViewIds /\ viewData \in [ViewIds -> ViewIds]
  /\ viewsSaving \in BOOLEAN /\ viewsExcused \in BOOLEAN /\ viewFromUrl \in BOOLEAN
  /\ viewActions \in 0..MaxViewActions

ViewsShape ==
  /\ ViewsRight(tableViews) /\ ViewListsFit /\ ViewsFetchFits /\ ViewPageFits
  /\ ViewFormFits(viewForm) /\ \A r \in viewRequests : ViewRequestFits(r)

LEMMA ViewsShapeTypes == ViewsShape => ViewsTypeOK
<1> SUFFICES ASSUME ViewsShape PROVE ViewsTypeOK
    OBVIOUS
<1> USE DEF ViewsShape
<1>1. /\ DOMAIN tableViews \subseteq ViewIds
      /\ \A v \in DOMAIN tableViews : /\ tableViews[v].name \in ViewNames
                                      /\ tableViews[v].on \in BOOLEAN /\ tableViews[v].order \in Nat
      BY DEF ViewsRight, StoredView
<1>2. \A s \in {viewsCache, menuViews, viewsFetch.read} : s \in Seq(ListedView)
      BY DEF ViewListsFit, ViewsFetchFits, ViewListFits
<1>3. /\ {defaultView, openView} \subseteq ViewIds /\ viewData \in [ViewIds -> ViewIds]
      /\ {viewsSaving, viewFromUrl, viewsExcused} \subseteq BOOLEAN
      BY DEF ViewPageFits
<1>4. viewForm.id \in ViewIds \cup {0} /\ viewForm.touched \subseteq {"name", "on"}
      BY DEF ViewFormFits
<1> QED BY <1>1, <1>2, <1>3, <1>4 DEF ViewsTypeOK, ViewPageFits, ViewsFetchFits

LEMMA NoFormFits == ViewFormFits(NoForm)
BY AnyNameIsName DEF ViewFormFits, NoForm

(* A request that is answered, and one that comes a stage further, asks    *)
(* for what it asked for.                                                  *)
LEMMA AnsweredViewRequest ==
  ASSUME NEW r, ViewRequestFits(r), NEW a \in {"ok", "error"}
  PROVE  LET u == [r EXCEPT !.answer = a, !.form = NoForm] IN
         ViewRequestFits(u) /\ u.op = r.op /\ u.args = r.args /\ u.answer = a /\ u.key = r.key
<1> DEFINE u == [r EXCEPT !.answer = a, !.form = NoForm]
<1>1. DOMAIN r = ViewRequestFields /\ r = [x \in DOMAIN r |-> r[x]] /\ r.key \in ViewIds \cup {0}
      BY DEF ViewRequestFits
<1>2. /\ u.op = r.op /\ u.args = r.args /\ u.answer = a /\ u.key = r.key
      /\ DOMAIN u = ViewRequestFields /\ u = [x \in DOMAIN u |-> u[x]]
      BY <1>1 DEF ViewRequestFields
<1> HIDE DEF u
<1>3. ViewRequestFits(u)
      BY <1>1, <1>2 DEF ViewRequestFits, LaterStages
<1> QED BY <1>2, <1>3 DEF u

LEMMA StagedViewRequest ==
  ASSUME NEW r, ViewRequestFits(r), r.op \in ViewFormOps, NEW a \in LaterStages \ {"view"}
  PROVE  LET u == [r EXCEPT !.answer = a] IN
         ViewRequestFits(u) /\ u.op = r.op /\ u.args = r.args /\ u.answer = a
<1> DEFINE u == [r EXCEPT !.answer = a]
<1>1. DOMAIN r = ViewRequestFields /\ r = [x \in DOMAIN r |-> r[x]] /\ r.key \in ViewIds \cup {0}
      BY DEF ViewRequestFits
<1>2. /\ u.op = r.op /\ u.args = r.args /\ u.answer = a /\ u.key = r.key
      /\ DOMAIN u = ViewRequestFields /\ u = [x \in DOMAIN u |-> u[x]]
      BY <1>1 DEF ViewRequestFields
<1>3. a \notin {"none", "ok", "error"}
      BY DEF LaterStages
<1> HIDE DEF u
<1>4. ViewRequestFits(u)
      BY <1>1, <1>2, <1>3 DEF ViewRequestFits
<1> QED BY <1>2, <1>4 DEF u

LEMMA FetchingViewRequest ==
  ASSUME NEW r, ViewRequestFits(r), r.op \in ViewFormOps, NEW k \in ViewIds
  PROVE  LET u == [r EXCEPT !.answer = "view", !.key = k] IN
         ViewRequestFits(u) /\ u.op = r.op /\ u.args = r.args /\ u.answer = "view" /\ u.key = k
<1> DEFINE u == [r EXCEPT !.answer = "view", !.key = k]
<1>1. DOMAIN r = ViewRequestFields /\ r = [x \in DOMAIN r |-> r[x]]
      BY DEF ViewRequestFits
<1>2. /\ u.op = r.op /\ u.args = r.args /\ u.answer = "view" /\ u.key = k
      /\ DOMAIN u = ViewRequestFields /\ u = [x \in DOMAIN u |-> u[x]]
      BY <1>1 DEF ViewRequestFields
<1>3. "view" \in LaterStages /\ "view" \notin {"none", "ok", "error"} /\ k # 0
      BY ViewsAssumption DEF LaterStages
<1> HIDE DEF u
<1>4. ViewRequestFits(u)
      BY <1>2, <1>3 DEF ViewRequestFits
<1> QED BY <1>2, <1>4 DEF u

(* Every table that is visited has its views with different names.         *)
LEMMA VisitedViews ==
  ASSUME NEW there \in SUBSET ViewIds, NEW on \in there
  PROVE  LET names == CHOOSE f \in [there -> ViewNames] : IsInjective(f) IN
         ViewsRight([v \in there |-> [order |-> Cardinality({u \in there : u < v}),
                                      name |-> names[v], on |-> v = on]])
<1> DEFINE names == CHOOSE f \in [there -> ViewNames] : IsInjective(f)
           before(v) == {u \in there : u < v}
<1>1. names \in [there -> ViewNames]
      BY NamesSuffice
<1> HIDE DEF names
<1>2. ASSUME NEW v \in there PROVE Cardinality(before(v)) \in Nat
      <2>1. IsFiniteSet(before(v))
            BY ViewsAssumption, FS_Subset
      <2> HIDE DEF before
      <2> QED BY <2>1, FS_CardinalityType
<1>3. ASSUME NEW v \in there
      PROVE  [order |-> Cardinality(before(v)), name |-> names[v], on |-> v = on] \in StoredView
      <2>1. names[v] \in ViewNames
            BY <1>1
      <2> HIDE DEF before
      <2> QED BY <1>2, <2>1 DEF StoredView
<1> HIDE DEF before
<1> DEFINE views == [v \in there |-> [order |-> Cardinality(before(v)), name |-> names[v], on |-> v = on]]
<1>4. ViewsRight(views)
      BY <1>3 DEF ViewsRight
<1> QED BY <1>4 DEF before, names

-----------------------------------------------------------------------------
(* What the server does.  The lemmas also say what becomes of the order.   *)

LEMMA CreatedViews ==
  ASSUME ViewsRight(tableViews), NEW r, ViewRequestFits(r), r.op = "create", ViewServed(r)
  PROVE  /\ ViewsRight(tableViews') /\ defaultView' = defaultView
         /\ DOMAIN tableViews' = DOMAIN tableViews \cup {r.args[1]}
         /\ \A u \in DOMAIN tableViews : tableViews'[u] = tableViews[u]
<1> DEFINE there == DOMAIN tableViews
           v == r.args[1]
           n == Cardinality(there)
<1>1. /\ tableViews' = [u \in there \cup {v} |-> IF u \in there THEN tableViews[u] ELSE
                          [order |-> n, name |-> r.args[2], on |-> FALSE]]
      /\ defaultView' = defaultView
      BY DEF ViewServed
<1>2. v \in ViewIds /\ r.args[2] \in ViewNames
      BY DEF ViewRequestFits
<1>3. n \in Nat
      BY ViewsAssumption, FS_Subset, FS_CardinalityType DEF ViewsRight
<1> HIDE DEF n
<1>4. [order |-> n, name |-> r.args[2], on |-> FALSE] \in StoredView
      BY <1>2, <1>3 DEF StoredView
<1> QED BY <1>1, <1>2, <1>4 DEF ViewsRight

LEMMA UpdatedViews ==
  ASSUME ViewsRight(tableViews), NEW r, ViewRequestFits(r), r.op = "update", ViewServed(r)
  PROVE  /\ ViewsRight(tableViews') /\ defaultView' = defaultView
         /\ DOMAIN tableViews' = DOMAIN tableViews
         /\ \A u \in DOMAIN tableViews : tableViews'[u].order = tableViews[u].order
         /\ tableViews'[r.args[1]].name = r.args[2] /\ tableViews'[r.args[1]].on = r.args[3]
<1> DEFINE v == r.args[1]
<1>1. /\ v \in DOMAIN tableViews /\ defaultView' = defaultView
      /\ tableViews' = [tableViews EXCEPT ![v].name = r.args[2], ![v].on = r.args[3]]
      BY DEF ViewServed
<1>2. r.args[2] \in ViewNames /\ r.args[3] \in BOOLEAN
      BY DEF ViewRequestFits
<1>3. /\ DOMAIN tableViews' = DOMAIN tableViews
      /\ tableViews'[v] = [tableViews[v] EXCEPT !.name = r.args[2], !.on = r.args[3]]
      /\ \A u \in DOMAIN tableViews : u # v => tableViews'[u] = tableViews[u]
      BY <1>1
<1>4. tableViews[v] \in StoredView
      BY <1>1 DEF ViewsRight
<1>5. /\ tableViews'[v] \in StoredView /\ tableViews'[v].order = tableViews[v].order
      /\ tableViews'[v].name = r.args[2] /\ tableViews'[v].on = r.args[3]
      BY <1>2, <1>3, <1>4 DEF StoredView
<1> QED BY <1>1, <1>3, <1>5 DEF ViewsRight

(* The views that are left are numbered anew, in the order they had.       *)
LEMMA DeletedViews ==
  ASSUME ViewsRight(tableViews), NEW r, ViewRequestFits(r), r.op = "delete", ViewServed(r)
  PROVE  /\ ViewsRight(tableViews') /\ defaultView' = defaultView /\ r.args[1] # defaultView
         /\ DOMAIN tableViews' = DOMAIN tableViews \ {r.args[1]}
         /\ \A u, w \in DOMAIN tableViews' :
              tableViews[u].order < tableViews[w].order => tableViews'[u].order < tableViews'[w].order
<1> DEFINE v == r.args[1]
           left == [u \in DOMAIN tableViews \ {v} |-> tableViews[u]]
<1>1. PICK s \in ServerViews(left) :
        /\ v # defaultView /\ defaultView' = defaultView
        /\ tableViews' = [u \in DOMAIN tableViews \ {v} |-> [tableViews[u] EXCEPT
                           !.order = (CHOOSE i \in DOMAIN s : s[i].id = u) - 1]]
      BY DEF ViewServed, MayDelete
<1>2. DOMAIN left = DOMAIN tableViews \ {v} /\ \A u \in DOMAIN left : left[u] = tableViews[u]
      OBVIOUS
<1>3. ViewsRight(left)
      BY <1>2 DEF ViewsRight
<1> HIDE DEF left
<1>4. ListsViews(s, left)
      BY <1>1, <1>3, ServerViewsAre
<1> DEFINE at == [u \in DOMAIN left |-> CHOOSE i \in DOMAIN s : s[i].id = u]
<1>5. \A u \in DOMAIN left : at[u] \in DOMAIN s /\ s[at[u]].id = u
      BY <1>4 DEF ListsViews, IdsIn
<1>6. tableViews' = [u \in DOMAIN left |-> [tableViews[u] EXCEPT !.order = at[u] - 1]]
      BY <1>1, <1>2
<1> HIDE DEF at
<1>7. DOMAIN s = 1..Len(s) /\ Len(s) \in Nat
      BY <1>4, ViewLists DEF ListsViews, ViewListFits
<1>8. \A u \in DOMAIN left : at[u] - 1 \in Nat /\ at[u] \in Int
      BY <1>5, <1>7
<1>9. ASSUME NEW u \in DOMAIN left
      PROVE  tableViews'[u] \in StoredView /\ tableViews'[u].order = at[u] - 1
      <2>1. tableViews[u] \in StoredView
            BY <1>2 DEF ViewsRight
      <2> QED BY <1>6, <1>8, <2>1 DEF StoredView
<1>10. ASSUME NEW u \in DOMAIN left, NEW w \in DOMAIN left, tableViews[u].order < tableViews[w].order
       PROVE  tableViews'[u].order < tableViews'[w].order
       <2>1. left[u].order < left[w].order /\ left[u].order \in Nat /\ left[w].order \in Nat
             BY <1>2, <1>3, <1>10 DEF ViewsRight, StoredView
       <2>2. /\ at[u] \in DOMAIN s /\ s[at[u]].id = u /\ at[w] \in DOMAIN s /\ s[at[w]].id = w
             BY <1>5
       <2>3. ASSUME at[w] < at[u] PROVE FALSE
             <3>1. left[s[at[w]].id].order <= left[s[at[u]].id].order
                   BY <1>4, <2>2, <2>3 DEF ListsViews, ViewsSorted
             <3> QED BY <2>1, <2>2, <3>1
       <2>4. at[u] # at[w]
             BY <2>1, <2>2
       <2> QED BY <1>8, <1>9, <2>3, <2>4
<1>11. DOMAIN tableViews' = DOMAIN left /\ DOMAIN left = DOMAIN tableViews \ {v}
       BY <1>2, <1>6
<1>12. ViewsRight(tableViews')
       BY <1>9, <1>11 DEF ViewsRight
<1> QED BY <1>1, <1>10, <1>11, <1>12

LEMMA OrderedViews ==
  ASSUME ViewsRight(tableViews), NEW r, ViewRequestFits(r), r.op = "order", ViewServed(r)
  PROVE  /\ ViewsRight(tableViews') /\ defaultView' = defaultView
         /\ DOMAIN tableViews' = DOMAIN tableViews
         /\ \A i \in DOMAIN r.args :
              (\A j \in DOMAIN r.args : r.args[j] = r.args[i] => j = i) =>
                tableViews'[r.args[i]].order = i - 1
<1> DEFINE ids == r.args
           Has(u) == \E i \in DOMAIN ids : ids[i] = u
           at(u) == CHOOSE i \in DOMAIN ids : ids[i] = u
<1>1. /\ defaultView' = defaultView /\ \A i \in DOMAIN ids : ids[i] \in DOMAIN tableViews
      /\ tableViews' = [u \in DOMAIN tableViews |->
           IF Has(u) THEN [tableViews[u] EXCEPT !.order = at(u) - 1] ELSE tableViews[u]]
      BY DEF ViewServed
<1>2. \A u \in DOMAIN tableViews : Has(u) => at(u) \in DOMAIN ids /\ ids[at(u)] = u
      OBVIOUS
<1>3. DOMAIN ids = 1..Len(ids) /\ Len(ids) \in Nat
      BY LenProperties DEF ViewRequestFits
<1>4. \A u \in DOMAIN tableViews : Has(u) => at(u) - 1 \in Nat
      BY <1>2, <1>3
<1>5. \A i \in DOMAIN ids : Has(ids[i])
      OBVIOUS
<1> HIDE DEF at, Has
<1>6. ASSUME NEW u \in DOMAIN tableViews
      PROVE  tableViews'[u] \in StoredView /\ (Has(u) => tableViews'[u].order = at(u) - 1)
      <2>1. tableViews[u] \in StoredView
            BY DEF ViewsRight
      <2>2. CASE Has(u)
            <3>1. tableViews'[u] = [tableViews[u] EXCEPT !.order = at(u) - 1]
                  BY <1>1, <2>2
            <3> QED BY <1>4, <2>1, <2>2, <3>1 DEF StoredView
      <2>3. CASE ~ Has(u)
            BY <1>1, <2>1, <2>3
      <2> QED BY <2>2, <2>3
<1>7. DOMAIN tableViews' = DOMAIN tableViews
      BY <1>1
<1>8. ViewsRight(tableViews')
      BY <1>6, <1>7 DEF ViewsRight
<1>9. ASSUME NEW i \in DOMAIN ids, \A j \in DOMAIN ids : ids[j] = ids[i] => j = i
      PROVE  tableViews'[ids[i]].order = i - 1
      <2>1. ids[i] \in DOMAIN tableViews /\ Has(ids[i])
            BY <1>1, <1>5
      <2>2. at(ids[i]) = i
            BY <1>2, <1>9, <2>1
      <2> QED BY <1>6, <2>1, <2>2
<1> QED BY <1>1, <1>7, <1>8, <1>9

LEMMA ServedViews ==
  ASSUME ViewsRight(tableViews), NEW r, ViewRequestFits(r), ViewServed(r)
  PROVE  /\ ViewsRight(tableViews') /\ (defaultView' = defaultView \/ defaultView' \in ViewIds)
         /\ r.op = "default" => tableViews' = tableViews /\ defaultView' = r.args[1]
<1>1. CASE r.op = "default"
      <2>1. tableViews' = tableViews /\ defaultView' = r.args[1]
            BY <1>1 DEF ViewServed
      <2> QED BY <1>1, <2>1 DEF ViewRequestFits
<1>2. CASE r.op = "create"
      BY <1>2, CreatedViews
<1>3. CASE r.op = "update"
      BY <1>3, UpdatedViews
<1>4. CASE r.op = "delete"
      BY <1>4, DeletedViews
<1>5. CASE r.op = "order"
      BY <1>5, OrderedViews
<1> QED BY <1>1, <1>2, <1>3, <1>4, <1>5 DEF ViewRequestFits

-----------------------------------------------------------------------------
(* Which actions change what                                               *)

ViewAsking == ClicksView \/ ReordersViews \/ AddsView \/ UpdatesView \/ DeletesView

(* A handler goes on after one of its awaits.                              *)
ViewsGoOn ==
  ViewsArrive \/ \E r \in viewRequests : ViewAnswered(r) \/ ViewsFetched(r) \/ ViewDataArrive(r)

LEMMA ViewsMovers ==
  ASSUME ViewsNext
  PROVE  /\ \/ UNCHANGED <<tableViews, defaultView>>
            \/ \E r \in viewRequests : ViewHandled(r)
            \/ OthersChangeViews \/ VisitViews
         /\ UNCHANGED viewsCache \/ ViewsArrive \/ VisitViews
         /\ UNCHANGED menuViews \/ ReordersViews \/ TableRefreshed \/ ViewsArrive \/ VisitViews
         /\ UNCHANGED viewRequests \/ ViewAsking \/ (\E r \in viewRequests : ViewHandled(r)) \/ ViewsGoOn
            \/ VisitViews
         /\ \/ UNCHANGED viewsFetch
            \/ \E r \in viewRequests : ViewAnswered(r)
            \/ ViewsAsked \/ ViewsRead \/ ViewsArrive \/ VisitViews
         /\ \/ UNCHANGED viewForm \/ OpensViewForm \/ ChangesViewForm \/ ClosesViewForm
            \/ \E r \in viewRequests : ViewAnswered(r)
            \/ ViewsArrive \/ VisitViews
         /\ UNCHANGED <<openView, viewFromUrl>> \/ ClicksView \/ VisitViews
         /\ \/ UNCHANGED viewData \/ VisitViews
            \/ \E r \in viewRequests : ViewsFetched(r) \/ ViewDataArrive(r)
<1>1. CASE ViewAsking
      BY <1>1 DEF ViewAsking, ViewAsks, ClicksView, ReordersViews, AddsView, UpdatesView, DeletesView
<1>2. CASE OpensViewForm
      BY <1>2 DEF OpensViewForm
<1>3. CASE ChangesViewForm
      BY <1>3 DEF ChangesViewForm
<1>4. CASE ClosesViewForm
      BY <1>4 DEF ClosesViewForm
<1>5. ASSUME NEW r \in viewRequests, ViewHandled(r)
      PROVE  UNCHANGED <<viewsCache, menuViews, viewsFetch, viewForm, openView, viewData, viewFromUrl>>
      BY <1>5 DEF ViewHandled
<1>6. ASSUME NEW r \in viewRequests, ViewAnswered(r)
      PROVE  UNCHANGED <<tableViews, defaultView, viewsCache, menuViews, openView, viewData, viewFromUrl>>
      BY <1>6 DEF ViewAnswered
<1>12. ASSUME NEW r \in viewRequests, ViewsFetched(r) \/ ViewDataArrive(r)
       PROVE  UNCHANGED <<tableViews, defaultView, viewsCache, menuViews, openView, viewForm, viewsFetch,
                          viewFromUrl>>
       BY <1>12 DEF ViewsFetched, ViewDataArrive
<1>7. CASE TableRefreshed
      BY <1>7 DEF TableRefreshed
<1>8. CASE ViewsAsked \/ ViewsRead
      BY <1>8 DEF ViewsAsked, ViewsRead
<1>9. CASE ViewsArrive
      BY <1>9 DEF ViewsArrive, ViewsGoOn
<1>10. CASE OthersChangeViews
      BY <1>10 DEF OthersChangeViews
<1>11. CASE VisitViews
      BY <1>11 DEF VisitViews
<1> QED BY <1>1, <1>2, <1>3, <1>4, <1>5, <1>6, <1>7, <1>8, <1>9, <1>10, <1>11, <1>12
       DEF ViewsNext, ViewMenu, EditView, ViewAsking, ViewsGoOn

-----------------------------------------------------------------------------
(* Requests: how they are made and how they are answered                   *)

LEMMA HandledViewRequest ==
  ASSUME NEW r, ViewRequestFits(r), ViewHandled(r)
  PROVE  \E u : /\ ViewRequestFits(u) /\ u.op = r.op /\ u.args = r.args /\ r.answer = "none"
                /\ u.answer \in {"ok", "error"} /\ viewRequests' = (viewRequests \ {r}) \cup {u}
                /\ u.answer = "ok" => ViewServed(r)
                /\ u.answer = "error" =>
                     \/ UNCHANGED <<tableViews, defaultView>>
                     \/ ViewServed(r) /\ (r.op = "delete" => viewsExcused')
<1> DEFINE u(a) == [r EXCEPT !.answer = a, !.form = NoForm]
<1>1. \A a \in {"ok", "error"} :
        ViewRequestFits(u(a)) /\ u(a).op = r.op /\ u(a).args = r.args /\ u(a).answer = a
      BY AnsweredViewRequest
<1>2. /\ r.answer = "none"
      /\ \/ ViewServed(r) /\ viewRequests' = (viewRequests \ {r}) \cup {u("ok")}
         \/ /\ \/ UNCHANGED <<tableViews, defaultView>>
               \/ ViewServed(r) /\ (r.op = "delete" => viewsExcused')
            /\ viewRequests' = (viewRequests \ {r}) \cup {u("error")}
      BY DEF ViewHandled
<1> HIDE DEF u
<1>3. CASE ViewServed(r) /\ viewRequests' = (viewRequests \ {r}) \cup {u("ok")}
      <2> WITNESS u("ok")
      <2> QED BY <1>1, <1>2, <1>3
<1>4. CASE /\ \/ UNCHANGED <<tableViews, defaultView>>
              \/ ViewServed(r) /\ (r.op = "delete" => viewsExcused')
           /\ viewRequests' = (viewRequests \ {r}) \cup {u("error")}
      <2> WITNESS u("error")
      <2> QED BY <1>1, <1>2, <1>4
<1> QED BY <1>2, <1>3, <1>4

(* What becomes of the requests when a handler goes on: r, of which it is, *)
(* comes further or ends; others at most come from a fetch to its end.     *)
ComesFurther(q, o) ==
  /\ q.op = o.op /\ q.args = o.args /\ q.op \in ViewFormOps
  /\ q.answer \in LaterStages /\ o.answer \notin {"none", "error"}

Answering(o) == o.answer \in {"none", "ok", "error"}
Stays(o) == o \in viewRequests' \/ (o.answer # "none" /\ ViewAnswered(o))

LEMMA GoneOnRequests ==
  ASSUME ViewsShape, ViewsGoOn
  PROVE  /\ \A q \in viewRequests' :
              ViewRequestFits(q) /\ (q \in viewRequests \/ \E o \in viewRequests : ComesFurther(q, o))
         /\ \A o \in viewRequests : Answering(o) => Stays(o)
<1>1. \A r \in viewRequests : ViewRequestFits(r)
      BY DEF ViewsShape
<1>2. ASSUME NEW rs \in SUBSET viewRequests, NEW q \in FetchEnds(rs)
      PROVE  ViewRequestFits(q) /\ (q \in viewRequests \/ \E o \in viewRequests : ComesFurther(q, o))
      <2>1. PICK o \in rs : q = IF o.answer = "views" THEN [o EXCEPT !.answer = "fetched"] ELSE o
            BY <1>2 DEF FetchEnds
      <2>2. CASE o.answer = "views"
            <3>1. ViewRequestFits(o) /\ o.op \in ViewFormOps /\ "fetched" \in LaterStages \ {"view"}
                  BY <1>1, <2>2 DEF LaterStages, ViewRequestFits
            <3>2. ViewRequestFits(q) /\ q.op = o.op /\ q.args = o.args /\ q.answer = "fetched"
                  BY <2>1, <2>2, <3>1, StagedViewRequest
            <3> QED BY <2>2, <3>1, <3>2 DEF ComesFurther
      <2> QED BY <1>1, <2>1, <2>2
<1>3. ASSUME NEW rs \in SUBSET viewRequests, NEW o \in rs, Answering(o) PROVE o \in FetchEnds(rs)
      BY <1>3 DEF FetchEnds, Answering
<1>4. CASE ViewsArrive
      BY <1>2, <1>3, <1>4 DEF ViewsArrive, Stays
<1>5. ASSUME NEW r \in viewRequests, ViewAnswered(r)
      PROVE  /\ \A q \in viewRequests' :
                  ViewRequestFits(q) /\ (q \in viewRequests \/ \E o \in viewRequests : ComesFurther(q, o))
             /\ \A o \in viewRequests : Answering(o) => Stays(o)
      <2> DEFINE u == [r EXCEPT !.answer = "views"]
      <2>1. /\ \/ viewRequests' = viewRequests \ {r}
               \/ viewRequests' = FetchEnds(viewRequests \ {r}) \cup {u} /\ r.answer = "ok" /\ r.op \in ViewFormOps
            /\ r.answer # "none" /\ Stays(r)
            BY <1>5 DEF ViewAnswered, Stays, ViewFormOps
      <2>2. ViewRequestFits(r) /\ "views" \in LaterStages \ {"view"}
            BY <1>1 DEF LaterStages
      <2>3. r.op \in ViewFormOps =>
              ViewRequestFits(u) /\ u.op = r.op /\ u.args = r.args /\ u.answer = "views"
            BY <2>2, StagedViewRequest
      <2> HIDE DEF u
      <2>4. r.answer = "ok" /\ r.op \in ViewFormOps => ComesFurther(u, r)
            BY <2>2, <2>3 DEF ComesFurther
      <2>5. CASE viewRequests' = viewRequests \ {r}
            BY <1>1, <2>1, <2>5 DEF Stays
      <2>6. CASE /\ viewRequests' = FetchEnds(viewRequests \ {r}) \cup {u}
                 /\ r.answer = "ok" /\ r.op \in ViewFormOps
            BY <1>2, <1>3, <2>1, <2>3, <2>4, <2>6 DEF Stays
      <2> QED BY <2>1, <2>5, <2>6
<1>6. ASSUME NEW r \in viewRequests, ViewsFetched(r)
      PROVE  /\ \A q \in viewRequests' :
                  ViewRequestFits(q) /\ (q \in viewRequests \/ \E o \in viewRequests : ComesFurther(q, o))
             /\ \A o \in viewRequests : Answering(o) => Stays(o)
      <2> DEFINE u == [r EXCEPT !.answer = "view", !.key = openView]
                 rest == FetchReplaced(viewRequests \ {r}, openView)
      <2>1. /\ viewRequests' = rest \cup {u} \/ viewRequests' = viewRequests \ {r}
            /\ r.answer = "fetched" /\ ~ Answering(r)
            BY <1>6 DEF ViewsFetched, Answering
      <2>2. /\ ViewRequestFits(r) /\ r.op \in ViewFormOps
            /\ "view" \in LaterStages /\ openView \in ViewIds /\ openView # 0
            BY <1>1, <2>1, ViewsAssumption DEF LaterStages, ViewsShape, ViewPageFits, ViewRequestFits
      <2>3. ViewRequestFits(u) /\ u.op = r.op /\ u.args = r.args /\ u.answer = "view"
            BY <2>2, FetchingViewRequest
      <2>4. ASSUME NEW q \in rest
            PROVE  ViewRequestFits(q) /\ (q \in viewRequests \/ \E o \in viewRequests : ComesFurther(q, o))
            <3>1. PICK o \in viewRequests \ {r} :
                    q = IF o.answer = "view" /\ o.key = openView THEN [o EXCEPT !.answer = "done"] ELSE o
                  BY <2>4 DEF FetchReplaced
            <3>2. CASE o.answer = "view" /\ o.key = openView
                  <4>1. ViewRequestFits(o) /\ o.op \in ViewFormOps /\ "done" \in LaterStages \ {"view"}
                        BY <1>1, <3>2 DEF LaterStages, ViewRequestFits
                  <4>2. ViewRequestFits(q) /\ q.op = o.op /\ q.args = o.args /\ q.answer = "done"
                        BY <3>1, <3>2, <4>1, StagedViewRequest
                  <4> QED BY <3>2, <4>1, <4>2 DEF ComesFurther
            <3> QED BY <1>1, <3>1, <3>2
      <2>5. \A o \in viewRequests \ {r} : Answering(o) => o \in rest
            BY DEF FetchReplaced, Answering
      <2> HIDE DEF u, rest
      <2>6. ComesFurther(u, r)
            BY <2>1, <2>2, <2>3 DEF ComesFurther
      <2>7. CASE viewRequests' = viewRequests \ {r}
            BY <1>1, <2>1, <2>7 DEF Stays
      <2>8. CASE viewRequests' = rest \cup {u}
            BY <2>1, <2>3, <2>4, <2>5, <2>6, <2>8 DEF Stays
      <2> QED BY <2>1, <2>7, <2>8
<1>7. ASSUME NEW r \in viewRequests, ViewDataArrive(r)
      PROVE  viewRequests' = viewRequests \ {r} /\ ~ Answering(r)
      BY <1>7 DEF ViewDataArrive, Answering
<1> QED BY <1>1, <1>4, <1>5, <1>6, <1>7 DEF ViewsGoOn, Stays

(* What is asked, up to the await                                          *)
ViewAsked(r) == ViewRequestFits(r) /\ r.answer = "none" /\ viewRequests' = viewRequests \cup {r}

LEMMA AskedViewRequest ==
  ASSUME ViewsShape, ViewAsking
  PROVE  \E r : /\ ViewAsked(r)
                /\ \/ ClicksView /\ r.op = "default" /\ r.args[1] = openView'
                   \/ ReordersViews /\ r.op = "order" /\ r.args = ViewIdsOf(menuViews')
                   \/ AddsView /\ r.op = "create" /\ NewViewId(r.args[1])
                   \/ UpdatesView /\ r.op = "update"
                   \/ DeletesView /\ r.op = "delete"
<1> DEFINE req(op, args) == [op |-> op, args |-> args, answer |-> "none", key |-> 0,
                             form |-> IF op = "update" THEN viewForm ELSE NoForm]
<1>1. ASSUME NEW op, NEW args, ViewAsks(op, args) PROVE viewRequests' = viewRequests \cup {req(op, args)}
      BY <1>1 DEF ViewAsks
<1>2. ASSUME NEW op, NEW args
      PROVE  /\ req(op, args).op = op /\ req(op, args).args = args /\ req(op, args).answer = "none"
             /\ DOMAIN req(op, args) = ViewRequestFields
             /\ req(op, args) = [x \in DOMAIN req(op, args) |-> req(op, args)[x]]
             /\ op = "update" => req(op, args).form = viewForm
             /\ req(op, args).key = 0
      BY DEF ViewRequestFields
<1> HIDE DEF req
<1>3. CASE ClicksView
      <2>1. PICK i \in DOMAIN menuViews : openView' = menuViews[i].id /\ ViewAsks("default", <<menuViews[i].id>>)
            BY <1>3 DEF ClicksView
      <2> DEFINE r == req("default", <<menuViews[i].id>>)
      <2>2. menuViews[i].id \in ViewIds
            BY ViewLists DEF ViewsShape, ViewListsFit, ViewListFits
      <2>3. /\ r.op = "default" /\ r.args[1] = openView' /\ r.answer = "none"
            /\ DOMAIN r = ViewRequestFields /\ r = [x \in DOMAIN r |-> r[x]]
            /\ viewRequests' = viewRequests \cup {r} /\ r.key = 0
            BY <1>1, <1>2, <2>1
      <2> HIDE DEF r
      <2>4. ViewRequestFits(r)
            BY <2>1, <2>2, <2>3 DEF ViewRequestFits, LaterStages
      <2> QED BY <1>3, <2>3, <2>4 DEF ViewAsked
<1>4. CASE ReordersViews
      <2> DEFINE ids == ViewIdsOf(menuViews')
                 r == req("order", ids)
      <2>1. PICK i, j \in DOMAIN menuViews : menuViews' = Moved(menuViews, i, j) /\ ViewAsks("order", ids)
            BY <1>4 DEF ReordersViews
      <2>2. ids \in Seq(ViewIds)
            <3>1. ViewListFits(menuViews')
                  BY <2>1, MovedViewLists DEF ViewsShape, ViewListsFit
            <3> QED BY <3>1, ViewIdLists
      <2>3. /\ r.op = "order" /\ r.args = ids /\ r.answer = "none"
            /\ DOMAIN r = ViewRequestFields /\ r = [x \in DOMAIN r |-> r[x]]
            /\ viewRequests' = viewRequests \cup {r} /\ r.key = 0
            BY <1>1, <1>2, <2>1
      <2> HIDE DEF r
      <2>4. ViewRequestFits(r)
            BY <2>2, <2>3 DEF ViewRequestFits, LaterStages
      <2> QED BY <1>4, <2>3, <2>4 DEF ViewAsked
<1>5. CASE AddsView
      <2>1. PICK v \in ViewIds, n \in ViewNames : NewViewId(v) /\ ViewAsks("create", <<v, n>>)
            BY <1>5 DEF AddsView
      <2> DEFINE r == req("create", <<v, n>>)
      <2>2. /\ r.op = "create" /\ r.args[1] = v /\ r.args[2] = n /\ r.answer = "none"
            /\ DOMAIN r = ViewRequestFields /\ r = [x \in DOMAIN r |-> r[x]]
            /\ viewRequests' = viewRequests \cup {r} /\ r.key = 0
            BY <1>1, <1>2, <2>1
      <2> HIDE DEF r
      <2>3. ViewRequestFits(r)
            BY <2>2 DEF ViewRequestFits, LaterStages
      <2> QED BY <1>5, <2>1, <2>2, <2>3 DEF ViewAsked
<1>6. CASE UpdatesView
      <2> DEFINE r == req("update", <<viewForm.id, viewForm.name, viewForm.on>>)
      <2>1. viewForm.open /\ ViewAsks("update", <<viewForm.id, viewForm.name, viewForm.on>>)
            BY <1>6 DEF UpdatesView
      <2>2. ViewFormFits(viewForm)
            BY DEF ViewsShape
      <2>3. viewForm.id \in ViewIds /\ viewForm.name \in ViewNames /\ viewForm.on \in BOOLEAN
            BY <2>1, <2>2 DEF ViewFormFits
      <2>4. /\ r.op = "update" /\ r.answer = "none" /\ r.form = viewForm
            /\ r.args[1] = viewForm.id /\ r.args[2] = viewForm.name /\ r.args[3] = viewForm.on
            /\ DOMAIN r = ViewRequestFields /\ r = [x \in DOMAIN r |-> r[x]]
            /\ viewRequests' = viewRequests \cup {r} /\ r.key = 0
            BY <1>1, <1>2, <2>1
      <2> HIDE DEF r
      <2>5. ViewRequestFits(r)
            BY <2>2, <2>3, <2>4 DEF ViewRequestFits, LaterStages
      <2> QED BY <1>6, <2>4, <2>5 DEF ViewAsked
<1>7. CASE DeletesView
      <2> DEFINE r == req("delete", <<viewForm.id>>)
      <2>1. viewForm.open /\ ViewAsks("delete", <<viewForm.id>>)
            BY <1>7 DEF DeletesView
      <2>2. viewForm.id \in ViewIds
            BY <2>1 DEF ViewsShape, ViewFormFits
      <2>3. /\ r.op = "delete" /\ r.answer = "none" /\ r.args[1] = viewForm.id
            /\ DOMAIN r = ViewRequestFields /\ r = [x \in DOMAIN r |-> r[x]]
            /\ viewRequests' = viewRequests \cup {r} /\ r.key = 0
            BY <1>1, <1>2, <2>1
      <2> HIDE DEF r
      <2>4. ViewRequestFits(r)
            BY <2>2, <2>3 DEF ViewRequestFits, LaterStages
      <2> QED BY <1>7, <2>3, <2>4 DEF ViewAsked
<1> QED BY <1>3, <1>4, <1>5, <1>6, <1>7 DEF ViewAsking

-----------------------------------------------------------------------------
(* Every step keeps the types.                                             *)

LEMMA VisitedLists ==
  ASSUME VisitViews
  PROVE  /\ ViewsRight(tableViews') /\ ListsViews(viewsCache', tableViews') /\ menuViews' = viewsCache'
         /\ defaultView' \in DOMAIN tableViews' /\ openView' \in ViewIds
         /\ viewFromUrl' = (openView' # defaultView') /\ viewData' = [v \in ViewIds |-> v]
         /\ viewRequests = {} /\ viewRequests' = {} /\ viewsFetch' = NoViewsFetch
         /\ viewForm' = NoForm /\ viewsExcused' = FALSE /\ viewsSaving' = FALSE /\ viewActions' = 0
<1>1. PICK there \in SUBSET ViewIds : \E on \in there :
        LET names == CHOOSE f \in [there -> ViewNames] : IsInjective(f) IN
        /\ tableViews' = [v \in there |-> [order |-> Cardinality({u \in there : u < v}),
                                           name |-> names[v], on |-> v = on]]
        /\ defaultView' \in there
      BY DEF VisitViews
<1>2. ViewsRight(tableViews')
      BY <1>1, VisitedViews
<1>3. defaultView' \in DOMAIN tableViews'
      BY <1>1
<1>4. viewsCache' \in ServerViews(tableViews')
      BY DEF VisitViews
<1>5. ListsViews(viewsCache', tableViews')
      BY <1>2, <1>4, ServerViewsAre
<1> QED BY <1>2, <1>3, <1>5 DEF VisitViews

LEMMA ServerViewsKept ==
  ASSUME ViewsShape, ViewsNext PROVE ViewsRight(tableViews') /\ defaultView' \in ViewIds
<1>1. ViewsRight(tableViews) /\ defaultView \in ViewIds
      BY DEF ViewsShape, ViewPageFits
<1>2. CASE UNCHANGED <<tableViews, defaultView>>
      BY <1>1, <1>2
<1>3. ASSUME NEW r \in viewRequests, ViewHandled(r)
      PROVE  ViewsRight(tableViews') /\ defaultView' \in ViewIds
      <2>1. ViewRequestFits(r)
            BY DEF ViewsShape
      <2>2. ViewServed(r) \/ UNCHANGED <<tableViews, defaultView>>
            BY <1>3 DEF ViewHandled
      <2>3. CASE ViewServed(r)
            BY <1>1, <2>1, <2>3, ServedViews
      <2> QED BY <1>1, <2>2, <2>3
<1>4. CASE OthersChangeViews
      <2>1. CASE UNCHANGED tableViews
            <3>1. defaultView' \in DOMAIN tableViews \/ defaultView' = defaultView
                  BY <1>4 DEF OthersChangeViews
            <3> QED BY <1>1, <2>1, <3>1 DEF ViewsRight
      <2>2. ASSUME NEW v \in DOMAIN tableViews, tableViews' = [tableViews EXCEPT ![v].on = ~ @],
                   UNCHANGED defaultView
            PROVE  ViewsRight(tableViews') /\ defaultView' \in ViewIds
            <3>1. tableViews[v] \in StoredView
                  BY <1>1 DEF ViewsRight
            <3>2. PICK b \in BOOLEAN : b = (~ tableViews[v].on)
                  OBVIOUS
            <3>3. tableViews' = [tableViews EXCEPT ![v].on = b]
                  BY <2>2, <3>2
            <3>4. tableViews'[v] \in StoredView
                  BY <3>1, <3>3 DEF StoredView
            <3> QED BY <1>1, <2>2, <3>3, <3>4 DEF ViewsRight
      <2>3. ASSUME NEW v \in DOMAIN tableViews, UNCHANGED defaultView,
                   tableViews' = [u \in DOMAIN tableViews |-> [tableViews[u] EXCEPT !.order =
                                    IF u = v THEN 0 ELSE @ + 1]]
            PROVE  ViewsRight(tableViews') /\ defaultView' \in ViewIds
            <3>1. ASSUME NEW u \in DOMAIN tableViews PROVE tableViews'[u] \in StoredView
                  <4>1. tableViews[u] \in StoredView
                        BY <1>1 DEF ViewsRight
                  <4>2. tableViews'[u] = [tableViews[u] EXCEPT !.order =
                                            IF u = v THEN 0 ELSE tableViews[u].order + 1]
                        BY <2>3
                  <4>3. tableViews[u].order + 1 \in Nat
                        BY <4>1 DEF StoredView
                  <4> QED BY <4>1, <4>2, <4>3 DEF StoredView
            <3>2. DOMAIN tableViews' = DOMAIN tableViews
                  BY <2>3
            <3> QED BY <1>1, <2>3, <3>1, <3>2 DEF ViewsRight
      <2> QED BY <1>4, <2>1, <2>2, <2>3 DEF OthersChangeViews
<1>5. CASE VisitViews
      BY <1>5, VisitedLists DEF ViewsRight
<1> QED BY <1>2, <1>3, <1>4, <1>5, ViewsMovers

LEMMA ViewListsKept ==
  ASSUME ViewsShape, ViewsNext PROVE ViewListsFit'
<1>1. ViewListsFit /\ ViewsFetchFits
      BY DEF ViewsShape
<1>2. CASE VisitViews
      BY <1>2, VisitedLists DEF ViewListsFit, ListsViews
<1>3. CASE ViewsArrive
      <2>1. CASE UNCHANGED <<viewsCache, menuViews, viewForm>>
            BY <1>1, <2>1 DEF ViewListsFit
      <2>2. CASE viewsCache' = viewsFetch.read /\ menuViews' = MenuWith(viewsFetch.read)
            BY <1>1, <2>2 DEF MenuWith, ViewListsFit, ViewsFetchFits
      <2> QED BY <1>3, <2>1, <2>2 DEF ViewsArrive
<1>4. CASE ReordersViews
      <2>1. PICK i, j \in DOMAIN menuViews : menuViews' = Moved(menuViews, i, j)
            BY <1>4 DEF ReordersViews
      <2>2. viewsCache' = viewsCache
            BY <1>4 DEF ReordersViews, ViewAsks
      <2> QED BY <1>1, <2>1, <2>2, MovedViewLists DEF ViewListsFit
<1>5. CASE TableRefreshed
      BY <1>1, <1>5 DEF ViewListsFit, TableRefreshed
<1>6. CASE UNCHANGED <<viewsCache, menuViews>>
      BY <1>1, <1>6 DEF ViewListsFit
<1>7. \/ UNCHANGED <<viewsCache, menuViews>> \/ ReordersViews \/ TableRefreshed \/ ViewsArrive
      \/ VisitViews
      BY ViewsMovers
<1> QED BY <1>2, <1>3, <1>4, <1>5, <1>6, <1>7

LEMMA ViewsFetchKept ==
  ASSUME ViewsShape, ViewsNext PROVE ViewsFetchFits'
<1>1. ViewsFetchFits /\ ViewsRight(tableViews)
      BY DEF ViewsShape
<1> DEFINE asked == [at |-> "asked", read |-> <<>>]
<1>2. CASE UNCHANGED viewsFetch
      BY <1>1, <1>2 DEF ViewsFetchFits
<1>3. CASE viewsFetch' = asked \/ viewsFetch' = NoViewsFetch
      BY <1>3, EmptyViewList DEF ViewsFetchFits, NoViewsFetch
<1>4. CASE ViewsRead
      <2>1. PICK s \in ServerViews(tableViews) : viewsFetch' = [at |-> "read", read |-> s]
            BY <1>4 DEF ViewsRead
      <2>2. ViewListFits(s)
            BY <1>1, <2>1, ServerViewsAre DEF ListsViews
      <2> QED BY <2>1, <2>2 DEF ViewsFetchFits
<1>5. ASSUME NEW r \in viewRequests, ViewAnswered(r)
      PROVE  viewsFetch' = asked \/ UNCHANGED viewsFetch
      BY <1>5 DEF ViewAnswered
<1>6. ViewsAsked => viewsFetch' = asked
      BY DEF ViewsAsked
<1>7. ViewsArrive => viewsFetch' = NoViewsFetch
      BY DEF ViewsArrive
<1>8. VisitViews => viewsFetch' = NoViewsFetch
      BY DEF VisitViews
<1> QED BY <1>2, <1>3, <1>4, <1>5, <1>6, <1>7, <1>8, ViewsMovers

-----------------------------------------------------------------------------
(* The page and the form                                                   *)

LEMMA ViewPageKept ==
  ASSUME ViewsShape, ViewsNext PROVE ViewPageFits'
<1>1. ViewPageFits /\ defaultView' \in ViewIds /\ \A r \in viewRequests : ViewRequestFits(r)
      BY ServerViewsKept DEF ViewsShape
<1>2. \A i \in DOMAIN menuViews : menuViews[i].id \in ViewIds
      BY ViewLists DEF ViewsShape, ViewListsFit, ViewListFits
<1>3. openView' \in ViewIds /\ viewFromUrl' \in BOOLEAN
      <2>1. ClicksView => openView' \in ViewIds /\ viewFromUrl' \in BOOLEAN
            BY <1>2 DEF ClicksView
      <2>2. VisitViews => openView' \in ViewIds /\ viewFromUrl' \in BOOLEAN
            BY VisitedLists
      <2>3. UNCHANGED <<openView, viewFromUrl>> \/ ClicksView \/ VisitViews
            BY ViewsMovers
      <2> QED BY <1>1, <2>1, <2>2, <2>3 DEF ViewPageFits
<1>4. ASSUME NEW r \in viewRequests, ViewsFetched(r) \/ ViewDataArrive(r)
      PROVE  /\ viewData' \in [ViewIds -> ViewIds] /\ viewsSaving' \in BOOLEAN
             /\ viewsExcused' \in BOOLEAN
      <2>1. /\ viewData \in [ViewIds -> ViewIds] /\ openView \in ViewIds
            /\ viewsSaving \in BOOLEAN /\ viewsExcused \in BOOLEAN
            BY <1>1 DEF ViewPageFits
      <2>2. r.op = "update" => r.args[1] \in ViewIds
            BY <1>1 DEF ViewRequestFits
      <2>3. r.answer = "view" => r.key \in ViewIds
            BY <1>1 DEF ViewRequestFits
      <2>4. CASE ViewsFetched(r)
            <3>1. \/ UNCHANGED viewData
                  \/ r.op = "update" /\ viewData' = [viewData EXCEPT ![openView] = r.args[1]]
                  BY <2>4 DEF ViewsFetched
            <3>2. viewsSaving' \in BOOLEAN /\ viewsExcused' \in BOOLEAN
                  BY <2>1, <2>4 DEF ViewsFetched
            <3> QED BY <2>1, <2>2, <3>1, <3>2
      <2>5. CASE ViewDataArrive(r)
            <3>1. \/ UNCHANGED viewData
                  \/ r.answer = "view" /\ viewData' = [viewData EXCEPT ![r.key] = r.key]
                  BY <2>5 DEF ViewDataArrive
            <3>2. viewsSaving' \in BOOLEAN /\ viewsExcused' \in BOOLEAN
                  BY <2>1, <2>5 DEF ViewDataArrive
            <3> QED BY <2>1, <2>3, <3>1, <3>2
      <2> QED BY <1>4, <2>4, <2>5
<1>9. viewData' \in [ViewIds -> ViewIds]
      <2>1. VisitViews => viewData' \in [ViewIds -> ViewIds]
            BY VisitedLists
      <2> QED BY <1>1, <1>4, <2>1, ViewsMovers DEF ViewPageFits
<1>10. viewsSaving' \in BOOLEAN /\ viewsExcused' \in BOOLEAN
      <2> USE DEF ViewPageFits
      <2>1. ClicksView \/ ReordersViews \/ AddsView => viewsSaving' \in BOOLEAN /\ viewsExcused' \in BOOLEAN
            BY <1>1 DEF ClicksView, ReordersViews, AddsView
      <2>2. OpensViewForm => viewsSaving' \in BOOLEAN /\ viewsExcused' \in BOOLEAN
            BY <1>1 DEF OpensViewForm
      <2>3. EditView => viewsSaving' \in BOOLEAN /\ viewsExcused' \in BOOLEAN
            BY <1>1 DEF EditView, ChangesViewForm, ClosesViewForm, UpdatesView, DeletesView
      <2>4. ASSUME NEW r \in viewRequests, ViewHandled(r)
            PROVE  viewsSaving' \in BOOLEAN /\ viewsExcused' \in BOOLEAN
            BY <1>1, <2>4 DEF ViewHandled
      <2>5. TableRefreshed \/ ViewsAsked \/ ViewsRead => UNCHANGED <<viewsSaving, viewsExcused>>
            BY DEF TableRefreshed, ViewsAsked, ViewsRead
      <2>6. ViewsArrive \/ OthersChangeViews \/ VisitViews => viewsSaving' \in BOOLEAN /\ viewsExcused' \in BOOLEAN
            BY <1>1 DEF ViewsArrive, OthersChangeViews, VisitViews
      <2>7. ASSUME NEW r \in viewRequests, ViewAnswered(r)
            PROVE  viewsSaving' \in BOOLEAN /\ viewsExcused' \in BOOLEAN
            <3>1. viewsSaving' \in {FALSE, viewsSaving}
                  <4>1. r.op \in {"default", "order", "create", "update", "delete"}
                        BY <1>1 DEF ViewRequestFits
                  <4> QED BY <2>7, <4>1 DEF ViewAnswered
            <3>2. viewsExcused' \in BOOLEAN
                  BY <2>7 DEF ViewAnswered
            <3> QED BY <1>1, <3>1, <3>2
      <2> QED BY <1>1, <1>4, <2>1, <2>2, <2>3, <2>4, <2>5, <2>6, <2>7 DEF ViewsNext, ViewMenu
<1>11. viewActions' \in 0..MaxViewActions
      <2>1. viewActions \in 0..MaxViewActions /\ MaxViewActions \in Nat
            BY <1>1, ViewsAssumption DEF ViewPageFits
      <2>2. \/ viewActions' = viewActions \/ viewActions' = 0
            \/ viewActions < MaxViewActions /\ viewActions' = viewActions + 1
            <3>1. CASE ViewAsking
                  BY <3>1 DEF ViewAsking, ViewAsks, ClicksView, ReordersViews, AddsView, UpdatesView, DeletesView
            <3>2. OpensViewForm => viewActions' = viewActions
                  BY DEF OpensViewForm
            <3>3. ChangesViewForm \/ OthersChangeViews =>
                    viewActions < MaxViewActions /\ viewActions' = viewActions + 1
                  BY DEF ChangesViewForm, OthersChangeViews
            <3>4. ASSUME NEW r \in viewRequests,
                         \/ ViewHandled(r) \/ ViewAnswered(r)
                         \/ ViewsFetched(r) \/ ViewDataArrive(r)
                  PROVE  viewActions' = viewActions
                  <4>1. ViewHandled(r) => viewActions' = viewActions
                        BY DEF ViewHandled
                  <4>2. ViewAnswered(r) => viewActions' = viewActions
                        BY DEF ViewAnswered
                  <4>3. ViewsFetched(r) \/ ViewDataArrive(r) => viewActions' = viewActions
                        BY DEF ViewsFetched, ViewDataArrive
                  <4> QED BY <3>4, <4>1, <4>2, <4>3
            <3>5. ClosesViewForm \/ TableRefreshed \/ ViewsAsked \/ ViewsRead \/ ViewsArrive => viewActions' = viewActions
                  BY DEF ClosesViewForm, TableRefreshed, ViewsAsked, ViewsRead, ViewsArrive
            <3>6. VisitViews => viewActions' = 0
                  BY DEF VisitViews
            <3> QED BY <3>1, <3>2, <3>3, <3>4, <3>5, <3>6 DEF ViewsNext, ViewMenu, EditView, ViewAsking
      <2> QED BY <2>1, <2>2
<1> QED BY <1>1, <1>3, <1>9, <1>10, <1>11 DEF ViewPageFits

LEMMA ViewFormKept ==
  ASSUME ViewsShape, ViewsNext PROVE ViewFormFits(viewForm')
<1> DEFINE f == viewForm
<1>1. ViewFormFits(f)
      BY DEF ViewsShape
<1>2. CASE OpensViewForm
      <2>1. PICK i \in DOMAIN menuViews :
              LET v == menuViews[i] IN
              viewForm' = CASE viewForm.id = 0 ->
                             [NoForm EXCEPT !.open = TRUE, !.id = v.id, !.name = v.name, !.on = v.on,
                                            !.was = [name |-> v.name, on |-> v.on]]
                        [] viewForm.id = v.id -> [viewForm EXCEPT !.open = TRUE]
                        [] OTHER -> FormFor(viewForm, v)
            BY <1>2 DEF OpensViewForm
      <2> DEFINE v == menuViews[i]
      <2>2. v.id \in ViewIds /\ v.name \in ViewNames /\ v.on \in BOOLEAN /\ v.id # 0
            BY ViewsAssumption, ViewLists DEF ViewsShape, ViewListsFit, ViewListFits
      <2> HIDE DEF v
      <2>3. CASE f.id = 0
            <3>1. viewForm' = [NoForm EXCEPT !.open = TRUE, !.id = v.id, !.name = v.name, !.on = v.on,
                                             !.was = [name |-> v.name, on |-> v.on]]
                  BY <2>1, <2>2, <2>3 DEF v
            <3> QED BY <2>2, <3>1 DEF NoForm, ViewFormFits
      <2>4. CASE f.id = v.id
            <3>1. viewForm' = [viewForm EXCEPT !.open = TRUE]
                  BY <2>1, <2>2, <2>4 DEF v
            <3> QED BY <1>1, <2>2, <2>4, <3>1 DEF ViewFormFits
      <2>5. CASE f.id # 0 /\ f.id # v.id
            <3>1. viewForm' = FormFor(viewForm, v)
                  BY <2>1, <2>5 DEF v
            <3> QED BY <1>1, <2>2, <3>1 DEF FormFor, FormAsItWas, ViewFormFits
      <2> QED BY <2>3, <2>4, <2>5
<1>3. CASE ChangesViewForm
      <2>1. f.open
            BY <1>3 DEF ChangesViewForm
      <2>2. ASSUME NEW n \in ViewNames, viewForm' = [viewForm EXCEPT !.name = n, !.touched = @ \cup {"name"}]
            PROVE  ViewFormFits(viewForm')
            BY <1>1, <2>1, <2>2 DEF ViewFormFits
      <2>3. ASSUME viewForm' = [viewForm EXCEPT !.on = ~ @, !.touched = @ \cup {"on"}]
            PROVE  ViewFormFits(viewForm')
            <3>1. PICK b \in BOOLEAN : b = (~ f.on)
                  OBVIOUS
            <3>2. viewForm' = [viewForm EXCEPT !.on = b, !.touched = @ \cup {"on"}]
                  BY <2>3, <3>1
            <3> QED BY <1>1, <2>1, <3>2 DEF ViewFormFits
      <2> QED BY <1>3, <2>2, <2>3 DEF ChangesViewForm
<1>4. CASE viewForm' = [viewForm EXCEPT !.open = FALSE]
      BY <1>1, <1>4 DEF ViewFormFits
<1>5. ClosesViewForm => viewForm' = [viewForm EXCEPT !.open = FALSE]
      BY DEF ClosesViewForm
<1>6. ASSUME NEW r \in viewRequests, ViewAnswered(r)
      PROVE  viewForm' = [viewForm EXCEPT !.open = FALSE] \/ UNCHANGED viewForm
      BY <1>6 DEF ViewAnswered
<1>7. ViewsArrive => UNCHANGED viewForm \/ viewForm' = NoForm
      BY DEF ViewsArrive
<1>8. VisitViews => viewForm' = NoForm
      BY DEF VisitViews
<1> QED BY <1>1, <1>2, <1>3, <1>4, <1>5, <1>6, <1>7, <1>8, NoFormFits, ViewsMovers

LEMMA ViewRequestsKept ==
  ASSUME ViewsShape, ViewsNext PROVE \A r \in viewRequests' : ViewRequestFits(r)
<1>1. \A r \in viewRequests : ViewRequestFits(r)
      BY DEF ViewsShape
<1>2. CASE ViewAsking
      <2>1. PICK r : ViewAsked(r)
            BY <1>2, AskedViewRequest
      <2> QED BY <1>1, <2>1 DEF ViewAsked
<1>3. ASSUME NEW r \in viewRequests, ViewHandled(r) PROVE \A q \in viewRequests' : ViewRequestFits(q)
      <2>1. PICK u : ViewRequestFits(u) /\ viewRequests' = (viewRequests \ {r}) \cup {u}
            BY <1>1, <1>3, HandledViewRequest
      <2> QED BY <1>1, <2>1
<1>4. ViewsGoOn => \A q \in viewRequests' : ViewRequestFits(q)
      BY GoneOnRequests
<1>5. VisitViews => viewRequests' = {}
      BY VisitedLists
<1> QED BY <1>1, <1>2, <1>3, <1>4, <1>5, ViewsMovers

LEMMA ViewsShapeInit == ViewsInit => ViewsShape
<1> SUFFICES ASSUME ViewsInit PROVE ViewsShape
    OBVIOUS
<1>1. PICK v \in ViewIds : /\ tableViews = [u \in {v} |-> [order |-> 0, name |-> AnyName, on |-> FALSE]]
                           /\ defaultView = v
      BY DEF ViewsInit
<1>2. [order |-> 0, name |-> AnyName, on |-> FALSE] \in StoredView
      BY AnyNameIsName DEF StoredView
<1>3. ViewsRight(tableViews)
      BY <1>1, <1>2 DEF ViewsRight
<1>4. ViewListsFit
      <2>1. viewsCache \in ServerViews(tableViews) /\ menuViews = viewsCache
            BY DEF ViewsInit
      <2> QED BY <1>3, <2>1, ServerViewsAre DEF ListsViews, ViewListsFit
<1>5. 0 \in 0..MaxViewActions
      BY ViewsAssumption
<1>6. ViewPageFits /\ ViewsFetchFits /\ ViewFormFits(viewForm) /\ viewRequests = {}
      BY <1>1, <1>5, EmptyViewList, NoFormFits DEF ViewsInit, ViewPageFits, ViewsFetchFits, NoViewsFetch
<1> QED BY <1>3, <1>4, <1>6 DEF ViewsShape

LEMMA ViewsShapeKept ==
  ASSUME ViewsShape, [ViewsNext]_viewVars PROVE ViewsShape'
<1>1. CASE ViewsNext
      BY <1>1, ServerViewsKept, ViewListsKept, ViewsFetchKept, ViewPageKept, ViewFormKept, ViewRequestsKept
         DEF ViewsShape
<1>2. CASE UNCHANGED viewVars
      <2>1. ViewListsFit' /\ ViewsFetchFits' /\ ViewPageFits'
            BY <1>2 DEF ViewsShape, ViewListsFit, ViewsFetchFits, ViewPageFits, viewVars
      <2> QED BY <1>2, <2>1 DEF ViewsShape, viewVars
<1> QED BY <1>1, <1>2

-----------------------------------------------------------------------------
(* What was asked for and is not answered yet: new views have numbers that *)
(* nothing else has.                                                       *)

PendingCreate(r) == r.op = "create" /\ r.answer = "none"

CreatesNew ==
  \A r \in viewRequests : PendingCreate(r) =>
    /\ r.args[1] \notin DOMAIN tableViews
    /\ r.args[1] \notin IdsIn(viewsCache) /\ r.args[1] \notin IdsIn(viewsFetch.read)
    /\ \A q \in viewRequests : PendingCreate(q) /\ q.args[1] = r.args[1] => q = r

LEMMA HandledDomain ==
  ASSUME ViewsShape, NEW r \in viewRequests, ViewHandled(r)
  PROVE  /\ DOMAIN tableViews' \subseteq DOMAIN tableViews \cup (IF r.op = "create" THEN {r.args[1]} ELSE {})
         /\ r.op # "delete" => DOMAIN tableViews \subseteq DOMAIN tableViews'
<1>1. ViewRequestFits(r) /\ ViewsRight(tableViews)
      BY DEF ViewsShape
<1>2. CASE UNCHANGED tableViews
      BY <1>2
<1>3. CASE ViewServed(r)
      <2>1. CASE r.op = "default"
            BY <1>1, <1>3, <2>1, ServedViews
      <2>2. CASE r.op = "create"
            BY <1>1, <1>3, <2>2, CreatedViews
      <2>3. CASE r.op = "update"
            BY <1>1, <1>3, <2>3, UpdatedViews
      <2>4. CASE r.op = "delete"
            BY <1>1, <1>3, <2>4, DeletedViews
      <2>5. CASE r.op = "order"
            BY <1>1, <1>3, <2>5, OrderedViews
      <2> QED BY <1>1, <2>1, <2>2, <2>3, <2>4, <2>5 DEF ViewRequestFits
<1> QED BY <1>2, <1>3 DEF ViewHandled

(* The rest of what a step does to the fetch                               *)
LEMMA FetchedViews ==
  ASSUME ViewsShape, ViewsNext
  PROVE  /\ \/ viewsFetch' = viewsFetch \/ IdsIn(viewsFetch'.read) = {}
            \/ ViewsRead /\ IdsIn(viewsFetch'.read) = DOMAIN tableViews
         /\ viewsCache' = viewsCache \/ viewsCache' = viewsFetch.read \/ VisitViews
<1>1. ASSUME NEW r \in viewRequests, ViewAnswered(r)
      PROVE  viewsFetch' = viewsFetch \/ viewsFetch'.read = <<>>
      <2>1. viewsFetch' = viewsFetch \/ viewsFetch' = [at |-> "asked", read |-> <<>>]
            BY <1>1 DEF ViewAnswered
      <2> QED BY <2>1
<1>2. ViewsAsked \/ ViewsArrive \/ VisitViews => viewsFetch'.read = <<>>
      BY DEF ViewsAsked, ViewsArrive, VisitViews, NoViewsFetch
<1>3. ViewsRead => IdsIn(viewsFetch'.read) = DOMAIN tableViews
      BY ServerViewsAre DEF ViewsRead, ListsViews, ViewsShape
<1>4. viewsCache' = viewsCache \/ viewsCache' = viewsFetch.read \/ VisitViews
      BY ViewsMovers DEF ViewsArrive
<1> QED BY <1>1, <1>2, <1>3, <1>4, EmptyViewList, ViewsMovers

LEMMA CreatesNewKept ==
  ASSUME ViewsShape, CreatesNew, ViewsNext PROVE CreatesNew'
<1>1. CASE VisitViews
      BY <1>1, VisitedLists DEF CreatesNew
<1>2. CASE ~ VisitViews
      <2> SUFFICES ASSUME NEW r \in viewRequests', PendingCreate(r)
                   PROVE  /\ r.args[1] \notin DOMAIN tableViews'
                          /\ r.args[1] \notin IdsIn(viewsCache')
                          /\ r.args[1] \notin IdsIn(viewsFetch'.read)
                          /\ \A q \in viewRequests' : PendingCreate(q) /\ q.args[1] = r.args[1] => q = r
          BY DEF CreatesNew, PendingCreate
      <2>1. CASE r \in viewRequests
            <3>1. /\ r.args[1] \notin DOMAIN tableViews
                  /\ r.args[1] \notin IdsIn(viewsCache) /\ r.args[1] \notin IdsIn(viewsFetch.read)
                  /\ \A q \in viewRequests : PendingCreate(q) /\ q.args[1] = r.args[1] => q = r
                  BY <2>1 DEF CreatesNew
            <3>2. r.args[1] \notin IdsIn(viewsCache') /\ r.args[1] \notin IdsIn(viewsFetch'.read)
                  BY <1>2, <3>1, FetchedViews
            <3>3. ASSUME NEW o \in viewRequests, ViewHandled(o)
                  PROVE  /\ r.args[1] \notin DOMAIN tableViews'
                         /\ \A q \in viewRequests' : PendingCreate(q) => q \in viewRequests
                  <4>1. PICK u : /\ u.op = o.op /\ u.args = o.args /\ o.answer = "none"
                                 /\ u.answer \in {"ok", "error"}
                                 /\ viewRequests' = (viewRequests \ {o}) \cup {u}
                        BY <3>3, HandledViewRequest DEF ViewsShape
                  <4>2. r # u
                        BY <4>1 DEF PendingCreate
                  <4>3. r # o
                        BY <4>1, <4>2
                  <4>4. o.op = "create" => o.args[1] # r.args[1]
                        BY <3>1, <4>1, <4>3 DEF PendingCreate
                  <4> QED BY <3>1, <3>3, <4>1, <4>4, HandledDomain DEF PendingCreate
            <3>4. CASE OthersChangeViews
                  <4>1. DOMAIN tableViews' = DOMAIN tableViews /\ viewRequests' = viewRequests
                        BY <3>4 DEF OthersChangeViews
                  <4> QED BY <3>1, <3>2, <4>1
            <3>5. CASE UNCHANGED tableViews
                  <4>1. ASSUME NEW q \in viewRequests', PendingCreate(q), q.args[1] = r.args[1] PROVE q = r
                        <5>1. CASE q \in viewRequests
                              BY <3>1, <4>1, <5>1
                        <5>2. CASE q \notin viewRequests
                              <6>1. ~ ViewsGoOn
                                    BY <4>1, <5>2, GoneOnRequests DEF ComesFurther, PendingCreate, LaterStages
                              <6>2. ASSUME NEW o \in viewRequests, ViewHandled(o) PROVE FALSE
                                    BY <3>3, <4>1, <5>2, <6>2
                              <6>3. ViewAsking
                                    BY <1>2, <5>2, <6>1, <6>2, ViewsMovers
                              <6>4. PICK o : ViewAsked(o) /\ (o.op = "create" => NewViewId(o.args[1]))
                                    BY <6>3, AskedViewRequest
                              <6>5. q = o
                                    BY <5>2, <6>4 DEF ViewAsked
                              <6>6. r.args[1] # q.args[1]
                                    BY <2>1, <4>1, <6>4, <6>5 DEF NewViewId, PendingCreate
                              <6> QED BY <4>1, <6>6
                        <5> QED BY <5>1, <5>2
                  <4> QED BY <3>1, <3>2, <3>5, <4>1
            <3>6. CASE \E o \in viewRequests : ViewHandled(o)
                  BY <3>1, <3>2, <3>3, <3>6
            <3> QED BY <1>2, <3>4, <3>5, <3>6, ViewsMovers
      <2>2. CASE r \notin viewRequests
            <3>1. ~ ViewsGoOn
                  BY <2>2, GoneOnRequests DEF ComesFurther, PendingCreate, LaterStages
            <3>2. ASSUME NEW o \in viewRequests, ViewHandled(o) PROVE FALSE
                  <4>1. PICK u : /\ u.answer \in {"ok", "error"}
                                 /\ viewRequests' = (viewRequests \ {o}) \cup {u}
                        BY <3>2, HandledViewRequest DEF ViewsShape
                  <4> QED BY <2>2, <4>1 DEF PendingCreate
            <3>3. ViewAsking
                  BY <1>2, <2>2, <3>1, <3>2, ViewsMovers
            <3>4. PICK o : ViewAsked(o) /\ (o.op = "create" => NewViewId(o.args[1]))
                  BY <3>3, AskedViewRequest
            <3>5. r = o /\ viewRequests' = viewRequests \cup {o}
                  BY <2>2, <3>4 DEF ViewAsked
            <3>6. NewViewId(r.args[1])
                  BY <3>4, <3>5 DEF PendingCreate
            <3>7. UNCHANGED <<tableViews, viewsCache, viewsFetch>>
                  BY <3>3 DEF ViewAsking, ViewAsks, ClicksView, ReordersViews, AddsView, UpdatesView, DeletesView
            <3> QED BY <3>5, <3>6, <3>7 DEF NewViewId, HasView, IdsIn
      <2> QED BY <2>1, <2>2
<1> QED BY <1>1, <1>2

-----------------------------------------------------------------------------
(* The menu.  It has the cached views, in their order; or an order that is *)
(* what a request asks for; or one along which the server's order rises.   *)
(* An order that failed leaves the menu wrong, and is excused when its     *)
(* answer arrives.                                                         *)

MenuDoomed == \E r \in viewRequests : r.op = "order" /\ r.answer = "error"
AlongMenu ==
  \A k, l \in DOMAIN menuViews :
    k < l /\ menuViews[k].id \in DOMAIN tableViews /\ menuViews[l].id \in DOMAIN tableViews =>
      tableViews[menuViews[k].id].order < tableViews[menuViews[l].id].order
PendingOrder(r) == r.op = "order" /\ r.answer = "none"

MenuFollows ==
  ~ viewsExcused /\ ~ MenuDoomed =>
    /\ \A r \in viewRequests : PendingOrder(r) => menuViews = viewsCache \/ r.args = ViewIdsOf(menuViews)
    /\ menuViews = viewsCache \/ AlongMenu \/ \E r \in viewRequests : PendingOrder(r)

LEMMA ExcusedStays == ASSUME ViewsNext, viewsExcused PROVE viewsExcused' \/ VisitViews
<1>1. ClicksView \/ ReordersViews \/ AddsView => viewsExcused'
      BY DEF ClicksView, ReordersViews, AddsView
<1>2. OpensViewForm \/ TableRefreshed => viewsExcused'
      BY DEF OpensViewForm, TableRefreshed
<1>3. EditView => viewsExcused'
      BY DEF EditView, ChangesViewForm, ClosesViewForm, UpdatesView, DeletesView
<1>4. ASSUME NEW r \in viewRequests, ViewHandled(r) PROVE viewsExcused'
      BY <1>4 DEF ViewHandled
<1>5. ASSUME NEW r \in viewRequests, ViewAnswered(r) \/ ViewsFetched(r) \/ ViewDataArrive(r)
      PROVE  viewsExcused'
      BY <1>5 DEF ViewAnswered, ViewsFetched, ViewDataArrive
<1>6. ViewsAsked \/ ViewsRead \/ ViewsArrive \/ OthersChangeViews => viewsExcused'
      BY DEF ViewsAsked, ViewsRead, ViewsArrive, OthersChangeViews
<1> QED BY <1>1, <1>2, <1>3, <1>4, <1>5, <1>6 DEF ViewsNext, ViewMenu

LEMMA DoomStays ==
  ASSUME ViewsShape, ViewsNext, MenuDoomed PROVE MenuDoomed' \/ viewsExcused' \/ VisitViews
<1>1. PICK r \in viewRequests : r.op = "order" /\ r.answer = "error"
      BY DEF MenuDoomed
<1>2. CASE r \in viewRequests'
      BY <1>1, <1>2 DEF MenuDoomed
<1>3. CASE r \notin viewRequests'
      <2>1. ViewAsking => r \in viewRequests'
            BY AskedViewRequest DEF ViewAsked
      <2>2. ASSUME NEW o \in viewRequests, ViewHandled(o) PROVE FALSE
            <3>1. \E u : o.answer = "none" /\ viewRequests' = (viewRequests \ {o}) \cup {u}
                  BY <2>2, HandledViewRequest DEF ViewsShape
            <3> QED BY <1>1, <1>3, <3>1
      <2>3. CASE ViewsGoOn
            <3>1. Stays(r)
                  BY <1>1, <2>3, GoneOnRequests DEF Answering
            <3>2. ViewAnswered(r)
                  BY <1>3, <3>1 DEF Stays
            <3> QED BY <1>1, <3>2 DEF ViewAnswered
      <2> QED BY <1>3, <2>1, <2>2, <2>3, ViewsMovers
<1> QED BY <1>2, <1>3

(* What the server does keeps its order rising along the menu.             *)
LEMMA AlongStays ==
  ASSUME ViewsShape, CreatesNew, AlongMenu, NEW r \in viewRequests, ViewHandled(r), r.op # "order"
  PROVE  AlongMenu'
<1>1. /\ ViewsRight(tableViews) /\ ViewRequestFits(r) /\ menuViews' = menuViews
      /\ EntriesIn(menuViews) = EntriesIn(viewsCache) /\ r.answer = "none"
      BY DEF ViewsShape, ViewListsFit, ViewHandled
<1>2. SUFFICES ASSUME NEW k \in DOMAIN menuViews, NEW l \in DOMAIN menuViews, k < l,
                      menuViews[k].id \in DOMAIN tableViews', menuViews[l].id \in DOMAIN tableViews'
               PROVE  tableViews'[menuViews[k].id].order < tableViews'[menuViews[l].id].order
      BY <1>1 DEF AlongMenu
<1> DEFINE u == menuViews[k].id
           w == menuViews[l].id
<1>3. u \in DOMAIN tableViews /\ w \in DOMAIN tableViews => tableViews[u].order < tableViews[w].order
      BY <1>2 DEF AlongMenu
<1>4. CASE UNCHANGED tableViews
      BY <1>2, <1>3, <1>4
<1>5. CASE ViewServed(r)
      <2>1. CASE r.op = "default"
            BY <1>1, <1>4, <1>5, <2>1, ServedViews
      <2>2. CASE r.op = "create"
            <3>1. r.args[1] \notin IdsIn(viewsCache)
                  BY <1>1, <2>2 DEF CreatesNew, PendingCreate
            <3>2. \A i \in DOMAIN menuViews : menuViews[i].id \in IdsIn(viewsCache)
                  BY <1>1 DEF EntriesIn, IdsIn
            <3>3. u # r.args[1] /\ w # r.args[1]
                  BY <3>1, <3>2
            <3> QED BY <1>1, <1>2, <1>3, <1>5, <2>2, <3>3, CreatedViews
      <2>3. CASE r.op = "update"
            BY <1>1, <1>2, <1>3, <1>5, <2>3, UpdatedViews
      <2>4. CASE r.op = "delete"
            BY <1>1, <1>2, <1>3, <1>5, <2>4, DeletedViews
      <2> QED BY <1>1, <2>1, <2>2, <2>3, <2>4 DEF ViewRequestFits
<1> QED BY <1>4, <1>5 DEF ViewHandled

(* The order of the menu, once it is saved, rises along the menu.          *)
LEMMA SavedOrderRises ==
  ASSUME ViewsShape, NEW r \in viewRequests, ViewHandled(r), ViewServed(r), r.op = "order",
         r.args = ViewIdsOf(menuViews)
  PROVE  AlongMenu'
<1>1. /\ ViewsRight(tableViews) /\ ViewRequestFits(r) /\ menuViews' = menuViews
      /\ ViewListFits(menuViews)
      BY DEF ViewsShape, ViewListsFit, ViewHandled
<1>2. DOMAIN r.args = DOMAIN menuViews /\ \A i \in DOMAIN menuViews : r.args[i] = menuViews[i].id
      BY <1>1, ViewIdLists
<1>3. \A i \in DOMAIN menuViews : \A j \in DOMAIN menuViews : r.args[j] = r.args[i] => j = i
      BY <1>1, <1>2 DEF ViewListFits, DistinctViews
<1>4. \A i \in DOMAIN menuViews : tableViews'[menuViews[i].id].order = i - 1
      <2>1. \A i \in DOMAIN r.args :
              (\A j \in DOMAIN r.args : r.args[j] = r.args[i] => j = i) =>
                tableViews'[r.args[i]].order = i - 1
            BY <1>1, OrderedViews
      <2> QED BY <1>2, <1>3, <2>1
<1>5. \A i \in DOMAIN menuViews : i \in Int
      BY <1>1, ViewLists DEF ViewListFits
<1> QED BY <1>1, <1>4, <1>5 DEF AlongMenu

LEMMA MenuFollowsKept ==
  ASSUME ViewsShape, CreatesNew, MenuFollows, ViewsNext PROVE MenuFollows'
<1> SUFFICES ASSUME ~ viewsExcused', ~ MenuDoomed'
             PROVE  /\ \A r \in viewRequests' :
                         PendingOrder(r) => menuViews' = viewsCache' \/ r.args = ViewIdsOf(menuViews')
                    /\ menuViews' = viewsCache' \/ AlongMenu' \/ \E r \in viewRequests' : PendingOrder(r)
    BY DEF MenuFollows, PendingOrder
<1> DEFINE Goal == /\ \A r \in viewRequests' :
                         PendingOrder(r) => menuViews' = viewsCache' \/ r.args = ViewIdsOf(menuViews')
                   /\ menuViews' = viewsCache' \/ AlongMenu' \/ \E r \in viewRequests' : PendingOrder(r)
<1>1. CASE menuViews' = viewsCache'
      BY <1>1
<1>2. CASE ~ VisitViews /\ menuViews' # viewsCache'
      <2>1. /\ \A r \in viewRequests : PendingOrder(r) => menuViews = viewsCache \/ r.args = ViewIdsOf(menuViews)
            /\ menuViews = viewsCache \/ AlongMenu \/ \E r \in viewRequests : PendingOrder(r)
            BY <1>2, ExcusedStays, DoomStays DEF MenuFollows
      <2>2. CASE ReordersViews
            <3>1. PICK r : /\ viewRequests' = viewRequests \cup {r} /\ r.answer = "none"
                           /\ r.op = "order" /\ r.args = ViewIdsOf(menuViews')
                  <4>2. PICK i, j \in DOMAIN menuViews :
                          menuViews' = Moved(menuViews, i, j) /\ ViewAsks("order", ViewIdsOf(menuViews'))
                        BY <2>2 DEF ReordersViews
                  <4> DEFINE r == [op |-> "order", args |-> ViewIdsOf(menuViews'), answer |-> "none",
                                   key |-> 0, form |-> NoForm]
                  <4>3. viewRequests' = viewRequests \cup {r}
                        BY <4>2 DEF ViewAsks
                  <4>4. r.op = "order" /\ r.args = ViewIdsOf(menuViews') /\ r.answer = "none"
                        OBVIOUS
                  <4> HIDE DEF r
                  <4> QED BY <4>3, <4>4
            <3>2. \A q \in viewRequests : q.op # "order"
                  BY <2>2 DEF ReordersViews
            <3> QED BY <3>1, <3>2 DEF PendingOrder
      <2>3. CASE UNCHANGED <<menuViews, viewsCache>>
            <3>1. ASSUME NEW o \in viewRequests, ViewHandled(o) PROVE Goal
                  <4>1. PICK u : /\ u.op = o.op /\ o.answer = "none" /\ u.answer \in {"ok", "error"}
                                 /\ viewRequests' = (viewRequests \ {o}) \cup {u}
                                 /\ u.answer = "ok" => ViewServed(o)
                        BY <3>1, HandledViewRequest DEF ViewsShape
                  <4>2. \A q \in viewRequests' : PendingOrder(q) => q \in viewRequests
                        BY <4>1 DEF PendingOrder
                  <4>3. \A q \in viewRequests' : PendingOrder(q) =>
                          menuViews' = viewsCache' \/ q.args = ViewIdsOf(menuViews')
                        BY <2>1, <2>3, <4>2
                  <4>4. CASE \E q \in viewRequests : PendingOrder(q) /\ q # o
                        BY <4>1, <4>3, <4>4
                  <4>5. CASE PendingOrder(o)
                        <5>1. u.answer = "ok"
                              BY <4>1, <4>5 DEF MenuDoomed, PendingOrder
                        <5>2. o.args = ViewIdsOf(menuViews)
                              BY <1>2, <2>1, <2>3, <4>5
                        <5>3. AlongMenu'
                              BY <3>1, <4>1, <4>5, <5>1, <5>2, SavedOrderRises DEF PendingOrder
                        <5> QED BY <4>3, <5>3
                  <4>6. CASE AlongMenu /\ o.op # "order"
                        BY <3>1, <4>3, <4>6, AlongStays
                  <4> QED BY <1>2, <2>1, <2>3, <4>1, <4>4, <4>5, <4>6 DEF PendingOrder
            <3>2. ASSUME UNCHANGED tableViews, \A q : PendingOrder(q) => (q \in viewRequests' <=> q \in viewRequests)
                  PROVE  Goal
                  <4>1. AlongMenu => AlongMenu'
                        BY <2>3, <3>2 DEF AlongMenu
                  <4> QED BY <2>1, <2>3, <3>2, <4>1
            <3>3. CASE ViewsGoOn
                  <4>1. UNCHANGED tableViews
                        BY <3>3 DEF ViewsGoOn, ViewsArrive, ViewAnswered, ViewsFetched, ViewDataArrive
                  <4>2. ASSUME NEW q, PendingOrder(q) PROVE q \in viewRequests' <=> q \in viewRequests
                        <5>1. q \in viewRequests => Stays(q)
                              BY <3>3, <4>2, GoneOnRequests DEF Answering, PendingOrder
                        <5>2. q \in viewRequests' => q \in viewRequests
                              BY <3>3, <4>2, GoneOnRequests DEF ComesFurther, PendingOrder, LaterStages
                        <5> QED BY <4>2, <5>1, <5>2 DEF Stays, PendingOrder
                  <4> QED BY <3>2, <4>1, <4>2
            <3>4. CASE ViewAsking /\ ~ ReordersViews
                  <4>1. PICK r : viewRequests' = viewRequests \cup {r} /\ r.op # "order"
                        BY <3>4, AskedViewRequest DEF ViewAsked
                  <4>2. UNCHANGED tableViews
                        BY <3>4 DEF ViewAsking, ViewAsks, ClicksView, AddsView, UpdatesView, DeletesView
                  <4> QED BY <3>2, <4>1, <4>2 DEF PendingOrder
            <3>5. CASE UNCHANGED <<viewRequests, tableViews>>
                  BY <3>2, <3>5
            <3>6. ~ OthersChangeViews
                  BY DEF OthersChangeViews
            <3> QED BY <1>2, <2>2, <3>1, <3>3, <3>4, <3>5, <3>6, ViewsMovers
      <2>4. TableRefreshed => menuViews' = viewsCache'
            BY DEF TableRefreshed
      <2>5. ViewsArrive => menuViews' = viewsCache' \/ UNCHANGED <<menuViews, viewsCache>>
            BY DEF ViewsArrive, MenuWith
      <2> QED BY <1>2, <2>2, <2>3, <2>4, <2>5, ViewsMovers
<1>3. VisitViews => menuViews' = viewsCache'
      BY DEF VisitViews
<1> QED BY <1>1, <1>2, <1>3

-----------------------------------------------------------------------------
(* The data of the open view                                               *)

BeingFetched(k) == \E r \in viewRequests : r.answer = "view" /\ r.key = k
DataFollows == ~ viewsExcused => \A k \in ViewIds : viewData[k] = k \/ BeingFetched(k)

(* A fetch under way stays, but for the two steps that replace and end it. *)
LEMMA FetchStays ==
  ASSUME ViewsShape, ViewsNext, NEW k \in ViewIds, BeingFetched(k)
  PROVE  \/ BeingFetched(k)' \/ VisitViews
         \/ \E r \in viewRequests : ViewDataArrive(r) /\ r.answer = "view" /\ r.key = k
<1>1. PICK q \in viewRequests : q.answer = "view" /\ q.key = k
      BY DEF BeingFetched
<1>2. ASSUME NEW rs \in SUBSET viewRequests, q \in rs PROVE q \in FetchEnds(rs)
      BY <1>1, <1>2 DEF FetchEnds
<1>3. q \in viewRequests' => BeingFetched(k)'
      BY <1>1 DEF BeingFetched
<1>4. CASE UNCHANGED viewRequests
      BY <1>3, <1>4
<1>5. CASE ViewAsking
      BY <1>3, <1>5, AskedViewRequest DEF ViewAsked
<1>6. ASSUME NEW r \in viewRequests, ViewHandled(r) PROVE BeingFetched(k)'
      <2>1. r # q /\ \E u : viewRequests' = (viewRequests \ {r}) \cup {u}
            BY <1>1, <1>6, HandledViewRequest DEF ViewsShape
      <2> QED BY <1>3, <2>1
<1>7. CASE ViewsArrive
      BY <1>2, <1>3, <1>7 DEF ViewsArrive
<1>8. ASSUME NEW r \in viewRequests, ViewAnswered(r) PROVE BeingFetched(k)'
      <2>1. /\ q \in viewRequests \ {r}
            /\ \/ viewRequests' = viewRequests \ {r}
               \/ \E u : viewRequests' = FetchEnds(viewRequests \ {r}) \cup {u}
            BY <1>1, <1>8 DEF ViewAnswered
      <2> QED BY <1>2, <1>3, <2>1
<1>9. ASSUME NEW r \in viewRequests, ViewsFetched(r) PROVE BeingFetched(k)'
      <2> DEFINE u == [r EXCEPT !.answer = "view", !.key = openView]
      <2>1. /\ q \in viewRequests \ {r} /\ r.answer = "fetched"
            /\ \/ viewRequests' = viewRequests \ {r}
               \/ viewRequests' = FetchReplaced(viewRequests \ {r}, openView) \cup {u}
            BY <1>1, <1>9 DEF ViewsFetched
      <2>2. u.answer = "view" /\ u.key = openView
            <3>1. /\ ViewRequestFits(r) /\ r.op \in ViewFormOps
                  /\ "view" \in LaterStages /\ openView \in ViewIds /\ openView # 0
                  BY <2>1, ViewsAssumption DEF LaterStages, ViewsShape, ViewPageFits, ViewRequestFits
            <3> QED BY <3>1, FetchingViewRequest
      <2> HIDE DEF u
      <2>3. k # openView => q \in FetchReplaced(viewRequests \ {r}, openView)
            BY <1>1, <2>1 DEF FetchReplaced
      <2> QED BY <1>3, <2>1, <2>2, <2>3 DEF BeingFetched
<1>10. ASSUME NEW r \in viewRequests, ViewDataArrive(r)
       PROVE  BeingFetched(k)' \/ (r.answer = "view" /\ r.key = k)
       <2>1. viewRequests' = viewRequests \ {r}
             BY <1>10 DEF ViewDataArrive
       <2> QED BY <1>1, <1>3, <2>1
<1> QED BY <1>4, <1>5, <1>6, <1>7, <1>8, <1>9, <1>10, ViewsMovers DEF ViewsGoOn

LEMMA DataFollowsKept == ASSUME ViewsShape, DataFollows, ViewsNext PROVE DataFollows'
<1> SUFFICES ASSUME ~ viewsExcused', NEW k \in ViewIds PROVE viewData'[k] = k \/ BeingFetched(k)'
    BY DEF DataFollows, BeingFetched
<1>1. VisitViews => viewData'[k] = k
      BY VisitedLists
<1>2. VisitViews \/ viewData[k] = k \/ BeingFetched(k)
      BY ExcusedStays DEF DataFollows
<1>3. viewData \in [ViewIds -> ViewIds] /\ openView \in ViewIds
      BY DEF ViewsShape, ViewPageFits
<1>4. ASSUME NEW r \in viewRequests, ViewDataArrive(r)
      PROVE  /\ viewData[k] = k => viewData'[k] = k
             /\ r.answer = "view" /\ r.key = k => viewData'[k] = k
      <2>1. CASE UNCHANGED viewData /\ r.answer = "done"
            BY <2>1
      <2>2. CASE UNCHANGED viewData /\ r.answer = "view"
            <3>1. r.key = k => viewData[k] = k
                  <4>1. \/ viewData' = [viewData EXCEPT ![r.key] = r.key]
                        \/ viewData[r.key] = r.key
                        BY <1>4, <2>2 DEF ViewDataArrive
                  <4> QED BY <1>3, <2>2, <4>1
            <3> QED BY <2>2, <3>1
      <2>3. CASE viewData' = [viewData EXCEPT ![r.key] = r.key]
            BY <1>3, <2>3
      <2> QED BY <1>4, <2>1, <2>2, <2>3 DEF ViewDataArrive
<1>5. ASSUME NEW r \in viewRequests, ViewsFetched(r), viewData'[k] # viewData[k] PROVE BeingFetched(k)'
      <2> DEFINE u == [r EXCEPT !.answer = "view", !.key = openView]
      <2>1. /\ u \in viewRequests' /\ viewData' = [viewData EXCEPT ![openView] = r.args[1]]
            /\ r.answer = "fetched"
            BY <1>5 DEF ViewsFetched
      <2>2. k = openView
            BY <1>3, <1>5, <2>1
      <2>3. u.answer = "view" /\ u.key = openView
            <3>1. /\ ViewRequestFits(r) /\ r.op \in ViewFormOps
                  /\ "view" \in LaterStages /\ openView # 0
                  BY <1>3, <2>1, ViewsAssumption DEF LaterStages, ViewsShape, ViewRequestFits
            <3> QED BY <1>3, <3>1, FetchingViewRequest
      <2> HIDE DEF u
      <2> QED BY <2>1, <2>2, <2>3 DEF BeingFetched
<1>6. ASSUME viewData[k] = k PROVE viewData'[k] = k \/ BeingFetched(k)'
      BY <1>1, <1>4, <1>5, <1>6, ViewsMovers
<1>7. ASSUME BeingFetched(k) PROVE viewData'[k] = k \/ BeingFetched(k)'
      BY <1>1, <1>4, <1>7, FetchStays
<1> QED BY <1>1, <1>2, <1>6, <1>7

MenuInv == ViewsShape /\ CreatesNew /\ MenuFollows /\ DataFollows

LEMMA MenuInvHolds == ViewsSpec => []MenuInv
<1>1. ViewsInit => MenuInv
      <2> SUFFICES ASSUME ViewsInit PROVE MenuInv
          OBVIOUS
      <2>1. CreatesNew /\ MenuFollows /\ DataFollows
            BY DEF ViewsInit, CreatesNew, MenuFollows, DataFollows
      <2> QED BY <2>1, ViewsShapeInit DEF MenuInv
<1>2. MenuInv /\ [ViewsNext]_viewVars => MenuInv'
      <2> SUFFICES ASSUME MenuInv, [ViewsNext]_viewVars PROVE MenuInv'
          OBVIOUS
      <2>1. ViewsShape'
            BY ViewsShapeKept DEF MenuInv
      <2>2. CASE ViewsNext
            BY <2>1, <2>2, CreatesNewKept, MenuFollowsKept, DataFollowsKept DEF MenuInv
      <2>3. CASE UNCHANGED viewVars
            <3>1. CreatesNew'
                  BY <2>3 DEF MenuInv, viewVars, CreatesNew
            <3>2. MenuFollows'
                  BY <2>3 DEF MenuInv, viewVars, MenuFollows, MenuDoomed, AlongMenu
            <3>3. DataFollows'
                  BY <2>3 DEF MenuInv, viewVars, DataFollows, BeingFetched
            <3> QED BY <2>1, <3>1, <3>2, <3>3 DEF MenuInv
      <2> QED BY <2>2, <2>3
<1> QED BY <1>1, <1>2, PTL DEF ViewsSpec

(* The variables of the menu of views have their types, whatever views the *)
(* table has and however many requests are under way.                      *)
THEOREM ViewsTypeCorrect == ViewsSpec => []ViewsTypeOK
<1>1. MenuInv => ViewsTypeOK
      BY ViewsShapeTypes DEF MenuInv
<1> QED BY <1>1, MenuInvHolds, PTL

(* At rest the menu shows the views in the order they have on the server,  *)
(* and the data of the open view are its own (ViewMenu, useTableView),     *)
(* whichever handlers ran and in which order their answers came.           *)
THEOREM MenuDoesSettle == ViewsSpec => []MenuSettles
<1>1. MenuInv => MenuSettles
      <2> SUFFICES ASSUME MenuInv, viewRequests = {}, viewsFetch.at = "no", ~ viewsExcused,
                          viewsCache \in ServerViews(tableViews)
                   PROVE  menuViews = viewsCache /\ viewData[openView] = openView
          BY DEF MenuSettles
      <2>1. viewData[openView] = openView
            BY DEF MenuInv, DataFollows, BeingFetched, ViewsShape, ViewPageFits
      <2>2. menuViews = viewsCache \/ AlongMenu
            BY DEF MenuInv, MenuFollows, MenuDoomed
      <2>3. ASSUME AlongMenu PROVE menuViews = viewsCache
            <3>1. /\ ViewsRight(tableViews) /\ ViewListFits(menuViews)
                  /\ EntriesIn(menuViews) = EntriesIn(viewsCache)
                  BY DEF MenuInv, ViewsShape, ViewListsFit
            <3>2. ListsViews(viewsCache, tableViews)
                  BY <3>1, ServerViewsAre
            <3>3. \A k \in DOMAIN menuViews : menuViews[k].id \in DOMAIN tableViews
                  <4>1. \A k \in DOMAIN menuViews : \E i \in DOMAIN viewsCache : menuViews[k] = viewsCache[i]
                        BY <3>1 DEF EntriesIn
                  <4> QED BY <3>2, <4>1 DEF ListsViews, IdsIn
            <3>4. \A k, l \in DOMAIN menuViews : k < l =>
                    tableViews[menuViews[k].id].order < tableViews[menuViews[l].id].order
                  BY <2>3, <3>3 DEF AlongMenu
            <3> QED BY <3>1, <3>2, <3>4, AscendingIsListed
      <2> QED BY <2>1, <2>2, <2>3
<1> QED BY <1>1, MenuInvHolds, PTL

-----------------------------------------------------------------------------
(* The open view.  It is the default on the server, or what a request for  *)
(* the default asks for; the server does not delete its default, and a     *)
(* deletion and such a request are not under way together.  What the menu  *)
(* shows has not been deleted, unless it is being fetched again.           *)

Deleting == \E r \in viewRequests : r.op = "delete" /\ r.answer = "ok"

DefaultsAlone ==
  \A r \in viewRequests : r.op = "default" =>
    /\ r.args[1] = openView
    /\ \A q \in viewRequests : /\ q.op = "delete" => q.answer \notin {"none", "ok"}
                               /\ q.op = "default" => q = r

OpenFollows ==
  ~ viewsExcused =>
    /\ ~ viewFromUrl => /\ openView \in DOMAIN tableViews
                        /\ \/ defaultView = openView
                           \/ \E r \in viewRequests : r.op = "default" /\ r.answer # "ok"
    /\ DefaultsAlone
    /\ IdsIn(viewsCache) \subseteq DOMAIN tableViews \/ viewsFetch.at # "no" \/ Deleting
    /\ viewsFetch.at = "read" => IdsIn(viewsFetch.read) \subseteq DOMAIN tableViews \/ Deleting

LEMMA OpenFollowsAsking ==
  ASSUME ViewsShape, OpenFollows, ViewAsking, ~ viewsExcused' PROVE OpenFollows'
<1>1. UNCHANGED <<tableViews, defaultView, viewsCache, viewsFetch>> /\ ~ viewsExcused
      <2>1. UNCHANGED <<tableViews, defaultView, viewsCache, viewsFetch>>
            BY DEF ViewAsking, ViewAsks, ClicksView, ReordersViews, AddsView, UpdatesView, DeletesView
      <2>2. ~ viewsExcused
            BY DEF ViewAsking, ClicksView, ReordersViews, AddsView, UpdatesView, DeletesView
      <2> QED BY <2>1, <2>2
<1>2. PICK r : /\ ViewAsked(r)
               /\ \/ ClicksView /\ r.op = "default" /\ r.args[1] = openView'
                  \/ ReordersViews /\ r.op = "order"
                  \/ AddsView /\ r.op = "create"
                  \/ UpdatesView /\ r.op = "update"
                  \/ DeletesView /\ r.op = "delete"
      BY AskedViewRequest
<1>3. viewRequests' = viewRequests \cup {r} /\ r.answer = "none"
      BY <1>2 DEF ViewAsked
<1>4. Deleting => Deleting'
      BY <1>3 DEF Deleting
<1>5. CASE ClicksView /\ r.op = "default" /\ r.args[1] = openView'
      <2>1. /\ viewsFetch.at = "no" /\ \A q \in viewRequests : q.op # "default"
            /\ \A q \in viewRequests : q.op = "delete" => q.answer \notin {"none", "ok"}
            /\ \E i \in DOMAIN menuViews : openView' = menuViews[i].id
            BY <1>5 DEF ClicksView
      <2>2. IdsIn(viewsCache) \subseteq DOMAIN tableViews
            BY <1>1, <2>1 DEF OpenFollows, Deleting
      <2>3. openView' \in IdsIn(viewsCache)
            <3>1. EntriesIn(menuViews) = EntriesIn(viewsCache)
                  BY DEF ViewsShape, ViewListsFit
            <3> QED BY <2>1, <3>1 DEF EntriesIn, IdsIn
      <2>4. DefaultsAlone'
            BY <1>3, <1>5, <2>1 DEF DefaultsAlone
      <2>5. \E q \in viewRequests' : q.op = "default" /\ q.answer # "ok"
            BY <1>3, <1>5
      <2>6. openView' \in DOMAIN tableViews' /\ IdsIn(viewsCache') \subseteq DOMAIN tableViews'
            BY <1>1, <2>2, <2>3
      <2>7. viewsFetch'.at # "read"
            BY <1>1, <2>1
      <2> QED BY <2>4, <2>5, <2>6, <2>7 DEF OpenFollows
<1>6. CASE ~ (r.op = "default")
      <2>1. UNCHANGED <<openView, viewFromUrl>>
            BY <1>2, <1>6 DEF ReordersViews, AddsView, UpdatesView, DeletesView
      <2>2. r.op = "delete" => \A q \in viewRequests : q.op # "default"
            BY <1>2, <1>6 DEF DeletesView
      <2>3. DefaultsAlone'
            <3>1. DefaultsAlone
                  BY <1>1 DEF OpenFollows
            <3> QED BY <1>3, <1>6, <2>1, <2>2, <3>1 DEF DefaultsAlone
      <2>4. (\E q \in viewRequests : q.op = "default" /\ q.answer # "ok")
              => \E q \in viewRequests' : q.op = "default" /\ q.answer # "ok"
            BY <1>3
      <2> QED BY <1>1, <1>4, <2>1, <2>3, <2>4 DEF OpenFollows
<1> QED BY <1>2, <1>5, <1>6

LEMMA OpenFollowsHandled ==
  ASSUME ViewsShape, OpenFollows, NEW r \in viewRequests, ViewHandled(r), ~ viewsExcused'
  PROVE  OpenFollows'
<1>1. UNCHANGED <<viewsCache, viewsFetch, openView, viewFromUrl>> /\ ~ viewsExcused
      <2>1. UNCHANGED <<viewsCache, viewsFetch, openView, viewFromUrl>>
            BY DEF ViewHandled
      <2>2. ASSUME viewsExcused PROVE viewsExcused'
            BY <2>2 DEF ViewHandled
      <2> QED BY <2>1, <2>2
<1>2. /\ ~ viewFromUrl => /\ openView \in DOMAIN tableViews
                          /\ \/ defaultView = openView
                             \/ \E q \in viewRequests : q.op = "default" /\ q.answer # "ok"
      /\ DefaultsAlone
      /\ IdsIn(viewsCache) \subseteq DOMAIN tableViews \/ viewsFetch.at # "no" \/ Deleting
      /\ viewsFetch.at = "read" => IdsIn(viewsFetch.read) \subseteq DOMAIN tableViews \/ Deleting
      BY <1>1 DEF OpenFollows
<1>3. PICK u : /\ u.op = r.op /\ u.args = r.args /\ r.answer = "none"
               /\ u.answer \in {"ok", "error"} /\ viewRequests' = (viewRequests \ {r}) \cup {u}
               /\ u.answer = "ok" => ViewServed(r)
               /\ u.answer = "error" =>
                    \/ UNCHANGED <<tableViews, defaultView>>
                    \/ ViewServed(r) /\ (r.op = "delete" => viewsExcused')
      BY HandledViewRequest DEF ViewsShape
<1>4. ViewRequestFits(r) /\ ViewsRight(tableViews)
      BY DEF ViewsShape
<1>5. DefaultsAlone'
      BY <1>1, <1>2, <1>3 DEF DefaultsAlone
<1>6. Deleting => Deleting'
      BY <1>3 DEF Deleting
<1>7. CASE r.op = "default"
      <2>1. UNCHANGED tableViews
            BY <1>3, <1>4, <1>7, ServedViews
      <2>2. CASE ViewServed(r)
            <3>1. defaultView' = openView
                  BY <1>2, <1>4, <1>7, <2>2, ServedViews DEF DefaultsAlone
            <3> QED BY <1>1, <1>2, <1>5, <1>6, <2>1, <3>1 DEF OpenFollows
      <2>3. CASE u.answer = "error"
            <3>1. \E q \in viewRequests' : q.op = "default" /\ q.answer # "ok"
                  BY <1>3, <1>7, <2>3
            <3> QED BY <1>1, <1>2, <1>5, <1>6, <2>1, <3>1 DEF OpenFollows
      <2> QED BY <1>3, <2>2, <2>3
<1>8. CASE r.op # "default"
      <2>1. (\E q \in viewRequests : q.op = "default" /\ q.answer # "ok")
              => \E q \in viewRequests' : q.op = "default" /\ q.answer # "ok"
            BY <1>3, <1>8
      <2>2. UNCHANGED defaultView
            BY <1>3, <1>8 DEF ViewServed
      <2>3. CASE r.op = "delete" /\ u.answer = "ok"
            <3>1. Deleting'
                  BY <1>3, <2>3 DEF Deleting
            <3>2. ~ viewFromUrl => defaultView = openView
                  BY <1>2, <1>3, <2>3 DEF DefaultsAlone
            <3>3. ~ viewFromUrl => openView \in DOMAIN tableViews'
                  BY <1>2, <1>3, <1>4, <2>3, <3>2, DeletedViews
            <3> QED BY <1>1, <1>2, <1>5, <2>1, <2>2, <3>1, <3>3 DEF OpenFollows
      <2>4. CASE r.op # "delete" \/ u.answer = "error"
            <3>1. DOMAIN tableViews \subseteq DOMAIN tableViews'
                  <4>1. CASE r.op # "delete"
                        BY <4>1, HandledDomain
                  <4>2. CASE r.op = "delete" /\ u.answer = "error"
                        BY <1>3, <4>2
                  <4> QED BY <2>4, <4>1, <4>2
            <3>2. ~ viewFromUrl => openView' \in DOMAIN tableViews'
                  BY <1>1, <1>2, <3>1
            <3>3. IdsIn(viewsCache') \subseteq DOMAIN tableViews' \/ viewsFetch'.at # "no" \/ Deleting'
                  BY <1>1, <1>2, <1>6, <3>1
            <3>4. viewsFetch'.at = "read" => IdsIn(viewsFetch'.read) \subseteq DOMAIN tableViews' \/ Deleting'
                  BY <1>1, <1>2, <1>6, <3>1
            <3> QED BY <1>1, <1>2, <1>5, <2>1, <2>2, <3>2, <3>3, <3>4 DEF OpenFollows
      <2> QED BY <1>3, <2>3, <2>4
<1> QED BY <1>7, <1>8

(* A handler that goes on leaves the requests for the default as they are  *)
(* until they are answered, and the deletions until their views are asked. *)
LEMMA OpenFollowsGoingOn ==
  ASSUME ViewsShape, OpenFollows, ViewsGoOn, ~ viewsExcused' PROVE OpenFollows'
<1>1. UNCHANGED <<tableViews, defaultView, openView, viewFromUrl>> /\ ~ viewsExcused
      <2>1. UNCHANGED <<tableViews, defaultView, openView, viewFromUrl>>
            BY DEF ViewsGoOn, ViewsArrive, ViewAnswered, ViewsFetched, ViewDataArrive
      <2>2. ASSUME viewsExcused PROVE viewsExcused'
            BY <2>2 DEF ViewsGoOn, ViewsArrive, ViewAnswered, ViewsFetched, ViewDataArrive
      <2> QED BY <2>1, <2>2
<1>2. /\ ~ viewFromUrl => /\ openView \in DOMAIN tableViews
                          /\ \/ defaultView = openView
                             \/ \E q \in viewRequests : q.op = "default" /\ q.answer # "ok"
      /\ DefaultsAlone
      /\ IdsIn(viewsCache) \subseteq DOMAIN tableViews \/ viewsFetch.at # "no" \/ Deleting
      /\ viewsFetch.at = "read" => IdsIn(viewsFetch.read) \subseteq DOMAIN tableViews \/ Deleting
      BY <1>1 DEF OpenFollows
<1>3. ASSUME NEW q \in viewRequests', q.op = "default" PROVE q \in viewRequests
      <2>1. CASE q \in viewRequests
            BY <2>1
      <2>2. ASSUME NEW o \in viewRequests, ComesFurther(q, o) PROVE FALSE
            BY <1>3, <2>2 DEF ComesFurther, ViewFormOps
      <2> QED BY <1>3, <2>1, <2>2, GoneOnRequests
<1>4. DefaultsAlone'
      BY <1>1, <1>2, <1>3, GoneOnRequests DEF DefaultsAlone, ComesFurther, LaterStages
<1>5. ASSUME NEW q \in viewRequests, q.op = "default", q.answer # "ok" PROVE q \in viewRequests'
      <2>1. Stays(q)
            <3>1. q.answer \in {"none", "error"}
                  BY <1>5 DEF ViewsShape, ViewRequestFits, ViewFormOps
            <3> QED BY <3>1, GoneOnRequests DEF Answering
      <2>2. ~ ViewAnswered(q) \/ q.answer = "none"
            BY <1>5 DEF ViewAnswered
      <2> QED BY <2>1, <2>2 DEF Stays
<1>6. CASE ViewsArrive
      <2>1. viewsFetch.at = "read" /\ viewsFetch'.at = "no" /\ viewsCache' = viewsFetch.read
            BY <1>6 DEF ViewsArrive, NoViewsFetch
      <2>2. Deleting => Deleting'
            BY <1>6 DEF Deleting, ViewsArrive, FetchEnds
      <2> QED BY <1>1, <1>2, <1>4, <1>5, <2>1, <2>2 DEF OpenFollows
<1>7. ASSUME NEW r \in viewRequests, ViewAnswered(r) \/ ViewsFetched(r) \/ ViewDataArrive(r)
      PROVE  OpenFollows'
      <2>1. UNCHANGED viewsCache /\ (viewsFetch'.at = "asked" \/ UNCHANGED viewsFetch)
            <3>1. \/ viewsFetch' = [at |-> "asked", read |-> <<>>]
                  \/ UNCHANGED viewsFetch
                  BY <1>7 DEF ViewAnswered, ViewsFetched, ViewDataArrive
            <3>2. UNCHANGED viewsCache
                  BY <1>7 DEF ViewAnswered, ViewsFetched, ViewDataArrive
            <3> QED BY <3>1, <3>2
      <2>2. Deleting => Deleting' \/ viewsFetch'.at = "asked"
            <3>1. ASSUME NEW q \in viewRequests, q.op = "delete", q.answer = "ok"
                  PROVE  q \in viewRequests' \/ viewsFetch'.at = "asked"
                  <4>1. Stays(q)
                        BY <3>1, GoneOnRequests DEF Answering
                  <4>2. ViewAnswered(q) => viewsFetch'.at = "asked"
                        BY <3>1 DEF ViewAnswered
                  <4> QED BY <4>1, <4>2 DEF Stays
            <3> QED BY <3>1 DEF Deleting
      <2> QED BY <1>1, <1>2, <1>4, <1>5, <2>1, <2>2 DEF OpenFollows
<1> QED BY <1>6, <1>7 DEF ViewsGoOn

LEMMA OpenFollowsKept == ASSUME ViewsShape, OpenFollows, ViewsNext PROVE OpenFollows'
<1> SUFFICES ASSUME ~ viewsExcused' PROVE OpenFollows'
    BY DEF OpenFollows
<1>1. CASE VisitViews
      <2>1. /\ defaultView' \in DOMAIN tableViews' /\ viewFromUrl' = (openView' # defaultView')
            /\ viewRequests' = {}
            /\ IdsIn(viewsCache') = DOMAIN tableViews' /\ viewsFetch'.at = "no"
            BY <1>1, VisitedLists DEF ListsViews, NoViewsFetch
      <2> QED BY <2>1 DEF OpenFollows, DefaultsAlone
<1>2. CASE ViewAsking
      BY <1>2, OpenFollowsAsking
<1>3. ASSUME NEW r \in viewRequests, ViewHandled(r) PROVE OpenFollows'
      BY <1>3, OpenFollowsHandled
<1>4. CASE ViewsGoOn
      BY <1>4, OpenFollowsGoingOn
<1>5. CASE OpensViewForm \/ ChangesViewForm \/ ClosesViewForm \/ TableRefreshed
      <2>1. UNCHANGED <<tableViews, defaultView, viewsCache, openView, viewRequests, viewsFetch,
                        viewFromUrl, viewsExcused>>
            BY <1>5 DEF OpensViewForm, ChangesViewForm, ClosesViewForm, TableRefreshed
      <2> QED BY <2>1 DEF OpenFollows, DefaultsAlone, Deleting
<1>6. CASE ViewsAsked \/ ViewsRead
      <2>1. /\ UNCHANGED <<tableViews, defaultView, viewsCache, openView, viewRequests, viewFromUrl,
                           viewsExcused>>
            /\ viewsFetch'.at # "no"
            BY <1>6 DEF ViewsAsked, ViewsRead
      <2>2. viewsFetch'.at = "read" => IdsIn(viewsFetch'.read) = DOMAIN tableViews
            <3>1. ViewsAsked => viewsFetch'.at = "asked"
                  BY DEF ViewsAsked
            <3>2. ViewsRead => IdsIn(viewsFetch'.read) = DOMAIN tableViews
                  BY ServerViewsAre DEF ViewsRead, ListsViews, ViewsShape
            <3> QED BY <1>6, <3>1, <3>2
      <2> QED BY <2>1, <2>2 DEF OpenFollows, DefaultsAlone, Deleting
<1>8. ~ OthersChangeViews
      BY DEF OthersChangeViews
<1> QED BY <1>1, <1>2, <1>3, <1>4, <1>5, <1>6, <1>8
       DEF ViewsNext, ViewMenu, EditView, ViewAsking, ViewsGoOn

(* The view that is open, unless an address named it, is not deleted       *)
(* (TableViewsController, which keeps the default): opening a view asks    *)
(* for it to be the default, and no step of this user's page deletes a     *)
(* view while that is under way.                                           *)
THEOREM OpenViewDoesLive == ViewsSpec => []OpenViewLives
<1>1. ViewsInit => OpenFollows
      <2> SUFFICES ASSUME ViewsInit PROVE OpenFollows
          OBVIOUS
      <2>1. viewFromUrl = (openView # defaultView) /\ defaultView \in DOMAIN tableViews
            BY DEF ViewsInit
      <2>2. IdsIn(viewsCache) = DOMAIN tableViews
            <3>1. ViewsRight(tableViews) /\ viewsCache \in ServerViews(tableViews)
                  BY ViewsShapeInit DEF ViewsShape, ViewsInit
            <3> QED BY <3>1, ServerViewsAre DEF ListsViews
      <2>3. viewRequests = {} /\ viewsFetch.at = "no"
            BY DEF ViewsInit, NoViewsFetch
      <2> QED BY <2>1, <2>2, <2>3 DEF OpenFollows, DefaultsAlone
<1>2. MenuInv /\ OpenFollows /\ [ViewsNext]_viewVars => OpenFollows'
      <2> SUFFICES ASSUME MenuInv, OpenFollows, [ViewsNext]_viewVars PROVE OpenFollows'
          OBVIOUS
      <2>1. CASE ViewsNext
            BY <2>1, OpenFollowsKept DEF MenuInv
      <2>2. CASE UNCHANGED viewVars
            BY <2>2 DEF viewVars, OpenFollows, DefaultsAlone, Deleting
      <2> QED BY <2>1, <2>2
<1>3. OpenFollows => OpenViewLives
      BY DEF OpenFollows, OpenViewLives
<1> QED BY <1>1, <1>2, <1>3, MenuInvHolds, PTL DEF ViewsSpec

-----------------------------------------------------------------------------
(* What an update changes (EditView): a view gets another name, or its     *)
(* switch, only if the user changed it in the form, if the view had become *)
(* different from what the form took over, or, for the switch, if the form *)
(* has it from another view.                                               *)
THEOREM UpdatesChangeThat == ViewsSpec => UpdatesWhatChanged
<1> DEFINE Step ==
      \A r \in viewRequests :
         r.op = "update" /\ r.answer = "none" /\ r \notin viewRequests' =>
           LET v == r.args[1] IN
           v \in DOMAIN tableViews =>
             /\ tableViews'[v].name # tableViews[v].name =>
                  "name" \in r.form.touched \/ r.form.was.name # tableViews[v].name
             /\ tableViews'[v].on # tableViews[v].on =>
                  "on" \in r.form.touched \/ r.form.was.on # tableViews[v].on \/ r.form.carried
<1>1. ASSUME ViewsShape, [ViewsNext]_viewVars PROVE Step
      <2> SUFFICES ASSUME NEW r \in viewRequests, r.op = "update", r.answer = "none",
                          r \notin viewRequests', r.args[1] \in DOMAIN tableViews
                   PROVE  LET v == r.args[1] IN
                          /\ tableViews'[v].name # tableViews[v].name =>
                               "name" \in r.form.touched \/ r.form.was.name # tableViews[v].name
                          /\ tableViews'[v].on # tableViews[v].on =>
                               "on" \in r.form.touched \/ r.form.was.on # tableViews[v].on \/ r.form.carried
          OBVIOUS
      <2>1. /\ ViewRequestFits(r) /\ ViewFormFits(r.form) /\ ViewsRight(tableViews)
            /\ r.args[2] = r.form.name /\ r.args[3] = r.form.on
            <3>1. ViewRequestFits(r) /\ ViewsRight(tableViews)
                  BY <1>1 DEF ViewsShape
            <3> QED BY <3>1 DEF ViewRequestFits
      <2>2. ViewsNext
            BY <1>1 DEF viewVars
      <2>3. ViewAsking => r \in viewRequests'
            BY <1>1, AskedViewRequest DEF ViewAsked
      <2>4. ViewsGoOn => r \in viewRequests'
            BY <1>1, GoneOnRequests DEF Answering, Stays
      <2>10. ~ VisitViews
            BY VisitedLists
      <2>5. PICK o \in viewRequests : ViewHandled(o)
            BY <2>2, <2>3, <2>4, <2>10, ViewsMovers
      <2>6. PICK u : /\ viewRequests' = (viewRequests \ {o}) \cup {u}
                     /\ u.answer \in {"ok", "error"}
                     /\ u.answer = "ok" => ViewServed(o)
                     /\ u.answer = "error" => UNCHANGED <<tableViews, defaultView>> \/ ViewServed(o)
            BY <1>1, <2>5, HandledViewRequest DEF ViewsShape
      <2>7. o = r
            BY <2>6
      <2>8. CASE UNCHANGED <<tableViews, defaultView>>
            BY <2>8
      <2>9. CASE ViewServed(r)
            <3>1. tableViews'[r.args[1]].name = r.form.name /\ tableViews'[r.args[1]].on = r.form.on
                  BY <2>1, <2>9, UpdatedViews
            <3>2. /\ "name" \notin r.form.touched => r.form.name = r.form.was.name
                  /\ "on" \notin r.form.touched /\ ~ r.form.carried => r.form.on = r.form.was.on
                  BY <2>1 DEF ViewFormFits
            <3> QED BY <3>1, <3>2
      <2> QED BY <2>6, <2>7, <2>8, <2>9
<1>2. MenuInv /\ [ViewsNext]_viewVars => [Step]_viewVars
      BY <1>1 DEF MenuInv
<1>3. ViewsSpec => [][Step]_viewVars
      BY <1>2, MenuInvHolds, PTL DEF ViewsSpec
<1> QED BY <1>3 DEF UpdatesWhatChanged
=============================================================================
