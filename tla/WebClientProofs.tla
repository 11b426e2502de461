---------------------------- MODULE WebClientProofs ---------------------------
(***************************************************************************)
(* The web client as a whole: a behaviour of it is, for the variables of   *)
(* every page, a behaviour of that page or one in which they never change. *)
(* What is proved of a page therefore holds in the client, whichever page  *)
(* the behaviour is about.                                                 *)
(***************************************************************************)
EXTENDS MCWebClient, ClientGridProofs, ClientFormsProofs, ClientTablesProofs

LEMMA GridRefined == WebSpec => GridSpec
<1>1. WebInit => GridInit
      BY DEF WebInit
<1>2. [WebNext]_webVars => [GridNext]_gridVars
      BY DEF WebNext, Rests, webVars
<1> QED BY <1>1, <1>2, PTL DEF WebSpec, GridSpec

LEMMA ModalRefined == WebSpec => ModalSpec
<1>1. WebInit => ModalInit
      BY DEF WebInit
<1>2. [WebNext]_webVars => [ModalNext]_modalVars
      BY DEF WebNext, Rests, webVars
<1> QED BY <1>1, <1>2, PTL DEF WebSpec, ModalSpec

LEMMA PermRefined == WebSpec => PermSpec
<1>1. WebInit => PermInit
      BY DEF WebInit
<1>2. [WebNext]_webVars => [PermNext]_permVars
      BY DEF WebNext, Rests, webVars
<1> QED BY <1>1, <1>2, PTL DEF WebSpec, PermSpec

LEMMA FilterRefined == WebSpec => FilterSpec
<1>1. WebInit => FilterInit
      BY DEF WebInit
<1>2. [WebNext]_webVars => [FilterNext]_filterVars
      BY DEF WebNext, Rests, webVars
<1> QED BY <1>1, <1>2, PTL DEF WebSpec, FilterSpec

LEMMA FieldsRefined == WebSpec => FieldsSpec
<1>1. WebInit => FieldsInit
      BY DEF WebInit
<1>2. [WebNext]_webVars => [FieldsNext]_fieldVars
      BY DEF WebNext, Rests, webVars
<1> QED BY <1>1, <1>2, PTL DEF WebSpec, FieldsSpec

LEMMA NamesRefined == WebSpec => NamesSpec
<1>1. WebInit => NamesInit
      BY DEF WebInit
<1>2. [WebNext]_webVars => [NamesNext]_nameVars
      BY DEF WebNext, Rests, webVars
<1> QED BY <1>1, <1>2, PTL DEF WebSpec, NamesSpec

LEMMA NewTableRefined == WebSpec => NewTableSpec
<1>1. WebInit => NewTableInit
      BY DEF WebInit
<1>2. [WebNext]_webVars => [NewTableNext]_newTableVars
      BY DEF WebNext, Rests, webVars
<1> QED BY <1>1, <1>2, PTL DEF WebSpec, NewTableSpec

LEMMA TablesRefined == WebSpec => TablesSpec
<1>1. WebInit => TablesInit
      BY DEF WebInit
<1>2. [WebNext]_webVars => [TablesNext]_tableVars
      BY DEF WebNext, Rests, webVars
<1> QED BY <1>1, <1>2, PTL DEF WebSpec, TablesSpec

LEMMA ViewsRefined == WebSpec => ViewsSpec
<1>1. WebInit => ViewsInit
      BY DEF WebInit
<1>2. [WebNext]_webVars => [ViewsNext]_viewVars
      BY DEF WebNext, Rests, webVars
<1> QED BY <1>1, <1>2, PTL DEF WebSpec, ViewsSpec

(* Every page's state has the shapes that its handlers expect, also while  *)
(* another page is looked at.                                              *)
THEOREM WebTypeCorrect == WebSpec => []WebTypeOK
<1>1. WebSpec => []GridTypeOK /\ []ModalTypeOK /\ []PermTypeOK
      BY GridRefined, ModalRefined, PermRefined, GridTypeCorrect, ModalTypeCorrect, PermTypeCorrect, PTL
<1>2. WebSpec => []FilterTypeOK /\ []FieldTypeOK /\ []NamesTypeOK
      BY FilterRefined, FieldsRefined, NamesRefined, FilterTypeCorrect, FieldTypeCorrect, NamesTypeCorrect, PTL
<1>3. WebSpec => []NewTableTypeOK /\ []TablesTypeOK /\ []ViewsTypeOK
      BY NewTableRefined, TablesRefined, ViewsRefined, NewTableTypeCorrect, TablesTypeCorrect,
         ViewsTypeCorrect, PTL
<1>4. WebSpec => [](page \in Pages)
      <2>1. WebInit => page \in Pages
            BY WebAssumption DEF WebInit
      <2>2. page \in Pages /\ [WebNext]_webVars => (page \in Pages)'
            BY DEF WebNext, webVars
      <2> QED BY <2>1, <2>2, PTL DEF WebSpec
<1>5. /\ page \in Pages
      /\ GridTypeOK /\ ModalTypeOK /\ PermTypeOK /\ FilterTypeOK /\ FieldTypeOK
      /\ NamesTypeOK /\ NewTableTypeOK /\ TablesTypeOK /\ ViewsTypeOK
      => WebTypeOK
      BY DEF Pages, WebTypeOK
<1> QED BY <1>1, <1>2, <1>3, <1>4, <1>5, PTL

(* Whichever page is looked at: the pages settle on what the server has,   *)
(* names are free and ids differ once they were checked, a base keeps a    *)
(* visible table, and a menu's view is one that lives.                     *)
THEOREM PagesStayRight ==
  WebSpec => /\ []GridSettles /\ []DifferenceOffered
             /\ []ChoiceHonoured /\ []AnswersAgree /\ []SavingEnds
             /\ []OptionsSettle /\ []ColumnsSettle
             /\ []FreeWhenChecked /\ []CheckingEnds
             /\ []OneIncrementing /\ []SameNameSameId /\ []IdsDistinct
             /\ []TabsSettle /\ []SettingsSettle /\ []LastVisible
             /\ []MenuSettles /\ []OpenViewLives
<1>1. WebSpec => []GridSettles /\ []DifferenceOffered
      BY GridRefined, GridIsSettled, ModalRefined, DifferencesAreOffered, PTL
<1>2. WebSpec => []ChoiceHonoured /\ []AnswersAgree /\ []SavingEnds
      BY PermRefined, ChoiceIsHonoured, AnswersDoAgree, SavingDoesEnd, PTL
<1>3. WebSpec => []OptionsSettle /\ []ColumnsSettle
      BY FilterRefined, OptionsDoSettle, FieldsRefined, ColumnsDoSettle, PTL
<1>4. WebSpec => []FreeWhenChecked /\ []CheckingEnds
      BY NamesRefined, CheckedIsFree, CheckingDoesEnd, PTL
<1>5. WebSpec => []OneIncrementing /\ []SameNameSameId /\ []IdsDistinct
      BY NewTableRefined, OneKeyIncrements, OneNameOneId, NewIdsDiffer, PTL
<1>6. WebSpec => []TabsSettle /\ []SettingsSettle /\ []LastVisible
      BY TablesRefined, TabsDoSettle, SettingsDoSettle, OneStaysVisible, PTL
<1>7. WebSpec => []MenuSettles /\ []OpenViewLives
      BY ViewsRefined, MenuDoesSettle, OpenViewDoesLive, PTL
<1> QED BY <1>1, <1>2, <1>3, <1>4, <1>5, <1>6, <1>7, PTL

(* Whichever page is looked at, no step sends what was not entered,        *)
(* decides other than the user chose, removes a filter that was not asked for, or  *)
(* updates a view by what was not changed.                                 *)
THEOREM PagesStepRight ==
  WebSpec => SendsOnlyEntered /\ DecisionTakes /\ RemovesOne /\ UpdatesWhatChanged
<1>1. WebSpec => SendsOnlyEntered
      BY ModalRefined, OnlyEnteredIsSent, PTL
<1>2. WebSpec => DecisionTakes
      BY PermRefined, DecisionsTake, PTL
<1>3. WebSpec => RemovesOne
      BY FilterRefined, RemovesOnlyOne, PTL
<1>4. WebSpec => UpdatesWhatChanged
      BY ViewsRefined, UpdatesChangeThat, PTL
<1> QED BY <1>1, <1>2, <1>3, <1>4
=============================================================================
