--------------------------- MODULE ClientNewTable ---------------------------
(***************************************************************************)
(* The fields of a table that is being created: the list of CreateTable-   *)
(* Fields, and the form of one field, CreateField, in a modal above it.    *)
(* Nothing is asked of the server before the table is submitted.  Fields   *)
(* and the options of a select have ids from counters that begin again     *)
(* with their components, while what they number stays.                    *)
(*                                                                         *)
(* An alias is not told from its name; magic fields are left out.          *)
(***************************************************************************)
EXTENDS Integers, ClientLists

CONSTANTS
  NewNames,    \* names for the fields that are added
  OptionTexts, \* values of a select's options
  MaxNewFields,\* bound: fields of the table, options of a field
  MaxClicks    \* bound: what the user does in one visit of the modal

ASSUME NewTableAssumption ==
  /\ "id" \notin NewNames /\ "" \notin OptionTexts
  /\ MaxNewFields \in Nat /\ MaxClicks \in Nat

VARIABLES
  newFields,  \* state "fields" of CreateTableModal
  newCount,   \* count of CreateTableFields
  advanced,   \* are the advanced options open, which show the fields?
  fieldForm,  \* CreateField in its modal: closed, open, or closing
  submitting, \* is the table under way to the server?
  recounted,  \* history: has newCount begun again with fields in the list?
  doubled,    \* history: was a field added again while the form closed?
  clicks      \* bounded

newTableVars == <<newFields, newCount, advanced, fieldForm, submitting, recounted, doubled, clicks>>

NoId == -1
FieldNames == NewNames \cup {"id", "name", ""}
Types == {"number", "text", "select"}
OptionItem == [id : Nat, value : OptionTexts \cup {""}]
ClosedFieldForm == [at |-> "closed", id |-> NoId, name |-> "", type |-> "none", dbType |-> "",
                    taken |-> FALSE, options |-> <<[id |-> 0, value |-> ""]>>, optionCount |-> 1,
                    optionsKept |-> FALSE]

NewTableTypeOK ==
  /\ \A i \in DOMAIN newFields :
       /\ newFields[i].id \in Nat /\ newFields[i].name \in FieldNames
       /\ newFields[i].type \in Types /\ newFields[i].dbType \in {"default", "custom"}
       /\ newFields[i].pk \in BOOLEAN /\ newFields[i].auto \in BOOLEAN
       /\ newFields[i].options \in Seq(OptionTexts)
  /\ newCount \in Nat /\ clicks \in 0..MaxClicks
  /\ fieldForm.at \in {"closed", "open", "closing"} /\ fieldForm.type \in Types \cup {"none"}
  /\ fieldForm.options \in Seq(OptionItem)
  /\ {advanced, submitting, recounted, doubled} \subseteq BOOLEAN

\* PRIMARY_KEY_FIELD, NAME_FIELD
FirstFields ==
  << [id |-> 0, name |-> "id", type |-> "number", dbType |-> "default", pk |-> TRUE,
      auto |-> TRUE, options |-> <<>>],
     [id |-> 1, name |-> "name", type |-> "text", dbType |-> "default", pk |-> FALSE,
      auto |-> FALSE, options |-> <<>>] >>

PrimaryKeys == {i \in DOMAIN newFields : newFields[i].pk}
MapFields(g(_)) == newFields' = [i \in DOMAIN newFields |-> g(newFields[i])]

Click == ~ submitting /\ clicks < MaxClicks /\ clicks' = clicks + 1

ListClick ==
  /\ Click /\ advanced /\ fieldForm.at = "closed"
  /\ UNCHANGED <<advanced, fieldForm, submitting, doubled>>

-----------------------------------------------------------------------------
(* The list: each field by its id.                                         *)
ReordersNew ==
  LET first(id) == CHOOSE i \in DOMAIN newFields : /\ newFields[i].id = id
                                                   /\ \A j \in 1..i-1 : newFields[j].id # id
  IN
  /\ ListClick
  /\ \E i, j \in DOMAIN newFields :
       /\ newFields[i].id # newFields[j].id
       /\ LET from == first(newFields[i].id) IN
          newFields' = Moved(newFields, from, first(newFields[j].id))
  /\ UNCHANGED <<newCount, recounted>>

\* Mutant: the button is offered beside a key that increments.
AnyPrimaryKey(i) == ~ newFields[i].pk

(* setAsPrimaryKey is passed for                                           *)
OffersPrimaryKey(i) == ~ newFields[i].pk /\ \A j \in PrimaryKeys : ~ newFields[j].auto

TogglesPrimaryKey ==
  /\ ListClick
  /\ \E i \in DOMAIN newFields, v \in BOOLEAN :
       /\ IF v THEN OffersPrimaryKey(i) ELSE newFields[i].pk
       /\ LET Set(f) == IF f.id = newFields[i].id
                        THEN [f EXCEPT !.pk = v, !.auto = v /\ @] ELSE f
          IN MapFields(Set)
  /\ UNCHANGED <<newCount, recounted>>

TogglesAutoIncrement ==
  /\ ListClick /\ Cardinality(PrimaryKeys) = 1
  /\ \E i \in PrimaryKeys :
       /\ newFields[i].type = "number"
       /\ LET Set(f) == IF f.id = newFields[i].id
                        THEN [f EXCEPT !.auto = ~ newFields[i].auto] ELSE f
          IN MapFields(Set)
  /\ UNCHANGED <<newCount, recounted>>

RemovesNew ==
  /\ ListClick
  /\ \E i \in DOMAIN newFields :
       newFields' = Filtered(newFields, {j \in DOMAIN newFields : newFields[j].id # newFields[i].id})
  /\ UNCHANGED <<newCount, recounted>>

(* The advanced options unmount the list, and closing the modal does, too: *)
(* its fields are the modal's, its count is not.                           *)
TogglesAdvanced ==
  /\ Click /\ fieldForm.at = "closed"
  /\ advanced' = ~ advanced
  /\ newCount' = 1 /\ recounted' = (recounted \/ newCount > 1)
  /\ UNCHANGED <<newFields, fieldForm, submitting, doubled>>

-----------------------------------------------------------------------------
\* Mutant: a field that is updated is not compared.
TakenByNew(id, name) == id = NoId /\ \E i \in DOMAIN newFields : newFields[i].name = name

(* The effect of CreateFieldAlias and CreateFieldName without a table      *)
TakenBy(id, name) ==
  \E i \in DOMAIN newFields : newFields[i].id # id /\ newFields[i].name = name

(* The form of a field: handleAddField opens it empty, handleUpdateField   *)
(* with the first field of the id.  Once the type is known the data type   *)
(* is set to the default of that type, whatever the field had.  An empty   *)
(* name is no error until a key is pressed.                                *)
FormClick == Click /\ UNCHANGED <<newFields, newCount, advanced, submitting, recounted, doubled>>

OpensFieldForm ==
  /\ advanced /\ fieldForm.at = "closed" /\ FormClick
  /\ \/ fieldForm' = [ClosedFieldForm EXCEPT !.at = "open", !.taken = TakenBy(NoId, "")]
     \/ \E i \in DOMAIN newFields :
          LET f == newFields[i] IN
          /\ \A j \in 1..i-1 : newFields[j].id # f.id
          /\ fieldForm' = [ClosedFieldForm EXCEPT
               !.at = "open", !.id = f.id, !.name = f.name, !.type = f.type, !.dbType = "default",
               !.taken = TakenBy(f.id, f.name),
               !.options = [k \in DOMAIN f.options |-> [id |-> k - 1, value |-> f.options[k]]],
               !.optionsKept = TRUE]

NamesField ==
  /\ fieldForm.at = "open" /\ FormClick
  /\ \E n \in NewNames \cup {"name"} :
       fieldForm' = [fieldForm EXCEPT !.name = n, !.taken = TakenBy(fieldForm.id, n)]

(* handleSelectOption, handleClearOption; the options of a select are kept *)
(* while their component, and its count, is not.                           *)
ChoosesType ==
  /\ fieldForm.at = "open" /\ FormClick
  /\ IF fieldForm.type # "none"
     THEN fieldForm' = [fieldForm EXCEPT !.type = "none", !.optionCount = 1,
                                         !.optionsKept = @ \/ fieldForm.optionCount > 1]
     ELSE \E t \in Types : fieldForm' = [fieldForm EXCEPT !.type = t, !.dbType = "default"]

(* handleDataTypeChange                                                    *)
ChangesDataType ==
  /\ fieldForm.at = "open" /\ fieldForm.type # "none" /\ FormClick
  /\ \E d \in {"custom", ""} : fieldForm' = [fieldForm EXCEPT !.dbType = d]

\* Mutant: handleAddOption does not count.
OptionCountKept(form) == form.optionCount

OptionCountAfter(form) == form.optionCount + 1

ChangesOptions ==
  /\ fieldForm.at = "open" /\ fieldForm.type = "select" /\ FormClick
  /\ \/ \E i \in DOMAIN fieldForm.options :
          fieldForm' = [fieldForm EXCEPT !.options =
                          Filtered(@, {j \in DOMAIN @ : @[j].id # fieldForm.options[i].id})]
     \/ \E i \in DOMAIN fieldForm.options, v \in OptionTexts :
          fieldForm' = [fieldForm EXCEPT !.options =
                          [k \in DOMAIN @ |-> IF @[k].id = fieldForm.options[i].id
                                              THEN [@[k] EXCEPT !.value = v] ELSE @[k]]]
     \/ /\ Len(fieldForm.options) < MaxNewFields
        /\ fieldForm' = [fieldForm EXCEPT
             !.options = Append(@, [id |-> fieldForm.optionCount, value |-> ""]),
             !.optionCount = OptionCountAfter(fieldForm)]

OptionValues ==
  LET given == Filtered(fieldForm.options,
                        {i \in DOMAIN fieldForm.options : fieldForm.options[i].value # ""}) IN
  [i \in DOMAIN given |-> given[i].value]

\* Mutant: the type is not asked for.
AcceptableUntyped ==
  /\ ~ fieldForm.taken /\ fieldForm.dbType # ""
  /\ fieldForm.type = "select" => OptionValues # <<>> /\ IsInjective(OptionValues)

(* What handleSubmit accepts                                               *)
Acceptable ==
  /\ ~ fieldForm.taken /\ fieldForm.type # "none" /\ fieldForm.dbType # ""
  /\ fieldForm.type = "select" => OptionValues # <<>> /\ IsInjective(OptionValues)

Payload(id, pk, auto) ==
  [id |-> id, name |-> fieldForm.name, type |-> fieldForm.type, dbType |-> fieldForm.dbType,
   pk |-> pk, auto |-> auto, options |-> IF fieldForm.type = "select" THEN OptionValues ELSE <<>>]

(* handleSubmitField, handleSubmitUpdateField.  The modal fades away, its  *)
(* button can be pressed a moment longer.                                  *)
SubmitsField ==
  /\ Click /\ fieldForm.at # "closed" /\ Acceptable
  /\ IF fieldForm.id = NoId
     THEN /\ Len(newFields) < MaxNewFields + 1
          /\ newFields' = Append(newFields, Payload(newCount, FALSE, FALSE))
          /\ newCount' = newCount + 1 /\ doubled' = (doubled \/ fieldForm.at = "closing")
     ELSE /\ LET Set(f) == IF f.id = fieldForm.id THEN Payload(f.id, f.pk, f.auto) ELSE f
             IN MapFields(Set)
          /\ UNCHANGED <<newCount, doubled>>
  /\ fieldForm' = [fieldForm EXCEPT !.at = "closing"]
  /\ UNCHANGED <<advanced, submitting, recounted>>

ClosesFieldForm ==
  /\ fieldForm.at # "closed" /\ fieldForm' = ClosedFieldForm
  /\ UNCHANGED <<newFields, newCount, advanced, submitting, recounted, doubled, clicks>>

-----------------------------------------------------------------------------
(* submit of CreateTableModal, and its answer: resetInputs, or nothing     *)
SubmitsTable ==
  /\ Click /\ fieldForm.at = "closed" /\ newFields # <<>> /\ PrimaryKeys # {}
  /\ submitting' = TRUE
  /\ UNCHANGED <<newFields, newCount, advanced, fieldForm, recounted, doubled>>

TableCreated ==
  /\ submitting /\ submitting' = FALSE
  /\ \/ /\ newFields' = FirstFields /\ newCount' = 1 /\ clicks' = 0
        /\ recounted' = FALSE /\ doubled' = FALSE
        /\ UNCHANGED <<advanced, fieldForm>>
     \/ UNCHANGED <<newFields, newCount, advanced, fieldForm, recounted, doubled, clicks>>

(* The page is left and opened again.                                      *)
VisitNewTable ==
  /\ clicks > 0 /\ ~ submitting
  /\ newFields' = FirstFields /\ newCount' = 1 /\ clicks' = 0 /\ advanced' = FALSE
  /\ fieldForm' = ClosedFieldForm /\ recounted' = FALSE /\ doubled' = FALSE
  /\ UNCHANGED submitting

NewTableInit ==
  /\ newFields = FirstFields /\ newCount = 1 /\ clicks = 0 /\ advanced = FALSE
  /\ fieldForm = ClosedFieldForm /\ submitting = FALSE /\ recounted = FALSE /\ doubled = FALSE

CreateTableFields ==
  \/ ReordersNew \/ TogglesPrimaryKey \/ TogglesAutoIncrement \/ RemovesNew \/ OpensFieldForm

CreateTableAddField ==
  \/ NamesField \/ ChoosesType \/ ChangesDataType \/ ChangesOptions
  \/ SubmitsField \/ ClosesFieldForm

NewTableNext ==
  \/ CreateTableFields \/ TogglesAdvanced \/ CreateTableAddField
  \/ SubmitsTable \/ TableCreated \/ VisitNewTable

NewTableSpec == NewTableInit /\ [][NewTableNext]_newTableVars

-----------------------------------------------------------------------------
(* A key that increments by itself is the only key of the table, in        *)
(* whatever order keys were set, unset, updated and removed.               *)
OneIncrementing ==
  (\E i \in PrimaryKeys : newFields[i].auto) => Cardinality(PrimaryKeys) = 1

(* Two fields with one name have one id, and so are changed and removed    *)
(* together, unless "Add Field" was pressed twice.                         *)
SameNameSameId ==
  ~ doubled => \A i, j \in DOMAIN newFields :
    newFields[i].name = newFields[j].name => newFields[i].id = newFields[j].id

(* Ids tell apart what they number until a counter begins again, except    *)
(* that Name and the first field added share 1.                            *)
IdsDistinct ==
  /\ ~ recounted => \A i, j \in DOMAIN newFields :
       i # j /\ newFields[i].id = newFields[j].id => newFields[i].id = 1
  /\ ~ fieldForm.optionsKept => \A i, j \in DOMAIN fieldForm.options :
       i # j => fieldForm.options[i].id # fieldForm.options[j].id
=============================================================================
