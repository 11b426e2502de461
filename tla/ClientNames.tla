----------------------------- MODULE ClientNames ----------------------------
(***************************************************************************)
(* The names in the forms for a new table and a new field.  Each of the    *)
(* two inputs asks the server, a moment after the last key, whether its    *)
(* text is taken, and an error of the input keeps the form from being      *)
(* sent.  The alias also fills in the name, by the client's snake case;    *)
(* the server looks for an alias by its own.  A key clears the error of an *)
(* input before it is asked again, and only a change of the status of the  *)
(* question sets it.                                                       *)
(***************************************************************************)
EXTENDS Naturals, FiniteSets

CONSTANT MaxKeys   \* bound: keys and clicks in one visit of the page

ASSUME NamesAssumption == MaxKeys \in Nat

VARIABLES
  newKind,     \* what the form creates, "table" or "field"; it never changes
  aliasOf,     \* the server's tables by name: their alias, "" if there is none
  aliasInput,  \* the alias: text, error and its question
  nameInput,   \* the name in SQL, likewise
  formOpen,    \* is the form on the screen?
  nameShown,   \* advanced options are open, or a field type is chosen
  formStatus,  \* of useData: "idle" or "pending"
  creating,    \* the name and alias under way to the server, or Nothing
  freed,       \* history: did a name go away in this visit?
  keys         \* bounded

nameVars == <<newKind, aliasOf, aliasInput, nameInput, formOpen, nameShown,
              formStatus, creating, freed, keys>>

SqlNames == {"id", "new"}
NameTexts == {"", "1"} \cup SqlNames

\* toSnakeCase, which raises an error for a text without letters and digits
SnakeCase == [text \in {"", "Id", "id", "Id "} |-> IF text = "" THEN "" ELSE "id"]
AliasTexts == DOMAIN SnakeCase \cup {"?"}
OtherAliases == {"Id", "?"}   \* bound: the aliases that others give

\* snakecase of the server keeps blanks, as "_", and punctuation
Snakecased == [text \in AliasTexts |-> CASE text = "" -> ""
                                          [] text \in {"Id", "id"} -> "id"
                                          [] text = "Id " -> "id_"
                                          [] text = "?" -> "?"]

\* REQUIRED_VALIDATOR and SQL_IDENTIFIER_VALIDATOR
AliasError(text) == IF text = "" THEN "invalid" ELSE "none"
NameError(text) == IF text \in {"", "1"} THEN "invalid" ELSE "none"

\* find_by of the index actions: by alias or name, by name alone
NameTaken(text) == text \in SqlNames /\ aliasOf[text] # ""
AliasTaken(text) == \E n \in SqlNames : aliasOf[n] # "" /\ (aliasOf[n] = text \/ n = Snakecased[text])

Nothing == [name |-> "", alias |-> ""]
Blanked == [text |-> "", error |-> "none", status |-> "off", found |-> FALSE]
NamedInput(texts) ==
  [text : texts, error : {"none", "invalid", "checking", "taken"},
   status : {"off", "loading", "success", "error"}, found : BOOLEAN]

NamesTypeOK ==
  /\ newKind \in {"table", "field"} /\ aliasOf \in [SqlNames -> AliasTexts]
  /\ aliasInput \in NamedInput(AliasTexts) /\ nameInput \in NamedInput(NameTexts)
  /\ formOpen \in BOOLEAN /\ nameShown \in BOOLEAN
  /\ formStatus \in {"idle", "pending"} /\ creating \in [name : NameTexts, alias : AliasTexts]
  /\ freed \in BOOLEAN /\ keys \in 0..MaxKeys

-----------------------------------------------------------------------------
\* Mutant: an error stays, once it is there.
CheckedOnce(i) ==
  [i EXCEPT !.error = CASE i.error # "none" -> @
                        [] i.status = "success" /\ i.found -> "taken"
                        [] i.status = "loading" /\ i.text # "" -> "checking"
                        [] OTHER -> @]

\* Mutant: a name that is taken replaces "Still checking" only.
CheckedOver(i) ==
  [i EXCEPT !.error =
     CASE i.status = "success" /\ i.found /\ @ = "checking" -> "taken"
       [] i.status = "loading" /\ i.text # "" /\ @ = "none" -> "checking"
       [] i.status = "success" /\ ~ i.found /\ @ \in {"checking", "taken"} -> "none"
       [] OTHER -> @]

(* The effect on search.status: an error that is there stays, but for one  *)
(* of the search when the name is free.                                    *)
Checked(i) ==
  [i EXCEPT !.error =
     CASE i.status = "success" /\ i.found /\ @ = "none" -> "taken"
       [] i.status = "loading" /\ i.text # "" /\ @ = "none" -> "checking"
       [] i.status = "success" /\ ~ i.found /\ @ \in {"checking", "taken"} -> "none"
       [] OTHER -> @]

(* The dispatch of useValidState, and the question for the new text, which *)
(* aborts the one before; asked again while loading, the status stays.     *)
Entered(i, text, error) ==
  LET told == [i EXCEPT !.text = text, !.error = error]
      again == [told EXCEPT !.status = "loading", !.found = FALSE]
  IN IF i.status = "off" \/ text = i.text THEN told
     ELSE IF i.status = "loading" THEN again ELSE Checked(again)

Mounted(i) == Checked([i EXCEPT !.status = "loading", !.found = FALSE])
Unmounted(i) == [i EXCEPT !.status = "off", !.found = FALSE]

Key == formOpen /\ keys < MaxKeys /\ keys' = keys + 1

(* handleAliasChange: the name keeps its text when toSnakeCase fails.      *)
TypesAlias ==
  /\ Key
  /\ \E v \in AliasTexts \ {aliasInput.text} :
       /\ aliasInput' = Entered(aliasInput, v, AliasError(v))
       /\ nameInput' = IF v \notin DOMAIN SnakeCase THEN nameInput
                       ELSE Entered(nameInput, SnakeCase[v], NameError(SnakeCase[v]))
  /\ UNCHANGED <<newKind, aliasOf, formOpen, nameShown, formStatus, creating, freed>>

(* handleNameChange                                                        *)
TypesName ==
  /\ Key /\ nameShown
  /\ \E n \in NameTexts \ {nameInput.text} : nameInput' = Entered(nameInput, n, NameError(n))
  /\ UNCHANGED <<newKind, aliasOf, aliasInput, formOpen, nameShown, formStatus, creating, freed>>

(* The answer to the last question; an empty text is never asked for.      *)
Answered(i, isTaken) ==
  IF i.text = "" THEN {Checked([i EXCEPT !.status = "success"])}
  ELSE {Checked([i EXCEPT !.status = "success", !.found = isTaken]), [i EXCEPT !.status = "error"]}

AliasAnswered ==
  /\ aliasInput.status = "loading"
  /\ aliasInput' \in Answered(aliasInput, AliasTaken(aliasInput.text))
  /\ UNCHANGED <<newKind, aliasOf, nameInput, formOpen, nameShown, formStatus, creating, freed, keys>>

NameAnswered ==
  /\ nameInput.status = "loading"
  /\ nameInput' \in Answered(nameInput, NameTaken(nameInput.text))
  /\ UNCHANGED <<newKind, aliasOf, aliasInput, formOpen, nameShown, formStatus, creating, freed, keys>>

-----------------------------------------------------------------------------
(* The modal of a table keeps its inputs while it is closed; the form of a *)
(* field begins anew.                                                      *)
OpensForm ==
  /\ ~ formOpen /\ keys < MaxKeys /\ formOpen' = TRUE
  /\ aliasInput' = Mounted(aliasInput)
  /\ nameInput' = IF nameShown THEN Mounted(nameInput) ELSE nameInput
  /\ UNCHANGED <<newKind, aliasOf, nameShown, formStatus, creating, freed, keys>>

ClosedInputs ==
  IF newKind = "table"
  THEN /\ aliasInput' = Unmounted(aliasInput) /\ nameInput' = Unmounted(nameInput)
       /\ UNCHANGED <<nameShown, formStatus>>
  ELSE /\ aliasInput' = Blanked /\ nameInput' = Blanked
       /\ nameShown' = FALSE /\ formStatus' = "idle"

ClosesForm ==
  /\ Key /\ formOpen' = FALSE /\ ClosedInputs
  /\ UNCHANGED <<newKind, aliasOf, creating, freed>>

(* The advanced options of a table; the type chosen for a field, which     *)
(* handleSelectOption sets and handleClearOption clears                    *)
TogglesNameInput ==
  /\ Key /\ nameShown' = ~ nameShown
  /\ nameInput' = IF nameShown THEN Unmounted(nameInput) ELSE Mounted(nameInput)
  /\ UNCHANGED <<newKind, aliasOf, aliasInput, formOpen, formStatus, creating, freed>>

(* submit of CreateTableModal, handleSubmit of CreateField                 *)
SubmitsForm ==
  /\ Key /\ formStatus # "pending" /\ creating = Nothing
  /\ aliasInput.error = "none" /\ nameInput.error = "none" /\ aliasInput.text # ""
  /\ newKind = "field" => nameShown
  /\ formStatus' = "pending" /\ creating' = [name |-> nameInput.text, alias |-> aliasInput.text]
  /\ UNCHANGED <<newKind, aliasOf, aliasInput, nameInput, formOpen, nameShown, freed>>

(* The form of a table is emptied and closed, setTableName('', false)      *)
(* leaving the error; that of a field closes if it still is there.         *)
Created ==
  /\ creating.name \in SqlNames /\ ~ NameTaken(creating.name)
  /\ aliasOf' = [aliasOf EXCEPT ![creating.name] = creating.alias]
  /\ formStatus' = "idle" /\ formOpen' = FALSE
  /\ IF newKind = "table"
     THEN /\ aliasInput' = [Blanked EXCEPT !.error = aliasInput.error]
          /\ nameInput' = [Blanked EXCEPT !.error = nameInput.error]
          /\ UNCHANGED nameShown
     ELSE aliasInput' = Blanked /\ nameInput' = Blanked /\ nameShown' = FALSE

(* Without an answer the handler of the error fails, and pending remains.  *)
CreateAnswered ==
  /\ creating # Nothing /\ creating' = Nothing
  /\ \/ Created
     \/ /\ formStatus' \in {"idle", formStatus}
        /\ UNCHANGED <<aliasOf, aliasInput, nameInput, formOpen, nameShown>>
  /\ UNCHANGED <<newKind, freed, keys>>

(* Other users create, rename and drop tables or fields.                   *)
OthersCreate ==
  /\ \E n \in SqlNames, a \in OtherAliases : aliasOf' = [aliasOf EXCEPT ![n] = a]
  /\ UNCHANGED <<newKind, aliasInput, nameInput, formOpen, nameShown, formStatus, creating, freed, keys>>

OthersDrop ==
  /\ \E n \in SqlNames : NameTaken(n) /\ aliasOf' = [aliasOf EXCEPT ![n] = ""]
  /\ freed' = TRUE
  /\ UNCHANGED <<newKind, aliasInput, nameInput, formOpen, nameShown, formStatus, creating, keys>>

VisitNames ==
  /\ creating = Nothing /\ (keys > 0 \/ freed)
  /\ aliasInput' = Blanked /\ nameInput' = Blanked /\ formOpen' = FALSE
  /\ nameShown' = FALSE /\ formStatus' = "idle" /\ keys' = 0 /\ freed' = FALSE
  /\ UNCHANGED <<newKind, aliasOf, creating>>

NamesInit ==
  /\ newKind \in {"table", "field"} /\ aliasOf \in [SqlNames -> {""} \cup OtherAliases]
  /\ aliasInput = Blanked /\ nameInput = Blanked /\ formOpen = FALSE /\ nameShown = FALSE
  /\ formStatus = "idle" /\ creating = Nothing /\ freed = FALSE /\ keys = 0

CreateTableAlias == newKind = "table" /\ (TypesAlias \/ AliasAnswered)
CreateTableName == newKind = "table" /\ (TypesName \/ NameAnswered)
CreateFieldAlias == newKind = "field" /\ (TypesAlias \/ AliasAnswered)
CreateFieldName == newKind = "field" /\ (TypesName \/ NameAnswered)

CreateTableModal ==
  \/ CreateTableAlias \/ CreateTableName
  \/ newKind = "table" /\ (TogglesNameInput \/ SubmitsForm \/ ClosesForm)
CreateField ==
  \/ CreateFieldAlias \/ CreateFieldName
  \/ newKind = "field" /\ (TogglesNameInput \/ SubmitsForm \/ ClosesForm)

NamesNext ==
  \/ OpensForm \/ CreateTableModal \/ CreateField
  \/ CreateAnswered \/ OthersCreate \/ OthersDrop \/ VisitNames

NamesSpec == NamesInit /\ [][NamesNext]_nameVars

-----------------------------------------------------------------------------
(* Once its questions are answered, a form without an error has no text    *)
(* that the answers said is taken, although an alias that gives the same   *)
(* name again clears the error of the name: the alias is then taken, too,  *)
(* unless the table is gone by then or the server's snake case of the      *)
(* alias is another name than the client's.  An alias without a letter,    *)
(* which leaves the name as it was, is apart.                              *)
FreeWhenChecked ==
  /\ aliasInput.text \in DOMAIN SnakeCase
  /\ aliasInput.error = "none" /\ nameInput.error = "none"
  /\ aliasInput.status = "success" /\ nameInput.status \in {"success", "off"}
  => /\ ~ aliasInput.found
     /\ nameInput.found => freed \/ Snakecased[aliasInput.text] # nameInput.text

(* "Still checking" does not outlive the question, unless that failed, was *)
(* broken off with its input, or found the name.                           *)
CheckingEnds ==
  \A i \in {aliasInput, nameInput} :
    i.error = "checking" => i.status \in {"loading", "error", "off"} \/ i.found
=============================================================================
