-------------------------- MODULE ClientRecordModal -------------------------
(***************************************************************************)
(* The modal of one record in the web client, SingleRecordModal, and the   *)
(* inputs of its fields, RecordItemValue.                                  *)
(*                                                                         *)
(* The modal opens with the values of the grid and asks twice for newer    *)
(* ones: it synchronizes the record and it fetches it.  Either answer      *)
(* replaces what the modal holds while the user types; an input the user   *)
(* has changed keeps its text and offers the new value beside it.  An      *)
(* input that is mounted enters its own value, as if the user had: when    *)
(* the modal opens that is undone, when its hidden fields are shown later  *)
(* it is not.                                                              *)
(***************************************************************************)
EXTENDS Naturals, Sequences, FiniteSets

CONSTANTS
  Fields,     \* fields of the record that can be edited
  Selects,    \* those of the type single select
  Hidden,     \* those the view hides, which the modal shows on demand
  Texts,      \* their values
  None,       \* no value
  Linked,     \* records reachable through connections, and this one
  Root,
  MaxTyped    \* bound: changes of inputs while the modal is open

ASSUME ModalAssumption ==
  /\ Selects \subseteq Fields /\ Hidden \subseteq Fields /\ Root \in Linked
  /\ None \notin Texts /\ None \notin Linked /\ Texts # {} /\ MaxTyped \in Nat

VARIABLES
  record,     \* the record on the server
  modal,      \* "closed", "loading" without connections, "open", or
              \* "confirm", the question before a deletion
  disclosed,  \* are the hidden fields shown?
  items,      \* state "record" of the modal: values and their updated flags
  inputs,     \* state of each RecordItemValue
  syncing,    \* the answer of sync_record: "no", "asked" or "done"
  remote,     \* the fetch of the record: "no", "asked" or "done"
  includePii, \* are fields with personal information shown?
  sent,       \* the update under way, None if there is none
  openedRecords, \* useRecordsModalState: the chain of linked records
  typed,      \* history: what the user entered last in each input
  wrote,      \* history: what an input entered itself since, None if nothing
  settled,    \* history: inputs whose offer was answered since they rendered
  kept,       \* history: inputs whose offer the user declined last
  typedCount  \* bounded

formVars == <<items, inputs, disclosed, typed, wrote, settled, kept, typedCount>>
modalVars == <<record, modal, formVars, syncing, remote, includePii, sent, openedRecords>>

Written == Fields \ Selects   \* fields whose input keeps a text of its own
Item == [value : Texts, updated : BOOLEAN]
FieldInput == [value : Texts, first : Texts, offered : Texts \cup {None}]

ModalTypeOK ==
  /\ record \in [Fields -> Texts]
  /\ modal \in {"closed", "loading", "open", "confirm"} /\ disclosed \in BOOLEAN
  /\ items \in [Fields -> Item] /\ inputs \in [Written -> FieldInput]
  /\ syncing \in {"no", "asked"} /\ remote \in {"no", "asked"}
  /\ includePii \in BOOLEAN
  /\ \A f \in Fields : sent # None => sent[f] \in Texts \cup {None}
  /\ openedRecords \in Seq(Linked)
  /\ typed \in [Fields -> Texts \cup {None}] /\ wrote \in [Fields -> Texts \cup {None}]
  /\ settled \subseteq Written /\ kept \subseteq Written
  /\ typedCount \in 0..MaxTyped

\* The fields whose inputs are mounted
FieldsMounted ==
  {f \in Fields : modal \notin {"closed", "loading"} /\ (f \in Hidden => disclosed)}

-----------------------------------------------------------------------------
(* Mutant: an input the user has changed keeps its text and offers nothing. *)
RenderedQuietly(its, ins) ==
  [f \in Written |->
     IF f \in FieldsMounted /\ ins[f].value = ins[f].first
     THEN [ins[f] EXCEPT !.value = its[f].value] ELSE ins[f]]

(* What the effect on item does in every mounted input once the modal      *)
(* renders its record: an input still at its first value follows, another  *)
(* one offers.                                                             *)
Rendered(its, ins) ==
  [f \in Written |->
     IF f \notin FieldsMounted \/ its[f].value = ins[f].value THEN ins[f]
     ELSE IF ins[f].value = ins[f].first THEN [ins[f] EXCEPT !.value = its[f].value]
     ELSE [ins[f] EXCEPT !.offered = its[f].value]]

(* Mutant: the modal takes over only the fields it does not hide. *)
ArrivedShown(values) == [f \in Fields \ Hidden |-> [value |-> values[f], updated |-> FALSE]]

(* Mutant: values that arrive go through handleRecordInputChange. *)
ArrivedUpdated(values) == [f \in Fields |-> [value |-> values[f], updated |-> TRUE]]

FreshInput(v) == [value |-> v, first |-> v, offered |-> None]
Same(v) == [f \in Fields |-> v]
Blank == CHOOSE t \in Texts : TRUE
BlankInput == FreshInput(Blank)

(* setRecord(initialRecord.map(...)): the items have no updated flag.      *)
Arrived(values) == [f \in Fields |-> [value |-> values[f], updated |-> FALSE]]

(* handleExpandRecord of CellMenu, and the effects of a first render: what *)
(* the inputs enter is followed by the modal's own setRecord.  The grid    *)
(* may be behind the server.  Without connections nothing is rendered.     *)
ExpandRecord ==
  /\ modal = "closed" /\ sent = None
  /\ \E values \in [Fields -> Texts] :
       /\ items' = Arrived(values)
       /\ inputs' = [f \in Written |-> FreshInput(values[f])]
  /\ modal' \in {"open", "loading"} /\ syncing' = "asked" /\ remote' = "asked" /\ includePii' = FALSE
  /\ openedRecords' = <<Root>>
  /\ typed' = Same(None) /\ wrote' = Same(None) /\ disclosed' = FALSE
  /\ settled' = {} /\ kept' = {} /\ typedCount' = 0
  /\ UNCHANGED <<record, sent>>

(* Inputs that mount later: the effect on inputType enters the value of    *)
(* each with updateValue, which marks its item and renders all of them.    *)
Mounts(fs) ==
  /\ items' = [f \in Fields |-> [value |-> items[f].value, updated |-> f \in fs \/ items[f].updated]]
  /\ inputs' = Rendered(items', [f \in Written |-> IF f \in fs THEN FreshInput(items[f].value)
                                                   ELSE inputs[f]])
  /\ wrote' = [f \in Fields |-> IF f \in fs THEN items[f].value ELSE wrote[f]]
  /\ settled' = {} /\ kept' = kept \ fs

(* The connections of the table arrive and the modal renders.              *)
ConnectionsArrive ==
  /\ modal = "loading" /\ modal' = "open"
  /\ Mounts(Fields \ Hidden)
  /\ UNCHANGED <<record, disclosed, typed, typedCount, syncing, remote, includePii, sent,
                 openedRecords>>

(* The linked record on top hides the modal below it.                      *)
InForm == modal = "open" /\ Len(openedRecords) = 1

(* handleRecordInputChange; an input that is written, updateValue, sets    *)
(* its own text first.                                                     *)
EntersValue(f, v) ==
  /\ InForm /\ f \in FieldsMounted /\ typedCount < MaxTyped /\ typedCount' = typedCount + 1
  /\ v # IF f \in Written THEN inputs[f].value ELSE items[f].value
  /\ items' = [items EXCEPT ![f] = [value |-> v, updated |-> TRUE]]
  /\ inputs' = Rendered(items', IF f \in Written THEN [inputs EXCEPT ![f].value = v] ELSE inputs)
  /\ typed' = [typed EXCEPT ![f] = v] /\ wrote' = [wrote EXCEPT ![f] = None]
  /\ settled' = {} /\ kept' = kept \ {f}
  /\ UNCHANGED <<record, modal, disclosed, syncing, remote, includePii, sent, openedRecords>>

TypesText(f, v) == f \in Written /\ EntersValue(f, v)
ChoosesOption(f, v) == f \in Selects /\ EntersValue(f, v)

(* handleIgnoreNewChange, "Keep current change"                            *)
KeepsChange(f) ==
  /\ InForm /\ f \in FieldsMounted /\ inputs[f].offered # None
  /\ inputs' = [inputs EXCEPT ![f].offered = None]
  /\ settled' = settled \cup {f} /\ kept' = kept \cup {f}
  /\ UNCHANGED <<record, modal, items, disclosed, typed, wrote, typedCount, syncing, remote,
                 includePii, sent, openedRecords>>

(* handleApplyNewChange, "Apply change"                                    *)
AppliesChange(f) ==
  /\ InForm /\ f \in FieldsMounted /\ inputs[f].offered # None
  /\ inputs' = [inputs EXCEPT ![f].value = inputs[f].offered, ![f].offered = None]
  /\ settled' = settled \cup {f} /\ kept' = kept \ {f}
  /\ UNCHANGED <<record, modal, items, disclosed, typed, wrote, typedCount, syncing, remote,
                 includePii, sent, openedRecords>>

(* The button of the Disclosure "hidden fields" mounts their inputs and     *)
(* unmounts them with what they hold.                                      *)
ShowsHidden ==
  /\ InForm /\ Hidden # {} /\ ~ disclosed /\ disclosed' = TRUE
  /\ Mounts(Hidden)
  /\ UNCHANGED <<record, modal, typed, typedCount, syncing, remote, includePii, sent, openedRecords>>

HidesHidden ==
  /\ InForm /\ disclosed /\ disclosed' = FALSE
  /\ inputs' = [f \in Written |-> IF f \in Hidden THEN BlankInput ELSE inputs[f]]
  /\ kept' = kept \ Hidden
  /\ UNCHANGED <<record, modal, items, typed, wrote, settled, typedCount, syncing, remote,
                 includePii, sent, openedRecords>>

-----------------------------------------------------------------------------
(* A modal that closes is unmounted, and its state with it.                *)
Unmounts ==
  /\ modal' = "closed" /\ includePii' = FALSE /\ openedRecords' = <<>>
  /\ items' = Arrived(Same(Blank)) /\ inputs' = [f \in Written |-> BlankInput]
  /\ typed' = Same(None) /\ wrote' = Same(None) /\ disclosed' = FALSE
  /\ settled' = {} /\ kept' = {} /\ typedCount' = 0

Arrives ==
  /\ items' = Arrived(record)
  /\ inputs' = Rendered(items', inputs)
  /\ settled' = {} /\ UNCHANGED <<disclosed, typed, wrote, kept, typedCount>>

(* useSyncRecord: only an answer that says has_synced is looked at.        *)
Synced ==
  /\ syncing = "asked" /\ syncing' = "no"
  /\ IF modal # "closed" THEN Arrives \/ UNCHANGED formVars ELSE UNCHANGED formVars
  /\ UNCHANGED <<record, modal, remote, includePii, sent, openedRecords>>

(* The effect on remoteRecord, or a fetch that failed                      *)
RemoteArrives ==
  /\ remote = "asked" /\ remote' = "no"
  /\ IF modal # "closed" THEN Arrives \/ UNCHANGED formVars ELSE UNCHANGED formVars
  /\ UNCHANGED <<record, modal, syncing, includePii, sent, openedRecords>>

(* SWR fetches again, and handleViewPii changes the key of the record.     *)
Refetches ==
  /\ InForm /\ remote = "no"
  /\ remote' = "asked"
  /\ includePii' \in {includePii, TRUE}
  /\ UNCHANGED <<record, modal, formVars, syncing, sent, openedRecords>>

(* handleSubmit: the fields with the flag are sent and the modal closes.   *)
Data == [f \in Fields |-> IF items[f].updated THEN items[f].value ELSE None]

Submits ==
  /\ InForm /\ sent = None
  /\ sent' = Data
  /\ Unmounts
  /\ UNCHANGED <<record, syncing, remote>>

UpdateAnswered ==
  /\ sent # None
  /\ \/ record' = [f \in Fields |-> IF sent[f] = None THEN record[f] ELSE sent[f]]
     \/ UNCHANGED record
  /\ sent' = None
  /\ UNCHANGED <<modal, formVars, syncing, remote, includePii, openedRecords>>

(* handleDeleteRecord asks first; confirmDeleteRecord, Cancel and Escape   *)
(* close the modal.                                                        *)
AsksToDelete ==
  /\ InForm /\ modal' = "confirm"
  /\ UNCHANGED <<record, formVars, syncing, remote, includePii, sent, openedRecords>>

Declines ==
  /\ modal = "confirm" /\ modal' = "open"
  /\ UNCHANGED <<record, formVars, syncing, remote, includePii, sent, openedRecords>>

Closes ==
  /\ modal = "confirm" \/ InForm
  /\ Unmounts
  /\ UNCHANGED <<record, syncing, remote, sent>>

(* handleOpenRecord and handleToggleRecord: a record that is open already  *)
(* is not opened again, which ends a circle of connections.                *)
OpensLinked(r) ==
  /\ modal = "open" /\ \A i \in DOMAIN openedRecords : openedRecords[i] # r
  /\ openedRecords' = Append(openedRecords, r)
  /\ UNCHANGED <<record, modal, formVars, syncing, remote, includePii, sent>>

ClosesLinked ==
  /\ modal = "open" /\ Len(openedRecords) > 1
  /\ openedRecords' = SubSeq(openedRecords, 1, Len(openedRecords) - 1)
  /\ UNCHANGED <<record, modal, formVars, syncing, remote, includePii, sent>>

(* Other clients of the table                                              *)
RecordChanges ==
  /\ \E f \in Fields, v \in Texts : record' = [record EXCEPT ![f] = v]
  /\ UNCHANGED <<modal, formVars, syncing, remote, includePii, sent, openedRecords>>

ModalInit ==
  /\ record \in [Fields -> Texts]
  /\ modal = "closed" /\ includePii = FALSE /\ openedRecords = <<>>
  /\ items = Arrived(Same(Blank)) /\ inputs = [f \in Written |-> BlankInput]
  /\ typed = Same(None) /\ wrote = Same(None) /\ disclosed = FALSE
  /\ settled = {} /\ kept = {} /\ typedCount = 0
  /\ syncing = "no" /\ remote = "no" /\ sent = None

ModalUser ==
  \/ ExpandRecord \/ Submits \/ AsksToDelete \/ Declines \/ Closes
  \/ \E f \in Fields : \E v \in Texts : TypesText(f, v) \/ ChoosesOption(f, v)
  \/ \E f \in Written : KeepsChange(f) \/ AppliesChange(f)
  \/ ShowsHidden \/ HidesHidden
  \/ (\E r \in Linked : OpensLinked(r)) \/ ClosesLinked

ModalNext ==
  \/ ModalUser
  \/ ConnectionsArrive \/ Synced \/ RemoteArrives \/ Refetches \/ UpdateAnswered \/ RecordChanges

ModalSpec == ModalInit /\ [][ModalNext]_modalVars

-----------------------------------------------------------------------------
(* What was entered last in the input of a field, by the user or by the    *)
(* input itself when it was mounted after the modal had opened.            *)
LastEntered(f) == IF wrote[f] = None THEN typed[f] ELSE wrote[f]

(* An update sends of each field what was entered last in its input and    *)
(* nothing else: a value that arrived while the form was open, or that the *)
(* grid showed when it opened, never overwrites the record.                *)
SendsOnlyEntered ==
  [][Submits => \A f \in Fields : sent'[f] # None => sent'[f] = LastEntered(f)]_modalVars

(* The form never shows another value than it would save without offering  *)
(* that value, except where the user has just answered the offer.          *)
DifferenceOffered ==
  \A f \in Written \cap FieldsMounted : \/ inputs[f].value = items[f].value
                                  \/ inputs[f].offered = items[f].value
                                  \/ f \in settled

(* "Keep current change" (RecordItemValue.jsx:186): what the user keeps is *)
(* what the next update saves.                                             *)
KeptChangeSaved ==
  [][Submits => \A f \in kept : sent'[f] = inputs[f].value]_modalVars
=============================================================================
