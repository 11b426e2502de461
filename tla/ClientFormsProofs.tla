------------------------- MODULE ClientFormsProofs --------------------------
(***************************************************************************)
(* The forms of the client, for any fields, texts, names and guests: the   *)
(* modal of a record, the names and the fields of what is created, and the *)
(* permissions of a resource.                                              *)
(*                                                                         *)
(* Record: what is sent are the items with the updated flag.               *)
(* SendsOnlyEntered needs to know what such an item holds, FlaggedIsEntered; *)
(* DifferenceOffered is inductive, since every change of an item renders   *)
(* the inputs anew.  Names: a status tells of the text that was asked, so  *)
(* the answer under way and the text it is for belong to the invariant.    *)
(* New table: the ids of the list come from a counter that begins again,   *)
(* and the list's own checks keep names, keys and increments apart.        *)
(***************************************************************************)
EXTENDS ClientRecordModal, ClientNames, ClientNewTable, ClientPermissions, ClientListsProofs,
        TLAPS

FlaggedIsEntered == \A f \in Fields : items[f].updated => items[f].value = LastEntered(f)

ModalInv == ModalTypeOK /\ FlaggedIsEntered /\ DifferenceOffered

-----------------------------------------------------------------------------
(* Items and inputs                                                        *)

LEMMA ArrivedItems ==
  ASSUME NEW values \in [Fields -> Texts]
  PROVE  /\ Arrived(values) \in [Fields -> Item]
         /\ \A f \in Fields : ~ Arrived(values)[f].updated
BY DEF Arrived, Item

(* Whatever an input held, rendering keeps its type, and makes it show the *)
(* item or offer it where it is mounted; the others keep what they have.   *)
LEMMA RenderedInputs ==
  ASSUME NEW its \in [Fields -> Item], NEW ins \in [Written -> FieldInput]
  PROVE  /\ Rendered(its, ins) \in [Written -> FieldInput]
         /\ \A f \in Written \cap FieldsMounted : \/ Rendered(its, ins)[f].value = its[f].value
                                           \/ Rendered(its, ins)[f].offered = its[f].value
         /\ \A f \in Written : ins[f].value = its[f].value => Rendered(its, ins)[f] = ins[f]
<1>1. ASSUME NEW f \in Written
      PROVE  /\ Rendered(its, ins)[f] \in FieldInput
             /\ f \in FieldsMounted => \/ Rendered(its, ins)[f].value = its[f].value
                                \/ Rendered(its, ins)[f].offered = its[f].value
      <2> DEFINE m == f \in FieldsMounted
      <2> HIDE DEF m
      <2>1. its[f].value \in Texts /\ ins[f] \in FieldInput
            BY DEF Written, Item
      <2>2. CASE ~ m \/ its[f].value = ins[f].value
            BY <2>1, <2>2 DEF Rendered, FieldInput, m
      <2>3. CASE m /\ its[f].value # ins[f].value /\ ins[f].value = ins[f].first
            BY <2>1, <2>3 DEF Rendered, FieldInput, m
      <2>4. CASE m /\ its[f].value # ins[f].value /\ ins[f].value # ins[f].first
            BY <2>1, <2>4 DEF Rendered, FieldInput, m
      <2> QED BY <2>2, <2>3, <2>4
<1>2. \A f \in Written : ins[f].value = its[f].value => Rendered(its, ins)[f] = ins[f]
      BY DEF Rendered
<1> QED BY <1>1, <1>2 DEF Rendered

LEMMA BlankForm ==
  /\ Arrived(Same(Blank)) \in [Fields -> Item]
  /\ \A f \in Fields : ~ Arrived(Same(Blank))[f].updated
  /\ [f \in Written |-> BlankInput] \in [Written -> FieldInput]
  /\ Same(None) \in [Fields -> Texts \cup {None}]
<1>1. Blank \in Texts
      BY ModalAssumption DEF Blank
<1>2. Same(Blank) \in [Fields -> Texts] /\ BlankInput \in FieldInput
      BY <1>1 DEF Same, BlankInput, FreshInput, FieldInput
<1> QED BY <1>2, ArrivedItems DEF Same

(* What the steps that replace the whole form leave.                       *)
FormHolds ==
  /\ items \in [Fields -> Item] /\ inputs \in [Written -> FieldInput]
  /\ disclosed \in BOOLEAN
  /\ typed \in [Fields -> Texts \cup {None}] /\ wrote \in [Fields -> Texts \cup {None}]
  /\ settled \subseteq Written /\ kept \subseteq Written
  /\ typedCount \in 0..MaxTyped
  /\ FlaggedIsEntered

LEMMA UnmountsForm == ASSUME Unmounts PROVE FormHolds'
<1>1. typedCount' \in 0..MaxTyped
      BY ModalAssumption DEF Unmounts
<1> QED BY <1>1, BlankForm DEF Unmounts, FormHolds, FlaggedIsEntered

LEMMA ArrivesInForm ==
  ASSUME ModalInv, Arrives, UNCHANGED modal
  PROVE  FormHolds' /\ DifferenceOffered'
<1>1. items' \in [Fields -> Item] /\ \A f \in Fields : ~ items'[f].updated
      BY ArrivedItems DEF Arrives, ModalInv, ModalTypeOK
<1>2. /\ inputs' \in [Written -> FieldInput]
      /\ \A f \in Written \cap FieldsMounted : \/ inputs'[f].value = items'[f].value
                                        \/ inputs'[f].offered = items'[f].value
      BY <1>1, RenderedInputs DEF Arrives, ModalInv, ModalTypeOK
<1>3. FormHolds'
      BY <1>1, <1>2 DEF Arrives, ModalInv, ModalTypeOK, FormHolds, FlaggedIsEntered
<1>4. FieldsMounted' = FieldsMounted
      BY DEF Arrives, FieldsMounted
<1> QED BY <1>2, <1>3, <1>4 DEF DifferenceOffered

-----------------------------------------------------------------------------
LEMMA ModalInitInv == ModalInit => ModalInv
<1> SUFFICES ASSUME ModalInit PROVE ModalInv
    OBVIOUS
<1>1. typedCount \in 0..MaxTyped
      BY ModalAssumption DEF ModalInit
<1>2. openedRecords \in Seq(Linked)
      BY EmptySeq DEF ModalInit
<1>3. ModalTypeOK
      BY <1>1, <1>2, BlankForm DEF ModalInit, ModalTypeOK
<1>4. FieldsMounted = {}
      BY DEF ModalInit, FieldsMounted
<1> QED BY <1>3, <1>4, BlankForm DEF ModalInit, ModalInv, FlaggedIsEntered, DifferenceOffered

(* The steps that leave the form and what it was made from as it is.       *)
LEMMA FormStays ==
  ASSUME ModalInv, UNCHANGED formVars,
         modal' \in {"closed", "loading"} \/ modal \notin {"closed", "loading"}
  PROVE  FormHolds' /\ DifferenceOffered'
<1>1. FormHolds'
      BY DEF ModalInv, ModalTypeOK, FormHolds, FlaggedIsEntered, LastEntered, formVars
<1>2. FieldsMounted' \subseteq FieldsMounted
      BY DEF FieldsMounted, formVars
<1> QED BY <1>1, <1>2 DEF ModalInv, DifferenceOffered, formVars

(* The user: opening, typing, answering an offer.                          *)
LEMMA TypingKeeps ==
  ASSUME ModalInv, NEW f \in Fields, NEW v \in Texts, EntersValue(f, v)
  PROVE  ModalInv'
<1> DEFINE ins == IF f \in Written THEN [inputs EXCEPT ![f].value = v] ELSE inputs
<1>1. items' \in [Fields -> Item]
      BY DEF EntersValue, ModalInv, ModalTypeOK, Item
<1>2. ins \in [Written -> FieldInput]
      BY DEF ModalInv, ModalTypeOK, FieldInput
<1>3. inputs' = Rendered(items', ins)
      BY DEF EntersValue
<1> HIDE DEF ins
<1>4. /\ inputs' \in [Written -> FieldInput]
      /\ \A g \in Written \cap FieldsMounted : \/ inputs'[g].value = items'[g].value
                                        \/ inputs'[g].offered = items'[g].value
      BY <1>1, <1>2, <1>3, RenderedInputs
<1>5. typedCount' \in 0..MaxTyped
      BY ModalAssumption DEF EntersValue, ModalInv, ModalTypeOK
<1>6. /\ typed' \in [Fields -> Texts \cup {None}] /\ wrote' \in [Fields -> Texts \cup {None}]
      /\ disclosed' \in BOOLEAN /\ settled' \subseteq Written /\ kept' \subseteq Written
      BY DEF EntersValue, ModalInv, ModalTypeOK
<1>7. FlaggedIsEntered'
      <2>1. /\ items'[f].value = v /\ typed'[f] = v /\ wrote'[f] = None
            /\ \A g \in Fields \ {f} : /\ items'[g] = items[g]
                                       /\ typed'[g] = typed[g] /\ wrote'[g] = wrote[g]
            BY DEF EntersValue, ModalInv, ModalTypeOK
      <2> QED BY <2>1 DEF ModalInv, FlaggedIsEntered, LastEntered
<1>8. FieldsMounted' = FieldsMounted
      BY DEF EntersValue, FieldsMounted
<1>9. FormHolds' /\ DifferenceOffered'
      BY <1>1, <1>4, <1>5, <1>6, <1>7, <1>8 DEF FormHolds, DifferenceOffered
<1> QED BY <1>9 DEF EntersValue, ModalInv, ModalTypeOK, FormHolds

LEMMA OfferAnswered ==
  ASSUME ModalInv, NEW f \in Written, KeepsChange(f) \/ AppliesChange(f)
  PROVE  ModalInv'
<1>1. /\ inputs' \in [Written -> FieldInput]
      /\ \A g \in Written \ {f} : inputs'[g] = inputs[g]
      <2>1. CASE KeepsChange(f)
            BY <2>1 DEF KeepsChange, ModalInv, ModalTypeOK, FieldInput
      <2>2. CASE AppliesChange(f)
            <3>1. inputs[f].offered \in Texts
                  BY <2>2 DEF AppliesChange, ModalInv, ModalTypeOK, FieldInput
            <3> QED BY <2>2, <3>1 DEF AppliesChange, ModalInv, ModalTypeOK, FieldInput
      <2> QED BY <2>1, <2>2
<1>2. /\ settled' = settled \cup {f} /\ settled' \subseteq Written /\ kept' \subseteq Written
      /\ UNCHANGED <<record, modal, items, disclosed, typed, wrote, typedCount, syncing, remote,
                     includePii, sent, openedRecords>>
      BY DEF KeepsChange, AppliesChange, ModalInv, ModalTypeOK
<1>3. FormHolds'
      BY <1>1, <1>2 DEF ModalInv, ModalTypeOK, FormHolds, FlaggedIsEntered, LastEntered
<1>4. DifferenceOffered'
      BY <1>1, <1>2 DEF ModalInv, DifferenceOffered, FieldsMounted
<1> QED BY <1>2, <1>3, <1>4 DEF ModalInv, ModalTypeOK, FormHolds

(* Inputs that mount show their items, and what they enter is recorded.    *)
LEMMA MountsInForm ==
  ASSUME ModalInv, NEW fs \in SUBSET Fields, Mounts(fs), UNCHANGED <<typed, typedCount>>,
         disclosed' \in BOOLEAN, FieldsMounted' \subseteq FieldsMounted \cup fs
  PROVE  FormHolds' /\ DifferenceOffered'
<1> DEFINE ins == [f \in Written |-> IF f \in fs THEN FreshInput(items[f].value) ELSE inputs[f]]
<1>1. /\ items' \in [Fields -> Item] /\ wrote' \in [Fields -> Texts \cup {None}]
      /\ \A f \in Fields : items'[f].value = items[f].value
      BY DEF Mounts, ModalInv, ModalTypeOK, Item
<1>2. ins \in [Written -> FieldInput]
      BY DEF ModalInv, ModalTypeOK, Item, FieldInput, FreshInput, Written
<1>3. inputs' = Rendered(items', ins)
      BY DEF Mounts
<1>4. \A f \in Written \cap fs : ins[f].value = items'[f].value
      BY <1>1 DEF FreshInput, Written
<1> HIDE DEF ins
<1>5. /\ inputs' \in [Written -> FieldInput]
      /\ \A f \in Written \cap FieldsMounted : \/ inputs'[f].value = items'[f].value
                                        \/ inputs'[f].offered = items'[f].value
      /\ \A f \in Written \cap fs : inputs'[f] = ins[f]
      BY <1>1, <1>2, <1>3, <1>4, RenderedInputs
<1>6. DifferenceOffered'
      BY <1>4, <1>5 DEF DifferenceOffered
<1>7. FlaggedIsEntered'
      <2>1. ASSUME NEW f \in Fields, items'[f].updated PROVE items'[f].value = LastEntered(f)'
            <3>1. CASE f \in fs
                  <4>1. wrote'[f] = items[f].value /\ items[f].value \in Texts
                        BY <3>1 DEF Mounts, ModalInv, ModalTypeOK, Item
                  <4> QED BY <1>1, <4>1, ModalAssumption DEF LastEntered
            <3>2. CASE f \notin fs
                  <4>1. items[f].updated /\ wrote'[f] = wrote[f]
                        BY <2>1, <3>2 DEF Mounts
                  <4> QED BY <1>1, <4>1 DEF ModalInv, FlaggedIsEntered, LastEntered
            <3> QED BY <3>1, <3>2
      <2> QED BY <2>1 DEF FlaggedIsEntered
<1> QED BY <1>1, <1>5, <1>6, <1>7 DEF Mounts, ModalInv, ModalTypeOK, FormHolds

LEMMA HiddenKeeps == ASSUME ModalInv, ShowsHidden \/ HidesHidden PROVE ModalInv'
<1>1. CASE ShowsHidden
      <2>1. FieldsMounted' \subseteq FieldsMounted \cup Hidden /\ Hidden \subseteq Fields
            BY <1>1, ModalAssumption DEF ShowsHidden, FieldsMounted
      <2>2. FormHolds' /\ DifferenceOffered'
            BY <1>1, <2>1, MountsInForm DEF ShowsHidden
      <2> QED BY <1>1, <2>2 DEF ShowsHidden, ModalInv, ModalTypeOK, FormHolds
<1>2. CASE HidesHidden
      <2>1. inputs' \in [Written -> FieldInput] /\ kept' \subseteq Written
            <3>1. BlankInput \in FieldInput
                  BY ModalAssumption DEF BlankInput, FreshInput, FieldInput, Blank
            <3> QED BY <1>2, <3>1 DEF HidesHidden, ModalInv, ModalTypeOK
      <2>2. /\ FieldsMounted' \subseteq FieldsMounted \ Hidden
            /\ \A f \in Written \ Hidden : inputs'[f] = inputs[f]
            BY <1>2 DEF HidesHidden, FieldsMounted
      <2>3. DifferenceOffered'
            BY <1>2, <2>2 DEF HidesHidden, ModalInv, DifferenceOffered
      <2>4. FormHolds'
            BY <1>2, <2>1 DEF HidesHidden, ModalInv, ModalTypeOK, FormHolds, FlaggedIsEntered, LastEntered
      <2> QED BY <1>2, <2>3, <2>4 DEF HidesHidden, ModalInv, ModalTypeOK, FormHolds
<1> QED BY <1>1, <1>2

LEMMA ModalUserKeeps == ASSUME ModalInv, ModalUser PROVE ModalInv'
<1>1. CASE ExpandRecord
      <2>1. PICK values \in [Fields -> Texts] :
              /\ items' = Arrived(values)
              /\ inputs' = [f \in Written |-> FreshInput(values[f])]
            BY <1>1 DEF ExpandRecord
      <2>2. items' \in [Fields -> Item] /\ \A f \in Fields : ~ items'[f].updated
            BY <2>1, ArrivedItems
      <2>3. inputs' \in [Written -> FieldInput]
            BY <2>1 DEF Written, FreshInput, FieldInput
      <2>4. \A f \in Written : inputs'[f].value = items'[f].value
            BY <2>1 DEF Written, FreshInput, Arrived
      <2>5. typedCount' \in 0..MaxTyped
            BY <1>1, ModalAssumption DEF ExpandRecord
      <2>6. openedRecords' \in Seq(Linked)
            <3>1. openedRecords' = Append(<<>>, Root) /\ Root \in Linked
                  BY <1>1, ModalAssumption DEF ExpandRecord
            <3> QED BY <3>1, EmptySeq, AppendProperties
      <2>7. typed' \in [Fields -> Texts \cup {None}] /\ wrote' \in [Fields -> Texts \cup {None}]
            BY <1>1 DEF ExpandRecord, Same
      <2>8. FormHolds' /\ DifferenceOffered'
            BY <1>1, <2>2, <2>3, <2>4, <2>5, <2>7 DEF ExpandRecord, FormHolds, FlaggedIsEntered,
               DifferenceOffered
      <2>9. includePii' \in BOOLEAN
            BY <1>1 DEF ExpandRecord
      <2> QED BY <1>1, <2>6, <2>8, <2>9 DEF ExpandRecord, ModalInv, ModalTypeOK, FormHolds
<1>2. CASE Submits
      <2>1. FormHolds' /\ DifferenceOffered'
            BY <1>2, UnmountsForm DEF Submits, Unmounts, DifferenceOffered, FieldsMounted
      <2>2. \A f \in Fields : sent'[f] \in Texts \cup {None}
            BY <1>2 DEF Submits, Data, ModalInv, ModalTypeOK, Item
      <2>3. openedRecords' \in Seq(Linked) /\ includePii' \in BOOLEAN
            BY <1>2, EmptySeq DEF Submits, Unmounts
      <2> QED BY <1>2, <2>1, <2>2, <2>3 DEF Submits, Unmounts, ModalInv, ModalTypeOK, FormHolds
<1>3. CASE AsksToDelete
      <2>1. FormHolds' /\ DifferenceOffered'
            BY <1>3, FormStays DEF AsksToDelete, InForm
      <2> QED BY <1>3, <2>1 DEF AsksToDelete, ModalInv, ModalTypeOK, FormHolds
<1>4. CASE Declines
      <2>1. FormHolds' /\ DifferenceOffered'
            BY <1>4, FormStays DEF Declines
      <2> QED BY <1>4, <2>1 DEF Declines, ModalInv, ModalTypeOK, FormHolds
<1>5. CASE Closes
      <2>1. FormHolds' /\ DifferenceOffered'
            BY <1>5, UnmountsForm DEF Closes, Unmounts, DifferenceOffered, FieldsMounted
      <2>2. openedRecords' \in Seq(Linked) /\ includePii' \in BOOLEAN
            BY <1>5, EmptySeq DEF Closes, Unmounts
      <2> QED BY <1>5, <2>1, <2>2 DEF Closes, Unmounts, ModalInv, ModalTypeOK, FormHolds
<1>6. ASSUME NEW f \in Fields, NEW v \in Texts, TypesText(f, v) \/ ChoosesOption(f, v)
      PROVE  ModalInv'
      BY <1>6, TypingKeeps DEF TypesText, ChoosesOption
<1>7. ASSUME NEW f \in Written, KeepsChange(f) \/ AppliesChange(f) PROVE ModalInv'
      BY <1>7, OfferAnswered
<1>8. ASSUME NEW r \in Linked, OpensLinked(r) PROVE ModalInv'
      <2>1. FormHolds' /\ DifferenceOffered'
            BY <1>8, FormStays DEF OpensLinked
      <2>2. openedRecords' \in Seq(Linked)
            BY <1>8, AppendProperties DEF OpensLinked, ModalInv, ModalTypeOK
      <2> QED BY <1>8, <2>1, <2>2 DEF OpensLinked, ModalInv, ModalTypeOK, FormHolds
<1>9. CASE ClosesLinked
      <2>1. FormHolds' /\ DifferenceOffered'
            BY <1>9, FormStays DEF ClosesLinked
      <2>2. openedRecords' \in Seq(Linked)
            <3>1. Len(openedRecords) - 1 \in 1..Len(openedRecords)
                  BY <1>9, LenProperties DEF ClosesLinked, ModalInv, ModalTypeOK
            <3> QED BY <1>9, <3>1 DEF ClosesLinked, ModalInv, ModalTypeOK
      <2> QED BY <1>9, <2>1, <2>2 DEF ClosesLinked, ModalInv, ModalTypeOK, FormHolds
<1>10. CASE ShowsHidden \/ HidesHidden
      BY <1>10, HiddenKeeps
<1> QED BY <1>1, <1>2, <1>3, <1>4, <1>5, <1>6, <1>7, <1>8, <1>9, <1>10 DEF ModalUser

(* The modal opens with its hidden fields hidden.                          *)
Folded == modal \in {"closed", "loading"} => ~ disclosed

LEMMA FoldedKeeps == Folded /\ [ModalNext]_modalVars => Folded'
<1> SUFFICES ASSUME Folded, [ModalNext]_modalVars PROVE Folded'
    OBVIOUS
<1> USE DEF Folded
<1>1. CASE ExpandRecord \/ Submits \/ Closes
      BY <1>1 DEF ExpandRecord, Submits, Closes, Unmounts
<1>2. CASE AsksToDelete \/ Declines \/ ShowsHidden \/ HidesHidden \/ ConnectionsArrive
      BY <1>2 DEF AsksToDelete, Declines, ShowsHidden, HidesHidden, ConnectionsArrive, InForm
<1>3. ASSUME NEW f \in Fields, NEW v \in Texts, TypesText(f, v) \/ ChoosesOption(f, v)
      PROVE  Folded'
      BY <1>3 DEF TypesText, ChoosesOption, EntersValue, InForm
<1>4. ASSUME NEW f \in Written, KeepsChange(f) \/ AppliesChange(f) PROVE Folded'
      BY <1>4 DEF KeepsChange, AppliesChange, InForm
<1>5. CASE (\E r \in Linked : OpensLinked(r)) \/ ClosesLinked
      BY <1>5 DEF OpensLinked, ClosesLinked
<1>6. CASE Synced \/ RemoteArrives \/ Refetches
      BY <1>6 DEF Synced, RemoteArrives, Refetches, Arrives, formVars
<1>7. CASE UpdateAnswered \/ RecordChanges \/ UNCHANGED modalVars
      BY <1>7 DEF UpdateAnswered, RecordChanges, modalVars, formVars
<1> QED BY <1>1, <1>2, <1>3, <1>4, <1>5, <1>6, <1>7 DEF ModalNext, ModalUser

(* The answers of the server, and other clients.                           *)
LEMMA ModalServerKeeps ==
  ASSUME ModalInv, Folded,
         \/ ConnectionsArrive \/ Synced \/ RemoteArrives \/ Refetches
         \/ UpdateAnswered \/ RecordChanges
  PROVE  ModalInv'
<1>1. CASE Synced
      <2>1. FormHolds' /\ DifferenceOffered'
            BY <1>1, ArrivesInForm, FormStays DEF Synced
      <2> QED BY <1>1, <2>1 DEF Synced, ModalInv, ModalTypeOK, FormHolds
<1>2. CASE RemoteArrives
      <2>1. FormHolds' /\ DifferenceOffered'
            BY <1>2, ArrivesInForm, FormStays DEF RemoteArrives
      <2> QED BY <1>2, <2>1 DEF RemoteArrives, ModalInv, ModalTypeOK, FormHolds
<1>3. CASE Refetches
      <2>1. FormHolds' /\ DifferenceOffered'
            BY <1>3, FormStays DEF Refetches
      <2>2. includePii' \in BOOLEAN
            BY <1>3 DEF Refetches, ModalInv, ModalTypeOK
      <2> QED BY <1>3, <2>1, <2>2 DEF Refetches, ModalInv, ModalTypeOK, FormHolds
<1>4. CASE UpdateAnswered
      <2>1. FormHolds' /\ DifferenceOffered'
            BY <1>4, FormStays DEF UpdateAnswered
      <2>2. record' \in [Fields -> Texts]
            BY <1>4 DEF UpdateAnswered, ModalInv, ModalTypeOK
      <2> QED BY <1>4, <2>1, <2>2 DEF UpdateAnswered, ModalInv, ModalTypeOK, FormHolds
<1>5. CASE RecordChanges
      <2>1. FormHolds' /\ DifferenceOffered'
            BY <1>5, FormStays DEF RecordChanges
      <2>2. record' \in [Fields -> Texts]
            BY <1>5 DEF RecordChanges, ModalInv, ModalTypeOK
      <2> QED BY <1>5, <2>1, <2>2 DEF RecordChanges, ModalInv, ModalTypeOK, FormHolds
<1>6. CASE ConnectionsArrive
      <2>1. FieldsMounted' \subseteq FieldsMounted \cup (Fields \ Hidden) /\ disclosed' \in BOOLEAN
            BY <1>6 DEF ConnectionsArrive, FieldsMounted, Folded, ModalInv, ModalTypeOK
      <2>2. FormHolds' /\ DifferenceOffered'
            BY <1>6, <2>1, MountsInForm DEF ConnectionsArrive
      <2> QED BY <1>6, <2>2 DEF ConnectionsArrive, ModalInv, ModalTypeOK, FormHolds
<1> QED BY <1>1, <1>2, <1>3, <1>4, <1>5, <1>6

LEMMA ModalNextKeeps == ModalInv /\ Folded /\ [ModalNext]_modalVars => ModalInv'
<1>1. ASSUME ModalInv, UNCHANGED modalVars PROVE ModalInv'
      <2>1. FormHolds' /\ DifferenceOffered'
            BY <1>1, FormStays DEF modalVars
      <2> QED BY <1>1, <2>1 DEF modalVars, ModalInv, ModalTypeOK, FormHolds
<1> QED BY <1>1, ModalUserKeeps, ModalServerKeeps DEF ModalNext

LEMMA ModalInvAlways == ModalSpec => []ModalInv
<1>1. ModalInit => Folded
      BY DEF ModalInit, Folded
<1> QED BY <1>1, ModalInitInv, ModalNextKeeps, FoldedKeeps, PTL DEF ModalSpec

(* The types of the modal hold in every reachable state.                   *)
THEOREM ModalTypeCorrect == ModalSpec => []ModalTypeOK
<1>1. ModalInv => ModalTypeOK
      BY DEF ModalInv
<1> QED BY <1>1, ModalInvAlways, PTL

(* No update sends a value of a field but the one that was entered in it   *)
(* last, by the user or by its input, whatever arrived in between.         *)
THEOREM OnlyEnteredIsSent == ModalSpec => SendsOnlyEntered
<1>1. ModalInv /\ [ModalNext]_modalVars
        => [Submits => \A f \in Fields : sent'[f] # None => sent'[f] = LastEntered(f)]_modalVars
      BY DEF ModalInv, FlaggedIsEntered, Submits, Data
<1> QED BY <1>1, ModalInvAlways, PTL DEF ModalSpec, SendsOnlyEntered

(* A field that shows another value than its item offers the item's value, *)
(* unless the user has just answered that offer.                           *)
THEOREM DifferencesAreOffered == ModalSpec => []DifferenceOffered
<1>1. ModalInv => DifferenceOffered
      BY DEF ModalInv
<1> QED BY <1>1, ModalInvAlways, PTL

-----------------------------------------------------------------------------
(* Names.  An input whose question was answered with "taken" shows an      *)
(* error, but for a name that an alias with the same name typed again;     *)
(* such a name still follows from the alias, so that the question of the   *)
(* alias, which is then asked again, has the same answer, where the two    *)
(* snake cases of it agree and no name was dropped (NameFollows).          *)

InputRight(i) ==
  /\ i.found => i.status = "success"
  /\ i.error = "checking" => i.status \in {"loading", "error", "off"} \/ i.found

FoundKnown ==
  /\ aliasInput.found => aliasInput.error # "none"
  /\ nameInput.found => NameTaken(nameInput.text) \/ freed

NameFollows ==
  nameInput.found /\ nameInput.error = "none" /\ aliasInput.text \in DOMAIN SnakeCase =>
    /\ SnakeCase[aliasInput.text] = nameInput.text
    /\ aliasInput.status = "success" /\ ~ freed /\ Snakecased[aliasInput.text] = nameInput.text
       => aliasInput.found

NamesInv ==
  NamesTypeOK /\ InputRight(aliasInput) /\ InputRight(nameInput) /\ FoundKnown /\ NameFollows

LEMMA SnakeCases ==
  /\ DOMAIN SnakeCase = {"", "Id", "id", "Id "} /\ \A t \in DOMAIN SnakeCase : SnakeCase[t] \in NameTexts
  /\ DOMAIN SnakeCase \subseteq AliasTexts
BY DEF SnakeCase, NameTexts, AliasTexts, SqlNames

LEMMA ErrorsKnown ==
  \A text : AliasError(text) \in {"none", "invalid"} /\ NameError(text) \in {"none", "invalid"}
BY DEF AliasError, NameError

(* What the effect on the status does to an input                          *)
LEMMA CheckedInput ==
  ASSUME NEW texts, NEW i \in NamedInput(texts), i.status \in {"loading", "success"},
         i.found => i.status = "success"
  PROVE  /\ Checked(i) \in NamedInput(texts) /\ InputRight(Checked(i))
         /\ Checked(i).text = i.text /\ Checked(i).status = i.status /\ Checked(i).found = i.found
         /\ i.found => Checked(i).error # "none"
<1>1. CASE i.status = "success" /\ i.found /\ i.error = "none"
      BY <1>1 DEF Checked, NamedInput, InputRight
<1>2. CASE i.status = "loading" /\ i.text # "" /\ i.error = "none"
      BY <1>2 DEF Checked, NamedInput, InputRight
<1>3. CASE i.status = "success" /\ ~ i.found /\ i.error \in {"checking", "taken"}
      BY <1>3 DEF Checked, NamedInput, InputRight
<1>4. CASE /\ ~ (i.status = "success" /\ i.found /\ i.error = "none")
           /\ ~ (i.status = "loading" /\ i.text # "" /\ i.error = "none")
           /\ ~ (i.status = "success" /\ ~ i.found /\ i.error \in {"checking", "taken"})
      <2>1. Checked(i) = i
            BY <1>4 DEF Checked, NamedInput
      <2> QED BY <1>4, <2>1 DEF NamedInput, InputRight
<1> QED BY <1>1, <1>2, <1>3, <1>4

(* A key asks anew, unless the input is off or has the same text.          *)
LEMMA EnteredInput ==
  ASSUME NEW texts, NEW i \in NamedInput(texts), InputRight(i), NEW t \in texts,
         NEW e \in {"none", "invalid"}
  PROVE  /\ Entered(i, t, e) \in NamedInput(texts) /\ InputRight(Entered(i, t, e))
         /\ Entered(i, t, e).text = t
         /\ Entered(i, t, e).found = (t = i.text /\ i.found)
         /\ t # i.text => Entered(i, t, e).status # "success"
<1> DEFINE told == [i EXCEPT !.text = t, !.error = e]
           again == [told EXCEPT !.status = "loading", !.found = FALSE]
<1>1. /\ told \in NamedInput(texts) /\ told.text = t /\ told.error = e
      /\ told.status = i.status /\ told.found = i.found
      BY DEF NamedInput
<1>2. /\ again \in NamedInput(texts) /\ again.text = t /\ again.error = e
      /\ again.status = "loading" /\ ~ again.found
      BY DEF NamedInput
<1>3. Entered(i, t, e) = IF i.status = "off" \/ t = i.text THEN told
                         ELSE IF i.status = "loading" THEN again ELSE Checked(again)
      BY DEF Entered
<1> HIDE DEF told, again
<1>4. CASE i.status = "off" \/ t = i.text
      BY <1>1, <1>3, <1>4 DEF InputRight, NamedInput
<1>5. CASE ~ (i.status = "off" \/ t = i.text) /\ i.status = "loading"
      BY <1>2, <1>3, <1>5 DEF InputRight, NamedInput
<1>6. CASE ~ (i.status = "off" \/ t = i.text) /\ i.status # "loading"
      <2>1. /\ Checked(again) \in NamedInput(texts) /\ InputRight(Checked(again))
            /\ Checked(again).text = t /\ Checked(again).status = "loading"
            /\ Checked(again).found = FALSE
            BY <1>2, CheckedInput
      <2> QED BY <1>3, <1>6, <2>1
<1> QED BY <1>4, <1>5, <1>6

LEMMA MountedInput ==
  ASSUME NEW texts, NEW i \in NamedInput(texts)
  PROVE  /\ Mounted(i) \in NamedInput(texts) /\ InputRight(Mounted(i)) /\ ~ Mounted(i).found
         /\ Mounted(i).text = i.text /\ Mounted(i).status = "loading"
         /\ Unmounted(i) \in NamedInput(texts) /\ InputRight(Unmounted(i)) /\ ~ Unmounted(i).found
<1> DEFINE loads == [i EXCEPT !.status = "loading", !.found = FALSE]
<1>1. /\ loads \in NamedInput(texts) /\ loads.text = i.text
      /\ loads.status = "loading" /\ loads.found = FALSE
      BY DEF NamedInput
<1>2. Mounted(i) = Checked(loads)
      BY DEF Mounted
<1> HIDE DEF loads
<1>3. /\ Mounted(i) \in NamedInput(texts) /\ InputRight(Mounted(i)) /\ ~ Mounted(i).found
      /\ Mounted(i).text = i.text /\ Mounted(i).status = "loading"
      BY <1>1, <1>2, CheckedInput
<1>4. Unmounted(i) \in NamedInput(texts) /\ InputRight(Unmounted(i)) /\ ~ Unmounted(i).found
      BY DEF Unmounted, NamedInput, InputRight
<1> QED BY <1>3, <1>4

LEMMA BlankedInput ==
  ASSUME NEW texts, "" \in texts, NEW e \in {"none", "invalid", "checking", "taken"}
  PROVE  /\ [Blanked EXCEPT !.error = e] \in NamedInput(texts) /\ Blanked \in NamedInput(texts)
         /\ InputRight([Blanked EXCEPT !.error = e]) /\ ~ [Blanked EXCEPT !.error = e].found
         /\ InputRight(Blanked) /\ ~ Blanked.found
BY DEF Blanked, NamedInput, InputRight

(* Only an answer that says so makes a text one that is known as taken.    *)
LEMMA AnsweredInput ==
  ASSUME NEW texts, NEW i \in NamedInput(texts), InputRight(i), i.status = "loading",
         NEW isTaken \in BOOLEAN, NEW j \in Answered(i, isTaken)
  PROVE  /\ j \in NamedInput(texts) /\ InputRight(j) /\ j.text = i.text
         /\ j.found => isTaken /\ j.error # "none"
         /\ j.status = "success" => j.found \/ ~ isTaken \/ i.text = ""
<1>0. ~ i.found
      BY DEF InputRight
<1>1. CASE i.text = ""
      <2> DEFINE k == [i EXCEPT !.status = "success"]
      <2>1. k \in NamedInput(texts) /\ k.status = "success" /\ k.text = i.text /\ k.found = FALSE
            BY <1>0 DEF NamedInput
      <2>2. j = Checked(k)
            BY <1>1 DEF Answered
      <2> HIDE DEF k
      <2> QED BY <1>1, <2>1, <2>2, CheckedInput
<1>2. CASE i.text # ""
      <2> DEFINE k == [i EXCEPT !.status = "success", !.found = isTaken]
      <2>1. k \in NamedInput(texts) /\ k.status = "success" /\ k.text = i.text /\ k.found = isTaken
            BY DEF NamedInput
      <2>2. j \in {Checked(k), [i EXCEPT !.status = "error"]}
            BY <1>2 DEF Answered
      <2> HIDE DEF k
      <2>3. CASE j = Checked(k)
            BY <2>1, <2>3, CheckedInput
      <2>4. CASE j = [i EXCEPT !.status = "error"]
            BY <1>0, <2>4 DEF NamedInput, InputRight
      <2> QED BY <2>2, <2>3, <2>4
<1> QED BY <1>1, <1>2

(* NamesInv holds where neither input knows its text as taken.             *)
LEMMA NothingFound ==
  ASSUME NamesTypeOK', InputRight(aliasInput)', InputRight(nameInput)',
         ~ aliasInput'.found, ~ nameInput'.found
  PROVE  NamesInv'
BY DEF NamesInv, FoundKnown, NameFollows

LEMMA NamesTypesStay ==
  ASSUME NamesTypeOK, UNCHANGED <<newKind, aliasOf, freed>>, UNCHANGED <<formOpen, nameShown, formStatus, creating>>,
         aliasInput' \in NamedInput(AliasTexts), nameInput' \in NamedInput(NameTexts),
         keys' \in 0..MaxKeys
  PROVE  NamesTypeOK'
BY DEF NamesTypeOK

LEMMA KeysCount == ASSUME NamesTypeOK, Key PROVE keys' \in 0..MaxKeys
BY NamesAssumption DEF NamesTypeOK, Key

LEMMA TypesAliasKeeps == ASSUME NamesInv, TypesAlias PROVE NamesInv'
<1>1. PICK v \in AliasTexts \ {aliasInput.text} :
        /\ aliasInput' = Entered(aliasInput, v, AliasError(v))
        /\ nameInput' = IF v \notin DOMAIN SnakeCase THEN nameInput
                        ELSE Entered(nameInput, SnakeCase[v], NameError(SnakeCase[v]))
      BY DEF TypesAlias
<1>2. /\ aliasInput' \in NamedInput(AliasTexts) /\ InputRight(aliasInput')
      /\ aliasInput'.text = v /\ ~ aliasInput'.found /\ aliasInput'.status # "success"
      <2>1. aliasInput \in NamedInput(AliasTexts) /\ InputRight(aliasInput)
            BY DEF NamesInv, NamesTypeOK
      <2> DEFINE e == AliasError(v)
      <2>2. v \in AliasTexts /\ v # aliasInput.text /\ e \in {"none", "invalid"}
            BY ErrorsKnown
      <2>3. aliasInput' = Entered(aliasInput, v, e)
            BY <1>1
      <2> HIDE DEF e
      <2>4. /\ Entered(aliasInput, v, e) \in NamedInput(AliasTexts) /\ InputRight(Entered(aliasInput, v, e))
            /\ Entered(aliasInput, v, e).text = v
            /\ Entered(aliasInput, v, e).found = (v = aliasInput.text /\ aliasInput.found)
            /\ Entered(aliasInput, v, e).status # "success"
            BY <2>1, <2>2, EnteredInput
      <2> QED BY <2>2, <2>3, <2>4
<1>3. ASSUME v \in DOMAIN SnakeCase
      PROVE  /\ nameInput' \in NamedInput(NameTexts) /\ InputRight(nameInput')
             /\ nameInput'.text = SnakeCase[v]
             /\ nameInput'.found => nameInput.found /\ nameInput'.text = nameInput.text
      <2>1. nameInput \in NamedInput(NameTexts) /\ InputRight(nameInput) /\ SnakeCase[v] \in NameTexts
            BY <1>3, SnakeCases DEF NamesInv, NamesTypeOK
      <2> DEFINE e == NameError(SnakeCase[v])
      <2>2. e \in {"none", "invalid"} /\ nameInput' = Entered(nameInput, SnakeCase[v], e)
            BY <1>1, <1>3, ErrorsKnown
      <2> HIDE DEF e
      <2> DEFINE t == SnakeCase[v]
      <2>3. t \in NameTexts /\ nameInput' = Entered(nameInput, t, e) /\ t = SnakeCase[v]
            BY <2>1, <2>2
      <2> HIDE DEF t
      <2>4. /\ Entered(nameInput, t, e) \in NamedInput(NameTexts) /\ InputRight(Entered(nameInput, t, e))
            /\ Entered(nameInput, t, e).text = t
            /\ Entered(nameInput, t, e).found = (t = nameInput.text /\ nameInput.found)
            BY <2>1, <2>2, <2>3, EnteredInput
      <2> QED BY <2>3, <2>4
<1>4. /\ nameInput' \in NamedInput(NameTexts) /\ InputRight(nameInput')
      /\ nameInput'.found => NameTaken(nameInput'.text) \/ freed
      /\ v \in DOMAIN SnakeCase => nameInput'.text = SnakeCase[v]
      <2>1. nameInput \in NamedInput(NameTexts) /\ InputRight(nameInput) /\ FoundKnown
            BY DEF NamesInv, NamesTypeOK
      <2> QED BY <1>1, <1>3, <2>1 DEF FoundKnown
<1>5. NamesTypeOK'
      BY <1>2, <1>4, NamesTypesStay, KeysCount DEF TypesAlias, NamesInv
<1>6. UNCHANGED <<aliasOf, freed>>
      BY DEF TypesAlias
<1>7. FoundKnown'
      BY <1>2, <1>4, <1>6 DEF FoundKnown, NameTaken
<1>8. NameFollows'
      BY <1>2, <1>4 DEF NameFollows
<1> QED BY <1>2, <1>4, <1>5, <1>7, <1>8 DEF NamesInv, InputRight

LEMMA TypesNameKeeps == ASSUME NamesInv, TypesName PROVE NamesInv'
<1>1. PICK n \in NameTexts \ {nameInput.text} : nameInput' = Entered(nameInput, n, NameError(n))
      BY DEF TypesName
<1>2. /\ nameInput' \in NamedInput(NameTexts) /\ InputRight(nameInput') /\ ~ nameInput'.found
      <2>1. nameInput \in NamedInput(NameTexts) /\ InputRight(nameInput)
            BY DEF NamesInv, NamesTypeOK
      <2> QED BY <1>1, <2>1, ErrorsKnown, EnteredInput
<1>3. UNCHANGED <<aliasInput, aliasOf, freed>>
      BY DEF TypesName
<1>4. NamesTypeOK'
      BY <1>2, <1>3, NamesTypesStay, KeysCount DEF TypesName, NamesInv, NamesTypeOK
<1> QED BY <1>2, <1>3, <1>4 DEF NamesInv, FoundKnown, NameFollows, InputRight

LEMMA AliasAnsweredKeeps == ASSUME NamesInv, AliasAnswered PROVE NamesInv'
<1> DEFINE isTaken == AliasTaken(aliasInput.text)
<1>1. aliasInput' \in Answered(aliasInput, isTaken) /\ isTaken \in BOOLEAN
      BY DEF AliasAnswered, AliasTaken
<1>2. \A n \in SqlNames : aliasOf[n] # "" /\ n = Snakecased[aliasInput.text] => isTaken
      BY DEF AliasTaken
<1> HIDE DEF isTaken
<1>3. /\ aliasInput' \in NamedInput(AliasTexts) /\ InputRight(aliasInput')
      /\ aliasInput'.text = aliasInput.text
      /\ aliasInput'.found => aliasInput'.error # "none"
      /\ aliasInput'.status = "success" => aliasInput'.found \/ ~ isTaken \/ aliasInput.text = ""
      BY <1>1, AnsweredInput DEF AliasAnswered, NamesInv, NamesTypeOK
<1>4. UNCHANGED <<nameInput, aliasOf, freed>>
      BY DEF AliasAnswered
<1>5. NamesTypeOK'
      BY <1>3, <1>4, NamesTypesStay DEF AliasAnswered, NamesInv, NamesTypeOK
<1>6. ASSUME NameTaken(nameInput.text), Snakecased[aliasInput.text] = nameInput.text
      PROVE  isTaken /\ aliasInput.text # ""
      <2>1. nameInput.text \in SqlNames /\ aliasOf[nameInput.text] # ""
            BY <1>6 DEF NameTaken
      <2>2. isTaken
            BY <1>2, <1>6, <2>1
      <2>3. Snakecased[""] = "" /\ "" \notin SqlNames
            BY SnakeCases DEF Snakecased, AliasTexts, SqlNames
      <2> QED BY <1>6, <2>1, <2>2, <2>3
<1>7. FoundKnown'
      BY <1>3, <1>4 DEF NamesInv, FoundKnown, NameTaken
<1>8. NameFollows'
      BY <1>3, <1>4, <1>6 DEF NamesInv, FoundKnown, NameFollows
<1> QED BY <1>3, <1>4, <1>5, <1>7, <1>8 DEF NamesInv

LEMMA NameAnsweredKeeps == ASSUME NamesInv, NameAnswered PROVE NamesInv'
<1>1. /\ nameInput' \in NamedInput(NameTexts) /\ InputRight(nameInput')
      /\ nameInput'.text = nameInput.text
      /\ nameInput'.found => NameTaken(nameInput.text) /\ nameInput'.error # "none"
      <2> DEFINE isTaken == NameTaken(nameInput.text)
      <2>1. /\ nameInput \in NamedInput(NameTexts) /\ InputRight(nameInput) /\ nameInput.status = "loading"
            /\ nameInput' \in Answered(nameInput, isTaken) /\ isTaken \in BOOLEAN
            BY DEF NameAnswered, NamesInv, NamesTypeOK, NameTaken
      <2>2. isTaken => NameTaken(nameInput.text)
            OBVIOUS
      <2> HIDE DEF isTaken
      <2> QED BY <2>1, <2>2, AnsweredInput
<1>2. UNCHANGED <<aliasInput, aliasOf, freed>>
      BY DEF NameAnswered
<1>3. NamesTypeOK'
      BY <1>1, <1>2, NamesTypesStay DEF NameAnswered, NamesInv, NamesTypeOK
<1>4. FoundKnown'
      BY <1>1, <1>2 DEF NamesInv, FoundKnown, NameTaken
<1>5. NameFollows'
      BY <1>1, <1>2 DEF NamesInv, NameFollows
<1> QED BY <1>1, <1>2, <1>3, <1>4, <1>5 DEF NamesInv

LEMMA FormKeeps ==
  ASSUME NamesInv, OpensForm \/ ClosesForm \/ TogglesNameInput \/ SubmitsForm
  PROVE  NamesInv'
<1>1. /\ aliasInput \in NamedInput(AliasTexts) /\ nameInput \in NamedInput(NameTexts)
      /\ "" \in AliasTexts /\ "" \in NameTexts
      BY SnakeCases DEF NamesInv, NamesTypeOK, NameTexts
<1>2. CASE OpensForm
      <2>1. /\ aliasInput' = Mounted(aliasInput) /\ nameInput' \in {Mounted(nameInput), nameInput}
            BY <1>2 DEF OpensForm
      <2>2. /\ aliasInput' \in NamedInput(AliasTexts) /\ nameInput' \in NamedInput(NameTexts)
            /\ InputRight(aliasInput') /\ InputRight(nameInput') /\ ~ aliasInput'.found
            /\ aliasInput'.text = aliasInput.text /\ aliasInput'.status = "loading"
            /\ nameInput' = nameInput \/ ~ nameInput'.found
            <3>1. Mounted(aliasInput).text = aliasInput.text /\ Mounted(aliasInput).status = "loading"
                  BY <1>1, MountedInput
            <3> QED BY <1>1, <2>1, <3>1, MountedInput DEF NamesInv
      <2>3. NamesTypeOK'
            BY <1>2, <2>2 DEF OpensForm, NamesInv, NamesTypeOK
      <2>4. UNCHANGED <<aliasOf, freed>> /\ \A text : NameTaken(text)' = NameTaken(text)
            BY <1>2 DEF OpensForm, NameTaken
      <2>5. FoundKnown' /\ NameFollows'
            BY <2>2, <2>4 DEF NamesInv, FoundKnown, NameFollows
      <2> QED BY <2>2, <2>3, <2>5 DEF NamesInv, InputRight
<1>3. CASE ClosesForm
      <2>1. /\ aliasInput' \in {Unmounted(aliasInput), Blanked} /\ nameInput' \in {Unmounted(nameInput), Blanked}
            /\ nameShown' \in {nameShown, FALSE} /\ formStatus' \in {formStatus, "idle"}
            BY <1>3 DEF ClosesForm, ClosedInputs
      <2>2. /\ aliasInput' \in NamedInput(AliasTexts) /\ nameInput' \in NamedInput(NameTexts)
            /\ InputRight(aliasInput') /\ InputRight(nameInput')
            /\ ~ aliasInput'.found /\ ~ nameInput'.found
            BY <1>1, <2>1, MountedInput, BlankedInput
      <2>3. NamesTypeOK'
            BY <1>3, <2>1, <2>2, KeysCount DEF ClosesForm, NamesInv, NamesTypeOK
      <2> QED BY <2>2, <2>3, NothingFound DEF InputRight
<1>4. CASE TogglesNameInput
      <2>1. nameInput' \in {Mounted(nameInput), Unmounted(nameInput)} /\ aliasInput' = aliasInput
            BY <1>4 DEF TogglesNameInput
      <2>2. nameInput' \in NamedInput(NameTexts) /\ InputRight(nameInput') /\ ~ nameInput'.found
            BY <1>1, <2>1, MountedInput
      <2>3. NamesTypeOK'
            BY <1>4, <2>1, <2>2, KeysCount DEF TogglesNameInput, NamesInv, NamesTypeOK
      <2> QED BY <1>4, <2>1, <2>2, <2>3 DEF TogglesNameInput, NamesInv, FoundKnown, NameFollows, InputRight
<1>5. CASE SubmitsForm
      <2>1. UNCHANGED <<aliasInput, nameInput, aliasOf, freed>>
            BY <1>5 DEF SubmitsForm
      <2>2. NamesTypeOK'
            <3>1. nameInput.text \in NameTexts /\ aliasInput.text \in AliasTexts
                  BY DEF NamesInv, NamesTypeOK, NamedInput
            <3> QED BY <1>5, <3>1, KeysCount DEF SubmitsForm, NamesInv, NamesTypeOK
      <2> QED BY <2>1, <2>2 DEF NamesInv, FoundKnown, NameFollows, InputRight, NameTaken
<1> QED BY <1>2, <1>3, <1>4, <1>5

LEMMA CreateAnsweredKeeps == ASSUME NamesInv, CreateAnswered PROVE NamesInv'
<1>1. CASE Created
      <2>1. /\ aliasInput' \in {Blanked, [Blanked EXCEPT !.error = aliasInput.error]}
            /\ nameInput' \in {Blanked, [Blanked EXCEPT !.error = nameInput.error]}
            /\ nameShown' \in {nameShown, FALSE} /\ formStatus' = "idle" /\ formOpen' = FALSE
            /\ aliasOf' = [aliasOf EXCEPT ![creating.name] = creating.alias]
            BY <1>1 DEF Created
      <2>2. /\ aliasInput' \in NamedInput(AliasTexts) /\ nameInput' \in NamedInput(NameTexts)
            /\ InputRight(aliasInput') /\ InputRight(nameInput')
            /\ ~ aliasInput'.found /\ ~ nameInput'.found
            <3>1. /\ "" \in AliasTexts /\ "" \in NameTexts
                  /\ aliasInput.error \in {"none", "invalid", "checking", "taken"}
                  /\ nameInput.error \in {"none", "invalid", "checking", "taken"}
                  BY SnakeCases DEF NamesInv, NamesTypeOK, NameTexts, NamedInput
            <3> QED BY <2>1, <3>1, BlankedInput
      <2>3. NamesTypeOK'
            <3>1. Nothing \in [name : NameTexts, alias : AliasTexts]
                  BY SnakeCases DEF Nothing, NameTexts
            <3>2. aliasOf' \in [SqlNames -> AliasTexts]
                  BY <2>1 DEF NamesInv, NamesTypeOK
            <3> QED BY <2>1, <2>2, <3>1, <3>2 DEF CreateAnswered, NamesInv, NamesTypeOK
      <2> QED BY <2>2, <2>3, NothingFound DEF InputRight
<1>2. CASE formStatus' \in {"idle", formStatus}
           /\ UNCHANGED <<aliasOf, aliasInput, nameInput, formOpen, nameShown>>
      <2>1. Nothing \in [name : NameTexts, alias : AliasTexts]
            BY SnakeCases DEF Nothing, NameTexts
      <2>2. UNCHANGED <<newKind, freed, keys>> /\ creating' = Nothing
            BY DEF CreateAnswered
      <2>3. NamesTypeOK'
            BY <1>2, <2>1, <2>2 DEF NamesInv, NamesTypeOK
      <2> QED BY <1>2, <2>2, <2>3 DEF NamesInv, FoundKnown, NameTaken, NameFollows, InputRight
<1> QED BY <1>1, <1>2 DEF CreateAnswered

LEMMA NamesPageKeeps == ASSUME NamesInv, OthersCreate \/ OthersDrop \/ VisitNames PROVE NamesInv'
<1>1. CASE OthersCreate
      <2>1. PICK n \in SqlNames, a \in OtherAliases : aliasOf' = [aliasOf EXCEPT ![n] = a]
            BY <1>1 DEF OthersCreate
      <2>2. a \in AliasTexts /\ a # ""
            BY <2>1, SnakeCases DEF OtherAliases, AliasTexts
      <2>3. UNCHANGED <<newKind, aliasInput, nameInput, formOpen, nameShown, formStatus, creating, freed, keys>>
            BY <1>1 DEF OthersCreate
      <2>4. NamesTypeOK'
            BY <2>1, <2>2, <2>3 DEF NamesInv, NamesTypeOK
      <2>5. \A text : NameTaken(text) => NameTaken(text)'
            BY <2>1, <2>2 DEF NameTaken, NamesInv, NamesTypeOK
      <2> QED BY <2>3, <2>4, <2>5 DEF NamesInv, FoundKnown, NameFollows, InputRight
<1>3. CASE OthersDrop
      <2>1. PICK n \in SqlNames : aliasOf' = [aliasOf EXCEPT ![n] = ""]
            BY <1>3 DEF OthersDrop
      <2>2. /\ UNCHANGED <<newKind, aliasInput, nameInput, formOpen, nameShown, formStatus, creating, keys>>
            /\ freed'
            BY <1>3 DEF OthersDrop
      <2>3. NamesTypeOK'
            BY <1>3, <2>1, <2>2, SnakeCases DEF OthersDrop, NamesInv, NamesTypeOK
      <2> QED BY <2>2, <2>3 DEF NamesInv, FoundKnown, NameFollows, InputRight
<1>2. CASE VisitNames
      <2>1. /\ "" \in AliasTexts /\ "" \in NameTexts
            BY SnakeCases DEF NameTexts
      <2>2. /\ Blanked \in NamedInput(AliasTexts) /\ Blanked \in NamedInput(NameTexts)
            /\ InputRight(Blanked) /\ ~ Blanked.found
            BY <2>1, BlankedInput
      <2>3. aliasInput' = Blanked /\ nameInput' = Blanked
            BY <1>2 DEF VisitNames
      <2>4. NamesTypeOK'
            <3>1. keys' \in 0..MaxKeys
                  BY <1>2, NamesAssumption DEF VisitNames
            <3> QED BY <1>2, <2>2, <2>3, <3>1 DEF VisitNames, NamesInv, NamesTypeOK
      <2> QED BY <2>2, <2>3, <2>4, NothingFound DEF InputRight
<1> QED BY <1>1, <1>2, <1>3

LEMMA NamesInitInv == NamesInit => NamesInv
<1> SUFFICES ASSUME NamesInit PROVE NamesInv
    OBVIOUS
<1>1. /\ "" \in AliasTexts /\ "" \in NameTexts
      BY SnakeCases DEF NameTexts
<1>2. /\ Blanked \in NamedInput(AliasTexts) /\ Blanked \in NamedInput(NameTexts)
      /\ InputRight(Blanked) /\ ~ Blanked.found
      BY <1>1, BlankedInput
<1>3. aliasInput = Blanked /\ nameInput = Blanked
      BY DEF NamesInit
<1>4. keys \in 0..MaxKeys
      <2>1. keys = 0
            BY DEF NamesInit
      <2> QED BY <2>1, NamesAssumption
<1>5. NamesTypeOK
      <2>1. {""} \cup OtherAliases \subseteq AliasTexts
            BY SnakeCases DEF OtherAliases, AliasTexts
      <2>2. Nothing \in [name : NameTexts, alias : AliasTexts]
            BY <1>1 DEF Nothing
      <2>3. aliasOf \in [SqlNames -> {""} \cup OtherAliases]
            BY DEF NamesInit
      <2>4. aliasOf \in [SqlNames -> AliasTexts]
            BY <2>1, <2>3
      <2> QED BY <1>2, <1>3, <1>4, <2>2, <2>4 DEF NamesInit, NamesTypeOK
<1>6. FoundKnown /\ NameFollows
      BY <1>2, <1>3 DEF FoundKnown, NameFollows
<1> QED BY <1>2, <1>3, <1>5, <1>6 DEF NamesInv

LEMMA NamesNextKeeps == NamesInv /\ [NamesNext]_nameVars => NamesInv'
<1>1. ASSUME NamesInv, UNCHANGED nameVars PROVE NamesInv'
      BY <1>1 DEF nameVars, NamesInv, NamesTypeOK, FoundKnown, NameTaken, NameFollows, InputRight
<1>2. CreateTableModal \/ CreateField =>
        \/ TypesAlias \/ TypesName \/ AliasAnswered \/ NameAnswered
        \/ TogglesNameInput \/ SubmitsForm \/ ClosesForm
      BY DEF CreateTableModal, CreateField, CreateTableAlias, CreateTableName, CreateFieldAlias,
             CreateFieldName
<1> QED BY <1>1, <1>2, TypesAliasKeeps, TypesNameKeeps, AliasAnsweredKeeps, NameAnsweredKeeps, FormKeeps,
        CreateAnsweredKeeps, NamesPageKeeps DEF NamesNext

(* The types of the inputs and of the form hold in every reachable state.  *)
THEOREM NamesTypeCorrect == NamesSpec => []NamesTypeOK
<1>1. NamesInv => NamesTypeOK
      BY DEF NamesInv
<1> QED BY <1>1, NamesInitInv, NamesNextKeeps, PTL DEF NamesSpec

(* A form without an error, whose questions were answered, has no text     *)
(* that an answer said is taken, in whatever order keys and answers came,  *)
(* where the server's snake case of the alias is the client's and no table *)
(* was dropped since.                                                      *)
THEOREM CheckedIsFree == NamesSpec => []FreeWhenChecked
<1>1. NamesInv => FreeWhenChecked
      BY DEF NamesInv, FoundKnown, NameFollows, FreeWhenChecked
<1> QED BY <1>1, NamesInitInv, NamesNextKeeps, PTL DEF NamesSpec

(* "Still checking" goes with its question, unless that failed, was broken *)
(* off, or found the name.                                                 *)
THEOREM CheckingDoesEnd == NamesSpec => []CheckingEnds
<1>1. NamesInv => CheckingEnds
      BY DEF NamesInv, InputRight, CheckingEnds
<1> QED BY <1>1, NamesInitInv, NamesNextKeeps, PTL DEF NamesSpec

-----------------------------------------------------------------------------
(* The fields of a new table.  OneIncrementing is about the keys there are *)
(* now; a field of the key's id that is no key can increment, too, so the  *)
(* invariant says of each incrementing field that its id has a key which   *)
(* does.  What else is kept: the form that is open knows whether its name  *)
(* is taken, and what a counter has numbered is below it.                  *)

NewField == [id : Nat, name : FieldNames, type : Types, dbType : {"default", "custom"},
             pk : BOOLEAN, auto : BOOLEAN, options : Seq(OptionTexts)]
FieldForm == [at : {"closed", "open", "closing"}, id : Nat \cup {NoId}, name : FieldNames,
              type : Types \cup {"none"}, dbType : {"", "default", "custom"}, taken : BOOLEAN,
              options : Seq(OptionItem), optionCount : Nat \ {0}, optionsKept : BOOLEAN]

NewTableShape ==
  /\ newFields \in Seq(NewField) /\ newCount \in Nat \ {0} /\ clicks \in 0..MaxClicks
  /\ fieldForm \in FieldForm
  /\ advanced \in BOOLEAN /\ submitting \in BOOLEAN /\ recounted \in BOOLEAN /\ doubled \in BOOLEAN
  /\ submitting => fieldForm.at = "closed"

KeysRight(fs) ==
  /\ \A i \in DOMAIN fs : fs[i].auto =>
       \E j \in DOMAIN fs : fs[j].id = fs[i].id /\ fs[j].pk /\ fs[j].auto
  /\ \A i, j \in DOMAIN fs : fs[i].auto /\ fs[i].pk /\ fs[j].pk => i = j
NamesRight(fs) == \A i, j \in DOMAIN fs : fs[i].name = fs[j].name => fs[i].id = fs[j].id
IdsRight(fs, count) ==
  /\ \A i \in DOMAIN fs : fs[i].id <= 1 \/ fs[i].id < count
  /\ \A i, j \in DOMAIN fs : i # j /\ fs[i].id = fs[j].id => fs[i].id = 1
ListRight ==
  /\ KeysRight(newFields)
  /\ ~ doubled => NamesRight(newFields)
  /\ ~ recounted => IdsRight(newFields, newCount)

TakenKnown ==
  /\ fieldForm.at = "open" => fieldForm.taken = TakenBy(fieldForm.id, fieldForm.name)
  /\ fieldForm.at = "closing" /\ fieldForm.id # NoId => ~ TakenBy(fieldForm.id, fieldForm.name)
OptionsRight(form) ==
  ~ form.optionsKept =>
    /\ \A i \in DOMAIN form.options : form.options[i].id < form.optionCount
    /\ \A i, j \in DOMAIN form.options : i # j => form.options[i].id # form.options[j].id

NewTableInv == NewTableShape /\ ListRight /\ TakenKnown /\ OptionsRight(fieldForm)

LEMMA FirstFieldsRight ==
  /\ FirstFields \in Seq(NewField) /\ KeysRight(FirstFields) /\ NamesRight(FirstFields)
  /\ IdsRight(FirstFields, 1)
<1>1. FirstFields \in Seq(NewField)
      <2>1. FirstFields[1] \in NewField /\ FirstFields[2] \in NewField
            BY DEF FirstFields, NewField, FieldNames, Types
      <2> QED BY <2>1 DEF FirstFields
<1>2. /\ DOMAIN FirstFields = 1..2 /\ FirstFields[1].id = 0 /\ FirstFields[2].id = 1
      /\ FirstFields[1].name = "id" /\ FirstFields[2].name = "name"
      /\ FirstFields[1].pk /\ FirstFields[1].auto /\ ~ FirstFields[2].pk /\ ~ FirstFields[2].auto
      BY DEF FirstFields
<1>3. \A i \in DOMAIN FirstFields : i = 1 \/ i = 2
      BY <1>2
<1>4. 1 \in DOMAIN FirstFields
      BY <1>2
<1> QED BY <1>1, <1>2, <1>3, <1>4 DEF KeysRight, NamesRight, IdsRight

LEMMA ClosedFormRight == ClosedFieldForm \in FieldForm /\ OptionsRight(ClosedFieldForm)
<1> DEFINE o == [id |-> 0, value |-> ""]
           opts == <<o>>
<1>1. o \in OptionItem /\ o.id = 0
      BY DEF OptionItem
<1> HIDE DEF o
<1>2. opts \in Seq(OptionItem) /\ DOMAIN opts = {1} /\ opts[1] = o
      BY <1>1
<1> HIDE DEF opts
<1>3. ClosedFieldForm = [at |-> "closed", id |-> NoId, name |-> "", type |-> "none", dbType |-> "",
                         taken |-> FALSE, options |-> opts, optionCount |-> 1, optionsKept |-> FALSE]
      BY DEF ClosedFieldForm, o, opts
<1>4. ClosedFieldForm \in FieldForm
      <2>1. "" \in FieldNames /\ 1 \in Nat \ {0} /\ opts \in Seq(OptionItem)
            BY <1>2 DEF FieldNames
      <2> QED BY <1>3, <2>1 DEF FieldForm
<1>5. ClosedFieldForm.options = opts /\ ClosedFieldForm.optionCount = 1
      BY <1>3
<1> QED BY <1>1, <1>2, <1>4, <1>5 DEF OptionsRight

LEMMA NewTableClick ==
  ASSUME NewTableShape, Click PROVE clicks' \in 0..MaxClicks
<1>1. MaxClicks \in Nat /\ clicks \in 0..MaxClicks
      BY NewTableAssumption DEF NewTableShape
<1>2. clicks < MaxClicks /\ clicks' = clicks + 1
      BY DEF Click
<1> QED BY <1>1, <1>2

LEMMA NoClicks == 0 \in 0..MaxClicks
<1>1. MaxClicks \in Nat
      BY NewTableAssumption
<1> QED BY <1>1

(* Fields of one id stay or go together, in whatever order.                *)
LEMMA PlacesKeepList ==
  ASSUME NEW s \in Seq(NewField), NEW keep \in SUBSET DOMAIN s, NEW t, NEW p,
         t \in Seq(NewField), FromPlaces(t, s, p, keep),
         \A i \in keep, j \in DOMAIN s : s[i].id = s[j].id => j \in keep
  PROVE  /\ KeysRight(s) => KeysRight(t)
         /\ NamesRight(s) => NamesRight(t)
         /\ \A count \in Nat : IdsRight(s, count) => IdsRight(t, count)
<1>1. DOMAIN t = 1..Len(t)
      BY LenProperties
<1>2. /\ \A k \in DOMAIN t : p[k] \in keep /\ p[k] \in DOMAIN s /\ t[k] = s[p[k]]
      /\ \A k, l \in DOMAIN t : k # l => p[k] # p[l]
      /\ \A i \in keep : \E k \in DOMAIN t : p[k] = i
      BY <1>1 DEF FromPlaces
<1>3. ASSUME KeysRight(s) PROVE KeysRight(t)
      <2>1. ASSUME NEW k \in DOMAIN t, t[k].auto
            PROVE  \E l \in DOMAIN t : t[l].id = t[k].id /\ t[l].pk /\ t[l].auto
            <3>1. p[k] \in keep /\ p[k] \in DOMAIN s /\ s[p[k]].auto
                  BY <1>2, <2>1
            <3>2. PICK j \in DOMAIN s : s[j].id = s[p[k]].id /\ s[j].pk /\ s[j].auto
                  BY <1>3, <3>1 DEF KeysRight
            <3>3. j \in keep
                  BY <3>1, <3>2
            <3> QED BY <1>2, <3>2, <3>3
      <2>2. \A k, l \in DOMAIN t : t[k].auto /\ t[k].pk /\ t[l].pk => k = l
            BY <1>2, <1>3 DEF KeysRight
      <2> QED BY <2>1, <2>2 DEF KeysRight
<1>4. ASSUME NamesRight(s), NEW k \in DOMAIN t, NEW l \in DOMAIN t, t[k].name = t[l].name
      PROVE  t[k].id = t[l].id
      <2>1. s[p[k]].name = s[p[l]].name /\ p[k] \in DOMAIN s /\ p[l] \in DOMAIN s
            BY <1>2, <1>4
      <2>2. s[p[k]].id = s[p[l]].id
            BY <1>4, <2>1 DEF NamesRight
      <2> QED BY <1>2, <2>2
<1>5. \A count \in Nat : IdsRight(s, count) => IdsRight(t, count)
      BY <1>2 DEF IdsRight
<1> QED BY <1>3, <1>4, <1>5 DEF NamesRight

LEMMA ReordersNewKeeps == ASSUME NewTableInv, ReordersNew PROVE NewTableInv'
<1>1. PICK i, j \in DOMAIN newFields : newFields' = Moved(newFields, i, j)
      <2>1. ASSUME NEW i \in DOMAIN newFields
            PROVE  LET f == CHOOSE k \in DOMAIN newFields :
                              /\ newFields[k].id = newFields[i].id
                              /\ \A l \in 1..k-1 : newFields[l].id # newFields[i].id
                   IN  f \in DOMAIN newFields
            <3> DEFINE Alike == {k \in DOMAIN newFields : newFields[k].id = newFields[i].id}
            <3>1. DOMAIN newFields = 1..Len(newFields) /\ Len(newFields) \in Nat
                  BY LenProperties DEF NewTableInv, NewTableShape
            <3>2. Alike \in SUBSET Nat /\ Alike # {}
                  BY <3>1
            <3>3. PICK k \in Alike : \A l \in Alike : k <= l
                  <4> HIDE DEF Alike
                  <4> QED BY <3>2, LeastNumber
            <3>4. ASSUME NEW l \in 1..k-1 PROVE newFields[l].id # newFields[i].id
                  <4>1. l \in DOMAIN newFields /\ ~ (k <= l)
                        BY <3>1, <3>3
                  <4> QED BY <3>3, <4>1
            <3> QED BY <3>3, <3>4
      <2> QED BY <2>1 DEF ReordersNew
<1>2. newFields \in Seq(NewField)
      BY DEF NewTableInv, NewTableShape
<1>3. newFields' \in Seq(NewField) /\ \E p : FromPlaces(newFields', newFields, p, DOMAIN newFields)
      BY <1>1, <1>2, MovedList
<1>4. /\ KeysRight(newFields) => KeysRight(newFields')
      /\ NamesRight(newFields) => NamesRight(newFields')
      /\ \A count \in Nat : IdsRight(newFields, count) => IdsRight(newFields', count)
      BY <1>2, <1>3, PlacesKeepList
<1>5. /\ UNCHANGED <<newCount, recounted, advanced, fieldForm, submitting, doubled>>
      /\ fieldForm.at = "closed" /\ clicks' \in 0..MaxClicks
      BY NewTableClick DEF ReordersNew, ListClick, NewTableInv
<1>6. NewTableShape'
      BY <1>3, <1>5 DEF NewTableInv, NewTableShape
<1> QED BY <1>4, <1>5, <1>6 DEF NewTableInv, ListRight, TakenKnown, NewTableShape

LEMMA RemovesNewKeeps == ASSUME NewTableInv, RemovesNew PROVE NewTableInv'
<1>1. PICK i \in DOMAIN newFields :
        newFields' = Filtered(newFields, {j \in DOMAIN newFields : newFields[j].id # newFields[i].id})
      BY DEF RemovesNew
<1> DEFINE keep == {j \in DOMAIN newFields : newFields[j].id # newFields[i].id}
<1>2. newFields \in Seq(NewField) /\ newFields' = Filtered(newFields, keep)
      BY <1>1 DEF NewTableInv, NewTableShape
<1>3. /\ keep \in SUBSET DOMAIN newFields
      /\ \A k \in keep, j \in DOMAIN newFields : newFields[k].id = newFields[j].id => j \in keep
      OBVIOUS
<1> HIDE DEF keep
<1>4. newFields' \in Seq(NewField) /\ \E p : FromPlaces(newFields', newFields, p, keep)
      BY <1>2, <1>3, FilteredList
<1>5. /\ KeysRight(newFields) => KeysRight(newFields')
      /\ NamesRight(newFields) => NamesRight(newFields')
      /\ \A count \in Nat : IdsRight(newFields, count) => IdsRight(newFields', count)
      BY <1>2, <1>3, <1>4, PlacesKeepList
<1>6. /\ UNCHANGED <<newCount, recounted, advanced, fieldForm, submitting, doubled>>
      /\ fieldForm.at = "closed" /\ clicks' \in 0..MaxClicks
      BY NewTableClick DEF RemovesNew, ListClick, NewTableInv
<1>7. NewTableShape'
      BY <1>4, <1>6 DEF NewTableInv, NewTableShape
<1> QED BY <1>5, <1>6, <1>7 DEF NewTableInv, ListRight, TakenKnown, NewTableShape

(* Changing keys leaves ids and names as they are.                         *)
LEMMA KeysChanged ==
  ASSUME NewTableInv, ListClick, UNCHANGED <<newCount, recounted>>,
         newFields' \in Seq(NewField), DOMAIN newFields' = DOMAIN newFields, KeysRight(newFields'),
         \A i \in DOMAIN newFields : /\ newFields'[i].id = newFields[i].id
                                     /\ newFields'[i].name = newFields[i].name
  PROVE  NewTableInv'
<1>1. /\ UNCHANGED <<newCount, recounted, advanced, fieldForm, submitting, doubled>>
      /\ fieldForm.at = "closed" /\ clicks' \in 0..MaxClicks
      BY NewTableClick DEF ListClick, NewTableInv
<1>2. NewTableShape'
      BY <1>1 DEF NewTableInv, NewTableShape
<1>3. NamesRight(newFields) => NamesRight(newFields')
      BY DEF NamesRight
<1>4. IdsRight(newFields, newCount) => IdsRight(newFields', newCount)
      BY DEF IdsRight
<1> QED BY <1>1, <1>2, <1>3, <1>4 DEF NewTableInv, ListRight, TakenKnown

LEMMA TogglesPrimaryKeyKeeps == ASSUME NewTableInv, TogglesPrimaryKey PROVE NewTableInv'
<1>1. PICK i \in DOMAIN newFields, v \in BOOLEAN :
        /\ IF v THEN OffersPrimaryKey(i) ELSE newFields[i].pk
        /\ newFields' = [k \in DOMAIN newFields |->
             IF newFields[k].id = newFields[i].id
             THEN [newFields[k] EXCEPT !.pk = v, !.auto = v /\ newFields[k].auto] ELSE newFields[k]]
      BY DEF TogglesPrimaryKey, MapFields
<1> DEFINE f == newFields
           g == newFields'
<1>2. f \in Seq(NewField) /\ \A k \in DOMAIN f : f[k] \in NewField
      BY LenProperties DEF NewTableInv, NewTableShape
<1>3. DOMAIN g = DOMAIN f
      BY <1>1
<1>4. ASSUME NEW k \in DOMAIN f
      PROVE  /\ g[k] \in NewField /\ g[k].id = f[k].id /\ g[k].name = f[k].name
             /\ f[k].id = f[i].id => g[k].pk = v /\ (g[k].auto <=> v /\ f[k].auto)
             /\ f[k].id # f[i].id => g[k] = f[k]
      <2>1. CASE f[k].id = f[i].id
            <3>1. g[k] = [f[k] EXCEPT !.pk = v, !.auto = v /\ f[k].auto]
                  BY <1>1, <2>1
            <3>2. f[k].auto \in BOOLEAN /\ f[k] \in NewField /\ (v /\ f[k].auto) \in BOOLEAN
                  BY <1>2 DEF NewField
            <3> QED BY <2>1, <3>1, <3>2 DEF NewField
      <2>2. CASE f[k].id # f[i].id
            BY <1>1, <1>2, <2>2
      <2> QED BY <2>1, <2>2
<1>5. g \in Seq(NewField)
      <2>1. g = [k \in DOMAIN f |-> g[k]]
            BY <1>1
      <2> QED BY <1>2, <1>3, <1>4, <2>1, MappedList
<1>6. KeysRight(f)
      BY DEF NewTableInv, ListRight
<1>7. KeysRight(g)
      <2>1. CASE v
            <3>1. \A k \in DOMAIN f : ~ f[k].auto
                  BY <1>1, <1>6, <2>1 DEF KeysRight, OffersPrimaryKey, PrimaryKeys
            <3>2. \A k \in DOMAIN g : ~ g[k].auto
                  BY <1>3, <1>4, <3>1
            <3> QED BY <3>2 DEF KeysRight
      <2>2. CASE ~ v
            <3>1. ASSUME NEW k \in DOMAIN g, g[k].auto
                  PROVE  \E l \in DOMAIN g : g[l].id = g[k].id /\ g[l].pk /\ g[l].auto
                  <4>1. f[k].id # f[i].id /\ f[k].auto
                        BY <1>3, <1>4, <2>2, <3>1
                  <4>2. PICK l \in DOMAIN f : f[l].id = f[k].id /\ f[l].pk /\ f[l].auto
                        BY <1>3, <1>6, <4>1 DEF KeysRight
                  <4> QED BY <1>3, <1>4, <4>1, <4>2
            <3>2. ASSUME NEW k \in DOMAIN g, NEW l \in DOMAIN g, g[k].auto, g[k].pk, g[l].pk
                  PROVE  k = l
                  <4>1. f[k].auto /\ f[k].pk /\ f[l].pk
                        BY <1>3, <1>4, <2>2, <3>2
                  <4> QED BY <1>3, <1>6, <4>1 DEF KeysRight
            <3> QED BY <3>1, <3>2 DEF KeysRight
      <2> QED BY <2>1, <2>2
<1>8. ListClick /\ UNCHANGED <<newCount, recounted>>
      BY DEF TogglesPrimaryKey
<1> QED BY <1>3, <1>4, <1>5, <1>7, <1>8, KeysChanged

LEMMA TogglesAutoIncrementKeeps == ASSUME NewTableInv, TogglesAutoIncrement PROVE NewTableInv'
<1>1. PICK i \in PrimaryKeys :
        newFields' = [k \in DOMAIN newFields |->
             IF newFields[k].id = newFields[i].id
             THEN [newFields[k] EXCEPT !.auto = ~ newFields[i].auto] ELSE newFields[k]]
      BY DEF TogglesAutoIncrement, MapFields
<1> DEFINE f == newFields
           g == newFields'
<1>2. f \in Seq(NewField) /\ \A k \in DOMAIN f : f[k] \in NewField
      BY LenProperties DEF NewTableInv, NewTableShape
<1>3. DOMAIN g = DOMAIN f
      BY <1>1
<1>4. ASSUME NEW k \in DOMAIN f
      PROVE  /\ g[k] \in NewField /\ g[k].id = f[k].id /\ g[k].name = f[k].name
             /\ g[k].pk = f[k].pk /\ (f[k].id = f[i].id => g[k].auto = ~ f[i].auto)
             /\ f[k].id # f[i].id => g[k] = f[k]
      <2>1. CASE f[k].id = f[i].id
            <3>1. g[k] = [f[k] EXCEPT !.auto = ~ f[i].auto]
                  BY <1>1, <2>1
            <3>2. f[k] \in NewField /\ (~ f[i].auto) \in BOOLEAN
                  BY <1>2
            <3> QED BY <2>1, <3>1, <3>2 DEF NewField
      <2>2. CASE f[k].id # f[i].id
            BY <1>1, <1>2, <2>2
      <2> QED BY <2>1, <2>2
<1>5. g \in Seq(NewField)
      <2>1. g = [k \in DOMAIN f |-> g[k]]
            BY <1>1
      <2> QED BY <1>2, <1>3, <1>4, <2>1, MappedList
<1>6. i \in DOMAIN f /\ f[i].pk /\ \A k \in DOMAIN f : f[k].pk => k = i
      <2>1. IsFiniteSet(PrimaryKeys)
            <3>1. Len(f) \in Nat /\ DOMAIN f = 1..Len(f)
                  BY <1>2, LenProperties
            <3>2. IsFiniteSet(DOMAIN f) /\ PrimaryKeys \in SUBSET DOMAIN f
                  BY <3>1, FS_Interval DEF PrimaryKeys
            <3> QED BY <3>2, FS_Subset
      <2>2. Cardinality(PrimaryKeys) = 1
            BY DEF TogglesAutoIncrement
      <2>3. PICK x : PrimaryKeys = {x}
            BY <2>1, <2>2, FS_Singleton
      <2> QED BY <2>3 DEF PrimaryKeys
<1>7. KeysRight(f)
      BY DEF NewTableInv, ListRight
<1>8. KeysRight(g)
      <2>1. ASSUME NEW k \in DOMAIN g, g[k].auto
            PROVE  \E l \in DOMAIN g : g[l].id = g[k].id /\ g[l].pk /\ g[l].auto
            <3>1. CASE f[k].id = f[i].id
                  BY <1>3, <1>4, <1>6, <2>1, <3>1
            <3>2. CASE f[k].id # f[i].id
                  <4>1. f[k].auto
                        BY <1>3, <1>4, <2>1, <3>2
                  <4> QED BY <1>3, <1>6, <1>7, <3>2, <4>1 DEF KeysRight
            <3> QED BY <3>1, <3>2
      <2>2. \A k, l \in DOMAIN g : g[k].pk /\ g[l].pk => k = l
            BY <1>3, <1>4, <1>6
      <2> QED BY <2>1, <2>2 DEF KeysRight
<1>9. ListClick /\ UNCHANGED <<newCount, recounted>>
      BY DEF TogglesAutoIncrement
<1> QED BY <1>3, <1>4, <1>5, <1>8, <1>9, KeysChanged

(* The options that have a text are saved.                                 *)
LEMMA OptionTextsSaved ==
  ASSUME NewTableShape PROVE OptionValues \in Seq(OptionTexts)
<1> DEFINE o == fieldForm.options
           keep == {i \in DOMAIN o : o[i].value # ""}
           given == Filtered(o, keep)
<1>1. o \in Seq(OptionItem) /\ keep \in SUBSET DOMAIN o
      BY DEF NewTableShape, FieldForm
<1>2. \A i \in keep : o[i].value \in OptionTexts
      <2>1. \A i \in DOMAIN o : o[i] \in OptionItem
            BY <1>1, LenProperties
      <2> QED BY <2>1 DEF OptionItem
<1>3. OptionValues = [i \in DOMAIN given |-> given[i].value]
      BY DEF OptionValues
<1> HIDE DEF o, keep
<1>4. given \in Seq(OptionItem) /\ DOMAIN given = 1..Len(given) /\ \E p : FromPlaces(given, o, p, keep)
      BY <1>1, FilteredList
<1> HIDE DEF given
<1>5. \A i \in DOMAIN given : given[i].value \in OptionTexts
      BY <1>2, <1>4 DEF FromPlaces
<1> QED BY <1>3, <1>4, <1>5, MappedList

LEMMA NewPayload ==
  ASSUME NewTableShape, Acceptable, NEW id \in Nat, NEW pk \in BOOLEAN, NEW auto \in BOOLEAN
  PROVE  /\ Payload(id, pk, auto) \in NewField
         /\ Payload(id, pk, auto).id = id /\ Payload(id, pk, auto).name = fieldForm.name
         /\ Payload(id, pk, auto).pk = pk /\ Payload(id, pk, auto).auto = auto
<1> DEFINE o == IF fieldForm.type = "select" THEN OptionValues ELSE <<>>
<1>1. o \in Seq(OptionTexts)
      BY OptionTextsSaved
<1>2. /\ fieldForm.name \in FieldNames /\ fieldForm.type \in Types
      /\ fieldForm.dbType \in {"default", "custom"}
      BY DEF NewTableShape, FieldForm, Acceptable
<1>3. Payload(id, pk, auto) = [id |-> id, name |-> fieldForm.name, type |-> fieldForm.type,
        dbType |-> fieldForm.dbType, pk |-> pk, auto |-> auto, options |-> o]
      BY DEF Payload
<1> HIDE DEF o
<1> QED BY <1>1, <1>2, <1>3 DEF NewField

LEMMA AddsFieldKeeps ==
  ASSUME NewTableInv, SubmitsField, fieldForm.id = NoId PROVE NewTableInv'
<1> DEFINE f == newFields
           g == newFields'
           e == Payload(newCount, FALSE, FALSE)
<1>1. /\ g = Append(f, e) /\ newCount' = newCount + 1 /\ doubled' = (doubled \/ fieldForm.at = "closing")
      /\ fieldForm' = [fieldForm EXCEPT !.at = "closing"] /\ fieldForm.at # "closed"
      /\ UNCHANGED <<advanced, submitting, recounted>> /\ clicks' \in 0..MaxClicks /\ ~ submitting
      BY NewTableClick DEF SubmitsField, NewTableInv, Click
<1>2. f \in Seq(NewField) /\ newCount \in Nat \ {0} /\ fieldForm \in FieldForm
      BY DEF NewTableInv, NewTableShape
<1>3. e \in NewField /\ e.id = newCount /\ e.name = fieldForm.name /\ ~ e.pk /\ ~ e.auto
      BY <1>2, NewPayload DEF NewTableInv, SubmitsField
<1> HIDE DEF e
<1>4. /\ g \in Seq(NewField) /\ DOMAIN f \subseteq DOMAIN g
      /\ \A i \in DOMAIN f : g[i] = f[i]
      /\ \A i \in DOMAIN g : i \notin DOMAIN f => g[i] = e
      /\ \A i, j \in DOMAIN g : i \notin DOMAIN f /\ j \notin DOMAIN f => i = j
      BY <1>1, <1>2, <1>3, AppendedList
<1>5. \A i \in DOMAIN f : f[i] \in NewField /\ f[i].id \in Nat
      <2>1. \A i \in DOMAIN f : f[i] \in NewField
            BY <1>2, LenProperties
      <2> QED BY <2>1 DEF NewField
<1>6. KeysRight(g)
      <2>1. KeysRight(f)
            BY DEF NewTableInv, ListRight
      <2>2. \A i \in DOMAIN g : g[i].auto \/ g[i].pk => i \in DOMAIN f
            BY <1>3, <1>4
      <2> QED BY <1>4, <2>1, <2>2 DEF KeysRight
<1>7. ASSUME ~ doubled' PROVE NamesRight(g)
      <2>1. NamesRight(f) /\ fieldForm.at = "open"
            BY <1>1, <1>2, <1>7 DEF NewTableInv, ListRight, FieldForm
      <2>2. \A i \in DOMAIN f : f[i].name # fieldForm.name
            <3>1. ~ TakenBy(NoId, fieldForm.name)
                  BY <2>1 DEF NewTableInv, TakenKnown, SubmitsField, Acceptable
            <3>2. \A i \in DOMAIN f : f[i].id # NoId
                  BY <1>5 DEF NoId
            <3> QED BY <3>1, <3>2 DEF TakenBy
      <2> QED BY <1>3, <1>4, <2>1, <2>2 DEF NamesRight
<1>8. ASSUME ~ recounted' PROVE IdsRight(g, newCount')
      <2>1. IdsRight(f, newCount)
            BY <1>1, <1>8 DEF NewTableInv, ListRight
      <2>2. ASSUME NEW i \in DOMAIN g PROVE g[i].id <= 1 \/ g[i].id < newCount'
            <3>1. CASE i \in DOMAIN f
                  <4>1. f[i].id \in Nat /\ (f[i].id <= 1 \/ f[i].id < newCount)
                        BY <1>5, <2>1, <3>1 DEF IdsRight
                  <4> QED BY <1>1, <1>2, <1>4, <3>1, <4>1
            <3>2. CASE i \notin DOMAIN f
                  BY <1>1, <1>2, <1>3, <1>4, <3>2
            <3> QED BY <3>1, <3>2
      <2>3. ASSUME NEW i \in DOMAIN f, f[i].id = newCount PROVE f[i].id = 1
            <3>1. f[i].id <= 1 \/ f[i].id < newCount
                  BY <2>1 DEF IdsRight
            <3> QED BY <1>2, <1>5, <2>3, <3>1
      <2>4. ASSUME NEW i \in DOMAIN g, NEW j \in DOMAIN g, i # j, g[i].id = g[j].id PROVE g[i].id = 1
            <3>1. CASE i \in DOMAIN f /\ j \in DOMAIN f
                  BY <1>4, <2>1, <2>4, <3>1 DEF IdsRight
            <3>2. CASE i \in DOMAIN f /\ j \notin DOMAIN f
                  BY <1>3, <1>4, <2>3, <2>4, <3>2
            <3>3. CASE i \notin DOMAIN f /\ j \in DOMAIN f
                  BY <1>3, <1>4, <2>3, <2>4, <3>3
            <3> QED BY <1>4, <2>4, <3>1, <3>2, <3>3
      <2> QED BY <2>2, <2>4 DEF IdsRight
<1>9. fieldForm' \in FieldForm /\ fieldForm'.at = "closing" /\ fieldForm'.id = NoId
      BY <1>1, <1>2 DEF FieldForm
<1>10. NewTableShape'
       BY <1>1, <1>2, <1>4, <1>9 DEF NewTableInv, NewTableShape
<1>11. OptionsRight(fieldForm')
       <2>1. /\ fieldForm'.options = fieldForm.options /\ fieldForm'.optionCount = fieldForm.optionCount
             /\ fieldForm'.optionsKept = fieldForm.optionsKept
             BY <1>1, <1>2 DEF FieldForm
       <2> QED BY <2>1 DEF NewTableInv, OptionsRight
<1>12. TakenKnown'
       BY <1>9 DEF TakenKnown
<1> QED BY <1>6, <1>7, <1>8, <1>10, <1>11, <1>12 DEF NewTableInv, ListRight

(* The fields of the form's id get its name, which no other field has.     *)
LEMMA UpdatesFieldKeeps ==
  ASSUME NewTableInv, SubmitsField, fieldForm.id # NoId PROVE NewTableInv'
<1> DEFINE f == newFields
           g == newFields'
<1>1. /\ g = [k \in DOMAIN f |-> IF f[k].id = fieldForm.id THEN Payload(f[k].id, f[k].pk, f[k].auto)
                                 ELSE f[k]]
      /\ UNCHANGED <<newCount, doubled, advanced, submitting, recounted>>
      /\ fieldForm' = [fieldForm EXCEPT !.at = "closing"] /\ fieldForm.at # "closed"
      /\ clicks' \in 0..MaxClicks /\ ~ submitting
      BY NewTableClick DEF SubmitsField, NewTableInv, Click, MapFields
<1>2. f \in Seq(NewField) /\ newCount \in Nat \ {0} /\ fieldForm \in FieldForm
      BY DEF NewTableInv, NewTableShape
<1>3. DOMAIN g = DOMAIN f /\ \A k \in DOMAIN f : f[k] \in NewField
      BY <1>1, <1>2, LenProperties
<1>4. ASSUME NEW k \in DOMAIN f
      PROVE  /\ g[k] \in NewField /\ g[k].id = f[k].id /\ g[k].pk = f[k].pk /\ g[k].auto = f[k].auto
             /\ g[k].name = IF f[k].id = fieldForm.id THEN fieldForm.name ELSE f[k].name
      <2>1. CASE f[k].id = fieldForm.id
            <3>1. g[k] = Payload(f[k].id, f[k].pk, f[k].auto)
                  BY <1>1, <2>1
            <3>2. f[k].id \in Nat /\ f[k].pk \in BOOLEAN /\ f[k].auto \in BOOLEAN
                  BY <1>3 DEF NewField
            <3>3. NewTableShape /\ Acceptable
                  BY DEF NewTableInv, SubmitsField
            <3> QED BY <2>1, <3>1, <3>2, <3>3, NewPayload
      <2>2. CASE f[k].id # fieldForm.id
            BY <1>1, <1>3, <2>2
      <2> QED BY <2>1, <2>2
<1>5. g \in Seq(NewField)
      <2>1. g = [k \in DOMAIN f |-> g[k]]
            BY <1>1
      <2> QED BY <1>2, <1>3, <1>4, <2>1, MappedList
<1>6. KeysRight(g)
      <2>1. KeysRight(f)
            BY DEF NewTableInv, ListRight
      <2> QED BY <1>3, <1>4, <2>1 DEF KeysRight
<1>7. ~ TakenBy(fieldForm.id, fieldForm.name)
      <2>1. fieldForm.at \in {"open", "closing"}
            BY <1>1, <1>2 DEF FieldForm
      <2> QED BY <2>1 DEF NewTableInv, TakenKnown, SubmitsField, Acceptable
<1>8. ASSUME NamesRight(f) PROVE NamesRight(g)
      <2>1. ASSUME NEW i \in DOMAIN f, NEW j \in DOMAIN f, g[i].name = g[j].name
            PROVE  f[i].id = f[j].id
            <3>1. \A k \in DOMAIN f : f[k].id # fieldForm.id => f[k].name # fieldForm.name
                  BY <1>7 DEF TakenBy
            <3> QED BY <1>4, <1>8, <2>1, <3>1 DEF NamesRight
      <2> QED BY <1>3, <1>4, <2>1 DEF NamesRight
<1>9. IdsRight(f, newCount) => IdsRight(g, newCount')
      BY <1>1, <1>3, <1>4 DEF IdsRight
<1>10. fieldForm' \in FieldForm /\ fieldForm'.at = "closing" /\ fieldForm'.id = fieldForm.id
       /\ fieldForm'.name = fieldForm.name
       BY <1>1, <1>2 DEF FieldForm
<1>11. NewTableShape'
       BY <1>1, <1>2, <1>5, <1>10 DEF NewTableInv, NewTableShape
<1>12. OptionsRight(fieldForm')
       <2>1. /\ fieldForm'.options = fieldForm.options /\ fieldForm'.optionCount = fieldForm.optionCount
             /\ fieldForm'.optionsKept = fieldForm.optionsKept
             BY <1>1, <1>2 DEF FieldForm
       <2> QED BY <2>1 DEF NewTableInv, OptionsRight
<1>13. TakenKnown'
       <2>1. \A k \in DOMAIN g : g[k].id # fieldForm.id => g[k].name # fieldForm.name
             BY <1>3, <1>4, <1>7 DEF TakenBy
       <2> QED BY <1>10, <2>1 DEF TakenKnown, TakenBy
<1> QED BY <1>1, <1>6, <1>8, <1>9, <1>11, <1>12, <1>13 DEF NewTableInv, ListRight

(* What changes only the form                                              *)
LEMMA OnlyForm ==
  ASSUME NewTableInv, UNCHANGED <<newFields, newCount, advanced, submitting, recounted, doubled>>,
         clicks' \in 0..MaxClicks, fieldForm' \in FieldForm, submitting => fieldForm'.at = "closed",
         TakenKnown', OptionsRight(fieldForm')
  PROVE  NewTableInv'
<1>1. NewTableShape'
      BY DEF NewTableInv, NewTableShape
<1> QED BY <1>1 DEF NewTableInv, ListRight

LEMMA OpensFieldFormKeeps == ASSUME NewTableInv, OpensFieldForm PROVE NewTableInv'
<1>1. /\ UNCHANGED <<newFields, newCount, advanced, submitting, recounted, doubled>>
      /\ clicks' \in 0..MaxClicks /\ ~ submitting
      BY NewTableClick DEF OpensFieldForm, FormClick, Click, NewTableInv
<1>2. CASE fieldForm' = [ClosedFieldForm EXCEPT !.at = "open", !.taken = TakenBy(NoId, "")]
      <2>1. /\ fieldForm' \in FieldForm /\ fieldForm'.at = "open" /\ fieldForm'.id = NoId
            /\ fieldForm'.name = "" /\ fieldForm'.taken = TakenBy(NoId, "")
            /\ fieldForm'.options = ClosedFieldForm.options
            /\ fieldForm'.optionCount = ClosedFieldForm.optionCount
            /\ fieldForm'.optionsKept = ClosedFieldForm.optionsKept
            <3>1. TakenBy(NoId, "") \in BOOLEAN
                  BY DEF TakenBy
            <3>2. ClosedFieldForm.id = NoId /\ ClosedFieldForm.name = ""
                  BY DEF ClosedFieldForm
            <3> QED BY <1>2, <3>1, <3>2, ClosedFormRight DEF FieldForm
      <2>2. TakenKnown'
            BY <1>1, <2>1 DEF TakenKnown, TakenBy
      <2>3. OptionsRight(fieldForm')
            BY <2>1, ClosedFormRight DEF OptionsRight
      <2> QED BY <1>1, <2>1, <2>2, <2>3, OnlyForm
<1>3. CASE \E i \in DOMAIN newFields :
             fieldForm' = [ClosedFieldForm EXCEPT
               !.at = "open", !.id = newFields[i].id, !.name = newFields[i].name,
               !.type = newFields[i].type, !.dbType = "default",
               !.taken = TakenBy(newFields[i].id, newFields[i].name),
               !.options = [k \in DOMAIN newFields[i].options |->
                              [id |-> k - 1, value |-> newFields[i].options[k]]],
               !.optionsKept = TRUE]
      <2>1. PICK i \in DOMAIN newFields :
             fieldForm' = [ClosedFieldForm EXCEPT
               !.at = "open", !.id = newFields[i].id, !.name = newFields[i].name,
               !.type = newFields[i].type, !.dbType = "default",
               !.taken = TakenBy(newFields[i].id, newFields[i].name),
               !.options = [k \in DOMAIN newFields[i].options |->
                              [id |-> k - 1, value |-> newFields[i].options[k]]],
               !.optionsKept = TRUE]
            BY <1>3
      <2> DEFINE e == newFields[i]
                 o == [k \in DOMAIN e.options |-> [id |-> k - 1, value |-> e.options[k]]]
      <2>2. e \in NewField
            BY LenProperties DEF NewTableInv, NewTableShape
      <2>3. o \in Seq(OptionItem)
            <3>1. /\ e.options \in Seq(OptionTexts)
                  BY <2>2 DEF NewField
            <3>2. /\ DOMAIN e.options = 1..Len(e.options) /\ Len(e.options) \in Nat
                  /\ \A k \in DOMAIN e.options : e.options[k] \in OptionTexts
                  BY <3>1, LenProperties
            <3>3. DOMAIN o = DOMAIN e.options /\ o = [k \in DOMAIN e.options |-> o[k]]
                  OBVIOUS
            <3>4. ASSUME NEW k \in DOMAIN e.options PROVE o[k] \in OptionItem
                  <4>1. k - 1 \in Nat
                        BY <3>2
                  <4>2. o[k] = [id |-> k - 1, value |-> e.options[k]]
                        OBVIOUS
                  <4> QED BY <3>2, <4>1, <4>2 DEF OptionItem
            <3> HIDE DEF o, e
            <3> QED BY <3>1, <3>3, <3>4, MappedList
      <2>4. TakenBy(e.id, e.name) \in BOOLEAN
            BY DEF TakenBy
      <2>5. e.id \in Nat /\ e.name \in FieldNames /\ e.type \in Types
            BY <2>2 DEF NewField
      <2>6. fieldForm' = [ClosedFieldForm EXCEPT
              !.at = "open", !.id = e.id, !.name = e.name, !.type = e.type, !.dbType = "default",
              !.taken = TakenBy(e.id, e.name), !.options = o, !.optionsKept = TRUE]
            BY <2>1
      <2> HIDE DEF o, e
      <2>7. /\ fieldForm' \in FieldForm /\ fieldForm'.at = "open" /\ fieldForm'.id = e.id
            /\ fieldForm'.name = e.name /\ fieldForm'.taken = TakenBy(e.id, e.name)
            /\ fieldForm'.optionsKept
            BY <2>3, <2>4, <2>5, <2>6, ClosedFormRight DEF FieldForm
      <2>8. TakenKnown'
            BY <1>1, <2>7 DEF TakenKnown, TakenBy
      <2>9. OptionsRight(fieldForm')
            BY <2>7 DEF OptionsRight
      <2> QED BY <1>1, <2>7, <2>8, <2>9, OnlyForm
<1> QED BY <1>2, <1>3 DEF OpensFieldForm

LEMMA FieldFormKeeps ==
  ASSUME NewTableInv, NamesField \/ ChoosesType \/ ChangesDataType \/ ClosesFieldForm
  PROVE  NewTableInv'
<1>1. fieldForm \in FieldForm /\ OptionsRight(fieldForm) /\ TakenKnown
      BY DEF NewTableInv, NewTableShape
<1>2. ASSUME FormClick
      PROVE  /\ UNCHANGED <<newFields, newCount, advanced, submitting, recounted, doubled>>
             /\ clicks' \in 0..MaxClicks /\ ~ submitting
      BY <1>2, NewTableClick DEF FormClick, Click, NewTableInv
<1>3. CASE NamesField
      <2>1. PICK n \in NewNames \cup {"name"} :
              fieldForm' = [fieldForm EXCEPT !.name = n, !.taken = TakenBy(fieldForm.id, n)]
            BY <1>3 DEF NamesField
      <2>2. TakenBy(fieldForm.id, n) \in BOOLEAN /\ n \in FieldNames /\ fieldForm.at = "open" /\ FormClick
            BY <1>3 DEF TakenBy, FieldNames, NamesField
      <2>3. /\ fieldForm' \in FieldForm /\ fieldForm'.at = "open" /\ fieldForm'.id = fieldForm.id
            /\ fieldForm'.name = n /\ fieldForm'.taken = TakenBy(fieldForm.id, n)
            /\ fieldForm'.options = fieldForm.options /\ fieldForm'.optionCount = fieldForm.optionCount
            /\ fieldForm'.optionsKept = fieldForm.optionsKept
            BY <1>1, <2>1, <2>2 DEF FieldForm
      <2>4. TakenKnown' /\ OptionsRight(fieldForm')
            BY <1>1, <1>2, <2>2, <2>3 DEF TakenKnown, TakenBy, OptionsRight
      <2> QED BY <1>2, <2>2, <2>3, <2>4, OnlyForm
<1>4. CASE ChangesDataType
      <2>1. PICK d \in {"custom", ""} : fieldForm' = [fieldForm EXCEPT !.dbType = d]
            BY <1>4 DEF ChangesDataType
      <2>2. fieldForm.at = "open" /\ FormClick
            BY <1>4 DEF ChangesDataType
      <2>3. /\ fieldForm' \in FieldForm /\ fieldForm'.at = "open" /\ fieldForm'.id = fieldForm.id
            /\ fieldForm'.name = fieldForm.name /\ fieldForm'.taken = fieldForm.taken
            /\ fieldForm'.options = fieldForm.options /\ fieldForm'.optionCount = fieldForm.optionCount
            /\ fieldForm'.optionsKept = fieldForm.optionsKept
            BY <1>1, <2>1, <2>2 DEF FieldForm
      <2>4. TakenKnown' /\ OptionsRight(fieldForm')
            BY <1>1, <1>2, <2>2, <2>3 DEF TakenKnown, TakenBy, OptionsRight
      <2> QED BY <1>2, <2>2, <2>3, <2>4, OnlyForm
<1>5. CASE ChoosesType
      <2>1. fieldForm.at = "open" /\ FormClick
            BY <1>5 DEF ChoosesType
      <2>2. /\ fieldForm' \in FieldForm /\ fieldForm'.at = "open" /\ fieldForm'.id = fieldForm.id
            /\ fieldForm'.name = fieldForm.name /\ fieldForm'.taken = fieldForm.taken
            /\ fieldForm'.options = fieldForm.options
            /\ ~ fieldForm'.optionsKept => /\ ~ fieldForm.optionsKept
                                           /\ fieldForm'.optionCount = fieldForm.optionCount
            <3>1. CASE fieldForm.type # "none"
                  <4> DEFINE keeps == fieldForm.optionsKept \/ fieldForm.optionCount > 1
                  <4>1. fieldForm' = [fieldForm EXCEPT !.type = "none", !.optionCount = 1, !.optionsKept = keeps]
                        BY <1>5, <3>1 DEF ChoosesType
                  <4>2. keeps \in BOOLEAN
                        OBVIOUS
                  <4>3. ~ keeps => ~ fieldForm.optionsKept /\ fieldForm.optionCount = 1
                        <5>1. fieldForm.optionCount \in Nat \ {0}
                              BY <1>1 DEF FieldForm
                        <5>2. fieldForm.optionCount > 1 \/ fieldForm.optionCount = 1
                              BY <5>1
                        <5> QED BY <5>2
                  <4> HIDE DEF keeps
                  <4>4. PICK b \in BOOLEAN : b = keeps
                        BY <4>2
                  <4>5. fieldForm' = [fieldForm EXCEPT !.type = "none", !.optionCount = 1, !.optionsKept = b]
                        BY <4>1, <4>4
                  <4>6. /\ fieldForm' \in FieldForm /\ fieldForm'.at = "open" /\ fieldForm'.id = fieldForm.id
                        /\ fieldForm'.name = fieldForm.name /\ fieldForm'.taken = fieldForm.taken
                        /\ fieldForm'.options = fieldForm.options
                        /\ fieldForm'.optionsKept = b /\ fieldForm'.optionCount = 1
                        <5>1. 1 \in Nat \ {0} /\ "none" \in Types \cup {"none"}
                              OBVIOUS
                        <5> QED BY <1>1, <2>1, <4>5, <5>1 DEF FieldForm
                  <4> QED BY <4>3, <4>4, <4>6
            <3>2. CASE fieldForm.type = "none"
                  <4>1. PICK t \in Types : fieldForm' = [fieldForm EXCEPT !.type = t, !.dbType = "default"]
                        BY <1>5, <3>2 DEF ChoosesType
                  <4> QED BY <1>1, <2>1, <4>1 DEF FieldForm
            <3> QED BY <3>1, <3>2
      <2>3. TakenKnown' /\ OptionsRight(fieldForm')
            BY <1>1, <1>2, <2>1, <2>2 DEF TakenKnown, TakenBy, OptionsRight
      <2> QED BY <1>2, <2>1, <2>2, <2>3, OnlyForm
<1>6. CASE ClosesFieldForm
      <2>1. /\ fieldForm' \in FieldForm /\ fieldForm'.at = "closed" /\ OptionsRight(fieldForm')
            /\ UNCHANGED <<newFields, newCount, advanced, submitting, recounted, doubled, clicks>>
            <3>1. ClosedFieldForm.at = "closed"
                  BY DEF ClosedFieldForm
            <3> QED BY <1>6, <3>1, ClosedFormRight DEF ClosesFieldForm
      <2>2. clicks' \in 0..MaxClicks
            BY <2>1 DEF NewTableInv, NewTableShape
      <2> QED BY <2>1, <2>2, OnlyForm DEF TakenKnown
<1> QED BY <1>3, <1>4, <1>5, <1>6

LEMMA ChangesOptionsKeeps == ASSUME NewTableInv, ChangesOptions PROVE NewTableInv'
<1> DEFINE o == fieldForm.options
           p == fieldForm'.options
<1>1. /\ fieldForm \in FieldForm /\ OptionsRight(fieldForm) /\ TakenKnown /\ fieldForm.at = "open"
      /\ UNCHANGED <<newFields, newCount, advanced, submitting, recounted, doubled>>
      /\ clicks' \in 0..MaxClicks /\ ~ submitting
      BY NewTableClick DEF NewTableInv, NewTableShape, ChangesOptions, FormClick, Click
<1>2. /\ o \in Seq(OptionItem) /\ \A i \in DOMAIN o : o[i] \in OptionItem
      /\ fieldForm.optionCount \in Nat \ {0}
      <2>1. o \in Seq(OptionItem) /\ fieldForm.optionCount \in Nat \ {0}
            BY <1>1 DEF FieldForm
      <2> HIDE DEF o
      <2>2. \A i \in DOMAIN o : o[i] \in OptionItem
            BY <2>1, LenProperties
      <2> QED BY <2>1, <2>2 DEF o
<1>3. SUFFICES /\ fieldForm' \in FieldForm /\ OptionsRight(fieldForm')
               /\ fieldForm'.at = "open" /\ fieldForm'.id = fieldForm.id
               /\ fieldForm'.name = fieldForm.name /\ fieldForm'.taken = fieldForm.taken
      <2>1. TakenKnown'
            BY <1>1, <1>3 DEF TakenKnown, TakenBy
      <2> QED BY <1>1, <1>3, <2>1, OnlyForm
<1>4. ASSUME NEW q \in Seq(OptionItem), fieldForm' = [fieldForm EXCEPT !.options = q],
             ~ fieldForm.optionsKept =>
               /\ \A i \in DOMAIN q : q[i].id < fieldForm.optionCount
               /\ \A i, j \in DOMAIN q : i # j => q[i].id # q[j].id
      PROVE  /\ fieldForm' \in FieldForm /\ OptionsRight(fieldForm')
             /\ fieldForm'.at = "open" /\ fieldForm'.id = fieldForm.id
             /\ fieldForm'.name = fieldForm.name /\ fieldForm'.taken = fieldForm.taken
      <2>1. /\ fieldForm' \in FieldForm
            /\ fieldForm'.at = "open" /\ fieldForm'.id = fieldForm.id
            /\ fieldForm'.name = fieldForm.name /\ fieldForm'.taken = fieldForm.taken
            /\ fieldForm'.options = q /\ fieldForm'.optionCount = fieldForm.optionCount
            /\ fieldForm'.optionsKept = fieldForm.optionsKept
            BY <1>1, <1>4 DEF FieldForm
      <2> QED BY <1>4, <2>1 DEF OptionsRight
<1>5. CASE \E i \in DOMAIN o :
             fieldForm' = [fieldForm EXCEPT !.options = Filtered(o, {j \in DOMAIN o : o[j].id # o[i].id})]
      <2>1. PICK i \in DOMAIN o :
              fieldForm' = [fieldForm EXCEPT !.options = Filtered(o, {j \in DOMAIN o : o[j].id # o[i].id})]
            BY <1>5
      <2> DEFINE keep == {j \in DOMAIN o : o[j].id # o[i].id}
                 q == Filtered(o, keep)
      <2>2. keep \in SUBSET DOMAIN o
            OBVIOUS
      <2> HIDE DEF keep
      <2>3. q \in Seq(OptionItem) /\ DOMAIN q = 1..Len(q) /\ \E r : FromPlaces(q, o, r, keep)
            BY <1>2, <2>2, FilteredList
      <2>4. fieldForm' = [fieldForm EXCEPT !.options = q]
            BY <2>1 DEF keep
      <2> HIDE DEF q, o
      <2>5. PICK r : /\ \A k \in DOMAIN q : r[k] \in DOMAIN o /\ q[k] = o[r[k]]
                     /\ \A k, l \in DOMAIN q : k # l => r[k] # r[l]
            BY <2>2, <2>3 DEF FromPlaces
      <2>6. ~ fieldForm.optionsKept =>
               /\ \A k \in DOMAIN q : q[k].id < fieldForm.optionCount
               /\ \A k, l \in DOMAIN q : k # l => q[k].id # q[l].id
            BY <1>1, <2>5 DEF OptionsRight, o
      <2> QED BY <1>4, <2>3, <2>4, <2>6
<1>6. CASE \E i \in DOMAIN o, v \in OptionTexts :
             fieldForm' = [fieldForm EXCEPT !.options =
                [k \in DOMAIN o |-> IF o[k].id = o[i].id THEN [o[k] EXCEPT !.value = v] ELSE o[k]]]
      <2>1. PICK i \in DOMAIN o, v \in OptionTexts :
             fieldForm' = [fieldForm EXCEPT !.options =
                [k \in DOMAIN o |-> IF o[k].id = o[i].id THEN [o[k] EXCEPT !.value = v] ELSE o[k]]]
            BY <1>6
      <2> DEFINE q == [k \in DOMAIN o |-> IF o[k].id = o[i].id THEN [o[k] EXCEPT !.value = v] ELSE o[k]]
      <2>2. ASSUME NEW k \in DOMAIN o PROVE q[k] \in OptionItem /\ q[k].id = o[k].id
            <3>1. o[k] \in OptionItem /\ v \in OptionTexts
                  BY <1>2
            <3>2. CASE o[k].id = o[i].id
                  BY <3>1, <3>2 DEF OptionItem
            <3>3. CASE o[k].id # o[i].id
                  BY <3>1, <3>3
            <3> QED BY <3>2, <3>3
      <2>3. q = [k \in DOMAIN o |-> q[k]] /\ DOMAIN q = DOMAIN o
            OBVIOUS
      <2>4. fieldForm' = [fieldForm EXCEPT !.options = q]
            BY <2>1
      <2> HIDE DEF q
      <2>5. q \in Seq(OptionItem)
            BY <1>2, <2>2, <2>3, MappedList
      <2>6. ~ fieldForm.optionsKept =>
               /\ \A k \in DOMAIN q : q[k].id < fieldForm.optionCount
               /\ \A k, l \in DOMAIN q : k # l => q[k].id # q[l].id
            <3>1. ~ fieldForm.optionsKept =>
                    /\ \A k \in DOMAIN o : o[k].id < fieldForm.optionCount
                    /\ \A k, l \in DOMAIN o : k # l => o[k].id # o[l].id
                  BY <1>1 DEF OptionsRight
            <3> HIDE DEF o
            <3> QED BY <2>2, <2>3, <3>1
      <2> QED BY <1>4, <2>4, <2>5, <2>6
<1>7. CASE fieldForm' = [fieldForm EXCEPT
             !.options = Append(o, [id |-> fieldForm.optionCount, value |-> ""]),
             !.optionCount = OptionCountAfter(fieldForm)]
      <2> DEFINE e == [id |-> fieldForm.optionCount, value |-> ""]
                 q == Append(o, e)
                 c == fieldForm.optionCount
      <2>1. e \in OptionItem /\ e.id = c
            BY <1>2 DEF OptionItem
      <2>2. c \in Nat \ {0} /\ OptionCountAfter(fieldForm) = c + 1 /\ c + 1 \in Nat \ {0}
            BY <1>2 DEF OptionCountAfter
      <2>3. fieldForm' = [fieldForm EXCEPT !.options = q, !.optionCount = c + 1]
            BY <1>7, <2>2
      <2> HIDE DEF e
      <2>4. /\ q \in Seq(OptionItem) /\ \A i \in DOMAIN o : q[i] = o[i]
            /\ \A i \in DOMAIN q : i \notin DOMAIN o => q[i] = e
            /\ \A i, j \in DOMAIN q : i \notin DOMAIN o /\ j \notin DOMAIN o => i = j
            BY <1>2, <2>1, AppendedList
      <2> HIDE DEF q
      <2>5. /\ fieldForm' \in FieldForm
            /\ fieldForm'.at = "open" /\ fieldForm'.id = fieldForm.id
            /\ fieldForm'.name = fieldForm.name /\ fieldForm'.taken = fieldForm.taken
            /\ fieldForm'.options = q /\ fieldForm'.optionCount = c + 1
            /\ fieldForm'.optionsKept = fieldForm.optionsKept
            BY <1>1, <2>2, <2>3, <2>4 DEF FieldForm
      <2>6. ASSUME ~ fieldForm.optionsKept
            PROVE  /\ \A k \in DOMAIN q : q[k].id < c + 1
                   /\ \A k, l \in DOMAIN q : k # l => q[k].id # q[l].id
            <3>1. \A k \in DOMAIN o : o[k].id \in Nat /\ o[k].id < c
                  <4>1. \A k \in DOMAIN o : o[k].id \in Nat
                        BY <1>2 DEF OptionItem
                  <4> QED BY <1>1, <2>6, <4>1 DEF OptionsRight
            <3>2. \A k, l \in DOMAIN o : k # l => o[k].id # o[l].id
                  BY <1>1, <2>6 DEF OptionsRight
            <3>3. \A k \in DOMAIN o : o[k].id < c + 1 /\ o[k].id # c
                  BY <2>2, <3>1
            <3>4. c < c + 1
                  BY <2>2
            <3> HIDE DEF c, o
            <3>5. \A k \in DOMAIN q : q[k].id < c + 1
                  BY <2>1, <2>4, <3>3, <3>4
            <3>6. ASSUME NEW k \in DOMAIN q, NEW l \in DOMAIN q, k # l PROVE q[k].id # q[l].id
                  <4>1. CASE k \in DOMAIN o /\ l \in DOMAIN o
                        BY <2>4, <3>2, <3>6, <4>1
                  <4>2. CASE k \in DOMAIN o /\ l \notin DOMAIN o
                        BY <2>1, <2>4, <3>3, <4>2
                  <4>3. CASE k \notin DOMAIN o /\ l \in DOMAIN o
                        BY <2>1, <2>4, <3>3, <4>3
                  <4> QED BY <2>4, <3>6, <4>1, <4>2, <4>3
            <3> QED BY <3>5, <3>6
      <2> QED BY <2>5, <2>6 DEF OptionsRight
<1> QED BY <1>5, <1>6, <1>7 DEF ChangesOptions

LEMMA NewTablePageKeeps ==
  ASSUME NewTableInv, TogglesAdvanced \/ SubmitsTable \/ TableCreated \/ VisitNewTable
  PROVE  NewTableInv'
<1>1. ASSUME newFields' = FirstFields, newCount' = 1
      PROVE  /\ newFields' \in Seq(NewField) /\ newCount' \in Nat \ {0}
             /\ KeysRight(newFields') /\ NamesRight(newFields') /\ IdsRight(newFields', newCount')
      BY <1>1, FirstFieldsRight
<1>2. CASE TogglesAdvanced
      <2>1. /\ UNCHANGED <<newFields, fieldForm, submitting, doubled>> /\ clicks' \in 0..MaxClicks
            /\ advanced' \in BOOLEAN /\ newCount' = 1 /\ recounted' = (recounted \/ newCount > 1)
            /\ newCount \in Nat \ {0} /\ fieldForm.at = "closed"
            BY <1>2, NewTableClick DEF TogglesAdvanced, Click, NewTableInv, NewTableShape
      <2>2. recounted' \in BOOLEAN
            BY <2>1
      <2>3. ~ recounted' => ~ recounted /\ newCount' = newCount
            <3>1. newCount > 1 \/ newCount = 1
                  BY <2>1
            <3> QED BY <2>1, <3>1
      <2>4. NewTableShape'
            BY <2>1, <2>2 DEF NewTableInv, NewTableShape
      <2> QED BY <2>1, <2>3, <2>4 DEF NewTableInv, ListRight, TakenKnown
<1>3. CASE SubmitsTable
      <2>1. /\ UNCHANGED <<newFields, newCount, advanced, fieldForm, recounted, doubled>>
            /\ clicks' \in 0..MaxClicks /\ submitting' = TRUE /\ fieldForm.at = "closed"
            BY <1>3, NewTableClick DEF SubmitsTable, NewTableInv
      <2>2. NewTableShape'
            BY <2>1 DEF NewTableInv, NewTableShape
      <2> QED BY <2>1, <2>2 DEF NewTableInv, ListRight, TakenKnown
<1>4. CASE TableCreated
      <2>1. CASE UNCHANGED <<newFields, newCount, advanced, fieldForm, recounted, doubled, clicks>>
            <3>1. submitting' = FALSE
                  BY <1>4 DEF TableCreated
            <3>2. NewTableShape'
                  BY <2>1, <3>1 DEF NewTableInv, NewTableShape
            <3> QED BY <2>1, <3>2 DEF NewTableInv, ListRight, TakenKnown, TakenBy
      <2>2. CASE /\ newFields' = FirstFields /\ newCount' = 1 /\ clicks' = 0
                 /\ recounted' = FALSE /\ doubled' = FALSE /\ UNCHANGED <<advanced, fieldForm>>
            <3>1. submitting' = FALSE /\ fieldForm.at = "closed"
                  BY <1>4 DEF TableCreated, NewTableInv, NewTableShape
            <3>2. NewTableShape'
                  BY <1>1, <2>2, <3>1, NoClicks DEF NewTableInv, NewTableShape
            <3> QED BY <1>1, <2>2, <3>1, <3>2 DEF NewTableInv, ListRight, TakenKnown
      <2> QED BY <1>4, <2>1, <2>2 DEF TableCreated
<1>5. CASE VisitNewTable
      <2>1. /\ newFields' = FirstFields /\ newCount' = 1 /\ clicks' = 0 /\ advanced' = FALSE
            /\ fieldForm' = ClosedFieldForm /\ recounted' = FALSE /\ doubled' = FALSE
            /\ submitting' = submitting
            BY <1>5 DEF VisitNewTable
      <2>2. ClosedFieldForm.at = "closed"
            BY DEF ClosedFieldForm
      <2>3. NewTableShape'
            BY <1>1, <2>1, <2>2, ClosedFormRight, NoClicks DEF NewTableInv, NewTableShape
      <2> QED BY <1>1, <2>1, <2>2, <2>3, ClosedFormRight DEF NewTableInv, ListRight, TakenKnown
<1> QED BY <1>2, <1>3, <1>4, <1>5

LEMMA NewTableInitInv == NewTableInit => NewTableInv
<1> SUFFICES ASSUME NewTableInit PROVE NewTableInv
    OBVIOUS
<1>1. ClosedFieldForm.at = "closed"
      BY DEF ClosedFieldForm
<1>2. NewTableShape
      <2>1. newFields \in Seq(NewField) /\ fieldForm \in FieldForm /\ clicks \in 0..MaxClicks
            BY FirstFieldsRight, ClosedFormRight, NoClicks DEF NewTableInit
      <2>2. newCount = 1 /\ 1 \in Nat \ {0} /\ ~ submitting
            BY DEF NewTableInit
      <2> QED BY <2>1, <2>2 DEF NewTableInit, NewTableShape
<1> QED BY <1>1, <1>2, FirstFieldsRight, ClosedFormRight DEF NewTableInit, NewTableInv, ListRight, TakenKnown

LEMMA NewTableNextKeeps == NewTableInv /\ [NewTableNext]_newTableVars => NewTableInv'
<1>1. ASSUME NewTableInv, UNCHANGED newTableVars PROVE NewTableInv'
      <2>1. UNCHANGED <<newFields, newCount, advanced, fieldForm, submitting, recounted, doubled, clicks>>
            BY <1>1 DEF newTableVars
      <2>2. NewTableShape'
            BY <1>1, <2>1 DEF NewTableInv, NewTableShape
      <2> QED BY <1>1, <2>1, <2>2 DEF NewTableInv, ListRight, TakenKnown, TakenBy
<1>2. NewTableInv /\ SubmitsField => NewTableInv'
      BY AddsFieldKeeps, UpdatesFieldKeeps
<1>3. NewTableInv /\ CreateTableFields => NewTableInv'
      BY ReordersNewKeeps, TogglesPrimaryKeyKeeps, TogglesAutoIncrementKeeps, RemovesNewKeeps,
         OpensFieldFormKeeps DEF CreateTableFields
<1>4. NewTableInv /\ CreateTableAddField => NewTableInv'
      BY <1>2, FieldFormKeeps, ChangesOptionsKeeps DEF CreateTableAddField
<1> QED BY <1>1, <1>3, <1>4, NewTablePageKeeps DEF NewTableNext

(* The types of the list, the form and the counters hold in every          *)
(* reachable state.                                                        *)
THEOREM NewTableTypeCorrect == NewTableSpec => []NewTableTypeOK
<1>1. NewTableInv => NewTableTypeOK
      <2> SUFFICES ASSUME NewTableInv PROVE NewTableTypeOK
          OBVIOUS
      <2>1. \A i \in DOMAIN newFields : newFields[i] \in NewField
            BY LenProperties DEF NewTableInv, NewTableShape
      <2>2. /\ fieldForm.at \in {"closed", "open", "closing"} /\ fieldForm.type \in Types \cup {"none"}
            /\ fieldForm.options \in Seq(OptionItem)
            BY DEF NewTableInv, NewTableShape, FieldForm
      <2> QED BY <2>1, <2>2 DEF NewTableInv, NewTableShape, NewField, NewTableTypeOK
<1> QED BY <1>1, NewTableInitInv, NewTableNextKeeps, PTL DEF NewTableSpec

(* However keys are set, unset and dragged, and fields removed and updated,*)
(* a key that increments is the only one.                                  *)
THEOREM OneKeyIncrements == NewTableSpec => []OneIncrementing
<1>1. NewTableInv => OneIncrementing
      <2> SUFFICES ASSUME NewTableInv, NEW i \in PrimaryKeys, newFields[i].auto
                   PROVE  Cardinality(PrimaryKeys) = 1
          BY DEF OneIncrementing
      <2>1. PrimaryKeys = {i}
            BY DEF NewTableInv, ListRight, KeysRight, PrimaryKeys
      <2> QED BY <2>1, FS_Singleton
<1> QED BY <1>1, NewTableInitInv, NewTableNextKeeps, PTL DEF NewTableSpec

(* Fields of one name are one for everything the list does with an id,     *)
(* unless a field was added twice.                                         *)
THEOREM OneNameOneId == NewTableSpec => []SameNameSameId
<1>1. NewTableInv => SameNameSameId
      BY DEF NewTableInv, ListRight, NamesRight, SameNameSameId
<1> QED BY <1>1, NewTableInitInv, NewTableNextKeeps, PTL DEF NewTableSpec

(* Until a counter begins again, the ids it gives are told apart.          *)
THEOREM NewIdsDiffer == NewTableSpec => []IdsDistinct
<1>1. NewTableInv => IdsDistinct
      BY DEF NewTableInv, ListRight, IdsRight, OptionsRight, IdsDistinct
<1> QED BY <1>1, NewTableInitInv, NewTableNextKeeps, PTL DEF NewTableSpec

-----------------------------------------------------------------------------
(* Permissions.  ChoiceHonoured is not inductive: an updater that finds    *)
(* the guest's choice unchanged leaves the lists alone, so they must       *)
(* already say what the choice says.  Listed is that fact, for each custom *)
(* guest with a choice, whatever the group of the resource is at the time. *)

(* What the lists alone say of a custom guest                              *)
InLists(res, g) ==
  g \notin res.restricted /\ (HasAccess("custom", res.access) \/ g \in res.allowed)

Listed ==
  resource # "base" =>
    \A g \in Guests : guests[g].access = "custom" /\ guests[g].perm # "unset" =>
      (InLists(granted, g) <=> guests[g].perm = "yes")

AnyGrant == [access : DOMAIN AccessGroup, allowed : SUBSET Guests, restricted : SUBSET Guests,
             roles : SUBSET GuestRoles]

(* The arguments of a request fit what it asks for.                        *)
Fits(r) ==
  /\ DOMAIN r = {"op", "args", "res", "people", "answer", "closes"}
  /\ r.res \in AnyGrant /\ r.people \in Permitted /\ r.answer \in {"none", "ok", "error"}
  /\ r.op \in {"access", "roles", "decide", "role", "remove", "configure", "invite"}
  /\ r.op = "access" => r.args[1] \in Accesses
  /\ r.op = "roles" => r.args[1] \in SUBSET GuestRoles
  /\ r.op \in {"decide", "roles"} => r.res \in Granted
  /\ r.op \in {"decide", "role", "remove", "configure", "invite"} => r.args[1] \in Guests
  /\ r.op = "decide" => r.args[2] \in BOOLEAN
  /\ r.op \in {"role", "invite"} => r.args[2] \in GuestRoles
  /\ r.op = "configure" => r.args[2] \in GuestChoice
  /\ r.op = "invite" => r.args[3] \in {"yes", "no"}

ServerShapes == granted \in Granted /\ guests \in Permitted /\ workers \subseteq Guests
ServerOK == ServerShapes /\ Listed

CacheTypes == cachedGrant \in Granted /\ cachedGuests \in Permitted

ModalShapes ==
  /\ guestModal \in [list : {"closed", "allowed", "restricted"}, saw : AnyGrant]
  /\ guestModal.list # "closed" => guestModal.saw \in Granted
  /\ configured \in [guest : Guests \cup {"nobody"}, was : GuestChoice, shown : GuestChoice]

RequestShapes ==
  /\ \A r \in asked : Fits(r)
  /\ permSaving \in BOOLEAN /\ sameAccess \in BOOLEAN /\ sentCount \in 0..MaxSent
  /\ SavingEnds

PermInv == resource \in Resources /\ ServerOK /\ CacheTypes /\ ModalShapes /\ RequestShapes

LEMMA PermInvTypes == PermInv => PermTypeOK
<1>1. ASSUME \A r \in asked : Fits(r)
      PROVE  \A r \in asked : /\ r.res.access \in DOMAIN AccessGroup
                              /\ r.people \in Permitted /\ r.answer \in {"none", "ok", "error"}
      BY <1>1 DEF Fits, AnyGrant
<1> QED BY <1>1 DEF PermInv, PermTypeOK, ServerOK, ServerShapes, CacheTypes, ModalShapes, RequestShapes

-----------------------------------------------------------------------------
(* The lists                                                               *)

LEMMA SpecificGroup == Specific \in DOMAIN AccessGroup /\ AccessGroup[Specific] = {}
BY DEF AccessGroup, Specific

LEMMA GrantedIsAny == Granted \subseteq AnyGrant
BY PermissionsAssumption DEF Granted, AnyGrant

(* Listing a guest as allowed or not makes the lists say so, and says      *)
(* nothing new of any other guest.                                         *)
LEMMA ListingDecides ==
  ASSUME NEW res \in Granted, NEW g \in Guests, NEW allow \in BOOLEAN
  PROVE  /\ ListGuest(res, g, allow) \in Granted
         /\ ListGuest(res, g, allow).access = res.access
         /\ InLists(ListGuest(res, g, allow), g) <=> allow
         /\ \A h \in Guests \ {g} : InLists(ListGuest(res, g, allow), h) <=> InLists(res, h)
<1>1. CASE allow
      BY <1>1 DEF ListGuest, Granted, InLists
<1>2. CASE ~ allow
      BY <1>2 DEF ListGuest, Granted, InLists
<1> QED BY <1>1, <1>2

LEMMA UnlistingDecides ==
  ASSUME NEW res \in Granted, NEW g \in Guests
  PROVE  /\ UnlistGuest(res, g) \in Granted
         /\ UnlistGuest(res, g).access = res.access
         /\ InLists(UnlistGuest(res, g), g) <=> HasAccess("custom", res.access)
         /\ \A h \in Guests \ {g} : InLists(UnlistGuest(res, g), h) <=> InLists(res, h)
BY DEF UnlistGuest, Granted, InLists

LEMMA RelistingDecides ==
  ASSUME NEW res \in Granted, NEW g \in Guests, NEW allow \in BOOLEAN
  PROVE  /\ RelistGuest(res, g, allow) \in Granted
         /\ RelistGuest(res, g, allow).access = res.access
         /\ InLists(RelistGuest(res, g, allow), g) <=> allow
         /\ \A h \in Guests \ {g} : InLists(RelistGuest(res, g, allow), h) <=> InLists(res, h)
<1> DEFINE un == UnlistGuest(res, g)
<1>1. /\ un \in Granted /\ un.access = res.access
      /\ InLists(un, g) <=> HasAccess("custom", res.access)
      /\ \A h \in Guests \ {g} : InLists(un, h) <=> InLists(res, h)
      BY UnlistingDecides
<1>2. HasAccess("custom", res.access) \in BOOLEAN
      BY DEF HasAccess
<1> HIDE DEF un
<1>3. CASE allow = HasAccess("custom", res.access)
      <2>1. RelistGuest(res, g, allow) = un
            BY <1>3 DEF RelistGuest, un
      <2> QED BY <1>1, <1>2, <1>3, <2>1
<1>4. CASE allow # HasAccess("custom", res.access)
      <2>1. RelistGuest(res, g, allow) = ListGuest(un, g, allow)
            BY <1>4 DEF RelistGuest, un
      <2> QED BY <1>1, <2>1, ListingDecides
<1> QED BY <1>3, <1>4

LEMMA SaysIsBoolean == \A perm : Says(perm) \in BOOLEAN
<1> SUFFICES ASSUME NEW perm PROVE Says(perm) \in BOOLEAN
    OBVIOUS
<1>1. CASE perm = "unset"
      BY <1>1 DEF Says, DefaultValue
<1>2. CASE perm # "unset"
      BY <1>2 DEF Says
<1> QED BY <1>1, <1>2

(* A new group rebuilds the lists from the choices.                        *)
LEMMA ReaccessingDecides ==
  ASSUME NEW res \in Granted, NEW people \in Permitted, NEW access \in Accesses
  PROVE  /\ ReaccessList(res, people, access) \in Granted
         /\ \A g \in Guests : people[g].access = "custom" =>
              (InLists(ReaccessList(res, people, access), g) <=> Says(people[g].perm))
<1> DEFINE new == ReaccessList(res, people, access)
<1>1. /\ new \in Granted /\ new.access = access
      /\ new.allowed = {g \in Guests : /\ people[g].access = "custom"
                                       /\ Says(people[g].perm) # HasAccess("custom", access)
                                       /\ Says(people[g].perm)}
      /\ new.restricted = {g \in Guests : /\ people[g].access = "custom"
                                          /\ Says(people[g].perm) # HasAccess("custom", access)
                                          /\ ~ Says(people[g].perm)}
      BY DEF ReaccessList, Granted
<1> HIDE DEF new
<1>2. ASSUME NEW g \in Guests, people[g].access = "custom"
      PROVE  InLists(new, g) <=> Says(people[g].perm)
      <2>1. Says(people[g].perm) \in BOOLEAN
            BY SaysIsBoolean
      <2>2. g \in new.allowed <=> (Says(people[g].perm) # HasAccess("custom", access)
                                   /\ Says(people[g].perm))
            BY <1>1, <1>2
      <2>3. g \in new.restricted <=> (Says(people[g].perm) # HasAccess("custom", access)
                                      /\ ~ Says(people[g].perm))
            BY <1>1, <1>2
      <2> QED BY <1>1, <2>1, <2>2, <2>3 DEF InLists, HasAccess
<1> QED BY <1>1, <1>2 DEF new
-----------------------------------------------------------------------------
(* The server                                                              *)

(* A guest gets a record of its own, and the lists say what its choice is, *)
(* if it has one; the others keep theirs.                                  *)
LEMMA ListedWith ==
  ASSUME ServerOK, NEW g \in Guests, NEW role \in GuestRoles \cup {"none", "removed"},
         NEW perm \in GuestChoice, NewRole(g, role, perm), UNCHANGED resource,
         granted' \in Granted, workers' \subseteq Guests,
         \A h \in Guests \ {g} : InLists(granted', h) <=> InLists(granted, h),
         resource # "base" /\ role = "custom" /\ perm # "unset" =>
           (InLists(granted', g) <=> perm = "yes")
  PROVE  ServerOK'
<1>1. /\ guests' \in Permitted
      /\ guests'[g].access = role /\ guests'[g].perm = perm
      /\ \A h \in Guests \ {g} : guests'[h] = guests[h]
      BY DEF NewRole, ServerOK, ServerShapes, Permitted, GuestRecord
<1>2. Listed'
      <2> SUFFICES ASSUME resource # "base", NEW h \in Guests,
                          guests'[h].access = "custom", guests'[h].perm # "unset"
                   PROVE  InLists(granted', h) <=> guests'[h].perm = "yes"
          BY DEF Listed, InLists
      <2>1. CASE h = g
            BY <1>1, <2>1
      <2>2. CASE h # g
            BY <1>1, <2>2 DEF ServerOK, Listed
      <2> QED BY <2>1, <2>2
<1> QED BY <1>1, <1>2 DEF ServerOK, ServerShapes

LEMMA KeptSwitchFits ==
  ASSUME NEW switch \in GuestChoice
  PROVE  /\ KeptSwitch(switch) \in GuestChoice
         /\ KeptSwitch(switch) # "unset" => KeptSwitch(switch) = switch
BY DEF KeptSwitch, GuestChoice

LEMMA BoundsAreNat == MaxAsked \in Nat /\ MaxSent \in Nat
BY PermissionsAssumption, Zenon

LEMMA CustomIsRole == "custom" \in GuestRoles
BY PermissionsAssumption

LEMMA DecideKeeps ==
  ASSUME ServerOK, NEW g \in Guests, NEW allow \in BOOLEAN, DecideGuest(g, allow),
         UNCHANGED resource
  PROVE  ServerOK'
<1>1. /\ granted \in Granted /\ guests \in Permitted /\ workers' \subseteq Guests
      /\ granted' = RelistGuest(granted, g, allow)
      BY DEF DecideGuest, ServerOK, ServerShapes
<1>2. /\ granted' \in Granted /\ (InLists(granted', g) <=> allow)
      /\ \A h \in Guests \ {g} : InLists(granted', h) <=> InLists(granted, h)
      BY <1>1, RelistingDecides
<1>3. CASE guests[g].access = "custom" \/ granted.access # Specific
      <2>1. NewRole(g, "custom", YesNo(allow))
            BY <1>3 DEF DecideGuest
      <2>2. YesNo(allow) \in GuestChoice /\ (allow <=> YesNo(allow) = "yes")
            BY DEF YesNo, GuestChoice
      <2> QED BY <1>1, <1>2, <2>1, <2>2, CustomIsRole, ListedWith
<1>4. CASE ~ (guests[g].access = "custom" \/ granted.access # Specific)
      <2>1. UNCHANGED guests /\ guests[g].access # "custom"
            BY <1>4 DEF DecideGuest
      <2> QED BY <1>1, <1>2, <2>1 DEF ServerOK, ServerShapes, Listed, InLists
<1> QED BY <1>3, <1>4

LEMMA ChangeAccessKeeps ==
  ASSUME ServerOK, NEW g \in Guests, NEW role \in GuestRoles, ChangeGuestAccess(g, role),
         UNCHANGED resource
  PROVE  ServerOK'
<1>1. granted' = granted \/ granted' = UnlistGuest(granted, g)
      BY DEF ChangeGuestAccess
<1>2. /\ granted' \in Granted
      /\ \A h \in Guests \ {g} : InLists(granted', h) <=> InLists(granted, h)
      BY <1>1, UnlistingDecides DEF ServerOK, ServerShapes
<1>3. NewRole(g, role, "unset") /\ "unset" \in GuestChoice /\ workers' \subseteq Guests
      BY DEF ChangeGuestAccess, GuestChoice, ServerOK, ServerShapes
<1> QED BY <1>2, <1>3, ListedWith

LEMMA RemoveKeeps ==
  ASSUME ServerOK, NEW g \in Guests, RemoveGuest(g), UNCHANGED resource
  PROVE  ServerOK'
<1>1. NewRole(g, "removed", "unset") /\ "unset" \in GuestChoice
      BY DEF RemoveGuest, GuestChoice
<1>2. granted' = granted /\ granted' \in Granted /\ workers' \subseteq Guests
      BY DEF RemoveGuest, ServerOK, ServerShapes
<1> QED BY <1>1, <1>2, ListedWith DEF InLists

LEMMA ConfigureKeeps ==
  ASSUME ServerOK, NEW g \in Guests, NEW switch \in GuestChoice, ConfigureGuest(g, switch),
         UNCHANGED resource
  PROVE  ServerOK'
<1>1. CASE guests[g].access # "custom"
      BY <1>1 DEF ConfigureGuest, ServerOK, ServerShapes, Listed, InLists
<1>2. CASE guests[g].access = "custom"
      <2>1. /\ NewRole(g, "custom", KeptSwitch(switch)) /\ UNCHANGED workers
            /\ granted' = IF switch \in {"unset", guests[g].perm} THEN granted
                          ELSE ListGuest(granted, g, switch = "yes")
            BY <1>2 DEF ConfigureGuest
      <2>2. CASE switch \in {"unset", guests[g].perm}
            <3>1. granted' = granted
                  BY <2>1, <2>2
            <3>2. resource # "base" /\ KeptSwitch(switch) # "unset" =>
                    (InLists(granted, g) <=> KeptSwitch(switch) = "yes")
                  BY <1>2, <2>2, KeptSwitchFits DEF ServerOK, Listed
            <3>3. granted' \in Granted /\ workers' \subseteq Guests
                  BY <2>1, <3>1 DEF ServerOK, ServerShapes
            <3> QED BY <2>1, <3>1, <3>2, <3>3, KeptSwitchFits, CustomIsRole, ListedWith
      <2>3. CASE switch \notin {"unset", guests[g].perm}
            <3>1. granted' = ListGuest(granted, g, switch = "yes")
                  BY <2>1, <2>3
            <3>2. (switch = "yes") \in BOOLEAN
                  OBVIOUS
            <3>3. /\ granted' \in Granted /\ (InLists(granted', g) <=> switch = "yes")
                  /\ \A h \in Guests \ {g} : InLists(granted', h) <=> InLists(granted, h)
                  BY <3>1, <3>2, ListingDecides DEF ServerOK, ServerShapes
            <3>4. workers' \subseteq Guests
                  BY <2>1 DEF ServerOK, ServerShapes
            <3> QED BY <2>1, <3>3, <3>4, KeptSwitchFits, CustomIsRole, ListedWith
      <2> QED BY <2>2, <2>3
<1> QED BY <1>1, <1>2

(* Guests::Creator passes the lists by where the choice is the default: it *)
(* then is none for a table or a field, and a base's lists do not count.   *)
LEMMA InviteKeeps ==
  ASSUME ServerOK, NEW g \in Guests, NEW role \in GuestRoles, NEW switch \in {"yes", "no"},
         InviteGuest(g, role, switch), UNCHANGED resource
  PROVE  ServerOK'
<1> DEFINE perm == IF role = "custom" THEN KeptSwitch(switch) ELSE "unset"
           lists == perm # "unset" /\ (granted.access # DefaultAccess \/ perm # YesNo(DefaultValue))
<1>1. switch \in GuestChoice
      BY DEF GuestChoice
<1>2. perm \in GuestChoice /\ (perm # "unset" => perm = switch)
      BY <1>1, KeptSwitchFits DEF GuestChoice
<1>3. /\ NewRole(g, role, perm)
      /\ granted' = IF lists THEN ListGuest(granted, g, perm = "yes") ELSE granted
      BY DEF InviteGuest
<1>4. workers' \subseteq Guests
      BY DEF InviteGuest, ServerOK, ServerShapes
<1>5. resource # "base" /\ perm # "unset" => lists
      BY DEF KeptSwitch
<1> HIDE DEF perm, lists
<1>6. CASE lists
      <2>1. granted' = ListGuest(granted, g, perm = "yes") /\ (perm = "yes") \in BOOLEAN
            BY <1>3, <1>6
      <2>2. /\ granted' \in Granted /\ (InLists(granted', g) <=> perm = "yes")
            /\ \A h \in Guests \ {g} : InLists(granted', h) <=> InLists(granted, h)
            BY <2>1, ListingDecides DEF ServerOK, ServerShapes
      <2> QED BY <1>2, <1>3, <1>4, <2>2, ListedWith
<1>7. CASE ~ lists
      <2>1. granted' = granted /\ granted' \in Granted
            BY <1>3, <1>7 DEF ServerOK, ServerShapes
      <2> QED BY <1>2, <1>3, <1>4, <1>5, <1>7, <2>1, ListedWith
<1> QED BY <1>6, <1>7

LEMMA WorkerKeeps ==
  ASSUME ServerOK, NEW g \in Guests, GuestWorker(g)
  PROVE  ServerOK'
<1>1. UNCHANGED <<resource, guests>> /\ workers' \subseteq Guests
      BY DEF GuestWorker, ServerOK, ServerShapes
<1>2. CASE guests[g].access = "removed"
      <2>1. granted' = UnlistGuest(granted, g)
            BY <1>2 DEF GuestWorker
      <2>2. /\ granted' \in Granted
            /\ \A h \in Guests \ {g} : InLists(granted', h) <=> InLists(granted, h)
            BY <2>1, UnlistingDecides DEF ServerOK, ServerShapes
      <2> QED BY <1>1, <1>2, <2>2 DEF ServerOK, ServerShapes, Listed, InLists
<1>3. CASE /\ guests[g].access = "custom" /\ guests[g].perm = "unset"
           /\ resource # "base" /\ granted.access # DefaultAccess
      <2>1. granted' = ListGuest(granted, g, DefaultValue) /\ DefaultValue \in BOOLEAN
            BY <1>3 DEF GuestWorker, DefaultValue
      <2>2. /\ granted' \in Granted
            /\ \A h \in Guests \ {g} : InLists(granted', h) <=> InLists(granted, h)
            BY <2>1, ListingDecides DEF ServerOK, ServerShapes
      <2> QED BY <1>1, <1>3, <2>2 DEF ServerOK, ServerShapes, Listed, InLists
<1>4. CASE /\ guests[g].access # "removed"
           /\ ~ (/\ guests[g].access = "custom" /\ guests[g].perm = "unset"
                 /\ resource # "base" /\ granted.access # DefaultAccess)
      <2>1. granted' = granted
            BY <1>4 DEF GuestWorker
      <2> QED BY <1>1, <2>1 DEF ServerOK, ServerShapes, Listed, InLists
<1> QED BY <1>2, <1>3, <1>4

LEMMA ServedKeeps ==
  ASSUME ServerOK, NEW r, Fits(r), PermServed(r), UNCHANGED resource
  PROVE  ServerOK'
<1>1. CASE r.op = "access"
      <2>1. /\ granted' = ReaccessList(granted, guests, r.args[1]) /\ r.args[1] \in Accesses
            /\ UNCHANGED <<guests, workers>>
            BY <1>1 DEF PermServed, Fits
      <2>2. /\ granted' \in Granted
            /\ \A g \in Guests : guests[g].access = "custom" =>
                 (InLists(granted', g) <=> Says(guests[g].perm))
            BY <2>1, ReaccessingDecides DEF ServerOK, ServerShapes
      <2>3. \A g \in Guests : guests[g].perm # "unset" =>
              (Says(guests[g].perm) <=> guests[g].perm = "yes")
            BY DEF Says
      <2> QED BY <2>1, <2>2, <2>3 DEF ServerOK, ServerShapes, Listed, InLists
<1>2. CASE r.op = "roles"
      <2>1. /\ granted' = [granted EXCEPT !.roles = r.args[1]] /\ r.args[1] \in SUBSET GuestRoles
            /\ UNCHANGED <<guests, workers>>
            BY <1>2 DEF PermServed, Fits
      <2>2. granted' \in Granted /\ \A g \in Guests : InLists(granted', g) <=> InLists(granted, g)
            BY <2>1 DEF ServerOK, ServerShapes, Granted, InLists
      <2> QED BY <2>1, <2>2 DEF ServerOK, ServerShapes, Listed, InLists
<1>3. CASE r.op = "decide"
      BY <1>3, DecideKeeps DEF PermServed, Fits
<1>4. CASE r.op = "role"
      BY <1>4, ChangeAccessKeeps DEF PermServed, Fits
<1>5. CASE r.op = "remove"
      BY <1>5, RemoveKeeps DEF PermServed, Fits
<1>6. CASE r.op = "configure"
      BY <1>6, ConfigureKeeps DEF PermServed, Fits
<1>7. CASE r.op = "invite"
      BY <1>7, InviteKeeps DEF PermServed, Fits
<1> QED BY <1>1, <1>2, <1>3, <1>4, <1>5, <1>6, <1>7 DEF Fits
-----------------------------------------------------------------------------
(* The client.  A step of one of its controls leaves the server as it is.  *)

(* The server's part when it is not asked                                  *)
LEMMA ServerStays ==
  ASSUME ServerOK, UNCHANGED <<resource, granted, guests, workers>> PROVE ServerOK'
BY DEF ServerOK, ServerShapes, Listed, InLists

(* A request is sent.                                                      *)
LEMMA AskingKeeps ==
  ASSUME PermInv, NEW r, Fits(r), PermAsks(r),
         permSaving' \in BOOLEAN, sameAccess' \in BOOLEAN
  PROVE  resource' \in Resources /\ ServerOK' /\ RequestShapes'
<1>1. /\ asked' = asked \cup {r} /\ sentCount < MaxSent /\ sentCount' = sentCount + 1
      /\ UNCHANGED <<resource, granted, guests, workers>>
      BY DEF PermAsks
<1>2. sentCount' \in 0..MaxSent
      <2>1. sentCount \in 0..MaxSent
            BY DEF PermInv, RequestShapes
      <2>2. sentCount < MaxSent /\ sentCount' = sentCount + 1
            BY <1>1
      <2> QED BY <2>1, <2>2, BoundsAreNat
<1>3. \A q \in asked' : Fits(q)
      BY <1>1 DEF PermInv, RequestShapes
<1>4. asked' # {}
      BY <1>1
<1>5. ServerOK' /\ resource' \in Resources
      BY <1>1, ServerStays DEF PermInv
<1> QED BY <1>2, <1>3, <1>4, <1>5 DEF RequestShapes, SavingEnds

LEMMA RequestFits ==
  ASSUME NEW op, NEW args, NEW res \in AnyGrant, NEW people \in Permitted
  PROVE  LET r == PermRequest(op, args, res, people) IN
         /\ DOMAIN r = {"op", "args", "res", "people", "answer", "closes"}
         /\ r.op = op /\ r.args = args /\ r.res = res /\ r.people = people /\ r.answer = "none"
         /\ LET c == [r EXCEPT !.closes = TRUE] IN
            /\ DOMAIN c = {"op", "args", "res", "people", "answer", "closes"}
            /\ c.op = op /\ c.args = args /\ c.res = res /\ c.people = people /\ c.answer = "none"
BY DEF PermRequest

LEMMA NoneFit == NoRecord \in AnyGrant /\ NoPeople \in Permitted
<1>1. NoRecord \in AnyGrant
      BY SpecificGroup DEF NoRecord, AnyGrant
<1>2. NoPeople \in Permitted
      BY DEF NoPeople, Permitted, GuestRecord, GuestChoice
<1> QED BY <1>1, <1>2

LEMMA ChoiceFits ==
  ASSUME NEW people \in Permitted, NEW g \in Guests, NEW allow \in BOOLEAN
  PROVE  /\ WithChoice(people, g, allow) \in Permitted
         /\ [WithChoice(people, g, allow) EXCEPT ![g].access = "custom"] \in Permitted
BY CustomIsRole DEF WithChoice, YesNo, Permitted, GuestRecord, GuestChoice

LEMMA DecideFits ==
  ASSUME NEW g \in Guests, NEW allow \in BOOLEAN, NEW res \in Granted, NEW people \in Permitted
  PROVE  /\ Fits(PermRequest("decide", <<g, allow>>, res, people))
         /\ Fits([PermRequest("decide", <<g, allow>>, res, people) EXCEPT !.closes = TRUE])
<1>1. <<g, allow>>[1] = g /\ <<g, allow>>[2] = allow
      OBVIOUS
<1> HIDE DEF PermRequest
<1>2. res \in AnyGrant
      BY GrantedIsAny
<1> DEFINE args == <<g, allow>>
<1>3. args[1] \in Guests /\ args[2] \in BOOLEAN
      BY <1>1
<1> HIDE DEF args
<1>4. LET r == PermRequest("decide", args, res, people) IN Fits(r) /\ Fits([r EXCEPT !.closes = TRUE])
      BY <1>2, <1>3, RequestFits DEF Fits
<1> QED BY <1>4 DEF args

LEMMA ControlsKeep ==
  ASSUME PermInv, PermissionControls PROVE PermInv'
<1>1. ASSUME NEW access \in Accesses, ChoosesAccess(access) PROVE PermInv'
      <2>1. UNCHANGED <<cachedGrant, cachedGuests, guestModal, configured>>
            BY <1>1 DEF ChoosesAccess
      <2>2. CacheTypes' /\ ModalShapes'
            BY <2>1 DEF PermInv, CacheTypes, ModalShapes
      <2>3. CASE access = cachedGrant.access
            <3>1. /\ permSaving' = TRUE /\ sameAccess' = TRUE
                  /\ UNCHANGED <<resource, granted, guests, workers, asked, sentCount>>
                  BY <1>1, <2>3 DEF ChoosesAccess
            <3>2. RequestShapes'
                  BY <3>1 DEF PermInv, RequestShapes, SavingEnds
            <3> QED BY <2>2, <3>1, <3>2, ServerStays DEF PermInv
      <2>4. CASE access # cachedGrant.access
            <3> DEFINE r == PermRequest("access", <<access>>, NoRecord, NoPeople)
            <3>1. /\ permSaving' = TRUE /\ sameAccess' = FALSE /\ PermAsks(r)
                  BY <1>1, <2>4 DEF ChoosesAccess, PermSaves
            <3>2. Fits(r)
                  BY NoneFit, RequestFits DEF Fits
            <3> HIDE DEF r
            <3>3. resource' \in Resources /\ ServerOK' /\ RequestShapes'
                  BY <3>1, <3>2, AskingKeeps
            <3> QED BY <2>2, <3>3 DEF PermInv
      <2> QED BY <2>3, <2>4
<1>2. ASSUME NEW g \in Guests, NEW list \in {"allowed", "restricted"}, RemovesFromList(g, list)
      PROVE  PermInv'
      <2> DEFINE allow == list = "restricted"
                 r == PermRequest("decide", <<g, allow>>, cachedGrant', WithChoice(cachedGuests, g, allow))
      <2>1. cachedGrant' \in Granted
            BY <1>2 DEF PermInv, RemovesFromList, CacheTypes, Granted
      <2>2. WithChoice(cachedGuests, g, allow) \in Permitted
            BY ChoiceFits DEF PermInv, CacheTypes
      <2>3. PermAsks(r) /\ UNCHANGED <<cachedGuests, permSaving, guestModal, configured, sameAccess>>
            BY <1>2 DEF RemovesFromList
      <2>4. Fits(r)
            BY <2>1, <2>2, DecideFits
      <2> HIDE DEF r
      <2>5. resource' \in Resources /\ ServerOK' /\ RequestShapes'
            BY <2>3, <2>4, AskingKeeps DEF PermInv, RequestShapes
      <2>6. CacheTypes' /\ ModalShapes'
            BY <2>1, <2>3 DEF PermInv, CacheTypes, ModalShapes
      <2> QED BY <2>5, <2>6 DEF PermInv
<1>3. ASSUME NEW role \in GuestRoles, RemovesRole(role) PROVE PermInv'
      <2> DEFINE r == PermRequest("roles", <<cachedGrant'.roles>>, cachedGrant', NoPeople)
      <2>1. cachedGrant' \in Granted /\ cachedGrant'.roles \in SUBSET GuestRoles
            BY <1>3 DEF PermInv, RemovesRole, CacheTypes, Granted
      <2>2. PermAsks(r) /\ UNCHANGED <<cachedGuests, permSaving, guestModal, configured, sameAccess>>
            BY <1>3 DEF RemovesRole
      <2>3. Fits(r)
            BY <2>1, RequestFits, NoneFit, GrantedIsAny DEF Fits
      <2> HIDE DEF r
      <2>4. resource' \in Resources /\ ServerOK' /\ RequestShapes'
            BY <2>2, <2>3, AskingKeeps DEF PermInv, RequestShapes
      <2>5. CacheTypes' /\ ModalShapes'
            BY <2>1, <2>2 DEF PermInv, CacheTypes, ModalShapes
      <2> QED BY <2>4, <2>5 DEF PermInv
<1>4. ASSUME NEW list \in {"allowed", "restricted"}, OpensGuests(list) PROVE PermInv'
      <2>1. /\ guestModal' = [list |-> list, saw |-> cachedGrant]
            /\ UNCHANGED <<resource, granted, guests, cachedGrant, cachedGuests, workers, asked,
                           permSaving, configured, sameAccess, sentCount>>
            BY <1>4 DEF OpensGuests
      <2>2. ModalShapes'
            BY <2>1, GrantedIsAny DEF PermInv, ModalShapes, CacheTypes
      <2>3. RequestShapes' /\ CacheTypes'
            BY <2>1 DEF PermInv, RequestShapes, SavingEnds, CacheTypes
      <2> QED BY <2>1, <2>2, <2>3, ServerStays DEF PermInv
<1> QED BY <1>1, <1>2, <1>3, <1>4 DEF PermissionControls

LEMMA GuestsModalKeeps == ASSUME PermInv, GuestsModal PROVE PermInv'
<1>1. ASSUME NEW role \in GuestRoles, SelectsRole(role) PROVE PermInv'
      <2> DEFINE res == [guestModal.saw EXCEPT !.roles = @ \cup {role}]
                 r == [PermRequest("roles", <<res.roles>>, res, NoPeople) EXCEPT !.closes = TRUE]
      <2>1. guestModal.saw \in Granted
            BY <1>1 DEF PermInv, SelectsRole, ModalShapes
      <2>2. res \in Granted /\ res.roles \in SUBSET GuestRoles
            BY <2>1 DEF Granted
      <2>3. /\ PermAsks(r) /\ guestModal' = [guestModal EXCEPT !.saw = res]
            /\ cachedGrant' = IF guestModal.saw = cachedGrant THEN res ELSE cachedGrant
            /\ UNCHANGED <<cachedGuests, permSaving, configured, sameAccess>>
            BY <1>1 DEF SelectsRole, SelectedGrant
      <2> HIDE DEF res
      <2>4. Fits(r)
            BY <2>2, RequestFits, NoneFit, GrantedIsAny DEF Fits
      <2> HIDE DEF r
      <2>5. resource' \in Resources /\ ServerOK' /\ RequestShapes'
            BY <2>3, <2>4, AskingKeeps DEF PermInv, RequestShapes
      <2>6. CacheTypes'
            BY <2>2, <2>3 DEF PermInv, CacheTypes
      <2>7. ModalShapes'
            BY <2>2, <2>3, GrantedIsAny DEF PermInv, ModalShapes
      <2> QED BY <2>5, <2>6, <2>7 DEF PermInv
<1>2. ASSUME NEW g \in Guests, SelectsGuest(g) PROVE PermInv'
      <2> DEFINE allow == guestModal.list = "allowed"
                 saw == guestModal.saw
                 res == IF allow THEN [saw EXCEPT !.allowed = @ \cup {g}, !.restricted = @ \ {g}]
                        ELSE [saw EXCEPT !.restricted = @ \cup {g}, !.allowed = @ \ {g}]
                 people == [WithChoice(cachedGuests, g, allow) EXCEPT ![g].access = "custom"]
                 r == [PermRequest("decide", <<g, allow>>, res, people) EXCEPT !.closes = TRUE]
      <2>1. saw \in Granted
            BY <1>2 DEF PermInv, SelectsGuest, ModalShapes
      <2>2. res \in Granted
            BY <2>1 DEF Granted
      <2>3. people \in Permitted
            BY ChoiceFits DEF PermInv, CacheTypes
      <2>4. /\ PermAsks(r) /\ guestModal' = [guestModal EXCEPT !.saw = res]
            /\ cachedGrant' = IF guestModal.saw = cachedGrant THEN res ELSE cachedGrant
            /\ UNCHANGED <<cachedGuests, permSaving, configured, sameAccess>>
            BY <1>2 DEF SelectsGuest, SelectedGrant
      <2> HIDE DEF res, people
      <2>5. Fits(r)
            BY <2>2, <2>3, DecideFits
      <2> HIDE DEF r
      <2>6. resource' \in Resources /\ ServerOK' /\ RequestShapes'
            BY <2>4, <2>5, AskingKeeps DEF PermInv, RequestShapes
      <2>7. CacheTypes'
            BY <2>2, <2>4 DEF PermInv, CacheTypes
      <2>8. ModalShapes'
            BY <2>2, <2>4, GrantedIsAny DEF PermInv, ModalShapes
      <2> QED BY <2>6, <2>7, <2>8 DEF PermInv
<1>3. CASE ClosesGuests
      <2>1. /\ guestModal' = NoModal
            /\ UNCHANGED <<resource, granted, guests, cachedGrant, cachedGuests, workers, asked,
                           permSaving, configured, sameAccess, sentCount>>
            BY <1>3 DEF ClosesGuests
      <2>2. ModalShapes'
            BY <2>1, NoneFit DEF PermInv, ModalShapes, NoModal
      <2>3. RequestShapes' /\ CacheTypes'
            BY <2>1 DEF PermInv, RequestShapes, SavingEnds, CacheTypes
      <2> QED BY <2>1, <2>2, <2>3, ServerStays DEF PermInv
<1> QED BY <1>1, <1>2, <1>3 DEF GuestsModal

LEMMA ShareKeeps == ASSUME PermInv, ShareBaseModal PROVE PermInv'
<1>1. ASSUME NEW g \in Guests, NEW role \in GuestRoles, ChangesRole(g, role) PROVE PermInv'
      <2> DEFINE people == [cachedGuests EXCEPT ![g].access = role]
                 r == PermRequest("role", <<g, role>>, NoRecord, people)
      <2>1. people \in Permitted
            BY DEF PermInv, CacheTypes, Permitted, GuestRecord
      <2>2. /\ PermAsks(r) /\ permSaving' = TRUE
            /\ UNCHANGED <<cachedGrant, cachedGuests, guestModal, configured, sameAccess>>
            BY <1>1 DEF ChangesRole, PermSaves
      <2> HIDE DEF people
      <2>3. Fits(r)
            BY <2>1, RequestFits, NoneFit DEF Fits
      <2> HIDE DEF r
      <2>4. resource' \in Resources /\ ServerOK' /\ RequestShapes'
            BY <2>2, <2>3, AskingKeeps DEF PermInv, RequestShapes
      <2> QED BY <2>2, <2>4 DEF PermInv, CacheTypes, ModalShapes
<1>2. ASSUME NEW g \in Guests, RemovesAccess(g) PROVE PermInv'
      <2> DEFINE people == [cachedGuests EXCEPT ![g].access = "removed"]
                 r == PermRequest("remove", <<g>>, NoRecord, people)
      <2>1. people \in Permitted
            BY DEF PermInv, CacheTypes, Permitted, GuestRecord
      <2>2. /\ PermAsks(r) /\ permSaving' = TRUE
            /\ UNCHANGED <<cachedGrant, cachedGuests, guestModal, configured, sameAccess>>
            BY <1>2 DEF RemovesAccess, PermSaves
      <2> HIDE DEF people
      <2>3. Fits(r)
            BY <2>1, RequestFits, NoneFit DEF Fits
      <2> HIDE DEF r
      <2>4. resource' \in Resources /\ ServerOK' /\ RequestShapes'
            BY <2>2, <2>3, AskingKeeps DEF PermInv, RequestShapes
      <2> QED BY <2>2, <2>4 DEF PermInv, CacheTypes, ModalShapes
<1>3. ASSUME NEW g \in Guests, OpensSwitches(g) PROVE PermInv'
      <2>1. configured' \in [guest : Guests \cup {"nobody"}, was : GuestChoice, shown : GuestChoice]
            <3>1. cachedGuests[g].perm \in GuestChoice /\ FilledIn(cachedGuests[g].perm) \in GuestChoice
                  BY DEF PermInv, CacheTypes, Permitted, GuestRecord, FilledIn, YesNo, GuestChoice
            <3> QED BY <1>3, <3>1 DEF OpensSwitches
      <2>2. UNCHANGED <<resource, granted, guests, cachedGrant, cachedGuests, workers, asked,
                        permSaving, guestModal, sameAccess, sentCount>>
            BY <1>3 DEF OpensSwitches
      <2> QED BY <2>1, <2>2, ServerStays DEF PermInv, CacheTypes, ModalShapes, RequestShapes, SavingEnds
<1>4. ASSUME NEW g \in Guests, NEW role \in GuestRoles, NEW switch \in {"yes", "no"},
             InvitesGuest(g, role, switch)
      PROVE  PermInv'
      <2> DEFINE r == PermRequest("invite", <<g, role, switch>>, NoRecord, NoPeople)
      <2>1. Fits(r)
            BY RequestFits, NoneFit DEF Fits
      <2>2. /\ PermAsks(r) /\ permSaving' = TRUE
            /\ UNCHANGED <<cachedGrant, cachedGuests, guestModal, configured, sameAccess>>
            BY <1>4 DEF InvitesGuest, PermSaves
      <2> HIDE DEF r
      <2>3. resource' \in Resources /\ ServerOK' /\ RequestShapes'
            BY <2>1, <2>2, AskingKeeps DEF PermInv, RequestShapes
      <2> QED BY <2>2, <2>3 DEF PermInv, CacheTypes, ModalShapes
<1> QED BY <1>1, <1>2, <1>3, <1>4 DEF ShareBaseModal, GuestCard

LEMMA YesNoIsChoice == \A b : YesNo(b) \in GuestChoice
BY DEF YesNo, GuestChoice

LEMMA SwitchesKeep == ASSUME PermInv, PermissionsModal PROVE PermInv'
<1>1. CASE TogglesSwitch \/ SwitchesReset
      <2>1. UNCHANGED <<resource, granted, guests, cachedGrant, cachedGuests, workers, asked,
                        permSaving, guestModal, sameAccess, sentCount>>
            BY <1>1 DEF TogglesSwitch, SwitchesReset
      <2>2. configured' \in [guest : Guests \cup {"nobody"}, was : GuestChoice, shown : GuestChoice]
            BY <1>1, YesNoIsChoice DEF TogglesSwitch, SwitchesReset, FilledIn, PermInv, ModalShapes
      <2> QED BY <2>1, <2>2, ServerStays DEF PermInv, CacheTypes, ModalShapes, RequestShapes, SavingEnds
<1>2. CASE ClosesSwitches
      <2>1. UNCHANGED <<resource, granted, guests, cachedGrant, cachedGuests, workers, asked,
                        permSaving, guestModal, sameAccess, sentCount>>
            BY <1>2 DEF ClosesSwitches
      <2>2. configured' \in [guest : Guests \cup {"nobody"}, was : GuestChoice, shown : GuestChoice]
            BY <1>2 DEF ClosesSwitches, NoGuest, GuestChoice
      <2> QED BY <2>1, <2>2, ServerStays DEF PermInv, CacheTypes, ModalShapes, RequestShapes, SavingEnds
<1>3. CASE SubmitsSwitches
      <2> DEFINE g == configured.guest
                 people == [cachedGuests EXCEPT ![g].perm = KeptSwitch(configured.shown)]
                 r == PermRequest("configure", <<g, configured.shown>>, NoRecord, people)
      <2>1. g \in Guests /\ configured.shown \in GuestChoice
            BY <1>3 DEF SubmitsSwitches, PermInv, ModalShapes
      <2>2. people \in Permitted
            BY <2>1, KeptSwitchFits DEF PermInv, CacheTypes, Permitted, GuestRecord
      <2>3. /\ PermAsks(r) /\ permSaving' = TRUE
            /\ UNCHANGED <<cachedGrant, cachedGuests, guestModal, configured, sameAccess>>
            BY <1>3 DEF SubmitsSwitches, PermSaves
      <2> HIDE DEF g, people
      <2>4. Fits(r)
            BY <2>1, <2>2, RequestFits, NoneFit DEF Fits
      <2> HIDE DEF r
      <2>5. resource' \in Resources /\ ServerOK' /\ RequestShapes'
            BY <2>3, <2>4, AskingKeeps DEF PermInv, RequestShapes
      <2> QED BY <2>3, <2>5 DEF PermInv, CacheTypes, ModalShapes
<1> QED BY <1>1, <1>2, <1>3 DEF PermissionsModal

(* The answers, in any order                                               *)
LEMMA AnsweredFits ==
  ASSUME NEW r, Fits(r), NEW answer \in {"ok", "error"}
  PROVE  /\ Fits([r EXCEPT !.answer = answer])
         /\ [r EXCEPT !.answer = answer].answer = answer
BY DEF Fits

LEMMA ServingKeeps ==
  ASSUME PermInv, NEW r \in asked, PermissionServed(r)
  PROVE  PermInv'
<1>1. /\ Fits(r)
      /\ UNCHANGED <<resource, cachedGrant, cachedGuests, permSaving, guestModal, configured,
                     sameAccess, sentCount>>
      BY DEF PermissionServed, PermInv, RequestShapes
<1>2. ServerOK'
      BY <1>1, ServedKeeps, ServerStays DEF PermissionServed, PermInv
<1>3. PICK answer \in {"ok", "error"} : PermAnswers(r, answer)
      BY DEF PermissionServed
<1>4. (\A q \in asked' : Fits(q)) /\ asked' # {}
      BY <1>1, <1>3, AnsweredFits DEF PermAnswers, PermInv, RequestShapes
<1> QED BY <1>1, <1>2, <1>4 DEF PermInv, CacheTypes, ModalShapes, RequestShapes, SavingEnds

LEMMA AnswerKeeps ==
  ASSUME PermInv, NEW r \in asked, PermissionAnswered(r)
  PROVE  PermInv'
<1>1. /\ Fits(r) /\ asked' \subseteq asked /\ permSaving' = FALSE /\ sameAccess' = FALSE
      /\ UNCHANGED <<resource, granted, guests, workers, sentCount>>
      BY DEF PermissionAnswered, SavingAfter, PermInv, RequestShapes
<1>2. CacheTypes'
      <2>1. CASE r.answer = "error"
            BY <2>1 DEF PermissionAnswered, PermInv, CacheTypes
      <2>2. CASE r.answer = "ok" /\ r.op \in {"access", "invite"}
            BY <2>2 DEF PermissionAnswered, PermInv, CacheTypes, ServerOK, ServerShapes
      <2>3. CASE r.answer = "ok" /\ r.op \in {"decide", "roles"}
            BY <1>1, <2>3 DEF PermissionAnswered, PermInv, CacheTypes, Fits
      <2>4. CASE r.answer = "ok" /\ r.op \notin {"access", "invite", "decide", "roles"}
            BY <1>1, <2>4 DEF PermissionAnswered, PermInv, CacheTypes, Fits
      <2> QED BY <1>1, <2>1, <2>2, <2>3, <2>4 DEF PermissionAnswered, Fits
<1>3. ModalShapes'
      <2>1. guestModal' \in {guestModal, NoModal} /\ configured' \in {configured, NoGuest}
            BY DEF PermissionAnswered
      <2> QED BY <2>1, NoneFit DEF PermInv, ModalShapes, NoModal, NoGuest, GuestChoice
<1>4. RequestShapes'
      BY <1>1 DEF PermInv, RequestShapes, SavingEnds
<1> QED BY <1>1, <1>2, <1>3, <1>4, ServerStays DEF PermInv

(* The page and the workers                                                *)
LEMMA PermPageKeeps ==
  ASSUME PermInv, PermRevalidates \/ VisitPermissions \/ \E g \in Guests : GuestWorker(g)
  PROVE  PermInv'
<1>1. CASE PermRevalidates
      BY <1>1, ServerStays DEF PermRevalidates, PermInv, CacheTypes, ModalShapes, RequestShapes,
         SavingEnds, ServerOK, ServerShapes
<1>2. CASE VisitPermissions
      <2>1. /\ UNCHANGED <<resource, granted, guests, workers, asked>>
            /\ cachedGrant' = granted /\ cachedGuests' = guests
            /\ permSaving' = FALSE /\ sameAccess' = FALSE
            BY <1>2 DEF VisitPermissions
      <2>2. ModalShapes'
            BY <1>2, NoneFit DEF VisitPermissions, ModalShapes, NoModal, NoGuest, GuestChoice
      <2>3. sentCount' \in 0..MaxSent
            <3>1. sentCount' = 0
                  BY <1>2 DEF VisitPermissions
            <3> QED BY <3>1, BoundsAreNat
      <2>4. RequestShapes'
            BY <2>1, <2>3 DEF PermInv, RequestShapes, SavingEnds
      <2> QED BY <2>1, <2>2, <2>4, ServerStays DEF PermInv, CacheTypes, ServerOK, ServerShapes
<1>3. ASSUME NEW g \in Guests, GuestWorker(g) PROVE PermInv'
      <2>1. ServerOK'
            BY <1>3, WorkerKeeps DEF PermInv
      <2> QED BY <1>3, <2>1 DEF GuestWorker, PermInv, CacheTypes, ModalShapes, RequestShapes, SavingEnds
<1> QED BY <1>1, <1>2, <1>3

-----------------------------------------------------------------------------
LEMMA PermInitInv == PermInit => PermInv
<1> SUFFICES ASSUME PermInit PROVE PermInv
    OBVIOUS
<1>1. DefaultAccess \in Accesses
      BY PermissionsAssumption DEF PermInit, DefaultAccess
<1>2. ServerOK
      BY <1>1 DEF PermInit, ServerOK, ServerShapes, Listed, Granted, Permitted, GuestRecord,
         GuestChoice
<1>3. ModalShapes
      BY NoneFit DEF PermInit, ModalShapes, NoModal, NoGuest, GuestChoice
<1>4. sentCount \in 0..MaxSent
      <2>1. sentCount = 0
            BY DEF PermInit
      <2> QED BY <2>1, BoundsAreNat
<1>5. RequestShapes
      BY <1>4 DEF PermInit, RequestShapes, SavingEnds
<1> QED BY <1>2, <1>3, <1>5 DEF PermInit, PermInv, CacheTypes, ServerOK, ServerShapes

LEMMA PermNextKeeps == PermInv /\ [PermNext]_permVars => PermInv'
<1>1. ASSUME PermInv, UNCHANGED permVars PROVE PermInv'
      BY <1>1, ServerStays DEF permVars, PermInv, CacheTypes, ModalShapes, RequestShapes, SavingEnds
<1> QED BY <1>1, ControlsKeep, GuestsModalKeeps, ShareKeeps, SwitchesKeep, ServingKeeps,
        AnswerKeeps, PermPageKeeps
        DEF PermNext, BasePermissionsModal, TablePermissionsModal, FieldPermissionsModal

(* What the server says of a custom guest with a choice is that choice.    *)
LEMMA ServerFollowsChoice ==
  ASSUME Listed, NEW g \in Guests, guests[g].access = "custom", guests[g].perm # "unset"
  PROVE  ServerCan(g) <=> guests[g].perm = "yes"
BY DEF Listed, InLists, ServerCan

(* The types hold in every reachable state, for any guests and groups.     *)
THEOREM PermTypeCorrect == PermSpec => []PermTypeOK
BY PermInvTypes, PermInitInv, PermNextKeeps, PTL DEF PermSpec

(* Whatever was decided, configured, invited or given another group, and   *)
(* however many requests were under way: the server answers by the guest's *)
(* own choice.                                                             *)
THEOREM ChoiceIsHonoured == PermSpec => []ChoiceHonoured
<1>1. PermInv => ChoiceHonoured
      <2> SUFFICES ASSUME PermInv, NEW g \in Guests, guests[g].access = "custom", guests[g].perm # "unset"
                   PROVE  ServerCan(g) = (guests[g].perm = "yes")
          BY DEF ChoiceHonoured
      <2>1. ServerCan(g) <=> guests[g].perm = "yes"
            BY ServerFollowsChoice DEF PermInv, ServerOK
      <2>2. ServerCan(g) \in BOOLEAN
            BY DEF ServerCan, RoleMay, HasAccess
      <2> QED BY <2>1, <2>2
<1> QED BY <1>1, PermInitInv, PermNextKeeps, PTL DEF PermSpec

(* "Saving" never stays behind when nothing is under way, except after the *)
(* group was chosen that is already set.                                   *)
THEOREM SavingDoesEnd == PermSpec => []SavingEnds
<1>1. PermInv => SavingEnds
      BY DEF PermInv, RequestShapes
<1> QED BY <1>1, PermInitInv, PermNextKeeps, PTL DEF PermSpec
(* Guests with a role of their own are judged by the group on both sides.  *)
LEMMA RolesAgree ==
  ASSUME PermInv, cachedGrant = granted, cachedGuests = guests, NEW g \in Guests,
         guests[g].access \notin {"none", "removed", "custom"},
         granted.access # Specific \/ (resource = "field" /\ guests[g].access # "admin")
  PROVE  ClientCan(g) = YesNo(ServerCan(g))
<1> DEFINE role == guests[g].access
<1>1. CASE granted.access # Specific
      <2>1. ServerCan(g) = IF granted.access = DefaultAccess THEN RoleMay(role)
                           ELSE HasAccess(role, granted.access)
            BY <1>1 DEF ServerCan
      <2>2. ClientCan(g) = YesNo(IF granted.access = DefaultAccess THEN RoleMay(role)
                                 ELSE HasAccess(role, granted.access))
            BY <1>1 DEF ClientCan
      <2> QED BY <2>1, <2>2
<1>2. CASE granted.access = Specific
      <2>1. resource = "field" /\ role # "admin"
            BY <1>2
      <2>2. ServerCan(g) <=> role = "creator" \/ role \in granted.roles \/ g \in granted.allowed
            BY <1>2 DEF ServerCan
      <2>3. CASE role = "creator" \/ role \in granted.roles
            <3>1. ClientCan(g) = "yes" /\ ServerCan(g)
                  BY <1>2, <2>1, <2>2, <2>3 DEF ClientCan
            <3> QED BY <3>1 DEF YesNo
      <2>4. CASE ~ (role = "creator" \/ role \in granted.roles)
            <3>1. ClientCan(g) = YesNo(g \in granted.allowed \/ RoleMay(role))
                  BY <1>2, <2>1, <2>4 DEF ClientCan
            <3>2. ~ RoleMay(role)
                  BY <2>1, <2>4 DEF RoleMay
            <3> QED BY <2>2, <2>4, <3>1, <3>2 DEF YesNo
      <2> QED BY <2>3, <2>4
<1> QED BY <1>1, <1>2

(* Where its copies are fresh the client answers as the server does, but   *)
(* for the three exceptions that AnswersAgree names.                       *)
THEOREM AnswersDoAgree == PermSpec => []AnswersAgree
<1>1. PermInv => AnswersAgree
      <2> SUFFICES ASSUME PermInv, cachedGrant = granted, cachedGuests = guests, NEW g \in Guests,
                          ~ (guests[g].access = "custom" /\ guests[g].perm = "unset"),
                          ~ (guests[g].access = "custom" /\ guests[g].perm = "yes" /\ resource = "table"),
                          ~ (granted.access = Specific /\ (resource # "field" \/ guests[g].access = "admin"))
                   PROVE  ClientCan(g) = YesNo(ServerCan(g))
          BY DEF AnswersAgree
      <2>1. CASE guests[g].access \in {"none", "removed"}
            <3>1. ClientCan(g) = "no" /\ ~ ServerCan(g)
                  BY <2>1 DEF ClientCan, ServerCan
            <3> QED BY <3>1 DEF YesNo
      <2>2. CASE guests[g].access = "custom"
            <3>1. ServerCan(g) <=> guests[g].perm = "yes"
                  BY <2>2, ServerFollowsChoice DEF PermInv, ServerOK
            <3>2. CASE resource # "table"
                  <4>1. ClientCan(g) = YesNo(guests[g].perm = "yes")
                        BY <2>2, <3>2 DEF ClientCan, ClientFinds, Says
                  <4> QED BY <3>1, <4>1 DEF YesNo
            <3>3. CASE resource = "table"
                  <4>1. ClientCan(g) = YesNo(FALSE) /\ ~ ServerCan(g)
                        BY <2>2, <3>1, <3>3 DEF ClientCan, ClientFinds, Says, DefaultValue
                  <4> QED BY <4>1 DEF YesNo
            <3> QED BY <3>2, <3>3
      <2>3. CASE guests[g].access \notin {"none", "removed", "custom"}
            BY <2>3, RolesAgree
      <2> QED BY <2>1, <2>2, <2>3
<1> QED BY <1>1, PermInitInv, PermNextKeeps, PTL DEF PermSpec

-----------------------------------------------------------------------------
(* A request that leaves the set of those under way, answered, was served. *)
LEMMA OnlyServing ==
  ASSUME PermInv, [PermNext]_permVars, NEW r \in asked, r \notin asked', r.answer = "none",
         [r EXCEPT !.answer = "ok"] \in asked' \ asked
  PROVE  Fits(r) /\ PermServed(r) /\ UNCHANGED resource
<1>1. Fits(r)
      BY DEF PermInv, RequestShapes
<1>2. ASSUME NEW q, PermAsks(q) PROVE FALSE
      BY <1>2 DEF PermAsks
<1>3. ~ (asked' \subseteq asked)
      OBVIOUS
<1>4. PICK q \in asked : PermissionServed(q)
      <2>1. ~ PermissionControls
            <3>1. ASSUME NEW access \in Accesses, ChoosesAccess(access) PROVE FALSE
                  BY <1>2, <1>3, <3>1 DEF ChoosesAccess, PermSaves
            <3>2. ASSUME NEW g, NEW list, RemovesFromList(g, list) PROVE FALSE
                  BY <1>2, <3>2 DEF RemovesFromList
            <3>3. ASSUME NEW role, RemovesRole(role) PROVE FALSE
                  BY <1>2, <3>3 DEF RemovesRole
            <3>4. ASSUME NEW list, OpensGuests(list) PROVE FALSE
                  BY <1>3, <3>4 DEF OpensGuests
            <3> QED BY <3>1, <3>2, <3>3, <3>4 DEF PermissionControls
      <2>2. ~ GuestsModal
            <3>1. ASSUME NEW role, SelectsRole(role) PROVE FALSE
                  BY <1>2, <3>1 DEF SelectsRole
            <3>2. ASSUME NEW g, SelectsGuest(g) PROVE FALSE
                  BY <1>2, <3>2 DEF SelectsGuest
            <3>3. ~ ClosesGuests
                  BY <1>3 DEF ClosesGuests
            <3> QED BY <3>1, <3>2, <3>3 DEF GuestsModal
      <2>3. ~ ShareBaseModal
            <3>1. ASSUME NEW g, NEW role, ChangesRole(g, role) PROVE FALSE
                  BY <1>2, <3>1 DEF ChangesRole, PermSaves
            <3>2. ASSUME NEW g, RemovesAccess(g) PROVE FALSE
                  BY <1>2, <3>2 DEF RemovesAccess, PermSaves
            <3>3. ASSUME NEW g, OpensSwitches(g) PROVE FALSE
                  BY <1>3, <3>3 DEF OpensSwitches
            <3>4. ASSUME NEW g, NEW role, NEW switch, InvitesGuest(g, role, switch) PROVE FALSE
                  BY <1>2, <3>4 DEF InvitesGuest, PermSaves
            <3> QED BY <3>1, <3>2, <3>3, <3>4 DEF ShareBaseModal, GuestCard
      <2>4. ~ PermissionsModal
            <3>1. ~ SubmitsSwitches
                  BY <1>2 DEF SubmitsSwitches, PermSaves
            <3> QED BY <1>3, <3>1 DEF PermissionsModal, TogglesSwitch, SwitchesReset, ClosesSwitches
      <2>5. /\ ~ PermRevalidates /\ ~ VisitPermissions /\ asked' # asked
            /\ \A g \in Guests : ~ GuestWorker(g)
            /\ \A q \in asked : ~ PermissionAnswered(q)
            BY <1>3 DEF PermRevalidates, VisitPermissions, GuestWorker, PermissionAnswered
      <2> QED BY <2>1, <2>2, <2>3, <2>4, <2>5 DEF PermNext, permVars, BasePermissionsModal,
              TablePermissionsModal, FieldPermissionsModal
<1>5. q = r
      <2>1. PICK answer \in {"ok", "error"} : PermAnswers(q, answer)
            BY <1>4 DEF PermissionServed
      <2> QED BY <2>1 DEF PermAnswers
<1>6. ~ PermAnswers(r, "error")
      <2> SUFFICES ASSUME PermAnswers(r, "error") PROVE FALSE
          OBVIOUS
      <2>1. [r EXCEPT !.answer = "ok"] = [r EXCEPT !.answer = "error"]
            BY DEF PermAnswers
      <2> QED BY <1>1, <2>1, AnsweredFits
<1> QED BY <1>1, <1>4, <1>5, <1>6 DEF PermissionServed

(* How the server comes to its answer about a custom guest                 *)
LEMMA CustomAnswer ==
  ASSUME NEW g \in Guests, NEW allow \in BOOLEAN, guests'[g].access = "custom",
         guests'[g].perm = "yes" => allow,
         resource' # "base" /\ InLists(granted', g) => allow,
         allow => guests'[g].perm = "yes" \/ (resource' # "base" /\ InLists(granted', g))
  PROVE  ServerCan(g)' = allow
<1>1. ServerCan(g)' <=> \/ guests'[g].perm = "yes"
                        \/ resource' # "base" /\ InLists(granted', g)
      BY DEF ServerCan, InLists
<1>2. ServerCan(g)' \in BOOLEAN
      BY DEF ServerCan, InLists, HasAccess
<1> QED BY <1>1, <1>2

LEMMA YesNoSays ==
  ASSUME NEW allow \in BOOLEAN
  PROVE  YesNo(allow) \in {"yes", "no"} /\ (YesNo(allow) = "yes" <=> allow)
BY DEF YesNo

LEMMA NewRoleGives ==
  ASSUME guests \in Permitted, NEW g \in Guests, NEW role, NEW perm, NewRole(g, role, perm)
  PROVE  guests'[g].access = role /\ guests'[g].perm = perm
BY DEF NewRole, Permitted

LEMMA DecideTakes ==
  ASSUME ServerOK, ServerOK', NEW g \in Guests, NEW allow \in BOOLEAN, DecideGuest(g, allow),
         allow \/ guests'[g].access = "custom", UNCHANGED resource
  PROVE  ServerCan(g)' = allow
<1>1. granted \in Granted /\ guests \in Permitted
      BY DEF ServerOK, ServerShapes
<1>2. granted' = RelistGuest(granted, g, allow)
      BY DEF DecideGuest
<1>3. /\ granted'.access = granted.access
      /\ InLists(granted', g) <=> allow
      BY <1>1, <1>2, RelistingDecides
<1>4. CASE guests[g].access = "custom" \/ granted.access # Specific
      <2>1. NewRole(g, "custom", YesNo(allow))
            BY <1>4 DEF DecideGuest
      <2>2. guests'[g].access = "custom" /\ guests'[g].perm = YesNo(allow)
            BY <1>1, <2>1, NewRoleGives
      <2> QED BY <1>3, <2>2, YesNoSays, CustomAnswer
<1>5. CASE ~ (guests[g].access = "custom" \/ granted.access # Specific)
      <2>1. /\ guests' = guests /\ guests[g].access \in GuestRoles /\ guests[g].access # "custom"
            /\ allow /\ granted'.access = Specific
            BY <1>3, <1>5 DEF DecideGuest, CurrentGuest
      <2>2. guests'[g].access \notin {"none", "removed", "custom"}
            <3>1. "none" \notin GuestRoles /\ "removed" \notin GuestRoles
                  BY PermissionsAssumption, Zenon
            <3> QED BY <2>1, <3>1
      <2>3. g \in granted'.allowed
            BY <1>3, <2>1, SpecificGroup DEF InLists, HasAccess
      <2> QED BY <2>1, <2>2, <2>3 DEF ServerCan
<1> QED BY <1>4, <1>5

LEMMA ConfigureTakes ==
  ASSUME ServerOK, NEW g \in Guests, NEW allow \in BOOLEAN, guests[g].access = "custom",
         ConfigureGuest(g, YesNo(allow)), UNCHANGED resource
  PROVE  ServerCan(g)' = allow
<1> DEFINE switch == YesNo(allow)
<1>1. switch \in {"yes", "no"} /\ (switch = "yes" <=> allow)
      BY YesNoSays
<1>2. granted \in Granted /\ guests \in Permitted
      BY DEF ServerOK, ServerShapes
<1>3. /\ NewRole(g, "custom", KeptSwitch(switch))
      /\ granted' = IF switch \in {"unset", guests[g].perm} THEN granted
                    ELSE ListGuest(granted, g, switch = "yes")
      BY DEF ConfigureGuest
<1>4. /\ KeptSwitch(switch) = "yes" => switch = "yes"
      /\ resource = "base" => KeptSwitch(switch) = switch
      BY <1>1 DEF KeptSwitch
<1> HIDE DEF switch
<1>5. guests'[g].access = "custom" /\ guests'[g].perm = KeptSwitch(switch)
      BY <1>2, <1>3, NewRoleGives
<1>6. resource # "base" => (InLists(granted', g) <=> allow)
      <2>1. CASE switch = guests[g].perm
            <3>1. granted' = granted /\ guests[g].perm # "unset"
                  BY <1>1, <1>3, <2>1
            <3> QED BY <1>1, <2>1, <3>1 DEF ServerOK, Listed
      <2>2. CASE switch # guests[g].perm
            <3>1. granted' = ListGuest(granted, g, switch = "yes") /\ (switch = "yes") \in BOOLEAN
                  BY <1>1, <1>3, <2>2
            <3>2. InLists(granted', g) <=> switch = "yes"
                  BY <1>2, <3>1, ListingDecides
            <3> QED BY <1>1, <3>2
      <2> QED BY <2>1, <2>2
<1> QED BY <1>1, <1>4, <1>5, <1>6, CustomAnswer

(* What the owner decides about a guest is what the server answers from    *)
(* then on, whatever else is under way.                                    *)
THEOREM DecisionsTake == PermSpec => DecisionTakes
<1>1. PermInv /\ [PermNext]_permVars =>
        [\A r \in asked : \A g \in Guests : \A allow \in BOOLEAN :
           /\ [r EXCEPT !.answer = "ok"] \in asked' \ asked /\ r.answer = "none" /\ r \notin asked'
           /\ \/ r.op = "decide" /\ r.args = <<g, allow>>
              \/ r.op = "configure" /\ r.args = <<g, YesNo(allow)>> /\ guests[g].access = "custom"
           /\ allow \/ guests'[g].access = "custom"
           => ServerCan(g)' = allow]_permVars
      <2> SUFFICES ASSUME PermInv, [PermNext]_permVars,
                          NEW r \in asked, NEW g \in Guests, NEW allow \in BOOLEAN,
                          [r EXCEPT !.answer = "ok"] \in asked' \ asked, r.answer = "none",
                          r \notin asked',
                          \/ r.op = "decide" /\ r.args = <<g, allow>>
                          \/ /\ r.op = "configure" /\ r.args = <<g, YesNo(allow)>>
                             /\ guests[g].access = "custom",
                          allow \/ guests'[g].access = "custom"
                   PROVE  ServerCan(g)' = allow
          OBVIOUS
      <2>1. Fits(r) /\ PermServed(r) /\ UNCHANGED resource
            BY OnlyServing
      <2>2. ServerOK /\ ServerOK'
            BY PermNextKeeps DEF PermInv
      <2>3. CASE r.op = "decide" /\ r.args = <<g, allow>>
            <3>1. DecideGuest(g, allow)
                  BY <2>1, <2>3 DEF PermServed
            <3> QED BY <2>1, <2>2, <3>1, DecideTakes
      <2>4. CASE /\ r.op = "configure" /\ r.args = <<g, YesNo(allow)>>
                 /\ guests[g].access = "custom"
            <3>1. ConfigureGuest(g, YesNo(allow))
                  BY <2>1, <2>4 DEF PermServed
            <3> QED BY <2>1, <2>2, <2>4, <3>1, ConfigureTakes
      <2> QED BY <2>3, <2>4
<1> QED BY <1>1, PermInitInv, PermNextKeeps, PTL DEF PermSpec, DecisionTakes
=============================================================================
