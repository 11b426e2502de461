---------------------------- MODULE ClientLists ----------------------------
(***************************************************************************)
(* The lists that the pages of the web client keep: arrays that are        *)
(* filtered, and whose elements are dragged to another place.              *)
(***************************************************************************)
EXTENDS Naturals, Sequences, FiniteSets, SequencesExt

(* filter of an array; keep are the places of the elements that stay.      *)
Filtered(s, keep) ==
  LET place(k) == CHOOSE i \in keep : Cardinality({j \in keep : j <= i}) = k IN
  [k \in 1..Cardinality(keep) |-> s[place(k)]]

(* arrayMove of the library that sorts by dragging                         *)
Moved(s, i, j) == InsertAt(RemoveAt(s, i), j, s[i])
=============================================================================
