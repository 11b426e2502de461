-------------------------- MODULE MigrationStages --------------------------
(***************************************************************************)
(* What the migration of one newly connected base promises its users: the  *)
(* status they watch passes through the stages of PowerbaseDatabase's      *)
(* enum, each at most once and never backwards, and the base is given to   *)
(* the change listener only once it is migrated.  DatabaseMigration is     *)
(* shown to implement this specification.                                  *)
(***************************************************************************)
VARIABLES
  status,   \* the stage the base is in
  polled    \* is the base handed to the job that keeps its listener running?

vars == <<status, polled>>

(* The stages, in the order of the enum. *)
Stage == {"analyzing_base", "migrating_metadata", "adding_connections",
          "creating_listeners", "indexing_records", "migrated"}

Before(s, u) ==
  \/ s = "analyzing_base" /\ u \in Stage \ {s}
  \/ s = "migrating_metadata" /\ u \in Stage \ {"analyzing_base", s}
  \/ s = "adding_connections" /\ u \in {"creating_listeners", "indexing_records", "migrated"}
  \/ s = "creating_listeners" /\ u \in {"indexing_records", "migrated"}
  \/ s = "indexing_records" /\ u = "migrated"

TypeOK == status \in Stage /\ polled \in BOOLEAN

Init == status = "analyzing_base" /\ ~ polled

(* A base may skip stages (no listener, no index, nothing to migrate) but  *)
(* it never returns to an earlier one, and polling starts with the last.   *)
Advance ==
  /\ \E s \in Stage : Before(status, s) /\ status' = s
  /\ polled' \in BOOLEAN
  /\ polled' => status' = "migrated"

Next == Advance

Spec == Init /\ [][Next]_vars
=============================================================================
