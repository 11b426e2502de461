----------------------- MODULE MCDatabaseMigration -----------------------
(* Instances of DatabaseMigration for TLC. *)
EXTENDS DatabaseMigration, TLC

CONSTANTS t1, t2
OneTable == {t1}
TwoTables == {t1, t2}
EveryBase == [turbo : BOOLEAN, created : BOOLEAN, listener : BOOLEAN]
TurboBase == {[turbo |-> TRUE, created |-> FALSE, listener |-> TRUE]}
TableSymmetry == Permutations(TwoTables)
==========================================================================
