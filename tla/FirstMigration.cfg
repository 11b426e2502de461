\* One base migrated for the first time, with up to two faults.
SPECIFICATION Spec
CONSTANTS
  t1 = t1
  t2 = t2
  Tables <- TwoTables
  Bases <- EveryBase
  MaxBatch = 2
  MaxFaults = 2
INVARIANTS TypeOK NothingForgotten StageBarrier CleanFinish
PROPERTIES ImplementsStages FirstMigrationCompletes
CHECK_DEADLOCK FALSE
