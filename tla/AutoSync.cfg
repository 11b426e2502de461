\* The syncer cron job, server restarts and remote DDL beside a migration.
SPECIFICATION CronSpec
CONSTANTS
  t1 = t1
  t2 = t2
  Tables <- OneTable
  Bases <- TurboBase
  MaxBatch = 2
  MaxFaults = 1
PROPERTIES CronConverges
