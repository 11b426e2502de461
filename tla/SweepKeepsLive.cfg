\* An index run of two pages while a client deletes one row.
SPECIFICATION IndexSpec
CONSTANTS
  Keys = {1, 2}
  Threads = {l1}
  Requests = {}
  MaxVersion = 3
  PageSize = 1
  SweepLimit = 1
  MaxFaults = 0
PROPERTIES SweepKeepsLive
