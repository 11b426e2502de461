\* The last row of a table is deleted while its listener is down.
SPECIFICATION IndexSpec
CONSTANTS
  Keys = {1, 2}
  Threads = {l1}
  Requests = {}
  MaxVersion = 3
  PageSize = 1
  SweepLimit = 1
  MaxFaults = 0
PROPERTIES DeletedLeave
