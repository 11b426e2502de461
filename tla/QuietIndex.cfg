\* Index runs of a drifted table that nobody writes, with crashes.
SPECIFICATION MCIndexSpec
CONSTANTS
  Keys = {1, 2, 3}
  Threads = {}
  Requests = {}
  MaxVersion = 2
  PageSize = 2
  SweepLimit = 1
  MaxFaults = 2
INVARIANTS IndexTypeOK
PROPERTIES IndexComplete CountsConverge
