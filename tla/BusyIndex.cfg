\* Index runs, with a crash, beside a listener thread or beside a request.
SPECIFICATION MCIndexSpec
CONSTANTS
  Keys = {1, 2}
  Threads = {l1}
  Requests = {r1}
  MaxVersion = 3
  PageSize = 1
  SweepLimit = 1
  MaxFaults = 1
PROPERTIES IndexComplete CountsConverge
