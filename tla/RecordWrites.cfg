\* A request and two listener threads writing two rows.
SPECIFICATION WriteSpec
CONSTANTS
  Keys = {k1, k2}
  Threads = {l1, l2}
  Requests = {r1}
  MaxVersion = 3
INVARIANTS WriteTypeOK WritesAccounted
