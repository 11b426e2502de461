\* Two listener threads following four changes of two rows.
SPECIFICATION FeedSpec
CONSTANTS
  Keys = {k1, k2}
  Threads = {l1, l2}
  MaxVersion = 4
INVARIANTS FeedTypeOK Accounted
PROPERTIES ChangesArrive
