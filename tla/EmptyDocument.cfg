\* A row that is gone again when its notification is handled.
SPECIFICATION FeedSpec
CONSTANTS
  Keys = {k1, k2}
  Threads = {l1}
  MaxVersion = 4
INVARIANTS NoEmptyDocument
