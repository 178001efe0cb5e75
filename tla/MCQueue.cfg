\* The pump's queue, which joins deltas while its timer runs, and a listener's.
SPECIFICATION FairSpec
CONSTANTS
  Keys = {k1, k2}
  MaxItems = 2
  MaxDeltaChars = 2
  MaxText = 3
  MaxSent = 5
  MaxLost = 2
\* A closed queue whose reader has been told the end stops.
CHECK_DEADLOCK FALSE
INVARIANT QueueInv
PROPERTY DropsOnlyAtTheLimit
PROPERTY NothingIsStuck
PROPERTY MeetsContract
