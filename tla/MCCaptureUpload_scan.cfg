SPECIFICATION FairSpec
CONSTANTS
  Runs = {"s1"}
  Requests = {"q1", "q2"}
  Rows <- MCRows
  Keys <- MCKeys
  MaxRevision = 2
  Chunks = 2
  MaxBad = 1
  MaxTroubles = 1
INVARIANTS TypeOK OnlyAdoptedLoseObjects DoneIsRegistered
PROPERTIES EveryScanEnds
