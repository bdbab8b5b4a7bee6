CONSTANTS
  e1 = e1  e2 = e2  d1 = d1  d2 = d2
  NoOwner = NoOwner
  Nothing = Nothing
  Events <- MCTwoEvents
  Dispatchers <- MCTwoDispatchers
  MaxAttempts = 2
  BatchSize = 2
  LeaseTTL = 1
  BaseBackoff = 1
  MaxBackoff = 3
  MaxLives = 2
SPECIFICATION FairSpec
INVARIANTS TypeOK VerdictOfLastAttempt
PROPERTIES OnlyNewestAttemptMarks EndsOrStranded
