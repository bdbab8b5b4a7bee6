CONSTANTS
  ann = ann  bob = bob  j1 = j1
  NoJob = NoJob
  NoScore = NoScore
  Papers = {ann, bob}
  Scores = {0, 1}
  Jobs = {j1}
  FirstBook <- MCFirstBook
  MaxReleases = 2
SPECIFICATION FairSpec
INVARIANTS TypeOK SuccessorsFollowSource
PROPERTIES ImplementsHistory ReadyPlansFrozen OnlyNewRegradesSlipIn EveryRegradeEnds
CHECK_DEADLOCK FALSE
