CONSTANTS
  ann = ann  bob = bob  j1 = j1
  NoJob = NoJob
  NoScore = NoScore
  Papers = {ann, bob}
  Scores = {0, 1}
  Jobs = {j1}
  FirstBook <- MCFirstBook
  MaxReleases = 1
SPECIFICATION FairSpec
PROPERTY DecidedJobsFinish
CHECK_DEADLOCK FALSE
