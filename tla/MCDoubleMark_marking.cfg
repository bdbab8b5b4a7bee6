CONSTANTS
  ann = ann  bob = bob  cy = cy
  NoOne = NoOne
  NoMark = NoMark
  People <- MCThreePeople
  Scores = {0, 3}
  Policies <- MCPolicies
  MaxSessions = 1
SPECIFICATION FairSpec
INVARIANTS TypeOK BothMarksCompared FinalGradeIsVerdict TablesAgree
PROPERTIES MarksAreKept EveryPairIsSettled
