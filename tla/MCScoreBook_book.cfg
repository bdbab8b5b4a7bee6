CONSTANTS
  ann = ann  bob = bob  q1 = q1  q2 = q2  q3 = q3  p1 = p1  p2 = p2
  NoScore = NoScore
  NoRow = NoRow
  Students = {ann, bob}
  Submissions = {ann}
  Questions = {q1, q2, q3}
  Route <- MCRoute
  Scores = {0, 1}
  Appeals = {p1, p2}
  MaxPairs = 2
SPECIFICATION FairSpec
INVARIANTS TypeOK BooksBalance AdjustmentsChain
PROPERTIES PublishedStandsFirm 
CHECK_DEADLOCK FALSE
