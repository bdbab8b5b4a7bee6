CONSTANTS
  ann = ann  bob = bob  q1 = q1  q2 = q2  q3 = q3  p1 = p1  p2 = p2
  NoScore = NoScore
  NoRow = NoRow
  Students = {ann, bob}
  Submissions = {ann, bob}
  Questions = {q1}
  Route <- MCDouble
  Scores = {0, 1}
  Appeals = {}
  MaxPairs = 2
SPECIFICATION Spec
INVARIANT PublishedTotalIsSum
