CONSTANTS
  t1 = t1  t2 = t2  s1 = s1  s2 = s2  r1 = r1  r2 = r2
  NoResult = NoResult
  Tasks <- MCTwoTasks
  ImportTasks <- MCImportTask
  Sessions <- MCTwoSessions
  Results <- MCResults
  LeaseTicks = {1}
  RetryTicks = {1}
  Budgets = {1, 2}
  ClaimLimit = 2
  MaxTxAge = 1
  AttemptCap = 2
SPECIFICATION FairSpec
INVARIANTS TypeOK OneAcceptedResult IInv
PROPERTIES NoEarlySteal ImplementsFencedTask 
