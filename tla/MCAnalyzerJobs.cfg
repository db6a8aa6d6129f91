\* Two runners, batches of two of three jobs, one failure.
CONSTANTS
  j1 = j1
  j2 = j2
  j3 = j3
  Null = Null
  Jobs = {j1, j2, j3}
  CreatedAt <- MCCreatedAt
  Runners = {r1, r2}
  BatchSize = 2
  MaxFailures = 1
SPECIFICATION FairSpec
INVARIANTS IInv StuckWithReason ResultsMixOnlyIfShared
PROPERTIES EveryJobSettles
CHECK_DEADLOCK FALSE
