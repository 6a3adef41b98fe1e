CONSTANTS
  t1 = t1
  t2 = t2
  Tests <- MCTests
  Plans <- MCPlans
SPECIFICATION FairSpec
CHECK_DEADLOCK FALSE
INVARIANTS
  TypeOK
  GroupInv
  NoErrorLost
  FailureSurfaces
  StopsAtExit
PROPERTY RunTestsReturns
