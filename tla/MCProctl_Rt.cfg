CONSTANTS
  t1 = t1
  t2 = t2
  t3 = t3
  Tid <- MCTid
  Main = t1
  InitTids = {t1, t2}
  Addr <- MCAddrRt
  Succ <- MCSuccRt
  Kind <- MCKindRt
  RtFunc = {2}
  Blocking = {2}
  NumHW = 0
  MaxID = 1
SPECIFICATION Spec
CONSTRAINT IdBound
\* The target may exit; after ProcessExitedError the controller stops.
CHECK_DEADLOCK FALSE
INVARIANT TypeOK
PROPERTY BreakpointTableWithLoss
