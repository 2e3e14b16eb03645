CONSTANTS
  t1 = t1
  t2 = t2
  t3 = t3
  Tid <- MCTid
  Main = t1
  InitTids = {t1, t2}
  Addr <- MCAddrExit
  Succ <- MCSuccExit
  Kind <- MCKindExit
  RtFunc = {}
  Blocking = {}
  NumHW = 0
  MaxID = 1
SPECIFICATION Spec
CONSTRAINT IdBound
CHECK_DEADLOCK FALSE
PROPERTY BreakpointTableRefined
