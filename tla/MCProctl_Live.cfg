CONSTANTS
  t1 = t1
  t2 = t2
  t3 = t3
  Tid <- MCTid3
  Main = t1
  InitTids = {t1, t2}
  Addr <- MCAddrCloneExit
  Succ <- MCSuccCloneExit
  Kind <- MCKindCloneExit
  RtFunc = {}
  Blocking = {}
  NumHW = 1
  MaxID = 0
SPECIFICATION FairSpec
CONSTRAINT IdBound
\* The process may exit, after which the controller does nothing more.
CHECK_DEADLOCK FALSE
PROPERTY CloneHandled
