CONSTANTS
  t1 = t1
  t2 = t2
  t3 = t3
  Tid <- MCTid
  Main = t1
  InitTids = {t1}
  Addr <- MCAddr
  Succ <- MCSucc
  Kind <- MCKind
  RtFunc = {}
  Blocking = {}
  NumHW = 1
  MaxID = 1
SPECIFICATION FairSpec
CONSTRAINT IdBound
PROPERTY StopCancelsWait
