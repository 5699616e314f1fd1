CONSTANTS
  b1 = b1
  b2 = b2
  s1 = s1
  s2 = s2
  t1 = t1
  t2 = t2
  th1 = th1
  th2 = th2
  p1 = p1
  Backend = {b1}
  Store = {s1, s2}
  Txid = {t1, t2}
  TidOf <- DistinctIds
  Thread = {th1, th2}
  CoordThread <- TwoThreads
  Path = {p1}
  PathOf <- OnePath
  OpOf <- OnlyStores
  StoreThread <- TwoThreads
  StoreWriteMayFail = FALSE
  Main = Main
  NULL = NULL
  MayTimeOut = {}
  MaxHandlers = 2
  MaxStoreCrash = 0
  None = None
  Recovered = Recovered
  MayLose = {}
  MaxCalls = 1
  WriteMayFail = FALSE
  MaxCoordCrash = 0
SPECIFICATION Spec
PROPERTIES
  AppropriateLock
CHECK_DEADLOCK FALSE
