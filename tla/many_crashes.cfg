CONSTANTS
  b1 = b1
  b2 = b2
  s1 = s1
  s2 = s2
  t1 = t1
  t2 = t2
  th1 = th1
  th2 = th2
  p1 = p1
  Backend = {b1}
  Store = {s1}
  Txid = {t1}
  TidOf <- ConstantId
  Thread = {th1}
  CoordThread <- OneThread
  Path = {p1}
  PathOf <- OnePath
  OpOf <- OnlyStores
  StoreThread <- OneThread
  StoreWriteMayFail = TRUE
  Main = Main
  NULL = NULL
  MayTimeOut = {t1}
  MaxHandlers = 2
  MaxStoreCrash = 3
  None = None
  Recovered = Recovered
  MayLose = {"ask"}
  MaxCalls = 2
  WriteMayFail = FALSE
  MaxCoordCrash = 2
SPECIFICATION Spec
INVARIANTS
  Agreement
  NoDirtyData

  
CHECK_DEADLOCK FALSE
