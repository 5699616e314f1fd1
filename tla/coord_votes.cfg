CONSTANTS
  b1 = b1
  b2 = b2
  s1 = s1
  s2 = s2
  t1 = t1
  t2 = t2
  th1 = th1
  th2 = th2
  Backend = {b1, b2}
  Store = {s1}
  Txid = {t1}
  TidOf <- ConstantId
  Thread = {th1}
  CoordThread <- OneThread
  None = None
  Recovered = Recovered
  MayLose = {"commit", "abort", "ask", "register"}
  MaxCalls = 2
  WriteMayFail = TRUE
  MaxCoordCrash = 1
SPECIFICATION CoordSpec
SYMMETRY BackendSymmetry
INVARIANTS
  TypeOK
  OneOutcome
PROPERTIES
  VotesComplete
