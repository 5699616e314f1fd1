CONSTANTS
  Txid = {t1, t2}
  None = None
  MaxPowerFailure = 2
  MaxKill = 1
SPECIFICATION DurSpec
INVARIANTS
  RecordsSurvive
  UndecidedUnseen
PROPERTIES
  OutcomeRecorded
CHECK_DEADLOCK FALSE
