SPECIFICATION FairSpec
CONSTANTS
  Req = {r1, r2}
  Environment <- Environments
  Fallback <- Defaults
  MaxTTL = 5
  Int32Half = 8
  Int64Half = 16
  BaseBackoff = 5
  MaxBackoff = 9
  MaxBackoffShift = 1
  Grace = 3
INVARIANTS TypeOK AnsweredByDeadline NoConnectionLeaked ShutdownDrains BackoffGrows
PROPERTIES EveryRequestAnswered SignalEndsProcess
CHECK_DEADLOCK FALSE
