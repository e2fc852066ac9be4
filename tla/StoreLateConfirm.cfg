SPECIFICATION PromptSpec
CONSTANTS
  Req = {r1, r2}
  Seat = {s1, s2}
  s1 = s1
  s2 = s2
  b1 = b1
  b2 = b2
  m1 = m1
  Match = {m1}
  MatchOf <- OneMatch
  Buyer = {b1}
  Key = {}
  NoKey = NoKey
  Ops = {"hold", "confirm"}
  TTL = 1
  StartTime <- StartsLast
  Retention = 1
  SweepBatch = 1
  MaxRetries = 1
  MaxTime = 2
  MaxBookings = 3
PROPERTIES ConfirmsLiveHoldsOnly
CHECK_DEADLOCK FALSE
