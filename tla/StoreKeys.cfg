SPECIFICATION Spec
CONSTANTS
  Req = {r1, r2}
  Seat = {s1, s2}
  s1 = s1
  s2 = s2
  b1 = b1
  b2 = b2
  m1 = m1
  Match = {m1}
  MatchOf <- OneMatch
  Buyer = {b1, b2}
  Key = {k1}
  NoKey = NoKey
  Ops = {"hold"}
  TTL = 1
  StartTime <- StartsLast
  Retention = 1
  SweepBatch = 1
  MaxRetries = 1
  MaxTime = 3
  MaxBookings = 3
SYMMETRY Symmetry
INVARIANTS OneActivePerSeat
PROPERTIES AnswerIsOwnBooking KeysLeaveDeadBookingsOnly NoFalseConflict
CHECK_DEADLOCK FALSE
