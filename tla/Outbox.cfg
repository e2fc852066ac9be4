SPECIFICATION FairSpec
CONSTANTS
  Purchase = {p1}
  Bad = {x1}
  Worker = {w1, w2}
  NoEvent = NoEvent
  Lease = 1
  BatchSize = 1
  MaxCrashes = 1
INVARIANTS TypeOK ProcessedMeansRefunded RefundsAreReal
PROPERTIES RefundIsFinal EveryEventProcessed
