SPECIFICATION FairSpec
CONSTANTS
  Buyer = {b1, b2}
  NoBuyer = NoBuyer
  Anon = b1
INVARIANTS LastReadFollowsMutation SeatsPolled KnownIsOwn
PROPERTIES RefundFollowed
