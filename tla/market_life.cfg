\* One request beside an expiry pass, the buyers spend elsewhere, one error or crash.
SPECIFICATION FairSpec
CONSTANTS
  u1 = u1  u2 = u2  o1 = o1  o2 = o2  l1 = l1
  None = None
  Users = {u1, u2}
  Listings = {l1}
  Offers = {o1, o2}
  Orders = {r1, r2}
  Requests = {k1}
  Passes = {p1}
  Bidder <- ByU1
  On <- OnL1
  Amount <- Bids
  Counter <- At50
  BuyNow <- AskFor60
  Ship <- Shipping5
  Stock <- One
  Funds <- Wallet
  Moves = {35}
  MaxFaults = 1
INVARIANT HoldsCovered
PROPERTY EveryReserveComesBack
CHECK_DEADLOCK FALSE
