\* Two offers of one buyer, another who buys at the asking price, the last unit,
\* two requests and an expiry pass at a time, one error or crash.
SPECIFICATION Spec
CONSTANTS
  u1 = u1  u2 = u2  o1 = o1  o2 = o2  l1 = l1
  None = None
  Users = {u1, u2}
  Listings = {l1}
  Offers = {o1, o2}
  Orders = {r1, r2, r3}
  Requests = {k1, k2}
  Passes = {p1}
  Bidder <- ByU1
  On <- OnL1
  Amount <- Bids
  Counter <- At50
  BuyNow <- AskFor60
  Ship <- Shipping5
  Stock <- One
  Funds <- Wallet
  Moves = {}
  MaxFaults = 1
INVARIANTS OpenOffersAreBacked NeverOversold AcceptedMeansSold
SYMMETRY Interchangeable
CHECK_DEADLOCK FALSE
