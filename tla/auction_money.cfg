\* Two auctions, one of them on the marketplace, and two users whose money
\* does not stretch to leading both at the top price.
SPECIFICATION Spec
CONSTANTS
  a1 = a1  a2 = a2  u1 = u1  u2 = u2  l1 = l1  l2 = l2
  NoUser = NoUser
  Auctions = {a1, a2}
  Users = {u1, u2}
  Listings = {l1, l2}
  Market = {a2}
  StoreBuyers = {}
  ListingOf <- TwoListings
  StartingBid <- StartAt4800
  Stock <- StockOf1
  StorePrice <- StoreAt300
  Funds <- TierFunds
  Prices = {4800, 5040, 5240}
  Shippings = {500}
  Moves = {5000}
  Second = 1
  Duration = 1
  MarketFloor = 1
  Lag = 0
  MaxFunds = 10000
  MaxFaults = 1
INVARIANTS TypeOK HoldsCovered LeaderHolds OneBidStands WinsAreFunded
PROPERTY RunsEnglishAuctions
CHECK_DEADLOCK FALSE
