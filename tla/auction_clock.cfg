\* One live auction on a clock of quarter seconds: a duration of six seconds, bid
\* transactions that stay open for up to half a second, two store buyers on the
\* listing's two units, no faults.
SPECIFICATION FairSpec
CONSTANTS
  a1 = a1  a2 = a2  u1 = u1  u2 = u2  l1 = l1  l2 = l2
  NoUser = NoUser
  Auctions = {a1}
  Users = {u1, u2}
  Listings = {l1}
  Market = {}
  StoreBuyers = {u1, u2}
  ListingOf <- OneListing
  StartingBid <- StartAt100
  Stock <- StockOf2
  StorePrice <- StoreAt300
  Funds <- LowFunds
  Prices = {100, 200, 300}
  Shippings = {0}
  Moves = {}
  Second = 4
  Duration = 24
  MarketFloor = 0
  Lag = 2
  MaxFunds = 0
  MaxFaults = 0
INVARIANT UnitsAccounted
PROPERTIES EveryAuctionCloses EveryWinIsPaid NoEarlyClose RivalsCanAnswer
CHECK_DEADLOCK FALSE
