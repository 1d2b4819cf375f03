\* A seller posts the same pool again after a spin: no error, no crash.
SPECIFICATION Evening
CONSTANTS
  p1 = p1  p2 = p2  v1 = v1  v2 = v2
  None = None
  Viewers = {v1}
  Seller = v2
  Giveaways = {}
  Eligible <- Everybody
  Auctions = {x1}
  Prizes = {p1, p2}
  Pools <- OnePool
  Units = 1
  Requests = {k1}
  MaxErrors = 0
  MaxCrashes = 0
PROPERTY PoolIsFixed
CHECK_DEADLOCK FALSE
