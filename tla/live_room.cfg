\* One giveaway with three viewers, one of them the seller, or two auctions of a
\* randomizer; a request beside the timer and the settlements, one error, one crash.
SPECIFICATION FairEvening
CONSTANTS
  p1 = p1  p2 = p2  v1 = v1  v2 = v2
  None = None
  Viewers = {v1, v2, v3}
  Seller = v3
  Giveaways = {g1}
  Eligible <- Everybody
  Auctions = {x1, x2}
  Prizes = {p1, p2}
  Pools <- SellersPools
  Units = 1
  Requests = {k1}
  MaxErrors = 1
  MaxCrashes = 1
INVARIANTS WheelMatchesStock
PROPERTIES EveryGiveawayEnds EveryPrizeShips
CHECK_DEADLOCK FALSE
