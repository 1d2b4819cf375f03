\* Two withdrawals that fit the balance but not the cap together, requests and
\* passes that overlap, and two errors or crashes.
SPECIFICATION FairSpec
CONSTANTS
  u1 = u1  w1 = w1  w2 = w2  lock = lock
  None = None
  Users = {u1}
  Withdrawals = {w1, w2}
  Legs = {}
  Deposits = {}
  Slots = {k1, k2}
  Sigs = {x1, x2}
  Owner <- OwnerOf
  Sum <- SumOf
  From <- FromOf
  To <- ToOf
  Worth <- WorthOf
  Party <- PartyOf
  Depositor <- DepositorOf
  Gift <- GiftOf
  Funds <- Funds120
  DailyCap = 100
  MaxFaults = 2
INVARIANTS PaidXorReversed CapBoundsOutflow
PROPERTY SubmittedEnds
CHECK_DEADLOCK FALSE
