\* A leg of the outbox, a deposit and a withdrawal that share one balance and the
\* treasury, and an error or crash.
SPECIFICATION FairSpec
CONSTANTS
  u1 = u1  w1 = w1  w2 = w2  lock = lock
  None = None
  Users = {u1}
  Withdrawals = {w1}
  Legs = {lock}
  Deposits = {d1}
  Slots = {k1}
  Sigs = {x1, x2, x3}
  Owner <- OwnerOf
  Sum <- SumOf
  From <- FromOf
  To <- ToOf
  Worth <- WorthOf
  Party <- PartyOf
  Depositor <- DepositorOf
  Gift <- GiftOf
  Funds <- Funds80
  DailyCap = 100
  MaxFaults = 1
INVARIANTS LegsLandOnce WalletsMatchBooks
PROPERTIES RecordedIsCredited KeepsCustodyPromise
CHECK_DEADLOCK FALSE
