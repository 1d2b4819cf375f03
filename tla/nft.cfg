\* One NFT, two users, one listing, an auction, two requests at
\* a time beside a scan and a worker, one error or crash.
SPECIFICATION FairSpec
CONSTANTS
  None = None
  Users = {u1, u2}
  Assets = {a1}
  Listings = {l1}
  Auctions = {x1}
  Requests = {k1, k2}
  Scans = {s1}
  Workers = {w1}
  Cap = 1
  MaxDeposits = 1
  MaxFaults = 1
INVARIANTS OwnersPaid UnlistSparesBuyers
PROPERTY WithdrawalsEnd
CHECK_DEADLOCK FALSE
