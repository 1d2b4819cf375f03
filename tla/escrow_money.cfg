\* One order, two shipments, two handlers at a time and a fault: everything
\* that can race or be cut off between two statements.
SPECIFICATION Spec
CONSTANTS
  o1 = o1  o2 = o2  buyer = buyer  seller = seller
  None = None
  Orders = {o1}
  Users = {buyer, seller}
  Shipments = {s1, s2}
  Slots = {k1, k2}
  Buyer <- BuyerOf
  Seller <- SellerOf
  Amount <- AmountOf
  Kinds = {"stream", "marketplace", "nft"}
  ShipFee = 10
  Funds <- OneShipping
  ByHand = {o1}
  MaxFaults = 1
SYMMETRY SlotSymmetry
INVARIANTS TypeOK EscrowBacked MoneyConserved LockedFirst GoodsMovePaid
PROPERTY KeepsEscrowPromise
CHECK_DEADLOCK FALSE
