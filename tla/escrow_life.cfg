\* Two orders that may share a shipment, one handler at a time, one fault.
SPECIFICATION FairSpec
CONSTANTS
  o1 = o1  o2 = o2  buyer = buyer  seller = seller
  None = None
  Orders = {o1, o2}
  Users = {buyer, seller}
  Shipments = {s1}
  Slots = {k1}
  Buyer <- BuyerOf
  Seller <- SellerOf
  Amount <- AmountOf
  Kinds = {"stream"}
  ShipFee = 10
  Funds <- OneShipping
  ByHand = {o1}
  MaxFaults = 1
INVARIANT StatusTellsMoney
PROPERTY EverySaleSettles
CHECK_DEADLOCK FALSE
