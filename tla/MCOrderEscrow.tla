--------------------------- MODULE MCOrderEscrow ---------------------------
(* Small instances of OrderEscrow: the constants that a .cfg cannot write. *)
EXTENDS OrderEscrow, TLC

CONSTANTS o1, o2, buyer, seller

BuyerOf  == [o \in Orders |-> buyer]
SellerOf == [o \in Orders |-> seller]

\* Not a multiple of 25: both fees are rounded.
AmountOf == [o \in Orders |-> 130]

\* The price of every order and of one shipment.
OneShipping == (buyer :> 130 * Cardinality(Orders) + 10) @@ (seller :> 0)

SlotSymmetry == Permutations(Slots) \cup Permutations(Shipments)

=============================================================================
