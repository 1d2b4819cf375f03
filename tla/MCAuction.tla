----------------------------- MODULE MCAuction -----------------------------
(* Small instances of Auction: the constants that a .cfg cannot write.     *)
EXTENDS Auction, TLC

CONSTANTS a1, a2, u1, u2, l1, l2

\* One listing per auction, or two auctions on one listing.
TwoListings == (a1 :> l1) @@ (a2 :> l2)
OneListing  == [a \in Auctions |-> l1]

StartAt4800 == [a \in Auctions |-> 4800]
StartAt100  == [a \in Auctions |-> 100]

StockOf1 == [l \in Listings |-> 1]
StockOf2 == [l \in Listings |-> 2]

StoreAt300 == [l \in Listings |-> 300]

\* 4800 + 5% is 5040, above the $50 tier, where the step is $2.
TierFunds == (u1 :> 10400) @@ (u2 :> 5300)
LowFunds  == [u \in Users |-> 300]

=============================================================================
