------------------------------ MODULE MCMarket ------------------------------
(* Small instances of Market: the constants that a .cfg cannot write.      *)
EXTENDS Market, TLC

CONSTANTS u1, u2, o1, o2, l1

\* Two offers of one buyer on the one listing.
ByU1    == [o \in Offers |-> u1]
OnL1    == [o \in Offers |-> l1]
Bids    == [o \in Offers |-> IF o = o1 THEN 30 ELSE 40]
At50    == [o \in Offers |-> 50]
AskFor60  == [l \in Listings |-> 60]
Shipping5 == [l \in Listings |-> 5]
One     == [l \in Listings |-> 1]
\* u1 can back one offer or pay for the item, not both; u2 can buy it.
Wallet  == [u \in Users |-> 65]

Interchangeable == Permutations(Requests) \cup Permutations(Orders)

=============================================================================
