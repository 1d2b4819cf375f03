----------------------------- MODULE MCCustody -----------------------------
(* Small instances of Custody: the constants that a .cfg cannot write.     *)
EXTENDS Custody, TLC

CONSTANTS u1, w1, w2, lock

OwnerOf == [w \in Withdrawals |-> u1]
SumOf   == [w \in Withdrawals |-> IF w = w1 THEN 60 ELSE 50]

\* The price of a sale goes into escrow.
FromOf  == [l \in Legs |-> "treasury"]
ToOf    == [l \in Legs |-> "escrow"]
WorthOf == [l \in Legs |-> 30]
PartyOf == [l \in Legs |-> u1]

DepositorOf == [d \in Deposits |-> u1]
GiftOf      == [d \in Deposits |-> 20]

Funds120 == [u \in Users |-> 120]
\* Enough for the withdrawal or the sale.
Funds80  == [u \in Users |-> 80]

=============================================================================
