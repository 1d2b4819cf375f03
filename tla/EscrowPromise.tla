--------------------------- MODULE EscrowPromise ---------------------------
(***************************************************************************)
(* What BIDit promises about the money of a sale, without order statuses,  *)
(* timers, shipments, handlers or crashes: the price leaves the buyer once *)
(* and is held, and it leaves the pot once, either to the seller less at   *)
(* most 5% or back to the buyer in full.                                   *)
(***************************************************************************)
EXTENDS Totals

CONSTANTS Orders, Users, Buyer, Seller, Amount

VARIABLES
  deal,    \* "won", "held", "released" or "refunded"
  purse,   \* what each user owns
  pot,     \* what is held
  house    \* what the platform earned, in fees and shipping

vars == <<deal, purse, pot, house>>

\* What a user still owes for the sales they won.
Owed(u) ==
  Total([o \in Orders |->
           IF Buyer[o] = u /\ deal[o] = "won" THEN Amount[o] ELSE 0], Orders)

Init ==
  /\ deal = [o \in Orders |-> "won"]
  /\ purse \in [Users -> Nat]
  /\ pot = 0 /\ house = 0

Hold(o) ==
  /\ deal[o] = "won"
  /\ deal' = [deal EXCEPT ![o] = "held"]
  /\ purse' = [purse EXCEPT ![Buyer[o]] = @ - Amount[o]]
  /\ pot' = pot + Amount[o]
  /\ UNCHANGED house

Release(o) ==
  /\ deal[o] = "held"
  /\ deal' = [deal EXCEPT ![o] = "released"]
  /\ pot' = pot - Amount[o]
  /\ house' >= house
  /\ 20 * (house' - house) <= Amount[o]
  /\ purse' = [purse EXCEPT ![Seller[o]] = @ + Amount[o] - (house' - house)]

Refund(o) ==
  /\ deal[o] = "held"
  /\ deal' = [deal EXCEPT ![o] = "refunded"]
  /\ pot' = pot - Amount[o]
  /\ purse' = [purse EXCEPT ![Buyer[o]] = @ + Amount[o]]
  /\ UNCHANGED house

\* Shipping is never paid with money that is owed for a sale.
PayShipping(u) ==
  /\ purse'[u] < purse[u]
  /\ purse' = [purse EXCEPT ![u] = purse'[u]]
  /\ house' = house + purse[u] - purse'[u]
  /\ purse'[u] >= Owed(u)
  /\ UNCHANGED <<deal, pot>>

Next ==
  \/ \E o \in Orders : Hold(o) \/ Release(o) \/ Refund(o)
  \/ \E u \in Users : PayShipping(u)

Spec == Init /\ [][Next]_vars

=============================================================================
