--------------------------- MODULE EnglishAuction ---------------------------
(***************************************************************************)
(* What BIDit promises about its auctions, without holds, transactions,    *)
(* deadlines, the scheduler or settlement tasks: ascending auctions in     *)
(* which nobody ever leads for more than they are worth, the last leader   *)
(* wins at the price they bid, and a win is paid for once.                 *)
(***************************************************************************)
EXTENDS Totals

CONSTANTS Auctions, Users, NoUser

VARIABLES
  phase,    \* "waiting", "open", "passed", "sold" or "paid"
  price,    \* the highest bid, 0 before the first
  leader,   \* who made it
  worth     \* what each user owns

vars == <<phase, price, leader, worth>>

\* What a user owes if every auction they lead, or won and have not paid for,
\* goes to them.
Committed(u) ==
  Total([a \in Auctions |->
           IF leader[a] = u /\ phase[a] \in {"open", "sold"} THEN price[a] ELSE 0],
        Auctions)

Init ==
  /\ phase = [a \in Auctions |-> "waiting"]
  /\ price = [a \in Auctions |-> 0]
  /\ leader = [a \in Auctions |-> NoUser]
  /\ worth \in [Users -> Nat]

Open(a) ==
  /\ phase[a] = "waiting"
  /\ phase' = [phase EXCEPT ![a] = "open"]
  /\ UNCHANGED <<price, leader, worth>>

\* The price only rises, the leader never outbids themselves, and the bidder
\* can pay for this auction and all the others they lead.
Bid(a, u) ==
  /\ phase[a] = "open"
  /\ leader[a] # u
  /\ price'[a] > price[a]
  /\ price' = [price EXCEPT ![a] = price'[a]]
  /\ leader' = [leader EXCEPT ![a] = u]
  /\ UNCHANGED <<phase, worth>>
  /\ Committed(u)' <= worth[u]

Close(a) ==
  /\ phase[a] = "open"
  /\ phase' = [phase EXCEPT ![a] = IF leader[a] = NoUser THEN "passed" ELSE "sold"]
  /\ UNCHANGED <<price, leader, worth>>

\* The winner always can.
Pay(a) ==
  /\ phase[a] = "sold"
  /\ worth[leader[a]] >= price[a]
  /\ phase' = [phase EXCEPT ![a] = "paid"]
  /\ worth' = [worth EXCEPT ![leader[a]] = @ - price[a]]
  /\ UNCHANGED <<price, leader>>

\* Any other movement of money leaves enough for what is committed.
Move(u) ==
  /\ worth' = [worth EXCEPT ![u] = worth'[u]]
  /\ Committed(u) <= worth'[u]
  /\ UNCHANGED <<phase, price, leader>>

Next ==
  \/ \E a \in Auctions : Open(a) \/ Close(a) \/ Pay(a)
  \/ \E a \in Auctions, u \in Users : Bid(a, u)
  \/ \E u \in Users : Move(u)

Spec == Init /\ [][Next]_vars

=============================================================================
