--------------------------- MODULE AuctionProofs ---------------------------
(***************************************************************************)
(* Theorems about Auction for every value of its constants: types, money   *)
(* behind every lead, captures that never fail, a clock that is fair,      *)
(* one bid that stands, units that add up, and the refinement of           *)
(* EnglishAuction.                                                         *)
(***************************************************************************)
EXTENDS Auction, TotalsProofs

\* A bid is open only on a running auction; an order exists, or is being
\* settled, only for an auction sold to somebody, and it never fails.
Phases ==
  \A a \in Auctions :
    /\ Locked(a) => status[a] = "RUNNING"
    /\ stage[a] # "NONE" => status[a] = "SETTLING"
    /\ a \in settling => status[a] = "SETTLING"
    /\ status[a] = "SETTLING" => leader[a] # NoUser
    /\ stage[a] # "FAILED"

\* The leader has a bid row, WON once the auction is sold.
LeaderHasBid ==
  \A a \in Auctions : leader[a] # NoUser =>
    \E b \in bids[a] :
      /\ b.user = leader[a]
      /\ b.st = IF status[a] = "SETTLING" THEN "WON" ELSE "ACTIVE"

\* The inductive invariant.
Inv == TypeOK /\ HoldsCovered /\ LeaderHolds /\ Phases /\ LeaderHasBid

-----------------------------------------------------------------------------
(* Holds and their sums.                                                   *)

\* Amounts of money are natural numbers.
LEMMA Amounts ==
  /\ \A x \in Prices \cup {0} : x \in Nat
  /\ \A x \in Shippings \cup {0} : x \in Nat
  /\ \A l \in Listings : StorePrice[l] \in Nat
  /\ \A x \in Moves : x \in Nat
<1>1. /\ Prices \subseteq Nat \ {0} /\ Shippings \subseteq Nat
      /\ StorePrice \in [Listings -> Nat \ {0}] /\ Moves \subseteq Nat \ {0}
  BY MoneyAssumption
<1>2. \A x \in Prices : x \in Nat
  BY <1>1
<1>3. \A x \in Shippings : x \in Nat
  BY <1>1
<1>4. \A l \in Listings : StorePrice[l] \in Nat
  BY <1>1
<1>5. \A x \in Moves : x \in Nat
  BY <1>1
<1>6. QED
  BY <1>2, <1>3, <1>4, <1>5

\* The reserve of a user is a natural number and no single hold exceeds it.
LEMMA HoldsNat ==
  ASSUME TypeOK
  PROVE  \A u \in Users :
           /\ activeHolds(u) \in Nat
           /\ \A a \in Auctions : hold[a][u] <= activeHolds(u)
<1> TAKE u \in Users
<1> DEFINE f == [a \in Auctions |-> hold[a][u]]
<1>1. \A a \in Auctions : f[a] \in Nat
  BY DEF TypeOK
<1>2. Total(f, Auctions) \in Nat
  <2> HIDE DEF f
  <2> QED BY <1>1, TotalNat, FiniteAssumption
<1>3. \A a \in Auctions : f[a] <= Total(f, Auctions)
  <2> HIDE DEF f
  <2> QED BY <1>1, TotalBounds, FiniteAssumption
<1>4. QED
  BY <1>2, <1>3 DEF activeHolds

\* TotalUpdate for a sum over the auctions.
LEMMA AuctionsUpdate ==
  ASSUME NEW f, NEW g, NEW a \in Auctions,
         \A b \in Auctions : f[b] \in Int,
         g[a] \in Int,
         \A b \in Auctions \ {a} : g[b] = f[b]
  PROVE  Total(g, Auctions) = Total(f, Auctions) - f[a] + g[a]
BY FiniteAssumption, TotalUpdate

\* Changing a user's hold on one auction changes the reserve by as much.
LEMMA HoldsChange ==
  ASSUME NEW h \in [Auctions -> [Users -> Nat]],
         NEW k \in [Auctions -> [Users -> Nat]],
         NEW a \in Auctions, NEW u \in Users,
         \A b \in Auctions \ {a} : k[b] = h[b]
  PROVE  Total([b \in Auctions |-> k[b][u]], Auctions)
           = Total([b \in Auctions |-> h[b][u]], Auctions) - h[a][u] + k[a][u]
<1> DEFINE f == [b \in Auctions |-> h[b][u]]
           g == [b \in Auctions |-> k[b][u]]
<1>1. \A b \in Auctions : f[b] \in Int
  OBVIOUS
<1>2. g[a] \in Int
  OBVIOUS
<1>3. \A b \in Auctions \ {a} : g[b] = f[b]
  OBVIOUS
<1>4. f[a] = h[a][u] /\ g[a] = k[a][u]
  OBVIOUS
<1>5. Total(g, Auctions) = Total(f, Auctions) - f[a] + g[a]
  <2> HIDE DEF f, g
  <2>1. QED
    BY <1>1, <1>2, <1>3, AuctionsUpdate
<1>6. QED
  BY <1>4, <1>5

\* A step that leaves holds alone and no user with less than their reserve
\* keeps every hold covered.
LEMMA MoneyMoves ==
  ASSUME TypeOK, HoldsCovered, UNCHANGED hold,
         NEW u \in Users,
         settled' = [settled EXCEPT ![u] = settled'[u]],
         settled'[u] \in Int, activeHolds(u) <= settled'[u]
  PROVE  HoldsCovered' /\ settled' \in [Users -> Nat]
<1>1. \A v \in Users : activeHolds(v)' = activeHolds(v) /\ activeHolds(v) \in Nat
  BY HoldsNat DEF activeHolds
<1>2. \A v \in Users : activeHolds(v) <= settled'[v] /\ settled'[v] \in Int
  BY DEF HoldsCovered, TypeOK
<1>3. settled' \in [Users -> Nat]
  <2>1. \A v \in Users : settled'[v] \in Nat
    BY <1>1, <1>2
  <2>2. QED
    BY <2>1 DEF TypeOK
<1>4. QED
  BY <1>1, <1>2, <1>3 DEF HoldsCovered

\* On a running auction, releasing the previous hold leaves none.
LEMMA ReleaseFreesAll ==
  ASSUME TypeOK, LeaderHolds, Phases, NEW a \in Auctions, status[a] = "RUNNING"
  PROVE  ReleasedHolds(a) = [u \in Users |-> 0]
<1>1. Uncaptured(a)
  BY DEF Phases, Uncaptured
<1>2. \A u \in Users : u # leader[a] => hold[a][u] = 0
  BY <1>1 DEF LeaderHolds
<1>3. hold[a] \in [Users -> Nat]
  BY DEF TypeOK
<1> DEFINE holders == {u \in Users : hold[a][u] > 0}
<1>4. CASE holders = {}
  <2>1. \A u \in Users : hold[a][u] = 0
    BY <1>3, <1>4
  <2>2. ReleasedHolds(a) = hold[a]
    BY <1>4 DEF ReleasedHolds
  <2>3. QED
    BY <1>3, <2>1, <2>2
<1>5. CASE holders # {}
  <2> DEFINE c == CHOOSE u \in holders : TRUE
  <2>1. c \in holders
    BY <1>5
  <2>2. ReleasedHolds(a) = [hold[a] EXCEPT ![c] = 0]
    BY <1>5 DEF ReleasedHolds
  <2>3. c = leader[a]
    BY <1>2, <2>1
  <2> HIDE DEF c
  <2>4. QED
    BY <1>2, <1>3, <2>2, <2>3
<1>6. QED
  BY <1>4, <1>5

-----------------------------------------------------------------------------
(* The actions that move money or holds.                                   *)

\* An accepted bid reserves no more than the bidder had available.
LEMMA AcceptKeepsCovered ==
  ASSUME TypeOK, HoldsCovered, LeaderHolds, Phases,
         NEW a \in Auctions, AcceptBid(a)
  PROVE  /\ hold' \in [Auctions -> [Users -> Nat]]
         /\ HoldsCovered'
         /\ LeaderHolds'
<1> DEFINE p == pending[a]
           reserve == p.amount + p.ship
<1>1. /\ p.user \in Users /\ p.amount \in Prices /\ p.amount \in Nat
      /\ p.ship \in Nat /\ status[a] = "RUNNING" /\ stage[a] = "NONE"
  <2>1. p \in OpenBid
    BY DEF TypeOK, AcceptBid, Locked
  <2>2. status[a] = "RUNNING"
    BY DEF Phases, AcceptBid
  <2>3. p.user \in Users /\ p.amount \in Prices /\ p.ship \in Shippings \cup {0}
    BY <2>1 DEF OpenBid
  <2>4. stage[a] = "NONE"
    BY <2>2 DEF Phases
  <2>5. p.amount \in Nat /\ p.ship \in Nat
    BY <2>3, Amounts
  <2>6. QED
    BY <2>2, <2>3, <2>4, <2>5
<1>2. /\ ReleasedHolds(a) = [u \in Users |-> 0]
      /\ hold[a] \in [Users -> Nat]
  BY <1>1, ReleaseFreesAll DEF TypeOK
<1>3. hold' = [hold EXCEPT ![a] = [u \in Users |-> IF u = p.user THEN reserve ELSE 0]]
  <2>1. hold' = [hold EXCEPT ![a] = [ReleasedHolds(a) EXCEPT ![p.user] = @ + reserve]]
    BY DEF AcceptBid
  <2>2. [ReleasedHolds(a) EXCEPT ![p.user] = @ + reserve]
          = [u \in Users |-> IF u = p.user THEN reserve ELSE 0]
    <3> HIDE DEF p
    <3> QED BY <1>1, <1>2
  <2>3. QED
    BY <2>1, <2>2
<1>4. hold' \in [Auctions -> [Users -> Nat]] /\ hold \in [Auctions -> [Users -> Nat]]
  <2> HIDE DEF p
  <2> QED BY <1>1, <1>3 DEF TypeOK
<1>5. ASSUME NEW u \in Users
      PROVE  activeHolds(u)' <= settled[u]
  <2>1. activeHolds(u)' = activeHolds(u) - hold[a][u] + hold'[a][u]
    <3>1. \A b \in Auctions \ {a} : hold'[b] = hold[b]
      BY <1>3, <1>4
    <3>2. QED
      BY <1>4, <3>1, HoldsChange DEF activeHolds
  <2>2. activeHolds(u) \in Nat /\ hold[a][u] \in Nat /\ settled[u] \in Nat
    BY HoldsNat DEF TypeOK
  <2>3. activeHolds(u) <= settled[u]
    BY DEF HoldsCovered
  <2>4. hold'[a][u] = IF u = p.user THEN reserve ELSE 0
    BY <1>3, <1>4
  <2>5. CASE u = p.user
    <3>1. settled[u] - activeHolds(u) >= reserve
      BY <2>5 DEF AcceptBid, Affords, available
    <3> HIDE DEF p
    <3>2. QED
      BY <1>1, <2>1, <2>2, <2>4, <2>5, <3>1
  <2>6. CASE u # p.user
    <3> HIDE DEF p
    <3> QED BY <2>1, <2>2, <2>3, <2>4, <2>6
  <2>7. QED
    BY <2>5, <2>6
<1>6. HoldsCovered'
  BY <1>5 DEF HoldsCovered, AcceptBid
<1>7. LeaderHolds'
  <2>1. /\ leader' = [leader EXCEPT ![a] = p.user]
        /\ currentBid' = [currentBid EXCEPT ![a] = p.amount]
        /\ stage' = stage
    BY DEF AcceptBid
  <2>2. leader'[a] = p.user /\ currentBid'[a] = p.amount /\ Uncaptured(a)'
    BY <1>1, <2>1 DEF TypeOK, Uncaptured
  <2>3. \A u \in Users : hold'[a][u] = IF u = p.user THEN reserve ELSE 0
    BY <1>3, <1>4
  <2>4. \A u \in Users : u = p.user => hold'[a][u] >= p.amount
    <3> HIDE DEF p
    <3> QED BY <1>1, <2>3
  <2>5. \A b \in Auctions \ {a} :
          /\ hold'[b] = hold[b] /\ leader'[b] = leader[b]
          /\ currentBid'[b] = currentBid[b] /\ Uncaptured(b)' = Uncaptured(b)
    BY <1>3, <2>1 DEF TypeOK, Uncaptured
  <2>6. ASSUME NEW b \in Auctions, NEW u \in Users
        PROVE  IF u = leader'[b] /\ Uncaptured(b)'
               THEN hold'[b][u] >= currentBid'[b] ELSE hold'[b][u] = 0
    <3>1. CASE b = a
      <4> HIDE DEF p
      <4> QED BY <2>2, <2>3, <2>4, <3>1
    <3>2. CASE b # a
      BY <2>5, <3>2 DEF LeaderHolds
    <3>3. QED
      BY <3>1, <3>2
  <2>7. QED
    BY <2>6 DEF LeaderHolds
<1>8. QED
  BY <1>4, <1>6, <1>7

\* The winner can always pay, and paying takes at least as much off the
\* reserve as off the balance.
LEMMA CaptureKeepsCovered ==
  ASSUME TypeOK, HoldsCovered, LeaderHolds, Phases,
         NEW a \in Auctions, CaptureWin(a)
  PROVE  /\ hold' \in [Auctions -> [Users -> Nat]]
         /\ settled' \in [Users -> Nat]
         /\ stage' = [stage EXCEPT ![a] = "CAPTURED"]
         /\ settling' = settling
         /\ HoldsCovered'
         /\ LeaderHolds'
<1> DEFINE w == leader[a]
<1>1. /\ w \in Users /\ Uncaptured(a)
  BY DEF CaptureWin, Phases, TypeOK, Uncaptured
<1>2. /\ hold \in [Auctions -> [Users -> Nat]] /\ settled \in [Users -> Nat]
      /\ currentBid[a] \in Nat
  BY Amounts DEF TypeOK
<1>3. hold[a][w] >= currentBid[a]
  BY <1>1 DEF LeaderHolds
<1>4. activeHolds(w) \in Nat /\ hold[a][w] <= activeHolds(w) /\ activeHolds(w) <= settled[w]
  BY <1>1, HoldsNat DEF HoldsCovered
<1>5. settled[w] >= currentBid[a]
  <2> HIDE DEF w
  <2> QED BY <1>1, <1>2, <1>3, <1>4
<1>6. /\ hold' = [hold EXCEPT ![a][w] = 0]
      /\ settled' = [settled EXCEPT ![w] = settled[w] - currentBid[a]]
      /\ stage' = [stage EXCEPT ![a] = "CAPTURED"]
      /\ settling' = settling
      /\ UNCHANGED <<leader, currentBid>>
  BY <1>5 DEF CaptureWin, auctionVars
<1>7. /\ hold' \in [Auctions -> [Users -> Nat]]
      /\ settled' \in [Users -> Nat]
      /\ hold'[a] = [u \in Users |-> IF u = w THEN 0 ELSE hold[a][u]]
      /\ \A b \in Auctions \ {a} : hold'[b] = hold[b]
  <2> HIDE DEF w
  <2>1. settled[w] - currentBid[a] \in Nat
    BY <1>1, <1>2, <1>5
  <2>2. settled' \in [Users -> Nat]
    BY <1>1, <1>2, <1>6, <2>1
  <2>3. hold' = [hold EXCEPT ![a] = [u \in Users |-> IF u = w THEN 0 ELSE hold[a][u]]]
    BY <1>1, <1>2, <1>6
  <2>4. QED
    BY <1>2, <2>2, <2>3
<1>8. ASSUME NEW u \in Users
      PROVE  activeHolds(u)' <= settled'[u]
  <2>1. activeHolds(u)' = activeHolds(u) - hold[a][u] + hold'[a][u]
    BY <1>2, <1>7, HoldsChange DEF activeHolds
  <2>2. activeHolds(u) \in Nat /\ hold[a][u] \in Nat /\ activeHolds(u) <= settled[u]
    BY HoldsNat DEF TypeOK, HoldsCovered
  <2> HIDE DEF w
  <2>3. CASE u = w
    BY <1>1, <1>2, <1>3, <1>6, <1>7, <2>1, <2>2, <2>3
  <2>4. CASE u # w
    BY <1>1, <1>2, <1>6, <1>7, <2>1, <2>2, <2>4
  <2>5. QED
    BY <2>3, <2>4
<1>9. LeaderHolds'
  <2>1. ~Uncaptured(a)'
    BY <1>6 DEF TypeOK, Uncaptured
  <2>2. \A b \in Auctions \ {a} : Uncaptured(b)' = Uncaptured(b)
    BY <1>6 DEF TypeOK, Uncaptured
  <2>3. \A u \in Users : hold'[a][u] = 0
    BY <1>1, <1>7 DEF LeaderHolds
  <2>4. \A b \in Auctions : leader'[b] = leader[b] /\ currentBid'[b] = currentBid[b]
    BY <1>6
  <2>5. ASSUME NEW b \in Auctions, NEW u \in Users
        PROVE  IF u = leader'[b] /\ Uncaptured(b)'
               THEN hold'[b][u] >= currentBid'[b] ELSE hold'[b][u] = 0
    <3>1. CASE b = a
      BY <2>1, <2>3, <3>1
    <3>2. CASE b # a
      BY <1>7, <2>2, <2>4, <3>2 DEF LeaderHolds
    <3>3. QED
      BY <3>1, <3>2
  <2>6. QED
    BY <2>5 DEF LeaderHolds
<1>10. QED
  BY <1>6, <1>7, <1>8, <1>9 DEF HoldsCovered

-----------------------------------------------------------------------------
(* The five conjuncts of Inv over one step.                                *)

\* Steps that leave holds, balances and leaders alone, and capture nothing.
LEMMA MoneyRests ==
  ASSUME HoldsCovered, LeaderHolds,
         UNCHANGED <<hold, settled, leader, currentBid>>,
         \A a \in Auctions : Uncaptured(a)' = Uncaptured(a)
  PROVE  HoldsCovered' /\ LeaderHolds'
<1>1. HoldsCovered'
  BY DEF HoldsCovered, activeHolds
<1>2. LeaderHolds'
  BY DEF LeaderHolds
<1>3. QED
  BY <1>1, <1>2

\* A debit that the available balance affords keeps every hold covered.
LEMMA AffordedDebit ==
  ASSUME TypeOK, HoldsCovered, UNCHANGED hold, NEW u \in Users, NEW m \in Nat,
         Affords(u, m), settled' = [settled EXCEPT ![u] = settled[u] - m]
  PROVE  HoldsCovered' /\ settled' \in [Users -> Nat]
<1>1. settled[u] \in Nat /\ activeHolds(u) \in Nat
  BY HoldsNat DEF TypeOK
<1>2. settled[u] - m \in Int /\ activeHolds(u) <= settled[u] - m
  BY <1>1 DEF Affords, available
<1>3. settled'[u] = settled[u] - m
  BY DEF TypeOK
<1>4. QED
  BY <1>2, <1>3, MoneyMoves

\* The winner's row is there while the auction is being settled.
LEMMA WonBidThere ==
  ASSUME TypeOK, Phases, LeaderHasBid, NEW a \in settling
  PROVE  WonBid(a).ship \in Nat /\ leader[a] \in Users
<1>1. a \in Auctions /\ status[a] = "SETTLING" /\ leader[a] # NoUser
  BY DEF TypeOK, Phases
<1>2. \E b \in bids[a] : b.user = leader[a] /\ b.st = "WON"
  BY <1>1 DEF LeaderHasBid
<1>3. WonBid(a) \in bids[a]
  BY <1>2 DEF WonBid
<1>4. WonBid(a) \in BidRow
  BY <1>1, <1>3 DEF TypeOK
<1>5. WonBid(a).ship \in Nat
  BY <1>4, Amounts DEF BidRow
<1>6. QED
  BY <1>1, <1>5 DEF TypeOK

\* What every step does to balances and holds.
LEMMA MoneyStep ==
  ASSUME Inv, [Next]_vars
  PROVE  /\ HoldsCovered' /\ LeaderHolds'
         /\ hold' \in [Auctions -> [Users -> Nat]]
         /\ settled' \in [Users -> Nat]
<1> USE DEF Inv
<1> DEFINE Goal == /\ HoldsCovered' /\ LeaderHolds'
                   /\ hold' \in [Auctions -> [Users -> Nat]]
                   /\ settled' \in [Users -> Nat]
<1>0. /\ hold \in [Auctions -> [Users -> Nat]] /\ settled \in [Users -> Nat]
      /\ stage \in [Auctions -> Stages]
  BY DEF TypeOK
<1>1. ASSUME UNCHANGED <<hold, settled, leader, currentBid, stage>>
      PROVE  Goal
  BY <1>0, <1>1, MoneyRests DEF Uncaptured
<1>2. ASSUME NEW u \in Users, NEW m \in Nat, Affords(u, m),
             settled' = [settled EXCEPT ![u] = settled[u] - m],
             UNCHANGED <<hold, leader, currentBid>>,
             \A a \in Auctions : Uncaptured(a)' = Uncaptured(a)
      PROVE  Goal
  <2>1. HoldsCovered' /\ settled' \in [Users -> Nat]
    BY <1>2, AffordedDebit
  <2>2. LeaderHolds'
    BY <1>2 DEF LeaderHolds
  <2>3. QED
    BY <1>0, <1>2, <2>1, <2>2
<1>3. ASSUME NEW a \in Auctions, Start(a) PROVE Goal
  BY <1>1, <1>3 DEF Start, CreateAuction, StartAuction, moneyVars
<1>4. ASSUME NEW a \in Auctions, Bid(a) PROVE Goal
  <2>1. ASSUME NEW u \in Users, NEW amount \in Prices, NEW ship,
               LockForBid(a, u, amount, ship)
        PROVE  Goal
    BY <1>1, <2>1 DEF LockForBid, moneyVars, auctionVars
  <2>2. CASE AbortBid(a)
    BY <1>1, <2>2 DEF AbortBid, moneyVars, auctionVars
  <2>3. CASE AcceptBid(a)
    BY <1>0, <2>3, AcceptKeepsCovered DEF AcceptBid
  <2>4. QED
    BY <1>4, <2>1, <2>2, <2>3 DEF Bid
<1>5. ASSUME NEW a \in Auctions, Settle(a) PROVE Goal
  <2>1. CASE OpenOrder(a)
    <3>1. \A b \in Auctions : Uncaptured(b)' = Uncaptured(b)
      BY <1>0, <2>1 DEF OpenOrder, Uncaptured
    <3>2. QED
      BY <1>0, <2>1, <3>1, MoneyRests DEF OpenOrder, moneyVars, auctionVars
  <2>2. CASE CaptureWin(a)
    BY <2>2, CaptureKeepsCovered
  <2>3. CASE CountUnit(a)
    <3>1. \A b \in Auctions : Uncaptured(b)' = Uncaptured(b)
      BY <1>0, <2>3 DEF CountUnit, Uncaptured
    <3>2. QED
      BY <1>0, <2>3, <3>1, MoneyRests DEF CountUnit, moneyVars, auctionVars
  <2>4. CASE Relist(a)
    <3>1. \A b \in Auctions : Uncaptured(b)' = Uncaptured(b)
      BY <1>0, <2>4 DEF Relist, Uncaptured
    <3>2. QED
      BY <1>0, <2>4, <3>1, MoneyRests DEF Relist, moneyVars, auctionVars
  <2>5. CASE PrepayShipping(a)
    <3>1. \A b \in Auctions : Uncaptured(b)' = Uncaptured(b)
      BY <1>0, <2>5 DEF PrepayShipping, Uncaptured
    <3>2. WonBid(a).ship \in Nat /\ leader[a] \in Users
      BY <2>5, WonBidThere DEF PrepayShipping
    <3>3. UNCHANGED <<hold, leader, currentBid>>
      BY <2>5 DEF PrepayShipping, auctionVars
    <3>4. CASE Affords(leader[a], WonBid(a).ship)
      <4>1. settled' = [settled EXCEPT ![leader[a]] = settled[leader[a]] - WonBid(a).ship]
        BY <2>5, <3>4 DEF PrepayShipping
      <4>2. QED
        BY <1>2, <3>1, <3>2, <3>3, <3>4, <4>1
    <3>5. CASE ~Affords(leader[a], WonBid(a).ship)
      <4>1. settled' = settled
        BY <2>5, <3>5 DEF PrepayShipping
      <4>2. QED
        BY <1>0, <3>1, <3>3, <4>1, MoneyRests
    <3>6. QED
      BY <3>4, <3>5
  <2>6. QED
    BY <1>5, <2>1, <2>2, <2>3, <2>4, <2>5 DEF Settle
<1>6. ASSUME NEW u \in Users, NEW m \in Moves, Move(u, m) PROVE Goal
  <2>1. m \in Nat
    BY Amounts
  <2>2. CASE Credit(u, m)
    <3>1. settled' = [settled EXCEPT ![u] = settled[u] + m] /\ UNCHANGED <<hold, leader, currentBid, stage>>
      BY <2>2 DEF Credit, auctionVars
    <3>2. activeHolds(u) \in Nat /\ activeHolds(u) <= settled[u]
      BY HoldsNat DEF HoldsCovered
    <3>3. settled'[u] = settled[u] + m /\ settled'[u] \in Int /\ activeHolds(u) <= settled'[u]
      BY <1>0, <2>1, <3>1, <3>2
    <3>4. HoldsCovered' /\ settled' \in [Users -> Nat]
      BY <3>1, <3>3, MoneyMoves
    <3>5. LeaderHolds'
      BY <3>1 DEF LeaderHolds, Uncaptured
    <3>6. QED
      BY <1>0, <3>1, <3>4, <3>5
  <2>3. CASE Debit(u, m)
    <3>1. \A b \in Auctions : Uncaptured(b)' = Uncaptured(b)
      BY <2>3 DEF Debit, Uncaptured
    <3>2. QED
      BY <1>2, <2>1, <2>3, <3>1 DEF Debit, auctionVars
  <2>4. QED
    BY <1>6, <2>2, <2>3 DEF Move
<1>7. ASSUME NEW l \in Listings, NEW u \in StoreBuyers, Buy(l, u) PROVE Goal
  <2>1. CASE ChargeUnit(l, u)
    <3>1. u \in Users /\ StorePrice[l] \in Nat
      BY Amounts, IdsAssumption
    <3>2. UNCHANGED <<hold, leader, currentBid, stage>>
      BY <2>1 DEF ChargeUnit, auctionVars
    <3>3. CASE Affords(u, StorePrice[l])
      <4>1. settled' = [settled EXCEPT ![u] = settled[u] - StorePrice[l]]
        BY <2>1, <3>3 DEF ChargeUnit
      <4>2. QED
        BY <1>2, <3>1, <3>2, <3>3, <4>1 DEF Uncaptured
    <3>4. CASE ~Affords(u, StorePrice[l])
      BY <1>1, <2>1, <3>2, <3>4 DEF ChargeUnit
    <3>5. QED
      BY <3>3, <3>4
  <2>2. CASE ClaimUnit(l, u)
    BY <1>1, <2>2 DEF ClaimUnit, moneyVars, auctionVars
  <2>3. CASE ReturnUnit(l, u)
    BY <1>1, <2>3 DEF ReturnUnit, moneyVars, auctionVars
  <2>4. CASE CheckLast(l, u)
    BY <1>1, <2>4 DEF CheckLast, moneyVars, auctionVars
  <2>5. CASE RetireListing(l, u)
    BY <1>1, <2>5 DEF RetireListing, moneyVars, auctionVars
  <2>6. QED
    BY <1>7, <2>1, <2>2, <2>3, <2>4, <2>5 DEF Buy
<1>8. CASE Tick
  BY <1>1, <1>8 DEF Tick, moneyVars
<1>9. CASE Scheduler
  BY <1>1, <1>9 DEF Scheduler, PollDue, CloseOne, EndTick, moneyVars, auctionVars
<1>10. CASE FailTick
  BY <1>1, <1>10 DEF FailTick, moneyVars, auctionVars
<1>11. CASE Crash
  BY <1>1, <1>11 DEF Crash, moneyVars, auctionVars
<1>12. CASE UNCHANGED vars
  BY <1>1, <1>12 DEF vars, moneyVars, auctionVars
<1>13. QED
  BY <1>3, <1>4, <1>5, <1>6, <1>7, <1>8, <1>9, <1>10, <1>11, <1>12 DEF Next

\* Changing the status of the leader's row yields bid rows.
LEMMA DemotedTyped ==
  ASSUME TypeOK, NEW a \in Auctions, NEW st \in {"ACTIVE", "OUTBID", "WON"}
  PROVE  Demoted(a, st) \subseteq BidRow
<1>1. ASSUME NEW b \in BidRow
      PROVE  [b EXCEPT !.st = st] \in BidRow
  BY DEF BidRow
<1>2. bids[a] \subseteq BidRow
  BY DEF TypeOK
<1>3. QED
  BY <1>1, <1>2 DEF Demoted

\* The other variables keep their types.
LEMMA TypeStep ==
  ASSUME Inv, [Next]_vars, NEW TypedMoney,
         TypedMoney <=> /\ hold' \in [Auctions -> [Users -> Nat]]
                        /\ settled' \in [Users -> Nat]
  PROVE  TypedMoney => TypeOK'
<1> SUFFICES ASSUME TypedMoney PROVE TypeOK'
  OBVIOUS
<1> USE DEF Inv
<1>3. ASSUME NEW a \in Auctions, Start(a) PROVE TypeOK'
  <2>1. CASE CreateAuction(a)
    BY <2>1 DEF CreateAuction, TypeOK, AuctionStatus, moneyVars, memoryVars, listingVars
  <2>2. CASE StartAuction(a)
    <3>1. Duration \in Int
      BY BoundsAssumption
    <3>2. QED
      BY <2>2, <3>1
      DEF StartAuction, TypeOK, AuctionStatus, ListingStatus, moneyVars, memoryVars
  <2>3. QED
    BY <1>3, <2>1, <2>2 DEF Start
<1>4. ASSUME NEW a \in Auctions, Bid(a) PROVE TypeOK'
  <2>1. ASSUME NEW u \in Users, NEW amount \in Prices,
               NEW ship \in IF a \in Market THEN Shippings ELSE {0},
               LockForBid(a, u, amount, ship)
        PROVE  TypeOK'
    <3>1. [user |-> u, amount |-> amount, ship |-> ship, lag |-> 0] \in OpenBid
      BY DEF OpenBid
    <3>2. QED
      BY <2>1, <3>1 DEF LockForBid, TypeOK, auctionVars, moneyVars, memoryVars, listingVars
  <2>2. CASE AbortBid(a)
    BY <2>2 DEF AbortBid, TypeOK, auctionVars, moneyVars, memoryVars, listingVars
  <2>3. CASE AcceptBid(a)
    <3>1. pending[a] \in OpenBid
      BY <2>3 DEF AcceptBid, TypeOK, Locked
    <3>2. Demoted(a, "OUTBID") \in SUBSET BidRow
      BY DemotedTyped
    <3>3. \A r \in Int : NewRemaining(a, r) \in Int
      BY BoundsAssumption DEF NewRemaining, antiSnipeRemaining, Bump, Larger, Smaller
    <3>4. left'\in [Auctions -> Int]
      <4>1. left[a] \in Int /\ pending[a].lag \in Nat
        BY <3>1 DEF TypeOK, OpenBid
      <4>2. NewRemaining(a, left[a] + pending[a].lag) \in Int
        BY <3>3, <4>1
      <4>3. QED
        BY <2>3, <4>1, <4>2 DEF AcceptBid, TypeOK
    <3>5. bids' \in [Auctions -> SUBSET BidRow]
      <4>1. [user |-> pending[a].user, amount |-> pending[a].amount,
             ship |-> pending[a].ship, st |-> "ACTIVE"] \in BidRow
        BY <3>1 DEF OpenBid, BidRow
      <4>2. QED
        BY <2>3, <3>2, <4>1 DEF AcceptBid, TypeOK
    <3>6. currentBid' \in [Auctions -> Prices \cup {0}] /\ leader' \in [Auctions -> Users \cup {NoUser}]
      BY <2>3, <3>1 DEF AcceptBid, TypeOK, OpenBid
    <3>7. pending' \in [Auctions -> OpenBid \cup {None}]
      BY <2>3 DEF AcceptBid, TypeOK
    <3>8. QED
      BY <2>3, <3>4, <3>5, <3>6, <3>7 DEF AcceptBid, TypeOK, memoryVars, listingVars
  <2>4. QED
    BY <1>4, <2>1, <2>2, <2>3 DEF Bid
<1>5. ASSUME NEW a \in Auctions, Settle(a) PROVE TypeOK'
  <2>1. CASE OpenOrder(a)
    BY <2>1 DEF OpenOrder, TypeOK, Stages, auctionVars, moneyVars, memoryVars, listingVars
  <2>2. CASE CaptureWin(a)
    <3>1. stage' = [stage EXCEPT ![a] = "CAPTURED"] /\ settling' = settling
      BY <2>2, CaptureKeepsCovered
    <3>2. QED
      BY <2>2, <3>1 DEF CaptureWin, TypeOK, Stages, auctionVars, listingVars
  <2>3. CASE CountUnit(a)
    <3>1. quantity' \in [Listings -> Int] /\ seen' \in [Auctions -> Int]
      <4>1. quantity[ListingOf[a]] \in Int
        BY IdsAssumption DEF TypeOK
      <4>2. quantity[ListingOf[a]] - 1 \in Int
        BY <4>1
      <4>3. QED
        BY <2>3, <4>2 DEF CountUnit, TypeOK
    <3>2. stage' \in [Auctions -> Stages]
      BY <2>3 DEF CountUnit, TypeOK, Stages
    <3>3. UNCHANGED <<auctionVars, moneyVars, lstatus, pending, ticking, due, results,
                      settling, faults, store>>
      BY <2>3 DEF CountUnit
    <3>4. QED
      BY <3>1, <3>2, <3>3 DEF TypeOK, auctionVars, moneyVars
  <2>4. CASE Relist(a)
    BY <2>4, IdsAssumption
    DEF Relist, TypeOK, Stages, ListingStatus, auctionVars, moneyVars
  <2>5. CASE PrepayShipping(a)
    BY <2>5 DEF PrepayShipping, TypeOK, Stages, auctionVars, listingVars
  <2>6. QED
    BY <1>5, <2>1, <2>2, <2>3, <2>4, <2>5 DEF Settle
<1>6. ASSUME NEW u \in Users, NEW m \in Moves, Move(u, m) PROVE TypeOK'
  BY <1>6 DEF Move, Credit, Debit, TypeOK, auctionVars, memoryVars, listingVars
<1>7. ASSUME NEW l \in Listings, NEW u \in StoreBuyers, Buy(l, u) PROVE TypeOK'
  <2>1. CASE ClaimUnit(l, u)
    BY <2>1 DEF ClaimUnit, TypeOK, StoreStages, auctionVars, moneyVars, memoryVars
  <2>2. CASE ChargeUnit(l, u)
    BY <2>2 DEF ChargeUnit, TypeOK, StoreStages, auctionVars, memoryVars, listingVars
  <2>3. CASE ReturnUnit(l, u)
    BY <2>3 DEF ReturnUnit, TypeOK, StoreStages, auctionVars, moneyVars, memoryVars
  <2>4. CASE CheckLast(l, u)
    BY <2>4 DEF CheckLast, TypeOK, StoreStages, auctionVars, moneyVars, memoryVars, listingVars
  <2>5. CASE RetireListing(l, u)
    BY <2>5 DEF RetireListing, TypeOK, StoreStages, ListingStatus, auctionVars, moneyVars, memoryVars
  <2>6. QED
    BY <1>7, <2>1, <2>2, <2>3, <2>4, <2>5 DEF Buy
<1>8. CASE Tick
  <2>1. left' \in [Auctions -> Int]
    BY <1>8, BoundsAssumption DEF Tick, TypeOK, Larger
  <2>2. pending' \in [Auctions -> OpenBid \cup {None}]
    <3>1. ASSUME NEW p \in OpenBid
          PROVE  [p EXCEPT !.lag = @ + 1] \in OpenBid
      BY DEF OpenBid
    <3>2. ASSUME NEW a \in Auctions, Locked(a)
          PROVE  [pending[a] EXCEPT !.lag = @ + 1] \in OpenBid
      BY <3>1, <3>2 DEF TypeOK, Locked
    <3>3. QED
      BY <1>8, <3>2 DEF Tick
  <2>3. QED
    BY <1>8, <2>1, <2>2 DEF Tick, TypeOK, moneyVars, memoryVars, listingVars
<1>9. CASE Scheduler
  <2>1. CASE PollDue
    BY <2>1 DEF PollDue, TypeOK, auctionVars, moneyVars, listingVars
  <2>2. ASSUME NEW a \in Auctions, CloseOne(a) PROVE TypeOK'
    <3>1. Demoted(a, "WON") \in SUBSET BidRow
      BY DemotedTyped
    <3>2. QED
      <4>1. status' \in [Auctions -> AuctionStatus] /\ bids' \in [Auctions -> SUBSET BidRow]
        <5>1. \/ status' = [status EXCEPT ![a] = "SETTLING"]
              \/ status' = [status EXCEPT ![a] = "CLOSED"]
              \/ status' = status
          BY <2>2 DEF CloseOne
        <5>2. \/ bids' = [bids EXCEPT ![a] = Demoted(a, "WON")]
              \/ bids' = bids
          BY <2>2 DEF CloseOne
        <5>3. QED
          BY <3>1, <5>1, <5>2 DEF TypeOK, AuctionStatus
      <4>2. lstatus' \in [Listings -> ListingStatus]
        <5> DEFINE s == IF quantity[ListingOf[a]] > 0 THEN "QUEUED" ELSE "UNSOLD"
        <5>1. s \in ListingStatus
          BY DEF ListingStatus
        <5>2. \/ lstatus' = [lstatus EXCEPT ![ListingOf[a]] = "SOLD"]
              \/ lstatus' = [lstatus EXCEPT ![ListingOf[a]] = s]
              \/ lstatus' = lstatus
          BY <2>2 DEF CloseOne
        <5> HIDE DEF s
        <5>3. QED
          BY <5>1, <5>2 DEF TypeOK, ListingStatus
      <4>3. results' \in SUBSET Auctions /\ due' \in SUBSET Auctions
        BY <2>2 DEF CloseOne, TypeOK
      <4>4. UNCHANGED <<leader, currentBid, left, hold, settled, quantity, stage,
                        pending, ticking, settling, seen, faults, store>>
        BY <2>2 DEF CloseOne
      <4>5. QED
        BY <4>1, <4>2, <4>3, <4>4 DEF TypeOK
  <2>3. CASE EndTick
    BY <2>3 DEF EndTick, TypeOK, auctionVars, moneyVars, listingVars
  <2>4. QED
    BY <1>9, <2>1, <2>2, <2>3 DEF Scheduler
<1>10. CASE FailTick
  <2>1. faults' \in Nat
    BY <1>10 DEF FailTick, TypeOK
  <2>2. /\ UNCHANGED <<auctionVars, moneyVars, listingVars, stage, pending, settling,
                       seen, store>>
        /\ ticking' = FALSE /\ due' = {} /\ results' = {}
    BY <1>10 DEF FailTick
  <2>3. QED
    BY <2>1, <2>2 DEF TypeOK, auctionVars, moneyVars, listingVars
<1>11. CASE Crash
  <2>1. faults' \in Nat
    BY <1>11 DEF Crash, TypeOK
  <2>2. store' \in [Listings -> [StoreBuyers -> StoreStages]]
    <3>1. \A l \in Listings, u \in StoreBuyers : store'[l][u] \in StoreStages
      BY <1>11 DEF Crash, TypeOK, StoreStages
    <3>2. QED
      BY <1>11, <3>1 DEF Crash
  <2>3. seen' \in [Auctions -> Int] /\ pending' \in [Auctions -> OpenBid \cup {None}]
    BY <1>11 DEF Crash
  <2>4. /\ UNCHANGED <<auctionVars, moneyVars, listingVars, stage>>
        /\ ticking' = FALSE /\ due' = {} /\ results' = {} /\ settling' = {}
    BY <1>11 DEF Crash
  <2>5. QED
    BY <2>1, <2>2, <2>3, <2>4 DEF TypeOK, auctionVars, moneyVars, listingVars
<1>12. CASE UNCHANGED vars
  BY <1>12 DEF vars, TypeOK, auctionVars, moneyVars, memoryVars, listingVars
<1>13. QED
  BY <1>3, <1>4, <1>5, <1>6, <1>7, <1>8, <1>9, <1>10, <1>11, <1>12 DEF Next

\* Settlement and open bids stay within their phases.
LEMMA PhasesStep ==
  ASSUME Inv, [Next]_vars
  PROVE  Phases'
<1> USE DEF Inv
<1>0. /\ status \in [Auctions -> AuctionStatus]
      /\ leader \in [Auctions -> Users \cup {NoUser}]
      /\ stage \in [Auctions -> Stages]
      /\ pending \in [Auctions -> OpenBid \cup {None}]
  BY DEF TypeOK
<1>1. ASSUME UNCHANGED <<status, leader, stage, pending, settling>>
      PROVE  Phases'
  BY <1>1 DEF Phases, Locked
<1>3. ASSUME NEW a \in Auctions, Start(a) PROVE Phases'
  <2>1. CASE CreateAuction(a)
    BY <1>0, <2>1 DEF CreateAuction, Phases, Locked, memoryVars
  <2>2. CASE StartAuction(a)
    BY <1>0, <2>2 DEF StartAuction, Phases, Locked, memoryVars
  <2>3. QED
    BY <1>3, <2>1, <2>2 DEF Start
<1>4. ASSUME NEW a \in Auctions, Bid(a) PROVE Phases'
  <2>1. ASSUME NEW u \in Users, NEW amount \in Prices, NEW ship,
               LockForBid(a, u, amount, ship)
        PROVE  Phases'
    BY <1>0, <2>1 DEF LockForBid, Phases, Locked, auctionVars, memoryVars
  <2>2. CASE AbortBid(a)
    BY <1>0, <2>2 DEF AbortBid, Phases, Locked, auctionVars, memoryVars
  <2>3. CASE AcceptBid(a)
    <3>1. /\ pending' = [pending EXCEPT ![a] = None]
          /\ leader' = [leader EXCEPT ![a] = pending[a].user]
          /\ UNCHANGED <<status, stage, settling>>
          /\ status[a] = "RUNNING"
      BY <2>3 DEF AcceptBid, Phases, memoryVars
    <3>2. QED
      BY <1>0, <3>1 DEF Phases, Locked
  <2>4. QED
    BY <1>4, <2>1, <2>2, <2>3 DEF Bid
<1>5. ASSUME NEW a \in Auctions, Settle(a) PROVE Phases'
  <2>1. /\ a \in settling /\ UNCHANGED <<status, leader, pending>>
        /\ settling' \subseteq settling
        /\ \E s \in Stages \ {"FAILED"} : stage' = [stage EXCEPT ![a] = s]
    <3>1. CASE OpenOrder(a)
      BY <3>1 DEF OpenOrder, Stages, auctionVars, memoryVars
    <3>2. CASE CaptureWin(a)
      BY <3>2, CaptureKeepsCovered DEF CaptureWin, Stages, auctionVars
    <3>3. CASE CountUnit(a)
      BY <3>3 DEF CountUnit, Stages, auctionVars
    <3>4. CASE Relist(a)
      BY <3>4 DEF Relist, Stages, auctionVars
    <3>5. CASE PrepayShipping(a)
      BY <3>5 DEF PrepayShipping, Stages, auctionVars
    <3>6. QED
      BY <1>5, <3>1, <3>2, <3>3, <3>4, <3>5 DEF Settle
  <2>2. QED
    BY <1>0, <2>1 DEF Phases, Locked
<1>6. ASSUME NEW u \in Users, NEW m \in Moves, Move(u, m) PROVE Phases'
  BY <1>1, <1>6 DEF Move, Credit, Debit, auctionVars, memoryVars
<1>7. ASSUME NEW l \in Listings, NEW u \in StoreBuyers, Buy(l, u) PROVE Phases'
  BY <1>1, <1>7 DEF Buy, ClaimUnit, ChargeUnit, ReturnUnit, CheckLast, RetireListing,
                    auctionVars, memoryVars
<1>8. CASE Tick
  <2>1. \A a \in Auctions : Locked(a)' => Locked(a)
    BY <1>8 DEF Tick, Locked
  <2>2. UNCHANGED <<status, leader, stage, settling>>
    BY <1>8 DEF Tick, memoryVars
  <2>3. QED
    BY <2>1, <2>2 DEF Phases
<1>9. CASE Scheduler
  <2>1. CASE PollDue
    BY <1>1, <2>1 DEF PollDue, auctionVars
  <2>2. ASSUME NEW a \in Auctions, CloseOne(a) PROVE Phases'
    <3>1. /\ ~Locked(a) /\ UNCHANGED <<leader, stage, pending, settling>>
          /\ \/ status' = status
             \/ /\ status[a] = "RUNNING" /\ leader[a] # NoUser
                /\ status' = [status EXCEPT ![a] = "SETTLING"]
             \/ /\ status[a] = "RUNNING" /\ leader[a] = NoUser
                /\ status' = [status EXCEPT ![a] = "CLOSED"]
      BY <2>2 DEF CloseOne, StillDue
    <3>2. QED
      BY <1>0, <3>1 DEF Phases, Locked
  <2>3. CASE EndTick
    <3>1. /\ UNCHANGED <<status, leader, stage, pending>>
          /\ settling' = settling \cup {a \in results : status[a] = "SETTLING"}
      BY <2>3 DEF EndTick, auctionVars
    <3>2. QED
      BY <3>1 DEF Phases, Locked
  <2>4. QED
    BY <1>9, <2>1, <2>2, <2>3 DEF Scheduler
<1>10. CASE FailTick
  BY <1>1, <1>10 DEF FailTick, auctionVars
<1>11. CASE Crash
  BY <1>11 DEF Crash, Phases, Locked, auctionVars
<1>12. CASE UNCHANGED vars
  BY <1>1, <1>12 DEF vars, auctionVars, memoryVars
<1>13. QED
  BY <1>3, <1>4, <1>5, <1>6, <1>7, <1>8, <1>9, <1>10, <1>11, <1>12 DEF Next

\* The leader keeps a row of the right status.
LEMMA LeaderHasBidStep ==
  ASSUME Inv, [Next]_vars
  PROVE  LeaderHasBid'
<1> USE DEF Inv
<1>0. /\ status \in [Auctions -> AuctionStatus]
      /\ leader \in [Auctions -> Users \cup {NoUser}]
      /\ bids \in [Auctions -> SUBSET BidRow]
  BY DEF TypeOK
<1>1. ASSUME UNCHANGED <<status, leader, bids>>
      PROVE  LeaderHasBid'
  BY <1>1 DEF LeaderHasBid
<1>2. ASSUME NEW a \in Auctions, status[a] # "SETTLING",
             UNCHANGED <<leader, bids>>,
             NEW s \in AuctionStatus \ {"SETTLING"},
             status' = [status EXCEPT ![a] = s]
      PROVE  LeaderHasBid'
  BY <1>0, <1>2 DEF LeaderHasBid
<1>3. ASSUME NEW a \in Auctions, Start(a) PROVE LeaderHasBid'
  BY <1>2, <1>3 DEF Start, CreateAuction, StartAuction, moneyVars, AuctionStatus
<1>4. ASSUME NEW a \in Auctions, Bid(a) PROVE LeaderHasBid'
  <2>1. ASSUME NEW u \in Users, NEW amount \in Prices, NEW ship,
               LockForBid(a, u, amount, ship)
        PROVE  LeaderHasBid'
    BY <1>1, <2>1 DEF LockForBid, auctionVars, moneyVars
  <2>2. CASE AbortBid(a)
    BY <1>1, <2>2 DEF AbortBid, auctionVars, moneyVars
  <2>3. CASE AcceptBid(a)
    <3> DEFINE r == [user |-> pending[a].user, amount |-> pending[a].amount,
                     ship |-> pending[a].ship, st |-> "ACTIVE"]
    <3>1. /\ status' = status /\ status[a] = "RUNNING"
          /\ leader' = [leader EXCEPT ![a] = pending[a].user]
          /\ bids' = [bids EXCEPT ![a] = Demoted(a, "OUTBID") \cup {r}]
      BY <2>3 DEF AcceptBid, Phases
    <3>2. r \in bids'[a] /\ r.user = leader'[a] /\ r.st = "ACTIVE"
      BY <1>0, <3>1
    <3>3. \A b \in Auctions \ {a} : leader'[b] = leader[b] /\ bids'[b] = bids[b]
      BY <1>0, <3>1
    <3> HIDE DEF r
    <3>4. QED
      BY <3>1, <3>2, <3>3 DEF LeaderHasBid
  <2>4. QED
    BY <1>4, <2>1, <2>2, <2>3 DEF Bid
<1>5. ASSUME NEW a \in Auctions, Settle(a) PROVE LeaderHasBid'
  BY <1>1, <1>5 DEF Settle, OpenOrder, CaptureWin, CountUnit, Relist, PrepayShipping,
                    auctionVars, moneyVars
<1>6. ASSUME NEW u \in Users, NEW m \in Moves, Move(u, m) PROVE LeaderHasBid'
  BY <1>1, <1>6 DEF Move, Credit, Debit, auctionVars
<1>7. ASSUME NEW l \in Listings, NEW u \in StoreBuyers, Buy(l, u) PROVE LeaderHasBid'
  BY <1>1, <1>7 DEF Buy, ClaimUnit, ChargeUnit, ReturnUnit, CheckLast, RetireListing,
                    auctionVars, moneyVars
<1>8. CASE Tick
  BY <1>1, <1>8 DEF Tick, moneyVars
<1>9. CASE Scheduler
  <2>1. CASE PollDue
    BY <1>1, <2>1 DEF PollDue, auctionVars, moneyVars
  <2>2. ASSUME NEW a \in Auctions, CloseOne(a) PROVE LeaderHasBid'
    <3>1. CASE UNCHANGED <<status, bids>>
      BY <1>1, <2>2, <3>1 DEF CloseOne
    <3>2. CASE StillDue(a) /\ status' = [status EXCEPT ![a] = "CLOSED"] /\ bids' = bids
      BY <1>2, <2>2, <3>2 DEF CloseOne, StillDue, AuctionStatus
    <3>3. CASE /\ StillDue(a) /\ status' = [status EXCEPT ![a] = "SETTLING"]
               /\ bids' = [bids EXCEPT ![a] = Demoted(a, "WON")]
               /\ leader[a] # NoUser
      <4>1. leader' = leader /\ status[a] = "RUNNING"
        BY <2>2, <3>3 DEF CloseOne, StillDue
      <4>2. PICK b \in bids[a] : b.user = leader[a] /\ b.st = "ACTIVE"
        BY <3>3, <4>1 DEF LeaderHasBid
      <4> DEFINE c == [b EXCEPT !.st = "WON"]
      <4>3. c \in bids'[a]
        BY <1>0, <3>3, <4>2 DEF Demoted
      <4>4. c.user = leader'[a] /\ c.st = "WON"
        <5>1. b \in BidRow
          BY <1>0, <4>2
        <5>2. QED
          BY <4>1, <4>2, <5>1 DEF BidRow
      <4>5. \A d \in Auctions \ {a} : status'[d] = status[d] /\ bids'[d] = bids[d]
        BY <1>0, <3>3
      <4>6. status'[a] = "SETTLING"
        BY <1>0, <3>3
      <4> HIDE DEF c
      <4>7. QED
        BY <4>1, <4>3, <4>4, <4>5, <4>6 DEF LeaderHasBid
    <3>4. QED
      BY <2>2, <3>1, <3>2, <3>3 DEF CloseOne
  <2>3. CASE EndTick
    BY <1>1, <2>3 DEF EndTick, auctionVars, moneyVars
  <2>4. QED
    BY <1>9, <2>1, <2>2, <2>3 DEF Scheduler
<1>10. CASE FailTick
  BY <1>1, <1>10 DEF FailTick, auctionVars, moneyVars
<1>11. CASE Crash
  BY <1>1, <1>11 DEF Crash, auctionVars, moneyVars
<1>12. CASE UNCHANGED vars
  BY <1>1, <1>12 DEF vars, auctionVars, moneyVars
<1>13. QED
  BY <1>3, <1>4, <1>5, <1>6, <1>7, <1>8, <1>9, <1>10, <1>11, <1>12 DEF Next

-----------------------------------------------------------------------------
(* The theorems.                                                           *)

\* The initial state: no auction, no hold, every balance a natural number.
LEMMA InvInit == Init => Inv
<1> SUFFICES ASSUME Init PROVE Inv
  OBVIOUS
<1> USE DEF Init
<1>1. TypeOK
  <2>1. settled \in [Users -> Nat] /\ quantity \in [Listings -> Int]
    BY MoneyAssumption
  <2>2. faults \in Nat /\ \A a \in Auctions : seen[a] \in Int /\ left[a] \in Int
    OBVIOUS
  <2>3. QED
    BY <2>1, <2>2 DEF TypeOK, AuctionStatus, ListingStatus, Stages, StoreStages
<1>2. HoldsCovered
  <2>1. ASSUME NEW u \in Users PROVE activeHolds(u) = 0
    <3>1. IsFiniteSet(Auctions)
      BY FiniteAssumption
    <3>2. [a \in Auctions |-> hold[a][u]] = [a \in Auctions |-> 0]
      OBVIOUS
    <3>3. Total([a \in Auctions |-> 0], Auctions) = 0
      BY <3>1, TotalZero
    <3>4. QED
      BY <3>2, <3>3 DEF activeHolds
  <2>2. QED
    BY <1>1, <2>1 DEF HoldsCovered, TypeOK
<1>3. LeaderHolds
  BY IdsAssumption DEF LeaderHolds
<1>4. Phases
  BY DEF Phases, Locked
<1>5. LeaderHasBid
  BY DEF LeaderHasBid
<1>6. QED
  BY <1>1, <1>2, <1>3, <1>4, <1>5 DEF Inv

\* Inv is inductive.
LEMMA InvStep == Inv /\ [Next]_vars => Inv'
<1> SUFFICES ASSUME Inv, [Next]_vars PROVE Inv'
  OBVIOUS
<1>1. /\ HoldsCovered' /\ LeaderHolds'
      /\ hold' \in [Auctions -> [Users -> Nat]] /\ settled' \in [Users -> Nat]
  BY MoneyStep
<1>2. TypeOK'
  BY <1>1, TypeStep
<1>3. QED
  BY <1>1, <1>2, PhasesStep, LeaderHasBidStep DEF Inv

\* Inv holds in every reachable state.
THEOREM Invariance == Spec => []Inv
<1>1. QED
  BY InvInit, InvStep, PTL DEF Spec

\* Every variable keeps its type; no user's settled balance is ever negative
\* (TypeOK, for any auctions, users, prices and faults).
THEOREM Typing == Spec => []TypeOK
<1>1. Inv => TypeOK
  BY DEF Inv
<1>2. QED
  BY <1>1, Invariance, PTL

\* Nobody ever leads auctions worth more than they have (HoldsCovered).
THEOREM HoldsAlwaysCovered == Spec => []HoldsCovered
<1>1. Inv => HoldsCovered
  BY DEF Inv
<1>2. QED
  BY <1>1, Invariance, PTL

\* The leader's bid stays reserved until it is captured, and nobody else's
\* money is (LeaderHolds).
THEOREM OnlyLeadersHold == Spec => []LeaderHolds
<1>1. Inv => LeaderHolds
  BY DEF Inv
<1>2. QED
  BY <1>1, Invariance, PTL

\* Settling a win never fails for lack of money (WinsAreFunded).
THEOREM WinsAlwaysFunded == Spec => []WinsAreFunded
<1>1. Inv => WinsAreFunded
  BY DEF Inv, Phases, WinsAreFunded
<1>2. QED
  BY <1>1, Invariance, PTL

-----------------------------------------------------------------------------
(* The clock: an open bid was read in time and raises the price.           *)

\* While a bid holds the lock, what its checks found still holds: it is higher
\* than the price, by another user than the leader, and the clock read at least
\* one second when the lag began.
OpenBidsStand ==
  \A a \in Auctions : Locked(a) =>
    /\ pending[a].amount > currentBid[a]
    /\ pending[a].user # leader[a]
    /\ pending[a].lag \in 0..Lag
    /\ left[a] + pending[a].lag >= 1

\* The next bid accepted is above the price.
LEMMA NextBidRises ==
  ASSUME NEW bid \in Nat, NEW starting \in Nat \ {0}
  PROVE  minNextBid(bid, starting) \in Int /\ minNextBid(bid, starting) > bid
<1> DEFINE d == (bid * 500) \div 10000
<1>1. d \in Int
  <2>1. bid * 500 \in Int
    OBVIOUS
  <2>2. QED
    BY <2>1
<1>2. minIncrement(bid) \in Int /\ minIncrement(bid) > 0
  <2> HIDE DEF d
  <2>1. Larger(d, IncrementFloor) \in Int /\ Larger(d, IncrementFloor) > 0
    BY <1>1 DEF Larger, IncrementFloor
  <2>2. minIncrement(bid) \in {500, 200, Larger(d, IncrementFloor)}
    BY DEF minIncrement, d
  <2>3. QED
    BY <2>1, <2>2
<1>3. QED
  BY <1>2 DEF minNextBid

\* A step that leaves the auctions and their locks alone.
LEMMA OpenBidsRest ==
  ASSUME OpenBidsStand, UNCHANGED <<leader, currentBid, left, pending>>
  PROVE  OpenBidsStand'
BY DEF OpenBidsStand, Locked

LEMMA OpenBidsStep ==
  ASSUME Inv, OpenBidsStand, [Next]_vars
  PROVE  OpenBidsStand'
<1>0. /\ status \in [Auctions -> AuctionStatus]
      /\ leader \in [Auctions -> Users \cup {NoUser}]
      /\ currentBid \in [Auctions -> Prices \cup {0}]
      /\ left \in [Auctions -> Int]
      /\ pending \in [Auctions -> OpenBid \cup {None}]
      /\ Lag \in Nat
      /\ \A a \in Auctions : currentBid[a] \in Nat /\ StartingBid[a] \in Nat \ {0}
  BY Amounts, MoneyAssumption, BoundsAssumption DEF Inv, TypeOK
<1>1. ASSUME NEW a \in Auctions, Start(a) PROVE OpenBidsStand'
  <2>1. CASE CreateAuction(a)
    BY <2>1, OpenBidsRest DEF CreateAuction
  <2>2. CASE StartAuction(a)
    <3>1. ~Locked(a)
      BY <2>2 DEF StartAuction, Inv, Phases
    <3>2. UNCHANGED <<leader, currentBid, pending>> /\ left' = [left EXCEPT ![a] = Duration]
      BY <2>2 DEF StartAuction
    <3>3. QED
      BY <1>0, <3>1, <3>2 DEF OpenBidsStand, Locked
  <2>3. QED
    BY <1>1, <2>1, <2>2 DEF Start
<1>2. ASSUME NEW a \in Auctions, Bid(a) PROVE OpenBidsStand'
  <2>1. ASSUME NEW u \in Users, NEW amount \in Prices, NEW ship,
               LockForBid(a, u, amount, ship)
        PROVE  OpenBidsStand'
    <3>1. /\ left[a] > 0 /\ leader[a] # u
          /\ amount >= minNextBid(currentBid[a], StartingBid[a])
          /\ pending' = [pending EXCEPT
               ![a] = [user |-> u, amount |-> amount, ship |-> ship, lag |-> 0]]
          /\ UNCHANGED <<leader, currentBid, left>>
      BY <2>1 DEF LockForBid, auctionVars
    <3>2. amount > currentBid[a]
      <4> DEFINE n == minNextBid(currentBid[a], StartingBid[a])
      <4>1. amount \in Nat /\ currentBid[a] \in Nat /\ StartingBid[a] \in Nat \ {0}
        BY <1>0, Amounts
      <4>2. n \in Int /\ n > currentBid[a]
        BY <4>1, NextBidRises
      <4>3. amount >= n
        BY <3>1
      <4> HIDE DEF n
      <4>4. QED
        BY <4>1, <4>2, <4>3
    <3>3. pending'[a] = [user |-> u, amount |-> amount, ship |-> ship, lag |-> 0]
      BY <1>0, <3>1
    <3>4. \A b \in Auctions \ {a} : pending'[b] = pending[b]
      BY <1>0, <3>1
    <3>5. 0 \in 0..Lag /\ left[a] + 0 >= 1
      BY <1>0, <3>1
    <3>6. QED
      BY <3>1, <3>2, <3>3, <3>4, <3>5 DEF OpenBidsStand, Locked
  <2>2. CASE AbortBid(a)
    BY <1>0, <2>2 DEF AbortBid, auctionVars, OpenBidsStand, Locked
  <2>3. CASE AcceptBid(a)
    <3>1. /\ pending'[a] = None
          /\ \A b \in Auctions \ {a} :
               /\ pending'[b] = pending[b] /\ leader'[b] = leader[b]
               /\ currentBid'[b] = currentBid[b] /\ left'[b] = left[b]
      BY <1>0, <2>3 DEF AcceptBid
    <3>2. QED
      BY <3>1 DEF OpenBidsStand, Locked
  <2>4. QED
    BY <1>2, <2>1, <2>2, <2>3 DEF Bid
<1>3. ASSUME NEW a \in Auctions, Settle(a) PROVE OpenBidsStand'
  BY <1>3, OpenBidsRest DEF Settle, OpenOrder, CaptureWin, CountUnit, Relist,
     PrepayShipping, auctionVars
<1>4. ASSUME NEW u \in Users, NEW m \in Moves, Move(u, m) PROVE OpenBidsStand'
  BY <1>4, OpenBidsRest DEF Move, Credit, Debit, auctionVars
<1>5. ASSUME NEW l \in Listings, NEW u \in StoreBuyers, Buy(l, u) PROVE OpenBidsStand'
  BY <1>5, OpenBidsRest DEF Buy, ClaimUnit, ChargeUnit, ReturnUnit, CheckLast,
     RetireListing, auctionVars
<1>6. CASE Tick
  <2> SUFFICES ASSUME NEW a \in Auctions, Locked(a)'
               PROVE  /\ pending'[a].amount > currentBid'[a]
                      /\ pending'[a].user # leader'[a]
                      /\ pending'[a].lag \in 0..Lag
                      /\ left'[a] + pending'[a].lag >= 1
    BY DEF OpenBidsStand
  <2> DEFINE p == pending[a]
  <2>1. Locked(a) /\ pending'[a] = [p EXCEPT !.lag = @ + 1]
    BY <1>6 DEF Tick, Locked
  <2>2. /\ p \in OpenBid /\ p.lag < Lag /\ UNCHANGED <<leader, currentBid>>
        /\ status[a] = "RUNNING"
    BY <1>0, <1>6, <2>1 DEF Tick, Locked, Inv, Phases
  <2>3. /\ pending'[a].amount = p.amount /\ pending'[a].user = p.user
        /\ pending'[a].lag = p.lag + 1
    BY <2>1, <2>2 DEF OpenBid
  <2>4. left'[a] = Larger(left[a] - 1, -Lag)
    BY <1>6, <2>2 DEF Tick
  <2>5. /\ p.amount > currentBid[a] /\ p.user # leader[a]
        /\ p.lag \in 0..Lag /\ left[a] + p.lag >= 1
    BY <2>1 DEF OpenBidsStand
  <2> HIDE DEF p
  <2>6. left'[a] \in Int /\ left'[a] >= left[a] - 1
    BY <1>0, <2>4 DEF Larger
  <2>7. p.lag + 1 \in 0..Lag
    BY <1>0, <2>2, <2>5
  <2>8. left'[a] + (p.lag + 1) >= 1
    BY <1>0, <2>5, <2>6
  <2>9. QED
    BY <2>2, <2>3, <2>5, <2>7, <2>8
<1>7. CASE Scheduler
  BY <1>7, OpenBidsRest DEF Scheduler, PollDue, CloseOne, EndTick, auctionVars
<1>8. CASE FailTick
  BY <1>8, OpenBidsRest DEF FailTick, auctionVars
<1>9. CASE Crash
  BY <1>9 DEF Crash, OpenBidsStand, Locked
<1>10. CASE UNCHANGED vars
  BY <1>10, OpenBidsRest DEF vars, auctionVars
<1>11. QED
  BY <1>1, <1>2, <1>3, <1>4, <1>5, <1>6, <1>7, <1>8, <1>9, <1>10 DEF Next

\* An open bid keeps what its checks found, until it is accepted or rolled back.
THEOREM OpenBidsAlwaysStand == Spec => []OpenBidsStand
<1>1. Init => OpenBidsStand
  BY DEF Init, OpenBidsStand, Locked
<1>2. QED
  BY <1>1, OpenBidsStep, Invariance, PTL DEF Spec

\* What NoEarlyClose says of one step.
Punctual ==
  \A a \in Auctions : status[a] = "RUNNING" =>
    /\ status'[a] # "RUNNING" => left[a] <= 0
    /\ left'[a] >= left[a] - 1

LEMMA PunctualRest ==
  ASSUME TypeOK, UNCHANGED <<status, left>>
  PROVE  Punctual
<1>1. \A a \in Auctions : left[a] \in Int
  BY DEF TypeOK
<1>2. \A a \in Auctions : left[a] >= left[a] - 1
  BY <1>1
<1>3. QED
  BY <1>2 DEF Punctual

LEMMA PunctualStep ==
  ASSUME Inv, OpenBidsStand, [Next]_vars
  PROVE  Punctual
<1>0. /\ status \in [Auctions -> AuctionStatus]
      /\ left \in [Auctions -> Int]
      /\ Lag \in Nat
      /\ TypeOK
  BY BoundsAssumption DEF Inv, TypeOK
<1>1. ASSUME NEW a \in Auctions, Start(a) PROVE Punctual
  <2>1. /\ status[a] \in {"NONE", "PENDING"}
        /\ \A b \in Auctions \ {a} : status'[b] = status[b] /\ left'[b] = left[b]
    BY <1>0, <1>1 DEF Start, CreateAuction, StartAuction
  <2>2. ASSUME NEW b \in Auctions, status[b] = "RUNNING"
        PROVE  status'[b] = "RUNNING" /\ left'[b] = left[b] /\ left[b] \in Int
    BY <1>0, <2>1, <2>2
  <2>3. \A b \in Auctions : status[b] = "RUNNING" => left'[b] >= left[b] - 1
    BY <2>2
  <2>4. QED
    BY <2>2, <2>3 DEF Punctual
<1>2. ASSUME NEW a \in Auctions, Bid(a) PROVE Punctual
  <2>1. ASSUME NEW u \in Users, NEW amount \in Prices, NEW ship,
               LockForBid(a, u, amount, ship)
        PROVE  Punctual
    BY <1>0, <2>1, PunctualRest DEF LockForBid, auctionVars
  <2>2. CASE AbortBid(a)
    BY <1>0, <2>2, PunctualRest DEF AbortBid, auctionVars
  <2>3. CASE AcceptBid(a)
    <3> DEFINE lag == pending[a].lag
               read == left[a] + lag
               fresh == NewRemaining(a, read)
    <3>1. lag \in Nat
      BY <2>3 DEF AcceptBid, OpenBidsStand
    <3>2. fresh \in Int
      BY <1>0, <3>1, BoundsAssumption
      DEF NewRemaining, Larger, Smaller, antiSnipeRemaining, Bump
    <3>3. left' = [left EXCEPT ![a] = IF fresh > read THEN fresh - lag ELSE left[a]]
      BY <2>3 DEF AcceptBid
    <3>4. left'[a] = IF fresh > read THEN fresh - lag ELSE left[a]
      BY <1>0, <3>3
    <3>5. left'[a] >= left[a]
      <4>1. left[a] \in Int
        BY <1>0
      <4> HIDE DEF lag, fresh
      <4>2. QED
        BY <3>1, <3>2, <3>4, <4>1
    <3>6. \A b \in Auctions \ {a} : left'[b] = left[b]
      BY <1>0, <3>3
    <3>7. status' = status /\ left'[a] \in Int
      <4>1. left[a] \in Int
        BY <1>0
      <4>2. status' = status
        BY <2>3 DEF AcceptBid
      <4> HIDE DEF lag, fresh
      <4>3. QED
        BY <3>1, <3>2, <3>4, <4>1, <4>2
    <3>8. \A b \in Auctions : left'[b] >= left[b] - 1
      <4>1. \A b \in Auctions : left[b] \in Int /\ left'[b] \in Int /\ left'[b] >= left[b]
        BY <1>0, <3>5, <3>6, <3>7
      <4>2. QED
        BY <4>1
    <3>9. QED
      BY <3>7, <3>8 DEF Punctual
  <2>4. QED
    BY <1>2, <2>1, <2>2, <2>3 DEF Bid
<1>3. ASSUME NEW a \in Auctions, Settle(a) PROVE Punctual
  BY <1>0, <1>3, PunctualRest DEF Settle, OpenOrder, CaptureWin, CountUnit, Relist,
     PrepayShipping, auctionVars
<1>4. ASSUME NEW u \in Users, NEW m \in Moves, Move(u, m) PROVE Punctual
  BY <1>0, <1>4, PunctualRest DEF Move, Credit, Debit, auctionVars
<1>5. ASSUME NEW l \in Listings, NEW u \in StoreBuyers, Buy(l, u) PROVE Punctual
  BY <1>0, <1>5, PunctualRest DEF Buy, ClaimUnit, ChargeUnit, ReturnUnit, CheckLast,
     RetireListing, auctionVars
<1>6. CASE Tick
  <2>1. \A a \in Auctions : status[a] = "RUNNING" =>
          left'[a] = Larger(left[a] - 1, -Lag) /\ left[a] \in Int
    BY <1>0, <1>6 DEF Tick
  <2>2. \A a \in Auctions : status[a] = "RUNNING" => left'[a] >= left[a] - 1
    BY <1>0, <2>1 DEF Larger
  <2>3. status' = status
    BY <1>6 DEF Tick
  <2>4. QED
    BY <2>2, <2>3 DEF Punctual
<1>7. CASE Scheduler
  <2>1. ASSUME NEW a \in Auctions, CloseOne(a) PROVE Punctual
    <3>1. /\ left' = left
          /\ status'[a] # status[a] => left[a] <= 0
          /\ \A b \in Auctions \ {a} : status'[b] = status[b]
      BY <1>0, <2>1 DEF CloseOne, StillDue
    <3>2. \A b \in Auctions : left'[b] >= left[b] - 1
      BY <1>0, <3>1
    <3>3. QED
      BY <3>1, <3>2 DEF Punctual
  <2>2. CASE PollDue \/ EndTick
    BY <1>0, <2>2, PunctualRest DEF PollDue, EndTick, auctionVars
  <2>3. QED
    BY <1>7, <2>1, <2>2 DEF Scheduler
<1>8. CASE FailTick \/ Crash \/ UNCHANGED vars
  BY <1>0, <1>8, PunctualRest DEF FailTick, Crash, vars, auctionVars
<1>9. QED
  BY <1>1, <1>2, <1>3, <1>4, <1>5, <1>6, <1>7, <1>8 DEF Next

\* No auction leaves RUNNING with time left, however stale the scheduler's poll,
\* and no bid pulls a deadline forward (NoEarlyClose).
THEOREM NeverEarly == Spec => NoEarlyClose
<1>1. Inv /\ OpenBidsStand /\ [Next]_vars => [Punctual]_vars
  BY PunctualStep
<1>2. QED
  BY <1>1, Invariance, OpenBidsAlwaysStand, PTL DEF Spec, NoEarlyClose, Punctual

\* What RivalsCanAnswer says of one step.
RoomToAnswer ==
  \A a \in Auctions \ Market : leader'[a] # leader[a] =>
    /\ left'[a] > 2 * Second - Lag
    /\ left'[a] > left[a] => left'[a] <= 5 * Second

\* A live bid accepted in time leaves more than two seconds and, unless it leaves
\* the clock alone, at most five.
LEMMA LateBidExtends ==
  ASSUME NEW r \in Int, r >= 1
  PROVE  LET f == antiSnipeRemaining(r) IN
         /\ f \in Int /\ f > 2 * Second
         /\ f > r => f <= 5 * Second
         /\ f <= r => r >= 5 * Second
BY BoundsAssumption DEF antiSnipeRemaining, Bump, Smaller

LEMMA RoomStep ==
  ASSUME Inv, OpenBidsStand, [Next]_vars
  PROVE  RoomToAnswer
<1>0. /\ leader \in [Auctions -> Users \cup {NoUser}]
      /\ left \in [Auctions -> Int]
      /\ Lag \in Nat /\ Second \in Nat \ {0}
  BY BoundsAssumption DEF Inv, TypeOK
<1>1. CASE leader' = leader
  BY <1>1 DEF RoomToAnswer
<1>2. CASE \E a \in Auctions : AcceptBid(a)
  <2>1. PICK a \in Auctions : AcceptBid(a)
    BY <1>2
  <2> DEFINE lag == pending[a].lag
             read == left[a] + lag
             fresh == NewRemaining(a, read)
             f == antiSnipeRemaining(read)
  <2>2. /\ left'[a] = IF fresh > read THEN fresh - lag ELSE left[a]
        /\ \A b \in Auctions \ {a} : leader'[b] = leader[b]
    BY <1>0, <2>1 DEF AcceptBid
  <2>3. lag \in 0..Lag /\ read >= 1 /\ left[a] \in Int
    BY <1>0, <2>1 DEF AcceptBid, OpenBidsStand
  <2>4. ASSUME a \notin Market
        PROVE  /\ left'[a] > 2 * Second - Lag
               /\ left'[a] > left[a] => left'[a] <= 5 * Second
    <3>1. fresh = f
      BY <2>4 DEF NewRemaining
    <3>2. read \in Int
      BY <1>0, <2>3
    <3>3. /\ f \in Int /\ f > 2 * Second
          /\ f > read => f <= 5 * Second
          /\ f <= read => read >= 5 * Second
      <4> HIDE DEF read
      <4> QED BY <2>3, <3>2, LateBidExtends
    <3>4. left'[a] = IF f > read THEN f - lag ELSE left[a]
      BY <2>2, <3>1
    <3> HIDE DEF f, lag
    <3>5. QED
      BY <1>0, <2>3, <3>3, <3>4
  <2>5. QED
    BY <2>2, <2>4 DEF RoomToAnswer
<1>3. leader' = leader \/ \E a \in Auctions : AcceptBid(a)
  BY DEF Next, Start, CreateAuction, StartAuction, Bid, LockForBid, AbortBid, Settle,
     OpenOrder, CaptureWin, CountUnit, Relist, PrepayShipping, Move, Credit, Debit, Buy,
     ClaimUnit, ChargeUnit, ReturnUnit, CheckLast, RetireListing, Tick, Scheduler,
     PollDue, CloseOne, EndTick, FailTick, Crash, vars, auctionVars
<1>4. QED
  BY <1>1, <1>2, <1>3

\* A bid leaves the rivals more than two seconds less its own delay, and never
\* lengthens a live auction beyond five (RivalsCanAnswer).
THEOREM RivalsAlwaysCanAnswer == Spec => RivalsCanAnswer
<1>1. Inv /\ OpenBidsStand /\ [Next]_vars => [RoomToAnswer]_vars
  BY RoomStep
<1>2. QED
  BY <1>1, Invariance, OpenBidsAlwaysStand, PTL DEF Spec, RivalsCanAnswer, RoomToAnswer

-----------------------------------------------------------------------------
(* The rows: one bid of an auction stands.                                 *)

\* OneBidStands, of one auction.
BidStands(a) ==
  IF leader[a] = NoUser THEN bids[a] = {}
  ELSE \E b \in bids[a] :
         /\ Standing(a) = {b}
         /\ b.user = leader[a] /\ b.amount = currentBid[a]
         /\ b.st = "WON" <=> status[a] = "SETTLING"
         /\ \A c \in bids[a] \ {b} : c.amount < b.amount
         /\ Uncaptured(a) => hold[a][b.user] = b.amount + b.ship

\* What the steps that leave an auction's rows alone have in common.
LEMMA BidRests ==
  ASSUME NEW a \in Auctions, BidStands(a),
         leader'[a] = leader[a], bids'[a] = bids[a], currentBid'[a] = currentBid[a],
         status'[a] = "SETTLING" <=> status[a] = "SETTLING",
         Uncaptured(a)' => Uncaptured(a) /\ hold'[a] = hold[a]
  PROVE  BidStands(a)'
BY DEF BidStands, Standing

LEMMA BidsRest ==
  ASSUME TypeOK, OneBidStands, UNCHANGED <<leader, bids, currentBid, status, stage, hold>>
  PROVE  OneBidStands'
BY DEF OneBidStands, Standing, Uncaptured

\* A bid outbids all the rows there are: they end up OUTBID and lower.
LEMMA AcceptOutbids ==
  ASSUME Inv, OpenBidsStand, OneBidStands, NEW a \in Auctions, AcceptBid(a)
  PROVE  \A c \in Demoted(a, "OUTBID") : c.st = "OUTBID" /\ c.amount < pending[a].amount
<1>1. /\ status[a] = "RUNNING" /\ pending[a].amount > currentBid[a]
      /\ bids[a] \subseteq BidRow /\ pending[a].amount \in Nat
  <2>1. pending[a] \in OpenBid
    BY DEF AcceptBid, Locked, Inv, TypeOK
  <2>2. pending[a].amount \in Nat
    BY <2>1, Amounts DEF OpenBid
  <2>3. QED
    BY <2>2 DEF AcceptBid, OpenBidsStand, Inv, Phases, TypeOK
<1>2. CASE leader[a] = NoUser
  <2>1. bids[a] = {}
    BY <1>2 DEF OneBidStands
  <2>2. QED
    BY <2>1 DEF Demoted
<1>3. CASE leader[a] # NoUser
  <2>1. PICK b \in bids[a] :
          /\ Standing(a) = {b}
          /\ b.user = leader[a] /\ b.amount = currentBid[a]
          /\ b.st = "WON" <=> status[a] = "SETTLING"
          /\ \A c \in bids[a] \ {b} : c.amount < b.amount
    BY <1>3 DEF OneBidStands
  <2>2. b.st = "ACTIVE"
    BY <1>1, <2>1 DEF Standing
  <2>3. ASSUME NEW c \in bids[a]
        PROVE  /\ c # b => c.st = "OUTBID"
               /\ c.amount < pending[a].amount
    <3>1. c \in BidRow /\ c.amount \in Nat /\ b.amount \in Nat
      BY <1>1, Amounts DEF BidRow
    <3>2. c # b => c.st = "OUTBID"
      BY <2>1, <3>1 DEF Standing, BidRow
    <3>3. c.amount <= b.amount
      BY <2>1, <3>1
    <3>4. b.amount < pending[a].amount
      BY <1>1, <2>1
    <3>5. c.amount < pending[a].amount
      BY <1>1, <3>1, <3>3, <3>4
    <3>6. QED
      BY <3>2, <3>5
  <2>4. ASSUME NEW d \in Demoted(a, "OUTBID")
        PROVE  d.st = "OUTBID" /\ d.amount < pending[a].amount
    <3>1. PICK c \in bids[a] :
            d = IF c.user = leader[a] /\ c.st = "ACTIVE" THEN [c EXCEPT !.st = "OUTBID"] ELSE c
      BY DEF Demoted
    <3>2. c \in BidRow
      BY <1>1
    <3>3. d.amount = c.amount
      BY <3>1, <3>2 DEF BidRow
    <3>4. d.st = "OUTBID"
      <4>1. CASE c = b
        BY <2>1, <2>2, <3>1, <3>2, <4>1 DEF BidRow
      <4>2. CASE c # b
        BY <2>3, <3>1, <4>2
      <4>3. QED
        BY <4>1, <4>2
    <3>5. QED
      BY <2>3, <3>3, <3>4
  <2>5. QED
    BY <2>4
<1>4. QED
  BY <1>2, <1>3

\* After an accepted bid its row stands alone.
LEMMA AcceptStands ==
  ASSUME Inv, OpenBidsStand, OneBidStands, NEW a \in Auctions, AcceptBid(a)
  PROVE  BidStands(a)'
<1> DEFINE p == pending[a]
           new == [user |-> p.user, amount |-> p.amount, ship |-> p.ship, st |-> "ACTIVE"]
<1>1. /\ leader'[a] = p.user /\ currentBid'[a] = p.amount /\ status'[a] = "RUNNING"
      /\ bids'[a] = Demoted(a, "OUTBID") \cup {new}
      /\ p.user \in Users /\ p.user # NoUser /\ p.amount \in Nat /\ p.ship \in Nat
      /\ hold'[a] = [ReleasedHolds(a) EXCEPT ![p.user] = @ + (p.amount + p.ship)]
      /\ status[a] = "RUNNING"
  <2>1. p \in OpenBid /\ status[a] = "RUNNING"
    BY DEF AcceptBid, Locked, Inv, TypeOK, Phases
  <2>2. p.user \in Users /\ p.amount \in Nat /\ p.ship \in Nat
    BY <2>1, Amounts DEF OpenBid
  <2>3. p.user # NoUser
    BY <2>2, IdsAssumption
  <2>4. /\ leader' = [leader EXCEPT ![a] = p.user]
        /\ currentBid' = [currentBid EXCEPT ![a] = p.amount]
        /\ bids' = [bids EXCEPT ![a] = Demoted(a, "OUTBID") \cup {new}]
        /\ hold' = [hold EXCEPT ![a] =
             [ReleasedHolds(a) EXCEPT ![p.user] = @ + (p.amount + p.ship)]]
        /\ status' = status
    BY DEF AcceptBid
  <2>5. /\ a \in DOMAIN leader /\ a \in DOMAIN currentBid /\ a \in DOMAIN bids
        /\ a \in DOMAIN hold
    BY DEF Inv, TypeOK
  <2> HIDE DEF p, new
  <2>6. QED
    BY <2>1, <2>2, <2>3, <2>4, <2>5
<1>2. hold'[a][p.user] = p.amount + p.ship
  <2>1. ReleasedHolds(a) = [u \in Users |-> 0]
    BY <1>1, ReleaseFreesAll DEF Inv
  <2> HIDE DEF p, new
  <2>2. QED
    BY <1>1, <2>1
<1>3. \A c \in bids'[a] \ {new} : c.st = "OUTBID" /\ c.amount < p.amount
  BY <1>1, AcceptOutbids
<1>4. new.st = "ACTIVE" /\ new.user = p.user /\ new.amount = p.amount /\ new.ship = p.ship
  OBVIOUS
<1>5. Standing(a)' = {new}
  <2> HIDE DEF p, new
  <2> QED BY <1>1, <1>3, <1>4 DEF Standing
<1>6. QED
  <2> HIDE DEF p, new
  <2>1. new \in bids'[a]
    BY <1>1
  <2>2. \A c \in bids'[a] \ {new} : c.amount < new.amount
    BY <1>3, <1>4
  <2>3. QED
    BY <1>1, <1>2, <1>4, <1>5, <2>1, <2>2 DEF BidStands

\* Closing a sold auction marks the row that stands, and no other.
LEMMA CloseStands ==
  ASSUME Inv, OneBidStands, NEW a \in Auctions,
         status[a] = "RUNNING", leader[a] # NoUser,
         status'[a] = "SETTLING", bids'[a] = Demoted(a, "WON"),
         UNCHANGED <<leader, currentBid, hold, stage>>
  PROVE  BidStands(a)'
<1>1. PICK b \in bids[a] :
        /\ Standing(a) = {b}
        /\ b.user = leader[a] /\ b.amount = currentBid[a]
        /\ b.st = "WON" <=> status[a] = "SETTLING"
        /\ \A c \in bids[a] \ {b} : c.amount < b.amount
        /\ Uncaptured(a) => hold[a][b.user] = b.amount + b.ship
  BY DEF OneBidStands
<1> DEFINE w == [b EXCEPT !.st = "WON"]
<1>2. bids[a] \subseteq BidRow /\ b.st = "ACTIVE"
  BY <1>1 DEF Inv, TypeOK, Standing
<1>3. /\ w.user = b.user /\ w.amount = b.amount /\ w.ship = b.ship /\ w.st = "WON"
  BY <1>2 DEF BidRow
<1>4. \A c \in bids[a] \ {b} : c.st = "OUTBID"
  BY <1>1, <1>2 DEF Standing, BidRow
<1>5. Demoted(a, "WON") = (bids[a] \ {b}) \cup {w}
  <2>1. \A c \in bids[a] \ {b} :
          (IF c.user = leader[a] /\ c.st = "ACTIVE" THEN [c EXCEPT !.st = "WON"] ELSE c) = c
    BY <1>4
  <2>2. (IF b.user = leader[a] /\ b.st = "ACTIVE" THEN [b EXCEPT !.st = "WON"] ELSE b) = w
    BY <1>1, <1>2
  <2> HIDE DEF w
  <2>3. QED
    BY <2>1, <2>2 DEF Demoted
<1> HIDE DEF w
<1>6. Standing(a)' = {w}
  BY <1>3, <1>4, <1>5 DEF Standing
<1>7. \A c \in bids'[a] \ {w} : c.amount < w.amount
  BY <1>1, <1>3, <1>5
<1>8. w \in bids'[a]
  BY <1>5
<1>9. Uncaptured(a)' => hold'[a][w.user] = w.amount + w.ship
  BY <1>1, <1>3 DEF Uncaptured
<1>10. QED
  BY <1>1, <1>3, <1>6, <1>7, <1>8, <1>9 DEF BidStands

\* OneBidStands is kept by every step.
LEMMA OneBidStep ==
  ASSUME Inv, OpenBidsStand, OneBidStands, [Next]_vars
  PROVE  OneBidStands'
<1>0. /\ status \in [Auctions -> AuctionStatus]
      /\ leader \in [Auctions -> Users \cup {NoUser}]
      /\ currentBid \in [Auctions -> Prices \cup {0}]
      /\ bids \in [Auctions -> SUBSET BidRow]
      /\ hold \in [Auctions -> [Users -> Nat]]
      /\ stage \in [Auctions -> Stages]
      /\ TypeOK
      /\ \A a \in Auctions : BidStands(a)
  BY DEF Inv, TypeOK, OneBidStands, BidStands
<1>1. ASSUME NEW a \in Auctions, BidStands(a)',
             \A b \in Auctions \ {a} :
               /\ leader'[b] = leader[b] /\ bids'[b] = bids[b]
               /\ currentBid'[b] = currentBid[b] /\ status'[b] = status[b]
               /\ stage'[b] = stage[b] /\ hold'[b] = hold[b]
      PROVE  OneBidStands'
  <2>1. \A b \in Auctions \ {a} : BidStands(b)'
    BY <1>0, <1>1, BidRests DEF Uncaptured
  <2>2. \A b \in Auctions : BidStands(b)'
    BY <1>1, <2>1
  <2>3. QED
    BY <2>2 DEF OneBidStands, BidStands
<1>2. ASSUME NEW a \in Auctions, Start(a) PROVE OneBidStands'
  <2>1. /\ UNCHANGED <<leader, bids, currentBid, hold, stage>>
        /\ \E s \in {"PENDING", "RUNNING"} : status' = [status EXCEPT ![a] = s]
        /\ status[a] # "SETTLING"
    BY <1>2 DEF Start, CreateAuction, StartAuction, moneyVars
  <2>2. BidStands(a)'
    <3>1. status'[a] # "SETTLING"
      BY <1>0, <2>1
    <3>2. QED
      BY <1>0, <2>1, <3>1, BidRests DEF Uncaptured
  <2>3. QED
    BY <1>0, <1>1, <2>1, <2>2
<1>3. ASSUME NEW a \in Auctions, Bid(a) PROVE OneBidStands'
  <2>1. ASSUME NEW u \in Users, NEW amount \in Prices, NEW ship,
               LockForBid(a, u, amount, ship)
        PROVE  OneBidStands'
    BY <1>0, <2>1, BidsRest DEF LockForBid, auctionVars, moneyVars
  <2>2. CASE AbortBid(a)
    BY <1>0, <2>2, BidsRest DEF AbortBid, auctionVars, moneyVars
  <2>3. CASE AcceptBid(a)
    <3>1. BidStands(a)'
      BY <2>3, AcceptStands
    <3>2. \A b \in Auctions \ {a} :
            /\ leader'[b] = leader[b] /\ bids'[b] = bids[b]
            /\ currentBid'[b] = currentBid[b] /\ status'[b] = status[b]
            /\ stage'[b] = stage[b] /\ hold'[b] = hold[b]
      BY <1>0, <2>3 DEF AcceptBid
    <3>3. QED
      BY <1>1, <3>1, <3>2
  <2>4. QED
    BY <1>3, <2>1, <2>2, <2>3 DEF Bid
<1>4. ASSUME NEW a \in Auctions, Settle(a) PROVE OneBidStands'
  <2>1. ASSUME UNCHANGED <<leader, bids, currentBid, status, hold>>,
               NEW s \in Stages, stage' = [stage EXCEPT ![a] = s],
               Uncaptured(a)' => Uncaptured(a)
        PROVE  OneBidStands'
    <3>1. BidStands(a)'
      BY <1>0, <2>1, BidRests
    <3>2. QED
      BY <1>0, <1>1, <2>1, <3>1
  <2>2. CASE OpenOrder(a)
    BY <1>0, <2>1, <2>2 DEF OpenOrder, Uncaptured, Stages, auctionVars, moneyVars
  <2>3. CASE CaptureWin(a)
    <3>1. stage' = [stage EXCEPT ![a] = "CAPTURED"]
      BY <2>3, CaptureKeepsCovered DEF Inv
    <3>2. ~Uncaptured(a)'
      BY <1>0, <3>1 DEF Uncaptured
    <3>3. /\ UNCHANGED <<leader, bids, currentBid, status>>
          /\ \A b \in Auctions \ {a} : hold'[b] = hold[b]
      BY <1>0, <2>3 DEF CaptureWin, auctionVars
    <3>4. BidStands(a)'
      BY <1>0, <3>2, <3>3, BidRests
    <3>5. QED
      BY <1>0, <1>1, <3>1, <3>3, <3>4
  <2>4. CASE CountUnit(a)
    BY <1>0, <2>1, <2>4 DEF CountUnit, Uncaptured, Stages, auctionVars, moneyVars
  <2>5. CASE Relist(a)
    BY <1>0, <2>1, <2>5 DEF Relist, Uncaptured, Stages, auctionVars, moneyVars
  <2>6. CASE PrepayShipping(a)
    <3> DEFINE s == IF Affords(leader[a], WonBid(a).ship) THEN "PREPAID" ELSE "UNPAID"
    <3>1. s \in Stages /\ s \notin {"NONE", "ORDERED", "FAILED"}
      BY DEF Stages
    <3>2. stage' = [stage EXCEPT ![a] = s] /\ UNCHANGED <<leader, bids, currentBid, status, hold>>
      BY <2>6 DEF PrepayShipping, auctionVars
    <3> HIDE DEF s
    <3>3. QED
      BY <1>0, <2>1, <3>1, <3>2 DEF Uncaptured
  <2>7. QED
    BY <1>4, <2>2, <2>3, <2>4, <2>5, <2>6 DEF Settle
<1>5. ASSUME NEW u \in Users, NEW m \in Moves, Move(u, m) PROVE OneBidStands'
  BY <1>0, <1>5, BidsRest DEF Move, Credit, Debit, auctionVars
<1>6. ASSUME NEW l \in Listings, NEW u \in StoreBuyers, Buy(l, u) PROVE OneBidStands'
  BY <1>0, <1>6, BidsRest DEF Buy, ClaimUnit, ChargeUnit, ReturnUnit, CheckLast,
     RetireListing, auctionVars, moneyVars
<1>7. CASE Tick
  BY <1>0, <1>7, BidsRest DEF Tick, moneyVars
<1>8. CASE Scheduler
  <2>1. ASSUME NEW a \in Auctions, CloseOne(a) PROVE OneBidStands'
    <3>1. UNCHANGED <<leader, currentBid, hold, stage>>
      BY <2>1 DEF CloseOne
    <3>2. CASE UNCHANGED <<status, bids>>
      BY <1>0, <3>1, <3>2, BidsRest
    <3>3. CASE /\ StillDue(a) /\ leader[a] # NoUser
               /\ status' = [status EXCEPT ![a] = "SETTLING"]
               /\ bids' = [bids EXCEPT ![a] = Demoted(a, "WON")]
      <4>1. status[a] = "RUNNING" /\ status'[a] = "SETTLING" /\ bids'[a] = Demoted(a, "WON")
        BY <1>0, <3>3 DEF StillDue
      <4>2. BidStands(a)'
        BY <3>1, <3>3, <4>1, CloseStands
      <4>3. QED
        BY <1>0, <1>1, <3>1, <3>3, <4>2
    <3>4. CASE StillDue(a) /\ status' = [status EXCEPT ![a] = "CLOSED"] /\ bids' = bids
      <4>1. status[a] # "SETTLING" /\ status'[a] # "SETTLING"
        BY <1>0, <3>4 DEF StillDue
      <4>2. BidStands(a)'
        BY <1>0, <3>1, <3>4, <4>1, BidRests DEF Uncaptured
      <4>3. QED
        BY <1>0, <1>1, <3>1, <3>4, <4>2
    <3>5. QED
      BY <2>1, <3>2, <3>3, <3>4 DEF CloseOne
  <2>2. CASE PollDue \/ EndTick
    BY <1>0, <2>2, BidsRest DEF PollDue, EndTick, auctionVars, moneyVars
  <2>3. QED
    BY <1>8, <2>1, <2>2 DEF Scheduler
<1>9. CASE FailTick \/ Crash \/ UNCHANGED vars
  BY <1>0, <1>9, BidsRest DEF FailTick, Crash, vars, auctionVars, moneyVars
<1>10. QED
  BY <1>2, <1>3, <1>4, <1>5, <1>6, <1>7, <1>8, <1>9 DEF Next

\* Exactly one bid row of an auction stands, the leader's and the highest; it is
\* WON exactly when the auction is sold, and the hold is the bid with its shipping
\* (OneBidStands).
THEOREM OneBidAlwaysStands == Spec => []OneBidStands
<1>1. Init => OneBidStands
  BY DEF Init, OneBidStands
<1>2. QED
  BY <1>1, OneBidStep, Invariance, OpenBidsAlwaysStand, PTL DEF Spec

-----------------------------------------------------------------------------
(* The promise: the backend runs English auctions.                         *)

\* Nobody owes more, by the promise, than they have.
CommittedIsHeld == \A u \in Users : English!Committed(u) <= settled[u]

\* Both modules sum with the same operator.
LEMMA SameTotal ==
  ASSUME NEW f, NEW S
  PROVE  English!Total(f, S) = Total(f, S)
BY DEF English!Total, Total, English!MapThenSumSet, MapThenSumSet,
   English!MapThenFoldSet, MapThenFoldSet

LEMMA HeldForCommitted == Inv => CommittedIsHeld
<1> SUFFICES ASSUME Inv, NEW u \in Users
             PROVE  English!Committed(u) <= settled[u]
  BY DEF CommittedIsHeld
<1> DEFINE f == [a \in Auctions |->
                   IF leader[a] = u /\ phase[a] \in {"open", "sold"} THEN currentBid[a] ELSE 0]
           g == [a \in Auctions |-> hold[a][u]]
<1>1. ASSUME NEW a \in Auctions
      PROVE  f[a] \in Nat /\ g[a] \in Nat /\ f[a] <= g[a]
  <2>1. currentBid[a] \in Nat /\ hold[a][u] \in Nat
    BY Amounts DEF Inv, TypeOK
  <2>2. CASE leader[a] = u /\ phase[a] \in {"open", "sold"}
    <3>1. Uncaptured(a)
      <4>1. status[a] # "RUNNING" \/ stage[a] = "NONE"
        BY DEF Inv, Phases
      <4>2. QED
        BY <2>2, <4>1 DEF phase, Uncaptured
    <3>2. hold[a][u] >= currentBid[a]
      BY <2>2, <3>1 DEF Inv, LeaderHolds
    <3>3. QED
      BY <2>1, <2>2, <3>2
  <2>3. CASE ~(leader[a] = u /\ phase[a] \in {"open", "sold"})
    BY <2>1, <2>3
  <2>4. QED
    BY <2>2, <2>3
<1>2. Total(f, Auctions) <= Total(g, Auctions)
  <2> HIDE DEF f, g
  <2> QED BY <1>1, FiniteAssumption, TotalLess
<1>3. English!Committed(u) = Total(f, Auctions) /\ activeHolds(u) = Total(g, Auctions)
  <2>1. English!Committed(u) = English!Total(f, Auctions)
    BY DEF English!Committed
  <2>2. English!Total(f, Auctions) = Total(f, Auctions)
    <3> HIDE DEF f
    <3> QED BY SameTotal
  <2>3. activeHolds(u) = Total(g, Auctions)
    BY DEF activeHolds
  <2> HIDE DEF f, g
  <2>4. QED
    BY <2>1, <2>2, <2>3
<1>4. activeHolds(u) <= settled[u]
  BY DEF Inv, HoldsCovered
<1>5. Total(f, Auctions) \in Nat /\ Total(g, Auctions) \in Nat /\ settled[u] \in Nat
  <2>1. settled[u] \in Nat
    BY DEF Inv, TypeOK
  <2> HIDE DEF f, g
  <2>2. QED
    BY <1>1, <2>1, FiniteAssumption, TotalNat
<1> HIDE DEF f, g
<1>6. QED
  BY <1>2, <1>3, <1>4, <1>5

\* The same of the state a step leads to.
LEMMA HeldForCommittedNext == Inv' => CommittedIsHeld'
BY HeldForCommitted, PTL

\* An auction's phase follows its status and its order.
LEMMA PhaseRests ==
  ASSUME NEW a \in Auctions, status'[a] = status[a], Uncaptured(a)' <=> Uncaptured(a)
  PROVE  phase'[a] = phase[a]
BY DEF phase, Uncaptured

LEMMA PhaseOfOne ==
  ASSUME NEW a \in Auctions, \A b \in Auctions \ {a} : phase'[b] = phase[b]
  PROVE  phase' = [phase EXCEPT ![a] = phase'[a]]
<1>1. phase \in [Auctions -> {"waiting", "open", "passed", "paid", "sold"}]
  BY DEF phase
<1>2. phase' = [b \in Auctions |-> phase'[b]]
  BY DEF phase
<1>3. QED
  BY <1>1, <1>2

\* Steps that neither the phases, the prices, the leaders nor the money show.
LEMMA Invisible ==
  ASSUME UNCHANGED <<status, currentBid, leader, settled>>,
         \A a \in Auctions : Uncaptured(a)' <=> Uncaptured(a)
  PROVE  [English!Next]_English!vars
<1>1. phase' = phase
  <2>1. \A a \in Auctions : phase'[a] = phase[a]
    BY PhaseRests
  <2>2. phase = [a \in Auctions |-> phase[a]] /\ phase' = [a \in Auctions |-> phase'[a]]
    BY DEF phase
  <2>3. QED
    BY <2>1, <2>2
<1>2. QED
  BY <1>1 DEF English!vars

\* Starting an auction opens it.
LEMMA StartIsOpen ==
  ASSUME Inv, NEW a \in Auctions, StartAuction(a)
  PROVE  English!Open(a)
<1>1. /\ status[a] = "PENDING" /\ status' = [status EXCEPT ![a] = "RUNNING"]
      /\ UNCHANGED <<leader, currentBid, settled, stage>>
      /\ status \in [Auctions -> AuctionStatus]
  BY DEF StartAuction, moneyVars, Inv, TypeOK
<1>2. phase[a] = "waiting" /\ phase'[a] = "open"
  BY <1>1 DEF phase
<1>3. \A b \in Auctions \ {a} : phase'[b] = phase[b]
  BY <1>1, PhaseRests DEF Uncaptured
<1>4. phase' = [phase EXCEPT ![a] = "open"]
  BY <1>2, <1>3, PhaseOfOne
<1>5. QED
  BY <1>1, <1>2, <1>4 DEF English!Open

\* An accepted bid is a higher bid by another user who can pay for all they lead.
LEMMA AcceptIsBid ==
  ASSUME Inv, Inv', OpenBidsStand, NEW a \in Auctions, AcceptBid(a)
  PROVE  \E u \in Users : English!Bid(a, u)
<1>0. pending[a] \in OpenBid
  BY DEF AcceptBid, Locked, Inv, TypeOK
<1>1. PICK u \in Users : u = pending[a].user
  BY <1>0 DEF OpenBid
<1>2. PICK m \in Prices : m = pending[a].amount
  BY <1>0 DEF OpenBid
<1>3. /\ m > currentBid[a] /\ u # leader[a] /\ status[a] = "RUNNING"
      /\ status' = status /\ stage' = stage /\ settled' = settled
      /\ leader' = [leader EXCEPT ![a] = u]
      /\ currentBid' = [currentBid EXCEPT ![a] = m]
      /\ currentBid \in [Auctions -> Prices \cup {0}]
  BY <1>1, <1>2 DEF AcceptBid, OpenBidsStand, Inv, Phases, TypeOK
<1>4. phase' = phase /\ phase[a] = "open"
  BY <1>3 DEF phase, Uncaptured
<1>5. currentBid'[a] = m /\ currentBid' = [currentBid EXCEPT ![a] = currentBid'[a]]
  BY <1>3
<1>6. English!Committed(u)' <= settled[u]
  BY <1>3, HeldForCommittedNext DEF CommittedIsHeld
<1>7. English!Bid(a, u)
  BY <1>3, <1>4, <1>5, <1>6 DEF English!Bid
<1>8. QED
  BY <1>7

\* Closing a due auction closes it, to its leader or to nobody.
LEMMA CloseIsClose ==
  ASSUME Inv, NEW a \in Auctions, CloseOne(a), status' # status
  PROVE  English!Close(a)
<1> DEFINE s == IF leader[a] = NoUser THEN "CLOSED" ELSE "SETTLING"
<1>1. /\ status[a] = "RUNNING" /\ status' = [status EXCEPT ![a] = s]
      /\ UNCHANGED <<leader, currentBid, settled, stage>>
      /\ status \in [Auctions -> AuctionStatus]
  BY DEF CloseOne, StillDue, Inv, TypeOK
<1>2. stage[a] = "NONE"
  BY <1>1 DEF Inv, Phases
<1>3. phase[a] = "open" /\ phase'[a] = IF leader[a] = NoUser THEN "passed" ELSE "sold"
  BY <1>1, <1>2 DEF phase, Uncaptured
<1>4. \A b \in Auctions \ {a} : phase'[b] = phase[b]
  BY <1>1, PhaseRests DEF Uncaptured
<1>5. phase' = [phase EXCEPT ![a] = IF leader[a] = NoUser THEN "passed" ELSE "sold"]
  BY <1>3, <1>4, PhaseOfOne
<1>6. QED
  BY <1>1, <1>3, <1>5 DEF English!Close

\* Capturing a win pays for it, once.
LEMMA CaptureIsPay ==
  ASSUME Inv, NEW a \in Auctions, CaptureWin(a)
  PROVE  English!Pay(a)
<1>1. /\ status[a] = "SETTLING" /\ stage[a] = "ORDERED" /\ leader[a] \in Users
      /\ UNCHANGED <<status, leader, currentBid>>
      /\ stage' = [stage EXCEPT ![a] = "CAPTURED"]
      /\ stage \in [Auctions -> Stages]
  BY CaptureKeepsCovered DEF CaptureWin, auctionVars, Inv, Phases, TypeOK
<1>2. stage'[a] # stage[a] /\ stage'[a] # "FAILED"
  BY <1>1
<1>3. /\ settled[leader[a]] >= currentBid[a]
      /\ settled' = [settled EXCEPT ![leader[a]] = @ - currentBid[a]]
  BY <1>1, <1>2 DEF CaptureWin
<1>4. phase[a] = "sold" /\ phase'[a] = "paid"
  BY <1>1 DEF phase, Uncaptured
<1>5. \A b \in Auctions \ {a} : phase'[b] = phase[b]
  BY <1>1, PhaseRests DEF Uncaptured
<1>6. phase' = [phase EXCEPT ![a] = "paid"]
  BY <1>4, <1>5, PhaseOfOne
<1>7. QED
  BY <1>1, <1>3, <1>4, <1>6 DEF English!Pay

\* Any other change of a balance leaves enough for what its owner leads.
LEMMA MoneyIsMove ==
  ASSUME Inv, Inv', NEW u \in Users,
         UNCHANGED <<status, leader, currentBid>>,
         \A a \in Auctions : Uncaptured(a)' <=> Uncaptured(a),
         settled' = [settled EXCEPT ![u] = settled'[u]]
  PROVE  English!Move(u)
<1>1. phase' = phase
  BY PhaseRests DEF phase, Uncaptured
<1>2. English!Committed(u)' = English!Committed(u)
  BY <1>1 DEF English!Committed, phase
<1>3. English!Committed(u)' <= settled'[u]
  BY HeldForCommittedNext DEF CommittedIsHeld
<1>4. QED
  BY <1>1, <1>2, <1>3 DEF English!Move

\* Every step is one of the promise, or invisible to it.
LEMMA EnglishStep ==
  Inv /\ Inv' /\ OpenBidsStand /\ [Next]_vars => [English!Next]_English!vars
<1> SUFFICES ASSUME Inv, Inv', OpenBidsStand, [Next]_vars
             PROVE  [English!Next]_English!vars
  OBVIOUS
<1>0. stage \in [Auctions -> Stages] /\ settled \in [Users -> Nat]
  BY DEF Inv, TypeOK
<1>1. ASSUME NEW a \in Auctions, Start(a) PROVE [English!Next]_English!vars
  <2>1. CASE CreateAuction(a)
    <3>1. phase' = phase /\ UNCHANGED <<leader, currentBid, settled>>
      BY <2>1 DEF CreateAuction, phase, Uncaptured, moneyVars, Inv, TypeOK
    <3>2. QED
      BY <3>1 DEF English!vars
  <2>2. CASE StartAuction(a)
    BY <2>2, StartIsOpen DEF English!Next
  <2>3. QED
    BY <1>1, <2>1, <2>2 DEF Start
<1>2. ASSUME NEW a \in Auctions, Bid(a) PROVE [English!Next]_English!vars
  <2>1. ASSUME NEW u \in Users, NEW amount \in Prices, NEW ship,
               LockForBid(a, u, amount, ship)
        PROVE  [English!Next]_English!vars
    BY <2>1, Invisible DEF LockForBid, auctionVars, moneyVars, Uncaptured
  <2>2. CASE AbortBid(a)
    BY <2>2, Invisible DEF AbortBid, auctionVars, moneyVars, Uncaptured
  <2>3. CASE AcceptBid(a)
    BY <2>3, AcceptIsBid DEF English!Next
  <2>4. QED
    BY <1>2, <2>1, <2>2, <2>3 DEF Bid
<1>3. ASSUME NEW a \in Auctions, Settle(a) PROVE [English!Next]_English!vars
  <2>1. CASE OpenOrder(a)
    BY <1>0, <2>1, Invisible DEF OpenOrder, auctionVars, moneyVars, Uncaptured
  <2>2. CASE CaptureWin(a)
    BY <2>2, CaptureIsPay DEF English!Next
  <2>3. CASE CountUnit(a)
    BY <1>0, <2>3, Invisible DEF CountUnit, auctionVars, moneyVars, Uncaptured
  <2>4. CASE Relist(a)
    BY <1>0, <2>4, Invisible DEF Relist, auctionVars, moneyVars, Uncaptured
  <2>5. CASE PrepayShipping(a)
    <3> DEFINE s == IF Affords(leader[a], WonBid(a).ship) THEN "PREPAID" ELSE "UNPAID"
    <3>1. /\ stage[a] = "RELISTED" /\ stage' = [stage EXCEPT ![a] = s]
          /\ UNCHANGED <<status, leader, currentBid>>
          /\ leader[a] \in Users
      BY <2>5, WonBidThere DEF PrepayShipping, auctionVars, Inv
    <3>2. s \in {"PREPAID", "UNPAID"}
      OBVIOUS
    <3> HIDE DEF s
    <3>3. \A b \in Auctions : Uncaptured(b)' <=> Uncaptured(b)
      BY <1>0, <3>1, <3>2 DEF Uncaptured
    <3>4. PICK u \in Users : u = leader[a]
      BY <3>1
    <3>5. settled' = [settled EXCEPT ![u] = settled'[u]]
      BY <1>0, <2>5, <3>4 DEF PrepayShipping
    <3>6. English!Move(u)
      BY <3>1, <3>3, <3>5, MoneyIsMove
    <3>7. QED
      BY <3>6 DEF English!Next
  <2>6. QED
    BY <1>3, <2>1, <2>2, <2>3, <2>4, <2>5 DEF Settle
<1>4. ASSUME NEW u \in Users, NEW m \in Moves, Move(u, m)
      PROVE  [English!Next]_English!vars
  <2>1. /\ UNCHANGED <<status, leader, currentBid, stage>>
        /\ settled' = [settled EXCEPT ![u] = settled'[u]]
    BY <1>0, <1>4 DEF Move, Credit, Debit, auctionVars
  <2>2. English!Move(u)
    BY <2>1, MoneyIsMove DEF Uncaptured
  <2>3. QED
    BY <2>2 DEF English!Next
<1>5. ASSUME NEW l \in Listings, NEW u \in StoreBuyers, Buy(l, u)
      PROVE  [English!Next]_English!vars
  <2>1. CASE ChargeUnit(l, u)
    <3>1. u \in Users
      BY IdsAssumption
    <3>2. /\ UNCHANGED <<status, leader, currentBid, stage>>
          /\ settled' = [settled EXCEPT ![u] = settled'[u]]
      BY <1>0, <2>1, <3>1 DEF ChargeUnit, auctionVars
    <3>3. English!Move(u)
      BY <3>1, <3>2, MoneyIsMove DEF Uncaptured
    <3>4. QED
      BY <3>1, <3>3 DEF English!Next
  <2>2. CASE ClaimUnit(l, u) \/ ReturnUnit(l, u) \/ CheckLast(l, u) \/ RetireListing(l, u)
    BY <2>2, Invisible DEF ClaimUnit, ReturnUnit, CheckLast, RetireListing, auctionVars,
       moneyVars, Uncaptured
  <2>3. QED
    BY <1>5, <2>1, <2>2 DEF Buy
<1>6. CASE Tick
  BY <1>6, Invisible DEF Tick, moneyVars, Uncaptured
<1>7. CASE Scheduler
  <2>1. ASSUME NEW a \in Auctions, CloseOne(a) PROVE [English!Next]_English!vars
    <3>1. CASE status' = status
      BY <2>1, <3>1, Invisible DEF CloseOne, Uncaptured
    <3>2. CASE status' # status
      BY <2>1, <3>2, CloseIsClose DEF English!Next
    <3>3. QED
      BY <3>1, <3>2
  <2>2. CASE PollDue \/ EndTick
    BY <2>2, Invisible DEF PollDue, EndTick, auctionVars, moneyVars, Uncaptured
  <2>3. QED
    BY <1>7, <2>1, <2>2 DEF Scheduler
<1>8. CASE FailTick \/ Crash \/ UNCHANGED vars
  BY <1>8, Invisible DEF FailTick, Crash, vars, auctionVars, moneyVars, Uncaptured
<1>9. QED
  BY <1>1, <1>2, <1>3, <1>4, <1>5, <1>6, <1>7, <1>8 DEF Next

\* The first state is one of the promise.
LEMMA EnglishInit == Init => English!Init
<1> SUFFICES ASSUME Init PROVE English!Init
  OBVIOUS
<1>1. phase = [a \in Auctions |-> "waiting"]
  BY DEF Init, phase
<1>2. settled \in [Users -> Nat]
  BY MoneyAssumption DEF Init
<1>3. QED
  BY <1>1, <1>2 DEF Init, English!Init

\* Holds, locks, late transactions, re-checked deadlines, lost scheduler passes
\* and crashes are all invisible: the backend runs ascending auctions in which
\* nobody leads beyond their means and a win is paid once (RunsEnglishAuctions).
THEOREM Refinement == Spec => RunsEnglishAuctions
<1>1. QED
  BY EnglishInit, EnglishStep, Invariance, OpenBidsAlwaysStand, PTL
  DEF Spec, RunsEnglishAuctions, English!Spec

-----------------------------------------------------------------------------
(* The units: what is sold and what is left.                               *)

\* The settled auctions and the store buyers that took a unit of a listing.
Settled(l) ==
  {a \in Auctions : /\ ListingOf[a] = l
                    /\ stage[a] \notin {"NONE", "ORDERED", "FAILED", "CAPTURED"}}

Bought(l) == {u \in StoreBuyers : store[l][u] # "NONE"}

LEMMA TakersFinite ==
  ASSUME NEW l
  PROVE  /\ IsFiniteSet(Settled(l)) /\ Cardinality(Settled(l)) \in Nat
         /\ IsFiniteSet(Bought(l)) /\ Cardinality(Bought(l)) \in Nat
         /\ Taken(l) = Cardinality(Settled(l)) + Cardinality(Bought(l))
<1>1. IsFiniteSet(Auctions) /\ IsFiniteSet(StoreBuyers)
  BY FiniteAssumption, IdsAssumption, FS_Subset
<1>2. Settled(l) \subseteq Auctions /\ Bought(l) \subseteq StoreBuyers
  BY DEF Settled, Bought
<1>3. IsFiniteSet(Settled(l)) /\ IsFiniteSet(Bought(l))
  BY <1>1, <1>2, FS_Subset
<1>4. QED
  BY <1>3, FS_CardinalityType DEF Taken, Settled, Bought

\* Steps that leave quantities and takers alone.
LEMMA UnitsRest ==
  ASSUME UnitsAccounted, UNCHANGED quantity,
         \A l \in Listings : Settled(l)' = Settled(l) /\ Bought(l)' = Bought(l)
  PROVE  UnitsAccounted'
<1>1. \A l \in Listings : Taken(l)' = Taken(l)
  BY DEF Taken, Settled, Bought
<1>2. QED
  BY <1>1 DEF UnitsAccounted

\* A unit taken off the quantity of a listing has one new taker.
LEMMA UnitMoves ==
  ASSUME TypeOK, UnitsAccounted, NEW l \in Listings, NEW d \in {1, -1},
         quantity' = [quantity EXCEPT ![l] = quantity[l] - d],
         Taken(l)' = Taken(l) + d, Taken(l) \in Int,
         \A k \in Listings \ {l} : Taken(k)' = Taken(k)
  PROVE  UnitsAccounted'
<1>1. ASSUME NEW k \in Listings
      PROVE  quantity'[k] + Taken(k)' = Stock[k]
  <2>1. quantity[k] + Taken(k) = Stock[k] /\ quantity[l] \in Int
    BY DEF UnitsAccounted, TypeOK
  <2>2. CASE k = l
    <3>1. quantity'[l] = quantity[l] - d
      BY DEF TypeOK
    <3>2. QED
      BY <2>1, <2>2, <3>1
  <2>3. CASE k # l
    BY <2>1, <2>3 DEF TypeOK
  <2>4. QED
    BY <2>2, <2>3
<1>2. QED
  BY <1>1 DEF UnitsAccounted

\* Settling an auction takes the unit that it counts.
LEMMA CountTakesOne ==
  ASSUME Inv, UnitsAccounted, NEW a \in Auctions, CountUnit(a)
  PROVE  UnitsAccounted'
<1> DEFINE l == ListingOf[a]
<1>1. l \in Listings
  BY IdsAssumption
<1>2. /\ stage[a] = "CAPTURED" /\ stage' = [stage EXCEPT ![a] = "COUNTED"]
      /\ quantity' = [quantity EXCEPT ![l] = quantity[l] - 1]
      /\ store' = store /\ stage \in [Auctions -> Stages]
  BY DEF CountUnit, Inv, TypeOK
<1>3. a \notin Settled(l) /\ Settled(l)' = Settled(l) \cup {a}
  BY <1>2 DEF Settled
<1>4. \A k \in Listings : Bought(k)' = Bought(k)
  BY <1>2 DEF Bought
<1>5. \A k \in Listings \ {l} : Settled(k)' = Settled(k)
  BY <1>2 DEF Settled
<1> HIDE DEF l
<1>6. Cardinality(Settled(l) \cup {a}) = Cardinality(Settled(l)) + 1
  BY <1>3, TakersFinite, FS_AddElement
<1>7. \A k \in Listings : Taken(k)' = Cardinality(Settled(k)') + Cardinality(Bought(k)')
  BY DEF Taken, Settled, Bought
<1>8. Taken(l)' = Taken(l) + 1 /\ Taken(l) \in Int
  BY <1>1, <1>3, <1>4, <1>6, <1>7, TakersFinite
<1>9. \A k \in Listings \ {l} : Taken(k)' = Taken(k)
  BY <1>4, <1>5, <1>7, TakersFinite
<1>10. QED
  BY <1>1, <1>2, <1>8, <1>9, UnitMoves DEF Inv

\* A store buyer takes the unit that the claim counts.
LEMMA ClaimTakesOne ==
  ASSUME Inv, UnitsAccounted, NEW l \in Listings, NEW u \in StoreBuyers, ClaimUnit(l, u)
  PROVE  UnitsAccounted'
<1>1. /\ store[l][u] = "NONE" /\ store' = [store EXCEPT ![l][u] = "CLAIMED"]
      /\ quantity' = [quantity EXCEPT ![l] = quantity[l] - 1]
      /\ stage' = stage /\ store \in [Listings -> [StoreBuyers -> StoreStages]]
  BY DEF ClaimUnit, Inv, TypeOK
<1>2. u \notin Bought(l) /\ Bought(l)' = Bought(l) \cup {u}
  BY <1>1 DEF Bought
<1>3. \A k \in Listings : Settled(k)' = Settled(k)
  BY <1>1 DEF Settled
<1>4. \A k \in Listings \ {l} : Bought(k)' = Bought(k)
  BY <1>1 DEF Bought
<1>5. Cardinality(Bought(l) \cup {u}) = Cardinality(Bought(l)) + 1
  BY <1>2, TakersFinite, FS_AddElement
<1>6. \A k \in Listings : Taken(k)' = Cardinality(Settled(k)') + Cardinality(Bought(k)')
  BY DEF Taken, Settled, Bought
<1>7. Taken(l)' = Taken(l) + 1 /\ Taken(l) \in Int
  <2>1. /\ Cardinality(Settled(l)) \in Nat /\ Cardinality(Bought(l)) \in Nat
        /\ Taken(l) = Cardinality(Settled(l)) + Cardinality(Bought(l))
    BY TakersFinite
  <2>2. Taken(l)' = Cardinality(Settled(l)) + (Cardinality(Bought(l)) + 1)
    BY <1>2, <1>3, <1>5, <1>6
  <2>3. QED
    BY <2>1, <2>2
<1>8. \A k \in Listings \ {l} : Taken(k)' = Taken(k)
  BY <1>3, <1>4, <1>6, TakersFinite
<1>9. QED
  BY <1>1, <1>7, <1>8, UnitMoves DEF Inv

\* A refused charge gives the unit back.
LEMMA ReturnGivesOne ==
  ASSUME Inv, UnitsAccounted, NEW l \in Listings, NEW u \in StoreBuyers, ReturnUnit(l, u)
  PROVE  UnitsAccounted'
<1>1. /\ store[l][u] = "REFUSED" /\ store' = [store EXCEPT ![l][u] = "NONE"]
      /\ quantity' = [quantity EXCEPT ![l] = quantity[l] - (-1)]
      /\ stage' = stage /\ store \in [Listings -> [StoreBuyers -> StoreStages]]
  <2>1. quantity[l] \in Int /\ quantity' = [quantity EXCEPT ![l] = quantity[l] + 1]
    BY DEF ReturnUnit, Inv, TypeOK
  <2>2. quantity[l] + 1 = quantity[l] - (-1)
    BY <2>1
  <2>3. QED
    BY <2>1, <2>2 DEF ReturnUnit, Inv, TypeOK
<1>2. u \in Bought(l) /\ Bought(l)' = Bought(l) \ {u}
  BY <1>1 DEF Bought
<1>3. \A k \in Listings : Settled(k)' = Settled(k)
  BY <1>1 DEF Settled
<1>4. \A k \in Listings \ {l} : Bought(k)' = Bought(k)
  BY <1>1 DEF Bought
<1>5. Cardinality(Bought(l) \ {u}) = Cardinality(Bought(l)) - 1
  BY <1>2, TakersFinite, FS_RemoveElement
<1>6. \A k \in Listings : Taken(k)' = Cardinality(Settled(k)') + Cardinality(Bought(k)')
  BY DEF Taken, Settled, Bought
<1>7. Taken(l)' = Taken(l) + (-1) /\ Taken(l) \in Int
  <2>1. /\ Cardinality(Settled(l)) \in Nat /\ Cardinality(Bought(l)) \in Nat
        /\ Taken(l) = Cardinality(Settled(l)) + Cardinality(Bought(l))
    BY TakersFinite
  <2>2. Taken(l)' = Cardinality(Settled(l)) + (Cardinality(Bought(l)) - 1)
    BY <1>2, <1>3, <1>5, <1>6
  <2>3. QED
    BY <2>1, <2>2
<1>8. \A k \in Listings \ {l} : Taken(k)' = Taken(k)
  BY <1>3, <1>4, <1>6, TakersFinite
<1>9. QED
  BY <1>1, <1>7, <1>8, UnitMoves DEF Inv

\* UnitsAccounted is kept by every step.
LEMMA UnitsStep ==
  ASSUME Inv, UnitsAccounted, [Next]_vars
  PROVE  UnitsAccounted'
<1>0. /\ stage \in [Auctions -> Stages]
      /\ store \in [Listings -> [StoreBuyers -> StoreStages]]
  BY DEF Inv, TypeOK
<1>1. ASSUME UNCHANGED <<quantity, stage, store>>
      PROVE  UnitsAccounted'
  BY <1>1, UnitsRest DEF Settled, Bought
<1>2. ASSUME NEW a \in Auctions, Start(a) \/ Bid(a) PROVE UnitsAccounted'
  BY <1>1, <1>2 DEF Start, CreateAuction, StartAuction, Bid, LockForBid, AbortBid,
     AcceptBid, listingVars
<1>3. ASSUME NEW a \in Auctions, Settle(a) PROVE UnitsAccounted'
  <2>1. CASE CountUnit(a)
    BY <2>1, CountTakesOne
  <2>2. ASSUME UNCHANGED <<quantity, store>>, NEW s, stage' = [stage EXCEPT ![a] = s],
               (stage[a] \in {"NONE", "ORDERED", "FAILED", "CAPTURED"})
                 <=> (s \in {"NONE", "ORDERED", "FAILED", "CAPTURED"})
        PROVE  UnitsAccounted'
    BY <1>0, <2>2, UnitsRest DEF Settled, Bought
  <2>3. CASE OpenOrder(a)
    BY <2>2, <2>3 DEF OpenOrder, listingVars
  <2>4. CASE CaptureWin(a)
    BY <2>2, <2>4, CaptureKeepsCovered DEF CaptureWin, listingVars, Inv
  <2>5. CASE Relist(a)
    BY <2>2, <2>5 DEF Relist
  <2>6. CASE PrepayShipping(a)
    BY <2>2, <2>6 DEF PrepayShipping, listingVars
  <2>7. QED
    BY <1>3, <2>1, <2>3, <2>4, <2>5, <2>6 DEF Settle
<1>4. ASSUME NEW u \in Users, NEW m \in Moves, Move(u, m) PROVE UnitsAccounted'
  BY <1>1, <1>4 DEF Move, Credit, Debit, listingVars
<1>5. ASSUME NEW l \in Listings, NEW u \in StoreBuyers, Buy(l, u) PROVE UnitsAccounted'
  <2>1. CASE ClaimUnit(l, u)
    BY <2>1, ClaimTakesOne
  <2>2. CASE ReturnUnit(l, u)
    BY <2>2, ReturnGivesOne
  <2>3. ASSUME UNCHANGED <<quantity, stage>>, NEW s, s # "NONE", store[l][u] # "NONE",
               store' = [store EXCEPT ![l][u] = s]
        PROVE  UnitsAccounted'
    BY <1>0, <2>3, UnitsRest DEF Settled, Bought
  <2>4. CASE ChargeUnit(l, u)
    BY <2>3, <2>4 DEF ChargeUnit, listingVars
  <2>5. CASE CheckLast(l, u)
    BY <2>3, <2>5 DEF CheckLast, listingVars
  <2>6. CASE RetireListing(l, u)
    BY <2>3, <2>6 DEF RetireListing
  <2>7. QED
    BY <1>5, <2>1, <2>2, <2>4, <2>5, <2>6 DEF Buy
<1>6. CASE Tick \/ Scheduler \/ FailTick \/ UNCHANGED vars
  BY <1>1, <1>6 DEF Tick, Scheduler, PollDue, CloseOne, EndTick, FailTick, vars, listingVars
<1>7. CASE Crash
  <2>1. \A l \in Listings : Bought(l)' = Bought(l)
    BY <1>0, <1>7 DEF Crash, Bought, StoreStages
  <2>2. \A l \in Listings : Settled(l)' = Settled(l)
    BY <1>7 DEF Crash, Settled
  <2>3. QED
    BY <1>7, <2>1, <2>2, UnitsRest DEF Crash, listingVars
<1>8. QED
  BY <1>2, <1>3, <1>4, <1>5, <1>6, <1>7 DEF Next

\* What a listing has left, what its settled auctions took and what store buyers
\* hold add up to its stock (UnitsAccounted).
THEOREM UnitsAlwaysAccounted == Spec => []UnitsAccounted
<1>1. Init => UnitsAccounted
  <2> SUFFICES ASSUME Init, NEW l \in Listings PROVE quantity[l] + Taken(l) = Stock[l]
    BY DEF UnitsAccounted
  <2>1. Settled(l) = {} /\ Bought(l) = {}
    BY DEF Init, Settled, Bought
  <2>2. Taken(l) = 0
    BY <2>1, FS_EmptySet, TakersFinite
  <2>3. quantity[l] = Stock[l] /\ Stock[l] \in Nat
    BY MoneyAssumption DEF Init
  <2>4. QED
    BY <2>2, <2>3
<1>2. QED
  BY <1>1, UnitsStep, Invariance, PTL DEF Spec

-----------------------------------------------------------------------------
(* A won auction is in somebody's hands.                                   *)

\* The settlement of auction a has done all it does.
Finished(a) == stage[a] \in {"PREPAID", "UNPAID"} \/ (a \notin Market /\ stage[a] = "RELISTED")

\* While no pass failed and the process lived, a won auction is among the results
\* of the scheduler's pass or being settled until its settlement is done, and it is
\* never handed to settlement twice.
NoWinIsForgotten ==
  \A a \in Auctions :
    /\ faults = 0 /\ status[a] = "SETTLING" => a \in results \cup settling \/ Finished(a)
    /\ a \in results => stage[a] = "NONE" /\ a \notin settling
    /\ a \in settling => ~Finished(a)

\* What a pass works on, while it runs.
PassFits ==
  /\ due \cup results # {} => ticking
  /\ \A a \in results : status[a] \in {"SETTLING", "CLOSED"}

InHand == PassFits /\ NoWinIsForgotten

\* Steps of nobody who has a hand in it.
LEMMA HandsRest ==
  ASSUME InHand, UNCHANGED <<status, stage, ticking, due, results, settling>>,
         faults' = 0 => faults = 0
  PROVE  InHand'
BY DEF InHand, PassFits, NoWinIsForgotten, Finished

LEMMA SettleKeepsHands ==
  ASSUME Inv, InHand, NEW a \in Auctions, Settle(a)
  PROVE  InHand'
<1>1. /\ stage \in [Auctions -> Stages] /\ settling \subseteq Auctions
      /\ stage[a] # "FAILED"
  BY DEF Inv, TypeOK, Phases
<1>2. /\ a \in settling /\ UNCHANGED <<status, ticking, due, results, faults>>
      /\ \E s \in Stages \ {"NONE"} : stage' = [stage EXCEPT ![a] = s]
      /\ settling' = IF Finished(a)' THEN settling \ {a} ELSE settling
  <2>1. CASE OpenOrder(a)
    BY <1>1, <2>1 DEF OpenOrder, Stages, auctionVars, memoryVars, Finished
  <2>2. CASE CaptureWin(a)
    <3>1. /\ stage' = [stage EXCEPT ![a] = "CAPTURED"] /\ settling' = settling
          /\ a \in settling /\ UNCHANGED <<status, ticking, due, results, faults>>
      BY <2>2, CaptureKeepsCovered DEF CaptureWin, auctionVars, Inv
    <3>2. QED
      BY <1>1, <3>1 DEF Stages, Finished
  <2>3. CASE CountUnit(a)
    BY <1>1, <2>3 DEF CountUnit, Stages, auctionVars, Finished
  <2>4. CASE Relist(a)
    BY <1>1, <2>4 DEF Relist, Stages, auctionVars, Finished
  <2>5. CASE PrepayShipping(a)
    BY <1>1, <2>5 DEF PrepayShipping, Stages, auctionVars, Finished
  <2>6. QED
    BY <2>1, <2>2, <2>3, <2>4, <2>5 DEF Settle
<1>3. a \notin results
  BY <1>2 DEF InHand, NoWinIsForgotten
<1>4. /\ \A b \in Auctions \ {a} : stage'[b] = stage[b]
      /\ stage'[a] # "NONE"
  BY <1>1, <1>2
<1>5. \A b \in Auctions \ {a} : /\ Finished(b)' <=> Finished(b)
                                /\ b \in settling' <=> b \in settling
  BY <1>2, <1>4 DEF Finished
<1>6. a \in settling' <=> ~Finished(a)'
  BY <1>2
<1>7. PassFits'
  BY <1>2 DEF InHand, PassFits
<1>8. NoWinIsForgotten'
  BY <1>2, <1>3, <1>4, <1>5, <1>6 DEF InHand, NoWinIsForgotten
<1>9. QED
  BY <1>7, <1>8 DEF InHand

LEMMA SchedulerKeepsHands ==
  ASSUME Inv, InHand, Scheduler
  PROVE  InHand'
<1>1. /\ status \in [Auctions -> AuctionStatus] /\ results \subseteq Auctions
      /\ \A a \in Auctions : /\ stage[a] # "NONE" => status[a] = "SETTLING"
                             /\ a \in settling => status[a] = "SETTLING"
  BY DEF Inv, TypeOK, Phases
<1>2. CASE PollDue
  <2>1. /\ ticking' = TRUE /\ results' = {} /\ results = {}
        /\ UNCHANGED <<status, stage, settling, faults>>
    BY <1>2 DEF PollDue, InHand, PassFits, auctionVars
  <2>2. QED
    BY <2>1 DEF InHand, PassFits, NoWinIsForgotten, Finished
<1>3. ASSUME NEW a \in Auctions, CloseOne(a) PROVE InHand'
  <2>1. /\ due' \subseteq due /\ UNCHANGED <<stage, ticking, settling, faults>>
        /\ ticking
    BY <1>3 DEF CloseOne, InHand, PassFits
  <2>2. CASE status' = status /\ results' = results
    BY <2>1, <2>2 DEF InHand, PassFits, NoWinIsForgotten, Finished
  <2>3. CASE /\ status[a] = "RUNNING" /\ results' = results \cup {a}
             /\ \E s \in {"SETTLING", "CLOSED"} : status' = [status EXCEPT ![a] = s]
    <3>1. /\ status'[a] \in {"SETTLING", "CLOSED"}
          /\ \A b \in Auctions \ {a} : status'[b] = status[b]
      BY <1>1, <2>3
    <3>2. stage[a] = "NONE" /\ a \notin settling
      BY <1>1, <2>3
    <3>3. PassFits'
      BY <2>1, <2>3, <3>1 DEF InHand, PassFits
    <3>4. NoWinIsForgotten'
      BY <2>1, <2>3, <3>1, <3>2 DEF InHand, NoWinIsForgotten, Finished
    <3>5. QED
      BY <3>3, <3>4 DEF InHand
  <2>4. QED
    BY <1>3, <2>2, <2>3 DEF CloseOne, StillDue
<1>4. CASE EndTick
  <2>1. /\ due' = {} /\ results' = {}
        /\ UNCHANGED <<status, stage, faults>>
        /\ settling' = settling \cup {a \in results : status[a] = "SETTLING"}
    BY <1>4 DEF EndTick, auctionVars
  <2>2. \A a \in results : ~Finished(a)
    BY <1>1 DEF InHand, NoWinIsForgotten, Finished
  <2>3. QED
    BY <2>1, <2>2 DEF InHand, PassFits, NoWinIsForgotten, Finished
<1>5. QED
  BY <1>2, <1>3, <1>4 DEF Scheduler

LEMMA HandsStep == Inv /\ InHand /\ [Next]_vars => InHand'
<1> SUFFICES ASSUME Inv, InHand, [Next]_vars PROVE InHand'
  OBVIOUS
<1>1. ASSUME NEW a \in Auctions, Start(a) PROVE InHand'
  <2>1. PICK s \in {"PENDING", "RUNNING"} : status' = [status EXCEPT ![a] = s]
    BY <1>1 DEF Start, CreateAuction, StartAuction
  <2>2. /\ UNCHANGED <<stage, ticking, due, results, settling, faults>>
        /\ status[a] \in {"NONE", "PENDING"}
    BY <1>1 DEF Start, CreateAuction, StartAuction, memoryVars
  <2>3. /\ status'[a] = s /\ \A b \in Auctions \ {a} : status'[b] = status[b]
    BY <2>1 DEF Inv, TypeOK
  <2>4. a \notin results
    BY <2>2 DEF InHand, PassFits
  <2>5. PassFits'
    BY <2>2, <2>3, <2>4 DEF InHand, PassFits, Inv, TypeOK
  <2>6. NoWinIsForgotten'
    BY <2>2, <2>3 DEF InHand, NoWinIsForgotten, Finished
  <2>7. QED
    BY <2>5, <2>6 DEF InHand
<1>2. ASSUME NEW a \in Auctions, Bid(a) PROVE InHand'
  BY <1>2, HandsRest DEF Bid, LockForBid, AbortBid, AcceptBid, auctionVars, memoryVars
<1>3. ASSUME NEW a \in Auctions, Settle(a) PROVE InHand'
  BY <1>3, SettleKeepsHands
<1>4. ASSUME NEW u \in Users, NEW m \in Moves, Move(u, m) PROVE InHand'
  BY <1>4, HandsRest DEF Move, Credit, Debit, auctionVars, memoryVars
<1>5. ASSUME NEW l \in Listings, NEW u \in StoreBuyers, Buy(l, u) PROVE InHand'
  BY <1>5, HandsRest DEF Buy, ClaimUnit, ChargeUnit, ReturnUnit, CheckLast, RetireListing,
    auctionVars, memoryVars
<1>6. CASE Tick
  BY <1>6, HandsRest DEF Tick, memoryVars
<1>7. CASE Scheduler
  BY <1>7, SchedulerKeepsHands
<1>8. CASE FailTick
  <2>1. /\ due' = {} /\ results' = {} /\ faults' # 0
        /\ UNCHANGED <<status, stage, settling>>
    BY <1>8 DEF FailTick, auctionVars, Inv, TypeOK
  <2>2. QED
    BY <2>1 DEF InHand, PassFits, NoWinIsForgotten, Finished
<1>9. CASE Crash
  <2>1. /\ due' = {} /\ results' = {} /\ settling' = {} /\ faults' # 0
    BY <1>9 DEF Crash, Inv, TypeOK
  <2>2. QED
    BY <2>1 DEF InHand, PassFits, NoWinIsForgotten
<1>10. CASE UNCHANGED vars
  BY <1>10, HandsRest DEF vars, auctionVars, memoryVars
<1>11. QED
  BY <1>1, <1>2, <1>3, <1>4, <1>5, <1>6, <1>7, <1>8, <1>9, <1>10 DEF Next

\* For any number of auctions and bidders: until a pass of the scheduler fails or
\* the process dies, no won auction is lost between the scheduler, the close
\* callback and settlement, and none is settled twice; the half of EveryWinIsPaid
\* that needs no fairness (scheduler.ts, onAuctionsClosed, settleAuction).
THEOREM NoWinIsEverForgotten == Spec => []NoWinIsForgotten
<1>1. Init => InHand
  BY DEF Init, InHand, PassFits, NoWinIsForgotten
<1>2. Spec => []InHand
  BY <1>1, HandsStep, Invariance, PTL DEF Spec
<1>3. QED
  BY <1>2, PTL DEF InHand

=============================================================================
