------------------------------ MODULE Auction ------------------------------
(***************************************************************************)
(* The live-auction core of the backend: the bid pipeline (auction.ts),    *)
(* the balance and hold rules it leans on (ledger.ts), the scheduler that  *)
(* closes due auctions (scheduler.ts), the settlement that the close       *)
(* callback starts (realtime/server.ts, orders.ts), and the store that     *)
(* sells the same units outright (store.ts), over the durable state in     *)
(* Postgres and the in-memory state of one Node process.                   *)
(*                                                                         *)
(* Money is in cents.  Time is in units of the clock, Second of them to a  *)
(* second (1000 in the code), and relative: left[a] is auction.endsAt      *)
(* minus the clock, so no absolute time is needed.                         *)
(***************************************************************************)
EXTENDS Totals

CONSTANTS
  Auctions,      \* ids of auction rows
  Users,         \* ids of users, each with an account
  Listings,      \* ids of listing rows
  NoUser,        \* currentLeaderUserId = null
  ListingOf,     \* auction.listingId
  Market,        \* the auctions started on a marketplace listing
  StartingBid,   \* auction.startingBid, in cents
  Stock,         \* initial listing.quantity
  StorePrice,    \* listing.buyNowPrice, in cents
  StoreBuyers,   \* the users who shop in the store
  Funds,         \* initial settled balance of each user
  Prices,        \* amounts a client may send, in cents
  Shippings,     \* shipping prices of the marketplace regions, in cents
  Moves,         \* amounts of the other credits and debits of an account
  Second,        \* units of the clock in a second
  Duration,      \* auction.durationSeconds, in units
  MarketFloor,   \* antiSnipeFloorMs, in units
  Lag,           \* bound: units a bid transaction may stay open
  MaxFunds,      \* bound: a credit never lifts a balance above this
  MaxFaults      \* bound: crashes and failed scheduler passes together

ASSUME FiniteAssumption ==
  IsFiniteSet(Auctions) /\ IsFiniteSet(Users) /\ IsFiniteSet(Listings)

ASSUME IdsAssumption ==
  /\ NoUser \notin Users
  /\ Market \subseteq Auctions
  /\ StoreBuyers \subseteq Users
  /\ ListingOf \in [Auctions -> Listings]

ASSUME MoneyAssumption ==
  /\ StartingBid \in [Auctions -> Nat \ {0}]
  /\ Stock \in [Listings -> Nat]
  /\ StorePrice \in [Listings -> Nat \ {0}]
  /\ Funds \in [Users -> Nat]
  /\ Prices \subseteq Nat \ {0}
  /\ Shippings \subseteq Nat
  /\ Moves \subseteq Nat \ {0}

ASSUME BoundsAssumption ==
  /\ Second \in Nat \ {0} /\ Duration \in Nat \ {0} /\ MarketFloor \in Nat /\ Lag \in Nat
  /\ MaxFunds \in Nat /\ MaxFaults \in Nat

VARIABLES
  \* durable: the Auction, Bid, Hold, LedgerEntry, Listing and Order tables
  status, leader, currentBid, left,   \* of an auction
  bids, hold,                         \* the bid rows, the ACTIVE holds
  settled,                            \* the sum of a user's ledger entries
  lstatus, quantity,                  \* of a listing
  stage,                              \* how far an auction's order has come
  store,                              \* a user's store purchase of a listing
  \* in memory
  pending,                            \* the bid transaction open on an auction
  ticking, due, results,              \* the scheduler's pass
  settling, seen,                     \* the settlements running
  faults

auctionVars == <<status, leader, currentBid, left>>
moneyVars   == <<bids, hold, settled>>
listingVars == <<lstatus, quantity>>
memoryVars  == <<ticking, due, results, settling, seen>>
vars == <<auctionVars, moneyVars, listingVars, stage, store, pending, memoryVars,
          faults>>

-----------------------------------------------------------------------------
(* The rules shared with the client: packages/shared/src/auction.ts.       *)

Larger(x, y)  == IF x >= y THEN x ELSE y
Smaller(x, y) == IF x <= y THEN x ELSE y

IncrementFloor == 100        \* $1
Tier50  == 5000
Tier150 == 15000

minIncrement(bid) ==
  IF bid >= Tier150 THEN 500
  ELSE IF bid >= Tier50 THEN 200
  ELSE Larger((bid * 500) \div 10000, IncrementFloor)

\* Slip: the increment is forgotten.
minNextBidFlat(bid, starting) == IF bid = 0 THEN starting ELSE bid

minNextBid(bid, starting) ==
  IF bid = 0 THEN starting ELSE bid + minIncrement(bid)

\* A nudge of two seconds with less than three left, of one second otherwise.
Bump(r) == IF r < 3 * Second THEN 2 * Second ELSE Second

\* Slip: the cap at five seconds is forgotten.
antiSnipeUncapped(r) == IF r > 5 * Second THEN r ELSE r + Bump(r)

antiSnipeRemaining(r) ==
  IF r > 5 * Second THEN r ELSE Smaller(r + Bump(r), 5 * Second)

\* The remaining time after a bid accepted with r seconds left.
NewRemaining(a, r) ==
  IF a \in Market THEN Larger(r, MarketFloor) ELSE antiSnipeRemaining(r)

-----------------------------------------------------------------------------
(* Balances: ledger.ts.                                                    *)

\* The sum of the ACTIVE holds of a user.
activeHolds(u) == Total([a \in Auctions |-> hold[a][u]], Auctions)

\* Slip: the settled balance is taken for the available one.
availableIgnoringHolds(u) == settled[u]

available(u) == settled[u] - activeHolds(u)

\* Slip: the funds check is dropped.
Unchecked(u, m) == TRUE

\* The check behind every InsufficientFundsError outside a hold's capture.
Affords(u, m) == available(u) >= m

-----------------------------------------------------------------------------
(* Types.                                                                  *)

None == [user |-> NoUser, amount |-> 0, ship |-> 0, lag |-> 0]

OpenBid == [user : Users, amount : Prices, ship : Shippings \cup {0}, lag : Nat]
BidRow  == [user : Users, amount : Prices, ship : Shippings \cup {0},
            st : {"ACTIVE", "OUTBID", "WON"}]

AuctionStatus == {"NONE", "PENDING", "RUNNING", "SETTLING", "CLOSED"}
ListingStatus == {"QUEUED", "LIVE", "SOLD", "UNSOLD"}

StoreStages == {"NONE", "CLAIMED", "REFUSED", "CHARGED", "LAST", "DONE", "ORPHANED"}

\* How far the settlement of an auction has durably come.
Stages == {"NONE", "ORDERED", "FAILED", "CAPTURED", "COUNTED", "RELISTED",
           "PREPAID", "UNPAID"}

Init ==
  /\ status = [a \in Auctions |-> "NONE"]
  /\ leader = [a \in Auctions |-> NoUser]
  /\ currentBid = [a \in Auctions |-> 0]
  /\ left = [a \in Auctions |-> 0]
  /\ bids = [a \in Auctions |-> {}]
  /\ hold = [a \in Auctions |-> [u \in Users |-> 0]]
  /\ settled = Funds
  /\ lstatus = [l \in Listings |-> "QUEUED"]
  /\ quantity = Stock
  /\ stage = [a \in Auctions |-> "NONE"]
  /\ store = [l \in Listings |-> [u \in StoreBuyers |-> "NONE"]]
  /\ pending = [a \in Auctions |-> None]
  /\ ticking = FALSE
  /\ due = {}
  /\ results = {}
  /\ settling = {}
  /\ seen = [a \in Auctions |-> 0]
  /\ faults = 0

-----------------------------------------------------------------------------
(* The seller starts an auction: sellers.ts, auction.ts.                   *)

\* The listing is checked without a lock; the row is inserted PENDING.
CreateAuction(a) ==
  /\ status[a] = "NONE"
  /\ quantity[ListingOf[a]] > 0
  /\ lstatus[ListingOf[a]] = "QUEUED"
  /\ status' = [status EXCEPT ![a] = "PENDING"]
  /\ UNCHANGED <<leader, currentBid, left, moneyVars, listingVars, stage,
                 pending, memoryVars, faults, store>>

StartAuction(a) ==
  /\ status[a] = "PENDING"
  /\ status' = [status EXCEPT ![a] = "RUNNING"]
  /\ left' = [left EXCEPT ![a] = Duration]
  /\ lstatus' = [lstatus EXCEPT ![ListingOf[a]] = "LIVE"]
  /\ UNCHANGED <<leader, currentBid, moneyVars, quantity, stage, pending,
                 memoryVars, faults, store>>

-----------------------------------------------------------------------------
(* The bid pipeline: placeBid.  A bid holds the lock on the auction row    *)
(* from LockForBid to its commit or rollback; the clock is read once,      *)
(* under the lock, and the account is locked afterwards.                   *)

Locked(a) == pending[a] # None

\* Steps (1) to (4): a bid that fails a check returns without a trace.
LockForBid(a, u, amount, ship) ==
  /\ ~Locked(a)
  /\ status[a] = "RUNNING"
  /\ left[a] > 0
  /\ amount >= minNextBid(currentBid[a], StartingBid[a])
  /\ leader[a] # u
  /\ pending' = [pending EXCEPT
       ![a] = [user |-> u, amount |-> amount, ship |-> ship, lag |-> 0]]
  /\ UNCHANGED <<auctionVars, moneyVars, listingVars, stage, memoryVars, faults, store>>

\* Step (5) fails, or the transaction times out: rolled back.
AbortBid(a) ==
  /\ Locked(a)
  /\ \/ ~Affords(pending[a].user, pending[a].amount + pending[a].ship)
     \/ pending[a].lag = Lag
  /\ pending' = [pending EXCEPT ![a] = None]
  /\ UNCHANGED <<auctionVars, moneyVars, listingVars, stage, memoryVars, faults, store>>

\* Slip: the previous leader's hold is never released.
KeptHolds(a) == hold[a]

\* The ACTIVE holds of the auction after the previous one is released.
ReleasedHolds(a) ==
  LET holders == {u \in Users : hold[a][u] > 0} IN
  IF holders = {} THEN hold[a]
  ELSE [hold[a] EXCEPT ![CHOOSE u \in holders : TRUE] = 0]

\* Slip: the bid row is never updated.
NotDemoted(a, st) == bids[a]

\* The bid rows after the leader's ACTIVE bid has changed status.
Demoted(a, st) ==
  {IF b.user = leader[a] /\ b.st = "ACTIVE" THEN [b EXCEPT !.st = st] ELSE b :
     b \in bids[a]}

\* Steps (5) and (6), and the commit.
AcceptBid(a) ==
  LET p == pending[a]
      reserve == p.amount + p.ship
      read == left[a] + p.lag            \* remaining when the clock was read
      fresh == NewRemaining(a, read)
  IN
  /\ Locked(a)
  /\ Affords(p.user, reserve)
  /\ hold' = [hold EXCEPT ![a] =
       [ReleasedHolds(a) EXCEPT ![p.user] = @ + reserve]]
  /\ bids' = [bids EXCEPT ![a] = Demoted(a, "OUTBID") \cup
       {[user |-> p.user, amount |-> p.amount, ship |-> p.ship, st |-> "ACTIVE"]}]
  /\ left' = [left EXCEPT ![a] = IF fresh > read THEN fresh - p.lag ELSE @]
  /\ currentBid' = [currentBid EXCEPT ![a] = p.amount]
  /\ leader' = [leader EXCEPT ![a] = p.user]
  /\ pending' = [pending EXCEPT ![a] = None]
  /\ UNCHANGED <<status, settled, listingVars, stage, memoryVars, faults, store>>

-----------------------------------------------------------------------------
(* The rest of an account's life: every other credit and debit.            *)

Credit(u, m) ==
  /\ settled[u] + m <= MaxFunds
  /\ settled' = [settled EXCEPT ![u] = @ + m]
  /\ UNCHANGED <<auctionVars, bids, hold, listingVars, stage, pending, memoryVars,
                 faults, store>>

\* debit, a store purchase, a shipping payment: available balance only.
Debit(u, m) ==
  /\ Affords(u, m)
  /\ settled' = [settled EXCEPT ![u] = @ - m]
  /\ UNCHANGED <<auctionVars, bids, hold, listingVars, stage, pending, memoryVars,
                 faults, store>>

-----------------------------------------------------------------------------
(* Time, and the scheduler.                                                *)

\* A transaction is never open for longer than Lag.
Tick ==
  /\ \A a \in Auctions : Locked(a) => pending[a].lag < Lag
  /\ \E a \in Auctions : status[a] = "RUNNING" /\ left[a] > -Lag
  /\ left' = [a \in Auctions |->
       IF status[a] = "RUNNING" THEN Larger(left[a] - 1, -Lag) ELSE left[a]]
  /\ pending' = [a \in Auctions |->
       IF Locked(a) THEN [pending[a] EXCEPT !.lag = @ + 1] ELSE None]
  /\ UNCHANGED <<status, leader, currentBid, moneyVars, listingVars, stage,
                 memoryVars, faults, store>>

\* tick, up to the poll of closeDueAuctions: the overlap guard, then the read.
PollDue ==
  /\ ~ticking
  /\ LET found == {a \in Auctions : status[a] = "RUNNING" /\ left[a] <= 0} IN
     /\ found # {}
     /\ due' = found
  /\ ticking' = TRUE
  /\ results' = {}
  /\ UNCHANGED <<auctionVars, moneyVars, listingVars, stage, pending, settling,
                 seen, faults, store>>

\* Slip: the deadline is not read again under the lock.
DueWhenPolled(a) == status[a] = "RUNNING"

\* A late bid may have extended the deadline since the poll.
StillDue(a) == status[a] = "RUNNING" /\ left[a] <= 0

\* The transaction of closeOne, which re-checks under the lock.
CloseOne(a) ==
  LET l == ListingOf[a] IN
  /\ a \in due
  /\ ~Locked(a)
  /\ due' = due \ {a}
  /\ \/ /\ StillDue(a) /\ leader[a] # NoUser
        /\ status' = [status EXCEPT ![a] = "SETTLING"]
        /\ bids' = [bids EXCEPT ![a] = Demoted(a, "WON")]
        /\ lstatus' = [lstatus EXCEPT ![l] = "SOLD"]
        /\ results' = results \cup {a}
     \/ /\ StillDue(a) /\ leader[a] = NoUser
        /\ status' = [status EXCEPT ![a] = "CLOSED"]
        /\ lstatus' = [lstatus EXCEPT
             ![l] = IF quantity[l] > 0 THEN "QUEUED" ELSE "UNSOLD"]
        /\ results' = results \cup {a}
        /\ UNCHANGED bids
     \/ /\ ~StillDue(a)
        /\ UNCHANGED <<status, bids, lstatus, results>>
  /\ UNCHANGED <<leader, currentBid, left, hold, settled, quantity, stage, pending,
                 ticking, settling, seen, faults, store>>

\* Slip: ticking stays set, so the overlap guard blocks every later pass.
EndTickStuck ==
  /\ ticking
  /\ due = {}
  /\ settling' = settling \cup {a \in results : status[a] = "SETTLING"}
  /\ results' = {}
  /\ UNCHANGED <<auctionVars, moneyVars, listingVars, stage, pending, ticking, due,
                 seen, faults, store>>

\* Slip: the results of a pass never reach the close callback.
EndTickSilent ==
  /\ ticking
  /\ due = {}
  /\ ticking' = FALSE
  /\ results' = {}
  /\ UNCHANGED <<auctionVars, moneyVars, listingVars, stage, pending, due, settling,
                 seen, faults, store>>

\* Every due auction is done: onClose hands the results to settlement.
EndTick ==
  /\ ticking
  /\ due = {}
  /\ ticking' = FALSE
  /\ settling' = settling \cup {a \in results : status[a] = "SETTLING"}
  /\ results' = {}
  /\ UNCHANGED <<auctionVars, moneyVars, listingVars, stage, pending, due, seen,
                 faults, store>>

\* A closeOne throws: tick's catch drops the results of the whole pass.
FailTick ==
  /\ ticking
  /\ due # {}
  /\ faults < MaxFaults
  /\ faults' = faults + 1
  /\ ticking' = FALSE
  /\ due' = {}
  /\ results' = {}
  /\ UNCHANGED <<auctionVars, moneyVars, listingVars, stage, pending, settling, seen, store>>

-----------------------------------------------------------------------------
(* Settlement: settleAuction or settleAuctionDirect, one task per closed   *)
(* auction, one step per awaited transaction.                              *)

\* order.create; the unique auctionId makes it happen once.
OpenOrder(a) ==
  /\ a \in settling
  /\ stage[a] = "NONE"
  /\ stage' = [stage EXCEPT ![a] = "ORDERED"]
  /\ UNCHANGED <<auctionVars, moneyVars, listingVars, pending, memoryVars, faults, store>>

\* escrowLock or settleDirectSale: the hold is captured, then the settled
\* balance must cover the amount; if it does not, all of it is rolled back.
CaptureWin(a) ==
  LET u == leader[a] IN
  /\ a \in settling
  /\ stage[a] = "ORDERED"
  /\ IF settled[u] >= currentBid[a]
     THEN /\ hold' = [hold EXCEPT ![a][u] = 0]
          /\ settled' = [settled EXCEPT ![u] = @ - currentBid[a]]
          /\ stage' = [stage EXCEPT ![a] = "CAPTURED"]
          /\ UNCHANGED settling
     ELSE /\ stage' = [stage EXCEPT ![a] = "FAILED"]
          /\ settling' = settling \ {a}
          /\ UNCHANGED <<hold, settled>>
  /\ UNCHANGED <<auctionVars, bids, listingVars, pending, ticking, due, results,
                 seen, faults, store>>

\* quantity: { decrement: 1 }, which returns the new quantity.
CountUnit(a) ==
  LET l == ListingOf[a] IN
  /\ a \in settling
  /\ stage[a] = "CAPTURED"
  /\ quantity' = [quantity EXCEPT ![l] = @ - 1]
  /\ seen' = [seen EXCEPT ![a] = quantity[l] - 1]
  /\ stage' = [stage EXCEPT ![a] = "COUNTED"]
  /\ UNCHANGED <<auctionVars, moneyVars, lstatus, pending, ticking, due, results,
                 settling, faults, store>>

\* The second update, from the quantity the first one returned.
Relist(a) ==
  /\ a \in settling
  /\ stage[a] = "COUNTED"
  /\ lstatus' = [lstatus EXCEPT
       ![ListingOf[a]] = IF seen[a] > 0 THEN "QUEUED" ELSE "SOLD"]
  /\ stage' = [stage EXCEPT ![a] = "RELISTED"]
  /\ settling' = IF a \in Market THEN settling ELSE settling \ {a}
  /\ UNCHANGED <<auctionVars, moneyVars, quantity, pending, ticking, due, results,
                 seen, faults, store>>

WonBid(a) == CHOOSE b \in bids[a] : b.user = leader[a] /\ b.st = "WON"

\* prepayMarketShipping: best effort, from the available balance.
PrepayShipping(a) ==
  LET u == leader[a]
      paid == Affords(u, WonBid(a).ship)
  IN
  /\ a \in settling
  /\ a \in Market
  /\ stage[a] = "RELISTED"
  /\ settled' = IF paid THEN [settled EXCEPT ![u] = @ - WonBid(a).ship] ELSE settled
  /\ stage' = [stage EXCEPT ![a] = IF paid THEN "PREPAID" ELSE "UNPAID"]
  /\ settling' = settling \ {a}
  /\ UNCHANGED <<auctionVars, bids, hold, listingVars, pending, ticking, due,
                 results, seen, faults, store>>

-----------------------------------------------------------------------------
(* The store: purchaseListing, one step per awaited transaction.           *)

\* The guarded decrement; the order row is created PENDING_SETTLEMENT.
ClaimUnit(l, u) ==
  /\ store[l][u] = "NONE"
  /\ lstatus[l] = "QUEUED"
  /\ quantity[l] > 0
  /\ quantity' = [quantity EXCEPT ![l] = @ - 1]
  /\ store' = [store EXCEPT ![l][u] = "CLAIMED"]
  /\ UNCHANGED <<auctionVars, moneyVars, lstatus, stage, pending, memoryVars, faults>>

\* The charge, from the available balance; a refusal moves nothing.
ChargeUnit(l, u) ==
  LET paid == Affords(u, StorePrice[l]) IN
  /\ store[l][u] = "CLAIMED"
  /\ settled' = IF paid THEN [settled EXCEPT ![u] = @ - StorePrice[l]] ELSE settled
  /\ store' = [store EXCEPT ![l][u] = IF paid THEN "CHARGED" ELSE "REFUSED"]
  /\ UNCHANGED <<auctionVars, bids, hold, listingVars, stage, pending, memoryVars,
                 faults>>

\* Slip: the order is deleted and the claim forgotten.
ReturnNothing(l, u) ==
  /\ store[l][u] = "REFUSED"
  /\ store' = [store EXCEPT ![l][u] = "NONE"]
  /\ UNCHANGED <<auctionVars, moneyVars, listingVars, stage, pending, memoryVars,
                 faults>>

\* The catch of the charge: the order is deleted and the claim undone.
ReturnUnit(l, u) ==
  /\ store[l][u] = "REFUSED"
  /\ quantity' = [quantity EXCEPT ![l] = @ + 1]
  /\ store' = [store EXCEPT ![l][u] = "NONE"]
  /\ UNCHANGED <<auctionVars, moneyVars, lstatus, stage, pending, memoryVars, faults>>

\* The quantity is read again after the charge.
CheckLast(l, u) ==
  /\ store[l][u] = "CHARGED"
  /\ store' = [store EXCEPT ![l][u] = IF quantity[l] <= 0 THEN "LAST" ELSE "DONE"]
  /\ UNCHANGED <<auctionVars, moneyVars, listingVars, stage, pending, memoryVars,
                 faults>>

\* Sold the last unit: the listing is retired, whatever its status is by now.
RetireListing(l, u) ==
  /\ store[l][u] = "LAST"
  /\ lstatus' = [lstatus EXCEPT ![l] = "SOLD"]
  /\ store' = [store EXCEPT ![l][u] = "DONE"]
  /\ UNCHANGED <<auctionVars, moneyVars, quantity, stage, pending, memoryVars, faults>>

-----------------------------------------------------------------------------
\* The process dies: open transactions roll back, memory is gone.
Crash ==
  /\ faults < MaxFaults
  /\ faults' = faults + 1
  /\ pending' = [a \in Auctions |-> None]
  /\ ticking' = FALSE
  /\ due' = {}
  /\ results' = {}
  /\ settling' = {}
  /\ seen' = [a \in Auctions |-> 0]
  /\ store' = [l \in Listings |-> [u \in StoreBuyers |->
       CASE store[l][u] \in {"CLAIMED", "REFUSED"} -> "ORPHANED"
         [] store[l][u] \in {"CHARGED", "LAST"}    -> "DONE"
         [] OTHER                                  -> store[l][u]]]
  /\ UNCHANGED <<auctionVars, moneyVars, listingVars, stage>>

-----------------------------------------------------------------------------
(* The system.                                                             *)

Start(a) == CreateAuction(a) \/ StartAuction(a)

\* Only marketplace bids reserve shipping.
Bid(a) ==
  \/ \E u \in Users, amount \in Prices,
        ship \in IF a \in Market THEN Shippings ELSE {0} :
       LockForBid(a, u, amount, ship)
  \/ AbortBid(a)
  \/ AcceptBid(a)

Settle(a) ==
  \/ OpenOrder(a)
  \/ CaptureWin(a)
  \/ CountUnit(a)
  \/ Relist(a)
  \/ PrepayShipping(a)

Buy(l, u) ==
  \/ ClaimUnit(l, u)
  \/ ChargeUnit(l, u)
  \/ ReturnUnit(l, u)
  \/ CheckLast(l, u)
  \/ RetireListing(l, u)

Scheduler == PollDue \/ (\E a \in Auctions : CloseOne(a)) \/ EndTick

Move(u, m) == Credit(u, m) \/ Debit(u, m)

Next ==
  \/ \E a \in Auctions : Start(a) \/ Bid(a) \/ Settle(a)
  \/ \E u \in Users, m \in Moves : Move(u, m)
  \/ \E l \in Listings, u \in StoreBuyers : Buy(l, u)
  \/ Tick
  \/ Scheduler
  \/ FailTick
  \/ Crash

Spec == Init /\ [][Next]_vars

\* setInterval keeps polling, every awaited transaction ends, time passes.
Fairness ==
  /\ WF_vars(Tick)
  /\ WF_vars(PollDue)
  /\ WF_vars(EndTick)
  /\ \A a \in Auctions :
       /\ WF_vars(CloseOne(a))
       /\ WF_vars(AcceptBid(a) \/ AbortBid(a))
       /\ WF_vars(Settle(a))

FairSpec == Spec /\ Fairness

-----------------------------------------------------------------------------
(* What the system promises.                                               *)

\* Every variable keeps the shape its table or field has; settled balances of
\* users are never negative (ledger.ts: debits are checked under the lock).
TypeOK ==
  /\ status \in [Auctions -> AuctionStatus]
  /\ leader \in [Auctions -> Users \cup {NoUser}]
  /\ currentBid \in [Auctions -> Prices \cup {0}]
  /\ left \in [Auctions -> Int]
  /\ bids \in [Auctions -> SUBSET BidRow]
  /\ hold \in [Auctions -> [Users -> Nat]]
  /\ settled \in [Users -> Nat]
  /\ lstatus \in [Listings -> ListingStatus]
  /\ quantity \in [Listings -> Int]
  /\ stage \in [Auctions -> Stages]
  /\ store \in [Listings -> [StoreBuyers -> StoreStages]]
  /\ pending \in [Auctions -> OpenBid \cup {None}]
  /\ ticking \in BOOLEAN
  /\ due \in SUBSET Auctions
  /\ results \in SUBSET Auctions
  /\ settling \in SUBSET Auctions
  /\ seen \in [Auctions -> Int]
  /\ faults \in Nat

\* Nobody leads auctions worth more than they have: the ACTIVE holds of a user,
\* over all auctions, never exceed the settled balance, whatever bids, debits,
\* captures and crashes interleave (ledger.ts, getActiveHolds).
HoldsCovered == \A u \in Users : activeHolds(u) <= settled[u]

\* Exactly the leader's money is reserved, at least the bid, from the moment the
\* bid is accepted until settlement captures it: outbid users get theirs back
\* and no step in between frees the winner's (placeBid, closeOne, escrowLock).
Uncaptured(a) == stage[a] \in {"NONE", "ORDERED", "FAILED"}

LeaderHolds ==
  \A a \in Auctions, u \in Users :
    IF u = leader[a] /\ Uncaptured(a)
    THEN hold[a][u] >= currentBid[a]
    ELSE hold[a][u] = 0

\* Exactly one bid row of an auction stands, it is the leader's and the highest,
\* it is marked WON exactly when the auction is sold, and the hold is that bid
\* with its shipping (placeBid and closeOne against each other).
Standing(a) == {b \in bids[a] : b.st \in {"ACTIVE", "WON"}}

OneBidStands ==
  \A a \in Auctions :
    IF leader[a] = NoUser THEN bids[a] = {}
    ELSE \E b \in bids[a] :
           /\ Standing(a) = {b}
           /\ b.user = leader[a] /\ b.amount = currentBid[a]
           /\ b.st = "WON" <=> status[a] = "SETTLING"
           /\ \A c \in bids[a] \ {b} : c.amount < b.amount
           /\ Uncaptured(a) => hold[a][b.user] = b.amount + b.ship

\* The capture of a win never finds the winner short of money, so no won
\* auction is left with an order and no payment (settleAuction, escrowLock).
WinsAreFunded == \A a \in Auctions : stage[a] # "FAILED"

\* Units are neither made nor lost while the process lives: what a listing has
\* left, what settled auctions took and what store buyers hold add up to the
\* stock (settleAuction's decrement, purchaseListing's claim and its undo).
Taken(l) ==
  Cardinality({a \in Auctions : /\ ListingOf[a] = l
                                /\ stage[a] \notin {"NONE", "ORDERED", "FAILED", "CAPTURED"}})
    + Cardinality({u \in StoreBuyers : store[l][u] # "NONE"})

UnitsAccounted == \A l \in Listings : quantity[l] + Taken(l) = Stock[l]

\* The clock is fair to bidders: no auction leaves RUNNING while it has time
\* left, however stale the scheduler's poll is, and no bid pulls a deadline
\* forward (closeOne against placeBid).
NoEarlyClose ==
  [][\A a \in Auctions : status[a] = "RUNNING" =>
       /\ status'[a] # "RUNNING" => left[a] <= 0
       /\ left'[a] >= left[a] - 1]_vars

\* A bid on a live auction leaves the rivals more than two seconds to answer,
\* less the time its transaction took, however little was left when it came; a
\* bid that lengthens the auction leaves at most five seconds
\* (antiSnipeRemaining under a transaction that reads the clock early).
RivalsCanAnswer ==
  [][\A a \in Auctions \ Market : leader'[a] # leader[a] =>
       /\ left'[a] > 2 * Second - Lag
       /\ left'[a] > left[a] => left'[a] <= 5 * Second]_vars

\* Every auction that runs is closed by the scheduler, however many late bids
\* push its deadline back (closeDueAuctions, antiSnipeRemaining).
EveryAuctionCloses ==
  \A a \in Auctions :
    status[a] = "RUNNING" ~> status[a] \in {"SETTLING", "CLOSED"}

\* Every sold auction is paid for, when no pass of the scheduler fails and the
\* process does not die (scheduler.ts, onAuctionsClosed, settleAuction).
EveryWinIsPaid ==
  \A a \in Auctions : status[a] = "SETTLING" ~> ~Uncaptured(a)

\* The backend implements EnglishAuction: hold rows, locks, late transactions,
\* re-checked deadlines, lost scheduler passes and crashes are all invisible.
phase == [a \in Auctions |->
  CASE status[a] \in {"NONE", "PENDING"} -> "waiting"
    [] status[a] = "RUNNING"             -> "open"
    [] status[a] = "CLOSED"              -> "passed"
    [] OTHER -> IF Uncaptured(a) THEN "sold" ELSE "paid"]

English == INSTANCE EnglishAuction WITH price <- currentBid, worth <- settled

RunsEnglishAuctions == English!Spec

-----------------------------------------------------------------------------
(* What comments of the code promise and the code does not keep.           *)

\* auction.ts: the hold covers bid and shipping "so the win can charge both".
ShippingStaysReserved ==
  \A a \in Market :
    stage[a] \in {"CAPTURED", "COUNTED", "RELISTED"} =>
      Affords(leader[a], WonBid(a).ship)

\* store.ts: store sales "can't race the auction engine over the last unit".
EveryAuctionHasAUnit ==
  \A a \in Auctions :
    status[a] = "RUNNING" => quantity[ListingOf[a]] > 0

=============================================================================
