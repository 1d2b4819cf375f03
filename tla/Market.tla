------------------------------- MODULE Market -------------------------------
(***************************************************************************)
(* Fixed-price marketplace listings and the offers made on them: offers.ts *)
(* (make, cancel, decline, counter, accept, expire) and the sale pipeline  *)
(* of market.ts that buy-now purchases and accepted offers share.          *)
(*                                                                         *)
(* A request reads a row and writes it back some awaits later; a guarded   *)
(* updateMany or a transaction is one step.  An offer reserves its amount  *)
(* and the shipping with a Hold.  Thread events, points and notifications  *)
(* are left out, except that they may throw.                               *)
(***************************************************************************)
EXTENDS Totals

CONSTANTS
  Users,        \* ids of buyers
  Listings,     \* ids of one seller's fixed-price marketplace listings
  Offers,       \* ids of Offer rows to come
  Orders,       \* ids of Order rows to come
  Requests,     \* bound: requests at the same time
  Passes,       \* bound: expireOffers passes at the same time
  None,         \* null
  Bidder, On, Amount,       \* offer.buyerId, listingId, amount
  Counter,      \* what the seller counters an offer with
  BuyNow, Ship, Stock,      \* of a listing; Ship is the lane of every buyer
  Funds,        \* settled balance of each user to begin with
  Moves,        \* sums users spend elsewhere
  MaxFaults     \* bound: errors and crashes

Slots == Requests \cup Passes

ASSUME MarketAssumption ==
  /\ IsFiniteSet(Offers) /\ IsFiniteSet(Orders) /\ IsFiniteSet(Slots)
  /\ Bidder \in [Offers -> Users] /\ On \in [Offers -> Listings]
  /\ Amount \in [Offers -> Nat \ {0}] /\ Counter \in [Offers -> Nat \ {0}]
  /\ BuyNow \in [Listings -> Nat \ {0}] /\ Ship \in [Listings -> Nat]
  /\ Stock \in [Listings -> Nat] /\ Funds \in [Users -> Nat]
  /\ Moves \subseteq Nat /\ MaxFaults \in Nat
  /\ None \notin Users \cup Listings \cup Offers \cup Orders

VARIABLES
  settled,      \* settled balance of each user
  offer,        \* offer.status
  held,         \* the status of an offer's Hold
  overdue,      \* offers past their expiresAt
  status, quantity,         \* of a listing
  order,        \* Order rows
  charged,      \* orders whose escrow-lock or direct-sale key is taken
  item,         \* the FulfillmentItem of an order
  shipPaid,     \* orders whose shipment's shipping key is taken
  job,          \* in memory: a request or pass and what it has read
  faults

moneyVars   == <<settled, charged, shipPaid>>
offerVars   == <<offer, held, overdue>>
listingVars == <<status, quantity>>
vars == <<moneyVars, offerVars, listingVars, order, item, job, faults>>

-----------------------------------------------------------------------------
(* Types.                                                                  *)

OfferStatus ==
  {"NONE", "PENDING", "COUNTERED", "ACCEPTED", "DECLINED", "CANCELED", "EXPIRED"}

HoldStatus == {"none", "ACTIVE", "RELEASED"}

\* LOCKED stands for RELEASED too, where the seller is paid at once.
OrderRows == [status : {"NONE", "PENDING_SETTLEMENT", "LOCKED"},
              listing : Listings \cup {None}, via : Offers \cup {None}]
NoOrder == [status |-> "NONE", listing |-> None, via |-> None]

\* The statement a handler has come to.
Labels == {"idle", "previous", "retire", "unhold", "close", "free",
           "counter", "claim", "yield", "unit", "order", "charge", "record",
           "undo", "putback", "stock", "sold", "goods", "ship", "pack", "link",
           "lapse", "next"}

\* o is the offer a request is about, row one it closes on the way; todo is the
\* rest of a list it has read; u, l, price and r are the sale's.
Jobs == [at : Labels, o : Offers \cup {None}, row : Offers \cup {None},
         to : OfferStatus, todo : SUBSET Offers, u : Users \cup {None},
         l : Listings \cup {None}, price : Nat, r : Orders \cup {None}]
Idle == [at |-> "idle", o |-> None, row |-> None, to |-> "NONE", todo |-> {},
         u |-> None, l |-> None, price |-> 0, r |-> None]

Init ==
  /\ settled = Funds
  /\ offer = [o \in Offers |-> "NONE"]
  /\ held = [o \in Offers |-> "none"]
  /\ overdue = {}
  /\ status = [l \in Listings |-> "QUEUED"]
  /\ quantity = Stock
  /\ order = [r \in Orders |-> NoOrder]
  /\ charged = {}
  /\ item = [r \in Orders |-> "none"]
  /\ shipPaid = {}
  /\ job = [k \in Slots |-> Idle]
  /\ faults = 0

-----------------------------------------------------------------------------
(* Rows and balances.                                                      *)

Free(k) == job[k] = Idle
At(k, at) == job[k].at = at
GoTo(k, at) == job' = [job EXCEPT ![k].at = at]
Done(k) == job' = [job EXCEPT ![k] = Idle]

Open(o) == offer[o] \in {"PENDING", "COUNTERED"}
OnSale(l) == status[l] = "QUEUED" /\ quantity[l] > 0

\* Slip: units are not counted.
Queued(l) == status[l] = "QUEUED"

\* The claim's WHERE clause.
UnitLeft(l) == status[l] = "QUEUED" /\ quantity[l] > 0

\* What an offer's Hold reserves.
Reserve(o) == Amount[o] + Ship[On[o]]
ActiveHolds(u) ==
  Total([o \in Offers |-> IF held[o] = "ACTIVE" /\ Bidder[o] = u THEN Reserve(o) ELSE 0],
        Offers)

\* Slip: reserves are not counted.
SettledOnly(u) == settled[u]

Available(u) == settled[u] - ActiveHolds(u)

\* Slip: holds are found by buyer and listing.
ReleasedByBuyer(o) ==
  [x \in Offers |-> IF held[x] = "ACTIVE" /\ Bidder[x] = Bidder[o] /\ On[x] = On[o]
                    THEN "RELEASED" ELSE held[x]]

\* releaseHold: updateMany WHERE offerId and ACTIVE.
Released(o) == [held EXCEPT ![o] = IF @ = "ACTIVE" THEN "RELEASED" ELSE @]

-----------------------------------------------------------------------------
(* makeOffer.                                                              *)

Fresh(o) == offer[o] = "NONE" /\ \A k \in Slots : job[k].o # o

MakeOffer(k, o) ==
  /\ Free(k)
  /\ Fresh(o)
  /\ OnSale(On[o]) /\ Amount[o] < BuyNow[On[o]]
  /\ job' = [job EXCEPT ![k] = [Idle EXCEPT !.at = "previous", !.o = o]]
  /\ UNCHANGED <<moneyVars, offerVars, listingVars, order, item, faults>>

\* The buyer's live offers on the listing, to be replaced.
FindPrevious(k) ==
  LET o == job[k].o IN
  /\ At(k, "previous")
  /\ job' = [job EXCEPT ![k].at = "retire",
                        ![k].todo = {p \in Offers : /\ Open(p)
                                                    /\ Bidder[p] = Bidder[o]
                                                    /\ On[p] = On[o]}]
  /\ UNCHANGED <<moneyVars, offerVars, listingVars, order, item, faults>>

\* Its hold is released next whether or not it was still open.
RetirePrevious(k) ==
  /\ At(k, "retire")
  /\ \E p \in job[k].todo :
       /\ offer' = IF Open(p) THEN [offer EXCEPT ![p] = "CANCELED"] ELSE offer
       /\ job' = [job EXCEPT ![k].at = "unhold", ![k].row = p,
                             ![k].todo = @ \ {p}]
  /\ UNCHANGED <<moneyVars, held, overdue, listingVars, order, item, faults>>

ReleasePrevious(k) ==
  /\ At(k, "unhold")
  /\ held' = Released(job[k].row)
  /\ GoTo(k, "retire")
  /\ UNCHANGED <<moneyVars, offer, overdue, listingVars, order, item, faults>>

\* The transaction under the account's row lock: the check, the offer, the hold.
ReserveOffer(k) ==
  LET o == job[k].o IN
  /\ At(k, "retire") /\ job[k].todo = {}
  /\ IF Available(Bidder[o]) >= Reserve(o)
     THEN /\ offer' = [offer EXCEPT ![o] = "PENDING"]
          /\ held' = [held EXCEPT ![o] = "ACTIVE"]
     ELSE UNCHANGED <<offer, held>>
  /\ Done(k)
  /\ UNCHANGED <<moneyVars, overdue, listingVars, order, item, faults>>

-----------------------------------------------------------------------------
(* respondOffer: cancel, decline and counter, each from a row it has read. *)

\* The buyer cancels or the seller declines; a buyer may decline a counter.
Close(k, o, to) ==
  /\ Free(k)
  /\ Open(o)
  /\ to \in {"CANCELED", "DECLINED"}
  /\ job' = [job EXCEPT ![k] = [Idle EXCEPT !.at = "close", !.row = o, !.to = to]]
  /\ UNCHANGED <<moneyVars, offerVars, listingVars, order, item, faults>>

CloseOffer(k) ==
  LET o == job[k].row IN
  /\ At(k, "close")
  /\ IF Open(o) THEN offer' = [offer EXCEPT ![o] = job[k].to] /\ GoTo(k, "free")
     ELSE Done(k) /\ UNCHANGED offer
  /\ UNCHANGED <<moneyVars, held, overdue, listingVars, order, item, faults>>

\* A request returns; an expireOffers pass goes on with its list.
FreeReserve(k) ==
  /\ At(k, "free")
  /\ held' = Released(job[k].row)
  /\ IF k \in Passes THEN GoTo(k, "next") ELSE Done(k)
  /\ UNCHANGED <<moneyVars, offer, overdue, listingVars, order, item, faults>>

StartCounter(k, o) ==
  /\ Free(k)
  /\ offer[o] = "PENDING"
  /\ Counter[o] > Amount[o] /\ Counter[o] <= BuyNow[On[o]]
  /\ job' = [job EXCEPT ![k] = [Idle EXCEPT !.at = "counter", !.row = o]]
  /\ UNCHANGED <<moneyVars, offerVars, listingVars, order, item, faults>>

\* The hold stays; the offer has another 48 hours.
CounterOffer(k) ==
  LET o == job[k].row IN
  /\ At(k, "counter")
  /\ IF offer[o] = "PENDING"
     THEN offer' = [offer EXCEPT ![o] = "COUNTERED"] /\ overdue' = overdue \ {o}
     ELSE UNCHANGED <<offer, overdue>>
  /\ Done(k)
  /\ UNCHANGED <<moneyVars, held, listingVars, order, item, faults>>

-----------------------------------------------------------------------------
(* respondOffer: accept.                                                   *)

\* Whoever may accept, at the price that is on the table when it is read.
Accept(k, o) ==
  LET l == On[o]
      price == IF offer[o] = "COUNTERED" THEN Counter[o] ELSE Amount[o]
  IN
  /\ Free(k)
  /\ Open(o)
  /\ IF OnSale(l)
     THEN /\ \/ offer[o] = "PENDING"
             \/ Available(Bidder[o]) + Reserve(o) >= price + Ship[l]
          /\ job' = [job EXCEPT ![k] =
               [Idle EXCEPT !.at = "claim", !.o = o, !.row = o, !.u = Bidder[o],
                            !.l = l, !.price = price]]
     ELSE job' = [job EXCEPT ![k] =
            [Idle EXCEPT !.at = "close", !.row = o, !.to = "EXPIRED"]]
  /\ UNCHANGED <<moneyVars, offerVars, listingVars, order, item, faults>>

ClaimOffer(k) ==
  LET o == job[k].o IN
  /\ At(k, "claim")
  /\ IF Open(o) THEN offer' = [offer EXCEPT ![o] = "ACCEPTED"] /\ GoTo(k, "yield")
     ELSE Done(k) /\ UNCHANGED offer
  /\ UNCHANGED <<moneyVars, held, overdue, listingVars, order, item, faults>>

\* The reserve is free for anything until the charge takes it.
YieldReserve(k) ==
  /\ At(k, "yield")
  /\ held' = Released(job[k].o)
  /\ GoTo(k, "unit")
  /\ UNCHANGED <<moneyVars, offer, overdue, listingVars, order, item, faults>>

\* Slip: the offer is left as it is.
LapseSilently(k) ==
  /\ At(k, "lapse")
  /\ Done(k)
  /\ UNCHANGED <<moneyVars, offerVars, listingVars, order, item, faults>>

\* The catch around settleMarketSale.
LapseOffer(k) ==
  LET o == job[k].o IN
  /\ At(k, "lapse")
  /\ offer' = IF offer[o] = "ACCEPTED" THEN [offer EXCEPT ![o] = "EXPIRED"] ELSE offer
  /\ Done(k)
  /\ UNCHANGED <<moneyVars, held, overdue, listingVars, order, item, faults>>

\* orderId is written on the offer.
LinkOrder(k) ==
  /\ At(k, "link")
  /\ Done(k)
  /\ UNCHANGED <<moneyVars, offerVars, listingVars, order, item, faults>>

-----------------------------------------------------------------------------
(* buyMarketItem and settleMarketSale.                                     *)

\* The total is asked for up front.
Buy(k, u, l) ==
  /\ Free(k)
  /\ OnSale(l)
  /\ Available(u) >= BuyNow[l] + Ship[l]
  /\ job' = [job EXCEPT ![k] =
       [Idle EXCEPT !.at = "unit", !.u = u, !.l = l, !.price = BuyNow[l]]]
  /\ UNCHANGED <<moneyVars, offerVars, listingVars, order, item, faults>>

\* The sale throws: an accepted offer's catch is next.
Lose(k) == IF job[k].o # None THEN GoTo(k, "lapse") ELSE Done(k)

ClaimUnit(k) ==
  LET l == job[k].l IN
  /\ At(k, "unit")
  /\ IF UnitLeft(l) THEN quantity' = [quantity EXCEPT ![l] = @ - 1] /\ GoTo(k, "order")
     ELSE Lose(k) /\ UNCHANGED quantity
  /\ UNCHANGED <<moneyVars, offerVars, status, order, item, faults>>

CreateOrder(k) ==
  /\ At(k, "order")
  /\ \E r \in Orders \ charged :
       /\ order[r] = NoOrder
       /\ order' = [order EXCEPT ![r] = [status |-> "PENDING_SETTLEMENT",
                                         listing |-> job[k].l, via |-> job[k].o]]
       /\ job' = [job EXCEPT ![k].at = "charge", ![k].r = r]
  /\ UNCHANGED <<moneyVars, offerVars, listingVars, item, faults>>

\* escrowLock or settleDirectSale, from the available balance only.
Charge(k) ==
  LET u == job[k].u IN
  /\ At(k, "charge")
  /\ IF Available(u) >= job[k].price
     THEN /\ settled' = [settled EXCEPT ![u] = @ - job[k].price]
          /\ charged' = charged \cup {job[k].r}
          /\ GoTo(k, "record")
     ELSE GoTo(k, "undo") /\ UNCHANGED <<settled, charged>>
  /\ UNCHANGED <<shipPaid, offerVars, listingVars, order, item, faults>>

RecordOrder(k) ==
  /\ At(k, "record")
  /\ order' = [order EXCEPT ![job[k].r].status = "LOCKED"]
  /\ GoTo(k, "stock")
  /\ UNCHANGED <<moneyVars, offerVars, listingVars, item, faults>>

\* The catch around the charge drops the order, then gives the unit back.
DropOrder(k) ==
  /\ At(k, "undo")
  /\ order' = [order EXCEPT ![job[k].r] = NoOrder]
  /\ GoTo(k, "putback")
  /\ UNCHANGED <<moneyVars, offerVars, listingVars, item, faults>>

PutBack(k) ==
  /\ At(k, "putback")
  /\ quantity' = [quantity EXCEPT ![job[k].l] = @ + 1]
  /\ Lose(k)
  /\ UNCHANGED <<moneyVars, offerVars, status, order, item, faults>>

ReadStock(k) ==
  /\ At(k, "stock")
  /\ GoTo(k, IF quantity[job[k].l] = 0 THEN "sold" ELSE "goods")
  /\ UNCHANGED <<moneyVars, offerVars, listingVars, order, item, faults>>

MarkSold(k) ==
  /\ At(k, "sold")
  /\ status' = [status EXCEPT ![job[k].l] = "SOLD"]
  /\ GoTo(k, "goods")
  /\ UNCHANGED <<moneyVars, offerVars, quantity, order, item, faults>>

CreateItem(k) ==
  /\ At(k, "goods")
  /\ item' = [item EXCEPT ![job[k].r] = "READY_TO_SHIP"]
  /\ GoTo(k, "ship")
  /\ UNCHANGED <<moneyVars, offerVars, listingVars, order, faults>>

\* The sale returns to acceptOffer or to the buyer.
Sold(k) == IF job[k].o # None THEN GoTo(k, "link") ELSE Done(k)

\* prepayMarketShipping; what it cannot pay waits in Ready-to-ship.
PrepayShipping(k) ==
  LET u == job[k].u  fee == Ship[job[k].l] IN
  /\ At(k, "ship")
  /\ IF Available(u) >= fee
     THEN /\ settled' = [settled EXCEPT ![u] = @ - fee]
          /\ shipPaid' = shipPaid \cup {job[k].r}
          /\ GoTo(k, "pack")
     ELSE Sold(k) /\ UNCHANGED <<settled, shipPaid>>
  /\ UNCHANGED <<charged, offerVars, listingVars, order, item, faults>>

PackItem(k) ==
  /\ At(k, "pack")
  /\ item' = [item EXCEPT ![job[k].r] = "IN_SHIPMENT"]
  /\ Sold(k)
  /\ UNCHANGED <<moneyVars, offerVars, listingVars, order, faults>>

-----------------------------------------------------------------------------
(* expireOffers, the seller, the clock, and the rest of the system.        *)

\* Slip: counters are left to the buyer.
StartPassPending(k) ==
  LET due == {o \in overdue : offer[o] = "PENDING"} IN
  /\ Free(k)
  /\ due # {}
  /\ job' = [job EXCEPT ![k] = [Idle EXCEPT !.at = "next", !.todo = due]]
  /\ UNCHANGED <<moneyVars, offerVars, listingVars, order, item, faults>>

StartPass(k) ==
  LET due == {o \in overdue : Open(o)} IN
  /\ Free(k)
  /\ due # {}
  /\ job' = [job EXCEPT ![k] = [Idle EXCEPT !.at = "next", !.todo = due]]
  /\ UNCHANGED <<moneyVars, offerVars, listingVars, order, item, faults>>

\* An offer that was closed since the list was read is passed over.
ExpireNext(k) ==
  /\ At(k, "next")
  /\ \E o \in job[k].todo :
       IF Open(o)
       THEN /\ offer' = [offer EXCEPT ![o] = "EXPIRED"]
            /\ job' = [job EXCEPT ![k].at = "free", ![k].row = o,
                                  ![k].todo = @ \ {o}]
       ELSE job' = [job EXCEPT ![k].todo = @ \ {o}] /\ UNCHANGED offer
  /\ UNCHANGED <<moneyVars, held, overdue, listingVars, order, item, faults>>

EndPass(k) ==
  /\ At(k, "next") /\ job[k].todo = {}
  /\ Done(k)
  /\ UNCHANGED <<moneyVars, offerVars, listingVars, order, item, faults>>

FallDue(o) ==
  /\ Open(o) /\ o \notin overdue
  /\ overdue' = overdue \cup {o}
  /\ UNCHANGED <<moneyVars, offer, held, listingVars, order, item, job, faults>>

\* delistMarketListing: one guarded statement.
Delist(l) ==
  /\ UnitLeft(l)
  /\ status' = [status EXCEPT ![l] = "CANCELED"]
  /\ UNCHANGED <<moneyVars, offerVars, quantity, order, item, job, faults>>

\* A debit elsewhere: a withdrawal, a store purchase.
Spend(u, n) ==
  /\ Available(u) >= n
  /\ settled' = [settled EXCEPT ![u] = @ - n]
  /\ UNCHANGED <<charged, shipPaid, offerVars, listingVars, order, item, job, faults>>

-----------------------------------------------------------------------------
(* Faults.                                                                 *)

\* A statement throws before it has any effect.
Fail(k) ==
  /\ faults < MaxFaults /\ ~Free(k)
  /\ faults' = faults + 1
  /\ \/ At(k, "charge") /\ GoTo(k, "undo")
     \/ At(k, "record") /\ GoTo(k, "undo")
     \/ At(k, "undo") /\ GoTo(k, "putback")
     \/ job[k].at \in {"unit", "order", "putback", "stock", "sold", "goods", "link"} /\ Lose(k)
     \/ job[k].at \in {"ship", "pack"} /\ Sold(k)
     \/ /\ job[k].at \in {"previous", "retire", "unhold", "close", "free",
                          "counter", "claim", "yield", "lapse", "next"}
        /\ Done(k)
  /\ UNCHANGED <<moneyVars, offerVars, listingVars, order, item>>

Crash ==
  /\ faults < MaxFaults
  /\ \E k \in Slots : ~Free(k)
  /\ job' = [k \in Slots |-> Idle]
  /\ faults' = faults + 1
  /\ UNCHANGED <<moneyVars, offerVars, listingVars, order, item>>

Start(k) ==
  \/ \E o \in Offers :
       \/ MakeOffer(k, o) \/ StartCounter(k, o) \/ Accept(k, o)
       \/ \E to \in OfferStatus : Close(k, o, to)
  \/ \E u \in Users, l \in Listings : Buy(k, u, l)

Step(k) ==
  \/ FindPrevious(k) \/ RetirePrevious(k) \/ ReleasePrevious(k)
  \/ ReserveOffer(k) \/ CloseOffer(k) \/ FreeReserve(k) \/ CounterOffer(k)
  \/ ClaimOffer(k) \/ YieldReserve(k) \/ LapseOffer(k) \/ LinkOrder(k)
  \/ ClaimUnit(k) \/ CreateOrder(k) \/ Charge(k) \/ RecordOrder(k) \/ DropOrder(k)
  \/ PutBack(k) \/ ReadStock(k) \/ MarkSold(k) \/ CreateItem(k) \/ PrepayShipping(k)
  \/ PackItem(k) \/ ExpireNext(k) \/ EndPass(k)

Next ==
  \/ \E k \in Requests : Start(k)
  \/ \E k \in Passes : StartPass(k)
  \/ \E k \in Slots : Step(k) \/ Fail(k)
  \/ \E o \in Offers : FallDue(o)
  \/ \E l \in Listings : Delist(l)
  \/ \E u \in Users, n \in Moves : Spend(u, n)
  \/ Crash

Spec == Init /\ [][Next]_vars

\* Handlers run on, offers fall due in time, and setInterval starts the passes.
Fairness ==
  /\ \A k \in Slots : WF_vars(Step(k))
  /\ \A k \in Passes : WF_vars(StartPass(k))
  /\ \A o \in Offers : WF_vars(FallDue(o))

FairSpec == Spec /\ Fairness

-----------------------------------------------------------------------------
(* Properties.                                                             *)

\* Every row, balance and handler is in its range.
TypeOK ==
  /\ settled \in [Users -> Nat]
  /\ offer \in [Offers -> OfferStatus] /\ held \in [Offers -> HoldStatus]
  /\ overdue \subseteq Offers
  /\ status \in [Listings -> {"QUEUED", "SOLD", "CANCELED"}]
  /\ quantity \in [Listings -> Nat]
  /\ order \in [Orders -> OrderRows] /\ charged \subseteq Orders
  /\ item \in [Orders -> {"none", "READY_TO_SHIP", "IN_SHIPMENT"}]
  /\ shipPaid \subseteq Orders
  /\ job \in [Slots -> Jobs]
  /\ faults \in 0..MaxFaults

\* Reserves are real money: what a user's offers hold is always in their
\* settled balance, whatever else they spend (offers.ts:112-133).
HoldsCovered == \A u \in Users : ActiveHolds(u) <= settled[u]

\* An offer a seller can still accept is backed: no handler, replacement or
\* crash releases the hold of an offer that is open (offers.ts:13).
OpenOffersAreBacked ==
  \A o \in Offers : offer[o] \in {"PENDING", "COUNTERED"} => held[o] = "ACTIVE"

\* No unit is sold twice: the units on sale are never more than those that no
\* standing order has taken, however purchases, acceptances, rollbacks, delists
\* and errors interleave (market.ts:703-707, 751-752).
StandingOrders(l) == {r \in Orders : order[r].listing = l /\ order[r].status = "LOCKED"}
NeverOversold ==
  \A l \in Listings : quantity[l] \in 0..(Stock[l] - Cardinality(StandingOrders(l)))

\* Once its handlers are through, an offer is ACCEPTED exactly if the buyer was
\* charged for an order that stands; whoever loses the race for the unit or the
\* money ends EXPIRED and uncharged (offers.ts:300-319).
AcceptedMeansSold ==
  faults = 0 =>
    \A o \in Offers : (\A k \in Slots : job[k].o # o) =>
      ((offer[o] = "ACCEPTED") <=>
         \E r \in charged : order[r].via = o /\ order[r].status = "LOCKED")

\* Every reserve comes back without anybody's help, unless a fault has cut a
\* handler off between the claim and the release (offers.ts:325-359).
EveryReserveComesBack ==
  \A o \in Offers : (held[o] = "ACTIVE") ~> (held[o] # "ACTIVE" \/ faults > 0)

=============================================================================
