---------------------------- MODULE OrderEscrow ----------------------------
(***************************************************************************)
(* What happens to a sale after it is won, in escrow mode: the order and   *)
(* its money (orders.ts, escrow.ts, ledger.ts), the won item and the       *)
(* shipments that carry it (fulfillment.ts, tracking.ts), and the timers   *)
(* that finish what nobody else does (dev-server.ts).                      *)
(*                                                                         *)
(* Handlers, pollers and timers run concurrently in one process and every  *)
(* awaited statement is a step: a slot of job holds what one of them keeps *)
(* in memory between two statements.  Money is in cents.                   *)
(***************************************************************************)
EXTENDS Totals

CONSTANTS
  Orders,      \* won auctions, each with at most one order and one item
  Users,       \* ids of users, each with an account
  Shipments,   \* ids of shipment rows
  Slots,       \* bound: handlers running at the same time
  None,        \* null
  Buyer,       \* order.buyerId
  Seller,      \* order.sellerId
  Amount,      \* order.amount, in cents
  Kinds,       \* the kinds of listing sold, see Init
  ShipFee,     \* shipment.shippingFee, in cents
  Funds,       \* settled balance of each user when the auctions are won
  ByHand,      \* bound: orders an admin may mark shipped and delivered by hand
  MaxFaults    \* bound: database errors and crashes

ASSUME SetsAssumption ==
  /\ IsFiniteSet(Orders) /\ IsFiniteSet(Users)
  /\ Buyer \in [Orders -> Users] /\ Seller \in [Orders -> Users]
  /\ Kinds \subseteq {"stream", "marketplace", "nft"}
  /\ None \notin Orders /\ None \notin Shipments

ASSUME AmountsAssumption ==
  /\ Amount \in [Orders -> Nat \ {0}]
  /\ ShipFee \in Nat \ {0}
  /\ Funds \in [Users -> Nat]
  /\ MaxFaults \in Nat

VARIABLES
  \* durable: the Listing and Order tables
  kind,        \* listing.marketplace, listing.nft
  status,
  deadline,    \* noShipDeadline: "none", "running" or "past"
  window,      \* disputeWindowEndsAt, likewise
  recent,      \* releasedAt or refundedAt is less than a day ago
  \* durable: the FulfillmentItem and Shipment tables
  item, held,  \* held: heldUntil is "running" or "past"
  parcelOf,    \* item.shipmentId
  shipment,
  \* durable: the ledger
  locked,      \* the orders whose escrow-lock key is taken
  outcome,     \* what was posted under an order's escrow-settle key
  settled, escrow, buyback, fees,
  \* in memory
  job,
  faults

orderVars == <<kind, status, deadline, window, recent>>
goodsVars == <<item, held, parcelOf, shipment>>
moneyVars == <<locked, outcome, settled, escrow, buyback, fees>>
vars == <<orderVars, goodsVars, moneyVars, job, faults>>

-----------------------------------------------------------------------------
(* Money: money.ts and ledger.ts.                                          *)

\* splitSale: both fees are floored, the seller gets the remainder.
BuybackFee(amount)  == (amount * 400) \div 10000
PlatformFee(amount) == (amount * 100) \div 10000

\* Slip: the proceeds are floored as well.
ProceedsFloored(amount) == (amount * 9500) \div 10000

Proceeds(amount) == amount - BuybackFee(amount) - PlatformFee(amount)

\* The winning holds of a user that no escrowLock has captured yet.
holds(u) ==
  Total([o \in Orders |->
           IF Buyer[o] = u /\ o \notin locked THEN Amount[o] ELSE 0], Orders)

\* Every winner still has the money held for the wins (Auction, HoldsCovered).
ASSUME FundsAssumption ==
  \A u \in Users :
    Total([o \in Orders |-> IF Buyer[o] = u THEN Amount[o] ELSE 0], Orders) <= Funds[u]

available(u) == settled[u] - holds(u)

-----------------------------------------------------------------------------
(* Types.                                                                  *)

OrderStatus == {"NONE", "PENDING_SETTLEMENT", "LOCKED", "SHIPPED", "DISPUTE_WINDOW",
                "DISPUTED", "RELEASED", "REFUNDED", "CANCELED"}
ItemStatus == {"NONE", "READY_TO_SHIP", "IN_SHIPMENT", "SHIPPED", "DELIVERED", "DISCARDED"}
ShipmentStatus == {"NONE", "PENDING_PAYMENT", "PAID", "LABEL_PENDING", "LABEL_CREATED",
                   "SHIPPED", "DELIVERED"}

\* An errand is an order of a list that was read, and what to do with it.
Tasks   == {"settle", "pack", "SHIPPED", "DISPUTE_WINDOW", "dispute", "release",
            "refund", "discard"}
Errands == Orders \X Tasks

\* The statement a handler has come to.
Labels ==
  {"idle", "lock", "mark", "item", "prepay", "charge", "paid", "pack", "clock",
   "LABEL_PENDING", "LABEL_CREATED", "SHIPPED", "DELIVERED", "advance", "write",
   "dispute", "giveUp", "discard", "recover", "release", "cancel", "abandon",
   "refunded", "canceledItem", "forfeit", "forfeitedItem", "sweep", "sweptItem",
   "pay", "payDiscard", "payRecover", "payRelease", "payCancel", "payForfeit"}

\* todo is what is left of a list, order and task the errand at hand.
Jobs == [at : Labels, todo : SUBSET Errands, order : Orders \cup {None},
         task : Tasks \cup {"none"}, parcel : Shipments \cup {None}]

Idle == [at |-> "idle", todo |-> {}, order |-> None, task |-> "none", parcel |-> None]

Init ==
  /\ kind \in [Orders -> Kinds]
  /\ status = [o \in Orders |-> "NONE"]
  /\ deadline = [o \in Orders |-> "none"]
  /\ window = [o \in Orders |-> "none"]
  /\ recent = [o \in Orders |-> FALSE]
  /\ item = [o \in Orders |-> "NONE"]
  /\ held = [o \in Orders |-> "running"]
  /\ parcelOf = [o \in Orders |-> None]
  /\ shipment = [s \in Shipments |-> "NONE"]
  /\ locked = {}
  /\ outcome = [o \in Orders |-> "none"]
  /\ settled = Funds
  /\ escrow = 0 /\ buyback = 0 /\ fees = 0
  /\ job = [k \in Slots |-> Idle]
  /\ faults = 0

-----------------------------------------------------------------------------
(* The steps of a slot.                                                    *)

Free(k) == job[k] = Idle

At(k, at) == job[k].at = at

\* A new handler, with its first statement done.
Begin(k, at, o, task) ==
  /\ Free(k)
  /\ job' = [job EXCEPT ![k] = [Idle EXCEPT !.at = at, !.order = o, !.task = task]]

GoTo(k, at) == job' = [job EXCEPT ![k].at = at]

\* The handler returns or throws.
End(k) == job' = [job EXCEPT ![k] = Idle]

\* Back to the head of a loop.
Loop(k, at) ==
  job' = [job EXCEPT ![k] = [@ EXCEPT !.at = at, !.order = None, !.task = "none"]]

\* The loop leaves this errand alone.
Skip(k, e) == job' = [job EXCEPT ![k].todo = @ \ {e}]

\* The loop takes up this errand.
Take(k, e, at) ==
  job' = [job EXCEPT ![k] =
    [job[k] EXCEPT !.at = at, !.todo = @ \ {e}, !.order = e[1], !.task = e[2]]]

\* A write of the status of an order, with its timestamp.
Write(o, st) ==
  /\ status' = [status EXCEPT ![o] = st]
  /\ recent' = [recent EXCEPT ![o] = st \in {"RELEASED", "REFUNDED"}]

-----------------------------------------------------------------------------
(* Settlement: settleAuction.                                              *)

\* Slip: the order is created LOCKED, before its funds are.
CreateLocked(k, o) ==
  /\ status[o] = "NONE"
  /\ Begin(k, "lock", o, "settle")
  /\ Write(o, "LOCKED")
  /\ UNCHANGED <<kind, deadline, window, goodsVars, moneyVars, faults>>

\* order.create; the unique auctionId makes it happen once.
CreateOrder(k, o) ==
  /\ status[o] = "NONE"
  /\ Begin(k, "lock", o, "settle")
  /\ Write(o, "PENDING_SETTLEMENT")
  /\ UNCHANGED <<kind, deadline, window, goodsVars, moneyVars, faults>>

\* escrowLock: the hold is captured with the money, or all is rolled back.
LockFunds(k) ==
  LET o == job[k].order  u == Buyer[o] IN
  /\ At(k, "lock")
  /\ IF settled[u] >= Amount[o]
     THEN /\ locked' = locked \cup {o}
          /\ settled' = [settled EXCEPT ![u] = @ - Amount[o]]
          /\ escrow' = escrow + Amount[o]
          /\ GoTo(k, "mark")
     ELSE /\ End(k)
          /\ UNCHANGED <<locked, settled, escrow>>
  /\ UNCHANGED <<orderVars, goodsVars, outcome, buyback, fees, faults>>

\* order.update, whatever the status is by now.
MarkLocked(k) ==
  LET o == job[k].order IN
  /\ At(k, "mark")
  /\ Write(o, "LOCKED")
  /\ deadline' = [deadline EXCEPT ![o] = "none"]
  /\ GoTo(k, "item")
  /\ UNCHANGED <<kind, window, goodsVars, moneyVars, faults>>

\* postSaleFulfillment.
CreateItem(k) ==
  LET o == job[k].order IN
  /\ At(k, "item")
  /\ kind[o] # "nft"
  /\ item' = [item EXCEPT ![o] = "READY_TO_SHIP"]
  /\ IF kind[o] = "marketplace" THEN GoTo(k, "prepay") ELSE End(k)
  /\ UNCHANGED <<orderVars, held, parcelOf, shipment, moneyVars, faults>>

\* An NFT changes owner in custody, so its order is released at once.
ReleaseNft(k) ==
  LET o == job[k].order IN
  /\ At(k, "item")
  /\ kind[o] = "nft"
  /\ IF status[o] = "LOCKED"
     THEN /\ Write(o, "RELEASED")
          /\ job' = [job EXCEPT ![k] = [@ EXCEPT !.at = "pay", !.task = "release"]]
     ELSE End(k) /\ UNCHANGED <<status, recent>>
  /\ UNCHANGED <<kind, deadline, window, goodsVars, moneyVars, faults>>

-----------------------------------------------------------------------------
(* The buyer pays shipping: createAndPayShipment, prepayMarketShipping.    *)

\* The shipment row is created PENDING_PAYMENT, to be charged for.
OpenShipment(k, O, s) ==
  /\ shipment[s] = "NONE"
  /\ shipment' = [shipment EXCEPT ![s] = "PENDING_PAYMENT"]
  /\ job' = [job EXCEPT ![k] =
       [Idle EXCEPT !.at = "charge", !.todo = O \X {"pack"}, !.parcel = s]]

\* The items and their orders are checked, then a quote of the buyer's for
\* just these items is consumed.
RequestShipment(k, O, s) ==
  /\ Free(k)
  /\ O # {}
  /\ \A o \in O : item[o] = "READY_TO_SHIP" /\ status[o] \in {"LOCKED", "RELEASED"}
  /\ \A o, p \in O : Buyer[o] = Buyer[p] /\ Seller[o] = Seller[p]
  /\ OpenShipment(k, O, s)
  /\ UNCHANGED <<orderVars, item, held, parcelOf, moneyVars, faults>>

PrepayShipping(k, s) ==
  LET o == job[k].order IN
  /\ At(k, "prepay")
  /\ IF item[o] = "READY_TO_SHIP"
     THEN OpenShipment(k, {o}, s)
     ELSE End(k) /\ UNCHANGED shipment
  /\ UNCHANGED <<orderVars, item, held, parcelOf, moneyVars, faults>>

\* The orders of an errand list.
OrdersOf(todo) == {e[1] : e \in todo}

\* Slip: the refusal is swallowed.
ChargeQuietly(k) ==
  /\ At(k, "charge")
  /\ \E u \in {Buyer[o] : o \in OrdersOf(job[k].todo)} :
       IF available(u) >= ShipFee
       THEN /\ settled' = [settled EXCEPT ![u] = @ - ShipFee]
            /\ fees' = fees + ShipFee
       ELSE UNCHANGED <<settled, fees>>
  /\ GoTo(k, "paid")
  /\ UNCHANGED <<orderVars, goodsVars, locked, outcome, escrow, buyback, faults>>

\* settleShipping, from the available balance; refused, it leaves no shipment.
ChargeShipping(k) ==
  /\ At(k, "charge")
  /\ \E u \in {Buyer[o] : o \in OrdersOf(job[k].todo)} :
       IF available(u) >= ShipFee
       THEN /\ settled' = [settled EXCEPT ![u] = @ - ShipFee]
            /\ fees' = fees + ShipFee
            /\ GoTo(k, "paid")
            /\ UNCHANGED shipment
       ELSE /\ shipment' = [shipment EXCEPT ![job[k].parcel] = "NONE"]
            /\ End(k)
            /\ UNCHANGED <<settled, fees>>
  /\ UNCHANGED <<orderVars, item, held, parcelOf, locked, outcome, escrow, buyback,
                 faults>>

MarkPaid(k) ==
  /\ At(k, "paid")
  /\ shipment' = [shipment EXCEPT ![job[k].parcel] = "PAID"]
  /\ GoTo(k, "pack")
  /\ UNCHANGED <<orderVars, item, held, parcelOf, moneyVars, faults>>

\* The items join the shipment, whatever their status is by now.
PackItems(k) ==
  LET O == OrdersOf(job[k].todo) IN
  /\ At(k, "pack")
  /\ item' = [o \in Orders |-> IF o \in O THEN "IN_SHIPMENT" ELSE item[o]]
  /\ parcelOf' = [o \in Orders |-> IF o \in O THEN job[k].parcel ELSE parcelOf[o]]
  /\ GoTo(k, "clock")
  /\ UNCHANGED <<orderVars, held, shipment, moneyVars, faults>>

StartSellerShipClock(k) ==
  /\ At(k, "clock")
  /\ deadline' = [o \in Orders |->
       IF /\ o \in OrdersOf(job[k].todo)
          /\ status[o] = "LOCKED" /\ deadline[o] = "none"
       THEN "running" ELSE deadline[o]]
  /\ End(k)
  /\ UNCHANGED <<kind, status, window, recent, goodsVars, moneyVars, faults>>

-----------------------------------------------------------------------------
(* The parcel: the seller confirms it, an operator makes the label, the    *)
(* tracker, an admin or the buyer marks it shipped and delivered.          *)

NextStatus == [PAID |-> "LABEL_PENDING", LABEL_PENDING |-> "LABEL_CREATED",
               LABEL_CREATED |-> "SHIPPED", SHIPPED |-> "DELIVERED"]

\* confirmShipmentForLabel, createShipmentLabel, markShipmentShipped and
\* markShipmentDelivered read the status first ...
ReadShipment(k, s) ==
  /\ Free(k)
  /\ shipment[s] \in DOMAIN NextStatus
  /\ job' = [job EXCEPT ![k] =
       [Idle EXCEPT !.at = NextStatus[shipment[s]], !.parcel = s]]
  /\ UNCHANGED <<orderVars, goodsVars, moneyVars, faults>>

\* ... and write it, whatever it is by now.  The last two carry the items
\* along, and their callers go on with the orders.
MoveShipment(k) ==
  LET s == job[k].parcel
      to == job[k].at
      aboard == {o \in Orders : parcelOf[o] = s}
      goal == IF to = "SHIPPED" THEN "SHIPPED" ELSE "DISPUTE_WINDOW"
  IN
  /\ to \in {NextStatus[st] : st \in DOMAIN NextStatus}
  /\ shipment' = [shipment EXCEPT ![s] = to]
  /\ IF to \in {"SHIPPED", "DELIVERED"}
     THEN /\ item' = [o \in Orders |-> IF o \in aboard THEN to ELSE item[o]]
          /\ job' = [job EXCEPT ![k] =
               [Idle EXCEPT !.at = "advance", !.todo = aboard \X {goal}]]
     ELSE End(k) /\ UNCHANGED item
  /\ UNCHANGED <<orderVars, held, parcelOf, moneyVars, faults>>

\* advanceOrdersForShipment reads an order ...
AdvanceRead(k) ==
  /\ At(k, "advance")
  /\ \/ \E e \in job[k].todo :
          IF \/ status[e[1]] = "LOCKED"
             \/ status[e[1]] = "SHIPPED" /\ e[2] = "DISPUTE_WINDOW"
          THEN Take(k, e, "write")
          ELSE Skip(k, e)
     \/ job[k].todo = {} /\ End(k)
  /\ UNCHANGED <<orderVars, goodsVars, moneyVars, faults>>

\* ... and writes it, whatever its status is by now.
AdvanceWrite(k) ==
  LET o == job[k].order IN
  /\ At(k, "write")
  /\ Write(o, job[k].task)
  /\ window' = IF job[k].task = "DISPUTE_WINDOW" THEN [window EXCEPT ![o] = "open"]
               ELSE window
  /\ Loop(k, "advance")
  /\ UNCHANGED <<kind, deadline, goodsVars, moneyVars, faults>>

\* markShipped and markDelivered, for an admin: the order is read, then written.
MarkByHand(k, o, goal) ==
  /\ o \in ByHand
  /\ \/ goal = "SHIPPED" /\ status[o] = "LOCKED"
     \/ goal = "DISPUTE_WINDOW" /\ status[o] = "SHIPPED"
  /\ Begin(k, "write", o, goal)
  /\ UNCHANGED <<orderVars, goodsVars, moneyVars, faults>>

-----------------------------------------------------------------------------
(* Every other move of an order is claimed: one conditional write, which   *)
(* fails when the order has left the expected status.                      *)

\* claimTransition: the winner goes on to "won", the loser to "lost".
Claim(k, o, from, to, won, lost) ==
  IF status[o] = from
  THEN Write(o, to) /\ GoTo(k, won)
  ELSE /\ IF lost = "idle" THEN End(k) ELSE GoTo(k, lost)
       /\ UNCHANGED <<status, recent>>

\* openDispute reads the order ...
OpenDispute(k, o) ==
  /\ status[o] = "DISPUTE_WINDOW"
  /\ window[o] # "past"
  /\ Begin(k, "dispute", o, "dispute")
  /\ UNCHANGED <<orderVars, goodsVars, moneyVars, faults>>

\* ... and claims it.
ClaimDispute(k) ==
  LET o == job[k].order IN
  /\ At(k, "dispute")
  /\ IF status[o] = "DISPUTE_WINDOW"
     THEN Write(o, "DISPUTED")
     ELSE UNCHANGED <<status, recent>>
  /\ End(k)
  /\ UNCHANGED <<kind, deadline, window, goodsVars, moneyVars, faults>>

\* resolveDispute by an admin, up to the money.
ResolveDispute(k, o, task) ==
  /\ status[o] = "DISPUTED"
  /\ Write(o, IF task = "release" THEN "RELEASED" ELSE "REFUNDED")
  /\ Begin(k, "pay", o, task)
  /\ UNCHANGED <<kind, deadline, window, goodsVars, moneyVars, faults>>

\* releaseOrdersForShipment by an admin, up to the money.
ReleaseNow(k, o) ==
  /\ status[o] = "DISPUTE_WINDOW"
  /\ Write(o, "RELEASED")
  /\ Begin(k, "pay", o, "release")
  /\ UNCHANGED <<kind, deadline, window, goodsVars, moneyVars, faults>>

\* buyerDiscardItem and sellerDiscardExpiredItem: the item and the order are
\* read first.
GiveUp(k, o) ==
  /\ item[o] = "READY_TO_SHIP"
  /\ Begin(k, IF status[o] = "LOCKED" THEN "giveUp" ELSE "discard", o, "release")
  /\ UNCHANGED <<orderVars, goodsVars, moneyVars, faults>>

\* forfeitAndDiscard: the claim also tests that shipping was not paid.
ClaimGivenUp(k) ==
  LET o == job[k].order IN
  /\ At(k, "giveUp")
  /\ IF deadline[o] = "none"
     THEN Claim(k, o, "LOCKED", "RELEASED", "payDiscard", "idle")
     ELSE End(k) /\ UNCHANGED <<status, recent>>
  /\ UNCHANGED <<kind, deadline, window, goodsVars, moneyVars, faults>>

Discard(o) == item' = [item EXCEPT ![o] = "DISCARDED"]

DiscardReady(o) == IF item[o] = "READY_TO_SHIP" THEN Discard(o) ELSE UNCHANGED item

DiscardItem(k) ==
  /\ At(k, "discard")
  /\ DiscardReady(job[k].order)
  /\ End(k)
  /\ UNCHANGED <<orderVars, held, parcelOf, shipment, moneyVars, faults>>

-----------------------------------------------------------------------------
(* The money: escrow.release and escrow.refund under one key per order.    *)

\* Where a handler goes on once the money has moved.
AfterPay ==
  [pay |-> "idle", payDiscard |-> "discard", payRecover |-> "recover",
   payRelease |-> "release", payCancel |-> "refunded", payForfeit |-> "forfeitedItem"]

\* Slip: release and refund have a key each.
FirstOfItsKind(o, task) == outcome[o] # task

\* The escrow-settle key lets the first of all the moves of an order through.
FirstMove(o, task) == outcome[o] = "none"

\* escrowRelease or escrowRefund, in one transaction with the key.
MoveMoney(k) ==
  LET o == job[k].order
      task == job[k].task
      next == AfterPay[job[k].at]
  IN
  /\ job[k].at \in DOMAIN AfterPay
  /\ IF ~FirstMove(o, task)
     THEN UNCHANGED moneyVars
     ELSE /\ outcome' = [outcome EXCEPT ![o] = task]
          /\ escrow' = escrow - Amount[o]
          /\ IF task = "release"
             THEN /\ settled' = [settled EXCEPT ![Seller[o]] = @ + Proceeds(Amount[o])]
                  /\ buyback' = buyback + BuybackFee(Amount[o])
                  /\ fees' = fees + PlatformFee(Amount[o])
             ELSE /\ settled' = [settled EXCEPT ![Buyer[o]] = @ + Amount[o]]
                  /\ UNCHANGED <<buyback, fees>>
          /\ UNCHANGED locked
  /\ CASE next = "idle" -> End(k)
       [] next \in {"recover", "release"} -> Loop(k, next)
       [] OTHER -> GoTo(k, next)
  /\ UNCHANGED <<orderVars, goodsVars, faults>>

-----------------------------------------------------------------------------
(* The timers: processOrderTimers and processFulfillmentTimers, started by *)
(* setInterval without waiting for the run before.                         *)

Sections == <<"recover", "release", "cancel", "abandon">>

\* The escrow moves that a crash cut off from their claim, if it was today.
CutOff(o) == recent[o] /\ o \in locked /\ outcome[o] = "none"

\* Slip: recovery pays the seller, whatever was decided.
ListedForSeller(i) ==
  CASE i = 1 -> {o \in Orders : status[o] \in {"RELEASED", "REFUNDED"} /\ CutOff(o)}
                  \X {"release"}
    [] i = 2 -> {o \in Orders : status[o] = "DISPUTE_WINDOW" /\ window[o] = "past"}
                  \X {"release"}
    [] i = 3 -> {o \in Orders : status[o] = "LOCKED" /\ deadline[o] = "past"}
                  \X {"refund"}
    [] i = 4 -> {o \in Orders : item[o] = "READY_TO_SHIP" /\ held[o] = "past"}
                  \X {"release"}

\* What each section of processOrderTimers reads into its list.
Listed(i) ==
  CASE i = 1 -> ({o \in Orders : status[o] = "RELEASED" /\ CutOff(o)} \X {"release"})
                  \cup ({o \in Orders : status[o] = "REFUNDED" /\ CutOff(o)} \X {"refund"})
    [] i = 2 -> {o \in Orders : status[o] = "DISPUTE_WINDOW" /\ window[o] = "past"}
                  \X {"release"}
    [] i = 3 -> {o \in Orders : status[o] = "LOCKED" /\ deadline[o] = "past"}
                  \X {"refund"}
    [] i = 4 -> {o \in Orders : item[o] = "READY_TO_SHIP" /\ held[o] = "past"}
                  \X {"release"}

\* The next section from the i-th on that finds anything reads its list.
Enter(k, i) ==
  \E j \in i..4 :
    /\ Listed(j) # {}
    /\ \A h \in i..(j - 1) : Listed(h) = {}
    /\ job' = [job EXCEPT ![k] = [Idle EXCEPT !.at = Sections[j], !.todo = Listed(j)]]

OrderTimer(k) ==
  /\ Free(k)
  /\ Enter(k, 1)
  /\ UNCHANGED <<orderVars, goodsVars, moneyVars, faults>>

\* A list is done.
NextSection(k) ==
  /\ job[k].todo = {}
  /\ \E i \in 1..4 :
       /\ At(k, Sections[i])
       /\ Enter(k, i + 1) \/ ((\A j \in (i + 1)..4 : Listed(j) = {}) /\ End(k))
  /\ UNCHANGED <<orderVars, goodsVars, moneyVars, faults>>

\* 0. Crash recovery.
Recover(k) ==
  /\ At(k, "recover")
  /\ \E e \in job[k].todo : Take(k, e, "payRecover")
  /\ UNCHANGED <<orderVars, goodsVars, moneyVars, faults>>

\* A claim on an order of the list.
ClaimListed(k, section, from, to, won) ==
  /\ At(k, section)
  /\ \E e \in job[k].todo :
       IF status[e[1]] = from
       THEN Write(e[1], to) /\ Take(k, e, won)
       ELSE Skip(k, e) /\ UNCHANGED <<status, recent>>
  /\ UNCHANGED <<kind, deadline, window, goodsVars, moneyVars, faults>>

\* The dispute window closed.
ReleaseDue(k) == ClaimListed(k, "release", "DISPUTE_WINDOW", "RELEASED", "payRelease")

\* The seller was paid to ship and did not.
CancelDue(k) == ClaimListed(k, "cancel", "LOCKED", "CANCELED", "payCancel")

MarkRefunded(k) ==
  LET o == job[k].order IN
  /\ At(k, "refunded")
  /\ Write(o, "REFUNDED")
  /\ GoTo(k, "canceledItem")
  /\ UNCHANGED <<kind, deadline, window, goodsVars, moneyVars, faults>>

DiscardCanceled(k) ==
  /\ At(k, "canceledItem")
  /\ DiscardReady(job[k].order)
  /\ Loop(k, "cancel")
  /\ UNCHANGED <<orderVars, held, parcelOf, shipment, moneyVars, faults>>

\* The buyer never paid shipping: the order is read ...
CheckAbandoned(k) ==
  /\ At(k, "abandon")
  /\ \E e \in job[k].todo :
       IF status[e[1]] = "LOCKED" /\ deadline[e[1]] = "none"
       THEN Take(k, e, "forfeit")
       ELSE Skip(k, e)
  /\ UNCHANGED <<orderVars, goodsVars, moneyVars, faults>>

\* ... and claimed by forfeitOrder, which returns quietly when it loses.
ForfeitOrder(k) ==
  /\ At(k, "forfeit")
  /\ Claim(k, job[k].order, "LOCKED", "RELEASED", "payForfeit", "forfeitedItem")
  /\ UNCHANGED <<kind, deadline, window, goodsVars, moneyVars, faults>>

\* The item is discarded, whatever its status is by now.
DiscardForfeited(k) ==
  /\ At(k, "forfeitedItem")
  /\ Discard(job[k].order)
  /\ Loop(k, "abandon")
  /\ UNCHANGED <<orderVars, held, parcelOf, shipment, moneyVars, faults>>

\* processFulfillmentTimers has the same list, for orders that are not LOCKED.
FulfillmentTimer(k) ==
  /\ Free(k)
  /\ Listed(4) # {}
  /\ job' = [job EXCEPT ![k] = [Idle EXCEPT !.at = "sweep", !.todo = Listed(4)]]
  /\ UNCHANGED <<orderVars, goodsVars, moneyVars, faults>>

\* Slip: the orders that hold money are not left to the order timer.
SweepAll(k) ==
  /\ At(k, "sweep")
  /\ \/ \E e \in job[k].todo : Take(k, e, "sweptItem")
     \/ job[k].todo = {} /\ End(k)
  /\ UNCHANGED <<orderVars, goodsVars, moneyVars, faults>>

Sweep(k) ==
  /\ At(k, "sweep")
  /\ \/ \E e \in job[k].todo :
          IF status[e[1]] = "LOCKED" THEN Skip(k, e) ELSE Take(k, e, "sweptItem")
     \/ job[k].todo = {} /\ End(k)
  /\ UNCHANGED <<orderVars, goodsVars, moneyVars, faults>>

DiscardSwept(k) ==
  /\ At(k, "sweptItem")
  /\ Discard(job[k].order)
  /\ Loop(k, "sweep")
  /\ UNCHANGED <<orderVars, held, parcelOf, shipment, moneyVars, faults>>

-----------------------------------------------------------------------------
(* Time.  A deadline passes while somebody could notice.                   *)

DeadlinePasses(o) ==
  /\ deadline[o] = "running" /\ status[o] = "LOCKED"
  /\ deadline' = [deadline EXCEPT ![o] = "past"]
  /\ UNCHANGED <<kind, status, window, recent, goodsVars, moneyVars, job, faults>>

WindowCloses(o) ==
  /\ window[o] = "open" /\ status[o] = "DISPUTE_WINDOW"
  /\ window' = [window EXCEPT ![o] = "past"]
  /\ UNCHANGED <<kind, status, deadline, recent, goodsVars, moneyVars, job, faults>>

HoldExpires(o) ==
  /\ held[o] = "running" /\ item[o] = "READY_TO_SHIP"
  /\ held' = [held EXCEPT ![o] = "past"]
  /\ UNCHANGED <<orderVars, item, parcelOf, shipment, moneyVars, job, faults>>

DayPasses(o) ==
  /\ CutOff(o)
  /\ recent' = [recent EXCEPT ![o] = FALSE]
  /\ UNCHANGED <<kind, status, deadline, window, goodsVars, moneyVars, job, faults>>

\* A database error ends one handler, a crash ends them all.
Fault(K) ==
  /\ faults < MaxFaults
  /\ faults' = faults + 1
  /\ \E k \in K : ~Free(k)
  /\ job' = [k \in Slots |-> IF k \in K THEN Idle ELSE job[k]]
  /\ UNCHANGED <<orderVars, goodsVars, moneyVars>>

-----------------------------------------------------------------------------
(* The system.                                                             *)

Settle(k) == LockFunds(k) \/ MarkLocked(k) \/ CreateItem(k) \/ ReleaseNft(k)

PayShipping(k) ==
  \/ \E s \in Shipments : PrepayShipping(k, s)
  \/ ChargeShipping(k)
  \/ MarkPaid(k)
  \/ PackItems(k)
  \/ StartSellerShipClock(k)

Carry(k) == MoveShipment(k) \/ AdvanceRead(k) \/ AdvanceWrite(k)

RunTimer(k) ==
  \/ NextSection(k)
  \/ Recover(k)
  \/ ReleaseDue(k)
  \/ CancelDue(k) \/ MarkRefunded(k) \/ DiscardCanceled(k)
  \/ CheckAbandoned(k) \/ ForfeitOrder(k) \/ DiscardForfeited(k)
  \/ Sweep(k) \/ DiscardSwept(k)

\* The next statement of a running handler.
Step(k) ==
  \/ Settle(k)
  \/ PayShipping(k)
  \/ Carry(k)
  \/ ClaimDispute(k)
  \/ ClaimGivenUp(k)
  \/ DiscardItem(k)
  \/ MoveMoney(k)
  \/ RunTimer(k)

\* Requests of users, sellers and admins, and the tracker.
Request(k) ==
  \/ \E o \in Orders :
       \/ CreateOrder(k, o)
       \/ \E goal \in {"SHIPPED", "DISPUTE_WINDOW"} : MarkByHand(k, o, goal)
       \/ OpenDispute(k, o)
       \/ \E task \in {"release", "refund"} : ResolveDispute(k, o, task)
       \/ ReleaseNow(k, o)
       \/ GiveUp(k, o)
  \/ \E s \in Shipments :
       \/ \E O \in SUBSET Orders : RequestShipment(k, O, s)
       \/ ReadShipment(k, s)

TimePasses(o) == DeadlinePasses(o) \/ WindowCloses(o) \/ HoldExpires(o)

Next ==
  \/ \E k \in Slots : Request(k) \/ Step(k) \/ OrderTimer(k) \/ FulfillmentTimer(k)
  \/ \E o \in Orders : TimePasses(o) \/ DayPasses(o)
  \/ \E K \in {{k} : k \in Slots} \cup {Slots} : Fault(K)

Spec == Init /\ [][Next]_vars

\* Awaited statements complete, time passes, and setInterval starts the order
\* timer again and again (a slot is only our bound, so it gets one).  Nobody else
\* has to act: no user, no seller, no admin and no carrier.
Fairness ==
  /\ \A k \in Slots : WF_vars(Step(k)) /\ SF_vars(OrderTimer(k))
  /\ \A o \in Orders : WF_vars(TimePasses(o))

FairSpec == Spec /\ Fairness

-----------------------------------------------------------------------------
(* What the system promises.                                               *)

\* Every variable keeps the shape its table or local variable has, and neither
\* a user nor the escrow account is ever overdrawn, whatever handlers, timers
\* and crashes overlap (ledger.ts: checked under the account lock).
TypeOK ==
  /\ kind \in [Orders -> Kinds]
  /\ status \in [Orders -> OrderStatus]
  /\ deadline \in [Orders -> {"none", "running", "past"}]
  /\ window \in [Orders -> {"none", "open", "past"}]
  /\ recent \in [Orders -> BOOLEAN]
  /\ item \in [Orders -> ItemStatus]
  /\ held \in [Orders -> {"running", "past"}]
  /\ parcelOf \in [Orders -> Shipments \cup {None}]
  /\ shipment \in [Shipments -> ShipmentStatus]
  /\ locked \in SUBSET Orders
  /\ outcome \in [Orders -> {"none", "release", "refund"}]
  /\ settled \in [Users -> Nat]
  /\ escrow \in Nat /\ buyback \in Nat /\ fees \in Nat
  /\ job \in [Slots -> Jobs]
  /\ faults \in Nat

\* The escrow account holds exactly the prices of the orders whose funds were
\* locked and have not been released or refunded, whoever races whom to settle
\* an order (escrowSettleKey, processOrderTimers).
InEscrow(o) == o \in locked /\ outcome[o] = "none"

EscrowBacked ==
  escrow = Total([o \in Orders |-> IF InEscrow(o) THEN Amount[o] ELSE 0], Orders)

\* No cent appears or vanishes: users, escrow, buyback pool and fees add up to
\* what the users had (postEntries, splitSale).
MoneyConserved ==
  Total(settled, Users) + escrow + buyback + fees = Total(Funds, Users)

\* An order shows LOCKED or anything after it only when its funds are in the
\* ledger, so that no timer, dispute or recovery ever pays out an order nobody
\* paid for (settleAuction, escrowLockApplied).
LockedFirst ==
  \A o \in Orders :
    status[o] \notin {"NONE", "PENDING_SETTLEMENT"} \/ outcome[o] # "none" => o \in locked

\* Goods travel in shipments that were paid: every item under way is in one,
\* and the operator has a fee for each shipment that left PENDING_PAYMENT,
\* whatever requests and crashes overlap (createAndPayShipment).
PaidShipments == {s \in Shipments : shipment[s] \notin {"NONE", "PENDING_PAYMENT"}}

GoodsMovePaid ==
  /\ \A o \in Orders :
       item[o] \in {"IN_SHIPMENT", "SHIPPED", "DELIVERED"} => parcelOf[o] \in PaidShipments
  /\ fees >= ShipFee * Cardinality(PaidShipments)
               + Total([o \in Orders |-> IF outcome[o] = "release"
                                         THEN PlatformFee(Amount[o]) ELSE 0], Orders)

\* The status tells who got the money.  This is so while handlers do not
\* overlap, crashes included; see SettledOrdersStay for when they do.
StatusTellsMoney ==
  \A o \in Orders :
    /\ outcome[o] = "release" => status[o] = "RELEASED"
    /\ outcome[o] = "refund"  => status[o] \in {"CANCELED", "REFUNDED"}

\* The orders whose money no timer moves any more once a fault cut their handler off.
Stranded(o) ==
  \/ status[o] \in {"PENDING_SETTLEMENT", "CANCELED"}
  \/ status[o] \in {"RELEASED", "REFUNDED"} /\ ~recent[o]
  \/ status[o] = "LOCKED" /\ deadline[o] = "none" /\ item[o] # "READY_TO_SHIP"

\* Money does not stay in escrow for want of a buyer or seller who acts: the
\* timers release or refund each locked price, unless its order is with the
\* carrier (SHIPPED) or with an admin (DISPUTED), who no timer stands in for.
\* After a fault the code forgets the orders in Stranded, and no others
\* (processOrderTimers, in four sections; processFulfillmentTimers).
EverySaleSettles ==
  \A o \in Orders :
    o \in locked ~> \/ outcome[o] # "none"
                    \/ status[o] \in {"SHIPPED", "DISPUTED"}
                    \/ faults > 0 /\ Stranded(o)

\* Statuses, timers, shipments, overlapping handlers and crashes implement the
\* promise: every locked price is paid out once, in full.
Standing == [none |-> "held", release |-> "released", refund |-> "refunded"]
deal == [o \in Orders |-> IF o \in locked THEN Standing[outcome[o]] ELSE "won"]

Promise == INSTANCE EscrowPromise WITH
  purse <- settled, pot <- escrow, house <- buyback + fees

KeepsEscrowPromise == Promise!Spec

-----------------------------------------------------------------------------
(* What comments of the code promise and the code does not keep.           *)

\* orders.ts: the timers re-run the move for "any order that crashed between
\* the claim and the move".
CanceledIsRefunded ==
  \A o \in Orders : status[o] = "CANCELED" ~> outcome[o] = "refund"

\* orders.ts, advanceOrdersForShipment: "Only orders in an escrow state are
\* touched"; an order whose money has moved keeps its terminal status.
SettledOrdersStay ==
  [][\A o \in Orders :
       outcome[o] # "none" /\ status[o] \in {"RELEASED", "REFUNDED"} =>
         status'[o] = status[o]]_vars

\* orders.ts, processOrderTimers: with the refund "the claim on the goods dies".
RefundedStaysHome ==
  [][\A o \in Orders :
       outcome[o] = "refund" => item'[o] \in {item[o], "DISCARDED"}]_vars

=============================================================================
