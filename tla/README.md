# BIDit, specified and checked

This directory is a TLA+ development of the BIDit backend: live auctions, the
escrow of their prices, the ledger under both, the chain that holds the money of
the ledger, the fixed-price market with its offers, NFTs in custody, the
giveaways and randomizers of a live room, and the fan-out that shows an auction to
those who watch. TLC model-checks small instances; TLAPS proves the main safety
properties for every value of the constants. Every definition that models code has an entry in `PROJECT.json`
under `map`, with the source lines it stands for.

Paths below are relative to `src/packages/backend/src/` unless they start with
`src/`.

## 1. The system

BIDit is one Node process over Postgres. HTTP routes
(`src/packages/backend/scripts/dev-server.ts`), a WebSocket server and a set of
`setInterval` pollers call the same functions. Nothing but the database
serializes them: every `await` is a point where another handler, poller or
timer may run. There are three kinds of protection in the code, and the
models keep them apart:

* a row lock held over a transaction (`lockAuction`, `lockAccount`);
* a conditional write that at most one racer wins (`claimTransition`,
  `listing.updateMany`, a unique key);
* a plain read followed by a write. Most of the hazards are here.

### Inventory

| Component | State | Operations | What is hard | What makes it correct |
|---|---|---|---|---|
| Auction engine (`auction.ts`, `src/packages/shared/src/auction.ts`) | Auction, Bid and Hold rows | create, start, bid, close | bids on several auctions by one user; a transaction that reads the clock before it waits for a lock; a bid against the close | holds never exceed balances; exactly the leader's money is held; one bid stands; no early close; rivals get time |
| Scheduler (`scheduler.ts`) | the pass in memory: `ticking`, due list, results | poll, close each, hand over to settlement | stale due list, a pass that throws, the overlap guard | every running auction closes, every win is handed over |
| Ledger (`ledger.ts`, `src/packages/shared/src/money.ts`) | LedgerEntry, Hold and Account rows | credit, debit, holds, capture, escrow lock / release / refund | the same money spent twice by two transactions; the same key posted twice | no overdraft; conservation; each key once |
| Store (`store.ts`) | `listing.quantity`, `listing.status`, orders | claim a unit, charge, undo, retire | undo against other purchases; the last unit against an auction | units conserved; a listing with stock is on sale |
| Orders and escrow (`orders.ts`, `escrow.ts`) | Order rows | settle, ship, deliver, dispute, resolve, release, forfeit, cancel, recover | dispute, timers, discards and recovery racing for one price; crash between claim and money | each locked price leaves escrow once, to the side the status names, and does not stay for want of a buyer or seller who acts |
| Fulfillment and tracking (`fulfillment.ts`, `tracking.ts`) | FulfillmentItem, Shipment rows | create item, pay shipment, confirm, label, ship, deliver, hold timer | payment, packing and the ship clock are separate statements | goods under way are in paid shipments |
| Sellers and listings (`sellers.ts`, `listings.ts`) | Listing rows | queue, start an auction | stock checked before the auction is live | no auction without a unit |
| Marketplace (`market.ts`) | Listing, NFT listing rows | list, buy, start, delist | the shipping part of a hold | shipping stays reserved until charged |
| Realtime server (`realtime/server.ts`, `realtime/bus.ts`) | rooms, counted subscriptions, the wheel, pending settlements | subscribe, leave, bid intent, close callback, broadcasts, replay | settlement failures are logged only; the wheel's prize against the next auction; sockets that join and drop around one subscription; states published out of order; a result that finds the socket down | a failed settlement is never for lack of money; whoever is in a room is reached; pages catch up; results are heard |
| Withdrawals (`withdrawals.ts`) | Withdrawal rows, the chain | debit, send, submit, confirm, reverse, review | crash between debit, send and stored signature; reconciler against inline settle | debited, and either paid or reversed, never both, never neither |
| Chain settlement outbox (`chain-settle.ts`) | ChainTransfer rows, `running` | send, confirm, retry | a send that happened but was not recorded is repeated | each leg lands once |
| Deposits (`deposits.ts`) | DepositReceipt rows, cursor | poll, record, price, credit | crash between sweep, receipt and credit; repeated polls | each transfer is credited once, eventually |
| Offers (`offers.ts`) | Offer rows and their holds | make and replace, cancel, decline, counter, accept, expire | an answer from a row read before; the reserve is released before the charge; expiry against acceptance; a handler cut off between claim and release | an open offer is backed; holds are real money; ACCEPTED means sold and charged; every reserve comes back |
| Fixed-price sales (`market.ts`) | Listing, Order, item rows | claim a unit, charge, undo, retire, delist, prepay shipping | undo and retirement beside other sales and delists | no unit is sold twice |
| NFT custody (`nft.ts`, `chain/nft-solana.ts`) | NftAsset rows, the deposit wallets | scan, withdraw, list, unlist, sell, deliver | the same asset listed, withdrawn and won at once; a transfer that landed before its row was written; a scan from an old read | owners deposited or paid; an unlist never frees a paid asset; a claimed withdrawal ends |
| Giveaways (`giveaways.ts`) | giveaway and entry rows, timers in memory, the prize's item | open, enter, draw by timer or by hand, backfill | a timer that is lost or late; an entry in flight over the draw; a crash between winner and item | every giveaway ends; every prize goes to the winner on record |
| Randomizer (`src/packages/shared/src/randomizer.ts`, the wheel in `realtime/server.ts`, `listings.ts`) | the wheel column, the listing's quantity and status | post a pool, start, close, settle, spin, consume | the prize is consumed after settlement put the listing back on sale; a pool posted beside an auction | wheel and stock agree; the pool is fixed once a unit has sold |
| Shipping quotes (`ship-charge.ts` and others) | quote rows | quote, claim | a quote claimed twice | one charge per quote |
| Points, referrals | awards | award | an award twice | one award per order |
| Buyback and treasury swap | their records | scheduled swaps | overlapping runs | each surplus is swapped once |
| Chain providers, accounts and access, chat and notifications, streaming, web app and extension | adapters, request-scoped records, views | calls | network | not state machines of their own |

### How they interact

```
 WebSocket bid ──▶ placeBid ──▶ Hold, Bid, Auction rows
                                     ▲ read by
 setInterval ──▶ AuctionScheduler.tick ──▶ closeOne ──▶ onAuctionsClosed
                                                            │ fire and forget
                                     ┌──────────────────────┘
                                     ▼
              settleAuctionDirect / settleAuction ──▶ ledger, Order, Item
                                     │
   buyer pays shipping ──▶ Shipment ─┼─▶ label ─▶ tracker ─▶ order advances
                                     ▼
              disputes, admin, order timer ──▶ escrow.release / refund
                                     │ legs, in the ledger's transaction
                                     ▼
 user ──▶ requestWithdrawal ──▶  ChainClient  ◀── ChainSettler
          WithdrawalReconciler ──▶   │   ──▶ DepositWatcher ──▶ ledger
```

A sale takes one of two ways. With `BIDIT_PAYOUT_MODE=direct`,
`settleAuctionDirect` captures the hold and pays the seller in one transaction.
Otherwise, in *escrow* mode, `settleAuction` captures the hold into escrow and the
order lives on until it is released or refunded. What the winner's account and
the listing see is the same, and is in `Auction`; the life of the order in escrow
mode is in `OrderEscrow`, which starts where `Auction` ends: its `FundsAssumption` (each buyer owns the money of
the wins they have not paid for) is what `Auction`'s `HoldsCovered` and
`LeaderHolds` establish at the close of an auction.

The hazards, each at its source line and with the properties that watch it, are
listed in `PROJECT.json` under `hazards`.

## 2. The modules

| Module | Extends | Role |
|---|---|---|
| `Totals` | community `Functions`, `FiniteSetsExt` | `Total(f, S)`, the sum that a balance, a holds query or a ledger account is |
| `TotalsProofs` | `Totals` | what such sums do when one summand changes |
| `Auction` | `Totals` | bids, clock, scheduler, direct settlement, store |
| `EnglishAuction` | `Totals` | what `Auction` promises, without its machinery |
| `MCAuction` | `Auction` | instances for TLC |
| `AuctionProofs` | `Auction`, `TotalsProofs` | theorems on `Auction` |
| `OrderEscrow` | `Totals` | orders, items, shipments, timers, escrow money |
| `EscrowPromise` | `Totals` | what `OrderEscrow` promises, without its machinery |
| `MCOrderEscrow` | `OrderEscrow` | instances for TLC |
| `OrderEscrowProofs` | `OrderEscrow`, `TotalsProofs` | theorems on `OrderEscrow`; it implements `EscrowPromise` |
| `CustodyPromise` | `Totals` | what `Custody` promises about balances and what leaves for the chain |
| `Custody` | `Totals`, `CustodyPromise` | withdrawals, outbox and deposits over the chain |
| `MCCustody` | `Custody` | instances for TLC |
| `CustodyProofs` | `Custody`, `TotalsProofs` | theorems on `Custody`; it implements `CustodyPromise` |
| `Market` | `Totals` | offers and fixed-price sales of marketplace listings |
| `MCMarket` | `Market` | instances for TLC |
| `MarketProofs` | `Market`, `TotalsProofs` | theorems on `Market` |
| `NftCustody` | standard modules | deposits, withdrawals, listings and sales of NFTs |
| `MCNftCustody` | `NftCustody` | instance for TLC |
| `NftProofs` | `NftCustody` | theorems on `NftCustody` |
| `LiveRoom` | `Totals` | giveaways and the randomizer |
| `MCLiveRoom` | `LiveRoom` | instances for TLC |
| `LiveRoomProofs` | `LiveRoom`, `TotalsProofs` | theorems on `LiveRoom` |
| `Fanout` | standard modules | rooms, subscriptions, broadcasts and pages |
| `MCFanout` | `Fanout` | instance for TLC |
| `FanoutProofs` | `Fanout` | theorems on `Fanout` |

Definitions under a comment that starts with "Slip:" are mistakes somebody could
make in the definition after them (a dropped check, a forgotten cap). No action
uses them; they are there to show that the properties notice: with the slip in
place of the definition, the property named in `PROJECT.json` under `mutants` is
violated.

### `Auction`

State and code:

* `status`, `leader`, `currentBid`, `left` are the auction row. `left` is
  `endsAt` minus the clock, so that time is relative and bounded; it goes
  negative while nobody closes the auction.
* `bids` and `hold` are the Bid rows and the ACTIVE holds, `settled` the sum of
  a user's ledger entries. `available` is the code's `settled - holds`.
* `pending` is a bid's open transaction: the row lock of the auction is taken and
  `now` was read (`LockForBid`). The second step (`AcceptBid` or `AbortBid`)
  evaluates the funds check and posts all writes at commit. Bids of one user on
  two auctions overlap in this way; the account lock is what makes the funds
  check and the new hold one step. `lag` is the time since `now` was read, up to
  the bound `Lag`.
* The clock counts units, `Second` of them to a second. The code computes in
  milliseconds, and what a late bid leaves to the rivals depends on it: a bid with
  a few milliseconds left brings the auction to two seconds, not three
  (`antiSnipeRemaining`). `RivalsCanAnswer` says so for every `Second`.
* `ticking`, `due`, `results` are the scheduler's pass. `PollDue` reads a list
  that is stale when `CloseOne` uses it, and `CloseOne` re-checks under the
  lock (`StillDue`). `FailTick` is a pass that throws: its results are lost.
* `settling`, `seen`, `stage` are a settlement task and how far the order got.
  `CaptureWin` is the transaction that charges the winner, `CountUnit` and
  `Relist` are the stock statements after it, `PrepayShipping` the marketplace's
  charge for shipping.
* `store` is a store purchase: claim, charge, undo (`ReturnUnit`), and the three
  statements that retire a listing.
* `Crash` drops everything in memory. Postgres rolls back what was open.

Properties: `HoldsCovered`, `LeaderHolds`, `OneBidStands`, `WinsAreFunded`,
`UnitsAccounted`, the action properties `NoEarlyClose` and `RivalsCanAnswer`, the
liveness properties `EveryAuctionCloses` and `EveryWinIsPaid`, and the refinement
`RunsEnglishAuctions`: the backend's auctions are the ascending auctions of
`EnglishAuction`, in which nobody leads for more than they are worth, with
`worth <- settled` and a phase computed from status and stage.

### `OrderEscrow`

State and code:

* `kind`, `status`, `deadline`, `window`, `recent` are the listing and order row.
  Timestamps are reduced to what the code asks of them: has it passed, was it
  less than a day ago.
* `item`, `held`, `parcelOf`, `shipment` are the item and shipment rows.
* `locked` and `outcome` are the idempotency keys `escrow-lock:<order>` and
  `escrow-settle:<order>`; `settled`, `escrow`, `buyback`, `fees` the accounts.
* `job` is what running handlers keep in memory: one slot per handler, with the
  statement it has come to (`at`), the list it still has to work off (`todo`),
  and the order and errand at hand. A handler is a chain of actions, one per
  awaited statement; the write that follows a read uses what was read, and the
  claim that follows a list tests again.
* `Fault` ends one handler (a statement throws) or all of them (a crash) between
  any two statements.

The handlers: settlement (`CreateOrder` to `CreateItem` or `ReleaseNft`), paying
for a shipment (`RequestShipment` or `PrepayShipping` to `StartSellerShipClock`),
moving a shipment and advancing its orders (`ReadShipment`, `MoveShipment`,
`AdvanceRead`, `AdvanceWrite`), marking an order shipped or delivered by hand
(`MarkByHand`), disputes and their resolution, early release, giving an item up,
the order timer in its four sections and the fulfillment timer. All of them end
in `MoveMoney` when money moves: one transaction, with the key, for the first
who gets there.

Properties: `EscrowBacked`, `MoneyConserved`, `LockedFirst`, `GoodsMovePaid`,
`StatusTellsMoney`, the liveness property `EverySaleSettles`, and the refinement
`KeepsEscrowPromise`.

Simplifications, none of which a property can see:

* sections of the order timer whose list is empty are passed over in one step;
* a carrier status other than those of a parcel that moves (`failed`, `unknown`,
  `returned`) is the tracker leaving the row alone (`tracking.ts:197`): no step;
* the update of a shipment and that of its items are one step, and so are the
  reads of item and order in `GiveUp`: the rows are written by the same callers
  in the same order;
* amounts are in cents, not micro-units; both fees are floored as in the code,
  and the price in the instances is not a multiple of 25, so that they round;
* the shipping quote is not there: `RequestShipment` may happen whenever items
  and orders permit it;
* weekly bundling (off unless `BIDIT_SHIP_ON_WIN=1`) is left out;
* `ProgramEscrow` posts the ledger entries `DevWalletEscrow` posts, and outbox rows
  in the same transactions. The rows are in `Custody`; nothing in `OrderEscrow`
  reads them.

### `Custody`

The ledger says what everybody owns and the wallets hold it, and no transaction
spans both. State and code:

* `settled`, `house` are the ledger accounts, `debited` and `returned` the keys
  `withdraw:<id>` and `withdraw-reverse:<id>`; `wstatus`, `wsig`, `reversedAt` the
  Withdrawal rows, `leg` and `legSig` the ChainTransfer rows, `deposit` how far a
  deposit has come, from its arrival to the closed DepositReceipt.
* `tx` is the chain: what each signature transfers and its fate. `Land` and `Die`
  are the chain's. The contract of `ChainClient` is assumed: `sendTransfer` throws
  only before the broadcast, and a definite `getTransferStatus` is true. `wallet`
  is what the operator's wallets hold.
* `job` is a request or a reconciler pass with the statement it has come to and
  the row it read. Passes overlap, as `setInterval` lets them. `settler` and
  `watcher` are the two pollers that guard against themselves.
* `PostLeg` is any ledger move with a leg: which accounts it moves between is a
  constant (`From`, `To`, `Worth`, `Party`), so `lock:`, `release-*:`, `refund:` and
  `shipping:` legs are all instances.
* `HandlerFails`, `SettlerFails`, `WatcherFails` and `Crash` end a row, a leg, an
  event or everything, between any two statements. A database transaction that
  throws is taken not to have committed.

Properties: `PaidXorReversed`, `CapBoundsOutflow`, `LegsLandOnce`,
`WalletsMatchBooks`, the liveness properties `SubmittedEnds` and
`RecordedIsCredited`, and the refinement `KeepsCustodyPromise`. `CustodyPromise` knows no
rows, handlers, passes or signatures: a withdrawal is taken within the cap, then paid
once or given back once; a deposit is credited once and a move of the ledger made once.
What was taken or returned is read off the ledger's keys, what was paid off the transfers
that landed, what was credited or moved off the rows.

Left out: the caps on the number of withdrawals and of new addresses; the day
after which a withdrawal no longer counts against the cap; SOL deposits and
their pricing; wallets that fall back to treasury (in escrow mode the process
refuses to start with them).

### `Market`

State and code:

* `offer`, `held`, `overdue` are the Offer rows, the status of their Holds, and the
  offers past `expiresAt`; `status` and `quantity` the listing row; `order`, `item`,
  `charged` and `shipPaid` the orders, their items and the ledger keys taken.
  `settled` is a balance, `Available` what `ledger.ts` computes from it and the holds.
* `job` is a request or an `expireOffers` pass with the statement it has come to and
  what it has read. `makeOffer` is `MakeOffer` to `ReserveOffer`, of which the last
  is the transaction under the account's lock; `respondOffer` is `Close`, `StartCounter`
  or `Accept` and what follows; `buyMarketItem` is `Buy`. Accepted offers and
  purchases share the sale, `ClaimUnit` to `PackItem`.
* The answer is given from the row that was read; the guarded `updateMany` of the
  next step looks again (`CloseOffer`, `CounterOffer`, `ClaimOffer`, `ExpireNext`,
  `ClaimUnit`). What the catch blocks undo is `DropOrder`, `PutBack`, `LapseOffer`.
* `Fail` is a statement that throws, and what its catch does; `Crash` loses every
  handler. `Spend` is a debit elsewhere.

Properties: `HoldsCovered`, `OpenOffersAreBacked`, `NeverOversold`,
`AcceptedMeansSold`, the liveness property `EveryReserveComesBack`.

Simplifications: prices, bidders and counters of an offer are constants, so that each
id is one offer; every buyer pays the listing's one shipping price; an order that
pays the seller at once is LOCKED here, for nothing in the module tells the two
apart; thread messages and notifications are left out, except that they may throw.

### `NftCustody`

State and code:

* `row` is the NftAsset row (status, owner, custodian wallet, listing, address),
  `wallet` the chain's answer to whose deposit wallet holds the token. A sale moves
  the owner, never the token.
* `listing`, `auction`, `order` are the rows of a sale; `delivered` is history: what
  `creditNftWin` moved for it.
* `job` is a request: `requestNftWithdrawal`, `createNftListing` in its three modes
  (create, attach, and the start of the auction for a stream), `unlistNft`, a
  purchase, or a settlement from `CloseWon`. `scan` and `worker` are the passes of
  `creditNftDeposits` and `processNftWithdrawals`, which overlap with themselves. A
  pass works off the rows it read when it began: the withdrawal goes out of the
  custodian wallet that the row named then (`nft.ts:221`).
* `Fault` ends a request, a token's turn in a pass, or everything. `MisreadAccount` is
  `getAccount` throwing for a reason of its own: `nft-solana.ts` takes it for a
  token that has already been sent.

Properties: `OwnersPaid`, `UnlistSparesBuyers`, the liveness property `WithdrawalsEnd`.

Simplifications: an order's charge succeeds or is refused, without balances; the
auction between start and close is one step; names and pictures are left out.

### `LiveRoom`

State and code:

* `giveaway`, `entries`, `past`, `timers`, `prize`: the rows, the window, the timers
  in memory and the buyer on the prize's item. `pickWinnerIndex` is a fixed choice
  for each set of entrants (`seed`). `drawn` is history: the sets of entrants that
  draws of a giveaway have read; `Frozen` says that there was at most one.
* `wheel`, `quantity`, `status` are the randomizer's listing, `auction`, `order`,
  `item`, `label` what its auctions leave behind. The settlement is `ReadWheel` to
  `ConsumePrize`: `onAuctionsClosed` reads the wheel, settles, spins and consumes.
* `job` is a handler, with a slot for each giveaway's timer and each auction's
  settlement. `Fail` throws, `Crash` loses timers and handlers, `Boot` is the
  backfill at the next start.
* `overwrote` is history: a pool was written beside a settlement, or a settlement
  came to a wheel that was empty while another still carried one.

Properties: `WheelMatchesStock`, the liveness properties `EveryGiveawayEnds` and
`EveryPrizeShips`, and `PoolIsFixed`, which fails.

Left out: bids (an auction is won or closes unsold), pools above `MAX_QUANTITY`,
fractional weights, a store price on a randomizer, subscriptions; and the edit of
a listing's quantity by hand (`updateListing`), which is refused for a listing with
a wheel (`listings.ts:147`) by a check before the write: beside a first
`setListingWheel` it may pass, and then stock and wheel differ.

### `Fanout`

State and code:

* `auction` is the row, as far as pages tell rows apart: status and the number of the
  bid. `Bid`, `StartAuction` and `CloseAuction` stand for `Auction`'s, which decide them.
* `online` and `joined` are `conns` and `localRooms`, for one page each; `ghost` is a
  page's earlier connection, whose socket is gone and which `onDisconnect` has yet to
  see, in the room or out of it.
* `sub` is the `refCount` of the room's entry in `busSubs`, `bus` the number of handlers
  on the channel. The two differ while `ensureSub` awaits (`Join`, then `RecordSub`), and
  after an entry was overwritten. `ReleaseSub` is `releaseSub`.
* `job` is a SUBSCRIBE, a bid or start, or `onAuctionsClosed`, with the statement it has
  come to and what it has read. A bid publishes what `ReadRow` read two steps before.
* `panel` is what `BidPanel.tsx` shows: `onState` replaces it, `onBid` and `onClosed`
  change it, whichever auction they are about. `told` is history.
* `Drop` and `Crash` are sockets and the process going down, `Fail` a query that throws.

Properties: `MembersAreServed`, the liveness properties `PanelsCatchUp` and
`ResultsAreHeard`. The handlers that `RecordSub` overwrites stay on the channel for good;
pages then get a message twice, and `MembersAreServed` says that the error is on that side.

Simplifications: one room, with one auction on its block at a time; a frame the rate
limit drops is one that was not sent; what is on the wire when a socket drops was
dropped a little earlier; a page has one earlier connection at a time; no handler is
longer than the minute of the replay window. The channels of users and `RedisBus` are left out.

## 3. The runs

| Run | Checks | Instance |
|---|---|---|
| `auction_money` | `TypeOK`, `HoldsCovered`, `LeaderHolds`, `OneBidStands`, `WinsAreFunded`, `RunsEnglishAuctions` | two auctions, one of them on the marketplace; two users; three prices on both sides of the $50 step; other debits; one fault |
| `auction_clock` | `UnitsAccounted`, `EveryAuctionCloses`, `EveryWinIsPaid`, `NoEarlyClose`, `RivalsCanAnswer` | one auction of six seconds on a clock of quarter seconds, bid transactions that stay open for up to half a second, two store buyers on the two units of its listing |
| `escrow_money` | `TypeOK`, `EscrowBacked`, `MoneyConserved`, `LockedFirst`, `GoodsMovePaid`, `KeepsEscrowPromise` | one order of each kind, two shipments, two handlers at a time, one fault |
| `escrow_life` | `StatusTellsMoney`, `EverySaleSettles` | two orders that may share a shipment, one handler at a time, one fault |
| `withdrawals` | `PaidXorReversed`, `CapBoundsOutflow`, `SubmittedEnds` | two withdrawals that fit the balance but not the cap together, two handlers at a time, two faults |
| `transfers` | `LegsLandOnce`, `WalletsMatchBooks`, `RecordedIsCredited`, `KeepsCustodyPromise` | a leg, a deposit and a withdrawal on one balance, one fault |
| `market` | `OpenOffersAreBacked`, `NeverOversold`, `AcceptedMeansSold` | two offers of one buyer and another who buys at the asking price, the last unit, two requests and an expiry pass at a time, one fault |
| `market_life` | `HoldsCovered`, `EveryReserveComesBack` | the same listing, one request beside a pass, debits elsewhere, one fault |
| `nft` | `OwnersPaid`, `UnlistSparesBuyers`, `WithdrawalsEnd` | one token, two users, a listing and an auction, two requests beside a scan and a worker, one fault |
| `live_room` | `WheelMatchesStock`, `EveryGiveawayEnds`, `EveryPrizeShips` | a giveaway with three viewers, one of them the seller, or a randomizer with two auctions and three pools; one request, one error, one crash |
| `fanout` | `MembersAreServed`, `PanelsCatchUp`, `ResultsAreHeard` | one page with two frames at a time, one auction, one bid, one mishap |
| `wheel_restocked` | `PoolIsFixed`, violated | one auction, one pool, no fault |

The types of `Custody`, `Market`, `NftCustody`, `LiveRoom` and `Fanout` are proved, and no
run repeats them.

Bounds, and why they are enough to be of interest:

* *Two auctions, two users, three prices.* A user who can afford to lead either
  auction but not both at the top price is the least that can overspend. The
  prices are the starting bid, its successor, and the one after that, which
  crosses the tier from 5% to $2 steps.
* *Second* and *Duration* are 1 in `auction_money`, where the clock does not matter.
  In `auction_clock` *Second* is 4 and *Duration* 24, six seconds and one more than
  the anti-snipe window: there are bids with a quarter of a second left, whole
  seconds and everything between. *Lag* is 2 there: a transaction may have read the
  clock half a second early. The proof is for every *Second* and *Lag*. *MaxFunds*
  keeps credits from growing balances without end.
* *Two handlers, one order.* All races over one price are between two handlers;
  the ledger's invariants are proved for any number of both.
* *Two shipments in `escrow_money`*: the same item can be requested twice.
  *One in `escrow_life`*: two orders share it, or one of them never ships.
* *One handler in `escrow_life`*: with two the status of a paid-out order can be
  overwritten by a stale read (see below), and `StatusTellsMoney` is false; what
  the run shows is that crashes and errors alone do not break it. `ByHand` names
  one of the two orders there, so that the other goes only the shipment's way.
* *One fault*: between any two statements, of one handler or the whole process.
* *Two handlers in `withdrawals`*: the request's own settlement against a pass, or
  two passes; the third and later ones would only repeat what a row's key, its
  status or `reversedAt` already told the second. Two faults let a row be cut off
  while it is reversed and again while it is recovered.
* *Signatures*: a withdrawal uses one at most; a leg uses one per attempt, so
  three allow a leg to be sent twice or thrice.
* *Whole units of money* in `Custody`: nothing there divides.
* Slots and shipment ids are interchangeable, so `escrow_money` uses symmetry;
  `escrow_life` checks liveness and does not.

* *Two offers, two buyers, one unit* (`market`): the replacement of an offer, the
  acceptance of either, a purchase and the expiry pass all meet at one listing. The
  wallet backs one offer or pays for the item, not both. Three order ids let the
  loser of a charge leave one behind. Requests and orders are interchangeable there;
  `market_life` checks liveness and uses no symmetry.
* *One token, two requests* (`nft`): list against withdraw, unlist against buy, buy
  against the win of the auction. More tokens meet only in the cap on a scan's
  headroom, which is 1 so that it bites.
* *Two auctions of a randomizer* (`live_room`): one settles while the next one runs and
  settles. A giveaway and a randomizer share the process and nothing else, so an
  evening of `MCLiveRoom` (`EveningInit`) has one or the other, and no seed where
  nothing is drawn; that keeps the product of the two out of the state space. Two
  viewers besides the seller let two draws see different entrants and choose
  different winners; as the two are alike, the first is the one both together draw.

* *One page, two frames, one mishap* (`fanout`): two SUBSCRIBE frames of one page overlap,
  on one connection or on two, and so do a frame and the departure of the connection
  before it. That several pages share one count is what the proof covers. One auction
  and one bid give three states of the row, each of which may be published late.

Deadlock is not checked: when all auctions are closed and all sales are settled
the system may stop.

### Fairness

`Auction`: `setInterval` keeps polling (weak fairness of `PollDue`), awaited
statements and transactions complete (`CloseOne`, `EndTick`, `Settle`,
`AcceptBid` or `AbortBid`), and time passes (`Tick`). Users owe nothing: no bid,
start, credit or purchase is fair. `EveryAuctionCloses` therefore has to hold
against bidders who keep bidding in the last seconds; it does because their
money and the price list are finite and each bid raises the price.

`OrderEscrow`: a handler that runs goes on (weak fairness of `Step`), deadlines pass,
and `setInterval` starts the order timer again and again (strong fairness: a slot of
`job` is only the bound of the model, while the process never lacks one). That is
all: no buyer, seller, admin or carrier has to act, and the tracker need not find
that anything moved. `EverySaleSettles` therefore stops at two statuses where the
code waits for somebody for as long as it takes: no timer reads a DISPUTED order,
which rests with an admin, nor a SHIPPED one, which rests with the carrier (the
tracker leaves a failed or returned parcel alone, `tracking.ts:197`). After a fault it
excuses the orders in `Stranded` and no others: an order that was cut off before its
deadline was set, one that was CANCELED and not yet refunded, and a payout that was
cut off from its claim and not finished within a day (the recovery query looks no
further, and only at RELEASED and REFUNDED).

`Custody`: handlers go on, both pollers poll and the reconciler gets its pass (strong
fairness, the slot being our bound), and a transfer lands or dies, because its
blockhash expires. `RecordedIsCredited` needs no fairness of the outbox and
`SubmittedEnds` none of the pollers. Users and the senders of deposits owe
nothing. `SubmittedEnds` starts at the stored signature: a PENDING withdrawal whose
handler was cut off is looked at by nobody.

`Market`: handlers go on, `setInterval` starts `expireOffers` (`dev-server.ts:561`), and
offers fall due in time. Buyers and sellers owe nothing. After a fault
`EveryReserveComesBack` promises nothing: a handler that is cut off between the claim
of an offer and the release of its hold leaves a reserve that no pass looks for.

`NftCustody`: requests, scans and workers go on, and the worker starts again while
rows are WITHDRAWING (`dev-server.ts:550`). Depositors and users owe nothing.

`LiveRoom`: handlers go on, windows close, a timer that is armed fires, and the
process is started again. Nobody is obliged to draw by hand: `EveryGiveawayEnds`
rests on the timer alone, and so is promised only while no error or restart has
dropped it. `EveryPrizeShips` holds through crashes, thanks to the backfill, and names the
buyer: the item is the recorded winner's, as long as all draws read the same entrants.

`Fanout`: handlers go on; a page opens its socket again and again and sends SUBSCRIBE
every twelve seconds (`src/packages/web/src/realtime.ts:307-330`); the server sees that a
socket has closed. Nobody is obliged to bid, start or leave, and mishaps are finite: a
page whose socket never stays up shows nothing. `ResultsAreHeard` gives up when a query
failed, a minute has passed or the next auction has begun, as the replay does.

### What the comments say and the code does not do

One of these is a run that is expected to be violated; the finding in
`PROJECT.json` quotes the line.

| Run | Statement | What happens |
|---|---|---|
| `wheel_restocked` | once a unit has sold, the pool is fixed (`listings.ts:200`) | the check counts orders by listing, and orders of auctions carry no listing id: a pool can be posted again after any number of spins |

Seven more are stated at the end of their modules, and no run repeats them:

| Definition | Statement | What happens |
|---|---|---|
| `Auction!ShippingStaysReserved` | the hold lets the win charge bid and shipping | the capture frees the whole hold and takes the bid; the winner may spend the rest before shipping is charged |
| `Auction!EveryAuctionHasAUnit` | store sales cannot race the auction over the last unit | the auction starts after its stock check, the store sells in between |
| `OrderEscrow!RefundedStaysHome` | with the refund the claim on the goods dies (`orders.ts:704`) | the items of a no-ship refund are in a shipment and not READY_TO_SHIP, so they go on to the refunded buyer |
| `OrderEscrow!CanceledIsRefunded` | timers re-run the move for any order that crashed between claim and move | nothing reads CANCELED orders |
| `OrderEscrow!SettledOrdersStay` | only orders in an escrow state are touched, guarded by status | the status is read, then written by id alone |
| `LiveRoom!WinnerGetsThePrize` | recomputing from the stored seed always yields the same winner (`giveaways.ts:154`) | entries are not frozen while a draw runs: one between two draws changes the winner on record, and the item is another's |
| `Custody!SweptIsCredited` | a crash between sweep and credit can never lose a user's money | the sweep is on chain before its receipt is written; a crash in between leaves neither deposit nor receipt |

None of these moves money wrongly: the escrow key and the locks hold, as the
proofs show. What else the models show:

* a leg is broadcast again after a crash or database error between `sendTransfer`
  and the update to SUBMITTED (`chain-settle.ts:115`), although the comments there
  and in the schema say it is never moved twice: hence the `faults` in
  `LegsLandOnce` and the exception in `WalletsMatchBooks`;
* a reconciler pass that read a row before another one reversed it may mark it
  NEEDS_REVIEW afterwards (`withdrawals.ts:393`); the money is right, but the row stays
  there, and counts against the cap for its day: hence `reversedAt` rather than
  FAILED in `SubmittedEnds`;
* a store purchase whose charge fails after another one set the listing SOLD adds
  its unit back to a listing that stays SOLD (`store.ts:166`);
* "nothing moves on a throw" (`market.ts:728`) leaves out the update after the charge: if
  it throws, the catch drops an order that was charged. `AcceptedMeansSold` is
  stated without faults for this reason;
* a crash between the claim of an offer and the release of its hold keeps the
  reserve for good (`offers.ts:303`, `:352`);
* an NFT listing is QUEUED before its assets are attached (`nft.ts:288`, `:302`): who buys
  it in between pays, the delivery finds nothing, and the seller is paid all the same,
  against `market.ts:767`;
* a withdrawal and a listing of one asset check it before they write: an asset that
  is on sale can be WITHDRAWING. `OwnersPaid` holds all the same;
* between the SOLD of a listing and the delivery of its assets the seller's assets
  are unlocked again and may be withdrawn;
* a scan that read the rows before a withdrawal was recorded brings the row back as
  HELD (`nft.ts`, `creditNftDeposits`);
* an RPC error in `getAccount` marks an asset WITHDRAWN that was never sent
  (`chain/nft-solana.ts:94`, against `nft.ts:239`);
* an entry in flight over the draw, or the timer beside a draw by hand, lets two draws
  of a giveaway see different entrants. The item goes to whoever is first, the winner
  on record is the last: hence `Frozen` in `EveryPrizeShips`;
* `consumeWheelPrize` writes QUEUED over the LIVE of a next auction that has started in
  the meantime, and two settlements that read the same wheel, or a consume that
  throws, let one copy be won twice (against `realtime/server.ts:710`).
  `WheelMatchesStock` says what remains true;
* a panel whose clock has run out sends SUBSCRIBE "so the server replays the result"
  (`src/packages/web/src/components/BidPanel.tsx:165`), but the server replays on a
  connection's first SUBSCRIBE only (`realtime/server.ts:444`). When `onAuctionsClosed`
  throws, or a state read before the close is published after it, the panel stays on
  RUNNING until its socket is opened anew;
* sockets that join an empty room together each put a handler on its channel and the
  last one to return overwrites the entry (`realtime/server.ts:930`): the other handler is
  never taken off, and messages arrive twice. `BidPanel.tsx` expects duplicated closes.

## 4. The proofs

All theorems are checked by TLAPS from the assumptions the modules state about
their constants: finite sets of ids, natural amounts, positive prices, `None` and
`NoUser` not among the ids, and for `OrderEscrow` the `FundsAssumption` above.
None bounds the number of auctions, users, orders, shipments or handlers, nor
any amount.

**`TotalsProofs`.** `Total` is a fold of the community modules. What a fold
computes is shown from its defining equation; where an induction would be used,
the proof picks a smallest counterexample among the subsets, on which strict
inclusion is well-founded. The lemmas that follow are those of
bookkeeping: totals of naturals are naturals, pointwise smaller functions have
smaller totals, one changed summand changes the total by the difference.

**`AuctionProofs`.** `HoldsCovered` alone is not inductive: that capturing a win
keeps it needs to know that the hold is there (`LeaderHolds`), and that, in
turn, that status, stage and open transaction of an auction fit together
(`Phases`) and that a leader has bid (`LeaderHasBid`). `Inv` joins these to
`TypeOK`. `Invariance` proves it step by step; `Typing`, `HoldsAlwaysCovered`,
`OnlyLeadersHold` and `WinsAlwaysFunded` follow from it.

The clock needs `OpenBidsStand`: while a bid holds the row lock, what it read still holds,
because whoever else would write the row waits. `NeverEarly` and `RivalsAlwaysCanAnswer` are
action properties that follow from it. `OneBidAlwaysStands` says the same of the bid rows,
and `UnitsAlwaysAccounted` moves one unit at a time between the shelf, the checkouts and the
wins. `NoWinIsEverForgotten` follows a won auction from the row to the results of the pass and
on to its settlement: `PassFits` says that results are never left behind by a pass that ended,
so that only a failed pass or a crash drops a win. `Refinement` maps each action to one of `EnglishAuction`: what a user is committed to
there is at most what their holds are here (`HeldForCommitted`, from `LeaderHolds`), and
holds are at most what the user has, so no debit takes what somebody leads with.

**`OrderEscrowProofs`.** `Inv` joins to `TypeOK`, `EscrowBacked`, `MoneyConserved`
and `LockedFirst` what running handlers know: `JobsFit` (a handler that is about
to move money, or to write a status past PENDING_SETTLEMENT, has an order whose
funds are locked), `OneLocker` (at most one handler is about to lock the funds
of one order), and `Fresh` (nothing is locked for an order that does not exist). Most actions
touch neither the ledger nor `locked`; lemma `QuietStep` does all of these at
once, from what a new job knows. The steps that move money are proved one by
one: no overdraft, because escrow holds the sum of what it owes; conservation,
because the proceeds are what the two floored fees leave.

`GoodsMovePaid` has an invariant of its own, `GoodsInv`: a parcel is charged by the one
handler that opened it (`OneCharger`), a handler that packs or moves one has it paid
(`ParcelsFit`, `ItemsPaid`), and a parcel that was charged but not yet marked so already
counts in the fees (`FeesCover`). Without that last summand, the charge and the mark, which
are two statements, could not be told apart from a parcel that nobody paid for.

The same module shows that `OrderEscrow` implements `EscrowPromise` (`Implementation`): only
`LockFunds`, `ChargeShipping` and `MoveMoney` touch the money, and each of these
is a step of the promise or, refused, none. `deal` is computed from the two keys.

`StatusTellsMoney` is broken by exactly one thing: `AdvanceWrite` writes a status by id alone,
and the order may have been decided since it was read. `Timely` says that this does not happen
in a step. Under `[][Timely]_vars`, for any number of handlers, `StatusTellsUnlessLate` proves
the invariant and `DecisionsStay` that a RELEASED or REFUNDED order whose money has moved
keeps its status (a CANCELED one may still be marked REFUNDED). The invariant, `TellInv`, adds what handlers know of the statuses: whoever is
about to move money won the claim that says so (`JobsKnow`), and an order that is being
settled is settled by one handler (`OneSettler`). A run in which handlers overlap and no write
is late satisfies the condition; so do all runs in which nobody advances an order.

`NoPriceIsEverStranded` is the half of `EverySaleSettles` that needs no fairness, late writes
included: until something fails, every price in escrow is of an order that waits for somebody
and says so on record (an item to ship, a deadline, a parcel, a window, a dispute), or whose
handler is about to mark it, give it its item, start its clock or move its money. Alone it is
not inductive. `HandInv` adds `RowsAgree` (an order whose item is in a parcel was settled, a
SHIPPED order has a parcel or was shipped by hand), `Relies` (what a handler's rows must still
say at its label) and `OneFounder` (an order gets its item from the handler that created it).
`Steady` says what every step leaves for the others to rely on.

**`MarketProofs`.** `Inv` joins to `TypeOK`, `HoldsCovered` and `OpenOffersAreBacked`:
`JobsFit` (a handler that is about to release a hold has an offer that is closed for
good; one that charges has an order of its listing that is pending), `OneMaker` and
`OneHolder` (an offer is being made, and an order charged, by one handler), and
`AllStocked`: the units on the shelf, those in handlers' hands and those of orders that
stand never exceed the stock. The middle summand is why `NeverOversold` alone is not
inductive: `PutBack` would break it. `HandlerStep` does the part that is the same for
every step of one handler; what is left is one lemma per action. `AcceptedMeansSold` is
about quiet states only and needs `SaleInv`: at most one handler claimed each offer, the
offers that orders name are ACCEPTED, and an accepted offer has its handler or a charged
order that stands. A fault breaks the last part, which is why it is assumed away.
`NothingIsStranded` says the same at every moment, for reserves, units and orders at once:
each is where it belongs or in the hands of one handler. `EveryReserveComesBack` adds that
the handler goes on.

**`NftProofs`.** `Inv` joins to `TypeOK` and `OwnersPaid`: `JobsFit`, `OneClaim` (a unit is
claimed by one handler), `UntakenIsFree` (a listing whose unit nobody claimed has no
charged order) and `OneUnit`. `UnlistSparesBuyers` follows, because an unlist takes the
unit in the statement that cancels.

**`LiveRoomProofs`.** `Accounted` says where the stock may differ from the wheel (while a
settlement that has counted its unit has yet to write the wheel it carries), and
`BlankAlone` that a settlement which found no wheel runs beside no settlement that has
one; both hold until a fault or an overwrite. `Typing` is not trivial either: that the
wheel stays in the naturals needs the prize of a spin to be in the pool it was drawn from.
`RoomInv` is about giveaways: a handler that draws has read entrants who entered
(`KnowsEntrants`), so a prize goes to somebody who did and is never the seller's
(`PrizesAlwaysEarned`); and an open giveaway has its timer or a handler (`OpenAlwaysInHand`), a
drawn one its item, made out to the winner on record, or a handler about to make it out to
that winner (`PrizesAlwaysInHand`, through crashes, thanks to the backfill). `RightWinners` is
what this rests on: as long as the draws of a giveaway have read the same entrants, the
winner on record, the item and every handler name the entrant whom the seed draws from them.
These are the halves of `EveryGiveawayEnds` and `EveryPrizeShips` that need no fairness.

**`CustodyProofs`.** Nothing a handler of a withdrawal knows is locked, so the argument is
about who may still send. `Inv` joins to `TypeOK`: `JobsFit` (what a handler may rely on at
its label), `OneOrigin` (a withdrawal is requested by one handler), `RowsFit` (debits,
credits, signature, transfers and status of a row agree) and `UnderCap`. The heart is
`Over(w)`: a handler that reverses works on a row whose transfer can no longer land and
which nobody will send again. `PaidXorReversed` alone is not inductive because it does not
say that of a handler that is about to give back. `UnderCap` counts the rows by status, as
the request does; that a debited row that was not given back is always in `INFLIGHT` turns
it into `CapBoundsOutflow`. `LegsLandOnce` needs `LegInv`: the transfers of a leg that
nobody knows of any more (`Lost`) are at most as many as the faults, because outside faults
the settler or the row always knows the last one.

`WalletsMatchBooks` speaks of quiet moments only; the invariant behind it says what the
difference is at every other one. `Balanced`: each wallet holds what the ledger says, plus
what was debited and not yet paid (`Unpaid`), plus or minus the legs that are posted and
not landed or the reverse (`Unmoved`), plus what was swept and not credited (`Uncounted`).
Each step that moves money moves a term of one of these sums by the same amount. That the
terms are zero when all is quiet needs `RowsFinal` and `LegsFinal` (a row that is CONFIRMED
was paid, a leg that is CONFIRMED landed), and that a deposit is swept and credited from
the right stage needs `WatcherFits`. A leg that landed twice breaks `Balanced` for good,
so it holds under `MovedOnce`.

`RowsTellTheTruth` and `LegsTellTheTruth` say what a row may be believed for at any moment:
CONFIRMED was paid and not given back, FAILED is nobody's loss, and a row with a signature is
on the list of every pass, confirmed or reversed. That is the half of `SubmittedEnds` that
needs no fairness, and holds through faults. A PENDING row is on no list, and a swept deposit
without a receipt in no table: `NothingIsEverDropped` says that until something fails both are
in memory, with a handler or with the watcher. A crash there is the finding on
`SweptIsCredited`.

`KeepsPromise` maps each step to one of `CustodyPromise` or to none. `DebitWithdrawal` is a
withdrawal taken, which is within the cap because of `CapBoundsOutflow` after the step; `Land` is a
payment for a withdrawal, the only one, by `Live(w)`; a credit back, a deposit and a leg are
what they are here, and each happens once because of its key or status. The rest leaves
everything alone that the promise sees.

**`FanoutProofs`.** `MembersAreServed` compares a count with a set of sockets, and the two
agree only between handlers. `RefInv` is what holds at every step: the handlers on the
channel are the entry's, those of frames that have yet to record theirs (`Recorders`), and
those nobody will take off (`Leaked`); and unless one has leaked, the count and the frames
that are recording cover every connection in the room and every one still to be seen off.
Only overwriting an entry loses counts, and that leaks a handler.

Only model-checked are the liveness properties (`EveryAuctionCloses`, `EveryWinIsPaid`,
`EverySaleSettles`, `SubmittedEnds`, `RecordedIsCredited`, `EveryReserveComesBack`,
`WithdrawalsEnd`, `EveryGiveawayEnds`, `EveryPrizeShips`, `PanelsCatchUp`, `ResultsAreHeard`)
and `PoolIsFixed`, which fails. Liveness under fairness is out of the prover's reach, and so
is what a recursive definition computes for every input. In passing runs every invariant, action property and
refinement that a run checks is also a theorem. The theorems on what nobody forgets
(`NoWinIsEverForgotten`, `NoPriceIsEverStranded`, `NothingIsStranded`, `NothingIsEverDropped`,
`OpenAlwaysInHand`, `PrizesAlwaysInHand`) and their inductive invariants were checked by TLC
on the instances of section 3 before they were proved.

## 5. The plan

The order was: auctions, their money, escrow, the custody of the money on the chain;
then the market, NFT custody and the live room; each module has its theorems. What is left,
in this order:

1. A promise for `Market` and one for `NftCustody`, as `CustodyPromise` is for `Custody`.
2. The shipping quote joined to `OrderEscrow`: one claim per quote, and the refund of a
   charge whose shipment was never recorded.
3. `Market` composed with `Auction` over one account's holds.
4. Points and referrals keyed by order.

## 6. What is not modelled, and why

Chain and stream providers are adapters whose effects are requests and
encodings; what they promise is modelled where it is used. Accounts, roles, codes and
encryption decide within one request. Chat, messages and notifications append records
nobody else's correctness depends on. The web app and the extension, which are most
of the repository's lines, render the server's state, and most of
`scripts/dev-server.ts` parses requests and serializes answers. Buyback and
treasury swaps are single scheduled calls to an exchange. Shipping rates are
requests to a carrier. Points and referrals are written once, by a unique key, and read
by nobody else. `settlePurchase` in the ledger is called by a demo script only.
