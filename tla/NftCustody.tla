----------------------------- MODULE NftCustody -----------------------------
(***************************************************************************)
(* NFTs in custody (nft.ts): deposits found by a scan, withdrawals sent by *)
(* a worker, listings at a fixed price and by auction, and the sale that   *)
(* moves an asset to the buyer at once and pays the seller.                *)
(*                                                                         *)
(* A token stays in the wallet it was deposited to; owning it is a row.    *)
(* What a buyer can pay is Market's and OrderEscrow's subject: here a      *)
(* charge is taken or refused.  Every NFT listing has one unit.            *)
(***************************************************************************)
EXTENDS Integers, FiniteSets

CONSTANTS
  Users,        \* ids of users, who may all sell
  Assets,       \* mints, and the NftAsset rows they get
  Listings,     \* ids of listings to come
  Auctions,     \* ids of auctions to come
  Requests,     \* bound: requests and settlements at the same time
  Scans,        \* bound: creditNftDeposits passes at the same time
  Workers,      \* bound: processNftWithdrawals passes at the same time
  None,         \* null
  Cap,          \* MAX_CUSTODY_PER_USER
  MaxDeposits,  \* bound: arrivals of tokens at deposit wallets
  MaxFaults     \* bound: errors and crashes

\* What an order is for: a fixed-price listing or an auction.
Sales == Listings \cup Auctions

ASSUME NftAssumption ==
  /\ None \notin Users \cup Assets \cup Sales
  /\ Listings \cap Auctions = {}
  /\ IsFiniteSet(Assets)
  /\ Cap \in Nat /\ MaxDeposits \in Nat /\ MaxFaults \in Nat

VARIABLES
  wallet,       \* the user whose deposit wallet holds a token, or None
  row,          \* NftAsset rows
  listing,      \* Listing rows
  auction,      \* Auction rows
  order,        \* the Order of a sale
  delivered,    \* history: the assets creditNftWin moved for a sale
  job,          \* in memory: a request and what it has read
  scan,         \* in memory: a pass of the deposit watcher
  worker,       \* in memory: a pass of the withdrawal worker
  deposits, faults

rowVars    == <<row, listing, auction, order, delivered>>
memoryVars == <<job, scan, worker>>
vars == <<wallet, rowVars, memoryVars, deposits, faults>>

-----------------------------------------------------------------------------
(* Types.                                                                  *)

\* An address to withdraw to is known by the user who gave it; the worker needs one.
Rows == {r \in [status : {"NONE", "HELD", "WITHDRAWING", "WITHDRAWN"},
                owner : Users \cup {None}, custodian : Users \cup {None},
                listing : Listings \cup {None}, to : Users \cup {None}] :
           r.status = "WITHDRAWING" => r.to # None}
NoRow == [status |-> "NONE", owner |-> None, custodian |-> None,
          listing |-> None, to |-> None]

\* CreateNftListingInput.mode, and fixedPrice.
Modes == {"fixed", "market", "stream"}
ListingRows == [status : {"NONE", "QUEUED", "LIVE", "SOLD", "UNSOLD", "CANCELED"},
                seller : Users \cup {None}, mode : Modes, quantity : Int]
NoListing == [status |-> "NONE", seller |-> None, mode |-> "fixed", quantity |-> 0]

AuctionRows == [status : {"NONE", "RUNNING", "SETTLING", "CLOSED"},
                listing : Listings \cup {None}]
NoAuction == [status |-> "NONE", listing |-> None]

OrderRows == [status : {"NONE", "PENDING_SETTLEMENT", "LOCKED", "RELEASED"},
              buyer : Users \cup {None}]
NoOrder == [status |-> "NONE", buyer |-> None]

\* The statement a request has come to.
Labels == {"idle", "claim", "create", "attach", "start", "cancel", "detach",
           "unit", "order", "charge", "putback", "retire", "count", "requeue",
           "sold", "credit", "release"}
Jobs == [at : Labels, u : Users \cup {None}, as : SUBSET Assets, mode : Modes,
         l : Listings \cup {None}, s : Sales \cup {None}]
Idle == [at |-> "idle", u |-> None, as |-> {}, mode |-> "fixed", l |-> None, s |-> None]

\* todo: mints without a row in custody, as it was read; room is the headroom.
ScanJobs == [at : {"idle", "read", "credit"}, u : Users \cup {None},
             todo : SUBSET Assets, room : Int]
ScanIdle == [at |-> "idle", u |-> None, todo |-> {}, room |-> 0]

\* todo: assets with their custodians, as the pass has read them.
WorkerJobs == [at : {"idle", "send", "record"}, a : Assets \cup {None},
               todo : SUBSET (Assets \X (Users \cup {None}))]
WorkerIdle == [at |-> "idle", a |-> None, todo |-> {}]

Init ==
  /\ wallet = [a \in Assets |-> None]
  /\ row = [a \in Assets |-> NoRow]
  /\ listing = [l \in Listings |-> NoListing]
  /\ auction = [x \in Auctions |-> NoAuction]
  /\ order = [s \in Sales |-> NoOrder]
  /\ delivered = [s \in Sales |-> {}]
  /\ job = [k \in Requests |-> Idle]
  /\ scan = [k \in Scans |-> ScanIdle]
  /\ worker = [k \in Workers |-> WorkerIdle]
  /\ deposits = 0 /\ faults = 0

-----------------------------------------------------------------------------
(* Helpers.                                                                *)

Free(k) == job[k] = Idle
At(k, at) == job[k].at = at
GoTo(k, at) == job' = [job EXCEPT ![k].at = at]
Done(k) == job' = [job EXCEPT ![k] = Idle]

Running(l) ==
  \E x \in Auctions : auction[x].listing = l /\ auction[x].status \in {"RUNNING", "SETTLING"}

\* LOCKING_LISTING_STATUSES, or an auction under way.
Locking(l) == listing[l].status \in {"QUEUED", "LIVE"} \/ Running(l)

\* requireUnlockedOwned.
Unlocked(u, a) ==
  /\ row[a].owner = u /\ row[a].status = "HELD"
  /\ row[a].listing # None => ~Locking(row[a].listing)

\* Slip: units are not counted.
Queued(l) == listing[l].status = "QUEUED"

\* The WHERE clause of a purchase, an unlist and a delist.
UnitLeft(l) == listing[l].status = "QUEUED" /\ listing[l].quantity > 0

AttachedTo(l) == {a \in Assets : row[a].listing = l}

-----------------------------------------------------------------------------
(* Deposits.                                                               *)

Deposit(a, u) ==
  /\ deposits < MaxDeposits
  /\ wallet[a] = None
  /\ wallet' = [wallet EXCEPT ![a] = u]
  /\ deposits' = deposits + 1
  /\ UNCHANGED <<rowVars, memoryVars, faults>>

\* nftChain.listNfts for an armed user.
ScanWallet(k, u) ==
  /\ scan[k].at = "idle"
  /\ \E a \in Assets : wallet[a] = u
  /\ scan' = [scan EXCEPT ![k] = [ScanIdle EXCEPT !.at = "read", !.u = u,
                !.todo = {a \in Assets : wallet[a] = u}]]
  /\ UNCHANGED <<wallet, rowVars, job, worker, deposits, faults>>

\* The headroom and the rows of the mints found.
ScanRows(k) ==
  LET u == scan[k].u
      held == {a \in Assets : row[a].owner = u /\ row[a].status # "WITHDRAWN"}
  IN
  /\ scan[k].at = "read"
  /\ scan' = [scan EXCEPT ![k].at = "credit",
                ![k].room = Cap - Cardinality(held),
                ![k].todo = {a \in @ : row[a].status \in {"NONE", "WITHDRAWN"}}]
  /\ UNCHANGED <<wallet, rowVars, job, worker, deposits, faults>>

\* The upsert.
Credited(a, u) == [row EXCEPT ![a] = [status |-> "HELD", owner |-> u, custodian |-> u,
                                      listing |-> None, to |-> None]]

CreditDeposit(k) ==
  /\ scan[k].at = "credit" /\ scan[k].room > 0
  /\ \E a \in scan[k].todo :
       /\ row' = Credited(a, scan[k].u)
       /\ scan' = [scan EXCEPT ![k].todo = @ \ {a}, ![k].room = @ - 1]
  /\ UNCHANGED <<wallet, listing, auction, order, delivered, job, worker, deposits, faults>>

EndScan(k) ==
  /\ scan[k].at = "credit" /\ (scan[k].todo = {} \/ scan[k].room <= 0)
  /\ scan' = [scan EXCEPT ![k] = ScanIdle]
  /\ UNCHANGED <<wallet, rowVars, job, worker, deposits, faults>>

-----------------------------------------------------------------------------
(* Withdrawals.                                                            *)

Withdraw(k, u, a) ==
  /\ Free(k) /\ Unlocked(u, a)
  /\ job' = [job EXCEPT ![k] = [Idle EXCEPT !.at = "claim", !.u = u, !.as = {a}]]
  /\ UNCHANGED <<wallet, rowVars, scan, worker, deposits, faults>>

\* updateMany WHERE ownerId and HELD: the listing is not asked for again.
ClaimWithdrawal(k) ==
  /\ At(k, "claim")
  /\ \E a \in job[k].as :
       row' = IF row[a].owner = job[k].u /\ row[a].status = "HELD"
              THEN [row EXCEPT ![a].status = "WITHDRAWING", ![a].to = job[k].u]
              ELSE row
  /\ Done(k)
  /\ UNCHANGED <<wallet, listing, auction, order, delivered, scan, worker, deposits, faults>>

\* An asset and its custodian.
Custodians(as) == {<<a, row[a].custodian>> : a \in as}

\* Slip: assets on a listing are left to the sale.
StartSendingFree(k) ==
  LET due == {a \in Assets : row[a].status = "WITHDRAWING" /\ row[a].listing = None} IN
  /\ worker[k].at = "idle" /\ due # {}
  /\ worker' = [worker EXCEPT ![k] = [WorkerIdle EXCEPT !.at = "send", !.todo = Custodians(due)]]
  /\ UNCHANGED <<wallet, rowVars, job, scan, deposits, faults>>

StartSending(k) ==
  LET due == {a \in Assets : row[a].status = "WITHDRAWING"} IN
  /\ worker[k].at = "idle" /\ due # {}
  /\ worker' = [worker EXCEPT ![k] = [WorkerIdle EXCEPT !.at = "send", !.todo = Custodians(due)]]
  /\ UNCHANGED <<wallet, rowVars, job, scan, deposits, faults>>

\* The asset of todo is dealt with, and its row is the next to be written.
SentOff(k, due) ==
  worker' = [worker EXCEPT ![k] = [at |-> "record", a |-> due[1], todo |-> @.todo \ {due}]]

\* sendNft: a token that is not in the custodian's wallet counts as sent.
Send(k) ==
  /\ worker[k].at = "send"
  /\ \E due \in worker[k].todo :
       /\ wallet' = IF wallet[due[1]] = due[2] THEN [wallet EXCEPT ![due[1]] = None]
                    ELSE wallet
       /\ SentOff(k, due)
  /\ UNCHANGED <<rowVars, job, scan, deposits, faults>>

RecordSent(k) ==
  /\ worker[k].at = "record"
  /\ row' = [row EXCEPT ![worker[k].a].status = "WITHDRAWN"]
  /\ worker' = [worker EXCEPT ![k].at = "send", ![k].a = None]
  /\ UNCHANGED <<wallet, listing, auction, order, delivered, job, scan, deposits, faults>>

EndSending(k) ==
  /\ worker[k].at = "send" /\ worker[k].todo = {}
  /\ worker' = [worker EXCEPT ![k] = WorkerIdle]
  /\ UNCHANGED <<wallet, rowVars, job, scan, deposits, faults>>

-----------------------------------------------------------------------------
(* Listing and unlisting.                                                  *)

List(k, u, as, mode) ==
  /\ Free(k)
  /\ as # {} /\ \A a \in as : Unlocked(u, a)
  /\ job' = [job EXCEPT ![k] = [Idle EXCEPT !.at = "create", !.u = u, !.as = as, !.mode = mode]]
  /\ UNCHANGED <<wallet, rowVars, scan, worker, deposits, faults>>

\* From here on the listing can be bought or started.
CreateListing(k) ==
  /\ At(k, "create")
  /\ \E l \in Listings :
       /\ listing[l] = NoListing
       /\ listing' = [listing EXCEPT ![l] = [status |-> "QUEUED", seller |-> job[k].u,
                                             mode |-> job[k].mode, quantity |-> 1]]
       /\ job' = [job EXCEPT ![k].at = "attach", ![k].l = l]
  /\ UNCHANGED <<wallet, row, auction, order, delivered, scan, worker, deposits, faults>>

\* updateMany by id: the assets are not checked again.
AttachAssets(k) ==
  /\ At(k, "attach")
  /\ row' = [a \in Assets |-> IF a \in job[k].as THEN [row[a] EXCEPT !.listing = job[k].l]
                              ELSE row[a]]
  /\ job' = [job EXCEPT ![k] = IF job[k].mode = "market"
                               THEN [Idle EXCEPT !.at = "start", !.l = job[k].l] ELSE Idle]
  /\ UNCHANGED <<wallet, listing, auction, order, delivered, scan, worker, deposits, faults>>

\* startAuctionFromListing.
StartFromListing(k, l) ==
  /\ Free(k)
  /\ UnitLeft(l)
  /\ job' = [job EXCEPT ![k] = [Idle EXCEPT !.at = "start", !.l = l]]
  /\ UNCHANGED <<wallet, rowVars, scan, worker, deposits, faults>>

\* createAuction and startAuction: the listing is LIVE whatever it was.
StartAuction(k) ==
  LET l == job[k].l IN
  /\ At(k, "start")
  /\ \E x \in Auctions :
       /\ auction[x] = NoAuction
       /\ auction' = [auction EXCEPT ![x] = [status |-> "RUNNING", listing |-> l]]
  /\ listing' = [listing EXCEPT ![l].status = "LIVE"]
  /\ Done(k)
  /\ UNCHANGED <<wallet, row, order, delivered, scan, worker, deposits, faults>>

\* unlistNftListing asks for auctions; delistMarketListing is for fixed prices.
Unlist(k, u, l) ==
  /\ Free(k)
  /\ listing[l].seller = u
  /\ listing[l].mode = "fixed" \/ ~Running(l)
  /\ job' = [job EXCEPT ![k] = [Idle EXCEPT !.at = "cancel", !.l = l]]
  /\ UNCHANGED <<wallet, rowVars, scan, worker, deposits, faults>>

CancelListing(k) ==
  LET l == job[k].l IN
  /\ At(k, "cancel")
  /\ IF UnitLeft(l)
     THEN listing' = [listing EXCEPT ![l].status = "CANCELED"] /\ GoTo(k, "detach")
     ELSE Done(k) /\ UNCHANGED listing
  /\ UNCHANGED <<wallet, row, auction, order, delivered, scan, worker, deposits, faults>>

Detached(l) == [a \in Assets |-> IF row[a].listing = l THEN [row[a] EXCEPT !.listing = None]
                                 ELSE row[a]]

DetachAssets(k) ==
  /\ At(k, "detach")
  /\ row' = Detached(job[k].l)
  /\ Done(k)
  /\ UNCHANGED <<wallet, listing, auction, order, delivered, scan, worker, deposits, faults>>

-----------------------------------------------------------------------------
(* Sales: settleMarketSale and settleAuction with their NFT branches.      *)

Buy(k, u, l) ==
  /\ Free(k)
  /\ UnitLeft(l) /\ listing[l].mode = "fixed" /\ listing[l].seller # u
  /\ job' = [job EXCEPT ![k] = [Idle EXCEPT !.at = "unit", !.u = u, !.l = l, !.s = l]]
  /\ UNCHANGED <<wallet, rowVars, scan, worker, deposits, faults>>

ClaimUnit(k) ==
  LET l == job[k].l IN
  /\ At(k, "unit")
  /\ IF UnitLeft(l)
     THEN listing' = [listing EXCEPT ![l].quantity = @ - 1] /\ GoTo(k, "order")
     ELSE Done(k) /\ UNCHANGED listing
  /\ UNCHANGED <<wallet, row, auction, order, delivered, scan, worker, deposits, faults>>

\* closeOne: nobody has bid.
CloseUnsold(x) ==
  LET l == auction[x].listing IN
  /\ auction[x].status = "RUNNING"
  /\ auction' = [auction EXCEPT ![x].status = "CLOSED"]
  /\ listing' = [listing EXCEPT ![l].status =
       IF listing[l].quantity > 0 THEN "QUEUED" ELSE "UNSOLD"]
  /\ UNCHANGED <<wallet, row, order, delivered, memoryVars, deposits, faults>>

\* closeOne, and onAuctionsClosed hands the win to settleAuction.
CloseWon(k, x, u) ==
  LET l == auction[x].listing IN
  /\ Free(k)
  /\ auction[x].status = "RUNNING" /\ listing[l].seller # u
  /\ auction' = [auction EXCEPT ![x].status = "SETTLING"]
  /\ listing' = [listing EXCEPT ![l].status = "SOLD"]
  /\ job' = [job EXCEPT ![k] = [Idle EXCEPT !.at = "order", !.u = u, !.l = l, !.s = x]]
  /\ UNCHANGED <<wallet, row, order, delivered, scan, worker, deposits, faults>>

\* Slip: the assets are handed over before the charge.
DeliverFirst(k) ==
  /\ At(k, "order")
  /\ order' = [order EXCEPT ![job[k].s] = [status |-> "PENDING_SETTLEMENT", buyer |-> job[k].u]]
  /\ GoTo(k, "credit")
  /\ UNCHANGED <<wallet, row, listing, auction, delivered, scan, worker, deposits, faults>>

CreateOrder(k) ==
  /\ At(k, "order")
  /\ order' = [order EXCEPT ![job[k].s] = [status |-> "PENDING_SETTLEMENT", buyer |-> job[k].u]]
  /\ GoTo(k, "charge")
  /\ UNCHANGED <<wallet, row, listing, auction, delivered, scan, worker, deposits, faults>>

\* escrow.lock and LOCKED.
Charge(k) ==
  /\ At(k, "charge")
  /\ order' = [order EXCEPT ![job[k].s].status = "LOCKED"]
  /\ GoTo(k, IF job[k].s \in Auctions THEN "count" ELSE "retire")
  /\ UNCHANGED <<wallet, row, listing, auction, delivered, scan, worker, deposits, faults>>

\* A buyer may lack the money; a winner's is on hold.
Refuse(k) ==
  /\ At(k, "charge") /\ job[k].s \in Listings
  /\ order' = [order EXCEPT ![job[k].s] = NoOrder]
  /\ GoTo(k, "putback")
  /\ UNCHANGED <<wallet, row, listing, auction, delivered, scan, worker, deposits, faults>>

PutBack(k) ==
  /\ At(k, "putback")
  /\ listing' = [listing EXCEPT ![job[k].l].quantity = @ + 1]
  /\ Done(k)
  /\ UNCHANGED <<wallet, row, auction, order, delivered, scan, worker, deposits, faults>>

RetireListing(k) ==
  LET l == job[k].l IN
  /\ At(k, "retire")
  /\ listing' = IF listing[l].quantity <= 0 THEN [listing EXCEPT ![l].status = "SOLD"]
                ELSE listing
  /\ GoTo(k, "credit")
  /\ UNCHANGED <<wallet, row, auction, order, delivered, scan, worker, deposits, faults>>

CountUnit(k) ==
  LET l == job[k].l IN
  /\ At(k, "count")
  /\ listing' = [listing EXCEPT ![l].quantity = @ - 1]
  /\ GoTo(k, IF listing[l].quantity > 1 THEN "requeue" ELSE "sold")
  /\ UNCHANGED <<wallet, row, auction, order, delivered, scan, worker, deposits, faults>>

\* The status by the quantity that the decrement returned.
Requeue(k) ==
  /\ job[k].at \in {"requeue", "sold"}
  /\ listing' = [listing EXCEPT ![job[k].l].status = IF At(k, "requeue") THEN "QUEUED" ELSE "SOLD"]
  /\ GoTo(k, "credit")
  /\ UNCHANGED <<wallet, row, auction, order, delivered, scan, worker, deposits, faults>>

\* Whatever is attached by now goes to the buyer.
CreditWin(k) ==
  LET l == job[k].l IN
  /\ At(k, "credit")
  /\ row' = [a \in Assets |-> IF row[a].listing = l
                              THEN [row[a] EXCEPT !.owner = job[k].u, !.listing = None]
                              ELSE row[a]]
  /\ delivered' = [delivered EXCEPT ![job[k].s] = @ \cup AttachedTo(l)]
  /\ GoTo(k, "release")
  /\ UNCHANGED <<wallet, listing, auction, order, scan, worker, deposits, faults>>

\* LOCKED to RELEASED; the money follows as in OrderEscrow.
PaySeller(k) ==
  /\ At(k, "release")
  /\ order' = [order EXCEPT ![job[k].s].status = IF @ = "LOCKED" THEN "RELEASED" ELSE @]
  /\ Done(k)
  /\ UNCHANGED <<wallet, row, listing, auction, delivered, scan, worker, deposits, faults>>

-----------------------------------------------------------------------------
(* Faults.                                                                 *)

\* A statement of a request throws; a purchase that is not charged is undone.
FailRequest(k) ==
  /\ ~Free(k)
  /\ IF At(k, "charge") /\ job[k].s \in Listings THEN GoTo(k, "putback") ELSE Done(k)
  /\ UNCHANGED <<row, wallet, scan, worker>>

\* A row cannot be read or written: the pass goes on with the next user.
FailScan(k) ==
  /\ scan[k].at # "idle"
  /\ scan' = [scan EXCEPT ![k] = ScanIdle]
  /\ UNCHANGED <<row, wallet, job, worker>>

\* sendNft or the update throws: still WITHDRAWING, and the pass goes on; it ends
\* when the update in the catch for NftAlreadySentError throws.
FailSend(k) ==
  /\ worker[k].at # "idle"
  /\ \/ /\ worker[k].at = "send"
        /\ \E due \in worker[k].todo : worker' = [worker EXCEPT ![k].todo = @ \ {due}]
     \/ /\ worker[k].at = "record"
        /\ \E todo \in {worker[k].todo, {}} :
             worker' = [worker EXCEPT ![k] = [WorkerIdle EXCEPT !.at = "send", !.todo = todo]]
  /\ UNCHANGED <<row, wallet, job, scan>>

\* getAccount throws, whatever the reason: the token counts as sent.
MisreadAccount(k) ==
  /\ worker[k].at = "send"
  /\ \E due \in worker[k].todo : SentOff(k, due)
  /\ UNCHANGED <<row, wallet, job, scan>>

Crash ==
  /\ job' = [k \in Requests |-> Idle]
  /\ scan' = [k \in Scans |-> ScanIdle]
  /\ worker' = [k \in Workers |-> WorkerIdle]
  /\ UNCHANGED <<row, wallet>>

Fault ==
  /\ faults < MaxFaults
  /\ faults' = faults + 1
  /\ \/ \E k \in Requests : FailRequest(k)
     \/ \E k \in Scans : FailScan(k)
     \/ \E k \in Workers : FailSend(k) \/ MisreadAccount(k)
     \/ Crash
  /\ UNCHANGED <<listing, auction, order, delivered, deposits>>

-----------------------------------------------------------------------------
Ask(k, u) ==
  \/ \E a \in Assets : Withdraw(k, u, a)
  \/ \E as \in SUBSET Assets, mode \in Modes : List(k, u, as, mode)
  \/ \E l \in Listings : Unlist(k, u, l) \/ Buy(k, u, l)
  \/ \E x \in Auctions : CloseWon(k, x, u)

Step(k) ==
  \/ ClaimWithdrawal(k) \/ CreateListing(k) \/ AttachAssets(k) \/ StartAuction(k)
  \/ CancelListing(k) \/ DetachAssets(k) \/ ClaimUnit(k) \/ CreateOrder(k)
  \/ Charge(k) \/ Refuse(k) \/ PutBack(k) \/ RetireListing(k) \/ CountUnit(k)
  \/ Requeue(k) \/ CreditWin(k) \/ PaySeller(k)

ScanStep(k) == ScanRows(k) \/ CreditDeposit(k) \/ EndScan(k)
WorkerStep(k) == StartSending(k) \/ Send(k) \/ RecordSent(k) \/ EndSending(k)

Next ==
  \/ \E a \in Assets, u \in Users : Deposit(a, u)
  \/ \E k \in Scans : (\E u \in Users : ScanWallet(k, u)) \/ ScanStep(k)
  \/ \E k \in Workers : WorkerStep(k)
  \/ \E k \in Requests, u \in Users : Ask(k, u)
  \/ \E k \in Requests, l \in Listings : StartFromListing(k, l)
  \/ \E k \in Requests : Step(k)
  \/ \E x \in Auctions : CloseUnsold(x)
  \/ Fault

Spec == Init /\ [][Next]_vars

\* Handlers run on, and setInterval starts the worker again and again.
Fairness ==
  /\ \A k \in Requests : WF_vars(Step(k))
  /\ \A k \in Scans : WF_vars(ScanStep(k))
  /\ \A k \in Workers : WF_vars(WorkerStep(k))

FairSpec == Spec /\ Fairness

-----------------------------------------------------------------------------
(* Properties.                                                             *)

\* Every row and handler is in its range.
TypeOK ==
  /\ wallet \in [Assets -> Users \cup {None}]
  /\ row \in [Assets -> Rows]
  /\ listing \in [Listings -> ListingRows]
  /\ auction \in [Auctions -> AuctionRows]
  /\ order \in [Sales -> OrderRows]
  /\ delivered \in [Sales -> SUBSET Assets]
  /\ job \in [Requests -> Jobs]
  /\ scan \in [Scans -> ScanJobs]
  /\ worker \in [Workers -> WorkerJobs]
  /\ deposits \in Nat /\ faults \in Nat

Standing(s) == order[s].status \in {"LOCKED", "RELEASED"}

\* Nobody owns an NFT they neither deposited nor paid for: whoever is not the
\* depositor on record is the buyer of a charged order that delivered it, however
\* listings, withdrawals and deposits of one asset race (nft.ts:360-375).
OwnersPaid ==
  \A a \in Assets : row[a].owner # row[a].custodian =>
    \E s \in Sales : Standing(s) /\ order[s].buyer = row[a].owner /\ a \in delivered[s]

\* "An unlist can never free assets a buyer just paid for" (nft.ts:345-347): a
\* listing that was taken down has no charged purchase, whenever the two race.
UnlistSparesBuyers ==
  \A l \in Listings : listing[l].status = "CANCELED" => ~Standing(l)

\* A withdrawal that was claimed is through in the end, whatever errors and
\* crashes fall between the transfer and the row (nft.ts:222-251).
WithdrawalsEnd ==
  \A a \in Assets : (row[a].status = "WITHDRAWING") ~> (row[a].status # "WITHDRAWING")

=============================================================================
