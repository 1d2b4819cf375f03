------------------------------ MODULE LiveRoom ------------------------------
(***************************************************************************)
(* What a seller's live room runs beside the bidding: giveaways            *)
(* (giveaways.ts and their timers in realtime/server.ts) and the           *)
(* randomizer, a listing whose auctions are for a spin of its wheel        *)
(* (setListingWheel, onAuctionsClosed, consumeWheelPrize).                 *)
(*                                                                         *)
(* Every await is a step.  Bids and money are Auction's and OrderEscrow's  *)
(* subject; the randomizer has no store price.                             *)
(***************************************************************************)
EXTENDS Totals

CONSTANTS
  Viewers,      \* ids of users in the room
  Seller,       \* the room's seller, who may be a viewer
  Giveaways,    \* ids of giveaways to come
  Eligible,     \* of a giveaway: who passes isEligible
  Auctions,     \* ids of auctions of the randomizer to come
  Prizes,       \* labels of wheel entries
  Pools,        \* the prize pools a seller may post: copies of each prize
  Units,        \* quantity of the listing before it is a randomizer
  Requests,     \* bound: requests at the same time
  None,         \* null
  MaxErrors, MaxCrashes \* bounds

\* The wheel column is null.
NoWheel == [p \in Prizes |-> 0]

\* A giveaway's timer and an auction's settlement run beside the requests.
Slots == Requests \cup Giveaways \cup Auctions

ASSUME LiveRoomAssumption ==
  /\ IsFiniteSet(Prizes)
  /\ Eligible \in [Giveaways -> SUBSET Viewers]
  /\ Pools \subseteq [Prizes -> Nat] /\ Units \in Nat
  /\ MaxErrors \in Nat /\ MaxCrashes \in Nat
  /\ None \notin Viewers \cup Prizes \cup Giveaways

VARIABLES
  giveaway,     \* status and winnerUserId of each giveaway, its seed
  entries,      \* GiveawayEntry rows
  past,         \* giveaways whose closesAt has come
  timers,       \* in memory: giveaways with an armed timer
  prize,        \* buyerId of the item gw_<giveaway>
  wheel, quantity, status, \* of the randomizer's listing
  auction,      \* auction.status
  order,        \* the Order of a won auction, and what it points to
  item, label,  \* its FulfillmentItem exists, and the item's prizeLabel
  drawn,        \* history: the sets of entrants a giveaway was drawn from
  overwrote,    \* history: a pool was written beside a settlement, or a settlement
                \* found the wheel empty that another had yet to write back
  job,          \* in memory: a handler and what it has read
  up, errors, crashes

giveawayVars == <<giveaway, entries, past, timers, prize, drawn>>
listingVars  == <<wheel, quantity, status>>
wheelVars    == <<listingVars, auction, order, item, label, overwrote>>
faultVars    == <<up, errors, crashes>>
vars == <<giveawayVars, wheelVars, job, faultVars>>

-----------------------------------------------------------------------------
(* Types.                                                                  *)

\* pickWinnerIndex: the same entrants have the same winner.
Draws == {f \in [(SUBSET Viewers) \ {{}} -> Viewers] : \A s \in DOMAIN f : f[s] \in s}
GiveawayRows == [status : {"NONE", "OPEN", "CLOSED"}, winner : Viewers \cup {None},
                 seed : Draws]

\* The sets of entrants that draws of a giveaway have read.
Histories == [Giveaways -> SUBSET SUBSET Viewers]

\* The statement a handler has come to.
Labels == {"idle", "announce", "insert", "list", "draw", "ship", "count", "write",
           "start", "read", "order", "unit", "requeue", "goods", "spin", "label",
           "consume"}
\* fresh: the draw read no winner; pool is a wheel, read or to be written.
Jobs == [at : Labels, g : Giveaways \cup {None}, u : Viewers \cup {None},
         fresh : BOOLEAN, seen : SUBSET Viewers, pool : [Prizes -> Nat],
         left : Int, p : Prizes \cup {None}]
Idle == [at |-> "idle", g |-> None, u |-> None, fresh |-> FALSE, seen |-> {},
         pool |-> NoWheel, left |-> 0, p |-> None]

\* Some giveaways may be over, without entrants; the listing may be sold out.
Init ==
  /\ \E f \in Draws, over \in SUBSET Giveaways :
       /\ giveaway = [g \in Giveaways |->
            [status |-> IF g \in over THEN "CLOSED" ELSE "NONE", winner |-> None, seed |-> f]]
       /\ past = over
  /\ entries = [g \in Giveaways |-> {}]
  /\ timers = {}
  /\ prize = [g \in Giveaways |-> None]
  /\ drawn = [g \in Giveaways |-> {}]
  /\ wheel = NoWheel
  /\ \/ status = "QUEUED" /\ quantity = Units
     \/ status = "SOLD" /\ quantity = 0
  /\ auction = [x \in Auctions |-> "NONE"]
  /\ order = [x \in Auctions |-> "none"]
  /\ item = [x \in Auctions |-> FALSE]
  /\ label = [x \in Auctions |-> None]
  /\ overwrote = FALSE
  /\ job = [k \in Slots |-> Idle]
  /\ up = TRUE /\ errors = 0 /\ crashes = 0

-----------------------------------------------------------------------------
(* Helpers.                                                                *)

Free(k) == up /\ job[k] = Idle
At(k, at) == job[k].at = at
GoTo(k, at) == job' = [job EXCEPT ![k].at = at]
Done(k) == job' = [job EXCEPT ![k] = Idle]

-----------------------------------------------------------------------------
(* Giveaways.                                                              *)

OpenGiveaway(k, g) ==
  /\ Free(k)
  /\ giveaway[g].status = "NONE"
  /\ giveaway' = [giveaway EXCEPT ![g].status = "OPEN"]
  /\ job' = [job EXCEPT ![k] = [Idle EXCEPT !.at = "announce", !.g = g]]
  /\ UNCHANGED <<entries, past, timers, prize, drawn, wheelVars, faultVars>>

\* Nothing else arms the timer.
AnnounceGiveaway(k) ==
  LET g == job[k].g IN
  /\ At(k, "announce")
  /\ timers' = IF giveaway[g].status = "OPEN" THEN timers \cup {g} ELSE timers
  /\ Done(k)
  /\ UNCHANGED <<giveaway, entries, past, prize, drawn, wheelVars, faultVars>>

WindowCloses(g) ==
  /\ giveaway[g].status # "NONE" /\ g \notin past
  /\ past' = past \cup {g}
  /\ UNCHANGED <<giveaway, entries, timers, prize, drawn, wheelVars, job, faultVars>>

\* enterGiveaway: the window is looked at first, the entry is written later.
EnterGiveaway(k, g, u) ==
  /\ Free(k)
  /\ giveaway[g].status = "OPEN" /\ g \notin past
  /\ u \in Eligible[g]
  /\ job' = [job EXCEPT ![k] = [Idle EXCEPT !.at = "insert", !.g = g, !.u = u]]
  /\ UNCHANGED <<giveawayVars, wheelVars, faultVars>>

InsertEntry(k) ==
  /\ At(k, "insert")
  /\ entries' = [entries EXCEPT ![job[k].g] = @ \cup {job[k].u}]
  /\ Done(k)
  /\ UNCHANGED <<giveaway, past, timers, prize, drawn, wheelVars, faultVars>>

\* drawGiveawayAndBroadcast drops the timer; drawGiveaway reads the row.
ReadGiveaway(k, g) ==
  /\ timers' = timers \ {g}
  /\ job' = [job EXCEPT ![k] =
       [Idle EXCEPT !.at = "list", !.g = g,
          !.fresh = giveaway[g].status # "CLOSED" \/ giveaway[g].winner = None]]
  /\ UNCHANGED <<giveaway, entries, past, prize, drawn, wheelVars, faultVars>>

\* Slip: the timer is ignored once it is late.
DrawOnTimeOnly(g) == Free(g) /\ g \in timers /\ g \in past /\ entries[g] # {}
                     /\ ReadGiveaway(g, g)

DrawByTimer(g) == Free(g) /\ g \in timers /\ g \in past /\ ReadGiveaway(g, g)

\* The seller draws by hand, as often as they like.
DrawByHand(k, g) == Free(k) /\ giveaway[g].status # "NONE" /\ ReadGiveaway(k, g)

ListEntrants(k) ==
  /\ At(k, "list")
  /\ job' = [job EXCEPT ![k].at = "draw", ![k].seen = entries[job[k].g]]
  /\ UNCHANGED <<giveawayVars, wheelVars, faultVars>>

CloseEmpty(k) ==
  LET g == job[k].g IN
  /\ At(k, "draw") /\ job[k].seen = {}
  /\ giveaway' = IF job[k].fresh THEN [giveaway EXCEPT ![g].status = "CLOSED"] ELSE giveaway
  /\ Done(k)
  /\ UNCHANGED <<entries, past, timers, prize, drawn, wheelVars, faultVars>>

\* The seller's own win makes no item.
DrawWinner(k) ==
  LET g == job[k].g
      u == giveaway[g].seed[job[k].seen]
  IN
  /\ At(k, "draw") /\ job[k].seen # {}
  /\ drawn' = [drawn EXCEPT ![g] = @ \cup {job[k].seen}]
  /\ giveaway' = IF job[k].fresh
                 THEN [giveaway EXCEPT ![g].status = "CLOSED", ![g].winner = u]
                 ELSE giveaway
  /\ job' = [job EXCEPT ![k] = IF u = Seller THEN Idle
                               ELSE [@ EXCEPT !.at = "ship", !.u = u]]
  /\ UNCHANGED <<entries, past, timers, prize, wheelVars, faultVars>>

\* createFulfillmentItem: the first one stays.
ShipTo(g, u) == IF prize[g] = None THEN u ELSE prize[g]

ShipPrize(k) ==
  LET g == job[k].g IN
  /\ At(k, "ship")
  /\ prize' = [prize EXCEPT ![g] = ShipTo(g, job[k].u)]
  /\ Done(k)
  /\ UNCHANGED <<giveaway, entries, past, timers, drawn, wheelVars, faultVars>>

-----------------------------------------------------------------------------
(* The wheel: setListingWheel and startAuctionFromListing.                 *)

Copies(w) == Total(w, Prizes)

SetWheel(k, pool) ==
  /\ Free(k)
  /\ status = "QUEUED"
  /\ job' = [job EXCEPT ![k] = [Idle EXCEPT !.at = "count", !.pool = pool]]
  /\ UNCHANGED <<giveawayVars, wheelVars, faultVars>>

\* order.count WHERE listingId.
CountSold(k) ==
  /\ At(k, "count")
  /\ IF \E x \in Auctions : order[x] = "by listing" THEN Done(k) ELSE GoTo(k, "write")
  /\ UNCHANGED <<giveawayVars, wheelVars, faultVars>>

\* A cleared wheel leaves the quantity alone.
WritePool(k) ==
  /\ At(k, "write")
  /\ wheel' = job[k].pool
  /\ quantity' = IF job[k].pool = NoWheel THEN quantity ELSE Copies(job[k].pool)
  /\ overwrote' = (overwrote \/ \E x \in Auctions : job[x] # Idle)
  /\ Done(k)
  /\ UNCHANGED <<giveawayVars, status, auction, order, item, label, faultVars>>

StartFromListing(k) ==
  /\ Free(k)
  /\ quantity > 0 /\ status = "QUEUED"
  /\ GoTo(k, "start")
  /\ UNCHANGED <<giveawayVars, wheelVars, faultVars>>

\* createAuction and startAuction do not look at the listing.
StartAuction(k) ==
  /\ At(k, "start")
  /\ \E x \in Auctions : /\ auction[x] = "NONE"
                         /\ auction' = [auction EXCEPT ![x] = "RUNNING"]
  /\ status' = "LIVE"
  /\ Done(k)
  /\ UNCHANGED <<giveawayVars, wheel, quantity, order, item, label, overwrote, faultVars>>

-----------------------------------------------------------------------------
(* The wheel: closeOne, settlement and the spin.                           *)

OnSaleOr(other, n) == IF n > 0 THEN "QUEUED" ELSE other

CloseUnsold(x) ==
  /\ up /\ auction[x] = "RUNNING"
  /\ auction' = [auction EXCEPT ![x] = "CLOSED"]
  /\ status' = OnSaleOr("UNSOLD", quantity)
  /\ UNCHANGED <<giveawayVars, wheel, quantity, order, item, label, overwrote, job, faultVars>>

CloseWon(x) ==
  /\ Free(x) /\ auction[x] = "RUNNING"
  /\ auction' = [auction EXCEPT ![x] = "SETTLING"]
  /\ status' = "SOLD"
  /\ GoTo(x, "read")
  /\ UNCHANGED <<giveawayVars, wheel, quantity, order, item, label, overwrote, faultVars>>

\* onAuctionsClosed reads the wheel before it settles.
ReadWheel(x) ==
  /\ At(x, "read")
  /\ job' = [job EXCEPT ![x].at = "order", ![x].pool = wheel]
  /\ overwrote' = (overwrote \/ (wheel = NoWheel /\ \E y \in Auctions : job[y].pool # NoWheel))
  /\ UNCHANGED <<giveawayVars, listingVars, auction, order, item, label, faultVars>>

\* settleAuction's order has no listingId.
CreateOrder(x) ==
  /\ At(x, "order")
  /\ order' = [order EXCEPT ![x] = "by auction"]
  /\ GoTo(x, "unit")
  /\ UNCHANGED <<giveawayVars, listingVars, auction, item, label, overwrote, faultVars>>

CountUnit(x) ==
  /\ At(x, "unit")
  /\ quantity' = quantity - 1
  /\ job' = [job EXCEPT ![x].at = "requeue", ![x].left = quantity - 1]
  /\ UNCHANGED <<giveawayVars, wheel, status, auction, order, item, label, overwrote, faultVars>>

\* From here on the next auction may start.
Requeue(x) ==
  /\ At(x, "requeue")
  /\ status' = OnSaleOr("SOLD", job[x].left)
  /\ GoTo(x, "goods")
  /\ UNCHANGED <<giveawayVars, wheel, quantity, auction, order, item, label, overwrote, faultVars>>

CreateItem(x) ==
  /\ At(x, "goods")
  /\ item' = [item EXCEPT ![x] = TRUE]
  /\ GoTo(x, "spin")
  /\ UNCHANGED <<giveawayVars, listingVars, auction, order, label, overwrote, faultVars>>

\* buildSpin: any copy of the wheel that was read.
Spin(x) ==
  /\ At(x, "spin")
  /\ IF job[x].pool = NoWheel THEN Done(x)
     ELSE \E p \in Prizes : /\ job[x].pool[p] > 0
                            /\ job' = [job EXCEPT ![x].at = "label", ![x].p = p]
  /\ UNCHANGED <<giveawayVars, wheelVars, faultVars>>

RecordPrize(x) ==
  /\ At(x, "label")
  /\ label' = IF item[x] THEN [label EXCEPT ![x] = job[x].p] ELSE label
  /\ GoTo(x, "consume")
  /\ UNCHANGED <<giveawayVars, listingVars, auction, order, item, overwrote, faultVars>>

\* Slip: the quantity is left to the settlement.
ConsumeWheelOnly(x) ==
  /\ At(x, "consume")
  /\ wheel' = [job[x].pool EXCEPT ![job[x].p] = @ - 1]
  /\ status' = OnSaleOr("SOLD", Copies(wheel'))
  /\ Done(x)
  /\ UNCHANGED <<giveawayVars, quantity, auction, order, item, label, overwrote, faultVars>>

\* consumeWheelPrize: one copy less than was read, whatever the row says now.
ConsumePrize(x) ==
  /\ At(x, "consume")
  /\ wheel' = [job[x].pool EXCEPT ![job[x].p] = @ - 1]
  /\ quantity' = Copies(wheel')
  /\ status' = OnSaleOr("SOLD", Copies(wheel'))
  /\ Done(x)
  /\ UNCHANGED <<giveawayVars, auction, order, item, label, overwrote, faultVars>>

-----------------------------------------------------------------------------
(* Faults.                                                                 *)

\* A statement throws before it has any effect.  A settlement that throws is
\* logged and the wheel spins all the same.
Fail(k) ==
  /\ errors < MaxErrors /\ job[k] # Idle
  /\ errors' = errors + 1
  /\ \/ job[k].at \in {"order", "unit", "requeue", "goods"} /\ GoTo(k, "spin")
     \/ At(k, "label") /\ GoTo(k, "consume")
     \/ /\ job[k].at \in {"announce", "insert", "list", "draw", "ship", "count",
                          "write", "start", "read", "spin", "consume"}
        /\ Done(k)
  /\ UNCHANGED <<giveawayVars, wheelVars, up, crashes>>

Crash ==
  /\ up /\ crashes < MaxCrashes
  /\ up' = FALSE /\ crashes' = crashes + 1
  /\ job' = [k \in Slots |-> Idle]
  /\ timers' = {}
  /\ UNCHANGED <<giveaway, entries, past, prize, drawn, wheelVars, errors>>

\* Slip: only the prizes of giveaways whose window is over.
BackfillPast ==
  [g \in Giveaways |->
     IF g \in past /\ giveaway[g].winner \notin {None, Seller}
     THEN ShipTo(g, giveaway[g].winner) ELSE prize[g]]

\* ensureGiveawayFulfillment.
Backfill ==
  [g \in Giveaways |->
     IF giveaway[g].status = "CLOSED" /\ giveaway[g].winner \notin {None, Seller}
     THEN ShipTo(g, giveaway[g].winner) ELSE prize[g]]

\* The server listens when the backfill is through or has failed.
Boot ==
  /\ ~up /\ up' = TRUE
  /\ \/ prize' = Backfill /\ UNCHANGED errors
     \/ errors < MaxErrors /\ errors' = errors + 1 /\ UNCHANGED prize
  /\ UNCHANGED <<giveaway, entries, past, timers, drawn, wheelVars, job, crashes>>

-----------------------------------------------------------------------------

Request(k) ==
  \/ \E g \in Giveaways : \/ OpenGiveaway(k, g) \/ DrawByHand(k, g)
                          \/ \E u \in Viewers : EnterGiveaway(k, g, u)
  \/ \E pool \in Pools : SetWheel(k, pool)
  \/ StartFromListing(k)

Step(k) ==
  \/ AnnounceGiveaway(k) \/ InsertEntry(k) \/ ListEntrants(k) \/ CloseEmpty(k)
  \/ DrawWinner(k) \/ ShipPrize(k) \/ CountSold(k) \/ WritePool(k) \/ StartAuction(k)
  \/ ReadWheel(k) \/ CreateOrder(k) \/ CountUnit(k) \/ Requeue(k) \/ CreateItem(k)
  \/ Spin(k) \/ RecordPrize(k) \/ ConsumePrize(k)

Next ==
  \/ \E k \in Requests : Request(k)
  \/ \E g \in Giveaways : WindowCloses(g) \/ DrawByTimer(g)
  \/ \E x \in Auctions : CloseUnsold(x) \/ CloseWon(x)
  \/ \E k \in Slots : Step(k) \/ Fail(k)
  \/ Crash \/ Boot

Spec == Init /\ [][Next]_vars

\* Handlers run on, time passes, setTimeout fires, and the process is restarted.
Fairness ==
  /\ \A k \in Slots : WF_vars(Step(k))
  /\ \A g \in Giveaways : WF_vars(WindowCloses(g)) /\ WF_vars(DrawByTimer(g))
  /\ WF_vars(Boot)

FairSpec == Spec /\ Fairness

-----------------------------------------------------------------------------
(* Properties.                                                             *)

\* Every row, timer and handler is in its range.
TypeOK ==
  /\ giveaway \in [Giveaways -> GiveawayRows]
  /\ entries \in [Giveaways -> SUBSET Viewers]
  /\ past \subseteq Giveaways /\ timers \subseteq Giveaways
  /\ prize \in [Giveaways -> Viewers \cup {None}]
  /\ drawn \in Histories
  /\ wheel \in [Prizes -> Nat] /\ quantity \in Int
  /\ status \in {"QUEUED", "LIVE", "SOLD", "UNSOLD"}
  /\ auction \in [Auctions -> {"NONE", "RUNNING", "SETTLING", "CLOSED"}]
  /\ order \in [Auctions -> {"none", "by auction", "by listing"}]
  /\ item \in [Auctions -> BOOLEAN] /\ label \in [Auctions -> Prizes \cup {None}]
  /\ overwrote \in BOOLEAN /\ up \in BOOLEAN
  /\ job \in [Slots -> Jobs]
  /\ errors \in Nat /\ crashes \in Nat

\* A giveaway that was opened ends by itself at the close of its window, unless
\* an error or a restart lost its timer (realtime/server.ts:269-275).
EveryGiveawayEnds ==
  \A g \in Giveaways :
    (giveaway[g].status = "OPEN") ~> (giveaway[g].status = "CLOSED" \/ errors + crashes > 0)

\* "Idempotent: entry is frozen once the window closes" (giveaways.ts:154): the
\* draws of a giveaway have all read the same entrants.
Frozen(g) == \A s, t \in drawn[g] : s = t

\* A winner on record gets the prize as an item to ship, through any crash: what a
\* draw has left undone, the backfill at the next start does, and it is the same
\* winner's however often and by whomever the giveaway is drawn, as long as no
\* entry came between two draws (giveaways.ts:159-277).
EveryPrizeShips ==
  \A g \in Giveaways :
    (giveaway[g].winner \notin {None, Seller}) ~>
      (prize[g] = giveaway[g].winner \/ ~Frozen(g) \/ errors > 0)

\* "The wheel and the listing can't drift apart" (realtime/server.ts:772-774): when all
\* handlers are through, there are as many units on sale as copies on the wheel,
\* however settlements, spins, auctions and pools of one listing overlap, unless a
\* pool was written beside a settlement, a settlement came to a wheel that was empty for
\* the moment, or a fault cut a handler off.
WheelMatchesStock ==
  (errors + crashes = 0 /\ ~overwrote /\ \A k \in Slots : job[k] = Idle) =>
    wheel = NoWheel \/ quantity = Copies(wheel)

\* "Once a unit has sold, the pool is fixed: consumeWheelPrize is the only thing
\* allowed to change it from then on" (listings.ts:200-202): no step after a sale
\* puts a copy on the wheel.
PoolIsFixed ==
  [][\A x \in Auctions : order[x] # "none" => \A p \in Prizes : wheel'[p] <= wheel[p]]_vars

-----------------------------------------------------------------------------
(* What comments of the code promise and the code does not keep.           *)

\* giveaways.ts: "recomputing from the stored seed always yields the same winner".
WinnerGetsThePrize ==
  \A g \in Giveaways : prize[g] \in {None, giveaway[g].winner}

=============================================================================
