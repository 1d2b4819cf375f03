--------------------------- MODULE MarketProofs -----------------------------
(***************************************************************************)
(* Theorems about Market for every set of users, offers, listings, orders  *)
(* and concurrent handlers, every price and any number of faults: no unit  *)
(* is sold twice, every open offer is backed by its hold, holds are real   *)
(* money, an accepted offer is one whose buyer was charged, and, without   *)
(* faults, no hold, unit or order is ever stranded.                        *)
(***************************************************************************)
EXTENDS Market, TotalsProofs

ClosedStatus == {"ACCEPTED", "DECLINED", "CANCELED", "EXPIRED"}

\* The labels of an offer that is being made.
MakeLabels == {"previous", "retire", "unhold"}

\* The labels at which a unit is off the shelf for a handler without an order
\* that stands, and those at which it has an order to charge.
TakeLabels == {"order", "charge", "record", "undo", "putback"}
HoldLabels == {"charge", "record", "undo"}

\* The labels of a sale, and those after its charge.
SaleLabels == TakeLabels \cup {"unit", "stock", "sold", "goods", "ship", "pack"}
PaidLabels == {"stock", "sold", "goods", "ship", "pack"}

\* What a handler in memory may rely on, given the offers and orders.
Fits(j, of, or) ==
  /\ j.at \in MakeLabels => j.o \in Offers /\ of[j.o] = "NONE"
  /\ j.at \in {"retire", "unhold"} => \A p \in j.todo : of[p] # "NONE"
  /\ j.at \in {"unhold", "free"} => j.row \in Offers /\ of[j.row] \in ClosedStatus
  /\ j.at = "yield" => j.o \in Offers /\ of[j.o] \in ClosedStatus
  /\ j.at \in {"claim", "lapse"} => j.o \in Offers
  /\ j.at \in {"close", "counter"} => j.row \in Offers
  /\ j.at = "close" => j.to \in ClosedStatus \ {"ACCEPTED"}
  /\ j.at \in SaleLabels \cup {"claim", "yield"} => j.l \in Listings /\ j.u \in Users
  /\ j.at \in HoldLabels \cup PaidLabels => j.r \in Orders
  /\ j.at \in HoldLabels =>
       or[j.r].status = "PENDING_SETTLEMENT" /\ or[j.r].listing = j.l /\ or[j.r].via = j.o

JobsFit == \A k \in Slots : Fits(job[k], offer, order)

Making(k) == job[k].at \in MakeLabels
Holding(k) == job[k].at \in HoldLabels
Taking(k, l) == job[k].at \in TakeLabels /\ job[k].l = l

OneMaker == \A k, h \in Slots : Making(k) /\ Making(h) /\ job[k].o = job[h].o => k = h
OneHolder == \A k, h \in Slots : Holding(k) /\ Holding(h) /\ job[k].r = job[h].r => k = h

\* The units on the shelf, with the handlers and sold, are those there were.
Takers(l) == {k \in Slots : Taking(k, l)}
Stocked(l) ==
  quantity[l] + Cardinality(StandingOrders(l)) + Cardinality(Takers(l)) <= Stock[l]
AllStocked == \A l \in Listings : Stocked(l)

\* The inductive invariant.
Inv == /\ TypeOK /\ JobsFit /\ OneMaker /\ OneHolder
       /\ HoldsCovered /\ OpenOffersAreBacked /\ AllStocked

-----------------------------------------------------------------------------
(* Steps of one handler.                                                   *)

\* The part of TypeOK about everything but handlers, offers and orders.
RowsOK ==
  /\ settled \in [Users -> Nat]
  /\ held \in [Offers -> HoldStatus] /\ overdue \subseteq Offers
  /\ status \in [Listings -> {"QUEUED", "SOLD", "CANCELED"}]
  /\ quantity \in [Listings -> Nat]
  /\ charged \subseteq Orders
  /\ item \in [Orders -> {"none", "READY_TO_SHIP", "IN_SHIPMENT"}]
  /\ shipPaid \subseteq Orders
  /\ faults \in 0..MaxFaults

\* Only the handler in slot k moves.
Touches(k) ==
  /\ job' \in [Slots -> Jobs]
  /\ \A h \in Slots \ {k} : job'[h] = job[h]

\* An offer comes up only by the handler that makes it, and closes for good.
OffersMove(k) ==
  /\ offer' \in [Offers -> OfferStatus]
  /\ \A x \in Offers :
       /\ (offer[x] = "NONE" /\ ~(Making(k) /\ job[k].o = x)) => offer'[x] = "NONE"
       /\ offer[x] # "NONE" => offer'[x] # "NONE"
       /\ offer[x] \in ClosedStatus => offer'[x] \in ClosedStatus

\* A pending order is moved only by the handler that is charging it.
OrdersMove(k) ==
  /\ order' \in [Orders -> OrderRows]
  /\ \A r \in Orders :
       (order[r].status = "PENDING_SETTLEMENT" /\ ~(Holding(k) /\ job[k].r = r)) =>
         order'[r] = order[r]

\* Offers to make are fresh, and orders to charge new.
MakesFairly(k) ==
  Making(k)' =>
    \/ Making(k) /\ job'[k].o = job[k].o
    \/ \A h \in Slots \ {k} : job[h].o # job'[k].o

HoldsFairly(k) ==
  Holding(k)' =>
    \/ Holding(k) /\ job'[k].r = job[k].r
    \/ order[job'[k].r] = NoOrder

\* Handlers after a step of one of them.
LEMMA JobsKeep ==
  ASSUME Inv, NEW k \in Slots, Touches(k), OffersMove(k), OrdersMove(k),
         MakesFairly(k), HoldsFairly(k), Fits(job'[k], offer', order')
  PROVE  JobsFit' /\ OneMaker' /\ OneHolder'
<1>1. ASSUME NEW h \in Slots, h # k
      PROVE  /\ job'[h] = job[h] /\ Fits(job[h], offer, order) /\ job[h] \in Jobs
             /\ Making(h)' <=> Making(h)
             /\ Holding(h)' <=> Holding(h)
  BY <1>1 DEF Touches, Inv, JobsFit, TypeOK, Making, Holding
<1>2. JobsFit'
  <2>1. ASSUME NEW h \in Slots, h # k
        PROVE  Fits(job'[h], offer', order')
    <3> DEFINE j == job[h]
    <3>1. j \in Jobs /\ Fits(j, offer, order) /\ job'[h] = j
      BY <1>1, <2>1
    <3>2. j.at \in MakeLabels => j.o \in Offers /\ offer'[j.o] = "NONE"
      BY <2>1, <3>1 DEF Fits, OffersMove, Inv, OneMaker, Making
    <3>3. j.at \in {"retire", "unhold"} => \A p \in j.todo : offer'[p] # "NONE"
      BY <3>1 DEF Fits, OffersMove, Jobs
    <3>4. j.at \in {"unhold", "free"} => j.row \in Offers /\ offer'[j.row] \in ClosedStatus
      BY <3>1 DEF Fits, OffersMove
    <3>5. j.at = "yield" => j.o \in Offers /\ offer'[j.o] \in ClosedStatus
      BY <3>1 DEF Fits, OffersMove
    <3>6. j.at \in HoldLabels =>
            /\ order'[j.r].status = "PENDING_SETTLEMENT"
            /\ order'[j.r].listing = j.l /\ order'[j.r].via = j.o
      BY <2>1, <3>1 DEF Fits, OrdersMove, Inv, OneHolder, Holding
    <3>7. QED
      BY <3>1, <3>2, <3>3, <3>4, <3>5, <3>6 DEF Fits
  <2>2. QED
    BY <2>1 DEF JobsFit
<1>3. OneMaker'
  <2>1. ASSUME NEW h \in Slots, h # k, Making(h)', Making(k)'
        PROVE  job'[h].o # job'[k].o
    BY <1>1, <2>1 DEF MakesFairly, Inv, OneMaker
  <2>2. ASSUME NEW g \in Slots, NEW h \in Slots, Making(g)', Making(h)',
               job'[g].o = job'[h].o
        PROVE  g = h
    <3>1. CASE g = k \/ h = k
      BY <2>1, <2>2, <3>1
    <3>2. CASE g # k /\ h # k
      BY <1>1, <2>2, <3>2 DEF Inv, OneMaker
    <3>3. QED
      BY <3>1, <3>2
  <2>3. QED
    BY <2>2 DEF OneMaker
<1>4. OneHolder'
  <2>1. ASSUME NEW h \in Slots, h # k, Holding(h)', Holding(k)'
        PROVE  job'[h].r # job'[k].r
    <3>1. Holding(h) /\ order[job[h].r].status = "PENDING_SETTLEMENT" /\ job'[h] = job[h]
      BY <1>1, <2>1 DEF Holding, Fits
    <3>2. order[job[h].r] # NoOrder
      BY <3>1 DEF NoOrder
    <3>3. QED
      BY <2>1, <3>1, <3>2 DEF HoldsFairly, Inv, OneHolder
  <2>2. ASSUME NEW g \in Slots, NEW h \in Slots, Holding(g)', Holding(h)',
               job'[g].r = job'[h].r
        PROVE  g = h
    <3>1. CASE g = k \/ h = k
      BY <2>1, <2>2, <3>1
    <3>2. CASE g # k /\ h # k
      BY <1>1, <2>2, <3>2 DEF Inv, OneHolder
    <3>3. QED
      BY <3>1, <3>2
  <2>3. QED
    BY <2>2 DEF OneHolder
<1>5. QED
  BY <1>2, <1>3, <1>4

LEMMA HandlerStep ==
  ASSUME Inv, NEW k \in Slots, Touches(k), OffersMove(k), OrdersMove(k),
         MakesFairly(k), HoldsFairly(k), Fits(job'[k], offer', order'),
         RowsOK', HoldsCovered', OpenOffersAreBacked', AllStocked'
  PROVE  Inv'
<1>1. TypeOK'
  BY DEF TypeOK, RowsOK, Touches, OffersMove, OrdersMove
<1>2. QED
  BY <1>1, JobsKeep DEF Inv

-----------------------------------------------------------------------------
(* Units.                                                                  *)

LEMMA FiniteUnits ==
  ASSUME NEW l
  PROVE  /\ IsFiniteSet(StandingOrders(l)) /\ Cardinality(StandingOrders(l)) \in Nat
         /\ IsFiniteSet(Takers(l)) /\ Cardinality(Takers(l)) \in Nat
<1>1. IsFiniteSet(StandingOrders(l)) /\ IsFiniteSet(Takers(l))
  BY MarketAssumption, FS_Subset DEF StandingOrders, Takers
<1>2. QED
  BY <1>1, FS_CardinalityType

LEMMA FiniteUnitsNext ==
  ASSUME NEW l
  PROVE  /\ IsFiniteSet(StandingOrders(l)') /\ Cardinality(StandingOrders(l)') \in Nat
         /\ IsFiniteSet(Takers(l)') /\ Cardinality(Takers(l)') \in Nat
<1>1. IsFiniteSet(StandingOrders(l)') /\ IsFiniteSet(Takers(l)')
  BY MarketAssumption, FS_Subset DEF StandingOrders, Takers
<1>2. QED
  BY <1>1, FS_CardinalityType

\* Fewer handlers and orders leave room on the shelf.
LEMMA FewerUnits ==
  ASSUME Inv, NEW l \in Listings, quantity'[l] = quantity[l],
         StandingOrders(l)' \subseteq StandingOrders(l), Takers(l)' \subseteq Takers(l)
  PROVE  Stocked(l)'
<1>1. /\ Cardinality(StandingOrders(l)') <= Cardinality(StandingOrders(l))
      /\ Cardinality(Takers(l)') <= Cardinality(Takers(l))
  BY FiniteUnits, FS_Subset
<1>2. Stocked(l) /\ quantity[l] \in Nat /\ Stock[l] \in Nat
  BY MarketAssumption DEF Inv, AllStocked, TypeOK
<1>3. QED
  BY <1>1, <1>2, FiniteUnits, FiniteUnitsNext DEF Stocked

\* A step that takes no unit from the shelf and makes no order stand.
OrdersStand ==
  \A r \in Orders : order'[r].status = "LOCKED" =>
    order[r].status = "LOCKED" /\ order'[r].listing = order[r].listing

TakesOn(k) == \A l \in Listings : Taking(k, l)' => Taking(k, l)

LEMMA QuietUnits ==
  ASSUME Inv, NEW k \in Slots, Touches(k), quantity' = quantity, OrdersStand, TakesOn(k)
  PROVE  AllStocked'
<1> SUFFICES ASSUME NEW l \in Listings PROVE Stocked(l)'
  BY DEF AllStocked
<1>1. StandingOrders(l)' \subseteq StandingOrders(l)
  BY DEF StandingOrders, OrdersStand
<1>2. Takers(l)' \subseteq Takers(l)
  BY DEF Takers, Taking, TakesOn, Touches
<1>3. QED
  BY <1>1, <1>2, FewerUnits

-----------------------------------------------------------------------------
(* Holds.                                                                  *)

LEMMA HoldsNat ==
  ASSUME NEW u \in Users
  PROVE  ActiveHolds(u) \in Nat
<1> DEFINE f == [o \in Offers |-> IF held[o] = "ACTIVE" /\ Bidder[o] = u THEN Reserve(o) ELSE 0]
<1>1. \A o \in Offers : f[o] \in Nat
  BY MarketAssumption DEF Reserve
<1>2. Total(f, Offers) \in Nat
  BY <1>1, MarketAssumption, TotalNat
<1>3. QED
  BY <1>2 DEF ActiveHolds

LEMMA HoldsSame ==
  ASSUME NEW u \in Users, held' = held
  PROVE  ActiveHolds(u)' = ActiveHolds(u)
BY DEF ActiveHolds

\* TotalUpdate for a sum over the offers.
LEMMA OffersUpdate ==
  ASSUME NEW f, NEW g, NEW o \in Offers,
         \A x \in Offers : f[x] \in Int,
         g[o] \in Int,
         \A x \in Offers \ {o} : g[x] = f[x]
  PROVE  Total(g, Offers) = Total(f, Offers) - f[o] + g[o]
<1>1. IsFiniteSet(Offers)
  BY MarketAssumption
<1>2. QED
  BY <1>1, TotalUpdate

\* Holds after one of them changes.
LEMMA HoldsChange ==
  ASSUME Inv, NEW u \in Users, NEW o \in Offers, NEW st \in HoldStatus,
         held' = [held EXCEPT ![o] = st]
  PROVE  /\ ActiveHolds(u)' \in Nat
         /\ (st # "ACTIVE" \/ Bidder[o] # u) => ActiveHolds(u)' <= ActiveHolds(u)
         /\ ActiveHolds(u)' <= ActiveHolds(u) + Reserve(o)
<1> DEFINE f == [x \in Offers |-> IF held[x] = "ACTIVE" /\ Bidder[x] = u THEN Reserve(x) ELSE 0]
           g == [x \in Offers |-> IF held'[x] = "ACTIVE" /\ Bidder[x] = u THEN Reserve(x) ELSE 0]
<1>1. held \in [Offers -> HoldStatus]
  BY DEF Inv, TypeOK
<1>2. \A x \in Offers : f[x] \in Nat /\ g[x] \in Nat /\ Reserve(x) \in Nat
  BY MarketAssumption DEF Reserve
<1>3. held'[o] = st /\ \A x \in Offers \ {o} : held'[x] = held[x]
  BY <1>1
<1>4. \A x \in Offers \ {o} : g[x] = f[x]
  BY <1>3
<1>5. Total(f, Offers) = ActiveHolds(u) /\ Total(g, Offers) = ActiveHolds(u)'
  BY DEF ActiveHolds
<1>6. Total(g, Offers) = Total(f, Offers) - f[o] + g[o]
  <2>1. (\A x \in Offers : f[x] \in Int) /\ g[o] \in Int
    BY <1>2
  <2> HIDE DEF f, g
  <2>2. QED
    BY <1>4, <2>1, OffersUpdate
<1>7. Total(f, Offers) \in Nat /\ Total(g, Offers) \in Nat
  BY <1>2, MarketAssumption, TotalNat
<1>8. g[o] <= Reserve(o) /\ ((st # "ACTIVE" \/ Bidder[o] # u) => g[o] = 0)
  BY <1>2, <1>3
<1>9. f[o] \in Nat /\ g[o] \in Nat /\ Reserve(o) \in Nat
  BY <1>2
<1> HIDE DEF f, g
<1>10. QED
  BY <1>5, <1>6, <1>7, <1>8, <1>9

\* Releasing an offer that is closed leaves holds covered and open offers backed.
LEMMA ReleaseKeeps ==
  ASSUME Inv, NEW o \in Offers, offer[o] \in ClosedStatus, held' = Released(o),
         settled' = settled, offer' = offer
  PROVE  /\ held' \in [Offers -> HoldStatus]
         /\ HoldsCovered' /\ OpenOffersAreBacked'
<1>1. PICK st \in HoldStatus : st = (IF held[o] = "ACTIVE" THEN "RELEASED" ELSE held[o])
  BY DEF Inv, TypeOK, HoldStatus
<1>2. held' = [held EXCEPT ![o] = st] /\ st # "ACTIVE"
  BY <1>1 DEF Released, Inv, TypeOK
<1>3. held' \in [Offers -> HoldStatus] /\ \A x \in Offers \ {o} : held'[x] = held[x]
  BY <1>2 DEF Inv, TypeOK
<1>4. HoldsCovered'
  <2> SUFFICES ASSUME NEW u \in Users PROVE ActiveHolds(u)' <= settled'[u]
    BY DEF HoldsCovered
  <2>1. ActiveHolds(u)' <= ActiveHolds(u) /\ ActiveHolds(u)' \in Nat
    BY <1>2, HoldsChange
  <2>2. ActiveHolds(u) <= settled[u] /\ settled[u] \in Nat /\ ActiveHolds(u) \in Nat
    BY HoldsNat DEF Inv, HoldsCovered, TypeOK
  <2>3. QED
    BY <2>1, <2>2
<1>5. OpenOffersAreBacked'
  BY <1>3 DEF Inv, OpenOffersAreBacked, ClosedStatus
<1>6. QED
  BY <1>3, <1>4, <1>5

\* Nobody can spend what is on hold.
LEMMA SpendKeeps ==
  ASSUME Inv, NEW u \in Users, NEW n \in Nat, Available(u) >= n,
         settled' = [settled EXCEPT ![u] = @ - n], held' = held
  PROVE  settled' \in [Users -> Nat] /\ HoldsCovered'
<1>1. \A v \in Users : ActiveHolds(v) \in Nat /\ ActiveHolds(v)' = ActiveHolds(v)
                       /\ settled[v] \in Nat /\ ActiveHolds(v) <= settled[v]
  BY HoldsNat, HoldsSame DEF Inv, TypeOK, HoldsCovered
<1>2. settled[u] - n \in Nat /\ ActiveHolds(u) <= settled[u] - n
  BY <1>1 DEF Available
<1>3. settled' \in [Users -> Nat] /\ settled'[u] = settled[u] - n
      /\ \A v \in Users \ {u} : settled'[v] = settled[v]
  BY <1>2 DEF Inv, TypeOK
<1>4. HoldsCovered'
  BY <1>1, <1>2, <1>3 DEF HoldsCovered
<1>5. QED
  BY <1>3, <1>4

\* Nothing about money moves.
LEMMA MoneySame ==
  ASSUME Inv, held' = held, settled' = settled
  PROVE  HoldsCovered'
BY HoldsSame DEF Inv, HoldsCovered

-----------------------------------------------------------------------------
(* What the helpers do to a handler.                                       *)

\* The handler in slot k becomes j.
LEMMA Becoming ==
  ASSUME Inv, NEW k \in Slots, NEW j \in Jobs, job' = [job EXCEPT ![k] = j]
  PROVE  Touches(k) /\ job'[k] = j
BY DEF Inv, TypeOK, Touches

LEMMA GoToJob ==
  ASSUME Inv, NEW k \in Slots, NEW at \in Labels, GoTo(k, at)
  PROVE  /\ Touches(k) /\ job'[k].at = at
         /\ job'[k].o = job[k].o /\ job'[k].row = job[k].row /\ job'[k].to = job[k].to
         /\ job'[k].todo = job[k].todo /\ job'[k].u = job[k].u /\ job'[k].l = job[k].l
         /\ job'[k].price = job[k].price /\ job'[k].r = job[k].r
<1>1. job \in [Slots -> Jobs] /\ job' = [job EXCEPT ![k].at = at]
  BY DEF Inv, TypeOK, GoTo
<1>2. job[k] \in Jobs /\ job'[k] = [job[k] EXCEPT !.at = at]
  BY <1>1
<1>3. job'[k] \in Jobs
  BY <1>2 DEF Jobs
<1>4. job' \in [Slots -> Jobs] /\ \A h \in Slots \ {k} : job'[h] = job[h]
  BY <1>1, <1>3
<1>5. QED
  BY <1>2, <1>4 DEF Touches, Jobs

LEMMA IdleJob == Idle \in Jobs /\ Idle.at = "idle" /\ Idle.o = None
BY DEF Idle, Jobs, Labels, OfferStatus

LEMMA DoneJob ==
  ASSUME Inv, NEW k \in Slots, Done(k)
  PROVE  Touches(k) /\ job'[k] = Idle
BY IdleJob, Becoming DEF Done

\* A handler that neither makes an offer nor has a unit in its hands.
LEMMA PlainJob ==
  ASSUME NEW k \in Slots, job'[k].at \notin MakeLabels \cup TakeLabels
  PROVE  MakesFairly(k) /\ HoldsFairly(k) /\ TakesOn(k)
BY DEF MakesFairly, HoldsFairly, TakesOn, Making, Holding, Taking, TakeLabels, HoldLabels

\* A handler that goes on with what it has.
LEMMA OldJob ==
  ASSUME NEW k \in Slots, job'[k].o = job[k].o, job'[k].l = job[k].l, job'[k].r = job[k].r,
         job'[k].at \in MakeLabels => job[k].at \in MakeLabels,
         job'[k].at \in HoldLabels => job[k].at \in HoldLabels,
         job'[k].at \in TakeLabels => job[k].at \in TakeLabels
  PROVE  MakesFairly(k) /\ HoldsFairly(k) /\ TakesOn(k)
BY DEF MakesFairly, HoldsFairly, TakesOn, Making, Holding, Taking

\* A handler at the end of a sale, or at the end.
LEMMA EndJob ==
  ASSUME Inv, NEW k \in Slots, Done(k) \/ Lose(k) \/ Sold(k)
  PROVE  /\ Touches(k) /\ job'[k].at \in {"idle", "lapse", "link"}
         /\ MakesFairly(k) /\ HoldsFairly(k) /\ TakesOn(k)
         /\ Fits(job'[k], offer', order')
<1>1. job[k] \in Jobs
  BY DEF Inv, TypeOK
<1>2. /\ Touches(k) /\ job'[k].at \in {"idle", "lapse", "link"}
      /\ job'[k].at = "lapse" => job'[k].o \in Offers
  <2>1. CASE Done(k)
    BY <2>1, DoneJob, IdleJob
  <2>2. CASE job[k].o # None /\ (GoTo(k, "lapse") \/ GoTo(k, "link"))
    BY <1>1, <2>2, GoToJob DEF Jobs, Labels
  <2>3. QED
    BY <2>1, <2>2 DEF Lose, Sold
<1>3. Fits(job'[k], offer', order')
  BY <1>2 DEF Fits, MakeLabels, SaleLabels, TakeLabels, HoldLabels, PaidLabels
<1>4. QED
  BY <1>2, <1>3, PlainJob DEF MakeLabels, TakeLabels

\* Offers and orders stay.
LEMMA SameOffers ==
  ASSUME Inv, NEW k \in Slots, offer' = offer
  PROVE  OffersMove(k)
BY DEF Inv, TypeOK, OffersMove

LEMMA SameOrders ==
  ASSUME Inv, NEW k \in Slots, order' = order
  PROVE  OrdersMove(k) /\ OrdersStand
BY DEF Inv, TypeOK, OrdersMove, OrdersStand

\* A handler that only reads, fails or ends.
LEMMA ReadStep ==
  ASSUME Inv, NEW k \in Slots, Touches(k), MakesFairly(k), HoldsFairly(k), TakesOn(k),
         Fits(job'[k], offer, order), faults' \in 0..MaxFaults,
         UNCHANGED <<moneyVars, offerVars, listingVars, order, item>>
  PROVE  Inv'
<1>1. offer' = offer /\ order' = order /\ quantity' = quantity /\ held' = held
      /\ settled' = settled
  BY DEF moneyVars, offerVars, listingVars
<1>2. RowsOK'
  BY DEF Inv, TypeOK, RowsOK, moneyVars, offerVars, listingVars
<1>3. OpenOffersAreBacked'
  BY <1>1 DEF Inv, OpenOffersAreBacked
<1>4. QED
  BY <1>1, <1>2, <1>3, SameOffers, SameOrders, QuietUnits, MoneySame, HandlerStep

\* Such a handler begins, neither with an offer to make nor with a unit.
LEMMA BeginStep ==
  ASSUME Inv, NEW k \in Slots, NEW j \in Jobs, job' = [job EXCEPT ![k] = j],
         j.at \in {"close", "counter", "claim", "unit", "next"},
         j.at \in {"close", "counter"} => j.row \in Offers,
         j.at = "close" => j.to \in ClosedStatus \ {"ACCEPTED"},
         j.at = "claim" => j.o \in Offers,
         j.at \in {"claim", "unit"} => j.l \in Listings /\ j.u \in Users,
         UNCHANGED <<moneyVars, offerVars, listingVars, order, item, faults>>
  PROVE  Inv'
<1>1. Touches(k) /\ job'[k] = j
  BY Becoming
<1>2. Fits(j, offer, order)
  BY DEF Fits, MakeLabels, SaleLabels, TakeLabels, HoldLabels, PaidLabels
<1>3. MakesFairly(k) /\ HoldsFairly(k) /\ TakesOn(k)
  BY <1>1, PlainJob DEF MakeLabels, TakeLabels
<1>4. QED
  BY <1>1, <1>2, <1>3, ReadStep DEF Inv, TypeOK

-----------------------------------------------------------------------------
(* Making an offer.                                                        *)

LEMMA MakeOfferStep ==
  ASSUME Inv, NEW k \in Slots, NEW o \in Offers, MakeOffer(k, o)
  PROVE  Inv'
<1>1. PICK j \in Jobs : j = [Idle EXCEPT !.at = "previous", !.o = o]
  BY IdleJob DEF Idle, Jobs, Labels
<1>2. j.at = "previous" /\ j.o = o
  BY <1>1, IdleJob DEF Jobs
<1>3. Touches(k) /\ job'[k] = j
  BY <1>1, Becoming DEF MakeOffer
<1>4. offer[o] = "NONE" /\ \A h \in Slots : job[h].o # o
  BY DEF MakeOffer, Fresh
<1>5. Fits(j, offer, order)
  BY <1>2, <1>4 DEF Fits, MakeLabels, SaleLabels, TakeLabels, HoldLabels, PaidLabels
<1>6. MakesFairly(k) /\ HoldsFairly(k) /\ TakesOn(k)
  BY <1>2, <1>3, <1>4 DEF MakesFairly, HoldsFairly, TakesOn, Making, Holding, Taking,
    TakeLabels, HoldLabels
<1>7. QED
  BY <1>3, <1>5, <1>6, ReadStep DEF MakeOffer, Inv, TypeOK

LEMMA FindPreviousStep ==
  ASSUME Inv, NEW k \in Slots, FindPrevious(k)
  PROVE  Inv'
<1>1. PICK t \in SUBSET Offers : /\ \A p \in t : Open(p)
                                 /\ job' = [job EXCEPT ![k].at = "retire", ![k].todo = t]
  BY DEF FindPrevious
<1>2. job[k] \in Jobs /\ Fits(job[k], offer, order) /\ job[k].at = "previous"
  BY DEF Inv, TypeOK, JobsFit, FindPrevious, At
<1>3. PICK j \in Jobs : j = [job[k] EXCEPT !.at = "retire", !.todo = t]
  BY <1>2 DEF Jobs, Labels
<1>4. j.at = "retire" /\ j.todo = t /\ j.o = job[k].o /\ j.l = job[k].l /\ j.r = job[k].r
  BY <1>2, <1>3 DEF Jobs
<1>5. Touches(k) /\ job'[k] = j
  <2>1. job' = [job EXCEPT ![k] = j]
    BY <1>1, <1>3 DEF Inv, TypeOK
  <2>2. QED
    BY <2>1, Becoming
<1>6. Fits(j, offer, order)
  BY <1>1, <1>2, <1>4 DEF Fits, MakeLabels, SaleLabels, TakeLabels, HoldLabels, PaidLabels, Open
<1>7. MakesFairly(k) /\ HoldsFairly(k) /\ TakesOn(k)
  BY <1>2, <1>4, <1>5, OldJob DEF MakeLabels, HoldLabels, TakeLabels
<1>8. QED
  BY <1>5, <1>6, <1>7, ReadStep DEF FindPrevious, Inv, TypeOK

\* One open offer closes, or has closed already.
LEMMA OfferCloses ==
  ASSUME Inv, NEW k \in Slots, NEW o \in Offers, NEW st \in ClosedStatus,
         offer[o] # "NONE", offer' = [offer EXCEPT ![o] = st], held' = held
  PROVE  OffersMove(k) /\ offer'[o] = st /\ OpenOffersAreBacked'
<1>1. st \in OfferStatus /\ st # "NONE" /\ st \notin {"PENDING", "COUNTERED"}
  BY DEF ClosedStatus, OfferStatus
<1>2. offer' \in [Offers -> OfferStatus] /\ offer'[o] = st
      /\ \A x \in Offers \ {o} : offer'[x] = offer[x]
  BY <1>1 DEF Inv, TypeOK
<1>3. OffersMove(k)
  BY <1>1, <1>2 DEF OffersMove
<1>4. OpenOffersAreBacked'
  BY <1>1, <1>2 DEF Inv, OpenOffersAreBacked
<1>5. QED
  BY <1>2, <1>3, <1>4

\* A step of a handler on offers only.
LEMMA OfferStep ==
  ASSUME Inv, NEW k \in Slots, Touches(k), MakesFairly(k), HoldsFairly(k), TakesOn(k),
         Fits(job'[k], offer', order'), OffersMove(k), OpenOffersAreBacked',
         HoldsCovered', held' \in [Offers -> HoldStatus], overdue' \subseteq Offers,
         UNCHANGED <<moneyVars, listingVars, order, item, faults>>
  PROVE  Inv'
<1>1. order' = order /\ quantity' = quantity
  BY DEF listingVars
<1>2. RowsOK'
  BY DEF Inv, TypeOK, RowsOK, moneyVars, listingVars
<1>3. QED
  BY <1>1, <1>2, SameOrders, QuietUnits, HandlerStep

LEMMA RetirePreviousStep ==
  ASSUME Inv, NEW k \in Slots, RetirePrevious(k)
  PROVE  Inv'
<1>1. PICK p \in job[k].todo :
        /\ offer' = IF Open(p) THEN [offer EXCEPT ![p] = "CANCELED"] ELSE offer
        /\ job' = [job EXCEPT ![k].at = "unhold", ![k].row = p, ![k].todo = @ \ {p}]
  BY DEF RetirePrevious
<1>2. job[k] \in Jobs /\ Fits(job[k], offer, order) /\ job[k].at = "retire"
  BY DEF Inv, TypeOK, JobsFit, RetirePrevious, At
<1>3. p \in Offers /\ offer[p] # "NONE" /\ job[k].o \in Offers /\ offer[job[k].o] = "NONE"
  BY <1>2 DEF Jobs, Fits, MakeLabels
<1>4. PICK t \in SUBSET Offers : t = job[k].todo \ {p}
  BY <1>2 DEF Jobs
<1>5. PICK j \in Jobs : j = [job[k] EXCEPT !.at = "unhold", !.row = p, !.todo = t]
  BY <1>2, <1>3 DEF Jobs, Labels
<1>6. /\ j.at = "unhold" /\ j.row = p /\ j.todo = t
      /\ j.o = job[k].o /\ j.l = job[k].l /\ j.r = job[k].r
  BY <1>2, <1>5 DEF Jobs
<1>7. Touches(k) /\ job'[k] = j
  <2>1. job' = [job EXCEPT ![k] = j]
    BY <1>1, <1>2, <1>4, <1>5 DEF Inv, TypeOK
  <2>2. QED
    BY <2>1, Becoming
<1>8. held' = held /\ settled' = settled /\ overdue' = overdue
      /\ UNCHANGED <<moneyVars, listingVars, order, item, faults>>
  BY DEF RetirePrevious, moneyVars
<1>9. OffersMove(k) /\ OpenOffersAreBacked' /\ offer'[p] \in ClosedStatus
  <2>1. CASE Open(p)
    <3>1. "CANCELED" \in ClosedStatus /\ offer' = [offer EXCEPT ![p] = "CANCELED"]
      BY <1>1, <2>1 DEF ClosedStatus
    <3>2. QED
      BY <1>3, <1>8, <3>1, OfferCloses
  <2>2. CASE ~Open(p)
    <3>1. offer' = offer
      BY <1>1, <2>2
    <3>2. offer[p] \in ClosedStatus
      BY <1>3, <2>2 DEF Open, Inv, TypeOK, OfferStatus, ClosedStatus
    <3>3. OpenOffersAreBacked'
      BY <1>8, <3>1 DEF Inv, OpenOffersAreBacked
    <3>4. QED
      BY <3>1, <3>2, <3>3, SameOffers
  <2>3. QED
    BY <2>1, <2>2
<1>10. offer'[job[k].o] = "NONE" /\ \A q \in t : offer'[q] # "NONE"
  <2>1. \A q \in Offers : offer[q] # "NONE" => offer'[q] # "NONE"
    BY <1>9 DEF OffersMove
  <2>2. \A q \in t : q \in Offers /\ offer[q] # "NONE"
    BY <1>2, <1>4 DEF Fits, Jobs
  <2>3. job[k].o # p
    BY <1>3
  <2>4. offer'[job[k].o] = offer[job[k].o]
    BY <1>1, <1>3, <2>3 DEF Inv, TypeOK
  <2>5. QED
    BY <1>3, <2>1, <2>2, <2>4
<1>11. Fits(job'[k], offer', order')
  BY <1>3, <1>6, <1>7, <1>9, <1>10
     DEF Fits, MakeLabels, SaleLabels, TakeLabels, HoldLabels, PaidLabels
<1>12. MakesFairly(k) /\ HoldsFairly(k) /\ TakesOn(k)
  BY <1>2, <1>6, <1>7, OldJob DEF MakeLabels, HoldLabels, TakeLabels
<1>13. HoldsCovered' /\ held' \in [Offers -> HoldStatus] /\ overdue' \subseteq Offers
  BY <1>8, MoneySame DEF Inv, TypeOK
<1>14. QED
  BY <1>7, <1>8, <1>9, <1>11, <1>12, <1>13, OfferStep

LEMMA ReleasePreviousStep ==
  ASSUME Inv, NEW k \in Slots, ReleasePrevious(k)
  PROVE  Inv'
<1>1. job[k] \in Jobs /\ Fits(job[k], offer, order) /\ job[k].at = "unhold"
  BY DEF Inv, TypeOK, JobsFit, ReleasePrevious, At
<1>2. /\ job[k].row \in Offers /\ offer[job[k].row] \in ClosedStatus
      /\ job[k].o \in Offers /\ offer[job[k].o] = "NONE"
      /\ \A p \in job[k].todo : offer[p] # "NONE"
  BY <1>1 DEF Fits, MakeLabels
<1>3. /\ Touches(k) /\ job'[k].at = "retire" /\ job'[k].todo = job[k].todo
      /\ job'[k].o = job[k].o /\ job'[k].l = job[k].l /\ job'[k].r = job[k].r
  BY GoToJob DEF ReleasePrevious, Labels
<1>4. held' = Released(job[k].row) /\ settled' = settled /\ offer' = offer /\ overdue' = overdue
      /\ UNCHANGED <<moneyVars, listingVars, order, item, faults>>
  BY DEF ReleasePrevious, moneyVars
<1>5. held' \in [Offers -> HoldStatus] /\ HoldsCovered' /\ OpenOffersAreBacked'
  BY <1>2, <1>4, ReleaseKeeps
<1>6. Fits(job'[k], offer', order')
  BY <1>2, <1>3, <1>4 DEF Fits, MakeLabels, SaleLabels, TakeLabels, HoldLabels, PaidLabels
<1>7. MakesFairly(k) /\ HoldsFairly(k) /\ TakesOn(k)
  BY <1>1, <1>3, OldJob DEF MakeLabels, HoldLabels, TakeLabels
<1>8. OffersMove(k) /\ overdue' \subseteq Offers
  BY <1>4, SameOffers DEF Inv, TypeOK
<1>9. QED
  BY <1>3, <1>4, <1>5, <1>6, <1>7, <1>8, OfferStep

\* The transaction that makes the offer and its hold checks what is available.
LEMMA ReserveOfferStep ==
  ASSUME Inv, NEW k \in Slots, ReserveOffer(k)
  PROVE  Inv'
<1>1. job[k] \in Jobs /\ Fits(job[k], offer, order) /\ job[k].at = "retire" /\ Making(k)
  BY DEF Inv, TypeOK, JobsFit, ReserveOffer, At, Making, MakeLabels
<1>2. PICK o \in Offers : o = job[k].o /\ offer[o] = "NONE"
  BY <1>1 DEF Fits, MakeLabels
<1>3. /\ Touches(k) /\ MakesFairly(k) /\ HoldsFairly(k) /\ TakesOn(k)
      /\ Fits(job'[k], offer', order')
  BY EndJob DEF ReserveOffer
<1>4. settled' = settled /\ overdue' = overdue
      /\ UNCHANGED <<moneyVars, listingVars, order, item, faults>>
  BY DEF ReserveOffer, moneyVars
<1>5. CASE offer' = offer /\ held' = held
  <2>1. OffersMove(k) /\ OpenOffersAreBacked' /\ HoldsCovered'
    BY <1>4, <1>5, SameOffers, MoneySame DEF Inv, OpenOffersAreBacked
  <2>2. held' \in [Offers -> HoldStatus] /\ overdue' \subseteq Offers
    BY <1>4, <1>5 DEF Inv, TypeOK
  <2>3. QED
    BY <1>3, <1>4, <2>1, <2>2, OfferStep
<1>6. CASE /\ Available(Bidder[o]) >= Reserve(o)
           /\ offer' = [offer EXCEPT ![o] = "PENDING"]
           /\ held' = [held EXCEPT ![o] = "ACTIVE"]
  <2>1. offer' \in [Offers -> OfferStatus] /\ offer'[o] = "PENDING"
        /\ \A x \in Offers \ {o} : offer'[x] = offer[x]
    BY <1>6 DEF Inv, TypeOK, OfferStatus
  <2>2. "ACTIVE" \in HoldStatus /\ held' \in [Offers -> HoldStatus] /\ held'[o] = "ACTIVE"
        /\ \A x \in Offers \ {o} : held'[x] = held[x]
    BY <1>6 DEF Inv, TypeOK, HoldStatus
  <2>3. OffersMove(k)
    BY <1>1, <1>2, <2>1 DEF OffersMove, ClosedStatus
  <2>4. OpenOffersAreBacked'
    BY <2>1, <2>2 DEF Inv, OpenOffersAreBacked
  <2>5. HoldsCovered'
    <3> SUFFICES ASSUME NEW u \in Users PROVE ActiveHolds(u)' <= settled'[u]
      BY DEF HoldsCovered
    <3>1. /\ ActiveHolds(u)' \in Nat
          /\ Bidder[o] # u => ActiveHolds(u)' <= ActiveHolds(u)
          /\ ActiveHolds(u)' <= ActiveHolds(u) + Reserve(o)
      BY <1>6, <2>2, HoldsChange
    <3>2. ActiveHolds(u) <= settled[u] /\ ActiveHolds(u) \in Nat /\ settled[u] \in Nat
      BY HoldsNat DEF Inv, HoldsCovered, TypeOK
    <3>3. Reserve(o) \in Nat
      BY MarketAssumption DEF Reserve
    <3>4. CASE Bidder[o] # u
      BY <1>4, <3>1, <3>2, <3>4
    <3>5. CASE Bidder[o] = u
      <4>1. settled[u] - ActiveHolds(u) >= Reserve(o)
        BY <1>6, <3>5 DEF Available
      <4>2. QED
        BY <1>4, <3>1, <3>2, <3>3, <4>1
    <3>6. QED
      BY <3>4, <3>5
  <2>6. overdue' \subseteq Offers
    BY <1>4 DEF Inv, TypeOK
  <2>7. QED
    BY <1>3, <1>4, <2>2, <2>3, <2>4, <2>5, <2>6, OfferStep
<1>7. QED
  BY <1>2, <1>5, <1>6 DEF ReserveOffer

-----------------------------------------------------------------------------
(* Answering an offer.                                                     *)

LEMMA CloseStep ==
  ASSUME Inv, NEW k \in Slots, NEW o \in Offers, NEW to \in OfferStatus, Close(k, o, to)
  PROVE  Inv'
<1>1. PICK j \in Jobs : j = [Idle EXCEPT !.at = "close", !.row = o, !.to = to]
  BY IdleJob DEF Idle, Jobs, Labels
<1>2. j.at = "close" /\ j.row = o /\ j.to = to /\ to \in ClosedStatus
  BY <1>1, IdleJob DEF Jobs, Close, ClosedStatus
<1>3. QED
  BY <1>1, <1>2, BeginStep DEF Close

LEMMA StartCounterStep ==
  ASSUME Inv, NEW k \in Slots, NEW o \in Offers, StartCounter(k, o)
  PROVE  Inv'
<1>1. PICK j \in Jobs : j = [Idle EXCEPT !.at = "counter", !.row = o]
  BY IdleJob DEF Idle, Jobs, Labels
<1>2. j.at = "counter" /\ j.row = o
  BY <1>1, IdleJob DEF Jobs
<1>3. QED
  BY <1>1, <1>2, BeginStep DEF StartCounter

LEMMA AcceptStep ==
  ASSUME Inv, NEW k \in Slots, NEW o \in Offers, Accept(k, o)
  PROVE  Inv'
<1>1. PICK n \in Nat : n = IF offer[o] = "COUNTERED" THEN Counter[o] ELSE Amount[o]
  BY MarketAssumption
<1>2. On[o] \in Listings /\ Bidder[o] \in Users
  BY MarketAssumption
<1>3. CASE job' = [job EXCEPT ![k] =
             [Idle EXCEPT !.at = "claim", !.o = o, !.row = o, !.u = Bidder[o],
                          !.l = On[o], !.price = n]]
  <2>1. PICK j \in Jobs : j = [Idle EXCEPT !.at = "claim", !.o = o, !.row = o,
                                           !.u = Bidder[o], !.l = On[o], !.price = n]
    BY <1>2, IdleJob DEF Idle, Jobs, Labels
  <2>2. j.at = "claim" /\ j.o = o /\ j.l = On[o] /\ j.u = Bidder[o]
    BY <2>1, IdleJob DEF Jobs
  <2>3. job' = [job EXCEPT ![k] = j]
    BY <1>3, <2>1
  <2>4. UNCHANGED <<moneyVars, offerVars, listingVars, order, item, faults>>
    BY DEF Accept
  <2>5. j.l \in Listings /\ j.u \in Users /\ j.o \in Offers
    BY <1>2, <2>2
  <2>6. QED
    BY <2>2, <2>3, <2>4, <2>5, BeginStep
<1>4. CASE job' = [job EXCEPT ![k] =
             [Idle EXCEPT !.at = "close", !.row = o, !.to = "EXPIRED"]]
  <2>1. PICK j \in Jobs : j = [Idle EXCEPT !.at = "close", !.row = o, !.to = "EXPIRED"]
    BY IdleJob DEF Idle, Jobs, Labels, OfferStatus
  <2>2. j.at = "close" /\ j.row = o /\ j.to \in ClosedStatus \ {"ACCEPTED"}
    BY <2>1, IdleJob DEF Jobs, ClosedStatus
  <2>3. QED
    BY <1>4, <2>1, <2>2, BeginStep DEF Accept
<1>5. QED
  BY <1>1, <1>3, <1>4 DEF Accept

LEMMA BuyStep ==
  ASSUME Inv, NEW k \in Slots, NEW u \in Users, NEW l \in Listings, Buy(k, u, l)
  PROVE  Inv'
<1>1. PICK n \in Nat : n = BuyNow[l]
  BY MarketAssumption
<1>2. PICK j \in Jobs : j = [Idle EXCEPT !.at = "unit", !.u = u, !.l = l, !.price = n]
  BY IdleJob DEF Idle, Jobs, Labels
<1>3. j.at = "unit" /\ j.l = l /\ j.u = u
  BY <1>2, IdleJob DEF Jobs
<1>4. QED
  BY <1>1, <1>2, <1>3, BeginStep DEF Buy

LEMMA StartPassStep ==
  ASSUME Inv, NEW k \in Slots, StartPass(k)
  PROVE  Inv'
<1>1. PICK due \in SUBSET Offers :
        job' = [job EXCEPT ![k] = [Idle EXCEPT !.at = "next", !.todo = due]]
  BY DEF StartPass, Inv, TypeOK
<1>2. PICK j \in Jobs : j = [Idle EXCEPT !.at = "next", !.todo = due]
  BY IdleJob DEF Idle, Jobs, Labels
<1>3. j.at = "next"
  BY <1>2, IdleJob DEF Jobs
<1>4. QED
  BY <1>1, <1>2, <1>3, BeginStep DEF StartPass

\* An open offer closes, and the handler goes on to j's statement.
LEMMA ClosingStep ==
  ASSUME Inv, NEW k \in Slots, NEW o \in Offers, NEW st \in ClosedStatus, Open(o),
         offer' = [offer EXCEPT ![o] = st],
         Touches(k), job'[k].at \in {"free", "yield"},
         job'[k].at = "free" => job'[k].row = o,
         job'[k].at = "yield" => job'[k].o = o /\ job'[k].l \in Listings /\ job'[k].u \in Users,
         UNCHANGED <<moneyVars, held, overdue, listingVars, order, item, faults>>
  PROVE  Inv'
<1>1. OffersMove(k) /\ offer'[o] = st /\ OpenOffersAreBacked'
  BY OfferCloses DEF Open
<1>2. Fits(job'[k], offer', order')
  BY <1>1 DEF Fits, MakeLabels, SaleLabels, TakeLabels, HoldLabels, PaidLabels
<1>3. MakesFairly(k) /\ HoldsFairly(k) /\ TakesOn(k)
  BY PlainJob DEF MakeLabels, TakeLabels
<1>4. HoldsCovered' /\ held' \in [Offers -> HoldStatus] /\ overdue' \subseteq Offers
  BY MoneySame DEF moneyVars, Inv, TypeOK
<1>5. QED
  BY <1>1, <1>2, <1>3, <1>4, OfferStep

\* A handler that ends, fails or returns, and does nothing else.
LEMMA EndStep ==
  ASSUME Inv, NEW k \in Slots, Done(k) \/ Lose(k) \/ Sold(k), faults' \in 0..MaxFaults,
         UNCHANGED <<moneyVars, offerVars, listingVars, order, item>>
  PROVE  Inv'
<1>1. offer' = offer /\ order' = order
  BY DEF offerVars
<1>2. QED
  BY <1>1, EndJob, ReadStep

LEMMA CloseOfferStep ==
  ASSUME Inv, NEW k \in Slots, CloseOffer(k)
  PROVE  Inv'
<1>1. Fits(job[k], offer, order) /\ job[k].at = "close"
  BY DEF Inv, JobsFit, CloseOffer, At
<1>2. PICK o \in Offers, st \in ClosedStatus : o = job[k].row /\ st = job[k].to
  BY <1>1 DEF Fits
<1>3. CASE Open(o) /\ offer' = [offer EXCEPT ![o] = st] /\ GoTo(k, "free")
  <2>1. Touches(k) /\ job'[k].at = "free" /\ job'[k].row = o
    BY <1>2, <1>3, GoToJob DEF Labels
  <2>2. QED
    BY <1>3, <2>1, ClosingStep DEF CloseOffer
<1>4. CASE Done(k) /\ offer' = offer
  BY <1>4, EndStep DEF CloseOffer, Inv, TypeOK, offerVars
<1>5. QED
  BY <1>2, <1>3, <1>4 DEF CloseOffer

LEMMA ClaimOfferStep ==
  ASSUME Inv, NEW k \in Slots, ClaimOffer(k)
  PROVE  Inv'
<1>1. Fits(job[k], offer, order) /\ job[k].at = "claim"
  BY DEF Inv, JobsFit, ClaimOffer, At
<1>2. job[k].l \in Listings /\ job[k].u \in Users
  BY <1>1 DEF Fits
<1>3. PICK o \in Offers : o = job[k].o
  BY <1>1 DEF Fits
<1>4. CASE Open(o) /\ offer' = [offer EXCEPT ![o] = "ACCEPTED"] /\ GoTo(k, "yield")
  <2>1. /\ Touches(k) /\ job'[k].at = "yield" /\ job'[k].o = o
        /\ job'[k].l \in Listings /\ job'[k].u \in Users
    BY <1>2, <1>3, <1>4, GoToJob DEF Labels
  <2>2. "ACCEPTED" \in ClosedStatus
    BY DEF ClosedStatus
  <2>3. QED
    BY <1>4, <2>1, <2>2, ClosingStep DEF ClaimOffer
<1>5. CASE Done(k) /\ offer' = offer
  BY <1>5, EndStep DEF ClaimOffer, Inv, TypeOK, offerVars
<1>6. QED
  BY <1>3, <1>4, <1>5 DEF ClaimOffer

LEMMA ExpireNextStep ==
  ASSUME Inv, NEW k \in Slots, ExpireNext(k)
  PROVE  Inv'
<1>1. job[k] \in Jobs /\ job[k].at = "next"
  BY DEF Inv, TypeOK, ExpireNext, At
<1>2. PICK o \in job[k].todo :
        IF Open(o)
        THEN /\ offer' = [offer EXCEPT ![o] = "EXPIRED"]
             /\ job' = [job EXCEPT ![k].at = "free", ![k].row = o, ![k].todo = @ \ {o}]
        ELSE job' = [job EXCEPT ![k].todo = @ \ {o}] /\ offer' = offer
  BY DEF ExpireNext
<1>3. PICK t \in SUBSET Offers : t = job[k].todo \ {o} /\ o \in Offers
  BY <1>1, <1>2 DEF Jobs
<1>4. CASE Open(o)
  <2>1. PICK j \in Jobs : j = [job[k] EXCEPT !.at = "free", !.row = o, !.todo = t]
    BY <1>1, <1>3 DEF Jobs, Labels
  <2>2. j.at = "free" /\ j.row = o
    BY <1>1, <2>1 DEF Jobs
  <2>3. Touches(k) /\ job'[k] = j
    <3>1. job' = [job EXCEPT ![k] = j]
      BY <1>1, <1>2, <1>3, <1>4, <2>1 DEF Inv, TypeOK
    <3>2. QED
      BY <3>1, Becoming
  <2>4. "EXPIRED" \in ClosedStatus /\ offer' = [offer EXCEPT ![o] = "EXPIRED"]
    BY <1>2, <1>4 DEF ClosedStatus
  <2>5. QED
    BY <1>3, <1>4, <2>2, <2>3, <2>4, ClosingStep DEF ExpireNext
<1>5. CASE ~Open(o)
  <2>1. PICK j \in Jobs : j = [job[k] EXCEPT !.todo = t]
    BY <1>1, <1>3 DEF Jobs
  <2>2. j.at = "next"
    BY <1>1, <2>1 DEF Jobs
  <2>3. job' = [job EXCEPT ![k] = j]
    BY <1>1, <1>2, <1>3, <1>5, <2>1 DEF Inv, TypeOK
  <2>4. offer' = offer
    BY <1>2, <1>5
  <2>5. UNCHANGED <<moneyVars, offerVars, listingVars, order, item, faults>>
    BY <2>4 DEF ExpireNext, offerVars
  <2>6. QED
    BY <2>2, <2>3, <2>5, BeginStep
<1>6. QED
  BY <1>4, <1>5

\* The hold of a closed offer is released.
LEMMA FreeingStep ==
  ASSUME Inv, NEW k \in Slots, NEW o \in Offers, offer[o] \in ClosedStatus,
         held' = Released(o), Touches(k),
         MakesFairly(k), HoldsFairly(k), TakesOn(k), Fits(job'[k], offer, order),
         UNCHANGED <<moneyVars, offer, overdue, listingVars, order, item, faults>>
  PROVE  Inv'
<1>1. settled' = settled /\ offer' = offer /\ order' = order
  BY DEF moneyVars
<1>2. held' \in [Offers -> HoldStatus] /\ HoldsCovered' /\ OpenOffersAreBacked'
  BY <1>1, ReleaseKeeps
<1>3. OffersMove(k) /\ overdue' \subseteq Offers
  BY SameOffers DEF Inv, TypeOK
<1>4. QED
  BY <1>1, <1>2, <1>3, OfferStep

LEMMA FreeReserveStep ==
  ASSUME Inv, NEW k \in Slots, FreeReserve(k)
  PROVE  Inv'
<1>1. Fits(job[k], offer, order) /\ job[k].at = "free"
  BY DEF Inv, JobsFit, FreeReserve, At
<1>2. PICK o \in Offers : o = job[k].row /\ offer[o] \in ClosedStatus
  BY <1>1 DEF Fits
<1>3. Touches(k) /\ job'[k].at \in {"next", "idle"}
  BY DoneJob, IdleJob, GoToJob DEF FreeReserve, Labels
<1>4. Fits(job'[k], offer, order)
  BY <1>3 DEF Fits, MakeLabels, SaleLabels, TakeLabels, HoldLabels, PaidLabels
<1>5. MakesFairly(k) /\ HoldsFairly(k) /\ TakesOn(k)
  BY <1>3, PlainJob DEF MakeLabels, TakeLabels
<1>6. QED
  BY <1>2, <1>3, <1>4, <1>5, FreeingStep DEF FreeReserve

LEMMA YieldReserveStep ==
  ASSUME Inv, NEW k \in Slots, YieldReserve(k)
  PROVE  Inv'
<1>1. Fits(job[k], offer, order) /\ job[k].at = "yield"
  BY DEF Inv, JobsFit, YieldReserve, At
<1>2. PICK o \in Offers : o = job[k].o /\ offer[o] \in ClosedStatus
  BY <1>1 DEF Fits
<1>3. Touches(k) /\ job'[k].at = "unit" /\ job'[k].l \in Listings /\ job'[k].u \in Users
  BY <1>1, GoToJob DEF YieldReserve, Labels, Fits
<1>4. Fits(job'[k], offer, order)
  BY <1>3 DEF Fits, MakeLabels, SaleLabels, TakeLabels, HoldLabels, PaidLabels
<1>5. MakesFairly(k) /\ HoldsFairly(k) /\ TakesOn(k)
  BY <1>3, PlainJob DEF MakeLabels, TakeLabels
<1>6. QED
  BY <1>2, <1>3, <1>4, <1>5, FreeingStep DEF YieldReserve

LEMMA CounterOfferStep ==
  ASSUME Inv, NEW k \in Slots, CounterOffer(k)
  PROVE  Inv'
<1>1. PICK o \in Offers : o = job[k].row
  BY DEF Inv, JobsFit, Fits, CounterOffer, At
<1>2. /\ Touches(k) /\ MakesFairly(k) /\ HoldsFairly(k) /\ TakesOn(k)
      /\ Fits(job'[k], offer', order')
  BY EndJob DEF CounterOffer
<1>3. held' = held /\ settled' = settled
  BY DEF CounterOffer, moneyVars
<1>4. OffersMove(k) /\ OpenOffersAreBacked' /\ overdue' \subseteq Offers
  <2>1. CASE offer' = offer /\ overdue' = overdue
    BY <1>3, <2>1, SameOffers DEF Inv, TypeOK, OpenOffersAreBacked
  <2>2. CASE /\ offer[o] = "PENDING" /\ offer' = [offer EXCEPT ![o] = "COUNTERED"]
             /\ overdue' = overdue \ {o}
    <3>1. offer' \in [Offers -> OfferStatus] /\ offer'[o] = "COUNTERED"
          /\ \A x \in Offers \ {o} : offer'[x] = offer[x]
      BY <2>2 DEF Inv, TypeOK, OfferStatus
    <3>2. OffersMove(k)
      BY <2>2, <3>1 DEF OffersMove, ClosedStatus
    <3>3. OpenOffersAreBacked'
      BY <1>3, <2>2, <3>1 DEF Inv, OpenOffersAreBacked
    <3>4. QED
      BY <2>2, <3>2, <3>3 DEF Inv, TypeOK
  <2>3. QED
    BY <1>1, <2>1, <2>2 DEF CounterOffer
<1>5. HoldsCovered' /\ held' \in [Offers -> HoldStatus]
  BY <1>3, MoneySame DEF Inv, TypeOK
<1>6. QED
  BY <1>2, <1>4, <1>5, OfferStep DEF CounterOffer

LEMMA LapseOfferStep ==
  ASSUME Inv, NEW k \in Slots, LapseOffer(k)
  PROVE  Inv'
<1>1. PICK o \in Offers : o = job[k].o
  BY DEF Inv, JobsFit, Fits, LapseOffer, At
<1>2. CASE offer' = offer
  BY <1>2, EndStep DEF LapseOffer, Inv, TypeOK, offerVars
<1>3. CASE offer[o] = "ACCEPTED" /\ offer' = [offer EXCEPT ![o] = "EXPIRED"]
  <2>1. /\ Touches(k) /\ MakesFairly(k) /\ HoldsFairly(k) /\ TakesOn(k)
        /\ Fits(job'[k], offer', order')
    BY EndJob DEF LapseOffer
  <2>2. held' = held /\ settled' = settled /\ overdue' = overdue /\ "EXPIRED" \in ClosedStatus
    BY DEF LapseOffer, moneyVars, ClosedStatus
  <2>3. OffersMove(k) /\ OpenOffersAreBacked'
    BY <1>3, <2>2, OfferCloses
  <2>4. HoldsCovered' /\ held' \in [Offers -> HoldStatus] /\ overdue' \subseteq Offers
    BY <2>2, MoneySame DEF Inv, TypeOK
  <2>5. QED
    BY <2>1, <2>3, <2>4, OfferStep DEF LapseOffer
<1>4. QED
  BY <1>1, <1>2, <1>3 DEF LapseOffer

-----------------------------------------------------------------------------
(* Sales.                                                                  *)

\* What a statement of a sale may rely on.
LEMMA OwnSale ==
  ASSUME Inv, NEW k \in Slots, job[k].at \in SaleLabels
  PROVE  /\ job[k] \in Jobs /\ Fits(job[k], offer, order)
         /\ job[k].l \in Listings /\ job[k].u \in Users /\ job[k].price \in Nat
BY DEF Inv, TypeOK, JobsFit, Fits, Jobs

\* A step of a handler on everything but offers.
LEMMA SaleStep ==
  ASSUME Inv, NEW k \in Slots, Touches(k), MakesFairly(k), HoldsFairly(k), OrdersMove(k),
         Fits(job'[k], offer, order'), UNCHANGED <<offerVars, faults>>,
         HoldsCovered', AllStocked', settled' \in [Users -> Nat],
         status' \in [Listings -> {"QUEUED", "SOLD", "CANCELED"}],
         quantity' \in [Listings -> Nat], charged' \subseteq Orders,
         item' \in [Orders -> {"none", "READY_TO_SHIP", "IN_SHIPMENT"}],
         shipPaid' \subseteq Orders
  PROVE  Inv'
<1>1. offer' = offer /\ held' = held /\ overdue' = overdue
  BY DEF offerVars
<1>2. RowsOK'
  BY <1>1 DEF Inv, TypeOK, RowsOK
<1>3. OpenOffersAreBacked'
  BY <1>1 DEF Inv, OpenOffersAreBacked
<1>4. QED
  BY <1>1, <1>2, <1>3, SameOffers, HandlerStep

\* A handler with a paid order goes on.
LEMMA PaidGoesOn ==
  ASSUME Inv, NEW k \in Slots, NEW at \in PaidLabels, GoTo(k, at),
         job[k].at \in PaidLabels
  PROVE  /\ Touches(k) /\ MakesFairly(k) /\ HoldsFairly(k) /\ TakesOn(k)
         /\ \A or : Fits(job'[k], offer, or)
<1>1. /\ job[k].l \in Listings /\ job[k].u \in Users /\ job[k].r \in Orders
  <2>1. job[k].at \in SaleLabels
    BY DEF SaleLabels, PaidLabels
  <2>2. QED
    BY <2>1, OwnSale DEF Fits
<1>2. /\ Touches(k) /\ job'[k].at = at /\ job'[k].l = job[k].l
      /\ job'[k].u = job[k].u /\ job'[k].r = job[k].r
  BY GoToJob DEF PaidLabels, Labels
<1>3. MakesFairly(k) /\ HoldsFairly(k) /\ TakesOn(k)
  BY <1>2, PlainJob DEF MakeLabels, TakeLabels, PaidLabels
<1>4. \A or : Fits(job'[k], offer, or)
  BY <1>1, <1>2 DEF Fits, MakeLabels, SaleLabels, TakeLabels, HoldLabels, PaidLabels
<1>5. QED
  BY <1>2, <1>3, <1>4

LEMMA ReadStockStep ==
  ASSUME Inv, NEW k \in Slots, ReadStock(k)
  PROVE  Inv'
<1>1. PICK at \in {"sold", "goods"} : GoTo(k, at)
  BY DEF ReadStock
<1>2. /\ Touches(k) /\ MakesFairly(k) /\ HoldsFairly(k) /\ TakesOn(k)
      /\ Fits(job'[k], offer, order)
  BY <1>1, PaidGoesOn DEF ReadStock, At, PaidLabels
<1>3. QED
  BY <1>2, ReadStep DEF ReadStock, Inv, TypeOK

LEMMA MarkSoldStep ==
  ASSUME Inv, NEW k \in Slots, MarkSold(k)
  PROVE  Inv'
<1>1. /\ Touches(k) /\ MakesFairly(k) /\ HoldsFairly(k) /\ TakesOn(k)
      /\ Fits(job'[k], offer, order')
  BY PaidGoesOn DEF MarkSold, At, PaidLabels
<1>2. /\ UNCHANGED <<offerVars, faults>> /\ order' = order /\ quantity' = quantity
      /\ settled' = settled /\ held' = held
      /\ charged' = charged /\ shipPaid' = shipPaid /\ item' = item
  BY DEF MarkSold, moneyVars, offerVars
<1>3. status' \in [Listings -> {"QUEUED", "SOLD", "CANCELED"}]
  BY DEF MarkSold, Inv, TypeOK
<1>4. OrdersMove(k) /\ AllStocked' /\ HoldsCovered'
  BY <1>1, <1>2, SameOrders, QuietUnits, MoneySame
<1>5. QED
  BY <1>1, <1>2, <1>3, <1>4, SaleStep DEF Inv, TypeOK

\* A statement on the item of the order.
LEMMA ItemStep ==
  ASSUME Inv, NEW k \in Slots, Touches(k), MakesFairly(k), HoldsFairly(k), TakesOn(k),
         Fits(job'[k], offer', order'),
         item' \in [Orders -> {"none", "READY_TO_SHIP", "IN_SHIPMENT"}],
         UNCHANGED <<moneyVars, offerVars, listingVars, order, faults>>
  PROVE  Inv'
<1>1. /\ UNCHANGED <<offerVars, faults>> /\ order' = order /\ quantity' = quantity
      /\ settled' = settled /\ held' = held /\ offer' = offer
      /\ charged' = charged /\ shipPaid' = shipPaid /\ status' = status
  BY DEF moneyVars, offerVars, listingVars
<1>2. OrdersMove(k) /\ AllStocked' /\ HoldsCovered'
  BY <1>1, SameOrders, QuietUnits, MoneySame
<1>3. QED
  BY <1>1, <1>2, SaleStep DEF Inv, TypeOK

LEMMA CreateItemStep ==
  ASSUME Inv, NEW k \in Slots, CreateItem(k)
  PROVE  Inv'
<1>1. /\ Touches(k) /\ MakesFairly(k) /\ HoldsFairly(k) /\ TakesOn(k)
      /\ \A or : Fits(job'[k], offer, or)
  BY PaidGoesOn DEF CreateItem, At, PaidLabels
<1>2. item' \in [Orders -> {"none", "READY_TO_SHIP", "IN_SHIPMENT"}] /\ offer' = offer
  BY DEF CreateItem, Inv, TypeOK, offerVars
<1>3. QED
  BY <1>1, <1>2, ItemStep DEF CreateItem

LEMMA PackItemStep ==
  ASSUME Inv, NEW k \in Slots, PackItem(k)
  PROVE  Inv'
<1>1. /\ Touches(k) /\ MakesFairly(k) /\ HoldsFairly(k) /\ TakesOn(k)
      /\ Fits(job'[k], offer', order')
  BY EndJob DEF PackItem
<1>2. item' \in [Orders -> {"none", "READY_TO_SHIP", "IN_SHIPMENT"}]
  BY DEF PackItem, Inv, TypeOK
<1>3. QED
  BY <1>1, <1>2, ItemStep DEF PackItem

LEMMA PrepayShippingStep ==
  ASSUME Inv, NEW k \in Slots, PrepayShipping(k)
  PROVE  Inv'
<1> DEFINE u == job[k].u  fee == Ship[job[k].l]
<1>1. /\ job[k].at = "ship" /\ job[k].l \in Listings /\ u \in Users /\ fee \in Nat
      /\ job[k].r \in Orders
  BY OwnSale, MarketAssumption DEF PrepayShipping, At, SaleLabels, PaidLabels, Fits
<1>2. /\ UNCHANGED <<offerVars, faults>> /\ order' = order /\ quantity' = quantity
      /\ held' = held /\ charged' = charged /\ status' = status /\ item' = item
  BY DEF PrepayShipping, offerVars, listingVars
<1>3. CASE Sold(k) /\ settled' = settled /\ shipPaid' = shipPaid
  <2>1. UNCHANGED <<moneyVars, offerVars, listingVars, order, item>>
    BY <1>2, <1>3 DEF moneyVars, PrepayShipping
  <2>2. faults' \in 0..MaxFaults
    BY <1>2 DEF Inv, TypeOK
  <2>3. QED
    BY <1>3, <2>1, <2>2, EndStep
<1>4. CASE /\ Available(u) >= fee /\ settled' = [settled EXCEPT ![u] = @ - fee]
           /\ shipPaid' = shipPaid \cup {job[k].r} /\ GoTo(k, "pack")
  <2>1. /\ Touches(k) /\ MakesFairly(k) /\ HoldsFairly(k) /\ TakesOn(k)
        /\ Fits(job'[k], offer, order')
    BY <1>1, <1>4, PaidGoesOn DEF PaidLabels
  <2>2. settled' \in [Users -> Nat] /\ HoldsCovered'
    BY <1>1, <1>2, <1>4, SpendKeeps
  <2>3. OrdersMove(k) /\ AllStocked'
    BY <1>2, <2>1, SameOrders, QuietUnits
  <2>4. shipPaid' \subseteq Orders
    BY <1>1, <1>4 DEF Inv, TypeOK
  <2>5. QED
    BY <1>2, <2>1, <2>2, <2>3, <2>4, SaleStep DEF Inv, TypeOK
<1>5. QED
  BY <1>3, <1>4 DEF PrepayShipping

\* A unit leaves the shelf for a handler.
LEMMA ClaimUnitStep ==
  ASSUME Inv, NEW k \in Slots, ClaimUnit(k)
  PROVE  Inv'
<1>1. job[k].at = "unit" /\ job[k].l \in Listings /\ job[k].u \in Users
  BY OwnSale DEF ClaimUnit, At, SaleLabels
<1>2. PICK l \in Listings : l = job[k].l
  BY <1>1
<1>3. /\ UNCHANGED <<offerVars, faults>> /\ order' = order /\ settled' = settled /\ held' = held
      /\ charged' = charged /\ shipPaid' = shipPaid /\ status' = status /\ item' = item
  BY DEF ClaimUnit, moneyVars, offerVars
<1>4. CASE Lose(k) /\ quantity' = quantity
  <2>1. UNCHANGED <<moneyVars, offerVars, listingVars, order, item>>
    BY <1>3, <1>4 DEF moneyVars, listingVars
  <2>2. QED
    BY <1>3, <1>4, <2>1, EndStep DEF Inv, TypeOK
<1>5. CASE /\ UnitLeft(l) /\ quantity' = [quantity EXCEPT ![l] = @ - 1]
           /\ GoTo(k, "order")
  <2>1. Touches(k) /\ job'[k].at = "order" /\ job'[k].l = l /\ job'[k].u \in Users
    BY <1>1, <1>2, <1>5, GoToJob DEF Labels
  <2>2. Fits(job'[k], offer, order')
    BY <2>1 DEF Fits, MakeLabels, SaleLabels, TakeLabels, HoldLabels, PaidLabels
  <2>3. MakesFairly(k) /\ HoldsFairly(k)
    BY <2>1 DEF MakesFairly, HoldsFairly, Making, Holding, MakeLabels, HoldLabels
  <2>4. /\ quantity' \in [Listings -> Nat] /\ quantity'[l] = quantity[l] - 1
        /\ \A m \in Listings \ {l} : quantity'[m] = quantity[m]
    BY <1>5 DEF Inv, TypeOK, UnitLeft
  <2>5. AllStocked'
    <3> SUFFICES ASSUME NEW m \in Listings PROVE Stocked(m)'
      BY DEF AllStocked
    <3>1. StandingOrders(m)' = StandingOrders(m)
      BY <1>3 DEF StandingOrders
    <3>2. CASE m # l
      <4>1. Takers(m)' \subseteq Takers(m)
        BY <2>1, <3>2 DEF Takers, Taking, Touches
      <4>2. QED
        BY <2>4, <3>1, <3>2, <4>1, FewerUnits
    <3>3. CASE m = l
      <4>1. Takers(l)' \subseteq Takers(l) \cup {k}
        BY <2>1 DEF Takers, Taking, Touches
      <4>2. Cardinality(Takers(l) \cup {k}) <= Cardinality(Takers(l)) + 1
            /\ IsFiniteSet(Takers(l) \cup {k})
        <5>1. PICK T : T = Takers(l) /\ IsFiniteSet(T) /\ Cardinality(T) \in Nat
          BY FiniteUnits
        <5>2. IsFiniteSet(T \cup {k}) /\ Cardinality(T \cup {k}) <= Cardinality(T) + 1
          BY <5>1, FS_AddElement
        <5>3. QED
          BY <5>1, <5>2
      <4>3. Cardinality(Takers(l)') <= Cardinality(Takers(l) \cup {k})
        BY <4>1, <4>2, FS_Subset
      <4>4. Cardinality(Takers(l) \cup {k}) \in Nat
        BY <4>2, FS_CardinalityType
      <4>5. Stocked(l) /\ quantity[l] \in Nat /\ Stock[l] \in Nat
        BY MarketAssumption DEF Inv, AllStocked, TypeOK
      <4>6. QED
        BY <2>4, <3>1, <3>3, <4>2, <4>3, <4>4, <4>5, FiniteUnits, FiniteUnitsNext DEF Stocked
    <3>4. QED
      BY <3>2, <3>3
  <2>6. OrdersMove(k) /\ HoldsCovered'
    BY <1>3, SameOrders, MoneySame
  <2>7. QED
    BY <1>3, <2>1, <2>2, <2>3, <2>4, <2>5, <2>6, SaleStep DEF Inv, TypeOK
<1>6. QED
  BY <1>2, <1>4, <1>5 DEF ClaimUnit

\* The cardinalities of a set with one element more or less.
LEMMA OneMore ==
  ASSUME NEW S, IsFiniteSet(S), NEW x
  PROVE  Cardinality(S \cup {x}) <= Cardinality(S) + 1 /\ IsFiniteSet(S \cup {x})
         /\ Cardinality(S \cup {x}) \in Nat
<1>1. Cardinality(S) \in Nat
  BY FS_CardinalityType
<1>2. QED
  BY <1>1, FS_AddElement

LEMMA OneLess ==
  ASSUME NEW S, IsFiniteSet(S), NEW x \in S
  PROVE  Cardinality(S \ {x}) = Cardinality(S) - 1 /\ IsFiniteSet(S \ {x})
BY FS_RemoveElement

LEMMA CreateOrderStep ==
  ASSUME Inv, NEW k \in Slots, CreateOrder(k)
  PROVE  Inv'
<1>1. /\ job[k].at = "order" /\ job[k] \in Jobs
      /\ job[k].l \in Listings /\ job[k].u \in Users
  BY OwnSale DEF CreateOrder, At, SaleLabels, TakeLabels
<1>2. PICK r \in Orders :
        /\ order[r] = NoOrder
        /\ order' = [order EXCEPT ![r] = [status |-> "PENDING_SETTLEMENT",
                                          listing |-> job[k].l, via |-> job[k].o]]
        /\ job' = [job EXCEPT ![k].at = "charge", ![k].r = r]
  BY DEF CreateOrder
<1>3. PICK j \in Jobs : j = [job[k] EXCEPT !.at = "charge", !.r = r]
  BY <1>1 DEF Jobs, Labels
<1>4. j.at = "charge" /\ j.r = r /\ j.l = job[k].l /\ j.u = job[k].u /\ j.o = job[k].o
  BY <1>1, <1>3 DEF Jobs
<1>5. Touches(k) /\ job'[k] = j
  <2>1. job' = [job EXCEPT ![k] = j]
    BY <1>2, <1>3 DEF Inv, TypeOK
  <2>2. QED
    BY <2>1, Becoming
<1>6. PICK w \in OrderRows : w = [status |-> "PENDING_SETTLEMENT",
                                  listing |-> job[k].l, via |-> job[k].o]
  BY <1>1 DEF OrderRows, Jobs
<1>7. w.status = "PENDING_SETTLEMENT" /\ w.listing = job[k].l /\ w.via = job[k].o
  BY <1>6
<1>8. order' \in [Orders -> OrderRows] /\ order'[r] = w
      /\ \A q \in Orders \ {r} : order'[q] = order[q]
  BY <1>2, <1>6 DEF Inv, TypeOK
<1>9. OrdersMove(k) /\ OrdersStand
  BY <1>2, <1>7, <1>8 DEF OrdersMove, OrdersStand, NoOrder
<1>10. Fits(job'[k], offer, order')
  BY <1>1, <1>4, <1>5, <1>7, <1>8
     DEF Fits, MakeLabels, SaleLabels, TakeLabels, HoldLabels, PaidLabels
<1>11. MakesFairly(k) /\ HoldsFairly(k) /\ TakesOn(k)
  BY <1>1, <1>2, <1>4, <1>5 DEF MakesFairly, HoldsFairly, TakesOn, Making, Holding, Taking,
    MakeLabels, HoldLabels, TakeLabels
<1>12. /\ UNCHANGED <<offerVars, faults>> /\ settled' = settled /\ held' = held
       /\ charged' = charged /\ shipPaid' = shipPaid /\ status' = status /\ item' = item
       /\ quantity' = quantity
  BY DEF CreateOrder, moneyVars, offerVars, listingVars
<1>13. AllStocked' /\ HoldsCovered'
  BY <1>5, <1>9, <1>11, <1>12, QuietUnits, MoneySame
<1>14. QED
  BY <1>5, <1>9, <1>10, <1>11, <1>12, <1>13, SaleStep DEF Inv, TypeOK

\* A handler goes on with the order it is charging or gives up.
LEMMA HoldGoesOn ==
  ASSUME Inv, NEW k \in Slots, NEW at \in {"record", "undo", "putback"}, GoTo(k, at),
         job[k].at \in HoldLabels, order' = order
  PROVE  /\ Touches(k) /\ MakesFairly(k) /\ HoldsFairly(k) /\ TakesOn(k)
         /\ Fits(job'[k], offer, order')
<1>1. job[k].at \in SaleLabels
  BY DEF SaleLabels, HoldLabels, TakeLabels
<1>2. /\ job[k].l \in Listings /\ job[k].u \in Users /\ job[k].r \in Orders
      /\ order[job[k].r].listing = job[k].l /\ order[job[k].r].via = job[k].o
      /\ order[job[k].r].status = "PENDING_SETTLEMENT"
  BY <1>1, OwnSale DEF Fits
<1>3. /\ Touches(k) /\ job'[k].at = at /\ job'[k].o = job[k].o /\ job'[k].l = job[k].l
      /\ job'[k].u = job[k].u /\ job'[k].r = job[k].r
  BY GoToJob DEF Labels
<1>4. Fits(job'[k], offer, order')
  BY <1>2, <1>3 DEF Fits, MakeLabels, SaleLabels, TakeLabels, HoldLabels, PaidLabels
<1>5. MakesFairly(k) /\ HoldsFairly(k) /\ TakesOn(k)
  BY <1>3, OldJob DEF MakeLabels, HoldLabels, TakeLabels
<1>6. QED
  BY <1>3, <1>4, <1>5

\* The charge is taken from what is not on hold.
LEMMA ChargeStep ==
  ASSUME Inv, NEW k \in Slots, Charge(k)
  PROVE  Inv'
<1> DEFINE u == job[k].u
<1>1. /\ job[k].at = "charge" /\ job[k].at \in HoldLabels /\ u \in Users
      /\ job[k].price \in Nat /\ job[k].r \in Orders
  BY OwnSale DEF Charge, At, SaleLabels, TakeLabels, HoldLabels, Fits
<1>2. /\ UNCHANGED <<offerVars, faults>> /\ order' = order /\ quantity' = quantity
      /\ held' = held /\ shipPaid' = shipPaid /\ status' = status /\ item' = item
  BY DEF Charge, offerVars, listingVars
<1>3. PICK at \in {"record", "undo"} : GoTo(k, at)
  BY DEF Charge
<1>4. /\ Touches(k) /\ MakesFairly(k) /\ HoldsFairly(k) /\ TakesOn(k)
      /\ Fits(job'[k], offer, order')
  BY <1>1, <1>2, <1>3, HoldGoesOn
<1>5. OrdersMove(k) /\ AllStocked'
  BY <1>2, <1>4, SameOrders, QuietUnits
<1>6. settled' \in [Users -> Nat] /\ HoldsCovered' /\ charged' \subseteq Orders
  <2>1. CASE settled' = settled /\ charged' = charged
    BY <1>2, <2>1, MoneySame DEF Inv, TypeOK
  <2>2. CASE /\ Available(u) >= job[k].price /\ settled' = [settled EXCEPT ![u] = @ - job[k].price]
             /\ charged' = charged \cup {job[k].r}
    BY <1>1, <1>2, <2>2, SpendKeeps DEF Inv, TypeOK
  <2>3. QED
    BY <2>1, <2>2 DEF Charge
<1>7. QED
  BY <1>2, <1>4, <1>5, <1>6, SaleStep DEF Inv, TypeOK

\* The unit in the handler's hands becomes a sold one.
LEMMA RecordOrderStep ==
  ASSUME Inv, NEW k \in Slots, RecordOrder(k)
  PROVE  Inv'
<1>1. /\ job[k].at = "record" /\ job[k].at \in HoldLabels /\ job[k].at \in TakeLabels
      /\ job[k].at \in SaleLabels
  BY DEF RecordOrder, At, SaleLabels, TakeLabels, HoldLabels
<1>2. /\ Fits(job[k], offer, order) /\ job[k].l \in Listings /\ job[k].u \in Users
  BY <1>1, OwnSale
<1>3. PICK l \in Listings, r \in Orders : l = job[k].l /\ r = job[k].r /\ order[r].listing = l
  BY <1>1, <1>2 DEF Fits
<1>4. /\ UNCHANGED <<offerVars, faults>> /\ quantity' = quantity /\ settled' = settled
      /\ held' = held /\ charged' = charged /\ shipPaid' = shipPaid /\ status' = status
      /\ item' = item
  BY DEF RecordOrder, moneyVars, offerVars, listingVars
<1>5. PICK w \in OrderRows : w = [order[r] EXCEPT !.status = "LOCKED"]
  BY DEF Inv, TypeOK, OrderRows
<1>6. order' \in [Orders -> OrderRows] /\ order'[r] = w
      /\ \A q \in Orders \ {r} : order'[q] = order[q]
  BY <1>3, <1>5 DEF RecordOrder, Inv, TypeOK
<1>7. w.status = "LOCKED" /\ w.listing = l
  BY <1>3, <1>5 DEF Inv, TypeOK, OrderRows
<1>8. OrdersMove(k)
  BY <1>1, <1>3, <1>6 DEF OrdersMove, Holding
<1>9. /\ Touches(k) /\ job'[k].at = "stock" /\ job'[k].l = l /\ job'[k].u = job[k].u
      /\ job'[k].r = r
  BY <1>3, GoToJob DEF RecordOrder, Labels
<1>10. Fits(job'[k], offer, order')
  BY <1>2, <1>9 DEF Fits, MakeLabels, SaleLabels, TakeLabels, HoldLabels, PaidLabels
<1>11. MakesFairly(k) /\ HoldsFairly(k)
  BY <1>9, PlainJob DEF MakeLabels, TakeLabels
<1>12. AllStocked'
  <2> SUFFICES ASSUME NEW m \in Listings PROVE Stocked(m)'
    BY DEF AllStocked
  <2>1. CASE m # l
    <3>1. StandingOrders(m)' \subseteq StandingOrders(m)
      BY <1>6, <1>7, <2>1 DEF StandingOrders
    <3>2. Takers(m)' \subseteq Takers(m)
      BY <1>9, <2>1 DEF Takers, Taking, Touches
    <3>3. QED
      BY <1>4, <3>1, <3>2, FewerUnits
  <2>2. CASE m = l
    <3>1. StandingOrders(l)' \subseteq StandingOrders(l) \cup {r}
      BY <1>6 DEF StandingOrders
    <3>2. k \in Takers(l) /\ Takers(l)' \subseteq Takers(l) \ {k}
      BY <1>1, <1>3, <1>9 DEF Takers, Taking, Touches, TakeLabels
    <3>3. PICK S, T : S = StandingOrders(l) /\ T = Takers(l)
      OBVIOUS
    <3>4. /\ IsFiniteSet(S) /\ IsFiniteSet(T) /\ k \in T
          /\ Cardinality(S) \in Nat /\ Cardinality(T) \in Nat
      BY <3>2, <3>3, FiniteUnits
    <3>5. /\ Cardinality(S \cup {r}) <= Cardinality(S) + 1 /\ IsFiniteSet(S \cup {r})
          /\ Cardinality(S \cup {r}) \in Nat
      BY <3>4, OneMore
    <3>6. Cardinality(T \ {k}) = Cardinality(T) - 1 /\ IsFiniteSet(T \ {k})
      BY <3>4, OneLess
    <3>7. Cardinality(StandingOrders(l)') <= Cardinality(S \cup {r})
      BY <3>1, <3>3, <3>5, FS_Subset
    <3>8. Cardinality(Takers(l)') <= Cardinality(T \ {k})
      BY <3>2, <3>3, <3>6, FS_Subset
    <3>9. /\ quantity[l] + Cardinality(S) + Cardinality(T) <= Stock[l]
          /\ quantity[l] \in Nat /\ Stock[l] \in Nat /\ quantity'[l] = quantity[l]
      BY <1>4, <3>3, MarketAssumption DEF Inv, AllStocked, TypeOK, Stocked
    <3>10. quantity'[l] + Cardinality(StandingOrders(l)') + Cardinality(Takers(l)') <= Stock[l]
      BY <3>4, <3>5, <3>6, <3>7, <3>8, <3>9, FiniteUnitsNext
    <3>11. QED
      BY <2>2, <3>10 DEF Stocked
  <2>3. QED
    BY <2>1, <2>2
<1>13. HoldsCovered'
  BY <1>4, MoneySame
<1>14. QED
  BY <1>4, <1>6, <1>8, <1>9, <1>10, <1>11, <1>12, <1>13, SaleStep DEF Inv, TypeOK

LEMMA DropOrderStep ==
  ASSUME Inv, NEW k \in Slots, DropOrder(k)
  PROVE  Inv'
<1>1. job[k].at = "undo" /\ job[k].at \in HoldLabels /\ job[k].at \in SaleLabels
  BY DEF DropOrder, At, SaleLabels, TakeLabels, HoldLabels
<1>2. /\ Fits(job[k], offer, order) /\ job[k].l \in Listings /\ job[k].u \in Users
  BY <1>1, OwnSale
<1>3. PICK r \in Orders : r = job[k].r /\ order[r].status = "PENDING_SETTLEMENT"
  BY <1>1, <1>2 DEF Fits
<1>4. /\ UNCHANGED <<offerVars, faults>> /\ quantity' = quantity /\ settled' = settled
      /\ held' = held /\ charged' = charged /\ shipPaid' = shipPaid /\ status' = status
      /\ item' = item
  BY DEF DropOrder, moneyVars, offerVars, listingVars
<1>5. NoOrder \in OrderRows /\ NoOrder.status = "NONE"
  BY DEF NoOrder, OrderRows
<1>6. order' \in [Orders -> OrderRows] /\ order'[r] = NoOrder
      /\ \A q \in Orders \ {r} : order'[q] = order[q]
  BY <1>3, <1>5 DEF DropOrder, Inv, TypeOK
<1>7. OrdersMove(k) /\ OrdersStand
  BY <1>1, <1>3, <1>5, <1>6 DEF OrdersMove, OrdersStand, Holding
<1>8. /\ Touches(k) /\ job'[k].at = "putback" /\ job'[k].o = job[k].o
      /\ job'[k].l = job[k].l /\ job'[k].u = job[k].u /\ job'[k].r = job[k].r
  BY GoToJob DEF DropOrder, Labels
<1>9. Fits(job'[k], offer, order')
  BY <1>2, <1>8 DEF Fits, MakeLabels, SaleLabels, TakeLabels, HoldLabels, PaidLabels
<1>10. MakesFairly(k) /\ HoldsFairly(k) /\ TakesOn(k)
  BY <1>1, <1>8, OldJob DEF MakeLabels, HoldLabels, TakeLabels
<1>11. AllStocked' /\ HoldsCovered'
  BY <1>4, <1>7, <1>8, <1>10, QuietUnits, MoneySame
<1>12. QED
  BY <1>4, <1>6, <1>7, <1>8, <1>9, <1>10, <1>11, SaleStep DEF Inv, TypeOK

\* The unit in the handler's hands goes back on the shelf.
LEMMA PutBackStep ==
  ASSUME Inv, NEW k \in Slots, PutBack(k)
  PROVE  Inv'
<1>1. job[k].at = "putback" /\ job[k].at \in TakeLabels /\ job[k].at \in SaleLabels
  BY DEF PutBack, At, SaleLabels, TakeLabels
<1>2. PICK l \in Listings : l = job[k].l
  BY <1>1, OwnSale
<1>3. /\ UNCHANGED <<offerVars, faults>> /\ order' = order /\ settled' = settled /\ held' = held
      /\ charged' = charged /\ shipPaid' = shipPaid /\ status' = status /\ item' = item
      /\ offer' = offer
  BY DEF PutBack, moneyVars, offerVars
<1>4. /\ Touches(k) /\ job'[k].at \in {"idle", "lapse", "link"}
      /\ MakesFairly(k) /\ HoldsFairly(k) /\ Fits(job'[k], offer, order')
  BY <1>3, EndJob DEF PutBack
<1>5. /\ quantity' \in [Listings -> Nat] /\ quantity'[l] = quantity[l] + 1
      /\ \A m \in Listings \ {l} : quantity'[m] = quantity[m]
  BY <1>2 DEF PutBack, Inv, TypeOK
<1>6. AllStocked'
  <2> SUFFICES ASSUME NEW m \in Listings PROVE Stocked(m)'
    BY DEF AllStocked
  <2>1. StandingOrders(m)' = StandingOrders(m)
    BY <1>3 DEF StandingOrders
  <2>2. CASE m # l
    <3>1. Takers(m)' \subseteq Takers(m)
      BY <1>4 DEF Takers, Taking, Touches, TakeLabels
    <3>2. QED
      BY <1>5, <2>1, <2>2, <3>1, FewerUnits
  <2>3. CASE m = l
    <3>1. k \in Takers(l) /\ Takers(l)' \subseteq Takers(l) \ {k}
      BY <1>1, <1>2, <1>4 DEF Takers, Taking, Touches, TakeLabels
    <3>2. PICK T : T = Takers(l)
      OBVIOUS
    <3>3. IsFiniteSet(T) /\ k \in T /\ Cardinality(T) \in Nat
      BY <3>1, <3>2, FiniteUnits
    <3>4. Cardinality(T \ {k}) = Cardinality(T) - 1 /\ IsFiniteSet(T \ {k})
      BY <3>3, OneLess
    <3>5. Cardinality(Takers(l)') <= Cardinality(T \ {k})
      BY <3>1, <3>2, <3>4, FS_Subset
    <3>6. /\ quantity[l] + Cardinality(StandingOrders(l)) + Cardinality(T) <= Stock[l]
          /\ quantity[l] \in Nat /\ Stock[l] \in Nat
      BY <3>2, MarketAssumption DEF Inv, AllStocked, TypeOK, Stocked
    <3>7. quantity'[l] + Cardinality(StandingOrders(l)') + Cardinality(Takers(l)') <= Stock[l]
      BY <1>5, <2>1, <2>3, <3>3, <3>4, <3>5, <3>6, FiniteUnits, FiniteUnitsNext
    <3>8. QED
      BY <2>3, <3>7 DEF Stocked
  <2>4. QED
    BY <2>2, <2>3
<1>7. OrdersMove(k) /\ HoldsCovered'
  BY <1>3, SameOrders, MoneySame
<1>8. QED
  BY <1>3, <1>4, <1>5, <1>6, <1>7, SaleStep DEF Inv, TypeOK

LEMMA LinkOrderStep ==
  ASSUME Inv, NEW k \in Slots, LinkOrder(k)
  PROVE  Inv'
<1>1. Done(k) /\ faults' \in 0..MaxFaults
  BY DEF LinkOrder, Inv, TypeOK
<1>2. UNCHANGED <<moneyVars, offerVars, listingVars, order, item>>
  BY DEF LinkOrder
<1>3. QED
  BY <1>1, <1>2, EndStep

LEMMA EndPassStep ==
  ASSUME Inv, NEW k \in Slots, EndPass(k)
  PROVE  Inv'
<1>1. Done(k) /\ faults' \in 0..MaxFaults
  BY DEF EndPass, Inv, TypeOK
<1>2. UNCHANGED <<moneyVars, offerVars, listingVars, order, item>>
  BY DEF EndPass
<1>3. QED
  BY <1>1, <1>2, EndStep

-----------------------------------------------------------------------------
(* The clock, the seller, and money spent elsewhere.                       *)

\* No handler moves.
LEMMA OutsideStep ==
  ASSUME Inv, job' = job, offer' = offer, held' = held, order' = order,
         quantity' = quantity, charged' = charged, item' = item, shipPaid' = shipPaid,
         faults' = faults, HoldsCovered', settled' \in [Users -> Nat],
         overdue' \subseteq Offers,
         status' \in [Listings -> {"QUEUED", "SOLD", "CANCELED"}]
  PROVE  Inv'
<1>1. TypeOK'
  BY DEF Inv, TypeOK
<1>2. JobsFit'
  BY DEF Inv, JobsFit
<1>3. OneMaker' /\ OneHolder'
  BY DEF Inv, OneMaker, OneHolder, Making, Holding
<1>4. OpenOffersAreBacked'
  BY DEF Inv, OpenOffersAreBacked
<1>5. AllStocked'
  <2> SUFFICES ASSUME NEW l \in Listings PROVE Stocked(l)'
    BY DEF AllStocked
  <2>1. StandingOrders(l)' = StandingOrders(l) /\ Takers(l)' = Takers(l)
    BY DEF StandingOrders, Takers, Taking
  <2>2. QED
    BY <2>1, FewerUnits
<1>6. QED
  BY <1>1, <1>2, <1>3, <1>4, <1>5 DEF Inv

LEMMA FallDueStep ==
  ASSUME Inv, NEW o \in Offers, FallDue(o)
  PROVE  Inv'
BY OutsideStep, MoneySame DEF FallDue, Inv, TypeOK, moneyVars, listingVars

LEMMA DelistStep ==
  ASSUME Inv, NEW l \in Listings, Delist(l)
  PROVE  Inv'
BY OutsideStep, MoneySame DEF Delist, Inv, TypeOK, moneyVars, offerVars

LEMMA SpendStep ==
  ASSUME Inv, NEW u \in Users, NEW n \in Moves, Spend(u, n)
  PROVE  Inv'
<1>1. n \in Nat
  BY MarketAssumption
<1>2. settled' \in [Users -> Nat] /\ HoldsCovered'
  BY <1>1, SpendKeeps DEF Spend, offerVars
<1>3. QED
  BY <1>2, OutsideStep DEF Spend, Inv, TypeOK, offerVars, listingVars

-----------------------------------------------------------------------------
(* Faults.                                                                 *)

LEMMA FailStep ==
  ASSUME Inv, NEW k \in Slots, Fail(k)
  PROVE  Inv'
<1>1. faults' \in 0..MaxFaults
  BY MarketAssumption DEF Fail, Inv, TypeOK
<1>2. UNCHANGED <<moneyVars, offerVars, listingVars, order, item>>
  BY DEF Fail
<1>3. CASE Done(k) \/ Lose(k) \/ Sold(k)
  BY <1>1, <1>2, <1>3, EndStep
<1>4. ASSUME NEW at \in {"undo", "putback"}, GoTo(k, at), job[k].at \in HoldLabels
      PROVE  Inv'
  <2>1. order' = order
    BY <1>2
  <2>2. /\ Touches(k) /\ MakesFairly(k) /\ HoldsFairly(k) /\ TakesOn(k)
        /\ Fits(job'[k], offer, order')
    BY <1>4, <2>1, HoldGoesOn
  <2>3. QED
    BY <1>1, <1>2, <2>1, <2>2, ReadStep
<1>5. \/ Done(k) \/ Lose(k) \/ Sold(k)
      \/ \E at \in {"undo", "putback"} : GoTo(k, at) /\ job[k].at \in HoldLabels
  BY DEF Fail, At, HoldLabels
<1>6. QED
  BY <1>3, <1>4, <1>5

LEMMA CrashStep ==
  ASSUME Inv, Crash
  PROVE  Inv'
<1>1. \A k \in Slots : job'[k] = Idle
  BY DEF Crash
<1>2. /\ offer' = offer /\ held' = held /\ order' = order /\ quantity' = quantity
      /\ settled' = settled /\ overdue' = overdue /\ charged' = charged
      /\ shipPaid' = shipPaid /\ status' = status /\ item' = item
  BY DEF Crash, moneyVars, offerVars, listingVars
<1>3. TypeOK'
  <2>1. job' \in [Slots -> Jobs]
    BY IdleJob DEF Crash
  <2>2. faults' \in 0..MaxFaults
    BY MarketAssumption DEF Crash, Inv, TypeOK
  <2>3. QED
    BY <1>2, <2>1, <2>2 DEF Inv, TypeOK
<1>4. JobsFit'
  BY <1>1, IdleJob DEF JobsFit, Fits, MakeLabels, SaleLabels, TakeLabels, HoldLabels,
    PaidLabels
<1>5. OneMaker' /\ OneHolder'
  BY <1>1, IdleJob DEF OneMaker, OneHolder, Making, Holding, MakeLabels, HoldLabels
<1>6. AllStocked'
  <2> SUFFICES ASSUME NEW l \in Listings PROVE Stocked(l)'
    BY DEF AllStocked
  <2>1. Takers(l)' \subseteq Takers(l)
    BY <1>1, IdleJob DEF Takers, Taking, TakeLabels
  <2>2. StandingOrders(l)' \subseteq StandingOrders(l)
    BY <1>2 DEF StandingOrders
  <2>3. QED
    BY <1>2, <2>1, <2>2, FewerUnits
<1>7. HoldsCovered' /\ OpenOffersAreBacked'
  BY <1>2, MoneySame DEF Inv, OpenOffersAreBacked
<1>8. QED
  BY <1>3, <1>4, <1>5, <1>6, <1>7 DEF Inv

-----------------------------------------------------------------------------
(* The theorems.                                                           *)

LEMMA InitInv == Init => Inv
<1> SUFFICES ASSUME Init PROVE Inv
  OBVIOUS
<1>1. \A k \in Slots : job[k] = Idle
  BY DEF Init
<1>2. NoOrder \in OrderRows /\ NoOrder.status = "NONE"
  BY DEF NoOrder, OrderRows
<1>3. TypeOK
  BY <1>2, IdleJob, MarketAssumption DEF Init, TypeOK, OfferStatus, HoldStatus
<1>4. JobsFit
  BY <1>1, IdleJob DEF JobsFit, Fits, MakeLabels, SaleLabels, TakeLabels, HoldLabels,
    PaidLabels
<1>5. OneMaker /\ OneHolder
  BY <1>1, IdleJob DEF OneMaker, OneHolder, Making, Holding, MakeLabels, HoldLabels
<1>6. OpenOffersAreBacked
  BY DEF Init, OpenOffersAreBacked
<1>7. HoldsCovered
  <2> SUFFICES ASSUME NEW u \in Users PROVE ActiveHolds(u) <= settled[u]
    BY DEF HoldsCovered
  <2> DEFINE f == [o \in Offers |-> IF held[o] = "ACTIVE" /\ Bidder[o] = u THEN Reserve(o) ELSE 0]
  <2>1. \A o \in Offers : f[o] = 0
    BY DEF Init
  <2>2. IsFiniteSet(Offers)
    BY MarketAssumption
  <2>3. Total(f, Offers) = 0
    BY <2>1, <2>2, TotalZero
  <2>4. ActiveHolds(u) = 0 /\ settled[u] \in Nat
    BY <1>3, <2>3 DEF ActiveHolds, TypeOK
  <2>5. QED
    BY <2>4
<1>8. AllStocked
  <2> SUFFICES ASSUME NEW l \in Listings PROVE Stocked(l)
    BY DEF AllStocked
  <2>1. StandingOrders(l) = {} /\ Takers(l) = {}
    BY <1>1, <1>2, IdleJob DEF Init, StandingOrders, Takers, Taking, TakeLabels
  <2>2. Cardinality({}) = 0
    BY FS_EmptySet
  <2>3. quantity[l] = Stock[l] /\ Stock[l] \in Nat
    BY MarketAssumption DEF Init
  <2>4. QED
    BY <2>1, <2>2, <2>3 DEF Stocked
<1>9. QED
  BY <1>3, <1>4, <1>5, <1>6, <1>7, <1>8 DEF Inv

LEMMA StepInv == Inv /\ [Next]_vars => Inv'
<1> SUFFICES ASSUME Inv, [Next]_vars PROVE Inv'
  OBVIOUS
<1>1. CASE UNCHANGED vars
  BY <1>1, OutsideStep, MoneySame DEF vars, moneyVars, offerVars, listingVars, Inv, TypeOK
<1>2. ASSUME NEW k \in Requests, Start(k)
      PROVE  Inv'
  BY <1>2, MakeOfferStep, StartCounterStep, AcceptStep, CloseStep, BuyStep DEF Start, Slots
<1>3. ASSUME NEW k \in Slots, Step(k)
      PROVE  Inv'
  BY <1>3, FindPreviousStep, RetirePreviousStep, ReleasePreviousStep, ReserveOfferStep,
     CloseOfferStep, FreeReserveStep, CounterOfferStep, ClaimOfferStep, YieldReserveStep,
     LapseOfferStep, LinkOrderStep, ClaimUnitStep, CreateOrderStep, ChargeStep,
     RecordOrderStep, DropOrderStep, PutBackStep, ReadStockStep, MarkSoldStep,
     CreateItemStep, PrepayShippingStep, PackItemStep, ExpireNextStep, EndPassStep
     DEF Step
<1>4. ASSUME NEW k \in Passes, StartPass(k)
      PROVE  Inv'
  BY <1>4, StartPassStep DEF Slots
<1>5. QED
  BY <1>1, <1>2, <1>3, <1>4, FailStep, FallDueStep, DelistStep, SpendStep, CrashStep
     DEF Next

\* The inductive invariant holds in every state: handlers fit their rows, and the
\* units on the shelf, in handlers' hands and sold never exceed those there were
\* (offers.ts:98-356, market.ts:694-826).
THEOREM Invariance == Spec => []Inv
BY InitInv, StepInv, PTL DEF Spec

\* Rows, balances and handlers stay in their ranges.
THEOREM Typing == Spec => []TypeOK
<1>1. Inv => TypeOK
  BY DEF Inv
<1>2. QED
  BY <1>1, Invariance, PTL

\* For any number of buyers and offers, what a user's offers hold is in their
\* balance, whatever else they spend (offers.ts:112-133).
THEOREM HoldsAlwaysCovered == Spec => []HoldsCovered
<1>1. Inv => HoldsCovered
  BY DEF Inv
<1>2. QED
  BY <1>1, Invariance, PTL

\* An offer that can be accepted has its hold, across replacements, races of
\* accept, cancel and expiry, errors and crashes (offers.ts:13).
THEOREM OpenOffersAlwaysBacked == Spec => []OpenOffersAreBacked
<1>1. Inv => OpenOffersAreBacked
  BY DEF Inv
<1>2. QED
  BY <1>1, Invariance, PTL

\* Orders that stand and units on sale never add up to more than the seller had,
\* for any number of concurrent buyers and acceptances (market.ts:703-707).
THEOREM NeverSoldTwice == Spec => []NeverOversold
<1>1. Inv => NeverOversold
  <2> SUFFICES ASSUME Inv, NEW l \in Listings
               PROVE  quantity[l] \in 0..(Stock[l] - Cardinality(StandingOrders(l)))
    BY DEF NeverOversold
  <2>1. Stocked(l) /\ quantity[l] \in Nat /\ Stock[l] \in Nat
    BY MarketAssumption DEF Inv, AllStocked, TypeOK
  <2>2. QED
    BY <2>1, FiniteUnits DEF Stocked
<1>2. QED
  BY <1>1, Invariance, PTL

-----------------------------------------------------------------------------
(* Accepted offers.                                                        *)

\* The labels at which a handler answers for the offer it has claimed, and those
\* of them at which that offer has no order.
ClaimLabels == SaleLabels \cup {"yield", "link", "lapse"}
EarlyLabels == {"yield", "unit", "order", "putback", "lapse"}

Claiming(k, o) == job[k].at \in ClaimLabels /\ job[k].o = o

\* The buyer of an offer was charged for an order that stands.
Bought(o, or, ch) == \E r \in ch : or[r].via = o /\ or[r].status = "LOCKED"

\* What a handler that has claimed an offer may rely on.
SaleFits(j, or, ch) ==
  /\ j.at \in EarlyLabels => \A r \in Orders : or[r].via # j.o
  /\ j.at \in HoldLabels => \A r \in Orders : or[r].via = j.o => r = j.r
  /\ j.at = "record" => j.r \in ch
  /\ j.at \in PaidLabels \cup {"link"} => Bought(j.o, or, ch)

\* While no handler has failed, an accepted offer has its one handler or its order.
AcceptFits(o) ==
  /\ \A k \in Slots : Claiming(k, o) =>
       offer[o] = "ACCEPTED" /\ SaleFits(job[k], order, charged)
  /\ \A k, h \in Slots : Claiming(k, o) /\ Claiming(h, o) => k = h
  /\ \A r \in Orders : order[r].via = o => offer[o] = "ACCEPTED"
  /\ offer[o] = "ACCEPTED" => Bought(o, order, charged) \/ \E k \in Slots : Claiming(k, o)

AllAcceptsFit == \A o \in Offers : AcceptFits(o)
SaleInv == faults = 0 => AllAcceptsFit

\* An offer the step is not about.
LEMMA AcceptRests ==
  ASSUME Inv, NEW k \in Slots, NEW o \in Offers, AcceptFits(o), Touches(k),
         ~Claiming(k, o), ~Claiming(k, o)',
         offer[o] = "ACCEPTED" <=> offer'[o] = "ACCEPTED",
         \A r \in Orders : order[r].via = o \/ order'[r].via = o => order'[r] = order[r],
         charged \subseteq charged'
  PROVE  AcceptFits(o)'
<1>1. \A h \in Slots : (Claiming(h, o)' <=> Claiming(h, o)) /\ (Claiming(h, o) => job'[h] = job[h])
  BY DEF Touches, Claiming
<1>2. charged \subseteq Orders
  BY DEF Inv, TypeOK
<1>3. Bought(o, order, charged) => Bought(o, order', charged')
  BY <1>2 DEF Bought
<1>4. ASSUME NEW h \in Slots, Claiming(h, o)
      PROVE  SaleFits(job[h], order', charged')
  <2>1. SaleFits(job[h], order, charged) /\ job[h].o = o
    BY <1>4 DEF AcceptFits, Claiming
  <2>2. QED
    BY <1>3, <2>1 DEF SaleFits
<1>5. QED
  BY <1>1, <1>3, <1>4 DEF AcceptFits

\* An offer its one handler goes on with.
LEMMA AcceptHandled ==
  ASSUME NEW k \in Slots, NEW o \in Offers, Touches(k), Claiming(k, o)',
         \A h \in Slots \ {k} : ~Claiming(h, o),
         offer'[o] = "ACCEPTED", SaleFits(job'[k], order', charged')
  PROVE  AcceptFits(o)'
<1>1. \A h \in Slots \ {k} : ~Claiming(h, o)'
  BY DEF Touches, Claiming
<1>2. QED
  BY <1>1 DEF AcceptFits

\* An offer whose handler is through.
LEMMA AcceptOver ==
  ASSUME NEW k \in Slots, NEW o \in Offers, Touches(k), ~Claiming(k, o)',
         \A h \in Slots \ {k} : ~Claiming(h, o),
         \/ offer'[o] = "ACCEPTED" /\ Bought(o, order', charged')
         \/ offer'[o] # "ACCEPTED" /\ \A r \in Orders : order'[r].via # o
  PROVE  AcceptFits(o)'
<1>1. \A h \in Slots : ~Claiming(h, o)'
  BY DEF Touches, Claiming
<1>2. QED
  BY <1>1 DEF AcceptFits

\* A step of one handler that writes no order and accepts no offer.
LEMMA AcceptQuiet ==
  ASSUME Inv, AllAcceptsFit, NEW k \in Slots, Touches(k), order' = order,
         charged \subseteq charged',
         \A o \in Offers : offer[o] = "ACCEPTED" <=> offer'[o] = "ACCEPTED",
         \A o \in Offers : Claiming(k, o)' => Claiming(k, o),
         \A o \in Offers : Claiming(k, o) =>
           \/ Claiming(k, o)' /\ SaleFits(job'[k], order, charged')
           \/ ~Claiming(k, o)' /\ Bought(o, order, charged)
  PROVE  AllAcceptsFit'
<1> SUFFICES ASSUME NEW o \in Offers PROVE AcceptFits(o)'
  BY DEF AllAcceptsFit
<1>1. AcceptFits(o)
  BY DEF AllAcceptsFit
<1>2. CASE Claiming(k, o)
  <2>1. offer'[o] = "ACCEPTED" /\ \A h \in Slots \ {k} : ~Claiming(h, o)
    BY <1>1, <1>2 DEF AcceptFits
  <2>2. CASE Claiming(k, o)' /\ SaleFits(job'[k], order, charged')
    BY <2>1, <2>2, AcceptHandled
  <2>3. CASE ~Claiming(k, o)' /\ Bought(o, order, charged)
    <3>1. Bought(o, order', charged')
      BY <2>3 DEF Bought
    <3>2. QED
      BY <2>1, <2>3, <3>1, AcceptOver
  <2>4. QED
    BY <1>2, <2>2, <2>3
<1>3. CASE ~Claiming(k, o)
  BY <1>1, <1>3, AcceptRests
<1>4. QED
  BY <1>2, <1>3

\* A step of a handler that answers for no offer before or after.
LEMMA AcceptApart ==
  ASSUME Inv, AllAcceptsFit, NEW k \in Slots, Touches(k), order' = order, charged' = charged,
         \A o \in Offers : offer[o] = "ACCEPTED" <=> offer'[o] = "ACCEPTED",
         job[k].at \notin ClaimLabels, job'[k].at \notin ClaimLabels \/ job'[k].o = None
  PROVE  AllAcceptsFit'
<1>1. \A o \in Offers : ~Claiming(k, o) /\ ~Claiming(k, o)'
  BY MarketAssumption DEF Claiming
<1>2. QED
  BY <1>1, AcceptQuiet

-----------------------------------------------------------------------------
(* Accepted offers: the steps.                                             *)

LEMMA StartAccepts ==
  ASSUME Inv, AllAcceptsFit, NEW k \in Slots, Start(k)
  PROVE  AllAcceptsFit'
<1>1. job[k].at = "idle"
  BY IdleJob DEF Start, MakeOffer, StartCounter, Accept, Close, Buy, Free
<1>2. offer' = offer /\ order' = order /\ charged' = charged
  BY DEF Start, MakeOffer, StartCounter, Accept, Close, Buy, moneyVars, offerVars
<1>3. PICK j \in Jobs : job' = [job EXCEPT ![k] = j] /\ (j.at \notin ClaimLabels \/ j.o = None)
  <2>1. ASSUME NEW o \in Offers, MakeOffer(k, o)
        PROVE  \E j \in Jobs : job' = [job EXCEPT ![k] = j] /\ j.at \notin ClaimLabels
    <3>1. [Idle EXCEPT !.at = "previous", !.o = o] \in Jobs
      BY IdleJob DEF Jobs, Labels
    <3>2. [Idle EXCEPT !.at = "previous", !.o = o].at = "previous"
      BY DEF Idle
    <3>3. QED
      BY <2>1, <3>1, <3>2 DEF MakeOffer, ClaimLabels, SaleLabels, TakeLabels
  <2>2. ASSUME NEW o \in Offers, StartCounter(k, o)
        PROVE  \E j \in Jobs : job' = [job EXCEPT ![k] = j] /\ j.at \notin ClaimLabels
    <3>1. [Idle EXCEPT !.at = "counter", !.row = o] \in Jobs
      BY IdleJob DEF Jobs, Labels
    <3>2. [Idle EXCEPT !.at = "counter", !.row = o].at = "counter"
      BY DEF Idle
    <3>3. QED
      BY <2>2, <3>1, <3>2 DEF StartCounter, ClaimLabels, SaleLabels, TakeLabels
  <2>3. ASSUME NEW o \in Offers, NEW to \in OfferStatus, Close(k, o, to)
        PROVE  \E j \in Jobs : job' = [job EXCEPT ![k] = j] /\ j.at \notin ClaimLabels
    <3>1. [Idle EXCEPT !.at = "close", !.row = o, !.to = to] \in Jobs
      BY IdleJob DEF Jobs, Labels
    <3>2. [Idle EXCEPT !.at = "close", !.row = o, !.to = to].at = "close"
      BY DEF Idle
    <3>3. QED
      BY <2>3, <3>1, <3>2 DEF Close, ClaimLabels, SaleLabels, TakeLabels
  <2>4. ASSUME NEW o \in Offers, Accept(k, o)
        PROVE  \E j \in Jobs : job' = [job EXCEPT ![k] = j] /\ j.at \notin ClaimLabels
    <3>1. PICK n \in Nat : n = IF offer[o] = "COUNTERED" THEN Counter[o] ELSE Amount[o]
      BY MarketAssumption
    <3>2. On[o] \in Listings /\ Bidder[o] \in Users
      BY MarketAssumption
    <3> DEFINE c == [Idle EXCEPT !.at = "claim", !.o = o, !.row = o, !.u = Bidder[o],
                                 !.l = On[o], !.price = n]
               e == [Idle EXCEPT !.at = "close", !.row = o, !.to = "EXPIRED"]
    <3>3. c \in Jobs
      BY <3>1, <3>2 DEF Idle, Jobs, Labels, OfferStatus
    <3>4. e \in Jobs
      BY DEF Idle, Jobs, Labels, OfferStatus
    <3>5. c.at = "claim" /\ e.at = "close"
      BY DEF Idle
    <3>6. job' = [job EXCEPT ![k] = c] \/ job' = [job EXCEPT ![k] = e]
      BY <2>4, <3>1 DEF Accept
    <3> HIDE DEF c, e
    <3>7. QED
      BY <3>3, <3>4, <3>5, <3>6 DEF ClaimLabels, SaleLabels, TakeLabels
  <2>5. ASSUME NEW u \in Users, NEW l \in Listings, Buy(k, u, l)
        PROVE  \E j \in Jobs : job' = [job EXCEPT ![k] = j] /\ j.o = None
    <3>1. BuyNow[l] \in Nat
      BY MarketAssumption
    <3>2. [Idle EXCEPT !.at = "unit", !.u = u, !.l = l, !.price = BuyNow[l]] \in Jobs
      BY <3>1, IdleJob DEF Jobs, Labels
    <3>3. [Idle EXCEPT !.at = "unit", !.u = u, !.l = l, !.price = BuyNow[l]].o = None
      BY DEF Idle
    <3>4. QED
      BY <2>5, <3>2, <3>3 DEF Buy
  <2>6. QED
    BY <2>1, <2>2, <2>3, <2>4, <2>5 DEF Start
<1>4. Touches(k) /\ job'[k] = j
  BY <1>3, Becoming
<1>5. job[k].at \notin ClaimLabels
  BY <1>1 DEF ClaimLabels, SaleLabels, TakeLabels
<1>6. QED
  BY <1>2, <1>3, <1>4, <1>5, AcceptApart

\* Offers are made, replaced, closed, countered and expire.
LEMMA OfferAccepts ==
  ASSUME Inv, AllAcceptsFit, NEW k \in Slots,
         \/ FindPrevious(k) \/ RetirePrevious(k) \/ ReleasePrevious(k) \/ ReserveOffer(k)
         \/ CloseOffer(k) \/ FreeReserve(k) \/ CounterOffer(k) \/ ExpireNext(k) \/ EndPass(k)
  PROVE  AllAcceptsFit'
<1>1. job[k] \in Jobs /\ job \in [Slots -> Jobs] /\ Fits(job[k], offer, order)
      /\ offer \in [Offers -> OfferStatus]
  BY DEF Inv, TypeOK, JobsFit
<1>2. /\ job[k].at \in {"previous", "retire", "unhold", "close", "free", "counter", "next"}
      /\ order' = order /\ charged' = charged
  BY DEF FindPrevious, RetirePrevious, ReleasePrevious, ReserveOffer, CloseOffer,
    FreeReserve, CounterOffer, ExpireNext, EndPass, At, moneyVars
<1>3. Touches(k) /\ job'[k].at \in {"idle", "retire", "unhold", "free", "next"}
  <2>1. CASE \E at \in {"retire", "unhold", "free", "next"} : GoTo(k, at)
    BY <2>1, GoToJob DEF Labels
  <2>2. CASE Done(k)
    BY <2>2, DoneJob, IdleJob
  <2>3. CASE FindPrevious(k) \/ RetirePrevious(k) \/ ExpireNext(k)
    <3>1. PICK at \in {"retire", "unhold", "free", "next"}, row \in Offers \cup {None},
               todo \in SUBSET Offers :
            job' = [job EXCEPT ![k] = [job[k] EXCEPT !.at = at, !.row = row, !.todo = todo]]
      <4>1. CASE FindPrevious(k)
        <5> DEFINE prev == {p \in Offers : /\ Open(p) /\ Bidder[p] = Bidder[job[k].o]
                                           /\ On[p] = On[job[k].o]}
        <5>1. job' = [job EXCEPT ![k] = [job[k] EXCEPT !.at = "retire", !.row = job[k].row,
                                                       !.todo = prev]]
          BY <1>1, <4>1 DEF FindPrevious, Jobs
        <5>2. job[k].row \in Offers \cup {None} /\ prev \in SUBSET Offers
          BY <1>1 DEF Jobs
        <5> HIDE DEF prev
        <5>3. QED
          BY <5>1, <5>2
      <4>2. CASE RetirePrevious(k)
        <5>1. PICK p \in job[k].todo :
                job' = [job EXCEPT ![k].at = "unhold", ![k].row = p, ![k].todo = @ \ {p}]
          BY <4>2 DEF RetirePrevious
        <5>2. job' = [job EXCEPT ![k] = [job[k] EXCEPT !.at = "unhold", !.row = p,
                                                       !.todo = job[k].todo \ {p}]]
          BY <1>1, <5>1
        <5>3. p \in Offers /\ job[k].todo \ {p} \in SUBSET Offers
          BY <1>1, <5>1 DEF Jobs
        <5>4. QED
          BY <5>2, <5>3
      <4>3. CASE ExpireNext(k)
        <5>1. PICK o \in job[k].todo :
                \/ job' = [job EXCEPT ![k].at = "free", ![k].row = o, ![k].todo = @ \ {o}]
                \/ job' = [job EXCEPT ![k].todo = @ \ {o}]
          BY <4>3 DEF ExpireNext
        <5>2. o \in Offers /\ job[k].todo \ {o} \in SUBSET Offers
              /\ job[k].row \in Offers \cup {None} /\ job[k].at = "next"
          BY <1>1, <4>3, <5>1 DEF Jobs, ExpireNext, At
        <5>3. CASE job' = [job EXCEPT ![k].at = "free", ![k].row = o, ![k].todo = @ \ {o}]
          <6>1. job' = [job EXCEPT ![k] = [job[k] EXCEPT !.at = "free", !.row = o,
                                                         !.todo = job[k].todo \ {o}]]
            BY <1>1, <5>3
          <6>2. QED
            BY <5>2, <6>1
        <5>4. CASE job' = [job EXCEPT ![k].todo = @ \ {o}]
          <6>1. job' = [job EXCEPT ![k] = [job[k] EXCEPT !.at = "next", !.row = job[k].row,
                                                         !.todo = job[k].todo \ {o}]]
            BY <1>1, <5>2, <5>4 DEF Jobs
          <6>2. QED
            BY <5>2, <6>1
        <5>5. QED
          BY <5>1, <5>3, <5>4
      <4>4. QED
        BY <2>3, <4>1, <4>2, <4>3
    <3>2. PICK j \in Jobs : j = [job[k] EXCEPT !.at = at, !.row = row, !.todo = todo]
      BY <1>1 DEF Jobs, Labels
    <3>3. j.at = at /\ job' = [job EXCEPT ![k] = j]
      BY <1>1, <3>1, <3>2 DEF Jobs
    <3>4. QED
      BY <3>3, Becoming
  <2>4. QED
    BY <2>1, <2>2, <2>3 DEF ReleasePrevious, ReserveOffer, CloseOffer, FreeReserve,
      CounterOffer, EndPass
<1>4. \A o \in Offers : offer[o] = "ACCEPTED" <=> offer'[o] = "ACCEPTED"
  <2>1. CASE offer' = offer
    BY <2>1
  <2>2. ASSUME NEW x \in Offers, offer[x] # "ACCEPTED",
               NEW st \in OfferStatus \ {"ACCEPTED"}, offer' = [offer EXCEPT ![x] = st]
        PROVE  \A o \in Offers : offer[o] = "ACCEPTED" <=> offer'[o] = "ACCEPTED"
    BY <1>1, <2>2
  <2>3. CASE RetirePrevious(k)
    BY <1>1, <2>1, <2>2, <2>3 DEF RetirePrevious, Open, Jobs, OfferStatus
  <2>4. CASE ReserveOffer(k)
    <3>1. job[k].o \in Offers /\ offer[job[k].o] = "NONE"
      BY <1>1, <2>4 DEF ReserveOffer, At, Fits, MakeLabels
    <3>2. QED
      BY <2>1, <2>2, <2>4, <3>1 DEF ReserveOffer, OfferStatus
  <2>5. CASE CloseOffer(k)
    <3>1. job[k].row \in Offers /\ job[k].to \in OfferStatus \ {"ACCEPTED"}
      BY <1>1, <2>5 DEF CloseOffer, At, Fits, ClosedStatus, OfferStatus
    <3>2. QED
      BY <2>1, <2>2, <2>5, <3>1 DEF CloseOffer, Open
  <2>6. CASE CounterOffer(k)
    <3>1. job[k].row \in Offers
      BY <1>1, <2>6 DEF CounterOffer, At, Fits
    <3>2. QED
      BY <2>1, <2>2, <2>6, <3>1 DEF CounterOffer, OfferStatus
  <2>7. CASE ExpireNext(k)
    BY <1>1, <2>1, <2>2, <2>7 DEF ExpireNext, Open, Jobs, OfferStatus
  <2>8. QED
    BY <2>1, <2>3, <2>4, <2>5, <2>6, <2>7 DEF FindPrevious, ReleasePrevious, FreeReserve,
      EndPass, offerVars
<1>5. job[k].at \notin ClaimLabels /\ job'[k].at \notin ClaimLabels
  BY <1>2, <1>3 DEF ClaimLabels, SaleLabels, TakeLabels
<1>6. QED
  BY <1>2, <1>3, <1>4, <1>5, AcceptApart

\* A handler that goes on with the offer it has claimed, and writes no order.
LEMMA AcceptGoesOn ==
  ASSUME Inv, AllAcceptsFit, NEW k \in Slots, NEW at \in ClaimLabels, GoTo(k, at),
         job[k].at \in ClaimLabels, order' = order, offer' = offer, charged \subseteq charged',
         \A o \in Offers : Claiming(k, o) => SaleFits(job'[k], order, charged')
  PROVE  AllAcceptsFit'
<1>1. at \in Labels
  BY DEF ClaimLabels, SaleLabels, TakeLabels, Labels
<1>2. Touches(k) /\ job'[k].at = at /\ job'[k].o = job[k].o
  BY <1>1, GoToJob
<1>3. \A o \in Offers : Claiming(k, o)' <=> Claiming(k, o)
  BY <1>2 DEF Claiming
<1>4. QED
  BY <1>2, <1>3, AcceptQuiet

\* A handler whose order stands, or a buyer's, is through.
LEMMA AcceptEnds ==
  ASSUME Inv, AllAcceptsFit, NEW k \in Slots, Done(k),
         order' = order, offer' = offer, charged' = charged,
         job[k].at \in PaidLabels \cup {"link"} \/ job[k].o = None
  PROVE  AllAcceptsFit'
<1>1. Touches(k) /\ job'[k].at = "idle"
  BY DoneJob, IdleJob
<1>2. \A o \in Offers : ~Claiming(k, o)'
  BY <1>1 DEF Claiming, ClaimLabels, SaleLabels, TakeLabels
<1>3. ASSUME NEW o \in Offers, Claiming(k, o)
      PROVE  Bought(o, order, charged)
  <2>1. SaleFits(job[k], order, charged) /\ job[k].o = o /\ o # None
    BY <1>3, MarketAssumption DEF AllAcceptsFit, AcceptFits, Claiming
  <2>2. QED
    BY <2>1 DEF SaleFits
<1>4. QED
  BY <1>1, <1>2, <1>3, AcceptQuiet

\* Steps of a sale that write no order.
LEMMA SaleAccepts ==
  ASSUME Inv, AllAcceptsFit, NEW k \in Slots,
         \/ YieldReserve(k) \/ ClaimUnit(k) \/ Charge(k) \/ PutBack(k) \/ ReadStock(k)
         \/ MarkSold(k) \/ CreateItem(k) \/ PrepayShipping(k) \/ PackItem(k) \/ LinkOrder(k)
  PROVE  AllAcceptsFit'
<1>1. job[k] \in Jobs /\ Fits(job[k], offer, order) /\ charged \subseteq Orders
      /\ \A o \in Offers : Claiming(k, o) => SaleFits(job[k], order, charged)
  BY DEF Inv, TypeOK, JobsFit, AllAcceptsFit, AcceptFits
<1>2. order' = order /\ offer' = offer
  BY DEF YieldReserve, ClaimUnit, Charge, PutBack, ReadStock, MarkSold, CreateItem,
    PrepayShipping, PackItem, LinkOrder, offerVars
<1>3. ASSUME NEW at \in ClaimLabels, GoTo(k, at), charged \subseteq charged',
             job[k].at \in ClaimLabels,
             \/ job[k].at \in EarlyLabels /\ at \in EarlyLabels
             \/ job[k].at \in PaidLabels \cup {"link"} /\ at \in PaidLabels \cup {"link"}
             \/ /\ job[k].at \in HoldLabels
                /\ at = "undo" \/ (at = "record" /\ job[k].r \in charged')
      PROVE  AllAcceptsFit'
  <2>1. at \in Labels
    BY DEF ClaimLabels, SaleLabels, TakeLabels, Labels
  <2>2. job'[k].at = at /\ job'[k].o = job[k].o /\ job'[k].r = job[k].r
    BY <1>3, <2>1, GoToJob
  <2>3. ASSUME SaleFits(job[k], order, charged)
        PROVE  SaleFits(job'[k], order, charged')
    <3>1. CASE job[k].at \in EarlyLabels /\ at \in EarlyLabels
      BY <2>2, <2>3, <3>1 DEF SaleFits, EarlyLabels, HoldLabels, PaidLabels
    <3>2. CASE job[k].at \in PaidLabels \cup {"link"} /\ at \in PaidLabels \cup {"link"}
      <4>1. Bought(job[k].o, order, charged')
        BY <1>3, <2>3, <3>2 DEF SaleFits, Bought
      <4>2. QED
        BY <2>2, <3>2, <4>1 DEF SaleFits, EarlyLabels, HoldLabels, PaidLabels
    <3>3. CASE /\ job[k].at \in HoldLabels
               /\ at = "undo" \/ (at = "record" /\ job[k].r \in charged')
      BY <2>2, <2>3, <3>3 DEF SaleFits, EarlyLabels, HoldLabels, PaidLabels
    <3>4. QED
      BY <1>3, <3>1, <3>2, <3>3
  <2>4. QED
    BY <1>1, <1>2, <1>3, <2>3, AcceptGoesOn
<1>4. CASE YieldReserve(k)
  BY <1>3, <1>4 DEF YieldReserve, At, EarlyLabels, ClaimLabels, SaleLabels, TakeLabels,
    moneyVars
<1>5. CASE ClaimUnit(k) \/ PutBack(k)
  <2>1. job[k].at \in {"unit", "putback"} /\ charged' = charged
    BY <1>5 DEF ClaimUnit, PutBack, At, moneyVars
  <2>2. CASE GoTo(k, "order") \/ GoTo(k, "lapse")
    BY <1>3, <2>1, <2>2 DEF EarlyLabels, ClaimLabels, SaleLabels, TakeLabels
  <2>3. CASE Done(k) /\ job[k].o = None
    BY <1>2, <2>1, <2>3, AcceptEnds
  <2>4. QED
    BY <1>5, <2>2, <2>3 DEF ClaimUnit, PutBack, Lose
<1>6. CASE Charge(k)
  <2>1. job[k].at = "charge"
    BY <1>6 DEF Charge, At
  <2>2. CASE GoTo(k, "record") /\ charged' = charged \cup {job[k].r}
    BY <1>3, <2>1, <2>2 DEF HoldLabels, ClaimLabels, SaleLabels, TakeLabels
  <2>3. CASE GoTo(k, "undo") /\ charged' = charged
    BY <1>3, <2>1, <2>3 DEF HoldLabels, ClaimLabels, SaleLabels, TakeLabels
  <2>4. QED
    BY <1>6, <2>2, <2>3 DEF Charge
<1>7. CASE ReadStock(k) \/ MarkSold(k) \/ CreateItem(k)
  <2>1. job[k].at \in {"stock", "sold", "goods"} /\ charged' = charged
    BY <1>7 DEF ReadStock, MarkSold, CreateItem, At, moneyVars
  <2>2. GoTo(k, "sold") \/ GoTo(k, "goods") \/ GoTo(k, "ship")
    BY <1>7 DEF ReadStock, MarkSold, CreateItem
  <2>3. QED
    BY <1>3, <2>1, <2>2 DEF PaidLabels, ClaimLabels, SaleLabels
<1>8. CASE PrepayShipping(k) \/ PackItem(k) \/ LinkOrder(k)
  <2>1. job[k].at \in {"ship", "pack", "link"} /\ charged' = charged
    BY <1>8 DEF PrepayShipping, PackItem, LinkOrder, At, moneyVars
  <2>2. CASE GoTo(k, "pack") \/ GoTo(k, "link")
    BY <1>3, <2>1, <2>2 DEF PaidLabels, ClaimLabels, SaleLabels
  <2>3. CASE Done(k)
    BY <1>2, <2>1, <2>3, AcceptEnds DEF PaidLabels
  <2>4. QED
    BY <1>8, <2>2, <2>3 DEF PrepayShipping, PackItem, LinkOrder, Sold
<1>9. QED
  BY <1>4, <1>5, <1>6, <1>7, <1>8

\* The claim accepts an open offer, which nobody else has claimed.
LEMMA ClaimAccepts ==
  ASSUME Inv, AllAcceptsFit, NEW k \in Slots, ClaimOffer(k)
  PROVE  AllAcceptsFit'
<1>1. job[k].at = "claim" /\ Fits(job[k], offer, order) /\ offer \in [Offers -> OfferStatus]
  BY DEF Inv, TypeOK, JobsFit, ClaimOffer, At
<1>2. PICK o \in Offers : o = job[k].o
  BY <1>1 DEF Fits
<1>3. order' = order /\ charged' = charged /\ job[k].at \notin ClaimLabels
  BY <1>1 DEF ClaimOffer, moneyVars, ClaimLabels, SaleLabels, TakeLabels
<1>4. CASE Open(o) /\ offer' = [offer EXCEPT ![o] = "ACCEPTED"] /\ GoTo(k, "yield")
  <2>1. Touches(k) /\ job'[k].at = "yield" /\ job'[k].o = o
    BY <1>2, <1>4, GoToJob DEF Labels
  <2>2. AcceptFits(o)'
    <3>1. AcceptFits(o) /\ offer[o] # "ACCEPTED" /\ offer'[o] = "ACCEPTED"
      BY <1>1, <1>4 DEF AllAcceptsFit, Open
    <3>2. (\A h \in Slots : ~Claiming(h, o)) /\ (\A r \in Orders : order[r].via # o)
      BY <3>1 DEF AcceptFits
    <3>3. SaleFits(job'[k], order', charged')
      BY <1>3, <2>1, <3>2 DEF SaleFits, EarlyLabels, HoldLabels, PaidLabels
    <3>4. Claiming(k, o)'
      BY <2>1 DEF Claiming, ClaimLabels
    <3>5. QED
      BY <2>1, <3>1, <3>2, <3>3, <3>4, AcceptHandled
  <2>3. ASSUME NEW x \in Offers \ {o}
        PROVE  AcceptFits(x)'
    <3>1. ~Claiming(k, x) /\ ~Claiming(k, x)' /\ AcceptFits(x)
      BY <1>3, <2>1 DEF Claiming, AllAcceptsFit
    <3>2. offer'[x] = offer[x]
      BY <1>1, <1>4
    <3>3. QED
      BY <1>3, <2>1, <3>1, <3>2, AcceptRests
  <2>4. QED
    BY <2>2, <2>3 DEF AllAcceptsFit
<1>5. CASE Done(k) /\ offer' = offer
  <2>1. Touches(k) /\ job'[k].at = "idle"
    BY <1>5, DoneJob, IdleJob
  <2>2. QED
    BY <1>3, <1>5, <2>1, AcceptApart DEF ClaimLabels, SaleLabels, TakeLabels
<1>6. QED
  BY <1>2, <1>4, <1>5 DEF ClaimOffer

\* What the handler of an offer knows, and that it is alone.
LEMMA OwnAccept ==
  ASSUME Inv, AllAcceptsFit, NEW k \in Slots, NEW o \in Offers, Claiming(k, o)
  PROVE  /\ offer[o] = "ACCEPTED" /\ SaleFits(job[k], order, charged)
         /\ \A h \in Slots \ {k} : ~Claiming(h, o)
BY DEF AllAcceptsFit, AcceptFits

\* A sale that failed takes the acceptance back; there is no order.
LEMMA LapseAccepts ==
  ASSUME Inv, AllAcceptsFit, NEW k \in Slots, LapseOffer(k)
  PROVE  AllAcceptsFit'
<1>1. job[k].at = "lapse" /\ Fits(job[k], offer, order) /\ offer \in [Offers -> OfferStatus]
  BY DEF Inv, TypeOK, JobsFit, LapseOffer, At
<1>2. PICK o \in Offers : o = job[k].o
  BY <1>1 DEF Fits
<1>3. Claiming(k, o)
  BY <1>1, <1>2 DEF Claiming, ClaimLabels
<1>4. /\ offer[o] = "ACCEPTED" /\ SaleFits(job[k], order, charged)
      /\ \A h \in Slots \ {k} : ~Claiming(h, o)
  BY <1>3, OwnAccept
<1>5. /\ order' = order /\ charged' = charged
      /\ offer' = [offer EXCEPT ![o] = "EXPIRED"] /\ Touches(k) /\ job'[k].at = "idle"
  BY <1>2, <1>4, DoneJob, IdleJob DEF LapseOffer, moneyVars
<1>6. \A x \in Offers : ~Claiming(k, x)'
  BY <1>5 DEF Claiming, ClaimLabels, SaleLabels, TakeLabels
<1>7. AcceptFits(o)'
  <2>1. \A r \in Orders : order'[r].via # o
    BY <1>1, <1>2, <1>4, <1>5 DEF SaleFits, EarlyLabels
  <2>2. offer'[o] # "ACCEPTED"
    BY <1>1, <1>5
  <2>3. QED
    BY <1>4, <1>5, <1>6, <2>1, <2>2, AcceptOver
<1>8. ASSUME NEW x \in Offers \ {o}
      PROVE  AcceptFits(x)'
  <2>1. ~Claiming(k, x) /\ AcceptFits(x) /\ offer'[x] = offer[x]
    BY <1>1, <1>2, <1>5 DEF Claiming, AllAcceptsFit
  <2>2. QED
    BY <1>5, <1>6, <2>1, AcceptRests
<1>9. QED
  BY <1>7, <1>8 DEF AllAcceptsFit

\* A sale writes its order row: it is created, made to stand, or dropped.
LEMMA OrderAccepts ==
  ASSUME Inv, AllAcceptsFit, NEW k \in Slots, NEW r \in Orders, Touches(k),
         offer' = offer, charged' = charged,
         job[k].at \in ClaimLabels, job'[k].at \in ClaimLabels, job'[k].o = job[k].o,
         \A q \in Orders \ {r} : order'[q] = order[q],
         order[r].via \in {None, job[k].o}, order'[r].via \in {None, job[k].o},
         \A o \in Offers : Claiming(k, o) => SaleFits(job'[k], order', charged')
  PROVE  AllAcceptsFit'
<1> SUFFICES ASSUME NEW o \in Offers PROVE AcceptFits(o)'
  BY DEF AllAcceptsFit
<1>1. CASE Claiming(k, o)
  <2>1. Claiming(k, o)'
    BY <1>1 DEF Claiming
  <2>2. offer'[o] = "ACCEPTED" /\ \A h \in Slots \ {k} : ~Claiming(h, o)
    BY <1>1, OwnAccept
  <2>3. QED
    BY <1>1, <2>1, <2>2, AcceptHandled
<1>2. CASE ~Claiming(k, o)
  <2>1. ~Claiming(k, o)' /\ AcceptFits(o) /\ o # job[k].o /\ o # None
    BY <1>2, MarketAssumption DEF Claiming, AllAcceptsFit
  <2>2. \A q \in Orders : order[q].via = o \/ order'[q].via = o => order'[q] = order[q]
    BY <2>1
  <2>3. QED
    BY <1>2, <2>1, <2>2, AcceptRests
<1>3. QED
  BY <1>1, <1>2

LEMMA CreateAccepts ==
  ASSUME Inv, AllAcceptsFit, NEW k \in Slots, CreateOrder(k)
  PROVE  AllAcceptsFit'
<1>1. job[k].at = "order" /\ job[k] \in Jobs /\ job \in [Slots -> Jobs]
      /\ order \in [Orders -> OrderRows]
  BY DEF Inv, TypeOK, CreateOrder, At
<1>2. PICK r \in Orders :
        /\ order[r] = NoOrder
        /\ order' = [order EXCEPT ![r] = [status |-> "PENDING_SETTLEMENT",
                                          listing |-> job[k].l, via |-> job[k].o]]
        /\ job' = [job EXCEPT ![k].at = "charge", ![k].r = r]
  BY DEF CreateOrder
<1>3. PICK j \in Jobs : j = [job[k] EXCEPT !.at = "charge", !.r = r]
  BY <1>1 DEF Jobs, Labels
<1>4. j.at = "charge" /\ j.r = r /\ j.o = job[k].o /\ job' = [job EXCEPT ![k] = j]
  BY <1>1, <1>2, <1>3 DEF Jobs
<1>5. Touches(k) /\ job'[k] = j
  BY <1>4, Becoming
<1>6. /\ \A q \in Orders \ {r} : order'[q] = order[q]
      /\ order[r].via = None /\ order'[r].via = job[k].o
  BY <1>1, <1>2 DEF NoOrder
<1>7. ASSUME NEW o \in Offers, Claiming(k, o)
      PROVE  SaleFits(job'[k], order', charged')
  <2>1. (\A q \in Orders : order[q].via # o) /\ o = job[k].o
    BY <1>1, <1>7, OwnAccept DEF SaleFits, EarlyLabels, Claiming
  <2>2. \A q \in Orders : order'[q].via = o => q = r
    BY <1>6, <2>1
  <2>3. QED
    BY <1>4, <1>5, <2>1, <2>2 DEF SaleFits, EarlyLabels, HoldLabels, PaidLabels
<1>8. job[k].at \in ClaimLabels /\ job'[k].at \in ClaimLabels
  BY <1>1, <1>4, <1>5 DEF ClaimLabels, SaleLabels, TakeLabels
<1>9. offer' = offer /\ charged' = charged
  BY DEF CreateOrder, moneyVars, offerVars
<1>10. QED
  BY <1>4, <1>5, <1>6, <1>7, <1>8, <1>9, OrderAccepts

LEMMA RecordAccepts ==
  ASSUME Inv, AllAcceptsFit, NEW k \in Slots, RecordOrder(k)
  PROVE  AllAcceptsFit'
<1>1. /\ job[k].at = "record" /\ Fits(job[k], offer, order) /\ charged \subseteq Orders
      /\ order \in [Orders -> OrderRows]
  BY DEF Inv, TypeOK, JobsFit, RecordOrder, At
<1>2. PICK r \in Orders : r = job[k].r /\ order[r].via = job[k].o
  BY <1>1 DEF Fits, HoldLabels
<1>3. order' = [order EXCEPT ![r].status = "LOCKED"] /\ offer' = offer /\ charged' = charged
  BY <1>2 DEF RecordOrder, moneyVars, offerVars
<1>4. order'[r].status = "LOCKED" /\ order'[r].via = order[r].via
      /\ \A q \in Orders \ {r} : order'[q] = order[q]
  BY <1>1, <1>3 DEF OrderRows
<1>5. Touches(k) /\ job'[k].at = "stock" /\ job'[k].o = job[k].o
  BY GoToJob DEF RecordOrder, Labels
<1>6. ASSUME NEW o \in Offers, Claiming(k, o)
      PROVE  SaleFits(job'[k], order', charged')
  <2>1. r \in charged' /\ o = job[k].o
    BY <1>1, <1>2, <1>3, <1>6, OwnAccept DEF SaleFits, Claiming
  <2>2. Bought(job'[k].o, order', charged')
    BY <1>2, <1>4, <1>5, <2>1 DEF Bought
  <2>3. QED
    BY <1>5, <2>2 DEF SaleFits, EarlyLabels, HoldLabels, PaidLabels
<1>7. job[k].at \in ClaimLabels /\ job'[k].at \in ClaimLabels
  BY <1>1, <1>5 DEF ClaimLabels, SaleLabels, TakeLabels, PaidLabels
<1>8. QED
  BY <1>2, <1>3, <1>4, <1>5, <1>6, <1>7, OrderAccepts

LEMMA DropAccepts ==
  ASSUME Inv, AllAcceptsFit, NEW k \in Slots, DropOrder(k)
  PROVE  AllAcceptsFit'
<1>1. /\ job[k].at = "undo" /\ Fits(job[k], offer, order)
      /\ order \in [Orders -> OrderRows]
  BY DEF Inv, TypeOK, JobsFit, DropOrder, At
<1>2. PICK r \in Orders : r = job[k].r /\ order[r].via = job[k].o
  BY <1>1 DEF Fits, HoldLabels
<1>3. order' = [order EXCEPT ![r] = NoOrder] /\ offer' = offer /\ charged' = charged
  BY <1>2 DEF DropOrder, moneyVars, offerVars
<1>4. order'[r].via = None /\ \A q \in Orders \ {r} : order'[q] = order[q]
  BY <1>1, <1>3 DEF NoOrder
<1>5. Touches(k) /\ job'[k].at = "putback" /\ job'[k].o = job[k].o
  BY GoToJob DEF DropOrder, Labels
<1>6. ASSUME NEW o \in Offers, Claiming(k, o)
      PROVE  SaleFits(job'[k], order', charged')
  <2>1. (\A q \in Orders : order[q].via = o => q = r) /\ o = job[k].o
    BY <1>1, <1>2, <1>6, OwnAccept DEF SaleFits, HoldLabels, Claiming
  <2>2. o # None
    BY MarketAssumption
  <2>3. \A q \in Orders : order'[q].via # o
    BY <1>4, <2>1, <2>2
  <2>4. QED
    BY <1>5, <2>1, <2>3 DEF SaleFits, EarlyLabels, HoldLabels, PaidLabels
<1>7. job[k].at \in ClaimLabels /\ job'[k].at \in ClaimLabels
  BY <1>1, <1>5 DEF ClaimLabels, SaleLabels, TakeLabels
<1>8. QED
  BY <1>2, <1>3, <1>4, <1>5, <1>6, <1>7, OrderAccepts

LEMMA PassAccepts ==
  ASSUME Inv, AllAcceptsFit, NEW k \in Slots, StartPass(k)
  PROVE  AllAcceptsFit'
<1>1. PICK due \in SUBSET Offers :
        job' = [job EXCEPT ![k] = [Idle EXCEPT !.at = "next", !.todo = due]]
  BY DEF StartPass, Inv, TypeOK
<1>2. PICK j \in Jobs : j = [Idle EXCEPT !.at = "next", !.todo = due]
  BY IdleJob DEF Idle, Jobs, Labels
<1>3. j.at = "next" /\ job[k].at = "idle"
  BY <1>2, IdleJob DEF Jobs, StartPass, Free
<1>4. Touches(k) /\ job'[k] = j
  BY <1>1, <1>2, Becoming
<1>5. offer' = offer /\ order' = order /\ charged' = charged
  BY DEF StartPass, moneyVars, offerVars
<1>6. QED
  BY <1>3, <1>4, <1>5, AcceptApart DEF ClaimLabels, SaleLabels, TakeLabels

\* Whatever leaves handlers, offers, orders and charges alone.
LEMMA OutsideAccepts ==
  ASSUME AllAcceptsFit, UNCHANGED <<job, offer, order, charged>>
  PROVE  AllAcceptsFit'
BY DEF AllAcceptsFit, AcceptFits, Claiming

LEMMA SaleInvStep == Inv /\ SaleInv /\ [Next]_vars => SaleInv'
<1> SUFFICES ASSUME Inv, SaleInv, [Next]_vars, faults' = 0 PROVE AllAcceptsFit'
  BY DEF SaleInv
<1>1. CASE UNCHANGED vars
  BY <1>1, OutsideAccepts DEF vars, moneyVars, offerVars, SaleInv
<1>2. ASSUME NEW k \in Requests, Start(k)
      PROVE  AllAcceptsFit'
  <2>1. faults' = faults /\ k \in Slots
    BY <1>2 DEF Start, MakeOffer, StartCounter, Accept, Close, Buy, Slots
  <2>2. QED
    BY <1>2, <2>1, StartAccepts DEF SaleInv
<1>3. ASSUME NEW k \in Slots, Step(k)
      PROVE  AllAcceptsFit'
  <2>1. faults' = faults
    BY <1>3 DEF Step, FindPrevious, RetirePrevious, ReleasePrevious, ReserveOffer,
      CloseOffer, FreeReserve, CounterOffer, ClaimOffer, YieldReserve, LapseOffer,
      LinkOrder, ClaimUnit, CreateOrder, Charge, RecordOrder, DropOrder, PutBack,
      ReadStock, MarkSold, CreateItem, PrepayShipping, PackItem, ExpireNext, EndPass
  <2>2. QED
    BY <1>3, <2>1, OfferAccepts, SaleAccepts, ClaimAccepts, LapseAccepts, CreateAccepts,
      RecordAccepts, DropAccepts DEF Step, SaleInv
<1>4. ASSUME NEW k \in Passes, StartPass(k)
      PROVE  AllAcceptsFit'
  BY <1>4, PassAccepts DEF StartPass, Slots, SaleInv
<1>5. CASE \/ \E o \in Offers : FallDue(o)
           \/ \E l \in Listings : Delist(l)
           \/ \E u \in Users, n \in Moves : Spend(u, n)
  BY <1>5, OutsideAccepts DEF FallDue, Delist, Spend, moneyVars, offerVars, SaleInv
<1>6. ASSUME Crash \/ \E k \in Slots : Fail(k)
      PROVE  FALSE
  <2>1. faults' = faults + 1 /\ faults \in Nat
    BY <1>6, MarketAssumption DEF Crash, Fail, Inv, TypeOK
  <2>2. QED
    BY <2>1
<1>7. QED
  BY <1>1, <1>2, <1>3, <1>4, <1>5, <1>6 DEF Next

LEMMA SaleInvInit == Init => SaleInv
<1> SUFFICES ASSUME Init, NEW o \in Offers PROVE AcceptFits(o)
  BY DEF SaleInv, AllAcceptsFit
<1>1. \A k \in Slots : ~Claiming(k, o)
  BY IdleJob DEF Init, Claiming, ClaimLabels, SaleLabels, TakeLabels
<1>2. offer[o] = "NONE" /\ \A r \in Orders : order[r].via = None
  BY DEF Init, NoOrder
<1>3. o # None
  BY MarketAssumption
<1>4. QED
  BY <1>1, <1>2, <1>3 DEF AcceptFits

\* For any number of offers, acceptances and purchases: once its handlers are
\* through, an offer is ACCEPTED exactly if its buyer was charged for an order
\* that stands, as long as no statement failed (offers.ts:300-319).
THEOREM AcceptedAlwaysSold == Spec => []AcceptedMeansSold
<1>1. Inv /\ SaleInv => AcceptedMeansSold
  <2> SUFFICES ASSUME Inv, AllAcceptsFit, NEW o \in Offers, \A k \in Slots : job[k].o # o
               PROVE  (offer[o] = "ACCEPTED") <=>
                        \E r \in charged : order[r].via = o /\ order[r].status = "LOCKED"
    BY DEF AcceptedMeansSold, SaleInv
  <2>1. \A k \in Slots : ~Claiming(k, o)
    BY DEF Claiming
  <2>2. AcceptFits(o) /\ charged \subseteq Orders
    BY DEF AllAcceptsFit, Inv, TypeOK
  <2>3. QED
    BY <2>1, <2>2 DEF AcceptFits, Bought
<1>2. Spec => []SaleInv
  BY Invariance, SaleInvInit, SaleInvStep, PTL DEF Spec
<1>3. QED
  BY <1>1, <1>2, Invariance, PTL

-----------------------------------------------------------------------------
(* Without faults nothing is stranded between two statements of a handler. *)

\* The handler in slot k is about to release the hold of offer o.
Frees(k, o) ==
  \/ job[k].at \in {"unhold", "free"} /\ job[k].row = o
  \/ job[k].at = "yield" /\ job[k].o = o

\* A hold is of an open offer, or on its way back.
HandedBack ==
  \A o \in Offers : held[o] = "ACTIVE" => Open(o) \/ \E k \in Slots : Frees(k, o)

\* Every unit is on the shelf, in a handler's hands or in an order that stands.
UnitsCounted ==
  \A l \in Listings :
    quantity[l] + Cardinality(StandingOrders(l)) + Cardinality(Takers(l)) = Stock[l]

\* An order is charged and stands, or a handler is at work on it.
RowKept(r) ==
  /\ order[r].status = "PENDING_SETTLEMENT" => \E k \in Slots : Holding(k) /\ job[k].r = r
  /\ order[r].status = "LOCKED" => r \in charged
  /\ r \in charged =>
       order[r].status = "LOCKED" \/ \E k \in Slots : job[k].at = "record" /\ job[k].r = r

\* A handler knows whether its order is charged.
JobKept(k) == Holding(k) => (job[k].r \in charged <=> job[k].at = "record")

OrdersKept == (\A r \in Orders : RowKept(r)) /\ (\A k \in Slots : JobKept(k))

\* As long as no statement has thrown and nothing has crashed.
NothingStranded == faults = 0 => HandedBack /\ UnitsCounted /\ OrdersKept

\* Only the handler in slot k moves.
Alone(k) == \A h \in Slots \ {k} : job'[h] = job[h]

LEMMA StepAlone ==
  ASSUME Inv, NEW k \in Slots, Start(k) \/ StartPass(k) \/ Step(k)
  PROVE  Alone(k)
<1> USE DEF Inv, TypeOK, Alone, GoTo, Done, Lose, Sold
<1>1. CASE Start(k)
  BY <1>1 DEF Start, MakeOffer, StartCounter, Accept, Close, Buy
<1>2. CASE StartPass(k)
  BY <1>2 DEF StartPass
<1>3. CASE \/ FindPrevious(k) \/ RetirePrevious(k) \/ ReleasePrevious(k) \/ ReserveOffer(k)
           \/ CloseOffer(k) \/ FreeReserve(k) \/ CounterOffer(k) \/ ClaimOffer(k)
           \/ YieldReserve(k) \/ LapseOffer(k) \/ LinkOrder(k) \/ ExpireNext(k) \/ EndPass(k)
  BY <1>3 DEF FindPrevious, RetirePrevious, ReleasePrevious, ReserveOffer, CloseOffer,
    FreeReserve, CounterOffer, ClaimOffer, YieldReserve, LapseOffer, LinkOrder, ExpireNext,
    EndPass
<1>4. CASE \/ ClaimUnit(k) \/ CreateOrder(k) \/ Charge(k) \/ RecordOrder(k) \/ DropOrder(k)
           \/ PutBack(k) \/ ReadStock(k) \/ MarkSold(k) \/ CreateItem(k)
           \/ PrepayShipping(k) \/ PackItem(k)
  BY <1>4 DEF ClaimUnit, CreateOrder, Charge, RecordOrder, DropOrder, PutBack, ReadStock,
    MarkSold, CreateItem, PrepayShipping, PackItem
<1>5. QED
  BY <1>1, <1>2, <1>3, <1>4 DEF Step

\* What keeps every hold in hand.
LEMMA HandsBack ==
  ASSUME HandedBack, NEW k \in Slots, Alone(k),
         \A o \in Offers :
           /\ held'[o] = "ACTIVE" => held[o] = "ACTIVE" \/ Open(o)'
           /\ Open(o) => Open(o)' \/ Frees(k, o)'
           /\ Frees(k, o) => Frees(k, o)' \/ held'[o] # "ACTIVE"
  PROVE  HandedBack'
<1> SUFFICES ASSUME NEW o \in Offers, held'[o] = "ACTIVE", ~Open(o)'
             PROVE  \E h \in Slots : Frees(h, o)'
  BY DEF HandedBack
<1>1. CASE Open(o)
  BY <1>1
<1>2. CASE ~Open(o)
  <2>1. PICK h \in Slots : Frees(h, o)
    BY <1>2 DEF HandedBack
  <2>2. CASE h = k
    BY <2>1, <2>2
  <2>3. CASE h # k
    BY <2>1, <2>3 DEF Alone, Frees
  <2>4. QED
    BY <2>2, <2>3
<1>3. QED
  BY <1>1, <1>2

\* A statement that neither closes an offer nor releases a hold.
LEMMA HandsRest ==
  ASSUME HandedBack, NEW k \in Slots, Alone(k), held' = held, offer' = offer,
         job[k].at \notin {"unhold", "free", "yield"}
  PROVE  HandedBack'
BY HandsBack DEF Open, Frees

LEMMA ReleaseHandsBack ==
  ASSUME Inv, HandedBack, NEW k \in Slots, Step(k), NEW x \in Offers,
         held' = Released(x), offer' = offer, \A o : Frees(k, o) => o = x
  PROVE  HandedBack'
<1>1. /\ held'[x] # "ACTIVE" /\ \A o \in Offers \ {x} : held'[o] = held[o]
  BY DEF Inv, TypeOK, Released
<1>2. \A o \in Offers :
        /\ held'[o] = "ACTIVE" => held[o] = "ACTIVE" \/ Open(o)'
        /\ Open(o) => Open(o)' \/ Frees(k, o)'
        /\ Frees(k, o) => Frees(k, o)' \/ held'[o] # "ACTIVE"
  BY <1>1 DEF Open
<1>3. QED
  BY <1>2, StepAlone, HandsBack

LEMMA CloseHandsBack ==
  ASSUME Inv, HandedBack, NEW k \in Slots, Step(k), NEW x \in Offers, NEW s,
         offer' = [offer EXCEPT ![x] = s], held' = held, Frees(k, x)',
         job[k].at \notin {"unhold", "free", "yield"}
  PROVE  HandedBack'
<1>1. \A o \in Offers \ {x} : offer'[o] = offer[o]
  BY DEF Inv, TypeOK
<1>2. \A o \in Offers :
        /\ held'[o] = "ACTIVE" => held[o] = "ACTIVE" \/ Open(o)'
        /\ Open(o) => Open(o)' \/ Frees(k, o)'
        /\ Frees(k, o) => Frees(k, o)' \/ held'[o] # "ACTIVE"
  BY <1>1 DEF Open, Frees
<1>3. QED
  BY <1>2, StepAlone, HandsBack

LEMMA OfferHandsBack ==
  ASSUME Inv, HandedBack, NEW k \in Slots, Step(k),
         \/ RetirePrevious(k) \/ ReleasePrevious(k) \/ ReserveOffer(k) \/ CloseOffer(k)
         \/ FreeReserve(k) \/ CounterOffer(k) \/ ClaimOffer(k) \/ YieldReserve(k)
         \/ LapseOffer(k) \/ ExpireNext(k)
  PROVE  HandedBack'
<1>1. Alone(k) /\ job[k] \in Jobs /\ Fits(job[k], offer, order)
  BY StepAlone DEF Inv, TypeOK, JobsFit
<1>2. CASE RetirePrevious(k)
  <2>1. PICK p \in job[k].todo :
          /\ offer' = IF Open(p) THEN [offer EXCEPT ![p] = "CANCELED"] ELSE offer
          /\ job' = [job EXCEPT ![k].at = "unhold", ![k].row = p, ![k].todo = @ \ {p}]
    BY <1>2 DEF RetirePrevious
  <2>2. p \in Offers /\ held' = held /\ job[k].at = "retire"
    BY <1>1, <1>2, <2>1 DEF RetirePrevious, At, Jobs
  <2>3. job'[k].at = "unhold" /\ job'[k].row = p
    BY <1>1, <2>1 DEF Inv, TypeOK, Jobs
  <2>4. CASE offer' = offer
    BY <1>1, <2>2, <2>4, HandsRest
  <2>5. CASE offer' = [offer EXCEPT ![p] = "CANCELED"]
    BY <2>2, <2>3, <2>5, CloseHandsBack DEF Frees
  <2>6. QED
    BY <2>1, <2>4, <2>5
<1>3. CASE ReleasePrevious(k)
  <2>1. job[k].at = "unhold" /\ job[k].row \in Offers
    BY <1>1, <1>3 DEF ReleasePrevious, At, Fits
  <2>2. QED
    BY <1>3, <2>1, ReleaseHandsBack DEF ReleasePrevious, Frees
<1>4. CASE ReserveOffer(k)
  <2>1. job[k].at = "retire" /\ job[k].o \in Offers
    BY <1>1, <1>4 DEF ReserveOffer, At, Fits, MakeLabels
  <2>2. PICK o \in Offers : o = job[k].o
    BY <2>1
  <2>3. CASE offer' = offer /\ held' = held
    BY <1>1, <2>1, <2>3, HandsRest
  <2>4. CASE offer' = [offer EXCEPT ![o] = "PENDING"] /\ held' = [held EXCEPT ![o] = "ACTIVE"]
    <3>1. /\ offer'[o] = "PENDING"
          /\ \A x \in Offers \ {o} : offer'[x] = offer[x] /\ held'[x] = held[x]
      BY <2>4 DEF Inv, TypeOK
    <3>2. QED
      BY <1>1, <2>1, <3>1, HandsBack DEF Open, Frees
  <2>5. QED
    BY <1>4, <2>2, <2>3, <2>4 DEF ReserveOffer
<1>5. CASE CloseOffer(k)
  <2>1. job[k].at = "close" /\ job[k].row \in Offers /\ held' = held
    BY <1>1, <1>5 DEF CloseOffer, At, Fits
  <2>2. CASE offer' = offer
    BY <1>1, <2>1, <2>2, HandsRest
  <2>3. CASE offer' = [offer EXCEPT ![job[k].row] = job[k].to] /\ GoTo(k, "free")
    <3>1. job'[k].at = "free" /\ job'[k].row = job[k].row
      BY <2>3, GoToJob DEF Labels
    <3>2. QED
      BY <2>1, <2>3, <3>1, CloseHandsBack DEF Frees
  <2>4. QED
    BY <1>5, <2>2, <2>3 DEF CloseOffer
<1>6. CASE FreeReserve(k)
  <2>1. job[k].at = "free" /\ job[k].row \in Offers
    BY <1>1, <1>6 DEF FreeReserve, At, Fits
  <2>2. QED
    BY <1>6, <2>1, ReleaseHandsBack DEF FreeReserve, Frees
<1>7. CASE CounterOffer(k)
  <2>1. /\ job[k].at = "counter" /\ job[k].row \in Offers /\ held' = held
        /\ offer' = offer \/ offer' = [offer EXCEPT ![job[k].row] = "COUNTERED"]
    BY <1>1, <1>7 DEF CounterOffer, At, Fits
  <2>2. \A o \in Offers : Open(o) => Open(o)'
    BY <2>1 DEF Open, Inv, TypeOK
  <2>3. QED
    BY <1>1, <2>1, <2>2, HandsBack DEF Frees
<1>8. CASE ClaimOffer(k)
  <2>1. job[k].at = "claim" /\ job[k].o \in Offers /\ held' = held
    BY <1>1, <1>8 DEF ClaimOffer, At, Fits
  <2>2. CASE offer' = offer
    BY <1>1, <2>1, <2>2, HandsRest
  <2>3. CASE offer' = [offer EXCEPT ![job[k].o] = "ACCEPTED"] /\ GoTo(k, "yield")
    <3>1. job'[k].at = "yield" /\ job'[k].o = job[k].o
      BY <2>3, GoToJob DEF Labels
    <3>2. QED
      BY <2>1, <2>3, <3>1, CloseHandsBack DEF Frees
  <2>4. QED
    BY <1>8, <2>2, <2>3 DEF ClaimOffer
<1>9. CASE YieldReserve(k)
  <2>1. job[k].at = "yield" /\ job[k].o \in Offers
    BY <1>1, <1>9 DEF YieldReserve, At, Fits
  <2>2. QED
    BY <1>9, <2>1, ReleaseHandsBack DEF YieldReserve, Frees
<1>10. CASE LapseOffer(k)
  <2>1. /\ job[k].at = "lapse" /\ job[k].o \in Offers /\ held' = held
        /\ \/ offer' = offer
           \/ offer[job[k].o] = "ACCEPTED" /\ offer' = [offer EXCEPT ![job[k].o] = "EXPIRED"]
    BY <1>1, <1>10 DEF LapseOffer, At, Fits
  <2>2. \A o \in Offers : Open(o) => Open(o)'
    BY <2>1 DEF Open, Inv, TypeOK
  <2>3. QED
    BY <1>1, <2>1, <2>2, HandsBack DEF Frees
<1>11. CASE ExpireNext(k)
  <2>1. PICK o \in job[k].todo :
          \/ offer' = offer
          \/ /\ offer' = [offer EXCEPT ![o] = "EXPIRED"]
             /\ job' = [job EXCEPT ![k].at = "free", ![k].row = o, ![k].todo = @ \ {o}]
    BY <1>11 DEF ExpireNext
  <2>2. o \in Offers /\ held' = held /\ job[k].at = "next"
    BY <1>1, <1>11, <2>1 DEF ExpireNext, At, Jobs
  <2>3. CASE offer' = offer
    BY <1>1, <2>2, <2>3, HandsRest
  <2>4. CASE /\ offer' = [offer EXCEPT ![o] = "EXPIRED"]
             /\ job' = [job EXCEPT ![k].at = "free", ![k].row = o, ![k].todo = @ \ {o}]
    <3>1. job'[k].at = "free" /\ job'[k].row = o
      BY <1>1, <2>4 DEF Inv, TypeOK, Jobs
    <3>2. QED
      BY <2>2, <2>4, <3>1, CloseHandsBack DEF Frees
  <2>5. QED
    BY <2>1, <2>3, <2>4
<1>12. QED
  BY <1>2, <1>3, <1>4, <1>5, <1>6, <1>7, <1>8, <1>9, <1>10, <1>11

\* A request begins with a handler that is free and writes nothing.
LEMMA StartRests ==
  ASSUME Inv, NEW k \in Slots, Start(k)
  PROVE  /\ job[k] = Idle /\ job'[k].at \in {"previous", "counter", "claim", "close", "unit"}
         /\ UNCHANGED <<moneyVars, offerVars, listingVars, order>>
<1> USE DEF Inv, TypeOK
<1>1. ASSUME NEW o \in Offers, MakeOffer(k, o) \/ StartCounter(k, o)
      PROVE  /\ job[k] = Idle /\ job'[k].at \in {"previous", "counter"}
             /\ UNCHANGED <<moneyVars, offerVars, listingVars, order>>
  BY <1>1 DEF MakeOffer, StartCounter, Free, Idle
<1>2. ASSUME NEW o \in Offers, Accept(k, o)
      PROVE  /\ job[k] = Idle /\ job'[k].at \in {"claim", "close"}
             /\ UNCHANGED <<moneyVars, offerVars, listingVars, order>>
  BY <1>2 DEF Accept, Free, Idle
<1>3. ASSUME NEW o \in Offers, NEW to \in OfferStatus, Close(k, o, to)
      PROVE  /\ job[k] = Idle /\ job'[k].at = "close"
             /\ UNCHANGED <<moneyVars, offerVars, listingVars, order>>
  BY <1>3 DEF Close, Free, Idle
<1>4. ASSUME NEW u \in Users, NEW l \in Listings, Buy(k, u, l)
      PROVE  /\ job[k] = Idle /\ job'[k].at = "unit"
             /\ UNCHANGED <<moneyVars, offerVars, listingVars, order>>
  BY <1>4 DEF Buy, Free, Idle
<1>5. QED
  BY <1>1, <1>2, <1>3, <1>4 DEF Start

LEMMA HandlerHandsBack ==
  ASSUME Inv, HandedBack, NEW k \in Slots, Start(k) \/ StartPass(k) \/ Step(k)
  PROVE  HandedBack'
<1>1. Alone(k)
  BY StepAlone
<1>2. CASE \/ RetirePrevious(k) \/ ReleasePrevious(k) \/ ReserveOffer(k) \/ CloseOffer(k)
           \/ FreeReserve(k) \/ CounterOffer(k) \/ ClaimOffer(k) \/ YieldReserve(k)
           \/ LapseOffer(k) \/ ExpireNext(k)
  <2>1. Step(k)
    BY <1>2 DEF Step
  <2>2. QED
    BY <1>2, <2>1, OfferHandsBack
<1>3. CASE Start(k) \/ StartPass(k)
  <2>1. held' = held /\ offer' = offer /\ job[k] = Idle
    BY <1>3, StartRests DEF StartPass, Free, offerVars
  <2>2. QED
    BY <1>1, <2>1, IdleJob, HandsRest
<1>4. CASE \/ FindPrevious(k) \/ LinkOrder(k) \/ EndPass(k)
           \/ ClaimUnit(k) \/ CreateOrder(k) \/ Charge(k) \/ RecordOrder(k) \/ DropOrder(k)
           \/ PutBack(k) \/ ReadStock(k) \/ MarkSold(k) \/ CreateItem(k)
           \/ PrepayShipping(k) \/ PackItem(k)
  <2>1. held' = held /\ offer' = offer /\ job[k].at \notin {"unhold", "free", "yield"}
    BY <1>4 DEF FindPrevious, LinkOrder, EndPass, ClaimUnit, CreateOrder, Charge, RecordOrder,
      DropOrder, PutBack, ReadStock, MarkSold, CreateItem, PrepayShipping, PackItem, At,
      offerVars
  <2>2. QED
    BY <1>1, <2>1, HandsRest
<1>5. QED
  BY <1>2, <1>3, <1>4 DEF Step

-----------------------------------------------------------------------------
(* Units and orders without faults.                                        *)

\* A statement outside the part of a sale that has a unit in its hands.
Aside(k) ==
  /\ UNCHANGED <<order, charged, quantity>>
  /\ job[k].at \notin TakeLabels /\ job'[k].at \notin TakeLabels

LEMMA HandlerAside ==
  ASSUME Inv, NEW k \in Slots, Start(k) \/ StartPass(k) \/ Step(k),
         ~ClaimUnit(k), ~CreateOrder(k), ~Charge(k), ~RecordOrder(k), ~DropOrder(k),
         ~PutBack(k)
  PROVE  Aside(k)
<1>1. job \in [Slots -> Jobs]
  BY DEF Inv, TypeOK
<1>2. CASE Start(k)
  <2>1. /\ job[k].at = "idle"
        /\ job'[k].at \in {"previous", "counter", "claim", "close", "unit"}
        /\ UNCHANGED <<order, charged, quantity>>
    BY <1>2, StartRests, IdleJob DEF moneyVars, listingVars
  <2>2. QED
    BY <2>1 DEF Aside, TakeLabels
<1>3. CASE StartPass(k)
  <2>1. job[k].at = "idle" /\ job'[k].at = "next" /\ UNCHANGED <<order, charged, quantity>>
    BY <1>1, <1>3 DEF StartPass, Free, Idle, moneyVars, listingVars
  <2>2. QED
    BY <2>1 DEF Aside, TakeLabels
<1>4. CASE \/ FindPrevious(k) \/ RetirePrevious(k) \/ ExpireNext(k)
  <2>1. job[k].at \in {"previous", "retire", "next"} /\ UNCHANGED <<order, charged, quantity>>
    BY <1>4 DEF FindPrevious, RetirePrevious, ExpireNext, At, moneyVars, listingVars
  <2>2. CASE FindPrevious(k)
    BY <1>1, <2>1, <2>2 DEF FindPrevious, Aside, TakeLabels
  <2>3. CASE RetirePrevious(k)
    <3>1. job'[k].at = "unhold"
      BY <1>1, <2>3 DEF RetirePrevious
    <3>2. QED
      BY <2>1, <3>1 DEF Aside, TakeLabels
  <2>4. CASE ExpireNext(k)
    <3>1. PICK o \in job[k].todo :
            \/ job' = [job EXCEPT ![k].at = "free", ![k].row = o, ![k].todo = @ \ {o}]
            \/ job' = [job EXCEPT ![k].todo = @ \ {o}]
      BY <2>4 DEF ExpireNext
    <3>2. job[k] \in Jobs
      BY <1>1
    <3>3. job'[k].at \in {"free", job[k].at}
      BY <1>1, <3>1, <3>2 DEF Jobs
    <3>4. QED
      BY <2>1, <3>3 DEF Aside, TakeLabels
  <2>5. QED
    BY <1>4, <2>2, <2>3, <2>4
<1>5. CASE \/ ReleasePrevious(k) \/ ReserveOffer(k) \/ CloseOffer(k) \/ FreeReserve(k)
           \/ CounterOffer(k) \/ ClaimOffer(k) \/ YieldReserve(k) \/ LapseOffer(k)
           \/ LinkOrder(k) \/ EndPass(k)
  <2>1. /\ job[k].at \in {"unhold", "retire", "close", "free", "counter", "claim", "yield",
                          "lapse", "link", "next"}
        /\ Done(k) \/ \E at \in {"retire", "free", "next", "yield", "unit"} : GoTo(k, at)
        /\ UNCHANGED <<order, charged, quantity>>
    BY <1>5 DEF ReleasePrevious, ReserveOffer, CloseOffer, FreeReserve, CounterOffer,
      ClaimOffer, YieldReserve, LapseOffer, LinkOrder, EndPass, At, moneyVars, listingVars
  <2>2. job'[k].at \in {"idle", "retire", "free", "next", "yield", "unit"}
    BY <2>1, DoneJob, IdleJob, GoToJob DEF Labels
  <2>3. QED
    BY <2>1, <2>2 DEF Aside, TakeLabels
<1>6. CASE \/ ReadStock(k) \/ MarkSold(k) \/ CreateItem(k) \/ PrepayShipping(k) \/ PackItem(k)
  <2>1. /\ job[k].at \in PaidLabels
        /\ Sold(k) \/ \E at \in PaidLabels : GoTo(k, at)
        /\ UNCHANGED <<order, charged, quantity>>
    BY <1>6 DEF ReadStock, MarkSold, CreateItem, PrepayShipping, PackItem, At, PaidLabels,
      moneyVars, listingVars
  <2>2. job'[k].at \in PaidLabels \cup {"idle", "link", "lapse"}
    BY <2>1, EndJob, GoToJob DEF Labels, PaidLabels
  <2>3. QED
    BY <2>1, <2>2 DEF Aside, TakeLabels, PaidLabels
<1>7. QED
  BY <1>2, <1>3, <1>4, <1>5, <1>6 DEF Step

LEMMA AsideCounts ==
  ASSUME UnitsCounted, NEW k \in Slots, Alone(k), Aside(k)
  PROVE  UnitsCounted'
<1>1. \A l \in Listings : StandingOrders(l)' = StandingOrders(l)
  BY DEF StandingOrders, Aside
<1>2. \A l \in Listings : Takers(l)' = Takers(l)
  BY DEF Takers, Taking, Aside, Alone
<1>3. QED
  BY <1>1, <1>2 DEF UnitsCounted, Aside

\* A handler with a unit goes on with it, and no order begins or ends to stand.
LEMMA TakingCounts ==
  ASSUME UnitsCounted, NEW k \in Slots, Alone(k), quantity' = quantity,
         job[k].at \in TakeLabels, job'[k].at \in TakeLabels, job'[k].l = job[k].l,
         \A r \in Orders : \/ order'[r] = order[r]
                           \/ order[r].status # "LOCKED" /\ order'[r].status # "LOCKED"
  PROVE  UnitsCounted'
<1>1. \A l \in Listings : StandingOrders(l)' = StandingOrders(l)
  BY DEF StandingOrders
<1>2. \A l \in Listings : Takers(l)' = Takers(l)
  BY DEF Takers, Taking, Alone
<1>3. QED
  BY <1>1, <1>2 DEF UnitsCounted

\* One more element, exactly.
LEMMA OneMoreExactly ==
  ASSUME NEW S, IsFiniteSet(S), NEW x, x \notin S
  PROVE  Cardinality(S \cup {x}) = Cardinality(S) + 1
BY FS_AddElement

LEMMA ClaimCounts ==
  ASSUME Inv, UnitsCounted, NEW k \in Slots, ClaimUnit(k)
  PROVE  UnitsCounted'
<1>1. job[k].at = "unit" /\ job[k].l \in Listings /\ order' = order /\ charged' = charged
  BY OwnSale DEF ClaimUnit, At, SaleLabels, moneyVars
<1>2. PICK l \in Listings : l = job[k].l
  BY <1>1
<1>3. Alone(k)
  BY StepAlone DEF Step
<1>4. CASE Lose(k) /\ quantity' = quantity
  <2>1. Aside(k)
    BY <1>1, <1>4, EndJob DEF Aside, TakeLabels
  <2>2. QED
    BY <1>3, <2>1, AsideCounts
<1>5. CASE quantity' = [quantity EXCEPT ![l] = @ - 1] /\ GoTo(k, "order")
  <2>1. job'[k].at = "order" /\ job'[k].l = l
    BY <1>2, <1>5, GoToJob DEF Labels
  <2>2. /\ quantity'[l] = quantity[l] - 1 /\ quantity[l] \in Int
        /\ \A m \in Listings \ {l} : quantity'[m] = quantity[m]
    BY <1>5 DEF Inv, TypeOK
  <2>3. \A m \in Listings : StandingOrders(m)' = StandingOrders(m)
    BY <1>1 DEF StandingOrders
  <2>4. \A m \in Listings \ {l} : Takers(m)' = Takers(m)
    BY <1>1, <1>2, <1>3, <2>1 DEF Takers, Taking, Alone
  <2>5. k \notin Takers(l) /\ Takers(l)' = Takers(l) \cup {k}
    BY <1>1, <1>3, <2>1 DEF Takers, Taking, Alone, TakeLabels
  <2>6. Cardinality(Takers(l)') = Cardinality(Takers(l)) + 1
    BY <2>5, FiniteUnits, OneMoreExactly
  <2>7. quantity'[l] + Cardinality(StandingOrders(l)') + Cardinality(Takers(l)') = Stock[l]
    BY <2>2, <2>3, <2>6, FiniteUnits DEF UnitsCounted
  <2>8. \A m \in Listings \ {l} :
          quantity'[m] + Cardinality(StandingOrders(m)') + Cardinality(Takers(m)') = Stock[m]
    BY <2>2, <2>3, <2>4 DEF UnitsCounted
  <2>9. QED
    BY <2>7, <2>8 DEF UnitsCounted
<1>6. QED
  BY <1>2, <1>4, <1>5 DEF ClaimUnit

LEMMA PutBackCounts ==
  ASSUME Inv, UnitsCounted, NEW k \in Slots, PutBack(k)
  PROVE  UnitsCounted'
<1>1. job[k].at = "putback" /\ job[k].l \in Listings /\ order' = order
  BY OwnSale DEF PutBack, At, SaleLabels, TakeLabels
<1>2. PICK l \in Listings : l = job[k].l
  BY <1>1
<1>3. Alone(k) /\ job'[k].at \notin TakeLabels
  <2>1. Lose(k)
    BY DEF PutBack
  <2>2. QED
    BY <2>1, StepAlone, EndJob DEF Step, TakeLabels
<1>4. /\ quantity'[l] = quantity[l] + 1 /\ quantity[l] \in Int
      /\ \A m \in Listings \ {l} : quantity'[m] = quantity[m]
  BY <1>2 DEF PutBack, Inv, TypeOK
<1>5. \A m \in Listings : StandingOrders(m)' = StandingOrders(m)
  BY <1>1 DEF StandingOrders
<1>6. \A m \in Listings \ {l} : Takers(m)' = Takers(m)
  BY <1>2, <1>3 DEF Takers, Taking, Alone
<1>7. k \in Takers(l) /\ Takers(l)' = Takers(l) \ {k}
  BY <1>1, <1>2, <1>3 DEF Takers, Taking, Alone, TakeLabels
<1>8. Cardinality(Takers(l)') = Cardinality(Takers(l)) - 1
  BY <1>7, FiniteUnits, OneLess
<1>9. quantity'[l] + Cardinality(StandingOrders(l)') + Cardinality(Takers(l)') = Stock[l]
  BY <1>4, <1>5, <1>8, FiniteUnits DEF UnitsCounted
<1>10. \A m \in Listings \ {l} :
         quantity'[m] + Cardinality(StandingOrders(m)') + Cardinality(Takers(m)') = Stock[m]
  BY <1>4, <1>5, <1>6 DEF UnitsCounted
<1>11. QED
  BY <1>9, <1>10 DEF UnitsCounted

LEMMA RecordCounts ==
  ASSUME Inv, UnitsCounted, NEW k \in Slots, RecordOrder(k)
  PROVE  UnitsCounted'
<1>1. job[k].at = "record" /\ job[k].at \in HoldLabels /\ job[k].at \in SaleLabels
  BY DEF RecordOrder, At, SaleLabels, TakeLabels, HoldLabels
<1>2. PICK l \in Listings, r \in Orders :
        /\ l = job[k].l /\ r = job[k].r /\ order[r].listing = l
        /\ order[r].status = "PENDING_SETTLEMENT"
  BY <1>1, OwnSale DEF Fits
<1>3. /\ Alone(k) /\ job'[k].at = "stock" /\ quantity' = quantity
      /\ quantity \in [Listings -> Nat]
  BY StepAlone, GoToJob DEF Step, RecordOrder, Labels, listingVars, Inv, TypeOK
<1>4. /\ order'[r].status = "LOCKED" /\ order'[r].listing = l
      /\ \A q \in Orders \ {r} : order'[q] = order[q]
  BY <1>2 DEF RecordOrder, Inv, TypeOK, OrderRows
<1>5. \A m \in Listings \ {l} : StandingOrders(m)' = StandingOrders(m) /\ Takers(m)' = Takers(m)
  <2>1. \A m \in Listings \ {l} : StandingOrders(m)' = StandingOrders(m)
    BY <1>2, <1>4 DEF StandingOrders
  <2>2. \A m \in Listings \ {l} : Takers(m)' = Takers(m)
    BY <1>2, <1>3 DEF Takers, Taking, Alone, TakeLabels
  <2>3. QED
    BY <2>1, <2>2
<1>6. r \notin StandingOrders(l) /\ StandingOrders(l)' = StandingOrders(l) \cup {r}
  BY <1>2, <1>4 DEF StandingOrders
<1>7. k \in Takers(l) /\ Takers(l)' = Takers(l) \ {k}
  BY <1>1, <1>2, <1>3 DEF Takers, Taking, Alone, TakeLabels
<1>8. /\ Cardinality(StandingOrders(l)') = Cardinality(StandingOrders(l)) + 1
      /\ Cardinality(Takers(l)') = Cardinality(Takers(l)) - 1
  BY <1>6, <1>7, FiniteUnits, OneMoreExactly, OneLess
<1>9. quantity'[l] + Cardinality(StandingOrders(l)') + Cardinality(Takers(l)') = Stock[l]
  BY <1>3, <1>8, FiniteUnits DEF UnitsCounted
<1>10. \A m \in Listings \ {l} :
         quantity'[m] + Cardinality(StandingOrders(m)') + Cardinality(Takers(m)') = Stock[m]
  BY <1>3, <1>5 DEF UnitsCounted
<1>11. QED
  BY <1>9, <1>10 DEF UnitsCounted

\* An order that is not in this handler's hands.
LEMMA RowApart ==
  ASSUME OrdersKept, NEW k \in Slots, Alone(k), NEW r \in Orders,
         ~(Holding(k) /\ job[k].r = r), order'[r] = order[r],
         r \in charged' <=> r \in charged
  PROVE  RowKept(r)'
<1>1. RowKept(r)
  BY DEF OrdersKept
<1>2. \A h \in Slots : Holding(h) /\ job[h].r = r => job'[h] = job[h]
  BY DEF Alone
<1>3. \A h \in Slots : job[h].at = "record" => Holding(h)
  BY DEF Holding, HoldLabels
<1>4. \A h \in Slots : Holding(h) /\ job[h].r = r => Holding(h)' /\ job'[h].r = r
  BY <1>2 DEF Holding
<1>5. \A h \in Slots : job[h].at = "record" /\ job[h].r = r =>
        job'[h].at = "record" /\ job'[h].r = r
  BY <1>2, <1>3
<1>6. QED
  BY <1>1, <1>4, <1>5 DEF RowKept

\* A handler whose order this step does not charge.
LEMMA JobApart ==
  ASSUME OrdersKept, NEW h \in Slots, job'[h] = job[h],
         Holding(h) => (job[h].r \in charged' <=> job[h].r \in charged)
  PROVE  JobKept(h)'
BY DEF OrdersKept, JobKept, Holding

LEMMA UnheldKeepsOrders ==
  ASSUME OrdersKept, NEW k \in Slots, Alone(k), UNCHANGED <<order, charged>>,
         ~Holding(k), ~Holding(k)'
  PROVE  OrdersKept'
<1>1. \A r \in Orders : RowKept(r)'
  BY RowApart
<1>2. \A h \in Slots \ {k} : JobKept(h)'
  BY JobApart DEF Alone
<1>3. JobKept(k)'
  BY DEF JobKept
<1>4. QED
  BY <1>1, <1>2, <1>3 DEF OrdersKept

\* A handler with an order goes on with it, drops it or completes it.
LEMMA HeldKeepsOrders ==
  ASSUME Inv, OrdersKept, NEW k \in Slots, Alone(k), Holding(k), NEW r \in Orders,
         job[k].r = r, \A q \in Orders \ {r} : order'[q] = order[q],
         charged' \in {charged, charged \cup {r}}, RowKept(r)', JobKept(k)'
  PROVE  OrdersKept'
<1>1. \A q \in Orders \ {r} : q \in charged' <=> q \in charged
  OBVIOUS
<1>2. \A q \in Orders \ {r} : RowKept(q)'
  BY <1>1, RowApart
<1>3. ASSUME NEW h \in Slots \ {k}
      PROVE  JobKept(h)'
  <2>1. job'[h] = job[h] /\ (Holding(h) => job[h].r # r)
    BY DEF Alone, Inv, OneHolder
  <2>2. Holding(h) => job[h].r \in Orders
    BY DEF Inv, JobsFit, Fits, Holding
  <2>3. QED
    BY <1>1, <2>1, <2>2, JobApart
<1>4. QED
  BY <1>2, <1>3 DEF OrdersKept

\* What the handler in slot k knows of its order.
LEMMA OwnOrder ==
  ASSUME Inv, OrdersKept, NEW k \in Slots, Holding(k)
  PROVE  /\ job[k].r \in Orders /\ order[job[k].r].status = "PENDING_SETTLEMENT"
         /\ job[k].r \in charged <=> job[k].at = "record"
BY DEF Inv, JobsFit, Fits, OrdersKept, JobKept, Holding

LEMMA CreateKeepsOrders ==
  ASSUME Inv, OrdersKept, NEW k \in Slots, CreateOrder(k)
  PROVE  OrdersKept' /\ job'[k].at = "charge" /\ job'[k].l = job[k].l
         /\ \A r \in Orders : \/ order'[r] = order[r]
                              \/ order[r].status # "LOCKED" /\ order'[r].status # "LOCKED"
<1>1. PICK r \in Orders \ charged :
        /\ order[r] = NoOrder
        /\ order' = [order EXCEPT ![r] = [status |-> "PENDING_SETTLEMENT",
                                          listing |-> job[k].l, via |-> job[k].o]]
        /\ job' = [job EXCEPT ![k].at = "charge", ![k].r = r]
  BY DEF CreateOrder
<1>2. /\ job'[k].at = "charge" /\ job'[k].r = r /\ job'[k].l = job[k].l
      /\ Alone(k) /\ charged' = charged /\ ~Holding(k)
  <2>1. job \in [Slots -> Jobs] /\ job[k] \in Jobs
    BY DEF Inv, TypeOK
  <2>2. job'[k] = [job[k] EXCEPT !.at = "charge", !.r = r]
    BY <1>1, <2>1
  <2>3. job'[k].at = "charge" /\ job'[k].r = r /\ job'[k].l = job[k].l
    BY <2>1, <2>2 DEF Jobs
  <2>4. Alone(k) /\ charged' = charged /\ ~Holding(k)
    BY StepAlone DEF Step, CreateOrder, At, Holding, HoldLabels, moneyVars
  <2>5. QED
    BY <2>3, <2>4
<1>3. /\ order'[r].status = "PENDING_SETTLEMENT" /\ order[r].status = "NONE"
      /\ \A q \in Orders \ {r} : order'[q] = order[q]
  BY <1>1 DEF Inv, TypeOK, NoOrder
<1>4. Holding(k)' /\ JobKept(k)'
  BY <1>1, <1>2 DEF Holding, HoldLabels, JobKept
<1>5. RowKept(r)'
  BY <1>1, <1>2, <1>3, <1>4 DEF RowKept
<1>6. \A q \in Orders \ {r} : RowKept(q)'
  BY <1>2, <1>3, RowApart
<1>7. \A h \in Slots \ {k} : JobKept(h)'
  BY <1>2, JobApart DEF Alone
<1>8. OrdersKept'
  BY <1>4, <1>5, <1>6, <1>7 DEF OrdersKept
<1>9. QED
  BY <1>2, <1>3, <1>8

LEMMA ChargeKeepsOrders ==
  ASSUME Inv, OrdersKept, NEW k \in Slots, Charge(k)
  PROVE  OrdersKept'
<1>1. job[k].at = "charge" /\ Holding(k) /\ order' = order /\ Alone(k)
  BY StepAlone DEF Step, Charge, At, Holding, HoldLabels
<1>2. PICK r \in Orders : r = job[k].r /\ r \notin charged
                          /\ order[r].status = "PENDING_SETTLEMENT"
  BY <1>1, OwnOrder
<1>3. CASE GoTo(k, "record") /\ charged' = charged \cup {r}
  <2>1. job'[k].at = "record" /\ job'[k].r = r
    BY <1>2, <1>3, GoToJob DEF Labels
  <2>2. JobKept(k)' /\ Holding(k)' /\ RowKept(r)'
    BY <1>1, <1>2, <1>3, <2>1 DEF JobKept, RowKept, Holding, HoldLabels
  <2>3. QED
    BY <1>1, <1>2, <1>3, <2>2, HeldKeepsOrders
<1>4. CASE GoTo(k, "undo") /\ charged' = charged
  <2>1. job'[k].at = "undo" /\ job'[k].r = r
    BY <1>2, <1>4, GoToJob DEF Labels
  <2>2. JobKept(k)' /\ Holding(k)'
    BY <1>1, <1>2, <1>4, <2>1 DEF JobKept, Holding, HoldLabels
  <2>3. RowKept(r)'
    BY <1>1, <1>2, <1>4, <2>1, <2>2 DEF RowKept
  <2>4. QED
    BY <1>1, <1>2, <1>4, <2>2, <2>3, HeldKeepsOrders
<1>5. QED
  BY <1>2, <1>3, <1>4 DEF Charge

LEMMA RecordKeepsOrders ==
  ASSUME Inv, OrdersKept, NEW k \in Slots, RecordOrder(k)
  PROVE  OrdersKept'
<1>1. job[k].at = "record" /\ Holding(k) /\ Alone(k) /\ charged' = charged
  BY StepAlone DEF Step, RecordOrder, At, Holding, HoldLabels, moneyVars
<1>2. PICK r \in Orders : r = job[k].r /\ r \in charged
  BY <1>1, OwnOrder
<1>3. order'[r].status = "LOCKED" /\ \A q \in Orders \ {r} : order'[q] = order[q]
  BY <1>2 DEF RecordOrder, Inv, TypeOK, OrderRows
<1>4. job'[k].at = "stock"
  BY GoToJob DEF RecordOrder, Labels
<1>5. JobKept(k)' /\ RowKept(r)'
  BY <1>1, <1>2, <1>3, <1>4 DEF JobKept, RowKept, Holding, HoldLabels
<1>6. QED
  BY <1>1, <1>2, <1>3, <1>5, HeldKeepsOrders

LEMMA DropKeepsOrders ==
  ASSUME Inv, OrdersKept, NEW k \in Slots, DropOrder(k)
  PROVE  OrdersKept' /\ job'[k].at = "putback" /\ job'[k].l = job[k].l
         /\ \A r \in Orders : \/ order'[r] = order[r]
                              \/ order[r].status # "LOCKED" /\ order'[r].status # "LOCKED"
<1>1. job[k].at = "undo" /\ Holding(k) /\ Alone(k) /\ charged' = charged
  BY StepAlone DEF Step, DropOrder, At, Holding, HoldLabels, moneyVars
<1>2. PICK r \in Orders : r = job[k].r /\ r \notin charged
                          /\ order[r].status = "PENDING_SETTLEMENT"
  BY <1>1, OwnOrder
<1>3. order'[r].status = "NONE" /\ \A q \in Orders \ {r} : order'[q] = order[q]
  BY <1>2 DEF DropOrder, Inv, TypeOK, NoOrder
<1>4. job'[k].at = "putback" /\ job'[k].l = job[k].l
  BY GoToJob DEF DropOrder, Labels
<1>5. JobKept(k)' /\ RowKept(r)'
  BY <1>1, <1>2, <1>3, <1>4 DEF JobKept, RowKept, Holding, HoldLabels
<1>6. QED
  BY <1>1, <1>2, <1>3, <1>4, <1>5, HeldKeepsOrders

\* A step of a handler strands neither a unit nor an order.
LEMMA HandlerKeepsSales ==
  ASSUME Inv, UnitsCounted, OrdersKept, NEW k \in Slots, Start(k) \/ StartPass(k) \/ Step(k)
  PROVE  UnitsCounted' /\ OrdersKept'
<1>1. Alone(k)
  BY StepAlone
<1>2. CASE ClaimUnit(k)
  <2>1. UnitsCounted'
    BY <1>2, ClaimCounts
  <2>2. job[k].at = "unit" /\ UNCHANGED <<order, charged>>
    BY <1>2 DEF ClaimUnit, At, moneyVars
  <2>3. GoTo(k, "order") \/ Lose(k)
    BY <1>2 DEF ClaimUnit
  <2>4. job'[k].at \in {"order", "idle", "lapse", "link"}
    BY <2>3, GoToJob, EndJob DEF Labels
  <2>5. QED
    BY <1>1, <2>1, <2>2, <2>4, UnheldKeepsOrders DEF Holding, HoldLabels
<1>3. CASE CreateOrder(k)
  <2>1. job[k].at = "order" /\ quantity' = quantity
    BY <1>3 DEF CreateOrder, At, listingVars
  <2>2. QED
    BY <1>1, <1>3, <2>1, CreateKeepsOrders, TakingCounts DEF TakeLabels
<1>4. CASE Charge(k)
  <2>1. job[k].at = "charge" /\ quantity' = quantity /\ order' = order
    BY <1>4 DEF Charge, At, listingVars
  <2>2. GoTo(k, "record") \/ GoTo(k, "undo")
    BY <1>4 DEF Charge
  <2>3. job'[k].at \in {"record", "undo"} /\ job'[k].l = job[k].l
    BY <2>2, GoToJob DEF Labels
  <2>4. QED
    BY <1>1, <1>4, <2>1, <2>3, ChargeKeepsOrders, TakingCounts DEF TakeLabels
<1>5. CASE RecordOrder(k)
  BY <1>5, RecordCounts, RecordKeepsOrders
<1>6. CASE DropOrder(k)
  <2>1. job[k].at = "undo" /\ quantity' = quantity
    BY <1>6 DEF DropOrder, At, listingVars
  <2>2. QED
    BY <1>1, <1>6, <2>1, DropKeepsOrders, TakingCounts DEF TakeLabels
<1>7. CASE PutBack(k)
  <2>1. job[k].at = "putback" /\ UNCHANGED <<order, charged>> /\ Lose(k)
    BY <1>7 DEF PutBack, At, moneyVars
  <2>2. ~Holding(k) /\ ~Holding(k)'
    BY <2>1, EndJob DEF Holding, HoldLabels
  <2>3. QED
    BY <1>1, <1>7, <2>1, <2>2, PutBackCounts, UnheldKeepsOrders
<1>8. CASE /\ ~ClaimUnit(k) /\ ~CreateOrder(k) /\ ~Charge(k) /\ ~RecordOrder(k)
           /\ ~DropOrder(k) /\ ~PutBack(k)
  <2>1. Aside(k)
    BY <1>8, HandlerAside
  <2>2. ~Holding(k) /\ ~Holding(k)' /\ UNCHANGED <<order, charged>>
    BY <2>1 DEF Aside, Holding, HoldLabels, TakeLabels
  <2>3. QED
    BY <1>1, <2>1, <2>2, AsideCounts, UnheldKeepsOrders
<1>9. QED
  BY <1>2, <1>3, <1>4, <1>5, <1>6, <1>7, <1>8

\* The clock, the seller's delisting and what users spend elsewhere.
LEMMA OutsideStrandsNothing ==
  ASSUME NothingStranded, UNCHANGED <<offer, held, quantity, order, charged, job, faults>>
  PROVE  NothingStranded'
<1>1. (\A o \in Offers : Open(o)' <=> Open(o)) /\ HandedBack' <=> HandedBack
  BY DEF HandedBack, Open, Frees
<1>2. UnitsCounted' <=> UnitsCounted
  BY DEF UnitsCounted, StandingOrders, Takers, Taking
<1>3. OrdersKept' <=> OrdersKept
  BY DEF OrdersKept, RowKept, JobKept, Holding
<1>4. QED
  BY <1>1, <1>2, <1>3 DEF NothingStranded

LEMMA HandlerFaults ==
  ASSUME NEW k \in Slots, Start(k) \/ StartPass(k) \/ Step(k)
  PROVE  faults' = faults
<1>1. CASE Start(k) \/ StartPass(k)
  BY <1>1 DEF Start, MakeOffer, StartCounter, Accept, Close, Buy, StartPass
<1>2. CASE Step(k)
  BY <1>2 DEF Step, FindPrevious, RetirePrevious, ReleasePrevious, ReserveOffer,
    CloseOffer, FreeReserve, CounterOffer, ClaimOffer, YieldReserve, LapseOffer,
    LinkOrder, ClaimUnit, CreateOrder, Charge, RecordOrder, DropOrder, PutBack,
    ReadStock, MarkSold, CreateItem, PrepayShipping, PackItem, ExpireNext, EndPass
<1>3. QED
  BY <1>1, <1>2

LEMMA StrandedInit == Init => NothingStranded
<1> SUFFICES ASSUME Init PROVE HandedBack /\ UnitsCounted /\ OrdersKept
  BY DEF NothingStranded
<1>1. HandedBack
  BY DEF Init, HandedBack
<1>2. ASSUME NEW l \in Listings
      PROVE  quantity[l] + Cardinality(StandingOrders(l)) + Cardinality(Takers(l)) = Stock[l]
  <2>1. StandingOrders(l) = {}
    BY DEF Init, StandingOrders, NoOrder
  <2>2. Takers(l) = {}
    BY IdleJob DEF Init, Takers, Taking, TakeLabels
  <2>3. quantity[l] = Stock[l] /\ Stock[l] \in Nat
    BY MarketAssumption DEF Init
  <2>4. QED
    BY <2>1, <2>2, <2>3, FS_EmptySet
<1>3. OrdersKept
  <2>1. \A r \in Orders : order[r].status = "NONE" /\ charged = {}
    BY DEF Init, NoOrder
  <2>2. \A k \in Slots : ~Holding(k)
    BY IdleJob DEF Init, Holding, HoldLabels
  <2>3. QED
    BY <2>1, <2>2 DEF OrdersKept, RowKept, JobKept
<1>4. QED
  BY <1>1, <1>2, <1>3 DEF UnitsCounted

LEMMA StrandedStep == Inv /\ NothingStranded /\ [Next]_vars => NothingStranded'
<1> SUFFICES ASSUME Inv, NothingStranded, [Next]_vars PROVE NothingStranded'
  OBVIOUS
<1>1. ASSUME NEW k \in Slots, Start(k) \/ StartPass(k) \/ Step(k)
      PROVE  NothingStranded'
  <2>1. faults' = faults
    BY <1>1, HandlerFaults
  <2>2. CASE faults = 0
    BY <1>1, <2>2, HandlerHandsBack, HandlerKeepsSales DEF NothingStranded
  <2>3. CASE faults # 0
    BY <2>1, <2>3 DEF NothingStranded
  <2>4. QED
    BY <2>2, <2>3
<1>2. CASE (\E k \in Slots : Fail(k)) \/ Crash
  <2>1. faults' # 0
    BY <1>2 DEF Fail, Crash, Inv, TypeOK
  <2>2. QED
    BY <2>1 DEF NothingStranded
<1>3. CASE \/ \E o \in Offers : FallDue(o)
           \/ \E l \in Listings : Delist(l)
           \/ \E u \in Users, n \in Moves : Spend(u, n)
  BY <1>3, OutsideStrandsNothing DEF FallDue, Delist, Spend, moneyVars, offerVars, listingVars
<1>4. CASE UNCHANGED vars
  BY <1>4, OutsideStrandsNothing DEF vars, moneyVars, offerVars, listingVars
<1>5. QED
  BY <1>1, <1>2, <1>3, <1>4 DEF Next, Slots

\* Nothing is lost between two statements of the handlers: as long as no statement has
\* thrown and nothing has crashed, every reserve is of an open offer or about to be
\* released, every unit of a listing is on the shelf, in a handler's hands or sold,
\* and every order is charged and stands or has its handler (offers.ts:109-133,
\* 300-319, market.ts:700-800).
THEOREM NothingIsStranded == Spec => []NothingStranded
BY Invariance, StrandedInit, StrandedStep, PTL DEF Spec

=============================================================================
