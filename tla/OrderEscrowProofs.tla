------------------------- MODULE OrderEscrowProofs -------------------------
(***************************************************************************)
(* Theorems about OrderEscrow for every set of orders, users, shipments    *)
(* and concurrent handlers, every price and any number of faults: escrow   *)
(* holds exactly what is owed out of it, money is conserved, nothing is    *)
(* paid out that was not locked, nothing travels unpaid, the status tells  *)
(* who got the money unless a handler writes late, no price is stranded    *)
(* without a fault, and the promise of EscrowPromise is kept.              *)
(***************************************************************************)
EXTENDS OrderEscrow, TotalsProofs

\* The labels at which a handler uses its order, and its parcel.
PayLabels == {"pay", "payDiscard", "payRecover", "payRelease", "payCancel", "payForfeit"}

WithOrder ==
  PayLabels \cup
  {"lock", "mark", "item", "prepay", "write", "dispute", "giveUp", "discard",
   "refunded", "canceledItem", "forfeit", "forfeitedItem", "sweptItem"}

Moves == {"LABEL_PENDING", "LABEL_CREATED", "SHIPPED", "DELIVERED"}

WithParcel == Moves \cup {"charge", "paid", "pack", "clock"}

\* The labels at which the order is known to have its funds in the ledger.
Funded == PayLabels \cup {"mark", "write", "refunded"}

\* The labels at which the list of an order timer is in memory.
Timers == {"recover", "release", "cancel", "abandon", "payRecover", "payRelease",
           "payCancel", "refunded", "canceledItem", "forfeit", "payForfeit",
           "forfeitedItem"}

\* What a handler in memory may rely on, given the statuses and locked orders.
Fits(j, st, lk) ==
  /\ j.at \in WithOrder => j.order \in Orders
  /\ j.at = "lock" => st[j.order] = "PENDING_SETTLEMENT" /\ j.order \notin lk
  /\ j.at \in Funded => j.order \in lk
  /\ j.at \in PayLabels \cup {"giveUp", "forfeit"} => j.task \in {"release", "refund"}
  /\ j.at = "write" => j.task \in {"SHIPPED", "DISPUTE_WINDOW"}
  /\ j.at \in WithParcel => j.parcel \in Shipments
  /\ j.at \in {"advance", "write"} =>
       \A e \in j.todo : e[2] \in {"SHIPPED", "DISPUTE_WINDOW"}
  /\ j.at \in Timers => \A e \in j.todo : e[2] \in {"release", "refund"}
  /\ j.at \in {"recover", "payRecover"} => \A e \in j.todo : e[1] \in lk

JobsFit == \A k \in Slots : Fits(job[k], status, locked)

\* Only the handler that created an order is about to lock its funds.
OneLocker ==
  \A k, h \in Slots :
    At(k, "lock") /\ At(h, "lock") /\ job[k].order = job[h].order => k = h

\* An order has to be there before its funds are locked.
Fresh == \A o \in Orders : status[o] = "NONE" => o \notin locked

\* The inductive invariant.
Inv == /\ TypeOK /\ EscrowBacked /\ MoneyConserved /\ LockedFirst
       /\ JobsFit /\ OneLocker /\ Fresh

-----------------------------------------------------------------------------
(* Steps that leave the money alone.                                       *)

\* The part of TypeOK about rows that no invariant of money looks at.
RowsOK ==
  /\ kind \in [Orders -> Kinds]
  /\ deadline \in [Orders -> {"none", "running", "past"}]
  /\ window \in [Orders -> {"none", "open", "past"}]
  /\ recent \in [Orders -> BOOLEAN]
  /\ item \in [Orders -> ItemStatus]
  /\ held \in [Orders -> {"running", "past"}]
  /\ parcelOf \in [Orders -> Shipments \cup {None}]
  /\ shipment \in [Shipments -> ShipmentStatus]
  /\ faults \in Nat

\* Statuses move only of orders whose funds are in the ledger.
StatusMoves ==
  /\ status' \in [Orders -> OrderStatus]
  /\ \A o \in Orders \ locked : status'[o] = status[o]
  /\ \A o \in locked : status'[o] # "NONE"

\* The next job of a slot.
Becomes(k, j) == job' = [job EXCEPT ![k] = j]

\* Orders and money after such a step.
LEMMA OrdersKeep ==
  ASSUME Inv, StatusMoves, UNCHANGED moneyVars
  PROVE  /\ EscrowBacked' /\ MoneyConserved' /\ LockedFirst' /\ Fresh'
<1>1. EscrowBacked'
  BY DEF Inv, EscrowBacked, InEscrow, moneyVars
<1>2. MoneyConserved'
  BY DEF Inv, MoneyConserved, moneyVars
<1>3. LockedFirst' /\ Fresh'
  BY DEF Inv, StatusMoves, LockedFirst, Fresh, moneyVars
<1>4. QED
  BY <1>1, <1>2, <1>3

\* The other slots do not notice a step that locks no order's funds.
LEMMA JobsKeep ==
  ASSUME Inv, StatusMoves, locked' = locked, NEW k \in Slots, NEW j \in Jobs,
         Becomes(k, j), j.at # "lock", Fits(j, status, locked)
  PROVE  job' \in [Slots -> Jobs] /\ JobsFit' /\ OneLocker'
<1>1. job \in [Slots -> Jobs] /\ job' \in [Slots -> Jobs]
  BY DEF Inv, TypeOK, Becomes
<1>2. job'[k] = j /\ \A h \in Slots \ {k} : job'[h] = job[h]
  BY <1>1 DEF Becomes
<1>3. ASSUME NEW i \in Jobs, Fits(i, status, locked)
      PROVE  Fits(i, status', locked)
  BY <1>3 DEF Fits, StatusMoves, WithOrder
<1>4. JobsFit'
  <2>1. ASSUME NEW h \in Slots PROVE Fits(job'[h], status', locked')
    <3>1. CASE h = k
      BY <1>2, <1>3, <3>1
    <3>2. CASE h # k
      BY <1>1, <1>2, <1>3, <3>2 DEF Inv, JobsFit
    <3>3. QED
      BY <3>1, <3>2
  <2>2. QED
    BY <2>1 DEF JobsFit
<1>5. OneLocker'
  BY <1>2 DEF Inv, OneLocker, At
<1>6. QED
  BY <1>1, <1>4, <1>5

\* Together: such a step keeps the invariant.
LEMMA QuietStep ==
  ASSUME Inv, StatusMoves, UNCHANGED moneyVars, RowsOK',
         NEW k \in Slots, NEW j \in Jobs,
         Becomes(k, j), j.at # "lock", Fits(j, status, locked)
  PROVE  Inv'
<1>1. job' \in [Slots -> Jobs] /\ JobsFit' /\ OneLocker'
  BY JobsKeep DEF moneyVars
<1>2. EscrowBacked' /\ MoneyConserved' /\ LockedFirst' /\ Fresh'
  BY OrdersKeep
<1>3. TypeOK'
  BY <1>1 DEF Inv, TypeOK, RowsOK, StatusMoves, moneyVars
<1>4. QED
  BY <1>1, <1>2, <1>3 DEF Inv

-----------------------------------------------------------------------------
(* What the helpers do to a job.                                           *)

\* The handler goes on with everything it has in memory.
LEMMA GoToJob ==
  ASSUME Inv, NEW k \in Slots, NEW at \in Labels, GoTo(k, at)
  PROVE  \E j \in Jobs :
           /\ Becomes(k, j)
           /\ j.at = at /\ j.todo = job[k].todo /\ j.order = job[k].order
           /\ j.task = job[k].task /\ j.parcel = job[k].parcel
<1> DEFINE j == [job[k] EXCEPT !.at = at]
<1>1. job[k] \in Jobs
  BY DEF Inv, TypeOK
<1>2. j \in Jobs /\ j.at = at /\ j.todo = job[k].todo /\ j.order = job[k].order
      /\ j.task = job[k].task /\ j.parcel = job[k].parcel
  BY <1>1 DEF Jobs
<1>3. Becomes(k, j)
  BY DEF GoTo, Becomes
<1>4. QED
  BY <1>2, <1>3

\* An idle slot is a job.
LEMMA IdleJob == Idle \in Jobs /\ Idle.at = "idle" /\ Idle.todo = {}
BY DEF Idle, Jobs, Labels

\* A handler that ends leaves nothing in memory that could fail to fit.
LEMMA EndJob ==
  ASSUME Inv, NEW k \in Slots, End(k)
  PROVE  \E j \in Jobs : Becomes(k, j) /\ j.at = "idle" /\ Fits(j, status, locked)
<1>1. Becomes(k, Idle)
  BY DEF End, Becomes
<1>2. Fits(Idle, status, locked)
  BY IdleJob DEF Fits, WithOrder, PayLabels, Funded, WithParcel, Moves, Timers
<1>3. QED
  BY <1>1, <1>2, IdleJob

\* A handler that begins has its order and task.
LEMMA BeginJob ==
  ASSUME NEW k \in Slots, NEW at \in Labels, NEW o \in Orders, NEW task \in Tasks,
         Begin(k, at, o, task)
  PROVE  \E j \in Jobs :
           Becomes(k, j) /\ j.at = at /\ j.todo = {} /\ j.order = o /\ j.task = task
<1> DEFINE j == [Idle EXCEPT !.at = at, !.order = o, !.task = task]
<1>1. j \in Jobs /\ j.at = at /\ j.todo = {} /\ j.order = o /\ j.task = task
  BY DEF Idle, Jobs, Labels
<1>2. Becomes(k, j)
  BY DEF Begin, Becomes
<1>3. QED
  BY <1>1, <1>2

\* The head of a loop keeps the list.
LEMMA LoopJob ==
  ASSUME Inv, NEW k \in Slots, NEW at \in Labels, Loop(k, at)
  PROVE  \E j \in Jobs : Becomes(k, j) /\ j.at = at /\ j.todo = job[k].todo
<1> DEFINE j == [job[k] EXCEPT !.at = at, !.order = None, !.task = "none"]
<1>1. job[k] \in Jobs
  BY DEF Inv, TypeOK
<1>2. j \in Jobs /\ j.at = at /\ j.todo = job[k].todo
  BY <1>1 DEF Jobs
<1>3. Becomes(k, j)
  BY DEF Loop, Becomes
<1>4. QED
  BY <1>2, <1>3

\* An errand that is left alone goes from the list.
LEMMA SkipJob ==
  ASSUME Inv, NEW k \in Slots, NEW e, Skip(k, e)
  PROVE  \E j \in Jobs :
           /\ Becomes(k, j)
           /\ j.at = job[k].at /\ j.todo \subseteq job[k].todo
           /\ j.order = job[k].order /\ j.task = job[k].task
           /\ j.parcel = job[k].parcel
<1> DEFINE j == [job[k] EXCEPT !.todo = job[k].todo \ {e}]
<1>1. job[k] \in Jobs
  BY DEF Inv, TypeOK
<1>2. /\ j \in Jobs /\ j.at = job[k].at /\ j.todo \subseteq job[k].todo
      /\ j.order = job[k].order /\ j.task = job[k].task /\ j.parcel = job[k].parcel
  BY <1>1 DEF Jobs
<1>3. Becomes(k, j)
  BY DEF Skip, Becomes
<1>4. QED
  BY <1>2, <1>3

\* An errand that is taken up names the order and the task.
LEMMA TakeJob ==
  ASSUME Inv, NEW k \in Slots, NEW e \in job[k].todo, NEW at \in Labels, Take(k, e, at)
  PROVE  /\ e[1] \in Orders /\ e[2] \in Tasks
         /\ \E j \in Jobs :
              /\ Becomes(k, j)
              /\ j.at = at /\ j.todo \subseteq job[k].todo
              /\ j.order = e[1] /\ j.task = e[2]
<1> DEFINE j == [job[k] EXCEPT !.at = at, !.todo = job[k].todo \ {e},
                               !.order = e[1], !.task = e[2]]
<1>1. job[k] \in Jobs
  BY DEF Inv, TypeOK
<1>2. e[1] \in Orders /\ e[2] \in Tasks
  BY <1>1 DEF Jobs, Errands
<1>3. /\ j \in Jobs /\ j.at = at /\ j.todo \subseteq job[k].todo
      /\ j.order = e[1] /\ j.task = e[2]
  BY <1>1, <1>2 DEF Jobs
<1>4. Becomes(k, j)
  BY DEF Take, Becomes
<1>5. QED
  BY <1>2, <1>3, <1>4

\* A write keeps the types of the order's columns.
LEMMA WriteTyped ==
  ASSUME Inv, NEW o \in Orders, NEW st \in OrderStatus, Write(o, st)
  PROVE  status' \in [Orders -> OrderStatus] /\ recent' \in [Orders -> BOOLEAN]
<1> DEFINE b == st \in {"RELEASED", "REFUNDED"}
<1>1. recent' = [recent EXCEPT ![o] = b] /\ status' = [status EXCEPT ![o] = st]
  BY DEF Write
<1>2. /\ b \in BOOLEAN
      /\ recent \in [Orders -> BOOLEAN] /\ status \in [Orders -> OrderStatus]
  BY DEF Inv, TypeOK
<1> HIDE DEF b
<1>3. QED
  BY <1>1, <1>2

\* Writing the status of an order whose funds are there is such a move.
LEMMA WriteMoves ==
  ASSUME Inv, NEW o \in Orders, o \in locked, NEW st \in OrderStatus \ {"NONE"},
         Write(o, st)
  PROVE  StatusMoves /\ recent' \in [Orders -> BOOLEAN]
<1>1. status' = [status EXCEPT ![o] = st] /\ status \in [Orders -> OrderStatus]
  BY DEF Inv, TypeOK, Write
<1>2. locked \subseteq Orders /\ \A q \in locked : status[q] # "NONE"
  BY DEF Inv, TypeOK, Fresh
<1>3. StatusMoves
  BY <1>1, <1>2 DEF StatusMoves
<1>4. QED
  BY <1>3, WriteTyped

\* Writing nothing is one, too.
LEMMA NoMove ==
  ASSUME Inv, UNCHANGED <<status, recent>>
  PROVE  StatusMoves /\ recent' \in [Orders -> BOOLEAN]
BY DEF Inv, TypeOK, StatusMoves, Fresh

\* An order that left settlement has its funds in the ledger.
LEMMA LaterLocked ==
  ASSUME Inv, NEW o \in Orders, status[o] \notin {"NONE", "PENDING_SETTLEMENT"}
  PROVE  o \in locked
BY DEF Inv, LockedFirst

\* The rows when none is written.
LEMMA RowsStay ==
  ASSUME Inv, UNCHANGED <<orderVars, goodsVars, faults>>
  PROVE  RowsOK' /\ StatusMoves
<1>1. StatusMoves
  BY NoMove DEF orderVars
<1>2. RowsOK'
  BY DEF Inv, TypeOK, RowsOK, orderVars, goodsVars
<1>3. QED
  BY <1>1, <1>2

\* A step that only reads keeps the invariant if what it remembers fits.
LEMMA ReadStep ==
  ASSUME Inv, UNCHANGED <<orderVars, goodsVars, moneyVars, faults>>,
         NEW k \in Slots, NEW j \in Jobs,
         Becomes(k, j), j.at # "lock", Fits(j, status, locked)
  PROVE  Inv'
BY RowsStay, QuietStep

\* So does the last step of a handler.
LEMMA EndStep ==
  ASSUME Inv, StatusMoves, UNCHANGED moneyVars, RowsOK', NEW k \in Slots, End(k)
  PROVE  Inv'
BY EndJob, QuietStep

-----------------------------------------------------------------------------
(* One step per action.                                                    *)

\* A job that fits knows this much at its label.
LEMMA JobKnows ==
  ASSUME Inv, NEW k \in Slots
  PROVE  /\ job[k] \in Jobs /\ Fits(job[k], status, locked)
         /\ job[k].todo \subseteq Errands /\ job[k].at \in Labels
         /\ job[k].at \in WithOrder => job[k].order \in Orders
<1>1. job[k] \in Jobs /\ Fits(job[k], status, locked)
  BY DEF Inv, TypeOK, JobsFit
<1>2. QED
  BY <1>1 DEF Jobs, Fits

\* The first two statements of a settlement are the interesting ones: one
\* handler alone comes to lock the funds, and it locks them once.
LEMMA CreateOrderStep ==
  ASSUME Inv, NEW k \in Slots, NEW o \in Orders, CreateOrder(k, o)
  PROVE  Inv'
<1>1. /\ status[o] = "NONE" /\ o \notin locked
      /\ status' = [status EXCEPT ![o] = "PENDING_SETTLEMENT"]
      /\ UNCHANGED <<kind, deadline, window, goodsVars, moneyVars, faults>>
  BY DEF CreateOrder, Write, Inv, Fresh
<1>2. PICK j \in Jobs : /\ Becomes(k, j) /\ j.at = "lock" /\ j.todo = {}
                        /\ j.order = o /\ j.task = "settle"
  <2>1. Begin(k, "lock", o, "settle") /\ "lock" \in Labels /\ "settle" \in Tasks
    BY DEF CreateOrder, Labels, Tasks
  <2>2. QED
    BY <2>1, BeginJob
<1>3. status' \in [Orders -> OrderStatus] /\ recent' \in [Orders -> BOOLEAN]
  BY WriteTyped DEF CreateOrder, OrderStatus
<1>4. job \in [Slots -> Jobs] /\ job' \in [Slots -> Jobs]
  BY <1>2 DEF Inv, TypeOK, Becomes
<1>5. job'[k] = j /\ \A h \in Slots \ {k} : job'[h] = job[h]
  BY <1>2, <1>4 DEF Becomes
<1>6. status \in [Orders -> OrderStatus]
  BY DEF Inv, TypeOK
<1>7. JobsFit'
  <2>1. locked' = locked
    BY <1>1 DEF moneyVars
  <2>2. ASSUME NEW h \in Slots, h # k PROVE Fits(job[h], status', locked)
    <3>1. Fits(job[h], status, locked)
      BY JobKnows
    <3>2. job[h].at = "lock" => job[h].order # o
      BY <1>1, <3>1 DEF Fits
    <3>3. job[h].at = "lock" => status'[job[h].order] = status[job[h].order]
      BY <1>1, <1>6, <3>1, <3>2 DEF Fits, WithOrder
    <3>4. QED
      BY <3>1, <3>3 DEF Fits
  <2>3. Fits(j, status', locked)
    <3>1. status'[o] = "PENDING_SETTLEMENT"
      BY <1>1, <1>6
    <3>2. QED
      BY <1>1, <1>2, <3>1
      DEF Fits, WithOrder, PayLabels, Funded, WithParcel, Moves, Timers
  <2>4. QED
    BY <1>5, <2>1, <2>2, <2>3 DEF JobsFit
<1>8. OneLocker'
  <2>1. ASSUME NEW h \in Slots, h # k PROVE ~(At(h, "lock") /\ job[h].order = o)
    <3>1. Fits(job[h], status, locked)
      BY JobKnows
    <3>2. QED
      BY <1>1, <3>1 DEF Fits, At
  <2>2. QED
    BY <1>2, <1>5, <2>1 DEF Inv, OneLocker, At
<1>9. LockedFirst' /\ Fresh'
  BY <1>1, <1>6 DEF Inv, LockedFirst, Fresh, moneyVars
<1>10. EscrowBacked' /\ MoneyConserved'
  BY <1>1 DEF Inv, EscrowBacked, InEscrow, MoneyConserved, moneyVars
<1>11. TypeOK'
  BY <1>1, <1>3, <1>4 DEF Inv, TypeOK, goodsVars, moneyVars
<1>12. QED
  BY <1>7, <1>8, <1>9, <1>10, <1>11 DEF Inv

\* The rest of the settlement.
LEMMA SettleStep ==
  ASSUME Inv, NEW k \in Slots, MarkLocked(k) \/ CreateItem(k) \/ ReleaseNft(k)
  PROVE  Inv'
<1> DEFINE o == job[k].order
<1>0. job[k] \in Jobs /\ Fits(job[k], status, locked)
  BY JobKnows
<1>1. CASE MarkLocked(k)
  <2>1. o \in Orders /\ o \in locked
    BY <1>0, <1>1 DEF MarkLocked, At, Fits, WithOrder, Funded
  <2>2. StatusMoves /\ recent' \in [Orders -> BOOLEAN]
    BY <1>1, <2>1, WriteMoves DEF MarkLocked, OrderStatus
  <2>3. RowsOK'
    BY <1>1, <2>2 DEF MarkLocked, Inv, TypeOK, RowsOK, goodsVars
  <2>4. PICK j \in Jobs : /\ Becomes(k, j) /\ j.at = "item" /\ j.todo = job[k].todo
                          /\ j.order = o
    BY <1>1, GoToJob DEF MarkLocked, Labels
  <2>5. Fits(j, status, locked)
    BY <2>1, <2>4 DEF Fits, WithOrder, PayLabels, Funded, WithParcel, Moves, Timers
  <2>6. QED
    BY <1>1, <2>2, <2>3, <2>4, <2>5, QuietStep DEF MarkLocked
<1>2. CASE CreateItem(k)
  <2>1. o \in Orders
    BY <1>0, <1>2 DEF CreateItem, At, Fits, WithOrder
  <2>2. StatusMoves
    BY <1>2, NoMove DEF CreateItem, orderVars
  <2>3. RowsOK'
    BY <1>2 DEF CreateItem, Inv, TypeOK, RowsOK, ItemStatus, orderVars
  <2>4. CASE GoTo(k, "prepay")
    <3>1. PICK j \in Jobs : /\ Becomes(k, j) /\ j.at = "prepay" /\ j.todo = job[k].todo
                            /\ j.order = o
      BY <2>4, GoToJob DEF Labels
    <3>2. Fits(j, status, locked)
      BY <2>1, <3>1 DEF Fits, WithOrder, PayLabels, Funded, WithParcel, Moves, Timers
    <3>3. QED
      BY <1>2, <2>2, <2>3, <3>1, <3>2, QuietStep DEF CreateItem
  <2>5. CASE End(k)
    BY <1>2, <2>2, <2>3, <2>5, EndJob, QuietStep DEF CreateItem
  <2>6. QED
    BY <1>2, <2>4, <2>5 DEF CreateItem
<1>3. CASE ReleaseNft(k)
  <2>1. o \in Orders
    BY <1>0, <1>3 DEF ReleaseNft, At, Fits, WithOrder
  <2>2. UNCHANGED <<kind, deadline, window, goodsVars, moneyVars, faults>>
    BY <1>3 DEF ReleaseNft
  <2>3. CASE status[o] = "LOCKED"
    <3>1. o \in locked
      BY <2>1, <2>3, LaterLocked
    <3>2. Write(o, "RELEASED")
      BY <1>3, <2>3 DEF ReleaseNft
    <3>3. StatusMoves /\ recent' \in [Orders -> BOOLEAN]
      BY <2>1, <3>1, <3>2, WriteMoves DEF OrderStatus
    <3>4. RowsOK'
      BY <2>2, <3>3 DEF Inv, TypeOK, RowsOK, goodsVars
    <3> DEFINE j == [job[k] EXCEPT !.at = "pay", !.task = "release"]
    <3>5. j \in Jobs /\ j.at = "pay" /\ j.order = o /\ j.task = "release"
      BY <1>0 DEF Jobs, Labels, Tasks
    <3>6. Becomes(k, j)
      BY <1>3, <2>3 DEF ReleaseNft, Becomes
    <3> HIDE DEF j
    <3>7. Fits(j, status, locked)
      BY <2>1, <3>1, <3>5
      DEF Fits, WithOrder, PayLabels, Funded, WithParcel, Moves, Timers
    <3>8. QED
      BY <2>2, <3>3, <3>4, <3>5, <3>6, <3>7, QuietStep
  <2>4. CASE status[o] # "LOCKED"
    <3>1. End(k) /\ UNCHANGED <<status, recent>>
      BY <1>3, <2>4 DEF ReleaseNft
    <3>2. RowsOK' /\ StatusMoves
      BY <2>2, <3>1, RowsStay DEF orderVars
    <3>3. QED
      BY <2>2, <3>1, <3>2, EndJob, QuietStep
  <2>5. QED
    BY <2>3, <2>4
<1>4. QED
  BY <1>1, <1>2, <1>3

\* The buyer's shipment, but for its charge.
LEMMA ShippingStep ==
  ASSUME Inv, NEW k \in Slots,
         \/ \E O \in SUBSET Orders, s \in Shipments : RequestShipment(k, O, s)
         \/ \E s \in Shipments : PrepayShipping(k, s)
         \/ MarkPaid(k) \/ PackItems(k) \/ StartSellerShipClock(k)
  PROVE  Inv'
<1>0. job[k] \in Jobs /\ Fits(job[k], status, locked)
  BY JobKnows
<1>1. ASSUME NEW O \in SUBSET Orders, NEW s \in Shipments, OpenShipment(k, O, s),
             UNCHANGED <<orderVars, item, held, parcelOf, moneyVars, faults>>
      PROVE  Inv'
  <2>1. shipment' \in [Shipments -> ShipmentStatus]
    BY <1>1 DEF OpenShipment, Inv, TypeOK, ShipmentStatus
  <2>2. RowsOK' /\ StatusMoves
    BY <1>1, <2>1, NoMove DEF Inv, TypeOK, RowsOK, orderVars
  <2> DEFINE j == [Idle EXCEPT !.at = "charge", !.todo = O \X {"pack"}, !.parcel = s]
  <2>3. j \in Jobs /\ j.at = "charge" /\ j.parcel = s
    BY DEF Idle, Jobs, Labels, Errands, Tasks
  <2>4. Becomes(k, j)
    BY <1>1 DEF OpenShipment, Becomes
  <2> HIDE DEF j
  <2>5. Fits(j, status, locked)
    BY <2>3 DEF Fits, WithOrder, PayLabels, Funded, WithParcel, Moves, Timers
  <2>6. QED
    BY <1>1, <2>2, <2>3, <2>4, <2>5, QuietStep
<1>2. ASSUME NEW O \in SUBSET Orders, NEW s \in Shipments, RequestShipment(k, O, s)
      PROVE  Inv'
  BY <1>1, <1>2 DEF RequestShipment
<1>3. ASSUME NEW s \in Shipments, PrepayShipping(k, s)
      PROVE  Inv'
  <2>1. {job[k].order} \in SUBSET Orders
    BY <1>0, <1>3 DEF PrepayShipping, At, Fits, WithOrder
  <2>2. CASE item[job[k].order] = "READY_TO_SHIP"
    BY <1>1, <1>3, <2>1, <2>2 DEF PrepayShipping
  <2>3. CASE item[job[k].order] # "READY_TO_SHIP"
    <3>1. /\ End(k)
          /\ UNCHANGED <<orderVars, goodsVars, moneyVars, faults>>
      BY <1>3, <2>3 DEF PrepayShipping, goodsVars
    <3>2. QED
      BY <3>1, RowsStay, EndStep
  <2>4. QED
    BY <2>2, <2>3
<1>4. CASE MarkPaid(k)
  <2>1. job[k].parcel \in Shipments
    BY <1>0, <1>4 DEF MarkPaid, At, Fits, WithParcel
  <2>2. RowsOK' /\ StatusMoves
    BY <1>4, <2>1, NoMove
    DEF MarkPaid, Inv, TypeOK, RowsOK, ShipmentStatus, orderVars
  <2>3. PICK j \in Jobs : /\ Becomes(k, j) /\ j.at = "pack"
                          /\ j.parcel = job[k].parcel
    BY <1>4, GoToJob DEF MarkPaid, Labels
  <2>4. Fits(j, status, locked)
    BY <2>1, <2>3 DEF Fits, WithOrder, PayLabels, Funded, WithParcel, Moves, Timers
  <2>5. QED
    BY <1>4, <2>2, <2>3, <2>4, QuietStep DEF MarkPaid
<1>5. CASE PackItems(k)
  <2>1. job[k].parcel \in Shipments
    BY <1>0, <1>5 DEF PackItems, At, Fits, WithParcel
  <2>2. item' \in [Orders -> ItemStatus] /\ parcelOf' \in [Orders -> Shipments \cup {None}]
    BY <1>5, <2>1 DEF PackItems, Inv, TypeOK, ItemStatus
  <2>3. RowsOK' /\ StatusMoves
    BY <1>5, <2>2, NoMove DEF PackItems, Inv, TypeOK, RowsOK, orderVars
  <2>4. PICK j \in Jobs : /\ Becomes(k, j) /\ j.at = "clock"
                          /\ j.parcel = job[k].parcel
    BY <1>5, GoToJob DEF PackItems, Labels
  <2>5. Fits(j, status, locked)
    BY <2>1, <2>4 DEF Fits, WithOrder, PayLabels, Funded, WithParcel, Moves, Timers
  <2>6. QED
    BY <1>5, <2>3, <2>4, <2>5, QuietStep DEF PackItems
<1>6. CASE StartSellerShipClock(k)
  <2>1. deadline' \in [Orders -> {"none", "running", "past"}]
    BY <1>6 DEF StartSellerShipClock, Inv, TypeOK
  <2>2. RowsOK' /\ StatusMoves
    BY <1>6, <2>1, NoMove DEF StartSellerShipClock, Inv, TypeOK, RowsOK, goodsVars
  <2>3. QED
    BY <1>6, <2>2, EndStep DEF StartSellerShipClock
<1>7. QED
  BY <1>2, <1>3, <1>4, <1>5, <1>6

\* The labels of a parcel's moves.
LEMMA NextLabels == \A st \in DOMAIN NextStatus : NextStatus[st] \in Moves
<1>1. DOMAIN NextStatus = {"PAID", "LABEL_PENDING", "LABEL_CREATED", "SHIPPED"}
  BY DEF NextStatus
<1>2. QED
  BY <1>1 DEF NextStatus, Moves

\* The parcel and the orders it advances.
LEMMA CarryStep ==
  ASSUME Inv, NEW k \in Slots,
         (\E s \in Shipments : ReadShipment(k, s)) \/ Carry(k)
  PROVE  Inv'
<1>0. job[k] \in Jobs /\ Fits(job[k], status, locked)
  BY JobKnows
<1>1. ASSUME NEW s \in Shipments, ReadShipment(k, s)
      PROVE  Inv'
  <2> DEFINE j == [Idle EXCEPT !.at = NextStatus[shipment[s]], !.parcel = s]
  <2>1. NextStatus[shipment[s]] \in Moves
    BY <1>1, NextLabels DEF ReadShipment
  <2>2. j \in Jobs /\ j.at \in Moves /\ j.parcel = s
    BY <2>1 DEF Idle, Jobs, Labels, Moves
  <2>3. Becomes(k, j)
    BY <1>1 DEF ReadShipment, Becomes
  <2> HIDE DEF j
  <2>4. Fits(j, status, locked) /\ j.at # "lock"
    BY <2>2 DEF Fits, WithOrder, PayLabels, Funded, WithParcel, Moves, Timers
  <2>5. QED
    BY <1>1, <2>2, <2>3, <2>4, ReadStep DEF ReadShipment
<1>2. CASE MoveShipment(k)
  <2> DEFINE s == job[k].parcel
             to == job[k].at
             aboard == {o \in Orders : parcelOf[o] = s}
             goal == IF to = "SHIPPED" THEN "SHIPPED" ELSE "DISPUTE_WINDOW"
  <2>1. to \in Moves
    BY <1>2 DEF MoveShipment, NextStatus, Moves
  <2>2. s \in Shipments
    BY <1>0, <2>1 DEF Fits, WithParcel
  <2>3. shipment' \in [Shipments -> ShipmentStatus]
    <3>1. shipment' = [shipment EXCEPT ![s] = to]
      BY <1>2 DEF MoveShipment
    <3>2. to \in ShipmentStatus
      BY <2>1 DEF Moves, ShipmentStatus
    <3> HIDE DEF to, s
    <3>3. QED
      BY <2>2, <3>1, <3>2 DEF Inv, TypeOK
  <2>4. CASE to \in {"SHIPPED", "DELIVERED"}
    <3>1. item' = [o \in Orders |-> IF o \in aboard THEN to ELSE item[o]]
      BY <1>2, <2>4 DEF MoveShipment
    <3>2. item' \in [Orders -> ItemStatus]
      <4>1. to \in ItemStatus
        BY <2>4 DEF ItemStatus
      <4> HIDE DEF to, aboard
      <4>2. QED
        BY <3>1, <4>1 DEF Inv, TypeOK
    <3>3. RowsOK' /\ StatusMoves
      BY <1>2, <2>3, <3>2, NoMove DEF MoveShipment, Inv, TypeOK, RowsOK, orderVars
    <3> DEFINE j == [Idle EXCEPT !.at = "advance", !.todo = aboard \X {goal}]
    <3>4. Becomes(k, j)
      BY <1>2, <2>4 DEF MoveShipment, Becomes
    <3>5. /\ aboard \in SUBSET Orders
          /\ goal \in {"SHIPPED", "DISPUTE_WINDOW"}
      OBVIOUS
    <3> HIDE DEF aboard, goal
    <3>6. aboard \X {goal} \in SUBSET Errands /\ \A e \in aboard \X {goal} : e[2] = goal
      BY <3>5 DEF Errands, Tasks
    <3>7. j \in Jobs /\ j.at = "advance" /\ j.todo = aboard \X {goal}
      BY <3>6 DEF Idle, Jobs, Labels
    <3> HIDE DEF j
    <3>8. Fits(j, status, locked)
      BY <3>5, <3>6, <3>7
      DEF Fits, WithOrder, PayLabels, Funded, WithParcel, Moves, Timers
    <3>9. QED
      BY <1>2, <3>3, <3>4, <3>7, <3>8, QuietStep DEF MoveShipment
  <2>5. CASE to \notin {"SHIPPED", "DELIVERED"}
    <3>1. End(k) /\ UNCHANGED item
      BY <1>2, <2>5 DEF MoveShipment
    <3>2. RowsOK' /\ StatusMoves
      BY <1>2, <2>3, <3>1, NoMove DEF MoveShipment, Inv, TypeOK, RowsOK, orderVars
    <3>3. QED
      BY <1>2, <3>1, <3>2, EndStep DEF MoveShipment
  <2>6. QED
    BY <2>4, <2>5
<1>3. CASE AdvanceRead(k)
  <2>1. ASSUME NEW e \in job[k].todo, status[e[1]] \in {"LOCKED", "SHIPPED"},
               Take(k, e, "write")
        PROVE  Inv'
    <3>1. e[1] \in Orders
      BY <2>1, TakeJob DEF Labels
    <3>2. e[1] \in locked
      BY <2>1, <3>1, LaterLocked
    <3>3. PICK j \in Jobs : /\ Becomes(k, j)
                            /\ j.at = "write" /\ j.todo \subseteq job[k].todo
                            /\ j.order = e[1] /\ j.task = e[2]
      BY <2>1, TakeJob DEF Labels
    <3>4. \A d \in job[k].todo : d[2] \in {"SHIPPED", "DISPUTE_WINDOW"}
      BY <1>0, <1>3 DEF AdvanceRead, At, Fits
    <3>5. Fits(j, status, locked)
      BY <3>1, <3>2, <3>3, <3>4
      DEF Fits, WithOrder, PayLabels, Funded, WithParcel, Moves, Timers
    <3>6. QED
      BY <1>3, <3>3, <3>5, ReadStep DEF AdvanceRead
  <2>2. ASSUME NEW e \in job[k].todo, Skip(k, e)
        PROVE  Inv'
    <3>1. PICK j \in Jobs : /\ Becomes(k, j) /\ j.at = job[k].at
                            /\ j.todo \subseteq job[k].todo
      BY <2>2, SkipJob
    <3>2. job[k].at = "advance"
      BY <1>3 DEF AdvanceRead, At
    <3>3. Fits(j, status, locked)
      BY <1>0, <3>1, <3>2
      DEF Fits, WithOrder, PayLabels, Funded, WithParcel, Moves, Timers
    <3>4. QED
      BY <1>3, <3>1, <3>2, <3>3, ReadStep DEF AdvanceRead
  <2>3. CASE End(k)
    BY <1>3, <2>3, RowsStay, EndStep DEF AdvanceRead
  <2>4. QED
    BY <1>3, <2>1, <2>2, <2>3 DEF AdvanceRead
<1>4. CASE AdvanceWrite(k)
  <2>1. /\ job[k].order \in Orders /\ job[k].order \in locked
        /\ job[k].task \in {"SHIPPED", "DISPUTE_WINDOW"}
    BY <1>0, <1>4 DEF AdvanceWrite, At, Fits, WithOrder, Funded
  <2>2. StatusMoves /\ recent' \in [Orders -> BOOLEAN]
    <3>1. job[k].task \in OrderStatus \ {"NONE"}
      BY <2>1 DEF OrderStatus
    <3>2. QED
      BY <1>4, <2>1, <3>1, WriteMoves DEF AdvanceWrite
  <2>3. window' \in [Orders -> {"none", "open", "past"}]
    BY <1>4 DEF AdvanceWrite, Inv, TypeOK
  <2>4. RowsOK'
    BY <1>4, <2>2, <2>3 DEF AdvanceWrite, Inv, TypeOK, RowsOK, goodsVars
  <2>5. PICK j \in Jobs : Becomes(k, j) /\ j.at = "advance" /\ j.todo = job[k].todo
    BY <1>4, LoopJob DEF AdvanceWrite, Labels
  <2>6. Fits(j, status, locked)
    BY <1>0, <1>4, <2>5
    DEF AdvanceWrite, At, Fits, WithOrder, PayLabels, Funded, WithParcel, Moves, Timers
  <2>7. QED
    BY <1>4, <2>2, <2>4, <2>5, <2>6, QuietStep DEF AdvanceWrite
<1>5. QED
  BY <1>1, <1>2, <1>3, <1>4 DEF Carry

\* A handler that claims an order, or loses it, and goes on.
LEMMA ClaimStep ==
  ASSUME Inv, NEW k \in Slots, NEW from \in OrderStatus \ {"NONE", "PENDING_SETTLEMENT"},
         NEW to \in OrderStatus \ {"NONE"},
         NEW won \in PayLabels, NEW lost \in {"idle", "forfeitedItem"},
         job[k].at \in {"giveUp", "forfeit"}, lost # "idle" => job[k].at = "forfeit",
         won # "payRecover",
         job[k].at = "giveUp" => won \notin Timers,
         Claim(k, job[k].order, from, to, won, lost),
         UNCHANGED <<kind, deadline, window, goodsVars, moneyVars, faults>>
  PROVE  Inv'
<1> DEFINE o == job[k].order
<1>0. job[k] \in Jobs /\ Fits(job[k], status, locked)
  BY JobKnows
<1>1. o \in Orders /\ job[k].task \in {"release", "refund"}
  BY <1>0 DEF Fits, WithOrder
<1>2. job[k].at = "forfeit" => \A e \in job[k].todo : e[2] \in {"release", "refund"}
  BY <1>0 DEF Fits, Timers
<1>3. CASE status[o] = from
  <2>1. Write(o, to) /\ GoTo(k, won)
    BY <1>3 DEF Claim
  <2>2. o \in locked
    BY <1>1, <1>3, LaterLocked
  <2>3. StatusMoves /\ recent' \in [Orders -> BOOLEAN]
    BY <1>1, <2>1, <2>2, WriteMoves
  <2>4. RowsOK'
    BY <2>3 DEF Inv, TypeOK, RowsOK, goodsVars
  <2>5. won \in Labels
    BY DEF PayLabels, Labels
  <2>6. PICK j \in Jobs : /\ Becomes(k, j) /\ j.at = won /\ j.todo = job[k].todo
                          /\ j.order = o /\ j.task = job[k].task
    BY <2>1, <2>5, GoToJob
  <2>7. Fits(j, status, locked) /\ j.at # "lock"
    BY <1>1, <1>2, <2>2, <2>6
    DEF Fits, WithOrder, PayLabels, Funded, WithParcel, Moves, Timers
  <2>8. QED
    BY <2>3, <2>4, <2>6, <2>7, QuietStep
<1>4. CASE status[o] # from
  <2>1. RowsOK' /\ StatusMoves
    BY <1>4, RowsStay DEF Claim, orderVars
  <2>2. CASE lost = "idle"
    BY <1>4, <2>1, <2>2, EndStep DEF Claim
  <2>3. CASE lost = "forfeitedItem"
    <3>1. GoTo(k, "forfeitedItem")
      BY <1>4, <2>3 DEF Claim
    <3>2. PICK j \in Jobs : /\ Becomes(k, j) /\ j.at = "forfeitedItem"
                            /\ j.todo = job[k].todo /\ j.order = o
      BY <3>1, GoToJob DEF Labels
    <3>3. Fits(j, status, locked) /\ j.at # "lock"
      BY <1>1, <1>2, <2>3, <3>2
      DEF Fits, WithOrder, PayLabels, Funded, WithParcel, Moves, Timers
    <3>4. QED
      BY <2>1, <3>2, <3>3, QuietStep
  <2>4. QED
    BY <2>2, <2>3
<1>5. QED
  BY <1>3, <1>4

\* A handler that claims an order as it begins, and then moves the money.
LEMMA BeginPay ==
  ASSUME Inv, NEW k \in Slots, NEW o \in Orders, NEW task \in {"release", "refund"},
         NEW to \in {"RELEASED", "REFUNDED"},
         status[o] \in {"DISPUTE_WINDOW", "DISPUTED"},
         Write(o, to), Begin(k, "pay", o, task),
         UNCHANGED <<kind, deadline, window, goodsVars, moneyVars, faults>>
  PROVE  Inv'
<1>1. o \in locked
  BY LaterLocked
<1>2. StatusMoves /\ recent' \in [Orders -> BOOLEAN]
  BY <1>1, WriteMoves DEF OrderStatus
<1>3. RowsOK'
  BY <1>2 DEF Inv, TypeOK, RowsOK, goodsVars
<1>4. PICK j \in Jobs : /\ Becomes(k, j) /\ j.at = "pay" /\ j.todo = {}
                        /\ j.order = o /\ j.task = task
  <2>1. "pay" \in Labels /\ task \in Tasks
    BY DEF Labels, Tasks
  <2>2. QED
    BY <2>1, BeginJob
<1>5. Fits(j, status, locked) /\ j.at # "lock"
  BY <1>1, <1>4 DEF Fits, WithOrder, PayLabels, Funded, WithParcel, Moves, Timers
<1>6. QED
  BY <1>2, <1>3, <1>4, <1>5, QuietStep

\* Disputes, early releases and items given up.
LEMMA HandStep ==
  ASSUME Inv, NEW k \in Slots,
         \/ \E o \in Orders :
              \/ OpenDispute(k, o) \/ ReleaseNow(k, o) \/ GiveUp(k, o)
              \/ \E goal \in {"SHIPPED", "DISPUTE_WINDOW"} : MarkByHand(k, o, goal)
              \/ \E task \in {"release", "refund"} : ResolveDispute(k, o, task)
         \/ ClaimDispute(k) \/ ClaimGivenUp(k) \/ DiscardItem(k)
  PROVE  Inv'
<1>0. job[k] \in Jobs /\ Fits(job[k], status, locked)
  BY JobKnows
<1>1. ASSUME NEW o \in Orders, OpenDispute(k, o) PROVE Inv'
  <2>1. Begin(k, "dispute", o, "dispute") /\ "dispute" \in Labels /\ "dispute" \in Tasks
    BY <1>1 DEF OpenDispute, Labels, Tasks
  <2>2. PICK j \in Jobs : Becomes(k, j) /\ j.at = "dispute" /\ j.order = o
    BY <2>1, BeginJob
  <2>3. Fits(j, status, locked)
    BY <2>2 DEF Fits, WithOrder, PayLabels, Funded, WithParcel, Moves, Timers
  <2>4. QED
    BY <1>1, <2>2, <2>3, ReadStep DEF OpenDispute
<1>2. ASSUME NEW o \in Orders, ReleaseNow(k, o) PROVE Inv'
  BY <1>2, BeginPay DEF ReleaseNow
<1>3. ASSUME NEW o \in Orders, GiveUp(k, o) PROVE Inv'
  <2> DEFINE at == IF status[o] = "LOCKED" THEN "giveUp" ELSE "discard"
  <2>1. Begin(k, at, o, "release") /\ at \in Labels /\ "release" \in Tasks
    BY <1>3 DEF GiveUp, Labels, Tasks
  <2>2. at \in {"giveUp", "discard"}
    OBVIOUS
  <2> HIDE DEF at
  <2>3. PICK j \in Jobs : Becomes(k, j) /\ j.at = at /\ j.order = o /\ j.task = "release"
    BY <2>1, BeginJob
  <2>4. Fits(j, status, locked) /\ j.at # "lock"
    BY <2>2, <2>3 DEF Fits, WithOrder, PayLabels, Funded, WithParcel, Moves, Timers
  <2>5. QED
    BY <1>3, <2>3, <2>4, ReadStep DEF GiveUp
<1>4. ASSUME NEW o \in Orders, NEW task \in {"release", "refund"},
             ResolveDispute(k, o, task)
      PROVE  Inv'
  <2> DEFINE to == IF task = "release" THEN "RELEASED" ELSE "REFUNDED"
  <2>1. to \in {"RELEASED", "REFUNDED"} /\ Write(o, to)
    BY <1>4 DEF ResolveDispute
  <2> HIDE DEF to
  <2>2. QED
    BY <1>4, <2>1, BeginPay DEF ResolveDispute
<1>5. CASE ClaimDispute(k)
  <2>1. job[k].order \in Orders
    BY <1>0, <1>5 DEF ClaimDispute, At, Fits, WithOrder
  <2>2. StatusMoves /\ recent' \in [Orders -> BOOLEAN]
    <3>1. CASE status[job[k].order] = "DISPUTE_WINDOW"
      BY <1>5, <2>1, <3>1, LaterLocked, WriteMoves DEF ClaimDispute, OrderStatus
    <3>2. CASE status[job[k].order] # "DISPUTE_WINDOW"
      BY <1>5, <3>2, NoMove DEF ClaimDispute
    <3>3. QED
      BY <3>1, <3>2
  <2>3. RowsOK'
    BY <1>5, <2>2 DEF ClaimDispute, Inv, TypeOK, RowsOK, goodsVars
  <2>4. QED
    BY <1>5, <2>2, <2>3, EndStep DEF ClaimDispute
<1>6. CASE ClaimGivenUp(k)
  <2>1. CASE deadline[job[k].order] = "none"
    <3>1. /\ job[k].at = "giveUp"
          /\ Claim(k, job[k].order, "LOCKED", "RELEASED", "payDiscard", "idle")
          /\ UNCHANGED <<kind, deadline, window, goodsVars, moneyVars, faults>>
      BY <1>6, <2>1 DEF ClaimGivenUp, At
    <3>2. /\ "LOCKED" \in OrderStatus \ {"NONE", "PENDING_SETTLEMENT"}
          /\ "RELEASED" \in OrderStatus \ {"NONE"}
          /\ "payDiscard" \in PayLabels \ Timers
      BY DEF OrderStatus, PayLabels, Timers
    <3>3. QED
      BY <3>1, <3>2, ClaimStep
  <2>2. CASE deadline[job[k].order] # "none"
    <3>1. /\ End(k)
          /\ UNCHANGED <<orderVars, goodsVars, moneyVars, faults>>
      BY <1>6, <2>2 DEF ClaimGivenUp, orderVars
    <3>2. QED
      BY <3>1, RowsStay, EndStep
  <2>3. QED
    BY <2>1, <2>2
<1>7. CASE DiscardItem(k)
  <2>1. item' \in [Orders -> ItemStatus]
    BY <1>7 DEF DiscardItem, DiscardReady, Discard, Inv, TypeOK, ItemStatus
  <2>2. RowsOK' /\ StatusMoves
    BY <1>7, <2>1, NoMove DEF DiscardItem, Inv, TypeOK, RowsOK, orderVars
  <2>3. QED
    BY <1>7, <2>2, EndStep DEF DiscardItem
<1>8. ASSUME NEW o \in Orders, NEW goal \in {"SHIPPED", "DISPUTE_WINDOW"},
             MarkByHand(k, o, goal)
      PROVE  Inv'
  <2>1. Begin(k, "write", o, goal) /\ "write" \in Labels /\ goal \in Tasks
    BY <1>8 DEF MarkByHand, Labels, Tasks
  <2>2. PICK j \in Jobs : /\ Becomes(k, j) /\ j.at = "write" /\ j.todo = {}
                          /\ j.order = o /\ j.task = goal
    BY <2>1, BeginJob
  <2>3. o \in locked
    BY <1>8, LaterLocked DEF MarkByHand
  <2>4. Fits(j, status, locked)
    BY <2>2, <2>3 DEF Fits, WithOrder, PayLabels, Funded, WithParcel, Moves, Timers
  <2>5. QED
    BY <1>8, <2>2, <2>4, ReadStep DEF MarkByHand
<1>9. QED
  BY <1>1, <1>2, <1>3, <1>4, <1>5, <1>6, <1>7, <1>8

\* What a timer reads into its lists: errands that release or refund, and for
\* recovery only orders whose funds are there.
LEMMA ListsFit ==
  ASSUME Inv, NEW i \in 1..4
  PROVE  /\ Listed(i) \in SUBSET Errands
         /\ \A e \in Listed(i) : e[2] \in {"release", "refund"}
         /\ i = 1 => \A e \in Listed(i) : e[1] \in locked
<1>1. CASE i = 1
  <2>1. Listed(1) = ({o \in Orders : status[o] = "RELEASED" /\ CutOff(o)} \X {"release"})
                      \cup ({o \in Orders : status[o] = "REFUNDED" /\ CutOff(o)}
                              \X {"refund"})
    BY DEF Listed
  <2>2. \A e \in Listed(1) : e \in Errands /\ e[2] \in {"release", "refund"} /\ e[1] \in locked
    BY <2>1 DEF Errands, Tasks, CutOff
  <2>3. QED
    BY <1>1, <2>2
<1>2. ASSUME NEW O \in SUBSET Orders, NEW task \in {"release", "refund"},
             Listed(i) = O \X {task}
      PROVE  /\ Listed(i) \in SUBSET Errands
             /\ \A e \in Listed(i) : e[2] \in {"release", "refund"}
  BY <1>2 DEF Errands, Tasks
<1>3. CASE i = 2
  <2> DEFINE O == {o \in Orders : status[o] = "DISPUTE_WINDOW" /\ window[o] = "past"}
  <2>1. Listed(2) = O \X {"release"} /\ O \in SUBSET Orders
    BY DEF Listed
  <2> HIDE DEF O
  <2>2. QED
    BY <1>2, <1>3, <2>1
<1>4. CASE i = 3
  <2> DEFINE O == {o \in Orders : status[o] = "LOCKED" /\ deadline[o] = "past"}
  <2>1. Listed(3) = O \X {"refund"} /\ O \in SUBSET Orders
    BY DEF Listed
  <2> HIDE DEF O
  <2>2. QED
    BY <1>2, <1>4, <2>1
<1>5. CASE i = 4
  <2> DEFINE O == {o \in Orders : item[o] = "READY_TO_SHIP" /\ held[o] = "past"}
  <2>1. Listed(4) = O \X {"release"} /\ O \in SUBSET Orders
    BY DEF Listed
  <2> HIDE DEF O
  <2>2. QED
    BY <1>2, <1>5, <2>1
<1>6. QED
  BY <1>1, <1>3, <1>4, <1>5

\* Reading the list of a section.
LEMMA EnterStep ==
  ASSUME Inv, NEW k \in Slots, NEW i \in Nat, i > 0, Enter(k, i),
         UNCHANGED <<orderVars, goodsVars, moneyVars, faults>>
  PROVE  Inv'
<1>1. PICK h \in i..4 :
        job' = [job EXCEPT ![k] = [Idle EXCEPT !.at = Sections[h], !.todo = Listed(h)]]
  BY DEF Enter
<1>2. h \in 1..4
  OBVIOUS
<1> DEFINE j == [Idle EXCEPT !.at = Sections[h], !.todo = Listed(h)]
<1>3. /\ Sections[h] \in {"recover", "release", "cancel", "abandon"}
      /\ Sections[h] = "recover" => h = 1
  BY <1>2 DEF Sections
<1>4. Becomes(k, j)
  BY <1>1 DEF Becomes
<1>5. /\ Listed(h) \in SUBSET Errands
      /\ \A e \in Listed(h) : e[2] \in {"release", "refund"}
      /\ h = 1 => \A e \in Listed(h) : e[1] \in locked
  BY <1>2, ListsFit
<1>6. j \in Jobs /\ j.at = Sections[h] /\ j.todo = Listed(h)
  <2>1. Sections[h] \in Labels
    BY <1>3 DEF Labels
  <2>2. QED
    BY <1>5, <2>1 DEF Idle, Jobs
<1> HIDE DEF j
<1>7. Fits(j, status, locked) /\ j.at # "lock"
  BY <1>3, <1>5, <1>6 DEF Fits, WithOrder, PayLabels, Funded, WithParcel, Moves, Timers
<1>8. QED
  BY <1>4, <1>6, <1>7, ReadStep

\* Taking up an errand of a list.
LEMMA TakeStep ==
  ASSUME Inv, NEW k \in Slots, NEW e \in job[k].todo,
         NEW at \in {"payRecover", "payRelease", "payCancel", "forfeit", "sweptItem"},
         job[k].at \in Timers \cup {"sweep"},
         job[k].at = "sweep" <=> at = "sweptItem",
         at = "payRecover" => job[k].at = "recover",
         at \in {"payRelease", "payCancel"} => e[1] \in locked,
         Take(k, e, at), StatusMoves, RowsOK', UNCHANGED moneyVars
  PROVE  Inv'
<1>0. Fits(job[k], status, locked)
  BY JobKnows
<1>1. at \in Labels
  BY DEF Labels
<1>2. e[1] \in Orders
  BY <1>1, TakeJob
<1>3. PICK j \in Jobs : /\ Becomes(k, j) /\ j.at = at /\ j.todo \subseteq job[k].todo
                        /\ j.order = e[1] /\ j.task = e[2]
  BY <1>1, TakeJob
<1>4. Fits(j, status, locked) /\ j.at # "lock"
  <2>1. job[k].at \in Timers => \A d \in job[k].todo : d[2] \in {"release", "refund"}
    BY <1>0 DEF Fits
  <2>2. job[k].at = "recover" => \A d \in job[k].todo : d[1] \in locked
    BY <1>0 DEF Fits
  <2>3. QED
    BY <1>2, <1>3, <2>1, <2>2
    DEF Fits, WithOrder, PayLabels, Funded, WithParcel, Moves, Timers
<1>5. QED
  BY <1>3, <1>4, QuietStep

\* Leaving an errand alone.
LEMMA SkipStep ==
  ASSUME Inv, NEW k \in Slots, NEW e,
         job[k].at \in {"release", "cancel", "abandon", "sweep"},
         Skip(k, e), StatusMoves, RowsOK', UNCHANGED moneyVars
  PROVE  Inv'
<1>0. Fits(job[k], status, locked)
  BY JobKnows
<1>1. PICK j \in Jobs : /\ Becomes(k, j) /\ j.at = job[k].at
                        /\ j.todo \subseteq job[k].todo
  BY SkipJob
<1>2. Fits(j, status, locked) /\ j.at # "lock"
  BY <1>0, <1>1 DEF Fits, WithOrder, PayLabels, Funded, WithParcel, Moves, Timers
<1>3. QED
  BY <1>1, <1>2, QuietStep

\* Coming back to the list.
LEMMA LoopStep ==
  ASSUME Inv, NEW k \in Slots, NEW at \in {"cancel", "abandon", "sweep"},
         job[k].at \in Timers \cup {"sweptItem"},
         job[k].at = "sweptItem" <=> at = "sweep",
         Loop(k, at), StatusMoves, RowsOK', UNCHANGED moneyVars
  PROVE  Inv'
<1>0. Fits(job[k], status, locked)
  BY JobKnows
<1>1. at \in Labels
  BY DEF Labels
<1>2. PICK j \in Jobs : Becomes(k, j) /\ j.at = at /\ j.todo = job[k].todo
  BY <1>1, LoopJob
<1>3. Fits(j, status, locked) /\ j.at # "lock"
  BY <1>0, <1>2 DEF Fits, WithOrder, PayLabels, Funded, WithParcel, Moves, Timers
<1>4. QED
  BY <1>2, <1>3, QuietStep

\* The sections that claim each order of their list.
LEMMA ClaimListedStep ==
  ASSUME Inv, NEW k \in Slots, NEW section \in {"release", "cancel"},
         NEW from \in OrderStatus \ {"NONE", "PENDING_SETTLEMENT"},
         NEW to \in OrderStatus \ {"NONE"},
         NEW won \in {"payRelease", "payCancel"},
         ClaimListed(k, section, from, to, won)
  PROVE  Inv'
<1>1. /\ job[k].at = section
      /\ UNCHANGED <<kind, deadline, window, goodsVars, moneyVars, faults>>
  BY DEF ClaimListed, At
<1>2. ASSUME NEW e \in job[k].todo, status[e[1]] = from,
             Write(e[1], to), Take(k, e, won)
      PROVE  Inv'
  <2>1. e[1] \in Orders
    BY <1>2, TakeJob DEF Labels
  <2>2. e[1] \in locked
    BY <1>2, <2>1, LaterLocked
  <2>3. StatusMoves /\ recent' \in [Orders -> BOOLEAN]
    BY <1>2, <2>1, <2>2, WriteMoves
  <2>4. RowsOK'
    BY <1>1, <2>3 DEF Inv, TypeOK, RowsOK, goodsVars
  <2>5. section \in Timers
    BY DEF Timers
  <2>6. QED
    BY <1>1, <1>2, <2>2, <2>3, <2>4, <2>5, TakeStep
<1>3. ASSUME NEW e \in job[k].todo, Skip(k, e), UNCHANGED <<status, recent>>
      PROVE  Inv'
  <2>1. StatusMoves /\ RowsOK'
    BY <1>1, <1>3, RowsStay DEF orderVars
  <2>2. QED
    BY <1>1, <1>3, <2>1, SkipStep
<1>4. QED
  BY <1>2, <1>3 DEF ClaimListed

\* The timers.
LEMMA TimerStep ==
  ASSUME Inv, NEW k \in Slots, OrderTimer(k) \/ FulfillmentTimer(k) \/ RunTimer(k)
  PROVE  Inv'
<1>0. job[k] \in Jobs /\ Fits(job[k], status, locked)
  BY JobKnows
<1>1. CASE OrderTimer(k)
  BY <1>1, EnterStep DEF OrderTimer
<1>2. CASE NextSection(k)
  <2>1. PICK i \in 1..4 : Enter(k, i + 1) \/ End(k)
    BY <1>2 DEF NextSection
  <2>2. CASE Enter(k, i + 1)
    BY <1>2, <2>2, EnterStep DEF NextSection
  <2>3. CASE End(k)
    BY <1>2, <2>3, RowsStay, EndStep DEF NextSection
  <2>4. QED
    BY <2>1, <2>2, <2>3
<1>3. CASE Recover(k)
  <2>1. /\ job[k].at = "recover"
        /\ UNCHANGED <<orderVars, goodsVars, moneyVars, faults>>
    BY <1>3 DEF Recover, At
  <2>2. PICK e \in job[k].todo : Take(k, e, "payRecover")
    BY <1>3 DEF Recover
  <2>3. StatusMoves /\ RowsOK'
    BY <2>1, RowsStay
  <2>4. "recover" \in Timers
    BY DEF Timers
  <2>5. QED
    BY <2>1, <2>2, <2>3, <2>4, TakeStep
<1>4. CASE ReleaseDue(k)
  BY <1>4, ClaimListedStep DEF ReleaseDue, OrderStatus
<1>5. CASE CancelDue(k)
  BY <1>5, ClaimListedStep DEF CancelDue, OrderStatus
<1>6. CASE MarkRefunded(k)
  <2>1. job[k].at = "refunded" /\ job[k].order \in Orders /\ job[k].order \in locked
    BY <1>0, <1>6 DEF MarkRefunded, At, Fits, WithOrder, Funded
  <2>2. StatusMoves /\ recent' \in [Orders -> BOOLEAN]
    BY <1>6, <2>1, WriteMoves DEF MarkRefunded, OrderStatus
  <2>3. RowsOK'
    BY <1>6, <2>2 DEF MarkRefunded, Inv, TypeOK, RowsOK, goodsVars
  <2>4. PICK j \in Jobs : /\ Becomes(k, j) /\ j.at = "canceledItem"
                          /\ j.todo = job[k].todo /\ j.order = job[k].order
    BY <1>6, GoToJob DEF MarkRefunded, Labels
  <2>5. Fits(j, status, locked)
    BY <1>0, <2>1, <2>4 DEF Fits, WithOrder, PayLabels, Funded, WithParcel, Moves, Timers
  <2>6. QED
    BY <1>6, <2>2, <2>3, <2>4, <2>5, QuietStep DEF MarkRefunded
<1>7. ASSUME item' \in [Orders -> ItemStatus],
             UNCHANGED <<orderVars, held, parcelOf, shipment, moneyVars, faults>>
      PROVE  StatusMoves /\ RowsOK'
  BY <1>7, NoMove DEF Inv, TypeOK, RowsOK, orderVars
<1>8. CASE DiscardCanceled(k)
  <2>1. item' \in [Orders -> ItemStatus]
    BY <1>8 DEF DiscardCanceled, DiscardReady, Discard, Inv, TypeOK, ItemStatus
  <2>2. job[k].at \in Timers
    BY <1>8 DEF DiscardCanceled, At, Timers
  <2>3. QED
    BY <1>7, <1>8, <2>1, <2>2, LoopStep DEF DiscardCanceled, Timers
<1>9. CASE CheckAbandoned(k)
  <2>1. /\ job[k].at = "abandon" /\ "abandon" \in Timers
        /\ UNCHANGED <<orderVars, goodsVars, moneyVars, faults>>
    BY <1>9 DEF CheckAbandoned, At, Timers
  <2>2. StatusMoves /\ RowsOK'
    BY <2>1, RowsStay
  <2>3. PICK e \in job[k].todo : Take(k, e, "forfeit") \/ Skip(k, e)
    BY <1>9 DEF CheckAbandoned
  <2>4. CASE Take(k, e, "forfeit")
    BY <2>1, <2>2, <2>4, TakeStep
  <2>5. CASE Skip(k, e)
    BY <2>1, <2>2, <2>5, SkipStep
  <2>6. QED
    BY <2>3, <2>4, <2>5
<1>10. CASE ForfeitOrder(k)
  <2>1. /\ job[k].at = "forfeit"
        /\ Claim(k, job[k].order, "LOCKED", "RELEASED", "payForfeit", "forfeitedItem")
        /\ UNCHANGED <<kind, deadline, window, goodsVars, moneyVars, faults>>
    BY <1>10 DEF ForfeitOrder, At
  <2>2. /\ "LOCKED" \in OrderStatus \ {"NONE", "PENDING_SETTLEMENT"}
        /\ "RELEASED" \in OrderStatus \ {"NONE"}
        /\ "payForfeit" \in PayLabels
    BY DEF OrderStatus, PayLabels
  <2>3. QED
    BY <2>1, <2>2, ClaimStep
<1>11. CASE DiscardForfeited(k)
  <2>1. item' \in [Orders -> ItemStatus]
    BY <1>11 DEF DiscardForfeited, Discard, Inv, TypeOK, ItemStatus
  <2>2. job[k].at \in Timers /\ job[k].at # "sweptItem"
    BY <1>11 DEF DiscardForfeited, At, Timers
  <2>3. QED
    BY <1>7, <1>11, <2>1, <2>2, LoopStep DEF DiscardForfeited
<1>12. CASE FulfillmentTimer(k)
  <2> DEFINE j == [Idle EXCEPT !.at = "sweep", !.todo = Listed(4)]
  <2>1. Becomes(k, j)
    BY <1>12 DEF FulfillmentTimer, Becomes
  <2>2. Listed(4) \in SUBSET Errands
    BY ListsFit
  <2>3. j \in Jobs /\ j.at = "sweep"
    BY <2>2 DEF Idle, Jobs, Labels
  <2> HIDE DEF j
  <2>4. Fits(j, status, locked)
    BY <2>3 DEF Fits, WithOrder, PayLabels, Funded, WithParcel, Moves, Timers
  <2>5. QED
    BY <1>12, <2>1, <2>3, <2>4, ReadStep DEF FulfillmentTimer
<1>13. CASE Sweep(k)
  <2>1. /\ job[k].at = "sweep"
        /\ UNCHANGED <<orderVars, goodsVars, moneyVars, faults>>
    BY <1>13 DEF Sweep, At
  <2>2. StatusMoves /\ RowsOK'
    BY <2>1, RowsStay
  <2>3. CASE End(k)
    BY <2>1, <2>2, <2>3, EndStep
  <2>4. ASSUME NEW e \in job[k].todo, Take(k, e, "sweptItem") PROVE Inv'
    BY <2>1, <2>2, <2>4, TakeStep
  <2>5. ASSUME NEW e \in job[k].todo, Skip(k, e) PROVE Inv'
    BY <2>1, <2>2, <2>5, SkipStep
  <2>6. QED
    BY <1>13, <2>3, <2>4, <2>5 DEF Sweep
<1>14. CASE DiscardSwept(k)
  <2>1. item' \in [Orders -> ItemStatus]
    BY <1>14 DEF DiscardSwept, Discard, Inv, TypeOK, ItemStatus
  <2>2. job[k].at = "sweptItem"
    BY <1>14 DEF DiscardSwept, At
  <2>3. QED
    BY <1>7, <1>14, <2>1, <2>2, LoopStep DEF DiscardSwept
<1>15. QED
  BY <1>1, <1>2, <1>3, <1>4, <1>5, <1>6, <1>8, <1>9, <1>10, <1>11, <1>12, <1>13,
     <1>14 DEF RunTimer

-----------------------------------------------------------------------------
(* The steps that move money.                                              *)

\* Prices are positive, and their three shares are natural numbers that add up:
\* the seller's part is what the floors leave (splitSale).
LEMMA Shares ==
  ASSUME NEW o \in Orders
  PROVE  /\ Amount[o] \in Nat
         /\ Proceeds(Amount[o]) \in Nat
         /\ BuybackFee(Amount[o]) \in Nat
         /\ PlatformFee(Amount[o]) \in Nat
         /\ Proceeds(Amount[o]) + BuybackFee(Amount[o]) + PlatformFee(Amount[o])
              = Amount[o]
<1>1. ASSUME NEW a \in Nat
      PROVE  /\ Proceeds(a) \in Nat /\ BuybackFee(a) \in Nat /\ PlatformFee(a) \in Nat
             /\ Proceeds(a) + BuybackFee(a) + PlatformFee(a) = a
  BY DEF Proceeds, BuybackFee, PlatformFee
<1>2. Amount[o] \in Nat
  BY AmountsAssumption
<1>3. QED
  BY <1>1, <1>2

\* A posting to one user's account.
LEMMA SettledMoves ==
  ASSUME Inv, NEW u \in Users, NEW m \in Int, settled[u] + m \in Nat,
         settled' = [settled EXCEPT ![u] = settled[u] + m]
  PROVE  /\ settled' \in [Users -> Nat]
         /\ Total(settled, Users) \in Nat
         /\ Total(settled', Users) = Total(settled, Users) + m
<1>1. settled \in [Users -> Nat] /\ IsFiniteSet(Users)
  BY SetsAssumption DEF Inv, TypeOK
<1>2. settled' \in [Users -> Nat]
  BY <1>1
<1>3. /\ settled'[u] = settled[u] + m
      /\ \A v \in Users \ {u} : settled'[v] = settled[v]
  BY <1>1
<1>4. ASSUME NEW f \in [Users -> Nat], NEW g \in [Users -> Nat],
             \A v \in Users \ {u} : g[v] = f[v]
      PROVE  /\ Total(g, Users) = Total(f, Users) - f[u] + g[u]
             /\ Total(f, Users) \in Nat
  <2>1. \A v \in Users : f[v] \in Int /\ g[v] \in Int /\ f[v] \in Nat
    OBVIOUS
  <2>2. Total(g, Users) = Total(f, Users) - f[u] + g[u]
    BY <1>1, <1>4, <2>1, TotalUpdate
  <2>3. Total(f, Users) \in Nat
    BY <1>1, <2>1, TotalNat
  <2>4. QED
    BY <2>2, <2>3
<1>5. /\ Total(settled', Users) = Total(settled, Users) - settled[u] + settled'[u]
      /\ Total(settled, Users) \in Nat
  BY <1>1, <1>2, <1>3, <1>4
<1>6. settled[u] \in Nat
  BY <1>1
<1>7. QED
  BY <1>2, <1>3, <1>5, <1>6

\* What an order adds to what the escrow account should hold.
Owed == [o \in Orders |-> IF InEscrow(o) THEN Amount[o] ELSE 0]

\* A step that concerns one order's money.
LEMMA OwedMoves ==
  ASSUME Inv, NEW o \in Orders,
         \A p \in Orders \ {o} : InEscrow(p)' <=> InEscrow(p)
  PROVE  /\ Owed[o] \in Nat /\ Owed'[o] \in Nat
         /\ escrow \in Nat /\ Owed[o] <= escrow
         /\ Total(Owed', Orders) = escrow - Owed[o] + Owed'[o]
<1>1. IsFiniteSet(Orders) /\ Amount \in [Orders -> Nat]
  BY SetsAssumption, AmountsAssumption
<1>2. \A p \in Orders : Owed[p] \in Nat /\ Owed'[p] \in Nat
  BY <1>1 DEF Owed
<1>3. \A p \in Orders \ {o} : Owed'[p] = Owed[p]
  BY DEF Owed
<1>4. ASSUME NEW f, NEW g, \A p \in Orders : f[p] \in Nat /\ g[p] \in Nat,
             \A p \in Orders \ {o} : g[p] = f[p]
      PROVE  /\ Total(g, Orders) = Total(f, Orders) - f[o] + g[o]
             /\ f[o] <= Total(f, Orders)
  <2>1. \A p \in Orders : f[p] \in Int /\ g[p] \in Int
    BY <1>4
  <2>2. Total(g, Orders) = Total(f, Orders) - f[o] + g[o]
    BY <1>1, <1>4, <2>1, TotalUpdate
  <2>3. f[o] <= Total(f, Orders)
    BY <1>1, <1>4, TotalBounds
  <2>4. QED
    BY <2>2, <2>3
<1>5. escrow = Total(Owed, Orders) /\ escrow \in Nat
  BY DEF Inv, TypeOK, EscrowBacked, Owed
<1>6. /\ Total(Owed', Orders) = Total(Owed, Orders) - Owed[o] + Owed'[o]
      /\ Owed[o] <= Total(Owed, Orders)
  BY <1>2, <1>3, <1>4
<1>7. QED
  BY <1>2, <1>5, <1>6

\* Locking the funds of an order: once, because only one handler comes here.
LEMMA LockFundsStep ==
  ASSUME Inv, NEW k \in Slots, LockFunds(k)
  PROVE  Inv'
<1> DEFINE o == job[k].order
           u == Buyer[o]
<1>1. /\ o \in Orders /\ o \notin locked /\ status[o] = "PENDING_SETTLEMENT"
      /\ job[k].at = "lock" /\ u \in Users
  BY JobKnows, SetsAssumption DEF LockFunds, At, Fits, WithOrder
<1>2. CASE settled[u] >= Amount[o]
  <2>1. /\ locked' = locked \cup {o}
        /\ settled' = [settled EXCEPT ![u] = settled[u] - Amount[o]]
        /\ escrow' = escrow + Amount[o]
        /\ GoTo(k, "mark")
        /\ UNCHANGED <<orderVars, goodsVars, outcome, buyback, fees, faults>>
    BY <1>2 DEF LockFunds
  <2>2. outcome[o] = "none"
    <3>1. outcome[o] # "none" => o \in locked
      BY <1>1 DEF Inv, LockedFirst
    <3>2. QED
      BY <1>1, <3>1
  <2>3. Amount[o] \in Nat /\ settled[u] \in Nat
    BY <1>1, Shares DEF Inv, TypeOK
  <2>4. /\ settled' \in [Users -> Nat] /\ Total(settled, Users) \in Nat
        /\ Total(settled', Users) = Total(settled, Users) - Amount[o]
    <3>1. settled[u] + (-Amount[o]) = settled[u] - Amount[o] /\ settled[u] - Amount[o] \in Nat
      BY <1>2, <2>3
    <3>2. -Amount[o] \in Int
      BY <2>3
    <3>3. /\ settled' \in [Users -> Nat] /\ Total(settled, Users) \in Nat
          /\ Total(settled', Users) = Total(settled, Users) + (-Amount[o])
      BY <1>1, <2>1, <3>1, <3>2, SettledMoves
    <3>4. QED
      BY <2>3, <3>3
  <2>5. EscrowBacked' /\ escrow' \in Nat
    <3>1. \A p \in Orders \ {o} : InEscrow(p)' <=> InEscrow(p)
      BY <2>1 DEF InEscrow
    <3>2. Owed[o] = 0 /\ Owed'[o] = Amount[o]
      BY <1>1, <2>1, <2>2 DEF Owed, InEscrow
    <3>3. escrow \in Nat /\ Total(Owed', Orders) = escrow - Owed[o] + Owed'[o]
      BY <1>1, <3>1, OwedMoves
    <3>4. escrow' = Total(Owed', Orders) /\ escrow' \in Nat
      BY <2>1, <2>3, <3>2, <3>3
    <3>5. QED
      BY <3>4 DEF EscrowBacked, Owed
  <2>6. MoneyConserved'
    <3>1. escrow \in Nat /\ buyback \in Nat /\ fees \in Nat
      BY DEF Inv, TypeOK
    <3>2. Total(settled, Users) + escrow + buyback + fees = Total(Funds, Users)
      BY DEF Inv, MoneyConserved
    <3>3. buyback' = buyback /\ fees' = fees /\ escrow' = escrow + Amount[o]
      BY <2>1
    <3>4. Total(settled', Users) + escrow' + buyback' + fees' = Total(Funds, Users)
      BY <2>3, <2>4, <3>1, <3>2, <3>3
    <3>5. QED
      BY <3>4 DEF MoneyConserved
  <2>7. PICK j \in Jobs : /\ Becomes(k, j) /\ j.at = "mark" /\ j.order = o
    BY <2>1, GoToJob DEF Labels
  <2>8. job \in [Slots -> Jobs] /\ job' \in [Slots -> Jobs]
    BY <2>7 DEF Inv, TypeOK, Becomes
  <2>9. job'[k] = j /\ \A h \in Slots \ {k} : job'[h] = job[h]
    BY <2>7, <2>8 DEF Becomes
  <2>10. JobsFit'
    <3>1. ASSUME NEW h \in Slots, h # k PROVE Fits(job[h], status, locked')
      <4>1. Fits(job[h], status, locked)
        BY JobKnows
      <4>2. job[h].at = "lock" => job[h].order # o
        BY <1>1, <3>1 DEF Inv, OneLocker, At
      <4>3. QED
        BY <2>1, <4>1, <4>2 DEF Fits
    <3>2. Fits(j, status, locked')
      BY <1>1, <2>1, <2>7 DEF Fits, WithOrder, PayLabels, Funded, WithParcel, Moves, Timers
    <3>3. status' = status
      BY <2>1 DEF orderVars
    <3>4. QED
      BY <2>9, <3>1, <3>2, <3>3 DEF JobsFit
  <2>11. OneLocker'
    BY <2>7, <2>9 DEF Inv, OneLocker, At
  <2>12. LockedFirst' /\ Fresh'
    <3>1. UNCHANGED <<status, outcome>>
      BY <2>1 DEF orderVars
    <3>2. QED
      BY <1>1, <2>1, <3>1 DEF Inv, LockedFirst, Fresh
  <2>13. TypeOK'
    BY <1>1, <2>1, <2>4, <2>5, <2>8 DEF Inv, TypeOK, orderVars, goodsVars
  <2>14. QED
    BY <2>5, <2>6, <2>10, <2>11, <2>12, <2>13 DEF Inv
<1>3. CASE ~(settled[u] >= Amount[o])
  <2>1. End(k) /\ UNCHANGED <<orderVars, goodsVars, moneyVars, faults>>
    BY <1>3 DEF LockFunds, moneyVars
  <2>2. QED
    BY <2>1, RowsStay, EndStep
<1>4. QED
  BY <1>2, <1>3

\* What is held for a user's wins is a natural number, so what is available is
\* no more than the balance.
LEMMA HoldsNat == ASSUME NEW u \in Users PROVE holds(u) \in Nat
<1> DEFINE f == [o \in Orders |->
                   IF Buyer[o] = u /\ o \notin locked THEN Amount[o] ELSE 0]
<1>1. \A o \in Orders : f[o] \in Nat
  BY AmountsAssumption
<1>2. IsFiniteSet(Orders)
  BY SetsAssumption
<1> HIDE DEF f
<1>3. Total(f, Orders) \in Nat
  BY <1>1, <1>2, TotalNat
<1>4. QED
  BY <1>3 DEF holds, f

\* Paying for a shipment, or finding that the money is not there.
LEMMA ChargeStep ==
  ASSUME Inv, NEW k \in Slots, ChargeShipping(k)
  PROVE  Inv'
<1>0. job[k] \in Jobs /\ Fits(job[k], status, locked) /\ job[k].todo \subseteq Errands
  BY JobKnows
<1>1. job[k].at = "charge" /\ job[k].parcel \in Shipments
  BY <1>0 DEF ChargeShipping, At, Fits, WithParcel
<1>2. StatusMoves /\ UNCHANGED <<orderVars, item, held, parcelOf, locked, outcome,
                                 escrow, buyback, faults>>
  BY NoMove DEF ChargeShipping, orderVars
<1>3. PICK u \in {Buyer[o] : o \in OrdersOf(job[k].todo)} :
        IF available(u) >= ShipFee
        THEN /\ settled' = [settled EXCEPT ![u] = @ - ShipFee]
             /\ fees' = fees + ShipFee
             /\ GoTo(k, "paid")
             /\ UNCHANGED shipment
        ELSE /\ shipment' = [shipment EXCEPT ![job[k].parcel] = "NONE"]
             /\ End(k)
             /\ UNCHANGED <<settled, fees>>
  BY DEF ChargeShipping
<1>4. u \in Users
  <2>1. \A o \in OrdersOf(job[k].todo) : o \in Orders
    BY <1>0 DEF OrdersOf, Errands
  <2>2. QED
    BY <1>3, <2>1, SetsAssumption
<1>5. CASE available(u) >= ShipFee
  <2>1. /\ settled' = [settled EXCEPT ![u] = settled[u] - ShipFee]
        /\ fees' = fees + ShipFee
        /\ GoTo(k, "paid")
        /\ UNCHANGED shipment
    BY <1>3, <1>5
  <2>2. ShipFee \in Nat /\ settled[u] \in Nat /\ fees \in Nat /\ buyback \in Nat
        /\ escrow \in Nat
    BY <1>4, AmountsAssumption DEF Inv, TypeOK
  <2>3. settled[u] - ShipFee \in Nat
    BY <1>4, <1>5, <2>2, HoldsNat DEF available
  <2>4. /\ settled' \in [Users -> Nat] /\ Total(settled, Users) \in Nat
        /\ Total(settled', Users) = Total(settled, Users) - ShipFee
    <3>1. settled[u] + (-ShipFee) = settled[u] - ShipFee /\ -ShipFee \in Int
      BY <2>2
    <3>2. /\ settled' \in [Users -> Nat] /\ Total(settled, Users) \in Nat
          /\ Total(settled', Users) = Total(settled, Users) + (-ShipFee)
      BY <1>4, <2>1, <2>3, <3>1, SettledMoves
    <3>3. QED
      BY <2>2, <3>2
  <2>5. MoneyConserved' /\ fees' \in Nat
    <3>1. Total(settled, Users) + escrow + buyback + fees = Total(Funds, Users)
      BY DEF Inv, MoneyConserved
    <3>2. /\ Total(settled', Users) + escrow' + buyback' + fees' = Total(Funds, Users)
          /\ fees' \in Nat
      BY <1>2, <2>1, <2>2, <2>4, <3>1
    <3>3. QED
      BY <3>2 DEF MoneyConserved
  <2>6. EscrowBacked' /\ LockedFirst' /\ Fresh'
    BY <1>2 DEF Inv, EscrowBacked, InEscrow, LockedFirst, Fresh, orderVars
  <2>7. PICK j \in Jobs : /\ Becomes(k, j) /\ j.at = "paid"
                          /\ j.parcel = job[k].parcel
    BY <2>1, GoToJob DEF Labels
  <2>8. Fits(j, status, locked)
    BY <1>1, <2>7 DEF Fits, WithOrder, PayLabels, Funded, WithParcel, Moves, Timers
  <2>9. job' \in [Slots -> Jobs] /\ JobsFit' /\ OneLocker'
    BY <1>2, <2>7, <2>8, JobsKeep
  <2>10. TypeOK'
    BY <1>2, <2>1, <2>4, <2>5, <2>9 DEF Inv, TypeOK, orderVars
  <2>11. QED
    BY <2>5, <2>6, <2>9, <2>10 DEF Inv
<1>6. CASE ~(available(u) >= ShipFee)
  <2>1. /\ shipment' = [shipment EXCEPT ![job[k].parcel] = "NONE"]
        /\ End(k)
        /\ UNCHANGED moneyVars
    BY <1>2, <1>3, <1>6 DEF moneyVars
  <2>2. RowsOK'
    BY <1>1, <1>2, <2>1 DEF Inv, TypeOK, RowsOK, ShipmentStatus, orderVars
  <2>3. QED
    BY <1>2, <2>1, <2>2, EndStep
<1>7. QED
  BY <1>5, <1>6

\* Where a handler goes on after the money fits what it has in memory.
LEMMA AfterPayJob ==
  ASSUME Inv, NEW k \in Slots, MoveMoney(k)
  PROVE  \E j \in Jobs : Becomes(k, j) /\ j.at # "lock" /\ Fits(j, status, locked)
<1> DEFINE next == AfterPay[job[k].at]
<1>0. job[k] \in Jobs /\ Fits(job[k], status, locked)
  BY JobKnows
<1>1. /\ job[k].at \in PayLabels
      /\ CASE next = "idle" -> End(k)
           [] next \in {"recover", "release"} -> Loop(k, next)
           [] OTHER -> GoTo(k, next)
  <2>1. DOMAIN AfterPay = PayLabels
    BY DEF AfterPay, PayLabels
  <2>2. QED
    BY <2>1 DEF MoveMoney
<1>2. /\ job[k].at = "pay"        => next = "idle"
      /\ job[k].at = "payDiscard" => next = "discard"
      /\ job[k].at = "payRecover" => next = "recover"
      /\ job[k].at = "payRelease" => next = "release"
      /\ job[k].at = "payCancel"  => next = "refunded"
      /\ job[k].at = "payForfeit" => next = "forfeitedItem"
  BY DEF AfterPay
<1> HIDE DEF next
<1>3. CASE job[k].at = "pay"
  BY <1>1, <1>2, <1>3, EndJob
<1>4. CASE job[k].at \in {"payRecover", "payRelease"}
  <2>1. Loop(k, next) /\ next \in {"recover", "release"} /\ next \in Labels
    BY <1>1, <1>2, <1>4 DEF Labels
  <2>2. PICK j \in Jobs : Becomes(k, j) /\ j.at = next /\ j.todo = job[k].todo
    BY <2>1, LoopJob
  <2>3. Fits(j, status, locked)
    BY <1>0, <1>2, <1>4, <2>2
    DEF Fits, WithOrder, PayLabels, Funded, WithParcel, Moves, Timers
  <2>4. QED
    BY <2>1, <2>2, <2>3
<1>5. CASE job[k].at \in {"payDiscard", "payCancel", "payForfeit"}
  <2>1. /\ GoTo(k, next) /\ next \in {"discard", "refunded", "forfeitedItem"}
        /\ next \in Labels
    BY <1>1, <1>2, <1>5 DEF Labels
  <2>2. PICK j \in Jobs : /\ Becomes(k, j) /\ j.at = next /\ j.todo = job[k].todo
                          /\ j.order = job[k].order
    BY <2>1, GoToJob
  <2>3. Fits(j, status, locked)
    BY <1>0, <1>2, <1>5, <2>2
    DEF Fits, WithOrder, PayLabels, Funded, WithParcel, Moves, Timers
  <2>4. QED
    BY <2>1, <2>2, <2>3
<1>6. QED
  BY <1>1, <1>3, <1>4, <1>5 DEF PayLabels

\* Paying out of escrow: the first move of an order takes its price out of
\* what escrow holds and hands it on without losing a cent.
LEMMA MoveMoneyStep ==
  ASSUME Inv, NEW k \in Slots, MoveMoney(k)
  PROVE  Inv'
<1> DEFINE o == job[k].order
           task == job[k].task
<1>0. /\ o \in Orders /\ o \in locked /\ task \in {"release", "refund"}
  <2>1. job[k].at \in PayLabels /\ Fits(job[k], status, locked)
    <3>1. DOMAIN AfterPay = PayLabels
      BY DEF AfterPay, PayLabels
    <3>2. QED
      BY <3>1, JobKnows DEF MoveMoney
  <2>2. QED
    BY <2>1 DEF Fits, WithOrder, Funded
<1>1. PICK j \in Jobs : Becomes(k, j) /\ j.at # "lock" /\ Fits(j, status, locked)
  BY AfterPayJob
<1>2. UNCHANGED <<orderVars, goodsVars, faults>> /\ StatusMoves
  BY NoMove DEF MoveMoney, orderVars
<1>3. CASE UNCHANGED moneyVars
  BY <1>1, <1>2, <1>3, ReadStep
<1>4. CASE FirstMove(o, task) /\ ~UNCHANGED moneyVars
  <2>1. /\ outcome[o] = "none"
        /\ outcome' = [outcome EXCEPT ![o] = task]
        /\ escrow' = escrow - Amount[o]
        /\ locked' = locked
    BY <1>4 DEF MoveMoney, FirstMove
  <2>2. EscrowBacked' /\ escrow' \in Nat /\ escrow \in Nat
    <3>1. \A p \in Orders \ {o} : InEscrow(p)' <=> InEscrow(p)
      BY <2>1 DEF Inv, TypeOK, InEscrow
    <3>2. Owed[o] = Amount[o] /\ Owed'[o] = 0
      <4>1. outcome'[o] = task /\ task # "none"
        BY <1>0, <2>1 DEF Inv, TypeOK
      <4>2. QED
        BY <1>0, <2>1, <4>1 DEF Owed, InEscrow
    <3>3. /\ escrow \in Nat /\ Owed[o] <= escrow
          /\ Total(Owed', Orders) = escrow - Owed[o] + Owed'[o]
      BY <1>0, <3>1, OwedMoves
    <3>4. Amount[o] \in Nat
      BY <1>0, Shares
    <3>5. escrow' = Total(Owed', Orders) /\ escrow' \in Nat /\ escrow \in Nat
      BY <2>1, <3>2, <3>3, <3>4
    <3>6. QED
      BY <3>5 DEF EscrowBacked, Owed
  <2>3. /\ Amount[o] \in Nat /\ Proceeds(Amount[o]) \in Nat
        /\ BuybackFee(Amount[o]) \in Nat /\ PlatformFee(Amount[o]) \in Nat
        /\ Proceeds(Amount[o]) + BuybackFee(Amount[o]) + PlatformFee(Amount[o])
             = Amount[o]
        /\ buyback \in Nat /\ fees \in Nat
    BY <1>0, Shares DEF Inv, TypeOK
  <2>4. /\ settled' \in [Users -> Nat] /\ buyback' \in Nat /\ fees' \in Nat
        /\ MoneyConserved'
    <3> DEFINE pays == Proceeds(Amount[o])
               bb == BuybackFee(Amount[o])
               pf == PlatformFee(Amount[o])
    <3>1. Total(settled, Users) + escrow + buyback + fees = Total(Funds, Users)
      BY DEF Inv, MoneyConserved
    <3>2. CASE task = "release"
      <4>1. /\ settled' = [settled EXCEPT ![Seller[o]] = settled[Seller[o]] + pays]
            /\ buyback' = buyback + bb
            /\ fees' = fees + pf
        BY <1>4, <3>2 DEF MoveMoney
      <4>2. Seller[o] \in Users /\ settled[Seller[o]] \in Nat
        BY <1>0, SetsAssumption DEF Inv, TypeOK
      <4> HIDE DEF pays, bb, pf
      <4>3. /\ pays \in Nat /\ bb \in Nat /\ pf \in Nat /\ pays + bb + pf = Amount[o]
        BY <2>3 DEF pays, bb, pf
      <4>4. /\ settled' \in [Users -> Nat] /\ Total(settled, Users) \in Nat
            /\ Total(settled', Users) = Total(settled, Users) + pays
        <5>1. settled[Seller[o]] + pays \in Nat /\ pays \in Int
          BY <4>2, <4>3
        <5>2. QED
          BY <4>1, <4>2, <5>1, SettledMoves
      <4>5. /\ Total(settled', Users) + escrow' + buyback' + fees' = Total(Funds, Users)
            /\ buyback' \in Nat /\ fees' \in Nat
        BY <2>1, <2>2, <2>3, <3>1, <4>1, <4>3, <4>4
      <4>6. QED
        BY <4>4, <4>5 DEF MoneyConserved
    <3>3. CASE task = "refund"
      <4>1. /\ settled' = [settled EXCEPT ![Buyer[o]] = settled[Buyer[o]] + Amount[o]]
            /\ UNCHANGED <<buyback, fees>>
        BY <1>4, <3>3 DEF MoveMoney
      <4>2. Buyer[o] \in Users /\ settled[Buyer[o]] \in Nat
        BY <1>0, SetsAssumption DEF Inv, TypeOK
      <4>3. /\ settled' \in [Users -> Nat] /\ Total(settled, Users) \in Nat
            /\ Total(settled', Users) = Total(settled, Users) + Amount[o]
        <5>1. settled[Buyer[o]] + Amount[o] \in Nat /\ Amount[o] \in Int
          BY <2>3, <4>2
        <5>2. QED
          BY <4>1, <4>2, <5>1, SettledMoves
      <4>4. /\ Total(settled', Users) + escrow' + buyback' + fees' = Total(Funds, Users)
            /\ buyback' \in Nat /\ fees' \in Nat
        BY <2>1, <2>2, <2>3, <3>1, <4>1, <4>3
      <4>5. QED
        BY <4>3, <4>4 DEF MoneyConserved
    <3>4. QED
      BY <1>0, <3>2, <3>3
  <2>5. outcome' \in [Orders -> {"none", "release", "refund"}]
    BY <1>0, <2>1 DEF Inv, TypeOK
  <2>6. LockedFirst' /\ Fresh'
    <3>1. status' = status
      BY <1>2 DEF orderVars
    <3>2. \A p \in Orders : p # o => outcome'[p] = outcome[p]
      BY <2>1 DEF Inv, TypeOK
    <3>3. QED
      BY <1>0, <2>1, <3>1, <3>2 DEF Inv, LockedFirst, Fresh
  <2>7. job' \in [Slots -> Jobs] /\ JobsFit' /\ OneLocker'
    BY <1>1, <1>2, <2>1, JobsKeep
  <2>8. TypeOK'
    BY <1>2, <2>1, <2>2, <2>4, <2>5, <2>7 DEF Inv, TypeOK, orderVars, goodsVars
  <2>9. QED
    BY <2>2, <2>4, <2>6, <2>7, <2>8 DEF Inv
<1>5. QED
  BY <1>3, <1>4 DEF MoveMoney

\* Time and faults move no money and write no status.
LEMMA TimeStep ==
  ASSUME Inv, NEW o \in Orders, TimePasses(o) \/ DayPasses(o)
  PROVE  Inv'
<1>1. UNCHANGED <<kind, status, item, parcelOf, shipment, moneyVars, job, faults>>
  BY DEF TimePasses, DeadlinePasses, WindowCloses, HoldExpires, DayPasses, orderVars,
         goodsVars
<1>2. /\ deadline' \in [Orders -> {"none", "running", "past"}]
      /\ window' \in [Orders -> {"none", "open", "past"}]
      /\ recent' \in [Orders -> BOOLEAN]
      /\ held' \in [Orders -> {"running", "past"}]
  <2>1. CASE DeadlinePasses(o)
    BY <2>1 DEF DeadlinePasses, Inv, TypeOK, goodsVars
  <2>2. CASE WindowCloses(o)
    BY <2>2 DEF WindowCloses, Inv, TypeOK, goodsVars
  <2>3. CASE HoldExpires(o)
    BY <2>3 DEF HoldExpires, Inv, TypeOK, orderVars
  <2>4. CASE DayPasses(o)
    BY <2>4 DEF DayPasses, Inv, TypeOK, goodsVars
  <2>5. QED
    BY <2>1, <2>2, <2>3, <2>4 DEF TimePasses
<1>3. TypeOK'
  BY <1>1, <1>2 DEF Inv, TypeOK, moneyVars
<1>4. EscrowBacked' /\ MoneyConserved' /\ LockedFirst' /\ Fresh'
  BY <1>1 DEF Inv, EscrowBacked, InEscrow, MoneyConserved, LockedFirst, Fresh, moneyVars
<1>5. JobsFit' /\ OneLocker'
  BY <1>1 DEF Inv, JobsFit, OneLocker, At, moneyVars
<1>6. QED
  BY <1>3, <1>4, <1>5 DEF Inv

\* A handler that is cut off leaves an idle slot.
LEMMA FaultStep ==
  ASSUME Inv, NEW K, Fault(K)
  PROVE  Inv'
<1>1. /\ UNCHANGED <<orderVars, goodsVars, moneyVars>> /\ faults' \in Nat
      /\ job' = [k \in Slots |-> IF k \in K THEN Idle ELSE job[k]]
  BY DEF Fault, Inv, TypeOK
<1>2. job' \in [Slots -> Jobs]
  BY <1>1, IdleJob DEF Inv, TypeOK
<1>3. TypeOK'
  BY <1>1, <1>2 DEF Inv, TypeOK, orderVars, goodsVars, moneyVars
<1>4. EscrowBacked' /\ MoneyConserved' /\ LockedFirst' /\ Fresh'
  BY <1>1 DEF Inv, EscrowBacked, InEscrow, MoneyConserved, LockedFirst, Fresh,
              orderVars, moneyVars
<1>5. JobsFit'
  <2>1. Fits(Idle, status, locked)
    BY IdleJob DEF Fits, WithOrder, PayLabels, Funded, WithParcel, Moves, Timers
  <2>2. status' = status /\ locked' = locked
    BY <1>1 DEF orderVars, moneyVars
  <2>3. QED
    BY <1>1, <2>1, <2>2 DEF Inv, JobsFit
<1>6. OneLocker'
  BY <1>1, IdleJob DEF Inv, OneLocker, At
<1>7. QED
  BY <1>3, <1>4, <1>5, <1>6 DEF Inv

-----------------------------------------------------------------------------
(* The theorems.                                                           *)

\* Nothing is sold yet, and escrow is empty.
LEMMA InvInit == Init => Inv
<1> SUFFICES ASSUME Init PROVE Inv
  OBVIOUS
<1> USE DEF Init
<1>1. TypeOK
  <2>1. settled \in [Users -> Nat]
    BY AmountsAssumption
  <2>2. job \in [Slots -> Jobs]
    BY IdleJob
  <2>3. escrow \in Nat /\ buyback \in Nat /\ fees \in Nat /\ faults \in Nat
    OBVIOUS
  <2>4. QED
    BY <2>1, <2>2, <2>3 DEF TypeOK, OrderStatus, ItemStatus, ShipmentStatus
<1>2. EscrowBacked
  <2>1. [o \in Orders |-> IF InEscrow(o) THEN Amount[o] ELSE 0] = [o \in Orders |-> 0]
    BY DEF InEscrow
  <2>2. IsFiniteSet(Orders)
    BY SetsAssumption
  <2>3. Total([o \in Orders |-> 0], Orders) = 0
    BY <2>2, TotalZero
  <2>4. QED
    BY <2>1, <2>3 DEF EscrowBacked
<1>3. MoneyConserved
  <2>1. Total(Funds, Users) \in Nat
    <3>1. IsFiniteSet(Users) /\ \A u \in Users : Funds[u] \in Nat
      BY SetsAssumption, AmountsAssumption
    <3>2. QED
      BY <3>1, TotalNat
  <2>2. settled = Funds /\ escrow = 0 /\ buyback = 0 /\ fees = 0
    OBVIOUS
  <2>3. QED
    BY <2>1, <2>2 DEF MoneyConserved
<1>4. LockedFirst /\ Fresh /\ OneLocker
  BY IdleJob DEF LockedFirst, Fresh, OneLocker, At
<1>5. JobsFit
  BY IdleJob DEF JobsFit, Fits, WithOrder, PayLabels, Funded, WithParcel, Moves, Timers
<1>6. QED
  BY <1>1, <1>2, <1>3, <1>4, <1>5 DEF Inv

\* Inv is inductive.
LEMMA InvStep == Inv /\ [Next]_vars => Inv'
<1> SUFFICES ASSUME Inv, [Next]_vars PROVE Inv'
  OBVIOUS
<1>1. ASSUME NEW k \in Slots, Request(k) PROVE Inv'
  BY <1>1, CreateOrderStep, HandStep, ShippingStep, CarryStep DEF Request
<1>2. ASSUME NEW k \in Slots, Step(k) PROVE Inv'
  BY <1>2, LockFundsStep, SettleStep, ShippingStep, ChargeStep, CarryStep, HandStep,
     MoveMoneyStep, TimerStep
  DEF Step, Settle, PayShipping
<1>3. ASSUME NEW k \in Slots, OrderTimer(k) \/ FulfillmentTimer(k) PROVE Inv'
  BY <1>3, TimerStep
<1>4. ASSUME NEW o \in Orders, TimePasses(o) \/ DayPasses(o) PROVE Inv'
  BY <1>4, TimeStep
<1>5. ASSUME NEW K, Fault(K) PROVE Inv'
  BY <1>5, FaultStep
<1>6. CASE UNCHANGED vars
  <2>1. UNCHANGED <<orderVars, goodsVars, moneyVars, job, faults>>
    BY <1>6 DEF vars
  <2>2. TypeOK'
    BY <2>1 DEF Inv, TypeOK, orderVars, goodsVars, moneyVars
  <2>3. EscrowBacked' /\ MoneyConserved' /\ LockedFirst' /\ Fresh'
    BY <2>1 DEF Inv, EscrowBacked, InEscrow, MoneyConserved, LockedFirst, Fresh,
                orderVars, moneyVars
  <2>4. JobsFit' /\ OneLocker'
    BY <2>1 DEF Inv, JobsFit, OneLocker, At, orderVars, moneyVars
  <2>5. QED
    BY <2>2, <2>3, <2>4 DEF Inv
<1>7. QED
  BY <1>1, <1>2, <1>3, <1>4, <1>5, <1>6 DEF Next

\* Inv holds in every reachable state.
THEOREM Invariance == Spec => []Inv
<1>1. QED
  BY InvInit, InvStep, PTL DEF Spec

\* Every variable keeps its type; neither a user nor the escrow account is ever
\* overdrawn (TypeOK).
THEOREM Typing == Spec => []TypeOK
<1>1. Inv => TypeOK
  BY DEF Inv
<1>2. QED
  BY <1>1, Invariance, PTL

\* Escrow holds exactly the prices of the orders that are locked and not paid
\* out (EscrowBacked).
THEOREM EscrowAlwaysBacked == Spec => []EscrowBacked
<1>1. Inv => EscrowBacked
  BY DEF Inv
<1>2. QED
  BY <1>1, Invariance, PTL

\* No step of any handler makes or loses a cent (MoneyConserved).
THEOREM MoneyAlwaysConserved == Spec => []MoneyConserved
<1>1. Inv => MoneyConserved
  BY DEF Inv
<1>2. QED
  BY <1>1, Invariance, PTL

\* An order is past settlement, or paid out, only if its funds were locked
\* (LockedFirst).
THEOREM FundsLockedFirst == Spec => []LockedFirst
<1>1. Inv => LockedFirst
  BY DEF Inv
<1>2. QED
  BY <1>1, Invariance, PTL

-----------------------------------------------------------------------------
(* Goods: nothing travels unpaid.                                          *)

\* The labels at which a handler is about to touch its parcel.
AtParcel == Moves \cup {"charge", "paid", "pack"}

\* A parcel is charged for while it is PENDING_PAYMENT, and packed and moved
\* after it was paid for.
ParcelsFit ==
  \A k \in Slots :
    /\ job[k].at \in Moves \cup {"pack"} => job[k].parcel \in PaidShipments
    /\ job[k].at \in {"charge", "paid"} =>
         job[k].parcel \in Shipments /\ shipment[job[k].parcel] = "PENDING_PAYMENT"

\* A parcel is charged for by the handler that opened it.
OneCharger ==
  \A k, h \in Slots :
    /\ job[k].at \in {"charge", "paid"} /\ job[h].at \in {"charge", "paid"}
    /\ job[k].parcel = job[h].parcel
    => k = h

\* Every item under way is in a paid shipment.
ItemsPaid ==
  \A o \in Orders :
    item[o] \in {"IN_SHIPMENT", "SHIPPED", "DELIVERED"} => parcelOf[o] \in PaidShipments

\* The handlers that have charged and not yet said so in the shipment's status.
Charged == {k \in Slots : job[k].at = "paid"}

ReleaseFees ==
  Total([o \in Orders |-> IF outcome[o] = "release" THEN PlatformFee(Amount[o]) ELSE 0],
        Orders)

\* The operator has a fee for each paid shipment, and for each such handler.
FeesCover ==
  /\ IsFiniteSet(PaidShipments) /\ IsFiniteSet(Charged)
  /\ fees >= ShipFee * (Cardinality(PaidShipments) + Cardinality(Charged)) + ReleaseFees

GoodsInv == ParcelsFit /\ OneCharger /\ ItemsPaid /\ FeesCover

\* Multiples of the fee.
LEMMA FeeSteps ==
  ASSUME NEW n \in Nat, NEW m \in Nat, n <= m
  PROVE  ShipFee * n \in Nat /\ ShipFee * n <= ShipFee * m
         /\ ShipFee * (n + 1) = ShipFee * n + ShipFee
<1>1. ShipFee \in Nat
  BY AmountsAssumption
<1>2. PICK d \in Nat : m = n + d
  <2>1. m - n \in Nat /\ m = n + (m - n)
    OBVIOUS
  <2>2. QED
    BY <2>1
<1>3. ShipFee * m = ShipFee * n + ShipFee * d
  BY <1>1, <1>2
<1>4. ShipFee * n \in Nat /\ ShipFee * d \in Nat
  BY <1>1
<1>5. ShipFee * (n + 1) = ShipFee * n + ShipFee
  BY <1>1
<1>6. QED
  BY <1>3, <1>4, <1>5

\* The fees of released orders are a natural number.
LEMMA ReleaseFeesNat ==
  ASSUME Inv
  PROVE  ReleaseFees \in Nat
<1> DEFINE f == [o \in Orders |->
                   IF outcome[o] = "release" THEN PlatformFee(Amount[o]) ELSE 0]
<1>1. \A o \in Orders : f[o] \in Nat
  BY Shares
<1>2. IsFiniteSet(Orders)
  BY SetsAssumption
<1>3. Total(f, Orders) \in Nat
  <2> HIDE DEF f
  <2> QED BY <1>1, <1>2, TotalNat
<1>4. QED
  BY <1>3 DEF ReleaseFees

\* Fees that cover what there was cover no more than that.
LEMMA FeesStay ==
  ASSUME Inv, FeesCover, fees' = fees, outcome' = outcome,
         IsFiniteSet(PaidShipments'), IsFiniteSet(Charged'),
         Cardinality(PaidShipments') + Cardinality(Charged')
           <= Cardinality(PaidShipments) + Cardinality(Charged)
  PROVE  FeesCover'
<1> DEFINE n == Cardinality(PaidShipments') + Cardinality(Charged')
           m == Cardinality(PaidShipments) + Cardinality(Charged)
<1>1. n \in Nat /\ m \in Nat /\ n <= m
  BY FS_CardinalityType DEF FeesCover
<1>2. ReleaseFees' = ReleaseFees /\ ReleaseFees \in Nat /\ fees \in Nat
  BY ReleaseFeesNat DEF ReleaseFees, Inv, TypeOK
<1>3. fees >= ShipFee * m + ReleaseFees
  BY DEF FeesCover
<1>4. fees >= ShipFee * n + ReleaseFees
  <2> HIDE DEF n, m
  <2>1. ShipFee * n \in Nat /\ ShipFee * m \in Nat /\ ShipFee * n <= ShipFee * m
    BY <1>1, FeeSteps
  <2>2. QED
    BY <1>2, <1>3, <2>1
<1>5. QED
  BY <1>2, <1>4 DEF FeesCover

\* A step of one slot that leaves parcels and fees alone, and comes to none.
LEMMA GoodsRest ==
  ASSUME Inv, GoodsInv, NEW k \in Slots,
         job' = [job EXCEPT ![k] = job'[k]], job'[k].at \notin AtParcel,
         UNCHANGED <<parcelOf, shipment, fees, outcome>>,
         \A o \in Orders : item'[o] \in {item[o], "READY_TO_SHIP", "DISCARDED"}
  PROVE  GoodsInv'
<1>1. PaidShipments' = PaidShipments
  BY DEF PaidShipments
<1>2. job \in [Slots -> Jobs] /\ \A h \in Slots \ {k} : job'[h] = job[h]
  BY DEF Inv, TypeOK
<1>3. ParcelsFit'
  BY <1>1, <1>2 DEF GoodsInv, ParcelsFit, AtParcel
<1>4. OneCharger'
  BY <1>2 DEF GoodsInv, OneCharger, AtParcel
<1>5. ItemsPaid'
  BY <1>1 DEF GoodsInv, ItemsPaid
<1>6. FeesCover'
  <2>1. Charged' \subseteq Charged
    BY <1>2 DEF Charged, AtParcel
  <2>2. IsFiniteSet(Charged') /\ Cardinality(Charged') <= Cardinality(Charged)
    BY <2>1, FS_Subset DEF GoodsInv, FeesCover
  <2>3. /\ Cardinality(Charged') \in Nat /\ Cardinality(Charged) \in Nat
        /\ Cardinality(PaidShipments) \in Nat
    BY <2>2, FS_CardinalityType DEF GoodsInv, FeesCover
  <2>4. Cardinality(PaidShipments') + Cardinality(Charged')
          <= Cardinality(PaidShipments) + Cardinality(Charged)
    BY <1>1, <2>2, <2>3
  <2>5. QED
    BY <1>1, <2>2, <2>4, FeesStay DEF GoodsInv, FeesCover
<1>7. QED
  BY <1>3, <1>4, <1>5, <1>6 DEF GoodsInv

\* Where a slot is after each of the ways to move it.
Lands(k, at) == job' = [job EXCEPT ![k] = job'[k]] /\ job'[k].at = at

LEMMA Landings ==
  ASSUME Inv, NEW k \in Slots
  PROVE  /\ End(k) => Lands(k, "idle")
         /\ \A at \in Labels : GoTo(k, at) => Lands(k, at)
         /\ \A at \in Labels : Loop(k, at) => Lands(k, at)
         /\ \A at \in Labels : \A e : Take(k, e, at) => Lands(k, at)
         /\ \A e : Skip(k, e) => Lands(k, job[k].at)
         /\ \A at \in Labels : \A o, task : Begin(k, at, o, task) => Lands(k, at)
<1>1. job \in [Slots -> Jobs] /\ job[k] \in Jobs
  BY DEF Inv, TypeOK
<1>2. End(k) => Lands(k, "idle")
  BY <1>1, IdleJob DEF End, Lands
<1>3. ASSUME NEW at \in Labels
      PROVE  /\ GoTo(k, at) => Lands(k, at)
             /\ Loop(k, at) => Lands(k, at)
             /\ \A e : Take(k, e, at) => Lands(k, at)
  <2>1. ASSUME NEW j \in Jobs, job' = [job EXCEPT ![k] = j], j.at = at
        PROVE  Lands(k, at)
    BY <1>1, <2>1 DEF Lands
  <2>2. ASSUME GoTo(k, at) PROVE Lands(k, at)
    BY <2>1, <2>2, GoToJob DEF Becomes
  <2>3. ASSUME Loop(k, at) PROVE Lands(k, at)
    BY <2>1, <2>3, LoopJob DEF Becomes
  <2>4. ASSUME NEW e, Take(k, e, at) PROVE Lands(k, at)
    <3> DEFINE j == [job[k] EXCEPT !.at = at, !.todo = @ \ {e}, !.order = e[1], !.task = e[2]]
    <3>1. job' = [job EXCEPT ![k] = j] /\ j.at = at
      BY <1>1, <2>4 DEF Take, Jobs
    <3> HIDE DEF j
    <3>2. QED
      BY <1>1, <3>1 DEF Lands
  <2>5. QED
    BY <2>2, <2>3, <2>4
<1>4. ASSUME NEW e, Skip(k, e) PROVE Lands(k, job[k].at)
  BY <1>1, <1>4 DEF Skip, Lands, Jobs
<1>5. ASSUME NEW at \in Labels, NEW o, NEW task, Begin(k, at, o, task)
      PROVE  Lands(k, at)
  BY <1>1, <1>5 DEF Begin, Lands, Idle
<1>6. QED
  BY <1>2, <1>3, <1>4, <1>5

\* Nothing is shipped or charged, and the slot comes to no parcel.
CalmGoods ==
  /\ UNCHANGED <<parcelOf, shipment, fees, outcome>>
  /\ \A o \in Orders : item'[o] \in {item[o], "READY_TO_SHIP", "DISCARDED"}

Ashore(k) == \E at \in Labels \ AtParcel : Lands(k, at)

LEMMA GoodsCalm ==
  ASSUME Inv, GoodsInv, NEW k \in Slots, CalmGoods, Ashore(k)
  PROVE  GoodsInv'
BY GoodsRest DEF CalmGoods, Ashore, Lands

\* The labels that are not at a parcel.
LEMMA AshoreLabels ==
  \A at \in {"idle", "lock", "mark", "item", "prepay", "clock", "advance", "write",
             "dispute", "giveUp", "discard", "recover", "release", "cancel", "abandon",
             "refunded", "canceledItem", "forfeit", "forfeitedItem", "sweep", "sweptItem",
             "pay", "payDiscard", "payRecover", "payRelease", "payCancel", "payForfeit"} :
    at \in Labels \ AtParcel
BY DEF Labels, AtParcel, Moves

\* Items that are discarded, or left alone.
LEMMA DiscardCalm ==
  ASSUME Inv, NEW o, Discard(o) \/ DiscardReady(o), UNCHANGED <<parcelOf, shipment, fees, outcome>>
  PROVE  CalmGoods
<1>1. item \in [Orders -> ItemStatus]
  BY DEF Inv, TypeOK
<1>2. QED
  BY <1>1 DEF Discard, DiscardReady, CalmGoods

\* A list that is read is the list of a section.
LEMMA EnterAshore ==
  ASSUME Inv, NEW k \in Slots, NEW i \in Nat, i > 0, Enter(k, i)
  PROVE  Ashore(k)
<1>1. PICK h \in i..4 :
        job' = [job EXCEPT ![k] = [Idle EXCEPT !.at = Sections[h], !.todo = Listed(h)]]
  BY DEF Enter
<1>2. h \in 1..4 /\ Sections[h] \in {"recover", "release", "cancel", "abandon"}
  BY DEF Sections
<1> DEFINE j == [Idle EXCEPT !.at = Sections[h], !.todo = Listed(h)]
<1>3. j.at = Sections[h]
  BY DEF Idle
<1>4. job \in [Slots -> Jobs] /\ job' = [job EXCEPT ![k] = j]
  BY <1>1 DEF Inv, TypeOK
<1> HIDE DEF j
<1>5. Lands(k, Sections[h])
  BY <1>3, <1>4 DEF Lands
<1>6. QED
  BY <1>2, <1>5, AshoreLabels DEF Ashore

\* A claim goes on to the money, or to where the loser goes.
LEMMA ClaimAshore ==
  ASSUME Inv, NEW k \in Slots, NEW o, NEW from, NEW to,
         NEW won \in Labels \ AtParcel, NEW lost \in Labels \ AtParcel,
         Claim(k, o, from, to, won, lost)
  PROVE  Ashore(k)
BY Landings, AshoreLabels DEF Claim, Ashore

LEMMA ClaimListedAshore ==
  ASSUME Inv, NEW k \in Slots, NEW section \in Labels \ AtParcel, NEW from, NEW to,
         NEW won \in Labels \ AtParcel, ClaimListed(k, section, from, to, won)
  PROVE  CalmGoods /\ Ashore(k)
<1>1. CalmGoods
  BY DEF ClaimListed, CalmGoods, goodsVars, moneyVars
<1>2. Ashore(k)
  BY Landings DEF ClaimListed, Ashore, At
<1>3. QED
  BY <1>1, <1>2

\* Handlers of requests and settlements that touch no parcel.
LEMMA CalmHandlers ==
  ASSUME Inv, GoodsInv, NEW k \in Slots,
         \/ \E o \in Orders :
              \/ CreateOrder(k, o)
              \/ \E goal \in {"SHIPPED", "DISPUTE_WINDOW"} : MarkByHand(k, o, goal)
              \/ OpenDispute(k, o)
              \/ \E task \in {"release", "refund"} : ResolveDispute(k, o, task)
              \/ ReleaseNow(k, o)
              \/ GiveUp(k, o)
         \/ LockFunds(k) \/ MarkLocked(k) \/ CreateItem(k) \/ ReleaseNft(k)
         \/ StartSellerShipClock(k) \/ AdvanceRead(k) \/ AdvanceWrite(k)
         \/ ClaimDispute(k) \/ ClaimGivenUp(k) \/ DiscardItem(k)
  PROVE  GoodsInv'
<1> USE AshoreLabels
<1>0. job \in [Slots -> Jobs] /\ job[k] \in Jobs /\ item \in [Orders -> ItemStatus]
  BY DEF Inv, TypeOK
<1>1. ASSUME NEW o \in Orders,
             \/ CreateOrder(k, o)
             \/ \E goal \in {"SHIPPED", "DISPUTE_WINDOW"} : MarkByHand(k, o, goal)
             \/ OpenDispute(k, o)
             \/ \E task \in {"release", "refund"} : ResolveDispute(k, o, task)
             \/ ReleaseNow(k, o)
             \/ GiveUp(k, o)
      PROVE  GoodsInv'
  <2>1. CalmGoods
    BY <1>1 DEF CreateOrder, MarkByHand, OpenDispute, ResolveDispute, ReleaseNow, GiveUp,
       CalmGoods, goodsVars, moneyVars
  <2>2. \E at \in Labels \ AtParcel : \E task : Begin(k, at, o, task)
    BY <1>1 DEF CreateOrder, MarkByHand, OpenDispute, ResolveDispute, ReleaseNow, GiveUp
  <2>3. Ashore(k)
    BY <2>2, Landings DEF Ashore
  <2>4. QED
    BY <2>1, <2>3, GoodsCalm
<1>2. CASE LockFunds(k) \/ MarkLocked(k)
  <2>1. CalmGoods
    <3>1. CASE LockFunds(k)
      <4>1. fees' = fees /\ outcome' = outcome /\ UNCHANGED goodsVars
        BY <3>1 DEF LockFunds
      <4>2. QED
        BY <4>1 DEF CalmGoods, goodsVars
    <3>2. CASE MarkLocked(k)
      BY <3>2 DEF MarkLocked, CalmGoods, goodsVars, moneyVars
    <3>3. QED
      BY <1>2, <3>1, <3>2
  <2>2. Ashore(k)
    BY <1>2, Landings DEF LockFunds, MarkLocked, Ashore
  <2>3. QED
    BY <2>1, <2>2, GoodsCalm
<1>3. CASE CreateItem(k)
  <2>1. CalmGoods
    BY <1>0, <1>3 DEF CreateItem, CalmGoods, moneyVars
  <2>2. Ashore(k)
    BY <1>3, Landings DEF CreateItem, Ashore
  <2>3. QED
    BY <2>1, <2>2, GoodsCalm
<1>4. CASE ReleaseNft(k)
  <2>1. CalmGoods
    BY <1>4 DEF ReleaseNft, CalmGoods, goodsVars, moneyVars
  <2>2. Ashore(k)
    <3> DEFINE j == [job[k] EXCEPT !.at = "pay", !.task = "release"]
    <3>1. End(k) \/ job' = [job EXCEPT ![k] = j]
      BY <1>4 DEF ReleaseNft
    <3>2. j.at = "pay"
      BY <1>0 DEF Jobs
    <3> HIDE DEF j
    <3>3. End(k) \/ Lands(k, "pay")
      BY <1>0, <3>1, <3>2 DEF Lands
    <3>4. QED
      BY <3>3, Landings DEF Ashore
  <2>3. QED
    BY <2>1, <2>2, GoodsCalm
<1>5. CASE StartSellerShipClock(k) \/ AdvanceRead(k) \/ AdvanceWrite(k)
  <2>1. CalmGoods
    BY <1>5 DEF StartSellerShipClock, AdvanceRead, AdvanceWrite, CalmGoods, goodsVars,
       moneyVars
  <2>2. Ashore(k)
    BY <1>5, Landings DEF StartSellerShipClock, AdvanceRead, AdvanceWrite, Ashore, At
  <2>3. QED
    BY <2>1, <2>2, GoodsCalm
<1>6. CASE ClaimDispute(k) \/ ClaimGivenUp(k)
  <2>1. CalmGoods
    BY <1>6 DEF ClaimDispute, ClaimGivenUp, CalmGoods, goodsVars, moneyVars
  <2>2. Ashore(k)
    BY <1>6, Landings, ClaimAshore DEF ClaimDispute, ClaimGivenUp, Ashore
  <2>3. QED
    BY <2>1, <2>2, GoodsCalm
<1>7. CASE DiscardItem(k)
  <2>1. CalmGoods
    BY <1>7, DiscardCalm DEF DiscardItem, moneyVars
  <2>2. Ashore(k)
    BY <1>7, Landings DEF DiscardItem, Ashore
  <2>3. QED
    BY <2>1, <2>2, GoodsCalm
<1>8. QED
  BY <1>1, <1>2, <1>3, <1>4, <1>5, <1>6, <1>7

\* Timers touch no parcel.
LEMMA CalmTimers ==
  ASSUME Inv, GoodsInv, NEW k \in Slots,
         OrderTimer(k) \/ FulfillmentTimer(k) \/ RunTimer(k)
  PROVE  GoodsInv'
<1> USE AshoreLabels
<1>0. job \in [Slots -> Jobs] /\ job[k] \in Jobs
  BY DEF Inv, TypeOK
<1>1. CASE OrderTimer(k) \/ NextSection(k)
  <2>1. CalmGoods
    BY <1>1 DEF OrderTimer, NextSection, CalmGoods, goodsVars, moneyVars
  <2>2. Ashore(k)
    <3>1. \/ Enter(k, 1) \/ End(k)
          \/ \E i \in 1..4 : Enter(k, i + 1)
      BY <1>1 DEF OrderTimer, NextSection
    <3>2. ASSUME NEW i \in 1..4, Enter(k, i + 1) PROVE Ashore(k)
      BY <3>2, EnterAshore
    <3>3. QED
      BY <3>1, <3>2, EnterAshore, Landings DEF Ashore
  <2>3. QED
    BY <2>1, <2>2, GoodsCalm
<1>2. CASE FulfillmentTimer(k)
  <2>1. CalmGoods
    BY <1>2 DEF FulfillmentTimer, CalmGoods, goodsVars, moneyVars
  <2>2. Ashore(k)
    <3> DEFINE j == [Idle EXCEPT !.at = "sweep", !.todo = Listed(4)]
    <3>1. job' = [job EXCEPT ![k] = j] /\ j.at = "sweep"
      BY <1>2 DEF FulfillmentTimer, Idle
    <3> HIDE DEF j
    <3>2. Lands(k, "sweep")
      BY <1>0, <3>1 DEF Lands
    <3>3. QED
      BY <3>2 DEF Ashore
  <2>3. QED
    BY <2>1, <2>2, GoodsCalm
<1>3. CASE Recover(k) \/ MarkRefunded(k) \/ CheckAbandoned(k) \/ Sweep(k)
  <2>1. CalmGoods
    BY <1>3 DEF Recover, MarkRefunded, CheckAbandoned, Sweep, CalmGoods, goodsVars, moneyVars
  <2>2. Ashore(k)
    BY <1>3, Landings DEF Recover, MarkRefunded, CheckAbandoned, Sweep, Ashore, At
  <2>3. QED
    BY <2>1, <2>2, GoodsCalm
<1>4. CASE ReleaseDue(k) \/ CancelDue(k)
  BY <1>4, ClaimListedAshore, GoodsCalm DEF ReleaseDue, CancelDue
<1>5. CASE DiscardCanceled(k) \/ DiscardForfeited(k) \/ DiscardSwept(k)
  <2>1. CalmGoods
    BY <1>5, DiscardCalm DEF DiscardCanceled, DiscardForfeited, DiscardSwept, moneyVars
  <2>2. Ashore(k)
    BY <1>5, Landings DEF DiscardCanceled, DiscardForfeited, DiscardSwept, Ashore
  <2>3. QED
    BY <2>1, <2>2, GoodsCalm
<1>6. CASE ForfeitOrder(k)
  <2>1. CalmGoods
    BY <1>6 DEF ForfeitOrder, CalmGoods, goodsVars, moneyVars
  <2>2. Ashore(k)
    BY <1>6, ClaimAshore DEF ForfeitOrder
  <2>3. QED
    BY <2>1, <2>2, GoodsCalm
<1>7. QED
  BY <1>1, <1>2, <1>3, <1>4, <1>5, <1>6 DEF RunTimer

\* A step of one slot that ships nothing unpaid and keeps fees as they must be:
\* what is left to show of it.
LEMMA ParcelStep ==
  ASSUME Inv, GoodsInv, NEW k \in Slots,
         job' = [job EXCEPT ![k] = job'[k]],
         PaidShipments \subseteq PaidShipments',
         \A h \in Slots \ {k} : job[h].at \in {"charge", "paid"} =>
           /\ shipment'[job[h].parcel] = shipment[job[h].parcel]
           /\ job'[k].at \in {"charge", "paid"} => job'[k].parcel # job[h].parcel,
         job'[k].at \in Moves \cup {"pack"} => job'[k].parcel \in PaidShipments',
         job'[k].at \in {"charge", "paid"} =>
           job'[k].parcel \in Shipments /\ shipment'[job'[k].parcel] = "PENDING_PAYMENT"
  PROVE  ParcelsFit' /\ OneCharger'
<1>1. job \in [Slots -> Jobs] /\ \A h \in Slots \ {k} : job'[h] = job[h]
  BY DEF Inv, TypeOK
<1>2. ParcelsFit'
  <2>1. ASSUME NEW h \in Slots
        PROVE  /\ job'[h].at \in Moves \cup {"pack"} => job'[h].parcel \in PaidShipments'
               /\ job'[h].at \in {"charge", "paid"} =>
                    /\ job'[h].parcel \in Shipments
                    /\ shipment'[job'[h].parcel] = "PENDING_PAYMENT"
    <3>1. CASE h = k
      BY <3>1
    <3>2. CASE h # k
      BY <1>1, <3>2 DEF GoodsInv, ParcelsFit
    <3>3. QED
      BY <3>1, <3>2
  <2>2. QED
    BY <2>1 DEF ParcelsFit
<1>3. OneCharger'
  <2>1. ASSUME NEW i \in Slots, NEW h \in Slots,
               job'[i].at \in {"charge", "paid"}, job'[h].at \in {"charge", "paid"},
               job'[i].parcel = job'[h].parcel
        PROVE  i = h
    <3>1. CASE i # k /\ h # k
      BY <1>1, <2>1, <3>1 DEF GoodsInv, OneCharger
    <3>2. CASE i = k /\ h # k
      BY <1>1, <2>1, <3>2
    <3>3. CASE i # k /\ h = k
      BY <1>1, <2>1, <3>3
    <3>4. QED
      BY <3>1, <3>2, <3>3
  <2>2. QED
    BY <2>1 DEF OneCharger
<1>4. QED
  BY <1>2, <1>3

\* A shipment that is opened is nobody else's, and is owed for.
LEMMA OpenKeepsGoods ==
  ASSUME Inv, GoodsInv, NEW k \in Slots, NEW O, NEW s \in Shipments, OpenShipment(k, O, s),
         job[k].at # "paid", UNCHANGED <<item, parcelOf, fees, outcome>>
  PROVE  GoodsInv'
<1> DEFINE j == [Idle EXCEPT !.at = "charge", !.todo = O \X {"pack"}, !.parcel = s]
<1>1. /\ job \in [Slots -> Jobs] /\ shipment \in [Shipments -> ShipmentStatus]
      /\ shipment[s] = "NONE" /\ shipment' = [shipment EXCEPT ![s] = "PENDING_PAYMENT"]
      /\ job' = [job EXCEPT ![k] = j]
  BY DEF OpenShipment, Inv, TypeOK
<1>2. j.at = "charge" /\ j.parcel = s
  BY DEF Idle
<1> HIDE DEF j
<1>3. job'[k] = j /\ \A h \in Slots \ {k} : job'[h] = job[h]
  BY <1>1
<1>4. PaidShipments' = PaidShipments
  BY <1>1 DEF PaidShipments
<1>5. \A h \in Slots \ {k} : job[h].at \in {"charge", "paid"} =>
        job[h].parcel # s /\ shipment'[job[h].parcel] = shipment[job[h].parcel]
  BY <1>1 DEF GoodsInv, ParcelsFit
<1>6. ParcelsFit' /\ OneCharger'
  <2>1. shipment'[s] = "PENDING_PAYMENT"
    BY <1>1
  <2>2. job'[k].at = "charge" /\ job'[k].parcel = s
    BY <1>2, <1>3
  <2>3. "charge" \notin Moves \cup {"pack"}
    BY DEF Moves
  <2>4. job' = [job EXCEPT ![k] = job'[k]]
    BY <1>1, <1>3
  <2>5. QED
    BY <1>4, <1>5, <2>1, <2>2, <2>3, <2>4, ParcelStep
<1>7. ItemsPaid'
  BY <1>4 DEF GoodsInv, ItemsPaid
<1>8. FeesCover'
  <2>1. Charged' = Charged
    BY <1>2, <1>3 DEF Charged
  <2>2. QED
    BY <1>4, <2>1 DEF GoodsInv, FeesCover, ReleaseFees
<1>9. QED
  BY <1>6, <1>7, <1>8 DEF GoodsInv

\* The fee is taken with the shipment still owed for, or there is no shipment.
LEMMA ChargeKeepsGoods ==
  ASSUME Inv, GoodsInv, NEW k \in Slots, ChargeShipping(k)
  PROVE  GoodsInv'
<1> DEFINE s == job[k].parcel
<1>1. /\ job \in [Slots -> Jobs] /\ job[k] \in Jobs
      /\ shipment \in [Shipments -> ShipmentStatus]
      /\ job[k].at = "charge" /\ s \in Shipments /\ shipment[s] = "PENDING_PAYMENT"
      /\ UNCHANGED <<item, parcelOf, outcome>>
  BY DEF ChargeShipping, At, Inv, TypeOK, GoodsInv, ParcelsFit
<1>2. \A h \in Slots \ {k} : job[h].at \in {"charge", "paid"} => job[h].parcel # s
  BY <1>1 DEF GoodsInv, OneCharger
<1>3. CASE fees' = fees + ShipFee /\ GoTo(k, "paid") /\ UNCHANGED shipment
  <2>1. PICK j \in Jobs : Becomes(k, j) /\ j.at = "paid" /\ j.parcel = s
    BY <1>3, GoToJob DEF Labels
  <2>2. job'[k] = j /\ \A h \in Slots \ {k} : job'[h] = job[h]
    BY <1>1, <2>1 DEF Becomes
  <2>3. PaidShipments' = PaidShipments
    BY <1>3 DEF PaidShipments
  <2>4. ParcelsFit' /\ OneCharger'
    <3>1. job' = [job EXCEPT ![k] = job'[k]] /\ job'[k].at = "paid" /\ job'[k].parcel = s
      BY <2>1, <2>2 DEF Becomes
    <3>2. "paid" \notin Moves \cup {"pack"}
      BY DEF Moves
    <3>3. QED
      BY <1>1, <1>2, <1>3, <2>3, <3>1, <3>2, ParcelStep
  <2>5. ItemsPaid'
    BY <1>1, <2>3 DEF GoodsInv, ItemsPaid
  <2>6. FeesCover'
    <3>1. Charged' = Charged \cup {k} /\ k \notin Charged
      BY <1>1, <2>1, <2>2 DEF Charged
    <3>2. /\ IsFiniteSet(Charged') /\ Cardinality(Charged') = Cardinality(Charged) + 1
          /\ Cardinality(Charged) \in Nat /\ Cardinality(PaidShipments) \in Nat
      BY <3>1, FS_AddElement, FS_CardinalityType DEF GoodsInv, FeesCover
    <3> DEFINE n == Cardinality(PaidShipments) + Cardinality(Charged)
    <3>3. n \in Nat /\ Cardinality(PaidShipments') + Cardinality(Charged') = n + 1
      BY <2>3, <3>2
    <3>4. ReleaseFees' = ReleaseFees /\ ReleaseFees \in Nat /\ fees \in Nat
      BY <1>1, ReleaseFeesNat DEF ReleaseFees, Inv, TypeOK
    <3>5. fees >= ShipFee * n + ReleaseFees
      BY DEF GoodsInv, FeesCover
    <3> HIDE DEF n
    <3>6. ShipFee \in Nat /\ ShipFee * n \in Nat /\ ShipFee * (n + 1) = ShipFee * n + ShipFee
      BY <3>3, FeeSteps, AmountsAssumption
    <3>7. fees' >= ShipFee * (n + 1) + ReleaseFees'
      BY <1>3, <3>4, <3>5, <3>6
    <3>8. QED
      BY <2>3, <3>2, <3>3, <3>7 DEF GoodsInv, FeesCover
  <2>7. QED
    BY <2>4, <2>5, <2>6 DEF GoodsInv
<1>4. CASE fees' = fees /\ End(k) /\ shipment' = [shipment EXCEPT ![s] = "NONE"]
  <2>1. job' = [job EXCEPT ![k] = job'[k]] /\ job'[k].at = "idle"
    BY <1>4, Landings DEF Lands
  <2>2. \A h \in Slots \ {k} : job'[h] = job[h]
    BY <1>1, <2>1
  <2>3. PaidShipments' = PaidShipments
    BY <1>1, <1>4 DEF PaidShipments
  <2>4. ParcelsFit' /\ OneCharger'
    <3>1. \A h \in Slots \ {k} : job[h].at \in {"charge", "paid"} =>
            shipment'[job[h].parcel] = shipment[job[h].parcel]
      BY <1>1, <1>2, <1>4 DEF GoodsInv, ParcelsFit
    <3>2. "idle" \notin Moves \cup {"pack"}
      BY DEF Moves
    <3>3. QED
      BY <2>1, <2>3, <3>1, <3>2, ParcelStep
  <2>5. ItemsPaid'
    BY <1>1, <2>3 DEF GoodsInv, ItemsPaid
  <2>6. FeesCover'
    <3>1. Charged' = Charged
      BY <1>1, <2>1, <2>2 DEF Charged
    <3>2. QED
      BY <1>1, <1>4, <2>3, <3>1 DEF GoodsInv, FeesCover, ReleaseFees
  <2>7. QED
    BY <2>4, <2>5, <2>6 DEF GoodsInv
<1>5. QED
  BY <1>3, <1>4 DEF ChargeShipping

\* The charged handler's fee becomes the shipment's.
LEMMA MarkPaidKeepsGoods ==
  ASSUME Inv, GoodsInv, NEW k \in Slots, MarkPaid(k)
  PROVE  GoodsInv'
<1> DEFINE s == job[k].parcel
<1>1. /\ job \in [Slots -> Jobs] /\ job[k] \in Jobs
      /\ shipment \in [Shipments -> ShipmentStatus]
      /\ job[k].at = "paid" /\ s \in Shipments /\ shipment[s] = "PENDING_PAYMENT"
      /\ shipment' = [shipment EXCEPT ![s] = "PAID"] /\ GoTo(k, "pack")
      /\ UNCHANGED <<item, parcelOf, fees, outcome>>
  BY DEF MarkPaid, At, Inv, TypeOK, GoodsInv, ParcelsFit, moneyVars
<1>2. \A h \in Slots \ {k} : job[h].at \in {"charge", "paid"} => job[h].parcel # s
  BY <1>1 DEF GoodsInv, OneCharger
<1>3. PICK j \in Jobs : Becomes(k, j) /\ j.at = "pack" /\ j.parcel = s
  BY <1>1, GoToJob DEF Labels
<1>4. job'[k] = j /\ \A h \in Slots \ {k} : job'[h] = job[h]
  BY <1>1, <1>3 DEF Becomes
<1>5. PaidShipments' = PaidShipments \cup {s} /\ s \notin PaidShipments
  BY <1>1 DEF PaidShipments
<1>6. ParcelsFit' /\ OneCharger'
  <2>1. job' = [job EXCEPT ![k] = job'[k]] /\ job'[k].at = "pack" /\ job'[k].parcel = s
    BY <1>3, <1>4 DEF Becomes
  <2>2. \A h \in Slots \ {k} : job[h].at \in {"charge", "paid"} =>
          shipment'[job[h].parcel] = shipment[job[h].parcel]
    BY <1>1, <1>2 DEF GoodsInv, ParcelsFit
  <2>3. QED
    BY <1>5, <2>1, <2>2, ParcelStep
<1>7. ItemsPaid'
  BY <1>1, <1>5 DEF GoodsInv, ItemsPaid
<1>8. FeesCover'
  <2>1. Charged' = Charged \ {k} /\ k \in Charged
    BY <1>1, <1>3, <1>4 DEF Charged
  <2>2. IsFiniteSet(PaidShipments) /\ IsFiniteSet(Charged)
    BY DEF GoodsInv, FeesCover
  <2>3. /\ IsFiniteSet(Charged') /\ Cardinality(Charged') = Cardinality(Charged) - 1
        /\ IsFiniteSet(PaidShipments')
        /\ Cardinality(PaidShipments') = Cardinality(PaidShipments) + 1
        /\ Cardinality(Charged) \in Nat /\ Cardinality(PaidShipments) \in Nat
    BY <1>5, <2>1, <2>2, FS_AddElement, FS_RemoveElement, FS_CardinalityType
  <2>4. Cardinality(PaidShipments') + Cardinality(Charged')
          <= Cardinality(PaidShipments) + Cardinality(Charged)
    BY <2>3
  <2>5. QED
    BY <1>1, <2>3, <2>4, FeesStay DEF GoodsInv
<1>9. QED
  BY <1>6, <1>7, <1>8 DEF GoodsInv

\* Items are packed into a paid shipment.
LEMMA PackKeepsGoods ==
  ASSUME Inv, GoodsInv, NEW k \in Slots, PackItems(k)
  PROVE  GoodsInv'
<1> DEFINE s == job[k].parcel
           O == OrdersOf(job[k].todo)
<1>1. /\ job \in [Slots -> Jobs] /\ job[k].at = "pack" /\ s \in PaidShipments
      /\ item' = [o \in Orders |-> IF o \in O THEN "IN_SHIPMENT" ELSE item[o]]
      /\ parcelOf' = [o \in Orders |-> IF o \in O THEN s ELSE parcelOf[o]]
      /\ GoTo(k, "clock") /\ UNCHANGED <<shipment, fees, outcome>>
  BY DEF PackItems, At, Inv, TypeOK, GoodsInv, ParcelsFit, moneyVars
<1>2. job' = [job EXCEPT ![k] = job'[k]] /\ job'[k].at = "clock"
  BY <1>1, Landings, AshoreLabels DEF Lands
<1>3. PaidShipments' = PaidShipments
  BY <1>1 DEF PaidShipments
<1>4. ParcelsFit' /\ OneCharger'
  <2>1. "clock" \notin Moves \cup {"pack"}
    BY DEF Moves
  <2>2. QED
    BY <1>1, <1>2, <1>3, <2>1, ParcelStep
<1>5. ItemsPaid'
  <2>1. \A o \in Orders : o \notin O => item'[o] = item[o] /\ parcelOf'[o] = parcelOf[o]
    BY <1>1
  <2>2. \A o \in Orders : o \in O => parcelOf'[o] = s
    BY <1>1
  <2> HIDE DEF s, O
  <2>3. QED
    BY <1>1, <1>3, <2>1, <2>2 DEF GoodsInv, ItemsPaid
<1>6. FeesCover'
  <2>1. Charged' = Charged
    BY <1>1, <1>2 DEF Charged
  <2>2. QED
    BY <1>1, <1>3, <2>1 DEF GoodsInv, FeesCover, ReleaseFees
<1>7. QED
  BY <1>4, <1>5, <1>6 DEF GoodsInv

\* A shipment that can be moved was paid for.
LEMMA ReadKeepsGoods ==
  ASSUME Inv, GoodsInv, NEW k \in Slots, NEW s \in Shipments, ReadShipment(k, s)
  PROVE  GoodsInv'
<1> DEFINE j == [Idle EXCEPT !.at = NextStatus[shipment[s]], !.parcel = s]
<1>1. /\ job \in [Slots -> Jobs] /\ job[k] = Idle
      /\ shipment[s] \in DOMAIN NextStatus /\ job' = [job EXCEPT ![k] = j]
      /\ UNCHANGED <<item, parcelOf, shipment, fees, outcome>>
  BY DEF ReadShipment, Free, Inv, TypeOK, goodsVars, moneyVars
<1>2. j.at \in Moves /\ j.parcel = s
  BY <1>1, NextLabels DEF Idle
<1>3. s \in PaidShipments
  BY <1>1 DEF PaidShipments, NextStatus
<1> HIDE DEF j
<1>4. job'[k] = j /\ \A h \in Slots \ {k} : job'[h] = job[h]
  BY <1>1
<1>5. PaidShipments' = PaidShipments
  BY <1>1 DEF PaidShipments
<1>6. ParcelsFit' /\ OneCharger'
  <2>1. job'[k].at \in Moves /\ job'[k].parcel = s /\ job' = [job EXCEPT ![k] = job'[k]]
    BY <1>1, <1>2, <1>4
  <2>2. job'[k].at \notin {"charge", "paid"}
    BY <2>1 DEF Moves
  <2>3. \A h \in Slots \ {k} : shipment'[job[h].parcel] = shipment[job[h].parcel]
    BY <1>1
  <2>4. job'[k].parcel \in PaidShipments' /\ PaidShipments \subseteq PaidShipments'
    BY <1>3, <1>5, <2>1
  <2>5. QED
    BY <2>1, <2>2, <2>3, <2>4, ParcelStep
<1>7. ItemsPaid'
  BY <1>1, <1>5 DEF GoodsInv, ItemsPaid
<1>8. FeesCover'
  <2>1. Charged' = Charged
    BY <1>1, <1>2, <1>4, IdleJob DEF Charged, Moves
  <2>2. QED
    BY <1>1, <1>5, <2>1 DEF GoodsInv, FeesCover, ReleaseFees
<1>9. QED
  BY <1>6, <1>7, <1>8 DEF GoodsInv

\* Moving a paid shipment moves the items aboard, which are in it.
LEMMA MoveKeepsGoods ==
  ASSUME Inv, GoodsInv, NEW k \in Slots, MoveShipment(k)
  PROVE  GoodsInv'
<1> DEFINE s == job[k].parcel
           to == job[k].at
           aboard == {o \in Orders : parcelOf[o] = s}
<1>1. to \in Moves
  BY NextLabels DEF MoveShipment
<1>2. /\ job \in [Slots -> Jobs] /\ item \in [Orders -> ItemStatus]
      /\ shipment \in [Shipments -> ShipmentStatus] /\ s \in PaidShipments /\ s \in Shipments
      /\ shipment' = [shipment EXCEPT ![s] = to]
      /\ UNCHANGED <<parcelOf, fees, outcome>>
  BY <1>1 DEF MoveShipment, Inv, TypeOK, GoodsInv, ParcelsFit, PaidShipments, moneyVars
<1>3. PaidShipments' = PaidShipments
  <2>1. to \notin {"NONE", "PENDING_PAYMENT"}
    BY <1>1 DEF Moves
  <2> HIDE DEF to, s
  <2>2. QED
    BY <1>2, <2>1 DEF PaidShipments
<1>4. job' = [job EXCEPT ![k] = job'[k]] /\ job'[k].at \in {"idle", "advance"}
  <2>1. CASE End(k)
    BY <2>1, Landings DEF Lands
  <2>2. CASE ~End(k)
    <3>1. \E E : job' = [job EXCEPT ![k] = [Idle EXCEPT !.at = "advance", !.todo = E]]
      BY <2>2 DEF MoveShipment
    <3>2. QED
      BY <1>2, <3>1 DEF Idle
  <2>3. QED
    BY <2>1, <2>2
<1>5. ParcelsFit' /\ OneCharger'
  <2>1. job'[k].at \notin Moves \cup {"charge", "paid", "pack"}
    BY <1>4 DEF Moves
  <2>2. \A h \in Slots : job[h].at \in {"charge", "paid"} => job[h].parcel # s
    BY <1>2 DEF GoodsInv, ParcelsFit, PaidShipments
  <2>3. \A h \in Slots \ {k} : job[h].at \in {"charge", "paid"} =>
          shipment'[job[h].parcel] = shipment[job[h].parcel]
    BY <1>2, <2>2 DEF GoodsInv, ParcelsFit
  <2> HIDE DEF s, to
  <2>4. QED
    BY <1>3, <1>4, <2>1, <2>3, ParcelStep
<1>6. ItemsPaid'
  <2>1. \A o \in Orders : o \notin aboard => item'[o] = item[o]
    BY <1>2 DEF MoveShipment
  <2>2. \A o \in Orders : o \in aboard => parcelOf'[o] \in PaidShipments
    BY <1>2
  <2> HIDE DEF s, to, aboard
  <2>3. QED
    BY <1>2, <1>3, <2>1, <2>2 DEF GoodsInv, ItemsPaid
<1>7. FeesCover'
  <2>1. Charged' = Charged
    BY <1>1, <1>2, <1>4 DEF Charged, Moves
  <2>2. QED
    BY <1>2, <1>3, <2>1 DEF GoodsInv, FeesCover, ReleaseFees
<1>8. QED
  BY <1>5, <1>6, <1>7 DEF GoodsInv

\* A released order brings its own fee, on top of those of the shipments.
LEMMA MoneyKeepsGoods ==
  ASSUME Inv, GoodsInv, NEW k \in Slots, MoveMoney(k)
  PROVE  GoodsInv'
<1> DEFINE o == job[k].order
           task == job[k].task
           next == AfterPay[job[k].at]
<1>1. /\ job \in [Slots -> Jobs] /\ outcome \in [Orders -> {"none", "release", "refund"}]
      /\ UNCHANGED <<item, parcelOf, shipment>> /\ fees \in Nat
  BY DEF MoveMoney, Inv, TypeOK, goodsVars
<1>2. /\ job[k].at \in PayLabels /\ o \in Orders /\ task \in {"release", "refund"}
  <2>1. DOMAIN AfterPay = PayLabels
    BY DEF AfterPay, PayLabels
  <2>2. job[k].at \in PayLabels
    BY <2>1 DEF MoveMoney
  <2>3. QED
    BY <2>2, JobKnows DEF Fits, WithOrder
<1>3. /\ next \in {"idle", "discard", "recover", "release", "refunded", "forfeitedItem"}
      /\ next \in Labels \ AtParcel
  BY <1>2 DEF PayLabels, AfterPay, Labels, AtParcel, Moves
<1>4. Ashore(k)
  <2>1. /\ CASE next = "idle" -> End(k)
             [] next \in {"recover", "release"} -> Loop(k, next)
             [] OTHER -> GoTo(k, next)
    BY DEF MoveMoney
  <2> HIDE DEF next
  <2>2. End(k) \/ Loop(k, next) \/ GoTo(k, next)
    BY <1>3, <2>1
  <2>3. QED
    BY <1>3, <2>2, Landings, AshoreLabels DEF Ashore
<1>5. job' = [job EXCEPT ![k] = job'[k]] /\ job'[k].at \notin AtParcel
  BY <1>4 DEF Ashore, Lands
<1>6. PaidShipments' = PaidShipments
  BY <1>1 DEF PaidShipments
<1>7. ParcelsFit' /\ OneCharger'
  <2>1. job'[k].at \notin Moves \cup {"pack"} /\ job'[k].at \notin {"charge", "paid"}
    BY <1>5 DEF AtParcel
  <2>2. QED
    BY <1>1, <1>5, <1>6, <2>1, ParcelStep
<1>8. ItemsPaid'
  BY <1>1, <1>6 DEF GoodsInv, ItemsPaid
<1>9. Charged' = Charged
  BY <1>1, <1>2, <1>5 DEF Charged, PayLabels, AtParcel
<1>10. FeesCover'
  <2>1. CASE ~FirstMove(o, task)
    <3>1. UNCHANGED <<fees, outcome>>
      BY <2>1 DEF MoveMoney, moneyVars
    <3>2. QED
      BY <1>6, <1>9, <3>1 DEF GoodsInv, FeesCover, ReleaseFees
  <2>2. CASE FirstMove(o, task)
    <3> DEFINE f == [q \in Orders |->
                       IF outcome[q] = "release" THEN PlatformFee(Amount[q]) ELSE 0]
               g == [q \in Orders |->
                       IF outcome'[q] = "release" THEN PlatformFee(Amount[q]) ELSE 0]
               x == IF task = "release" THEN PlatformFee(Amount[o]) ELSE 0
    <3>1. /\ outcome[o] = "none" /\ outcome' = [outcome EXCEPT ![o] = task]
          /\ fees' = fees + x
      BY <1>1, <1>2, <2>2 DEF MoveMoney, FirstMove
    <3>2. x \in Nat /\ \A q \in Orders : f[q] \in Int
      BY <1>2, Shares
    <3>3. f[o] = 0 /\ g[o] = x
      BY <1>1, <1>2, <3>1
    <3>4. \A q \in Orders \ {o} : g[q] = f[q]
      BY <1>1, <1>2, <3>1
    <3>5. IsFiniteSet(Orders)
      BY SetsAssumption
    <3>6. Total(g, Orders) = Total(f, Orders) - f[o] + g[o]
      <4>1. g[o] \in Int
        BY <3>2, <3>3
      <4> HIDE DEF f, g, x, o
      <4>2. QED
        BY <1>2, <3>2, <3>4, <3>5, <4>1, TotalUpdate
    <3>7. ReleaseFees = Total(f, Orders) /\ ReleaseFees' = Total(g, Orders)
      BY DEF ReleaseFees
    <3> HIDE DEF f, g, x, o
    <3>8. ReleaseFees' = ReleaseFees + x /\ ReleaseFees \in Nat
      BY <3>2, <3>3, <3>6, <3>7, ReleaseFeesNat
    <3> DEFINE n == Cardinality(PaidShipments) + Cardinality(Charged)
    <3>9. n \in Nat /\ fees >= ShipFee * n + ReleaseFees
      BY FS_CardinalityType DEF GoodsInv, FeesCover
    <3>10. n = Cardinality(PaidShipments') + Cardinality(Charged')
      BY <1>6, <1>9
    <3> HIDE DEF n
    <3>11. fees' >= ShipFee * n + ReleaseFees'
      <4>1. ShipFee * n \in Nat
        BY <3>9, FeeSteps
      <4>2. QED
        BY <1>1, <3>1, <3>2, <3>8, <3>9, <4>1
    <3>12. QED
      BY <1>6, <1>9, <3>10, <3>11 DEF GoodsInv, FeesCover
  <2>3. QED
    BY <2>1, <2>2
<1>11. QED
  BY <1>7, <1>8, <1>10 DEF GoodsInv

\* Time leaves goods and money alone, and a fault forgets what was charged.
LEMMA OthersKeepGoods ==
  ASSUME Inv, GoodsInv,
         \/ \E o \in Orders : TimePasses(o) \/ DayPasses(o)
         \/ \E K : Fault(K)
         \/ UNCHANGED vars
  PROVE  GoodsInv'
<1>1. /\ UNCHANGED <<item, parcelOf, shipment, fees, outcome>>
      /\ \A k \in Slots : job'[k] = job[k] \/ job'[k] = Idle
  BY DEF TimePasses, DeadlinePasses, WindowCloses, HoldExpires, DayPasses, Fault, vars,
     goodsVars, moneyVars
<1>2. PaidShipments' = PaidShipments
  BY <1>1 DEF PaidShipments
<1>3. Idle.at \notin Moves \cup {"charge", "paid", "pack"}
  BY IdleJob DEF Moves
<1>4. ParcelsFit' /\ OneCharger'
  <2>1. \A k \in Slots :
          job'[k].at \in Moves \cup {"charge", "paid", "pack"} => job'[k] = job[k]
    BY <1>1, <1>3
  <2>2. ParcelsFit'
    <3> SUFFICES ASSUME NEW k \in Slots
                 PROVE  /\ job'[k].at \in Moves \cup {"pack"} =>
                             job'[k].parcel \in PaidShipments'
                        /\ job'[k].at \in {"charge", "paid"} =>
                             /\ job'[k].parcel \in Shipments
                             /\ shipment'[job'[k].parcel] = "PENDING_PAYMENT"
      BY DEF ParcelsFit
    <3>1. QED
      BY <1>1, <1>2, <2>1 DEF GoodsInv, ParcelsFit
  <2>3. OneCharger'
    BY <2>1 DEF GoodsInv, OneCharger
  <2>4. QED
    BY <2>2, <2>3
<1>5. ItemsPaid'
  BY <1>1, <1>2 DEF GoodsInv, ItemsPaid
<1>6. FeesCover'
  <2>1. Charged' \subseteq Charged
    BY <1>1, <1>3 DEF Charged
  <2>2. IsFiniteSet(Charged') /\ Cardinality(Charged') <= Cardinality(Charged)
    BY <2>1, FS_Subset DEF GoodsInv, FeesCover
  <2>3. /\ Cardinality(Charged') \in Nat /\ Cardinality(Charged) \in Nat
        /\ Cardinality(PaidShipments) \in Nat
    BY <2>2, FS_CardinalityType DEF GoodsInv, FeesCover
  <2>4. Cardinality(PaidShipments') + Cardinality(Charged')
          <= Cardinality(PaidShipments) + Cardinality(Charged)
    BY <1>2, <2>2, <2>3
  <2>5. QED
    BY <1>1, <1>2, <2>2, <2>4, FeesStay DEF GoodsInv, FeesCover
<1>7. QED
  BY <1>4, <1>5, <1>6 DEF GoodsInv

\* GoodsInv is kept by every step.
LEMMA GoodsStep == Inv /\ GoodsInv /\ [Next]_vars => GoodsInv'
<1> SUFFICES ASSUME Inv, GoodsInv, [Next]_vars PROVE GoodsInv'
  OBVIOUS
<1>1. ASSUME NEW k \in Slots, Request(k) PROVE GoodsInv'
  <2>1. ASSUME NEW O \in SUBSET Orders, NEW s \in Shipments, RequestShipment(k, O, s)
        PROVE  GoodsInv'
    <3>1. /\ job[k].at # "paid" /\ OpenShipment(k, O, s)
          /\ UNCHANGED <<item, parcelOf, fees, outcome>>
      BY <2>1, IdleJob DEF RequestShipment, Free, moneyVars
    <3>2. QED
      BY <3>1, OpenKeepsGoods
  <2>2. QED
    BY <1>1, <2>1, CalmHandlers, ReadKeepsGoods DEF Request
<1>2. ASSUME NEW k \in Slots, Step(k) PROVE GoodsInv'
  <2>1. ASSUME NEW s \in Shipments, PrepayShipping(k, s) PROVE GoodsInv'
    <3>1. CASE item[job[k].order] = "READY_TO_SHIP"
      <4>1. /\ job[k].at # "paid" /\ OpenShipment(k, {job[k].order}, s)
            /\ UNCHANGED <<item, parcelOf, fees, outcome>>
        BY <2>1, <3>1 DEF PrepayShipping, At, moneyVars
      <4>2. QED
        BY <4>1, OpenKeepsGoods
    <3>2. CASE item[job[k].order] # "READY_TO_SHIP"
      <4>1. CalmGoods /\ End(k)
        BY <2>1, <3>2 DEF PrepayShipping, CalmGoods, moneyVars
      <4>2. Ashore(k)
        BY <4>1, Landings, AshoreLabels DEF Ashore
      <4>3. QED
        BY <4>1, <4>2, GoodsCalm
    <3>3. QED
      BY <3>1, <3>2
  <2>2. CASE Settle(k) \/ PayShipping(k)
    BY <2>1, <2>2, CalmHandlers, ChargeKeepsGoods, MarkPaidKeepsGoods, PackKeepsGoods
    DEF Settle, PayShipping
  <2>3. CASE Carry(k)
    BY <2>3, CalmHandlers, MoveKeepsGoods DEF Carry
  <2>4. CASE ClaimDispute(k) \/ ClaimGivenUp(k) \/ DiscardItem(k) \/ MoveMoney(k) \/ RunTimer(k)
    BY <2>4, CalmHandlers, MoneyKeepsGoods, CalmTimers
  <2>5. QED
    BY <1>2, <2>2, <2>3, <2>4 DEF Step
<1>3. ASSUME NEW k \in Slots, OrderTimer(k) \/ FulfillmentTimer(k) PROVE GoodsInv'
  BY <1>3, CalmTimers
<1>4. CASE \/ \E o \in Orders : TimePasses(o) \/ DayPasses(o)
           \/ \E K : Fault(K)
           \/ UNCHANGED vars
  BY <1>4, OthersKeepGoods
<1>5. QED
  BY <1>1, <1>2, <1>3, <1>4 DEF Next

\* There are no shipments at first.
LEMMA GoodsInit == Init => GoodsInv
<1> SUFFICES ASSUME Init PROVE GoodsInv
  OBVIOUS
<1>0. Inv
  BY InvInit
<1>1. PaidShipments = {} /\ Charged = {}
  BY IdleJob DEF Init, PaidShipments, Charged
<1>2. ParcelsFit /\ OneCharger
  BY IdleJob DEF Init, ParcelsFit, OneCharger, Moves
<1>3. ItemsPaid
  BY DEF Init, ItemsPaid
<1>4. FeesCover
  <2>1. [o \in Orders |-> IF outcome[o] = "release" THEN PlatformFee(Amount[o]) ELSE 0]
          = [o \in Orders |-> 0]
    BY DEF Init
  <2>2. IsFiniteSet(Orders)
    BY SetsAssumption
  <2>3. Total([o \in Orders |-> 0], Orders) = 0
    BY <2>2, TotalZero
  <2>4. ReleaseFees = 0 /\ fees = 0
    BY <2>1, <2>3 DEF ReleaseFees, Init
  <2>5. IsFiniteSet({}) /\ Cardinality({}) = 0 /\ ShipFee \in Nat
    BY FS_EmptySet, AmountsAssumption
  <2>6. QED
    BY <1>1, <2>4, <2>5 DEF FeesCover
<1>5. QED
  BY <1>2, <1>3, <1>4 DEF GoodsInv

\* Items travel in paid shipments only, and the operator has the fee of each
\* of them besides those of the released orders (GoodsMovePaid).
THEOREM GoodsAlwaysMovePaid == Spec => []GoodsMovePaid
<1>1. Inv /\ GoodsInv => GoodsMovePaid
  <2> SUFFICES ASSUME Inv, GoodsInv PROVE GoodsMovePaid
    OBVIOUS
  <2> DEFINE n == Cardinality(PaidShipments)
             c == Cardinality(Charged)
  <2>1. n \in Nat /\ c \in Nat /\ fees >= ShipFee * (n + c) + ReleaseFees
    BY FS_CardinalityType DEF GoodsInv, FeesCover
  <2>2. ReleaseFees \in Nat /\ fees \in Nat
    BY ReleaseFeesNat DEF Inv, TypeOK
  <2>3. fees >= ShipFee * n + ReleaseFees
    <3> HIDE DEF n, c
    <3>1. /\ n \in Nat /\ n + c \in Nat /\ n <= n + c
      BY <2>1
    <3>2. /\ ShipFee * n \in Nat /\ ShipFee * (n + c) \in Nat
          /\ ShipFee * n <= ShipFee * (n + c)
      BY <3>1, FeeSteps
    <3>3. QED
      BY <2>1, <2>2, <3>2
  <2>4. QED
    BY <2>3 DEF GoodsMovePaid, GoodsInv, ItemsPaid, ReleaseFees
<1>2. QED
  BY <1>1, GoodsInit, GoodsStep, Invariance, PTL DEF Spec

-----------------------------------------------------------------------------
(* The status tells who got the money.  One thing can break this: a handler *)
(* that read an order before it was decided and writes it afterwards        *)
(* (advanceOrdersForShipment, markShipped and markDelivered do not claim).  *)

\* The statuses in which the money of an order moves, and those that go with
\* each way to move it.
Decided == {"RELEASED", "CANCELED", "REFUNDED"}

DecidedFor(task) == IF task = "release" THEN {"RELEASED"} ELSE {"CANCELED", "REFUNDED"}

\* Such a write does not come late.
Timely == \A k \in Slots : AdvanceWrite(k) => status[job[k].order] \notin Decided

Settling  == {"lock", "mark"}
Releasing == {"release", "payRelease", "abandon", "forfeit", "payForfeit", "forfeitedItem"}
Refunding == {"cancel", "payCancel", "refunded", "canceledItem"}

\* What a handler in memory knows of the statuses: its claim was won before it
\* moves money, and nobody takes a decision back.
Knows(j, st) ==
  /\ j.at = "mark" => st[j.order] = "PENDING_SETTLEMENT"
  /\ j.at = "write" => st[j.order] \notin {"NONE", "PENDING_SETTLEMENT"}
  /\ j.at \in PayLabels => st[j.order] \in DecidedFor(j.task)
  /\ j.at = "refunded" => st[j.order] \in DecidedFor("refund")
  /\ j.at = "payCancel" => j.task = "refund"
  /\ j.at \in {"giveUp", "forfeit"} => j.task = "release"
  /\ j.at \in {"recover", "payRecover"} => \A e \in j.todo : st[e[1]] \in DecidedFor(e[2])
  /\ j.at \in Releasing => \A e \in j.todo : e[2] = "release"
  /\ j.at \in Refunding => \A e \in j.todo : e[2] = "refund"

JobsKnow == \A k \in Slots : Knows(job[k], status)

\* An order is settled by the handler that created it.
OneSettler ==
  \A k, h \in Slots :
    job[k].at \in Settling /\ job[h].at \in Settling /\ job[k].order = job[h].order => k = h

TellInv == StatusTellsMoney /\ JobsKnow /\ OneSettler

\* How the status of an order may change by a step of a slot: what others rely
\* on stays.
Respects(k, o) ==
  \/ status'[o] = status[o]
  \/ status[o] = "CANCELED" /\ status'[o] = "REFUNDED"
  \/ status[o] = "NONE"
  \/ /\ status[o] \notin Decided \cup {"NONE", "PENDING_SETTLEMENT"}
     /\ status'[o] \notin {"NONE", "PENDING_SETTLEMENT"}
  \/ /\ job[k].at = "mark" /\ job[k].order = o /\ status[o] = "PENDING_SETTLEMENT"
     /\ status'[o] = "LOCKED"

\* What every step of a slot leaves behind.
Told(k) == TellInv' /\ \A o \in Orders : Respects(k, o)

\* The handlers at these labels know nothing.
Plain == Labels \ (Settling \cup PayLabels \cup Releasing \cup Refunding
                    \cup {"write", "giveUp", "recover"})

LEMMA PlainLabels ==
  /\ Plain \subseteq Labels
  /\ {"idle", "item", "prepay", "charge", "paid", "pack", "clock", "LABEL_PENDING",
      "LABEL_CREATED", "SHIPPED", "DELIVERED", "advance", "dispute", "discard", "sweep",
      "sweptItem"} \subseteq Plain
BY DEF Plain, Labels, Settling, PayLabels, Releasing, Refunding

LEMMA PlainKnows == ASSUME NEW j, j.at \in Plain, NEW st PROVE Knows(j, st)
BY DEF Knows, Plain, Settling, PayLabels, Releasing, Refunding

\* A handler keeps what it knows when another respects it.
LEMMA StillKnows ==
  ASSUME Inv, TellInv, NEW k \in Slots, NEW h \in Slots, h # k,
         \A o \in Orders : Respects(k, o)
  PROVE  Knows(job[h], status')
<1> DEFINE i == job[h]
<1>1. i \in Jobs /\ Knows(i, status) /\ Fits(i, status, locked)
  BY DEF Inv, TypeOK, TellInv, JobsKnow, JobsFit
<1>2. i.at \in WithOrder => i.order \in Orders
  BY <1>1 DEF Fits
<1>3. \A o \in Orders : \A task :
        status[o] \in DecidedFor(task) => status'[o] \in DecidedFor(task)
  BY DEF Respects, DecidedFor, Decided
<1>4. i.at = "mark" => status'[i.order] = "PENDING_SETTLEMENT"
  <2> SUFFICES ASSUME i.at = "mark" PROVE status'[i.order] = "PENDING_SETTLEMENT"
    OBVIOUS
  <2>1. i.order \in Orders /\ status[i.order] = "PENDING_SETTLEMENT"
    BY <1>1, <1>2 DEF Knows, WithOrder
  <2>2. ~(job[k].at = "mark" /\ job[k].order = i.order)
    BY DEF TellInv, OneSettler, Settling
  <2>3. QED
    BY <2>1, <2>2 DEF Respects
<1>5. i.at = "write" => status'[i.order] \notin {"NONE", "PENDING_SETTLEMENT"}
  BY <1>1, <1>2 DEF Knows, WithOrder, Respects
<1>6. /\ i.at \in PayLabels => status'[i.order] \in DecidedFor(i.task)
      /\ i.at = "refunded" => status'[i.order] \in DecidedFor("refund")
  BY <1>1, <1>2, <1>3 DEF Knows, WithOrder
<1>7. i.at \in {"recover", "payRecover"} =>
        \A e \in i.todo : status'[e[1]] \in DecidedFor(e[2])
  <2>1. \A e \in i.todo : e[1] \in Orders
    BY <1>1 DEF Jobs, Errands
  <2>2. QED
    BY <1>1, <1>3, <2>1 DEF Knows
<1>8. QED
  BY <1>1, <1>4, <1>5, <1>6, <1>7 DEF Knows

\* What is left to show of a step of a slot that moves no money.
LEMMA TellKeep ==
  ASSUME Inv, TellInv, NEW k \in Slots, NEW j, Becomes(k, j), outcome' = outcome,
         \A o \in Orders : Respects(k, o),
         Knows(j, status'),
         j.at \in Settling =>
           \A h \in Slots \ {k} : job[h].at \in Settling => job[h].order # j.order
  PROVE  Told(k)
<1>1. job \in [Slots -> Jobs] /\ job'[k] = j /\ \A h \in Slots \ {k} : job'[h] = job[h]
  BY DEF Inv, TypeOK, Becomes
<1>2. StatusTellsMoney'
  BY DEF TellInv, StatusTellsMoney, Respects, Decided
<1>3. JobsKnow'
  <2>1. ASSUME NEW h \in Slots PROVE Knows(job'[h], status')
    <3>1. CASE h = k
      BY <1>1, <3>1
    <3>2. CASE h # k
      BY <1>1, <3>2, StillKnows
    <3>3. QED
      BY <3>1, <3>2
  <2>2. QED
    BY <2>1 DEF JobsKnow
<1>4. OneSettler'
  BY <1>1 DEF TellInv, OneSettler
<1>5. QED
  BY <1>1, <1>2, <1>3, <1>4 DEF TellInv, Told

\* A step that writes no status and leaves the slot where it knows nothing.
LEMMA TellRest ==
  ASSUME Inv, TellInv, NEW k \in Slots, UNCHANGED <<status, outcome>>,
         NEW at \in Plain, Lands(k, at)
  PROVE  Told(k)
<1>1. Becomes(k, job'[k]) /\ job'[k].at = at
  BY DEF Lands, Becomes
<1>2. at \notin Settling /\ at # "write"
  BY DEF Plain
<1>3. \A o \in Orders : Respects(k, o)
  BY DEF Respects
<1>4. QED
  BY <1>1, <1>2, <1>3, PlainKnows, TellKeep

\* A step that writes the status of an order and moves the slot on.
LEMMA TellWrite ==
  ASSUME Inv, TellInv, NEW k \in Slots, NEW j, Becomes(k, j), outcome' = outcome,
         NEW o \in Orders, NEW st \in OrderStatus \ {"NONE", "PENDING_SETTLEMENT"},
         Write(o, st), status[o] \notin Decided \cup {"NONE", "PENDING_SETTLEMENT"},
         Knows(j, status'), j.at \notin Settling \cup {"write"}
  PROVE  Told(k)
<1>1. status' = [status EXCEPT ![o] = st] /\ status \in [Orders -> OrderStatus]
  BY DEF Write, Inv, TypeOK
<1>2. \A p \in Orders : Respects(k, p)
  BY <1>1 DEF Respects
<1>3. QED
  BY <1>2, TellKeep

\* The handlers that write no status, and know nothing afterwards.
LEMMA TellPlain ==
  ASSUME Inv, TellInv, NEW k \in Slots,
         \/ \E o \in Orders : OpenDispute(k, o)
         \/ \E s \in Shipments : \/ \E O \in SUBSET Orders : RequestShipment(k, O, s)
                                 \/ ReadShipment(k, s) \/ PrepayShipping(k, s)
         \/ CreateItem(k) \/ ChargeShipping(k) \/ MarkPaid(k) \/ PackItems(k)
         \/ StartSellerShipClock(k) \/ MoveShipment(k) \/ DiscardItem(k)
         \/ FulfillmentTimer(k) \/ Sweep(k) \/ DiscardSwept(k)
  PROVE  Told(k)
<1> USE PlainLabels
<1>0. job \in [Slots -> Jobs] /\ job[k] \in Jobs
  BY DEF Inv, TypeOK
<1>1. CASE \E o \in Orders : OpenDispute(k, o)
  <2>1. UNCHANGED <<status, outcome>> /\ Lands(k, "dispute")
    BY <1>1, Landings DEF OpenDispute, orderVars, moneyVars
  <2>2. QED
    BY <2>1, TellRest
<1>2. ASSUME NEW s \in Shipments, NEW O, OpenShipment(k, O, s), UNCHANGED <<status, outcome>>
      PROVE  Told(k)
  <2> DEFINE j == [Idle EXCEPT !.at = "charge", !.todo = O \X {"pack"}, !.parcel = s]
  <2>1. job' = [job EXCEPT ![k] = j] /\ j.at = "charge"
    BY <1>2 DEF OpenShipment, Idle
  <2> HIDE DEF j
  <2>2. Lands(k, "charge")
    BY <1>0, <2>1 DEF Lands
  <2>3. QED
    BY <1>2, <2>2, TellRest
<1>3. CASE \E s \in Shipments : \E O \in SUBSET Orders : RequestShipment(k, O, s)
  BY <1>2, <1>3 DEF RequestShipment, orderVars, moneyVars
<1>4. ASSUME NEW s \in Shipments, ReadShipment(k, s) PROVE Told(k)
  <2> DEFINE j == [Idle EXCEPT !.at = NextStatus[shipment[s]], !.parcel = s]
  <2>1. /\ job' = [job EXCEPT ![k] = j] /\ j.at = NextStatus[shipment[s]]
        /\ UNCHANGED <<status, outcome>> /\ shipment[s] \in DOMAIN NextStatus
    BY <1>4 DEF ReadShipment, Idle, orderVars, moneyVars
  <2>2. NextStatus[shipment[s]] \in Plain
    BY <2>1, NextLabels DEF Moves
  <2> HIDE DEF j
  <2>3. Lands(k, NextStatus[shipment[s]])
    BY <1>0, <2>1 DEF Lands
  <2>4. QED
    BY <2>1, <2>2, <2>3, TellRest
<1>5. CASE \E s \in Shipments : PrepayShipping(k, s)
  <2>1. UNCHANGED <<status, outcome>>
    BY <1>5 DEF PrepayShipping, orderVars, moneyVars
  <2>2. End(k) \/ \E s \in Shipments : \E O : OpenShipment(k, O, s)
    BY <1>5 DEF PrepayShipping
  <2>3. ASSUME End(k) PROVE Told(k)
    BY <2>1, <2>3, Landings, TellRest
  <2>4. QED
    BY <1>2, <2>1, <2>2, <2>3
<1>6. CASE \/ CreateItem(k) \/ ChargeShipping(k) \/ MarkPaid(k) \/ PackItems(k)
           \/ StartSellerShipClock(k) \/ DiscardItem(k) \/ Sweep(k) \/ DiscardSwept(k)
  <2>1. UNCHANGED <<status, outcome>>
    BY <1>6 DEF CreateItem, ChargeShipping, MarkPaid, PackItems, StartSellerShipClock,
       DiscardItem, Sweep, DiscardSwept, orderVars, moneyVars
  <2>2. \E at \in Plain : Lands(k, at)
    BY <1>6, Landings DEF CreateItem, ChargeShipping, MarkPaid, PackItems,
       StartSellerShipClock, DiscardItem, Sweep, DiscardSwept, At
  <2>3. QED
    BY <2>1, <2>2, TellRest
<1>7. CASE MoveShipment(k)
  <2>1. UNCHANGED <<status, outcome>>
    BY <1>7 DEF MoveShipment, orderVars, moneyVars
  <2>2. End(k) \/ \E E : job' = [job EXCEPT ![k] = [Idle EXCEPT !.at = "advance", !.todo = E]]
    BY <1>7 DEF MoveShipment
  <2>3. Lands(k, "idle") \/ Lands(k, "advance")
    BY <1>0, <2>2, Landings DEF Lands, Idle
  <2>4. QED
    BY <2>1, <2>3, TellRest
<1>8. CASE FulfillmentTimer(k)
  <2>1. UNCHANGED <<status, outcome>>
    BY <1>8 DEF FulfillmentTimer, orderVars, moneyVars
  <2> DEFINE j == [Idle EXCEPT !.at = "sweep", !.todo = Listed(4)]
  <2>2. job' = [job EXCEPT ![k] = j] /\ j.at = "sweep"
    BY <1>8 DEF FulfillmentTimer, Idle
  <2> HIDE DEF j
  <2>3. Lands(k, "sweep")
    BY <1>0, <2>2 DEF Lands
  <2>4. QED
    BY <2>1, <2>3, TellRest
<1>9. QED
  BY <1>1, <1>3, <1>4, <1>5, <1>6, <1>7, <1>8

\* A settlement: the order is new, then its handler alone marks it LOCKED.
LEMMA TellSettle ==
  ASSUME Inv, TellInv, NEW k \in Slots,
         \/ \E o \in Orders : CreateOrder(k, o)
         \/ LockFunds(k) \/ MarkLocked(k) \/ ReleaseNft(k)
  PROVE  Told(k)
<1>0. /\ job \in [Slots -> Jobs] /\ job[k] \in Jobs /\ status \in [Orders -> OrderStatus]
      /\ Fits(job[k], status, locked) /\ Knows(job[k], status)
  BY DEF Inv, TypeOK, JobsFit, TellInv, JobsKnow
<1>1. ASSUME NEW o \in Orders, CreateOrder(k, o) PROVE Told(k)
  <2>1. /\ status[o] = "NONE" /\ status' = [status EXCEPT ![o] = "PENDING_SETTLEMENT"]
        /\ outcome' = outcome /\ Begin(k, "lock", o, "settle")
    BY <1>1 DEF CreateOrder, Write, moneyVars
  <2>2. PICK j \in Jobs : Becomes(k, j) /\ j.at = "lock" /\ j.order = o
    BY <2>1, BeginJob DEF Labels, Tasks
  <2>3. \A p \in Orders : Respects(k, p)
    BY <1>0, <2>1 DEF Respects
  <2>4. Knows(j, status')
    BY <2>2 DEF Knows, PayLabels, Releasing, Refunding
  <2>5. \A h \in Slots : job[h].at \in Settling => job[h].order # o
    BY <2>1 DEF TellInv, JobsKnow, Knows, Inv, JobsFit, Fits, Settling
  <2>6. QED
    BY <2>1, <2>2, <2>3, <2>4, <2>5, TellKeep
<1>2. CASE LockFunds(k)
  <2>1. /\ job[k].at = "lock" /\ UNCHANGED <<status, outcome>>
        /\ GoTo(k, "mark") \/ End(k)
    BY <1>2 DEF LockFunds, At, orderVars
  <2>2. CASE End(k)
    BY <2>1, <2>2, Landings, PlainLabels, TellRest
  <2>3. CASE GoTo(k, "mark")
    <3>1. PICK j \in Jobs : Becomes(k, j) /\ j.at = "mark" /\ j.order = job[k].order
      BY <2>3, GoToJob DEF Labels
    <3>2. status'[j.order] = "PENDING_SETTLEMENT"
      BY <1>0, <2>1, <3>1 DEF Fits
    <3>3. Knows(j, status')
      BY <3>1, <3>2 DEF Knows, PayLabels, Releasing, Refunding
    <3>4. \A h \in Slots \ {k} : job[h].at \in Settling => job[h].order # j.order
      BY <2>1, <3>1 DEF TellInv, OneSettler, Settling
    <3>5. \A p \in Orders : Respects(k, p)
      BY <2>1 DEF Respects
    <3>6. QED
      BY <2>1, <3>1, <3>3, <3>4, <3>5, TellKeep
  <2>4. QED
    BY <2>1, <2>2, <2>3
<1>3. CASE MarkLocked(k)
  <2> DEFINE o == job[k].order
  <2>1. /\ job[k].at = "mark" /\ o \in Orders /\ status[o] = "PENDING_SETTLEMENT"
        /\ status' = [status EXCEPT ![o] = "LOCKED"] /\ outcome' = outcome
        /\ GoTo(k, "item")
    BY <1>0, <1>3 DEF MarkLocked, Write, At, Fits, Knows, WithOrder, moneyVars
  <2>2. Lands(k, "item") /\ "item" \in Plain
    BY <2>1, Landings, PlainLabels
  <2>3. \A p \in Orders : Respects(k, p)
    BY <1>0, <2>1 DEF Respects
  <2>4. Becomes(k, job'[k]) /\ job'[k].at = "item"
    BY <2>2 DEF Lands, Becomes
  <2>5. "item" \notin Settling
    BY DEF Settling
  <2>6. QED
    BY <2>1, <2>2, <2>3, <2>4, <2>5, PlainKnows, TellKeep
<1>4. CASE ReleaseNft(k)
  <2> DEFINE o == job[k].order
             j == [job[k] EXCEPT !.at = "pay", !.task = "release"]
  <2>1. o \in Orders /\ outcome' = outcome
    BY <1>0, <1>4 DEF ReleaseNft, At, Fits, WithOrder, moneyVars
  <2>2. CASE status[o] = "LOCKED"
    <3>1. Write(o, "RELEASED") /\ job' = [job EXCEPT ![k] = j]
      BY <1>4, <2>2 DEF ReleaseNft
    <3>2. j.at = "pay" /\ j.task = "release" /\ j.order = o
      BY <1>0 DEF Jobs
    <3>3. status'[o] = "RELEASED"
      BY <1>0, <2>1, <3>1 DEF Write
    <3>4. "RELEASED" \in OrderStatus \ {"NONE", "PENDING_SETTLEMENT"}
      BY DEF OrderStatus
    <3>5. status[o] \notin Decided \cup {"NONE", "PENDING_SETTLEMENT"}
      BY <2>2 DEF Decided
    <3>6. Becomes(k, j)
      BY <3>1 DEF Becomes
    <3> HIDE DEF j, o
    <3>7. Knows(j, status') /\ j.at \notin Settling \cup {"write"}
      BY <3>2, <3>3 DEF Knows, PayLabels, Releasing, Refunding, DecidedFor, Settling
    <3>8. QED
      BY <2>1, <3>1, <3>4, <3>5, <3>6, <3>7, TellWrite
  <2>3. CASE status[o] # "LOCKED"
    <3>1. End(k) /\ UNCHANGED status
      BY <1>4, <2>3 DEF ReleaseNft
    <3>2. QED
      BY <2>1, <3>1, Landings, PlainLabels, TellRest
  <2>4. QED
    BY <2>2, <2>3
<1>5. QED
  BY <1>1, <1>2, <1>3, <1>4

\* A claim that is won decides an order that was not decided; a claim that is
\* lost writes nothing.
LEMMA TellClaim ==
  ASSUME Inv, TellInv, NEW k \in Slots, NEW o \in Orders, o = job[k].order,
         NEW from \in OrderStatus \ (Decided \cup {"NONE", "PENDING_SETTLEMENT"}),
         NEW to \in OrderStatus \ {"NONE", "PENDING_SETTLEMENT"},
         NEW won \in Labels \ (Settling \cup {"write"}),
         NEW lost \in Labels \ (Settling \cup {"write"}),
         Claim(k, o, from, to, won, lost), outcome' = outcome,
         ASSUME status[o] = from
         PROVE  Knows([job[k] EXCEPT !.at = won], [status EXCEPT ![o] = to]),
         lost # "idle" => Knows([job[k] EXCEPT !.at = lost], status)
  PROVE  Told(k)
<1>0. job \in [Slots -> Jobs] /\ job[k] \in Jobs
  BY DEF Inv, TypeOK
<1>1. CASE status[o] = from
  <2> DEFINE j == [job[k] EXCEPT !.at = won]
  <2>1. Write(o, to) /\ Becomes(k, j)
    BY <1>1 DEF Claim, GoTo, Becomes
  <2>2. j.at = won
    BY <1>0 DEF Jobs
  <2>3. Knows(j, status')
    BY <1>1, <2>1 DEF Write
  <2> HIDE DEF j
  <2>4. QED
    BY <1>1, <2>1, <2>2, <2>3, TellWrite
<1>2. CASE status[o] # from /\ lost = "idle"
  <2>1. End(k) /\ UNCHANGED status
    BY <1>2 DEF Claim
  <2>2. QED
    BY <2>1, Landings, PlainLabels, TellRest
<1>3. CASE status[o] # from /\ lost # "idle"
  <2> DEFINE j == [job[k] EXCEPT !.at = lost]
  <2>1. UNCHANGED status /\ Becomes(k, j)
    BY <1>3 DEF Claim, GoTo, Becomes
  <2>2. j.at = lost
    BY <1>0 DEF Jobs
  <2>3. Knows(j, status')
    BY <1>3, <2>1
  <2>4. \A p \in Orders : Respects(k, p)
    BY <2>1 DEF Respects
  <2> HIDE DEF j
  <2>5. QED
    BY <2>1, <2>2, <2>3, <2>4, TellKeep
<1>4. QED
  BY <1>1, <1>2, <1>3

\* The decisions of users and admins.
LEMMA TellDecide ==
  ASSUME Inv, TellInv, NEW k \in Slots,
         \/ \E o \in Orders :
              \/ \E task \in {"release", "refund"} : ResolveDispute(k, o, task)
              \/ ReleaseNow(k, o) \/ GiveUp(k, o)
         \/ ClaimDispute(k) \/ ClaimGivenUp(k)
  PROVE  Told(k)
<1>0. /\ job \in [Slots -> Jobs] /\ job[k] \in Jobs /\ status \in [Orders -> OrderStatus]
      /\ Fits(job[k], status, locked) /\ Knows(job[k], status)
  BY DEF Inv, TypeOK, JobsFit, TellInv, JobsKnow
<1>1. ASSUME NEW o \in Orders, NEW task \in {"release", "refund"},
             NEW st \in DecidedFor(task), Write(o, st), Begin(k, "pay", o, task),
             status[o] \notin Decided \cup {"NONE", "PENDING_SETTLEMENT"},
             outcome' = outcome
      PROVE  Told(k)
  <2>1. PICK j \in Jobs : Becomes(k, j) /\ j.at = "pay" /\ j.order = o /\ j.task = task
    BY <1>1, BeginJob DEF Labels, Tasks
  <2>2. st \in OrderStatus \ {"NONE", "PENDING_SETTLEMENT"}
    BY <1>1 DEF DecidedFor, OrderStatus
  <2>3. status'[o] \in DecidedFor(task)
    BY <1>0, <1>1 DEF Write
  <2>4. Knows(j, status') /\ j.at \notin Settling \cup {"write"}
    BY <2>1, <2>3 DEF Knows, Releasing, Refunding, Settling
  <2>5. QED
    BY <1>1, <2>1, <2>2, <2>4, TellWrite
<1>2. ASSUME NEW o \in Orders, NEW task \in {"release", "refund"},
             ResolveDispute(k, o, task)
      PROVE  Told(k)
  <2> DEFINE st == IF task = "release" THEN "RELEASED" ELSE "REFUNDED"
  <2>1. /\ Write(o, st) /\ Begin(k, "pay", o, task) /\ status[o] = "DISPUTED"
        /\ outcome' = outcome
    BY <1>2 DEF ResolveDispute, moneyVars
  <2>2. st \in DecidedFor(task)
    BY DEF DecidedFor
  <2>3. status[o] \notin Decided \cup {"NONE", "PENDING_SETTLEMENT"}
    BY <2>1 DEF Decided
  <2> HIDE DEF st
  <2>4. QED
    BY <1>1, <2>1, <2>2, <2>3
<1>3. ASSUME NEW o \in Orders, ReleaseNow(k, o) PROVE Told(k)
  <2>1. /\ Write(o, "RELEASED") /\ Begin(k, "pay", o, "release")
        /\ status[o] = "DISPUTE_WINDOW" /\ outcome' = outcome
    BY <1>3 DEF ReleaseNow, moneyVars
  <2>2. /\ "RELEASED" \in DecidedFor("release")
        /\ status[o] \notin Decided \cup {"NONE", "PENDING_SETTLEMENT"}
    BY <2>1 DEF Decided, DecidedFor
  <2>3. QED
    BY <1>1, <2>1, <2>2
<1>4. ASSUME NEW o \in Orders, GiveUp(k, o) PROVE Told(k)
  <2>1. /\ UNCHANGED <<status, outcome>>
        /\ Begin(k, "giveUp", o, "release") \/ Begin(k, "discard", o, "release")
    BY <1>4 DEF GiveUp, orderVars, moneyVars
  <2>2. CASE Begin(k, "giveUp", o, "release")
    <3>1. PICK j \in Jobs : Becomes(k, j) /\ j.at = "giveUp" /\ j.task = "release"
      BY <2>2, BeginJob DEF Labels, Tasks
    <3>2. Knows(j, status') /\ j.at \notin Settling \cup {"write"}
      BY <3>1 DEF Knows, PayLabels, Releasing, Refunding, Settling
    <3>3. \A p \in Orders : Respects(k, p)
      BY <2>1 DEF Respects
    <3>4. QED
      BY <2>1, <3>1, <3>2, <3>3, TellKeep
  <2>3. CASE Begin(k, "discard", o, "release")
    BY <2>1, <2>3, Landings, PlainLabels, TellRest
  <2>4. QED
    BY <2>1, <2>2, <2>3
<1>5. CASE ClaimDispute(k)
  <2> DEFINE o == job[k].order
  <2>1. o \in Orders /\ outcome' = outcome /\ End(k)
    BY <1>0, <1>5 DEF ClaimDispute, At, Fits, WithOrder, moneyVars
  <2>2. Lands(k, "idle") /\ "idle" \in Plain
    BY <2>1, Landings, PlainLabels
  <2>3. CASE status[o] = "DISPUTE_WINDOW"
    <3>1. Write(o, "DISPUTED")
      BY <1>5, <2>3 DEF ClaimDispute
    <3>2. Becomes(k, job'[k]) /\ job'[k].at = "idle"
      BY <2>2 DEF Lands, Becomes
    <3>3. /\ "DISPUTED" \in OrderStatus \ {"NONE", "PENDING_SETTLEMENT"}
          /\ status[o] \notin Decided \cup {"NONE", "PENDING_SETTLEMENT"}
          /\ "idle" \notin Settling \cup {"write"}
      BY <2>3 DEF OrderStatus, Decided, Settling
    <3> HIDE DEF o
    <3>4. QED
      BY <2>1, <2>2, <3>1, <3>2, <3>3, PlainKnows, TellWrite
  <2>4. CASE status[o] # "DISPUTE_WINDOW"
    <3>1. UNCHANGED status
      BY <1>5, <2>4 DEF ClaimDispute
    <3>2. QED
      BY <2>1, <2>2, <3>1, TellRest
  <2>5. QED
    BY <2>3, <2>4
<1>6. CASE ClaimGivenUp(k)
  <2> DEFINE o == job[k].order
  <2>1. /\ o \in Orders /\ outcome' = outcome /\ job[k].at = "giveUp"
        /\ job[k].task = "release"
    BY <1>0, <1>6 DEF ClaimGivenUp, At, Fits, Knows, WithOrder, PayLabels, moneyVars
  <2>2. CASE deadline[o] # "none"
    <3>1. End(k) /\ UNCHANGED status
      BY <1>6, <2>2 DEF ClaimGivenUp
    <3>2. QED
      BY <2>1, <3>1, Landings, PlainLabels, TellRest
  <2>3. CASE deadline[o] = "none"
    <3>1. Claim(k, o, "LOCKED", "RELEASED", "payDiscard", "idle")
      BY <1>6, <2>3 DEF ClaimGivenUp
    <3>2. ASSUME status[o] = "LOCKED"
          PROVE  Knows([job[k] EXCEPT !.at = "payDiscard"],
                       [status EXCEPT ![o] = "RELEASED"])
      <4>1. [status EXCEPT ![o] = "RELEASED"][o] = "RELEASED"
        BY <1>0, <2>1
      <4> DEFINE j == [job[k] EXCEPT !.at = "payDiscard"]
      <4>2. j.at = "payDiscard" /\ j.order = o /\ j.task = "release"
        BY <1>0, <2>1 DEF Jobs
      <4> HIDE DEF j, o
      <4>3. QED
        BY <4>1, <4>2 DEF Knows, PayLabels, Releasing, Refunding, DecidedFor, j
    <3>3. /\ "LOCKED" \in OrderStatus \ (Decided \cup {"NONE", "PENDING_SETTLEMENT"})
          /\ "RELEASED" \in OrderStatus \ {"NONE", "PENDING_SETTLEMENT"}
          /\ {"payDiscard", "idle"} \subseteq Labels \ (Settling \cup {"write"})
      BY DEF OrderStatus, Decided, Labels, Settling
    <3>4. QED
      BY <2>1, <3>1, <3>2, <3>3, TellClaim
  <2>4. QED
    BY <2>2, <2>3
<1>7. QED
  BY <1>2, <1>3, <1>4, <1>5, <1>6

\* A shipment moves orders on: the handler reads an order before it writes it.
LEMMA TellCarry ==
  ASSUME Inv, TellInv, NEW k \in Slots,
         \/ AdvanceRead(k)
         \/ AdvanceWrite(k) /\ status[job[k].order] \notin Decided
         \/ \E o \in Orders : \E goal \in {"SHIPPED", "DISPUTE_WINDOW"} :
              MarkByHand(k, o, goal)
  PROVE  Told(k)
<1>0. /\ job \in [Slots -> Jobs] /\ job[k] \in Jobs /\ status \in [Orders -> OrderStatus]
      /\ Fits(job[k], status, locked) /\ Knows(job[k], status)
  BY DEF Inv, TypeOK, JobsFit, TellInv, JobsKnow
<1>1. ASSUME NEW j, Becomes(k, j), j.at = "write", status[j.order] \in {"LOCKED", "SHIPPED"},
             UNCHANGED <<status, outcome>>
      PROVE  Told(k)
  <2>1. status'[j.order] \notin Decided \cup {"NONE", "PENDING_SETTLEMENT"}
    BY <1>1 DEF Decided
  <2>2. Knows(j, status') /\ j.at \notin Settling
    BY <1>1, <2>1 DEF Knows, PayLabels, Releasing, Refunding, Settling
  <2>3. \A p \in Orders : Respects(k, p)
    BY <1>1 DEF Respects
  <2>4. QED
    BY <1>1, <2>1, <2>2, <2>3, TellKeep
<1>2. CASE AdvanceRead(k)
  <2>1. UNCHANGED <<status, outcome>> /\ job[k].at = "advance"
    BY <1>2 DEF AdvanceRead, At, orderVars, moneyVars
  <2>2. ASSUME NEW e \in job[k].todo, status[e[1]] \in {"LOCKED", "SHIPPED"},
               Take(k, e, "write")
        PROVE  Told(k)
    <3>1. PICK j \in Jobs : Becomes(k, j) /\ j.at = "write" /\ j.order = e[1]
      BY <2>2, TakeJob DEF Labels
    <3>2. QED
      BY <1>1, <2>1, <2>2, <3>1
  <2>3. ASSUME (\E e : Skip(k, e)) \/ End(k) PROVE Told(k)
    BY <2>1, <2>3, Landings, PlainLabels, TellRest
  <2>4. QED
    BY <1>2, <2>2, <2>3 DEF AdvanceRead
<1>3. CASE AdvanceWrite(k) /\ status[job[k].order] \notin Decided
  <2> DEFINE o == job[k].order
             st == job[k].task
  <2>1. /\ o \in Orders /\ st \in {"SHIPPED", "DISPUTE_WINDOW"} /\ outcome' = outcome
        /\ Write(o, st) /\ Loop(k, "advance")
        /\ status[o] \notin Decided \cup {"NONE", "PENDING_SETTLEMENT"}
    BY <1>0, <1>3 DEF AdvanceWrite, At, Fits, Knows, WithOrder, moneyVars
  <2>2. Lands(k, "advance") /\ "advance" \in Plain
    BY <2>1, Landings, PlainLabels
  <2>3. Becomes(k, job'[k]) /\ job'[k].at = "advance" /\ "advance" \notin Settling \cup {"write"}
    BY <2>2 DEF Lands, Becomes, Settling
  <2>4. st \in OrderStatus \ {"NONE", "PENDING_SETTLEMENT"}
    BY <2>1 DEF OrderStatus
  <2> HIDE DEF o, st
  <2>5. QED
    BY <2>1, <2>2, <2>3, <2>4, PlainKnows, TellWrite
<1>4. ASSUME NEW o \in Orders, NEW goal \in {"SHIPPED", "DISPUTE_WINDOW"},
             MarkByHand(k, o, goal)
      PROVE  Told(k)
  <2>1. /\ UNCHANGED <<status, outcome>> /\ status[o] \in {"LOCKED", "SHIPPED"}
        /\ Begin(k, "write", o, goal)
    BY <1>4 DEF MarkByHand, orderVars, moneyVars
  <2>2. PICK j \in Jobs : Becomes(k, j) /\ j.at = "write" /\ j.order = o
    BY <2>1, BeginJob DEF Labels, Tasks
  <2>3. QED
    BY <1>1, <2>1, <2>2
<1>5. QED
  BY <1>2, <1>3, <1>4

\* The lists that the timers read tell what the statuses say.
LEMMA ListsKnow ==
  ASSUME NEW i \in 1..4
  PROVE  /\ i = 1 => \A e \in Listed(i) : status[e[1]] \in DecidedFor(e[2])
         /\ i \in {2, 4} => \A e \in Listed(i) : e[2] = "release"
         /\ i = 3 => \A e \in Listed(i) : e[2] = "refund"
<1>1. \A e \in Listed(1) : status[e[1]] \in DecidedFor(e[2])
  BY DEF Listed, DecidedFor
<1>2. \A e \in Listed(2) : e[2] = "release"
  BY DEF Listed
<1>3. \A e \in Listed(3) : e[2] = "refund"
  BY DEF Listed
<1>4. \A e \in Listed(4) : e[2] = "release"
  BY DEF Listed
<1>5. QED
  BY <1>1, <1>2, <1>3, <1>4

\* A section of the order timer begins.
LEMMA TellEnter ==
  ASSUME Inv, TellInv, NEW k \in Slots, UNCHANGED <<status, outcome>>,
         NEW i \in Nat, i > 0, Enter(k, i)
  PROVE  Told(k)
<1>1. PICK h \in i..4 :
        job' = [job EXCEPT ![k] = [Idle EXCEPT !.at = Sections[h], !.todo = Listed(h)]]
  BY DEF Enter
<1>2. h \in 1..4
  OBVIOUS
<1> DEFINE j == [Idle EXCEPT !.at = Sections[h], !.todo = Listed(h)]
<1>3. j.at = Sections[h] /\ j.todo = Listed(h) /\ Becomes(k, j)
  BY <1>1 DEF Idle, Becomes
<1>4. \/ h = 1 /\ Sections[h] = "recover"
      \/ h = 2 /\ Sections[h] = "release"
      \/ h = 3 /\ Sections[h] = "cancel"
      \/ h = 4 /\ Sections[h] = "abandon"
  BY <1>2 DEF Sections
<1> HIDE DEF j
<1>5. Knows(j, status) /\ j.at \notin Settling \cup {"write"}
  BY <1>2, <1>3, <1>4, ListsKnow DEF Knows, PayLabels, Releasing, Refunding, Settling
<1>6. \A p \in Orders : Respects(k, p)
  BY DEF Respects
<1>7. QED
  BY <1>3, <1>5, <1>6, TellKeep

\* A step of a loop that writes nothing.
LEMMA TellQuiet ==
  ASSUME Inv, TellInv, NEW k \in Slots, UNCHANGED <<status, outcome>>,
         NEW j, Becomes(k, j), Knows(j, status), j.at \notin Settling \cup {"write"}
  PROVE  Told(k)
<1>1. \A p \in Orders : Respects(k, p)
  BY DEF Respects
<1>2. QED
  BY <1>1, TellKeep

\* The timers claim before they pay, and recovery pays what was claimed.
LEMMA TellTimers ==
  ASSUME Inv, TellInv, NEW k \in Slots,
         OrderTimer(k) \/ (RunTimer(k) /\ ~Sweep(k) /\ ~DiscardSwept(k))
  PROVE  Told(k)
<1>0. /\ job \in [Slots -> Jobs] /\ job[k] \in Jobs /\ status \in [Orders -> OrderStatus]
      /\ Fits(job[k], status, locked) /\ Knows(job[k], status)
      /\ \A e \in job[k].todo : e[1] \in Orders
  <2>1. job[k] \in Jobs
    BY DEF Inv, TypeOK
  <2>2. QED
    BY <2>1 DEF Inv, TypeOK, JobsFit, TellInv, JobsKnow, Jobs, Errands
<1>1. CASE OrderTimer(k)
  BY <1>1, TellEnter DEF OrderTimer, orderVars, moneyVars
<1>2. CASE NextSection(k)
  <2>1. UNCHANGED <<status, outcome>>
    BY <1>2 DEF NextSection, orderVars, moneyVars
  <2>2. ASSUME NEW i \in 1..4, Enter(k, i + 1) PROVE Told(k)
    <3>1. i + 1 \in Nat /\ i + 1 > 0
      OBVIOUS
    <3>2. QED
      BY <2>1, <2>2, <3>1, TellEnter
  <2>3. ASSUME End(k) PROVE Told(k)
    BY <2>1, <2>3, Landings, PlainLabels, TellRest
  <2>4. QED
    BY <1>2, <2>2, <2>3 DEF NextSection
<1>3. CASE Recover(k)
  <2>1. UNCHANGED <<status, outcome>> /\ job[k].at = "recover"
    BY <1>3 DEF Recover, At, orderVars, moneyVars
  <2>2. PICK e \in job[k].todo : Take(k, e, "payRecover")
    BY <1>3 DEF Recover
  <2>3. PICK j \in Jobs : /\ Becomes(k, j) /\ j.at = "payRecover"
                          /\ j.todo \subseteq job[k].todo /\ j.order = e[1] /\ j.task = e[2]
    BY <2>2, TakeJob DEF Labels
  <2>4. Knows(j, status) /\ j.at \notin Settling \cup {"write"}
    BY <1>0, <2>1, <2>3 DEF Knows, PayLabels, Releasing, Refunding, Settling
  <2>5. QED
    BY <2>1, <2>3, <2>4, TellQuiet
<1>4. ASSUME NEW section, NEW from, NEW to, NEW won, ClaimListed(k, section, from, to, won),
             \/ /\ section = "release" /\ from = "DISPUTE_WINDOW" /\ to = "RELEASED"
                /\ won = "payRelease"
             \/ /\ section = "cancel" /\ from = "LOCKED" /\ to = "CANCELED"
                /\ won = "payCancel"
      PROVE  Told(k)
  <2>1. job[k].at = section /\ outcome' = outcome
    BY <1>4 DEF ClaimListed, At, moneyVars
  <2>2. ASSUME NEW e \in job[k].todo, status[e[1]] = from, Write(e[1], to), Take(k, e, won)
        PROVE  Told(k)
    <3>1. PICK j \in Jobs : /\ Becomes(k, j) /\ j.at = won /\ j.todo \subseteq job[k].todo
                            /\ j.order = e[1] /\ j.task = e[2]
      BY <1>4, <2>2, TakeJob DEF Labels
    <3>2. e[1] \in Orders /\ status'[e[1]] = to
      BY <1>0, <2>2 DEF Write
    <3>3. Knows(j, status') /\ j.at \notin Settling \cup {"write"}
      BY <1>0, <1>4, <2>1, <2>2, <3>1, <3>2
      DEF Knows, PayLabels, Releasing, Refunding, Settling, DecidedFor
    <3>4. /\ to \in OrderStatus \ {"NONE", "PENDING_SETTLEMENT"}
          /\ status[e[1]] \notin Decided \cup {"NONE", "PENDING_SETTLEMENT"}
      BY <1>4, <2>2 DEF OrderStatus, Decided
    <3>5. QED
      BY <2>1, <2>2, <3>1, <3>2, <3>3, <3>4, TellWrite
  <2>3. ASSUME NEW e \in job[k].todo, Skip(k, e), UNCHANGED status
        PROVE  Told(k)
    <3>1. PICK j \in Jobs : /\ Becomes(k, j) /\ j.at = job[k].at
                            /\ j.todo \subseteq job[k].todo
      BY <2>3, SkipJob
    <3>2. Knows(j, status) /\ j.at \notin Settling \cup {"write"}
      BY <1>0, <1>4, <2>1, <3>1 DEF Knows, PayLabels, Releasing, Refunding, Settling
    <3>3. QED
      BY <2>1, <2>3, <3>1, <3>2, TellQuiet
  <2>4. QED
    BY <1>4, <2>2, <2>3 DEF ClaimListed
<1>5. CASE ReleaseDue(k) \/ CancelDue(k)
  BY <1>4, <1>5 DEF ReleaseDue, CancelDue
<1>6. CASE MarkRefunded(k)
  <2> DEFINE o == job[k].order
  <2>1. /\ job[k].at = "refunded" /\ o \in Orders /\ outcome' = outcome
        /\ status' = [status EXCEPT ![o] = "REFUNDED"] /\ GoTo(k, "canceledItem")
        /\ status[o] \in {"CANCELED", "REFUNDED"}
    BY <1>0, <1>6 DEF MarkRefunded, Write, At, Fits, Knows, WithOrder, DecidedFor, moneyVars
  <2>2. PICK j \in Jobs : Becomes(k, j) /\ j.at = "canceledItem" /\ j.todo = job[k].todo
    BY <2>1, GoToJob DEF Labels
  <2>3. Knows(j, status') /\ j.at \notin Settling \cup {"write"}
    BY <1>0, <2>1, <2>2 DEF Knows, PayLabels, Releasing, Refunding, Settling
  <2>4. \A p \in Orders : Respects(k, p)
    BY <1>0, <2>1 DEF Respects
  <2>5. QED
    BY <2>1, <2>2, <2>3, <2>4, TellKeep
<1>7. CASE DiscardCanceled(k) \/ DiscardForfeited(k)
  <2>1. /\ UNCHANGED <<status, outcome>>
        /\ \/ job[k].at = "canceledItem" /\ Loop(k, "cancel")
           \/ job[k].at = "forfeitedItem" /\ Loop(k, "abandon")
    BY <1>7 DEF DiscardCanceled, DiscardForfeited, At, orderVars, moneyVars
  <2>2. PICK j \in Jobs : /\ Becomes(k, j) /\ j.todo = job[k].todo
                          /\ \/ job[k].at = "canceledItem" /\ j.at = "cancel"
                             \/ job[k].at = "forfeitedItem" /\ j.at = "abandon"
    BY <2>1, LoopJob DEF Labels
  <2>3. Knows(j, status) /\ j.at \notin Settling \cup {"write"}
    BY <1>0, <2>2 DEF Knows, PayLabels, Releasing, Refunding, Settling
  <2>4. QED
    BY <2>1, <2>2, <2>3, TellQuiet
<1>8. CASE CheckAbandoned(k)
  <2>1. UNCHANGED <<status, outcome>> /\ job[k].at = "abandon"
    BY <1>8 DEF CheckAbandoned, At, orderVars, moneyVars
  <2>2. PICK e \in job[k].todo : Take(k, e, "forfeit") \/ Skip(k, e)
    BY <1>8 DEF CheckAbandoned
  <2>3. PICK j \in Jobs : /\ Becomes(k, j) /\ j.todo \subseteq job[k].todo
                          /\ j.at = "abandon" \/ (j.at = "forfeit" /\ j.task = e[2])
    BY <2>1, <2>2, TakeJob, SkipJob DEF Labels
  <2>4. Knows(j, status) /\ j.at \notin Settling \cup {"write"}
    BY <1>0, <2>1, <2>3 DEF Knows, PayLabels, Releasing, Refunding, Settling
  <2>5. QED
    BY <2>1, <2>3, <2>4, TellQuiet
<1>9. CASE ForfeitOrder(k)
  <2> DEFINE o == job[k].order
  <2>1. /\ o \in Orders /\ outcome' = outcome /\ job[k].at = "forfeit"
        /\ job[k].task = "release" /\ \A e \in job[k].todo : e[2] = "release"
    BY <1>0, <1>9 DEF ForfeitOrder, At, Fits, Knows, WithOrder, Releasing, moneyVars
  <2>2. Claim(k, o, "LOCKED", "RELEASED", "payForfeit", "forfeitedItem")
    BY <1>9 DEF ForfeitOrder
  <2>3. ASSUME NEW at \in {"payForfeit", "forfeitedItem"}, NEW st,
               at = "payForfeit" => st[o] = "RELEASED"
        PROVE  Knows([job[k] EXCEPT !.at = at], st)
    <3> DEFINE j == [job[k] EXCEPT !.at = at]
    <3>1. j.at = at /\ j.order = o /\ j.task = "release" /\ j.todo = job[k].todo
      BY <1>0, <2>1 DEF Jobs
    <3> HIDE DEF j, o
    <3>2. Knows(j, st)
      BY <2>1, <2>3, <3>1 DEF Knows, PayLabels, Releasing, Refunding, DecidedFor
    <3>3. QED
      BY <3>2 DEF j
  <2>4. [status EXCEPT ![o] = "RELEASED"][o] = "RELEASED"
    BY <1>0, <2>1
  <2>5. /\ "LOCKED" \in OrderStatus \ (Decided \cup {"NONE", "PENDING_SETTLEMENT"})
        /\ "RELEASED" \in OrderStatus \ {"NONE", "PENDING_SETTLEMENT"}
        /\ {"payForfeit", "forfeitedItem"} \subseteq Labels \ (Settling \cup {"write"})
    BY DEF OrderStatus, Decided, Labels, Settling
  <2>6. /\ Knows([job[k] EXCEPT !.at = "payForfeit"], [status EXCEPT ![o] = "RELEASED"])
        /\ Knows([job[k] EXCEPT !.at = "forfeitedItem"], status)
    BY <2>3, <2>4
  <2>7. QED
    BY <2>1, <2>2, <2>5, <2>6, TellClaim
<1>10. QED
  BY <1>1, <1>2, <1>3, <1>5, <1>6, <1>7, <1>8, <1>9 DEF RunTimer

\* Money moves the way the status says.
LEMMA TellMoney ==
  ASSUME Inv, TellInv, NEW k \in Slots, MoveMoney(k)
  PROVE  Told(k)
<1> DEFINE o == job[k].order
           task == job[k].task
           next == AfterPay[job[k].at]
<1>0. /\ job \in [Slots -> Jobs] /\ job[k] \in Jobs
      /\ Fits(job[k], status, locked) /\ Knows(job[k], status)
      /\ outcome \in [Orders -> {"none", "release", "refund"}]
  BY DEF Inv, TypeOK, JobsFit, TellInv, JobsKnow
<1>1. job[k].at \in PayLabels /\ UNCHANGED status
  <2>1. DOMAIN AfterPay = PayLabels
    BY DEF AfterPay, PayLabels
  <2>2. QED
    BY <2>1 DEF MoveMoney, orderVars
<1>2. o \in Orders /\ task \in {"release", "refund"} /\ status[o] \in DecidedFor(task)
  BY <1>0, <1>1 DEF Fits, Knows, WithOrder
<1>3. StatusTellsMoney'
  <2>1. outcome' = outcome \/ outcome' = [outcome EXCEPT ![o] = task]
    BY DEF MoveMoney, moneyVars
  <2> HIDE DEF o, task
  <2>2. QED
    BY <1>0, <1>1, <1>2, <2>1 DEF TellInv, StatusTellsMoney, DecidedFor
<1>4. /\ job[k].at = "pay" => next = "idle"
      /\ job[k].at = "payDiscard" => next = "discard"
      /\ job[k].at = "payRecover" => next = "recover"
      /\ job[k].at = "payRelease" => next = "release"
      /\ job[k].at = "payCancel" => next = "refunded"
      /\ job[k].at = "payForfeit" => next = "forfeitedItem"
  BY DEF AfterPay
<1>5. PICK j : /\ Becomes(k, j) /\ Knows(j, status) /\ j.at \notin Settling \cup {"write"}
  <2>1. /\ CASE next = "idle" -> End(k)
             [] next \in {"recover", "release"} -> Loop(k, next)
             [] OTHER -> GoTo(k, next)
    BY DEF MoveMoney
  <2>2. next \in {"idle", "discard", "recover", "release", "refunded", "forfeitedItem"}
    BY <1>1, <1>4 DEF PayLabels
  <2> HIDE DEF next
  <2>3. CASE next = "idle"
    <3>1. Lands(k, "idle")
      BY <2>1, <2>3, Landings
    <3>2. Becomes(k, job'[k]) /\ job'[k].at = "idle" /\ "idle" \notin Settling
      BY <3>1 DEF Lands, Becomes, Settling
    <3>3. QED
      BY <3>2, PlainLabels, PlainKnows
  <2>4. CASE next \in {"recover", "release"}
    <3>1. Loop(k, next) /\ next \in Labels
      BY <2>1, <2>4 DEF Labels
    <3>2. PICK i \in Jobs : Becomes(k, i) /\ i.at = next /\ i.todo = job[k].todo
      BY <3>1, LoopJob
    <3>3. Knows(i, status) /\ i.at \notin Settling \cup {"write"}
      BY <1>0, <1>1, <1>4, <2>4, <3>2 DEF Knows, PayLabels, Releasing, Refunding, Settling
    <3>4. QED
      BY <3>2, <3>3
  <2>5. CASE next \in {"discard", "refunded", "forfeitedItem"}
    <3>1. GoTo(k, next) /\ next \in Labels
      BY <2>1, <2>5 DEF Labels
    <3>2. PICK i \in Jobs : /\ Becomes(k, i) /\ i.at = next /\ i.todo = job[k].todo
                            /\ i.order = o /\ i.task = task
      BY <3>1, GoToJob
    <3>3. next = "refunded" => job[k].at = "payCancel" /\ task = "refund"
      BY <1>0, <1>1, <1>4 DEF Knows, PayLabels
    <3>4. next = "forfeitedItem" => job[k].at = "payForfeit"
      BY <1>1, <1>4 DEF PayLabels
    <3> HIDE DEF o, task
    <3>5. Knows(i, status) /\ i.at \notin Settling \cup {"write"}
      BY <1>0, <1>2, <2>5, <3>2, <3>3, <3>4
      DEF Knows, PayLabels, Releasing, Refunding, Settling
    <3>6. QED
      BY <3>2, <3>5
  <2>6. QED
    BY <2>2, <2>3, <2>4, <2>5
<1>6. job'[k] = j /\ \A h \in Slots \ {k} : job'[h] = job[h]
  BY <1>0, <1>5 DEF Becomes
<1>7. JobsKnow' /\ \A p \in Orders : Respects(k, p)
  <2>1. \A p \in Orders : Respects(k, p)
    BY <1>1 DEF Respects
  <2>2. ASSUME NEW h \in Slots PROVE Knows(job'[h], status')
    <3>1. CASE h = k
      BY <1>1, <1>5, <1>6, <3>1
    <3>2. CASE h # k
      BY <1>6, <2>1, <3>2, StillKnows
    <3>3. QED
      BY <3>1, <3>2
  <2>3. QED
    BY <2>1, <2>2 DEF JobsKnow
<1>8. OneSettler'
  BY <1>5, <1>6 DEF TellInv, OneSettler
<1>9. QED
  BY <1>3, <1>5, <1>6, <1>7, <1>8 DEF TellInv, Told

\* Time and faults decide nothing.
LEMMA TellOthers ==
  ASSUME Inv, TellInv,
         \/ \E o \in Orders : TimePasses(o) \/ DayPasses(o)
         \/ \E K : Fault(K)
         \/ UNCHANGED vars
  PROVE  TellInv'
<1>1. /\ UNCHANGED <<status, outcome>>
      /\ \A k \in Slots : job'[k] = job[k] \/ job'[k] = Idle
  BY DEF TimePasses, DeadlinePasses, WindowCloses, HoldExpires, DayPasses, Fault, vars,
     orderVars, moneyVars
<1>2. Knows(Idle, status) /\ Idle.at \notin Settling \cup {"write"}
  BY IdleJob, PlainLabels, PlainKnows DEF Settling
<1>3. StatusTellsMoney' /\ JobsKnow'
  BY <1>1, <1>2 DEF TellInv, StatusTellsMoney, JobsKnow
<1>4. OneSettler'
  BY <1>1, <1>2 DEF TellInv, OneSettler
<1>5. QED
  BY <1>3, <1>4 DEF TellInv

\* A step of one slot, if it does not write late.
LEMMA TellSlot ==
  ASSUME Inv, TellInv, NEW k \in Slots,
         AdvanceWrite(k) => status[job[k].order] \notin Decided,
         Request(k) \/ Step(k) \/ OrderTimer(k) \/ FulfillmentTimer(k)
  PROVE  Told(k)
<1>1. CASE Request(k)
  BY <1>1, TellSettle, TellCarry, TellPlain, TellDecide DEF Request
<1>2. CASE Settle(k) \/ PayShipping(k)
  BY <1>2, TellSettle, TellPlain DEF Settle, PayShipping
<1>3. CASE Carry(k)
  BY <1>3, TellCarry, TellPlain DEF Carry
<1>4. CASE ClaimDispute(k) \/ ClaimGivenUp(k) \/ DiscardItem(k) \/ MoveMoney(k)
  BY <1>4, TellDecide, TellPlain, TellMoney
<1>5. CASE RunTimer(k) \/ OrderTimer(k) \/ FulfillmentTimer(k)
  BY <1>5, TellTimers, TellPlain
<1>6. QED
  BY <1>1, <1>2, <1>3, <1>4, <1>5 DEF Step

\* TellInv is kept by every step that does not write late.
LEMMA TellStep == Inv /\ TellInv /\ [Next]_vars /\ [Timely]_vars => TellInv'
<1> SUFFICES ASSUME Inv, TellInv, [Next]_vars, [Timely]_vars PROVE TellInv'
  OBVIOUS
<1>1. CASE \/ \E o \in Orders : TimePasses(o) \/ DayPasses(o)
           \/ \E K : Fault(K)
           \/ UNCHANGED vars
  BY <1>1, TellOthers
<1>2. ASSUME NEW k \in Slots, ~UNCHANGED vars,
             Request(k) \/ Step(k) \/ OrderTimer(k) \/ FulfillmentTimer(k)
      PROVE  TellInv'
  BY <1>2, TellSlot DEF Timely, Told
<1>3. QED
  BY <1>1, <1>2 DEF Next

\* Nothing is decided at first.
LEMMA TellInit == Init => TellInv
<1> SUFFICES ASSUME Init PROVE TellInv
  OBVIOUS
<1>1. StatusTellsMoney
  BY DEF Init, StatusTellsMoney
<1>2. Knows(Idle, status) /\ Idle.at \notin Settling \cup {"write"}
  BY IdleJob, PlainLabels, PlainKnows DEF Settling
<1>3. JobsKnow /\ OneSettler
  BY <1>2 DEF Init, JobsKnow, OneSettler
<1>4. QED
  BY <1>1, <1>3 DEF TellInv

\* However many handlers, pollers and timers overlap, and wherever crashes cut
\* them off, the status tells who got the money as long as no handler advances
\* an order that was decided after it read it (advanceOrdersForShipment): that
\* unclaimed write is all that can break StatusTellsMoney.
THEOREM StatusTellsUnlessLate == Spec /\ [][Timely]_vars => []StatusTellsMoney
<1>1. TellInv => StatusTellsMoney
  BY DEF TellInv
<1>2. Init => TellInv
  BY TellInit
<1>3. QED
  BY <1>1, <1>2, TellStep, Invariance, PTL DEF Spec

\* Under the same condition no payout and no refund is ever taken back: an order
\* whose money has moved and whose status is RELEASED or REFUNDED keeps that status
\* (SettledOrdersStay, which a late write breaks).
THEOREM DecisionsStay == Spec /\ [][Timely]_vars => SettledOrdersStay
<1>1. Inv /\ TellInv /\ [Next]_vars /\ [Timely]_vars =>
        \A o \in Orders :
          outcome[o] # "none" /\ status[o] \in {"RELEASED", "REFUNDED"} =>
            status'[o] = status[o]
  <2> SUFFICES ASSUME Inv, TellInv, [Next]_vars, [Timely]_vars, NEW o \in Orders,
                      status[o] \in {"RELEASED", "REFUNDED"}
               PROVE  status'[o] = status[o]
    OBVIOUS
  <2>1. CASE \/ \E p \in Orders : TimePasses(p) \/ DayPasses(p)
             \/ \E K : Fault(K)
             \/ UNCHANGED vars
    BY <2>1 DEF TimePasses, DeadlinePasses, WindowCloses, HoldExpires, DayPasses, Fault,
       vars, orderVars
  <2>2. ASSUME NEW k \in Slots, ~UNCHANGED vars,
               Request(k) \/ Step(k) \/ OrderTimer(k) \/ FulfillmentTimer(k)
        PROVE  status'[o] = status[o]
    <3>1. Told(k)
      BY <2>2, TellSlot DEF Timely
    <3>2. QED
      BY <3>1 DEF Told, Respects, Decided
  <2>3. QED
    BY <2>1, <2>2 DEF Next
<1>2. Init => TellInv
  BY TellInit
<1>3. QED
  BY <1>1, <1>2, TellStep, Invariance, PTL DEF Spec, SettledOrdersStay

-----------------------------------------------------------------------------
(* OrderEscrow implements EscrowPromise: of all its steps only three touch *)
(* the money, and each of these is a step of the promise.                  *)

\* Every other step of a handler leaves the money alone.
LEMMA OthersRest ==
  ASSUME NEW k \in Slots,
         Request(k) \/ Step(k) \/ OrderTimer(k) \/ FulfillmentTimer(k),
         ~LockFunds(k), ~ChargeShipping(k), ~MoveMoney(k)
  PROVE  UNCHANGED moneyVars
<1>1. CASE Request(k)
  <2>1. ASSUME NEW o \in Orders, CreateOrder(k, o) PROVE UNCHANGED moneyVars
    BY <2>1 DEF CreateOrder
  <2>2. ASSUME NEW o \in Orders, OpenDispute(k, o) PROVE UNCHANGED moneyVars
    BY <2>2 DEF OpenDispute
  <2>3. ASSUME NEW o \in Orders, NEW task, ResolveDispute(k, o, task)
        PROVE  UNCHANGED moneyVars
    BY <2>3 DEF ResolveDispute
  <2>4. ASSUME NEW o \in Orders, ReleaseNow(k, o) \/ GiveUp(k, o)
        PROVE  UNCHANGED moneyVars
    BY <2>4 DEF ReleaseNow, GiveUp
  <2>5. ASSUME NEW s \in Shipments, NEW O, RequestShipment(k, O, s)
        PROVE  UNCHANGED moneyVars
    BY <2>5 DEF RequestShipment
  <2>6. ASSUME NEW s \in Shipments, ReadShipment(k, s) PROVE UNCHANGED moneyVars
    BY <2>6 DEF ReadShipment
  <2>7. ASSUME NEW o \in Orders, NEW goal, MarkByHand(k, o, goal)
        PROVE  UNCHANGED moneyVars
    BY <2>7 DEF MarkByHand
  <2>8. QED
    BY <1>1, <2>1, <2>2, <2>3, <2>4, <2>5, <2>6, <2>7 DEF Request
<1>2. CASE Step(k)
  <2>1. ASSUME MarkLocked(k) \/ CreateItem(k) \/ ReleaseNft(k)
        PROVE  UNCHANGED moneyVars
    BY <2>1 DEF MarkLocked, CreateItem, ReleaseNft
  <2>2. ASSUME NEW s \in Shipments, PrepayShipping(k, s) PROVE UNCHANGED moneyVars
    BY <2>2 DEF PrepayShipping
  <2>3. ASSUME MarkPaid(k) \/ PackItems(k) \/ StartSellerShipClock(k)
        PROVE  UNCHANGED moneyVars
    BY <2>3 DEF MarkPaid, PackItems, StartSellerShipClock
  <2>4. ASSUME MoveShipment(k) \/ AdvanceRead(k) \/ AdvanceWrite(k)
        PROVE  UNCHANGED moneyVars
    BY <2>4 DEF MoveShipment, AdvanceRead, AdvanceWrite
  <2>5. ASSUME ClaimDispute(k) \/ ClaimGivenUp(k) \/ DiscardItem(k)
        PROVE  UNCHANGED moneyVars
    BY <2>5 DEF ClaimDispute, ClaimGivenUp, DiscardItem
  <2>6. ASSUME RunTimer(k) PROVE UNCHANGED moneyVars
    BY <2>6 DEF RunTimer, NextSection, Recover, ReleaseDue, CancelDue, ClaimListed,
                MarkRefunded, DiscardCanceled, CheckAbandoned, ForfeitOrder,
                DiscardForfeited, Sweep, DiscardSwept
  <2>7. QED
    BY <1>2, <2>1, <2>2, <2>3, <2>4, <2>5, <2>6 DEF Step, Settle, PayShipping, Carry
<1>3. CASE OrderTimer(k) \/ FulfillmentTimer(k)
  BY <1>3 DEF OrderTimer, FulfillmentTimer
<1>4. QED
  BY <1>1, <1>2, <1>3

\* So do time and faults.
LEMMA TimeRests ==
  ASSUME (\E o \in Orders : TimePasses(o) \/ DayPasses(o)) \/ (\E K : Fault(K))
  PROVE  UNCHANGED moneyVars
BY DEF TimePasses, DeadlinePasses, WindowCloses, HoldExpires, DayPasses, Fault

\* The promise sees nothing of such a step.
LEMMA PromiseStutters ==
  ASSUME UNCHANGED moneyVars
  PROVE  UNCHANGED Promise!vars
BY DEF moneyVars, Promise!vars, deal

\* The promise sums as the ledger does.
LEMMA SameTotal ==
  ASSUME NEW f, NEW S
  PROVE  Promise!Total(f, S) = Total(f, S)
BY DEF Promise!Total, Total, Promise!MapThenSumSet, MapThenSumSet,
       Promise!MapThenFoldSet, MapThenFoldSet

\* What the promise says is owed is what the ledger holds.
LEMMA OwedIsHeld == ASSUME Inv, NEW u \in Users PROVE Promise!Owed(u) = holds(u)
<1>1. \A o \in Orders : deal[o] = "won" <=> o \notin locked
  <2>1. \A o \in Orders : outcome[o] \in {"none", "release", "refund"}
    BY DEF Inv, TypeOK
  <2>2. QED
    BY <2>1 DEF deal, Standing
<1>2. [o \in Orders |-> IF Buyer[o] = u /\ deal[o] = "won" THEN Amount[o] ELSE 0]
        = [o \in Orders |-> IF Buyer[o] = u /\ o \notin locked THEN Amount[o] ELSE 0]
  BY <1>1
<1>3. QED
  BY <1>2, SameTotal DEF Promise!Owed, holds

\* Locking the funds of an order is Hold, or nothing if they are not there.
LEMMA LockIsHold ==
  ASSUME Inv, NEW k \in Slots, LockFunds(k)
  PROVE  [Promise!Next]_Promise!vars
<1> DEFINE o == job[k].order
           u == Buyer[o]
<1>1. /\ o \in Orders /\ o \notin locked /\ outcome[o] = "none"
  <2>1. o \in Orders /\ o \notin locked
    BY JobKnows DEF LockFunds, At, Fits, WithOrder
  <2>2. QED
    BY <2>1 DEF Inv, LockedFirst
<1>2. CASE settled[u] >= Amount[o]
  <2>1. /\ locked' = locked \cup {o}
        /\ settled' = [settled EXCEPT ![u] = @ - Amount[o]]
        /\ escrow' = escrow + Amount[o]
        /\ UNCHANGED <<outcome, buyback, fees>>
    BY <1>2 DEF LockFunds
  <2>2. deal[o] = "won" /\ deal' = [deal EXCEPT ![o] = "held"]
    <3>1. \A p \in Orders \ {o} : p \in locked' <=> p \in locked
      BY <2>1
    <3>2. o \in locked' /\ outcome' = outcome
      BY <2>1
    <3> HIDE DEF o
    <3>3. \A p \in Orders \ {o} : deal'[p] = deal[p]
      BY <3>1, <3>2 DEF deal
    <3>4. deal[o] = "won" /\ deal'[o] = "held"
      BY <1>1, <3>2 DEF deal, Standing
    <3>5. deal' = [p \in Orders |-> deal'[p]]
      BY DEF deal
    <3>6. QED
      BY <1>1, <3>3, <3>4, <3>5 DEF deal
  <2>3. Promise!Hold(o)
    <3>1. buyback' + fees' = buyback + fees
      BY <2>1
    <3>2. QED
      BY <2>1, <2>2, <3>1 DEF Promise!Hold
  <2>4. QED
    BY <1>1, <2>3 DEF Promise!Next
<1>3. CASE ~(settled[u] >= Amount[o])
  <2>1. UNCHANGED moneyVars
    BY <1>3 DEF LockFunds, moneyVars
  <2>2. QED
    BY <2>1, PromiseStutters
<1>4. QED
  BY <1>2, <1>3

\* A charge for shipping is PayShipping, or nothing if it is refused.
LEMMA ChargeIsPay ==
  ASSUME Inv, NEW k \in Slots, ChargeShipping(k)
  PROVE  [Promise!Next]_Promise!vars
<1>1. PICK u \in {Buyer[o] : o \in OrdersOf(job[k].todo)} :
        IF available(u) >= ShipFee
        THEN /\ settled' = [settled EXCEPT ![u] = @ - ShipFee]
             /\ fees' = fees + ShipFee
        ELSE UNCHANGED <<settled, fees>>
  BY DEF ChargeShipping
<1>2. u \in Users
  <2>1. \A o \in OrdersOf(job[k].todo) : o \in Orders
    BY JobKnows DEF OrdersOf, Errands
  <2>2. QED
    BY <1>1, <2>1, SetsAssumption
<1>3. UNCHANGED <<locked, outcome, escrow, buyback>>
  BY DEF ChargeShipping
<1>4. CASE available(u) >= ShipFee
  <2>1. settled' = [settled EXCEPT ![u] = settled[u] - ShipFee] /\ fees' = fees + ShipFee
    BY <1>1, <1>4
  <2>2. /\ ShipFee \in Nat /\ ShipFee > 0 /\ settled[u] \in Nat /\ fees \in Nat
        /\ buyback \in Nat /\ holds(u) \in Nat
    BY <1>2, AmountsAssumption, HoldsNat DEF Inv, TypeOK
  <2>3. settled'[u] = settled[u] - ShipFee
    BY <1>2, <2>1 DEF Inv, TypeOK
  <2>4. settled'[u] < settled[u] /\ settled'[u] >= Promise!Owed(u)
    BY <1>2, <1>4, <2>2, <2>3, OwedIsHeld DEF available
  <2>5. buyback' + fees' = buyback + fees + settled[u] - settled'[u]
    <3>1. buyback' = buyback
      BY <1>3
    <3>2. QED
      BY <2>1, <2>2, <2>3, <3>1
  <2>6. settled' = [settled EXCEPT ![u] = settled'[u]]
    BY <2>1, <2>3
  <2>7. deal' = deal /\ escrow' = escrow
    BY <1>3 DEF deal
  <2>8. Promise!PayShipping(u)
    BY <2>4, <2>5, <2>6, <2>7 DEF Promise!PayShipping
  <2>9. QED
    BY <1>2, <2>8 DEF Promise!Next
<1>5. CASE ~(available(u) >= ShipFee)
  <2>1. UNCHANGED moneyVars
    BY <1>1, <1>3, <1>5 DEF moneyVars
  <2>2. QED
    BY <2>1, PromiseStutters
<1>6. QED
  BY <1>4, <1>5

\* The platform's part of a price is at most a twentieth.
LEMMA HousePart ==
  ASSUME NEW a \in Nat
  PROVE  20 * (BuybackFee(a) + PlatformFee(a)) <= a
BY DEF BuybackFee, PlatformFee

\* The first move of an order is Release or Refund, a later one is nothing.
LEMMA MoveIsPayout ==
  ASSUME Inv, NEW k \in Slots, MoveMoney(k)
  PROVE  [Promise!Next]_Promise!vars
<1> DEFINE o == job[k].order
           task == job[k].task
<1>1. /\ o \in Orders /\ o \in locked /\ task \in {"release", "refund"}
  <2>1. job[k].at \in PayLabels /\ Fits(job[k], status, locked)
    <3>1. DOMAIN AfterPay = PayLabels
      BY DEF AfterPay, PayLabels
    <3>2. QED
      BY <3>1, JobKnows DEF MoveMoney
  <2>2. QED
    BY <2>1 DEF Fits, WithOrder, Funded
<1>2. CASE ~FirstMove(o, task)
  <2>1. UNCHANGED moneyVars
    BY <1>2 DEF MoveMoney
  <2>2. QED
    BY <2>1, PromiseStutters
<1>3. CASE FirstMove(o, task)
  <2>1. /\ outcome[o] = "none"
        /\ outcome' = [outcome EXCEPT ![o] = task]
        /\ escrow' = escrow - Amount[o]
        /\ locked' = locked
    BY <1>3 DEF MoveMoney, FirstMove
  <2>2. /\ deal[o] = "held"
        /\ deal' = [deal EXCEPT ![o] = IF task = "release" THEN "released" ELSE "refunded"]
    <3>1. outcome'[o] = task /\ \A p \in Orders \ {o} : outcome'[p] = outcome[p]
      BY <1>1, <2>1 DEF Inv, TypeOK
    <3> HIDE DEF o, task
    <3>2. \A p \in Orders \ {o} : deal'[p] = deal[p]
      BY <2>1, <3>1 DEF deal
    <3>3. /\ deal[o] = "held"
          /\ deal'[o] = IF task = "release" THEN "released" ELSE "refunded"
      BY <1>1, <2>1, <3>1 DEF deal, Standing
    <3>4. deal' = [p \in Orders |-> deal'[p]]
      BY DEF deal
    <3>5. QED
      BY <1>1, <3>2, <3>3, <3>4 DEF deal
  <2>3. /\ Amount[o] \in Nat /\ BuybackFee(Amount[o]) \in Nat
        /\ PlatformFee(Amount[o]) \in Nat /\ Proceeds(Amount[o]) \in Nat
        /\ Proceeds(Amount[o]) + BuybackFee(Amount[o]) + PlatformFee(Amount[o])
             = Amount[o]
        /\ 20 * (BuybackFee(Amount[o]) + PlatformFee(Amount[o])) <= Amount[o]
        /\ buyback \in Nat /\ fees \in Nat
    BY <1>1, Shares, HousePart DEF Inv, TypeOK
  <2>4. CASE task = "release"
    <3> DEFINE pays == Proceeds(Amount[o])
               bb == BuybackFee(Amount[o])
               pf == PlatformFee(Amount[o])
               a == Amount[o]
    <3>1. /\ settled' = [settled EXCEPT ![Seller[o]] = settled[Seller[o]] + pays]
          /\ buyback' = buyback + bb /\ fees' = fees + pf
      BY <1>3, <2>4 DEF MoveMoney
    <3>2. Seller[o] \in Users /\ settled[Seller[o]] \in Nat
      BY <1>1, SetsAssumption DEF Inv, TypeOK
    <3>3. /\ pays \in Nat /\ bb \in Nat /\ pf \in Nat /\ a \in Nat
          /\ pays + bb + pf = a /\ 20 * (bb + pf) <= a
      BY <2>3
    <3> HIDE DEF pays, bb, pf, a
    <3>4. (buyback' + fees') - (buyback + fees) = bb + pf
      BY <2>3, <3>1, <3>3
    <3>5. buyback' + fees' >= buyback + fees
      BY <2>3, <3>1, <3>3
    <3>6. settled[Seller[o]] + pays
            = settled[Seller[o]] + a - ((buyback' + fees') - (buyback + fees))
      BY <3>2, <3>3, <3>4
    <3>7. 20 * ((buyback' + fees') - (buyback + fees)) <= a
      BY <3>3, <3>4
    <3>8. Promise!Release(o)
      BY <2>1, <2>2, <2>4, <3>1, <3>5, <3>6, <3>7 DEF Promise!Release, a
    <3>9. QED
      BY <1>1, <3>8 DEF Promise!Next
  <2>5. CASE task = "refund"
    <3>1. /\ settled' = [settled EXCEPT ![Buyer[o]] = @ + Amount[o]]
          /\ UNCHANGED <<buyback, fees>>
      BY <1>3, <2>5 DEF MoveMoney
    <3>2. buyback' + fees' = buyback + fees
      BY <3>1
    <3>3. Promise!Refund(o)
      BY <2>1, <2>2, <2>5, <3>1, <3>2 DEF Promise!Refund
    <3>4. QED
      BY <1>1, <3>3 DEF Promise!Next
  <2>6. QED
    BY <1>1, <2>4, <2>5
<1>4. QED
  BY <1>2, <1>3

\* The first state is one of the promise.
LEMMA PromiseInit == Init => Promise!Init
<1> SUFFICES ASSUME Init PROVE Promise!Init
  OBVIOUS
<1>1. deal = [o \in Orders |-> "won"]
  BY DEF Init, deal
<1>2. settled \in [Users -> Nat] /\ escrow = 0 /\ buyback + fees = 0
  BY AmountsAssumption DEF Init
<1>3. QED
  BY <1>1, <1>2 DEF Promise!Init

\* Every step is one of the promise, or invisible to it.
LEMMA PromiseStep == Inv /\ [Next]_vars => [Promise!Next]_Promise!vars
<1> SUFFICES ASSUME Inv, [Next]_vars PROVE [Promise!Next]_Promise!vars
  OBVIOUS
<1>1. ASSUME NEW k \in Slots,
             Request(k) \/ Step(k) \/ OrderTimer(k) \/ FulfillmentTimer(k)
      PROVE  [Promise!Next]_Promise!vars
  <2>1. CASE LockFunds(k)
    BY <2>1, LockIsHold
  <2>2. CASE ChargeShipping(k)
    BY <2>2, ChargeIsPay
  <2>3. CASE MoveMoney(k)
    BY <2>3, MoveIsPayout
  <2>4. CASE ~LockFunds(k) /\ ~ChargeShipping(k) /\ ~MoveMoney(k)
    BY <1>1, <2>4, OthersRest, PromiseStutters
  <2>5. QED
    BY <2>1, <2>2, <2>3, <2>4
<1>2. CASE (\E o \in Orders : TimePasses(o) \/ DayPasses(o)) \/ (\E K : Fault(K))
  BY <1>2, TimeRests, PromiseStutters
<1>3. CASE UNCHANGED vars
  <2>1. UNCHANGED moneyVars
    BY <1>3 DEF vars
  <2>2. QED
    BY <2>1, PromiseStutters
<1>4. QED
  BY <1>1, <1>2, <1>3 DEF Next

\* Every price that was locked leaves escrow once, in full, to the seller less
\* at most a twentieth or back to the buyer, and shipping is never paid with
\* money held for a win (KeepsEscrowPromise).
THEOREM Implementation == Spec => KeepsEscrowPromise
<1>1. QED
  BY PromiseInit, PromiseStep, Invariance, PTL DEF Spec, KeepsEscrowPromise, Promise!Spec

-----------------------------------------------------------------------------
(* No locked price is forgotten: the half of EverySaleSettles that needs no *)
(* fairness, for any number of handlers, whether they write late or not.    *)

\* The statuses after LOCKED.
Past == OrderStatus \ {"NONE", "PENDING_SETTLEMENT", "LOCKED"}

\* The order waits for a user, a carrier or the clock, and its rows say so.
Waits(o) ==
  \/ status[o] = "LOCKED" /\ (deadline[o] # "none" \/ item[o] = "READY_TO_SHIP")
  \/ status[o] = "SHIPPED" /\ (parcelOf[o] # None \/ o \in ByHand)
  \/ status[o] = "DISPUTE_WINDOW" /\ window[o] # "none"
  \/ status[o] = "DISPUTED"

Unminded(o) == InEscrow(o) /\ ~Waits(o)

\* The handler in slot k is about to do what an order of this status needs next.
Minds(k, o) ==
  \/ status[o] = "PENDING_SETTLEMENT" /\ job[k].at = "mark" /\ job[k].order = o
  \/ status[o] = "LOCKED" /\ job[k].at = "item" /\ job[k].order = o
  \/ status[o] = "LOCKED" /\ job[k].at = "clock" /\ o \in OrdersOf(job[k].todo)
  \/ status[o] \in Decided /\ job[k].at \in PayLabels /\ job[k].order = o

\* As long as nothing has failed, a price in escrow is of an order that waits or
\* that a handler minds.
NoPriceIsStranded ==
  faults = 0 => \A o \in Orders : Unminded(o) => \E k \in Slots : Minds(k, o)

\* What the rows of an order say of each other.
RowsAgree(o) ==
  /\ parcelOf[o] # None => item[o] \notin {"NONE", "READY_TO_SHIP"}
  /\ item[o] # "NONE" => status[o] \notin {"NONE", "PENDING_SETTLEMENT"}
  /\ status[o] = "SHIPPED" => parcelOf[o] # None \/ o \in ByHand

\* The labels on the way to a discard, and those with a list of items.
Discarding == {"payDiscard", "discard", "payCancel", "refunded", "canceledItem", "payForfeit",
               "forfeitedItem", "sweptItem"}
Listing == {"abandon", "forfeit", "payForfeit", "forfeitedItem", "sweep", "sweptItem", "charge",
            "paid", "pack"}

\* What the handler in slot k relies on.
Relies(k) ==
  /\ job[k].at = "mark" => status[job[k].order] = "PENDING_SETTLEMENT"
  /\ job[k].at \in {"item", "write", "forfeit"} =>
       status[job[k].order] \notin {"NONE", "PENDING_SETTLEMENT"}
  /\ job[k].at = "item" => item[job[k].order] = "NONE"
  /\ job[k].at = "write" => parcelOf[job[k].order] # None \/ job[k].order \in ByHand
  /\ job[k].at \in {"advance", "write"} => \A e \in job[k].todo : parcelOf[e[1]] # None
  /\ job[k].at = "refunded" => outcome[job[k].order] # "none"
  /\ job[k].at \in Discarding => status[job[k].order] \in Past
  /\ job[k].at \in {"forfeit", "payForfeit", "forfeitedItem", "sweptItem"} =>
       item[job[k].order] # "NONE"
  /\ job[k].at \in Listing => \A e \in job[k].todo : item[e[1]] # "NONE"

\* An order gets its item from the handler that created it.
Founding == {"lock", "mark", "item"}
OneFounder ==
  \A k, h \in Slots :
    job[k].at \in Founding /\ job[h].at \in Founding /\ job[k].order = job[h].order => k = h

HandInv ==
  /\ NoPriceIsStranded
  /\ \A o \in Orders : RowsAgree(o)
  /\ \A k \in Slots : Relies(k)
  /\ OneFounder

\* What others rely on stays in a step of slot k.
Steady(k, o) ==
  /\ status[o] \notin {"NONE", "PENDING_SETTLEMENT"} =>
       status'[o] \notin {"NONE", "PENDING_SETTLEMENT"}
  /\ status[o] \in Past => status'[o] \in Past
  /\ \/ status[o] # "PENDING_SETTLEMENT" \/ status'[o] = "PENDING_SETTLEMENT"
     \/ job[k].at = "mark" /\ job[k].order = o
  /\ item[o] # "NONE" => item'[o] # "NONE"
  /\ \/ item[o] # "NONE" \/ item'[o] = "NONE"
     \/ job[k].at = "item" /\ job[k].order = o
  /\ parcelOf[o] # None => parcelOf'[o] # None
  /\ outcome[o] # "none" => outcome'[o] # "none"

\* Then another handler goes on relying on it.
LEMMA OthersRely ==
  ASSUME Inv, HandInv, NEW k \in Slots, NEW h \in Slots, h # k, job'[h] = job[h],
         \A o \in Orders : Steady(k, o)
  PROVE  Relies(h)'
<1>1. /\ job[h].at \in WithOrder => job[h].order \in Orders
      /\ \A e \in job[h].todo : e[1] \in Orders
  BY JobKnows DEF Errands
<1>2. Relies(h)
  BY DEF HandInv
<1>3. job[h].at = "mark" => status'[job[h].order] = "PENDING_SETTLEMENT"
  <2> SUFFICES ASSUME job[h].at = "mark" PROVE status'[job[h].order] = "PENDING_SETTLEMENT"
    OBVIOUS
  <2>1. job[h].order \in Orders /\ ~(job[k].at = "mark" /\ job[k].order = job[h].order)
    BY <1>1 DEF HandInv, OneFounder, Founding, WithOrder
  <2>2. QED
    BY <1>2, <2>1 DEF Relies, Steady
<1>4. /\ job[h].at \in {"item", "write", "forfeit"} =>
           status'[job[h].order] \notin {"NONE", "PENDING_SETTLEMENT"}
      /\ job[h].at = "write" => parcelOf'[job[h].order] # None \/ job[h].order \in ByHand
      /\ job[h].at = "refunded" => outcome'[job[h].order] # "none"
  BY <1>1, <1>2 DEF Relies, Steady, WithOrder
<1>5. job[h].at = "item" => item'[job[h].order] = "NONE"
  <2> SUFFICES ASSUME job[h].at = "item" PROVE item'[job[h].order] = "NONE"
    OBVIOUS
  <2>1. job[h].order \in Orders /\ ~(job[k].at = "item" /\ job[k].order = job[h].order)
    BY <1>1 DEF HandInv, OneFounder, Founding, WithOrder
  <2>2. QED
    BY <1>2, <2>1 DEF Relies, Steady
<1>6. job[h].at \in {"advance", "write"} => \A e \in job[h].todo : parcelOf'[e[1]] # None
  BY <1>1, <1>2 DEF Relies, Steady
<1>7. /\ job[h].at \in Discarding => status'[job[h].order] \in Past
      /\ job[h].at \in {"forfeit", "payForfeit", "forfeitedItem", "sweptItem"} =>
           item'[job[h].order] # "NONE"
  BY <1>1, <1>2 DEF Relies, Steady, WithOrder, PayLabels, Discarding
<1>8. job[h].at \in Listing => \A e \in job[h].todo : item'[e[1]] # "NONE"
  BY <1>1, <1>2 DEF Relies, Steady
<1>9. QED
  BY <1>3, <1>4, <1>5, <1>6, <1>7, <1>8 DEF Relies

\* A step of slot k, which leaves undone only what was not its to do.
LEMMA HandKeep ==
  ASSUME Inv, HandInv, NEW k \in Slots, NEW j, Becomes(k, j), faults' = faults,
         \A o \in Orders : Steady(k, o) /\ RowsAgree(o)',
         Relies(k)',
         j.at \in Founding =>
           \A h \in Slots \ {k} : job[h].at \in Founding => job[h].order # j.order,
         \A o \in Orders :
           Unminded(o)' => \/ Minds(k, o)'
                           \/ Unminded(o) /\ status'[o] = status[o] /\ ~Minds(k, o)
  PROVE  HandInv'
<1>1. job'[k] = j /\ \A h \in Slots \ {k} : job'[h] = job[h]
  BY DEF Inv, TypeOK, Becomes
<1>2. NoPriceIsStranded'
  <2> SUFFICES ASSUME faults = 0, NEW o \in Orders, Unminded(o)', ~Minds(k, o)'
               PROVE  \E h \in Slots : Minds(h, o)'
    BY DEF NoPriceIsStranded
  <2>1. PICK h \in Slots : Minds(h, o)
    BY DEF HandInv, NoPriceIsStranded
  <2>2. h # k /\ status'[o] = status[o]
    BY <2>1
  <2>3. Minds(h, o)'
    BY <1>1, <2>1, <2>2 DEF Minds
  <2>4. QED
    BY <2>3
<1>3. \A h \in Slots : Relies(h)'
  BY <1>1, OthersRely
<1>4. OneFounder'
  BY <1>1 DEF HandInv, OneFounder
<1>5. QED
  BY <1>2, <1>3, <1>4 DEF HandInv

\* The labels at which a handler minds an order, and those at which it relies on
\* nothing.
Keen == {"mark", "item", "clock"} \cup PayLabels
Mindless == {"idle", "lock", "prepay", "clock", "LABEL_PENDING", "LABEL_CREATED", "SHIPPED",
             "DELIVERED", "dispute", "giveUp", "recover", "release", "cancel", "pay",
             "payRecover", "payRelease"}

LEMMA MindlessRelies ==
  ASSUME NEW k \in Slots, job'[k].at \in Mindless
  PROVE  Relies(k)'
BY DEF Relies, Mindless, Discarding, Listing

LEMMA NotKeen == ASSUME NEW k, job[k].at \notin Keen, NEW o PROVE ~Minds(k, o)
BY DEF Keen, Minds

\* A step that writes no row of these.
LEMMA HandRest ==
  ASSUME Inv, HandInv, NEW k \in Slots, NEW j, Becomes(k, j),
         UNCHANGED <<status, deadline, window, item, parcelOf, locked, outcome, faults>>,
         job[k].at \notin Keen, j.at \notin Founding, Relies(k)'
  PROVE  HandInv'
<1>1. \A o \in Orders : Steady(k, o)
  BY DEF Steady
<1>2. \A o \in Orders : RowsAgree(o)'
  BY DEF HandInv, RowsAgree
<1>3. \A o \in Orders : (Unminded(o)' => Unminded(o)) /\ ~Minds(k, o)
  BY NotKeen DEF Unminded, InEscrow, Waits
<1>4. QED
  BY <1>1, <1>2, <1>3, HandKeep

\* A write of the status of one order, after its settlement.
LEMMA HandWrite ==
  ASSUME Inv, HandInv, NEW k \in Slots, NEW j, Becomes(k, j),
         NEW o \in Orders, NEW st \in Past, status' = [status EXCEPT ![o] = st],
         status[o] \notin {"NONE", "PENDING_SETTLEMENT"},
         st = "SHIPPED" => parcelOf[o] # None \/ o \in ByHand,
         \A p \in Orders \ {o} : window'[p] = window[p] /\ ~Minds(k, p),
         UNCHANGED <<deadline, item, parcelOf, locked, outcome, faults>>,
         Unminded(o)' => Minds(k, o)',
         j.at \notin Founding, Relies(k)'
  PROVE  HandInv'
<1>1. status'[o] = st /\ \A p \in Orders \ {o} : status'[p] = status[p]
  BY DEF Inv, TypeOK
<1>2. \A p \in Orders : Steady(k, p)
  BY <1>1 DEF Steady, Past
<1>3. \A p \in Orders : RowsAgree(p)'
  BY <1>1 DEF HandInv, RowsAgree, Past
<1>4. \A p \in Orders \ {o} : (Unminded(p)' => Unminded(p)) /\ ~Minds(k, p)
  BY <1>1 DEF Unminded, InEscrow, Waits
<1>5. QED
  BY <1>1, <1>2, <1>3, <1>4, HandKeep

\* A write of items, none of which a LOCKED order waits for.
LEMMA HandDiscard ==
  ASSUME Inv, HandInv, NEW k \in Slots, NEW j, Becomes(k, j),
         NEW o \in Orders, Discard(o) \/ DiscardReady(o),
         status[o] \in Past, item[o] = "NONE" => item' = item,
         UNCHANGED <<status, deadline, window, parcelOf, locked, outcome, faults>>,
         job[k].at \notin Keen, j.at \notin Founding, Relies(k)'
  PROVE  HandInv'
<1>1. /\ \A p \in Orders \ {o} : item'[p] = item[p]
      /\ item'[o] \in {item[o], "DISCARDED"} /\ (item[o] = "NONE" => item'[o] = "NONE")
  BY DEF Inv, TypeOK, Discard, DiscardReady
<1>2. \A p \in Orders : Steady(k, p)
  BY <1>1 DEF Steady
<1>3. \A p \in Orders : RowsAgree(p)'
  BY <1>1 DEF HandInv, RowsAgree, Past
<1>4. \A p \in Orders : (Unminded(p)' => Unminded(p)) /\ ~Minds(k, p)
  BY <1>1, NotKeen DEF Unminded, InEscrow, Waits, Past
<1>5. QED
  BY <1>2, <1>3, <1>4, HandKeep

\* A step that writes no row of these and leaves the slot where it relies on nothing.
LEMMA HandCalm ==
  ASSUME Inv, HandInv, NEW k \in Slots, NEW at \in Mindless \ Founding, Lands(k, at),
         UNCHANGED <<status, deadline, window, item, parcelOf, locked, outcome, faults>>,
         job[k].at \notin Keen
  PROVE  HandInv'
<1>1. Becomes(k, job'[k]) /\ job'[k].at = at
  BY DEF Lands, Becomes
<1>2. QED
  BY <1>1, MindlessRelies, HandRest

LEMMA CalmLabels ==
  {"idle", "prepay", "clock", "dispute", "giveUp", "recover", "release", "cancel", "pay",
   "payRecover", "payRelease"} \cup Moves \subseteq (Mindless \ Founding) \cap Labels
BY DEF Mindless, Founding, Moves, Labels

LEMMA FreeMinds == ASSUME NEW k, Free(k) PROVE job[k].at \notin Keen
BY IdleJob DEF Free, Keen, PayLabels

\* An order past settlement that is not LOCKED is past LOCKED.
LEMMA PastLocked ==
  ASSUME Inv, HandInv, NEW o \in Orders, status[o] # "LOCKED",
         item[o] # "NONE" \/ status[o] \notin {"NONE", "PENDING_SETTLEMENT"}
  PROVE  status[o] \in Past
BY DEF Inv, TypeOK, HandInv, RowsAgree, Past

\* Buyers pay shipping: the items of a shipment are there.
LEMMA HandOpens ==
  ASSUME Inv, HandInv, NEW k \in Slots, NEW s \in Shipments, NEW O, O \subseteq Orders,
         OpenShipment(k, O, s), \A o \in O : item[o] = "READY_TO_SHIP",
         UNCHANGED <<status, deadline, window, item, parcelOf, locked, outcome, faults>>,
         job[k].at \notin Keen
  PROVE  HandInv'
<1> DEFINE j == [Idle EXCEPT !.at = "charge", !.todo = O \X {"pack"}, !.parcel = s]
<1>1. Becomes(k, j) /\ j.at = "charge" /\ j.todo = O \X {"pack"}
  BY DEF OpenShipment, Idle, Becomes
<1> HIDE DEF j
<1>2. job'[k] = j
  BY <1>1 DEF Inv, TypeOK, Becomes
<1>3. Relies(k)'
  BY <1>1, <1>2 DEF Relies, Discarding
<1>4. QED
  BY <1>1, <1>3, HandRest DEF Founding

LEMMA HandShips ==
  ASSUME Inv, HandInv, NEW k \in Slots,
         \/ \E s \in Shipments : \/ \E O \in SUBSET Orders : RequestShipment(k, O, s)
                                 \/ ReadShipment(k, s) \/ PrepayShipping(k, s)
         \/ ChargeShipping(k) \/ MarkPaid(k)
  PROVE  HandInv'
<1>1. ASSUME NEW s \in Shipments, NEW O \in SUBSET Orders, RequestShipment(k, O, s)
      PROVE  HandInv'
  BY <1>1, HandOpens, FreeMinds DEF RequestShipment, orderVars, moneyVars
<1>2. ASSUME NEW s \in Shipments, ReadShipment(k, s) PROVE HandInv'
  <2> DEFINE j == [Idle EXCEPT !.at = NextStatus[shipment[s]], !.parcel = s]
  <2>1. /\ Becomes(k, j) /\ j.at = NextStatus[shipment[s]]
        /\ UNCHANGED <<orderVars, goodsVars, moneyVars, faults>>
        /\ shipment[s] \in DOMAIN NextStatus
    BY <1>2 DEF ReadShipment, Idle, Becomes
  <2>2. NextStatus[shipment[s]] \in Moves
    BY <2>1, NextLabels
  <2> HIDE DEF j
  <2>3. Lands(k, NextStatus[shipment[s]])
    BY <2>1 DEF Inv, TypeOK, Lands, Becomes
  <2>4. job[k].at \notin Keen
    BY <1>2, FreeMinds DEF ReadShipment
  <2>5. QED
    BY <2>1, <2>2, <2>3, <2>4, CalmLabels, HandCalm DEF orderVars, goodsVars, moneyVars
<1>3. ASSUME NEW s \in Shipments, PrepayShipping(k, s) PROVE HandInv'
  <2>1. /\ UNCHANGED <<status, deadline, window, item, parcelOf, locked, outcome, faults>>
        /\ job[k].at = "prepay" /\ job[k].at \notin Keen
    BY <1>3 DEF PrepayShipping, At, Keen, PayLabels, orderVars, moneyVars
  <2>2. job[k].order \in Orders
    BY <2>1, JobKnows DEF WithOrder
  <2>3. CASE item[job[k].order] = "READY_TO_SHIP"
    BY <1>3, <2>1, <2>2, <2>3, HandOpens DEF PrepayShipping
  <2>4. CASE End(k)
    BY <2>1, <2>4, Landings, CalmLabels, HandCalm
  <2>5. QED
    BY <1>3, <2>3, <2>4 DEF PrepayShipping
<1>4. CASE ChargeShipping(k) \/ MarkPaid(k)
  <2>1. /\ UNCHANGED <<status, deadline, window, item, parcelOf, locked, outcome, faults>>
        /\ job[k].at \in {"charge", "paid"} /\ job[k].at \notin Keen
        /\ GoTo(k, "paid") \/ GoTo(k, "pack") \/ End(k)
    BY <1>4 DEF ChargeShipping, MarkPaid, At, Keen, PayLabels, orderVars, moneyVars
  <2>2. CASE End(k)
    BY <2>1, <2>2, Landings, CalmLabels, HandCalm
  <2>3. ASSUME NEW at \in {"paid", "pack"}, GoTo(k, at) PROVE HandInv'
    <3>1. PICK j \in Jobs : Becomes(k, j) /\ j.at = at /\ j.todo = job[k].todo
      BY <2>3, GoToJob DEF Labels
    <3>2. job'[k] = j
      BY <3>1 DEF Inv, TypeOK, Becomes
    <3>3. \A e \in j.todo : item'[e[1]] # "NONE"
      BY <2>1, <3>1 DEF HandInv, Relies, Listing
    <3>4. Relies(k)'
      BY <2>3, <3>1, <3>2, <3>3 DEF Relies, Discarding
    <3>5. QED
      BY <2>1, <2>3, <3>1, <3>4, HandRest DEF Founding
  <2>4. QED
    BY <2>1, <2>2, <2>3
<1>5. QED
  BY <1>1, <1>2, <1>3, <1>4

\* Handlers that read an order, or a list of them.
LEMMA HandReads ==
  ASSUME Inv, HandInv, NEW k \in Slots,
         \/ AdvanceRead(k)
         \/ \E o \in Orders : \/ \E goal \in {"SHIPPED", "DISPUTE_WINDOW"} :
                                   MarkByHand(k, o, goal)
                              \/ OpenDispute(k, o) \/ GiveUp(k, o)
  PROVE  HandInv'
<1>0. UNCHANGED <<status, deadline, window, item, parcelOf, locked, outcome, faults>>
  BY DEF AdvanceRead, MarkByHand, OpenDispute, GiveUp, orderVars, goodsVars, moneyVars
<1>1. CASE AdvanceRead(k)
  <2>1. job[k].at = "advance" /\ job[k].at \notin Keen
    BY <1>1 DEF AdvanceRead, At, Keen, PayLabels
  <2>2. Relies(k) /\ \A e \in job[k].todo : parcelOf[e[1]] # None
    BY <2>1 DEF HandInv, Relies
  <2>3. CASE End(k)
    BY <1>0, <2>1, <2>3, Landings, CalmLabels, HandCalm
  <2>4. ASSUME NEW e \in job[k].todo, status[e[1]] \in {"LOCKED", "SHIPPED"},
               Take(k, e, "write")
        PROVE  HandInv'
    <3>1. PICK j \in Jobs : /\ Becomes(k, j) /\ j.at = "write" /\ j.order = e[1]
                            /\ j.todo \subseteq job[k].todo
      BY <2>4, TakeJob DEF Labels
    <3>2. job'[k] = j
      BY <3>1 DEF Inv, TypeOK, Becomes
    <3>3. Relies(k)'
      BY <1>0, <2>2, <2>4, <3>1, <3>2 DEF Relies, Discarding, Listing
    <3>4. QED
      BY <1>0, <2>1, <3>1, <3>3, HandRest DEF Founding
  <2>5. ASSUME NEW e, Skip(k, e) PROVE HandInv'
    <3>1. PICK j \in Jobs : /\ Becomes(k, j) /\ j.at = job[k].at
                            /\ j.todo \subseteq job[k].todo
      BY <2>5, SkipJob
    <3>2. job'[k] = j
      BY <3>1 DEF Inv, TypeOK, Becomes
    <3>3. Relies(k)'
      BY <1>0, <2>1, <2>2, <3>1, <3>2 DEF Relies, Discarding, Listing
    <3>4. QED
      BY <1>0, <2>1, <3>1, <3>3, HandRest DEF Founding
  <2>6. QED
    BY <1>1, <2>3, <2>4, <2>5 DEF AdvanceRead
<1>2. ASSUME NEW o \in Orders, NEW goal \in {"SHIPPED", "DISPUTE_WINDOW"},
             MarkByHand(k, o, goal)
      PROVE  HandInv'
  <2>1. /\ Begin(k, "write", o, goal) /\ o \in ByHand /\ status[o] \in {"LOCKED", "SHIPPED"}
        /\ job[k].at \notin Keen
    BY <1>2, FreeMinds DEF MarkByHand, Begin
  <2>0. "write" \in Labels /\ goal \in Tasks
    BY DEF Labels, Tasks
  <2>2. PICK j \in Jobs : Becomes(k, j) /\ j.at = "write" /\ j.order = o /\ j.todo = {}
    BY <2>0, <2>1, BeginJob
  <2>3. job'[k] = j
    BY <2>2 DEF Inv, TypeOK, Becomes
  <2>4. Relies(k)'
    BY <1>0, <2>1, <2>2, <2>3 DEF Relies, Discarding, Listing
  <2>5. QED
    BY <1>0, <2>1, <2>2, <2>4, HandRest DEF Founding
<1>3. ASSUME NEW o \in Orders, OpenDispute(k, o) PROVE HandInv'
  <2>1. Begin(k, "dispute", o, "dispute") /\ job[k].at \notin Keen
    BY <1>3, FreeMinds DEF OpenDispute, Begin
  <2>2. QED
    BY <1>0, <2>1, Landings, CalmLabels, HandCalm
<1>4. ASSUME NEW o \in Orders, GiveUp(k, o) PROVE HandInv'
  <2>1. /\ item[o] = "READY_TO_SHIP" /\ job[k].at \notin Keen
        /\ \/ Begin(k, "giveUp", o, "release")
           \/ Begin(k, "discard", o, "release") /\ status[o] # "LOCKED"
    BY <1>4, FreeMinds DEF GiveUp, Begin
  <2>2. CASE Begin(k, "giveUp", o, "release")
    BY <1>0, <2>1, <2>2, Landings, CalmLabels, HandCalm
  <2>3. CASE Begin(k, "discard", o, "release") /\ status[o] # "LOCKED"
    <3>1. PICK j \in Jobs : Becomes(k, j) /\ j.at = "discard" /\ j.order = o
      BY <2>3, BeginJob DEF Labels, Tasks
    <3>2. job'[k] = j
      BY <3>1 DEF Inv, TypeOK, Becomes
    <3>3. status[o] \in Past
      BY <2>1, <2>3, PastLocked
    <3>4. Relies(k)'
      BY <1>0, <3>1, <3>2, <3>3 DEF Relies, Listing
    <3>5. QED
      BY <1>0, <2>1, <3>1, <3>4, HandRest DEF Founding
  <2>4. QED
    BY <2>1, <2>2, <2>3
<1>5. QED
  BY <1>1, <1>2, <1>3, <1>4

\* The lists of the timers.
LEMMA HandEnter ==
  ASSUME Inv, HandInv, NEW k \in Slots, NEW i \in Nat, i > 0, Enter(k, i),
         UNCHANGED <<status, deadline, window, item, parcelOf, locked, outcome, faults>>,
         job[k].at \notin Keen
  PROVE  HandInv'
<1>1. PICK h \in i..4 :
        job' = [job EXCEPT ![k] = [Idle EXCEPT !.at = Sections[h], !.todo = Listed(h)]]
  BY DEF Enter
<1>2. h \in 1..4
  OBVIOUS
<1> DEFINE j == [Idle EXCEPT !.at = Sections[h], !.todo = Listed(h)]
<1>3. j.at = Sections[h] /\ j.todo = Listed(h) /\ Becomes(k, j)
  BY <1>1 DEF Idle, Becomes
<1>4. \/ Sections[h] \in {"recover", "release", "cancel"}
      \/ h = 4 /\ Sections[h] = "abandon"
  BY <1>2 DEF Sections
<1> HIDE DEF j
<1>5. job'[k] = j
  BY <1>3 DEF Inv, TypeOK, Becomes
<1>6. \A e \in Listed(4) : item[e[1]] # "NONE"
  BY DEF Listed
<1>7. Relies(k)'
  BY <1>3, <1>4, <1>5, <1>6 DEF Relies, Discarding, Listing
<1>8. QED
  BY <1>3, <1>4, <1>7, HandRest DEF Founding

LEMMA HandTimers ==
  ASSUME Inv, HandInv, NEW k \in Slots,
         \/ OrderTimer(k) \/ NextSection(k) \/ Recover(k) \/ CheckAbandoned(k)
         \/ FulfillmentTimer(k) \/ Sweep(k)
  PROVE  HandInv'
<1>0. UNCHANGED <<status, deadline, window, item, parcelOf, locked, outcome, faults>>
  BY DEF OrderTimer, NextSection, Recover, CheckAbandoned, FulfillmentTimer, Sweep,
     orderVars, goodsVars, moneyVars
<1>1. CASE OrderTimer(k)
  <2>1. job[k].at \notin Keen
    BY <1>1, FreeMinds DEF OrderTimer
  <2>2. QED
    BY <1>0, <1>1, <2>1, HandEnter DEF OrderTimer
<1>2. CASE NextSection(k)
  <2>1. job[k].at \notin Keen
    BY <1>2 DEF NextSection, At, Sections, Keen, PayLabels
  <2>2. ASSUME NEW i \in 1..4, Enter(k, i + 1) PROVE HandInv'
    <3>1. i + 1 \in Nat /\ i + 1 > 0
      OBVIOUS
    <3>2. QED
      BY <1>0, <2>1, <2>2, <3>1, HandEnter
  <2>3. ASSUME End(k) PROVE HandInv'
    BY <1>0, <2>1, <2>3, Landings, CalmLabels, HandCalm
  <2>4. QED
    BY <1>2, <2>2, <2>3 DEF NextSection
<1>3. CASE Recover(k)
  <2>1. job[k].at \notin Keen
    BY <1>3 DEF Recover, At, Keen, PayLabels
  <2>2. QED
    BY <1>0, <1>3, <2>1, Landings, CalmLabels, HandCalm DEF Recover
<1>4. CASE FulfillmentTimer(k)
  <2> DEFINE j == [Idle EXCEPT !.at = "sweep", !.todo = Listed(4)]
  <2>1. j.at = "sweep" /\ j.todo = Listed(4) /\ Becomes(k, j) /\ job[k].at \notin Keen
    BY <1>4, FreeMinds DEF FulfillmentTimer, Idle, Becomes
  <2> HIDE DEF j
  <2>2. job'[k] = j
    BY <2>1 DEF Inv, TypeOK, Becomes
  <2>3. \A e \in Listed(4) : item[e[1]] # "NONE"
    BY DEF Listed
  <2>4. Relies(k)'
    BY <1>0, <2>1, <2>2, <2>3 DEF Relies, Discarding, Listing
  <2>5. QED
    BY <1>0, <2>1, <2>4, HandRest DEF Founding
<1>5. CASE CheckAbandoned(k) \/ Sweep(k)
  <2>1. /\ job[k].at \in {"abandon", "sweep"} /\ job[k].at \notin Keen
        /\ \/ \E e \in job[k].todo :
                \/ Skip(k, e)
                \/ Take(k, e, "forfeit") /\ status[e[1]] = "LOCKED"
                \/ Take(k, e, "sweptItem") /\ status[e[1]] # "LOCKED"
           \/ End(k)
    BY <1>5 DEF CheckAbandoned, Sweep, At, Keen, PayLabels
  <2>2. \A e \in job[k].todo : item[e[1]] # "NONE"
    BY <2>1 DEF HandInv, Relies, Listing
  <2>3. ASSUME NEW e, Skip(k, e) PROVE HandInv'
    <3>1. PICK j \in Jobs : /\ Becomes(k, j) /\ j.at = job[k].at
                            /\ j.todo \subseteq job[k].todo
      BY <2>3, SkipJob
    <3>2. job'[k] = j
      BY <3>1 DEF Inv, TypeOK, Becomes
    <3>3. Relies(k)'
      BY <1>0, <2>1, <2>2, <3>1, <3>2 DEF Relies, Discarding
    <3>4. QED
      BY <1>0, <2>1, <3>1, <3>3, HandRest DEF Founding
  <2>4. ASSUME NEW e \in job[k].todo, NEW at \in {"forfeit", "sweptItem"}, Take(k, e, at),
               at = "forfeit" => status[e[1]] = "LOCKED",
               at = "sweptItem" => status[e[1]] # "LOCKED"
        PROVE  HandInv'
    <3>1. e[1] \in Orders /\ at \in Labels
      BY <2>4, TakeJob DEF Labels
    <3>2. PICK j \in Jobs : /\ Becomes(k, j) /\ j.at = at /\ j.order = e[1]
                            /\ j.todo \subseteq job[k].todo
      BY <2>4, <3>1, TakeJob
    <3>3. job'[k] = j
      BY <3>2 DEF Inv, TypeOK, Becomes
    <3>4. at = "sweptItem" => status[e[1]] \in Past
      BY <2>2, <2>4, <3>1, PastLocked
    <3>5. Relies(k)'
      BY <1>0, <2>2, <2>4, <3>2, <3>3, <3>4 DEF Relies, Discarding
    <3>6. QED
      BY <1>0, <2>1, <2>4, <3>2, <3>5, HandRest DEF Founding
  <2>5. CASE End(k)
    BY <1>0, <2>1, <2>5, Landings, CalmLabels, HandCalm
  <2>6. QED
    BY <2>1, <2>3, <2>4, <2>5
<1>6. QED
  BY <1>1, <1>2, <1>3, <1>4, <1>5

\* A settlement: each of its statements leaves the next one to its handler.
LEMMA HandFounds ==
  ASSUME Inv, HandInv, NEW k \in Slots,
         \/ \E o \in Orders : CreateOrder(k, o)
         \/ LockFunds(k) \/ MarkLocked(k) \/ CreateItem(k) \/ ReleaseNft(k)
  PROVE  HandInv'
<1>0. /\ job \in [Slots -> Jobs] /\ status \in [Orders -> OrderStatus]
      /\ item \in [Orders -> ItemStatus] /\ deadline \in [Orders -> {"none", "running", "past"}]
      /\ Relies(k) /\ Fits(job[k], status, locked)
  BY DEF Inv, TypeOK, HandInv, JobsFit
<1>1. ASSUME NEW o \in Orders, CreateOrder(k, o) PROVE HandInv'
  <2>1. /\ status[o] = "NONE" /\ status' = [status EXCEPT ![o] = "PENDING_SETTLEMENT"]
        /\ Begin(k, "lock", o, "settle") /\ job[k].at \notin Keen
        /\ UNCHANGED <<deadline, window, item, parcelOf, locked, outcome, faults>>
    BY <1>1, FreeMinds DEF CreateOrder, Begin, Write, goodsVars, moneyVars
  <2>2. PICK j \in Jobs : Becomes(k, j) /\ j.at = "lock" /\ j.order = o
    BY <2>1, BeginJob DEF Labels, Tasks
  <2>3. /\ status'[o] = "PENDING_SETTLEMENT" /\ \A p \in Orders \ {o} : status'[p] = status[p]
        /\ job'[k] = j /\ o \notin locked /\ item[o] = "NONE"
    BY <1>0, <2>1, <2>2 DEF Becomes, Inv, Fresh, HandInv, RowsAgree
  <2>4. \A p \in Orders : Steady(k, p) /\ RowsAgree(p)'
    BY <2>1, <2>3 DEF Steady, RowsAgree, HandInv, Past
  <2>5. Relies(k)'
    BY <2>2, <2>3, MindlessRelies DEF Mindless
  <2>6. \A h \in Slots \ {k} : job[h].at \in Founding => job[h].order # o
    BY <2>1 DEF HandInv, Relies, Inv, JobsFit, Fits, Founding
  <2>7. \A p \in Orders : Unminded(p)' => /\ Unminded(p) /\ status'[p] = status[p]
                                          /\ ~Minds(k, p)
    BY <2>1, <2>3, NotKeen DEF Unminded, InEscrow, Waits
  <2>8. QED
    BY <2>1, <2>2, <2>4, <2>5, <2>6, <2>7, HandKeep
<1>2. CASE LockFunds(k)
  <2>0. PICK o \in Orders : job[k].order = o
    BY <1>0, <1>2 DEF LockFunds, At, Fits, WithOrder
  <2>1. /\ job[k].at = "lock" /\ o \in Orders /\ status[o] = "PENDING_SETTLEMENT"
        /\ job[k].at \notin Keen
        /\ UNCHANGED <<status, deadline, window, item, parcelOf, outcome, faults>>
        /\ (GoTo(k, "mark") /\ locked' = locked \cup {o}) \/ (End(k) /\ locked' = locked)
    BY <2>0, <1>0, <1>2 DEF LockFunds, At, Fits, WithOrder, Keen, PayLabels, orderVars, goodsVars
  <2>2. CASE End(k) /\ locked' = locked
    BY <2>0, <2>1, <2>2, Landings, CalmLabels, HandCalm
  <2>3. CASE GoTo(k, "mark") /\ locked' = locked \cup {o}
    <3>1. PICK j \in Jobs : Becomes(k, j) /\ j.at = "mark" /\ j.order = o
      BY <2>0, <2>3, GoToJob DEF Labels
    <3>2. job'[k] = j
      BY <2>0, <1>0, <3>1 DEF Becomes
    <3>3. Relies(k)' /\ Minds(k, o)'
      BY <2>0, <2>1, <3>1, <3>2 DEF Relies, Minds, Discarding, Listing
    <3>4. \A p \in Orders : Steady(k, p) /\ RowsAgree(p)'
      BY <2>0, <2>1 DEF Steady, RowsAgree, HandInv
    <3>5. \A h \in Slots \ {k} : job[h].at \in Founding => job[h].order # o
      BY <2>0, <2>1 DEF HandInv, OneFounder, Founding
    <3>6. \A p \in Orders \ {o} : Unminded(p)' => Unminded(p) /\ ~Minds(k, p)
      BY <2>0, <2>1, <2>3, NotKeen DEF Unminded, InEscrow, Waits
    <3>7. QED
      BY <2>0, <2>1, <3>1, <3>3, <3>4, <3>5, <3>6, HandKeep
  <2>4. QED
    BY <2>0, <2>1, <2>2, <2>3
<1>3. CASE MarkLocked(k)
  <2>0. PICK o \in Orders : job[k].order = o
    BY <1>0, <1>3 DEF MarkLocked, At, Fits, WithOrder
  <2>1. /\ job[k].at = "mark" /\ o \in Orders /\ status[o] = "PENDING_SETTLEMENT"
        /\ status' = [status EXCEPT ![o] = "LOCKED"] /\ GoTo(k, "item")
        /\ \A p \in Orders \ {o} : deadline'[p] = deadline[p]
        /\ UNCHANGED <<window, item, parcelOf, locked, outcome, faults>>
    BY <2>0, <1>0, <1>3 DEF MarkLocked, Write, At, Fits, Relies, WithOrder, goodsVars, moneyVars
  <2>2. PICK j \in Jobs : Becomes(k, j) /\ j.at = "item" /\ j.order = o
    BY <2>0, <2>1, GoToJob DEF Labels
  <2>3. /\ status'[o] = "LOCKED" /\ \A p \in Orders \ {o} : status'[p] = status[p]
        /\ job'[k] = j /\ item[o] = "NONE"
    BY <2>0, <1>0, <2>1, <2>2 DEF Becomes, HandInv, RowsAgree
  <2>4. \A p \in Orders \ {o} : ~Minds(k, p)
    BY <2>0, <2>1 DEF Minds, PayLabels
  <2>5. \A h \in Slots \ {k} : job[h].at \in Founding => job[h].order # o
    BY <2>0, <2>1 DEF HandInv, OneFounder, Founding
  <2>6. Steady(k, o)
    BY <2>0, <2>1, <2>3 DEF Steady, Past
  <2>7. Relies(k)' /\ Minds(k, o)'
    BY <2>0, <2>1, <2>2, <2>3 DEF Relies, Minds, Discarding, Listing
  <2>8. \A p \in Orders : Steady(k, p) /\ RowsAgree(p)'
    BY <2>0, <2>1, <2>3, <2>6 DEF Steady, RowsAgree, HandInv
  <2>9. \A p \in Orders \ {o} : Unminded(p)' => Unminded(p)
    BY <2>0, <2>1, <2>3 DEF Unminded, InEscrow, Waits
  <2>10. QED
    BY <2>0, <2>1, <2>2, <2>3, <2>4, <2>5, <2>7, <2>8, <2>9, HandKeep
<1>4. CASE CreateItem(k)
  <2>0. PICK o \in Orders : job[k].order = o
    BY <1>0, <1>4 DEF CreateItem, At, Fits, WithOrder
  <2>1. /\ job[k].at = "item" /\ o \in Orders /\ item[o] = "NONE"
        /\ status[o] \notin {"NONE", "PENDING_SETTLEMENT"}
        /\ item' = [item EXCEPT ![o] = "READY_TO_SHIP"]
        /\ GoTo(k, "prepay") \/ End(k)
        /\ UNCHANGED <<status, deadline, window, parcelOf, locked, outcome, faults>>
    BY <2>0, <1>0, <1>4 DEF CreateItem, At, Fits, Relies, WithOrder, orderVars, moneyVars
  <2>2. \E at \in {"prepay", "idle"} : Lands(k, at)
    BY <2>0, <2>1, Landings, CalmLabels
  <2>3. Becomes(k, job'[k]) /\ job'[k].at \in {"prepay", "idle"}
    BY <2>0, <2>2 DEF Lands, Becomes
  <2>4. /\ item'[o] = "READY_TO_SHIP" /\ \A p \in Orders \ {o} : item'[p] = item[p]
        /\ parcelOf[o] = None
    BY <2>0, <1>0, <2>1 DEF HandInv, RowsAgree
  <2>5. \A p \in Orders \ {o} : ~Minds(k, p)
    BY <2>0, <2>1 DEF Minds, PayLabels
  <2>6. Steady(k, o)
    BY <2>0, <2>1, <2>4 DEF Steady
  <2>7. ~Unminded(o)' \/ (Unminded(o) /\ ~Minds(k, o))
    BY <2>0, <2>1, <2>4 DEF Unminded, InEscrow, Waits, Minds, PayLabels
  <2>8. \A p \in Orders : Steady(k, p) /\ RowsAgree(p)'
    BY <2>0, <2>1, <2>4, <2>6 DEF Steady, RowsAgree, HandInv
  <2>9. \A p \in Orders \ {o} : Unminded(p)' => Unminded(p)
    BY <2>0, <2>1, <2>4 DEF Unminded, InEscrow, Waits
  <2>10. Relies(k)' /\ job'[k].at \notin Founding
    BY <2>0, <2>3, MindlessRelies DEF Mindless, Founding
  <2>11. QED
    BY <2>0, <2>1, <2>3, <2>5, <2>7, <2>8, <2>9, <2>10, HandKeep
<1>5. CASE ReleaseNft(k)
  <2>0. PICK o \in Orders : job[k].order = o
    BY <1>0, <1>5 DEF ReleaseNft, At, Fits, WithOrder
  <2>1. /\ job[k].at = "item" /\ o \in Orders
        /\ status[o] \notin {"NONE", "PENDING_SETTLEMENT"}
        /\ UNCHANGED <<deadline, window, item, parcelOf, locked, outcome, faults>>
    BY <2>0, <1>0, <1>5 DEF ReleaseNft, At, Fits, Relies, WithOrder, goodsVars, moneyVars
  <2>2. \A p \in Orders \ {o} : ~Minds(k, p)
    BY <2>0, <2>1 DEF Minds, PayLabels
  <2>3. CASE status[o] = "LOCKED"
    <3> DEFINE j == [job[k] EXCEPT !.at = "pay", !.task = "release"]
    <3>1. /\ status' = [status EXCEPT ![o] = "RELEASED"] /\ Becomes(k, j)
          /\ j.at = "pay" /\ j.order = o
      BY <2>0, <1>0, <1>5, <2>3 DEF ReleaseNft, Write, Becomes, Jobs
    <3> HIDE DEF j
    <3>2. job'[k] = j /\ status'[o] = "RELEASED" /\ "RELEASED" \in Past
      BY <2>0, <1>0, <2>1, <3>1 DEF Becomes, Past, OrderStatus
    <3>3. Relies(k)' /\ Minds(k, o)' /\ j.at \notin Founding
      BY <2>0, <3>1, <3>2, MindlessRelies DEF Mindless, Minds, Decided, PayLabels, Founding
    <3>4. QED
      BY <2>0, <2>1, <2>2, <3>1, <3>2, <3>3, HandWrite
  <2>4. CASE status[o] # "LOCKED"
    <3>1. End(k) /\ UNCHANGED status
      BY <2>0, <1>5, <2>4 DEF ReleaseNft
    <3>2. Becomes(k, job'[k]) /\ job'[k].at = "idle"
      BY <2>0, <3>1, Landings DEF Lands, Becomes
    <3>3. Relies(k)' /\ job'[k].at \notin Founding
      BY <2>0, <3>2, MindlessRelies DEF Mindless, Founding
    <3>4. ~Minds(k, o)
      BY <2>0, <2>1, <2>4 DEF Minds, PayLabels
    <3>5. \A p \in Orders : Steady(k, p) /\ RowsAgree(p)'
      BY <2>0, <2>1, <3>1 DEF Steady, RowsAgree, HandInv
    <3>6. \A p \in Orders : Unminded(p)' => Unminded(p)
      BY <2>0, <2>1, <3>1 DEF Unminded, InEscrow, Waits
    <3>7. QED
      BY <2>0, <2>1, <2>2, <3>1, <3>2, <3>3, <3>4, <3>5, <3>6, HandKeep
  <2>5. QED
    BY <2>0, <2>3, <2>4
<1>6. QED
  BY <1>1, <1>2, <1>3, <1>4, <1>5

\* A decision: the handler that took it goes on to move the money, or it has moved.
LEMMA HandDecide ==
  ASSUME Inv, HandInv, NEW k \in Slots, NEW j, Becomes(k, j),
         NEW o \in Orders, NEW st \in Decided \cup {"DISPUTED"}, Write(o, st),
         status[o] \notin {"NONE", "PENDING_SETTLEMENT"},
         UNCHANGED <<deadline, window, item, parcelOf, locked, outcome, faults>>,
         job[k].at \notin Keen, j.at \notin Founding, Relies(k)',
         \/ st = "DISPUTED"
         \/ outcome[o] # "none"
         \/ j.at \in PayLabels /\ j.order = o
  PROVE  HandInv'
<1>1. status' = [status EXCEPT ![o] = st] /\ st \in Past /\ st # "SHIPPED"
  BY DEF Write, Past, Decided, OrderStatus
<1>2. status'[o] = st /\ job'[k] = j
  BY <1>1 DEF Inv, TypeOK, Becomes
<1>3. Unminded(o)' => Minds(k, o)'
  BY <1>2 DEF Unminded, InEscrow, Waits, Minds
<1>4. \A p \in Orders \ {o} : window'[p] = window[p] /\ ~Minds(k, p)
  BY NotKeen
<1>5. QED
  BY <1>1, <1>3, <1>4, HandWrite

\* The decisions of users and admins, on an order at rest.
LEMMA HandDecides ==
  ASSUME Inv, HandInv, NEW k \in Slots,
         \/ \E o \in Orders :
              \/ \E task \in {"release", "refund"} : ResolveDispute(k, o, task)
              \/ ReleaseNow(k, o)
         \/ ClaimDispute(k) \/ ClaimGivenUp(k)
  PROVE  HandInv'
<1>0. UNCHANGED <<deadline, window, item, parcelOf, locked, outcome, faults>>
  BY DEF ResolveDispute, ReleaseNow, ClaimDispute, ClaimGivenUp, goodsVars, moneyVars
<1>1. ASSUME NEW o \in Orders, NEW task \in {"release", "refund"}, NEW st \in Decided,
             Write(o, st), Begin(k, "pay", o, task),
             status[o] \notin {"NONE", "PENDING_SETTLEMENT"}
      PROVE  HandInv'
  <2>1. PICK j \in Jobs : Becomes(k, j) /\ j.at = "pay" /\ j.order = o
    BY <1>1, BeginJob DEF Labels, Tasks
  <2>2. job'[k] = j
    BY <2>1 DEF Inv, TypeOK, Becomes
  <2>3. Relies(k)' /\ j.at \in PayLabels \ Founding
    BY <2>1, <2>2, MindlessRelies DEF Mindless, PayLabels, Founding
  <2>4. job[k].at \notin Keen
    BY <1>1, FreeMinds DEF Begin
  <2>5. QED
    BY <1>0, <1>1, <2>1, <2>3, <2>4, HandDecide
<1>2. ASSUME NEW o \in Orders, NEW task \in {"release", "refund"}, ResolveDispute(k, o, task)
      PROVE  HandInv'
  <2> DEFINE st == IF task = "release" THEN "RELEASED" ELSE "REFUNDED"
  <2>1. Write(o, st) /\ Begin(k, "pay", o, task) /\ status[o] = "DISPUTED" /\ st \in Decided
    BY <1>2 DEF ResolveDispute, Decided
  <2> HIDE DEF st
  <2>2. QED
    BY <1>1, <2>1
<1>3. ASSUME NEW o \in Orders, ReleaseNow(k, o) PROVE HandInv'
  <2>1. /\ Write(o, "RELEASED") /\ Begin(k, "pay", o, "release")
        /\ status[o] = "DISPUTE_WINDOW" /\ "RELEASED" \in Decided
    BY <1>3 DEF ReleaseNow, Decided
  <2>2. QED
    BY <1>1, <2>1
<1>4. CASE ClaimDispute(k)
  <2>0. PICK o \in Orders : job[k].order = o
    BY <1>4, JobKnows DEF ClaimDispute, At, WithOrder
  <2>1. End(k) /\ job[k].at \notin Keen
    BY <1>4 DEF ClaimDispute, At, Keen, PayLabels
  <2>2. Becomes(k, job'[k]) /\ job'[k].at = "idle"
    BY <2>1, Landings DEF Lands, Becomes
  <2>3. Relies(k)' /\ job'[k].at \notin Founding
    BY <2>2, MindlessRelies DEF Mindless, Founding
  <2>4. CASE status[o] = "DISPUTE_WINDOW"
    <3>1. Write(o, "DISPUTED")
      BY <1>4, <2>0, <2>4 DEF ClaimDispute
    <3>2. QED
      BY <1>0, <2>1, <2>2, <2>3, <2>4, <3>1, HandDecide
  <2>5. CASE status[o] # "DISPUTE_WINDOW"
    <3>1. UNCHANGED status
      BY <1>4, <2>0, <2>5 DEF ClaimDispute
    <3>2. QED
      BY <1>0, <2>1, <2>2, <2>3, <3>1, HandRest
  <2>6. QED
    BY <2>4, <2>5
<1>5. CASE ClaimGivenUp(k)
  <2>0. PICK o \in Orders : job[k].order = o
    BY <1>5, JobKnows DEF ClaimGivenUp, At, WithOrder
  <2>1. job[k].at = "giveUp" /\ job[k].at \notin Keen
    BY <1>5 DEF ClaimGivenUp, At, Keen, PayLabels
  <2>2. CASE status[o] = "LOCKED" /\ deadline[o] = "none"
    <3>1. Write(o, "RELEASED") /\ GoTo(k, "payDiscard")
      BY <1>5, <2>0, <2>2 DEF ClaimGivenUp, Claim
    <3>2. PICK j \in Jobs : Becomes(k, j) /\ j.at = "payDiscard" /\ j.order = o
      BY <2>0, <3>1, GoToJob DEF Labels
    <3>3. job'[k] = j /\ status'[o] = "RELEASED"
      BY <3>1, <3>2 DEF Inv, TypeOK, Becomes, Write
    <3>4. Relies(k)'
      BY <3>2, <3>3 DEF Relies, Listing, Past, OrderStatus
    <3>5. j.at \in PayLabels \ Founding /\ "RELEASED" \in Decided
      BY <3>2 DEF PayLabels, Founding, Decided
    <3>6. status[o] \notin {"NONE", "PENDING_SETTLEMENT"}
      BY <2>2
    <3>7. QED
      BY <1>0, <2>1, <3>1, <3>2, <3>4, <3>5, <3>6, HandDecide
  <2>3. CASE ~(status[o] = "LOCKED" /\ deadline[o] = "none")
    <3>1. End(k) /\ UNCHANGED status
      BY <1>5, <2>0, <2>3 DEF ClaimGivenUp, Claim
    <3>2. QED
      BY <1>0, <2>1, <3>1, Landings, CalmLabels, HandCalm
  <2>4. QED
    BY <2>2, <2>3
<1>6. QED
  BY <1>2, <1>3, <1>4, <1>5

\* The decisions of the timers.
LEMMA HandClaims ==
  ASSUME Inv, HandInv, NEW k \in Slots,
         ReleaseDue(k) \/ CancelDue(k) \/ ForfeitOrder(k) \/ MarkRefunded(k)
  PROVE  HandInv'
<1>0. UNCHANGED <<deadline, window, item, parcelOf, locked, outcome, faults>>
  BY DEF ReleaseDue, CancelDue, ClaimListed, ForfeitOrder, MarkRefunded, goodsVars, moneyVars
<1>1. ASSUME NEW section, NEW from, NEW to, NEW won, ClaimListed(k, section, from, to, won),
             \/ /\ section = "release" /\ from = "DISPUTE_WINDOW" /\ to = "RELEASED"
                /\ won = "payRelease"
             \/ /\ section = "cancel" /\ from = "LOCKED" /\ to = "CANCELED"
                /\ won = "payCancel"
      PROVE  HandInv'
  <2>1. job[k].at = section /\ job[k].at \notin Keen
    BY <1>1 DEF ClaimListed, At, Keen, PayLabels
  <2>2. ASSUME NEW e \in job[k].todo, status[e[1]] = from, Write(e[1], to), Take(k, e, won)
        PROVE  HandInv'
    <3>1. won \in Labels /\ won \in PayLabels \ Founding
      BY <1>1 DEF Labels, PayLabels, Founding
    <3>2. /\ e[1] \in Orders
          /\ \E j \in Jobs : Becomes(k, j) /\ j.at = won /\ j.order = e[1]
      BY <2>2, <3>1, TakeJob
    <3>3. PICK o \in Orders : o = e[1]
      BY <3>2
    <3>4. PICK j \in Jobs : Becomes(k, j) /\ j.at = won /\ j.order = o
      BY <3>2, <3>3
    <3>5. job'[k] = j /\ status'[o] = to
      BY <2>2, <3>3, <3>4 DEF Inv, TypeOK, Becomes, Write
    <3>6. to \in Past /\ to \in Decided
      BY <1>1 DEF Past, Decided, OrderStatus
    <3>7. Relies(k)'
      BY <1>1, <3>4, <3>5, <3>6 DEF Relies, Listing
    <3>8. status[o] \notin {"NONE", "PENDING_SETTLEMENT"} /\ Write(o, to)
      BY <1>1, <2>2, <3>3
    <3>9. QED
      BY <1>0, <2>1, <3>1, <3>4, <3>6, <3>7, <3>8, HandDecide
  <2>3. ASSUME NEW e, Skip(k, e), UNCHANGED status PROVE HandInv'
    <3>1. Lands(k, section) /\ section \in Mindless \ Founding
      BY <1>1, <2>1, <2>3, Landings DEF Mindless, Founding
    <3>2. QED
      BY <1>0, <2>1, <2>3, <3>1, HandCalm
  <2>4. QED
    BY <1>1, <2>2, <2>3 DEF ClaimListed
<1>2. CASE ReleaseDue(k) \/ CancelDue(k)
  BY <1>1, <1>2 DEF ReleaseDue, CancelDue
<1>3. CASE ForfeitOrder(k)
  <2>0. PICK o \in Orders : job[k].order = o
    BY <1>3, JobKnows DEF ForfeitOrder, At, WithOrder
  <2>1. /\ job[k].at = "forfeit" /\ job[k].at \notin Keen
        /\ status[o] \notin {"NONE", "PENDING_SETTLEMENT"} /\ item[o] # "NONE"
        /\ \A e \in job[k].todo : item[e[1]] # "NONE"
    BY <1>3, <2>0 DEF ForfeitOrder, At, Keen, PayLabels, HandInv, Relies, Listing
  <2>2. CASE status[o] = "LOCKED"
    <3>1. Write(o, "RELEASED") /\ GoTo(k, "payForfeit")
      BY <1>3, <2>0, <2>2 DEF ForfeitOrder, Claim
    <3>2. PICK j \in Jobs : /\ Becomes(k, j) /\ j.at = "payForfeit" /\ j.order = o
                            /\ j.todo = job[k].todo
      BY <2>0, <3>1, GoToJob DEF Labels
    <3>3. job'[k] = j /\ status'[o] = "RELEASED"
      BY <3>1, <3>2 DEF Inv, TypeOK, Becomes, Write
    <3>4. Relies(k)'
      BY <1>0, <2>1, <3>2, <3>3 DEF Relies, Past, OrderStatus
    <3>5. j.at \in PayLabels \ Founding /\ "RELEASED" \in Decided
      BY <3>2 DEF PayLabels, Founding, Decided
    <3>6. QED
      BY <1>0, <2>1, <3>1, <3>2, <3>4, <3>5, HandDecide
  <2>3. CASE status[o] # "LOCKED"
    <3>1. GoTo(k, "forfeitedItem") /\ UNCHANGED status
      BY <1>3, <2>0, <2>3 DEF ForfeitOrder, Claim
    <3>2. PICK j \in Jobs : /\ Becomes(k, j) /\ j.at = "forfeitedItem" /\ j.order = o
                            /\ j.todo = job[k].todo
      BY <2>0, <3>1, GoToJob DEF Labels
    <3>3. job'[k] = j
      BY <3>2 DEF Inv, TypeOK, Becomes
    <3>4. status[o] \in Past
      BY <2>1, <2>3, PastLocked
    <3>5. Relies(k)'
      BY <1>0, <2>1, <3>1, <3>2, <3>3, <3>4 DEF Relies
    <3>6. QED
      BY <1>0, <2>1, <3>1, <3>2, <3>5, HandRest DEF Founding
  <2>4. QED
    BY <2>2, <2>3
<1>4. CASE MarkRefunded(k)
  <2>0. PICK o \in Orders : job[k].order = o
    BY <1>4, JobKnows DEF MarkRefunded, At, WithOrder
  <2>1. /\ job[k].at = "refunded" /\ job[k].at \notin Keen
        /\ status[o] \in Past /\ outcome[o] # "none"
        /\ Write(o, "REFUNDED") /\ GoTo(k, "canceledItem")
    BY <1>4, <2>0 DEF MarkRefunded, At, Keen, PayLabels, HandInv, Relies, Discarding
  <2>2. PICK j \in Jobs : Becomes(k, j) /\ j.at = "canceledItem" /\ j.order = o
    BY <2>0, <2>1, GoToJob DEF Labels
  <2>3. job'[k] = j /\ status'[o] = "REFUNDED"
    BY <2>1, <2>2 DEF Inv, TypeOK, Becomes, Write
  <2>4. Relies(k)'
    BY <2>2, <2>3 DEF Relies, Listing, Past, OrderStatus
  <2>5. /\ j.at \notin Founding /\ "REFUNDED" \in Decided
        /\ status[o] \notin {"NONE", "PENDING_SETTLEMENT"}
    BY <2>1, <2>2 DEF Founding, Decided, Past
  <2>6. QED
    BY <1>0, <2>1, <2>2, <2>4, <2>5, HandDecide
<1>5. QED
  BY <1>2, <1>3, <1>4

\* Items that are discarded are of orders past LOCKED.
LEMMA HandDiscards ==
  ASSUME Inv, HandInv, NEW k \in Slots,
         DiscardItem(k) \/ DiscardCanceled(k) \/ DiscardForfeited(k) \/ DiscardSwept(k)
  PROVE  HandInv'
<1>0. PICK o \in Orders : job[k].order = o
  BY JobKnows DEF DiscardItem, DiscardCanceled, DiscardForfeited, DiscardSwept, At, WithOrder
<1>1. /\ UNCHANGED <<status, deadline, window, parcelOf, locked, outcome, faults>>
      /\ job[k].at \in Discarding /\ job[k].at \notin Keen
      /\ \/ job[k].at = "discard" /\ DiscardReady(o) /\ End(k)
         \/ job[k].at = "canceledItem" /\ DiscardReady(o) /\ Loop(k, "cancel")
         \/ job[k].at = "forfeitedItem" /\ Discard(o) /\ Loop(k, "abandon")
         \/ job[k].at = "sweptItem" /\ Discard(o) /\ Loop(k, "sweep")
  BY <1>0 DEF DiscardItem, DiscardCanceled, DiscardForfeited, DiscardSwept, At, Keen,
     PayLabels, Discarding, orderVars, moneyVars
<1>2. Relies(k)
  BY DEF HandInv
<1>3. /\ status[o] \in Past
      /\ job[k].at \in {"forfeitedItem", "sweptItem"} => item[o] # "NONE"
      /\ job[k].at \in {"forfeitedItem", "sweptItem"} =>
           \A e \in job[k].todo : item[e[1]] # "NONE"
  BY <1>0, <1>1, <1>2 DEF Relies, Listing
<1>4. item[o] = "NONE" => item' = item
  BY <1>1, <1>3 DEF DiscardReady
<1>5. \A p \in Orders : item[p] # "NONE" => item'[p] # "NONE"
  BY <1>1 DEF Inv, TypeOK, Discard, DiscardReady
<1>6. CASE job[k].at \in {"discard", "canceledItem"}
  <2>1. Lands(k, "idle") \/ Lands(k, "cancel")
    BY <1>1, <1>6, Landings, CalmLabels
  <2>2. Becomes(k, job'[k]) /\ job'[k].at \in {"idle", "cancel"}
    BY <2>1 DEF Lands, Becomes
  <2>3. Relies(k)' /\ job'[k].at \notin Founding
    BY <2>2, MindlessRelies DEF Mindless, Founding
  <2>4. QED
    BY <1>1, <1>3, <1>4, <2>2, <2>3, HandDiscard
<1>7. CASE job[k].at \in {"forfeitedItem", "sweptItem"}
  <2>1. PICK at \in {"abandon", "sweep"} : Loop(k, at)
    BY <1>1, <1>7
  <2>2. PICK j \in Jobs : Becomes(k, j) /\ j.at = at /\ j.todo = job[k].todo
    BY <2>1, LoopJob DEF Labels
  <2>3. job'[k] = j
    BY <2>2 DEF Inv, TypeOK, Becomes
  <2>4. \A e \in j.todo : item'[e[1]] # "NONE"
    <3>1. \A e \in j.todo : e[1] \in Orders
      BY <2>2 DEF Jobs, Errands
    <3>2. QED
      BY <1>3, <1>5, <1>7, <2>2, <3>1
  <2>5. Relies(k)' /\ j.at \notin Founding
    BY <2>1, <2>2, <2>3, <2>4 DEF Relies, Discarding, Founding
  <2>6. QED
    BY <1>1, <1>3, <1>4, <2>2, <2>5, HandDiscard
<1>8. QED
  BY <1>1, <1>6, <1>7

\* An order is moved on by what the shipment does.
LEMMA HandAdvances ==
  ASSUME Inv, HandInv, NEW k \in Slots, AdvanceWrite(k)
  PROVE  HandInv'
<1>0. PICK o \in Orders : job[k].order = o
  BY JobKnows DEF AdvanceWrite, At, WithOrder
<1> DEFINE st == job[k].task
<1>1. /\ job[k].at = "write" /\ job[k].at \notin Keen /\ Write(o, st)
      /\ st \in {"SHIPPED", "DISPUTE_WINDOW"} /\ Loop(k, "advance")
      /\ status[o] \notin {"NONE", "PENDING_SETTLEMENT"}
      /\ parcelOf[o] # None \/ o \in ByHand
      /\ UNCHANGED <<deadline, item, parcelOf, locked, outcome, faults>>
  BY <1>0 DEF AdvanceWrite, At, Keen, PayLabels, Inv, JobsFit, Fits, HandInv, Relies,
     goodsVars, moneyVars
<1>2. \A e \in job[k].todo : parcelOf[e[1]] # None
  BY <1>1 DEF HandInv, Relies
<1>3. /\ \A p \in Orders \ {o} : window'[p] = window[p]
      /\ st = "DISPUTE_WINDOW" => window'[o] = "open"
  BY <1>0 DEF AdvanceWrite, Inv, TypeOK
<1>4. PICK j \in Jobs : Becomes(k, j) /\ j.at = "advance" /\ j.todo = job[k].todo
  BY <1>1, LoopJob DEF Labels
<1>5. job'[k] = j /\ status' = [status EXCEPT ![o] = st] /\ status'[o] = st
  BY <1>1, <1>4 DEF Inv, TypeOK, Becomes, Write
<1> HIDE DEF st
<1>6. Relies(k)' /\ j.at \notin Founding /\ st \in Past
  BY <1>1, <1>2, <1>4, <1>5 DEF Relies, Discarding, Listing, Founding, Past, OrderStatus
<1>7. ~Unminded(o)'
  BY <1>1, <1>3, <1>5 DEF Unminded, Waits
<1>8. \A p \in Orders \ {o} : window'[p] = window[p] /\ ~Minds(k, p)
  BY <1>1, <1>3, NotKeen
<1>9. QED
  BY <1>1, <1>4, <1>5, <1>6, <1>7, <1>8, HandWrite

\* Items are packed, then the handler starts the clocks of their orders.
LEMMA HandPacks ==
  ASSUME Inv, HandInv, NEW k \in Slots, PackItems(k)
  PROVE  HandInv'
<1> DEFINE O == OrdersOf(job[k].todo)
<1>1. /\ job[k].at = "pack" /\ job[k].at \notin Keen /\ GoTo(k, "clock")
      /\ UNCHANGED <<status, deadline, window, locked, outcome, faults>>
      /\ \A p \in Orders : item'[p] = IF p \in O THEN "IN_SHIPMENT" ELSE item[p]
      /\ \A p \in Orders : parcelOf'[p] = IF p \in O THEN job[k].parcel ELSE parcelOf[p]
  BY DEF PackItems, At, Keen, PayLabels, orderVars, moneyVars
<1>2. \A p \in O : item[p] # "NONE"
  BY <1>1 DEF HandInv, Relies, Listing, OrdersOf
<1>3. job[k].parcel # None
  BY <1>1, SetsAssumption DEF Inv, JobsFit, Fits, WithParcel
<1>4. PICK j \in Jobs : Becomes(k, j) /\ j.at = "clock" /\ j.todo = job[k].todo
  BY <1>1, GoToJob DEF Labels
<1>5. job'[k] = j
  BY <1>4 DEF Inv, TypeOK, Becomes
<1>6. Relies(k)' /\ j.at \notin Founding
  BY <1>4, <1>5, MindlessRelies DEF Mindless, Founding
<1>7. job'[k].at = "clock" /\ OrdersOf(job'[k].todo) = O
  BY <1>4, <1>5 DEF OrdersOf
<1>8. O \subseteq Orders
  BY JobKnows DEF Errands, OrdersOf
<1> HIDE DEF O
<1>9. \A p \in O : Unminded(p)' => Minds(k, p)' \/ Unminded(p)
  BY <1>1, <1>3, <1>7, <1>8 DEF Unminded, InEscrow, Waits, Minds
<1>10. \A p \in Orders : Steady(k, p) /\ RowsAgree(p)'
  BY <1>1, <1>2, <1>3 DEF Steady, RowsAgree, HandInv
<1>11. \A p \in Orders \ O : Unminded(p)' => Unminded(p)
  BY <1>1 DEF Unminded, InEscrow, Waits
<1>12. \A p \in Orders : ~Minds(k, p)
  BY <1>1, NotKeen
<1>13. QED
  BY <1>1, <1>4, <1>6, <1>9, <1>10, <1>11, <1>12, HandKeep

LEMMA HandClocks ==
  ASSUME Inv, HandInv, NEW k \in Slots, StartSellerShipClock(k)
  PROVE  HandInv'
<1> DEFINE O == OrdersOf(job[k].todo)
<1>1. /\ job[k].at = "clock" /\ End(k)
      /\ UNCHANGED <<status, window, item, parcelOf, locked, outcome, faults>>
      /\ \A p \in Orders :
           deadline'[p] = IF p \in O /\ status[p] = "LOCKED" /\ deadline[p] = "none"
                          THEN "running" ELSE deadline[p]
  BY DEF StartSellerShipClock, At, goodsVars, moneyVars
<1>2. Becomes(k, job'[k]) /\ job'[k].at = "idle"
  BY <1>1, Landings DEF Lands, Becomes
<1>3. Relies(k)' /\ job'[k].at \notin Founding
  BY <1>2, MindlessRelies DEF Mindless, Founding
<1>4. \A p \in Orders : Steady(k, p) /\ RowsAgree(p)'
  BY <1>1 DEF Steady, RowsAgree, HandInv
<1>5. \A p \in Orders : Unminded(p)' => Unminded(p) /\ ~(p \in O /\ status[p] = "LOCKED")
  BY <1>1 DEF Unminded, InEscrow, Waits
<1>6. \A p \in Orders : Minds(k, p) => p \in O /\ status[p] = "LOCKED"
  BY <1>1 DEF Minds, PayLabels
<1>7. QED
  BY <1>1, <1>2, <1>3, <1>4, <1>5, <1>6, HandKeep

\* A shipment moves its items, none of which a LOCKED order waits for.
LEMMA HandMoves ==
  ASSUME Inv, HandInv, NEW k \in Slots, MoveShipment(k)
  PROVE  HandInv'
<1> DEFINE s == job[k].parcel
           to == job[k].at
           aboard == {o \in Orders : parcelOf[o] = s}
           goal == IF to = "SHIPPED" THEN "SHIPPED" ELSE "DISPUTE_WINDOW"
<1>1. /\ to \in Moves /\ s # None /\ to \notin Keen
      /\ UNCHANGED <<status, deadline, window, parcelOf, locked, outcome, faults>>
  <2>1. to \in Moves
    BY NextLabels DEF MoveShipment
  <2>2. s # None
    BY <2>1, SetsAssumption DEF Inv, JobsFit, Fits, WithParcel
  <2>3. QED
    BY <2>1, <2>2 DEF MoveShipment, Moves, Keen, PayLabels, orderVars, moneyVars
<1>2. CASE to \in {"SHIPPED", "DELIVERED"}
  <2> DEFINE j == [Idle EXCEPT !.at = "advance", !.todo = aboard \X {goal}]
  <2>1. /\ Becomes(k, j) /\ j.at = "advance" /\ j.todo = aboard \X {goal}
        /\ \A p \in Orders : item'[p] = IF p \in aboard THEN to ELSE item[p]
    BY <1>2 DEF MoveShipment, Becomes, Idle
  <2>2. \A p \in aboard : item[p] \notin {"NONE", "READY_TO_SHIP"} /\ parcelOf[p] # None
    BY <1>1 DEF HandInv, RowsAgree
  <2> HIDE DEF j, s, goal, aboard
  <2>3. job'[k] = j
    BY <2>1 DEF Inv, TypeOK, Becomes
  <2>4. \A p \in Orders : Steady(k, p) /\ RowsAgree(p)'
    BY <1>1, <1>2, <2>1, <2>2 DEF Steady, RowsAgree, HandInv
  <2>5. \A p \in Orders : (Unminded(p)' => Unminded(p)) /\ ~Minds(k, p)
    BY <1>1, <2>1, <2>2, NotKeen DEF Unminded, InEscrow, Waits
  <2>6. Relies(k)' /\ j.at \notin Founding
    BY <1>1, <2>1, <2>2, <2>3 DEF Relies, Discarding, Listing, Founding
  <2>7. QED
    BY <1>1, <2>1, <2>4, <2>5, <2>6, HandKeep
<1>3. CASE to \notin {"SHIPPED", "DELIVERED"}
  <2>1. End(k) /\ UNCHANGED item
    BY <1>3 DEF MoveShipment
  <2>2. QED
    BY <1>1, <2>1, Landings, CalmLabels, HandCalm
<1>4. QED
  BY <1>2, <1>3

\* The money moves: nothing of the order is left in escrow.
LEMMA HandPays ==
  ASSUME Inv, HandInv, NEW k \in Slots, MoveMoney(k)
  PROVE  HandInv'
<1>0. /\ job[k].at \in PayLabels /\ Relies(k)
      /\ UNCHANGED <<status, deadline, window, item, parcelOf, locked, faults>>
  <2>1. DOMAIN AfterPay = PayLabels
    BY DEF AfterPay, PayLabels
  <2>2. QED
    BY <2>1 DEF MoveMoney, HandInv, orderVars, goodsVars, moneyVars
<1>1. PICK o \in Orders : job[k].order = o
  BY <1>0, JobKnows DEF WithOrder
<1>2. job[k].task \in {"release", "refund"}
  BY <1>0 DEF Inv, JobsFit, Fits
<1>3. outcome'[o] # "none" /\ \A p \in Orders \ {o} : outcome'[p] = outcome[p]
  BY <1>1, <1>2 DEF MoveMoney, FirstMove, moneyVars, Inv, TypeOK
<1>4. /\ job[k].at = "pay" => End(k)
      /\ job[k].at = "payDiscard" => GoTo(k, "discard")
      /\ job[k].at = "payRecover" => Loop(k, "recover")
      /\ job[k].at = "payRelease" => Loop(k, "release")
      /\ job[k].at = "payCancel" => GoTo(k, "refunded")
      /\ job[k].at = "payForfeit" => GoTo(k, "forfeitedItem")
  BY DEF MoveMoney, AfterPay
<1>5. \A p \in Orders : Steady(k, p) /\ RowsAgree(p)'
  BY <1>0, <1>3 DEF Steady, RowsAgree, HandInv
<1>6. \A p \in Orders : Unminded(p)' => Unminded(p) /\ p # o
  BY <1>0, <1>3 DEF Unminded, InEscrow, Waits
<1>7. \A p \in Orders \ {o} : ~Minds(k, p)
  BY <1>0, <1>1 DEF Minds, PayLabels
<1>8. \E j : Becomes(k, j) /\ Relies(k)' /\ j.at \notin Founding
  <2>1. CASE job[k].at \in {"pay", "payRecover", "payRelease"}
    <3>1. Lands(k, "idle") \/ Lands(k, "recover") \/ Lands(k, "release")
      BY <1>4, <2>1, Landings, CalmLabels
    <3>2. Becomes(k, job'[k]) /\ job'[k].at \in {"idle", "recover", "release"}
      BY <3>1 DEF Lands, Becomes
    <3>3. QED
      BY <3>2, MindlessRelies DEF Mindless, Founding
  <2>2. ASSUME NEW at \in {"discard", "refunded", "forfeitedItem"}, GoTo(k, at),
               at = "forfeitedItem" => job[k].at = "payForfeit",
               job[k].at \in {"payDiscard", "payCancel", "payForfeit"}
        PROVE  \E j : Becomes(k, j) /\ Relies(k)' /\ j.at \notin Founding
    <3>1. PICK j \in Jobs : /\ Becomes(k, j) /\ j.at = at /\ j.order = o
                            /\ j.todo = job[k].todo
      BY <1>1, <2>2, GoToJob DEF Labels
    <3>2. job'[k] = j
      BY <3>1 DEF Inv, TypeOK, Becomes
    <3>3. status[o] \in Past
      BY <1>0, <1>1, <2>2 DEF Relies, Discarding
    <3>4. at = "forfeitedItem" =>
            item[o] # "NONE" /\ \A e \in job[k].todo : item[e[1]] # "NONE"
      BY <1>0, <1>1, <2>2 DEF Relies, Listing
    <3>5. Relies(k)' /\ j.at \notin Founding
      BY <1>0, <1>3, <2>2, <3>1, <3>2, <3>3, <3>4 DEF Relies, Listing, Founding
    <3>6. QED
      BY <3>1, <3>5
  <2>3. QED
    BY <1>0, <1>4, <2>1, <2>2 DEF PayLabels
<1>9. QED
  BY <1>0, <1>5, <1>6, <1>7, <1>8, HandKeep

\* Time passes, and a fault frees the property of its promise.
LEMMA HandOthers ==
  ASSUME Inv, HandInv,
         \/ \E o \in Orders : TimePasses(o) \/ DayPasses(o)
         \/ \E K : Fault(K)
         \/ UNCHANGED vars
  PROVE  HandInv'
<1>1. CASE (\E o \in Orders : TimePasses(o) \/ DayPasses(o)) \/ UNCHANGED vars
  <2>1. /\ UNCHANGED <<status, item, parcelOf, locked, outcome, faults, job>>
        /\ \A p \in Orders : /\ deadline[p] # "none" => deadline'[p] # "none"
                             /\ window[p] # "none" => window'[p] # "none"
    BY <1>1 DEF TimePasses, DeadlinePasses, WindowCloses, HoldExpires, DayPasses, vars,
       orderVars, goodsVars, moneyVars, Inv, TypeOK
  <2>2. \A p \in Orders : Unminded(p)' => Unminded(p)
    BY <2>1 DEF Unminded, InEscrow, Waits
  <2>3. NoPriceIsStranded'
    BY <2>1, <2>2 DEF HandInv, NoPriceIsStranded, Minds
  <2>4. /\ \A p \in Orders : RowsAgree(p)'
        /\ \A k \in Slots : Relies(k)'
        /\ OneFounder'
    BY <2>1 DEF HandInv, RowsAgree, Relies, OneFounder
  <2>5. QED
    BY <2>3, <2>4 DEF HandInv
<1>2. ASSUME NEW K, Fault(K) PROVE HandInv'
  <2>1. /\ UNCHANGED <<status, item, parcelOf, outcome>> /\ faults' # 0
        /\ \A k \in Slots : job'[k] = job[k] \/ job'[k] = Idle
    BY <1>2 DEF Fault, orderVars, goodsVars, moneyVars, Inv, TypeOK
  <2>2. \A k \in Slots : Relies(k)'
    <3>1. ASSUME NEW k \in Slots, job'[k] = Idle PROVE Relies(k)'
      BY <3>1, IdleJob, MindlessRelies DEF Mindless
    <3>2. ASSUME NEW k \in Slots, job'[k] = job[k] PROVE Relies(k)'
      BY <2>1, <3>2 DEF HandInv, Relies
    <3>3. QED
      BY <2>1, <3>1, <3>2
  <2>3. OneFounder'
    BY <2>1, IdleJob DEF HandInv, OneFounder, Founding
  <2>4. NoPriceIsStranded' /\ \A p \in Orders : RowsAgree(p)'
    BY <2>1 DEF HandInv, RowsAgree, NoPriceIsStranded
  <2>5. QED
    BY <2>2, <2>3, <2>4 DEF HandInv
<1>3. QED
  BY <1>1, <1>2

LEMMA HandSlot ==
  ASSUME Inv, HandInv, NEW k \in Slots,
         Request(k) \/ Step(k) \/ OrderTimer(k) \/ FulfillmentTimer(k)
  PROVE  HandInv'
<1>1. CASE Request(k)
  BY <1>1, HandFounds, HandReads, HandDecides, HandShips DEF Request
<1>2. CASE Settle(k) \/ PayShipping(k)
  BY <1>2, HandFounds, HandShips, HandPacks, HandClocks DEF Settle, PayShipping
<1>3. CASE Carry(k)
  BY <1>3, HandReads, HandAdvances, HandMoves DEF Carry
<1>4. CASE ClaimDispute(k) \/ ClaimGivenUp(k) \/ DiscardItem(k) \/ MoveMoney(k)
  BY <1>4, HandDecides, HandDiscards, HandPays
<1>5. CASE RunTimer(k) \/ OrderTimer(k) \/ FulfillmentTimer(k)
  BY <1>5, HandTimers, HandClaims, HandDiscards DEF RunTimer
<1>6. QED
  BY <1>1, <1>2, <1>3, <1>4, <1>5 DEF Step

LEMMA HandNext == Inv /\ HandInv /\ [Next]_vars => HandInv'
<1> SUFFICES ASSUME Inv, HandInv, [Next]_vars PROVE HandInv'
  OBVIOUS
<1>1. CASE \/ \E o \in Orders : TimePasses(o) \/ DayPasses(o)
           \/ \E K : Fault(K)
           \/ UNCHANGED vars
  BY <1>1, HandOthers
<1>2. ASSUME NEW k \in Slots, Request(k) \/ Step(k) \/ OrderTimer(k) \/ FulfillmentTimer(k)
      PROVE  HandInv'
  BY <1>2, HandSlot
<1>3. QED
  BY <1>1, <1>2 DEF Next

LEMMA HandInit == Init => HandInv
<1> SUFFICES ASSUME Init PROVE HandInv
  OBVIOUS
<1>1. \A k \in Slots : job[k].at = "idle"
  BY IdleJob DEF Init
<1>2. \A k \in Slots : Relies(k)
  BY <1>1 DEF Relies, Discarding, Listing
<1>3. NoPriceIsStranded /\ \A o \in Orders : RowsAgree(o)
  BY DEF Init, NoPriceIsStranded, Unminded, InEscrow, RowsAgree
<1>4. OneFounder
  BY <1>1 DEF OneFounder, Founding
<1>5. QED
  BY <1>2, <1>3, <1>4 DEF HandInv

\* For any number of orders, shipments and overlapping handlers, in a run without an
\* error or crash: a price in escrow is of an order that waits for its buyer, seller,
\* carrier or a deadline that is set, or the handler that decided it is about to move
\* the money.  The half of EverySaleSettles that needs no fairness (settleAuction,
\* processOrderTimers, forfeitAndDiscard, advanceOrdersForShipment).
THEOREM NoPriceIsEverStranded == Spec => []NoPriceIsStranded
<1>1. HandInv => NoPriceIsStranded
  BY DEF HandInv
<1>2. Init => HandInv
  BY HandInit
<1>3. Inv /\ HandInv /\ [Next]_vars => HandInv'
  BY HandNext
<1> HIDE DEF HandInv
<1>4. QED
  BY <1>1, <1>2, <1>3, Invariance, PTL DEF Spec

=============================================================================
