---------------------------- MODULE NftProofs -------------------------------
(***************************************************************************)
(* Theorems about NftCustody for every set of users, assets, listings,     *)
(* auctions and concurrent handlers and any number of faults: nobody owns  *)
(* an asset they neither deposited nor paid for, and taking a listing down *)
(* never takes it from a buyer who paid.                                   *)
(***************************************************************************)
EXTENDS NftCustody, FiniteSetTheorems, TLAPS

\* The labels of a sale, from the claim of its unit on.
ClaimLabels == {"order", "charge", "putback", "retire", "count", "requeue", "sold",
                "credit", "release"}

\* Handler k has taken sale s.
Claims(k, s) == job[k].s = s /\ job[k].at # "unit"

\* Sale s can still be taken, or has not come up.
Untaken(s) ==
  \/ s \in Listings /\ (listing[s].quantity > 0 \/ listing[s].status \in {"NONE", "CANCELED"})
  \/ s \in Auctions /\ auction[s].status \in {"NONE", "RUNNING"}

Charged(o) == o.status \in {"LOCKED", "RELEASED"}

\* What a handler in memory may rely on, given the orders.
Fits(j, ord) ==
  /\ j.at = "claim" => j.u \in Users
  /\ j.at \in ClaimLabels \cup {"unit"} <=> j.s # None
  /\ j.s # None => j.u \in Users
  /\ j.s \in Listings => j.l = j.s
  /\ j.at \in {"unit", "putback", "retire"} => j.s \in Listings
  /\ j.at \in {"order", "charge", "putback"} => ~Charged(ord[j.s])
  /\ j.at = "charge" => ord[j.s].buyer = j.u
  /\ j.at \in {"retire", "count", "requeue", "sold", "credit", "release"} =>
       Charged(ord[j.s]) /\ ord[j.s].buyer = j.u

JobsFit == \A k \in Requests : Fits(job[k], order)

\* A sale is taken once.
OneClaim ==
  \A k, h \in Requests, s \in Sales : Claims(k, s) /\ Claims(h, s) => k = h

UntakenIsFree ==
  \A s \in Sales : Untaken(s) => ~Charged(order[s]) /\ \A k \in Requests : ~Claims(k, s)

OneUnit == \A l \in Listings : listing[l].quantity <= 1

\* The inductive invariant.
Inv == TypeOK /\ JobsFit /\ OneClaim /\ UntakenIsFree /\ OneUnit /\ OwnersPaid

-----------------------------------------------------------------------------
(* Steps of one handler.                                                   *)

\* The part of TypeOK about everything but handlers and orders.
RowsOK ==
  /\ wallet \in [Assets -> Users \cup {None}]
  /\ row \in [Assets -> Rows]
  /\ listing \in [Listings -> ListingRows]
  /\ auction \in [Auctions -> AuctionRows]
  /\ delivered \in [Sales -> SUBSET Assets]
  /\ scan \in [Scans -> ScanJobs]
  /\ worker \in [Workers -> WorkerJobs]
  /\ deposits \in Nat /\ faults \in Nat

\* Only the handler in slot k moves.
Touches(k) ==
  /\ job' \in [Requests -> Jobs]
  /\ \A h \in Requests \ {k} : job'[h] = job[h]

\* Orders move at most for the sale that k has taken.
OrdersBy(k) ==
  /\ order' \in [Sales -> OrderRows]
  /\ \A s \in Sales : ~Claims(k, s) =>
       /\ Charged(order'[s]) <=> Charged(order[s])
       /\ order'[s].buyer = order[s].buyer

\* A sale that k has taken by now it took before, or nobody had.
TakenFairly(k) ==
  \A s \in Sales : Claims(k, s)' => Claims(k, s) \/ Untaken(s)

\* A sale that is free after the step was free before, or is the one k gives up.
FreedFairly(k) ==
  \A s \in Sales : Untaken(s)' =>
    /\ Untaken(s) \/ Claims(k, s)
    /\ ~Claims(k, s)' /\ ~Charged(order'[s])

\* The claims after a step of one handler.
LEMMA ClaimsKeep ==
  ASSUME Inv, NEW k \in Requests, Touches(k), OrdersBy(k), TakenFairly(k), FreedFairly(k),
         Fits(job'[k], order')
  PROVE  JobsFit' /\ OneClaim' /\ UntakenIsFree'
<1>1. ASSUME NEW h \in Requests, h # k, NEW s \in Sales
      PROVE  Claims(h, s)' <=> Claims(h, s)
  BY <1>1 DEF Touches, Claims
<1>2. JobsFit'
  <2>1. ASSUME NEW h \in Requests, h # k
        PROVE  Fits(job'[h], order')
    <3>1. job'[h] = job[h] /\ Fits(job[h], order) /\ job[h] \in Jobs
      BY <2>1 DEF Touches, Inv, JobsFit, TypeOK
    <3>2. CASE job[h].s = None \/ job[h].at = "unit"
      BY <3>1, <3>2 DEF Fits, ClaimLabels
    <3>3. CASE job[h].s # None /\ job[h].at # "unit"
      <4> DEFINE s == job[h].s
      <4>1. s \in Sales /\ Claims(h, s)
        BY <3>1, <3>3 DEF Jobs, Claims
      <4>2. ~Claims(k, s)
        BY <2>1, <4>1 DEF Inv, OneClaim
      <4>3. /\ Charged(order'[s]) <=> Charged(order[s])
            /\ order'[s].buyer = order[s].buyer
        BY <4>1, <4>2 DEF OrdersBy
      <4>4. QED
        BY <3>1, <4>3 DEF Fits
    <3>4. QED
      BY <3>2, <3>3
  <2>2. QED
    BY <2>1 DEF JobsFit
<1>3. OneClaim'
  <2>1. ASSUME NEW h \in Requests, h # k, NEW s \in Sales, Claims(h, s)'
        PROVE  ~Claims(k, s)'
    BY <1>1, <2>1 DEF Inv, OneClaim, UntakenIsFree, TakenFairly
  <2>2. ASSUME NEW g \in Requests, NEW h \in Requests, NEW s \in Sales,
               Claims(g, s)', Claims(h, s)'
        PROVE  g = h
    <3>1. CASE g = k \/ h = k
      BY <2>1, <2>2, <3>1
    <3>2. CASE g # k /\ h # k
      BY <1>1, <2>2, <3>2 DEF Inv, OneClaim
    <3>3. QED
      BY <3>1, <3>2
  <2>3. QED
    BY <2>2 DEF OneClaim
<1>4. UntakenIsFree'
  <2>1. ASSUME NEW s \in Sales, Untaken(s)', NEW h \in Requests
        PROVE  ~Claims(h, s)'
    <3>1. CASE h = k
      BY <2>1, <3>1 DEF FreedFairly
    <3>2. CASE h # k
      BY <1>1, <2>1, <3>2 DEF FreedFairly, Inv, UntakenIsFree, OneClaim
    <3>3. QED
      BY <3>1, <3>2
  <2>2. ASSUME NEW s \in Sales, Untaken(s)'
        PROVE  ~Charged(order'[s])
    BY <2>2 DEF FreedFairly
  <2>3. QED
    BY <2>1, <2>2 DEF UntakenIsFree
<1>5. QED
  BY <1>2, <1>3, <1>4

\* Owners after a step that moves no asset to another owner, unless it is the
\* depositor's, and takes no charge back.
OwnersStay ==
  \A a \in Assets : row'[a].owner # row'[a].custodian =>
    row[a].owner = row'[a].owner /\ row[a].custodian = row'[a].custodian

ChargesStay ==
  \A s \in Sales :
    /\ Charged(order[s]) => Charged(order'[s]) /\ order'[s].buyer = order[s].buyer
    /\ delivered[s] \subseteq delivered'[s]

LEMMA OwnersKeep ==
  ASSUME OwnersPaid, OwnersStay, ChargesStay
  PROVE  OwnersPaid'
<1> SUFFICES ASSUME NEW a \in Assets, row'[a].owner # row'[a].custodian
             PROVE  \E s \in Sales : /\ Charged(order'[s]) /\ order'[s].buyer = row'[a].owner
                                     /\ a \in delivered'[s]
  BY DEF OwnersPaid, Standing, Charged
<1>1. row[a].owner = row'[a].owner /\ row[a].owner # row[a].custodian
  BY DEF OwnersStay
<1>2. PICK s \in Sales : /\ Charged(order[s]) /\ order[s].buyer = row[a].owner
                         /\ a \in delivered[s]
  BY <1>1 DEF OwnersPaid, Standing, Charged
<1>3. QED
  BY <1>1, <1>2 DEF ChargesStay

\* Together: such a step keeps the invariant.
LEMMA HandlerStep ==
  ASSUME Inv, NEW k \in Requests, Touches(k), OrdersBy(k), TakenFairly(k), FreedFairly(k),
         Fits(job'[k], order'), RowsOK', OneUnit', OwnersStay, ChargesStay
  PROVE  Inv'
<1>1. TypeOK'
  BY DEF TypeOK, RowsOK, Touches, OrdersBy
<1>2. JobsFit' /\ OneClaim' /\ UntakenIsFree'
  BY ClaimsKeep
<1>3. OwnersPaid'
  BY OwnersKeep DEF Inv
<1>4. QED
  BY <1>1, <1>2, <1>3 DEF Inv

-----------------------------------------------------------------------------
(* What the helpers do to a handler.                                       *)

\* The handler in slot k becomes j.
LEMMA Becoming ==
  ASSUME Inv, NEW k \in Requests, NEW j \in Jobs, job' = [job EXCEPT ![k] = j]
  PROVE  Touches(k) /\ job'[k] = j
BY DEF Inv, TypeOK, Touches

LEMMA GoToJob ==
  ASSUME Inv, NEW k \in Requests, NEW at \in Labels, GoTo(k, at)
  PROVE  /\ Touches(k) /\ job'[k].at = at
         /\ job'[k].u = job[k].u /\ job'[k].l = job[k].l /\ job'[k].s = job[k].s
<1>1. job \in [Requests -> Jobs] /\ job' = [job EXCEPT ![k].at = at]
  BY DEF Inv, TypeOK, GoTo
<1>2. job[k] \in Jobs /\ job'[k] = [job[k] EXCEPT !.at = at]
  BY <1>1
<1>3. job'[k] \in Jobs
  BY <1>2 DEF Jobs
<1>4. job' \in [Requests -> Jobs] /\ \A h \in Requests \ {k} : job'[h] = job[h]
  BY <1>1, <1>3
<1>5. QED
  BY <1>2, <1>4 DEF Touches, Jobs

LEMMA IdleJob ==
  Idle \in Jobs /\ Idle.at = "idle" /\ Idle.s = None /\ Idle.l = None
BY DEF Idle, Jobs, Labels, Modes

LEMMA DoneJob ==
  ASSUME Inv, NEW k \in Requests, Done(k)
  PROVE  Touches(k) /\ job'[k] = Idle
BY IdleJob, Becoming DEF Done

\* A handler that serves no sale, or has not taken it.
LEMMA QuietJob ==
  ASSUME NEW j \in Jobs, j.s = None, j.at \notin ClaimLabels \cup {"unit"},
         j.at = "claim" => j.u \in Users, NEW ord
  PROVE  Fits(j, ord)
BY NftAssumption DEF Fits, Sales, ClaimLabels

LEMMA SaleIds == /\ \A l \in Listings : l \in Sales /\ l \notin Auctions /\ l # None
                 /\ \A x \in Auctions : x \in Sales /\ x \notin Listings /\ x # None
BY NftAssumption DEF Sales

\* A step of a handler that serves no sale afterwards: whatever it does to the
\* rows, listings and auctions, no sale becomes free by it.
LEMMA QuietStep ==
  ASSUME Inv, NEW k \in Requests, Touches(k),
         job'[k].s = None, job'[k].at \notin ClaimLabels \cup {"unit"},
         job'[k].at = "claim" => job'[k].u \in Users,
         order' = order, delivered' = delivered,
         RowsOK', OneUnit', OwnersStay,
         \A s \in Sales : Untaken(s)' => Untaken(s)
  PROVE  Inv'
<1>1. job'[k] \in Jobs
  BY DEF Touches
<1>2. Fits(job'[k], order')
  BY <1>1, QuietJob
<1>3. OrdersBy(k) /\ ChargesStay
  BY DEF Inv, TypeOK, OrdersBy, ChargesStay
<1>4. \A s \in Sales : ~Claims(k, s)'
  BY SaleIds DEF Claims, Sales
<1>5. TakenFairly(k)
  BY <1>4 DEF TakenFairly
<1>6. FreedFairly(k)
  BY <1>4 DEF FreedFairly, Inv, UntakenIsFree
<1>7. QED
  BY <1>2, <1>3, <1>5, <1>6, HandlerStep

\* A step of a handler on the sale it has taken, which frees no sale.
LEMMA SaleStep ==
  ASSUME Inv, NEW k \in Requests, Touches(k), job[k].s # None, job[k].at # "unit",
         job'[k].s = job[k].s, job'[k].at # "unit",
         OrdersBy(k), ChargesStay, Fits(job'[k], order'),
         RowsOK', OneUnit', OwnersStay,
         \A s \in Sales : Untaken(s)' => Untaken(s)
  PROVE  Inv'
<1>1. TakenFairly(k)
  BY DEF TakenFairly, Claims
<1>2. ASSUME NEW s \in Sales, Untaken(s)'
      PROVE  Untaken(s) /\ ~Claims(k, s)' /\ ~Charged(order'[s])
  <2>1. Untaken(s) /\ ~Charged(order[s]) /\ ~Claims(k, s)
    BY <1>2 DEF Inv, UntakenIsFree
  <2>2. QED
    BY <2>1 DEF Claims, OrdersBy
<1>3. FreedFairly(k)
  BY <1>2 DEF FreedFairly
<1>4. QED
  BY <1>1, <1>3, HandlerStep

-----------------------------------------------------------------------------
(* Withdrawals and listings.                                               *)

LEMMA WithdrawStep ==
  ASSUME Inv, NEW k \in Requests, NEW u \in Users, NEW a \in Assets, Withdraw(k, u, a)
  PROVE  Inv'
<1> DEFINE j == [Idle EXCEPT !.at = "claim", !.u = u, !.as = {a}]
<1>1. j \in Jobs /\ j.s = None /\ j.at = "claim" /\ j.u = u
  BY DEF Idle, Jobs, Labels, Modes
<1>2. Touches(k) /\ job'[k] = j
  BY <1>1, Becoming DEF Withdraw
<1>3. UNCHANGED <<wallet, row, listing, auction, order, delivered, scan, worker, deposits, faults>>
  BY DEF Withdraw, rowVars
<1>4. RowsOK' /\ OneUnit' /\ OwnersStay /\ \A s \in Sales : Untaken(s)' => Untaken(s)
  BY <1>3 DEF Inv, TypeOK, RowsOK, OneUnit, OwnersStay, Untaken
<1>5. QED
  BY <1>1, <1>2, <1>3, <1>4, QuietStep DEF ClaimLabels

LEMMA ClaimWithdrawalStep ==
  ASSUME Inv, NEW k \in Requests, ClaimWithdrawal(k)
  PROVE  Inv'
<1>1. Touches(k) /\ job'[k] = Idle
  BY DoneJob DEF ClaimWithdrawal
<1>2. UNCHANGED <<wallet, listing, auction, order, delivered, scan, worker, deposits, faults>>
  BY DEF ClaimWithdrawal
<1>3. job[k].u \in Users /\ job[k] \in Jobs
  BY DEF Inv, TypeOK, JobsFit, Fits, ClaimWithdrawal, At
<1>4. row' \in [Assets -> Rows] /\ OwnersStay
  <2>1. PICK a \in job[k].as :
          row' = IF row[a].owner = job[k].u /\ row[a].status = "HELD"
                 THEN [row EXCEPT ![a].status = "WITHDRAWING", ![a].to = job[k].u]
                 ELSE row
    BY DEF ClaimWithdrawal
  <2>2. a \in Assets /\ row \in [Assets -> Rows]
    BY <1>3, <2>1 DEF Jobs, Inv, TypeOK
  <2>3. CASE row' = row
    BY <2>2, <2>3 DEF OwnersStay
  <2>4. CASE row' = [row EXCEPT ![a].status = "WITHDRAWING", ![a].to = job[k].u]
    <3> DEFINE r == [row[a] EXCEPT !.status = "WITHDRAWING", !.to = job[k].u]
    <3>1. r \in Rows /\ r.owner = row[a].owner /\ r.custodian = row[a].custodian
      BY <1>3, <2>2, NftAssumption DEF Rows
    <3>2. row' = [row EXCEPT ![a] = r]
      BY <2>2, <2>4
    <3>3. row'[a] = r /\ \A b \in Assets \ {a} : row'[b] = row[b]
      BY <2>2, <3>2
    <3>4. row' \in [Assets -> Rows]
      BY <2>2, <3>1, <3>2
    <3>5. QED
      BY <3>1, <3>3, <3>4 DEF OwnersStay
  <2>5. QED
    BY <2>1, <2>3, <2>4
<1>5. RowsOK' /\ OneUnit' /\ \A s \in Sales : Untaken(s)' => Untaken(s)
  BY <1>2, <1>4 DEF Inv, TypeOK, RowsOK, OneUnit, Untaken
<1>6. QED
  BY <1>1, <1>2, <1>4, <1>5, IdleJob, QuietStep DEF ClaimLabels

\* A handler that only reads.
LEMMA AllKeep ==
  ASSUME Inv, UNCHANGED <<wallet, rowVars, scan, worker, deposits, faults>>
  PROVE  /\ RowsOK' /\ OneUnit' /\ OwnersStay
         /\ order' = order /\ delivered' = delivered
         /\ \A s \in Sales : Untaken(s)' => Untaken(s)
BY DEF Inv, TypeOK, RowsOK, OneUnit, OwnersStay, Untaken, rowVars

\* Such a handler begins with job j, which serves no sale.
LEMMA AskStep ==
  ASSUME Inv, NEW k \in Requests, NEW j \in Jobs, job' = [job EXCEPT ![k] = j],
         j.s = None, j.at \in {"create", "start", "cancel"},
         UNCHANGED <<wallet, rowVars, scan, worker, deposits, faults>>
  PROVE  Inv'
<1>1. Touches(k) /\ job'[k] = j
  BY Becoming
<1>2. QED
  BY <1>1, AllKeep, QuietStep DEF ClaimLabels

LEMMA ListStep ==
  ASSUME Inv, NEW k \in Requests, NEW u \in Users, NEW as \in SUBSET Assets, NEW mode \in Modes,
         List(k, u, as, mode)
  PROVE  Inv'
<1> DEFINE j == [Idle EXCEPT !.at = "create", !.u = u, !.as = as, !.mode = mode]
<1>1. j \in Jobs /\ j.s = None /\ j.at = "create"
  BY DEF Idle, Jobs, Labels, Modes
<1>2. QED
  BY <1>1, AskStep DEF List

LEMMA StartFromListingStep ==
  ASSUME Inv, NEW k \in Requests, NEW l \in Listings, StartFromListing(k, l)
  PROVE  Inv'
<1> DEFINE j == [Idle EXCEPT !.at = "start", !.l = l]
<1>1. j \in Jobs /\ j.s = None /\ j.at = "start"
  BY DEF Idle, Jobs, Labels, Modes
<1>2. QED
  BY <1>1, AskStep DEF StartFromListing

LEMMA UnlistStep ==
  ASSUME Inv, NEW k \in Requests, NEW u \in Users, NEW l \in Listings, Unlist(k, u, l)
  PROVE  Inv'
<1> DEFINE j == [Idle EXCEPT !.at = "cancel", !.l = l]
<1>1. j \in Jobs /\ j.s = None /\ j.at = "cancel"
  BY DEF Idle, Jobs, Labels, Modes
<1>2. QED
  BY <1>1, AskStep DEF Unlist

\* A fresh listing is one nobody has taken.
LEMMA CreateListingStep ==
  ASSUME Inv, NEW k \in Requests, CreateListing(k)
  PROVE  Inv'
<1>1. PICK l \in Listings :
        /\ listing[l] = NoListing
        /\ listing' = [listing EXCEPT ![l] = [status |-> "QUEUED", seller |-> job[k].u,
                                              mode |-> job[k].mode, quantity |-> 1]]
        /\ job' = [job EXCEPT ![k].at = "attach", ![k].l = l]
  BY DEF CreateListing
<1> DEFINE j == [job[k] EXCEPT !.at = "attach", !.l = l]
           r == [status |-> "QUEUED", seller |-> job[k].u, mode |-> job[k].mode, quantity |-> 1]
<1>2. job[k] \in Jobs /\ job[k].s = None /\ listing \in [Listings -> ListingRows]
  BY DEF Inv, TypeOK, JobsFit, Fits, ClaimLabels, CreateListing, At
<1>3. j \in Jobs /\ j.s = None /\ j.at = "attach"
  BY <1>2 DEF Jobs, Labels
<1>4. Touches(k) /\ job'[k] = j
  <2>1. job' = [job EXCEPT ![k] = j]
    BY <1>1 DEF Inv, TypeOK
  <2>2. QED
    BY <1>3, <2>1, Becoming
<1>5. r \in ListingRows /\ r.quantity = 1
  BY <1>2 DEF Jobs, ListingRows
<1>6. listing' = [listing EXCEPT ![l] = r]
  BY <1>1
<1>7. listing' \in [Listings -> ListingRows] /\ listing'[l] = r
      /\ \A i \in Listings \ {l} : listing'[i] = listing[i]
  BY <1>2, <1>5, <1>6
<1>8. UNCHANGED <<wallet, row, auction, order, delivered, scan, worker, deposits, faults>>
  BY DEF CreateListing
<1>9. RowsOK' /\ OneUnit' /\ OwnersStay
  BY <1>5, <1>7, <1>8 DEF Inv, TypeOK, RowsOK, OneUnit, OwnersStay
<1>10. \A s \in Sales : Untaken(s)' => Untaken(s)
  BY <1>1, <1>7, <1>8 DEF Untaken, NoListing
<1>11. QED
  BY <1>3, <1>4, <1>8, <1>9, <1>10, QuietStep DEF ClaimLabels

\* Attaching and detaching leave owners alone.
LEMMA AttachAssetsStep ==
  ASSUME Inv, NEW k \in Requests, AttachAssets(k)
  PROVE  Inv'
<1> DEFINE j == IF job[k].mode = "market" THEN [Idle EXCEPT !.at = "start", !.l = job[k].l]
                ELSE Idle
<1>1. job[k] \in Jobs /\ job[k].l \in Listings \cup {None}
  BY DEF Inv, TypeOK, Jobs
<1>2. j \in Jobs /\ j.s = None /\ j.at \in {"start", "idle"}
  BY <1>1 DEF Idle, Jobs, Labels, Modes
<1>3. Touches(k) /\ job'[k] = j
  BY <1>2, Becoming DEF AttachAssets
<1>4. UNCHANGED <<wallet, listing, auction, order, delivered, scan, worker, deposits, faults>>
  BY DEF AttachAssets
<1>5. row' \in [Assets -> Rows] /\ OwnersStay
  <2>1. ASSUME NEW a \in Assets
        PROVE  row'[a] \in Rows /\ row'[a].owner = row[a].owner
               /\ row'[a].custodian = row[a].custodian
    <3>1. row[a] \in Rows
      BY DEF Inv, TypeOK
    <3>2. row'[a] = row[a] \/ row'[a] = [row[a] EXCEPT !.listing = job[k].l]
      BY DEF AttachAssets
    <3>3. QED
      BY <1>1, <3>1, <3>2 DEF Rows
  <2>2. row' = [a \in Assets |-> row'[a]]
    BY DEF AttachAssets
  <2>3. QED
    BY <2>1, <2>2 DEF OwnersStay
<1>6. RowsOK' /\ OneUnit' /\ \A s \in Sales : Untaken(s)' => Untaken(s)
  BY <1>4, <1>5 DEF Inv, TypeOK, RowsOK, OneUnit, Untaken
<1>7. QED
  BY <1>2, <1>3, <1>4, <1>5, <1>6, QuietStep DEF ClaimLabels

LEMMA DetachAssetsStep ==
  ASSUME Inv, NEW k \in Requests, DetachAssets(k)
  PROVE  Inv'
<1>1. Touches(k) /\ job'[k] = Idle
  BY DoneJob DEF DetachAssets
<1>2. UNCHANGED <<wallet, listing, auction, order, delivered, scan, worker, deposits, faults>>
  BY DEF DetachAssets
<1>3. row' \in [Assets -> Rows] /\ OwnersStay
  <2>1. ASSUME NEW a \in Assets
        PROVE  row'[a] \in Rows /\ row'[a].owner = row[a].owner
               /\ row'[a].custodian = row[a].custodian
    <3>1. row[a] \in Rows
      BY DEF Inv, TypeOK
    <3>2. row'[a] = row[a] \/ row'[a] = [row[a] EXCEPT !.listing = None]
      BY DEF DetachAssets, Detached
    <3>3. QED
      BY <3>1, <3>2 DEF Rows
  <2>2. row' = [a \in Assets |-> row'[a]]
    BY DEF DetachAssets, Detached
  <2>3. QED
    BY <2>1, <2>2 DEF OwnersStay
<1>4. RowsOK' /\ OneUnit' /\ \A s \in Sales : Untaken(s)' => Untaken(s)
  BY <1>2, <1>3 DEF Inv, TypeOK, RowsOK, OneUnit, Untaken
<1>5. QED
  BY <1>1, <1>2, <1>3, <1>4, IdleJob, QuietStep DEF ClaimLabels

LEMMA StartAuctionStep ==
  ASSUME Inv, NEW k \in Requests, StartAuction(k)
  PROVE  Inv'
<1> DEFINE l == job[k].l
<1>1. Touches(k) /\ job'[k] = Idle
  BY DoneJob DEF StartAuction
<1>2. UNCHANGED <<wallet, row, order, delivered, scan, worker, deposits, faults>>
  BY DEF StartAuction
<1>3. l \in Listings \cup {None}
  BY DEF Inv, TypeOK, Jobs
<1>4. PICK x \in Auctions :
        /\ auction[x] = NoAuction
        /\ auction' = [auction EXCEPT ![x] = [status |-> "RUNNING", listing |-> l]]
  BY DEF StartAuction
<1>5. auction' \in [Auctions -> AuctionRows]
      /\ \A y \in Auctions : auction'[y].status \in {"NONE", "RUNNING"} =>
           auction[y].status \in {"NONE", "RUNNING"}
  BY <1>3, <1>4 DEF Inv, TypeOK, AuctionRows, NoAuction
<1>6. listing' = [listing EXCEPT ![l].status = "LIVE"]
  BY DEF StartAuction
<1>7. ASSUME NEW i \in Listings
      PROVE  /\ listing'[i] \in ListingRows /\ listing'[i].quantity = listing[i].quantity
             /\ listing'[i].status \in {"NONE", "CANCELED"} =>
                  listing[i].status \in {"NONE", "CANCELED"}
  <2>1. listing[i] \in ListingRows
    BY DEF Inv, TypeOK
  <2>2. listing'[i] = listing[i] \/ listing'[i] = [listing[i] EXCEPT !.status = "LIVE"]
    BY <1>6 DEF Inv, TypeOK
  <2>3. QED
    BY <2>1, <2>2 DEF ListingRows
<1>8. listing' \in [Listings -> ListingRows]
  BY <1>6, <1>7 DEF Inv, TypeOK
<1>9. RowsOK' /\ OneUnit' /\ OwnersStay /\ \A s \in Sales : Untaken(s)' => Untaken(s)
  BY <1>2, <1>5, <1>7, <1>8 DEF Inv, TypeOK, RowsOK, OneUnit, OwnersStay, Untaken
<1>10. QED
  BY <1>1, <1>2, <1>9, IdleJob, QuietStep DEF ClaimLabels

\* One listing changes, by its status or its quantity.
LEMMA ListingChange ==
  ASSUME Inv, NEW l \in Listings, NEW r \in ListingRows, r.quantity <= 1,
         listing' = [listing EXCEPT ![l] = r], auction' = auction,
         UNCHANGED <<wallet, row, delivered, scan, worker, deposits, faults>>
  PROVE  /\ RowsOK' /\ OneUnit' /\ OwnersStay
         /\ listing'[l] = r
         /\ \A s \in Sales : s # l => (Untaken(s)' <=> Untaken(s))
<1>1. listing' \in [Listings -> ListingRows] /\ listing'[l] = r
      /\ \A i \in Listings \ {l} : listing'[i] = listing[i]
  BY DEF Inv, TypeOK
<1>2. \A s \in Sales : s # l => (Untaken(s)' <=> Untaken(s))
  BY <1>1 DEF Untaken
<1>3. RowsOK' /\ OneUnit' /\ OwnersStay
  BY <1>1 DEF Inv, TypeOK, RowsOK, OneUnit, OwnersStay
<1>4. QED
  BY <1>1, <1>2, <1>3

\* Only a listing with its unit is taken down.
LEMMA CancelListingStep ==
  ASSUME Inv, NEW k \in Requests, CancelListing(k)
  PROVE  Inv'
<1> DEFINE l == job[k].l
<1>1. job[k] \in Jobs /\ job[k].s = None
  BY DEF Inv, TypeOK, JobsFit, Fits, ClaimLabels, CancelListing, At
<1>2. CASE listing' = listing /\ Done(k)
  <2>1. Touches(k) /\ job'[k] = Idle
    BY <1>2, DoneJob
  <2>2. UNCHANGED <<wallet, rowVars, scan, worker, deposits, faults>>
    BY <1>2 DEF CancelListing, rowVars
  <2>3. QED
    BY <2>1, <2>2, IdleJob, AllKeep, QuietStep DEF ClaimLabels
<1>3. CASE UnitLeft(l) /\ listing' = [listing EXCEPT ![l].status = "CANCELED"]
           /\ GoTo(k, "detach")
  <2>1. Touches(k) /\ job'[k].s = None /\ job'[k].at = "detach"
    BY <1>1, <1>3, GoToJob DEF Labels
  <2>2. UNCHANGED <<wallet, row, auction, order, delivered, scan, worker, deposits, faults>>
    BY DEF CancelListing
  <2>3. CASE l \notin Listings
    <3>1. listing' = listing
      BY <1>3, <2>3 DEF Inv, TypeOK
    <3>2. UNCHANGED <<wallet, rowVars, scan, worker, deposits, faults>>
      BY <2>2, <3>1 DEF rowVars
    <3>3. QED
      BY <2>1, <3>2, AllKeep, QuietStep DEF ClaimLabels
  <2>4. CASE l \in Listings
    <3> DEFINE r == [listing[l] EXCEPT !.status = "CANCELED"]
    <3>1. r \in ListingRows /\ r.quantity <= 1 /\ listing' = [listing EXCEPT ![l] = r]
      BY <1>3, <2>4 DEF Inv, TypeOK, OneUnit, ListingRows
    <3>2. RowsOK' /\ OneUnit' /\ OwnersStay
          /\ \A s \in Sales : s # l => (Untaken(s)' <=> Untaken(s))
      BY <2>2, <2>4, <3>1, ListingChange
    <3>3. Untaken(l)
      BY <1>3, <2>4 DEF Untaken, UnitLeft
    <3>4. QED
      BY <2>1, <2>2, <3>2, <3>3, QuietStep DEF ClaimLabels
  <2>5. QED
    BY <2>3, <2>4
<1>4. QED
  BY <1>2, <1>3 DEF CancelListing

-----------------------------------------------------------------------------
(* Sales.                                                                  *)

LEMMA BuyStep ==
  ASSUME Inv, NEW k \in Requests, NEW u \in Users, NEW l \in Listings, Buy(k, u, l)
  PROVE  Inv'
<1> DEFINE j == [Idle EXCEPT !.at = "unit", !.u = u, !.l = l, !.s = l]
<1>1. j \in Jobs /\ j.s = l /\ j.l = l /\ j.u = u /\ j.at = "unit"
  BY SaleIds DEF Idle, Jobs, Labels, Modes
<1>2. Touches(k) /\ job'[k] = j
  BY <1>1, Becoming DEF Buy
<1>3. Fits(j, order)
  BY <1>1, SaleIds DEF Fits
<1>4. \A s \in Sales : ~Claims(k, s)'
  BY <1>1, <1>2 DEF Claims
<1>5. RowsOK' /\ OneUnit' /\ OwnersStay /\ order' = order /\ delivered' = delivered
      /\ \A s \in Sales : Untaken(s)' => Untaken(s)
  BY AllKeep DEF Buy
<1>6. OrdersBy(k) /\ ChargesStay
  BY <1>5 DEF Inv, TypeOK, OrdersBy, ChargesStay
<1>7. TakenFairly(k) /\ FreedFairly(k)
  BY <1>4, <1>5 DEF TakenFairly, FreedFairly, Inv, UntakenIsFree
<1>8. QED
  BY <1>2, <1>3, <1>5, <1>6, <1>7, HandlerStep

\* The unit is there, so nobody has taken the sale.
LEMMA ClaimUnitStep ==
  ASSUME Inv, NEW k \in Requests, ClaimUnit(k)
  PROVE  Inv'
<1> DEFINE l == job[k].l
<1>1. job[k] \in Jobs /\ Fits(job[k], order) /\ job[k].at = "unit"
  BY DEF Inv, TypeOK, JobsFit, ClaimUnit, At
<1>2. job[k].s = l /\ l \in Listings /\ job[k].u \in Users
  BY <1>1, SaleIds DEF Fits
<1>3. CASE listing' = listing /\ Done(k)
  <2>1. Touches(k) /\ job'[k] = Idle
    BY <1>3, DoneJob
  <2>2. UNCHANGED <<wallet, rowVars, scan, worker, deposits, faults>>
    BY <1>3 DEF ClaimUnit, rowVars
  <2>3. QED
    BY <2>1, <2>2, IdleJob, AllKeep, QuietStep DEF ClaimLabels
<1>4. CASE UnitLeft(l) /\ listing' = [listing EXCEPT ![l].quantity = @ - 1]
           /\ GoTo(k, "order")
  <2> DEFINE r == [listing[l] EXCEPT !.quantity = @ - 1]
  <2>1. /\ Touches(k) /\ job'[k].at = "order"
        /\ job'[k].u = job[k].u /\ job'[k].l = l /\ job'[k].s = l
    BY <1>2, <1>4, GoToJob DEF Labels
  <2>2. UNCHANGED <<wallet, row, auction, order, delivered, scan, worker, deposits, faults>>
    BY DEF ClaimUnit
  <2>3. Untaken(l) /\ ~Charged(order[l])
    BY <1>2, <1>4, SaleIds DEF Untaken, UnitLeft, Inv, UntakenIsFree
  <2>4. /\ r \in ListingRows /\ r.quantity <= 0 /\ r.quantity <= 1 /\ r.status = "QUEUED"
        /\ listing' = [listing EXCEPT ![l] = r]
    <3>1. listing[l] \in ListingRows /\ listing[l].quantity <= 1 /\ listing[l].status = "QUEUED"
      BY <1>2, <1>4 DEF Inv, TypeOK, OneUnit, UnitLeft
    <3>2. r \in ListingRows /\ r.quantity = listing[l].quantity - 1 /\ r.status = "QUEUED"
      BY <3>1 DEF ListingRows
    <3>3. listing[l].quantity \in Int
      BY <3>1 DEF ListingRows
    <3>4. listing' = [listing EXCEPT ![l] = r]
      BY <1>2, <1>4 DEF Inv, TypeOK
    <3>5. QED
      BY <3>1, <3>2, <3>3, <3>4
  <2>5. RowsOK' /\ OneUnit' /\ OwnersStay /\ listing'[l] = r
        /\ \A s \in Sales : s # l => (Untaken(s)' <=> Untaken(s))
    BY <1>2, <2>2, <2>4, ListingChange
  <2>6. ~Untaken(l)'
    BY <1>2, <2>1, <2>4, <2>5, SaleIds DEF Untaken, ListingRows
  <2>7. Fits(job'[k], order')
    BY <1>2, <2>1, <2>2, <2>3, SaleIds DEF Fits, ClaimLabels
  <2>8. OrdersBy(k) /\ ChargesStay
    BY <2>2 DEF Inv, TypeOK, OrdersBy, ChargesStay
  <2>9. TakenFairly(k)
    BY <2>1, <2>3 DEF TakenFairly, Claims
  <2>10. FreedFairly(k)
    BY <2>1, <2>2, <2>5, <2>6 DEF FreedFairly, Claims, Inv, UntakenIsFree
  <2>11. QED
    BY <2>1, <2>5, <2>7, <2>8, <2>9, <2>10, HandlerStep
<1>5. QED
  BY <1>3, <1>4 DEF ClaimUnit

\* An auction is won once.
LEMMA CloseWonStep ==
  ASSUME Inv, NEW k \in Requests, NEW x \in Auctions, NEW u \in Users, CloseWon(k, x, u)
  PROVE  Inv'
<1> DEFINE l == auction[x].listing
           j == [Idle EXCEPT !.at = "order", !.u = u, !.l = l, !.s = x]
<1>1. l \in Listings \cup {None} /\ auction[x] \in AuctionRows
  BY DEF Inv, TypeOK, AuctionRows
<1>2. j \in Jobs /\ j.s = x /\ j.u = u /\ j.at = "order"
  BY <1>1, SaleIds DEF Idle, Jobs, Labels, Modes
<1>3. Touches(k) /\ job'[k] = j
  BY <1>2, Becoming DEF CloseWon
<1>4. UNCHANGED <<wallet, row, order, delivered, scan, worker, deposits, faults>>
  BY DEF CloseWon
<1>5. Untaken(x) /\ ~Charged(order[x])
  BY SaleIds DEF Untaken, CloseWon, Inv, UntakenIsFree
<1>6. /\ auction' \in [Auctions -> AuctionRows] /\ auction'[x].status = "SETTLING"
      /\ \A y \in Auctions \ {x} : auction'[y] = auction[y]
  <2> DEFINE r == [auction[x] EXCEPT !.status = "SETTLING"]
  <2>1. r \in AuctionRows /\ r.status = "SETTLING" /\ auction' = [auction EXCEPT ![x] = r]
    BY <1>1 DEF AuctionRows, CloseWon, Inv, TypeOK
  <2>2. QED
    BY <2>1 DEF Inv, TypeOK
<1>7. ASSUME NEW i \in Listings
      PROVE  /\ listing'[i] \in ListingRows /\ listing'[i].quantity = listing[i].quantity
             /\ listing'[i].status \in {"NONE", "CANCELED"} =>
                  listing[i].status \in {"NONE", "CANCELED"}
  <2>1. listing[i] \in ListingRows
    BY DEF Inv, TypeOK
  <2>2. listing'[i] = listing[i] \/ listing'[i] = [listing[i] EXCEPT !.status = "SOLD"]
    BY DEF CloseWon, Inv, TypeOK
  <2>3. QED
    BY <2>1, <2>2 DEF ListingRows
<1>8. listing' \in [Listings -> ListingRows]
  BY <1>7 DEF Inv, TypeOK, CloseWon
<1>9. RowsOK' /\ OneUnit' /\ OwnersStay
  BY <1>4, <1>6, <1>7, <1>8 DEF Inv, TypeOK, RowsOK, OneUnit, OwnersStay
<1>10. \A s \in Sales : Untaken(s)' => Untaken(s) /\ s # x
  BY <1>6, <1>7, SaleIds DEF Untaken
<1>11. Fits(job'[k], order')
  BY <1>2, <1>3, <1>4, <1>5, SaleIds DEF Fits, ClaimLabels
<1>12. OrdersBy(k) /\ ChargesStay
  BY <1>4 DEF Inv, TypeOK, OrdersBy, ChargesStay
<1>13. TakenFairly(k)
  BY <1>2, <1>3, <1>5 DEF TakenFairly, Claims
<1>14. FreedFairly(k)
  BY <1>2, <1>3, <1>4, <1>10 DEF FreedFairly, Claims, Inv, UntakenIsFree
<1>15. QED
  BY <1>3, <1>9, <1>11, <1>12, <1>13, <1>14, HandlerStep

\* Nobody bids: the listing goes back to the shelf or stays unsold.
LEMMA CloseUnsoldStep ==
  ASSUME Inv, NEW x \in Auctions, CloseUnsold(x)
  PROVE  Inv'
<1> DEFINE l == auction[x].listing
           st == IF listing[l].quantity > 0 THEN "QUEUED" ELSE "UNSOLD"
<1>1. UNCHANGED <<wallet, row, order, delivered, job, scan, worker, deposits, faults>>
  BY DEF CloseUnsold, memoryVars
<1>2. /\ auction' \in [Auctions -> AuctionRows]
      /\ \A y \in Auctions : auction'[y].status \in {"NONE", "RUNNING"} =>
           auction[y].status \in {"NONE", "RUNNING"}
  BY DEF CloseUnsold, Inv, TypeOK, AuctionRows
<1>3. ASSUME NEW i \in Listings
      PROVE  /\ listing'[i] \in ListingRows /\ listing'[i].quantity = listing[i].quantity
             /\ listing'[i].status \in {"NONE", "CANCELED"} =>
                  listing[i].status \in {"NONE", "CANCELED"}
  <2>1. listing[i] \in ListingRows
    BY DEF Inv, TypeOK
  <2>2. st \in {"QUEUED", "UNSOLD"}
    OBVIOUS
  <2>3. listing'[i] = listing[i] \/ listing'[i] = [listing[i] EXCEPT !.status = st]
    BY DEF CloseUnsold, Inv, TypeOK
  <2>4. QED
    BY <2>1, <2>2, <2>3 DEF ListingRows
<1>4. listing' \in [Listings -> ListingRows]
  BY <1>3 DEF Inv, TypeOK, CloseUnsold
<1>5. TypeOK' /\ OneUnit'
  BY <1>1, <1>2, <1>3, <1>4 DEF Inv, TypeOK, OneUnit
<1>6. \A s \in Sales : Untaken(s)' => Untaken(s)
  BY <1>2, <1>3 DEF Untaken
<1>7. JobsFit' /\ OneClaim' /\ UntakenIsFree' /\ OwnersPaid'
  BY <1>1, <1>6 DEF Inv, JobsFit, OneClaim, UntakenIsFree, Claims, OwnersPaid, Standing
<1>8. QED
  BY <1>5, <1>7 DEF Inv

\* What a step on the handler's own sale may assume.
LEMMA OwnSale ==
  ASSUME Inv, NEW k \in Requests, job[k].at \in ClaimLabels
  PROVE  /\ job[k] \in Jobs /\ Fits(job[k], order) /\ job[k].s \in Sales
         /\ job[k].s # None /\ job[k].at # "unit"
         /\ Claims(k, job[k].s) /\ job[k].u \in Users
         /\ order \in [Sales -> OrderRows] /\ ~Untaken(job[k].s)
<1>1. job[k] \in Jobs /\ Fits(job[k], order) /\ order \in [Sales -> OrderRows]
  BY DEF Inv, TypeOK, JobsFit
<1>2. job[k].s \in Sales /\ job[k].s # None /\ job[k].u \in Users /\ job[k].at # "unit"
  BY <1>1 DEF Fits, Jobs, ClaimLabels
<1>3. Claims(k, job[k].s) /\ ~Untaken(job[k].s)
  BY <1>2 DEF Claims, Inv, UntakenIsFree
<1>4. QED
  BY <1>1, <1>2, <1>3

\* The order of the sale becomes o, while nothing else but the handler moves.
LEMMA OrderStep ==
  ASSUME Inv, NEW k \in Requests, job[k].at \in ClaimLabels, NEW o \in OrderRows,
         order' = [order EXCEPT ![job[k].s] = o],
         Charged(order[job[k].s]) => Charged(o) /\ o.buyer = order[job[k].s].buyer,
         UNCHANGED <<wallet, row, listing, auction, delivered, scan, worker, deposits, faults>>,
         Touches(k), job'[k].s = None \/ (job'[k].s = job[k].s /\ job'[k].at # "unit"),
         Fits(job'[k], order')
  PROVE  Inv'
<1> DEFINE s == job[k].s
<1>1. s \in Sales /\ Claims(k, s) /\ order \in [Sales -> OrderRows]
  BY OwnSale
<1>2. /\ order' \in [Sales -> OrderRows] /\ order'[s] = o
      /\ \A t \in Sales \ {s} : order'[t] = order[t]
  BY <1>1
<1>3. OrdersBy(k) /\ ChargesStay
  BY <1>1, <1>2 DEF OrdersBy, ChargesStay, Claims
<1>4. RowsOK' /\ OneUnit' /\ OwnersStay
  BY DEF Inv, TypeOK, RowsOK, OneUnit, OwnersStay
<1>5. \A t \in Sales : Untaken(t)' <=> Untaken(t)
  BY DEF Untaken
<1>6. \A t \in Sales : Claims(k, t)' => Claims(k, t)
  BY <1>1, SaleIds DEF Claims, Sales
<1>7. TakenFairly(k)
  BY <1>6 DEF TakenFairly
<1>8. FreedFairly(k)
  <2>1. ASSUME NEW t \in Sales, Untaken(t)'
        PROVE  Untaken(t) /\ ~Claims(k, t)' /\ ~Charged(order'[t])
    <3>1. Untaken(t) /\ ~Claims(k, t) /\ ~Charged(order[t])
      BY <1>5, <2>1 DEF Inv, UntakenIsFree
    <3>2. t # s
      BY <1>1, <3>1
    <3>3. QED
      BY <1>2, <1>6, <3>1, <3>2
  <2>2. QED
    BY <2>1 DEF FreedFairly
<1>9. QED
  BY <1>3, <1>4, <1>7, <1>8, HandlerStep

LEMMA CreateOrderStep ==
  ASSUME Inv, NEW k \in Requests, CreateOrder(k)
  PROVE  Inv'
<1> DEFINE o == [status |-> "PENDING_SETTLEMENT", buyer |-> job[k].u]
<1>1. job[k].at = "order" /\ job[k].at \in ClaimLabels
  BY DEF CreateOrder, At, ClaimLabels
<1>2. /\ Fits(job[k], order) /\ job[k].s \in Sales /\ job[k].u \in Users /\ job[k].s # None
      /\ order \in [Sales -> OrderRows]
  BY <1>1, OwnSale
<1>3. o \in OrderRows /\ ~Charged(o) /\ ~Charged(order[job[k].s])
  BY <1>1, <1>2 DEF OrderRows, Charged, Fits
<1>4. /\ Touches(k) /\ job'[k].at = "charge"
      /\ job'[k].u = job[k].u /\ job'[k].l = job[k].l /\ job'[k].s = job[k].s
  BY GoToJob DEF CreateOrder, Labels
<1>5. order' = [order EXCEPT ![job[k].s] = o] /\ order'[job[k].s] = o
  BY <1>2 DEF CreateOrder
<1>6. Fits(job'[k], order')
  BY <1>2, <1>3, <1>4, <1>5 DEF Fits, ClaimLabels
<1>7. UNCHANGED <<wallet, row, listing, auction, delivered, scan, worker, deposits, faults>>
  BY DEF CreateOrder
<1>8. QED
  BY <1>1, <1>3, <1>4, <1>5, <1>6, <1>7, OrderStep

LEMMA ChargeStep ==
  ASSUME Inv, NEW k \in Requests, Charge(k)
  PROVE  Inv'
<1> DEFINE s == job[k].s
           o == [order[s] EXCEPT !.status = "LOCKED"]
           at == IF s \in Auctions THEN "count" ELSE "retire"
<1>1. job[k].at = "charge" /\ job[k].at \in ClaimLabels
  BY DEF Charge, At, ClaimLabels
<1>2. /\ Fits(job[k], order) /\ s \in Sales /\ job[k].u \in Users /\ s # None
      /\ order \in [Sales -> OrderRows]
  BY <1>1, OwnSale
<1>3. o \in OrderRows /\ Charged(o) /\ o.buyer = order[s].buyer /\ order[s].buyer = job[k].u
  BY <1>1, <1>2 DEF OrderRows, Charged, Fits
<1>4. /\ Touches(k) /\ job'[k].at = at
      /\ job'[k].u = job[k].u /\ job'[k].l = job[k].l /\ job'[k].s = job[k].s
  BY GoToJob DEF Charge, Labels
<1>5. order' = [order EXCEPT ![s] = o]
  BY <1>2 DEF Charge
<1>6. order'[job'[k].s] = o
  BY <1>2, <1>4, <1>5
<1>7. at = "retire" => s \in Listings
  BY <1>2 DEF Sales
<1>8. Fits(job'[k], order')
  BY <1>2, <1>3, <1>4, <1>6, <1>7 DEF Fits, ClaimLabels
<1>9. UNCHANGED <<wallet, row, listing, auction, delivered, scan, worker, deposits, faults>>
  BY DEF Charge
<1>10. QED
  BY <1>1, <1>3, <1>4, <1>5, <1>8, <1>9, OrderStep

LEMMA RefuseStep ==
  ASSUME Inv, NEW k \in Requests, Refuse(k)
  PROVE  Inv'
<1> DEFINE s == job[k].s
<1>1. job[k].at = "charge" /\ job[k].at \in ClaimLabels /\ s \in Listings
  BY DEF Refuse, At, ClaimLabels
<1>2. /\ Fits(job[k], order) /\ s \in Sales /\ s # None /\ order \in [Sales -> OrderRows]
  BY <1>1, OwnSale
<1>3. NoOrder \in OrderRows /\ ~Charged(NoOrder) /\ ~Charged(order[s])
  BY <1>1, <1>2 DEF NoOrder, OrderRows, Charged, Fits
<1>4. /\ Touches(k) /\ job'[k].at = "putback"
      /\ job'[k].u = job[k].u /\ job'[k].l = job[k].l /\ job'[k].s = job[k].s
  BY GoToJob DEF Refuse, Labels
<1>5. order' = [order EXCEPT ![s] = NoOrder]
  BY DEF Refuse
<1>6. order'[job'[k].s] = NoOrder
  BY <1>2, <1>4, <1>5
<1>7. Fits(job'[k], order')
  BY <1>1, <1>2, <1>3, <1>4, <1>6 DEF Fits, ClaimLabels
<1>8. UNCHANGED <<wallet, row, listing, auction, delivered, scan, worker, deposits, faults>>
  BY DEF Refuse
<1>9. QED
  BY <1>1, <1>3, <1>4, <1>5, <1>7, <1>8, OrderStep

LEMMA PaySellerStep ==
  ASSUME Inv, NEW k \in Requests, PaySeller(k)
  PROVE  Inv'
<1> DEFINE s == job[k].s
           st == IF order[s].status = "LOCKED" THEN "RELEASED" ELSE order[s].status
           o == [order[s] EXCEPT !.status = st]
<1>1. job[k].at = "release" /\ job[k].at \in ClaimLabels
  BY DEF PaySeller, At, ClaimLabels
<1>2. s \in Sales /\ order \in [Sales -> OrderRows]
  BY <1>1, OwnSale
<1>3. o \in OrderRows /\ (Charged(order[s]) => Charged(o)) /\ o.buyer = order[s].buyer
  BY <1>2 DEF OrderRows, Charged
<1>4. Touches(k) /\ job'[k] = Idle
  BY DoneJob DEF PaySeller
<1>5. order' = [order EXCEPT ![s] = o]
  BY <1>2 DEF PaySeller
<1>6. Fits(job'[k], order') /\ job'[k].s = None
  BY <1>4, IdleJob, QuietJob DEF ClaimLabels
<1>7. UNCHANGED <<wallet, row, listing, auction, delivered, scan, worker, deposits, faults>>
  BY DEF PaySeller
<1>8. PICK q \in OrderRows : /\ order' = [order EXCEPT ![job[k].s] = q]
                             /\ Charged(order[job[k].s]) =>
                                  Charged(q) /\ q.buyer = order[job[k].s].buyer
  BY <1>3, <1>5
<1>9. Touches(k)
  BY <1>4
<1>10. job'[k].s = None \/ (job'[k].s = job[k].s /\ job'[k].at # "unit")
  BY <1>6
<1>11. Fits(job'[k], order')
  BY <1>6
<1>12. QED
  BY <1>1, <1>7, <1>8, <1>9, <1>10, <1>11, OrderStep

\* Only the handler that gives a unit back frees its sale.
LEMMA PutBackStep ==
  ASSUME Inv, NEW k \in Requests, PutBack(k)
  PROVE  Inv'
<1> DEFINE l == job[k].s
           r == [listing[l] EXCEPT !.quantity = @ + 1]
<1>1. job[k].at = "putback" /\ job[k].at \in ClaimLabels
  BY DEF PutBack, At, ClaimLabels
<1>2. /\ Fits(job[k], order) /\ l \in Sales /\ Claims(k, l) /\ ~Untaken(l)
  BY <1>1, OwnSale
<1>3. l \in Listings /\ job[k].l = l /\ ~Charged(order[l])
  BY <1>1, <1>2 DEF Fits
<1>4. Touches(k) /\ job'[k] = Idle
  BY DoneJob DEF PutBack
<1>5. UNCHANGED <<wallet, row, auction, order, delivered, scan, worker, deposits, faults>>
  BY DEF PutBack
<1>6. r \in ListingRows /\ r.quantity <= 1 /\ listing' = [listing EXCEPT ![l] = r]
  <2>1. listing[l] \in ListingRows /\ ~(listing[l].quantity > 0) /\ listing \in [Listings -> ListingRows]
    BY <1>2, <1>3 DEF Untaken, Inv, TypeOK
  <2>2. listing[l].quantity \in Int /\ r.quantity = listing[l].quantity + 1 /\ r \in ListingRows
    BY <2>1 DEF ListingRows
  <2>3. QED
    BY <1>3, <2>1, <2>2 DEF PutBack
<1>7. RowsOK' /\ OneUnit' /\ OwnersStay
      /\ \A s \in Sales : s # l => (Untaken(s)' <=> Untaken(s))
  BY <1>3, <1>5, <1>6, ListingChange
<1>8. Fits(job'[k], order') /\ \A s \in Sales : ~Claims(k, s)'
  BY <1>4, IdleJob, QuietJob, SaleIds DEF ClaimLabels, Claims, Sales
<1>9. OrdersBy(k) /\ ChargesStay
  BY <1>5 DEF Inv, TypeOK, OrdersBy, ChargesStay
<1>10. TakenFairly(k)
  BY <1>8 DEF TakenFairly
<1>11. FreedFairly(k)
  BY <1>2, <1>3, <1>5, <1>7, <1>8 DEF FreedFairly, Inv, UntakenIsFree
<1>12. QED
  BY <1>4, <1>7, <1>8, <1>9, <1>10, <1>11, HandlerStep

\* A handler goes on to another statement of its sale that relies on the same.
LEMMA SaleGoesOn ==
  ASSUME Inv, NEW k \in Requests, NEW at \in {"requeue", "sold", "credit", "release"},
         job[k].at \in {"retire", "count", "requeue", "sold", "credit"}, GoTo(k, at), order' = order
  PROVE  /\ Touches(k) /\ job[k].s # None /\ job[k].at # "unit"
         /\ job'[k].s = job[k].s /\ job'[k].at # "unit"
         /\ OrdersBy(k) /\ Fits(job'[k], order')
<1>1. job[k].at \in ClaimLabels
  BY DEF ClaimLabels
<1>2. Fits(job[k], order) /\ job[k].s # None /\ job[k].at # "unit"
  BY <1>1, OwnSale
<1>3. /\ Touches(k) /\ job'[k].at = at
      /\ job'[k].u = job[k].u /\ job'[k].l = job[k].l /\ job'[k].s = job[k].s
  BY GoToJob DEF Labels
<1>4. Fits(job'[k], order')
  BY <1>2, <1>3 DEF Fits, ClaimLabels
<1>5. OrdersBy(k)
  BY DEF Inv, TypeOK, OrdersBy
<1>6. QED
  BY <1>2, <1>3, <1>4, <1>5

LEMMA RetireListingStep ==
  ASSUME Inv, NEW k \in Requests, RetireListing(k)
  PROVE  Inv'
<1> DEFINE l == job[k].s
           st == IF listing[l].quantity <= 0 THEN "SOLD" ELSE listing[l].status
           r == [listing[l] EXCEPT !.status = st]
<1>1. job[k].at = "retire" /\ job[k].at \in ClaimLabels
  BY DEF RetireListing, At, ClaimLabels
<1>2. Fits(job[k], order) /\ l \in Sales /\ ~Untaken(l)
  BY <1>1, OwnSale
<1>3. l \in Listings /\ job[k].l = l /\ Charged(order[l])
  BY <1>1, <1>2 DEF Fits
<1>4. /\ Touches(k) /\ l # None /\ job[k].at # "unit" /\ job'[k].s = l /\ job'[k].at # "unit"
      /\ OrdersBy(k) /\ Fits(job'[k], order')
  BY <1>1, SaleGoesOn DEF RetireListing
<1>5. UNCHANGED <<wallet, row, auction, order, delivered, scan, worker, deposits, faults>>
  BY DEF RetireListing
<1>6. r \in ListingRows /\ r.quantity = listing[l].quantity /\ r.quantity <= 1
      /\ (r.status \in {"NONE", "CANCELED"} => listing[l].status \in {"NONE", "CANCELED"})
  <2>1. listing[l] \in ListingRows /\ listing[l].quantity <= 1
    BY <1>3 DEF Inv, TypeOK, OneUnit
  <2>2. QED
    BY <2>1 DEF ListingRows
<1>7. listing' = [listing EXCEPT ![l] = r]
  <2>1. CASE listing[l].quantity <= 0
    BY <1>3, <2>1 DEF RetireListing, Inv, TypeOK
  <2>2. CASE ~(listing[l].quantity <= 0)
    <3>1. listing' = listing /\ r = listing[l]
      BY <1>3, <2>2 DEF RetireListing, Inv, TypeOK, ListingRows
    <3>2. QED
      BY <1>3, <3>1 DEF Inv, TypeOK
  <2>3. QED
    BY <2>1, <2>2
<1>8. RowsOK' /\ OneUnit' /\ OwnersStay /\ listing'[l] = r
      /\ \A s \in Sales : s # l => (Untaken(s)' <=> Untaken(s))
  BY <1>3, <1>5, <1>6, <1>7, ListingChange
<1>9. \A s \in Sales : Untaken(s)' => Untaken(s)
  <2>1. \A s \in Sales : s = l => ~Untaken(s)'
    BY <1>2, <1>3, <1>6, <1>8, SaleIds DEF Untaken
  <2>2. QED
    BY <1>8, <2>1
<1>10. ChargesStay
  BY <1>5 DEF Inv, TypeOK, ChargesStay
<1>11. QED
  BY <1>4, <1>8, <1>9, <1>10, SaleStep

\* A step that only changes a listing's status or counts a unit off it, of a sale
\* that is charged.
LEMMA ListingStep ==
  ASSUME Inv, NEW k \in Requests, NEW at \in {"requeue", "sold", "credit"},
         job[k].at \in {"count", "requeue", "sold"}, GoTo(k, at),
         UNCHANGED <<wallet, row, auction, order, delivered, scan, worker, deposits, faults>>,
         NEW l \in Listings, NEW r \in ListingRows, listing' = [listing EXCEPT ![l] = r],
         r.quantity <= listing[l].quantity,
         r.status \in {"NONE", "CANCELED"} => r.status = listing[l].status
  PROVE  Inv'
<1>1. /\ Touches(k) /\ job[k].s # None /\ job[k].at # "unit" /\ job'[k].s = job[k].s
      /\ job'[k].at # "unit" /\ OrdersBy(k) /\ Fits(job'[k], order')
  BY SaleGoesOn
<1>2. listing[l].quantity \in Int /\ r.quantity \in Int /\ listing[l].quantity <= 1
  BY DEF Inv, TypeOK, OneUnit, ListingRows
<1>3. r.quantity <= 1
  BY <1>2
<1>4. RowsOK' /\ OneUnit' /\ OwnersStay /\ listing'[l] = r
      /\ \A s \in Sales : s # l => (Untaken(s)' <=> Untaken(s))
  BY <1>3, ListingChange
<1>5. \A s \in Sales : Untaken(s)' => Untaken(s)
  <2>1. \A s \in Sales : s = l => (Untaken(s)' => Untaken(s))
    BY <1>2, <1>4, SaleIds DEF Untaken
  <2>2. QED
    BY <1>4, <2>1
<1>6. ChargesStay
  BY DEF Inv, TypeOK, ChargesStay
<1>7. QED
  BY <1>1, <1>4, <1>5, <1>6, SaleStep

\* The same of a sale of no listing.
LEMMA NoListingStep ==
  ASSUME Inv, NEW k \in Requests, NEW at \in {"requeue", "sold", "credit"},
         job[k].at \in {"count", "requeue", "sold"}, GoTo(k, at),
         UNCHANGED <<wallet, row, listing, auction, order, delivered, scan, worker, deposits,
                     faults>>
  PROVE  Inv'
<1>1. /\ Touches(k) /\ job[k].s # None /\ job[k].at # "unit" /\ job'[k].s = job[k].s
      /\ job'[k].at # "unit" /\ OrdersBy(k) /\ Fits(job'[k], order')
  BY SaleGoesOn
<1>2. RowsOK' /\ OneUnit' /\ OwnersStay /\ \A s \in Sales : Untaken(s)' => Untaken(s)
  BY AllKeep DEF rowVars
<1>3. ChargesStay
  BY DEF Inv, TypeOK, ChargesStay
<1>4. QED
  BY <1>1, <1>2, <1>3, SaleStep

LEMMA CountUnitStep ==
  ASSUME Inv, NEW k \in Requests, CountUnit(k)
  PROVE  Inv'
<1> DEFINE l == job[k].l
<1>1. PICK at \in {"requeue", "sold"} : GoTo(k, at)
  BY DEF CountUnit
<1>2. /\ job[k].at = "count"
      /\ UNCHANGED <<wallet, row, auction, order, delivered, scan, worker, deposits, faults>>
  BY DEF CountUnit, At
<1>3. CASE l \notin Listings
  <2>1. listing' = listing
    BY <1>3 DEF CountUnit, Inv, TypeOK
  <2>2. QED
    BY <1>1, <1>2, <2>1, NoListingStep
<1>4. CASE l \in Listings
  <2>1. listing[l] \in ListingRows /\ listing[l].quantity \in Int
    BY <1>4 DEF Inv, TypeOK, ListingRows
  <2>2. PICK n \in Int : n = listing[l].quantity - 1
    BY <2>1
  <2>3. PICK r : r = [listing[l] EXCEPT !.quantity = n]
    OBVIOUS
  <2>4. r \in ListingRows /\ r.quantity = n /\ r.status = listing[l].status
    BY <2>1, <2>3 DEF ListingRows
  <2>5. listing' = [listing EXCEPT ![l] = r] /\ r.quantity <= listing[l].quantity
    BY <1>4, <2>1, <2>2, <2>3, <2>4 DEF CountUnit, Inv, TypeOK
  <2>6. QED
    BY <1>1, <1>2, <1>4, <2>4, <2>5, ListingStep
<1>5. QED
  BY <1>3, <1>4

LEMMA RequeueStep ==
  ASSUME Inv, NEW k \in Requests, Requeue(k)
  PROVE  Inv'
<1> DEFINE l == job[k].l
<1>1. /\ job[k].at \in {"requeue", "sold"} /\ GoTo(k, "credit")
      /\ UNCHANGED <<wallet, row, auction, order, delivered, scan, worker, deposits, faults>>
  BY DEF Requeue
<1>2. CASE l \notin Listings
  <2>1. listing' = listing
    BY <1>2 DEF Requeue, Inv, TypeOK
  <2>2. QED
    BY <1>1, <2>1, NoListingStep
<1>3. CASE l \in Listings
  <2>1. listing[l] \in ListingRows /\ listing[l].quantity \in Int
    BY <1>3 DEF Inv, TypeOK, ListingRows
  <2>2. PICK st \in {"QUEUED", "SOLD"} : st = IF At(k, "requeue") THEN "QUEUED" ELSE "SOLD"
    OBVIOUS
  <2>3. PICK r : r = [listing[l] EXCEPT !.status = st]
    OBVIOUS
  <2>4. r \in ListingRows /\ r.quantity = listing[l].quantity /\ r.status = st
    BY <2>1, <2>3 DEF ListingRows
  <2>5. listing' = [listing EXCEPT ![l] = r] /\ r.quantity <= listing[l].quantity
    BY <1>3, <2>1, <2>2, <2>3, <2>4 DEF Requeue, Inv, TypeOK
  <2>6. r.status \notin {"NONE", "CANCELED"}
    BY <2>4
  <2>7. QED
    BY <1>1, <1>3, <2>4, <2>5, <2>6, ListingStep
<1>4. QED
  BY <1>2, <1>3

\* The one step that moves assets to another owner: the buyer of a charged order.
LEMMA CreditWinStep ==
  ASSUME Inv, NEW k \in Requests, CreditWin(k)
  PROVE  Inv'
<1> DEFINE l == job[k].l
           s == job[k].s
           u == job[k].u
<1>1. job[k].at = "credit" /\ job[k].at \in ClaimLabels
  BY DEF CreditWin, At, ClaimLabels
<1>2. s \in Sales /\ u \in Users /\ Charged(order[s]) /\ order[s].buyer = u
  BY <1>1, OwnSale DEF Fits
<1>3. /\ Touches(k) /\ job[k].s # None /\ job[k].at # "unit" /\ job'[k].s = job[k].s
      /\ job'[k].at # "unit" /\ OrdersBy(k) /\ Fits(job'[k], order')
  BY <1>1, SaleGoesOn DEF CreditWin
<1>4. UNCHANGED <<wallet, listing, auction, order, scan, worker, deposits, faults>>
  BY DEF CreditWin
<1>5. row' \in [Assets -> Rows]
  <2>1. ASSUME NEW a \in Assets PROVE row'[a] \in Rows
    <3>1. row[a] \in Rows
      BY DEF Inv, TypeOK
    <3>2. row'[a] = row[a] \/ row'[a] = [row[a] EXCEPT !.owner = u, !.listing = None]
      BY DEF CreditWin
    <3>3. QED
      BY <1>2, <3>1, <3>2 DEF Rows
  <2>2. row' = [a \in Assets |-> row'[a]]
    BY DEF CreditWin
  <2>3. QED
    BY <2>1, <2>2
<1>6. /\ delivered' \in [Sales -> SUBSET Assets]
      /\ \A t \in Sales : delivered[t] \subseteq delivered'[t]
      /\ AttachedTo(l) \subseteq delivered'[s]
  <2>1. delivered' = [delivered EXCEPT ![s] = @ \cup AttachedTo(l)]
    BY DEF CreditWin
  <2>2. AttachedTo(l) \subseteq Assets /\ delivered \in [Sales -> SUBSET Assets]
    BY DEF AttachedTo, Inv, TypeOK
  <2>3. QED
    BY <1>2, <2>1, <2>2
<1>7. OwnersPaid'
  <2> SUFFICES ASSUME NEW a \in Assets, row'[a].owner # row'[a].custodian
               PROVE  \E t \in Sales : /\ Charged(order'[t]) /\ a \in delivered'[t]
                                       /\ order'[t].buyer = row'[a].owner
    BY DEF OwnersPaid, Standing, Charged
  <2>1. row[a] \in Rows
    BY DEF Inv, TypeOK
  <2>2. CASE row[a].listing = l
    <3>1. row'[a].owner = u /\ a \in AttachedTo(l)
      BY <2>1, <2>2 DEF CreditWin, AttachedTo, Rows
    <3>2. QED
      BY <1>2, <1>4, <1>6, <3>1
  <2>3. CASE row[a].listing # l
    <3>1. row'[a] = row[a]
      BY <2>3 DEF CreditWin
    <3>2. PICK t \in Sales : /\ Charged(order[t]) /\ order[t].buyer = row[a].owner
                             /\ a \in delivered[t]
      BY <3>1 DEF Inv, OwnersPaid, Standing, Charged
    <3>3. QED
      BY <1>4, <1>6, <3>1, <3>2
  <2>4. QED
    BY <2>2, <2>3
<1>8. TypeOK' /\ OneUnit'
  BY <1>3, <1>4, <1>5, <1>6 DEF Inv, TypeOK, OneUnit, Touches
<1>9. \A t \in Sales : Untaken(t)' <=> Untaken(t)
  BY <1>4 DEF Untaken
<1>10. TakenFairly(k) /\ FreedFairly(k)
  <2>1. \A t \in Sales : Claims(k, t)' <=> Claims(k, t)
    BY <1>3 DEF Claims
  <2>2. QED
    BY <1>4, <1>9, <2>1 DEF TakenFairly, FreedFairly, Inv, UntakenIsFree
<1>11. JobsFit' /\ OneClaim' /\ UntakenIsFree'
  BY <1>3, <1>10, ClaimsKeep
<1>12. QED
  BY <1>7, <1>8, <1>11 DEF Inv

-----------------------------------------------------------------------------
(* Deposits, the worker and faults.                                        *)

\* A step of no handler: an owner changes only to the depositor.
LEMMA PassStep ==
  ASSUME Inv, UNCHANGED <<listing, auction, order, delivered, job>>,
         wallet' \in [Assets -> Users \cup {None}], row' \in [Assets -> Rows],
         scan' \in [Scans -> ScanJobs], worker' \in [Workers -> WorkerJobs],
         deposits' \in Nat, faults' \in Nat, OwnersStay
  PROVE  Inv'
<1>1. TypeOK' /\ JobsFit' /\ OneClaim' /\ UntakenIsFree' /\ OneUnit'
  BY DEF Inv, TypeOK, JobsFit, OneClaim, UntakenIsFree, OneUnit, Claims, Untaken
<1>2. ChargesStay
  BY DEF ChargesStay, Inv, TypeOK
<1>3. OwnersPaid'
  BY <1>2, OwnersKeep DEF Inv
<1>4. QED
  BY <1>1, <1>3 DEF Inv

\* Rows stay.
LEMMA SameRows ==
  ASSUME Inv, row' = row
  PROVE  OwnersStay /\ row' \in [Assets -> Rows]
BY DEF OwnersStay, Inv, TypeOK

LEMMA DepositStep ==
  ASSUME Inv, NEW a \in Assets, NEW u \in Users, Deposit(a, u)
  PROVE  Inv'
<1>1. /\ wallet' \in [Assets -> Users \cup {None}] /\ deposits' \in Nat
      /\ UNCHANGED <<row, listing, auction, order, delivered, job, scan, worker, faults>>
  BY DEF Deposit, Inv, TypeOK, rowVars, memoryVars
<1>2. QED
  BY <1>1, SameRows, PassStep DEF Inv, TypeOK

\* The passes of the deposit watcher.
LEMMA ScanStepKeeps ==
  ASSUME Inv, NEW k \in Scans, (\E u \in Users : ScanWallet(k, u)) \/ ScanStep(k)
  PROVE  Inv'
<1>0. scan[k] \in ScanJobs /\ scan \in [Scans -> ScanJobs]
  BY DEF Inv, TypeOK
<1>1. ASSUME NEW u \in Users, ScanWallet(k, u)
      PROVE  Inv'
  <2>1. PICK t \in SUBSET Assets : t = {a \in Assets : wallet[a] = u}
    OBVIOUS
  <2>2. ScanIdle \in ScanJobs
    BY DEF ScanIdle, ScanJobs
  <2>3. PICK j \in ScanJobs : j = [ScanIdle EXCEPT !.at = "read", !.u = u, !.todo = t]
    BY <2>2 DEF ScanJobs
  <2>4. scan' = [scan EXCEPT ![k] = j]
    BY <1>1, <2>1, <2>3 DEF ScanWallet
  <2>5. scan' \in [Scans -> ScanJobs]
    BY <1>0, <2>3, <2>4
  <2>6. QED
    BY <1>1, <2>5, SameRows, PassStep DEF ScanWallet, rowVars, Inv, TypeOK
<1>2. ASSUME ScanRows(k)
      PROVE  Inv'
  <2> DEFINE held == {a \in Assets : row[a].owner = scan[k].u /\ row[a].status # "WITHDRAWN"}
             todo == {a \in scan[k].todo : row[a].status \in {"NONE", "WITHDRAWN"}}
  <2>1. Cap - Cardinality(held) \in Int
    BY NftAssumption, FS_Subset, FS_CardinalityType
  <2>2. PICK n \in Int : n = Cap - Cardinality(held)
    BY <2>1
  <2>3. PICK t \in SUBSET Assets : t = todo
    BY <1>0 DEF ScanJobs
  <2>4. scan' = [scan EXCEPT ![k] = [scan[k] EXCEPT !.at = "credit", !.room = n, !.todo = t]]
    BY <1>0, <1>2, <2>2, <2>3 DEF ScanRows
  <2>5. [scan[k] EXCEPT !.at = "credit", !.room = n, !.todo = t] \in ScanJobs
    BY <1>0 DEF ScanJobs
  <2>6. scan' \in [Scans -> ScanJobs]
    BY <1>0, <2>4, <2>5
  <2>7. QED
    BY <1>2, <2>6, SameRows, PassStep DEF ScanRows, rowVars, Inv, TypeOK
<1>3. ASSUME CreditDeposit(k)
      PROVE  Inv'
  <2>1. PICK a \in scan[k].todo :
          /\ row' = Credited(a, scan[k].u)
          /\ scan' = [scan EXCEPT ![k].todo = @ \ {a}, ![k].room = @ - 1]
    BY <1>3 DEF CreditDeposit
  <2>2. PICK t \in SUBSET Assets, n \in Int, u \in Users \cup {None} :
          t = scan[k].todo \ {a} /\ n = scan[k].room - 1 /\ u = scan[k].u /\ a \in Assets
    <3>1. /\ scan[k].todo \in SUBSET Assets /\ scan[k].room \in Int
          /\ scan[k].u \in Users \cup {None}
      BY <1>0 DEF ScanJobs
    <3>2. scan[k].todo \ {a} \in SUBSET Assets /\ scan[k].room - 1 \in Int /\ a \in Assets
      BY <2>1, <3>1
    <3>3. QED
      BY <3>1, <3>2
  <2>3. [scan[k] EXCEPT !.todo = t, !.room = n] \in ScanJobs
    BY <1>0 DEF ScanJobs
  <2>4. scan' = [scan EXCEPT ![k] = [scan[k] EXCEPT !.todo = t, !.room = n]]
    BY <1>0, <2>1, <2>2
  <2>5. scan' \in [Scans -> ScanJobs]
    BY <1>0, <2>3, <2>4
  <2>6. PICK r : r = [status |-> "HELD", owner |-> u, custodian |-> u,
                      listing |-> None, to |-> None]
    OBVIOUS
  <2>7. r \in Rows /\ r.owner = r.custodian
    BY <2>6 DEF Rows
  <2>8. row' = [row EXCEPT ![a] = r]
    BY <2>1, <2>2, <2>6 DEF Credited
  <2>9. row' \in [Assets -> Rows] /\ OwnersStay
    BY <2>2, <2>7, <2>8 DEF OwnersStay, Inv, TypeOK
  <2>10. QED
    BY <1>3, <2>5, <2>9, PassStep DEF CreditDeposit, Inv, TypeOK
<1>4. ASSUME EndScan(k)
      PROVE  Inv'
  <2>1. ScanIdle \in ScanJobs
    BY DEF ScanIdle, ScanJobs
  <2>2. scan' \in [Scans -> ScanJobs]
    BY <1>0, <1>4, <2>1 DEF EndScan
  <2>3. QED
    BY <1>4, <2>2, SameRows, PassStep DEF EndScan, rowVars, Inv, TypeOK
<1>5. QED
  BY <1>1, <1>2, <1>3, <1>4 DEF ScanStep

\* A pass that has sent an asset is a pass.
LEMMA SentOffJob ==
  ASSUME NEW k \in Workers, worker \in [Workers -> WorkerJobs], NEW due \in worker[k].todo,
         SentOff(k, due)
  PROVE  worker' \in [Workers -> WorkerJobs]
<1>1. worker[k] \in WorkerJobs
  OBVIOUS
<1>2. worker[k].todo \in SUBSET (Assets \X (Users \cup {None}))
  BY <1>1 DEF WorkerJobs
<1>3. PICK a \in Assets, t \in SUBSET (Assets \X (Users \cup {None})) :
        a = due[1] /\ t = worker[k].todo \ {due}
  BY <1>2
<1>4. PICK j \in WorkerJobs : j = [at |-> "record", a |-> a, todo |-> t]
  BY DEF WorkerJobs
<1>5. worker' = [worker EXCEPT ![k] = j]
  BY <1>3, <1>4 DEF SentOff
<1>6. QED
  BY <1>5

\* The passes of the withdrawal worker move no owner.
LEMMA WorkerStepKeeps ==
  ASSUME Inv, NEW k \in Workers, WorkerStep(k)
  PROVE  Inv'
<1>0. worker[k] \in WorkerJobs /\ worker \in [Workers -> WorkerJobs]
  BY DEF Inv, TypeOK
<1>1. ASSUME StartSending(k)
      PROVE  Inv'
  <2>1. PICK due \in SUBSET Assets :
          worker' = [worker EXCEPT ![k] =
                       [WorkerIdle EXCEPT !.at = "send", !.todo = Custodians(due)]]
    BY <1>1 DEF StartSending
  <2>2. [WorkerIdle EXCEPT !.at = "send", !.todo = Custodians(due)] \in WorkerJobs
    <3>1. \A a \in due : row[a].custodian \in Users \cup {None}
      BY DEF Inv, TypeOK, Rows
    <3>2. Custodians(due) \in SUBSET (Assets \X (Users \cup {None}))
      BY <3>1 DEF Custodians
    <3>3. QED
      BY <3>2 DEF WorkerIdle, WorkerJobs
  <2>3. worker' \in [Workers -> WorkerJobs]
    BY <1>0, <2>1, <2>2
  <2>4. QED
    BY <1>1, <2>3, SameRows, PassStep DEF StartSending, rowVars, Inv, TypeOK
<1>2. ASSUME Send(k)
      PROVE  Inv'
  <2>1. PICK due \in worker[k].todo :
          /\ wallet' = IF wallet[due[1]] = due[2] THEN [wallet EXCEPT ![due[1]] = None]
                       ELSE wallet
          /\ SentOff(k, due)
    BY <1>2 DEF Send
  <2>4. worker' \in [Workers -> WorkerJobs]
    BY <2>1, SentOffJob DEF Inv, TypeOK
  <2>5. wallet' \in [Assets -> Users \cup {None}]
    BY <2>1 DEF Inv, TypeOK
  <2>6. QED
    BY <1>2, <2>4, <2>5, SameRows, PassStep DEF Send, rowVars, Inv, TypeOK
<1>3. ASSUME RecordSent(k)
      PROVE  Inv'
  <2> DEFINE a == worker[k].a
  <2>1. [worker[k] EXCEPT !.at = "send", !.a = None] \in WorkerJobs
    BY <1>0 DEF WorkerJobs
  <2>2. worker' = [worker EXCEPT ![k] = [worker[k] EXCEPT !.at = "send", !.a = None]]
    BY <1>0, <1>3 DEF RecordSent
  <2>3. worker' \in [Workers -> WorkerJobs]
    BY <1>0, <2>1, <2>2
  <2>4. row' \in [Assets -> Rows] /\ OwnersStay
    <3>1. row \in [Assets -> Rows] /\ row' = [row EXCEPT ![a].status = "WITHDRAWN"]
      BY <1>3 DEF RecordSent, Inv, TypeOK
    <3>2. ASSUME NEW b \in Assets
          PROVE  row'[b] \in Rows /\ row'[b].owner = row[b].owner
                 /\ row'[b].custodian = row[b].custodian
      <4>1. row[b] \in Rows
        BY <3>1
      <4>2. row'[b] = row[b] \/ row'[b] = [row[b] EXCEPT !.status = "WITHDRAWN"]
        BY <3>1
      <4>3. QED
        BY <4>1, <4>2 DEF Rows
    <3>3. QED
      BY <3>1, <3>2 DEF OwnersStay
  <2>5. QED
    BY <1>3, <2>3, <2>4, PassStep DEF RecordSent, Inv, TypeOK
<1>4. ASSUME EndSending(k)
      PROVE  Inv'
  <2>1. WorkerIdle \in WorkerJobs
    BY DEF WorkerIdle, WorkerJobs
  <2>2. worker' \in [Workers -> WorkerJobs]
    BY <1>0, <1>4, <2>1 DEF EndSending
  <2>3. QED
    BY <1>4, <2>2, SameRows, PassStep DEF EndSending, rowVars, Inv, TypeOK
<1>5. QED
  BY <1>1, <1>2, <1>3, <1>4 DEF WorkerStep

\* Errors and crashes lose what is in memory and nothing else.
LEMMA FaultStep ==
  ASSUME Inv, Fault
  PROVE  Inv'
<1>0. faults' \in Nat /\ UNCHANGED <<listing, auction, order, delivered, deposits>>
  BY DEF Fault, Inv, TypeOK
<1>1. ASSUME NEW k \in Requests, FailRequest(k)
      PROVE  Inv'
  <2>1. UNCHANGED <<wallet, rowVars, scan, worker, deposits>>
    BY <1>0, <1>1 DEF FailRequest, rowVars
  <2>2. RowsOK' /\ OneUnit' /\ OwnersStay /\ \A s \in Sales : Untaken(s)' => Untaken(s)
    BY <1>0, <2>1 DEF Inv, TypeOK, RowsOK, OneUnit, OwnersStay, Untaken, rowVars
  <2>3. CASE Done(k)
    <3>1. Touches(k) /\ job'[k] = Idle
      BY <2>3, DoneJob
    <3>2. QED
      BY <1>0, <2>2, <3>1, IdleJob, QuietStep DEF ClaimLabels
  <2>4. CASE job[k].at = "charge" /\ job[k].s \in Listings /\ GoTo(k, "putback")
    <3>1. /\ Fits(job[k], order) /\ job[k].s # None /\ job[k].at # "unit"
      BY <2>4, OwnSale DEF ClaimLabels
    <3>2. /\ Touches(k) /\ job'[k].at = "putback"
          /\ job'[k].u = job[k].u /\ job'[k].l = job[k].l /\ job'[k].s = job[k].s
      BY <2>4, GoToJob DEF Labels
    <3>3. Fits(job'[k], order')
      BY <1>0, <2>4, <3>1, <3>2 DEF Fits, ClaimLabels
    <3>4. OrdersBy(k) /\ ChargesStay
      BY <1>0 DEF Inv, TypeOK, OrdersBy, ChargesStay
    <3>5. QED
      BY <2>2, <3>1, <3>2, <3>3, <3>4, SaleStep
  <2>5. QED
    BY <1>1, <2>3, <2>4 DEF FailRequest, At
<1>2. ASSUME NEW k \in Scans, FailScan(k)
      PROVE  Inv'
  <2>1. scan' \in [Scans -> ScanJobs]
    BY <1>2 DEF FailScan, ScanIdle, ScanJobs, Inv, TypeOK
  <2>2. QED
    BY <1>0, <1>2, <2>1, SameRows, PassStep DEF FailScan, Inv, TypeOK
<1>3. ASSUME NEW k \in Workers, FailSend(k) \/ MisreadAccount(k)
      PROVE  Inv'
  <2>1. worker[k] \in WorkerJobs /\ worker \in [Workers -> WorkerJobs]
    BY DEF Inv, TypeOK
  <2>2. worker' \in [Workers -> WorkerJobs]
    <3>1. ASSUME NEW due \in worker[k].todo, worker' = [worker EXCEPT ![k].todo = @ \ {due}]
          PROVE  worker' \in [Workers -> WorkerJobs]
      BY <2>1, <3>1 DEF WorkerJobs
    <3>2. ASSUME NEW t \in {worker[k].todo, {}},
                 worker' = [worker EXCEPT ![k] = [WorkerIdle EXCEPT !.at = "send", !.todo = t]]
          PROVE  worker' \in [Workers -> WorkerJobs]
      BY <2>1, <3>2 DEF WorkerJobs, WorkerIdle
    <3>3. ASSUME NEW due \in worker[k].todo, SentOff(k, due)
          PROVE  worker' \in [Workers -> WorkerJobs]
      BY <2>1, <3>3, SentOffJob
    <3>4. QED
      BY <1>3, <3>1, <3>2, <3>3 DEF FailSend, MisreadAccount
  <2>3. QED
    BY <1>0, <1>3, <2>2, SameRows, PassStep DEF FailSend, MisreadAccount, Inv, TypeOK
<1>4. ASSUME Crash
      PROVE  Inv'
  <2>1. job' \in [Requests -> Jobs] /\ \A k \in Requests : job'[k] = Idle
    BY <1>4, IdleJob DEF Crash
  <2>2. JobsFit'
    BY <2>1, IdleJob, QuietJob DEF JobsFit, ClaimLabels
  <2>3. \A k \in Requests, s \in Sales : ~Claims(k, s)'
    BY <2>1, IdleJob, SaleIds DEF Claims, Sales
  <2>4. OneClaim'
    BY <2>3 DEF OneClaim
  <2>5. UntakenIsFree'
    BY <1>0, <2>3 DEF UntakenIsFree, Untaken, Inv
  <2>6. scan' \in [Scans -> ScanJobs] /\ worker' \in [Workers -> WorkerJobs]
    BY <1>4 DEF Crash, ScanIdle, ScanJobs, WorkerIdle, WorkerJobs
  <2>7. TypeOK' /\ OneUnit'
    BY <1>0, <1>4, <2>1, <2>6 DEF Crash, Inv, TypeOK, OneUnit
  <2>8. OwnersPaid'
    BY <1>0, <1>4 DEF Crash, Inv, OwnersPaid, Standing
  <2>9. QED
    BY <2>2, <2>4, <2>5, <2>7, <2>8 DEF Inv
<1>5. QED
  BY <1>1, <1>2, <1>3, <1>4 DEF Fault

-----------------------------------------------------------------------------
(* The theorems.                                                           *)

LEMMA InitInv == Init => Inv
<1> SUFFICES ASSUME Init PROVE Inv
  OBVIOUS
<1>1. \A k \in Requests : job[k] = Idle
  BY DEF Init
<1>2. TypeOK
  BY IdleJob DEF Init, TypeOK, Rows, NoRow, ListingRows, NoListing, Modes, AuctionRows,
    NoAuction, OrderRows, NoOrder, ScanJobs, ScanIdle, WorkerJobs, WorkerIdle
<1>3. JobsFit
  BY <1>1, IdleJob, QuietJob DEF JobsFit, ClaimLabels
<1>4. \A k \in Requests, s \in Sales : ~Claims(k, s)
  BY <1>1, IdleJob, SaleIds DEF Claims, Sales
<1>5. \A s \in Sales : ~Charged(order[s])
  BY DEF Init, NoOrder, Charged
<1>6. OneClaim /\ UntakenIsFree
  BY <1>4, <1>5 DEF OneClaim, UntakenIsFree
<1>7. OneUnit
  BY DEF OneUnit, Init, NoListing
<1>8. OwnersPaid
  BY DEF OwnersPaid, Init, NoRow
<1>9. QED
  BY <1>2, <1>3, <1>6, <1>7, <1>8 DEF Inv

LEMMA StepInv == Inv /\ [Next]_vars => Inv'
<1> SUFFICES ASSUME Inv, [Next]_vars PROVE Inv'
  OBVIOUS
<1>1. CASE UNCHANGED vars
  BY <1>1, SameRows, PassStep DEF vars, rowVars, memoryVars, Inv, TypeOK
<1>2. ASSUME NEW a \in Assets, NEW u \in Users, Deposit(a, u)
      PROVE  Inv'
  BY <1>2, DepositStep
<1>3. ASSUME NEW k \in Requests, NEW u \in Users, Ask(k, u)
      PROVE  Inv'
  BY <1>3, WithdrawStep, ListStep, UnlistStep, BuyStep, CloseWonStep DEF Ask
<1>4. ASSUME NEW k \in Requests, Step(k)
      PROVE  Inv'
  BY <1>4, ClaimWithdrawalStep, CreateListingStep, AttachAssetsStep, StartAuctionStep,
     CancelListingStep, DetachAssetsStep, ClaimUnitStep, CreateOrderStep, ChargeStep,
     RefuseStep, PutBackStep, RetireListingStep, CountUnitStep, RequeueStep,
     CreditWinStep, PaySellerStep DEF Step
<1>5. QED
  BY <1>1, <1>2, <1>3, <1>4, ScanStepKeeps, WorkerStepKeeps, StartFromListingStep,
     CloseUnsoldStep, FaultStep DEF Next

\* The inductive invariant holds in every state: units, claims and charges of a
\* sale agree, whatever requests, passes and faults interleave (nft.ts, market.ts).
THEOREM Invariance == Spec => []Inv
BY InitInv, StepInv, PTL DEF Spec

\* Rows and handlers stay in their ranges.
THEOREM Typing == Spec => []TypeOK
<1>1. Inv => TypeOK
  BY DEF Inv
<1>2. QED
  BY <1>1, Invariance, PTL

\* For any number of users, assets and handlers, an asset whose owner is not its
\* depositor is one that a charged order of the owner's delivered (nft.ts:360-375).
THEOREM OwnersAlwaysPaid == Spec => []OwnersPaid
<1>1. Inv => OwnersPaid
  BY DEF Inv
<1>2. QED
  BY <1>1, Invariance, PTL

\* A listing that was taken down has no charged purchase (nft.ts:345-347).
THEOREM UnlistAlwaysSparesBuyers == Spec => []UnlistSparesBuyers
<1>1. Inv => UnlistSparesBuyers
  BY SaleIds DEF Inv, UntakenIsFree, Untaken, UnlistSparesBuyers, Standing, Charged
<1>2. QED
  BY <1>1, Invariance, PTL

=============================================================================
