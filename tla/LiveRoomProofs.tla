--------------------------- MODULE LiveRoomProofs ---------------------------
(***************************************************************************)
(* Theorems about LiveRoom for every set of viewers, giveaways, auctions,  *)
(* prizes and concurrent handlers: rows stay in range, so no spin ever     *)
(* takes a copy the wheel does not have; the wheel and the stock of a      *)
(* randomizer agree when its handlers are through; a giveaway's prize goes *)
(* to an entrant, and neither draw nor prize is ever forgotten.            *)
(***************************************************************************)
EXTENDS LiveRoom, TotalsProofs

GiveawayLabels == {"announce", "insert", "list", "draw", "ship"}

\* The labels of a settlement, those with a wheel it has read, and those at
\* which the unit is counted and the wheel yet to be written.
Late     == {"requeue", "goods", "spin", "label", "consume"}
Past     == Late \cup {"order", "unit"}
Settling == Past \cup {"read"}

\* What the handler in slot k may rely on, given the auctions.
Fits(k, j, au) ==
  /\ j.at \in GiveawayLabels => j.g \in Giveaways
  /\ j.at \in {"insert", "ship"} => j.u \in Viewers
  /\ j.at \in Settling => k \in Auctions /\ au[k] = "SETTLING"
  /\ j.at \in {"label", "consume"} => j.p \in Prizes /\ j.pool[j.p] > 0

JobsFit == \A k \in Slots : Fits(k, job[k], auction)

Good == errors = 0 /\ crashes = 0 /\ ~overwrote

\* A settlement that has counted a unit and will write the wheel.
Carries(x) == job[x].at \in Late /\ job[x].pool # NoWheel
Blank(x) == job[x].at \in Past /\ job[x].pool = NoWheel

\* The stock is off the wheel only while a settlement has yet to write it.
Accounted ==
  Good => wheel = NoWheel \/ quantity = Copies(wheel) \/ \E x \in Auctions : Carries(x)

\* A settlement without a wheel runs beside no wheel.
BlankAlone ==
  Good => \A x \in Auctions :
    Blank(x) => wheel = NoWheel /\ \A y \in Auctions : job[y].at \in Past => Blank(y)

\* The inductive invariant.
Inv == TypeOK /\ JobsFit /\ Accounted /\ BlankAlone

-----------------------------------------------------------------------------
(* Steps of one handler.                                                   *)

\* TypeOK for everything but the handlers.
RowsOK ==
  /\ giveaway \in [Giveaways -> GiveawayRows]
  /\ entries \in [Giveaways -> SUBSET Viewers]
  /\ past \subseteq Giveaways /\ timers \subseteq Giveaways
  /\ prize \in [Giveaways -> Viewers \cup {None}]
  /\ drawn \in Histories
  /\ wheel \in [Prizes -> Nat] /\ quantity \in Int
  /\ status \in {"QUEUED", "LIVE", "SOLD", "UNSOLD"}
  /\ auction \in [Auctions -> {"NONE", "RUNNING", "SETTLING", "CLOSED"}]
  /\ order \in [Auctions -> {"none", "by auction", "by listing"}]
  /\ item \in [Auctions -> BOOLEAN] /\ label \in [Auctions -> Prizes \cup {None}]
  /\ overwrote \in BOOLEAN /\ up \in BOOLEAN
  /\ errors \in Nat /\ crashes \in Nat

\* Only the handler in slot k moves.
Touches(k) ==
  /\ job' \in [Slots -> Jobs]
  /\ \A h \in Slots \ {k} : job'[h] = job[h]

\* An auction settles for good.
SettlesOn ==
  \A x \in Auctions : auction[x] = "SETTLING" => auction'[x] = "SETTLING"

LEMMA FitStep ==
  ASSUME Inv, NEW k \in Slots, Touches(k), SettlesOn, Fits(k, job'[k], auction'), RowsOK'
  PROVE  TypeOK' /\ JobsFit'
<1>1. TypeOK'
  BY DEF TypeOK, RowsOK, Touches
<1>2. JobsFit'
  <2> SUFFICES ASSUME NEW h \in Slots PROVE Fits(h, job'[h], auction')
    BY DEF JobsFit
  <2>1. CASE h = k
    BY <2>1
  <2>2. CASE h # k
    <3>1. job'[h] = job[h] /\ Fits(h, job[h], auction)
      BY <2>2 DEF Touches, Inv, JobsFit
    <3>2. QED
      BY <3>1 DEF Fits, SettlesOn
  <2>3. QED
    BY <2>1, <2>2
<1>3. QED
  BY <1>1, <1>2

\* A step that has nothing to do with the wheel.
LEMMA PlainStep ==
  ASSUME Inv, NEW k \in Slots, Touches(k), SettlesOn, Fits(k, job'[k], auction'), RowsOK',
         wheel' = wheel, quantity' = quantity, Good' => Good,
         job'[k].at \notin Past, ~Carries(k)
  PROVE  Inv'
<1>1. \A x \in Auctions : x \in Slots
  BY DEF Slots
<1>2. ASSUME NEW x \in Auctions
      PROVE  /\ Carries(x) => Carries(x)'
             /\ job'[x].at \in Past => job[x].at \in Past /\ job'[x] = job[x]
  BY <1>1 DEF Touches, Carries
<1>3. Accounted'
  BY <1>2 DEF Inv, Accounted, Copies
<1>4. BlankAlone'
  BY <1>2 DEF Inv, BlankAlone, Blank
<1>5. QED
  BY <1>3, <1>4, FitStep DEF Inv

\* A step of a settlement between the read of the wheel and its write.
LEMMA SettleStep ==
  ASSUME Inv, NEW k \in Auctions, Touches(k), SettlesOn, Fits(k, job'[k], auction'), RowsOK',
         wheel' = wheel, quantity' = quantity, Good' => Good,
         job[k].at \in Past, job'[k].pool = job[k].pool,
         job[k].at \in Late => job'[k].at \in Late
  PROVE  Inv'
<1>1. k \in Slots /\ \A x \in Auctions : x \in Slots
  BY DEF Slots
<1>2. ASSUME NEW x \in Auctions
      PROVE  /\ Carries(x) => Carries(x)'
             /\ job'[x].at \in Past => job[x].at \in Past /\ job'[x].pool = job[x].pool
  BY <1>1 DEF Touches, Carries
<1>3. Accounted'
  BY <1>2 DEF Inv, Accounted, Copies
<1>4. BlankAlone'
  BY <1>2 DEF Inv, BlankAlone, Blank
<1>5. QED
  BY <1>1, <1>3, <1>4, FitStep DEF Inv

-----------------------------------------------------------------------------
(* What the helpers do to a handler.                                       *)

LEMMA NoWheelNat == NoWheel \in [Prizes -> Nat]
BY DEF NoWheel

LEMMA IdleJob == Idle \in Jobs /\ Idle.at = "idle" /\ Idle.pool = NoWheel
BY NoWheelNat DEF Idle, Jobs, Labels

LEMMA Becoming ==
  ASSUME Inv, NEW k \in Slots, NEW j \in Jobs, job' = [job EXCEPT ![k] = j]
  PROVE  Touches(k) /\ job'[k] = j
BY DEF Inv, TypeOK, Touches

LEMMA GoToJob ==
  ASSUME Inv, NEW k \in Slots, NEW at \in Labels, GoTo(k, at)
  PROVE  /\ Touches(k) /\ job'[k].at = at
         /\ job'[k].g = job[k].g /\ job'[k].u = job[k].u /\ job'[k].fresh = job[k].fresh
         /\ job'[k].seen = job[k].seen /\ job'[k].pool = job[k].pool
         /\ job'[k].left = job[k].left /\ job'[k].p = job[k].p
<1>1. job \in [Slots -> Jobs] /\ job' = [job EXCEPT ![k].at = at]
  BY DEF Inv, TypeOK, GoTo
<1>2. job[k] \in Jobs /\ job'[k] = [job[k] EXCEPT !.at = at]
  BY <1>1
<1>3. job'[k] \in Jobs
  BY <1>2 DEF Jobs
<1>4. job' \in [Slots -> Jobs] /\ \A h \in Slots \ {k} : job'[h] = job[h]
  BY <1>1, <1>3
<1>5. QED
  BY <1>2, <1>4 DEF Touches, Jobs

LEMMA DoneJob ==
  ASSUME Inv, NEW k \in Slots, Done(k)
  PROVE  Touches(k) /\ job'[k] = Idle /\ \A au : Fits(k, job'[k], au)
<1>1. Touches(k) /\ job'[k] = Idle
  BY IdleJob, Becoming DEF Done
<1>2. QED
  BY <1>1, IdleJob DEF Fits, GiveawayLabels, Settling, Past, Late

LEMMA Numbers ==
  ASSUME Inv
  PROVE  quantity \in Int /\ errors \in Nat /\ crashes \in Nat
BY DEF Inv, TypeOK

\* What a handler relies on.
LEMMA OwnJob ==
  ASSUME Inv, NEW k \in Slots
  PROVE  job[k] \in Jobs /\ Fits(k, job[k], auction)
BY DEF Inv, TypeOK, JobsFit

\* The room beside the wheel: a handler at k moves and wheelVars stay.
LEMMA RoomStep ==
  ASSUME Inv, NEW k \in Slots, Touches(k), Fits(k, job'[k], auction),
         job'[k].at \notin Past, job[k].at \notin Late,
         UNCHANGED <<wheelVars, faultVars>>,
         giveaway' \in [Giveaways -> GiveawayRows],
         entries' \in [Giveaways -> SUBSET Viewers],
         past' \subseteq Giveaways, timers' \subseteq Giveaways,
         prize' \in [Giveaways -> Viewers \cup {None}],
         drawn' \in Histories
  PROVE  Inv'
<1>1. /\ wheel' = wheel /\ quantity' = quantity /\ status' = status /\ auction' = auction
      /\ order' = order /\ item' = item /\ label' = label /\ overwrote' = overwrote
      /\ up' = up /\ errors' = errors /\ crashes' = crashes
  BY DEF wheelVars, listingVars, faultVars
<1>2. RowsOK'
  BY <1>1 DEF Inv, TypeOK, RowsOK
<1>3. SettlesOn /\ (Good' => Good) /\ ~Carries(k)
  BY <1>1 DEF SettlesOn, Good, Carries
<1>4. QED
  BY <1>1, <1>2, <1>3, PlainStep

-----------------------------------------------------------------------------
(* Giveaways.                                                              *)

LEMMA OpenGiveawayStep ==
  ASSUME Inv, NEW k \in Slots, NEW g \in Giveaways, OpenGiveaway(k, g)
  PROVE  Inv'
<1>1. PICK j \in Jobs : j = [Idle EXCEPT !.at = "announce", !.g = g]
  BY IdleJob DEF Idle, Jobs, Labels
<1>2. j.at = "announce" /\ j.g = g /\ Touches(k) /\ job'[k] = j
  BY <1>1, IdleJob, Becoming DEF OpenGiveaway, Jobs
<1>3. Fits(k, j, auction) /\ j.at \notin Past /\ job[k].at \notin Late
  BY <1>2, IdleJob DEF Fits, Settling, Past, Late, OpenGiveaway, Free
<1>4. giveaway' \in [Giveaways -> GiveawayRows]
  BY DEF OpenGiveaway, Inv, TypeOK, GiveawayRows
<1>5. QED
  BY <1>2, <1>3, <1>4, RoomStep DEF OpenGiveaway, Inv, TypeOK

LEMMA AnnounceGiveawayStep ==
  ASSUME Inv, NEW k \in Slots, AnnounceGiveaway(k)
  PROVE  Inv'
<1>1. job[k].at = "announce" /\ job[k].g \in Giveaways
  BY OwnJob DEF AnnounceGiveaway, At, Fits, GiveawayLabels
<1>2. Touches(k) /\ Fits(k, job'[k], auction) /\ job'[k].at \notin Past /\ job[k].at \notin Late
  BY <1>1, DoneJob, IdleJob DEF AnnounceGiveaway, Past, Late
<1>3. timers' \subseteq Giveaways
  BY <1>1 DEF AnnounceGiveaway, Inv, TypeOK
<1>4. QED
  BY <1>2, <1>3, RoomStep DEF AnnounceGiveaway, Inv, TypeOK

LEMMA EnterGiveawayStep ==
  ASSUME Inv, NEW k \in Slots, NEW g \in Giveaways, NEW u \in Viewers, EnterGiveaway(k, g, u)
  PROVE  Inv'
<1>1. PICK j \in Jobs : j = [Idle EXCEPT !.at = "insert", !.g = g, !.u = u]
  BY IdleJob DEF Idle, Jobs, Labels
<1>2. j.at = "insert" /\ j.g = g /\ j.u = u /\ Touches(k) /\ job'[k] = j
  BY <1>1, IdleJob, Becoming DEF EnterGiveaway, Jobs
<1>3. Fits(k, j, auction) /\ j.at \notin Past /\ job[k].at \notin Late
  BY <1>2, IdleJob DEF Fits, Settling, Past, Late, EnterGiveaway, Free
<1>4. QED
  BY <1>2, <1>3, RoomStep DEF EnterGiveaway, giveawayVars, Inv, TypeOK

LEMMA InsertEntryStep ==
  ASSUME Inv, NEW k \in Slots, InsertEntry(k)
  PROVE  Inv'
<1>1. job[k].at = "insert" /\ job[k].g \in Giveaways /\ job[k].u \in Viewers
  BY OwnJob DEF InsertEntry, At, Fits, GiveawayLabels
<1>2. Touches(k) /\ Fits(k, job'[k], auction) /\ job'[k].at \notin Past /\ job[k].at \notin Late
  BY <1>1, DoneJob, IdleJob DEF InsertEntry, Past, Late
<1>3. entries' \in [Giveaways -> SUBSET Viewers]
  BY <1>1 DEF InsertEntry, Inv, TypeOK
<1>4. QED
  BY <1>2, <1>3, RoomStep DEF InsertEntry, Inv, TypeOK

LEMMA ReadGiveawayStep ==
  ASSUME Inv, NEW k \in Slots, NEW g \in Giveaways, Free(k), ReadGiveaway(k, g)
  PROVE  Inv'
<1>1. PICK b \in BOOLEAN : b = (giveaway[g].status # "CLOSED" \/ giveaway[g].winner = None)
  OBVIOUS
<1>2. PICK j \in Jobs : j = [Idle EXCEPT !.at = "list", !.g = g, !.fresh = b]
  BY IdleJob DEF Idle, Jobs, Labels
<1>3. j.at = "list" /\ j.g = g /\ Touches(k) /\ job'[k] = j
  <2>1. job' = [job EXCEPT ![k] = j]
    BY <1>1, <1>2 DEF ReadGiveaway
  <2>2. QED
    BY <1>2, <2>1, IdleJob, Becoming DEF Jobs
<1>4. Fits(k, j, auction) /\ j.at \notin Past /\ job[k].at \notin Late
  BY <1>3, IdleJob DEF Fits, Settling, Past, Late, Free
<1>5. timers' \subseteq Giveaways
  BY DEF ReadGiveaway, Inv, TypeOK
<1>6. QED
  BY <1>3, <1>4, <1>5, RoomStep DEF ReadGiveaway, Inv, TypeOK

LEMMA ListEntrantsStep ==
  ASSUME Inv, NEW k \in Slots, ListEntrants(k)
  PROVE  Inv'
<1>1. job[k] \in Jobs /\ job[k].at = "list" /\ job[k].g \in Giveaways
  BY OwnJob DEF ListEntrants, At, Fits, GiveawayLabels
<1>2. PICK s \in SUBSET Viewers : s = entries[job[k].g]
  BY <1>1 DEF Inv, TypeOK
<1>3. PICK j \in Jobs : j = [job[k] EXCEPT !.at = "draw", !.seen = s]
  BY <1>1 DEF Jobs, Labels
<1>4. j.at = "draw" /\ j.g = job[k].g
  BY <1>1, <1>3 DEF Jobs
<1>5. Touches(k) /\ job'[k] = j
  <2>1. job' = [job EXCEPT ![k] = j]
    BY <1>2, <1>3 DEF ListEntrants, Inv, TypeOK
  <2>2. QED
    BY <2>1, Becoming
<1>6. Fits(k, j, auction) /\ j.at \notin Past /\ job[k].at \notin Late
  BY <1>1, <1>4 DEF Fits, GiveawayLabels, Settling, Past, Late
<1>7. QED
  BY <1>5, <1>6, RoomStep DEF ListEntrants, giveawayVars, Inv, TypeOK

LEMMA CloseEmptyStep ==
  ASSUME Inv, NEW k \in Slots, CloseEmpty(k)
  PROVE  Inv'
<1>1. job[k].at = "draw" /\ job[k].g \in Giveaways
  BY OwnJob DEF CloseEmpty, At, Fits, GiveawayLabels
<1>2. Touches(k) /\ Fits(k, job'[k], auction) /\ job'[k].at \notin Past /\ job[k].at \notin Late
  BY <1>1, DoneJob, IdleJob DEF CloseEmpty, Past, Late
<1>3. giveaway' \in [Giveaways -> GiveawayRows]
  BY <1>1 DEF CloseEmpty, Inv, TypeOK, GiveawayRows
<1>4. QED
  BY <1>2, <1>3, RoomStep DEF CloseEmpty, Inv, TypeOK

LEMMA DrawWinnerStep ==
  ASSUME Inv, NEW k \in Slots, DrawWinner(k)
  PROVE  Inv'
<1>1. /\ job[k] \in Jobs /\ job[k].at = "draw" /\ job[k].g \in Giveaways
      /\ job[k].seen \in (SUBSET Viewers) \ {{}}
  BY OwnJob DEF DrawWinner, At, Fits, GiveawayLabels, Jobs
<1>2. PICK u \in Viewers : u = giveaway[job[k].g].seed[job[k].seen]
  <2>1. PICK f \in Draws : f = giveaway[job[k].g].seed
    BY <1>1 DEF Inv, TypeOK, GiveawayRows
  <2>2. \A s \in (SUBSET Viewers) \ {{}} : f[s] \in Viewers
    BY DEF Draws
  <2>3. QED
    BY <1>1, <2>1, <2>2
<1>3. giveaway' \in [Giveaways -> GiveawayRows]
  <2>1. CASE giveaway' = giveaway
    BY <2>1 DEF Inv, TypeOK
  <2>2. CASE giveaway' = [giveaway EXCEPT ![job[k].g].status = "CLOSED", ![job[k].g].winner = u]
    <3> DEFINE row == giveaway[job[k].g]
    <3>0. row \in GiveawayRows
      BY <1>1 DEF Inv, TypeOK
    <3>1. PICK w \in GiveawayRows : w = [row EXCEPT !.status = "CLOSED", !.winner = u]
      BY <3>0 DEF GiveawayRows
    <3>2. giveaway' = [giveaway EXCEPT ![job[k].g] = w]
      BY <1>1, <2>2, <3>1 DEF Inv, TypeOK
    <3>3. QED
      BY <3>2 DEF Inv, TypeOK
  <2>3. QED
    BY <1>2, <2>1, <2>2 DEF DrawWinner
<1>4. PICK j \in Jobs : j = [job[k] EXCEPT !.at = "ship", !.u = u]
  BY <1>1 DEF Jobs, Labels
<1>5. j.at = "ship" /\ j.g = job[k].g /\ j.u = u
  BY <1>1, <1>4 DEF Jobs
<1>6. PICK i \in {Idle, j} : job' = [job EXCEPT ![k] = i]
  BY <1>2, <1>4 DEF DrawWinner, Inv, TypeOK
<1>7. Touches(k) /\ job'[k] = i
  BY <1>6, IdleJob, Becoming
<1>8. Fits(k, i, auction) /\ i.at \notin Past /\ job[k].at \notin Late
  BY <1>1, <1>5, IdleJob DEF Fits, GiveawayLabels, Settling, Past, Late
<1>9. drawn' \in Histories
  BY <1>1 DEF DrawWinner, Histories, Inv, TypeOK
<1>10. QED
  BY <1>3, <1>7, <1>8, <1>9, RoomStep DEF DrawWinner, Inv, TypeOK

LEMMA ShipPrizeStep ==
  ASSUME Inv, NEW k \in Slots, ShipPrize(k)
  PROVE  Inv'
<1>1. job[k].at = "ship" /\ job[k].g \in Giveaways /\ job[k].u \in Viewers
  BY OwnJob DEF ShipPrize, At, Fits, GiveawayLabels
<1>2. Touches(k) /\ Fits(k, job'[k], auction) /\ job'[k].at \notin Past /\ job[k].at \notin Late
  BY <1>1, DoneJob, IdleJob DEF ShipPrize, Past, Late
<1>3. prize' \in [Giveaways -> Viewers \cup {None}]
  BY <1>1 DEF ShipPrize, ShipTo, Inv, TypeOK
<1>4. QED
  BY <1>2, <1>3, RoomStep DEF ShipPrize, Inv, TypeOK

-----------------------------------------------------------------------------
(* The seller's side of the wheel.                                         *)

LEMMA SetWheelStep ==
  ASSUME Inv, NEW k \in Slots, NEW pool \in Pools, SetWheel(k, pool)
  PROVE  Inv'
<1>1. pool \in [Prizes -> Nat]
  BY LiveRoomAssumption
<1>2. PICK j \in Jobs : j = [Idle EXCEPT !.at = "count", !.pool = pool]
  BY <1>1, IdleJob DEF Idle, Jobs, Labels
<1>3. j.at = "count" /\ Touches(k) /\ job'[k] = j
  BY <1>2, IdleJob, Becoming DEF SetWheel, Jobs
<1>4. Fits(k, j, auction) /\ j.at \notin Past /\ job[k].at \notin Late
  BY <1>3, IdleJob DEF Fits, GiveawayLabels, Settling, Past, Late, SetWheel, Free
<1>5. QED
  BY <1>3, <1>4, RoomStep DEF SetWheel, giveawayVars, Inv, TypeOK

LEMMA CountSoldStep ==
  ASSUME Inv, NEW k \in Slots, CountSold(k)
  PROVE  Inv'
<1>1. job[k].at = "count"
  BY DEF CountSold, At
<1>2. Touches(k) /\ Fits(k, job'[k], auction) /\ job'[k].at \notin Past
  <2>1. CASE Done(k)
    BY <2>1, DoneJob, IdleJob DEF Past, Late
  <2>2. CASE GoTo(k, "write")
    BY <2>2, GoToJob DEF Labels, Fits, GiveawayLabels, Settling, Past, Late
  <2>3. QED
    BY <2>1, <2>2 DEF CountSold
<1>3. job[k].at \notin Late
  BY <1>1 DEF Late
<1>4. QED
  BY <1>2, <1>3, RoomStep DEF CountSold, giveawayVars, Inv, TypeOK

LEMMA StartFromListingStep ==
  ASSUME Inv, NEW k \in Slots, StartFromListing(k)
  PROVE  Inv'
<1>1. Touches(k) /\ job'[k].at = "start"
  BY GoToJob DEF StartFromListing, Labels
<1>2. Fits(k, job'[k], auction) /\ job'[k].at \notin Past /\ job[k].at \notin Late
  BY <1>1, IdleJob DEF Fits, GiveawayLabels, Settling, Past, Late, StartFromListing, Free
<1>3. QED
  BY <1>1, <1>2, RoomStep DEF StartFromListing, giveawayVars, Inv, TypeOK

LEMMA CopiesNat ==
  ASSUME NEW w \in [Prizes -> Nat]
  PROVE  Copies(w) \in Nat
<1>1. IsFiniteSet(Prizes) /\ \A p \in Prizes : w[p] \in Nat
  BY LiveRoomAssumption
<1>2. QED
  BY <1>1, TotalNat DEF Copies

\* A new pool comes with its own quantity, and no settlement runs.
LEMMA WritePoolStep ==
  ASSUME Inv, NEW k \in Slots, WritePool(k)
  PROVE  Inv'
<1>1. job[k] \in Jobs /\ job[k].at = "write" /\ job[k].pool \in [Prizes -> Nat]
  BY OwnJob DEF WritePool, At, Jobs
<1>2. Touches(k) /\ job'[k] = Idle /\ Fits(k, job'[k], auction')
  BY DoneJob DEF WritePool
<1>3. /\ auction' = auction /\ errors' = errors /\ crashes' = crashes
      /\ wheel' = job[k].pool
      /\ quantity' = IF job[k].pool = NoWheel THEN quantity ELSE Copies(job[k].pool)
  BY DEF WritePool, faultVars
<1>4. SettlesOn /\ RowsOK'
  <2>1. quantity' \in Int
    <3>1. PICK n \in Nat : n = Copies(job[k].pool)
      BY <1>1, CopiesNat
    <3>2. quantity' = quantity \/ quantity' = n
      BY <3>1 DEF WritePool
    <3>3. quantity \in Int
      BY DEF Inv, TypeOK
    <3>4. QED
      BY <3>2, <3>3
  <2>2. overwrote' \in BOOLEAN
    BY DEF Inv, TypeOK, WritePool
  <2>3. QED
    BY <1>1, <1>3, <2>1, <2>2 DEF SettlesOn, WritePool, giveawayVars, faultVars, Inv, TypeOK, RowsOK
<1>5. Accounted'
  BY <1>3 DEF Accounted, Copies
<1>6. BlankAlone'
  <2> SUFFICES ASSUME Good', NEW x \in Auctions, Blank(x)' PROVE FALSE
    BY DEF BlankAlone
  <2>1. x \in Slots /\ job'[x].at \in Past
    BY DEF Slots, Blank
  <2>2. x # k /\ job'[x] = job[x]
    BY <1>2, <2>1, IdleJob DEF Touches, Past, Late
  <2>3. job[x] # Idle
    BY <2>1, <2>2, IdleJob DEF Past, Late
  <2>4. QED
    BY <2>3 DEF WritePool, Good
<1>7. QED
  BY <1>2, <1>4, <1>5, <1>6, FitStep DEF Inv

LEMMA StartAuctionStep ==
  ASSUME Inv, NEW k \in Slots, StartAuction(k)
  PROVE  Inv'
<1>1. PICK x \in Auctions : auction[x] = "NONE" /\ auction' = [auction EXCEPT ![x] = "RUNNING"]
  BY DEF StartAuction
<1>2. /\ wheel' = wheel /\ quantity' = quantity /\ status' = "LIVE"
      /\ order' = order /\ item' = item /\ label' = label /\ overwrote' = overwrote
      /\ giveaway' = giveaway /\ entries' = entries /\ past' = past /\ timers' = timers
      /\ prize' = prize /\ drawn' = drawn /\ up' = up /\ errors' = errors /\ crashes' = crashes
  BY DEF StartAuction, giveawayVars, faultVars
<1>3. SettlesOn /\ RowsOK' /\ (Good' => Good)
  BY <1>1, <1>2 DEF SettlesOn, RowsOK, Inv, TypeOK, Good
<1>4. Touches(k) /\ job'[k] = Idle /\ Fits(k, job'[k], auction')
  BY DoneJob DEF StartAuction
<1>5. job'[k].at \notin Past /\ ~Carries(k)
  BY <1>4, IdleJob DEF StartAuction, At, Past, Late, Carries
<1>6. QED
  BY <1>2, <1>3, <1>4, <1>5, PlainStep

-----------------------------------------------------------------------------
(* The settlement's side of the wheel.                                     *)

\* No handler moves.
LEMMA StillStep ==
  ASSUME Inv, job' = job, SettlesOn, RowsOK', wheel' = wheel, quantity' = quantity,
         Good' => Good
  PROVE  Inv'
<1>1. TypeOK'
  BY DEF Inv, TypeOK, RowsOK
<1>2. JobsFit'
  BY DEF Inv, JobsFit, Fits, SettlesOn
<1>3. \A x \in Auctions : (Carries(x)' <=> Carries(x)) /\ (Blank(x)' <=> Blank(x))
  BY DEF Carries, Blank
<1>4. Accounted' /\ BlankAlone'
  BY <1>3 DEF Inv, Accounted, BlankAlone, Copies
<1>5. QED
  BY <1>1, <1>2, <1>4 DEF Inv

LEMMA CloseUnsoldStep ==
  ASSUME Inv, NEW x \in Auctions, CloseUnsold(x)
  PROVE  Inv'
<1>1. /\ auction[x] = "RUNNING" /\ auction' = [auction EXCEPT ![x] = "CLOSED"]
      /\ status' \in {"QUEUED", "UNSOLD"} /\ job' = job
  BY DEF CloseUnsold, OnSaleOr
<1>2. /\ wheel' = wheel /\ quantity' = quantity
      /\ order' = order /\ item' = item /\ label' = label /\ overwrote' = overwrote
      /\ giveaway' = giveaway /\ entries' = entries /\ past' = past /\ timers' = timers
      /\ prize' = prize /\ drawn' = drawn /\ up' = up /\ errors' = errors /\ crashes' = crashes
  BY DEF CloseUnsold, giveawayVars, faultVars
<1>3. SettlesOn /\ RowsOK' /\ (Good' => Good)
  BY <1>1, <1>2 DEF SettlesOn, RowsOK, Inv, TypeOK, Good
<1>4. QED
  BY <1>1, <1>2, <1>3, StillStep

LEMMA CloseWonStep ==
  ASSUME Inv, NEW x \in Auctions, CloseWon(x)
  PROVE  Inv'
<1>1. x \in Slots /\ auction' = [auction EXCEPT ![x] = "SETTLING"]
  BY DEF CloseWon, Slots
<1>2. /\ wheel' = wheel /\ quantity' = quantity /\ status' = "SOLD"
      /\ order' = order /\ item' = item /\ label' = label /\ overwrote' = overwrote
      /\ giveaway' = giveaway /\ entries' = entries /\ past' = past /\ timers' = timers
      /\ prize' = prize /\ drawn' = drawn /\ up' = up /\ errors' = errors /\ crashes' = crashes
  BY DEF CloseWon, giveawayVars, faultVars
<1>3. SettlesOn /\ RowsOK' /\ (Good' => Good) /\ auction'[x] = "SETTLING"
  BY <1>1, <1>2 DEF SettlesOn, RowsOK, Inv, TypeOK, Good
<1>4. Touches(x) /\ job'[x].at = "read"
  BY <1>1, GoToJob DEF CloseWon, Labels
<1>5. Fits(x, job'[x], auction') /\ job'[x].at \notin Past /\ ~Carries(x)
  BY <1>3, <1>4, IdleJob DEF Fits, GiveawayLabels, Past, Late, Carries, CloseWon, Free
<1>6. QED
  BY <1>1, <1>2, <1>3, <1>4, <1>5, PlainStep

\* A settlement that finds the wheel empty finds no other with a wheel, or it is
\* on record that it did.
LEMMA ReadWheelStep ==
  ASSUME Inv, NEW x \in Slots, ReadWheel(x)
  PROVE  Inv'
<1>1. /\ job[x] \in Jobs /\ job[x].at = "read" /\ x \in Auctions /\ auction[x] = "SETTLING"
      /\ wheel \in [Prizes -> Nat]
  BY OwnJob DEF ReadWheel, At, Fits, Settling, Inv, TypeOK
<1>2. PICK j \in Jobs : j = [job[x] EXCEPT !.at = "order", !.pool = wheel]
  BY <1>1 DEF Jobs, Labels
<1>3. j.at = "order" /\ j.pool = wheel
  BY <1>1, <1>2 DEF Jobs
<1>4. Touches(x) /\ job'[x] = j
  <2>1. job' = [job EXCEPT ![x] = j]
    BY <1>2 DEF ReadWheel, Inv, TypeOK
  <2>2. QED
    BY <2>1, Becoming
<1>5. /\ wheel' = wheel /\ quantity' = quantity /\ auction' = auction
      /\ errors' = errors /\ crashes' = crashes
  BY DEF ReadWheel, listingVars, faultVars
<1>6. Fits(x, job'[x], auction') /\ SettlesOn
  BY <1>1, <1>3, <1>4, <1>5 DEF Fits, GiveawayLabels, SettlesOn
<1>7. overwrote' \in BOOLEAN /\ RowsOK'
  <2>1. overwrote' \in BOOLEAN
    BY DEF ReadWheel, Inv, TypeOK
  <2>2. QED
    BY <2>1 DEF ReadWheel, giveawayVars, listingVars, faultVars, Inv, TypeOK, RowsOK
<1>8. Good' => /\ Good
               /\ wheel = NoWheel => \A y \in Auctions : job[y].pool = NoWheel
  BY <1>5 DEF ReadWheel, Good
<1>9. \A y \in Auctions \ {x} : y \in Slots /\ job'[y] = job[y]
  BY <1>4 DEF Touches, Slots
<1>10. Accounted'
  <2>1. \A y \in Auctions : Carries(y) => Carries(y)'
    BY <1>1, <1>9 DEF Carries, Late
  <2>2. QED
    BY <1>5, <1>8, <2>1 DEF Inv, Accounted, Copies
<1>11. BlankAlone'
  <2> SUFFICES ASSUME Good', NEW y \in Auctions, Blank(y)'
               PROVE  wheel' = NoWheel /\ \A z \in Auctions : job'[z].at \in Past => Blank(z)'
    BY DEF BlankAlone
  <2>1. wheel = NoWheel
    <3>1. CASE y = x
      BY <1>3, <1>4, <3>1 DEF Blank
    <3>2. CASE y # x
      BY <1>8, <1>9, <3>2 DEF Inv, BlankAlone, Blank
    <3>3. QED
      BY <3>1, <3>2
  <2>2. \A z \in Auctions : job'[z].pool = NoWheel
    BY <1>3, <1>4, <1>8, <1>9, <2>1
  <2>3. QED
    BY <1>5, <2>1, <2>2 DEF Blank
<1>12. QED
  BY <1>4, <1>6, <1>7, <1>10, <1>11, FitStep DEF Inv

LEMMA StillGood ==
  ASSUME errors' \in Nat, errors' # errors => errors' > 0, crashes' = crashes,
         overwrote' = overwrote
  PROVE  Good' => Good
<1>1. errors' = 0 => errors = 0
  OBVIOUS
<1>2. QED
  BY <1>1 DEF Good

\* A step of a settlement that keeps auctions, giveaways and faults.
LEMMA SettlementGoesOn ==
  ASSUME Inv, NEW k \in Slots, NEW at \in Past, GoTo(k, at), job[k].at \in Past,
         at \in {"label", "consume"} => job[k].at = "label",
         job[k].at \in Late => at \in Late,
         wheel' = wheel, quantity' = quantity, overwrote' = overwrote, auction' = auction,
         up' = up, crashes' = crashes, UNCHANGED giveawayVars, errors' \in Nat,
         errors' # errors => errors' > 0,
         status' \in {"QUEUED", "LIVE", "SOLD", "UNSOLD"},
         order' \in [Auctions -> {"none", "by auction", "by listing"}],
         item' \in [Auctions -> BOOLEAN], label' \in [Auctions -> Prizes \cup {None}]
  PROVE  Inv'
<1>1. Touches(k) /\ job'[k].at = at /\ job'[k].pool = job[k].pool /\ job'[k].p = job[k].p
  BY GoToJob DEF Labels, Past, Late
<1>2. Fits(k, job[k], auction) /\ k \in Auctions
  BY OwnJob DEF Fits, Settling
<1>3. Fits(k, job'[k], auction')
  BY <1>1, <1>2 DEF Fits, GiveawayLabels, Settling, Past, Late
<1>4. SettlesOn /\ RowsOK' /\ (Good' => Good)
  <2>1. Good' => Good
    BY StillGood
  <2>2. QED
    BY <2>1 DEF SettlesOn, giveawayVars, Inv, TypeOK, RowsOK
<1>5. QED
  BY <1>1, <1>2, <1>3, <1>4, SettleStep

LEMMA CreateOrderStep ==
  ASSUME Inv, NEW k \in Slots, CreateOrder(k)
  PROVE  Inv'
<1>1. order' \in [Auctions -> {"none", "by auction", "by listing"}]
  BY DEF CreateOrder, Inv, TypeOK
<1>2. QED
  BY <1>1, SettlementGoesOn
     DEF CreateOrder, At, Past, Late, listingVars, faultVars, Inv, TypeOK

LEMMA RequeueStep ==
  ASSUME Inv, NEW k \in Slots, Requeue(k)
  PROVE  Inv'
<1>1. status' \in {"QUEUED", "LIVE", "SOLD", "UNSOLD"}
  BY DEF Requeue, OnSaleOr
<1>2. QED
  BY <1>1, SettlementGoesOn DEF Requeue, At, Past, Late, faultVars, Inv, TypeOK

LEMMA CreateItemStep ==
  ASSUME Inv, NEW k \in Slots, CreateItem(k)
  PROVE  Inv'
<1>1. item' \in [Auctions -> BOOLEAN]
  BY DEF CreateItem, Inv, TypeOK
<1>2. QED
  BY <1>1, SettlementGoesOn
     DEF CreateItem, At, Past, Late, listingVars, faultVars, Inv, TypeOK

LEMMA RecordPrizeStep ==
  ASSUME Inv, NEW k \in Slots, RecordPrize(k)
  PROVE  Inv'
<1>1. job[k].at = "label" /\ job[k].p \in Prizes
  BY OwnJob DEF RecordPrize, At, Fits
<1>2. label' \in [Auctions -> Prizes \cup {None}]
  BY <1>1 DEF RecordPrize, Inv, TypeOK
<1>3. QED
  BY <1>1, <1>2, SettlementGoesOn
     DEF RecordPrize, At, Past, Late, listingVars, faultVars, Inv, TypeOK

\* Rows stay; a handler ends, or never had a wheel.
LEMMA EndStep ==
  ASSUME Inv, NEW k \in Slots, Done(k), ~Carries(k) \/ ~Good',
         UNCHANGED <<giveawayVars, wheelVars, up, crashes>>, errors' \in Nat,
         errors' # errors => errors' > 0
  PROVE  Inv'
<1>1. Touches(k) /\ job'[k] = Idle /\ Fits(k, job'[k], auction')
  BY DoneJob
<1>2. /\ wheel' = wheel /\ quantity' = quantity /\ status' = status /\ auction' = auction
      /\ order' = order /\ item' = item /\ label' = label /\ overwrote' = overwrote
      /\ giveaway' = giveaway /\ entries' = entries /\ past' = past /\ timers' = timers
      /\ prize' = prize /\ drawn' = drawn /\ up' = up /\ crashes' = crashes
  BY DEF giveawayVars, wheelVars, listingVars
<1>3. SettlesOn /\ RowsOK' /\ (Good' => Good)
  <2>1. Good' => Good
    BY <1>2, StillGood
  <2>2. QED
    BY <1>2, <2>1 DEF SettlesOn, RowsOK, Inv, TypeOK
<1>4. CASE ~Carries(k)
  <2>1. job'[k].at \notin Past
    BY <1>1, IdleJob DEF Past, Late
  <2>2. QED
    BY <1>1, <1>2, <1>3, <1>4, <2>1, PlainStep
<1>5. CASE ~Good'
  BY <1>1, <1>3, <1>5, FitStep DEF Inv, Accounted, BlankAlone
<1>6. QED
  BY <1>4, <1>5

LEMMA SpinStep ==
  ASSUME Inv, NEW k \in Slots, Spin(k)
  PROVE  Inv'
<1>1. /\ job[k] \in Jobs /\ job[k].at = "spin" /\ k \in Auctions /\ auction[k] = "SETTLING"
  BY OwnJob DEF Spin, At, Fits, Settling, Past, Late
<1>2. CASE job[k].pool = NoWheel /\ Done(k)
  BY <1>2, EndStep DEF Spin, Carries, faultVars, Inv, TypeOK
<1>3. ASSUME NEW p \in Prizes, job[k].pool[p] > 0,
             job' = [job EXCEPT ![k].at = "label", ![k].p = p]
      PROVE  Inv'
  <2>1. PICK j \in Jobs : j = [job[k] EXCEPT !.at = "label", !.p = p]
    BY <1>1 DEF Jobs, Labels
  <2>2. j.at = "label" /\ j.p = p /\ j.pool = job[k].pool
    BY <1>1, <2>1 DEF Jobs
  <2>3. Touches(k) /\ job'[k] = j
    <3>1. job' = [job EXCEPT ![k] = j]
      BY <1>3, <2>1 DEF Inv, TypeOK
    <3>2. QED
      BY <3>1, Becoming
  <2>4. /\ wheel' = wheel /\ quantity' = quantity /\ status' = status /\ auction' = auction
        /\ order' = order /\ item' = item /\ label' = label /\ overwrote' = overwrote
        /\ giveaway' = giveaway /\ entries' = entries /\ past' = past /\ timers' = timers
        /\ prize' = prize /\ drawn' = drawn /\ up' = up /\ errors' = errors /\ crashes' = crashes
    BY DEF Spin, giveawayVars, wheelVars, listingVars, faultVars
  <2>5. SettlesOn /\ RowsOK' /\ (Good' => Good)
    BY <2>4 DEF SettlesOn, RowsOK, Inv, TypeOK, Good
  <2>6. Fits(k, job'[k], auction')
    BY <1>1, <1>3, <2>2, <2>3, <2>4 DEF Fits, GiveawayLabels
  <2>7. job[k].at \in Past /\ job'[k].pool = job[k].pool /\ job'[k].at \in Late
    BY <1>1, <2>2, <2>3 DEF Past, Late
  <2>8. QED
    BY <1>1, <2>3, <2>4, <2>5, <2>6, <2>7, SettleStep
<1>4. QED
  BY <1>2, <1>3 DEF Spin

\* The unit leaves the stock for a settlement that will write the wheel, or for
\* one that found none.
LEMMA CountUnitStep ==
  ASSUME Inv, NEW k \in Slots, CountUnit(k)
  PROVE  Inv'
<1>1. /\ job[k] \in Jobs /\ job[k].at = "unit" /\ k \in Auctions /\ auction[k] = "SETTLING"
  BY OwnJob DEF CountUnit, At, Fits, Settling, Past
<1>2. PICK n \in Int : n = quantity - 1
  BY Numbers
<1>3. PICK j \in Jobs : j = [job[k] EXCEPT !.at = "requeue", !.left = n]
  BY <1>1 DEF Jobs, Labels
<1>4. j.at = "requeue" /\ j.pool = job[k].pool
  BY <1>1, <1>3 DEF Jobs
<1>5. Touches(k) /\ job'[k] = j
  <2>1. job' = [job EXCEPT ![k] = j]
    BY <1>2, <1>3 DEF CountUnit, Inv, TypeOK
  <2>2. QED
    BY <2>1, Becoming
<1>6. /\ wheel' = wheel /\ quantity' = n /\ status' = status /\ auction' = auction
      /\ order' = order /\ item' = item /\ label' = label /\ overwrote' = overwrote
      /\ giveaway' = giveaway /\ entries' = entries /\ past' = past /\ timers' = timers
      /\ prize' = prize /\ drawn' = drawn /\ up' = up /\ errors' = errors /\ crashes' = crashes
  BY <1>2 DEF CountUnit, giveawayVars, faultVars
<1>7. SettlesOn /\ RowsOK' /\ (Good' => Good)
  BY <1>6 DEF SettlesOn, RowsOK, Inv, TypeOK, Good
<1>8. Fits(k, job'[k], auction')
  BY <1>1, <1>4, <1>5, <1>6 DEF Fits, GiveawayLabels
<1>9. \A x \in Auctions \ {k} : x \in Slots /\ job'[x] = job[x]
  BY <1>5 DEF Touches, Slots
<1>10. (Blank(k)' <=> Blank(k)) /\ (~Blank(k) => Carries(k)')
  BY <1>1, <1>4, <1>5 DEF Blank, Carries, Past, Late
<1>11. Accounted'
  <2> SUFFICES ASSUME Good' PROVE wheel' = NoWheel \/ \E x \in Auctions : Carries(x)'
    BY DEF Accounted
  <2>1. CASE Blank(k)
    BY <1>1, <1>6, <1>7, <2>1 DEF Inv, BlankAlone
  <2>2. CASE ~Blank(k)
    BY <1>1, <1>10, <2>2
  <2>3. QED
    BY <2>1, <2>2
<1>12. BlankAlone'
  <2>1. \A x \in Auctions \ {k} : Blank(x)' <=> Blank(x)
    BY <1>9 DEF Blank
  <2>2. \A x \in Auctions : (job'[x].at \in Past) <=> (job[x].at \in Past)
    BY <1>1, <1>4, <1>5, <1>9 DEF Past, Late
  <2>3. QED
    BY <1>6, <1>7, <1>10, <2>1, <2>2 DEF Inv, BlankAlone
<1>13. QED
  BY <1>5, <1>7, <1>8, <1>11, <1>12, FitStep DEF Inv

\* The wheel and the stock are written together, and no settlement is blank.
LEMMA ConsumePrizeStep ==
  ASSUME Inv, NEW k \in Slots, ConsumePrize(k)
  PROVE  Inv'
<1>1. /\ job[k] \in Jobs /\ job[k].at = "consume" /\ k \in Auctions
      /\ job[k].p \in Prizes /\ job[k].pool \in [Prizes -> Nat] /\ job[k].pool[job[k].p] > 0
  BY OwnJob DEF ConsumePrize, At, Fits, Settling, Past, Late, Jobs
<1>2. job[k].pool # NoWheel
  BY <1>1 DEF NoWheel
<1>3. PICK w \in [Prizes -> Nat] : w = [job[k].pool EXCEPT ![job[k].p] = @ - 1]
  <2>1. job[k].pool[job[k].p] - 1 \in Nat
    BY <1>1
  <2>2. QED
    BY <1>1, <2>1
<1>4. /\ wheel' = w /\ quantity' = Copies(w) /\ auction' = auction
      /\ status' \in {"QUEUED", "SOLD"}
      /\ order' = order /\ item' = item /\ label' = label /\ overwrote' = overwrote
      /\ giveaway' = giveaway /\ entries' = entries /\ past' = past /\ timers' = timers
      /\ prize' = prize /\ drawn' = drawn /\ up' = up /\ errors' = errors /\ crashes' = crashes
  BY <1>3 DEF ConsumePrize, OnSaleOr, giveawayVars, faultVars
<1>5. SettlesOn /\ RowsOK' /\ (Good' => Good)
  <2>1. quantity' \in Int
    BY <1>4, CopiesNat
  <2>2. QED
    BY <1>4, <2>1 DEF SettlesOn, RowsOK, Inv, TypeOK, Good
<1>6. Touches(k) /\ job'[k] = Idle /\ Fits(k, job'[k], auction')
  BY DoneJob DEF ConsumePrize
<1>7. Accounted'
  BY <1>4 DEF Accounted, Copies
<1>8. BlankAlone'
  <2> SUFFICES ASSUME Good', NEW x \in Auctions, Blank(x)' PROVE FALSE
    BY DEF BlankAlone
  <2>1. x # k /\ job'[x] = job[x]
    BY <1>6, IdleJob DEF Touches, Slots, Blank, Past, Late
  <2>2. Blank(x) /\ job[k].at \in Past
    BY <1>1, <2>1 DEF Blank, Past, Late
  <2>3. Blank(k)
    BY <1>1, <1>5, <2>2 DEF Inv, BlankAlone
  <2>4. QED
    BY <1>2, <2>3 DEF Blank
<1>9. QED
  BY <1>5, <1>6, <1>7, <1>8, FitStep DEF Inv

-----------------------------------------------------------------------------
(* The clock and faults.                                                   *)

LEMMA WindowClosesStep ==
  ASSUME Inv, NEW g \in Giveaways, WindowCloses(g)
  PROVE  Inv'
<1>1. /\ wheel' = wheel /\ quantity' = quantity /\ status' = status /\ auction' = auction
      /\ order' = order /\ item' = item /\ label' = label /\ overwrote' = overwrote
      /\ up' = up /\ errors' = errors /\ crashes' = crashes /\ job' = job
  BY DEF WindowCloses, wheelVars, listingVars, faultVars
<1>2. SettlesOn /\ RowsOK' /\ (Good' => Good)
  BY <1>1 DEF WindowCloses, SettlesOn, RowsOK, Inv, TypeOK, Good
<1>3. QED
  BY <1>1, <1>2, StillStep

LEMMA FailStep ==
  ASSUME Inv, NEW k \in Slots, Fail(k)
  PROVE  Inv'
<1>1. errors' \in Nat /\ errors' > 0 /\ ~Good'
  <2>1. errors' = errors + 1
    BY DEF Fail
  <2>2. errors' \in Nat /\ errors' > 0
    BY <2>1, Numbers
  <2>3. QED
    BY <2>2 DEF Good
<1>2. UNCHANGED <<giveawayVars, wheelVars, up, crashes>>
  BY DEF Fail
<1>3. CASE Done(k)
  BY <1>1, <1>2, <1>3, EndStep
<1>4. ASSUME NEW at \in {"spin", "consume"}, GoTo(k, at), job[k].at \in Past,
             at = "consume" => job[k].at = "label"
      PROVE  Inv'
  <2>1. Touches(k) /\ job'[k].at = at /\ job'[k].pool = job[k].pool /\ job'[k].p = job[k].p
    BY <1>4, GoToJob DEF Labels
  <2>2. auction' = auction /\ RowsOK'
    BY <1>1, <1>2 DEF RowsOK, Inv, TypeOK, giveawayVars, wheelVars, listingVars
  <2>3. Fits(k, job[k], auction)
    BY OwnJob
  <2>4. Fits(k, job'[k], auction')
    BY <1>4, <2>1, <2>2, <2>3 DEF Fits, GiveawayLabels, Settling, Past, Late
  <2>5. SettlesOn
    BY <2>2 DEF SettlesOn
  <2>6. QED
    BY <1>1, <2>1, <2>2, <2>4, <2>5, FitStep DEF Inv, Accounted, BlankAlone
<1>5. \/ Done(k)
      \/ GoTo(k, "spin") /\ job[k].at \in Past
      \/ GoTo(k, "consume") /\ job[k].at = "label" /\ job[k].at \in Past
  BY DEF Fail, At, Past, Late
<1>6. QED
  BY <1>3, <1>4, <1>5

LEMMA CrashStep ==
  ASSUME Inv, Crash
  PROVE  Inv'
<1>1. ~Good' /\ crashes' \in Nat
  <2>1. crashes' = crashes + 1
    BY DEF Crash
  <2>2. crashes' \in Nat /\ crashes' > 0
    BY <2>1, Numbers
  <2>3. QED
    BY <2>2 DEF Good
<1>2. \A k \in Slots : job'[k] = Idle
  BY DEF Crash
<1>3. job' \in [Slots -> Jobs]
  BY IdleJob DEF Crash
<1>4. TypeOK'
  BY <1>1, <1>3 DEF Crash, Inv, TypeOK, wheelVars, listingVars
<1>5. JobsFit'
  BY <1>2, IdleJob DEF JobsFit, Fits, GiveawayLabels, Settling, Past, Late
<1>6. QED
  BY <1>1, <1>4, <1>5 DEF Inv, Accounted, BlankAlone

LEMMA BootStep ==
  ASSUME Inv, Boot
  PROVE  Inv'
<1>1. /\ wheel' = wheel /\ quantity' = quantity /\ status' = status /\ auction' = auction
      /\ order' = order /\ item' = item /\ label' = label /\ overwrote' = overwrote
      /\ giveaway' = giveaway /\ entries' = entries /\ past' = past /\ timers' = timers
      /\ drawn' = drawn /\ up' = TRUE /\ crashes' = crashes /\ job' = job
  BY DEF Boot, wheelVars, listingVars
<1>2. prize' \in [Giveaways -> Viewers \cup {None}]
  <2>1. \A g \in Giveaways : giveaway[g].winner \in Viewers \cup {None}
    BY DEF Inv, TypeOK, GiveawayRows
  <2>2. Backfill \in [Giveaways -> Viewers \cup {None}]
    BY <2>1 DEF Backfill, ShipTo, Inv, TypeOK
  <2>3. QED
    BY <2>2 DEF Boot, Inv, TypeOK
<1>3. errors' \in Nat /\ (errors' # errors => errors' > 0)
  <2>1. errors' = errors \/ errors' = errors + 1
    BY DEF Boot
  <2>2. QED
    BY <2>1, Numbers
<1>4. Good' => Good
  BY <1>1, <1>3, StillGood
<1>5. SettlesOn /\ RowsOK'
  BY <1>1, <1>2, <1>3 DEF SettlesOn, RowsOK, Inv, TypeOK
<1>6. QED
  BY <1>1, <1>4, <1>5, StillStep

-----------------------------------------------------------------------------
(* The theorems.                                                           *)

LEMMA InitInv == Init => Inv
<1> SUFFICES ASSUME Init PROVE Inv
  OBVIOUS
<1>1. \A k \in Slots : job[k] = Idle
  BY DEF Init
<1>2. giveaway \in [Giveaways -> GiveawayRows] /\ past \subseteq Giveaways
  BY DEF Init, GiveawayRows
<1>3. TypeOK
  <2>1. wheel \in [Prizes -> Nat] /\ job \in [Slots -> Jobs]
    BY IdleJob, NoWheelNat DEF Init
  <2>2. /\ quantity \in Int /\ errors \in Nat /\ crashes \in Nat
    BY LiveRoomAssumption DEF Init
  <2>3. drawn \in Histories
    BY DEF Init, Histories
  <2>4. QED
    BY <1>2, <2>1, <2>2, <2>3 DEF Init, TypeOK
<1>4. JobsFit
  BY <1>1, IdleJob DEF JobsFit, Fits, GiveawayLabels, Settling, Past, Late
<1>5. Accounted
  BY DEF Init, Accounted
<1>6. \A x \in Auctions : ~Blank(x)
  BY <1>1, IdleJob DEF Slots, Blank, Past, Late
<1>7. QED
  BY <1>3, <1>4, <1>5, <1>6 DEF Inv, BlankAlone

LEMMA StepInv == Inv /\ [Next]_vars => Inv'
<1> SUFFICES ASSUME Inv, [Next]_vars PROVE Inv'
  OBVIOUS
<1>1. CASE UNCHANGED vars
  <2>1. /\ wheel' = wheel /\ quantity' = quantity /\ job' = job
        /\ SettlesOn /\ RowsOK' /\ (Good' => Good)
    BY <1>1 DEF vars, giveawayVars, wheelVars, listingVars, faultVars, SettlesOn, RowsOK,
      Inv, TypeOK, Good
  <2>2. QED
    BY <2>1, StillStep
<1>2. ASSUME NEW k \in Requests, Request(k)
      PROVE  Inv'
  <2>1. k \in Slots
    BY DEF Slots
  <2>2. ASSUME NEW g \in Giveaways, DrawByHand(k, g)
        PROVE  Inv'
    BY <2>1, <2>2, ReadGiveawayStep DEF DrawByHand
  <2>3. QED
    BY <1>2, <2>1, <2>2, OpenGiveawayStep, EnterGiveawayStep, SetWheelStep,
       StartFromListingStep DEF Request
<1>3. ASSUME NEW g \in Giveaways, DrawByTimer(g)
      PROVE  Inv'
  BY <1>3, ReadGiveawayStep DEF DrawByTimer, Slots
<1>4. ASSUME NEW k \in Slots, Step(k)
      PROVE  Inv'
  BY <1>4, AnnounceGiveawayStep, InsertEntryStep, ListEntrantsStep, CloseEmptyStep,
     DrawWinnerStep, ShipPrizeStep, CountSoldStep, WritePoolStep, StartAuctionStep,
     ReadWheelStep, CreateOrderStep, CountUnitStep, RequeueStep, CreateItemStep,
     SpinStep, RecordPrizeStep, ConsumePrizeStep DEF Step
<1>5. QED
  BY <1>1, <1>2, <1>3, <1>4, WindowClosesStep, CloseUnsoldStep, CloseWonStep, FailStep,
     CrashStep, BootStep DEF Next

\* The inductive invariant holds in every state: a handler fits its rows, and the
\* stock differs from the wheel only while a settlement has yet to write it
\* (giveaways.ts, realtime/server.ts:708-790).
THEOREM Invariance == Spec => []Inv
BY InitInv, StepInv, PTL DEF Spec

\* Rows and handlers stay in range: no spin takes a copy the wheel does not have.
THEOREM Typing == Spec => []TypeOK
<1>1. Inv => TypeOK
  BY DEF Inv
<1>2. QED
  BY <1>1, Invariance, PTL

\* For any number of prizes, pools, auctions and handlers, the wheel and the
\* listing's quantity agree when the handlers are through, unless a pool was
\* written over an auction, a settlement found the wheel empty for the moment, or
\* something failed (realtime/server.ts:772-774).
THEOREM WheelAndStockAgree == Spec => []WheelMatchesStock
<1>1. Inv => WheelMatchesStock
  <2> SUFFICES ASSUME Inv, errors + crashes = 0, ~overwrote,
                      \A k \in Slots : job[k] = Idle
               PROVE  wheel = NoWheel \/ quantity = Copies(wheel)
    BY DEF WheelMatchesStock
  <2>1. errors = 0 /\ crashes = 0
    BY Numbers
  <2>2. \A x \in Auctions : ~Carries(x)
    BY IdleJob DEF Slots, Carries, Late
  <2>3. QED
    BY <2>1, <2>2 DEF Inv, Accounted, Good
<1>2. QED
  BY <1>1, Invariance, PTL

-----------------------------------------------------------------------------
(* Giveaways: who wins, and who has the draw and the prize in hand.        *)

\* Entries are of those who may enter, a winner is one of them, and so is whoever
\* has the prize, unless it is the seller.
RowEarned(g) ==
  /\ entries[g] \subseteq Eligible[g]
  /\ giveaway[g].winner # None =>
       giveaway[g].status = "CLOSED" /\ giveaway[g].winner \in entries[g]
  /\ prize[g] # None => prize[g] \in entries[g] \ {Seller}

PrizesAreEarned == \A g \in Giveaways : RowEarned(g)

\* What a handler has read of the entries.
KnowsEntrants(k) ==
  /\ job[k].at = "insert" => job[k].u \in Eligible[job[k].g]
  /\ job[k].at = "draw" => job[k].seen \subseteq entries[job[k].g]
  /\ job[k].at = "ship" => job[k].u \in entries[job[k].g] \ {Seller}

\* The handler in slot k is about to arm the timer of giveaway g or to close it.
Ending(k, g) ==
  /\ job[k].g = g
  /\ job[k].at = "announce" \/ (job[k].at \in {"list", "draw"} /\ job[k].fresh)

Shipping(k, g) == job[k].at = "ship" /\ job[k].g = g

Unended(g) == giveaway[g].status = "OPEN" /\ g \notin timers
Unshipped(g) == giveaway[g].winner \notin {None, Seller} /\ prize[g] = None

\* As long as nothing has failed, an open giveaway has its timer or a handler at it.
OpenInHand ==
  errors + crashes = 0 => \A g \in Giveaways : Unended(g) => \E k \in Slots : Ending(k, g)

\* A prize that is not there yet has a handler at it while the process is up.
PrizesMinded ==
  up /\ errors = 0 => \A g \in Giveaways : Unshipped(g) => \E k \in Slots : Shipping(k, g)

\* As long as all draws of giveaway g have read the same entrants, whoever is on
\* record, has the prize or is about to get it is the one they draw.
SameWinner(g) ==
  Frozen(g) =>
    /\ giveaway[g].winner # None =>
         \E s \in drawn[g] : giveaway[g].winner = giveaway[g].seed[s]
    /\ prize[g] \in {None, giveaway[g].winner}
    /\ \A k \in Slots : Shipping(k, g) => job[k].u = giveaway[g].winner

\* A draw that leaves the record alone has found a winner there.
FoundWinner(k) ==
  job[k].at \in {"list", "draw"} /\ ~job[k].fresh => giveaway[job[k].g].winner # None

RightWinners ==
  /\ \A g \in Giveaways : SameWinner(g)
  /\ \A k \in Slots : FoundWinner(k)

\* A handler is about to make the prize out to the winner on record.
InHand(g) == \E k \in Slots : Shipping(k, g) /\ job[k].u = giveaway[g].winner

\* The winner on record has the prize or is about to get it, and nobody else has it.
PrizesInHand ==
  \A g \in Giveaways :
    Frozen(g) /\ giveaway[g].winner \notin {None, Seller} =>
      \/ prize[g] = giveaway[g].winner
      \/ prize[g] = None /\ (up /\ errors = 0 => InHand(g))

RoomInv ==
  /\ PrizesAreEarned /\ OpenInHand /\ PrizesMinded /\ RightWinners
  /\ \A k \in Slots : KnowsEntrants(k)

\* A step of the handler in slot k that neither draws nor ships.
LEMMA RightKeeps ==
  ASSUME Inv, RoomInv, NEW k \in Slots, Touches(k), drawn' = drawn, prize' = prize,
         \A g \in Giveaways : /\ giveaway'[g].winner = giveaway[g].winner
                              /\ giveaway'[g].seed = giveaway[g].seed,
         FoundWinner(k)', job'[k].at # "ship"
  PROVE  RightWinners'
<1>1. ASSUME NEW g \in Giveaways
      PROVE  SameWinner(g)'
  <2>1. SameWinner(g) /\ (Frozen(g)' <=> Frozen(g))
    BY DEF RoomInv, RightWinners, Frozen
  <2>2. \A h \in Slots : Shipping(h, g)' => Shipping(h, g) /\ job'[h] = job[h]
    BY DEF Shipping, Touches
  <2>3. QED
    BY <2>1, <2>2 DEF SameWinner
<1>2. ASSUME NEW h \in Slots \ {k}
      PROVE  FoundWinner(h)'
  <2>1. job'[h] = job[h] /\ FoundWinner(h)
    BY DEF RoomInv, RightWinners, Touches
  <2>2. job[h].at \in {"list", "draw"} => job[h].g \in Giveaways
    BY OwnJob DEF Fits, GiveawayLabels
  <2>3. QED
    BY <2>1, <2>2 DEF FoundWinner
<1>3. QED
  BY <1>1, <1>2 DEF RightWinners

\* The same, of a handler whose new statement is not of a draw.
LEMMA RightAside ==
  ASSUME Inv, RoomInv, NEW k \in Slots, Touches(k), drawn' = drawn, prize' = prize,
         \A g \in Giveaways : /\ giveaway'[g].winner = giveaway[g].winner
                              /\ giveaway'[g].seed = giveaway[g].seed,
         job'[k].at \notin {"list", "draw", "ship"}
  PROVE  RightWinners'
<1>1. FoundWinner(k)'
  BY DEF FoundWinner
<1>2. QED
  BY <1>1, RightKeeps

\* A step of the handler in slot k: entries stay, what it knows is true, and what it
\* leaves undone was not its to do.
LEMMA RoomKeeps ==
  ASSUME Inv, RoomInv, NEW k \in Slots, Touches(k), UNCHANGED faultVars,
         PrizesAreEarned', KnowsEntrants(k)', RightWinners',
         \A g \in Giveaways :
           /\ entries[g] \subseteq entries'[g]
           /\ Unended(g)' => Ending(k, g)' \/ (Unended(g) /\ ~Ending(k, g))
           /\ Unshipped(g)' => Shipping(k, g)' \/ (Unshipped(g) /\ ~Shipping(k, g))
  PROVE  RoomInv'
<1>1. \A h \in Slots \ {k} : job'[h] = job[h]
  BY DEF Touches
<1>2. ASSUME NEW h \in Slots \ {k}
      PROVE  KnowsEntrants(h)'
  <2>1. KnowsEntrants(h) /\ (job[h].at \in GiveawayLabels => job[h].g \in Giveaways)
    BY OwnJob DEF RoomInv, Fits
  <2>2. QED
    BY <1>1, <2>1 DEF KnowsEntrants, GiveawayLabels
<1>3. up' = up /\ errors' = errors /\ crashes' = crashes
  BY DEF faultVars
<1>4. \A g \in Giveaways, h \in Slots \ {k} :
        (Ending(h, g) => Ending(h, g)') /\ (Shipping(h, g) => Shipping(h, g)')
  BY <1>1 DEF Ending, Shipping
<1>5. OpenInHand' /\ PrizesMinded'
  BY <1>3, <1>4 DEF RoomInv, OpenInHand, PrizesMinded
<1>6. QED
  BY <1>2, <1>5 DEF RoomInv

\* A handler that leaves the giveaways alone.
LEMMA AsideRoom ==
  ASSUME Inv, RoomInv, NEW k \in Slots, Touches(k), UNCHANGED <<giveawayVars, faultVars>>,
         job[k].at \notin GiveawayLabels, job'[k].at \notin GiveawayLabels
  PROVE  RoomInv'
<1>1. /\ giveaway' = giveaway /\ entries' = entries /\ timers' = timers /\ prize' = prize
      /\ drawn' = drawn
  BY DEF giveawayVars
<1>2. PrizesAreEarned'
  BY <1>1 DEF RoomInv, PrizesAreEarned, RowEarned
<1>3. KnowsEntrants(k)'
  BY DEF KnowsEntrants, GiveawayLabels
<1>4. \A g \in Giveaways : ~Ending(k, g) /\ ~Shipping(k, g)
  BY DEF Ending, Shipping, GiveawayLabels
<1>5. \A g \in Giveaways : (Unended(g)' => Unended(g)) /\ (Unshipped(g)' => Unshipped(g))
  BY <1>1 DEF Unended, Unshipped
<1>6. RightWinners'
  BY <1>1, RightAside DEF GiveawayLabels
<1>7. QED
  BY <1>1, <1>2, <1>3, <1>4, <1>5, <1>6, RoomKeeps

\* The clock, a close without a bid, and no step at all.
LEMMA StillRoom ==
  ASSUME Inv, RoomInv, UNCHANGED <<giveaway, entries, timers, prize, drawn, job, faultVars>>
  PROVE  RoomInv'
<1>1. up' = up /\ errors' = errors /\ crashes' = crashes
  BY DEF faultVars
<1>2. PrizesAreEarned' /\ \A k \in Slots : KnowsEntrants(k)'
  BY DEF RoomInv, PrizesAreEarned, RowEarned, KnowsEntrants
<1>3. OpenInHand' /\ PrizesMinded'
  BY <1>1 DEF RoomInv, OpenInHand, PrizesMinded, Unended, Unshipped, Ending, Shipping
<1>4. RightWinners'
  BY DEF RoomInv, RightWinners, SameWinner, FoundWinner, Frozen, Shipping
<1>5. QED
  BY <1>2, <1>3, <1>4 DEF RoomInv

-----------------------------------------------------------------------------
(* The steps of a giveaway.                                                *)

LEMMA OpenRoom ==
  ASSUME Inv, RoomInv, NEW k \in Slots, NEW g \in Giveaways, OpenGiveaway(k, g)
  PROVE  RoomInv'
<1>1. PICK j \in Jobs : j = [Idle EXCEPT !.at = "announce", !.g = g]
  BY IdleJob DEF Idle, Jobs, Labels
<1>2. j.at = "announce" /\ j.g = g /\ Touches(k) /\ job'[k] = j /\ job[k].at = "idle"
  <2>1. job' = [job EXCEPT ![k] = j]
    BY <1>1 DEF OpenGiveaway
  <2>2. QED
    BY <1>1, <2>1, IdleJob, Becoming DEF OpenGiveaway, Free, Jobs
<1>3. /\ entries' = entries /\ timers' = timers /\ prize' = prize /\ drawn' = drawn /\ UNCHANGED faultVars
      /\ giveaway' = [giveaway EXCEPT ![g].status = "OPEN"] /\ giveaway[g].status = "NONE"
  BY DEF OpenGiveaway
<1>4. \A x \in Giveaways :
        /\ giveaway'[x].winner = giveaway[x].winner
        /\ giveaway'[x].seed = giveaway[x].seed
        /\ x # g => giveaway'[x] = giveaway[x]
  BY <1>3 DEF Inv, TypeOK, GiveawayRows
<1>5. giveaway[g].winner = None
  BY <1>3 DEF RoomInv, PrizesAreEarned, RowEarned
<1>6. PrizesAreEarned'
  BY <1>3, <1>4, <1>5 DEF RoomInv, PrizesAreEarned, RowEarned
<1>7. KnowsEntrants(k)' /\ Ending(k, g)'
  BY <1>2 DEF KnowsEntrants, Ending, Jobs
<1>8. \A x \in Giveaways :
        /\ Unended(x)' => Ending(k, x)' \/ (Unended(x) /\ ~Ending(k, x))
        /\ Unshipped(x)' => Unshipped(x) /\ ~Shipping(k, x)
  BY <1>2, <1>3, <1>4, <1>7 DEF Unended, Unshipped, Ending, Shipping
<1>9. RightWinners'
  BY <1>2, <1>3, <1>4, RightAside
<1>10. QED
  BY <1>2, <1>3, <1>6, <1>7, <1>8, <1>9, RoomKeeps

LEMMA AnnounceRoom ==
  ASSUME Inv, RoomInv, NEW k \in Slots, AnnounceGiveaway(k)
  PROVE  RoomInv'
<1>1. job[k].at = "announce" /\ job[k].g \in Giveaways
  BY OwnJob DEF AnnounceGiveaway, At, Fits, GiveawayLabels
<1>2. PICK g \in Giveaways : g = job[k].g
  BY <1>1
<1>3. Touches(k) /\ job'[k].at = "idle"
  BY DoneJob, IdleJob DEF AnnounceGiveaway
<1>4. /\ giveaway' = giveaway /\ entries' = entries /\ prize' = prize /\ drawn' = drawn /\ UNCHANGED faultVars
      /\ timers' = IF giveaway[g].status = "OPEN" THEN timers \cup {g} ELSE timers
  BY <1>2 DEF AnnounceGiveaway
<1>5. PrizesAreEarned' /\ KnowsEntrants(k)'
  BY <1>3, <1>4 DEF RoomInv, PrizesAreEarned, RowEarned, KnowsEntrants
<1>6. \A x \in Giveaways :
        /\ Unended(x)' => Unended(x) /\ ~Ending(k, x)
        /\ Unshipped(x)' => Unshipped(x) /\ ~Shipping(k, x)
  BY <1>1, <1>2, <1>4 DEF Unended, Unshipped, Ending, Shipping
<1>7. RightWinners'
  BY <1>3, <1>4, RightAside
<1>8. QED
  BY <1>3, <1>4, <1>5, <1>6, <1>7, RoomKeeps

LEMMA EnterRoom ==
  ASSUME Inv, RoomInv, NEW k \in Slots, NEW g \in Giveaways, NEW u \in Viewers,
         EnterGiveaway(k, g, u)
  PROVE  RoomInv'
<1>1. PICK j \in Jobs : j = [Idle EXCEPT !.at = "insert", !.g = g, !.u = u]
  BY IdleJob DEF Idle, Jobs, Labels
<1>2. /\ j.at = "insert" /\ j.g = g /\ j.u = u /\ Touches(k) /\ job'[k] = j
      /\ job[k].at = "idle" /\ u \in Eligible[g]
  BY <1>1, IdleJob, Becoming DEF EnterGiveaway, Free, Jobs
<1>3. /\ giveaway' = giveaway /\ entries' = entries /\ timers' = timers /\ prize' = prize
      /\ drawn' = drawn /\ UNCHANGED faultVars
  BY DEF EnterGiveaway, giveawayVars
<1>4. PrizesAreEarned' /\ KnowsEntrants(k)'
  BY <1>2, <1>3 DEF RoomInv, PrizesAreEarned, RowEarned, KnowsEntrants
<1>5. \A x \in Giveaways :
        /\ Unended(x)' => Unended(x) /\ ~Ending(k, x)
        /\ Unshipped(x)' => Unshipped(x) /\ ~Shipping(k, x)
  BY <1>2, <1>3 DEF Unended, Unshipped, Ending, Shipping
<1>6. RightWinners'
  BY <1>2, <1>3, RightAside
<1>7. QED
  BY <1>2, <1>3, <1>4, <1>5, <1>6, RoomKeeps

LEMMA InsertRoom ==
  ASSUME Inv, RoomInv, NEW k \in Slots, InsertEntry(k)
  PROVE  RoomInv'
<1>1. job[k].at = "insert" /\ job[k].g \in Giveaways /\ job[k].u \in Viewers
  BY OwnJob DEF InsertEntry, At, Fits, GiveawayLabels
<1>2. PICK g \in Giveaways, u \in Viewers : g = job[k].g /\ u = job[k].u
  BY <1>1
<1>3. u \in Eligible[g]
  BY <1>1, <1>2 DEF RoomInv, KnowsEntrants
<1>4. Touches(k) /\ job'[k].at = "idle"
  BY DoneJob, IdleJob DEF InsertEntry
<1>5. /\ giveaway' = giveaway /\ timers' = timers /\ prize' = prize /\ drawn' = drawn /\ UNCHANGED faultVars
      /\ entries' = [entries EXCEPT ![g] = @ \cup {u}]
  BY <1>2 DEF InsertEntry
<1>6. \A x \in Giveaways : entries[x] \subseteq entries'[x] /\ entries'[x] \subseteq Eligible[x]
  BY <1>3, <1>5 DEF Inv, TypeOK, RoomInv, PrizesAreEarned, RowEarned
<1>7. PrizesAreEarned' /\ KnowsEntrants(k)'
  BY <1>4, <1>5, <1>6 DEF RoomInv, PrizesAreEarned, RowEarned, KnowsEntrants
<1>8. \A x \in Giveaways :
        /\ Unended(x)' => Unended(x) /\ ~Ending(k, x)
        /\ Unshipped(x)' => Unshipped(x) /\ ~Shipping(k, x)
  BY <1>1, <1>5 DEF Unended, Unshipped, Ending, Shipping
<1>9. RightWinners'
  BY <1>4, <1>5, RightAside
<1>10. QED
  BY <1>4, <1>5, <1>6, <1>7, <1>8, <1>9, RoomKeeps

\* A draw that finds the giveaway open is fresh.
LEMMA ReadRoom ==
  ASSUME Inv, RoomInv, NEW k \in Slots, NEW g \in Giveaways, Free(k), ReadGiveaway(k, g)
  PROVE  RoomInv'
<1>1. PICK b \in BOOLEAN : b = (giveaway[g].status # "CLOSED" \/ giveaway[g].winner = None)
  OBVIOUS
<1>2. PICK j \in Jobs : j = [Idle EXCEPT !.at = "list", !.g = g, !.fresh = b]
  BY IdleJob DEF Idle, Jobs, Labels
<1>3. j.at = "list" /\ j.g = g /\ j.fresh = b
  BY <1>2, IdleJob DEF Jobs
<1>4. Touches(k) /\ job'[k] = j /\ job[k].at = "idle"
  <2>1. job' = [job EXCEPT ![k] = j]
    BY <1>1, <1>2 DEF ReadGiveaway
  <2>2. QED
    BY <2>1, IdleJob, Becoming DEF Free
<1>5. /\ giveaway' = giveaway /\ entries' = entries /\ prize' = prize /\ drawn' = drawn /\ UNCHANGED faultVars
      /\ timers' = timers \ {g}
  BY DEF ReadGiveaway
<1>6. PrizesAreEarned' /\ KnowsEntrants(k)'
  BY <1>3, <1>4, <1>5 DEF RoomInv, PrizesAreEarned, RowEarned, KnowsEntrants
<1>7. giveaway[g].status = "OPEN" => Ending(k, g)'
  BY <1>1, <1>3, <1>4 DEF Ending
<1>8. \A x \in Giveaways :
        /\ Unended(x)' => Ending(k, x)' \/ (Unended(x) /\ ~Ending(k, x))
        /\ Unshipped(x)' => Unshipped(x) /\ ~Shipping(k, x)
  <2>1. \A x \in Giveaways : ~Ending(k, x) /\ ~Shipping(k, x)
    BY <1>4 DEF Ending, Shipping
  <2>2. \A x \in Giveaways :
          /\ Unended(x)' => (x = g /\ giveaway[g].status = "OPEN") \/ Unended(x)
          /\ Unshipped(x)' => Unshipped(x)
    BY <1>5 DEF Unended, Unshipped
  <2>3. QED
    BY <1>7, <2>1, <2>2
<1>9. RightWinners'
  <2>1. FoundWinner(k)'
    BY <1>1, <1>3, <1>4, <1>5 DEF FoundWinner
  <2>2. QED
    BY <1>3, <1>4, <1>5, <2>1, RightKeeps
<1>10. QED
  BY <1>4, <1>5, <1>6, <1>8, <1>9, RoomKeeps

LEMMA ListRoom ==
  ASSUME Inv, RoomInv, NEW k \in Slots, ListEntrants(k)
  PROVE  RoomInv'
<1>1. job[k] \in Jobs /\ job[k].at = "list" /\ job[k].g \in Giveaways
  BY OwnJob DEF ListEntrants, At, Fits, GiveawayLabels
<1>2. PICK s \in SUBSET Viewers : s = entries[job[k].g]
  BY <1>1 DEF Inv, TypeOK
<1>3. PICK j \in Jobs : j = [job[k] EXCEPT !.at = "draw", !.seen = s]
  BY <1>1 DEF Jobs, Labels
<1>4. j.at = "draw" /\ j.g = job[k].g /\ j.seen = s /\ j.fresh = job[k].fresh
  BY <1>1, <1>3 DEF Jobs
<1>5. Touches(k) /\ job'[k] = j
  <2>1. job' = [job EXCEPT ![k] = j]
    BY <1>2, <1>3 DEF ListEntrants, Inv, TypeOK
  <2>2. QED
    BY <2>1, Becoming
<1>6. /\ giveaway' = giveaway /\ entries' = entries /\ timers' = timers /\ prize' = prize
      /\ drawn' = drawn /\ UNCHANGED faultVars
  BY DEF ListEntrants, giveawayVars
<1>7. PrizesAreEarned' /\ KnowsEntrants(k)'
  BY <1>2, <1>4, <1>5, <1>6 DEF RoomInv, PrizesAreEarned, RowEarned, KnowsEntrants
<1>8. \A x \in Giveaways :
        /\ Unended(x)' => Ending(k, x)' \/ (Unended(x) /\ ~Ending(k, x))
        /\ Unshipped(x)' => Unshipped(x) /\ ~Shipping(k, x)
  BY <1>1, <1>4, <1>5, <1>6 DEF Unended, Unshipped, Ending, Shipping
<1>9. RightWinners'
  <2>1. FoundWinner(k)
    BY DEF RoomInv, RightWinners
  <2>2. FoundWinner(k)'
    BY <1>1, <1>4, <1>5, <1>6, <2>1 DEF FoundWinner
  <2>3. QED
    BY <1>4, <1>5, <1>6, <2>2, RightKeeps
<1>10. QED
  BY <1>5, <1>6, <1>7, <1>8, <1>9, RoomKeeps

LEMMA EmptyRoom ==
  ASSUME Inv, RoomInv, NEW k \in Slots, CloseEmpty(k)
  PROVE  RoomInv'
<1>1. job[k].at = "draw" /\ job[k].g \in Giveaways
  BY OwnJob DEF CloseEmpty, At, Fits, GiveawayLabels
<1>2. PICK g \in Giveaways : g = job[k].g
  BY <1>1
<1>3. Touches(k) /\ job'[k].at = "idle"
  BY DoneJob, IdleJob DEF CloseEmpty
<1>4. /\ entries' = entries /\ timers' = timers /\ prize' = prize /\ drawn' = drawn /\ UNCHANGED faultVars
      /\ giveaway' = IF job[k].fresh THEN [giveaway EXCEPT ![g].status = "CLOSED"] ELSE giveaway
  BY <1>2 DEF CloseEmpty
<1>5. \A x \in Giveaways :
        /\ giveaway'[x].winner = giveaway[x].winner
        /\ giveaway'[x].seed = giveaway[x].seed
        /\ x # g \/ ~job[k].fresh => giveaway'[x] = giveaway[x]
        /\ job[k].fresh => giveaway'[g].status = "CLOSED"
  BY <1>4 DEF Inv, TypeOK, GiveawayRows
<1>6. PrizesAreEarned' /\ KnowsEntrants(k)'
  BY <1>3, <1>4, <1>5 DEF RoomInv, PrizesAreEarned, RowEarned, KnowsEntrants
<1>7. \A x \in Giveaways :
        /\ Unended(x)' => Unended(x) /\ ~Ending(k, x)
        /\ Unshipped(x)' => Unshipped(x) /\ ~Shipping(k, x)
  BY <1>1, <1>2, <1>4, <1>5 DEF Unended, Unshipped, Ending, Shipping
<1>8. RightWinners'
  BY <1>3, <1>4, <1>5, RightAside
<1>9. QED
  BY <1>3, <1>4, <1>6, <1>7, <1>8, RoomKeeps

LEMMA Drawings == Inv => drawn \in Histories
BY DEF Inv, TypeOK

\* The winner is one of the entrants the handler has read.  A draw of the same
\* entrants as before finds the same winner again.
LEMMA DrawRoom ==
  ASSUME Inv, RoomInv, NEW k \in Slots, DrawWinner(k)
  PROVE  RoomInv'
<1>1. /\ job[k] \in Jobs /\ job[k].at = "draw" /\ job[k].g \in Giveaways
      /\ job[k].seen \in (SUBSET Viewers) \ {{}}
  BY OwnJob DEF DrawWinner, At, Fits, GiveawayLabels, Jobs
<1>2. PICK g \in Giveaways : g = job[k].g
  BY <1>1
<1>3. job[k].seen \subseteq entries[g]
  BY <1>1, <1>2 DEF RoomInv, KnowsEntrants
<1>4. PICK u \in Viewers : u = giveaway[g].seed[job[k].seen] /\ u \in entries[g]
  <2>1. PICK f \in Draws : f = giveaway[g].seed
    BY DEF Inv, TypeOK, GiveawayRows
  <2>2. f[job[k].seen] \in job[k].seen
    BY <1>1 DEF Draws
  <2>3. QED
    BY <1>1, <1>3, <2>1, <2>2
<1>5. /\ entries' = entries /\ timers' = timers /\ prize' = prize /\ UNCHANGED faultVars
      /\ giveaway' = IF job[k].fresh
                     THEN [giveaway EXCEPT ![g].status = "CLOSED", ![g].winner = u]
                     ELSE giveaway
  BY <1>2, <1>4 DEF DrawWinner
<1>6. /\ \A x \in Giveaways : x # g \/ ~job[k].fresh => giveaway'[x] = giveaway[x]
      /\ job[k].fresh => giveaway'[g].status = "CLOSED" /\ giveaway'[g].winner = u
  BY <1>5 DEF Inv, TypeOK, GiveawayRows
<1>7. PICK j \in Jobs : j = [job[k] EXCEPT !.at = "ship", !.u = u]
  BY <1>1 DEF Jobs, Labels
<1>8. j.at = "ship" /\ j.g = g /\ j.u = u
  BY <1>1, <1>2, <1>7 DEF Jobs
<1>9. PICK i \in {Idle, j} : job' = [job EXCEPT ![k] = i] /\ (u # Seller => i = j)
                              /\ (u = Seller => i = Idle)
  BY <1>2, <1>4, <1>7 DEF DrawWinner, Inv, TypeOK
<1>10. Touches(k) /\ job'[k] = i
  BY <1>9, IdleJob, Becoming
<1>11. PrizesAreEarned'
  BY <1>4, <1>5, <1>6 DEF RoomInv, PrizesAreEarned, RowEarned
<1>12. KnowsEntrants(k)'
  BY <1>4, <1>5, <1>8, <1>9, <1>10, IdleJob DEF KnowsEntrants
<1>13. \A x \in Giveaways : Unended(x)' => Unended(x) /\ ~Ending(k, x)
  BY <1>1, <1>2, <1>5, <1>6 DEF Unended, Ending
<1>14. \A x \in Giveaways : Unshipped(x)' => Shipping(k, x)' \/ (Unshipped(x) /\ ~Shipping(k, x))
  <2>1. \A x \in Giveaways : ~Shipping(k, x)
    BY <1>1 DEF Shipping
  <2>2. u # Seller => Shipping(k, g)'
    BY <1>8, <1>9, <1>10 DEF Shipping
  <2>3. \A x \in Giveaways : Unshipped(x)' => Unshipped(x) \/ (x = g /\ u # Seller)
    BY <1>5, <1>6 DEF Unshipped
  <2>4. QED
    BY <2>1, <2>2, <2>3
<1>15. drawn' = [drawn EXCEPT ![g] = @ \cup {job[k].seen}]
  BY <1>2 DEF DrawWinner
<1>16. ASSUME NEW x \in Giveaways, Frozen(x)'
      PROVE  SameWinner(x)'
  <2>1. /\ \A h \in Slots : Shipping(h, x) => job[h].u # None
        /\ SameWinner(x) /\ FoundWinner(k)
    BY LiveRoomAssumption DEF RoomInv, PrizesAreEarned, RowEarned, KnowsEntrants, RightWinners,
      Shipping
  <2>2. CASE x # g
    <3>1. drawn'[x] = drawn[x] /\ giveaway'[x] = giveaway[x] /\ prize'[x] = prize[x]
      BY <1>5, <1>6, <1>15, <2>2, Drawings DEF Histories
    <3>2. \A h \in Slots : Shipping(h, x)' => Shipping(h, x) /\ job'[h] = job[h]
      BY <1>8, <1>9, <1>10, <2>2, IdleJob DEF Shipping, Touches
    <3>3. QED
      BY <1>16, <2>1, <3>1, <3>2 DEF SameWinner, Frozen
  <2>3. CASE x = g
    <3>1. job[k].seen \in drawn'[g] /\ drawn[g] \subseteq drawn'[g]
      BY <1>15, Drawings DEF Histories
    <3>2. Frozen(g) /\ \A t \in drawn[g] : t = job[k].seen
      BY <1>16, <2>3, <3>1 DEF Frozen
    <3>3. giveaway[g].winner \in {None, u} /\ (~job[k].fresh => giveaway[g].winner = u)
      BY <1>1, <1>2, <1>4, <2>1, <2>3, <3>2 DEF SameWinner, FoundWinner
    <3>4. giveaway'[g].winner = u /\ u = giveaway'[g].seed[job[k].seen]
      <4>1. giveaway'[g].seed = giveaway[g].seed
        <5>1. DOMAIN giveaway = Giveaways /\ giveaway[g] \in GiveawayRows
          BY DEF Inv, TypeOK
        <5>2. job[k].fresh =>
                giveaway'[g] = [giveaway[g] EXCEPT !.status = "CLOSED", !.winner = u]
          BY <1>5, <5>1
        <5>3. QED
          BY <1>6, <5>1, <5>2 DEF GiveawayRows
      <4>2. giveaway'[g].winner = u
        BY <1>6, <3>3
      <4>3. QED
        BY <1>4, <4>1, <4>2
    <3>5. prize'[g] \in {None, u}
      BY <1>5, <2>1, <2>3, <3>2, <3>3 DEF SameWinner
    <3>6. \A h \in Slots : Shipping(h, g)' => job'[h].u = u
      <4>1. \A h \in Slots \ {k} : Shipping(h, g)' => Shipping(h, g) /\ job'[h] = job[h]
        BY <1>10 DEF Shipping, Touches
      <4>2. \A h \in Slots : Shipping(h, g) => job[h].u = u
        BY <2>1, <2>3, <3>2, <3>3 DEF SameWinner
      <4>3. Shipping(k, g)' => job'[k].u = u
        BY <1>8, <1>9, <1>10, IdleJob DEF Shipping
      <4>4. QED
        BY <4>1, <4>2, <4>3
    <3>7. QED
      BY <2>3, <3>1, <3>4, <3>5, <3>6 DEF SameWinner
  <2>4. QED
    BY <2>2, <2>3
<1>17. \A h \in Slots : FoundWinner(h)'
  <2>1. \A x \in Giveaways : giveaway[x].winner # None => giveaway'[x].winner # None
    BY <1>6, LiveRoomAssumption
  <2>2. \A h \in Slots \ {k} : job'[h] = job[h] /\ FoundWinner(h)
                 /\ (job[h].at \in {"list", "draw"} => job[h].g \in Giveaways)
    BY <1>10, OwnJob DEF RoomInv, RightWinners, Touches, Fits, GiveawayLabels
  <2>3. FoundWinner(k)'
    BY <1>8, <1>9, <1>10, IdleJob DEF FoundWinner
  <2>4. QED
    BY <2>1, <2>2, <2>3 DEF FoundWinner
<1>18. RightWinners'
  BY <1>16, <1>17 DEF RightWinners, SameWinner
<1>19. QED
  BY <1>5, <1>10, <1>11, <1>12, <1>13, <1>14, <1>18, RoomKeeps

LEMMA ShipRoom ==
  ASSUME Inv, RoomInv, NEW k \in Slots, ShipPrize(k)
  PROVE  RoomInv'
<1>1. job[k].at = "ship" /\ job[k].g \in Giveaways /\ job[k].u \in Viewers
  BY OwnJob DEF ShipPrize, At, Fits, GiveawayLabels
<1>2. PICK g \in Giveaways, u \in Viewers : g = job[k].g /\ u = job[k].u
  BY <1>1
<1>3. u \in entries[g] \ {Seller} /\ u # None
  BY <1>1, <1>2, LiveRoomAssumption DEF RoomInv, KnowsEntrants
<1>4. Touches(k) /\ job'[k].at = "idle"
  BY DoneJob, IdleJob DEF ShipPrize
<1>5. /\ giveaway' = giveaway /\ entries' = entries /\ timers' = timers /\ UNCHANGED faultVars
      /\ prize' = [prize EXCEPT ![g] = ShipTo(g, u)]
  BY <1>2 DEF ShipPrize
<1>6. \A x \in Giveaways :
        /\ x # g => prize'[x] = prize[x]
        /\ prize'[g] \in {u, prize[g]} /\ prize'[g] # None
  BY <1>3, <1>5 DEF ShipTo, Inv, TypeOK
<1>7. PrizesAreEarned'
  BY <1>3, <1>5, <1>6 DEF RoomInv, PrizesAreEarned, RowEarned
<1>8. KnowsEntrants(k)'
  BY <1>4 DEF KnowsEntrants
<1>9. \A x \in Giveaways :
        /\ Unended(x)' => Unended(x) /\ ~Ending(k, x)
        /\ Unshipped(x)' => Unshipped(x) /\ ~Shipping(k, x)
  BY <1>1, <1>2, <1>5, <1>6 DEF Unended, Unshipped, Ending, Shipping
<1>10. RightWinners'
  <2>1. \A x \in Giveaways : SameWinner(x)
    BY DEF RoomInv, RightWinners
  <2>2. Frozen(g) => u = giveaway[g].winner
    BY <1>1, <1>2, <2>1 DEF SameWinner, Shipping
  <2>3. \A x \in Giveaways : Frozen(x) => prize'[x] \in {None, giveaway[x].winner}
    BY <1>6, <2>1, <2>2 DEF SameWinner
  <2>4. drawn' = drawn
    BY DEF ShipPrize
  <2>5. \A x \in Giveaways, h \in Slots : Shipping(h, x)' => Shipping(h, x) /\ job'[h] = job[h]
    BY <1>4 DEF Shipping, Touches
  <2>6. \A x \in Giveaways : SameWinner(x)'
    BY <1>5, <2>1, <2>3, <2>4, <2>5 DEF SameWinner, Frozen
  <2>7. \A h \in Slots : FoundWinner(h)'
    BY <1>4, <1>5 DEF RoomInv, RightWinners, FoundWinner, Touches
  <2>8. QED
    BY <2>6, <2>7 DEF RightWinners
<1>11. QED
  BY <1>4, <1>5, <1>7, <1>8, <1>9, <1>10, RoomKeeps

-----------------------------------------------------------------------------
(* The other steps.                                                        *)

\* A statement of the wheel that goes on to another or ends.
LEMMA WheelRoom ==
  ASSUME Inv, RoomInv, NEW k \in Slots, UNCHANGED <<giveawayVars, faultVars>>,
         job[k].at \notin GiveawayLabels,
         Done(k) \/ \E at \in Labels \ GiveawayLabels : GoTo(k, at)
  PROVE  RoomInv'
<1>1. Touches(k) /\ job'[k].at \notin GiveawayLabels
  <2>1. CASE Done(k)
    BY <2>1, DoneJob, IdleJob DEF GiveawayLabels
  <2>2. ASSUME NEW at \in Labels \ GiveawayLabels, GoTo(k, at)
        PROVE  Touches(k) /\ job'[k].at \notin GiveawayLabels
    BY <2>2, GoToJob
  <2>3. QED
    BY <2>1, <2>2
<1>2. QED
  BY <1>1, AsideRoom

LEMMA SellerRoom ==
  ASSUME Inv, RoomInv, NEW k \in Slots,
         \/ \E pool \in Pools : SetWheel(k, pool)
         \/ CountSold(k) \/ WritePool(k) \/ StartFromListing(k) \/ StartAuction(k)
  PROVE  RoomInv'
<1>1. ASSUME NEW pool \in Pools, SetWheel(k, pool)
      PROVE  RoomInv'
  <2>1. pool \in [Prizes -> Nat]
    BY LiveRoomAssumption
  <2>2. PICK j \in Jobs : j = [Idle EXCEPT !.at = "count", !.pool = pool]
    BY <2>1, IdleJob DEF Idle, Jobs, Labels
  <2>3. j.at = "count" /\ job[k].at = "idle" /\ job' = [job EXCEPT ![k] = j]
    BY <1>1, <2>2, IdleJob DEF SetWheel, Free, Jobs
  <2>4. Touches(k) /\ job'[k] = j
    BY <2>3, Becoming
  <2>5. UNCHANGED <<giveawayVars, faultVars>>
    BY <1>1 DEF SetWheel, wheelVars
  <2>6. QED
    BY <2>3, <2>4, <2>5, AsideRoom DEF GiveawayLabels
<1>2. CASE CountSold(k) \/ WritePool(k) \/ StartFromListing(k) \/ StartAuction(k)
  <2>1. job[k].at \in {"count", "write", "idle", "start"}
    BY <1>2, IdleJob DEF CountSold, WritePool, StartFromListing, StartAuction, At, Free
  <2>2. Done(k) \/ GoTo(k, "write") \/ GoTo(k, "start")
    BY <1>2 DEF CountSold, WritePool, StartFromListing, StartAuction
  <2>3. UNCHANGED <<giveawayVars, faultVars>>
    BY <1>2 DEF CountSold, WritePool, StartFromListing, StartAuction
  <2>4. QED
    BY <2>1, <2>2, <2>3, WheelRoom DEF Labels, GiveawayLabels
<1>3. QED
  BY <1>1, <1>2

LEMMA SettlementRoom ==
  ASSUME Inv, RoomInv, NEW x \in Slots,
         \/ CloseWon(x) \/ ReadWheel(x) \/ CreateOrder(x) \/ CountUnit(x) \/ Requeue(x)
         \/ CreateItem(x) \/ Spin(x) \/ RecordPrize(x) \/ ConsumePrize(x)
  PROVE  RoomInv'
<1>1. UNCHANGED <<giveawayVars, faultVars>>
  BY DEF CloseWon, ReadWheel, CreateOrder, CountUnit, Requeue, CreateItem, Spin,
    RecordPrize, ConsumePrize
<1>2. job[x].at \in Settling \cup {"idle"} /\ job[x].at \notin GiveawayLabels
  BY IdleJob DEF CloseWon, ReadWheel, CreateOrder, CountUnit, Requeue, CreateItem, Spin,
    RecordPrize, ConsumePrize, At, Free, Settling, Past, Late, GiveawayLabels
<1>3. job[x] \in Jobs
  BY OwnJob
<1>4. CASE \/ CloseWon(x) \/ CreateOrder(x) \/ Requeue(x) \/ CreateItem(x) \/ RecordPrize(x)
           \/ ConsumePrize(x)
  <2>1. Done(x) \/ \E at \in {"read", "unit", "goods", "spin", "consume"} : GoTo(x, at)
    BY <1>4 DEF CloseWon, CreateOrder, Requeue, CreateItem, RecordPrize, ConsumePrize
  <2>2. QED
    BY <1>1, <1>2, <2>1, WheelRoom DEF Labels, GiveawayLabels
<1>5. CASE ReadWheel(x)
  <2>1. PICK w \in [Prizes -> Nat] : w = wheel
    BY DEF Inv, TypeOK
  <2>2. PICK j \in Jobs : j = [job[x] EXCEPT !.at = "order", !.pool = w]
    BY <1>3 DEF Jobs, Labels
  <2>3. j.at = "order" /\ job' = [job EXCEPT ![x] = j]
    BY <1>3, <1>5, <2>1, <2>2 DEF ReadWheel, Inv, TypeOK, Jobs
  <2>4. QED
    BY <1>1, <1>2, <2>3, Becoming, AsideRoom DEF GiveawayLabels
<1>6. CASE CountUnit(x)
  <2>1. PICK n \in Int : n = quantity - 1
    BY Numbers
  <2>2. PICK j \in Jobs : j = [job[x] EXCEPT !.at = "requeue", !.left = n]
    BY <1>3 DEF Jobs, Labels
  <2>3. j.at = "requeue" /\ job' = [job EXCEPT ![x] = j]
    BY <1>3, <1>6, <2>1, <2>2 DEF CountUnit, Inv, TypeOK, Jobs
  <2>4. QED
    BY <1>1, <1>2, <2>3, Becoming, AsideRoom DEF GiveawayLabels
<1>7. CASE Spin(x)
  <2>1. CASE Done(x)
    BY <1>1, <1>2, <2>1, WheelRoom
  <2>2. ASSUME NEW p \in Prizes, job' = [job EXCEPT ![x].at = "label", ![x].p = p]
        PROVE  RoomInv'
    <3>1. PICK j \in Jobs : j = [job[x] EXCEPT !.at = "label", !.p = p]
      BY <1>3 DEF Jobs, Labels
    <3>2. j.at = "label" /\ job' = [job EXCEPT ![x] = j]
      BY <1>3, <2>2, <3>1 DEF Inv, TypeOK, Jobs
    <3>3. QED
      BY <1>1, <1>2, <3>2, Becoming, AsideRoom DEF GiveawayLabels
  <2>3. QED
    BY <1>7, <2>1, <2>2 DEF Spin
<1>8. QED
  BY <1>4, <1>5, <1>6, <1>7

LEMMA FailRoom ==
  ASSUME Inv, RoomInv, NEW k \in Slots, Fail(k)
  PROVE  RoomInv'
<1>1. errors' + crashes' # 0 /\ errors' # 0
  <2>1. errors' = errors + 1 /\ crashes' = crashes
    BY DEF Fail
  <2>2. QED
    BY <2>1, Numbers
<1>2. OpenInHand' /\ PrizesMinded'
  BY <1>1 DEF OpenInHand, PrizesMinded
<1>3. giveaway' = giveaway /\ entries' = entries /\ prize' = prize
  BY DEF Fail, giveawayVars
<1>4. PrizesAreEarned'
  BY <1>3 DEF RoomInv, PrizesAreEarned, RowEarned
<1>5. Touches(k) /\ job'[k].at \in {"idle", "spin", "consume"}
  <2>1. Done(k) \/ GoTo(k, "spin") \/ GoTo(k, "consume")
    BY DEF Fail
  <2>2. QED
    BY <2>1, DoneJob, IdleJob, GoToJob DEF Labels
<1>6. \A h \in Slots : KnowsEntrants(h)'
  BY <1>3, <1>5 DEF RoomInv, KnowsEntrants, Touches
<1>7. RightWinners'
  <2>1. drawn' = drawn
    BY DEF Fail, giveawayVars
  <2>2. QED
    BY <1>3, <1>5, <2>1, RightAside
<1>8. QED
  BY <1>2, <1>4, <1>6, <1>7 DEF RoomInv

LEMMA CrashRoom ==
  ASSUME Inv, RoomInv, Crash
  PROVE  RoomInv'
<1>1. errors' + crashes' # 0 /\ up' = FALSE
  <2>1. crashes' = crashes + 1 /\ errors' = errors
    BY DEF Crash
  <2>2. QED
    BY <2>1, Numbers DEF Crash
<1>2. OpenInHand' /\ PrizesMinded'
  BY <1>1 DEF OpenInHand, PrizesMinded
<1>3. PrizesAreEarned'
  BY DEF Crash, RoomInv, PrizesAreEarned, RowEarned
<1>4. \A h \in Slots : KnowsEntrants(h)'
  BY IdleJob DEF Crash, KnowsEntrants
<1>5. RightWinners'
  <2>1. \A h \in Slots : job'[h].at = "idle"
    BY IdleJob DEF Crash
  <2>2. giveaway' = giveaway /\ prize' = prize /\ drawn' = drawn
    BY DEF Crash
  <2>3. \A g \in Giveaways : SameWinner(g)'
    BY <2>1, <2>2 DEF RoomInv, RightWinners, SameWinner, Frozen, Shipping
  <2>4. \A h \in Slots : FoundWinner(h)'
    BY <2>1 DEF FoundWinner
  <2>5. QED
    BY <2>3, <2>4 DEF RightWinners
<1>6. QED
  BY <1>2, <1>3, <1>4, <1>5 DEF RoomInv

\* The backfill makes the prizes that crashed draws left behind.
LEMMA BootRoom ==
  ASSUME Inv, RoomInv, Boot
  PROVE  RoomInv'
<1>1. /\ giveaway' = giveaway /\ entries' = entries /\ timers' = timers /\ job' = job
      /\ crashes' = crashes /\ prize' \in {prize, Backfill}
      /\ (errors' = errors /\ prize' = Backfill) \/ errors' = errors + 1
  BY DEF Boot
<1>2. errors \in Nat /\ crashes \in Nat
  BY Numbers
<1>3. \A g \in Giveaways :
        /\ prize'[g] \in {prize[g], giveaway[g].winner}
        /\ prize'[g] # prize[g] => giveaway[g].winner \notin {None, Seller}
        /\ prize' = Backfill => ~Unshipped(g)'
  BY <1>1 DEF Backfill, ShipTo, Unshipped, RoomInv, PrizesAreEarned, RowEarned
<1>4. PrizesAreEarned'
  BY <1>1, <1>3 DEF RoomInv, PrizesAreEarned, RowEarned
<1>5. \A h \in Slots : KnowsEntrants(h)'
  BY <1>1 DEF RoomInv, KnowsEntrants
<1>6. OpenInHand'
  <2>1. errors' + crashes' = 0 => errors + crashes = 0
    BY <1>1, <1>2
  <2>2. QED
    BY <1>1, <2>1 DEF RoomInv, OpenInHand, Unended, Ending
<1>7. PrizesMinded'
  <2>1. errors' = 0 => prize' = Backfill
    BY <1>1, <1>2
  <2>2. QED
    BY <1>3, <2>1 DEF PrizesMinded
<1>8. RightWinners'
  <2>1. drawn' = drawn
    BY DEF Boot
  <2>2. \A g \in Giveaways : SameWinner(g)'
    BY <1>1, <1>3, <2>1 DEF RoomInv, RightWinners, SameWinner, Frozen, Shipping
  <2>3. \A h \in Slots : FoundWinner(h)'
    BY <1>1 DEF RoomInv, RightWinners, FoundWinner
  <2>4. QED
    BY <2>2, <2>3 DEF RightWinners
<1>9. QED
  BY <1>4, <1>5, <1>6, <1>7, <1>8 DEF RoomInv

LEMMA RoomInit == Init => RoomInv
<1> SUFFICES ASSUME Init PROVE RoomInv
  OBVIOUS
<1>1. \A g \in Giveaways : /\ giveaway[g].winner = None /\ giveaway[g].status # "OPEN"
                           /\ entries[g] = {} /\ prize[g] = None
  BY DEF Init
<1>2. \A k \in Slots : job[k].at = "idle"
  BY IdleJob DEF Init
<1>3. RightWinners
  BY <1>1, <1>2 DEF RightWinners, SameWinner, FoundWinner, Shipping
<1>4. QED
  BY <1>1, <1>2, <1>3 DEF RoomInv, PrizesAreEarned, RowEarned, OpenInHand, Unended, PrizesMinded,
    Unshipped, KnowsEntrants

LEMMA RoomStepInv == Inv /\ RoomInv /\ [Next]_vars => RoomInv'
<1> SUFFICES ASSUME Inv, RoomInv, [Next]_vars PROVE RoomInv'
  OBVIOUS
<1>1. CASE UNCHANGED vars
  BY <1>1, StillRoom DEF vars, giveawayVars
<1>2. ASSUME NEW k \in Requests, Request(k)
      PROVE  RoomInv'
  <2>1. k \in Slots
    BY DEF Slots
  <2>2. ASSUME NEW g \in Giveaways, DrawByHand(k, g)
        PROVE  RoomInv'
    BY <2>1, <2>2, ReadRoom DEF DrawByHand
  <2>3. QED
    BY <1>2, <2>1, <2>2, OpenRoom, EnterRoom, SellerRoom DEF Request
<1>3. ASSUME NEW g \in Giveaways, DrawByTimer(g)
      PROVE  RoomInv'
  BY <1>3, ReadRoom DEF DrawByTimer, Slots
<1>4. ASSUME NEW k \in Slots, Step(k)
      PROVE  RoomInv'
  BY <1>4, AnnounceRoom, InsertRoom, ListRoom, EmptyRoom, DrawRoom, ShipRoom, SellerRoom,
     SettlementRoom DEF Step
<1>5. ASSUME NEW g \in Giveaways, WindowCloses(g)
      PROVE  RoomInv'
  BY <1>5, StillRoom DEF WindowCloses
<1>6. ASSUME NEW x \in Auctions, CloseUnsold(x)
      PROVE  RoomInv'
  BY <1>6, StillRoom DEF CloseUnsold, giveawayVars
<1>7. ASSUME NEW x \in Auctions, CloseWon(x)
      PROVE  RoomInv'
  BY <1>7, SettlementRoom DEF Slots
<1>8. QED
  BY <1>1, <1>2, <1>3, <1>4, <1>5, <1>6, <1>7, FailRoom, CrashRoom, BootRoom DEF Next

LEMMA RoomInvariance == Spec => []RoomInv
BY Invariance, RoomInit, RoomStepInv, PTL DEF Spec

\* A winner on record entered the giveaway while eligible, and so did whoever has its
\* prize to be shipped, who is never the seller, however draws by timer and by hand,
\* late entries, errors, restarts and the backfill overlap (giveaways.ts:97-280).
THEOREM PrizesAlwaysEarned == Spec => []PrizesAreEarned
<1>1. RoomInv => PrizesAreEarned
  BY DEF RoomInv
<1>2. QED
  BY <1>1, RoomInvariance, PTL

\* Unless something failed, a giveaway that is open has its timer armed, or a handler
\* about to arm it or to close the giveaway, so that nobody has to remember it
\* (realtime/server.ts:262-275).
THEOREM OpenAlwaysInHand == Spec => []OpenInHand
<1>1. RoomInv => OpenInHand
  BY DEF RoomInv
<1>2. QED
  BY <1>1, RoomInvariance, PTL

\* A winner on record has the prize as an item to ship, or, as long as the process
\* is up and nothing has failed, a handler about to make it out to that winner, and
\* nobody else has it, whatever crashed before and however often the giveaway was
\* drawn, as long as its draws read the same entrants (giveaways.ts:154-277).
THEOREM PrizesAlwaysInHand == Spec => []PrizesInHand
<1>1. ASSUME RoomInv, NEW g \in Giveaways, Frozen(g), giveaway[g].winner \notin {None, Seller}
      PROVE  \/ prize[g] = giveaway[g].winner
             \/ prize[g] = None /\ (up /\ errors = 0 => InHand(g))
  <2>1. /\ prize[g] \in {None, giveaway[g].winner}
        /\ \A k \in Slots : Shipping(k, g) => job[k].u = giveaway[g].winner
    BY <1>1 DEF RoomInv, RightWinners, SameWinner
  <2>2. up /\ errors = 0 /\ prize[g] = None => \E k \in Slots : Shipping(k, g)
    BY <1>1 DEF RoomInv, PrizesMinded, Unshipped
  <2>3. QED
    BY <2>1, <2>2 DEF InHand
<1>2. RoomInv => PrizesInHand
  BY <1>1 DEF PrizesInHand
<1>3. QED
  BY <1>2, RoomInvariance, PTL

=============================================================================
