------------------------------- MODULE Fanout -------------------------------
(***************************************************************************)
(* How a live auction reaches the people who watch it (realtime/server.ts, *)
(* bus.ts): sockets join the seller's room, the process subscribes to the  *)
(* room's channel once and counts who needs it, handlers publish what they *)
(* read, and a page shows what it heard last (web/src/realtime.ts and      *)
(* BidPanel.tsx).                                                          *)
(*                                                                         *)
(* Every await is a step.  There is one room, and one auction on its block *)
(* at a time.  A frame the rate limit drops is one that was not sent.      *)
(***************************************************************************)
EXTENDS Integers, FiniteSets

CONSTANTS
  Tabs,         \* pages that watch the room
  Frames,       \* bound: SUBSCRIBE frames being handled at the same time
  Sender,       \* the tab of a frame
  Requests,     \* bound: bids and starts being handled at the same time
  MaxAuctions, MaxBids, MaxMishaps \* bounds

Auctions == 1..MaxAuctions
Slots == Frames \cup Requests \cup Auctions

ASSUME FanoutAssumption ==
  /\ IsFiniteSet(Tabs) /\ IsFiniteSet(Frames)
  /\ Sender \in [Frames -> Tabs]
  /\ Frames \cap (Requests \cup Auctions) = {} /\ Requests \cap Auctions = {}
  /\ {MaxAuctions, MaxBids, MaxMishaps} \subseteq Nat

VARIABLES
  auction,      \* the rows: status and currentBid, bids being numbered
  old,          \* the last close is further back than CLOSE_REPLAY_WINDOW_MS
  online,       \* tabs whose socket is open
  joined,       \* tabs in localRooms, and the room in their conn.rooms
  ghost,        \* a tab's earlier connection that onDisconnect has yet to see
  bus,          \* handlers registered on the room's channel
  sub,          \* refCount of the channel's entry in busSubs; 0: no entry
  job,          \* in memory: a handler and what it has read
  panel,        \* what a page shows
  told,         \* history: the latest auction whose close a page has heard of
  mishaps,      \* sockets that dropped or left, and faults
  failed        \* history: a query threw

roomVars  == <<joined, ghost, bus, sub>>
pageVars  == <<panel, told>>
rowVars   == <<auction, old>>
faultVars == <<mishaps, failed>>
vars == <<rowVars, online, roomVars, job, pageVars, faultVars>>

-----------------------------------------------------------------------------
(* Types.                                                                  *)

\* SETTLING and CLOSED are one to everybody here.
Rows == [status : {"NONE", "RUNNING", "CLOSED"}, bid : 0..MaxBids]

\* AUCTION_STATE, and what a page makes of it; n = 0 is an empty page.
States == [n : 0..MaxAuctions, status : {"NONE", "RUNNING", "CLOSED"}, bid : 0..MaxBids]
Empty == [n |-> 0, status |-> "NONE", bid |-> 0]

\* The statement a handler has come to: of a SUBSCRIBE, of a bid or a start,
\* of onAuctionsClosed.
Labels == {"idle", "valid", "record", "list", "state", "send", "recent", "replay",
           "read", "accepted", "publish", "announce", "closed", "ended"}
Jobs == [at : Labels, n : 0..MaxAuctions, first : BOOLEAN, live : BOOLEAN, seen : States,
         bid : 0..MaxBids]
Idle == [at |-> "idle", n |-> 0, first |-> FALSE, live |-> FALSE, seen |-> Empty, bid |-> 0]

Init ==
  /\ auction = [n \in Auctions |-> [status |-> "NONE", bid |-> 0]]
  /\ old = FALSE
  /\ online = {} /\ joined = {}
  /\ ghost = [t \in Tabs |-> "none"]
  /\ bus = 0 /\ sub = 0
  /\ job = [k \in Slots |-> Idle]
  /\ panel = [t \in Tabs |-> Empty] /\ told = [t \in Tabs |-> 0]
  /\ mishaps = 0 /\ failed = FALSE

-----------------------------------------------------------------------------
(* Helpers.                                                                *)

At(k, at) == job[k].at = at
GoTo(k, at) == job' = [job EXCEPT ![k].at = at]
Done(k) == job' = [job EXCEPT ![k] = Idle]
\* What is counted as a mishap is bounded.
Mishap == mishaps < MaxMishaps

Running == {n \in Auctions : auction[n].status = "RUNNING"}

\* buildAuctionState.
StateOf(n) == [n |-> n, status |-> auction[n].status, bid |-> auction[n].bid]

\* onState replaces what the page shows; onBid and onClosed change it,
\* whichever auction they are about.
OnState(p, s) == s
OnBid(p, b) == IF p.n = 0 THEN p ELSE [p EXCEPT !.bid = b]
OnClosed(p) == IF p.n = 0 THEN p ELSE [p EXCEPT !.status = "CLOSED"]

\* publish, deliverToRoom: one delivery has the effect of several.
Hearers == IF bus > 0 THEN joined \cap online ELSE {}

-----------------------------------------------------------------------------
(* Connections.                                                            *)

\* onConnection, its set-up, and the ticket before it.
Open(t) ==
  /\ t \notin online
  /\ online' = online \cup {t}
  /\ UNCHANGED <<rowVars, roomVars, job, pageVars, faultVars>>

Joining == {"valid", "record"}

\* The socket drops. A frame that is still to join, or to record the
\* subscription, does so without it; what others would send goes nowhere. One
\* earlier connection of a page at a time is a bound.
Drop(t) ==
  /\ t \in online /\ ghost[t] = "none" /\ Mishap
  /\ \A k \in Frames : Sender[k] = t /\ job[k].at \in Joining => job[k].live
  /\ online' = online \ {t} /\ joined' = joined \ {t}
  /\ ghost' = [ghost EXCEPT ![t] = IF t \in joined THEN "in" ELSE "out"]
  /\ job' = [k \in Slots |->
       IF k \notin Frames THEN job[k]
       ELSE IF Sender[k] # t THEN job[k]
       ELSE IF job[k].at \in Joining THEN [job[k] EXCEPT !.live = FALSE]
       ELSE Idle]
  /\ mishaps' = mishaps + 1
  /\ UNCHANGED <<rowVars, bus, sub, pageVars, failed>>

\* Slip: the count is not looked at.
ReleaseAnyway ==
  /\ sub' = 0
  /\ bus' = IF sub > 0 THEN bus - 1 ELSE bus

\* releaseSub: the last one out takes the entry's own handler off the bus.
ReleaseSub ==
  /\ sub' = IF sub > 0 THEN sub - 1 ELSE 0
  /\ bus' = IF sub = 1 THEN bus - 1 ELSE bus

\* onDisconnect.
Depart(t) ==
  /\ ghost[t] # "none"
  /\ ghost' = [ghost EXCEPT ![t] = "none"]
  /\ IF ghost[t] = "in" THEN ReleaseSub ELSE UNCHANGED <<bus, sub>>
  /\ UNCHANGED <<rowVars, online, joined, job, pageVars, faultVars>>

Unsubscribe(t) ==
  /\ t \in joined \cap online /\ Mishap
  /\ joined' = joined \ {t}
  /\ ReleaseSub
  /\ mishaps' = mishaps + 1
  /\ UNCHANGED <<rowVars, online, ghost, job, pageVars, failed>>

-----------------------------------------------------------------------------
(* SUBSCRIBE: on opening, and every twelve seconds.                        *)

\* Slip: a SUBSCRIBE of a room one is in does nothing.
SubscribeOnce(k) ==
  LET t == Sender[k] IN
  /\ At(k, "idle") /\ t \in online \ joined
  /\ job' = [job EXCEPT ![k] = [Idle EXCEPT !.at = "valid", !.first = TRUE, !.live = TRUE]]
  /\ UNCHANGED <<rowVars, online, roomVars, pageVars, faultVars>>

Subscribe(k) ==
  LET t == Sender[k] IN
  /\ At(k, "idle") /\ t \in online
  /\ job' = [job EXCEPT ![k] = [Idle EXCEPT !.at = IF t \in joined THEN "list" ELSE "valid",
                                            !.first = t \notin joined, !.live = TRUE]]
  /\ UNCHANGED <<rowVars, online, roomVars, pageVars, faultVars>>

GoOn(k) == IF job[k].live THEN GoTo(k, "list") ELSE Done(k)

\* After isValidRoom, whether the socket is still there or not. ensureSub:
\* the first one in registers a handler and records it when that is through.
Join(k) ==
  LET t == Sender[k] IN
  /\ At(k, "valid")
  /\ joined' = IF job[k].live THEN joined \cup {t} ELSE joined
  /\ ghost' = IF ~job[k].live /\ ghost[t] = "out" THEN [ghost EXCEPT ![t] = "in"] ELSE ghost
  /\ IF sub > 0
     THEN sub' = sub + 1 /\ UNCHANGED bus /\ GoOn(k)
     ELSE bus' = bus + 1 /\ UNCHANGED sub /\ GoTo(k, "record")
  /\ UNCHANGED <<rowVars, online, pageVars, faultVars>>

\* An entry another first one has recorded meanwhile is overwritten.
RecordSub(k) ==
  /\ At(k, "record")
  /\ sub' = 1
  /\ GoOn(k)
  /\ UNCHANGED <<rowVars, online, joined, ghost, bus, pageVars, faultVars>>

ListRunning(k) ==
  /\ At(k, "list")
  /\ \/ \E n \in Running : job' = [job EXCEPT ![k] = [Idle EXCEPT !.at = "state", !.n = n]]
     \/ Running = {} /\ job[k].first /\ job' = [job EXCEPT ![k] = [Idle EXCEPT !.at = "recent"]]
     \/ Running = {} /\ ~job[k].first /\ Done(k)
  /\ UNCHANGED <<rowVars, online, roomVars, pageVars, faultVars>>

ReadState(k) ==
  /\ At(k, "state")
  /\ job' = [job EXCEPT ![k] = [Idle EXCEPT !.at = "send", !.seen = StateOf(job[k].n)]]
  /\ UNCHANGED <<rowVars, online, roomVars, pageVars, faultVars>>

SendState(k) ==
  /\ At(k, "send")
  /\ panel' = [panel EXCEPT ![Sender[k]] = OnState(@, job[k].seen)]
  /\ Done(k)
  /\ UNCHANGED <<rowVars, online, roomVars, told, faultVars>>

\* Slip: only what is running is sent.
ReadNoRecent(k) ==
  /\ At(k, "recent")
  /\ Done(k)
  /\ UNCHANGED <<rowVars, online, roomVars, pageVars, faultVars>>

\* The catch-up: the most recent close, unless it is too long ago.
ReadRecent(k) ==
  LET closed == {n \in Auctions : auction[n].status = "CLOSED"} IN
  /\ At(k, "recent")
  /\ IF closed = {} \/ old THEN Done(k)
     ELSE \E n \in closed : /\ \A m \in closed : m <= n
                            /\ job' = [job EXCEPT ![k].at = "replay", ![k].n = n]
  /\ UNCHANGED <<rowVars, online, roomVars, pageVars, faultVars>>

SendReplay(k) ==
  LET t == Sender[k] IN
  /\ At(k, "replay")
  /\ panel' = [panel EXCEPT ![t] = OnClosed(@)]
  /\ told' = [told EXCEPT ![t] = IF job[k].n > @ THEN job[k].n ELSE @]
  /\ Done(k)
  /\ UNCHANGED <<rowVars, online, roomVars, faultVars>>

-----------------------------------------------------------------------------
(* What the room is told.                                                  *)

\* startAuctionFromListing.
StartAuction(k, n) ==
  /\ At(k, "idle") /\ Running = {}
  /\ auction[n].status = "NONE" /\ \A m \in 1..(n - 1) : auction[m].status = "CLOSED"
  /\ auction' = [auction EXCEPT ![n].status = "RUNNING"]
  /\ job' = [job EXCEPT ![k] = [Idle EXCEPT !.at = "announce", !.n = n]]
  /\ UNCHANGED <<old, online, roomVars, pageVars, faultVars>>

\* placeBid, once it is committed.
Bid(k, n) ==
  /\ At(k, "idle")
  /\ n \in Running /\ auction[n].bid < MaxBids
  /\ auction' = [auction EXCEPT ![n].bid = @ + 1]
  /\ job' = [job EXCEPT ![k] = [Idle EXCEPT !.at = "read", !.n = n, !.bid = auction'[n].bid]]
  /\ UNCHANGED <<old, online, roomVars, pageVars, faultVars>>

\* buildAuctionState; its identity lookups come before anything is published.
ReadRow(k) ==
  /\ job[k].at \in {"read", "announce"}
  /\ job' = [job EXCEPT ![k].at = IF At(k, "read") THEN "accepted" ELSE "publish",
                        ![k].seen = StateOf(job[k].n), ![k].n = 0]
  /\ UNCHANGED <<rowVars, online, roomVars, pageVars, faultVars>>

PublishAccepted(k) ==
  /\ At(k, "accepted")
  /\ panel' = [t \in Tabs |-> IF t \in Hearers THEN OnBid(panel[t], job[k].bid) ELSE panel[t]]
  /\ job' = [job EXCEPT ![k].at = "publish", ![k].bid = 0]
  /\ UNCHANGED <<rowVars, online, roomVars, told, faultVars>>

PublishState(k) ==
  /\ At(k, "publish")
  /\ panel' = [t \in Tabs |-> IF t \in Hearers THEN OnState(panel[t], job[k].seen) ELSE panel[t]]
  /\ Done(k)
  /\ UNCHANGED <<rowVars, online, roomVars, told, faultVars>>

\* A scheduler pass closes the auction and hands it to onAuctionsClosed.
CloseAuction(n) ==
  /\ n \in Running
  /\ auction' = [auction EXCEPT ![n].status = "CLOSED"]
  /\ old' = FALSE
  /\ job' = [job EXCEPT ![n] = [Idle EXCEPT !.at = "closed", !.n = n]]
  /\ UNCHANGED <<online, roomVars, pageVars, faultVars>>

\* After the settlement.
PublishClosed(n) ==
  /\ At(n, "closed")
  /\ panel' = [t \in Tabs |-> IF t \in Hearers THEN OnClosed(panel[t]) ELSE panel[t]]
  /\ told' = [t \in Tabs |-> IF t \in Hearers /\ n > told[t] THEN n ELSE told[t]]
  /\ GoTo(n, "ended")
  /\ UNCHANGED <<rowVars, online, roomVars, faultVars>>

\* Its state is final.
PublishEnded(n) ==
  /\ At(n, "ended")
  /\ panel' = [t \in Tabs |-> IF t \in Hearers THEN OnState(panel[t], StateOf(n)) ELSE panel[t]]
  /\ Done(n)
  /\ UNCHANGED <<rowVars, online, roomVars, told, faultVars>>

\* No handler takes a minute.
WindowPasses ==
  /\ \A k \in Slots : At(k, "idle")
  /\ \E n \in Auctions : auction[n].status = "CLOSED"
  /\ ~old /\ old' = TRUE
  /\ UNCHANGED <<auction, online, roomVars, job, pageVars, faultVars>>

-----------------------------------------------------------------------------
(* Faults.                                                                 *)

\* A query throws: the handler ends there, and the process logs it.
Fail(k) ==
  /\ Mishap
  /\ job[k].at \notin {"idle", "record", "publish"}
  /\ Done(k)
  /\ failed' = TRUE
  /\ mishaps' = mishaps + 1
  /\ UNCHANGED <<rowVars, online, roomVars, pageVars>>

\* The process dies with its sockets and comes back empty.
Crash ==
  /\ Mishap
  /\ online' = {} /\ joined' = {}
  /\ ghost' = [t \in Tabs |-> "none"]
  /\ bus' = 0 /\ sub' = 0
  /\ job' = [k \in Slots |-> Idle]
  /\ mishaps' = mishaps + 1
  /\ UNCHANGED <<rowVars, pageVars, failed>>

-----------------------------------------------------------------------------

Handle(k) ==
  \/ Join(k) \/ RecordSub(k) \/ ListRunning(k) \/ ReadState(k) \/ SendState(k)
  \/ ReadRecent(k) \/ SendReplay(k)

Publish(k) == ReadRow(k) \/ PublishAccepted(k) \/ PublishState(k)
Announce(n) == PublishClosed(n) \/ PublishEnded(n)

Next ==
  \/ \E t \in Tabs : Open(t) \/ Drop(t) \/ Depart(t) \/ Unsubscribe(t)
  \/ \E k \in Frames : Subscribe(k) \/ Handle(k)
  \/ \E k \in Requests, n \in Auctions : StartAuction(k, n) \/ Bid(k, n)
  \/ \E k \in Requests : Publish(k)
  \/ \E n \in Auctions : CloseAuction(n) \/ Announce(n)
  \/ \E k \in Slots : Fail(k)
  \/ WindowPasses
  \/ Crash

Spec == Init /\ [][Next]_vars

\* Handlers run on; a page opens its socket again and again, and sends
\* SUBSCRIBE every twelve seconds; the server notices sockets that are gone.
Fairness ==
  /\ \A t \in Tabs : WF_vars(Open(t)) /\ WF_vars(Depart(t))
  /\ \A k \in Frames : WF_vars(Subscribe(k)) /\ WF_vars(Handle(k))
  /\ \A k \in Requests : WF_vars(Publish(k))
  /\ \A n \in Auctions : WF_vars(Announce(n))

FairSpec == Spec /\ Fairness

-----------------------------------------------------------------------------
(* Properties.                                                             *)

\* Rows, pages and handlers are in their ranges.
TypeOK ==
  /\ auction \in [Auctions -> Rows] /\ old \in BOOLEAN
  /\ online \subseteq Tabs /\ joined \subseteq Tabs
  /\ ghost \in [Tabs -> {"none", "out", "in"}]
  /\ bus \in Nat /\ sub \in Nat
  /\ job \in [Slots -> Jobs]
  /\ panel \in [Tabs -> States] /\ told \in [Tabs -> 0..MaxAuctions]
  /\ mishaps \in 0..MaxMishaps /\ failed \in BOOLEAN

\* Whoever is in the room is reached: sockets that join, leave and drop while
\* others wait for the same subscription never take the last handler off the
\* channel under somebody who stays (server.ts:924-942, bus.ts:3-5).
MembersAreServed == joined # {} => bus > 0

\* A page that watches an auction comes to show its state, whatever older
\* states overtook newer ones on their way and whatever was said while its
\* socket was down: the heartbeat brings the row (web/src/realtime.ts:324-330).
PanelsCatchUp ==
  \A t \in Tabs : []<>(\A n \in Running : panel[t] = StateOf(n))

\* Everybody hears how an auction ended, over dropped sockets and restarts,
\* unless a query failed, the next auction has begun or a minute has passed
\* (server.ts:437-456).
ResultsAreHeard ==
  \A t \in Tabs, n \in Auctions :
    (auction[n].status = "CLOSED") ~>
      (told[t] >= n \/ old \/ failed \/ \E m \in Auctions : m > n /\ auction[m].status # "NONE")

=============================================================================
