---------------------------- MODULE FanoutProofs ----------------------------
(***************************************************************************)
(* Theorems about Fanout for every set of pages, every number of frames    *)
(* handled at the same time and any number of mishaps: types, and whoever  *)
(* is in the room is reached.                                              *)
(***************************************************************************)
EXTENDS Fanout, FiniteSetTheorems, TLAPS

\* What a handler in memory may rely on.
JobsFit ==
  \A k \in Slots : job[k].at \in {"state", "read", "announce"} => job[k].n \in Auctions

\* The connections releaseSub is still to be called for, and the handlers that
\* are on the bus and not yet in busSubs.
Gone == {t \in Tabs : ghost[t] = "in"}
Recorders == {k \in Frames : job[k].at = "record"}
Entries == IF sub > 0 THEN 1 ELSE 0

\* Handlers whose entry was overwritten: nobody will take them off again.
Leaked == bus - Entries - Cardinality(Recorders)

\* Every connection in the room has its count, recorded or about to be; once
\* counts have been lost, a handler that nobody removes is on the channel.
RefInv ==
  /\ Leaked >= 0
  /\ \/ Leaked > 0
     \/ Cardinality(joined) + Cardinality(Gone) <= sub + Cardinality(Recorders)

Inv == TypeOK /\ JobsFit /\ RefInv

-----------------------------------------------------------------------------
(* Types.                                                                  *)

LEMMA Bounds == MaxAuctions \in Nat /\ MaxBids \in Nat /\ MaxMishaps \in Nat
BY FanoutAssumption

LEMMA StateTyped ==
  ASSUME TypeOK, NEW n \in Auctions
  PROVE  StateOf(n) \in States
<1>1. auction[n] \in Rows
  BY DEF TypeOK
<1>2. n \in 0..MaxAuctions
  BY Bounds DEF Auctions
<1>3. QED
  BY <1>1, <1>2 DEF StateOf, States, Rows

LEMMA IdleTyped == Idle \in Jobs /\ Empty \in States
BY Bounds DEF Idle, Jobs, Empty, States, Labels

LEMMA PagesTyped ==
  ASSUME TypeOK, NEW t \in Tabs, NEW b \in 0..MaxBids, NEW s \in States
  PROVE  /\ OnBid(panel[t], b) \in States
         /\ OnClosed(panel[t]) \in States
         /\ OnState(panel[t], s) \in States
<1>1. panel[t] \in States
  BY DEF TypeOK
<1>2. QED
  BY <1>1 DEF OnBid, OnClosed, OnState, States

LEMMA InitTyped == Init => TypeOK /\ JobsFit
<1> SUFFICES ASSUME Init PROVE TypeOK /\ JobsFit
  OBVIOUS
<1>1. [status |-> "NONE", bid |-> 0] \in Rows
  BY Bounds DEF Rows
<1>2. JobsFit
  BY DEF Init, JobsFit, Idle
<1>3. 0 \in 0..MaxAuctions /\ 0 \in 0..MaxMishaps
  BY Bounds
<1>4. TypeOK
  <2>1. auction \in [Auctions -> Rows] /\ panel \in [Tabs -> States]
    BY <1>1, IdleTyped DEF Init
  <2>2. job \in [Slots -> Jobs] /\ told \in [Tabs -> 0..MaxAuctions]
    BY <1>3, IdleTyped DEF Init
  <2>3. ghost \in [Tabs -> {"none", "out", "in"}]
    BY DEF Init
  <2>4. QED
    BY <1>3, <2>1, <2>2, <2>3 DEF Init, TypeOK
<1>5. QED
  BY <1>2, <1>4

\* A handler is replaced by one of the right type and fit.
LEMMA JobTyped ==
  ASSUME TypeOK, JobsFit, NEW k \in Slots, NEW j \in Jobs,
         j.at \in {"state", "read", "announce"} => j.n \in Auctions,
         job' = [job EXCEPT ![k] = j]
  PROVE  job' \in [Slots -> Jobs] /\ JobsFit'
BY DEF TypeOK, JobsFit

LEMMA DoneTyped ==
  ASSUME TypeOK, JobsFit, NEW k \in Slots, Done(k)
  PROVE  job' \in [Slots -> Jobs] /\ JobsFit'
BY JobTyped, IdleTyped DEF Done, Idle

LEMMA GoToTyped ==
  ASSUME TypeOK, JobsFit, NEW k \in Slots,
         NEW at \in Labels \ {"state", "read", "announce"}, GoTo(k, at)
  PROVE  job' \in [Slots -> Jobs] /\ JobsFit'
<1>1. job[k] \in Jobs
  BY DEF TypeOK
<1>2. [job[k] EXCEPT !.at = at] \in Jobs /\ [job[k] EXCEPT !.at = at].at = at
  BY <1>1 DEF Jobs
<1>3. job' = [job EXCEPT ![k] = [job[k] EXCEPT !.at = at]]
  BY DEF GoTo
<1>4. QED
  BY <1>2, <1>3, JobTyped

\* A count is only taken off a handler that is there.
LEMMA EntriesOnBus == TypeOK /\ RefInv => bus >= Entries
<1>1. Cardinality(Recorders) \in Nat
  BY FanoutAssumption, FS_Subset, FS_CardinalityType DEF Recorders
<1>2. QED
  BY <1>1 DEF RefInv, Leaked, TypeOK, Entries

LEMMA ReleaseTyped ==
  ASSUME TypeOK, RefInv, ReleaseSub
  PROVE  bus' \in Nat /\ sub' \in Nat
BY EntriesOnBus DEF ReleaseSub, TypeOK, Entries

LEMMA RoomTyped ==
  ASSUME Inv, NEW t \in Tabs,
         Open(t) \/ Drop(t) \/ Depart(t) \/ Unsubscribe(t)
  PROVE  TypeOK' /\ JobsFit'
<1> USE DEF Inv
<1>1. CASE Open(t)
  BY <1>1 DEF Open, TypeOK, JobsFit, rowVars, roomVars, pageVars, faultVars
<1>2. CASE Drop(t)
  <2>1. \A k \in Slots : job[k] \in Jobs
    BY DEF TypeOK
  <2>2. ASSUME NEW k \in Slots
        PROVE  /\ job'[k] \in Jobs
               /\ job'[k].at \in {"state", "read", "announce"} => job'[k].n \in Auctions
    <3>1. job'[k] = job[k] \/ job'[k] = [job[k] EXCEPT !.live = FALSE] \/ job'[k] = Idle
      <4>1. job' = [x \in Slots |->
                      IF x \notin Frames THEN job[x]
                      ELSE IF Sender[x] # t THEN job[x]
                      ELSE IF job[x].at \in Joining THEN [job[x] EXCEPT !.live = FALSE]
                      ELSE Idle]
        BY <1>2 DEF Drop
      <4>2. job'[k] = IF k \notin Frames THEN job[k]
                      ELSE IF Sender[k] # t THEN job[k]
                      ELSE IF job[k].at \in Joining THEN [job[k] EXCEPT !.live = FALSE]
                      ELSE Idle
        BY <4>1
      <4>3. QED
        BY <4>2
    <3>2. [job[k] EXCEPT !.live = FALSE] \in Jobs
      BY <2>1 DEF Jobs
    <3>3. /\ [job[k] EXCEPT !.live = FALSE].at = job[k].at
          /\ [job[k] EXCEPT !.live = FALSE].n = job[k].n
      BY <2>1 DEF Jobs
    <3>4. Idle \in Jobs /\ Idle.at = "idle"
      BY IdleTyped DEF Idle
    <3>5. CASE job'[k] = job[k]
      BY <2>1, <3>5 DEF JobsFit
    <3>6. CASE job'[k] = [job[k] EXCEPT !.live = FALSE]
      BY <3>2, <3>3, <3>6 DEF JobsFit
    <3>7. CASE job'[k] = Idle
      BY <3>4, <3>7
    <3>8. QED
      BY <3>1, <3>5, <3>6, <3>7
  <2>3. job' \in [Slots -> Jobs]
    BY <1>2, <2>2 DEF Drop
  <2>4. JobsFit'
    BY <2>2 DEF JobsFit
  <2>5. mishaps' \in 0..MaxMishaps
    BY <1>2, Bounds DEF Drop, TypeOK, Mishap
  <2>6. QED
    BY <1>2, <2>3, <2>4, <2>5 DEF Drop, TypeOK, rowVars, pageVars
<1>3. CASE Depart(t)
  <2>1. bus' \in Nat /\ sub' \in Nat
    BY <1>3, ReleaseTyped DEF Depart, TypeOK
  <2>2. QED
    BY <1>3, <2>1 DEF Depart, TypeOK, JobsFit, rowVars, pageVars, faultVars
<1>4. CASE Unsubscribe(t)
  <2>1. bus' \in Nat /\ sub' \in Nat
    BY <1>4, ReleaseTyped DEF Unsubscribe
  <2>2. mishaps' \in 0..MaxMishaps
    BY <1>4, Bounds DEF Unsubscribe, TypeOK, Mishap
  <2>3. QED
    BY <1>4, <2>1, <2>2 DEF Unsubscribe, TypeOK, JobsFit, rowVars, pageVars
<1>5. QED
  BY <1>1, <1>2, <1>3, <1>4

\* A job that is made for an auction.
LEMMA NewJob ==
  ASSUME NEW at \in Labels, NEW n \in Auctions, NEW b \in 0..MaxBids
  PROVE  LET j == [Idle EXCEPT !.at = at, !.n = n, !.bid = b]
             i == [Idle EXCEPT !.at = at, !.n = n]
         IN  j \in Jobs /\ j.at = at /\ j.n = n /\ i \in Jobs /\ i.at = at /\ i.n = n
<1>1. n \in 0..MaxAuctions
  BY Bounds DEF Auctions
<1>2. QED
  BY <1>1, IdleTyped DEF Jobs, Idle

LEMMA HandleTyped ==
  ASSUME Inv, NEW k \in Frames, Subscribe(k) \/ Handle(k)
  PROVE  TypeOK' /\ JobsFit'
<1> USE DEF Inv
<1>0. k \in Slots /\ Sender[k] \in Tabs
  BY FanoutAssumption DEF Slots
<1>a. /\ job \in [Slots -> Jobs] /\ job[k] \in Jobs
      /\ panel \in [Tabs -> States] /\ told \in [Tabs -> 0..MaxAuctions]
  BY <1>0 DEF TypeOK
<1>1. CASE Subscribe(k)
  <2> DEFINE t == Sender[k]
             j == [Idle EXCEPT !.at = IF t \in joined THEN "list" ELSE "valid",
                               !.first = t \notin joined, !.live = TRUE]
  <2>1. j \in Jobs /\ j.at \in {"list", "valid"}
    BY IdleTyped DEF Jobs, Idle, Labels
  <2>2. job' = [job EXCEPT ![k] = j]
    BY <1>1 DEF Subscribe
  <2>3. job' \in [Slots -> Jobs] /\ JobsFit'
    <3> HIDE DEF j
    <3> QED
      BY <1>0, <2>1, <2>2, JobTyped
  <2>4. QED
    BY <1>1, <2>3 DEF Subscribe, TypeOK, rowVars, roomVars, pageVars, faultVars
<1>2. CASE Join(k)
  <2>1. job' \in [Slots -> Jobs] /\ JobsFit'
    BY <1>0, <1>2, GoToTyped, DoneTyped DEF Join, GoOn, Labels
  <2>2. bus' \in Nat /\ sub' \in Nat
    BY <1>2 DEF Join, TypeOK
  <2>3. ghost' \in [Tabs -> {"none", "out", "in"}]
    BY <1>0, <1>2 DEF Join, TypeOK
  <2>4. joined' \subseteq Tabs
    BY <1>0, <1>2 DEF Join, TypeOK
  <2>5. QED
    BY <1>2, <2>1, <2>2, <2>3, <2>4 DEF Join, TypeOK, rowVars, pageVars, faultVars
<1>3. CASE RecordSub(k)
  <2>1. job' \in [Slots -> Jobs] /\ JobsFit'
    BY <1>0, <1>3, GoToTyped, DoneTyped DEF RecordSub, GoOn, Labels
  <2>2. QED
    BY <1>3, <2>1 DEF RecordSub, TypeOK, rowVars, pageVars, faultVars
<1>4. CASE ListRunning(k)
  <2>1. job' \in [Slots -> Jobs] /\ JobsFit'
    <3>1. ASSUME NEW n \in Running,
                 job' = [job EXCEPT ![k] = [Idle EXCEPT !.at = "state", !.n = n]]
          PROVE  job' \in [Slots -> Jobs] /\ JobsFit'
      <4>1. n \in Auctions /\ "state" \in Labels
        BY DEF Running, Labels
      <4>2. /\ [Idle EXCEPT !.at = "state", !.n = n] \in Jobs
            /\ [Idle EXCEPT !.at = "state", !.n = n].n = n
        <5>1. 0 \in 0..MaxBids
          BY Bounds
        <5>2. QED
          BY <4>1, <5>1, NewJob
      <4>3. QED
        BY <1>0, <3>1, <4>1, <4>2, JobTyped
    <3>2. ASSUME job' = [job EXCEPT ![k] = [Idle EXCEPT !.at = "recent"]]
          PROVE  job' \in [Slots -> Jobs] /\ JobsFit'
      <4>1. [Idle EXCEPT !.at = "recent"] \in Jobs /\ [Idle EXCEPT !.at = "recent"].at = "recent"
        BY IdleTyped DEF Jobs, Idle, Labels
      <4>2. QED
        BY <1>0, <3>2, <4>1, JobTyped
    <3>3. QED
      BY <1>0, <1>4, <3>1, <3>2, DoneTyped DEF ListRunning
  <2>2. UNCHANGED <<rowVars, online, roomVars, pageVars, faultVars>>
    BY <1>4 DEF ListRunning
  <2>3. QED
    BY <2>1, <2>2 DEF TypeOK, rowVars, roomVars, pageVars, faultVars
<1>5. CASE ReadState(k)
  <2> DEFINE j == [Idle EXCEPT !.at = "send", !.seen = StateOf(job[k].n)]
  <2>1. StateOf(job[k].n) \in States
    BY <1>0, <1>5, StateTyped DEF ReadState, At, JobsFit
  <2>2. j \in Jobs /\ j.at = "send"
    BY <2>1, IdleTyped DEF Jobs, Idle, Labels
  <2>3. job' \in [Slots -> Jobs] /\ JobsFit'
    <3>1. job' = [job EXCEPT ![k] = j]
      BY <1>5 DEF ReadState
    <3> HIDE DEF j
    <3> QED
      BY <1>0, <2>2, <3>1, JobTyped
  <2>4. QED
    BY <1>5, <2>3 DEF ReadState, TypeOK, rowVars, roomVars, pageVars, faultVars
<1>6. CASE SendState(k)
  <2>1. job' \in [Slots -> Jobs] /\ JobsFit'
    BY <1>0, <1>6, DoneTyped DEF SendState
  <2>2. job[k].seen \in States
    BY <1>a DEF Jobs
  <2>3. panel' \in [Tabs -> States]
    BY <1>a, <1>6, <2>2 DEF SendState, OnState
  <2>4. QED
    BY <1>6, <2>1, <2>3 DEF SendState, TypeOK, rowVars, roomVars, faultVars
<1>7. CASE ReadRecent(k)
  <2>1. job' \in [Slots -> Jobs] /\ JobsFit'
    <3>1. ASSUME NEW n \in Auctions,
                 job' = [job EXCEPT ![k].at = "replay", ![k].n = n]
          PROVE  job' \in [Slots -> Jobs] /\ JobsFit'
      <4> DEFINE j == [job[k] EXCEPT !.at = "replay", !.n = n]
      <4>1. n \in 0..MaxAuctions
        BY Bounds DEF Auctions
      <4>2. j \in Jobs /\ j.at = "replay"
        BY <1>a, <4>1 DEF Jobs, Labels
      <4>3. job' = [job EXCEPT ![k] = j]
        BY <3>1, <1>0, <1>a
      <4> HIDE DEF j
      <4>4. QED
        BY <1>0, <4>2, <4>3, JobTyped
    <3>2. QED
      BY <1>0, <1>7, <3>1, DoneTyped DEF ReadRecent
  <2>2. QED
    BY <1>7, <2>1 DEF ReadRecent, TypeOK, rowVars, roomVars, pageVars, faultVars
<1>8. CASE SendReplay(k)
  <2>1. job' \in [Slots -> Jobs] /\ JobsFit'
    BY <1>0, <1>8, DoneTyped DEF SendReplay
  <2>2. job[k].n \in 0..MaxAuctions
    BY <1>a DEF Jobs
  <2>3. told' \in [Tabs -> 0..MaxAuctions]
    BY <1>a, <1>8, <2>2 DEF SendReplay
  <2>4. OnClosed(panel[Sender[k]]) \in States
    BY <1>0, PagesTyped, IdleTyped, Bounds
  <2>5. panel' \in [Tabs -> States]
    BY <1>a, <1>8, <2>4 DEF SendReplay
  <2>6. QED
    BY <1>8, <2>1, <2>3, <2>5 DEF SendReplay, TypeOK, rowVars, roomVars, faultVars
<1>9. QED
  BY <1>1, <1>2, <1>3, <1>4, <1>5, <1>6, <1>7, <1>8 DEF Handle

LEMMA RequestTyped ==
  ASSUME Inv, NEW k \in Requests,
         (\E n \in Auctions : StartAuction(k, n) \/ Bid(k, n)) \/ Publish(k)
  PROVE  TypeOK' /\ JobsFit'
<1> USE DEF Inv
<1>0. k \in Slots
  BY DEF Slots
<1>a. /\ job \in [Slots -> Jobs] /\ job[k] \in Jobs
      /\ panel \in [Tabs -> States] /\ auction \in [Auctions -> Rows]
  BY <1>0 DEF TypeOK
<1>1. ASSUME NEW n \in Auctions, StartAuction(k, n) PROVE TypeOK' /\ JobsFit'
  <2>1. job' \in [Slots -> Jobs] /\ JobsFit'
    <3>1. 0 \in 0..MaxBids /\ "announce" \in Labels
      BY Bounds DEF Labels
    <3>2. /\ [Idle EXCEPT !.at = "announce", !.n = n] \in Jobs
          /\ [Idle EXCEPT !.at = "announce", !.n = n].n = n
      BY <3>1, NewJob
    <3>3. job' = [job EXCEPT ![k] = [Idle EXCEPT !.at = "announce", !.n = n]]
      BY <1>1 DEF StartAuction
    <3>4. QED
      BY <1>0, <3>2, <3>3, JobTyped
  <2>2. auction' \in [Auctions -> Rows]
    BY <1>a, <1>1 DEF StartAuction, Rows
  <2>3. QED
    BY <1>1, <2>1, <2>2 DEF StartAuction, TypeOK, roomVars, pageVars, faultVars
<1>2. ASSUME NEW n \in Auctions, Bid(k, n) PROVE TypeOK' /\ JobsFit'
  <2>0. auction[n] \in Rows /\ auction[n].bid < MaxBids
    BY <1>a, <1>2 DEF Bid
  <2>1. auction[n].bid + 1 \in 0..MaxBids
    BY <2>0, Bounds DEF Rows
  <2>2. auction' \in [Auctions -> Rows] /\ auction'[n].bid \in 0..MaxBids
    BY <1>a, <1>2, <2>1 DEF Bid, Rows
  <2>3. job' \in [Slots -> Jobs] /\ JobsFit'
    <3> DEFINE b == auction'[n].bid
               j == [Idle EXCEPT !.at = "read", !.n = n, !.bid = b]
    <3>0. n \in 0..MaxAuctions
      BY Bounds DEF Auctions
    <3>1. "read" \in Labels
      BY DEF Labels
    <3>2. b \in 0..MaxBids
      BY <2>2
    <3>3. job' = [job EXCEPT ![k] = j]
      BY <1>2 DEF Bid
    <3>4. j \in Jobs /\ j.n = n
      <4> HIDE DEF b
      <4> QED
        BY <3>0, <3>1, <3>2, IdleTyped DEF Jobs, Idle
    <3> HIDE DEF j
    <3>5. QED
      BY <1>0, <3>3, <3>4, JobTyped
  <2>4. QED
    BY <1>2, <2>2, <2>3 DEF Bid, TypeOK, roomVars, pageVars, faultVars
<1>3. CASE ReadRow(k)
  <2> DEFINE at == IF At(k, "read") THEN "accepted" ELSE "publish"
             j == [job[k] EXCEPT !.at = at, !.seen = StateOf(job[k].n), !.n = 0]
  <2>1. StateOf(job[k].n) \in States
    BY <1>0, <1>3, StateTyped DEF ReadRow, JobsFit
  <2>2. at \in {"accepted", "publish"}
    OBVIOUS
  <2>3. j \in Jobs /\ j.at = at
    <3> HIDE DEF at
    <3>1. 0 \in 0..MaxAuctions
      BY Bounds
    <3>2. QED
      BY <1>a, <2>1, <2>2, <3>1 DEF Jobs, Labels
  <2>4. job' = [job EXCEPT ![k] = j]
    BY <1>3 DEF ReadRow
  <2>5. job' \in [Slots -> Jobs] /\ JobsFit'
    <3> HIDE DEF j, at
    <3> QED
      BY <1>0, <2>2, <2>3, <2>4, JobTyped
  <2>6. QED
    BY <1>3, <2>5 DEF ReadRow, TypeOK, rowVars, roomVars, pageVars, faultVars
<1>4. CASE PublishAccepted(k)
  <2> DEFINE j == [job[k] EXCEPT !.at = "publish", !.bid = 0]
  <2>1. j \in Jobs /\ j.at = "publish"
    <3>1. 0 \in 0..MaxBids /\ "publish" \in Labels
      BY Bounds DEF Labels
    <3>2. QED
      BY <1>a, <3>1 DEF Jobs
  <2>2. job' = [job EXCEPT ![k] = j]
    BY <1>4 DEF PublishAccepted
  <2>3. job' \in [Slots -> Jobs] /\ JobsFit'
    <3> HIDE DEF j
    <3> QED
      BY <1>0, <2>1, <2>2, JobTyped
  <2>4. job[k].bid \in 0..MaxBids
    BY <1>a DEF Jobs
  <2>5. \A t \in Tabs : OnBid(panel[t], job[k].bid) \in States
    BY <2>4, PagesTyped, IdleTyped
  <2>6. panel' \in [Tabs -> States]
    BY <1>a, <1>4, <2>5 DEF PublishAccepted
  <2>7. QED
    BY <1>4, <2>3, <2>6 DEF PublishAccepted, TypeOK, rowVars, roomVars, faultVars
<1>5. CASE PublishState(k)
  <2>1. job' \in [Slots -> Jobs] /\ JobsFit'
    BY <1>0, <1>5, DoneTyped DEF PublishState
  <2>2. job[k].seen \in States
    BY <1>a DEF Jobs
  <2>3. panel' \in [Tabs -> States]
    BY <1>a, <1>5, <2>2 DEF PublishState, OnState
  <2>4. QED
    BY <1>5, <2>1, <2>3 DEF PublishState, TypeOK, rowVars, roomVars, faultVars
<1>6. QED
  BY <1>1, <1>2, <1>3, <1>4, <1>5 DEF Publish

LEMMA CloseTyped ==
  ASSUME Inv, NEW n \in Auctions, CloseAuction(n) \/ Announce(n)
  PROVE  TypeOK' /\ JobsFit'
<1> USE DEF Inv
<1>0. n \in Slots /\ n \in 0..MaxAuctions
  BY Bounds DEF Slots, Auctions
<1>a. /\ job \in [Slots -> Jobs]
      /\ panel \in [Tabs -> States] /\ auction \in [Auctions -> Rows]
      /\ told \in [Tabs -> 0..MaxAuctions]
  BY DEF TypeOK
<1>1. CASE CloseAuction(n)
  <2>1. job' \in [Slots -> Jobs] /\ JobsFit'
    <3>1. 0 \in 0..MaxBids /\ "closed" \in Labels
      BY Bounds DEF Labels
    <3>2. /\ [Idle EXCEPT !.at = "closed", !.n = n] \in Jobs
          /\ [Idle EXCEPT !.at = "closed", !.n = n].n = n
      BY <3>1, NewJob
    <3>3. job' = [job EXCEPT ![n] = [Idle EXCEPT !.at = "closed", !.n = n]]
      BY <1>1 DEF CloseAuction
    <3>4. QED
      BY <1>0, <3>2, <3>3, JobTyped
  <2>2. auction' \in [Auctions -> Rows]
    BY <1>a, <1>1 DEF CloseAuction, Rows
  <2>3. QED
    BY <1>1, <2>1, <2>2 DEF CloseAuction, TypeOK, roomVars, pageVars, faultVars
<1>2. CASE PublishClosed(n)
  <2>1. job' \in [Slots -> Jobs] /\ JobsFit'
    BY <1>0, <1>2, GoToTyped DEF PublishClosed, Labels
  <2>2. \A t \in Tabs : OnClosed(panel[t]) \in States
    BY PagesTyped, IdleTyped, Bounds
  <2>3. panel' \in [Tabs -> States]
    BY <1>a, <1>2, <2>2 DEF PublishClosed
  <2>4. told' \in [Tabs -> 0..MaxAuctions]
    BY <1>0, <1>a, <1>2 DEF PublishClosed
  <2>5. QED
    BY <1>2, <2>1, <2>3, <2>4 DEF PublishClosed, TypeOK, rowVars, roomVars, faultVars
<1>3. CASE PublishEnded(n)
  <2>1. job' \in [Slots -> Jobs] /\ JobsFit'
    BY <1>0, <1>3, DoneTyped DEF PublishEnded
  <2>2. panel' \in [Tabs -> States]
    BY <1>a, <1>3, StateTyped DEF PublishEnded, OnState
  <2>3. QED
    BY <1>3, <2>1, <2>2 DEF PublishEnded, TypeOK, rowVars, roomVars, faultVars
<1>4. QED
  BY <1>1, <1>2, <1>3 DEF Announce

LEMMA FaultTyped ==
  ASSUME Inv, (\E k \in Slots : Fail(k)) \/ WindowPasses \/ Crash
  PROVE  TypeOK' /\ JobsFit'
<1> USE DEF Inv
<1>1. ASSUME NEW k \in Slots, Fail(k) PROVE TypeOK' /\ JobsFit'
  <2>1. job' \in [Slots -> Jobs] /\ JobsFit'
    BY <1>1, DoneTyped DEF Fail
  <2>2. mishaps' \in 0..MaxMishaps
    BY <1>1, Bounds DEF Fail, TypeOK, Mishap
  <2>3. QED
    BY <1>1, <2>1, <2>2 DEF Fail, TypeOK, rowVars, roomVars, pageVars
<1>2. CASE WindowPasses
  BY <1>2 DEF WindowPasses, TypeOK, JobsFit, roomVars, pageVars, faultVars
<1>3. CASE Crash
  <2>1. job' \in [Slots -> Jobs]
    BY <1>3, IdleTyped DEF Crash
  <2>2. JobsFit'
    BY <1>3 DEF Crash, JobsFit, Idle
  <2>3. mishaps' \in 0..MaxMishaps
    BY <1>3, Bounds DEF Crash, TypeOK, Mishap
  <2>4. ghost' \in [Tabs -> {"none", "out", "in"}]
    BY <1>3 DEF Crash
  <2>5. QED
    BY <1>3, <2>1, <2>2, <2>3, <2>4 DEF Crash, TypeOK, rowVars, pageVars
<1>4. QED
  BY <1>1, <1>2, <1>3

-----------------------------------------------------------------------------
(* The room's subscription.                                                *)

LEMMA Finite ==
  ASSUME NEW S, S \subseteq Tabs \/ S \subseteq Frames
  PROVE  IsFiniteSet(S) /\ Cardinality(S) \in Nat
BY FanoutAssumption, FS_Subset, FS_CardinalityType

LEMMA Sizes ==
  ASSUME TypeOK
  PROVE  /\ IsFiniteSet(joined) /\ Cardinality(joined) \in Nat
         /\ IsFiniteSet(Gone) /\ Cardinality(Gone) \in Nat
         /\ IsFiniteSet(Recorders) /\ Cardinality(Recorders) \in Nat
BY Finite DEF TypeOK, Gone, Recorders

LEMMA Added ==
  ASSUME NEW S, IsFiniteSet(S), NEW x
  PROVE  /\ Cardinality(S \cup {x}) \in Nat
         /\ Cardinality(S \cup {x}) <= Cardinality(S) + 1
         /\ x \notin S => Cardinality(S \cup {x}) = Cardinality(S) + 1
<1>1. IsFiniteSet(S \cup {x}) /\ Cardinality(S) \in Nat
  BY FS_AddElement, FS_CardinalityType
<1>2. Cardinality(S \cup {x}) \in Nat
  BY <1>1, FS_CardinalityType
<1>3. Cardinality(S \cup {x}) = IF x \in S THEN Cardinality(S) ELSE Cardinality(S) + 1
  BY FS_AddElement
<1>4. QED
  BY <1>1, <1>2, <1>3

LEMMA Removed ==
  ASSUME NEW S, IsFiniteSet(S), NEW x \in S
  PROVE  /\ Cardinality(S \ {x}) \in Nat
         /\ Cardinality(S \ {x}) = Cardinality(S) - 1
BY FS_RemoveElement, FS_CardinalityType

\* Nothing is done to the room.
LEMMA RoomRests ==
  ASSUME RefInv, UNCHANGED roomVars, Recorders' = Recorders
  PROVE  RefInv'
BY DEF RefInv, Leaked, Entries, Gone, roomVars

\* Taking off a count of one who is neither in the room nor to be seen off.
LEMMA Released ==
  ASSUME TypeOK, RefInv, ReleaseSub, Recorders' = Recorders,
         Cardinality(joined') \in Nat, Cardinality(Gone') \in Nat,
         Cardinality(joined') + Cardinality(Gone') < Cardinality(joined) + Cardinality(Gone)
  PROVE  RefInv'
<1>1. bus \in Nat /\ sub \in Nat
  BY DEF TypeOK
<1>2. Leaked' = Leaked
  BY <1>1, Sizes DEF ReleaseSub, Leaked, Entries
<1>3. sub' >= sub - 1 /\ sub' \in Nat
  BY <1>1 DEF ReleaseSub
<1>4. QED
  BY <1>1, <1>2, <1>3, Sizes DEF RefInv

LEMMA RoomCounted ==
  ASSUME Inv, NEW t \in Tabs,
         Open(t) \/ Drop(t) \/ Depart(t) \/ Unsubscribe(t)
  PROVE  RefInv'
<1> USE DEF Inv
<1>a. ghost \in [Tabs -> {"none", "out", "in"}]
  BY DEF TypeOK
<1>1. CASE Open(t)
  BY <1>1, RoomRests DEF Open, Recorders
<1>2. CASE Drop(t)
  <2>1. Recorders' = Recorders
    <3>1. \A k \in Frames : job'[k].at = "record" <=> job[k].at = "record"
      <4> SUFFICES ASSUME NEW k \in Frames
                   PROVE  job'[k].at = "record" <=> job[k].at = "record"
        OBVIOUS
      <4>1. k \in Slots /\ job[k] \in Jobs
        BY DEF TypeOK, Slots
      <4>2. job' = [x \in Slots |->
                      IF x \notin Frames THEN job[x]
                      ELSE IF Sender[x] # t THEN job[x]
                      ELSE IF job[x].at \in Joining THEN [job[x] EXCEPT !.live = FALSE]
                      ELSE Idle]
        BY <1>2 DEF Drop
      <4>3. job'[k] = IF Sender[k] # t THEN job[k]
                      ELSE IF job[k].at \in Joining THEN [job[k] EXCEPT !.live = FALSE]
                      ELSE Idle
        BY <4>1, <4>2
      <4>4. [job[k] EXCEPT !.live = FALSE].at = job[k].at
        BY <4>1 DEF Jobs
      <4>5. QED
        BY <4>3, <4>4 DEF Joining, Idle
    <3>2. QED
      BY <3>1 DEF Recorders
  <2>2. Leaked' = Leaked
    BY <1>2, <2>1 DEF Drop, Leaked, Entries
  <2>3. CASE t \in joined
    <3>1. joined' = joined \ {t}
      BY <1>2 DEF Drop
    <3>2. Gone' = Gone \cup {t} /\ t \notin Gone
      BY <1>a, <1>2, <2>3 DEF Drop, Gone
    <3>3. Cardinality(joined') = Cardinality(joined) - 1
      BY <2>3, <3>1, Sizes, Removed
    <3>4. Cardinality(Gone') = Cardinality(Gone) + 1
      BY <3>2, Sizes, Added
    <3>5. QED
      BY <1>2, <2>1, <2>2, <3>3, <3>4, Sizes DEF RefInv, Drop
  <2>4. CASE t \notin joined
    <3>1. joined' = joined /\ Gone' = Gone
      BY <1>a, <1>2, <2>4 DEF Drop, Gone
    <3>2. QED
      BY <1>2, <2>1, <2>2, <3>1 DEF RefInv, Drop
  <2>5. QED
    BY <2>3, <2>4
<1>3. CASE Depart(t)
  <2>1. Recorders' = Recorders /\ joined' = joined
    BY <1>3 DEF Depart, Recorders
  <2>2. CASE ghost[t] = "in"
    <3>1. Gone' = Gone \ {t} /\ t \in Gone
      BY <1>a, <1>3, <2>2 DEF Depart, Gone
    <3>2. /\ Cardinality(Gone') \in Nat
          /\ Cardinality(Gone') = Cardinality(Gone) - 1
      BY <3>1, Sizes, Removed
    <3>3. ReleaseSub
      BY <1>3, <2>2 DEF Depart
    <3>4. Cardinality(joined') + Cardinality(Gone') < Cardinality(joined) + Cardinality(Gone)
      BY <2>1, <3>2, Sizes
    <3>5. QED
      BY <2>1, <3>2, <3>3, <3>4, Sizes, Released
  <2>3. CASE ghost[t] # "in"
    <3>1. Gone' = Gone
      BY <1>a, <1>3, <2>3 DEF Depart, Gone
    <3>2. QED
      BY <1>3, <2>1, <2>3, <3>1 DEF Depart, RefInv, Leaked, Entries
  <2>4. QED
    BY <2>2, <2>3
<1>4. CASE Unsubscribe(t)
  <2>1. Recorders' = Recorders /\ Gone' = Gone /\ joined' = joined \ {t} /\ t \in joined
    BY <1>4 DEF Unsubscribe, Recorders, Gone
  <2>2. /\ Cardinality(joined') \in Nat
        /\ Cardinality(joined') = Cardinality(joined) - 1
    BY <2>1, Sizes, Removed
  <2>3. ReleaseSub
    BY <1>4 DEF Unsubscribe
  <2>4. Cardinality(joined') + Cardinality(Gone') < Cardinality(joined) + Cardinality(Gone)
    BY <2>1, <2>2, Sizes
  <2>5. QED
    BY <2>1, <2>2, <2>3, <2>4, Sizes, Released
<1>5. QED
  BY <1>1, <1>2, <1>3, <1>4

LEMMA JoinCounted ==
  ASSUME Inv, NEW k \in Frames, Join(k)
  PROVE  RefInv'
<1> USE DEF Inv
<1> DEFINE t == Sender[k]
<1>1. /\ k \in Slots /\ t \in Tabs /\ job \in [Slots -> Jobs] /\ job[k].at = "valid"
      /\ bus \in Nat /\ sub \in Nat /\ ghost \in [Tabs -> {"none", "out", "in"}]
  BY FanoutAssumption DEF Slots, TypeOK, Join, At
<1>2. /\ Cardinality(joined') + Cardinality(Gone')
            <= Cardinality(joined) + Cardinality(Gone) + 1
      /\ Cardinality(joined') \in Nat /\ Cardinality(Gone') \in Nat
  <2>1. CASE job[k].live
    <3>1. joined' = joined \cup {t} /\ Gone' = Gone
      BY <2>1 DEF Join, Gone
    <3>2. QED
      BY <3>1, Sizes, Added
  <2>2. CASE ~job[k].live
    <3>1. joined' = joined /\ (Gone' = Gone \/ Gone' = Gone \cup {t})
      BY <1>1, <2>2 DEF Join, Gone
    <3>2. QED
      BY <3>1, Sizes, Added
  <2>3. QED
    BY <2>1, <2>2
<1>3. CASE sub > 0
  <2>1. sub' = sub + 1 /\ bus' = bus
    BY <1>3 DEF Join
  <2>2. \A f \in Slots : job'[f].at = "record" <=> job[f].at = "record"
    BY <1>1, <1>3 DEF Join, GoOn, GoTo, Done, Idle, Jobs
  <2>3. Recorders' = Recorders
    BY <2>2 DEF Recorders, Slots
  <2>4. QED
    BY <1>1, <1>2, <1>3, <2>1, <2>3, Sizes DEF RefInv, Leaked, Entries
<1>4. CASE ~(sub > 0)
  <2>1. sub' = sub /\ bus' = bus + 1
    BY <1>4 DEF Join
  <2>2. \A f \in Slots : job'[f].at = "record" <=> (job[f].at = "record" \/ f = k)
    BY <1>1, <1>4 DEF Join, GoTo, Jobs
  <2>3. Recorders' = Recorders \cup {k} /\ k \notin Recorders
    BY <1>1, <2>2 DEF Recorders, Slots
  <2>4. /\ Cardinality(Recorders') = Cardinality(Recorders) + 1
        /\ Cardinality(Recorders') \in Nat
    BY <2>3, Sizes, Added
  <2>5. QED
    BY <1>1, <1>2, <1>4, <2>1, <2>4, Sizes DEF RefInv, Leaked, Entries
<1>5. QED
  BY <1>3, <1>4

LEMMA RecordCounted ==
  ASSUME Inv, NEW k \in Frames, RecordSub(k)
  PROVE  RefInv'
<1> USE DEF Inv
<1>1. /\ k \in Slots /\ job \in [Slots -> Jobs] /\ job[k].at = "record"
      /\ bus \in Nat /\ sub \in Nat
  BY DEF Slots, TypeOK, RecordSub, At
<1>2. sub' = 1 /\ bus' = bus /\ joined' = joined /\ Gone' = Gone
  BY DEF RecordSub, Gone
<1>3. \A f \in Slots : job'[f].at = "record" <=> (job[f].at = "record" /\ f # k)
  BY <1>1 DEF RecordSub, GoOn, GoTo, Done, Idle, Jobs
<1>4. Recorders' = Recorders \ {k} /\ k \in Recorders
  BY <1>1, <1>3 DEF Recorders, Slots
<1>5. /\ Cardinality(Recorders') = Cardinality(Recorders) - 1
      /\ Cardinality(Recorders') \in Nat
  BY <1>4, Sizes, Removed
<1>6. CASE sub = 0
  BY <1>1, <1>2, <1>5, <1>6, Sizes DEF RefInv, Leaked, Entries
<1>7. CASE sub > 0
  <2>1. Leaked' = Leaked + 1
    BY <1>1, <1>2, <1>5, <1>7, Sizes DEF Leaked, Entries
  <2>2. Leaked' > 0
    BY <1>1, <2>1, Sizes DEF RefInv, Leaked, Entries
  <2>3. Leaked' >= 0
    BY <1>1, <2>1, Sizes DEF RefInv, Leaked, Entries
  <2>4. QED
    BY <2>2, <2>3 DEF RefInv
<1>8. QED
  BY <1>1, <1>6, <1>7

\* Everything else leaves the room, and who is recording, as they are.
LEMMA RestCounted ==
  ASSUME Inv, UNCHANGED roomVars,
         \A k \in Frames : job'[k].at = "record" <=> job[k].at = "record"
  PROVE  RefInv'
BY RoomRests DEF Inv, Recorders

LEMMA HandleCounted ==
  ASSUME Inv, NEW k \in Frames, Subscribe(k) \/ Handle(k)
  PROVE  RefInv'
<1>1. k \in Slots /\ job \in [Slots -> Jobs]
  BY DEF Slots, Inv, TypeOK
<1>2. CASE Subscribe(k)
  <2>1. \A f \in Slots : job'[f].at = "record" <=> job[f].at = "record"
    BY <1>1, <1>2 DEF Subscribe, At, Idle, Jobs
  <2>2. QED
    BY <1>2, <2>1, RestCounted DEF Subscribe, Slots
<1>3. CASE ListRunning(k)
  <2>1. \A f \in Slots : job'[f].at = "record" <=> job[f].at = "record"
    <3>1. CASE \E n \in Running :
                 job' = [job EXCEPT ![k] = [Idle EXCEPT !.at = "state", !.n = n]]
      BY <1>1, <1>3, <3>1 DEF ListRunning, At, Idle, Jobs
    <3>2. CASE job' = [job EXCEPT ![k] = [Idle EXCEPT !.at = "recent"]]
      BY <1>1, <1>3, <3>2 DEF ListRunning, At, Idle, Jobs
    <3>3. CASE Done(k)
      BY <1>1, <1>3, <3>3 DEF ListRunning, At, Done, Idle, Jobs
    <3>4. QED
      BY <1>3, <3>1, <3>2, <3>3 DEF ListRunning
  <2>2. QED
    BY <1>3, <2>1, RestCounted DEF ListRunning, Slots
<1>4. CASE ReadState(k)
  <2>1. \A f \in Slots : job'[f].at = "record" <=> job[f].at = "record"
    BY <1>1, <1>4 DEF ReadState, At, Idle, Jobs
  <2>2. QED
    BY <1>4, <2>1, RestCounted DEF ReadState, Slots
<1>5. CASE SendState(k)
  <2>1. \A f \in Slots : job'[f].at = "record" <=> job[f].at = "record"
    BY <1>1, <1>5 DEF SendState, At, Done, Idle, Jobs
  <2>2. QED
    BY <1>5, <2>1, RestCounted DEF SendState, Slots
<1>6. CASE ReadRecent(k)
  <2>1. \A f \in Slots : job'[f].at = "record" <=> job[f].at = "record"
    BY <1>1, <1>6 DEF ReadRecent, At, Done, Idle, Jobs
  <2>2. QED
    BY <1>6, <2>1, RestCounted DEF ReadRecent, Slots
<1>7. CASE SendReplay(k)
  <2>1. \A f \in Slots : job'[f].at = "record" <=> job[f].at = "record"
    BY <1>1, <1>7 DEF SendReplay, At, Done, Idle, Jobs
  <2>2. QED
    BY <1>7, <2>1, RestCounted DEF SendReplay, Slots
<1>8. QED
  BY <1>2, <1>3, <1>4, <1>5, <1>6, <1>7, JoinCounted, RecordCounted DEF Handle

LEMMA OthersCounted ==
  ASSUME Inv,
         NEW k \in Requests \cup Auctions, NEW j, job' = [job EXCEPT ![k] = j],
         UNCHANGED roomVars
  PROVE  RefInv'
<1>1. \A f \in Frames : job'[f] = job[f]
  BY FanoutAssumption DEF Inv, TypeOK, Slots
<1>2. QED
  BY <1>1, RestCounted

LEMMA RequestCounted ==
  ASSUME Inv, NEW k \in Requests,
         (\E n \in Auctions : StartAuction(k, n) \/ Bid(k, n)) \/ Publish(k)
  PROVE  RefInv'
<1>1. UNCHANGED roomVars
  BY DEF Publish, StartAuction, Bid, ReadRow, PublishAccepted, PublishState
<1>2. \A f \in Slots : f # k => job'[f] = job[f]
  BY DEF Inv, TypeOK, Publish, StartAuction, Bid, ReadRow, PublishAccepted, PublishState, Done
<1>3. \A f \in Frames : job'[f] = job[f]
  BY <1>2, FanoutAssumption DEF Slots
<1>4. QED
  BY <1>1, <1>3, RestCounted

LEMMA CloseCounted ==
  ASSUME Inv, NEW n \in Auctions, CloseAuction(n) \/ Announce(n)
  PROVE  RefInv'
<1>1. UNCHANGED roomVars
  BY DEF Announce, CloseAuction, PublishClosed, PublishEnded
<1>2. \A f \in Slots : f # n => job'[f] = job[f]
  BY DEF Inv, TypeOK, Announce, CloseAuction, PublishClosed, PublishEnded, Done, GoTo
<1>3. \A f \in Frames : job'[f] = job[f]
  BY <1>2, FanoutAssumption DEF Slots
<1>4. QED
  BY <1>1, <1>3, RestCounted

LEMMA FaultCounted ==
  ASSUME Inv, (\E k \in Slots : Fail(k)) \/ WindowPasses \/ Crash
  PROVE  RefInv'
<1>1. ASSUME NEW k \in Slots, Fail(k) PROVE RefInv'
  <2>1. job \in [Slots -> Jobs]
    BY DEF Inv, TypeOK
  <2>2. \A f \in Slots : job'[f].at = "record" <=> job[f].at = "record"
    BY <1>1, <2>1 DEF Fail, Done, Idle, Jobs
  <2>3. QED
    BY <1>1, <2>2, RestCounted DEF Fail, Slots
<1>2. CASE WindowPasses
  BY <1>2, RestCounted DEF WindowPasses
<1>3. CASE Crash
  <2>1. joined' = {} /\ Gone' = {} /\ Recorders' = {}
    BY <1>3 DEF Crash, Gone, Recorders, Idle, Slots
  <2>2. bus' = 0 /\ sub' = 0
    BY <1>3 DEF Crash
  <2>3. QED
    BY <2>1, <2>2, FS_EmptySet DEF RefInv, Leaked, Entries
<1>4. QED
  BY <1>1, <1>2, <1>3

-----------------------------------------------------------------------------
(* The theorems.                                                           *)

LEMMA InvInit == Init => Inv
<1> SUFFICES ASSUME Init PROVE Inv
  OBVIOUS
<1>1. joined = {} /\ Gone = {} /\ Recorders = {}
  BY DEF Init, Gone, Recorders, Idle, Slots
<1>2. RefInv
  BY <1>1, FS_EmptySet DEF Init, RefInv, Leaked, Entries
<1>3. QED
  BY <1>2, InitTyped DEF Inv

LEMMA InvStep == Inv /\ [Next]_vars => Inv'
<1> SUFFICES ASSUME Inv, [Next]_vars PROVE Inv'
  OBVIOUS
<1>1. CASE \E t \in Tabs : Open(t) \/ Drop(t) \/ Depart(t) \/ Unsubscribe(t)
  BY <1>1, RoomTyped, RoomCounted DEF Inv
<1>2. CASE \E k \in Frames : Subscribe(k) \/ Handle(k)
  BY <1>2, HandleTyped, HandleCounted DEF Inv
<1>3. CASE \E k \in Requests :
             (\E n \in Auctions : StartAuction(k, n) \/ Bid(k, n)) \/ Publish(k)
  BY <1>3, RequestTyped, RequestCounted DEF Inv
<1>4. CASE \E n \in Auctions : CloseAuction(n) \/ Announce(n)
  BY <1>4, CloseTyped, CloseCounted DEF Inv
<1>5. CASE (\E k \in Slots : Fail(k)) \/ WindowPasses \/ Crash
  BY <1>5, FaultTyped, FaultCounted DEF Inv
<1>6. CASE UNCHANGED vars
  <2>1. TypeOK' /\ JobsFit'
    BY <1>6 DEF vars, rowVars, roomVars, pageVars, faultVars, Inv, TypeOK, JobsFit
  <2>2. RefInv'
    BY <1>6, RestCounted DEF vars
  <2>3. QED
    BY <2>1, <2>2 DEF Inv
<1>7. QED
  BY <1>1, <1>2, <1>3, <1>4, <1>5, <1>6 DEF Next

\* The inductive invariant: the types, what a handler in memory may rely on,
\* and the accounts of busSubs: a connection in the room, or one that dropped
\* and is still to be seen off, has its count in the entry or in a handler
\* that is about to record it, unless a handler nobody will ever remove is on
\* the channel (server.ts:924-942).
THEOREM Invariance == Spec => []Inv
BY InvInit, InvStep, PTL DEF Spec

\* Rows, pages, handlers and counts stay in their ranges: the count never goes
\* below zero, and no more handlers are taken off the bus than were put on it.
THEOREM Typing == Spec => []TypeOK
<1>1. Inv => TypeOK
  BY DEF Inv
<1>2. QED
  BY <1>1, Invariance, PTL

\* Whoever is in a room is reached by what is published on its channel, however
\* many sockets join, leave and drop at the same time.
THEOREM RoomAlwaysServed == Spec => []MembersAreServed
<1>1. Inv => MembersAreServed
  <2> SUFFICES ASSUME Inv, joined # {} PROVE bus > 0
    BY DEF MembersAreServed
  <2>1. TypeOK /\ bus \in Nat /\ sub \in Nat
    BY DEF Inv, TypeOK
  <2>2. Cardinality(joined) > 0
    BY <2>1, Sizes, FS_EmptySet
  <2>3. CASE Leaked > 0
    BY <2>1, <2>3, Sizes DEF Leaked, Entries
  <2>4. CASE Cardinality(joined) + Cardinality(Gone) <= sub + Cardinality(Recorders)
    <3>1. sub > 0 \/ Cardinality(Recorders) > 0
      BY <2>1, <2>2, <2>4, Sizes
    <3>2. Leaked >= 0
      BY DEF Inv, RefInv
    <3>3. QED
      BY <2>1, <3>1, <3>2, Sizes DEF Leaked, Entries
  <2>5. QED
    BY <2>3, <2>4 DEF Inv, RefInv
<1>2. QED
  BY <1>1, Invariance, PTL

=============================================================================
