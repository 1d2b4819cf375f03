--------------------------- MODULE CustodyProofs ----------------------------
(***************************************************************************)
(* Theorems about Custody for every set of users, withdrawals, legs,       *)
(* deposits, concurrent handlers and signatures, and any number of errors  *)
(* and crashes: a withdrawal is never both paid and given back, nor paid   *)
(* twice, the daily cap bounds what can be out, a leg lands once but for   *)
(* the faults, the wallets come back to what the ledger says, rows tell    *)
(* the truth, nothing is dropped without a fault, and the promise of       *)
(* CustodyPromise is kept.                                                 *)
(***************************************************************************)
EXTENDS Custody, TotalsProofs

\* A request that has not yet recorded its transfer, a reversal under way.
Origins == {"debit", "refuse", "send", "record"}
Reversing == {"fresh", "credit", "fail"}

\* The request of withdrawal w is with handler k.
Origin(k, w) == job[k].w = w /\ job[k].at \in Origins

\* Nothing that was sent for withdrawal w can still land, and nobody will send.
Over(w) ==
  /\ w \in debited /\ Live(w) = {}
  /\ wstatus[w] # "NONE"
  /\ \A k \in Slots : ~Origin(k, w)

\* What a handler may rely on: a request, a reversal, any handler.
RequestFits(j) ==
  j.at \in Origins =>
    /\ wstatus[j.w] = "PENDING" /\ wsig[j.w] = None /\ j.w \notin returned
    /\ j.w \in debited <=> j.at \in {"send", "record"}
    /\ j.at = "send" => Live(j.w) = {}
    /\ j.at = "record" =>
         /\ j.sig \in Sigs /\ tx[j.sig].what = j.w /\ tx[j.sig].fate # "free"
         /\ Live(j.w) \subseteq {j.sig}

ReversalFits(j) ==
  j.at \in Reversing => Over(j.w) /\ (j.at = "fail" => j.w \in returned)

Fits(j) ==
  /\ j.at \notin {"idle", "next"} => j.w \in Withdrawals
  /\ RequestFits(j) /\ ReversalFits(j)
  /\ j.at \in {"ask", "confirm", "review"} => wsig[j.w] # None
  /\ j.at = "ask" => j.sig = wsig[j.w]
  /\ \A row \in j.todo : wsig[row[1]] # None

JobsFit == \A k \in Slots : Fits(job[k])

\* A withdrawal is requested once.
OneOrigin ==
  \A k, h \in Slots, w \in Withdrawals : Origin(k, w) /\ Origin(h, w) => k = h

\* What the debits, credits, signatures and status of a withdrawal say together.
RowFits(w) ==
  /\ wstatus[w] = "NONE" => w \notin debited /\ wsig[w] = None
  /\ w \notin debited => Live(w) = {}
  /\ wsig[w] # None =>
       /\ w \in debited /\ tx[wsig[w]].what = w /\ tx[wsig[w]].fate # "free"
       /\ Live(w) \subseteq {wsig[w]}
  /\ w \in returned => w \in debited /\ Live(w) = {}
  /\ \A x, y \in Live(w) : x = y
  /\ w \in debited \ returned => wstatus[w] \in INFLIGHT

RowsFit == \A w \in Withdrawals : RowFits(w)

\* A signed transfer is one of a withdrawal or a leg.
TxFits == \A x \in Sigs : tx[x].fate # "free" => tx[x].what \in Withdrawals \cup Legs

\* Withdrawal w counts against the cap, and was not given back.
Counts(w) == wstatus[w] \in INFLIGHT /\ w \notin returned
Outgoing(u) == [w \in Withdrawals |-> IF Owner[w] = u /\ Counts(w) THEN Sum[w] ELSE 0]
UnderCap == \A u \in Users : Total(Outgoing(u), Withdrawals) <= DailyCap

\* The inductive invariant.
Inv == TypeOK /\ JobsFit /\ OneOrigin /\ RowsFit /\ TxFits /\ UnderCap

-----------------------------------------------------------------------------
(* What most steps leave alone.                                            *)

\* A transfer that was signed keeps its purpose, and is signed for good.
TxGrows ==
  \A x \in Sigs : tx[x].fate # "free" => tx'[x].what = tx[x].what /\ tx'[x].fate # "free"

\* No transfer of withdrawal w is added.
NoneSent(w) == Live(w)' \subseteq Live(w)

SameRow(w) ==
  /\ wstatus'[w] = wstatus[w] /\ wsig'[w] = wsig[w]
  /\ (w \in debited)' <=> w \in debited
  /\ (w \in returned)' <=> w \in returned
  /\ NoneSent(w)

\* Rows only move forward.
RowGrows(w) ==
  /\ wstatus'[w] = "NONE" => wstatus[w] = "NONE"
  /\ wsig[w] # None => wsig'[w] = wsig[w]
  /\ w \in debited => w \in debited'
  /\ w \in returned => w \in returned'

\* Handler j rests, with no row on its list that was not on a list before.
Rests(j) ==
  /\ j.at \in {"idle", "next"}
  /\ \A row \in j.todo : row[1] \in Withdrawals /\ wsig[row[1]] # None

\* Only the handler in slot k moves.
Touches(k) ==
  /\ job' \in [Slots -> Jobs]
  /\ \A h \in Slots \ {k} : job'[h] = job[h]

LEMMA RowKept ==
  ASSUME Inv, TypeOK', TxGrows, NEW w \in Withdrawals, SameRow(w)
  PROVE  RowFits(w)'
<1>1. RowFits(w) /\ wsig[w] \in Sigs \cup {None}
  BY DEF Inv, RowsFit, TypeOK
<1>2. Live(w)' \subseteq Live(w)
  BY DEF SameRow, NoneSent
<1>3. QED
  BY <1>1, <1>2 DEF RowFits, SameRow, TxGrows

LEMMA LabelsDisjoint ==
  ASSUME NEW j \in Jobs, j.at \in {"idle", "next"}
  PROVE  j.at \notin Origins /\ j.at \notin Reversing /\ j.at \notin {"ask", "confirm", "review"}
BY DEF Origins, Reversing

\* A handler that the step leaves alone can still rely on the same things.
LEMMA JobKept ==
  ASSUME Inv, TypeOK', TxGrows, NEW h \in Slots, job'[h] = job[h],
         \A w \in Withdrawals : RowGrows(w),
         \A w \in Withdrawals : Origin(h, w) => SameRow(w),
         \A w \in Withdrawals : Over(w) => NoneSent(w),
         \A w \in Withdrawals, g \in Slots : Origin(g, w)' => Origin(g, w) \/ wstatus[w] = "NONE"
  PROVE  Fits(job[h])'
<1> DEFINE j == job[h]
           w == j.w
<1>1. Fits(j) /\ j \in Jobs /\ j' = j
  BY DEF Inv, JobsFit, TypeOK
<1>2. \A row \in j.todo : row[1] \in Withdrawals
  BY <1>1 DEF Jobs
<1>3. \A row \in j.todo : wsig'[row[1]] # None
  BY <1>1, <1>2 DEF Fits, RowGrows
<1>4. CASE j.at \in {"idle", "next"}
  BY <1>1, <1>3, <1>4, LabelsDisjoint DEF Fits, RequestFits, ReversalFits
<1>5. CASE j.at \notin {"idle", "next"}
  <2>1. w \in Withdrawals /\ RowGrows(w)
    BY <1>1, <1>5 DEF Fits
  <2>2. RequestFits(j)'
    <3>1. CASE j.at \in Origins
      <4>1. RequestFits(j) /\ SameRow(w) /\ Live(w)' \subseteq Live(w)
        BY <1>1, <2>1, <3>1 DEF Fits, Origin, SameRow, NoneSent
      <4>2. QED
        BY <1>1, <3>1, <4>1 DEF RequestFits, SameRow, TxGrows
    <3>2. QED
      BY <1>1, <3>1 DEF RequestFits
  <2>3. ReversalFits(j)'
    <3>1. CASE j.at \in Reversing
      <4>1. Over(w) /\ (j.at = "fail" => w \in returned)
        BY <1>1, <3>1 DEF Fits, ReversalFits
      <4>2. Live(w)' = {}
        BY <2>1, <4>1 DEF Over, NoneSent
      <4>3. \A g \in Slots : ~Origin(g, w)'
        BY <2>1, <4>1 DEF Over
      <4>4. Over(w)'
        BY <2>1, <4>1, <4>2, <4>3 DEF Over, RowGrows
      <4>5. QED
        BY <1>1, <2>1, <4>1, <4>4 DEF ReversalFits, RowGrows
    <3>2. QED
      BY <1>1, <3>1 DEF ReversalFits
  <2>4. j.at \in {"ask", "confirm", "review"} => wsig'[w] # None /\ wsig'[w] = wsig[w]
    BY <1>1, <2>1 DEF Fits, RowGrows
  <2>5. QED
    BY <1>1, <1>3, <2>1, <2>2, <2>3, <2>4 DEF Fits
<1>6. QED
  BY <1>4, <1>5

-----------------------------------------------------------------------------
(* The sum that counts against the cap.                                    *)

LEMMA Finite == IsFiniteSet(Withdrawals) /\ IsFiniteSet(Users)
BY CustodyAssumption

LEMMA OutgoingNat ==
  ASSUME NEW u, NEW w \in Withdrawals
  PROVE  /\ Outgoing(u)[w] \in Nat
         /\ Outgoing(u)[w] = IF Owner[w] = u /\ Counts(w) THEN Sum[w] ELSE 0
BY CustodyAssumption DEF Outgoing

LEMMA OutgoingNatNext ==
  ASSUME NEW u, NEW w \in Withdrawals
  PROVE  /\ Outgoing(u)'[w] \in Nat
         /\ Outgoing(u)'[w] = IF Owner[w] = u /\ Counts(w)' THEN Sum[w] ELSE 0
BY CustodyAssumption DEF Outgoing

\* No withdrawal counts that did not before.
CountsKept == \A w \in Withdrawals : Counts(w)' => Counts(w)

LEMMA CapKept ==
  ASSUME Inv, CountsKept
  PROVE  UnderCap'
<1> SUFFICES ASSUME NEW u \in Users
             PROVE  Total(Outgoing(u)', Withdrawals) <= DailyCap
  BY DEF UnderCap
<1>1. Total(Outgoing(u), Withdrawals) <= DailyCap
  BY DEF Inv, UnderCap
<1> DEFINE f == Outgoing(u)'
           g == Outgoing(u)
<1>2. \A w \in Withdrawals : f[w] \in Nat /\ g[w] \in Nat /\ f[w] <= g[w]
  <2>1. \A w \in Withdrawals : Sum[w] \in Nat
    BY CustodyAssumption
  <2>2. QED
    BY <2>1, OutgoingNat, OutgoingNatNext DEF CountsKept
<1>3. (\A w \in Withdrawals : f[w] \in Nat) /\ (\A w \in Withdrawals : g[w] \in Nat)
  BY <1>2
<1> HIDE DEF f, g
<1>4. Total(f, Withdrawals) <= Total(g, Withdrawals)
  BY <1>2, Finite, TotalLess
<1>5. Total(f, Withdrawals) \in Nat /\ Total(g, Withdrawals) \in Nat /\ DailyCap \in Nat
  BY <1>3, Finite, TotalNat, CustodyAssumption
<1>6. QED
  BY <1>1, <1>4, <1>5 DEF f, g

-----------------------------------------------------------------------------
(* Steps of one handler, and of everybody else.                            *)

\* Handler k does what its request entitles it to do.
LEMMA HandlerStep ==
  ASSUME Inv, TypeOK', NEW k \in Slots, Touches(k), TxGrows, TxFits', UnderCap',
         \A w \in Withdrawals : RowGrows(w),
         \A w \in Withdrawals : SameRow(w) \/ RowFits(w)',
         \A w \in Withdrawals : SameRow(w) \/ \A h \in Slots \ {k} : ~Origin(h, w),
         \A w \in Withdrawals : NoneSent(w) \/ Origin(k, w),
         \A w \in Withdrawals : Origin(k, w)' => Origin(k, w) \/ wstatus[w] = "NONE",
         Fits(job[k])'
  PROVE  Inv'
<1>1. ASSUME NEW h \in Slots, h # k, NEW w \in Withdrawals
      PROVE  Origin(h, w)' <=> Origin(h, w)
  BY <1>1 DEF Touches, Origin
<1>2. JobsFit'
  <2>1. ASSUME NEW h \in Slots, h # k PROVE Fits(job[h])' /\ job'[h] = job[h]
    <3>1. job'[h] = job[h]
      BY <2>1 DEF Touches
    <3>2. \A w \in Withdrawals : Over(w) => NoneSent(w)
      BY DEF Over
    <3>3. \A w \in Withdrawals, g \in Slots :
            Origin(g, w)' => Origin(g, w) \/ wstatus[w] = "NONE"
      BY <1>1
    <3>4. \A w \in Withdrawals : Origin(h, w) => SameRow(w)
      BY <2>1
    <3>5. QED
      BY <3>1, <3>2, <3>3, <3>4, JobKept
  <2>2. QED
    BY <2>1 DEF JobsFit
<1>3. OneOrigin'
  <2>1. ASSUME NEW h \in Slots, h # k, NEW w \in Withdrawals, Origin(h, w)', Origin(k, w)'
        PROVE  FALSE
    <3>1. Origin(h, w)
      BY <1>1, <2>1
    <3>2. ~Origin(k, w)
      BY <2>1, <3>1 DEF Inv, OneOrigin
    <3>3. wstatus[w] = "NONE"
      BY <2>1, <3>2
    <3>4. wstatus[w] = "PENDING"
      BY <3>1 DEF Inv, JobsFit, Fits, RequestFits, Origin
    <3>5. QED
      BY <3>3, <3>4
  <2>2. ASSUME NEW g \in Slots, NEW h \in Slots, NEW w \in Withdrawals,
               Origin(g, w)', Origin(h, w)'
        PROVE  g = h
    <3>1. CASE g = k \/ h = k
      BY <2>1, <2>2, <3>1
    <3>2. CASE g # k /\ h # k
      BY <1>1, <2>2, <3>2 DEF Inv, OneOrigin
    <3>3. QED
      BY <3>1, <3>2
  <2>3. QED
    BY <2>2 DEF OneOrigin
<1>4. RowsFit'
  BY RowKept DEF RowsFit
<1>5. QED
  BY <1>2, <1>3, <1>4 DEF Inv

LEMMA SameRowGrows ==
  ASSUME NEW w \in Withdrawals, SameRow(w) PROVE RowGrows(w)
BY DEF SameRow, RowGrows

\* Whatever leaves the rows alone, sends nothing for a withdrawal and at most
\* takes handlers back to rest keeps the invariant.
LEMMA QuietStep ==
  ASSUME Inv, TypeOK', TxGrows, TxFits',
         \A w \in Withdrawals : SameRow(w),
         \A k \in Slots : job'[k] = job[k] \/ Rests(job'[k])
  PROVE  Inv'
<1>1. \A w \in Withdrawals : RowGrows(w)
  BY SameRowGrows
<1>2. ASSUME NEW k \in Slots, NEW w \in Withdrawals, Origin(k, w)'
      PROVE  Origin(k, w)
  BY <1>2 DEF Rests, Origin, Origins
<1>3. ASSUME NEW k \in Slots PROVE Fits(job[k])'
  <2>1. CASE job'[k] = job[k]
    <3>1. Fits(job[k])'
      BY <1>1, <1>2, <2>1, JobKept DEF SameRow
    <3>2. QED
      BY <2>1, <3>1
  <2>2. CASE Rests(job'[k])
    <3>1. job'[k] \in Jobs /\ job'[k].at \in {"idle", "next"}
      BY <2>2 DEF TypeOK, Rests
    <3>2. \A row \in job'[k].todo : wsig'[row[1]] # None
      BY <1>1, <2>2 DEF Rests, RowGrows
    <3>3. QED
      BY <3>1, <3>2, LabelsDisjoint DEF Fits, RequestFits, ReversalFits
  <2>3. QED
    BY <2>1, <2>2
<1>4. JobsFit'
  BY <1>3 DEF JobsFit
<1>5. OneOrigin'
  BY <1>2 DEF Inv, OneOrigin
<1>6. RowsFit'
  BY RowKept DEF RowsFit
<1>7. UnderCap'
  BY CapKept DEF CountsKept, Counts, SameRow
<1>8. QED
  BY <1>4, <1>5, <1>6, <1>7 DEF Inv

-----------------------------------------------------------------------------
(* What the helpers do to a handler.                                       *)

\* The handler in slot k becomes j.
LEMMA Becoming ==
  ASSUME Inv, NEW k \in Slots, NEW j \in Jobs, job' = [job EXCEPT ![k] = j]
  PROVE  Touches(k) /\ job'[k] = j
BY DEF Inv, TypeOK, Touches

LEMMA GoToJob ==
  ASSUME Inv, NEW k \in Slots, NEW at \in Labels, GoTo(k, at)
  PROVE  /\ Touches(k) /\ job'[k].at = at /\ job'[k].w = job[k].w
         /\ job'[k].sig = job[k].sig /\ job'[k].todo = job[k].todo
<1>1. job \in [Slots -> Jobs] /\ job' = [job EXCEPT ![k].at = at]
  BY DEF Inv, TypeOK, GoTo
<1>2. job[k] \in Jobs /\ job'[k] = [job[k] EXCEPT !.at = at]
  BY <1>1
<1>3. job'[k] \in Jobs
  BY <1>2 DEF Jobs
<1>4. job' \in [Slots -> Jobs] /\ \A h \in Slots \ {k} : job'[h] = job[h]
  BY <1>1, <1>3
<1>5. QED
  BY <1>2, <1>4 DEF Touches, Jobs

LEMMA IdleJob == Idle \in Jobs /\ Idle.at = "idle" /\ Idle.w = None /\ Idle.todo = {}
BY DEF Idle, Jobs, Labels, WithdrawalStatus

LEMMA TodoKnown ==
  ASSUME Inv, NEW k \in Slots
  PROVE  \A row \in job[k].todo : row[1] \in Withdrawals /\ wsig[row[1]] # None
<1>1. job[k] \in Jobs /\ Fits(job[k])
  BY DEF Inv, TypeOK, JobsFit
<1>2. QED
  BY <1>1 DEF Jobs, Fits

LEMMA DoneJob ==
  ASSUME Inv, NEW k \in Slots, Done(k)
  PROVE  Touches(k) /\ Rests(job'[k])
<1> DEFINE j == IF job[k].pass
                THEN [Idle EXCEPT !.at = "next", !.pass = TRUE, !.todo = job[k].todo]
                ELSE Idle
<1>1. job[k] \in Jobs
  BY DEF Inv, TypeOK
<1>2. /\ j \in Jobs /\ j.at \in {"idle", "next"}
      /\ j.todo = {} \/ j.todo = job[k].todo
  BY <1>1, IdleJob DEF Idle, Jobs, Labels
<1>3. job' = [job EXCEPT ![k] = j]
  BY DEF Done
<1> HIDE DEF j
<1>4. Touches(k) /\ job'[k] = j
  BY <1>2, <1>3, Becoming
<1>5. QED
  BY <1>2, <1>4, TodoKnown DEF Rests

\* A handler at rest asks for nothing, whatever the rows have come to.
LEMMA RestFits ==
  ASSUME TypeOK', NEW k \in Slots, Rests(job'[k]), \A w \in Withdrawals : RowGrows(w)
  PROVE  Fits(job[k])' /\ \A w : ~Origin(k, w)'
<1>1. job'[k] \in Jobs /\ job'[k].at \in {"idle", "next"}
  BY DEF TypeOK, Rests
<1>2. \A row \in job'[k].todo : wsig'[row[1]] # None
  BY DEF Rests, RowGrows
<1>3. Fits(job[k])'
  BY <1>1, <1>2, LabelsDisjoint DEF Fits, RequestFits, ReversalFits
<1>4. QED
  BY <1>1, <1>3, LabelsDisjoint DEF Origin

LEMMA TxSame ==
  ASSUME Inv, tx' = tx
  PROVE  TxGrows /\ TxFits' /\ \A w : Live(w)' = Live(w) /\ NoneSent(w)
BY DEF Inv, TxGrows, TxFits, Live, NoneSent

\* A step of handler k on row w that sends nothing.
LEMMA RowStep ==
  ASSUME Inv, TypeOK', NEW k \in Slots, Touches(k), tx' = tx, UnderCap',
         NEW w \in Withdrawals,
         \A v \in Withdrawals \ {w} : wstatus'[v] = wstatus[v] /\ wsig'[v] = wsig[v],
         \A v \in Withdrawals \ {w} : (v \in debited)' <=> v \in debited,
         \A v \in Withdrawals \ {w} : (v \in returned)' <=> v \in returned,
         RowGrows(w), RowFits(w)',
         \A h \in Slots \ {k} : ~Origin(h, w),
         \A v \in Withdrawals : Origin(k, v)' => Origin(k, v) \/ wstatus[v] = "NONE",
         Fits(job[k])'
  PROVE  Inv'
<1>1. TxGrows /\ TxFits' /\ \A v : NoneSent(v)
  BY TxSame
<1>2. \A v \in Withdrawals \ {w} : SameRow(v)
  BY <1>1 DEF SameRow
<1>3. \A v \in Withdrawals : RowGrows(v)
  BY <1>2, SameRowGrows
<1>4. QED
  BY <1>1, <1>2, <1>3, HandlerStep

\* A step of handler k that leaves rows and chain alone.
LEMMA JobStep ==
  ASSUME Inv, NEW k \in Slots, Touches(k),
         UNCHANGED <<ledgerVars, rowVars, legVars, deposit, chainVars, settler, watcher, faults>>,
         \A w \in Withdrawals : Origin(k, w)' => Origin(k, w) \/ wstatus[w] = "NONE",
         Fits(job[k])'
  PROVE  Inv'
<1>1. TypeOK'
  BY DEF Inv, TypeOK, Touches, ledgerVars, rowVars, legVars, chainVars
<1>2. TxGrows /\ TxFits' /\ \A w : NoneSent(w)
  BY TxSame DEF chainVars
<1>3. \A w \in Withdrawals : SameRow(w) /\ RowGrows(w)
  BY <1>2 DEF SameRow, RowGrows, ledgerVars, rowVars
<1>4. UnderCap'
  BY CapKept DEF CountsKept, Counts, ledgerVars, rowVars
<1>5. QED
  BY <1>1, <1>2, <1>3, <1>4, HandlerStep

\* What a handler in the middle of its work has to do with the rows.
LEMMA AtRow ==
  ASSUME Inv, NEW k \in Slots, job[k].at \notin {"idle", "next"}
  PROVE  /\ job[k].w \in Withdrawals /\ Fits(job[k]) /\ RowFits(job[k].w)
         /\ job[k] \in Jobs
BY DEF Inv, TypeOK, JobsFit, Fits, RowsFit

LEMMA OtherOrigins ==
  ASSUME Inv, NEW k \in Slots, NEW w \in Withdrawals,
         Origin(k, w) \/ wsig[w] # None \/ w \in returned \/ wstatus[w] = "NONE"
  PROVE  \A h \in Slots \ {k} : ~Origin(h, w)
<1> SUFFICES ASSUME NEW h \in Slots \ {k}, Origin(h, w) PROVE FALSE
  OBVIOUS
<1>1. wsig[w] = None /\ w \notin returned /\ wstatus[w] = "PENDING"
  BY DEF Inv, JobsFit, Fits, RequestFits, Origin
<1>2. QED
  BY <1>1 DEF Inv, OneOrigin

-----------------------------------------------------------------------------
(* Withdrawals.                                                            *)

\* A handler goes to rest and nothing else happens.
LEMMA RestStep ==
  ASSUME Inv, NEW k \in Slots, Touches(k), Rests(job'[k]),
         UNCHANGED <<ledgerVars, rowVars, legVars, deposit, chainVars, settler, watcher, faults>>
  PROVE  Inv'
<1>1. TypeOK'
  BY DEF Inv, TypeOK, Touches, ledgerVars, rowVars, legVars, chainVars
<1>2. \A w \in Withdrawals : RowGrows(w)
  BY DEF RowGrows, ledgerVars, rowVars
<1>3. QED
  BY <1>1, <1>2, RestFits, JobStep

LEMMA RequestTotal ==
  ASSUME Inv, NEW w \in Withdrawals, wstatus[w] = "NONE", WithinCap(w),
         wstatus' = [wstatus EXCEPT ![w] = "PENDING"], returned' = returned
  PROVE  UnderCap'
<1>1. wstatus \in [Withdrawals -> WithdrawalStatus] /\ w \notin returned
  BY DEF Inv, TypeOK, RowsFit, RowFits
<1> SUFFICES ASSUME NEW u \in Users
             PROVE  Total(Outgoing(u)', Withdrawals) <= DailyCap
  BY DEF UnderCap
<1> DEFINE f == Outgoing(u)
           g == Outgoing(u)'
<1>2. \A v \in Withdrawals : f[v] \in Nat /\ g[v] \in Nat
  BY OutgoingNat, OutgoingNatNext
<1>3. \A v \in Withdrawals \ {w} : Counts(v)' <=> Counts(v)
  BY <1>1 DEF Counts
<1>4. \A v \in Withdrawals \ {w} : g[v] = f[v]
  BY <1>3, OutgoingNat, OutgoingNatNext
<1>5. ~Counts(w) /\ Counts(w)'
  BY <1>1 DEF Counts, INFLIGHT
<1>6. f[w] = 0 /\ g[w] = IF Owner[w] = u THEN Sum[w] ELSE 0
  BY <1>5, OutgoingNat, OutgoingNatNext
<1>7. Total(f, Withdrawals) <= DailyCap
  BY DEF Inv, UnderCap
<1>8. CASE Owner[w] = u
  <2> DEFINE h == [v \in Withdrawals |->
                     IF Owner[v] = u /\ wstatus[v] \in INFLIGHT THEN Sum[v] ELSE 0]
  <2>1. Total(h, Withdrawals) + Sum[w] <= DailyCap
    BY <1>8 DEF WithinCap, Used
  <2>2. \A v \in Withdrawals : h[v] \in Nat /\ f[v] <= h[v]
    <3>1. \A v \in Withdrawals : Sum[v] \in Nat
      BY CustodyAssumption
    <3>2. \A v \in Withdrawals : Counts(v) => wstatus[v] \in INFLIGHT
      BY DEF Counts
    <3>3. QED
      BY <3>1, <3>2, OutgoingNat
  <2> HIDE DEF f, g, h
  <2>3. Total(f, Withdrawals) <= Total(h, Withdrawals)
    BY <1>2, <2>2, Finite, TotalLess
  <2>4. \A v \in Withdrawals : f[v] \in Nat /\ f[v] \in Int /\ g[v] \in Int
    BY <1>2
  <2>5. g[w] \in Int
    BY <2>4
  <2>6. Total(g, Withdrawals) = Total(f, Withdrawals) - f[w] + g[w]
    BY <1>4, <2>4, <2>5, Finite, TotalUpdate
  <2>7. Total(f, Withdrawals) \in Nat /\ Total(h, Withdrawals) \in Nat /\ DailyCap \in Nat
    BY <2>2, <2>4, Finite, TotalNat, CustodyAssumption
  <2>8. Sum[w] \in Nat
    BY CustodyAssumption
  <2>9. Total(g, Withdrawals) <= DailyCap
    BY <1>6, <1>8, <2>1, <2>3, <2>6, <2>7, <2>8
  <2>10. QED
    BY <2>9 DEF g
<1>9. CASE Owner[w] # u
  <2>1. \A v \in Withdrawals : g[v] = f[v]
    BY <1>4, <1>6, <1>9
  <2> HIDE DEF f, g
  <2>2. Total(g, Withdrawals) = Total(f, Withdrawals)
    BY <2>1, Finite, TotalSame
  <2>3. QED
    BY <1>7, <2>2 DEF g
<1>10. QED
  BY <1>8, <1>9

LEMMA RequestStep ==
  ASSUME Inv, NEW k \in Slots, NEW w \in Withdrawals, RequestWithdrawal(k, w)
  PROVE  Inv'
<1> DEFINE j == [Idle EXCEPT !.at = "debit", !.w = w, !.was = "PENDING"]
<1>1. j \in Jobs /\ j.at = "debit" /\ j.w = w /\ j.todo = {}
  BY DEF Idle, Jobs, Labels, WithdrawalStatus
<1>2. Touches(k) /\ job'[k] = j
  BY <1>1, Becoming DEF RequestWithdrawal
<1> HIDE DEF j
<1>3. /\ wstatus[w] = "NONE" /\ wstatus' = [wstatus EXCEPT ![w] = "PENDING"]
      /\ UNCHANGED <<ledgerVars, wsig, reversedAt, legVars, deposit, chainVars, settler,
                     watcher, faults>>
  BY DEF RequestWithdrawal
<1>4. TypeOK'
  BY <1>2, <1>3 DEF Inv, TypeOK, Touches, ledgerVars, legVars, chainVars, WithdrawalStatus
<1>5. RowFits(w) /\ wstatus \in [Withdrawals -> WithdrawalStatus]
  BY DEF Inv, RowsFit, TypeOK
<1>6. w \notin debited /\ w \notin returned /\ wsig[w] = None /\ Live(w) = {}
  BY <1>3, <1>5 DEF RowFits
<1>7. /\ wstatus'[w] = "PENDING" /\ w \notin debited' /\ w \notin returned'
      /\ wsig'[w] = None /\ Live(w)' = {}
  BY <1>3, <1>5, <1>6 DEF ledgerVars, chainVars, Live
<1>8. RowGrows(w) /\ RowFits(w)'
  BY <1>3, <1>6, <1>7 DEF RowGrows, RowFits
<1>9. UnderCap'
  BY <1>3, RequestTotal DEF RequestWithdrawal, ledgerVars
<1>10. \A h \in Slots \ {k} : ~Origin(h, w)
  BY <1>3, OtherOrigins
<1>11. Fits(job[k])'
  BY <1>1, <1>2, <1>7 DEF Fits, RequestFits, ReversalFits, Origins, Reversing
<1>12. \A v \in Withdrawals : Origin(k, v)' => wstatus[v] = "NONE"
  BY <1>1, <1>2, <1>3 DEF Origin
<1>13. \A v \in Withdrawals \ {w} : wstatus'[v] = wstatus[v] /\ wsig'[v] = wsig[v]
  BY <1>3, <1>5
<1>14. debited' = debited /\ returned' = returned /\ tx' = tx
  BY <1>3 DEF ledgerVars, chainVars
<1>15. QED
  BY <1>2, <1>4, <1>8, <1>9, <1>10, <1>11, <1>12, <1>13, <1>14, RowStep

LEMMA DebitStep ==
  ASSUME Inv, NEW k \in Slots, NEW w \in Withdrawals, w = job[k].w, DebitWithdrawal(k)
  PROVE  Inv'
<1>1. job[k].at = "debit" /\ w \in Withdrawals /\ Fits(job[k]) /\ RowFits(w)
  BY AtRow DEF DebitWithdrawal, At
<1>2. /\ Origin(k, w) /\ wstatus[w] = "PENDING" /\ wsig[w] = None
      /\ w \notin returned /\ w \notin debited /\ Live(w) = {}
  BY <1>1 DEF Fits, RequestFits, RowFits, Origin, Origins
<1>3. UNCHANGED <<house, returned, rowVars, legVars, deposit, chainVars, settler, watcher, faults>>
  BY DEF DebitWithdrawal
<1>4. CASE GoTo(k, "refuse") /\ UNCHANGED <<settled, debited>>
  <2>1. Touches(k) /\ job'[k].at = "refuse" /\ job'[k].w = w /\ job'[k].todo = job[k].todo
    BY <1>4, GoToJob DEF Labels
  <2>2. wsig' = wsig /\ wstatus' = wstatus /\ returned' = returned /\ debited' = debited
    BY <1>3, <1>4 DEF rowVars
  <2>3. Fits(job[k])'
    BY <1>1, <1>2, <2>1, <2>2 DEF Fits, RequestFits, ReversalFits, Origins, Reversing
  <2>4. \A v \in Withdrawals : Origin(k, v)' => Origin(k, v)
    BY <1>2, <2>1 DEF Origin
  <2>5. QED
    BY <1>3, <1>4, <2>1, <2>3, <2>4, JobStep DEF ledgerVars
<1>5. CASE /\ settled[Owner[w]] >= Sum[w]
           /\ settled' = [settled EXCEPT ![Owner[w]] = @ - Sum[w]]
           /\ debited' = debited \cup {w}
           /\ GoTo(k, "send")
  <2>1. Touches(k) /\ job'[k].at = "send" /\ job'[k].w = w /\ job'[k].todo = job[k].todo
    BY <1>5, GoToJob DEF Labels
  <2>2. settled' \in [Users -> Nat]
    <3>1. settled \in [Users -> Nat] /\ Owner[w] \in Users /\ Sum[w] \in Nat
      BY <1>1, CustodyAssumption DEF Inv, TypeOK
    <3>2. QED
      BY <1>5, <3>1
  <2>3. TypeOK'
    BY <1>1, <1>3, <1>5, <2>1, <2>2 DEF Inv, TypeOK, Touches, rowVars, legVars, chainVars
  <2>4. wsig' = wsig /\ wstatus' = wstatus /\ returned' = returned /\ tx' = tx
    BY <1>3 DEF rowVars, chainVars
  <2>5. Live(w)' = {}
    BY <1>2, <2>4 DEF Live
  <2>6. RowGrows(w) /\ RowFits(w)'
    BY <1>2, <1>5, <2>4, <2>5 DEF RowGrows, RowFits, INFLIGHT
  <2>7. Fits(job[k])'
    BY <1>1, <1>2, <1>5, <2>1, <2>4, <2>5 DEF Fits, RequestFits, ReversalFits, Origins, Reversing
  <2>8. \A v \in Withdrawals : Origin(k, v)' => Origin(k, v)
    BY <1>2, <2>1 DEF Origin
  <2>9. UnderCap'
    BY <2>4, CapKept DEF CountsKept, Counts
  <2>10. \A v \in Withdrawals \ {w} : (v \in debited)' <=> v \in debited
    BY <1>5
  <2>11. \A h \in Slots \ {k} : ~Origin(h, w)
    BY <1>1, <1>2, OtherOrigins
  <2>12. QED
    BY <1>1, <2>1, <2>3, <2>4, <2>6, <2>7, <2>8, <2>9, <2>10, <2>11, RowStep
<1>6. QED
  BY <1>4, <1>5 DEF DebitWithdrawal

LEMMA RefuseStep ==
  ASSUME Inv, NEW k \in Slots, NEW w \in Withdrawals, w = job[k].w, RefuseWithdrawal(k)
  PROVE  Inv'
<1>1. job[k].at = "refuse" /\ w \in Withdrawals /\ Fits(job[k]) /\ RowFits(w)
  BY AtRow DEF RefuseWithdrawal, At
<1>2. /\ Origin(k, w) /\ wstatus[w] = "PENDING" /\ wsig[w] = None
      /\ w \notin returned /\ w \notin debited /\ Live(w) = {}
  BY <1>1 DEF Fits, RequestFits, RowFits, Origin, Origins
<1>3. /\ wstatus' = [wstatus EXCEPT ![w] = "FAILED"]
      /\ UNCHANGED <<ledgerVars, wsig, reversedAt, legVars, deposit, chainVars, settler,
                     watcher, faults>>
      /\ Touches(k) /\ Rests(job'[k])
  BY DoneJob DEF RefuseWithdrawal
<1>4. wstatus \in [Withdrawals -> WithdrawalStatus]
  BY DEF Inv, TypeOK
<1>5. TypeOK'
  BY <1>3 DEF Inv, TypeOK, Touches, ledgerVars, legVars, chainVars, WithdrawalStatus
<1>6. debited' = debited /\ returned' = returned /\ tx' = tx /\ wsig' = wsig
  BY <1>3 DEF ledgerVars, chainVars
<1>7. wstatus'[w] = "FAILED" /\ \A v \in Withdrawals \ {w} : wstatus'[v] = wstatus[v]
  BY <1>1, <1>3, <1>4
<1>8. Live(w)' = {}
  BY <1>2, <1>6 DEF Live
<1>9. RowGrows(w) /\ RowFits(w)'
  BY <1>2, <1>6, <1>7, <1>8 DEF RowGrows, RowFits
<1>10. \A v \in Withdrawals : RowGrows(v)
  BY <1>6, <1>7, <1>9 DEF RowGrows
<1>11. Fits(job[k])' /\ \A v : ~Origin(k, v)'
  BY <1>3, <1>5, <1>10, RestFits
<1>12. UnderCap'
  BY <1>6, <1>7, CapKept DEF CountsKept, Counts, INFLIGHT
<1>13. \A h \in Slots \ {k} : ~Origin(h, w)
  BY <1>1, <1>2, OtherOrigins
<1>14. QED
  BY <1>1, <1>3, <1>5, <1>6, <1>7, <1>9, <1>11, <1>12, <1>13, RowStep

\* A broadcast adds one live transfer.
LEMMA Sent ==
  ASSUME Inv, NEW it \in Withdrawals \cup Legs, Broadcast(it)
  PROVE  /\ tx' \in [Sigs -> Tx] /\ TxGrows /\ TxFits'
         /\ \E x \in Sigs :
              /\ x = NewSig /\ tx'[x].what = it /\ tx'[x].fate = "flying"
              /\ \A y \in Withdrawals \cup Legs :
                   Live(y)' = IF y = it THEN Live(y) \cup {x} ELSE Live(y)
<1>1. PICK x \in Sigs : x = NewSig /\ tx[x].fate = "free"
  BY DEF Broadcast, SomeSigFree, NewSig
<1> DEFINE t == [what |-> it, fate |-> "flying"]
<1>2. tx \in [Sigs -> Tx] /\ t \in Tx /\ t.what = it /\ t.fate = "flying"
  BY DEF Inv, TypeOK, Tx, Fates
<1> HIDE DEF t
<1>3. tx' = [tx EXCEPT ![x] = t]
  BY <1>1 DEF Broadcast, t
<1>4. tx'[x] = t /\ \A y \in Sigs \ {x} : tx'[y] = tx[y]
  BY <1>2, <1>3
<1>5. tx' \in [Sigs -> Tx]
  BY <1>2, <1>3
<1>6. TxGrows /\ TxFits'
  BY <1>1, <1>2, <1>4 DEF Inv, TxGrows, TxFits
<1>7. \A y \in Withdrawals \cup Legs :
        Live(y)' = IF y = it THEN Live(y) \cup {x} ELSE Live(y)
  BY <1>1, <1>2, <1>4 DEF Live
<1>8. QED
  BY <1>1, <1>2, <1>4, <1>5, <1>6, <1>7

LEMMA SendStep ==
  ASSUME Inv, NEW k \in Slots, NEW w \in Withdrawals, w = job[k].w, SendWithdrawal(k)
  PROVE  Inv'
<1>1. job[k].at = "send" /\ Fits(job[k]) /\ RowFits(w) /\ job[k] \in Jobs
  BY AtRow DEF SendWithdrawal, At
<1>2. /\ Origin(k, w) /\ wstatus[w] = "PENDING" /\ wsig[w] = None
      /\ w \notin returned /\ w \in debited /\ Live(w) = {}
  BY <1>1 DEF Fits, RequestFits, Origin, Origins
<1>3. UNCHANGED <<ledgerVars, rowVars, legVars, deposit, wallet, settler, watcher, faults>>
  BY DEF SendWithdrawal
<1>4. debited' = debited /\ returned' = returned /\ wsig' = wsig /\ wstatus' = wstatus
  BY <1>3 DEF ledgerVars, rowVars
<1>5. \A h \in Slots \ {k} : ~Origin(h, w)
  BY <1>1, <1>2, OtherOrigins
<1>6. CASE GoTo(k, "fresh") /\ UNCHANGED tx
  <2>1. Touches(k) /\ job'[k].at = "fresh" /\ job'[k].w = w /\ job'[k].todo = job[k].todo
    BY <1>6, GoToJob DEF Labels
  <2>2. Live(w)' = {}
    BY <1>2, <1>6 DEF Live
  <2>3. \A h \in Slots : ~Origin(h, w)'
    BY <1>5, <2>1 DEF Origin, Origins, Touches
  <2>4. Over(w)'
    BY <1>2, <1>4, <2>2, <2>3 DEF Over
  <2>5. Fits(job[k])'
    BY <1>1, <1>4, <2>1, <2>4 DEF Fits, RequestFits, ReversalFits, Origins, Reversing
  <2>6. \A v \in Withdrawals : ~Origin(k, v)'
    BY <2>1 DEF Origin, Origins
  <2>7. QED
    BY <1>3, <1>6, <2>1, <2>5, <2>6, JobStep DEF chainVars
<1>7. CASE /\ Broadcast(w)
           /\ job' = [job EXCEPT ![k] = [@ EXCEPT !.at = "record", !.sig = NewSig]]
  <2>1. tx' \in [Sigs -> Tx] /\ TxGrows /\ TxFits'
    BY <1>7, Sent
  <2>2. PICK x \in Sigs :
          /\ x = NewSig /\ tx'[x].what = w /\ tx'[x].fate = "flying"
          /\ \A v \in Withdrawals : Live(v)' = IF v = w THEN Live(v) \cup {x} ELSE Live(v)
    BY <1>7, Sent
  <2> DEFINE j == [job[k] EXCEPT !.at = "record", !.sig = x]
  <2>3. /\ j \in Jobs /\ j.at = "record" /\ j.sig = x /\ j.w = w
        /\ j.todo = job[k].todo
    BY <1>1 DEF Jobs, Labels
  <2>4. job' = [job EXCEPT ![k] = j]
    BY <1>7, <2>2
  <2> HIDE DEF j
  <2>5. Touches(k) /\ job'[k] = j
    BY <2>3, <2>4, Becoming
  <2>6. TypeOK'
    BY <1>3, <2>1, <2>5 DEF Inv, TypeOK, Touches, ledgerVars, rowVars, legVars
  <2>7. \A v \in Withdrawals : RowGrows(v)
    BY <1>4 DEF RowGrows
  <2>8. Live(w)' = {x}
    BY <1>2, <2>2
  <2>9. RowFits(w)'
    BY <1>2, <1>4, <2>8 DEF RowFits, INFLIGHT
  <2>10. \A v \in Withdrawals \ {w} : SameRow(v)
    BY <1>4, <2>2 DEF SameRow, NoneSent
  <2>11. Fits(job[k])'
    <3>1. RequestFits(job[k])'
      BY <1>2, <1>4, <2>2, <2>3, <2>5, <2>8 DEF RequestFits
    <3>2. \A row \in job'[k].todo : wsig'[row[1]] # None
      BY <1>1, <1>4, <2>3, <2>5 DEF Fits
    <3>3. QED
      BY <2>3, <2>5, <3>1, <3>2 DEF Fits, ReversalFits, Reversing
  <2>12. \A v \in Withdrawals : Origin(k, v)' => Origin(k, v)
    BY <1>2, <2>3, <2>5 DEF Origin
  <2>13. UnderCap'
    BY <1>4, CapKept DEF CountsKept, Counts
  <2>14. \A v \in Withdrawals : NoneSent(v) \/ Origin(k, v)
    BY <1>2, <2>10 DEF SameRow
  <2>15. QED
    BY <1>5, <2>1, <2>5, <2>6, <2>7, <2>9, <2>10, <2>11, <2>12, <2>13, <2>14, HandlerStep
<1>8. QED
  BY <1>6, <1>7 DEF SendWithdrawal

LEMMA RecordStep ==
  ASSUME Inv, NEW k \in Slots, NEW w \in Withdrawals, w = job[k].w, RecordWithdrawal(k)
  PROVE  Inv'
<1>1. job[k].at = "record" /\ Fits(job[k]) /\ RowFits(w) /\ job[k] \in Jobs
  BY AtRow DEF RecordWithdrawal, At
<1>2. PICK x \in Sigs : x = job[k].sig /\ tx[x].what = w /\ tx[x].fate # "free"
                        /\ Live(w) \subseteq {x}
  BY <1>1 DEF Fits, RequestFits, Origins
<1>3. /\ Origin(k, w) /\ wstatus[w] = "PENDING" /\ wsig[w] = None
      /\ w \notin returned /\ w \in debited
  BY <1>1 DEF Fits, RequestFits, Origin, Origins
<1> DEFINE j == [job[k] EXCEPT !.at = "ask", !.was = "SUBMITTED"]
<1>4. j \in Jobs /\ j.at = "ask" /\ j.sig = x /\ j.w = w /\ j.todo = job[k].todo
  BY <1>1, <1>2 DEF Jobs, Labels, WithdrawalStatus
<1>5. /\ wstatus' = [wstatus EXCEPT ![w] = "SUBMITTED"]
      /\ wsig' = [wsig EXCEPT ![w] = x]
      /\ job' = [job EXCEPT ![k] = j]
      /\ UNCHANGED <<ledgerVars, reversedAt, legVars, deposit, chainVars, settler,
                     watcher, faults>>
  BY <1>2 DEF RecordWithdrawal
<1> HIDE DEF j
<1>6. Touches(k) /\ job'[k] = j
  BY <1>4, <1>5, Becoming
<1>7. wstatus \in [Withdrawals -> WithdrawalStatus] /\ wsig \in [Withdrawals -> Sigs \cup {None}]
  BY DEF Inv, TypeOK
<1>8. /\ wstatus'[w] = "SUBMITTED" /\ wsig'[w] = x /\ x # None
      /\ \A v \in Withdrawals \ {w} : wstatus'[v] = wstatus[v] /\ wsig'[v] = wsig[v]
  BY <1>5, <1>7, CustodyAssumption
<1>9. TypeOK'
  BY <1>5, <1>6 DEF Inv, TypeOK, Touches, ledgerVars, legVars, chainVars, WithdrawalStatus
<1>10. debited' = debited /\ returned' = returned /\ tx' = tx
  BY <1>5 DEF ledgerVars, chainVars
<1>11. Live(w)' = Live(w)
  BY <1>10 DEF Live
<1>12. RowGrows(w) /\ RowFits(w)'
  BY <1>1, <1>2, <1>3, <1>8, <1>10, <1>11 DEF RowGrows, RowFits, INFLIGHT
<1>13. Fits(job[k])'
  <2>1. \A row \in job[k].todo : row[1] \in Withdrawals /\ wsig[row[1]] # None
    BY TodoKnown
  <2>2. \A row \in job'[k].todo : wsig'[row[1]] # None
    BY <1>4, <1>6, <1>8, <2>1
  <2>3. QED
    BY <1>4, <1>6, <1>8, <2>2 DEF Fits, RequestFits, ReversalFits, Origins, Reversing
<1>14. \A v \in Withdrawals : ~Origin(k, v)'
  BY <1>4, <1>6 DEF Origin, Origins
<1>15. UnderCap'
  BY <1>3, <1>8, <1>10, CapKept DEF CountsKept, Counts, INFLIGHT
<1>16. \A h \in Slots \ {k} : ~Origin(h, w)
  BY <1>1, <1>3, OtherOrigins
<1>17. QED
  BY <1>6, <1>8, <1>9, <1>10, <1>12, <1>13, <1>14, <1>15, <1>16, RowStep

-----------------------------------------------------------------------------
(* Settling and reversing.                                                 *)

\* A row that was sent or given back is marked, and its handler goes to rest.
LEMMA MarkStep ==
  ASSUME Inv, NEW k \in Slots, NEW w \in Withdrawals, Touches(k), Rests(job'[k]),
         NEW s \in WithdrawalStatus \ {"NONE"}, wstatus' = [wstatus EXCEPT ![w] = s],
         UNCHANGED <<ledgerVars, wsig, legVars, deposit, chainVars, settler, watcher, faults>>,
         reversedAt' \in SUBSET Withdrawals,
         wsig[w] # None \/ w \in returned, s \in INFLIGHT \/ w \in returned
  PROVE  Inv'
<1>1. RowFits(w) /\ wstatus \in [Withdrawals -> WithdrawalStatus]
  BY DEF Inv, RowsFit, TypeOK
<1>2. TypeOK'
  BY DEF Inv, TypeOK, Touches, ledgerVars, legVars, chainVars
<1>3. debited' = debited /\ returned' = returned /\ tx' = tx /\ wsig' = wsig
  BY DEF ledgerVars, chainVars
<1>4. wstatus'[w] = s /\ \A v \in Withdrawals \ {w} : wstatus'[v] = wstatus[v]
  BY <1>1
<1>5. w \in debited /\ wstatus[w] # "NONE" /\ (w \notin returned => wstatus[w] \in INFLIGHT)
  BY <1>1 DEF RowFits
<1>6. Live(w)' = Live(w)
  BY <1>3 DEF Live
<1>7. RowGrows(w) /\ RowFits(w)'
  BY <1>1, <1>3, <1>4, <1>5, <1>6 DEF RowGrows, RowFits
<1>8. \A v \in Withdrawals : RowGrows(v)
  BY <1>3, <1>4, <1>7 DEF RowGrows
<1>9. Fits(job[k])' /\ \A v : ~Origin(k, v)'
  BY <1>2, <1>8, RestFits
<1>10. UnderCap'
  BY <1>3, <1>4, <1>5, CapKept DEF CountsKept, Counts
<1>11. \A h \in Slots \ {k} : ~Origin(h, w)
  BY OtherOrigins
<1>12. QED
  BY <1>2, <1>3, <1>4, <1>7, <1>9, <1>10, <1>11, RowStep

LEMMA ConfirmStep ==
  ASSUME Inv, NEW k \in Slots, NEW w \in Withdrawals, w = job[k].w, ConfirmWithdrawal(k)
  PROVE  Inv'
<1>1. job[k].at = "confirm" /\ wsig[w] # None
  BY AtRow DEF ConfirmWithdrawal, At, Fits
<1>2. Touches(k) /\ Rests(job'[k])
  BY DoneJob DEF ConfirmWithdrawal
<1>3. UNCHANGED <<ledgerVars, wsig, reversedAt, legVars, deposit, chainVars, settler, watcher, faults>>
  BY DEF ConfirmWithdrawal
<1>4. CASE wstatus' = wstatus
  BY <1>2, <1>3, <1>4, RestStep DEF rowVars
<1>5. CASE wstatus' = [wstatus EXCEPT ![w] = "CONFIRMED"]
  <2>1. reversedAt' \in SUBSET Withdrawals
    BY <1>3 DEF Inv, TypeOK
  <2>2. "CONFIRMED" \in WithdrawalStatus \ {"NONE"} /\ "CONFIRMED" \in INFLIGHT
    BY DEF WithdrawalStatus, INFLIGHT
  <2>3. QED
    BY <1>1, <1>2, <1>3, <1>5, <2>1, <2>2, MarkStep
<1>6. QED
  BY <1>4, <1>5 DEF ConfirmWithdrawal

LEMMA ReviewStep ==
  ASSUME Inv, NEW k \in Slots, NEW w \in Withdrawals, w = job[k].w, MarkForReview(k)
  PROVE  Inv'
<1>1. job[k].at = "review" /\ wsig[w] # None
  BY AtRow DEF MarkForReview, At, Fits
<1>2. Touches(k) /\ Rests(job'[k])
  BY DoneJob DEF MarkForReview
<1>3. /\ UNCHANGED <<ledgerVars, wsig, reversedAt, legVars, deposit, chainVars, settler,
                     watcher, faults>>
      /\ wstatus' = [wstatus EXCEPT ![w] = "NEEDS_REVIEW"]
  BY DEF MarkForReview
<1>4. reversedAt' \in SUBSET Withdrawals
  BY <1>3 DEF Inv, TypeOK
<1>5. "NEEDS_REVIEW" \in WithdrawalStatus \ {"NONE"} /\ "NEEDS_REVIEW" \in INFLIGHT
  BY DEF WithdrawalStatus, INFLIGHT
<1>6. QED
  BY <1>1, <1>2, <1>3, <1>4, <1>5, MarkStep

LEMMA FailedStep ==
  ASSUME Inv, NEW k \in Slots, NEW w \in Withdrawals, w = job[k].w, MarkFailed(k)
  PROVE  Inv'
<1>1. job[k].at = "fail" /\ w \in returned
  BY AtRow DEF MarkFailed, At, Fits, ReversalFits, Reversing
<1>2. Touches(k) /\ Rests(job'[k])
  BY DoneJob DEF MarkFailed
<1>3. /\ UNCHANGED <<ledgerVars, wsig, legVars, deposit, chainVars, settler, watcher, faults>>
      /\ wstatus' = [wstatus EXCEPT ![w] = "FAILED"]
  BY DEF MarkFailed
<1>4. reversedAt' \in SUBSET Withdrawals
  BY DEF MarkFailed, Inv, TypeOK
<1>5. "FAILED" \in WithdrawalStatus \ {"NONE"}
  BY DEF WithdrawalStatus
<1>6. QED
  BY <1>1, <1>2, <1>3, <1>4, <1>5, MarkStep

LEMMA AskStep ==
  ASSUME Inv, NEW k \in Slots, NEW w \in Withdrawals, w = job[k].w, AskWithdrawal(k)
  PROVE  Inv'
<1>1. job[k].at = "ask" /\ Fits(job[k]) /\ RowFits(w)
  BY AtRow DEF AskWithdrawal, At
<1>2. wsig[w] # None /\ job[k].sig = wsig[w]
  BY <1>1 DEF Fits
<1>3. UNCHANGED <<ledgerVars, rowVars, legVars, deposit, chainVars, settler, watcher, faults>>
  BY DEF AskWithdrawal
<1>4. wsig' = wsig /\ tx' = tx
  BY <1>3 DEF rowVars, chainVars
<1>5. ASSUME NEW at \in {"confirm", "review"}, GoTo(k, at)
      PROVE  Inv'
  <2>1. at \in Labels
    BY DEF Labels
  <2>2. Touches(k) /\ job'[k].at = at /\ job'[k].w = w /\ job'[k].todo = job[k].todo
    BY <1>5, <2>1, GoToJob
  <2>3. Fits(job[k])'
    BY <1>1, <1>2, <1>4, <2>2 DEF Fits, RequestFits, ReversalFits, Origins, Reversing
  <2>4. \A v \in Withdrawals : ~Origin(k, v)'
    BY <2>2 DEF Origin, Origins
  <2>5. QED
    BY <1>3, <2>2, <2>3, <2>4, JobStep
<1>6. CASE tx[job[k].sig].fate = "dead" /\ GoTo(k, "fresh")
  <2>1. Touches(k) /\ job'[k].at = "fresh" /\ job'[k].w = w /\ job'[k].todo = job[k].todo
    BY <1>6, GoToJob DEF Labels
  <2>2. Live(w)' = {}
    BY <1>1, <1>2, <1>4, <1>6 DEF RowFits, Live
  <2>3. \A v \in Withdrawals : ~Origin(k, v)'
    BY <2>1 DEF Origin, Origins
  <2>4. \A h \in Slots \ {k} : ~Origin(h, w)
    BY <1>2, OtherOrigins
  <2>5. \A h \in Slots : ~Origin(h, w)'
    BY <2>1, <2>3, <2>4 DEF Origin, Touches
  <2>6. Over(w)'
    <3>1. w \in debited /\ wstatus[w] # "NONE"
      BY <1>1, <1>2 DEF RowFits
    <3>2. QED
      BY <1>3, <2>2, <2>5, <3>1 DEF Over, ledgerVars, rowVars
  <2>7. Fits(job[k])'
    BY <1>1, <1>4, <2>1, <2>6 DEF Fits, RequestFits, ReversalFits, Origins, Reversing
  <2>8. QED
    BY <1>3, <2>1, <2>3, <2>7, JobStep
<1>7. CASE Done(k)
  BY <1>3, <1>7, DoneJob, RestStep
<1>8. QED
  BY <1>5, <1>6, <1>7 DEF AskWithdrawal

LEMMA ReadAgainStep ==
  ASSUME Inv, NEW k \in Slots, NEW w \in Withdrawals, w = job[k].w, ReadAgain(k)
  PROVE  Inv'
<1>1. job[k].at = "fresh" /\ Fits(job[k])
  BY AtRow DEF ReadAgain, At
<1>2. UNCHANGED <<ledgerVars, rowVars, legVars, deposit, chainVars, settler, watcher, faults>>
  BY DEF ReadAgain
<1>3. CASE Done(k)
  BY <1>2, <1>3, DoneJob, RestStep
<1>4. CASE GoTo(k, "credit")
  <2>1. Touches(k) /\ job'[k].at = "credit" /\ job'[k].w = w /\ job'[k].todo = job[k].todo
    BY <1>4, GoToJob DEF Labels
  <2>2. \A v \in Withdrawals : ~Origin(k, v)'
    BY <2>1 DEF Origin, Origins
  <2>3. Over(w)
    BY <1>1 DEF Fits, ReversalFits, Reversing
  <2>4. \A h \in Slots : ~Origin(h, w)'
    BY <2>1, <2>2, <2>3 DEF Over, Origin, Touches
  <2>5. wsig' = wsig /\ wstatus' = wstatus /\ debited' = debited /\ Live(w)' = Live(w)
    BY <1>2 DEF ledgerVars, rowVars, chainVars, Live
  <2>6. Over(w)'
    BY <2>3, <2>4, <2>5 DEF Over
  <2>7. Fits(job[k])'
    BY <1>1, <2>1, <2>5, <2>6 DEF Fits, RequestFits, ReversalFits, Origins, Reversing
  <2>8. QED
    BY <1>2, <2>1, <2>2, <2>7, JobStep
<1>5. QED
  BY <1>3, <1>4 DEF ReadAgain

LEMMA CreditStep ==
  ASSUME Inv, NEW k \in Slots, NEW w \in Withdrawals, w = job[k].w, CreditBack(k)
  PROVE  Inv'
<1>1. job[k].at = "credit" /\ Fits(job[k]) /\ RowFits(w)
  BY AtRow DEF CreditBack, At
<1>2. Over(w)
  BY <1>1 DEF Fits, ReversalFits, Reversing
<1>3. /\ returned' = returned \cup {w}
      /\ UNCHANGED <<house, debited, rowVars, legVars, deposit, chainVars, settler,
                     watcher, faults>>
  BY DEF CreditBack
<1>4. Touches(k) /\ job'[k].at = "fail" /\ job'[k].w = w /\ job'[k].todo = job[k].todo
  BY GoToJob DEF CreditBack, Labels
<1>5. settled' \in [Users -> Nat]
  <2>1. settled \in [Users -> Nat] /\ Owner[w] \in Users /\ Sum[w] \in Nat
    BY CustodyAssumption DEF Inv, TypeOK
  <2>2. QED
    BY <2>1 DEF CreditBack
<1>6. TypeOK'
  BY <1>3, <1>4, <1>5 DEF Inv, TypeOK, Touches, rowVars, legVars, chainVars
<1>7. wsig' = wsig /\ wstatus' = wstatus /\ debited' = debited /\ tx' = tx
  BY <1>3 DEF rowVars, chainVars
<1>8. Live(w)' = {}
  BY <1>2, <1>7 DEF Over, Live
<1>9. RowGrows(w) /\ RowFits(w)'
  BY <1>1, <1>2, <1>3, <1>7, <1>8 DEF RowGrows, RowFits, Over
<1>10. \A v \in Withdrawals : ~Origin(k, v)'
  BY <1>4 DEF Origin, Origins
<1>11. \A h \in Slots : ~Origin(h, w)'
  BY <1>2, <1>4, <1>10 DEF Over, Origin, Touches
<1>12. Over(w)'
  BY <1>2, <1>7, <1>8, <1>11 DEF Over
<1>13. Fits(job[k])'
  BY <1>1, <1>3, <1>4, <1>7, <1>12 DEF Fits, RequestFits, ReversalFits, Origins, Reversing
<1>14. UnderCap'
  BY <1>3, <1>7, CapKept DEF CountsKept, Counts
<1>15. \A v \in Withdrawals \ {w} : (v \in returned)' <=> v \in returned
  BY <1>3
<1>16. \A h \in Slots \ {k} : ~Origin(h, w)
  BY <1>2 DEF Over
<1>17. QED
  BY <1>4, <1>6, <1>7, <1>9, <1>10, <1>13, <1>14, <1>15, <1>16, RowStep

LEMMA StartPassStep ==
  ASSUME Inv, NEW k \in Slots, StartPass(k)
  PROVE  Inv'
<1> DEFINE rows == {<<w, wstatus[w]>> : w \in Unsettled}
           j == [Idle EXCEPT !.at = "next", !.pass = TRUE, !.todo = rows]
<1>1. rows \subseteq Withdrawals \X WithdrawalStatus
  BY DEF Unsettled, Inv, TypeOK
<1>2. \A row \in rows : row[1] \in Withdrawals /\ wsig[row[1]] # None
  BY DEF Unsettled
<1> HIDE DEF rows
<1>3. j \in Jobs /\ j.at = "next" /\ j.todo = rows
  BY <1>1 DEF Idle, Jobs, Labels, WithdrawalStatus
<1>4. job' = [job EXCEPT ![k] = j]
  BY DEF StartPass, rows
<1> HIDE DEF j
<1>5. Touches(k) /\ job'[k] = j
  BY <1>3, <1>4, Becoming
<1>6. Rests(job'[k])
  BY <1>2, <1>3, <1>5 DEF Rests
<1>7. QED
  BY <1>5, <1>6, RestStep DEF StartPass

LEMMA NextRowStep ==
  ASSUME Inv, NEW k \in Slots, NextRow(k)
  PROVE  Inv'
<1>1. UNCHANGED <<ledgerVars, rowVars, legVars, deposit, chainVars, settler, watcher, faults>>
  BY DEF NextRow
<1>2. CASE job' = [job EXCEPT ![k] = Idle]
  <2>1. Touches(k) /\ Rests(job'[k])
    BY <1>2, IdleJob, Becoming DEF Rests
  <2>2. QED
    BY <1>1, <2>1, RestStep
<1>3. ASSUME NEW row \in job[k].todo,
             job' = [job EXCEPT ![k] =
               [@ EXCEPT !.at = "ask", !.w = row[1], !.was = row[2],
                         !.sig = wsig[row[1]], !.todo = job[k].todo \ {row}]]
      PROVE  Inv'
  <2>1. job[k] \in Jobs
    BY DEF Inv, TypeOK
  <2>2. row[1] \in Withdrawals /\ row[2] \in WithdrawalStatus /\ wsig[row[1]] # None
    BY <1>3, <2>1, TodoKnown DEF Jobs
  <2>3. wsig[row[1]] \in Sigs \cup {None}
    BY <2>2 DEF Inv, TypeOK
  <2> DEFINE j == [job[k] EXCEPT !.at = "ask", !.w = row[1], !.was = row[2],
                                 !.sig = wsig[row[1]], !.todo = job[k].todo \ {row}]
  <2>4. /\ j \in Jobs /\ j.at = "ask" /\ j.w = row[1] /\ j.sig = wsig[row[1]]
        /\ j.todo = job[k].todo \ {row}
    BY <2>1, <2>2, <2>3 DEF Jobs, Labels
  <2>5. job' = [job EXCEPT ![k] = j]
    BY <1>3
  <2> HIDE DEF j
  <2>6. Touches(k) /\ job'[k] = j
    BY <2>4, <2>5, Becoming
  <2>7. wsig' = wsig
    BY <1>1 DEF rowVars
  <2>8. Fits(job[k])'
    <3>1. \A r \in job'[k].todo : wsig'[r[1]] # None
      BY <2>4, <2>6, <2>7, TodoKnown
    <3>2. QED
      BY <2>2, <2>4, <2>6, <2>7, <3>1 DEF Fits, RequestFits, ReversalFits, Origins, Reversing
  <2>9. \A v \in Withdrawals : ~Origin(k, v)'
    BY <2>4, <2>6 DEF Origin, Origins
  <2>10. QED
    BY <1>1, <2>6, <2>8, <2>9, JobStep
<1>4. QED
  BY <1>2, <1>3 DEF NextRow

-----------------------------------------------------------------------------
(* The outbox, deposits and the chain.                                     *)

\* A step that has nothing to do with withdrawals.
LEMMA CalmStep ==
  ASSUME Inv, TypeOK', UNCHANGED <<debited, returned, rowVars, tx, job>>
  PROVE  Inv'
<1>1. TxGrows /\ TxFits' /\ \A w : NoneSent(w)
  BY TxSame
<1>2. \A w \in Withdrawals : SameRow(w)
  BY <1>1 DEF SameRow, rowVars
<1>3. QED
  BY <1>1, <1>2, QuietStep

LEMMA PostLegStep ==
  ASSUME Inv, NEW l \in Legs, PostLeg(l)
  PROVE  Inv'
<1>1. \A end \in Wallets : Share(l, end) \in Int
  <2>1. Worth[l] \in Nat
    BY CustodyAssumption
  <2>2. QED
    BY <2>1 DEF Share
<1>2. settled' \in [Users -> Nat]
  <2>1. settled \in [Users -> Nat] /\ Party[l] \in Users
    BY CustodyAssumption DEF Inv, TypeOK
  <2>2. Share(l, "treasury") \in Int
    BY <1>1 DEF Wallets
  <2>3. PICK n \in Int : n = Share(l, "treasury")
    BY <2>2
  <2>4. settled[Party[l]] + n >= 0 /\ settled' = [settled EXCEPT ![Party[l]] = @ + n]
    BY <2>3 DEF PostLeg
  <2>5. QED
    BY <2>1, <2>4
<1>3. house' \in [House -> Nat]
  <2>1. house \in [House -> Nat]
    BY DEF Inv, TypeOK
  <2>2. ASSUME NEW x \in House PROVE house[x] + Share(l, x) \in Nat
    <3>1. Share(l, x) \in Int /\ house[x] \in Nat
      BY <1>1, <2>1 DEF Wallets
    <3>2. house[x] + Share(l, x) >= 0
      BY DEF PostLeg
    <3>3. QED
      BY <3>1, <3>2
  <2>3. house' = [x \in House |-> house[x] + Share(l, x)]
    BY DEF PostLeg
  <2>4. QED
    BY <2>2, <2>3
<1>4. leg' \in [Legs -> LegStatus]
  BY DEF PostLeg, Inv, TypeOK, LegStatus
<1>5. UNCHANGED <<debited, returned, rowVars, legSig, deposit, chainVars, memoryVars, faults>>
  BY DEF PostLeg
<1>6. TypeOK'
  BY <1>2, <1>3, <1>4, <1>5 DEF Inv, TypeOK, rowVars, chainVars, memoryVars
<1>7. QED
  BY <1>5, <1>6, CalmStep DEF chainVars, memoryVars

LEMMA SettlerTypes ==
  ASSUME Inv
  PROVE  /\ settler \in Settlers /\ SettlerIdle \in Settlers /\ NextLeg \in Settlers
         /\ leg \in [Legs -> LegStatus] /\ legSig \in [Legs -> Sigs \cup {None}]
<1>1. settler \in Settlers
  BY DEF Inv, TypeOK
<1>2. NextLeg \in Settlers
  BY <1>1 DEF NextLeg, Settlers
<1>3. QED
  BY <1>1, <1>2 DEF Inv, TypeOK, SettlerIdle, Settlers

\* The settler moves, and its rows with it.
LEMMA SettlerMove ==
  ASSUME Inv, settler' \in Settlers, leg' \in [Legs -> LegStatus],
         legSig' \in [Legs -> Sigs \cup {None}],
         UNCHANGED <<ledgerVars, rowVars, deposit, chainVars, job, watcher, faults>>
  PROVE  Inv'
<1>1. TypeOK'
  BY DEF Inv, TypeOK, ledgerVars, rowVars, chainVars
<1>2. QED
  BY <1>1, CalmStep DEF ledgerVars, chainVars

LEMMA SettlerTickStep ==
  ASSUME Inv, SettlerTick \/ EndSettlerTick
  PROVE  Inv'
<1>1. settler' \in Settlers
  BY SettlerTypes DEF SettlerTick, EndSettlerTick, SettlerIdle, Settlers
<1>2. UNCHANGED <<ledgerVars, rowVars, legVars, deposit, chainVars, job, watcher, faults>>
  BY DEF SettlerTick, EndSettlerTick
<1>3. QED
  BY <1>1, <1>2, SettlerTypes, SettlerMove DEF legVars

LEMMA TakeLegStep ==
  ASSUME Inv, TakeLeg
  PROVE  Inv'
<1>1. PICK l \in settler.todo :
        LET it == [settler EXCEPT !.leg = l, !.todo = @ \ {l}] IN
        \/ Broadcast(l) /\ settler' = [it EXCEPT !.at = "record", !.sig = NewSig]
        \/ settler' = [it EXCEPT !.leg = None] /\ UNCHANGED tx
        \/ settler' = [it EXCEPT !.at = "ask", !.sig = legSig[l]] /\ UNCHANGED tx
  BY DEF TakeLeg
<1> DEFINE it == [settler EXCEPT !.leg = l, !.todo = @ \ {l}]
<1>2. l \in Legs /\ it \in Settlers /\ legSig[l] \in Sigs \cup {None}
  BY SettlerTypes DEF Settlers
<1>3. UNCHANGED <<ledgerVars, rowVars, legVars, deposit, wallet, job, watcher, faults>>
  BY DEF TakeLeg
<1>4. CASE tx' = tx /\ settler' \in Settlers
  BY <1>3, <1>4, SettlerTypes, SettlerMove DEF legVars, chainVars
<1>5. CASE Broadcast(l) /\ settler' = [it EXCEPT !.at = "record", !.sig = NewSig]
  <2>1. tx' \in [Sigs -> Tx] /\ TxGrows /\ TxFits'
    BY <1>2, <1>5, Sent
  <2>2. NewSig \in Sigs /\ \A w \in Withdrawals : w # l => Live(w)' = Live(w)
    BY <1>2, <1>5, Sent
  <2>3. \A w \in Withdrawals : w # l
    BY <1>2, CustodyAssumption
  <2>4. settler' \in Settlers
    BY <1>2, <1>5, <2>2 DEF Settlers
  <2>5. TypeOK'
    BY <1>3, <2>1, <2>4 DEF Inv, TypeOK, ledgerVars, rowVars, legVars
  <2>6. \A w \in Withdrawals : SameRow(w)
    BY <1>3, <2>2, <2>3 DEF SameRow, NoneSent, ledgerVars, rowVars
  <2>7. QED
    BY <1>3, <2>1, <2>5, <2>6, QuietStep
<1>6. CASE settler' = [it EXCEPT !.leg = None] /\ UNCHANGED tx
  BY <1>2, <1>4, <1>6 DEF Settlers
<1>7. CASE settler' = [it EXCEPT !.at = "ask", !.sig = legSig[l]] /\ UNCHANGED tx
  BY <1>2, <1>4, <1>7 DEF Settlers
<1>8. QED
  BY <1>1, <1>5, <1>6, <1>7

LEMMA RecordLegStep ==
  ASSUME Inv, RecordLeg
  PROVE  Inv'
<1>1. settler' \in Settlers /\ settler.sig \in Sigs \cup {None}
  BY SettlerTypes DEF RecordLeg, Settlers
<1>2. leg' \in [Legs -> LegStatus] /\ legSig' \in [Legs -> Sigs \cup {None}]
  BY <1>1, SettlerTypes DEF RecordLeg, LegStatus
<1>3. QED
  BY <1>1, <1>2, SettlerMove DEF RecordLeg

LEMMA AskLegStep ==
  ASSUME Inv, AskLeg
  PROVE  Inv'
<1>1. settler' \in Settlers
  BY SettlerTypes DEF AskLeg
<1>2. leg' \in [Legs -> LegStatus] /\ legSig' \in [Legs -> Sigs \cup {None}]
  BY SettlerTypes DEF AskLeg, LegStatus
<1>3. QED
  BY <1>1, <1>2, SettlerMove DEF AskLeg

\* The watcher or the depositors move.
LEMMA DepositMove ==
  ASSUME Inv, watcher' \in Watchers, deposit' \in [Deposits -> DepositStages],
         settled' \in [Users -> Nat], wallet' \in [Wallets -> Nat], faults' \in Nat,
         UNCHANGED <<house, debited, returned, rowVars, legVars, tx, job, settler>>
  PROVE  Inv'
<1>1. TypeOK'
  BY DEF Inv, TypeOK, rowVars, legVars
<1>2. QED
  BY <1>1, CalmStep

LEMMA DepositTypes ==
  ASSUME Inv
  PROVE  /\ watcher \in Watchers /\ WatcherIdle \in Watchers
         /\ deposit \in [Deposits -> DepositStages] /\ settled \in [Users -> Nat]
         /\ wallet \in [Wallets -> Nat] /\ faults \in Nat
BY DEF Inv, TypeOK, WatcherIdle, Watchers

LEMMA WatcherMoves ==
  ASSUME Inv, WatcherTick \/ EndSweep \/ ReadReceipts \/ EndWatcherTick
  PROVE  Inv'
<1>1. watcher' \in Watchers
  BY DepositTypes DEF WatcherTick, EndSweep, ReadReceipts, EndWatcherTick, WatcherIdle,
     Watchers, Uncredited
<1>2. UNCHANGED <<ledgerVars, rowVars, legVars, deposit, chainVars, job, settler, faults>>
  BY DEF WatcherTick, EndSweep, ReadReceipts, EndWatcherTick
<1>3. QED
  BY <1>1, <1>2, DepositTypes, DepositMove DEF ledgerVars, chainVars

LEMMA DepositMoves ==
  ASSUME Inv, (\E d \in Deposits : Arrive(d)) \/ Sweep \/ RecordReceipt \/ CreditDeposit
              \/ CloseReceipt
  PROVE  Inv'
<1>1. CASE \E d \in Deposits : Arrive(d)
  <2>1. deposit' \in [Deposits -> DepositStages]
    BY <1>1, DepositTypes DEF Arrive, DepositStages
  <2>2. QED
    BY <1>1, <2>1, DepositTypes, DepositMove DEF Arrive, ledgerVars, chainVars, memoryVars
<1>2. CASE Sweep
  <2>1. PICK d \in watcher.todo :
          /\ deposit' = [deposit EXCEPT ![d] = "swept"]
          /\ wallet' = [wallet EXCEPT !["treasury"] = @ + Gift[d]]
          /\ watcher' = [watcher EXCEPT !.todo = @ \ {d}, !.events = @ \cup {d}]
    BY <1>2 DEF Sweep
  <2>2. d \in Deposits /\ watcher' \in Watchers
    BY <2>1, DepositTypes DEF Watchers
  <2>3. Gift[d] \in Nat
    BY <2>2, CustodyAssumption
  <2>4. wallet' \in [Wallets -> Nat]
    <3>1. PICK t \in Wallets : t = "treasury"
      BY DEF Wallets
    <3>2. wallet' = [wallet EXCEPT ![t] = @ + Gift[d]]
      BY <2>1, <3>1
    <3>3. QED
      BY <2>3, <3>2, DepositTypes
  <2>5. deposit' \in [Deposits -> DepositStages]
    BY <2>1, DepositTypes DEF DepositStages
  <2>6. QED
    BY <1>2, <2>2, <2>4, <2>5, DepositTypes, DepositMove DEF Sweep, ledgerVars
<1>3. CASE RecordReceipt
  <2>1. watcher' \in Watchers /\ deposit' \in [Deposits -> DepositStages]
    BY <1>3, DepositTypes DEF RecordReceipt, Watchers, DepositStages
  <2>2. QED
    BY <1>3, <2>1, DepositTypes, DepositMove DEF RecordReceipt, ledgerVars, chainVars
<1>4. CASE CreditDeposit
  <2>1. PICK d \in watcher.todo :
          /\ settled' = IF KeyFree(d) THEN [settled EXCEPT ![Depositor[d]] = @ + Gift[d]]
                        ELSE settled
          /\ deposit' = [deposit EXCEPT ![d] = "credited"]
          /\ watcher' = [watcher EXCEPT !.at = "close", !.d = d, !.todo = @ \ {d}]
    BY <1>4 DEF CreditDeposit
  <2>2. d \in Deposits /\ watcher' \in Watchers
    BY <2>1, DepositTypes DEF Watchers
  <2>3. Gift[d] \in Nat /\ Depositor[d] \in Users
    BY <2>2, CustodyAssumption
  <2>4. settled' \in [Users -> Nat]
    BY <2>1, <2>3, DepositTypes
  <2>5. deposit' \in [Deposits -> DepositStages]
    BY <2>1, DepositTypes DEF DepositStages
  <2>6. QED
    BY <1>4, <2>2, <2>4, <2>5, DepositTypes, DepositMove DEF CreditDeposit, chainVars
<1>5. CASE CloseReceipt
  <2>1. watcher' \in Watchers /\ deposit' \in [Deposits -> DepositStages]
    BY <1>5, DepositTypes DEF CloseReceipt, Watchers, DepositStages
  <2>2. QED
    BY <1>5, <2>1, DepositTypes, DepositMove DEF CloseReceipt, ledgerVars, chainVars
<1>6. QED
  BY <1>1, <1>2, <1>3, <1>4, <1>5

LEMMA LandStep ==
  ASSUME Inv, NEW x \in Sigs, Land(x)
  PROVE  Inv'
<1>1. tx \in [Sigs -> Tx] /\ tx[x].fate = "flying" /\ tx' = [tx EXCEPT ![x].fate = "landed"]
  BY DEF Inv, TypeOK, Land
<1>2. PICK it \in Withdrawals \cup Legs : it = tx[x].what
  BY <1>1 DEF Inv, TxFits
<1> DEFINE src == IF it \in Legs THEN From[it] ELSE "treasury"
           amount == IF it \in Legs THEN Worth[it] ELSE Sum[it]
<1>3. src \in Wallets /\ amount \in Nat
  BY CustodyAssumption DEF Wallets
<1>4. /\ wallet[src] >= amount
      /\ wallet' = [y \in Wallets |->
           wallet[y] - (IF y = src THEN amount ELSE 0)
                     + (IF it \in Legs /\ To[it] = y THEN amount ELSE 0)]
  BY <1>2 DEF Land
<1> HIDE DEF src, amount
<1>5. wallet' \in [Wallets -> Nat]
  <2>1. ASSUME NEW y \in Wallets
        PROVE  wallet[y] - (IF y = src THEN amount ELSE 0)
                 + (IF it \in Legs /\ To[it] = y THEN amount ELSE 0) \in Nat
    <3>1. wallet[y] \in Nat
      BY DepositTypes
    <3>2. wallet[y] - (IF y = src THEN amount ELSE 0) \in Nat
      BY <1>3, <1>4, <3>1
    <3>3. QED
      BY <1>3, <3>2
  <2>2. QED
    BY <1>4, <2>1
<1>6. /\ tx' \in [Sigs -> Tx] /\ tx'[x].what = tx[x].what /\ tx'[x].fate = "landed"
      /\ \A y \in Sigs \ {x} : tx'[y] = tx[y]
  BY <1>1 DEF Tx, Fates
<1>7. UNCHANGED <<ledgerVars, rowVars, legVars, deposit, memoryVars, faults>>
  BY DEF Land
<1>8. TypeOK'
  BY <1>5, <1>6, <1>7 DEF Inv, TypeOK, ledgerVars, rowVars, legVars, memoryVars
<1>9. TxGrows /\ TxFits'
  BY <1>1, <1>6 DEF Inv, TxGrows, TxFits
<1>10. \A w \in Withdrawals : NoneSent(w)
  BY <1>1, <1>6 DEF NoneSent, Live
<1>11. QED
  BY <1>7, <1>8, <1>9, <1>10, QuietStep DEF SameRow, ledgerVars, rowVars, memoryVars

LEMMA DieStep ==
  ASSUME Inv, NEW x \in Sigs, Die(x)
  PROVE  Inv'
<1>1. tx \in [Sigs -> Tx] /\ tx[x].fate = "flying" /\ tx' = [tx EXCEPT ![x].fate = "dead"]
  BY DEF Inv, TypeOK, Die
<1>2. /\ tx' \in [Sigs -> Tx] /\ tx'[x].what = tx[x].what /\ tx'[x].fate = "dead"
      /\ \A y \in Sigs \ {x} : tx'[y] = tx[y]
  BY <1>1 DEF Tx, Fates
<1>3. UNCHANGED <<ledgerVars, rowVars, legVars, deposit, wallet, memoryVars, faults>>
  BY DEF Die
<1>4. TypeOK'
  BY <1>2, <1>3 DEF Inv, TypeOK, ledgerVars, rowVars, legVars, memoryVars
<1>5. TxGrows /\ TxFits'
  BY <1>1, <1>2 DEF Inv, TxGrows, TxFits
<1>6. \A w \in Withdrawals : NoneSent(w)
  BY <1>1, <1>2 DEF NoneSent, Live
<1>7. QED
  BY <1>3, <1>4, <1>5, <1>6, QuietStep DEF SameRow, ledgerVars, rowVars, memoryVars

-----------------------------------------------------------------------------
(* Errors and crashes.                                                     *)

LEMMA FailStep ==
  ASSUME Inv, Fail
  PROVE  Inv'
<1>1. faults' \in Nat
  <2>1. faults \in Nat
    BY DepositTypes
  <2>2. faults' = faults + 1
    BY DEF Fail, HandlerFails, SettlerFails, WatcherFails, Crash, FaultHappens
  <2>3. QED
    BY <2>1, <2>2
<1>2. CASE \E k \in Slots : HandlerFails(k)
  <2>1. PICK k \in Slots : HandlerFails(k)
    BY <1>2
  <2>2. Touches(k) /\ Rests(job'[k])
    BY <2>1, DoneJob DEF HandlerFails
  <2>3. UNCHANGED <<ledgerVars, rowVars, legVars, deposit, chainVars, settler, watcher>>
    BY <2>1 DEF HandlerFails
  <2>4. TypeOK'
    BY <1>1, <2>2, <2>3 DEF Inv, TypeOK, Touches, ledgerVars, rowVars, legVars, chainVars
  <2>5. TxGrows /\ TxFits' /\ \A w : NoneSent(w)
    BY <2>3, TxSame DEF chainVars
  <2>6. \A w \in Withdrawals : SameRow(w)
    BY <2>3, <2>5 DEF SameRow, ledgerVars, rowVars
  <2>7. \A h \in Slots : job'[h] = job[h] \/ Rests(job'[h])
    BY <2>2 DEF Touches
  <2>8. QED
    BY <2>4, <2>5, <2>6, <2>7, QuietStep
<1>3. CASE SettlerFails
  <2>1. settler' \in Settlers
    BY <1>3, SettlerTypes DEF SettlerFails
  <2>2. UNCHANGED <<ledgerVars, rowVars, legVars, deposit, chainVars, job, watcher>>
    BY <1>3 DEF SettlerFails
  <2>3. TypeOK'
    BY <1>1, <2>1, <2>2 DEF Inv, TypeOK, ledgerVars, rowVars, legVars, chainVars
  <2>4. QED
    BY <2>2, <2>3, CalmStep DEF ledgerVars, chainVars
<1>4. CASE WatcherFails
  <2>1. watcher' \in Watchers
    BY <1>4, DepositTypes DEF WatcherFails, Watchers
  <2>2. UNCHANGED <<ledgerVars, rowVars, legVars, deposit, chainVars, job, settler>>
    BY <1>4 DEF WatcherFails
  <2>3. QED
    BY <1>1, <2>1, <2>2, DepositTypes, DepositMove DEF ledgerVars, chainVars
<1>5. CASE Crash
  <2>1. /\ job' = [k \in Slots |-> Idle] /\ settler' = SettlerIdle /\ watcher' = WatcherIdle
        /\ UNCHANGED <<ledgerVars, rowVars, legVars, deposit, chainVars>>
    BY <1>5 DEF Crash
  <2>2. \A k \in Slots : job'[k] = Idle /\ Rests(job'[k])
    BY <2>1, IdleJob DEF Rests
  <2>3. TypeOK'
    BY <1>1, <2>1, IdleJob, SettlerTypes, DepositTypes
    DEF Inv, TypeOK, ledgerVars, rowVars, legVars, chainVars
  <2>4. TxGrows /\ TxFits' /\ \A w : NoneSent(w)
    BY <2>1, TxSame DEF chainVars
  <2>5. \A w \in Withdrawals : SameRow(w)
    BY <2>1, <2>4 DEF SameRow, ledgerVars, rowVars
  <2>6. QED
    BY <2>2, <2>3, <2>4, <2>5, QuietStep
<1>6. QED
  BY <1>2, <1>3, <1>4, <1>5 DEF Fail

-----------------------------------------------------------------------------
(* The theorems.                                                           *)

LEMMA InitInv == Init => Inv
<1> SUFFICES ASSUME Init PROVE Inv
  OBVIOUS
<1>1. TypeOK
  <2>1. \A u \in Users : Funds[u] \in Nat
    BY CustodyAssumption
  <2>2. Total(Funds, Users) \in Nat
    BY <2>1, Finite, TotalNat
  <2>3. wallet \in [Wallets -> Nat]
    BY <2>2 DEF Init
  <2>4. settled \in [Users -> Nat]
    BY CustodyAssumption DEF Init
  <2>5. tx \in [Sigs -> Tx]
    BY DEF Init, Tx, Fates
  <2>6. job \in [Slots -> Jobs]
    BY IdleJob DEF Init
  <2>7. settler \in Settlers /\ watcher \in Watchers
    BY DEF Init, SettlerIdle, Settlers, WatcherIdle, Watchers
  <2>8. QED
    BY <2>3, <2>4, <2>5, <2>6, <2>7 DEF Init, TypeOK, WithdrawalStatus, LegStatus, DepositStages
<1>2. \A w : Live(w) = {}
  BY DEF Init, Live
<1>3. JobsFit /\ OneOrigin
  BY IdleJob DEF Init, JobsFit, Fits, RequestFits, ReversalFits, OneOrigin, Origin, Origins,
    Reversing
<1>4. RowsFit
  BY <1>2 DEF Init, RowsFit, RowFits
<1>5. TxFits
  BY DEF Init, TxFits
<1>6. UnderCap
  <2> SUFFICES ASSUME NEW u \in Users PROVE Total(Outgoing(u), Withdrawals) <= DailyCap
    BY DEF UnderCap
  <2>1. Outgoing(u) = [w \in Withdrawals |-> 0]
    BY DEF Outgoing, Counts, Init, INFLIGHT
  <2>2. Total(Outgoing(u), Withdrawals) = 0
    BY <2>1, Finite, TotalZero
  <2>3. QED
    BY <2>2, CustodyAssumption
<1>7. QED
  BY <1>1, <1>3, <1>4, <1>5, <1>6 DEF Inv

LEMMA StepInv == Inv /\ [Next]_vars => Inv'
<1> SUFFICES ASSUME Inv, [Next]_vars PROVE Inv'
  OBVIOUS
<1>1. CASE UNCHANGED vars
  <2>1. TypeOK'
    BY <1>1 DEF vars, ledgerVars, rowVars, legVars, chainVars, memoryVars, Inv, TypeOK
  <2>2. QED
    BY <1>1, <2>1, CalmStep DEF vars, ledgerVars, chainVars, memoryVars
<1>2. ASSUME NEW k \in Slots, Step(k)
      PROVE  Inv'
  <2>1. CASE NextRow(k)
    BY <2>1, NextRowStep
  <2>2. CASE ~NextRow(k)
    <3>1. job[k].at \notin {"idle", "next"}
      BY <1>2, <2>2 DEF Step, Withdraw, Resolve, DebitWithdrawal, RefuseWithdrawal,
         SendWithdrawal, RecordWithdrawal, AskWithdrawal, ConfirmWithdrawal, ReadAgain,
         CreditBack, MarkFailed, MarkForReview, At
    <3>2. PICK w \in Withdrawals : w = job[k].w
      BY <3>1, AtRow
    <3>3. QED
      BY <1>2, <2>2, <3>2, DebitStep, RefuseStep, SendStep, RecordStep, AskStep, ConfirmStep,
         ReadAgainStep, CreditStep, FailedStep, ReviewStep DEF Step, Withdraw, Resolve
  <2>3. QED
    BY <2>1, <2>2
<1>3. CASE SettlerTick \/ SettlerStep
  BY <1>3, SettlerTickStep, TakeLegStep, RecordLegStep, AskLegStep DEF SettlerStep
<1>4. CASE WatcherTick \/ WatcherStep \/ \E d \in Deposits : Arrive(d)
  BY <1>4, WatcherMoves, DepositMoves DEF WatcherStep
<1>5. QED
  BY <1>1, <1>2, <1>3, <1>4, RequestStep, StartPassStep, PostLegStep, LandStep, DieStep,
     FailStep DEF Next

\* The inductive invariant holds in every state: debits, credits, transfers and
\* statuses of a withdrawal agree, whatever requests, passes, errors and crashes
\* interleave (withdrawals.ts).
THEOREM Invariance == Spec => []Inv
BY InitInv, StepInv, PTL DEF Spec

\* Rows, handlers and pollers stay in their ranges, and no account or wallet is
\* overdrawn.
THEOREM Typing == Spec => []TypeOK
<1>1. Inv => TypeOK
  BY DEF Inv
<1>2. QED
  BY <1>1, Invariance, PTL

LEMMA AtMostOne ==
  ASSUME NEW S, \A x, y \in S : x = y
  PROVE  Cardinality(S) <= 1
<1>1. CASE S = {}
  BY <1>1, FS_EmptySet
<1>2. ASSUME NEW x \in S PROVE Cardinality(S) <= 1
  <2>1. S = {x}
    BY <1>2
  <2>2. QED
    BY <2>1, FS_Singleton
<1>3. QED
  BY <1>1, <1>2

\* For any number of withdrawals, handlers, errors and crashes, a withdrawal is
\* paid at most once, and not when it was given back (reverseWithdrawal).
THEOREM NeverPaidAndReturned == Spec => []PaidXorReversed
<1>1. Inv => PaidXorReversed
  <2> SUFFICES ASSUME Inv, NEW w \in Withdrawals
               PROVE  /\ Cardinality(Live(w)) <= 1
                      /\ Live(w) # {} => w \in debited /\ w \notin returned
                      /\ w \in returned => w \in debited
    BY DEF PaidXorReversed
  <2>1. RowFits(w)
    BY DEF Inv, RowsFit
  <2>2. Cardinality(Live(w)) <= 1
    BY <2>1, AtMostOne DEF RowFits
  <2>3. QED
    BY <2>1, <2>2 DEF RowFits
<1>2. QED
  BY <1>1, Invariance, PTL

\* What a user has out counts against the cap.
LEMMA CapHolds == Inv => CapBoundsOutflow
<1> SUFFICES ASSUME Inv, NEW u \in Users
             PROVE  Total([w \in Withdrawals |->
                             IF Owner[w] = u /\ w \in debited \ returned THEN Sum[w] ELSE 0],
                          Withdrawals) <= DailyCap
  BY DEF CapBoundsOutflow
<1> DEFINE f == [w \in Withdrawals |->
                   IF Owner[w] = u /\ w \in debited \ returned THEN Sum[w] ELSE 0]
           g == Outgoing(u)
<1>1. \A w \in Withdrawals : f[w] \in Nat /\ g[w] \in Nat /\ f[w] <= g[w]
  <2>1. \A w \in Withdrawals : Sum[w] \in Nat
    BY CustodyAssumption
  <2>2. \A w \in Withdrawals : w \in debited \ returned => Counts(w)
    BY DEF Inv, RowsFit, RowFits, Counts
  <2>3. QED
    BY <2>1, <2>2, OutgoingNat
<1>2. Total(g, Withdrawals) <= DailyCap
  BY DEF Inv, UnderCap
<1> HIDE DEF f, g
<1>3. \A w \in Withdrawals : f[w] \in Nat
  BY <1>1
<1>4. \A w \in Withdrawals : g[w] \in Nat
  BY <1>1
<1>5. Total(f, Withdrawals) <= Total(g, Withdrawals)
  BY <1>1, Finite, TotalLess
<1>6. Total(f, Withdrawals) \in Nat /\ Total(g, Withdrawals) \in Nat /\ DailyCap \in Nat
  BY <1>3, <1>4, Finite, TotalNat, CustodyAssumption
<1>7. Total(f, Withdrawals) <= DailyCap
  BY <1>2, <1>5, <1>6
<1>8. QED
  BY <1>7 DEF f

\* For any number of withdrawals that race each other and the reversals, what a
\* user has out never exceeds the daily cap (requestWithdrawal).
THEOREM CapAlwaysBounds == Spec => []CapBoundsOutflow
BY CapHolds, Invariance, PTL

-----------------------------------------------------------------------------
(* The outbox once more: what a leg may have sent too often.               *)

\* The transfer of leg l that is recorded, or about to be.
Current(l) ==
  IF leg[l] \in {"SUBMITTED", "CONFIRMED"} THEN {legSig[l]}
  ELSE IF settler.at = "record" /\ settler.leg = l THEN {settler.sig} ELSE {}

\* The transfers of leg l that nobody knows of any more.
Lost(l) == Live(l) \ Current(l)

\* The settler works on a leg as the table has it.
SettlerFits ==
  settler.at \in {"record", "ask"} =>
    /\ settler.leg \in Legs
    /\ settler.at = "record" => leg[settler.leg] = "PENDING"
    /\ settler.at = "ask" => /\ leg[settler.leg] = "SUBMITTED"
                             /\ settler.sig = legSig[settler.leg]

LegInv == SettlerFits /\ \A l \in Legs : Cardinality(Lost(l)) <= faults

LEMMA LostFinite == ASSUME NEW l PROVE IsFiniteSet(Lost(l)) /\ IsFiniteSet(Lost(l)')
<1>1. Lost(l) \subseteq Sigs /\ Lost(l)' \subseteq Sigs
  BY DEF Lost, Live
<1>2. QED
  BY <1>1, CustodyAssumption, FS_Subset

\* Nothing more is lost.
LEMMA NoneLost ==
  ASSUME Inv, LegInv, SettlerFits', faults' = faults,
         \A l \in Legs : Lost(l)' \subseteq Lost(l)
  PROVE  LegInv'
<1> SUFFICES ASSUME NEW l \in Legs PROVE Cardinality(Lost(l)') <= faults'
  BY DEF LegInv
<1> DEFINE S == Lost(l)
           T == Lost(l)'
<1>1. IsFiniteSet(S) /\ IsFiniteSet(T) /\ T \subseteq S
  BY LostFinite
<1>2. Cardinality(S) <= faults /\ faults \in Nat
  BY DepositTypes DEF LegInv
<1> HIDE DEF S, T
<1>3. Cardinality(T) <= Cardinality(S) /\ Cardinality(T) \in Nat /\ Cardinality(S) \in Nat
  BY <1>1, FS_Subset, FS_CardinalityType
<1>4. Cardinality(T) <= faults'
  BY <1>2, <1>3
<1>5. QED
  BY <1>4 DEF T

\* A fault loses at most one transfer of each leg.
LEMMA OneLost ==
  ASSUME Inv, LegInv, SettlerFits', faults' = faults + 1,
         \A l \in Legs : \E x : Lost(l)' \subseteq Lost(l) \cup {x}
  PROVE  LegInv'
<1> SUFFICES ASSUME NEW l \in Legs PROVE Cardinality(Lost(l)') <= faults'
  BY DEF LegInv
<1>1. PICK x : Lost(l)' \subseteq Lost(l) \cup {x}
  OBVIOUS
<1> DEFINE S == Lost(l)
           T == Lost(l)'
<1>2. IsFiniteSet(S) /\ IsFiniteSet(T) /\ T \subseteq S \cup {x}
  BY <1>1, LostFinite
<1>3. Cardinality(S) <= faults /\ faults \in Nat
  BY DepositTypes DEF LegInv
<1> HIDE DEF S, T
<1>4. /\ IsFiniteSet(S \cup {x})
      /\ Cardinality(S \cup {x}) = Cardinality(S) \/ Cardinality(S \cup {x}) = Cardinality(S) + 1
  BY <1>2, FS_AddElement
<1>5. Cardinality(T) <= Cardinality(S \cup {x})
  BY <1>2, <1>4, FS_Subset
<1>6. Cardinality(T) \in Nat /\ Cardinality(S) \in Nat
  BY <1>2, FS_CardinalityType
<1>7. Cardinality(T) <= faults'
  BY <1>3, <1>4, <1>5, <1>6
<1>8. QED
  BY <1>7 DEF T

\* A step of anybody but the settler.
LEMMA LegsKept ==
  ASSUME Inv, LegInv, UNCHANGED <<leg, legSig, settler, faults>>,
         \A l \in Legs : Live(l)' \subseteq Live(l)
  PROVE  LegInv'
<1>1. SettlerFits'
  BY DEF LegInv, SettlerFits
<1>2. \A l \in Legs : Lost(l)' \subseteq Lost(l)
  BY DEF Lost, Current
<1>3. QED
  BY <1>1, <1>2, NoneLost

LEMMA LiveSame == ASSUME tx' = tx PROVE \A it : Live(it)' = Live(it)
BY DEF Live

\* Withdrawals and deposits.
LEMMA OthersLeaveLegs ==
  ASSUME Inv,
         \/ \E k \in Slots : \/ \E w \in Withdrawals : RequestWithdrawal(k, w)
                             \/ Step(k) \/ StartPass(k)
         \/ \E d \in Deposits : Arrive(d)
         \/ WatcherTick \/ WatcherStep
         \/ \E x \in Sigs : Land(x) \/ Die(x)
  PROVE  /\ UNCHANGED <<leg, legSig, settler, faults>>
         /\ \A l \in Legs : Live(l)' \subseteq Live(l)
<1> DEFINE NoneMoved == \A l \in Legs : Live(l)' \subseteq Live(l)
<1>1. UNCHANGED <<leg, legSig, settler, faults>>
  BY DEF RequestWithdrawal, Step, Withdraw, Resolve, DebitWithdrawal, RefuseWithdrawal,
    SendWithdrawal, RecordWithdrawal, AskWithdrawal, ConfirmWithdrawal, ReadAgain,
    CreditBack, MarkFailed, NextRow, MarkForReview, StartPass, Arrive, WatcherTick,
    WatcherStep, Sweep, EndSweep, RecordReceipt, ReadReceipts, CreditDeposit,
    CloseReceipt, EndWatcherTick, Land, Die, legVars, memoryVars
<1>2. ASSUME tx' = tx PROVE NoneMoved
  BY <1>2, LiveSame
<1>3. ASSUME NEW k \in Slots, SendWithdrawal(k) PROVE NoneMoved
  <2>1. CASE tx' = tx
    BY <1>2, <2>1
  <2>2. CASE Broadcast(job[k].w)
    <3>1. job[k].w \in Withdrawals
      BY <1>3, AtRow DEF SendWithdrawal, At
    <3>2. PICK w \in Withdrawals : w = job[k].w
      BY <3>1
    <3>3. Broadcast(w)
      BY <2>2, <3>2
    <3>4. \A l \in Legs : l # w
      BY <3>2, CustodyAssumption
    <3>5. \A l \in Legs : Live(l)' = Live(l)
      BY <3>3, <3>4, Sent
    <3>6. QED
      BY <3>5
  <2>3. QED
    BY <1>3, <2>1, <2>2 DEF SendWithdrawal
<1>4. ASSUME NEW x \in Sigs, Land(x) \/ Die(x) PROVE NoneMoved
  <2>1. tx \in [Sigs -> Tx] /\ tx[x].fate = "flying"
    BY <1>4 DEF Inv, TypeOK, Land, Die
  <2>2. PICK fate \in Fates : tx' = [tx EXCEPT ![x].fate = fate]
    BY <1>4 DEF Land, Die, Fates
  <2>3. tx'[x].what = tx[x].what /\ \A y \in Sigs \ {x} : tx'[y] = tx[y]
    BY <2>1, <2>2 DEF Tx
  <2>4. \A l \in Legs : Live(l)' \subseteq Live(l)
    BY <2>1, <2>3 DEF Live
  <2>5. QED
    BY <2>4
<1>5. ASSUME \/ \E k \in Slots : \/ \E w \in Withdrawals : RequestWithdrawal(k, w)
                                 \/ Step(k) /\ ~SendWithdrawal(k)
                                 \/ StartPass(k)
             \/ \E d \in Deposits : Arrive(d)
             \/ WatcherTick \/ WatcherStep
      PROVE  NoneMoved
  <2>1. tx' = tx
    BY <1>5 DEF RequestWithdrawal, Step, Withdraw, Resolve, DebitWithdrawal,
      RefuseWithdrawal, RecordWithdrawal, AskWithdrawal, ConfirmWithdrawal, ReadAgain,
      CreditBack, MarkFailed, NextRow, MarkForReview, StartPass, Arrive, WatcherTick,
      WatcherStep, Sweep, EndSweep, RecordReceipt, ReadReceipts, CreditDeposit,
      CloseReceipt, EndWatcherTick, chainVars
  <2>2. QED
    BY <1>2, <2>1
<1> HIDE DEF NoneMoved
<1>6. NoneMoved
  BY <1>3, <1>4, <1>5
<1>7. QED
  BY <1>1, <1>6 DEF NoneMoved

LEMMA PostLegKeepsLegs ==
  ASSUME Inv, LegInv, NEW l \in Legs, PostLeg(l)
  PROVE  LegInv'
<1>1. /\ leg[l] = "NONE" /\ leg' = [leg EXCEPT ![l] = "PENDING"]
      /\ UNCHANGED <<legSig, chainVars, memoryVars, faults>>
  BY DEF PostLeg
<1>2. /\ leg'[l] = "PENDING" /\ \A m \in Legs \ {l} : leg'[m] = leg[m]
  BY <1>1, SettlerTypes
<1>3. SettlerFits'
  BY <1>1, <1>2 DEF LegInv, SettlerFits, memoryVars
<1>4. \A m \in Legs : Live(m)' = Live(m)
  BY <1>1, LiveSame DEF chainVars
<1>5. \A m \in Legs : Lost(m)' \subseteq Lost(m)
  BY <1>1, <1>2, <1>4 DEF Lost, Current, memoryVars
<1>6. QED
  BY <1>1, <1>3, <1>5, NoneLost

LEMMA SettlerKeepsLegs ==
  ASSUME Inv, LegInv, SettlerTick \/ SettlerStep
  PROVE  LegInv'
<1>1. CASE SettlerTick \/ EndSettlerTick
  <2>1. /\ settler'.at \in {"idle", "next"} /\ settler.at \in {"idle", "next"}
        /\ UNCHANGED <<legVars, chainVars, faults>>
    <3>1. CASE SettlerTick
      BY <3>1 DEF SettlerTick, SettlerIdle
    <3>2. CASE EndSettlerTick
      BY <3>2 DEF EndSettlerTick, SettlerIdle
    <3>3. QED
      BY <1>1, <3>1, <3>2
  <2>2. SettlerFits'
    BY <2>1 DEF SettlerFits
  <2>3. \A l \in Legs : Lost(l)' \subseteq Lost(l)
    BY <2>1, LiveSame DEF Lost, Current, legVars, chainVars
  <2>4. QED
    BY <2>1, <2>2, <2>3, NoneLost
<1>2. CASE TakeLeg
  <2>1. PICK l \in settler.todo :
          LET it == [settler EXCEPT !.leg = l, !.todo = @ \ {l}] IN
          \/ /\ leg[l] = "PENDING" /\ Broadcast(l)
             /\ settler' = [it EXCEPT !.at = "record", !.sig = NewSig]
          \/ settler' = [it EXCEPT !.leg = None] /\ UNCHANGED tx
          \/ /\ leg[l] = "SUBMITTED"
             /\ settler' = [it EXCEPT !.at = "ask", !.sig = legSig[l]] /\ UNCHANGED tx
    BY <1>2 DEF TakeLeg
  <2> DEFINE it == [settler EXCEPT !.leg = l, !.todo = @ \ {l}]
  <2>2. l \in Legs /\ it \in Settlers /\ it.at = "next" /\ it.leg = l /\ settler.at = "next"
    BY <1>2, SettlerTypes DEF Settlers, TakeLeg
  <2>3. UNCHANGED <<leg, legSig, faults>>
    BY <1>2 DEF TakeLeg, legVars
  <2>4. CASE /\ leg[l] = "PENDING" /\ Broadcast(l)
             /\ settler' = [it EXCEPT !.at = "record", !.sig = NewSig]
    <3>1. PICK x \in Sigs :
            /\ x = NewSig
            /\ \A m \in Legs : Live(m)' = IF m = l THEN Live(m) \cup {x} ELSE Live(m)
      BY <2>2, <2>4, Sent
    <3>2. settler'.at = "record" /\ settler'.leg = l /\ settler'.sig = x
      BY <2>2, <2>4, <3>1 DEF Settlers
    <3>3. SettlerFits'
      BY <2>2, <2>3, <2>4, <3>2 DEF SettlerFits
    <3>4. \A m \in Legs : Lost(m)' \subseteq Lost(m)
      BY <2>2, <2>3, <2>4, <3>1, <3>2 DEF Lost, Current
    <3>5. QED
      BY <2>3, <3>3, <3>4, NoneLost
  <2>5. CASE settler' = [it EXCEPT !.leg = None] /\ UNCHANGED tx
    <3>1. settler'.at = "next"
      BY <2>2, <2>5 DEF Settlers
    <3>2. SettlerFits'
      BY <3>1 DEF SettlerFits
    <3>3. \A m \in Legs : Lost(m)' \subseteq Lost(m)
      BY <2>2, <2>3, <2>5, <3>1, LiveSame DEF Lost, Current
    <3>4. QED
      BY <2>3, <3>2, <3>3, NoneLost
  <2>6. CASE /\ leg[l] = "SUBMITTED"
             /\ settler' = [it EXCEPT !.at = "ask", !.sig = legSig[l]] /\ UNCHANGED tx
    <3>1. settler'.at = "ask" /\ settler'.leg = l /\ settler'.sig = legSig[l]
      BY <2>2, <2>6 DEF Settlers
    <3>2. SettlerFits'
      BY <2>2, <2>3, <2>6, <3>1 DEF SettlerFits
    <3>3. \A m \in Legs : Lost(m)' \subseteq Lost(m)
      BY <2>2, <2>3, <2>6, <3>1, LiveSame DEF Lost, Current
    <3>4. QED
      BY <2>3, <3>2, <3>3, NoneLost
  <2>7. QED
    BY <2>1, <2>4, <2>5, <2>6
<1>3. CASE RecordLeg
  <2>1. PICK l \in Legs : l = settler.leg /\ leg[l] = "PENDING" /\ settler.at = "record"
    BY <1>3 DEF RecordLeg, LegInv, SettlerFits
  <2>2. /\ leg' = [leg EXCEPT ![l] = "SUBMITTED"]
        /\ legSig' = [legSig EXCEPT ![l] = settler.sig]
        /\ settler' = [settler EXCEPT !.at = "ask"]
        /\ UNCHANGED <<chainVars, faults>>
    BY <1>3, <2>1 DEF RecordLeg
  <2>3. /\ leg'[l] = "SUBMITTED" /\ legSig'[l] = settler.sig
        /\ \A m \in Legs \ {l} : leg'[m] = leg[m] /\ legSig'[m] = legSig[m]
        /\ settler'.at = "ask" /\ settler'.leg = l /\ settler'.sig = settler.sig
    BY <2>1, <2>2, SettlerTypes DEF Settlers
  <2>4. SettlerFits'
    BY <2>3 DEF SettlerFits
  <2>5. \A m \in Legs : Lost(m)' \subseteq Lost(m)
    BY <2>1, <2>2, <2>3, LiveSame DEF Lost, Current, chainVars
  <2>6. QED
    BY <2>2, <2>4, <2>5, NoneLost
<1>4. CASE AskLeg
  <2>1. PICK l \in Legs : /\ l = settler.leg /\ leg[l] = "SUBMITTED" /\ settler.at = "ask"
                          /\ settler.sig = legSig[l]
    BY <1>4 DEF AskLeg, LegInv, SettlerFits
  <2>2. settler'.at = "next" /\ UNCHANGED <<chainVars, faults>>
    BY <1>4, SettlerTypes DEF AskLeg, NextLeg, Settlers
  <2>3. SettlerFits'
    BY <2>2 DEF SettlerFits
  <2>4. \A m \in Legs : Live(m)' = Live(m)
    BY <2>2, LiveSame DEF chainVars
  <2>5. CASE tx[legSig[l]].fate = "dead"
    <3>1. leg' = [leg EXCEPT ![l] = "PENDING"] /\ legSig' = [legSig EXCEPT ![l] = None]
      BY <1>4, <2>1, <2>5 DEF AskLeg
    <3>2. leg'[l] = "PENDING" /\ \A m \in Legs \ {l} : leg'[m] = leg[m] /\ legSig'[m] = legSig[m]
      BY <3>1, SettlerTypes
    <3>3. legSig[l] \notin Live(l)
      BY <2>5 DEF Live
    <3>4. \A m \in Legs : Lost(m)' \subseteq Lost(m)
      BY <2>1, <2>2, <2>4, <3>2, <3>3 DEF Lost, Current
    <3>5. QED
      BY <2>2, <2>3, <3>4, NoneLost
  <2>6. CASE tx[legSig[l]].fate # "dead"
    <3>1. legSig' = legSig /\ (leg' = leg \/ leg' = [leg EXCEPT ![l] = "CONFIRMED"])
      BY <1>4, <2>1, <2>6 DEF AskLeg
    <3>2. /\ leg'[l] \in {"SUBMITTED", "CONFIRMED"}
          /\ \A m \in Legs \ {l} : leg'[m] = leg[m]
      BY <2>1, <3>1, SettlerTypes
    <3>3. \A m \in Legs : Lost(m)' \subseteq Lost(m)
      BY <2>1, <2>2, <2>4, <3>1, <3>2 DEF Lost, Current
    <3>4. QED
      BY <2>2, <2>3, <3>3, NoneLost
  <2>7. QED
    BY <2>5, <2>6
<1>5. QED
  BY <1>1, <1>2, <1>3, <1>4 DEF SettlerStep

LEMMA FailKeepsLegs ==
  ASSUME Inv, LegInv, Fail
  PROVE  LegInv'
<1>1. faults' = faults + 1 /\ UNCHANGED <<leg, legSig, tx>>
  BY DEF Fail, HandlerFails, SettlerFails, WatcherFails, Crash, FaultHappens, legVars,
    chainVars
<1>2. settler' = settler \/ settler'.at \in {"idle", "next"}
  BY SettlerTypes DEF Fail, HandlerFails, SettlerFails, WatcherFails, Crash, SettlerIdle,
    NextLeg, Settlers
<1>3. SettlerFits'
  BY <1>1, <1>2 DEF LegInv, SettlerFits
<1>4. \A l \in Legs : Lost(l)' \subseteq Lost(l) \cup {settler.sig}
  BY <1>1, <1>2, LiveSame DEF Lost, Current
<1>5. QED
  BY <1>1, <1>3, <1>4, OneLost

LEMMA LegStepInv == Inv /\ LegInv /\ [Next]_vars => LegInv'
<1> SUFFICES ASSUME Inv, LegInv, [Next]_vars PROVE LegInv'
  OBVIOUS
<1>1. CASE UNCHANGED vars
  BY <1>1, LiveSame, LegsKept DEF vars, legVars, chainVars, memoryVars
<1>2. QED
  BY <1>1, OthersLeaveLegs, LegsKept, PostLegKeepsLegs, SettlerKeepsLegs, FailKeepsLegs DEF Next

LEMMA LegInitInv == Init => LegInv
<1> SUFFICES ASSUME Init PROVE LegInv
  OBVIOUS
<1>1. \A l \in Legs : Lost(l) = {}
  BY DEF Init, Lost, Live
<1>2. SettlerFits /\ faults = 0
  BY DEF Init, SettlerFits, SettlerIdle
<1>3. QED
  BY <1>1, <1>2, FS_EmptySet DEF LegInv

\* For any number of legs and whatever else is on the chain, a leg moves money
\* once, and once more at most for each error or crash (ChainSettler).
THEOREM LegsAlwaysLandOnce == Spec => []LegsLandOnce
<1>1. Spec => []LegInv
  BY Invariance, LegInitInv, LegStepInv, PTL DEF Spec
<1>2. Inv /\ LegInv => LegsLandOnce
  <2> SUFFICES ASSUME Inv, LegInv, NEW l \in Legs
               PROVE  Cardinality(Live(l)) <= 1 + faults
    BY DEF LegsLandOnce
  <2>1. PICK x : Live(l) \subseteq Lost(l) \cup {x}
    BY DEF Lost, Current
  <2> DEFINE S == Lost(l)
             T == Live(l)
  <2>2. T \subseteq Sigs /\ IsFiniteSet(Sigs)
    BY CustodyAssumption DEF Live
  <2>3. IsFiniteSet(S) /\ IsFiniteSet(T) /\ T \subseteq S \cup {x}
    BY <2>1, <2>2, LostFinite, FS_Subset
  <2>4. Cardinality(S) <= faults /\ faults \in Nat
    BY DepositTypes DEF LegInv
  <2> HIDE DEF S, T
  <2>5. /\ IsFiniteSet(S \cup {x})
        /\ Cardinality(S \cup {x}) = Cardinality(S) \/ Cardinality(S \cup {x}) = Cardinality(S) + 1
    BY <2>3, FS_AddElement
  <2>6. Cardinality(T) <= Cardinality(S \cup {x})
    BY <2>3, <2>5, FS_Subset
  <2>7. Cardinality(T) \in Nat /\ Cardinality(S) \in Nat
    BY <2>3, FS_CardinalityType
  <2>8. Cardinality(T) <= 1 + faults
    BY <2>4, <2>5, <2>6, <2>7
  <2>9. QED
    BY <2>8 DEF T
<1>3. QED
  BY <1>1, <1>2, Invariance, PTL

-----------------------------------------------------------------------------
(* The wallets and the books.                                              *)

SentFor(l, x) == x \in Sigs /\ tx[x].what = l /\ tx[x].fate # "free"

\* What is final is true: CONFIRMED rows were paid, and nothing was sent for a
\* leg that is not there.
RowsFinal ==
  /\ \A w \in Withdrawals : wstatus[w] = "CONFIRMED" => Landed(w) # {}
  /\ \A k \in Slots : job[k].at = "confirm" => Landed(job[k].w) # {}

LegsFinal ==
  /\ \A l \in Legs : /\ leg[l] = "NONE" => Live(l) = {}
                     /\ leg[l] \in {"SUBMITTED", "CONFIRMED"} => SentFor(l, legSig[l])
                     /\ leg[l] = "CONFIRMED" => tx[legSig[l]].fate = "landed"
  /\ settler.at = "record" => SentFor(settler.leg, settler.sig)

\* The watcher works on deposits as chain and table have them.
WatcherFits ==
  /\ \A d \in watcher.events : deposit[d] = "swept"
  /\ \A d \in watcher.todo :
       /\ watcher.at = "sweep" => deposit[d] = "arrived"
       /\ watcher.at \in {"credit", "close"} => deposit[d] \in {"recorded", "credited"}
  /\ watcher.at = "close" =>
       /\ watcher.d \in Deposits \ watcher.todo /\ deposit[watcher.d] = "credited"

Books(y) == IF y = "treasury" THEN Total(settled, Users) ELSE house[y]

\* What the wallets have that the books do not: a debit nobody was paid for, a
\* leg that landed or was posted, a deposit that was swept and not credited.
Unpaid == [w \in Withdrawals |->
             IF w \in debited /\ w \notin returned /\ Landed(w) = {} THEN Sum[w] ELSE 0]
Unmoved(y) == [l \in Legs |-> (IF Landed(l) = {} THEN 0 ELSE Share(l, y))
                              - (IF leg[l] = "NONE" THEN 0 ELSE Share(l, y))]
Uncounted == [d \in Deposits |-> IF deposit[d] \in {"swept", "recorded"} THEN Gift[d] ELSE 0]

UnderWay(y) ==
  IF y = "treasury" THEN Total(Unpaid, Withdrawals) + Total(Uncounted, Deposits) ELSE 0

\* The wallets are the books and what is under way.
Balanced ==
  \A y \in Wallets : wallet[y] = Books(y) + Total(Unmoved(y), Legs) + UnderWay(y)

MovedOnce == \A l \in Legs : \A x, z \in Landed(l) : x = z

WalletInv == RowsFinal /\ LegsFinal /\ WatcherFits /\ (MovedOnce => Balanced)

\* A transfer that was signed keeps its purpose, and its end.
TxMoves ==
  \A x \in Sigs : tx[x].fate # "free" =>
    /\ tx'[x].what = tx[x].what /\ tx'[x].fate # "free"
    /\ tx[x].fate = "landed" => tx'[x].fate = "landed"

\* The step lands no transfer.
NoneLands == \A it : Landed(it)' = Landed(it)

LEMMA BroadcastMoves ==
  ASSUME Inv, NEW it \in Withdrawals \cup Legs, Broadcast(it) PROVE TxMoves /\ NoneLands
<1>1. PICK x \in Sigs : x = NewSig /\ tx[x].fate = "free"
  BY DEF Broadcast, SomeSigFree, NewSig
<1>2. tx \in [Sigs -> Tx]
  BY DEF Inv, TypeOK
<1>3. /\ \A y \in Sigs \ {x} : tx'[y] = tx[y]
      /\ tx'[x].fate = "flying"
  BY <1>1, <1>2 DEF Broadcast
<1>4. TxMoves /\ NoneLands
  BY <1>1, <1>3 DEF TxMoves, NoneLands, Landed
<1>5. QED
  BY <1>4

LEMMA FateMoves ==
  ASSUME Inv, NEW x \in Sigs, Land(x) \/ Die(x)
  PROVE  /\ TxMoves /\ tx[x].fate = "flying" /\ tx'[x].what = tx[x].what
         /\ tx'[x].fate \in {"landed", "dead"} /\ (Land(x) => tx'[x].fate = "landed")
         /\ (Die(x) => tx'[x].fate = "dead")
         /\ \A y \in Sigs \ {x} : tx'[y] = tx[y]
<1>1. tx \in [Sigs -> Tx] /\ tx[x].fate = "flying"
  BY DEF Inv, TypeOK, Land, Die
<1>2. PICK fate \in {"landed", "dead"} :
        /\ tx' = [tx EXCEPT ![x].fate = fate]
        /\ (Land(x) => fate = "landed") /\ (Die(x) => fate = "dead")
  <2>1. ~(Land(x) /\ Die(x))
    <3>1. ASSUME Land(x), Die(x) PROVE FALSE
      <4>1. tx'[x].fate = "landed" /\ tx'[x].fate = "dead"
        BY <1>1, <3>1 DEF Land, Die, Tx
      <4>2. QED
        BY <4>1
    <3>2. QED
      BY <3>1
  <2>2. CASE Land(x)
    BY <2>1, <2>2 DEF Land
  <2>3. CASE Die(x)
    BY <2>1, <2>3 DEF Die
  <2>4. QED
    BY <2>2, <2>3
<1>3. /\ tx'[x].what = tx[x].what /\ tx'[x].fate = fate
      /\ \A y \in Sigs \ {x} : tx'[y] = tx[y]
  BY <1>1, <1>2 DEF Tx
<1>4. TxMoves
  BY <1>1, <1>3 DEF TxMoves
<1>5. QED
  BY <1>1, <1>2, <1>3, <1>4

LEMMA TxStays == ASSUME tx' = tx PROVE TxMoves /\ NoneLands
BY DEF TxMoves, NoneLands, Landed

LEMMA LandedGrows ==
  ASSUME TxMoves
  PROVE  /\ \A it : Landed(it) \subseteq Landed(it)'
         /\ \A it, x : SentFor(it, x) => SentFor(it, x)'
BY DEF TxMoves, Landed, SentFor

LEMMA StepSplit ==
  ASSUME NEW k \in Slots, Step(k)
  PROVE  SendWithdrawal(k) \/ tx' = tx
BY DEF Step, Withdraw, Resolve, DebitWithdrawal, RefuseWithdrawal, RecordWithdrawal,
  AskWithdrawal, ConfirmWithdrawal, ReadAgain, CreditBack, MarkFailed, NextRow,
  MarkForReview, chainVars

LEMMA Forward ==
  ASSUME Inv, [Next]_vars
  PROVE  TxMoves /\ (NoneLands \/ \E x \in Sigs : Land(x))
<1> DEFINE Moves == TxMoves /\ (NoneLands \/ \E x \in Sigs : Land(x))
<1>1. ASSUME NEW k \in Slots, Step(k) PROVE Moves
  <2>1. CASE SendWithdrawal(k)
    <3>1. PICK w \in Withdrawals : w = job[k].w
      BY <2>1, AtRow DEF SendWithdrawal, At
    <3>2. Broadcast(w) \/ tx' = tx
      BY <2>1, <3>1 DEF SendWithdrawal
    <3>3. QED
      BY <3>2, BroadcastMoves, TxStays
  <2>2. QED
    BY <1>1, <2>1, StepSplit, TxStays
<1>2. CASE TakeLeg
  <2>1. PICK l \in settler.todo : Broadcast(l) \/ tx' = tx
    BY <1>2 DEF TakeLeg
  <2>2. l \in Legs
    BY SettlerTypes DEF Settlers
  <2>3. QED
    BY <2>1, <2>2, BroadcastMoves, TxStays
<1>3. CASE SettlerStep /\ ~TakeLeg
  BY <1>3, TxStays DEF SettlerStep, RecordLeg, AskLeg, EndSettlerTick, chainVars
<1>4. CASE WatcherTick \/ WatcherStep
  BY <1>4, TxStays DEF WatcherTick, WatcherStep, Sweep, EndSweep, RecordReceipt,
    ReadReceipts, CreditDeposit, CloseReceipt, EndWatcherTick, chainVars
<1>5. CASE Fail
  BY <1>5, TxStays DEF Fail, HandlerFails, SettlerFails, WatcherFails, Crash, chainVars
<1>6. CASE UNCHANGED vars
  BY <1>6, TxStays DEF vars, chainVars
<1>7. ASSUME NEW k \in Slots, (\E w \in Withdrawals : RequestWithdrawal(k, w)) \/ StartPass(k)
      PROVE  Moves
  BY <1>7, TxStays DEF RequestWithdrawal, StartPass, chainVars
<1>8. CASE (\E l \in Legs : PostLeg(l)) \/ SettlerTick \/ \E d \in Deposits : Arrive(d)
  BY <1>8, TxStays DEF PostLeg, SettlerTick, Arrive, chainVars
<1>9. ASSUME NEW x \in Sigs, Land(x) \/ Die(x) PROVE Moves
  <2>1. CASE Land(x)
    BY <2>1, FateMoves
  <2>2. CASE Die(x)
    <3>1. TxMoves /\ tx[x].fate = "flying" /\ tx'[x].fate = "dead"
          /\ \A y \in Sigs \ {x} : tx'[y] = tx[y]
      BY <2>2, FateMoves
    <3>2. NoneLands
      BY <3>1 DEF NoneLands, Landed
    <3>3. QED
      BY <3>1, <3>2
  <2>3. QED
    BY <1>9, <2>1, <2>2
<1>10. QED
  BY <1>1, <1>2, <1>3, <1>4, <1>5, <1>6, <1>7, <1>8, <1>9 DEF Next

\* Only an answer that a transfer landed leads a handler to confirm its row.
LEMMA HandlerConfirms ==
  ASSUME Inv, NEW h \in Slots,
         Step(h) \/ StartPass(h) \/ \E w \in Withdrawals : RequestWithdrawal(h, w)
  PROVE  /\ \A k \in Slots \ {h} : job'[k] = job[k]
         /\ job'[h].at = "confirm" =>
              /\ job[h].at = "ask" /\ tx[job[h].sig].fate = "landed"
              /\ job'[h].w = job[h].w
<1> DEFINE Others == \A k \in Slots \ {h} : job'[k] = job[k]
<1>1. job \in [Slots -> Jobs]
  BY DEF Inv, TypeOK
<1>2. ASSUME Done(h) PROVE Others /\ job'[h].at # "confirm"
  BY <1>2, DoneJob DEF Touches, Rests
<1>3. ASSUME NEW at \in Labels, GoTo(h, at)
      PROVE  Others /\ job'[h].at = at /\ job'[h].w = job[h].w
  BY <1>3, GoToJob DEF Touches
<1>4. CASE Withdraw(h)
  <2>1. CASE DebitWithdrawal(h)
    BY <1>3, <2>1 DEF DebitWithdrawal, Labels
  <2>2. CASE RefuseWithdrawal(h)
    BY <1>2, <2>2 DEF RefuseWithdrawal
  <2>3. CASE SendWithdrawal(h)
    <3>1. CASE GoTo(h, "fresh")
      BY <1>3, <3>1 DEF Labels
    <3>2. CASE job' = [job EXCEPT ![h] = [@ EXCEPT !.at = "record", !.sig = NewSig]]
      BY <1>1, <3>2 DEF Jobs
    <3>3. QED
      BY <2>3, <3>1, <3>2 DEF SendWithdrawal
  <2>4. CASE RecordWithdrawal(h)
    BY <1>1, <2>4 DEF RecordWithdrawal, Jobs
  <2>5. QED
    BY <1>4, <2>1, <2>2, <2>3, <2>4 DEF Withdraw
<1>5. CASE Resolve(h)
  <2>1. CASE AskWithdrawal(h)
    BY <1>2, <1>3, <2>1 DEF AskWithdrawal, At, Labels
  <2>2. CASE ConfirmWithdrawal(h) \/ MarkFailed(h) \/ MarkForReview(h)
    BY <1>2, <2>2 DEF ConfirmWithdrawal, MarkFailed, MarkForReview
  <2>3. CASE ReadAgain(h) \/ CreditBack(h)
    BY <1>2, <1>3, <2>3 DEF ReadAgain, CreditBack, Labels
  <2>4. CASE NextRow(h)
    <3>1. CASE job' = [job EXCEPT ![h] = Idle]
      BY <1>1, <3>1 DEF Idle
    <3>2. ASSUME NEW row \in job[h].todo,
                 job' = [job EXCEPT ![h] =
                   [@ EXCEPT !.at = "ask", !.w = row[1], !.was = row[2],
                             !.sig = wsig[row[1]], !.todo = job[h].todo \ {row}]]
          PROVE  Others /\ job'[h].at = "ask"
      <4>1. job[h] \in Jobs
        BY <1>1
      <4>2. QED
        BY <1>1, <3>2, <4>1 DEF Jobs
    <3>3. QED
      BY <2>4, <3>1, <3>2 DEF NextRow
  <2>5. QED
    BY <1>5, <2>1, <2>2, <2>3, <2>4 DEF Resolve
<1>6. CASE StartPass(h) \/ \E w \in Withdrawals : RequestWithdrawal(h, w)
  BY <1>1, <1>6 DEF StartPass, RequestWithdrawal, Idle
<1>7. QED
  BY <1>4, <1>5, <1>6 DEF Step

LEMMA NewConfirm ==
  ASSUME Inv, [Next]_vars, NEW k \in Slots, job'[k].at = "confirm"
  PROVE  \/ job'[k] = job[k]
         \/ /\ job[k].at = "ask" /\ tx[job[k].sig].fate = "landed"
            /\ job'[k].w = job[k].w
<1>1. ASSUME NEW h \in Slots,
             Step(h) \/ StartPass(h) \/ \E w \in Withdrawals : RequestWithdrawal(h, w)
      PROVE  \/ job'[k] = job[k]
             \/ /\ job[k].at = "ask" /\ tx[job[k].sig].fate = "landed"
                /\ job'[k].w = job[k].w
  BY <1>1, HandlerConfirms
<1>2. ASSUME NEW h \in Slots, HandlerFails(h) PROVE job'[k] = job[k]
  <2>1. Touches(h) /\ Rests(job'[h])
    BY <1>2, DoneJob DEF HandlerFails
  <2>2. QED
    BY <2>1 DEF Touches, Rests
<1>3. ~Crash
  BY DEF Crash, Idle
<1>4. CASE \/ \E l \in Legs : PostLeg(l)
           \/ SettlerTick \/ SettlerStep
           \/ \E d \in Deposits : Arrive(d)
           \/ WatcherTick \/ WatcherStep
           \/ \E x \in Sigs : Land(x) \/ Die(x)
           \/ SettlerFails \/ WatcherFails \/ UNCHANGED vars
  BY <1>4 DEF PostLeg, SettlerTick, SettlerStep, TakeLeg, RecordLeg, AskLeg, EndSettlerTick,
    Arrive, WatcherTick, WatcherStep, Sweep, EndSweep, RecordReceipt, ReadReceipts,
    CreditDeposit, CloseReceipt, EndWatcherTick, Land, Die, SettlerFails, WatcherFails,
    vars, memoryVars
<1>5. QED
  BY <1>1, <1>2, <1>3, <1>4 DEF Next, Fail

\* Only a handler that was told so confirms a row.
LEMMA NewConfirmed ==
  ASSUME Inv, [Next]_vars, NEW w \in Withdrawals, wstatus'[w] = "CONFIRMED"
  PROVE  \/ wstatus[w] = "CONFIRMED"
         \/ \E k \in Slots : job[k].at = "confirm" /\ job[k].w = w
<1>1. wstatus \in [Withdrawals -> WithdrawalStatus]
  BY DEF Inv, TypeOK
<1>2. ASSUME NEW k \in Slots, Withdraw(k) PROVE wstatus'[w] = wstatus[w]
  BY <1>1, <1>2 DEF Withdraw, DebitWithdrawal, RefuseWithdrawal, SendWithdrawal,
    RecordWithdrawal, rowVars
<1>3. ASSUME NEW k \in Slots, Resolve(k), ~ConfirmWithdrawal(k) PROVE wstatus'[w] = wstatus[w]
  BY <1>1, <1>3 DEF Resolve, AskWithdrawal, ReadAgain, CreditBack, MarkFailed, NextRow,
    MarkForReview, rowVars
<1>4. ASSUME NEW k \in Slots, ConfirmWithdrawal(k)
      PROVE  wstatus'[w] = wstatus[w] \/ (job[k].at = "confirm" /\ job[k].w = w)
  BY <1>1, <1>4 DEF ConfirmWithdrawal, At
<1>5. ASSUME NEW k \in Slots, (\E v \in Withdrawals : RequestWithdrawal(k, v)) \/ StartPass(k)
      PROVE  wstatus'[w] = wstatus[w]
  BY <1>1, <1>5 DEF RequestWithdrawal, StartPass, rowVars
<1>6. CASE \/ \E l \in Legs : PostLeg(l)
           \/ SettlerTick \/ SettlerStep
           \/ \E d \in Deposits : Arrive(d)
           \/ WatcherTick \/ WatcherStep
           \/ \E x \in Sigs : Land(x) \/ Die(x)
           \/ Fail \/ UNCHANGED vars
  BY <1>6 DEF PostLeg, SettlerTick, SettlerStep, TakeLeg, RecordLeg, AskLeg, EndSettlerTick,
    Arrive, WatcherTick, WatcherStep, Sweep, EndSweep, RecordReceipt, ReadReceipts,
    CreditDeposit, CloseReceipt, EndWatcherTick, Land, Die, Fail, HandlerFails, SettlerFails,
    WatcherFails, Crash, vars, rowVars
<1>7. QED
  BY <1>2, <1>3, <1>4, <1>5, <1>6 DEF Next, Step

LEMMA FinalRows ==
  ASSUME Inv, RowsFinal, [Next]_vars
  PROVE  RowsFinal'
<1>1. \A it : Landed(it) \subseteq Landed(it)'
  BY Forward, LandedGrows
<1>2. ASSUME NEW w \in Withdrawals, wstatus'[w] = "CONFIRMED" PROVE Landed(w)' # {}
  <2>1. Landed(w) # {}
    BY <1>2, NewConfirmed DEF RowsFinal
  <2>2. QED
    BY <1>1, <2>1
<1>3. ASSUME NEW k \in Slots, job'[k].at = "confirm" PROVE Landed(job[k].w)' # {}
  <2>1. CASE job'[k] = job[k]
    <3>1. PICK it : it = job[k].w
      OBVIOUS
    <3>2. job'[k].w = it /\ Landed(it) # {}
      BY <1>3, <2>1, <3>1 DEF RowsFinal
    <3>3. Landed(it)' # {}
      BY <1>1, <3>2
    <3>4. QED
      BY <3>2, <3>3 DEF Landed
  <2>2. CASE job[k].at = "ask" /\ tx[job[k].sig].fate = "landed" /\ job'[k].w = job[k].w
    <3>1. /\ job[k].w \in Withdrawals /\ RowFits(job[k].w) /\ wsig[job[k].w] # None
          /\ job[k].sig = wsig[job[k].w]
      BY <2>2, AtRow DEF Fits
    <3>2. PICK w \in Withdrawals : w = job[k].w
      BY <3>1
    <3>3. wsig[w] \in Sigs /\ tx[wsig[w]].what = w /\ tx[wsig[w]].fate = "landed"
      BY <2>2, <3>1, <3>2 DEF Inv, TypeOK, RowFits
    <3>4. Landed(w)' # {}
      BY <1>1, <3>3 DEF Landed
    <3>5. QED
      BY <2>2, <3>2, <3>4 DEF Landed
  <2>3. QED
    BY <1>3, <2>1, <2>2, NewConfirm
<1>4. QED
  BY <1>2, <1>3 DEF RowsFinal

LEMMA SentStays ==
  ASSUME TxMoves, NEW it, NEW x, SentFor(it, x)
  PROVE  SentFor(it, x)' /\ (tx[x].fate = "landed" => tx'[x].fate = "landed")
BY DEF TxMoves, SentFor

\* The settler and its rows stay, and nothing new is sent.
LEMMA FinalLegsKept ==
  ASSUME LegsFinal, TxMoves, leg' = leg, legSig' = legSig,
         settler' = settler \/ settler'.at # "record",
         \A l \in Legs : Live(l)' \subseteq Live(l)
  PROVE  LegsFinal'
<1>1. ASSUME NEW l \in Legs
      PROVE  /\ leg[l] = "NONE" => Live(l)' = {}
             /\ leg[l] \in {"SUBMITTED", "CONFIRMED"} => SentFor(l, legSig[l])'
             /\ leg[l] = "CONFIRMED" => tx'[legSig[l]].fate = "landed"
  <2>1. leg[l] = "NONE" => Live(l)' = {}
    BY DEF LegsFinal
  <2>2. ASSUME leg[l] \in {"SUBMITTED", "CONFIRMED"}
        PROVE  /\ SentFor(l, legSig[l])'
               /\ leg[l] = "CONFIRMED" => tx'[legSig[l]].fate = "landed"
    <3>1. PICK x : x = legSig[l]
      OBVIOUS
    <3>2. SentFor(l, x) /\ (leg[l] = "CONFIRMED" => tx[x].fate = "landed")
      BY <2>2, <3>1 DEF LegsFinal
    <3>3. SentFor(l, x)' /\ (leg[l] = "CONFIRMED" => tx'[x].fate = "landed")
      BY <3>2, SentStays
    <3>4. QED
      BY <3>1, <3>3 DEF SentFor
  <2>3. QED
    BY <2>1, <2>2
<1>2. settler'.at = "record" => SentFor(settler.leg, settler.sig)'
  <2>1. SUFFICES ASSUME settler'.at = "record" PROVE SentFor(settler.leg, settler.sig)'
    OBVIOUS
  <2>2. settler' = settler /\ SentFor(settler.leg, settler.sig)
    BY <2>1 DEF LegsFinal
  <2>3. PICK l, x : l = settler.leg /\ x = settler.sig
    OBVIOUS
  <2>4. SentFor(l, x)'
    BY <2>2, <2>3, SentStays
  <2>5. QED
    BY <2>2, <2>3, <2>4 DEF SentFor
<1>3. QED
  BY <1>1, <1>2 DEF LegsFinal

LEMMA FinalLegs ==
  ASSUME Inv, LegInv, LegsFinal, [Next]_vars
  PROVE  LegsFinal'
<1>1. TxMoves
  BY Forward
<1>2. CASE \/ \E k \in Slots : \/ \E w \in Withdrawals : RequestWithdrawal(k, w)
                               \/ Step(k) \/ StartPass(k)
           \/ \E d \in Deposits : Arrive(d)
           \/ WatcherTick \/ WatcherStep
           \/ \E x \in Sigs : Land(x) \/ Die(x)
  BY <1>1, <1>2, OthersLeaveLegs, FinalLegsKept
<1>3. CASE UNCHANGED vars \/ SettlerTick \/ EndSettlerTick \/ Fail
  <2>1. leg' = leg /\ legSig' = legSig /\ tx' = tx
    BY <1>3 DEF vars, legVars, chainVars, SettlerTick, EndSettlerTick, Fail, HandlerFails,
      SettlerFails, WatcherFails, Crash
  <2>2. settler' = settler \/ settler'.at # "record"
    BY <1>3, SettlerTypes DEF vars, memoryVars, SettlerTick, EndSettlerTick, Fail,
      HandlerFails, SettlerFails, WatcherFails, Crash, SettlerIdle, NextLeg, Settlers
  <2>3. \A l \in Legs : Live(l)' \subseteq Live(l)
    BY <2>1, LiveSame
  <2>4. QED
    BY <1>1, <2>1, <2>2, <2>3, FinalLegsKept
<1>4. ASSUME NEW l \in Legs, PostLeg(l) PROVE LegsFinal'
  <2>1. /\ leg' = [leg EXCEPT ![l] = "PENDING"] /\ legSig' = legSig
        /\ tx' = tx /\ settler' = settler
    BY <1>4 DEF PostLeg, chainVars, memoryVars
  <2>2. leg'[l] = "PENDING" /\ \A m \in Legs \ {l} : leg'[m] = leg[m]
    BY <2>1, SettlerTypes
  <2>3. QED
    BY <2>1, <2>2 DEF LegsFinal, Live, SentFor
<1>5. CASE TakeLeg
  <2>1. PICK l \in Legs :
          \/ /\ leg[l] = "PENDING" /\ Broadcast(l)
             /\ settler'.at = "record" /\ settler'.leg = l /\ settler'.sig = NewSig
          \/ settler'.at # "record" /\ UNCHANGED tx
    BY <1>5, SettlerTypes DEF TakeLeg, Settlers
  <2>2. leg' = leg /\ legSig' = legSig
    BY <1>5 DEF TakeLeg, legVars
  <2>3. CASE settler'.at # "record" /\ UNCHANGED tx
    BY <1>1, <2>2, <2>3, LiveSame, FinalLegsKept
  <2>4. CASE /\ leg[l] = "PENDING" /\ Broadcast(l)
             /\ settler'.at = "record" /\ settler'.leg = l /\ settler'.sig = NewSig
    <3>1. PICK x \in Sigs :
            /\ x = NewSig /\ tx'[x].what = l /\ tx'[x].fate = "flying"
            /\ \A m \in Legs : Live(m)' = IF m = l THEN Live(m) \cup {x} ELSE Live(m)
      BY <2>4, Sent
    <3>2. SentFor(settler.leg, settler.sig)'
      BY <2>4, <3>1 DEF SentFor
    <3>3. ASSUME NEW m \in Legs, leg[m] \in {"SUBMITTED", "CONFIRMED"}
          PROVE  /\ SentFor(m, legSig[m])'
                 /\ leg[m] = "CONFIRMED" => tx'[legSig[m]].fate = "landed"
      <4>1. PICK y : y = legSig[m]
        OBVIOUS
      <4>2. SentFor(m, y) /\ (leg[m] = "CONFIRMED" => tx[y].fate = "landed")
        BY <3>3, <4>1 DEF LegsFinal
      <4>3. SentFor(m, y)' /\ (leg[m] = "CONFIRMED" => tx'[y].fate = "landed")
        BY <1>1, <4>2, SentStays
      <4>4. QED
        BY <2>2, <4>1, <4>3 DEF SentFor
    <3>4. \A m \in Legs : leg[m] = "NONE" => Live(m)' = {}
      BY <2>4, <3>1 DEF LegsFinal
    <3>5. QED
      BY <2>2, <3>2, <3>3, <3>4 DEF LegsFinal
  <2>5. QED
    BY <2>1, <2>3, <2>4
<1>6. CASE RecordLeg
  <2>1. PICK l \in Legs : l = settler.leg /\ leg[l] = "PENDING" /\ settler.at = "record"
    BY <1>6 DEF RecordLeg, LegInv, SettlerFits
  <2>2. /\ leg' = [leg EXCEPT ![l] = "SUBMITTED"]
        /\ legSig' = [legSig EXCEPT ![l] = settler.sig]
        /\ settler' = [settler EXCEPT !.at = "ask"] /\ tx' = tx
    BY <1>6, <2>1 DEF RecordLeg, chainVars
  <2>3. /\ leg'[l] = "SUBMITTED" /\ legSig'[l] = settler.sig
        /\ \A m \in Legs \ {l} : leg'[m] = leg[m] /\ legSig'[m] = legSig[m]
        /\ settler'.at = "ask"
    BY <2>1, <2>2, SettlerTypes DEF Settlers
  <2>4. QED
    BY <2>1, <2>2, <2>3 DEF LegsFinal, SentFor, Live
<1>7. CASE AskLeg
  <2>1. PICK l \in Legs : /\ l = settler.leg /\ leg[l] = "SUBMITTED" /\ settler.at = "ask"
                          /\ settler.sig = legSig[l]
    BY <1>7 DEF AskLeg, LegInv, SettlerFits
  <2>2. settler'.at = "next" /\ tx' = tx
    BY <1>7, SettlerTypes DEF AskLeg, NextLeg, Settlers, chainVars
  <2>3. CASE tx[legSig[l]].fate = "dead"
    <3>1. leg' = [leg EXCEPT ![l] = "PENDING"] /\ legSig' = [legSig EXCEPT ![l] = None]
      BY <1>7, <2>1, <2>3 DEF AskLeg
    <3>2. /\ leg'[l] = "PENDING"
          /\ \A m \in Legs \ {l} : leg'[m] = leg[m] /\ legSig'[m] = legSig[m]
      BY <3>1, SettlerTypes
    <3>3. QED
      BY <2>2, <3>2 DEF LegsFinal, SentFor, Live
  <2>4. CASE tx[legSig[l]].fate = "landed"
    <3>1. legSig' = legSig /\ leg' = [leg EXCEPT ![l] = "CONFIRMED"]
      BY <1>7, <2>1, <2>4 DEF AskLeg
    <3>2. leg'[l] = "CONFIRMED" /\ \A m \in Legs \ {l} : leg'[m] = leg[m]
      BY <3>1, SettlerTypes
    <3>3. QED
      BY <2>1, <2>2, <2>4, <3>1, <3>2 DEF LegsFinal, SentFor, Live
  <2>5. CASE tx[legSig[l]].fate \notin {"dead", "landed"}
    <3>1. legSig' = legSig /\ leg' = leg
      BY <1>7, <2>1, <2>5 DEF AskLeg
    <3>2. QED
      BY <1>1, <2>2, <3>1, LiveSame, FinalLegsKept
  <2>6. QED
    BY <2>3, <2>4, <2>5
<1>8. QED
  BY <1>2, <1>3, <1>4, <1>5, <1>6, <1>7 DEF Next, SettlerStep

\* The watcher works on what chain and table have, whoever else moves.
LEMMA WatcherStaysFit ==
  ASSUME Inv, WatcherFits, [Next]_vars
  PROVE  WatcherFits'
<1>1. /\ watcher \in Watchers /\ deposit \in [Deposits -> DepositStages]
      /\ watcher.events \subseteq Deposits /\ watcher.todo \subseteq Deposits
      /\ WatcherIdle.at = "idle" /\ WatcherIdle.events = {} /\ WatcherIdle.todo = {}
  BY DepositTypes DEF Watchers, WatcherIdle
<1>2. CASE UNCHANGED <<watcher, deposit>>
  BY <1>2 DEF WatcherFits
<1>3. ASSUME NEW d \in Deposits, Arrive(d) PROVE WatcherFits'
  <2>1. /\ watcher' = watcher /\ deposit[d] = "absent"
        /\ \A e \in Deposits \ {d} : deposit'[e] = deposit[e]
    BY <1>1, <1>3 DEF Arrive, memoryVars
  <2>2. QED
    BY <1>1, <2>1 DEF WatcherFits
<1>4. CASE WatcherTick
  <2>1. /\ deposit' = deposit /\ watcher'.at = "sweep" /\ watcher'.events = {}
        /\ \A d \in watcher'.todo : deposit[d] = "arrived"
    BY <1>1, <1>4 DEF WatcherTick, WatcherIdle
  <2>2. QED
    BY <2>1 DEF WatcherFits
<1>5. CASE Sweep
  <2>1. PICK d \in watcher.todo :
          /\ deposit' = [deposit EXCEPT ![d] = "swept"]
          /\ watcher' = [watcher EXCEPT !.todo = @ \ {d}, !.events = @ \cup {d}]
    BY <1>5 DEF Sweep
  <2>2. /\ deposit'[d] = "swept" /\ \A e \in Deposits \ {d} : deposit'[e] = deposit[e]
        /\ watcher'.at = "sweep" /\ watcher'.todo = watcher.todo \ {d}
        /\ watcher'.events = watcher.events \cup {d}
    BY <1>1, <1>5, <2>1 DEF Sweep, Watchers
  <2>3. QED
    BY <1>1, <1>5, <2>2 DEF WatcherFits, Sweep
<1>6. CASE EndSweep
  <2>1. /\ deposit' = deposit /\ watcher'.at = "record" /\ watcher'.events = watcher.events
    BY <1>1, <1>6 DEF EndSweep, Watchers
  <2>2. QED
    BY <2>1 DEF WatcherFits
<1>7. CASE RecordReceipt
  <2>1. PICK d \in watcher.events :
          /\ deposit' = [deposit EXCEPT ![d] = "recorded"]
          /\ watcher' = [watcher EXCEPT !.events = @ \ {d}]
    BY <1>7 DEF RecordReceipt
  <2>2. /\ \A e \in Deposits \ {d} : deposit'[e] = deposit[e]
        /\ watcher'.at = "record" /\ watcher'.events = watcher.events \ {d}
    BY <1>1, <1>7, <2>1 DEF RecordReceipt, Watchers
  <2>3. QED
    BY <1>1, <2>2 DEF WatcherFits
<1>8. CASE ReadReceipts
  <2>1. /\ deposit' = deposit /\ watcher'.at = "credit" /\ watcher'.events = {}
        /\ watcher'.todo = Uncredited
    BY <1>1, <1>8 DEF ReadReceipts, Watchers
  <2>2. QED
    BY <2>1 DEF WatcherFits, Uncredited
<1>9. CASE CreditDeposit
  <2>1. PICK d \in watcher.todo :
          /\ deposit' = [deposit EXCEPT ![d] = "credited"]
          /\ watcher' = [watcher EXCEPT !.at = "close", !.d = d, !.todo = @ \ {d}]
    BY <1>9 DEF CreditDeposit
  <2>2. /\ deposit'[d] = "credited" /\ \A e \in Deposits \ {d} : deposit'[e] = deposit[e]
        /\ watcher'.at = "close" /\ watcher'.d = d /\ watcher'.todo = watcher.todo \ {d}
        /\ watcher'.events = watcher.events
    BY <1>1, <2>1 DEF Watchers
  <2>3. deposit[d] # "swept"
    BY <1>9, <2>1 DEF WatcherFits, CreditDeposit
  <2>4. QED
    BY <1>1, <1>9, <2>2, <2>3 DEF WatcherFits, CreditDeposit
<1>10. CASE CloseReceipt
  <2>1. PICK d \in Deposits \ watcher.todo : d = watcher.d /\ deposit[d] = "credited"
    BY <1>10 DEF CloseReceipt, WatcherFits
  <2>2. /\ \A e \in Deposits \ {d} : deposit'[e] = deposit[e]
        /\ watcher'.at = "credit" /\ watcher'.todo = watcher.todo
        /\ watcher'.events = watcher.events
    BY <1>1, <1>10, <2>1 DEF CloseReceipt, Watchers
  <2>3. QED
    BY <1>1, <1>10, <2>1, <2>2 DEF WatcherFits, CloseReceipt
<1>11. CASE EndWatcherTick \/ Crash
  <2>1. deposit' = deposit /\ watcher' = WatcherIdle
    BY <1>11 DEF EndWatcherTick, Crash
  <2>2. QED
    BY <1>1, <2>1 DEF WatcherFits
<1>12. CASE WatcherFails
  <2>1. deposit' = deposit
    BY <1>12 DEF WatcherFails
  <2>2. /\ watcher'.events \subseteq watcher.events /\ watcher'.todo \subseteq watcher.todo
        /\ \/ watcher'.at = watcher.at
           \/ watcher.at = "close" /\ watcher'.at = "credit"
        /\ watcher'.at = "close" => watcher'.d = watcher.d
    BY <1>1, <1>12 DEF WatcherFails, Watchers
  <2>3. QED
    BY <1>1, <2>1, <2>2 DEF WatcherFits
<1>13. CASE \/ \E k \in Slots : \/ \E w \in Withdrawals : RequestWithdrawal(k, w)
                                \/ Step(k) \/ StartPass(k) \/ HandlerFails(k)
            \/ \E l \in Legs : PostLeg(l)
            \/ SettlerTick \/ SettlerStep \/ SettlerFails
            \/ \E x \in Sigs : Land(x) \/ Die(x)
            \/ UNCHANGED vars
  <2>1. UNCHANGED <<watcher, deposit>>
    BY <1>13 DEF RequestWithdrawal, Step, Withdraw, Resolve, DebitWithdrawal,
      RefuseWithdrawal, SendWithdrawal, RecordWithdrawal, AskWithdrawal, ConfirmWithdrawal,
      ReadAgain, CreditBack, MarkFailed, NextRow, MarkForReview, StartPass, HandlerFails,
      PostLeg, SettlerTick, SettlerStep, TakeLeg, RecordLeg, AskLeg, EndSettlerTick,
      SettlerFails, Land, Die, vars, memoryVars
  <2>2. QED
    BY <1>2, <2>1
<1>14. QED
  BY <1>3, <1>4, <1>5, <1>6, <1>7, <1>8, <1>9, <1>10, <1>11, <1>12, <1>13 DEF Next, Fail,
    WatcherStep

\* What the sums are made of.
LEMMA SumTerms ==
  /\ \A w \in Withdrawals :
       /\ Unpaid[w] = (IF w \in debited /\ w \notin returned /\ Landed(w) = {}
                       THEN Sum[w] ELSE 0)
       /\ Unpaid[w] \in Int /\ Sum[w] \in Nat
  /\ \A d \in Deposits :
       /\ Uncounted[d] = (IF deposit[d] \in {"swept", "recorded"} THEN Gift[d] ELSE 0)
       /\ Uncounted[d] \in Int /\ Gift[d] \in Nat
  /\ \A y, l : l \in Legs =>
       /\ Unmoved(y)[l] = (IF Landed(l) = {} THEN 0 ELSE Share(l, y))
                          - (IF leg[l] = "NONE" THEN 0 ELSE Share(l, y))
       /\ Unmoved(y)[l] \in Int /\ Share(l, y) \in Int
<1>1. \A y, l : l \in Legs => Share(l, y) \in Int
  BY CustodyAssumption DEF Share
<1>2. /\ \A w \in Withdrawals : Sum[w] \in Nat
      /\ \A d \in Deposits : Gift[d] \in Nat
  BY CustodyAssumption
<1>3. QED
  BY <1>1, <1>2 DEF Unpaid, Uncounted, Unmoved

LEMMA SumTermsNext ==
  /\ \A w \in Withdrawals :
       /\ Unpaid'[w] = (IF w \in debited' /\ w \notin returned' /\ Landed(w)' = {}
                        THEN Sum[w] ELSE 0)
       /\ Unpaid'[w] \in Int
  /\ \A d \in Deposits :
       /\ Uncounted'[d] = (IF deposit'[d] \in {"swept", "recorded"} THEN Gift[d] ELSE 0)
       /\ Uncounted'[d] \in Int
  /\ \A y, l : l \in Legs =>
       /\ Unmoved(y)'[l] = (IF Landed(l)' = {} THEN 0 ELSE Share(l, y))
                           - (IF leg'[l] = "NONE" THEN 0 ELSE Share(l, y))
       /\ Unmoved(y)'[l] \in Int
<1>1. \A y, l : l \in Legs => Share(l, y) \in Int
  BY CustodyAssumption DEF Share
<1>2. /\ \A w \in Withdrawals : Sum[w] \in Nat
      /\ \A d \in Deposits : Gift[d] \in Nat
  BY CustodyAssumption
<1>3. QED
  BY <1>1, <1>2 DEF Unpaid, Uncounted, Unmoved

LEMMA SumsInt ==
  ASSUME Inv
  PROVE  /\ Total(settled, Users) \in Int /\ Total(Unpaid, Withdrawals) \in Int
         /\ Total(Uncounted, Deposits) \in Int /\ \A y : Total(Unmoved(y), Legs) \in Int
         /\ \A y \in Wallets : wallet[y] \in Int
         /\ \A y \in House : house[y] \in Int
<1>1. \A u \in Users : settled[u] \in Int
  BY DEF Inv, TypeOK
<1>2. Total(settled, Users) \in Int
  BY <1>1, CustodyAssumption, TotalInt
<1>3. Total(Unpaid, Withdrawals) \in Int
  <2> DEFINE f == Unpaid
  <2>1. \A w \in Withdrawals : f[w] \in Int
    BY SumTerms
  <2> HIDE DEF f
  <2>2. Total(f, Withdrawals) \in Int
    BY <2>1, CustodyAssumption, TotalInt
  <2>3. QED
    BY <2>2 DEF f
<1>4. Total(Uncounted, Deposits) \in Int
  <2> DEFINE f == Uncounted
  <2>1. \A d \in Deposits : f[d] \in Int
    BY SumTerms
  <2> HIDE DEF f
  <2>2. Total(f, Deposits) \in Int
    BY <2>1, CustodyAssumption, TotalInt
  <2>3. QED
    BY <2>2 DEF f
<1>5. ASSUME NEW y PROVE Total(Unmoved(y), Legs) \in Int
  <2> DEFINE f == Unmoved(y)
  <2>1. \A l \in Legs : f[l] \in Int
    BY SumTerms
  <2> HIDE DEF f
  <2>2. Total(f, Legs) \in Int
    BY <2>1, CustodyAssumption, TotalInt
  <2>3. QED
    BY <2>2 DEF f
<1>6. /\ \A y \in Wallets : wallet[y] \in Int
      /\ \A y \in House : house[y] \in Int
  BY DEF Inv, TypeOK
<1>7. QED
  BY <1>2, <1>3, <1>4, <1>5, <1>6

\* One term moves by n, and the sum with it.
LEMMA TotalMoves ==
  ASSUME NEW S, IsFiniteSet(S), NEW f, NEW g, NEW x \in S, NEW n \in Int,
         \A y \in S : f[y] \in Int,
         g[x] = f[x] + n, \A y \in S \ {x} : g[y] = f[y]
  PROVE  Total(g, S) = Total(f, S) + n
<1>1. f[x] \in Int /\ g[x] \in Int
  OBVIOUS
<1>2. Total(f, S) = f[x] + Total(f, S \ {x})
  BY TotalSplit
<1>3. \A y \in S : g[y] \in Int
  BY <1>1
<1>4. Total(g, S) = g[x] + Total(g, S \ {x})
  BY <1>3, TotalSplit
<1>5. IsFiniteSet(S \ {x})
  BY FS_Subset
<1>6. Total(g, S \ {x}) = Total(f, S \ {x})
  BY <1>5, TotalSame
<1>7. Total(f, S \ {x}) \in Int
  BY TotalInt
<1>8. QED
  BY <1>1, <1>2, <1>4, <1>6, <1>7

LEMMA SettledMoves ==
  ASSUME Inv, NEW u \in Users, NEW n \in Int,
         settled'[u] = settled[u] + n, \A v \in Users \ {u} : settled'[v] = settled[v]
  PROVE  Total(settled', Users) = Total(settled, Users) + n
<1>1. IsFiniteSet(Users) /\ \A v \in Users : settled[v] \in Int
  BY CustodyAssumption DEF Inv, TypeOK
<1>2. QED
  BY <1>1, TotalMoves

PaidSame == \A w \in Withdrawals : Unpaid'[w] = Unpaid[w]
CountedSame == \A d \in Deposits : Uncounted'[d] = Uncounted[d]
MovedSame == \A y, l : l \in Legs => Unmoved(y)'[l] = Unmoved(y)[l]

LEMMA SumsSame ==
  /\ PaidSame => Total(Unpaid', Withdrawals) = Total(Unpaid, Withdrawals)
  /\ CountedSame => Total(Uncounted', Deposits) = Total(Uncounted, Deposits)
  /\ MovedSame => \A y : Total(Unmoved(y)', Legs) = Total(Unmoved(y), Legs)
<1>1. ASSUME NEW S, IsFiniteSet(S), NEW f, NEW g, \A x \in S : g[x] = f[x]
      PROVE  Total(g, S) = Total(f, S)
  BY <1>1, TotalSame
<1>2. IsFiniteSet(Withdrawals) /\ IsFiniteSet(Deposits) /\ IsFiniteSet(Legs)
  BY CustodyAssumption
<1>3. PaidSame => Total(Unpaid', Withdrawals) = Total(Unpaid, Withdrawals)
  BY <1>1, <1>2 DEF PaidSame
<1>4. CountedSame => Total(Uncounted', Deposits) = Total(Uncounted, Deposits)
  BY <1>1, <1>2 DEF CountedSame
<1>5. ASSUME MovedSame, NEW y PROVE Total(Unmoved(y)', Legs) = Total(Unmoved(y), Legs)
  <2>1. \A l \in Legs : Unmoved(y)'[l] = Unmoved(y)[l]
    BY <1>5 DEF MovedSame
  <2>2. QED
    BY <1>1, <1>2, <2>1
<1>6. QED
  BY <1>3, <1>4, <1>5

\* One withdrawal's gap, or one deposit's or leg's, changes by n.
LEMMA PaidMoves ==
  ASSUME NEW w \in Withdrawals, NEW n \in Int, Unpaid'[w] = Unpaid[w] + n,
         \A v \in Withdrawals \ {w} : Unpaid'[v] = Unpaid[v]
  PROVE  Total(Unpaid', Withdrawals) = Total(Unpaid, Withdrawals) + n
<1>1. IsFiniteSet(Withdrawals) /\ \A v \in Withdrawals : Unpaid[v] \in Int
  BY SumTerms, CustodyAssumption
<1>2. QED
  BY <1>1, TotalMoves

LEMMA CountedMoves ==
  ASSUME NEW d \in Deposits, NEW n \in Int, Uncounted'[d] = Uncounted[d] + n,
         \A e \in Deposits \ {d} : Uncounted'[e] = Uncounted[e]
  PROVE  Total(Uncounted', Deposits) = Total(Uncounted, Deposits) + n
<1>1. IsFiniteSet(Deposits) /\ \A e \in Deposits : Uncounted[e] \in Int
  BY SumTerms, CustodyAssumption
<1>2. QED
  BY <1>1, TotalMoves

LEMMA UnmovedMoves ==
  ASSUME NEW y, NEW l \in Legs, NEW n \in Int, Unmoved(y)'[l] = Unmoved(y)[l] + n,
         \A m \in Legs \ {l} : Unmoved(y)'[m] = Unmoved(y)[m]
  PROVE  Total(Unmoved(y)', Legs) = Total(Unmoved(y), Legs) + n
<1>1. IsFiniteSet(Legs) /\ \A m \in Legs : Unmoved(y)[m] \in Int
  BY SumTerms, CustodyAssumption
<1>2. QED
  BY <1>1, TotalMoves

\* Money that leaves or reaches the treasury leaves or reaches the books, or is
\* under way.
LEMMA TreasuryMoves ==
  ASSUME Inv, Balanced, NEW t \in Int, NEW p \in Int, NEW c \in Int,
         Total(settled', Users) = Total(settled, Users) + t,
         Total(Unpaid', Withdrawals) = Total(Unpaid, Withdrawals) + p,
         Total(Uncounted', Deposits) = Total(Uncounted, Deposits) + c,
         wallet'["treasury"] = wallet["treasury"] + (t + p + c),
         \A y \in House : wallet'[y] = wallet[y] /\ house'[y] = house[y],
         MovedSame
  PROVE  Balanced'
<1>1. \A y : Total(Unmoved(y)', Legs) = Total(Unmoved(y), Legs)
  BY SumsSame
<1>2. ASSUME NEW y \in House
      PROVE  wallet'[y] = Books(y)' + Total(Unmoved(y)', Legs) + UnderWay(y)'
  <2>1. y # "treasury" /\ y \in Wallets
    BY DEF House, Wallets
  <2>2. wallet[y] = house[y] + Total(Unmoved(y), Legs) + 0
    BY <2>1 DEF Balanced, Books, UnderWay
  <2>3. QED
    BY <1>1, <2>1, <2>2 DEF Books, UnderWay
<1>3. wallet'["treasury"] = Books("treasury")' + Total(Unmoved("treasury")', Legs)
                            + UnderWay("treasury")'
  <2> DEFINE A == Total(settled, Users)
             B == Total(Unpaid, Withdrawals)
             C == Total(Uncounted, Deposits)
             M == Total(Unmoved("treasury"), Legs)
             V == wallet["treasury"]
  <2>1. V = A + M + (B + C)
    BY DEF Balanced, Books, UnderWay, Wallets
  <2>2. A \in Int /\ B \in Int /\ C \in Int /\ M \in Int /\ V \in Int
    BY SumsInt DEF Wallets
  <2>3. /\ Books("treasury")' = A + t /\ UnderWay("treasury")' = (B + p) + (C + c)
        /\ Total(Unmoved("treasury")', Legs) = M /\ wallet'["treasury"] = V + (t + p + c)
    BY <1>1 DEF Books, UnderWay
  <2> HIDE DEF A, B, C, M, V
  <2>4. V + (t + p + c) = (A + t) + M + ((B + p) + (C + c))
    BY <2>1, <2>2
  <2>5. QED
    BY <2>3, <2>4
<1>4. QED
  BY <1>2, <1>3 DEF Balanced, Wallets

\* Nothing of this moves.
LEMMA BalanceStays ==
  ASSUME Inv, Balanced, UNCHANGED <<settled, house, wallet>>,
         PaidSame, CountedSame, MovedSame
  PROVE  Balanced'
<1>1. /\ Total(settled', Users) = Total(settled, Users)
      /\ Total(Unpaid', Withdrawals) = Total(Unpaid, Withdrawals)
      /\ Total(Uncounted', Deposits) = Total(Uncounted, Deposits)
      /\ \A y : Total(Unmoved(y)', Legs) = Total(Unmoved(y), Legs)
  BY SumsSame
<1>2. \A y \in Wallets : Books(y)' = Books(y) /\ UnderWay(y)' = UnderWay(y)
  BY <1>1 DEF Books, UnderWay
<1>3. QED
  BY <1>1, <1>2 DEF Balanced

\* What keeps the gaps of withdrawals, deposits and legs as they are.
LEMMA Gaps ==
  /\ NoneLands /\ debited' = debited /\ returned' = returned => PaidSame
  /\ deposit' = deposit => CountedSame
  /\ NoneLands /\ (\A l \in Legs : leg'[l] = "NONE" <=> leg[l] = "NONE") => MovedSame
<1>1. NoneLands /\ debited' = debited /\ returned' = returned => PaidSame
  BY SumTerms, SumTermsNext DEF NoneLands, PaidSame
<1>2. deposit' = deposit => CountedSame
  BY SumTerms, SumTermsNext DEF CountedSame
<1>3. NoneLands /\ (\A l \in Legs : leg'[l] = "NONE" <=> leg[l] = "NONE") => MovedSame
  BY SumTerms, SumTermsNext DEF NoneLands, MovedSame
<1>4. QED
  BY <1>1, <1>2, <1>3

LEMMA DebitBalance ==
  ASSUME Inv, Balanced, NEW k \in Slots, NEW w \in Withdrawals, w = job[k].w,
         DebitWithdrawal(k)
  PROVE  Balanced'
<1>1. job[k].at = "debit" /\ Fits(job[k]) /\ RowFits(w)
  BY AtRow DEF DebitWithdrawal, At
<1>2. w \notin debited /\ w \notin returned /\ Landed(w) = {}
  BY <1>1 DEF Fits, RequestFits, RowFits, Origins, Landed, Live
<1>3. /\ UNCHANGED <<house, returned, leg, deposit, wallet>> /\ NoneLands
  BY TxStays DEF DebitWithdrawal, legVars, chainVars
<1>4. MovedSame /\ CountedSame
  BY <1>3, Gaps
<1>5. CASE settled' = settled /\ debited' = debited
  BY <1>3, <1>4, <1>5, Gaps, BalanceStays
<1>6. CASE /\ settled' = [settled EXCEPT ![Owner[w]] = @ - Sum[w]]
           /\ debited' = debited \cup {w}
  <2>1. Owner[w] \in Users /\ Sum[w] \in Nat /\ settled \in [Users -> Nat]
    BY CustodyAssumption DEF Inv, TypeOK
  <2>2. PICK u \in Users, n \in Int : u = Owner[w] /\ n = Sum[w]
    BY <2>1
  <2>3. /\ settled'[u] = settled[u] + (-n)
        /\ \A v \in Users \ {u} : settled'[v] = settled[v]
    BY <1>6, <2>1, <2>2
  <2>4. -n \in Int
    OBVIOUS
  <2>5. Total(settled', Users) = Total(settled, Users) + (-n)
    BY <2>3, <2>4, SettledMoves
  <2>6. /\ Unpaid'[w] = Unpaid[w] + n
        /\ \A v \in Withdrawals \ {w} : Unpaid'[v] = Unpaid[v]
    BY <1>2, <1>3, <1>6, <2>2, SumTerms, SumTermsNext DEF NoneLands
  <2>7. Total(Unpaid', Withdrawals) = Total(Unpaid, Withdrawals) + n
    BY <2>6, PaidMoves
  <2>8. Total(Uncounted', Deposits) = Total(Uncounted, Deposits) + 0
    BY <1>4, SumsSame, SumsInt
  <2>9. wallet'["treasury"] = wallet["treasury"] + ((-n) + n + 0)
    BY <1>3, SumsInt DEF Wallets
  <2>10. QED
    BY <1>3, <1>4, <2>4, <2>5, <2>7, <2>8, <2>9, TreasuryMoves
<1>7. QED
  BY <1>5, <1>6 DEF DebitWithdrawal

LEMMA CreditBackBalance ==
  ASSUME Inv, Balanced, NEW k \in Slots, NEW w \in Withdrawals, w = job[k].w,
         CreditBack(k)
  PROVE  Balanced'
<1>1. job[k].at = "credit" /\ Fits(job[k])
  BY AtRow DEF CreditBack, At
<1>2. w \in debited /\ Landed(w) = {}
  BY <1>1 DEF Fits, ReversalFits, Reversing, Over, Landed, Live
<1>3. /\ UNCHANGED <<house, debited, leg, deposit, wallet>> /\ NoneLands
      /\ returned' = returned \cup {w}
  BY TxStays DEF CreditBack, legVars, chainVars
<1>4. MovedSame /\ CountedSame
  BY <1>3, Gaps
<1>5. CASE w \in returned
  <2>1. settled' = settled /\ returned' = returned
    BY <1>3, <1>5 DEF CreditBack, NotReturned
  <2>2. QED
    BY <1>3, <1>4, <2>1, Gaps, BalanceStays
<1>6. CASE w \notin returned
  <2>1. settled' = [settled EXCEPT ![Owner[w]] = @ + Sum[w]]
    BY <1>6 DEF CreditBack, NotReturned
  <2>2. Owner[w] \in Users /\ Sum[w] \in Nat /\ settled \in [Users -> Nat]
    BY CustodyAssumption DEF Inv, TypeOK
  <2>3. PICK u \in Users, n \in Int : u = Owner[w] /\ n = Sum[w]
    BY <2>2
  <2>4. settled'[u] = settled[u] + n /\ \A v \in Users \ {u} : settled'[v] = settled[v]
    BY <2>1, <2>2, <2>3
  <2>5. Total(settled', Users) = Total(settled, Users) + n
    BY <2>4, SettledMoves
  <2>6. /\ Unpaid'[w] = Unpaid[w] + (-n)
        /\ \A v \in Withdrawals \ {w} : Unpaid'[v] = Unpaid[v]
    BY <1>2, <1>3, <1>6, <2>3, SumTerms, SumTermsNext DEF NoneLands
  <2>7. -n \in Int
    OBVIOUS
  <2>8. Total(Unpaid', Withdrawals) = Total(Unpaid, Withdrawals) + (-n)
    BY <2>6, <2>7, PaidMoves
  <2>9. Total(Uncounted', Deposits) = Total(Uncounted, Deposits) + 0
    BY <1>4, SumsSame, SumsInt
  <2>10. wallet'["treasury"] = wallet["treasury"] + (n + (-n) + 0)
    BY <1>3, SumsInt DEF Wallets
  <2>11. QED
    BY <1>3, <1>4, <2>5, <2>7, <2>8, <2>9, <2>10, TreasuryMoves
<1>7. QED
  BY <1>5, <1>6

\* A sweep brings a deposit to the treasury, a credit to the books.
LEMMA SweepBalance ==
  ASSUME Inv, Balanced, WatcherFits, Sweep
  PROVE  Balanced'
<1>1. PICK d \in watcher.todo :
        /\ deposit' = [deposit EXCEPT ![d] = "swept"]
        /\ wallet' = [wallet EXCEPT !["treasury"] = @ + Gift[d]]
  BY DEF Sweep
<1>2. d \in Deposits /\ deposit[d] = "arrived" /\ deposit \in [Deposits -> DepositStages]
  BY DepositTypes DEF Watchers, WatcherFits, Sweep
<1>3. UNCHANGED <<settled, house, debited, returned, leg>> /\ NoneLands
  BY TxStays DEF Sweep, ledgerVars, legVars
<1>4. PaidSame /\ MovedSame
  BY <1>3, Gaps
<1>5. PICK n \in Int : n = Gift[d]
  BY <1>2, SumTerms
<1>6. /\ deposit'[d] = "swept" /\ \A e \in Deposits \ {d} : deposit'[e] = deposit[e]
  BY <1>1, <1>2
<1>7. /\ Uncounted'[d] = Uncounted[d] + n
      /\ \A e \in Deposits \ {d} : Uncounted'[e] = Uncounted[e]
  BY <1>2, <1>5, <1>6, SumTerms, SumTermsNext
<1>8. Total(Uncounted', Deposits) = Total(Uncounted, Deposits) + n
  BY <1>2, <1>7, CountedMoves
<1>9. /\ Total(Unpaid', Withdrawals) = Total(Unpaid, Withdrawals) + 0
      /\ Total(settled', Users) = Total(settled, Users) + 0
  BY <1>3, <1>4, SumsSame, SumsInt
<1>10. wallet \in [Wallets -> Nat] /\ "treasury" \notin House /\ "treasury" \in Wallets
  BY DEF Inv, TypeOK, House, Wallets
<1>11. /\ wallet'["treasury"] = wallet["treasury"] + (0 + 0 + n)
       /\ \A y \in House : wallet'[y] = wallet[y]
  BY <1>1, <1>5, <1>10 DEF Wallets
<1>12. QED
  BY <1>3, <1>4, <1>8, <1>9, <1>11, TreasuryMoves

LEMMA CreditBalance ==
  ASSUME Inv, Balanced, WatcherFits, CreditDeposit
  PROVE  Balanced'
<1>1. PICK d \in watcher.todo :
        /\ settled' = IF KeyFree(d)
                      THEN [settled EXCEPT ![Depositor[d]] = @ + Gift[d]] ELSE settled
        /\ deposit' = [deposit EXCEPT ![d] = "credited"]
  BY DEF CreditDeposit
<1>2. /\ d \in Deposits /\ deposit[d] \in {"recorded", "credited"}
      /\ deposit \in [Deposits -> DepositStages]
  BY DepositTypes DEF Watchers, WatcherFits, CreditDeposit
<1>3. UNCHANGED <<house, debited, returned, leg, wallet>> /\ NoneLands
  BY TxStays DEF CreditDeposit, legVars, chainVars
<1>4. PaidSame /\ MovedSame
  BY <1>3, Gaps
<1>5. /\ deposit'[d] = "credited" /\ \A e \in Deposits \ {d} : deposit'[e] = deposit[e]
  BY <1>1, <1>2
<1>6. CASE deposit[d] = "credited"
  <2>1. settled' = settled
    BY <1>1, <1>6 DEF KeyFree
  <2>2. CountedSame
    BY <1>5, <1>6, SumTerms, SumTermsNext DEF CountedSame
  <2>3. QED
    BY <1>3, <1>4, <2>1, <2>2, BalanceStays
<1>7. CASE deposit[d] = "recorded"
  <2>1. settled' = [settled EXCEPT ![Depositor[d]] = @ + Gift[d]]
    BY <1>1, <1>7 DEF KeyFree
  <2>2. Depositor[d] \in Users /\ Gift[d] \in Nat /\ settled \in [Users -> Nat]
    BY <1>2, CustodyAssumption DEF Inv, TypeOK
  <2>3. PICK u \in Users, n \in Int : u = Depositor[d] /\ n = Gift[d]
    BY <2>2
  <2>4. settled'[u] = settled[u] + n /\ \A v \in Users \ {u} : settled'[v] = settled[v]
    BY <2>1, <2>2, <2>3
  <2>5. Total(settled', Users) = Total(settled, Users) + n
    BY <2>4, SettledMoves
  <2>6. /\ Uncounted'[d] = Uncounted[d] + (-n)
        /\ \A e \in Deposits \ {d} : Uncounted'[e] = Uncounted[e]
    BY <1>2, <1>5, <1>7, <2>3, SumTerms, SumTermsNext
  <2>7. -n \in Int
    OBVIOUS
  <2>8. Total(Uncounted', Deposits) = Total(Uncounted, Deposits) + (-n)
    BY <1>2, <2>6, <2>7, CountedMoves
  <2>9. Total(Unpaid', Withdrawals) = Total(Unpaid, Withdrawals) + 0
    BY <1>4, SumsSame, SumsInt
  <2>10. wallet'["treasury"] = wallet["treasury"] + (n + 0 + (-n))
    BY <1>3, SumsInt DEF Wallets
  <2>11. QED
    BY <1>3, <1>4, <2>5, <2>7, <2>8, <2>9, <2>10, TreasuryMoves
<1>8. QED
  BY <1>2, <1>6, <1>7

\* A deposit that arrives, a receipt that is written or closed moves nothing.
LEMMA DepositBalance ==
  ASSUME Inv, Balanced, WatcherFits,
         (\E d \in Deposits : Arrive(d)) \/ RecordReceipt \/ CloseReceipt
  PROVE  Balanced'
<1>1. /\ UNCHANGED <<settled, house, wallet, debited, returned, leg>> /\ NoneLands
  BY TxStays DEF Arrive, RecordReceipt, CloseReceipt, ledgerVars, legVars, chainVars
<1>2. PaidSame /\ MovedSame
  BY <1>1, Gaps
<1>3. PICK d \in Deposits :
        /\ \A e \in Deposits \ {d} : deposit'[e] = deposit[e]
        /\ deposit'[d] \in {"swept", "recorded"} <=> deposit[d] \in {"swept", "recorded"}
  <2>1. deposit \in [Deposits -> DepositStages] /\ watcher.events \subseteq Deposits
    BY DepositTypes DEF Watchers
  <2>2. ASSUME NEW d \in Deposits, Arrive(d)
        PROVE  /\ \A e \in Deposits \ {d} : deposit'[e] = deposit[e]
               /\ deposit'[d] = "arrived" /\ deposit[d] = "absent"
    BY <2>1, <2>2 DEF Arrive
  <2>3. CASE RecordReceipt
    <3>1. PICK d \in watcher.events : deposit' = [deposit EXCEPT ![d] = "recorded"]
      BY <2>3 DEF RecordReceipt
    <3>2. d \in Deposits /\ deposit[d] = "swept" /\ deposit'[d] = "recorded"
      BY <2>1, <3>1 DEF WatcherFits
    <3>3. QED
      BY <2>1, <3>1, <3>2
  <2>4. CASE CloseReceipt
    <3>1. PICK d \in Deposits : d = watcher.d /\ deposit[d] = "credited"
      BY <2>4 DEF CloseReceipt, WatcherFits
    <3>2. deposit' = [deposit EXCEPT ![d] = "closed"]
      BY <2>4, <3>1 DEF CloseReceipt
    <3>3. deposit'[d] = "closed" /\ \A e \in Deposits \ {d} : deposit'[e] = deposit[e]
      BY <2>1, <3>2
    <3>4. QED
      BY <3>1, <3>3
  <2>5. QED
    BY <2>2, <2>3, <2>4
<1>4. CountedSame
  BY <1>3, SumTerms, SumTermsNext DEF CountedSame
<1>5. QED
  BY <1>1, <1>2, <1>4, BalanceStays

\* The move of a leg is in the books at once, and owed by the wallets.
LEMMA PostLegBalance ==
  ASSUME Inv, Balanced, NEW l \in Legs, PostLeg(l)
  PROVE  Balanced'
<1>1. /\ UNCHANGED <<debited, returned, deposit, wallet>> /\ NoneLands /\ leg[l] = "NONE"
      /\ settled' = [settled EXCEPT ![Party[l]] = @ + Share(l, "treasury")]
      /\ house' = [x \in House |-> house[x] + Share(l, x)]
      /\ leg' = [leg EXCEPT ![l] = "PENDING"]
  BY TxStays DEF PostLeg, chainVars
<1>2. /\ leg'[l] = "PENDING" /\ \A m \in Legs \ {l} : leg'[m] = leg[m]
  BY <1>1, SettlerTypes
<1>3. PaidSame /\ CountedSame
  BY <1>1, Gaps
<1>4. ASSUME NEW y
      PROVE  Total(Unmoved(y)', Legs) = Total(Unmoved(y), Legs) + (-Share(l, y))
  <2>1. PICK n \in Int : n = Share(l, y)
    BY SumTerms
  <2>2. /\ Unmoved(y)'[l] = Unmoved(y)[l] + (-n)
        /\ \A m \in Legs \ {l} : Unmoved(y)'[m] = Unmoved(y)[m]
    BY <1>1, <1>2, <2>1, SumTerms, SumTermsNext DEF NoneLands
  <2>3. -n \in Int
    OBVIOUS
  <2>4. Total(Unmoved(y)', Legs) = Total(Unmoved(y), Legs) + (-n)
    BY <2>2, <2>3, UnmovedMoves
  <2>5. QED
    BY <2>1, <2>4
<1>5. ASSUME NEW y \in House
      PROVE  wallet'[y] = Books(y)' + Total(Unmoved(y)', Legs) + UnderWay(y)'
  <2>1. y # "treasury" /\ y \in Wallets
    BY DEF House, Wallets
  <2> DEFINE H == house[y]
             M == Total(Unmoved(y), Legs)
             D == Share(l, y)
  <2>2. wallet[y] = H + M + 0
    BY <2>1 DEF Balanced, Books, UnderWay
  <2>3. H \in Int /\ M \in Int /\ D \in Int
    BY SumsInt, SumTerms
  <2>4. /\ Books(y)' = H + D /\ UnderWay(y)' = 0
        /\ Total(Unmoved(y)', Legs) = M + (-D) /\ wallet' = wallet
    BY <1>1, <1>4, <2>1 DEF Books, UnderWay
  <2> HIDE DEF H, M, D
  <2>5. H + M + 0 = (H + D) + (M + (-D)) + 0
    BY <2>3
  <2>6. QED
    BY <2>2, <2>4, <2>5
<1>6. wallet'["treasury"] = Books("treasury")' + Total(Unmoved("treasury")', Legs)
                            + UnderWay("treasury")'
  <2> DEFINE A == Total(settled, Users)
             R == UnderWay("treasury")
             M == Total(Unmoved("treasury"), Legs)
             D == Share(l, "treasury")
  <2>1. wallet["treasury"] = A + M + R
    BY DEF Balanced, Books, Wallets
  <2>2. A \in Int /\ R \in Int /\ M \in Int /\ D \in Int
    BY SumsInt, SumTerms DEF UnderWay
  <2>3. Total(settled', Users) = A + D
    <3>1. PICK u \in Users, n \in Int : u = Party[l] /\ n = D
      BY <2>2, CustodyAssumption
    <3>2. settled \in [Users -> Nat]
      BY DEF Inv, TypeOK
    <3>3. settled'[u] = settled[u] + n /\ \A v \in Users \ {u} : settled'[v] = settled[v]
      BY <1>1, <3>1, <3>2
    <3>4. Total(settled', Users) = Total(settled, Users) + n
      BY <3>3, SettledMoves
    <3>5. QED
      BY <3>1, <3>4
  <2>4. UnderWay("treasury")' = R
    BY <1>3, SumsSame DEF UnderWay
  <2>5. /\ Books("treasury")' = A + D /\ wallet' = wallet
        /\ Total(Unmoved("treasury")', Legs) = M + (-D)
    BY <1>1, <1>4, <2>3 DEF Books
  <2> HIDE DEF A, R, M, D
  <2>6. A + M + R = (A + D) + (M + (-D)) + R
    BY <2>2
  <2>7. QED
    BY <2>1, <2>4, <2>5, <2>6
<1>7. QED
  BY <1>5, <1>6 DEF Balanced, Wallets

\* A payment that lands was owed.
LEMMA LandPaid ==
  ASSUME Inv, Balanced, NEW x \in Sigs, Land(x), NEW w \in Withdrawals, tx[x].what = w
  PROVE  Balanced'
<1>1. /\ tx[x].fate = "flying" /\ tx'[x].what = w /\ tx'[x].fate = "landed"
      /\ \A z \in Sigs \ {x} : tx'[z] = tx[z]
  BY FateMoves
<1>2. RowFits(w) /\ x \in Live(w)
  BY <1>1 DEF Inv, RowsFit, Live
<1>3. w \in debited /\ w \notin returned
  BY <1>2 DEF RowFits
<1>4. Landed(w) = {} /\ Landed(w)' # {}
  <2>1. ASSUME NEW z \in Landed(w) PROVE FALSE
    BY <1>1, <1>2, <2>1 DEF RowFits, Landed, Live
  <2>2. QED
    BY <1>1, <2>1 DEF Landed
<1>5. \A it : it # w => Landed(it)' = Landed(it)
  BY <1>1 DEF Landed
<1>6. UNCHANGED <<settled, house, debited, returned, leg, deposit>>
  BY DEF Land, ledgerVars, legVars
<1>7. w \notin Legs
  BY CustodyAssumption
<1>8. MovedSame
  BY <1>5, <1>6, <1>7, SumTerms, SumTermsNext DEF MovedSame
<1>9. PICK n \in Int : n = Sum[w]
  BY SumTerms
<1>10. /\ Unpaid'[w] = Unpaid[w] + (-n)
       /\ \A v \in Withdrawals \ {w} : Unpaid'[v] = Unpaid[v]
  BY <1>3, <1>4, <1>5, <1>6, <1>9, SumTerms, SumTermsNext
<1>11. -n \in Int
  OBVIOUS
<1>12. Total(Unpaid', Withdrawals) = Total(Unpaid, Withdrawals) + (-n)
  BY <1>10, <1>11, PaidMoves
<1>13. /\ Total(Uncounted', Deposits) = Total(Uncounted, Deposits) + 0
       /\ Total(settled', Users) = Total(settled, Users) + 0
  BY <1>6, Gaps, SumsSame, SumsInt
<1>14. wallet' = [y \in Wallets |-> wallet[y] - (IF y = "treasury" THEN n ELSE 0) + 0]
  BY <1>7, <1>9 DEF Land
<1>15. wallet \in [Wallets -> Nat] /\ "treasury" \notin House
  BY DEF Inv, TypeOK, House
<1>16. /\ wallet'["treasury"] = wallet["treasury"] + (0 + (-n) + 0)
       /\ \A y \in House : wallet'[y] = wallet[y]
  BY <1>14, <1>15 DEF Wallets
<1>17. QED
  BY <1>6, <1>8, <1>11, <1>12, <1>13, <1>16, TreasuryMoves

\* A leg that lands for the first time was owed.
LEMMA LandLeg ==
  ASSUME Inv, Balanced, NEW x \in Sigs, Land(x), NEW l \in Legs, tx[x].what = l,
         MovedOnce'
  PROVE  Balanced'
<1>1. /\ tx[x].fate = "flying" /\ tx'[x].what = l /\ tx'[x].fate = "landed"
      /\ \A z \in Sigs \ {x} : tx'[z] = tx[z]
  BY FateMoves
<1>2. Landed(l) = {} /\ Landed(l)' # {}
  <2>1. ASSUME NEW z \in Landed(l) PROVE FALSE
    <3>1. z # x /\ z \in Landed(l)' /\ x \in Landed(l)'
      BY <1>1, <2>1 DEF Landed
    <3>2. QED
      BY <3>1 DEF MovedOnce
  <2>2. QED
    BY <1>1, <2>1 DEF Landed
<1>3. \A it : it # l => Landed(it)' = Landed(it)
  BY <1>1 DEF Landed
<1>4. UNCHANGED <<settled, house, debited, returned, leg, deposit>>
  BY DEF Land, ledgerVars, legVars
<1>5. l \notin Withdrawals
  BY CustodyAssumption
<1>6. PaidSame
  BY <1>3, <1>4, <1>5, SumTerms, SumTermsNext DEF PaidSame
<1>7. CountedSame
  BY <1>4, Gaps
<1>8. \A y \in Wallets : Books(y)' = Books(y) /\ UnderWay(y)' = UnderWay(y)
  BY <1>4, <1>6, <1>7, SumsSame DEF Books, UnderWay
<1>9. ASSUME NEW y \in Wallets
      PROVE  wallet'[y] = Books(y)' + Total(Unmoved(y)', Legs) + UnderWay(y)'
  <2>1. PICK n \in Int : n = Share(l, y)
    BY SumTerms
  <2>2. /\ Unmoved(y)'[l] = Unmoved(y)[l] + n
        /\ \A m \in Legs \ {l} : Unmoved(y)'[m] = Unmoved(y)[m]
    BY <1>2, <1>3, <1>4, <2>1, SumTerms, SumTermsNext
  <2>3. Total(Unmoved(y)', Legs) = Total(Unmoved(y), Legs) + n
    BY <2>2, UnmovedMoves
  <2>4. wallet'[y] = wallet[y] + n
    <3>1. wallet'[y] = wallet[y] - (IF y = From[l] THEN Worth[l] ELSE 0)
                                 + (IF To[l] = y THEN Worth[l] ELSE 0)
      BY DEF Land
    <3>2. From[l] # To[l] /\ Worth[l] \in Nat /\ wallet[y] \in Int
      BY WalletsAssumption, CustodyAssumption, SumsInt
    <3>3. QED
      BY <2>1, <3>1, <3>2 DEF Share
  <2> DEFINE A == Books(y)
             M == Total(Unmoved(y), Legs)
             R == UnderWay(y)
  <2>5. A \in Int /\ M \in Int /\ R \in Int
    BY SumsInt DEF Books, UnderWay, Wallets, House
  <2>6. wallet[y] = A + M + R
    BY DEF Balanced
  <2> HIDE DEF A, M, R
  <2>7. wallet'[y] = A + (M + n) + R
    BY <2>4, <2>5, <2>6
  <2>8. QED
    BY <1>8, <2>3, <2>7 DEF A, M, R
<1>10. QED
  BY <1>9 DEF Balanced

LEMMA RestBalance ==
  ASSUME Inv, LegInv, Balanced, NoneLands,
         UNCHANGED <<settled, house, wallet, debited, returned, deposit>>,
         leg' = leg \/ RecordLeg \/ AskLeg
  PROVE  Balanced'
<1>1. \A l \in Legs : leg'[l] = "NONE" <=> leg[l] = "NONE"
  <2>1. ASSUME RecordLeg \/ AskLeg
        PROVE  \A l \in Legs : leg'[l] = "NONE" <=> leg[l] = "NONE"
    <3>1. PICK l \in Legs : l = settler.leg /\ leg[l] \in {"PENDING", "SUBMITTED"}
      BY <2>1 DEF RecordLeg, AskLeg, LegInv, SettlerFits
    <3>2. \/ leg' = leg
          \/ \E s \in {"PENDING", "SUBMITTED", "CONFIRMED"} : leg' = [leg EXCEPT ![l] = s]
      BY <2>1, <3>1 DEF RecordLeg, AskLeg
    <3>3. QED
      BY <3>1, <3>2, SettlerTypes
  <2>2. QED
    BY <2>1
<1>2. PaidSame /\ CountedSame /\ MovedSame
  BY <1>1, Gaps
<1>3. QED
  BY <1>2, BalanceStays

LEMMA BalanceStep ==
  ASSUME Inv, LegInv, WatcherFits, Balanced, MovedOnce', [Next]_vars
  PROVE  Balanced'
<1>1. ASSUME NEW x \in Sigs, Land(x) PROVE Balanced'
  <2>1. tx[x].what \in Withdrawals \cup Legs
    BY <1>1 DEF Land, Inv, TxFits
  <2>2. QED
    BY <1>1, <2>1, LandPaid, LandLeg
<1>2. ASSUME NEW k \in Slots, DebitWithdrawal(k) \/ CreditBack(k) PROVE Balanced'
  <2>1. PICK w \in Withdrawals : w = job[k].w
    BY <1>2, AtRow DEF DebitWithdrawal, CreditBack, At
  <2>2. QED
    BY <1>2, <2>1, DebitBalance, CreditBackBalance
<1>3. CASE \/ \E l \in Legs : PostLeg(l)
           \/ Sweep \/ CreditDeposit
           \/ (\E d \in Deposits : Arrive(d)) \/ RecordReceipt \/ CloseReceipt
  BY <1>3, PostLegBalance, SweepBalance, CreditBalance, DepositBalance
<1>4. CASE NoneLands
  <2>1. ASSUME UNCHANGED <<settled, house, wallet, debited, returned, deposit>>,
               leg' = leg \/ RecordLeg \/ AskLeg
        PROVE  Balanced'
    BY <1>4, <2>1, RestBalance
  <2>2. ASSUME NEW k \in Slots,
               \/ \E w \in Withdrawals : RequestWithdrawal(k, w)
               \/ Step(k) /\ ~DebitWithdrawal(k) /\ ~CreditBack(k)
               \/ StartPass(k)
        PROVE  Balanced'
    <3>1. UNCHANGED <<settled, house, wallet, debited, returned, deposit, leg>>
      BY <2>2 DEF RequestWithdrawal, Step, Withdraw, Resolve, RefuseWithdrawal,
        SendWithdrawal, RecordWithdrawal, AskWithdrawal, ConfirmWithdrawal, ReadAgain,
        MarkFailed, NextRow, MarkForReview, StartPass, ledgerVars, legVars, chainVars
    <3>2. QED
      BY <2>1, <3>1
  <2>3. CASE SettlerTick \/ SettlerStep
    <3>1. /\ UNCHANGED <<settled, house, wallet, debited, returned, deposit>>
          /\ leg' = leg \/ RecordLeg \/ AskLeg
      BY <2>3 DEF SettlerTick, SettlerStep, TakeLeg, RecordLeg, AskLeg, EndSettlerTick,
        ledgerVars, legVars, chainVars
    <3>2. QED
      BY <2>1, <3>1
  <2>4. CASE WatcherTick \/ EndSweep \/ ReadReceipts \/ EndWatcherTick
    <3>1. UNCHANGED <<settled, house, wallet, debited, returned, deposit, leg>>
      BY <2>4 DEF WatcherTick, EndSweep, ReadReceipts, EndWatcherTick, ledgerVars,
        legVars, chainVars
    <3>2. QED
      BY <2>1, <3>1
  <2>5. CASE (\E x \in Sigs : Die(x)) \/ Fail \/ UNCHANGED vars
    <3>1. UNCHANGED <<settled, house, wallet, debited, returned, deposit, leg>>
      BY <2>5 DEF Die, Fail, HandlerFails, SettlerFails, WatcherFails, Crash, vars,
        ledgerVars, legVars, chainVars
    <3>2. QED
      BY <2>1, <3>1
  <2>6. QED
    BY <1>1, <1>2, <1>3, <2>2, <2>3, <2>4, <2>5 DEF Next, WatcherStep
<1>5. QED
  BY <1>1, <1>4, Forward

LEMMA WalletStepInv == Inv /\ LegInv /\ WalletInv /\ [Next]_vars => WalletInv'
<1> SUFFICES ASSUME Inv, LegInv, WalletInv, [Next]_vars PROVE WalletInv'
  OBVIOUS
<1>1. MovedOnce' => MovedOnce
  <2>1. \A l : Landed(l) \subseteq Landed(l)'
    BY Forward, LandedGrows
  <2>2. QED
    BY <2>1 DEF MovedOnce
<1>2. MovedOnce' => Balanced'
  BY <1>1, BalanceStep DEF WalletInv
<1>3. QED
  BY <1>2, FinalRows, FinalLegs, WatcherStaysFit DEF WalletInv

\* Where no gap is left, nothing is under way.
LEMMA NoGaps ==
  ASSUME \A w \in Withdrawals : Unpaid[w] = 0, \A d \in Deposits : Uncounted[d] = 0,
         \A y, l : l \in Legs => Unmoved(y)[l] = 0
  PROVE  \A y : Total(Unmoved(y), Legs) = 0 /\ UnderWay(y) = 0
<1>1. ASSUME NEW S, IsFiniteSet(S), NEW f, \A x \in S : f[x] = 0
      PROVE  Total(f, S) = 0
  <2> DEFINE z == [x \in S |-> 0]
  <2>1. \A x \in S : f[x] = z[x]
    BY <1>1
  <2>2. Total(z, S) = 0
    BY <1>1, TotalZero
  <2> HIDE DEF z
  <2>3. Total(f, S) = Total(z, S)
    BY <1>1, <2>1, TotalSame
  <2>4. QED
    BY <2>2, <2>3
<1>2. IsFiniteSet(Withdrawals) /\ IsFiniteSet(Deposits) /\ IsFiniteSet(Legs)
  BY CustodyAssumption
<1>3. Total(Unpaid, Withdrawals) = 0 /\ Total(Uncounted, Deposits) = 0
  BY <1>1, <1>2
<1>4. ASSUME NEW y PROVE Total(Unmoved(y), Legs) = 0
  <2>1. \A l \in Legs : Unmoved(y)[l] = 0
    OBVIOUS
  <2>2. QED
    BY <1>1, <1>2, <2>1
<1>5. QED
  BY <1>3, <1>4 DEF UnderWay

LEMMA WalletInitInv == Init => WalletInv
<1> SUFFICES ASSUME Init PROVE WalletInv
  OBVIOUS
<1>1. \A it : Live(it) = {} /\ Landed(it) = {}
  BY DEF Init, Live, Landed
<1>2. RowsFinal
  BY DEF Init, RowsFinal, Idle
<1>3. LegsFinal
  BY <1>1 DEF Init, LegsFinal, SettlerIdle
<1>4. WatcherFits
  BY DEF Init, WatcherFits, WatcherIdle
<1>5. \A w \in Withdrawals : Unpaid[w] = 0
  BY SumTerms DEF Init
<1>6. \A d \in Deposits : Uncounted[d] = 0
  BY SumTerms DEF Init
<1>7. \A y, l : l \in Legs => Unmoved(y)[l] = 0
  BY <1>1, SumTerms DEF Init
<1>8. \A y : Total(Unmoved(y), Legs) = 0 /\ UnderWay(y) = 0
  BY <1>5, <1>6, <1>7, NoGaps
<1>9. Total(Funds, Users) \in Int
  BY CustodyAssumption, TotalInt
<1>10. \A y \in Wallets : wallet[y] = Books(y) /\ Books(y) \in Int
  BY <1>9 DEF Init, Books, Wallets, House
<1>11. Balanced
  BY <1>8, <1>10 DEF Balanced
<1>12. QED
  BY <1>2, <1>3, <1>4, <1>11 DEF WalletInv

\* A set of at most one element.
LEMMA OnlyOne ==
  ASSUME NEW S, IsFiniteSet(S), ~(Cardinality(S) > 1), NEW x \in S, NEW z \in S
  PROVE  x = z
<1> SUFFICES ASSUME x # z PROVE FALSE
  OBVIOUS
<1> DEFINE T == {x}
<1>1. IsFiniteSet(T) /\ Cardinality(T) = 1 /\ z \notin T /\ T \cup {z} \subseteq S
  BY FS_Singleton
<1> HIDE DEF T
<1>2. IsFiniteSet(T \cup {z}) /\ Cardinality(T \cup {z}) = Cardinality(T) + 1
  BY <1>1, FS_AddElement
<1>3. Cardinality(T \cup {z}) <= Cardinality(S)
  BY <1>1, FS_Subset
<1>4. Cardinality(S) \in Nat
  BY FS_CardinalityType
<1>5. QED
  BY <1>1, <1>2, <1>3, <1>4

\* For any number of users, withdrawals, legs, deposits, errors and crashes: when
\* nothing is under way, and no leg was moved twice, every wallet holds what the
\* ledger says (withdrawals.ts, chain-settle.ts, deposits.ts together).
THEOREM BooksAlwaysMatch == Spec => []WalletsMatchBooks
<1>1. Spec => [](LegInv /\ WalletInv)
  BY Invariance, LegInitInv, LegStepInv, WalletInitInv, WalletStepInv, PTL DEF Spec
<1>2. Inv /\ WalletInv => WalletsMatchBooks
  <2> SUFFICES ASSUME Inv, WalletInv, Quiet, ~MovedTwice
               PROVE  /\ wallet["treasury"] = Total(settled, Users)
                      /\ \A x \in House : wallet[x] = house[x]
    BY DEF WalletsMatchBooks
  <2>1. MovedOnce
    <3> SUFFICES ASSUME NEW l \in Legs, NEW x \in Landed(l), NEW z \in Landed(l)
                 PROVE  x = z
      BY DEF MovedOnce
    <3>1. Live(l) \subseteq Sigs /\ x \in Live(l) /\ z \in Live(l)
      BY DEF Live, Landed
    <3>2. IsFiniteSet(Live(l)) /\ ~(Cardinality(Live(l)) > 1)
      BY <3>1, CustodyAssumption, FS_Subset DEF MovedTwice
    <3>3. QED
      BY <3>1, <3>2, OnlyOne
  <2>2. ASSUME NEW w \in Withdrawals PROVE Unpaid[w] = 0
    <3>1. RowFits(w) /\ wstatus[w] \in {"NONE", "CONFIRMED", "FAILED"}
      BY DEF Inv, RowsFit, Quiet
    <3>2. w \in debited /\ w \notin returned => wstatus[w] = "CONFIRMED"
      BY <3>1 DEF RowFits, INFLIGHT
    <3>3. QED
      BY <3>2, SumTerms DEF WalletInv, RowsFinal
  <2>3. \A d \in Deposits : Uncounted[d] = 0
    BY SumTerms DEF Quiet
  <2>4. ASSUME NEW y, NEW l \in Legs PROVE Unmoved(y)[l] = 0
    <3>1. CASE leg[l] = "NONE"
      <4>1. Landed(l) = {}
        BY <3>1 DEF WalletInv, LegsFinal, Landed, Live
      <4>2. QED
        BY <3>1, <4>1, SumTerms
    <3>2. CASE leg[l] = "CONFIRMED"
      <4>1. legSig[l] \in Landed(l)
        BY <3>2 DEF WalletInv, LegsFinal, Landed, SentFor
      <4>2. QED
        BY <3>2, <4>1, SumTerms
    <3>3. QED
      BY <3>1, <3>2 DEF Quiet
  <2>5. \A y : Total(Unmoved(y), Legs) = 0 /\ UnderWay(y) = 0
    BY <2>2, <2>3, <2>4, NoGaps
  <2>6. ASSUME NEW y \in Wallets PROVE wallet[y] = Books(y)
    <3>1. wallet[y] = Books(y) + 0 + 0
      BY <2>1, <2>5 DEF WalletInv, Balanced
    <3>2. Books(y) \in Int
      BY SumsInt DEF Books, Wallets, House
    <3>3. QED
      BY <3>1, <3>2
  <2>7. QED
    BY <2>6 DEF Books, Wallets, House
<1>3. QED
  BY <1>1, <1>2, Invariance, PTL

-----------------------------------------------------------------------------
(* What the row of a withdrawal says of ledger and chain.                  *)

\* A row with a signature is a pass's work, confirmed, or given back.
RowTells(w) ==
  /\ w \in reversedAt => w \in returned
  /\ wsig[w] # None => wstatus[w] \in UNSETTLED \cup {"CONFIRMED"} \/ w \in reversedAt
RowsTell == \A w \in Withdrawals : RowTells(w)

\* A row whose status alone is written, with one of a pass's or with no signature.
LEMMA StatusTells ==
  ASSUME Inv, RowsTell, NEW w \in Withdrawals, NEW s,
         s \in UNSETTLED \cup {"CONFIRMED"} \/ wsig[w] = None,
         wstatus' = [wstatus EXCEPT ![w] = s], UNCHANGED <<wsig, reversedAt, returned>>
  PROVE  RowsTell'
<1>1. wstatus'[w] = s /\ \A v \in Withdrawals \ {w} : wstatus'[v] = wstatus[v]
  BY DEF Inv, TypeOK
<1>2. QED
  BY <1>1 DEF RowsTell, RowTells

LEMMA HandlerTells ==
  ASSUME Inv, RowsTell, NEW k \in Slots, Step(k)
  PROVE  RowsTell'
<1>1. CASE RefuseWithdrawal(k)
  <2>1. PICK w \in Withdrawals : w = job[k].w /\ wsig[w] = None
    BY <1>1, AtRow DEF RefuseWithdrawal, At, Fits, RequestFits, Origins
  <2>2. QED
    BY <1>1, <2>1, StatusTells DEF RefuseWithdrawal, ledgerVars
<1>2. CASE RecordWithdrawal(k)
  <2>1. PICK w \in Withdrawals : w = job[k].w
    BY <1>2, AtRow DEF RecordWithdrawal, At
  <2>2. /\ wstatus'[w] = "SUBMITTED"
        /\ \A v \in Withdrawals \ {w} : wstatus'[v] = wstatus[v] /\ wsig'[v] = wsig[v]
        /\ UNCHANGED <<reversedAt, returned>>
    BY <1>2, <2>1 DEF RecordWithdrawal, ledgerVars, Inv, TypeOK
  <2>3. QED
    BY <2>2 DEF RowsTell, RowTells, UNSETTLED
<1>3. CASE ConfirmWithdrawal(k)
  <2>1. PICK w \in Withdrawals : w = job[k].w
    BY <1>3, AtRow DEF ConfirmWithdrawal, At
  <2>2. CASE wstatus' = wstatus
    BY <1>3, <2>2 DEF ConfirmWithdrawal, ledgerVars, RowsTell, RowTells
  <2>3. CASE wstatus' = [wstatus EXCEPT ![w] = "CONFIRMED"]
    BY <1>3, <2>3, StatusTells DEF ConfirmWithdrawal, ledgerVars
  <2>4. QED
    BY <1>3, <2>1, <2>2, <2>3 DEF ConfirmWithdrawal
<1>4. CASE CreditBack(k)
  BY <1>4 DEF CreditBack, rowVars, RowsTell, RowTells
<1>5. CASE MarkFailed(k)
  <2>1. PICK w \in Withdrawals : w = job[k].w /\ w \in returned
    BY <1>5, AtRow DEF MarkFailed, At, Fits, ReversalFits, Reversing
  <2>2. /\ reversedAt' = reversedAt \cup {w}
        /\ \A v \in Withdrawals \ {w} : wstatus'[v] = wstatus[v]
        /\ UNCHANGED <<wsig, returned>>
    BY <1>5, <2>1 DEF MarkFailed, ledgerVars, Inv, TypeOK
  <2>3. QED
    BY <2>1, <2>2 DEF RowsTell, RowTells
<1>6. CASE MarkForReview(k)
  <2>1. PICK w \in Withdrawals : w = job[k].w
    BY <1>6, AtRow DEF MarkForReview, At
  <2>2. QED
    BY <1>6, <2>1, StatusTells DEF MarkForReview, ledgerVars, UNSETTLED
<1>7. CASE \/ DebitWithdrawal(k) \/ SendWithdrawal(k) \/ AskWithdrawal(k) \/ ReadAgain(k)
           \/ NextRow(k)
  BY <1>7 DEF DebitWithdrawal, SendWithdrawal, AskWithdrawal, ReadAgain, NextRow,
    ledgerVars, rowVars, RowsTell, RowTells
<1>8. QED
  BY <1>1, <1>2, <1>3, <1>4, <1>5, <1>6, <1>7 DEF Step, Withdraw, Resolve

LEMMA RowsTellStep == Inv /\ RowsTell /\ [Next]_vars => RowsTell'
<1> SUFFICES ASSUME Inv, RowsTell, [Next]_vars PROVE RowsTell'
  OBVIOUS
<1>1. ASSUME NEW k \in Slots, NEW w \in Withdrawals, RequestWithdrawal(k, w)
      PROVE  RowsTell'
  <2>1. wsig[w] = None
    BY <1>1 DEF RequestWithdrawal, Inv, RowsFit, RowFits
  <2>2. QED
    BY <1>1, <2>1, StatusTells DEF RequestWithdrawal, ledgerVars
<1>2. CASE \/ \E k \in Slots : StartPass(k)
           \/ \E l \in Legs : PostLeg(l)
           \/ SettlerTick \/ SettlerStep
           \/ \E d \in Deposits : Arrive(d)
           \/ WatcherTick \/ WatcherStep
           \/ \E x \in Sigs : Land(x) \/ Die(x)
           \/ Fail \/ UNCHANGED vars
  <2>1. UNCHANGED <<wstatus, wsig, reversedAt, returned>>
    BY <1>2 DEF StartPass, PostLeg, SettlerTick, SettlerStep, TakeLeg, RecordLeg, AskLeg,
      EndSettlerTick, Arrive, WatcherTick, WatcherStep, Sweep, EndSweep, RecordReceipt,
      ReadReceipts, CreditDeposit, CloseReceipt, EndWatcherTick, Land, Die, Fail,
      HandlerFails, SettlerFails, WatcherFails, Crash, vars, ledgerVars, rowVars
  <2>2. QED
    BY <2>1 DEF RowsTell, RowTells
<1>3. QED
  BY <1>1, <1>2, HandlerTells DEF Next

\* What a row says is true, at every moment and not only when all is quiet.
RowsTellTheTruth ==
  \A w \in Withdrawals :
    /\ wstatus[w] = "CONFIRMED" => Landed(w) # {} /\ w \notin returned
    /\ w \in reversedAt => w \in returned /\ Live(w) = {}
    /\ wstatus[w] = "FAILED" => w \notin debited \ returned
    /\ wsig[w] # None => wstatus[w] \in UNSETTLED \cup {"CONFIRMED"} \/ w \in reversedAt

\* For any number of withdrawals, requests and passes, errors and crashes: a row
\* that says CONFIRMED was paid and not given back, one that was reversed is given
\* back and can never be paid, FAILED means the user has the money, and a row with a
\* signature is either on the list of every pass, confirmed or reversed: none is
\* stranded, the half of SubmittedEnds that needs no fairness (settleWithdrawal,
\* reverseWithdrawal, WithdrawalReconciler).
THEOREM RowsAlwaysTellTheTruth == Spec => []RowsTellTheTruth
<1>1. Init => RowsTell
  BY DEF Init, RowsTell, RowTells
<1>2. Spec => [](Inv /\ LegInv /\ WalletInv /\ RowsTell)
  BY <1>1, Invariance, LegInitInv, LegStepInv, WalletInitInv, WalletStepInv, RowsTellStep,
    PTL DEF Spec
<1>3. Inv /\ WalletInv /\ RowsTell => RowsTellTheTruth
  <2> SUFFICES ASSUME Inv, WalletInv, RowsTell, NEW w \in Withdrawals
               PROVE  /\ wstatus[w] = "CONFIRMED" => Landed(w) # {} /\ w \notin returned
                      /\ w \in reversedAt => w \in returned /\ Live(w) = {}
                      /\ wstatus[w] = "FAILED" => w \notin debited \ returned
                      /\ wsig[w] # None =>
                           wstatus[w] \in UNSETTLED \cup {"CONFIRMED"} \/ w \in reversedAt
    BY DEF RowsTellTheTruth
  <2>1. RowFits(w) /\ RowTells(w)
    BY DEF Inv, RowsFit, RowsTell
  <2>2. Landed(w) \subseteq Live(w)
    BY DEF Landed, Live
  <2>3. wstatus[w] = "CONFIRMED" => Landed(w) # {}
    BY DEF WalletInv, RowsFinal
  <2>4. QED
    BY <2>1, <2>2, <2>3 DEF RowFits, RowTells, INFLIGHT
<1>4. QED
  BY <1>2, <1>3, PTL

\* What a row of the outbox says is true.
LegsTellTheTruth ==
  \A l \in Legs :
    /\ leg[l] = "NONE" => Live(l) = {}
    /\ leg[l] = "SUBMITTED" => tx[legSig[l]].what = l
    /\ leg[l] = "CONFIRMED" => Landed(l) # {}

\* For any number of legs, ticks, errors and crashes: nothing is sent for a leg that
\* was not posted, a SUBMITTED leg keeps the signature of a transfer of its own,
\* and a CONFIRMED one did move the money (ChainSettler.tick).
THEOREM LegsAlwaysTellTheTruth == Spec => []LegsTellTheTruth
<1>1. Spec => [](LegInv /\ WalletInv)
  BY Invariance, LegInitInv, LegStepInv, WalletInitInv, WalletStepInv, PTL DEF Spec
<1>2. WalletInv => LegsTellTheTruth
  BY DEF WalletInv, LegsFinal, SentFor, LegsTellTheTruth, Landed
<1>3. QED
  BY <1>1, <1>2, PTL

-----------------------------------------------------------------------------
(* Every step is one of CustodyPromise, or none.                           *)

\* What the state of CustodyPromise is, in words of Custody.
Payments == [w \in Withdrawals |-> Cardinality(Landed(w))]
Credited == {d \in Deposits : deposit[d] \in {"credited", "closed"}}
Posted   == {l \in Legs : leg[l] # "NONE"}

\* The parts of that state a step leaves alone.
PaidStays     == Payments' = Payments
CreditedStays == Credited' = Credited
PostedStays   == Posted' = Posted

LEMMA PaymentsStay == ASSUME NoneLands PROVE PaidStays
BY DEF NoneLands, PaidStays, Payments

LEMMA PostedStay ==
  ASSUME \A l \in Legs : leg'[l] = "NONE" <=> leg[l] = "NONE" PROVE PostedStays
BY DEF PostedStays, Posted

LEMMA CreditedStay ==
  ASSUME \A d \in Deposits : deposit'[d] \in {"credited", "closed"}
                               <=> deposit[d] \in {"credited", "closed"}
  PROVE  CreditedStays
BY DEF CreditedStays, Credited

LEMMA PromiseStutters ==
  ASSUME UNCHANGED <<settled, debited, returned>>, PaidStays, CreditedStays, PostedStays
  PROVE  UNCHANGED Promise!vars
BY DEF Promise!vars, PaidStays, CreditedStays, PostedStays, Payments, Credited, Posted

LEMMA SameTotal ==
  ASSUME NEW f, NEW S
  PROVE  Promise!Total(f, S) = Total(f, S)
BY DEF Promise!Total, Total, Promise!MapThenSumSet, MapThenSumSet,
       Promise!MapThenFoldSet, MapThenFoldSet

\* What CustodyPromise says a user has out is what the rows say.
OutIsCapped == \A u \in Users : Promise!Out(u) <= DailyCap

LEMMA OutWithinCap == Inv => OutIsCapped
<1> SUFFICES ASSUME Inv, NEW u \in Users PROVE Promise!Out(u) <= DailyCap
  BY DEF OutIsCapped
<1>1. Promise!Out(u)
        = Total([w \in Withdrawals |->
                   IF Owner[w] = u /\ w \in debited \ returned THEN Sum[w] ELSE 0],
                Withdrawals)
  BY SameTotal DEF Promise!Out
<1>2. QED
  BY <1>1, CapHolds DEF CapBoundsOutflow

LEMMA OutWithinCapNext == Inv' => OutIsCapped'
BY OutWithinCap, PTL

\* A debit is Take, or is refused.
LEMMA DebitTakes ==
  ASSUME Inv, Inv', NEW k \in Slots, NEW w \in Withdrawals, w = job[k].w,
         DebitWithdrawal(k)
  PROVE  [Promise!Next]_Promise!vars
<1>1. job[k].at = "debit" /\ Fits(job[k])
  BY AtRow DEF DebitWithdrawal, At
<1>2. w \notin debited
  BY <1>1 DEF Fits, RequestFits, Origins
<1>3. /\ UNCHANGED <<returned, leg, deposit>> /\ NoneLands
  BY TxStays DEF DebitWithdrawal, legVars, chainVars
<1>4. PaidStays /\ CreditedStays /\ PostedStays
  BY <1>3, PaymentsStay, PostedStay, CreditedStay
<1>5. CASE settled' = settled /\ debited' = debited
  BY <1>3, <1>4, <1>5, PromiseStutters
<1>6. CASE /\ settled[Owner[w]] >= Sum[w]
           /\ settled' = [settled EXCEPT ![Owner[w]] = @ - Sum[w]]
           /\ debited' = debited \cup {w}
  <2>1. Owner[w] \in Users
    BY CustodyAssumption
  <2>2. Promise!Out(Owner[w])' <= DailyCap
    BY <2>1, OutWithinCapNext DEF OutIsCapped
  <2>3. Promise!Take(w)
    BY <1>2, <1>3, <1>4, <1>6, <2>2 DEF Promise!Take, PaidStays, CreditedStays,
      PostedStays, Payments, Credited, Posted
  <2>4. QED
    BY <2>3 DEF Promise!Next
<1>7. QED
  BY <1>5, <1>6 DEF DebitWithdrawal

\* A reversal is GiveBack, or was done before.
LEMMA CreditBackGives ==
  ASSUME Inv, NEW k \in Slots, NEW w \in Withdrawals, w = job[k].w, CreditBack(k)
  PROVE  [Promise!Next]_Promise!vars
<1>1. job[k].at = "credit" /\ Fits(job[k])
  BY AtRow DEF CreditBack, At
<1>2. w \in debited /\ Landed(w) = {}
  BY <1>1 DEF Fits, ReversalFits, Reversing, Over, Landed, Live
<1>3. /\ UNCHANGED <<debited, leg, deposit>> /\ NoneLands
      /\ returned' = returned \cup {w}
  BY TxStays DEF CreditBack, legVars, chainVars
<1>4. PaidStays /\ CreditedStays /\ PostedStays
  BY <1>3, PaymentsStay, PostedStay, CreditedStay
<1>5. CASE w \in returned
  <2>1. settled' = settled /\ returned' = returned
    BY <1>3, <1>5 DEF CreditBack, NotReturned
  <2>2. QED
    BY <1>3, <1>4, <2>1, PromiseStutters
<1>6. CASE w \notin returned
  <2>1. settled' = [settled EXCEPT ![Owner[w]] = @ + Sum[w]]
    BY <1>6 DEF CreditBack, NotReturned
  <2>2. Payments[w] = 0
    BY <1>2, FS_EmptySet DEF Payments
  <2>3. Promise!GiveBack(w)
    BY <1>2, <1>3, <1>4, <1>6, <2>1, <2>2 DEF Promise!GiveBack, PaidStays, CreditedStays,
      PostedStays, Payments, Credited, Posted
  <2>4. QED
    BY <2>3 DEF Promise!Next
<1>7. QED
  BY <1>5, <1>6

\* The credit of a deposit is Credit, or was done before.
LEMMA DepositCredits ==
  ASSUME Inv, WatcherFits, CreditDeposit
  PROVE  [Promise!Next]_Promise!vars
<1>1. PICK d \in watcher.todo :
        /\ settled' = IF KeyFree(d)
                      THEN [settled EXCEPT ![Depositor[d]] = @ + Gift[d]] ELSE settled
        /\ deposit' = [deposit EXCEPT ![d] = "credited"]
  BY DEF CreditDeposit
<1>2. /\ d \in Deposits /\ deposit[d] \in {"recorded", "credited"}
      /\ deposit \in [Deposits -> DepositStages]
  BY DepositTypes DEF Watchers, WatcherFits, CreditDeposit
<1>3. UNCHANGED <<debited, returned, leg>> /\ NoneLands
  BY TxStays DEF CreditDeposit, legVars, chainVars
<1>4. PaidStays /\ PostedStays
  BY <1>3, PaymentsStay, PostedStay
<1>5. /\ deposit'[d] = "credited" /\ \A e \in Deposits \ {d} : deposit'[e] = deposit[e]
  BY <1>1, <1>2
<1>6. CASE deposit[d] = "credited"
  <2>1. settled' = settled /\ CreditedStays
    BY <1>1, <1>5, <1>6, CreditedStay DEF KeyFree
  <2>2. QED
    BY <1>3, <1>4, <2>1, PromiseStutters
<1>7. CASE deposit[d] = "recorded"
  <2>1. settled' = [settled EXCEPT ![Depositor[d]] = @ + Gift[d]]
    BY <1>1, <1>7 DEF KeyFree
  <2>2. d \notin Credited /\ Credited' = Credited \cup {d}
    BY <1>2, <1>5, <1>7 DEF Credited
  <2>3. Promise!Credit(d)
    BY <1>3, <1>4, <2>1, <2>2 DEF Promise!Credit, PaidStays, PostedStays, Payments,
      Credited, Posted
  <2>4. QED
    BY <1>2, <2>3 DEF Promise!Next
<1>8. QED
  BY <1>2, <1>6, <1>7

\* The move of a leg is Move.
LEMMA PostMoves ==
  ASSUME Inv, NEW l \in Legs, PostLeg(l)
  PROVE  [Promise!Next]_Promise!vars
<1>1. /\ UNCHANGED <<debited, returned, deposit>> /\ NoneLands /\ leg[l] = "NONE"
      /\ settled[Party[l]] + Share(l, "treasury") >= 0
      /\ settled' = [settled EXCEPT ![Party[l]] = @ + Share(l, "treasury")]
      /\ leg' = [leg EXCEPT ![l] = "PENDING"]
  BY TxStays DEF PostLeg, chainVars
<1>2. /\ leg'[l] = "PENDING" /\ \A m \in Legs \ {l} : leg'[m] = leg[m]
  BY <1>1, SettlerTypes
<1>3. PaidStays /\ CreditedStays
  BY <1>1, PaymentsStay, CreditedStay
<1>4. l \notin Posted /\ Posted' = Posted \cup {l}
  BY <1>1, <1>2 DEF Posted
<1>5. Promise!Move(l)
  BY <1>1, <1>3, <1>4 DEF Promise!Move, PaidStays, CreditedStays, Payments, Credited, Posted
<1>6. QED
  BY <1>5 DEF Promise!Next

\* A transfer that lands is Pay, or is of a leg.
LEMMA LandPays ==
  ASSUME Inv, NEW x \in Sigs, Land(x)
  PROVE  [Promise!Next]_Promise!vars
<1> DEFINE it == tx[x].what
<1>1. /\ tx[x].fate = "flying" /\ tx'[x].what = it /\ tx'[x].fate = "landed"
      /\ \A z \in Sigs \ {x} : tx'[z] = tx[z]
  BY FateMoves
<1>2. UNCHANGED <<settled, debited, returned, leg, deposit>>
  BY DEF Land, ledgerVars, legVars
<1>3. CreditedStays /\ PostedStays
  BY <1>2, CreditedStay, PostedStay
<1>4. \A w \in Withdrawals : w # it => Landed(w)' = Landed(w)
  BY <1>1 DEF Landed
<1>5. CASE it \notin Withdrawals
  <2>1. PaidStays
    BY <1>4, <1>5 DEF PaidStays, Payments
  <2>2. QED
    BY <1>2, <1>3, <2>1, PromiseStutters
<1>6. CASE it \in Withdrawals
  <2>1. PICK w \in Withdrawals : w = it
    BY <1>6
  <2>2. RowFits(w) /\ x \in Live(w)
    BY <1>1, <2>1 DEF Inv, RowsFit, Live
  <2>3. w \in debited \ returned
    BY <2>2 DEF RowFits
  <2>4. Landed(w) = {} /\ Landed(w)' = {x}
    <3>1. \A z \in Live(w) : z = x
      BY <2>2 DEF RowFits
    <3>2. QED
      BY <1>1, <2>1, <3>1 DEF Landed, Live
  <2>5. Payments[w] = 0 /\ Payments' = [Payments EXCEPT ![w] = 1]
    BY <1>4, <2>1, <2>4, FS_EmptySet, FS_Singleton DEF Payments
  <2>6. Promise!Pay(w)
    BY <1>2, <1>3, <2>3, <2>5 DEF Promise!Pay, CreditedStays, PostedStays, Payments,
      Credited, Posted
  <2>7. QED
    BY <2>6 DEF Promise!Next
<1>7. QED
  BY <1>5, <1>6

\* A deposit that arrives, is swept, recorded or closed is none.
LEMMA DepositStutters ==
  ASSUME Inv, WatcherFits,
         Sweep \/ (\E d \in Deposits : Arrive(d)) \/ RecordReceipt \/ CloseReceipt
  PROVE  UNCHANGED Promise!vars
<1>1. UNCHANGED <<settled, debited, returned, leg>> /\ NoneLands
  BY TxStays DEF Sweep, Arrive, RecordReceipt, CloseReceipt, ledgerVars, legVars, chainVars
<1>2. PaidStays /\ PostedStays
  BY <1>1, PaymentsStay, PostedStay
<1>3. PICK d \in Deposits :
        /\ \A e \in Deposits \ {d} : deposit'[e] = deposit[e]
        /\ deposit'[d] \in {"credited", "closed"} <=> deposit[d] \in {"credited", "closed"}
  <2>1. /\ deposit \in [Deposits -> DepositStages]
        /\ watcher.events \subseteq Deposits /\ watcher.todo \subseteq Deposits
    BY DepositTypes DEF Watchers
  <2>2. ASSUME NEW d \in Deposits, Arrive(d)
        PROVE  /\ \A e \in Deposits \ {d} : deposit'[e] = deposit[e]
               /\ deposit'[d] = "arrived" /\ deposit[d] = "absent"
    BY <2>1, <2>2 DEF Arrive
  <2>3. CASE RecordReceipt
    <3>1. PICK d \in watcher.events : deposit' = [deposit EXCEPT ![d] = "recorded"]
      BY <2>3 DEF RecordReceipt
    <3>2. d \in Deposits /\ deposit[d] = "swept" /\ deposit'[d] = "recorded"
      BY <2>1, <3>1 DEF WatcherFits
    <3>3. QED
      BY <2>1, <3>1, <3>2
  <2>4. CASE CloseReceipt
    <3>1. PICK d \in Deposits : d = watcher.d /\ deposit[d] = "credited"
      BY <2>4 DEF CloseReceipt, WatcherFits
    <3>2. deposit' = [deposit EXCEPT ![d] = "closed"]
      BY <2>4, <3>1 DEF CloseReceipt
    <3>3. deposit'[d] = "closed" /\ \A e \in Deposits \ {d} : deposit'[e] = deposit[e]
      BY <2>1, <3>2
    <3>4. QED
      BY <3>1, <3>3
  <2>5. CASE Sweep
    <3>1. PICK d \in watcher.todo : deposit' = [deposit EXCEPT ![d] = "swept"]
      BY <2>5 DEF Sweep
    <3>2. d \in Deposits /\ deposit[d] = "arrived" /\ deposit'[d] = "swept"
      BY <2>1, <2>5, <3>1 DEF WatcherFits, Sweep
    <3>3. QED
      BY <2>1, <3>1, <3>2
  <2>6. QED
    BY <2>2, <2>3, <2>4, <2>5
<1>4. CreditedStays
  BY <1>3, CreditedStay
<1>5. QED
  BY <1>1, <1>2, <1>4, PromiseStutters

\* Every other step keeps the balance, the debits and the credits.
LEMMA RestStutters ==
  ASSUME LegInv, NoneLands, UNCHANGED <<settled, debited, returned, deposit>>,
         Inv, leg' = leg \/ RecordLeg \/ AskLeg
  PROVE  UNCHANGED Promise!vars
<1>1. \A l \in Legs : leg'[l] = "NONE" <=> leg[l] = "NONE"
  <2>1. ASSUME RecordLeg \/ AskLeg
        PROVE  \A l \in Legs : leg'[l] = "NONE" <=> leg[l] = "NONE"
    <3>1. PICK l \in Legs : l = settler.leg /\ leg[l] \in {"PENDING", "SUBMITTED"}
      BY <2>1 DEF RecordLeg, AskLeg, LegInv, SettlerFits
    <3>2. \/ leg' = leg
          \/ \E s \in {"PENDING", "SUBMITTED", "CONFIRMED"} : leg' = [leg EXCEPT ![l] = s]
      BY <2>1, <3>1 DEF RecordLeg, AskLeg
    <3>3. QED
      BY <3>1, <3>2, SettlerTypes
  <2>2. QED
    BY <2>1
<1>2. PaidStays /\ CreditedStays /\ PostedStays
  BY <1>1, PaymentsStay, CreditedStay, PostedStay
<1>3. QED
  BY <1>2, PromiseStutters


LEMMA PromiseStep ==
  ASSUME Inv, Inv', LegInv, WalletInv, [Next]_vars
  PROVE  [Promise!Next]_Promise!vars
<1> DEFINE Kept == [Promise!Next]_Promise!vars
<1>1. ASSUME NEW x \in Sigs, Land(x) PROVE Kept
  BY <1>1, LandPays
<1>2. ASSUME NEW k \in Slots, DebitWithdrawal(k) \/ CreditBack(k) PROVE Kept
  <2>1. PICK w \in Withdrawals : w = job[k].w
    BY <1>2, AtRow DEF DebitWithdrawal, CreditBack, At
  <2>2. QED
    BY <1>2, <2>1, DebitTakes, CreditBackGives
<1>3. CASE CreditDeposit
  BY <1>3, DepositCredits DEF WalletInv
<1>4. ASSUME NEW l \in Legs, PostLeg(l) PROVE Kept
  BY <1>4, PostMoves
<1>5. CASE \/ Sweep \/ (\E d \in Deposits : Arrive(d)) \/ RecordReceipt \/ CloseReceipt
  BY <1>5, DepositStutters DEF WalletInv
<1>6. CASE NoneLands
  <2>1. ASSUME UNCHANGED <<settled, debited, returned, deposit>>,
               leg' = leg \/ RecordLeg \/ AskLeg
        PROVE  Kept
    BY <1>6, <2>1, RestStutters
  <2>2. ASSUME NEW k \in Slots,
               \/ \E w \in Withdrawals : RequestWithdrawal(k, w)
               \/ Step(k) /\ ~DebitWithdrawal(k) /\ ~CreditBack(k)
               \/ StartPass(k)
        PROVE  Kept
    <3>1. UNCHANGED <<settled, debited, returned, deposit, leg>>
      BY <2>2 DEF RequestWithdrawal, Step, Withdraw, Resolve, RefuseWithdrawal,
        SendWithdrawal, RecordWithdrawal, AskWithdrawal, ConfirmWithdrawal, ReadAgain,
        MarkFailed, NextRow, MarkForReview, StartPass, ledgerVars, legVars
    <3>2. QED
      BY <2>1, <3>1
  <2>3. CASE SettlerTick \/ SettlerStep
    <3>1. /\ UNCHANGED <<settled, debited, returned, deposit>>
          /\ leg' = leg \/ RecordLeg \/ AskLeg
      BY <2>3 DEF SettlerTick, SettlerStep, TakeLeg, RecordLeg, AskLeg, EndSettlerTick,
        ledgerVars, legVars
    <3>2. QED
      BY <2>1, <3>1
  <2>4. CASE WatcherTick \/ EndSweep \/ ReadReceipts \/ EndWatcherTick
    <3>1. UNCHANGED <<settled, debited, returned, deposit, leg>>
      BY <2>4 DEF WatcherTick, EndSweep, ReadReceipts, EndWatcherTick, ledgerVars, legVars
    <3>2. QED
      BY <2>1, <3>1
  <2>5. CASE (\E x \in Sigs : Die(x)) \/ Fail \/ UNCHANGED vars
    <3>1. UNCHANGED <<settled, debited, returned, deposit, leg>>
      BY <2>5 DEF Die, Fail, HandlerFails, SettlerFails, WatcherFails, Crash, vars,
        ledgerVars, legVars
    <3>2. QED
      BY <2>1, <3>1
  <2>6. QED
    BY <1>1, <1>2, <1>3, <1>4, <1>5, <2>2, <2>3, <2>4, <2>5 DEF Next, WatcherStep
<1>7. QED
  BY <1>1, <1>6, Forward

LEMMA PromiseInit == Init => Promise!Init
<1> SUFFICES ASSUME Init PROVE Promise!Init
  OBVIOUS
<1>1. settled \in [Users -> Nat] /\ debited = {} /\ returned = {}
  BY CustodyAssumption DEF Init
<1>2. Credited = {} /\ Posted = {}
  BY DEF Init, Credited, Posted
<1>3. \A w \in Withdrawals : Landed(w) = {}
  BY DEF Init, Landed
<1>4. Payments = [w \in Withdrawals |-> 0]
  BY <1>3, FS_EmptySet DEF Payments
<1>5. QED
  BY <1>1, <1>2, <1>4 DEF Promise!Init, Credited, Posted, Payments

\* For any number of users, withdrawals, deposits and legs, and whatever requests,
\* passes, ticks, transfers, errors and crashes overlap, the balances and what
\* leaves for the chain keep CustodyPromise: a withdrawal is taken once and within
\* the cap, then paid once or given back once, never both; a deposit is credited
\* once and a leg posted once (withdrawals.ts, ledger.ts, deposits.ts together).
THEOREM KeepsPromise == Spec => KeepsCustodyPromise
<1>1. Spec => [](Inv /\ LegInv /\ WalletInv)
  BY Invariance, LegInitInv, LegStepInv, WalletInitInv, WalletStepInv, PTL DEF Spec
<1>2. Inv /\ Inv' /\ LegInv /\ WalletInv /\ [Next]_vars => [Promise!Next]_Promise!vars
  BY PromiseStep
<1>3. QED
  BY PromiseInit, <1>1, <1>2, PTL DEF Spec, KeepsCustodyPromise, Promise!Spec

-----------------------------------------------------------------------------
(* Without a fault nothing on its way is out of everybody's hands.         *)

\* The request of withdrawal w, or its reversal, is under way.
InHand(w) == \E k \in Slots : job[k].w = w /\ job[k].at \in Origins \cup Reversing

\* As long as nothing has failed, a PENDING withdrawal, which no pass looks for, has
\* a handler, and the watcher holds what it swept and has no receipt of.
NothingIsDropped ==
  faults = 0 =>
    /\ \A w \in Withdrawals : wstatus[w] = "PENDING" => InHand(w)
    /\ \A d \in Deposits : deposit[d] = "swept" => d \in watcher.events

DropInv ==
  /\ \A w \in Withdrawals : wstatus[w] = "PENDING" => wsig[w] = None /\ w \notin reversedAt
  /\ watcher.at \notin {"sweep", "record"} => watcher.events = {}
  /\ NothingIsDropped

\* The handler of slot k keeps its withdrawal in hand as long as it is PENDING.
LEMMA HandKept ==
  ASSUME Inv, DropInv, NEW k \in Slots, Step(k), job[k].at \in Origins \cup Reversing,
         wstatus'[job[k].w] = "PENDING"
  PROVE  job'[k].w = job[k].w /\ job'[k].at \in Origins \cup Reversing
<1>1. job[k].w \in Withdrawals /\ job \in [Slots -> Jobs] /\ job[k] \in Jobs
  BY AtRow DEF Inv, TypeOK, Origins, Reversing
<1>2. wstatus \in [Withdrawals -> WithdrawalStatus]
  BY DEF Inv, TypeOK
<1>3. ASSUME NEW at \in {"send", "refuse", "fresh", "credit", "fail"}, GoTo(k, at)
      PROVE  job'[k].w = job[k].w /\ job'[k].at \in Origins \cup Reversing
  BY <1>1, <1>3 DEF GoTo, Jobs, Origins, Reversing
<1>4. CASE DebitWithdrawal(k) \/ CreditBack(k)
  BY <1>3, <1>4 DEF DebitWithdrawal, CreditBack
<1>5. CASE SendWithdrawal(k)
  <2>1. \/ GoTo(k, "fresh")
        \/ job' = [job EXCEPT ![k] = [@ EXCEPT !.at = "record", !.sig = NewSig]]
    BY <1>5 DEF SendWithdrawal
  <2>2. QED
    BY <1>1, <1>3, <2>1 DEF Jobs, Origins
<1>6. CASE ReadAgain(k)
  <2>1. wstatus[job[k].w] = "PENDING"
    BY <1>6 DEF ReadAgain, rowVars
  <2>2. job[k].w \notin reversedAt
    BY <1>1, <2>1 DEF DropInv
  <2>3. QED
    BY <1>3, <1>6, <2>1, <2>2 DEF ReadAgain
<1>7. CASE RefuseWithdrawal(k) \/ RecordWithdrawal(k) \/ MarkFailed(k)
  BY <1>1, <1>2, <1>7 DEF RefuseWithdrawal, RecordWithdrawal, MarkFailed
<1>8. CASE AskWithdrawal(k) \/ ConfirmWithdrawal(k) \/ NextRow(k) \/ MarkForReview(k)
  BY <1>8 DEF AskWithdrawal, ConfirmWithdrawal, NextRow, MarkForReview, At, Origins, Reversing
<1>9. QED
  BY <1>4, <1>5, <1>6, <1>7, <1>8 DEF Step, Withdraw, Resolve

\* A step of a handler makes no row PENDING.
LEMMA PendingOnly ==
  ASSUME Inv, DropInv, NEW k \in Slots, Step(k), NEW v \in Withdrawals,
         wstatus'[v] = "PENDING"
  PROVE  wstatus[v] = "PENDING" /\ wsig'[v] = None /\ v \notin reversedAt'
<1>1. wstatus \in [Withdrawals -> WithdrawalStatus] /\ wsig \in [Withdrawals -> Sigs \cup {None}]
  BY DEF Inv, TypeOK
<1>2. wstatus[v] = "PENDING"
  BY <1>1 DEF Step, Withdraw, Resolve, DebitWithdrawal, RefuseWithdrawal, SendWithdrawal,
    RecordWithdrawal, AskWithdrawal, ConfirmWithdrawal, ReadAgain, CreditBack, MarkFailed,
    NextRow, MarkForReview, rowVars
<1>3. wsig[v] = None /\ v \notin reversedAt
  BY <1>2 DEF DropInv
<1>4. CASE RecordWithdrawal(k) \/ MarkFailed(k)
  <2>1. v # job[k].w
    BY <1>1, <1>4 DEF RecordWithdrawal, MarkFailed
  <2>2. QED
    BY <1>1, <1>2, <1>3, <1>4, <2>1 DEF RecordWithdrawal, MarkFailed
<1>5. CASE ~(RecordWithdrawal(k) \/ MarkFailed(k))
  <2>1. UNCHANGED <<wsig, reversedAt>>
    BY <1>5 DEF Step, Withdraw, Resolve, DebitWithdrawal, RefuseWithdrawal, SendWithdrawal,
      AskWithdrawal, ConfirmWithdrawal, ReadAgain, CreditBack, NextRow, MarkForReview, rowVars
  <2>2. QED
    BY <1>2, <1>3, <2>1
<1>6. QED
  BY <1>4, <1>5

\* What a step of the handlers has to show.
LEMMA DropKept ==
  ASSUME DropInv, UNCHANGED <<deposit, watcher, faults>>,
         \A w \in Withdrawals :
           wstatus'[w] = "PENDING" =>
             /\ wsig'[w] = None /\ w \notin reversedAt'
             /\ faults = 0 => InHand(w)'
  PROVE  DropInv'
BY DEF DropInv, NothingIsDropped

LEMMA DropStep ==
  ASSUME Inv, DropInv, NEW k \in Slots, Step(k)
  PROVE  DropInv'
<1>1. UNCHANGED <<deposit, watcher, faults>>
  BY DEF Step, Withdraw, Resolve, DebitWithdrawal, RefuseWithdrawal, SendWithdrawal,
    RecordWithdrawal, AskWithdrawal, ConfirmWithdrawal, ReadAgain, CreditBack, MarkFailed,
    NextRow, MarkForReview
<1>2. \A h \in Slots \ {k} : job'[h] = job[h]
  BY DEF Step, Withdraw, Resolve, DebitWithdrawal, RefuseWithdrawal, SendWithdrawal,
    RecordWithdrawal, AskWithdrawal, ConfirmWithdrawal, ReadAgain, CreditBack, MarkFailed,
    NextRow, MarkForReview, GoTo, Done, Inv, TypeOK
<1>3. ASSUME NEW v \in Withdrawals, wstatus'[v] = "PENDING", faults = 0
      PROVE  InHand(v)'
  <2>1. wstatus[v] = "PENDING"
    BY <1>3, PendingOnly
  <2>2. PICK h \in Slots : job[h].w = v /\ job[h].at \in Origins \cup Reversing
    BY <1>3, <2>1 DEF DropInv, NothingIsDropped, InHand
  <2>3. job'[h].w = v /\ job'[h].at \in Origins \cup Reversing
    BY <1>2, <1>3, <2>2, HandKept
  <2>4. QED
    BY <2>3 DEF InHand, Origins, Reversing
<1>4. QED
  BY <1>1, <1>3, PendingOnly, DropKept

\* A request takes its row in hand; a pass takes none from anybody.
LEMMA DropRequests ==
  ASSUME Inv, RowsTell, DropInv, NEW k \in Slots,
         (\E w \in Withdrawals : RequestWithdrawal(k, w)) \/ StartPass(k)
  PROVE  DropInv'
<1>1. /\ UNCHANGED <<deposit, watcher, faults, wsig, reversedAt>> /\ job[k] = Idle
      /\ \A h \in Slots \ {k} : job'[h] = job[h]
  BY DEF RequestWithdrawal, StartPass, Free, rowVars, Inv, TypeOK
<1>2. ASSUME NEW v \in Withdrawals, wstatus[v] = "PENDING", faults = 0 PROVE InHand(v)'
  <2>1. PICK h \in Slots : job[h].w = v /\ job[h].at \in Origins \cup Reversing
    BY <1>2 DEF DropInv, NothingIsDropped, InHand
  <2>2. h # k
    BY <1>1, <2>1 DEF Idle, Origins, Reversing
  <2>3. QED
    BY <1>1, <2>1, <2>2 DEF InHand, Origins, Reversing
<1>3. ASSUME NEW w \in Withdrawals, RequestWithdrawal(k, w) PROVE DropInv'
  <2>1. /\ wsig[w] = None /\ w \notin reversedAt
        /\ \A v \in Withdrawals \ {w} : wstatus'[v] = wstatus[v]
    BY <1>3 DEF RequestWithdrawal, Inv, TypeOK, RowsFit, RowFits, RowsTell, RowTells
  <2>2. job'[k].w = w /\ job'[k].at = "debit"
    BY <1>3 DEF RequestWithdrawal, Idle, Inv, TypeOK
  <2>3. InHand(w)'
    BY <2>2 DEF InHand, Origins
  <2>4. \A v \in Withdrawals \ {w} :
          wstatus'[v] = "PENDING" => wsig[v] = None /\ v \notin reversedAt
    BY <2>1 DEF DropInv
  <2>5. QED
    BY <1>1, <1>2, <2>1, <2>3, <2>4, DropKept
<1>4. CASE StartPass(k)
  <2>1. wstatus' = wstatus
    BY <1>4 DEF StartPass, rowVars
  <2>2. \A v \in Withdrawals : wstatus[v] = "PENDING" => wsig[v] = None /\ v \notin reversedAt
    BY DEF DropInv
  <2>3. QED
    BY <1>1, <1>2, <2>1, <2>2, DropKept
<1>5. QED
  BY <1>3, <1>4

\* The watcher lets go of a deposit when it has a receipt.
LEMMA DropWatcher ==
  ASSUME Inv, DropInv, WatcherTick \/ WatcherStep \/ \E d \in Deposits : Arrive(d)
  PROVE  DropInv'
<1>1. /\ UNCHANGED <<wstatus, wsig, reversedAt, job, faults>>
      /\ watcher \in Watchers /\ deposit \in [Deposits -> DepositStages]
  BY DEF WatcherTick, WatcherStep, Arrive, Sweep, EndSweep, RecordReceipt, ReadReceipts,
    CreditDeposit, CloseReceipt, EndWatcherTick, rowVars, memoryVars, Inv, TypeOK
<1>2. \A w \in Withdrawals :
        /\ wstatus'[w] = "PENDING" => wsig'[w] = None /\ w \notin reversedAt'
        /\ faults' = 0 /\ wstatus'[w] = "PENDING" => InHand(w)'
  BY <1>1 DEF DropInv, NothingIsDropped, InHand
<1> DEFINE Held == \A d \in Deposits : deposit[d] = "swept" => d \in watcher.events
           Empty == watcher.at \notin {"sweep", "record"} => watcher.events = {}
<1>3. Empty /\ (faults = 0 => Held)
  BY DEF DropInv, NothingIsDropped
<1> SUFFICES Empty' /\ (faults' = 0 => Held')
  BY <1>2 DEF DropInv, NothingIsDropped
<1>4. CASE \E d \in Deposits : Arrive(d)
  BY <1>1, <1>3, <1>4 DEF Arrive, memoryVars
<1>5. CASE WatcherTick
  BY <1>1, <1>3, <1>5 DEF WatcherTick, WatcherIdle
<1>6. CASE Sweep
  BY <1>1, <1>3, <1>6 DEF Sweep, Watchers
<1>7. CASE EndSweep \/ ReadReceipts
  BY <1>1, <1>3, <1>7 DEF EndSweep, ReadReceipts, Watchers
<1>8. CASE RecordReceipt
  BY <1>1, <1>3, <1>8 DEF RecordReceipt, Watchers
<1>9. CASE CreditDeposit \/ CloseReceipt
  BY <1>1, <1>3, <1>9 DEF CreditDeposit, CloseReceipt, Watchers
<1>10. CASE EndWatcherTick
  BY <1>1, <1>3, <1>10 DEF EndWatcherTick, WatcherIdle
<1>11. QED
  BY <1>4, <1>5, <1>6, <1>7, <1>8, <1>9, <1>10 DEF WatcherStep

LEMMA DropNext == Inv /\ RowsTell /\ DropInv /\ [Next]_vars => DropInv'
<1> SUFFICES ASSUME Inv, RowsTell, DropInv, [Next]_vars PROVE DropInv'
  OBVIOUS
<1>1. CASE \/ \E l \in Legs : PostLeg(l)
           \/ SettlerTick \/ SettlerStep
           \/ \E x \in Sigs : Land(x) \/ Die(x)
           \/ UNCHANGED vars
  <2>1. UNCHANGED <<wstatus, wsig, reversedAt, deposit, job, watcher, faults>>
    BY <1>1 DEF PostLeg, SettlerTick, SettlerStep, TakeLeg, RecordLeg, AskLeg,
      EndSettlerTick, Land, Die, vars, rowVars, memoryVars
  <2>2. QED
    BY <2>1 DEF DropInv, NothingIsDropped, InHand
<1>2. CASE Fail
  <2>1. /\ UNCHANGED <<wstatus, wsig, reversedAt>> /\ faults' # 0
    BY <1>2 DEF Fail, HandlerFails, SettlerFails, WatcherFails, Crash, FaultHappens, rowVars,
      Inv, TypeOK
  <2>2. watcher'.at \notin {"sweep", "record"} => watcher'.events = {}
    <3>1. /\ watcher \in Watchers
          /\ watcher.at \notin {"sweep", "record"} => watcher.events = {}
      BY DEF Inv, TypeOK, DropInv
    <3>2. CASE WatcherFails
      BY <3>1, <3>2 DEF WatcherFails, Watchers
    <3>3. CASE ~WatcherFails
      BY <1>2, <3>1, <3>3 DEF Fail, HandlerFails, SettlerFails, Crash, WatcherIdle
    <3>4. QED
      BY <3>2, <3>3
  <2>3. QED
    BY <2>1, <2>2 DEF DropInv, NothingIsDropped
<1>3. QED
  BY <1>1, <1>2, DropStep, DropRequests, DropWatcher DEF Next

\* For any number of withdrawals, deposits, requests and passes: as long as nothing
\* has failed, a withdrawal that is PENDING, and so on no pass's list, has a handler
\* that is about to send, refuse or give it back, and every deposit that was swept is
\* in the watcher's hands until it has a receipt.  Only an error or a crash can strand
\* either (requestWithdrawal, WithdrawalReconciler, DepositWatcher.tick).
THEOREM NothingIsEverDropped == Spec => []NothingIsDropped
<1>1. Init => DropInv /\ RowsTell
  BY DEF Init, DropInv, NothingIsDropped, WatcherIdle, RowsTell, RowTells
<1>2. DropInv => NothingIsDropped
  BY DEF DropInv
<1>3. QED
  BY <1>1, <1>2, Invariance, RowsTellStep, DropNext, PTL DEF Spec

=============================================================================
