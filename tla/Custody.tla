------------------------------ MODULE Custody ------------------------------
(***************************************************************************)
(* Money between the ledger and the chain: withdrawals (withdrawals.ts),   *)
(* the outbox of transfers between the operator's own wallets              *)
(* (chain-settle.ts, fed by ledger.ts), and deposits (deposits.ts), over   *)
(* the ChainClient they share (chain/types.ts).                            *)
(*                                                                         *)
(* The ledger says what everybody owns, the wallets hold it; no            *)
(* transaction spans both.  Every awaited statement or request is a step.  *)
(* Amounts are in whole units of USDC.                                     *)
(***************************************************************************)
EXTENDS Totals

CONSTANTS
  Users,        \* ids of users, each with an account
  Withdrawals,  \* ids of withdrawal rows
  Legs,         \* ids of ledger moves that enqueue a ChainTransfer row
  Deposits,     \* amounts that come together at a deposit address
  Slots,        \* bound: requests and reconciler passes at the same time
  Sigs,         \* bound: transfers broadcast
  None,         \* null
  Owner, Sum,               \* withdrawal.userId, withdrawal.amount
  From, To, Worth, Party,   \* of a leg; Party is the user at its treasury end
  Depositor, Gift,          \* of a deposit
  Funds,        \* settled balance of each user to begin with
  DailyCap,     \* dailyWithdrawCapMicros
  MaxFaults     \* bound: errors and crashes

House   == {"escrow", "buyback", "fee"}
Wallets == House \cup {"treasury"}

ASSUME CustodyAssumption ==
  /\ IsFiniteSet(Users) /\ IsFiniteSet(Withdrawals) /\ IsFiniteSet(Legs)
  /\ IsFiniteSet(Deposits) /\ IsFiniteSet(Sigs)
  /\ Owner \in [Withdrawals -> Users] /\ Sum \in [Withdrawals -> Nat \ {0}]
  /\ From \in [Legs -> Wallets] /\ To \in [Legs -> Wallets]
  /\ Party \in [Legs -> Users] /\ Worth \in [Legs -> Nat \ {0}]
  /\ Depositor \in [Deposits -> Users] /\ Gift \in [Deposits -> Nat \ {0}]
  /\ Funds \in [Users -> Nat] /\ DailyCap \in Nat /\ MaxFaults \in Nat
  /\ None \notin Withdrawals \cup Legs \cup Deposits \cup Sigs
  /\ Withdrawals \cap Legs = {}

\* In escrow mode the process refuses to start with two wallets the same.
ASSUME WalletsAssumption == \A l \in Legs : From[l] # To[l]

VARIABLES
  \* durable: the ledger
  settled,      \* of each user
  house,        \* the ESCROW, PLATFORM and FEE accounts
  debited,      \* withdrawals whose withdraw key is taken
  returned,     \* withdrawals whose withdraw-reverse key is taken
  \* durable: the Withdrawal, ChainTransfer and DepositReceipt tables
  wstatus, wsig, reversedAt,
  leg, legSig,
  deposit,      \* how far a deposit has come, chain and receipt
  \* the chain
  wallet,       \* USDC of the operator's wallets
  tx,           \* what a signature transfers and its fate
  \* in memory
  job, settler, watcher,
  faults

ledgerVars  == <<settled, house, debited, returned>>
rowVars     == <<wstatus, wsig, reversedAt>>
legVars     == <<leg, legSig>>
chainVars   == <<wallet, tx>>
memoryVars  == <<job, settler, watcher>>
vars == <<ledgerVars, rowVars, legVars, deposit, chainVars, memoryVars, faults>>

-----------------------------------------------------------------------------
(* Types.                                                                  *)

WithdrawalStatus ==
  {"NONE", "PENDING", "SUBMITTED", "CONFIRMED", "FAILED", "NEEDS_REVIEW"}
INFLIGHT  == {"PENDING", "SUBMITTED", "CONFIRMED", "NEEDS_REVIEW"}
UNSETTLED == {"SUBMITTED", "NEEDS_REVIEW"}

LegStatus == {"NONE", "PENDING", "SUBMITTED", "CONFIRMED"}

\* At the user's address, swept into treasury, with a receipt, credited, closed.
DepositStages == {"absent", "arrived", "swept", "recorded", "credited", "closed"}

Fates == {"free", "flying", "landed", "dead"}
Tx == [what : Withdrawals \cup Legs \cup {None}, fate : Fates]

\* The statement a withdrawal's handler has come to; a pass comes to "next".
Labels == {"idle", "debit", "refuse", "send", "record", "next", "ask", "confirm",
           "fresh", "credit", "fail", "review"}

\* was is the status that was read, todo the rest of a reconciler's list.
Jobs == [at : Labels, w : Withdrawals \cup {None}, sig : Sigs \cup {None},
         was : WithdrawalStatus, pass : BOOLEAN,
         todo : SUBSET (Withdrawals \X WithdrawalStatus)]
Idle == [at |-> "idle", w |-> None, sig |-> None, was |-> "NONE", pass |-> FALSE,
         todo |-> {}]

Settlers == [at : {"idle", "next", "record", "ask"}, leg : Legs \cup {None},
             sig : Sigs \cup {None}, todo : SUBSET Legs]
SettlerIdle == [at |-> "idle", leg |-> None, sig |-> None, todo |-> {}]

Watchers == [at : {"idle", "sweep", "record", "credit", "close"},
             events : SUBSET Deposits, d : Deposits \cup {None},
             todo : SUBSET Deposits]
WatcherIdle == [at |-> "idle", events |-> {}, d |-> None, todo |-> {}]

Init ==
  /\ settled = Funds
  /\ house = [x \in House |-> 0]
  /\ debited = {} /\ returned = {}
  /\ wstatus = [w \in Withdrawals |-> "NONE"]
  /\ wsig = [w \in Withdrawals |-> None]
  /\ reversedAt = {}
  /\ leg = [l \in Legs |-> "NONE"]
  /\ legSig = [l \in Legs |-> None]
  /\ deposit = [d \in Deposits |-> "absent"]
  /\ wallet = [x \in Wallets |-> IF x = "treasury" THEN Total(Funds, Users) ELSE 0]
  /\ tx = [x \in Sigs |-> [what |-> None, fate |-> "free"]]
  /\ job = [k \in Slots |-> Idle]
  /\ settler = SettlerIdle
  /\ watcher = WatcherIdle
  /\ faults = 0

-----------------------------------------------------------------------------
(* The chain, as ChainClient promises it.  A signed transfer is in flight  *)
(* until it lands or can never land; either is final.                      *)

SomeSigFree == \E x \in Sigs : tx[x].fate = "free"
NewSig == CHOOSE x \in Sigs : tx[x].fate = "free"

\* sendTransfer: the signature is returned even if the send itself is lost.
Broadcast(what) ==
  /\ SomeSigFree
  /\ tx' = [tx EXCEPT ![NewSig] = [what |-> what, fate |-> "flying"]]

\* A transfer that lands moves the money; one without the money cannot land.
Land(x) ==
  LET it == tx[x].what
      src == IF it \in Legs THEN From[it] ELSE "treasury"
      amount == IF it \in Legs THEN Worth[it] ELSE Sum[it]
  IN
  /\ tx[x].fate = "flying"
  /\ wallet[src] >= amount
  /\ tx' = [tx EXCEPT ![x].fate = "landed"]
  /\ wallet' = [y \in Wallets |->
       wallet[y] - (IF y = src THEN amount ELSE 0)
                 + (IF it \in Legs /\ To[it] = y THEN amount ELSE 0)]
  /\ UNCHANGED <<ledgerVars, rowVars, legVars, deposit, memoryVars, faults>>

\* It reverts, or its blockhash expires.
Die(x) ==
  /\ tx[x].fate = "flying"
  /\ tx' = [tx EXCEPT ![x].fate = "dead"]
  /\ UNCHANGED <<ledgerVars, rowVars, legVars, deposit, wallet, memoryVars, faults>>

-----------------------------------------------------------------------------
(* Withdrawals: requestWithdrawal.                                         *)

Free(k) == job[k] = Idle
At(k, at) == job[k].at = at
GoTo(k, at) == job' = [job EXCEPT ![k].at = at]

\* A request returns; a reconciler's pass goes on with its list.
Done(k) ==
  job' = [job EXCEPT ![k] =
    IF job[k].pass THEN [Idle EXCEPT !.at = "next", !.pass = TRUE, !.todo = job[k].todo]
    ELSE Idle]

\* What a user has taken out today, or may have: withdrawnLast24h.
Used(u) ==
  Total([w \in Withdrawals |->
           IF Owner[w] = u /\ wstatus[w] \in INFLIGHT THEN Sum[w] ELSE 0], Withdrawals)

\* Slip: only what is confirmed counts against the cap.
CapIgnoringPending(w) ==
  Sum[w] + Total([v \in Withdrawals |->
                    IF Owner[v] = Owner[w] /\ wstatus[v] = "CONFIRMED" THEN Sum[v] ELSE 0],
                 Withdrawals) <= DailyCap

WithinCap(w) == Used(Owner[w]) + Sum[w] <= DailyCap

\* The row is created under the user's advisory lock, with the cap checked.
RequestWithdrawal(k, w) ==
  /\ Free(k)
  /\ wstatus[w] = "NONE"
  /\ WithinCap(w)
  /\ wstatus' = [wstatus EXCEPT ![w] = "PENDING"]
  /\ job' = [job EXCEPT ![k] = [Idle EXCEPT !.at = "debit", !.w = w, !.was = "PENDING"]]
  /\ UNCHANGED <<ledgerVars, wsig, reversedAt, legVars, deposit, chainVars, settler,
                 watcher, faults>>

\* The debit posts under its key, or is refused or throws; it needs the money.
DebitWithdrawal(k) ==
  LET w == job[k].w  u == Owner[w] IN
  /\ At(k, "debit")
  /\ \/ /\ settled[u] >= Sum[w]
        /\ settled' = [settled EXCEPT ![u] = @ - Sum[w]]
        /\ debited' = debited \cup {w}
        /\ GoTo(k, "send")
     \/ GoTo(k, "refuse") /\ UNCHANGED <<settled, debited>>
  /\ UNCHANGED <<house, returned, rowVars, legVars, deposit, chainVars, settler,
                 watcher, faults>>

RefuseWithdrawal(k) ==
  /\ At(k, "refuse")
  /\ wstatus' = [wstatus EXCEPT ![job[k].w] = "FAILED"]
  /\ Done(k)
  /\ UNCHANGED <<ledgerVars, wsig, reversedAt, legVars, deposit, chainVars, settler,
                 watcher, faults>>

\* The transfer is broadcast, or the client throws before it is.
SendWithdrawal(k) ==
  /\ At(k, "send")
  /\ \/ /\ Broadcast(job[k].w)
        /\ job' = [job EXCEPT ![k] = [@ EXCEPT !.at = "record", !.sig = NewSig]]
     \/ GoTo(k, "fresh") /\ UNCHANGED tx
  /\ UNCHANGED <<ledgerVars, rowVars, legVars, deposit, wallet, settler, watcher,
                 faults>>

RecordWithdrawal(k) ==
  LET w == job[k].w IN
  /\ At(k, "record")
  /\ wstatus' = [wstatus EXCEPT ![w] = "SUBMITTED"]
  /\ wsig' = [wsig EXCEPT ![w] = job[k].sig]
  /\ job' = [job EXCEPT ![k] = [@ EXCEPT !.at = "ask", !.was = "SUBMITTED"]]
  /\ UNCHANGED <<ledgerVars, reversedAt, legVars, deposit, chainVars, settler,
                 watcher, faults>>

-----------------------------------------------------------------------------
(* settleWithdrawal and reverseWithdrawal, from a request or a pass.       *)

\* Slip: a transfer nobody has seen land is taken for dead.
AskImpatient(k) ==
  LET fate == tx[job[k].sig].fate IN
  /\ At(k, "ask")
  /\ GoTo(k, IF fate = "landed" THEN "confirm" ELSE "fresh")
  /\ UNCHANGED <<ledgerVars, rowVars, legVars, deposit, chainVars, settler, watcher,
                 faults>>

\* getTransferStatus; a pass may find a row that is SUBMITTED for too long.
AskWithdrawal(k) ==
  LET fate == tx[job[k].sig].fate IN
  /\ At(k, "ask")
  /\ \/ fate = "landed" /\ GoTo(k, "confirm")
     \/ fate = "dead" /\ GoTo(k, "fresh")
     \/ fate = "flying" /\ Done(k)
     \/ fate = "flying" /\ job[k].pass /\ job[k].was = "SUBMITTED" /\ GoTo(k, "review")
  /\ UNCHANGED <<ledgerVars, rowVars, legVars, deposit, chainVars, settler, watcher,
                 faults>>

\* Only a row that was not reversed is confirmed.
ConfirmWithdrawal(k) ==
  LET w == job[k].w IN
  /\ At(k, "confirm")
  /\ wstatus' = IF wstatus[w] \in UNSETTLED /\ w \notin reversedAt
                THEN [wstatus EXCEPT ![w] = "CONFIRMED"] ELSE wstatus
  /\ Done(k)
  /\ UNCHANGED <<ledgerVars, wsig, reversedAt, legVars, deposit, chainVars, settler,
                 watcher, faults>>

\* The row is read again before it is reversed.
ReadAgain(k) ==
  LET w == job[k].w IN
  /\ At(k, "fresh")
  /\ IF wstatus[w] = "CONFIRMED" \/ w \in reversedAt THEN Done(k) ELSE GoTo(k, "credit")
  /\ UNCHANGED <<ledgerVars, rowVars, legVars, deposit, chainVars, settler, watcher,
                 faults>>

\* The withdraw-reverse key lets one credit through.
NotReturned(w) == w \notin returned

CreditBack(k) ==
  LET w == job[k].w IN
  /\ At(k, "credit")
  /\ returned' = returned \cup {w}
  /\ settled' = IF NotReturned(w) THEN [settled EXCEPT ![Owner[w]] = @ + Sum[w]]
                ELSE settled
  /\ GoTo(k, "fail")
  /\ UNCHANGED <<house, debited, rowVars, legVars, deposit, chainVars, settler,
                 watcher, faults>>

MarkFailed(k) ==
  LET w == job[k].w IN
  /\ At(k, "fail")
  /\ wstatus' = [wstatus EXCEPT ![w] = "FAILED"]
  /\ reversedAt' = reversedAt \cup {w}
  /\ Done(k)
  /\ UNCHANGED <<ledgerVars, wsig, legVars, deposit, chainVars, settler, watcher,
                 faults>>

\* WithdrawalReconciler.tick, started by setInterval and at startup: no guard
\* keeps two passes apart.
Unsettled == {w \in Withdrawals : wstatus[w] \in UNSETTLED /\ wsig[w] # None}

\* Slip: rows marked for review are left to an operator.
StartPassSubmitted(k) ==
  /\ Free(k)
  /\ \E w \in Unsettled : wstatus[w] = "SUBMITTED"
  /\ job' = [job EXCEPT ![k] =
       [Idle EXCEPT !.at = "next", !.pass = TRUE,
                    !.todo = {<<w, wstatus[w]>> :
                                w \in {v \in Unsettled : wstatus[v] = "SUBMITTED"}}]]
  /\ UNCHANGED <<ledgerVars, rowVars, legVars, deposit, chainVars, settler, watcher,
                 faults>>

StartPass(k) ==
  /\ Free(k)
  /\ Unsettled # {}
  /\ job' = [job EXCEPT ![k] =
       [Idle EXCEPT !.at = "next", !.pass = TRUE,
                    !.todo = {<<w, wstatus[w]>> : w \in Unsettled}]]
  /\ UNCHANGED <<ledgerVars, rowVars, legVars, deposit, chainVars, settler, watcher,
                 faults>>

NextRow(k) ==
  /\ At(k, "next")
  /\ \/ \E row \in job[k].todo :
          job' = [job EXCEPT ![k] =
            [@ EXCEPT !.at = "ask", !.w = row[1], !.was = row[2],
                      !.sig = wsig[row[1]], !.todo = job[k].todo \ {row}]]
     \/ job[k].todo = {} /\ job' = [job EXCEPT ![k] = Idle]
  /\ UNCHANGED <<ledgerVars, rowVars, legVars, deposit, chainVars, settler, watcher,
                 faults>>

\* The row is marked, whatever its status is by now.
MarkForReview(k) ==
  /\ At(k, "review")
  /\ wstatus' = [wstatus EXCEPT ![job[k].w] = "NEEDS_REVIEW"]
  /\ Done(k)
  /\ UNCHANGED <<ledgerVars, wsig, reversedAt, legVars, deposit, chainVars, settler,
                 watcher, faults>>

-----------------------------------------------------------------------------
(* The outbox.                                                             *)

\* What user u, or an account of the house, gets from the move of a leg.
Share(l, end) == IF end = From[l] THEN -Worth[l] ELSE IF end = To[l] THEN Worth[l] ELSE 0

\* A move in the ledger and its leg, in one transaction (settleShipping, and
\* escrowLock, escrowRelease and escrowRefund with the legs of ProgramEscrow).
PostLeg(l) ==
  /\ leg[l] = "NONE"
  /\ settled[Party[l]] + Share(l, "treasury") >= 0
  /\ \A x \in House : house[x] + Share(l, x) >= 0
  /\ settled' = [settled EXCEPT ![Party[l]] = @ + Share(l, "treasury")]
  /\ house' = [x \in House |-> house[x] + Share(l, x)]
  /\ leg' = [leg EXCEPT ![l] = "PENDING"]
  /\ UNCHANGED <<debited, returned, rowVars, legSig, deposit, chainVars, memoryVars,
                 faults>>

\* ChainSettler.tick: nothing is done while a tick runs.
SettlerTick ==
  /\ settler = SettlerIdle
  /\ \E l \in Legs : leg[l] \in {"PENDING", "SUBMITTED"}
  /\ settler' = [SettlerIdle EXCEPT
       !.at = "next", !.todo = {l \in Legs : leg[l] \in {"PENDING", "SUBMITTED"}}]
  /\ UNCHANGED <<ledgerVars, rowVars, legVars, deposit, chainVars, job, watcher, faults>>

NextLeg == [settler EXCEPT !.at = "next", !.leg = None, !.sig = None]

\* A PENDING leg is sent, or the client throws before it is; a SUBMITTED one
\* is asked for.
TakeLeg ==
  /\ settler.at = "next"
  /\ \E l \in settler.todo :
       LET it == [settler EXCEPT !.leg = l, !.todo = @ \ {l}] IN
       \/ /\ leg[l] = "PENDING"
          /\ Broadcast(l)
          /\ settler' = [it EXCEPT !.at = "record", !.sig = NewSig]
       \/ /\ leg[l] = "PENDING"
          /\ settler' = [it EXCEPT !.leg = None]
          /\ UNCHANGED tx
       \/ /\ leg[l] = "SUBMITTED"
          /\ settler' = [it EXCEPT !.at = "ask", !.sig = legSig[l]]
          /\ UNCHANGED tx
  /\ UNCHANGED <<ledgerVars, rowVars, legVars, deposit, wallet, job, watcher, faults>>

EndSettlerTick ==
  /\ settler.at = "next" /\ settler.todo = {}
  /\ settler' = SettlerIdle
  /\ UNCHANGED <<ledgerVars, rowVars, legVars, deposit, chainVars, job, watcher, faults>>

RecordLeg ==
  /\ settler.at = "record"
  /\ leg' = [leg EXCEPT ![settler.leg] = "SUBMITTED"]
  /\ legSig' = [legSig EXCEPT ![settler.leg] = settler.sig]
  /\ settler' = [settler EXCEPT !.at = "ask"]
  /\ UNCHANGED <<ledgerVars, rowVars, deposit, chainVars, job, watcher, faults>>

\* Slip: a leg that is not confirmed at once is sent again.
AskLegImpatient ==
  LET l == settler.leg IN
  /\ settler.at = "ask"
  /\ leg' = [leg EXCEPT ![l] =
               IF tx[settler.sig].fate = "landed" THEN "CONFIRMED" ELSE "PENDING"]
  /\ legSig' = [legSig EXCEPT ![l] = IF leg'[l] = "PENDING" THEN None ELSE @]
  /\ settler' = NextLeg
  /\ UNCHANGED <<ledgerVars, rowVars, deposit, chainVars, job, watcher, faults>>

\* The answer and the update: nobody else looks at the row.
AskLeg ==
  LET l == settler.leg  fate == tx[settler.sig].fate IN
  /\ settler.at = "ask"
  /\ leg' = CASE fate = "landed" -> [leg EXCEPT ![l] = "CONFIRMED"]
              [] fate = "dead"   -> [leg EXCEPT ![l] = "PENDING"]
              [] OTHER           -> leg
  /\ legSig' = IF fate = "dead" THEN [legSig EXCEPT ![l] = None] ELSE legSig
  /\ settler' = NextLeg
  /\ UNCHANGED <<ledgerVars, rowVars, deposit, chainVars, job, watcher, faults>>

-----------------------------------------------------------------------------
(* Deposits: DepositWatcher.tick, with pollDeposits.                       *)

Arrive(d) ==
  /\ deposit[d] = "absent"
  /\ deposit' = [deposit EXCEPT ![d] = "arrived"]
  /\ UNCHANGED <<ledgerVars, rowVars, legVars, chainVars, memoryVars, faults>>

Uncredited == {d \in Deposits : deposit[d] \in {"recorded", "credited"}}

\* The balances of the deposit addresses are read.
WatcherTick ==
  LET funded == {d \in Deposits : deposit[d] = "arrived"} IN
  /\ watcher = WatcherIdle
  /\ funded \cup Uncredited # {}
  /\ watcher' = [WatcherIdle EXCEPT !.at = "sweep", !.todo = funded]
  /\ UNCHANGED <<ledgerVars, rowVars, legVars, deposit, chainVars, job, settler, faults>>

\* One address is swept into treasury.
Sweep ==
  /\ watcher.at = "sweep"
  /\ \E d \in watcher.todo :
       /\ deposit' = [deposit EXCEPT ![d] = "swept"]
       /\ wallet' = [wallet EXCEPT !["treasury"] = @ + Gift[d]]
       /\ watcher' = [watcher EXCEPT !.todo = @ \ {d}, !.events = @ \cup {d}]
  /\ UNCHANGED <<ledgerVars, rowVars, legVars, tx, job, settler, faults>>

EndSweep ==
  /\ watcher.at = "sweep" /\ watcher.todo = {}
  /\ watcher' = [watcher EXCEPT !.at = "record"]
  /\ UNCHANGED <<ledgerVars, rowVars, legVars, deposit, chainVars, job, settler, faults>>

RecordReceipt ==
  /\ watcher.at = "record"
  /\ \E d \in watcher.events :
       /\ deposit' = [deposit EXCEPT ![d] = "recorded"]
       /\ watcher' = [watcher EXCEPT !.events = @ \ {d}]
  /\ UNCHANGED <<ledgerVars, rowVars, legVars, chainVars, job, settler, faults>>

\* Slip: only this poll's receipts are credited.
ReadOwnReceipts ==
  /\ watcher.at = "record" /\ watcher.events = {}
  /\ watcher' = [watcher EXCEPT !.at = "credit",
                                !.todo = {d \in Uncredited : faults = 0}]
  /\ UNCHANGED <<ledgerVars, rowVars, legVars, deposit, chainVars, job, settler, faults>>

\* creditPending reads what is not credited, this poll's or an earlier one's.
ReadReceipts ==
  /\ watcher.at = "record" /\ watcher.events = {}
  /\ watcher' = [watcher EXCEPT !.at = "credit", !.todo = Uncredited]
  /\ UNCHANGED <<ledgerVars, rowVars, legVars, deposit, chainVars, job, settler, faults>>

\* Slip: the credit is not keyed on the signature.
KeyUnknown(d) == TRUE

\* The chain-deposit key lets one credit through.
KeyFree(d) == deposit[d] = "recorded"

CreditDeposit ==
  /\ watcher.at = "credit"
  /\ \E d \in watcher.todo :
       /\ settled' = IF KeyFree(d)
                     THEN [settled EXCEPT ![Depositor[d]] = @ + Gift[d]] ELSE settled
       /\ deposit' = [deposit EXCEPT ![d] = "credited"]
       /\ watcher' = [watcher EXCEPT !.at = "close", !.d = d, !.todo = @ \ {d}]
  /\ UNCHANGED <<house, debited, returned, rowVars, legVars, chainVars, job, settler,
                 faults>>

CloseReceipt ==
  /\ watcher.at = "close"
  /\ deposit' = [deposit EXCEPT ![watcher.d] = "closed"]
  /\ watcher' = [watcher EXCEPT !.at = "credit", !.d = None]
  /\ UNCHANGED <<ledgerVars, rowVars, legVars, chainVars, job, settler, faults>>

EndWatcherTick ==
  /\ watcher.at = "credit" /\ watcher.todo = {}
  /\ watcher' = WatcherIdle
  /\ UNCHANGED <<ledgerVars, rowVars, legVars, deposit, chainVars, job, settler, faults>>

-----------------------------------------------------------------------------
(* Errors and crashes.  A pass logs an error and goes on with its list.    *)

FaultHappens == faults < MaxFaults /\ faults' = faults + 1

HandlerFails(k) ==
  /\ FaultHappens
  /\ ~Free(k)
  /\ Done(k)
  /\ UNCHANGED <<ledgerVars, rowVars, legVars, deposit, chainVars, settler, watcher>>

\* The catch around the send covers the update after it, too.
SettlerFails ==
  /\ FaultHappens
  /\ settler.at \in {"record", "ask"}
  /\ settler' = NextLeg
  /\ UNCHANGED <<ledgerVars, rowVars, legVars, deposit, chainVars, job, watcher>>

\* A sweep that landed is not reported, a receipt is not written, a credit or
\* the end of a receipt fails.
WatcherFails ==
  /\ FaultHappens
  /\ \/ /\ watcher.at \in {"sweep", "record"}
        /\ \E d \in watcher.events : watcher' = [watcher EXCEPT !.events = @ \ {d}]
     \/ /\ watcher.at = "credit"
        /\ \E d \in watcher.todo : watcher' = [watcher EXCEPT !.todo = @ \ {d}]
     \/ watcher.at = "close" /\ watcher' = [watcher EXCEPT !.at = "credit", !.d = None]
  /\ UNCHANGED <<ledgerVars, rowVars, legVars, deposit, chainVars, job, settler>>

Crash ==
  /\ FaultHappens
  /\ job' = [k \in Slots |-> Idle]
  /\ settler' = SettlerIdle
  /\ watcher' = WatcherIdle
  /\ UNCHANGED <<ledgerVars, rowVars, legVars, deposit, chainVars>>

-----------------------------------------------------------------------------
(* The system.                                                             *)

Withdraw(k) ==
  \/ DebitWithdrawal(k) \/ RefuseWithdrawal(k) \/ SendWithdrawal(k)
  \/ RecordWithdrawal(k)

Resolve(k) ==
  \/ AskWithdrawal(k) \/ ConfirmWithdrawal(k)
  \/ ReadAgain(k) \/ CreditBack(k) \/ MarkFailed(k)
  \/ NextRow(k) \/ MarkForReview(k)

\* The next statement of a withdrawal's handler.
Step(k) == Withdraw(k) \/ Resolve(k)

SettlerStep == TakeLeg \/ RecordLeg \/ AskLeg \/ EndSettlerTick

WatcherStep ==
  \/ Sweep \/ EndSweep \/ RecordReceipt \/ ReadReceipts
  \/ CreditDeposit \/ CloseReceipt \/ EndWatcherTick

Fail == (\E k \in Slots : HandlerFails(k)) \/ SettlerFails \/ WatcherFails \/ Crash

Next ==
  \/ \E k \in Slots :
       \/ \E w \in Withdrawals : RequestWithdrawal(k, w)
       \/ Step(k)
       \/ StartPass(k)
  \/ \E l \in Legs : PostLeg(l)
  \/ SettlerTick \/ SettlerStep
  \/ \E d \in Deposits : Arrive(d)
  \/ WatcherTick \/ WatcherStep
  \/ \E x \in Sigs : Land(x) \/ Die(x)
  \/ Fail

Spec == Init /\ [][Next]_vars

\* Awaited statements and requests complete, the pollers poll (a slot is only
\* our bound, so a pass gets one), and a transfer is not in flight for ever:
\* its blockhash expires.
Fairness ==
  /\ \A k \in Slots : WF_vars(Step(k)) /\ SF_vars(StartPass(k))
  /\ WF_vars(WatcherTick) /\ WF_vars(WatcherStep)
  /\ \A x \in Sigs : WF_vars(Land(x) \/ Die(x))

FairSpec == Spec /\ Fairness

-----------------------------------------------------------------------------
(* What the system promises.                                               *)

\* Every variable keeps the shape its table or local variable has, and neither
\* accounts nor wallets are overdrawn (debit, postEntries).
TypeOK ==
  /\ settled \in [Users -> Nat]
  /\ house \in [House -> Nat]
  /\ debited \in SUBSET Withdrawals
  /\ returned \in SUBSET Withdrawals
  /\ wstatus \in [Withdrawals -> WithdrawalStatus]
  /\ wsig \in [Withdrawals -> Sigs \cup {None}]
  /\ reversedAt \in SUBSET Withdrawals
  /\ leg \in [Legs -> LegStatus]
  /\ legSig \in [Legs -> Sigs \cup {None}]
  /\ deposit \in [Deposits -> DepositStages]
  /\ wallet \in [Wallets -> Nat]
  /\ tx \in [Sigs -> Tx]
  /\ job \in [Slots -> Jobs]
  /\ settler \in Settlers
  /\ watcher \in Watchers
  /\ faults \in Nat

\* The transfers of a withdrawal or a leg that moved money or still may.
Live(it) == {x \in Sigs : tx[x].what = it /\ tx[x].fate \in {"flying", "landed"}}

\* A withdrawal is paid or given back, never both, and never without its debit:
\* whatever is given back has no transfer left that could land, and there is
\* never more than one, whichever requests, passes, errors and crashes overlap
\* (requestWithdrawal, settleWithdrawal, reverseWithdrawal).
PaidXorReversed ==
  \A w \in Withdrawals :
    /\ Cardinality(Live(w)) <= 1
    /\ Live(w) # {} => w \in debited /\ w \notin returned
    /\ w \in returned => w \in debited

\* The daily cap bounds what can be out: of a user's withdrawals those that are
\* debited and not given back never add up to more (requestWithdrawal).
CapBoundsOutflow ==
  \A u \in Users :
    Total([w \in Withdrawals |->
             IF Owner[w] = u /\ w \in debited \ returned THEN Sum[w] ELSE 0],
          Withdrawals) <= DailyCap

\* A leg moves money once, but for an error or a crash between its broadcast and
\* the record of it: each costs at most one transfer more, and nothing else does
\* (ChainSettler: the overlap guard, and SUBMITTED legs are never sent again).
LegsLandOnce == \A l \in Legs : Cardinality(Live(l)) <= 1 + faults

\* The wallets converge on the books: once every row is in a final state, each
\* wallet holds exactly what the ledger says, unless a leg was moved twice; so
\* CONFIRMED means paid, FAILED not paid or given back, and no deposit is
\* credited twice (withdrawals.ts, chain-settle.ts, deposits.ts together).
Quiet ==
  /\ \A w \in Withdrawals : wstatus[w] \in {"NONE", "CONFIRMED", "FAILED"}
  /\ \A l \in Legs : leg[l] \in {"NONE", "CONFIRMED"}
  /\ \A d \in Deposits : deposit[d] \in {"absent", "arrived", "credited", "closed"}

MovedTwice == \E l \in Legs : Cardinality(Live(l)) > 1

WalletsMatchBooks ==
  Quiet /\ ~MovedTwice =>
    /\ wallet["treasury"] = Total(settled, Users)
    /\ \A x \in House : wallet[x] = house[x]

\* A withdrawal with a signature is confirmed or reversed for good, also after
\* crashes and when it was marked for review (WithdrawalReconciler).  Its status
\* need not stay FAILED: a pass that read the row before may still mark it.
SubmittedEnds ==
  \A w \in Withdrawals :
    wsig[w] # None ~> [](wstatus[w] = "CONFIRMED" \/ w \in reversedAt)

\* A deposit with a receipt is credited, also after crashes (creditPending).
RecordedIsCredited ==
  \A d \in Deposits : deposit[d] = "recorded" ~> deposit[d] = "closed"

\* The transfers of a withdrawal or a leg that moved money.
Landed(it) == {x \in Sigs : tx[x].what = it /\ tx[x].fate = "landed"}

\* Whatever requests, passes, ticks, errors and crashes overlap, a user's balance
\* and what leaves for the chain obey CustodyPromise: a withdrawal is taken once
\* and within the cap, then paid once or given back once, a deposit is credited
\* and a leg posted once (withdrawals.ts, ledger.ts, deposits.ts together).
Promise == INSTANCE CustodyPromise WITH
  purse <- settled, taken <- debited, returned <- returned, Cap <- DailyCap,
  paid <- [w \in Withdrawals |-> Cardinality(Landed(w))],
  credited <- {d \in Deposits : deposit[d] \in {"credited", "closed"}},
  moved <- {l \in Legs : leg[l] # "NONE"},
  Part <- [l \in Legs |-> Share(l, "treasury")]
KeepsCustodyPromise == Promise!Spec

-----------------------------------------------------------------------------
(* What a comment of the code promises and the code does not keep.         *)

\* deposits.ts: a crash between sweep and credit "can never lose a user's money".
SweptIsCredited ==
  \A d \in Deposits : deposit[d] = "swept" ~> deposit[d] = "closed"

=============================================================================
