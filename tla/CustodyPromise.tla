--------------------------- MODULE CustodyPromise ---------------------------
(***************************************************************************)
(* What BIDit promises about the money a user brings in and takes out,     *)
(* without rows, handlers, passes, transfers in flight, errors or crashes: *)
(* a withdrawal leaves the balance once, within the daily cap, and then it *)
(* is paid on the chain once or given back once, never both; a deposit is  *)
(* credited once, a move of the ledger is made once, and nobody is ever    *)
(* overdrawn.                                                              *)
(***************************************************************************)
EXTENDS Totals

CONSTANTS
  Users, Withdrawals, Legs, Deposits,
  Owner, Sum,         \* whose withdrawal, and of what
  Depositor, Gift,    \* whose deposit, and of what
  Party, Part,        \* what a move gives its user, or takes if it is negative
  Cap                 \* what a user may have out

VARIABLES
  purse,      \* what each user owns
  taken,      \* withdrawals that left the balance
  paid,       \* how often a withdrawal was paid on the chain
  returned,   \* withdrawals that were given back
  credited,   \* deposits
  moved       \* moves of the ledger

vars == <<purse, taken, paid, returned, credited, moved>>

\* What user u has out: taken and not given back.
Out(u) ==
  Total([w \in Withdrawals |->
           IF Owner[w] = u /\ w \in taken \ returned THEN Sum[w] ELSE 0], Withdrawals)

Init ==
  /\ purse \in [Users -> Nat]
  /\ taken = {} /\ returned = {} /\ credited = {} /\ moved = {}
  /\ paid = [w \in Withdrawals |-> 0]

Take(w) ==
  /\ w \notin taken
  /\ purse[Owner[w]] >= Sum[w]
  /\ purse' = [purse EXCEPT ![Owner[w]] = @ - Sum[w]]
  /\ taken' = taken \cup {w}
  /\ Out(Owner[w])' <= Cap
  /\ UNCHANGED <<paid, returned, credited, moved>>

Pay(w) ==
  /\ w \in taken \ returned
  /\ paid[w] = 0
  /\ paid' = [paid EXCEPT ![w] = 1]
  /\ UNCHANGED <<purse, taken, returned, credited, moved>>

GiveBack(w) ==
  /\ w \in taken \ returned
  /\ paid[w] = 0
  /\ returned' = returned \cup {w}
  /\ purse' = [purse EXCEPT ![Owner[w]] = @ + Sum[w]]
  /\ UNCHANGED <<taken, paid, credited, moved>>

Credit(d) ==
  /\ d \notin credited
  /\ credited' = credited \cup {d}
  /\ purse' = [purse EXCEPT ![Depositor[d]] = @ + Gift[d]]
  /\ UNCHANGED <<taken, paid, returned, moved>>

Move(l) ==
  /\ l \notin moved
  /\ moved' = moved \cup {l}
  /\ purse[Party[l]] + Part[l] >= 0
  /\ purse' = [purse EXCEPT ![Party[l]] = @ + Part[l]]
  /\ UNCHANGED <<taken, paid, returned, credited>>

Next ==
  \/ \E w \in Withdrawals : Take(w) \/ Pay(w) \/ GiveBack(w)
  \/ \E d \in Deposits : Credit(d)
  \/ \E l \in Legs : Move(l)

Spec == Init /\ [][Next]_vars

=============================================================================
