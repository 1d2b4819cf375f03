------------------------------- MODULE Totals -------------------------------
(***************************************************************************)
(* Sums of a table's column over a finite set of its rows: ledger.ts asks  *)
(* Postgres for them with aggregate({ _sum: { amount: true } }).           *)
(***************************************************************************)
EXTENDS Integers, FiniteSets, FiniteSetsExt

\* The sum of f over S.
Total(f, S) == MapThenSumSet(LAMBDA x : f[x], S)

=============================================================================
