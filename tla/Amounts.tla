------------------------------ MODULE Amounts ------------------------------
(***************************************************************************)
(* Sums of money over the rows of a table.                                 *)
(*                                                                         *)
(* The code asks the database for Sum("amount") over a filtered table.     *)
(* Here a table is a finite set of records, an amount is a natural number  *)
(* of the smallest unit, and a sum is the number of units in the rows.     *)
(* Counting units rather than folding lets the laws of sums be proved from *)
(* the cardinality theorems of the library (module AmountTheorems).        *)
(***************************************************************************)
EXTENDS Integers, FiniteSets

\* The units of the rows: unit k of row r is the pair <<r, k>>.
Units(rows) == UNION {{r} \X (1..r.amount) : r \in rows}

\* SELECT SUM(amount) FROM rows, and 0 for no rows (code: aggregate(...) or ZERO).
Total(rows) == Cardinality(Units(rows))

\* filter(date__lte=day), and the rows with another column as the amount to sum.
Upto(rows, day) == {r \in rows : r.date <= day}
Column(rows, col) == {[row |-> r, amount |-> r[col]] : r \in rows}
=============================================================================
