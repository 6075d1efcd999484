----------------------------- MODULE MCPayments -----------------------------
(* Small instances of Payments for TLC. *)
EXTENDS Payments, TLC

\* Bounds: orders that are raised and payments made on them, together; a handler
\* dies only while the bill has one order, and orders leave the horizon only where no
\* handler has died, and there is one order less or one payment less.
Raised == OrdersOf(bill) \cup handed \cup ({call[p].order : p \in Calls} \ {NoOrder})
Made == {g \in Pays : gateway[g].status # "none"}
SmallBill ==
  /\ Cardinality(Raised) + Cardinality(Made) <= 3
  /\ failures > 0 => Cardinality(Raised) <= 1
  /\ past # {} => failures = 0 /\ Cardinality(Raised) + Cardinality(Made) <= 2

Symmetry == Permutations(Orders) \cup Permutations(Pays) \cup Permutations(Calls)
=============================================================================
