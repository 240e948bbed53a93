----------------------------- MODULE MCWarranty -----------------------------
(* A line that draws from several batches, and one that competes with it. *)
EXTENDS Warranty, TLC

CONSTANTS i1, i2

\* a supplier's delivery, and old stock
MCIntakes == {[quantity |-> 2, booked |-> TRUE], [quantity |-> 1, booked |-> FALSE]}

MCSaleQty == i1 :> {3} @@ i2 :> {1}
=============================================================================
