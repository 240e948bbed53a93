--------------------------- MODULE MCOfflineMerge ---------------------------
(***************************************************************************)
(* Instances of OfflineMerge for TLC: two PCs.  PC a's clock runs          *)
(* backwards between its two events, and PC b's event is stamped between   *)
(* them.                                                                   *)
(***************************************************************************)
EXTENDS OfflineMerge

CONSTANTS a, b, a1, a2, b1

MCOwner    == [e \in Events |-> IF e \in {a1, a2} THEN a ELSE b]
MCDeviceNo == [p \in PCs |-> IF p = a THEN 1 ELSE 2]
MCStamp    == [e \in Events |-> CASE e = a1 -> 3 [] e = a2 -> 1 [] e = b1 -> 2]
=============================================================================
