--------------------------- MODULE MCOfflineSync ---------------------------
(***************************************************************************)
(* Instances of OfflineSync for TLC: one PC (PCs meet only in the merge,   *)
(* which MCOfflineMerge checks with two; stamps decide nothing within one). *)
(***************************************************************************)
EXTENDS OfflineSync, TLC

CONSTANTS pc, e1, e2, e3

MCOwner    == [e \in Events |-> pc]
MCDeviceNo == [p \in PCs |-> 1]
MCStamp    == [e \in Events |-> 1]

\* with one PC and one stamp the event ids differ only in Recordable
Symmetry == Permutations(Recordable) \cup Permutations(Events \ Recordable)
=============================================================================
