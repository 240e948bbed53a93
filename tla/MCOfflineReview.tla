--------------------------- MODULE MCOfflineReview ---------------------------
(***************************************************************************)
(* Instances of OfflineReview for TLC: a chain of three events, each with  *)
(* an id of the one before it.                                             *)
(***************************************************************************)
EXTENDS OfflineReview

CONSTANTS p, c, g

MCDeps == [e \in Events |-> CASE e = p -> {} [] e = c -> {p} [] e = g -> {c}]
MCRank == [e \in Events |-> CASE e = p -> 1 [] e = c -> 2 [] e = g -> 3]
=============================================================================
