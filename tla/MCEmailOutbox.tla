---------------------------- MODULE MCEmailOutbox ----------------------------
(***************************************************************************)
(* Instances of EmailOutbox for TLC: mails and runs as model values.       *)
(***************************************************************************)
EXTENDS EmailOutbox

CONSTANTS m1, m2, r1, r2
=============================================================================
