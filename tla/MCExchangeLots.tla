--------------------------- MODULE MCExchangeLots ---------------------------
(***************************************************************************)
(* Instances of ExchangeLots for TLC: two interchangeable currencies, so   *)
(* that an exchange can open a lot of one and use up the other.            *)
(***************************************************************************)
EXTENDS ExchangeLots, TLC

CONSTANTS EUR, GBP

Symmetry == Permutations(Currencies)
=============================================================================
