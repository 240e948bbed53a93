SPECIFICATION Spec
CONSTANTS
    EUR = EUR
    GBP = GBP
    Currencies = {EUR, GBP}
    MaxOps = 4
    Bought = {2}
    Sold = {1, 3}
    Lost = {1}
    Times = {1, 2}
INVARIANTS LotBalances SoldIsSettled VoidedIsFree VoidableInTurn
CHECK_DEADLOCK FALSE
SYMMETRY Symmetry
