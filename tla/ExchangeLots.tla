---------------------------- MODULE ExchangeLots ----------------------------
(***************************************************************************)
(* The cost-basis lots of foreign currency (ExchangeLotRepository): an     *)
(* exchange that takes a currency in opens a lot, one that pays a currency *)
(* out settles against the open lots, oldest first; top-ups and admin      *)
(* adjustments open lots, write-offs use them up; voiding or refunding an  *)
(* exchange gives back what it took and voids the lot it opened.           *)
(*                                                                         *)
(* Every operation is one database transaction.  What is hard is the       *)
(* history: an exchange may both open a lot and use another's, may be      *)
(* dated before lots that exist (transaction_time), and may be voided only *)
(* in an order that keeps every settlement backed.  Quantities are whole   *)
(* units (the code's floats with LOT_QTY_EPSILON); costs and profits are   *)
(* left out.                                                               *)
(***************************************************************************)
EXTENDS Integers, FiniteSets, FiniteSetsExt

CONSTANTS
    Currencies,  \* lot-tracked currencies: neither USD nor LBP
    MaxOps,      \* bound: operations ever booked
    Bought,      \* quantities a lot may be opened with
    Sold,        \* quantities that may be paid out
    Lost,        \* quantities that may be written off
    Times        \* acquired_at of a lot, which the operator may date back

ASSUME LotsAssumption ==
    /\ IsFiniteSet(Currencies) /\ Times \subseteq Nat
    /\ MaxOps \in Nat
    /\ Bought \cup Sold \cup Lost \subseteq Nat \ {0}

Ops == 1 .. MaxOps

VARIABLES
    n,       \* operations booked so far: an operation's number is its age
    op,      \* [Ops -> kind, what it paid out, whether it stands]
    lot,     \* [Ops -> the lot the operation opened]; original 0: none
    taken,   \* [Ops -> [Ops -> Nat]]: settler -> lot -> active settlement
    market   \* [Ops -> Nat]: settler -> its active MARKET settlement

vars == <<n, op, lot, taken, market>>

NoOp  == [kind |-> "none", sold |-> 0, stands |-> FALSE]
NoLot == [cur |-> "none", at |-> 0, original |-> 0, remaining |-> 0, voided |-> FALSE]

\* Every row holds what the code can put there: no lot is overdrawn.
TypeOK ==
    /\ n \in 0 .. MaxOps
    /\ op \in [Ops -> [kind : {"none", "exchange", "add", "writeoff"},
                       sold : Nat, stands : BOOLEAN]]
    /\ lot \in [Ops -> [cur : Currencies \cup {"none"}, at : Times \cup {0},
                        original : Nat, remaining : Nat, voided : BOOLEAN]]
    /\ taken \in [Ops -> [Ops -> Nat]]
    /\ market \in [Ops -> Nat]

Init ==
    /\ n = 0
    /\ op = [k \in Ops |-> NoOp]
    /\ lot = [k \in Ops |-> NoLot]
    /\ taken = [k \in Ops |-> [l \in Ops |-> 0]]
    /\ market = [k \in Ops |-> 0]

-----------------------------------------------------------------------------
(* walkFifo *)

\* OPEN_LOT_PREDICATE
Open(c) == {l \in Ops : lot[l].cur = c /\ ~lot[l].voided /\ lot[l].remaining > 0}

OpenQty(L) == SumFunctionOnSet([l \in Ops |-> lot[l].remaining], L)

\* FIFO_ORDER: acquired_at, then id
Before(l, m) == lot[l].at < lot[m].at \/ (lot[l].at = lot[m].at /\ l < m)

\* what the walk takes from every open lot of the currency
Take(c, q) ==
    [l \in Ops |-> IF l \notin Open(c) THEN 0
                   ELSE LET before == OpenQty({m \in Open(c) : Before(m, l)})
                        IN  IF before >= q THEN 0 ELSE Min({q - before, lot[l].remaining})]

\* Variant: what no lot covers is forgotten.
UncoveredNothing(c, q) == 0

\* SETTLE mode: the rest is one MARKET row
Uncovered(c, q) == IF q > OpenQty(Open(c)) THEN q - OpenQty(Open(c)) ELSE 0

NewLot(c, q, at) == [cur |-> c, at |-> at, original |-> q, remaining |-> q, voided |-> FALSE]

\* the operation's number, and what it does to lots and settlements: it opens
\* a lot of qi units of ci unless qi is 0, and takes qo units of co
Book(kind, ci, qi, at, co, qo) ==
    LET k == n + 1
    IN  /\ n < MaxOps
        /\ n' = k
        /\ op' = [op EXCEPT ![k] = [kind |-> kind, sold |-> qo, stands |-> TRUE]]
        /\ lot' = [l \in Ops |-> IF l = k THEN IF qi = 0 THEN NoLot ELSE NewLot(ci, qi, at)
                                 ELSE [lot[l] EXCEPT !.remaining = @ - Take(co, qo)[l]]]
        /\ taken' = [taken EXCEPT ![k] = Take(co, qo)]
        /\ market' = [market EXCEPT ![k] = Uncovered(co, qo)]

-----------------------------------------------------------------------------
(* The operations *)

\* _applyExchangeLotEffects: the physical quantities of both sides; 0 for a
\* side that is USD or LBP, goes over the client's account in full, or whose
\* cross trade has no configured rate
Exchange(from, qi, to, qo, at) ==
    /\ from # to
    /\ qi + qo > 0
    /\ Book("exchange", from, qi, at, to, qo)

\* adjust with a positive quantity, and a drawer top-up: neither is reversed
Add(c, q, at) == Book("add", c, q, at, c, 0)

\* adjust with a negative quantity: refused beyond the open position
WriteOff(c, q) ==
    /\ q <= OpenQty(Open(c))
    /\ Book("writeoff", c, 0, 0, c, q)

\* getActiveSettlerTablesAgainstSource
Settlers(k) == {j \in Ops : taken[j][k] > 0}

\* Variant: only a lot that was sold out cannot be voided.
VoidableUnlessSold(k) == lot[k].original = 0 \/ lot[k].remaining > 0

\* _assertExchangeLotsVoidable
Voidable(k) == Settlers(k) = {}

\* Variant: the lots get their units back, the settlements stay active.
RestoreUnflagged(k) ==
    /\ lot' = [l \in Ops |-> [lot[l] EXCEPT !.remaining = @ + taken[k][l],
                                            !.voided = @ \/ (l = k /\ lot[k].original > 0)]]
    /\ UNCHANGED <<taken, market>>

\* _reverseExchangeLotEffects: restoreSettlements, then voidLotsBySource
Restore(k) ==
    /\ lot' = [l \in Ops |-> [lot[l] EXCEPT !.remaining = @ + taken[k][l],
                                            !.voided = @ \/ (l = k /\ lot[k].original > 0)]]
    /\ taken' = [taken EXCEPT ![k] = [l \in Ops |-> 0]]
    /\ market' = [market EXCEPT ![k] = 0]

\* voidTransaction or refundTransaction of an exchange
Reverse(k) ==
    /\ op[k].kind = "exchange" /\ op[k].stands
    /\ Voidable(k)
    /\ op' = [op EXCEPT ![k].stands = FALSE]
    /\ Restore(k)
    /\ UNCHANGED n

Next ==
    \/ \E from, to \in Currencies, qi \in Bought \cup {0}, qo \in Sold \cup {0}, at \in Times :
            Exchange(from, qi, to, qo, at)
    \/ \E c \in Currencies, q \in Bought, at \in Times : Add(c, q, at)
    \/ \E c \in Currencies, q \in Lost : WriteOff(c, q)
    \/ \E k \in Ops : Reverse(k)

Spec == Init /\ [][Next]_vars

-----------------------------------------------------------------------------
(* Properties *)

\* SourceSummary: "`original_qty - remaining_qty` always equals the ACTIVE
\* `settled_qty`", for every lot and after any sequence of sells, write-offs
\* and voids, and no lot is overdrawn.
LotBalances == \A l \in Ops :
    /\ lot[l].remaining >= 0
    /\ lot[l].remaining + SumFunctionOnSet([j \in Ops |-> taken[j][l]], Ops)
            = lot[l].original

\* What an exchange paid out is settled in full, from lots or at market, as
\* long as it stands, and not at all once it is reversed: realized profit is
\* neither lost nor counted twice.
SoldIsSettled == \A k \in Ops :
    SumFunctionOnSet(taken[k], Ops) + market[k]
        = IF op[k].stands THEN op[k].sold ELSE 0

\* No settlement rests on a voided lot, and an exchange's lot is voided when
\* the exchange is: voidLotsBySource relies on its caller for the first.
VoidedIsFree == \A k \in Ops :
    /\ lot[k].voided => Settlers(k) = {}
    /\ lot[k].original > 0 => (lot[k].voided <=> ~op[k].stands)

\* "void the consuming sell transaction(s) first" is always possible: an
\* exchange that cannot be voided, and was not written off, is blocked by a
\* later exchange that stands, so undoing the newest first never gets stuck.
VoidableInTurn == \A k \in Ops :
    op[k].kind = "exchange" /\ op[k].stands /\ ~Voidable(k) =>
        \E j \in Settlers(k) : j > k /\ (op[j].kind = "writeoff" \/ op[j].stands)
=============================================================================
