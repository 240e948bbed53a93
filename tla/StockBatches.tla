---------------------------- MODULE StockBatches ----------------------------
(***************************************************************************)
(* The stock of one product: the count the shop sells from                 *)
(* (products.stock_quantity), the cost batches deliveries open             *)
(* (product_stock_batches) and the rows that say which batch a unit was    *)
(* drawn from (stock_batch_consumptions).  Every handler below is one      *)
(* database transaction, so the actions are atomic; what is hard is the    *)
(* ORDER in which a shop may use them: a sale drawn from several batches,  *)
(* refunded in parts, the parts undone in another order, the sale or the   *)
(* delivery voided in between.                                             *)
(*                                                                         *)
(* A sale line is drawn from the batches once, so a consumption row is     *)
(* named by its owner and its batch, and the rows of an owner are ordered  *)
(* like the batches.  A sale has one line.  Money, costs and serial        *)
(* numbers are left out.                                                   *)
(***************************************************************************)
EXTENDS Integers, FiniteSets, FiniteSetsExt

CONSTANTS
    Items,           \* sale lines
    Claims,          \* warranty claims, the other owners of consumption rows
    Loss,            \* the owner of what an adjustment drew: nobody
    Intakes,         \* bound: the deliveries: a quantity, and whether a debt is booked
    SaleQty,         \* bound: the quantities a line may be sold with
    MaxQty,          \* bound: the units of a sale
    MaxBatches,      \* bound: batches ever opened
    MaxRefunds,      \* bound: live item refunds of the same size and line
    MaxAdjusts,      \* bound: units adjusted away
    Opening,         \* units counted before batches existed
    AllowOutOfStock  \* the shop setting

ASSUME StockAssumption ==
    /\ Intakes \subseteq [quantity : Nat \ {0}, booked : BOOLEAN]
    /\ {MaxQty, MaxBatches, MaxRefunds, MaxAdjusts, Opening} \subseteq Nat
    /\ AllowOutOfStock \in BOOLEAN
    /\ SaleQty \in [Items -> SUBSET (1 .. MaxQty)]
    /\ IsFiniteSet(Items) /\ IsFiniteSet(Claims)
    /\ Items \cap Claims = {} /\ Loss \notin Items \cup Claims

Owners == Items \cup Claims \cup {Loss}
Ids == 1 .. MaxBatches

VARIABLES
    stock,    \* products.stock_quantity
    batches,  \* id -> quantity, quantity_remaining; quantity 0: no such row
    opened,   \* the last batch id handed out (AUTOINCREMENT)
    rows,     \* owner -> batch -> quantity, is_restored; quantity 0: no row
    line,     \* sale line -> status of its sale, quantity, refunded, reversed
    refunds,  \* sale line -> size -> live restocking item refunds of that size
    back,     \* history: units of the line that are back on the shelf
    lost,     \* history: units adjusted away
    split,    \* history: an undo took part of a consumption row
    blind     \* history: stock was lowered with no check that it is there

vars == <<stock, batches, opened, rows, line, refunds, back, lost, split, blind>>

NoBatch == [quantity |-> 0, remaining |-> 0, booked |-> FALSE]
NoRow == [quantity |-> 0, restored |-> FALSE]

\* Stock, batches, rows and lines hold what the code can put there.
TypeOK ==
    /\ stock \in Int
    /\ batches \in [Ids -> [quantity : Nat, remaining : Nat, booked : BOOLEAN]]
    /\ opened \in 0 .. MaxBatches
    /\ rows \in [Owners -> [Ids -> [quantity : Nat, restored : BOOLEAN]]]
    /\ line \in [Items -> [status : {"none", "completed", "cancelled", "refunded"},
                           quantity : 0 .. MaxQty, refunded : Nat, reversed : BOOLEAN]]
    /\ refunds \in [Items -> [1 .. MaxQty -> 0 .. MaxRefunds]]
    /\ back \in [Items -> Nat]
    /\ lost \in Nat
    /\ split \in BOOLEAN /\ blind \in BOOLEAN
    \* refunded_quantity stays within the line, whatever is refunded or undone
    /\ \A i \in Items : line[i].refunded <= line[i].quantity

Init ==
    /\ stock = Opening
    /\ batches = [b \in Ids |-> NoBatch]
    /\ opened = 0
    /\ rows = [o \in Owners |-> [b \in Ids |-> NoRow]]
    /\ line = [i \in Items |-> [status |-> "none", quantity |-> 0,
                                refunded |-> 0, reversed |-> FALSE]]
    /\ refunds = [i \in Items |-> [q \in 1 .. MaxQty |-> 0]]
    /\ back = [i \in Items |-> 0]
    /\ lost = 0
    /\ split = FALSE
    /\ blind = FALSE

-----------------------------------------------------------------------------
(* StockBatchRepository: the four walks over batches and rows *)

Remaining(B) == SumFunctionOnSet([b \in Ids |-> batches[b].remaining], B)
Drawn(o, B) == SumFunctionOnSet([b \in Ids |-> rows[o][b].quantity], B)
Active(o) == {b \in Ids : rows[o][b].quantity > 0 /\ ~rows[o][b].restored}
Restored(o) == {b \in Ids : rows[o][b].restored}

\* What is left of q after `before', at most `most': a step of a FIFO walk.
Share(q, before, most) == Min({most, Max({0, q - before})})

\* consume: oldest batch first; units no batch covers leave no row.
Take(q) == [b \in Ids |-> Share(q, Remaining({a \in Ids : a < b}), batches[b].remaining)]

\* An owner consumes once; only the rows of losses, which nobody reads back, add up.
Consume(o, q) ==
    /\ batches' = [b \in Ids |-> [batches[b] EXCEPT !.remaining = @ - Take(q)[b]]]
    /\ rows' = [rows EXCEPT ![o] =
                    [b \in Ids |-> [quantity |-> @[b].quantity + Take(q)[b],
                                    restored |-> @[b].restored]]]

\* _restoreConsumptions: the owner's active rows, newest first.
Give(o, q) ==
    [b \in Ids |-> IF b \in Active(o)
                   THEN Share(q, Drawn(o, {a \in Active(o) : a > b}), rows[o][b].quantity)
                   ELSE 0]

\* Variant: a row given back in part keeps its quantity.
RestoreNoShrink(o, q) ==
    /\ batches' = [b \in Ids |-> [batches[b] EXCEPT !.remaining = @ + Give(o, q)[b]]]
    /\ rows' = [rows EXCEPT ![o] =
                    [b \in Ids |->
                        [quantity |-> @[b].quantity,
                         restored |-> @[b].restored \/ (/\ b \in Active(o)
                                                        /\ Give(o, q)[b] >= @[b].quantity)]]]

\* A row given back in full is flagged; one given back in part only shrinks.
Restore(o, q) ==
    /\ batches' = [b \in Ids |-> [batches[b] EXCEPT !.remaining = @ + Give(o, q)[b]]]
    /\ rows' = [rows EXCEPT ![o] =
                    [b \in Ids |->
                        IF Give(o, q)[b] = 0 THEN @[b]
                        ELSE IF Give(o, q)[b] >= @[b].quantity
                             THEN [quantity |-> @[b].quantity, restored |-> TRUE]
                             ELSE [quantity |-> @[b].quantity - Give(o, q)[b],
                                   restored |-> @[b].restored]]]

\* unrestoreForSaleItem: the flagged rows, oldest first.
TakeBack(o, q) ==
    [b \in Ids |-> IF b \in Restored(o)
                   THEN Share(q, Drawn(o, {a \in Restored(o) : a < b}), rows[o][b].quantity)
                   ELSE 0]

NoRows(o) == Active(o) \cup Restored(o) = {}

CanUnrestore(o, q) ==
    \/ NoRows(o)
    \/ /\ Drawn(o, Restored(o)) >= q
       /\ \A b \in Ids : TakeBack(o, q)[b] <= batches[b].remaining

\* The flag is cleared whatever part of the row is taken back.
Unrestore(o, q) ==
    /\ batches' = [b \in Ids |-> [batches[b] EXCEPT !.remaining = @ - TakeBack(o, q)[b]]]
    /\ rows' = [rows EXCEPT ![o] =
                    [b \in Ids |-> [quantity |-> @[b].quantity,
                                    restored |-> @[b].restored /\ TakeBack(o, q)[b] = 0]]]
    /\ split' = (split \/ \E b \in Ids : TakeBack(o, q)[b] \in 1 .. rows[o][b].quantity - 1)

\* createBatch
OpenBatch(q, booked) ==
    /\ opened < MaxBatches
    /\ opened' = opened + 1
    /\ batches' = [batches EXCEPT ![opened + 1] =
                      [quantity |-> q, remaining |-> q, booked |-> booked]]

-----------------------------------------------------------------------------
(* Deliveries and adjustments *)

\* receiveStock; only a delivery whose debt is booked (a supplier, not old stock)
\* has a transaction that can be voided.
Receive(d) ==
    /\ OpenBatch(d.quantity, d.booked)
    /\ stock' = stock + d.quantity
    /\ UNCHANGED <<rows, line, refunds, back, lost, split, blind>>

\* Variant: only the foreign key protects the batch.
UntouchedByKey(b) == \A o \in Owners : b \notin Restored(o)

\* deleteBatchForVoid refuses a batch short of its quantity; a flagged row still
\* refers to the batch, and the foreign key then refuses the delete.
Untouched(b) ==
    /\ batches[b].remaining >= batches[b].quantity
    /\ \A o \in Owners : b \notin Restored(o)

\* _reverseSupplierStockIntake
VoidIntake(b) ==
    /\ batches[b].booked
    /\ Untouched(b)
    /\ batches' = [batches EXCEPT ![b] = NoBatch]
    /\ rows' = [o \in Owners |-> [rows[o] EXCEPT ![b] = NoRow]]
    /\ stock' = stock - batches[b].quantity
    /\ UNCHANGED <<opened, line, refunds, back, lost, split, blind>>

\* decreaseStockForAdjustment; a delta is not compared with the count.
Adjust(q) ==
    /\ lost + q <= MaxAdjusts
    /\ Consume(Loss, q)
    /\ stock' = stock - q
    /\ lost' = lost + q
    /\ blind' = (blind \/ q > stock)
    /\ UNCHANGED <<opened, line, refunds, back, split>>

-----------------------------------------------------------------------------
(* Sales *)

\* processSale, a completed sale: the count is lowered under its guard, then
\* the batches are drawn.
Sell(i, q) ==
    /\ line[i].status = "none"
    /\ AllowOutOfStock \/ stock >= q
    /\ Consume(i, q)
    /\ stock' = stock - q
    /\ line' = [line EXCEPT ![i].status = "completed", ![i].quantity = q]
    /\ blind' = (blind \/ q > stock)
    /\ UNCHANGED <<opened, refunds, back, lost, split>>

\* Variant: earlier refunds of the line are not counted.
RefundableAll(i, q) ==
    /\ line[i].status \notin {"none", "refunded"}
    /\ q <= line[i].quantity

\* refundSaleItem: a refunded sale is refused, a cancelled one is not.
Refundable(i, q) ==
    /\ line[i].status \notin {"none", "refunded"}
    /\ q <= line[i].quantity - line[i].refunded

\* refunded_quantity, and the sale's status once nothing is left to refund.
Refunded(i, q) ==
    [line EXCEPT ![i].refunded = @ + q,
                 ![i].status = IF line[i].refunded + q = line[i].quantity
                               THEN "refunded" ELSE @]

RefundItem(i, q) ==
    /\ Refundable(i, q)
    /\ refunds[i][q] < MaxRefunds
    /\ line' = Refunded(i, q)
    /\ refunds' = [refunds EXCEPT ![i][q] = @ + 1]
    /\ stock' = stock + q
    /\ Restore(i, q)
    /\ back' = [back EXCEPT ![i] = @ + q]
    /\ UNCHANGED <<opened, lost, split, blind>>

\* Variant: an undo clears every refund of the line.
UnrefundedAll(i, q) ==
    [line EXCEPT ![i].refunded = 0,
                 ![i].status = IF @ = "refunded" THEN "completed" ELSE @]

\* undoSaleItemRefund reopens a sale whose status is refunded.
Unrefunded(i, q) ==
    [line EXCEPT ![i].refunded = @ - q,
                 ![i].status = IF @ = "refunded" THEN "completed" ELSE @]

UndoRefund(i, q) ==
    /\ refunds[i][q] > 0
    /\ line[i].refunded >= q
    /\ CanUnrestore(i, q)
    /\ line' = Unrefunded(i, q)
    /\ refunds' = [refunds EXCEPT ![i][q] = @ - 1]
    /\ stock' = stock - q
    /\ Unrestore(i, q)
    /\ back' = [back EXCEPT ![i] = @ - q]
    /\ blind' = (blind \/ NoRows(i))
    /\ UNCHANGED <<opened, lost>>

\* voidTransaction (cancelled) and refundTransaction (refunded) of the whole
\* sale: refused once a line was refunded, and for a sale already reversed.
ReverseSale(i, status) ==
    /\ line[i].status # "none" /\ ~line[i].reversed
    /\ line[i].refunded = 0
    /\ line' = [line EXCEPT ![i].status = status, ![i].reversed = TRUE]
    /\ stock' = stock + line[i].quantity
    /\ Restore(i, line[i].quantity)
    /\ back' = [back EXCEPT ![i] = @ + line[i].quantity]
    /\ UNCHANGED <<opened, refunds, lost, split, blind>>

StockNext ==
    \/ \E d \in Intakes : Receive(d)
    \/ \E b \in Ids : VoidIntake(b)
    \/ \E q \in 1 .. MaxAdjusts : Adjust(q)
    \/ \E i \in Items : \E q \in SaleQty[i] : Sell(i, q)
    \/ \E i \in Items, q \in 1 .. MaxQty : RefundItem(i, q) \/ UndoRefund(i, q)
    \/ \E i \in Items, status \in {"cancelled", "refunded"} : ReverseSale(i, status)

StockSpec == Init /\ [][StockNext]_vars

-----------------------------------------------------------------------------
(* Properties *)

Out(b) ==
    SumFunctionOnSet([o \in Owners |-> IF b \in Active(o) THEN rows[o][b].quantity ELSE 0], Owners)

\* A batch accounts for every unit it was opened with: what it still holds and
\* what consumption rows say was drawn from it add up to its quantity
\* (consume, _restoreConsumptions, unrestoreForSaleItem, deleteBatchForVoid).
Balanced(b) == batches[b].remaining + Out(b) = batches[b].quantity

\* Every batch balances, as long as no undo took back only part of a row.
BatchesBalance == ~split => \A b \in Ids : Balanced(b)

\* Every batch balances, always: StockBatchRepository.ts:598-612 calls the undo
\* "the exact inverse" of the refund's restore, which "never approximates".
UndoIsExact == \A b \in Ids : Balanced(b)

\* The units a line is still charged to batches with and the units it put back
\* on the shelf never exceed what was sold, in whatever order it was refunded,
\* claimed and undone: a unit is not both with the customer and in a batch.
LineAccounted ==
    ~split => \A i \in Items : ~line[i].reversed =>
                  Drawn(i, Active(i)) + back[i] <= line[i].quantity

\* The shelf holds every unit the open batches promise to later sales, so the
\* count is never negative: refunds, undos, voids of sales and deliveries and
\* claims keep products.stock_quantity in step with the batches, unless stock
\* was oversold, adjusted below zero, or an undo found no row to check.
ShelfHolds == ~blind => stock >= Remaining(Ids)

\* A sale puts no more units back on the shelf than it sold:
\* docs/archive/SPRINT_FEB_19_28_2026.md:1096 "Double-refund guard prevents
\* duplicate reversals" (refundSaleItem after voidTransaction).
BackAtMostSold == \A i \in Items : back[i] <= line[i].quantity
=============================================================================
