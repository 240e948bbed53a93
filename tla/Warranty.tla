------------------------------ MODULE Warranty ------------------------------
(***************************************************************************)
(* Warranty claims on sold units, composed with the stock they move: a     *)
(* claim refunds a unit without restocking it or hands out a replacement,  *)
(* the faulty unit is held, sent to its supplier, written off or put back  *)
(* in stock, and voiding the claim undoes whatever of that happened.       *)
(*                                                                         *)
(* Every operation is one database transaction of WarrantyService, so a    *)
(* refusal in its middle leaves nothing behind.  A claim is about one      *)
(* unit.  Repairs, money, supplier credit and serial numbers are left out; *)
(* dates too: every line is covered, or the admin overrides.               *)
(***************************************************************************)
EXTENDS StockBatches

VARIABLE claim    \* warranty_claims with its defective_items and last supplier return

wvars == <<vars, claim>>

NoClaim == [status |-> "none", action |-> "none", item |-> "none",
            held |-> "none", return |-> "none", batch |-> 0]

\* Stock, lines and claims hold what the code can put there.
WarrantyTypeOK ==
    /\ TypeOK
    /\ claim \in [Claims ->
           [status : {"none", "DONE", "VOIDED"},
            action : {"none", "REFUND", "REPLACE"},
            item : Items \cup {"none"},
            held : {"none", "HELD", "SENT_TO_SUPPLIER", "WRITTEN_OFF", "RETURNED_TO_STOCK"},
            return : {"none", "SENT", "CREDITED", "REPLACED", "REJECTED"},
            batch : 0 .. MaxBatches]]

WInit == Init /\ claim = [c \in Claims |-> NoClaim]

-----------------------------------------------------------------------------
(* createSaleLineClaim *)

\* countLiveNonRefundForLine
Replacing(i) == {c \in Claims : /\ claim[c].item = i /\ claim[c].status = "DONE"
                                /\ claim[c].action = "REPLACE"}

\* isSaleLineFullyRefunded: a whole-sale refund or every unit by item refunds;
\* a cancelled sale's line still counts as covered.
Covered(i) ==
    IF line[i].status = "refunded" THEN 0 ELSE line[i].quantity - line[i].refunded

Claimable(c, i) ==
    /\ claim[c].status = "none"
    /\ line[i].status # "none"
    /\ Cardinality(Replacing(i)) < Covered(i)

Claimed(c, i, action) ==
    [claim EXCEPT ![c] = [status |-> "DONE", action |-> action, item |-> i,
                          held |-> "HELD", return |-> "none", batch |-> 0]]

\* The money path of refundSaleItem with restock: false.
ClaimRefund(c, i) ==
    /\ Claimable(c, i)
    /\ Refundable(i, 1)
    /\ line' = Refunded(i, 1)
    /\ claim' = Claimed(c, i, "REFUND")
    /\ UNCHANGED <<stock, batches, opened, rows, refunds, back, lost, split, blind>>

\* takeOneFromStock, then a FIFO draw the claim owns.
ClaimReplace(c, i) ==
    /\ Claimable(c, i)
    /\ stock >= 1
    /\ stock' = stock - 1
    /\ Consume(c, 1)
    /\ claim' = Claimed(c, i, "REPLACE")
    /\ UNCHANGED <<opened, line, refunds, back, lost, split, blind>>

-----------------------------------------------------------------------------
(* resolveDefective, createSupplierReturn, closeSupplierReturn *)

WriteOff(c) ==
    /\ claim[c].held = "HELD"
    /\ claim' = [claim EXCEPT ![c].held = "WRITTEN_OFF"]
    /\ UNCHANGED vars

\* Variant: the unit is counted in stock but its batch is not given it back.
NotFaultyNoRestore(c) ==
    LET i == claim[c].item IN
    /\ claim[c].held = "HELD"
    /\ stock' = stock + 1
    /\ claim' = [claim EXCEPT ![c].held = "RETURNED_TO_STOCK"]
    /\ back' = [back EXCEPT ![i] = @ + 1]
    /\ UNCHANGED <<batches, opened, rows, line, refunds, lost, split, blind>>

\* A refunded line's unit goes back to the batch it came from; a replaced one,
\* whose sale stands, gets a batch of its own.
NotFaulty(c) ==
    LET i == claim[c].item IN
    /\ claim[c].held = "HELD"
    /\ stock' = stock + 1
    /\ claim' = [claim EXCEPT ![c].held = "RETURNED_TO_STOCK"]
    /\ \/ /\ claim[c].action = "REFUND"
          /\ Restore(i, 1)
          /\ back' = [back EXCEPT ![i] = @ + 1]
          /\ UNCHANGED opened
       \/ /\ claim[c].action = "REPLACE"
          /\ OpenBatch(1, FALSE)
          /\ UNCHANGED <<rows, back>>
    /\ UNCHANGED <<line, refunds, lost, split, blind>>

SendToSupplier(c) ==
    /\ claim[c].held = "HELD"
    /\ claim' = [claim EXCEPT ![c].held = "SENT_TO_SUPPLIER", ![c].return = "SENT"]
    /\ UNCHANGED vars

\* CREDITED: the supplier keeps the unit.  REJECTED: it is held again.
SupplierAnswers(c) ==
    /\ claim[c].return = "SENT"
    /\ claim' \in {[claim EXCEPT ![c].return = "CREDITED"],
                   [claim EXCEPT ![c].return = "REJECTED", ![c].held = "HELD"]}
    /\ UNCHANGED vars

SupplierReplaces(c) ==
    /\ claim[c].return = "SENT"
    /\ stock' = stock + 1
    /\ OpenBatch(1, FALSE)
    /\ claim' = [claim EXCEPT ![c].return = "REPLACED", ![c].held = "RETURNED_TO_STOCK",
                              ![c].batch = opened + 1]
    /\ UNCHANGED <<rows, line, refunds, back, lost, split, blind>>

-----------------------------------------------------------------------------
(* voidClaim *)

\* undoSupplierReturns: the supplier's unit comes off the shelf again, unless
\* anything was ever drawn from its batch; a credited unit is held again.
ReturnUndone(c) ==
    \/ /\ claim[c].return \in {"none", "REJECTED"} /\ claim[c].held = "HELD"
    \/ /\ claim[c].return = "CREDITED"
    \/ /\ claim[c].return = "REPLACED"
       /\ \A o \in Owners : rows[o][claim[c].batch].quantity = 0
       /\ batches[claim[c].batch].remaining = batches[claim[c].batch].quantity

\* Variant: the supplier's unit stays on the shelf.
TakenNothing(c) == 0

Taken(c) == IF claim[c].return = "REPLACED" THEN 1 ELSE 0

Voided(c) ==
    [claim EXCEPT ![c].status = "VOIDED", ![c].held = "none", ![c].return = "none",
                  ![c].batch = 0]

\* The batch of the supplier's unit is dropped.
WithoutReturn(c) ==
    [b \in Ids |-> IF claim[c].return = "REPLACED" /\ b = claim[c].batch
                   THEN NoBatch ELSE batches[b]]

VoidClaim(c) ==
    LET i == claim[c].item IN
    /\ claim[c].status = "DONE"
    /\ ReturnUndone(c)
    /\ claim' = Voided(c)
    /\ \/ /\ claim[c].action = "REFUND"
          /\ line[i].refunded >= 1
          /\ line' = Unrefunded(i, 1)
          /\ batches' = WithoutReturn(c)
          /\ stock' = stock - Taken(c)
          /\ UNCHANGED rows
       \/ /\ claim[c].action = "REPLACE"
          /\ stock' = stock - Taken(c) + 1
          /\ batches' = [b \in Ids |-> [WithoutReturn(c)[b] EXCEPT
                                            !.remaining = @ + Give(c, 1)[b]]]
          /\ rows' = [rows EXCEPT ![c] =
                          [b \in Ids |-> [quantity |-> @[b].quantity,
                                          restored |-> b \in Active(c)]]]
          /\ UNCHANGED line
    /\ UNCHANGED <<opened, refunds, back, lost, split, blind>>

-----------------------------------------------------------------------------
WNext ==
    \/ StockNext /\ UNCHANGED claim
    \/ \E c \in Claims, i \in Items : ClaimRefund(c, i) \/ ClaimReplace(c, i)
    \/ \E c \in Claims :
        \/ WriteOff(c) \/ NotFaulty(c) \/ SendToSupplier(c)
        \/ SupplierAnswers(c) \/ SupplierReplaces(c) \/ VoidClaim(c)

WSpec == WInit /\ [][WNext]_wvars

-----------------------------------------------------------------------------
(* Properties *)

Replacements == {c \in Claims : claim[c].status = "DONE" /\ claim[c].action = "REPLACE"}

\* Every unit is accounted for: the count is what was there and delivered, less
\* what was lost, what customers keep of the sales, and the replacements handed
\* out under live claims; a unit the supplier replaced, or that was not faulty,
\* is back exactly once, and a void takes back exactly what the claim moved.
UnitsAccounted ==
    stock = Opening + SumFunctionOnSet([b \in Ids |-> batches[b].quantity], Ids) - lost
            - SumFunctionOnSet([i \in Items |-> line[i].quantity - back[i]], Items)
            - Cardinality(Replacements)

\* A line is refunded by its live item refunds and its live refund claims, no
\* more and no less: an undo or a void never takes another one's refund away.
RefundsAccounted ==
    \A i \in Items :
        line[i].refunded =
            SumFunctionOnSet([q \in 1 .. MaxQty |-> q * refunds[i][q]], 1 .. MaxQty)
            + Cardinality({c \in Claims : /\ claim[c].item = i /\ claim[c].status = "DONE"
                                          /\ claim[c].action = "REFUND"})
=============================================================================
