---------------------------- MODULE WarrantyProofs ----------------------------
(***************************************************************************)
(* Safety of the stock of a product under sales, refunds, undos, voids,    *)
(* deliveries and warranty claims, for any number of lines, claims,        *)
(* batches and units.                                                      *)
(***************************************************************************)
EXTENDS Warranty, SumTheorems

BatchType == [quantity : Nat, remaining : Nat, booked : BOOLEAN]
RowType == [quantity : Nat, restored : BOOLEAN]
LineType == [status : {"none", "completed", "cancelled", "refunded"},
             quantity : 0 .. MaxQty, refunded : Nat, reversed : BOOLEAN]
ClaimType == [status : {"none", "DONE", "VOIDED"},
              action : {"none", "REFUND", "REPLACE"},
              item : Items \cup {"none"},
              held : {"none", "HELD", "SENT_TO_SUPPLIER", "WRITTEN_OFF", "RETURNED_TO_STOCK"},
              return : {"none", "SENT", "CREDITED", "REPLACED", "REJECTED"},
              batch : 0 .. MaxBatches]

\* The units a row still charges its owner with.
LiveOf(r) == IF r.restored THEN 0 ELSE r.quantity

NoUnits(r) == r.quantity = 0 /\ ~r.restored

\* A batch that was never opened is empty, and no row refers to it.
FreshBatches == \A b \in Ids : b > opened =>
    /\ batches[b].quantity = 0 /\ batches[b].remaining = 0
    /\ \A o \in Owners : NoUnits(rows[o][b])

\* A line that was not sold and a claim that was not made have no row; what
\* nobody reads back, and a claim before its void, has no flagged one.
FreshRows ==
    /\ \A i \in Items : line[i].status = "none" => \A b \in Ids : NoUnits(rows[i][b])
    /\ \A b \in Ids : ~rows[Loss][b].restored
    /\ \A c \in Claims : claim[c].status = "none" => \A b \in Ids : NoUnits(rows[c][b])
    /\ \A c \in Claims : claim[c].status # "VOIDED" => \A b \in Ids : ~rows[c][b].restored

\* A claim draws one unit, from one batch.
ClaimDrawsOne == \A c \in Claims : \A b \in Ids :
    rows[c][b].quantity > 0 =>
        rows[c][b].quantity = 1 /\ \A a \in Ids : rows[c][a].quantity > 0 => a = b

\* The stages of a claim, its faulty unit and its return to the supplier.
Staged(k) ==
    /\ k.status = "DONE" => k.item \in Items /\ k.action \in {"REFUND", "REPLACE"}
    /\ k.status # "DONE" => k.held = "none" /\ k.return = "none"
    /\ k.return \in {"SENT", "CREDITED"} => k.held = "SENT_TO_SUPPLIER"
    /\ k.return = "REPLACED" => k.held = "RETURNED_TO_STOCK"

ClaimsStaged == \A c \in Claims : Staged(claim[c])

\* The unit a supplier gave has a batch of one unit and of its own, that no void
\* of a delivery can take.
ReturnBatches ==
    /\ \A c \in Claims : claim[c].return = "REPLACED" =>
        /\ claim[c].batch \in Ids
        /\ batches[claim[c].batch].quantity = 1 /\ ~batches[claim[c].batch].booked
    /\ \A c, d \in Claims :
        claim[c].return = "REPLACED" /\ claim[d].return = "REPLACED"
            /\ claim[c].batch = claim[d].batch => c = d

UnsoldIsEmpty == \A i \in Items :
    line[i].status = "none" => line[i].quantity = 0 /\ ~line[i].reversed

\* The live refund claims of a line, and those whose unit is not back on the
\* shelf by their own doing.
RefundClaims(i) == {c \in Claims : /\ claim[c].item = i /\ claim[c].status = "DONE"
                                   /\ claim[c].action = "REFUND"}
Away(k) == k.held # "RETURNED_TO_STOCK" \/ k.return = "REPLACED"
Pending(i) == {c \in RefundClaims(i) : Away(claim[c])}

ItemRefunds(i) == SumFunctionOnSet([q \in 1 .. MaxQty |-> q * refunds[i][q]], 1 .. MaxQty)

\* What came back of a line covers its live item refunds, and until the sale is
\* reversed no more came back than refunds and returned units explain.
BackExplained == \A i \in Items :
    /\ ItemRefunds(i) <= back[i]
    /\ ~line[i].reversed => back[i] + Cardinality(Pending(i)) <= line[i].refunded

BooksInv ==
    /\ line \in [Items -> LineType] /\ claim \in [Claims -> ClaimType]
    /\ refunds \in [Items -> [1 .. MaxQty -> 0 .. MaxRefunds]]
    /\ back \in [Items -> Nat]
    /\ \A i \in Items : line[i].refunded <= line[i].quantity
    /\ UnsoldIsEmpty /\ ClaimsStaged /\ BackExplained /\ RefundsAccounted

RowsInv ==
    /\ batches \in [Ids -> BatchType] /\ rows \in [Owners -> [Ids -> RowType]]
    /\ opened \in 0 .. MaxBatches
    /\ split \in BOOLEAN
    /\ FreshBatches /\ FreshRows /\ ClaimDrawsOne /\ ReturnBatches /\ BatchesBalance

UnitsInv ==
    /\ stock \in Int /\ lost \in Nat /\ blind \in BOOLEAN
    /\ UnitsAccounted /\ LineAccounted /\ ShelfHolds

WarrantyInv == BooksInv /\ RowsInv /\ UnitsInv

-----------------------------------------------------------------------------
(* Sets, types and shares                                                  *)

LEMMA IdsFinite ==
    /\ Ids \in SUBSET Nat /\ IsFiniteSet(Ids) /\ Ids \in SUBSET Ids
    /\ IsFiniteSet(1 .. MaxQty) /\ MaxBatches \in Nat /\ MaxQty \in Nat
    /\ \A b \in Ids : b \in 1 .. MaxBatches
<1>1. MaxBatches \in Nat /\ MaxQty \in Nat
  BY StockAssumption
<1>2. IsFiniteSet(1 .. MaxBatches) /\ IsFiniteSet(1 .. MaxQty)
  BY <1>1, FS_Interval
<1>3. 1 .. MaxBatches \in SUBSET Nat
  BY <1>1
<1> QED BY <1>1, <1>2, <1>3 DEF Ids

LEMMA OwnersFinite ==
    /\ IsFiniteSet(Owners) /\ IsFiniteSet(Items) /\ IsFiniteSet(Claims)
    /\ Items \subseteq Owners /\ Claims \subseteq Owners /\ Loss \in Owners
    /\ \A i \in Items : i \notin Claims /\ i # Loss
    /\ \A c \in Claims : c \notin Items /\ c # Loss
<1>1. IsFiniteSet(Items \cup Claims)
  BY StockAssumption, FS_Union
<1>2. IsFiniteSet({Loss})
  BY FS_Singleton
<1>3. IsFiniteSet((Items \cup Claims) \cup {Loss})
  BY <1>1, <1>2, FS_Union
<1> QED BY <1>3, StockAssumption DEF Owners

LEMMA NothingTyped == NoBatch \in BatchType /\ NoRow \in RowType
BY DEF NoBatch, NoRow, BatchType, RowType

LEMMA RowFields ==
    ASSUME rows \in [Owners -> [Ids -> RowType]], NEW o \in Owners, NEW b \in Ids
    PROVE  /\ rows[o][b] \in RowType
           /\ rows[o][b].quantity \in Nat /\ rows[o][b].restored \in BOOLEAN
           /\ LiveOf(rows[o][b]) \in Nat
           /\ rows[o] \in [Ids -> RowType]
<1>1. rows[o][b] \in RowType
  OBVIOUS
<1>2. rows[o][b].quantity \in Nat /\ rows[o][b].restored \in BOOLEAN
  BY <1>1 DEF RowType
<1> QED BY <1>1, <1>2 DEF LiveOf

LEMMA BatchFields ==
    ASSUME batches \in [Ids -> BatchType], NEW b \in Ids
    PROVE  /\ batches[b] \in BatchType
           /\ batches[b].quantity \in Nat /\ batches[b].remaining \in Nat
           /\ batches[b].booked \in BOOLEAN
<1>1. batches[b] \in BatchType
  OBVIOUS
<1> QED BY <1>1 DEF BatchType

LEMMA Update ==
    ASSUME NEW S, NEW T, NEW f \in [S -> T], NEW x \in S, NEW v \in T, NEW g,
           g = [f EXCEPT ![x] = v]
    PROVE  g \in [S -> T] /\ g[x] = v /\ \A y \in S : y # x => g[y] = f[y]
OBVIOUS

LEMMA MaxOfTwo ==
    ASSUME NEW a \in Int
    PROVE  Max({0, a}) = IF a <= 0 THEN 0 ELSE a
BY DEF Max

LEMMA MinOfTwo ==
    ASSUME NEW a \in Nat, NEW b \in Nat
    PROVE  Min({a, b}) = Smaller(a, b)
BY DEF Min, Smaller

LEMMA ShareIs ==
    ASSUME NEW q \in Nat, NEW before \in Nat, NEW most \in Nat
    PROVE  /\ Share(q, before, most) = WalkTakes(q, before, most)
           /\ Share(q, before, most) \in Nat
           /\ Share(q, before, most) <= most /\ Share(q, before, most) <= q
<1> DEFINE d == q - before
           m == IF d <= 0 THEN 0 ELSE d
<1>1. d \in Int /\ m \in Nat
  OBVIOUS
<1>2. Max({0, d}) = m
  BY <1>1, MaxOfTwo
<1>3. Min({most, m}) = Smaller(most, m)
  <2> HIDE DEF m
  <2> QED BY <1>1, MinOfTwo
<1>4. Share(q, before, most) = Smaller(most, m)
  <2> HIDE DEF m
  <2> QED BY <1>2, <1>3 DEF Share
<1> QED BY <1>4 DEF WalkTakes, Smaller

\* The batches with a smaller number, and those with a larger one, are queues.
LEMMA BatchQueues ==
    ASSUME NEW S \in SUBSET Ids
    PROVE  /\ Queue(S, [b \in S |-> {a \in S : a < b}])
           /\ Queue(S, [b \in S |-> {a \in S : a > b}])
<1>1. \A b \in S : b \in Nat
  BY IdsFinite
<1> DEFINE U == [b \in S |-> {a \in S : a < b}]
           V == [b \in S |-> {a \in S : a > b}]
<1>2. \A b \in S : U[b] = {a \in S : a < b} /\ V[b] = {a \in S : a > b}
  OBVIOUS
<1>3. U \in [S -> SUBSET S] /\ V \in [S -> SUBSET S]
  OBVIOUS
<1> HIDE DEF U, V
<1>4. \A x \in S : x \notin U[x] /\ x \notin V[x]
  BY <1>1, <1>2
<1>5. \A x \in S : (\A y \in U[x] : U[y] \subseteq U[x]) /\ (\A y \in V[x] : V[y] \subseteq V[x])
  BY <1>1, <1>2
<1>6. \A x, y \in S : (x = y \/ x \in U[y] \/ y \in U[x]) /\ (x = y \/ x \in V[y] \/ y \in V[x])
  BY <1>1, <1>2
<1>7. Queue(S, U) /\ Queue(S, V)
  BY <1>3, <1>4, <1>5, <1>6 DEF Queue
<1> QED BY <1>7 DEF U, V

-----------------------------------------------------------------------------
(* Lines, refunds and claims                                               *)

\* A set that differs from another by c only has its size, but for c.
LEMMA CardChange ==
    ASSUME NEW S, IsFiniteSet(S), NEW U, NEW c, S \ {c} = U \ {c}
    PROVE  /\ Cardinality(S) \in Nat /\ Cardinality(U) \in Nat
           /\ Cardinality(U) = Cardinality(S) - (IF c \in S THEN 1 ELSE 0)
                                              + (IF c \in U THEN 1 ELSE 0)
<1> DEFINE R == S \ {c}
<1>1. IsFiniteSet(R)
  BY FS_Subset
<1>2. Cardinality(R) \in Nat /\ Cardinality(S) \in Nat
  BY <1>1, FS_CardinalityType
<1>3. Cardinality(R \cup {c}) = Cardinality(R) + 1
  BY <1>1, FS_AddElement
<1>4. Cardinality(S) = Cardinality(R) + (IF c \in S THEN 1 ELSE 0)
  <2>1. (c \in S => S = R \cup {c}) /\ (c \notin S => S = R)
    OBVIOUS
  <2>2. c \in S => Cardinality(S) = Cardinality(R \cup {c})
    BY <2>1
  <2>3. c \notin S => Cardinality(S) = Cardinality(R)
    BY <2>1
  <2> HIDE DEF R
  <2> QED BY <2>2, <2>3, <1>2, <1>3
<1>5. Cardinality(U) = Cardinality(R) + (IF c \in U THEN 1 ELSE 0)
  <2>1. (c \in U => U = R \cup {c}) /\ (c \notin U => U = R)
    OBVIOUS
  <2>2. c \in U => Cardinality(U) = Cardinality(R \cup {c})
    BY <2>1
  <2>3. c \notin U => Cardinality(U) = Cardinality(R)
    BY <2>1
  <2> HIDE DEF R
  <2> QED BY <2>2, <2>3, <1>2, <1>3
<1> HIDE DEF R
<1> QED BY <1>2, <1>4, <1>5

LEMMA LineFields ==
    ASSUME line \in [Items -> LineType], NEW i \in Items
    PROVE  /\ line[i] \in LineType
           /\ line[i].quantity \in Nat /\ line[i].quantity \in 0 .. MaxQty
           /\ line[i].refunded \in Nat /\ line[i].reversed \in BOOLEAN
           /\ line[i].status \in {"none", "completed", "cancelled", "refunded"}
<1>1. line[i] \in LineType
  OBVIOUS
<1>2. \A x \in 0 .. MaxQty : x \in Nat
  BY IdsFinite
<1> QED BY <1>1, <1>2 DEF LineType

LEMMA ClaimFields ==
    ASSUME claim \in [Claims -> ClaimType], NEW c \in Claims
    PROVE  /\ claim[c] \in ClaimType
           /\ claim[c].batch \in Nat
<1>1. claim[c] \in ClaimType
  OBVIOUS
<1>2. \A x \in 0 .. MaxBatches : x \in Nat
  BY IdsFinite
<1> QED BY <1>1, <1>2 DEF ClaimType

\* What the books say of one line: l the line, n its item refunds, bk what came
\* back, rc and pd its refund claims and the pending ones of them.
LineOK(l, n, bk, rc, pd) ==
    /\ l \in LineType /\ l.refunded <= l.quantity
    /\ l.status = "none" => l.quantity = 0 /\ ~l.reversed
    /\ bk \in Nat /\ n <= bk
    /\ ~l.reversed => bk + pd <= l.refunded
    /\ l.refunded = n + rc

ItemOK(i) == LineOK(line[i], ItemRefunds(i), back[i], Cardinality(RefundClaims(i)),
                    Cardinality(Pending(i)))

BookTypes ==
    /\ line \in [Items -> LineType] /\ claim \in [Claims -> ClaimType]
    /\ refunds \in [Items -> [1 .. MaxQty -> 0 .. MaxRefunds]]
    /\ back \in [Items -> Nat]

LEMMA BooksByLine == BooksInv <=> BookTypes /\ ClaimsStaged /\ \A i \in Items : ItemOK(i)
<1>1. ASSUME BooksInv PROVE BookTypes /\ ClaimsStaged /\ \A i \in Items : ItemOK(i)
  <2>1. BookTypes /\ ClaimsStaged
    BY <1>1 DEF BooksInv, BookTypes
  <2>2. ASSUME NEW i \in Items PROVE ItemOK(i)
    <3>1. line[i] \in LineType /\ back[i] \in Nat
      BY <2>1 DEF BookTypes
    <3>2. line[i].refunded = ItemRefunds(i) + Cardinality(RefundClaims(i))
      BY <1>1 DEF BooksInv, RefundsAccounted, ItemRefunds, RefundClaims
    <3> QED BY <1>1, <3>1, <3>2 DEF BooksInv, ItemOK, LineOK, UnsoldIsEmpty, BackExplained
  <2> QED BY <2>1, <2>2
<1>2. ASSUME BookTypes, ClaimsStaged, \A i \in Items : ItemOK(i) PROVE BooksInv
  <2>1. RefundsAccounted
    BY <1>2 DEF ItemOK, LineOK, RefundsAccounted, ItemRefunds, RefundClaims
  <2>2. UnsoldIsEmpty /\ BackExplained /\ \A i \in Items : line[i].refunded <= line[i].quantity
    BY <1>2 DEF ItemOK, LineOK, UnsoldIsEmpty, BackExplained
  <2> QED BY <1>2, <2>1, <2>2 DEF BooksInv, BookTypes
<1> QED BY <1>1, <1>2

LEMMA ClaimSetsFinite ==
    /\ \A i : IsFiniteSet(RefundClaims(i)) /\ IsFiniteSet(Pending(i))
    /\ \A i : Cardinality(RefundClaims(i)) \in Nat /\ Cardinality(Pending(i)) \in Nat
    /\ IsFiniteSet(Replacements) /\ Cardinality(Replacements) \in Nat
<1>1. ASSUME NEW i PROVE RefundClaims(i) \subseteq Claims /\ Pending(i) \subseteq Claims
  BY DEF RefundClaims, Pending
<1>2. Replacements \subseteq Claims
  BY DEF Replacements
<1>3. \A i : IsFiniteSet(RefundClaims(i)) /\ IsFiniteSet(Pending(i))
  BY <1>1, OwnersFinite, FS_Subset
<1>4. IsFiniteSet(Replacements)
  BY <1>2, OwnersFinite, FS_Subset
<1> QED BY <1>3, <1>4, FS_CardinalityType

LEMMA ItemRefundsNat ==
    ASSUME refunds \in [Items -> [1 .. MaxQty -> 0 .. MaxRefunds]], NEW i \in Items
    PROVE  /\ ItemRefunds(i) \in Nat
           /\ \A q \in 1 .. MaxQty : refunds[i][q] > 0 => q <= ItemRefunds(i)
<1> DEFINE f == [q \in 1 .. MaxQty |-> q * refunds[i][q]]
<1>1. \A q \in 1 .. MaxQty : q \in Nat /\ q > 0 /\ refunds[i][q] \in Nat
  BY IdsFinite, StockAssumption
<1>2. \A q \in 1 .. MaxQty : q * refunds[i][q] \in Nat
  BY <1>1
<1>3. f \in [1 .. MaxQty -> Nat] /\ \A q \in 1 .. MaxQty : f[q] = q * refunds[i][q]
  BY <1>2
<1>4. ItemRefunds(i) = SumFunctionOnSet(f, 1 .. MaxQty)
  BY DEF ItemRefunds
<1> HIDE DEF f
<1>5. 1 .. MaxQty \in SUBSET (1 .. MaxQty)
  OBVIOUS
<1>6. /\ SumFunctionOnSet(f, 1 .. MaxQty) \in Nat
      /\ \A q \in 1 .. MaxQty : f[q] <= SumFunctionOnSet(f, 1 .. MaxQty)
  BY <1>3, <1>5, IdsFinite, SumNat
<1>7. ASSUME NEW q \in 1 .. MaxQty, refunds[i][q] > 0 PROVE q <= q * refunds[i][q]
  <2>1. \A x, y \in Nat : y > 0 => x <= x * y
    OBVIOUS
  <2> QED BY <1>1, <1>7, <2>1
<1>8. ASSUME NEW q \in 1 .. MaxQty, refunds[i][q] > 0 PROVE q <= ItemRefunds(i)
  <2>1. q <= f[q] /\ f[q] <= ItemRefunds(i) /\ f[q] \in Nat /\ q \in Nat
    BY <1>1, <1>3, <1>4, <1>6, <1>7, <1>8
  <2> QED BY <2>1, <1>4, <1>6
<1> QED BY <1>4, <1>6, <1>8

\* One more or one less refund of q units of line i.
LEMMA ItemRefundsMove ==
    ASSUME refunds \in [Items -> [1 .. MaxQty -> 0 .. MaxRefunds]], NEW i \in Items,
           NEW q \in 1 .. MaxQty, NEW d \in {1, -1},
           refunds' = [refunds EXCEPT ![i][q] = @ + d],
           refunds[i][q] + d \in 0 .. MaxRefunds
    PROVE  /\ refunds' \in [Items -> [1 .. MaxQty -> 0 .. MaxRefunds]]
           /\ ItemRefunds(i)' = ItemRefunds(i) + q * d
           /\ \A j \in Items : j # i => ItemRefunds(j)' = ItemRefunds(j)
<1> DEFINE f == [p \in 1 .. MaxQty |-> p * refunds[i][p]]
           g == [p \in 1 .. MaxQty |-> p * refunds'[i][p]]
<1>1. refunds' \in [Items -> [1 .. MaxQty -> 0 .. MaxRefunds]]
  OBVIOUS
<1>2. \A p \in 1 .. MaxQty : p \in Nat /\ refunds[i][p] \in Nat /\ refunds'[i][p] \in Nat
  BY <1>1, StockAssumption, IdsFinite
<1>3. \A x, y \in Nat : x * y \in Int
  OBVIOUS
<1>4. f \in [1 .. MaxQty -> Int] /\ g \in [1 .. MaxQty -> Int]
  BY <1>2, <1>3
<1>5. \A p \in 1 .. MaxQty : p # q => refunds'[i][p] = refunds[i][p]
  OBVIOUS
<1>6. f[q] = q * refunds[i][q] /\ g[q] = q * (refunds[i][q] + d)
  OBVIOUS
<1>7. \A p \in 1 .. MaxQty : p # q => g[p] = f[p]
  BY <1>5
<1>8. ItemRefunds(i) = SumFunctionOnSet(f, 1 .. MaxQty) /\ ItemRefunds(i)' = SumFunctionOnSet(g, 1 .. MaxQty)
  BY DEF ItemRefunds
<1> HIDE DEF f, g
<1>9. EqualBut(f, g, 1 .. MaxQty, q)
  BY <1>4, <1>7, IdsFinite DEF EqualBut
<1>10. /\ SumFunctionOnSet(f, 1 .. MaxQty) \in Int
       /\ SumFunctionOnSet(g, 1 .. MaxQty) = SumFunctionOnSet(f, 1 .. MaxQty) - f[q] + g[q]
  BY <1>9, SumChangeAll
<1>11. g[q] = f[q] + q * d /\ f[q] \in Int /\ q * d \in Int
  <2>1. \A x, y \in Nat : x * (y + d) = x * y + x * d /\ x * d \in Int /\ x * y \in Int
    OBVIOUS
  <2> QED BY <2>1, <1>2, <1>6
<1>12. ASSUME NEW j \in Items, j # i PROVE ItemRefunds(j)' = ItemRefunds(j)
  <2>1. refunds'[j] = refunds[j]
    BY <1>12
  <2> QED BY <2>1 DEF ItemRefunds
<1> QED BY <1>1, <1>8, <1>10, <1>11, <1>12

RefundOf(k, i) == k.item = i /\ k.status = "DONE" /\ k.action = "REFUND"
ReplaceOf(k) == k.status = "DONE" /\ k.action = "REPLACE"
One(p) == IF p THEN 1 ELSE 0

\* The counts of claims when claim c changes.
LEMMA ClaimMove ==
    ASSUME NEW c \in Claims, \A d \in Claims : d # c => claim'[d] = claim[d]
    PROVE  /\ \A i : Cardinality(RefundClaims(i))' = Cardinality(RefundClaims(i))
                        - One(RefundOf(claim[c], i)) + One(RefundOf(claim'[c], i))
           /\ \A i : Cardinality(Pending(i))' = Cardinality(Pending(i))
                        - One(RefundOf(claim[c], i) /\ Away(claim[c]))
                        + One(RefundOf(claim'[c], i) /\ Away(claim'[c]))
           /\ Cardinality(Replacements)' = Cardinality(Replacements)
                        - One(ReplaceOf(claim[c])) + One(ReplaceOf(claim'[c]))
<1>1. ASSUME NEW i
      PROVE  Cardinality(RefundClaims(i))' = Cardinality(RefundClaims(i))
                        - One(RefundOf(claim[c], i)) + One(RefundOf(claim'[c], i))
  <2> DEFINE S == RefundClaims(i)
             U == RefundClaims(i)'
  <2>1. S \ {c} = U \ {c}
    BY DEF RefundClaims
  <2>2. (c \in S <=> RefundOf(claim[c], i)) /\ (c \in U <=> RefundOf(claim'[c], i))
    BY DEF RefundClaims, RefundOf
  <2>3. IsFiniteSet(S)
    BY ClaimSetsFinite
  <2> HIDE DEF S, U
  <2>4. Cardinality(U) = Cardinality(S) - (IF c \in S THEN 1 ELSE 0) + (IF c \in U THEN 1 ELSE 0)
    BY <2>1, <2>3, CardChange
  <2>5. Cardinality(U) = Cardinality(S) - One(RefundOf(claim[c], i)) + One(RefundOf(claim'[c], i))
    BY <2>2, <2>4 DEF One
  <2> QED BY <2>5 DEF S, U
<1>2. ASSUME NEW i
      PROVE  Cardinality(Pending(i))' = Cardinality(Pending(i))
                        - One(RefundOf(claim[c], i) /\ Away(claim[c]))
                        + One(RefundOf(claim'[c], i) /\ Away(claim'[c]))
  <2> DEFINE S == Pending(i)
             U == Pending(i)'
  <2>1. S \ {c} = U \ {c}
    BY DEF Pending, RefundClaims
  <2>2. /\ c \in S <=> RefundOf(claim[c], i) /\ Away(claim[c])
        /\ c \in U <=> RefundOf(claim'[c], i) /\ Away(claim'[c])
    BY DEF Pending, RefundClaims, RefundOf
  <2>3. IsFiniteSet(S)
    BY ClaimSetsFinite
  <2> HIDE DEF S, U
  <2>4. Cardinality(U) = Cardinality(S) - (IF c \in S THEN 1 ELSE 0) + (IF c \in U THEN 1 ELSE 0)
    BY <2>1, <2>3, CardChange
  <2>5. Cardinality(U) = Cardinality(S) - One(RefundOf(claim[c], i) /\ Away(claim[c]))
                                        + One(RefundOf(claim'[c], i) /\ Away(claim'[c]))
    BY <2>2, <2>4 DEF One
  <2> QED BY <2>5 DEF S, U
<1>3. Cardinality(Replacements)' = Cardinality(Replacements)
                        - One(ReplaceOf(claim[c])) + One(ReplaceOf(claim'[c]))
  <2> DEFINE S == Replacements
             U == Replacements'
  <2>1. S \ {c} = U \ {c}
    BY DEF Replacements
  <2>2. (c \in S <=> ReplaceOf(claim[c])) /\ (c \in U <=> ReplaceOf(claim'[c]))
    BY DEF Replacements, ReplaceOf
  <2>3. IsFiniteSet(S)
    BY ClaimSetsFinite
  <2> HIDE DEF S, U
  <2>4. Cardinality(U) = Cardinality(S) - (IF c \in S THEN 1 ELSE 0) + (IF c \in U THEN 1 ELSE 0)
    BY <2>1, <2>3, CardChange
  <2>5. Cardinality(U) = Cardinality(S) - One(ReplaceOf(claim[c])) + One(ReplaceOf(claim'[c]))
    BY <2>2, <2>4 DEF One
  <2> QED BY <2>5 DEF S, U
<1> QED BY <1>1, <1>2, <1>3

\* The line after a refund and after its undo.
LEMMA RefundedLine ==
    ASSUME line \in [Items -> LineType], NEW i \in Items, NEW q \in Nat
    PROVE  /\ Refunded(i, q) \in [Items -> LineType]
           /\ \A j \in Items : j # i => Refunded(i, q)[j] = line[j]
           /\ Refunded(i, q)[i].refunded = line[i].refunded + q
           /\ Refunded(i, q)[i].quantity = line[i].quantity
           /\ Refunded(i, q)[i].reversed = line[i].reversed
           /\ Refunded(i, q)[i].status \in {line[i].status, "refunded"}
<1> DEFINE s == IF line[i].refunded + q = line[i].quantity THEN "refunded" ELSE line[i].status
           r == line[i].refunded + q
           l == [line[i] EXCEPT !.refunded = r, !.status = s]
<1>1. Refunded(i, q) = [line EXCEPT ![i] = l]
  BY DEF Refunded
<1>2. /\ r \in Nat /\ s \in {line[i].status, "refunded"}
      /\ s \in {"none", "completed", "cancelled", "refunded"}
  BY LineFields
<1> HIDE DEF s, r
<1>3. /\ l \in LineType /\ l.refunded = r /\ l.status = s
      /\ l.quantity = line[i].quantity /\ l.reversed = line[i].reversed
  BY <1>2, LineFields DEF LineType
<1> HIDE DEF l
<1>4. /\ Refunded(i, q) \in [Items -> LineType] /\ Refunded(i, q)[i] = l
      /\ \A j \in Items : j # i => Refunded(i, q)[j] = line[j]
  BY <1>1, <1>3
<1> QED BY <1>2, <1>3, <1>4 DEF r

LEMMA UnrefundedLine ==
    ASSUME line \in [Items -> LineType], NEW i \in Items, NEW q \in Nat, line[i].refunded >= q
    PROVE  /\ Unrefunded(i, q) \in [Items -> LineType]
           /\ \A j \in Items : j # i => Unrefunded(i, q)[j] = line[j]
           /\ Unrefunded(i, q)[i].refunded = line[i].refunded - q
           /\ Unrefunded(i, q)[i].quantity = line[i].quantity
           /\ Unrefunded(i, q)[i].reversed = line[i].reversed
           /\ line[i].status # "none" => Unrefunded(i, q)[i].status # "none"
           /\ Unrefunded(i, q)[i].status = "none" => line[i].status = "none"
<1> DEFINE s == IF line[i].status = "refunded" THEN "completed" ELSE line[i].status
           r == line[i].refunded - q
           l == [line[i] EXCEPT !.refunded = r, !.status = s]
<1>1. Unrefunded(i, q) = [line EXCEPT ![i] = l]
  BY DEF Unrefunded
<1>2. /\ r \in Nat /\ s \in {"none", "completed", "cancelled", "refunded"}
      /\ s = "none" <=> line[i].status = "none"
  BY LineFields
<1> HIDE DEF s, r
<1>3. /\ l \in LineType /\ l.refunded = r /\ l.status = s
      /\ l.quantity = line[i].quantity /\ l.reversed = line[i].reversed
  BY <1>2, LineFields DEF LineType
<1> HIDE DEF l
<1>4. /\ Unrefunded(i, q) \in [Items -> LineType] /\ Unrefunded(i, q)[i] = l
      /\ \A j \in Items : j # i => Unrefunded(i, q)[j] = line[j]
  BY <1>1, <1>3
<1> QED BY <1>2, <1>3, <1>4 DEF r

\* A line the step does not touch keeps its books.
LineSame(j) ==
    /\ line'[j] = line[j] /\ ItemRefunds(j)' = ItemRefunds(j) /\ back'[j] = back[j]
    /\ Cardinality(RefundClaims(j))' = Cardinality(RefundClaims(j))
    /\ Cardinality(Pending(j))' = Cardinality(Pending(j))

LEMMA BooksFrom ==
    ASSUME BooksInv, BookTypes', ClaimsStaged', NEW i,
           i \in Items => ItemOK(i)', \A j \in Items : j # i => LineSame(j)
    PROVE  BooksInv'
<1>1. ASSUME NEW j \in Items PROVE ItemOK(j)'
  <2>1. CASE j = i
    BY <2>1
  <2>2. CASE j # i
    <3>1. ItemOK(j) /\ LineSame(j)
      BY <2>2, BooksByLine
    <3> QED BY <3>1 DEF ItemOK, LineSame
  <2> QED BY <2>1, <2>2
<1>2. RefundsAccounted'
  BY <1>1 DEF ItemOK, LineOK, RefundsAccounted, ItemRefunds, RefundClaims
<1>3. UnsoldIsEmpty' /\ BackExplained' /\ \A j \in Items : line'[j].refunded <= line'[j].quantity
  BY <1>1 DEF ItemOK, LineOK, UnsoldIsEmpty, BackExplained
<1> QED BY <1>2, <1>3 DEF BooksInv, BookTypes

LEMMA BooksFacts ==
    ASSUME BooksInv
    PROVE  /\ BookTypes /\ ClaimsStaged
           /\ \A i \in Items :
                /\ ItemOK(i) /\ line[i] \in LineType
                /\ ItemRefunds(i) \in Nat /\ back[i] \in Nat
                /\ Cardinality(RefundClaims(i)) \in Nat /\ Cardinality(Pending(i)) \in Nat
<1>1. BookTypes /\ ClaimsStaged /\ \A i \in Items : ItemOK(i)
  BY BooksByLine
<1> QED BY <1>1, ItemRefundsNat, ClaimSetsFinite DEF BookTypes

LEMMA BooksSame ==
    ASSUME BooksInv, UNCHANGED <<line, claim, refunds, back>>
    PROVE  BooksInv'
BY DEF BooksInv, UnsoldIsEmpty, ClaimsStaged, BackExplained, RefundsAccounted, ItemRefunds,
       Pending, RefundClaims

LEMMA RefundsSame ==
    ASSUME UNCHANGED refunds
    PROVE  \A j : ItemRefunds(j)' = ItemRefunds(j)
BY DEF ItemRefunds

LEMMA ClaimsSame ==
    ASSUME UNCHANGED claim
    PROVE  /\ \A j : Cardinality(RefundClaims(j))' = Cardinality(RefundClaims(j))
           /\ \A j : Cardinality(Pending(j))' = Cardinality(Pending(j))
           /\ Cardinality(Replacements)' = Cardinality(Replacements)
BY DEF RefundClaims, Pending, Replacements

\* A sale: the line was empty.
LEMMA BooksSell ==
    ASSUME BooksInv, NEW i \in Items, NEW q \in 1 .. MaxQty, line[i].status = "none",
           line' = [line EXCEPT ![i].status = "completed", ![i].quantity = q],
           UNCHANGED <<claim, refunds, back>>
    PROVE  BooksInv'
<1> DEFINE l == [line[i] EXCEPT !.status = "completed", !.quantity = q]
<1>1. BookTypes /\ ClaimsStaged /\ ItemOK(i) /\ line[i] \in LineType
  BY BooksFacts
<1>2. line' = [line EXCEPT ![i] = l]
  OBVIOUS
<1>3. /\ l \in LineType /\ l.quantity = q /\ l.refunded = line[i].refunded
      /\ l.reversed = line[i].reversed /\ l.status = "completed"
  <2>1. q \in 0 .. MaxQty
    BY IdsFinite
  <2> QED BY <1>1, <2>1 DEF LineType
<1> HIDE DEF l
<1>4. line'[i] = l /\ line' \in [Items -> LineType] /\ \A j \in Items : j # i => line'[j] = line[j]
  BY <1>1, <1>2, <1>3 DEF BookTypes
<1>5. ItemOK(i)'
  <2>1. q \in Nat /\ q > 0 /\ line[i].refunded \in Nat /\ line[i].quantity \in Nat
    BY <1>1, IdsFinite, LineFields DEF BookTypes
  <2> QED BY <1>1, <1>3, <1>4, <2>1, RefundsSame, ClaimsSame DEF ItemOK, LineOK
<1>6. BookTypes' /\ ClaimsStaged'
  BY <1>1, <1>4 DEF BookTypes, ClaimsStaged
<1> QED BY <1>4, <1>5, <1>6, RefundsSame, ClaimsSame, BooksFrom DEF LineSame

LEMMA LineRefunds ==
    ASSUME NEW l \in LineType, NEW m \in LineType, NEW n \in Nat, NEW bk \in Nat, NEW rc \in Nat,
           NEW pd \in Nat, NEW q \in Nat, LineOK(l, n, bk, rc, pd), q <= l.quantity - l.refunded,
           m.refunded = l.refunded + q, m.quantity = l.quantity, m.reversed = l.reversed,
           m.status # "none"
    PROVE  LineOK(m, n + q, bk + q, rc, pd)
<1>1. l.refunded \in Nat /\ l.quantity \in Nat
  <2>1. \A x \in 0 .. MaxQty : x \in Nat
    BY IdsFinite
  <2> QED BY <2>1 DEF LineType
<1>2. m.refunded <= m.quantity
  BY <1>1
<1>3. m.refunded = (n + q) + rc
  BY <1>1 DEF LineOK
<1>4. ~m.reversed => (bk + q) + pd <= m.refunded
  BY <1>1 DEF LineOK
<1>5. bk + q \in Nat /\ n + q <= bk + q
  BY DEF LineOK
<1> QED BY <1>2, <1>3, <1>4, <1>5 DEF LineOK

\* An item refund.
LEMMA BooksRefund ==
    ASSUME BooksInv, NEW i \in Items, NEW q \in 1 .. MaxQty, Refundable(i, q),
           refunds[i][q] < MaxRefunds, line' = Refunded(i, q),
           refunds' = [refunds EXCEPT ![i][q] = @ + 1],
           back' = [back EXCEPT ![i] = @ + q], UNCHANGED claim
    PROVE  BooksInv'
<1>1. /\ BookTypes /\ ClaimsStaged /\ ItemOK(i) /\ line[i] \in LineType
      /\ ItemRefunds(i) \in Nat /\ back[i] \in Nat
      /\ Cardinality(RefundClaims(i)) \in Nat /\ Cardinality(Pending(i)) \in Nat
  BY BooksFacts
<1>2. /\ line' \in [Items -> LineType]
      /\ \A j \in Items : j # i => line'[j] = line[j]
      /\ line'[i].refunded = line[i].refunded + q
      /\ line'[i].quantity = line[i].quantity
      /\ line'[i].reversed = line[i].reversed
      /\ line'[i].status \in {line[i].status, "refunded"}
  <2>1. q \in Nat
    BY IdsFinite
  <2> QED BY <1>1, <2>1, RefundedLine DEF BookTypes
<1>3. /\ refunds' \in [Items -> [1 .. MaxQty -> 0 .. MaxRefunds]]
      /\ ItemRefunds(i)' = ItemRefunds(i) + q
      /\ \A j \in Items : j # i => ItemRefunds(j)' = ItemRefunds(j)
  <2>1. refunds[i][q] \in 0 .. MaxRefunds
    BY <1>1 DEF BookTypes
  <2>2. refunds \in [Items -> [1 .. MaxQty -> 0 .. MaxRefunds]]
    BY <1>1 DEF BookTypes
  <2>3. refunds[i][q] + 1 \in 0 .. MaxRefunds
    <3>1. MaxRefunds \in Nat
      BY StockAssumption
    <3> QED BY <2>1, <3>1
  <2>4. q * 1 = q
    BY IdsFinite
  <2> QED BY <2>2, <2>3, <2>4, ItemRefundsMove
<1>4. /\ back' \in [Items -> Nat] /\ back'[i] = back[i] + q
      /\ \A j \in Items : j # i => back'[j] = back[j]
  <2>1. back \in [Items -> Nat] /\ back[i] + q \in Nat
    BY <1>1, IdsFinite DEF BookTypes
  <2> QED BY <2>1
<1>5. ItemOK(i)'
  <2>1. q \in Nat /\ line[i].refunded \in Nat /\ line[i].quantity \in Nat /\ line'[i] \in LineType
    BY <1>1, <1>2, IdsFinite, LineFields DEF BookTypes
  <2>2. q <= line[i].quantity - line[i].refunded /\ line[i].status # "none"
    BY DEF Refundable
  <2>3. LineOK(line[i], ItemRefunds(i), back[i], Cardinality(RefundClaims(i)), Cardinality(Pending(i)))
    BY <1>1 DEF ItemOK
  <2>4. line'[i].status # "none" /\ line[i] \in LineType
    BY <1>1, <1>2, <2>2
  <2>5. LineOK(line'[i], ItemRefunds(i) + q, back[i] + q, Cardinality(RefundClaims(i)), Cardinality(Pending(i)))
    BY <1>1, <1>2, <2>1, <2>2, <2>3, <2>4, LineRefunds
  <2>6. LineOK(line'[i], ItemRefunds(i)', back'[i], Cardinality(RefundClaims(i)), Cardinality(Pending(i)))
    BY <1>3, <1>4, <2>5
  <2> QED BY <2>6, ClaimsSame DEF ItemOK
<1>6. BookTypes' /\ ClaimsStaged'
  BY <1>1, <1>2, <1>3, <1>4 DEF BookTypes, ClaimsStaged
<1> QED BY <1>2, <1>3, <1>4, <1>5, <1>6, ClaimsSame, BooksFrom DEF LineSame

LEMMA LineUndone ==
    ASSUME NEW l \in LineType, NEW m \in LineType, NEW n \in Nat, NEW bk \in Nat, NEW rc \in Nat,
           NEW pd \in Nat, NEW q \in Nat, LineOK(l, n, bk, rc, pd), q <= n, q <= bk, q <= l.refunded,
           m.refunded = l.refunded - q, m.quantity = l.quantity, m.reversed = l.reversed,
           m.status = "none" => l.status = "none"
    PROVE  LineOK(m, n - q, bk - q, rc, pd)
<1>1. \A x \in 0 .. MaxQty : x \in Nat
  BY IdsFinite
<1>2. l.refunded \in Nat /\ l.quantity \in Nat /\ m.refunded \in Nat /\ m.quantity \in Nat
  BY <1>1 DEF LineType
<1>3. m.refunded <= m.quantity
  BY <1>2 DEF LineOK
<1>4. m.refunded = (n - q) + rc
  BY <1>2 DEF LineOK
<1>5. ~m.reversed => (bk - q) + pd <= m.refunded
  BY <1>2 DEF LineOK
<1>6. bk - q \in Nat /\ n - q <= bk - q
  BY DEF LineOK
<1> QED BY <1>3, <1>4, <1>5, <1>6 DEF LineOK

\* The undo of an item refund: the units it takes off the shelf are there.
LEMMA BooksUndo ==
    ASSUME BooksInv, NEW i \in Items, NEW q \in 1 .. MaxQty, refunds[i][q] > 0,
           line[i].refunded >= q, line' = Unrefunded(i, q),
           refunds' = [refunds EXCEPT ![i][q] = @ - 1],
           back' = [back EXCEPT ![i] = @ - q], UNCHANGED claim
    PROVE  BooksInv'
<1>1. /\ BookTypes /\ ClaimsStaged /\ ItemOK(i) /\ line[i] \in LineType
      /\ ItemRefunds(i) \in Nat /\ back[i] \in Nat
      /\ Cardinality(RefundClaims(i)) \in Nat /\ Cardinality(Pending(i)) \in Nat
  BY BooksFacts
<1>2. /\ line' \in [Items -> LineType]
      /\ \A j \in Items : j # i => line'[j] = line[j]
      /\ line'[i].refunded = line[i].refunded - q
      /\ line'[i].quantity = line[i].quantity
      /\ line'[i].reversed = line[i].reversed
      /\ line'[i].status = "none" => line[i].status = "none"
  <2>1. q \in Nat
    BY IdsFinite
  <2> QED BY <1>1, <2>1, UnrefundedLine DEF BookTypes
<1>3. /\ refunds' \in [Items -> [1 .. MaxQty -> 0 .. MaxRefunds]]
      /\ ItemRefunds(i)' = ItemRefunds(i) - q
      /\ \A j \in Items : j # i => ItemRefunds(j)' = ItemRefunds(j)
  <2>1. refunds[i][q] \in 0 .. MaxRefunds /\ refunds \in [Items -> [1 .. MaxQty -> 0 .. MaxRefunds]]
    BY <1>1 DEF BookTypes
  <2>2. refunds[i][q] + (-1) \in 0 .. MaxRefunds /\ refunds[i][q] - 1 = refunds[i][q] + (-1)
    BY <2>1, StockAssumption
  <2>3. refunds' = [refunds EXCEPT ![i][q] = @ + (-1)]
    BY <2>1, <2>2
  <2>4. ItemRefunds(i)' = ItemRefunds(i) + q * (-1)
    BY <2>1, <2>2, <2>3, ItemRefundsMove
  <2>5. ItemRefunds(i) + q * (-1) = ItemRefunds(i) - q
    BY <1>1, IdsFinite
  <2> QED BY <2>1, <2>2, <2>3, <2>4, <2>5, ItemRefundsMove
<1>4. q <= ItemRefunds(i) /\ q \in Nat
  <2>1. refunds \in [Items -> [1 .. MaxQty -> 0 .. MaxRefunds]]
    BY <1>1 DEF BookTypes
  <2>2. q <= ItemRefunds(i)
    BY <2>1, ItemRefundsNat
  <2>3. q \in Nat
    BY IdsFinite
  <2> QED BY <2>2, <2>3
<1>5. q <= back[i]
  BY <1>1, <1>4 DEF ItemOK, LineOK
<1>6. /\ back' \in [Items -> Nat] /\ back'[i] = back[i] - q
      /\ \A j \in Items : j # i => back'[j] = back[j]
  <2>1. back \in [Items -> Nat] /\ back[i] - q \in Nat
    BY <1>1, <1>4, <1>5 DEF BookTypes
  <2> QED BY <2>1
<1>7. ItemOK(i)'
  <2>1. line[i].refunded \in Nat /\ line[i].quantity \in Nat /\ line'[i] \in LineType
    BY <1>1, <1>2, LineFields DEF BookTypes
  <2>2. LineOK(line[i], ItemRefunds(i), back[i], Cardinality(RefundClaims(i)), Cardinality(Pending(i)))
    BY <1>1 DEF ItemOK
  <2>3. LineOK(line'[i], ItemRefunds(i) - q, back[i] - q, Cardinality(RefundClaims(i)), Cardinality(Pending(i)))
    BY <1>1, <1>2, <1>4, <1>5, <2>1, <2>2, LineUndone
  <2> QED BY <1>3, <1>6, <2>3, ClaimsSame DEF ItemOK
<1>8. BookTypes' /\ ClaimsStaged'
  BY <1>1, <1>2, <1>3, <1>6 DEF BookTypes, ClaimsStaged
<1> QED BY <1>2, <1>3, <1>6, <1>7, <1>8, ClaimsSame, BooksFrom DEF LineSame

\* The line of a sale that is voided or refunded as a whole.
ReversedLine(i, s) == [line EXCEPT ![i].status = s, ![i].reversed = TRUE]

LEMMA ReversedLineFacts ==
    ASSUME line \in [Items -> LineType], NEW i \in Items, NEW s \in {"cancelled", "refunded"}
    PROVE  /\ ReversedLine(i, s) \in [Items -> LineType]
           /\ \A j \in Items : j # i => ReversedLine(i, s)[j] = line[j]
           /\ ReversedLine(i, s)[i].refunded = line[i].refunded
           /\ ReversedLine(i, s)[i].quantity = line[i].quantity
           /\ ReversedLine(i, s)[i].reversed
           /\ ReversedLine(i, s)[i].status = s
<1> DEFINE l == [line[i] EXCEPT !.status = s, !.reversed = TRUE]
<1>1. ReversedLine(i, s) = [line EXCEPT ![i] = l]
  BY DEF ReversedLine
<1>2. /\ l \in LineType /\ l.refunded = line[i].refunded /\ l.quantity = line[i].quantity
      /\ l.reversed /\ l.status = s
  BY LineFields DEF LineType
<1> HIDE DEF l
<1> QED BY <1>1, <1>2, Update

\* The void or refund of the whole sale.
LEMMA BooksReverse ==
    ASSUME BooksInv, NEW i \in Items, NEW s \in {"cancelled", "refunded"},
           line' = ReversedLine(i, s),
           back' = [back EXCEPT ![i] = @ + line[i].quantity],
           UNCHANGED <<claim, refunds>>
    PROVE  BooksInv'
<1>1. /\ BookTypes /\ ClaimsStaged /\ ItemOK(i) /\ line[i] \in LineType
      /\ ItemRefunds(i) \in Nat /\ back[i] \in Nat
  BY BooksFacts
<1>2. /\ line' \in [Items -> LineType]
      /\ \A j \in Items : j # i => line'[j] = line[j]
      /\ line'[i].refunded = line[i].refunded /\ line'[i].quantity = line[i].quantity
      /\ line'[i].reversed /\ line'[i].status = s
  BY <1>1, ReversedLineFacts DEF BookTypes
<1>3. line[i].quantity \in Nat /\ line'[i] \in LineType
  BY <1>1, <1>2, LineFields DEF BookTypes
<1>4. /\ back' \in [Items -> Nat] /\ back'[i] = back[i] + line[i].quantity
      /\ \A j \in Items : j # i => back'[j] = back[j]
  BY <1>1, <1>3 DEF BookTypes
<1>5. ItemOK(i)'
  <2>1. LineOK(line[i], ItemRefunds(i), back[i], Cardinality(RefundClaims(i)), Cardinality(Pending(i)))
    BY <1>1 DEF ItemOK
  <2>2. LineOK(line'[i], ItemRefunds(i), back'[i], Cardinality(RefundClaims(i)), Cardinality(Pending(i)))
    BY <1>1, <1>2, <1>3, <1>4, <2>1 DEF LineOK
  <2> QED BY <2>2, RefundsSame, ClaimsSame DEF ItemOK
<1>6. BookTypes' /\ ClaimsStaged'
  BY <1>1, <1>2, <1>4 DEF BookTypes, ClaimsStaged
<1> QED BY <1>2, <1>4, <1>5, <1>6, RefundsSame, ClaimsSame, BooksFrom DEF LineSame

\* A claim moves on while its unit stays away from the shelf of its line.
LEMMA BooksStage ==
    ASSUME BooksInv, NEW c \in Claims, NEW k \in ClaimType, Staged(k),
           k.item = claim[c].item, k.status = claim[c].status, k.action = claim[c].action,
           Away(claim[c]), Away(k), claim' = [claim EXCEPT ![c] = k],
           UNCHANGED <<line, refunds, back>>
    PROVE  BooksInv'
<1>1. BookTypes /\ ClaimsStaged
  BY BooksFacts
<1>2. /\ claim' \in [Claims -> ClaimType] /\ claim'[c] = k
      /\ \A d \in Claims : d # c => claim'[d] = claim[d]
  <2>1. claim \in [Claims -> ClaimType]
    BY <1>1 DEF BookTypes
  <2> QED BY <2>1, Update
<1>3. BookTypes' /\ ClaimsStaged'
  BY <1>1, <1>2 DEF BookTypes, ClaimsStaged
<1>4. ASSUME NEW j \in Items PROVE LineSame(j)
  <2>1. RefundOf(claim[c], j) <=> RefundOf(k, j)
    BY DEF RefundOf
  <2>2. /\ Cardinality(RefundClaims(j))' = Cardinality(RefundClaims(j))
                - One(RefundOf(claim[c], j)) + One(RefundOf(k, j))
        /\ Cardinality(Pending(j))' = Cardinality(Pending(j))
                - One(RefundOf(claim[c], j) /\ Away(claim[c])) + One(RefundOf(k, j) /\ Away(k))
    BY <1>2, ClaimMove
  <2>3. Cardinality(RefundClaims(j)) \in Nat /\ Cardinality(Pending(j)) \in Nat
    BY ClaimSetsFinite
  <2>4. /\ Cardinality(RefundClaims(j))' = Cardinality(RefundClaims(j))
        /\ Cardinality(Pending(j))' = Cardinality(Pending(j))
    BY <2>1, <2>2, <2>3 DEF One
  <2> QED BY <2>4, RefundsSame DEF LineSame
<1>5. ASSUME NEW j \in Items PROVE ItemOK(j)'
  <2>1. ItemOK(j) /\ LineSame(j)
    BY <1>4, BooksFacts
  <2> QED BY <2>1 DEF ItemOK, LineSame
<1>6. \A j \in Items : j # Loss => LineSame(j)
  BY <1>4
<1> QED BY <1>3, <1>5, <1>6, BooksFrom

\* The record of a new claim.
NewClaim(i, action) == [status |-> "DONE", action |-> action, item |-> i, held |-> "HELD",
                        return |-> "none", batch |-> 0]

LEMMA NewClaimFacts ==
    ASSUME NEW i \in Items, NEW action \in {"REFUND", "REPLACE"}
    PROVE  /\ NewClaim(i, action) \in ClaimType /\ Staged(NewClaim(i, action))
           /\ NewClaim(i, action).item = i /\ NewClaim(i, action).status = "DONE"
           /\ NewClaim(i, action).action = action /\ NewClaim(i, action).held = "HELD"
           /\ NewClaim(i, action).return = "none" /\ Away(NewClaim(i, action))
<1> DEFINE k == NewClaim(i, action)
<1>1. k = [status |-> "DONE", action |-> action, item |-> i, held |-> "HELD",
           return |-> "none", batch |-> 0]
  BY DEF NewClaim
<1>2. 0 \in 0 .. MaxBatches
  BY IdsFinite
<1>3. k \in ClaimType
  BY <1>1, <1>2 DEF ClaimType
<1>4. /\ k.item = i /\ k.status = "DONE" /\ k.action = action /\ k.held = "HELD"
      /\ k.return = "none"
  BY <1>1
<1> HIDE DEF k
<1>5. Staged(k) /\ Away(k)
  BY <1>4 DEF Staged, Away
<1> QED BY <1>3, <1>4, <1>5 DEF k

\* A refund claim refunds one unit.
LEMMA BooksClaimRefund ==
    ASSUME BooksInv, NEW c \in Claims, NEW i \in Items, claim[c].status = "none",
           Refundable(i, 1), line' = Refunded(i, 1),
           claim' = Claimed(c, i, "REFUND"), UNCHANGED <<refunds, back>>
    PROVE  BooksInv'
<1> DEFINE k == NewClaim(i, "REFUND")
<1>1. /\ BookTypes /\ ClaimsStaged /\ ItemOK(i) /\ line[i] \in LineType
      /\ ItemRefunds(i) \in Nat /\ back[i] \in Nat
      /\ Cardinality(RefundClaims(i)) \in Nat /\ Cardinality(Pending(i)) \in Nat
  BY BooksFacts
<1>2. /\ k \in ClaimType /\ Staged(k) /\ k.item = i /\ k.status = "DONE" /\ k.action = "REFUND"
      /\ Away(k)
  BY NewClaimFacts
<1>3. claim' = [claim EXCEPT ![c] = k]
  BY DEF Claimed, NewClaim
<1> HIDE DEF k
<1>4. /\ claim' \in [Claims -> ClaimType] /\ claim'[c] = k
      /\ \A d \in Claims : d # c => claim'[d] = claim[d]
  <2>1. claim \in [Claims -> ClaimType]
    BY <1>1 DEF BookTypes
  <2> QED BY <2>1, <1>2, <1>3, Update
<1>5. \A j : ~RefundOf(claim[c], j) /\ (RefundOf(k, j) <=> j = i)
  BY <1>2 DEF RefundOf
<1>6. \A j : /\ Cardinality(RefundClaims(j))' = Cardinality(RefundClaims(j)) + One(j = i)
             /\ Cardinality(Pending(j))' = Cardinality(Pending(j)) + One(j = i)
  <2> TAKE j
  <2>1. /\ Cardinality(RefundClaims(j))' = Cardinality(RefundClaims(j))
                - One(RefundOf(claim[c], j)) + One(RefundOf(k, j))
        /\ Cardinality(Pending(j))' = Cardinality(Pending(j))
                - One(RefundOf(claim[c], j) /\ Away(claim[c])) + One(RefundOf(k, j) /\ Away(k))
    BY <1>4, ClaimMove
  <2>2. Cardinality(RefundClaims(j)) \in Nat /\ Cardinality(Pending(j)) \in Nat
    BY ClaimSetsFinite
  <2> QED BY <2>1, <2>2, <1>2, <1>5 DEF One
<1>7. /\ line' \in [Items -> LineType]
      /\ \A j \in Items : j # i => line'[j] = line[j]
      /\ line'[i].refunded = line[i].refunded + 1
      /\ line'[i].quantity = line[i].quantity
      /\ line'[i].reversed = line[i].reversed
      /\ line'[i].status \in {line[i].status, "refunded"}
  <2>1. 1 \in Nat
    OBVIOUS
  <2> QED BY <1>1, <2>1, RefundedLine DEF BookTypes
<1>8. ItemOK(i)'
  <2>1. line[i].refunded \in Nat /\ line[i].quantity \in Nat /\ line'[i] \in LineType
    BY <1>1, <1>7, LineFields DEF BookTypes
  <2>2. 1 <= line[i].quantity - line[i].refunded /\ line[i].status # "none"
    BY DEF Refundable
  <2>3. LineOK(line[i], ItemRefunds(i), back[i], Cardinality(RefundClaims(i)), Cardinality(Pending(i)))
    BY <1>1 DEF ItemOK
  <2>4. LineOK(line'[i], ItemRefunds(i), back[i], Cardinality(RefundClaims(i)) + 1, Cardinality(Pending(i)) + 1)
    BY <1>1, <1>7, <2>1, <2>2, <2>3 DEF LineOK
  <2>5. /\ Cardinality(RefundClaims(i))' = Cardinality(RefundClaims(i)) + 1
        /\ Cardinality(Pending(i))' = Cardinality(Pending(i)) + 1
    BY <1>6 DEF One
  <2> QED BY <2>4, <2>5, RefundsSame DEF ItemOK
<1>9. BookTypes' /\ ClaimsStaged'
  BY <1>1, <1>2, <1>4, <1>7 DEF BookTypes, ClaimsStaged
<1>10. ASSUME NEW j \in Items, j # i PROVE LineSame(j)
  <2>1. Cardinality(RefundClaims(j)) \in Nat /\ Cardinality(Pending(j)) \in Nat
    BY ClaimSetsFinite
  <2>2. /\ Cardinality(RefundClaims(j))' = Cardinality(RefundClaims(j))
        /\ Cardinality(Pending(j))' = Cardinality(Pending(j))
    BY <1>6, <1>10, <2>1 DEF One
  <2> QED BY <1>7, <1>10, <2>2, RefundsSame DEF LineSame
<1> QED BY <1>8, <1>9, <1>10, BooksFrom

\* A claim that refunds nothing, before the step or after it.
LEMMA BooksNoRefund ==
    ASSUME BooksInv, NEW c \in Claims, NEW k \in ClaimType, Staged(k),
           \A i : ~RefundOf(claim[c], i) /\ ~RefundOf(k, i), claim' = [claim EXCEPT ![c] = k],
           UNCHANGED <<line, refunds, back>>
    PROVE  BooksInv'
<1>1. BookTypes /\ ClaimsStaged
  BY BooksFacts
<1>2. /\ claim' \in [Claims -> ClaimType] /\ claim'[c] = k
      /\ \A d \in Claims : d # c => claim'[d] = claim[d]
  <2>1. claim \in [Claims -> ClaimType]
    BY <1>1 DEF BookTypes
  <2> QED BY <2>1, Update
<1>3. BookTypes' /\ ClaimsStaged'
  BY <1>1, <1>2 DEF BookTypes, ClaimsStaged
<1>4. ASSUME NEW j \in Items PROVE LineSame(j)
  <2>1. /\ Cardinality(RefundClaims(j))' = Cardinality(RefundClaims(j))
                - One(RefundOf(claim[c], j)) + One(RefundOf(k, j))
        /\ Cardinality(Pending(j))' = Cardinality(Pending(j))
                - One(RefundOf(claim[c], j) /\ Away(claim[c])) + One(RefundOf(k, j) /\ Away(k))
    BY <1>2, ClaimMove
  <2>2. Cardinality(RefundClaims(j)) \in Nat /\ Cardinality(Pending(j)) \in Nat
    BY ClaimSetsFinite
  <2>3. /\ Cardinality(RefundClaims(j))' = Cardinality(RefundClaims(j))
        /\ Cardinality(Pending(j))' = Cardinality(Pending(j))
    BY <2>1, <2>2 DEF One
  <2> QED BY <2>3, RefundsSame DEF LineSame
<1>5. ASSUME NEW j \in Items PROVE ItemOK(j)'
  <2>1. ItemOK(j) /\ LineSame(j)
    BY <1>4, BooksFacts
  <2> QED BY <2>1 DEF ItemOK, LineSame
<1>6. \A j \in Items : j # Loss => LineSame(j)
  BY <1>4
<1> QED BY <1>3, <1>5, <1>6, BooksFrom

\* A refund claim's unit was not faulty and is back in stock.
LEMMA BooksNotFaulty ==
    ASSUME BooksInv, NEW c \in Claims, NEW i, claim[c].item = i, claim[c].held = "HELD",
           claim[c].action = "REFUND",
           claim' = [claim EXCEPT ![c].held = "RETURNED_TO_STOCK"],
           back' = [back EXCEPT ![i] = @ + 1], UNCHANGED <<line, refunds>>
    PROVE  /\ BooksInv' /\ i \in Items
           /\ line[i].reversed \/ back[i] < line[i].refunded
<1> DEFINE k == [claim[c] EXCEPT !.held = "RETURNED_TO_STOCK"]
<1>1. BookTypes /\ ClaimsStaged
  BY BooksFacts
<1>2. claim[c] \in ClaimType /\ Staged(claim[c])
  BY <1>1, ClaimFields DEF BookTypes, ClaimsStaged
<1>3. claim[c].status = "DONE" /\ i \in Items /\ claim[c].return # "REPLACED"
      /\ claim[c].return \notin {"SENT", "CREDITED"}
  BY <1>2 DEF Staged
<1>4. /\ ItemOK(i) /\ line[i] \in LineType
      /\ ItemRefunds(i) \in Nat /\ back[i] \in Nat
      /\ Cardinality(RefundClaims(i)) \in Nat /\ Cardinality(Pending(i)) \in Nat
  BY <1>3, BooksFacts
<1>5. /\ k \in ClaimType /\ k.held = "RETURNED_TO_STOCK" /\ k.status = "DONE"
      /\ k.action = "REFUND" /\ k.item = i /\ k.return = claim[c].return
  BY <1>2, <1>3 DEF ClaimType
<1>6. claim' = [claim EXCEPT ![c] = k]
  OBVIOUS
<1> HIDE DEF k
<1>7. Staged(k) /\ ~Away(k) /\ Away(claim[c])
  BY <1>2, <1>3, <1>5 DEF Staged, Away
<1>8. /\ claim' \in [Claims -> ClaimType] /\ claim'[c] = k
      /\ \A d \in Claims : d # c => claim'[d] = claim[d]
  <2>1. claim \in [Claims -> ClaimType] /\ k \in ClaimType
    BY <1>1, <1>5 DEF BookTypes
  <2> QED BY ONLY <2>1, <1>6, c \in Claims, Update
<1>9. \A j : (RefundOf(claim[c], j) <=> j = i) /\ (RefundOf(k, j) <=> j = i)
  BY <1>3, <1>5 DEF RefundOf
<1>10. \A j : /\ Cardinality(RefundClaims(j))' = Cardinality(RefundClaims(j))
              /\ Cardinality(Pending(j))' = Cardinality(Pending(j)) - One(j = i)
  <2> TAKE j
  <2>1. /\ Cardinality(RefundClaims(j))' = Cardinality(RefundClaims(j))
                - One(RefundOf(claim[c], j)) + One(RefundOf(k, j))
        /\ Cardinality(Pending(j))' = Cardinality(Pending(j))
                - One(RefundOf(claim[c], j) /\ Away(claim[c])) + One(RefundOf(k, j) /\ Away(k))
    BY <1>8, ClaimMove
  <2>2. Cardinality(RefundClaims(j)) \in Nat /\ Cardinality(Pending(j)) \in Nat
    BY ClaimSetsFinite
  <2> QED BY <2>1, <2>2, <1>7, <1>9 DEF One
<1>11. Cardinality(Pending(i))' = Cardinality(Pending(i)) - 1 /\ Cardinality(Pending(i))' \in Nat
  <2>1. Cardinality(Pending(i))' \in Nat
    <3>1. IsFiniteSet(Pending(i)')
      BY OwnersFinite, FS_Subset DEF Pending, RefundClaims
    <3> QED BY <3>1, FS_CardinalityType
  <2> QED BY <2>1, <1>10 DEF One
<1>12. /\ back' \in [Items -> Nat] /\ back'[i] = back[i] + 1
       /\ \A j \in Items : j # i => back'[j] = back[j]
  BY <1>1, <1>3, <1>4 DEF BookTypes
<1>13. LineOK(line[i], ItemRefunds(i), back[i], Cardinality(RefundClaims(i)), Cardinality(Pending(i)))
  BY <1>4 DEF ItemOK
<1>14. ItemOK(i)'
  <2>1. line[i].refunded \in Nat
    BY <1>1, <1>3, LineFields DEF BookTypes
  <2>2. LineOK(line[i], ItemRefunds(i), back[i] + 1, Cardinality(RefundClaims(i)), Cardinality(Pending(i)) - 1)
    BY <1>4, <1>11, <1>13, <2>1 DEF LineOK
  <2> QED BY <2>2, <1>10, <1>11, <1>12, RefundsSame DEF ItemOK
<1>15. BookTypes' /\ ClaimsStaged'
  BY <1>1, <1>7, <1>8, <1>12 DEF BookTypes, ClaimsStaged
<1>16. ASSUME NEW j \in Items, j # i PROVE LineSame(j)
  <2>1. Cardinality(Pending(j)) \in Nat
    BY ClaimSetsFinite
  <2>2. /\ Cardinality(RefundClaims(j))' = Cardinality(RefundClaims(j))
        /\ Cardinality(Pending(j))' = Cardinality(Pending(j))
    BY <1>10, <1>16, <2>1 DEF One
  <2> QED BY <1>12, <1>16, <2>2, RefundsSame DEF LineSame
<1>17. BooksInv'
  BY <1>14, <1>15, <1>16, BooksFrom
<1>18. line[i].reversed \/ back[i] < line[i].refunded
  <2>1. line[i].refunded \in Nat
    BY <1>1, <1>3, LineFields DEF BookTypes
  <2>2. 1 <= Cardinality(Pending(i))
    BY <1>4, <1>11
  <2> QED BY <1>4, <1>13, <2>1, <2>2 DEF LineOK
<1> QED BY <1>3, <1>17, <1>18

\* The record of a voided claim.
VoidedClaim(k) == [k EXCEPT !.status = "VOIDED", !.held = "none", !.return = "none", !.batch = 0]

LEMMA VoidedClaimFacts ==
    ASSUME claim \in [Claims -> ClaimType], NEW c \in Claims
    PROVE  /\ Voided(c) = [claim EXCEPT ![c] = VoidedClaim(claim[c])]
           /\ VoidedClaim(claim[c]) \in ClaimType
           /\ VoidedClaim(claim[c]).status = "VOIDED"
           /\ VoidedClaim(claim[c]).held = "none" /\ VoidedClaim(claim[c]).return = "none"
           /\ Staged(VoidedClaim(claim[c]))
<1> DEFINE k == VoidedClaim(claim[c])
<1>1. Voided(c) = [claim EXCEPT ![c] = k]
  BY DEF Voided, VoidedClaim
<1>2. claim[c] \in ClaimType /\ 0 \in 0 .. MaxBatches
  BY ClaimFields, IdsFinite
<1>3. k \in ClaimType /\ k.status = "VOIDED" /\ k.held = "none" /\ k.return = "none"
  BY <1>2 DEF ClaimType, VoidedClaim
<1> HIDE DEF k
<1>4. Staged(k)
  BY <1>3 DEF Staged
<1> QED BY <1>1, <1>3, <1>4 DEF k

\* A refund claim is voided.
LEMMA BooksVoidRefund ==
    ASSUME BooksInv, NEW c \in Claims, NEW i, claim[c].item = i, claim[c].status = "DONE",
           claim[c].action = "REFUND", Away(claim[c]), line[i].refunded >= 1,
           line' = Unrefunded(i, 1), claim' = Voided(c), UNCHANGED <<refunds, back>>
    PROVE  BooksInv'
<1> DEFINE k == VoidedClaim(claim[c])
<1>1. BookTypes /\ ClaimsStaged
  BY BooksFacts
<1>2. i \in Items
  BY <1>1 DEF ClaimsStaged, Staged
<1>3. /\ ItemOK(i) /\ line[i] \in LineType
      /\ ItemRefunds(i) \in Nat /\ back[i] \in Nat
      /\ Cardinality(RefundClaims(i)) \in Nat /\ Cardinality(Pending(i)) \in Nat
  BY <1>2, BooksFacts
<1>4. k \in ClaimType /\ k.status = "VOIDED" /\ Staged(k) /\ claim' = [claim EXCEPT ![c] = k]
  BY <1>1, VoidedClaimFacts DEF BookTypes
<1> HIDE DEF k
<1>5. /\ claim' \in [Claims -> ClaimType] /\ claim'[c] = k
      /\ \A d \in Claims : d # c => claim'[d] = claim[d]
  <2>1. claim \in [Claims -> ClaimType]
    BY <1>1 DEF BookTypes
  <2> QED BY <2>1, <1>4, Update
<1>6. \A j : (RefundOf(claim[c], j) <=> j = i) /\ ~RefundOf(k, j)
  BY <1>4 DEF RefundOf
<1>7. \A j : /\ Cardinality(RefundClaims(j))' = Cardinality(RefundClaims(j)) - One(j = i)
             /\ Cardinality(Pending(j))' = Cardinality(Pending(j)) - One(j = i)
  <2> TAKE j
  <2>1. /\ Cardinality(RefundClaims(j))' = Cardinality(RefundClaims(j))
                - One(RefundOf(claim[c], j)) + One(RefundOf(k, j))
        /\ Cardinality(Pending(j))' = Cardinality(Pending(j))
                - One(RefundOf(claim[c], j) /\ Away(claim[c])) + One(RefundOf(k, j) /\ Away(k))
    BY <1>5, ClaimMove
  <2>2. Cardinality(RefundClaims(j)) \in Nat /\ Cardinality(Pending(j)) \in Nat
    BY ClaimSetsFinite
  <2> QED BY <2>1, <2>2, <1>6 DEF One
<1>8. /\ line' \in [Items -> LineType]
      /\ \A j \in Items : j # i => line'[j] = line[j]
      /\ line'[i].refunded = line[i].refunded - 1
      /\ line'[i].quantity = line[i].quantity
      /\ line'[i].reversed = line[i].reversed
      /\ line'[i].status = "none" => line[i].status = "none"
  <2>1. 1 \in Nat
    OBVIOUS
  <2> QED BY <1>1, <1>2, <2>1, UnrefundedLine DEF BookTypes
<1>9. ItemOK(i)'
  <2>1. line[i].refunded \in Nat /\ line[i].quantity \in Nat /\ line'[i] \in LineType
    BY <1>1, <1>2, <1>8, LineFields DEF BookTypes
  <2>2. LineOK(line[i], ItemRefunds(i), back[i], Cardinality(RefundClaims(i)), Cardinality(Pending(i)))
    BY <1>3 DEF ItemOK
  <2>3. LineOK(line'[i], ItemRefunds(i), back[i], Cardinality(RefundClaims(i)) - 1, Cardinality(Pending(i)) - 1)
    BY <1>3, <1>8, <2>1, <2>2 DEF LineOK
  <2>4. /\ Cardinality(RefundClaims(i))' = Cardinality(RefundClaims(i)) - 1
        /\ Cardinality(Pending(i))' = Cardinality(Pending(i)) - 1
    BY <1>7 DEF One
  <2> QED BY <2>3, <2>4, RefundsSame DEF ItemOK
<1>10. BookTypes' /\ ClaimsStaged'
  BY <1>1, <1>4, <1>5, <1>8 DEF BookTypes, ClaimsStaged
<1>11. ASSUME NEW j \in Items, j # i PROVE LineSame(j)
  <2>1. Cardinality(RefundClaims(j)) \in Nat /\ Cardinality(Pending(j)) \in Nat
    BY ClaimSetsFinite
  <2>2. /\ Cardinality(RefundClaims(j))' = Cardinality(RefundClaims(j))
        /\ Cardinality(Pending(j))' = Cardinality(Pending(j))
    BY <1>7, <1>11, <2>1 DEF One
  <2> QED BY <1>8, <1>11, <2>2, RefundsSame DEF LineSame
<1> QED BY <1>9, <1>10, <1>11, BooksFrom

-----------------------------------------------------------------------------
(* The walks                                                               *)

LEMMA RemainingNat ==
    ASSUME batches \in [Ids -> BatchType], NEW B \in SUBSET Ids
    PROVE  Remaining(B) \in Nat
<1> DEFINE r == [b \in Ids |-> batches[b].remaining]
<1>1. r \in [Ids -> Nat]
  BY BatchFields
<1> HIDE DEF r
<1>2. SumFunctionOnSet(r, B) \in Nat
  BY <1>1, IdsFinite, SumNat
<1> QED BY <1>2 DEF Remaining, r

LEMMA DrawnNat ==
    ASSUME rows \in [Owners -> [Ids -> RowType]], NEW o \in Owners, NEW B \in SUBSET Ids
    PROVE  Drawn(o, B) \in Nat
<1> DEFINE r == [b \in Ids |-> rows[o][b].quantity]
<1>1. r \in [Ids -> Nat]
  BY RowFields
<1> HIDE DEF r
<1>2. SumFunctionOnSet(r, B) \in Nat
  BY <1>1, IdsFinite, SumNat
<1> QED BY <1>2 DEF Drawn, r

\* consume: no batch is overdrawn, and q units are drawn or all there are.
LEMMA TakeFacts ==
    ASSUME batches \in [Ids -> BatchType], NEW q \in Nat
    PROVE  /\ Take(q) \in [Ids -> Nat]
           /\ \A b \in Ids : Take(q)[b] <= batches[b].remaining
           /\ SumFunctionOnSet(Take(q), Ids) = Smaller(q, Remaining(Ids))
<1> DEFINE t == Take(q)
           x == [b \in Ids |-> batches[b].remaining]
           B == [b \in Ids |-> {a \in Ids : a < b}]
<1>1. \A b \in Ids : t[b] = Share(q, Remaining({a \in Ids : a < b}), batches[b].remaining)
  BY DEF Take
<1>2. \A b \in Ids : /\ batches[b].remaining \in Nat
                     /\ Remaining({a \in Ids : a < b}) \in Nat
  <2> TAKE b \in Ids
  <2>1. {a \in Ids : a < b} \in SUBSET Ids
    OBVIOUS
  <2> QED BY <2>1, BatchFields, RemainingNat
<1>3. \A b \in Ids : /\ t[b] = WalkTakes(q, Remaining({a \in Ids : a < b}), batches[b].remaining)
                     /\ t[b] \in Nat /\ t[b] <= batches[b].remaining
  <2> TAKE b \in Ids
  <2> DEFINE e == Remaining({a \in Ids : a < b})
             m == batches[b].remaining
  <2>1. e \in Nat /\ m \in Nat /\ t[b] = Share(q, e, m)
    BY <1>1, <1>2
  <2> HIDE DEF e, m, t
  <2>2. t[b] = WalkTakes(q, e, m) /\ t[b] \in Nat /\ t[b] <= m
    BY <2>1, ShareIs
  <2> QED BY <2>2 DEF e, m
<1>4. t \in [Ids -> Nat]
  <2>1. t = [b \in Ids |-> t[b]]
    BY DEF Take
  <2> QED BY <2>1, <1>3
<1>5. x \in [Ids -> Nat] /\ \A b \in Ids : x[b] = batches[b].remaining /\ B[b] = {a \in Ids : a < b}
  BY <1>2
<1>6. \A S : Remaining(S) = SumFunctionOnSet(x, S)
  BY DEF Remaining
<1>7. Queue(Ids, B)
  BY BatchQueues, IdsFinite
<1> HIDE DEF t, x, B
<1>8. \A b \in Ids : t[b] = WalkTakes(q, SumFunctionOnSet(x, B[b]), x[b])
  BY <1>3, <1>5, <1>6
<1>9. SumFunctionOnSet(t, Ids) = Smaller(q, SumFunctionOnSet(x, Ids))
  <2>1. x \in [Ids -> Nat] /\ IsFiniteSet(Ids)
    BY <1>5, IdsFinite
  <2> QED BY <2>1, <1>4, <1>7, <1>8, WalkSum
<1> QED BY <1>3, <1>4, <1>6, <1>9 DEF t

\* _restoreConsumptions gives back from active rows, never more than they hold.
LEMMA GiveFacts ==
    ASSUME rows \in [Owners -> [Ids -> RowType]], NEW o \in Owners, NEW q \in Nat
    PROVE  /\ Give(o, q) \in [Ids -> Nat]
           /\ \A b \in Ids : /\ Give(o, q)[b] <= LiveOf(rows[o][b])
                             /\ Give(o, q)[b] <= rows[o][b].quantity
           /\ SumFunctionOnSet(Give(o, q), Ids) = Smaller(q, Drawn(o, Active(o)))
<1> DEFINE t == Give(o, q)
           S == Active(o)
           x == [b \in Ids |-> rows[o][b].quantity]
           B == [b \in S |-> {a \in S : a > b}]
<1>0. S \in SUBSET Ids
  BY DEF Active
<1>1. \A b \in Ids : t[b] = IF b \in S THEN Share(q, Drawn(o, {a \in S : a > b}), rows[o][b].quantity) ELSE 0
  BY DEF Give
<1>2. \A b \in Ids : /\ rows[o][b].quantity \in Nat
                     /\ Drawn(o, {a \in S : a > b}) \in Nat
  <2> TAKE b \in Ids
  <2>1. {a \in S : a > b} \in SUBSET Ids
    BY <1>0
  <2> HIDE DEF S
  <2> QED BY <2>1, RowFields, DrawnNat
<1>3. \A b \in Ids : b \in S => LiveOf(rows[o][b]) = rows[o][b].quantity
  BY DEF Active, LiveOf
<1> HIDE DEF S
<1>4. ASSUME NEW b \in Ids
      PROVE  /\ t[b] = IF b \in S THEN WalkTakes(q, Drawn(o, {a \in S : a > b}), rows[o][b].quantity) ELSE 0
             /\ t[b] \in Nat /\ t[b] <= LiveOf(rows[o][b]) /\ t[b] <= rows[o][b].quantity
  <2> DEFINE e == Drawn(o, {a \in S : a > b})
             m == rows[o][b].quantity
             v == LiveOf(rows[o][b])
  <2>1. e \in Nat /\ m \in Nat /\ v \in Nat /\ t[b] = IF b \in S THEN Share(q, e, m) ELSE 0
    BY <1>1, <1>2, RowFields
  <2>2. b \in S => v = m
    BY <1>3
  <2> HIDE DEF e, m, v, t
  <2>3. Share(q, e, m) = WalkTakes(q, e, m) /\ Share(q, e, m) \in Nat /\ Share(q, e, m) <= m
    BY <2>1, ShareIs
  <2>4. t[b] = (IF b \in S THEN WalkTakes(q, e, m) ELSE 0) /\ t[b] \in Nat /\ t[b] <= v /\ t[b] <= m
    BY <2>1, <2>2, <2>3
  <2> QED BY <2>4 DEF e, m, v
<1>5. t \in [Ids -> Nat]
  <2>1. t = [b \in Ids |-> t[b]]
    BY DEF Give
  <2> QED BY <2>1, <1>4
<1>6. /\ x \in [Ids -> Nat] /\ \A b \in Ids : x[b] = rows[o][b].quantity
      /\ \A b \in S : B[b] = {a \in S : a > b}
  BY <1>2
<1>7. \A R : Drawn(o, R) = SumFunctionOnSet(x, R)
  BY DEF Drawn
<1>8. Queue(S, B)
  BY <1>0, BatchQueues
<1> HIDE DEF t, x, B
<1>9. \A b \in S : t[b] = WalkTakes(q, SumFunctionOnSet(x, B[b]), x[b])
  BY <1>0, <1>4, <1>6, <1>7
<1>10. \A b \in Ids : b \notin S => t[b] = 0
  BY <1>4
<1>11. SumFunctionOnSet(t, Ids) = Smaller(q, SumFunctionOnSet(x, S))
  <2>1. x \in [Ids -> Nat] /\ IsFiniteSet(Ids)
    BY <1>6, IdsFinite
  <2> QED BY <2>1, <1>0, <1>5, <1>8, <1>9, <1>10, WalkPart
<1>12. SumFunctionOnSet(t, Ids) = Smaller(q, Drawn(o, S))
  BY <1>7, <1>11
<1> QED BY <1>4, <1>5, <1>12 DEF t, S

\* unrestoreForSaleItem takes back from flagged rows, never more than they hold.
LEMMA TakeBackFacts ==
    ASSUME rows \in [Owners -> [Ids -> RowType]], NEW o \in Owners, NEW q \in Nat
    PROVE  /\ TakeBack(o, q) \in [Ids -> Nat]
           /\ \A b \in Ids : /\ TakeBack(o, q)[b] <= rows[o][b].quantity
                             /\ TakeBack(o, q)[b] > 0 => rows[o][b].restored
           /\ SumFunctionOnSet(TakeBack(o, q), Ids) = Smaller(q, Drawn(o, Restored(o)))
<1> DEFINE t == TakeBack(o, q)
           S == Restored(o)
           x == [b \in Ids |-> rows[o][b].quantity]
           B == [b \in S |-> {a \in S : a < b}]
<1>0. S \in SUBSET Ids
  BY DEF Restored
<1>1. \A b \in Ids : t[b] = IF b \in S THEN Share(q, Drawn(o, {a \in S : a < b}), rows[o][b].quantity) ELSE 0
  BY DEF TakeBack
<1>2. \A b \in Ids : /\ rows[o][b].quantity \in Nat
                     /\ Drawn(o, {a \in S : a < b}) \in Nat
  <2> TAKE b \in Ids
  <2>1. {a \in S : a < b} \in SUBSET Ids
    BY <1>0
  <2> HIDE DEF S
  <2> QED BY <2>1, RowFields, DrawnNat
<1>3. \A b \in Ids : b \in S => rows[o][b].restored
  BY DEF Restored
<1> HIDE DEF S
<1>4. ASSUME NEW b \in Ids
      PROVE  /\ t[b] = IF b \in S THEN WalkTakes(q, Drawn(o, {a \in S : a < b}), rows[o][b].quantity) ELSE 0
             /\ t[b] \in Nat /\ t[b] <= rows[o][b].quantity /\ (t[b] > 0 => b \in S)
  <2> DEFINE e == Drawn(o, {a \in S : a < b})
             m == rows[o][b].quantity
  <2>1. e \in Nat /\ m \in Nat /\ t[b] = IF b \in S THEN Share(q, e, m) ELSE 0
    BY <1>1, <1>2
  <2> HIDE DEF e, m, t
  <2>2. Share(q, e, m) = WalkTakes(q, e, m) /\ Share(q, e, m) \in Nat /\ Share(q, e, m) <= m
    BY <2>1, ShareIs
  <2>3. t[b] = (IF b \in S THEN WalkTakes(q, e, m) ELSE 0) /\ t[b] \in Nat /\ t[b] <= m /\ (t[b] > 0 => b \in S)
    BY <2>1, <2>2
  <2> QED BY <2>3 DEF e, m
<1>5. t \in [Ids -> Nat]
  <2>1. t = [b \in Ids |-> t[b]]
    BY DEF TakeBack
  <2> QED BY <2>1, <1>4
<1>6. /\ x \in [Ids -> Nat] /\ \A b \in Ids : x[b] = rows[o][b].quantity
      /\ \A b \in S : B[b] = {a \in S : a < b}
  BY <1>2
<1>7. \A R : Drawn(o, R) = SumFunctionOnSet(x, R)
  BY DEF Drawn
<1>8. Queue(S, B)
  BY <1>0, BatchQueues
<1> HIDE DEF t, x, B
<1>9. \A b \in S : t[b] = WalkTakes(q, SumFunctionOnSet(x, B[b]), x[b])
  BY <1>0, <1>4, <1>6, <1>7
<1>10. \A b \in Ids : b \notin S => t[b] = 0
  BY <1>4
<1>11. SumFunctionOnSet(t, Ids) = Smaller(q, SumFunctionOnSet(x, S))
  <2>1. x \in [Ids -> Nat] /\ IsFiniteSet(Ids)
    BY <1>6, IdsFinite
  <2> QED BY <2>1, <1>0, <1>5, <1>8, <1>9, <1>10, WalkPart
<1>12. SumFunctionOnSet(t, Ids) = Smaller(q, Drawn(o, S))
  BY <1>7, <1>11
<1> QED BY <1>3, <1>4, <1>5, <1>12 DEF t, S

-----------------------------------------------------------------------------
(* What the walks do to batches and rows                                   *)

\* The rows of owner o change and batch b gets d[b] units, those its rows lose
\* unless an undo split a row.
Moved(o, d) ==
    /\ batches' \in [Ids -> BatchType] /\ rows' \in [Owners -> [Ids -> RowType]]
    /\ d \in [Ids -> Int]
    /\ \A b \in Ids : /\ batches'[b].quantity = batches[b].quantity
                      /\ batches'[b].booked = batches[b].booked
                      /\ batches'[b].remaining = batches[b].remaining + d[b]
    /\ \A p \in Owners : p # o => rows'[p] = rows[p]
    /\ \A b \in Ids : NoUnits(rows[o][b]) /\ batches[b].remaining = 0 =>
                        NoUnits(rows'[o][b]) /\ d[b] = 0
    /\ ~split' => \A b \in Ids : LiveOf(rows'[o][b]) = LiveOf(rows[o][b]) - d[b]

LEMMA NewRemaining ==
    ASSUME batches \in [Ids -> BatchType], NEW m \in [Ids -> Nat],
           batches' = [b \in Ids |-> [batches[b] EXCEPT !.remaining = m[b]]]
    PROVE  /\ batches' \in [Ids -> BatchType]
           /\ \A b \in Ids : /\ batches'[b].quantity = batches[b].quantity
                             /\ batches'[b].booked = batches[b].booked
                             /\ batches'[b].remaining = m[b]
<1>1. ASSUME NEW b \in Ids
      PROVE  /\ batches'[b] \in BatchType /\ batches'[b].quantity = batches[b].quantity
             /\ batches'[b].booked = batches[b].booked /\ batches'[b].remaining = m[b]
  <2>1. batches'[b] = [batches[b] EXCEPT !.remaining = m[b]]
    OBVIOUS
  <2>2. m[b] \in Nat /\ batches[b] \in BatchType
    OBVIOUS
  <2> QED BY <2>1, <2>2 DEF BatchType
<1> QED BY <1>1

LEMMA NewRows ==
    ASSUME rows \in [Owners -> [Ids -> RowType]], NEW o \in Owners, NEW r,
           \A b \in Ids : r[b] \in RowType, r = [b \in Ids |-> r[b]],
           rows' = [rows EXCEPT ![o] = r]
    PROVE  /\ rows' \in [Owners -> [Ids -> RowType]] /\ rows'[o] = r
           /\ \A p \in Owners : p # o => rows'[p] = rows[p]
<1>1. r \in [Ids -> RowType]
  OBVIOUS
<1> QED BY <1>1, Update

LEMMA ConsumeMoves ==
    ASSUME batches \in [Ids -> BatchType], rows \in [Owners -> [Ids -> RowType]],
           NEW o \in Owners, NEW q \in Nat, \A b \in Ids : ~rows[o][b].restored, Consume(o, q)
    PROVE  /\ Moved(o, [b \in Ids |-> -Take(q)[b]])
           /\ \A b \in Ids : /\ ~rows'[o][b].restored
                             /\ rows'[o][b].quantity = rows[o][b].quantity + Take(q)[b]
<1> DEFINE t == Take(q)
           d == [b \in Ids |-> -t[b]]
           m == [b \in Ids |-> batches[b].remaining - t[b]]
           r == [b \in Ids |-> [quantity |-> rows[o][b].quantity + t[b], restored |-> rows[o][b].restored]]
<1>1. t \in [Ids -> Nat] /\ \A b \in Ids : t[b] \in Nat /\ t[b] <= batches[b].remaining
  BY TakeFacts
<1>2. batches' = [b \in Ids |-> [batches[b] EXCEPT !.remaining = m[b]]]
  BY DEF Consume
<1>3. rows' = [rows EXCEPT ![o] = r]
  BY DEF Consume
<1> HIDE DEF t
<1>4. m \in [Ids -> Nat] /\ \A b \in Ids : m[b] = batches[b].remaining - t[b]
  BY <1>1, BatchFields
<1>5. \A b \in Ids : d[b] = -t[b] /\ d[b] \in Int
  BY <1>1
<1>6. d \in [Ids -> Int]
  BY <1>1
<1> HIDE DEF m, d
<1>7. /\ batches' \in [Ids -> BatchType]
      /\ \A b \in Ids : /\ batches'[b].quantity = batches[b].quantity
                        /\ batches'[b].booked = batches[b].booked
                        /\ batches'[b].remaining = m[b]
  BY <1>2, <1>4, NewRemaining
<1>8. ASSUME NEW b \in Ids
      PROVE  /\ r[b] \in RowType /\ r[b].restored = rows[o][b].restored
             /\ r[b].quantity = rows[o][b].quantity + t[b]
  <2>1. rows[o][b] \in RowType /\ rows[o][b].quantity + t[b] \in Nat
    BY <1>1, RowFields
  <2> QED BY <2>1 DEF RowType
<1>9. r = [b \in Ids |-> r[b]]
  OBVIOUS
<1> HIDE DEF r
<1>10. /\ rows' \in [Owners -> [Ids -> RowType]] /\ rows'[o] = r
       /\ \A p \in Owners : p # o => rows'[p] = rows[p]
  BY <1>3, <1>8, <1>9, NewRows
<1>11. ASSUME NEW b \in Ids
       PROVE  /\ ~rows'[o][b].restored /\ rows'[o][b].quantity = rows[o][b].quantity + t[b]
              /\ LiveOf(rows'[o][b]) = LiveOf(rows[o][b]) - d[b]
              /\ NoUnits(rows[o][b]) /\ batches[b].remaining = 0 =>
                    NoUnits(rows'[o][b]) /\ d[b] = 0
              /\ batches'[b].remaining = batches[b].remaining + d[b]
  <2>1. ~rows'[o][b].restored /\ rows'[o][b].quantity = rows[o][b].quantity + t[b]
    BY <1>8, <1>10
  <2>2. rows[o][b].quantity \in Nat /\ t[b] \in Nat /\ d[b] = -t[b] /\ t[b] <= batches[b].remaining
        /\ batches[b].remaining \in Nat
    BY <1>1, <1>5, RowFields, BatchFields
  <2>3. LiveOf(rows'[o][b]) = LiveOf(rows[o][b]) - d[b]
    BY <2>1, <2>2 DEF LiveOf
  <2>4. NoUnits(rows[o][b]) /\ batches[b].remaining = 0 => NoUnits(rows'[o][b]) /\ d[b] = 0
    BY <2>1, <2>2 DEF NoUnits
  <2>5. batches'[b].remaining = batches[b].remaining + d[b]
    BY <1>4, <1>7, <2>2
  <2> QED BY <2>1, <2>3, <2>4, <2>5
<1>12. Moved(o, d)
  BY <1>6, <1>7, <1>10, <1>11 DEF Moved
<1> QED BY <1>11, <1>12 DEF d, t

LEMMA RestoreMoves ==
    ASSUME batches \in [Ids -> BatchType], rows \in [Owners -> [Ids -> RowType]],
           NEW o \in Owners, NEW q \in Nat, Restore(o, q)
    PROVE  Moved(o, Give(o, q))
<1> DEFINE d == Give(o, q)
           m == [b \in Ids |-> batches[b].remaining + d[b]]
           New(x, g) == IF g = 0 THEN x
                        ELSE IF g >= x.quantity THEN [quantity |-> x.quantity, restored |-> TRUE]
                             ELSE [quantity |-> x.quantity - g, restored |-> x.restored]
           r == [b \in Ids |-> New(rows[o][b], d[b])]
<1>1. /\ d \in [Ids -> Nat]
      /\ \A b \in Ids : d[b] \in Nat /\ d[b] <= LiveOf(rows[o][b]) /\ d[b] <= rows[o][b].quantity
  BY GiveFacts
<1>2. batches' = [b \in Ids |-> [batches[b] EXCEPT !.remaining = m[b]]]
  BY DEF Restore
<1>3. rows' = [rows EXCEPT ![o] = r]
  BY DEF Restore
<1> HIDE DEF d
<1>4. m \in [Ids -> Nat] /\ \A b \in Ids : m[b] = batches[b].remaining + d[b]
  BY <1>1, BatchFields
<1>5. d \in [Ids -> Int]
  BY <1>1
<1> HIDE DEF m
<1>6. /\ batches' \in [Ids -> BatchType]
      /\ \A b \in Ids : /\ batches'[b].quantity = batches[b].quantity
                        /\ batches'[b].booked = batches[b].booked
                        /\ batches'[b].remaining = m[b]
  BY <1>2, <1>4, NewRemaining
<1>7. ASSUME NEW x \in RowType, NEW g \in Nat, g <= LiveOf(x), g <= x.quantity
      PROVE  /\ New(x, g) \in RowType /\ LiveOf(New(x, g)) = LiveOf(x) - g
             /\ NoUnits(x) => NoUnits(New(x, g)) /\ g = 0
  <2>1. x.quantity \in Nat /\ x.restored \in BOOLEAN
    BY DEF RowType
  <2>2. CASE g = 0
    BY <2>1, <2>2 DEF LiveOf
  <2>3. CASE g # 0 /\ g >= x.quantity
    <3>1. ~x.restored
      BY <1>7, <2>3 DEF LiveOf
    <3>2. New(x, g) = [quantity |-> x.quantity, restored |-> TRUE]
      BY <2>3
    <3>3. x.quantity = g
      BY <2>1, <2>3, <1>7
    <3> HIDE DEF New
    <3>4. New(x, g) \in RowType /\ LiveOf(New(x, g)) = 0
      BY <3>2, <2>1 DEF RowType, LiveOf
    <3>5. LiveOf(x) - g = 0 /\ ~NoUnits(x)
      BY <3>1, <3>3, <2>1, <2>3 DEF LiveOf, NoUnits
    <3> QED BY <3>4, <3>5
  <2>4. CASE g # 0 /\ ~(g >= x.quantity)
    <3>1. ~x.restored
      BY <1>7, <2>4 DEF LiveOf
    <3>2. x.quantity - g \in Nat
      BY <2>1, <1>7
    <3>3. New(x, g) \in RowType /\ New(x, g).quantity = x.quantity - g /\ New(x, g).restored = x.restored
      BY <2>1, <2>4, <3>2 DEF RowType
    <3> QED BY <2>1, <2>4, <3>1, <3>3 DEF LiveOf, NoUnits
  <2> QED BY <2>2, <2>3, <2>4
<1>8. \A b \in Ids : r[b] = New(rows[o][b], d[b])
  OBVIOUS
<1>9. r = [b \in Ids |-> r[b]]
  OBVIOUS
<1> HIDE DEF r, New
<1>10. ASSUME NEW b \in Ids
       PROVE  /\ r[b] \in RowType /\ LiveOf(r[b]) = LiveOf(rows[o][b]) - d[b]
              /\ NoUnits(rows[o][b]) => NoUnits(r[b]) /\ d[b] = 0
  BY <1>1, <1>7, <1>8, RowFields
<1>11. /\ rows' \in [Owners -> [Ids -> RowType]] /\ rows'[o] = r
       /\ \A p \in Owners : p # o => rows'[p] = rows[p]
  BY <1>3, <1>9, <1>10, NewRows
<1>12. Moved(o, d)
  BY <1>4, <1>5, <1>6, <1>10, <1>11 DEF Moved
<1> QED BY <1>12 DEF d

LEMMA UnrestoreMoves ==
    ASSUME batches \in [Ids -> BatchType], rows \in [Owners -> [Ids -> RowType]],
           NEW o \in Owners, NEW q \in Nat, CanUnrestore(o, q), Unrestore(o, q)
    PROVE  Moved(o, [b \in Ids |-> -TakeBack(o, q)[b]])
<1> DEFINE t == TakeBack(o, q)
           d == [b \in Ids |-> -t[b]]
           m == [b \in Ids |-> batches[b].remaining - t[b]]
           New(x, g) == [quantity |-> x.quantity, restored |-> x.restored /\ g = 0]
           r == [b \in Ids |-> New(rows[o][b], t[b])]
<1>1. /\ t \in [Ids -> Nat]
      /\ \A b \in Ids : /\ t[b] \in Nat /\ t[b] <= rows[o][b].quantity
                        /\ t[b] > 0 => rows[o][b].restored
  BY TakeBackFacts
<1>2. \A b \in Ids : t[b] <= batches[b].remaining
  <2>1. CASE NoRows(o)
    <3> TAKE b \in Ids
    <3>1. ~rows[o][b].restored
      BY <2>1 DEF NoRows, Restored
    <3>2. t[b] = 0
      BY <1>1, <3>1
    <3> QED BY <3>2, BatchFields
  <2>2. CASE ~NoRows(o)
    BY <2>2 DEF CanUnrestore
  <2> QED BY <2>1, <2>2
<1>3. batches' = [b \in Ids |-> [batches[b] EXCEPT !.remaining = m[b]]]
  BY DEF Unrestore
<1>4. rows' = [rows EXCEPT ![o] = r]
  BY DEF Unrestore
<1>5. ~split' => \A b \in Ids : t[b] \notin 1 .. rows[o][b].quantity - 1
  BY DEF Unrestore
<1> HIDE DEF t
<1>6. m \in [Ids -> Nat] /\ \A b \in Ids : m[b] = batches[b].remaining - t[b]
  BY <1>1, <1>2, BatchFields
<1>7. d \in [Ids -> Int] /\ \A b \in Ids : d[b] = -t[b]
  BY <1>1
<1> HIDE DEF m, d
<1>8. /\ batches' \in [Ids -> BatchType]
      /\ \A b \in Ids : /\ batches'[b].quantity = batches[b].quantity
                        /\ batches'[b].booked = batches[b].booked
                        /\ batches'[b].remaining = m[b]
  BY <1>3, <1>6, NewRemaining
<1>9. ASSUME NEW x \in RowType, NEW g \in Nat
      PROVE  /\ New(x, g) \in RowType /\ New(x, g).quantity = x.quantity
             /\ New(x, g).restored <=> x.restored /\ g = 0
  BY DEF RowType
<1>10. \A b \in Ids : r[b] = New(rows[o][b], t[b])
  OBVIOUS
<1>11. r = [b \in Ids |-> r[b]]
  OBVIOUS
<1> HIDE DEF r, New
<1>12. ASSUME NEW b \in Ids
       PROVE  /\ r[b] \in RowType /\ r[b].quantity = rows[o][b].quantity
              /\ r[b].restored <=> rows[o][b].restored /\ t[b] = 0
  <2>1. rows[o][b] \in RowType /\ t[b] \in Nat
    BY <1>1, RowFields
  <2>2. r[b] = New(rows[o][b], t[b])
    BY <1>10
  <2> QED BY <2>1, <2>2, <1>9
<1>13. /\ rows' \in [Owners -> [Ids -> RowType]] /\ rows'[o] = r
       /\ \A p \in Owners : p # o => rows'[p] = rows[p]
  BY <1>4, <1>11, <1>12, NewRows
<1>14. ASSUME NEW b \in Ids
       PROVE  /\ ~split' => LiveOf(rows'[o][b]) = LiveOf(rows[o][b]) - d[b]
              /\ NoUnits(rows[o][b]) => NoUnits(rows'[o][b]) /\ d[b] = 0
              /\ batches'[b].remaining = batches[b].remaining + d[b]
  <2>1. /\ rows[o][b].quantity \in Nat /\ t[b] \in Nat /\ d[b] = -t[b] /\ t[b] <= rows[o][b].quantity
        /\ batches[b].remaining \in Nat /\ (t[b] > 0 => rows[o][b].restored)
    BY <1>1, <1>7, RowFields, BatchFields
  <2>2. /\ rows'[o][b].quantity = rows[o][b].quantity
        /\ rows'[o][b].restored <=> rows[o][b].restored /\ t[b] = 0
    BY <1>12, <1>13
  <2>3. ASSUME ~split' PROVE t[b] = 0 \/ t[b] = rows[o][b].quantity
    <3>1. t[b] \notin 1 .. rows[o][b].quantity - 1
      BY <1>5, <2>3
    <3> QED BY <2>1, <3>1
  <2>4. ~split' => LiveOf(rows'[o][b]) = LiveOf(rows[o][b]) - d[b]
    BY <2>1, <2>2, <2>3 DEF LiveOf
  <2>5. NoUnits(rows[o][b]) => NoUnits(rows'[o][b]) /\ d[b] = 0
    BY <2>1, <2>2 DEF NoUnits
  <2>6. batches'[b].remaining = batches[b].remaining + d[b]
    BY <1>6, <1>8, <2>1
  <2> QED BY <2>4, <2>5, <2>6
<1>15. Moved(o, d)
  BY <1>7, <1>8, <1>13, <1>14 DEF Moved
<1> QED BY <1>15 DEF d, t

-----------------------------------------------------------------------------
(* Batches and rows stay in balance                                        *)

OutOf(r, b) == SumFunctionOnSet([o \in Owners |-> LiveOf(r[o][b])], Owners)

LEMMA OutIs ==
    ASSUME rows \in [Owners -> [Ids -> RowType]], NEW b \in Ids
    PROVE  Out(b) = OutOf(rows, b)
<1> DEFINE f == [o \in Owners |-> IF b \in Active(o) THEN rows[o][b].quantity ELSE 0]
           g == [o \in Owners |-> LiveOf(rows[o][b])]
<1>1. ASSUME NEW o \in Owners PROVE f[o] = g[o]
  <2>1. rows[o][b].quantity \in Nat /\ rows[o][b].restored \in BOOLEAN
    BY RowFields
  <2> QED BY <2>1 DEF Active, LiveOf
<1>2. Out(b) = SumFunctionOnSet(f, Owners) /\ OutOf(rows, b) = SumFunctionOnSet(g, Owners)
  BY DEF Out, OutOf
<1> HIDE DEF f, g
<1>3. SumFunctionOnSet(f, Owners) = SumFunctionOnSet(g, Owners)
  BY <1>1, SumSame
<1> QED BY <1>2, <1>3

LEMMA OutIsNext ==
    ASSUME rows' \in [Owners -> [Ids -> RowType]], NEW b \in Ids
    PROVE  Out(b)' = OutOf(rows', b)
<1> DEFINE f == [o \in Owners |-> IF b \in Active(o)' THEN rows'[o][b].quantity ELSE 0]
           g == [o \in Owners |-> LiveOf(rows'[o][b])]
<1>1. ASSUME NEW o \in Owners PROVE f[o] = g[o]
  <2>1. rows'[o][b] \in RowType
    OBVIOUS
  <2>2. rows'[o][b].quantity \in Nat /\ rows'[o][b].restored \in BOOLEAN
    BY <2>1 DEF RowType
  <2> QED BY <2>2 DEF Active, LiveOf
<1>2. Out(b)' = SumFunctionOnSet(f, Owners) /\ OutOf(rows', b) = SumFunctionOnSet(g, Owners)
  BY DEF Out, OutOf
<1> HIDE DEF f, g
<1>3. SumFunctionOnSet(f, Owners) = SumFunctionOnSet(g, Owners)
  BY <1>1, SumSame
<1> QED BY <1>2, <1>3

LEMMA OutMove ==
    ASSUME NEW r \in [Owners -> [Ids -> RowType]], NEW s \in [Owners -> [Ids -> RowType]],
           NEW o \in Owners, NEW b \in Ids, \A p \in Owners : p # o => s[p][b] = r[p][b]
    PROVE  /\ OutOf(r, b) \in Int
           /\ OutOf(s, b) = OutOf(r, b) - LiveOf(r[o][b]) + LiveOf(s[o][b])
<1> DEFINE f == [p \in Owners |-> LiveOf(r[p][b])]
           g == [p \in Owners |-> LiveOf(s[p][b])]
<1>1. ASSUME NEW x \in RowType PROVE LiveOf(x) \in Int
  BY DEF LiveOf, RowType
<1>2. \A p \in Owners : r[p][b] \in RowType /\ s[p][b] \in RowType
  OBVIOUS
<1>3. f \in [Owners -> Int] /\ g \in [Owners -> Int]
  BY <1>1, <1>2
<1>4. \A p \in Owners : p # o => g[p] = f[p]
  OBVIOUS
<1>5. f[o] = LiveOf(r[o][b]) /\ g[o] = LiveOf(s[o][b])
  OBVIOUS
<1>6. OutOf(r, b) = SumFunctionOnSet(f, Owners) /\ OutOf(s, b) = SumFunctionOnSet(g, Owners)
  BY DEF OutOf
<1> HIDE DEF f, g
<1>7. EqualBut(f, g, Owners, o)
  BY <1>3, <1>4, OwnersFinite DEF EqualBut
<1> QED BY <1>5, <1>6, <1>7, SumChangeAll

LEMMA OutNone ==
    ASSUME NEW r, NEW b, \A p \in Owners : LiveOf(r[p][b]) = 0
    PROVE  OutOf(r, b) = 0
<1> DEFINE f == [p \in Owners |-> LiveOf(r[p][b])]
<1>1. \A p \in Owners : f[p] = 0
  OBVIOUS
<1>2. OutOf(r, b) = SumFunctionOnSet(f, Owners)
  BY DEF OutOf
<1> HIDE DEF f
<1> QED BY <1>1, <1>2, OwnersFinite, SumZero

\* A batch that gets the units o's row of it loses stays in balance.
LEMMA BalanceMoves ==
    ASSUME batches \in [Ids -> BatchType], rows \in [Owners -> [Ids -> RowType]],
           batches' \in [Ids -> BatchType], rows' \in [Owners -> [Ids -> RowType]],
           NEW o \in Owners, NEW b \in Ids, \A p \in Owners : p # o => rows'[p][b] = rows[p][b],
           NEW x \in Int, LiveOf(rows'[o][b]) = LiveOf(rows[o][b]) - x,
           batches'[b].quantity = batches[b].quantity,
           batches'[b].remaining = batches[b].remaining + x, Balanced(b)
    PROVE  Balanced(b)'
<1>1. /\ OutOf(rows, b) \in Int
      /\ OutOf(rows', b) = OutOf(rows, b) - LiveOf(rows[o][b]) + LiveOf(rows'[o][b])
  BY OutMove
<1>2. Out(b) = OutOf(rows, b) /\ Out(b)' = OutOf(rows', b)
  BY OutIs, OutIsNext
<1>3. LiveOf(rows[o][b]) \in Nat /\ batches[b].remaining \in Nat
  BY RowFields, BatchFields
<1>4. batches[b].remaining + OutOf(rows, b) = batches[b].quantity
  BY <1>2 DEF Balanced
<1>5. batches'[b].remaining + OutOf(rows', b) = batches'[b].quantity
  BY <1>1, <1>3, <1>4
<1> QED BY <1>2, <1>5 DEF Balanced

\* An untouched batch balances.
LEMMA BalanceWhole ==
    ASSUME rows' \in [Owners -> [Ids -> RowType]], NEW b \in Ids,
           \A p \in Owners : LiveOf(rows'[p][b]) = 0,
           batches'[b].remaining = batches'[b].quantity, batches'[b].quantity \in Nat
    PROVE  Balanced(b)'
<1>1. Out(b)' = 0
  BY OutIsNext, OutNone
<1> QED BY <1>1 DEF Balanced

\* Lines and claims only go on.
Onward ==
    /\ \A j \in Items : line'[j].status = "none" => line[j].status = "none"
    /\ \A c \in Claims : /\ claim'[c].status = "none" => claim[c].status = "none"
                         /\ claim'[c].status # "VOIDED" => claim[c].status # "VOIDED"

ReturnKept(c) == claim'[c].return = "REPLACED" =>
                     claim[c].return = "REPLACED" /\ claim'[c].batch = claim[c].batch

DrawsOne(r) == \A b \in Ids : r[b].quantity > 0 =>
                   r[b].quantity = 1 /\ \A a \in Ids : r[a].quantity > 0 => a = b

LEMMA RowsFacts ==
    ASSUME RowsInv
    PROVE  /\ batches \in [Ids -> BatchType] /\ rows \in [Owners -> [Ids -> RowType]]
           /\ opened \in 0 .. MaxBatches /\ opened \in Nat /\ split \in BOOLEAN
           /\ FreshBatches /\ FreshRows /\ ReturnBatches
           /\ \A c \in Claims : DrawsOne(rows[c])
           /\ ~split => \A b \in Ids : Balanced(b)
<1>1. \A x \in 0 .. MaxBatches : x \in Nat
  BY IdsFinite
<1> QED BY <1>1 DEF RowsInv, ClaimDrawsOne, DrawsOne, BatchesBalance

LEMMA RowsMoved ==
    ASSUME RowsInv, NEW o \in Owners, NEW d, Moved(o, d), opened' = opened,
           split' \in BOOLEAN, split => split', Onward, \A c \in Claims : ReturnKept(c),
           o \in Items => line'[o].status # "none",
           o \in Claims => claim'[o].status # "none" /\ DrawsOne(rows'[o]),
           o \in Claims /\ claim'[o].status # "VOIDED" => \A b \in Ids : ~rows'[o][b].restored,
           o = Loss => \A b \in Ids : ~rows'[o][b].restored
    PROVE  RowsInv'
<1>1. /\ batches \in [Ids -> BatchType] /\ rows \in [Owners -> [Ids -> RowType]]
      /\ opened \in 0 .. MaxBatches
      /\ FreshBatches /\ FreshRows /\ ReturnBatches /\ \A c \in Claims : DrawsOne(rows[c])
      /\ ~split => \A b \in Ids : Balanced(b)
  BY RowsFacts
<1>2. /\ batches' \in [Ids -> BatchType] /\ rows' \in [Owners -> [Ids -> RowType]]
      /\ \A p \in Owners : p # o => rows'[p] = rows[p]
      /\ d \in [Ids -> Int]
      /\ \A b \in Ids : /\ batches'[b].quantity = batches[b].quantity
                        /\ batches'[b].booked = batches[b].booked
                        /\ batches'[b].remaining = batches[b].remaining + d[b]
  BY DEF Moved
<1>3. FreshBatches'
  <2> SUFFICES ASSUME NEW b \in Ids, b > opened
               PROVE  /\ batches'[b].quantity = 0 /\ batches'[b].remaining = 0
                      /\ \A p \in Owners : NoUnits(rows'[p][b])
    BY DEF FreshBatches
  <2>1. /\ batches[b].quantity = 0 /\ batches[b].remaining = 0
        /\ \A p \in Owners : NoUnits(rows[p][b])
    BY <1>1 DEF FreshBatches
  <2>2. NoUnits(rows'[o][b]) /\ d[b] = 0
    BY <2>1 DEF Moved
  <2> QED BY <2>1, <2>2, <1>2
<1>4. FreshRows'
  <2>1. ASSUME NEW i \in Items, line'[i].status = "none" PROVE \A b \in Ids : NoUnits(rows'[i][b])
    <3>1. i # o /\ i \in Owners /\ line[i].status = "none"
      BY <2>1, OwnersFinite DEF Onward
    <3> QED BY <3>1, <1>1, <1>2 DEF FreshRows
  <2>2. \A b \in Ids : ~rows'[Loss][b].restored
    <3>1. CASE o = Loss
      BY <3>1
    <3>2. CASE o # Loss
      <4>1. rows'[Loss] = rows[Loss]
        BY <3>2, <1>2, OwnersFinite
      <4> QED BY <4>1, <1>1 DEF FreshRows
    <3> QED BY <3>1, <3>2
  <2>3. ASSUME NEW c \in Claims, claim'[c].status = "none" PROVE \A b \in Ids : NoUnits(rows'[c][b])
    <3>1. c # o /\ c \in Owners /\ claim[c].status = "none"
      BY <2>3, OwnersFinite DEF Onward
    <3> QED BY <3>1, <1>1, <1>2 DEF FreshRows
  <2>4. ASSUME NEW c \in Claims, claim'[c].status # "VOIDED" PROVE \A b \in Ids : ~rows'[c][b].restored
    <3>1. CASE c = o
      BY <2>4, <3>1
    <3>2. CASE c # o
      <4>1. c \in Owners /\ claim[c].status # "VOIDED"
        BY <2>4, OwnersFinite DEF Onward
      <4> QED BY <3>2, <4>1, <1>1, <1>2 DEF FreshRows
    <3> QED BY <3>1, <3>2
  <2> QED BY <2>1, <2>2, <2>3, <2>4 DEF FreshRows
<1>5. ClaimDrawsOne'
  <2>1. ASSUME NEW c \in Claims PROVE DrawsOne(rows'[c])
    <3>1. c \in Owners
      BY OwnersFinite
    <3> QED BY <3>1, <1>1, <1>2
  <2> QED BY <2>1 DEF ClaimDrawsOne, DrawsOne
<1>6. ReturnBatches'
  <2>1. \A c \in Claims : claim'[c].return = "REPLACED" =>
            claim[c].return = "REPLACED" /\ claim'[c].batch = claim[c].batch
    BY DEF ReturnKept
  <2>2. \A c \in Claims : claim'[c].return = "REPLACED" =>
            /\ claim'[c].batch \in Ids
            /\ batches'[claim'[c].batch].quantity = 1 /\ ~batches'[claim'[c].batch].booked
    BY <2>1, <1>1, <1>2 DEF ReturnBatches
  <2>3. \A c, e \in Claims :
            claim'[c].return = "REPLACED" /\ claim'[e].return = "REPLACED"
                /\ claim'[c].batch = claim'[e].batch => c = e
    BY <2>1, <1>1 DEF ReturnBatches
  <2> QED BY <2>2, <2>3 DEF ReturnBatches
<1>7. BatchesBalance'
  <2> SUFFICES ASSUME ~split', NEW b \in Ids PROVE Balanced(b)'
    BY DEF BatchesBalance
  <2>1. Balanced(b) /\ d[b] \in Int
    BY <1>1, <1>2
  <2>2. LiveOf(rows'[o][b]) = LiveOf(rows[o][b]) - d[b]
    BY DEF Moved
  <2>3. \A p \in Owners : p # o => rows'[p][b] = rows[p][b]
    BY <1>2
  <2> QED BY <1>1, <1>2, <2>1, <2>2, <2>3, BalanceMoves
<1> QED BY <1>1, <1>2, <1>3, <1>4, <1>5, <1>6, <1>7 DEF RowsInv

\* Only lines and claims change.
LEMMA RowsSame ==
    ASSUME RowsInv, UNCHANGED <<batches, rows, opened, split>>, Onward,
           \A c \in Claims : ReturnKept(c)
    PROVE  RowsInv'
<1>1. /\ FreshBatches /\ FreshRows /\ ReturnBatches /\ ClaimDrawsOne /\ BatchesBalance
      /\ batches \in [Ids -> BatchType] /\ rows \in [Owners -> [Ids -> RowType]]
      /\ opened \in 0 .. MaxBatches /\ split \in BOOLEAN
  BY DEF RowsInv
<1>2. FreshBatches' /\ ClaimDrawsOne'
  BY <1>1 DEF FreshBatches, ClaimDrawsOne
<1>3. BatchesBalance'
  BY <1>1 DEF BatchesBalance, Balanced, Out, Active
<1>4. FreshRows'
  BY <1>1 DEF FreshRows, Onward
<1>5. ReturnBatches'
  <2>1. \A c \in Claims : claim'[c].return = "REPLACED" =>
            claim[c].return = "REPLACED" /\ claim'[c].batch = claim[c].batch
    BY DEF ReturnKept
  <2> QED BY <2>1, <1>1 DEF ReturnBatches
<1> QED BY <1>1, <1>2, <1>3, <1>4, <1>5 DEF RowsInv

\* A batch is opened, perhaps for the unit a supplier gave for claim c.
LEMMA RowsOpen ==
    ASSUME RowsInv, NEW q \in Nat, NEW bk \in BOOLEAN, OpenBatch(q, bk), UNCHANGED <<rows, split>>,
           Onward, NEW c, \A e \in Claims : e # c => ReturnKept(e),
           c \in Claims => ReturnKept(c) \/ (claim'[c].batch = opened + 1 /\ q = 1 /\ ~bk)
    PROVE  /\ RowsInv' /\ opened + 1 \in Ids
           /\ batches'[opened + 1].quantity = q /\ batches'[opened + 1].remaining = q
           /\ batches[opened + 1].quantity = 0 /\ batches[opened + 1].remaining = 0
           /\ \A b \in Ids : b # opened + 1 => batches'[b] = batches[b]
<1> DEFINE n == opened + 1
           v == [quantity |-> q, remaining |-> q, booked |-> bk]
<1>1. /\ batches \in [Ids -> BatchType] /\ rows \in [Owners -> [Ids -> RowType]]
      /\ opened \in 0 .. MaxBatches /\ opened \in Nat /\ split \in BOOLEAN
      /\ FreshBatches /\ FreshRows /\ ReturnBatches /\ \A e \in Claims : DrawsOne(rows[e])
      /\ ~split => \A b \in Ids : Balanced(b)
  BY RowsFacts
<1>2. opened < MaxBatches /\ opened' = n /\ batches' = [batches EXCEPT ![n] = v]
  BY DEF OpenBatch
<1>3. n \in Ids /\ n \in 0 .. MaxBatches /\ n > opened /\ n \in Nat
  BY <1>1, <1>2, IdsFinite DEF Ids
<1>4. v \in BatchType /\ v.quantity = q /\ v.remaining = q /\ (v.booked <=> bk)
  BY DEF BatchType
<1> HIDE DEF v
<1>5. /\ batches' \in [Ids -> BatchType] /\ batches'[n] = v
      /\ \A b \in Ids : b # n => batches'[b] = batches[b]
  BY <1>1, <1>2, <1>3, <1>4, Update
<1>6. /\ batches[n].quantity = 0 /\ batches[n].remaining = 0
      /\ \A p \in Owners : NoUnits(rows[p][n])
  BY <1>1, <1>3 DEF FreshBatches
<1> HIDE DEF n
<1>7. FreshBatches'
  <2> SUFFICES ASSUME NEW b \in Ids, b > n
               PROVE  /\ batches'[b].quantity = 0 /\ batches'[b].remaining = 0
                      /\ \A p \in Owners : NoUnits(rows'[p][b])
    BY <1>2 DEF FreshBatches
  <2>1. b # n /\ b > opened
    BY <1>1, <1>3, IdsFinite
  <2> QED BY <2>1, <1>1, <1>5 DEF FreshBatches
<1>8. FreshRows'
  BY <1>1 DEF FreshRows, Onward
<1>9. ClaimDrawsOne'
  BY <1>1 DEF ClaimDrawsOne, DrawsOne
<1>10. ReturnBatches'
  <2>1. ASSUME NEW e \in Claims, claim'[e].return = "REPLACED"
        PROVE  \/ /\ e = c /\ claim'[e].batch = n /\ q = 1 /\ ~bk
               \/ /\ claim[e].return = "REPLACED" /\ claim'[e].batch = claim[e].batch
                  /\ claim[e].batch \in Ids /\ batches[claim[e].batch].quantity = 1
                  /\ ~batches[claim[e].batch].booked /\ claim[e].batch # n
    BY <2>1, <1>1, <1>6 DEF ReturnBatches, ReturnKept, n
  <2>2. ASSUME NEW e \in Claims, claim'[e].return = "REPLACED"
        PROVE  /\ claim'[e].batch \in Ids
               /\ batches'[claim'[e].batch].quantity = 1 /\ ~batches'[claim'[e].batch].booked
    BY <2>1, <2>2, <1>3, <1>4, <1>5
  <2>3. ASSUME NEW e \in Claims, NEW f \in Claims, claim'[e].return = "REPLACED",
               claim'[f].return = "REPLACED", claim'[e].batch = claim'[f].batch
        PROVE  e = f
    BY <2>1, <2>3, <1>1 DEF ReturnBatches
  <2> QED BY <2>2, <2>3 DEF ReturnBatches
<1>11. BatchesBalance'
  <2> SUFFICES ASSUME ~split', NEW b \in Ids PROVE Balanced(b)'
    BY DEF BatchesBalance
  <2>1. CASE b = n
    <3>1. \A p \in Owners : LiveOf(rows'[p][b]) = 0
      BY <2>1, <1>6 DEF LiveOf, NoUnits
    <3> QED BY <2>1, <3>1, <1>1, <1>4, <1>5, BalanceWhole
  <2>2. CASE b # n
    BY <2>2, <1>1, <1>5 DEF Balanced, Out, Active
  <2> QED BY <2>1, <2>2
<1>12. RowsInv'
  BY <1>1, <1>2, <1>3, <1>5, <1>7, <1>8, <1>9, <1>10, <1>11 DEF RowsInv
<1> QED BY <1>3, <1>4, <1>5, <1>6, <1>12 DEF n

\* A delivery is voided: its batch and the rows of it go.
LEMMA RowsVoidIntake ==
    ASSUME RowsInv, NEW b \in Ids, VoidIntake(b), UNCHANGED claim
    PROVE  /\ RowsInv'
           /\ batches'[b].quantity = 0 /\ batches'[b].remaining = 0
           /\ batches[b].remaining >= batches[b].quantity
           /\ \A a \in Ids : a # b => batches'[a] = batches[a]
           /\ \A o \in Owners : \A a \in Ids : /\ a # b => rows'[o][a] = rows[o][a]
                                               /\ LiveOf(rows'[o][a]) <= LiveOf(rows[o][a])
<1>1. /\ batches \in [Ids -> BatchType] /\ rows \in [Owners -> [Ids -> RowType]]
      /\ opened \in 0 .. MaxBatches /\ split \in BOOLEAN
      /\ FreshBatches /\ FreshRows /\ ReturnBatches /\ \A e \in Claims : DrawsOne(rows[e])
      /\ ~split => \A a \in Ids : Balanced(a)
  BY RowsFacts
<1>2. /\ batches[b].booked /\ batches[b].remaining >= batches[b].quantity
      /\ batches' = [batches EXCEPT ![b] = NoBatch]
      /\ rows' = [o \in Owners |-> [rows[o] EXCEPT ![b] = NoRow]]
      /\ UNCHANGED <<opened, line, split>>
  BY DEF VoidIntake, Untouched
<1>3. /\ batches' \in [Ids -> BatchType] /\ batches'[b] = NoBatch
      /\ \A a \in Ids : a # b => batches'[a] = batches[a]
  BY <1>1, <1>2, NothingTyped, Update
<1>4. ASSUME NEW o \in Owners
      PROVE  /\ rows'[o] \in [Ids -> RowType] /\ rows'[o][b] = NoRow
             /\ \A a \in Ids : a # b => rows'[o][a] = rows[o][a]
  <2>1. rows'[o] = [rows[o] EXCEPT ![b] = NoRow] /\ rows[o] \in [Ids -> RowType]
    BY <1>1, <1>2
  <2> QED BY <2>1, NothingTyped, Update
<1>5. rows' \in [Owners -> [Ids -> RowType]]
  BY <1>2, <1>4
<1>6. NoBatch.quantity = 0 /\ NoBatch.remaining = 0 /\ NoRow.quantity = 0 /\ ~NoRow.restored
  BY DEF NoBatch, NoRow
<1>7. ASSUME NEW o \in Owners, NEW a \in Ids
      PROVE  /\ rows'[o][a].restored => rows[o][a].restored
             /\ rows'[o][a].quantity = rows[o][a].quantity \/ rows'[o][a].quantity = 0
             /\ NoUnits(rows[o][a]) => NoUnits(rows'[o][a])
             /\ LiveOf(rows'[o][a]) <= LiveOf(rows[o][a])
  <2>1. LiveOf(rows[o][a]) \in Nat
    BY <1>1, RowFields
  <2>2. CASE a = b
    <3>1. rows'[o][a].quantity = 0 /\ ~rows'[o][a].restored
      BY <2>2, <1>4, <1>6
    <3> QED BY <3>1, <2>1 DEF NoUnits, LiveOf
  <2>3. CASE a # b
    <3>1. rows'[o][a] = rows[o][a]
      BY <2>3, <1>4
    <3> QED BY <3>1, <2>1
  <2> QED BY <2>2, <2>3
<1>8. FreshBatches'
  <2> SUFFICES ASSUME NEW a \in Ids, a > opened
               PROVE  /\ batches'[a].quantity = 0 /\ batches'[a].remaining = 0
                      /\ \A p \in Owners : NoUnits(rows'[p][a])
    BY <1>2 DEF FreshBatches
  <2>1. /\ batches[a].quantity = 0 /\ batches[a].remaining = 0
        /\ \A p \in Owners : NoUnits(rows[p][a])
    BY <1>1 DEF FreshBatches
  <2> QED BY <2>1, <1>3, <1>6, <1>7
<1>9. FreshRows'
  <2>1. /\ \A i \in Items : line[i].status = "none" => \A a \in Ids : NoUnits(rows'[i][a])
        /\ \A c \in Claims : claim[c].status = "none" => \A a \in Ids : NoUnits(rows'[c][a])
    BY <1>1, <1>7, OwnersFinite DEF FreshRows
  <2>2. /\ \A a \in Ids : ~rows'[Loss][a].restored
        /\ \A c \in Claims : claim[c].status # "VOIDED" => \A a \in Ids : ~rows'[c][a].restored
    BY <1>1, <1>7, OwnersFinite DEF FreshRows
  <2> QED BY <2>1, <2>2, <1>2 DEF FreshRows
<1>10. ClaimDrawsOne'
  <2> SUFFICES ASSUME NEW c \in Claims, NEW a \in Ids, rows'[c][a].quantity > 0
               PROVE  rows'[c][a].quantity = 1 /\ \A x \in Ids : rows'[c][x].quantity > 0 => x = a
    BY DEF ClaimDrawsOne
  <2>1. c \in Owners /\ DrawsOne(rows[c])
    BY <1>1, OwnersFinite
  <2>2. \A x \in Ids : rows'[c][x].quantity > 0 => rows'[c][x].quantity = rows[c][x].quantity
    BY <2>1, <1>7
  <2> QED BY <2>1, <2>2 DEF DrawsOne
<1>11. ReturnBatches'
  <2>1. \A c \in Claims : claim[c].return = "REPLACED" => claim[c].batch # b
    BY <1>1, <1>2 DEF ReturnBatches
  <2> QED BY <2>1, <1>1, <1>3 DEF ReturnBatches
<1>12. BatchesBalance'
  <2> SUFFICES ASSUME ~split', NEW a \in Ids PROVE Balanced(a)'
    BY DEF BatchesBalance
  <2>1. CASE a = b
    <3>1. \A p \in Owners : LiveOf(rows'[p][a]) = 0
      BY <2>1, <1>4, <1>6 DEF LiveOf
    <3>2. batches'[a].quantity = 0 /\ batches'[a].remaining = 0
      BY <2>1, <1>3, <1>6
    <3> QED BY <3>1, <3>2, <1>5, BalanceWhole
  <2>2. CASE a # b
    <3>1. Balanced(a)
      BY <1>1, <1>2
    <3>2. \A p \in Owners : rows'[p][a] = rows[p][a]
      BY <2>2, <1>4
    <3>3. LiveOf(rows'[Loss][a]) = LiveOf(rows[Loss][a]) - 0 /\ Loss \in Owners
      BY <3>2, <1>1, RowFields, OwnersFinite
    <3>4. batches'[a].remaining = batches[a].remaining + 0 /\ batches'[a].quantity = batches[a].quantity
      BY <2>2, <1>1, <1>3, BatchFields
    <3>5. 0 \in Int
      OBVIOUS
    <3> QED BY <1>1, <1>3, <1>5, <3>1, <3>2, <3>3, <3>4, <3>5, BalanceMoves
  <2> QED BY <2>1, <2>2
<1>13. RowsInv'
  BY <1>1, <1>2, <1>3, <1>5, <1>8, <1>9, <1>10, <1>11, <1>12 DEF RowsInv
<1> QED BY <1>2, <1>3, <1>4, <1>6, <1>7, <1>13

\* The batch a void of claim c drops.
Dropped(c, b) == claim[c].return = "REPLACED" /\ b = claim[c].batch

\* What the void of claim c does to batches and rows: d units go back.
VoidMoved(c, d) ==
    /\ batches' \in [Ids -> BatchType] /\ rows' \in [Owners -> [Ids -> RowType]]
    /\ d \in [Ids -> Nat]
    /\ \A b \in Ids : Dropped(c, b) => batches'[b].quantity = 0 /\ batches'[b].remaining = 0
    /\ \A b \in Ids : ~Dropped(c, b) =>
          /\ batches'[b].quantity = batches[b].quantity /\ batches'[b].booked = batches[b].booked
          /\ batches'[b].remaining = batches[b].remaining + d[b]
    /\ \A p \in Owners : p # c => rows'[p] = rows[p]
    /\ \A b \in Ids : /\ rows'[c][b].quantity = rows[c][b].quantity
                      /\ LiveOf(rows'[c][b]) = LiveOf(rows[c][b]) - d[b]
                      /\ NoUnits(rows[c][b]) => NoUnits(rows'[c][b])

\* A claim is voided: the batch of the unit its supplier gave, which nothing was
\* drawn from, goes.
LEMMA RowsVoided ==
    ASSUME RowsInv, NEW c \in Claims, ReturnUndone(c), NEW d, VoidMoved(c, d),
           UNCHANGED <<opened, split>>, Onward,
           claim'[c].status = "VOIDED", claim'[c].return = "none",
           \A e \in Claims : e # c => claim'[e] = claim[e]
    PROVE  /\ RowsInv'
           /\ \A b \in Ids : Dropped(c, b) =>
                /\ batches[b].quantity = 1 /\ batches[b].remaining = 1 /\ d[b] = 0
           /\ claim[c].return = "REPLACED" => claim[c].batch \in Ids
<1>1. /\ batches \in [Ids -> BatchType] /\ rows \in [Owners -> [Ids -> RowType]]
      /\ opened \in 0 .. MaxBatches /\ split \in BOOLEAN
      /\ FreshBatches /\ FreshRows /\ ReturnBatches /\ \A e \in Claims : DrawsOne(rows[e])
      /\ ~split => \A a \in Ids : Balanced(a)
      /\ c \in Owners
  BY RowsFacts, OwnersFinite
<1>2. /\ batches' \in [Ids -> BatchType] /\ rows' \in [Owners -> [Ids -> RowType]]
      /\ \A p \in Owners : p # c => rows'[p] = rows[p]
      /\ \A b \in Ids : /\ d[b] \in Nat /\ rows'[c][b].quantity = rows[c][b].quantity
                        /\ LiveOf(rows'[c][b]) = LiveOf(rows[c][b]) - d[b]
                        /\ NoUnits(rows[c][b]) => NoUnits(rows'[c][b])
  BY DEF VoidMoved
<1>3. ASSUME NEW b \in Ids, Dropped(c, b)
      PROVE  /\ \A o \in Owners : rows[o][b].quantity = 0
             /\ batches[b].remaining = batches[b].quantity /\ batches[b].quantity = 1
             /\ batches'[b].quantity = 0 /\ batches'[b].remaining = 0
  BY <1>1, <1>3 DEF VoidMoved, Dropped, ReturnUndone, ReturnBatches
<1>4. ASSUME NEW b \in Ids, ~Dropped(c, b)
      PROVE  /\ batches'[b].quantity = batches[b].quantity /\ batches'[b].booked = batches[b].booked
             /\ batches'[b].remaining = batches[b].remaining + d[b]
  BY <1>4 DEF VoidMoved
<1>5. ASSUME NEW b \in Ids, rows[c][b].quantity = 0 PROVE d[b] = 0
  <2>1. LiveOf(rows[c][b]) = 0 /\ rows'[c][b].quantity = 0
    BY <1>2, <1>5 DEF LiveOf
  <2>2. LiveOf(rows'[c][b]) = 0
    BY <2>1 DEF LiveOf
  <2>3. LiveOf(rows'[c][b]) = LiveOf(rows[c][b]) - d[b] /\ d[b] \in Nat
    BY <1>2
  <2> QED BY <2>1, <2>2, <2>3
<1>6. FreshBatches'
  <2> SUFFICES ASSUME NEW b \in Ids, b > opened
               PROVE  /\ batches'[b].quantity = 0 /\ batches'[b].remaining = 0
                      /\ \A p \in Owners : NoUnits(rows'[p][b])
    BY DEF FreshBatches
  <2>1. /\ batches[b].quantity = 0 /\ batches[b].remaining = 0
        /\ \A p \in Owners : NoUnits(rows[p][b])
    BY <1>1 DEF FreshBatches
  <2>2. \A p \in Owners : NoUnits(rows'[p][b])
    BY <2>1, <1>1, <1>2
  <2>3. d[b] = 0
    BY <2>1, <1>1, <1>5 DEF NoUnits
  <2> QED BY <2>1, <2>2, <2>3, <1>3, <1>4
<1>7. FreshRows'
  <2>1. ASSUME NEW i \in Items, line'[i].status = "none" PROVE \A b \in Ids : NoUnits(rows'[i][b])
    <3>1. i # c /\ i \in Owners /\ line[i].status = "none"
      BY <2>1, OwnersFinite DEF Onward
    <3> QED BY <3>1, <1>1, <1>2 DEF FreshRows
  <2>2. \A b \in Ids : ~rows'[Loss][b].restored
    <3>1. rows'[Loss] = rows[Loss]
      BY <1>2, OwnersFinite
    <3> QED BY <3>1, <1>1 DEF FreshRows
  <2>3. ASSUME NEW e \in Claims, e # c
        PROVE  rows'[e] = rows[e] /\ claim'[e] = claim[e]
    BY <2>3, <1>2, OwnersFinite
  <2> QED BY <2>1, <2>2, <2>3, <1>1 DEF FreshRows
<1>8. ClaimDrawsOne'
  <2>1. ASSUME NEW e \in Claims PROVE \A b \in Ids : rows'[e][b].quantity = rows[e][b].quantity
    BY <1>2, OwnersFinite
  <2>2. ASSUME NEW e \in Claims PROVE DrawsOne(rows'[e])
    <3>1. DrawsOne(rows[e]) /\ \A b \in Ids : rows'[e][b].quantity = rows[e][b].quantity
      BY <1>1, <2>1
    <3> QED BY <3>1 DEF DrawsOne
  <2> QED BY <2>2 DEF ClaimDrawsOne, DrawsOne
<1>9. ReturnBatches'
  <2>1. \A e \in Claims : claim'[e].return = "REPLACED" =>
            /\ e # c /\ claim[e].return = "REPLACED" /\ claim'[e].batch = claim[e].batch
            /\ claim[e].batch \in Ids
    BY <1>1 DEF ReturnBatches
  <2>2. \A e \in Claims : claim'[e].return = "REPLACED" => ~Dropped(c, claim[e].batch)
    BY <2>1, <1>1 DEF ReturnBatches, Dropped
  <2>3. \A e \in Claims : claim'[e].return = "REPLACED" =>
            /\ claim'[e].batch \in Ids
            /\ batches'[claim'[e].batch].quantity = 1 /\ ~batches'[claim'[e].batch].booked
    BY <2>1, <2>2, <1>1, <1>4 DEF ReturnBatches
  <2>4. \A e, f \in Claims :
            claim'[e].return = "REPLACED" /\ claim'[f].return = "REPLACED"
                /\ claim'[e].batch = claim'[f].batch => e = f
    BY <2>1, <1>1 DEF ReturnBatches
  <2> QED BY <2>3, <2>4 DEF ReturnBatches
<1>10. BatchesBalance'
  <2> SUFFICES ASSUME ~split', NEW b \in Ids PROVE Balanced(b)'
    BY DEF BatchesBalance
  <2>1. CASE Dropped(c, b)
    <3>1. \A p \in Owners : rows'[p][b].quantity = 0
      BY <2>1, <1>2, <1>3
    <3>2. \A p \in Owners : LiveOf(rows'[p][b]) = 0
      BY <3>1 DEF LiveOf
    <3> QED BY <2>1, <3>2, <1>2, <1>3, BalanceWhole
  <2>2. CASE ~Dropped(c, b)
    <3>1. Balanced(b) /\ d[b] \in Int
      BY <1>1, <1>2
    <3>2. LiveOf(rows'[c][b]) = LiveOf(rows[c][b]) - d[b]
      BY <1>2
    <3>3. \A p \in Owners : p # c => rows'[p][b] = rows[p][b]
      BY <1>2
    <3>4. batches'[b].quantity = batches[b].quantity /\ batches'[b].remaining = batches[b].remaining + d[b]
      BY <2>2, <1>4
    <3>5. /\ batches \in [Ids -> BatchType] /\ rows \in [Owners -> [Ids -> RowType]]
          /\ batches' \in [Ids -> BatchType] /\ rows' \in [Owners -> [Ids -> RowType]]
      BY <1>1, <1>2
    <3> QED BY <1>1, <3>1, <3>2, <3>3, <3>4, <3>5, BalanceMoves
  <2> QED BY <2>1, <2>2
<1>11. RowsInv'
  BY <1>1, <1>2, <1>6, <1>7, <1>8, <1>9, <1>10 DEF RowsInv
<1>12. \A b \in Ids : Dropped(c, b) => d[b] = 0
  BY <1>1, <1>3, <1>5
<1>13. claim[c].return = "REPLACED" => claim[c].batch \in Ids
  BY <1>1 DEF ReturnBatches
<1> QED BY <1>3, <1>11, <1>12, <1>13

\* Both forms of the void are of that kind.
LEMMA VoidMoves ==
    ASSUME batches \in [Ids -> BatchType], rows \in [Owners -> [Ids -> RowType]], NEW c \in Claims,
           DrawsOne(rows[c]), \A b \in Ids : ~rows[c][b].restored, ReturnUndone(c),
           \A b \in Ids : Dropped(c, b) => \A o \in Owners : rows[o][b].quantity = 0,
           batches' = [b \in Ids |-> [WithoutReturn(c)[b] EXCEPT !.remaining = @ + Give(c, 1)[b]]],
           rows' = [rows EXCEPT ![c] = [b \in Ids |-> [quantity |-> @[b].quantity,
                                                       restored |-> b \in Active(c)]]]
    PROVE  /\ VoidMoved(c, Give(c, 1))
           /\ SumFunctionOnSet(Give(c, 1), Ids) = Smaller(1, Drawn(c, Active(c)))
<1> DEFINE g == Give(c, 1)
           w == WithoutReturn(c)
           m == [b \in Ids |-> w[b].remaining + g[b]]
           r == [b \in Ids |-> [quantity |-> rows[c][b].quantity, restored |-> b \in Active(c)]]
<1>1. c \in Owners
  BY OwnersFinite
<1>2. /\ g \in [Ids -> Nat]
      /\ \A b \in Ids : g[b] <= LiveOf(rows[c][b]) /\ g[b] <= rows[c][b].quantity
      /\ SumFunctionOnSet(g, Ids) = Smaller(1, Drawn(c, Active(c)))
  <2>1. 1 \in Nat
    OBVIOUS
  <2> QED BY <1>1, <2>1, GiveFacts
<1>3. \A b \in Ids : rows[c][b].quantity \in Nat /\ LiveOf(rows[c][b]) = rows[c][b].quantity
  BY <1>1, RowFields DEF LiveOf
<1>4. \A b \in Ids : b \in Active(c) <=> rows[c][b].quantity > 0
  BY DEF Active
<1>5. ASSUME NEW b \in Ids PROVE g[b] = rows[c][b].quantity
  <2>1. CASE rows[c][b].quantity = 0
    BY <2>1, <1>2
  <2>2. CASE rows[c][b].quantity # 0
    <3>1. rows[c][b].quantity = 1 /\ Active(c) = {b}
      BY <2>2, <1>3, <1>4 DEF DrawsOne, Active
    <3>2. {a \in Active(c) : a > b} = {}
      BY <3>1, IdsFinite
    <3>3. Drawn(c, {}) = 0
      <4>1. IsFiniteSet({})
        BY FS_EmptySet
      <4>2. SumFunctionOnSet([a \in Ids |-> rows[c][a].quantity], {}) = 0
        BY <4>1, SumZero
      <4> QED BY <4>2 DEF Drawn
    <3>4. g[b] = Share(1, 0, 1)
      BY <3>1, <3>2, <3>3 DEF Give
    <3>5. Share(1, 0, 1) = 1
      <4>1. Share(1, 0, 1) = WalkTakes(1, 0, 1)
        BY ShareIs
      <4> QED BY <4>1 DEF WalkTakes, Smaller
    <3> QED BY <3>1, <3>4, <3>5
  <2> QED BY <2>1, <2>2
<1>6. w \in [Ids -> BatchType] /\ \A b \in Ids : w[b] = IF Dropped(c, b) THEN NoBatch ELSE batches[b]
  BY NothingTyped DEF WithoutReturn, Dropped
<1>7. /\ rows' = [rows EXCEPT ![c] = r]
      /\ batches' = [b \in Ids |-> [w[b] EXCEPT !.remaining = m[b]]]
  OBVIOUS
<1> HIDE DEF g, w
<1>8. \A b \in Ids : w[b].remaining \in Nat
  BY <1>6 DEF BatchType
<1>9. m \in [Ids -> Nat] /\ \A b \in Ids : m[b] = w[b].remaining + g[b]
  BY <1>2, <1>8
<1> HIDE DEF m
<1>10. ASSUME NEW b \in Ids
       PROVE  /\ batches'[b] \in BatchType /\ batches'[b].quantity = w[b].quantity
              /\ batches'[b].booked = w[b].booked /\ batches'[b].remaining = m[b]
  <2>1. batches'[b] = [w[b] EXCEPT !.remaining = m[b]] /\ w[b] \in BatchType /\ m[b] \in Nat
    BY <1>6, <1>7, <1>9
  <2> QED BY <2>1 DEF BatchType
<1>11. batches' \in [Ids -> BatchType]
  BY <1>7, <1>10
<1>12. ASSUME NEW b \in Ids
       PROVE  /\ r[b] \in RowType /\ r[b].quantity = rows[c][b].quantity
              /\ r[b].restored <=> rows[c][b].quantity > 0
  <2> DEFINE n == rows[c][b].quantity
             a == b \in Active(c)
  <2>1. r[b] = [quantity |-> n, restored |-> a]
    OBVIOUS
  <2>2. n \in Nat /\ a \in BOOLEAN /\ (a <=> n > 0)
    BY <1>3, <1>4
  <2> HIDE DEF n, a
  <2>3. r[b] \in RowType /\ r[b].quantity = n /\ r[b].restored = a
    BY <2>1, <2>2 DEF RowType
  <2> QED BY <2>2, <2>3 DEF n
<1>13. r = [b \in Ids |-> r[b]]
  OBVIOUS
<1> HIDE DEF r
<1>14. /\ rows' \in [Owners -> [Ids -> RowType]] /\ rows'[c] = r
       /\ \A p \in Owners : p # c => rows'[p] = rows[p]
  BY <1>1, <1>7, <1>12, <1>13, NewRows
<1>15. ASSUME NEW b \in Ids
       PROVE  /\ rows'[c][b].quantity = rows[c][b].quantity
              /\ LiveOf(rows'[c][b]) = LiveOf(rows[c][b]) - g[b]
              /\ NoUnits(rows[c][b]) => NoUnits(rows'[c][b])
  <2>1. /\ rows'[c][b].quantity = rows[c][b].quantity
        /\ rows'[c][b].restored <=> rows[c][b].quantity > 0
    BY <1>12, <1>14
  <2>2. LiveOf(rows'[c][b]) = 0
    BY <2>1, <1>3 DEF LiveOf
  <2> QED BY <2>1, <2>2, <1>3, <1>5 DEF NoUnits
<1>16. ASSUME NEW b \in Ids, Dropped(c, b)
       PROVE  batches'[b].quantity = 0 /\ batches'[b].remaining = 0
  <2>1. w[b].quantity = 0 /\ w[b].remaining = 0
    BY <1>6, <1>16 DEF NoBatch
  <2>2. g[b] = 0
    BY <1>1, <1>5, <1>16
  <2> QED BY <2>1, <2>2, <1>9, <1>10
<1>17. ASSUME NEW b \in Ids, ~Dropped(c, b)
       PROVE  /\ batches'[b].quantity = batches[b].quantity /\ batches'[b].booked = batches[b].booked
              /\ batches'[b].remaining = batches[b].remaining + g[b]
  BY <1>6, <1>9, <1>10, <1>17
<1>18. VoidMoved(c, g)
  BY <1>2, <1>11, <1>14, <1>15, <1>16, <1>17 DEF VoidMoved
<1> QED BY <1>2, <1>18 DEF g

LEMMA VoidDrops ==
    ASSUME batches \in [Ids -> BatchType], rows \in [Owners -> [Ids -> RowType]], NEW c \in Claims,
           batches' = WithoutReturn(c), UNCHANGED rows
    PROVE  VoidMoved(c, [b \in Ids |-> 0])
<1> DEFINE z == [b \in Ids |-> 0]
<1>1. \A b \in Ids : z[b] = 0
  OBVIOUS
<1>2. z \in [Ids -> Nat]
  OBVIOUS
<1> HIDE DEF z
<1>3. batches' \in [Ids -> BatchType] /\ \A b \in Ids : batches'[b] = IF Dropped(c, b) THEN NoBatch ELSE batches[b]
  BY NothingTyped DEF WithoutReturn, Dropped
<1>4. \A b \in Ids : /\ Dropped(c, b) => batches'[b].quantity = 0 /\ batches'[b].remaining = 0
                     /\ ~Dropped(c, b) =>
                          /\ batches'[b].quantity = batches[b].quantity
                          /\ batches'[b].booked = batches[b].booked
                          /\ batches'[b].remaining = batches[b].remaining + z[b]
  BY <1>1, <1>3, BatchFields DEF NoBatch
<1>5. \A b \in Ids : LiveOf(rows'[c][b]) = LiveOf(rows[c][b]) - z[b]
  BY <1>1, RowFields, OwnersFinite
<1>6. VoidMoved(c, z)
  BY <1>2, <1>3, <1>4, <1>5 DEF VoidMoved
<1> QED BY <1>6 DEF z

-----------------------------------------------------------------------------
(* The sums over batches, rows and lines                                   *)

RemainingOf(bt) == SumFunctionOnSet([b \in Ids |-> bt[b].remaining], Ids)
QuantityOf(bt) == SumFunctionOnSet([b \in Ids |-> bt[b].quantity], Ids)
LiveSum(r) == SumFunctionOnSet([b \in Ids |-> LiveOf(r[b])], Ids)
KeptOf(l, bk) == SumFunctionOnSet([i \in Items |-> l[i].quantity - bk[i]], Items)

LEMMA BatchRecord ==
    ASSUME NEW x \in BatchType
    PROVE  x.quantity \in Nat /\ x.remaining \in Nat
BY DEF BatchType

LEMMA BatchSumsNat ==
    ASSUME NEW bt \in [Ids -> BatchType]
    PROVE  RemainingOf(bt) \in Nat /\ QuantityOf(bt) \in Nat
<1> DEFINE f == [b \in Ids |-> bt[b].remaining]
           g == [b \in Ids |-> bt[b].quantity]
<1>1. f \in [Ids -> Nat] /\ g \in [Ids -> Nat]
  BY BatchRecord
<1> HIDE DEF f, g
<1>2. SumFunctionOnSet(f, Ids) \in Nat /\ SumFunctionOnSet(g, Ids) \in Nat
  BY <1>1, IdsFinite, SumNat
<1> QED BY <1>2 DEF RemainingOf, QuantityOf, f, g

\* Batch b gets d[b] units.
LEMMA RemainingMove ==
    ASSUME NEW bt \in [Ids -> BatchType], NEW bu \in [Ids -> BatchType], NEW d \in [Ids -> Int],
           \A b \in Ids : bu[b].remaining = bt[b].remaining + d[b]
    PROVE  RemainingOf(bu) = RemainingOf(bt) + SumFunctionOnSet(d, Ids)
<1> DEFINE f == [b \in Ids |-> bt[b].remaining]
           e == [b \in Ids |-> bu[b].remaining]
<1>1. f \in [Ids -> Int] /\ e \in [Ids -> Int] /\ \A b \in Ids : e[b] = f[b] + d[b]
  BY BatchRecord
<1> HIDE DEF f, e
<1>2. SumFunctionOnSet(e, Ids) = SumFunctionOnSet(f, Ids) + SumFunctionOnSet(d, Ids)
  <2>1. AddsUp(e, f, d, Ids)
    BY <1>1, IdsFinite DEF AddsUp
  <2> QED BY <2>1, SumPlusAll
<1> QED BY <1>2 DEF RemainingOf, f, e

LEMMA QuantitySame ==
    ASSUME NEW bt, NEW bu, \A b \in Ids : bu[b].quantity = bt[b].quantity
    PROVE  QuantityOf(bu) = QuantityOf(bt)
BY DEF QuantityOf

\* Only batch x changes.
LEMMA BatchChange ==
    ASSUME NEW bt \in [Ids -> BatchType], NEW bu \in [Ids -> BatchType], NEW x \in Ids,
           \A b \in Ids : b # x => bu[b] = bt[b]
    PROVE  /\ RemainingOf(bu) = RemainingOf(bt) - bt[x].remaining + bu[x].remaining
           /\ QuantityOf(bu) = QuantityOf(bt) - bt[x].quantity + bu[x].quantity
<1>1. RemainingOf(bu) = RemainingOf(bt) - bt[x].remaining + bu[x].remaining
  <2> DEFINE f == [b \in Ids |-> bt[b].remaining]
             e == [b \in Ids |-> bu[b].remaining]
  <2>1. f \in [Ids -> Int] /\ e \in [Ids -> Int] /\ \A b \in Ids : b # x => e[b] = f[b]
    BY BatchRecord
  <2>2. f[x] = bt[x].remaining /\ e[x] = bu[x].remaining
    OBVIOUS
  <2> HIDE DEF f, e
  <2>3. EqualBut(f, e, Ids, x)
    BY <2>1, IdsFinite DEF EqualBut
  <2>4. SumFunctionOnSet(e, Ids) = SumFunctionOnSet(f, Ids) - f[x] + e[x]
    BY <2>3, SumChangeAll
  <2> QED BY <2>2, <2>4 DEF RemainingOf, f, e
<1>2. QuantityOf(bu) = QuantityOf(bt) - bt[x].quantity + bu[x].quantity
  <2> DEFINE f == [b \in Ids |-> bt[b].quantity]
             e == [b \in Ids |-> bu[b].quantity]
  <2>1. f \in [Ids -> Int] /\ e \in [Ids -> Int] /\ \A b \in Ids : b # x => e[b] = f[b]
    BY BatchRecord
  <2>2. f[x] = bt[x].quantity /\ e[x] = bu[x].quantity
    OBVIOUS
  <2> HIDE DEF f, e
  <2>3. EqualBut(f, e, Ids, x)
    BY <2>1, IdsFinite DEF EqualBut
  <2>4. SumFunctionOnSet(e, Ids) = SumFunctionOnSet(f, Ids) - f[x] + e[x]
    BY <2>3, SumChangeAll
  <2> QED BY <2>2, <2>4 DEF QuantityOf, f, e
<1> QED BY <1>1, <1>2

LEMMA RowRecord ==
    ASSUME NEW x \in RowType
    PROVE  x.quantity \in Nat /\ x.restored \in BOOLEAN /\ LiveOf(x) \in Nat
<1>1. x.quantity \in Nat /\ x.restored \in BOOLEAN
  BY DEF RowType
<1> QED BY <1>1 DEF LiveOf

LEMMA LiveSumNat ==
    ASSUME NEW r \in [Ids -> RowType]
    PROVE  LiveSum(r) \in Nat
<1> DEFINE f == [b \in Ids |-> LiveOf(r[b])]
<1>1. f \in [Ids -> Nat]
  BY RowRecord
<1> HIDE DEF f
<1>2. SumFunctionOnSet(f, Ids) \in Nat
  BY <1>1, IdsFinite, SumNat
<1> QED BY <1>2 DEF LiveSum, f

LEMMA LiveSumMove ==
    ASSUME NEW r \in [Ids -> RowType], NEW s \in [Ids -> RowType], NEW d \in [Ids -> Int],
           \A b \in Ids : LiveOf(s[b]) = LiveOf(r[b]) - d[b]
    PROVE  LiveSum(s) = LiveSum(r) - SumFunctionOnSet(d, Ids) /\ SumFunctionOnSet(d, Ids) \in Int
<1> DEFINE f == [b \in Ids |-> LiveOf(r[b])]
           e == [b \in Ids |-> LiveOf(s[b])]
<1>1. /\ f \in [Ids -> Int] /\ e \in [Ids -> Int] /\ \A b \in Ids : f[b] \in Int /\ e[b] \in Int
      /\ \A b \in Ids : e[b] = f[b] - d[b]
  BY RowRecord
<1> HIDE DEF f, e
<1>2. \A b \in Ids : f[b] = e[b] + d[b]
  BY <1>1
<1>3. SumFunctionOnSet(f, Ids) = SumFunctionOnSet(e, Ids) + SumFunctionOnSet(d, Ids)
  <2>1. AddsUp(f, e, d, Ids)
    BY <1>1, <1>2, IdsFinite DEF AddsUp
  <2> QED BY <2>1, SumPlusAll
<1>4. SumFunctionOnSet(e, Ids) \in Int /\ SumFunctionOnSet(d, Ids) \in Int
  BY <1>1, IdsFinite, SumStep
<1>5. SumFunctionOnSet(e, Ids) = SumFunctionOnSet(f, Ids) - SumFunctionOnSet(d, Ids)
  BY <1>3, <1>4
<1> QED BY <1>4, <1>5 DEF LiveSum, f, e

LEMMA LiveSumLess ==
    ASSUME NEW r \in [Ids -> RowType], NEW s \in [Ids -> RowType],
           \A b \in Ids : LiveOf(s[b]) <= LiveOf(r[b])
    PROVE  LiveSum(s) <= LiveSum(r)
<1> DEFINE f == [b \in Ids |-> LiveOf(r[b])]
           e == [b \in Ids |-> LiveOf(s[b])]
<1>1. f \in [Ids -> Int] /\ e \in [Ids -> Int] /\ \A b \in Ids : e[b] <= f[b]
  BY RowRecord
<1> HIDE DEF f, e
<1>2. SumFunctionOnSet(e, Ids) <= SumFunctionOnSet(f, Ids)
  BY <1>1, IdsFinite, SumLess
<1> QED BY <1>2 DEF LiveSum, f, e

LEMMA NegativeSum ==
    ASSUME NEW t \in [Ids -> Nat]
    PROVE  SumFunctionOnSet([b \in Ids |-> -t[b]], Ids) = -SumFunctionOnSet(t, Ids)
<1> DEFINE d == [b \in Ids |-> -t[b]]
           z == [b \in Ids |-> 0]
<1>1. /\ \A b \in Ids : t[b] \in Int /\ d[b] = -t[b] /\ z[b] = 0
      /\ t \in [Ids -> Int] /\ d \in [Ids -> Int] /\ z \in [Ids -> Int]
  OBVIOUS
<1> HIDE DEF d, z
<1>2. \A b \in Ids : z[b] = t[b] + d[b]
  BY <1>1
<1>3. SumFunctionOnSet(z, Ids) = SumFunctionOnSet(t, Ids) + SumFunctionOnSet(d, Ids)
  <2>1. AddsUp(z, t, d, Ids)
    BY <1>1, <1>2, IdsFinite DEF AddsUp
  <2> QED BY <2>1, SumPlusAll
<1>4. SumFunctionOnSet(z, Ids) = 0
  BY <1>1, IdsFinite, SumZero
<1>5. SumFunctionOnSet(t, Ids) \in Int /\ SumFunctionOnSet(d, Ids) \in Int
  BY <1>1, IdsFinite, SumStep
<1>6. SumFunctionOnSet(d, Ids) = -SumFunctionOnSet(t, Ids)
  BY <1>3, <1>4, <1>5
<1> QED BY <1>6 DEF d

LEMMA LineRecord ==
    ASSUME NEW x \in LineType
    PROVE  x.quantity \in Nat /\ x.refunded \in Nat
<1>1. \A y \in 0 .. MaxQty : y \in Nat
  BY IdsFinite
<1> QED BY <1>1 DEF LineType

LEMMA KeptInt ==
    ASSUME NEW l \in [Items -> LineType], NEW bk \in [Items -> Nat]
    PROVE  KeptOf(l, bk) \in Int
<1> DEFINE f == [i \in Items |-> l[i].quantity - bk[i]]
<1>1. f \in [Items -> Int]
  BY LineRecord
<1> HIDE DEF f
<1>2. SumFunctionOnSet(f, Items) \in Int
  BY <1>1, OwnersFinite, SumStep
<1> QED BY <1>2 DEF KeptOf, f

LEMMA KeptSame ==
    ASSUME NEW l, NEW m, NEW bk, \A i \in Items : m[i].quantity = l[i].quantity
    PROVE  KeptOf(m, bk) = KeptOf(l, bk)
BY DEF KeptOf

\* Only line i changes.
LEMMA KeptMove ==
    ASSUME NEW l \in [Items -> LineType], NEW bk \in [Items -> Nat],
           NEW m \in [Items -> LineType], NEW bm \in [Items -> Nat], NEW i \in Items,
           \A j \in Items : j # i => m[j] = l[j] /\ bm[j] = bk[j]
    PROVE  KeptOf(m, bm) = KeptOf(l, bk) - (l[i].quantity - bk[i]) + (m[i].quantity - bm[i])
<1> DEFINE f == [j \in Items |-> l[j].quantity - bk[j]]
           g == [j \in Items |-> m[j].quantity - bm[j]]
<1>1. /\ f \in [Items -> Int] /\ g \in [Items -> Int]
      /\ \A j \in Items : j # i => g[j] = f[j]
  BY LineRecord
<1>2. f[i] = l[i].quantity - bk[i] /\ g[i] = m[i].quantity - bm[i]
  OBVIOUS
<1> HIDE DEF f, g
<1>3. EqualBut(f, g, Items, i)
  BY <1>1, OwnersFinite DEF EqualBut
<1>4. SumFunctionOnSet(g, Items) = SumFunctionOnSet(f, Items) - f[i] + g[i]
  BY <1>3, SumChangeAll
<1> QED BY <1>2, <1>4 DEF KeptOf, f, g

\* What a line is charged with is the sum of its live rows.
LEMMA DrawnIs ==
    ASSUME rows \in [Owners -> [Ids -> RowType]], NEW o \in Owners
    PROVE  Drawn(o, Active(o)) = LiveSum(rows[o])
<1> DEFINE f == [b \in Ids |-> LiveOf(rows[o][b])]
           g == [b \in Ids |-> rows[o][b].quantity]
           S == Active(o)
<1>1. S \in SUBSET Ids
  BY DEF Active
<1>2. f \in [Ids -> Int]
  BY RowFields
<1>3. \A b \in S : f[b] = g[b]
  BY <1>1 DEF Active, LiveOf
<1>4. \A b \in Ids : b \notin S => f[b] = 0
  BY RowFields DEF Active, LiveOf
<1> HIDE DEF f, g, S
<1>5. SumFunctionOnSet(f, Ids) = SumFunctionOnSet(f, S)
  BY <1>1, <1>2, <1>4, IdsFinite, SumSupport
<1>6. SumFunctionOnSet(f, S) = SumFunctionOnSet(g, S)
  BY <1>3, SumSame
<1> QED BY <1>5, <1>6 DEF LiveSum, Drawn, f, g, S

LEMMA DrawnIsNext ==
    ASSUME rows' \in [Owners -> [Ids -> RowType]], NEW o \in Owners
    PROVE  Drawn(o, Active(o))' = LiveSum(rows'[o])
<1> DEFINE f == [b \in Ids |-> LiveOf(rows'[o][b])]
           g == [b \in Ids |-> rows'[o][b].quantity]
           S == {b \in Ids : rows'[o][b].quantity > 0 /\ ~rows'[o][b].restored}
<1>1. S \in SUBSET Ids
  OBVIOUS
<1>2. \A b \in Ids : rows'[o][b] \in RowType
  OBVIOUS
<1>3. f \in [Ids -> Int] /\ \A b \in Ids : rows'[o][b].quantity \in Nat
  BY <1>2, RowRecord
<1>4. \A b \in S : f[b] = g[b]
  BY DEF LiveOf
<1>5. \A b \in Ids : b \notin S => f[b] = 0
  BY <1>3 DEF LiveOf
<1>6. Drawn(o, Active(o))' = SumFunctionOnSet(g, S)
  BY DEF Drawn, Active
<1>7. LiveSum(rows'[o]) = SumFunctionOnSet(f, Ids)
  BY DEF LiveSum
<1> HIDE DEF f, g, S
<1>8. SumFunctionOnSet(f, Ids) = SumFunctionOnSet(f, S)
  BY <1>1, <1>3, <1>5, IdsFinite, SumSupport
<1>9. SumFunctionOnSet(f, S) = SumFunctionOnSet(g, S)
  BY <1>4, SumSame
<1> QED BY <1>6, <1>7, <1>8, <1>9

\* The units invariant in terms of these sums.
LineHolds(l, r, bk) == ~l.reversed => LiveSum(r) + bk <= l.quantity

LEMMA UnitsFacts ==
    ASSUME UnitsInv, rows \in [Owners -> [Ids -> RowType]]
    PROVE  /\ stock \in Int /\ lost \in Nat /\ blind \in BOOLEAN
           /\ stock = Opening + QuantityOf(batches) - lost - KeptOf(line, back)
                        - Cardinality(Replacements)
           /\ ~split => \A i \in Items : LineHolds(line[i], rows[i], back[i])
           /\ ~blind => stock >= RemainingOf(batches)
<1>1. /\ stock \in Int /\ lost \in Nat /\ blind \in BOOLEAN
      /\ UnitsAccounted /\ LineAccounted /\ ShelfHolds
  BY DEF UnitsInv
<1>2. stock = Opening + QuantityOf(batches) - lost - KeptOf(line, back) - Cardinality(Replacements)
  BY <1>1 DEF UnitsAccounted, QuantityOf, KeptOf
<1>3. ASSUME ~split, NEW i \in Items PROVE LineHolds(line[i], rows[i], back[i])
  <2>1. Drawn(i, Active(i)) = LiveSum(rows[i])
    BY DrawnIs, OwnersFinite
  <2> QED BY <1>1, <1>3, <2>1 DEF LineAccounted, LineHolds
<1>4. ~blind => stock >= RemainingOf(batches)
  BY <1>1 DEF ShelfHolds, Remaining, RemainingOf
<1> QED BY <1>1, <1>2, <1>3, <1>4

LEMMA UnitsFrom ==
    ASSUME rows' \in [Owners -> [Ids -> RowType]],
           stock' \in Int, lost' \in Nat, blind' \in BOOLEAN,
           stock' = Opening + QuantityOf(batches') - lost' - KeptOf(line', back')
                        - Cardinality(Replacements)',
           ~split' => \A i \in Items : LineHolds(line'[i], rows'[i], back'[i]),
           ~blind' => stock' >= RemainingOf(batches')
    PROVE  UnitsInv'
<1>1. UnitsAccounted'
  BY DEF UnitsAccounted, QuantityOf, KeptOf
<1>2. LineAccounted'
  <2>1. ASSUME ~split', NEW i \in Items, ~line'[i].reversed
        PROVE  Drawn(i, Active(i))' + back'[i] <= line'[i].quantity
    <3>1. Drawn(i, Active(i))' = LiveSum(rows'[i])
      BY DrawnIsNext, OwnersFinite
    <3> QED BY <2>1, <3>1 DEF LineHolds
  <2> QED BY <2>1 DEF LineAccounted
<1>3. ShelfHolds'
  BY DEF ShelfHolds, Remaining, RemainingOf
<1> QED BY <1>1, <1>2, <1>3 DEF UnitsInv

LEMMA InvFacts ==
    ASSUME WarrantyInv
    PROVE  /\ BooksInv /\ RowsInv /\ UnitsInv
           /\ line \in [Items -> LineType] /\ claim \in [Claims -> ClaimType]
           /\ back \in [Items -> Nat] /\ ClaimsStaged
           /\ batches \in [Ids -> BatchType] /\ rows \in [Owners -> [Ids -> RowType]]
           /\ stock \in Int /\ lost \in Nat /\ blind \in BOOLEAN /\ split \in BOOLEAN
<1>1. BooksInv /\ RowsInv /\ UnitsInv
  BY DEF WarrantyInv
<1>2. BookTypes /\ ClaimsStaged
  BY <1>1, BooksFacts
<1>3. batches \in [Ids -> BatchType] /\ rows \in [Owners -> [Ids -> RowType]] /\ split \in BOOLEAN
  BY <1>1, RowsFacts
<1>4. stock \in Int /\ lost \in Nat /\ blind \in BOOLEAN
  BY <1>1 DEF UnitsInv
<1> QED BY <1>1, <1>2, <1>3, <1>4 DEF BookTypes

LEMMA SumFacts ==
    ASSUME WarrantyInv
    PROVE  /\ RemainingOf(batches) \in Nat /\ QuantityOf(batches) \in Nat
           /\ KeptOf(line, back) \in Int /\ Cardinality(Replacements) \in Nat /\ Opening \in Nat
           /\ stock = Opening + QuantityOf(batches) - lost - KeptOf(line, back)
                        - Cardinality(Replacements)
           /\ ~split => \A i \in Items : LineHolds(line[i], rows[i], back[i])
           /\ ~blind => stock >= RemainingOf(batches)
           /\ Remaining(Ids) = RemainingOf(batches)
           /\ \A o \in Owners : LiveSum(rows[o]) \in Nat
<1>1. /\ UnitsInv /\ line \in [Items -> LineType] /\ back \in [Items -> Nat]
      /\ batches \in [Ids -> BatchType] /\ rows \in [Owners -> [Ids -> RowType]]
  BY InvFacts
<1>2. RemainingOf(batches) \in Nat /\ QuantityOf(batches) \in Nat
  BY <1>1, BatchSumsNat
<1>3. KeptOf(line, back) \in Int
  BY <1>1, KeptInt
<1>4. Cardinality(Replacements) \in Nat /\ Opening \in Nat
  BY ClaimSetsFinite, StockAssumption
<1>5. Remaining(Ids) = RemainingOf(batches)
  BY DEF Remaining, RemainingOf
<1>6. \A o \in Owners : LiveSum(rows[o]) \in Nat
  BY <1>1, LiveSumNat
<1>7. /\ stock = Opening + QuantityOf(batches) - lost - KeptOf(line, back) - Cardinality(Replacements)
      /\ ~split => \A i \in Items : LineHolds(line[i], rows[i], back[i])
      /\ ~blind => stock >= RemainingOf(batches)
  BY <1>1, UnitsFacts
<1> QED BY <1>2, <1>3, <1>4, <1>5, <1>6, <1>7

\* What a walk does to the sums.
LEMMA MovedSums ==
    ASSUME batches \in [Ids -> BatchType], rows \in [Owners -> [Ids -> RowType]],
           NEW o \in Owners, NEW d, Moved(o, d)
    PROVE  /\ rows' \in [Owners -> [Ids -> RowType]] /\ SumFunctionOnSet(d, Ids) \in Int
           /\ QuantityOf(batches') = QuantityOf(batches)
           /\ RemainingOf(batches') = RemainingOf(batches) + SumFunctionOnSet(d, Ids)
           /\ \A p \in Owners : p # o => rows'[p] = rows[p]
           /\ ~split' => LiveSum(rows'[o]) = LiveSum(rows[o]) - SumFunctionOnSet(d, Ids)
<1>1. /\ batches' \in [Ids -> BatchType] /\ rows' \in [Owners -> [Ids -> RowType]]
      /\ d \in [Ids -> Int] /\ \A p \in Owners : p # o => rows'[p] = rows[p]
  BY DEF Moved
<1>2. \A b \in Ids : batches'[b].quantity = batches[b].quantity
  BY DEF Moved
<1>3. \A b \in Ids : batches'[b].remaining = batches[b].remaining + d[b]
  BY DEF Moved
<1>4. QuantityOf(batches') = QuantityOf(batches)
  BY <1>2, QuantitySame
<1>5. RemainingOf(batches') = RemainingOf(batches) + SumFunctionOnSet(d, Ids)
  BY <1>1, <1>3, RemainingMove
<1>6. SumFunctionOnSet(d, Ids) \in Int
  BY <1>1, IdsFinite, SumStep
<1>7. ASSUME ~split' PROVE LiveSum(rows'[o]) = LiveSum(rows[o]) - SumFunctionOnSet(d, Ids)
  <2>1. \A b \in Ids : LiveOf(rows'[o][b]) = LiveOf(rows[o][b]) - d[b]
    BY <1>7 DEF Moved
  <2>2. rows[o] \in [Ids -> RowType] /\ rows'[o] \in [Ids -> RowType]
    BY <1>1
  <2> QED BY <2>1, <2>2, <1>1, LiveSumMove
<1> QED BY <1>1, <1>4, <1>5, <1>6, <1>7

\* A draw takes q units or all there are.
LEMMA ConsumeSums ==
    ASSUME batches \in [Ids -> BatchType], rows \in [Owners -> [Ids -> RowType]],
           NEW o \in Owners, NEW q \in Nat, \A b \in Ids : ~rows[o][b].restored, Consume(o, q)
    PROVE  /\ rows' \in [Owners -> [Ids -> RowType]]
           /\ QuantityOf(batches') = QuantityOf(batches)
           /\ RemainingOf(batches') = RemainingOf(batches) - Smaller(q, RemainingOf(batches))
           /\ \A p \in Owners : p # o => rows'[p] = rows[p]
           /\ ~split' => LiveSum(rows'[o]) = LiveSum(rows[o]) + Smaller(q, RemainingOf(batches))
<1> DEFINE t == Take(q)
           d == [b \in Ids |-> -t[b]]
           R == RemainingOf(batches)
<1>1. Moved(o, d)
  BY ConsumeMoves
<1>2. t \in [Ids -> Nat] /\ SumFunctionOnSet(t, Ids) = Smaller(q, Remaining(Ids))
  BY TakeFacts
<1>3. R \in Nat /\ Remaining(Ids) = R
  BY BatchSumsNat DEF Remaining, RemainingOf
<1>4. Smaller(q, R) \in Nat
  BY <1>3 DEF Smaller
<1> HIDE DEF t
<1>5. SumFunctionOnSet(d, Ids) = -SumFunctionOnSet(t, Ids)
  BY <1>2, NegativeSum
<1> HIDE DEF d, R
<1>6. SumFunctionOnSet(d, Ids) = -Smaller(q, R)
  BY <1>2, <1>3, <1>5
<1>7. /\ rows' \in [Owners -> [Ids -> RowType]] /\ QuantityOf(batches') = QuantityOf(batches)
      /\ \A p \in Owners : p # o => rows'[p] = rows[p]
  BY <1>1, MovedSums
<1>8. /\ RemainingOf(batches') = RemainingOf(batches) + SumFunctionOnSet(d, Ids)
      /\ ~split' => LiveSum(rows'[o]) = LiveSum(rows[o]) - SumFunctionOnSet(d, Ids)
  BY <1>1, MovedSums
<1>9. LiveSum(rows[o]) \in Nat /\ RemainingOf(batches) \in Nat
  BY LiveSumNat, BatchSumsNat
<1>10. /\ RemainingOf(batches') = RemainingOf(batches) - Smaller(q, R)
       /\ ~split' => LiveSum(rows'[o]) = LiveSum(rows[o]) + Smaller(q, R)
  BY <1>4, <1>6, <1>8, <1>9
<1> QED BY <1>7, <1>10 DEF R

\* A restore gives back q units or all the owner is charged with.
LEMMA RestoreSums ==
    ASSUME batches \in [Ids -> BatchType], rows \in [Owners -> [Ids -> RowType]],
           NEW o \in Owners, NEW q \in Nat, Restore(o, q)
    PROVE  /\ rows' \in [Owners -> [Ids -> RowType]]
           /\ QuantityOf(batches') = QuantityOf(batches)
           /\ RemainingOf(batches') = RemainingOf(batches) + Smaller(q, LiveSum(rows[o]))
           /\ \A p \in Owners : p # o => rows'[p] = rows[p]
           /\ ~split' => LiveSum(rows'[o]) = LiveSum(rows[o]) - Smaller(q, LiveSum(rows[o]))
<1> DEFINE d == Give(o, q)
<1>1. Moved(o, d)
  BY RestoreMoves
<1>2. SumFunctionOnSet(d, Ids) = Smaller(q, LiveSum(rows[o]))
  BY GiveFacts, DrawnIs
<1> HIDE DEF d
<1>3. /\ rows' \in [Owners -> [Ids -> RowType]] /\ QuantityOf(batches') = QuantityOf(batches)
      /\ \A p \in Owners : p # o => rows'[p] = rows[p]
      /\ RemainingOf(batches') = RemainingOf(batches) + SumFunctionOnSet(d, Ids)
      /\ ~split' => LiveSum(rows'[o]) = LiveSum(rows[o]) - SumFunctionOnSet(d, Ids)
  BY <1>1, MovedSums
<1> QED BY <1>2, <1>3

\* An undo takes exactly q units back, unless the owner has no row at all.
LEMMA UnrestoreSums ==
    ASSUME batches \in [Ids -> BatchType], rows \in [Owners -> [Ids -> RowType]],
           NEW o \in Owners, NEW q \in Nat, CanUnrestore(o, q), Unrestore(o, q)
    PROVE  \E n \in {0, q} :
           /\ ~NoRows(o) => n = q
           /\ NoRows(o) => n = 0 /\ LiveSum(rows[o]) = 0
           /\ rows' \in [Owners -> [Ids -> RowType]]
           /\ QuantityOf(batches') = QuantityOf(batches)
           /\ RemainingOf(batches') = RemainingOf(batches) - n
           /\ \A p \in Owners : p # o => rows'[p] = rows[p]
           /\ ~split' => LiveSum(rows'[o]) = LiveSum(rows[o]) + n
<1> DEFINE t == TakeBack(o, q)
           d == [b \in Ids |-> -t[b]]
           n == IF NoRows(o) THEN 0 ELSE q
<1>1. Moved(o, d)
  BY UnrestoreMoves
<1>2. t \in [Ids -> Nat] /\ SumFunctionOnSet(t, Ids) = Smaller(q, Drawn(o, Restored(o)))
  BY TakeBackFacts
<1>3. Drawn(o, Restored(o)) \in Nat
  BY DrawnNat DEF Restored
<1>4. ASSUME NoRows(o) PROVE Drawn(o, Restored(o)) = 0 /\ LiveSum(rows[o]) = 0
  <2>1. Restored(o) = {} /\ Active(o) = {}
    BY <1>4 DEF NoRows
  <2>2. IsFiniteSet({})
    BY FS_EmptySet
  <2>3. Drawn(o, {}) = 0
    BY <2>2, SumZero DEF Drawn
  <2>4. Drawn(o, Active(o)) = LiveSum(rows[o])
    BY DrawnIs
  <2> QED BY <2>1, <2>3, <2>4
<1>5. Smaller(q, Drawn(o, Restored(o))) = n
  BY <1>3, <1>4 DEF Smaller, CanUnrestore
<1>6. n \in {0, q} /\ n \in Nat /\ (~NoRows(o) => n = q) /\ (NoRows(o) => n = 0)
  OBVIOUS
<1> HIDE DEF t, n
<1>7. SumFunctionOnSet(d, Ids) = -SumFunctionOnSet(t, Ids)
  BY <1>2, NegativeSum
<1> HIDE DEF d
<1>8. SumFunctionOnSet(d, Ids) = -n
  BY <1>2, <1>5, <1>7
<1>9. /\ rows' \in [Owners -> [Ids -> RowType]] /\ QuantityOf(batches') = QuantityOf(batches)
      /\ \A p \in Owners : p # o => rows'[p] = rows[p]
  BY <1>1, MovedSums
<1>10. /\ RemainingOf(batches') = RemainingOf(batches) + SumFunctionOnSet(d, Ids)
       /\ ~split' => LiveSum(rows'[o]) = LiveSum(rows[o]) - SumFunctionOnSet(d, Ids)
  BY <1>1, MovedSums
<1>11. LiveSum(rows[o]) \in Nat /\ RemainingOf(batches) \in Nat
  BY LiveSumNat, BatchSumsNat
<1>12. /\ RemainingOf(batches') = RemainingOf(batches) - n
       /\ ~split' => LiveSum(rows'[o]) = LiveSum(rows[o]) + n
  BY <1>6, <1>8, <1>10, <1>11
<1> WITNESS n \in {0, q}
<1> QED BY <1>4, <1>6, <1>9, <1>12

-----------------------------------------------------------------------------
(* Deliveries, adjustments and sales keep the invariant                    *)

\* The step leaves lines and claims alone.
LEMMA StandsOnward ==
    ASSUME UNCHANGED <<line, claim>>
    PROVE  Onward /\ \A c : ReturnKept(c)
BY DEF Onward, ReturnKept

\* A batch of q units is opened.
LEMMA UnitsOpen ==
    ASSUME WarrantyInv, RowsInv', NEW q \in Nat, NEW x \in Ids,
           batches'[x].quantity = q, batches'[x].remaining = q,
           batches[x].quantity = 0, batches[x].remaining = 0,
           \A b \in Ids : b # x => batches'[b] = batches[b],
           stock' = stock + q, UNCHANGED <<rows, line, back, lost, split, blind>>,
           Cardinality(Replacements)' = Cardinality(Replacements)
    PROVE  UnitsInv'
<1>1. /\ batches \in [Ids -> BatchType] /\ stock \in Int /\ lost \in Nat /\ blind \in BOOLEAN
  BY InvFacts
<1>2. batches' \in [Ids -> BatchType] /\ rows' \in [Owners -> [Ids -> RowType]]
  BY DEF RowsInv
<1>3. /\ RemainingOf(batches') = RemainingOf(batches) - 0 + q
      /\ QuantityOf(batches') = QuantityOf(batches) - 0 + q
  BY <1>1, <1>2, BatchChange
<1>4. stock' \in Int /\ lost' \in Nat /\ blind' \in BOOLEAN
  BY <1>1
<1>5. KeptOf(line', back') = KeptOf(line, back)
  OBVIOUS
<1>6. stock' = Opening + QuantityOf(batches') - lost' - KeptOf(line', back') - Cardinality(Replacements)'
  BY <1>1, <1>3, <1>5, SumFacts
<1>7. ~split' => \A i \in Items : LineHolds(line'[i], rows'[i], back'[i])
  BY SumFacts
<1>8. ~blind' => stock' >= RemainingOf(batches')
  BY <1>1, <1>3, SumFacts
<1> QED BY <1>2, <1>4, <1>6, <1>7, <1>8, UnitsFrom

LEMMA KeepsReceive ==
    ASSUME WarrantyInv, NEW d \in Intakes, Receive(d), UNCHANGED claim
    PROVE  WarrantyInv'
<1> DEFINE q == d.quantity
           x == opened + 1
<1>1. /\ BooksInv /\ RowsInv /\ batches \in [Ids -> BatchType]
      /\ stock \in Int /\ lost \in Nat /\ blind \in BOOLEAN
  BY InvFacts
<1>2. q \in Nat /\ d.booked \in BOOLEAN
  BY StockAssumption
<1>3. /\ OpenBatch(q, d.booked) /\ stock' = stock + q
      /\ UNCHANGED <<rows, line, refunds, back, lost, split, blind>>
  BY DEF Receive
<1> HIDE DEF q
<1>4. Onward /\ (\A e \in Claims : e # Loss => ReturnKept(e)) /\ Loss \notin Claims
  BY <1>3, StandsOnward, OwnersFinite
<1>5. /\ RowsInv' /\ x \in Ids
      /\ batches'[x].quantity = q /\ batches'[x].remaining = q
      /\ batches[x].quantity = 0 /\ batches[x].remaining = 0
      /\ \A b \in Ids : b # x => batches'[b] = batches[b]
  BY <1>1, <1>2, <1>3, <1>4, RowsOpen
<1> HIDE DEF x
<1>6. BooksInv'
  BY <1>1, <1>3, BooksSame
<1>7. UnitsInv'
  BY <1>2, <1>3, <1>5, ClaimsSame, UnitsOpen
<1> QED BY <1>5, <1>6, <1>7 DEF WarrantyInv

LEMMA KeepsVoidIntake ==
    ASSUME WarrantyInv, NEW b \in Ids, VoidIntake(b), UNCHANGED claim
    PROVE  WarrantyInv'
<1>1. /\ BooksInv /\ RowsInv /\ batches \in [Ids -> BatchType] /\ back \in [Items -> Nat]
      /\ rows \in [Owners -> [Ids -> RowType]] /\ line \in [Items -> LineType]
      /\ stock \in Int /\ lost \in Nat /\ blind \in BOOLEAN
  BY InvFacts
<1>2. /\ stock' = stock - batches[b].quantity
      /\ UNCHANGED <<opened, line, refunds, back, lost, split, blind>>
  BY DEF VoidIntake
<1>3. /\ RowsInv' /\ batches'[b].quantity = 0 /\ batches'[b].remaining = 0
      /\ batches[b].remaining >= batches[b].quantity
      /\ \A a \in Ids : a # b => batches'[a] = batches[a]
      /\ \A o \in Owners : \A a \in Ids : LiveOf(rows'[o][a]) <= LiveOf(rows[o][a])
  BY <1>1, RowsVoidIntake
<1>4. BooksInv'
  BY <1>1, <1>2, BooksSame
<1>5. batches' \in [Ids -> BatchType] /\ rows' \in [Owners -> [Ids -> RowType]]
  BY <1>3 DEF RowsInv
<1>6. batches[b].quantity \in Nat /\ batches[b].remaining \in Nat
  BY <1>1, BatchFields
<1>7. /\ RemainingOf(batches') = RemainingOf(batches) - batches[b].remaining + 0
      /\ QuantityOf(batches') = QuantityOf(batches) - batches[b].quantity + 0
  BY <1>1, <1>3, <1>5, BatchChange
<1>8. UnitsInv'
  <2>1. stock' \in Int /\ lost' \in Nat /\ blind' \in BOOLEAN
    BY <1>1, <1>2, <1>6
  <2>2. Cardinality(Replacements)' = Cardinality(Replacements)
    BY ClaimsSame
  <2>3. KeptOf(line', back') = KeptOf(line, back)
    BY <1>2
  <2>4. stock' = Opening + QuantityOf(batches') - lost' - KeptOf(line', back') - Cardinality(Replacements)'
    BY <2>2, <2>3, <1>1, <1>2, <1>6, <1>7, SumFacts
  <2>5. ASSUME ~split', NEW i \in Items PROVE LineHolds(line'[i], rows'[i], back'[i])
    <3>1. i \in Owners /\ rows[i] \in [Ids -> RowType] /\ rows'[i] \in [Ids -> RowType]
      BY <1>1, <1>5, OwnersFinite
    <3>2. LiveSum(rows'[i]) <= LiveSum(rows[i])
      BY <3>1, <1>3, LiveSumLess
    <3>3. LiveSum(rows'[i]) \in Nat /\ LiveSum(rows[i]) \in Nat
      BY <3>1, LiveSumNat
    <3>4. LineHolds(line[i], rows[i], back[i])
      BY <2>5, <1>2, SumFacts
    <3>5. back[i] \in Nat /\ line[i].quantity \in Nat
      BY <1>1, LineFields
    <3> QED BY <3>2, <3>3, <3>4, <3>5, <1>2 DEF LineHolds
  <2>6. ~blind' => stock' >= RemainingOf(batches')
    BY <1>1, <1>2, <1>3, <1>6, <1>7, SumFacts
  <2> QED BY <1>5, <2>1, <2>4, <2>5, <2>6, UnitsFrom
<1> QED BY <1>3, <1>4, <1>8 DEF WarrantyInv

LEMMA KeepsAdjust ==
    ASSUME WarrantyInv, NEW q \in 1 .. MaxAdjusts, Adjust(q), UNCHANGED claim
    PROVE  WarrantyInv'
<1>1. /\ BooksInv /\ RowsInv /\ batches \in [Ids -> BatchType]
      /\ rows \in [Owners -> [Ids -> RowType]]
      /\ stock \in Int /\ lost \in Nat /\ blind \in BOOLEAN /\ split \in BOOLEAN
  BY InvFacts
<1>2. q \in Nat /\ Loss \in Owners /\ Loss \notin Items /\ Loss \notin Claims
  BY StockAssumption, OwnersFinite
<1>3. /\ Consume(Loss, q) /\ stock' = stock - q /\ lost' = lost + q
      /\ blind' = (blind \/ q > stock) /\ UNCHANGED <<opened, line, refunds, back, split>>
  BY DEF Adjust
<1>4. \A b \in Ids : ~rows[Loss][b].restored
  BY <1>1, RowsFacts DEF FreshRows
<1> DEFINE d == [b \in Ids |-> -Take(q)[b]]
<1>5. Moved(Loss, d) /\ \A b \in Ids : ~rows'[Loss][b].restored
  BY <1>1, <1>2, <1>3, <1>4, ConsumeMoves
<1> HIDE DEF d
<1>6. Onward /\ \A c \in Claims : ReturnKept(c)
  BY <1>3, StandsOnward
<1>7. RowsInv'
  BY <1>1, <1>2, <1>3, <1>5, <1>6, RowsMoved
<1>8. BooksInv'
  BY <1>1, <1>3, BooksSame
<1>9. /\ rows' \in [Owners -> [Ids -> RowType]] /\ QuantityOf(batches') = QuantityOf(batches)
      /\ RemainingOf(batches') = RemainingOf(batches) - Smaller(q, RemainingOf(batches))
      /\ \A p \in Owners : p # Loss => rows'[p] = rows[p]
  BY <1>1, <1>2, <1>3, <1>4, ConsumeSums
<1>10. UnitsInv'
  <2>1. stock' \in Int /\ lost' \in Nat /\ blind' \in BOOLEAN
    BY <1>1, <1>2, <1>3
  <2>2. Cardinality(Replacements)' = Cardinality(Replacements)
    BY ClaimsSame
  <2>3. KeptOf(line', back') = KeptOf(line, back)
    BY <1>3
  <2>4. stock' = Opening + QuantityOf(batches') - lost' - KeptOf(line', back') - Cardinality(Replacements)'
    BY <2>2, <2>3, <1>1, <1>2, <1>3, <1>9, SumFacts
  <2>5. ASSUME ~split', NEW i \in Items PROVE LineHolds(line'[i], rows'[i], back'[i])
    <3>1. rows'[i] = rows[i]
      BY <1>2, <1>9, OwnersFinite
    <3> QED BY <2>5, <3>1, <1>3, SumFacts
  <2>6. ASSUME ~blind' PROVE stock' >= RemainingOf(batches')
    <3>1. ~blind /\ q <= stock
      <4>1. ~(blind \/ q > stock)
        BY <2>6, <1>3
      <4> QED BY <4>1, <1>1, <1>2
    <3> QED BY <3>1, <1>1, <1>2, <1>3, <1>9, SumFacts DEF Smaller
  <2> QED BY <1>9, <2>1, <2>4, <2>5, <2>6, UnitsFrom
<1> QED BY <1>7, <1>8, <1>10 DEF WarrantyInv

LEMMA SoldLine ==
    ASSUME line \in [Items -> LineType], NEW i \in Items, NEW q \in 1 .. MaxQty,
           line' = [line EXCEPT ![i].status = "completed", ![i].quantity = q]
    PROVE  /\ line' \in [Items -> LineType] /\ \A j \in Items : j # i => line'[j] = line[j]
           /\ line'[i].quantity = q /\ line'[i].status = "completed"
<1> DEFINE l == [line[i] EXCEPT !.status = "completed", !.quantity = q]
<1>1. line' = [line EXCEPT ![i] = l]
  OBVIOUS
<1>2. line[i] \in LineType /\ q \in 0 .. MaxQty
  BY IdsFinite
<1>3. l \in LineType /\ l.quantity = q /\ l.status = "completed"
  BY <1>2 DEF LineType
<1> HIDE DEF l
<1>4. /\ line' \in [Items -> LineType] /\ line'[i] = l
      /\ \A j \in Items : j # i => line'[j] = line[j]
  BY <1>1, <1>3
<1> QED BY <1>3, <1>4

LEMMA KeepsSell ==
    ASSUME WarrantyInv, NEW i \in Items, NEW q \in SaleQty[i], Sell(i, q), UNCHANGED claim
    PROVE  WarrantyInv'
<1>1. /\ BooksInv /\ RowsInv /\ batches \in [Ids -> BatchType]
      /\ rows \in [Owners -> [Ids -> RowType]] /\ line \in [Items -> LineType]
      /\ stock \in Int /\ lost \in Nat /\ blind \in BOOLEAN /\ split \in BOOLEAN
      /\ back \in [Items -> Nat]
  BY InvFacts
<1>2. q \in 1 .. MaxQty /\ q \in Nat
  BY StockAssumption
<1>3. i \in Owners /\ i \notin Claims /\ i # Loss
  BY OwnersFinite
<1>4. /\ line[i].status = "none" /\ Consume(i, q) /\ stock' = stock - q
      /\ line' = [line EXCEPT ![i].status = "completed", ![i].quantity = q]
      /\ blind' = (blind \/ q > stock) /\ UNCHANGED <<opened, refunds, back, lost, split>>
  BY DEF Sell
<1>5. \A b \in Ids : ~rows[i][b].restored
  BY <1>1, <1>4, RowsFacts DEF FreshRows, NoUnits
<1>6. /\ line' \in [Items -> LineType] /\ \A j \in Items : j # i => line'[j] = line[j]
      /\ line'[i].quantity = q /\ line'[i].status = "completed"
  BY <1>1, <1>2, <1>4, SoldLine
<1> DEFINE d == [b \in Ids |-> -Take(q)[b]]
<1>7. Moved(i, d)
  BY <1>1, <1>2, <1>3, <1>4, <1>5, ConsumeMoves
<1> HIDE DEF d
<1>8. Onward /\ \A c \in Claims : ReturnKept(c)
  BY <1>4, <1>6 DEF Onward, ReturnKept
<1>9. line'[i].status # "none"
  BY <1>6
<1>10. RowsInv'
  BY <1>1, <1>3, <1>4, <1>7, <1>8, <1>9, RowsMoved
<1>11. BooksInv'
  BY <1>1, <1>2, <1>4, BooksSell
<1>12. /\ rows' \in [Owners -> [Ids -> RowType]] /\ QuantityOf(batches') = QuantityOf(batches)
       /\ RemainingOf(batches') = RemainingOf(batches) - Smaller(q, RemainingOf(batches))
       /\ \A p \in Owners : p # i => rows'[p] = rows[p]
       /\ ~split' => LiveSum(rows'[i]) = LiveSum(rows[i]) + Smaller(q, RemainingOf(batches))
  BY <1>1, <1>2, <1>3, <1>4, <1>5, ConsumeSums
<1>13. line[i].quantity = 0 /\ ~line[i].reversed /\ back[i] \in Nat
  BY <1>1, <1>4 DEF BooksInv, UnsoldIsEmpty
<1>14. KeptOf(line', back') = KeptOf(line, back) - (0 - back[i]) + (q - back[i])
  <2>1. KeptOf(line', back) = KeptOf(line, back) - (line[i].quantity - back[i]) + (line'[i].quantity - back[i])
    BY <1>1, <1>6, KeptMove
  <2> QED BY <2>1, <1>4, <1>6, <1>13
<1>15. UnitsInv'
  <2>1. stock' \in Int /\ lost' \in Nat /\ blind' \in BOOLEAN
    BY <1>1, <1>2, <1>4
  <2>2. Cardinality(Replacements)' = Cardinality(Replacements)
    BY ClaimsSame
  <2>3. stock' = Opening + QuantityOf(batches') - lost' - KeptOf(line', back') - Cardinality(Replacements)'
    BY <2>2, <1>1, <1>2, <1>4, <1>12, <1>13, <1>14, SumFacts
  <2>4. ASSUME ~split', NEW j \in Items PROVE LineHolds(line'[j], rows'[j], back'[j])
    <3>1. CASE j # i
      <4>1. rows'[j] = rows[j] /\ line'[j] = line[j] /\ back'[j] = back[j]
        BY <3>1, <1>4, <1>6, <1>12, OwnersFinite
      <4> QED BY <2>4, <4>1, <1>4, SumFacts
    <3>2. CASE j = i
      <4>1. LineHolds(line[i], rows[i], back[i]) /\ LiveSum(rows[i]) \in Nat
        BY <2>4, <1>3, <1>4, SumFacts
      <4>2. LiveSum(rows[i]) = 0 /\ back[i] = 0
        BY <4>1, <1>13 DEF LineHolds
      <4>3. LiveSum(rows'[i]) = Smaller(q, RemainingOf(batches)) /\ RemainingOf(batches) \in Nat
        BY <2>4, <4>2, <1>2, <1>12, SumFacts DEF Smaller
      <4>4. LiveSum(rows'[i]) + back'[i] <= line'[i].quantity
        BY <4>2, <4>3, <1>2, <1>4, <1>6 DEF Smaller
      <4> QED BY <3>2, <4>4 DEF LineHolds
    <3> QED BY <3>1, <3>2
  <2>5. ASSUME ~blind' PROVE stock' >= RemainingOf(batches')
    <3>1. ~blind /\ q <= stock
      <4>1. ~(blind \/ q > stock)
        BY <2>5, <1>4
      <4> QED BY <4>1, <1>1, <1>2
    <3> QED BY <3>1, <1>1, <1>2, <1>4, <1>12, SumFacts DEF Smaller
  <2> QED BY <1>12, <2>1, <2>3, <2>4, <2>5, UnitsFrom
<1> QED BY <1>10, <1>11, <1>15 DEF WarrantyInv

-----------------------------------------------------------------------------
(* Refunds, undos and reversals keep the invariant                         *)

\* x units of line i come back, or leave again, and no other line changes.
BackBy(l, bk, m, bm, i, x) ==
    /\ \A j \in Items : j # i => m[j] = l[j] /\ bm[j] = bk[j]
    /\ m[i].quantity = l[i].quantity /\ bm[i] = bk[i] + x

LEMMA KeptBack ==
    ASSUME NEW l \in [Items -> LineType], NEW bk \in [Items -> Nat],
           NEW m \in [Items -> LineType], NEW bm \in [Items -> Nat], NEW i \in Items, NEW x \in Int,
           BackBy(l, bk, m, bm, i, x)
    PROVE  KeptOf(m, bm) = KeptOf(l, bk) - x
<1> USE DEF BackBy
<1>1. KeptOf(m, bm) = KeptOf(l, bk) - (l[i].quantity - bk[i]) + (m[i].quantity - bm[i])
  BY KeptMove
<1>2. l[i].quantity \in Nat /\ bk[i] \in Nat /\ KeptOf(l, bk) \in Int
  BY LineRecord, KeptInt
<1> QED BY <1>1, <1>2

LEMMA BackMoves ==
    ASSUME back \in [Items -> Nat], NEW i \in Items, NEW x \in Int, back[i] + x \in Nat,
           back' = [back EXCEPT ![i] = @ + x]
    PROVE  /\ back' \in [Items -> Nat] /\ back'[i] = back[i] + x
           /\ \A j \in Items : j # i => back'[j] = back[j]
OBVIOUS

\* q units of line i go back on the shelf, and to the batches what the line is
\* still charged with of them.
LEMMA UnitsRestore ==
    ASSUME WarrantyInv, NEW i \in Items, NEW q \in Nat, Restore(i, q),
           line' \in [Items -> LineType], back' \in [Items -> Nat],
           \A j \in Items : j # i => line'[j] = line[j] /\ back'[j] = back[j],
           line'[i].quantity = line[i].quantity, back'[i] = back[i] + q,
           ~line'[i].reversed => ~line[i].reversed /\ back[i] + q <= line[i].quantity,
           stock' = stock + q, UNCHANGED <<lost, split, blind>>,
           Cardinality(Replacements)' = Cardinality(Replacements)
    PROVE  UnitsInv'
<1>1. /\ batches \in [Ids -> BatchType] /\ rows \in [Owners -> [Ids -> RowType]]
      /\ line \in [Items -> LineType] /\ back \in [Items -> Nat]
      /\ stock \in Int /\ lost \in Nat /\ blind \in BOOLEAN
  BY InvFacts
<1>2. i \in Owners
  BY OwnersFinite
<1>3. /\ rows' \in [Owners -> [Ids -> RowType]] /\ QuantityOf(batches') = QuantityOf(batches)
      /\ RemainingOf(batches') = RemainingOf(batches) + Smaller(q, LiveSum(rows[i]))
      /\ \A p \in Owners : p # i => rows'[p] = rows[p]
      /\ ~split' => LiveSum(rows'[i]) = LiveSum(rows[i]) - Smaller(q, LiveSum(rows[i]))
  BY <1>1, <1>2, RestoreSums
<1>4. KeptOf(line', back') = KeptOf(line, back) - q
  <2>1. q \in Int /\ line \in [Items -> LineType] /\ back \in [Items -> Nat]
    BY <1>1
  <2>2. BackBy(line, back, line', back', i, q)
    BY DEF BackBy
  <2> QED BY ONLY <2>1, <2>2, i \in Items, line' \in [Items -> LineType], back' \in [Items -> Nat],
                  KeptBack
<1>5. LiveSum(rows[i]) \in Nat
  BY <1>2, SumFacts
<1>6. stock' \in Int /\ lost' \in Nat /\ blind' \in BOOLEAN
  BY <1>1
<1>7. stock' = Opening + QuantityOf(batches') - lost' - KeptOf(line', back') - Cardinality(Replacements)'
  BY <1>1, <1>3, <1>4, SumFacts
<1>8. ASSUME ~split', NEW j \in Items PROVE LineHolds(line'[j], rows'[j], back'[j])
  <2>1. CASE j # i
    <3>1. rows'[j] = rows[j] /\ line'[j] = line[j] /\ back'[j] = back[j]
      BY <2>1, <1>3, OwnersFinite
    <3> QED BY <1>8, <3>1, SumFacts
  <2>2. CASE j = i
    <3>1. LineHolds(line[i], rows[i], back[i])
      BY <1>8, SumFacts
    <3>2. back[i] \in Nat /\ line[i].quantity \in Nat
      BY <1>1, LineFields
    <3>3. ASSUME ~line'[i].reversed PROVE LiveSum(rows'[i]) + back'[i] <= line'[i].quantity
      <4>1. LiveSum(rows[i]) + back[i] <= line[i].quantity /\ back[i] + q <= line[i].quantity
        BY <3>1, <3>3 DEF LineHolds
      <4>2. LiveSum(rows'[i]) = LiveSum(rows[i]) - Smaller(q, LiveSum(rows[i]))
        BY <1>3, <1>8
      <4> QED BY <4>1, <4>2, <3>2, <1>5 DEF Smaller
    <3> QED BY <2>2, <3>3 DEF LineHolds
  <2> QED BY <2>1, <2>2
<1>9. ~blind' => stock' >= RemainingOf(batches')
  BY <1>1, <1>3, <1>5, SumFacts DEF Smaller
<1> QED BY <1>3, <1>6, <1>7, <1>8, <1>9, UnitsFrom

LEMMA KeepsRefundItem ==
    ASSUME WarrantyInv, NEW i \in Items, NEW q \in 1 .. MaxQty, RefundItem(i, q), UNCHANGED claim
    PROVE  WarrantyInv'
<1>1. /\ BooksInv /\ RowsInv /\ line \in [Items -> LineType] /\ back \in [Items -> Nat]
      /\ batches \in [Ids -> BatchType] /\ rows \in [Owners -> [Ids -> RowType]]
      /\ split \in BOOLEAN
  BY InvFacts
<1>2. q \in Nat /\ i \in Owners /\ i \notin Claims /\ i # Loss
  BY IdsFinite, OwnersFinite
<1>3. /\ Refundable(i, q) /\ refunds[i][q] < MaxRefunds /\ line' = Refunded(i, q)
      /\ refunds' = [refunds EXCEPT ![i][q] = @ + 1] /\ stock' = stock + q /\ Restore(i, q)
      /\ back' = [back EXCEPT ![i] = @ + q] /\ UNCHANGED <<opened, lost, split, blind>>
  BY DEF RefundItem
<1>4. BooksInv'
  BY <1>1, <1>3, BooksRefund
<1>5. /\ line' \in [Items -> LineType] /\ \A j \in Items : j # i => line'[j] = line[j]
      /\ line'[i].quantity = line[i].quantity /\ line'[i].reversed = line[i].reversed
      /\ line'[i].status \in {line[i].status, "refunded"}
  BY <1>1, <1>2, <1>3, RefundedLine
<1>6. line[i].status # "none" /\ q <= line[i].quantity - line[i].refunded
  BY <1>3 DEF Refundable
<1>7. Moved(i, Give(i, q))
  BY <1>1, <1>2, <1>3, RestoreMoves
<1>8. Onward /\ line'[i].status # "none" /\ \A c \in Claims : ReturnKept(c)
  BY <1>5, <1>6 DEF Onward, ReturnKept
<1>9. RowsInv'
  BY <1>1, <1>2, <1>3, <1>7, <1>8, RowsMoved
<1>10. back[i] \in Nat /\ line[i].quantity \in Nat /\ line[i].refunded \in Nat
  BY <1>1, LineFields
<1>11. back' \in [Items -> Nat] /\ back'[i] = back[i] + q /\ \A j \in Items : j # i => back'[j] = back[j]
  BY <1>1, <1>2, <1>3, <1>10, BackMoves
<1>12. ASSUME ~line'[i].reversed PROVE ~line[i].reversed /\ back[i] + q <= line[i].quantity
  <2>1. ~line[i].reversed
    BY <1>5, <1>12
  <2>2. back[i] + Cardinality(Pending(i)) <= line[i].refunded /\ Cardinality(Pending(i)) \in Nat
    BY <1>1, <2>1, ClaimSetsFinite DEF BooksInv, BackExplained
  <2> QED BY <2>1, <2>2, <1>2, <1>6, <1>10
<1>13. Cardinality(Replacements)' = Cardinality(Replacements)
  BY ClaimsSame
<1>14. UnitsInv'
  BY <1>2, <1>3, <1>5, <1>11, <1>12, <1>13, UnitsRestore
<1> QED BY <1>4, <1>9, <1>14 DEF WarrantyInv

LEMMA KeepsReverseSale ==
    ASSUME WarrantyInv, NEW i \in Items, NEW s \in {"cancelled", "refunded"}, ReverseSale(i, s),
           UNCHANGED claim
    PROVE  WarrantyInv'
<1> DEFINE q == line[i].quantity
<1>1. /\ BooksInv /\ RowsInv /\ line \in [Items -> LineType] /\ back \in [Items -> Nat]
      /\ batches \in [Ids -> BatchType] /\ rows \in [Owners -> [Ids -> RowType]]
      /\ split \in BOOLEAN
  BY InvFacts
<1>2. q \in Nat /\ i \in Owners /\ i \notin Claims /\ i # Loss /\ back[i] \in Nat
  BY <1>1, LineFields, OwnersFinite
<1>3. /\ line' = ReversedLine(i, s) /\ stock' = stock + q /\ Restore(i, q)
      /\ back' = [back EXCEPT ![i] = @ + line[i].quantity]
      /\ UNCHANGED <<opened, refunds, lost, split, blind>>
  BY DEF ReverseSale, ReversedLine
<1>4. BooksInv'
  BY <1>1, <1>3, BooksReverse
<1>5. /\ line' \in [Items -> LineType] /\ \A j \in Items : j # i => line'[j] = line[j]
      /\ line'[i].quantity = q /\ line'[i].reversed /\ line'[i].status = s
  BY <1>1, <1>3, ReversedLineFacts
<1>6. Onward /\ line'[i].status # "none" /\ \A c \in Claims : ReturnKept(c)
  BY <1>5 DEF Onward, ReturnKept
<1>7. Moved(i, Give(i, q))
  BY <1>1, <1>2, <1>3, RestoreMoves
<1>8. RowsInv'
  BY <1>1, <1>2, <1>3, <1>6, <1>7, RowsMoved
<1>9. back' \in [Items -> Nat] /\ back'[i] = back[i] + q /\ \A j \in Items : j # i => back'[j] = back[j]
  BY <1>1, <1>2, <1>3, BackMoves
<1>10. Cardinality(Replacements)' = Cardinality(Replacements)
  BY ClaimsSame
<1>11. line'[i].quantity = line[i].quantity
  BY <1>5
<1> HIDE DEF q
<1>12. UnitsInv'
  BY <1>2, <1>3, <1>5, <1>9, <1>10, <1>11, UnitsRestore
<1> QED BY <1>4, <1>8, <1>12 DEF WarrantyInv

LEMMA KeepsUndoRefund ==
    ASSUME WarrantyInv, NEW i \in Items, NEW q \in 1 .. MaxQty, UndoRefund(i, q), UNCHANGED claim
    PROVE  WarrantyInv'
<1>1. /\ BooksInv /\ RowsInv /\ line \in [Items -> LineType] /\ back \in [Items -> Nat]
      /\ batches \in [Ids -> BatchType] /\ rows \in [Owners -> [Ids -> RowType]]
      /\ stock \in Int /\ lost \in Nat /\ blind \in BOOLEAN /\ split \in BOOLEAN
  BY InvFacts
<1>2. q \in Nat /\ q > 0 /\ i \in Owners /\ i \notin Claims /\ i # Loss
  BY IdsFinite, OwnersFinite
<1>3. /\ refunds[i][q] > 0 /\ line[i].refunded >= q /\ CanUnrestore(i, q)
      /\ line' = Unrefunded(i, q) /\ refunds' = [refunds EXCEPT ![i][q] = @ - 1]
      /\ stock' = stock - q /\ Unrestore(i, q) /\ back' = [back EXCEPT ![i] = @ - q]
      /\ blind' = (blind \/ NoRows(i)) /\ UNCHANGED <<opened, lost>>
  BY DEF UndoRefund
<1>4. BooksInv'
  BY <1>1, <1>3, BooksUndo
<1>5. /\ line' \in [Items -> LineType] /\ \A j \in Items : j # i => line'[j] = line[j]
      /\ line'[i].quantity = line[i].quantity /\ line'[i].reversed = line[i].reversed
      /\ line'[i].status = "none" => line[i].status = "none"
  BY <1>1, <1>2, <1>3, UnrefundedLine
<1>6. line[i].quantity \in Nat /\ line[i].refunded \in Nat /\ back[i] \in Nat
  BY <1>1, LineFields
<1>7. line[i].status # "none"
  BY <1>1, <1>2, <1>3, <1>6 DEF BooksInv, UnsoldIsEmpty
<1>8. Onward /\ line'[i].status # "none" /\ \A c \in Claims : ReturnKept(c)
  BY <1>5, <1>7 DEF Onward, ReturnKept
<1> DEFINE d == [b \in Ids |-> -TakeBack(i, q)[b]]
<1>9. Moved(i, d)
  BY <1>1, <1>2, <1>3, UnrestoreMoves
<1> HIDE DEF d
<1>10. split' \in BOOLEAN /\ (split => split')
  <2>1. split' = (split \/ \E b \in Ids : TakeBack(i, q)[b] \in 1 .. rows[i][b].quantity - 1)
    BY <1>3 DEF Unrestore
  <2> QED BY <2>1
<1>11. RowsInv'
  BY <1>1, <1>2, <1>3, <1>8, <1>9, <1>10, RowsMoved
<1>12. back' \in [Items -> Nat] /\ back'[i] = back[i] - q /\ \A j \in Items : j # i => back'[j] = back[j]
  <2>1. back' \in [Items -> Nat]
    BY <1>4 DEF BooksInv
  <2> QED BY <2>1, <1>1, <1>3
<1>13. PICK n \in {0, q} :
           /\ ~NoRows(i) => n = q
           /\ NoRows(i) => n = 0 /\ LiveSum(rows[i]) = 0
           /\ rows' \in [Owners -> [Ids -> RowType]]
           /\ QuantityOf(batches') = QuantityOf(batches)
           /\ RemainingOf(batches') = RemainingOf(batches) - n
           /\ \A p \in Owners : p # i => rows'[p] = rows[p]
           /\ ~split' => LiveSum(rows'[i]) = LiveSum(rows[i]) + n
  BY <1>1, <1>2, <1>3, UnrestoreSums
<1>14. n \in Nat /\ n <= q
  BY <1>2, <1>13
<1>15. KeptOf(line', back') = KeptOf(line, back) + q
  <2>1. -q \in Int /\ back'[i] = back[i] + (-q)
    BY <1>2, <1>6, <1>12
  <2>2. BackBy(line, back, line', back', i, -q)
    BY <2>1, <1>5, <1>12 DEF BackBy
  <2>3. KeptOf(line', back') = KeptOf(line, back) - (-q)
    BY <2>1, <2>2, <1>1, <1>5, <1>12, KeptBack
  <2> QED BY <2>3, <1>2, SumFacts
<1>16. UnitsInv'
  <2>1. stock' \in Int /\ lost' \in Nat /\ blind' \in BOOLEAN
    BY <1>1, <1>2, <1>3
  <2>2. Cardinality(Replacements)' = Cardinality(Replacements)
    BY ClaimsSame
  <2>3. stock' = Opening + QuantityOf(batches') - lost' - KeptOf(line', back') - Cardinality(Replacements)'
    BY <2>2, <1>1, <1>2, <1>3, <1>13, <1>15, SumFacts
  <2>4. ASSUME ~split', NEW j \in Items PROVE LineHolds(line'[j], rows'[j], back'[j])
    <3>1. ~split
      BY <2>4, <1>10
    <3>2. CASE j # i
      <4>1. rows'[j] = rows[j] /\ line'[j] = line[j] /\ back'[j] = back[j]
        BY <3>2, <1>5, <1>12, <1>13, OwnersFinite
      <4> QED BY <3>1, <4>1, SumFacts
    <3>3. CASE j = i
      <4>1. LineHolds(line[i], rows[i], back[i]) /\ LiveSum(rows[i]) \in Nat
        BY <3>1, <1>2, SumFacts
      <4>2. LiveSum(rows'[i]) = LiveSum(rows[i]) + n
        BY <2>4, <1>13
      <4>3. ASSUME ~line'[i].reversed PROVE LiveSum(rows'[i]) + back'[i] <= line'[i].quantity
        <5>1. LiveSum(rows[i]) + back[i] <= line[i].quantity
          BY <4>1, <4>3, <1>5 DEF LineHolds
        <5> QED BY <5>1, <4>1, <4>2, <1>2, <1>5, <1>6, <1>12, <1>14
      <4> QED BY <3>3, <4>3 DEF LineHolds
    <3> QED BY <3>2, <3>3
  <2>5. ASSUME ~blind' PROVE stock' >= RemainingOf(batches')
    <3>1. ~blind /\ ~NoRows(i)
      <4>1. ~(blind \/ NoRows(i))
        BY <2>5, <1>3
      <4> QED BY <4>1
    <3>2. RemainingOf(batches') = RemainingOf(batches) - q
      BY <3>1, <1>13
    <3> QED BY <3>1, <3>2, <1>1, <1>2, <1>3, SumFacts
  <2> QED BY <1>13, <2>1, <2>3, <2>4, <2>5, UnitsFrom
<1> QED BY <1>4, <1>11, <1>16 DEF WarrantyInv

-----------------------------------------------------------------------------
(* Claims keep the invariant                                               *)

\* Claim c goes on, with a record that says of return and batch what it said.
LEMMA ClaimOnward ==
    ASSUME claim \in [Claims -> ClaimType], NEW c \in Claims, NEW k \in ClaimType,
           claim' = [claim EXCEPT ![c] = k], k.status # "none",
           claim[c].status # "VOIDED", \A i \in Items : line'[i].status = "none" => line[i].status = "none"
    PROVE  /\ Onward /\ claim'[c] = k /\ claim' \in [Claims -> ClaimType]
           /\ \A e \in Claims : e # c => claim'[e] = claim[e] /\ ReturnKept(e)
           /\ k.return # "REPLACED" => \A e \in Claims : ReturnKept(e)
<1>1. /\ claim' \in [Claims -> ClaimType] /\ claim'[c] = k
      /\ \A e \in Claims : e # c => claim'[e] = claim[e]
  BY Update
<1>2. \A e \in Claims : e # c => ReturnKept(e)
  BY <1>1 DEF ReturnKept
<1>3. Onward
  <2>1. ASSUME NEW e \in Claims
        PROVE  /\ claim'[e].status = "none" => claim[e].status = "none"
               /\ claim'[e].status # "VOIDED" => claim[e].status # "VOIDED"
    BY <1>1
  <2> QED BY <2>1 DEF Onward
<1>4. k.return # "REPLACED" => ReturnKept(c)
  BY <1>1 DEF ReturnKept
<1> QED BY <1>1, <1>2, <1>3, <1>4

\* Only claim c, and of a line what is refunded, change.
LEMMA UnitsSame ==
    ASSUME WarrantyInv, UNCHANGED <<stock, batches, rows, back, lost, split, blind>>,
           \A i \in Items : line'[i].quantity = line[i].quantity /\ line'[i].reversed = line[i].reversed,
           Cardinality(Replacements)' = Cardinality(Replacements)
    PROVE  UnitsInv'
<1>1. /\ rows \in [Owners -> [Ids -> RowType]]
      /\ stock \in Int /\ lost \in Nat /\ blind \in BOOLEAN
  BY InvFacts
<1>2. KeptOf(line', back') = KeptOf(line, back)
  BY KeptSame
<1>3. stock' = Opening + QuantityOf(batches') - lost' - KeptOf(line', back') - Cardinality(Replacements)'
  BY <1>2, SumFacts
<1>4. ~split' => \A i \in Items : LineHolds(line'[i], rows'[i], back'[i])
  BY SumFacts DEF LineHolds
<1>5. ~blind' => stock' >= RemainingOf(batches')
  BY SumFacts
<1> QED BY <1>1, <1>3, <1>4, <1>5, UnitsFrom

LEMMA KeepsClaimRefund ==
    ASSUME WarrantyInv, NEW c \in Claims, NEW i \in Items, ClaimRefund(c, i)
    PROVE  WarrantyInv'
<1> DEFINE k == NewClaim(i, "REFUND")
<1>1. /\ BooksInv /\ RowsInv /\ line \in [Items -> LineType] /\ claim \in [Claims -> ClaimType]
  BY InvFacts
<1>2. /\ claim[c].status = "none" /\ Refundable(i, 1) /\ line' = Refunded(i, 1)
      /\ claim' = Claimed(c, i, "REFUND")
      /\ UNCHANGED <<stock, batches, opened, rows, refunds, back, lost, split, blind>>
  BY DEF ClaimRefund, Claimable
<1>3. BooksInv'
  BY <1>1, <1>2, BooksClaimRefund
<1>4. /\ line' \in [Items -> LineType] /\ \A j \in Items : j # i => line'[j] = line[j]
      /\ line'[i].quantity = line[i].quantity /\ line'[i].reversed = line[i].reversed
      /\ line'[i].status \in {line[i].status, "refunded"}
  <2>1. 1 \in Nat
    OBVIOUS
  <2> QED BY <2>1, <1>1, <1>2, RefundedLine
<1>5. k \in ClaimType /\ k.status = "DONE" /\ k.action = "REFUND" /\ k.return = "none"
  BY NewClaimFacts
<1>6. claim' = [claim EXCEPT ![c] = k]
  BY <1>2 DEF Claimed, NewClaim
<1> HIDE DEF k
<1>7. \A j \in Items : line'[j].status = "none" => line[j].status = "none"
  BY <1>2, <1>4 DEF Refundable
<1>8. /\ Onward /\ claim'[c] = k /\ \A e \in Claims : ReturnKept(e)
      /\ \A e \in Claims : e # c => claim'[e] = claim[e]
  <2>1. claim[c].status # "VOIDED" /\ k.status # "none" /\ k.return # "REPLACED"
    BY <1>2, <1>5
  <2> QED BY <2>1, <1>1, <1>5, <1>6, <1>7, ClaimOnward
<1>9. RowsInv'
  BY <1>1, <1>2, <1>8, RowsSame
<1>10. Cardinality(Replacements)' = Cardinality(Replacements)
  <2>1. ~ReplaceOf(claim[c]) /\ ~ReplaceOf(claim'[c])
    BY <1>2, <1>5, <1>8 DEF ReplaceOf
  <2>2. Cardinality(Replacements)' = Cardinality(Replacements)
            - One(ReplaceOf(claim[c])) + One(ReplaceOf(claim'[c]))
    BY <1>8, ClaimMove
  <2> QED BY <2>1, <2>2, ClaimSetsFinite DEF One
<1>11. UnitsInv'
  BY <1>2, <1>4, <1>10, UnitsSame
<1> QED BY <1>3, <1>9, <1>11 DEF WarrantyInv

LEMMA KeepsClaimReplace ==
    ASSUME WarrantyInv, NEW c \in Claims, NEW i \in Items, ClaimReplace(c, i)
    PROVE  WarrantyInv'
<1> DEFINE k == NewClaim(i, "REPLACE")
           d == [b \in Ids |-> -Take(1)[b]]
<1>1. /\ BooksInv /\ RowsInv /\ claim \in [Claims -> ClaimType] /\ batches \in [Ids -> BatchType]
      /\ rows \in [Owners -> [Ids -> RowType]]
      /\ stock \in Int /\ lost \in Nat /\ blind \in BOOLEAN /\ split \in BOOLEAN
  BY InvFacts
<1>2. /\ claim[c].status = "none" /\ stock >= 1 /\ stock' = stock - 1 /\ Consume(c, 1)
      /\ claim' = Claimed(c, i, "REPLACE")
      /\ UNCHANGED <<opened, line, refunds, back, lost, split, blind>>
  BY DEF ClaimReplace, Claimable
<1>3. c \in Owners /\ c \notin Items /\ c # Loss /\ 1 \in Nat
  BY OwnersFinite
<1>4. /\ k \in ClaimType /\ Staged(k) /\ k.status = "DONE" /\ k.action = "REPLACE"
      /\ k.return = "none"
  BY NewClaimFacts
<1>5. claim' = [claim EXCEPT ![c] = k]
  BY <1>2 DEF Claimed, NewClaim
<1> HIDE DEF k
<1>6. BooksInv'
  <2>1. \A j : ~RefundOf(claim[c], j) /\ ~RefundOf(k, j)
    BY <1>2, <1>4 DEF RefundOf
  <2> QED BY <2>1, <1>1, <1>2, <1>4, <1>5, BooksNoRefund
<1>7. /\ Onward /\ claim'[c] = k /\ \A e \in Claims : ReturnKept(e)
      /\ \A e \in Claims : e # c => claim'[e] = claim[e]
  <2>1. claim[c].status # "VOIDED" /\ k.status # "none" /\ k.return # "REPLACED"
    BY <1>2, <1>4
  <2>2. \A j \in Items : line'[j].status = "none" => line[j].status = "none"
    BY <1>2
  <2> QED BY <2>1, <2>2, <1>1, <1>4, <1>5, ClaimOnward
<1>8. \A b \in Ids : NoUnits(rows[c][b])
  BY <1>1, <1>2, RowsFacts DEF FreshRows
<1>9. \A b \in Ids : rows[c][b].quantity = 0 /\ ~rows[c][b].restored
  BY <1>8 DEF NoUnits
<1>10. /\ Moved(c, d)
       /\ \A b \in Ids : /\ ~rows'[c][b].restored
                         /\ rows'[c][b].quantity = rows[c][b].quantity + Take(1)[b]
  BY <1>1, <1>2, <1>3, <1>9, ConsumeMoves
<1> HIDE DEF d
<1>11. DrawsOne(rows'[c])
  <2> DEFINE t == Take(1)
  <2>1. t \in [Ids -> Nat] /\ SumFunctionOnSet(t, Ids) = Smaller(1, Remaining(Ids))
    BY <1>1, <1>3, TakeFacts
  <2>2. Remaining(Ids) \in Nat
    BY SumFacts
  <2>3. SumFunctionOnSet(t, Ids) <= 1
    BY <2>1, <2>2 DEF Smaller
  <2>4. \A b \in Ids : rows'[c][b].quantity = 0 + t[b]
    BY <1>9, <1>10
  <2> HIDE DEF t
  <2>5. \A b \in Ids : rows'[c][b].quantity = t[b]
    BY <2>1, <2>4
  <2>6. ASSUME NEW b \in Ids, t[b] > 0 PROVE t[b] = 1 /\ \A a \in Ids : t[a] > 0 => a = b
    BY <2>1, <2>3, <2>6, IdsFinite, SumOne
  <2> QED BY <2>5, <2>6 DEF DrawsOne
<1>12. claim'[c].status # "none" /\ \A b \in Ids : ~rows'[c][b].restored
  BY <1>4, <1>7, <1>10
<1>13. RowsInv'
  BY <1>1, <1>2, <1>3, <1>7, <1>10, <1>11, <1>12, RowsMoved
<1>14. /\ rows' \in [Owners -> [Ids -> RowType]] /\ QuantityOf(batches') = QuantityOf(batches)
       /\ RemainingOf(batches') = RemainingOf(batches) - Smaller(1, RemainingOf(batches))
       /\ \A p \in Owners : p # c => rows'[p] = rows[p]
  BY <1>1, <1>2, <1>3, <1>9, ConsumeSums
<1>15. Cardinality(Replacements)' = Cardinality(Replacements) + 1
  <2>1. ~ReplaceOf(claim[c]) /\ ReplaceOf(claim'[c])
    BY <1>2, <1>4, <1>7 DEF ReplaceOf
  <2>2. Cardinality(Replacements)' = Cardinality(Replacements)
            - One(ReplaceOf(claim[c])) + One(ReplaceOf(claim'[c]))
    BY <1>7, ClaimMove
  <2> QED BY <2>1, <2>2, ClaimSetsFinite DEF One
<1>16. UnitsInv'
  <2>1. stock' \in Int /\ lost' \in Nat /\ blind' \in BOOLEAN
    BY <1>1, <1>2
  <2>2. KeptOf(line', back') = KeptOf(line, back)
    BY <1>2
  <2>3. stock' = Opening + QuantityOf(batches') - lost' - KeptOf(line', back') - Cardinality(Replacements)'
    BY <2>2, <1>1, <1>2, <1>14, <1>15, SumFacts
  <2>4. ASSUME ~split', NEW j \in Items PROVE LineHolds(line'[j], rows'[j], back'[j])
    <3>1. rows'[j] = rows[j]
      BY <1>3, <1>14, OwnersFinite
    <3> QED BY <2>4, <3>1, <1>2, SumFacts
  <2>5. ~blind' => stock' >= RemainingOf(batches')
    BY <1>1, <1>2, <1>14, SumFacts DEF Smaller
  <2> QED BY <1>14, <2>1, <2>3, <2>4, <2>5, UnitsFrom
<1> QED BY <1>6, <1>13, <1>16 DEF WarrantyInv

\* The claim moves on and nothing else does.
LEMMA KeepsStage ==
    ASSUME WarrantyInv, NEW c \in Claims, NEW k \in ClaimType, Staged(k),
           k.item = claim[c].item, k.status = claim[c].status, k.action = claim[c].action,
           claim[c].status = "DONE", k.return # "REPLACED",
           Away(claim[c]), Away(k), claim' = [claim EXCEPT ![c] = k], UNCHANGED vars
    PROVE  WarrantyInv'
<1>1. BooksInv /\ RowsInv /\ claim \in [Claims -> ClaimType]
  BY InvFacts
<1>2. UNCHANGED <<stock, batches, opened, rows, line, refunds, back, lost, split, blind>>
  BY DEF vars
<1>3. BooksInv'
  BY <1>1, <1>2, BooksStage
<1>4. /\ Onward /\ claim'[c] = k /\ \A e \in Claims : ReturnKept(e)
      /\ \A e \in Claims : e # c => claim'[e] = claim[e]
  <2>1. claim[c].status # "VOIDED" /\ k.status # "none"
    OBVIOUS
  <2>2. \A j \in Items : line'[j].status = "none" => line[j].status = "none"
    BY <1>2
  <2> QED BY <2>1, <2>2, <1>1, ClaimOnward
<1>5. RowsInv'
  BY <1>1, <1>2, <1>4, RowsSame
<1>6. Cardinality(Replacements)' = Cardinality(Replacements)
  <2>1. ReplaceOf(claim[c]) <=> ReplaceOf(claim'[c])
    BY <1>4 DEF ReplaceOf
  <2>2. Cardinality(Replacements)' = Cardinality(Replacements)
            - One(ReplaceOf(claim[c])) + One(ReplaceOf(claim'[c]))
    BY <1>4, ClaimMove
  <2> QED BY <2>1, <2>2, ClaimSetsFinite DEF One
<1>7. UnitsInv'
  BY <1>2, <1>6, UnitsSame
<1> QED BY <1>3, <1>5, <1>7 DEF WarrantyInv

LEMMA KeepsWriteOff ==
    ASSUME WarrantyInv, NEW c \in Claims, WriteOff(c)
    PROVE  WarrantyInv'
<1> DEFINE k == [claim[c] EXCEPT !.held = "WRITTEN_OFF"]
<1>1. claim[c] \in ClaimType /\ Staged(claim[c])
  BY InvFacts DEF ClaimsStaged
<1>2. /\ claim[c].held = "HELD" /\ UNCHANGED vars
      /\ claim' = [claim EXCEPT ![c] = k]
  BY DEF WriteOff
<1>3. /\ k \in ClaimType /\ k.item = claim[c].item /\ k.status = claim[c].status
      /\ k.action = claim[c].action /\ k.held = "WRITTEN_OFF" /\ k.return = claim[c].return
  BY <1>1 DEF ClaimType
<1> HIDE DEF k
<1>4. /\ claim[c].status = "DONE" /\ k.return \in {"none", "REJECTED"} /\ claim[c].return # "REPLACED"
  BY <1>1, <1>2, <1>3 DEF Staged, ClaimType
<1>5. Staged(k) /\ Away(k) /\ Away(claim[c]) /\ k.return # "REPLACED"
  BY <1>1, <1>2, <1>3, <1>4 DEF Staged, Away
<1> QED BY <1>2, <1>3, <1>4, <1>5, KeepsStage

LEMMA KeepsSendToSupplier ==
    ASSUME WarrantyInv, NEW c \in Claims, SendToSupplier(c)
    PROVE  WarrantyInv'
<1> DEFINE k == [claim[c] EXCEPT !.held = "SENT_TO_SUPPLIER", !.return = "SENT"]
<1>1. claim[c] \in ClaimType /\ Staged(claim[c])
  BY InvFacts DEF ClaimsStaged
<1>2. /\ claim[c].held = "HELD" /\ UNCHANGED vars
      /\ claim' = [claim EXCEPT ![c] = k]
  BY DEF SendToSupplier
<1>3. /\ k \in ClaimType /\ k.item = claim[c].item /\ k.status = claim[c].status
      /\ k.action = claim[c].action /\ k.held = "SENT_TO_SUPPLIER" /\ k.return = "SENT"
  BY <1>1 DEF ClaimType
<1> HIDE DEF k
<1>4. claim[c].status = "DONE"
  BY <1>1, <1>2 DEF Staged
<1>5. Staged(k) /\ Away(k) /\ Away(claim[c]) /\ k.return # "REPLACED"
  BY <1>1, <1>2, <1>3, <1>4 DEF Staged, Away
<1> QED BY <1>2, <1>3, <1>4, <1>5, KeepsStage

LEMMA KeepsSupplierAnswers ==
    ASSUME WarrantyInv, NEW c \in Claims, SupplierAnswers(c)
    PROVE  WarrantyInv'
<1>1. claim[c] \in ClaimType /\ Staged(claim[c])
  BY InvFacts DEF ClaimsStaged
<1>2. claim[c].return = "SENT" /\ UNCHANGED vars
  BY DEF SupplierAnswers
<1>3. claim[c].status = "DONE" /\ claim[c].held = "SENT_TO_SUPPLIER" /\ Away(claim[c])
  BY <1>1, <1>2 DEF Staged, Away
<1>4. CASE claim' = [claim EXCEPT ![c].return = "CREDITED"]
  <2> DEFINE k == [claim[c] EXCEPT !.return = "CREDITED"]
  <2>1. claim' = [claim EXCEPT ![c] = k]
    BY <1>4
  <2>2. /\ k \in ClaimType /\ k.item = claim[c].item /\ k.status = claim[c].status
        /\ k.action = claim[c].action /\ k.held = claim[c].held /\ k.return = "CREDITED"
    BY <1>1 DEF ClaimType
  <2> HIDE DEF k
  <2>3. Staged(k) /\ Away(k) /\ k.return # "REPLACED"
    BY <2>2, <1>1, <1>3 DEF Staged, Away
  <2> QED BY <2>1, <2>2, <2>3, <1>2, <1>3, KeepsStage
<1>5. CASE claim' = [claim EXCEPT ![c].return = "REJECTED", ![c].held = "HELD"]
  <2> DEFINE k == [claim[c] EXCEPT !.return = "REJECTED", !.held = "HELD"]
  <2>1. claim' = [claim EXCEPT ![c] = k]
    BY <1>5
  <2>2. /\ k \in ClaimType /\ k.item = claim[c].item /\ k.status = claim[c].status
        /\ k.action = claim[c].action /\ k.held = "HELD" /\ k.return = "REJECTED"
    BY <1>1 DEF ClaimType
  <2> HIDE DEF k
  <2>3. Staged(k) /\ Away(k) /\ k.return # "REPLACED"
    BY <2>2, <1>1, <1>3 DEF Staged, Away
  <2> QED BY <2>1, <2>2, <2>3, <1>2, <1>3, KeepsStage
<1> QED BY <1>4, <1>5 DEF SupplierAnswers

\* The unit of a claim was not faulty: back to the batch it came from.
LEMMA KeepsNotFaultyRefund ==
    ASSUME WarrantyInv, NEW c \in Claims, NEW i, claim[c].item = i, claim[c].held = "HELD",
           claim[c].action = "REFUND", Restore(i, 1), stock' = stock + 1,
           claim' = [claim EXCEPT ![c].held = "RETURNED_TO_STOCK"],
           back' = [back EXCEPT ![i] = @ + 1],
           UNCHANGED <<opened, line, refunds, lost, split, blind>>
    PROVE  WarrantyInv'
<1>1. /\ BooksInv /\ RowsInv /\ line \in [Items -> LineType] /\ back \in [Items -> Nat]
      /\ batches \in [Ids -> BatchType] /\ rows \in [Owners -> [Ids -> RowType]]
      /\ split \in BOOLEAN /\ claim[c] \in ClaimType /\ Staged(claim[c])
  BY InvFacts DEF ClaimsStaged
<1>2. BooksInv' /\ i \in Items /\ (line[i].reversed \/ back[i] < line[i].refunded)
  BY <1>1, BooksNotFaulty
<1>3. i \in Owners /\ i \notin Claims /\ i # Loss /\ 1 \in Nat /\ 1 \in Int
  BY <1>2, OwnersFinite
<1>4. /\ line[i].quantity \in Nat /\ line[i].refunded \in Nat /\ back[i] \in Nat
      /\ line[i].refunded <= line[i].quantity
  BY <1>1, <1>2, LineFields DEF BooksInv
<1>5. line[i].status # "none"
  BY <1>1, <1>2, <1>4 DEF BooksInv, UnsoldIsEmpty
<1>6. claim'[c].status = claim[c].status /\ claim'[c].action = claim[c].action
      /\ claim'[c].return = claim[c].return /\ claim'[c].batch = claim[c].batch
      /\ \A e \in Claims : e # c => claim'[e] = claim[e]
  BY <1>1, InvFacts DEF ClaimType
<1>7. Onward /\ \A e \in Claims : ReturnKept(e)
  <2>1. ASSUME NEW e \in Claims
        PROVE  /\ claim'[e].status = claim[e].status /\ claim'[e].return = claim[e].return
               /\ claim'[e].batch = claim[e].batch
    BY <1>6
  <2> QED BY <2>1 DEF Onward, ReturnKept
<1>8. Moved(i, Give(i, 1))
  BY <1>1, <1>3, RestoreMoves
<1>9. RowsInv'
  BY <1>1, <1>3, <1>5, <1>7, <1>8, RowsMoved
<1>10. back' \in [Items -> Nat] /\ back'[i] = back[i] + 1 /\ \A j \in Items : j # i => back'[j] = back[j]
  BY <1>1, <1>2, <1>3, <1>4, BackMoves
<1>11. Cardinality(Replacements)' = Cardinality(Replacements)
  <2>1. ~ReplaceOf(claim[c]) /\ ~ReplaceOf(claim'[c])
    BY <1>6 DEF ReplaceOf
  <2>2. Cardinality(Replacements)' = Cardinality(Replacements)
            - One(ReplaceOf(claim[c])) + One(ReplaceOf(claim'[c]))
    BY <1>6, ClaimMove
  <2> QED BY <2>1, <2>2, ClaimSetsFinite DEF One
<1>12. ~line'[i].reversed => ~line[i].reversed /\ back[i] + 1 <= line[i].quantity
  BY <1>2, <1>4
<1>13. line' \in [Items -> LineType] /\ line'[i].quantity = line[i].quantity
  BY <1>1
<1>14. UnitsInv'
  BY <1>2, <1>3, <1>10, <1>11, <1>12, <1>13, UnitsRestore
<1> QED BY <1>2, <1>9, <1>14 DEF WarrantyInv

\* A claim's step opens a batch of one unit.
LEMMA KeepsOpen ==
    ASSUME WarrantyInv, NEW c \in Claims, NEW k \in ClaimType, claim' = [claim EXCEPT ![c] = k],
           k.action = claim[c].action, k.status = "DONE", claim[c].status = "DONE",
           k.return # "REPLACED" \/ k.batch = opened + 1,
           OpenBatch(1, FALSE), stock' = stock + 1,
           UNCHANGED <<rows, line, refunds, back, lost, split, blind>>, BooksInv'
    PROVE  WarrantyInv'
<1> DEFINE x == opened + 1
<1>1. RowsInv /\ claim \in [Claims -> ClaimType]
  BY InvFacts
<1>2. /\ Onward /\ claim'[c] = k
      /\ \A e \in Claims : e # c => claim'[e] = claim[e] /\ ReturnKept(e)
      /\ k.return # "REPLACED" => \A e \in Claims : ReturnKept(e)
  <2>1. claim[c].status # "VOIDED" /\ k.status # "none"
    OBVIOUS
  <2>2. \A j \in Items : line'[j].status = "none" => line[j].status = "none"
    OBVIOUS
  <2> QED BY <2>1, <2>2, <1>1, ClaimOnward
<1>3. ReturnKept(c) \/ (claim'[c].batch = opened + 1 /\ 1 = 1 /\ ~FALSE)
  BY <1>2
<1>4. 1 \in Nat /\ FALSE \in BOOLEAN
  OBVIOUS
<1>5. /\ RowsInv' /\ x \in Ids
      /\ batches'[x].quantity = 1 /\ batches'[x].remaining = 1
      /\ batches[x].quantity = 0 /\ batches[x].remaining = 0
      /\ \A b \in Ids : b # x => batches'[b] = batches[b]
  BY <1>1, <1>2, <1>3, <1>4, RowsOpen
<1> HIDE DEF x
<1>6. Cardinality(Replacements)' = Cardinality(Replacements)
  <2>1. ReplaceOf(claim[c]) <=> ReplaceOf(claim'[c])
    BY <1>2 DEF ReplaceOf
  <2>2. Cardinality(Replacements)' = Cardinality(Replacements)
            - One(ReplaceOf(claim[c])) + One(ReplaceOf(claim'[c]))
    BY <1>2, ClaimMove
  <2> QED BY <2>1, <2>2, ClaimSetsFinite DEF One
<1>7. UnitsInv'
  BY <1>4, <1>5, <1>6, UnitsOpen
<1> QED BY <1>5, <1>7 DEF WarrantyInv

LEMMA KeepsNotFaulty ==
    ASSUME WarrantyInv, NEW c \in Claims, NotFaulty(c)
    PROVE  WarrantyInv'
<1> DEFINE i == claim[c].item
           k == [claim[c] EXCEPT !.held = "RETURNED_TO_STOCK"]
<1>1. BooksInv /\ claim[c] \in ClaimType /\ Staged(claim[c])
  BY InvFacts DEF ClaimsStaged
<1>2. /\ claim[c].held = "HELD" /\ stock' = stock + 1
      /\ claim' = [claim EXCEPT ![c].held = "RETURNED_TO_STOCK"]
      /\ UNCHANGED <<line, refunds, lost, split, blind>>
  BY DEF NotFaulty
<1>3. CASE claim[c].action = "REFUND"
  <2>1. Restore(i, 1) /\ back' = [back EXCEPT ![i] = @ + 1] /\ UNCHANGED opened
    BY <1>3 DEF NotFaulty
  <2> HIDE DEF i
  <2>2. claim[c].item = i
    BY DEF i
  <2> QED BY <1>2, <1>3, <2>1, <2>2, KeepsNotFaultyRefund
<1>4. CASE claim[c].action = "REPLACE"
  <2>1. OpenBatch(1, FALSE) /\ UNCHANGED <<rows, back>>
    BY <1>4 DEF NotFaulty
  <2>2. claim' = [claim EXCEPT ![c] = k]
    BY <1>2
  <2>3. /\ k \in ClaimType /\ k.held = "RETURNED_TO_STOCK" /\ k.status = claim[c].status
        /\ k.action = claim[c].action /\ k.item = claim[c].item /\ k.return = claim[c].return
    BY <1>1 DEF ClaimType
  <2> HIDE DEF k
  <2>4. claim[c].status = "DONE" /\ claim[c].return \notin {"SENT", "CREDITED", "REPLACED"}
    BY <1>1, <1>2 DEF Staged
  <2>5. Staged(k) /\ k.return # "REPLACED" /\ k.status = "DONE"
    BY <2>3, <2>4, <1>1 DEF Staged
  <2>6. \A j : ~RefundOf(claim[c], j) /\ ~RefundOf(k, j)
    BY <2>3, <1>4 DEF RefundOf
  <2>7. BooksInv'
    BY <1>1, <1>2, <2>1, <2>2, <2>3, <2>5, <2>6, BooksNoRefund
  <2> QED BY <1>2, <2>1, <2>2, <2>3, <2>4, <2>5, <2>7, KeepsOpen
<1> QED BY <1>3, <1>4 DEF NotFaulty

LEMMA KeepsSupplierReplaces ==
    ASSUME WarrantyInv, NEW c \in Claims, SupplierReplaces(c)
    PROVE  WarrantyInv'
<1> DEFINE k == [claim[c] EXCEPT !.return = "REPLACED", !.held = "RETURNED_TO_STOCK",
                                 !.batch = opened + 1]
<1>1. BooksInv /\ RowsInv /\ claim[c] \in ClaimType /\ Staged(claim[c])
  BY InvFacts DEF ClaimsStaged
<1>2. /\ claim[c].return = "SENT" /\ stock' = stock + 1 /\ OpenBatch(1, FALSE)
      /\ claim' = [claim EXCEPT ![c] = k]
      /\ UNCHANGED <<rows, line, refunds, back, lost, split, blind>>
  BY DEF SupplierReplaces
<1>3. opened + 1 \in 0 .. MaxBatches
  <2>1. opened \in 0 .. MaxBatches /\ opened < MaxBatches /\ MaxBatches \in Nat
    BY <1>1, <1>2, RowsFacts, IdsFinite DEF OpenBatch
  <2> QED BY <2>1
<1>4. /\ k \in ClaimType /\ k.item = claim[c].item /\ k.status = claim[c].status
      /\ k.action = claim[c].action /\ k.held = "RETURNED_TO_STOCK" /\ k.return = "REPLACED"
      /\ k.batch = opened + 1
  BY <1>1, <1>3 DEF ClaimType
<1> HIDE DEF k
<1>5. claim[c].status = "DONE" /\ Away(claim[c])
  BY <1>1, <1>2 DEF Staged, Away
<1>6. Staged(k) /\ Away(k) /\ k.status = "DONE"
  BY <1>1, <1>4, <1>5 DEF Staged, Away
<1>7. BooksInv'
  BY <1>1, <1>2, <1>4, <1>5, <1>6, BooksStage
<1> QED BY <1>2, <1>4, <1>5, <1>6, <1>7, KeepsOpen

\* What a void does to the sums.
LEMMA VoidSums ==
    ASSUME batches \in [Ids -> BatchType], rows \in [Owners -> [Ids -> RowType]],
           NEW c \in Claims, NEW d, VoidMoved(c, d),
           \A b \in Ids : Dropped(c, b) => batches[b].quantity = 1 /\ batches[b].remaining = 1 /\ d[b] = 0,
           claim[c].return = "REPLACED" => claim[c].batch \in Ids
    PROVE  /\ QuantityOf(batches') = QuantityOf(batches) - Taken(c)
           /\ RemainingOf(batches') = RemainingOf(batches) - Taken(c) + SumFunctionOnSet(d, Ids)
           /\ Taken(c) \in {0, 1}
<1> DEFINE w == WithoutReturn(c)
           x == claim[c].batch
<1>1. /\ batches' \in [Ids -> BatchType] /\ d \in [Ids -> Nat]
  BY DEF VoidMoved
<1>2. w \in [Ids -> BatchType] /\ \A b \in Ids : w[b] = IF Dropped(c, b) THEN NoBatch ELSE batches[b]
  BY NothingTyped DEF WithoutReturn, Dropped
<1> HIDE DEF w
<1>3. NoBatch.quantity = 0 /\ NoBatch.remaining = 0
  BY DEF NoBatch
<1>4. ASSUME NEW b \in Ids
      PROVE  batches'[b].quantity = w[b].quantity /\ batches'[b].remaining = w[b].remaining + d[b]
  <2>1. CASE Dropped(c, b)
    BY <2>1, <1>2, <1>3 DEF VoidMoved
  <2>2. CASE ~Dropped(c, b)
    BY <2>2, <1>2 DEF VoidMoved
  <2> QED BY <2>1, <2>2
<1>5. QuantityOf(batches') = QuantityOf(w)
  BY <1>4, QuantitySame
<1>6. RemainingOf(batches') = RemainingOf(w) + SumFunctionOnSet(d, Ids)
  <2>1. d \in [Ids -> Int]
    BY <1>1
  <2> QED BY <2>1, <1>1, <1>2, <1>4, RemainingMove
<1>7. QuantityOf(w) = QuantityOf(batches) - Taken(c) /\ RemainingOf(w) = RemainingOf(batches) - Taken(c)
  <2>1. RemainingOf(batches) \in Nat /\ QuantityOf(batches) \in Nat
    BY BatchSumsNat
  <2>2. CASE claim[c].return = "REPLACED"
    <3>1. x \in Ids /\ Dropped(c, x) /\ Taken(c) = 1
      BY <2>2 DEF Dropped, Taken
    <3>2. \A b \in Ids : b # x => w[b] = batches[b]
      BY <1>2 DEF Dropped
    <3>3. w[x].quantity = 0 /\ w[x].remaining = 0 /\ batches[x].quantity = 1 /\ batches[x].remaining = 1
      BY <3>1, <1>2, <1>3
    <3> HIDE DEF x
    <3>4. /\ RemainingOf(w) = RemainingOf(batches) - 1 + 0
          /\ QuantityOf(w) = QuantityOf(batches) - 1 + 0
      BY <3>1, <3>2, <3>3, <1>2, BatchChange
    <3> QED BY <3>1, <3>4, <2>1
  <2>3. CASE claim[c].return # "REPLACED"
    <3>1. Taken(c) = 0 /\ \A b \in Ids : w[b] = batches[b]
      BY <2>3, <1>2 DEF Dropped, Taken
    <3>2. w = batches
      BY <3>1, <1>2
    <3> QED BY <3>1, <3>2, <2>1
  <2> QED BY <2>2, <2>3
<1>8. Taken(c) \in {0, 1}
  BY DEF Taken
<1> QED BY <1>5, <1>6, <1>7, <1>8

LEMMA VoidableAway ==
    ASSUME NEW c \in Claims, Staged(claim[c]), ReturnUndone(c)
    PROVE  Away(claim[c])
BY DEF Staged, ReturnUndone, Away

LEMMA KeepsVoidClaim ==
    ASSUME WarrantyInv, NEW c \in Claims, VoidClaim(c)
    PROVE  WarrantyInv'
<1> DEFINE i == claim[c].item
           k == VoidedClaim(claim[c])
<1>1. /\ BooksInv /\ RowsInv /\ line \in [Items -> LineType] /\ back \in [Items -> Nat]
      /\ claim \in [Claims -> ClaimType] /\ Staged(claim[c])
      /\ batches \in [Ids -> BatchType] /\ rows \in [Owners -> [Ids -> RowType]]
      /\ stock \in Int /\ lost \in Nat /\ blind \in BOOLEAN /\ split \in BOOLEAN
  BY InvFacts DEF ClaimsStaged
<1>2. /\ claim[c].status = "DONE" /\ ReturnUndone(c) /\ claim' = Voided(c)
      /\ UNCHANGED <<opened, refunds, back, lost, split, blind>>
  BY DEF VoidClaim
<1>3. /\ k \in ClaimType /\ k.status = "VOIDED" /\ k.return = "none" /\ Staged(k)
      /\ claim' = [claim EXCEPT ![c] = k]
  BY <1>1, <1>2, VoidedClaimFacts
<1>4. i \in Items /\ Away(claim[c])
  BY <1>1, <1>2, VoidableAway DEF Staged
<1>5. c \in Owners /\ c \notin Items
  BY OwnersFinite
<1> HIDE DEF k
<1>6. ASSUME \A j \in Items : line'[j].status = "none" => line[j].status = "none"
      PROVE  /\ Onward /\ claim'[c].status = "VOIDED" /\ claim'[c].return = "none"
             /\ \A e \in Claims : e # c => claim'[e] = claim[e]
  <2>1. claim[c].status # "VOIDED" /\ k.status # "none"
    BY <1>2, <1>3
  <2>2. Onward /\ claim'[c] = k /\ \A e \in Claims : e # c => claim'[e] = claim[e]
    BY <2>1, <1>1, <1>3, <1>6, ClaimOnward
  <2> QED BY <2>2, <1>3
<1>7. CASE claim[c].action = "REFUND"
  <2> DEFINE z == [b \in Ids |-> 0]
  <2>1. /\ line[i].refunded >= 1 /\ line' = Unrefunded(i, 1) /\ batches' = WithoutReturn(c)
        /\ stock' = stock - Taken(c) /\ UNCHANGED rows
    BY <1>7 DEF VoidClaim
  <2>2. 1 \in Nat
    OBVIOUS
  <2>3. BooksInv'
    BY <1>1, <1>2, <1>4, <1>7, <2>1, BooksVoidRefund
  <2>4. /\ line' \in [Items -> LineType] /\ \A j \in Items : j # i => line'[j] = line[j]
        /\ line'[i].quantity = line[i].quantity /\ line'[i].reversed = line[i].reversed
        /\ line'[i].status = "none" => line[i].status = "none"
    BY <1>1, <1>4, <2>1, <2>2, UnrefundedLine
  <2> HIDE DEF i
  <2>5. /\ Onward /\ claim'[c].status = "VOIDED" /\ claim'[c].return = "none"
        /\ \A e \in Claims : e # c => claim'[e] = claim[e]
    BY <2>4, <1>6
  <2>6. VoidMoved(c, z)
    BY <1>1, <2>1, VoidDrops
  <2>7. SumFunctionOnSet(z, Ids) = 0
    BY IdsFinite, SumZero
  <2> HIDE DEF z
  <2>8. /\ RowsInv'
        /\ \A b \in Ids : Dropped(c, b) => batches[b].quantity = 1 /\ batches[b].remaining = 1 /\ z[b] = 0
        /\ claim[c].return = "REPLACED" => claim[c].batch \in Ids
    BY <1>1, <1>2, <2>5, <2>6, RowsVoided
  <2>9. /\ QuantityOf(batches') = QuantityOf(batches) - Taken(c)
        /\ RemainingOf(batches') = RemainingOf(batches) - Taken(c) + 0
        /\ Taken(c) \in {0, 1}
    BY <1>1, <2>6, <2>7, <2>8, VoidSums
  <2>10. Cardinality(Replacements)' = Cardinality(Replacements)
    <3>1. ~ReplaceOf(claim[c]) /\ ~ReplaceOf(claim'[c])
      BY <1>7, <2>5 DEF ReplaceOf
    <3>2. Cardinality(Replacements)' = Cardinality(Replacements)
              - One(ReplaceOf(claim[c])) + One(ReplaceOf(claim'[c]))
      BY <2>5, ClaimMove
    <3> QED BY <3>1, <3>2, ClaimSetsFinite DEF One
  <2>11. UnitsInv'
    <3>1. stock' \in Int /\ lost' \in Nat /\ blind' \in BOOLEAN /\ rows' \in [Owners -> [Ids -> RowType]]
      BY <1>1, <1>2, <2>1, <2>9
    <3>2. \A j \in Items : line'[j].quantity = line[j].quantity /\ line'[j].reversed = line[j].reversed
      BY <2>4
    <3>3. KeptOf(line', back') = KeptOf(line, back)
      BY <3>2, <1>2, KeptSame
    <3>4. stock' = Opening + QuantityOf(batches') - lost' - KeptOf(line', back') - Cardinality(Replacements)'
      BY <3>3, <1>1, <1>2, <2>1, <2>9, <2>10, SumFacts
    <3>5. ~split' => \A j \in Items : LineHolds(line'[j], rows'[j], back'[j])
      BY <3>2, <1>2, <2>1, SumFacts DEF LineHolds
    <3>6. ~blind' => stock' >= RemainingOf(batches')
      BY <1>1, <1>2, <2>1, <2>9, SumFacts
    <3> QED BY <3>1, <3>4, <3>5, <3>6, UnitsFrom
  <2> QED BY <2>3, <2>8, <2>11 DEF WarrantyInv
<1>8. CASE claim[c].action = "REPLACE"
  <2> DEFINE g == Give(c, 1)
  <2>1. /\ stock' = stock - Taken(c) + 1 /\ UNCHANGED line
        /\ batches' = [b \in Ids |-> [WithoutReturn(c)[b] EXCEPT !.remaining = @ + Give(c, 1)[b]]]
        /\ rows' = [rows EXCEPT ![c] = [b \in Ids |-> [quantity |-> @[b].quantity,
                                                       restored |-> b \in Active(c)]]]
    BY <1>8 DEF VoidClaim
  <2>2. BooksInv'
    <3>1. \A j : ~RefundOf(claim[c], j) /\ ~RefundOf(k, j)
      BY <1>3, <1>8 DEF RefundOf
    <3> QED BY <3>1, <1>1, <1>2, <1>3, <2>1, BooksNoRefund
  <2>3. /\ DrawsOne(rows[c]) /\ \A b \in Ids : ~rows[c][b].restored
    BY <1>1, <1>2, RowsFacts DEF FreshRows
  <2>4. \A b \in Ids : Dropped(c, b) => \A o \in Owners : rows[o][b].quantity = 0
    BY <1>2 DEF Dropped, ReturnUndone
  <2>5. VoidMoved(c, g) /\ SumFunctionOnSet(g, Ids) = Smaller(1, Drawn(c, Active(c)))
    BY <1>1, <1>2, <2>1, <2>3, <2>4, VoidMoves
  <2>6. Drawn(c, Active(c)) \in Nat
    BY <1>1, <1>5, DrawnNat DEF Active
  <2>7. SumFunctionOnSet(g, Ids) \in Nat /\ SumFunctionOnSet(g, Ids) <= 1
    BY <2>5, <2>6 DEF Smaller
  <2>8. /\ Onward /\ claim'[c].status = "VOIDED" /\ claim'[c].return = "none"
        /\ \A e \in Claims : e # c => claim'[e] = claim[e]
    BY <2>1, <1>6
  <2> HIDE DEF g
  <2>9. /\ RowsInv'
        /\ \A b \in Ids : Dropped(c, b) => batches[b].quantity = 1 /\ batches[b].remaining = 1 /\ g[b] = 0
        /\ claim[c].return = "REPLACED" => claim[c].batch \in Ids
    BY <1>1, <1>2, <2>5, <2>8, RowsVoided
  <2>10. /\ QuantityOf(batches') = QuantityOf(batches) - Taken(c)
         /\ RemainingOf(batches') = RemainingOf(batches) - Taken(c) + SumFunctionOnSet(g, Ids)
         /\ Taken(c) \in {0, 1}
    BY <1>1, <2>5, <2>9, VoidSums
  <2>11. Cardinality(Replacements)' = Cardinality(Replacements) - 1
    <3>1. ReplaceOf(claim[c]) /\ ~ReplaceOf(claim'[c])
      BY <1>2, <1>8, <2>8 DEF ReplaceOf
    <3>2. Cardinality(Replacements)' = Cardinality(Replacements)
              - One(ReplaceOf(claim[c])) + One(ReplaceOf(claim'[c]))
      BY <2>8, ClaimMove
    <3> QED BY <3>1, <3>2, ClaimSetsFinite DEF One
  <2>12. rows' \in [Owners -> [Ids -> RowType]] /\ \A j \in Items : rows'[j] = rows[j]
    <3>1. rows' \in [Owners -> [Ids -> RowType]] /\ \A p \in Owners : p # c => rows'[p] = rows[p]
      BY <2>5 DEF VoidMoved
    <3> QED BY <3>1, <1>5, OwnersFinite
  <2>13. UnitsInv'
    <3>1. stock' \in Int /\ lost' \in Nat /\ blind' \in BOOLEAN
      BY <1>1, <1>2, <2>1, <2>10
    <3>2. KeptOf(line', back') = KeptOf(line, back)
      BY <1>2, <2>1
    <3>3. stock' = Opening + QuantityOf(batches') - lost' - KeptOf(line', back') - Cardinality(Replacements)'
      <4>1. stock' = stock - Taken(c) + 1 /\ lost' = lost /\ Taken(c) \in Int
        BY <1>2, <2>1, <2>10
      <4>2. stock = Opening + QuantityOf(batches) - lost - KeptOf(line, back) - Cardinality(Replacements)
        BY SumFacts
      <4>3. /\ KeptOf(line, back) \in Int /\ QuantityOf(batches) \in Nat /\ Opening \in Nat
            /\ Cardinality(Replacements) \in Nat
        BY SumFacts
      <4>4. QuantityOf(batches') = QuantityOf(batches) - Taken(c)
        BY <2>10
      <4> QED BY <4>1, <4>2, <4>3, <4>4, <3>2, <1>1, <2>11
    <3>4. ~split' => \A j \in Items : LineHolds(line'[j], rows'[j], back'[j])
      BY <1>2, <2>1, <2>12, SumFacts
    <3>5. ~blind' => stock' >= RemainingOf(batches')
      BY <1>1, <1>2, <2>1, <2>7, <2>10, SumFacts
    <3> QED BY <3>1, <3>3, <3>4, <3>5, <2>12, UnitsFrom
  <2> QED BY <2>2, <2>9, <2>13 DEF WarrantyInv
<1> QED BY <1>7, <1>8 DEF VoidClaim

-----------------------------------------------------------------------------
(* Initially and always                                                    *)

LEMMA KeptInit == ASSUME WInit PROVE WarrantyInv
<1>1. /\ stock = Opening /\ opened = 0 /\ lost = 0 /\ split = FALSE /\ blind = FALSE
      /\ batches = [b \in Ids |-> NoBatch]
      /\ rows = [o \in Owners |-> [b \in Ids |-> NoRow]]
      /\ line = [i \in Items |-> [status |-> "none", quantity |-> 0,
                                  refunded |-> 0, reversed |-> FALSE]]
      /\ refunds = [i \in Items |-> [q \in 1 .. MaxQty |-> 0]]
      /\ back = [i \in Items |-> 0]
      /\ claim = [c \in Claims |-> NoClaim]
  BY DEF WInit, Init
<1>2. batches \in [Ids -> BatchType] /\ rows \in [Owners -> [Ids -> RowType]]
  BY <1>1, NothingTyped
<1>3. 0 \in 0 .. MaxQty /\ 0 \in 0 .. MaxBatches /\ 0 \in 0 .. MaxRefunds
  BY StockAssumption
<1>4. /\ line \in [Items -> LineType]
      /\ \A i \in Items : /\ line[i].status = "none" /\ line[i].quantity = 0
                          /\ line[i].refunded = 0 /\ ~line[i].reversed
  BY <1>1, <1>3 DEF LineType
<1>5. NoClaim \in ClaimType /\ NoClaim.status = "none" /\ NoClaim.held = "none" /\ NoClaim.return = "none"
  BY <1>3 DEF NoClaim, ClaimType
<1>6. /\ claim \in [Claims -> ClaimType]
      /\ \A c \in Claims : /\ claim[c].status = "none" /\ claim[c].held = "none"
                           /\ claim[c].return = "none"
  BY <1>1, <1>5
<1>7. /\ \A b \in Ids : batches[b].quantity = 0 /\ batches[b].remaining = 0
      /\ \A o \in Owners : \A b \in Ids : rows[o][b].quantity = 0 /\ ~rows[o][b].restored
  BY <1>1 DEF NoBatch, NoRow
<1>8. /\ refunds \in [Items -> [1 .. MaxQty -> 0 .. MaxRefunds]] /\ back \in [Items -> Nat]
      /\ \A i \in Items : back[i] = 0 /\ \A q \in 1 .. MaxQty : refunds[i][q] = 0
  BY <1>1, <1>3
<1>9. BooksInv
  <2>1. ClaimsStaged
    BY <1>6 DEF ClaimsStaged, Staged
  <2>2. ASSUME NEW i \in Items PROVE ItemOK(i)
    <3>1. RefundClaims(i) = {} /\ Pending(i) = {}
      BY <1>6 DEF RefundClaims, Pending
    <3>2. Cardinality(RefundClaims(i)) = 0 /\ Cardinality(Pending(i)) = 0
      BY <3>1, FS_EmptySet
    <3>3. ItemRefunds(i) = 0
      <4> DEFINE f == [q \in 1 .. MaxQty |-> q * refunds[i][q]]
      <4>1. \A q \in 1 .. MaxQty : f[q] = 0
        <5>1. ASSUME NEW q \in 1 .. MaxQty PROVE q * 0 = 0
          OBVIOUS
        <5> QED BY <5>1, <1>8
      <4> HIDE DEF f
      <4>2. SumFunctionOnSet(f, 1 .. MaxQty) = 0
        BY <4>1, IdsFinite, SumZero
      <4> QED BY <4>2 DEF ItemRefunds, f
    <3>4. line[i] \in LineType
      BY <1>4
    <3> QED BY <3>2, <3>3, <3>4, <1>4, <1>8 DEF ItemOK, LineOK
  <2> QED BY <2>1, <2>2, <1>4, <1>6, <1>8, BooksByLine DEF BookTypes
<1>10. RowsInv
  <2>1. FreshBatches /\ FreshRows
    BY <1>7, OwnersFinite DEF FreshBatches, FreshRows, NoUnits
  <2>2. ClaimDrawsOne
    BY <1>7, OwnersFinite DEF ClaimDrawsOne
  <2>3. ReturnBatches
    BY <1>6 DEF ReturnBatches
  <2>4. ASSUME NEW b \in Ids PROVE Balanced(b)
    <3>1. \A o \in Owners : LiveOf(rows[o][b]) = 0
      BY <1>7 DEF LiveOf
    <3>2. Out(b) = 0
      BY <3>1, <1>2, OutIs, OutNone
    <3> QED BY <3>2, <1>7 DEF Balanced
  <2> QED BY <2>1, <2>2, <2>3, <2>4, <1>1, <1>2, <1>3 DEF RowsInv, BatchesBalance
<1>11. UnitsInv
  <2>1. Replacements = {}
    BY <1>6 DEF Replacements
  <2>2. Cardinality(Replacements) = 0
    BY <2>1, FS_EmptySet
  <2>3. SumFunctionOnSet([b \in Ids |-> batches[b].quantity], Ids) = 0
    <3> DEFINE f == [b \in Ids |-> batches[b].quantity]
    <3>1. \A b \in Ids : f[b] = 0
      BY <1>7
    <3> HIDE DEF f
    <3>2. SumFunctionOnSet(f, Ids) = 0
      BY <3>1, IdsFinite, SumZero
    <3> QED BY <3>2 DEF f
  <2>4. SumFunctionOnSet([i \in Items |-> line[i].quantity - back[i]], Items) = 0
    <3> DEFINE f == [i \in Items |-> line[i].quantity - back[i]]
    <3>1. \A i \in Items : f[i] = 0
      BY <1>4, <1>8
    <3> HIDE DEF f
    <3>2. SumFunctionOnSet(f, Items) = 0
      BY <3>1, OwnersFinite, SumZero
    <3> QED BY <3>2 DEF f
  <2>5. Remaining(Ids) = 0
    <3> DEFINE f == [b \in Ids |-> batches[b].remaining]
    <3>1. \A b \in Ids : f[b] = 0
      BY <1>7
    <3> HIDE DEF f
    <3>2. SumFunctionOnSet(f, Ids) = 0
      BY <3>1, IdsFinite, SumZero
    <3> QED BY <3>2 DEF Remaining, f
  <2>6. Opening \in Nat
    BY StockAssumption
  <2>7. UnitsAccounted
    BY <2>2, <2>3, <2>4, <2>6, <1>1 DEF UnitsAccounted
  <2>8. ASSUME NEW i \in Items PROVE Drawn(i, Active(i)) = 0
    <3>1. Active(i) = {}
      BY <1>7, OwnersFinite DEF Active
    <3>2. IsFiniteSet({})
      BY FS_EmptySet
    <3>3. Drawn(i, {}) = 0
      BY <3>2, SumZero DEF Drawn
    <3> QED BY <3>1, <3>3
  <2>9. LineAccounted
    <3>1. ASSUME NEW i \in Items PROVE Drawn(i, Active(i)) + back[i] <= line[i].quantity
      <4>1. Drawn(i, Active(i)) = 0 /\ back[i] = 0 /\ line[i].quantity = 0
        BY <2>8, <1>4, <1>8
      <4> QED BY <4>1
    <3> QED BY <3>1 DEF LineAccounted
  <2>10. ShelfHolds
    BY <2>5, <2>6, <1>1 DEF ShelfHolds
  <2>11. stock \in Int /\ lost \in Nat
    BY <2>6, <1>1
  <2>12. blind \in BOOLEAN
    BY <1>1
  <2> QED BY <2>7, <2>9, <2>10, <2>11, <2>12 DEF UnitsInv
<1> QED BY <1>9, <1>10, <1>11 DEF WarrantyInv

LEMMA KeptStutter == ASSUME WarrantyInv, UNCHANGED wvars PROVE WarrantyInv'
<1>1. UNCHANGED <<stock, batches, opened, rows, line, refunds, back, lost, split, blind, claim>>
  BY DEF wvars, vars
<1>2. BooksInv /\ RowsInv
  BY InvFacts
<1>3. BooksInv'
  BY <1>1, <1>2, BooksSame
<1>4. RowsInv'
  BY <1>1, <1>2, StandsOnward, RowsSame
<1>5. UnitsInv'
  BY <1>1, ClaimsSame, UnitsSame
<1> QED BY <1>3, <1>4, <1>5 DEF WarrantyInv

LEMMA KeptNext == ASSUME WarrantyInv, [WNext]_wvars PROVE WarrantyInv'
<1>1. ASSUME StockNext, UNCHANGED claim PROVE WarrantyInv'
  <2>1. ASSUME NEW d \in Intakes, Receive(d) PROVE WarrantyInv'
    BY <2>1, <1>1, KeepsReceive
  <2>2. ASSUME NEW b \in Ids, VoidIntake(b) PROVE WarrantyInv'
    BY <2>2, <1>1, KeepsVoidIntake
  <2>3. ASSUME NEW q \in 1 .. MaxAdjusts, Adjust(q) PROVE WarrantyInv'
    BY <2>3, <1>1, KeepsAdjust
  <2>4. ASSUME NEW i \in Items, NEW q \in SaleQty[i], Sell(i, q) PROVE WarrantyInv'
    BY <2>4, <1>1, KeepsSell
  <2>5. ASSUME NEW i \in Items, NEW q \in 1 .. MaxQty, RefundItem(i, q) PROVE WarrantyInv'
    BY <2>5, <1>1, KeepsRefundItem
  <2>6. ASSUME NEW i \in Items, NEW q \in 1 .. MaxQty, UndoRefund(i, q) PROVE WarrantyInv'
    BY <2>6, <1>1, KeepsUndoRefund
  <2>7. ASSUME NEW i \in Items, NEW s \in {"cancelled", "refunded"}, ReverseSale(i, s) PROVE WarrantyInv'
    BY <2>7, <1>1, KeepsReverseSale
  <2> QED BY <1>1, <2>1, <2>2, <2>3, <2>4, <2>5, <2>6, <2>7 DEF StockNext
<1>2. ASSUME NEW c \in Claims, NEW i \in Items, ClaimRefund(c, i) PROVE WarrantyInv'
  BY <1>2, KeepsClaimRefund
<1>3. ASSUME NEW c \in Claims, NEW i \in Items, ClaimReplace(c, i) PROVE WarrantyInv'
  BY <1>3, KeepsClaimReplace
<1>4. ASSUME NEW c \in Claims, WriteOff(c) PROVE WarrantyInv'
  BY <1>4, KeepsWriteOff
<1>5. ASSUME NEW c \in Claims, NotFaulty(c) PROVE WarrantyInv'
  BY <1>5, KeepsNotFaulty
<1>6. ASSUME NEW c \in Claims, SendToSupplier(c) PROVE WarrantyInv'
  BY <1>6, KeepsSendToSupplier
<1>7. ASSUME NEW c \in Claims, SupplierAnswers(c) PROVE WarrantyInv'
  BY <1>7, KeepsSupplierAnswers
<1>8. ASSUME NEW c \in Claims, SupplierReplaces(c) PROVE WarrantyInv'
  BY <1>8, KeepsSupplierReplaces
<1>9. ASSUME NEW c \in Claims, VoidClaim(c) PROVE WarrantyInv'
  BY <1>9, KeepsVoidClaim
<1>10. ASSUME UNCHANGED wvars PROVE WarrantyInv'
  BY <1>10, KeptStutter
<1> QED BY <1>1, <1>2, <1>3, <1>4, <1>5, <1>6, <1>7, <1>8, <1>9, <1>10 DEF WNext

-----------------------------------------------------------------------------
(* The theorems                                                            *)

\* The inductive invariant of the stock of a product: what the books of lines,
\* refunds and claims say, what batches and consumption rows say, and that the
\* units of both agree.
THEOREM StockInvariant == WSpec => []WarrantyInv
<1>1. WInit => WarrantyInv
  BY KeptInit
<1>2. WarrantyInv /\ [WNext]_wvars => WarrantyInv'
  BY KeptNext
<1> QED BY <1>1, <1>2, PTL DEF WSpec

\* Stock, lines, batches, rows and claims hold what the code can put there, and
\* no line is refunded beyond what was sold of it.
THEOREM StockTypes == WSpec => []WarrantyTypeOK
<1>1. WarrantyInv => WarrantyTypeOK
  BY DEF WarrantyInv, BooksInv, RowsInv, UnitsInv, WarrantyTypeOK, TypeOK, BatchType, RowType,
         LineType, ClaimType
<1> QED BY <1>1, StockInvariant, PTL

\* Unless an undo took back part of a row, what a batch still holds and what its
\* rows say was drawn from it add up to the quantity it was opened with.
THEOREM BatchesStayBalanced == WSpec => []BatchesBalance
<1>1. WarrantyInv => BatchesBalance
  BY DEF WarrantyInv, RowsInv
<1> QED BY <1>1, StockInvariant, PTL

\* What a line is still charged to batches with and what it put back on the shelf
\* never exceed what was sold, in whatever order it was refunded, claimed and undone.
THEOREM LinesStayAccounted == WSpec => []LineAccounted
<1>1. WarrantyInv => LineAccounted
  BY DEF WarrantyInv, UnitsInv
<1> QED BY <1>1, StockInvariant, PTL

\* The count covers every unit the batches promise, unless stock was oversold,
\* adjusted below zero, or an undo found no row to check.
THEOREM ShelfAlwaysHolds == WSpec => []ShelfHolds
<1>1. WarrantyInv => ShelfHolds
  BY DEF WarrantyInv, UnitsInv
<1> QED BY <1>1, StockInvariant, PTL

\* Every unit is accounted for: the count is what was there and delivered, less
\* losses, what customers keep of the sales and the replacements of live claims.
THEOREM UnitsStayAccounted == WSpec => []UnitsAccounted
<1>1. WarrantyInv => UnitsAccounted
  BY DEF WarrantyInv, UnitsInv
<1> QED BY <1>1, StockInvariant, PTL

\* A line is refunded by its live item refunds and live refund claims exactly.
THEOREM RefundsStayAccounted == WSpec => []RefundsAccounted
<1>1. WarrantyInv => RefundsAccounted
  BY DEF WarrantyInv, BooksInv
<1> QED BY <1>1, StockInvariant, PTL
=============================================================================
