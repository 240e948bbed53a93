-------------------------- MODULE ExchangeLotsProofs --------------------------
(***************************************************************************)
(* Safety of the exchange lots for any currencies, quantities, dates and   *)
(* number of operations.                                                   *)
(***************************************************************************)
EXTENDS ExchangeLots, SumTheorems

\* An operation that is not booked yet has no row anywhere.
Unused(k) ==
    /\ op[k] = NoOp /\ lot[k] = NoLot /\ market[k] = 0
    /\ \A j \in Ops : taken[k][j] = 0 /\ taken[j][k] = 0

\* A settlement stands, is later than the lot it took from, and that lot too
\* stands.
Backed == \A j, l \in Ops : taken[j][l] > 0 => l < j /\ op[j].stands /\ ~lot[l].voided

\* A lot is voided with the operation that opened it.
VoidedTogether == \A k \in Ops :
    IF lot[k].original > 0 THEN lot[k].voided <=> ~op[k].stands ELSE ~lot[k].voided

LotsInv ==
    /\ TypeOK
    /\ \A k \in Ops : k > n => Unused(k)
    /\ LotBalances /\ SoldIsSettled /\ Backed /\ VoidedTogether

OpType  == [kind : {"none", "exchange", "add", "writeoff"}, sold : Nat, stands : BOOLEAN]
LotType == [cur : Currencies \cup {"none"}, at : Times \cup {0},
            original : Nat, remaining : Nat, voided : BOOLEAN]

LEMMA NothingTyped == NoOp \in OpType /\ NoLot \in LotType
BY DEF NoOp, NoLot, OpType, LotType

LEMMA LotTypes ==
    ASSUME TypeOK
    PROVE  /\ n \in 0 .. MaxOps /\ op \in [Ops -> OpType] /\ lot \in [Ops -> LotType]
           /\ taken \in [Ops -> [Ops -> Nat]] /\ market \in [Ops -> Nat]
           /\ \A l \in Ops : lot[l].at \in Nat /\ lot[l].remaining \in Nat /\ lot[l].original \in Nat
<1>1. /\ n \in 0 .. MaxOps /\ op \in [Ops -> OpType] /\ lot \in [Ops -> LotType]
      /\ taken \in [Ops -> [Ops -> Nat]] /\ market \in [Ops -> Nat]
  BY DEF TypeOK, OpType, LotType
<1>2. \A l \in Ops : lot[l] \in LotType
  BY <1>1
<1>3. \A r \in LotType : r.at \in Nat /\ r.remaining \in Nat /\ r.original \in Nat
  <2>1. \A x \in Times \cup {0} : x \in Nat
    BY LotsAssumption
  <2> QED BY <2>1 DEF LotType
<1> QED BY <1>1, <1>2, <1>3

LEMMA OpsFinite == Ops \in SUBSET Nat /\ IsFiniteSet(Ops) /\ Ops \in SUBSET Ops
BY LotsAssumption, FS_Interval DEF Ops

LEMMA MinOfTwo ==
    ASSUME NEW a \in Nat, NEW b \in Nat
    PROVE  Min({a, b}) = Smaller(a, b)
BY DEF Min, Smaller

-----------------------------------------------------------------------------
(* walkFifo                                                                *)

LEMMA OpenQtyType ==
    ASSUME TypeOK, NEW L \in SUBSET Ops
    PROVE  OpenQty(L) \in Nat
<1> DEFINE r == [l \in Ops |-> lot[l].remaining]
<1>1. r \in [Ops -> Nat]
  BY LotTypes
<1> HIDE DEF r
<1>2. SumFunctionOnSet(r, L) \in Nat
  BY <1>1, OpsFinite, SumNat
<1> QED BY <1>2 DEF OpenQty, r

\* The walk takes from open lots, never more than they hold.
LEMMA TakeFacts ==
    ASSUME TypeOK, NEW c, NEW q \in Nat
    PROVE  /\ Take(c, q) \in [Ops -> Nat]
           /\ \A l \in Ops : /\ Take(c, q)[l] <= lot[l].remaining
                             /\ Take(c, q)[l] > 0 => l \in Open(c)
                             /\ l \in Open(c) =>
                                  Take(c, q)[l] = WalkTakes(q, OpenQty({m \in Open(c) : Before(m, l)}),
                                                            lot[l].remaining)
<1> DEFINE t == Take(c, q)
           b(l) == OpenQty({m \in Open(c) : Before(m, l)})
<1>1. ASSUME NEW l \in Ops
      PROVE  t[l] = IF l \in Open(c) THEN WalkTakes(q, b(l), lot[l].remaining) ELSE 0
  <2>1. b(l) \in Nat
    BY OpenQtyType DEF Open
  <2>2. t[l] = IF l \notin Open(c) THEN 0
               ELSE IF b(l) >= q THEN 0 ELSE Min({q - b(l), lot[l].remaining})
    BY DEF Take
  <2> HIDE DEF b
  <2>3. lot[l].remaining \in Nat
    BY LotTypes
  <2>4. ~(b(l) >= q) => q - b(l) \in Nat
    BY <2>1
  <2> QED BY <2>2, <2>3, <2>4, MinOfTwo DEF WalkTakes
<1>2. ASSUME NEW l \in Ops
      PROVE  t[l] \in Nat /\ t[l] <= lot[l].remaining /\ (t[l] > 0 => l \in Open(c))
  <2>1. b(l) \in Nat /\ lot[l].remaining \in Nat
    BY OpenQtyType, LotTypes DEF Open
  <2> HIDE DEF b, t
  <2> QED BY <2>1, <1>1 DEF WalkTakes, Smaller
<1>3. t \in [Ops -> Nat]
  <2>1. t = [l \in Ops |-> t[l]]
    BY DEF Take
  <2> QED BY <2>1, <1>2
<1> QED BY <1>1, <1>2, <1>3

\* The open lots of a currency form a queue.
LEMMA OpenIsQueue ==
    ASSUME TypeOK, NEW c
    PROVE  Queue(Open(c), [l \in Open(c) |-> {m \in Open(c) : Before(m, l)}])
<1> DEFINE S == Open(c)
           B == [l \in S |-> {m \in S : Before(m, l)}]
<1>1. \A l \in S : l \in Nat /\ lot[l].at \in Nat
  BY LotTypes, OpsFinite DEF Open
<1> HIDE DEF S
<1>2. \A l \in S : B[l] = {m \in S : Before(m, l)}
  OBVIOUS
<1>3. \A x \in S : x \notin B[x]
  BY <1>1, <1>2 DEF Before
<1>4. \A x \in S : \A y \in B[x] : B[y] \subseteq B[x]
  BY <1>1, <1>2 DEF Before
<1>5. \A x, y \in S : x = y \/ x \in B[y] \/ y \in B[x]
  BY <1>1, <1>2 DEF Before
<1>6. B \in [S -> SUBSET S]
  OBVIOUS
<1> HIDE DEF B
<1>7. Queue(S, B)
  BY <1>3, <1>4, <1>5, <1>6 DEF Queue
<1> QED BY <1>7 DEF B, S

\* What is taken and what no lot covers is what was paid out.
LEMMA TakeCovers ==
    ASSUME TypeOK, NEW c, NEW q \in Nat
    PROVE  SumFunctionOnSet(Take(c, q), Ops) + Uncovered(c, q) = q /\ Uncovered(c, q) \in Nat
<1> DEFINE S == Open(c)
           B == [l \in S |-> {m \in S : Before(m, l)}]
           r == [l \in Ops |-> lot[l].remaining]
           w == [l \in S |-> lot[l].remaining]
           T == Take(c, q)
           t == [l \in S |-> T[l]]
<1>1. S \in SUBSET Ops /\ IsFiniteSet(S)
  BY OpsFinite, FS_Subset DEF Open
<1>2. Queue(S, B)
  BY OpenIsQueue
<1>3. /\ T \in [Ops -> Nat]
      /\ \A l \in Ops : l \notin S => T[l] = 0
      /\ \A l \in S : T[l] = WalkTakes(q, OpenQty({m \in S : Before(m, l)}), lot[l].remaining)
  <2>1. \A l \in Ops : T[l] \in Nat /\ (T[l] > 0 => l \in S)
    BY TakeFacts
  <2> QED BY <2>1, TakeFacts, <1>1
<1>4. r \in [Ops -> Nat] /\ w \in [S -> Nat] /\ t \in [S -> Nat]
  BY <1>1, <1>3, LotTypes
<1>5. \A l \in S : w[l] = r[l] /\ t[l] = T[l] /\ w[l] = lot[l].remaining /\ B[l] = {m \in S : Before(m, l)}
  BY <1>1
<1>6. \A L : OpenQty(L) = SumFunctionOnSet(r, L)
  BY DEF OpenQty
<1> HIDE DEF S, B, r, w, t, T
<1>7. ASSUME NEW L \in SUBSET S PROVE SumFunctionOnSet(w, L) = SumFunctionOnSet(r, L)
  <2>1. \A x \in L : w[x] = r[x]
    BY <1>5
  <2> QED BY <2>1, SumSame
<1>8. \A l \in S : t[l] = WalkTakes(q, SumFunctionOnSet(w, B[l]), w[l])
  <2> TAKE l \in S
  <2>1. B[l] \in SUBSET S
    BY <1>5
  <2> QED BY <2>1, <1>3, <1>5, <1>6, <1>7
<1>9. SumFunctionOnSet(t, S) = Smaller(q, SumFunctionOnSet(w, S))
  BY <1>1, <1>2, <1>4, <1>8, WalkSum
<1>10. SumFunctionOnSet(T, Ops) = SumFunctionOnSet(T, S)
  <2>1. T \in [Ops -> Int]
    BY <1>3
  <2> QED BY <1>1, <1>3, <2>1, OpsFinite, SumSupport
<1>11. SumFunctionOnSet(T, S) = SumFunctionOnSet(t, S)
  BY <1>5, SumSame
<1> DEFINE a == OpenQty(S)
<1>12. a \in Nat /\ SumFunctionOnSet(w, S) = a
  BY <1>1, <1>6, <1>7, OpenQtyType
<1>13. Uncovered(c, q) = IF q > a THEN q - a ELSE 0
  BY DEF Uncovered, S
<1> HIDE DEF a
<1>14. SumFunctionOnSet(T, Ops) = Smaller(q, a)
  BY <1>9, <1>10, <1>11, <1>12
<1>15. Smaller(q, a) + Uncovered(c, q) = q /\ Uncovered(c, q) \in Nat
  BY <1>12, <1>13 DEF Smaller
<1> QED BY <1>14, <1>15 DEF T

-----------------------------------------------------------------------------
(* The operations                                                          *)

LEMMA LotsInit == Init => LotsInv
<1> SUFFICES ASSUME Init PROVE LotsInv
  OBVIOUS
<1>1. /\ n = 0 /\ \A k \in Ops : op[k] = NoOp /\ lot[k] = NoLot /\ market[k] = 0
      /\ \A k, l \in Ops : taken[k][l] = 0
  BY DEF Init
<1>2. TypeOK
  <2>1. op \in [Ops -> OpType] /\ lot \in [Ops -> LotType]
    BY NothingTyped DEF Init
  <2>2. taken \in [Ops -> [Ops -> Nat]] /\ market \in [Ops -> Nat]
    BY DEF Init
  <2>3. n \in 0 .. MaxOps
    BY LotsAssumption DEF Init
  <2> QED BY <2>1, <2>2, <2>3 DEF TypeOK, OpType, LotType
<1>3. \A k \in Ops : Unused(k)
  BY <1>1 DEF Unused
<1>4. LotBalances
  <2> SUFFICES ASSUME NEW l \in Ops
               PROVE  /\ lot[l].remaining >= 0
                      /\ lot[l].remaining + SumFunctionOnSet([j \in Ops |-> taken[j][l]], Ops)
                            = lot[l].original
    BY DEF LotBalances
  <2> DEFINE f == [j \in Ops |-> taken[j][l]]
  <2>1. \A j \in Ops : f[j] = 0
    BY <1>1
  <2>2. SumFunctionOnSet(f, Ops) = 0
    <3> HIDE DEF f
    <3> QED BY <2>1, OpsFinite, SumZero
  <2> QED BY <1>1, <2>2 DEF NoLot
<1>5. SoldIsSettled
  <2> SUFFICES ASSUME NEW k \in Ops
               PROVE  SumFunctionOnSet(taken[k], Ops) + market[k] = 0 /\ ~(op[k].stands)
    BY DEF SoldIsSettled
  <2>1. SumFunctionOnSet(taken[k], Ops) = 0
    BY <1>1, OpsFinite, SumZero
  <2> QED BY <1>1, <2>1 DEF NoOp
<1>6. Backed
  BY <1>1 DEF Backed
<1>7. VoidedTogether
  BY <1>1 DEF VoidedTogether, NoLot
<1> QED BY <1>2, <1>3, <1>4, <1>5, <1>6, <1>7 DEF LotsInv

\* What a balanced lot keeps when one settler's share of it changes.
LEMMA BalanceMoves ==
    ASSUME TypeOK, LotBalances, NEW k \in Ops, NEW l \in Ops,
           taken' \in [Ops -> [Ops -> Nat]], \A j \in Ops : j # k => taken'[j] = taken[j],
           lot'[l].original = lot[l].original,
           lot'[l].remaining = lot[l].remaining - taken'[k][l] + taken[k][l],
           lot'[l].remaining \in Nat
    PROVE  /\ lot'[l].remaining >= 0
           /\ lot'[l].remaining + SumFunctionOnSet([j \in Ops |-> taken'[j][l]], Ops)
                 = lot'[l].original
<1> DEFINE f == [j \in Ops |-> taken[j][l]]
           g == [j \in Ops |-> taken'[j][l]]
<1>1. EqualBut(f, g, Ops, k)
  BY OpsFinite, LotTypes DEF EqualBut
<1>2. g[k] = taken'[k][l] /\ f[k] = taken[k][l]
  OBVIOUS
<1>3. lot[l].remaining + SumFunctionOnSet(f, Ops) = lot[l].original
  BY DEF LotBalances
<1> HIDE DEF f, g
<1>4. /\ SumFunctionOnSet(f, Ops) \in Int
      /\ SumFunctionOnSet(g, Ops) = SumFunctionOnSet(f, Ops) - f[k] + g[k]
  BY <1>1, SumChangeAll
<1>5. f[k] \in Nat /\ g[k] \in Nat /\ lot[l].remaining \in Nat /\ lot[l].original \in Nat
  BY <1>2, LotTypes
<1>6. lot'[l].remaining + SumFunctionOnSet(g, Ops) = lot'[l].original
  BY <1>2, <1>3, <1>4, <1>5
<1> QED BY <1>6 DEF g

\* The rows of the operation that is booked.
LEMMA BookRows ==
    ASSUME LotsInv, NEW kind \in {"exchange", "add", "writeoff"}, NEW ci, NEW qi \in Nat, NEW at, NEW co,
           NEW qo \in Nat, qi # 0 => ci \in Currencies /\ at \in Times, Book(kind, ci, qi, at, co, qo)
    PROVE  LET k == n + 1
               t == Take(co, qo)
           IN  /\ k \in Ops /\ n' = k /\ Unused(k)
               /\ TypeOK' /\ t \in [Ops -> Nat] /\ t[k] = 0
               /\ op'[k].sold = qo /\ op'[k].stands /\ op'[k].kind = kind
               /\ taken'[k] = t /\ market'[k] = Uncovered(co, qo)
               /\ lot'[k].remaining = lot'[k].original /\ lot'[k].voided = FALSE
               /\ \A j \in Ops : j # k =>
                    /\ op'[j] = op[j] /\ taken'[j] = taken[j] /\ market'[j] = market[j]
                    /\ lot'[j].original = lot[j].original /\ lot'[j].voided = lot[j].voided
                    /\ lot'[j].remaining = lot[j].remaining - t[j]
               /\ \A l \in Ops : t[l] > 0 => l < k /\ ~lot[l].voided
<1> DEFINE k == n + 1
           t == Take(co, qo)
           new == IF qi = 0 THEN NoLot ELSE NewLot(ci, qi, at)
           o == [kind |-> kind, sold |-> qo, stands |-> TRUE]
<1>1. TypeOK
  BY DEF LotsInv
<1>2. /\ n < MaxOps /\ n' = k /\ op' = [op EXCEPT ![k] = o]
      /\ lot' = [l \in Ops |-> IF l = k THEN new ELSE [lot[l] EXCEPT !.remaining = @ - t[l]]]
      /\ taken' = [taken EXCEPT ![k] = t] /\ market' = [market EXCEPT ![k] = Uncovered(co, qo)]
  BY DEF Book
<1>3. k \in Ops /\ k \in 0 .. MaxOps /\ Unused(k)
  BY <1>1, <1>2, LotTypes, LotsAssumption DEF Ops, LotsInv
<1>4. /\ t \in [Ops -> Nat]
      /\ \A l \in Ops : t[l] <= lot[l].remaining /\ (t[l] > 0 => l \in Open(co))
  BY <1>1, TakeFacts
<1>5. o \in OpType /\ o.sold = qo /\ o.stands = TRUE /\ o.kind = kind
  BY DEF OpType
<1>6. new \in LotType /\ new.remaining = new.original /\ new.voided = FALSE
  <2>1. CASE qi = 0
    BY <2>1, NothingTyped DEF NoLot
  <2>2. CASE qi # 0
    BY <2>2 DEF NewLot, LotType
  <2> QED BY <2>1, <2>2
<1> HIDE DEF k, t, new, o
<1>7. \A l \in Ops : lot[l] \in LotType /\ t[l] \in Nat /\ lot[l].remaining \in Nat
  BY <1>1, <1>4, LotTypes
<1>8. \A l \in Ops : lot[l].remaining - t[l] \in Nat
  BY <1>4, <1>7
<1>9. \A l \in Ops : l # k =>
        /\ lot'[l] \in LotType
        /\ lot'[l].original = lot[l].original /\ lot'[l].voided = lot[l].voided
        /\ lot'[l].remaining = lot[l].remaining - t[l]
  BY <1>2, <1>7, <1>8 DEF LotType
<1>10. lot'[k] = new
  BY <1>2, <1>3
<1>11. TypeOK'
  <2>1. lot' \in [Ops -> LotType]
    <3>1. \A l \in Ops : lot'[l] \in LotType
      BY <1>6, <1>9, <1>10
    <3>2. lot' = [l \in Ops |-> lot'[l]]
      BY <1>2
    <3> QED BY <3>1, <3>2
  <2>2. op' \in [Ops -> OpType]
    BY <1>1, <1>2, <1>5, LotTypes
  <2>3. Uncovered(co, qo) \in Nat
    BY <1>1, TakeCovers
  <2>4. taken' \in [Ops -> [Ops -> Nat]] /\ market' \in [Ops -> Nat] /\ n' \in 0 .. MaxOps
    BY <1>1, <1>2, <1>3, <1>4, <2>3, LotTypes
  <2> QED BY <2>1, <2>2, <2>4 DEF TypeOK, OpType, LotType
<1>12. \A j \in Ops : j # k => op'[j] = op[j] /\ taken'[j] = taken[j] /\ market'[j] = market[j]
  BY <1>1, <1>2, LotTypes
<1>13. op'[k] = o /\ taken'[k] = t /\ market'[k] = Uncovered(co, qo)
  BY <1>1, <1>2, <1>3, LotTypes
<1>14. lot[k].remaining = 0
  BY <1>3 DEF Unused, NoLot
<1>15. t[k] = 0
  BY <1>3, <1>4, <1>14
<1>16. \A l \in Ops : t[l] > 0 => l < k /\ ~lot[l].voided
  <2> TAKE l \in Ops
  <2> HAVE t[l] > 0
  <2>1. lot[l].remaining > 0 /\ ~lot[l].voided
    BY <1>4 DEF Open
  <2>2. ~(l > n)
    BY <2>1 DEF LotsInv, Unused, NoLot
  <2>3. n \in Nat /\ l \in Nat
    BY <1>1, LotTypes, OpsFinite, LotsAssumption
  <2> QED BY <2>1, <2>2, <2>3 DEF k
<1> QED BY <1>2, <1>3, <1>4, <1>5, <1>6, <1>9, <1>10, <1>11, <1>12, <1>13, <1>15, <1>16 DEF k, t

\* An operation that is booked keeps every lot balanced and settles what it
\* pays out.
LEMMA BookKeeps ==
    ASSUME LotsInv, NEW kind \in {"exchange", "add", "writeoff"}, NEW ci, NEW qi \in Nat, NEW at, NEW co,
           NEW qo \in Nat, qi # 0 => ci \in Currencies /\ at \in Times, Book(kind, ci, qi, at, co, qo)
    PROVE  LotsInv'
<1> DEFINE k == n + 1
           t == Take(co, qo)
<1>1. /\ k \in Ops /\ n' = k /\ Unused(k)
      /\ TypeOK' /\ t \in [Ops -> Nat] /\ t[k] = 0
      /\ op'[k].sold = qo /\ op'[k].stands /\ op'[k].kind = kind
      /\ taken'[k] = t /\ market'[k] = Uncovered(co, qo)
      /\ lot'[k].remaining = lot'[k].original /\ lot'[k].voided = FALSE
      /\ \A j \in Ops : j # k =>
           /\ op'[j] = op[j] /\ taken'[j] = taken[j] /\ market'[j] = market[j]
           /\ lot'[j].original = lot[j].original /\ lot'[j].voided = lot[j].voided
           /\ lot'[j].remaining = lot[j].remaining - t[j]
      /\ \A l \in Ops : t[l] > 0 => l < k /\ ~lot[l].voided
  BY BookRows
<1>2. TypeOK /\ LotBalances /\ SoldIsSettled /\ Backed /\ VoidedTogether /\ n \in Nat
  BY LotTypes, LotsAssumption DEF LotsInv
<1>3. SumFunctionOnSet(t, Ops) + Uncovered(co, qo) = qo
  BY <1>2, TakeCovers
<1>4. \A x \in Ops : x > k => x > n /\ x # k
  BY <1>2, OpsFinite
<1> HIDE DEF k, t
<1>5. \A x \in Ops : lot'[x].remaining \in Nat /\ lot'[x].original \in Nat
  <2>1. lot' \in [Ops -> LotType]
    BY <1>1 DEF TypeOK, LotType
  <2>2. \A r \in LotType : r.remaining \in Nat /\ r.original \in Nat
    BY DEF LotType
  <2> QED BY <2>1, <2>2
<1>6. LotBalances'
  <2> SUFFICES ASSUME NEW l \in Ops
               PROVE  /\ lot'[l].remaining >= 0
                      /\ lot'[l].remaining + SumFunctionOnSet([j \in Ops |-> taken'[j][l]], Ops)
                            = lot'[l].original
    BY DEF LotBalances
  <2>1. CASE l # k
    <3>1. taken' \in [Ops -> [Ops -> Nat]]
      BY <1>1 DEF TypeOK
    <3>2. \A j \in Ops : j # k => taken'[j] = taken[j]
      BY <1>1
    <3>3. taken[k][l] = 0 /\ taken'[k][l] = t[l] /\ t[l] \in Nat /\ lot[l].remaining \in Nat
      BY <1>1, <1>2, LotTypes DEF Unused
    <3>4. lot'[l].original = lot[l].original
      BY <1>1, <2>1
    <3>5. lot'[l].remaining = lot[l].remaining - taken'[k][l] + taken[k][l]
      BY <1>1, <2>1, <3>3
    <3> QED BY <1>1, <1>2, <1>5, <3>1, <3>2, <3>4, <3>5, BalanceMoves
  <2>2. CASE l = k
    <3> DEFINE f == [j \in Ops |-> taken'[j][l]]
    <3>1. \A j \in Ops : f[j] = 0
      BY <1>1, <2>2 DEF Unused
    <3>2. SumFunctionOnSet(f, Ops) = 0
      <4> HIDE DEF f
      <4> QED BY <3>1, OpsFinite, SumZero
    <3>3. lot'[l].remaining = lot'[l].original /\ lot'[l].remaining \in Nat
      BY <1>1, <1>5, <2>2
    <3> QED BY <3>2, <3>3
  <2> QED BY <2>1, <2>2
<1>7. SoldIsSettled'
  <2> SUFFICES ASSUME NEW j \in Ops
               PROVE  SumFunctionOnSet(taken'[j], Ops) + market'[j]
                         = IF op'[j].stands THEN op'[j].sold ELSE 0
    BY DEF SoldIsSettled
  <2>1. CASE j = k
    BY <1>1, <1>3, <2>1
  <2>2. CASE j # k
    BY <1>1, <1>2, <2>2 DEF SoldIsSettled
  <2> QED BY <2>1, <2>2
<1>8. Backed'
  <2> SUFFICES ASSUME NEW j \in Ops, NEW l \in Ops, taken'[j][l] > 0
               PROVE  l < j /\ op'[j].stands /\ ~(lot'[l].voided)
    BY DEF Backed
  <2>1. CASE j = k
    BY <1>1, <2>1
  <2>2. CASE j # k
    BY <1>1, <1>2, <2>2 DEF Backed
  <2> QED BY <2>1, <2>2
<1>9. VoidedTogether'
  <2> SUFFICES ASSUME NEW j \in Ops
               PROVE  IF lot'[j].original > 0 THEN lot'[j].voided <=> ~(op'[j].stands) ELSE ~(lot'[j].voided)
    BY DEF VoidedTogether
  <2>1. CASE j = k
    BY <1>1, <2>1
  <2>2. CASE j # k
    BY <1>1, <1>2, <2>2 DEF VoidedTogether
  <2> QED BY <2>1, <2>2
<1>10. \A j \in Ops : j > n' => Unused(j)'
  <2> SUFFICES ASSUME NEW j \in Ops, j > k PROVE Unused(j)'
    BY <1>1
  <2>1. j > n /\ j # k /\ Unused(j)
    BY <1>4 DEF LotsInv
  <2>2. ~(j < k) /\ t[j] \in Nat
    BY <1>1, OpsFinite
  <2>3. t[j] = 0
    BY <1>1, <2>2
  <2>4. lot'[j] = NoLot
    <3>1. lot'[j] = [lot[j] EXCEPT !.remaining = @ - t[j]]
      BY <2>1 DEF Book, k, t
    <3> QED BY <3>1, <2>1, <2>3 DEF Unused, NoLot
  <2>5. \A i \in Ops : taken'[j][i] = 0 /\ taken'[i][j] = 0
    BY <1>1, <2>1, <2>3 DEF Unused
  <2> QED BY <2>1, <2>4, <2>5, <1>1 DEF Unused
<1> QED BY <1>1, <1>6, <1>7, <1>8, <1>9, <1>10 DEF LotsInv

\* A reversed exchange gives back what it took, and its lot has no settler.
LEMMA ReverseKeeps ==
    ASSUME LotsInv, NEW k \in Ops, Reverse(k)
    PROVE  LotsInv'
<1>1. TypeOK /\ LotBalances /\ SoldIsSettled /\ Backed /\ VoidedTogether
  BY DEF LotsInv
<1>2. /\ n' = n /\ op[k].kind = "exchange" /\ op[k].stands
      /\ \A j \in Ops : ~(taken[j][k] > 0)
      /\ op' = [op EXCEPT ![k].stands = FALSE]
      /\ lot' = [l \in Ops |-> [lot[l] EXCEPT !.remaining = @ + taken[k][l],
                                              !.voided = @ \/ (l = k /\ lot[k].original > 0)]]
      /\ taken' = [taken EXCEPT ![k] = [l \in Ops |-> 0]]
      /\ market' = [market EXCEPT ![k] = 0]
  BY DEF Reverse, Restore, Voidable, Settlers
<1>3. \A l \in Ops : /\ lot[l] \in LotType /\ op[l] \in OpType /\ lot[l].remaining \in Nat
                     /\ lot[l].original \in Nat /\ lot[l].voided \in BOOLEAN
  <2>1. \A l \in Ops : lot[l] \in LotType /\ op[l] \in OpType /\ lot[l].remaining \in Nat
    BY <1>1, LotTypes
  <2> QED BY <2>1 DEF LotType
<1>4. \A i, l \in Ops : taken[i][l] \in Nat
  BY <1>1, LotTypes
<1>5. \A l \in Ops :
        /\ lot'[l] \in LotType
        /\ lot'[l].original = lot[l].original
        /\ lot'[l].remaining = lot[l].remaining + taken[k][l]
        /\ lot'[l].voided = (lot[l].voided \/ (l = k /\ lot[k].original > 0))
  <2> TAKE l \in Ops
  <2> DEFINE q == lot[l].remaining + taken[k][l]
             v == (lot[l].voided \/ (l = k /\ lot[k].original > 0))
  <2>1. lot'[l] = [lot[l] EXCEPT !.remaining = q, !.voided = v]
    BY <1>2
  <2>2. q \in Nat /\ v \in BOOLEAN
    BY <1>3, <1>4
  <2> HIDE DEF q, v
  <2>3. lot'[l] \in LotType /\ lot'[l].original = lot[l].original /\ lot'[l].remaining = q /\ lot'[l].voided = v
    BY <2>1, <2>2, <1>3 DEF LotType
  <2> QED BY <2>3 DEF q, v
<1>6. /\ \A j \in Ops : j # k => op'[j] = op[j] /\ taken'[j] = taken[j] /\ market'[j] = market[j]
      /\ ~(op'[k].stands) /\ market'[k] = 0 /\ \A l \in Ops : taken'[k][l] = 0
      /\ op'[k] \in OpType
  <2>1. op'[k] = [op[k] EXCEPT !.stands = FALSE]
    BY <1>1, <1>2, LotTypes
  <2>2. op'[k] \in OpType /\ ~(op'[k].stands)
    BY <2>1, <1>3 DEF OpType
  <2> QED BY <2>2, <1>1, <1>2, LotTypes
<1>7. TypeOK'
  <2>1. lot' \in [Ops -> LotType]
    BY <1>2, <1>5
  <2>2. op' \in [Ops -> OpType]
    <3>1. op' = [j \in Ops |-> op'[j]]
      BY <1>1, <1>2, LotTypes
    <3>2. \A j \in Ops : op'[j] \in OpType
      BY <1>3, <1>6
    <3> QED BY <3>1, <3>2
  <2>3. taken' \in [Ops -> [Ops -> Nat]] /\ market' \in [Ops -> Nat] /\ n' \in 0 .. MaxOps
    BY <1>1, <1>2, LotTypes
  <2> QED BY <2>1, <2>2, <2>3 DEF TypeOK, OpType, LotType
<1>8. LotBalances'
  <2> SUFFICES ASSUME NEW l \in Ops
               PROVE  /\ lot'[l].remaining >= 0
                      /\ lot'[l].remaining + SumFunctionOnSet([j \in Ops |-> taken'[j][l]], Ops)
                            = lot'[l].original
    BY DEF LotBalances
  <2>1. taken' \in [Ops -> [Ops -> Nat]]
    BY <1>7 DEF TypeOK
  <2>2. \A j \in Ops : j # k => taken'[j] = taken[j]
    BY <1>6
  <2>3. lot'[l].original = lot[l].original
    BY <1>5
  <2>4. lot'[l].remaining = lot[l].remaining - taken'[k][l] + taken[k][l]
    BY <1>3, <1>4, <1>5, <1>6
  <2>5. lot'[l].remaining \in Nat
    BY <1>3, <1>4, <1>5
  <2> QED BY <1>1, <2>1, <2>2, <2>3, <2>4, <2>5, BalanceMoves
<1>9. SoldIsSettled'
  <2> SUFFICES ASSUME NEW j \in Ops
               PROVE  SumFunctionOnSet(taken'[j], Ops) + market'[j]
                         = IF op'[j].stands THEN op'[j].sold ELSE 0
    BY DEF SoldIsSettled
  <2>1. CASE j = k
    <3>1. SumFunctionOnSet(taken'[k], Ops) = 0
      BY <1>6, OpsFinite, SumZero
    <3> QED BY <2>1, <3>1, <1>6
  <2>2. CASE j # k
    BY <1>1, <1>6, <2>2 DEF SoldIsSettled
  <2> QED BY <2>1, <2>2
<1>10. Backed'
  <2> SUFFICES ASSUME NEW j \in Ops, NEW l \in Ops, taken'[j][l] > 0
               PROVE  l < j /\ op'[j].stands /\ ~(lot'[l].voided)
    BY DEF Backed
  <2>1. j # k /\ taken[j][l] > 0
    BY <1>6
  <2>2. l # k /\ l < j /\ op[j].stands /\ ~lot[l].voided
    BY <2>1, <1>1, <1>2 DEF Backed
  <2> QED BY <2>1, <2>2, <1>5, <1>6
<1>11. VoidedTogether'
  <2> SUFFICES ASSUME NEW j \in Ops
               PROVE  IF lot'[j].original > 0 THEN lot'[j].voided <=> ~(op'[j].stands) ELSE ~(lot'[j].voided)
    BY DEF VoidedTogether
  <2>1. IF lot[j].original > 0 THEN lot[j].voided <=> ~op[j].stands ELSE ~lot[j].voided
    BY <1>1 DEF VoidedTogether
  <2>2. CASE j = k
    BY <2>1, <2>2, <1>5, <1>6
  <2>3. CASE j # k
    BY <2>1, <2>3, <1>5, <1>6
  <2> QED BY <2>2, <2>3
<1>12. \A j \in Ops : j > n' => Unused(j)'
  <2> SUFFICES ASSUME NEW j \in Ops, j > n PROVE Unused(j)'
    BY <1>2
  <2>1. Unused(j)
    BY DEF LotsInv
  <2>2. j # k
    <3>1. ~NoOp.stands /\ op[j] = NoOp
      BY <2>1 DEF Unused, NoOp
    <3> QED BY <3>1, <1>2
  <2>3. lot'[j] = NoLot
    <3>1. lot'[j] = [lot[j] EXCEPT !.remaining = @ + taken[k][j],
                                   !.voided = @ \/ (j = k /\ lot[k].original > 0)]
      BY <1>2
    <3>2. taken[k][j] = 0 /\ lot[j] = NoLot
      BY <2>1 DEF Unused
    <3>3. NoLot.remaining + 0 = 0 /\ ~NoLot.voided
      BY DEF NoLot
    <3>4. (lot[j].voided \/ (j = k /\ lot[k].original > 0)) = FALSE
      BY <3>2, <3>3, <2>2
    <3>5. lot'[j] = [NoLot EXCEPT !.remaining = 0, !.voided = FALSE]
      BY <3>1, <3>2, <3>3, <3>4
    <3> QED BY <3>5 DEF NoLot
  <2>4. \A i \in Ops : taken'[j][i] = 0 /\ taken'[i][j] = 0
    <3>1. \A i \in Ops : taken[j][i] = 0 /\ taken[i][j] = 0
      BY <2>1 DEF Unused
    <3> QED BY <3>1, <2>2, <1>6
  <2> QED BY <2>1, <2>2, <2>3, <2>4, <1>6 DEF Unused
<1> QED BY <1>7, <1>8, <1>9, <1>10, <1>11, <1>12 DEF LotsInv

LEMMA LotsStep == LotsInv /\ [Next]_vars => LotsInv'
<1> SUFFICES ASSUME LotsInv, [Next]_vars PROVE LotsInv'
  OBVIOUS
<1>0. /\ \A q \in Bought : q \in Nat /\ q # 0
      /\ \A q \in Sold : q \in Nat
      /\ \A q \in Lost : q \in Nat
  BY LotsAssumption
<1>1. ASSUME NEW from \in Currencies, NEW to \in Currencies, NEW qi \in Bought \cup {0},
             NEW qo \in Sold \cup {0}, NEW at \in Times, Exchange(from, qi, to, qo, at)
      PROVE  LotsInv'
  <2>1. qi \in Nat /\ qo \in Nat
    BY <1>0
  <2>2. Book("exchange", from, qi, at, to, qo)
    BY <1>1 DEF Exchange
  <2> QED BY <2>1, <2>2, BookKeeps
<1>2. ASSUME NEW c \in Currencies, NEW q \in Bought, NEW at \in Times, Add(c, q, at)
      PROVE  LotsInv'
  <2>1. q \in Nat /\ Book("add", c, q, at, c, 0)
    BY <1>0, <1>2 DEF Add
  <2> QED BY <2>1, BookKeeps
<1>3. ASSUME NEW c \in Currencies, NEW q \in Lost, WriteOff(c, q) PROVE LotsInv'
  <2>1. q \in Nat /\ Book("writeoff", c, 0, 0, c, q)
    BY <1>0, <1>3 DEF WriteOff
  <2> QED BY <2>1, BookKeeps
<1>4. ASSUME NEW k \in Ops, Reverse(k) PROVE LotsInv'
  BY <1>4, ReverseKeeps
<1>5. CASE UNCHANGED vars
  <2>1. n' = n /\ op' = op /\ lot' = lot /\ taken' = taken /\ market' = market
    BY <1>5 DEF vars
  <2>2. LotBalances' /\ SoldIsSettled'
    BY <2>1 DEF LotsInv, LotBalances, SoldIsSettled
  <2> QED BY <2>1, <2>2 DEF LotsInv, TypeOK, Unused, Backed, VoidedTogether
<1> QED BY <1>1, <1>2, <1>3, <1>4, <1>5 DEF Next

\* LotsInv holds after any sequence of exchanges, top-ups, adjustments,
\* write-offs, voids and refunds.
THEOREM LotsInvariant == Spec => []LotsInv
<1> QED BY LotsInit, LotsStep, PTL DEF Spec

\* Lots, settlements and operations keep their types: no lot is overdrawn.
THEOREM LotsTypes == Spec => []TypeOK
<1>1. LotsInv => TypeOK
  BY DEF LotsInv
<1> QED BY <1>1, LotsInvariant, PTL

\* What a lot was opened with is what it holds and what its active settlements
\* took, whatever was sold, written off, voided or dated back (walkFifo,
\* restoreSettlements).
THEOREM EveryLotBalances == Spec => []LotBalances
<1>1. LotsInv => LotBalances
  BY DEF LotsInv
<1> QED BY <1>1, LotsInvariant, PTL

\* Every unit paid out is settled, once, from a lot or at market, and a reversed
\* exchange settles nothing (walkFifo in SETTLE mode).
THEOREM EverySaleIsSettled == Spec => []SoldIsSettled
<1>1. LotsInv => SoldIsSettled
  BY DEF LotsInv
<1> QED BY <1>1, LotsInvariant, PTL

\* A voided lot has no settlement, and is voided with its exchange
\* (voidLotsBySource after _assertExchangeLotsVoidable).
THEOREM VoidedLotsAreFree == Spec => []VoidedIsFree
<1>1. LotsInv => VoidedIsFree
  BY DEF LotsInv, VoidedIsFree, Settlers, Backed, VoidedTogether
<1> QED BY <1>1, LotsInvariant, PTL

\* What blocks the void of an exchange is a later operation that stands, so that
\* undoing the newest first never gets stuck.
THEOREM ExchangesVoidInTurn == Spec => []VoidableInTurn
<1>1. LotsInv => VoidableInTurn
  <2> SUFFICES ASSUME LotsInv, NEW k \in Ops, NEW j \in Settlers(k)
               PROVE  j > k /\ op[j].stands
    BY DEF VoidableInTurn, Voidable
  <2>1. j \in Ops /\ taken[j][k] > 0
    BY DEF Settlers
  <2>2. k < j /\ op[j].stands
    BY <2>1 DEF LotsInv, Backed
  <2> QED BY <2>1, <2>2, OpsFinite
<1> QED BY <1>1, LotsInvariant, PTL
=============================================================================
