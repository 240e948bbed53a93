------------------------- MODULE OfflineMergeProofs -------------------------
(***************************************************************************)
(* Safety of the merge rounds for any number of PCs, events, attempts and  *)
(* restarts.                                                               *)
(*                                                                         *)
(* CursorSound and OwnOrder are not inductive: a round works on heads in   *)
(* memory that may be ahead of the saved cursors.  MergeInv adds that the  *)
(* heads are sound in the same sense, and never behind the cursors.        *)
(***************************************************************************)
EXTENDS OfflineMerge, TLAPS

\* Below a PC's head in memory everything is stored and settled.
HeadSound ==
    \A p \in PCs : \A n \in 1..(round.head[p] - 1) : SettledAt(p, n)

\* A head in the round is never behind the saved cursor.
HeadAhead ==
    \A p \in PCs : round.head[p] # 0 => round.head[p] >= nextExpected[p]

MergeInv ==
    MergeTypeOK /\ BookedOnce /\ HeadSound /\ HeadAhead /\ CursorSound /\ OwnOrder

-----------------------------------------------------------------------------
\* What is settled stays settled, under its number.
Keeps == \A e \in Events : Settled(e) => Settled(e)' /\ stored'[e] = stored[e]

LEMMA SettledAtKept ==
  ASSUME Keeps, NEW p \in PCs, NEW n \in Nat, SettledAt(p, n)
  PROVE  SettledAt(p, n)'
BY DEF Keeps, SettledAt, Settled, Of

\* Storing new events touches no stored one.
LEMMA InsertKeeps ==
  ASSUME MergeTypeOK, NEW A, NEW b, A \subseteq Events,
         \A e \in A : b[e] \in Nat \ {0}, Insert(A, b)
  PROVE  /\ Keeps
         /\ stored' \in [Events -> Nat]
         /\ status' \in [Events -> Statuses]
         /\ \A e \in Events : status'[e] = "absent" <=> stored'[e] = 0
         /\ \A e \in Events : status'[e] = "booked" <=> status[e] = "booked"
         /\ \A e \in Events : e \in Recordable /\ Settled(e)' => Settled(e)
<1> USE DEF MergeTypeOK, Insert, Statuses, Outcomes, Settled
<1>1. \A e \in Events : Settled(e) => stored[e] # 0
  OBVIOUS
<1>2. Keeps
  BY <1>1 DEF Keeps
<1>3. stored' \in [Events -> Nat]
  OBVIOUS
<1>4. status' \in [Events -> Statuses]
  OBVIOUS
<1>5. \A e \in Events : status'[e] = "absent" <=> stored'[e] = 0
  OBVIOUS
<1>6. \A e \in Events : status'[e] = "booked" <=> status[e] = "booked"
  OBVIOUS
<1>7. \A e \in Events : e \in Recordable /\ Settled(e)' => Settled(e)
  OBVIOUS
<1>8. QED
  BY <1>2, <1>3, <1>4, <1>5, <1>6, <1>7

\* The event a head stands on is received, and everything below it is settled.
LEMMA BestIsReceived ==
  ASSUME MergeInv, NEW h \in Heads, Scan(h), NEW e \in Best(h)
  PROVE  /\ e \in Events
         /\ Owner[e] \in PCs
         /\ h[Owner[e]] \in Nat \ {0}
         /\ stored[e] = h[Owner[e]]
         /\ status[e] = "received"
         /\ \A n \in 1..(h[Owner[e]] - 1) : SettledAt(Owner[e], n)
<1>1. e \in Events /\ h[Owner[e]] # 0 /\ stored[e] = h[Owner[e]]
  BY DEF Best, Candidates
<1>2. Owner[e] \in PCs
  BY <1>1, MergeAssumption
<1>3. h[Owner[e]] \in Nat \ {0}
  BY <1>1, <1>2, MergeAssumption DEF Heads
<1>4. round.head[Owner[e]] # 0
  BY <1>1, <1>2 DEF Scan
<1>5. ~SettledAt(Owner[e], h[Owner[e]])
  BY <1>2, <1>4 DEF Scan
<1>6. status[e] = "received"
  BY <1>1, <1>5 DEF SettledAt, Settled, Of, MergeInv, MergeTypeOK, Statuses, Outcomes
<1>7. ASSUME NEW n \in 1..(h[Owner[e]] - 1) PROVE SettledAt(Owner[e], n)
  <2>1. round.head[Owner[e]] \in Nat
    BY <1>2 DEF MergeInv, MergeTypeOK
  <2>2. CASE n < round.head[Owner[e]]
    BY <1>2, <2>1, <2>2 DEF MergeInv, HeadSound
  <2>3. CASE n >= round.head[Owner[e]]
    BY <1>2, <1>3, <1>4, <2>1, <2>3 DEF Scan
  <2>4. QED
    BY <2>1, <2>2, <2>3
<1>8. QED
  BY <1>1, <1>2, <1>3, <1>6, <1>7

\* A head that was scanned is sound, and not behind the cursor.
LEMMA ScanSound ==
  ASSUME MergeInv, NEW h \in Heads, Scan(h), NEW p \in PCs, h[p] # 0
  PROVE  /\ h[p] \in Nat
         /\ h[p] >= nextExpected[p]
         /\ \A n \in 1..(h[p] - 1) : SettledAt(p, n)
<1>1. h[p] \in Nat
  BY MergeAssumption DEF Heads
<1>2. round.head[p] # 0 /\ round.head[p] \in Nat /\ nextExpected[p] \in Nat
  BY DEF Scan, MergeInv, MergeTypeOK
<1>3. h[p] >= round.head[p]
  BY <1>2 DEF Scan
<1>4. h[p] >= nextExpected[p]
  BY <1>1, <1>2, <1>3 DEF MergeInv, HeadAhead
<1>5. ASSUME NEW n \in 1..(h[p] - 1) PROVE SettledAt(p, n)
  <2>1. CASE n < round.head[p]
    BY <1>1, <1>2, <2>1 DEF MergeInv, HeadSound
  <2>2. CASE n >= round.head[p]
    BY <1>1, <1>2, <2>2 DEF Scan
  <2>3. QED
    BY <1>1, <1>2, <2>1, <2>2
<1>6. QED
  BY <1>1, <1>4, <1>5

-----------------------------------------------------------------------------
(* The parts of MergeInv after a step, from what the step keeps.           *)

LEMMA CursorAfter ==
  ASSUME MergeInv, Keeps,
         \A p \in PCs : nextExpected'[p] \in Nat /\ \A n \in 1..(nextExpected'[p] - 1) :
            SettledAt(p, n)' \/ n \in 1..(nextExpected[p] - 1)
  PROVE  CursorSound'
<1> SUFFICES ASSUME NEW p \in PCs, NEW n \in 1..(nextExpected'[p] - 1)
             PROVE  SettledAt(p, n)'
  BY DEF CursorSound
<1>1. n \in Nat
  OBVIOUS
<1>2. CASE n \in 1..(nextExpected[p] - 1)
  <2>1. SettledAt(p, n)
    BY <1>2 DEF MergeInv, CursorSound
  <2>2. QED
    BY <1>1, <2>1, SettledAtKept
<1>3. QED
  BY <1>2

LEMMA OrderAfter ==
  ASSUME MergeInv, Keeps, stored' \in [Events -> Nat],
         \A e \in Events : e \in Recordable /\ Settled(e)' =>
            Settled(e) \/ \A n \in 1..(stored'[e] - 1) : SettledAt(Owner[e], n)
  PROVE  OwnOrder'
<1> SUFFICES ASSUME NEW e \in Events, Settled(e)', e \in Recordable,
                    NEW n \in 1..(stored'[e] - 1)
             PROVE  SettledAt(Owner[e], n)'
  BY DEF OwnOrder
<1>1. Owner[e] \in PCs /\ n \in Nat
  BY MergeAssumption
<1>2. SettledAt(Owner[e], n)
  <2>1. CASE Settled(e)
    BY <2>1 DEF MergeInv, OwnOrder, Keeps
  <2>2. CASE ~Settled(e)
    BY <2>2
  <2>3. QED
    BY <2>1, <2>2
<1>3. QED
  BY <1>1, <1>2, SettledAtKept

\* A round that begins on sound cursors has sound heads.
LEMMA PassSound ==
  ASSUME CursorSound, MergeTypeOK, NEW S, S \subseteq PCs
  PROVE  LET r == Pass(S, nextExpected)
         IN  /\ r \in [active : BOOLEAN, head : [PCs -> Nat], stopped : SUBSET PCs,
                       rerun : BOOLEAN, trialEnd : SUBSET Nat]
             /\ \A p \in PCs : \A n \in 1..(r.head[p] - 1) : SettledAt(p, n)
             /\ \A p \in PCs : r.head[p] # 0 => r.head[p] >= nextExpected[p]
<1> DEFINE r == Pass(S, nextExpected)
<1>1. \A p \in PCs : r.head[p] = 0 \/ r.head[p] = nextExpected[p]
  BY DEF Pass
<1>2. r \in [active : BOOLEAN, head : [PCs -> Nat], stopped : SUBSET PCs,
             rerun : BOOLEAN, trialEnd : SUBSET Nat]
  BY DEF Pass, MergeTypeOK
<1>3. \A p \in PCs : \A n \in 1..(r.head[p] - 1) : SettledAt(p, n)
  BY <1>1 DEF CursorSound
<1>4. \A p \in PCs : r.head[p] # 0 => r.head[p] >= nextExpected[p]
  BY <1>1 DEF MergeTypeOK
<1>5. QED
  BY <1>2, <1>3, <1>4

LEMMA NoRoundSound ==
  /\ NoRound \in [active : BOOLEAN, head : [PCs -> Nat], stopped : SUBSET PCs,
                  rerun : BOOLEAN, trialEnd : SUBSET Nat]
  /\ \A p \in PCs : NoRound.head[p] = 0
BY DEF NoRound

-----------------------------------------------------------------------------
(* One lemma per group of actions.                                         *)

LEMMA ArrivePreserves ==
  ASSUME MergeInv, Arrive \/ ArriveCut
  PROVE  MergeInv'
<1>0. PICK A \in SUBSET {e \in Events : stored[e] = 0} :
         \E b \in [A -> 1..MaxSeq] : Insert(A, b)
  BY DEF Arrive, ArriveCut
<1>1. PICK b \in [A -> 1..MaxSeq] : Insert(A, b)
  BY <1>0
<1>2. MergeTypeOK /\ MaxSeq \in Nat
  BY MergeAssumption DEF MergeInv
<1>3. /\ Keeps
      /\ stored' \in [Events -> Nat]
      /\ status' \in [Events -> Statuses]
      /\ \A e \in Events : status'[e] = "absent" <=> stored'[e] = 0
      /\ \A e \in Events : status'[e] = "booked" <=> status[e] = "booked"
      /\ \A e \in Events : e \in Recordable /\ Settled(e)' => Settled(e)
  <2>1. A \subseteq Events /\ \A e \in A : b[e] \in Nat \ {0}
    BY <1>1, <1>2
  <2>2. QED
    BY <1>1, <1>2, <2>1, InsertKeeps
<1>4. /\ UNCHANGED <<attempts, nextExpected, trialEnd, bookings>>
      /\ round' = round \/ round' = NoRound
      /\ restarts' \in Nat
  BY <1>2 DEF Arrive, ArriveCut, MergeTypeOK
<1>5. MergeTypeOK'
  BY <1>2, <1>3, <1>4, NoRoundSound DEF MergeTypeOK
<1>6. BookedOnce'
  BY <1>3, <1>4 DEF MergeInv, BookedOnce
<1>7. HeadSound' /\ HeadAhead'
  <2>1. CASE round' = round
    BY <1>2, <1>3, <1>4, <2>1, SettledAtKept DEF MergeInv, HeadSound, HeadAhead, MergeTypeOK
  <2>2. CASE round' = NoRound
    BY <2>2, NoRoundSound DEF HeadSound, HeadAhead
  <2>3. QED
    BY <1>4, <2>1, <2>2
<1>8. CursorSound'
  BY <1>2, <1>3, <1>4, CursorAfter DEF MergeTypeOK
<1>9. OwnOrder'
  BY <1>3, OrderAfter
<1>10. QED
  BY <1>5, <1>6, <1>7, <1>8, <1>9 DEF MergeInv

\* What processing the received event e may do to the store.
Processed(e) ==
    /\ \E s \in {"received", "booked", "parked"} : status' = [status EXCEPT ![e] = s]
    /\ bookings' = [bookings EXCEPT ![e] = IF status'[e] = "booked" THEN @ + 1 ELSE @]
    /\ attempts' \in [Events -> Nat]
    /\ stored' = stored

LEMMA CommitProcesses ==
  ASSUME MergeInv, NEW e \in Events, status[e] = "received", stored' = stored
  PROVE  /\ \A o \in Outcomes : Commit(e, o) => Processed(e) /\ status'[e] = o
         /\ \A last \in BOOLEAN : Fail(e, last) =>
                Processed(e) /\ (last => status'[e] = "parked")
         /\ attempts' = [attempts EXCEPT ![e] = @ + 1] /\ UNCHANGED <<status, bookings>>
                => Processed(e)
<1> USE DEF MergeInv, MergeTypeOK, Processed, Statuses, Outcomes
<1>1. ASSUME NEW o \in Outcomes, Commit(e, o) PROVE Processed(e) /\ status'[e] = o
  BY <1>1 DEF Commit
<1>2. ASSUME NEW last \in BOOLEAN, Fail(e, last)
      PROVE  Processed(e) /\ (last => status'[e] = "parked")
  <2>1. status' = [status EXCEPT ![e] = IF last THEN "parked" ELSE "received"]
    BY <1>2 DEF Fail
  <2>2. attempts' \in [Events -> Nat]
    BY <1>2 DEF Fail
  <2>3. bookings' = bookings /\ status'[e] # "booked"
    BY <1>2, <2>1 DEF Fail
  <2>4. bookings' = [bookings EXCEPT ![e] = IF status'[e] = "booked" THEN @ + 1 ELSE @]
    BY <2>3
  <2>5. QED
    BY <2>1, <2>2, <2>4
<1>3. ASSUME attempts' = [attempts EXCEPT ![e] = @ + 1], UNCHANGED <<status, bookings>>
      PROVE  Processed(e)
  <2>1. status' = [status EXCEPT ![e] = "received"]
    BY <1>3
  <2>2. attempts' \in [Events -> Nat]
    BY <1>3
  <2>3. bookings' = [bookings EXCEPT ![e] = IF status'[e] = "booked" THEN @ + 1 ELSE @]
    BY <1>3
  <2>4. QED
    BY <2>1, <2>2, <2>3
<1>4. QED
  BY <1>1, <1>2, <1>3

LEMMA ProcessedKeeps ==
  ASSUME MergeInv, NEW e \in Events, status[e] = "received", Processed(e),
         \A n \in 1..(stored[e] - 1) : SettledAt(Owner[e], n)
  PROVE  /\ Keeps
         /\ BookedOnce'
         /\ OwnOrder'
         /\ stored' \in [Events -> Nat]
         /\ status' \in [Events -> Statuses]
         /\ attempts' \in [Events -> Nat]
         /\ bookings' \in [Events -> Nat]
         /\ \A f \in Events : status'[f] = "absent" <=> stored'[f] = 0
<1>1. PICK s \in {"received", "booked", "parked"} : status' = [status EXCEPT ![e] = s]
  BY DEF Processed
<1>2. status'[e] = s
  BY <1>1 DEF MergeInv, MergeTypeOK
<1>3. \A f \in Events \ {e} : status'[f] = status[f]
  BY <1>1 DEF MergeInv, MergeTypeOK
<1>4. Keeps
  BY <1>2, <1>3 DEF Keeps, Settled, Outcomes, Processed
<1>5. BookedOnce'
  BY <1>2, <1>3 DEF MergeInv, BookedOnce, Processed, MergeTypeOK
<1>6. OwnOrder'
  <2>1. stored' = stored /\ stored \in [Events -> Nat]
    BY DEF Processed, MergeInv, MergeTypeOK
  <2>2. \A f \in Events : f \in Recordable /\ Settled(f)' =>
            Settled(f) \/ \A n \in 1..(stored'[f] - 1) : SettledAt(Owner[f], n)
    BY <1>3, <2>1 DEF Settled
  <2>3. QED
    BY <1>4, <2>1, <2>2, OrderAfter
<1>7. bookings' \in [Events -> Nat]
  BY DEF Processed, MergeInv, MergeTypeOK
<1>8. \A f \in Events : status'[f] = "absent" <=> stored'[f] = 0
  BY <1>2, <1>3 DEF Processed, MergeInv, MergeTypeOK
<1>9. QED
  BY <1>1, <1>4, <1>5, <1>6, <1>7, <1>8 DEF Processed, MergeInv, MergeTypeOK, Statuses


\* The saved cursors and the heads after a turn of merge().
LEMMA AdvanceSound ==
  ASSUME MergeInv, Keeps, NEW h \in Heads, Scan(h), NEW e \in Events,
         h[Owner[e]] # 0, NEW c \in Nat \ {0}, NEW n \in Nat, Advance(h, e, c, n),
         c >= h[Owner[e]], n # 0 => n = c,
         \A m \in 1..(c - 1) : SettledAt(Owner[e], m)'
  PROVE  /\ nextExpected' \in [PCs -> Nat \ {0}]
         /\ round' \in [active : BOOLEAN, head : [PCs -> Nat], stopped : SUBSET PCs,
                        rerun : BOOLEAN, trialEnd : SUBSET Nat]
         /\ HeadSound' /\ HeadAhead' /\ CursorSound'
         /\ \A p \in PCs : nextExpected'[p] >= nextExpected[p]
<1> DEFINE q == Owner[e]
<1>1. q \in PCs
  BY MergeAssumption
<1>2. \A p \in PCs : /\ h[p] \in Nat
                     /\ nextExpected[p] \in Nat \ {0}
                     /\ h[p] # 0 => h[p] >= nextExpected[p]
  BY ScanSound, MergeAssumption DEF Heads, MergeInv, MergeTypeOK
<1>3. \A p \in PCs : \A m \in 1..(h[p] - 1) : SettledAt(p, m)'
  BY <1>2, ScanSound, SettledAtKept
<1>4. /\ nextExpected'[q] = c
      /\ \A p \in PCs \ {q} : \/ nextExpected'[p] = nextExpected[p]
                              \/ h[p] # 0 /\ nextExpected'[p] = h[p]
  BY <1>1 DEF Advance, Drops
<1>5. /\ round'.head[q] = n
      /\ \A p \in PCs \ {q} : \/ round'.head[p] = 0
                              \/ round'.head[p] = h[p] /\ nextExpected'[p] = nextExpected[p]
  BY <1>1 DEF Advance, MergeInv, MergeTypeOK
<1>6. nextExpected' \in [PCs -> Nat \ {0}]
  <2>1. \A p \in PCs : nextExpected'[p] \in Nat \ {0}
    BY <1>1, <1>2, <1>4
  <2>2. QED
    BY <2>1 DEF Advance
<1>7. round' \in [active : BOOLEAN, head : [PCs -> Nat], stopped : SUBSET PCs,
                  rerun : BOOLEAN, trialEnd : SUBSET Nat]
  <2> DEFINE hd == [p \in PCs |-> IF p = Owner[e] THEN n
                                  ELSE IF p \in Drops(h) THEN 0 ELSE h[p]]
             st == IF n = 0 THEN round.stopped \cup {Owner[e]} ELSE round.stopped
  <2>1. round' = [round EXCEPT !.head = hd, !.stopped = st]
    BY DEF Advance
  <2>2. hd \in [PCs -> Nat]
    BY <1>2
  <2>3. st \in SUBSET PCs
    BY <1>1 DEF MergeInv, MergeTypeOK
  <2> HIDE DEF hd, st
  <2>4. QED
    BY <2>1, <2>2, <2>3 DEF MergeInv, MergeTypeOK
<1>8. \A p \in PCs : nextExpected'[p] >= nextExpected[p]
  BY <1>1, <1>2, <1>4
<1>9. HeadAhead'
  BY <1>1, <1>2, <1>4, <1>5 DEF HeadAhead
<1>10. HeadSound'
  BY <1>1, <1>2, <1>3, <1>5 DEF HeadSound
<1>11. CursorSound'
  <2>1. ASSUME NEW p \in PCs, NEW m \in 1..(nextExpected'[p] - 1)
        PROVE  SettledAt(p, m)' \/ m \in 1..(nextExpected[p] - 1)
    BY <1>1, <1>2, <1>3, <1>4
  <2>2. \A p \in PCs : nextExpected'[p] \in Nat
    BY <1>6
  <2>3. QED
    BY <2>1, <2>2, CursorAfter
<1>12. QED
  BY <1>6, <1>7, <1>8, <1>9, <1>10, <1>11

LEMMA MergeEventPreserves ==
  ASSUME MergeInv, MergeEvent \/ MergeFailure
  PROVE  MergeInv' /\ Keeps /\ \A p \in PCs : nextExpected'[p] >= nextExpected[p]
<1>1. stored' = stored /\ trialEnd' = trialEnd /\ restarts' = restarts
  BY DEF MergeEvent, MergeFailure
<1>2. PICK h \in Heads : Scan(h) /\ \E e \in Best(h) :
        \/ /\ (\E o \in Outcomes : Commit(e, o)) \/ Fail(e, TRUE)
           /\ Advance(h, e, h[Owner[e]] + 1, h[Owner[e]] + 1)
        \/ /\ Fail(e, FALSE)
           /\ Advance(h, e, h[Owner[e]], 0)
  BY DEF MergeEvent, MergeFailure
<1>3. PICK e \in Best(h) :
        \/ /\ (\E o \in Outcomes : Commit(e, o)) \/ Fail(e, TRUE)
           /\ Advance(h, e, h[Owner[e]] + 1, h[Owner[e]] + 1)
        \/ /\ Fail(e, FALSE)
           /\ Advance(h, e, h[Owner[e]], 0)
  BY <1>2
<1>4. /\ e \in Events
      /\ Owner[e] \in PCs
      /\ h[Owner[e]] \in Nat \ {0}
      /\ stored[e] = h[Owner[e]]
      /\ status[e] = "received"
      /\ \A n \in 1..(h[Owner[e]] - 1) : SettledAt(Owner[e], n)
  BY <1>2, BestIsReceived
<1>5. Processed(e)
  BY <1>1, <1>3, <1>4, CommitProcesses
<1>6. /\ Keeps /\ BookedOnce' /\ OwnOrder'
      /\ stored' \in [Events -> Nat]
      /\ status' \in [Events -> Statuses]
      /\ attempts' \in [Events -> Nat]
      /\ bookings' \in [Events -> Nat]
      /\ \A f \in Events : status'[f] = "absent" <=> stored'[f] = 0
  BY <1>4, <1>5, ProcessedKeeps
<1>7. \A n \in 1..(h[Owner[e]] - 1) : SettledAt(Owner[e], n)'
  BY <1>4, <1>6, SettledAtKept
<1>8. /\ nextExpected' \in [PCs -> Nat \ {0}]
      /\ round' \in [active : BOOLEAN, head : [PCs -> Nat], stopped : SUBSET PCs,
                     rerun : BOOLEAN, trialEnd : SUBSET Nat]
      /\ HeadSound' /\ HeadAhead' /\ CursorSound'
      /\ \A p \in PCs : nextExpected'[p] >= nextExpected[p]
  <2>1. CASE /\ (\E o \in Outcomes : Commit(e, o)) \/ Fail(e, TRUE)
             /\ Advance(h, e, h[Owner[e]] + 1, h[Owner[e]] + 1)
    <3>1. status'[e] \in Outcomes
      BY <1>1, <1>4, <2>1, CommitProcesses DEF Outcomes
    <3>2. SettledAt(Owner[e], h[Owner[e]])'
      BY <1>1, <1>4, <3>1 DEF SettledAt, Settled, Of
    <3>3. \A n \in 1..h[Owner[e]] : SettledAt(Owner[e], n)'
      BY <1>4, <1>7, <3>2
    <3> DEFINE c == h[Owner[e]] + 1
    <3>4. c \in Nat \ {0} /\ c >= h[Owner[e]] /\ h[Owner[e]] # 0
      BY <1>4
    <3>5. \A m \in 1..(c - 1) : SettledAt(Owner[e], m)'
      BY <1>4, <3>3
    <3>6. Advance(h, e, c, c)
      BY <2>1
    <3> HIDE DEF c
    <3>7. QED
      BY <1>2, <1>4, <1>6, <3>4, <3>5, <3>6, AdvanceSound
  <2>2. CASE Fail(e, FALSE) /\ Advance(h, e, h[Owner[e]], 0)
    <3> DEFINE c == h[Owner[e]]
    <3>1. c \in Nat \ {0} /\ c >= h[Owner[e]] /\ h[Owner[e]] # 0
      BY <1>4
    <3>2. \A m \in 1..(c - 1) : SettledAt(Owner[e], m)'
      BY <1>7
    <3>3. Advance(h, e, c, 0)
      BY <2>2
    <3> HIDE DEF c
    <3>4. QED
      BY <1>2, <1>4, <1>6, <3>1, <3>2, <3>3, AdvanceSound
  <2>3. QED
    BY <1>3, <2>1, <2>2
<1>9. MergeTypeOK'
  BY <1>1, <1>6, <1>8 DEF MergeTypeOK, MergeInv
<1>10. QED
  BY <1>6, <1>8, <1>9 DEF MergeInv

LEMMA MergeCutPreserves ==
  ASSUME MergeInv, MergeCut
  PROVE  MergeInv' /\ Keeps
<1>1. /\ stored' = stored /\ trialEnd' = trialEnd /\ nextExpected' = nextExpected
      /\ round' = NoRound /\ restarts' = restarts + 1
  BY DEF MergeCut
<1>2. PICK h \in Heads : Scan(h) /\ \E e \in Best(h) :
        \/ \E o \in Outcomes : Commit(e, o)
        \/ \E last \in BOOLEAN : Fail(e, last)
        \/ attempts' = [attempts EXCEPT ![e] = @ + 1] /\ UNCHANGED <<status, bookings>>
  BY DEF MergeCut
<1>3. PICK e \in Best(h) :
        \/ \E o \in Outcomes : Commit(e, o)
        \/ \E last \in BOOLEAN : Fail(e, last)
        \/ attempts' = [attempts EXCEPT ![e] = @ + 1] /\ UNCHANGED <<status, bookings>>
  BY <1>2
<1>4. /\ e \in Events
      /\ stored[e] = h[Owner[e]]
      /\ status[e] = "received"
      /\ \A n \in 1..(h[Owner[e]] - 1) : SettledAt(Owner[e], n)
  BY <1>2, BestIsReceived
<1>5. Processed(e)
  BY <1>1, <1>3, <1>4, CommitProcesses
<1>6. /\ Keeps /\ BookedOnce' /\ OwnOrder'
      /\ stored' \in [Events -> Nat]
      /\ status' \in [Events -> Statuses]
      /\ attempts' \in [Events -> Nat]
      /\ bookings' \in [Events -> Nat]
      /\ \A f \in Events : status'[f] = "absent" <=> stored'[f] = 0
  BY <1>4, <1>5, ProcessedKeeps
<1>7. MergeTypeOK'
  BY <1>1, <1>6, NoRoundSound DEF MergeTypeOK, MergeInv
<1>8. HeadSound' /\ HeadAhead'
  BY <1>1, NoRoundSound DEF HeadSound, HeadAhead
<1>9. CursorSound'
  BY <1>1, <1>6, CursorAfter DEF MergeInv, MergeTypeOK
<1>10. QED
  BY <1>6, <1>7, <1>8, <1>9 DEF MergeInv

\* Steps that leave the store alone.
LEMMA StoreUnchanged ==
  ASSUME MergeInv, UNCHANGED <<storeVars, attempts, bookings>>
  PROVE  /\ Keeps /\ BookedOnce' /\ OwnOrder'
         /\ \A p \in PCs, n \in Nat : SettledAt(p, n)' <=> SettledAt(p, n)
<1>1. stored' = stored /\ status' = status /\ bookings' = bookings
  BY DEF storeVars
<1>2. Keeps
  BY <1>1 DEF Keeps, Settled
<1>3. BookedOnce'
  BY <1>1 DEF MergeInv, BookedOnce
<1>4. OwnOrder'
  BY <1>1, <1>2, OrderAfter DEF MergeInv, MergeTypeOK, Settled
<1>5. \A p \in PCs, n \in Nat : SettledAt(p, n)' <=> SettledAt(p, n)
  BY <1>1 DEF SettledAt, Settled
<1>6. QED
  BY <1>2, <1>3, <1>4, <1>5

LEMMA RunRoundPreserves ==
  ASSUME MergeInv, RunRound
  PROVE  MergeInv'
<1>1. UNCHANGED <<storeVars, attempts, nextExpected, trialEnd, bookings, restarts>>
  BY DEF RunRound
<1>2. /\ stored' = stored /\ status' = status /\ attempts' = attempts
      /\ nextExpected' = nextExpected /\ trialEnd' = trialEnd
      /\ bookings' = bookings /\ restarts' = restarts
  BY <1>1 DEF storeVars
<1>3. /\ BookedOnce' /\ OwnOrder'
      /\ \A p \in PCs, n \in Nat : SettledAt(p, n)' <=> SettledAt(p, n)
  BY <1>1, StoreUnchanged
<1>4. /\ round' \in [active : BOOLEAN, head : [PCs -> Nat], stopped : SUBSET PCs,
                     rerun : BOOLEAN, trialEnd : SUBSET Nat]
      /\ \A p \in PCs : \A n \in 1..(round'.head[p] - 1) : SettledAt(p, n)
      /\ \A p \in PCs : round'.head[p] # 0 => round'.head[p] >= nextExpected[p]
  <2>1. CASE round.active
    <3>1. round' = [round EXCEPT !.rerun = TRUE]
      BY <2>1 DEF RunRound
    <3>2. round' \in [active : BOOLEAN, head : [PCs -> Nat], stopped : SUBSET PCs,
                      rerun : BOOLEAN, trialEnd : SUBSET Nat]
          /\ round'.head = round.head
      BY <3>1 DEF MergeInv, MergeTypeOK
    <3>3. QED
      BY <3>2 DEF MergeInv, HeadSound, HeadAhead
  <2>2. CASE ~round.active
    <3>1. round' = Pass({}, nextExpected)
      BY <2>2 DEF RunRound
    <3>2. QED
      BY <3>1, PassSound DEF MergeInv
  <2>3. QED
    BY <2>1, <2>2
<1>5. MergeTypeOK'
  BY <1>2, <1>4 DEF MergeInv, MergeTypeOK
<1>6. HeadSound' /\ HeadAhead'
  BY <1>2, <1>3, <1>4 DEF HeadSound, HeadAhead
<1>7. CursorSound'
  BY <1>2, <1>3 DEF MergeInv, CursorSound
<1>8. QED
  BY <1>3, <1>5, <1>6, <1>7 DEF MergeInv

LEMMA EndPassPreserves ==
  ASSUME MergeInv, EndPass
  PROVE  MergeInv' /\ \A p \in PCs : nextExpected'[p] >= nextExpected[p]
<1>1. UNCHANGED <<storeVars, attempts, trialEnd, bookings, restarts>>
  BY DEF EndPass
<1>2. /\ stored' = stored /\ status' = status /\ attempts' = attempts
      /\ trialEnd' = trialEnd /\ bookings' = bookings /\ restarts' = restarts
  BY <1>1 DEF storeVars
<1>3. /\ Keeps /\ BookedOnce' /\ OwnOrder'
      /\ \A p \in PCs, n \in Nat : SettledAt(p, n)' <=> SettledAt(p, n)
  BY <1>1, StoreUnchanged
<1>4. PICK h \in Heads :
        /\ Scan(h)
        /\ nextExpected' = [p \in PCs |-> IF p \in Drops(h) THEN h[p] ELSE nextExpected[p]]
  BY DEF EndPass
<1>5. \A p \in PCs : h[p] # 0 =>
        /\ h[p] \in Nat /\ h[p] >= nextExpected[p]
        /\ \A n \in 1..(h[p] - 1) : SettledAt(p, n)
  BY <1>4, ScanSound
<1>6. nextExpected \in [PCs -> Nat \ {0}]
  BY DEF MergeInv, MergeTypeOK
<1>7. \A p \in PCs : \/ nextExpected'[p] = nextExpected[p]
                     \/ h[p] # 0 /\ nextExpected'[p] = h[p]
  BY <1>4 DEF Drops
<1>8. \A p \in PCs : nextExpected'[p] \in Nat \ {0} /\ nextExpected'[p] >= nextExpected[p]
  BY <1>5, <1>6, <1>7
<1>9. nextExpected' \in [PCs -> Nat \ {0}]
  BY <1>4, <1>8
<1>10. CursorSound'
  <2>1. ASSUME NEW p \in PCs, NEW n \in 1..(nextExpected'[p] - 1)
        PROVE  SettledAt(p, n)' \/ n \in 1..(nextExpected[p] - 1)
    BY <1>3, <1>5, <1>6, <1>7
  <2>2. QED
    BY <1>3, <1>8, <2>1, CursorAfter
<1>11. /\ round' \in [active : BOOLEAN, head : [PCs -> Nat], stopped : SUBSET PCs,
                      rerun : BOOLEAN, trialEnd : SUBSET Nat]
       /\ HeadSound' /\ HeadAhead'
  <2>1. CASE round.rerun
    <3>1. round' = Pass(round.stopped, nextExpected')
      BY <2>1 DEF EndPass
    <3> DEFINE hd == [p \in PCs |-> IF p \in WithWork(round.stopped)
                                    THEN nextExpected'[p] ELSE 0]
    <3>2. round' = [active |-> TRUE, stopped |-> round.stopped, rerun |-> FALSE,
                    trialEnd |-> trialEnd, head |-> hd]
      BY <3>1 DEF Pass
    <3>3. hd \in [PCs -> Nat] /\ \A p \in PCs : hd[p] = 0 \/ hd[p] = nextExpected'[p]
      BY <1>8
    <3>4. round.stopped \in SUBSET PCs /\ trialEnd \in SUBSET Nat
      BY DEF MergeInv, MergeTypeOK
    <3> HIDE DEF hd
    <3>5. round' \in [active : BOOLEAN, head : [PCs -> Nat], stopped : SUBSET PCs,
                      rerun : BOOLEAN, trialEnd : SUBSET Nat]
      BY <3>2, <3>3, <3>4
    <3>6. \A p \in PCs : round'.head[p] = 0 \/ round'.head[p] = nextExpected'[p]
      BY <3>2, <3>3
    <3>7. HeadAhead'
      BY <1>8, <3>6 DEF HeadAhead
    <3>8. HeadSound'
      BY <1>10, <3>6 DEF HeadSound, CursorSound
    <3>9. QED
      BY <3>5, <3>7, <3>8
  <2>2. CASE ~round.rerun
    <3>1. round' = NoRound
      BY <2>2 DEF EndPass
    <3>2. QED
      BY <3>1, NoRoundSound DEF HeadSound, HeadAhead
  <2>3. QED
    BY <2>1, <2>2
<1>12. MergeTypeOK'
  BY <1>2, <1>9, <1>11 DEF MergeInv, MergeTypeOK
<1>13. QED
  BY <1>3, <1>8, <1>10, <1>11, <1>12 DEF MergeInv

LEMMA SetTrialPreserves ==
  ASSUME MergeInv, SetTrial
  PROVE  MergeInv'
<1>1. UNCHANGED <<storeVars, attempts, nextExpected, round, bookings, restarts>>
  BY DEF SetTrial
<1>2. /\ stored' = stored /\ status' = status /\ attempts' = attempts
      /\ nextExpected' = nextExpected /\ round' = round
      /\ bookings' = bookings /\ restarts' = restarts
  BY <1>1 DEF storeVars
<1>3. /\ BookedOnce' /\ OwnOrder'
      /\ \A p \in PCs, n \in Nat : SettledAt(p, n)' <=> SettledAt(p, n)
  BY <1>1, StoreUnchanged
<1>4. trialEnd' \in SUBSET Nat
  BY MergeAssumption DEF SetTrial
<1>5. MergeTypeOK'
  BY <1>2, <1>4 DEF MergeInv, MergeTypeOK
<1>6. HeadSound' /\ HeadAhead' /\ CursorSound'
  BY <1>2, <1>3 DEF MergeInv, HeadSound, HeadAhead, CursorSound
<1>7. QED
  BY <1>3, <1>5, <1>6 DEF MergeInv

LEMMA StutterPreserves ==
  ASSUME MergeInv, UNCHANGED mergeVars
  PROVE  MergeInv'
<1>1. /\ stored' = stored /\ status' = status /\ attempts' = attempts
      /\ nextExpected' = nextExpected /\ round' = round /\ trialEnd' = trialEnd
      /\ bookings' = bookings /\ restarts' = restarts
  BY DEF mergeVars, storeVars
<1>2. /\ BookedOnce' /\ OwnOrder'
      /\ \A p \in PCs, n \in Nat : SettledAt(p, n)' <=> SettledAt(p, n)
  BY <1>1, StoreUnchanged DEF storeVars
<1>3. MergeTypeOK'
  BY <1>1 DEF MergeInv, MergeTypeOK
<1>4. HeadSound' /\ HeadAhead' /\ CursorSound'
  BY <1>1, <1>2 DEF MergeInv, HeadSound, HeadAhead, CursorSound
<1>5. QED
  BY <1>2, <1>3, <1>4 DEF MergeInv

-----------------------------------------------------------------------------
LEMMA InitEstablishes ==
  ASSUME MergeInit
  PROVE  MergeInv
<1>1. MergeTypeOK
  BY NoRoundSound DEF MergeInit, MergeTypeOK, Statuses
<1>2. BookedOnce
  BY DEF MergeInit, BookedOnce
<1>3. HeadSound /\ HeadAhead
  BY NoRoundSound DEF MergeInit, HeadSound, HeadAhead
<1>4. CursorSound
  BY DEF MergeInit, CursorSound
<1>5. OwnOrder
  BY DEF MergeInit, OwnOrder, Settled, Outcomes
<1>6. QED
  BY <1>1, <1>2, <1>3, <1>4, <1>5 DEF MergeInv

LEMMA MergeStepPreserves == MergeInv /\ [MergeNext]_mergeVars => MergeInv'
<1> SUFFICES ASSUME MergeInv, [MergeNext]_mergeVars PROVE MergeInv'
  OBVIOUS
<1>1. CASE Arrive \/ ArriveCut
  BY <1>1, ArrivePreserves
<1>2. CASE RunRound
  BY <1>2, RunRoundPreserves
<1>3. CASE MergeEvent \/ MergeFailure
  BY <1>3, MergeEventPreserves
<1>4. CASE MergeCut
  BY <1>4, MergeCutPreserves
<1>5. CASE EndPass
  BY <1>5, EndPassPreserves
<1>6. CASE SetTrial
  BY <1>6, SetTrialPreserves
<1>7. CASE UNCHANGED mergeVars
  BY <1>7, StutterPreserves
<1>8. QED
  BY <1>1, <1>2, <1>3, <1>4, <1>5, <1>6, <1>7 DEF MergeNext, Merging

\* MergeInv is an invariant of the merge, whatever uploads, restarts, failures
\* and changes of the subscription come between the turns of merge().
THEOREM MergeInvariant == MergeSpec => []MergeInv
<1>1. MergeInit => MergeInv
  BY InitEstablishes
<1>2. MergeInv /\ [MergeNext]_mergeVars => MergeInv'
  BY MergeStepPreserves
<1>3. QED
  BY <1>1, <1>2, PTL DEF MergeSpec

\* The merge's columns and fields keep their types.
THEOREM MergeTypes == MergeSpec => []MergeTypeOK
<1>1. MergeInv => MergeTypeOK
  BY DEF MergeInv
<1>2. QED
  BY <1>1, MergeInvariant, PTL

\* No event is booked twice, by any number of rounds, re-runs and restarts
\* between a commit and the saved cursor.
THEOREM MergeBooksOnce == MergeSpec => []BookedOnce
<1>1. MergeInv => BookedOnce
  BY DEF MergeInv
<1>2. QED
  BY <1>1, MergeInvariant, PTL

\* A PC's events are merged in the PC's own order, never past a gap.
THEOREM MergeKeepsOwnOrder == MergeSpec => []OwnOrder
<1>1. MergeInv => OwnOrder
  BY DEF MergeInv
<1>2. QED
  BY <1>1, MergeInvariant, PTL

\* The saved cursor never skips an event that is not settled.
THEOREM MergeCursorSound == MergeSpec => []CursorSound
<1>1. MergeInv => CursorSound
  BY DEF MergeInv
<1>2. QED
  BY <1>1, MergeInvariant, PTL

\* The saved cursor never goes back.
THEOREM MergeCursorMonotone == MergeSpec => CursorMonotone
<1>1. MergeInv /\ [MergeNext]_mergeVars =>
        [\A p \in PCs : nextExpected'[p] >= nextExpected[p]]_mergeVars
  <2> SUFFICES ASSUME MergeInv, MergeNext
               PROVE  \A p \in PCs : nextExpected'[p] >= nextExpected[p]
    OBVIOUS
  <2>1. CASE MergeEvent \/ MergeFailure
    BY <2>1, MergeEventPreserves
  <2>2. CASE EndPass
    BY <2>2, EndPassPreserves
  <2>3. CASE nextExpected' = nextExpected
    BY <2>3 DEF MergeInv, MergeTypeOK
  <2>4. QED
    BY <2>1, <2>2, <2>3 DEF MergeNext, Merging, Arrive, ArriveCut, RunRound, MergeCut, SetTrial
<1>2. QED
  BY <1>1, MergeInvariant, PTL DEF MergeSpec, CursorMonotone

\* A turn of merge() changes the status of the event it processes, which was
\* received.
LEMMA TurnKeepsSettled ==
  ASSUME MergeInv, NEW h \in Heads, Scan(h), NEW e \in Best(h), NEW o,
         status' = [status EXCEPT ![e] = o] \/ status' = status, stored' = stored
  PROVE  \A x \in Events : Settled(x) => status'[x] = status[x] /\ stored'[x] = stored[x]
<1>1. e \in Events /\ status[e] = "received"
  BY BestIsReceived
<1>2. \A x \in Events : Settled(x) => x # e
  BY <1>1 DEF Settled, Outcomes
<1>3. QED
  BY <1>1, <1>2 DEF MergeInv, MergeTypeOK

\* An outcome is final for the merge: neither a duplicate upload nor another
\* turn, round or restart changes a settled event or its number (insertReceived,
\* merge()).
THEOREM MergeSettlesForGood == MergeSpec => SettledForGood
<1> DEFINE A == \A e \in Events : Settled(e) => status'[e] = status[e] /\ stored'[e] = stored[e]
<1>1. MergeInv /\ [MergeNext]_mergeVars => [A]_mergeVars
  <2> SUFFICES ASSUME MergeInv, MergeNext PROVE A
    OBVIOUS
  <2>1. CASE Arrive \/ ArriveCut
    <3>1. \A e \in Events : Settled(e) => stored[e] # 0
      BY DEF Settled, Outcomes, MergeInv, MergeTypeOK
    <3>2. PICK X, b : Insert(X, b)
      BY <2>1 DEF Arrive, ArriveCut
    <3> QED BY <3>1, <3>2 DEF Insert
  <2>2. CASE MergeEvent \/ MergeFailure \/ MergeCut
    <3>1. stored' = stored
      BY <2>2 DEF MergeEvent, MergeFailure, MergeCut
    <3> DEFINE Turn(x) == \/ \E o \in Outcomes : Commit(x, o)
                          \/ \E last \in BOOLEAN : Fail(x, last)
                          \/ status' = status
    <3>2. PICK h \in Heads : Scan(h) /\ \E e \in Best(h) : Turn(e)
      BY <2>2 DEF MergeEvent, MergeFailure, MergeCut
    <3>3. PICK e \in Best(h) : Turn(e)
      BY <3>2
    <3>4. e \in Events
      BY DEF Best, Candidates
    <3>5. \E o : status' = [status EXCEPT ![e] = o] \/ status' = status
      BY <3>3, <3>4 DEF Commit, Fail
    <3> QED BY <3>1, <3>2, <3>5, TurnKeepsSettled
  <2>3. CASE RunRound \/ EndPass \/ SetTrial
    BY <2>3 DEF RunRound, EndPass, SetTrial, storeVars
  <2> QED BY <2>1, <2>2, <2>3 DEF MergeNext, Merging
<1> QED BY <1>1, MergeInvariant, PTL DEF MergeSpec, SettledForGood
=============================================================================
