-------------------------- MODULE OfflineSyncProofs --------------------------
(***************************************************************************)
(* Safety of the delivery of offline work for any PCs and events, batch    *)
(* size, number of faults, crashes, power cuts and restarts; and that it   *)
(* implements OfflineMerge, so that the theorems about the merge hold of   *)
(* the whole.                                                              *)
(*                                                                         *)
(* With power cuts little is left: rows, flushed rows and requests under   *)
(* way each name an event once per number, and what was acknowledged is    *)
(* stored (SyncInv).  Without one a number names one event everywhere, for *)
(* good, and a PC's numbers have no holes (Clean).                         *)
(***************************************************************************)
EXTENDS OfflineSync, OfflineMergeProofs, FiniteSetTheorems

HasRow == {"waiting", "acked", "final", "done"}
Given  == {"acked", "final", "done"}

\* The outbox has a row of the event.
IsRow(e) == delivery[e] \in HasRow

\* The rows of a PC, on disk and in the last flushed image, have numbers of
\* their own (the unique index on device_seq).
RowsOK ==
    /\ \A e \in Events : IsRow(e) => seq[e] \in 1..MaxSeq
    /\ \A e, f \in Events : IsRow(e) /\ IsRow(f) /\ Owner[e] = Owner[f] /\ seq[e] = seq[f] => e = f

FlushedOK ==
    /\ \A e \in Events : flushed.db[e].delivery \in HasRow => flushed.db[e].seq \in 1..MaxSeq
    /\ \A e, f \in Events :
        /\ flushed.db[e].delivery \in HasRow /\ flushed.db[f].delivery \in HasRow
        /\ Owner[e] = Owner[f] /\ flushed.db[e].seq = flushed.db[f].seq
        => e = f

\* A request carries events of its PC, each under a number of its own.
BatchOK(p, b) ==
    /\ \A e \in Events : b[e] # 0 => Owner[e] = p /\ b[e] \in 1..MaxSeq
    /\ \A e, f \in Events : b[e] # 0 /\ b[e] = b[f] => e = f

BatchesOK ==
    /\ \A p \in PCs : BatchOK(p, batch[p])
    /\ \A m \in late : BatchOK(m.pc, m.batch)

\* What the flushed image calls acknowledged is stored as well.
FlushedAcked == \A e \in Events : flushed.db[e].delivery \in Given => stored[e] # 0

\* A number the PC drew, or none.
Drawn(p, m) == m # 0 => \E x \in Of(p) : IsRow(x) /\ seq[x] = m

\* A number names the event of its outbox row, on the server and under way.
Named(e, m) == m # 0 => IsRow(e) /\ seq[e] = m

CleanPC(p) ==
    /\ ~conflict[p] /\ renumber[p] = 0
    /\ ~checkin[p].renumber /\ checkin[p].phase \in {"idle", "answer"}
    /\ Drawn(p, lastSeq[p]) /\ Drawn(p, srvMax[p]) /\ Drawn(p, checkin[p].max)
    /\ \A e \in Events : Named(e, batch[p][e])

CleanEvent(e) ==
    /\ Named(e, stored[e])
    /\ delivery[e] # "lost"
    /\ IsRow(e) => \A n \in 1..seq[e] : Drawn(Owner[e], n)

Clean ==
    /\ \A p \in PCs : CleanPC(p)
    /\ \A e \in Events : CleanEvent(e)
    /\ \A m \in late : \A e \in Events : Named(e, m.batch[e])

SyncInv ==
    /\ MergeInv /\ TypeOK /\ RowsOK /\ FlushedOK /\ BatchesOK
    /\ AckedIsStored /\ FlushedAcked /\ StoredOnce
    /\ cuts = 0 => Clean

-----------------------------------------------------------------------------
(* What a step keeps.                                                      *)

OutboxTypes ==
    /\ seq \in [Events -> Nat] /\ delivery \in [Events -> Delivery]
    /\ lastSeq \in [PCs -> Nat] /\ srvMax \in [PCs -> Nat]

FlushedTypes ==
    flushed \in [db : [Events -> [seq : Nat, delivery : Delivery]],
                 pairing : [PCs -> [last : Nat, max : Nat]]]

CheckinType == [phase : {"idle", "answer", "renumber", "save"}, max : Nat, renumber : BOOLEAN]

PassTypes ==
    /\ phase \in [PCs -> Phases] /\ reply \in [PCs -> SUBSET Events]
    /\ halt \in [PCs -> BOOLEAN] /\ checkin \in [PCs -> CheckinType]

RequestTypes ==
    /\ batch \in [PCs -> [Events -> Nat]]
    /\ \A m \in late : /\ m = [pc |-> m.pc, batch |-> m.batch]
                       /\ m.pc \in PCs /\ m.batch \in [Events -> Nat]

ReviewTypes == conflict \in [PCs -> BOOLEAN] /\ renumber \in [PCs -> Nat]
BoundTypes  == faults \in Nat /\ crashes \in Nat /\ cuts \in Nat

LEMMA TypeParts ==
    TypeOK <=> /\ MergeTypeOK /\ OutboxTypes /\ FlushedTypes /\ PassTypes /\ RequestTypes
               /\ ReviewTypes /\ BoundTypes
BY DEF TypeOK, OutboxTypes, FlushedTypes, PassTypes, CheckinType, RequestTypes, ReviewTypes,
       BoundTypes

LEMMA TypePartsNext ==
    TypeOK' <=> /\ MergeTypeOK' /\ OutboxTypes' /\ FlushedTypes' /\ PassTypes' /\ RequestTypes'
                /\ ReviewTypes' /\ BoundTypes'
BY DEF TypeOK, OutboxTypes, FlushedTypes, PassTypes, CheckinType, RequestTypes, ReviewTypes,
       BoundTypes

LEMMA DeliveryIs == Delivery = HasRow \cup {"none", "lost"} /\ Given \subseteq HasRow
BY DEF Delivery, HasRow, Given

LEMMA EmptyRequest ==
    /\ NoBatch \in [Events -> Nat]
    /\ \A p \in PCs : BatchOK(p, NoBatch)
    /\ \A e \in Events : NoBatch[e] = 0
    /\ NoCheckin \in CheckinType
BY DEF NoBatch, BatchOK, NoCheckin, CheckinType

\* The step leaves the rows there are under their numbers.
RowsGrow == \A e \in Events : IsRow(e) => IsRow(e)' /\ seq'[e] = seq[e]
RowsStay == RowsGrow /\ \A e \in Events : IsRow(e)' => IsRow(e)

LEMMA Grows ==
    ASSUME RowsGrow
    PROVE  /\ \A p \in PCs, m \in Nat : Drawn(p, m) => Drawn(p, m)'
           /\ \A e \in Events, m \in Nat : Named(e, m) => Named(e, m)'
BY DEF RowsGrow, Drawn, Named, Of

LEMMA RowsStayOK ==
    ASSUME RowsOK, RowsStay
    PROVE  RowsOK'
BY DEF RowsOK, RowsStay, RowsGrow

\* No new request is made: a PC's request may end, or be under way without it.
RequestsEnd ==
    /\ batch' \in [PCs -> [Events -> Nat]]
    /\ \A p \in PCs : batch'[p] = batch[p] \/ batch'[p] = NoBatch
    /\ \A m \in late' : m \in late \/ \E p \in PCs : m = [pc |-> p, batch |-> batch[p]]

LEMMA RequestsEndOK ==
    ASSUME SyncInv, RequestsEnd
    PROVE  /\ RequestTypes' /\ BatchesOK'
           /\ RowsGrow /\ Clean =>
                /\ \A p \in PCs, e \in Events : Named(e, batch[p][e])'
                /\ \A m \in late' : \A e \in Events : Named(e, m.batch[e])'
<1>1. RequestTypes /\ BatchesOK
  BY TypeParts DEF SyncInv
<1>2. \A m \in late' : /\ m = [pc |-> m.pc, batch |-> m.batch]
                       /\ m.pc \in PCs /\ m.batch \in [Events -> Nat] /\ BatchOK(m.pc, m.batch)
  <2> TAKE m \in late'
  <2>1. CASE m \in late
    BY <2>1, <1>1 DEF RequestTypes, BatchesOK
  <2>2. CASE \E p \in PCs : m = [pc |-> p, batch |-> batch[p]]
    BY <2>2, <1>1 DEF RequestTypes, BatchesOK
  <2> QED BY <2>1, <2>2 DEF RequestsEnd
<1>3. \A p \in PCs : BatchOK(p, batch'[p])
  BY <1>1, EmptyRequest DEF RequestsEnd, BatchesOK
<1>4. RequestTypes' /\ BatchesOK'
  <2>1. RequestTypes'
    BY <1>2 DEF RequestsEnd, RequestTypes
  <2>2. BatchesOK'
    BY <1>2, <1>3 DEF BatchesOK, BatchOK
  <2> QED BY <2>1, <2>2
<1>5. ASSUME RowsGrow, Clean
      PROVE  /\ \A p \in PCs, e \in Events : Named(e, batch[p][e])'
             /\ \A m \in late' : \A e \in Events : Named(e, m.batch[e])'
  <2>1. \A p \in PCs, e \in Events : Named(e, batch[p][e]) /\ batch[p][e] \in Nat
    BY <1>1, <1>5 DEF Clean, CleanPC, RequestTypes
  <2>2. \A p \in PCs, e \in Events : Named(e, batch'[p][e]) /\ batch'[p][e] \in Nat
    BY <2>1, EmptyRequest DEF RequestsEnd, Named
  <2>3. \A m \in late' : \A e \in Events : Named(e, m.batch[e]) /\ m.batch[e] \in Nat
    <3> SUFFICES ASSUME NEW m \in late', NEW e \in Events
                 PROVE  Named(e, m.batch[e]) /\ m.batch[e] \in Nat
      OBVIOUS
    <3>1. CASE m \in late
      BY <3>1, <1>1, <1>5 DEF Clean, RequestTypes
    <3>2. CASE \E p \in PCs : m = [pc |-> p, batch |-> batch[p]]
      BY <3>2, <2>1
    <3> QED BY <3>1, <3>2 DEF RequestsEnd
  <2> QED BY <2>2, <2>3, <1>5, Grows DEF Named, RowsGrow, IsRow
<1> QED BY <1>4, <1>5

\* A step that leaves the server alone keeps what is said of the server.
LEMMA ServerIdle ==
    ASSUME SyncInv, UNCHANGED mergeVars
    PROVE  MergeInv' /\ MergeTypeOK' /\ StoredOnce' /\ UNCHANGED <<stored, status>>
<1>1. MergeInv'
  BY StutterPreserves DEF SyncInv
<1>2. UNCHANGED <<stored, status>>
  BY DEF mergeVars, storeVars
<1> QED BY <1>1, <1>2 DEF MergeInv, SyncInv, StoredOnce

-----------------------------------------------------------------------------
(* The PC's steps.                                                         *)

\* Answers in flight say what is stored, and check-ins end.
AnswersEnd ==
    /\ PassTypes'
    /\ \A p \in PCs : \A e \in reply'[p] : stored[e] # 0
    /\ \A p \in PCs : checkin'[p] = checkin[p] \/ checkin'[p] = NoCheckin

LEMMA CheckinEnds ==
    ASSUME SyncInv, Clean, RowsGrow, AnswersEnd, NEW p \in PCs
    PROVE  /\ ~(checkin'[p].renumber) /\ checkin'[p].phase \in {"idle", "answer"}
           /\ Drawn(p, checkin[p].max)'
<1>1. /\ ~checkin[p].renumber /\ checkin[p].phase \in {"idle", "answer"}
      /\ Drawn(p, checkin[p].max) /\ checkin[p].max \in Nat
  BY TypeParts DEF Clean, CleanPC, SyncInv, PassTypes, CheckinType
<1>2. CASE checkin'[p] = checkin[p]
  BY <1>1, <1>2, Grows DEF Drawn, RowsGrow, IsRow
<1>3. CASE checkin'[p] = NoCheckin
  BY <1>3 DEF NoCheckin, Drawn
<1> QED BY <1>2, <1>3 DEF AnswersEnd

\* A step of the pass: rows are given up only when they are stored, and no
\* request is made.
LEMMA PassKeeps ==
    ASSUME SyncInv, UNCHANGED <<mergeVars, seq, pairingVars, flushed, reviewVars, cuts>>,
           RequestsEnd, AnswersEnd, BoundTypes',
           delivery' \in [Events -> Delivery],
           \A e \in Events : \/ delivery'[e] = delivery[e]
                             \/ delivery[e] \in HasRow /\ delivery'[e] \in Given /\ stored[e] # 0
    PROVE  SyncInv'
<1>1. MergeInv' /\ MergeTypeOK' /\ StoredOnce' /\ UNCHANGED <<stored, status>>
  BY ServerIdle
<1>2. RowsStay
  BY DeliveryIs DEF RowsStay, RowsGrow, IsRow
<1>3. RequestTypes' /\ BatchesOK'
  BY RequestsEndOK
<1>4. TypeOK'
  <2>1. OutboxTypes' /\ FlushedTypes' /\ ReviewTypes'
    BY TypeParts DEF SyncInv, OutboxTypes, FlushedTypes, ReviewTypes, pairingVars, reviewVars
  <2> QED BY <2>1, <1>1, <1>3, TypePartsNext DEF AnswersEnd
<1>5. RowsOK' /\ FlushedOK' /\ FlushedAcked'
  BY <1>1, <1>2, RowsStayOK DEF SyncInv, FlushedOK, FlushedAcked
<1>6. AckedIsStored'
  BY <1>1, DeliveryIs DEF SyncInv, AckedIsStored, AnswersEnd, Given
<1>7. ASSUME cuts' = 0 PROVE Clean'
  <2>1. Clean /\ RowsGrow
    BY <1>2, <1>7 DEF SyncInv, RowsStay
  <2>2. \A p \in PCs : CleanPC(p)'
    <3> TAKE p \in PCs
    <3>1. ~(checkin'[p].renumber) /\ checkin'[p].phase \in {"idle", "answer"} /\ Drawn(p, checkin[p].max)'
      BY <2>1, CheckinEnds
    <3>2. \A e \in Events : Named(e, batch[p][e])'
      BY <2>1, RequestsEndOK
    <3>3. lastSeq[p] \in Nat /\ srvMax[p] \in Nat
      BY TypeParts DEF SyncInv, OutboxTypes
    <3>4. Drawn(p, lastSeq[p])' /\ Drawn(p, srvMax[p])'
      BY <2>1, <3>3 DEF Clean, CleanPC, Drawn, RowsGrow, IsRow, pairingVars, Of
    <3>5. ~conflict'[p] /\ renumber'[p] = 0
      BY <2>1 DEF Clean, CleanPC, reviewVars
    <3> QED BY <3>1, <3>2, <3>4, <3>5 DEF CleanPC
  <2>3. \A e \in Events : CleanEvent(e)'
    <3> TAKE e \in Events
    <3>1. CleanEvent(e)
      BY <2>1 DEF Clean
    <3>2. delivery'[e] # "lost" /\ Named(e, stored[e])'
      BY <3>1, <2>1, <1>1, DeliveryIs DEF CleanEvent, Named, RowsGrow, IsRow, HasRow
    <3>3. IsRow(e)' => \A n \in 1..seq'[e] : Drawn(Owner[e], n)'
      BY <3>1, <2>1, <1>2 DEF CleanEvent, Drawn, RowsGrow, RowsStay, IsRow, Of
    <3> QED BY <3>2, <3>3 DEF CleanEvent
  <2>4. \A m \in late' : \A e \in Events : Named(e, m.batch[e])'
    BY <2>1, RequestsEndOK
  <2> QED BY <2>2, <2>3, <2>4 DEF Clean
<1> QED BY <1>1, <1>3, <1>4, <1>5, <1>6, <1>7 DEF SyncInv

\* The process stops.
LEMMA StopEnds == ASSUME SyncInv, NEW p \in PCs, Stop(p) PROVE RequestsEnd /\ AnswersEnd
<1>1. PassTypes /\ RequestTypes
  BY TypeParts DEF SyncInv
<1>2. \A q \in PCs : \A e \in reply[q] : stored[e] # 0
  BY DEF SyncInv, AckedIsStored
<1>3. RequestsEnd
  BY <1>1, EmptyRequest DEF Stop, RequestTypes, RequestsEnd
<1>4. PassTypes'
  BY <1>1, EmptyRequest DEF Stop, PassTypes, Phases
<1>5. AnswersEnd
  BY <1>1, <1>2, <1>4 DEF Stop, PassTypes, AnswersEnd
<1> QED BY <1>3, <1>5

LEMMA CrashKeeps == ASSUME SyncInv, NEW p \in PCs, Crash(p) PROVE SyncInv'
<1>1. RequestsEnd /\ AnswersEnd
  BY StopEnds DEF Crash
<1>2. UNCHANGED <<mergeVars, seq, delivery, pairingVars, flushed, reviewVars, cuts>>
  BY DEF Crash, outboxVars
<1>3. BoundTypes' /\ delivery' \in [Events -> Delivery]
  BY <1>2, TypeParts DEF Crash, SyncInv, BoundTypes, OutboxTypes
<1> QED BY <1>1, <1>2, <1>3, PassKeeps

\* Steps of the pass that touch neither the outbox nor the requests.
LEMMA PollKeeps ==
    ASSUME SyncInv, NEW p \in PCs, SendWaiting(p) \/ PollStatus(p) \/ NoStatus(p)
    PROVE  SyncInv'
<1>1. UNCHANGED <<mergeVars, seq, delivery, pairingVars, flushed, reviewVars, cuts, batch,
                  halt, checkin, late>>
  BY DEF SendWaiting, PollStatus, NoStatus, outboxVars, boundVars
<1>2. PassTypes /\ RequestTypes /\ BoundTypes /\ OutboxTypes
  BY TypeParts DEF SyncInv
<1>3. \A e \in Events : Settled(e) => stored[e] # 0
  BY TypeParts DEF SyncInv, MergeTypeOK, Settled, Outcomes
<1>4. reply' \in [PCs -> SUBSET Events]
  BY <1>2 DEF SendWaiting, PollStatus, NoStatus, PassTypes, Of
<1>5. \A q \in PCs : \A e \in reply'[q] : e \in reply[q] \/ Settled(e)
  BY <1>2 DEF SendWaiting, PollStatus, NoStatus, PassTypes
<1>6. phase' \in [PCs -> Phases]
  <2>1. CASE SendWaiting(p)
    BY <2>1, <1>2 DEF SendWaiting, PassStep, PassTypes, Phases
  <2>2. CASE PollStatus(p)
    BY <2>2, <1>2 DEF PollStatus, PassStep, PassTypes, Phases
  <2>3. CASE NoStatus(p)
    BY <2>3, <1>2 DEF NoStatus, PassStep, PassTypes, Phases
  <2> QED BY <2>1, <2>2, <2>3
<1>7. \A q \in PCs : \A e \in reply'[q] : stored[e] # 0
  BY <1>3, <1>4, <1>5 DEF SyncInv, AckedIsStored
<1>8. RequestsEnd
  BY <1>1, <1>2 DEF RequestTypes, RequestsEnd
<1>9. AnswersEnd
  BY <1>1, <1>2, <1>4, <1>6, <1>7 DEF PassTypes, AnswersEnd
<1>10. BoundTypes'
  BY <1>2 DEF SendWaiting, PollStatus, NoStatus, boundVars, BoundTypes
<1> QED BY <1>1, <1>2, <1>8, <1>9, <1>10, PassKeeps DEF OutboxTypes

LEMMA NoAnswerKeeps == ASSUME SyncInv, NEW p \in PCs, NoAnswer(p) PROVE SyncInv'
<1>1. /\ UNCHANGED <<mergeVars, seq, delivery, pairingVars, flushed, reviewVars, cuts, checkin>>
      /\ phase' = [phase EXCEPT ![p] = "poll"]
      /\ batch' = [batch EXCEPT ![p] = NoBatch]
      /\ reply' = [reply EXCEPT ![p] = {}]
      /\ halt' = [halt EXCEPT ![p] = FALSE]
      /\ late' = late \/ late' = late \cup {[pc |-> p, batch |-> batch[p]]}
  BY DEF NoAnswer, PassStep, outboxVars
<1>2. PassTypes /\ RequestTypes /\ BoundTypes /\ OutboxTypes
  BY TypeParts DEF SyncInv
<1>3. RequestsEnd
  BY <1>1, <1>2, EmptyRequest DEF RequestTypes, RequestsEnd
<1>4. PassTypes'
  BY <1>1, <1>2 DEF PassTypes, Phases
<1>5. AnswersEnd
  BY <1>1, <1>2, <1>4 DEF SyncInv, AckedIsStored, PassTypes, AnswersEnd
<1>6. BoundTypes'
  BY <1>2 DEF NoAnswer, BoundTypes
<1> QED BY <1>1, <1>2, <1>3, <1>5, <1>6, PassKeeps DEF OutboxTypes

\* markAcked() and setServerStatus() touch only rows the answer names.
LEMMA ReceiveKeeps ==
    ASSUME SyncInv, NEW p \in PCs, ReceiveAnswer(p) \/ ReceiveStatus(p)
    PROVE  SyncInv'
<1>1. /\ UNCHANGED <<mergeVars, seq, pairingVars, flushed, reviewVars, faults, crashes, cuts,
                     batch, checkin, late>>
      /\ \E s \in Phases : phase' = [phase EXCEPT ![p] = s]
      /\ reply' = [reply EXCEPT ![p] = {}]
      /\ halt' = halt \/ halt' = [halt EXCEPT ![p] = FALSE]
  BY DEF ReceiveAnswer, ReceiveStatus, PassStep, Phases, boundVars
<1>2. PassTypes /\ RequestTypes /\ BoundTypes /\ OutboxTypes
  BY TypeParts DEF SyncInv
<1>3. RequestsEnd
  BY <1>1, <1>2 DEF RequestTypes, RequestsEnd
<1>4. PassTypes'
  BY <1>1, <1>2 DEF PassTypes
<1>5. AnswersEnd
  BY <1>1, <1>2, <1>4 DEF SyncInv, AckedIsStored, PassTypes, AnswersEnd
<1>6. BoundTypes'
  BY <1>1, <1>2 DEF BoundTypes
<1>7. /\ delivery' \in [Events -> Delivery]
      /\ \A e \in Events : \/ delivery'[e] = delivery[e]
                           \/ delivery[e] \in HasRow /\ delivery'[e] \in Given /\ e \in reply[p]
  <2>1. CASE ReceiveAnswer(p)
    BY <2>1, <1>2 DEF ReceiveAnswer, OutboxTypes, Delivery, HasRow, Given
  <2>2. CASE ReceiveStatus(p)
    BY <2>2, <1>2 DEF ReceiveStatus, OutboxTypes, Delivery, HasRow, Given, Rows
  <2> QED BY <2>1, <2>2
<1>8. \A e \in reply[p] : stored[e] # 0
  BY DEF SyncInv, AckedIsStored
<1> QED BY <1>1, <1>3, <1>5, <1>6, <1>7, <1>8, PassKeeps

\* A new request carries rows of the outbox.
LEMMA SendBatchKeeps == ASSUME SyncInv, NEW p \in PCs, SendBatch(p) PROVE SyncInv'
<1> DEFINE b == [e \in Events |-> IF e \in ListWaiting(p) THEN seq[e] ELSE 0]
<1>1. /\ UNCHANGED <<mergeVars, seq, delivery, pairingVars, flushed, reviewVars, boundVars,
                     reply, halt, checkin, late>>
      /\ \E s \in Phases : phase' = [phase EXCEPT ![p] = s]
      /\ batch' = [batch EXCEPT ![p] = b]
  BY DEF SendBatch, PassStep, Phases, outboxVars
<1>2. PassTypes /\ RequestTypes /\ BoundTypes /\ OutboxTypes /\ FlushedTypes /\ ReviewTypes
  BY TypeParts DEF SyncInv
<1>3. /\ b \in [Events -> Nat]
      /\ \A e \in Events : b[e] # 0 => Owner[e] = p /\ IsRow(e) /\ seq[e] = b[e]
  BY <1>2 DEF OutboxTypes, ListWaiting, Waiting, Of, IsRow, HasRow
<1> HIDE DEF b
<1>4. BatchOK(p, b)
  BY <1>3 DEF BatchOK, SyncInv, RowsOK
<1>5. MergeInv' /\ MergeTypeOK' /\ StoredOnce' /\ UNCHANGED <<stored, status>>
  BY <1>1, ServerIdle
<1>6. batch'[p] = b /\ \A q \in PCs : q # p => batch'[q] = batch[q]
  BY <1>1, <1>2 DEF RequestTypes
<1>7. TypeOK'
  <2>1. PassTypes' /\ OutboxTypes' /\ FlushedTypes' /\ ReviewTypes' /\ BoundTypes'
    BY <1>1, <1>2 DEF PassTypes, OutboxTypes, FlushedTypes, ReviewTypes, BoundTypes,
                      pairingVars, reviewVars, boundVars
  <2>2. RequestTypes'
    BY <1>1, <1>2, <1>3 DEF RequestTypes
  <2> QED BY <2>1, <2>2, <1>5, TypePartsNext
<1>8. BatchesOK'
  BY <1>1, <1>4, <1>6 DEF SyncInv, BatchesOK, BatchOK
<1>9. RowsOK' /\ FlushedOK' /\ FlushedAcked' /\ AckedIsStored'
  BY <1>1, <1>5 DEF SyncInv, RowsOK, IsRow, FlushedOK, FlushedAcked, AckedIsStored
<1>10. ASSUME cuts' = 0 PROVE Clean'
  <2>1. Clean
    BY <1>1, <1>10 DEF SyncInv, boundVars
  <2>2. \A q \in PCs : CleanPC(q)'
    <3> TAKE q \in PCs
    <3>1. \A e \in Events : Named(e, batch'[q][e])
      BY <2>1, <1>3, <1>6 DEF Clean, CleanPC, Named
    <3> QED BY <2>1, <3>1, <1>1 DEF Clean, CleanPC, Named, Drawn, IsRow, pairingVars, reviewVars
  <2>3. \A e \in Events : CleanEvent(e)'
    BY <2>1, <1>1, <1>5 DEF Clean, CleanEvent, Named, Drawn, IsRow
  <2>4. \A m \in late' : \A e \in Events : Named(e, m.batch[e])'
    BY <2>1, <1>1 DEF Clean, Named, IsRow
  <2> QED BY <2>2, <2>3, <2>4 DEF Clean
<1> QED BY <1>5, <1>7, <1>8, <1>9, <1>10 DEF SyncInv

\* The next number is above every row's; without power cuts it follows one the
\* PC drew.
LEMMA AppendKeeps ==
    ASSUME SyncInv, NEW p \in PCs, NEW e \in Events, NEW n \in 1..MaxSeq, AppendRow(p, e, n),
           RequestsEnd, AnswersEnd, BoundTypes',
           lastSeq' = lastSeq \/ lastSeq' = [lastSeq EXCEPT ![p] = IF n > @ THEN n ELSE @]
    PROVE  SyncInv'
<1>1. /\ UNCHANGED <<mergeVars, srvMax, flushed, reviewVars, cuts>>
      /\ Owner[e] = p /\ delivery[e] = "none" /\ IsNextSeq(p, n)
      /\ seq' = [seq EXCEPT ![e] = n] /\ delivery' = [delivery EXCEPT ![e] = "waiting"]
  BY DEF AppendRow
<1>2. OutboxTypes /\ FlushedTypes /\ ReviewTypes /\ PassTypes
  BY TypeParts DEF SyncInv
<1>3. MergeInv' /\ MergeTypeOK' /\ StoredOnce' /\ UNCHANGED <<stored, status>>
  BY <1>1, ServerIdle
<1>4. /\ ~IsRow(e) /\ IsRow(e)' /\ seq'[e] = n
      /\ \A x \in Events : x # e => seq'[x] = seq[x] /\ delivery'[x] = delivery[x]
  BY <1>1, <1>2 DEF OutboxTypes, IsRow, HasRow
<1>5. RowsGrow
  BY <1>4 DEF RowsGrow, IsRow
<1>6. n \in Nat /\ n # 0 /\ MaxSeq \in Nat
  BY MergeAssumption
<1>7. \A x \in Of(p) : IsRow(x) => seq[x] < n
  <2>1. \A x \in Of(p) : IsRow(x) => x \in Rows(p) /\ seq[x] \in Nat
    BY <1>2 DEF Rows, IsRow, HasRow, OutboxTypes, Of
  <2>2. \A x \in Rows(p) : seq[x] <= n - 1
    BY <1>1 DEF IsNextSeq, IsMax
  <2> QED BY <2>1, <2>2, <1>6
<1>8. RowsOK'
  <2>1. \A x \in Events : IsRow(x)' => seq'[x] \in 1..MaxSeq
    BY <1>4 DEF SyncInv, RowsOK, IsRow
  <2>2. \A x, y \in Events : x # y /\ IsRow(x)' /\ IsRow(y)' /\ Owner[x] = Owner[y] => seq'[x] # seq'[y]
    <3> SUFFICES ASSUME NEW x \in Events, NEW y \in Events, x # y, IsRow(x)', IsRow(y)',
                        Owner[x] = Owner[y]
                 PROVE  seq'[x] # seq'[y]
      OBVIOUS
    <3>1. CASE x # e /\ y # e
      BY <3>1, <1>4 DEF SyncInv, RowsOK, IsRow
    <3>2. CASE x = e
      <4>1. y \in Of(p) /\ IsRow(y) /\ seq[y] \in Nat
        BY <3>2, <1>1, <1>2, <1>4 DEF Of, IsRow, OutboxTypes
      <4> QED BY <4>1, <3>2, <1>4, <1>6, <1>7
    <3>3. CASE y = e
      <4>1. x \in Of(p) /\ IsRow(x) /\ seq[x] \in Nat
        BY <3>3, <1>1, <1>2, <1>4 DEF Of, IsRow, OutboxTypes
      <4> QED BY <4>1, <3>3, <1>4, <1>6, <1>7
    <3> QED BY <3>1, <3>2, <3>3
  <2> QED BY <2>1, <2>2 DEF RowsOK
<1>9. RequestTypes' /\ BatchesOK'
  BY RequestsEndOK
<1>10. TypeOK'
  <2>1. OutboxTypes'
    BY <1>1, <1>2, <1>6 DEF OutboxTypes, Delivery
  <2>2. FlushedTypes' /\ ReviewTypes'
    BY <1>1, <1>2 DEF FlushedTypes, ReviewTypes, reviewVars
  <2> QED BY <2>1, <2>2, <1>3, <1>9, TypePartsNext DEF AnswersEnd
<1>11. FlushedOK' /\ FlushedAcked'
  BY <1>1, <1>3 DEF SyncInv, FlushedOK, FlushedAcked
<1>12. AckedIsStored'
  BY <1>1, <1>2, <1>3 DEF SyncInv, AckedIsStored, AnswersEnd, OutboxTypes
<1>13. ASSUME cuts' = 0 PROVE Clean'
  <2>1. Clean
    BY <1>1, <1>13 DEF SyncInv
  <2>2. Drawn(p, n)'
    BY <1>1, <1>4 DEF Drawn, Of
  <2>3. \A q \in PCs, m \in Nat : Drawn(q, m) => Drawn(q, m)'
    BY <1>5, Grows
  <2>4. \A q \in PCs : CleanPC(q)'
    <3> TAKE q \in PCs
    <3>1. ~(checkin'[q].renumber) /\ checkin'[q].phase \in {"idle", "answer"} /\ Drawn(q, checkin[q].max)'
      BY <2>1, <1>5, CheckinEnds
    <3>2. \A x \in Events : Named(x, batch[q][x])'
      BY <2>1, <1>5, RequestsEndOK
    <3>3. Drawn(q, lastSeq[q])'
      <4>1. lastSeq[q] \in Nat /\ Drawn(q, lastSeq[q])
        BY <2>1, <1>2 DEF OutboxTypes, Clean, CleanPC
      <4>2. lastSeq'[q] = lastSeq[q] \/ (q = p /\ lastSeq'[q] = n)
        BY <1>2 DEF OutboxTypes
      <4>3. CASE lastSeq'[q] = lastSeq[q]
        BY <4>1, <4>3, <1>5 DEF Drawn, RowsGrow, IsRow, Of
      <4>4. CASE q = p /\ lastSeq'[q] = n
        BY <4>4, <2>2 DEF Drawn
      <4> QED BY <4>2, <4>3, <4>4
    <3>4. Drawn(q, srvMax[q])'
      BY <2>1, <1>1, <1>2, <1>5 DEF OutboxTypes, Clean, CleanPC, Drawn, RowsGrow, IsRow, Of
    <3>5. ~conflict'[q] /\ renumber'[q] = 0
      BY <2>1, <1>1 DEF Clean, CleanPC, reviewVars
    <3> QED BY <3>1, <3>2, <3>3, <3>4, <3>5 DEF CleanPC
  <2>5. \A k \in 1..n : Drawn(p, k)'
    <3> TAKE k \in 1..n
    <3>1. CASE k = n
      BY <3>1, <2>2
    <3>2. CASE k # n
      <4>1. k \in 1..(n - 1) /\ k \in Nat /\ n - 1 # 0
        BY <3>2, <1>6
      <4>2. n - 1 \in {0, lastSeq[p], srvMax[p]} \cup {seq[x] : x \in Rows(p)}
        BY <1>1 DEF IsNextSeq, IsMax
      <4>3. Drawn(p, lastSeq[p]) /\ Drawn(p, srvMax[p])
        BY <2>1 DEF Clean, CleanPC
      <4>4. \E x \in Of(p) : IsRow(x) /\ seq[x] = n - 1
        <5>1. CASE n - 1 = lastSeq[p]
          BY <5>1, <4>1, <4>3 DEF Drawn
        <5>2. CASE n - 1 = srvMax[p]
          BY <5>2, <4>1, <4>3 DEF Drawn
        <5>3. CASE n - 1 \in {seq[x] : x \in Rows(p)}
          BY <5>3, <1>2 DEF Rows, IsRow, HasRow, OutboxTypes, Delivery, Of
        <5> QED BY <5>1, <5>2, <5>3, <4>1, <4>2
      <4>5. PICK x \in Of(p) : IsRow(x) /\ seq[x] = n - 1
        BY <4>4
      <4>6. Drawn(p, k)
        BY <4>1, <4>5, <2>1 DEF Clean, CleanEvent, Of
      <4> QED BY <4>1, <4>6, <2>3
    <3> QED BY <3>1, <3>2
  <2>6. \A x \in Events : CleanEvent(x)'
    <3> TAKE x \in Events
    <3>1. CleanEvent(x) /\ Owner[x] \in PCs
      BY <2>1, MergeAssumption DEF Clean
    <3>2. delivery'[x] # "lost" /\ Named(x, stored[x])'
      BY <3>1, <1>1, <1>2, <1>3, <1>5 DEF CleanEvent, Named, RowsGrow, IsRow, OutboxTypes
    <3>3. CASE x = e
      BY <3>2, <3>3, <2>5, <1>1, <1>4 DEF CleanEvent
    <3>4. CASE x # e
      <4>1. IsRow(x)' => IsRow(x) /\ seq'[x] = seq[x] /\ seq[x] \in Nat
        BY <3>4, <1>2, <1>4 DEF IsRow, OutboxTypes
      <4>2. IsRow(x)' => \A k \in 1..seq'[x] : Drawn(Owner[x], k)'
        BY <4>1, <3>1, <2>3 DEF CleanEvent
      <4> QED BY <4>2, <3>2 DEF CleanEvent
    <3> QED BY <3>3, <3>4
  <2>7. \A m \in late' : \A x \in Events : Named(x, m.batch[x])'
    BY <2>1, <1>5, RequestsEndOK
  <2> QED BY <2>4, <2>6, <2>7 DEF Clean
<1> QED BY <1>3, <1>8, <1>9, <1>10, <1>11, <1>12, <1>13 DEF SyncInv

LEMMA RecordKeeps ==
    ASSUME SyncInv, NEW p \in PCs, NEW e \in Events, Record(p, e) \/ RecordCrash(p, e)
    PROVE  SyncInv'
<1>1. CASE Record(p, e)
  <2>1. PICK n \in 1..MaxSeq : /\ AppendRow(p, e, n)
                               /\ lastSeq' = [lastSeq EXCEPT ![p] = IF n > @ THEN n ELSE @]
                               /\ UNCHANGED <<senderVars, checkin, late, crashes>>
    BY <1>1 DEF Record
  <2>2. PassTypes /\ RequestTypes /\ BoundTypes
    BY TypeParts DEF SyncInv
  <2>3. RequestsEnd
    BY <2>1, <2>2 DEF RequestTypes, RequestsEnd, senderVars
  <2>4. AnswersEnd
    BY <2>1, <2>2 DEF SyncInv, AckedIsStored, PassTypes, AnswersEnd, senderVars
  <2>5. BoundTypes'
    BY <2>1, <2>2 DEF AppendRow, BoundTypes
  <2> QED BY <2>1, <2>3, <2>4, <2>5, AppendKeeps
<1>2. CASE RecordCrash(p, e)
  <2>1. PICK n \in 1..MaxSeq : AppendRow(p, e, n)
    BY <1>2 DEF RecordCrash
  <2>2. RequestsEnd /\ AnswersEnd /\ lastSeq' = lastSeq
    BY <1>2, StopEnds DEF RecordCrash
  <2>3. BoundTypes'
    BY <1>2, <2>1, TypeParts DEF RecordCrash, AppendRow, BoundTypes, SyncInv
  <2> QED BY <2>1, <2>2, <2>3, AppendKeeps
<1> QED BY <1>1, <1>2

\* A flush copies one of the PC's files; nothing else moves.
LEMMA FlushKeeps ==
    ASSUME SyncInv, NEW p \in PCs, FlushOutbox(p) \/ FlushPairing(p)
    PROVE  SyncInv'
<1>1. UNCHANGED <<mergeVars, seq, delivery, pairingVars, reviewVars, boundVars, phase, batch, reply,
                  halt, checkin, late>>
  BY DEF FlushOutbox, FlushPairing, outboxVars, senderVars
<1>2. /\ PassTypes /\ RequestTypes /\ BoundTypes /\ OutboxTypes /\ FlushedTypes /\ ReviewTypes
  BY TypeParts DEF SyncInv
<1>3. MergeInv' /\ MergeTypeOK' /\ StoredOnce' /\ UNCHANGED <<stored, status>>
  BY <1>1, ServerIdle
<1>4. /\ flushed' \in [db : [Events -> [seq : Nat, delivery : Delivery]],
                       pairing : [PCs -> [last : Nat, max : Nat]]]
      /\ \A e \in Events :
            \/ flushed'.db[e] = flushed.db[e]
            \/ flushed'.db[e] = [seq |-> seq[e], delivery |-> delivery[e]]
      /\ \A e, f \in Events : Owner[e] = Owner[f] =>
            \/ flushed'.db[e] = flushed.db[e] /\ flushed'.db[f] = flushed.db[f]
            \/ /\ flushed'.db[e] = [seq |-> seq[e], delivery |-> delivery[e]]
               /\ flushed'.db[f] = [seq |-> seq[f], delivery |-> delivery[f]]
  <2>1. CASE FlushOutbox(p)
    <3> DEFINE D == [e \in Events |-> IF Owner[e] = p THEN [seq |-> seq[e], delivery |-> delivery[e]]
                                      ELSE flushed.db[e]]
    <3>1. D \in [Events -> [seq : Nat, delivery : Delivery]]
      BY <1>2 DEF OutboxTypes, FlushedTypes
    <3>2. flushed' = [flushed EXCEPT !.db = D]
      BY <2>1, <1>2 DEF FlushOutbox, FlushedTypes
    <3>3. \A e \in Events : D[e] = IF Owner[e] = p THEN [seq |-> seq[e], delivery |-> delivery[e]]
                                   ELSE flushed.db[e]
      OBVIOUS
    <3> HIDE DEF D
    <3>4. flushed'.db = D /\ flushed' \in [db : [Events -> [seq : Nat, delivery : Delivery]],
                                           pairing : [PCs -> [last : Nat, max : Nat]]]
      BY <3>1, <3>2, <1>2 DEF FlushedTypes
    <3> QED BY <3>3, <3>4
  <2>2. CASE FlushPairing(p)
    <3> DEFINE P == [flushed.pairing EXCEPT ![p] = [last |-> lastSeq[p], max |-> srvMax[p]]]
    <3>1. P \in [PCs -> [last : Nat, max : Nat]]
      BY <1>2 DEF OutboxTypes, FlushedTypes
    <3>2. flushed' = [flushed EXCEPT !.pairing = P]
      BY <2>2, <1>2 DEF FlushPairing, FlushedTypes
    <3> HIDE DEF P
    <3>3. /\ flushed'.db = flushed.db
          /\ flushed' \in [db : [Events -> [seq : Nat, delivery : Delivery]],
                           pairing : [PCs -> [last : Nat, max : Nat]]]
      BY <3>1, <3>2, <1>2 DEF FlushedTypes
    <3> QED BY <3>3
  <2> QED BY <2>1, <2>2
<1>5. FlushedTypes'
  BY <1>4 DEF FlushedTypes
<1>6. TypeOK'
  <2>1. PassTypes' /\ RequestTypes' /\ OutboxTypes' /\ ReviewTypes' /\ BoundTypes'
    BY <1>1, <1>2 DEF PassTypes, RequestTypes, OutboxTypes, ReviewTypes, BoundTypes,
                      pairingVars, reviewVars, boundVars
  <2> QED BY <2>1, <1>3, <1>5, TypePartsNext
<1>7. FlushedOK'
  <2>1. ASSUME NEW e \in Events, flushed'.db[e].delivery \in HasRow
        PROVE  flushed'.db[e].seq \in 1..MaxSeq
    <3>1. CASE flushed'.db[e] = flushed.db[e]
      BY <2>1, <3>1 DEF SyncInv, FlushedOK
    <3>2. CASE flushed'.db[e] = [seq |-> seq[e], delivery |-> delivery[e]]
      BY <2>1, <3>2 DEF SyncInv, RowsOK, IsRow
    <3> QED BY <3>1, <3>2, <1>4
  <2>2. ASSUME NEW e \in Events, NEW f \in Events,
               flushed'.db[e].delivery \in HasRow, flushed'.db[f].delivery \in HasRow,
               Owner[e] = Owner[f], flushed'.db[e].seq = flushed'.db[f].seq
        PROVE  e = f
    <3>1. CASE flushed'.db[e] = flushed.db[e] /\ flushed'.db[f] = flushed.db[f]
      BY <2>2, <3>1 DEF SyncInv, FlushedOK
    <3>2. CASE /\ flushed'.db[e] = [seq |-> seq[e], delivery |-> delivery[e]]
               /\ flushed'.db[f] = [seq |-> seq[f], delivery |-> delivery[f]]
      BY <2>2, <3>2 DEF SyncInv, RowsOK, IsRow
    <3> QED BY <3>1, <3>2, <2>2, <1>4
  <2> QED BY <2>1, <2>2 DEF FlushedOK
<1>8. FlushedAcked'
  <2> SUFFICES ASSUME NEW e \in Events, flushed'.db[e].delivery \in Given PROVE stored[e] # 0
    BY <1>3 DEF FlushedAcked
  <2>1. CASE flushed'.db[e] = flushed.db[e]
    BY <2>1 DEF SyncInv, FlushedAcked
  <2>2. CASE flushed'.db[e] = [seq |-> seq[e], delivery |-> delivery[e]]
    BY <2>2 DEF SyncInv, AckedIsStored, Given
  <2> QED BY <2>1, <2>2, <1>4
<1>9. RowsOK' /\ BatchesOK' /\ AckedIsStored'
  BY <1>1, <1>3 DEF SyncInv, RowsOK, IsRow, BatchesOK, AckedIsStored
<1>10. cuts' = 0 => Clean'
  <2>1. Clean => Clean'
    BY <1>1, <1>3 DEF Clean, CleanPC, CleanEvent, Named, Drawn, IsRow, pairingVars, reviewVars
  <2> QED BY <2>1, <1>1 DEF SyncInv, boundVars
<1> QED BY <1>3, <1>6, <1>7, <1>8, <1>9, <1>10 DEF SyncInv

\* Each file is what it was, or the flushed image of itself.
LEMMA PowerCutKeeps == ASSUME SyncInv, NEW p \in PCs, PowerCut(p) PROVE SyncInv'
<1> DEFINE Back(e) ==
        IF flushed.db[e].delivery = "none" /\ delivery[e] # "none" THEN "lost"
        ELSE flushed.db[e].delivery
<1>1. /\ UNCHANGED <<mergeVars, flushed, reviewVars, faults, crashes>>
      /\ cuts' = cuts + 1 /\ RequestsEnd /\ AnswersEnd
  BY StopEnds DEF PowerCut
<1>2. PassTypes /\ RequestTypes /\ BoundTypes /\ OutboxTypes /\ FlushedTypes /\ ReviewTypes
  BY TypeParts DEF SyncInv
<1>3. MergeInv' /\ MergeTypeOK' /\ StoredOnce' /\ UNCHANGED <<stored, status>>
  BY <1>1, ServerIdle
<1>4. \A e \in Events : /\ flushed.db[e] \in [seq : Nat, delivery : Delivery]
                        /\ flushed.db[e].seq \in Nat /\ flushed.db[e].delivery \in Delivery
                        /\ Back(e) \in Delivery
                        /\ Back(e) \in HasRow => Back(e) = flushed.db[e].delivery
  BY <1>2 DEF FlushedTypes, Delivery, HasRow
<1>5. \A q \in PCs : flushed.pairing[q].last \in Nat /\ flushed.pairing[q].max \in Nat
  BY <1>2 DEF FlushedTypes
<1>6. PICK db \in BOOLEAN, pairing \in BOOLEAN :
        /\ seq' = IF ~db THEN seq
                  ELSE [e \in Events |-> IF Owner[e] = p THEN flushed.db[e].seq ELSE seq[e]]
        /\ delivery' = IF ~db THEN delivery
                       ELSE [e \in Events |-> IF Owner[e] # p THEN delivery[e] ELSE Back(e)]
        /\ lastSeq' = IF pairing THEN [lastSeq EXCEPT ![p] = flushed.pairing[p].last] ELSE lastSeq
        /\ srvMax' = IF pairing THEN [srvMax EXCEPT ![p] = flushed.pairing[p].max] ELSE srvMax
  BY DEF PowerCut
<1> HIDE DEF Back
<1>7. OutboxTypes'
  <2>1. seq' \in [Events -> Nat]
    BY <1>2, <1>4, <1>6 DEF OutboxTypes
  <2>2. delivery' \in [Events -> Delivery]
    BY <1>2, <1>4, <1>6 DEF OutboxTypes
  <2>3. lastSeq' \in [PCs -> Nat] /\ srvMax' \in [PCs -> Nat]
    BY <1>2, <1>5, <1>6 DEF OutboxTypes
  <2> QED BY <2>1, <2>2, <2>3 DEF OutboxTypes
<1>8. RequestTypes' /\ BatchesOK'
  BY <1>1, RequestsEndOK
<1>9. TypeOK'
  <2>1. FlushedTypes' /\ ReviewTypes' /\ BoundTypes'
    BY <1>1, <1>2 DEF FlushedTypes, ReviewTypes, BoundTypes, reviewVars
  <2> QED BY <2>1, <1>1, <1>3, <1>7, <1>8, TypePartsNext DEF AnswersEnd
<1>10. \A e \in Events : IsRow(e)' =>
          \/ IsRow(e) /\ seq'[e] = seq[e] /\ (~db \/ Owner[e] # p)
          \/ flushed.db[e].delivery \in HasRow /\ seq'[e] = flushed.db[e].seq /\ db /\ Owner[e] = p
  BY <1>4, <1>6 DEF IsRow
<1>11. RowsOK'
  <2>1. \A e \in Events : IsRow(e)' => seq'[e] \in 1..MaxSeq
    BY <1>10 DEF SyncInv, RowsOK, FlushedOK
  <2>2. \A e, f \in Events : IsRow(e)' /\ IsRow(f)' /\ Owner[e] = Owner[f] /\ seq'[e] = seq'[f] => e = f
    BY <1>10 DEF SyncInv, RowsOK, FlushedOK
  <2> QED BY <2>1, <2>2 DEF RowsOK
<1>12. FlushedOK' /\ FlushedAcked'
  BY <1>1, <1>3 DEF SyncInv, FlushedOK, FlushedAcked
<1>13. AckedIsStored'
  <2>1. \A e \in Events : delivery'[e] \in Given => stored[e] # 0
    <3> TAKE e \in Events
    <3>1. CASE delivery'[e] = delivery[e]
      BY <3>1 DEF SyncInv, AckedIsStored, Given
    <3>2. CASE delivery'[e] = Back(e)
      BY <3>2, <1>4, DeliveryIs DEF SyncInv, FlushedAcked
    <3> QED BY <3>1, <3>2, <1>6
  <2> QED BY <2>1, <1>1, <1>3 DEF AckedIsStored, AnswersEnd, Given
<1>14. cuts' # 0
  BY <1>1, <1>2 DEF BoundTypes
<1> QED BY <1>3, <1>8, <1>9, <1>11, <1>12, <1>13, <1>14 DEF SyncInv

\* What the check-in answers was drawn by the PC, unless power was cut.
LEMMA CheckinKeeps ==
    ASSUME SyncInv, NEW p \in PCs, ServeCheckin(p) \/ ReceiveCheckin(p)
    PROVE  SyncInv'
<1>1. /\ UNCHANGED <<mergeVars, seq, delivery, lastSeq, flushed, reviewVars, boundVars, phase, batch,
                     reply, halt, late>>
  BY DEF ServeCheckin, ReceiveCheckin, outboxVars, pairingVars, senderVars
<1>2. PassTypes /\ RequestTypes /\ BoundTypes /\ OutboxTypes /\ FlushedTypes /\ ReviewTypes
  BY TypeParts DEF SyncInv
<1>3. MergeInv' /\ MergeTypeOK' /\ StoredOnce' /\ UNCHANGED <<stored, status>>
  BY <1>1, ServerIdle
<1>4. checkin[p] \in CheckinType
  BY <1>2 DEF PassTypes
<1>5. /\ checkin' \in [PCs -> CheckinType] /\ srvMax' \in [PCs -> Nat]
      /\ \A q \in PCs : q # p => checkin'[q] = checkin[q] /\ srvMax'[q] = srvMax[q]
      /\ Clean => /\ ~(checkin'[p].renumber) /\ checkin'[p].phase \in {"idle", "answer"}
                  /\ Drawn(p, checkin'[p].max) /\ Drawn(p, srvMax'[p])
  <2>1. CASE ServeCheckin(p)
    <3>1. PICK m \in 0..MaxSeq :
            /\ IsMax(m, {0} \cup {stored[e] : e \in Of(p)})
            /\ checkin' = [checkin EXCEPT ![p] =
                    [phase |-> "answer", max |-> m, renumber |-> renumber[p] > 0]]
            /\ UNCHANGED srvMax
      BY <2>1 DEF ServeCheckin, pairingVars
    <3> DEFINE c == [phase |-> "answer", max |-> m, renumber |-> renumber[p] > 0]
    <3>2. m \in Nat
      BY MergeAssumption
    <3>3. c \in CheckinType /\ c.max = m /\ c.renumber = (renumber[p] > 0) /\ c.phase = "answer"
      BY <3>2 DEF CheckinType
    <3> HIDE DEF c
    <3>4. checkin' = [checkin EXCEPT ![p] = c]
      BY <3>1 DEF c
    <3>5. ASSUME Clean PROVE Drawn(p, m) /\ ~(renumber[p] > 0) /\ Drawn(p, srvMax[p])
      <4>1. m = 0 \/ \E e \in Of(p) : m = stored[e]
        BY <3>1 DEF IsMax
      <4>2. Drawn(p, m)
        BY <3>5, <4>1 DEF Clean, CleanEvent, Named, Drawn, Of
      <4> QED BY <3>5, <4>2 DEF Clean, CleanPC
    <3> QED BY <3>1, <3>3, <3>4, <3>5, <1>2 DEF PassTypes, OutboxTypes
  <2>2. CASE ReceiveCheckin(p)
    <3> DEFINE c == IF checkin[p].renumber THEN [checkin[p] EXCEPT !.phase = "renumber"] ELSE NoCheckin
    <3>1. /\ checkin' = [checkin EXCEPT ![p] = c]
          /\ srvMax' = [srvMax EXCEPT ![p] = checkin[p].max]
      BY <2>2 DEF ReceiveCheckin
    <3>2. c \in CheckinType /\ (~checkin[p].renumber => c = NoCheckin)
      BY <1>4, EmptyRequest DEF CheckinType
    <3> HIDE DEF c
    <3>3. checkin[p].max \in Nat
      BY <1>4 DEF CheckinType
    <3>4. Clean => c = NoCheckin /\ Drawn(p, checkin[p].max)
      BY <3>2 DEF Clean, CleanPC
    <3>5. NoCheckin.max = 0 /\ NoCheckin.phase = "idle" /\ NoCheckin.renumber = FALSE
      BY DEF NoCheckin
    <3> QED BY <3>1, <3>2, <3>3, <3>4, <3>5, <1>2 DEF PassTypes, OutboxTypes, Drawn
  <2> QED BY <2>1, <2>2
<1>6. TypeOK'
  <2>1. PassTypes' /\ RequestTypes' /\ OutboxTypes' /\ FlushedTypes' /\ ReviewTypes' /\ BoundTypes'
    BY <1>1, <1>2, <1>5 DEF PassTypes, RequestTypes, OutboxTypes, FlushedTypes, ReviewTypes,
                            BoundTypes, reviewVars, boundVars
  <2> QED BY <2>1, <1>3, TypePartsNext
<1>7. RowsOK' /\ FlushedOK' /\ FlushedAcked' /\ BatchesOK' /\ AckedIsStored'
  BY <1>1, <1>3 DEF SyncInv, RowsOK, IsRow, FlushedOK, FlushedAcked, BatchesOK, AckedIsStored
<1>8. ASSUME cuts' = 0 PROVE Clean'
  <2>1. Clean
    BY <1>1, <1>8 DEF SyncInv, boundVars
  <2>2. \A q \in PCs : CleanPC(q)'
    BY <2>1, <1>1, <1>5 DEF Clean, CleanPC, Named, Drawn, IsRow, reviewVars
  <2>3. \A e \in Events : CleanEvent(e)'
    BY <2>1, <1>1, <1>3 DEF Clean, CleanEvent, Named, Drawn, IsRow
  <2>4. \A m \in late' : \A e \in Events : Named(e, m.batch[e])'
    BY <2>1, <1>1 DEF Clean, Named, IsRow
  <2> QED BY <2>2, <2>3, <2>4 DEF Clean
<1> QED BY <1>3, <1>6, <1>7, <1>8 DEF SyncInv

\* Renumbering keeps numbers apart; it is asked for only after a power cut.
LEMMA RenumberKeeps == ASSUME SyncInv, NEW p \in PCs, RenumberUnsent(p) PROVE SyncInv'
<1> DEFINE W     == Waiting(p)
           max   == checkin[p].max
           fresh == (max + 1)..(max + Cardinality(W))
           saving == [phase |-> "save", max |-> max + Cardinality(W), renumber |-> FALSE]
<1>1. /\ UNCHANGED <<mergeVars, delivery, lastSeq, srvMax, flushed, reviewVars, boundVars, phase,
                     batch, reply, halt, late>>
      /\ checkin[p].phase = "renumber" /\ max + Cardinality(W) <= MaxSeq
      /\ \/ checkin' = [checkin EXCEPT ![p] = NoCheckin]
         \/ checkin' = [checkin EXCEPT ![p] = saving]
      /\ IF \E e \in Rows(p) \ W : seq[e] \in fresh
         THEN UNCHANGED seq
         ELSE \E f \in [W -> fresh] :
                  /\ \A x, y \in W : seq[x] < seq[y] => f[x] < f[y]
                  /\ seq' = [e \in Events |-> IF e \in W THEN f[e] ELSE seq[e]]
  BY DEF RenumberUnsent, senderVars, pairingVars
<1>2. PassTypes /\ RequestTypes /\ BoundTypes /\ OutboxTypes /\ FlushedTypes /\ ReviewTypes
  BY TypeParts DEF SyncInv
<1>3. MergeInv' /\ MergeTypeOK' /\ StoredOnce' /\ UNCHANGED <<stored, status>>
  BY <1>1, ServerIdle
<1>4. cuts # 0 /\ cuts' = cuts
  BY <1>1 DEF SyncInv, Clean, CleanPC, boundVars
<1>5. W \subseteq Events /\ \A e \in W : IsRow(e) /\ Owner[e] = p
  BY DEF Waiting, Of, IsRow, HasRow
<1>6. Cardinality(W) \in Nat /\ max \in Nat /\ MaxSeq \in Nat
  <2>1. IsFiniteSet(W)
    BY <1>5, SyncAssumption, FS_Subset
  <2>2. checkin[p] \in CheckinType
    BY <1>2 DEF PassTypes
  <2> QED BY <2>1, <2>2, FS_CardinalityType, MergeAssumption DEF CheckinType
<1> HIDE DEF W, max
<1>6a. saving \in CheckinType
  BY <1>6 DEF CheckinType
<1> HIDE DEF saving
<1>7. \A k \in fresh : k \in 1..MaxSeq
  BY <1>1, <1>6
<1> HIDE DEF fresh
<1>8. /\ seq' \in [Events -> Nat]
      /\ \A e \in Events : IsRow(e) => seq'[e] \in 1..MaxSeq
      /\ \A e, f \in Events : IsRow(e) /\ IsRow(f) /\ Owner[e] = Owner[f] /\ seq'[e] = seq'[f] => e = f
  <2>1. CASE \E e \in Rows(p) \ W : seq[e] \in fresh
    BY <2>1, <1>1, <1>2 DEF OutboxTypes, SyncInv, RowsOK
  <2>2. CASE ~\E e \in Rows(p) \ W : seq[e] \in fresh
    <3>1. PICK g \in [W -> fresh] :
              /\ \A x, y \in W : seq[x] < seq[y] => g[x] < g[y]
              /\ seq' = [e \in Events |-> IF e \in W THEN g[e] ELSE seq[e]]
      BY <2>2, <1>1
    <3>3. \A e \in W : g[e] \in 1..MaxSeq /\ g[e] \in fresh /\ g[e] \in Nat
      BY <1>6, <1>7
    <3>4. \A e \in Events : seq'[e] = IF e \in W THEN g[e] ELSE seq[e]
      BY <3>1
    <3>5. seq' \in [Events -> Nat]
      BY <3>1, <3>3, <1>2 DEF OutboxTypes
    <3>6. \A e \in Events : IsRow(e) => seq'[e] \in 1..MaxSeq
      BY <3>3, <3>4 DEF SyncInv, RowsOK
    <3>7. ASSUME NEW e \in Events, NEW f \in Events, IsRow(e), IsRow(f), Owner[e] = Owner[f],
                 seq'[e] = seq'[f]
          PROVE  e = f
      <4>1. CASE e \in W /\ f \in W
        <5>1. seq[e] \in Nat /\ seq[f] \in Nat
          BY <1>2 DEF OutboxTypes
        <5>2. ~(seq[e] < seq[f]) /\ ~(seq[f] < seq[e])
          BY <4>1, <3>1, <3>3, <3>4, <3>7
        <5>3. seq[e] = seq[f]
          BY <5>1, <5>2
        <5> QED BY <5>3, <3>7 DEF SyncInv, RowsOK
      <4>2. CASE e \notin W /\ f \notin W
        BY <4>2, <3>4, <3>7 DEF SyncInv, RowsOK
      <4>3. \A x, y \in Events :
              x \in W /\ y \notin W /\ IsRow(y) /\ Owner[y] = Owner[x] => seq'[x] # seq'[y]
        <5> SUFFICES ASSUME NEW x \in W, NEW y \in Events, y \notin W, IsRow(y), Owner[y] = p
                     PROVE  g[x] # seq[y]
          BY <3>4, <1>5
        <5>1. y \in Rows(p) \ W
          BY DEF Rows, Of, IsRow, HasRow
        <5> QED BY <5>1, <2>2, <3>3
      <4> QED BY <4>1, <4>2, <4>3, <3>7
    <3> QED BY <3>5, <3>6, <3>7
  <2> QED BY <2>1, <2>2
<1>9. RowsOK'
  BY <1>1, <1>8 DEF RowsOK, IsRow
<1>10. TypeOK'
  <2>1. OutboxTypes'
    BY <1>1, <1>2, <1>8 DEF OutboxTypes
  <2>2. PassTypes'
    BY <1>1, <1>2, <1>6a, EmptyRequest DEF PassTypes
  <2>3. RequestTypes' /\ FlushedTypes' /\ ReviewTypes' /\ BoundTypes'
    BY <1>1, <1>2 DEF RequestTypes, FlushedTypes, ReviewTypes, BoundTypes, reviewVars, boundVars
  <2> QED BY <2>1, <2>2, <2>3, <1>3, TypePartsNext
<1>11. FlushedOK' /\ FlushedAcked' /\ BatchesOK' /\ AckedIsStored'
  BY <1>1, <1>3 DEF SyncInv, FlushedOK, FlushedAcked, BatchesOK, AckedIsStored
<1> QED BY <1>3, <1>4, <1>9, <1>10, <1>11 DEF SyncInv

\* Writing the last number to pairing.json touches nothing else.
LEMMA SaveKeeps == ASSUME SyncInv, NEW p \in PCs, SaveRenumbered(p) PROVE SyncInv'
<1>1. /\ UNCHANGED <<mergeVars, seq, delivery, srvMax, flushed, reviewVars, boundVars, phase, batch,
                     reply, halt, late>>
      /\ checkin[p].phase = "save"
      /\ lastSeq' = [lastSeq EXCEPT ![p] = checkin[p].max]
      /\ checkin' = [checkin EXCEPT ![p] = NoCheckin]
  BY DEF SaveRenumbered, outboxVars, senderVars
<1>2. PassTypes /\ RequestTypes /\ BoundTypes /\ OutboxTypes /\ FlushedTypes /\ ReviewTypes
  BY TypeParts DEF SyncInv
<1>3. MergeInv' /\ MergeTypeOK' /\ StoredOnce' /\ UNCHANGED <<stored, status>>
  BY <1>1, ServerIdle
<1>4. cuts # 0 /\ cuts' = cuts
  BY <1>1 DEF SyncInv, Clean, CleanPC, boundVars
<1>5. checkin[p].max \in Nat
  BY <1>2 DEF PassTypes, CheckinType
<1>6. OutboxTypes'
  BY <1>1, <1>2, <1>5 DEF OutboxTypes
<1>7. PassTypes'
  BY <1>1, <1>2, EmptyRequest DEF PassTypes
<1>8. RequestTypes' /\ FlushedTypes' /\ ReviewTypes' /\ BoundTypes'
  BY <1>1, <1>2 DEF RequestTypes, FlushedTypes, ReviewTypes, BoundTypes, reviewVars, boundVars
<1>9. TypeOK'
  BY <1>3, <1>6, <1>7, <1>8, TypePartsNext
<1>10. RowsOK' /\ FlushedOK' /\ FlushedAcked' /\ BatchesOK' /\ AckedIsStored'
  BY <1>1, <1>3 DEF SyncInv, RowsOK, IsRow, FlushedOK, FlushedAcked, BatchesOK, AckedIsStored
<1> QED BY <1>3, <1>4, <1>9, <1>10 DEF SyncInv

-----------------------------------------------------------------------------
(* The server's steps, and the merge they are steps of.                    *)

\* Stored events keep their numbers, rows and files are left alone.
LEMMA ServerKeeps ==
    ASSUME SyncInv, UNCHANGED <<seq, delivery, pairingVars, flushed, checkin, cuts>>,
           MergeInv', StoredOnce',
           \A e \in Events : stored[e] # 0 => stored'[e] = stored[e],
           RequestsEnd, PassTypes', ReviewTypes', BoundTypes',
           \A p \in PCs : \A e \in reply'[p] : stored'[e] # 0,
           Clean /\ cuts = 0 =>
                /\ \A e \in Events : Named(e, stored'[e])
                /\ \A p \in PCs : ~conflict'[p] /\ renumber'[p] = 0
    PROVE  SyncInv'
<1>1. RowsStay
  BY DEF RowsStay, RowsGrow, IsRow
<1>2. RequestTypes' /\ BatchesOK'
  BY RequestsEndOK
<1>3. TypeOK'
  <2>1. OutboxTypes' /\ FlushedTypes'
    BY TypeParts DEF SyncInv, OutboxTypes, FlushedTypes, pairingVars
  <2> QED BY <2>1, <1>2, TypePartsNext DEF MergeInv
<1>4. RowsOK' /\ FlushedOK'
  BY <1>1, RowsStayOK DEF SyncInv, FlushedOK
<1>5. FlushedAcked' /\ AckedIsStored'
  BY DEF SyncInv, FlushedAcked, AckedIsStored
<1>6. ASSUME cuts' = 0 PROVE Clean'
  <2>1. Clean /\ RowsGrow /\ cuts = 0
    BY <1>1, <1>6 DEF SyncInv, RowsStay
  <2>2. \A p \in PCs : CleanPC(p)'
    <3> TAKE p \in PCs
    <3>1. \A e \in Events : Named(e, batch[p][e])'
      BY <2>1, RequestsEndOK
    <3>2. ~conflict'[p] /\ renumber'[p] = 0
      BY <2>1
    <3> QED BY <2>1, <3>1, <3>2 DEF Clean, CleanPC, Drawn, IsRow, pairingVars
  <2>3. \A e \in Events : CleanEvent(e)'
    BY <2>1 DEF Clean, CleanEvent, Named, Drawn, IsRow
  <2>4. \A m \in late' : \A e \in Events : Named(e, m.batch[e])'
    BY <2>1, RequestsEndOK
  <2> QED BY <2>2, <2>3, <2>4 DEF Clean
<1> QED BY <1>2, <1>3, <1>4, <1>5, <1>6 DEF SyncInv

\* Before the first conflict every number is new, or the event's own.
LEMMA InsertFacts ==
    ASSUME SyncInv, NEW p \in PCs, NEW b \in [Events -> Nat], BatchOK(p, b),
           NEW A \in SUBSET Accepted(p, b), Insert(A, b)
    PROVE  /\ StoredOnce'
           /\ \A e \in Events : stored[e] # 0 => stored'[e] = stored[e]
           /\ \A e \in A : stored'[e] # 0
           /\ \A e \in Events : stored'[e] = stored[e] \/ stored'[e] = b[e]
           /\ \/ UNCHANGED <<stored, status>>
              \/ \E N \in SUBSET {e \in Events : stored[e] = 0} :
                    /\ N # {}
                    /\ \E c \in [N -> 1..MaxSeq] : Insertable(N, c) /\ Insert(N, c)
           /\ \E N \in SUBSET {e \in Events : stored[e] = 0} :
                \E c \in [N -> 1..MaxSeq] : Insertable(N, c) /\ Insert(N, c)
<1> DEFINE N == {e \in A : stored[e] = 0}
           c == [e \in N |-> b[e]]
<1>1. \A e \in A : e \in Events /\ b[e] # 0 /\ Owner[e] = p /\ b[e] \in 1..MaxSeq
  BY DEF Accepted, BatchOK
<1>2. \A e \in N : \A x \in Of(p) : stored[x] # b[e]
  <2> SUFFICES ASSUME NEW e \in N, NEW x \in Of(p), stored[x] = b[e] PROVE FALSE
    OBVIOUS
  <2>1. e \in Conflicting(p, b)
    BY <1>1 DEF Conflicting
  <2>2. b[e] < b[e]
    BY <2>1 DEF Accepted
  <2>3. b[e] \in Nat
    BY <1>1
  <2> QED BY <2>2, <2>3
<1>3. stored \in [Events -> Nat] /\ status \in [Events -> Statuses]
  BY DEF SyncInv, MergeInv, MergeTypeOK
<1>4. /\ \A e \in Events : stored'[e] = IF e \in N THEN b[e] ELSE stored[e]
      /\ stored' = [e \in Events |-> stored'[e]] /\ status' = [e \in Events |-> status'[e]]
  BY DEF Insert
<1>5. StoredOnce'
  <2> SUFFICES ASSUME NEW e \in Events, NEW f \in Events, Owner[e] = Owner[f],
                      stored'[e] = stored'[f], stored'[e] # 0
               PROVE  e = f
    BY DEF StoredOnce
  <2>1. CASE e \in N /\ f \in N
    BY <2>1, <1>1, <1>4 DEF BatchOK
  <2>2. CASE e \notin N /\ f \notin N
    BY <2>2, <1>4 DEF SyncInv, StoredOnce
  <2>3. CASE e \in N /\ f \notin N
    BY <2>3, <1>1, <1>2, <1>4 DEF Of
  <2>4. CASE e \notin N /\ f \in N
    BY <2>4, <1>1, <1>2, <1>4 DEF Of
  <2> QED BY <2>1, <2>2, <2>3, <2>4
<1>6. /\ \A e \in Events : stored[e] # 0 => stored'[e] = stored[e]
      /\ \A e \in A : stored'[e] # 0
      /\ \A e \in Events : stored'[e] = stored[e] \/ stored'[e] = b[e]
  BY <1>1, <1>4
<1>7. N \in SUBSET {e \in Events : stored[e] = 0} /\ c \in [N -> 1..MaxSeq]
  BY <1>1
<1>8. Insertable(N, c)
  <2>1. \A e \in N : c[e] = b[e]
    OBVIOUS
  <2>2. \A e \in N : c[e] # 0 /\ \A x \in Of(Owner[e]) : stored[x] # c[e]
    BY <2>1, <1>1, <1>2
  <2>3. \A e, f \in N : Owner[e] = Owner[f] /\ c[e] = c[f] => e = f
    BY <2>1, <1>1 DEF BatchOK
  <2> QED BY <2>2, <2>3 DEF Insertable
<1>9. Insert(N, c)
  <2>1. stored' = [e \in Events |-> IF e \in N /\ stored[e] = 0 THEN c[e] ELSE stored[e]]
    BY DEF Insert
  <2>2. status' = [e \in Events |->
            IF e \notin N \/ stored[e] # 0 THEN status[e]
            ELSE IF e \in Recordable THEN "received" ELSE "parked"]
    BY DEF Insert
  <2> QED BY <2>1, <2>2 DEF Insert
<1>10. N = {} => UNCHANGED <<stored, status>>
  BY <1>3 DEF Insert
<1> HIDE DEF N, c
<1> QED BY <1>5, <1>6, <1>7, <1>8, <1>9, <1>10

\* Without a power cut the numbers of a request are those of its rows, and
\* meet no other event on the server.
LEMMA NoConflictWhenClean ==
    ASSUME SyncInv, Clean, NEW p \in PCs, NEW b \in [Events -> Nat], BatchOK(p, b),
           \A e \in Events : Named(e, b[e])
    PROVE  Conflicting(p, b) = {}
<1> SUFFICES ASSUME NEW e \in Events, b[e] # 0, stored[e] = 0, NEW x \in Of(p), stored[x] = b[e]
             PROVE  FALSE
  BY DEF Conflicting
<1>1. IsRow(e) /\ seq[e] = b[e] /\ Owner[e] = p
  BY DEF Named, BatchOK
<1>2. x \in Events /\ Owner[x] = p
  BY DEF Of
<1>3. IsRow(x) /\ seq[x] = b[e]
  BY <1>2 DEF Clean, CleanEvent, Named
<1>4. x = e
  BY <1>1, <1>2, <1>3 DEF SyncInv, RowsOK
<1> QED BY <1>4

\* The whole upload handler, for a request that is under way or was aborted.
LEMMA UploadFacts ==
    ASSUME SyncInv, NEW p \in PCs, NEW b \in [Events -> Nat], BatchOK(p, b), Upload(p, b),
           UNCHANGED restarts, Clean => \A e \in Events : Named(e, b[e])
    PROVE  /\ [MergeNext]_mergeVars /\ MergeInv' /\ StoredOnce' /\ ReviewTypes'
           /\ \A e \in Events : stored[e] # 0 => stored'[e] = stored[e]
           /\ \A e \in Accepted(p, b) : stored'[e] # 0
           /\ Clean => /\ \A e \in Events : Named(e, stored'[e])
                       /\ \A q \in PCs : ~conflict'[q] /\ renumber'[q] = 0
<1> DEFINE A == Accepted(p, b)
           C == Conflicting(p, b)
<1>1. /\ StoredOnce'
      /\ \A e \in Events : stored[e] # 0 => stored'[e] = stored[e]
      /\ \A e \in A : stored'[e] # 0
      /\ \A e \in Events : stored'[e] = stored[e] \/ stored'[e] = b[e]
      /\ \/ UNCHANGED <<stored, status>>
         \/ \E N \in SUBSET {e \in Events : stored[e] = 0} :
               /\ N # {}
               /\ \E c \in [N -> 1..MaxSeq] : Insertable(N, c) /\ Insert(N, c)
  BY InsertFacts DEF Upload
<1>2. UNCHANGED <<attempts, nextExpected, trialEnd, round, bookings, restarts>>
  BY DEF Upload
<1>3. [MergeNext]_mergeVars
  BY <1>1, <1>2 DEF MergeNext, Arrive, mergeVars, storeVars
<1>4. MergeInv'
  BY <1>3, MergeStepPreserves DEF SyncInv
<1>5. ReviewTypes
  BY TypeParts DEF SyncInv
<1> DEFINE k == IF /\ C = {} /\ renumber[p] > 0
                   /\ \E e \in A : stored[e] = 0
                THEN renumber[p] - 1 ELSE renumber[p]
           f == (conflict[p] \/ C # {})
<1>6. conflict' = [conflict EXCEPT ![p] = f] /\ renumber' = [renumber EXCEPT ![p] = k]
  BY DEF Upload
<1>7. f \in BOOLEAN /\ k \in Nat /\ (renumber[p] = 0 => k = 0)
  BY <1>5 DEF ReviewTypes
<1>8. Clean => C = {}
  BY NoConflictWhenClean
<1>9. Clean => ~f
  BY <1>8 DEF Clean, CleanPC
<1> HIDE DEF k, f
<1>10. ReviewTypes'
  BY <1>5, <1>6, <1>7 DEF ReviewTypes
<1>11. ASSUME Clean
       PROVE  /\ \A e \in Events : Named(e, stored'[e])
              /\ \A q \in PCs : ~conflict'[q] /\ renumber'[q] = 0
  <2>1. \A e \in Events : Named(e, stored'[e])
    BY <1>1, <1>11 DEF Clean, CleanEvent, Named
  <2>2. \A q \in PCs : ~conflict[q] /\ renumber[q] = 0
    BY <1>11 DEF Clean, CleanPC
  <2> QED BY <2>1, <2>2, <1>5, <1>6, <1>7, <1>9, <1>11 DEF ReviewTypes
<1> QED BY <1>1, <1>3, <1>4, <1>10, <1>11

\* What is known of a request in flight, and of an aborted one.
LEMMA RequestFacts ==
    ASSUME SyncInv
    PROVE  /\ \A p \in PCs : /\ batch[p] \in [Events -> Nat] /\ BatchOK(p, batch[p])
                             /\ Clean => \A e \in Events : Named(e, batch[p][e])
           /\ \A m \in late : /\ m.pc \in PCs /\ m.batch \in [Events -> Nat] /\ BatchOK(m.pc, m.batch)
                              /\ Clean => \A e \in Events : Named(e, m.batch[e])
<1>1. RequestTypes
  BY TypeParts DEF SyncInv
<1> QED BY <1>1 DEF RequestTypes, SyncInv, BatchesOK, Clean, CleanPC

LEMMA ServeUploadKeeps ==
    ASSUME SyncInv, NEW p \in PCs, ServeUpload(p)
    PROVE  SyncInv' /\ [MergeNext]_mergeVars
<1>1. /\ UNCHANGED <<seq, delivery, pairingVars, flushed, checkin, late, restarts, faults, crashes, cuts>>
      /\ Upload(p, batch[p])
      /\ phase' = [phase EXCEPT ![p] = "answer"]
      /\ reply' = [reply EXCEPT ![p] = Accepted(p, batch[p])]
      /\ \E h \in BOOLEAN : halt' = [halt EXCEPT ![p] = h]
      /\ batch' = [batch EXCEPT ![p] = NoBatch]
  BY DEF ServeUpload, Upload, PassStep, outboxVars, boundVars
<1>2. PassTypes /\ RequestTypes /\ BoundTypes
  BY TypeParts DEF SyncInv
<1>3. /\ [MergeNext]_mergeVars /\ MergeInv' /\ StoredOnce' /\ ReviewTypes'
      /\ \A e \in Events : stored[e] # 0 => stored'[e] = stored[e]
      /\ \A e \in Accepted(p, batch[p]) : stored'[e] # 0
      /\ Clean => /\ \A e \in Events : Named(e, stored'[e])
                  /\ \A q \in PCs : ~conflict'[q] /\ renumber'[q] = 0
  BY <1>1, RequestFacts, UploadFacts
<1>4. RequestsEnd
  BY <1>1, <1>2, EmptyRequest DEF RequestsEnd, RequestTypes
<1>5. Accepted(p, batch[p]) \in SUBSET Events
  BY DEF Accepted
<1>6. PassTypes' /\ BoundTypes'
  BY <1>1, <1>2, <1>5 DEF PassTypes, BoundTypes, Phases
<1>7. \A q \in PCs : \A e \in reply'[q] : stored'[e] # 0
  <2>1. \A q \in PCs : \A e \in reply[q] : e \in Events /\ stored[e] # 0
    BY <1>2 DEF PassTypes, SyncInv, AckedIsStored
  <2>2. \A q \in PCs : reply'[q] = IF q = p THEN Accepted(p, batch[p]) ELSE reply[q]
    BY <1>1, <1>2 DEF PassTypes
  <2> QED BY <2>1, <2>2, <1>3
<1> QED BY <1>1, <1>3, <1>4, <1>6, <1>7, ServerKeeps

LEMMA ServeLateKeeps ==
    ASSUME SyncInv, NEW m \in late, ServeLate(m)
    PROVE  SyncInv' /\ [MergeNext]_mergeVars
<1>1. /\ UNCHANGED <<seq, delivery, pairingVars, flushed, checkin, restarts, faults, crashes, cuts,
                     phase, batch, reply, halt>>
      /\ Upload(m.pc, m.batch)
      /\ late' = late \ {m}
  BY DEF ServeLate, Upload, outboxVars, boundVars, senderVars
<1>2. PassTypes /\ RequestTypes /\ BoundTypes
  BY TypeParts DEF SyncInv
<1>3. /\ [MergeNext]_mergeVars /\ MergeInv' /\ StoredOnce' /\ ReviewTypes'
      /\ \A e \in Events : stored[e] # 0 => stored'[e] = stored[e]
      /\ Clean => /\ \A e \in Events : Named(e, stored'[e])
                  /\ \A q \in PCs : ~conflict'[q] /\ renumber'[q] = 0
  BY <1>1, RequestFacts, UploadFacts
<1>4. RequestsEnd
  BY <1>1, <1>2 DEF RequestsEnd, RequestTypes
<1>6. PassTypes' /\ BoundTypes'
  BY <1>1, <1>2 DEF PassTypes, BoundTypes
<1>7. \A q \in PCs : \A e \in reply'[q] : stored'[e] # 0
  <2>1. \A q \in PCs : \A e \in reply[q] : e \in Events /\ stored[e] # 0
    BY <1>2 DEF PassTypes, SyncInv, AckedIsStored
  <2> QED BY <2>1, <1>1, <1>3
<1> QED BY <1>1, <1>3, <1>4, <1>6, <1>7, ServerKeeps

\* The server stops inside the upload: what is stored by then stays stored.
LEMMA UploadCutKeeps ==
    ASSUME SyncInv, NEW p \in PCs, UploadCut(p)
    PROVE  SyncInv' /\ [MergeNext]_mergeVars
<1>1. /\ UNCHANGED <<seq, delivery, pairingVars, flushed, checkin, late, faults, crashes, cuts,
                     reply, halt, conflict, renumber>>
      /\ UNCHANGED <<attempts, nextExpected, bookings, trialEnd>>
      /\ restarts < MaxRestarts /\ restarts' = restarts + 1 /\ round' = NoRound
      /\ phase' = [phase EXCEPT ![p] = "poll"]
      /\ batch' = [batch EXCEPT ![p] = NoBatch]
  BY DEF UploadCut, PassStep, outboxVars, boundVars, reviewVars
<1>2. PassTypes /\ RequestTypes /\ BoundTypes /\ ReviewTypes
  BY TypeParts DEF SyncInv
<1>3. PICK n \in 1..(MaxSeq + 1) : Insert({e \in Accepted(p, batch[p]) : batch[p][e] < n}, batch[p])
  BY DEF UploadCut
<1> DEFINE A == {e \in Accepted(p, batch[p]) : batch[p][e] < n}
<1>4. A \in SUBSET Accepted(p, batch[p])
  OBVIOUS
<1> HIDE DEF A
<1>5. Insert(A, batch[p])
  BY <1>3 DEF A
<1>6. /\ StoredOnce'
      /\ \A e \in Events : stored[e] # 0 => stored'[e] = stored[e]
      /\ \A e \in Events : stored'[e] = stored[e] \/ stored'[e] = batch[p][e]
      /\ \E N \in SUBSET {e \in Events : stored[e] = 0} :
            \E c \in [N -> 1..MaxSeq] : Insertable(N, c) /\ Insert(N, c)
  BY <1>4, <1>5, RequestFacts, InsertFacts
<1>7. MergeNext
  BY <1>1, <1>6 DEF MergeNext, ArriveCut
<1>8. MergeInv'
  BY <1>7, MergeStepPreserves DEF SyncInv
<1>9. RequestsEnd
  BY <1>1, <1>2, EmptyRequest DEF RequestsEnd, RequestTypes
<1>10. PassTypes' /\ BoundTypes' /\ ReviewTypes'
  BY <1>1, <1>2 DEF PassTypes, BoundTypes, ReviewTypes, Phases
<1>11. \A q \in PCs : \A e \in reply'[q] : stored'[e] # 0
  <2>1. \A q \in PCs : \A e \in reply[q] : e \in Events /\ stored[e] # 0
    BY <1>2 DEF PassTypes, SyncInv, AckedIsStored
  <2> QED BY <2>1, <1>1, <1>6
<1>12. Clean => /\ \A e \in Events : Named(e, stored'[e])
                /\ \A q \in PCs : ~conflict'[q] /\ renumber'[q] = 0
  BY <1>1, <1>6 DEF Clean, CleanPC, CleanEvent, Named
<1> QED BY <1>1, <1>6, <1>7, <1>8, <1>9, <1>10, <1>11, <1>12, ServerKeeps

\* An admin answers a conflict, which there is only after a power cut.
LEMMA RequestRenumberKeeps == ASSUME SyncInv, NEW p \in PCs, RequestRenumber(p) PROVE SyncInv'
<1>1. /\ UNCHANGED <<seq, delivery, pairingVars, flushed, checkin, late, faults, crashes, cuts,
                     phase, batch, reply, halt, mergeVars>>
      /\ conflict[p]
      /\ conflict' = [conflict EXCEPT ![p] = FALSE]
      /\ renumber' = [renumber EXCEPT ![p] = @ + 1]
  BY DEF RequestRenumber, outboxVars, boundVars, senderVars
<1>2. PassTypes /\ RequestTypes /\ BoundTypes /\ ReviewTypes
  BY TypeParts DEF SyncInv
<1>3. MergeInv' /\ StoredOnce' /\ UNCHANGED <<stored, status>>
  BY <1>1, ServerIdle
<1>4. RequestsEnd
  BY <1>1, <1>2 DEF RequestsEnd, RequestTypes
<1>5. PassTypes' /\ BoundTypes' /\ ReviewTypes'
  BY <1>1, <1>2 DEF PassTypes, BoundTypes, ReviewTypes
<1>6. ~Clean
  BY <1>1 DEF Clean, CleanPC
<1>7. \A q \in PCs : \A e \in reply'[q] : stored'[e] # 0
  BY <1>1, <1>3 DEF SyncInv, AckedIsStored
<1> QED BY <1>1, <1>3, <1>4, <1>5, <1>6, <1>7, ServerKeeps

\* The merge stores nothing and leaves the PCs alone.
LEMMA MergingKeeps ==
    ASSUME SyncInv, Merging, UNCHANGED syncVars
    PROVE  SyncInv'
<1>1. UNCHANGED <<seq, delivery, pairingVars, flushed, checkin, late, faults, crashes, cuts,
                  phase, batch, reply, halt, conflict, renumber>>
  BY DEF syncVars, outboxVars, boundVars, senderVars, reviewVars
<1>2. PassTypes /\ RequestTypes /\ BoundTypes /\ ReviewTypes
  BY TypeParts DEF SyncInv
<1>3. MergeInv'
  BY MergeStepPreserves DEF MergeNext, SyncInv
<1>4. stored' = stored
  BY DEF Merging, RunRound, MergeEvent, MergeFailure, MergeCut, EndPass, SetTrial, storeVars
<1>5. StoredOnce'
  BY <1>4 DEF SyncInv, StoredOnce
<1>6. RequestsEnd
  BY <1>1, <1>2 DEF RequestsEnd, RequestTypes
<1>7. PassTypes' /\ BoundTypes' /\ ReviewTypes'
  BY <1>1, <1>2 DEF PassTypes, BoundTypes, ReviewTypes
<1>8. \A q \in PCs : \A e \in reply'[q] : stored'[e] # 0
  BY <1>1, <1>4 DEF SyncInv, AckedIsStored
<1>9. Clean => /\ \A e \in Events : Named(e, stored'[e])
               /\ \A q \in PCs : ~conflict'[q] /\ renumber'[q] = 0
  BY <1>1, <1>4 DEF Clean, CleanPC, CleanEvent
<1> QED BY <1>1, <1>3, <1>4, <1>5, <1>6, <1>7, <1>8, <1>9, ServerKeeps

-----------------------------------------------------------------------------
LEMMA SyncInitHolds == Init => SyncInv
<1> SUFFICES ASSUME Init PROVE SyncInv
  OBVIOUS
<1>1. MergeInv
  BY InitEstablishes DEF Init
<1>2. /\ \A e \in Events : seq[e] = 0 /\ delivery[e] = "none" /\ stored[e] = 0
      /\ \A e \in Events : flushed.db[e].delivery = "none"
      /\ \A p \in PCs : /\ lastSeq[p] = 0 /\ srvMax[p] = 0 /\ batch[p] = NoBatch /\ reply[p] = {}
                        /\ checkin[p] = NoCheckin /\ conflict[p] = FALSE /\ renumber[p] = 0
      /\ late = {}
  BY DEF Init, MergeInit
<1>3. TypeOK
  <2>1. OutboxTypes /\ ReviewTypes /\ BoundTypes
    BY DEF Init, OutboxTypes, ReviewTypes, BoundTypes, Delivery
  <2>2. FlushedTypes
    BY DEF Init, FlushedTypes, Delivery
  <2>3. PassTypes /\ RequestTypes
    BY EmptyRequest DEF Init, PassTypes, RequestTypes, Phases
  <2> QED BY <2>1, <2>2, <2>3, <1>1, TypeParts DEF MergeInv
<1>4. RowsOK /\ FlushedOK /\ FlushedAcked /\ StoredOnce
  BY <1>2 DEF RowsOK, IsRow, HasRow, FlushedOK, FlushedAcked, Given, StoredOnce
<1>5. BatchesOK /\ AckedIsStored
  BY <1>2, EmptyRequest DEF BatchesOK, AckedIsStored
<1>6. Clean
  <2>1. \A p \in PCs : CleanPC(p)
    BY <1>2, EmptyRequest DEF CleanPC, Drawn, Named, NoCheckin
  <2>2. \A e \in Events : CleanEvent(e)
    BY <1>2 DEF CleanEvent, Named, IsRow, HasRow
  <2> QED BY <2>1, <2>2, <1>2 DEF Clean
<1> QED BY <1>1, <1>3, <1>4, <1>5, <1>6 DEF SyncInv

\* A step keeps the invariant, and is a step of the merge or leaves it alone.
LEMMA SyncStep == SyncInv /\ [Next]_vars => SyncInv' /\ [MergeNext]_mergeVars
<1> SUFFICES ASSUME SyncInv, [Next]_vars PROVE SyncInv' /\ [MergeNext]_mergeVars
  OBVIOUS
<1>1. ASSUME NEW p \in PCs, PCStep(p) PROVE SyncInv' /\ UNCHANGED mergeVars
  <2>1. ASSUME NEW e \in Events, Record(p, e) \/ RecordCrash(p, e)
        PROVE  SyncInv' /\ UNCHANGED mergeVars
    BY <2>1, RecordKeeps DEF Record, RecordCrash, AppendRow
  <2>2. CASE Crash(p)
    BY <2>2, CrashKeeps DEF Crash
  <2>3. CASE FlushOutbox(p) \/ FlushPairing(p)
    BY <2>3, FlushKeeps DEF FlushOutbox, FlushPairing
  <2>4. CASE PowerCut(p)
    BY <2>4, PowerCutKeeps DEF PowerCut
  <2>5. CASE SendWaiting(p) \/ PollStatus(p) \/ NoStatus(p)
    BY <2>5, PollKeeps DEF SendWaiting, PollStatus, NoStatus
  <2>6. CASE SendBatch(p)
    BY <2>6, SendBatchKeeps DEF SendBatch
  <2>7. CASE ReceiveAnswer(p) \/ ReceiveStatus(p)
    BY <2>7, ReceiveKeeps DEF ReceiveAnswer, ReceiveStatus
  <2>8. CASE NoAnswer(p)
    BY <2>8, NoAnswerKeeps DEF NoAnswer
  <2>9. CASE ReceiveCheckin(p)
    BY <2>9, CheckinKeeps DEF ReceiveCheckin
  <2>10. CASE RenumberUnsent(p)
    BY <2>10, RenumberKeeps DEF RenumberUnsent
  <2>11. CASE SaveRenumbered(p)
    BY <2>11, SaveKeeps DEF SaveRenumbered
  <2> QED BY <1>1, <2>1, <2>2, <2>3, <2>4, <2>5, <2>6, <2>7, <2>8, <2>9, <2>10, <2>11 DEF PCStep
<1>2. ASSUME NEW p \in PCs, ServerStep(p) PROVE SyncInv' /\ [MergeNext]_mergeVars
  <2>1. CASE ServeUpload(p)
    BY <2>1, ServeUploadKeeps
  <2>2. CASE UploadCut(p)
    BY <2>2, UploadCutKeeps
  <2>3. CASE ServeCheckin(p)
    BY <2>3, CheckinKeeps DEF ServeCheckin
  <2>4. CASE RequestRenumber(p)
    BY <2>4, RequestRenumberKeeps DEF RequestRenumber
  <2> QED BY <1>2, <2>1, <2>2, <2>3, <2>4 DEF ServerStep
<1>3. ASSUME NEW m \in late, ServeLate(m) PROVE SyncInv' /\ [MergeNext]_mergeVars
  BY <1>3, ServeLateKeeps
<1>4. CASE Merging /\ UNCHANGED syncVars
  BY <1>4, MergingKeeps DEF MergeNext
<1>5. CASE UNCHANGED vars
  <2>1. UNCHANGED mergeVars /\ UNCHANGED syncVars
    BY <1>5 DEF vars
  <2>2. UNCHANGED <<mergeVars, seq, delivery, pairingVars, flushed, reviewVars, faults, crashes, cuts,
                    phase, batch, reply, halt, checkin, late>>
    BY <2>1 DEF syncVars, outboxVars, boundVars, senderVars
  <2>3. PassTypes /\ RequestTypes /\ BoundTypes /\ OutboxTypes
    BY TypeParts DEF SyncInv
  <2>4. RequestsEnd /\ BoundTypes'
    BY <2>2, <2>3 DEF RequestsEnd, RequestTypes, BoundTypes
  <2>5. AnswersEnd
    BY <2>2, <2>3 DEF AnswersEnd, PassTypes, SyncInv, AckedIsStored
  <2>6. SyncInv'
    BY <2>2, <2>3, <2>4, <2>5, PassKeeps DEF OutboxTypes
  <2> QED BY <2>1, <2>6
<1> QED BY <1>1, <1>2, <1>3, <1>4, <1>5 DEF Next

\* SyncInv holds in every state of the delivery: with lost, late and repeated
\* requests, crashes of PCs and the server, and power cuts.
THEOREM SyncInvariant == Spec => []SyncInv
<1> QED BY SyncInitHolds, SyncStep, PTL DEF Spec

\* Outbox, pairing.json, requests, answers and the review list keep their types.
THEOREM SyncTypes == Spec => []TypeOK
<1>1. SyncInv => TypeOK
  BY DEF SyncInv
<1> QED BY <1>1, SyncInvariant, PTL

\* A PC never gives up work the server does not store, whatever the network and
\* the power did to requests, answers and the PC's files (markAcked).
THEOREM AcknowledgedWorkIsStored == Spec => []AckedIsStored
<1>1. SyncInv => AckedIsStored
  BY DEF SyncInv
<1> QED BY <1>1, SyncInvariant, PTL

\* No number of a PC is stored for two events, also when a power cut made the PC
\* draw it twice (insertReceived and the unique index).
THEOREM NumbersAreStoredOnce == Spec => []StoredOnce
<1>1. SyncInv => StoredOnce
  BY DEF SyncInv
<1> QED BY <1>1, SyncInvariant, PTL

\* Without a power cut no upload ever meets a sequence conflict, however many
\* requests are lost, late or repeated and however often PC and server crash
\* (Recorder.record draws above outbox, lastSeq and serverMaxSeq).
THEOREM NoConflictWithoutPowerCut == Spec => []NoConflict
<1>1. SyncInv => NoConflict
  BY DEF SyncInv, NoConflict, Clean, CleanPC
<1> QED BY <1>1, SyncInvariant, PTL

\* Without a power cut a gap that stops the merge waits for an event that is
\* still in its PC's outbox.  (With one, sync_gap shows a gap nobody carries.)
THEOREM GapsAreCarried == Spec => [](cuts = 0 => GapIsCarried)
<1>1. SyncInv => (cuts = 0 => GapIsCarried)
  <2> SUFFICES ASSUME SyncInv, cuts = 0, NEW p \in PCs, NEW e \in Of(p), status[e] = "received",
                      NEW n \in 1..stored[e], \A x \in Of(p) : stored[x] # n
               PROVE  \E x \in Waiting(p) : seq[x] = n
    BY DEF GapIsCarried, Carried
  <2>1. Clean /\ e \in Events /\ Owner[e] = p
    BY DEF SyncInv, Of
  <2>2. stored[e] \in Nat /\ n # 0 /\ stored[e] # 0
    BY <2>1 DEF SyncInv, MergeInv, MergeTypeOK
  <2>3. IsRow(e) /\ seq[e] = stored[e]
    BY <2>1, <2>2 DEF Clean, CleanEvent, Named
  <2>4. PICK x \in Of(p) : IsRow(x) /\ seq[x] = n
    BY <2>1, <2>2, <2>3 DEF Clean, CleanEvent, Drawn
  <2>5. x \in Events /\ stored[x] = 0
    BY <2>1, <2>4 DEF Of, Clean, CleanEvent, Named
  <2>6. delivery[x] = "waiting"
    BY <2>4, <2>5 DEF IsRow, HasRow, SyncInv, AckedIsStored
  <2> QED BY <2>4, <2>6 DEF Waiting
<1> QED BY <1>1, SyncInvariant, PTL

\* What PCs, network and upload handler do to the server's store is what
\* OfflineMerge lets an upload do: delivery implements the merge's specification.
THEOREM SyncImplementsMerge == Spec => MergeSpec
<1>1. Init => MergeInit
  BY DEF Init
<1> QED BY <1>1, SyncInvariant, SyncStep, PTL DEF Spec, MergeSpec

\* End to end: an event a PC recorded is booked at most once, however often it
\* is sent, retried, renumbered or taken back by a power cut.
THEOREM DeliveryBooksOnce == Spec => []BookedOnce
<1> QED BY SyncImplementsMerge, MergeBooksOnce, PTL

\* End to end: every PC's work is booked in the order its numbers give it, under
\* every order in which requests arrive.
THEOREM DeliveryKeepsOwnOrder == Spec => []OwnOrder
<1> QED BY SyncImplementsMerge, MergeKeepsOwnOrder, PTL
=============================================================================
