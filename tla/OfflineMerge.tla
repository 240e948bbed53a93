---------------------------- MODULE OfflineMerge ----------------------------
(***************************************************************************)
(* The server's side of offline work: the stored events of a shop's paired *)
(* PCs (offline_events, offline_devices) and the merge rounds that book    *)
(* them (OfflineMergeProcessor, ReplayEngine in mode auto).                *)
(*                                                                         *)
(* Uploads are taken here by what they may do to the store: any events not *)
(* stored yet appear under numbers their PC does not use yet.  OfflineSync *)
(* models how they get there.  One turn of the merge loop runs without     *)
(* giving the event loop a turn, so it is one step; uploads, requests for  *)
(* another round, changes of the subscription and restarts come between.   *)
(***************************************************************************)
EXTENDS Naturals, FiniteSets

CONSTANTS
    PCs,          \* the shop's paired PCs
    Events,       \* the event ids
    Owner,        \* [Events -> PCs]: the PC that draws the id
    DeviceNo,     \* [PCs -> Nat]: device_no, the tie break of the merge
    Stamp,        \* [Events -> Nat]: corrected_at ?? occurred_at
    Recordable,   \* the events whose channel this server can book
    MaxAttempts,  \* OFFLINE_MAX_ATTEMPTS
    TrialEnds,    \* the instants at which the shop's free trial may end
    MaxSeq,       \* bound: the highest sequence number
    MaxRestarts   \* bound: how often the server stops

ASSUME MergeAssumption ==
    /\ Owner \in [Events -> PCs]
    /\ DeviceNo \in [PCs -> Nat]
    /\ Stamp \in [Events -> Nat]
    /\ Recordable \subseteq Events
    /\ TrialEnds \subseteq Nat
    /\ MaxAttempts \in Nat \ {0}
    /\ MaxSeq \in Nat
    /\ MaxRestarts \in Nat

\* the number of a PC decides between equal instants, so it is unique
ASSUME DeviceNoUnique ==
    \A p, q \in PCs : DeviceNo[p] = DeviceNo[q] => p = q

VARIABLES
    stored,       \* [Events -> Nat]: device_seq in offline_events, 0 = no row
    status,       \* [Events -> Statuses]
    attempts,     \* [Events -> Nat]
    nextExpected, \* [PCs -> Nat]: offline_devices.next_expected_seq
    trialEnd,     \* {} or {the instant at which the free trial ended}
    round,        \* the round in memory: heads, stopped PCs, re-run request
    bookings,     \* history: how often the event's effects were committed
    restarts      \* counts the server's restarts

storeVars == <<stored, status>>
mergeVars == <<storeVars, attempts, nextExpected, trialEnd, round, bookings, restarts>>

\* "parked": held, refused or skipped, whatever the review list says of it
Statuses == {"absent", "received", "booked", "parked"}
Outcomes == {"booked", "parked"}
NoRound  == [active |-> FALSE, head |-> [p \in PCs |-> 0], stopped |-> {},
             rerun |-> FALSE, trialEnd |-> {}]

Of(p)      == {e \in Events : Owner[e] = p}
Settled(e) == status[e] \in Outcomes
SettledAt(p, n) == \E e \in Of(p) : stored[e] = n /\ Settled(e)

MergeInit ==
    /\ stored = [e \in Events |-> 0]
    /\ status = [e \in Events |-> "absent"]
    /\ attempts = [e \in Events |-> 0]
    /\ nextExpected = [p \in PCs |-> 1]
    /\ trialEnd = {}
    /\ round = NoRound
    /\ bookings = [e \in Events |-> 0]
    /\ restarts = 0

-----------------------------------------------------------------------------
(* Storing events.                                                         *)

\* Variant: INSERT OR REPLACE, a resent event starts over
InsertReplaces(A, b) ==
    /\ stored' = [e \in Events |-> IF e \in A THEN b[e] ELSE stored[e]]
    /\ status' = [e \in Events |->
            IF e \notin A THEN status[e]
            ELSE IF e \in Recordable THEN "received" ELSE "parked"]

\* insertReceived() for the events A under the numbers b: an id that is stored
\* keeps its row, a channel this server does not book is stored as refused
Insert(A, b) ==
    /\ stored' = [e \in Events |-> IF e \in A /\ stored[e] = 0 THEN b[e] ELSE stored[e]]
    /\ status' = [e \in Events |->
            IF e \notin A \/ stored[e] # 0 THEN status[e]
            ELSE IF e \in Recordable THEN "received" ELSE "parked"]

\* the unique index: the new events A get numbers their PC does not have yet
Insertable(A, b) ==
    /\ \A e \in A : b[e] # 0 /\ \A x \in Of(Owner[e]) : stored[x] # b[e]
    /\ \A e, f \in A : Owner[e] = Owner[f] /\ b[e] = b[f] => e = f

\* an upload stores new events
Arrive == \E A \in SUBSET {e \in Events : stored[e] = 0} :
    /\ A # {}
    /\ \E b \in [A -> 1..MaxSeq] : Insertable(A, b) /\ Insert(A, b)
    /\ UNCHANGED <<attempts, nextExpected, trialEnd, round, bookings, restarts>>

\* the server stops inside an upload, after some of its inserts
ArriveCut == \E A \in SUBSET {e \in Events : stored[e] = 0} :
    /\ restarts < MaxRestarts
    /\ restarts' = restarts + 1
    /\ \E b \in [A -> 1..MaxSeq] : Insertable(A, b) /\ Insert(A, b)
    /\ round' = NoRound
    /\ UNCHANGED <<attempts, nextExpected, trialEnd, bookings>>

-----------------------------------------------------------------------------
(* Rounds.                                                                 *)

\* devicesWithReceived(), without the devices a technical failure stopped
WithWork(stopped) == {p \in PCs \ stopped : \E e \in Of(p) : status[e] = "received"}

\* merge() begins: the heads are the saved cursors
Pass(stopped, cursor) ==
    [active |-> TRUE, stopped |-> stopped, rerun |-> FALSE, trialEnd |-> trialEnd,
     head |-> [p \in PCs |-> IF p \in WithWork(stopped) THEN cursor[p] ELSE 0]]

\* runRound(): asked for by uploads, check-ins and the 60 s sweep; while one
\* runs the request is remembered
RunRound ==
    /\ WithWork({}) # {}
    /\ round' = IF round.active THEN [round EXCEPT !.rerun = TRUE]
                ELSE Pass({}, nextExpected)
    /\ UNCHANGED <<storeVars, attempts, nextExpected, trialEnd, bookings, restarts>>

\* Variant: the loop starts on the saved cursor and skips nothing
ScanNoSkip(h) == h = round.head

\* Variant: the loop skips only what is booked
ScanBookedOnly(h) == \A p \in PCs :
    LET BookedAt(n) == \E e \in Of(p) : stored[e] = n /\ status[e] = "booked"
    IN  IF round.head[p] = 0 THEN h[p] = 0
        ELSE /\ h[p] >= round.head[p]
             /\ ~BookedAt(h[p])
             /\ \A n \in round.head[p]..(h[p] - 1) : BookedAt(n)

\* the heads h after skipping what is settled already
Scan(h) == \A p \in PCs :
    IF round.head[p] = 0 THEN h[p] = 0
    ELSE /\ h[p] >= round.head[p]
         /\ ~SettledAt(p, h[p])
         /\ \A n \in round.head[p]..(h[p] - 1) : SettledAt(p, n)

TrialHeld(e) == \E t \in round.trialEnd : Stamp[e] >= t

\* Variant: by the clock alone, looking past the heads
CandidatesByClock(h) ==
    {e \in Events : h[Owner[e]] # 0 /\ stored[e] >= h[Owner[e]]
                      /\ status[e] = "received" /\ ~TrialHeld(e)}

\* the events the heads stand on; a gap has none
Candidates(h) ==
    {e \in Events : h[Owner[e]] # 0 /\ stored[e] = h[Owner[e]] /\ ~TrialHeld(e)}

\* smallest instant first, ties by PC number
Best(h) == {e \in Candidates(h) : \A f \in Candidates(h) :
                \/ Stamp[e] < Stamp[f]
                \/ Stamp[e] = Stamp[f] /\ DeviceNo[Owner[e]] <= DeviceNo[Owner[f]]}

\* Variant: PCs that take no part in the round are dropped too
DropsAll(h) == {p \in PCs : \A e \in Candidates(h) : Owner[e] # p}

\* a PC without a candidate (gap, end of its queue, held by the trial)
\* leaves the round and its cursor is saved
Drops(h) == {p \in PCs : h[p] # 0 /\ \A e \in Candidates(h) : Owner[e] # p}

\* the cursor of e's PC is saved; its head goes on to n, or leaves the round
Advance(h, e, cursor, n) ==
    /\ nextExpected' = [p \in PCs |->
            IF p = Owner[e] THEN cursor
            ELSE IF p \in Drops(h) THEN h[p] ELSE nextExpected[p]]
    /\ round' = [round EXCEPT
            !.head = [p \in PCs |-> IF p = Owner[e] THEN n
                                    ELSE IF p \in Drops(h) THEN 0 ELSE h[p]],
            !.stopped = IF n = 0 THEN @ \cup {Owner[e]} ELSE @]

\* ReplayEngine.process: the outcome and its effects commit together
Commit(e, o) ==
    /\ status' = [status EXCEPT ![e] = o]
    /\ bookings' = [bookings EXCEPT ![e] = IF o = "booked" THEN @ + 1 ELSE @]
    /\ UNCHANGED attempts

\* Variant: the attempt is not counted
FailUncounted(e, last) ==
    /\ last <=> attempts[e] + 1 >= MaxAttempts
    /\ status' = [status EXCEPT ![e] = IF last THEN "parked" ELSE @]
    /\ UNCHANGED <<attempts, bookings>>

\* technicalFailure(): the attempt counts, and the last one refuses the event
Fail(e, last) ==
    /\ last <=> attempts[e] + 1 >= MaxAttempts
    /\ attempts' = [attempts EXCEPT ![e] = @ + 1]
    /\ status' = [status EXCEPT ![e] = IF last THEN "parked" ELSE @]
    /\ UNCHANGED bookings

Heads == [PCs -> 0..(MaxSeq + 1)]

\* one turn of merge() with an outcome: the cursor moves past the event
MergeEvent ==
    /\ round.active
    /\ \E h \in Heads : Scan(h) /\ \E e \in Best(h) :
        /\ (\E o \in Outcomes : Commit(e, o)) \/ Fail(e, TRUE)
        /\ Advance(h, e, h[Owner[e]] + 1, h[Owner[e]] + 1)
    /\ UNCHANGED <<stored, trialEnd, restarts>>

\* Variant: the cursor moves past the event that failed
MergeFailureAdvances ==
    /\ round.active
    /\ \E h \in Heads : Scan(h) /\ \E e \in Best(h) :
        /\ Fail(e, FALSE)
        /\ Advance(h, e, h[Owner[e]] + 1, 0)
    /\ UNCHANGED <<stored, trialEnd, restarts>>

\* one turn that fails for a technical reason: the PC stops for this round
MergeFailure ==
    /\ round.active
    /\ \E h \in Heads : Scan(h) /\ \E e \in Best(h) :
        /\ Fail(e, FALSE)
        /\ Advance(h, e, h[Owner[e]], 0)
    /\ UNCHANGED <<stored, trialEnd, restarts>>

\* Variant: a restart starts every cursor over
MergeCutStartsOver ==
    /\ restarts < MaxRestarts
    /\ restarts' = restarts + 1
    /\ round.active
    /\ round' = NoRound
    /\ nextExpected' = [p \in PCs |-> 1]
    /\ UNCHANGED <<storeVars, attempts, trialEnd, bookings>>

\* the server stops after the outcome is committed (or the attempt counted)
\* and before the cursor is saved
MergeCut ==
    /\ restarts < MaxRestarts
    /\ restarts' = restarts + 1
    /\ round.active
    /\ round' = NoRound
    /\ \E h \in Heads : Scan(h) /\ \E e \in Best(h) :
        \/ \E o \in Outcomes : Commit(e, o)
        \/ \E last \in BOOLEAN : Fail(e, last)
        \/ attempts' = [attempts EXCEPT ![e] = @ + 1] /\ UNCHANGED <<status, bookings>>
    /\ UNCHANGED <<stored, nextExpected, trialEnd>>

\* no candidate is left: the cursors are saved, and merge() starts over if
\* another round was asked for
EndPass ==
    /\ round.active
    /\ \E h \in Heads :
        /\ Scan(h)
        /\ Candidates(h) = {}
        /\ nextExpected' = [p \in PCs |-> IF p \in Drops(h) THEN h[p] ELSE nextExpected[p]]
    /\ round' = IF round.rerun THEN Pass(round.stopped, nextExpected') ELSE NoRound
    /\ UNCHANGED <<storeVars, attempts, trialEnd, bookings, restarts>>

\* the free trial ends, or the owner activates or extends the subscription
SetTrial ==
    /\ trialEnd' \in {{}} \cup {{t} : t \in TrialEnds}
    /\ trialEnd' # trialEnd
    /\ UNCHANGED <<storeVars, attempts, nextExpected, round, bookings, restarts>>

Merging == RunRound \/ MergeEvent \/ MergeFailure \/ MergeCut \/ EndPass \/ SetTrial

MergeNext == Arrive \/ ArriveCut \/ Merging

MergeSpec == MergeInit /\ [][MergeNext]_mergeVars

\* The sweep asks for a round while events wait, and a round runs to its end.
\* Requests come from timers and merge() yields only after an event, so none
\* is served within a pass that processes nothing: a round that is asked for
\* again and again still ends (strong fairness).
MergeFairness ==
    /\ WF_mergeVars(RunRound)
    /\ WF_mergeVars(MergeEvent \/ MergeFailure \/ EndPass)
    /\ SF_mergeVars(EndPass /\ ~round'.active)

FairMergeSpec == MergeSpec /\ MergeFairness

-----------------------------------------------------------------------------
(* Properties                                                              *)

\* Every column and field holds what the schema and the code let it hold.
MergeTypeOK ==
    /\ stored \in [Events -> Nat]
    /\ status \in [Events -> Statuses]
    /\ \A e \in Events : status[e] = "absent" <=> stored[e] = 0
    /\ attempts \in [Events -> Nat]
    /\ nextExpected \in [PCs -> Nat \ {0}]
    /\ trialEnd \in SUBSET Nat
    /\ round \in [active : BOOLEAN, head : [PCs -> Nat], stopped : SUBSET PCs,
                  rerun : BOOLEAN, trialEnd : SUBSET Nat]
    /\ bookings \in [Events -> Nat]
    /\ restarts \in Nat

\* An event's effects are committed at most once, and exactly when its status
\* says booked: across re-runs, and a restart between the commit and the saved
\* cursor (merge() skips what is settled).
BookedOnce ==
    \A e \in Events : bookings[e] = IF status[e] = "booked" THEN 1 ELSE 0

\* A PC's own order wins over its clock and nothing is merged past a gap: when
\* the merge has settled an event, every lower number of that PC is stored and
\* settled (merge(): "never looking past a PC's head").
OwnOrder ==
    \A e \in Events : Settled(e) /\ e \in Recordable =>
        \A n \in 1..(stored[e] - 1) : SettledAt(Owner[e], n)

\* The saved cursor never passes an event that is missing or still `received`:
\* what next_expected_seq skipped would never be booked.
CursorSound ==
    \A p \in PCs : \A n \in 1..(nextExpected[p] - 1) : SettledAt(p, n)

\* An outcome is final for the merge: a settled event is never received again,
\* changed or moved to another number, by a duplicate upload or another round.
SettledForGood ==
    [][\A e \in Events : Settled(e) =>
            status'[e] = status[e] /\ stored'[e] = stored[e]]_mergeVars

\* next_expected_seq never goes back, also when a round resumes after a restart
\* from a cursor older than its outcomes.
CursorMonotone ==
    [][\A p \in PCs : nextExpected'[p] >= nextExpected[p]]_mergeVars

NoGapBelow(e) == \A n \in 1..(stored[e] - 1) : \E x \in Of(Owner[e]) : stored[x] = n

\* A received event without a gap below it is settled in the end: technical
\* failures, other PCs' gaps and restarts only delay it, and what the end of
\* the trial held is merged once the subscription is active again for good.
EventuallyMerged ==
    <>[](trialEnd = {}) =>
        \A e \in Events : (status[e] = "received" /\ NoGapBelow(e)) ~> Settled(e)
=============================================================================
