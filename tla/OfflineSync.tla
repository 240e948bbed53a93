---------------------------- MODULE OfflineSync ----------------------------
(***************************************************************************)
(* Delivery of offline work: paired PCs record actions in their outbox     *)
(* (recorder), upload them over a network that loses and delays requests   *)
(* and answers (sender, syncClient), and the server stores every event     *)
(* once (OfflineEventService.upload) and merges it (OfflineMerge).  A PC   *)
(* may crash, or lose power: the working copy runs with synchronous =      *)
(* NORMAL and pairing.json is renamed into place without a flush, so a     *)
(* power cut may take either file back to its last flushed image.          *)
(*                                                                         *)
(* Events are model values: the random event ids that Recorder.record      *)
(* draws.  An id is never drawn again, also when its row is lost.          *)
(***************************************************************************)
EXTENDS OfflineMerge

CONSTANTS
    BatchLimit,   \* UPLOAD_BATCH
    MaxFaults,    \* bound: lost, late or refused requests and lost answers
    MaxCrashes,   \* bound: crashes of a PC
    MaxPowerCuts, \* bound: power cuts
    MaxTroubles,  \* bound: faults, crashes and power cuts together
    MaxRenumbers  \* bound: renumber requests pending at once

ASSUME SyncAssumption ==
    /\ IsFiniteSet(Events)
    /\ BatchLimit \in Nat \ {0}
    /\ {MaxFaults, MaxCrashes, MaxPowerCuts, MaxTroubles, MaxRenumbers} \subseteq Nat

VARIABLES
    \* --- the PC's disk: the outbox of the working copy, and pairing.json
    seq,          \* [Events -> Nat]: device_seq of the outbox row, 0 = no row
    delivery,     \* [Events -> Delivery]: state of the outbox row
    lastSeq,      \* [PCs -> Nat]: pairing.json lastSeq
    srvMax,       \* [PCs -> Nat]: pairing.json serverMaxSeq
    flushed,      \* what a power cut goes back to: [db |-> .., pairing |-> ..]
    \* --- the PC's process: the upload pass and the check-in
    phase,        \* [PCs -> Phases]: where OfflineSender.pass stands
    batch,        \* [PCs -> [Events -> Nat]]: sequences in flight, 0 = not sent
    reply,        \* [PCs -> SUBSET Events]: acked ids, or the ids a poll settles
    halt,         \* [PCs -> BOOLEAN]: the answer carries a SEQ_CONFLICT
    checkin,      \* [PCs -> the check-in's answer in flight]
    late,         \* aborted uploads the network may still deliver
    \* --- the server's review list
    conflict,     \* [PCs -> BOOLEAN]: an open SEQ_CONFLICT item
    renumber,     \* [PCs -> Nat]: resolved conflict items with renumberPending
    \* --- bounds
    faults, crashes, cuts

outboxVars  == <<seq, delivery>>
pairingVars == <<lastSeq, srvMax>>
senderVars  == <<phase, batch, reply, halt>>
reviewVars  == <<conflict, renumber>>
boundVars   == <<faults, crashes, cuts>>
syncVars    == <<outboxVars, pairingVars, flushed, senderVars, checkin, late,
                 reviewVars, boundVars>>
vars        == <<syncVars, mergeVars>>

\* "acked": stored on the server, outcome unknown or still `received`;
\* "final": acked, and server_status is held, refused or skipped;
\* "lost": the row was committed and a power cut took it back
Delivery == {"none", "waiting", "acked", "final", "done", "lost"}
Phases   == {"idle", "list", "upload", "answer", "poll", "polled"}

NoBatch   == [e \in Events |-> 0]
NoCheckin == [phase |-> "idle", max |-> 0, renumber |-> FALSE]

Rows(p)    == {e \in Of(p) : delivery[e] \notin {"none", "lost"}}
Waiting(p) == {e \in Of(p) : delivery[e] = "waiting"}
IsMax(m, S) == m \in S /\ \A n \in S : n <= m

\* one more of this kind of trouble is within the bounds
May(count, max) == count < max /\ faults + crashes + cuts < MaxTroubles

Init ==
    /\ MergeInit
    /\ seq = [e \in Events |-> 0]
    /\ delivery = [e \in Events |-> "none"]
    /\ lastSeq = [p \in PCs |-> 0]
    /\ srvMax = [p \in PCs |-> 0]
    /\ flushed = [db |-> [e \in Events |-> [seq |-> 0, delivery |-> "none"]],
                  pairing |-> [p \in PCs |-> [last |-> 0, max |-> 0]]]
    /\ phase = [p \in PCs |-> "idle"]
    /\ batch = [p \in PCs |-> NoBatch]
    /\ reply = [p \in PCs |-> {}]
    /\ halt = [p \in PCs |-> FALSE]
    /\ checkin = [p \in PCs |-> NoCheckin]
    /\ late = {}
    /\ conflict = [p \in PCs |-> FALSE]
    /\ renumber = [p \in PCs |-> 0]
    /\ faults = 0 /\ crashes = 0 /\ cuts = 0

-----------------------------------------------------------------------------
(* Recording on the PC.                                                    *)

\* Variant: pairing.json alone, which a crash leaves behind the outbox
IsNextSeqOfPairing(p, n) == IsMax(n - 1, {0, lastSeq[p]})

\* Math.max(outbox.maxSeq(), p.lastSeq, p.serverMaxSeq) + 1
IsNextSeq(p, n) ==
    IsMax(n - 1, {0, lastSeq[p], srvMax[p]} \cup {seq[e] : e \in Rows(p)})

\* the transaction of Recorder.record: the action's rows and its outbox row
AppendRow(p, e, n) ==
    /\ Owner[e] = p
    /\ delivery[e] = "none"
    /\ IsNextSeq(p, n)
    /\ seq' = [seq EXCEPT ![e] = n]
    /\ delivery' = [delivery EXCEPT ![e] = "waiting"]
    /\ UNCHANGED <<srvMax, flushed, reviewVars, mergeVars,
                   faults, cuts>>

\* record() to its end: COMMIT, then onSeqUsed writes pairing.json
Record(p, e) == \E n \in 1..MaxSeq :
    /\ AppendRow(p, e, n)
    /\ lastSeq' = [lastSeq EXCEPT ![p] = IF n > @ THEN n ELSE @]
    /\ UNCHANGED <<senderVars, checkin, late, crashes>>

-----------------------------------------------------------------------------
(* The PC's process stops: what was in memory is gone, an upload in flight *)
(* may still reach the server.                                             *)

Stop(p) ==
    /\ phase' = [phase EXCEPT ![p] = "idle"]
    /\ batch' = [batch EXCEPT ![p] = NoBatch]
    /\ reply' = [reply EXCEPT ![p] = {}]
    /\ halt' = [halt EXCEPT ![p] = FALSE]
    /\ checkin' = [checkin EXCEPT ![p] = NoCheckin]
    /\ \/ late' = late
       \/ phase[p] = "upload" /\ late' = late \cup {[pc |-> p, batch |-> batch[p]]}

Crash(p) ==
    /\ May(crashes, MaxCrashes)
    /\ crashes' = crashes + 1
    /\ Stop(p)
    /\ UNCHANGED <<outboxVars, pairingVars, flushed, reviewVars, mergeVars, faults, cuts>>

\* record() stops between COMMIT and onSeqUsed
RecordCrash(p, e) ==
    /\ May(crashes, MaxCrashes)
    /\ crashes' = crashes + 1
    /\ \E n \in 1..MaxSeq : AppendRow(p, e, n)
    /\ Stop(p)
    /\ UNCHANGED lastSeq

\* the working copy's commits so far reach the disk
FlushOutbox(p) ==
    /\ May(cuts, MaxPowerCuts)
    /\ flushed' = [flushed EXCEPT !.db = [e \in Events |->
            IF Owner[e] = p THEN [seq |-> seq[e], delivery |-> delivery[e]] ELSE @[e]]]
    /\ UNCHANGED <<outboxVars, pairingVars, senderVars, checkin, late, reviewVars, mergeVars, boundVars>>

\* pairing.json as last written reaches the disk
FlushPairing(p) ==
    /\ May(cuts, MaxPowerCuts)
    /\ flushed' = [flushed EXCEPT !.pairing[p] = [last |-> lastSeq[p], max |-> srvMax[p]]]
    /\ UNCHANGED <<outboxVars, pairingVars, senderVars, checkin, late, reviewVars, mergeVars, boundVars>>

\* the outbox, pairing.json or both go back to what was flushed
PowerCut(p) ==
    /\ May(cuts, MaxPowerCuts)
    /\ cuts' = cuts + 1
    /\ Stop(p)
    /\ \E db, pairing \in BOOLEAN :
        /\ db \/ pairing
        /\ seq' = IF ~db THEN seq
                  ELSE [e \in Events |-> IF Owner[e] = p THEN flushed.db[e].seq ELSE seq[e]]
        /\ delivery' = IF ~db THEN delivery
                       ELSE [e \in Events |->
                               IF Owner[e] # p THEN delivery[e]
                               ELSE IF flushed.db[e].delivery = "none" /\ delivery[e] # "none"
                                      THEN "lost" ELSE flushed.db[e].delivery]
        /\ lastSeq' = IF pairing THEN [lastSeq EXCEPT ![p] = flushed.pairing[p].last] ELSE lastSeq
        /\ srvMax' = IF pairing THEN [srvMax EXCEPT ![p] = flushed.pairing[p].max] ELSE srvMax
    /\ UNCHANGED <<flushed, reviewVars, mergeVars, faults, crashes>>

-----------------------------------------------------------------------------
(* The upload pass (OfflineSender.pass): batches in sequence order until    *)
(* nothing waits or an answer stops it, then one status poll.              *)

PassStep(p, from, to) ==
    /\ phase[p] = from
    /\ phase' = [phase EXCEPT ![p] = to]

\* oldestOpenSeq() looks at these rows
Open(p) == {e \in Of(p) : delivery[e] = "acked"}

\* sendWaiting(): the 30 s tick or offline:send-now; callers share one pass.
\* A pass that would find nothing to send or to ask for is left out.
SendWaiting(p) ==
    /\ Waiting(p) \cup Open(p) # {}
    /\ PassStep(p, "idle", "list")
    /\ UNCHANGED <<outboxVars, pairingVars, flushed, batch, reply, halt, checkin,
                   late, reviewVars, mergeVars, boundVars>>

\* listWaiting(UPLOAD_BATCH): the lowest sequences that wait
ListWaiting(p) ==
    {e \in Waiting(p) : Cardinality({x \in Waiting(p) : seq[x] < seq[e]}) < BatchLimit}

\* Variant: the rows are given up when they are sent, not when they are acked
SendBatchAcks(p) ==
    /\ PassStep(p, "list", IF Waiting(p) = {} THEN "poll" ELSE "upload")
    /\ batch' = [batch EXCEPT ![p] = [e \in Events |->
                    IF e \in ListWaiting(p) THEN seq[e] ELSE 0]]
    /\ delivery' = [e \in Events |-> IF e \in ListWaiting(p) THEN "acked" ELSE delivery[e]]
    /\ UNCHANGED <<seq, pairingVars, flushed, reply, halt, checkin, late,
                   reviewVars, mergeVars, boundVars>>

SendBatch(p) ==
    /\ PassStep(p, "list", IF Waiting(p) = {} THEN "poll" ELSE "upload")
    /\ batch' = [batch EXCEPT ![p] = [e \in Events |->
                    IF e \in ListWaiting(p) THEN seq[e] ELSE 0]]
    /\ UNCHANGED <<outboxVars, pairingVars, flushed, reply, halt, checkin, late,
                   reviewVars, mergeVars, boundVars>>

\* markAcked(), then the next batch; a SEQ_CONFLICT or an answer that acked
\* nothing ends the pass
ReceiveAnswer(p) ==
    /\ PassStep(p, "answer", IF halt[p] \/ reply[p] = {} THEN "poll" ELSE "list")
    /\ delivery' = [e \in Events |->
            IF e \in reply[p] /\ delivery[e] = "waiting" THEN "acked" ELSE delivery[e]]
    /\ reply' = [reply EXCEPT ![p] = {}]
    /\ halt' = [halt EXCEPT ![p] = FALSE]
    /\ UNCHANGED <<seq, pairingVars, flushed, batch, checkin, late, reviewVars, mergeVars, boundVars>>

\* no answer in time: the request never arrived, is still under way, or its
\* answer was lost; also an upload refused as a whole (VERSION_AHEAD, a
\* revoked key), which stores nothing
NoAnswer(p) ==
    /\ May(faults, MaxFaults)
    /\ faults' = faults + 1
    /\ \/ PassStep(p, "upload", "poll") /\ late' = late
       \/ /\ PassStep(p, "upload", "poll")
          /\ late' = late \cup {[pc |-> p, batch |-> batch[p]]}
       \/ PassStep(p, "answer", "poll") /\ late' = late
    /\ batch' = [batch EXCEPT ![p] = NoBatch]
    /\ reply' = [reply EXCEPT ![p] = {}]
    /\ halt' = [halt EXCEPT ![p] = FALSE]
    /\ UNCHANGED <<outboxVars, pairingVars, flushed, checkin, reviewVars, mergeVars, crashes, cuts>>

\* Variant: asks above the oldest open sequence instead of from it
PollStatusAbove(p) ==
    LET outcomes == {e \in Of(p) : Settled(e) /\ \E x \in Open(p) : stored[e] > seq[x]}
    IN  /\ PassStep(p, "poll", IF outcomes = {} THEN "idle" ELSE "polled")
        /\ reply' = [reply EXCEPT ![p] = outcomes]
        /\ UNCHANGED <<outboxVars, pairingVars, flushed, batch, halt, checkin, late,
                       reviewVars, mergeVars, boundVars>>

\* refreshStatus(): GET /events/status?fromSeq=<oldest open sequence>, answered
\* by statusSince() from the server's own numbers; an answer without a settled
\* event changes nothing
PollStatus(p) ==
    LET outcomes == {e \in Of(p) : Settled(e) /\ \E x \in Open(p) : stored[e] >= seq[x]}
    IN  /\ PassStep(p, "poll", IF outcomes = {} THEN "idle" ELSE "polled")
        /\ reply' = [reply EXCEPT ![p] = outcomes]
        /\ UNCHANGED <<outboxVars, pairingVars, flushed, batch, halt, checkin, late,
                       reviewVars, mergeVars, boundVars>>

\* setServerStatus() for every outcome of the poll.  A settled outcome does
\* not change any more, so reading it here reads what the answer carried.
ReceiveStatus(p) ==
    /\ PassStep(p, "polled", "idle")
    /\ delivery' = [e \in Events |->
            IF e \notin reply[p] \cap Rows(p) THEN delivery[e]
            ELSE IF status[e] = "booked" THEN "done" ELSE "final"]
    /\ reply' = [reply EXCEPT ![p] = {}]
    /\ UNCHANGED <<seq, pairingVars, flushed, batch, halt, checkin, late, reviewVars, mergeVars, boundVars>>

\* the poll, or its answer, is lost
NoStatus(p) ==
    /\ May(faults, MaxFaults)
    /\ faults' = faults + 1
    /\ PassStep(p, "polled", "idle")
    /\ reply' = [reply EXCEPT ![p] = {}]
    /\ UNCHANGED <<outboxVars, pairingVars, flushed, batch, halt, checkin, late,
                   reviewVars, mergeVars, crashes, cuts>>

-----------------------------------------------------------------------------
(* The server's upload handler (OfflineEventService.upload).               *)

\* Variant: the number is not compared with the stored ones
ConflictingIgnored(p, b) == {}

\* insertReceived() finds the event's sequence under another event id
Conflicting(p, b) ==
    {e \in Events : b[e] # 0 /\ stored[e] = 0 /\ \E x \in Of(p) : stored[x] = b[e]}

\* the events before the first conflict, the only ones stored and acked;
\* one that is stored already is a duplicate and acked again
Accepted(p, b) ==
    {e \in Events : b[e] # 0 /\ \A c \in Conflicting(p, b) : b[e] < b[c]}

\* the whole handler: a conflict opens one item per PC, a clean upload that
\* stored something closes the oldest pending renumber
Upload(p, b) ==
    /\ Insert(Accepted(p, b), b)
    /\ conflict' = [conflict EXCEPT ![p] = @ \/ Conflicting(p, b) # {}]
    /\ renumber' = [renumber EXCEPT ![p] =
            IF /\ Conflicting(p, b) = {} /\ @ > 0
               /\ \E e \in Accepted(p, b) : stored[e] = 0
            THEN @ - 1 ELSE @]
    /\ UNCHANGED <<outboxVars, pairingVars, flushed, checkin, attempts, nextExpected,
                   trialEnd, round, bookings>>

ServeUpload(p) ==
    /\ PassStep(p, "upload", "answer")
    /\ Upload(p, batch[p])
    /\ reply' = [reply EXCEPT ![p] = Accepted(p, batch[p])]
    /\ halt' = [halt EXCEPT ![p] = Conflicting(p, batch[p]) # {}]
    /\ batch' = [batch EXCEPT ![p] = NoBatch]
    /\ UNCHANGED <<late, restarts, boundVars>>

\* an aborted request arrives after all; nobody reads the answer
ServeLate(m) ==
    /\ Upload(m.pc, m.batch)
    /\ late' = late \ {m}
    /\ UNCHANGED <<senderVars, restarts, boundVars>>

\* the server stops inside the loop: the inserts up to there are committed,
\* neither the conflict item nor the end of the renumber is
UploadCut(p) ==
    /\ restarts < MaxRestarts
    /\ restarts' = restarts + 1
    /\ PassStep(p, "upload", "poll")
    /\ \E n \in 1..(MaxSeq + 1) :
            Insert({e \in Accepted(p, batch[p]) : batch[p][e] < n}, batch[p])
    /\ batch' = [batch EXCEPT ![p] = NoBatch]
    /\ round' = NoRound
    /\ UNCHANGED <<outboxVars, pairingVars, flushed, reply, halt, checkin, late,
                   reviewVars, attempts, nextExpected, bookings, trialEnd, boundVars>>

-----------------------------------------------------------------------------
(* Check-in and the renumbering of unsent work.                            *)

\* OfflineDeviceService.checkin answers the PC's highest stored sequence and
\* whether an admin asked for a renumber; it may overlap an upload pass.  A
\* check-in that tells the PC nothing new is left out.
ServeCheckin(p) ==
    /\ checkin[p].phase = "idle"
    /\ \E m \in 0..MaxSeq :
        /\ IsMax(m, {0} \cup {stored[e] : e \in Of(p)})
        /\ m # srvMax[p] \/ renumber[p] > 0
        /\ checkin' = [checkin EXCEPT ![p] =
                [phase |-> "answer", max |-> m, renumber |-> renumber[p] > 0]]
    /\ UNCHANGED <<outboxVars, pairingVars, flushed, senderVars, late, reviewVars, mergeVars, boundVars>>

\* SyncClient.checkin stores serverMaxSeq, then waits for the outbox if it was
\* told to renumber
ReceiveCheckin(p) ==
    /\ checkin[p].phase = "answer"
    /\ srvMax' = [srvMax EXCEPT ![p] = checkin[p].max]
    /\ checkin' = [checkin EXCEPT ![p] =
            IF @.renumber THEN [@ EXCEPT !.phase = "renumber"] ELSE NoCheckin]
    /\ UNCHANGED <<outboxVars, lastSeq, flushed, senderVars, late, reviewVars, mergeVars, boundVars>>

\* renumberUnsent(max), its first commit: the waiting rows get max + 1,
\* max + 2, .. in their old order; the unique index refuses a number an acked
\* row has, and then nothing changes
RenumberUnsent(p) ==
    LET W     == Waiting(p)
        max   == checkin[p].max
        last  == max + Cardinality(W)
        fresh == (max + 1)..last
    IN  /\ checkin[p].phase = "renumber"
        /\ last <= MaxSeq
        /\ IF \E e \in Rows(p) \ W : seq[e] \in fresh
           THEN /\ checkin' = [checkin EXCEPT ![p] = NoCheckin]
                /\ seq' = seq
           ELSE /\ checkin' = [checkin EXCEPT ![p] =
                        [phase |-> "save", max |-> last, renumber |-> FALSE]]
                /\ \E f \in [W -> fresh] :
                    /\ \A x, y \in W : seq[x] < seq[y] => f[x] < f[y]
                    /\ seq' = [e \in Events |-> IF e \in W THEN f[e] ELSE seq[e]]
        /\ UNCHANGED <<delivery, pairingVars, flushed, senderVars, late, reviewVars, mergeVars, boundVars>>

\* its second: pairing.json gets the last number.  What was recorded in
\* between, and a crash here, leave pairing.json behind the outbox.
SaveRenumbered(p) ==
    /\ checkin[p].phase = "save"
    /\ lastSeq' = [lastSeq EXCEPT ![p] = checkin[p].max]
    /\ checkin' = [checkin EXCEPT ![p] = NoCheckin]
    /\ UNCHANGED <<outboxVars, srvMax, flushed, senderVars, late, reviewVars, mergeVars, boundVars>>

\* an admin resolves the open item of the Paired PCs panel
RequestRenumber(p) ==
    /\ conflict[p]
    /\ renumber[p] < MaxRenumbers
    /\ conflict' = [conflict EXCEPT ![p] = FALSE]
    /\ renumber' = [renumber EXCEPT ![p] = @ + 1]
    /\ UNCHANGED <<outboxVars, pairingVars, flushed, senderVars, checkin, late,
                   mergeVars, boundVars>>

-----------------------------------------------------------------------------
PCStep(p) ==
    \/ \E e \in Events : Record(p, e) \/ RecordCrash(p, e)
    \/ Crash(p) \/ FlushOutbox(p) \/ FlushPairing(p) \/ PowerCut(p)
    \/ SendWaiting(p) \/ SendBatch(p) \/ ReceiveAnswer(p) \/ NoAnswer(p)
    \/ PollStatus(p) \/ ReceiveStatus(p) \/ NoStatus(p)
    \/ ReceiveCheckin(p) \/ RenumberUnsent(p) \/ SaveRenumbered(p)

ServerStep(p) ==
    ServeUpload(p) \/ UploadCut(p) \/ ServeCheckin(p) \/ RequestRenumber(p)

Next ==
    \/ \E p \in PCs : PCStep(p) \/ ServerStep(p)
    \/ \E m \in late : ServeLate(m)
    \/ Merging /\ UNCHANGED syncVars

Spec == Init /\ [][Next]_vars

\* The PC's 30 s tick starts a pass while work waits, a pass goes on to its
\* end, the server answers; people, crashes and faults are never fair.
SyncFairness ==
    /\ \A p \in PCs :
        /\ WF_vars(SendWaiting(p)) /\ WF_vars(SendBatch(p)) /\ WF_vars(ServeUpload(p))
        /\ WF_vars(ReceiveAnswer(p)) /\ WF_vars(PollStatus(p)) /\ WF_vars(ReceiveStatus(p))
    /\ WF_vars(RunRound /\ UNCHANGED syncVars)
    /\ WF_vars((MergeEvent \/ MergeFailure \/ EndPass) /\ UNCHANGED syncVars)
    /\ SF_vars(EndPass /\ ~round'.active /\ UNCHANGED syncVars)

FairSpec == Spec /\ SyncFairness

-----------------------------------------------------------------------------
(* Properties                                                              *)

\* Every file, field and message holds what the code can put there.
TypeOK ==
    /\ MergeTypeOK
    /\ seq \in [Events -> Nat]
    /\ delivery \in [Events -> Delivery]
    /\ lastSeq \in [PCs -> Nat]
    /\ srvMax \in [PCs -> Nat]
    /\ flushed \in [db : [Events -> [seq : Nat, delivery : Delivery]],
                    pairing : [PCs -> [last : Nat, max : Nat]]]
    /\ phase \in [PCs -> Phases]
    /\ batch \in [PCs -> [Events -> Nat]]
    /\ reply \in [PCs -> SUBSET Events]
    /\ halt \in [PCs -> BOOLEAN]
    /\ checkin \in [PCs -> [phase : {"idle", "answer", "renumber", "save"},
                            max : Nat, renumber : BOOLEAN]]
    /\ \A m \in late : /\ m = [pc |-> m.pc, batch |-> m.batch]
                       /\ m.pc \in PCs /\ m.batch \in [Events -> Nat]
    /\ conflict \in [PCs -> BOOLEAN]
    /\ renumber \in [PCs -> Nat]
    /\ {faults, crashes, cuts} \subseteq Nat

\* A PC gives an event up (acked, final or done) only when the server stores
\* it, also when the acknowledgement in flight answers a request that was sent
\* twice, arrived late or was cut short by a restart (markAcked).
AckedIsStored ==
    /\ \A e \in Events : delivery[e] \in {"acked", "final", "done"} => stored[e] # 0
    /\ \A p \in PCs : \A e \in reply[p] : stored[e] # 0

\* One stored event per number of a PC: findBySeq, on which the merge rests,
\* has one answer whatever was resent, renumbered or taken back.
StoredOnce ==
    \A e, f \in Events :
        Owner[e] = Owner[f] /\ stored[e] = stored[f] /\ stored[e] # 0 => e = f

\* As long as no PC lost flushed state, the numbers it draws (outbox, lastSeq
\* and serverMaxSeq together) never meet another event on the server: no PC
\* stops sending with a SEQ_CONFLICT.
NoConflict == cuts = 0 => \A p \in PCs : ~conflict[p]

\* Somebody still carries number n of PC p to the server.
Carried(p, n) ==
    \/ \E e \in Waiting(p) : seq[e] = n
    \/ \E e \in Of(p) : batch[p][e] = n
    \/ \E m \in late : m.pc = p /\ \E e \in Events : m.batch[e] = n

\* "A missing sequence number stops that PC (a gap waits for the event to
\* arrive)" (OfflineMergeProcessor): the missing number below a received event
\* is still on its way.
GapIsCarried ==
    \A p \in PCs : \A e \in Of(p) : status[e] = "received" =>
        \A n \in 1..stored[e] :
            (\A x \in Of(p) : stored[x] # n) => Carried(p, n)

\* Recorded work is settled on the server, and the PC learns the outcome, in
\* the end, whatever is lost, late, crashed or restarted on the way.
EventuallyKnown ==
    <>[](trialEnd = {}) =>
        \A e \in Events : delivery[e] = "waiting" ~> delivery[e] \in {"final", "done"}
=============================================================================
