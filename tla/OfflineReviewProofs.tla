------------------------ MODULE OfflineReviewProofs ------------------------
(***************************************************************************)
(* Safety of the replay engine and the review list for any set of events,  *)
(* any dependencies between them and any number of stops of the server,    *)
(* and that together they implement OfflineLedger.                         *)
(*                                                                         *)
(* The engine looks at what an event's items and status say, never at its  *)
(* history.  EventInv says what they may be together, TaskInv what the     *)
(* request the server is in the middle of relies on.                       *)
(***************************************************************************)
EXTENDS OfflineReview, TLAPS

\* What the rows of one event may be together.
EventInv(e) ==
    /\ bookings[e] = IF Booked(e) THEN 1 ELSE 0
    /\ status[e] \in {"absent", "received", "booked", "applied", "dismissed"}
         => \A k \in Kinds : open[e][k] = 0
    /\ status[e] = "skipped" => match[e] = "certain"
    /\ open[e]["certain_duplicate"] > 0 => status[e] = "skipped"
    \* a release books only what has nothing but `waiting` items
    /\ status[e] = "held" /\ match[e] = "none" /\ e \notin Checkpoints
         => \A k \in Kinds \ {"waiting"} : open[e][k] = 0
    /\ link[e] # "none" => status[e] \in {"booked", "applied", "skipped", "dismissed"}
    /\ status[e] \in {"held", "refused"} /\ e \notin orphans
         => \E k \in Holding : open[e][k] > 0

\* The dependants still to be released are held.
TodoHeld == \A e \in task.todo : status[e] = "held"

\* An item is resolved only next to the fresh possible_duplicate item.
ResolveSafe == task.op = "resolve" =>
    /\ task.todo = {}
    /\ task.kind \subseteq Kinds \ {"possible_duplicate"}
    /\ \A e \in task.event : status[e] = "held" /\ open[e]["possible_duplicate"] > 0

\* The `waiting` items to be closed are there, and the event that was held or
\* refused again has another item.
StaleSafe == task.op = "stale" =>
    /\ task.kind \subseteq Nat
    /\ \A e, f \in task.event : e = f
    /\ \A e \in task.event, n \in task.kind :
        /\ e \notin task.todo
        /\ open[e]["waiting"] >= n
        /\ status[e] \in {"held", "refused"} =>
            \/ open[e]["waiting"] > n
            \/ \E k \in Holding \ {"waiting"} : open[e][k] > 0

TaskOK ==
    task \in [op : {"idle", "resolve", "release", "stale"}, event : SUBSET Events,
              kind : {task.kind}, released : SUBSET Events, tried : SUBSET Events,
              todo : SUBSET Events]

TaskInv == TaskOK /\ TodoHeld /\ ResolveSafe /\ StaleSafe

ReviewInv == TypeOK /\ TaskInv /\ \A e \in Events : EventInv(e)

-----------------------------------------------------------------------------
(* What ReplayEngine.process does to the rows: five effects.               *)

\* Only rows of e change.
Touches(e) == \A f \in Events \ {e} :
    /\ status'[f] = status[f] /\ open'[f] = open[f] /\ link'[f] = link[f]
    /\ bookings'[f] = bookings[f]

\* One more open item of kind k.
Adds(e, k) ==
    /\ k \in Kinds
    /\ open'[e][k] = open[e][k] + 1
    /\ \A j \in Kinds \ {k} : open'[e][j] = open[e][j]

\* Nothing is written but the attempt counter.
NoEffect(opts, r) ==
    /\ r = "technical" \/ (r = "failed" /\ opts.mode = "apply")
    /\ UNCHANGED <<status, open, link, bookings>>

\* The event is held or refused with an item of its reason.
PutEffect(e, opts, r) ==
    /\ opts.mode = "auto"
    /\ r \in {"held", "refused"}
    /\ Touches(e)
    /\ status'[e] = r
    /\ \/ r = "held" /\ Adds(e, "waiting") /\ (Blocked(e) \/ Unmapped(e))
       \/ r = "held" /\ Adds(e, "held_checkpoint") /\ e \in Checkpoints
       \/ r = "refused" /\ Adds(e, "refused")
       \/ r = "refused" /\ Adds(e, "version")
    /\ UNCHANGED <<link, bookings>>

\* The event is a certain duplicate (skipped) or a likely one (held).
DuplicateEffect(e, opts, r) ==
    /\ "duplicate" \notin opts.bypass
    /\ ~Blocked(e) /\ ~Unmapped(e)
    /\ Touches(e)
    /\ status'[e] = r
    /\ \/ r = "skipped" /\ match[e] = "certain" /\ Adds(e, "certain_duplicate")
       \/ r = "held" /\ match[e] = "likely" /\ Adds(e, "possible_duplicate")
    /\ UNCHANGED <<link, bookings>>

\* The event is booked on top of what it refers to.
BookEffect(e, opts, r) ==
    /\ r = "booked"
    /\ ~Held(e, opts) /\ ~Blocked(e) /\ ~Unmapped(e)
    /\ "duplicate" \in opts.bypass \/ match[e] = "none"
    /\ Touches(e)
    /\ status'[e] = IF opts.mode = "apply" THEN "applied" ELSE "booked"
    /\ link'[e] \in Links
    /\ \A k \in Kinds : open'[e][k] = IF k \in opts.closes THEN 0 ELSE open[e][k]
    /\ bookings' = [bookings EXCEPT ![e] = @ + 1]

Effect(e, opts, r) ==
    \/ NoEffect(opts, r)
    \/ PutEffect(e, opts, r)
    \/ DuplicateEffect(e, opts, r)
    \/ BookEffect(e, opts, r)

\* The columns an event's booking may change keep their types.
RowsOK ==
    /\ status \in [Events -> Statuses]
    /\ open \in [Events -> [Kinds -> 0..MaxOpen]]
    /\ link \in [Events -> Links]
    /\ attempts \in [Events -> 0..MaxAttempts]
    /\ bookings \in [Events -> Nat]

LEMMA InsertAdds ==
  ASSUME RowsOK, NEW e \in Events, NEW k \in Kinds, Insert(e, k)
  PROVE  /\ open' \in [Events -> [Kinds -> 0..MaxOpen]]
         /\ Adds(e, k)
         /\ \A f \in Events \ {e} : open'[f] = open[f]
<1>1. open[e] \in [Kinds -> 0..MaxOpen] /\ MaxOpen \in Nat
  BY ReviewAssumption DEF RowsOK
<1>2. open' = [open EXCEPT ![e] = [open[e] EXCEPT ![k] = open[e][k] + 1]]
  BY DEF Insert
<1>3. [open[e] EXCEPT ![k] = open[e][k] + 1] \in [Kinds -> 0..MaxOpen]
  BY <1>1 DEF Insert
<1>4. QED
  BY <1>1, <1>2, <1>3 DEF RowsOK, Adds

LEMMA KindFacts ==
  /\ {"waiting", "held_checkpoint", "refused", "version", "certain_duplicate",
      "possible_duplicate"} = Kinds
  /\ Holding = Kinds \ {"certain_duplicate"}
BY DEF Kinds, Holding

\* hold and refuse, with the item of their reason
LEMMA PutHasEffect ==
  ASSUME RowsOK, NEW e \in Events, NEW opts, NEW to, NEW k, NEW r,
         Put(e, opts, to, k, r),
         \/ to = "held" /\ k = "waiting" /\ (Blocked(e) \/ Unmapped(e))
         \/ to = "held" /\ k = "held_checkpoint" /\ e \in Checkpoints
         \/ to = "refused" /\ k \in {"refused", "version"}
  PROVE  RowsOK' /\ (NoEffect(opts, r) \/ PutEffect(e, opts, r))
<1>1. CASE UNCHANGED replayVars /\ r = "failed" /\ opts.mode = "apply"
  BY <1>1 DEF replayVars, RowsOK, NoEffect
<1>2. CASE /\ opts.mode = "auto"
           /\ r = to
           /\ status' = [status EXCEPT ![e] = to]
           /\ Insert(e, k)
           /\ UNCHANGED <<link, attempts, bookings>>
  <2>1. k \in Kinds
    BY KindFacts
  <2>2. /\ open' \in [Events -> [Kinds -> 0..MaxOpen]]
        /\ Adds(e, k)
        /\ \A f \in Events \ {e} : open'[f] = open[f]
    BY <1>2, <2>1, InsertAdds
  <2>3. status' \in [Events -> Statuses]
    BY <1>2 DEF RowsOK, Statuses
  <2>4. Touches(e) /\ status'[e] = r
    BY <1>2, <2>2 DEF RowsOK, Touches
  <2>5. RowsOK'
    BY <1>2, <2>2, <2>3 DEF RowsOK
  <2>6. PutEffect(e, opts, r)
    BY <1>2, <2>2, <2>4 DEF PutEffect
  <2>7. QED
    BY <2>5, <2>6
<1>3. QED
  BY <1>1, <1>2 DEF Put

\* technicalFailure, up to the attempt that refuses the event
LEMMA TechnicalHasEffect ==
  ASSUME RowsOK, NEW e \in Events, NEW opts, NEW r, Technical(e, opts, r)
  PROVE  /\ RowsOK'
         /\ NoEffect(opts, r) \/ PutEffect(e, opts, r)
         /\ opts.mode = "auto" => attempts'[e] > 0
         /\ \A f \in Events \ {e} : attempts'[f] = attempts[f]
<1>1. CASE UNCHANGED replayVars /\ r = "technical" /\ opts.mode = "apply"
  BY <1>1 DEF replayVars, RowsOK, NoEffect
<1>2. CASE /\ opts.mode = "auto"
           /\ attempts' = [attempts EXCEPT ![e] = IF @ < MaxAttempts THEN @ + 1 ELSE @]
           /\ UNCHANGED <<link, bookings>>
           /\ \/ r = "technical" /\ UNCHANGED <<status, open>>
              \/ /\ r = "refused"
                 /\ status' = [status EXCEPT ![e] = "refused"]
                 /\ Insert(e, "refused")
  <2>1. /\ attempts' \in [Events -> 0..MaxAttempts]
        /\ attempts'[e] > 0
        /\ \A f \in Events \ {e} : attempts'[f] = attempts[f]
    BY <1>2, ReviewAssumption DEF RowsOK
  <2>2. CASE r = "technical" /\ UNCHANGED <<status, open>>
    BY <1>2, <2>1, <2>2 DEF RowsOK, NoEffect
  <2>3. CASE /\ r = "refused"
             /\ status' = [status EXCEPT ![e] = "refused"]
             /\ Insert(e, "refused")
    <3>1. /\ open' \in [Events -> [Kinds -> 0..MaxOpen]]
          /\ Adds(e, "refused")
          /\ \A f \in Events \ {e} : open'[f] = open[f]
      BY <2>3, InsertAdds, KindFacts
    <3>2. status' \in [Events -> Statuses] /\ status'[e] = "refused"
      BY <2>3 DEF RowsOK, Statuses
    <3>3. Touches(e)
      BY <1>2, <2>3, <3>1 DEF RowsOK, Touches
    <3>4. PutEffect(e, opts, r)
      BY <1>2, <2>3, <3>1, <3>2, <3>3 DEF PutEffect
    <3>5. QED
      BY <1>2, <2>1, <3>1, <3>2, <3>4 DEF RowsOK
  <2>4. QED
    BY <1>2, <2>2, <2>3
<1>3. QED
  BY <1>1, <1>2 DEF Technical

\* the booking window
LEMMA WindowHasEffect ==
  ASSUME RowsOK, NEW e \in Events, NEW opts, NEW r, Window(e, opts, r),
         ~Held(e, opts), ~Blocked(e), ~Unmapped(e)
  PROVE  /\ RowsOK'
         /\ DuplicateEffect(e, opts, r) \/ BookEffect(e, opts, r)
         /\ UNCHANGED attempts
<1>1. CASE /\ "duplicate" \notin opts.bypass /\ match[e] = "certain"
           /\ r = "skipped"
           /\ status' = [status EXCEPT ![e] = "skipped"]
           /\ Insert(e, "certain_duplicate")
           /\ UNCHANGED <<link, attempts, bookings>>
  <2>1. /\ open' \in [Events -> [Kinds -> 0..MaxOpen]]
        /\ Adds(e, "certain_duplicate")
        /\ \A f \in Events \ {e} : open'[f] = open[f]
    BY <1>1, InsertAdds, KindFacts
  <2>2. status' \in [Events -> Statuses] /\ status'[e] = "skipped"
    BY <1>1 DEF RowsOK, Statuses
  <2>3. Touches(e)
    BY <1>1, <2>1 DEF RowsOK, Touches
  <2>4. DuplicateEffect(e, opts, r)
    BY <1>1, <2>1, <2>2, <2>3 DEF DuplicateEffect
  <2>5. QED
    BY <1>1, <2>1, <2>2, <2>4 DEF RowsOK
<1>2. CASE /\ "duplicate" \notin opts.bypass /\ match[e] = "likely"
           /\ r = "held"
           /\ status' = [status EXCEPT ![e] = "held"]
           /\ Insert(e, "possible_duplicate")
           /\ UNCHANGED <<link, attempts, bookings>>
  <2>1. /\ open' \in [Events -> [Kinds -> 0..MaxOpen]]
        /\ Adds(e, "possible_duplicate")
        /\ \A f \in Events \ {e} : open'[f] = open[f]
    BY <1>2, InsertAdds, KindFacts
  <2>2. status' \in [Events -> Statuses] /\ status'[e] = "held"
    BY <1>2 DEF RowsOK, Statuses
  <2>3. Touches(e)
    BY <1>2, <2>1 DEF RowsOK, Touches
  <2>4. DuplicateEffect(e, opts, r)
    BY <1>2, <2>1, <2>2, <2>3 DEF DuplicateEffect
  <2>5. QED
    BY <1>2, <2>1, <2>2, <2>4 DEF RowsOK
<1>3. CASE /\ "duplicate" \in opts.bypass \/ match[e] = "none"
           /\ r = "booked"
           /\ status' = [status EXCEPT ![e] = IF opts.mode = "apply" THEN "applied" ELSE "booked"]
           /\ MapBooking(e)
           /\ open' = [open EXCEPT ![e] = [k \in Kinds |-> IF k \in opts.closes THEN 0 ELSE @[k]]]
           /\ bookings' = [bookings EXCEPT ![e] = @ + 1]
           /\ UNCHANGED attempts
  <2>1. open[e] \in [Kinds -> 0..MaxOpen] /\ MaxOpen \in Nat
    BY ReviewAssumption DEF RowsOK
  <2>2. [k \in Kinds |-> IF k \in opts.closes THEN 0 ELSE open[e][k]] \in [Kinds -> 0..MaxOpen]
    BY <2>1
  <2>3. /\ open' \in [Events -> [Kinds -> 0..MaxOpen]]
        /\ \A k \in Kinds : open'[e][k] = IF k \in opts.closes THEN 0 ELSE open[e][k]
        /\ \A f \in Events \ {e} : open'[f] = open[f]
    BY <1>3, <2>2 DEF RowsOK
  <2>4. /\ status' \in [Events -> Statuses]
        /\ status'[e] = IF opts.mode = "apply" THEN "applied" ELSE "booked"
    BY <1>3 DEF RowsOK, Statuses
  <2>5. /\ link' \in [Events -> Links] /\ link'[e] \in Links
        /\ \A f \in Events \ {e} : link'[f] = link[f]
    BY <1>3 DEF RowsOK, MapBooking
  <2>6. bookings' \in [Events -> Nat]
    BY <1>3 DEF RowsOK
  <2>7. Touches(e)
    BY <1>3, <2>3, <2>5 DEF RowsOK, Touches
  <2>8. BookEffect(e, opts, r)
    BY <1>3, <2>3, <2>4, <2>5, <2>7 DEF BookEffect
  <2>9. QED
    BY <1>3, <2>3, <2>4, <2>5, <2>6, <2>8 DEF RowsOK
<1>4. QED
  BY <1>1, <1>2, <1>3 DEF Window

LEMMA ProcessHasEffect ==
  ASSUME RowsOK, NEW e \in Events, NEW opts, NEW r, Process(e, opts, r)
  PROVE  RowsOK' /\ Effect(e, opts, r)
<1>1. CASE Put(e, opts, "refused", "version", r)
  BY <1>1, PutHasEffect DEF Effect
<1>2. CASE Held(e, opts) /\ Put(e, opts, "held", "held_checkpoint", r)
  BY <1>2, PutHasEffect DEF Effect, Held
<1>3. CASE Put(e, opts, "refused", "refused", r)
  BY <1>3, PutHasEffect DEF Effect
<1>4. CASE (Blocked(e) \/ Unmapped(e)) /\ Put(e, opts, "held", "waiting", r)
  BY <1>4, PutHasEffect DEF Effect
<1>5. CASE ~Held(e, opts) /\ ~Blocked(e) /\ ~Unmapped(e) /\ Window(e, opts, r)
  BY <1>5, WindowHasEffect DEF Effect
<1>6. CASE Technical(e, opts, r)
  BY <1>6, TechnicalHasEffect DEF Effect
<1>7. QED
  BY <1>1, <1>2, <1>3, <1>4, <1>5, <1>6 DEF Process

-----------------------------------------------------------------------------
(* The invariant of an event, whoever processes it.                        *)

\* An event the engine may process, and what a booking closes.
LEMMA ProcessKeepsEvents ==
  ASSUME RowsOK, \A f \in Events : EventInv(f),
         NEW e \in Events, NEW opts, NEW r, Effect(e, opts, r), RowsOK',
         UNCHANGED match, UNCHANGED orphans,
         status[e] \in {"received", "held", "refused", "skipped"},
         opts.mode = "auto" => status[e] \in {"received", "held"},
         BookEffect(e, opts, r) => \A k \in Kinds : open'[e][k] = 0
  PROVE  \A f \in Events : EventInv(f)'
<1>1. CASE NoEffect(opts, r)
  BY <1>1 DEF NoEffect, EventInv, Booked
<1>2. CASE ~NoEffect(opts, r)
  <2>1. Touches(e)
    BY <1>2 DEF Effect, PutEffect, DuplicateEffect, BookEffect
  <2>2. ASSUME NEW f \in Events \ {e} PROVE EventInv(f)'
    BY <2>1, <2>2 DEF Touches, EventInv, Booked
  <2>3. EventInv(e)'
    <3>0. open[e] \in [Kinds -> 0..MaxOpen] /\ MaxOpen \in Nat
      BY ReviewAssumption DEF RowsOK
    <3>1. CASE PutEffect(e, opts, r)
      BY <3>0, <3>1, KindFacts DEF PutEffect, Adds, EventInv, Booked
    <3>2. CASE DuplicateEffect(e, opts, r)
      BY <3>0, <3>2, KindFacts DEF DuplicateEffect, Adds, EventInv, Booked
    <3>3. CASE BookEffect(e, opts, r)
      <4>0. bookings[e] = 0
        BY DEF EventInv, Booked
      <4>1. bookings'[e] = 1
        BY <3>3, <4>0 DEF BookEffect, RowsOK
      <4>2. status'[e] \in {"applied", "booked"}
        BY <3>3 DEF BookEffect
      <4>3. QED
        BY <3>3, <4>1, <4>2, KindFacts DEF EventInv, Booked
    <3>4. QED
      BY <1>2, <3>1, <3>2, <3>3 DEF Effect
  <2>4. QED
    BY <2>2, <2>3
<1>3. QED
  BY <1>1, <1>2

\* Nothing of an event changes.
LEMMA SameEvents ==
  ASSUME \A f \in Events : EventInv(f), UNCHANGED <<status, open, link, bookings, match, orphans>>
  PROVE  \A f \in Events : EventInv(f)'
BY DEF EventInv, Booked

LEMMA IdleTask ==
  /\ Idle = [op |-> "idle", event |-> {}, kind |-> {}, released |-> {}, tried |-> {}, todo |-> {}]
  /\ \A e \in Events : Release(e) = [op |-> "release", event |-> {}, kind |-> {}, released |-> {e},
                          tried |-> {}, todo |-> {}]
<1>1. Idle = [op |-> "idle", event |-> {}, kind |-> {}, released |-> {}, tried |-> {}, todo |-> {}]
  BY DEF Idle
<1>2. ASSUME NEW e \in Events
      PROVE  Release(e) = [op |-> "release", event |-> {}, kind |-> {}, released |-> {e},
                           tried |-> {}, todo |-> {}]
  BY DEF Idle, Release
<1>3. QED
  BY <1>1, <1>2

\* A request that has nothing to do, or only starts to release, relies on nothing.
LEMMA FreshTask ==
  ASSUME NEW e \in Events, task' = Idle \/ task' = Release(e)
  PROVE  TaskInv' /\ task'.op \in {"idle", "resolve", "release", "stale"}
<1>1. CASE task' = Idle
  BY <1>1, IdleTask DEF TaskInv, TaskOK, TodoHeld, ResolveSafe, StaleSafe
<1>2. CASE task' = Release(e)
  BY <1>2, IdleTask DEF TaskInv, TaskOK, TodoHeld, ResolveSafe, StaleSafe
<1>3. QED
  BY <1>1, <1>2

\* TypeOK is RowsOK and the rest.
LEMMA TypeParts ==
  /\ TypeOK <=> /\ RowsOK
                /\ match \in [Events -> Matches]
                /\ task.op \in {"idle", "resolve", "release", "stale"}
                /\ orphans \subseteq Events
                /\ crashes \in 0..MaxCrashes
  /\ TypeOK' <=> /\ RowsOK'
                 /\ match' \in [Events -> Matches]
                 /\ task'.op \in {"idle", "resolve", "release", "stale"}
                 /\ orphans' \subseteq Events
                 /\ crashes' \in 0..MaxCrashes
BY DEF TypeOK, RowsOK

-----------------------------------------------------------------------------
(* One lemma per action.                                                   *)

LEMMA UploadPreserves ==
  ASSUME ReviewInv, NEW e \in Events, Upload(e) \/ UploadRefused(e)
  PROVE  ReviewInv'
<1>1. /\ RowsOK /\ match \in [Events -> Matches] /\ orphans \subseteq Events
      /\ crashes \in 0..MaxCrashes
  BY TypeParts DEF ReviewInv
<1>2. task = Idle /\ task' = task /\ match' = match /\ status[e] = "absent"
  BY DEF Upload, UploadRefused, InOrder
<1>3. TaskInv' /\ task'.op \in {"idle", "resolve", "release", "stale"}
  BY <1>2, FreshTask
<1>4. open[e] \in [Kinds -> 0..MaxOpen] /\ \A k \in Kinds : open[e][k] = 0
  BY <1>1, <1>2 DEF ReviewInv, EventInv, RowsOK
<1>5. link[e] = "none" /\ bookings[e] = 0
  BY <1>2 DEF ReviewInv, EventInv, Booked
<1>6. CASE Upload(e)
  <2>1. RowsOK' /\ status'[e] = "received" /\ Touches(e)
    BY <1>1, <1>6 DEF Upload, RowsOK, Statuses, Touches
  <2>2. \A f \in Events \ {e} : EventInv(f)'
    BY <1>6, <2>1 DEF Upload, Touches, ReviewInv, EventInv, Booked
  <2>3. EventInv(e)'
    BY <1>4, <1>5, <1>6, <2>1, KindFacts DEF Upload, EventInv, Booked
  <2>4. TypeOK'
    BY <1>1, <1>2, <1>3, <1>6, <2>1, TypeParts DEF Upload
  <2>5. QED
    BY <1>3, <2>2, <2>3, <2>4 DEF ReviewInv
<1>7. CASE UploadRefused(e)
  <2>1. status' \in [Events -> Statuses] /\ status'[e] = "refused"
    BY <1>1, <1>7 DEF UploadRefused, RowsOK, Statuses
  <2>2. CASE Insert(e, "refused") /\ UNCHANGED <<orphans, crashes>>
    <3>1. /\ open' \in [Events -> [Kinds -> 0..MaxOpen]]
          /\ Adds(e, "refused")
          /\ \A f \in Events \ {e} : open'[f] = open[f]
      BY <1>1, <2>2, InsertAdds, KindFacts
    <3>2. RowsOK' /\ Touches(e)
      BY <1>1, <1>7, <2>1, <3>1 DEF UploadRefused, RowsOK, Touches
    <3>3. \A f \in Events \ {e} : EventInv(f)'
      BY <1>7, <2>2, <3>2 DEF UploadRefused, Touches, ReviewInv, EventInv, Booked
    <3>4. EventInv(e)'
      BY <1>4, <1>5, <1>7, <2>1, <3>1, KindFacts DEF UploadRefused, EventInv, Booked, Adds
    <3>5. TypeOK'
      BY <1>1, <1>2, <1>3, <2>2, <3>2, TypeParts
    <3>6. QED
      BY <1>3, <3>3, <3>4, <3>5 DEF ReviewInv
  <2>3. CASE /\ crashes < MaxCrashes
             /\ crashes' = crashes + 1
             /\ orphans' = orphans \cup {e}
             /\ UNCHANGED open
    <3>1. RowsOK' /\ Touches(e)
      BY <1>1, <1>7, <2>1, <2>3 DEF UploadRefused, RowsOK, Touches
    <3>2. \A f \in Events \ {e} : EventInv(f)'
      BY <1>7, <2>3, <3>1 DEF UploadRefused, Touches, ReviewInv, EventInv, Booked
    <3>3. EventInv(e)'
      BY <1>4, <1>5, <1>7, <2>1, <2>3, KindFacts DEF UploadRefused, EventInv, Booked
    <3>4. TypeOK'
      BY <1>1, <1>2, <1>3, <2>3, <3>1, TypeParts, ReviewAssumption
    <3>5. QED
      BY <1>3, <3>2, <3>3, <3>4 DEF ReviewInv
  <2>4. QED
    BY <1>7, <2>2, <2>3 DEF UploadRefused
<1>8. QED
  BY <1>6, <1>7

LEMMA MergePreserves ==
  ASSUME ReviewInv, NEW e \in Events, Merge(e)
  PROVE  ReviewInv'
<1>1. RowsOK
  BY TypeParts DEF ReviewInv
<1>2. PICK r \in Results : Process(e, OnMerge, r)
  BY DEF Merge
<1>3. RowsOK' /\ Effect(e, OnMerge, r)
  BY <1>1, <1>2, ProcessHasEffect
<1>4. \A k \in Kinds : open[e][k] = 0
  BY DEF Merge, ReviewInv, EventInv
<1>5. \A f \in Events : EventInv(f)'
  <2>1. BookEffect(e, OnMerge, r) => \A k \in Kinds : open'[e][k] = 0
    BY <1>4 DEF BookEffect
  <2>2. QED
    BY <1>1, <1>3, <2>1, ProcessKeepsEvents DEF Merge, ReviewInv
<1>6. TaskInv' /\ task'.op \in {"idle", "resolve", "release", "stale"}
  BY FreshTask DEF Merge
<1>7. TypeOK'
  BY <1>3, <1>6, TypeParts DEF Merge, ReviewInv
<1>8. QED
  BY <1>5, <1>6, <1>7 DEF ReviewInv

LEMMA MatchPreserves ==
  ASSUME ReviewInv, NEW e \in Events, NEW m \in Matches, Match(e, m)
  PROVE  ReviewInv'
<1>1. RowsOK /\ match \in [Events -> Matches]
  BY TypeParts DEF ReviewInv
<1>2. /\ match' \in [Events -> Matches] /\ match'[e] = m
      /\ \A f \in Events \ {e} : match'[f] = match[f]
  BY <1>1 DEF Match
<1>3. RowsOK'
  BY <1>1 DEF RowsOK, Match, replayVars
<1>4. TaskInv' /\ task'.op \in {"idle", "resolve", "release", "stale"}
  BY FreshTask DEF Match
<1>5. \A f \in Events : EventInv(f)'
  BY <1>2 DEF ReviewInv, Match, replayVars, EventInv, Booked
<1>6. TypeOK'
  BY <1>2, <1>3, <1>4, TypeParts DEF ReviewInv, Match
<1>7. QED
  BY <1>4, <1>5, <1>6 DEF ReviewInv

LEMMA BypassFacts ==
  ASSUME NEW k
  PROVE  /\ BypassOf(k) \in SUBSET {"duplicate", "checkpoint"}
         /\ "duplicate" \notin BypassOf(k) => k # "possible_duplicate"
BY DEF BypassOf

\* Apply and Book anyway: the engine in apply mode, then what is left to do.
LEMMA AdminBookingPreserves ==
  ASSUME ReviewInv, NEW e \in Events, NEW k \in Kinds, NEW B,
         open[e][k] > 0,
         "duplicate" \notin B => k # "possible_duplicate",
         NEW r \in Results,
         Process(e, [OnApply EXCEPT !.bypass = B], r),
         task' = AfterBooking(e, k, r),
         UNCHANGED <<match, orphans, crashes>>
  PROVE  ReviewInv'
<1> DEFINE opts == [OnApply EXCEPT !.bypass = B]
<1>0. opts.mode = "apply" /\ opts.bypass = B /\ opts.closes = Kinds
  BY DEF OnApply
<1> HIDE DEF opts
<1>1. RowsOK
  BY TypeParts DEF ReviewInv
<1>2. RowsOK' /\ Effect(e, opts, r)
  BY <1>1, ProcessHasEffect DEF opts
<1>3. status[e] \in {"held", "refused", "skipped"}
  BY <1>1 DEF ReviewInv, EventInv, RowsOK, Statuses
<1>4. \A f \in Events : EventInv(f)'
  <2>1. BookEffect(e, opts, r) => \A j \in Kinds : open'[e][j] = 0
    BY <1>0 DEF BookEffect
  <2>2. QED
    BY <1>0, <1>1, <1>2, <1>3, <2>1, ProcessKeepsEvents DEF ReviewInv
<1>5. TaskInv' /\ task'.op \in {"idle", "resolve", "release", "stale"}
  <2>1. CASE r = "held"
    <3>1. task' = [op |-> "resolve", event |-> {e}, kind |-> {k}, released |-> {},
                   tried |-> {}, todo |-> {}]
      BY <2>1 DEF AfterBooking, Idle
    <3>2. DuplicateEffect(e, opts, r)
      BY <1>0, <1>2, <2>1 DEF Effect, NoEffect, PutEffect, BookEffect
    <3>3. open'[e]["possible_duplicate"] > 0 /\ status'[e] = "held"
      BY <1>1, <2>1, <3>2, KindFacts, ReviewAssumption DEF DuplicateEffect, Adds, RowsOK
    <3>4. k # "possible_duplicate"
      BY <1>0, <3>2 DEF DuplicateEffect
    <3>5. QED
      BY <3>1, <3>3, <3>4 DEF TaskInv, TaskOK, TodoHeld, ResolveSafe, StaleSafe
  <2>2. CASE r # "held"
    BY <2>2, FreshTask DEF AfterBooking
  <2>3. QED
    BY <2>1, <2>2
<1>6. TypeOK'
  BY <1>2, <1>5, TypeParts DEF ReviewInv
<1>7. QED
  BY <1>4, <1>5, <1>6 DEF ReviewInv

LEMMA ApplyPreserves ==
  ASSUME ReviewInv, NEW e \in Events, NEW k \in Kinds, Apply(e, k)
  PROVE  ReviewInv'
<1>1. PICK r \in Results : /\ Process(e, [OnApply EXCEPT !.bypass = BypassOf(k)], r)
                           /\ task' = AfterBooking(e, k, r)
  BY DEF Apply
<1>2. open[e][k] > 0 /\ UNCHANGED <<match, orphans, crashes>>
  BY DEF Apply
<1>3. QED
  BY <1>1, <1>2, BypassFacts, AdminBookingPreserves

LEMMA BookAnywayPreserves ==
  ASSUME ReviewInv, NEW e \in Events, BookAnyway(e)
  PROVE  ReviewInv'
<1>1. PICK r \in Results : /\ Process(e, [OnApply EXCEPT !.bypass = {"duplicate"}], r)
                           /\ task' = AfterBooking(e, "certain_duplicate", r)
  BY DEF BookAnyway
<1>2. open[e]["certain_duplicate"] > 0 /\ UNCHANGED <<match, orphans, crashes>>
  BY DEF BookAnyway
<1>3. QED
  BY <1>1, <1>2, KindFacts, AdminBookingPreserves

\* An item is closed or not, and the event may be linked: what a click on
\* Dismiss or Mark reviewed leaves.
LEMMA LinkFacts ==
  ASSUME RowsOK, NEW e \in Events, LinkToMatch(e)
  PROVE  /\ link' \in [Events -> Links]
         /\ link'[e] # link[e] => link'[e] # "none"
         /\ link[e] # "none" => link' = link
         /\ \A f \in Events \ {e} : link'[f] = link[f]
BY DEF RowsOK, LinkToMatch, Links

LEMMA DismissPreserves ==
  ASSUME ReviewInv, NEW e \in Events, NEW k \in Kinds, Dismiss(e, k)
  PROVE  ReviewInv'
<1>1. RowsOK
  BY TypeParts DEF ReviewInv
<1>2. /\ status' \in [Events -> Statuses] /\ status'[e] = "dismissed"
      /\ \A f \in Events \ {e} : status'[f] = status[f]
  BY <1>1 DEF Dismiss, RowsOK, Statuses
<1>3. /\ open' \in [Events -> [Kinds -> 0..MaxOpen]]
      /\ \A j \in Kinds : open'[e][j] = 0
      /\ \A f \in Events \ {e} : open'[f] = open[f]
  BY <1>1, ReviewAssumption DEF Dismiss, RowsOK, NoItems
<1>4. /\ link' \in [Events -> Links]
      /\ \A f \in Events \ {e} : link'[f] = link[f]
  BY <1>1, LinkFacts DEF Dismiss, RowsOK
<1>5. TaskInv' /\ task'.op \in {"idle", "resolve", "release", "stale"}
  BY FreshTask DEF Dismiss, AfterLink
<1>6. status[e] \notin {"booked", "applied"} /\ bookings[e] = 0
  BY DEF Dismiss, ReviewInv, EventInv, Booked
<1>7. EventInv(e)'
  BY <1>2, <1>3, <1>6, KindFacts DEF Dismiss, EventInv, Booked
<1>8. \A f \in Events \ {e} : EventInv(f)'
  BY <1>2, <1>3, <1>4 DEF Dismiss, ReviewInv, EventInv, Booked
<1>9. TypeOK'
  BY <1>1, <1>2, <1>3, <1>4, <1>5, TypeParts DEF Dismiss, ReviewInv, RowsOK
<1>10. QED
  BY <1>5, <1>7, <1>8, <1>9 DEF ReviewInv

LEMMA MarkReviewedPreserves ==
  ASSUME ReviewInv, NEW e \in Events, MarkReviewed(e)
  PROVE  ReviewInv'
<1>1. RowsOK
  BY TypeParts DEF ReviewInv
<1>2. status[e] = "skipped"
  BY DEF MarkReviewed, ReviewInv, EventInv
<1>3. "certain_duplicate" \in Kinds /\ open[e] \in [Kinds -> 0..MaxOpen] /\ MaxOpen \in Nat
  BY <1>1, KindFacts, ReviewAssumption DEF RowsOK
<1>4. open' = [open EXCEPT ![e] = [open[e] EXCEPT !["certain_duplicate"] =
                                      open[e]["certain_duplicate"] - 1]]
  BY DEF MarkReviewed
<1>5. [open[e] EXCEPT !["certain_duplicate"] = open[e]["certain_duplicate"] - 1]
        \in [Kinds -> 0..MaxOpen]
  BY <1>3 DEF MarkReviewed
<1>6. /\ open' \in [Events -> [Kinds -> 0..MaxOpen]]
      /\ \A j \in Holding : open'[e][j] = open[e][j]
      /\ \A f \in Events \ {e} : open'[f] = open[f]
  BY <1>1, <1>3, <1>4, <1>5, KindFacts DEF RowsOK
<1>7. /\ link' \in [Events -> Links]
      /\ \A f \in Events \ {e} : link'[f] = link[f]
  BY <1>1, LinkFacts DEF MarkReviewed
<1>8. TaskInv' /\ task'.op \in {"idle", "resolve", "release", "stale"}
  BY FreshTask DEF MarkReviewed, AfterLink
<1>9. EventInv(e)'
  BY <1>2, <1>6 DEF MarkReviewed, ReviewInv, EventInv, Booked
<1>10. \A f \in Events \ {e} : EventInv(f)'
  BY <1>6, <1>7 DEF MarkReviewed, ReviewInv, EventInv, Booked
<1>11. TypeOK'
  BY <1>1, <1>6, <1>7, <1>8, TypeParts DEF MarkReviewed, ReviewInv, RowsOK
<1>12. QED
  BY <1>8, <1>9, <1>10, <1>11 DEF ReviewInv

LEMMA ResolveItemPreserves ==
  ASSUME ReviewInv, ResolveItem
  PROVE  ReviewInv'
<1>1. RowsOK
  BY TypeParts DEF ReviewInv
<1>2. PICK e \in task.event, k \in task.kind :
        open' = [open EXCEPT ![e][k] = IF @ > 0 THEN @ - 1 ELSE 0]
  BY DEF ResolveItem
<1>3. /\ e \in Events /\ k \in Kinds /\ k # "possible_duplicate"
      /\ status[e] = "held" /\ open[e]["possible_duplicate"] > 0
  BY <1>2 DEF ResolveItem, ReviewInv, TaskInv, TaskOK, ResolveSafe
<1>4. open[e] \in [Kinds -> 0..MaxOpen] /\ MaxOpen \in Nat
  BY <1>1, <1>3, ReviewAssumption DEF RowsOK
<1>5. open' = [open EXCEPT ![e] = [open[e] EXCEPT ![k] = IF open[e][k] > 0
                                                        THEN open[e][k] - 1 ELSE 0]]
  BY <1>2
<1>6. [open[e] EXCEPT ![k] = IF open[e][k] > 0 THEN open[e][k] - 1 ELSE 0]
        \in [Kinds -> 0..MaxOpen]
  BY <1>3, <1>4
<1>7. /\ open' \in [Events -> [Kinds -> 0..MaxOpen]]
      /\ \A j \in Kinds : open[e][j] = 0 => open'[e][j] = 0
      /\ open'[e]["possible_duplicate"] > 0
      /\ open'[e]["certain_duplicate"] > 0 => open[e]["certain_duplicate"] > 0
      /\ \A f \in Events \ {e} : open'[f] = open[f]
  BY <1>1, <1>3, <1>4, <1>5, <1>6, KindFacts DEF RowsOK
<1>8. TaskInv' /\ task'.op \in {"idle", "resolve", "release", "stale"}
  BY <1>3, FreshTask DEF ResolveItem
<1>9. EventInv(e)'
  BY <1>3, <1>7, KindFacts DEF ResolveItem, ReviewInv, EventInv, Booked
<1>10. \A f \in Events \ {e} : EventInv(f)'
  BY <1>7 DEF ResolveItem, ReviewInv, EventInv, Booked
<1>11. TypeOK'
  BY <1>1, <1>7, <1>8, TypeParts DEF ResolveItem, ReviewInv, RowsOK
<1>12. QED
  BY <1>8, <1>9, <1>10, <1>11 DEF ReviewInv

LEMMA ListDependantsPreserves ==
  ASSUME ReviewInv, ListDependants
  PROVE  ReviewInv'
<1>1. UNCHANGED <<status, open, link, attempts, bookings, match, orphans, crashes>>
  BY DEF ListDependants, replayVars
<1>2. \A f \in Events : EventInv(f)'
  BY <1>1, SameEvents DEF ReviewInv
<1> DEFINE next == HeldDependants(task.released) \ task.tried
<1>3. ASSUME task' = Idle PROVE TaskInv'
  BY <1>3, IdleTask DEF TaskInv, TaskOK, TodoHeld, ResolveSafe, StaleSafe
<1>4. ASSUME task' = [task EXCEPT !.todo = next] PROVE TaskInv'
  <2>1. task \in [op : {"release"}, event : SUBSET Events, kind : {task.kind},
                  released : SUBSET Events, tried : SUBSET Events, todo : SUBSET Events]
    BY DEF ListDependants, ReviewInv, TaskInv, TaskOK
  <2>2. next \subseteq Events /\ \A e \in next : status[e] = "held"
    BY DEF HeldDependants
  <2>3. /\ task' \in [op : {"release"}, event : SUBSET Events, kind : {task'.kind},
                      released : SUBSET Events, tried : SUBSET Events, todo : SUBSET Events]
        /\ task'.todo = next
    <3> HIDE DEF next
    <3>1. QED
      BY <1>4, <2>1, <2>2
  <2>4. QED
    BY <1>1, <2>2, <2>3 DEF TaskInv, TaskOK, TodoHeld, ResolveSafe, StaleSafe
<1>5. TaskInv'
  BY <1>3, <1>4 DEF ListDependants
<1>6. TypeOK'
  BY <1>1, <1>5 DEF TypeOK, ReviewInv, TaskInv, TaskOK
<1>7. QED
  BY <1>2, <1>5, <1>6 DEF ReviewInv

\* What a release does to its request.
LEMMA ReleaseOneTask ==
  ASSUME TaskOK, NEW e \in task.todo, NEW r, task.op = "release",
         LET rest == [task EXCEPT !.todo = @ \ {e}, !.tried = @ \cup {e}]
         IN  task' =
              CASE r = "booked"    -> [rest EXCEPT !.released = @ \cup {e}]
                [] r = "technical" -> rest
                [] OTHER           -> [rest EXCEPT !.op = "stale", !.event = {e},
                                                   !.kind = {open[e]["waiting"]}]
  PROVE  /\ TaskOK'
         /\ task'.todo = task.todo \ {e}
         /\ task'.tried = task.tried \cup {e}
         /\ task'.released = IF r = "booked" THEN task.released \cup {e} ELSE task.released
         /\ IF r \in {"booked", "technical"}
            THEN task'.op = "release"
            ELSE task'.op = "stale" /\ task'.event = {e} /\ task'.kind = {open[e]["waiting"]}
<1>1. task \in [op : {"release"}, event : SUBSET Events, kind : {task.kind},
                released : SUBSET Events, tried : SUBSET Events, todo : SUBSET Events]
  BY DEF TaskOK
<1>2. e \in Events
  BY <1>1
<1> DEFINE rest == [task EXCEPT !.todo = @ \ {e}, !.tried = @ \cup {e}]
<1>3. /\ rest \in [op : {"release"}, event : SUBSET Events, kind : {task.kind},
                   released : SUBSET Events, tried : SUBSET Events, todo : SUBSET Events]
      /\ rest.todo = task.todo \ {e} /\ rest.tried = task.tried \cup {e}
      /\ rest.released = task.released
  BY <1>1, <1>2
<1> HIDE DEF rest
<1>4. CASE r = "booked"
  <2>1. task' = [rest EXCEPT !.released = @ \cup {e}]
    BY <1>4 DEF rest
  <2>2. QED
    BY <1>2, <1>3, <1>4, <2>1 DEF TaskOK
<1>5. CASE r = "technical"
  <2>1. task' = rest
    BY <1>5 DEF rest
  <2>2. QED
    BY <1>3, <1>5, <2>1 DEF TaskOK
<1>6. CASE r \notin {"booked", "technical"}
  <2>1. task' = [rest EXCEPT !.op = "stale", !.event = {e}, !.kind = {open[e]["waiting"]}]
    BY <1>6 DEF rest
  <2>2. QED
    BY <1>2, <1>3, <1>6, <2>1 DEF TaskOK
<1>7. QED
  BY <1>4, <1>5, <1>6

LEMMA ReleaseOnePreserves ==
  ASSUME ReviewInv, NEW e \in Events, ReleaseOne(e)
  PROVE  ReviewInv'
<1>1. RowsOK /\ TaskOK /\ e \in task.todo /\ task.op = "release"
  BY TypeParts DEF ReviewInv, TaskInv, ReleaseOne
<1>2. PICK r \in Results :
        /\ Process(e, OnRelease, r)
        /\ LET rest == [task EXCEPT !.todo = @ \ {e}, !.tried = @ \cup {e}]
           IN  task' =
                CASE r = "booked"    -> [rest EXCEPT !.released = @ \cup {e}]
                  [] r = "technical" -> rest
                  [] OTHER           -> [rest EXCEPT !.op = "stale", !.event = {e},
                                                     !.kind = {open[e]["waiting"]}]
  BY DEF ReleaseOne
<1>3. OnRelease.mode = "auto" /\ OnRelease.bypass = {} /\ OnRelease.closes = {"waiting"}
  BY DEF OnRelease, OnMerge
<1>4. RowsOK' /\ Effect(e, OnRelease, r)
  BY <1>1, <1>2, ProcessHasEffect
<1>5. status[e] = "held"
  BY <1>1 DEF ReviewInv, TaskInv, TodoHeld
<1>6. BookEffect(e, OnRelease, r) => \A k \in Kinds : open'[e][k] = 0
  BY <1>3, <1>5 DEF BookEffect, Held, ReviewInv, EventInv
<1>7. \A f \in Events : EventInv(f)'
  BY <1>1, <1>3, <1>4, <1>5, <1>6, ProcessKeepsEvents DEF ReleaseOne, ReviewInv
<1>8. /\ TaskOK'
      /\ task'.todo = task.todo \ {e}
      /\ IF r \in {"booked", "technical"}
         THEN task'.op = "release"
         ELSE task'.op = "stale" /\ task'.event = {e} /\ task'.kind = {open[e]["waiting"]}
  BY <1>1, <1>2, ReleaseOneTask
<1>9. TodoHeld'
  <2>1. \A f \in Events \ {e} : status'[f] = status[f]
    BY <1>4 DEF Effect, NoEffect, PutEffect, DuplicateEffect, BookEffect, Touches
  <2>2. task.todo \subseteq Events
    BY <1>1 DEF TaskOK
  <2>3. QED
    BY <1>8, <2>1, <2>2 DEF ReviewInv, TaskInv, TodoHeld
<1>10. ResolveSafe'
  BY <1>8 DEF ResolveSafe
<1>11. StaleSafe'
  <2> SUFFICES ASSUME task'.op = "stale" PROVE StaleSafe'
    BY DEF StaleSafe
  <2>1. /\ task'.event = {e} /\ task'.kind = {open[e]["waiting"]}
        /\ e \notin task'.todo /\ r \notin {"booked", "technical"}
    BY <1>8
  <2>2. open[e] \in [Kinds -> 0..MaxOpen] /\ MaxOpen \in Nat /\ open[e]["waiting"] \in Nat
    BY <1>1, KindFacts, ReviewAssumption DEF RowsOK
  <2>3. ~NoEffect(OnRelease, r)
    BY <1>3, <2>1 DEF NoEffect
  <2>4. CASE PutEffect(e, OnRelease, r)
    BY <2>1, <2>2, <2>4, KindFacts DEF PutEffect, Adds, StaleSafe
  <2>5. CASE DuplicateEffect(e, OnRelease, r)
    BY <2>1, <2>2, <2>5, KindFacts DEF DuplicateEffect, Adds, StaleSafe
  <2>6. QED
    BY <1>4, <2>1, <2>3, <2>4, <2>5 DEF Effect, BookEffect
<1>12. TypeOK'
  BY <1>4, <1>8, TypeParts DEF ReleaseOne, ReviewInv, TaskOK
<1>13. QED
  BY <1>7, <1>8, <1>9, <1>10, <1>11, <1>12 DEF ReviewInv, TaskInv

LEMMA CloseStalePreserves ==
  ASSUME ReviewInv, CloseStale
  PROVE  ReviewInv'
<1>1. RowsOK /\ TaskOK /\ task.op = "stale"
  BY TypeParts DEF ReviewInv, TaskInv, CloseStale
<1>2. PICK e \in task.event, n \in task.kind :
        open' = [open EXCEPT ![e]["waiting"] = @ - n]
  BY DEF CloseStale
<1>3. /\ e \in Events /\ n \in Nat /\ e \notin task.todo /\ open[e]["waiting"] >= n
      /\ status[e] \in {"held", "refused"} =>
            \/ open[e]["waiting"] > n
            \/ \E k \in Holding \ {"waiting"} : open[e][k] > 0
  BY <1>1, <1>2 DEF TaskOK, ReviewInv, TaskInv, StaleSafe
<1>4. open[e] \in [Kinds -> 0..MaxOpen] /\ MaxOpen \in Nat /\ open[e]["waiting"] \in Nat
  BY <1>1, <1>3, KindFacts, ReviewAssumption DEF RowsOK
<1>5. open' = [open EXCEPT ![e] = [open[e] EXCEPT !["waiting"] = open[e]["waiting"] - n]]
  BY <1>2
<1>6. [open[e] EXCEPT !["waiting"] = open[e]["waiting"] - n] \in [Kinds -> 0..MaxOpen]
  BY <1>3, <1>4, KindFacts
<1>7. /\ open' \in [Events -> [Kinds -> 0..MaxOpen]]
      /\ open'[e]["waiting"] = open[e]["waiting"] - n
      /\ \A j \in Kinds \ {"waiting"} : open'[e][j] = open[e][j]
      /\ \A f \in Events \ {e} : open'[f] = open[f]
  BY <1>1, <1>3, <1>4, <1>5, <1>6, KindFacts DEF RowsOK
<1>8. EventInv(e)'
  BY <1>3, <1>4, <1>7, KindFacts DEF CloseStale, ReviewInv, EventInv, Booked
<1>9. \A f \in Events \ {e} : EventInv(f)'
  BY <1>7 DEF CloseStale, ReviewInv, EventInv, Booked
<1>10. /\ TaskOK' /\ task'.op = "release" /\ task'.todo = task.todo
  <2>1. task \in [op : {"stale"}, event : SUBSET Events, kind : {task.kind},
                  released : SUBSET Events, tried : SUBSET Events, todo : SUBSET Events]
    BY <1>1 DEF TaskOK
  <2>2. task' = [task EXCEPT !.op = "release", !.event = {}, !.kind = {}]
    BY DEF CloseStale
  <2>3. QED
    BY <2>1, <2>2 DEF TaskOK
<1>11. TaskInv'
  BY <1>10 DEF CloseStale, ReviewInv, TaskInv, TodoHeld, ResolveSafe, StaleSafe
<1>12. TypeOK'
  BY <1>1, <1>7, <1>10, TypeParts DEF CloseStale, ReviewInv, RowsOK
<1>13. QED
  BY <1>8, <1>9, <1>11, <1>12 DEF ReviewInv

LEMMA CrashPreserves ==
  ASSUME ReviewInv, Crash
  PROVE  ReviewInv'
<1>1. UNCHANGED <<status, open, link, attempts, bookings, match, orphans>> /\ task' = Idle
  BY DEF Crash, replayVars
<1>2. \A f \in Events : EventInv(f)'
  BY <1>1, SameEvents DEF ReviewInv
<1>3. TaskInv'
  BY <1>1, IdleTask DEF TaskInv, TaskOK, TodoHeld, ResolveSafe, StaleSafe
<1>4. crashes' \in 0..MaxCrashes
  BY ReviewAssumption DEF Crash, ReviewInv, TypeOK
<1>5. TypeOK'
  BY <1>1, <1>3, <1>4 DEF TypeOK, ReviewInv, TaskInv, TaskOK
<1>6. QED
  BY <1>2, <1>3, <1>5 DEF ReviewInv

LEMMA StutterPreserves ==
  ASSUME ReviewInv, UNCHANGED vars
  PROVE  ReviewInv'
<1>1. UNCHANGED <<status, open, link, attempts, bookings, match, task, orphans, crashes>>
  BY DEF vars, replayVars
<1>2. \A f \in Events : EventInv(f)'
  BY <1>1, SameEvents DEF ReviewInv
<1>3. QED
  BY <1>1, <1>2 DEF ReviewInv, TypeOK, TaskInv, TaskOK, TodoHeld, ResolveSafe, StaleSafe

LEMMA InitEstablishes == Init => ReviewInv
<1> SUFFICES ASSUME Init PROVE ReviewInv
  OBVIOUS
<1>1. MaxOpen \in Nat /\ MaxAttempts \in Nat /\ MaxCrashes \in Nat
  BY ReviewAssumption
<1>2. NoItems \in [Kinds -> 0..MaxOpen] /\ \A k \in Kinds : NoItems[k] = 0
  BY <1>1 DEF NoItems
<1>3. TypeOK
  BY <1>1, <1>2, IdleTask DEF Init, TypeOK, Statuses, Links, Matches
<1>4. TaskInv
  BY IdleTask DEF Init, TaskInv, TaskOK, TodoHeld, ResolveSafe, StaleSafe
<1>5. ASSUME NEW e \in Events PROVE EventInv(e)
  BY <1>2, KindFacts DEF Init, EventInv, Booked
<1>6. QED
  BY <1>3, <1>4, <1>5 DEF ReviewInv

LEMMA NextPreserves ==
  ASSUME ReviewInv, [Next]_vars
  PROVE  ReviewInv'
<1>1. ASSUME NEW e \in Events, Upload(e) \/ UploadRefused(e) PROVE ReviewInv'
  BY <1>1, UploadPreserves
<1>2. ASSUME NEW e \in Events, Merge(e) PROVE ReviewInv'
  BY <1>2, MergePreserves
<1>3. ASSUME NEW e \in Events, NEW m \in Matches, Match(e, m) PROVE ReviewInv'
  BY <1>3, MatchPreserves
<1>4. ASSUME NEW e \in Events, NEW k \in Kinds, Apply(e, k) PROVE ReviewInv'
  BY <1>4, ApplyPreserves
<1>5. ASSUME NEW e \in Events, NEW k \in Kinds, Dismiss(e, k) PROVE ReviewInv'
  BY <1>5, DismissPreserves
<1>6. ASSUME NEW e \in Events, BookAnyway(e) PROVE ReviewInv'
  BY <1>6, BookAnywayPreserves
<1>7. ASSUME NEW e \in Events, MarkReviewed(e) PROVE ReviewInv'
  BY <1>7, MarkReviewedPreserves
<1>8. ASSUME NEW e \in Events, ReleaseOne(e) PROVE ReviewInv'
  BY <1>8, ReleaseOnePreserves
<1>9. QED
  BY <1>1, <1>2, <1>3, <1>4, <1>5, <1>6, <1>7, <1>8, ResolveItemPreserves,
     ListDependantsPreserves, CloseStalePreserves, CrashPreserves, StutterPreserves
     DEF Next, Server

-----------------------------------------------------------------------------
(* What holds in every reachable state.                                    *)

\* The rows of every event and the request the server is in agree as ReviewInv
\* says, for any events, dependencies and stops of the server.
THEOREM ReviewInvariant == Spec => []ReviewInv
<1>1. Init => ReviewInv
  BY InitEstablishes
<1>2. ReviewInv /\ [Next]_vars => ReviewInv'
  BY NextPreserves
<1>3. QED
  BY <1>1, <1>2, PTL DEF Spec

\* Every row, item and counter of the review list holds what the code can put
\* there.
THEOREM ReviewTypes == Spec => []TypeOK
<1>1. ReviewInv => TypeOK
  BY DEF ReviewInv
<1>2. QED
  BY <1>1, ReviewInvariant, PTL

\* Whatever the merge, the admin and the releases do and wherever the server
\* stops, a held or refused event has an open item to resolve it with (except
\* one whose item a stop lost at upload).
THEOREM HeldEventsHaveItems == Spec => []HeldHasItem
<1>1. ReviewInv => HeldHasItem
  BY DEF ReviewInv, EventInv, HeldHasItem
<1>2. QED
  BY <1>1, ReviewInvariant, PTL

\* A booked or dismissed event has no open item: nothing on the review list can
\* book it a second time.
THEOREM FinalEventsAreClosed == Spec => []FinalIsClosed
<1>1. ReviewInv => FinalIsClosed
  BY DEF ReviewInv, EventInv, FinalIsClosed, Booked
<1>2. QED
  BY <1>1, ReviewInvariant, PTL

-----------------------------------------------------------------------------
(* Every step is a step of the ledger.                                     *)

\* The three things a step can do to the ledger.
BooksOne(e) ==
    /\ bookings[e] = 0 /\ ~Blocked(e)
    /\ bookings' = [bookings EXCEPT ![e] = 1]
    /\ Settled(e)'
    /\ \A f \in Events \ {e} : Settled(f)' <=> Settled(f)

LinksOne(e) ==
    /\ UNCHANGED bookings
    /\ Settled(e)'
    /\ \A f \in Events \ {e} : Settled(f)' <=> Settled(f)

LeavesLedger ==
    /\ UNCHANGED bookings
    /\ \A f \in Events : Settled(f)' <=> Settled(f)

Final(e) == Booked(e) \/ status[e] = "dismissed"

LedgerStep == LeavesLedger \/ \E e \in Events : BooksOne(e) \/ LinksOne(e)

FinalStep == \A f \in Events : Final(f) => status'[f] = status[f]

LEMMA ProcessStep ==
  ASSUME RowsOK, \A f \in Events : EventInv(f),
         NEW e \in Events, NEW opts, NEW r, Effect(e, opts, r), RowsOK',
         status[e] \in {"received", "held", "refused", "skipped"},
         opts.mode = "auto" => status[e] \in {"received", "held"}
  PROVE  LedgerStep /\ FinalStep
<1>1. CASE NoEffect(opts, r)
  BY <1>1 DEF NoEffect, LedgerStep, LeavesLedger, FinalStep, Settled, Booked
<1>2. CASE ~NoEffect(opts, r)
  <2>1. Touches(e)
    BY <1>2 DEF Effect, PutEffect, DuplicateEffect, BookEffect
  <2>2. \A f \in Events \ {e} : Settled(f)' <=> Settled(f)
    BY <2>1 DEF Touches, Settled, Booked
  <2>3. FinalStep
    BY <2>1 DEF Touches, FinalStep, Final, Booked
  <2>4. link[e] # "none" => status[e] = "skipped" /\ match[e] = "certain"
    BY DEF EventInv
  <2>5. CASE PutEffect(e, opts, r)
    <3>1. ~Settled(e) /\ ~Settled(e)' /\ UNCHANGED bookings
      BY <2>4, <2>5 DEF PutEffect, Settled, Booked
    <3>2. QED
      BY <2>2, <2>3, <3>1 DEF LedgerStep, LeavesLedger
  <2>6. CASE DuplicateEffect(e, opts, r)
    <3>1. (Settled(e)' <=> Settled(e)) /\ UNCHANGED bookings
      BY <2>4, <2>6 DEF DuplicateEffect, Settled, Booked
    <3>2. QED
      BY <2>2, <2>3, <3>1 DEF LedgerStep, LeavesLedger
  <2>7. CASE BookEffect(e, opts, r)
    <3>1. bookings[e] = 0
      BY DEF EventInv, Booked
    <3>2. ~Blocked(e) /\ Settled(e)'
      BY <2>7 DEF BookEffect, Settled, Booked
    <3>3. bookings' = [bookings EXCEPT ![e] = 1]
      BY <2>7, <3>1 DEF BookEffect, RowsOK
    <3>4. QED
      BY <2>2, <2>3, <3>1, <3>2, <3>3 DEF LedgerStep, BooksOne
  <2>8. QED
    BY <1>2, <2>5, <2>6, <2>7 DEF Effect
<1>3. QED
  BY <1>1, <1>2

\* Dismiss and Mark reviewed link the event, or leave it unsettled.
LEMMA LinkStep ==
  ASSUME ReviewInv, NEW e \in Events, NEW k \in Kinds, Dismiss(e, k) \/ MarkReviewed(e)
  PROVE  LedgerStep /\ FinalStep
<1>1. RowsOK
  BY TypeParts DEF ReviewInv
<1>2. open[e][k] > 0 \/ open[e]["certain_duplicate"] > 0
  BY DEF Dismiss, MarkReviewed
<1>3. status[e] \notin {"booked", "applied", "dismissed"}
  BY <1>2, KindFacts DEF ReviewInv, EventInv
<1>4. /\ UNCHANGED bookings
      /\ \A f \in Events \ {e} : status'[f] = status[f] /\ link'[f] = link[f]
      /\ \A f \in Events : link'[f] # "none" \/ (link'[f] = link[f])
  BY <1>1, LinkFacts DEF Dismiss, MarkReviewed, RowsOK
<1>5. \A f \in Events \ {e} : Settled(f)' <=> Settled(f)
  BY <1>4 DEF Settled, Booked
<1>6. FinalStep
  BY <1>3, <1>4 DEF FinalStep, Final, Booked
<1>7. Settled(e) => Settled(e)'
  BY <1>1, <1>3, <1>4 DEF Settled, Booked, Dismiss, MarkReviewed, RowsOK
<1>8. QED
  BY <1>4, <1>5, <1>6, <1>7 DEF LedgerStep, LinksOne, LeavesLedger

\* An action that writes no status, map row or booking.
LEMMA QuietStep ==
  ASSUME UNCHANGED <<status, link, bookings>>
  PROVE  LedgerStep /\ FinalStep
BY DEF LedgerStep, LeavesLedger, FinalStep, Settled, Booked

LEMMA UploadStep ==
  ASSUME ReviewInv, NEW e \in Events, Upload(e) \/ UploadRefused(e)
  PROVE  LedgerStep /\ FinalStep
<1>1. RowsOK
  BY TypeParts DEF ReviewInv
<1>2. /\ status[e] = "absent" /\ status'[e] \in {"received", "refused"}
      /\ \A f \in Events \ {e} : status'[f] = status[f]
      /\ UNCHANGED <<link, bookings>>
  BY <1>1 DEF Upload, UploadRefused, InOrder, RowsOK
<1>3. QED
  BY <1>2 DEF LedgerStep, LeavesLedger, FinalStep, Final, Settled, Booked

LEMMA AdminBookingStep ==
  ASSUME ReviewInv, NEW e \in Events, NEW k \in Kinds, NEW B,
         open[e][k] > 0,
         NEW r \in Results,
         Process(e, [OnApply EXCEPT !.bypass = B], r)
  PROVE  LedgerStep /\ FinalStep
<1> DEFINE opts == [OnApply EXCEPT !.bypass = B]
<1>0. opts.mode = "apply"
  BY DEF OnApply
<1> HIDE DEF opts
<1>1. RowsOK
  BY TypeParts DEF ReviewInv
<1>2. RowsOK' /\ Effect(e, opts, r)
  BY <1>1, ProcessHasEffect DEF opts
<1>3. status[e] \in {"held", "refused", "skipped"}
  BY <1>1 DEF ReviewInv, EventInv, RowsOK, Statuses
<1>4. QED
  BY <1>0, <1>1, <1>2, <1>3, ProcessStep DEF ReviewInv

LEMMA StepIsLedgerStep ==
  ASSUME ReviewInv, [Next]_vars
  PROVE  LedgerStep /\ FinalStep
<1>0. RowsOK /\ \A f \in Events : EventInv(f)
  BY TypeParts DEF ReviewInv
<1>1. ASSUME NEW e \in Events, Merge(e) PROVE LedgerStep /\ FinalStep
  <2>1. PICK r \in Results : Process(e, OnMerge, r)
    BY <1>1 DEF Merge
  <2>2. RowsOK' /\ Effect(e, OnMerge, r) /\ status[e] = "received"
    BY <1>0, <1>1, <2>1, ProcessHasEffect DEF Merge
  <2>3. QED
    BY <1>0, <2>2, ProcessStep
<1>2. ASSUME NEW e \in Events, ReleaseOne(e) PROVE LedgerStep /\ FinalStep
  <2>1. PICK r \in Results : Process(e, OnRelease, r)
    BY <1>2 DEF ReleaseOne
  <2>2. RowsOK' /\ Effect(e, OnRelease, r) /\ status[e] = "held"
    BY <1>0, <1>2, <2>1, ProcessHasEffect DEF ReleaseOne, ReviewInv, TaskInv, TodoHeld
  <2>3. QED
    BY <1>0, <2>2, ProcessStep
<1>3. ASSUME NEW e \in Events, NEW k \in Kinds, Apply(e, k) PROVE LedgerStep /\ FinalStep
  BY <1>3, AdminBookingStep DEF Apply
<1>4. ASSUME NEW e \in Events, BookAnyway(e) PROVE LedgerStep /\ FinalStep
  BY <1>4, AdminBookingStep, KindFacts DEF BookAnyway
<1>5. ASSUME NEW e \in Events, NEW k \in Kinds, Dismiss(e, k) PROVE LedgerStep /\ FinalStep
  BY <1>5, LinkStep
<1>6. ASSUME NEW e \in Events, MarkReviewed(e) PROVE LedgerStep /\ FinalStep
  BY <1>6, LinkStep, KindFacts
<1>7. ASSUME NEW e \in Events, Upload(e) \/ UploadRefused(e) PROVE LedgerStep /\ FinalStep
  BY <1>7, UploadStep
<1>8. ASSUME \/ \E e \in Events, m \in Matches : Match(e, m)
             \/ ResolveItem \/ ListDependants \/ CloseStale \/ Crash \/ UNCHANGED vars
      PROVE  LedgerStep /\ FinalStep
  BY <1>8, QuietStep
     DEF Match, ResolveItem, ListDependants, CloseStale, Crash, vars, replayVars
<1>9. QED
  BY <1>1, <1>2, <1>3, <1>4, <1>5, <1>6, <1>7, <1>8 DEF Next, Server

\* booked, applied and dismissed are final, in every order of merge rounds,
\* admin actions, releases and stops.
THEOREM FinalStatusForGood == Spec => FinalForGood
<1>1. ReviewInv /\ [Next]_vars
        => [\A e \in Events : Booked(e) \/ status[e] = "dismissed" => status'[e] = status[e]]_vars
  BY StepIsLedgerStep DEF FinalStep, Final
<1>2. QED
  BY <1>1, ReviewInvariant, PTL DEF Spec, FinalForGood

\* The merge and the review list together book every event at most once, only
\* on top of rows that exist, and never unsettle what they settled.
THEOREM ReviewImplementsLedger == Spec => Implements
<1>1. Init => Ledger!LedgerInit
  BY DEF Init, Ledger!LedgerInit, Settled, Booked
<1>2. ASSUME ReviewInv, [Next]_vars
      PROVE  [Ledger!LedgerNext]_(Ledger!ledgerVars)
  <2>1. CASE LeavesLedger
    <3>1. {e \in Events : Settled(e)}' = {e \in Events : Settled(e)}
      BY <2>1 DEF LeavesLedger
    <3>2. QED
      BY <2>1, <3>1 DEF LeavesLedger, Ledger!ledgerVars
  <2>2. ASSUME NEW e \in Events, BooksOne(e) PROVE Ledger!Book(e)
    <3>1. {f \in Events : Settled(f)}' = {f \in Events : Settled(f)} \cup {e}
      BY <2>2 DEF BooksOne
    <3>2. Deps[e] \subseteq {f \in Events : Settled(f)}
      BY <2>2, ReviewAssumption DEF BooksOne, Blocked
    <3>3. QED
      BY <2>2, <3>1, <3>2 DEF BooksOne, Ledger!Book
  <2>3. ASSUME NEW e \in Events, LinksOne(e) PROVE Ledger!Link(e)
    <3>1. {f \in Events : Settled(f)}' = {f \in Events : Settled(f)} \cup {e}
      BY <2>3 DEF LinksOne
    <3>2. QED
      BY <2>3, <3>1 DEF LinksOne, Ledger!Link
  <2>4. LedgerStep
    BY <1>2, StepIsLedgerStep
  <2>5. QED
    BY <2>1, <2>2, <2>3, <2>4 DEF LedgerStep, Ledger!LedgerNext
<1>3. QED
  BY <1>1, <1>2, ReviewInvariant, PTL DEF Spec, Implements, Ledger!LedgerSpec

-----------------------------------------------------------------------------
(* Nothing that waited is forgotten.                                       *)

\* The server has an event only after every earlier event of the PC, and holds
\* it only after everything it refers to left the merge.
OrderInv == \A e, f \in Events :
    /\ status[e] # "absent" /\ Rank[f] < Rank[e] => status[f] # "absent"
    /\ status[e] = "held" /\ f \in Deps[e] => status[f] \notin {"absent", "received"}

\* What a release goes by: it passed settled events only, and tries events that
\* refer to one of them.
ReleasedInv ==
    /\ \A e \in task.released : Settled(e)
    /\ \A e \in task.tried \cup task.todo : Deps[e] \cap task.released # {}

\* The event was settled another way: its `waiting` items are closed next.
Closing(e) == task.op = "stale" /\ e \in task.event /\ \A n \in task.kind : open[e]["waiting"] = n

\* The release the server is in still has the event before it.
Pending(e) ==
    /\ task.op \in {"release", "stale"}
    /\ \/ e \in task.todo
       \/ e \notin task.tried /\ Deps[e] \cap task.released # {}
       \/ Closing(e)

\* An event that waits, and has met no technical failure.
Waiting(e) == OneParent(e) /\ attempts[e] = 0 /\ open[e]["waiting"] > 0

WaitOK(e) == Waiting(e) =>
    /\ status[e] = "held" \/ Closing(e)
    /\ Blocked(e) \/ Unmapped(e) \/ Pending(e)

WaitInv ==
    /\ OrderInv
    /\ ReleasedInv
    /\ crashes = 0 => \A e \in Events : WaitOK(e)

\* The rows of every event but x stay.
Others(x) == \A f \in Events \ {x} :
    /\ status'[f] = status[f] /\ open'[f] = open[f] /\ link'[f] = link[f]
    /\ attempts'[f] = attempts[f]

LEMMA DepsFacts ==
  ASSUME NEW e \in Events
  PROVE  Deps[e] \subseteq Events /\ e \notin Deps[e] /\ \A d \in Deps[e] : Rank[d] < Rank[e]
<1>1. Deps[e] \subseteq Events /\ \A d \in Deps[e] : Rank[d] < Rank[e]
  BY ReviewAssumption
<1>2. Rank[e] \in Nat
  BY ReviewAssumption
<1>3. QED
  BY <1>1, <1>2

\* The attempt counter of the event only counts up, and a technical failure of
\* a round or a release is counted.
LEMMA ProcessAttempts ==
  ASSUME RowsOK, NEW e \in Events, NEW opts, NEW r, Process(e, opts, r)
  PROVE  /\ attempts'[e] = 0 => attempts[e] = 0
         /\ opts.mode = "auto" /\ r = "technical" => attempts'[e] > 0
         /\ \A f \in Events \ {e} : attempts'[f] = attempts[f]
<1>1. CASE Technical(e, opts, r)
  <2>1. attempts[e] \in Nat /\ MaxAttempts \in Nat
    BY ReviewAssumption DEF RowsOK
  <2>2. CASE opts.mode = "apply"
    BY <1>1, <2>2 DEF Technical, replayVars
  <2>3. CASE opts.mode = "auto"
    BY <1>1, <2>3, TechnicalHasEffect
  <2>4. QED
    BY <1>1, <2>2, <2>3 DEF Technical
<1>2. CASE Window(e, opts, r)
  BY <1>2 DEF Window
<1>3. CASE \E to \in {"held", "refused"}, k \in Kinds : Put(e, opts, to, k, r)
  BY <1>3 DEF Put, replayVars
<1>4. QED
  BY <1>1, <1>2, <1>3, KindFacts DEF Process

LEMMA ProcessOthers ==
  ASSUME RowsOK, NEW e \in Events, NEW opts, NEW r, Process(e, opts, r)
  PROVE  Others(e)
<1>1. Effect(e, opts, r)
  BY ProcessHasEffect
<1>2. \A f \in Events \ {e} : status'[f] = status[f] /\ open'[f] = open[f] /\ link'[f] = link[f]
  BY <1>1 DEF Effect, NoEffect, PutEffect, DuplicateEffect, BookEffect, Touches
<1>3. QED
  BY <1>2, ProcessAttempts DEF Others

\* A step settles events, it never unsettles one.
LEMMA SettledStays ==
  ASSUME ReviewInv, [Next]_vars
  PROVE  \A f \in Events : Settled(f) => Settled(f)'
BY StepIsLedgerStep DEF LedgerStep, LeavesLedger, BooksOne, LinksOne

LEMMA OrderKept ==
  ASSUME OrderInv, NEW x \in Events,
         \A f \in Events \ {x} : status'[f] = status[f],
         status[x] = "absent" => InOrder(x) /\ status'[x] # "held",
         status[x] # "absent" => status'[x] # "absent",
         status[x] \notin {"absent", "received"} => status'[x] \notin {"absent", "received"},
         status'[x] = "held" => \/ status[x] = "held"
                                \/ \A d \in Deps[x] : status[d] \notin {"absent", "received"}
  PROVE  OrderInv'
<1>1. ASSUME NEW e \in Events, NEW f \in Events, status'[e] # "absent", Rank[f] < Rank[e]
      PROVE  status'[f] # "absent"
  BY <1>1 DEF OrderInv, InOrder
<1>2. ASSUME NEW e \in Events, NEW f \in Events, status'[e] = "held", f \in Deps[e]
      PROVE  status'[f] \notin {"absent", "received"}
  <2>1. status[f] \notin {"absent", "received"}
    BY <1>2, DepsFacts DEF OrderInv
  <2>2. QED
    BY <2>1
<1>3. QED
  BY <1>1, <1>2 DEF OrderInv

\* Whoever processes the event, in a round, at a click or in a release.
LEMMA ProcessOrder ==
  ASSUME OrderInv, RowsOK, NEW e \in Events, NEW opts, NEW r, Process(e, opts, r),
         status[e] \in {"received", "held", "refused", "skipped"},
         opts.mode = "auto" =>
            \/ status[e] = "held"
            \/ \A d \in Deps[e] : status[d] \notin {"absent", "received"}
  PROVE  OrderInv'
<1>1. Effect(e, opts, r) /\ Others(e)
  BY ProcessHasEffect, ProcessOthers
<1>2. \A f \in Events \ {e} : status'[f] = status[f]
  BY <1>1 DEF Others
<1>3. \/ status'[e] = status[e]
      \/ status'[e] \notin {"absent", "received", "held"}
      \/ status'[e] = "held" /\ (~Blocked(e) \/ opts.mode = "auto")
  BY <1>1 DEF Effect, NoEffect, PutEffect, DuplicateEffect, BookEffect
<1>4. ~Blocked(e) => \A d \in Deps[e] : status[d] \notin {"absent", "received"}
  BY DEF Blocked, Settled, Booked
<1>5. QED
  BY <1>2, <1>3, <1>4, OrderKept

LEMMA OrderPreserved ==
  ASSUME ReviewInv, OrderInv, [Next]_vars
  PROVE  OrderInv'
<1>0. RowsOK /\ \A f \in Events : EventInv(f)
  BY TypeParts DEF ReviewInv
<1>1. ASSUME NEW e \in Events, Upload(e) \/ UploadRefused(e) PROVE OrderInv'
  <2>1. /\ InOrder(e) /\ status'[e] \in {"received", "refused"} /\ status[e] = "absent"
        /\ \A f \in Events \ {e} : status'[f] = status[f]
    BY <1>0, <1>1 DEF Upload, UploadRefused, RowsOK, InOrder
  <2>2. QED
    BY <2>1, OrderKept
<1>2. ASSUME NEW e \in Events, Merge(e) PROVE OrderInv'
  <2>1. PICK r \in Results : Process(e, OnMerge, r)
    BY <1>2 DEF Merge
  <2>2. status[e] = "received"
    BY <1>2 DEF Merge
  <2>3. ASSUME NEW d \in Deps[e] PROVE status[d] \notin {"absent", "received"}
    <3>1. d \in Events /\ Rank[d] < Rank[e] /\ Rank[d] \in Nat /\ Rank[e] \in Nat
      BY <2>3, DepsFacts, ReviewAssumption
    <3>2. QED
      BY <1>2, <2>2, <3>1 DEF Merge, OrderInv
  <2>4. QED
    BY <1>0, <2>1, <2>2, <2>3, ProcessOrder
<1>3. ASSUME NEW e \in Events, ReleaseOne(e) PROVE OrderInv'
  <2>1. PICK r \in Results : Process(e, OnRelease, r)
    BY <1>3 DEF ReleaseOne
  <2>2. status[e] = "held"
    BY <1>3 DEF ReleaseOne, ReviewInv, TaskInv, TodoHeld
  <2>3. QED
    BY <1>0, <2>1, <2>2, ProcessOrder
<1>4. ASSUME NEW e \in Events, NEW k \in Kinds, Apply(e, k) \/ BookAnyway(e) PROVE OrderInv'
  <2>1. PICK B, r : Process(e, [OnApply EXCEPT !.bypass = B], r)
    BY <1>4 DEF Apply, BookAnyway
  <2>2. [OnApply EXCEPT !.bypass = B].mode = "apply"
    BY DEF OnApply
  <2>3. \E j \in Kinds : open[e][j] > 0
    BY <1>4, KindFacts DEF Apply, BookAnyway
  <2>4. status[e] \in {"held", "refused", "skipped"}
    BY <1>0, <2>3 DEF EventInv, RowsOK, Statuses
  <2>5. QED
    BY <1>0, <2>1, <2>2, <2>4, ProcessOrder
<1>5. ASSUME NEW e \in Events, NEW k \in Kinds, Dismiss(e, k) PROVE OrderInv'
  <2>1. /\ \A f \in Events \ {e} : status'[f] = status[f]
        /\ status'[e] = "dismissed"
    BY <1>0, <1>5 DEF Dismiss, RowsOK
  <2>2. status[e] # "absent"
    BY <1>0, <1>5 DEF Dismiss, EventInv
  <2>3. QED
    BY <2>1, <2>2, OrderKept
<1>6. ASSUME UNCHANGED status PROVE OrderInv'
  BY <1>6 DEF OrderInv
<1>7. ASSUME \/ \E e \in Events, m \in Matches : Match(e, m)
             \/ \E e \in Events : MarkReviewed(e)
             \/ ResolveItem \/ ListDependants \/ CloseStale \/ Crash \/ UNCHANGED vars
      PROVE  UNCHANGED status
  BY <1>7 DEF Match, MarkReviewed, ResolveItem, ListDependants, CloseStale, Crash, vars, replayVars
<1>8. QED
  BY <1>1, <1>2, <1>3, <1>4, <1>5, <1>6, <1>7, KindFacts DEF Next, Server

LEMMA ReleasedPreserved ==
  ASSUME ReviewInv, ReleasedInv, [Next]_vars
  PROVE  ReleasedInv'
<1>0. /\ TaskOK /\ task.released \subseteq Events
      /\ \A f \in Events : Settled(f) => Settled(f)'
  BY SettledStays DEF ReviewInv, TaskInv, TaskOK
<1>1. ASSUME task' = task PROVE ReleasedInv'
  BY <1>0, <1>1 DEF ReleasedInv
<1>2. ASSUME task' = Idle PROVE ReleasedInv'
  BY <1>2, IdleTask DEF ReleasedInv
<1>3. ASSUME NEW e \in Events, task' = Release(e), Settled(e)' PROVE ReleasedInv'
  <2>1. task'.released = {e} /\ task'.tried = {} /\ task'.todo = {}
    BY <1>3, IdleTask
  <2>2. QED
    BY <1>3, <2>1 DEF ReleasedInv
<1>4. ASSUME NEW e \in Events, NEW k \in Kinds, Apply(e, k) \/ BookAnyway(e) PROVE ReleasedInv'
  <2>0. RowsOK
    BY TypeParts DEF ReviewInv
  <2>1. PICK B, r, j : /\ Process(e, [OnApply EXCEPT !.bypass = B], r)
                       /\ task' = AfterBooking(e, j, r)
    BY <1>4 DEF Apply, BookAnyway
  <2>2. CASE r = "booked"
    <3>1. BookEffect(e, [OnApply EXCEPT !.bypass = B], r)
      BY <2>0, <2>1, <2>2, ProcessHasEffect
         DEF Effect, NoEffect, PutEffect, DuplicateEffect
    <3>2. Settled(e)'
      BY <3>1 DEF BookEffect, Settled, Booked
    <3>3. QED
      BY <1>3, <2>1, <2>2, <3>2 DEF AfterBooking
  <2>3. CASE r # "booked"
    <3>1. task'.released = {} /\ task'.tried = {} /\ task'.todo = {}
      BY <2>1, <2>3 DEF AfterBooking, Idle
    <3>2. QED
      BY <3>1 DEF ReleasedInv
  <2>4. QED
    BY <2>2, <2>3
<1>5. ASSUME NEW e \in Events, NEW k \in Kinds, Dismiss(e, k) \/ MarkReviewed(e)
      PROVE  ReleasedInv'
  <2>0. RowsOK
    BY TypeParts DEF ReviewInv
  <2>1. CASE LinkToMatch(e) /\ AfterLink(e)
    <3>1. link'[e] # link[e] => link'[e] # "none"
      BY <2>0, <2>1, LinkFacts
    <3>2. status'[e] \in {"skipped", "dismissed"}
      BY <1>5, <2>0 DEF Dismiss, MarkReviewed, RowsOK, ReviewInv, EventInv
    <3>3. link'[e] # link[e] => Settled(e)'
      BY <3>1, <3>2 DEF Settled
    <3>4. QED
      BY <1>2, <1>3, <2>1, <3>3 DEF AfterLink
  <2>2. CASE UNCHANGED <<link, task>>
    BY <1>1, <2>2
  <2>3. QED
    BY <1>5, <2>1, <2>2 DEF Dismiss, MarkReviewed
<1>6. ASSUME ListDependants PROVE ReleasedInv'
  <2> DEFINE next == HeldDependants(task.released) \ task.tried
  <2>1. CASE task' = [task EXCEPT !.todo = next]
    <3>1. next \subseteq Events /\ \A f \in next : Deps[f] \cap task.released # {}
      BY DEF HeldDependants
    <3>2. task'.released = task.released /\ task'.tried = task.tried /\ task'.todo = next
      <4> HIDE DEF next
      <4>1. QED
        BY <1>0, <2>1 DEF TaskOK
    <3>3. QED
      BY <1>0, <3>1, <3>2 DEF ReleasedInv
  <2>2. QED
    BY <1>2, <1>6, <2>1 DEF ListDependants
<1>7. ASSUME NEW e \in Events, ReleaseOne(e) PROVE ReleasedInv'
  <2>0. RowsOK /\ e \in task.todo /\ task.op = "release"
    BY <1>7, TypeParts DEF ReviewInv, ReleaseOne
  <2>1. PICK r \in Results :
        /\ Process(e, OnRelease, r)
        /\ LET rest == [task EXCEPT !.todo = @ \ {e}, !.tried = @ \cup {e}]
           IN  task' =
                CASE r = "booked"    -> [rest EXCEPT !.released = @ \cup {e}]
                  [] r = "technical" -> rest
                  [] OTHER           -> [rest EXCEPT !.op = "stale", !.event = {e},
                                                     !.kind = {open[e]["waiting"]}]
    BY <1>7 DEF ReleaseOne
  <2>2. /\ task'.todo = task.todo \ {e}
        /\ task'.tried = task.tried \cup {e}
        /\ task'.released = IF r = "booked" THEN task.released \cup {e} ELSE task.released
    BY <1>0, <2>0, <2>1, ReleaseOneTask
  <2>3. r = "booked" => Settled(e)'
    <3>1. ASSUME r = "booked" PROVE BookEffect(e, OnRelease, r)
      BY <3>1, <2>0, <2>1, ProcessHasEffect DEF Effect, NoEffect, PutEffect, DuplicateEffect
    <3>2. QED
      BY <3>1 DEF BookEffect, Settled, Booked
  <2>4. QED
    BY <1>0, <2>0, <2>2, <2>3 DEF ReleasedInv
<1>8. ASSUME CloseStale PROVE ReleasedInv'
  <2>1. task' = [task EXCEPT !.op = "release", !.event = {}, !.kind = {}]
    BY <1>8 DEF CloseStale
  <2>2. task'.released = task.released /\ task'.tried = task.tried /\ task'.todo = task.todo
    BY <1>0, <2>1 DEF TaskOK
  <2>3. QED
    BY <1>0, <2>2 DEF ReleasedInv
<1>9. ASSUME \/ \E e \in Events : Upload(e) \/ UploadRefused(e) \/ Merge(e)
             \/ \E e \in Events, m \in Matches : Match(e, m)
             \/ UNCHANGED vars
      PROVE  task' = task
  BY <1>9 DEF Upload, UploadRefused, Merge, Match, vars
<1>10. ResolveItem \/ Crash => task' = Idle
  BY DEF ResolveItem, Crash
<1>11. QED
  BY <1>1, <1>2, <1>4, <1>5, <1>6, <1>7, <1>8, <1>9, <1>10, KindFacts DEF Next, Server

\* Whether an event is blocked depends on the rows it refers to.
LEMMA BlockedByDeps ==
  ASSUME NEW e \in Events, NEW x \in Events, Others(x), x \notin Deps[e]
  PROVE  (Blocked(e)' <=> Blocked(e)) /\ (Unmapped(e)' <=> Unmapped(e))
<1>1. \A d \in Deps[e] : status'[d] = status[d] /\ link'[d] = link[d]
  BY DepsFacts DEF Others
<1>2. QED
  BY <1>1 DEF Blocked, Unmapped, Settled, Booked

\* One parent at most: an event that refers to x refers to nothing else.
LEMMA BlockedByParent ==
  ASSUME NEW e \in Events, NEW x \in Deps[e], OneParent(e),
         Settled(x)' => Settled(x), link'[x] = link[x]
  PROVE  (Blocked(e) => Blocked(e)') /\ (Unmapped(e) => Unmapped(e)')
<1>1. \A d \in Deps[e] : d = x
  BY DEF OneParent
<1>2. QED
  BY <1>1 DEF Blocked, Unmapped

\* Between two requests, the events that wait are held and have a parent to wait
\* for; a step that settles x leaves them blocked, or starts to release x's
\* dependants.
LEMMA IdleOthersWait ==
  ASSUME OrderInv, NEW x \in Events, Others(x), task = Idle,
         NEW e \in Events \ {x}, WaitOK(e),
         \/ link'[x] = link[x] /\ (Settled(x)' => Settled(x))
         \/ task' = Release(x)
         \/ status[x] \in {"absent", "received"}
  PROVE  WaitOK(e)'
<1> SUFFICES ASSUME Waiting(e)' PROVE /\ status'[e] = "held"
                                      /\ Blocked(e)' \/ Unmapped(e)' \/ Pending(e)'
  BY DEF WaitOK
<1>1. Waiting(e)
  BY DEF Waiting, Others, OneParent
<1>2. status[e] = "held" /\ (Blocked(e) \/ Unmapped(e))
  BY <1>1, IdleTask DEF WaitOK, Closing, Pending
<1>3. status'[e] = "held"
  BY <1>2 DEF Others
<1>4. CASE x \notin Deps[e]
  BY <1>2, <1>3, <1>4, BlockedByDeps
<1>5. CASE x \in Deps[e]
  <2>1. status[x] \notin {"absent", "received"}
    BY <1>2, <1>5 DEF OrderInv
  <2>2. CASE task' = Release(x)
    <3>1. task'.op = "release" /\ task'.released = {x} /\ task'.tried = {}
      BY <2>2, IdleTask
    <3>2. QED
      BY <1>3, <1>5, <3>1 DEF Pending
  <2>3. CASE link'[x] = link[x] /\ (Settled(x)' => Settled(x))
    <3>1. OneParent(e)
      BY <1>1 DEF Waiting
    <3>2. QED
      BY <1>2, <1>3, <1>5, <2>3, <3>1, BlockedByParent
  <2>4. QED
    BY <2>1, <2>2, <2>3
<1>6. QED
  BY <1>4, <1>5

LEMMA WaitUpload ==
  ASSUME ReviewInv, OrderInv, \A e \in Events : WaitOK(e),
         NEW x \in Events, Upload(x) \/ UploadRefused(x)
  PROVE  \A e \in Events : WaitOK(e)'
<1>1. RowsOK
  BY TypeParts DEF ReviewInv
<1>2. task = Idle /\ status[x] = "absent"
  BY DEF Upload, UploadRefused, InOrder
<1>3. Others(x) /\ open'[x]["waiting"] = open[x]["waiting"]
  <2>1. CASE open' = open
    BY <1>1, <2>1 DEF Upload, UploadRefused, Others, RowsOK
  <2>2. CASE UploadRefused(x) /\ Insert(x, "refused")
    <3>1. /\ \A f \in Events \ {x} : open'[f] = open[f]
          /\ Adds(x, "refused")
      BY <1>1, <2>2, InsertAdds, KindFacts
    <3>2. QED
      BY <1>1, <2>2, <3>1, KindFacts DEF UploadRefused, Others, Adds, RowsOK
  <2>3. QED
    BY <2>1, <2>2 DEF Upload, UploadRefused
<1>4. open[x]["waiting"] = 0
  BY <1>2, KindFacts DEF ReviewInv, EventInv
<1>5. WaitOK(x)'
  BY <1>3, <1>4 DEF WaitOK, Waiting
<1>6. QED
  BY <1>2, <1>3, <1>5, IdleOthersWait

LEMMA WaitMerge ==
  ASSUME ReviewInv, OrderInv, \A e \in Events : WaitOK(e), NEW x \in Events, Merge(x)
  PROVE  \A e \in Events : WaitOK(e)'
<1>1. RowsOK
  BY TypeParts DEF ReviewInv
<1>2. PICK r \in Results : Process(x, OnMerge, r)
  BY DEF Merge
<1>3. Others(x) /\ Effect(x, OnMerge, r)
  BY <1>1, <1>2, ProcessOthers, ProcessHasEffect
<1>4. task = Idle /\ status[x] = "received" /\ open[x]["waiting"] = 0
  BY KindFacts DEF Merge, ReviewInv, EventInv
<1>5. WaitOK(x)'
  <2>1. CASE status'[x] = "held" /\ (Blocked(x) \/ Unmapped(x))
    BY <1>3, <2>1, DepsFacts, BlockedByDeps DEF WaitOK
  <2>2. CASE open'[x]["waiting"] = 0
    BY <2>2 DEF WaitOK, Waiting
  <2>3. QED
    BY <1>3, <1>4, <2>1, <2>2, KindFacts
       DEF Effect, NoEffect, PutEffect, DuplicateEffect, BookEffect, Adds
<1>6. QED
  BY <1>3, <1>4, <1>5, IdleOthersWait

\* Apply and Book anyway find no event that waits and could be booked: a
\* release would have done it.
LEMMA WaitAdminBooking ==
  ASSUME ReviewInv, OrderInv, \A e \in Events : WaitOK(e),
         NEW x \in Events, NEW k \in Kinds, NEW B, NEW r,
         open[x][k] > 0, task = Idle,
         Process(x, [OnApply EXCEPT !.bypass = B], r),
         task' = AfterBooking(x, k, r)
  PROVE  \A e \in Events : WaitOK(e)'
<1> DEFINE opts == [OnApply EXCEPT !.bypass = B]
<1>0. opts.mode = "apply" /\ opts.closes = Kinds
  BY DEF OnApply
<1> HIDE DEF opts
<1>1. RowsOK /\ status[x] \in {"held", "refused", "skipped"}
  BY TypeParts DEF ReviewInv, EventInv, RowsOK, Statuses
<1>2. Others(x) /\ Effect(x, opts, r) /\ (attempts'[x] = 0 => attempts[x] = 0)
  BY <1>1, ProcessOthers, ProcessHasEffect, ProcessAttempts DEF opts
<1>3. WaitOK(x)'
  <2> SUFFICES ASSUME Waiting(x)' PROVE WaitOK(x)'
    BY DEF WaitOK
  <2>1. CASE BookEffect(x, opts, r)
    BY <1>0, <2>1, KindFacts DEF BookEffect, Waiting
  <2>2. CASE ~BookEffect(x, opts, r)
    <3>1. open'[x]["waiting"] = open[x]["waiting"]
      BY <1>0, <1>2, <2>2, KindFacts DEF Effect, NoEffect, PutEffect, DuplicateEffect, Adds
    <3>2. Waiting(x)
      BY <1>2, <3>1 DEF Waiting, OneParent
    <3>3. status[x] = "held" /\ (Blocked(x) \/ Unmapped(x))
      BY <3>2, IdleTask DEF WaitOK, Closing, Pending
    <3>4. NoEffect(opts, r)
      BY <1>0, <1>2, <2>2, <3>3 DEF Effect, PutEffect, DuplicateEffect
    <3>5. status'[x] = "held"
      BY <3>3, <3>4 DEF NoEffect
    <3>6. QED
      BY <1>2, <3>3, <3>5, DepsFacts, BlockedByDeps DEF WaitOK
  <2>3. QED
    BY <2>1, <2>2
<1>4. \/ link'[x] = link[x] /\ (Settled(x)' => Settled(x))
      \/ task' = Release(x)
  <2>1. CASE BookEffect(x, opts, r)
    BY <2>1 DEF BookEffect, AfterBooking
  <2>2. CASE ~BookEffect(x, opts, r)
    <3>1. link' = link
      BY <1>0, <1>2, <2>2 DEF Effect, NoEffect, PutEffect, DuplicateEffect
    <3>2. status'[x] = status[x] \/ status'[x] \in {"held", "skipped"}
      BY <1>0, <1>2, <2>2 DEF Effect, NoEffect, PutEffect, DuplicateEffect
    <3>3. link[x] # "none" => status[x] = "skipped"
      BY <1>1 DEF ReviewInv, EventInv
    <3>4. QED
      BY <1>1, <3>1, <3>2, <3>3 DEF Settled, Booked
  <2>3. QED
    BY <2>1, <2>2
<1>5. QED
  BY <1>2, <1>3, <1>4, IdleOthersWait

LEMMA WaitLink ==
  ASSUME ReviewInv, OrderInv, \A e \in Events : WaitOK(e),
         NEW x \in Events, NEW k \in Kinds, Dismiss(x, k) \/ MarkReviewed(x)
  PROVE  \A e \in Events : WaitOK(e)'
<1>1. RowsOK /\ task = Idle
  BY TypeParts DEF ReviewInv, Dismiss, MarkReviewed
<1>2. "certain_duplicate" \in Kinds /\ open[x] \in [Kinds -> 0..MaxOpen]
  BY <1>1, KindFacts DEF RowsOK
<1>3. /\ \A f \in Events \ {x} : open'[f] = open[f]
      /\ Dismiss(x, k) => open'[x]["waiting"] = 0
      /\ MarkReviewed(x) => open'[x]["waiting"] = open[x]["waiting"]
  <2>1. CASE Dismiss(x, k)
    <3>1. open' = [open EXCEPT ![x] = NoItems] /\ NoItems["waiting"] = 0
      BY <2>1, KindFacts DEF Dismiss, NoItems
    <3>2. ~MarkReviewed(x) \/ open'[x]["waiting"] = open[x]["waiting"]
      <4>1. ASSUME MarkReviewed(x) PROVE FALSE
        <5>1. status'[x] = "dismissed" /\ status'[x] = status[x]
          BY <1>1, <2>1, <4>1 DEF Dismiss, MarkReviewed, RowsOK
        <5>2. QED
          BY <1>2, <2>1, <5>1 DEF Dismiss, ReviewInv, EventInv
      <4>2. QED
        BY <4>1
    <3>3. QED
      BY <1>1, <3>1, <3>2 DEF RowsOK
  <2>2. CASE MarkReviewed(x)
    <3>1. open' = [open EXCEPT ![x] = [open[x] EXCEPT !["certain_duplicate"] =
                                          open[x]["certain_duplicate"] - 1]]
      BY <2>2 DEF MarkReviewed
    <3>2. [open[x] EXCEPT !["certain_duplicate"] = open[x]["certain_duplicate"] - 1]["waiting"]
            = open[x]["waiting"]
      BY <1>2, KindFacts
    <3>3. ~Dismiss(x, k)
      <4>1. ASSUME Dismiss(x, k) PROVE FALSE
        <5>1. status'[x] = "dismissed" /\ status'[x] = status[x]
          BY <1>1, <2>2, <4>1 DEF Dismiss, MarkReviewed, RowsOK
        <5>2. QED
          BY <1>2, <4>1, <5>1 DEF Dismiss, ReviewInv, EventInv
      <4>2. QED
        BY <4>1
    <3>4. QED
      BY <1>1, <3>1, <3>2, <3>3 DEF RowsOK
  <2>3. QED
    BY <2>1, <2>2
<1>4. Others(x)
  BY <1>1, <1>3, LinkFacts DEF Others, Dismiss, MarkReviewed, RowsOK
<1>5. WaitOK(x)'
  <2>1. CASE Dismiss(x, k)
    BY <1>3, <2>1 DEF WaitOK, Waiting
  <2>2. CASE MarkReviewed(x)
    <3>1. status[x] = "skipped"
      BY <2>2 DEF MarkReviewed, ReviewInv, EventInv
    <3>2. ~Waiting(x)
      BY <1>1, <3>1, IdleTask DEF WaitOK, Closing
    <3>3. ~Waiting(x)'
      BY <1>3, <2>2, <3>2 DEF Waiting, OneParent, MarkReviewed
    <3>4. QED
      BY <3>3 DEF WaitOK
  <2>3. QED
    BY <2>1, <2>2
<1>6. \/ link'[x] = link[x] /\ (Settled(x)' => Settled(x))
      \/ task' = Release(x)
  <2>1. CASE LinkToMatch(x) /\ AfterLink(x)
    <3>1. CASE link'[x] # link[x]
      BY <2>1, <3>1 DEF AfterLink
    <3>2. CASE link[x] = "none" /\ link'[x] = link[x]
      <4>1. status'[x] = "dismissed" \/ status'[x] = status[x]
        BY <1>1 DEF Dismiss, MarkReviewed, RowsOK
      <4>2. QED
        BY <3>2, <4>1 DEF Settled, Booked
    <3>3. CASE link[x] # "none" /\ link'[x] = link[x]
      <4>1. status[x] \in {"booked", "applied", "skipped", "dismissed"}
        BY <3>3 DEF ReviewInv, EventInv
      <4>2. QED
        BY <3>3, <4>1 DEF Settled, Booked
    <3>4. QED
      BY <3>1, <3>2, <3>3
  <2>2. CASE Dismiss(x, k) /\ UNCHANGED <<link, task>>
    <3>1. CASE link[x] = "none"
      <4>1. status'[x] = "dismissed"
        BY <1>1, <2>2 DEF Dismiss, RowsOK
      <4>2. QED
        BY <2>2, <3>1, <4>1 DEF Settled, Booked
    <3>2. CASE link[x] # "none"
      <4>1. status[x] \in {"booked", "applied", "skipped", "dismissed"}
        BY <3>2 DEF ReviewInv, EventInv
      <4>2. QED
        BY <2>2, <3>2, <4>1 DEF Settled, Booked
    <3>3. QED
      BY <3>1, <3>2
  <2>3. QED
    BY <2>1, <2>2 DEF Dismiss, MarkReviewed
<1>7. QED
  BY <1>1, <1>4, <1>5, <1>6, IdleOthersWait

LEMMA WaitMatch ==
  ASSUME \A e \in Events : WaitOK(e), UNCHANGED <<replayVars, task>>
  PROVE  \A e \in Events : WaitOK(e)'
BY DEF WaitOK, Waiting, OneParent, Closing, Pending, Blocked, Unmapped, Settled, Booked, replayVars

\* While an item is resolved, nothing is pending.
LEMMA WaitResolve ==
  ASSUME ReviewInv, \A e \in Events : WaitOK(e), ResolveItem
  PROVE  \A e \in Events : WaitOK(e)'
<1>1. RowsOK /\ UNCHANGED <<status, link, attempts>> /\ task.op = "resolve"
  BY TypeParts DEF ReviewInv, ResolveItem
<1>2. PICK x \in task.event, k \in task.kind :
        open' = [open EXCEPT ![x][k] = IF @ > 0 THEN @ - 1 ELSE 0]
  BY DEF ResolveItem
<1>3. x \in Events /\ k \in Kinds
  BY <1>1, <1>2 DEF ReviewInv, TaskInv, TaskOK, ResolveSafe
<1>4. open[x] \in [Kinds -> 0..MaxOpen] /\ MaxOpen \in Nat
  BY <1>1, <1>3, ReviewAssumption DEF RowsOK
<1>5. open' = [open EXCEPT ![x] = [open[x] EXCEPT ![k] = IF open[x][k] > 0
                                                        THEN open[x][k] - 1 ELSE 0]]
  BY <1>2
<1>6. \A e \in Events : open'[e]["waiting"] > 0 => open[e]["waiting"] > 0
  BY <1>1, <1>3, <1>4, <1>5, KindFacts DEF RowsOK
<1>7. ASSUME NEW e \in Events, Waiting(e)' PROVE WaitOK(e)'
  <2>1. Waiting(e)
    BY <1>1, <1>6, <1>7 DEF Waiting, OneParent
  <2>2. status[e] = "held" /\ (Blocked(e) \/ Unmapped(e))
    BY <1>1, <2>1 DEF WaitOK, Closing, Pending
  <2>3. QED
    BY <1>1, <2>2 DEF WaitOK, Blocked, Unmapped, Settled, Booked
<1>8. QED
  BY <1>7 DEF WaitOK

\* What is pending and not listed yet is listed, and the release ends only when
\* nothing is.
LEMMA WaitList ==
  ASSUME ReviewInv, \A e \in Events : WaitOK(e), ListDependants
  PROVE  \A e \in Events : WaitOK(e)'
<1>1. /\ UNCHANGED <<status, open, link, attempts>>
      /\ TaskOK /\ task.op = "release" /\ task.todo = {}
  BY DEF ListDependants, replayVars, ReviewInv, TaskInv
<1> DEFINE next == HeldDependants(task.released) \ task.tried
<1>2. ASSUME NEW e \in Events, Waiting(e)' PROVE WaitOK(e)'
  <2>1. Waiting(e)
    BY <1>1, <1>2 DEF Waiting, OneParent
  <2>2. status[e] = "held" /\ status'[e] = "held"
    BY <1>1, <2>1 DEF WaitOK, Closing
  <2>3. (Blocked(e) => Blocked(e)') /\ (Unmapped(e) => Unmapped(e)')
    BY <1>1 DEF Blocked, Unmapped, Settled, Booked
  <2>4. Pending(e) => e \in next
    BY <1>1, <2>2 DEF Pending, Closing, HeldDependants
  <2>5. e \in next => Pending(e)'
    <3>1. e \in next => task' = [task EXCEPT !.todo = next]
      BY DEF ListDependants
    <3> HIDE DEF next
    <3>2. e \in next => task'.op = "release" /\ task'.todo = next
      BY <1>1, <3>1 DEF TaskOK
    <3>3. QED
      BY <3>2 DEF Pending
  <2>6. QED
    BY <2>1, <2>2, <2>3, <2>4, <2>5 DEF WaitOK
<1>3. QED
  BY <1>2 DEF WaitOK

\* The `waiting` items of the event that was settled another way are closed.
LEMMA WaitCloseStale ==
  ASSUME ReviewInv, \A e \in Events : WaitOK(e), CloseStale
  PROVE  \A e \in Events : WaitOK(e)'
<1>1. RowsOK /\ TaskOK /\ task.op = "stale" /\ UNCHANGED <<status, link, attempts>>
  BY TypeParts DEF ReviewInv, TaskInv, CloseStale
<1>2. PICK x \in task.event, n \in task.kind :
        open' = [open EXCEPT ![x]["waiting"] = @ - n]
  BY DEF CloseStale
<1>3. x \in Events /\ n \in Nat
  BY <1>1, <1>2 DEF TaskOK, ReviewInv, TaskInv, StaleSafe
<1>4. open[x] \in [Kinds -> 0..MaxOpen] /\ MaxOpen \in Nat /\ open[x]["waiting"] \in Nat
  BY <1>1, <1>3, KindFacts, ReviewAssumption DEF RowsOK
<1>5. open' = [open EXCEPT ![x] = [open[x] EXCEPT !["waiting"] = open[x]["waiting"] - n]]
  BY <1>2
<1>6. /\ open'[x]["waiting"] = open[x]["waiting"] - n
      /\ \A f \in Events \ {x} : open'[f] = open[f]
  BY <1>1, <1>3, <1>4, <1>5, KindFacts DEF RowsOK
<1>7. /\ task'.op = "release" /\ task'.todo = task.todo /\ task'.tried = task.tried
      /\ task'.released = task.released
  <2>1. task' = [task EXCEPT !.op = "release", !.event = {}, !.kind = {}]
    BY DEF CloseStale
  <2>2. QED
    BY <1>1, <2>1 DEF TaskOK
<1>8. \A e \in task.event : e = x
  BY <1>1, <1>2 DEF ReviewInv, TaskInv, StaleSafe
<1>9. ASSUME NEW e \in Events, Waiting(e)' PROVE WaitOK(e)'
  <2>1. Waiting(e)
    BY <1>1, <1>3, <1>4, <1>6, <1>9 DEF Waiting, OneParent
  <2>2. ~Closing(e)
    <3>1. CASE e = x
      BY <1>2, <1>3, <1>4, <1>6, <1>9, <3>1 DEF Closing, Waiting
    <3>2. CASE e # x
      BY <1>8, <3>2 DEF Closing
    <3>3. QED
      BY <3>1, <3>2
  <2>3. status[e] = "held" /\ (Blocked(e) \/ Unmapped(e) \/ Pending(e))
    BY <2>1, <2>2 DEF WaitOK
  <2>4. (Blocked(e) => Blocked(e)') /\ (Unmapped(e) => Unmapped(e)')
    BY <1>1 DEF Blocked, Unmapped, Settled, Booked
  <2>5. Pending(e) => Pending(e)'
    BY <1>1, <1>7, <2>2 DEF Pending
  <2>6. QED
    BY <1>1, <2>3, <2>4, <2>5 DEF WaitOK
<1>10. QED
  BY <1>9 DEF WaitOK

\* A dependant leaves the list: booked, tried in vain, or with `waiting` items to
\* be closed.  Booking it starts on its own dependants, none of them tried yet:
\* an event is tried only after its parent was settled.
LEMMA WaitReleaseOne ==
  ASSUME ReviewInv, ReleasedInv, \A e \in Events : WaitOK(e), NEW x \in Events, ReleaseOne(x)
  PROVE  \A e \in Events : WaitOK(e)'
<1>1. RowsOK /\ TaskOK /\ x \in task.todo /\ task.op = "release" /\ status[x] = "held"
  BY TypeParts DEF ReviewInv, TaskInv, TodoHeld, ReleaseOne
<1>2. PICK r \in Results :
        /\ Process(x, OnRelease, r)
        /\ LET rest == [task EXCEPT !.todo = @ \ {x}, !.tried = @ \cup {x}]
           IN  task' =
                CASE r = "booked"    -> [rest EXCEPT !.released = @ \cup {x}]
                  [] r = "technical" -> rest
                  [] OTHER           -> [rest EXCEPT !.op = "stale", !.event = {x},
                                                     !.kind = {open[x]["waiting"]}]
  BY DEF ReleaseOne
<1>3. OnRelease.mode = "auto" /\ OnRelease.closes = {"waiting"}
  BY DEF OnRelease, OnMerge
<1>4. /\ task'.todo = task.todo \ {x}
      /\ task'.tried = task.tried \cup {x}
      /\ task'.released = IF r = "booked" THEN task.released \cup {x} ELSE task.released
      /\ IF r \in {"booked", "technical"}
         THEN task'.op = "release"
         ELSE task'.op = "stale" /\ task'.event = {x} /\ task'.kind = {open[x]["waiting"]}
  BY <1>1, <1>2, ReleaseOneTask
<1>5. Others(x) /\ Effect(x, OnRelease, r)
  BY <1>1, <1>2, ProcessOthers, ProcessHasEffect
<1>6. r = "technical" => attempts'[x] > 0
  BY <1>1, <1>2, <1>3, ProcessAttempts
<1>7. WaitOK(x)'
  <2> SUFFICES ASSUME Waiting(x)' PROVE WaitOK(x)'
    BY DEF WaitOK
  <2>1. r # "technical"
    BY <1>1, <1>2, <1>6, ProcessHasEffect DEF Waiting, RowsOK
  <2>2. r # "booked"
    <3>1. CASE r = "booked"
      <4>1. BookEffect(x, OnRelease, r)
        BY <1>5, <3>1 DEF Effect, NoEffect, PutEffect, DuplicateEffect
      <4>2. QED
        BY <1>3, <4>1, KindFacts DEF BookEffect, Waiting
    <3>2. QED
      BY <3>1
  <2>3. task'.op = "stale" /\ task'.event = {x} /\ task'.kind = {open[x]["waiting"]}
    BY <1>4, <2>1, <2>2
  <2>4. CASE open'[x]["waiting"] = open[x]["waiting"]
    BY <2>3, <2>4 DEF WaitOK, Closing, Pending
  <2>5. CASE status'[x] = "held" /\ (Blocked(x) \/ Unmapped(x))
    BY <1>5, <2>5, DepsFacts, BlockedByDeps DEF WaitOK
  <2>6. QED
    BY <1>3, <1>5, <2>1, <2>2, <2>4, <2>5, KindFacts
       DEF Effect, NoEffect, PutEffect, DuplicateEffect, BookEffect, Adds
<1>8. ASSUME NEW e \in Events \ {x}, Waiting(e)' PROVE WaitOK(e)'
  <2>1. Waiting(e)
    BY <1>5, <1>8 DEF Others, Waiting, OneParent
  <2>2. status[e] = "held" /\ (Blocked(e) \/ Unmapped(e) \/ Pending(e))
    BY <1>1, <2>1 DEF WaitOK, Closing
  <2>3. status'[e] = "held"
    BY <1>5, <2>2 DEF Others
  <2>4. Pending(e) => Pending(e)'
    BY <1>1, <1>4 DEF Pending, Closing
  <2>5. CASE x \notin Deps[e]
    BY <1>5, <2>2, <2>3, <2>4, <2>5, BlockedByDeps DEF WaitOK
  <2>6. CASE x \in Deps[e] /\ BookEffect(x, OnRelease, r)
    <3>1. x \in task'.released /\ task'.op = "release"
      BY <1>4, <2>6 DEF BookEffect
    <3>2. ~Settled(x)
      BY <1>1, <2>6 DEF BookEffect, Settled, Booked
    <3>3. Deps[e] \cap task.released = {}
      BY <2>1, <2>6, <3>2 DEF Waiting, OneParent, ReleasedInv
    <3>4. e \notin task'.tried
      BY <1>4, <3>3 DEF ReleasedInv
    <3>5. QED
      BY <2>3, <2>6, <3>1, <3>4 DEF WaitOK, Pending
  <2>7. CASE x \in Deps[e] /\ ~BookEffect(x, OnRelease, r)
    <3>1. link' = link
      BY <1>5, <2>7 DEF Effect, NoEffect, PutEffect, DuplicateEffect
    <3>2. link[x] = "none"
      BY <1>1 DEF ReviewInv, EventInv
    <3>3. status'[x] \notin {"booked", "applied"}
      BY <1>1, <1>5, <2>7 DEF Effect, NoEffect, PutEffect, DuplicateEffect
    <3>4. ~Settled(x)'
      BY <3>1, <3>2, <3>3 DEF Settled, Booked
    <3>5. OneParent(e)
      BY <2>1 DEF Waiting
    <3>6. QED
      BY <2>2, <2>3, <2>4, <2>7, <3>1, <3>4, <3>5, BlockedByParent DEF WaitOK
  <2>8. QED
    BY <2>5, <2>6, <2>7
<1>9. QED
  BY <1>7, <1>8 DEF WaitOK

LEMMA StopsCounted ==
  ASSUME [Next]_vars
  PROVE  crashes' = crashes \/ crashes' = crashes + 1
<1>1. ASSUME NEW e \in Events,
             \/ Upload(e) \/ UploadRefused(e) \/ Merge(e) \/ BookAnyway(e) \/ MarkReviewed(e)
             \/ ReleaseOne(e)
      PROVE  crashes' = crashes \/ crashes' = crashes + 1
  BY <1>1 DEF Upload, UploadRefused, Merge, BookAnyway, MarkReviewed, ReleaseOne
<1>2. ASSUME NEW e \in Events, NEW k \in Kinds, Apply(e, k) \/ Dismiss(e, k)
      PROVE  crashes' = crashes
  BY <1>2 DEF Apply, Dismiss
<1>3. ASSUME NEW e \in Events, NEW m \in Matches, Match(e, m) PROVE crashes' = crashes
  BY <1>3 DEF Match
<1>4. ResolveItem \/ ListDependants \/ CloseStale \/ UNCHANGED vars => crashes' = crashes
  BY DEF ResolveItem, ListDependants, CloseStale, vars
<1>5. Crash => crashes' = crashes + 1
  BY DEF Crash
<1>6. QED
  BY <1>1, <1>2, <1>3, <1>4, <1>5 DEF Next, Server

LEMMA WaitPreserved ==
  ASSUME ReviewInv, WaitInv, [Next]_vars
  PROVE  WaitInv'
<1>1. OrderInv' /\ ReleasedInv'
  BY OrderPreserved, ReleasedPreserved DEF WaitInv
<1>2. ASSUME crashes' = 0 PROVE \A e \in Events : WaitOK(e)'
  <2>0. crashes = 0
    <3>1. crashes \in Nat /\ (crashes' = crashes \/ crashes' = crashes + 1)
      BY StopsCounted DEF ReviewInv, TypeOK
    <3>2. QED
      BY <1>2, <3>1
  <2>1. OrderInv /\ ReleasedInv /\ \A e \in Events : WaitOK(e)
    BY <2>0 DEF WaitInv
  <2>2. ASSUME NEW x \in Events, Upload(x) \/ UploadRefused(x)
        PROVE  \A e \in Events : WaitOK(e)'
    BY <2>1, <2>2, WaitUpload
  <2>3. ASSUME NEW x \in Events, Merge(x) PROVE \A e \in Events : WaitOK(e)'
    BY <2>1, <2>3, WaitMerge
  <2>4. ASSUME NEW x \in Events, NEW k \in Kinds, Apply(x, k)
        PROVE  \A e \in Events : WaitOK(e)'
    BY <2>1, <2>4, WaitAdminBooking DEF Apply
  <2>5. ASSUME NEW x \in Events, BookAnyway(x) PROVE \A e \in Events : WaitOK(e)'
    BY <2>1, <2>5, WaitAdminBooking, KindFacts DEF BookAnyway
  <2>6. ASSUME NEW x \in Events, NEW k \in Kinds, Dismiss(x, k) \/ MarkReviewed(x)
        PROVE  \A e \in Events : WaitOK(e)'
    BY <2>1, <2>6, WaitLink
  <2>7. ASSUME NEW x \in Events, ReleaseOne(x) PROVE \A e \in Events : WaitOK(e)'
    BY <2>1, <2>7, WaitReleaseOne
  <2>8. ASSUME ResolveItem PROVE \A e \in Events : WaitOK(e)'
    BY <2>1, <2>8, WaitResolve
  <2>9. ASSUME ListDependants PROVE \A e \in Events : WaitOK(e)'
    BY <2>1, <2>9, WaitList
  <2>10. ASSUME CloseStale PROVE \A e \in Events : WaitOK(e)'
    BY <2>1, <2>10, WaitCloseStale
  <2>11. ASSUME (\E x \in Events, m \in Matches : Match(x, m)) \/ UNCHANGED vars
         PROVE  \A e \in Events : WaitOK(e)'
    <3>1. UNCHANGED <<replayVars, task>>
      BY <2>11 DEF Match, vars
    <3>2. QED
      BY <2>1, <3>1, WaitMatch
  <2>12. ~Crash
    BY <1>2, <2>0 DEF Crash
  <2>13. QED
    BY <2>2, <2>3, <2>4, <2>5, <2>6, <2>7, <2>8, <2>9, <2>10, <2>11, <2>12, KindFacts
       DEF Next, Server
<1>3. QED
  BY <1>1, <1>2 DEF WaitInv

\* When the server has stopped nowhere and is done with a request, no event with
\* one parent still waits for a parent that is settled and mapped, unless a
\* technical failure put it back: every release reaches its last dependant.
THEOREM NothingForgotten == Spec => []NoneForgotten
<1>1. Init => WaitInv
  <2> SUFFICES ASSUME Init PROVE WaitInv
    OBVIOUS
  <2>1. OrderInv /\ ReleasedInv
    BY IdleTask DEF Init, OrderInv, ReleasedInv
  <2>2. ASSUME NEW e \in Events PROVE ~Waiting(e)
    BY KindFacts DEF Init, NoItems, Waiting
  <2>3. QED
    BY <2>1, <2>2 DEF WaitInv, WaitOK
<1>2. ReviewInv /\ WaitInv /\ [Next]_vars => WaitInv'
  BY WaitPreserved
<1>3. ReviewInv /\ WaitInv => NoneForgotten
  <2> SUFFICES ASSUME ReviewInv, WaitInv, task = Idle, crashes = 0, NEW e \in Events,
                      OneParent(e), open[e]["waiting"] > 0, ~(attempts[e] > 0)
               PROVE  Blocked(e) \/ Unmapped(e)
    BY DEF NoneForgotten
  <2>1. attempts[e] = 0
    BY ReviewAssumption DEF ReviewInv, TypeOK
  <2>2. ~Pending(e)
    BY IdleTask DEF Pending
  <2>3. QED
    BY <2>1, <2>2 DEF WaitInv, WaitOK, Waiting
<1>4. QED
  BY <1>1, <1>2, <1>3, ReviewInvariant, PTL DEF Spec
=============================================================================
