---------------------------- MODULE OfflineReview ----------------------------
(***************************************************************************)
(* Offline events on the server after they are stored: the replay engine   *)
(* books an event, skips it, holds it or refuses it (ReplayEngine), and an *)
(* admin settles what was not booked on the review list: Apply, Book       *)
(* anyway, Dismiss, Mark reviewed (OfflineReviewService).  Settling an     *)
(* event releases the events that wait on it, transitively, each in a      *)
(* transaction of its own: the server may stop between two of them.        *)
(*                                                                         *)
(* One shop with one PC: an event depends only on earlier events of the PC *)
(* that recorded it (Recorder.record, outbox.eventsCreating).  No request  *)
(* is served between the commits of one action: nothing it awaits leaves   *)
(* the microtask queue, so `task` blocks every other action.               *)
(***************************************************************************)
EXTENDS Naturals, FiniteSets

CONSTANTS
    Events,        \* the PC's offline events
    Deps,          \* [Events -> SUBSET Events]: depends_on_json
    Rank,          \* [Events -> Nat]: device_seq
    Checkpoints,   \* events of a `checkpoint` channel
    Parts,         \* events that refer to a child row of what they depend on
    Matchable,     \* events of a family the duplicate check has a fingerprint for
    MaxAttempts,   \* maxAttempts()
    MaxOpen,       \* bound: open items of one kind and one event
    MaxCrashes     \* bound: stops of the server

ASSUME ReviewAssumption ==
    /\ IsFiniteSet(Events)
    /\ Deps \in [Events -> SUBSET Events]
    /\ Rank \in [Events -> Nat]
    /\ \A e, f \in Events : Rank[e] = Rank[f] => e = f
    /\ \A e \in Events : \A d \in Deps[e] : Rank[d] < Rank[e]
    /\ Checkpoints \subseteq Events
    /\ Parts \subseteq Events
    /\ Matchable \subseteq Events
    /\ MaxAttempts \in Nat \ {0}
    /\ MaxOpen \in Nat \ {0}
    /\ MaxCrashes \in Nat

VARIABLES
    status,    \* [Events -> Statuses]: offline_events.status
    open,      \* [Events -> [Kinds -> Nat]]: open review items of the event
    link,      \* [Events -> Links]: offline_id_map rows of the event
    attempts,  \* [Events -> Nat]: offline_events.attempts
    match,     \* [Events -> Matches]: what the duplicate check finds
    task,      \* the action the server is in the middle of
    bookings,  \* history: how often the event's booking was committed
    orphans,   \* history: events whose review item a stop lost at upload
    crashes

replayVars == <<status, open, link, attempts, bookings>>
vars == <<replayVars, match, task, orphans, crashes>>

Statuses == {"absent", "received", "booked", "skipped", "held", "refused",
             "applied", "dismissed"}
Matches  == {"none", "likely", "certain"}
\* "created": every row mapped; "partial": the main row only, because counts
\* differ or the event was linked to an existing row; "none": no map row
Links    == {"none", "created", "partial"}

\* "version" is a `refused` item with noApply: Apply is not offered
Holding == {"possible_duplicate", "held_checkpoint", "waiting", "refused", "version"}
Kinds   == Holding \cup {"certain_duplicate"}
Results == {"booked", "skipped", "held", "refused", "failed", "technical"}

Idle == [op |-> "idle", event |-> {}, kind |-> {}, released |-> {}, tried |-> {}, todo |-> {}]

\* releaseDependants(parent) is about to run
Release(e) == [op |-> "release", event |-> {}, kind |-> {}, released |-> {e}, tried |-> {},
               todo |-> {}]

NoItems == [k \in Kinds |-> 0]

Init ==
    /\ status = [e \in Events |-> "absent"]
    /\ open = [e \in Events |-> NoItems]
    /\ link = [e \in Events |-> "none"]
    /\ attempts = [e \in Events |-> 0]
    /\ match = [e \in Events |-> "none"]
    /\ task = Idle
    /\ bookings = [e \in Events |-> 0]
    /\ orphans = {}
    /\ crashes = 0

-----------------------------------------------------------------------------
(* The replay engine.                                                      *)

Booked(e) == status[e] \in {"booked", "applied"}

\* dependencyState: a dependency is booked, or linked to an existing row
Settled(e) ==
    \/ Booked(e)
    \/ status[e] \in {"skipped", "dismissed"} /\ link[e] # "none"

Blocked(e) == \E d \in Deps[e] : ~Settled(d)

\* rewriteIdPositions finds an id without a map row
Unmapped(e) == \E d \in Deps[e] :
    link[d] = "none" \/ (e \in Parts /\ link[d] = "partial")

\* reviews.insert
Insert(e, k) ==
    /\ open[e][k] < MaxOpen
    /\ open' = [open EXCEPT ![e][k] = @ + 1]

\* hold, refuse: in apply mode only the event's error text changes
Put(e, opts, to, k, r) ==
    \/ /\ opts.mode = "apply"
       /\ r = "failed"
       /\ UNCHANGED replayVars
    \/ /\ opts.mode = "auto"
       /\ r = to
       /\ status' = [status EXCEPT ![e] = to]
       /\ Insert(e, k)
       /\ UNCHANGED <<link, attempts, bookings>>

\* technicalFailure: an admin's click burns no attempt
Technical(e, opts, r) ==
    \/ /\ opts.mode = "apply"
       /\ r = "technical"
       /\ UNCHANGED replayVars
    \/ /\ opts.mode = "auto"
       /\ attempts' = [attempts EXCEPT ![e] = IF @ < MaxAttempts THEN @ + 1 ELSE @]
       /\ \/ /\ attempts[e] + 1 < MaxAttempts
             /\ r = "technical"
             /\ UNCHANGED <<status, open>>
          \/ /\ attempts[e] + 1 >= MaxAttempts
             /\ r = "refused"
             /\ status' = [status EXCEPT ![e] = "refused"]
             /\ Insert(e, "refused")
       /\ UNCHANGED <<link, bookings>>

\* mapBooking: rows are added to the map, never removed.  offline_id is unique in
\* it: mapping a row twice fails (Technical), unless the booking maps no row
\* that is mapped already (mapMainRow looks, mapCreated skips a table whose
\* counts differ).
MapBooking(e) == \E l \in Links :
    /\ link[e] # "none" => l \in {link[e], "created"}
    /\ link' = [link EXCEPT ![e] = l]

\* the booking window: trial booking, duplicate check, map rows and onBooked,
\* one transaction
Window(e, opts, r) ==
    \/ /\ "duplicate" \notin opts.bypass /\ match[e] = "certain"
       /\ r = "skipped"
       /\ status' = [status EXCEPT ![e] = "skipped"]
       /\ Insert(e, "certain_duplicate")
       /\ UNCHANGED <<link, attempts, bookings>>
    \/ /\ "duplicate" \notin opts.bypass /\ match[e] = "likely"
       /\ r = "held"
       /\ status' = [status EXCEPT ![e] = "held"]
       /\ Insert(e, "possible_duplicate")
       /\ UNCHANGED <<link, attempts, bookings>>
    \/ /\ "duplicate" \in opts.bypass \/ match[e] = "none"
       /\ r = "booked"
       /\ status' = [status EXCEPT ![e] = IF opts.mode = "apply" THEN "applied" ELSE "booked"]
       /\ MapBooking(e)
       /\ open' = [open EXCEPT ![e] = [k \in Kinds |-> IF k \in opts.closes THEN 0 ELSE @[k]]]
       /\ bookings' = [bookings EXCEPT ![e] = @ + 1]
       /\ UNCHANGED attempts

Held(e, opts) == e \in Checkpoints /\ "checkpoint" \notin opts.bypass

\* process: r is the outcome handed to the caller
Process(e, opts, r) ==
    \/ Put(e, opts, "refused", "version", r)                      \* schema shape
    \/ Held(e, opts) /\ Put(e, opts, "held", "held_checkpoint", r)
    \/ ~Held(e, opts) /\ Put(e, opts, "refused", "refused", r)    \* no binding
    \/ ~Held(e, opts) /\ Blocked(e) /\ Put(e, opts, "held", "waiting", r)
    \/ /\ ~Held(e, opts) /\ ~Blocked(e) /\ Unmapped(e)
       /\ Put(e, opts, "held", "waiting", r)
    \/ /\ ~Held(e, opts) /\ ~Blocked(e) /\ ~Unmapped(e)
       /\ \/ Put(e, opts, "refused", "refused", r)    \* actor, rates, the service
          \/ Window(e, opts, r)
    \/ Technical(e, opts, r)

\* a merge round: nothing is bypassed, and there is nothing to close
OnMerge == [mode |-> "auto", bypass |-> {}, closes |-> {}]

\* Variant: Book anyway leaves the certain_duplicate item it was pressed on
OnApplyHolding == [mode |-> "apply", bypass |-> {}, closes |-> Holding]

\* onBooked of Apply and Book anyway: closeOpenItems
OnApply == [mode |-> "apply", bypass |-> {}, closes |-> Kinds]

\* Variant: no onBooked when a dependant is released
OnReleaseNothing == OnMerge

\* onBooked of releaseDependants: the `waiting` items open before
OnRelease == [OnMerge EXCEPT !.closes = {"waiting"}]

-----------------------------------------------------------------------------
(* Upload and merge.                                                       *)

\* the PC sends its events in sequence order
InOrder(e) == /\ status[e] = "absent"
              /\ \A f \in Events : Rank[f] < Rank[e] => status[f] # "absent"

Upload(e) ==
    /\ task = Idle
    /\ InOrder(e)
    /\ status' = [status EXCEPT ![e] = "received"]
    /\ UNCHANGED <<open, link, attempts, match, task, bookings, orphans, crashes>>

\* an unknown channel: stored as refused, then the review item, two commits;
\* the PC's next upload of the event finds it stored and adds nothing
UploadRefused(e) ==
    /\ task = Idle
    /\ InOrder(e)
    /\ status' = [status EXCEPT ![e] = "refused"]
    /\ \/ /\ Insert(e, "refused")
          /\ UNCHANGED <<orphans, crashes>>
       \/ /\ crashes < MaxCrashes
          /\ crashes' = crashes + 1
          /\ orphans' = orphans \cup {e}
          /\ UNCHANGED open
    /\ UNCHANGED <<link, attempts, match, task, bookings>>

\* the merge round takes the PC's events in order and stops at a failure
Merge(e) ==
    /\ task = Idle
    /\ status[e] = "received"
    /\ \A f \in Events : status[f] = "received" => Rank[e] <= Rank[f]
    /\ \E r \in Results : Process(e, OnMerge, r)
    /\ UNCHANGED <<match, task, orphans, crashes>>

\* somebody books the same thing online: the duplicate check finds it next time
Match(e, m) ==
    /\ task = Idle
    /\ e \in Matchable
    /\ \/ match[e] = "none" /\ m \in {"likely", "certain"}
       \/ match[e] = "likely" /\ m = "certain"
    /\ match' = [match EXCEPT ![e] = m]
    /\ UNCHANGED <<replayVars, task, orphans, crashes>>

-----------------------------------------------------------------------------
(* The admin's actions on an open item of kind k.                          *)

\* afterBooking: what is left to do when the booking's commit is done
AfterBooking(e, k, r) ==
    CASE r = "booked" -> Release(e)
      [] r = "held"   -> [Idle EXCEPT !.op = "resolve", !.event = {e}, !.kind = {k}]
      [] OTHER        -> Idle

BypassOf(k) == IF k = "possible_duplicate" THEN {"duplicate"}
               ELSE IF k = "held_checkpoint" THEN {"checkpoint"} ELSE {}

Apply(e, k) ==
    /\ task = Idle
    /\ open[e][k] > 0
    /\ k \in Holding \ {"version"}
    /\ ~Blocked(e)                                        \* else PARENT_OPEN
    /\ \E r \in Results :
        /\ Process(e, [OnApply EXCEPT !.bypass = BypassOf(k)], r)
        /\ task' = AfterBooking(e, k, r)
    /\ UNCHANGED <<match, orphans, crashes>>

BookAnyway(e) ==
    /\ task = Idle
    /\ open[e]["certain_duplicate"] > 0
    /\ \E r \in Results :
        /\ Process(e, [OnApply EXCEPT !.bypass = {"duplicate"}], r)
        /\ task' = AfterBooking(e, "certain_duplicate", r)
    /\ UNCHANGED <<match, orphans, crashes>>

\* linkToMatch: the main row is mapped to the row it matched, unless it is mapped
\* already, the PC made no row in the matched table or the item names no match
LinkToMatch(e) ==
    \/ UNCHANGED link
    \/ link[e] = "none" /\ link' = [link EXCEPT ![e] = "partial"]

\* releaseDependants when the event was linked just now
AfterLink(e) == task' = IF link'[e] # link[e] THEN Release(e) ELSE Idle

\* Variant: only the item that was clicked is closed
DismissItem(e, k) ==
    /\ task = Idle
    /\ open[e][k] > 0
    /\ k \in Holding
    /\ status' = [status EXCEPT ![e] = "dismissed"]
    /\ open' = [open EXCEPT ![e][k] = @ - 1]
    /\ \/ k = "possible_duplicate" /\ LinkToMatch(e) /\ AfterLink(e)
       \/ k # "possible_duplicate" /\ UNCHANGED <<link, task>>
    /\ UNCHANGED <<attempts, match, bookings, orphans, crashes>>

\* the dependants of an event dismissed unlinked get a new error text only
Dismiss(e, k) ==
    /\ task = Idle
    /\ open[e][k] > 0
    /\ k \in Holding
    /\ status' = [status EXCEPT ![e] = "dismissed"]
    /\ open' = [open EXCEPT ![e] = NoItems]
    /\ \/ k = "possible_duplicate" /\ LinkToMatch(e) /\ AfterLink(e)
       \/ k # "possible_duplicate" /\ UNCHANGED <<link, task>>
    /\ UNCHANGED <<attempts, match, bookings, orphans, crashes>>

\* resolves this item only
MarkReviewed(e) ==
    /\ task = Idle
    /\ open[e]["certain_duplicate"] > 0
    /\ open' = [open EXCEPT ![e]["certain_duplicate"] = @ - 1]
    /\ LinkToMatch(e)
    /\ AfterLink(e)
    /\ UNCHANGED <<status, attempts, match, bookings, orphans, crashes>>

-----------------------------------------------------------------------------
(* What follows in the same request, one commit at a time.                 *)

\* afterBooking: the item that led to a held duplicate is resolved
ResolveItem ==
    /\ task.op = "resolve"
    /\ \E e \in task.event, k \in task.kind :
        open' = [open EXCEPT ![e][k] = IF @ > 0 THEN @ - 1 ELSE 0]
    /\ task' = Idle
    /\ UNCHANGED <<status, link, attempts, match, bookings, orphans, crashes>>

\* listHeldDependingOn(released), without the ones tried
HeldDependants(released) ==
    {e \in Events : status[e] = "held" /\ Deps[e] \cap released # {}}

\* Variant: a dependant that stays held is listed again
ListDependantsAgain ==
    /\ task.op = "release"
    /\ task.todo = {}
    /\ LET next == HeldDependants(task.released)
       IN  task' = IF next = {} THEN Idle ELSE [task EXCEPT !.todo = next]
    /\ UNCHANGED <<replayVars, match, orphans, crashes>>

ListDependants ==
    /\ task.op = "release"
    /\ task.todo = {}
    /\ LET next == HeldDependants(task.released) \ task.tried
       IN  task' = IF next = {} THEN Idle ELSE [task EXCEPT !.todo = next]
    /\ UNCHANGED <<replayVars, match, orphans, crashes>>

\* Variant: only the direct dependants of the parent are released
ReleaseOneFlat(e) ==
    /\ task.op = "release"
    /\ e \in task.todo
    /\ \A f \in task.todo : Rank[e] <= Rank[f]
    /\ \E r \in Results :
        /\ Process(e, OnRelease, r)
        /\ LET rest == [task EXCEPT !.todo = @ \ {e}, !.tried = @ \cup {e}]
           IN  task' = IF r \in {"booked", "technical"} THEN rest
                       ELSE [rest EXCEPT !.op = "stale", !.event = {e},
                                         !.kind = {open[e]["waiting"]}]
    /\ UNCHANGED <<match, orphans, crashes>>

\* one dependant: booked, or held or refused again, when the open `waiting`
\* items it had are still to be closed
ReleaseOne(e) ==
    /\ task.op = "release"
    /\ e \in task.todo
    /\ \A f \in task.todo : Rank[e] <= Rank[f]
    /\ \E r \in Results :
        /\ Process(e, OnRelease, r)
        /\ LET rest == [task EXCEPT !.todo = @ \ {e}, !.tried = @ \cup {e}]
           IN  task' =
                CASE r = "booked"    -> [rest EXCEPT !.released = @ \cup {e}]
                  [] r = "technical" -> rest
                  [] OTHER           -> [rest EXCEPT !.op = "stale", !.event = {e},
                                                     !.kind = {open[e]["waiting"]}]
    /\ UNCHANGED <<match, orphans, crashes>>

\* Variant: every open `waiting` item is closed, the fresh one too
CloseStaleAll ==
    /\ task.op = "stale"
    /\ \E e \in task.event : open' = [open EXCEPT ![e]["waiting"] = 0]
    /\ task' = [task EXCEPT !.op = "release", !.event = {}, !.kind = {}]
    /\ UNCHANGED <<status, link, attempts, match, bookings, orphans, crashes>>

CloseStale ==
    /\ task.op = "stale"
    /\ \E e \in task.event, n \in task.kind :
        open' = [open EXCEPT ![e]["waiting"] = @ - n]
    /\ task' = [task EXCEPT !.op = "release", !.event = {}, !.kind = {}]
    /\ UNCHANGED <<status, link, attempts, match, bookings, orphans, crashes>>

\* the server stops: what is left of the action is never done
Crash ==
    /\ task # Idle
    /\ crashes < MaxCrashes
    /\ crashes' = crashes + 1
    /\ task' = Idle
    /\ UNCHANGED <<replayVars, match, orphans>>

-----------------------------------------------------------------------------

Server == ResolveItem \/ ListDependants \/ CloseStale \/ \E e \in Events : ReleaseOne(e)

Next ==
    \/ \E e \in Events :
        \/ Upload(e) \/ UploadRefused(e) \/ Merge(e)
        \/ \E m \in Matches : Match(e, m)
        \/ \E k \in Kinds : Apply(e, k) \/ Dismiss(e, k)
        \/ BookAnyway(e) \/ MarkReviewed(e)
    \/ Server
    \/ Crash

Spec == Init /\ [][Next]_vars

\* a request that started is run on by the event loop until it ends or stops
FairSpec == Spec /\ WF_vars(Server)

-----------------------------------------------------------------------------
(* Properties.                                                             *)

\* Every row, item and counter holds what the code can put there.
TypeOK ==
    /\ status \in [Events -> Statuses]
    /\ open \in [Events -> [Kinds -> 0..MaxOpen]]
    /\ link \in [Events -> Links]
    /\ attempts \in [Events -> 0..MaxAttempts]
    /\ match \in [Events -> Matches]
    /\ task.op \in {"idle", "resolve", "release", "stale"}
    /\ bookings \in [Events -> Nat]
    /\ orphans \subseteq Events
    /\ crashes \in 0..MaxCrashes

\* Everything that was not booked is in front of the admin: a held or refused
\* event has an open item to resolve it with, whatever path led there and
\* wherever the server stopped, except between the two commits of an upload
\* (orphans).
HeldHasItem == \A e \in Events \ orphans :
    status[e] \in {"held", "refused"} => \E k \in Holding : open[e][k] > 0

\* The engine books in apply mode without looking at the status, so a booked
\* or dismissed event must have no open item that could book it again.
FinalIsClosed == \A e \in Events :
    Booked(e) \/ status[e] = "dismissed" => \A k \in Kinds : open[e][k] = 0

\* data-model.md: booked, applied and dismissed are final.
FinalForGood == [][\A e \in Events :
    Booked(e) \/ status[e] = "dismissed" => status'[e] = status[e]]_vars

\* the event refers to rows of one other event at most
OneParent(e) == \A d, f \in Deps[e] : d = f

\* Settling an event releases everything that waited only on it, transitively:
\* when the server is done, nothing still waits on settled events, unless it
\* refers to a part that has no row, failed technically or met a stop.  Said of
\* events with one parent: of two parents, one may be released only after the
\* event was tried, and releaseDependants tries an event once.
NoneForgotten == task = Idle /\ crashes = 0 =>
    \A e \in Events : OneParent(e) /\ status[e] = "held" /\ open[e]["waiting"] > 0
                        => Blocked(e) \/ Unmapped(e) \/ attempts[e] > 0

\* An admin's action ends: the loop of releaseDependants, which lists the held
\* dependants again after every pass, runs out of events it has not tried.
ReleaseEnds == task # Idle ~> task = Idle

\* The review list and the merge together book every event at most once, after
\* everything it refers to, and never unsettle what they settled.
Ledger == INSTANCE OfflineLedger WITH
    count <- bookings, settled <- {e \in Events : Settled(e)}
Implements == Ledger!LedgerSpec
=============================================================================
