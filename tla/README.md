# TLA+ models of LiraTek

LiraTek is a point of sale for Lebanese phone, transfer and exchange shops: a
web application with one shop per tenant (`backend`, `frontend`, `mobile`) and
an Electron desktop (`electron-app`), both over the services and repositories
of `packages/core`.  Most operations are synchronous SQLite transactions of one
process.  This project models the parts where that is not the whole story:

* the *offline fallback* (spec 306): a paired PC keeps a copy of the shop,
  works on it during an outage, and its work is booked on the server
  afterwards.  Two machines, two files on the PC, a network that loses answers,
  crashes and power cuts, wrong clocks and several PCs meet there, and every
  mistake is a sale that is lost or booked twice;
* the *email outbox*, whose worker has overlapping runs;
* *stock batches with warranty claims*, and *exchange lots*: single
  transactions, but every one of them must leave rows that all later refunds,
  undos and voids, in any order, can still account for.

## The system

### Inventory

| Component | State | Operations | What makes it correct |
|---|---|---|---|
| Recorder and outbox (`electron-app/offline/recorder.ts`, `OfflineOutboxRepository.ts`) | outbox rows with number, delivery and outcome; `lastSeq` in `pairing.json` | record an action and its row in one transaction, mark acked, copy outcomes, renumber | a number names one event; nothing is given up before the server has it |
| Upload and check-in (`sender.ts`, `syncClient.ts`) | the pass in progress, reachability | batches of 100, resend after no answer, status poll, check-in, copy refresh | recorded work arrives and its outcome is learnt |
| PC modes and files (`bootDecision.ts`, `bootstrap.ts`, `modeSwitch.ts`, `workingCopy.ts`, `pairingStore.ts`, `offlineHandlers.ts`) | `pairing.json`, copies, the working copy, finished copies; the mode of the process | pair, re-key, unpair, go offline, back to web, finish, give up, update, boot | recorded work survives every switch; row numbers are never reused; a working copy is the PC's own; offline mode starts only on a copy of the right version |
| Event store (`OfflineEventService.ts`, `OfflineEventRepository.ts`) | `offline_events` | upload, status | an event is stored once, under one number |
| Merge (`OfflineMergeProcessor.ts`, `processorTimer.ts`) | `next_expected_seq` per PC, the running round | rounds, passes, cursor | each event booked once, each PC in its own order, nothing skipped, nothing waiting for ever |
| Replay engine (`ReplayEngine.ts`, `replayGuard.ts`) | event status, attempts, id map, review items | book, hold, refuse, skip, fail technically | one transaction per event |
| Review list (`OfflineReviewService.ts`, `OfflineReviewRepository.ts`) | review items | apply, book anyway, dismiss, mark reviewed, release dependants | every held event can be decided; none is booked twice, or before what it refers to |
| Paired PCs (`OfflineDeviceService.ts`, `OfflineSnapshotService.ts`) | PC numbers, keys, cached copy | pair, revoke, request renumbering, check-in, build a copy | a PC number is never given out again |
| Email outbox (`EmailOutboxRepository.ts`, `outboxWorker.ts`) | `email_outbox` rows, the runs alive | enqueue, recover, claim, send, accept, retry, fail, scrub | a mail is sent once, its status is true, its link does not outlive it, it ends |
| Stock batches (`StockBatchRepository.ts`, the stock side of `SalesRepository.ts`, `ProductRepository.ts` and of the voids in `TransactionRepository.ts`) | the count, batches, consumption rows, sale lines | receive, adjust, sell, refund an item, undo a refund, void or refund a sale, void a delivery | count, batches and rows account for the same units |
| Warranty (`WarrantyService.ts`) | claims, held faulty units, supplier returns | refund, replace, resolve the unit, send it to the supplier, close the return, void | a void undoes exactly what the claim moved |
| Exchange lots (`ExchangeLotRepository.ts`, the lot side of `ExchangeRepository.ts` and `TransactionRepository.ts`) | lots, settlements | open, settle first in first out, write off, reverse | lots balance; whatever was sold stays settled; voids never get stuck |
| Idempotent submissions, sign-in and tokens, subscriptions, customer sessions, money posting and closings, debts and settlements, services, tenant databases, rate limits, reports, screens | tables of their own | one transaction per operation, sweeps | `PROJECT.json` lists them with the reason they are not modelled |

Interaction: the recorder writes the outbox; the sender uploads it over HTTPS
(`POST /api/offline/events`); the server stores events and asks for a merge
round of the shop; the round books events through the replay engine, saves each
PC's cursor, and leaves what it cannot book on the review list; an admin
settles that, again through the engine; the sender polls outcomes; the check-in
carries the server's maximum number, its data version and a renumber request
back to the PC; the mode switches move files and relaunch the app.  Sales,
refunds, voids and warranty claims share the stock rows; exchanges, top-ups and
voids share the lots.

What is hard: lost and late answers, a crash between two writes (outbox and
`pairing.json`; working copy and `pairing.json`; booking and cursor; event and
review item; two released dependants; a sent mail and its mark), power cuts
that take one file back, a round that keeps heads in memory while uploads
arrive, clocks that disagree, decisions made at boot and used later, an engine
that trusts its caller about an event's status, worker runs that overlap, and
long legal sequences of refunds, undos and voids.  `PROJECT.json` "hazards"
lists each at its line.

### Modules

* **OfflineMerge** - the server: stored events, their status, the cursors and
  the running round.  `Arrive` and `ArriveCut` are an upload (whole, or cut by a
  restart); `RunRound` starts a round or sets the re-run flag; `MergeEvent`,
  `MergeFailure` and `MergeCut` are one turn of the k-way merge that ends in an
  outcome, a technical failure, or a restart between the commit of the event
  and the save of the cursor; `EndPass` is a pass without a candidate;
  `SetTrial` is the end or the extension of the free trial.  A turn is one
  step: a replay runs in one transaction and never yields to the event loop
  (`replayGuard.ts`), and `merge()` yields only between events.  What decides
  an outcome (policy, dependencies, stock, duplicates...) is a choice.
  The status of an event refused at upload is `parked`: the merge skips it.
* **OfflineSync** extends it with the PCs: outbox rows, `pairing.json`, the
  upload pass as a small state machine around its awaits, check-in,
  renumbering in its two writes (`RenumberUnsent` the outbox, `SaveRenumbered`
  `pairing.json`, with a crash or other work possible in between), and a network in which requests and answers are lost and aborted
  requests may still arrive.  `FlushOutbox` and `FlushPairing` save what a
  `PowerCut` goes back to; either file may go back alone.  `MaxTroubles` bounds
  faults, crashes and power cuts together, next to a bound for each.  Its
  `Next` must implement `MergeNext`: `MergeSpec` is checked as a property, so
  OfflineMerge is the abstract specification of what the protocol delivers to
  the merge.
* **OfflinePC** - one PC from outage to outage: boot decision, switches, files,
  pairing, updates, revocation, with the server reduced to what the PC learns
  from it.  A crash between the two writes of a switch is an action of its own
  (`GoOfflineCrash`, `FinishCrash`); a restart at any other moment is
  `Restart`.  Row numbers are the numbers of one table.
* **OfflineLedger** - what the server promises of offline work: an event is
  booked at most once, only when everything it refers to has a row on the
  server, and neither is taken back.  An event that was taken for an existing
  row may still be booked, once.
* **OfflineReview** - the replay engine and the review list after the upload.
  `Process` is `ReplayEngine.process` with its callers' options (`OnMerge`,
  `OnApply`, `OnRelease`), the order of its checks, the items it writes, the id map and
  the attempt counter.  `Upload`, `UploadRefused` and `Merge` bring an event
  in; `Match` lets the duplicate check find more than it did; `Apply`,
  `BookAnyway`, `Dismiss` and `MarkReviewed` are the admin's actions; what
  follows a decision, commit by commit, is `ResolveItem`, `ListDependants`,
  `ReleaseOne` and `CloseStale`, and `Crash` is a stop between any two of these
  commits.  `Implements` states that it implements OfflineLedger, with
  `bookings` for the count and the events that are booked or linked to an
  existing row for what is settled.
* **EmailOutbox** - the outbox and its worker.  `StartRun` is the head of
  `runOutboxOnce` (recover stuck rows, read the due ones), `Claim` to `Scrub`
  its loop; `Again`, `Retry` and `Fail` are a send that throws (`SendThrows`),
  before the provider took the mail or after.  Runs interleave only while they wait for the provider, which is
  where the code awaits; in between only `Crash` can come.
* **StockBatches** - one product: the count, the batches, the consumption rows
  and the sale lines.  `Consume`, `Restore`, `Unrestore`, `OpenBatch` and
  `Untouched` are the repository's walks over batches and rows; the actions are
  the handlers of deliveries, adjustments, sales, item refunds, undos and
  voids, each one transaction.
* **Warranty** extends it with claims: they refund a line without restocking,
  hand out a replacement, put units back, open batches, and undo it all.
* **ExchangeLots** - lots and settlements under exchanges, top-ups,
  adjustments, write-offs and reversals.
* **OfflineMergeProofs**, **OfflineSyncProofs**, **OfflinePCProofs**,
  **OfflineReviewProofs**, **EmailOutboxProofs**, **WarrantyProofs** (with
  StockBatches) and **ExchangeLotsProofs** - the theorems about these modules;
  OfflineSyncProofs extends OfflineMergeProofs.
* **SumTheorems** - facts about `SumFunctionOnSet`, which the models of stock
  and lots add rows up with.
* **MCOfflineMerge**, **MCOfflineSync**, **MCOfflineReview**,
  **MCEmailOutbox**, **MCWarranty**, **MCExchangeLots** - the instances for TLC.

Operators commented `Variant:` are plausible mistakes in the code.  No
specification uses them; each property has one that breaks it.

### Abstractions

* Review: one shop with one PC (an event depends only on events of its own PC).
  What the checks look at is a choice; a duplicate match only grows, since
  bookings made online stay.  The events an engine run may create are one main
  row and possibly child rows (`Parts` refer to those).  Booking an event that is
  already linked to a row fails on `UNIQUE(offline_id)` only when the booking maps
  that row again; `mapMainRow` and a booking whose rows cannot be matched leave
  the map as it is.  Linking a dismissed event to its match may be refused, and
  then releases nothing.  `orphans` records events
  refused at upload whose item a stop prevented.
* Email: times are in ticks, and what a run writes is its *start* time, as in
  the code.  `stolen` and `cut` are history variables: rows recovered from a run
  that was still alive, and scrubs a crash prevented; so is `unheard`, the
  times the provider took a mail and the run heard an error instead.  A provider
  that takes a mail only after the run's timeout counts as having taken it
  before: the run cannot tell the two apart.
* Stock: one product, one line per sale; a consumption row is named by its
  owner and batch, and rows are ordered like batches (`created_at` and ids agree
  in one process).  Foreign keys are on.  Money, costs, serial numbers,
  repairs, warranty dates and custom services as owners are left out.  History:
  `back` (units of a line put back on the shelf), `split` (an undo took part of a
  row), `blind` (the count was lowered without a check).
* Lots: whole units instead of floats with `LOT_QTY_EPSILON`; costs and profits
  are left out.

## Runs

| Run | Result | Shows |
|---|---|---|
| `merge_rounds` | holds | two PCs, clocks that contradict a PC's own order, a gap, two attempts, an ended trial and a restart anywhere: each event booked once (`BookedOnce`), each PC in its own order (`OwnOrder`), the saved cursor never passes or forgets anything (`CursorSound`, `CursorMonotone`), outcomes are final for the merge (`SettledForGood`), and a received event with no gap below it is settled in the end (`EventuallyMerged`) |
| `sync_delivery` | holds | faults, crashes and an event refused at upload, without a power cut: numbers never conflict (`NoConflict`), a gap is always on its way (`GapIsCarried`), recorded work is settled and its outcome known in the end (`EventuallyKnown`) |
| `sync_power_cut` | holds | with a power cut numbers do conflict; still one event per number (`StoredOnce`), only stored events are given up (`AckedIsStored`), and the system implements OfflineMerge (`MergeSpec`) |
| `pc_modes` | holds | recorded work is never lost (`WorkKept`), row numbers are used once (`IdsUsedOnce`), a process has the file its mode needs (`ModeHasWork`), a working copy belongs to the number the PC is paired under (`WorkIsOwn`), offline mode starts on a copy of the app's version (`StartsOnOwnVersion`), finishing ends (`FinishingEnds`) |
| `review` | holds | whatever is held or refused is in front of the admin (`HeldHasItem`), nothing final can be booked from a forgotten item (`FinalIsClosed`) or change its status (`FinalForGood`), a decision reaches everything that waited on it (`NoneForgotten`) and ends (`ReleaseEnds`), and together engine and list implement OfflineLedger (`Implements`) |
| `email` | holds | a mail goes out twice only for a crash, a row recovered from a live run or an answer of the provider that was lost (`SentOnce`), statuses are true (`StatusIsTrue`) and final (`FinalForGood`), a link is in the row exactly as long as it is needed (`SecretOutlivesNothing`), every mail ends (`EveryMailEnds`) |
| `stock` | holds | batches balance (`BatchesBalance`), a line's units are not both with the customer and in a batch (`LineAccounted`), the shelf holds what batches promise (`ShelfHolds`), the count is explained unit by unit (`UnitsAccounted`), refunded quantities are the live refunds and claims (`RefundsAccounted`) and stay within the line (`WarrantyTypeOK`) |
| `lots` | holds | lots balance and are not overdrawn (`LotBalances`), what was sold is settled in full while it stands (`SoldIsSettled`), no settlement rests on a voided lot (`VoidedIsFree`), voiding newest first never gets stuck (`VoidableInTurn`) |
| `sync_gap` | violated | after a power cut a number may be missing that nobody carries: the PC's later work waits for ever |
| `pc_second_outage` | violated | the last period is never settled from standby: the PC is never ready again |
| `stock_undo` | violated | undoing a part of a refund leaves a batch that does not balance |
| `stock_void_refund` | violated | the lines of a voided sale can be refunded: its units go back twice |

The violated runs each check one sentence of the repository's docs, comments or
messages; `PROJECT.json` "findings" quotes it and explains the counterexample.

The passing properties name the exceptions the code has: `BatchesBalance` and
`LineAccounted` hold until an undo splits a row, `ShelfHolds` until the count is
lowered unchecked, `HeldHasItem` except for `orphans`, `SentOnce` up to crashes,
recovered rows and lost answers.  A few more behaviours the models contain and a reader
should know:

* Renumbering an event that the server already stores leaves its new number
  empty; the merge then waits for it.  An admin renumbers only after a
  conflict, and `GapIsCarried` is checked where none arises.
* A crash between moving the working copy to `finished/` and writing
  `pairing.json` leaves no trace of the period: the next boot may find the PC
  ready on a copy that was taken before it, without the PC's own work in it,
  which FR-008 of specs/306 rules out.  The row numbers of such a period stay
  unique (`IdsUsedOnce`); no property here says that a ready copy is fresh.
* A PC that is revoked in offline mode is told to pair again, and refused until
  it has finished, which needs the revoked key.
* Going offline uses the readiness found at boot; a newer data version reported
  by a later check-in is not compared.
* A mail whose row is recovered from a slow run is sent twice, although
  the header of `outboxWorker.ts` says that "a row is sent by one run only".
* A checkpoint that is released with its parent gets a second item.
* An event that refers to two others can stay behind.  Let `c` depend on `p`,
  `d` on `c`, and `e` on `p` and `d`, all held.  Applying `p` lists `c` and `e`:
  `c` is booked, `e` is held again for `d` and put into `tried`; then `d` is
  booked, and `releaseDependants` never looks at `e` again.  `e` waits although
  everything it waits on is settled, until an admin applies it by hand;
  FR-034 of specs/306 says that such events "are processed in their original
  order automatically".  `NoneForgotten` is therefore said of events that refer
  to one other event (`OneParent`); for those it is a theorem.
* `lastPeriod.settledAt` is never set (`PeriodNeverSettles`, the proof behind
  what `pc_second_outage` shows): a PC with an open period is not ready.  So a
  second period under one PC number begins only after a crash inside the finish
  of the first.
* A provider that took a mail may fail to say so: a timeout or a dropped
  connection after DATA is a transient error (`classifySmtpError`).  The mail is
  then sent again in the same round or a later one, or ends as `failed` although
  it was delivered.

### Bounds

* Merge: two PCs are the least that make a merge, two events of one PC the
  least that have an order; stamps 3, 1 and 2 put one PC's clock against its
  sequence and the other PC's event between them; `MaxSeq` 2 makes a gap when the second event comes
  first; two attempts show a retry and a give-up.
* Sync: one PC, as PCs meet only in the merge; two events, batches of one
  (a batch ends before the outbox does) or two, one of them refusable at upload.
  `sync_delivery` has two troubles of its three kinds: a retry that fails
  again, or a crash after a lost answer.  With a power cut the other troubles
  add states and no new case, so there `MaxTroubles` is 1: a power cut, or a
  crash, or a fault, with numbers up to 3 for what is drawn again.  Events are
  interchangeable there, and the run uses that symmetry.
* PC: two PC numbers (unpair and pair again), two versions, two row numbers,
  one finished copy kept (the code keeps 3, `FinishedKept` is a constant), one
  crash between two writes, one revocation.  Restarts are unlimited.
* Review: a chain of three events (parent, child, grandchild), so that a
  release has to reach beyond direct dependants; the parent is a checkpoint,
  the grandchild refers to a child row, two events can be duplicates; two
  attempts; one stop, at any commit.
* Email: two mails and two runs at once; a batch and a round of two; a send may
  last one tick and a row counts as stuck after one, so a slow run does lose its
  row; no further answer is lost once a mail lost `MaxUnheard`, one; a mail lives three of five ticks: two retries and a give-up.  The clock's
  end is after every give-up.
* Stock: two batches of unequal size, one with a debt and one without, one unit
  counted before batches existed; a line of three units, which is drawn from two
  batches or from a batch and the older stock, and a line of one, which may find
  no batch; one claim.  `stock_undo` and
  `stock_void_refund` leave claims and adjustments out.
* Lots: four operations: a lot, an exchange that uses it and opens another, a
  sell of more than one lot, and a dated-back one; two currencies, symmetric.

Runs of OfflineMerge and OfflinePC check deadlock.  Elsewhere the shop may
simply have nothing left to do, or every bound is used up, and it is switched
off.

### Fairness

Timers run: the sweep asks for a round while events wait, a round goes on to
its end, the 30 s tick of a PC checks in, sends and finishes, the app
relaunches 300 ms after a switch, and a server that is reached answers.  That
is weak fairness of those actions.  One strong fairness condition says that a
round ends even when rounds are requested again and again: requests come from
timers and `merge()` yields only after it has processed an event, so a pass
that processes nothing is not interrupted.  In OfflineReview the event loop runs
a request that started on to its end (`WF(Server)`); no admin is assumed to
click.  In EmailOutbox the interval fires (`StartRun`), the transport's timeouts
end every wait (`Step`) and the clock goes on (`Tick`).  People, faults,
crashes, restarts and the network are never fair; the liveness properties say
what they assume of them (the trial is not ended for ever, the network is up or
down for good, the app is not restarted for ever).

## Proofs

Every safety property and every action property that a run expects to hold is
a theorem, for any instance: any PCs, events, mails, runs, lines, claims,
batches, lots and bounds, under the named assumptions on the constants alone.
So are both refinements: `SyncImplementsMerge` and `ReviewImplementsLedger`.
TLC checks the same properties on the instances above; each inductive invariant
was checked by TLC as an invariant of these instances before it was proved.

The assumptions say what kind of value a constant is (`MergeAssumption`,
`SyncAssumption`, `PCAssumption`, ...).  Sets that the code sums over or counts
are finite: events of a PC, mails and runs, lines and claims, currencies.  The
only assumptions with more in them: a PC number belongs to one PC
(`DeviceNoUnique`), and an event depends on events recorded earlier, that is of
lower `Rank` (`ReviewAssumption`).

### The arguments

**Merge** (`MergeInv`).  `CursorSound` and `OwnOrder` are not inductive: a round
works on heads in memory that run ahead of the saved cursor.  `MergeInv` adds
`HeadSound` (below a head everything is settled) and `HeadAhead` (a head is
never behind its cursor).  What is settled stays settled under its number
(`Keeps`), so every soundness fact survives an upload; a scan moves a head only
over settled events (`ScanSound`); the best candidate is received and stands on
its PC's head, so everything below it is settled (`BestIsReceived`), which gives
`OwnOrder` for the event and soundness for the advanced head (`AdvanceSound`); a
restart drops the heads and leaves the older, still sound cursor, and since a
scan passes over settled events nothing is booked again.  `SettledForGood` and
`CursorMonotone` follow per step.

**Delivery** (`SyncInv`).  Two layers.  With power cuts little is left, and it is
enough for `AckedIsStored` and `StoredOnce`: rows on disk, rows in the flushed
image and requests under way each give an event one number and a number one
event, and whatever either image calls acknowledged is stored.  Without a power
cut (`cuts = 0 => Clean`) a number names the event of its outbox row everywhere
(stored, under way, late), counters never pass the highest number drawn, and a
PC's numbers have no holes: this gives `NoConflict`, and `GapIsCarried`, since
a number missing on the server is that of a row the server has not confirmed.  Each step
stores like `Arrive`, is a step of the merge, or leaves it alone (`SyncStep`), so
`Spec => MergeSpec`, and the merge's theorems hold end to end
(`DeliveryBooksOnce`, `DeliveryKeepsOwnOrder`).

**PC** (`PCInv`).  `IdsUsedOnce` rests on `Counted`: of the counters a crash may
leave behind, one is ahead of every row number the PC drew: the working copy's
while there is one, else the highest of `lastUsed`, the server's answer and the
finished copies of this PC number.  `WorkKept` is inductive with `Owned` (the
working copy is the paired PC's own), which contains `WorkIsOwn`: a new key
keeps the PC's number, and a PC with a working copy cannot be unpaired.  `OnePeriod`
carries `PeriodNeverSettles`, `OwnVersion` carries `StartsOnOwnVersion`.

**Review** (`ReviewInv`).  `EventInv` says what status, items, link, duplicate
match and bookings of one event may be together; `TaskInv` what the request the
server is in relies on between two commits (an item is closed only next to the
fresh one, the dependants to come are still held).  It gives `HeldHasItem`,
`FinalIsClosed`, `FinalForGood`, and the step simulation of `LedgerNext`: each of
the engine's effects on rows maps to one booking, one link or a stutter.
`NoneForgotten` needs `WaitInv` on top: an event that waits has an unsettled or
unmapped parent, or the release the server is in still has it before it
(`Pending`), which a release can lose only by trying the event.  For an event
with two parents that invariant is false, which is how the case above was found.

**Email** (`OutboxInv`).  `SentOnce` is a budget (`MailBudget`): a send that was
made, a run that may still send, and a row free to be claimed each take one of
`1 + crashes + stolen + unheard`.  `MailOwned` says that a row nobody recovered from a live
run is had by one run, which gives `StatusIsTrue`, `FinalForGood`, and with
`MailSecret` the life of the link.

**Sums** (`SumTheorems`).  `SumFunctionOnSet` is a fold, a recursive function over
the subsets of a set.  Induction is done here without the library's
induction theorems: the sets for which a claim fails would have a smallest
member under strict inclusion, which is well founded on finite sets
(`SubsetInduction`).  From this come existence and uniqueness of the fold, its
step in any order (`SumStep`), sums that agree, compare, add up or change at one
point, and the walks: first-in-first-out over a queue takes exactly what was
asked, or all there is (`WalkSum`).

**Lots** (`LotsInv`).  `Backed`: a settlement stands, is younger than its lot, and
the lot stands; `VoidedTogether`: a lot is voided with its operation.  A walk
takes from each lot no more than it holds and in sum what was sold, the rest
being at market; so lots balance, and what blocks a void is always younger.

**Stock and warranty** (`WarrantyInv`).  Three parts.  `BooksInv`: lines, refunds
and claims; a claim's faulty unit and supplier return are in step
(`ClaimsStaged`), and what came back of a line is explained by its live refunds
and returned claim units (`BackExplained`).  `RowsInv`: batches and consumption
rows; nothing unopened or unsold has rows, a claim draws one unit from one batch
(`ClaimDrawsOne`), and a unit a supplier gave has a batch of its own that no void
can take (`ReturnBatches`).  `UnitsInv`: count, lines and batches together.  The
walks `Consume`, `Restore`, `Unrestore` are characterised once, by what they
move in each batch and row and in sum (`ConsumeMoves`, `ConsumeSums`, ...); each
action is then one lemma per part.  The exceptions are those of the properties:
`split` and `blind`.

### Model-checked only

* Liveness: `EventuallyMerged`, `EventuallyKnown`, `FinishingEnds`, `ReleaseEnds`,
  `EveryMailEnds`.  Fairness and `ENABLED` are outside what the prover handles.
* The four violated properties, whose counterexamples TLC finds.
* Deadlock freedom.

## Not modelled

* Several offline periods in OfflineSync, which has one outbox per PC for ever.
  In the code a finish moves the working copy away and the next period starts on
  a new one with an empty outbox (`modeSwitch.ts:115-130`,
  `workingCopy.ts:121-128`), so `NoConflict`, `GapIsCarried` and the rest are said
  within one period.  OfflinePC models the change of periods, with row numbers
  in place of event numbers.
* What a booking does to drawers, debts and profits, and what makes the engine
  hold or refuse an event: the outcome is a choice.
* The composition of OfflineReview with a running merge round: a round sees an
  admin's decision only as a settled event, which it passes over.
* Several shops in one process: a round and its lock are per shop.
* Lost or corrupted files other than by going back to a flushed image.
* Clock correction and id rewriting: arithmetic whose result the models take as
  a parameter (`Stamp`, the id map).
* The manifest cross-check, which only writes notes; the recorder's dispatch
  queue and write guard, which order the calls of one process.
* Idempotent submissions, tokens and sessions: check and effect are one
  synchronous transaction, so nothing interleaves; what is left is a sweep.
* Money: amounts in two currencies, closings, settlements, repayments, reports.
* The user interface, formatting, receipts, logging.

## Plan

1. A run for the dependant of two parents, once a bound of the runs above can
   be spared for it.
2. Clock correction and id ranges as pure functions, with theorems about them:
   the corrected instants keep a PC's own order, ranges of PCs are disjoint.
3. Debts and settlements: first-in-first-out allocation over amounts, on top of
   SumTheorems.
