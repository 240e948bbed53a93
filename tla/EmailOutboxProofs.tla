-------------------------- MODULE EmailOutboxProofs --------------------------
(***************************************************************************)
(* Safety of the email outbox for any mails, any number of overlapping     *)
(* runs and any number of crashes.                                         *)
(*                                                                         *)
(* How often a mail reaches the provider is a budget: one send, and one    *)
(* more for every crash, every row recovered from a live run and every     *)
(* lost answer.  A send that was made, a run that still may send, and a    *)
(* row that is free to be claimed each take one of it (MailBudget).        *)
(***************************************************************************)
EXTENDS EmailOutbox, FiniteSetTheorems, TLAPS

\* The run has the row: claimed, and neither marked nor given back.
Holds(w, m) == run[w].step \in {"claimed", "send", "took"} /\ m \in run[w].at

\* The runs that have the row and may still send it.
Live(m) == {w \in Runs : run[w].step \in {"claimed", "send"} /\ m \in run[w].at}

\* The run is about to remove the row's secrets.
Scrubs(w, m) == run[w].step = "scrub" /\ m \in run[w].at

\* The row can be claimed, now or after recoverStuck, or it ended without a send.
Slot(m) == IF \/ row[m].status \in {"none", "pending", "failed"}
              \/ row[m].status = "sending" /\ ~Claimed(m)
           THEN 1 ELSE 0

\* A run works on one row at a time.
RunInv(w) ==
    /\ \A m, n \in run[w].at : m = n
    /\ run[w].step \in {"idle", "next"} => run[w].at = {}
    /\ run[w].step = "took" => \A m \in run[w].at : sent[m] > 0

MailBudget(m) ==
    sent[m] + Cardinality(Live(m)) + Slot(m) <= 1 + crashes + stolen[m] + unheard[m]

\* A row nobody recovered from a live run is had by one run at most.
MailOwned(m) == stolen[m] = 0 => \A w \in Runs :
    /\ Holds(w, m) => row[m].status = "sending" /\ \A v \in Runs : Holds(v, m) => v = w
    /\ Scrubs(w, m) => row[m].status \in Final

MailSecret(m) ==
    /\ row[m].status \in Final /\ row[m].secret => m \in cut \/ \E w \in Runs : Scrubs(w, m)
    /\ row[m].status \in {"pending", "sending"} /\ ~row[m].secret => stolen[m] > 0

MailInv(m) ==
    /\ MailBudget(m)
    /\ row[m].status = "accepted" => sent[m] > 0
    /\ MailOwned(m)
    /\ MailSecret(m)

OutboxInv == TypeOK /\ (\A w \in Runs : RunInv(w)) /\ \A m \in Mails : MailInv(m)

-----------------------------------------------------------------------------
(* Rows and runs.                                                          *)

RowType == [status : Statuses, next : 0..MaxTime + RetryDelay,
            giveUp : 0..MaxTime, lock : 0..MaxTime, secret : BOOLEAN]
RunType == [step : Steps, start : 0..MaxTime, due : SUBSET Mails,
            bare : SUBSET Mails, at : SUBSET Mails, attempt : 0..RoundSize,
            since : 0..MaxTime]

LEMMA Bounds ==
  /\ BatchSize \in Nat /\ RoundSize \in Nat /\ RoundSize > 0 /\ RetryDelay \in Nat
  /\ StuckAfter \in Nat /\ Life \in Nat
  /\ MaxSendTime \in Nat /\ MaxTime \in Nat /\ MaxCrashes \in Nat /\ MaxUnheard \in Nat
  /\ IsFiniteSet(Runs)
BY EmailAssumption

LEMMA TypeParts ==
  ASSUME TypeOK
  PROVE  /\ row \in [Mails -> RowType] /\ run \in [Runs -> RunType]
         /\ now \in 0..MaxTime /\ sent \in [Mails -> Nat] /\ stolen \in [Mails -> Nat]
         /\ unheard \in [Mails -> Nat] /\ cut \subseteq Mails /\ crashes \in 0..MaxCrashes
BY DEF TypeOK, RowType, RunType

LEMMA NoRunFacts ==
  NoRun \in RunType /\ NoRun.step = "idle" /\ NoRun.at = {}
BY Bounds DEF NoRun, RunType, Steps

\* Only run w changes, and it works on x alone.
OneRun(w, x) ==
    /\ \A v \in Runs \ {w} : run'[v] = run[v]
    /\ run[w].at \subseteq {x} /\ run'[w].at \subseteq {x}

\* Of the rows only that of x changes, and of the history only its sends and
\* lost answers.
OneRow(x) ==
    /\ \A n \in Mails \ {x} :
          row'[n] = row[n] /\ sent'[n] = sent[n] /\ unheard'[n] = unheard[n]
    /\ sent'[x] \in Nat /\ sent'[x] >= sent[x]
    /\ UNCHANGED <<stolen, cut, crashes>>

LEMMA LiveFinite ==
  ASSUME NEW m \in Mails
  PROVE  /\ IsFiniteSet(Live(m)) /\ Cardinality(Live(m)) \in Nat
         /\ IsFiniteSet(Live(m)') /\ Cardinality(Live(m)') \in Nat
<1>1. IsFiniteSet(Live(m)) /\ IsFiniteSet(Live(m)')
  BY Bounds, FS_Subset DEF Live
<1>2. QED
  BY <1>1, FS_CardinalityType

\* A run that could send x no longer can.
LEMMA LiveLeaves ==
  ASSUME NEW m \in Mails, NEW w \in Runs, w \in Live(m), w \notin Live(m)',
         \A v \in Runs \ {w} : run'[v] = run[v]
  PROVE  Cardinality(Live(m)') = Cardinality(Live(m)) - 1
<1>1. Live(m)' = Live(m) \ {w}
  BY DEF Live
<1>2. QED
  BY <1>1, LiveFinite, FS_RemoveElement

LEMMA LiveEnters ==
  ASSUME NEW m \in Mails, NEW w \in Runs, w \notin Live(m), w \in Live(m)',
         \A v \in Runs \ {w} : run'[v] = run[v]
  PROVE  Cardinality(Live(m)') = Cardinality(Live(m)) + 1
<1>1. Live(m)' = Live(m) \cup {w}
  BY DEF Live
<1>2. QED
  BY <1>1, LiveFinite, FS_AddElement

LEMMA LiveStays ==
  ASSUME NEW m \in Mails, NEW w \in Runs, w \in Live(m) <=> w \in Live(m)',
         \A v \in Runs \ {w} : run'[v] = run[v]
  PROVE  Live(m)' = Live(m)
BY DEF Live

\* The other mails do not notice.
LEMMA OthersKept ==
  ASSUME NEW w \in Runs, NEW x \in Mails, OneRun(w, x), OneRow(x),
         NEW n \in Mails \ {x}, MailInv(n)
  PROVE  MailInv(n)'
<1>1. \A v \in Runs : (Holds(v, n)' <=> Holds(v, n)) /\ (Scrubs(v, n)' <=> Scrubs(v, n))
  BY DEF OneRun, Holds, Scrubs
<1>2. Live(n)' = Live(n)
  BY DEF OneRun, Live
<1>3. Slot(n)' = Slot(n)
  BY <1>1 DEF OneRow, Slot, Claimed, Holds
<1>4. MailBudget(n)'
  BY <1>2, <1>3 DEF OneRow, MailInv, MailBudget
<1>5. MailOwned(n)' /\ MailSecret(n)' /\ (row'[n].status = "accepted" => sent'[n] > 0)
  BY <1>1 DEF OneRow, MailInv, MailOwned, MailSecret
<1>6. QED
  BY <1>4, <1>5 DEF MailInv

\* Neither do the other runs.
LEMMA OtherRunsKept ==
  ASSUME sent \in [Mails -> Nat], NEW w \in Runs, NEW x \in Mails, OneRun(w, x), OneRow(x),
         run \in [Runs -> RunType], NEW v \in Runs \ {w}, RunInv(v)
  PROVE  RunInv(v)'
<1>1. run[v].at \subseteq Mails /\ run'[v] = run[v]
  BY DEF RunType, OneRun
<1>2. \A m \in Mails : sent[m] > 0 => sent'[m] > 0
  BY DEF OneRow
<1>3. QED
  BY <1>1, <1>2 DEF RunInv

LEMMA FinishFacts ==
  ASSUME run \in [Runs -> RunType], NEW w \in Runs, NEW m \in Mails, Finish(w, m)
  PROVE  /\ run' \in [Runs -> RunType]
         /\ \A v \in Runs \ {w} : run'[v] = run[v]
         /\ run'[w].at = {} /\ run'[w].step \in {"idle", "next"}
<1> DEFINE u == IF run[w].due = {m} THEN NoRun
                ELSE [step |-> "next", start |-> run[w].start, due |-> run[w].due \ {m},
                      bare |-> run[w].bare \ {m}, at |-> {}, attempt |-> 0, since |-> 0]
<1>1. run' = [run EXCEPT ![w] = u]
  BY DEF Finish
<1>2. u \in RunType /\ u.at = {} /\ u.step \in {"idle", "next"}
  <2>1. run[w] \in RunType
    OBVIOUS
  <2>2. QED
    BY <2>1, NoRunFacts, Bounds DEF RunType, Steps
<1> HIDE DEF u
<1>3. QED
  BY <1>1, <1>2

-----------------------------------------------------------------------------
(* What each write does to the row and the run.                            *)


\* claim: the row is the run's
LEMMA ClaimWrites ==
  ASSUME TypeOK, NEW w \in Runs, NEW x \in Mails,
         row' = [row EXCEPT ![x].status = "sending", ![x].lock = run[w].start],
         run' = [run EXCEPT ![w].step = "claimed", ![w].at = {x}]
  PROVE  /\ row' \in [Mails -> RowType] /\ run' \in [Runs -> RunType]
         /\ \A n \in Mails \ {x} : row'[n] = row[n]
         /\ row'[x].status = "sending" /\ row'[x].secret = row[x].secret
         /\ \A v \in Runs \ {w} : run'[v] = run[v]
         /\ run'[w].step = "claimed" /\ run'[w].at = {x}
<1>1. row \in [Mails -> RowType] /\ run \in [Runs -> RunType]
  BY TypeParts
<1>2. row[x] \in RowType /\ run[w] \in RunType /\ run[w].start \in 0..MaxTime
  BY <1>1 DEF RunType
<1> DEFINE r == [row[x] EXCEPT !.status = "sending", !.lock = run[w].start]
           u == [run[w] EXCEPT !.step = "claimed", !.at = {x}]
<1>3. r \in RowType /\ r.status = "sending" /\ r.secret = row[x].secret
  BY <1>2 DEF RowType, Statuses
<1>4. u \in RunType /\ u.step = "claimed" /\ u.at = {x}
  BY <1>2 DEF RunType, Steps
<1>5. row' = [row EXCEPT ![x] = r]
  BY <1>1, <1>2
<1>6. run' = [run EXCEPT ![w] = u]
  BY <1>1, <1>2
<1> HIDE DEF r, u
<1>7. /\ row' \in [Mails -> RowType] /\ row'[x] = r
      /\ \A n \in Mails \ {x} : row'[n] = row[n]
  BY <1>1, <1>3, <1>5
<1>8. /\ run' \in [Runs -> RunType] /\ run'[w] = u
      /\ \A v \in Runs \ {w} : run'[v] = run[v]
  BY <1>1, <1>4, <1>6
<1>9. QED
  BY <1>3, <1>4, <1>7, <1>8

\* The row takes the value r, the others stay.
LEMMA RowWrite ==
  ASSUME row \in [Mails -> RowType], NEW x \in Mails, NEW r \in RowType,
         row' = [row EXCEPT ![x] = r]
  PROVE  /\ row' \in [Mails -> RowType] /\ row'[x] = r
         /\ \A n \in Mails \ {x} : row'[n] = row[n]
OBVIOUS

\* The run takes the value u, the others stay.
LEMMA RunWrite ==
  ASSUME run \in [Runs -> RunType], NEW w \in Runs, NEW u \in RunType,
         run' = [run EXCEPT ![w] = u]
  PROVE  /\ run' \in [Runs -> RunType] /\ run'[w] = u
         /\ \A v \in Runs \ {w} : run'[v] = run[v]
OBVIOUS

\* a step of the run's own counter
LEMMA StepWrites ==
  ASSUME run \in [Runs -> RunType], NEW w \in Runs, NEW s \in Steps,
         run' = [run EXCEPT ![w].step = s]
  PROVE  /\ run' \in [Runs -> RunType]
         /\ \A v \in Runs \ {w} : run'[v] = run[v]
         /\ run'[w].step = s /\ run'[w].at = run[w].at
<1> DEFINE u == [run[w] EXCEPT !.step = s]
<1>1. u \in RunType /\ u.step = s /\ u.at = run[w].at
  BY DEF RunType
<1>2. run' = [run EXCEPT ![w] = u]
  OBVIOUS
<1> HIDE DEF u
<1>3. QED
  BY <1>1, <1>2, RunWrite

\* send: the first attempt
LEMMA SendWrites ==
  ASSUME TypeOK, NEW w \in Runs,
         run' = [run EXCEPT ![w].step = "send", ![w].attempt = 1, ![w].since = now]
  PROVE  /\ run' \in [Runs -> RunType]
         /\ \A v \in Runs \ {w} : run'[v] = run[v]
         /\ run'[w].step = "send" /\ run'[w].at = run[w].at
<1>1. run \in [Runs -> RunType] /\ run[w] \in RunType /\ now \in 0..MaxTime
  BY TypeParts
<1> DEFINE u == [run[w] EXCEPT !.step = "send", !.attempt = 1, !.since = now]
<1>2. u \in RunType /\ u.step = "send" /\ u.at = run[w].at
  <2>1. 1 \in 0..RoundSize
    BY Bounds
  <2>2. QED
    BY <1>1, <2>1 DEF RunType, Steps
<1>3. run' = [run EXCEPT ![w] = u]
  BY <1>1
<1> HIDE DEF u
<1>4. QED
  BY <1>1, <1>2, <1>3, RunWrite

LEMMA AgainWrites ==
  ASSUME TypeOK, NEW w \in Runs, run[w].attempt < RoundSize,
         run' = [run EXCEPT ![w].step = "send", ![w].attempt = @ + 1]
  PROVE  /\ run' \in [Runs -> RunType]
         /\ \A v \in Runs \ {w} : run'[v] = run[v]
         /\ run'[w].step = "send" /\ run'[w].at = run[w].at
<1>1. run \in [Runs -> RunType] /\ run[w] \in RunType
  BY TypeParts
<1> DEFINE u == [run[w] EXCEPT !.step = "send", !.attempt = run[w].attempt + 1]
<1>2. u \in RunType /\ u.step = "send" /\ u.at = run[w].at
  BY <1>1, Bounds DEF RunType, Steps
<1>3. run' = [run EXCEPT ![w] = u]
  BY <1>1
<1> HIDE DEF u
<1>4. QED
  BY <1>1, <1>2, <1>3, RunWrite

\* markFailed, markAccepted, markRetry and scrubSecrets
LEMMA MarkWrites ==
  ASSUME TypeOK, NEW x \in Mails, NEW from, NEW to \in Statuses,
         row' = [row EXCEPT ![x] = IF @.status \in from
                                   THEN [@ EXCEPT !.status = to, !.lock = 0] ELSE @]
  PROVE  /\ row' \in [Mails -> RowType]
         /\ \A n \in Mails \ {x} : row'[n] = row[n]
         /\ row'[x].secret = row[x].secret
         /\ row'[x].status = IF row[x].status \in from THEN to ELSE row[x].status
<1>1. row \in [Mails -> RowType] /\ row[x] \in RowType
  BY TypeParts
<1> DEFINE r == IF row[x].status \in from THEN [row[x] EXCEPT !.status = to, !.lock = 0]
                ELSE row[x]
<1>2. /\ r \in RowType /\ r.secret = row[x].secret
      /\ r.status = IF row[x].status \in from THEN to ELSE row[x].status
  <2>1. 0 \in 0..MaxTime
    BY Bounds
  <2>2. CASE row[x].status \in from
    BY <1>1, <2>1, <2>2 DEF RowType
  <2>3. CASE row[x].status \notin from
    BY <1>1, <2>3 DEF RowType
  <2>4. QED
    BY <2>2, <2>3
<1>3. row' = [row EXCEPT ![x] = r]
  BY <1>1
<1> HIDE DEF r
<1>4. QED
  BY <1>1, <1>2, <1>3, RowWrite

LEMMA RetryWrites ==
  ASSUME TypeOK, NEW x \in Mails, NEW t \in 0..MaxTime + RetryDelay, MarkRetry(x, t)
  PROVE  /\ row' \in [Mails -> RowType]
         /\ \A n \in Mails \ {x} : row'[n] = row[n]
         /\ row'[x].secret = row[x].secret
         /\ row'[x].status = IF row[x].status \in {"pending", "sending"} THEN "pending"
                             ELSE row[x].status
<1>1. row \in [Mails -> RowType] /\ row[x] \in RowType
  BY TypeParts
<1> DEFINE r == IF row[x].status \in {"pending", "sending"}
                THEN [row[x] EXCEPT !.status = "pending", !.next = t, !.lock = 0] ELSE row[x]
<1>2. /\ r \in RowType /\ r.secret = row[x].secret
      /\ r.status = IF row[x].status \in {"pending", "sending"} THEN "pending"
                    ELSE row[x].status
  <2>1. 0 \in 0..MaxTime
    BY Bounds
  <2>2. CASE row[x].status \in {"pending", "sending"}
    BY <1>1, <2>1, <2>2 DEF RowType, Statuses
  <2>3. CASE row[x].status \notin {"pending", "sending"}
    BY <1>1, <2>3 DEF RowType
  <2>4. QED
    BY <2>2, <2>3
<1>3. row' = [row EXCEPT ![x] = r]
  BY <1>1 DEF MarkRetry
<1> HIDE DEF r
<1>4. QED
  BY <1>1, <1>2, <1>3, RowWrite

LEMMA ScrubWrites ==
  ASSUME TypeOK, NEW x \in Mails, row' = [row EXCEPT ![x].secret = FALSE]
  PROVE  /\ row' \in [Mails -> RowType]
         /\ \A n \in Mails \ {x} : row'[n] = row[n]
         /\ row'[x].secret = FALSE /\ row'[x].status = row[x].status
<1>1. row \in [Mails -> RowType] /\ row[x] \in RowType
  BY TypeParts
<1> DEFINE r == [row[x] EXCEPT !.secret = FALSE]
<1>2. r \in RowType /\ r.secret = FALSE /\ r.status = row[x].status
  BY <1>1 DEF RowType
<1>3. row' = [row EXCEPT ![x] = r]
  BY <1>1
<1> HIDE DEF r
<1>4. QED
  BY <1>1, <1>2, <1>3, RowWrite

-----------------------------------------------------------------------------
(* One lemma per action.                                                   *)

\* A run's step on one row: what is left to show is about that run and row.
LEMMA RowStepPreserves ==
  ASSUME OutboxInv, NEW w \in Runs, NEW x \in Mails, OneRun(w, x), OneRow(x), now' = now,
         row' \in [Mails -> RowType], run' \in [Runs -> RunType], sent' \in [Mails -> Nat],
         unheard' \in [Mails -> Nat], RunInv(w)', MailInv(x)'
  PROVE  OutboxInv'
<1>1. TypeOK'
  BY DEF OutboxInv, TypeOK, RowType, RunType, OneRow
<1>2. \A v \in Runs : RunInv(v)'
  BY OtherRunsKept, TypeParts DEF OutboxInv
<1>3. \A m \in Mails : MailInv(m)'
  BY OthersKept DEF OutboxInv
<1>4. QED
  BY <1>1, <1>2, <1>3 DEF OutboxInv

\* The numbers of one mail.
LEMMA MailNumbers ==
  ASSUME OutboxInv, NEW x \in Mails
  PROVE  /\ sent[x] \in Nat /\ stolen[x] \in Nat /\ unheard[x] \in Nat /\ crashes \in Nat
         /\ Cardinality(Live(x)) \in Nat /\ Cardinality(Live(x)') \in Nat
         /\ Slot(x) \in {0, 1} /\ Slot(x)' \in {0, 1}
         /\ MailBudget(x) /\ MailOwned(x) /\ MailSecret(x)
         /\ row[x].status = "accepted" => sent[x] > 0
         /\ row[x].status \in Statuses
<1>1. row[x] \in RowType
  BY TypeParts DEF OutboxInv
<1>2. sent[x] \in Nat /\ stolen[x] \in Nat /\ unheard[x] \in Nat /\ crashes \in Nat
  BY Bounds DEF OutboxInv, TypeOK
<1>3. QED
  BY <1>1, <1>2, LiveFinite DEF OutboxInv, MailInv, Slot, RowType

\* A run that holds a row works on it alone.
LEMMA AtOne ==
  ASSUME OutboxInv, NEW w \in Runs, NEW x \in Mails, x \in run[w].at
  PROVE  run[w].at = {x}
BY DEF OutboxInv, RunInv

LEMMA EnqueuePreserves ==
  ASSUME OutboxInv, NEW x \in Mails, Enqueue(x)
  PROVE  OutboxInv'
<1>1. row \in [Mails -> RowType] /\ now \in 0..MaxTime
  BY TypeParts DEF OutboxInv
<1> DEFINE r == [status |-> "pending", next |-> now, giveUp |-> now + Life, lock |-> 0,
                 secret |-> TRUE]
<1>2. r \in RowType /\ r.status = "pending" /\ r.secret = TRUE
  <2>1. 0 \in 0..MaxTime /\ now \in 0..MaxTime + RetryDelay /\ now + Life \in 0..MaxTime
    BY <1>1, Bounds DEF Enqueue
  <2>2. QED
    BY <2>1 DEF RowType, Statuses
<1>3. row' = [row EXCEPT ![x] = r]
  BY DEF Enqueue
<1> HIDE DEF r
<1>4. /\ row' \in [Mails -> RowType] /\ row'[x] = r
      /\ \A n \in Mails \ {x} : row'[n] = row[n]
  BY <1>1, <1>2, <1>3, RowWrite
<1>5. UNCHANGED <<run, now, sent, stolen, unheard, cut, crashes>> /\ row[x].status = "none"
  BY DEF Enqueue
<1>6. /\ \A v \in Runs, m \in Mails :
            (Holds(v, m)' <=> Holds(v, m)) /\ (Scrubs(v, m)' <=> Scrubs(v, m))
      /\ \A m \in Mails : Live(m)' = Live(m) /\ (Claimed(m)' <=> Claimed(m))
  BY <1>5 DEF Holds, Scrubs, Live, Claimed
<1>7. MailInv(x)'
  <2>1. row'[x].status = "pending" /\ row'[x].secret = TRUE
    BY <1>2, <1>4
  <2>2. Slot(x) = 1 /\ Slot(x)' = 1
    BY <1>5, <2>1 DEF Slot
  <2>3. MailBudget(x)'
    BY <1>5, <1>6, <2>2, MailNumbers DEF MailBudget
  <2>4. MailOwned(x)'
    BY <1>5, <1>6, MailNumbers DEF MailOwned, Final
  <2>5. QED
    BY <2>1, <2>3, <2>4 DEF MailInv, MailSecret, Final
<1>8. ASSUME NEW m \in Mails \ {x} PROVE MailInv(m)'
  <2>1. row'[m] = row[m] /\ MailInv(m)
    BY <1>4 DEF OutboxInv
  <2>2. Slot(m)' = Slot(m)
    BY <1>6, <2>1 DEF Slot
  <2>3. MailBudget(m)'
    BY <1>5, <1>6, <2>1, <2>2 DEF MailInv, MailBudget
  <2>4. MailOwned(m)' /\ MailSecret(m)'
    BY <1>5, <1>6, <2>1 DEF MailInv, MailOwned, MailSecret
  <2>5. QED
    BY <1>5, <2>1, <2>3, <2>4 DEF MailInv
<1>9. TypeOK'
  BY <1>4, <1>5 DEF OutboxInv, TypeOK, RowType
<1>10. \A v \in Runs : RunInv(v)'
  BY <1>5 DEF OutboxInv, RunInv
<1>11. QED
  BY <1>7, <1>8, <1>9, <1>10 DEF OutboxInv

\* A step of a run that keeps what it holds and leaves the row alone.
LEMMA RunOnlyPreserves ==
  ASSUME OutboxInv, NEW w \in Runs, NEW x \in Mails,
         run' \in [Runs -> RunType], \A v \in Runs \ {w} : run'[v] = run[v],
         run[w].at \subseteq {x}, run'[w].at = run[w].at,
         \/ run[w].step = "next" /\ run'[w].step \in {"idle", "next"} /\ run[w].at = {}
         \/ run[w].step \in {"claimed", "send"} /\ run'[w].step = "send",
         UNCHANGED <<row, now, sent, stolen, unheard, cut, crashes>>
  PROVE  OutboxInv'
<1>1. /\ \A v \in Runs : (Holds(v, x)' <=> Holds(v, x)) /\ (Scrubs(v, x)' <=> Scrubs(v, x))
      /\ Live(x)' = Live(x)
  BY DEF Holds, Scrubs, Live
<1>2. Slot(x)' = Slot(x)
  BY <1>1 DEF Slot, Claimed, Holds
<1>3. MailInv(x)'
  <2>1. MailBudget(x)'
    BY <1>1, <1>2, MailNumbers DEF MailBudget
  <2>2. MailOwned(x)' /\ MailSecret(x)'
    BY <1>1, MailNumbers DEF MailOwned, MailSecret
  <2>3. QED
    BY <2>1, <2>2, MailNumbers DEF MailInv
<1>4. RunInv(w)'
  BY DEF OutboxInv, RunInv
<1>5. OneRun(w, x) /\ OneRow(x)
  BY MailNumbers DEF OneRun, OneRow
<1>6. row' \in [Mails -> RowType] /\ sent' \in [Mails -> Nat] /\ unheard' \in [Mails -> Nat]
  BY TypeParts DEF OutboxInv
<1>7. QED
  BY <1>3, <1>4, <1>5, <1>6, RowStepPreserves

LEMMA ClaimPreserves ==
  ASSUME OutboxInv, NEW w \in Runs, NEW x \in Mails, Claim(w, x)
  PROVE  OutboxInv'
<1>0. /\ TypeOK /\ run \in [Runs -> RunType] /\ row \in [Mails -> RowType]
      /\ sent \in [Mails -> Nat] /\ unheard \in [Mails -> Nat]
      /\ UNCHANGED <<now, sent, stolen, unheard, cut, crashes>>
  BY TypeParts DEF OutboxInv, Claim
<1>1. run[w].step = "next" /\ run[w].at = {}
  BY DEF Claim, OutboxInv, RunInv
<1>2. CASE row[x].status # "pending" /\ Finish(w, x) /\ UNCHANGED row
  BY <1>0, <1>1, <1>2, FinishFacts, RunOnlyPreserves
<1>3. CASE /\ row[x].status = "pending"
           /\ row' = [row EXCEPT ![x].status = "sending", ![x].lock = run[w].start]
           /\ run' = [run EXCEPT ![w].step = "claimed", ![w].at = {x}]
  <2>1. /\ row' \in [Mails -> RowType] /\ run' \in [Runs -> RunType]
        /\ \A n \in Mails \ {x} : row'[n] = row[n]
        /\ row'[x].status = "sending" /\ row'[x].secret = row[x].secret
        /\ \A v \in Runs \ {w} : run'[v] = run[v]
        /\ run'[w].step = "claimed" /\ run'[w].at = {x}
    BY <1>0, <1>3, ClaimWrites
  <2>2. OneRun(w, x) /\ OneRow(x)
    BY <1>0, <1>1, <2>1, MailNumbers DEF OneRun, OneRow
  <2>3. RunInv(w)'
    BY <2>1 DEF RunInv
  <2>4. Cardinality(Live(x)') = Cardinality(Live(x)) + 1
    <3>1. w \notin Live(x) /\ w \in Live(x)'
      BY <1>1, <2>1 DEF Live
    <3>2. QED
      BY <2>1, <3>1, LiveEnters
  <2>5. Slot(x) = 1 /\ Slot(x)' = 0
    BY <1>3, <2>1 DEF Slot, Claimed
  <2>6. MailBudget(x)'
    BY <1>0, <2>4, <2>5, MailNumbers DEF MailBudget
  <2>7. MailOwned(x)'
    <3>1. stolen[x] = 0 => \A v \in Runs : ~Holds(v, x) /\ ~Scrubs(v, x)
      BY <1>3, MailNumbers DEF MailOwned, Final
    <3>2. stolen[x] = 0 => \A v \in Runs \ {w} : ~Holds(v, x)' /\ ~Scrubs(v, x)'
      BY <2>1, <3>1 DEF Holds, Scrubs
    <3>3. ~Scrubs(w, x)'
      BY <2>1 DEF Scrubs
    <3>4. QED
      BY <1>0, <2>1, <3>2, <3>3 DEF MailOwned
  <2>8. MailSecret(x)'
    BY <1>0, <1>3, <2>1, MailNumbers DEF MailSecret, Final
  <2>9. MailInv(x)'
    BY <2>1, <2>6, <2>7, <2>8 DEF MailInv
  <2>10. QED
    BY <1>0, <2>1, <2>2, <2>3, <2>9, RowStepPreserves
<1>4. QED
  BY <1>2, <1>3 DEF Claim

\* transport.send throws: what the run and the counter of lost answers are
LEMMA Throws ==
  ASSUME OutboxInv, NEW w \in Runs, NEW x \in Mails, SendThrows(w, x)
  PROVE  /\ run[w].at = {x} /\ unheard' \in [Mails -> Nat]
         /\ \A n \in Mails \ {x} : unheard'[n] = unheard[n]
         /\ \/ run[w].step = "send" /\ unheard' = unheard
            \/ run[w].step = "took" /\ unheard'[x] = unheard[x] + 1
<1>1. unheard \in [Mails -> Nat] /\ run[w].at = {x}
  BY TypeParts, AtOne DEF OutboxInv, SendThrows
<1>2. CASE run[w].step = "send"
  <2>1. unheard' = unheard
    BY <1>1, <1>2 DEF SendThrows
  <2>2. QED
    BY <1>1, <1>2, <2>1
<1>3. CASE run[w].step = "took"
  <2>1. unheard' = [unheard EXCEPT ![x] = unheard[x] + 1]
    BY <1>1, <1>3 DEF SendThrows
  <2>2. QED
    BY <1>1, <1>3, <2>1
<1>4. QED
  BY <1>2, <1>3 DEF SendThrows

\* The answer is lost and the round goes on: the run may send again, at the
\* price of a lost answer.
LEMMA LostAgainPreserves ==
  ASSUME OutboxInv, NEW w \in Runs, NEW x \in Mails,
         run' \in [Runs -> RunType], \A v \in Runs \ {w} : run'[v] = run[v],
         run[w].at = {x}, run'[w].at = {x}, run[w].step = "took", run'[w].step = "send",
         unheard' \in [Mails -> Nat], unheard'[x] = unheard[x] + 1,
         \A n \in Mails \ {x} : unheard'[n] = unheard[n],
         UNCHANGED <<row, now, sent, stolen, cut, crashes>>
  PROVE  OutboxInv'
<1>1. \A v \in Runs : (Holds(v, x)' <=> Holds(v, x)) /\ (Scrubs(v, x)' <=> Scrubs(v, x))
  BY DEF Holds, Scrubs
<1>2. Cardinality(Live(x)') = Cardinality(Live(x)) + 1
  <2>1. w \notin Live(x) /\ w \in Live(x)'
    BY DEF Live
  <2>2. QED
    BY <2>1, LiveEnters
<1>3. Slot(x)' = Slot(x)
  BY <1>1 DEF Slot, Claimed, Holds
<1>4. MailBudget(x)'
  BY <1>2, <1>3, MailNumbers DEF MailBudget
<1>5. MailOwned(x)' /\ MailSecret(x)'
  BY <1>1, MailNumbers DEF MailOwned, MailSecret
<1>6. MailInv(x)'
  BY <1>4, <1>5, MailNumbers DEF MailInv
<1>7. RunInv(w)'
  BY DEF RunInv
<1>8. OneRun(w, x) /\ OneRow(x)
  BY MailNumbers DEF OneRun, OneRow
<1>9. row' \in [Mails -> RowType] /\ sent' \in [Mails -> Nat]
  BY TypeParts DEF OutboxInv
<1>10. QED
  BY <1>6, <1>7, <1>8, <1>9, RowStepPreserves

LEMMA SendPreserves ==
  ASSUME OutboxInv, NEW w \in Runs, NEW x \in Mails, Send(w, x) \/ Again(w, x)
  PROVE  OutboxInv'
<1>1. TypeOK /\ UNCHANGED <<row, now, sent, stolen, cut, crashes>>
  BY DEF OutboxInv, Send, Again
<1>2. CASE Send(w, x)
  <2>1. run[w].at = {x} /\ unheard' = unheard
    BY <1>2, AtOne DEF Send
  <2>2. QED
    BY <1>1, <1>2, <2>1, SendWrites, RunOnlyPreserves DEF Send
<1>3. CASE Again(w, x)
  <2>1. /\ run' \in [Runs -> RunType] /\ \A v \in Runs \ {w} : run'[v] = run[v]
        /\ run'[w].step = "send" /\ run'[w].at = run[w].at
    BY <1>1, <1>3, AgainWrites DEF Again
  <2>2. /\ run[w].at = {x} /\ unheard' \in [Mails -> Nat]
        /\ \A n \in Mails \ {x} : unheard'[n] = unheard[n]
        /\ \/ run[w].step = "send" /\ unheard' = unheard
           \/ run[w].step = "took" /\ unheard'[x] = unheard[x] + 1
    BY <1>3, Throws DEF Again
  <2>3. CASE run[w].step = "send" /\ unheard' = unheard
    BY <1>1, <2>1, <2>2, <2>3, RunOnlyPreserves
  <2>4. CASE run[w].step = "took" /\ unheard'[x] = unheard[x] + 1
    BY <1>1, <2>1, <2>2, <2>4, LostAgainPreserves
  <2>5. QED
    BY <2>2, <2>3, <2>4
<1>4. QED
  BY <1>2, <1>3

\* markFailed or markRetry by a run that holds the row: the run lets go of it, and
\* it does not stay `sending`.  The run might still have sent it, or the answer of
\* its send is lost.
LEMMA LetGoPreserves ==
  ASSUME OutboxInv, NEW w \in Runs, NEW x \in Mails, x \in run[w].at,
         run' \in [Runs -> RunType], \A v \in Runs \ {w} : run'[v] = run[v],
         row' \in [Mails -> RowType], \A n \in Mails \ {x} : row'[n] = row[n],
         row'[x].secret = row[x].secret,
         \/ /\ run'[w].step = "scrub" /\ run'[w].at = {x}
            /\ row'[x].status = IF row[x].status \in {"pending", "sending"} THEN "failed"
                                ELSE row[x].status
         \/ /\ run'[w].step \in {"idle", "next"} /\ run'[w].at = {}
            /\ row'[x].status = IF row[x].status \in {"pending", "sending"} THEN "pending"
                                ELSE row[x].status,
         \/ run[w].step \in {"claimed", "send"} /\ unheard' = unheard
         \/ run[w].step = "took" /\ unheard'[x] = unheard[x] + 1,
         unheard' \in [Mails -> Nat], \A n \in Mails \ {x} : unheard'[n] = unheard[n],
         UNCHANGED <<now, sent, stolen, cut, crashes>>
  PROVE  OutboxInv'
<1>1. run[w].at = {x} /\ run[w].step \in {"claimed", "send", "took"}
  BY AtOne
<1>2. Holds(w, x) /\ ~Holds(w, x)' /\ Claimed(x)
  BY <1>1 DEF Holds, Claimed
<1>3. w \notin Live(x)'
  BY DEF Live
<1>4. MailBudget(x)'
  <2>1. Slot(x)' <= Slot(x) + 1
    BY MailNumbers
  <2>2. CASE run[w].step \in {"claimed", "send"} /\ unheard' = unheard
    <3>1. Cardinality(Live(x)') = Cardinality(Live(x)) - 1
      <4>1. w \in Live(x)
        BY <1>1, <2>2 DEF Live
      <4>2. QED
        BY <1>3, <4>1, LiveLeaves
    <3>2. QED
      BY <2>1, <2>2, <3>1, MailNumbers DEF MailBudget
  <2>3. CASE run[w].step = "took" /\ unheard'[x] = unheard[x] + 1
    <3>1. Live(x)' = Live(x)
      <4>1. w \notin Live(x)
        BY <2>3 DEF Live
      <4>2. QED
        BY <1>3, <4>1, LiveStays
    <3>2. QED
      BY <2>1, <2>3, <3>1, MailNumbers DEF MailBudget
  <2>4. QED
    BY <2>2, <2>3
<1>5. MailOwned(x)'
  <2>1. ASSUME stolen[x] = 0, NEW v \in Runs
        PROVE  ~Holds(v, x)' /\ (Scrubs(v, x)' => row'[x].status \in Final)
    <3>1. row[x].status = "sending"
      BY <1>2, <2>1, MailNumbers DEF MailOwned
    <3>2. CASE v = w
      BY <1>2, <3>1, <3>2 DEF Scrubs, Final
    <3>3. CASE v # w
      <4>1. ~Holds(v, x) /\ ~Scrubs(v, x)
        BY <1>2, <2>1, <3>1, <3>3, MailNumbers DEF MailOwned, Final
      <4>2. QED
        BY <3>3, <4>1 DEF Holds, Scrubs
    <3>4. QED
      BY <3>2, <3>3
  <2>2. QED
    BY <2>1 DEF MailOwned
<1>6. MailSecret(x)'
  <2>1. \A v \in Runs \ {w} : Scrubs(v, x) => Scrubs(v, x)'
    BY DEF Scrubs
  <2>2. ~Scrubs(w, x)
    BY <1>1 DEF Scrubs
  <2>3. CASE run'[w].step = "scrub" /\ run'[w].at = {x}
    <3>1. Scrubs(w, x)'
      BY <2>3 DEF Scrubs
    <3>2. row'[x].status \notin {"pending", "sending"}
      BY <2>3
    <3>3. QED
      BY <3>1, <3>2 DEF MailSecret
  <2>4. CASE row'[x].status = IF row[x].status \in {"pending", "sending"} THEN "pending"
                              ELSE row[x].status
    BY <2>1, <2>2, <2>4, MailNumbers DEF MailSecret, Final
  <2>5. QED
    BY <2>3, <2>4
<1>7. MailInv(x)'
  BY <1>4, <1>5, <1>6, MailNumbers DEF MailInv
<1>8. RunInv(w)'
  BY DEF RunInv
<1>9. OneRun(w, x) /\ OneRow(x) /\ sent' \in [Mails -> Nat]
  BY <1>1, MailNumbers, TypeParts DEF OneRun, OneRow, OutboxInv
<1>10. QED
  BY <1>7, <1>8, <1>9, RowStepPreserves

LEMMA FailPreserves ==
  ASSUME OutboxInv, NEW w \in Runs, NEW x \in Mails, GiveUp(w, x) \/ Fail(w, x)
  PROVE  OutboxInv'
<1>1. /\ TypeOK /\ run \in [Runs -> RunType] /\ x \in run[w].at /\ run[w].at = {x}
      /\ MarkFailed(w, x) /\ UNCHANGED <<now, sent, stolen, cut, crashes>>
  BY TypeParts, AtOne DEF OutboxInv, GiveUp, Fail, SendThrows
<1>2. /\ \/ run[w].step \in {"claimed", "send"} /\ unheard' = unheard
         \/ run[w].step = "took" /\ unheard'[x] = unheard[x] + 1
      /\ unheard' \in [Mails -> Nat] /\ \A n \in Mails \ {x} : unheard'[n] = unheard[n]
  <2>1. CASE GiveUp(w, x)
    BY <2>1, TypeParts DEF GiveUp, OutboxInv
  <2>2. CASE Fail(w, x)
    BY <2>2, Throws DEF Fail
  <2>3. QED
    BY <2>1, <2>2
<1>3. /\ run' \in [Runs -> RunType] /\ \A v \in Runs \ {w} : run'[v] = run[v]
      /\ run'[w].step = "scrub" /\ run'[w].at = {x}
  BY <1>1, StepWrites DEF MarkFailed, Steps
<1>4. /\ row' \in [Mails -> RowType] /\ \A n \in Mails \ {x} : row'[n] = row[n]
      /\ row'[x].secret = row[x].secret
      /\ row'[x].status = IF row[x].status \in {"pending", "sending"} THEN "failed"
                          ELSE row[x].status
  <2>1. "failed" \in Statuses
    BY DEF Statuses
  <2>2. QED
    BY <1>1, <2>1, MarkWrites DEF MarkFailed
<1>5. QED
  BY <1>1, <1>2, <1>3, <1>4, LetGoPreserves

LEMMA RetryPreserves ==
  ASSUME OutboxInv, NEW w \in Runs, NEW x \in Mails, Retry(w, x)
  PROVE  OutboxInv'
<1>1. /\ TypeOK /\ run \in [Runs -> RunType] /\ x \in run[w].at /\ Finish(w, x)
      /\ UNCHANGED <<now, sent, stolen, cut, crashes>>
  BY TypeParts DEF OutboxInv, Retry, SendThrows
<1>2. /\ \/ run[w].step \in {"claimed", "send"} /\ unheard' = unheard
         \/ run[w].step = "took" /\ unheard'[x] = unheard[x] + 1
      /\ unheard' \in [Mails -> Nat] /\ \A n \in Mails \ {x} : unheard'[n] = unheard[n]
  BY Throws DEF Retry
<1>3. run[w].start + RetryDelay \in 0..MaxTime + RetryDelay
  <2>1. run[w].start \in 0..MaxTime
    BY <1>1 DEF RunType
  <2>2. QED
    BY <2>1, Bounds
<1>4. QED
  BY <1>1, <1>2, <1>3, FinishFacts, RetryWrites, LetGoPreserves DEF Retry

\* the provider takes the mail: one send of the budget is used
LEMMA TakePreserves ==
  ASSUME OutboxInv, NEW w \in Runs, NEW x \in Mails, Take(w, x)
  PROVE  OutboxInv'
<1>1. /\ run \in [Runs -> RunType] /\ row \in [Mails -> RowType] /\ sent \in [Mails -> Nat]
      /\ unheard \in [Mails -> Nat] /\ run[w].at = {x} /\ run[w].step = "send"
      /\ UNCHANGED <<row, now, stolen, unheard, cut, crashes>>
  BY TypeParts, AtOne DEF OutboxInv, Take
<1>2. /\ run' \in [Runs -> RunType] /\ \A v \in Runs \ {w} : run'[v] = run[v]
      /\ run'[w].step = "took" /\ run'[w].at = {x}
  BY <1>1, StepWrites DEF Take, Steps
<1>3. /\ sent' \in [Mails -> Nat] /\ sent'[x] = sent[x] + 1
      /\ \A n \in Mails \ {x} : sent'[n] = sent[n]
  BY <1>1 DEF Take
<1>4. Cardinality(Live(x)') = Cardinality(Live(x)) - 1
  <2>1. w \in Live(x) /\ w \notin Live(x)'
    BY <1>1, <1>2 DEF Live
  <2>2. QED
    BY <1>2, <2>1, LiveLeaves
<1>5. \A v \in Runs : (Holds(v, x)' <=> Holds(v, x)) /\ (Scrubs(v, x)' <=> Scrubs(v, x))
  BY <1>1, <1>2 DEF Holds, Scrubs
<1>6. Slot(x)' = Slot(x)
  BY <1>1, <1>5 DEF Slot, Claimed, Holds
<1>7. MailBudget(x)'
  BY <1>1, <1>3, <1>4, <1>6, MailNumbers DEF MailBudget
<1>8. MailOwned(x)' /\ MailSecret(x)'
  BY <1>1, <1>5, MailNumbers DEF MailOwned, MailSecret
<1>9. sent'[x] > 0
  BY <1>1, <1>3
<1>10. MailInv(x)' /\ RunInv(w)'
  BY <1>2, <1>7, <1>8, <1>9 DEF MailInv, RunInv
<1>11. OneRun(w, x) /\ OneRow(x)
  BY <1>1, <1>2, <1>3, MailNumbers DEF OneRun, OneRow
<1>12. QED
  BY <1>1, <1>2, <1>3, <1>10, <1>11, RowStepPreserves

LEMMA AcceptPreserves ==
  ASSUME OutboxInv, NEW w \in Runs, NEW x \in Mails, Accept(w, x)
  PROVE  OutboxInv'
<1>1. /\ TypeOK /\ run \in [Runs -> RunType] /\ row \in [Mails -> RowType]
      /\ sent \in [Mails -> Nat] /\ unheard \in [Mails -> Nat]
      /\ run[w].at = {x} /\ run[w].step = "took" /\ sent[x] > 0
      /\ UNCHANGED <<now, sent, stolen, unheard, cut, crashes>>
  BY TypeParts, AtOne DEF OutboxInv, Accept, RunInv
<1>2. /\ run' \in [Runs -> RunType] /\ \A v \in Runs \ {w} : run'[v] = run[v]
      /\ run'[w].step = "scrub" /\ run'[w].at = {x}
  BY <1>1, StepWrites DEF Accept, Steps
<1>3. /\ row' \in [Mails -> RowType] /\ \A n \in Mails \ {x} : row'[n] = row[n]
      /\ row'[x].secret = row[x].secret
      /\ row'[x].status = IF row[x].status = "sending" THEN "accepted" ELSE row[x].status
  <2>1. "accepted" \in Statuses
    BY DEF Statuses
  <2> DEFINE from == {"sending"}
  <2>2. row' = [row EXCEPT ![x] = IF @.status \in from
                                  THEN [@ EXCEPT !.status = "accepted", !.lock = 0] ELSE @]
    BY DEF Accept
  <2>3. row[x].status \in from <=> row[x].status = "sending"
    OBVIOUS
  <2> HIDE DEF from
  <2>4. /\ row' \in [Mails -> RowType] /\ \A n \in Mails \ {x} : row'[n] = row[n]
        /\ row'[x].secret = row[x].secret
        /\ row'[x].status = IF row[x].status \in from THEN "accepted" ELSE row[x].status
    BY <1>1, <2>1, <2>2, MarkWrites
  <2>5. QED
    BY <2>3, <2>4
<1>4. Live(x)' = Live(x)
  BY <1>1, <1>2 DEF Live
<1>5. Slot(x)' <= Slot(x)
  BY <1>3 DEF Slot
<1>6. MailBudget(x)'
  BY <1>1, <1>4, <1>5, MailNumbers DEF MailBudget
<1>7. MailOwned(x)'
  <2>1. ASSUME stolen[x] = 0, NEW v \in Runs
        PROVE  ~Holds(v, x)' /\ (Scrubs(v, x)' => row'[x].status \in Final)
    <3>0. Holds(w, x)
      BY <1>1 DEF Holds
    <3>1. row[x].status = "sending" /\ row'[x].status = "accepted"
      BY <1>3, <2>1, <3>0, MailNumbers DEF MailOwned
    <3>2. CASE v = w
      BY <1>2, <3>1, <3>2 DEF Holds, Final
    <3>3. CASE v # w
      <4>1. ~Holds(v, x)
        BY <2>1, <3>0, <3>3, MailNumbers DEF MailOwned
      <4>2. QED
        BY <1>2, <3>1, <3>3, <4>1 DEF Holds, Final
    <3>4. QED
      BY <3>2, <3>3
  <2>2. QED
    BY <1>1, <2>1 DEF MailOwned
<1>8. MailSecret(x)'
  <2>1. Scrubs(w, x)'
    BY <1>2 DEF Scrubs
  <2>2. QED
    BY <1>1, <1>3, <2>1, MailNumbers DEF MailSecret
<1>9. MailInv(x)' /\ RunInv(w)'
  BY <1>1, <1>2, <1>6, <1>7, <1>8 DEF MailInv, RunInv
<1>10. OneRun(w, x) /\ OneRow(x)
  BY <1>1, <1>2, <1>3, MailNumbers DEF OneRun, OneRow
<1>11. QED
  BY <1>1, <1>2, <1>3, <1>9, <1>10, RowStepPreserves

LEMMA ScrubPreserves ==
  ASSUME OutboxInv, NEW w \in Runs, NEW x \in Mails, Scrub(w, x)
  PROVE  OutboxInv'
<1>1. /\ TypeOK /\ run \in [Runs -> RunType] /\ sent \in [Mails -> Nat]
      /\ unheard \in [Mails -> Nat]
      /\ run[w].at = {x} /\ run[w].step = "scrub"
      /\ UNCHANGED <<now, sent, stolen, unheard, cut, crashes>>
  BY TypeParts, AtOne DEF OutboxInv, Scrub
<1>2. /\ run' \in [Runs -> RunType] /\ \A v \in Runs \ {w} : run'[v] = run[v]
      /\ run'[w].at = {} /\ run'[w].step \in {"idle", "next"}
  BY <1>1, FinishFacts DEF Scrub
<1>3. /\ row' \in [Mails -> RowType] /\ \A n \in Mails \ {x} : row'[n] = row[n]
      /\ row'[x].secret = FALSE /\ row'[x].status = row[x].status
  BY <1>1, ScrubWrites DEF Scrub
<1>4. /\ Live(x)' = Live(x)
      /\ \A v \in Runs : (Holds(v, x)' <=> Holds(v, x)) /\ (Scrubs(v, x)' => Scrubs(v, x))
  BY <1>1, <1>2 DEF Live, Holds, Scrubs
<1>5. Slot(x)' = Slot(x)
  BY <1>3, <1>4 DEF Slot, Claimed, Holds
<1>6. MailBudget(x)'
  BY <1>1, <1>4, <1>5, MailNumbers DEF MailBudget
<1>7. MailOwned(x)'
  BY <1>1, <1>3, <1>4, MailNumbers DEF MailOwned
<1>8. MailSecret(x)'
  <2>1. Scrubs(w, x)
    BY <1>1 DEF Scrubs
  <2>2. stolen[x] = 0 => row[x].status \in Final
    BY <2>1, MailNumbers DEF MailOwned
  <2>3. QED
    BY <1>1, <1>3, <2>2, MailNumbers DEF MailSecret, Final
<1>9. MailInv(x)' /\ RunInv(w)'
  BY <1>1, <1>2, <1>3, <1>6, <1>7, <1>8, MailNumbers DEF MailInv, RunInv
<1>10. OneRun(w, x) /\ OneRow(x)
  BY <1>1, <1>2, <1>3, MailNumbers DEF OneRun, OneRow
<1>11. QED
  BY <1>1, <1>2, <1>3, <1>9, <1>10, RowStepPreserves

\* recoverStuck, findDue
LEMMA StartRunPreserves ==
  ASSUME OutboxInv, NEW w \in Runs, StartRun(w)
  PROVE  OutboxInv'
<1>0. /\ TypeOK /\ run \in [Runs -> RunType] /\ row \in [Mails -> RowType]
      /\ stolen \in [Mails -> Nat] /\ now \in 0..MaxTime
  BY TypeParts DEF OutboxInv
<1>1. /\ run[w].step = "idle" /\ run[w].at = {}
      /\ row' = [m \in Mails |-> Recovered(m, now)]
      /\ stolen' = [m \in Mails |-> IF IsStuck(m, now) /\ Claimed(m)
                                    THEN stolen[m] + 1 ELSE stolen[m]]
      /\ UNCHANGED <<now, sent, unheard, cut, crashes>>
  BY DEF StartRun, OutboxInv, RunInv
<1>2. PICK S \in SUBSET Mails :
        run' = [run EXCEPT ![w] =
                  [step |-> "next", start |-> now, due |-> S, at |-> {},
                   bare |-> {m \in S : ~[n \in Mails |-> Recovered(n, now)][m].secret},
                   attempt |-> 0, since |-> 0]]
  BY DEF StartRun
<1>3. /\ run' \in [Runs -> RunType] /\ \A v \in Runs \ {w} : run'[v] = run[v]
      /\ run'[w].step = "next" /\ run'[w].at = {}
  <2> DEFINE B == {m \in S : ~[n \in Mails |-> Recovered(n, now)][m].secret}
             u == [step |-> "next", start |-> now, due |-> S, at |-> {}, bare |-> B,
                   attempt |-> 0, since |-> 0]
  <2>1. B \in SUBSET Mails
    OBVIOUS
  <2>2. run' = [run EXCEPT ![w] = u]
    BY <1>2
  <2> HIDE DEF B
  <2>3. u \in RunType /\ u.step = "next" /\ u.at = {}
    <3>1. 0 \in 0..MaxTime /\ 0 \in 0..RoundSize
      BY Bounds
    <3>2. QED
      BY <1>0, <2>1, <3>1 DEF RunType, Steps
  <2> HIDE DEF u
  <2>4. QED
    BY <1>0, <2>2, <2>3, RunWrite
<1>4. ASSUME NEW m \in Mails
      PROVE  /\ row'[m] \in RowType /\ row'[m].secret = row[m].secret
             /\ row'[m].status = IF IsStuck(m, now) THEN "pending" ELSE row[m].status
  <2>1. row[m] \in RowType /\ row'[m] = Recovered(m, now)
    BY <1>0, <1>1
  <2>2. CASE IsStuck(m, now)
    <3>1. row'[m] = [row[m] EXCEPT !.status = "pending", !.lock = 0]
      BY <2>1, <2>2 DEF Recovered
    <3>2. 0 \in 0..MaxTime
      BY Bounds
    <3>3. QED
      BY <2>1, <2>2, <3>1, <3>2 DEF RowType, Statuses
  <2>3. CASE ~IsStuck(m, now)
    BY <2>1, <2>3 DEF Recovered
  <2>4. QED
    BY <2>2, <2>3
<1>5. row' \in [Mails -> RowType]
  BY <1>1, <1>4
<1>6. ASSUME NEW m \in Mails
      PROVE  /\ Live(m)' = Live(m)
             /\ \A v \in Runs : (Holds(v, m)' <=> Holds(v, m)) /\ (Scrubs(v, m)' <=> Scrubs(v, m))
             /\ Claimed(m)' <=> Claimed(m)
  <2>1. /\ Live(m)' = Live(m)
        /\ \A v \in Runs : (Holds(v, m)' <=> Holds(v, m)) /\ (Scrubs(v, m)' <=> Scrubs(v, m))
    BY <1>1, <1>3 DEF Live, Holds, Scrubs
  <2>2. QED
    BY <2>1 DEF Claimed, Holds
<1>7. ASSUME NEW m \in Mails PROVE MailInv(m)'
  <2>1. /\ stolen'[m] = IF IsStuck(m, now) /\ Claimed(m) THEN stolen[m] + 1 ELSE stolen[m]
        /\ sent'[m] = sent[m] /\ unheard'[m] = unheard[m] /\ crashes' = crashes /\ cut' = cut
    BY <1>1
  <2>2. IsStuck(m, now) => row[m].status = "sending"
    BY DEF IsStuck
  <2>3. MailBudget(m)'
    <3>1. Slot(m)' + stolen[m] <= Slot(m) + stolen'[m]
      <4>1. CASE IsStuck(m, now)
        BY <1>4, <2>1, <2>2, <4>1, MailNumbers DEF Slot
      <4>2. CASE ~IsStuck(m, now)
        <5>1. Slot(m)' = Slot(m) /\ stolen'[m] = stolen[m]
          BY <1>4, <1>6, <2>1, <4>2 DEF Slot
        <5>2. QED
          BY <5>1, MailNumbers
      <4>3. QED
        BY <4>1, <4>2
    <3>2. stolen'[m] \in Nat
      BY <2>1, MailNumbers
    <3>3. QED
      BY <1>6, <2>1, <3>1, <3>2, MailNumbers DEF MailBudget
  <2>4. MailOwned(m)'
    <3>1. ASSUME stolen'[m] = 0
          PROVE  stolen[m] = 0 /\ (IsStuck(m, now) => ~Claimed(m))
      BY <2>1, <3>1, MailNumbers
    <3>2. Claimed(m) <=> \E v \in Runs : Holds(v, m)
      BY DEF Claimed, Holds
    <3>3. QED
      BY <1>4, <1>6, <2>2, <3>1, <3>2, MailNumbers DEF MailOwned, Final
  <2>5. MailSecret(m)'
    <3>1. stolen[m] > 0 => stolen'[m] > 0
      BY <2>1, MailNumbers
    <3>2. QED
      BY <1>4, <1>6, <2>1, <2>2, <3>1, MailNumbers DEF MailSecret, Final
  <2>6. QED
    BY <1>4, <2>1, <2>2, <2>3, <2>4, <2>5, MailNumbers DEF MailInv
<1>8. ASSUME NEW v \in Runs PROVE RunInv(v)'
  BY <1>1, <1>3 DEF OutboxInv, RunInv
<1>9. TypeOK'
  <2>1. stolen' \in [Mails -> Nat]
    BY <1>0, <1>1
  <2>2. QED
    BY <1>1, <1>3, <1>5, <2>1 DEF OutboxInv, TypeOK, RowType, RunType
<1>10. QED
  BY <1>7, <1>8, <1>9 DEF OutboxInv

\* Nothing but the clock changes.
LEMMA TickPreserves ==
  ASSUME OutboxInv, Tick \/ UNCHANGED vars
  PROVE  OutboxInv'
<1>1. UNCHANGED <<row, run, sent, stolen, unheard, cut, crashes>> /\ now' \in 0..MaxTime
  BY Bounds DEF Tick, vars, OutboxInv, TypeOK
<1>2. TypeOK'
  BY <1>1 DEF OutboxInv, TypeOK
<1>3. \A w \in Runs : RunInv(w)'
  BY <1>1 DEF OutboxInv, RunInv
<1>4. ASSUME NEW m \in Mails PROVE MailInv(m)'
  <2>1. /\ Live(m)' = Live(m) /\ (Claimed(m)' <=> Claimed(m))
        /\ \A v \in Runs : (Holds(v, m)' <=> Holds(v, m)) /\ (Scrubs(v, m)' <=> Scrubs(v, m))
    BY <1>1 DEF Live, Claimed, Holds, Scrubs
  <2>2. Slot(m)' = Slot(m)
    BY <1>1, <2>1 DEF Slot
  <2>3. MailBudget(m)' /\ MailOwned(m)' /\ MailSecret(m)'
    BY <1>1, <2>1, <2>2, MailNumbers DEF MailBudget, MailOwned, MailSecret
  <2>4. QED
    BY <1>1, <2>3, MailNumbers DEF MailInv
<1>5. QED
  BY <1>2, <1>3, <1>4 DEF OutboxInv

\* The stop ends every run: what they held is free again, at the price of a crash.
LEMMA CrashPreserves ==
  ASSUME OutboxInv, Crash
  PROVE  OutboxInv'
<1>1. /\ UNCHANGED <<row, now, sent, stolen, unheard>> /\ crashes' = crashes + 1
      /\ run' = [w \in Runs |-> NoRun]
      /\ cut' = cut \cup UNION {run[w].at : w \in {v \in Runs : run[v].step = "scrub"}}
  BY DEF Crash
<1>2. run' \in [Runs -> RunType] /\ \A w \in Runs : run'[w].step = "idle" /\ run'[w].at = {}
  BY <1>1, NoRunFacts
<1>3. cut' \subseteq Mails
  <2>1. \A w \in Runs : run[w].at \subseteq Mails
    BY TypeParts DEF OutboxInv, RunType
  <2>2. cut \subseteq Mails
    BY TypeParts DEF OutboxInv
  <2>3. QED
    BY <1>1, <2>1, <2>2
<1>4. TypeOK'
  <2>1. crashes' \in 0..MaxCrashes
    BY <1>1, Bounds DEF Crash, OutboxInv, TypeOK
  <2>2. QED
    BY <1>1, <1>2, <1>3, <2>1 DEF OutboxInv, TypeOK, RunType
<1>5. \A w \in Runs : RunInv(w)'
  BY <1>2 DEF RunInv
<1>6. ASSUME NEW m \in Mails PROVE MailInv(m)'
  <2>1. Live(m)' = {} /\ \A w \in Runs : ~Holds(w, m)' /\ ~Scrubs(w, m)'
    BY <1>2 DEF Live, Holds, Scrubs
  <2>2. Cardinality(Live(m)') = 0
    BY <2>1, FS_EmptySet
  <2>3. MailBudget(m)'
    BY <1>1, <2>2, MailNumbers DEF MailBudget
  <2>4. MailOwned(m)'
    BY <2>1 DEF MailOwned
  <2>5. (m \in cut \/ \E w \in Runs : Scrubs(w, m)) => m \in cut'
    BY <1>1 DEF Scrubs
  <2>6. MailSecret(m)'
    BY <1>1, <2>5, MailNumbers DEF MailSecret
  <2>7. QED
    BY <1>1, <2>3, <2>4, <2>6, MailNumbers DEF MailInv
<1>7. QED
  BY <1>4, <1>5, <1>6 DEF OutboxInv

LEMMA InitEstablishes == Init => OutboxInv
<1> SUFFICES ASSUME Init PROVE OutboxInv
  OBVIOUS
<1>1. row \in [Mails -> RowType] /\ \A m \in Mails : row[m].status = "none"
  <2>1. 0 \in 0..MaxTime /\ 0 \in 0..MaxTime + RetryDelay
    BY Bounds
  <2>2. NoRow \in RowType /\ NoRow.status = "none"
    BY <2>1 DEF NoRow, RowType, Statuses
  <2>3. QED
    BY <2>2 DEF Init
<1>2. run \in [Runs -> RunType] /\ \A w \in Runs : run[w].step = "idle" /\ run[w].at = {}
  BY NoRunFacts DEF Init
<1>3. TypeOK
  BY <1>1, <1>2, Bounds DEF Init, TypeOK, RowType, RunType
<1>4. \A w \in Runs : RunInv(w)
  BY <1>2 DEF RunInv
<1>5. ASSUME NEW m \in Mails PROVE MailInv(m)
  <2>1. Live(m) = {} /\ \A w \in Runs : ~Holds(w, m) /\ ~Scrubs(w, m)
    BY <1>2 DEF Live, Holds, Scrubs
  <2>2. Cardinality(Live(m)) = 0 /\ Slot(m) = 1
    BY <1>1, <2>1, FS_EmptySet DEF Slot
  <2>3. QED
    BY <1>1, <2>1, <2>2 DEF Init, MailInv, MailBudget, MailOwned, MailSecret, Final
<1>6. QED
  BY <1>3, <1>4, <1>5 DEF OutboxInv

-----------------------------------------------------------------------------
(* What holds in every reachable state.                                    *)

\* Rows, runs and the budget of every mail agree as OutboxInv says, for any
\* number of mails, overlapping runs and crashes.
THEOREM OutboxInvariant == Spec => []OutboxInv
<1>1. Init => OutboxInv
  BY InitEstablishes
<1>2. OutboxInv /\ [Next]_vars => OutboxInv'
  <2> SUFFICES ASSUME OutboxInv, [Next]_vars PROVE OutboxInv'
    OBVIOUS
  <2>1. ASSUME NEW w \in Runs, NEW m \in Mails,
               \/ Claim(w, m) \/ GiveUp(w, m) \/ Send(w, m) \/ Take(w, m) \/ Accept(w, m)
               \/ Again(w, m) \/ Retry(w, m) \/ Fail(w, m) \/ Scrub(w, m)
        PROVE  OutboxInv'
    BY <2>1, ClaimPreserves, FailPreserves, SendPreserves, TakePreserves, AcceptPreserves,
       RetryPreserves, ScrubPreserves
  <2>2. QED
    BY <2>1, EnqueuePreserves, StartRunPreserves, TickPreserves, CrashPreserves DEF Next, Step
<1>3. QED
  BY <1>1, <1>2, PTL DEF Spec

\* Rows and runs keep their types; a round never exceeds its attempts.
THEOREM OutboxTypes == Spec => []TypeOK
<1>1. OutboxInv => TypeOK
  BY DEF OutboxInv
<1>2. QED
  BY <1>1, OutboxInvariant, PTL

\* A mail reaches the provider at most once, and once more per crash, per row
\* that recoverStuck took from a run still sending it and per lost answer.
THEOREM MailSentOnce == Spec => []SentOnce
<1>1. OutboxInv => SentOnce
  <2> SUFFICES ASSUME OutboxInv, NEW m \in Mails
               PROVE  sent[m] <= 1 + crashes + stolen[m] + unheard[m]
    BY DEF SentOnce
  <2>1. QED
    BY MailNumbers DEF MailBudget
<1>2. QED
  BY <1>1, OutboxInvariant, PTL

\* An accepted mail was taken by the provider; a failed one was not, unless a
\* crash, a recovered row or a lost answer kept the server from knowing.
THEOREM MailStatusIsTrue == Spec => []StatusIsTrue
<1>1. OutboxInv => StatusIsTrue
  <2> SUFFICES ASSUME OutboxInv, NEW m \in Mails
               PROVE  /\ row[m].status = "accepted" => sent[m] > 0
                      /\ row[m].status = "failed" /\ crashes = 0 /\ stolen[m] = 0 /\ unheard[m] = 0
                            => sent[m] = 0
    BY DEF StatusIsTrue
  <2>1. row[m].status = "failed" => Slot(m) = 1
    BY DEF Slot
  <2>2. QED
    BY <2>1, MailNumbers DEF MailBudget
<1>2. QED
  BY <1>1, OutboxInvariant, PTL

\* The link in a mail's row outlives the row's final status only between the mark
\* and the scrub, and is lost before it only to a run the row was recovered from.
THEOREM MailSecretKept == Spec => []SecretOutlivesNothing
<1>1. OutboxInv => SecretOutlivesNothing
  BY MailNumbers DEF SecretOutlivesNothing, MailSecret, Scrubs
<1>2. QED
  BY <1>1, OutboxInvariant, PTL

\* An accepted or failed mail stays so, also when a slow run writes late.
THEOREM FinalMailStays == Spec => FinalForGood
<1>1. ASSUME OutboxInv, [Next]_vars, NEW m \in Mails, row[m].status \in Final
      PROVE  row'[m].status = row[m].status
  <2>0. TypeOK /\ row \in [Mails -> RowType] /\ run \in [Runs -> RunType]
    BY <1>1, TypeParts DEF OutboxInv
  <2>1. ASSUME NEW x \in Mails, Enqueue(x) PROVE row'[m].status = row[m].status
    BY <1>1, <2>0, <2>1 DEF Enqueue, Final
  <2>2. ASSUME NEW w \in Runs, StartRun(w) PROVE row'[m].status = row[m].status
    BY <1>1, <2>0, <2>2 DEF StartRun, Recovered, IsStuck, Final
  <2>3. ASSUME NEW w \in Runs, NEW x \in Mails, Claim(w, x) PROVE row'[m].status = row[m].status
    <3>1. CASE /\ row[x].status = "pending"
               /\ row' = [row EXCEPT ![x].status = "sending", ![x].lock = run[w].start]
               /\ run' = [run EXCEPT ![w].step = "claimed", ![w].at = {x}]
      BY <1>1, <2>0, <3>1, ClaimWrites DEF Final
    <3>2. QED
      BY <2>3, <3>1 DEF Claim
  <2>4. ASSUME NEW w \in Runs, NEW x \in Mails, MarkFailed(w, x)
        PROVE  row'[m].status = row[m].status
    <3>1. "failed" \in Statuses
      BY DEF Statuses
    <3>2. /\ \A n \in Mails \ {x} : row'[n] = row[n]
          /\ row'[x].status = IF row[x].status \in {"pending", "sending"} THEN "failed"
                              ELSE row[x].status
      BY <2>0, <2>4, <3>1, MarkWrites DEF MarkFailed
    <3>3. QED
      BY <1>1, <3>2 DEF Final
  <2>5. ASSUME NEW w \in Runs, NEW x \in Mails, Accept(w, x)
        PROVE  row'[m].status = row[m].status
    <3>1. row' = [row EXCEPT ![x] = IF row[x].status = "sending"
                                    THEN [row[x] EXCEPT !.status = "accepted", !.lock = 0]
                                    ELSE row[x]]
      BY <2>5 DEF Accept
    <3>2. CASE x = m
      <4>1. row'[m] = row[m]
        BY <1>1, <2>0, <3>1, <3>2 DEF Final
      <4>2. QED
        BY <4>1
    <3>3. CASE x # m
      <4>1. row'[m] = row[m]
        BY <2>0, <3>1, <3>3
      <4>2. QED
        BY <4>1
    <3>4. QED
      BY <3>2, <3>3
  <2>6. ASSUME NEW w \in Runs, NEW x \in Mails, Retry(w, x) PROVE row'[m].status = row[m].status
    <3>1. run[w].start + RetryDelay \in 0..MaxTime + RetryDelay
      <4>1. run[w].start \in 0..MaxTime
        BY <2>0 DEF RunType
      <4>2. QED
        BY <4>1, Bounds
    <3>2. /\ \A n \in Mails \ {x} : row'[n] = row[n]
          /\ row'[x].status = IF row[x].status \in {"pending", "sending"} THEN "pending"
                              ELSE row[x].status
      BY <2>0, <2>6, <3>1, RetryWrites DEF Retry
    <3>3. QED
      BY <1>1, <3>2 DEF Final
  <2>7. ASSUME NEW w \in Runs, NEW x \in Mails, Scrub(w, x) PROVE row'[m].status = row[m].status
    BY <2>0, <2>7, ScrubWrites DEF Scrub
  <2>8. ASSUME NEW w \in Runs, NEW x \in Mails, Send(w, x) \/ Take(w, x) \/ Again(w, x)
        PROVE  row'[m].status = row[m].status
    BY <2>8 DEF Send, Take, Again
  <2>9. Tick \/ Crash \/ UNCHANGED vars => row'[m].status = row[m].status
    BY DEF Tick, Crash, vars
  <2>10. QED
    BY <1>1, <2>1, <2>2, <2>3, <2>4, <2>5, <2>6, <2>7, <2>8, <2>9
       DEF Next, Step, GiveUp, Fail
<1>2. OutboxInv /\ [Next]_vars
        => [\A m \in Mails : row[m].status \in Final => row'[m].status = row[m].status]_vars
  BY <1>1
<1>3. QED
  BY <1>2, OutboxInvariant, PTL DEF Spec, FinalForGood
=============================================================================
