----------------------------- MODULE EmailOutbox -----------------------------
(***************************************************************************)
(* The email outbox (EmailOutboxRepository) and its worker (outboxWorker): *)
(* a run starts every 30 seconds, whether or not earlier runs are done,    *)
(* first returns rows stuck in `sending` to `pending`, takes a batch of    *)
(* due rows, and claims, sends and marks them one by one.  Every time a    *)
(* run writes (lock, next attempt) is the time the run STARTED.  A crash   *)
(* of the server ends all runs.                                            *)
(*                                                                         *)
(* A run yields only while it waits for the provider; in between (find,    *)
(* claim, mark, scrub) only a crash can come.  A tick of the clock is the  *)
(* unit of the times below.                                                *)
(***************************************************************************)
EXTENDS Naturals, FiniteSets

CONSTANTS
    Mails,        \* idempotency keys
    Runs,         \* bound: runs of the worker alive at once
    BatchSize,    \* EMAIL_OUTBOX_BATCH_SIZE
    RoundSize,    \* EMAIL_OUTBOX_ATTEMPTS_PER_ROUND
    RetryDelay,   \* EMAIL_OUTBOX_RETRY_DELAY_MS, in ticks
    StuckAfter,   \* EMAIL_OUTBOX_STUCK_AFTER_MS, in ticks
    Life,         \* giveUpAt - now at enqueue, in ticks
    MaxSendTime,  \* the longest round of one mail: the transport's timeouts
    MaxTime,      \* bound: the clock
    MaxCrashes,   \* bound: stops of the server
    MaxUnheard    \* bound: no answer is lost after so many of one mail

ASSUME EmailAssumption ==
    /\ IsFiniteSet(Mails) /\ IsFiniteSet(Runs)
    /\ {BatchSize, RoundSize, RetryDelay, StuckAfter, Life} \subseteq Nat \ {0}
    /\ {MaxSendTime, MaxTime, MaxCrashes, MaxUnheard} \subseteq Nat

VARIABLES
    row,      \* [Mails -> the email_outbox row]
    run,      \* [Runs -> a run of runOutboxOnce]
    now,      \* the clock
    sent,     \* history: [Mails -> Nat], sends the provider took
    stolen,   \* history: [Mails -> Nat], rows recovered from a run still alive
    unheard,  \* history: [Mails -> Nat], sends the provider took without us hearing
    cut,      \* history: rows whose scrub a crash prevented
    crashes

vars == <<row, run, now, sent, stolen, unheard, cut, crashes>>

Statuses == {"none", "pending", "sending", "accepted", "failed"}
Final    == {"accepted", "failed"}
Steps    == {"idle", "next", "claimed", "send", "took", "scrub"}

NoRow == [status |-> "none", next |-> 0, giveUp |-> 0, lock |-> 0, secret |-> FALSE]
NoRun == [step |-> "idle", start |-> 0, due |-> {}, bare |-> {}, at |-> {},
          attempt |-> 0, since |-> 0]

Init ==
    /\ row = [m \in Mails |-> NoRow]
    /\ run = [w \in Runs |-> NoRun]
    /\ now = 0
    /\ sent = [m \in Mails |-> 0]
    /\ stolen = [m \in Mails |-> 0]
    /\ unheard = [m \in Mails |-> 0]
    /\ cut = {}
    /\ crashes = 0

\* every run waits for the provider or is over
Yielded == \A w \in Runs : run[w].step \in {"idle", "send", "took"}

-----------------------------------------------------------------------------

\* enqueue: a second request with the same key inserts nothing
Enqueue(m) ==
    /\ Yielded
    /\ row[m].status = "none"
    /\ now + Life + StuckAfter < MaxTime
    /\ row' = [row EXCEPT ![m] = [status |-> "pending", next |-> now,
                                  giveUp |-> now + Life, lock |-> 0, secret |-> TRUE]]
    /\ UNCHANGED <<run, now, sent, stolen, unheard, cut, crashes>>

\* recoverStuck: locked_at < now - olderThanMs
IsStuck(m, t) == row[m].status = "sending" /\ row[m].lock + StuckAfter < t

\* the row as recoverStuck leaves it
Recovered(m, t) == IF IsStuck(m, t) THEN [row[m] EXCEPT !.status = "pending", !.lock = 0]
                   ELSE row[m]

\* Variant: rows past give_up_at are not found any more
IsDueAlive(r) == r.status = "pending" /\ r.next <= now /\ now < r.giveUp

IsDue(r) == r.status = "pending" /\ r.next <= now

\* findDue: the oldest due rows, at most BatchSize
IsBatch(S, rows) ==
    LET due == {m \in Mails : IsDue(rows[m])}
    IN  /\ S \subseteq due
        /\ Cardinality(S) <= BatchSize
        /\ S # due => Cardinality(S) = BatchSize
        /\ \A m \in S, n \in due \ S : rows[m].next <= rows[n].next

Claimed(m) == \E w \in Runs : run[w].step \in {"claimed", "send", "took"} /\ m \in run[w].at

\* recoverStuck and findDue; a run that finds nothing to do changes nothing
StartRun(w) ==
    LET rows == [m \in Mails |-> Recovered(m, now)]
    IN  /\ Yielded
        /\ run[w].step = "idle"
        /\ \E S \in SUBSET Mails :
            /\ S # {}
            /\ IsBatch(S, rows)
            /\ run' = [run EXCEPT ![w] =
                        [step |-> "next", start |-> now, due |-> S, at |-> {},
                         bare |-> {m \in S : ~rows[m].secret}, attempt |-> 0, since |-> 0]]
        /\ row' = rows
        /\ stolen' = [m \in Mails |-> IF IsStuck(m, now) /\ Claimed(m)
                                      THEN stolen[m] + 1 ELSE stolen[m]]
        /\ UNCHANGED <<now, sent, unheard, cut, crashes>>

\* the loop goes on to the next row, or the run ends
Finish(w, m) ==
    run' = [run EXCEPT ![w] = IF @.due = {m} THEN NoRun
                              ELSE [step |-> "next", start |-> @.start, due |-> @.due \ {m},
                                    bare |-> @.bare \ {m}, at |-> {}, attempt |-> 0, since |-> 0]]

\* Variant: the claim does not look at the status
ClaimAny(w, m) ==
    /\ run[w].step = "next"
    /\ m \in run[w].due
    /\ row' = [row EXCEPT ![m].status = "sending", ![m].lock = run[w].start]
    /\ run' = [run EXCEPT ![w].step = "claimed", ![w].at = {m}]
    /\ UNCHANGED <<now, sent, stolen, unheard, cut, crashes>>

\* claim: pending -> sending, a conditional UPDATE; the row is skipped when
\* another run has it
Claim(w, m) ==
    /\ run[w].step = "next"
    /\ m \in run[w].due
    /\ \/ /\ row[m].status = "pending"
          /\ row' = [row EXCEPT ![m].status = "sending", ![m].lock = run[w].start]
          /\ run' = [run EXCEPT ![w].step = "claimed", ![w].at = {m}]
       \/ /\ row[m].status # "pending"
          /\ Finish(w, m)
          /\ UNCHANGED row
    /\ UNCHANGED <<now, sent, stolen, unheard, cut, crashes>>

\* markFailed, WHERE status IN ('pending', 'sending'); then scrubSecrets
MarkFailed(w, m) ==
    /\ row' = [row EXCEPT ![m] = IF @.status \in {"pending", "sending"}
                                 THEN [@ EXCEPT !.status = "failed", !.lock = 0] ELSE @]
    /\ run' = [run EXCEPT ![w].step = "scrub"]

\* the row is past give_up_at, or cannot be rendered: failed without a send
GiveUp(w, m) ==
    /\ run[w].step = "claimed"
    /\ m \in run[w].at
    /\ run[w].start >= row[m].giveUp \/ m \in run[w].bare
    /\ MarkFailed(w, m)
    /\ UNCHANGED <<now, sent, stolen, unheard, cut, crashes>>

\* the first attempt of a round is on its way to the provider
Send(w, m) ==
    /\ run[w].step = "claimed"
    /\ m \in run[w].at
    /\ run[w].start < row[m].giveUp
    /\ m \notin run[w].bare
    /\ run' = [run EXCEPT ![w].step = "send", ![w].attempt = 1, ![w].since = now]
    /\ UNCHANGED <<row, now, sent, stolen, unheard, cut, crashes>>

\* transport.send: the provider took the mail; the answer is on its way back.
\* A mail it takes after the client stopped waiting counts as taken before that.
Take(w, m) ==
    /\ Yielded
    /\ run[w].step = "send"
    /\ m \in run[w].at
    /\ sent' = [sent EXCEPT ![m] = @ + 1]
    /\ run' = [run EXCEPT ![w].step = "took"]
    /\ UNCHANGED <<row, now, stolen, unheard, cut, crashes>>

\* markAccepted, WHERE status = 'sending'; its result is not looked at
Accept(w, m) ==
    /\ Yielded
    /\ run[w].step = "took"
    /\ m \in run[w].at
    /\ row' = [row EXCEPT ![m] = IF @.status = "sending"
                                 THEN [@ EXCEPT !.status = "accepted", !.lock = 0] ELSE @]
    /\ run' = [run EXCEPT ![w].step = "scrub"]
    /\ UNCHANGED <<now, sent, stolen, unheard, cut, crashes>>

\* transport.send throws: the provider refused or was not reached, or it took
\* the mail and its answer did not come through (timeout, dropped connection)
SendThrows(w, m) ==
    /\ Yielded
    /\ run[w].step \in {"send", "took"}
    /\ m \in run[w].at
    /\ run[w].step = "took" => \A n \in Mails : unheard[n] < MaxUnheard
    /\ unheard' = [unheard EXCEPT ![m] = IF run[w].step = "took" THEN @ + 1 ELSE @]

\* a transient error with attempts of the round left
Again(w, m) ==
    /\ SendThrows(w, m)
    /\ run[w].attempt < RoundSize
    /\ run' = [run EXCEPT ![w].step = "send", ![w].attempt = @ + 1]
    /\ UNCHANGED <<row, now, sent, stolen, cut, crashes>>

\* handleSendFailure: is the round's failure the last one
Exhausted(w, m) == run[w].start + RetryDelay >= row[m].giveUp

\* a permanent error (the provider's reply: it has not taken the mail), or the
\* last transient one before giving up
Fail(w, m) ==
    /\ SendThrows(w, m)
    /\ run[w].step = "took" => run[w].attempt = RoundSize /\ Exhausted(w, m)
    /\ MarkFailed(w, m)
    /\ UNCHANGED <<now, sent, stolen, cut, crashes>>

\* Variant: a retry is written whatever the row's status
MarkRetryAny(m, t) ==
    row' = [row EXCEPT ![m].status = "pending", ![m].next = t, ![m].lock = 0]

\* markRetry, WHERE status IN ('pending', 'sending')
MarkRetry(m, t) ==
    row' = [row EXCEPT ![m] = IF @.status \in {"pending", "sending"}
                              THEN [@ EXCEPT !.status = "pending", !.next = t, !.lock = 0]
                              ELSE @]

Retry(w, m) ==
    /\ SendThrows(w, m)
    /\ run[w].attempt = RoundSize
    /\ ~Exhausted(w, m)
    /\ MarkRetry(m, run[w].start + RetryDelay)
    /\ Finish(w, m)
    /\ UNCHANGED <<now, sent, stolen, cut, crashes>>

\* Variant: the link is left in data_json
ScrubNothing(w, m) ==
    /\ run[w].step = "scrub"
    /\ m \in run[w].at
    /\ Finish(w, m)
    /\ UNCHANGED <<row, now, sent, stolen, unheard, cut, crashes>>

\* scrubSecrets, whatever the mark before it did
Scrub(w, m) ==
    /\ run[w].step = "scrub"
    /\ m \in run[w].at
    /\ row' = [row EXCEPT ![m].secret = FALSE]
    /\ Finish(w, m)
    /\ UNCHANGED <<now, sent, stolen, unheard, cut, crashes>>

Tick ==
    /\ Yielded
    /\ now < MaxTime
    /\ \A w \in Runs : run[w].step # "idle" => now < run[w].since + MaxSendTime
    /\ now' = now + 1
    /\ UNCHANGED <<row, run, sent, stolen, unheard, cut, crashes>>

\* the server stops and starts again
Crash ==
    /\ crashes < MaxCrashes
    /\ now + StuckAfter < MaxTime
    /\ \E w \in Runs : run[w].step # "idle"
    /\ crashes' = crashes + 1
    /\ cut' = cut \cup UNION {run[w].at : w \in {v \in Runs : run[v].step = "scrub"}}
    /\ run' = [w \in Runs |-> NoRun]
    /\ UNCHANGED <<row, now, sent, stolen, unheard>>

-----------------------------------------------------------------------------

Step(w) == \E m \in Mails :
    \/ Claim(w, m) \/ GiveUp(w, m) \/ Send(w, m)
    \/ Take(w, m) \/ Accept(w, m) \/ Again(w, m) \/ Retry(w, m) \/ Fail(w, m)
    \/ Scrub(w, m)

Next ==
    \/ \E m \in Mails : Enqueue(m)
    \/ \E w \in Runs : StartRun(w) \/ Step(w)
    \/ Tick
    \/ Crash

Spec == Init /\ [][Next]_vars

\* the interval keeps firing, the transport's timeouts end every wait, and
\* time goes on
FairSpec ==
    /\ Spec
    /\ \A w \in Runs : WF_vars(StartRun(w)) /\ WF_vars(Step(w))
    /\ WF_vars(Tick)

-----------------------------------------------------------------------------
(* Properties.                                                             *)

\* Rows and runs hold what the code can put there; a round has its attempts.
TypeOK ==
    /\ row \in [Mails -> [status : Statuses, next : 0..MaxTime + RetryDelay,
                          giveUp : 0..MaxTime, lock : 0..MaxTime, secret : BOOLEAN]]
    /\ run \in [Runs -> [step : Steps, start : 0..MaxTime, due : SUBSET Mails,
                         bare : SUBSET Mails, at : SUBSET Mails, attempt : 0..RoundSize,
                         since : 0..MaxTime]]
    /\ now \in 0..MaxTime
    /\ sent \in [Mails -> Nat]
    /\ stolen \in [Mails -> Nat]
    /\ unheard \in [Mails -> Nat]
    /\ cut \subseteq Mails
    /\ crashes \in 0..MaxCrashes

\* The provider gets a mail once, and once more for every crash, for every
\* time a later run recovered the row from a run that was still sending it and
\* for every send whose answer was lost.
SentOnce == \A m \in Mails : sent[m] <= 1 + crashes + stolen[m] + unheard[m]

\* What the platform admin reads is what happened: an accepted mail was taken
\* by the provider, and a failed one was not, unless a crash, a recovered row
\* or a lost answer kept the server from knowing.
StatusIsTrue == \A m \in Mails :
    /\ row[m].status = "accepted" => sent[m] > 0
    /\ row[m].status = "failed" /\ crashes = 0 /\ stolen[m] = 0 /\ unheard[m] = 0
        => sent[m] = 0

\* The link is in the row as long as the row may be sent and gone once its
\* status is final: a final row keeps it only while its run is about to scrub
\* it or a crash came in between, and an open row has lost it only to a run it
\* was recovered from.
SecretOutlivesNothing == \A m \in Mails :
    /\ row[m].status \in Final /\ row[m].secret
        => m \in cut \/ \E w \in Runs : run[w].step = "scrub" /\ m \in run[w].at
    /\ row[m].status \in {"pending", "sending"} /\ ~row[m].secret => stolen[m] > 0

\* An accepted or failed mail stays so, also when a slow run writes late.
FinalForGood == [][\A m \in Mails :
    row[m].status \in Final => row'[m].status = row[m].status]_vars

\* Every mail is accepted or given up, through crashes, retries and overlap.
EveryMailEnds == \A m \in Mails : row[m].status = "pending" ~> row[m].status \in Final
=============================================================================
