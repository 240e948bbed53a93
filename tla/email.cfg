SPECIFICATION FairSpec
CONSTANTS
    m1 = m1
    m2 = m2
    r1 = r1
    r2 = r2
    Mails = {m1, m2}
    Runs = {r1, r2}
    BatchSize = 2
    RoundSize = 2
    RetryDelay = 1
    StuckAfter = 1
    Life = 3
    MaxSendTime = 1
    MaxTime = 5
    MaxCrashes = 1
    MaxUnheard = 1
INVARIANTS SentOnce StatusIsTrue SecretOutlivesNothing
PROPERTIES FinalForGood EveryMailEnds
CHECK_DEADLOCK FALSE
