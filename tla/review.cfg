SPECIFICATION FairSpec
CONSTANTS
    p = p
    c = c
    g = g
    Events = {p, c, g}
    Deps <- MCDeps
    Rank <- MCRank
    Checkpoints = {p}
    Parts = {g}
    Matchable = {p, c}
    MaxAttempts = 2
    MaxOpen = 2
    MaxCrashes = 1
INVARIANTS HeldHasItem FinalIsClosed NoneForgotten
PROPERTIES FinalForGood Implements ReleaseEnds
CHECK_DEADLOCK FALSE
