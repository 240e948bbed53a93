SPECIFICATION FairSpec
CONSTANTS
    pc = pc
    e1 = e1
    e2 = e2
    e3 = e3
    PCs = {pc}
    Events = {e1, e2}
    Owner <- MCOwner
    DeviceNo <- MCDeviceNo
    Stamp <- MCStamp
    Recordable = {e1}
    MaxAttempts = 1
    BatchLimit = 1
    TrialEnds = {}
    MaxSeq = 2
    MaxRestarts = 1
    MaxFaults = 2
    MaxCrashes = 1
    MaxPowerCuts = 0
    MaxTroubles = 2
    MaxRenumbers = 1
INVARIANTS NoConflict GapIsCarried
PROPERTIES EventuallyKnown
CHECK_DEADLOCK FALSE
