SPECIFICATION Spec
CONSTANTS
    pc = pc
    e1 = e1
    e2 = e2
    e3 = e3
    PCs = {pc}
    Events = {e1, e2}
    Owner <- MCOwner
    DeviceNo <- MCDeviceNo
    Stamp <- MCStamp
    Recordable = {e1, e2}
    MaxAttempts = 1
    BatchLimit = 2
    TrialEnds = {}
    MaxSeq = 3
    MaxRestarts = 0
    MaxFaults = 1
    MaxCrashes = 1
    MaxPowerCuts = 1
    MaxTroubles = 1
    MaxRenumbers = 1
INVARIANTS AckedIsStored StoredOnce
PROPERTIES MergeSpec
CHECK_DEADLOCK FALSE
SYMMETRY Symmetry
