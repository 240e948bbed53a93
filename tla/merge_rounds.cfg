SPECIFICATION FairMergeSpec
CONSTANTS
    a = a
    b = b
    a1 = a1
    a2 = a2
    b1 = b1
    PCs = {a, b}
    Events = {a1, a2, b1}
    Owner <- MCOwner
    DeviceNo <- MCDeviceNo
    Stamp <- MCStamp
    Recordable = {a1, a2, b1}
    MaxAttempts = 2
    TrialEnds = {2}
    MaxSeq = 2
    MaxRestarts = 1
INVARIANTS MergeTypeOK BookedOnce OwnOrder CursorSound
PROPERTIES SettledForGood CursorMonotone EventuallyMerged
