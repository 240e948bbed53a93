SPECIFICATION FairSpec
CONSTANTS
    FinishedKept = 1
    MaxId = 2
    MaxDevices = 2
    MaxVersion = 2
    MaxBuilds = 2
    MaxCrashes = 1
    MaxRevokes = 1
INVARIANTS WorkKept IdsUsedOnce ModeHasWork WorkIsOwn
PROPERTIES StartsOnOwnVersion FinishingEnds
