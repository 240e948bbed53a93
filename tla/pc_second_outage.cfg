SPECIFICATION FairSpec
CONSTANTS
    FinishedKept = 2
    MaxId = 1
    MaxDevices = 1
    MaxVersion = 1
    MaxBuilds = 2
    MaxCrashes = 0
    MaxRevokes = 0
PROPERTY PeriodSettles
