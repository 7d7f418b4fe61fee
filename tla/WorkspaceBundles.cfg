SPECIFICATION Spec
CONSTANTS
    x = x
    y = y
    Paths = {1, 2}
    Contents <- MCContents
    Length <- MCLength
    Callers = {c1, c2}
    InitialIndexes <- MCInitialIndexes
    Jobs = {j1, j2}
    GivenBundles <- MCGivenBundles
    MaxResourceCount = 3
    MaxSingleResourceBytes = 1
    MaxExpandedBytes = 2
    MaxCalls = 3
    MaxFaults = 1
    MaxCrashes = 1
INVARIANTS
    IndexNamesResources
    BundlesAreSound
    DestinationsAreWhole
    FailedJobsLeaveNothing
SYMMETRY Symmetric
CHECK_DEADLOCK FALSE
