SPECIFICATION Spec
CONSTANTS
    Packages = {"loader", "editor", "mine", "element", "type", "map", "bad", "guest", "tool"}
    Facts <- PackageFacts
    Folders <- Places
    Shipped = "pip"
    MaxWord = 9
    Ask = Ask
    Unlimited = Unlimited
    Processes = {"cli", "desktop"}
    Desktop = {"desktop"}
    Threads = {"c1", "c2", "d1"}
    Process <- ThreadProcess
    Main <- MainThread
    ProfileIds = {"p"}
    Requests <- PageRequestSet
    Arguments <- CommandLines
    TrustedBefore = {"mine"}
    InstalledBefore <- Earlier
    Inodes = {1, 2, 3, 4, 5, 6, 7}
    Length <- ContentLength
    MaxRequests = 2
    MaxBoots = 2
    MaxFaults = 1
    MaxCrashes = 1
INVARIANTS
    TrustCommitsClosures
    RunsOnlyTrusted
    ProfilesResolve
    PolicySavesAreAtomic
\* The processes may have ended and every bound been reached.
CHECK_DEADLOCK FALSE
