SPECIFICATION FairSpec
CONSTANTS
    mapA = mapA
    mapB = mapB
    loose = loose
    type = type
    text = text
    textOld = textOld
    chart = chart
    intent = intent
    intentNew = intentNew
    scene = scene
    None = None
    Elements = {text, textOld, chart}
    NodeTypes = {intent, intentNew, scene}
    NodeMaps = {mapA, mapB}
    PackageId <- Ids
    Dependencies <- Refs
    Registers <- Provides
    Imports = {mapA, mapB, loose, type}
    ElementPlugins <- LooseClosures
    NodeTypePlugins <- LooseTypes
    Tag <- OwnTags
    ThrowingCleanup = {intent}
    MaxClicks = 2
INVARIANTS
    CapabilitiesAreOwned
    ManagerShowsRegistry
    
    TrustFollowsActivation
PROPERTY
    ImportsSettle
\* Every import may have settled, and every click been made.
CHECK_DEADLOCK FALSE
