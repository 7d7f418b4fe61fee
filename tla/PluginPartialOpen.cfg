SPECIFICATION Spec
CONSTANTS
    mapA = mapA
    mapB = mapB
    loose = loose
    type = type
    text = text
    textOld = textOld
    chart = chart
    intent = intent
    intentNew = intentNew
    scene = scene
    None = None
    Elements = {text, textOld, chart}
    NodeTypes = {intent, intentNew, scene}
    NodeMaps = {mapA, mapB}
    PackageId <- Ids
    Dependencies <- Refs
    Registers <- Provides
    Imports = {mapA, mapB}
    ElementPlugins <- Closures
    NodeTypePlugins <- Types
    Tag <- OwnTags
    ThrowingCleanup = {}
    MaxClicks = 0
INVARIANT
    NoPartialWorkspace
CHECK_DEADLOCK FALSE
