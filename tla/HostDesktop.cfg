SPECIFICATION Spec
CONSTANTS
    none = none
    manager = manager
    notes = notes
    probe = probe
    None = none
    NoWorkspace = none
    Plugins = {manager, notes, probe}
    Scope <- MCScope
    InstancePolicy <- MCInstancePolicy
    Surfaces <- MCSurfaces
    PluginSize <- MCPluginSize
    World = 26
    MinSize = 4
    MaxSize = 18
    DefaultSize = 11
    Margin = 1
    Workspaces = {w1, w2}
    Points <- MCPoints
    Viewports = {14}
    Deltas <- MCDeltas
    Zooms = {1, 4}
    MaxEvents = 5
    MaxExports = 1
    MaxFailures = 1
INVARIANTS
    OverlayMirrorsInstances
    HostSingletonsStay
    DanglingNeedsRace
PROPERTY WallsHold
SYMMETRY Symmetric
CHECK_DEADLOCK FALSE
