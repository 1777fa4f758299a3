SPECIFICATION Spec
CONSTANTS
    MaxElements = 1
    NoFile = NoFile
    Keys = {"vm", "dom-store", "u", "k", "l"}
    Tops = {"vm", "dom-store"}
    Names = {"u"}
    Uuids = {"u"}
    Values <- TwoValues
    Broken = {}
    WritePaths <- UsualWrites
    RmPaths <- TopRms
    Injections <- UsualInjections
INVARIANTS
    RemovedIsGone
