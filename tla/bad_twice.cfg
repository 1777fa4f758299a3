SPECIFICATION Spec
CONSTANTS
    MaxElements = 1
    NoFile = NoFile
    b1 = b1
    b2 = b2
    Keys = {"vm", "dom-store", "u", "k", "l"}
    Tops = {"vm", "dom-store"}
    Names = {"u"}
    Uuids = {"u"}
    Values <- TwoValues
    Broken = {b1, b2}
    WritePaths <- FewPaths
    RmPaths <- FewRms
    Injections <- UsualInjections
INVARIANTS
    BadFilesAreKept
