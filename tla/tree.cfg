SPECIFICATION Spec
CONSTANTS
    MaxElements = 1
    NoFile = NoFile
    Keys = {"vm", "dom-store", "u", "k", "l"}
    Tops = {"vm", "dom-store"}
    Names = {"u"}
    Uuids = {"u"}
    Values <- OneValue
    b1 = b1
    Broken = {b1}
    WritePaths <- UsualWrites
    RmPaths <- UsualRms
    Injections <- UsualInjections
INVARIANTS
    TypeOK
    SavedIsShown
    HashIsTree
    RemovedIsGone
    BadFilesAreKept
PROPERTIES
    RequestsKeepToPath
    ImplementsTreeStore
