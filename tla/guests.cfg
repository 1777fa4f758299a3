SPECIFICATION DbSpec
CONSTANTS
    g1 = g1
    g2 = g2
    u1 = u1
    u2 = u2
    a = a
    b = b
    Keys = {"dom-store", "", u1, u2, "k"}
    Tops = {"dom-store"}
    Names = {"", u1, u2}
    Uuids = {u1, u2}
    NoFile = NoFile
    Values <- GuestStrings
    Broken = {}
    MaxElements = 1
    Guests = {g1, g2}
    UuidOf <- GuestUuids
    ValuesOf <- GuestValues
    LookupSenderId = TRUE
    WritePaths <- ClientPaths
    ReadPaths <- ClientReads
    RmPaths <- ClientRms
    Injections <- ClientInjections
SYMMETRY GuestSymmetry
INVARIANTS
    AnswersAreOwn
PROPERTIES
    GuestsKeepToHome
    ServesTreeStore
