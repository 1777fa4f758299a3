SPECIFICATION DbdSpec
CONSTANTS
    d1 = d1
    d2 = d2
    c1 = c1
    c2 = c2
    Daemons = {d1, d2}
    Clients = {c1, c2}
    Nobody = Nobody
    Keys = {"vm", "u", "k"}
    Tops = {"vm"}
    Names = {"u"}
    Uuids = {"u"}
    NoFile = NoFile
    Requests <- FewRequests
    FromJson <- EmptyJson
    MaxCalls = 2
    MaxElements = 1
INVARIANTS
    OneServer
PROPERTIES
    ServesOneStore
    CallersReturn
