SPECIFICATION DbdSpec
CONSTANTS
    d1 = d1
    d2 = d2
    c1 = c1
    c2 = c2
    Daemons = {d1}
    Clients = {c1}
    Nobody = Nobody
    Keys = {"vm", "u", "k"}
    Tops = {"vm"}
    Names = {"u"}
    Uuids = {"u"}
    NoFile = NoFile
    Requests <- OneRequest
    FromJson <- EmptyJson
    MaxCalls = 1
    MaxElements = 1
PROPERTIES
    SignalsQuit
