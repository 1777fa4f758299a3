SPECIFICATION ToolsSpec
CONSTANTS
    d1 = d1
    d2 = d2
    c1 = c1
    Daemons = {d1, d2}
    Clients = {c1}
    Nobody = Nobody
    Keys = {"vm", "u", "k", "l", "m", "n", "o"}
    Tops = {"vm"}
    Names = {"u"}
    Uuids = {"u"}
    NoFile = NoFile
    Requests <- SomeRequests
    FromJson <- Json
    Arguments <- SomeArguments
    MaxCalls = 2
    MaxElements = 1
SYMMETRY DaemonSymmetry
INVARIANTS
    ReportedIsShown
    ToolsAgree
    InjectingAgainIsSafe
PROPERTIES
    AnswersAreCurrent
