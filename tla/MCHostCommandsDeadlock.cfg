SPECIFICATION Spec
CONSTANTS
    Conns = {a, b}
    edit = edit
    submit = submit
    switch = switch
    Commands = {edit, submit, switch}
    Scopes = {"session", "global"}
    NoScope = "none"
    ScopeOf <- MCScopeOf
    Global = {switch}
    Switches = {switch}
    Core = {submit}
    Sensitive = {}
    QueueCapacity = 2
    LaneObjects = {1, 2, 3, 4}
    WritersFirst = FALSE
    Maintenance = FALSE
    SendLimit <- MCSendTwiceEdit
PROPERTIES
    AcceptedRunsToCompletion
CHECK_DEADLOCK FALSE
