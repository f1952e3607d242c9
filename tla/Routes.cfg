SPECIFICATION MCSpec
CONSTANTS
    Parts = {"folder", "graph", "chat", "console", "login"}
    u1 = u1
    u2 = u2
    v = v
    w = w
    nil = nil
    Document   <- MCDocuments
    Uploader   <- MCUploads
    NoDocument <- nil
    MaxAtOnce = 2
    g1 = g1
    g2 = g2
    installer = installer
    reader = reader
    Node <- MCNode
    Edge <- MCEdge
    Installer = installer
    Reader = {reader}
    BatchRows = 1
    Foreign <- MCForeign
    MayShare = FALSE
    MaxOpens = 2
    MaxInstalls = 2
    n1 = n1
    n2 = n2
    n3 = n3
    n4 = n4
    e1 = e1
    e2 = e2
    r1 = r1
    r2 = r2
    r3 = r3
    none = none
    noresult = noresult
    GraphNode <- MCGraphNode
    EntityId <- MCEntityId
    Labelled <- MCLabelled
    RelEnds <- MCRelEnds
    Statements <- MCStatements
    Limits = {1, 2}
    ExpandLimit = 2
    MaxCalls = 2
    NoId <- none
    NoResult <- noresult
    c1 = c1
    c2 = c2
    Client <- MCClient
    MaxAttempts = 2
    Window = 5
    Second = 2
    SweepAbove = 1
    MaxTime = 9
    None = None
    HistoryTurns = 1
    MaxSends = 2
    MaxClicks = 2
    MaxTokens = 1
    MaxFaults = 1
INVARIANTS
    OwnSource
    BatchDelivers
    AllArrive
    ForeignKept
    StoredAtHome
    ViewIsThread
    HistoryIsThread
    EdgesJoinNodes
    AnswersAreWhole
    NoWindowOverrun
    ComingBackIsEnough
CHECK_DEADLOCK FALSE
