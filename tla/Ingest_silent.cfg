\* The shutdown alone; the constants of Ingest.cfg.
SPECIFICATION MCSpec
CONSTANTS
    Parts = {"shutdown"}
    pdf = pdf
    sheet = sheet
    plan = plan
    NoSuffix = NoSuffix
    picture = picture
    report = report
    photo = photo
    Nothing = Nothing
    Docs <- MCDocs
    Suffix <- MCSuffix
    HasPdfBytes <- MCHasPdfBytes
    Hint <- MCHint
    Stem <- MCStem
    Holds <- MCHolds
    Reads <- MCReads
    Rules <- MCRules
    MaxPolls = 3
    MaxDeaths = 2
    MaxRequeues = 1
    ChunkSize = 3
    Overlap = 1
    CheckpointSize = 2
    MaxConcurrency = 2
    Attempts = 2
    MaxKills = 2
    BatchItems = 3
    BatchTokens = 8
    TokenBudget = 3
    LeastBudget = 1
    EmbedAttempts = 2
    Providers <- MCProviders
    Documents <- MCDocuments
    Label <- MCLabel
    Canon <- MCCanon
    ChunkOrder <- MCChunks
    TriplesOf <- MCTriplesOf
    Ontology <- MCOntology
    MinFrequency = 2
    MaxDeactivation = 50
    BatchSize = 2
    MaxPairs = 2
    MaxItems = 2
    Actions = {"modified", "discarded"}
    HasModel = TRUE
    a = a
    b = b
    k1 = k1
    k2 = k2
    v = v
    w = w
    nil = nil
    free = free
    nofile = nofile
    corrupt = corrupt
    Caller  <- MCCaller
    Key     <- MCKey
    Value   <- MCValue
    NoValue <- nil
    Free    <- free
    NoFile  <- nofile
    Corrupt <- corrupt
    MaxNest = 2
    main = main
    vec = vec
    status = status
    small = small
    large = large
    nodim = nodim
    Main = main
    Worker = {a, b}
    Stores <- MCStores
    Vectors = {vec}
    Row = {k1, k2}
    Dims = {small, large}
    NoDim = nodim
    Nobody = free
    MaxConn = 2
    MaxBatches = 2
    MaxInits = 2
PROPERTY ShutdownEnds
CHECK_DEADLOCK FALSE
