SPECIFICATION FairSpec
CONSTANTS
    Slots = {s1, s2}
    NoDoc = NoDoc
    NoBody = NoBody
    d1 = d1
    d2 = d2
    b1 = b1
    b2 = b2
    b3 = b3
    c1 = c1
    c2 = c2
    c3 = c3
    Docs <- MCDocs
    Bodies <- MCBodies
    Chunks <- MCChunks
    ChunksOf <- MCChunksOf
    MayHold <- MCHashedOnly
    Kinds = {"upload", "text", "scan", "requeue"}
    Faults = {"parse", "openie", "install"}
    Crashes = FALSE
INVARIANTS PendingHasDrain
PROPERTIES PendingDrains
