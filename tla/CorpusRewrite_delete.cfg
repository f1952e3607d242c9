SPECIFICATION FairSpec
CONSTANTS
    Readers = {r1}
    Rewriter = Rewriter
    NoOne = NoOne
    NoMemory = NoMemory
    Torn = Torn
    p1 = p1
    p2 = p2
    f1 = f1
    e1 = e1
    e2 = e2
    o1 = o1
    Passage <- MCPassage
    Fact <- MCFact
    Entity <- MCEntity
    Schema <- MCSchema
    FactsOf <- MCNoFacts
    SurfacesOf <- MCNoFacts
    EndsOf <- MCEndsOf
    SchemasOf <- MCSchemasOf
    Kinds = {"insert", "delete", "clear"}
    Modes = {"ppr", "direct"}
    Faults = {"rebuild", "embedding"}
INVARIANTS DeletedIsGone
PROPERTIES QueriesAnswered
