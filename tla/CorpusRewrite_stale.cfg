SPECIFICATION Spec
CONSTANTS
    Readers = {r1, r2}
    Rewriter = Rewriter
    NoOne = NoOne
    NoMemory = NoMemory
    Torn = Torn
    p1 = p1
    p2 = p2
    f1 = f1
    e1 = e1
    e2 = e2
    o1 = o1
    Passage <- MCPassage
    Fact <- MCFact
    Entity <- MCEntity
    Schema <- MCSchema
    FactsOf <- MCFactsOf
    SurfacesOf <- MCSurfacesOf
    EndsOf <- MCEndsOf
    SchemasOf <- MCSchemasOf
    Kinds = {"insert"}
    Modes = {"ppr"}
    Faults = {}
INVARIANTS RewriteHidesState
