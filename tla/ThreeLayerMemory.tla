--------------------------- MODULE ThreeLayerMemory ---------------------------
(***************************************************************************)
(* The data structure of memory.py: three lists of nodes (schemas, facts,  *)
(* passages) that name each other by position, and three dictionaries from *)
(* a canonical key or a chunk id to a position.  Every operator takes a    *)
(* memory and returns the memory after one method of ThreeLayerMemory.     *)
(*                                                                         *)
(* Positions start at 1 here and at 0 in the code; NoSchema is its -1.     *)
(* The index lists of the nodes are sets: the code appends an index only   *)
(* when it is not there yet.  Embeddings and modality are left out.        *)
(***************************************************************************)
EXTENDS SequencesExt, Picks

CONSTANTS
    Label,  \* spellings of triples and of ontologies
    Canon   \* Canon[l]: the canonical key of a spelling (canonical_triple)

ASSUME CanonAssumption == DOMAIN Canon = Label

CanonKey      == {Canon[l] : l \in Label}
NoSchema == 0

Put(d, k, v) == [x \in DOMAIN d \cup {k} |-> IF x = k THEN v ELSE d[x]]
Pop(d, k)    == [x \in DOMAIN d \ {k} |-> d[x]]
NoEntries    == [k \in {} |-> 0]

(* The dictionary {canonical_triple(n.content): n.idx for n in layer}: of  *)
(* two nodes with one key the later one stays.                             *)
Keyed(layer) ==
    [k \in {Canon[layer[i].content] : i \in DOMAIN layer} |->
        LET same == {i \in DOMAIN layer : Canon[layer[i].content] = k}
        IN  layer[CHOOSE i \in same : \A j \in same : j <= i].idx]

EmptyMemory ==
    [schemas  |-> <<>>, facts |-> <<>>, passages |-> <<>>,
     schemaAt |-> NoEntries, factAt |-> NoEntries, chunkAt |-> NoEntries]

----------------------------------------------------------------------------
(* Creating nodes: the first spelling of a key is the one displayed.       *)

WithSchema(m, o) ==
    IF Canon[o] \in DOMAIN m.schemaAt THEN m
    ELSE LET n == Len(m.schemas) + 1
         IN  [m EXCEPT !.schemas = Append(@, [idx |-> n, content |-> o,
                                              frequency |-> 0, facts |-> {}]),
                       !.schemaAt = Put(@, Canon[o], n)]

WithFact(m, t) ==
    IF Canon[t] \in DOMAIN m.factAt THEN m
    ELSE LET n == Len(m.facts) + 1
         IN  [m EXCEPT !.facts = Append(@, [idx |-> n, content |-> t, frequency |-> 0,
                                            schema |-> NoSchema, passages |-> {}]),
                       !.factAt = Put(@, Canon[t], n)]

WithPassage(m, c) ==
    IF c \in DOMAIN m.chunkAt THEN m
    ELSE LET n == Len(m.passages) + 1
         IN  [m EXCEPT !.passages = Append(@, [idx |-> n, chunk |-> c, facts |-> {}]),
                       !.chunkAt = Put(@, c, n)]

(* One triple of a chunk: fact and passage name each other. *)
WithTriple(m, c, t) ==
    LET n == WithFact(m, t)
        p == n.chunkAt[c]
        f == n.factAt[Canon[t]]
    IN  [n EXCEPT !.facts[f].passages = @ \cup {p},
                  !.passages[p].facts = @ \cup {f}]

(* build_from_raw_openie_results.  A chunk without a usable triple still   *)
(* gets its passage.                                                       *)
Built(docs) ==
    LET AddDoc(m, d) == FoldLeft(LAMBDA n, t : WithTriple(n, d.chunk, t),
                                 WithPassage(m, d.chunk), d.triples)
        all == FoldLeft(AddDoc, EmptyMemory, docs)
    IN  [all EXCEPT !.facts = [f \in DOMAIN all.facts |->
            [all.facts[f] EXCEPT !.frequency = Cardinality(all.facts[f].passages)]]]

----------------------------------------------------------------------------
(* Schemas.                                                                *)

Counted(s) == [s EXCEPT !.frequency = Cardinality(s.facts)]

LinkFactToSchema(m, f, o) ==
    LET n   == WithSchema(m, o)
        s   == n.schemaAt[Canon[o]]
        was == n.facts[f].schema
    IN  [n EXCEPT
            !.facts[f].schema = s,
            !.schemas = [i \in DOMAIN n.schemas |->
                CASE i = s -> Counted([n.schemas[i] EXCEPT !.facts = @ \cup {f}])
                  [] i = was /\ i # s -> Counted([n.schemas[i] EXCEPT !.facts = @ \ {f}])
                  [] OTHER -> n.schemas[i]]]

RecomputeSchemaFrequencies(m) ==
    [m EXCEPT !.schemas = [i \in DOMAIN @ |-> Counted(@[i])]]

(* filter_schemas_by_frequency: survivors move up, and the lists of facts  *)
(* are rebuilt from the facts.                                             *)
FilterSchemas(m, min) ==
    LET kept == Taken(m.schemas, {i \in DOMAIN m.schemas : Cardinality(m.schemas[i].facts) >= min})
        Moved(i) == IF \E j \in DOMAIN kept : kept[j].idx = i
                    THEN CHOOSE j \in DOMAIN kept : kept[j].idx = i
                    ELSE NoSchema
        facts == [f \in DOMAIN m.facts |-> [m.facts[f] EXCEPT !.schema = Moved(@)]]
        FactsOf(j) == {facts[f].idx : f \in {g \in DOMAIN facts : facts[g].schema = j}}
        schemas == [j \in DOMAIN kept |->
                       Counted([kept[j] EXCEPT !.idx = j, !.facts = FactsOf(j)])]
    IN  IF min = 0 \/ m.schemas = <<>> THEN m
        ELSE [m EXCEPT !.schemas = schemas, !.facts = facts, !.schemaAt = Keyed(schemas)]

----------------------------------------------------------------------------
(* Facts.                                                                  *)

(* A mutant: the lists of the schemas and passages keep old positions.     *)
StaleFactIndices(m) ==
    LET facts == [f \in DOMAIN m.facts |->
                     [m.facts[f] EXCEPT !.idx = f,
                                        !.frequency = Cardinality(m.facts[f].passages)]]
    IN  [m EXCEPT !.facts = facts, !.factAt = Keyed(facts)]

(* _rebuild_fact_indices: facts take the number of their place, and every  *)
(* index to a fact follows it or goes with it.                             *)
RebuildFactIndices(m) ==
    LET Moved(I) == {f \in DOMAIN m.facts : m.facts[f].idx \in I}
        facts == [f \in DOMAIN m.facts |->
                     [m.facts[f] EXCEPT !.idx = f,
                                        !.frequency = Cardinality(m.facts[f].passages)]]
    IN  [m EXCEPT
            !.facts    = facts,
            !.factAt   = Keyed(facts),
            !.schemas  = [i \in DOMAIN m.schemas |->
                             Counted([m.schemas[i] EXCEPT !.facts = Moved(@)])],
            !.passages = [p \in DOMAIN m.passages |->
                             [m.passages[p] EXCEPT !.facts = Moved(@)]]]

RemoveFact(m, f) ==
    LET Detached(n) == [n EXCEPT !.facts = @ \ {m.facts[f].idx}]
    IN  RebuildFactIndices(
            [m EXCEPT
                !.schemas  = [i \in DOMAIN m.schemas |->
                    IF i = m.facts[f].schema THEN Counted(Detached(m.schemas[i]))
                    ELSE m.schemas[i]],
                !.passages = [p \in DOMAIN m.passages |->
                    IF p \in m.facts[f].passages THEN Detached(m.passages[p])
                    ELSE m.passages[p]],
                !.facts    = [g \in 1 .. Len(m.facts) - 1 |->
                    IF g < f THEN m.facts[g] ELSE m.facts[g + 1]]])

(* A mutant: the passages of a merged fact go with it.                     *)
MergedWithoutEvidence(m, f, into) == RemoveFact(m, f)

(* replace_fact: the fact takes another content, or goes into the fact     *)
(* that has it already and leaves it its passages and, if need be, schema. *)
Merged(m, f, into) ==
    LET from  == m.facts[f]
        given == [m EXCEPT
                     !.facts[into].passages = @ \cup from.passages,
                     !.passages = [p \in DOMAIN m.passages |->
                         IF p \in from.passages
                         THEN [m.passages[p] EXCEPT !.facts = @ \cup {into}]
                         ELSE m.passages[p]]]
        rest  == RemoveFact(given, f)
        heir  == rest.factAt[Canon[m.facts[into].content]]
    IN  IF from.schema # NoSchema /\ rest.facts[heir].schema = NoSchema
        THEN LinkFactToSchema(rest, heir, rest.schemas[from.schema].content)
        ELSE rest

Renamed(m, f, t) ==
    [m EXCEPT !.factAt = Put(Pop(@, Canon[m.facts[f].content]), Canon[t], f),
              !.facts[f].content = t]

ReplaceFact(m, f, t) ==
    CASE m.facts[f].content = t -> m
      [] m.facts[f].content # t /\ Canon[t] \in DOMAIN m.factAt /\ m.factAt[Canon[t]] # f ->
            Merged(m, f, m.factAt[Canon[t]])
      [] OTHER -> Renamed(m, f, t)

----------------------------------------------------------------------------
(* The snapshot: the lists are written, the dictionaries are read back     *)
(* from them.                                                              *)

ToDict(m) == [schemas |-> m.schemas, facts |-> m.facts, passages |-> m.passages]

FromDict(d) ==
    [schemas  |-> d.schemas, facts |-> d.facts, passages |-> d.passages,
     schemaAt |-> Keyed(d.schemas), factAt |-> Keyed(d.facts),
     chunkAt  |-> [c \in {d.passages[p].chunk : p \in DOMAIN d.passages} |->
                      CHOOSE p \in DOMAIN d.passages : d.passages[p].chunk = c]]

----------------------------------------------------------------------------
(* What every operation must leave: nodes know their place, the lists name *)
(* each other both ways, the counts are the lengths, and a key or a chunk  *)
(* id finds the one node that has it.                                      *)

PlacesRight(m) ==
    /\ \A i \in DOMAIN m.schemas : m.schemas[i].idx = i
    /\ \A f \in DOMAIN m.facts : m.facts[f].idx = f
    /\ \A p \in DOMAIN m.passages : m.passages[p].idx = p

LinksMutual(m) ==
    /\ \A i \in DOMAIN m.schemas :
           m.schemas[i].facts = {f \in DOMAIN m.facts : m.facts[f].schema = i}
    /\ \A f \in DOMAIN m.facts :
           /\ m.facts[f].schema \in DOMAIN m.schemas \cup {NoSchema}
           /\ m.facts[f].passages = {p \in DOMAIN m.passages : f \in m.passages[p].facts}
    /\ \A p \in DOMAIN m.passages : m.passages[p].facts \subseteq DOMAIN m.facts

CountsRight(m) ==
    /\ \A i \in DOMAIN m.schemas : m.schemas[i].frequency = Cardinality(m.schemas[i].facts)
    /\ \A f \in DOMAIN m.facts : m.facts[f].frequency = Cardinality(m.facts[f].passages)

KeysFound(m) ==
    /\ m.schemaAt = Keyed(m.schemas) /\ m.factAt = Keyed(m.facts)
    /\ Cardinality(DOMAIN m.schemaAt) = Len(m.schemas)
    /\ Cardinality(DOMAIN m.factAt) = Len(m.facts)
    /\ DOMAIN m.chunkAt = {m.passages[p].chunk : p \in DOMAIN m.passages}
    /\ \A p \in DOMAIN m.passages : m.chunkAt[m.passages[p].chunk] = p

Consistent(m) == PlacesRight(m) /\ LinksMutual(m) /\ CountsRight(m) /\ KeysFound(m)
===============================================================================
