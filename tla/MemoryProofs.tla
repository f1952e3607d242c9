------------------------------ MODULE MemoryProofs ------------------------------
(***************************************************************************)
(* The memory keeps its layers, its evidence and its filter through every  *)
(* rebuild, whatever the corpus, the answers and the order they come in;   *)
(* and the write buffer keeps its promises for any graph, any readers and  *)
(* installs, and statements of any size.                                   *)
(***************************************************************************)
EXTENDS MemoryRebuild, GraphBuffer, SequenceFacts

----------------------------------------------------------------------------
(* A memory, and what its layers owe each other whoever last changed them. *)

(* A dictionary from keys to places.                                       *)
Dict(K) == UNION {[D -> Nat] : D \in SUBSET K}

(* The nodes of the three layers, and a memory of them.                    *)
SchemaNode  == [idx : Nat, content : Label, frequency : Nat, facts : SUBSET Nat]
FactNode    == [idx : Nat, content : Label, frequency : Nat, schema : Nat,
                passages : SUBSET Nat]
PassageNode == [idx : Nat, chunk : Chunk, facts : SUBSET Nat]

Memory == [schemas  : Seq(SchemaNode), facts : Seq(FactNode), passages : Seq(PassageNode),
           schemaAt : Dict(CanonKey), factAt : Dict(CanonKey), chunkAt : Dict(Chunk)]

(* A dictionary knows every node of its layer by its key, and no other.    *)
Finds(at, layer) ==
    /\ DOMAIN at = {Canon[layer[i].content] : i \in DOMAIN layer}
    /\ \A i \in DOMAIN layer : at[Canon[layer[i].content]] = i

(* The dictionary of the chunks knows every passage by its chunk.          *)
FindsChunks(m) ==
    /\ DOMAIN m.chunkAt = {m.passages[p].chunk : p \in DOMAIN m.passages}
    /\ \A p \in DOMAIN m.passages : m.chunkAt[m.passages[p].chunk] = p

(* The counts kept in the nodes are those of their links.                  *)
SchemasCounted(m) ==
    \A i \in DOMAIN m.schemas : m.schemas[i].frequency = Cardinality(m.schemas[i].facts)
FactsCounted(m) ==
    \A f \in DOMAIN m.facts : m.facts[f].frequency = Cardinality(m.facts[f].passages)

(* While the cached triples are read in, the facts are not counted yet.    *)
Woven(m) ==
    /\ m \in Memory
    /\ PlacesRight(m) /\ LinksMutual(m) /\ SchemasCounted(m)
    /\ Finds(m.schemaAt, m.schemas) /\ Finds(m.factAt, m.facts) /\ FindsChunks(m)

(* What a memory owes once it is built, and after every operation.         *)
Sound(m) == Woven(m) /\ FactsCounted(m)

----------------------------------------------------------------------------

(* Every spelling has a key.                                               *)
LEMMA CanonIsKey == ASSUME NEW l \in Label PROVE Canon[l] \in CanonKey
BY DEF CanonKey

(* The layers of a memory are lists of nodes.                              *)
LEMMA Parts ==
    ASSUME NEW m \in Memory
    PROVE  /\ m.schemas \in Seq(SchemaNode) /\ m.facts \in Seq(FactNode)
           /\ m.passages \in Seq(PassageNode)
           /\ Len(m.schemas) \in Nat /\ DOMAIN m.schemas = 1..Len(m.schemas)
           /\ Len(m.facts) \in Nat /\ DOMAIN m.facts = 1..Len(m.facts)
           /\ Len(m.passages) \in Nat /\ DOMAIN m.passages = 1..Len(m.passages)
           /\ \A i \in DOMAIN m.schemas : m.schemas[i] \in SchemaNode
           /\ \A f \in DOMAIN m.facts : m.facts[f] \in FactNode
           /\ \A p \in DOMAIN m.passages : m.passages[p] \in PassageNode
<1>1. m.schemas \in Seq(SchemaNode) /\ m.facts \in Seq(FactNode) /\ m.passages \in Seq(PassageNode)
  BY DEF Memory
<1> QED BY <1>1

(* Sets of places are finite, and their number is a natural.               *)
LEMMA PlacesFinite ==
    ASSUME NEW n \in Nat, NEW S, S \subseteq 1..n
    PROVE  IsFiniteSet(S) /\ Cardinality(S) \in Nat
<1>1. IsFiniteSet(1..n)
  BY FS_Interval
<1>2. IsFiniteSet(S)
  BY <1>1, FS_Subset
<1> QED BY <1>2, FS_CardinalityType

(* A function on keys that gives places is a dictionary.                   *)
LEMMA FoundTyped ==
    ASSUME NEW K, NEW at, NEW n \in Nat, NEW key, at = [x \in DOMAIN at |-> at[x]],
           DOMAIN at = {key[i] : i \in 1..n}, \A i \in 1..n : at[key[i]] = i /\ key[i] \in K
    PROVE  at \in Dict(K)
<1>1. DOMAIN at \in SUBSET K
  OBVIOUS
<1>2. at \in [DOMAIN at -> Nat]
  OBVIOUS
<1> QED BY <1>1, <1>2 DEF Dict

(* A dictionary is a function on its keys.                                 *)
LEMMA DictIs ==
    ASSUME NEW K, NEW at \in Dict(K)
    PROVE  /\ DOMAIN at \subseteq K /\ at \in [DOMAIN at -> Nat]
           /\ at = [x \in DOMAIN at |-> at[x]]
BY DEF Dict

(* A dictionary stays one when an entry is put in.                         *)
LEMMA PutIs ==
    ASSUME NEW K, NEW d \in Dict(K), NEW k \in K, NEW v \in Nat
    PROVE  Put(d, k, v) \in Dict(K)
<1>1. DOMAIN d \subseteq K /\ \A x \in DOMAIN d : d[x] \in Nat
  BY DictIs
<1> DEFINE e == [x \in DOMAIN d \cup {k} |-> IF x = k THEN v ELSE d[x]]
<1>2. e \in [DOMAIN d \cup {k} -> Nat] /\ DOMAIN d \cup {k} \in SUBSET K
  BY <1>1
<1>3. e \in Dict(K)
  BY <1>2 DEF Dict
<1> QED BY <1>3 DEF Put

(* The memory a build starts from owes nothing.                            *)
LEMMA EmptySound == Sound(EmptyMemory)
<1>1. NoEntries \in Dict(CanonKey) /\ NoEntries \in Dict(Chunk) /\ DOMAIN NoEntries = {}
  <2>1. NoEntries \in [{} -> Nat] /\ {} \in SUBSET CanonKey /\ {} \in SUBSET Chunk
    BY DEF NoEntries
  <2> QED BY <2>1 DEF Dict
<1>2. EmptyMemory \in Memory
  BY <1>1 DEF EmptyMemory, Memory
<1> QED BY <1>1, <1>2 DEF EmptyMemory, Sound, Woven, PlacesRight, LinksMutual, SchemasCounted,
             FactsCounted, Finds, FindsChunks

(* What the dictionaries find is all Consistent asks for.                  *)
LEMMA FindsIsKeyed ==
    ASSUME NEW at, NEW S, NEW layer \in Seq(S), at = [x \in DOMAIN at |-> at[x]],
           Finds(at, layer), \A i \in DOMAIN layer : layer[i].idx = i
    PROVE  at = Keyed(layer) /\ Cardinality(DOMAIN at) = Len(layer)
<1> DEFINE n == Len(layer)
           key(i) == Canon[layer[i].content]
<1>1. n \in Nat /\ DOMAIN layer = 1..n
  OBVIOUS
<1>2. DOMAIN at = {key(i) : i \in 1..n} /\ \A i \in 1..n : at[key(i)] = i
  BY <1>1 DEF Finds
<1>3. ASSUME NEW k \in DOMAIN at
      PROVE  LET same == {i \in DOMAIN layer : key(i) = k}
             IN  layer[CHOOSE i \in same : \A j \in same : j <= i].idx = at[k]
  <2>1. PICK i \in 1..n : k = key(i)
    BY <1>2
  <2> DEFINE same == {j \in DOMAIN layer : key(j) = k}
  <2>2. same = {i}
    BY <1>1, <1>2, <2>1
  <2>3. i <= i
    BY <1>1
  <2>4. (CHOOSE x \in same : \A j \in same : j <= x) = i
    <3> HIDE DEF same
    <3> QED BY <2>2, <2>3
  <2> QED BY <1>1, <1>2, <2>1, <2>4
<1>4. at = Keyed(layer)
  <2>1. Keyed(layer) = [k \in DOMAIN at |-> LET same == {i \in DOMAIN layer : key(i) = k}
             IN  layer[CHOOSE i \in same : \A j \in same : j <= i].idx]
    BY <1>1, <1>2 DEF Keyed
  <2> QED BY <1>3, <2>1
<1>5. Cardinality(DOMAIN at) = n
  <2> DEFINE b == [i \in 1..n |-> key(i)]
  <2>1. b \in Bijection(1..n, DOMAIN at)
    BY <1>2 DEF Bijection, Injection, Surjection, IsInjective
  <2>2. ExistsBijection(1..n, DOMAIN at)
    BY <2>1 DEF ExistsBijection
  <2> QED BY <1>1, <2>2, FS_CountingElements
<1> QED BY <1>4, <1>5

(* A sound memory is consistent, as the runs state it.                     *)
LEMMA SoundIsConsistent == ASSUME NEW m, Sound(m) PROVE Consistent(m)
<1> USE DEF Sound, Woven
<1>1. /\ m.schemaAt = Keyed(m.schemas) /\ Cardinality(DOMAIN m.schemaAt) = Len(m.schemas)
      /\ m.factAt = Keyed(m.facts) /\ Cardinality(DOMAIN m.factAt) = Len(m.facts)
  <2>1. /\ m.schemaAt \in Dict(CanonKey) /\ m.factAt \in Dict(CanonKey)
        /\ m.schemas \in Seq(SchemaNode) /\ m.facts \in Seq(FactNode)
    BY DEF Memory
  <2>2. /\ m.schemaAt = [x \in DOMAIN m.schemaAt |-> m.schemaAt[x]]
        /\ m.factAt = [x \in DOMAIN m.factAt |-> m.factAt[x]]
    BY <2>1, DictIs
  <2> QED BY <2>1, <2>2, FindsIsKeyed DEF PlacesRight
<1> QED BY <1>1 DEF Consistent, CountsRight, SchemasCounted, FactsCounted, KeysFound, FindsChunks

(* The snapshot gives back what was written.                               *)
LEMMA SnapshotIsWhole == ASSUME NEW m, Sound(m) PROVE FromDict(ToDict(m)) = m
<1> USE DEF Sound, Woven
<1>1. m.schemaAt = Keyed(m.schemas) /\ m.factAt = Keyed(m.facts)
  BY SoundIsConsistent DEF Consistent, KeysFound
<1>2. /\ m = [schemas |-> m.schemas, facts |-> m.facts, passages |-> m.passages,
              schemaAt |-> m.schemaAt, factAt |-> m.factAt, chunkAt |-> m.chunkAt]
      /\ m.chunkAt \in Dict(Chunk)
  BY DEF Memory
<1>3. m.chunkAt = [c \in {m.passages[p].chunk : p \in DOMAIN m.passages} |->
                      CHOOSE p \in DOMAIN m.passages : m.passages[p].chunk = c]
  <2>1. m.chunkAt = [c \in DOMAIN m.chunkAt |-> m.chunkAt[c]]
    BY <1>2, DictIs
  <2>2. ASSUME NEW c \in DOMAIN m.chunkAt
        PROVE  m.chunkAt[c] = CHOOSE p \in DOMAIN m.passages : m.passages[p].chunk = c
    BY DEF FindsChunks
  <2> QED BY <2>1, <2>2 DEF FindsChunks
<1> QED BY <1>1, <1>2, <1>3 DEF FromDict, ToDict

----------------------------------------------------------------------------
(* Creating nodes.                                                         *)

(* A list that got a last element.                                         *)
LEMMA AppendIs ==
    ASSUME NEW S, NEW s \in Seq(S), NEW x \in S
    PROVE  /\ Append(s, x) \in Seq(S) /\ Len(Append(s, x)) = Len(s) + 1
           /\ Append(s, x)[Len(s) + 1] = x
           /\ \A i \in 1..Len(s) : Append(s, x)[i] = s[i]
BY AppendProperties

(* A dictionary that gets the key of a node appended still finds all.      *)
LEMMA AppendFound ==
    ASSUME NEW S, NEW s \in Seq(S), NEW x \in S, NEW at \in Dict(CanonKey), Finds(at, s),
           NEW k \in CanonKey, k = Canon[x.content], k \notin DOMAIN at,
           NEW e, e = Put(at, k, Len(s) + 1), NEW t, t = Append(s, x)
    PROVE  /\ e \in Dict(CanonKey) /\ Finds(e, t)
           /\ DOMAIN e = DOMAIN at \cup {k} /\ e[k] = Len(s) + 1
           /\ \A y \in DOMAIN at : e[y] = at[y]
<1> DEFINE n == Len(s)
<1>1. n \in Nat /\ DOMAIN s = 1..n /\ DOMAIN t = 1..(n + 1) /\ t[n + 1] = x
      /\ (\A i \in 1..n : t[i] = s[i]) /\ 1..(n + 1) = (1..n) \cup {n + 1} /\ n + 1 \notin 1..n
  BY AppendIs
<1>2. /\ e \in Dict(CanonKey) /\ DOMAIN e = DOMAIN at \cup {k} /\ e[k] = n + 1
      /\ \A y \in DOMAIN at : e[y] = at[y]
  <2>1. n + 1 \in Nat
    BY <1>1
  <2>2. DOMAIN at \ {k} = DOMAIN at
    OBVIOUS
  <2>3. e \in Dict(CanonKey)
    BY <2>1, PutIs
  <2> HIDE DEF n
  <2>4. /\ DOMAIN e = DOMAIN at \cup {k} /\ e[k] = n + 1
        /\ \A y \in DOMAIN at \ {k} : e[y] = at[y]
    BY DEF Put, n
  <2> QED BY <2>2, <2>3, <2>4
<1>3. DOMAIN at = {Canon[s[i].content] : i \in 1..n} /\ \A i \in 1..n : at[Canon[s[i].content]] = i
  BY <1>1 DEF Finds
<1> HIDE DEF n
<1>4. DOMAIN e = {Canon[t[i].content] : i \in DOMAIN t}
  <2>1. {Canon[t[i].content] : i \in DOMAIN t} = {Canon[t[i].content] : i \in 1..n} \cup {k}
    BY <1>1
  <2>2. {Canon[t[i].content] : i \in 1..n} = {Canon[s[i].content] : i \in 1..n}
    BY <1>1
  <2> QED BY <1>2, <1>3, <2>1, <2>2
<1>5. \A i \in DOMAIN t : e[Canon[t[i].content]] = i
  BY <1>1, <1>2, <1>3
<1>6. Finds(e, t)
  BY <1>4, <1>5 DEF Finds
<1> QED BY <1>2, <1>6 DEF n

(* A schema is found or added, and nothing else changes (add_schema).      *)
LEMMA WithSchemaKeeps ==
    ASSUME NEW m, Woven(m), NEW o \in Label
    PROVE  LET r == WithSchema(m, o)
           IN  /\ Woven(r) /\ r.facts = m.facts /\ r.passages = m.passages
               /\ r.factAt = m.factAt /\ r.chunkAt = m.chunkAt
               /\ Len(m.schemas) <= Len(r.schemas)
               /\ \A i \in DOMAIN m.schemas : r.schemas[i] = m.schemas[i]
               /\ Canon[o] \in DOMAIN r.schemaAt /\ r.schemaAt[Canon[o]] \in DOMAIN r.schemas
<1> DEFINE n == Len(m.schemas) + 1
           x == [idx |-> n, content |-> o, frequency |-> 0, facts |-> {}]
           r == WithSchema(m, o)
<1>0. m \in Memory /\ Canon[o] \in CanonKey
  BY CanonIsKey DEF Woven
<1>1. /\ Len(m.schemas) \in Nat /\ m.schemas \in Seq(SchemaNode)
      /\ DOMAIN m.schemas = 1..Len(m.schemas) /\ n \in Nat
      /\ DOMAIN m.facts = 1..Len(m.facts)
  BY <1>0, Parts
<1>2. CASE Canon[o] \in DOMAIN m.schemaAt
  <2>1. r = m
    BY <1>2 DEF WithSchema
  <2>2. m.schemaAt[Canon[o]] \in DOMAIN m.schemas
    BY <1>2 DEF Woven, Finds
  <2> HIDE DEF r
  <2> QED BY <2>1, <2>2, <1>1, <1>2 DEF r
<1>3. CASE Canon[o] \notin DOMAIN m.schemaAt
  <2>1. x \in SchemaNode
    BY <1>1 DEF SchemaNode
  <2>2. m.schemaAt \in Dict(CanonKey) /\ Finds(m.schemaAt, m.schemas)
    BY <1>0 DEF Memory, Woven
  <2> DEFINE s == Append(m.schemas, x)
             e == Put(m.schemaAt, Canon[o], n)
  <2>3. /\ s \in Seq(SchemaNode) /\ DOMAIN s = 1..n /\ s[n] = x /\ Len(s) = n
        /\ \A i \in 1..Len(m.schemas) : s[i] = m.schemas[i]
    BY <1>1, <2>1, AppendIs
  <2>4. /\ e \in Dict(CanonKey) /\ Finds(e, s) /\ e[Canon[o]] = n /\ Canon[o] \in DOMAIN e
    <3>1. x.content = o
      OBVIOUS
    <3>4. s = Append(m.schemas, x)
      OBVIOUS
    <3> HIDE DEF x, e, r, s
    <3>2. e = Put(m.schemaAt, Canon[o], Len(m.schemas) + 1)
      BY DEF e
    <3>3. m.schemas \in Seq(SchemaNode) /\ n = Len(m.schemas) + 1
      BY <1>1
    <3> HIDE DEF n
    <3>5. Finds(e, s)
      BY <1>0, <1>3, <2>1, <2>2, <3>1, <3>2, <3>3, <3>4, AppendFound
    <3>6. e \in Dict(CanonKey)
      BY <1>0, <1>1, <2>2, <3>2, <3>3, PutIs
    <3>7. e[Canon[o]] = n /\ Canon[o] \in DOMAIN e
      BY <3>2, <3>3 DEF Put
    <3> QED BY <3>5, <3>6, <3>7
  <2>5. r = [m EXCEPT !.schemas = s, !.schemaAt = e]
    BY <1>3 DEF WithSchema
  <2>6. /\ r \in Memory /\ r.schemas = s /\ r.schemaAt = e /\ r.facts = m.facts
        /\ r.passages = m.passages /\ r.factAt = m.factAt /\ r.chunkAt = m.chunkAt
    <3> HIDE DEF r, s, e
    <3> QED BY <1>0, <2>3, <2>4, <2>5 DEF Memory
  <2>7. x.idx = n /\ x.facts = {} /\ x.frequency = 0
    OBVIOUS
  <2> HIDE DEF r, s, e, x
  <2>8. \A i \in 1..n : i = n \/ i \in 1..Len(m.schemas)
    BY <1>1
  <2>9. PlacesRight(r)
    BY <1>1, <2>3, <2>6, <2>7, <2>8, SMTT(40) DEF Woven, PlacesRight
  <2>10. LinksMutual(r)
    <3>1. \A f \in DOMAIN m.facts : m.facts[f].schema # n
      <4>1. n # NoSchema /\ n \notin 1..Len(m.schemas)
        BY <1>1 DEF NoSchema
      <4> QED BY <4>1, <1>1 DEF Woven, LinksMutual
    <3>2. ASSUME NEW i \in DOMAIN r.schemas
          PROVE  r.schemas[i].facts = {f \in DOMAIN r.facts : r.facts[f].schema = i}
      <4>1. CASE i = n
        BY <4>1, <3>1, <2>3, <2>6, <2>7
      <4>2. CASE i \in 1..Len(m.schemas)
        BY <4>2, <1>1, <2>3, <2>6 DEF Woven, LinksMutual
      <4> QED BY <4>1, <4>2, <2>3, <2>6, <2>8
    <3>3. \A f \in DOMAIN r.facts : r.facts[f].schema \in DOMAIN r.schemas \cup {NoSchema}
      <4>1. DOMAIN m.schemas \subseteq DOMAIN r.schemas
        BY <1>1, <2>3, <2>6
      <4> QED BY <4>1, <2>6 DEF Woven, LinksMutual
    <3> QED BY <3>2, <3>3, <2>6 DEF Woven, LinksMutual
  <2>11. SchemasCounted(r)
    <3>1. Cardinality({}) = 0
      BY FS_EmptySet
    <3> QED BY <3>1, <1>1, <2>3, <2>6, <2>7, <2>8 DEF Woven, SchemasCounted
  <2>12. Woven(r)
    BY <2>4, <2>6, <2>9, <2>10, <2>11 DEF Woven, FindsChunks
  <2> QED BY <2>12, <2>3, <2>4, <2>6, <1>1 DEF r
<1> QED BY <1>2, <1>3

----------------------------------------------------------------------------
(* Linking facts to schemas.                                               *)

(* Nothing but the schemas changed.                                        *)
OnlySchemas(m, r) ==
    /\ r.passages = m.passages /\ r.factAt = m.factAt /\ r.chunkAt = m.chunkAt
    /\ DOMAIN r.facts = DOMAIN m.facts
    /\ \A f \in DOMAIN m.facts :
           /\ r.facts[f].idx = m.facts[f].idx /\ r.facts[f].content = m.facts[f].content
           /\ r.facts[f].frequency = m.facts[f].frequency
           /\ r.facts[f].passages = m.facts[f].passages

(* The schemas of a memory, each with the facts that name it.              *)
SchemasRight(r) ==
    /\ \A i \in DOMAIN r.schemas :
           /\ r.schemas[i].idx = i
           /\ r.schemas[i].facts = {f \in DOMAIN r.facts : r.facts[f].schema = i}
           /\ r.schemas[i].frequency = Cardinality(r.schemas[i].facts)
    /\ \A f \in DOMAIN r.facts : r.facts[f].schema \in DOMAIN r.schemas \cup {NoSchema}
    /\ Finds(r.schemaAt, r.schemas)

(* A change of the schemas alone keeps the rest woven.                     *)
LEMMA SchemasRewoven ==
    ASSUME NEW m, Woven(m), NEW r \in Memory, OnlySchemas(m, r), SchemasRight(r)
    PROVE  Woven(r) /\ (FactsCounted(m) => FactsCounted(r))
<1>1. PlacesRight(r)
  BY DEF OnlySchemas, SchemasRight, Woven, PlacesRight
<1>2. LinksMutual(r)
  BY DEF OnlySchemas, SchemasRight, Woven, LinksMutual
<1>3. SchemasCounted(r)
  BY DEF SchemasRight, SchemasCounted
<1>4. Finds(r.factAt, r.facts)
  <2>1. {Canon[r.facts[i].content] : i \in DOMAIN r.facts}
            = {Canon[m.facts[i].content] : i \in DOMAIN m.facts}
    BY DEF OnlySchemas
  <2> QED BY <2>1 DEF OnlySchemas, Woven, Finds
<1>5. FindsChunks(r)
  BY DEF OnlySchemas, Woven, FindsChunks
<1>6. FactsCounted(m) => FactsCounted(r)
  BY DEF OnlySchemas, FactsCounted
<1> QED BY <1>1, <1>2, <1>3, <1>4, <1>5, <1>6 DEF Woven, SchemasRight

(* The schemas of a woven memory are right.                                *)
LEMMA SchemasAreRight == ASSUME NEW m, Woven(m) PROVE SchemasRight(m)
BY DEF SchemasRight, Woven, PlacesRight, LinksMutual, SchemasCounted

(* Two changes of the schemas are one.                                     *)
LEMMA OnlySchemasOnce ==
    ASSUME NEW m, NEW n, NEW r, OnlySchemas(m, n), OnlySchemas(n, r)
    PROVE  OnlySchemas(m, r)
BY DEF OnlySchemas

(* No change is one, too.                                                  *)
LEMMA OnlySchemasSame == ASSUME NEW m PROVE OnlySchemas(m, m)
BY DEF OnlySchemas

(* A list given place by place.                                            *)
LEMMA ListIs ==
    ASSUME NEW S, NEW n \in Nat, NEW q, q = [i \in 1..n |-> q[i]], \A i \in 1..n : q[i] \in S
    PROVE  q \in Seq(S) /\ Len(q) = n /\ DOMAIN q = 1..n
<1>1. q \in [1..n -> S]
  OBVIOUS
<1> QED BY <1>1

(* A fact moved to a schema leaves the one it had (link_fact_to_schema).   *)
LEMMA LinkFactToSchemaKeeps ==
    ASSUME NEW m, Woven(m), NEW f \in DOMAIN m.facts, NEW o \in Label,
           NEW r, r = LinkFactToSchema(m, f, o)
    PROVE  Woven(r) /\ OnlySchemas(m, r) /\ (FactsCounted(m) => FactsCounted(r))
<1> DEFINE n   == WithSchema(m, o)
           s   == n.schemaAt[Canon[o]]
           was == n.facts[f].schema
           F   == [n.facts EXCEPT ![f].schema = s]
           node(i) == CASE i = s -> Counted([n.schemas[i] EXCEPT !.facts = @ \cup {f}])
                        [] i = was /\ i # s -> Counted([n.schemas[i] EXCEPT !.facts = @ \ {f}])
                        [] OTHER -> n.schemas[i]
           L   == [i \in DOMAIN n.schemas |-> node(i)]
<1>1. /\ Woven(n) /\ n.facts = m.facts /\ n.passages = m.passages
      /\ n.factAt = m.factAt /\ n.chunkAt = m.chunkAt
      /\ s \in DOMAIN n.schemas
  BY WithSchemaKeeps
<1>2. n \in Memory /\ m \in Memory
  BY <1>1 DEF Woven
<1>3. /\ n.schemas \in Seq(SchemaNode) /\ n.facts \in Seq(FactNode)
      /\ DOMAIN n.schemas = 1..Len(n.schemas) /\ Len(n.schemas) \in Nat
      /\ DOMAIN n.facts = 1..Len(n.facts) /\ Len(n.facts) \in Nat
      /\ \A i \in DOMAIN n.schemas : n.schemas[i] \in SchemaNode
      /\ \A g \in DOMAIN n.facts : n.facts[g] \in FactNode
  BY <1>2, Parts
<1>4. r = [n EXCEPT !.facts = F, !.schemas = L]
  <2>1. r = [n EXCEPT !.facts[f].schema = s, !.schemas = L]
    BY Zenon DEF LinkFactToSchema
  <2> HIDE DEF n, s, was, L
  <2> QED BY <1>2, <2>1 DEF Memory
<1> HIDE DEF n, s, was
<1>5. /\ s \in Nat /\ f \in DOMAIN n.facts /\ s # NoSchema
  BY <1>1, <1>3 DEF NoSchema
<1>6. F \in Seq(FactNode) /\ DOMAIN F = DOMAIN n.facts
  <2>1. \A g \in DOMAIN n.facts : F[g] \in FactNode
    BY <1>3, <1>5 DEF FactNode
  <2>2. F = [g \in 1..Len(n.facts) |-> F[g]]
    BY <1>3
  <2> HIDE DEF F
  <2> QED BY <2>1, <2>2, <1>3, ListIs
<1>7. \A g \in DOMAIN n.facts : /\ F[g].schema = IF g = f THEN s ELSE n.facts[g].schema
                               /\ F[g].idx = n.facts[g].idx /\ F[g].content = n.facts[g].content
                               /\ F[g].frequency = n.facts[g].frequency
                               /\ F[g].passages = n.facts[g].passages
  BY <1>3 DEF FactNode
<1>8. \A i \in DOMAIN n.schemas :
         /\ n.schemas[i].facts = {g \in DOMAIN n.facts : n.facts[g].schema = i}
         /\ n.schemas[i].frequency = Cardinality(n.schemas[i].facts) /\ n.schemas[i].idx = i
  BY <1>1 DEF Woven, LinksMutual, SchemasCounted, PlacesRight
<1> HIDE DEF F
<1>9. ASSUME NEW i \in DOMAIN n.schemas
      PROVE  /\ L[i].idx = i /\ L[i].content = n.schemas[i].content
             /\ L[i].facts = {g \in DOMAIN n.facts : F[g].schema = i}
             /\ L[i].frequency = Cardinality(L[i].facts)
  <2>1. CASE i = s
    <3>1. L[i] = [n.schemas[i] EXCEPT !.facts = @ \cup {f},
                                      !.frequency = Cardinality(n.schemas[i].facts \cup {f})]
      BY <2>1, <1>3 DEF Counted, SchemaNode
    <3>2. n.schemas[i].facts \cup {f} = {g \in DOMAIN n.facts : F[g].schema = i}
      BY <2>1, <1>5, <1>7, <1>8
    <3> HIDE DEF L
    <3> QED BY <3>1, <3>2, <1>3, <1>8 DEF SchemaNode
  <2>2. CASE i = was /\ i # s
    <3>1. L[i] = [n.schemas[i] EXCEPT !.facts = @ \ {f},
                                      !.frequency = Cardinality(n.schemas[i].facts \ {f})]
      BY <2>2, <1>3 DEF Counted, SchemaNode
    <3>2. n.schemas[i].facts \ {f} = {g \in DOMAIN n.facts : F[g].schema = i}
      BY <2>2, <1>5, <1>7, <1>8
    <3> HIDE DEF L
    <3> QED BY <3>1, <3>2, <1>3, <1>8 DEF SchemaNode
  <2>3. CASE i # was /\ i # s
    <3>1. L[i] = n.schemas[i]
      BY <2>3
    <3>2. n.schemas[i].facts = {g \in DOMAIN n.facts : F[g].schema = i}
      BY <2>3, <1>5, <1>7, <1>8 DEF was
    <3> HIDE DEF L
    <3> QED BY <3>1, <3>2, <1>8
  <2> QED BY <2>1, <2>2, <2>3
<1>10. L \in Seq(SchemaNode) /\ DOMAIN L = DOMAIN n.schemas
  <2>1. ASSUME NEW i \in DOMAIN n.schemas PROVE L[i] \in SchemaNode
    <3>0. DOMAIN n.facts \subseteq Nat
      BY <1>3
    <3>1. L[i].facts \subseteq DOMAIN n.facts /\ Cardinality(L[i].facts) \in Nat
      BY <1>3, <1>9, PlacesFinite
    <3>2. L[i] = [idx |-> L[i].idx, content |-> L[i].content, frequency |-> L[i].frequency,
                  facts |-> L[i].facts]
      BY <1>3 DEF Counted, SchemaNode
    <3>3. i \in Nat /\ L[i].content \in Label
      <4>1. n.schemas[i].content \in Label
        BY <1>3 DEF SchemaNode
      <4>2. L[i].content = n.schemas[i].content
        BY <1>9
      <4> HIDE DEF L
      <4> QED BY <4>1, <4>2, <1>3
    <3>4. L[i].idx \in Nat /\ L[i].frequency \in Nat /\ L[i].facts \in SUBSET Nat
      BY <3>0, <3>1, <3>3, <1>9
    <3> HIDE DEF L
    <3> QED BY <3>2, <3>3, <3>4 DEF SchemaNode
  <2>2. L = [i \in 1..Len(n.schemas) |-> L[i]]
    BY <1>3
  <2> HIDE DEF L
  <2> QED BY <2>1, <2>2, <1>3, ListIs
<1> HIDE DEF L
<1>11. /\ r \in Memory /\ r.facts = F /\ r.schemas = L /\ r.schemaAt = n.schemaAt
       /\ r.passages = n.passages /\ r.factAt = n.factAt /\ r.chunkAt = n.chunkAt
  BY <1>2, <1>4, <1>6, <1>10 DEF Memory
<1>12. OnlySchemas(m, r)
  BY <1>1, <1>6, <1>7, <1>11 DEF OnlySchemas
<1>13. SchemasRight(r)
  <2>1. \A g \in DOMAIN n.facts : F[g].schema \in DOMAIN L \cup {NoSchema}
    BY <1>1, <1>7, <1>10 DEF Woven, LinksMutual
  <2>2. Finds(n.schemaAt, n.schemas)
    BY <1>1 DEF Woven
  <2>3. {Canon[L[i].content] : i \in DOMAIN L} =
            {Canon[n.schemas[i].content] : i \in DOMAIN n.schemas}
    BY <1>9, <1>10
  <2>4. Finds(r.schemaAt, r.schemas)
    BY <2>2, <2>3, <1>9, <1>10, <1>11 DEF Finds
  <2> QED BY <2>1, <2>4, <1>6, <1>9, <1>10, <1>11 DEF SchemasRight
<1> QED BY <1>11, <1>12, <1>13, SchemasRewoven

----------------------------------------------------------------------------
(* Dropping rare schemas.                                                  *)

(* The dictionary rebuilt from a layer without doubles finds every node.   *)
LEMMA KeyedFinds ==
    ASSUME NEW S, NEW layer \in Seq(S),
           \A i \in DOMAIN layer : layer[i].idx = i /\ layer[i].content \in Label,
           \A i, j \in DOMAIN layer : Canon[layer[i].content] = Canon[layer[j].content] => i = j
    PROVE  Keyed(layer) \in Dict(CanonKey) /\ Finds(Keyed(layer), layer)
<1> DEFINE n == Len(layer)
           key(i) == Canon[layer[i].content]
           at == Keyed(layer)
<1>1. n \in Nat /\ DOMAIN layer = 1..n
  OBVIOUS
<1>2. at = [k \in {key(i) : i \in 1..n} |->
               LET same == {i \in 1..n : key(i) = k}
               IN  layer[CHOOSE i \in same : \A j \in same : j <= i].idx]
  BY <1>1 DEF Keyed
<1>3. ASSUME NEW i \in 1..n PROVE at[key(i)] = i
  <2> DEFINE same == {j \in 1..n : key(j) = key(i)}
  <2>1. same = {i}
    BY <1>1
  <2>2. i <= i
    BY <1>1
  <2>3. (CHOOSE x \in same : \A j \in same : j <= x) = i
    <3> HIDE DEF same
    <3> QED BY <2>1, <2>2
  <2>4. at[key(i)] = layer[CHOOSE x \in same : \A j \in same : j <= x].idx
    <3> HIDE DEF at
    <3> QED BY <1>2
  <2> QED BY <1>1, <2>3, <2>4
<1>4. DOMAIN at = {key(i) : i \in 1..n} /\ at = [k \in DOMAIN at |-> at[k]]
  <2> HIDE DEF at
  <2> QED BY <1>2
<1>5. \A i \in 1..n : key(i) \in CanonKey
  BY <1>1, CanonIsKey
<1> HIDE DEF at
<1>6. at \in Dict(CanonKey)
  <2>1. DOMAIN at \in SUBSET CanonKey /\ \A k \in DOMAIN at : at[k] \in Nat
    BY <1>3, <1>4, <1>5
  <2>2. at \in [DOMAIN at -> Nat]
    BY <2>1, <1>4
  <2> QED BY <2>1, <2>2 DEF Dict
<1>7. Finds(at, layer)
  BY <1>1, <1>3, <1>4 DEF Finds
<1> QED BY <1>6, <1>7 DEF at

(* Frequencies that are right stay as they are.                            *)
LEMMA RecomputeIsIdle ==
    ASSUME NEW m, Woven(m) PROVE RecomputeSchemaFrequencies(m) = m
<1>1. m \in Memory /\ m.schemas = [i \in DOMAIN m.schemas |-> m.schemas[i]]
      /\ \A i \in DOMAIN m.schemas : m.schemas[i] \in SchemaNode
  <2>1. m \in Memory
    BY DEF Woven
  <2> QED BY <2>1, Parts
<1>2. ASSUME NEW i \in DOMAIN m.schemas PROVE Counted(m.schemas[i]) = m.schemas[i]
  BY <1>1 DEF Counted, SchemaNode, Woven, SchemasCounted
<1> DEFINE L == [i \in DOMAIN m.schemas |-> Counted(m.schemas[i])]
<1>3. L = m.schemas
  BY <1>1, <1>2
<1>4. RecomputeSchemaFrequencies(m) = [m EXCEPT !.schemas = L]
  BY DEF RecomputeSchemaFrequencies
<1> HIDE DEF L
<1> QED BY <1>1, <1>3, <1>4 DEF Memory

(* Dropping the rare schemas renumbers the others, and the facts follow.   *)
LEMMA FilterSchemasKeeps ==
    ASSUME NEW m, Woven(m), NEW min \in Nat, NEW r, r = FilterSchemas(m, min)
    PROVE  Woven(r) /\ OnlySchemas(m, r) /\ (FactsCounted(m) => FactsCounted(r))
<1> DEFINE P == {i \in DOMAIN m.schemas : Cardinality(m.schemas[i].facts) >= min}
           kept == Taken(m.schemas, P)
           Moved(i) == IF \E j \in DOMAIN kept : kept[j].idx = i
                       THEN CHOOSE j \in DOMAIN kept : kept[j].idx = i
                       ELSE NoSchema
           F == [f \in DOMAIN m.facts |-> [m.facts[f] EXCEPT !.schema = Moved(@)]]
           FactsOf(j) == {F[f].idx : f \in {g \in DOMAIN F : F[g].schema = j}}
           L == [j \in DOMAIN kept |-> Counted([kept[j] EXCEPT !.idx = j, !.facts = FactsOf(j)])]
<1>1. CASE min = 0 \/ m.schemas = <<>>
  <2>1. r = m
    BY <1>1 DEF FilterSchemas
  <2> QED BY <2>1, OnlySchemasSame
<1>2. CASE ~(min = 0 \/ m.schemas = <<>>)
  <2>1. r = [m EXCEPT !.schemas = L, !.facts = F, !.schemaAt = Keyed(L)]
    BY <1>2, Zenon DEF FilterSchemas
  <2>2. m \in Memory
    BY DEF Woven
  <2>3. /\ m.schemas \in Seq(SchemaNode) /\ m.facts \in Seq(FactNode)
        /\ DOMAIN m.schemas = 1..Len(m.schemas) /\ Len(m.schemas) \in Nat
        /\ DOMAIN m.facts = 1..Len(m.facts) /\ Len(m.facts) \in Nat
        /\ (\A i \in DOMAIN m.schemas : m.schemas[i] \in SchemaNode /\ m.schemas[i].idx = i)
        /\ \A g \in DOMAIN m.facts : m.facts[g] \in FactNode /\ m.facts[g].idx = g
    BY <2>2, Parts DEF Woven, PlacesRight
  <2> DEFINE c == Cardinality(P)
             at(j) == Nth(P, j)
  <2>4. /\ c \in Nat
        /\ \A j \in 1..c : at(j) \in P
        /\ \A i \in P : \E j \in 1..c : at(j) = i
        /\ \A j, k \in 1..c : at(j) = at(k) => j = k
    <3>1. P \in SUBSET (1..Len(m.schemas))
      BY <2>3
    <3> HIDE DEF P
    <3>2. Len(m.schemas) \in Nat
      BY <2>3
    <3>3. /\ Cardinality(P) \in 0..Len(m.schemas)
          /\ \A k \in 1..Cardinality(P) : Nth(P, k) \in P
          /\ \A i \in P : \E k \in 1..Cardinality(P) : Nth(P, k) = i
          /\ \A j, k \in 1..Cardinality(P) : Nth(P, j) = Nth(P, k) => j = k
      BY <3>1, <3>2, NthPlaces
    <3> QED BY <3>2, <3>3
  <2>5. DOMAIN kept = 1..c /\ \A j \in 1..c : kept[j] = m.schemas[at(j)]
    BY DEF Taken
  <2>6. \A i \in P : i \in DOMAIN m.schemas
    OBVIOUS
  <2> HIDE DEF P, at, c, kept
  <2>7. \A j \in 1..c : kept[j] \in SchemaNode /\ kept[j].idx = at(j) /\ at(j) \in DOMAIN m.schemas
    BY <2>3, <2>4, <2>5, <2>6
  <2>8. \A j, k \in 1..c : kept[j].idx = kept[k].idx => j = k
    BY <2>4, <2>7
  <2>9. \A i : Moved(i) \in 1..c \cup {NoSchema}
    BY <2>5
  <2>10. DOMAIN F = DOMAIN m.facts /\ \A f \in DOMAIN m.facts :
            /\ F[f] \in FactNode
            /\ F[f].idx = f /\ F[f].content = m.facts[f].content
            /\ F[f].frequency = m.facts[f].frequency /\ F[f].passages = m.facts[f].passages
            /\ F[f].schema \in 1..c \cup {NoSchema}
    <3>0. 1..c \cup {NoSchema} \subseteq Nat
      BY <2>4 DEF NoSchema
    <3> HIDE DEF Moved
    <3>1. \A i : Moved(i) \in Nat
      BY <2>9, <3>0
    <3>2. DOMAIN F = DOMAIN m.facts
      OBVIOUS
    <3>3. ASSUME NEW f \in DOMAIN m.facts
          PROVE  /\ F[f] \in FactNode
                 /\ F[f].idx = f /\ F[f].content = m.facts[f].content
                 /\ F[f].frequency = m.facts[f].frequency /\ F[f].passages = m.facts[f].passages
                 /\ F[f].schema \in 1..c \cup {NoSchema}
      <4>1. F[f] = [m.facts[f] EXCEPT !.schema = Moved(m.facts[f].schema)]
        OBVIOUS
      <4>2. Moved(m.facts[f].schema) \in Nat /\ Moved(m.facts[f].schema) \in 1..c \cup {NoSchema}
        BY <2>9, <3>1
      <4> HIDE DEF F
      <4> QED BY <2>3, <4>1, <4>2 DEF FactNode
    <3> QED BY <3>2, <3>3
  <2>11. F \in Seq(FactNode)
    <3>1. F = [f \in 1..Len(m.facts) |-> F[f]]
      BY <2>3
    <3> HIDE DEF F
    <3> QED BY <3>1, <2>3, <2>10, ListIs
  <2>12. \A j : FactsOf(j) = {f \in DOMAIN F : F[f].schema = j}
    <3> HIDE DEF F
    <3> QED BY <2>10
  <2> HIDE DEF F
  <2>13. DOMAIN L = 1..c /\ \A j \in 1..c :
            /\ L[j] \in SchemaNode
            /\ L[j].idx = j /\ L[j].content = m.schemas[at(j)].content
            /\ L[j].facts = {f \in DOMAIN F : F[f].schema = j}
            /\ L[j].frequency = Cardinality(L[j].facts)
    <3>1. DOMAIN L = 1..c
      BY <2>5
    <3>2. ASSUME NEW j \in 1..c
          PROVE  /\ L[j] \in SchemaNode
                 /\ L[j].idx = j /\ L[j].content = m.schemas[at(j)].content
                 /\ L[j].facts = {f \in DOMAIN F : F[f].schema = j}
                 /\ L[j].frequency = Cardinality(L[j].facts)
      <4> DEFINE A == {f \in DOMAIN F : F[f].schema = j}
      <4>1. L[j] = [kept[j] EXCEPT !.idx = j, !.facts = A, !.frequency = Cardinality(A)]
        BY <2>5, <2>7, <2>12 DEF Counted, SchemaNode
      <4>2. A \subseteq 1..Len(m.facts)
        BY <2>3, <2>10
      <4>3. Cardinality(A) \in Nat /\ A \in SUBSET Nat
        BY <4>2, <2>3, PlacesFinite
      <4>4. kept[j] \in SchemaNode /\ kept[j] = m.schemas[at(j)] /\ j \in Nat
        BY <2>4, <2>5, <2>7
      <4> HIDE DEF L, A
      <4>5. /\ L[j] \in SchemaNode /\ L[j].idx = j /\ L[j].content = kept[j].content
            /\ L[j].facts = A /\ L[j].frequency = Cardinality(A)
        BY <4>1, <4>3, <4>4 DEF SchemaNode
      <4> QED BY <4>4, <4>5 DEF A
    <3> QED BY <3>1, <3>2
  <2>14. L \in Seq(SchemaNode)
    <3>1. L = [j \in 1..c |-> L[j]]
      BY <2>5
    <3> HIDE DEF L
    <3> QED BY <3>1, <2>4, <2>13, ListIs
  <2> HIDE DEF L
  <2>15. Keyed(L) \in Dict(CanonKey) /\ Finds(Keyed(L), L)
    <3>1. \A j, k \in 1..c : Canon[L[j].content] = Canon[L[k].content] => j = k
      <4>1. \A i \in DOMAIN m.schemas : m.schemaAt[Canon[m.schemas[i].content]] = i
        BY DEF Woven, Finds
      <4> QED BY <4>1, <2>4, <2>7, <2>13
    <3>2. \A j \in DOMAIN L : L[j].idx = j /\ L[j].content \in Label
      BY <2>13 DEF SchemaNode
    <3> QED BY <3>1, <3>2, <2>13, <2>14, KeyedFinds
  <2>16. /\ r \in Memory /\ r.facts = F /\ r.schemas = L /\ r.schemaAt = Keyed(L)
         /\ r.passages = m.passages /\ r.factAt = m.factAt /\ r.chunkAt = m.chunkAt
    BY <2>1, <2>2, <2>11, <2>14, <2>15 DEF Memory
  <2>17. OnlySchemas(m, r)
    BY <2>3, <2>10, <2>16 DEF OnlySchemas
  <2>18. SchemasRight(r)
    BY <2>10, <2>13, <2>15, <2>16 DEF SchemasRight
  <2> QED BY <2>16, <2>17, <2>18, SchemasRewoven
<1> QED BY <1>1, <1>2

----------------------------------------------------------------------------
(* Removing a fact.                                                        *)

(* Removing fact f leaves at place g the fact that was at Up(f, g).        *)
Up(f, g) == IF g < f THEN g ELSE g + 1

(* Every other place is Up of exactly one.                                 *)
LEMMA UpIs ==
    ASSUME NEW n \in Nat, NEW f \in 1..n
    PROVE  /\ n - 1 \in Nat
           /\ \A g \in 1..(n - 1) : Up(f, g) \in 1..n /\ Up(f, g) # f
           /\ \A g, h \in 1..(n - 1) : Up(f, g) = Up(f, h) => g = h
           /\ \A x \in 1..n : x # f => \E g \in 1..(n - 1) : Up(f, g) = x
<1>1. n - 1 \in Nat
  OBVIOUS
<1>2. \A g \in 1..(n - 1) : Up(f, g) \in 1..n /\ Up(f, g) # f
  BY DEF Up
<1>3. \A g, h \in 1..(n - 1) : Up(f, g) = Up(f, h) => g = h
  BY DEF Up
<1>4. ASSUME NEW x \in 1..n, x # f PROVE \E g \in 1..(n - 1) : Up(f, g) = x
  <2>1. CASE x < f
    <3>1. x \in 1..(n - 1) /\ Up(f, x) = x
      BY <2>1 DEF Up
    <3> QED BY <3>1
  <2>2. CASE ~(x < f)
    <3>1. x - 1 \in 1..(n - 1) /\ ~(x - 1 < f) /\ (x - 1) + 1 = x
      BY <1>4, <2>2
    <3>2. Up(f, x - 1) = x
      BY <3>1 DEF Up
    <3> QED BY <3>1, <3>2
  <2> QED BY <2>1, <2>2
<1> QED BY <1>1, <1>2, <1>3, <1>4

(* What is left of a memory without its fact f.                            *)
Without(m, f, r) ==
    LET n == Len(m.facts) - 1
        Left(I) == {g \in 1..n : Up(f, g) \in I}
    IN  /\ r \in Memory
        /\ r.schemaAt = m.schemaAt /\ r.chunkAt = m.chunkAt
        /\ DOMAIN r.schemas = DOMAIN m.schemas /\ DOMAIN r.passages = DOMAIN m.passages
        /\ DOMAIN r.facts = 1..n
        /\ \A i \in DOMAIN m.schemas :
               /\ r.schemas[i].idx = i /\ r.schemas[i].content = m.schemas[i].content
               /\ r.schemas[i].facts = Left(m.schemas[i].facts)
               /\ r.schemas[i].frequency = Cardinality(r.schemas[i].facts)
        /\ \A g \in 1..n :
               /\ r.facts[g].idx = g /\ r.facts[g].content = m.facts[Up(f, g)].content
               /\ r.facts[g].schema = m.facts[Up(f, g)].schema
               /\ r.facts[g].passages = m.facts[Up(f, g)].passages
               /\ r.facts[g].frequency = Cardinality(r.facts[g].passages)
        /\ \A p \in DOMAIN m.passages :
               /\ r.passages[p].idx = p /\ r.passages[p].chunk = m.passages[p].chunk
               /\ r.passages[p].facts = Left(m.passages[p].facts)
        /\ Finds(r.factAt, r.facts)

(* A schema that got its facts and their count.                            *)
LEMMA CountedIs ==
    ASSUME NEW s \in SchemaNode, NEW A \in SUBSET Nat, Cardinality(A) \in Nat,
           NEW c, c = Counted([s EXCEPT !.facts = A])
    PROVE  /\ c \in SchemaNode /\ c.idx = s.idx /\ c.content = s.content
           /\ c.facts = A /\ c.frequency = Cardinality(A)
<1>1. c = [s EXCEPT !.facts = A, !.frequency = Cardinality(A)]
  BY DEF Counted, SchemaNode
<1> QED BY <1>1 DEF SchemaNode

(* A fact removed: the links to later facts move down with them.           *)
LEMMA RemoveFactIs ==
    ASSUME NEW m, Woven(m), NEW f \in DOMAIN m.facts, NEW r, r = RemoveFact(m, f)
    PROVE  Without(m, f, r)
<1> DEFINE n == Len(m.facts) - 1
           Left(I) == {g \in 1..n : Up(f, g) \in I}
           Detached(x) == [x EXCEPT !.facts = @ \ {m.facts[f].idx}]
           S0 == [i \in DOMAIN m.schemas |->
                    IF i = m.facts[f].schema THEN Counted(Detached(m.schemas[i]))
                    ELSE m.schemas[i]]
           P0 == [p \in DOMAIN m.passages |->
                    IF p \in m.facts[f].passages THEN Detached(m.passages[p])
                    ELSE m.passages[p]]
           F0 == [g \in 1 .. Len(m.facts) - 1 |->
                    IF g < f THEN m.facts[g] ELSE m.facts[g + 1]]
           mid == [m EXCEPT !.schemas = S0, !.passages = P0, !.facts = F0]
           Moved(I) == {g \in DOMAIN mid.facts : mid.facts[g].idx \in I}
           F == [g \in DOMAIN mid.facts |->
                     [mid.facts[g] EXCEPT !.idx = g,
                                          !.frequency = Cardinality(mid.facts[g].passages)]]
           S == [i \in DOMAIN mid.schemas |->
                     Counted([mid.schemas[i] EXCEPT !.facts = Moved(@)])]
           P == [p \in DOMAIN mid.passages |-> [mid.passages[p] EXCEPT !.facts = Moved(@)]]
<1>1. r = [mid EXCEPT !.facts = F, !.factAt = Keyed(F), !.schemas = S, !.passages = P]
  BY Zenon DEF RemoveFact, RebuildFactIndices
<1>2. m \in Memory
  BY DEF Woven
<1>3. /\ m.schemas \in Seq(SchemaNode) /\ m.facts \in Seq(FactNode)
      /\ m.passages \in Seq(PassageNode)
      /\ DOMAIN m.schemas = 1..Len(m.schemas) /\ Len(m.schemas) \in Nat
      /\ DOMAIN m.facts = 1..Len(m.facts) /\ Len(m.facts) \in Nat
      /\ DOMAIN m.passages = 1..Len(m.passages) /\ Len(m.passages) \in Nat
      /\ (\A i \in DOMAIN m.schemas : m.schemas[i] \in SchemaNode /\ m.schemas[i].idx = i)
      /\ (\A g \in DOMAIN m.facts : m.facts[g] \in FactNode /\ m.facts[g].idx = g)
      /\ \A p \in DOMAIN m.passages : m.passages[p] \in PassageNode /\ m.passages[p].idx = p
  BY <1>2, Parts DEF Woven, PlacesRight
<1>4. mid.schemas = S0 /\ mid.passages = P0 /\ mid.facts = F0
  <2> HIDE DEF S0, P0, F0
  <2> QED BY <1>2 DEF Memory
<1>4a. r = [m EXCEPT !.facts = F, !.factAt = Keyed(F), !.schemas = S, !.passages = P]
  <2> HIDE DEF S0, P0, F0, F, S, P
  <2> QED BY <1>1, <1>2 DEF Memory
<1> HIDE DEF mid
<1>5. /\ n \in Nat /\ \A g \in 1..n : Up(f, g) \in DOMAIN m.facts /\ Up(f, g) # f
      /\ \A g, h \in 1..n : Up(f, g) = Up(f, h) => g = h
  <2>1. f \in 1..Len(m.facts)
    BY <1>3
  <2> QED BY <1>3, <2>1, UpIs
<1>6. DOMAIN F0 = 1..n /\ \A g \in 1..n : F0[g] = m.facts[Up(f, g)]
  BY <1>3 DEF Up
<1> HIDE DEF F0, n
<1>7. \A I : Moved(I) = Left(I)
  <2>1. \A g \in 1..n : F0[g].idx = Up(f, g)
    BY <1>3, <1>5, <1>6
  <2> QED BY <2>1, <1>4, <1>6
<1>8. \A I : Left(I \ {f}) = Left(I)
  BY <1>5
<1>9. 1..n \subseteq Nat /\ \A I : Left(I) \in SUBSET (1..n) /\ Cardinality(Left(I)) \in Nat
  <2>1. \A I : Left(I) \subseteq 1..n
    OBVIOUS
  <2> HIDE DEF Left
  <2> QED BY <1>5, <2>1, PlacesFinite
<1> HIDE DEF Moved, Left
<1>10. ASSUME NEW i \in DOMAIN m.schemas
       PROVE  /\ S0[i] \in SchemaNode /\ S0[i].idx = i /\ S0[i].content = m.schemas[i].content
              /\ Left(S0[i].facts) = Left(m.schemas[i].facts)
  <2>1. m.schemas[i] \in SchemaNode /\ m.schemas[i].idx = i /\ m.facts[f].idx = f
    BY <1>3
  <2>2. CASE i = m.facts[f].schema
    <3> DEFINE A == m.schemas[i].facts \ {f}
    <3>1. A \in SUBSET Nat /\ A \subseteq 1..Len(m.facts)
      BY <1>3 DEF Woven, LinksMutual
    <3>2. Cardinality(A) \in Nat
      BY <3>1, <1>3, PlacesFinite
    <3>3. S0[i] = Counted([m.schemas[i] EXCEPT !.facts = A])
      BY <2>1, <2>2
    <3>4. Left(A) = Left(m.schemas[i].facts)
      BY <1>8
    <3> HIDE DEF A, S0
    <3> QED BY <2>1, <3>1, <3>2, <3>3, <3>4, CountedIs
  <2>3. CASE i # m.facts[f].schema
    BY <2>1, <2>3
  <2> QED BY <2>2, <2>3
<1>11. DOMAIN S = DOMAIN m.schemas /\ DOMAIN S0 = DOMAIN m.schemas
  BY <1>4
<1>12. ASSUME NEW i \in DOMAIN m.schemas
       PROVE  /\ S[i] \in SchemaNode /\ S[i].idx = i /\ S[i].content = m.schemas[i].content
              /\ S[i].facts = Left(m.schemas[i].facts)
              /\ S[i].frequency = Cardinality(S[i].facts)
  <2> DEFINE A == Left(S0[i].facts)
  <2>1. S[i] = Counted([S0[i] EXCEPT !.facts = A])
    BY <1>4, <1>7, <1>11
  <2>2. A \in SUBSET Nat /\ Cardinality(A) \in Nat
    BY <1>9
  <2>3. A = Left(m.schemas[i].facts)
    BY <1>10
  <2> HIDE DEF A, S, S0
  <2> QED BY <2>1, <2>2, <2>3, <1>10, CountedIs
<1>13. DOMAIN P = DOMAIN m.passages
  BY <1>4
<1>14. ASSUME NEW p \in DOMAIN m.passages
       PROVE  /\ P[p] \in PassageNode /\ P[p].idx = p /\ P[p].chunk = m.passages[p].chunk
              /\ P[p].facts = Left(m.passages[p].facts)
  <2>1. /\ P0[p] \in PassageNode /\ P0[p].idx = p /\ P0[p].chunk = m.passages[p].chunk
        /\ Left(P0[p].facts) = Left(m.passages[p].facts)
    <3>1. m.passages[p] \in PassageNode /\ m.passages[p].idx = p /\ m.facts[f].idx = f
      BY <1>3
    <3>2. CASE p \in m.facts[f].passages
      <4>1. P0[p] = [m.passages[p] EXCEPT !.facts = @ \ {f}]
        BY <3>1, <3>2
      <4> HIDE DEF P0
      <4> QED BY <3>1, <4>1, <1>8 DEF PassageNode
    <3>3. CASE p \notin m.facts[f].passages
      BY <3>1, <3>3
    <3> QED BY <3>2, <3>3
  <2>2. P[p] = [P0[p] EXCEPT !.facts = Left(P0[p].facts)]
    BY <1>4, <1>7
  <2>3. Left(P0[p].facts) \in SUBSET Nat
    BY <1>9
  <2> HIDE DEF P, P0
  <2> QED BY <2>1, <2>2, <2>3 DEF PassageNode
<1>15. DOMAIN F = 1..n
  BY <1>4, <1>6
<1>16. ASSUME NEW g \in 1..n
       PROVE  /\ F[g] \in FactNode /\ F[g].idx = g /\ F[g].content = m.facts[Up(f, g)].content
              /\ F[g].schema = m.facts[Up(f, g)].schema
              /\ F[g].passages = m.facts[Up(f, g)].passages
              /\ F[g].frequency = Cardinality(F[g].passages)
  <2> DEFINE x == m.facts[Up(f, g)]
  <2>1. F[g] = [x EXCEPT !.idx = g, !.frequency = Cardinality(x.passages)]
    BY <1>4, <1>6
  <2>2. x \in FactNode /\ x.passages \subseteq 1..Len(m.passages)
    BY <1>3, <1>5 DEF Woven, LinksMutual
  <2>3. Cardinality(x.passages) \in Nat /\ g \in Nat
    BY <1>3, <1>5, <2>2, PlacesFinite
  <2> HIDE DEF F, x
  <2>4. /\ F[g] \in FactNode /\ F[g].idx = g /\ F[g].content = x.content
        /\ F[g].schema = x.schema /\ F[g].passages = x.passages
        /\ F[g].frequency = Cardinality(x.passages)
    BY <2>1, <2>2, <2>3 DEF FactNode
  <2> QED BY <2>4 DEF x
<1>17. S \in Seq(SchemaNode) /\ P \in Seq(PassageNode) /\ F \in Seq(FactNode)
  <2>1. S = [i \in 1..Len(m.schemas) |-> S[i]]
    BY <1>3, <1>11
  <2>2. P = [p \in 1..Len(m.passages) |-> P[p]]
    BY <1>3, <1>13
  <2>3. F = [g \in 1..n |-> F[g]]
    BY <1>15
  <2> HIDE DEF S, P, F
  <2>4. S \in Seq(SchemaNode)
    BY <2>1, <1>3, <1>12, ListIs
  <2>5. P \in Seq(PassageNode)
    BY <2>2, <1>3, <1>14, ListIs
  <2>6. F \in Seq(FactNode)
    BY <2>3, <1>5, <1>16, ListIs
  <2> QED BY <2>4, <2>5, <2>6
<1> HIDE DEF S, P, F
<1>18. Keyed(F) \in Dict(CanonKey) /\ Finds(Keyed(F), F)
  <2>1. \A g, h \in 1..n : Canon[F[g].content] = Canon[F[h].content] => g = h
    <3>1. \A x \in DOMAIN m.facts : m.factAt[Canon[m.facts[x].content]] = x
      BY DEF Woven, Finds
    <3> QED BY <3>1, <1>5, <1>16
  <2>2. \A g \in DOMAIN F : F[g].idx = g /\ F[g].content \in Label
    BY <1>15, <1>16 DEF FactNode
  <2> QED BY <2>1, <2>2, <1>15, <1>17, KeyedFinds
<1>19. /\ r \in Memory /\ r.schemas = S /\ r.passages = P /\ r.facts = F /\ r.factAt = Keyed(F)
       /\ r.schemaAt = m.schemaAt /\ r.chunkAt = m.chunkAt
  BY <1>2, <1>4a, <1>17, <1>18 DEF Memory
<1> QED BY <1>19, <1>11, <1>12, <1>13, <1>14, <1>15, <1>16, <1>18 DEF Without, Left, n

----------------------------------------------------------------------------
(* Evidence: the chunks a fact is shown by.                                *)

(* Chunk c is among the evidence of the fact with key k.                   *)
Shows(m, k, c) ==
    \E f \in DOMAIN m.facts : /\ Canon[m.facts[f].content] = k
                              /\ \E p \in m.facts[f].passages : m.passages[p].chunk = c

(* What is left is sound, and the other facts keep their evidence.         *)
LEMMA WithoutSound ==
    ASSUME NEW m, Woven(m), NEW f \in DOMAIN m.facts, NEW r, Without(m, f, r)
    PROVE  /\ Sound(r) /\ r.chunkAt = m.chunkAt
           /\ \A k \in DOMAIN m.factAt : k # Canon[m.facts[f].content] => k \in DOMAIN r.factAt
           /\ \A k, c : k # Canon[m.facts[f].content] /\ Shows(m, k, c) => Shows(r, k, c)
<1> DEFINE n == Len(m.facts) - 1
           Left(I) == {g \in 1..n : Up(f, g) \in I}
<1>1. m \in Memory
  BY DEF Woven
<1>2. /\ DOMAIN m.facts = 1..Len(m.facts) /\ Len(m.facts) \in Nat
      /\ DOMAIN m.passages = 1..Len(m.passages)
  BY <1>1, Parts
<1>3. /\ n \in Nat /\ \A g \in 1..n : Up(f, g) \in DOMAIN m.facts /\ Up(f, g) # f
      /\ \A x \in DOMAIN m.facts : x # f => \E g \in 1..n : Up(f, g) = x
  <2>1. f \in 1..Len(m.facts)
    BY <1>2
  <2> QED BY <1>2, <2>1, UpIs
<1>4. /\ r \in Memory
      /\ r.schemaAt = m.schemaAt /\ r.chunkAt = m.chunkAt
      /\ DOMAIN r.schemas = DOMAIN m.schemas /\ DOMAIN r.passages = DOMAIN m.passages
      /\ DOMAIN r.facts = 1..n /\ Finds(r.factAt, r.facts)
  BY DEF Without
<1>5. \A i \in DOMAIN m.schemas :
               /\ r.schemas[i].idx = i /\ r.schemas[i].content = m.schemas[i].content
               /\ r.schemas[i].facts = Left(m.schemas[i].facts)
               /\ r.schemas[i].frequency = Cardinality(r.schemas[i].facts)
  BY DEF Without
<1>6. \A g \in 1..n :
               /\ r.facts[g].idx = g /\ r.facts[g].content = m.facts[Up(f, g)].content
               /\ r.facts[g].schema = m.facts[Up(f, g)].schema
               /\ r.facts[g].passages = m.facts[Up(f, g)].passages
               /\ r.facts[g].frequency = Cardinality(r.facts[g].passages)
  BY DEF Without
<1>7. \A p \in DOMAIN m.passages :
               /\ r.passages[p].idx = p /\ r.passages[p].chunk = m.passages[p].chunk
               /\ r.passages[p].facts = Left(m.passages[p].facts)
  BY DEF Without
<1> HIDE DEF n
<1>8. PlacesRight(r)
  BY <1>4, <1>5, <1>6, <1>7 DEF PlacesRight
<1>9. LinksMutual(r)
  <2>1. ASSUME NEW i \in DOMAIN r.schemas
        PROVE  r.schemas[i].facts = {g \in DOMAIN r.facts : r.facts[g].schema = i}
    <3>1. m.schemas[i].facts = {x \in DOMAIN m.facts : m.facts[x].schema = i}
      BY <1>4 DEF Woven, LinksMutual
    <3>2. r.schemas[i].facts = {g \in 1..n : Up(f, g) \in m.schemas[i].facts}
      BY <1>4, <1>5
    <3> QED BY <3>1, <3>2, <1>3, <1>4, <1>6
  <2>2. ASSUME NEW g \in DOMAIN r.facts
        PROVE  /\ r.facts[g].schema \in DOMAIN r.schemas \cup {NoSchema}
               /\ r.facts[g].passages = {p \in DOMAIN r.passages : g \in r.passages[p].facts}
    <3>1. Up(f, g) \in DOMAIN m.facts
      BY <1>3, <1>4
    <3>2. /\ m.facts[Up(f, g)].schema \in DOMAIN m.schemas \cup {NoSchema}
          /\ m.facts[Up(f, g)].passages =
                 {p \in DOMAIN m.passages : Up(f, g) \in m.passages[p].facts}
      BY <3>1 DEF Woven, LinksMutual
    <3>3. \A p \in DOMAIN m.passages :
              g \in r.passages[p].facts <=> Up(f, g) \in m.passages[p].facts
      BY <1>4, <1>7
    <3> QED BY <3>2, <3>3, <1>4, <1>6
  <2>3. \A p \in DOMAIN r.passages : r.passages[p].facts \subseteq DOMAIN r.facts
    BY <1>4, <1>7
  <2> QED BY <2>1, <2>2, <2>3 DEF LinksMutual
<1>10. SchemasCounted(r) /\ FactsCounted(r)
  BY <1>4, <1>5, <1>6 DEF SchemasCounted, FactsCounted
<1>11. Finds(r.schemaAt, r.schemas)
  <2>1. {Canon[r.schemas[i].content] : i \in DOMAIN r.schemas}
            = {Canon[m.schemas[i].content] : i \in DOMAIN m.schemas}
    BY <1>4, <1>5
  <2> QED BY <2>1, <1>4, <1>5 DEF Woven, Finds
<1>12. FindsChunks(r)
  <2>1. {r.passages[p].chunk : p \in DOMAIN r.passages} =
            {m.passages[p].chunk : p \in DOMAIN m.passages}
    BY <1>4, <1>7
  <2> QED BY <2>1, <1>4, <1>7 DEF Woven, FindsChunks
<1>13. Sound(r)
  BY <1>4, <1>8, <1>9, <1>10, <1>11, <1>12 DEF Sound, Woven
<1>14. ASSUME NEW k \in DOMAIN m.factAt, k # Canon[m.facts[f].content]
       PROVE  k \in DOMAIN r.factAt
  <2>1. PICK x \in DOMAIN m.facts : k = Canon[m.facts[x].content]
    BY DEF Woven, Finds
  <2>2. PICK g \in 1..n : Up(f, g) = x
    BY <1>3, <1>14, <2>1
  <2>3. g \in DOMAIN r.facts /\ Canon[r.facts[g].content] = k
    BY <1>4, <1>6, <2>1, <2>2
  <2> QED BY <2>3, <1>4 DEF Finds
<1>15. ASSUME NEW k, NEW c, k # Canon[m.facts[f].content], Shows(m, k, c) PROVE Shows(r, k, c)
  <2>1. PICK x \in DOMAIN m.facts : /\ Canon[m.facts[x].content] = k
                                    /\ \E p \in m.facts[x].passages : m.passages[p].chunk = c
    BY <1>15 DEF Shows
  <2>2. PICK p \in m.facts[x].passages : m.passages[p].chunk = c
    BY <2>1
  <2>3. PICK g \in 1..n : Up(f, g) = x
    BY <1>3, <1>15, <2>1
  <2>4. p \in DOMAIN m.passages
    BY <2>2 DEF Woven, LinksMutual
  <2>5. /\ g \in DOMAIN r.facts /\ Canon[r.facts[g].content] = k
        /\ p \in r.facts[g].passages /\ r.passages[p].chunk = c
    BY <1>4, <1>6, <1>7, <2>1, <2>2, <2>3, <2>4
  <2> QED BY <2>5 DEF Shows
<1> QED BY <1>4, <1>13, <1>14, <1>15

(* The schemas are no evidence.                                            *)
LEMMA SchemasShowNothing ==
    ASSUME NEW m, NEW r, OnlySchemas(m, r), NEW k, NEW c, Shows(m, k, c) PROVE Shows(r, k, c)
BY DEF Shows, OnlySchemas

(* Fact f takes the passages I for evidence, and they name it.             *)
Weave(m, f, I) ==
    [m EXCEPT !.facts[f].passages = @ \cup I,
              !.passages = [p \in DOMAIN m.passages |->
                  IF p \in I THEN [m.passages[p] EXCEPT !.facts = @ \cup {f}]
                  ELSE m.passages[p]]]

(* Both ends of the new links name each other, so the memory stays woven.  *)
LEMMA WeaveKeeps ==
    ASSUME NEW m, Woven(m), NEW f \in DOMAIN m.facts, NEW I \in SUBSET (DOMAIN m.passages),
           NEW r, r = Weave(m, f, I)
    PROVE  /\ Woven(r) /\ r.chunkAt = m.chunkAt /\ r.factAt = m.factAt /\ r.schemas = m.schemas
           /\ DOMAIN r.facts = DOMAIN m.facts
           /\ \A g \in DOMAIN m.facts : /\ r.facts[g].content = m.facts[g].content
                                        /\ r.facts[g].schema = m.facts[g].schema
           /\ \A k, c : Shows(m, k, c) => Shows(r, k, c)
           /\ \A p \in I : Shows(r, Canon[m.facts[f].content], m.passages[p].chunk)
<1> DEFINE F == [m.facts EXCEPT ![f].passages = @ \cup I]
           P == [p \in DOMAIN m.passages |->
                    IF p \in I THEN [m.passages[p] EXCEPT !.facts = @ \cup {f}]
                    ELSE m.passages[p]]
<1>1. m \in Memory
  BY DEF Woven
<1>1a. r = [m EXCEPT !.facts = F, !.passages = P]
  <2>1. r = [m EXCEPT !.facts[f].passages = @ \cup I, !.passages = P]
    BY Zenon DEF Weave
  <2> HIDE DEF P
  <2> QED BY <1>1, <2>1 DEF Memory
<1>2. /\ m.facts \in Seq(FactNode) /\ m.passages \in Seq(PassageNode)
      /\ DOMAIN m.facts = 1..Len(m.facts) /\ Len(m.facts) \in Nat
      /\ DOMAIN m.passages = 1..Len(m.passages) /\ Len(m.passages) \in Nat
      /\ (\A g \in DOMAIN m.facts : m.facts[g] \in FactNode)
      /\ (\A p \in DOMAIN m.passages : m.passages[p] \in PassageNode)
  BY <1>1, Parts
<1>3. I \in SUBSET Nat /\ f \in Nat
  BY <1>2
<1>4. DOMAIN F = DOMAIN m.facts /\ F = [g \in 1..Len(m.facts) |-> F[g]]
  BY <1>2
<1>5. ASSUME NEW g \in DOMAIN m.facts
      PROVE  /\ F[g] \in FactNode /\ F[g].idx = m.facts[g].idx /\ F[g].content = m.facts[g].content
             /\ F[g].schema = m.facts[g].schema
             /\ F[g].passages = IF g = f THEN m.facts[g].passages \cup I ELSE m.facts[g].passages
  BY <1>2, <1>3 DEF FactNode
<1>6. DOMAIN P = DOMAIN m.passages /\ P = [p \in 1..Len(m.passages) |-> P[p]]
  BY <1>2
<1>7. ASSUME NEW p \in DOMAIN m.passages
      PROVE  /\ P[p] \in PassageNode /\ P[p].idx = m.passages[p].idx
             /\ P[p].chunk = m.passages[p].chunk
             /\ P[p].facts = IF p \in I THEN m.passages[p].facts \cup {f} ELSE m.passages[p].facts
  BY <1>2, <1>3 DEF PassageNode
<1> HIDE DEF F, P
<1>8. F \in Seq(FactNode) /\ P \in Seq(PassageNode)
  <2>1. F \in Seq(FactNode)
    <3>1. Len(m.facts) \in Nat /\ \A g \in 1..Len(m.facts) : F[g] \in FactNode
      BY <1>2, <1>5
    <3> QED BY <3>1, <1>4, ListIs
  <2>2. P \in Seq(PassageNode)
    <3>1. Len(m.passages) \in Nat /\ \A p \in 1..Len(m.passages) : P[p] \in PassageNode
      BY <1>2, <1>7
    <3> QED BY <3>1, <1>6, ListIs
  <2> QED BY <2>1, <2>2
<1>9. /\ r \in Memory /\ r.facts = F /\ r.passages = P /\ r.schemas = m.schemas
      /\ r.schemaAt = m.schemaAt /\ r.factAt = m.factAt /\ r.chunkAt = m.chunkAt
  BY <1>1, <1>1a, <1>8 DEF Memory
<1>a. /\ DOMAIN r.facts = DOMAIN m.facts /\ DOMAIN r.passages = DOMAIN m.passages
      /\ \A g \in DOMAIN m.facts :
            /\ r.facts[g].idx = m.facts[g].idx /\ r.facts[g].content = m.facts[g].content
            /\ r.facts[g].schema = m.facts[g].schema
            /\ r.facts[g].passages = IF g = f THEN m.facts[g].passages \cup I
                                     ELSE m.facts[g].passages
      /\ \A p \in DOMAIN m.passages :
            /\ r.passages[p].idx = m.passages[p].idx /\ r.passages[p].chunk = m.passages[p].chunk
            /\ r.passages[p].facts = IF p \in I THEN m.passages[p].facts \cup {f}
                                     ELSE m.passages[p].facts
  BY <1>4, <1>5, <1>6, <1>7, <1>9
<1>b. /\ DOMAIN r.facts = DOMAIN m.facts /\ DOMAIN r.passages = DOMAIN m.passages
      /\ \A g \in DOMAIN m.facts : r.facts[g].content = m.facts[g].content
                                   /\ r.facts[g].schema = m.facts[g].schema
      /\ \A p \in DOMAIN m.passages : r.passages[p].chunk = m.passages[p].chunk
  BY <1>a
<1>10. PlacesRight(r)
  BY <1>a, <1>9 DEF Woven, PlacesRight
<1>11. LinksMutual(r)
  <2>1. ASSUME NEW i \in DOMAIN r.schemas
        PROVE  r.schemas[i].facts = {g \in DOMAIN r.facts : r.facts[g].schema = i}
    <3>1. m.schemas[i].facts = {x \in DOMAIN m.facts : m.facts[x].schema = i}
      BY <1>9 DEF Woven, LinksMutual
    <3> QED BY <3>1, <1>b, <1>9
  <2>2. ASSUME NEW g \in DOMAIN m.facts
        PROVE  /\ r.facts[g].schema \in DOMAIN r.schemas \cup {NoSchema}
               /\ r.facts[g].passages = {p \in DOMAIN r.passages : g \in r.passages[p].facts}
    <3>1. /\ m.facts[g].schema \in DOMAIN m.schemas \cup {NoSchema}
          /\ m.facts[g].passages = {p \in DOMAIN m.passages : g \in m.passages[p].facts}
      BY DEF Woven, LinksMutual
    <3>2. \A p \in DOMAIN m.passages :
             g \in r.passages[p].facts <=> g \in m.passages[p].facts \/ (p \in I /\ g = f)
      BY <1>a
    <3>3. CASE g = f
      BY <3>1, <3>2, <3>3, <1>a, <1>9
    <3>4. CASE g # f
      BY <3>1, <3>2, <3>4, <1>a, <1>9
    <3> QED BY <3>3, <3>4
  <2>3. \A p \in DOMAIN m.passages : r.passages[p].facts \subseteq DOMAIN m.facts
    <3>1. \A p \in DOMAIN m.passages : m.passages[p].facts \subseteq DOMAIN m.facts
      BY DEF Woven, LinksMutual
    <3>2. ASSUME NEW p \in DOMAIN m.passages PROVE r.passages[p].facts \subseteq DOMAIN m.facts
      <4>1. m.passages[p].facts \subseteq DOMAIN m.facts
        BY <3>1
      <4>2. \/ r.passages[p].facts = m.passages[p].facts
            \/ r.passages[p].facts = m.passages[p].facts \cup {f}
        BY <1>a
      <4> QED BY <4>1, <4>2
    <3> QED BY <3>2
  <2> QED BY <2>1, <2>2, <2>3, <1>b DEF LinksMutual
<1>12. SchemasCounted(r) /\ Finds(r.schemaAt, r.schemas)
  BY <1>9 DEF Woven, SchemasCounted
<1>13. Finds(r.factAt, r.facts)
  <2>1. {Canon[r.facts[i].content] : i \in DOMAIN r.facts}
            = {Canon[m.facts[i].content] : i \in DOMAIN m.facts}
    BY <1>b
  <2>2. DOMAIN m.factAt = {Canon[m.facts[i].content] : i \in DOMAIN m.facts}
        /\ \A i \in DOMAIN m.facts : m.factAt[Canon[m.facts[i].content]] = i
    BY DEF Woven, Finds
  <2> QED BY <2>1, <2>2, <1>b, <1>9 DEF Finds
<1>14. FindsChunks(r)
  <2>1. {r.passages[p].chunk : p \in DOMAIN r.passages} =
            {m.passages[p].chunk : p \in DOMAIN m.passages}
    BY <1>b
  <2> QED BY <2>1, <1>b, <1>9 DEF Woven, FindsChunks
<1>15. Woven(r)
  BY <1>9, <1>10, <1>11, <1>12, <1>13, <1>14 DEF Woven
<1>16. ASSUME NEW g \in DOMAIN m.facts, NEW p \in F[g].passages, p \in DOMAIN m.passages
       PROVE  Shows(r, Canon[m.facts[g].content], m.passages[p].chunk)
  <2>1. /\ g \in DOMAIN r.facts /\ r.facts[g].content = m.facts[g].content
        /\ p \in r.facts[g].passages /\ r.passages[p].chunk = m.passages[p].chunk
    BY <1>4, <1>5, <1>7, <1>9, <1>16
  <2> QED BY <2>1 DEF Shows
<1>17. ASSUME NEW k, NEW c, Shows(m, k, c) PROVE Shows(r, k, c)
  <2>1. PICK g \in DOMAIN m.facts : /\ Canon[m.facts[g].content] = k
                                    /\ \E p \in m.facts[g].passages : m.passages[p].chunk = c
    BY <1>17 DEF Shows
  <2>2. PICK p \in m.facts[g].passages : m.passages[p].chunk = c
    BY <2>1
  <2>3. p \in DOMAIN m.passages /\ p \in F[g].passages
    BY <2>2, <1>5 DEF Woven, LinksMutual
  <2> QED BY <2>1, <2>2, <2>3, <1>16
<1>18. \A p \in I : Shows(r, Canon[m.facts[f].content], m.passages[p].chunk)
  <2>1. ASSUME NEW p \in I PROVE Shows(r, Canon[m.facts[f].content], m.passages[p].chunk)
    <3>1. p \in F[f].passages /\ p \in DOMAIN m.passages
      BY <1>5
    <3> QED BY <3>1, <1>16
  <2> QED BY <2>1
<1> QED BY <1>4, <1>5, <1>9, <1>15, <1>17, <1>18

----------------------------------------------------------------------------
(* Merging, renaming and replacing facts.                                  *)

(* What changed was fact f: the others keep their evidence, and its own    *)
(* goes to some fact.                                                      *)
Handed(m, f, r) ==
    /\ Sound(r) /\ r.chunkAt = m.chunkAt
    /\ \A k, c : k # Canon[m.facts[f].content] /\ Shows(m, k, c) => Shows(r, k, c)
    /\ \A k, c : Shows(m, k, c) => \E j : Shows(r, j, c)

(* A merge hands the evidence of the fact to the one that stays.           *)
LEMMA MergedKeeps ==
    ASSUME NEW m, Sound(m), NEW f \in DOMAIN m.facts, NEW into \in DOMAIN m.facts, f # into,
           NEW r, r = Merged(m, f, into)
    PROVE  Handed(m, f, r)
<1> DEFINE from  == m.facts[f]
           given == [m EXCEPT
                     !.facts[into].passages = @ \cup from.passages,
                     !.passages = [p \in DOMAIN m.passages |->
                         IF p \in from.passages
                         THEN [m.passages[p] EXCEPT !.facts = @ \cup {into}]
                         ELSE m.passages[p]]]
           rest  == RemoveFact(given, f)
           heir  == rest.factAt[Canon[m.facts[into].content]]
<1>1. r = IF from.schema # NoSchema /\ rest.facts[heir].schema = NoSchema
          THEN LinkFactToSchema(rest, heir, rest.schemas[from.schema].content)
          ELSE rest
  BY Zenon DEF Merged
<1>2. Woven(m) /\ m \in Memory /\ from.passages \in SUBSET (DOMAIN m.passages)
      /\ from.schema \in DOMAIN m.schemas \cup {NoSchema}
  BY DEF Sound, Woven, LinksMutual
<1>k. \A g, h \in DOMAIN m.facts : g # h => Canon[m.facts[g].content] # Canon[m.facts[h].content]
  BY <1>2 DEF Woven, Finds
<1> DEFINE key(g) == Canon[m.facts[g].content]
           I == from.passages
<1>g. PICK x : x = given
  OBVIOUS
<1>h. x = Weave(m, into, I)
  BY <1>g DEF Weave
<1> HIDE DEF given
<1>3. /\ Woven(x) /\ x.chunkAt = m.chunkAt /\ x.factAt = m.factAt /\ x.schemas = m.schemas
      /\ DOMAIN x.facts = DOMAIN m.facts
      /\ \A g \in DOMAIN m.facts : /\ x.facts[g].content = m.facts[g].content
                                   /\ x.facts[g].schema = m.facts[g].schema
      /\ \A k, c : Shows(m, k, c) => Shows(x, k, c)
      /\ \A p \in I : Shows(x, key(into), m.passages[p].chunk)
  <2> HIDE DEF I
  <2> QED BY <1>2, <1>h, WeaveKeeps DEF I
<1>i. PICK y : y = rest
  OBVIOUS
<1>4. Without(x, f, y)
  <2>1. y = RemoveFact(x, f)
    BY <1>g, <1>i
  <2> QED BY <2>1, <1>3, RemoveFactIs
<1>5. /\ Sound(y) /\ y.chunkAt = x.chunkAt
      /\ \A k \in DOMAIN x.factAt : k # Canon[x.facts[f].content] => k \in DOMAIN y.factAt
      /\ \A k, c : k # Canon[x.facts[f].content] /\ Shows(x, k, c) => Shows(y, k, c)
  BY <1>3, <1>4, WithoutSound
<1>6. key(f) = Canon[x.facts[f].content] /\ key(into) # key(f) /\ key(into) \in DOMAIN x.factAt
  BY <1>3, <1>k, <1>2 DEF Woven, Finds
<1>7. \A k, c : k # key(f) /\ Shows(m, k, c) => Shows(y, k, c)
  BY <1>3, <1>5, <1>6
<1>8. ASSUME NEW k, NEW c, Shows(m, k, c) PROVE \E j : Shows(y, j, c)
  <2>1. CASE k # key(f)
    BY <1>7, <1>8, <2>1
  <2>2. CASE k = key(f)
    <3>1. PICK g \in DOMAIN m.facts : /\ key(g) = k
                                      /\ \E p \in m.facts[g].passages : m.passages[p].chunk = c
      BY <1>8 DEF Shows
    <3>2. g = f
      BY <3>1, <2>2, <1>k
    <3>3. PICK p \in I : m.passages[p].chunk = c
      BY <3>1, <3>2
    <3>4. Shows(x, key(into), c)
      BY <3>3, <1>3
    <3> QED BY <3>4, <1>5, <1>6
  <2> QED BY <2>1, <2>2
<1>9. Handed(m, f, y)
  BY <1>3, <1>5, <1>7, <1>8 DEF Handed
<1>10. CASE ~(from.schema # NoSchema /\ rest.facts[heir].schema = NoSchema)
  BY <1>1, <1>9, <1>10, <1>i
<1>11. CASE from.schema # NoSchema /\ rest.facts[heir].schema = NoSchema
  <2>1. y.factAt[key(into)] \in DOMAIN y.facts
    BY <1>5, <1>6 DEF Sound, Woven, Finds
  <2>2. from.schema \in DOMAIN y.schemas /\ y.schemas[from.schema].content \in Label
    <3>1. from.schema \in DOMAIN m.schemas
      BY <1>2, <1>11
    <3>2. y \in Memory /\ DOMAIN y.schemas = DOMAIN x.schemas
      BY <1>4 DEF Without
    <3>3. \A i \in DOMAIN y.schemas : y.schemas[i] \in SchemaNode
      BY <3>2, Parts
    <3> QED BY <3>1, <3>2, <3>3, <1>3 DEF SchemaNode
  <2>3. r = LinkFactToSchema(y, y.factAt[key(into)], y.schemas[from.schema].content)
    BY <1>1, <1>11, <1>i
  <2>4. Woven(r) /\ OnlySchemas(y, r) /\ (FactsCounted(y) => FactsCounted(r))
    <3> HIDE DEF key, from
    <3> QED BY <1>5, <2>1, <2>2, <2>3, LinkFactToSchemaKeeps DEF Sound
  <2>5. Sound(r) /\ r.chunkAt = y.chunkAt
    BY <2>4, <1>5 DEF Sound, OnlySchemas
  <2>6. \A k, c : Shows(y, k, c) => Shows(r, k, c)
    BY <2>4, SchemasShowNothing
  <2> QED BY <1>9, <2>5, <2>6 DEF Handed
<1> QED BY <1>10, <1>11

(* A rename moves the fact to its new key, its evidence with it.           *)
LEMMA RenamedKeeps ==
    ASSUME NEW m, Sound(m), NEW f \in DOMAIN m.facts, NEW t \in Label,
           Canon[t] \in DOMAIN m.factAt => m.factAt[Canon[t]] = f,
           NEW r, r = Renamed(m, f, t)
    PROVE  Handed(m, f, r)
<1> DEFINE key(g) == Canon[m.facts[g].content]
           F == [m.facts EXCEPT ![f].content = t]
           old == Pop(m.factAt, key(f))
           at == Put(old, Canon[t], f)
<1>1. Woven(m) /\ m \in Memory /\ FactsCounted(m)
  BY DEF Sound, Woven
<1>2. /\ m.facts \in Seq(FactNode) /\ DOMAIN m.facts = 1..Len(m.facts) /\ Len(m.facts) \in Nat
      /\ (\A g \in DOMAIN m.facts : m.facts[g] \in FactNode)
  BY <1>1, Parts
<1>3. r = [m EXCEPT !.factAt = at, !.facts = F]
  <2>1. r = [m EXCEPT !.factAt = at, !.facts[f].content = t]
    BY Zenon DEF Renamed
  <2> HIDE DEF at
  <2> QED BY <1>1, <2>1 DEF Memory
<1>4. DOMAIN F = DOMAIN m.facts /\ F = [g \in 1..Len(m.facts) |-> F[g]]
  BY <1>2
<1>5. ASSUME NEW g \in DOMAIN m.facts
      PROVE  /\ F[g] \in FactNode /\ F[g].idx = m.facts[g].idx
             /\ F[g].content = IF g = f THEN t ELSE m.facts[g].content
             /\ F[g].schema = m.facts[g].schema /\ F[g].passages = m.facts[g].passages
             /\ F[g].frequency = m.facts[g].frequency
  BY <1>2 DEF FactNode
<1> HIDE DEF F
<1>6. F \in Seq(FactNode)
  BY <1>2, <1>4, <1>5, ListIs
<1>7. /\ m.factAt \in Dict(CanonKey) /\ DOMAIN m.factAt = {key(g) : g \in DOMAIN m.facts}
      /\ \A g \in DOMAIN m.facts : m.factAt[key(g)] = g
  BY <1>1 DEF Woven, Finds, Memory
<1>8. old \in Dict(CanonKey)
  <2>1. /\ DOMAIN m.factAt \in SUBSET CanonKey /\ \A k \in DOMAIN m.factAt : m.factAt[k] \in Nat
    BY <1>7, DictIs
  <2>2. old \in [DOMAIN m.factAt \ {key(f)} -> Nat]
    BY <2>1 DEF Pop
  <2> QED BY <2>1, <2>2 DEF Dict
<1>9. at \in Dict(CanonKey)
  <2>1. Canon[t] \in CanonKey /\ f \in Nat
    BY <1>2, CanonIsKey
  <2> HIDE DEF old
  <2> QED BY <2>1, <1>8, PutIs
<1>10. /\ DOMAIN at = (DOMAIN m.factAt \ {key(f)}) \cup {Canon[t]}
       /\ at[Canon[t]] = f
       /\ \A k \in DOMAIN m.factAt : k # key(f) /\ k # Canon[t] => at[k] = m.factAt[k]
  BY DEF Put, Pop
<1>11. \A g \in DOMAIN m.facts : g # f => key(g) # key(f) /\ key(g) # Canon[t]
  BY <1>7
<1> HIDE DEF at, old
<1>12. /\ r \in Memory /\ r.facts = F /\ r.factAt = at /\ r.passages = m.passages
       /\ r.schemas = m.schemas /\ r.schemaAt = m.schemaAt /\ r.chunkAt = m.chunkAt
  BY <1>1, <1>3, <1>6, <1>9 DEF Memory
<1>13. Finds(r.factAt, r.facts)
  <2>1. ASSUME NEW g \in DOMAIN F PROVE at[Canon[F[g].content]] = g
    <3>1. CASE g = f
      BY <3>1, <1>4, <1>5, <1>10
    <3>2. CASE g # f
      <4>1. Canon[F[g].content] = key(g) /\ key(g) \in DOMAIN m.factAt /\ m.factAt[key(g)] = g
        BY <3>2, <1>4, <1>5, <1>7
      <4>2. key(g) # key(f) /\ key(g) # Canon[t]
        BY <3>2, <1>4, <1>11
      <4> QED BY <4>1, <4>2, <1>10
    <3> QED BY <3>1, <3>2
  <2>2. DOMAIN at \subseteq {Canon[F[g].content] : g \in DOMAIN F}
    <3>1. ASSUME NEW k \in DOMAIN m.factAt, k # key(f)
          PROVE  \E g \in DOMAIN F : k = Canon[F[g].content]
      <4>1. PICK g \in DOMAIN m.facts : k = key(g)
        BY <1>7
      <4> QED BY <3>1, <4>1, <1>4, <1>5
    <3>2. Canon[t] = Canon[F[f].content] /\ f \in DOMAIN F
      BY <1>4, <1>5
    <3> QED BY <3>1, <3>2, <1>10
  <2>3. \A g \in DOMAIN F : Canon[F[g].content] \in DOMAIN at
    BY <1>4, <1>5, <1>7, <1>10, <1>11
  <2>4. DOMAIN at = {Canon[F[g].content] : g \in DOMAIN F}
    BY <2>2, <2>3
  <2> QED BY <2>1, <2>4, <1>12 DEF Finds
<1>14. PlacesRight(r)
  BY <1>1, <1>4, <1>5, <1>12 DEF Woven, PlacesRight
<1>a. /\ DOMAIN r.facts = DOMAIN m.facts
      /\ \A g \in DOMAIN m.facts : /\ r.facts[g].schema = m.facts[g].schema
                                   /\ r.facts[g].passages = m.facts[g].passages
                                   /\ r.facts[g].frequency = m.facts[g].frequency
  BY <1>4, <1>5, <1>12
<1>15. LinksMutual(r)
  <2>1. LinksMutual(m)
    BY <1>1 DEF Woven
  <2> QED BY <2>1, <1>a, <1>12 DEF LinksMutual
<1>16. SchemasCounted(r) /\ FactsCounted(r) /\ FindsChunks(r) /\ Finds(r.schemaAt, r.schemas)
  <2>1. SchemasCounted(r) /\ FindsChunks(r) /\ Finds(r.schemaAt, r.schemas)
    BY <1>1, <1>12 DEF Woven, SchemasCounted, FindsChunks
  <2>2. FactsCounted(r)
    BY <1>1, <1>a DEF FactsCounted
  <2> QED BY <2>1, <2>2
<1>17. Sound(r)
  BY <1>12, <1>13, <1>14, <1>15, <1>16 DEF Sound, Woven
<1>18. ASSUME NEW k, NEW c, Shows(m, k, c)
       PROVE  (k # key(f) => Shows(r, k, c)) /\ \E j : Shows(r, j, c)
  <2>1. PICK g \in DOMAIN m.facts : /\ key(g) = k
                                    /\ \E p \in m.facts[g].passages : m.passages[p].chunk = c
    BY <1>18 DEF Shows
  <2>2. Shows(r, Canon[F[g].content], c)
    BY <2>1, <1>4, <1>5, <1>12 DEF Shows
  <2> QED BY <2>1, <2>2, <1>5
<1> QED BY <1>12, <1>17, <1>18 DEF Handed

(* A replacement is one or the other (replace_fact).                       *)
LEMMA ReplaceFactKeeps ==
    ASSUME NEW m, Sound(m), NEW f \in DOMAIN m.facts, NEW t \in Label,
           NEW r, r = ReplaceFact(m, f, t)
    PROVE  Handed(m, f, r)
<1>1. CASE m.facts[f].content = t
  BY <1>1 DEF ReplaceFact, Handed
<1>2. CASE m.facts[f].content # t /\ Canon[t] \in DOMAIN m.factAt /\ m.factAt[Canon[t]] # f
  <2>1. r = Merged(m, f, m.factAt[Canon[t]])
    BY <1>2 DEF ReplaceFact
  <2>2. m.factAt[Canon[t]] \in DOMAIN m.facts
    BY <1>2 DEF Sound, Woven, Finds
  <2> QED BY <1>2, <2>1, <2>2, MergedKeeps
<1>3. CASE m.facts[f].content # t /\ (Canon[t] \in DOMAIN m.factAt => m.factAt[Canon[t]] = f)
  <2>1. r = Renamed(m, f, t)
    BY <1>3 DEF ReplaceFact
  <2> QED BY <1>3, <2>1, RenamedKeeps
<1> QED BY <1>1, <1>2, <1>3

----------------------------------------------------------------------------
(* Reading a triple in.                                                    *)

(* A fact is found or added, under its key.                                *)
LEMMA WithFactKeeps ==
    ASSUME NEW m, Woven(m), NEW t \in Label, NEW r, r = WithFact(m, t)
    PROVE  /\ Woven(r) /\ r.passages = m.passages /\ r.chunkAt = m.chunkAt
           /\ Canon[t] \in DOMAIN r.factAt /\ r.factAt[Canon[t]] \in DOMAIN r.facts
           /\ Canon[r.facts[r.factAt[Canon[t]]].content] = Canon[t]
           /\ \A k, c : Shows(m, k, c) => Shows(r, k, c)
<1> DEFINE n == Len(m.facts) + 1
           x == [idx |-> n, content |-> t, frequency |-> 0, schema |-> NoSchema, passages |-> {}]
           F == Append(m.facts, x)
           e == Put(m.factAt, Canon[t], n)
<1>0. m \in Memory /\ Canon[t] \in CanonKey
  BY CanonIsKey DEF Woven
<1>1. /\ Len(m.facts) \in Nat /\ m.facts \in Seq(FactNode)
      /\ DOMAIN m.facts = 1..Len(m.facts) /\ n \in Nat
      /\ DOMAIN m.schemas = 1..Len(m.schemas)
  BY <1>0, Parts
<1>2. CASE Canon[t] \in DOMAIN m.factAt
  <2>1. r = m
    BY <1>2 DEF WithFact
  <2>2. m.factAt[Canon[t]] \in DOMAIN m.facts
        /\ Canon[m.facts[m.factAt[Canon[t]]].content] = Canon[t]
    BY <1>2 DEF Woven, Finds
  <2> QED BY <2>1, <2>2, <1>2
<1>3. CASE Canon[t] \notin DOMAIN m.factAt
  <2>1. x \in FactNode /\ x.content = t
    BY <1>1 DEF FactNode, NoSchema
  <2>2. m.factAt \in Dict(CanonKey) /\ Finds(m.factAt, m.facts)
    BY <1>0 DEF Memory, Woven
  <2>3. /\ F \in Seq(FactNode) /\ DOMAIN F = 1..n /\ F[n] = x /\ Len(F) = n
        /\ \A i \in 1..Len(m.facts) : F[i] = m.facts[i]
    BY <1>1, <2>1, AppendIs
  <2>r. r = [m EXCEPT !.facts = F, !.factAt = e]
    BY <1>3, Zenon DEF WithFact
  <2>4. /\ e \in Dict(CanonKey) /\ Finds(e, F) /\ e[Canon[t]] = n /\ Canon[t] \in DOMAIN e
    <3>1. e = Put(m.factAt, Canon[t], Len(m.facts) + 1) /\ F = Append(m.facts, x)
      OBVIOUS
    <3> HIDE DEF x, e, F
    <3>2. m.facts \in Seq(FactNode) /\ n = Len(m.facts) + 1
      BY <1>1
    <3> HIDE DEF n
    <3>3. Finds(e, F)
      BY <1>0, <1>3, <2>1, <2>2, <3>1, <3>2, AppendFound
    <3>4. e \in Dict(CanonKey)
      BY <1>0, <1>1, <2>2, <3>1, <3>2, PutIs
    <3>5. e[Canon[t]] = n /\ Canon[t] \in DOMAIN e
      BY <3>1, <3>2 DEF Put
    <3> QED BY <3>3, <3>4, <3>5
  <2>5. x.idx = n /\ x.passages = {} /\ x.schema = NoSchema
    OBVIOUS
  <2> HIDE DEF F, e, x
  <2>6. /\ r \in Memory /\ r.facts = F /\ r.factAt = e /\ r.schemas = m.schemas
        /\ r.passages = m.passages /\ r.schemaAt = m.schemaAt /\ r.chunkAt = m.chunkAt
    BY <1>0, <2>3, <2>4, <2>r DEF Memory
  <2>7. \A i \in 1..n : i = n \/ i \in DOMAIN m.facts
    BY <1>1
  <2>8. DOMAIN m.facts \subseteq 1..n /\ n \notin DOMAIN m.facts
    BY <1>1
  <2>9. \A i \in DOMAIN m.facts : F[i] = m.facts[i]
    BY <1>1, <2>3
  <2> HIDE DEF n
  <2>10. PlacesRight(r)
    BY <2>3, <2>5, <2>6, <2>7, <2>9 DEF Woven, PlacesRight
  <2>11. LinksMutual(r)
    <3>1. ASSUME NEW i \in DOMAIN m.schemas
          PROVE  r.schemas[i].facts = {f \in DOMAIN r.facts : r.facts[f].schema = i}
      <4>1. m.schemas[i].facts = {f \in DOMAIN m.facts : m.facts[f].schema = i}
        BY DEF Woven, LinksMutual
      <4>2. F[n].schema # i
        BY <1>1, <2>3, <2>5 DEF NoSchema
      <4> QED BY <4>1, <4>2, <2>3, <2>6, <2>7, <2>8, <2>9
    <3>2. ASSUME NEW f \in 1..n
          PROVE  /\ F[f].schema \in DOMAIN m.schemas \cup {NoSchema}
                 /\ F[f].passages = {p \in DOMAIN m.passages : f \in m.passages[p].facts}
      <4>1. CASE f = n
        <5>1. \A p \in DOMAIN m.passages : n \notin m.passages[p].facts
          BY <2>8 DEF Woven, LinksMutual
        <5> QED BY <4>1, <5>1, <2>3, <2>5
      <4>2. CASE f \in DOMAIN m.facts
        BY <4>2, <2>9 DEF Woven, LinksMutual
      <4> QED BY <4>1, <4>2, <2>7
    <3>3. \A p \in DOMAIN m.passages : m.passages[p].facts \subseteq 1..n
      BY <2>8 DEF Woven, LinksMutual
    <3> QED BY <3>1, <3>2, <3>3, <2>3, <2>6 DEF LinksMutual
  <2>12. SchemasCounted(r) /\ Finds(r.schemaAt, r.schemas) /\ FindsChunks(r)
    BY <2>6 DEF Woven, SchemasCounted, FindsChunks
  <2>13. Woven(r)
    BY <2>4, <2>6, <2>10, <2>11, <2>12 DEF Woven
  <2>14. ASSUME NEW k, NEW c, Shows(m, k, c) PROVE Shows(r, k, c)
    <3>1. \A f \in DOMAIN m.facts : f \in DOMAIN r.facts /\ r.facts[f] = m.facts[f]
      BY <2>3, <2>6, <2>8, <2>9
    <3> QED BY <2>14, <3>1, <2>6 DEF Shows
  <2>15. r.factAt[Canon[t]] = n /\ n \in 1..n /\ r.facts[n].content = t
    <3>1. n \in 1..n
      BY <1>1 DEF n
    <3> QED BY <3>1, <2>1, <2>3, <2>4, <2>6
  <2> QED BY <2>3, <2>4, <2>6, <2>13, <2>14, <2>15
<1> QED BY <1>2, <1>3

(* A passage is found or added, under its chunk.                           *)
LEMMA WithPassageKeeps ==
    ASSUME NEW m, Woven(m), NEW c \in Chunk, NEW r, r = WithPassage(m, c)
    PROVE  /\ Woven(r) /\ DOMAIN r.chunkAt = DOMAIN m.chunkAt \cup {c}
           /\ \A k, d : Shows(m, k, d) => Shows(r, k, d)
<1> DEFINE n == Len(m.passages) + 1
           x == [idx |-> n, chunk |-> c, facts |-> {}]
           P == Append(m.passages, x)
           e == Put(m.chunkAt, c, n)
<1>0. m \in Memory
  BY DEF Woven
<1>1. /\ Len(m.passages) \in Nat /\ m.passages \in Seq(PassageNode)
      /\ DOMAIN m.passages = 1..Len(m.passages) /\ n \in Nat
  BY <1>0, Parts
<1>2. CASE c \in DOMAIN m.chunkAt
  <2>1. r = m
    BY <1>2 DEF WithPassage
  <2> QED BY <2>1, <1>2
<1>3. CASE c \notin DOMAIN m.chunkAt
  <2>1. x \in PassageNode
    BY <1>1 DEF PassageNode
  <2>2. m.chunkAt \in Dict(Chunk)
    BY <1>0 DEF Memory
  <2>3. /\ P \in Seq(PassageNode) /\ DOMAIN P = 1..n /\ P[n] = x /\ Len(P) = n
        /\ \A i \in 1..Len(m.passages) : P[i] = m.passages[i]
    BY <1>1, <2>1, AppendIs
  <2>r. r = [m EXCEPT !.passages = P, !.chunkAt = e]
    BY <1>3, Zenon DEF WithPassage
  <2>4. /\ e \in Dict(Chunk) /\ DOMAIN e = DOMAIN m.chunkAt \cup {c} /\ e[c] = n
        /\ \A d \in DOMAIN m.chunkAt : e[d] = m.chunkAt[d]
    <3>1. e \in Dict(Chunk)
      <4> HIDE DEF n
      <4> QED BY <1>1, <2>2, PutIs
    <3>2. /\ DOMAIN e = DOMAIN m.chunkAt \cup {c} /\ e[c] = n
          /\ \A d \in DOMAIN m.chunkAt : e[d] = m.chunkAt[d]
      BY <1>3 DEF Put
    <3> QED BY <3>1, <3>2
  <2>5. x.idx = n /\ x.chunk = c /\ x.facts = {}
    OBVIOUS
  <2> HIDE DEF P, e, x
  <2>6. /\ r \in Memory /\ r.passages = P /\ r.chunkAt = e /\ r.schemas = m.schemas
        /\ r.facts = m.facts /\ r.schemaAt = m.schemaAt /\ r.factAt = m.factAt
    BY <1>0, <2>3, <2>4, <2>r DEF Memory
  <2>7. (\A i \in 1..n : i = n \/ i \in DOMAIN m.passages)
        /\ n \in 1..n /\ DOMAIN m.passages \subseteq 1..n /\ n \notin DOMAIN m.passages
    BY <1>1
  <2>8. \A i \in DOMAIN m.passages : P[i] = m.passages[i]
    BY <1>1, <2>3
  <2> HIDE DEF n
  <2>9. PlacesRight(r)
    BY <2>3, <2>5, <2>6, <2>7, <2>8 DEF Woven, PlacesRight
  <2>10. LinksMutual(r)
    <3>1. ASSUME NEW f \in DOMAIN m.facts
          PROVE  m.facts[f].passages = {p \in 1..n : f \in P[p].facts}
      <4>1. m.facts[f].passages = {p \in DOMAIN m.passages : f \in m.passages[p].facts}
        BY DEF Woven, LinksMutual
      <4>2. f \notin P[n].facts
        BY <2>3, <2>5
      <4> QED BY <4>1, <4>2, <2>7, <2>8
    <3>2. \A p \in 1..n : P[p].facts \subseteq DOMAIN m.facts
      BY <2>3, <2>5, <2>7, <2>8 DEF Woven, LinksMutual
    <3> QED BY <3>1, <3>2, <2>3, <2>6 DEF Woven, LinksMutual
  <2>11. SchemasCounted(r) /\ Finds(r.schemaAt, r.schemas) /\ Finds(r.factAt, r.facts)
    BY <2>6 DEF Woven, SchemasCounted
  <2>12. FindsChunks(r)
    <3>1. DOMAIN m.chunkAt = {m.passages[p].chunk : p \in DOMAIN m.passages}
          /\ \A p \in DOMAIN m.passages : m.chunkAt[m.passages[p].chunk] = p
      BY DEF Woven, FindsChunks
    <3>2. {P[p].chunk : p \in 1..n} = {P[p].chunk : p \in DOMAIN m.passages} \cup {c}
      BY <2>3, <2>5, <2>7
    <3>3. {P[p].chunk : p \in DOMAIN m.passages} = {m.passages[p].chunk : p \in DOMAIN m.passages}
      BY <2>8
    <3>4. DOMAIN e = {P[p].chunk : p \in 1..n}
      BY <2>4, <3>1, <3>2, <3>3
    <3>5. \A p \in 1..n : e[P[p].chunk] = p
      BY <2>3, <2>4, <2>5, <2>7, <2>8, <3>1
    <3> QED BY <2>3, <2>6, <3>4, <3>5 DEF FindsChunks
  <2>13. Woven(r)
    BY <2>6, <2>9, <2>10, <2>11, <2>12 DEF Woven
  <2>14. ASSUME NEW k, NEW d, Shows(m, k, d) PROVE Shows(r, k, d)
    <3>1. \A f \in DOMAIN m.facts : m.facts[f].passages \subseteq DOMAIN m.passages
      BY DEF Woven, LinksMutual
    <3>2. \A p \in DOMAIN m.passages : r.passages[p] = m.passages[p]
      BY <2>6, <2>8
    <3> QED BY <2>14, <3>1, <3>2, <2>6 DEF Shows
  <2> QED BY <2>4, <2>6, <2>13, <2>14
<1> QED BY <1>2, <1>3

(* A triple read in is a fact its chunk is evidence of.                    *)
LEMMA WithTripleKeeps ==
    ASSUME NEW m, Woven(m), NEW c \in DOMAIN m.chunkAt, NEW t \in Label,
           NEW r, r = WithTriple(m, c, t)
    PROVE  /\ Woven(r) /\ r.chunkAt = m.chunkAt
           /\ \A k, d : Shows(m, k, d) => Shows(r, k, d)
           /\ Shows(r, Canon[t], c)
<1> DEFINE n == WithFact(m, t)
           p == n.chunkAt[c]
           f == n.factAt[Canon[t]]
<1>1. /\ Woven(n) /\ n.passages = m.passages /\ n.chunkAt = m.chunkAt
      /\ f \in DOMAIN n.facts /\ Canon[n.facts[f].content] = Canon[t]
      /\ \A k, d : Shows(m, k, d) => Shows(n, k, d)
  BY WithFactKeeps
<1>2. r = [n EXCEPT !.facts[f].passages = @ \cup {p}, !.passages[p].facts = @ \cup {f}]
  BY Zenon DEF WithTriple
<1> HIDE DEF n
<1>3. p \in DOMAIN n.passages /\ n.passages[p].chunk = c
  BY <1>1 DEF Woven, FindsChunks
<1> HIDE DEF p, f
<1>4. r = Weave(n, f, {p})
  <2>1. n \in Memory
    BY <1>1 DEF Woven
  <2>2. n.passages = [q \in DOMAIN n.passages |-> n.passages[q]]
    BY <2>1, Parts
  <2>3. [n.passages EXCEPT ![p].facts = @ \cup {f}]
            = [q \in DOMAIN n.passages |->
                  IF q \in {p} THEN [n.passages[q] EXCEPT !.facts = @ \cup {f}] ELSE n.passages[q]]
    BY <2>2
  <2> DEFINE P == [q \in DOMAIN n.passages |->
                  IF q \in {p} THEN [n.passages[q] EXCEPT !.facts = @ \cup {f}] ELSE n.passages[q]]
             X == [n EXCEPT !.facts[f].passages = @ \cup {p}]
  <2>4. Weave(n, f, {p}) = [n EXCEPT !.facts[f].passages = @ \cup {p}, !.passages = P]
    BY Zenon DEF Weave
  <2>5. r = [n EXCEPT !.facts[f].passages = @ \cup {p},
                      !.passages = [n.passages EXCEPT ![p].facts = @ \cup {f}]]
    BY <1>2, <2>1 DEF Memory
  <2> HIDE DEF P
  <2> QED BY <2>3, <2>4, <2>5 DEF P
<1>5. /\ Woven(r) /\ r.chunkAt = n.chunkAt
      /\ \A k, d : Shows(n, k, d) => Shows(r, k, d)
      /\ Shows(r, Canon[n.facts[f].content], n.passages[p].chunk)
  <2>1. {p} \in SUBSET (DOMAIN n.passages) /\ p \in {p}
    BY <1>3
  <2> QED BY <1>1, <1>4, <2>1, WeaveKeeps
<1> QED BY <1>1, <1>3, <1>5

----------------------------------------------------------------------------
(* Applying the cached schemas.                                            *)

(* Linking any list of facts to schemas keeps the memory sound.            *)
LEMMA LinkPairsKeeps ==
    ASSUME NEW m, Sound(m), NEW pairs \in Seq(Label \X Label),
           NEW r, r = LinkPairs(m, pairs)
    PROVE  Sound(r) /\ OnlySchemas(m, r)
<1> DEFINE n == Len(pairs)
           S == {x \in Memory : Sound(x) /\ OnlySchemas(m, x)}
           step(x, k) == IF Canon[pairs[k][1]] \in DOMAIN x.factAt
                         THEN LinkFactToSchema(x, x.factAt[Canon[pairs[k][1]]], pairs[k][2])
                         ELSE x
           h == [z \in (1..n) \X S |-> step(z[2], z[1])]
           F(g) == [s \in SUBSET (DOMAIN pairs) |->
                       IF s = {} THEN m ELSE step(g[s \ {Max(s)}], Max(s))]
           it == CHOOSE g : g = F(g)
<1>1. n \in Nat /\ DOMAIN pairs = 1..n /\ \A k \in 1..n : pairs[k][2] \in Label
  OBVIOUS
<1>2. r = it[DOMAIN pairs]
  BY DEF LinkPairs, FoldLeft, MapThenFoldSet
<1>3. m \in S
  BY OnlySchemasSame DEF Sound, Woven
<1>4. ASSUME NEW x \in S, NEW k \in 1..n PROVE step(x, k) \in S
  <2>1. CASE Canon[pairs[k][1]] \in DOMAIN x.factAt
    <3> DEFINE f == x.factAt[Canon[pairs[k][1]]]
               y == LinkFactToSchema(x, f, pairs[k][2])
    <3>1. Woven(x) /\ FactsCounted(x) /\ f \in DOMAIN x.facts
      BY <2>1 DEF Sound, Woven, Finds
    <3>2. Woven(y) /\ OnlySchemas(x, y) /\ FactsCounted(y)
      BY <1>1, <3>1, LinkFactToSchemaKeeps
    <3>3. y \in S
      <4> HIDE DEF y
      <4> QED BY <3>2, OnlySchemasOnce DEF Sound, Woven
    <3> QED BY <3>3, <2>1
  <2>2. CASE Canon[pairs[k][1]] \notin DOMAIN x.factAt
    BY <2>2
  <2> QED BY <2>1, <2>2
<1> HIDE DEF S, step, n
<1>5. h \in [(1..n) \X S -> S]
  BY <1>4
<1>6. PICK g \in [SUBSET (1..n) -> S] : Folds(g, n, m, h)
  <2> HIDE DEF h
  <2> QED BY <1>1, <1>3, <1>5, FoldExists
<1>7. ASSUME NEW s \in SUBSET (1..n), s # {}
      PROVE  <<Max(s), g[s \ {Max(s)}]>> \in (1..n) \X S
  BY <1>1, <1>7, MaxIn
<1>8. g = F(g)
  <2>1. \A s \in SUBSET (1..n) : g[s] = F(g)[s]
    BY <1>1, <1>6, <1>7 DEF Folds
  <2> QED BY <1>1, <2>1
<1>9. it = F(it)
  <2> HIDE DEF F
  <2> QED BY <1>8
<1> HIDE DEF it
<1>10. it[{}] = m /\ \A k \in 1..n : it[1..k] = step(it[1..(k - 1)], k)
  <2>1. it[{}] = m
    BY <1>9
  <2>2. ASSUME NEW k \in 1..n PROVE it[1..k] = step(it[1..(k - 1)], k)
    <3>1. /\ 1..k \in SUBSET (DOMAIN pairs) /\ 1..k # {} /\ Max(1..k) = k
          /\ (1..k) \ {k} = 1..(k - 1)
      BY <1>1, Initial
    <3>2. it[1..k] = F(it)[1..k]
      BY <1>9
    <3>3. F(it)[1..k] = step(it[(1..k) \ {Max(1..k)}], Max(1..k))
      BY <3>1
    <3> QED BY <3>1, <3>2, <3>3
  <2> QED BY <2>1, <2>2
<1>11. Climbs(it, n, S, m, h)
  BY <1>10 DEF Climbs
<1>12. it[1..n] \in S
  <2> HIDE DEF h
  <2> QED BY <1>1, <1>3, <1>5, <1>11, FoldStays
<1> QED BY <1>1, <1>2, <1>12 DEF S

(* A finite set can be listed.                                             *)
LEMMA SetToSeqIs == ASSUME NEW T, IsFiniteSet(T) PROVE SetToSeq(T) \in Seq(T)
<1> DEFINE n == Cardinality(T)
<1>1. PICK k \in Nat : ExistsBijection(1..k, T)
  BY FS_NatBijection
<1>2. n = k
  BY <1>1, FS_CountingElements
<1>3. PICK f \in [1..n -> T] : IsInjective(f)
  BY <1>1, <1>2 DEF ExistsBijection, Bijection, Injection
<1>4. SetToSeq(T) \in [1..n -> T]
  BY <1>3 DEF SetToSeq
<1>5. n \in Nat
  BY <1>2
<1> HIDE DEF n
<1> QED BY <1>4, <1>5

(* What is kept of the schemas of an extraction: spellings and ontologies. *)
TypesKept == typed \in [Chunk -> {d \in UNION {[D -> Label] : D \in SUBSET Label} :
                                      IsFiniteSet(DOMAIN d)}]

(* The pairs kept of a chunk are a list of spellings and ontologies.       *)
LEMMA CachedPairsTyped ==
    ASSUME TypesKept, NEW c \in Chunk PROVE CachedPairs(c) \in Seq(Label \X Label)
<1> DEFINE d == typed[c]
           T == {<<t, d[t]>> : t \in DOMAIN d}
<1>1. PICK D \in SUBSET Label : d \in [D -> Label] /\ IsFiniteSet(D)
  BY DEF TypesKept
<1>2. T \in SUBSET (Label \X Label)
  BY <1>1
<1>3. IsFiniteSet(T)
  <2> DEFINE img == [t \in D |-> <<t, d[t]>>]
  <2>1. img \in Surjection(D, T)
    BY <1>1 DEF Surjection
  <2> QED BY <2>1, <1>1, FS_Surjection
<1>4. SetToSeq(T) \in Seq(T)
  BY <1>3, SetToSeqIs
<1>5. CachedPairs(c) = SetToSeq(T)
  BY DEF CachedPairs
<1> HIDE DEF T
<1> QED BY <1>2, <1>4, <1>5

(* The cached schemas of all chunks change schemas alone.                  *)
LEMMA ApplyCachedOntologyKeeps ==
    ASSUME TypesKept, NEW m, Sound(m), NEW r, r = ApplyCachedOntology(m)
    PROVE  Sound(r) /\ OnlySchemas(m, r)
<1> DEFINE n == Len(ChunkOrder)
           S == {x \in Memory : Sound(x) /\ OnlySchemas(m, x)}
           step(x, k) == LinkPairs(x, CachedPairs(ChunkOrder[k]))
           h == [z \in (1..n) \X S |-> step(z[2], z[1])]
           F(g) == [s \in SUBSET (DOMAIN ChunkOrder) |->
                       IF s = {} THEN m ELSE step(g[s \ {Max(s)}], Max(s))]
           it == CHOOSE g : g = F(g)
<1>1. n \in Nat /\ DOMAIN ChunkOrder = 1..n /\ \A k \in 1..n : ChunkOrder[k] \in Chunk
  BY RebuildAssumption
<1>2. r = it[DOMAIN ChunkOrder]
  BY DEF ApplyCachedOntology, FoldLeft, MapThenFoldSet
<1>3. m \in S
  BY OnlySchemasSame DEF Sound, Woven
<1>4. ASSUME NEW x \in S, NEW k \in 1..n PROVE step(x, k) \in S
  <2> DEFINE y == LinkPairs(x, CachedPairs(ChunkOrder[k]))
  <2>1. Sound(y) /\ OnlySchemas(x, y)
    <3>1. CachedPairs(ChunkOrder[k]) \in Seq(Label \X Label)
      BY <1>1, CachedPairsTyped
    <3> QED BY <3>1, LinkPairsKeeps
  <2>2. y \in S
    <3> HIDE DEF y
    <3> QED BY <2>1, OnlySchemasOnce DEF Sound, Woven
  <2> QED BY <2>2
<1> HIDE DEF S, step, n
<1>5. h \in [(1..n) \X S -> S]
  BY <1>4
<1>6. PICK g \in [SUBSET (1..n) -> S] : Folds(g, n, m, h)
  <2> HIDE DEF h
  <2> QED BY <1>1, <1>3, <1>5, FoldExists
<1>7. ASSUME NEW s \in SUBSET (1..n), s # {}
      PROVE  <<Max(s), g[s \ {Max(s)}]>> \in (1..n) \X S
  BY <1>1, <1>7, MaxIn
<1>8. g = F(g)
  <2>1. \A s \in SUBSET (1..n) : g[s] = F(g)[s]
    BY <1>1, <1>6, <1>7 DEF Folds
  <2> QED BY <1>1, <2>1
<1>9. it = F(it)
  <2> HIDE DEF F
  <2> QED BY <1>8
<1> HIDE DEF it
<1>10. it[{}] = m /\ \A k \in 1..n : it[1..k] = step(it[1..(k - 1)], k)
  <2>1. it[{}] = m
    BY <1>9
  <2>2. ASSUME NEW k \in 1..n PROVE it[1..k] = step(it[1..(k - 1)], k)
    <3>1. /\ 1..k \in SUBSET (DOMAIN ChunkOrder) /\ 1..k # {} /\ Max(1..k) = k
          /\ (1..k) \ {k} = 1..(k - 1)
      BY <1>1, Initial
    <3>2. it[1..k] = F(it)[1..k]
      BY <1>9
    <3>3. F(it)[1..k] = step(it[(1..k) \ {Max(1..k)}], Max(1..k))
      BY <3>1
    <3> QED BY <3>1, <3>2, <3>3
  <2> QED BY <2>1, <2>2
<1>11. Climbs(it, n, S, m, h)
  BY <1>10 DEF Climbs
<1>12. it[1..n] \in S
  <2> HIDE DEF h
  <2> QED BY <1>1, <1>3, <1>5, <1>11, FoldStays
<1> QED BY <1>1, <1>2, <1>12 DEF S

(* The triples of one chunk are read in, in turn.                          *)
ReadIn(m, c, ts) == FoldLeft(LAMBDA n, t : WithTriple(n, c, t), m, ts)

(* A chunk read in is evidence of all its triples, and of no fact less.    *)
LEMMA ChunkRead ==
    ASSUME NEW m, Woven(m), NEW c \in DOMAIN m.chunkAt, NEW ts \in Seq(Label),
           NEW r, r = ReadIn(m, c, ts)
    PROVE  /\ Woven(r) /\ r.chunkAt = m.chunkAt
           /\ \A k, d : Shows(m, k, d) => Shows(r, k, d)
           /\ \A i \in DOMAIN ts : Shows(r, Canon[ts[i]], c)
<1> DEFINE n == Len(ts)
           S == {x \in Memory : /\ Woven(x) /\ x.chunkAt = m.chunkAt
                                /\ \A k, d : Shows(m, k, d) => Shows(x, k, d)}
           step(x, k) == WithTriple(x, c, ts[k])
           h == [z \in (1..n) \X S |-> step(z[2], z[1])]
           F(g) == [s \in SUBSET (DOMAIN ts) |->
                       IF s = {} THEN m ELSE step(g[s \ {Max(s)}], Max(s))]
           it == CHOOSE g : g = F(g)
<1>1. n \in Nat /\ DOMAIN ts = 1..n /\ \A k \in 1..n : ts[k] \in Label
  OBVIOUS
<1>2. r = it[DOMAIN ts]
  BY DEF ReadIn, FoldLeft, MapThenFoldSet
<1>3. m \in S
  BY DEF Woven
<1>4. ASSUME NEW x \in S, NEW k \in 1..n
      PROVE  /\ step(x, k) \in S /\ Shows(step(x, k), Canon[ts[k]], c)
             /\ \A j, d : Shows(x, j, d) => Shows(step(x, k), j, d)
  <2> DEFINE y == WithTriple(x, c, ts[k])
  <2>1. Woven(x) /\ x.chunkAt = m.chunkAt
    OBVIOUS
  <2>2. /\ Woven(y) /\ y.chunkAt = x.chunkAt /\ Shows(y, Canon[ts[k]], c)
        /\ \A j, d : Shows(x, j, d) => Shows(y, j, d)
    <3> HIDE DEF S
    <3> QED BY <1>1, <2>1, WithTripleKeeps
  <2>3. y \in S
    <3> HIDE DEF y
    <3> QED BY <2>1, <2>2 DEF Woven
  <2> QED BY <2>2, <2>3
<1> HIDE DEF S, step, n
<1>5. h \in [(1..n) \X S -> S]
  BY <1>4
<1>6. PICK g \in [SUBSET (1..n) -> S] : Folds(g, n, m, h)
  <2> HIDE DEF h
  <2> QED BY <1>1, <1>3, <1>5, FoldExists
<1>7. ASSUME NEW s \in SUBSET (1..n), s # {}
      PROVE  <<Max(s), g[s \ {Max(s)}]>> \in (1..n) \X S
  BY <1>1, <1>7, MaxIn
<1>8. g = F(g)
  <2>1. \A s \in SUBSET (1..n) : g[s] = F(g)[s]
    BY <1>1, <1>6, <1>7 DEF Folds
  <2> QED BY <1>1, <2>1
<1>9. it = F(it)
  <2> HIDE DEF F
  <2> QED BY <1>8
<1> HIDE DEF it
<1>10. it[{}] = m /\ \A k \in 1..n : it[1..k] = step(it[1..(k - 1)], k)
  <2>1. it[{}] = m
    BY <1>9
  <2>2. ASSUME NEW k \in 1..n PROVE it[1..k] = step(it[1..(k - 1)], k)
    <3>1. /\ 1..k \in SUBSET (DOMAIN ts) /\ 1..k # {} /\ Max(1..k) = k
          /\ (1..k) \ {k} = 1..(k - 1)
      BY <1>1, Initial
    <3>2. it[1..k] = F(it)[1..k]
      BY <1>9
    <3>3. F(it)[1..k] = step(it[(1..k) \ {Max(1..k)}], Max(1..k))
      BY <3>1
    <3> QED BY <3>1, <3>2, <3>3
  <2> QED BY <2>1, <2>2
<1>11. Climbs(it, n, S, m, h)
  BY <1>10 DEF Climbs
<1>12. PICK v \in [0..n -> S] : Runs(v, n, m, h, it[1..n])
  <2> HIDE DEF h
  <2> QED BY <1>1, <1>3, <1>5, <1>11, FoldRuns
<1>13. ASSUME NEW k \in 1..n PROVE v[k - 1] \in S /\ v[k] = step(v[k - 1], k)
  <2>1. k - 1 \in 0..n
    BY <1>1
  <2>2. v[k - 1] \in S /\ v[k] = h[<<k, v[k - 1]>>]
    BY <1>12, <2>1 DEF Runs
  <2> QED BY <2>2
<1> DEFINE P == {k \in 0..n : \A i \in 1..k : Shows(v[k], Canon[ts[i]], c)}
<1>14. \A k \in 0..n : k \in P
  <2>1. 0 \in P
    BY <1>1
  <2>2. ASSUME NEW k \in 1..n, k - 1 \in P PROVE k \in P
    <3>1. \A i \in 1..k : i = k \/ i \in 1..(k - 1)
      BY <1>1
    <3>2. k \in 0..n
      BY <1>1
    <3>3. \A i \in 1..(k - 1) : Shows(v[k - 1], Canon[ts[i]], c)
      BY <2>2
    <3>4. Shows(v[k], Canon[ts[k]], c) /\ \A j, d : Shows(v[k - 1], j, d) => Shows(v[k], j, d)
      BY <1>4, <1>13
    <3> QED BY <3>1, <3>2, <3>3, <3>4
  <2> HIDE DEF P
  <2> QED BY <1>1, <2>1, <2>2, UpTo
<1>15. r = v[n] /\ n \in 0..n
  BY <1>1, <1>2, <1>12 DEF Runs
<1>16. r \in S /\ \A i \in 1..n : Shows(r, Canon[ts[i]], c)
  BY <1>14, <1>15
<1> QED BY <1>1, <1>16 DEF S

----------------------------------------------------------------------------
(* Building the memory of a corpus.                                        *)

(* A document of the corpus: a chunk and the triples extracted from it.    *)
Doc == [chunk : Chunk, triples : Seq(Label)]

(* All documents are read in, before the facts are counted.                *)
AllRead(docs) ==
    FoldLeft(LAMBDA m, d : ReadIn(WithPassage(m, d.chunk), d.chunk, d.triples), EmptyMemory, docs)

(* Every chunk of the documents has a passage, and every triple its fact.  *)
LEMMA AllReadIs ==
    ASSUME NEW docs \in Seq(Doc), NEW r, r = AllRead(docs)
    PROVE  /\ Woven(r)
           /\ \A j \in DOMAIN docs :
                  /\ docs[j].chunk \in DOMAIN r.chunkAt
                  /\ \A i \in DOMAIN docs[j].triples :
                         Shows(r, Canon[docs[j].triples[i]], docs[j].chunk)
<1> DEFINE n == Len(docs)
           m == EmptyMemory
           S == {x \in Memory : Woven(x)}
           step(x, k) == ReadIn(WithPassage(x, docs[k].chunk), docs[k].chunk, docs[k].triples)
           Has1(x, k) == /\ docs[k].chunk \in DOMAIN x.chunkAt
                         /\ \A i \in DOMAIN docs[k].triples :
                                Shows(x, Canon[docs[k].triples[i]], docs[k].chunk)
           h == [z \in (1..n) \X S |-> step(z[2], z[1])]
           F(g) == [s \in SUBSET (DOMAIN docs) |->
                       IF s = {} THEN m ELSE step(g[s \ {Max(s)}], Max(s))]
           it == CHOOSE g : g = F(g)
<1>1. /\ n \in Nat /\ DOMAIN docs = 1..n
      /\ \A k \in 1..n : docs[k].chunk \in Chunk /\ docs[k].triples \in Seq(Label)
  <2>1. n \in Nat /\ DOMAIN docs = 1..n /\ \A k \in 1..n : docs[k] \in Doc
    OBVIOUS
  <2>2. ASSUME NEW d \in Doc PROVE d.chunk \in Chunk /\ d.triples \in Seq(Label)
    BY DEF Doc
  <2> HIDE DEF n
  <2> QED BY <2>1, <2>2
<1>2. r = it[DOMAIN docs]
  BY DEF AllRead, FoldLeft, MapThenFoldSet
<1>3. m \in S
  BY EmptySound DEF Sound, Woven
<1>4. ASSUME NEW x \in S, NEW k \in 1..n
      PROVE  /\ step(x, k) \in S /\ Has1(step(x, k), k)
             /\ DOMAIN x.chunkAt \subseteq DOMAIN step(x, k).chunkAt
             /\ \A j, d : Shows(x, j, d) => Shows(step(x, k), j, d)
  <2> DEFINE c == docs[k].chunk
             ts == docs[k].triples
             y == WithPassage(x, c)
             z == ReadIn(y, c, ts)
  <2>1. Woven(x) /\ c \in Chunk /\ ts \in Seq(Label)
    BY <1>1
  <2> HIDE DEF c, ts, S
  <2>2. /\ Woven(y) /\ DOMAIN y.chunkAt = DOMAIN x.chunkAt \cup {c}
        /\ \A j, d : Shows(x, j, d) => Shows(y, j, d)
    BY <2>1, WithPassageKeeps
  <2> HIDE DEF y
  <2>3. /\ Woven(z) /\ z.chunkAt = y.chunkAt
        /\ \A j, d : Shows(y, j, d) => Shows(z, j, d)
        /\ \A i \in DOMAIN ts : Shows(z, Canon[ts[i]], c)
    <3>1. c \in DOMAIN y.chunkAt
      BY <2>2
    <3> QED BY <3>1, <2>1, <2>2, ChunkRead
  <2> HIDE DEF z
  <2>4. z \in S
    BY <2>3 DEF Woven, S
  <2>5. step(x, k) = z
    BY DEF z, y, c, ts
  <2>6. Has1(z, k)
    BY <2>2, <2>3 DEF c, ts
  <2> HIDE DEF step, Has1
  <2> QED BY <2>2, <2>3, <2>4, <2>5, <2>6
<1> HIDE DEF S, step, n
<1>5. h \in [(1..n) \X S -> S]
  BY <1>4
<1>6. PICK g \in [SUBSET (1..n) -> S] : Folds(g, n, m, h)
  <2> HIDE DEF h
  <2> QED BY <1>1, <1>3, <1>5, FoldExists
<1>7. ASSUME NEW s \in SUBSET (1..n), s # {}
      PROVE  <<Max(s), g[s \ {Max(s)}]>> \in (1..n) \X S
  BY <1>1, <1>7, MaxIn
<1>8. g = F(g)
  <2>1. \A s \in SUBSET (1..n) : g[s] = F(g)[s]
    BY <1>1, <1>6, <1>7 DEF Folds
  <2> QED BY <1>1, <2>1
<1>9. it = F(it)
  <2> HIDE DEF F
  <2> QED BY <1>8
<1> HIDE DEF it
<1>10. it[{}] = m /\ \A k \in 1..n : it[1..k] = step(it[1..(k - 1)], k)
  <2>1. it[{}] = m
    BY <1>9
  <2>2. ASSUME NEW k \in 1..n PROVE it[1..k] = step(it[1..(k - 1)], k)
    <3>1. /\ 1..k \in SUBSET (DOMAIN docs) /\ 1..k # {} /\ Max(1..k) = k
          /\ (1..k) \ {k} = 1..(k - 1)
      BY <1>1, Initial
    <3>2. it[1..k] = F(it)[1..k]
      BY <1>9
    <3>3. F(it)[1..k] = step(it[(1..k) \ {Max(1..k)}], Max(1..k))
      BY <3>1
    <3> QED BY <3>1, <3>2, <3>3
  <2> QED BY <2>1, <2>2
<1>11. Climbs(it, n, S, m, h)
  BY <1>10 DEF Climbs
<1>12. PICK v \in [0..n -> S] : Runs(v, n, m, h, it[1..n])
  <2> HIDE DEF h
  <2> QED BY <1>1, <1>3, <1>5, <1>11, FoldRuns
<1>13. ASSUME NEW k \in 1..n PROVE v[k - 1] \in S /\ v[k] = step(v[k - 1], k)
  <2>1. k - 1 \in 0..n
    BY <1>1
  <2>2. v[k - 1] \in S /\ v[k] = h[<<k, v[k - 1]>>]
    BY <1>12, <2>1 DEF Runs
  <2> QED BY <2>2
<1> DEFINE P == {k \in 0..n : \A j \in 1..k : Has1(v[k], j)}
<1>14. \A k \in 0..n : k \in P
  <2>1. 0 \in P
    BY <1>1
  <2>2. ASSUME NEW k \in 1..n, k - 1 \in P PROVE k \in P
    <3>1. \A j \in 1..k : j = k \/ j \in 1..(k - 1)
      BY <1>1
    <3>2. k \in 0..n
      BY <1>1
    <3>3. \A j \in 1..(k - 1) : Has1(v[k - 1], j)
      BY <2>2
    <3>4. /\ Has1(v[k], k) /\ DOMAIN v[k - 1].chunkAt \subseteq DOMAIN v[k].chunkAt
          /\ \A j, d : Shows(v[k - 1], j, d) => Shows(v[k], j, d)
      BY <1>4, <1>13
    <3>5. \A j \in 1..(k - 1) : Has1(v[k], j)
      BY <3>3, <3>4
    <3> HIDE DEF Has1
    <3> QED BY <3>1, <3>2, <3>4, <3>5
  <2> HIDE DEF P
  <2> QED BY <1>1, <2>1, <2>2, UpTo
<1>15. r = v[n] /\ n \in 0..n
  BY <1>1, <1>2, <1>12 DEF Runs
<1>16. r \in S /\ \A j \in 1..n : Has1(r, j)
  BY <1>14, <1>15
<1> QED BY <1>1, <1>16 DEF S

(* The counts taken at the end make it sound.                              *)
LEMMA BuiltIs ==
    ASSUME NEW docs \in Seq(Doc), NEW r, r = Built(docs)
    PROVE  /\ Sound(r)
           /\ \A j \in DOMAIN docs :
                  /\ docs[j].chunk \in DOMAIN r.chunkAt
                  /\ \A i \in DOMAIN docs[j].triples :
                         Shows(r, Canon[docs[j].triples[i]], docs[j].chunk)
<1> DEFINE all == AllRead(docs)
           F == [f \in DOMAIN all.facts |->
                    [all.facts[f] EXCEPT !.frequency = Cardinality(all.facts[f].passages)]]
<1>1. r = [all EXCEPT !.facts = F]
  BY DEF Built, AllRead, ReadIn
<1>2. /\ Woven(all)
      /\ \A j \in DOMAIN docs :
             /\ docs[j].chunk \in DOMAIN all.chunkAt
             /\ \A i \in DOMAIN docs[j].triples :
                    Shows(all, Canon[docs[j].triples[i]], docs[j].chunk)
  <2> HIDE DEF all
  <2> QED BY AllReadIs DEF all
<1> HIDE DEF all
<1>3. all \in Memory
  BY <1>2 DEF Woven
<1>4. /\ DOMAIN all.facts = 1..Len(all.facts) /\ Len(all.facts) \in Nat
      /\ Len(all.passages) \in Nat /\ DOMAIN all.passages = 1..Len(all.passages)
      /\ \A f \in DOMAIN all.facts : all.facts[f] \in FactNode
  BY <1>3, Parts
<1>5. ASSUME NEW f \in DOMAIN all.facts
      PROVE  /\ F[f] \in FactNode /\ F[f].idx = all.facts[f].idx
             /\ F[f].content = all.facts[f].content /\ F[f].schema = all.facts[f].schema
             /\ F[f].passages = all.facts[f].passages
             /\ F[f].frequency = Cardinality(all.facts[f].passages)
  <2>1. F[f] = [all.facts[f] EXCEPT !.frequency = Cardinality(all.facts[f].passages)]
    OBVIOUS
  <2>2. all.facts[f].passages \subseteq 1..Len(all.passages)
    BY <1>2, <1>4 DEF Woven, LinksMutual
  <2>3. Cardinality(all.facts[f].passages) \in Nat
    BY <1>4, <2>2, PlacesFinite
  <2> HIDE DEF F
  <2> QED BY <1>4, <2>1, <2>3 DEF FactNode
<1>6. F = [f \in 1..Len(all.facts) |-> F[f]] /\ DOMAIN F = DOMAIN all.facts
  BY <1>4
<1> HIDE DEF F
<1>7. F \in Seq(FactNode)
  BY <1>4, <1>5, <1>6, ListIs
<1>8. /\ r \in Memory /\ r.facts = F /\ r.factAt = all.factAt /\ r.passages = all.passages
      /\ r.schemas = all.schemas /\ r.schemaAt = all.schemaAt /\ r.chunkAt = all.chunkAt
  BY <1>1, <1>3, <1>7 DEF Memory
<1>9. PlacesRight(r)
  BY <1>2, <1>5, <1>6, <1>8 DEF Woven, PlacesRight
<1>a. /\ DOMAIN r.facts = DOMAIN all.facts
      /\ \A f \in DOMAIN all.facts : /\ r.facts[f].schema = all.facts[f].schema
                                     /\ r.facts[f].passages = all.facts[f].passages
                                     /\ r.facts[f].content = all.facts[f].content
  BY <1>5, <1>6, <1>8
<1>10. LinksMutual(r)
  <2>1. LinksMutual(all)
    BY <1>2 DEF Woven
  <2>2. ASSUME NEW i \in DOMAIN r.schemas
        PROVE  r.schemas[i].facts = {f \in DOMAIN r.facts : r.facts[f].schema = i}
    <3>1. all.schemas[i].facts = {f \in DOMAIN all.facts : all.facts[f].schema = i}
      BY <2>1, <1>8 DEF LinksMutual
    <3> QED BY <3>1, <1>8, <1>a
  <2>3. ASSUME NEW f \in DOMAIN all.facts
        PROVE  /\ r.facts[f].schema \in DOMAIN r.schemas \cup {NoSchema}
               /\ r.facts[f].passages = {p \in DOMAIN r.passages : f \in r.passages[p].facts}
    BY <2>1, <1>8, <1>a DEF LinksMutual
  <2>4. \A p \in DOMAIN r.passages : r.passages[p].facts \subseteq DOMAIN r.facts
    BY <2>1, <1>8, <1>a DEF LinksMutual
  <2> QED BY <2>2, <2>3, <2>4, <1>a DEF LinksMutual
<1>11. SchemasCounted(r) /\ Finds(r.schemaAt, r.schemas) /\ FindsChunks(r)
  BY <1>2, <1>8 DEF Woven, SchemasCounted, FindsChunks
<1>12. Finds(r.factAt, r.facts)
  <2>1. {Canon[r.facts[i].content] : i \in DOMAIN r.facts}
            = {Canon[all.facts[i].content] : i \in DOMAIN all.facts}
    BY <1>a
  <2>2. Finds(all.factAt, all.facts)
    BY <1>2 DEF Woven
  <2> QED BY <2>1, <2>2, <1>8, <1>a DEF Finds
<1>13. FactsCounted(r)
  BY <1>5, <1>6, <1>8, SMTT(40) DEF FactsCounted
<1>14. ASSUME NEW k, NEW c, Shows(all, k, c) PROVE Shows(r, k, c)
  BY <1>5, <1>6, <1>8, <1>14 DEF Shows
<1> QED BY <1>2, <1>8, <1>9, <1>10, <1>11, <1>12, <1>13, <1>14 DEF Sound, Woven

----------------------------------------------------------------------------
(* The documents of a corpus, and its conflicts resolved.                  *)

(* The documents of a corpus have its chunks, with their triples.          *)
LEMMA DocsAre ==
    ASSUME NEW C \in SUBSET Chunk
    PROVE  /\ OpenIEDocs(C) \in Seq(Doc)
           /\ \A c \in C : \E j \in DOMAIN OpenIEDocs(C) :
                  OpenIEDocs(C)[j].chunk = c /\ OpenIEDocs(C)[j].triples = TriplesOf[c]
<1> DEFINE places == {i \in DOMAIN ChunkOrder : ChunkOrder[i] \in C}
           here == Taken(ChunkOrder, places)
           D == [i \in DOMAIN here |-> [chunk |-> here[i], triples |-> TriplesOf[here[i]]]]
<1>1. OpenIEDocs(C) = D
  BY DEF OpenIEDocs
<1>2. /\ here \in Seq(Chunk)
      /\ Range(here) = {ChunkOrder[i] : i \in places}
  <2>1. ChunkOrder \in Seq(Chunk) /\ places \in SUBSET (DOMAIN ChunkOrder)
    BY RebuildAssumption
  <2> HIDE DEF places
  <2> QED BY <2>1, TakenIs
<1>3. \A c \in C : c \in Range(here)
  <2> HIDE DEF here
  <2> QED BY <1>2 DEF Chunk, Range
<1> HIDE DEF here
<1>4. /\ Len(here) \in Nat /\ DOMAIN here = 1..Len(here)
      /\ \A i \in DOMAIN here : here[i] \in Chunk
  BY <1>2
<1>5. \A c \in Chunk : TriplesOf[c] \in Seq(Label)
  <2>1. Triple \in SUBSET Label
    BY DEF Triple
  <2>2. \A c \in Chunk : TriplesOf[c] \in Seq(Triple)
    BY RebuildAssumption
  <2> HIDE DEF Chunk
  <2> QED BY <2>1, <2>2
<1>6. D \in Seq(Doc)
  <2>1. \A i \in 1..Len(here) : D[i] \in Doc
    BY <1>4, <1>5 DEF Doc
  <2>2. D = [i \in 1..Len(here) |-> D[i]]
    BY <1>4
  <2> HIDE DEF D
  <2> QED BY <2>1, <2>2, <1>4, ListIs
<1>7. ASSUME NEW c \in C
      PROVE  \E j \in DOMAIN D : D[j].chunk = c /\ D[j].triples = TriplesOf[c]
  <2>1. PICK j \in DOMAIN here : here[j] = c
    BY <1>3 DEF Range
  <2> QED BY <2>1
<1> QED BY <1>1, <1>6, <1>7

----------------------------------------------------------------------------
(* Resolutions.                                                            *)

(* No resolution modifies or discards the fact with key k.                 *)
Spared(items, k) ==
    \A i \in DOMAIN items : items[i].action # "kept" => Canon[items[i].original] # k

(* What resolutions leave of memory m.                                     *)
Kept(m, r, items) ==
    /\ Sound(r) /\ r.chunkAt = m.chunkAt
    /\ \A k, c : Spared(items, k) /\ Shows(m, k, c) => Shows(r, k, c)
    /\ (\A i \in DOMAIN items : items[i].action # "discarded") =>
           \A k, c : Shows(m, k, c) => \E j : Shows(r, j, c)
    /\ (\A i \in DOMAIN items : items[i].action = "kept") => r = m

(* One modification keeps what the resolutions may.                        *)
LEMMA ModifiedKeeps ==
    ASSUME NEW items \in Seq(Item), NEW m, NEW x, Kept(m, x, items), NEW i \in DOMAIN items
    PROVE  Kept(m, ApplyModified(x, items[i]), items)
<1> DEFINE item == items[i]
           k0 == Canon[item.original]
           f == x.factAt[k0]
           y == ReplaceFact(x, f, item.resolved)
<1>1. item \in Item /\ item.resolved \in Label
  <2>1. item \in Item
    OBVIOUS
  <2> HIDE DEF item
  <2> QED BY <2>1 DEF Item, Triple
<1>2. CASE ~(item.action = "modified" /\ Has(x, item.original))
  BY <1>2 DEF ApplyModified
<1>3. CASE item.action = "modified" /\ Has(x, item.original)
  <2>1. ApplyModified(x, item) = y
    BY <1>3 DEF ApplyModified
  <2>2. f \in DOMAIN x.facts /\ Canon[x.facts[f].content] = k0
    BY <1>3 DEF Has, Kept, Sound, Woven, Finds
  <2>3. Handed(x, f, y)
    <3> HIDE DEF f, item
    <3> QED BY <1>1, <2>2, ReplaceFactKeeps DEF Kept
  <2> HIDE DEF y, f
  <2>4. \A k : Spared(items, k) => k # k0
    BY <1>3 DEF Spared
  <2> HIDE DEF k0
  <2>5. \A k, c : Spared(items, k) /\ Shows(m, k, c) => Shows(y, k, c)
    BY <2>2, <2>3, <2>4 DEF Kept, Handed
  <2>6. Kept(m, y, items)
    BY <1>3, <2>3, <2>5 DEF Kept, Handed
  <2> QED BY <2>1, <2>6
<1> QED BY <1>2, <1>3

(* So does one removal.                                                    *)
LEMMA DiscardedKeeps ==
    ASSUME NEW items \in Seq(Item), NEW m, NEW x, Kept(m, x, items), NEW i \in DOMAIN items
    PROVE  Kept(m, ApplyDiscarded(x, items[i]), items)
<1> DEFINE item == items[i]
           k0 == Canon[item.original]
           f == x.factAt[k0]
           y == RemoveFact(x, f)
<1>2. CASE ~(item.action = "discarded" /\ Has(x, item.original))
  BY <1>2 DEF ApplyDiscarded
<1>3. CASE item.action = "discarded" /\ Has(x, item.original)
  <2>1. ApplyDiscarded(x, item) = y
    BY <1>3 DEF ApplyDiscarded
  <2>2. f \in DOMAIN x.facts /\ Canon[x.facts[f].content] = k0 /\ Woven(x)
    BY <1>3 DEF Has, Kept, Sound, Woven, Finds
  <2>3. /\ Sound(y) /\ y.chunkAt = x.chunkAt
        /\ \A k, c : k # Canon[x.facts[f].content] /\ Shows(x, k, c) => Shows(y, k, c)
    <3>1. Without(x, f, y)
      <4> HIDE DEF f
      <4> QED BY <2>2, RemoveFactIs
    <3> HIDE DEF f, y
    <3> QED BY <2>2, <3>1, WithoutSound
  <2> HIDE DEF y, f
  <2>4. \A k : Spared(items, k) => k # k0
    BY <1>3 DEF Spared
  <2> HIDE DEF k0
  <2>5. \A k, c : Spared(items, k) /\ Shows(m, k, c) => Shows(y, k, c)
    BY <2>2, <2>3, <2>4 DEF Kept
  <2>6. Kept(m, y, items)
    BY <1>3, <2>3, <2>5 DEF Kept
  <2> QED BY <2>1, <2>6
<1> QED BY <1>2, <1>3

(* So do all the modifications, in turn.                                   *)
LEMMA AllModifiedKeep ==
    ASSUME NEW items \in Seq(Item), NEW m, NEW a, Kept(m, a, items),
           NEW r, r = FoldLeft(ApplyModified, a, items)
    PROVE  Kept(m, r, items)
<1> DEFINE n == Len(items)
           S == {x \in Memory : Kept(m, x, items)}
           step(x, k) == ApplyModified(x, items[k])
           h == [z \in (1..n) \X S |-> step(z[2], z[1])]
           F(g) == [s \in SUBSET (DOMAIN items) |->
                       IF s = {} THEN a ELSE step(g[s \ {Max(s)}], Max(s))]
           it == CHOOSE g : g = F(g)
<1>1. n \in Nat /\ DOMAIN items = 1..n
  OBVIOUS
<1>2. r = it[DOMAIN items]
  BY DEF FoldLeft, MapThenFoldSet
<1>3. a \in S
  BY DEF Kept, Sound, Woven
<1>4. ASSUME NEW x \in S, NEW k \in 1..n PROVE step(x, k) \in S
  <2> DEFINE y == ApplyModified(x, items[k])
  <2>1. Kept(m, y, items)
    BY <1>1, ModifiedKeeps
  <2>2. y \in S
    <3> HIDE DEF y
    <3> QED BY <2>1 DEF Kept, Sound, Woven
  <2> QED BY <2>2
<1> HIDE DEF S, step, n
<1>5. h \in [(1..n) \X S -> S]
  BY <1>4
<1>6. PICK g \in [SUBSET (1..n) -> S] : Folds(g, n, a, h)
  <2> HIDE DEF h
  <2> QED BY <1>1, <1>3, <1>5, FoldExists
<1>7. ASSUME NEW s \in SUBSET (1..n), s # {}
      PROVE  <<Max(s), g[s \ {Max(s)}]>> \in (1..n) \X S
  BY <1>1, <1>7, MaxIn
<1>8. g = F(g)
  <2>1. \A s \in SUBSET (1..n) : g[s] = F(g)[s]
    BY <1>1, <1>6, <1>7 DEF Folds
  <2> QED BY <1>1, <2>1
<1>9. it = F(it)
  <2> HIDE DEF F
  <2> QED BY <1>8
<1> HIDE DEF it
<1>10. it[{}] = a /\ \A k \in 1..n : it[1..k] = step(it[1..(k - 1)], k)
  <2>1. it[{}] = a
    BY <1>9
  <2>2. ASSUME NEW k \in 1..n PROVE it[1..k] = step(it[1..(k - 1)], k)
    <3>1. /\ 1..k \in SUBSET (DOMAIN items) /\ 1..k # {} /\ Max(1..k) = k
          /\ (1..k) \ {k} = 1..(k - 1)
      BY <1>1, Initial
    <3>2. it[1..k] = F(it)[1..k]
      BY <1>9
    <3>3. F(it)[1..k] = step(it[(1..k) \ {Max(1..k)}], Max(1..k))
      BY <3>1
    <3> QED BY <3>1, <3>2, <3>3
  <2> QED BY <2>1, <2>2
<1>11. Climbs(it, n, S, a, h)
  BY <1>10 DEF Climbs
<1>12. it[1..n] \in S
  <2> HIDE DEF h
  <2> QED BY <1>1, <1>3, <1>5, <1>11, FoldStays
<1> QED BY <1>1, <1>2, <1>12 DEF S

(* So do all the removals, in turn.                                        *)
LEMMA AllDiscardedKeep ==
    ASSUME NEW items \in Seq(Item), NEW m, NEW a, Kept(m, a, items),
           NEW r, r = FoldLeft(ApplyDiscarded, a, items)
    PROVE  Kept(m, r, items)
<1> DEFINE n == Len(items)
           S == {x \in Memory : Kept(m, x, items)}
           step(x, k) == ApplyDiscarded(x, items[k])
           h == [z \in (1..n) \X S |-> step(z[2], z[1])]
           F(g) == [s \in SUBSET (DOMAIN items) |->
                       IF s = {} THEN a ELSE step(g[s \ {Max(s)}], Max(s))]
           it == CHOOSE g : g = F(g)
<1>1. n \in Nat /\ DOMAIN items = 1..n
  OBVIOUS
<1>2. r = it[DOMAIN items]
  BY DEF FoldLeft, MapThenFoldSet
<1>3. a \in S
  BY DEF Kept, Sound, Woven
<1>4. ASSUME NEW x \in S, NEW k \in 1..n PROVE step(x, k) \in S
  <2> DEFINE y == ApplyDiscarded(x, items[k])
  <2>1. Kept(m, y, items)
    BY <1>1, DiscardedKeeps
  <2>2. y \in S
    <3> HIDE DEF y
    <3> QED BY <2>1 DEF Kept, Sound, Woven
  <2> QED BY <2>2
<1> HIDE DEF S, step, n
<1>5. h \in [(1..n) \X S -> S]
  BY <1>4
<1>6. PICK g \in [SUBSET (1..n) -> S] : Folds(g, n, a, h)
  <2> HIDE DEF h
  <2> QED BY <1>1, <1>3, <1>5, FoldExists
<1>7. ASSUME NEW s \in SUBSET (1..n), s # {}
      PROVE  <<Max(s), g[s \ {Max(s)}]>> \in (1..n) \X S
  BY <1>1, <1>7, MaxIn
<1>8. g = F(g)
  <2>1. \A s \in SUBSET (1..n) : g[s] = F(g)[s]
    BY <1>1, <1>6, <1>7 DEF Folds
  <2> QED BY <1>1, <2>1
<1>9. it = F(it)
  <2> HIDE DEF F
  <2> QED BY <1>8
<1> HIDE DEF it
<1>10. it[{}] = a /\ \A k \in 1..n : it[1..k] = step(it[1..(k - 1)], k)
  <2>1. it[{}] = a
    BY <1>9
  <2>2. ASSUME NEW k \in 1..n PROVE it[1..k] = step(it[1..(k - 1)], k)
    <3>1. /\ 1..k \in SUBSET (DOMAIN items) /\ 1..k # {} /\ Max(1..k) = k
          /\ (1..k) \ {k} = 1..(k - 1)
      BY <1>1, Initial
    <3>2. it[1..k] = F(it)[1..k]
      BY <1>9
    <3>3. F(it)[1..k] = step(it[(1..k) \ {Max(1..k)}], Max(1..k))
      BY <3>1
    <3> QED BY <3>1, <3>2, <3>3
  <2> QED BY <2>1, <2>2
<1>11. Climbs(it, n, S, a, h)
  BY <1>10 DEF Climbs
<1>12. it[1..n] \in S
  <2> HIDE DEF h
  <2> QED BY <1>1, <1>3, <1>5, <1>11, FoldStays
<1> QED BY <1>1, <1>2, <1>12 DEF S

(* So do all the resolutions of a rebuild (resolve_conflicts).             *)
LEMMA ResolvedKeeps ==
    ASSUME NEW items \in Seq(Item), NEW m, Sound(m)
    PROVE  Kept(m, Resolved(m, items), items)
<1> DEFINE a == FoldLeft(ApplyModified, m, items)
<1>1. Kept(m, m, items)
  BY DEF Kept
<1>2. Kept(m, a, items)
  BY <1>1, AllModifiedKeep
<1>3. Resolved(m, items) = FoldLeft(ApplyDiscarded, a, items)
  BY DEF Resolved
<1> HIDE DEF a
<1> QED BY <1>2, <1>3, AllDiscardedKeep

----------------------------------------------------------------------------
(* The invariant of the rebuild.                                           *)

(* What the rebuild has at every stage of it.                              *)
Before == {"cached", "schema", "filter", "conflicts", "resolve"}

(* The layers are sound between any two stages.                            *)
LayersWoven == Sound(memory) /\ TypesKept

(* Every triple of the corpus has its chunk for evidence until a           *)
(* resolution touches its key.                                             *)
EvidenceWhole ==
    phase # "idle" =>
        \A c \in corpus :
            /\ c \in DOMAIN memory.chunkAt
            /\ \A i \in DOMAIN TriplesOf[c] :
                   (\A a \in Actions : <<Canon[TriplesOf[c][i]], a>> \notin touched) =>
                       Shows(memory, Canon[TriplesOf[c][i]], c)
            /\ (TriplesOf[c] # <<>> /\ \A k \in CanonKey : <<k, "discarded">> \notin touched) =>
                   \E k : Shows(memory, k, c)

(* Until a resolution moves the facts, the filtered places are those of    *)
(* the keys silenced.                                                      *)
FilterKnown ==
    phase \in {"conflicts", "resolve", "install"} /\ touched = {} =>
        /\ inactive \subseteq DOMAIN memory.facts
        /\ silenced = {Canon[memory.facts[f].content] : f \in inactive}

(* Only the last stage touches facts; everything above holds at every      *)
(* stage.                                                                  *)
RebuildInv ==
    /\ phase \in Before \cup {"idle", "install"}
    /\ corpus \in SUBSET Chunk
    /\ phase # "install" => touched = {}
    /\ LayersWoven /\ EvidenceWhole /\ FilterKnown

----------------------------------------------------------------------------
(* What the invariant says.                                                *)

(* The invariant gives the consistency of the layers.                      *)
LEMMA InvIsConsistent == RebuildInv => LayersConsistent
BY SoundIsConsistent, SnapshotIsWhole DEF RebuildInv, LayersWoven, LayersConsistent

(* Evidence can be followed from the dictionaries, both ways.              *)
LEMMA ShownIsFound ==
    ASSUME NEW m, Woven(m), NEW k, NEW c, Shows(m, k, c)
    PROVE  /\ k \in DOMAIN m.factAt /\ c \in DOMAIN m.chunkAt
           /\ m.chunkAt[c] \in m.facts[m.factAt[k]].passages
           /\ m.passages[m.chunkAt[c]].facts # {}
<1>1. PICK f \in DOMAIN m.facts : /\ Canon[m.facts[f].content] = k
                                  /\ \E p \in m.facts[f].passages : m.passages[p].chunk = c
  BY DEF Shows
<1>2. PICK p \in m.facts[f].passages : m.passages[p].chunk = c
  BY <1>1
<1>3. p \in DOMAIN m.passages /\ f \in m.passages[p].facts
  BY <1>2 DEF Woven, LinksMutual
<1>4. k \in DOMAIN m.factAt /\ m.factAt[k] = f
  BY <1>1 DEF Woven, Finds
<1>5. c \in DOMAIN m.chunkAt /\ m.chunkAt[c] = p
  BY <1>2, <1>3 DEF Woven, FindsChunks
<1> QED BY <1>2, <1>3, <1>4, <1>5

(* The invariant gives the evidence.                                       *)
LEMMA InvIsEvidence == RebuildInv => EvidenceKept
<1> SUFFICES ASSUME RebuildInv, phase # "idle", NEW c \in corpus
             PROVE  /\ c \in DOMAIN memory.chunkAt
                    /\ \A i \in DOMAIN TriplesOf[c] :
                           (\A a \in Actions : <<Canon[TriplesOf[c][i]], a>> \notin touched) =>
                               /\ Has(memory, TriplesOf[c][i])
                               /\ memory.chunkAt[c] \in
                                     memory.facts[memory.factAt[Canon[TriplesOf[c][i]]]].passages
                    /\ (TriplesOf[c] # <<>> /\ \A k \in CanonKey : <<k, "discarded">> \notin touched) =>
                           memory.passages[memory.chunkAt[c]].facts # {}
  BY DEF EvidenceKept
<1>1. Woven(memory)
  BY DEF RebuildInv, LayersWoven, Sound
<1>2. /\ c \in DOMAIN memory.chunkAt
      /\ \A i \in DOMAIN TriplesOf[c] :
             (\A a \in Actions : <<Canon[TriplesOf[c][i]], a>> \notin touched) =>
                 Shows(memory, Canon[TriplesOf[c][i]], c)
      /\ (TriplesOf[c] # <<>> /\ \A k \in CanonKey : <<k, "discarded">> \notin touched) =>
             \E k : Shows(memory, k, c)
  BY DEF RebuildInv, EvidenceWhole
<1> QED BY <1>1, <1>2, ShownIsFound DEF Has

(* The invariant gives the filter.                                         *)
LEMMA InvIsFiltered == RebuildInv => IndexedAsFiltered
<1> SUFFICES ASSUME RebuildInv, phase = "install", touched = {}
             PROVE  Indexed(memory) = DOMAIN memory.factAt \ silenced
  BY DEF IndexedAsFiltered
<1>1. /\ Woven(memory) /\ inactive \subseteq DOMAIN memory.facts
      /\ silenced = {Canon[memory.facts[f].content] : f \in inactive}
  BY DEF RebuildInv, LayersWoven, Sound, FilterKnown
<1>2. /\ \A f \in DOMAIN memory.facts : memory.facts[f].idx = f
      /\ DOMAIN memory.factAt = {Canon[memory.facts[f].content] : f \in DOMAIN memory.facts}
      /\ \A f \in DOMAIN memory.facts : memory.factAt[Canon[memory.facts[f].content]] = f
  BY <1>1 DEF Woven, PlacesRight, Finds
<1>3. ActiveFacts(memory) = DOMAIN memory.facts \ inactive
  BY <1>2 DEF ActiveFacts
<1>4. Indexed(memory) = {Canon[memory.facts[f].content] : f \in DOMAIN memory.facts \ inactive}
  BY <1>3 DEF Indexed
<1> QED BY <1>1, <1>2, <1>4

----------------------------------------------------------------------------

(* The initial state.                                                      *)
LEMMA RebuildInitInv == RebuildInit => RebuildInv
<1> SUFFICES ASSUME RebuildInit PROVE RebuildInv
  OBVIOUS
<1>1. Sound(memory)
  BY EmptySound DEF RebuildInit
<1>2. TypesKept
  <2>1. IsFiniteSet({})
    BY FS_EmptySet
  <2>2. NoEntries \in [{} -> Label] /\ DOMAIN NoEntries = {} /\ {} \in SUBSET Label
    BY DEF NoEntries
  <2>3. NoEntries \in {d \in UNION {[D -> Label] : D \in SUBSET Label} : IsFiniteSet(DOMAIN d)}
    BY <2>1, <2>2
  <2>4. typed = [c \in Chunk |-> NoEntries]
    BY DEF RebuildInit, Untyped
  <2> QED BY <2>3, <2>4 DEF TypesKept
<1> QED BY <1>1, <1>2 DEF RebuildInit, RebuildInv, LayersWoven, EvidenceWhole, FilterKnown, Before

----------------------------------------------------------------------------
(* Every step of the rebuild keeps it.                                     *)

(* A stage that takes no evidence away.                                    *)
LEMMA EvidenceCarried ==
    ASSUME RebuildInv, phase # "idle", corpus' = corpus, touched' = touched,
           memory'.chunkAt = memory.chunkAt,
           \A k, c : Shows(memory, k, c) => Shows(memory', k, c)
    PROVE  EvidenceWhole'
<1> SUFFICES ASSUME NEW c \in corpus
             PROVE  /\ c \in DOMAIN memory'.chunkAt
                    /\ \A i \in DOMAIN TriplesOf[c] :
                           (\A a \in Actions : <<Canon[TriplesOf[c][i]], a>> \notin touched) =>
                               Shows(memory', Canon[TriplesOf[c][i]], c)
                    /\ (TriplesOf[c] # <<>> /\ \A k \in CanonKey : <<k, "discarded">> \notin touched) =>
                           \E k : Shows(memory', k, c)
  BY DEF EvidenceWhole
<1> QED BY DEF RebuildInv, EvidenceWhole

(* A stage that changes schemas alone.                                     *)
LEMMA LinkedInv ==
    ASSUME RebuildInv, phase \in Before, phase' \in Before \ {"conflicts", "resolve"},
           UNCHANGED <<corpus, typed, touched>>, Sound(memory'), OnlySchemas(memory, memory')
    PROVE  RebuildInv'
<1>1. memory'.chunkAt = memory.chunkAt /\ \A k, c : Shows(memory, k, c) => Shows(memory', k, c)
  BY SchemasShowNothing DEF OnlySchemas
<1>2. EvidenceWhole'
  BY <1>1, EvidenceCarried DEF Before
<1>3. TypesKept'
  BY DEF RebuildInv, LayersWoven, TypesKept
<1> QED BY <1>2, <1>3 DEF RebuildInv, LayersWoven, FilterKnown, Before

(* A build starts over from the triples kept.                              *)
LEMMA BuildInv == ASSUME RebuildInv, NEW C \in SUBSET Chunk, Build(C) PROVE RebuildInv'
<1>1. /\ corpus' = C /\ phase' = "cached" /\ touched' = touched /\ touched = {}
      /\ typed' = [c \in Chunk |-> IF c \in C THEN typed[c] ELSE NoEntries]
      /\ memory' = Built(OpenIEDocs(C))
  BY DEF Build, RebuildInv
<1>2. /\ OpenIEDocs(C) \in Seq(Doc)
      /\ \A c \in C : \E j \in DOMAIN OpenIEDocs(C) :
             OpenIEDocs(C)[j].chunk = c /\ OpenIEDocs(C)[j].triples = TriplesOf[c]
  BY DocsAre
<1>3. PICK docs : docs = OpenIEDocs(C)
  OBVIOUS
<1>4. /\ Sound(memory')
      /\ \A j \in DOMAIN docs :
             /\ docs[j].chunk \in DOMAIN memory'.chunkAt
             /\ \A i \in DOMAIN docs[j].triples :
                    Shows(memory', Canon[docs[j].triples[i]], docs[j].chunk)
  BY <1>1, <1>2, <1>3, BuiltIs
<1>5. ASSUME NEW c \in C
      PROVE  /\ c \in DOMAIN memory'.chunkAt
             /\ \A i \in DOMAIN TriplesOf[c] : Shows(memory', Canon[TriplesOf[c][i]], c)
  BY <1>2, <1>3, <1>4
<1>6. \A c \in C : TriplesOf[c] # <<>> => \E k : Shows(memory', k, c)
  <2> SUFFICES ASSUME NEW c \in C, TriplesOf[c] # <<>> PROVE \E k : Shows(memory', k, c)
    OBVIOUS
  <2>1. TriplesOf[c] \in Seq(Triple)
    BY RebuildAssumption
  <2>2. 1 \in DOMAIN TriplesOf[c]
    BY <2>1
  <2> QED BY <1>5, <2>2
<1>7. EvidenceWhole'
  BY <1>1, <1>5, <1>6 DEF EvidenceWhole
<1>8. TypesKept'
  <2>1. IsFiniteSet({})
    BY FS_EmptySet
  <2>2. NoEntries \in [{} -> Label] /\ DOMAIN NoEntries = {} /\ {} \in SUBSET Label
    BY DEF NoEntries
  <2> DEFINE T == {d \in UNION {[D -> Label] : D \in SUBSET Label} : IsFiniteSet(DOMAIN d)}
  <2>3. NoEntries \in T
    BY <2>1, <2>2
  <2>4. typed \in [Chunk -> T]
    BY DEF RebuildInv, LayersWoven, TypesKept
  <2> HIDE DEF T
  <2>5. typed' \in [Chunk -> T]
    BY <1>1, <2>3, <2>4
  <2> QED BY <2>5 DEF TypesKept, T
<1> QED BY <1>1, <1>4, <1>7, <1>8 DEF RebuildInv, LayersWoven, FilterKnown, Before

(* The cached schemas are applied, and the rest is asked for.              *)
LEMMA ExtractSchemaInv == ASSUME RebuildInv, ExtractSchema PROVE RebuildInv'
<1>1. Sound(memory) /\ TypesKept
  BY DEF RebuildInv, LayersWoven
<1>2. memory' = ApplyCachedOntology(memory) /\ phase = "cached" /\ phase' \in {"filter", "schema"}
      /\ UNCHANGED <<corpus, typed, touched>>
  BY DEF ExtractSchema
<1>3. Sound(memory') /\ OnlySchemas(memory, memory')
  BY <1>1, <1>2, ApplyCachedOntologyKeeps
<1> QED BY <1>2, <1>3, LinkedInv DEF Before

(* The answers of a batch link its facts, in whatever order they come.     *)
LEMMA SchemaAnswerInv ==
    ASSUME RebuildInv, NEW b \in DOMAIN batches, SchemaAnswer(b) PROVE RebuildInv'
<1>1. Sound(memory)
  BY DEF RebuildInv, LayersWoven
<1>2. phase = "schema" /\ phase' = phase /\ UNCHANGED <<corpus, typed, touched>>
  BY DEF SchemaAnswer
<1>3. PICK pairs \in Answers : memory' = LinkPairs(memory, pairs)
  BY DEF SchemaAnswer
<1>4. pairs \in Seq(Label \X Label)
  <2>1. PICK n \in 1..MaxPairs : pairs \in [1..n -> Triple \X Ontology]
    BY <1>3 DEF Answers
  <2>2. Triple \X Ontology \subseteq Label \X Label
    BY RebuildAssumption DEF Triple
  <2>3. n \in Nat
    BY <2>1, RebuildAssumption
  <2>4. pairs \in [1..n -> Label \X Label]
    BY <2>1, <2>2
  <2> QED BY <2>3, <2>4
<1>5. Sound(memory') /\ OnlySchemas(memory, memory')
  BY <1>1, <1>3, <1>4, LinkPairsKeeps
<1> QED BY <1>2, <1>5, LinkedInv DEF Before

(* A batch may get no answer, and the extraction may fail.                 *)
LEMMA NoAnswerInv ==
    ASSUME RebuildInv, NEW b \in DOMAIN batches, SchemaNoAnswer(b) \/ SchemaFails(b)
    PROVE  RebuildInv'
<1>1. phase = "schema" /\ UNCHANGED <<corpus, typed, memory, phase, touched>>
  BY DEF SchemaNoAnswer, SchemaFails
<1>2. Sound(memory') /\ OnlySchemas(memory, memory')
  BY <1>1, OnlySchemasSame DEF RebuildInv, LayersWoven
<1> QED BY <1>1, <1>2, LinkedInv DEF Before

(* What is kept of a chunk is a spelling and an ontology for each fact.    *)
LEMMA OntologyOfTyped ==
    ASSUME NEW m, Woven(m), NEW c
    PROVE  OntologyOf(m, c) \in {d \in UNION {[D -> Label] : D \in SUBSET Label} :
                                     IsFiniteSet(DOMAIN d)}
<1> DEFINE of == {f \in DOMAIN m.facts : m.facts[f].schema # NoSchema
                                         /\ m.chunkAt[c] \in m.facts[f].passages}
           D == {m.facts[f].content : f \in of}
           d == [t \in D |-> m.schemas[m.facts[m.factAt[Canon[t]]].schema].content]
<1>1. OntologyOf(m, c) = d
  BY DEF OntologyOf
<1>2. m \in Memory
  BY DEF Woven
<1>3. /\ DOMAIN m.facts = 1..Len(m.facts) /\ Len(m.facts) \in Nat
      /\ (\A i \in DOMAIN m.schemas : m.schemas[i] \in SchemaNode)
      /\ \A f \in DOMAIN m.facts : m.facts[f] \in FactNode
  BY <1>2, Parts
<1>4. D \in SUBSET Label
  BY <1>3 DEF FactNode
<1>5. IsFiniteSet(D)
  <2>1. of \subseteq 1..Len(m.facts)
    BY <1>3
  <2>2. IsFiniteSet(of)
    BY <1>3, <2>1, PlacesFinite
  <2> HIDE DEF of
  <2> DEFINE img == [f \in of |-> m.facts[f].content]
  <2>3. img \in Surjection(of, D)
    BY DEF Surjection
  <2> QED BY <2>2, <2>3, FS_Surjection
<1>6. ASSUME NEW t \in D PROVE d[t] \in Label
  <2>1. PICK f \in of : t = m.facts[f].content
    OBVIOUS
  <2>2. m.factAt[Canon[t]] = f
    BY <2>1 DEF Woven, Finds
  <2>3. m.facts[f].schema \in DOMAIN m.schemas
    BY DEF Woven, LinksMutual
  <2>4. d[t] = m.schemas[m.facts[f].schema].content
    BY <2>2
  <2> QED BY <2>3, <2>4, <1>3 DEF SchemaNode
<1>7. d \in [D -> Label]
  BY <1>6
<1> HIDE DEF D, d
<1> QED BY <1>1, <1>4, <1>5, <1>7

(* The schemas are kept for the next rebuild, or the save fails.           *)
LEMMA SchemasDoneInv == ASSUME RebuildInv, SchemasDone \/ SchemasNotSaved PROVE RebuildInv'
<1>1. Sound(memory) /\ Woven(memory) /\ TypesKept
  BY DEF RebuildInv, LayersWoven, Sound
<1>2. /\ phase = "schema" /\ phase' = "filter" /\ UNCHANGED <<corpus, touched>>
      /\ memory' = memory
  BY <1>1, RecomputeIsIdle DEF SchemasDone, SchemasNotSaved
<1>3. TypesKept'
  <2> DEFINE T == {d \in UNION {[D -> Label] : D \in SUBSET Label} : IsFiniteSet(DOMAIN d)}
  <2>1. \A c : OntologyOf(memory, c) \in T
    BY <1>1, OntologyOfTyped
  <2>2. typed \in [Chunk -> T]
    BY <1>1 DEF TypesKept
  <2> HIDE DEF T
  <2>3. typed' \in [Chunk -> T]
    BY <2>1, <2>2 DEF SchemasDone, SchemasNotSaved
  <2> QED BY <2>3 DEF TypesKept, T
<1>4. EvidenceWhole'
  BY <1>2, EvidenceCarried
<1> QED BY <1>1, <1>2, <1>3, <1>4 DEF RebuildInv, LayersWoven, FilterKnown, Before

(* The rare schemas are dropped, the facts they had made silent.           *)
LEMMA FilterOntologyInv == ASSUME RebuildInv, FilterOntology PROVE RebuildInv'
<1>1. Sound(memory) /\ TypesKept /\ touched = {}
  BY DEF RebuildInv, LayersWoven, FilterOntology
<1>2. /\ phase = "filter" /\ phase' \in {"conflicts", "install"}
      /\ UNCHANGED <<corpus, typed, touched>>
  BY DEF FilterOntology
<1>3. /\ Sound(memory') /\ OnlySchemas(memory, memory')
      /\ inactive' \subseteq DOMAIN memory'.facts
      /\ silenced' = {Canon[memory'.facts[f].content] : f \in inactive'}
  <2>1. CASE MinFrequency = 0 \/ TooMany(memory)
    <3>1. memory' = memory /\ inactive' = {} /\ silenced' = {}
      BY <2>1 DEF FilterOntology
    <3> QED BY <3>1, <1>1, OnlySchemasSame
  <2>2. CASE ~(MinFrequency = 0 \/ TooMany(memory))
    <3> DEFINE r == FilterSchemas(memory, MinFrequency)
               gone == TypedFacts(memory) \ TypedFacts(r)
    <3>1. memory' = r /\ inactive' = gone /\ silenced' = {Canon[r.facts[f].content] : f \in gone}
      BY <2>2 DEF FilterOntology
    <3>2. Woven(r) /\ OnlySchemas(memory, r) /\ (FactsCounted(memory) => FactsCounted(r))
      BY <1>1, RebuildAssumption, FilterSchemasKeeps DEF Sound
    <3>3. gone \subseteq DOMAIN memory.facts
      BY DEF TypedFacts
    <3> HIDE DEF r, gone
    <3>4. DOMAIN r.facts = DOMAIN memory.facts
      BY <3>2 DEF OnlySchemas
    <3> QED BY <1>1, <3>1, <3>2, <3>3, <3>4 DEF Sound
  <2> QED BY <2>1, <2>2
<1>4. memory'.chunkAt = memory.chunkAt /\ \A k, c : Shows(memory, k, c) => Shows(memory', k, c)
  BY <1>3, SchemasShowNothing DEF OnlySchemas
<1>5. EvidenceWhole'
  BY <1>2, <1>4, EvidenceCarried
<1>6. TypesKept'
  BY <1>1, <1>2 DEF TypesKept
<1> QED BY <1>1, <1>2, <1>3, <1>5, <1>6 DEF RebuildInv, LayersWoven, FilterKnown, Before

(* Detecting conflicts changes no layer.                                   *)
LEMMA DetectConflictsInv == ASSUME RebuildInv, DetectConflicts PROVE RebuildInv'
<1>1. /\ phase = "conflicts" /\ phase' \in {"install", "resolve"} /\ touched = {}
      /\ UNCHANGED <<corpus, typed, memory, inactive, silenced, touched>>
  BY DEF DetectConflicts, RebuildInv
<1>2. EvidenceWhole'
  BY <1>1, EvidenceCarried
<1>3. TypesKept' /\ Sound(memory')
  BY <1>1 DEF RebuildInv, LayersWoven, TypesKept
<1>4. FilterKnown'
  BY <1>1 DEF RebuildInv, FilterKnown
<1> QED BY <1>1, <1>2, <1>3, <1>4 DEF RebuildInv, LayersWoven, Before

(* Resolutions modify and discard facts, then mark their keys touched.     *)
LEMMA ResolveConflictsInv == ASSUME RebuildInv, ResolveConflicts PROVE RebuildInv'
<1>1. /\ phase = "resolve" /\ phase' = "install" /\ touched = {} /\ Sound(memory)
      /\ UNCHANGED <<corpus, typed, inactive, silenced>>
  BY DEF ResolveConflicts, RebuildInv, LayersWoven
<1>2. PICK items \in Items :
          /\ memory' = Resolved(memory, items)
          /\ touched' = {<<Canon[items[i].original], items[i].action>> :
                             i \in {j \in DOMAIN items : items[j].action # "kept"}}
  BY DEF ResolveConflicts
<1>3. items \in Seq(Item)
  <2>1. PICK n \in 0..MaxItems : items \in [1..n -> Item]
    BY DEF Items
  <2>2. n \in Nat
    BY <2>1, RebuildAssumption
  <2> QED BY <2>1, <2>2
<1>4. Kept(memory, memory', items)
  BY <1>1, <1>2, <1>3, ResolvedKeeps
<1>5. ASSUME NEW i \in DOMAIN items
      PROVE  items[i].action \in Actions /\ Canon[items[i].original] \in CanonKey
  <2>1. items[i] \in Item
    BY <1>3
  <2>2. items[i].action \in Actions /\ items[i].original \in Label
    BY <2>1 DEF Item, Triple
  <2> QED BY <2>2, CanonIsKey
<1>6. ASSUME NEW k, \A a \in Actions : <<k, a>> \notin touched' PROVE Spared(items, k)
  BY <1>2, <1>5, <1>6 DEF Spared
<1>7. ASSUME \A k \in CanonKey : <<k, "discarded">> \notin touched'
      PROVE  \A i \in DOMAIN items : items[i].action # "discarded"
  BY <1>2, <1>5, <1>7
<1>8. ASSUME NEW c \in corpus
      PROVE  /\ c \in DOMAIN memory'.chunkAt
             /\ \A i \in DOMAIN TriplesOf[c] :
                    (\A a \in Actions : <<Canon[TriplesOf[c][i]], a>> \notin touched') =>
                        Shows(memory', Canon[TriplesOf[c][i]], c)
             /\ (TriplesOf[c] # <<>> /\ \A k \in CanonKey : <<k, "discarded">> \notin touched') =>
                    \E k : Shows(memory', k, c)
  <2>1. /\ c \in DOMAIN memory.chunkAt
        /\ \A i \in DOMAIN TriplesOf[c] : Shows(memory, Canon[TriplesOf[c][i]], c)
        /\ TriplesOf[c] # <<>> => \E k : Shows(memory, k, c)
    BY <1>1 DEF RebuildInv, EvidenceWhole
  <2> QED BY <2>1, <1>4, <1>6, <1>7 DEF Kept
<1>9. EvidenceWhole'
  BY <1>1, <1>8 DEF EvidenceWhole
<1>10. FilterKnown'
  <2> SUFFICES ASSUME touched' = {}
               PROVE  /\ inactive' \subseteq DOMAIN memory'.facts
                      /\ silenced' = {Canon[memory'.facts[f].content] : f \in inactive'}
    BY DEF FilterKnown
  <2>1. \A i \in DOMAIN items : items[i].action = "kept"
    BY <1>2
  <2>2. memory' = memory
    BY <1>4, <2>1 DEF Kept
  <2> QED BY <1>1, <2>2 DEF RebuildInv, FilterKnown
<1>11. TypesKept' /\ Sound(memory')
  BY <1>1, <1>4 DEF RebuildInv, LayersWoven, TypesKept, Kept
<1> QED BY <1>1, <1>9, <1>10, <1>11 DEF RebuildInv, LayersWoven, Before

(* The memory is installed, fails to be, or is read back from its          *)
(* snapshot.                                                               *)
LEMMA EndInv == ASSUME RebuildInv, Install \/ InstallFails \/ Reload PROVE RebuildInv'
<1>1. phase' = "idle" /\ touched' = {} /\ UNCHANGED <<corpus, typed>>
  BY DEF RebuildInv, Install, InstallFails, Reload
<1>2. Sound(memory')
  <2>1. Sound(memory)
    BY DEF RebuildInv, LayersWoven
  <2>2. FromDict(ToDict(memory)) = memory
    BY <2>1, SnapshotIsWhole
  <2> QED BY <2>1, <2>2, EmptySound DEF Install, InstallFails, Reload
<1>3. TypesKept'
  BY <1>1 DEF RebuildInv, LayersWoven, TypesKept
<1> QED BY <1>1, <1>2, <1>3 DEF RebuildInv, LayersWoven, EvidenceWhole, FilterKnown, Before

(* Every step.                                                             *)
LEMMA RebuildNextInv == ASSUME RebuildInv, [RebuildNext]_rebuildVars PROVE RebuildInv'
<1>1. CASE \E C \in SUBSET Chunk \ {{}} : Build(C)
  BY <1>1, BuildInv
<1>2. CASE ExtractSchema
  BY <1>2, ExtractSchemaInv
<1>3. CASE \E b \in DOMAIN batches : SchemaAnswer(b) \/ SchemaNoAnswer(b) \/ SchemaFails(b)
  BY <1>3, SchemaAnswerInv, NoAnswerInv
<1>4. CASE SchemasDone \/ SchemasNotSaved
  BY <1>4, SchemasDoneInv
<1>5. CASE FilterOntology
  BY <1>5, FilterOntologyInv
<1>6. CASE DetectConflicts
  BY <1>6, DetectConflictsInv
<1>7. CASE ResolveConflicts
  BY <1>7, ResolveConflictsInv
<1>8. CASE Install \/ InstallFails \/ Reload
  BY <1>8, EndInv
<1>9. CASE UNCHANGED rebuildVars
  <2>1. /\ corpus' = corpus /\ typed' = typed /\ memory' = memory /\ phase' = phase
        /\ inactive' = inactive /\ silenced' = silenced /\ touched' = touched
    BY <1>9 DEF rebuildVars
  <2> QED BY <2>1 DEF RebuildInv, LayersWoven, TypesKept, EvidenceWhole, FilterKnown, Before
<1> QED BY <1>1, <1>2, <1>3, <1>4, <1>5, <1>6, <1>7, <1>8, <1>9 DEF RebuildNext

(* Every stage of every rebuild keeps the invariant, whatever the corpus,  *)
(* the caches, the answers of the model and the order they come in, an     *)
(* install that fails and a snapshot read back.                            *)
THEOREM RebuildInvariant == RebuildSpec => []RebuildInv
<1>1. RebuildInv /\ [RebuildNext]_rebuildVars => RebuildInv'
  BY RebuildNextInv
<1> QED BY RebuildInitInv, <1>1, PTL DEF RebuildSpec

(* After each stage, and when the snapshot is read back, the layers name   *)
(* each other both ways and the dictionaries find what is there            *)
(* (memory.py: remove_fact, replace_fact, filter_schemas_by_frequency).    *)
THEOREM RebuildKeepsLayers == RebuildSpec => []LayersConsistent
BY RebuildInvariant, InvIsConsistent, PTL

(* A triple no resolution named keeps its fact and its evidence, and a     *)
(* merge hands its evidence on (resolve_conflicts, replace_fact).          *)
THEOREM RebuildKeepsEvidence == RebuildSpec => []EvidenceKept
BY RebuildInvariant, InvIsEvidence, PTL

(* When no resolution moved facts, what is indexed is the memory without   *)
(* the facts its own filter silenced (_inactive_fact_idxs, _active_facts). *)
THEOREM RebuildIndexesWhatIsLeft == RebuildSpec => []IndexedAsFiltered
BY RebuildInvariant, InvIsFiltered, PTL

----------------------------------------------------------------------------
(* The write buffer: what is buffered, in hand and written.                *)

States == {"absent", "stub", "full", "foreign"}
Job    == [at : {"idle", "probe", "send"}, full : SUBSET Node, stub : SUBSET Node,
           edges : SUBSET Edge]

BufferTypeOK ==
    /\ nodes \in [Node -> States] /\ edges \subseteq Edge
    /\ pendNodes \subseteq Node /\ pendEdges \subseteq Edge
    /\ job \in [Task -> Job]
    /\ stage \in {"idle", "clear", "fill", "leave", "flush"}
    /\ outcome \in {"none", "raised", "returned"}
    /\ theirs \subseteq Node /\ claimed \subseteq Node
    /\ wroteNodes \subseteq Node /\ wroteEdges \subseteq Edge
    /\ helped \in BOOLEAN /\ lost \in BOOLEAN

(* Where the installing task is, and what may be buffered there.           *)
StageInv ==
    /\ stage \in {"idle", "flush"} => pendNodes = {} /\ pendEdges = {}
    /\ stage = "clear" => wroteNodes = {} /\ wroteEdges = {}
    /\ job[Installer].at # "idle" => stage = "flush"
    /\ \A t \in Task : job[t].at = "idle" => job[t].full = {} /\ job[t].edges = {}
    /\ ~helped => \A r \in Reader : job[r].at = "idle"
    /\ lost => helped \/ outcome = "raised"

(* Another engine's node is in no row until this engine was told to write  *)
(* it; the probe has struck it out of the stubs.                           *)
ForeignInv ==
    /\ \A n \in theirs \ claimed : nodes[n] = "foreign"
    /\ pendNodes \cap theirs \subseteq claimed
    /\ \A t \in Task : job[t].full \cap theirs \subseteq claimed
    /\ \A t \in Task : job[t].at = "send" => job[t].stub \cap theirs \subseteq claimed

(* A node of the current graph is buffered, in somebody's hands, or there. *)
NodesInv ==
    ~lost => \A n \in wroteNodes :
        \/ n \in pendNodes
        \/ \E t \in Task : n \in job[t].full
        \/ nodes[n] \in {"stub", "full"}

(* Task t has edge e and will find its ends when it comes to send it.      *)
Carries(t, e) ==
    /\ e \in job[t].edges
    /\ \A n \in Ends({e}) : \/ n \in job[t].full \/ n \in job[t].stub
                            \/ job[t].at = "send" /\ nodes[n] # "absent"

EdgesInv ==
    ~lost => \A e \in wroteEdges :
        e \in pendEdges \/ e \in edges \/ \E t \in Task : Carries(t, e)

(* As long as nobody else flushes, no content is replaced by a stub.       *)
ContentInv ==
    ~helped /\ outcome # "raised" =>
        /\ \A n \in wroteNodes :
              n \in pendNodes \/ n \in job[Installer].full \/ nodes[n] = "full"
        /\ job[Installer].at = "probe" => job[Installer].full \cap job[Installer].stub = {}
        /\ job[Installer].at = "send"  => wroteNodes \cap job[Installer].stub = {}

BufferInv == BufferTypeOK /\ StageInv /\ ForeignInv /\ NodesInv /\ EdgesInv /\ ContentInv

----------------------------------------------------------------------------

(* The ends of edges are nodes.                                            *)
LEMMA EndsAreNodes ==
    ASSUME NEW E \in SUBSET Edge
    PROVE  /\ Ends(E) \subseteq Node
           /\ \A e \in E : Ends({e}) \subseteq Ends(E)
BY BufferAssumption DEF Ends

(* What a flush takes: all the buffers held, the unknown ends as stubs.    *)
LEMMA BuffersTaken ==
    ASSUME BufferTypeOK, NEW t \in Task, Take(t)
    PROVE  /\ pendNodes' = {} /\ pendEdges' = {}
           /\ job' \in [Task -> Job]
           /\ \A u \in Task \ {t} : job'[u] = job[u]
           /\ job'[t].at \in {"probe", "send"}
           /\ job'[t].full = pendNodes /\ job'[t].edges = pendEdges
           /\ job'[t].stub = Ends(pendEdges) \ pendNodes
           /\ job'[t].at = "send" => job'[t].stub = {}
<1>1. Ends(pendEdges) \subseteq Node
  BY EndsAreNodes DEF BufferTypeOK
<1> QED
  BY <1>1 DEF BufferTypeOK, Take, Job

(* The initial state.                                                      *)
LEMMA BufferInitInv == Init => BufferInv
<1> SUFFICES ASSUME Init PROVE BufferInv
  OBVIOUS
<1>1. BufferTypeOK
  BY BufferAssumption DEF Init, BufferTypeOK, NoJob, Job, States
<1>2. StageInv /\ NodesInv /\ EdgesInv /\ ContentInv
  BY BufferAssumption DEF Init, StageInv, NodesInv, EdgesInv, ContentInv, NoJob, Task
<1>3. ForeignInv
  BY BufferAssumption DEF Init, ForeignInv, NoJob
<1> QED
  BY <1>1, <1>2, <1>3 DEF BufferInv

----------------------------------------------------------------------------
(* The steps of a flush.                                                   *)

LEMMA ProbeStep ==
    ASSUME BufferInv, NEW t \in Task, Probe(t) PROVE BufferInv'
<1> USE DEF BufferInv
<1>1. /\ job' \in [Task -> Job] /\ \A u \in Task \ {t} : job'[u] = job[u]
      /\ job[t].at = "probe" /\ job'[t].at = "send"
      /\ job'[t].full = job[t].full /\ job'[t].edges = job[t].edges
      /\ job'[t].stub = job[t].stub \ Present
  BY DEF Probe, BufferTypeOK, Job
<1>2. UNCHANGED <<nodes, edges, pendNodes, pendEdges, stage, outcome, theirs, claimed,
                  wroteNodes, wroteEdges, helped, lost>>
  BY DEF Probe, history, buffers, lasting, graph
<1>3. BufferTypeOK'
  BY <1>1, <1>2 DEF BufferTypeOK
<1>4. StageInv'
  BY <1>1, <1>2 DEF StageInv, Task
<1>5. ForeignInv'
  BY <1>1, <1>2 DEF ForeignInv, Present, BufferTypeOK
<1>6. NodesInv'
  BY <1>1, <1>2 DEF NodesInv
<1>7. EdgesInv'
  <2>1. ASSUME NEW e, NEW u \in Task, Carries(u, e) PROVE Carries(u, e)'
    <3>1. CASE u = t
      BY <2>1, <3>1, <1>1, <1>2 DEF Carries, Present, BufferTypeOK, Job
    <3>2. CASE u # t
      BY <2>1, <3>2, <1>1, <1>2 DEF Carries
    <3> QED BY <3>1, <3>2
  <2> QED BY <2>1, <1>2 DEF EdgesInv
<1>8. ContentInv'
  BY <1>1, <1>2 DEF ContentInv, StageInv, Present, BufferTypeOK, Task
<1> QED BY <1>3, <1>4, <1>5, <1>6, <1>7, <1>8

LEMMA SendFullStep ==
    ASSUME BufferInv, NEW t \in Task, SendFull(t) PROVE BufferInv'
<1> USE DEF BufferInv
<1>1. PICK C \in Chunks(job[t].full) :
          /\ nodes' = [n \in Node |-> IF n \in C THEN "full" ELSE nodes[n]]
          /\ job' = [job EXCEPT ![t].full = @ \ C]
  BY DEF SendFull
<1>2. C \subseteq job[t].full
  BY DEF Chunks
<1>3. /\ job' \in [Task -> Job] /\ \A u \in Task \ {t} : job'[u] = job[u]
      /\ job[t].at = "send" /\ job'[t].at = "send"
      /\ job'[t].full = job[t].full \ C /\ job'[t].edges = job[t].edges
      /\ job'[t].stub = job[t].stub
  BY <1>1 DEF SendFull, BufferTypeOK, Job
<1>4. UNCHANGED <<edges, pendNodes, pendEdges, stage, outcome, theirs, claimed,
                  wroteNodes, wroteEdges, helped, lost>>
  BY DEF SendFull, history, buffers, lasting, graph
<1>5. BufferTypeOK'
  BY <1>1, <1>3, <1>4 DEF BufferTypeOK, States
<1>6. StageInv'
  BY <1>3, <1>4 DEF StageInv, Task
<1>7. ForeignInv'
  BY <1>1, <1>2, <1>3, <1>4 DEF ForeignInv, BufferTypeOK
<1>8. NodesInv'
  BY <1>1, <1>2, <1>3, <1>4 DEF NodesInv, BufferTypeOK
<1>9. EdgesInv'
  <2>1. ASSUME NEW e \in Edge, NEW u \in Task, Carries(u, e) PROVE Carries(u, e)'
    <3>1. Ends({e}) \subseteq Node
      BY EndsAreNodes
    <3> QED BY <2>1, <3>1, <1>1, <1>2, <1>3 DEF Carries
  <2> QED BY <2>1, <1>4 DEF EdgesInv, BufferTypeOK
<1>10. ContentInv'
  BY <1>1, <1>2, <1>3, <1>4 DEF ContentInv, BufferTypeOK, StageInv, Task
<1> QED BY <1>5, <1>6, <1>7, <1>8, <1>9, <1>10

LEMMA SendStubsStep ==
    ASSUME BufferInv, NEW t \in Task, SendStubs(t) PROVE BufferInv'
<1> USE DEF BufferInv
<1>1. PICK C \in Chunks(job[t].stub) :
          /\ nodes' = [n \in Node |-> IF n \in C THEN "stub" ELSE nodes[n]]
          /\ job' = [job EXCEPT ![t].stub = @ \ C]
  BY DEF SendStubs
<1>2. C \subseteq job[t].stub
  BY DEF Chunks
<1>3. /\ job' \in [Task -> Job] /\ \A u \in Task \ {t} : job'[u] = job[u]
      /\ job[t].at = "send" /\ job'[t].at = "send"
      /\ job'[t].full = job[t].full /\ job'[t].edges = job[t].edges
      /\ job'[t].stub = job[t].stub \ C
  BY <1>1 DEF SendStubs, BufferTypeOK, Job
<1>4. UNCHANGED <<edges, pendNodes, pendEdges, stage, outcome, theirs, claimed,
                  wroteNodes, wroteEdges, helped, lost>>
  BY DEF SendStubs, history, buffers, lasting, graph
<1>5. BufferTypeOK'
  BY <1>1, <1>3, <1>4 DEF BufferTypeOK, States
<1>6. StageInv'
  BY <1>3, <1>4 DEF StageInv, Task
<1>7. ForeignInv'
  BY <1>1, <1>2, <1>3, <1>4 DEF ForeignInv, BufferTypeOK
<1>8. NodesInv'
  BY <1>1, <1>3, <1>4 DEF NodesInv, BufferTypeOK
<1>9. EdgesInv'
  <2>1. ASSUME NEW e \in Edge, NEW u \in Task, Carries(u, e) PROVE Carries(u, e)'
    <3>1. Ends({e}) \subseteq Node
      BY EndsAreNodes
    <3> QED BY <2>1, <3>1, <1>1, <1>2, <1>3 DEF Carries
  <2> QED BY <2>1, <1>4 DEF EdgesInv, BufferTypeOK
<1>10. ContentInv'
  <2>1. ~helped => t = Installer
    BY <1>3 DEF StageInv, Task
  <2> QED
    BY <2>1, <1>1, <1>2, <1>3, <1>4 DEF ContentInv, BufferTypeOK
<1> QED BY <1>5, <1>6, <1>7, <1>8, <1>9, <1>10

LEMMA SendEdgesStep ==
    ASSUME BufferInv, NEW t \in Task, SendEdges(t) PROVE BufferInv'
<1> USE DEF BufferInv
<1>1. PICK C \in Chunks(job[t].edges) :
          /\ edges' = edges \cup Matched(C)
          /\ job' = [job EXCEPT ![t].edges = @ \ C]
  BY DEF SendEdges
<1>2. C \subseteq job[t].edges /\ job[t].edges \subseteq Edge
  BY DEF Chunks, BufferTypeOK, Job
<1>3. /\ job' \in [Task -> Job] /\ \A u \in Task \ {t} : job'[u] = job[u]
      /\ job[t].at = "send" /\ job'[t].at = "send"
      /\ job'[t].full = job[t].full /\ job'[t].edges = job[t].edges \ C
      /\ job'[t].stub = job[t].stub
      /\ job[t].full = {} /\ job[t].stub = {}
  BY <1>1 DEF SendEdges, NodesSent, BufferTypeOK, Job
<1>4. UNCHANGED <<nodes, pendNodes, pendEdges, stage, outcome, theirs, claimed,
                  wroteNodes, wroteEdges, helped, lost>>
  BY DEF SendEdges, history, buffers, lasting, graph
<1>5. BufferTypeOK'
  BY <1>1, <1>2, <1>3, <1>4 DEF BufferTypeOK, Matched
<1>6. StageInv' /\ ForeignInv' /\ NodesInv' /\ ContentInv'
  BY <1>3, <1>4 DEF StageInv, ForeignInv, NodesInv, ContentInv, Task
<1>7. EdgesInv'
  <2>1. ASSUME NEW e \in Edge, NEW u \in Task, Carries(u, e)
        PROVE  Carries(u, e)' \/ e \in edges'
    <3>1. Ends({e}) \subseteq Node
      BY EndsAreNodes
    <3>2. CASE u = t /\ e \in C
      BY <2>1, <3>1, <3>2, <1>1, <1>3 DEF Carries, Matched, Present
    <3>3. CASE ~(u = t /\ e \in C)
      BY <2>1, <3>3, <1>3, <1>4 DEF Carries
    <3> QED BY <3>2, <3>3
  <2> QED BY <2>1, <1>1, <1>4 DEF EdgesInv, BufferTypeOK
<1> QED BY <1>5, <1>6, <1>7

LEMMA SentStep ==
    ASSUME BufferInv, NEW t \in Task, Sent(t) PROVE BufferInv'
<1> USE DEF BufferInv
<1>1. /\ job' \in [Task -> Job] /\ \A u \in Task \ {t} : job'[u] = job[u]
      /\ job[t].at = "send" /\ job[t].full = {} /\ job[t].stub = {} /\ job[t].edges = {}
      /\ job'[t].at = "idle" /\ job'[t].full = {} /\ job'[t].stub = {} /\ job'[t].edges = {}
  BY DEF Sent, NodesSent, NoJob, BufferTypeOK, Job
<1>2. UNCHANGED <<nodes, edges, pendNodes, pendEdges, theirs, claimed,
                  wroteNodes, wroteEdges, helped, lost>>
  BY DEF Sent, history, buffers, lasting, graph
<1>3. /\ t = Installer => stage' = "idle" /\ outcome' \in {"raised", "returned"}
      /\ outcome' = "raised" <=> outcome = "raised"
      /\ t # Installer => stage' = stage /\ outcome' = outcome
  BY DEF Sent, BufferTypeOK
<1>4. BufferTypeOK'
  BY <1>1, <1>2, <1>3 DEF BufferTypeOK
<1>5. StageInv'
  BY <1>1, <1>2, <1>3 DEF StageInv, Task
<1>6. ForeignInv' /\ NodesInv'
  BY <1>1, <1>2 DEF ForeignInv, NodesInv
<1>7. EdgesInv'
  <2>1. ASSUME NEW e, NEW u \in Task, Carries(u, e) PROVE Carries(u, e)'
    BY <2>1, <1>1, <1>2 DEF Carries
  <2> QED BY <2>1, <1>2 DEF EdgesInv
<1>8. ContentInv'
  BY <1>1, <1>2, <1>3 DEF ContentInv, Task
<1> QED BY <1>4, <1>5, <1>6, <1>7, <1>8

LEMMA FlushFailsStep ==
    ASSUME BufferInv, NEW t \in Task, FlushFails(t) PROVE BufferInv'
<1> USE DEF BufferInv
<1>1. /\ job' \in [Task -> Job] /\ \A u \in Task \ {t} : job'[u] = job[u]
      /\ job[t].at # "idle"
      /\ job'[t].at = "idle" /\ job'[t].full = {} /\ job'[t].stub = {} /\ job'[t].edges = {}
  BY DEF FlushFails, NoJob, BufferTypeOK, Job
<1>2. UNCHANGED <<nodes, edges, pendNodes, pendEdges, theirs, claimed,
                  wroteNodes, wroteEdges, helped>> /\ lost'
  BY DEF FlushFails, buffers, lasting
<1>3. /\ t = Installer => stage' = "idle" /\ outcome' = "raised"
      /\ t # Installer => stage' = stage /\ outcome' = outcome
  BY DEF FlushFails
<1>4. BufferTypeOK'
  BY <1>1, <1>2, <1>3 DEF BufferTypeOK
<1>5. StageInv'
  BY <1>1, <1>2, <1>3 DEF StageInv, Task
<1>6. ForeignInv' /\ NodesInv' /\ EdgesInv'
  BY <1>1, <1>2 DEF ForeignInv, NodesInv, EdgesInv
<1>7. ContentInv'
  BY <1>1, <1>2, <1>3 DEF ContentInv, StageInv, Task
<1> QED BY <1>4, <1>5, <1>6, <1>7

(* A reader takes what the installing task has buffered.                   *)
LEMMA ReadStep ==
    ASSUME BufferInv, NEW r \in Reader, Read(r) PROVE BufferInv'
<1> USE DEF BufferInv
<1>0. r \in Task /\ r # Installer /\ Take(r) /\ job[r].at = "idle" /\ helped' = TRUE
  BY BufferAssumption DEF Read, Task
<1>1. UNCHANGED <<nodes, edges, stage, outcome, theirs, claimed, wroteNodes, wroteEdges, lost>>
  BY DEF Read, lasting
<1>2. /\ pendNodes' = {} /\ pendEdges' = {} /\ job' \in [Task -> Job]
      /\ \A u \in Task \ {r} : job'[u] = job[u]
      /\ job'[r].at \in {"probe", "send"}
      /\ job'[r].full = pendNodes /\ job'[r].edges = pendEdges
      /\ job'[r].stub = Ends(pendEdges) \ pendNodes
      /\ job'[r].at = "send" => job'[r].stub = {}
  BY <1>0, BuffersTaken
<1>3. BufferTypeOK'
  BY <1>0, <1>1, <1>2 DEF BufferTypeOK
<1>4. StageInv'
  BY <1>0, <1>1, <1>2 DEF StageInv, Task
<1>5. ForeignInv'
  BY <1>0, <1>1, <1>2 DEF ForeignInv
<1>6. NodesInv'
  BY <1>0, <1>1, <1>2 DEF NodesInv, StageInv
<1>7. EdgesInv'
  <2>1. ASSUME NEW e \in pendEdges PROVE Carries(r, e)'
    <3>1. Ends({e}) \subseteq Ends(pendEdges)
      BY EndsAreNodes DEF BufferTypeOK
    <3> QED BY <3>1, <1>2 DEF Carries
  <2>2. ASSUME NEW e, NEW u \in Task, Carries(u, e) PROVE Carries(u, e)'
    <3>1. u # r
      BY <2>2, <1>0 DEF Carries, StageInv
    <3> QED BY <2>2, <3>1, <1>1, <1>2 DEF Carries
  <2> QED BY <2>1, <2>2, <1>0, <1>1 DEF EdgesInv
<1>8. ContentInv'
  BY <1>0 DEF ContentInv
<1> QED BY <1>3, <1>4, <1>5, <1>6, <1>7, <1>8

----------------------------------------------------------------------------
(* The steps of the installing task, and of opening and restarting.        *)

(* Jobs that do not change carry what they carried, as long as no node     *)
(* goes away.                                                              *)
LEMMA StillCarried ==
    ASSUME BufferTypeOK, job' = job,
           \A n \in Node : nodes[n] # "absent" => nodes'[n] # "absent",
           NEW e \in Edge, NEW u \in Task, Carries(u, e)
    PROVE  Carries(u, e)'
<1>1. Ends({e}) \subseteq Node
  BY EndsAreNodes
<1> QED BY <1>1 DEF Carries

LEMMA OpenStep ==
    ASSUME BufferInv, Connect \/ AssertNotShared PROVE BufferInv'
<1>1. UNCHANGED <<nodes, edges, pendNodes, pendEdges, job, stage, outcome, theirs, claimed,
                  wroteNodes, wroteEdges, helped, lost>>
  BY DEF Connect, AssertNotShared, Open, buffers, graph
<1> QED
  BY <1>1 DEF BufferInv, BufferTypeOK, StageInv, ForeignInv, NodesInv, EdgesInv, ContentInv, Carries

LEMMA RestartStep ==
    ASSUME BufferInv, Restart PROVE BufferInv'
<1> USE DEF BufferInv
<1>1. /\ pendNodes' = {} /\ pendEdges' = {} /\ job' = [t \in Task |-> NoJob]
      /\ stage' = "idle" /\ outcome' = "none" /\ wroteNodes' = {} /\ wroteEdges' = {}
      /\ helped' = FALSE /\ lost' = FALSE
      /\ UNCHANGED <<nodes, edges, theirs, claimed>>
  BY DEF Restart
<1>2. BufferTypeOK'
  BY <1>1 DEF BufferTypeOK, NoJob, Job
<1>3. StageInv' /\ NodesInv' /\ EdgesInv' /\ ContentInv'
  BY <1>1 DEF StageInv, NodesInv, EdgesInv, ContentInv, NoJob, Task
<1>4. ForeignInv'
  BY <1>1 DEF ForeignInv, NoJob
<1> QED BY <1>2, <1>3, <1>4

LEMMA BeginInstallStep ==
    ASSUME BufferInv, BeginInstall PROVE BufferInv'
<1> USE DEF BufferInv
<1>1. /\ pendNodes' = {} /\ pendEdges' = {} /\ stage = "idle"
      /\ stage' = "clear" /\ outcome' = "none" /\ wroteNodes' = {} /\ wroteEdges' = {}
      /\ helped' = (\E r \in Reader : job[r].at # "idle") /\ lost' = FALSE
      /\ UNCHANGED <<nodes, edges, job, theirs, claimed>>
  BY DEF BeginInstall, lasting
<1>2. BufferTypeOK'
  BY <1>1 DEF BufferTypeOK
<1>3. StageInv' /\ NodesInv' /\ EdgesInv' /\ ContentInv'
  BY <1>1 DEF StageInv, NodesInv, EdgesInv, ContentInv, Task
<1>4. ForeignInv'
  BY <1>1 DEF ForeignInv
<1> QED BY <1>2, <1>3, <1>4

LEMMA ClearStep ==
    ASSUME BufferInv, Clear PROVE BufferInv'
<1> USE DEF BufferInv
<1>1. /\ nodes' = [n \in Node |-> IF n \in OwnedNodes THEN "absent" ELSE nodes[n]]
      /\ edges' \subseteq edges /\ stage = "clear" /\ stage' = "fill"
      /\ UNCHANGED <<pendNodes, pendEdges, job, outcome, theirs, claimed,
                     wroteNodes, wroteEdges, helped, lost>>
  BY DEF Clear, buffers, history, lasting, graph
<1>2. BufferTypeOK'
  BY <1>1 DEF BufferTypeOK, States
<1>3. StageInv' /\ NodesInv' /\ EdgesInv' /\ ContentInv'
  BY <1>1 DEF StageInv, NodesInv, EdgesInv, ContentInv
<1>4. ForeignInv'
  BY <1>1 DEF ForeignInv, OwnedNodes, BufferTypeOK
<1> QED BY <1>2, <1>3, <1>4

LEMMA UpsertNodeStep ==
    ASSUME BufferInv, NEW n \in Node, UpsertNode(n) PROVE BufferInv'
<1> USE DEF BufferInv
<1>1. /\ stage = "fill" /\ pendNodes' = pendNodes \cup {n}
      /\ wroteNodes' = wroteNodes \cup {n} /\ claimed' = claimed \cup ({n} \cap theirs)
      /\ UNCHANGED <<nodes, edges, pendEdges, job, stage, outcome, theirs,
                     wroteEdges, helped, lost>>
  BY DEF UpsertNode
<1>2. BufferTypeOK'
  BY <1>1 DEF BufferTypeOK
<1>3. StageInv' /\ NodesInv' /\ ContentInv'
  BY <1>1 DEF StageInv, NodesInv, ContentInv
<1>4. ForeignInv'
  BY <1>1 DEF ForeignInv
<1>5. EdgesInv'
  BY <1>1, StillCarried DEF EdgesInv, BufferTypeOK
<1> QED BY <1>2, <1>3, <1>4, <1>5

LEMMA UpsertEdgeStep ==
    ASSUME BufferInv, NEW e \in Edge, UpsertEdge(e) PROVE BufferInv'
<1> USE DEF BufferInv
<1>1. /\ stage = "fill" /\ pendEdges' = pendEdges \cup {e}
      /\ wroteEdges' = wroteEdges \cup {e}
      /\ UNCHANGED <<nodes, edges, pendNodes, job, stage, outcome, theirs, claimed,
                     wroteNodes, helped, lost>>
  BY DEF UpsertEdge, lasting
<1>2. BufferTypeOK'
  BY <1>1 DEF BufferTypeOK
<1>3. StageInv' /\ NodesInv' /\ ContentInv' /\ ForeignInv'
  BY <1>1 DEF StageInv, NodesInv, ContentInv, ForeignInv
<1>4. EdgesInv'
  BY <1>1, StillCarried DEF EdgesInv, BufferTypeOK
<1> QED BY <1>2, <1>3, <1>4

LEMMA BodyFailsStep ==
    ASSUME BufferInv, BodyFails PROVE BufferInv'
<1> USE DEF BufferInv
<1>1. /\ stage \in {"clear", "fill"} /\ outcome' = "raised" /\ stage' = "leave"
      /\ UNCHANGED <<nodes, edges, pendNodes, pendEdges, job, theirs, claimed,
                     wroteNodes, wroteEdges, helped, lost>>
  BY DEF BodyFails, buffers, history, lasting, graph
<1>2. BufferTypeOK' /\ StageInv' /\ NodesInv' /\ ContentInv' /\ ForeignInv'
  BY <1>1 DEF BufferTypeOK, StageInv, NodesInv, ContentInv, ForeignInv
<1>3. EdgesInv'
  BY <1>1, StillCarried DEF EdgesInv, BufferTypeOK
<1> QED BY <1>2, <1>3

LEMMA LeaveStep ==
    ASSUME BufferInv, Leave PROVE BufferInv'
<1> USE DEF BufferInv
<1>1. /\ stage \in {"fill", "leave"} /\ Installer \in Task
      /\ UNCHANGED <<nodes, edges, theirs, claimed, wroteNodes, wroteEdges, helped, lost>>
  BY DEF Leave, history, lasting, graph, Task
<1>2. CASE Nothing
  <2>1. /\ stage' = "idle" /\ UNCHANGED <<pendNodes, pendEdges, job>>
        /\ outcome' \in {"raised", "returned"}
        /\ outcome' = "raised" <=> outcome = "raised"
    BY <1>2 DEF Leave, buffers, BufferTypeOK
  <2>2. BufferTypeOK' /\ StageInv' /\ NodesInv' /\ ContentInv' /\ ForeignInv'
    BY <1>1, <1>2, <2>1
    DEF BufferTypeOK, StageInv, NodesInv, ContentInv, ForeignInv, Nothing
  <2>3. EdgesInv'
    BY <1>1, <2>1, StillCarried DEF EdgesInv, BufferTypeOK
  <2> QED BY <2>2, <2>3
<1>3. CASE ~Nothing
  <2>1. Take(Installer) /\ stage' = "flush" /\ outcome' = outcome
    BY <1>3 DEF Leave
  <2>2. job[Installer].at = "idle"
    BY <1>1 DEF StageInv
  <2>3. /\ pendNodes' = {} /\ pendEdges' = {} /\ job' \in [Task -> Job]
        /\ \A u \in Task \ {Installer} : job'[u] = job[u]
        /\ job'[Installer].at \in {"probe", "send"}
        /\ job'[Installer].full = pendNodes /\ job'[Installer].edges = pendEdges
        /\ job'[Installer].stub = Ends(pendEdges) \ pendNodes
        /\ job'[Installer].at = "send" => job'[Installer].stub = {}
    BY <1>1, <2>1, BuffersTaken
  <2>4. BufferTypeOK'
    BY <1>1, <2>1, <2>3 DEF BufferTypeOK
  <2>5. StageInv'
    BY BufferAssumption, <1>1, <2>1, <2>3 DEF StageInv, Task
  <2>6. ForeignInv'
    BY <1>1, <2>1, <2>3 DEF ForeignInv
  <2>7. NodesInv'
    BY <1>1, <2>2, <2>3 DEF NodesInv, StageInv
  <2>8. EdgesInv'
    <3>1. ASSUME NEW e \in pendEdges PROVE Carries(Installer, e)'
      <4>1. Ends({e}) \subseteq Ends(pendEdges)
        BY EndsAreNodes DEF BufferTypeOK
      <4> QED BY <4>1, <2>3 DEF Carries
    <3>2. ASSUME NEW e, NEW u \in Task, Carries(u, e) PROVE Carries(u, e)'
      <4>1. u # Installer
        BY <3>2, <2>2 DEF Carries, StageInv
      <4> QED BY <3>2, <4>1, <1>1, <2>3 DEF Carries
    <3> QED BY <3>1, <3>2, <1>1 DEF EdgesInv
  <2>9. ContentInv'
    BY <1>1, <2>1, <2>2, <2>3 DEF ContentInv, StageInv
  <2> QED BY <2>4, <2>5, <2>6, <2>7, <2>8, <2>9
<1> QED BY <1>2, <1>3

LEMMA UpsertNodeNowStep ==
    ASSUME BufferInv, NEW n \in Node, UpsertNodeNow(n) PROVE BufferInv'
<1> USE DEF BufferInv
<1>1. /\ stage = "idle" /\ nodes' = [nodes EXCEPT ![n] = "full"]
      /\ wroteNodes' = wroteNodes \cup {n} /\ claimed' = claimed \cup ({n} \cap theirs)
      /\ UNCHANGED <<edges, pendNodes, pendEdges, job, stage, outcome, theirs,
                     wroteEdges, helped, lost>>
  BY DEF UpsertNodeNow, buffers
<1>2. BufferTypeOK'
  BY <1>1 DEF BufferTypeOK, States
<1>3. StageInv' /\ ForeignInv'
  BY <1>1 DEF StageInv, ForeignInv, BufferTypeOK
<1>4. NodesInv' /\ ContentInv'
  BY <1>1 DEF NodesInv, ContentInv, StageInv, BufferTypeOK
<1>5. EdgesInv'
  <2>1. \A m \in Node : nodes[m] # "absent" => nodes'[m] # "absent"
    BY <1>1 DEF BufferTypeOK
  <2> QED BY <1>1, <2>1, StillCarried DEF EdgesInv, BufferTypeOK
<1> QED BY <1>2, <1>3, <1>4, <1>5

LEMMA UpsertEdgeNowStep ==
    ASSUME BufferInv, NEW e \in Edge, UpsertEdgeNow(e) PROVE BufferInv'
<1> USE DEF BufferInv
<1>1. /\ stage = "idle"
      /\ nodes' = [n \in Node |-> IF n \in Ends({e}) /\ ~HasNode(n) THEN "stub" ELSE nodes[n]]
      /\ edges' = edges \cup {e} /\ wroteEdges' = wroteEdges \cup {e}
      /\ UNCHANGED <<pendNodes, pendEdges, job, stage, outcome, theirs, claimed,
                     wroteNodes, helped, lost>>
  BY DEF UpsertEdgeNow, buffers, lasting
<1>2. \A n \in Node : nodes'[n] = nodes[n] \/ (nodes[n] = "absent" /\ nodes'[n] = "stub")
  BY <1>1 DEF HasNode, Present
<1>3. BufferTypeOK'
  BY <1>1 DEF BufferTypeOK, States
<1>4. StageInv' /\ ForeignInv'
  BY <1>1, <1>2 DEF StageInv, ForeignInv, BufferTypeOK
<1>5. NodesInv' /\ ContentInv'
  BY <1>1, <1>2 DEF NodesInv, ContentInv, StageInv, BufferTypeOK
<1>6. EdgesInv'
  <2>1. \A m \in Node : nodes[m] # "absent" => nodes'[m] # "absent"
    BY <1>2
  <2> QED BY <1>1, <2>1, StillCarried DEF EdgesInv, BufferTypeOK
<1> QED BY <1>3, <1>4, <1>5, <1>6

----------------------------------------------------------------------------

LEMMA BufferNextInv == ASSUME BufferInv, [Next]_vars PROVE BufferInv'
<1>1. CASE UNCHANGED vars
  BY <1>1 DEF vars, buffers, history, lasting, graph, BufferInv, BufferTypeOK, StageInv, ForeignInv,
              NodesInv, EdgesInv, ContentInv, Carries
<1>2. CASE \E t \in Task : Probe(t) \/ SendFull(t) \/ SendStubs(t) \/ SendEdges(t)
                           \/ Sent(t) \/ FlushFails(t)
  BY <1>2, ProbeStep, SendFullStep, SendStubsStep, SendEdgesStep, SentStep, FlushFailsStep
<1>3. CASE \E r \in Reader : Read(r)
  BY <1>3, ReadStep
<1>4. CASE Connect \/ AssertNotShared \/ Restart
  BY <1>4, OpenStep, RestartStep
<1>5. CASE BeginInstall \/ Clear \/ BodyFails \/ Leave
  BY <1>5, BeginInstallStep, ClearStep, BodyFailsStep, LeaveStep
<1>6. CASE \E n \in Node : UpsertNode(n) \/ UpsertOnce(n) \/ UpsertNodeNow(n)
  BY <1>6, UpsertNodeStep, UpsertNodeNowStep DEF UpsertOnce
<1>7. CASE \E e \in Edge : UpsertEdge(e) \/ UpsertEdgeNow(e)
  BY <1>7, UpsertEdgeStep, UpsertEdgeNowStep
<1> QED BY <1>1, <1>2, <1>3, <1>4, <1>5, <1>6, <1>7 DEF Next

(* Another engine's nodes survive every opening, flush, clear and restart  *)
(* of this one, unless it was told to write a node of that id              *)
(* (neo4j_impl.py: clear, _flush_pending, upsert_edge).                    *)
THEOREM ForeignNodesKept == Spec => []ForeignKept
<1>1. BufferInv => ForeignKept
  BY DEF BufferInv, ForeignInv, ForeignKept
<1> QED BY <1>1, BufferInitInv, BufferNextInv, PTL DEF Spec

(* When all is sent and nothing has failed, the whole graph is there,      *)
(* whichever tasks flushed it and in whatever order (_flush_pending).      *)
THEOREM GraphArrives == Spec => []AllArrive
<1>1. BufferInv => AllArrive
  <2> SUFFICES ASSUME BufferInv, stage = "idle", ~lost, \A t \in Task : job[t].at = "idle"
               PROVE  wroteNodes \subseteq OwnedNodes /\ wroteEdges \subseteq edges
    BY DEF AllArrive
  <2> USE DEF BufferInv
  <2>1. pendNodes = {} /\ pendEdges = {} /\ \A t \in Task : job[t].full = {} /\ job[t].edges = {}
    BY DEF StageInv
  <2>2. wroteNodes \subseteq OwnedNodes
    BY <2>1 DEF NodesInv, OwnedNodes, Present, BufferTypeOK
  <2>3. wroteEdges \subseteq edges
    BY <2>1 DEF EdgesInv, Carries
  <2> QED BY <2>2, <2>3
<1> QED BY <1>1, BufferInitInv, BufferNextInv, PTL DEF Spec

(* A batch that returns has delivered its writes with their contents when  *)
(* no other task flushed meanwhile (batch, _flush_pending).                *)
THEOREM BatchIsDelivered == Spec => []BatchDelivers
<1>1. BufferInv => BatchDelivers
  <2> SUFFICES ASSUME BufferInv, stage = "idle", outcome = "returned", ~helped
               PROVE  /\ \A n \in wroteNodes : nodes[n] = "full"
                      /\ wroteEdges \subseteq edges
    BY DEF BatchDelivers
  <2> USE DEF BufferInv
  <2>1. /\ pendNodes = {} /\ pendEdges = {} /\ ~lost
        /\ \A t \in Task : job[t].full = {} /\ job[t].edges = {}
    BY DEF StageInv, Task
  <2>2. \A n \in wroteNodes : nodes[n] = "full"
    BY <2>1 DEF ContentInv, Task
  <2>3. wroteEdges \subseteq edges
    BY <2>1 DEF EdgesInv, Carries
  <2> QED BY <2>2, <2>3
<1> QED BY <1>1, BufferInitInv, BufferNextInv, PTL DEF Spec
================================================================================
