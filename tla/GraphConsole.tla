------------------------------ MODULE GraphConsole ------------------------------
(***************************************************************************)
(* The read-only console on the graph: a statement is scanned, given a     *)
(* limit and read record by record up to a cap (api/routers/cypher.py);    *)
(* the web UI shows the nodes and relationships of the answer and merges   *)
(* the neighbourhoods a user asks for into it (CypherConsole.tsx).  Runs   *)
(* and expansions of one page overlap.                                     *)
(*                                                                         *)
(* A statement is its words: keywords, brackets, quoted or commented text. *)
(* A record is the nodes and the relationships in it.                      *)
(***************************************************************************)
EXTENDS Naturals, Sequences, FiniteSets, SequencesExt

CONSTANTS
    GraphNode,    \* the nodes of the database,
    EntityId,     \*   the entity_id of each, or NoId,
    Labelled,     \*   and those with the label of the workspace
    RelEnds,      \* relationship -> the nodes it joins
    Statements,   \* what is run: words, own limit (0 for none), records found
    Limits,       \* what the page may ask for at most
    ExpandLimit,  \* the same of an expansion
    MaxCalls,     \* bound: runs and expansions of the page
    NoId, NoResult

Record == [nodes : SUBSET GraphNode, rels : SUBSET DOMAIN RelEnds]

ASSUME ConsoleAssumption ==
    /\ EntityId \in [GraphNode -> Range(EntityId)] /\ Labelled \subseteq GraphNode
    /\ Range(EntityId) \cap GraphNode = {}
    /\ \A r \in DOMAIN RelEnds : {RelEnds[r].from, RelEnds[r].to} \subseteq GraphNode
    /\ \A s \in Statements : s.limit \in Nat /\ s.records \in Seq(Record)
    /\ Limits \subseteq Nat \ {0} /\ ExpandLimit \in Nat \ {0} /\ MaxCalls \in Nat

VARIABLES
    asked,      \* the requests of the page, in the order they were made
    result,     \* the result shown
    base,       \* the result an expansion is merged into: resultRef.current
    expanding   \* an expansion is under way

console == <<asked, result, base, expanding>>

ConsoleInit == asked = <<>> /\ result = NoResult /\ base = NoResult /\ expanding = FALSE

----------------------------------------------------------------------------
(* The statement.                                                          *)

Quoted == {"'limit'", "'delete'"}
Writes == {"delete"}

StripLiterals(words) == SelectSeq(words, LAMBDA w : w \notin Quoted)

Refused(words) == \E i \in DOMAIN StripLiterals(words) : StripLiterals(words)[i] \in Writes

Depth(words) ==
    FoldLeft(LAMBDA d, w : CASE w = "{" -> d + 1 [] w = "}" /\ d > 0 -> d - 1 [] OTHER -> d, 0, words)

TopLevel(words, word) ==
    {i \in DOMAIN words : words[i] = word /\ Depth(SubSeq(words, 1, i - 1)) = 0}

HasReturn(words) == TopLevel(words, "return") # {}

(* Also a limit after the last RETURN. *)
HasLimit(words) ==
    \E i \in TopLevel(words, "limit") : \A j \in TopLevel(words, "return") : j < i

ApplyLimit(words) ==
    LET scanned == StripLiterals(words)
    IN  IF HasReturn(scanned) /\ ~HasLimit(scanned) THEN Append(words, "limit") ELSE words

----------------------------------------------------------------------------
(* The database, outside: it takes one limit after the last RETURN, and    *)
(* none without one, and yields the records up to it.                      *)

Accepts(words) ==
    LET read   == StripLiterals(words)
        limits == {i \in TopLevel(read, "limit") : \A j \in TopLevel(read, "return") : j < i}
    IN  Cardinality(limits) <= (IF HasReturn(read) THEN 1 ELSE 0)

FirstOf(records, n) == SubSeq(records, 1, IF n < Len(records) THEN n ELSE Len(records))

Wanted(s) == IF s.limit = 0 THEN s.records ELSE FirstOf(s.records, s.limit)

Yields(s, cap) == IF ApplyLimit(s.words) # s.words THEN FirstOf(Wanted(s), cap) ELSE Wanted(s)

Neighbours(n) == {r \in DOMAIN RelEnds : n \in {RelEnds[r].from, RelEnds[r].to}
                                      /\ {RelEnds[r].from, RelEnds[r].to} \subseteq Labelled}

(* One hop around the nodes of the workspace with this id, in any order. *)
Around(id) ==
    LET centers == {n \in Labelled : EntityId[n] = id}
    IN  UNION {IF Neighbours(n) = {} THEN {[nodes |-> {n}, rels |-> {}]}
               ELSE {[nodes |-> {RelEnds[r].from, RelEnds[r].to}, rels |-> {r}] : r \in Neighbours(n)} :
               n \in centers}

----------------------------------------------------------------------------
(* Reading and shaping.                                                    *)

(* Of a node that is only the end of a relationship the driver knows no    *)
(* properties: its identity is the one the database gave it.               *)
Identity(n, full) == IF n \in full /\ EntityId[n] # NoId THEN EntityId[n] ELSE n

EdgeOf(r, full) ==
    [rel |-> r, source |-> Identity(RelEnds[r].from, full), target |-> Identity(RelEnds[r].to, full)]

NodesIn(records) == UNION {rec.nodes : rec \in Range(records)}
RelsIn(records)  == UNION {rec.rels : rec \in Range(records)}

(* A mutant: the ends of a relationship are not added. *)
CollectWithoutEnds(records, full) ==
    [nodes |-> {Identity(n, full) : n \in NodesIn(records)},
     edges |-> {EdgeOf(r, full) : r \in RelsIn(records)}]

(* The graph of the records read, when the driver has fetched the nodes in *)
(* full with their properties.                                             *)
Collect(records, full) ==
    LET ends == UNION {{RelEnds[r].from, RelEnds[r].to} : r \in RelsIn(records)}
    IN  [nodes |-> {Identity(n, full) : n \in NodesIn(records) \cup ends},
         edges |-> {EdgeOf(r, full) : r \in RelsIn(records)}]

(* A request: what it asks, its cap, where it stands, the records that     *)
(* follow and those read, and whether reading was cut off.                 *)
Request(kind, about, cap, s, records) ==
    [kind |-> kind, about |-> about, cap |-> cap, pc |-> "sent", statement |-> s,
     coming |-> records, read |-> <<>>, truncated |-> FALSE]

Run(s, cap) ==
    /\ Len(asked) < MaxCalls
    /\ asked' = Append(asked, Request("run", NoId, cap, s, Yields(s, cap)))
    /\ UNCHANGED <<result, base, expanding>>

(* One expansion at a time, of a node that is shown. *)
Expand(id) ==
    /\ Len(asked) < MaxCalls
    /\ ~expanding /\ expanding' = TRUE
    /\ result # NoResult /\ id \in result.nodes
    /\ \E records \in SetToSeqs(Around(id)) :
          asked' = Append(asked, Request("expand", id, ExpandLimit, NoResult,
                                         FirstOf(records, ExpandLimit)))
    /\ UNCHANGED <<result, base>>

Becomes(i, call) == asked' = [asked EXCEPT ![i] = call] /\ UNCHANGED <<result, base, expanding>>

RefuseWrite(i) ==
    /\ asked[i].pc = "sent" /\ asked[i].kind = "run" /\ Refused(asked[i].statement.words)
    /\ Becomes(i, [asked[i] EXCEPT !.pc = "refused"])

SyntaxError(i) ==
    /\ asked[i].pc = "sent" /\ asked[i].kind = "run" /\ ~Refused(asked[i].statement.words)
    /\ ~Accepts(ApplyLimit(asked[i].statement.words))
    /\ Becomes(i, [asked[i] EXCEPT !.pc = "wrong"])

BeginTransaction(i) ==
    /\ asked[i].pc = "sent"
    /\ asked[i].kind = "run" => /\ ~Refused(asked[i].statement.words)
                                /\ Accepts(ApplyLimit(asked[i].statement.words))
    /\ Becomes(i, [asked[i] EXCEPT !.pc = "reading"])

(* A mutant: the record that shows there are more is kept. *)
ReadRecordPastCap(i) ==
    /\ asked[i].pc = "reading" /\ asked[i].coming # <<>> /\ Len(asked[i].read) <= asked[i].cap
    /\ Becomes(i, [asked[i] EXCEPT !.coming = Tail(@), !.read = Append(@, Head(asked[i].coming))])

ReadRecord(i) ==
    /\ asked[i].pc = "reading" /\ asked[i].coming # <<>> /\ Len(asked[i].read) < asked[i].cap
    /\ Becomes(i, [asked[i] EXCEPT !.coming = Tail(@), !.read = Append(@, Head(asked[i].coming))])

ReadEnds(i) ==
    /\ asked[i].pc = "reading"
    /\ asked[i].coming = <<>> \/ Len(asked[i].read) >= asked[i].cap
    /\ Becomes(i, [asked[i] EXCEPT !.pc = IF asked[i].kind = "expand" /\ asked[i].read = <<>>
                                         THEN "missing" ELSE "answered",
                                !.truncated = asked[i].coming # <<>>])

(* No graph backend, a lost connection, the transaction's timeout. *)
DriverFails(i) ==
    /\ asked[i].pc \in {"sent", "reading"}
    /\ Becomes(i, [asked[i] EXCEPT !.pc = "failed"])

----------------------------------------------------------------------------
(* The page takes an answer whenever it comes.  A run replaces what is     *)
(* shown, an expansion is merged into what was shown when the page last    *)
(* rendered.                                                               *)

(* The driver fetches ahead: some of the records that are not read any     *)
(* more may have told it of a node.                                        *)
Payloads(c) ==
    {LET graph == Collect(c.read, NodesIn(c.read \o FirstOf(c.coming, ahead)))
     IN  [statement |-> c.statement, nodes |-> graph.nodes, edges |-> graph.edges] :
       ahead \in 0..Len(c.coming)}

MergeGraph(old, extra) ==
    [old EXCEPT !.nodes = @ \cup extra.nodes,
                !.edges = @ \cup {e \in extra.edges : \A x \in old.edges : x.rel # e.rel}]

Receive(i, kind, pcs) ==
    /\ asked[i].kind = kind /\ asked[i].pc \in pcs
    /\ asked' = [asked EXCEPT ![i].pc = "done"]

TakeRun(i) ==
    /\ Receive(i, "run", {"answered"})
    /\ result' \in Payloads(asked[i])
    /\ UNCHANGED <<base, expanding>>

TakeRunError(i) ==
    /\ Receive(i, "run", {"refused", "wrong", "failed"})
    /\ result' = NoResult
    /\ UNCHANGED <<base, expanding>>

TakeExpansion(i) ==
    /\ Receive(i, "expand", {"answered"})
    /\ \E extra \in Payloads(asked[i]) :
          result' = IF base = NoResult THEN extra ELSE MergeGraph(base, extra)
    /\ expanding' = FALSE
    /\ UNCHANGED base

TakeExpansionError(i) ==
    /\ Receive(i, "expand", {"missing", "failed"})
    /\ expanding' = FALSE
    /\ UNCHANGED <<result, base>>

Render == base # result /\ base' = result /\ UNCHANGED <<asked, result, expanding>>

Serve(i) ==
    \/ RefuseWrite(i) \/ SyntaxError(i) \/ BeginTransaction(i)
    \/ ReadRecord(i) \/ ReadEnds(i) \/ DriverFails(i)

ConsoleNext ==
    \/ \E s \in Statements, cap \in Limits : Run(s, cap)
    \/ \E id \in Range(EntityId) \cup GraphNode : Expand(id)
    \/ \E i \in DOMAIN asked :
          Serve(i) \/ TakeRun(i) \/ TakeRunError(i) \/ TakeExpansion(i) \/ TakeExpansionError(i)
    \/ Render

ConsoleSpec == ConsoleInit /\ [][ConsoleNext]_console

----------------------------------------------------------------------------
(* Properties.                                                             *)

(* Every relationship shown once, and between nodes that are shown, also   *)
(* when it was found without its nodes and however late expansions were    *)
(* merged into whatever is shown by then (cypher.py:395-399, 177-193 of    *)
(* CypherConsole.tsx).                                                     *)
EdgesJoinNodes ==
    result # NoResult =>
        /\ \A e \in result.edges : {e.source, e.target} \subseteq result.nodes
        /\ \A e, f \in result.edges : e.rel = f.rel => e = f

(* An answer holds the first records the statement asks for, up to the cap; *)
(* it is said to be cut only when there are more; and a statement that was  *)
(* not given a limit has all its records unless it is said to be cut        *)
(* (cypher.py:452-482).                                                     *)
AnswersAreWhole ==
    \A i \in DOMAIN asked : asked[i].pc = "answered" /\ asked[i].kind = "run" =>
        LET c == asked[i]
            wanted == Wanted(c.statement)
        IN  /\ c.read = FirstOf(wanted, c.cap)
            /\ c.truncated => Len(wanted) > c.cap
            /\ ~c.truncated /\ ApplyLimit(c.statement.words) = c.statement.words => c.read = wanted

=============================================================================
