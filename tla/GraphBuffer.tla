------------------------------ MODULE GraphBuffer ------------------------------
(***************************************************************************)
(* Neo4JStorage while the engine installs a memory graph in it.  Inside    *)
(* batch() the writes of the installing task gather in two buffers, which  *)
(* are sent in chunks when the batch is left.  Any read sends them first,  *)
(* whoever reads: the routes that show the graph do not take the corpus    *)
(* lock, so a flush of theirs takes the buffers of the installing task.    *)
(*                                                                         *)
(* A node is written with its content, or as a stub when only an edge      *)
(* names it.  A statement is one transaction; a step is one statement, or  *)
(* what a task does between two.                                           *)
(*                                                                         *)
(* A workspace is a label, and another engine may have nodes under it: the *)
(* storage looks for them when it opens, and marks its own so that clear   *)
(* deletes no others.                                                      *)
(***************************************************************************)
EXTENDS Naturals, FiniteSets

CONSTANTS
    Node, Edge,   \* an edge is a pair of nodes
    Installer,    \* the task under the corpus lock
    Reader,       \* tasks of routes that read the graph
    BatchRows,    \* BATCH_ROWS
    Foreign,      \* what another engine may have in the workspace: sets of nodes
    MayShare,     \* MEMGRAPHRAG_ALLOW_SHARED_NEO4J_WORKSPACE
    MaxOpens,     \* bound: times the storage is opened
    MaxInstalls   \* bound: graphs installed

ASSUME BufferAssumption ==
    /\ Edge \subseteq Node \X Node /\ Foreign \subseteq SUBSET Node /\ Installer \notin Reader
    /\ BatchRows \in Nat \ {0} /\ {MaxInstalls, MaxOpens} \subseteq Nat
    /\ MayShare \in BOOLEAN

Task == Reader \cup {Installer}

VARIABLES
    opening,    \* "closed", "connected", "open", or "refused"
    opens,
    nodes,      \* the database: "absent", "stub", "full", or another engine's, "foreign"
    edges,      \* the database: its edges
    pendNodes,  \* _pending_nodes
    pendEdges,  \* _pending_edges
    depth,      \* _batch_depth
    job,        \* what a task has taken from the buffers and not sent yet
    stage,      \* where the installing task is
    outcome,    \* how its last batch ended: "none", "raised", "returned"
    installs,
    theirs,     \* history: the other engine's nodes
    claimed,    \* history: those of them this engine was told to write
    wroteNodes, wroteEdges,  \* history: the writes of the current graph
    helped,     \* history: another task had rows of the buffers meanwhile
    lost        \* history: rows of a failed flush, since this graph was begun

buffers == <<pendNodes, pendEdges>>
lasting == <<opening, opens, theirs, claimed>>
graph   == <<wroteNodes, wroteEdges, helped, lost>>
history == <<lasting, graph>>
vars == <<nodes, edges, buffers, depth, job, stage, outcome, installs, history>>

NoJob == [at |-> "idle", full |-> {}, stub |-> {}, edges |-> {}]
Ends(E) == {e[1] : e \in E} \cup {e[2] : e \in E}
Present == {n \in Node : nodes[n] # "absent"}

Init ==
    /\ opening = "closed" /\ opens = 0 /\ claimed = {}
    /\ theirs \in Foreign /\ edges = {}
    /\ nodes = [n \in Node |-> IF n \in theirs THEN "foreign" ELSE "absent"]
    /\ pendNodes = {} /\ pendEdges = {} /\ depth = 0
    /\ job = [t \in Task |-> NoJob]
    /\ stage = "idle" /\ outcome = "none" /\ installs = 0
    /\ wroteNodes = {} /\ wroteEdges = {} /\ helped = FALSE /\ lost = FALSE

----------------------------------------------------------------------------
(* Opening.  A database that does not answer is replaced by the default    *)
(* one; an index that cannot be made is done without.                      *)

Open(now) ==
    /\ opening' = now
    /\ UNCHANGED <<nodes, edges, buffers, depth, job, stage, outcome, installs, theirs,
                   claimed, graph>>

Connect ==
    /\ opening = "closed" /\ opens < MaxOpens
    /\ opens' = opens + 1
    /\ Open("connected") \/ Open("refused")

(* A look that fails must not keep the service from starting.              *)
AssertNotShared ==
    /\ opening = "connected" /\ UNCHANGED opens
    /\ \/ Open("open")
       \/ ~MayShare /\ (\E n \in Node : nodes[n] = "foreign") /\ Open("refused")

(* The process ends, in whatever it was doing.                             *)
Restart ==
    /\ opening # "closed" /\ opening' = "closed"
    /\ pendNodes' = {} /\ pendEdges' = {} /\ depth' = 0
    /\ job' = [t \in Task |-> NoJob] /\ stage' = "idle" /\ outcome' = "none"
    /\ wroteNodes' = {} /\ wroteEdges' = {} /\ helped' = FALSE /\ lost' = FALSE
    /\ UNCHANGED <<nodes, edges, installs, opens, theirs, claimed>>

----------------------------------------------------------------------------
(* _flush_pending.  The buffers are taken before the first statement; ends *)
(* without a node of their own in them are looked up, and those that do    *)
(* not exist become stubs.                                                 *)

Take(t) ==
    LET unknown == Ends(pendEdges) \ pendNodes
    IN  /\ job' = [job EXCEPT ![t] =
                      [at |-> IF unknown = {} THEN "send" ELSE "probe",
                       full |-> pendNodes, stub |-> unknown, edges |-> pendEdges]]
        /\ pendNodes' = {} /\ pendEdges' = {}

Nothing == pendNodes = {} /\ pendEdges = {}

(* A mutant: ends that do not exist get no stub.                           *)
ProbeForgets(t) ==
    /\ job[t].at = "probe"
    /\ job' = [job EXCEPT ![t].at = "send", ![t].stub = {}]
    /\ UNCHANGED <<nodes, edges, buffers, depth, stage, outcome, installs, history>>

Probe(t) ==
    /\ job[t].at = "probe"
    /\ job' = [job EXCEPT ![t].at = "send", ![t].stub = @ \ Present]
    /\ UNCHANGED <<nodes, edges, buffers, depth, stage, outcome, installs, history>>

Chunks(S) == {C \in SUBSET S : C # {} /\ Cardinality(C) <= BatchRows}

NodesSent(t) == job[t].full = {} /\ job[t].stub = {}

(* UNWIND ... MERGE ... SET: what the statement says replaces what is there.*)
SendFull(t) ==
    /\ job[t].at = "send"
    /\ \E C \in Chunks(job[t].full) :
          /\ nodes' = [n \in Node |-> IF n \in C THEN "full" ELSE nodes[n]]
          /\ job' = [job EXCEPT ![t].full = @ \ C]
    /\ UNCHANGED <<edges, buffers, depth, stage, outcome, installs, history>>

SendStubs(t) ==
    /\ job[t].at = "send"
    /\ \E C \in Chunks(job[t].stub) :
          /\ nodes' = [n \in Node |-> IF n \in C THEN "stub" ELSE nodes[n]]
          /\ job' = [job EXCEPT ![t].stub = @ \ C]
    /\ UNCHANGED <<edges, buffers, depth, stage, outcome, installs, history>>

(* MATCH, MATCH, MERGE: an edge without both ends is passed over silently. *)
Matched(C) == {e \in C : Ends({e}) \subseteq Present}

SendEdges(t) ==
    /\ job[t].at = "send" /\ NodesSent(t)
    /\ \E C \in Chunks(job[t].edges) :
          /\ edges' = edges \cup Matched(C)
          /\ job' = [job EXCEPT ![t].edges = @ \ C]
    /\ UNCHANGED <<nodes, buffers, depth, stage, outcome, installs, history>>

(* A flush of the installing task ends its batch; one of a reader lets the *)
(* reader read.                                                            *)
Sent(t) ==
    /\ job[t].at = "send" /\ NodesSent(t) /\ job[t].edges = {}
    /\ job' = [job EXCEPT ![t] = NoJob]
    /\ IF t = Installer
       THEN /\ stage' = "idle"
            /\ outcome' = IF outcome = "raised" THEN "raised" ELSE "returned"
       ELSE UNCHANGED <<stage, outcome>>
    /\ UNCHANGED <<nodes, edges, buffers, depth, installs, history>>

(* The probe or a statement raises: the rows that are left are nowhere any *)
(* more, and only the task that flushed learns of it.                      *)
FlushFails(t) ==
    /\ job[t].at # "idle"
    /\ job' = [job EXCEPT ![t] = NoJob]
    /\ lost' = TRUE
    /\ IF t = Installer THEN stage' = "idle" /\ outcome' = "raised"
       ELSE UNCHANGED <<stage, outcome>>
    /\ UNCHANGED <<nodes, edges, buffers, depth, installs, lasting,
                   wroteNodes, wroteEdges, helped>>

(* get_node, get_edge, has_edge, get_all_nodes, get_all_edges, node_degree.*)
Read(r) ==
    /\ opening = "open" /\ job[r].at = "idle" /\ ~Nothing
    /\ Take(r) /\ helped' = TRUE
    /\ UNCHANGED <<nodes, edges, depth, stage, outcome, installs, lasting,
                   wroteNodes, wroteEdges, lost>>

----------------------------------------------------------------------------
(* _install_memory_graph, inside the batch of the corpus rewrite: a batch  *)
(* of its own, clear, nodes, edges.                                        *)

BeginInstall ==
    /\ opening = "open" /\ stage = "idle" /\ installs < MaxInstalls
    /\ installs' = installs + 1
    /\ depth' = depth + 2 /\ pendNodes' = {} /\ pendEdges' = {}
    /\ stage' = "clear" /\ outcome' = "none"
    /\ wroteNodes' = {} /\ wroteEdges' = {} /\ lost' = FALSE
    /\ helped' = \E r \in Reader : job[r].at # "idle"
    /\ UNCHANGED <<nodes, edges, job, lasting>>

(* A mutant: the label alone says what is deleted.                         *)
LabelledNodes == Present

OwnedNodes == {n \in Present : nodes[n] # "foreign"}

(* DETACH DELETE. *)
Clear ==
    /\ stage = "clear" /\ stage' = "fill"
    /\ nodes' = [n \in Node |-> IF n \in OwnedNodes THEN "absent" ELSE nodes[n]]
    /\ edges' = {e \in edges : Ends({e}) \cap OwnedNodes = {}}
    /\ UNCHANGED <<buffers, depth, job, outcome, installs, history>>

HasNode(n) == n \in pendNodes \/ n \in Present

UpsertNode(n) ==
    /\ stage = "fill"
    /\ pendNodes' = pendNodes \cup {n} /\ wroteNodes' = wroteNodes \cup {n}
    /\ claimed' = claimed \cup ({n} \cap theirs)
    /\ UNCHANGED <<nodes, edges, pendEdges, depth, job, stage, outcome, installs,
                   opening, opens, theirs, wroteEdges, helped, lost>>

(* The node of a type or an entity that several schemas or facts name. *)
UpsertOnce(n) ==
    /\ ~HasNode(n)
    /\ UpsertNode(n)

UpsertEdge(e) ==
    /\ stage = "fill"
    /\ pendEdges' = pendEdges \cup {e} /\ wroteEdges' = wroteEdges \cup {e}
    /\ UNCHANGED <<nodes, edges, pendNodes, depth, job, stage, outcome, installs,
                   lasting, wroteNodes, helped, lost>>

(* A statement of the body raises: both batches are left all the same.     *)
BodyFails ==
    /\ stage \in {"clear", "fill"} /\ outcome = "none"
    /\ outcome' = "raised" /\ stage' = "leave"
    /\ UNCHANGED <<nodes, edges, buffers, depth, job, installs, history>>

(* A mutant: leaving only lowers the counter.                              *)
LeaveUnflushed ==
    /\ stage \in {"fill", "leave"}
    /\ depth' = depth - 2 /\ stage' = "idle"
    /\ outcome' = IF outcome = "raised" THEN "raised" ELSE "returned"
    /\ UNCHANGED <<nodes, edges, buffers, job, installs, history>>

(* Leaving the inner batch flushes nothing, leaving the outer one does.    *)
Leave ==
    /\ stage \in {"fill", "leave"}
    /\ depth' = depth - 2
    /\ IF Nothing
       THEN /\ stage' = "idle"
            /\ outcome' = IF outcome = "raised" THEN "raised" ELSE "returned"
            /\ UNCHANGED <<buffers, job>>
       ELSE Take(Installer) /\ stage' = "flush" /\ UNCHANGED outcome
    /\ UNCHANGED <<nodes, edges, installs, history>>

----------------------------------------------------------------------------
(* Outside a batch a write is sent at once, an edge after stubs for the    *)
(* ends that has_node does not find.                                       *)

UpsertNodeNow(n) ==
    /\ opening = "open" /\ stage = "idle" /\ depth = 0
    /\ nodes' = [nodes EXCEPT ![n] = "full"] /\ wroteNodes' = wroteNodes \cup {n}
    /\ claimed' = claimed \cup ({n} \cap theirs)
    /\ UNCHANGED <<edges, buffers, depth, job, stage, outcome, installs,
                   opening, opens, theirs, wroteEdges, helped, lost>>

UpsertEdgeNow(e) ==
    /\ opening = "open" /\ stage = "idle" /\ depth = 0
    /\ nodes' = [n \in Node |-> IF n \in Ends({e}) /\ ~HasNode(n) THEN "stub" ELSE nodes[n]]
    /\ edges' = edges \cup {e} /\ wroteEdges' = wroteEdges \cup {e}
    /\ UNCHANGED <<buffers, depth, job, stage, outcome, installs, lasting,
                   wroteNodes, helped, lost>>

Next ==
    \/ Connect \/ AssertNotShared \/ Restart
    \/ \E t \in Task : Probe(t) \/ SendFull(t) \/ SendStubs(t) \/ SendEdges(t)
                       \/ Sent(t) \/ FlushFails(t)
    \/ \E r \in Reader : Read(r)
    \/ BeginInstall \/ Clear \/ BodyFails \/ Leave
    \/ \E n \in Node : UpsertNode(n) \/ UpsertOnce(n) \/ UpsertNodeNow(n)
    \/ \E e \in Edge : UpsertEdge(e) \/ UpsertEdgeNow(e)

Spec == Init /\ [][Next]_vars

----------------------------------------------------------------------------

(* A batch that was left without an exception has delivered its writes,    *)
(* contents included, unless another task had some of them in its hands.   *)
BatchDelivers ==
    stage = "idle" /\ outcome = "returned" /\ ~helped =>
        /\ \A n \in wroteNodes : nodes[n] = "full"
        /\ wroteEdges \subseteq edges

(* Whoever sends them, and in whatever order the flushes of several tasks  *)
(* interleave: when all is sent and none has failed, every node and every  *)
(* edge of the graph is there.  A node may have become a stub.             *)
AllArrive ==
    /\ stage = "idle" /\ outcome = "returned" /\ ~lost
    /\ \A t \in Task : job[t].at = "idle"
    => wroteNodes \subseteq OwnedNodes /\ wroteEdges \subseteq edges

(* What another engine has under the label is never deleted, nor taken     *)
(* over, by graphs that only have edges to it: nodes of its own are the    *)
(* only ones this engine writes or clears (clear, the ownership marker,    *)
(* the look for existing ends in _flush_pending and upsert_edge).          *)
ForeignKept == \A n \in theirs \ claimed : nodes[n] = "foreign"

===============================================================================
