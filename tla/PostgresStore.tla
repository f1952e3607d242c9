----------------------------- MODULE PostgresStore -----------------------------
(***************************************************************************)
(* The PostgreSQL backends of one engine: the stores of a process share    *)
(* one counted pool (ClientManager), an upsert of several rows is one      *)
(* transaction on a connection of that pool, and the life of the service   *)
(* around them: storages are initialized one by one at start-up, used by   *)
(* the background tasks, and finalized one by one after those were waited  *)
(* for, or cancelled and waited for again.  In library use nobody starts   *)
(* the engine: the first calls initialize it, possibly two at a time, and  *)
(* may meet a finalize.                                                    *)
(***************************************************************************)
EXTENDS Naturals, Sequences, FiniteSets, SequencesExt

CONSTANTS
    Main,        \* the task that starts and stops the engine
    Worker,      \* tasks that index or serve
    Stores,      \* the sequence of the engine's stores
    Vectors,     \* those of them that are vector tables
    Row,         \* primary keys
    Dims,        \* embedding dimensions
    NoDim,       \* the table does not exist
    Nobody,      \* the manager's lock is free
    MaxConn,     \* POSTGRES_MAX_CONNECTIONS
    MaxBatches,  \* bound: upserts
    MaxInits     \* bound: initializations begun

Batches == 1 .. MaxBatches

ASSUME PostgresAssumption ==
    /\ Main \notin Worker /\ Nobody \notin Worker \cup {Main}
    /\ Stores \in Seq(Range(Stores)) /\ Len(Stores) > 0 /\ IsInjective(Stores)
    /\ Vectors \subseteq Range(Stores) /\ NoDim \notin Dims
    /\ MaxConn \in Nat \ {0, 1} /\ {MaxBatches, MaxInits} \subseteq Nat

VARIABLES
    mode,         \* served by the API, or used as a library
    life,         \* of the service
    initialized,  \* _initialized of the engine
    place,        \* where a task is, and at which store
    registered,   \* the pool in _pools, by number; 0 when there is none
    refs,         \* its ref_count
    made,         \* pools made so far
    closed,       \* those closed
    handle,       \* _pool of each store, 0 for None
    managed,      \* _lock of the manager
    dropped,      \* the pool Main is giving back
    dim,          \* the configured embedding dimension
    column,       \* the dimension of each vector table
    batch,        \* the upsert of each worker: number, rows, pool
    written,      \* the rows its transaction has written
    outcome,      \* of each upsert
    table,        \* the committed rows: which upsert wrote them, 0 for none
    inits         \* initializations begun

process  == <<initialized, place, registered, refs, made, closed, handle, managed, dropped>>
database == <<column, batch, written, outcome, table>>
pgVars   == <<mode, life, process, dim, database, inits>>

Tasks == Worker \cup {Main}
Store == Range(Stores)

Out     == [pc |-> "out", i |-> 0]
NoBatch == [number |-> 0, store |-> Stores[1], rows |-> {}, pool |-> 0]

NewProcess ==
    /\ initialized' = FALSE /\ place' = [p \in Tasks |-> Out]
    /\ registered' = 0 /\ refs' = 0 /\ made' = 0 /\ closed' = {}
    /\ handle' = [s \in Store |-> 0] /\ managed' = Nobody /\ dropped' = 0

PgInit ==
    /\ mode \in {"served", "library"}
    /\ life = IF mode = "served" THEN "stopped" ELSE "serving"
    /\ initialized = FALSE /\ place = [p \in Tasks |-> Out]
    /\ registered = 0 /\ refs = 0 /\ made = 0 /\ closed = {}
    /\ handle = [s \in Store |-> 0] /\ managed = Nobody /\ dropped = 0
    /\ dim \in Dims /\ column \in [Vectors -> Dims \cup {NoDim}]
    /\ batch = [p \in Worker |-> NoBatch] /\ written = [p \in Worker |-> {}]
    /\ outcome = [b \in Batches |-> "none"]
    /\ table = [s \in Store |-> [r \in Row |-> 0]]
    /\ inits = 0

-----------------------------------------------------------------------------
\* initialize_storages: one store after the other, each takes the pool and
\* makes its table.

Here(p, pc) == place[p].pc = pc
StoreAt(p)  == Stores[place[p].i]
GoOn(p, pc) == [place EXCEPT ![p].pc = pc]

BeginInit(p) ==
    /\ inits < MaxInits /\ inits' = inits + 1
    /\ place' = [place EXCEPT ![p] = [pc |-> "get", i |-> 1]]

\* A mutant: a pool that is there is taken without being counted.
GetClientUncounted(p) ==
    /\ Here(p, "get") /\ managed = Nobody /\ registered # 0
    /\ handle' = [handle EXCEPT ![StoreAt(p)] = registered]
    /\ place' = GoOn(p, "ddl")
    /\ UNCHANGED <<mode, life, initialized, registered, refs, made, closed, managed, dropped,
                   dim, database, inits>>

GetClient(p) ==
    /\ Here(p, "get") /\ managed = Nobody /\ registered # 0
    /\ refs' = refs + 1
    /\ handle' = [handle EXCEPT ![StoreAt(p)] = registered]
    /\ place' = GoOn(p, "ddl")
    /\ UNCHANGED <<mode, life, initialized, registered, made, closed, managed, dropped,
                   dim, database, inits>>

\* The lock is held while the pool connects.
CreatePool(p) ==
    /\ Here(p, "get") /\ managed = Nobody /\ registered = 0
    /\ managed' = p /\ place' = GoOn(p, "create")
    /\ UNCHANGED <<mode, life, initialized, registered, refs, made, closed, handle, dropped,
                   dim, database, inits>>

PoolCreated(p) ==
    /\ Here(p, "create")
    /\ made' = made + 1 /\ registered' = made' /\ refs' = 1
    /\ handle' = [handle EXCEPT ![StoreAt(p)] = made']
    /\ managed' = Nobody /\ place' = GoOn(p, "ddl")
    /\ UNCHANGED <<mode, life, initialized, closed, dropped, dim, database, inits>>

\* A mutant: a start-up that failed is not cleaned up.
InitRaisesUnclean(p) ==
    /\ place' = [place EXCEPT ![p] = Out]
    /\ life' = IF p = Main THEN "stopped" ELSE life

\* initialize raises: the service goes straight to its shutdown, a library
\* call fails; what the stores already hold they keep.
InitRaises(p) ==
    /\ place' = [place EXCEPT ![p] = Out]
    /\ life' = IF p = Main THEN "draining" ELSE life

PoolNotCreated(p) ==
    /\ Here(p, "create")
    /\ InitRaises(p) /\ managed' = Nobody
    /\ UNCHANGED <<mode, initialized, registered, refs, made, closed, handle, dropped,
                   dim, database, inits>>

\* The table of an earlier run keeps the dimension it was made with.
Mismatch(s) == s \in Vectors /\ column[s] \notin {NoDim, dim}

TableMade(p) ==
    LET last == place[p].i = Len(Stores)
    IN  /\ Here(p, "ddl")
        /\ initialized' = (initialized \/ last)
        /\ place' = [place EXCEPT ![p] =
              IF last THEN Out ELSE [pc |-> "get", i |-> place[p].i + 1]]
        /\ life' = IF last /\ p = Main THEN "serving" ELSE life
        /\ UNCHANGED <<mode, registered, refs, made, closed, handle, managed, dropped, dim,
                       batch, written, outcome, table, inits>>

InitializeRows(p) ==
    StoreAt(p) \notin Vectors /\ TableMade(p) /\ UNCHANGED column

InitializeVectors(p) ==
    /\ StoreAt(p) \in Vectors /\ ~Mismatch(StoreAt(p))
    /\ TableMade(p)
    /\ column' = [column EXCEPT ![StoreAt(p)] = dim]

\* A statement fails, the dimension is another one, or a finalize took the pool.
TableFails(p) ==
    /\ Here(p, "ddl")
    /\ InitRaises(p)
    /\ UNCHANGED <<mode, initialized, registered, refs, made, closed, handle, managed, dropped,
                   dim, database, inits>>

InitStep(p) ==
    /\ place[p].i # 0
    /\ \/ GetClient(p) \/ CreatePool(p) \/ PoolCreated(p) \/ PoolNotCreated(p)
       \/ InitializeRows(p) \/ InitializeVectors(p) \/ TableFails(p)

-----------------------------------------------------------------------------
\* The tasks: a call on an engine nobody has started starts it first.

EnsureInitialized(p) ==
    /\ life = "serving" /\ place[p] = Out /\ ~initialized
    /\ BeginInit(p)
    /\ UNCHANGED <<mode, life, initialized, registered, refs, made, closed, handle, managed,
                   dropped, dim, database>>

Busy(pool) == {p \in Worker : batch[p].number # 0 /\ batch[p].pool = pool}

Working == life \in {"serving", "draining"} \/ mode = "library"

\* Without a pool the call raises at once.
BeginUpsert(p, s, rows) ==
    \E b \in Batches :
        /\ Working /\ place[p] = Out /\ initialized
        /\ handle[s] # 0 /\ Cardinality(Busy(handle[s])) < MaxConn
        /\ outcome[b] = "none" /\ \A c \in 1 .. b - 1 : outcome[c] # "none"
        /\ outcome' = [outcome EXCEPT ![b] = "open"]
        /\ batch' = [batch EXCEPT ![p] =
              [number |-> b, store |-> s, rows |-> rows, pool |-> handle[s]]]
        /\ place' = GoOn(p, "write")
        /\ UNCHANGED <<mode, life, initialized, registered, refs, made, closed, handle, managed,
                       dropped, dim, column, written, table, inits>>

\* What get_all reads, in one statement.
Rows(s) == {r \in Row : table[s][r] # 0}

\* One statement, committed by itself.
Withdraw(p, s, rows) ==
    /\ Working /\ place[p] = Out /\ initialized
    /\ handle[s] # 0 /\ Cardinality(Busy(handle[s])) < MaxConn
    /\ table' = [table EXCEPT ![s] = [r \in Row |-> IF r \in rows THEN 0 ELSE @[r]]]
    /\ UNCHANGED <<mode, life, process, dim, column, batch, written, outcome, inits>>

DeleteRows(p, s, rows) == rows # {} /\ Withdraw(p, s, rows)

DropRows(p, s) == Withdraw(p, s, Row)

Writing(p) == Here(p, "write") /\ written[p] # batch[p].rows

WriteRow(p, r) ==
    /\ Writing(p) /\ r \in batch[p].rows \ written[p]
    /\ written' = [written EXCEPT ![p] = @ \cup {r}]
    /\ UNCHANGED <<mode, life, process, dim, column, batch, outcome, table, inits>>

Ended(ended, how) ==
    /\ batch' = [p \in Worker |-> IF p \in ended THEN NoBatch ELSE batch[p]]
    /\ written' = [p \in Worker |-> IF p \in ended THEN {} ELSE written[p]]
    /\ outcome' = [b \in Batches |->
          IF \E p \in ended : batch[p].number = b THEN how ELSE outcome[b]]

Commit(p) ==
    /\ Here(p, "write") /\ ~Writing(p)
    /\ table' = [table EXCEPT ![batch[p].store] =
          [r \in Row |-> IF r \in written[p] THEN batch[p].number ELSE @[r]]]
    /\ Ended({p}, "done")
    /\ place' = [place EXCEPT ![p] = Out]
    /\ UNCHANGED <<mode, life, initialized, registered, refs, made, closed, handle, managed,
                   dropped, dim, column, inits>>

\* A statement fails, the database picks it as the victim of a deadlock, or a
\* record has no embedding.
Rollback(p) ==
    /\ Here(p, "write")
    /\ Ended({p}, "failed")
    /\ place' = [place EXCEPT ![p] = Out]
    /\ UNCHANGED <<mode, life, initialized, registered, refs, made, closed, handle, managed,
                   dropped, dim, column, table, inits>>

\* A cancelled task has unwound: its rollback is answered, its connection given
\* back, and what its callers flush on their way out is flushed or has failed.
Unwound(p) ==
    /\ Here(p, "unwind")
    /\ Ended({p}, "failed")
    /\ place' = [place EXCEPT ![p] = Out]
    /\ UNCHANGED <<mode, life, initialized, registered, refs, made, closed, handle, managed,
                   dropped, dim, column, table, inits>>

TaskStep(p) ==
    \/ InitStep(p) \/ EnsureInitialized(p)
    \/ \E s \in Store, rows \in SUBSET Row \ {{}} : BeginUpsert(p, s, rows)
    \/ \E r \in Row : WriteRow(p, r)
    \/ \E s \in Store, rows \in SUBSET Row : DeleteRows(p, s, rows)
    \/ \E s \in Store : DropRows(p, s)
    \/ Commit(p) \/ Rollback(p) \/ Unwound(p)

-----------------------------------------------------------------------------
\* lifespan: start-up and shutdown of the service.

Start ==
    /\ mode = "served" /\ life = "stopped"
    /\ life' = "starting" /\ dim' \in Dims
    /\ inits < MaxInits /\ inits' = inits + 1
    /\ initialized' = FALSE
    /\ registered' = 0 /\ refs' = 0 /\ made' = 0 /\ closed' = {}
    /\ handle' = [s \in Store |-> 0] /\ managed' = Nobody /\ dropped' = 0
    /\ place' = [p \in Tasks |-> IF p = Main THEN [pc |-> "get", i |-> 1] ELSE Out]
    /\ UNCHANGED <<mode, database>>

Terminate ==
    /\ mode = "served" /\ life = "serving"
    /\ life' = "draining"
    /\ UNCHANGED <<mode, process, dim, database, inits>>

BeginFinalize == life' = "closing" /\ place' = [place EXCEPT ![Main] = [pc |-> "release", i |-> 1]]

AllOut == \A p \in Worker : place[p] = Out

\* The tasks are waited for, the cancelled ones without a limit.
Drained ==
    /\ life \in {"draining", "unwinding"} /\ AllOut
    /\ BeginFinalize
    /\ UNCHANGED <<mode, initialized, registered, refs, made, closed, handle, managed, dropped,
                   dim, database, inits>>

\* A mutant: the tasks are waited for, however long they take.
DrainTimesOutPatiently ==
    /\ life = "draining" /\ ~AllOut
    /\ UNCHANGED pgVars

\* The time for the drain is over, and who still works is cancelled.
DrainTimesOut ==
    /\ life = "draining" /\ ~AllOut
    /\ life' = "unwinding"
    /\ place' = [p \in Tasks |-> IF Here(p, "write") THEN [place[p] EXCEPT !.pc = "unwind"] ELSE Out]
    /\ UNCHANGED <<mode, initialized, registered, refs, made, closed, handle, managed,
                   dropped, dim, database, inits>>

\* A library finalizes when it likes.
FinalizeLibrary ==
    /\ mode = "library" /\ life = "serving" /\ initialized
    /\ BeginFinalize
    /\ UNCHANGED <<mode, initialized, registered, refs, made, closed, handle, managed, dropped,
                   dim, database, inits>>

Over == life' = IF mode = "served" THEN "stopped" ELSE "serving"

\* The store forgets its pool before it gives it back.
Forget(s) ==
    /\ handle[s] # 0
    /\ dropped' = handle[s] /\ handle' = [handle EXCEPT ![s] = 0]
    /\ place' = GoOn(Main, "drop")
    /\ UNCHANGED <<initialized, life>>

NextStore ==
    LET last == place[Main].i = Len(Stores)
    IN  /\ place' = [place EXCEPT ![Main] =
              IF last THEN Out ELSE [pc |-> "release", i |-> place[Main].i + 1]]
        /\ IF last THEN initialized' = FALSE /\ Over ELSE UNCHANGED <<initialized, life>>

FinalizeStore ==
    /\ Here(Main, "release")
    /\ \/ Forget(StoreAt(Main))
       \/ handle[StoreAt(Main)] = 0 /\ NextStore /\ UNCHANGED <<dropped, handle>>
    /\ UNCHANGED <<mode, registered, refs, made, closed, managed, dim, database, inits>>

\* release_client: the last reference closes the pool, under the lock; a pool
\* that is not registered is closed without it.
DropReference ==
    /\ Here(Main, "drop") /\ managed = Nobody
    /\ registered = dropped /\ refs > 1
    /\ refs' = refs - 1
    /\ NextStore
    /\ UNCHANGED <<mode, registered, made, closed, handle, managed, dropped, dim, database, inits>>

LastReference ==
    /\ Here(Main, "drop") /\ managed = Nobody
    /\ registered # dropped \/ refs <= 1
    /\ registered' = IF registered = dropped THEN 0 ELSE registered
    /\ refs' = IF registered = dropped THEN 0 ELSE refs
    /\ managed' = IF registered = dropped THEN Main ELSE managed
    /\ place' = GoOn(Main, "close")
    /\ UNCHANGED <<mode, life, initialized, made, closed, handle, dropped, dim, database, inits>>

\* pool.close waits for the connections that are out.
PoolCloses ==
    /\ Here(Main, "close") /\ Busy(dropped) = {}
    /\ closed' = closed \cup {dropped}
    /\ managed' = IF managed = Main THEN Nobody ELSE managed
    /\ NextStore
    /\ UNCHANGED <<mode, registered, refs, made, handle, dropped, dim, database, inits>>

\* The rest of finalize_storages is not reached.
PoolCloseFails ==
    /\ Here(Main, "close")
    /\ managed' = IF managed = Main THEN Nobody ELSE managed
    /\ place' = [place EXCEPT ![Main] = Out]
    /\ Over
    /\ UNCHANGED <<mode, initialized, registered, refs, made, closed, handle, dropped,
                   dim, database, inits>>

\* The process dies: open transactions are rolled back.
Die ==
    /\ mode = "served" /\ life # "stopped" /\ life' = "stopped"
    /\ NewProcess
    /\ Ended({p \in Worker : Here(p, "write") \/ Here(p, "unwind")}, "failed")
    /\ UNCHANGED <<mode, dim, column, table, inits>>

MainStep ==
    \/ InitStep(Main)
    \/ Drained \/ DrainTimesOut
    \/ FinalizeStore \/ DropReference \/ LastReference \/ PoolCloses \/ PoolCloseFails

PgNext ==
    \/ \E p \in Worker : TaskStep(p)
    \/ MainStep
    \/ Start \/ Terminate \/ FinalizeLibrary \/ Die

\* Start-up and shutdown go on as far as they can; of the statements of the
\* tasks nothing is assumed, the database may keep them waiting.
PgFairness == WF_pgVars(MainStep)

PgSpec == PgInit /\ [][PgNext]_pgVars

-----------------------------------------------------------------------------
\* No store is left holding a pool that was closed, or that is given back
\* once too often, and no pool is closed under a running transaction: even
\* when two first calls initialize the engine together, or a finalize meets
\* them.
HeldIsOpen ==
    /\ \A s \in Store : handle[s] \in {0, registered}
    /\ Cardinality({s \in Store : handle[s] # 0}) <= refs
    /\ \A p \in Worker : batch[p].number # 0 => batch[p].pool \notin closed

\* When the service has stopped, after a start-up that failed half-way as
\* after an ordinary shutdown, no store has a pool and no pool is left in the
\* registry: the next worker finds the connections of the server free.
StoppedIsReleased ==
    mode = "served" /\ life = "stopped" =>
        registered = 0 /\ managed = Nobody /\ \A s \in Store : handle[s] = 0

\* Every row that can be read was written by an upsert that came to its end:
\* none by one that failed, was cancelled, or died with the process.
RowsAreWhole ==
    \A s \in Store : \A r \in Rows(s) : outcome[table[s][r]] = "done"

\* Every shutdown comes to its end: the service is not for ever on its way
\* down, whatever the database does with the statements of the background
\* tasks.
ShutdownEnds ==
    []<>(mode = "served" => life \notin {"draining", "unwinding", "closing"})

\* What the time for the drain does bound: tasks that write on, or wait for a
\* statement, do not keep a shutdown from its end, as long as the database
\* answers the rollback of every task that is cancelled.
ShutdownEndsIfAnswered ==
    (\A p \in Worker : []<>~Here(p, "unwind")) => ShutdownEnds
================================================================================
