------------------------------ MODULE StoresProofs ------------------------------
(***************************************************************************)
(* What is kept outside the process: the file-backed stores, the input     *)
(* directory and PostgreSQL.                                               *)
(*                                                                         *)
(* For any number of tasks, records and values, the persistence protocol   *)
(* of the stores keeps its types, never calls a namespace clean that is    *)
(* not on disk, and implements the durable map.  For any number of         *)
(* documents, uploads at once and activities around the folder, no         *)
(* document is parsed from the bytes of another one of its name.  For any  *)
(* number of stores, tasks, rows, connections, upserts and                 *)
(* initializations, PostgreSQL keeps whole upserts and its pool is open    *)
(* while it is held and gone after a stop.                                 *)
(***************************************************************************)
EXTENDS FileStore, InputFolder, PostgresStore, FiniteSetTheorems, TLAPS

----------------------------------------------------------------------------
(* PostgreSQL.                                                             *)

InitPcs  == {"get", "create", "ddl"}
FinalPcs == {"release", "drop", "close"}
Place    == [pc : {"out", "write", "unwind"} \cup InitPcs \cup FinalPcs, i : Nat]
Batch    == [number : 0..MaxBatches, store : Store, rows : SUBSET Row, pool : Nat]

Held == {s \in Store : handle[s] # 0}
Pc(p) == place[p].pc

----------------------------------------------------------------------------------
(* Rows: a batch that is under way has a number of its own and has not     *)
(* come to its end; what can be read was written by one that did.          *)

RowsInv ==
    /\ batch \in [Worker -> Batch] /\ written \in [Worker -> SUBSET Row]
    /\ outcome \in [Batches -> {"none", "open", "done", "failed"}]
    /\ table \in [Store -> [Row -> 0..MaxBatches]]
    /\ \A p \in Worker : batch[p].number # 0 => outcome[batch[p].number] = "open"
    /\ \A p, q \in Worker :
          p # q /\ batch[p].number # 0 => batch[p].number # batch[q].number
    /\ \A s \in Store, r \in Row : table[s][r] # 0 => outcome[table[s][r]] = "done"

LEMMA BatchNumbers ==
    /\ MaxBatches \in Nat /\ Batches = 1..MaxBatches /\ NoBatch \in Batch
    /\ NoBatch.number = 0
<1>1. Stores[1] \in Store
  BY PostgresAssumption DEF Store
<1> QED BY <1>1, PostgresAssumption DEF Batches, NoBatch, Batch

(* Batches that end, well or badly, leave what can be read whole.          *)
LEMMA EndedKeepsRows ==
    ASSUME RowsInv, NEW ended \in SUBSET Worker, NEW how \in {"done", "failed"},
           Ended(ended, how)
    PROVE  /\ batch' \in [Worker -> Batch] /\ written' \in [Worker -> SUBSET Row]
           /\ outcome' \in [Batches -> {"none", "open", "done", "failed"}]
           /\ \A p \in Worker : batch'[p].number # 0 =>
                 p \notin ended /\ batch'[p] = batch[p] /\ outcome'[batch[p].number] = "open"
           /\ \A b \in Batches : outcome[b] = "done" => outcome'[b] = "done"
           /\ \A p \in ended : batch[p].number # 0 => outcome'[batch[p].number] = how
<1>1. batch' = [p \in Worker |-> IF p \in ended THEN NoBatch ELSE batch[p]]
      /\ written' = [p \in Worker |-> IF p \in ended THEN {} ELSE written[p]]
      /\ outcome' = [b \in Batches |->
            IF \E p \in ended : batch[p].number = b THEN how ELSE outcome[b]]
  BY DEF Ended
<1>2. batch' \in [Worker -> Batch] /\ written' \in [Worker -> SUBSET Row]
      /\ outcome' \in [Batches -> {"none", "open", "done", "failed"}]
  BY <1>1, BatchNumbers DEF RowsInv
<1>3. \A p \in Worker : batch[p].number # 0 => batch[p].number \in Batches
  BY BatchNumbers DEF RowsInv, Batch
<1>4. ASSUME NEW p \in Worker, batch'[p].number # 0
      PROVE  p \notin ended /\ batch'[p] = batch[p] /\ outcome'[batch[p].number] = "open"
  <2>1. p \notin ended /\ batch'[p] = batch[p]
    BY <1>1, <1>4, BatchNumbers
  <2>2. ~ \E q \in ended : batch[q].number = batch[p].number
    BY <1>4, <2>1 DEF RowsInv
  <2> QED BY <1>1, <1>3, <1>4, <2>1, <2>2 DEF RowsInv
<1>5. ASSUME NEW b \in Batches, outcome[b] = "done" PROVE outcome'[b] = "done"
  <2>1. ~ \E p \in ended : batch[p].number = b
    BY <1>5, BatchNumbers DEF RowsInv
  <2> QED BY <1>1, <1>5, <2>1
<1>6. \A p \in ended : batch[p].number # 0 => outcome'[batch[p].number] = how
  BY <1>1, <1>3
<1> QED BY <1>2, <1>4, <1>5, <1>6

LEMMA EndedFailed ==
    ASSUME RowsInv, NEW ended \in SUBSET Worker, Ended(ended, "failed"), table' = table
    PROVE  RowsInv'
<1>1. \A s \in Store, r \in Row : table[s][r] \in Batches \cup {0}
  BY BatchNumbers DEF RowsInv
<1> QED BY <1>1, EndedKeepsRows DEF RowsInv

LEMMA RowsSame ==
    ASSUME RowsInv, UNCHANGED <<batch, outcome, table>>, written' \in [Worker -> SUBSET Row]
    PROVE  RowsInv'
BY DEF RowsInv

LEMMA RowsInit == PgInit => RowsInv
BY BatchNumbers DEF PgInit, RowsInv

LEMMA BeginUpsertRows ==
    ASSUME RowsInv, NEW p \in Worker, NEW s \in Store, NEW rows \in SUBSET Row \ {{}},
           handle[s] \in Nat, BeginUpsert(p, s, rows)
    PROVE  RowsInv'
<1>1. PICK b \in Batches :
         /\ outcome[b] = "none" /\ outcome' = [outcome EXCEPT ![b] = "open"]
         /\ batch' = [batch EXCEPT ![p] =
               [number |-> b, store |-> s, rows |-> rows, pool |-> handle[s]]]
         /\ UNCHANGED <<written, table>>
  BY DEF BeginUpsert
<1>2. [number |-> b, store |-> s, rows |-> rows, pool |-> handle[s]] \in Batch
  BY BatchNumbers DEF Batch
<1>3. /\ batch' \in [Worker -> Batch]
      /\ outcome' \in [Batches -> {"none", "open", "done", "failed"}]
      /\ batch'[p].number = b /\ \A q \in Worker \ {p} : batch'[q] = batch[q]
      /\ outcome'[b] = "open" /\ \A c \in Batches \ {b} : outcome'[c] = outcome[c]
  BY <1>1, <1>2 DEF RowsInv
<1>4. \A q \in Worker : batch[q].number # b
  BY <1>1, BatchNumbers DEF RowsInv
<1>5. \A q \in Worker : batch[q].number # 0 => batch[q].number \in Batches
  BY BatchNumbers DEF RowsInv, Batch
<1>6. \A q \in Worker : batch'[q].number # 0 => outcome'[batch'[q].number] = "open"
  BY <1>3, <1>4, <1>5 DEF RowsInv
<1>7. \A q, t \in Worker : q # t /\ batch'[q].number # 0 => batch'[q].number # batch'[t].number
  BY <1>3, <1>4 DEF RowsInv
<1>8. \A u \in Store, r \in Row : table'[u][r] # 0 => outcome'[table'[u][r]] = "done"
  <2>1. \A u \in Store, r \in Row : table[u][r] \in Batches \cup {0}
    BY BatchNumbers DEF RowsInv
  <2>2. \A u \in Store, r \in Row : table[u][r] # 0 => table[u][r] # b
    BY <1>1 DEF RowsInv
  <2> QED BY <1>1, <1>3, <2>1, <2>2 DEF RowsInv
<1> QED BY <1>1, <1>3, <1>6, <1>7, <1>8 DEF RowsInv

LEMMA CommitRows ==
    ASSUME RowsInv, NEW p \in Worker, Commit(p) PROVE RowsInv'
<1>1. Ended({p}, "done")
      /\ table' = [table EXCEPT ![batch[p].store] =
            [r \in Row |-> IF r \in written[p] THEN batch[p].number ELSE @[r]]]
  BY DEF Commit
<1>2. batch[p].store \in Store /\ batch[p].number \in 0..MaxBatches
  BY DEF RowsInv, Batch
<1>3. table' \in [Store -> [Row -> 0..MaxBatches]]
  BY <1>1, <1>2 DEF RowsInv
<1>4. \A s \in Store, r \in Row : table'[s][r] \in {table[s][r], batch[p].number}
  BY <1>1, <1>2 DEF RowsInv
<1>5. \A s \in Store, r \in Row : table[s][r] \in Batches \cup {0}
  BY BatchNumbers DEF RowsInv
<1>6. /\ batch' \in [Worker -> Batch] /\ written' \in [Worker -> SUBSET Row]
      /\ outcome' \in [Batches -> {"none", "open", "done", "failed"}]
      /\ \A q \in Worker : batch'[q].number # 0 =>
            batch'[q] = batch[q] /\ outcome'[batch[q].number] = "open"
      /\ \A b \in Batches : outcome[b] = "done" => outcome'[b] = "done"
      /\ batch[p].number # 0 => outcome'[batch[p].number] = "done"
  BY <1>1, EndedKeepsRows
<1>7. \A s \in Store, r \in Row : table'[s][r] # 0 => outcome'[table'[s][r]] = "done"
  BY <1>4, <1>5, <1>6 DEF RowsInv
<1>8. \A q, t \in Worker : q # t /\ batch'[q].number # 0 => batch'[q].number # batch'[t].number
  BY <1>6 DEF RowsInv
<1> QED BY <1>3, <1>6, <1>7, <1>8 DEF RowsInv

LEMMA WithdrawRows ==
    ASSUME RowsInv, NEW p \in Worker, NEW s \in Store, NEW rows, Withdraw(p, s, rows)
    PROVE  RowsInv'
<1>1. table' = [table EXCEPT ![s] = [r \in Row |-> IF r \in rows THEN 0 ELSE @[r]]]
      /\ UNCHANGED <<batch, written, outcome>>
  BY DEF Withdraw
<1>2. table' \in [Store -> [Row -> 0..MaxBatches]]
  BY <1>1, BatchNumbers DEF RowsInv
<1>3. \A u \in Store, r \in Row : table'[u][r] \in {0, table[u][r]}
  BY <1>1 DEF RowsInv
<1> QED BY <1>1, <1>2, <1>3 DEF RowsInv

----------------------------------------------------------------------------------
(* Pools: who stands where, and what the counter covers.                   *)

PlaceOK ==
    /\ place \in [Tasks -> Place]
    /\ \A p \in Tasks : Pc(p) = "out" => place[p] = Out
    /\ \A p \in Tasks : Pc(p) \in InitPcs \cup FinalPcs => place[p].i \in 1..Len(Stores)
    /\ \A p \in Worker : Pc(p) \notin FinalPcs
    /\ Pc(Main) \notin {"write", "unwind"}

(* Where Main stands says what the service does, and outside its working   *)
(* time nobody else stands anywhere.                                       *)
LifeOK ==
    /\ mode \in {"served", "library"}
    /\ life \in {"stopped", "starting", "serving", "draining", "unwinding", "closing"}
    /\ Pc(Main) \in InitPcs  <=> life = "starting"
    /\ Pc(Main) \in FinalPcs <=> life = "closing"
    /\ life \in {"stopped", "starting", "draining", "unwinding"} => mode = "served"
    /\ mode = "served" /\ life \in {"stopped", "starting", "closing"} =>
          \A p \in Worker : place[p] = Out
    /\ \A p \in Worker : Pc(p) = "unwind" => life = "unwinding"

(* The reference Main is giving back.                                      *)
Owing == IF Pc(Main) = "drop" THEN 1 ELSE 0

PoolOK ==
    /\ {registered, refs, made, dropped} \subseteq Nat /\ closed \subseteq 1..made
    /\ registered <= made /\ registered \notin closed
    /\ handle \in [Store -> {0, registered}]
    /\ IsFiniteSet(Held) /\ Cardinality(Held) + Owing <= refs
    /\ \A p \in Tasks : Pc(p) \in {"create", "close"} <=> managed = p
    /\ managed \in Tasks \cup {Nobody}
    /\ managed # Nobody => registered = 0
    /\ Pc(Main) = "drop" => dropped = registered /\ registered # 0
    /\ Pc(Main) = "close" => dropped \in 1..made

BatchOK ==
    \A p \in Worker : batch[p].number # 0 =>
        Pc(p) \in {"write", "unwind"} /\ batch[p].pool \in (1..made) \ closed

PoolInv == PlaceOK /\ LifeOK /\ PoolOK /\ BatchOK

LEMMA TaskFacts ==
    /\ Main \in Tasks /\ Worker \subseteq Tasks /\ Main \notin Worker /\ Nobody \notin Tasks
    /\ Len(Stores) \in Nat \ {0} /\ \A i \in 1..Len(Stores) : Stores[i] \in Store
    /\ \A s \in Store : \E i \in 1..Len(Stores) : s = Stores[i]
    /\ \A i, j \in 1..Len(Stores) : Stores[i] = Stores[j] => i = j
    /\ Out \in Place /\ Out.pc = "out"
BY PostgresAssumption DEF Tasks, Store, Range, IsInjective, Out, Place

LEMMA StoreHere ==
    ASSUME PlaceOK, NEW p \in Tasks, Pc(p) \in InitPcs \cup FinalPcs
    PROVE  place[p].i \in 1..Len(Stores) /\ StoreAt(p) \in Store
BY TaskFacts DEF PlaceOK, StoreAt

(* Without a registered pool nobody holds one.                             *)
LEMMA NoneHeld ==
    ASSUME PoolOK, registered = 0 PROVE Held = {}
BY DEF PoolOK, Held

LEMMA PoolInit == PgInit => PoolInv
<1> SUFFICES ASSUME PgInit PROVE PoolInv
  OBVIOUS
<1> USE DEF PgInit
<1>1. PlaceOK
  BY TaskFacts DEF PlaceOK, Pc, InitPcs, FinalPcs, Out
<1>2. LifeOK
  BY TaskFacts DEF LifeOK, Pc, InitPcs, FinalPcs, Out
<1>3. Held = {} /\ Owing = 0
  BY TaskFacts DEF Held, Owing, Pc, Out
<1>4. PoolOK
  BY <1>3, TaskFacts, FS_EmptySet DEF PoolOK, Pc, Out
<1>5. BatchOK
  BY BatchNumbers DEF BatchOK
<1> QED BY <1>1, <1>2, <1>4, <1>5 DEF PoolInv

(* A step that only moves task p, without the manager's lock.              *)
Moved(p, at, i) == place' = [place EXCEPT ![p] = [pc |-> at, i |-> i]]

LEMMA GetClientPool ==
    ASSUME PoolInv, NEW p \in Tasks, GetClient(p) PROVE PoolInv'
<1> USE DEF PoolInv
<1>1. /\ Pc(p) = "get" /\ managed = Nobody /\ registered # 0 /\ refs' = refs + 1
      /\ handle' = [handle EXCEPT ![StoreAt(p)] = registered]
      /\ place' = [place EXCEPT ![p].pc = "ddl"]
      /\ UNCHANGED <<mode, life, registered, made, closed, managed, dropped, batch>>
  BY DEF GetClient, Here, GoOn, Pc, database
<1>2. /\ place' \in [Tasks -> Place] /\ place'[p].pc = "ddl" /\ place'[p].i = place[p].i
      /\ \A q \in Tasks \ {p} : place'[q] = place[q]
  BY <1>1, TaskFacts DEF PlaceOK, Place, InitPcs
<1>3. StoreAt(p) \in Store
  BY <1>1, StoreHere DEF InitPcs
<1>4. PlaceOK'
  BY <1>1, <1>2, TaskFacts DEF PlaceOK, Pc, InitPcs, FinalPcs
<1>5. LifeOK'
  BY <1>1, <1>2, TaskFacts DEF LifeOK, Pc, InitPcs, FinalPcs, Out
<1>6. Held' = Held \cup {StoreAt(p)} /\ Owing' = Owing /\ Owing \in Nat
  BY <1>1, <1>2, <1>3, TaskFacts DEF Held, PoolOK, Owing, Pc
<1>7. IsFiniteSet(Held') /\ Cardinality(Held') + Owing' <= refs'
  <2>1. IsFiniteSet(Held) /\ Cardinality(Held) \in Nat /\ Cardinality(Held) + Owing <= refs
    BY FS_CardinalityType DEF PoolOK
  <2>2. IsFiniteSet(Held') /\ Cardinality(Held') \in {Cardinality(Held), Cardinality(Held) + 1}
    BY <1>6, <2>1, FS_AddElement
  <2> QED BY <1>1, <1>6, <2>1, <2>2 DEF PoolOK
<1>8. PoolOK'
  <2>1. /\ {registered', refs', made', dropped'} \subseteq Nat /\ closed' \subseteq 1..made'
        /\ registered' <= made' /\ registered' \notin closed'
    BY <1>1 DEF PoolOK
  <2>t. handle' \in [Store -> {0, registered'}]
    BY <1>1, <1>3 DEF PoolOK
  <2>2. \A q \in Tasks : Pc(q)' \in {"create", "close"} <=> managed' = q
    BY <1>1, <1>2, TaskFacts DEF PoolOK, Pc
  <2>3. /\ managed' = Nobody
        /\ Pc(Main)' = "drop" => dropped' = registered' /\ registered' # 0
        /\ Pc(Main)' = "close" => dropped' \in 1..made'
    BY <1>1, <1>2, TaskFacts DEF PoolOK, Pc
  <2> QED BY <1>7, <2>1, <2>t, <2>2, <2>3 DEF PoolOK
<1>9. BatchOK'
  BY <1>1, <1>2, TaskFacts DEF BatchOK, Pc
<1> QED BY <1>4, <1>5, <1>8, <1>9

LEMMA CreatePoolPool ==
    ASSUME PoolInv, NEW p \in Tasks, CreatePool(p) PROVE PoolInv'
<1> USE DEF PoolInv
<1>1. /\ Pc(p) = "get" /\ managed = Nobody /\ registered = 0 /\ managed' = p
      /\ place' = [place EXCEPT ![p].pc = "create"]
      /\ UNCHANGED <<mode, life, registered, refs, made, closed, handle, dropped, batch>>
  BY DEF CreatePool, Here, GoOn, Pc, database
<1>2. /\ place' \in [Tasks -> Place] /\ place'[p].pc = "create" /\ place'[p].i = place[p].i
      /\ \A q \in Tasks \ {p} : place'[q] = place[q]
  BY <1>1, TaskFacts DEF PlaceOK, Place, InitPcs
<1>3. PlaceOK'
  BY <1>1, <1>2, TaskFacts DEF PlaceOK, Pc, InitPcs, FinalPcs
<1>4. LifeOK'
  BY <1>1, <1>2, TaskFacts DEF LifeOK, Pc, InitPcs, FinalPcs, Out
<1>5. Held' = Held /\ Owing' = Owing
  BY <1>1, <1>2, TaskFacts DEF Held, Owing, Pc
<1>6. PoolOK'
  BY <1>1, <1>2, <1>5, TaskFacts DEF PoolOK, Pc
<1>7. BatchOK'
  BY <1>1, <1>2, TaskFacts DEF BatchOK, Pc
<1> QED BY <1>3, <1>4, <1>6, <1>7

LEMMA PoolCreatedPool ==
    ASSUME PoolInv, NEW p \in Tasks, PoolCreated(p) PROVE PoolInv'
<1> USE DEF PoolInv
<1>1. /\ Pc(p) = "create" /\ made' = made + 1 /\ registered' = made + 1 /\ refs' = 1
      /\ handle' = [handle EXCEPT ![StoreAt(p)] = made + 1]
      /\ managed' = Nobody /\ place' = [place EXCEPT ![p].pc = "ddl"]
      /\ UNCHANGED <<mode, life, closed, dropped, batch>>
  BY DEF PoolCreated, Here, GoOn, Pc, database
<1>2. /\ place' \in [Tasks -> Place] /\ place'[p].pc = "ddl" /\ place'[p].i = place[p].i
      /\ \A q \in Tasks \ {p} : place'[q] = place[q]
  BY <1>1, TaskFacts DEF PlaceOK, Place, InitPcs
<1>3. StoreAt(p) \in Store
  BY <1>1, StoreHere DEF InitPcs
<1>4. PlaceOK'
  BY <1>1, <1>2, TaskFacts DEF PlaceOK, Pc, InitPcs, FinalPcs
<1>5. LifeOK'
  BY <1>1, <1>2, TaskFacts DEF LifeOK, Pc, InitPcs, FinalPcs, Out
<1>6. managed = p /\ registered = 0 /\ Held = {} /\ Pc(Main) # "drop"
  BY <1>1, TaskFacts, NoneHeld DEF PoolOK
<1>7. Held' = {StoreAt(p)} /\ Owing' = 0
  BY <1>1, <1>2, <1>3, <1>6, TaskFacts DEF Held, PoolOK, Owing, Pc
<1>8. IsFiniteSet(Held') /\ Cardinality(Held') = 1
  BY <1>7, FS_Singleton
<1>9. /\ {registered', refs', made', dropped'} \subseteq Nat /\ closed' \subseteq 1..made'
      /\ registered' <= made' /\ registered' \notin closed'
  BY <1>1 DEF PoolOK
<1>10. handle' \in [Store -> {0, registered'}]
  BY <1>1, <1>6 DEF PoolOK
<1>11. \A q \in Tasks : Pc(q)' \in {"create", "close"} <=> managed' = q
  BY <1>1, <1>2, <1>6, TaskFacts DEF PoolOK, Pc
<1>12. Pc(Main)' # "drop" /\ Pc(Main)' # "close"
  BY <1>11, <1>1, <1>2, <1>6, TaskFacts DEF Pc
<1>13. PoolOK'
  BY <1>1, <1>7, <1>8, <1>9, <1>10, <1>11, <1>12 DEF PoolOK
<1>14. BatchOK'
  BY <1>1, <1>2, TaskFacts DEF BatchOK, Pc, PoolOK
<1> QED BY <1>4, <1>5, <1>13, <1>14

(* initialize raises: the task is out, the service on its way down.        *)
LEMMA InitRaisesPool ==
    ASSUME PoolInv, NEW p \in Tasks, Pc(p) \in InitPcs, InitRaises(p),
           managed' = (IF managed = p THEN Nobody ELSE managed),
           UNCHANGED <<mode, registered, refs, made, closed, handle, dropped, batch>>
    PROVE  PoolInv'
<1> USE DEF PoolInv
<1>1. place' = [place EXCEPT ![p] = Out] /\ life' = IF p = Main THEN "draining" ELSE life
  BY DEF InitRaises
<1>2. /\ place' \in [Tasks -> Place] /\ place'[p] = Out
      /\ \A q \in Tasks \ {p} : place'[q] = place[q]
  BY <1>1, TaskFacts DEF PlaceOK
<1>3. PlaceOK'
  BY <1>2, TaskFacts DEF PlaceOK, Pc, InitPcs, FinalPcs
<1>4. LifeOK'
  BY <1>1, <1>2, TaskFacts DEF LifeOK, Pc, InitPcs, FinalPcs
<1>5. Held' = Held /\ Owing' = Owing
  BY <1>2, TaskFacts DEF Held, Owing, Pc, InitPcs
<1>6. PoolOK'
  BY <1>2, <1>5, TaskFacts DEF PoolOK, Pc
<1>7. BatchOK'
  BY <1>2, TaskFacts DEF BatchOK, Pc, InitPcs
<1> QED BY <1>3, <1>4, <1>6, <1>7

LEMMA InitFailsPool ==
    ASSUME PoolInv, NEW p \in Tasks, PoolNotCreated(p) \/ TableFails(p) PROVE PoolInv'
<1>1. CASE PoolNotCreated(p)
  <2>1. Pc(p) = "create" /\ InitRaises(p) /\ managed' = Nobody
        /\ UNCHANGED <<mode, registered, refs, made, closed, handle, dropped, batch>>
    BY <1>1 DEF PoolNotCreated, Here, Pc, database
  <2>2. managed = p
    BY <2>1 DEF PoolInv, PoolOK
  <2> QED BY <2>1, <2>2, InitRaisesPool DEF InitPcs
<1>2. CASE TableFails(p)
  <2>1. Pc(p) = "ddl" /\ InitRaises(p)
        /\ UNCHANGED <<mode, registered, refs, made, closed, handle, managed, dropped, batch>>
    BY <1>2 DEF TableFails, Here, Pc, database
  <2>2. managed # p
    BY <2>1 DEF PoolInv, PoolOK
  <2> QED BY <2>1, <2>2, InitRaisesPool DEF InitPcs
<1> QED BY <1>1, <1>2

LEMMA TableMadePool ==
    ASSUME PoolInv, NEW p \in Tasks, TableMade(p) PROVE PoolInv'
<1> USE DEF PoolInv
<1> DEFINE last == place[p].i = Len(Stores)
           spot == IF last THEN Out ELSE [pc |-> "get", i |-> place[p].i + 1]
<1>1. /\ Pc(p) = "ddl" /\ place' = [place EXCEPT ![p] = spot]
      /\ life' = IF last /\ p = Main THEN "serving" ELSE life
      /\ UNCHANGED <<mode, registered, refs, made, closed, handle, managed, dropped, batch>>
  BY DEF TableMade, Here, Pc
<1>2. place[p].i \in 1..Len(Stores)
  BY <1>1, StoreHere DEF InitPcs
<1>3. /\ spot \in Place /\ spot.pc \in {"out", "get"} /\ (spot.pc = "out" => spot = Out)
      /\ (spot.pc = "out" <=> last) /\ (spot.pc = "get" => spot.i \in 1..Len(Stores))
  BY <1>2, TaskFacts DEF Place, InitPcs, Out
<1> HIDE DEF spot
<1>4. /\ place' \in [Tasks -> Place] /\ place'[p] = spot
      /\ \A q \in Tasks \ {p} : place'[q] = place[q]
  BY <1>1, <1>3, TaskFacts DEF PlaceOK
<1>5. PlaceOK'
  BY <1>3, <1>4, TaskFacts DEF PlaceOK, Pc, InitPcs, FinalPcs
<1>6. LifeOK'
  BY <1>1, <1>3, <1>4, TaskFacts DEF LifeOK, Pc, InitPcs, FinalPcs, Out
<1>7. Held' = Held /\ Owing' = Owing
  BY <1>1, <1>3, <1>4, TaskFacts DEF Held, Owing, Pc
<1>8. PoolOK'
  BY <1>1, <1>3, <1>4, <1>7, TaskFacts DEF PoolOK, Pc
<1>9. BatchOK'
  BY <1>1, <1>3, <1>4, TaskFacts DEF BatchOK, Pc
<1> QED BY <1>5, <1>6, <1>8, <1>9

LEMMA InitStepPool ==
    ASSUME PoolInv, NEW p \in Tasks, InitStep(p) PROVE PoolInv'
BY GetClientPool, CreatePoolPool, PoolCreatedPool, InitFailsPool, TableMadePool
DEF InitStep, InitializeRows, InitializeVectors

----------------------------------------------------------------------------------
(* The steps of the tasks that are not initializing.                       *)

LEMMA EnsureInitializedPool ==
    ASSUME PoolInv, NEW p \in Worker, EnsureInitialized(p), mode = "library"
    PROVE  PoolInv'
<1> USE DEF PoolInv
<1>1. /\ place[p] = Out /\ life = "serving"
      /\ place' = [place EXCEPT ![p] = [pc |-> "get", i |-> 1]]
      /\ UNCHANGED <<mode, life, registered, refs, made, closed, handle, managed, dropped, batch>>
  BY DEF EnsureInitialized, BeginInit, database
<1>2. /\ place' \in [Tasks -> Place] /\ place'[p] = [pc |-> "get", i |-> 1]
      /\ \A q \in Tasks \ {p} : place'[q] = place[q]
  BY <1>1, TaskFacts DEF PlaceOK, Place, InitPcs
<1>3. PlaceOK'
  BY <1>1, <1>2, TaskFacts DEF PlaceOK, Pc, InitPcs, FinalPcs
<1>4. LifeOK'
  BY <1>1, <1>2, TaskFacts DEF LifeOK, Pc
<1>5. Held' = Held /\ Owing' = Owing
  BY <1>1, <1>2, TaskFacts DEF Held, Owing, Pc
<1>6. PoolOK'
  BY <1>1, <1>2, <1>5, TaskFacts DEF PoolOK, Pc
<1>7. BatchOK'
  BY <1>1, <1>2, TaskFacts DEF BatchOK, Pc
<1> QED BY <1>3, <1>4, <1>6, <1>7

LEMMA BeginUpsertPool ==
    ASSUME PoolInv, RowsInv, NEW p \in Worker, NEW s \in Store, NEW rows,
           BeginUpsert(p, s, rows)
    PROVE  PoolInv'
<1> USE DEF PoolInv
<1>1. PICK b \in Batches :
      /\ Working /\ place[p] = Out /\ handle[s] # 0
      /\ batch' = [batch EXCEPT ![p] =
            [number |-> b, store |-> s, rows |-> rows, pool |-> handle[s]]]
      /\ place' = [place EXCEPT ![p].pc = "write"]
      /\ UNCHANGED <<mode, life, registered, refs, made, closed, handle, managed, dropped>>
  BY DEF BeginUpsert, GoOn
<1>2. /\ place' \in [Tasks -> Place] /\ place'[p].pc = "write"
      /\ \A q \in Tasks \ {p} : place'[q] = place[q]
  BY <1>1, TaskFacts DEF PlaceOK, Place
<1>3. PlaceOK'
  BY <1>1, <1>2, TaskFacts DEF PlaceOK, Pc, InitPcs, FinalPcs
<1>4. LifeOK'
  BY <1>1, <1>2, TaskFacts DEF LifeOK, Pc, Working
<1>5. Held' = Held /\ Owing' = Owing
  BY <1>1, <1>2, TaskFacts DEF Held, Owing, Pc
<1>6. PoolOK'
  BY <1>1, <1>2, <1>5, TaskFacts DEF PoolOK, Pc
<1>7. handle[s] = registered /\ registered \in (1..made) \ closed
  BY <1>1 DEF PoolOK
<1>8. batch'[p].pool = handle[s] /\ \A q \in Worker \ {p} : batch'[q] = batch[q]
  BY <1>1 DEF RowsInv
<1>9. BatchOK'
  BY <1>1, <1>2, <1>7, <1>8, TaskFacts DEF BatchOK, Pc
<1> QED BY <1>3, <1>4, <1>6, <1>9

(* What ends is out of the way of a pool that closes.                      *)
LEMMA UpsertEndsPool ==
    ASSUME PoolInv, RowsInv, NEW p \in Worker, Commit(p) \/ Rollback(p) \/ Unwound(p) PROVE PoolInv'
<1> USE DEF PoolInv
<1>1. /\ Pc(p) \in {"write", "unwind"} /\ place' = [place EXCEPT ![p] = Out]
      /\ batch' = [q \in Worker |-> IF q = p THEN NoBatch ELSE batch[q]]
      /\ UNCHANGED <<mode, life, registered, refs, made, closed, handle, managed, dropped>>
  BY DEF Commit, Rollback, Unwound, Ended, Here, Pc
<1>2. /\ place' \in [Tasks -> Place] /\ place'[p] = Out
      /\ \A q \in Tasks \ {p} : place'[q] = place[q]
  BY <1>1, TaskFacts DEF PlaceOK
<1>3. PlaceOK'
  BY <1>2, TaskFacts DEF PlaceOK, Pc, InitPcs, FinalPcs
<1>4. LifeOK'
  BY <1>1, <1>2, TaskFacts DEF LifeOK, Pc
<1>5. Held' = Held /\ Owing' = Owing
  BY <1>1, <1>2, TaskFacts DEF Held, Owing, Pc
<1>6. PoolOK'
  BY <1>1, <1>2, <1>5, TaskFacts DEF PoolOK, Pc
<1>7. BatchOK'
  BY <1>1, <1>2, BatchNumbers, TaskFacts DEF BatchOK, Pc
<1> QED BY <1>3, <1>4, <1>6, <1>7

(* Steps of the database move nobody.                                      *)
LEMMA PoolSame ==
    ASSUME PoolInv, UNCHANGED <<mode, life, place, registered, refs, made, closed, handle,
                                managed, dropped, batch>>
    PROVE  PoolInv'
BY DEF PoolInv, PlaceOK, LifeOK, PoolOK, BatchOK, Pc, Held, Owing

LEMMA WorkerPool ==
    ASSUME PoolInv, RowsInv, NEW p \in Worker, TaskStep(p),
           EnsureInitialized(p) => mode = "library"
    PROVE  PoolInv'
<1>1. CASE InitStep(p)
  BY <1>1, InitStepPool, TaskFacts
<1>2. CASE EnsureInitialized(p)
  BY <1>2, EnsureInitializedPool
<1>3. CASE \E s \in Store, rows \in SUBSET Row \ {{}} : BeginUpsert(p, s, rows)
  BY <1>3, BeginUpsertPool
<1>4. CASE Commit(p) \/ Rollback(p) \/ Unwound(p)
  BY <1>4, UpsertEndsPool
<1>5. CASE \/ \E r \in Row : WriteRow(p, r)
           \/ \E s \in Store, rows \in SUBSET Row : DeleteRows(p, s, rows)
           \/ \E s \in Store : DropRows(p, s)
  BY <1>5, PoolSame DEF WriteRow, DeleteRows, DropRows, Withdraw, process
<1> QED BY <1>1, <1>2, <1>3, <1>4, <1>5 DEF TaskStep

----------------------------------------------------------------------------------
(* Start and end of the service.                                           *)

LEMMA FreshPool ==
    ASSUME PoolOK, registered' = 0, refs' = 0, made' = 0, closed' = {},
           handle' = [s \in Store |-> 0], managed' = Nobody, dropped' = 0,
           \A p \in Tasks : Pc(p)' \in {"out", "get"}
    PROVE  PoolOK'
<1>1. Held' = {} /\ Owing' = 0
  BY TaskFacts DEF Held, Owing
<1> QED BY <1>1, FS_EmptySet, TaskFacts DEF PoolOK

LEMMA StartPool ==
    ASSUME PoolInv, Start PROVE PoolInv'
<1> USE DEF PoolInv
<1>1. /\ mode = "served" /\ life = "stopped" /\ life' = "starting"
      /\ registered' = 0 /\ refs' = 0 /\ made' = 0 /\ closed' = {}
      /\ handle' = [s \in Store |-> 0] /\ managed' = Nobody /\ dropped' = 0
      /\ place' = [p \in Tasks |-> IF p = Main THEN [pc |-> "get", i |-> 1] ELSE Out]
      /\ UNCHANGED <<mode, batch>>
  BY DEF Start, database
<1>2. /\ place' \in [Tasks -> Place] /\ place'[Main] = [pc |-> "get", i |-> 1]
      /\ \A q \in Tasks \ {Main} : place'[q] = Out
  BY <1>1, TaskFacts DEF Place, InitPcs
<1>3. PlaceOK'
  BY <1>2, TaskFacts DEF PlaceOK, Pc, InitPcs, FinalPcs
<1>4. LifeOK'
  BY <1>1, <1>2, TaskFacts DEF LifeOK, Pc, InitPcs, FinalPcs
<1>5. PoolOK'
  BY <1>1, <1>2, FreshPool, TaskFacts DEF Pc
<1>6. BatchOK'
  BY <1>1, TaskFacts DEF BatchOK, LifeOK, Pc
<1> QED BY <1>3, <1>4, <1>5, <1>6

LEMMA DiePool ==
    ASSUME PoolInv, RowsInv, Die PROVE PoolInv'
<1> USE DEF PoolInv
<1>1. /\ mode = "served" /\ life' = "stopped" /\ mode' = mode
      /\ registered' = 0 /\ refs' = 0 /\ made' = 0 /\ closed' = {}
      /\ handle' = [s \in Store |-> 0] /\ managed' = Nobody /\ dropped' = 0
      /\ place' = [p \in Tasks |-> Out]
      /\ batch' = [p \in Worker |-> IF Here(p, "write") \/ Here(p, "unwind") THEN NoBatch
                                    ELSE batch[p]]
  BY DEF Die, NewProcess, Ended
<1>2. PlaceOK'
  BY <1>1, TaskFacts DEF PlaceOK, Pc, InitPcs, FinalPcs
<1>3. LifeOK'
  BY <1>1, TaskFacts DEF LifeOK, Pc, InitPcs, FinalPcs
<1>4. PoolOK'
  BY <1>1, FreshPool, TaskFacts DEF Pc
<1>5. BatchOK'
  BY <1>1, BatchNumbers DEF BatchOK, Pc, Here
<1> QED BY <1>2, <1>3, <1>4, <1>5

LEMMA TerminatePool ==
    ASSUME PoolInv, Terminate PROVE PoolInv'
<1>1. /\ mode = "served" /\ life = "serving" /\ life' = "draining"
      /\ UNCHANGED <<mode, place, registered, refs, made, closed, handle, managed, dropped, batch>>
  BY DEF Terminate, process, database
<1>2. LifeOK'
  BY <1>1, TaskFacts DEF PoolInv, LifeOK, Pc
<1> QED
  BY <1>1, <1>2 DEF PoolInv, PlaceOK, PoolOK, BatchOK, Pc, Held, Owing

LEMMA BeginFinalizePool ==
    ASSUME PoolInv, Drained \/ FinalizeLibrary PROVE PoolInv'
<1> USE DEF PoolInv
<1>1. /\ life' = "closing" /\ place' = [place EXCEPT ![Main] = [pc |-> "release", i |-> 1]]
      /\ life \in {"draining", "unwinding", "serving"}
      /\ mode = "library" \/ (life \in {"draining", "unwinding"} /\ AllOut)
      /\ UNCHANGED <<mode, registered, refs, made, closed, handle, managed, dropped, batch>>
  BY DEF Drained, FinalizeLibrary, BeginFinalize, database
<1>2. /\ place' \in [Tasks -> Place] /\ place'[Main] = [pc |-> "release", i |-> 1]
      /\ \A q \in Tasks \ {Main} : place'[q] = place[q]
  BY <1>1, TaskFacts DEF PlaceOK, Place, FinalPcs
<1>3. PlaceOK'
  BY <1>1, <1>2, TaskFacts DEF PlaceOK, Pc, InitPcs, FinalPcs
<1>4. LifeOK'
  BY <1>1, <1>2, TaskFacts DEF LifeOK, Pc, InitPcs, FinalPcs, AllOut
<1>5. Held' = Held /\ Owing' = Owing /\ Pc(Main) \notin {"drop", "create", "close"}
  BY <1>1, <1>2, TaskFacts DEF Held, Owing, LifeOK, Pc, InitPcs, FinalPcs
<1>6. PoolOK'
  BY <1>1, <1>2, <1>5, TaskFacts DEF PoolOK, Pc
<1>7. BatchOK'
  BY <1>1, <1>2, TaskFacts DEF BatchOK, Pc
<1> QED BY <1>3, <1>4, <1>6, <1>7

LEMMA DrainTimesOutPool ==
    ASSUME PoolInv, RowsInv, DrainTimesOut,
           \A p \in Worker : Pc(p) \notin InitPcs
    PROVE  PoolInv'
<1> USE DEF PoolInv
<1>1. /\ life = "draining" /\ life' = "unwinding"
      /\ place' = [p \in Tasks |-> IF Pc(p) = "write" THEN [place[p] EXCEPT !.pc = "unwind"] ELSE Out]
      /\ UNCHANGED <<mode, registered, refs, made, closed, handle, managed, dropped, batch>>
  BY DEF DrainTimesOut, Here, Pc, database
<1>2. /\ place' \in [Tasks -> Place]
      /\ \A q \in Tasks : Pc(q)' = IF Pc(q) = "write" THEN "unwind" ELSE "out"
      /\ \A q \in Tasks : Pc(q) # "write" => place'[q] = Out
  BY <1>1, TaskFacts DEF PlaceOK, Place, Pc
<1>3. PlaceOK'
  BY <1>2, TaskFacts DEF PlaceOK, Pc, InitPcs, FinalPcs
<1>4. LifeOK'
  BY <1>1, <1>2, TaskFacts DEF LifeOK, PlaceOK, InitPcs, FinalPcs
<1>5. Held' = Held /\ Owing' = Owing /\ Pc(Main) \notin {"drop", "create", "close"}
  BY <1>1, <1>2, TaskFacts DEF Held, Owing, LifeOK, InitPcs, FinalPcs
<1>6. \A p \in Tasks : Pc(p) \notin {"create", "close"}
  BY <1>5, TaskFacts DEF PlaceOK, InitPcs, FinalPcs, Tasks
<1>7. managed = Nobody
  BY <1>6 DEF PoolOK
<1>8. PoolOK'
  BY <1>1, <1>2, <1>5, <1>7, TaskFacts DEF PoolOK
<1>9. BatchOK'
  <2>1. \A p \in Worker : Pc(p) # "unwind"
    BY <1>1 DEF LifeOK
  <2> QED BY <1>1, <1>2, <2>1, TaskFacts DEF BatchOK
<1> QED BY <1>3, <1>4, <1>8, <1>9

----------------------------------------------------------------------------------
(* finalize_storages.                                                      *)

(* Main goes on to the next store, or is done.                             *)
LEMMA NextStoreFacts ==
    ASSUME PlaceOK, LifeOK, Pc(Main) \in FinalPcs, NextStore, mode' = mode
    PROVE  /\ PlaceOK' /\ LifeOK' /\ Pc(Main)' \in {"out", "release"}
           /\ \A q \in Worker : place'[q] = place[q]
           /\ IF place[Main].i = Len(Stores)
              THEN place'[Main] = Out
                   /\ life' = IF mode = "served" THEN "stopped" ELSE "serving"
              ELSE place'[Main] = [pc |-> "release", i |-> place[Main].i + 1] /\ life' = life
<1> DEFINE last == place[Main].i = Len(Stores)
           spot == IF last THEN Out ELSE [pc |-> "release", i |-> place[Main].i + 1]
<1>1. /\ place' = [place EXCEPT ![Main] = spot]
      /\ IF last THEN Over ELSE life' = life
  BY DEF NextStore
<1>2. place[Main].i \in 1..Len(Stores)
  BY StoreHere, TaskFacts
<1>3. /\ spot \in Place /\ (spot.pc = "out" => spot = Out) /\ (spot.pc = "out" <=> last)
      /\ spot.pc \in {"out", "release"} /\ (spot.pc = "release" => spot.i \in 1..Len(Stores))
  BY <1>2, TaskFacts DEF Place, FinalPcs, Out
<1>4. spot = IF last THEN Out ELSE [pc |-> "release", i |-> place[Main].i + 1]
  OBVIOUS
<1> HIDE DEF spot
<1>5. /\ place' \in [Tasks -> Place] /\ place'[Main] = spot
      /\ \A q \in Tasks \ {Main} : place'[q] = place[q]
  BY <1>1, <1>3, TaskFacts DEF PlaceOK
<1>6. PlaceOK'
  BY <1>3, <1>5, TaskFacts DEF PlaceOK, Pc, InitPcs, FinalPcs
<1>7. life = "closing"
  BY DEF LifeOK
<1>8. LifeOK'
  <2>1. CASE last
    BY <2>1, <1>1, <1>3, <1>5, <1>7, TaskFacts DEF LifeOK, Pc, InitPcs, FinalPcs, Over
  <2>2. CASE ~last
    BY <2>2, <1>1, <1>3, <1>5, <1>7, TaskFacts DEF LifeOK, Pc, InitPcs, FinalPcs
  <2> QED BY <2>1, <2>2
<1> QED BY <1>1, <1>3, <1>4, <1>5, <1>6, <1>8, TaskFacts DEF Pc, Over

LEMMA FinalizeStorePool ==
    ASSUME PoolInv, FinalizeStore PROVE PoolInv'
<1> USE DEF PoolInv
<1>1. Pc(Main) = "release" /\ Pc(Main) \in FinalPcs
      /\ UNCHANGED <<mode, registered, refs, made, closed, managed, batch>>
  BY DEF FinalizeStore, Here, Pc, FinalPcs, database
<1>2. CASE handle[StoreAt(Main)] = 0 /\ NextStore /\ UNCHANGED <<dropped, handle>>
  <2>1. /\ PlaceOK' /\ LifeOK' /\ Pc(Main)' \in {"out", "release"}
        /\ \A q \in Worker : place'[q] = place[q]
    BY <1>1, <1>2, NextStoreFacts
  <2>2. Held' = Held /\ Owing' = Owing
    BY <1>1, <1>2, <2>1 DEF Held, Owing
  <2>3. PoolOK'
    BY <1>1, <1>2, <2>1, <2>2, TaskFacts DEF PoolOK, Pc, Tasks
  <2>4. BatchOK'
    BY <1>1, <2>1 DEF BatchOK, Pc
  <2> QED BY <2>1, <2>3, <2>4
<1>3. CASE Forget(StoreAt(Main))
  <2> DEFINE s == StoreAt(Main)
  <2>0. s \in Store
    BY <1>1, StoreHere, TaskFacts
  <2> HIDE DEF s
  <2>1. /\ handle[s] # 0 /\ dropped' = handle[s] /\ handle' = [handle EXCEPT ![s] = 0]
        /\ place' = [place EXCEPT ![Main].pc = "drop"] /\ life' = life
    BY <1>3 DEF Forget, GoOn, s
  <2>2. /\ place' \in [Tasks -> Place] /\ place'[Main].pc = "drop"
        /\ place'[Main].i = place[Main].i
        /\ \A q \in Tasks \ {Main} : place'[q] = place[q]
    BY <2>1, TaskFacts DEF PlaceOK, Place, FinalPcs
  <2>3. PlaceOK'
    BY <1>1, <2>2, TaskFacts DEF PlaceOK, Pc, InitPcs, FinalPcs
  <2>4. LifeOK'
    BY <1>1, <2>1, <2>2, TaskFacts DEF LifeOK, Pc, InitPcs, FinalPcs
  <2>5. Held' = Held \ {s} /\ s \in Held /\ Owing' = 1 /\ Owing = 0
    BY <1>1, <2>0, <2>1, <2>2 DEF Held, PoolOK, Owing, Pc
  <2>6. IsFiniteSet(Held') /\ Cardinality(Held') + Owing' <= refs'
    <3>1. IsFiniteSet(Held) /\ Cardinality(Held) \in Nat /\ Cardinality(Held) <= refs
      BY <2>5, FS_CardinalityType DEF PoolOK
    <3>2. IsFiniteSet(Held') /\ Cardinality(Held') = Cardinality(Held) - 1
      BY <2>5, <3>1, FS_RemoveElement
    <3> QED BY <1>1, <2>5, <3>1, <3>2
  <2>7. handle' \in [Store -> {0, registered'}] /\ dropped' = registered' /\ registered' # 0
        /\ dropped' \in Nat
    BY <1>1, <2>0, <2>1 DEF PoolOK
  <2>8. \A q \in Tasks : Pc(q)' \in {"create", "close"} <=> managed' = q
    BY <1>1, <2>2, TaskFacts DEF PoolOK, Pc
  <2>9. Pc(Main)' = "drop"
    BY <2>2 DEF Pc
  <2>10. PoolOK'
    BY <1>1, <2>6, <2>7, <2>8, <2>9 DEF PoolOK
  <2>11. BatchOK'
    BY <1>1, <2>2, TaskFacts DEF BatchOK, Pc
  <2> QED BY <2>3, <2>4, <2>10, <2>11
<1> QED BY <1>2, <1>3 DEF FinalizeStore

LEMMA DropReferencePool ==
    ASSUME PoolInv, DropReference PROVE PoolInv'
<1> USE DEF PoolInv
<1>1. /\ Pc(Main) = "drop" /\ Pc(Main) \in FinalPcs /\ refs > 1 /\ refs' = refs - 1 /\ NextStore
      /\ UNCHANGED <<mode, registered, made, closed, handle, managed, dropped, batch>>
  BY DEF DropReference, Here, Pc, FinalPcs, database
<1>2. /\ PlaceOK' /\ LifeOK' /\ Pc(Main)' \in {"out", "release"}
      /\ \A q \in Worker : place'[q] = place[q]
  BY <1>1, NextStoreFacts
<1>3. Held' = Held /\ Owing' = 0 /\ Owing = 1
  BY <1>1, <1>2 DEF Held, Owing
<1>4. IsFiniteSet(Held') /\ Cardinality(Held') + Owing' <= refs' /\ refs' \in Nat
  <2>1. Cardinality(Held) \in Nat
    BY FS_CardinalityType DEF PoolOK
  <2> QED BY <1>1, <1>3, <2>1 DEF PoolOK
<1>5. PoolOK'
  <2>1. \A q \in Tasks : Pc(q)' \in {"create", "close"} <=> managed' = q
    BY <1>1, <1>2, TaskFacts DEF PoolOK, Pc, Tasks
  <2>2. Pc(Main)' # "drop" /\ Pc(Main)' # "close" /\ (managed' # Nobody => registered' = 0)
    BY <1>1, <1>2 DEF PoolOK
  <2> QED BY <1>1, <1>4, <2>1, <2>2 DEF PoolOK
<1>6. BatchOK'
  BY <1>1, <1>2 DEF BatchOK, Pc
<1> QED BY <1>2, <1>5, <1>6

LEMMA LastReferencePool ==
    ASSUME PoolInv, LastReference PROVE PoolInv'
<1> USE DEF PoolInv
<1>1. Pc(Main) = "drop" /\ dropped = registered /\ registered # 0 /\ refs <= 1 /\ managed = Nobody
  BY DEF LastReference, Here, Pc, PoolOK
<1>2. /\ registered' = 0 /\ refs' = 0 /\ managed' = Main
      /\ place' = [place EXCEPT ![Main].pc = "close"]
      /\ UNCHANGED <<mode, life, made, closed, handle, dropped, batch>>
  BY <1>1 DEF LastReference, GoOn, database
<1>3. /\ place' \in [Tasks -> Place] /\ place'[Main].pc = "close"
      /\ place'[Main].i = place[Main].i
      /\ \A q \in Tasks \ {Main} : place'[q] = place[q]
  BY <1>2, TaskFacts DEF PlaceOK, Place, FinalPcs
<1>4. PlaceOK'
  BY <1>1, <1>3, TaskFacts DEF PlaceOK, Pc, InitPcs, FinalPcs
<1>5. LifeOK'
  BY <1>1, <1>2, <1>3, TaskFacts DEF LifeOK, Pc, InitPcs, FinalPcs
<1>6. Held = {}
  <2>1. Cardinality(Held) \in Nat /\ Cardinality(Held) + 1 <= refs /\ refs \in Nat
    BY <1>1, FS_CardinalityType DEF PoolOK, Owing
  <2>2. Cardinality(Held) = 0
    BY <1>1, <2>1
  <2> QED BY <2>2, FS_EmptySet DEF PoolOK
<1>7. Held' = {} /\ Owing' = 0
  BY <1>2, <1>3, <1>6 DEF Held, Owing, Pc
<1>8. handle' \in [Store -> {0, registered'}]
  BY <1>2, <1>6 DEF PoolOK, Held
<1>9. /\ {registered', refs', made', dropped'} \subseteq Nat /\ closed' \subseteq 1..made'
      /\ registered' <= made' /\ registered' \notin closed' /\ dropped' \in 1..made'
  BY <1>1, <1>2 DEF PoolOK
<1>10. \A q \in Tasks : Pc(q)' \in {"create", "close"} <=> managed' = q
  BY <1>1, <1>2, <1>3, TaskFacts DEF PoolOK, Pc
<1>11. IsFiniteSet(Held') /\ Cardinality(Held') + Owing' <= refs'
  BY <1>2, <1>7, FS_EmptySet
<1>12. Pc(Main)' = "close"
  BY <1>3 DEF Pc
<1>13. PoolOK'
  BY <1>2, <1>8, <1>9, <1>10, <1>11, <1>12, TaskFacts DEF PoolOK
<1>14. BatchOK'
  BY <1>2, <1>3, TaskFacts DEF BatchOK, Pc
<1> QED BY <1>4, <1>5, <1>13, <1>14

(* While Main closes a pool it holds the manager's lock and no pool is     *)
(* registered.                                                             *)
LEMMA Closing ==
    ASSUME PoolInv, Pc(Main) = "close"
    PROVE  managed = Main /\ registered = 0 /\ Held = {} /\ dropped \in 1..made
           /\ \A q \in Worker : Pc(q) # "create"
<1>1. managed = Main
  BY TaskFacts DEF PoolInv, PoolOK
<1>2. registered = 0
  BY <1>1, TaskFacts DEF PoolInv, PoolOK
<1> QED BY <1>1, <1>2, NoneHeld, TaskFacts DEF PoolInv, PoolOK

LEMMA PoolClosesPool ==
    ASSUME PoolInv, RowsInv, PoolCloses PROVE PoolInv'
<1> USE DEF PoolInv
<1>1. /\ Pc(Main) = "close" /\ Pc(Main) \in FinalPcs /\ Busy(dropped) = {}
      /\ closed' = closed \cup {dropped} /\ NextStore
      /\ managed' = IF managed = Main THEN Nobody ELSE managed
      /\ UNCHANGED <<mode, registered, refs, made, handle, dropped, batch>>
  BY DEF PoolCloses, Here, Pc, FinalPcs, database
<1>2. /\ managed = Main /\ registered = 0 /\ Held = {} /\ dropped \in 1..made
      /\ \A q \in Worker : Pc(q) # "create"
  BY <1>1, Closing
<1>3. /\ PlaceOK' /\ LifeOK' /\ Pc(Main)' \in {"out", "release"}
      /\ \A q \in Worker : place'[q] = place[q]
  BY <1>1, NextStoreFacts
<1>4. Held' = Held /\ Owing' = 0 /\ Owing = 0
  BY <1>1, <1>3 DEF Held, Owing
<1>5. \A q \in Tasks : Pc(q)' \in {"create", "close"} <=> managed' = q
  <2>1. \A q \in Worker : Pc(q)' \notin {"create", "close"}
    BY <1>2, <1>3 DEF Pc, PlaceOK, FinalPcs
  <2> QED BY <1>1, <1>2, <1>3, <2>1, TaskFacts DEF Tasks
<1>6. PoolOK'
  BY <1>1, <1>2, <1>3, <1>4, <1>5, TaskFacts DEF PoolOK
<1>7. BatchOK'
  <2>1. \A p \in Worker : batch[p].number # 0 => batch[p].pool # dropped
    BY <1>1 DEF Busy
  <2> QED BY <1>1, <1>3, <2>1 DEF BatchOK, Pc
<1> QED BY <1>3, <1>6, <1>7

LEMMA PoolCloseFailsPool ==
    ASSUME PoolInv, PoolCloseFails PROVE PoolInv'
<1> USE DEF PoolInv
<1>1. /\ Pc(Main) = "close" /\ Over /\ place' = [place EXCEPT ![Main] = Out]
      /\ managed' = IF managed = Main THEN Nobody ELSE managed
      /\ UNCHANGED <<mode, registered, refs, made, closed, handle, dropped, batch>>
  BY DEF PoolCloseFails, Here, Pc, database
<1>2. /\ managed = Main /\ registered = 0 /\ Held = {} /\ dropped \in 1..made
      /\ \A q \in Worker : Pc(q) # "create"
  BY <1>1, Closing
<1>3. /\ place' \in [Tasks -> Place] /\ place'[Main] = Out
      /\ \A q \in Tasks \ {Main} : place'[q] = place[q]
  BY <1>1, TaskFacts DEF PlaceOK
<1>4. PlaceOK'
  BY <1>3, TaskFacts DEF PlaceOK, Pc, InitPcs, FinalPcs
<1>5. LifeOK'
  BY <1>1, <1>3, TaskFacts DEF LifeOK, Pc, InitPcs, FinalPcs, Over
<1>6. Held' = Held /\ Owing' = 0 /\ Owing = 0
  BY <1>1, <1>3, TaskFacts DEF Held, Owing, Pc
<1>7. \A q \in Tasks : Pc(q)' \in {"create", "close"} <=> managed' = q
  <2>1. \A q \in Worker : Pc(q)' \notin {"create", "close"}
    BY <1>2, <1>3, TaskFacts DEF Pc, PlaceOK, FinalPcs
  <2> QED BY <1>1, <1>2, <1>3, <2>1, TaskFacts DEF Tasks, Pc
<1>8. PoolOK'
  BY <1>1, <1>2, <1>3, <1>6, <1>7, TaskFacts DEF PoolOK, Pc
<1>9. BatchOK'
  BY <1>1, <1>3, TaskFacts DEF BatchOK, Pc
<1> QED BY <1>4, <1>5, <1>8, <1>9

----------------------------------------------------------------------------------
(* Served by the API, only Main initializes, each store once, and so the   *)
(* counter is the number of stores that hold the pool.                     *)

ReadyInv ==
    mode = "served" =>
        /\ \A p \in Worker : Pc(p) \in {"out", "write", "unwind"}
        /\ life = "serving" => initialized

(* The stores from place i on, or up to it, hold nothing.                  *)
NoneFrom(i) == \A j \in 1..Len(Stores) : j >= i => handle[Stores[j]] = 0
NoneUpTo(i) == \A j \in 1..Len(Stores) : j <= i => handle[Stores[j]] = 0

CountInv ==
    mode = "served" =>
        /\ refs = Cardinality(Held) + Owing
        /\ refs = 0 => registered = 0
        /\ Pc(Main) \in {"get", "create"} => NoneFrom(place[Main].i)
        /\ Pc(Main) = "ddl" => NoneFrom(place[Main].i + 1)
        /\ Pc(Main) = "release" => NoneUpTo(place[Main].i - 1)
        /\ Pc(Main) \in {"drop", "close"} => NoneUpTo(place[Main].i)
        /\ life = "stopped" => Held = {}

PgInv == RowsInv /\ PoolInv /\ ReadyInv /\ CountInv

LEMMA ServedInit == PgInit => ReadyInv /\ CountInv
<1> SUFFICES ASSUME PgInit PROVE ReadyInv /\ CountInv
  OBVIOUS
<1> USE DEF PgInit
<1>1. Held = {} /\ Owing = 0 /\ Pc(Main) = "out" /\ \A p \in Worker : Pc(p) = "out"
  BY TaskFacts DEF Held, Owing, Pc, Out
<1> QED BY <1>1, FS_EmptySet DEF ReadyInv, CountInv

LEMMA HeldCount == ASSUME PoolOK PROVE IsFiniteSet(Held) /\ Cardinality(Held) \in Nat
BY FS_CardinalityType DEF PoolOK

(* What leaves Main, the pool and the life alone leaves the count.         *)
LEMMA CountSame ==
    ASSUME CountInv, UNCHANGED <<mode, life, registered, refs, handle>>, place'[Main] = place[Main]
    PROVE  CountInv'
BY DEF CountInv, Held, Owing, Pc, NoneFrom, NoneUpTo

(* All the stores hold nothing when none before the end does.              *)
LEMMA NoneAtAll ==
    ASSUME PoolOK, NoneUpTo(Len(Stores)) PROVE Held = {}
BY TaskFacts DEF NoneUpTo, Held

LEMMA WorkerServed ==
    ASSUME PgInv, NEW p \in Worker, TaskStep(p) PROVE ReadyInv' /\ CountInv'
<1> USE DEF PgInv
<1>1. CASE mode = "library"
  <2>1. mode' = mode
    BY DEF TaskStep, InitStep, GetClient, CreatePool, PoolCreated, PoolNotCreated, TableFails,
           InitializeRows, InitializeVectors, TableMade, EnsureInitialized, BeginUpsert, WriteRow,
           DeleteRows, DropRows, Withdraw, Commit, Rollback, Unwound
  <2> QED BY <1>1, <2>1 DEF ReadyInv, CountInv
<1>2. CASE mode # "library"
  <2>0. mode = "served"
    BY <1>2 DEF PoolInv, LifeOK
  <2>1. Pc(p) \in {"out", "write", "unwind"}
    BY <2>0 DEF ReadyInv
  <2>2. ~InitStep(p)
    BY <2>1, TaskFacts DEF InitStep, GetClient, CreatePool, PoolCreated, PoolNotCreated, TableFails,
           InitializeRows, InitializeVectors, TableMade, Here, Pc
  <2>3. ~EnsureInitialized(p)
    BY <2>0 DEF EnsureInitialized, ReadyInv
  <2>4. CASE \E s \in Store, rows \in SUBSET Row \ {{}} : BeginUpsert(p, s, rows)
    <3>1. UNCHANGED <<mode, life, initialized, registered, refs, handle>>
          /\ place' = [place EXCEPT ![p].pc = "write"]
      BY <2>4 DEF BeginUpsert, GoOn
    <3>2. place'[p].pc = "write" /\ \A q \in Tasks \ {p} : place'[q] = place[q]
      BY <3>1, TaskFacts DEF PoolInv, PlaceOK, Place
    <3>3. CountInv'
      BY <3>1, <3>2, CountSame, TaskFacts
    <3>4. ReadyInv'
      BY <3>1, <3>2, TaskFacts DEF ReadyInv, Pc
    <3> QED BY <3>3, <3>4
  <2>5. CASE Commit(p) \/ Rollback(p) \/ Unwound(p)
    <3>1. UNCHANGED <<mode, life, initialized, registered, refs, handle>>
          /\ place' = [place EXCEPT ![p] = Out]
      BY <2>5 DEF Commit, Rollback, Unwound
    <3>2. place'[p] = Out /\ \A q \in Tasks \ {p} : place'[q] = place[q]
      BY <3>1, TaskFacts DEF PoolInv, PlaceOK
    <3>3. CountInv'
      BY <3>1, <3>2, CountSame, TaskFacts
    <3>4. ReadyInv'
      BY <3>1, <3>2, TaskFacts DEF ReadyInv, Pc
    <3> QED BY <3>3, <3>4
  <2>6. CASE \/ \E r \in Row : WriteRow(p, r)
             \/ \E s \in Store, rows \in SUBSET Row : DeleteRows(p, s, rows)
             \/ \E s \in Store : DropRows(p, s)
    <3>1. UNCHANGED <<mode, life, process>>
      BY <2>6 DEF WriteRow, DeleteRows, DropRows, Withdraw
    <3>2. CountInv'
      BY <3>1, CountSame DEF process
    <3>3. ReadyInv'
      BY <3>1 DEF ReadyInv, Pc, process
    <3> QED BY <3>2, <3>3
  <2> QED BY <2>2, <2>3, <2>4, <2>5, <2>6 DEF TaskStep
<1> QED BY <1>1, <1>2

(* The steps of Main while it starts the service.                          *)
LEMMA StartingServed ==
    ASSUME PgInv, InitStep(Main) PROVE ReadyInv' /\ CountInv'
<1> USE DEF PgInv
<1>0. place[Main].i \in 1..Len(Stores) /\ StoreAt(Main) \in Store /\ Pc(Main) \in InitPcs
      /\ life = "starting" /\ mode = "served" /\ Owing = 0
  <2>1. Pc(Main) \in InitPcs
    BY DEF InitStep, GetClient, CreatePool, PoolCreated, PoolNotCreated, TableFails,
           InitializeRows, InitializeVectors, TableMade, Here, Pc, InitPcs
  <2>2. life = "starting" /\ mode = "served"
    BY <2>1 DEF PoolInv, LifeOK
  <2> QED BY <2>1, <2>2, StoreHere, TaskFacts DEF PoolInv, Owing, InitPcs
<1>1. \A p \in Worker : place[p] = Out
  BY <1>0 DEF PoolInv, LifeOK
<1>2. CASE GetClient(Main)
  <2>1. /\ Pc(Main) = "get" /\ registered # 0 /\ refs' = refs + 1
        /\ handle' = [handle EXCEPT ![StoreAt(Main)] = registered]
        /\ place' = [place EXCEPT ![Main].pc = "ddl"]
        /\ UNCHANGED <<mode, life, registered>>
    BY <1>2 DEF GetClient, Here, GoOn, Pc
  <2>2. /\ place'[Main].pc = "ddl" /\ place'[Main].i = place[Main].i
        /\ \A q \in Worker : place'[q] = Out
    BY <1>1, <2>1, TaskFacts DEF PoolInv, PlaceOK, Place
  <2>3. handle[StoreAt(Main)] = 0
    BY <1>0, <2>1 DEF CountInv, NoneFrom, StoreAt
  <2>4. Held' = Held \cup {StoreAt(Main)} /\ StoreAt(Main) \notin Held /\ Owing' = 0
    BY <1>0, <2>1, <2>2, <2>3 DEF Held, PoolInv, PoolOK, Owing, Pc
  <2>5. Cardinality(Held') = Cardinality(Held) + 1 /\ Cardinality(Held) \in Nat
    BY <2>4, HeldCount, FS_AddElement DEF PoolInv
  <2>6. refs' = Cardinality(Held') + Owing'
    BY <1>0, <2>1, <2>4, <2>5 DEF CountInv
  <2>7. NoneFrom(place[Main].i + 1)'
    <3> SUFFICES ASSUME NEW j \in 1..Len(Stores), j >= place[Main].i + 1
                 PROVE  handle'[Stores[j]] = 0
      BY <2>2 DEF NoneFrom
    <3>1. j >= place[Main].i /\ j # place[Main].i
      BY <1>0
    <3>2. handle[Stores[j]] = 0 /\ Stores[j] # StoreAt(Main) /\ Stores[j] \in Store
      BY <1>0, <2>1, <3>1, TaskFacts DEF CountInv, NoneFrom, StoreAt
    <3> QED BY <2>1, <3>2 DEF PoolInv, PoolOK
  <2>8. CountInv'
    <3>1. Pc(Main)' = "ddl" /\ life' = "starting" /\ registered' = registered
      BY <1>0, <2>1, <2>2 DEF Pc
    <3>2. refs' # 0
      BY <2>4, <2>5, <2>6
    <3>3. NoneFrom(place[Main].i + 1)'
      BY <2>7
    <3> QED BY <2>6, <3>1, <3>2, <3>3 DEF CountInv
  <2> QED BY <1>0, <2>1, <2>2, <2>8, TaskFacts DEF ReadyInv, Pc
<1>3. CASE CreatePool(Main)
  <2>1. /\ Pc(Main) = "get" /\ place' = [place EXCEPT ![Main].pc = "create"]
        /\ UNCHANGED <<mode, life, registered, refs, handle>>
    BY <1>3 DEF CreatePool, Here, GoOn, Pc
  <2>2. /\ place'[Main].pc = "create" /\ place'[Main].i = place[Main].i
        /\ \A q \in Worker : place'[q] = Out
    BY <1>1, <2>1, TaskFacts DEF PoolInv, PlaceOK, Place
  <2>3. Held' = Held /\ Owing' = 0 /\ (NoneFrom(place[Main].i) => NoneFrom(place[Main].i)')
    BY <2>1, <2>2 DEF Held, Owing, Pc, NoneFrom
  <2>4. CountInv'
    BY <1>0, <2>1, <2>2, <2>3 DEF CountInv, Pc
  <2> QED BY <1>0, <2>1, <2>2, <2>4, TaskFacts DEF ReadyInv, Pc
<1>4. CASE PoolCreated(Main)
  <2>1. /\ Pc(Main) = "create" /\ registered' = made + 1 /\ refs' = 1
        /\ handle' = [handle EXCEPT ![StoreAt(Main)] = made + 1]
        /\ place' = [place EXCEPT ![Main].pc = "ddl"]
        /\ UNCHANGED <<mode, life>>
    BY <1>4 DEF PoolCreated, Here, GoOn, Pc
  <2>2. /\ place'[Main].pc = "ddl" /\ place'[Main].i = place[Main].i
        /\ \A q \in Worker : place'[q] = Out
    BY <1>1, <2>1, TaskFacts DEF PoolInv, PlaceOK, Place
  <2>3. registered = 0
    <3>1. managed = Main
      BY <2>1, TaskFacts DEF PoolInv, PoolOK
    <3> QED BY <3>1, TaskFacts DEF PoolInv, PoolOK
  <2>4. Held = {} /\ made \in Nat /\ \A s \in Store : handle[s] = 0
    BY <2>3, NoneHeld DEF PoolInv, PoolOK
  <2>5. Held' = {StoreAt(Main)} /\ Owing' = 0
    BY <1>0, <2>1, <2>2, <2>4 DEF Held, PoolInv, PoolOK, Owing, Pc
  <2>s. Cardinality({StoreAt(Main)}) = 1
    BY FS_Singleton
  <2>6. refs' = Cardinality(Held') + Owing'
    BY <2>1, <2>5, <2>s
  <2>7. NoneFrom(place[Main].i + 1)'
    <3> SUFFICES ASSUME NEW j \in 1..Len(Stores), j >= place[Main].i + 1
                 PROVE  handle'[Stores[j]] = 0
      BY <2>2 DEF NoneFrom
    <3>1. j # place[Main].i
      BY <1>0
    <3>2. Stores[j] # StoreAt(Main) /\ Stores[j] \in Store
      BY <1>0, <3>1, TaskFacts DEF StoreAt
    <3> QED BY <2>1, <2>4, <3>2 DEF PoolInv, PoolOK
  <2>8. CountInv'
    BY <1>0, <2>1, <2>2, <2>6, <2>7 DEF CountInv, Pc
  <2> QED BY <1>0, <2>1, <2>2, <2>8, TaskFacts DEF ReadyInv, Pc
<1>5. CASE PoolNotCreated(Main) \/ TableFails(Main)
  <2>1. /\ place' = [place EXCEPT ![Main] = Out] /\ life' = "draining"
        /\ UNCHANGED <<mode, registered, refs, handle>>
    BY <1>5 DEF PoolNotCreated, TableFails, InitRaises
  <2>2. place'[Main] = Out /\ \A q \in Worker : place'[q] = Out
    BY <1>1, <2>1, TaskFacts DEF PoolInv, PlaceOK
  <2>3. Held' = Held /\ Owing' = 0
    BY <2>1, <2>2, TaskFacts DEF Held, Owing, Pc
  <2>4. CountInv'
    BY <1>0, <2>1, <2>2, <2>3, TaskFacts DEF CountInv, Pc
  <2> QED BY <2>1, <2>2, <2>4, TaskFacts DEF ReadyInv, Pc
<1>6. CASE TableMade(Main)
  <2> DEFINE last == place[Main].i = Len(Stores)
  <2>1. /\ Pc(Main) = "ddl" /\ initialized' = (initialized \/ last)
        /\ place' = [place EXCEPT ![Main] =
              IF last THEN Out ELSE [pc |-> "get", i |-> place[Main].i + 1]]
        /\ life' = IF last THEN "serving" ELSE life
        /\ UNCHANGED <<mode, registered, refs, handle>>
    BY <1>6 DEF TableMade, Here, Pc
  <2>2. /\ place'[Main] = IF last THEN Out ELSE [pc |-> "get", i |-> place[Main].i + 1]
        /\ \A q \in Worker : place'[q] = Out
    BY <1>1, <2>1, TaskFacts DEF PoolInv, PlaceOK
  <2>3. NoneFrom(place[Main].i + 1)
    BY <1>0, <2>1 DEF CountInv
  <2>4. Held' = Held /\ Owing' = 0
    BY <2>1, <2>2, TaskFacts DEF Held, Owing, Pc
  <2>5. CASE last
    <3>1. Pc(Main)' = "out" /\ life' = "serving" /\ initialized'
      BY <2>1, <2>2, <2>5, TaskFacts DEF Pc
    <3> QED BY <1>0, <2>1, <2>2, <2>4, <3>1, TaskFacts DEF CountInv, ReadyInv, Pc
  <2>6. CASE ~last
    <3>1. Pc(Main)' = "get" /\ place'[Main].i = place[Main].i + 1 /\ life' = "starting"
      BY <1>0, <2>1, <2>2, <2>6 DEF Pc
    <3>2. NoneFrom(place[Main].i)'
      BY <2>1, <2>3, <3>1 DEF NoneFrom
    <3>3. CountInv'
      BY <1>0, <2>1, <2>4, <3>1, <3>2 DEF CountInv
    <3> QED BY <2>1, <2>2, <3>1, <3>3, TaskFacts DEF ReadyInv, Pc
  <2> QED BY <2>5, <2>6
<1> QED BY <1>2, <1>3, <1>4, <1>5, <1>6 DEF InitStep, InitializeRows, InitializeVectors

(* The steps at either end of the shutdown.                                *)
LEMMA FreshServed ==
    ASSUME registered' = 0, refs' = 0, handle' = [s \in Store |-> 0], life' # "serving",
           \A p \in Worker : Pc(p)' = "out",
           Pc(Main)' \in {"out", "get"}
    PROVE  ReadyInv' /\ CountInv'
<1>1. Held' = {} /\ Owing' = 0
  BY DEF Held, Owing
<1>2. NoneFrom(place[Main].i)'
  BY TaskFacts DEF NoneFrom
<1>3. CountInv'
  BY <1>1, <1>2, FS_EmptySet DEF CountInv
<1> QED BY <1>3 DEF ReadyInv

LEMMA StopServed ==
    ASSUME PgInv, Start \/ Die PROVE ReadyInv' /\ CountInv'
<1>1. CASE Start
  <2>1. /\ registered' = 0 /\ refs' = 0 /\ handle' = [s \in Store |-> 0] /\ life' = "starting"
        /\ place' = [p \in Tasks |-> IF p = Main THEN [pc |-> "get", i |-> 1] ELSE Out]
    BY <1>1 DEF Start
  <2> QED BY <2>1, FreshServed, TaskFacts DEF Pc
<1>2. CASE Die
  <2>1. /\ registered' = 0 /\ refs' = 0 /\ handle' = [s \in Store |-> 0] /\ life' = "stopped"
        /\ place' = [p \in Tasks |-> Out]
    BY <1>2 DEF Die, NewProcess
  <2> QED BY <2>1, FreshServed, TaskFacts DEF Pc
<1> QED BY <1>1, <1>2

LEMMA EndingServed ==
    ASSUME PgInv, Terminate \/ Drained \/ DrainTimesOut \/ FinalizeLibrary
    PROVE  ReadyInv' /\ CountInv'
<1> USE DEF PgInv
<1>1. CASE Terminate
  <2>1. mode = "served" /\ life' = "draining" /\ life = "serving"
        /\ UNCHANGED <<mode, initialized, place, registered, refs, handle>>
    BY <1>1 DEF Terminate, process
  <2> QED BY <2>1 DEF ReadyInv, CountInv, Held, Owing, Pc, NoneFrom, NoneUpTo
<1>2. CASE FinalizeLibrary
  <2>1. mode' = "library"
    BY <1>2 DEF FinalizeLibrary
  <2> QED BY <2>1 DEF ReadyInv, CountInv
<1>3. CASE Drained
  <2>1. /\ life \in {"draining", "unwinding"} /\ life' = "closing"
        /\ AllOut /\ place' = [place EXCEPT ![Main] = [pc |-> "release", i |-> 1]]
        /\ UNCHANGED <<mode, registered, refs, handle>>
    BY <1>3 DEF Drained, BeginFinalize
  <2>2. place'[Main] = [pc |-> "release", i |-> 1] /\ \A q \in Worker : place'[q] = Out
    BY <2>1, TaskFacts DEF PoolInv, PlaceOK, AllOut
  <2>3. mode = "served" /\ Pc(Main) \notin InitPcs \cup FinalPcs
    BY <2>1 DEF PoolInv, LifeOK
  <2>4. Held' = Held /\ Owing' = 0 /\ Owing = 0
    BY <2>1, <2>2, <2>3 DEF Held, Owing, Pc, FinalPcs
  <2>5. Pc(Main)' = "release" /\ NoneUpTo(place[Main].i - 1)'
    BY <2>2, TaskFacts DEF Pc, NoneUpTo
  <2>6. CountInv'
    BY <2>1, <2>3, <2>4, <2>5 DEF CountInv
  <2> QED BY <2>1, <2>2, <2>6, TaskFacts DEF ReadyInv, Pc
<1>4. CASE DrainTimesOut
  <2>1. /\ life = "draining" /\ life' = "unwinding" /\ UNCHANGED <<mode, registered, refs, handle>>
        /\ place' = [p \in Tasks |-> IF Pc(p) = "write" THEN [place[p] EXCEPT !.pc = "unwind"] ELSE Out]
    BY <1>4 DEF DrainTimesOut, Here, Pc
  <2>2. \A q \in Tasks : Pc(q)' = IF Pc(q) = "write" THEN "unwind" ELSE "out"
    BY <2>1, TaskFacts DEF PoolInv, PlaceOK, Place, Pc
  <2>3. mode = "served" /\ Pc(Main) \notin InitPcs \cup FinalPcs
    BY <2>1 DEF PoolInv, LifeOK
  <2>4. Pc(Main)' = "out"
    BY <2>2, TaskFacts DEF PoolInv, PlaceOK
  <2>5. Held' = Held /\ Owing' = 0 /\ Owing = 0
    BY <2>1, <2>3, <2>4 DEF Held, Owing, FinalPcs
  <2>6. CountInv'
    BY <2>1, <2>3, <2>4, <2>5 DEF CountInv
  <2> QED BY <2>1, <2>2, <2>6, TaskFacts DEF ReadyInv
<1> QED BY <1>1, <1>2, <1>3, <1>4

(* Main goes on to the next store, or has released them all.               *)
LEMMA NextStoreServed ==
    ASSUME PgInv, mode = "served", Pc(Main) \in FinalPcs, NextStore, mode' = mode, handle' = handle,
           NoneUpTo(place[Main].i), refs' = Cardinality(Held), refs' = 0 => registered' = 0
    PROVE  ReadyInv' /\ CountInv'
<1> USE DEF PgInv
<1>1. /\ Pc(Main)' \in {"out", "release"} /\ \A q \in Worker : place'[q] = place[q]
      /\ IF place[Main].i = Len(Stores)
         THEN place'[Main] = Out /\ life' = "stopped"
         ELSE place'[Main] = [pc |-> "release", i |-> place[Main].i + 1] /\ life' = life
  BY NextStoreFacts DEF PoolInv
<1>2. life = "closing" /\ place[Main].i \in 1..Len(Stores)
  BY StoreHere, TaskFacts DEF PoolInv, LifeOK
<1>3. Held' = Held /\ Owing' = 0 /\ Cardinality(Held) \in Nat
  BY <1>1, HeldCount DEF Held, Owing, PoolInv
<1>4. refs' = Cardinality(Held') + Owing'
  BY <1>3
<1>5. CountInv'
  <2>1. CASE place[Main].i = Len(Stores)
    <3>1. Held' = {} /\ Pc(Main)' = "out" /\ life' = "stopped"
      BY <1>1, <1>3, <2>1, NoneAtAll, TaskFacts DEF PoolInv, Pc
    <3> QED BY <1>4, <3>1 DEF CountInv
  <2>2. CASE place[Main].i # Len(Stores)
    <3>1. Pc(Main)' = "release" /\ place'[Main].i = place[Main].i + 1 /\ life' = "closing"
      BY <1>1, <1>2, <2>2 DEF Pc
    <3>2. NoneUpTo(place[Main].i - 1)'
      BY <1>2, <3>1 DEF NoneUpTo
    <3> QED BY <1>4, <3>1, <3>2 DEF CountInv
  <2> QED BY <2>1, <2>2
<1>6. life' # "serving" /\ \A q \in Worker : Pc(q)' = Pc(q)
  BY <1>1, <1>2 DEF Pc
<1> QED BY <1>5, <1>6 DEF ReadyInv

(* finalize_storages, store by store.                                      *)
LEMMA FinalizingServed ==
    ASSUME PgInv, FinalizeStore \/ DropReference \/ LastReference \/ PoolCloses \/ PoolCloseFails
    PROVE  ReadyInv' /\ CountInv'
<1> USE DEF PgInv
<1>0. mode' = mode /\ Pc(Main) \in FinalPcs
  BY DEF FinalizeStore, DropReference, LastReference, PoolCloses, PoolCloseFails, Here, Pc,
         FinalPcs
<1>1. CASE mode = "library"
  BY <1>0, <1>1 DEF ReadyInv, CountInv
<1>2. CASE mode # "library"
  <2>0. mode = "served" /\ life = "closing"
    BY <1>0, <1>2 DEF PoolInv, LifeOK
  <2>i. place[Main].i \in 1..Len(Stores) /\ StoreAt(Main) \in Store
        /\ StoreAt(Main) = Stores[place[Main].i]
    BY <1>0, StoreHere, TaskFacts DEF PoolInv, StoreAt
  <2>h. IsFiniteSet(Held) /\ Cardinality(Held) \in Nat
    BY HeldCount DEF PoolInv
  <2>1. CASE FinalizeStore
    <3>1. Pc(Main) = "release" /\ UNCHANGED <<registered, refs>>
      BY <2>1 DEF FinalizeStore, Here, Pc
    <3>2. /\ NoneUpTo(place[Main].i - 1) /\ refs = Cardinality(Held) /\ Owing = 0
          /\ refs = 0 => registered = 0
      BY <2>0, <2>h, <3>1 DEF CountInv, Owing
    <3>3. CASE handle[StoreAt(Main)] = 0 /\ NextStore /\ UNCHANGED <<dropped, handle>>
      <4>1. NoneUpTo(place[Main].i)
        <5> SUFFICES ASSUME NEW j \in 1..Len(Stores), j <= place[Main].i
                     PROVE  handle[Stores[j]] = 0
          BY DEF NoneUpTo
        <5> QED BY <2>i, <3>2, <3>3 DEF NoneUpTo
      <4> QED BY <1>0, <2>0, <3>1, <3>2, <3>3, <4>1, NextStoreServed
    <3>4. CASE Forget(StoreAt(Main))
      <4> DEFINE s == StoreAt(Main)
      <4>i. s \in Store /\ s = Stores[place[Main].i]
        BY <2>i
      <4> HIDE DEF s
      <4>1. /\ handle[s] # 0 /\ handle' = [handle EXCEPT ![s] = 0]
            /\ place' = [place EXCEPT ![Main].pc = "drop"] /\ UNCHANGED <<initialized, life>>
        BY <3>4 DEF Forget, GoOn, s
      <4>2. /\ place'[Main].pc = "drop" /\ place'[Main].i = place[Main].i
            /\ \A q \in Worker : place'[q] = place[q]
        BY <4>1, TaskFacts DEF PoolInv, PlaceOK, Place
      <4>3. Held' = Held \ {s} /\ s \in Held /\ Owing' = 1
        BY <4>i, <4>1, <4>2 DEF Held, PoolInv, PoolOK, Owing, Pc
      <4>4. Cardinality(Held') = Cardinality(Held) - 1
        BY <2>h, <4>3, FS_RemoveElement
      <4>5. refs' = Cardinality(Held') + Owing'
        BY <2>h, <3>1, <3>2, <4>3, <4>4
      <4>6. NoneUpTo(place[Main].i)'
        <5> SUFFICES ASSUME NEW j \in 1..Len(Stores), j <= place[Main].i
                     PROVE  handle'[Stores[j]] = 0
          BY <4>2 DEF NoneUpTo
        <5>1. Stores[j] \in Store
          BY TaskFacts
        <5>2. CASE j = place[Main].i
          BY <4>i, <4>1, <5>2 DEF PoolInv, PoolOK
        <5>3. CASE j # place[Main].i
          <6>1. handle[Stores[j]] = 0
            BY <2>i, <3>2, <5>3 DEF NoneUpTo
          <6> QED BY <4>i, <4>1, <5>1, <6>1 DEF PoolInv, PoolOK
        <5> QED BY <5>2, <5>3
      <4>7. Pc(Main)' = "drop" /\ life' = "closing" /\ \A q \in Worker : Pc(q)' = Pc(q)
        BY <2>0, <4>1, <4>2 DEF Pc
      <4>8. CountInv'
        BY <3>1, <3>2, <4>5, <4>6, <4>7 DEF CountInv
      <4> QED BY <1>0, <4>7, <4>8 DEF ReadyInv
    <3> QED BY <2>1, <3>3, <3>4 DEF FinalizeStore
  <2>2. CASE DropReference
    <3>1. /\ Pc(Main) = "drop" /\ NextStore /\ refs > 1 /\ refs' = refs - 1
          /\ UNCHANGED <<registered, handle>>
      BY <2>2 DEF DropReference, Here, Pc
    <3>2. NoneUpTo(place[Main].i) /\ refs = Cardinality(Held) + 1
      BY <2>0, <3>1 DEF CountInv, Owing
    <3>3. refs' = Cardinality(Held) /\ refs' # 0
      BY <2>h, <3>1, <3>2
    <3> QED BY <1>0, <2>0, <3>1, <3>2, <3>3, NextStoreServed
  <2>3. CASE LastReference
    <3>1. Pc(Main) = "drop" /\ dropped = registered /\ refs <= 1
      BY <2>3 DEF LastReference, Here, Pc, PoolInv, PoolOK
    <3>2. /\ registered' = 0 /\ refs' = 0 /\ place' = [place EXCEPT ![Main].pc = "close"]
          /\ UNCHANGED <<life, initialized, handle>>
      BY <2>3, <3>1 DEF LastReference, GoOn
    <3>3. NoneUpTo(place[Main].i) /\ refs = Cardinality(Held) + 1
      BY <2>0, <3>1 DEF CountInv, Owing
    <3>4. Cardinality(Held) = 0
      BY <2>h, <3>1, <3>3
    <3>5. /\ place'[Main].pc = "close" /\ place'[Main].i = place[Main].i
          /\ \A q \in Worker : place'[q] = place[q]
      BY <3>2, TaskFacts DEF PoolInv, PlaceOK, Place
    <3>6. Held' = Held /\ Owing' = 0 /\ NoneUpTo(place[Main].i)' /\ Pc(Main)' = "close"
      BY <3>2, <3>3, <3>5 DEF Held, Owing, Pc, NoneUpTo
    <3>7. CountInv'
      BY <2>0, <3>2, <3>4, <3>6 DEF CountInv
    <3> QED BY <1>0, <2>0, <3>2, <3>5, <3>7 DEF ReadyInv, Pc
  <2>4. CASE PoolCloses
    <3>1. Pc(Main) = "close" /\ NextStore /\ UNCHANGED <<registered, refs, handle>>
      BY <2>4 DEF PoolCloses, Here, Pc
    <3>2. NoneUpTo(place[Main].i) /\ refs = Cardinality(Held) /\ registered = 0
      BY <2>0, <2>h, <3>1, Closing DEF CountInv, Owing
    <3> QED BY <1>0, <2>0, <3>1, <3>2, NextStoreServed
  <2>5. CASE PoolCloseFails
    <3>1. /\ Pc(Main) = "close" /\ place' = [place EXCEPT ![Main] = Out] /\ life' = "stopped"
          /\ UNCHANGED <<registered, refs, handle>>
      BY <2>0, <2>5 DEF PoolCloseFails, Over, Here, Pc
    <3>2. Held = {} /\ refs = Cardinality(Held) /\ registered = 0
      BY <2>0, <2>h, <3>1, Closing DEF CountInv, Owing
    <3>3. place'[Main] = Out /\ \A q \in Worker : place'[q] = place[q]
      BY <3>1, TaskFacts DEF PoolInv, PlaceOK
    <3>4. Held' = {} /\ Owing' = 0 /\ Pc(Main)' = "out"
      BY <3>1, <3>2, <3>3, TaskFacts DEF Held, Owing, Pc
    <3>5. CountInv'
      BY <2>h, <3>1, <3>2, <3>4, FS_EmptySet DEF CountInv
    <3> QED BY <1>0, <3>1, <3>3, <3>5 DEF ReadyInv, Pc
  <2> QED BY <2>1, <2>2, <2>3, <2>4, <2>5
<1> QED BY <1>1, <1>2

----------------------------------------------------------------------------------
(* The invariant holds, and with it the three properties.                  *)

LEMMA WorkerRows ==
    ASSUME PgInv, NEW p \in Worker, TaskStep(p) PROVE RowsInv'
<1> USE DEF PgInv
<1>1. CASE InitStep(p) \/ EnsureInitialized(p)
  <2>1. UNCHANGED <<batch, written, outcome, table>>
    BY <1>1 DEF InitStep, GetClient, CreatePool, PoolCreated, PoolNotCreated, TableFails,
           InitializeRows, InitializeVectors, TableMade, EnsureInitialized, database
  <2> QED BY <2>1, RowsSame DEF RowsInv
<1>2. CASE \E s \in Store, rows \in SUBSET Row \ {{}} : BeginUpsert(p, s, rows)
  <2>1. PICK s \in Store, rows \in SUBSET Row \ {{}} : BeginUpsert(p, s, rows)
    BY <1>2
  <2>2. handle[s] \in Nat
    BY DEF PoolInv, PoolOK
  <2> QED BY <2>1, <2>2, BeginUpsertRows
<1>3. CASE \E r \in Row : WriteRow(p, r)
  <2>1. PICK r \in Row : WriteRow(p, r)
    BY <1>3
  <2>2. written' = [written EXCEPT ![p] = written[p] \cup {r}] /\ UNCHANGED <<batch, outcome, table>>
    BY <2>1 DEF WriteRow
  <2>3. written' \in [Worker -> SUBSET Row]
    BY <2>2 DEF RowsInv
  <2> QED BY <2>2, <2>3, RowsSame
<1>4. CASE \/ \E s \in Store, rows \in SUBSET Row : DeleteRows(p, s, rows)
           \/ \E s \in Store : DropRows(p, s)
  BY <1>4, WithdrawRows DEF DeleteRows, DropRows
<1>5. CASE Commit(p)
  BY <1>5, CommitRows
<1>6. CASE Rollback(p) \/ Unwound(p)
  BY <1>6, EndedFailed DEF Rollback, Unwound
<1> QED BY <1>1, <1>2, <1>3, <1>4, <1>5, <1>6 DEF TaskStep

LEMMA MainRows ==
    ASSUME RowsInv, MainStep \/ Start \/ Terminate \/ FinalizeLibrary \/ Die PROVE RowsInv'
<1>1. CASE Die
  <2>1. /\ Ended({p \in Worker : Here(p, "write") \/ Here(p, "unwind")}, "failed")
        /\ table' = table
    BY <1>1 DEF Die
  <2> QED BY <2>1, EndedFailed
<1>2. CASE InitStep(Main)
  <2>1. UNCHANGED <<batch, written, outcome, table>>
    BY <1>2 DEF InitStep, GetClient, CreatePool, PoolCreated, PoolNotCreated, TableFails,
           InitializeRows, InitializeVectors, TableMade, database
  <2> QED BY <2>1, RowsSame DEF RowsInv
<1>3. CASE \/ Start \/ Terminate \/ FinalizeLibrary \/ Drained \/ DrainTimesOut \/ FinalizeStore
           \/ DropReference \/ LastReference \/ PoolCloses \/ PoolCloseFails
  <2>1. UNCHANGED <<batch, written, outcome, table>>
    BY <1>3 DEF Start, Terminate, FinalizeLibrary, Drained, DrainTimesOut, FinalizeStore, DropReference,
                LastReference, PoolCloses, PoolCloseFails, database
  <2> QED BY <2>1, RowsSame DEF RowsInv
<1> QED BY <1>1, <1>2, <1>3 DEF MainStep

LEMMA PgNextInv == ASSUME PgInv, [PgNext]_pgVars PROVE PgInv'
<1> USE DEF PgInv
<1>1. CASE \E p \in Worker : TaskStep(p)
  <2>1. PICK p \in Worker : TaskStep(p)
    BY <1>1
  <2>2. EnsureInitialized(p) => mode = "library"
    BY DEF EnsureInitialized, ReadyInv, PoolInv, LifeOK
  <2> QED BY <2>1, <2>2, WorkerRows, WorkerPool, WorkerServed
<1>2. CASE InitStep(Main)
  BY <1>2, MainRows, InitStepPool, StartingServed, TaskFacts DEF MainStep
<1>3. CASE DrainTimesOut
  <2>1. \A p \in Worker : Pc(p) \notin InitPcs
    BY <1>3 DEF DrainTimesOut, PoolInv, LifeOK, ReadyInv, InitPcs
  <2> QED BY <1>3, <2>1, MainRows, DrainTimesOutPool, EndingServed DEF MainStep
<1>4. CASE Start \/ Die
  BY <1>4, MainRows, StartPool, DiePool, StopServed
<1>5. CASE Terminate \/ Drained \/ FinalizeLibrary
  BY <1>5, MainRows, TerminatePool, BeginFinalizePool, EndingServed DEF MainStep
<1>6. CASE FinalizeStore \/ DropReference \/ LastReference \/ PoolCloses \/ PoolCloseFails
  BY <1>6, MainRows, FinalizeStorePool, DropReferencePool, LastReferencePool, PoolClosesPool,
     PoolCloseFailsPool, FinalizingServed DEF MainStep
<1>7. CASE UNCHANGED pgVars
  <2>1. UNCHANGED <<mode, life, initialized, place, registered, refs, made, closed, handle,
                    managed, dropped, batch, written, outcome, table>>
    BY <1>7 DEF pgVars, process, database
  <2>2. RowsInv'
    BY <2>1, RowsSame DEF RowsInv
  <2>3. PoolInv'
    BY <2>1, PoolSame
  <2>4. ReadyInv' /\ CountInv'
    BY <2>1, CountSame DEF ReadyInv, Pc
  <2> QED BY <2>2, <2>3, <2>4
<1> QED BY <1>1, <1>2, <1>3, <1>4, <1>5, <1>6, <1>7 DEF PgNext, MainStep

THEOREM BackendInvariant == PgSpec => []PgInv
<1>1. PgInit => PgInv
  BY RowsInit, PoolInit, ServedInit DEF PgInv
<1>2. PgInv /\ [PgNext]_pgVars => PgInv'
  BY PgNextInv
<1> QED BY <1>1, <1>2, PTL DEF PgSpec

(* Every row that can be read was written by an upsert that came to its    *)
(* end: of one that a statement, a cancellation or the death of the        *)
(* process interrupted, nothing remains (upsert in postgres_impl).         *)
THEOREM RowsAlwaysWhole == PgSpec => []RowsAreWhole
<1>1. PgInv => RowsAreWhole
  BY DEF PgInv, RowsInv, RowsAreWhole, Rows
<1> QED BY <1>1, BackendInvariant, PTL

(* No store holds a pool that was closed or is counted too low, and no     *)
(* pool is closed under a running transaction, also when two first calls   *)
(* initialize the engine together (ClientManager).                         *)
THEOREM PoolsHeldAreOpen == PgSpec => []HeldIsOpen
<1>1. PgInv => HeldIsOpen
  <2> SUFFICES ASSUME PgInv PROVE HeldIsOpen
    OBVIOUS
  <2>1. Cardinality(Held) <= refs
    <3>1. Cardinality(Held) \in Nat /\ Owing \in {0, 1} /\ refs \in Nat
      BY HeldCount DEF PgInv, PoolInv, PoolOK, Owing
    <3> QED BY <3>1 DEF PgInv, PoolInv, PoolOK
  <2>2. \A s \in Store : handle[s] \in {0, registered}
    BY DEF PgInv, PoolInv, PoolOK
  <2>3. \A p \in Worker : batch[p].number # 0 => batch[p].pool \notin closed
    BY DEF PgInv, PoolInv, BatchOK
  <2> QED BY <2>1, <2>2, <2>3 DEF HeldIsOpen, Held
<1> QED BY <1>1, BackendInvariant, PTL

(* When the service has stopped, however far its start-up came, no store   *)
(* has a pool and none is registered (finalize_storages, release_client).  *)
THEOREM StoppedReleases == PgSpec => []StoppedIsReleased
<1>1. PgInv => StoppedIsReleased
  <2> SUFFICES ASSUME PgInv, mode = "served", life = "stopped"
               PROVE  registered = 0 /\ managed = Nobody /\ \A s \in Store : handle[s] = 0
    BY DEF StoppedIsReleased
  <2>1. Pc(Main) \notin InitPcs \cup FinalPcs /\ \A p \in Worker : place[p] = Out
    BY DEF PgInv, PoolInv, LifeOK
  <2>2. \A p \in Tasks : Pc(p) \notin {"create", "close"}
    BY <2>1, TaskFacts DEF Tasks, Pc, InitPcs, FinalPcs
  <2>3. managed = Nobody
    BY <2>2 DEF PgInv, PoolInv, PoolOK
  <2>4. Held = {} /\ Owing = 0
    BY <2>1 DEF PgInv, CountInv, Owing, FinalPcs
  <2>5. refs = 0
    BY <2>4, FS_EmptySet DEF PgInv, CountInv
  <2> QED BY <2>3, <2>4, <2>5 DEF PgInv, CountInv, Held
<1> QED BY <1>1, BackendInvariant, PTL

----------------------------------------------------------------------------
(* The file-backed stores.  The invariant says who may write: a worker     *)
(* thread runs only for the holder of the lock, and what it writes is what *)
(* is in memory, which nobody changes without that lock.                   *)

LockInv ==
    /\ \A c \in Caller : pc[c] = "write" => lock = c
    /\ lock # Free => tmp = data /\ dirty
    /\ ~up => lock = Free /\ pc = Idle /\ ~dirty

Inv == TypeOK /\ LockInv /\ CleanMeansSaved

USE StoreAssumption, FileAssumption

LEMMA AtRest ==
    /\ Idle \in [Caller -> {"out", "flush", "write"}]
    /\ [c \in Caller |-> 0] \in [Caller -> 0 .. MaxNest]
BY DEF Idle

LEMMA MapTypes ==
    /\ EmptyMap \in Map
    /\ Loaded(NoFile) = EmptyMap
    /\ \A f \in Map : Loaded(f) = f
    /\ Loaded(Corrupt) = Corrupt
    /\ \A f \in Map \cup {NoFile} : Loaded(f) \in Map /\ Loaded(f) # Corrupt
BY DEF EmptyMap, Map, Loaded

(* Initially nothing is dirty, and no file is an empty map.                *)
LEMMA InitInv == Init => Inv
<1> SUFFICES ASSUME Init PROVE Inv
  OBVIOUS
<1>1. TypeOK
  BY MapTypes, AtRest DEF Init, TypeOK
<1>2. LockInv
  BY DEF Init, LockInv, Idle
<1>3. CleanMeansSaved
  BY MapTypes DEF Init, CleanMeansSaved
<1> QED BY <1>1, <1>2, <1>3 DEF Inv

(* Steps that change what is in memory.                                    *)
LEMMA ChangedInv ==
    ASSUME Inv, NEW c \in Caller, NEW new \in Map, NEW mark \in BOOLEAN,
           Changed(c, new, mark), mark \/ (new = data /\ ~dirty)
    PROVE  Inv'
<1>1. TypeOK'
  BY DEF Inv, TypeOK, Changed, ToFlush
<1>2. LockInv'
  BY DEF Inv, TypeOK, LockInv, Changed, ToFlush, Ready
<1>3. CleanMeansSaved'
  BY DEF Inv, CleanMeansSaved, Changed, Loaded
<1> QED BY <1>1, <1>2, <1>3 DEF Inv

LEMMA WithType ==
    ASSUME TypeOK, NEW k \in Key, NEW v \in Value \cup {NoValue}
    PROVE  With(k, v) \in Map /\ (data[k] = v => With(k, v) = data)
BY DEF TypeOK, With, Map

LEMMA DropVectorsInv ==
    ASSUME Inv, NEW c \in Caller, DropVectors(c) \/ DropVectorsFails(c) PROVE Inv'
<1>1. TypeOK'
  BY MapTypes DEF Inv, TypeOK, DropVectors, DropVectorsFails
<1>2. LockInv'
  BY DEF Inv, LockInv, DropVectors, DropVectorsFails, Ready
<1>3. CleanMeansSaved'
  BY MapTypes, FileAssumption
     DEF DropVectors, DropVectorsFails, CleanMeansSaved, Loaded
<1> QED BY <1>1, <1>2, <1>3 DEF Inv

(* Steps of batches and flushes.                                           *)
LEMMA BatchInv ==
    ASSUME Inv, NEW c \in Caller,
           OpenBatch(c) \/ CloseBatch(c) \/ FlushNothing(c) \/ Finalize(c)
    PROVE  Inv'
<1>1. TypeOK'
  <2>1. CASE OpenBatch(c)
    BY <2>1 DEF Inv, TypeOK, OpenBatch
  <2>2. CASE CloseBatch(c)
    BY <2>2 DEF Inv, TypeOK, CloseBatch, Left
  <2>3. CASE FlushNothing(c)
    BY <2>3 DEF Inv, TypeOK, FlushNothing
  <2>4. CASE Finalize(c)
    BY <2>4 DEF Inv, TypeOK, Finalize
  <2> QED BY <2>1, <2>2, <2>3, <2>4
<1>2. LockInv'
  BY DEF Inv, TypeOK, LockInv, OpenBatch, CloseBatch, FlushNothing, Finalize
<1>3. CleanMeansSaved'
  BY DEF Inv, CleanMeansSaved, Loaded, OpenBatch, CloseBatch, FlushNothing, Finalize
<1> QED BY <1>1, <1>2, <1>3 DEF Inv

LEMMA FlushBeginsInv == ASSUME Inv, NEW c \in Caller, FlushBegins(c) PROVE Inv'
<1>1. TypeOK'
  BY DEF Inv, TypeOK, FlushBegins
<1>2. LockInv'
  BY DEF Inv, TypeOK, LockInv, FlushBegins
<1>3. CleanMeansSaved'
  BY DEF Inv, CleanMeansSaved, Loaded, FlushBegins
<1> QED BY <1>1, <1>2, <1>3 DEF Inv

LEMMA Writes == ASSUME Inv, NEW c \in Caller, pc[c] = "write"
                PROVE  lock = c /\ lock # Free /\ tmp = data /\ dirty /\ data \in Map
BY DEF Inv, TypeOK, LockInv

LEMMA FlushEndsInv == ASSUME Inv, NEW c \in Caller, FlushEnds(c) PROVE Inv'
<1>0. lock = c /\ tmp = data /\ data \in Map
  BY Writes DEF FlushEnds
<1>1. TypeOK'
  BY <1>0 DEF Inv, TypeOK, FlushEnds
<1>2. LockInv'
  <2>1. \A d \in Caller : pc'[d] # "write"
    BY <1>0 DEF Inv, TypeOK, LockInv, FlushEnds
  <2> QED BY <2>1 DEF LockInv, FlushEnds
<1>3. CleanMeansSaved'
  BY <1>0, MapTypes DEF CleanMeansSaved, FlushEnds, Loaded
<1> QED BY <1>1, <1>2, <1>3 DEF Inv

LEMMA FlushFailsInv == ASSUME Inv, NEW c \in Caller, FlushFails(c) PROVE Inv'
<1>0. lock = c /\ dirty
  BY Writes DEF FlushFails
<1>1. TypeOK'
  BY DEF Inv, TypeOK, FlushFails, Torn
<1>2. LockInv'
  <2>1. \A d \in Caller : pc'[d] # "write"
    BY <1>0 DEF Inv, TypeOK, LockInv, FlushFails
  <2> QED BY <2>1 DEF LockInv, FlushFails
<1>3. CleanMeansSaved'
  BY <1>0 DEF CleanMeansSaved, FlushFails
<1> QED BY <1>1, <1>2, <1>3 DEF Inv

(* Steps of the process and of its surroundings.                           *)
LEMMA ProcessInv ==
    ASSUME Inv, Crash \/ Damage \/ Initialize \/ Quarantine PROVE Inv'
<1>1. CASE Crash
  <2>1. TypeOK'
    BY <1>1, MapTypes, AtRest DEF Inv, TypeOK, Crash, Torn
  <2>2. LockInv' /\ CleanMeansSaved'
    BY <1>1 DEF LockInv, CleanMeansSaved, Crash, Idle
  <2> QED BY <2>1, <2>2 DEF Inv
<1>2. CASE Damage
  BY <1>2 DEF Inv, TypeOK, LockInv, CleanMeansSaved, Damage
<1>3. CASE Initialize
  <2>1. Loaded(file) \in Map
    BY <1>3, MapTypes DEF Inv, TypeOK, Initialize
  <2>2. TypeOK'
    BY <1>3, <2>1 DEF Inv, TypeOK, Initialize
  <2>3. LockInv' /\ CleanMeansSaved'
    BY <1>3 DEF Inv, LockInv, CleanMeansSaved, Initialize, Loaded, Idle
  <2> QED BY <2>2, <2>3 DEF Inv
<1>4. CASE Quarantine
  <2>1. TypeOK'
    BY <1>4, MapTypes DEF Inv, TypeOK, Quarantine
  <2>2. LockInv' /\ CleanMeansSaved'
    BY <1>4, MapTypes DEF Inv, LockInv, CleanMeansSaved, Quarantine, Loaded, Idle
  <2> QED BY <2>1, <2>2 DEF Inv
<1> QED BY <1>1, <1>2, <1>3, <1>4

(* Every step keeps the invariant.                                         *)
LEMMA NextInv == Inv /\ [Next]_vars => Inv'
<1> SUFFICES ASSUME Inv, [Next]_vars PROVE Inv'
  OBVIOUS
<1> TypeOK
  BY DEF Inv
<1>1. ASSUME NEW c \in Caller, NEW k \in Key, NEW v \in Value,
             UpsertRecord(c, k, v) \/ UpsertVector(c, k, v)
             \/ UpsertNode(c, k, v) \/ UpsertEdge(c, k, v)
      PROVE  Inv'
  <2>1. Changed(c, With(k, v), TRUE)
    BY <1>1 DEF UpsertRecord, UpsertVector, UpsertNode, UpsertEdge
  <2>2. With(k, v) \in Map
    BY WithType
  <2> QED BY <2>1, <2>2, ChangedInv
<1>2. ASSUME NEW c \in Caller, NEW k \in Key, DeleteRecord(c, k) \/ DeleteVector(c, k)
      PROVE  Inv'
  <2>1. /\ With(k, NoValue) \in Map
        /\ data[k] = NoValue => With(k, NoValue) = data
    BY WithType
  <2>2. CASE DeleteRecord(c, k)
    <3> DEFINE mark == dirty \/ data[k] # NoValue
    <3>1. Changed(c, With(k, NoValue), mark)
      BY <2>2 DEF DeleteRecord
    <3>2. mark \in BOOLEAN /\ (mark \/ (With(k, NoValue) = data /\ ~dirty))
      BY <2>1
    <3> HIDE DEF mark
    <3> QED BY <2>1, <3>1, <3>2, ChangedInv
  <2>3. CASE DeleteVector(c, k)
    BY <2>1, <2>3, ChangedInv DEF DeleteVector
  <2> QED BY <1>2, <2>2, <2>3
<1>3. ASSUME NEW c \in Caller, DropRecords(c) \/ ClearGraph(c) PROVE Inv'
  BY <1>3, MapTypes, ChangedInv DEF DropRecords, ClearGraph
<1>4. ASSUME NEW c \in Caller,
             DropVectors(c) \/ DropVectorsFails(c)
             \/ OpenBatch(c) \/ CloseBatch(c) \/ FlushNothing(c)
             \/ FlushBegins(c) \/ FlushEnds(c) \/ FlushFails(c) \/ Finalize(c)
      PROVE  Inv'
  BY <1>4, DropVectorsInv, BatchInv, FlushBeginsInv, FlushEndsInv, FlushFailsInv
<1>5. CASE UNCHANGED vars
  BY <1>5 DEF Inv, TypeOK, LockInv, CleanMeansSaved, vars
<1> QED BY <1>1, <1>2, <1>3, <1>4, <1>5, ProcessInv DEF Next

(* The types hold in every reachable state, whatever the constants.        *)
THEOREM Typed == Spec => []TypeOK
<1>1. Inv => TypeOK
  BY DEF Inv
<1> QED BY <1>1, InitInv, NextInv, PTL DEF Spec

(* A namespace not marked dirty is on disk as it is in memory: no flush,   *)
(* failure, drop or restart of these backends breaks that.                 *)
THEOREM CleanIsSaved == Spec => []CleanMeansSaved
<1>1. Inv => CleanMeansSaved
  BY DEF Inv
<1> QED BY <1>1, InitInv, NextInv, PTL DEF Spec

----------------------------------------------------------------------------
(* What is not on disk yet is somebody's to save: the counter of batches   *)
(* is the number of batches that callers have open, so that the caller who *)
(* leaves the last one finds it at one and flushes, for all.               *)

Open == {b \in Caller \X Nat : b[2] # 0 /\ b[2] <= nest[b[1]]}

DepthInv == IsFiniteSet(Open) /\ depth = Cardinality(Open)

Owed == up /\ dirty /\ ~failed =>
            \E c \in Caller : pc[c] \in {"flush", "write"} \/ nest[c] # 0

LEMMA NestTyped == ASSUME TypeOK, NEW c \in Caller PROVE nest[c] \in Nat
BY DEF TypeOK

LEMMA NoneOpen == ASSUME \A c \in Caller : nest[c] = 0 PROVE Open = {}
BY DEF Open

LEMMA SomeOpen ==
    ASSUME TypeOK, DepthInv, depth # 0 PROVE \E c \in Caller : nest[c] # 0
<1> SUFFICES ASSUME \A c \in Caller : nest[c] = 0 PROVE FALSE
  OBVIOUS
<1> QED BY NoneOpen, FS_EmptySet DEF DepthInv

LEMMA NestSame ==
    ASSUME DepthInv, nest' = nest, depth' = depth PROVE DepthInv'
BY DEF DepthInv, Open

LEMMA OpenBatchDepth ==
    ASSUME TypeOK, DepthInv, NEW c \in Caller, OpenBatch(c) PROVE DepthInv'
<1> DEFINE new == <<c, nest[c] + 1>>
<1>1. nest[c] \in Nat /\ \A d \in Caller : nest'[d] = IF d = c THEN nest[c] + 1 ELSE nest[d]
  BY NestTyped DEF TypeOK, OpenBatch
<1>2. Open' = Open \cup {new}
  BY <1>1 DEF Open
<1>3. new \notin Open
  BY <1>1 DEF Open
<1>4. IsFiniteSet(Open) /\ depth = Cardinality(Open)
  BY DEF DepthInv
<1>5. IsFiniteSet(Open') /\ Cardinality(Open') = Cardinality(Open) + 1
  BY <1>2, <1>3, <1>4, FS_AddElement
<1> QED BY <1>4, <1>5 DEF DepthInv, OpenBatch

LEMMA CloseBatchDepth ==
    ASSUME TypeOK, DepthInv, NEW c \in Caller, CloseBatch(c) PROVE DepthInv'
<1> DEFINE old == <<c, nest[c]>>
<1>1. nest[c] \in Nat \ {0}
      /\ \A d \in Caller : nest'[d] = IF d = c THEN nest[c] - 1 ELSE nest[d]
  BY NestTyped DEF TypeOK, CloseBatch
<1>2. Open' = Open \ {old}
  BY <1>1, NestTyped DEF Open
<1>3. old \in Open
  BY <1>1 DEF Open
<1>4. IsFiniteSet(Open) /\ depth = Cardinality(Open) /\ Cardinality(Open) \in Nat
  BY FS_CardinalityType DEF DepthInv
<1>5. IsFiniteSet(Open') /\ Cardinality(Open') = Cardinality(Open) - 1
  BY <1>2, <1>3, <1>4, FS_RemoveElement
<1>6. Cardinality(Open') \in Nat
  BY <1>5, FS_CardinalityType
<1>7. depth' = Cardinality(Open')
  BY <1>4, <1>5, <1>6 DEF CloseBatch, Left
<1> QED BY <1>5, <1>7 DEF DepthInv

LEMMA ChangedOwed ==
    ASSUME TypeOK, DepthInv, NEW c \in Caller, NEW new, NEW mark, Changed(c, new, mark)
    PROVE  DepthInv' /\ Owed'
<1>1. DepthInv'
  BY NestSame DEF Changed
<1>2. CASE depth > 0
  <2>1. depth # 0
    BY <1>2 DEF TypeOK
  <2>2. PICK d \in Caller : nest[d] # 0
    BY <2>1, SomeOpen
  <2>3. nest'[d] # 0
    BY <2>2 DEF Changed
  <2> QED BY <1>1, <2>3 DEF Owed
<1>3. CASE ~(depth > 0)
  <2>1. pc' = [pc EXCEPT ![c] = "flush"] /\ pc \in [Caller -> {"out", "flush", "write"}]
    BY <1>3 DEF Changed, ToFlush, TypeOK
  <2>2. pc'[c] = "flush"
    BY <2>1
  <2> QED BY <1>1, <2>2 DEF Owed
<1> QED BY <1>1, <1>2, <1>3

LEMMA BatchOwed ==
    ASSUME TypeOK, DepthInv, Owed, NEW c \in Caller, OpenBatch(c) \/ CloseBatch(c)
    PROVE  DepthInv' /\ Owed'
<1>1. CASE OpenBatch(c)
  <2>1. nest'[c] # 0
    BY <1>1, NestTyped DEF OpenBatch, TypeOK
  <2> QED BY <1>1, <2>1, OpenBatchDepth DEF Owed
<1>2. CASE CloseBatch(c)
  <2>1. DepthInv'
    BY <1>2, CloseBatchDepth
  <2>2. CASE depth' = 0
    BY <1>2, <2>1, <2>2 DEF CloseBatch, Owed, TypeOK
  <2>3. CASE depth' # 0
    <3>1. \E d \in Caller : nest'[d] # 0
      <4> SUFFICES ASSUME \A d \in Caller : nest'[d] = 0 PROVE FALSE
        OBVIOUS
      <4>1. Open' = {}
        BY DEF Open
      <4> QED BY <2>1, <2>3, <4>1, FS_EmptySet DEF DepthInv
    <3> QED BY <2>1, <3>1 DEF Owed
  <2> QED BY <2>1, <2>2, <2>3
<1> QED BY <1>1, <1>2

LEMMA FlushOwed ==
    ASSUME TypeOK, DepthInv, Owed, NEW c \in Caller,
           FlushNothing(c) \/ FlushBegins(c) \/ FlushEnds(c) \/ FlushFails(c)
           \/ Finalize(c) \/ DropVectors(c) \/ DropVectorsFails(c)
    PROVE  DepthInv' /\ Owed'
<1>1. CASE FlushNothing(c) \/ FlushBegins(c)
  BY <1>1, NestSame DEF Owed, TypeOK, FlushNothing, FlushBegins
<1>2. CASE FlushEnds(c) \/ FlushFails(c) \/ DropVectors(c) \/ DropVectorsFails(c)
  BY <1>2, NestSame DEF Owed, FlushEnds, FlushFails, DropVectors, DropVectorsFails
<1>3. CASE Finalize(c)
  <2>1. Open = {} /\ depth = 0
    BY <1>3, NoneOpen, FS_EmptySet DEF DepthInv, Finalize, Quiet
  <2>2. depth' = depth /\ nest' = nest /\ pc'[c] = "flush"
    BY <1>3, <2>1 DEF Finalize, TypeOK
  <2> QED BY <2>2, NestSame DEF Owed
<1> QED BY <1>1, <1>2, <1>3

LEMMA ProcessOwed ==
    ASSUME Inv, DepthInv, Owed, Crash \/ Damage \/ Initialize \/ Quarantine
    PROVE  DepthInv' /\ Owed'
<1>1. CASE Crash
  <2>1. \A c \in Caller : nest'[c] = 0
    BY <1>1 DEF Crash
  <2>2. Open' = {}
    BY <2>1 DEF Open
  <2> QED BY <1>1, <2>2, FS_EmptySet DEF DepthInv, Owed, Crash
<1>2. CASE Damage \/ Initialize \/ Quarantine
  BY <1>2, NestSame DEF Inv, LockInv, Owed, Damage, Initialize, Quarantine
<1> QED BY <1>1, <1>2

(* Every change is on disk once every call has returned and every batch is *)
(* left, unless a flush has failed, for any number of tasks and batches.   *)
THEOREM QuietSaved == Spec => []QuietIsSaved
<1> DEFINE All == Inv /\ DepthInv /\ Owed
<1>1. Init => All
  <2> SUFFICES ASSUME Init PROVE DepthInv /\ Owed
    BY InitInv
  <2>1. Open = {}
    BY NoneOpen DEF Init
  <2> QED BY <2>1, FS_EmptySet DEF Init, DepthInv, Owed
<1>2. All /\ [Next]_vars => All'
  <2> SUFFICES ASSUME Inv, DepthInv, Owed, [Next]_vars PROVE DepthInv' /\ Owed'
    BY NextInv
  <2> TypeOK
    BY DEF Inv
  <2>1. ASSUME NEW c \in Caller, NEW k \in Key, NEW v \in Value,
               UpsertRecord(c, k, v) \/ UpsertVector(c, k, v)
               \/ UpsertNode(c, k, v) \/ UpsertEdge(c, k, v)
        PROVE  DepthInv' /\ Owed'
    BY <2>1, ChangedOwed DEF UpsertRecord, UpsertVector, UpsertNode, UpsertEdge
  <2>2. ASSUME NEW c \in Caller, NEW k \in Key, DeleteRecord(c, k) \/ DeleteVector(c, k)
        PROVE  DepthInv' /\ Owed'
    BY <2>2, ChangedOwed DEF DeleteRecord, DeleteVector
  <2>3. ASSUME NEW c \in Caller, DropRecords(c) \/ ClearGraph(c) PROVE DepthInv' /\ Owed'
    BY <2>3, ChangedOwed DEF DropRecords, ClearGraph
  <2>4. CASE UNCHANGED vars
    BY <2>4, NestSame DEF Owed, vars
  <2> QED BY <2>1, <2>2, <2>3, <2>4, BatchOwed, FlushOwed, ProcessOwed DEF Next
<1>3. All => QuietIsSaved
  BY DEF Inv, CleanMeansSaved, Owed, QuietIsSaved, Quiet, Idle
<1> HIDE DEF All
<1> QED BY <1>1, <1>2, <1>3, PTL DEF Spec

----------------------------------------------------------------------------
(* The refinement, step by step.                                           *)

LEMMA InitRefines == Init => Durable!AbsInit
BY MapTypes DEF Init, Durable!AbsInit

LEMMA ChangedRefines ==
    ASSUME NEW c \in Caller, NEW new \in Map, NEW mark, Changed(c, new, mark)
    PROVE  Durable!Change
BY DEF Changed, Ready, Durable!Change

LEMMA BatchRefines ==
    ASSUME NEW c \in Caller,
           OpenBatch(c) \/ CloseBatch(c) \/ FlushNothing(c) \/ FlushBegins(c) \/ Finalize(c)
    PROVE  UNCHANGED Durable!absVars
BY DEF OpenBatch, CloseBatch, FlushNothing, FlushBegins, Finalize, Durable!absVars, Loaded

LEMMA WriteRefines ==
    ASSUME Inv, NEW c \in Caller, FlushEnds(c) \/ FlushFails(c)
    PROVE  Durable!Save \/ Durable!Tear \/ UNCHANGED Durable!absVars
<1>1. CASE FlushEnds(c)
  <2>1. tmp = data /\ data \in Map
    BY <1>1, Writes DEF FlushEnds
  <2>2. Loaded(file)' = data
    BY <1>1, <2>1 DEF FlushEnds, Loaded
  <2> QED BY <1>1, <2>2 DEF FlushEnds, Durable!Save
<1>2. CASE FlushFails(c)
  <2>1. CASE file' = file
    BY <1>2, <2>1 DEF FlushFails, Loaded, Durable!absVars
  <2>2. CASE file' # file
    <3>1. kind = "vector" /\ file' = Corrupt
      BY <1>2, <2>2 DEF FlushFails, Torn
    <3> QED BY <1>2, <3>1 DEF FlushFails, Loaded, Durable!Tear
  <2> QED BY <2>1, <2>2
<1> QED BY <1>1, <1>2

LEMMA DropRefines ==
    ASSUME NEW c \in Caller, DropVectors(c) \/ DropVectorsFails(c)
    PROVE  Durable!Erase \/ Durable!Change
<1>1. CASE DropVectors(c)
  BY <1>1 DEF DropVectors, Ready, Loaded, Durable!Erase
<1>2. CASE DropVectorsFails(c)
  BY <1>2 DEF DropVectorsFails, Ready, Loaded, Durable!Change
<1> QED BY <1>1, <1>2

LEMMA CrashRefines == ASSUME Crash PROVE Durable!Stop
<1>1. file' = file \/ (kind = "vector" /\ file' = Corrupt)
  BY DEF Crash, Torn
<1>2. CASE kind = "vector"
  BY <1>1, <1>2 DEF Crash, Loaded, Durable!Stop
<1>3. CASE kind # "vector"
  BY <1>1, <1>3 DEF Crash, Loaded, Durable!Stop
<1> QED BY <1>2, <1>3

LEMMA RestartRefines ==
    ASSUME TypeOK, Damage \/ Initialize \/ Quarantine
    PROVE  Durable!Spoil \/ Durable!Start \/ Durable!StartAnew
<1>1. CASE Damage
  BY <1>1 DEF Damage, Loaded, Durable!Spoil
<1>2. CASE Initialize
  <2>1. Loaded(file) # Corrupt
    BY <1>2, MapTypes DEF TypeOK, Initialize
  <2> QED BY <1>2, <2>1 DEF Initialize, Loaded, Durable!Start
<1>3. CASE Quarantine
  BY <1>3 DEF Quarantine, Loaded, Durable!StartAnew
<1> QED BY <1>1, <1>2, <1>3

LEMMA NextRefines == Inv /\ [Next]_vars => [Durable!AbsNext]_Durable!absVars
<1> SUFFICES ASSUME Inv, [Next]_vars PROVE Durable!AbsNext \/ UNCHANGED Durable!absVars
  OBVIOUS
<1> TypeOK
  BY DEF Inv
<1>1. ASSUME NEW c \in Caller, NEW k \in Key, NEW v \in Value,
             UpsertRecord(c, k, v) \/ UpsertVector(c, k, v)
             \/ UpsertNode(c, k, v) \/ UpsertEdge(c, k, v)
      PROVE  Durable!Change
  BY <1>1, WithType, ChangedRefines DEF UpsertRecord, UpsertVector, UpsertNode, UpsertEdge
<1>2. ASSUME NEW c \in Caller, NEW k \in Key, DeleteRecord(c, k) \/ DeleteVector(c, k)
      PROVE  Durable!Change
  BY <1>2, WithType, ChangedRefines DEF DeleteRecord, DeleteVector
<1>3. ASSUME NEW c \in Caller, DropRecords(c) \/ ClearGraph(c) PROVE Durable!Change
  BY <1>3, MapTypes, ChangedRefines DEF DropRecords, ClearGraph
<1>4. CASE UNCHANGED vars
  BY <1>4 DEF vars, Loaded, Durable!absVars
<1>5. ASSUME NEW c \in Caller,
             OpenBatch(c) \/ CloseBatch(c) \/ FlushNothing(c) \/ FlushBegins(c)
             \/ FlushEnds(c) \/ FlushFails(c) \/ Finalize(c)
             \/ DropVectors(c) \/ DropVectorsFails(c)
      PROVE  Durable!AbsNext \/ UNCHANGED Durable!absVars
  BY <1>5, BatchRefines, WriteRefines, DropRefines DEF Durable!AbsNext
<1>6. CASE Crash \/ Damage \/ Initialize \/ Quarantine
  BY <1>6, CrashRefines, RestartRefines DEF Durable!AbsNext
<1>7. Durable!Change => Durable!AbsNext
  BY DEF Durable!AbsNext
<1> QED BY <1>1, <1>2, <1>3, <1>4, <1>5, <1>6, <1>7 DEF Next

(* The lock, the dirty mark, the batch counter and the temporary file      *)
(* together implement the durable map.                                     *)
THEOREM FileStoreImplements == Spec => ImplementsDurable
<1> QED BY InitRefines, InitInv, NextInv, NextRefines, PTL
        DEF Spec, ImplementsDurable, Durable!AbsSpec

----------------------------------------------------------------------------
(* The input directory.  A file that is in place is never overwritten by   *)
(* other bytes, so what a request has seen stays true until a removal      *)
(* takes it.                                                               *)

Statuses == {"none", "pending", "parsing", "processed", "failed"}
Rec      == [status : Statuses, path : Path]
Some     == Document \cup {NoDocument}

FolderTypeOK ==
    /\ files \in [Path -> Some]
    /\ records \in [Document -> Rec]
    /\ upload \in [Uploader -> [pc : {"idle", "spooled", "compare", "same", "other", "enqueue"},
                                document : Some, dest : Path]]
    /\ \A u \in Uploader : upload[u].pc # "idle" => upload[u].document \in Document
    /\ scan \in [pc : {"idle", "next", "look", "enqueue"}, left : SUBSET Path,
                 path : Path, document : Some]
    /\ scan.pc \in {"look", "enqueue"} => scan.document \in Document
    /\ requeue = NoRetry \/ requeue \in [document : Document, record : Rec]
    /\ admin \in [pc : {"idle", "read", "unlinked"}, documents : SUBSET Document,
                  withFiles : BOOLEAN]
    /\ DOMAIN worker = {"pc", "todo", "document", "source"}
    /\ worker.pc \in {"idle", "next", "parse"} /\ worker.source \in Path
    /\ worker.pc = "parse" => worker.document \in Document
    /\ DOMAIN worker.todo \subseteq Document
    /\ \A d \in DOMAIN worker.todo : worker.todo[d] \in Rec

(* A digest in a name is that of the bytes; a removal and the worker       *)
(* exclude each other, and so the record of the document being parsed      *)
(* stays.                                                                  *)
Apart ==
    /\ \A d \in Document : files[Qualified(d)] \in {NoDocument, d}
    /\ worker.pc = "idle" => worker = NoWorker
    /\ admin.pc = "idle" \/ worker.pc = "idle"
    /\ worker.pc = "parse" => worker.document \in Known

(* The file of d may have been taken, and its record is to follow.         *)
Leaving(d) == admin.pc = "unlinked" /\ admin.withFiles /\ d \in admin.documents

RecordsPoint == \A d \in Known : Leaving(d) \/ files[records[d].path] = d
UploadsPoint ==
    \A u \in Uploader :
        /\ upload[u].pc = "same"    => files[Plain] = upload[u].document
        /\ upload[u].pc = "enqueue" => files[upload[u].dest] = upload[u].document
ScanPoints == scan.pc \in {"look", "enqueue"} => files[scan.path] = scan.document
RequeuePoints ==
    requeue # NoRetry =>
        Leaving(requeue.document) \/ files[requeue.record.path] = requeue.document
WorkerPoints ==
    /\ \A d \in DOMAIN worker.todo : files[worker.todo[d].path] = d
    /\ worker.pc = "parse" => files[worker.source] = worker.document
    /\ ~strayed

Pointing == RecordsPoint /\ UploadsPoint /\ ScanPoints /\ RequeuePoints /\ WorkerPoints

FolderInv == FolderTypeOK /\ Apart /\ (~disturbed => Pointing)

--------------------------------------------------------------------------------

LEMMA PathFacts ==
    /\ Plain \in Path /\ Nested \in Path /\ \A d \in Document : Qualified(d) \in Path
    /\ \A d, e \in Document : Qualified(d) = Qualified(e) => d = e
    /\ \A d \in Document : Qualified(d) # Plain /\ Qualified(d).digest # NoDocument
    /\ NoRecord \in Rec /\ NoRecord.status = "none"
    /\ \A s \in Statuses, p \in Path : Entry(s, p) \in Rec /\ Entry(s, p).status = s
                                       /\ Entry(s, p).path = p
BY FolderAssumption DEF Path, Plain, Nested, Qualified, NoRecord, Rec, Statuses, Entry

LEMMA FolderStarts == FolderInit => FolderInv
<1> SUFFICES ASSUME FolderInit PROVE FolderInv
  OBVIOUS
<1> USE DEF FolderInit
<1>1. FolderTypeOK
  <2>1. records \in [Document -> Rec] /\ files \in [Path -> Some]
    BY PathFacts DEF Some
  <2>2. Rest \in [pc : {"idle", "spooled", "compare", "same", "other", "enqueue"},
                  document : Some, dest : Path] /\ Rest.pc = "idle"
    BY PathFacts DEF Rest, Some
  <2>3. NoScan \in [pc : {"idle", "next", "look", "enqueue"}, left : SUBSET Path,
                    path : Path, document : Some] /\ NoScan.pc = "idle"
    BY PathFacts DEF NoScan, Some
  <2>4. NoAdmin \in [pc : {"idle", "read", "unlinked"}, documents : SUBSET Document,
                     withFiles : BOOLEAN]
    BY DEF NoAdmin
  <2>5. NoWorker.pc = "idle" /\ NoWorker.source \in Path /\ DOMAIN NoWorker.todo = {}
        /\ DOMAIN NoWorker = {"pc", "todo", "document", "source"}
    BY PathFacts DEF NoWorker
  <2> QED BY <2>1, <2>2, <2>3, <2>4, <2>5 DEF FolderTypeOK
<1>2. Apart
  BY DEF Apart, NoWorker
<1>3. Pointing
  <2>1. Known = {} /\ scan.pc = "idle" /\ \A u \in Uploader : upload[u].pc = "idle"
    BY DEF Known, NoRecord, Rest, NoScan
  <2>2. DOMAIN worker.todo = {} /\ worker.pc = "idle"
    BY DEF NoWorker
  <2> QED BY <2>1, <2>2 DEF Pointing, RecordsPoint, UploadsPoint, ScanPoints, RequeuePoints,
                            WorkerPoints
<1> QED BY <1>1, <1>2, <1>3 DEF FolderInv

(* A step that takes no file away keeps what was seen.                     *)
Kept == \A p \in Path : files[p] # NoDocument => files'[p] = files[p]

LEMMA KeptPoints ==
    ASSUME FolderTypeOK, Kept
    PROVE  /\ RecordsPoint /\ UNCHANGED <<records, admin>> => RecordsPoint'
           /\ UploadsPoint /\ upload' = upload => UploadsPoint'
           /\ ScanPoints /\ scan' = scan => ScanPoints'
           /\ RequeuePoints /\ UNCHANGED <<requeue, admin>> => RequeuePoints'
           /\ WorkerPoints /\ UNCHANGED <<worker, strayed>> => WorkerPoints'
<1>1. \A p \in Path, d \in Document : files[p] = d => files'[p] = d
  BY FolderAssumption DEF Kept
<1>2. RecordsPoint /\ UNCHANGED <<records, admin>> => RecordsPoint'
  BY <1>1 DEF RecordsPoint, Known, Leaving, FolderTypeOK, Rec
<1>3. UploadsPoint /\ upload' = upload => UploadsPoint'
  BY <1>1, PathFacts DEF UploadsPoint, FolderTypeOK
<1>4. ScanPoints /\ scan' = scan => ScanPoints'
  BY <1>1 DEF ScanPoints, FolderTypeOK
<1>5. RequeuePoints /\ UNCHANGED <<requeue, admin>> => RequeuePoints'
  BY <1>1 DEF RequeuePoints, Leaving, FolderTypeOK, Rec
<1>6. WorkerPoints /\ UNCHANGED <<worker, strayed>> => WorkerPoints'
  BY <1>1 DEF WorkerPoints, FolderTypeOK, Rec
<1> QED BY <1>2, <1>3, <1>4, <1>5, <1>6

(* Nothing that is seen concerns the step.                                 *)
LEMMA FilesSame == ASSUME files' = files PROVE Kept
BY DEF Kept

--------------------------------------------------------------------------------
(* Uploads: a step of u leaves all but upload[u], files and records alone. *)

Uploading == [pc : {"idle", "spooled", "compare", "same", "other", "enqueue"},
              document : Some, dest : Path]

(* The request moves and nothing else does.                                *)
LEMMA UploadMoves ==
    ASSUME FolderInv, NEW u \in Uploader, NEW r \in Uploading, OfUpload(u, r),
           r.pc # "idle" => r.document \in Document,
           r.pc = "same" => files[Plain] = r.document,
           r.pc # "enqueue",
           UNCHANGED <<files, records, scan, requeue, admin, worker, strayed, disturbed>>
    PROVE  FolderInv'
<1> USE DEF FolderInv
<1>1. upload' = [upload EXCEPT ![u] = r]
  BY DEF OfUpload
<1>2. upload'[u] = r /\ \A t \in Uploader \ {u} : upload'[t] = upload[t]
  BY <1>1 DEF FolderTypeOK
<1>3. FolderTypeOK'
  BY <1>1, <1>2 DEF FolderTypeOK, Uploading
<1>4. Apart'
  BY DEF Apart, Known
<1>5. ASSUME ~disturbed PROVE Pointing'
  <2>1. Pointing
    BY <1>5
  <2>2. RecordsPoint' /\ ScanPoints' /\ RequeuePoints' /\ WorkerPoints'
    BY <2>1, FilesSame, KeptPoints DEF Pointing
  <2>3. UploadsPoint'
    BY <1>2, <2>1 DEF Pointing, UploadsPoint
  <2> QED BY <2>2, <2>3 DEF Pointing
<1> QED BY <1>3, <1>4, <1>5

(* The file is put where there is none, or where the same bytes are.       *)
LEMMA UploadPlaces ==
    ASSUME FolderInv, NEW u \in Uploader, upload[u].document \in Document, NEW p \in Path,
           ~disturbed => files[p] \in {NoDocument, upload[u].document},
           \A d \in Document : p = Qualified(d) => upload[u].document = d,
           files' = [files EXCEPT ![p] = upload[u].document],
           OfUpload(u, [upload[u] EXCEPT !.pc = "enqueue", !.dest = p]),
           UNCHANGED <<records, scan, requeue, admin, worker, strayed, disturbed>>
    PROVE  FolderInv'
<1> USE DEF FolderInv
<1> DEFINE r == [upload[u] EXCEPT !.pc = "enqueue", !.dest = p]
<1>r. r \in Uploading /\ r.pc = "enqueue" /\ r.dest = p /\ r.document = upload[u].document
  <2>1. upload[u] \in Uploading
    BY DEF FolderTypeOK, Uploading
  <2> QED BY <2>1 DEF Uploading
<1>u. upload' = [upload EXCEPT ![u] = r]
  BY DEF OfUpload
<1> HIDE DEF r
<1>1. /\ upload' \in [Uploader -> Uploading] /\ upload'[u].pc = "enqueue" /\ upload'[u].dest = p
      /\ upload'[u].document = upload[u].document
      /\ \A t \in Uploader \ {u} : upload'[t] = upload[t]
  BY <1>r, <1>u DEF FolderTypeOK, Uploading
<1>2. files' \in [Path -> Some] /\ files'[p] = upload[u].document
      /\ \A q \in Path \ {p} : files'[q] = files[q]
  BY DEF FolderTypeOK, Some
<1>3. FolderTypeOK'
  BY <1>1, <1>2 DEF FolderTypeOK, Uploading
<1>4. Apart'
  BY <1>2, PathFacts DEF Apart, Known
<1>5. ASSUME ~disturbed PROVE Pointing'
  <2>1. Pointing /\ Kept
    BY <1>2, <1>5 DEF Kept
  <2>2. RecordsPoint' /\ ScanPoints' /\ RequeuePoints' /\ WorkerPoints'
    BY <2>1, KeptPoints DEF Pointing
  <2>3. ASSUME NEW t \in Uploader
        PROVE  /\ upload'[t].pc = "same"    => files'[Plain] = upload'[t].document
               /\ upload'[t].pc = "enqueue" => files'[upload'[t].dest] = upload'[t].document
    <3>1. CASE t = u
      BY <1>1, <1>2, <3>1
    <3>2. CASE t # u
      <4>1. upload'[t] = upload[t] /\ upload[t].dest \in Path
        BY <1>1, <3>2 DEF FolderTypeOK
      <4>2. upload[t].pc # "idle" => upload[t].document \in Document
        BY DEF FolderTypeOK
      <4> QED BY <2>1, <4>1, <4>2, PathFacts, FolderAssumption DEF Pointing, UploadsPoint, Kept
    <3> QED BY <3>1, <3>2
  <2> QED BY <2>2, <2>3 DEF Pointing, UploadsPoint
<1> QED BY <1>3, <1>4, <1>5

(* A record comes to name a file that holds its document.                  *)
LEMMA RecordWritten ==
    ASSUME FolderInv, NEW d \in Document, NEW r \in Rec, r.status # "none",
           records' = [records EXCEPT ![d] = r], UNCHANGED <<files, admin>>,
           ~disturbed => Leaving(d) \/ files[r.path] = d
    PROVE  /\ records' \in [Document -> Rec] /\ Known' = Known \cup {d}
           /\ ~disturbed => RecordsPoint'
<1>1. records' \in [Document -> Rec] /\ records'[d] = r
      /\ \A e \in Document \ {d} : records'[e] = records[e]
  BY DEF FolderInv, FolderTypeOK
<1>2. Known' = Known \cup {d}
  BY <1>1 DEF Known
<1>3. ASSUME ~disturbed PROVE RecordsPoint'
  BY <1>1, <1>2, <1>3 DEF RecordsPoint, Leaving, FolderInv, Pointing, Known
<1> QED BY <1>1, <1>2, <1>3

LEMMA UploadInv ==
    ASSUME FolderInv, NEW u \in Uploader, UploadStep(u) PROVE FolderInv'
<1> USE DEF FolderInv
<1>0. upload[u] \in Uploading /\ (upload[u].pc # "idle" => upload[u].document \in Document)
  BY DEF FolderTypeOK, Uploading
<1>r. Rest \in Uploading /\ Rest.pc = "idle"
  BY PathFacts DEF Rest, Uploading, Some
<1>1. CASE \E d \in Document : Spool(u, d)
  <2>1. PICK d \in Document : Spool(u, d)
    BY <1>1
  <2>2. [pc |-> "spooled", document |-> d, dest |-> Plain] \in Uploading
    BY PathFacts DEF Uploading, Some
  <2> QED BY <2>1, <2>2, UploadMoves DEF Spool
<1>2. CASE UploadStops(u) \/ Duplicate(u) \/ EnqueueUploadFails(u)
  BY <1>2, <1>r, UploadMoves DEF UploadStops, Duplicate, EnqueueUploadFails
<1>3. CASE FindHomonym(u)
  <2>1. [upload[u] EXCEPT !.pc = "compare"] \in Uploading
        /\ [upload[u] EXCEPT !.pc = "compare"].pc = "compare"
        /\ [upload[u] EXCEPT !.pc = "compare"].document = upload[u].document
    BY <1>0 DEF Uploading
  <2>2. upload[u].document \in Document
    BY <1>0, <1>3 DEF FindHomonym, AtUpload
  <2> QED BY <1>3, <2>1, <2>2, UploadMoves DEF FindHomonym
<1>4. CASE CompareHomonym(u)
  <2> DEFINE answer == IF files[Plain] = upload[u].document THEN "same" ELSE "other"
             r  == [upload[u] EXCEPT !.pc = answer]
  <2>1. r \in Uploading /\ r.pc = answer /\ r.document = upload[u].document
    BY <1>0 DEF Uploading
  <2>2. upload[u].document \in Document
    BY <1>0, <1>4 DEF CompareHomonym, AtUpload
  <2>3. OfUpload(u, r)
        /\ UNCHANGED <<files, records, scan, requeue, admin, worker, strayed, disturbed>>
    BY <1>4 DEF CompareHomonym
  <2>4. r.pc = "same" => files[Plain] = r.document
    BY <2>1
  <2>5. r.pc # "enqueue"
    BY <2>1
  <2> HIDE DEF r
  <2> QED BY <2>1, <2>2, <2>3, <2>4, <2>5, UploadMoves
<1>5. CASE PlaceFree(u)
  <2>1. upload[u].document \in Document
    BY <1>0, <1>5 DEF PlaceFree, AtUpload
  <2>2. /\ files[Plain] = NoDocument /\ files' = [files EXCEPT ![Plain] = upload[u].document]
        /\ OfUpload(u, [upload[u] EXCEPT !.pc = "enqueue", !.dest = Plain])
        /\ UNCHANGED <<records, scan, requeue, admin, worker, strayed, disturbed>>
    BY <1>5 DEF PlaceFree
  <2>3. Plain \in Path /\ \A d \in Document : Plain # Qualified(d)
    BY PathFacts
  <2> QED BY <2>1, <2>2, <2>3, UploadPlaces
<1>6. CASE PlaceBesideHomonym(u)
  <2>1. upload[u].document \in Document
    BY <1>0, <1>6 DEF PlaceBesideHomonym, AtUpload
  <2>2. Dest(u) \in Path /\ (\A d \in Document : Dest(u) = Qualified(d) => upload[u].document = d)
    BY <2>1, PathFacts DEF Dest
  <2>3. ~disturbed => files[Dest(u)] \in {NoDocument, upload[u].document}
    BY <2>1 DEF Dest, AtUpload, Pointing, UploadsPoint, Apart
  <2> QED BY <1>6, <2>1, <2>2, <2>3, UploadPlaces DEF PlaceBesideHomonym
<1>7. CASE EnqueueUpload(u)
  <2> DEFINE d == upload[u].document
  <2>1. /\ upload[u].pc = "enqueue" /\ d \in Document /\ upload[u].dest \in Path
        /\ records' = [records EXCEPT ![d] = Entry("pending", upload[u].dest)]
        /\ upload' = [upload EXCEPT ![u] = Rest]
        /\ UNCHANGED <<files, scan, requeue, admin, worker, strayed, disturbed>>
    BY <1>0, <1>7 DEF EnqueueUpload, AtUpload, OfUpload, Uploading
  <2>2. Entry("pending", upload[u].dest) \in Rec
        /\ Entry("pending", upload[u].dest).status = "pending"
        /\ Entry("pending", upload[u].dest).path = upload[u].dest
    BY <2>1, PathFacts DEF Statuses
  <2>3. ~disturbed => files[upload[u].dest] = d
    BY <2>1 DEF Pointing, UploadsPoint
  <2>4. records' \in [Document -> Rec] /\ Known' = Known \cup {d} /\ (~disturbed => RecordsPoint')
    BY <2>1, <2>2, <2>3, RecordWritten
  <2>5. upload'[u] = Rest /\ upload' \in [Uploader -> Uploading]
        /\ \A t \in Uploader \ {u} : upload'[t] = upload[t]
    BY <1>r, <2>1 DEF FolderTypeOK, Uploading
  <2>6. FolderTypeOK'
    BY <1>r, <2>1, <2>4, <2>5 DEF FolderTypeOK, Uploading
  <2>7. Apart'
    BY <2>1, <2>4 DEF Apart
  <2>8. ASSUME ~disturbed PROVE Pointing'
    <3>1. ScanPoints' /\ RequeuePoints' /\ WorkerPoints'
      BY <2>1, <2>8, FilesSame, KeptPoints DEF Pointing
    <3>2. UploadsPoint'
      BY <1>r, <2>1, <2>5, <2>8 DEF Pointing, UploadsPoint
    <3> QED BY <2>4, <2>8, <3>1, <3>2 DEF Pointing
  <2> QED BY <2>1, <2>6, <2>7, <2>8
<1> QED BY <1>1, <1>2, <1>3, <1>4, <1>5, <1>6, <1>7 DEF UploadStep

--------------------------------------------------------------------------------
(* The scan and the requeue.                                               *)

Scanning == [pc : {"idle", "next", "look", "enqueue"}, left : SUBSET Path,
             path : Path, document : Some]

LEMMA ScanMoves ==
    ASSUME FolderInv, NEW s \in Scanning, OfScan(s), records' = records,
           s.pc \in {"look", "enqueue"} =>
               s.document \in Document /\ (disturbed \/ files[s.path] = s.document)
    PROVE  FolderInv'
<1> USE DEF FolderInv
<1>1. scan' = s /\ UNCHANGED <<files, records, upload, requeue, admin, worker, strayed, disturbed>>
  BY DEF OfScan
<1>2. FolderTypeOK' /\ Apart'
  BY <1>1 DEF FolderTypeOK, Scanning, Apart, Known
<1>3. ASSUME ~disturbed PROVE Pointing'
  <2>1. RecordsPoint' /\ UploadsPoint' /\ RequeuePoints' /\ WorkerPoints'
    BY <1>1, <1>3, FilesSame, KeptPoints DEF Pointing
  <2>2. ScanPoints'
    BY <1>1, <1>3 DEF ScanPoints
  <2> QED BY <2>1, <2>2 DEF Pointing
<1> QED BY <1>1, <1>2, <1>3

LEMMA ScanInv == ASSUME FolderInv, ScanStep PROVE FolderInv'
<1> USE DEF FolderInv
<1>0. scan \in Scanning /\ (scan.pc \in {"look", "enqueue"} => scan.document \in Document)
  BY DEF FolderTypeOK, Scanning
<1>n. NoScan \in Scanning /\ NoScan.pc = "idle"
  BY PathFacts DEF NoScan, Scanning, Some
<1>1. CASE ListFolder
  <2> DEFINE s == [scan EXCEPT !.pc = "next", !.left = {p \in Path : files[p] # NoDocument}]
  <2>1. s \in Scanning /\ s.pc = "next"
    BY <1>0 DEF Scanning
  <2>2. OfScan(s) /\ records' = records
    BY <1>1 DEF ListFolder
  <2> HIDE DEF s
  <2> QED BY <2>1, <2>2, ScanMoves
<1>2. CASE \E p \in Path : HashFile(p)
  <2>1. PICK p \in Path : HashFile(p)
    BY <1>2
  <2>2. CASE files[p] = NoDocument
    <3> DEFINE s == [scan EXCEPT !.left = @ \ {p}]
    <3>1. s \in Scanning /\ s.pc = "next" /\ OfScan(s) /\ records' = records
      BY <1>0, <2>1, <2>2 DEF HashFile, Scanning
    <3> HIDE DEF s
    <3> QED BY <3>1, ScanMoves
  <2>3. CASE files[p] # NoDocument
    <3> DEFINE s == [pc |-> "look", left |-> scan.left \ {p}, path |-> p, document |-> files[p]]
    <3>1. files[p] \in Document
      BY <2>3 DEF FolderTypeOK, Some
    <3>2. s \in Scanning /\ s.document = files[p] /\ s.path = p /\ OfScan(s) /\ records' = records
      BY <1>0, <2>1, <2>3, <3>1 DEF HashFile, Scanning, Some
    <3> HIDE DEF s
    <3> QED BY <3>1, <3>2, ScanMoves
  <2> QED BY <2>2, <2>3
<1>3. CASE Skip
  <2> DEFINE s == [NoScan EXCEPT !.pc = "next", !.left = scan.left]
  <2>1. s \in Scanning /\ s.pc = "next"
    BY <1>0, <1>n DEF Scanning
  <2>2. OfScan(s) /\ records' = records
    BY <1>3 DEF Skip
  <2> HIDE DEF s
  <2> QED BY <2>1, <2>2, ScanMoves
<1>4. CASE LookUp
  <2> DEFINE s == [scan EXCEPT !.pc = "enqueue"]
  <2>1. s \in Scanning /\ s.path = scan.path /\ s.document = scan.document /\ scan.pc = "look"
    BY <1>0, <1>4 DEF Scanning, LookUp
  <2>2. OfScan(s) /\ records' = records
    BY <1>4 DEF LookUp
  <2>3. scan.document \in Document /\ (~disturbed => files[scan.path] = scan.document)
    BY <1>0, <2>1 DEF Pointing, ScanPoints
  <2> HIDE DEF s
  <2> QED BY <2>1, <2>2, <2>3, ScanMoves
<1>5. CASE EndScan
  BY <1>5, <1>n, ScanMoves DEF EndScan
<1>6. CASE EnqueueFound
  <2> DEFINE s == [NoScan EXCEPT !.pc = "next", !.left = scan.left]
             e == Entry("pending", scan.path)
  <2>1. s \in Scanning /\ s.pc = "next"
    BY <1>0, <1>n DEF Scanning
  <2>2. /\ scan.pc = "enqueue" /\ scan.document \in Document /\ scan.path \in Path
        /\ records' = [records EXCEPT ![scan.document] = e] /\ scan' = s
        /\ UNCHANGED <<files, upload, requeue, admin, worker, strayed, disturbed>>
    BY <1>0, <1>6 DEF EnqueueFound, OfScan, Scanning
  <2>3. e \in Rec /\ e.status = "pending" /\ e.path = scan.path
    BY <2>2, PathFacts DEF Statuses
  <2> HIDE DEF s, e
  <2>4. ~disturbed => files[e.path] = scan.document
    BY <2>2, <2>3 DEF Pointing, ScanPoints
  <2>5. records' \in [Document -> Rec] /\ Known' = Known \cup {scan.document}
        /\ (~disturbed => RecordsPoint')
    BY <2>2, <2>3, <2>4, RecordWritten
  <2>6. FolderTypeOK' /\ Apart'
    BY <2>1, <2>2, <2>5 DEF FolderTypeOK, Scanning, Apart
  <2>7. ASSUME ~disturbed PROVE Pointing'
    <3>1. UploadsPoint' /\ RequeuePoints' /\ WorkerPoints'
      BY <2>2, <2>7, FilesSame, KeptPoints DEF Pointing
    <3>2. ScanPoints'
      BY <2>1, <2>2 DEF ScanPoints
    <3> QED BY <2>5, <2>7, <3>1, <3>2 DEF Pointing
  <2> QED BY <2>2, <2>6, <2>7
<1> QED BY <1>1, <1>2, <1>3, <1>4, <1>5, <1>6 DEF ScanStep

LEMMA ReadInv == ASSUME FolderInv, NEW d \in Document, RequeueRead(d) PROVE FolderInv'
<1> USE DEF FolderInv
<1>1. /\ d \in Known /\ requeue' = [document |-> d, record |-> records[d]]
      /\ UNCHANGED <<files, records, upload, scan, admin, worker, strayed, disturbed>>
  BY DEF RequeueRead
<1>2. FolderTypeOK' /\ Apart'
  BY <1>1 DEF FolderTypeOK, Apart, Known
<1>3. ASSUME ~disturbed PROVE Pointing'
  <2>1. RecordsPoint' /\ UploadsPoint' /\ ScanPoints' /\ WorkerPoints'
    BY <1>1, <1>3, FilesSame, KeptPoints DEF Pointing
  <2>2. RequeuePoints'
    BY <1>1, <1>3 DEF RequeuePoints, Pointing, RecordsPoint, Leaving
  <2> QED BY <2>1, <2>2 DEF Pointing
<1> QED BY <1>1, <1>2, <1>3

LEMMA WriteInv == ASSUME FolderInv, RequeueWrite PROVE FolderInv'
<1> USE DEF FolderInv
<1> DEFINE e == Entry("pending", requeue.record.path)
<1>1. /\ requeue # NoRetry /\ requeue' = NoRetry
      /\ records' = [records EXCEPT ![requeue.document] = e]
      /\ UNCHANGED <<files, upload, scan, admin, worker, strayed, disturbed>>
  BY DEF RequeueWrite
<1>2. requeue.document \in Document /\ requeue.record.path \in Path
  BY <1>1 DEF FolderTypeOK, Rec
<1>3. e \in Rec /\ e.status = "pending" /\ e.path = requeue.record.path
  BY <1>2, PathFacts DEF Statuses
<1> HIDE DEF e
<1>4. ~disturbed => Leaving(requeue.document) \/ files[e.path] = requeue.document
  BY <1>1, <1>3 DEF Pointing, RequeuePoints
<1>5. records' \in [Document -> Rec] /\ Known' = Known \cup {requeue.document}
      /\ (~disturbed => RecordsPoint')
  BY <1>1, <1>2, <1>3, <1>4, RecordWritten
<1>6. FolderTypeOK' /\ Apart'
  BY <1>1, <1>5 DEF FolderTypeOK, Apart
<1>7. ASSUME ~disturbed PROVE Pointing'
  <2>1. UploadsPoint' /\ ScanPoints' /\ WorkerPoints'
    BY <1>1, <1>7, FilesSame, KeptPoints DEF Pointing
  <2>2. RequeuePoints'
    BY <1>1 DEF RequeuePoints
  <2> QED BY <1>5, <1>7, <2>1, <2>2 DEF Pointing
<1> QED BY <1>1, <1>6, <1>7

--------------------------------------------------------------------------------
(* Removals.                                                               *)

LEMMA BeginRemovalInv ==
    ASSUME FolderInv, NEW documents \in SUBSET Document, NEW withFiles \in BOOLEAN,
           BeginRemoval(documents, withFiles)
    PROVE  FolderInv'
<1> USE DEF FolderInv
<1>1. /\ admin = NoAdmin /\ worker = NoWorker
      /\ admin' = [pc |-> "read", documents |-> documents, withFiles |-> withFiles]
      /\ UNCHANGED <<files, records, upload, scan, requeue, worker, strayed, disturbed>>
  BY DEF BeginRemoval, LockFree
<1>2. FolderTypeOK' /\ Apart'
  BY <1>1 DEF FolderTypeOK, Apart, Known, NoWorker
<1>3. ASSUME ~disturbed PROVE Pointing'
  <2>1. UploadsPoint' /\ ScanPoints' /\ WorkerPoints'
    BY <1>1, <1>3, FilesSame, KeptPoints DEF Pointing
  <2>2. \A d : ~Leaving(d)
    BY <1>1 DEF Leaving, NoAdmin
  <2>3. RecordsPoint' /\ RequeuePoints'
    BY <1>1, <1>3, <2>2 DEF Pointing, RecordsPoint, RequeuePoints, Known
  <2> QED BY <2>1, <2>3 DEF Pointing
<1> QED BY <1>1, <1>2, <1>3

(* The files go; what the step leaves unsaid, disturbed says.              *)
LEMMA UnlinkInv == ASSUME FolderInv, Unlink PROVE FolderInv'
<1> USE DEF FolderInv
<1>1. /\ admin.pc = "read" /\ admin' = [admin EXCEPT !.pc = "unlinked"]
      /\ files' = [p \in Path |-> IF p \in Unlinked THEN NoDocument ELSE files[p]]
      /\ disturbed' = (disturbed \/ (admin.withFiles /\ Midway))
      /\ UNCHANGED <<records, upload, scan, requeue, worker, strayed>>
  BY DEF Unlink, Unlinking
<1>2. /\ admin' \in [pc : {"idle", "read", "unlinked"}, documents : SUBSET Document,
                     withFiles : BOOLEAN]
      /\ admin'.pc = "unlinked" /\ admin'.documents = admin.documents
      /\ admin'.withFiles = admin.withFiles
  BY <1>1 DEF FolderTypeOK
<1>3. files' \in [Path -> Some] /\ \A p \in Path : files'[p] \in {NoDocument, files[p]}
  BY <1>1 DEF FolderTypeOK, Some
<1>4. FolderTypeOK'
  BY <1>1, <1>2, <1>3 DEF FolderTypeOK
<1>5. worker.pc = "idle"
  BY <1>1 DEF Apart
<1>6. Apart'
  BY <1>1, <1>3, <1>5, PathFacts DEF Apart, Known
<1>7. ASSUME ~disturbed' PROVE Pointing'
  <2>0. Pointing
    BY <1>1, <1>7
  <2>1. WorkerPoints'
    BY <1>1, <1>5, <2>0 DEF Apart, NoWorker, Pointing, WorkerPoints
  <2>2. CASE ~admin.withFiles
    <3>1. Kept /\ \A d : ~Leaving(d) /\ ~Leaving(d)'
      BY <1>1, <1>2, <2>2 DEF Kept, Unlinked, Leaving, FolderTypeOK
    <3>2. UploadsPoint' /\ ScanPoints'
      BY <1>1, <2>0, <3>1, KeptPoints DEF Pointing
    <3>3. files' = files
      BY <1>1, <2>2 DEF Unlinked, FolderTypeOK
    <3>4. RecordsPoint' /\ RequeuePoints'
      BY <1>1, <2>0, <3>1, <3>3 DEF Pointing, RecordsPoint, RequeuePoints, Known
    <3> QED BY <2>1, <3>2, <3>4 DEF Pointing
  <2>3. CASE admin.withFiles
    <3>1. ~Midway
      BY <1>1, <1>7, <2>3
    <3>2. UploadsPoint' /\ ScanPoints' /\ RequeuePoints'
      BY <1>1, <3>1 DEF Midway, UploadsPoint, ScanPoints, RequeuePoints
    <3>3. ASSUME NEW d \in Known', ~Leaving(d)' PROVE files'[records'[d].path] = d
      <4>1. d \in Known /\ d \notin admin.documents /\ d \in Document /\ records[d].path \in Path
        BY <1>1, <1>2, <2>3, <3>3 DEF Leaving, Known, FolderTypeOK, Rec
      <4>2. files[records[d].path] = d
        BY <1>1, <2>0, <4>1 DEF Pointing, RecordsPoint, Leaving
      <4>3. Unlinked = {records[e].path : e \in admin.documents \cap Known}
        BY <2>3, <4>1 DEF Unlinked, Whole
      <4>4. records[d].path \notin Unlinked
        <5> SUFFICES ASSUME NEW e \in admin.documents \cap Known, records[d].path = records[e].path
                     PROVE  FALSE
          BY <4>3
        <5>1. files[records[e].path] = e
          BY <1>1, <2>0 DEF Pointing, RecordsPoint, Leaving
        <5> QED BY <4>1, <4>2, <5>1
      <4> QED BY <1>1, <4>1, <4>2, <4>4
    <3>4. RecordsPoint'
      BY <3>3 DEF RecordsPoint
    <3> QED BY <2>1, <3>2, <3>4 DEF Pointing
  <2> QED BY <2>2, <2>3
<1> QED BY <1>4, <1>6, <1>7

(* The removal ends, its records dropped or not.                           *)
LEMMA RemovalEnds ==
    ASSUME FolderInv, DeleteRecords \/ RemovalFails PROVE FolderInv'
<1> USE DEF FolderInv
<1>1. /\ admin.pc = "unlinked" /\ admin' = NoAdmin
      /\ UNCHANGED <<files, upload, scan, requeue, worker, strayed>>
  BY DEF DeleteRecords, RemovalFails
<1>2. records' \in [Document -> Rec]
      /\ \A d \in Document : records'[d] \in {NoRecord, records[d]}
  BY PathFacts DEF DeleteRecords, RemovalFails, FolderTypeOK
<1>3. NoAdmin \in [pc : {"idle", "read", "unlinked"}, documents : SUBSET Document,
                  withFiles : BOOLEAN] /\ NoAdmin.pc = "idle"
  BY DEF NoAdmin
<1>4. FolderTypeOK'
  BY <1>1, <1>2, <1>3 DEF FolderTypeOK
<1>5. worker.pc = "idle"
  BY <1>1 DEF Apart
<1>6. Apart'
  BY <1>1, <1>5 DEF Apart
<1>7. ASSUME ~disturbed' PROVE Pointing'
  <2>0. Pointing /\ (disturbed' = (disturbed \/ (admin.withFiles /\ Midway))
                     \/ disturbed' = (disturbed \/ admin.withFiles))
    BY <1>7 DEF DeleteRecords, RemovalFails
  <2>1. UploadsPoint' /\ ScanPoints' /\ WorkerPoints'
    BY <1>1, <2>0, FilesSame, KeptPoints DEF Pointing
  <2>2. RequeuePoints'
    <3>1. CASE requeue = NoRetry
      BY <1>1, <3>1 DEF RequeuePoints
    <3>2. CASE requeue # NoRetry
      <4>1. ~admin.withFiles
        BY <1>7, <2>0, <3>2 DEF Midway
      <4> QED BY <1>1, <2>0, <3>2, <4>1 DEF Pointing, RequeuePoints, Leaving
    <3> QED BY <3>1, <3>2
  <2>3. RecordsPoint'
    <3>1. ASSUME NEW d \in Known' PROVE files'[records'[d].path] = d
      <4>1. d \in Document /\ records'[d] = records[d] /\ d \in Known
        BY <1>2, <3>1, PathFacts DEF Known
      <4>2. ~Leaving(d)
        <5>1. CASE DeleteRecords
          <6>1. d \notin admin.documents
            BY <3>1, <4>1, <5>1, PathFacts DEF DeleteRecords, Known
          <6> QED BY <6>1 DEF Leaving
        <5>2. CASE RemovalFails
          BY <1>7, <5>2 DEF RemovalFails, Leaving
        <5> QED BY <5>1, <5>2
      <4> QED BY <1>1, <2>0, <4>1, <4>2 DEF Pointing, RecordsPoint
    <3> QED BY <3>1 DEF RecordsPoint
  <2> QED BY <2>1, <2>2, <2>3 DEF Pointing
<1> QED BY <1>4, <1>6, <1>7

LEMMA RemovalInv == ASSUME FolderInv, RemovalStep PROVE FolderInv'
<1>1. CASE \E withFiles \in BOOLEAN :
              RemoveAll(withFiles) \/ \E d \in Document : RemoveOne(d, withFiles)
  BY <1>1, BeginRemovalInv DEF RemoveAll, RemoveOne
<1> QED BY <1>1, UnlinkInv, RemovalEnds DEF RemovalStep

--------------------------------------------------------------------------------
(* The worker.                                                             *)

LEMMA ListInv == ASSUME FolderInv, ListPending PROVE FolderInv'
<1> USE DEF FolderInv
<1> DEFINE pending == {d \in Known : records[d].status = "pending"}
           todo    == [d \in pending |-> records[d]]
<1>1. /\ admin = NoAdmin /\ worker' = [NoWorker EXCEPT !.pc = "next", !.todo = todo]
      /\ UNCHANGED <<files, records, upload, scan, requeue, admin, strayed, disturbed>>
  BY DEF ListPending, LockFree
<1>2. DOMAIN todo \subseteq Known /\ \A d \in DOMAIN todo : todo[d] = records[d]
  OBVIOUS
<1> HIDE DEF todo
<1>3. worker'.pc = "next" /\ worker'.todo = todo /\ worker'.source \in Path
      /\ DOMAIN worker' = {"pc", "todo", "document", "source"}
  BY <1>1, PathFacts DEF NoWorker
<1>4. FolderTypeOK'
  BY <1>1, <1>2, <1>3 DEF FolderTypeOK, Known
<1>5. Apart'
  BY <1>1, <1>3 DEF Apart, NoAdmin
<1>6. ASSUME ~disturbed PROVE Pointing'
  <2>1. RecordsPoint' /\ UploadsPoint' /\ ScanPoints' /\ RequeuePoints'
    BY <1>1, <1>6, FilesSame, KeptPoints DEF Pointing
  <2>2. WorkerPoints'
    BY <1>1, <1>2, <1>3, <1>6 DEF Pointing, RecordsPoint, WorkerPoints, Leaving, NoAdmin
  <2> QED BY <2>1, <2>2 DEF Pointing
<1> QED BY <1>1, <1>4, <1>5, <1>6

LEMMA BeginParseInv == ASSUME FolderInv, NEW d \in Document, BeginParse(d) PROVE FolderInv'
<1> USE DEF FolderInv
<1> DEFINE path == worker.todo[d].path
           left == [e \in DOMAIN worker.todo \ {d} |-> worker.todo[e]]
           r    == Entry("parsing", path)
<1>1. /\ worker.pc = "next" /\ d \in DOMAIN worker.todo
      /\ records' = [records EXCEPT ![d] = r]
      /\ worker' = [worker EXCEPT !.pc = "parse", !.document = d, !.source = Opened(path),
                                  !.todo = left]
      /\ UNCHANGED <<files, upload, scan, requeue, admin, strayed, disturbed>>
  BY DEF BeginParse
<1>2. path \in Path /\ Opened(path) \in Path
  BY <1>1, PathFacts DEF FolderTypeOK, Rec, Opened
<1>3. r \in Rec /\ r.status = "parsing" /\ r.path = path
  BY <1>2, PathFacts DEF Statuses
<1>4. DOMAIN left \subseteq DOMAIN worker.todo /\ \A e \in DOMAIN left : left[e] = worker.todo[e]
  OBVIOUS
<1> HIDE DEF left, r
<1>5. worker'.pc = "parse" /\ worker'.todo = left /\ worker'.source = Opened(path)
      /\ worker'.document = d
  BY <1>1 DEF FolderTypeOK
<1>6. ~disturbed => files[path] = d /\ Opened(path) = path
  BY <1>1, FolderAssumption DEF Pointing, WorkerPoints, Opened
<1>7. records' \in [Document -> Rec] /\ Known' = Known \cup {d} /\ (~disturbed => RecordsPoint')
  BY <1>1, <1>3, <1>6, RecordWritten
<1>8. FolderTypeOK'
  BY <1>1, <1>2, <1>4, <1>5, <1>7 DEF FolderTypeOK
<1>9. Apart'
  BY <1>1, <1>5, <1>7 DEF Apart
<1>10. ASSUME ~disturbed PROVE Pointing'
  <2>1. UploadsPoint' /\ ScanPoints' /\ RequeuePoints'
    BY <1>1, <1>10, FilesSame, KeptPoints DEF Pointing
  <2>2. WorkerPoints'
    BY <1>1, <1>4, <1>5, <1>6, <1>10 DEF Pointing, WorkerPoints
  <2> QED BY <1>7, <1>10, <2>1, <2>2 DEF Pointing
<1> QED BY <1>1, <1>8, <1>9, <1>10

LEMMA ParsedInv ==
    ASSUME FolderInv, worker.pc = "parse", NEW status \in {"processed", "failed"}, NEW bytes,
           bytes \in {NoDocument, files[worker.source]}, Parsed(status, bytes)
    PROVE  FolderInv'
<1> USE DEF FolderInv
<1> DEFINE d == worker.document
           r == [records[d] EXCEPT !.status = status]
<1>1. /\ records' = [records EXCEPT ![d] = r]
      /\ strayed' = (strayed \/ bytes \notin {NoDocument, d})
      /\ worker' = [NoWorker EXCEPT !.pc = "next", !.todo = worker.todo]
      /\ UNCHANGED <<files, upload, scan, requeue, admin, disturbed>>
  BY DEF Parsed
<1>2. d \in Document /\ d \in Known /\ records[d] \in Rec
  BY DEF FolderTypeOK, Apart
<1>3. r \in Rec /\ r.status # "none" /\ r.path = records[d].path
  BY <1>2 DEF Rec, Statuses
<1> HIDE DEF r
<1>4. worker'.pc = "next" /\ worker'.todo = worker.todo /\ worker'.source \in Path
      /\ DOMAIN worker' = {"pc", "todo", "document", "source"}
  BY <1>1, PathFacts DEF NoWorker
<1>5. ~disturbed => Leaving(d) \/ files[r.path] = d
  BY <1>2, <1>3 DEF Pointing, RecordsPoint
<1>6. records' \in [Document -> Rec] /\ Known' = Known \cup {d} /\ (~disturbed => RecordsPoint')
  BY <1>1, <1>2, <1>3, <1>5, RecordWritten
<1>7. FolderTypeOK'
  BY <1>1, <1>4, <1>6 DEF FolderTypeOK
<1>8. Apart'
  BY <1>1, <1>4 DEF Apart
<1>9. ASSUME ~disturbed PROVE Pointing'
  <2>1. UploadsPoint' /\ ScanPoints' /\ RequeuePoints'
    BY <1>1, <1>9, FilesSame, KeptPoints DEF Pointing
  <2>2. WorkerPoints'
    BY <1>1, <1>4, <1>9 DEF Pointing, WorkerPoints
  <2> QED BY <1>6, <1>9, <2>1, <2>2 DEF Pointing
<1> QED BY <1>1, <1>7, <1>8, <1>9

LEMMA WorkInv == ASSUME FolderInv, WorkStep PROVE FolderInv'
<1> USE DEF FolderInv
<1>1. CASE ParseFile \/ SourceMissing
  BY <1>1, ParsedInv DEF ParseFile, SourceMissing
<1>2. CASE WorkerDone
  <2>1. /\ worker' = NoWorker
        /\ UNCHANGED <<files, records, upload, scan, requeue, admin, strayed, disturbed>>
    BY <1>2 DEF WorkerDone
  <2>2. NoWorker.pc = "idle" /\ NoWorker.source \in Path /\ DOMAIN NoWorker.todo = {}
        /\ DOMAIN NoWorker = {"pc", "todo", "document", "source"}
    BY PathFacts DEF NoWorker
  <2>3. FolderTypeOK' /\ Apart'
    BY <2>1, <2>2 DEF FolderTypeOK, Apart
  <2>4. ASSUME ~disturbed PROVE Pointing'
    <3>1. RecordsPoint' /\ UploadsPoint' /\ ScanPoints' /\ RequeuePoints'
      BY <2>1, <2>4, FilesSame, KeptPoints DEF Pointing
    <3>2. WorkerPoints'
      BY <2>1, <2>2, <2>4 DEF Pointing, WorkerPoints
    <3> QED BY <3>1, <3>2 DEF Pointing
  <2> QED BY <2>1, <2>3, <2>4
<1> QED BY <1>1, <1>2, ListInv, BeginParseInv DEF WorkStep

--------------------------------------------------------------------------------

THEOREM FolderInvariant == FolderSpec => []FolderInv
<1>1. FolderInit => FolderInv
  BY FolderStarts
<1>2. FolderInv /\ [FolderNext]_folderVars => FolderInv'
  <2> SUFFICES ASSUME FolderInv, [FolderNext]_folderVars PROVE FolderInv'
    OBVIOUS
  <2>1. CASE UNCHANGED folderVars
    <3>1. UNCHANGED <<files, records, upload, scan, requeue, admin, worker, strayed, disturbed>>
      BY <2>1 DEF folderVars
    <3>2. FolderTypeOK' /\ Apart'
      BY <3>1 DEF FolderInv, FolderTypeOK, Apart, Known
    <3>3. Pointing => Pointing'
      BY <3>1, FilesSame, KeptPoints DEF FolderInv, Pointing
    <3> QED BY <3>1, <3>2, <3>3 DEF FolderInv
  <2>2. CASE FolderNext
    BY <2>2, UploadInv, ScanInv, ReadInv, WriteInv, RemovalInv, WorkInv DEF FolderNext
  <2> QED BY <2>1, <2>2
<1> QED BY <1>1, <1>2, PTL DEF FolderSpec

(* Whatever uploads, scans, requeues, removals and the worker do between   *)
(* each other's awaits, a record names a file with its own bytes, and only *)
(* from these a document is parsed: api/routers/documents.py chooses a     *)
(* destination that is free, the same bytes, or qualified by the digest.   *)
THEOREM AlwaysOwnSource == FolderSpec => []OwnSource
<1>1. FolderInv => OwnSource
  BY DEF FolderInv, Pointing, RecordsPoint, WorkerPoints, Leaving, OwnSource
<1> QED BY <1>1, FolderInvariant, PTL

================================================================================
