---------------------------- MODULE StorageProofs ----------------------------
(***************************************************************************)
(* Proofs about the SQLite stores, for every set of records, data CIDs,    *)
(* tasks and callers.  The stores share no state.                          *)
(***************************************************************************)
EXTENDS DataBlocks, TaskStore, FiniteSetTheorems, TLAPS

-----------------------------------------------------------------------------
(* The data store.  The call records matter only for their types: what the *)
(* first transaction of a put found is not used by the second.             *)

Holders(refs, d) == {o \in Owners : <<o, d>> \in refs}

CallRecord == [op : {"idle"}] \cup [op : {"stream", "get"}, owner : Owners, cid : DataCids]

DataType ==
    /\ data_refs \subseteq Owners \X DataCids
    /\ blocks \in [DataCids -> Nat]
    /\ call \in [Callers -> CallRecord]

(* The inductive invariant: the types, finitely many references to each    *)
(* block, and the count.                                                   *)
DataInv ==
    /\ DataType
    /\ \A d \in DataCids : IsFiniteSet(Holders(data_refs, d))
    /\ RefCountsExact

(* A new reference adds one holder to its block and none to the others. *)
LEMMA HoldersAdd ==
    ASSUME NEW refs, NEW o \in Owners, NEW d \in DataCids, <<o, d>> \notin refs,
           \A x \in DataCids : IsFiniteSet(Holders(refs, x))
    PROVE  LET new == refs \cup {<<o, d>>}
           IN  /\ \A x \in DataCids : IsFiniteSet(Holders(new, x))
               /\ Cardinality(Holders(new, d)) = Cardinality(Holders(refs, d)) + 1
               /\ \A x \in DataCids \ {d} : Holders(new, x) = Holders(refs, x)
<1> DEFINE new == refs \cup {<<o, d>>}
<1>1. Holders(new, d) = Holders(refs, d) \cup {o} /\ o \notin Holders(refs, d)
  BY DEF Holders
<1>2. \A x \in DataCids \ {d} : Holders(new, x) = Holders(refs, x)
  BY DEF Holders
<1> HIDE DEF new
<1>3. /\ IsFiniteSet(Holders(new, d))
      /\ Cardinality(Holders(new, d)) = Cardinality(Holders(refs, d)) + 1
  BY <1>1, FS_AddElement
<1> QED BY <1>2, <1>3 DEF new

(* Dropping a reference takes one holder from its block only. *)
LEMMA HoldersRemove ==
    ASSUME NEW refs, NEW o \in Owners, NEW d \in DataCids, <<o, d>> \in refs,
           \A x \in DataCids : IsFiniteSet(Holders(refs, x))
    PROVE  LET new == refs \ {<<o, d>>}
           IN  /\ \A x \in DataCids : IsFiniteSet(Holders(new, x))
               /\ Cardinality(Holders(new, d)) = Cardinality(Holders(refs, d)) - 1
               /\ Cardinality(Holders(refs, d)) > 0
               /\ \A x \in DataCids \ {d} : Holders(new, x) = Holders(refs, x)
<1> DEFINE new == refs \ {<<o, d>>}
<1>1. Holders(new, d) = Holders(refs, d) \ {o} /\ o \in Holders(refs, d)
  BY DEF Holders
<1>2. \A x \in DataCids \ {d} : Holders(new, x) = Holders(refs, x)
  BY DEF Holders
<1> HIDE DEF new
<1>3. /\ IsFiniteSet(Holders(new, d))
      /\ Cardinality(Holders(new, d)) = Cardinality(Holders(refs, d)) - 1
  BY <1>1, FS_RemoveElement
<1>4. Cardinality(Holders(refs, d)) > 0
  BY <1>1, FS_EmptySet, FS_CardinalityType
<1> QED BY <1>2, <1>3, <1>4 DEF new

(* A block without a count has no holder, and a reference has a counted    *)
(* block.                                                                  *)
LEMMA CountedWhenHeld ==
    ASSUME DataInv, NEW o \in Owners, NEW d \in DataCids
    PROVE  /\ blocks[d] \in Nat /\ blocks[d] = Cardinality(Holders(data_refs, d))
           /\ <<o, d>> \in data_refs => blocks[d] > 0
<1>1. blocks[d] \in Nat /\ blocks[d] = Cardinality(Holders(data_refs, d))
  BY DEF DataInv, DataType, RefCountsExact, Holders
<1>2. <<o, d>> \in data_refs => Cardinality(Holders(data_refs, d)) > 0
  BY Zenon, HoldersRemove DEF DataInv
<1> QED BY <1>1, <1>2

(* One more reference, whether its block was there or is stored with it. *)
LEMMA AddReference ==
    ASSUME DataInv, NEW o \in Owners, NEW d \in DataCids, <<o, d>> \notin data_refs,
           data_refs' = data_refs \cup {<<o, d>>},
           blocks' = [blocks EXCEPT ![d] = @ + 1],
           call' \in [Callers -> CallRecord]
    PROVE  DataInv'
<1>1. /\ \A x \in DataCids : IsFiniteSet(Holders(data_refs', x))
      /\ Cardinality(Holders(data_refs', d)) = Cardinality(Holders(data_refs, d)) + 1
      /\ \A x \in DataCids \ {d} : Holders(data_refs', x) = Holders(data_refs, x)
  BY Zenon, HoldersAdd DEF DataInv
<1>2. DataType'
  BY DEF DataInv, DataType
<1>3. \A x \in DataCids : blocks'[x] = Cardinality(Holders(data_refs', x))
  BY Zenon, <1>1 DEF DataInv, DataType, RefCountsExact, Holders
<1> QED BY <1>1, <1>2, <1>3 DEF DataInv, RefCountsExact, Holders

(* A step that leaves rows and blocks alone. *)
LEMMA RowsUnchanged ==
    ASSUME DataInv, data_refs' = data_refs, blocks' = blocks, call' \in [Callers -> CallRecord]
    PROVE  DataInv'
  BY DEF DataInv, DataType, RefCountsExact, Holders

(* increment_data_block_ref_count, in either transaction of a put. *)
LEMMA IncrementOK ==
    ASSUME DataInv, NEW o \in Owners, NEW d \in DataCids, call' \in [Callers -> CallRecord],
           increment_data_block_ref_count(o, d)
    PROVE  DataInv'
<1>1. CASE <<o, d>> \in data_refs
  <2>1. data_refs' = data_refs /\ blocks' = blocks
    BY <1>1 DEF increment_data_block_ref_count, data_ref_size
  <2> QED BY <2>1, RowsUnchanged
<1>2. CASE <<o, d>> \notin data_refs
  BY Zenon, <1>2, AddReference DEF increment_data_block_ref_count, data_ref_size
<1> QED BY <1>1, <1>2

(* Every transaction of the data store keeps the counts. *)
LEMMA DataInvInductive == DataInv /\ [DataNext]_(dataVars) => DataInv'
<1> SUFFICES ASSUME DataInv, [DataNext]_(dataVars)
             PROVE  DataInv'
  OBVIOUS
<1>0. call \in [Callers -> CallRecord] /\ Idle \in CallRecord
  BY DEF DataInv, DataType, Idle, CallRecord
<1>1. ASSUME NEW c \in Callers, NEW o \in Owners, NEW d \in DataCids, Put(c, o, d)
      PROVE  DataInv'
  <2>1. CASE increment_data_block_ref_count(o, d) /\ UNCHANGED call
    BY <1>0, <2>1, IncrementOK
  <2>2. CASE /\ call' = [call EXCEPT ![c] = [op |-> "stream", owner |-> o, cid |-> d]]
             /\ UNCHANGED <<data_refs, blocks>>
    <3>1. [op |-> "stream", owner |-> o, cid |-> d] \in CallRecord
      BY DEF CallRecord
    <3>2. call' \in [Callers -> CallRecord]
      BY <1>0, <2>2, <3>1
    <3> QED BY <2>2, <3>2, RowsUnchanged
  <2> QED BY <1>1, <2>1, <2>2 DEF Put
<1>2. ASSUME NEW c \in Callers, NEW o \in Owners, NEW d \in DataCids, Delete(c, o, d)
      PROVE  DataInv'
  <2>1. call' \in [Callers -> CallRecord]
    BY <1>0, <1>2 DEF Delete
  <2>2. CASE <<o, d>> \in data_refs
    <3>1. data_refs' = data_refs \ {<<o, d>>} /\ blocks' = [blocks EXCEPT ![d] = @ - 1]
      BY <1>2, <2>2, CountedWhenHeld DEF Delete, data_ref_size, data_block_info
    <3>2. /\ \A x \in DataCids : IsFiniteSet(Holders(data_refs', x))
          /\ Cardinality(Holders(data_refs', d)) = Cardinality(Holders(data_refs, d)) - 1
          /\ \A x \in DataCids \ {d} : Holders(data_refs', x) = Holders(data_refs, x)
      BY Zenon, <2>2, <3>1, HoldersRemove DEF DataInv
    <3>3. DataType'
      BY <2>1, <2>2, <3>1, CountedWhenHeld DEF DataInv, DataType
    <3>4. \A x \in DataCids : blocks'[x] = Cardinality(Holders(data_refs', x))
      BY Zenon, <3>1, <3>2 DEF DataInv, DataType, RefCountsExact, Holders
    <3> QED BY <3>2, <3>3, <3>4 DEF DataInv, RefCountsExact, Holders
  <2>3. CASE <<o, d>> \notin data_refs
    <3>1. data_refs' = data_refs /\ blocks' = blocks
      BY <1>2, <2>3 DEF Delete, data_ref_size
    <3> QED BY <2>1, <3>1, RowsUnchanged
  <2> QED BY <2>2, <2>3
<1>3. ASSUME NEW c \in Callers, NEW o \in Owners, NEW d \in DataCids, Get(c, o, d)
      PROVE  DataInv'
  <2>1. [op |-> "get", owner |-> o, cid |-> d] \in CallRecord
    BY DEF CallRecord
  <2>2. call' \in [Callers -> CallRecord]
    BY <1>0, <1>3, <2>1 DEF Get
  <2> QED BY <1>3, <2>2, RowsUnchanged DEF Get
<1>4. ASSUME NEW c \in Callers, PutBlock(c)
      PROVE  DataInv'
  <2> DEFINE o == call[c].owner
             d == call[c].cid
  <2>1. o \in Owners /\ d \in DataCids
    BY <1>0, <1>4 DEF PutBlock, CallRecord
  <2>2. call' \in [Callers -> CallRecord]
    BY <1>0, <1>4 DEF PutBlock
  <2>3. \/ increment_data_block_ref_count(o, d)
        \/ /\ ~ data_ref_size(o, d) /\ ~ data_block_info(d)
           /\ blocks' = [blocks EXCEPT ![d] = 1]
           /\ data_refs' = data_refs \cup {<<o, d>>}
    BY <1>4 DEF PutBlock
  <2> HIDE DEF o, d
  <2>4. CASE /\ ~ data_ref_size(o, d) /\ ~ data_block_info(d)
             /\ blocks' = [blocks EXCEPT ![d] = 1]
             /\ data_refs' = data_refs \cup {<<o, d>>}
    <3>1. blocks[d] = 0 /\ <<o, d>> \notin data_refs
      BY <2>1, <2>4, CountedWhenHeld DEF data_ref_size, data_block_info
    <3>2. blocks' = [blocks EXCEPT ![d] = @ + 1]
      BY <2>1, <2>4, <3>1
    <3> QED BY Zenon, <2>1, <2>2, <2>4, <3>1, <3>2, AddReference
  <2> QED BY <2>1, <2>2, <2>3, <2>4, IncrementOK
<1>5. ASSUME NEW c \in Callers, PutDropped(c) \/ GetBlock(c)
      PROVE  DataInv'
  <2>1. call' \in [Callers -> CallRecord]
    BY <1>0, <1>5 DEF PutDropped, GetBlock
  <2> QED BY <1>5, <2>1, RowsUnchanged DEF PutDropped, GetBlock
<1>6. ASSUME NEW c \in Callers, Clear(c)
      PROVE  DataInv'
  <2>1. data_refs' = {} /\ blocks' = [d \in DataCids |-> 0] /\ call' = call
    BY <1>6 DEF Clear
  <2>2. \A d \in DataCids : Holders({}, d) = {}
    BY DEF Holders
  <2> QED BY Zenon, <1>0, <2>1, <2>2, FS_EmptySet DEF DataInv, DataType, RefCountsExact, Holders
<1>7. CASE UNCHANGED dataVars
  BY <1>0, <1>7, RowsUnchanged DEF dataVars
<1> QED BY <1>1, <1>2, <1>3, <1>4, <1>5, <1>6, <1>7 DEF DataNext

(* A new store has neither blocks nor references. *)
LEMMA DataInvInit == DataInit => DataInv
<1>1. Idle \in CallRecord
  BY DEF Idle, CallRecord
<1>2. \A d \in DataCids : Holders({}, d) = {}
  BY DEF Holders
<1> QED BY <1>1, <1>2, FS_EmptySet DEF DataInit, DataInv, DataType, RefCountsExact, Holders

(* However puts, deletes, gets and clears of any number of callers are     *)
(* interleaved, and wherever a caller gives up its upload, ref_count is    *)
(* the number of records that hold the block.                              *)
THEOREM RefCountsAlwaysExact == DataSpec => []RefCountsExact
<1>1. DataInv => RefCountsExact
  BY DEF DataInv
<1> QED BY <1>1, DataInvInit, DataInvInductive, PTL DEF DataSpec

-----------------------------------------------------------------------------
(* The resumable task store.  What RegisteredSurvives needs is a fact      *)
(* about deletes on their way to the table: a task such a delete will      *)
(* remove is neither promised nor in the map, unless it was registered     *)
(* again meanwhile, which is what tangled records.                         *)

DeletesAreOfNothingPromised ==
    \A i \in TaskIds : Deleting(i) => i \in tangled \/ (i \notin promised /\ i \notin DOMAIN tasks)

TaskInv ==
    /\ step = [c \in TaskCallers |-> step[c]]
    /\ promised \subseteq TaskIds
    /\ \A c \in TaskCallers : step[c].op \in {"register", "grab", "extend", "reread"} => step[c].id \in TaskIds
    /\ DeletesAreOfNothingPromised
    /\ RegisteredSurvives

(* An operation that replaces the caller's step by one that is no delete   *)
(* begins no delete.                                                       *)
LEMMA NoNewDelete ==
    ASSUME TaskInv, NEW c \in TaskCallers, NEW x, x.op # "delete", step' = [step EXCEPT ![c] = x],
           NEW i, Deleting(i)'
    PROVE  Deleting(i)
  BY DEF Deleting, TaskInv

(* A registration, a grab or an extension on its way to the table, which   *)
(* leaves the domain of the map alone or adds the task it registers.       *)
LEMMA PersistingOK ==
    ASSUME TaskInv, NEW c \in TaskCallers, NEW op \in {"register", "grab", "extend"}, NEW i \in TaskIds, NEW x,
           Persisting(c, op, i, x), DOMAIN tasks' \subseteq DOMAIN tasks \cup {i},
           task_rows' = task_rows, promised' = promised
    PROVE  TaskInv'
<1> DEFINE new == [op |-> op, id |-> i, row |-> x]
<1>1. step' = [step EXCEPT ![c] = new] /\ new.op # "delete" /\ new.id = i
  BY DEF Persisting
<1>2. tangled' = IF Deleting(i) THEN tangled \cup {i} ELSE tangled
  BY DEF Persisting
<1> HIDE DEF new
<1>3. /\ step' = [d \in TaskCallers |-> step'[d]]
      /\ \A d \in TaskCallers :
            step'[d].op \in {"register", "grab", "extend", "reread"} => step'[d].id \in TaskIds
  BY <1>1 DEF TaskInv
<1>4. DeletesAreOfNothingPromised'
  <2> SUFFICES ASSUME NEW j \in TaskIds, Deleting(j)'
               PROVE  j \in tangled' \/ (j \notin promised' /\ j \notin DOMAIN tasks')
    BY DEF DeletesAreOfNothingPromised
  <2>1. Deleting(j)
    BY Zenon, <1>1, NoNewDelete
  <2> QED BY <1>2, <2>1 DEF TaskInv, DeletesAreOfNothingPromised
<1>5. RegisteredSurvives'
  BY <1>2 DEF TaskInv, RegisteredSurvives
<1> QED BY <1>3, <1>4, <1>5 DEF TaskInv

(* A step that ends the caller's operation: what it promises is in the     *)
(* map, so no delete is on its way to it.                                  *)
LEMMA ReturnOK ==
    ASSUME TaskInv, NEW c \in TaskCallers, step' = [step EXCEPT ![c] = Rest],
           UNCHANGED <<tasks, tangled>>,
           promised' \subseteq promised \cup (DOMAIN tasks \cap TaskIds),
           RegisteredSurvives'
    PROVE  TaskInv'
<1>1. \A j : Deleting(j)' => Deleting(j)
  BY Zenon, NoNewDelete DEF Rest
<1>2. DeletesAreOfNothingPromised'
  BY <1>1 DEF TaskInv, DeletesAreOfNothingPromised
<1> QED BY <1>2 DEF TaskInv, Rest

(* Every operation of the task store, and a restart between its two steps, *)
(* keeps the invariant.                                                    *)
LEMMA TaskInvInductive == TaskInv /\ [TaskNext]_taskVars => TaskInv'
<1> SUFFICES ASSUME TaskInv, [TaskNext]_taskVars
             PROVE  TaskInv'
  OBVIOUS
<1>1. ASSUME NEW c \in TaskCallers, NEW i \in TaskIds, Register(c, i)
      PROVE  TaskInv'
  <2> DEFINE x == [timeout |-> clock + Lease, retry_count |-> 0]
  <2>1. Persisting(c, "register", i, x) /\ tasks' = With(tasks, i, x)
    BY <1>1 DEF Register
  <2>2. DOMAIN tasks' \subseteq DOMAIN tasks \cup {i}
    BY <2>1 DEF With
  <2> QED BY <1>1, <2>1, <2>2, PersistingOK DEF Register
<1>2. ASSUME NEW c \in TaskCallers, NEW i \in TaskIds, Grab(c, i)
      PROVE  TaskInv'
  <2> DEFINE x == [timeout |-> clock + Lease, retry_count |-> tasks[i].retry_count + 1]
  <2>1. Persisting(c, "grab", i, x) /\ tasks' = With(tasks, i, x)
    BY <1>2 DEF Grab
  <2>2. DOMAIN tasks' \subseteq DOMAIN tasks \cup {i}
    BY <2>1 DEF With
  <2> QED BY <1>2, <2>1, <2>2, PersistingOK DEF Grab
<1>3. ASSUME NEW c \in TaskCallers, NEW i \in TaskIds, Extend(c, i)
      PROVE  TaskInv'
  <2> DEFINE x == [op |-> "reread", id |-> i]
  <2>1. step' = [step EXCEPT ![c] = x] /\ x.op # "delete" /\ x.id = i
    BY <1>3 DEF Extend
  <2>2. DOMAIN tasks' = DOMAIN tasks /\ UNCHANGED <<task_rows, promised, tangled>>
    BY <1>3 DEF Extend
  <2> HIDE DEF x
  <2>3. \A j : Deleting(j)' => Deleting(j)
    BY Zenon, <2>1, NoNewDelete
  <2>4. DeletesAreOfNothingPromised'
    BY <2>2, <2>3 DEF TaskInv, DeletesAreOfNothingPromised
  <2> QED BY <2>1, <2>2, <2>4 DEF TaskInv, RegisteredSurvives
<1>4. ASSUME NEW c \in TaskCallers, NEW ids, Remove(c, ids)
      PROVE  TaskInv'
  <2> DEFINE x == [op |-> "delete", ids |-> ids]
  <2>1. step' = [step EXCEPT ![c] = x] /\ x.op = "delete" /\ x.ids = ids
    BY <1>4 DEF Remove
  <2>2. /\ DOMAIN tasks' = DOMAIN tasks \ ids
        /\ promised' = promised \ ids
        /\ UNCHANGED <<task_rows, tangled>>
    BY <1>4 DEF Remove, Without
  <2> HIDE DEF x
  <2>3. \A j : Deleting(j)' => Deleting(j) \/ j \in ids
    BY <2>1 DEF TaskInv, Deleting
  <2>4. DeletesAreOfNothingPromised'
    BY <2>2, <2>3 DEF TaskInv, DeletesAreOfNothingPromised
  <2> QED BY <2>1, <2>2, <2>4 DEF TaskInv, RegisteredSurvives
<1>5. ASSUME NEW c \in TaskCallers, ExtendRead(c)
      PROVE  TaskInv'
  <2>1. CASE step[c].id \in DOMAIN tasks
    <3> DEFINE i == step[c].id
    <3>1. Persisting(c, "extend", i, tasks[i]) /\ UNCHANGED <<tasks, task_rows, promised>>
      BY <1>5, <2>1 DEF ExtendRead
    <3>2. i \in TaskIds
      BY <1>5 DEF ExtendRead, TaskInv
    <3> HIDE DEF i
    <3> QED BY <3>1, <3>2, PersistingOK
  <2>2. CASE step[c].id \notin DOMAIN tasks
    <3>1. step' = [step EXCEPT ![c] = Rest] /\ UNCHANGED <<tasks, task_rows, promised, tangled>>
      BY <1>5, <2>2 DEF ExtendRead
    <3> QED BY <3>1, ReturnOK DEF TaskInv, RegisteredSurvives
  <2> QED BY <2>1, <2>2
<1>6. ASSUME NEW c \in TaskCallers, PersistTask(c)
      PROVE  TaskInv'
  <2> DEFINE i == step[c].id
  <2>1. /\ DOMAIN task_rows' = DOMAIN task_rows \cup {i}
        /\ promised' \subseteq promised \cup ({i} \cap DOMAIN tasks)
        /\ step' = [step EXCEPT ![c] = Rest]
        /\ UNCHANGED <<tasks, tangled>>
    BY <1>6 DEF PersistTask, With
  <2>2. i \in TaskIds
    BY <1>6 DEF PersistTask, TaskInv
  <2> HIDE DEF i
  <2>3. RegisteredSurvives'
    BY <2>1 DEF TaskInv, RegisteredSurvives
  <2> QED BY Zenon, <2>1, <2>2, <2>3, ReturnOK
<1>7. ASSUME NEW c \in TaskCallers, DeleteRow(c)
      PROVE  TaskInv'
  <2>1. /\ DOMAIN task_rows' = DOMAIN task_rows \ step[c].ids
        /\ step' = [step EXCEPT ![c] = Rest]
        /\ UNCHANGED <<tasks, promised, tangled>>
    BY <1>7 DEF DeleteRow, Without
  <2>2. \A i \in step[c].ids : Deleting(i)
    BY <1>7 DEF DeleteRow, Deleting
  <2>3. \A i \in promised \ tangled : i \notin step[c].ids
    BY <2>2 DEF TaskInv, DeletesAreOfNothingPromised
  <2>4. RegisteredSurvives'
    BY <2>1, <2>3 DEF TaskInv, RegisteredSurvives
  <2> QED BY Zenon, <2>1, <2>4, ReturnOK
<1>8. CASE Tick
  BY <1>8 DEF Tick, TaskInv, DeletesAreOfNothingPromised, Deleting, RegisteredSurvives
<1>9. CASE Restart
  <2>1. step' = [c \in TaskCallers |-> Rest] /\ UNCHANGED <<task_rows, promised, tangled>>
    BY <1>9 DEF Restart
  <2>2. \A i : ~ Deleting(i)'
    BY <2>1 DEF Deleting, Rest
  <2> QED BY <2>1, <2>2 DEF TaskInv, DeletesAreOfNothingPromised, RegisteredSurvives, Rest
<1>10. CASE UNCHANGED taskVars
  BY <1>10 DEF taskVars, TaskInv, DeletesAreOfNothingPromised, Deleting, RegisteredSurvives
<1> QED
  BY Zenon, <1>1, <1>2, <1>3, <1>4, <1>5, <1>6, <1>7, <1>8, <1>9, <1>10
     DEF TaskNext, DeleteTask, ClearTasks

(* A new store holds no task and no caller is in an operation. *)
LEMMA TaskInvInit == TaskInit => TaskInv
  BY DEF TaskInit, Rest, TaskInv, DeletesAreOfNothingPromised, Deleting,
         RegisteredSurvives

(* A task whose register returned is in the table until someone deletes    *)
(* it, for any number of callers and crashes.                              *)
THEOREM RegisteredAlwaysSurvives == TaskSpec => []RegisteredSurvives
<1>1. TaskInv => RegisteredSurvives
  BY DEF TaskInv
<1> QED BY <1>1, TaskInvInit, TaskInvInductive, PTL DEF TaskSpec

=============================================================================
