----------------------------- MODULE DataBlocks -----------------------------
(***************************************************************************)
(* The SQLite data store (sqlite/data_store.rs): one block per data CID,   *)
(* shared by reference count between the records that hold it.             *)
(*                                                                         *)
(* A put looks for the reference and the block in one transaction, reads   *)
(* the caller's stream when neither is there, and looks again in a second  *)
(* transaction before it stores the block: other calls run in between.  A  *)
(* get reads the reference and the block in two statements of no common    *)
(* transaction.                                                            *)
(***************************************************************************)
EXTENDS Naturals, FiniteSets

CONSTANTS
    Owners,          \* (tenant, record id) pairs
    DataCids,        \* data CIDs
    Callers,         \* calls in progress at once
    MaxCalls         \* calls made

VARIABLES
    data_refs,       \* the (owner, CID) rows
    blocks,          \* the data_blocks rows: CID -> ref_count, 0 for no row
    call,            \* caller -> the call it is in
    calls            \* calls started

dataVars == <<data_refs, blocks, call, calls>>

Idle == [op |-> "idle"]

DataInit ==
    /\ data_refs = {}
    /\ blocks = [d \in DataCids |-> 0]
    /\ call = [c \in Callers |-> Idle]
    /\ calls = 0

Begin(c) ==
    /\ call[c].op = "idle" /\ calls < MaxCalls
    /\ calls' = calls + 1

(* data_ref_size: the reference exists. *)
data_ref_size(o, d) == <<o, d>> \in data_refs

(* data_block_info: the block exists. *)
data_block_info(d) == blocks[d] > 0

(* The part both transactions of a put share: nothing for a reference that *)
(* exists, one more reference to a block that exists.                      *)
increment_data_block_ref_count(o, d) ==
    /\ data_ref_size(o, d) \/ data_block_info(d)
    /\ data_refs' = data_refs \cup {<<o, d>>}
    /\ blocks' = IF data_ref_size(o, d) THEN blocks ELSE [blocks EXCEPT ![d] = @ + 1]

Put(c, o, d) ==
    /\ Begin(c)
    /\ \/ /\ increment_data_block_ref_count(o, d)
          /\ UNCHANGED call
       \/ /\ ~ data_ref_size(o, d) /\ ~ data_block_info(d)
          /\ call' = [call EXCEPT ![c] = [op |-> "stream", owner |-> o, cid |-> d]]
          /\ UNCHANGED <<data_refs, blocks>>

(* Variant with a fault: what the first transaction found is still used    *)
(* after the stream has been read.                                         *)
PutBlock_Stale(c) ==
    /\ call[c].op = "stream"
    /\ LET o == call[c].owner  d == call[c].cid
       IN  blocks' = [blocks EXCEPT ![d] = 1] /\ data_refs' = data_refs \cup {<<o, d>>}
    /\ call' = [call EXCEPT ![c] = Idle]
    /\ UNCHANGED calls

(* The stream is read (collect_stream); the second transaction looks again *)
(* and inserts the block and its first reference.                          *)
PutBlock(c) ==
    /\ call[c].op = "stream"
    /\ LET o == call[c].owner  d == call[c].cid
       IN  \/ increment_data_block_ref_count(o, d)
           \/ /\ ~ data_ref_size(o, d) /\ ~ data_block_info(d)
              /\ blocks' = [blocks EXCEPT ![d] = 1]
              /\ data_refs' = data_refs \cup {<<o, d>>}
    /\ call' = [call EXCEPT ![c] = Idle]
    /\ UNCHANGED calls

(* The caller goes away while its stream is read. *)
PutDropped(c) ==
    /\ call[c].op = "stream"
    /\ call' = [call EXCEPT ![c] = Idle]
    /\ UNCHANGED <<data_refs, blocks, calls>>

Delete(c, o, d) ==
    /\ Begin(c)
    /\ data_refs' = data_refs \ {<<o, d>>}
    /\ blocks' = IF data_ref_size(o, d) /\ data_block_info(d) THEN [blocks EXCEPT ![d] = @ - 1] ELSE blocks
    /\ UNCHANGED call

Get(c, o, d) ==
    /\ Begin(c)
    /\ call' = [call EXCEPT ![c] =
         IF data_ref_size(o, d) THEN [op |-> "get", owner |-> o, cid |-> d] ELSE Idle]
    /\ UNCHANGED <<data_refs, blocks>>

(* The second statement of get: the block, or nothing. *)
GetBlock(c) ==
    /\ call[c].op = "get"
    /\ call' = [call EXCEPT ![c] = Idle]
    /\ UNCHANGED <<data_refs, blocks, calls>>

Clear(c) ==
    /\ Begin(c)
    /\ data_refs' = {}
    /\ blocks' = [d \in DataCids |-> 0]
    /\ UNCHANGED call

DataNext ==
    \E c \in Callers :
        \/ \E o \in Owners, d \in DataCids : Put(c, o, d) \/ Delete(c, o, d) \/ Get(c, o, d)
        \/ PutBlock(c) \/ PutDropped(c) \/ GetBlock(c) \/ Clear(c)

DataSpec == DataInit /\ [][DataNext]_dataVars

-----------------------------------------------------------------------------
(* Puts, deletes and clears of any records in any interleaving keep the    *)
(* count of a block equal to the references to it: a block is never freed  *)
(* while a record still refers to it and never outlives the last one.      *)
RefCountsExact ==
    \A d \in DataCids : blocks[d] = Cardinality({o \in Owners : <<o, d>> \in data_refs})

=============================================================================
