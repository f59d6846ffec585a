------------------------ MODULE TransactionDocuments ------------------------
(***************************************************************************)
(* The transactions of a block as the node of its shard sees them, and     *)
(* what a write for the block makes of their documents (common.go).  A     *)
(* document is abstracted to the block its insert came from and to the     *)
(* block its status, miniBlockHash, log, scResults, timestamp, gasUsed and *)
(* fee come from.                                                          *)
(***************************************************************************)
CONSTANTS
  Blocks,
  Txs,
  shardOf,          \* shardOf[b]: shard of block b
  txsOf,            \* txsOf[b]: transactions in the miniblocks of block b
  invalidIn,        \* invalidIn[b]: those of them in miniblocks of type InvalidBlock
  sender,           \* sender[t], receiver[t]: shards of transaction t
  receiver,
  NoBlock,
  EnabledAt,        \* the shards whose nodes have the index "transactions" enabled
  IsInImportMode    \* import-db mode

Cross(t) == sender[t] # receiver[t]

NeverInvalid(t) == \A b \in Blocks : t \notin invalidIn[b]

\* What the node of b's shard writes for it: nothing if it does not index
\* transactions (SaveTransactions), and in import-db mode not what goes to other
\* shards, but for invalid transactions (groupNormalTxsAndRewards, shouldIndex).
ToIndex(b) ==
  {t \in txsOf[b] :
     /\ shardOf[b] \in EnabledAt
     /\ IsInImportMode => receiver[t] = shardOf[b] \/ t \in invalidIn[b]}

\* isIntraShardOrInvalid and isCrossShardDstMe, for the node that indexes b.
IntraShardOrInvalid(b, t) ==
  (~Cross(t) /\ receiver[t] = shardOf[b]) \/ t \in invalidIn[b]
CrossShardDstMe(b, t) == Cross(t) /\ receiver[t] = shardOf[b]

-----------------------------------------------------------------------------
Doc == [inserted : Blocks \cup {NoBlock}, fields : Blocks \cup {NoBlock}]

NoDoc == [inserted |-> NoBlock, fields |-> NoBlock]
InsertedBy(b) == [inserted |-> b, fields |-> b]

\* Mutation: the source shard updates the fields like the destination.
WrittenBySourceToo(b, t, doc) ==
  IF IntraShardOrInvalid(b, t) \/ doc = NoDoc THEN InsertedBy(b)
  ELSE [doc EXCEPT !.fields = b]

\* Mutation: an intra-shard transaction is upserted, not overwritten.
WrittenWithoutOverwrite(b, t, doc) ==
  IF doc = NoDoc THEN InsertedBy(b)
  ELSE IF CrossShardDstMe(b, t) THEN [doc EXCEPT !.fields = b]
  ELSE doc

\* prepareSerializedDataForATransaction: overwrite, upsert that updates the
\* fields, or upsert that updates nothing.
Written(b, t, doc) ==
  IF IntraShardOrInvalid(b, t) \/ doc = NoDoc THEN InsertedBy(b)
  ELSE IF CrossShardDstMe(b, t) THEN [doc EXCEPT !.fields = b]
  ELSE doc
=============================================================================
