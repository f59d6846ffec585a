------------------------- MODULE MiniblockDocuments -------------------------
(***************************************************************************)
(* The miniblocks of a block as the node of its shard sees them, and what  *)
(* a write for the block makes of their documents (dataParser.go,          *)
(* common.go).  Of a document only the block hashes are kept.              *)
(***************************************************************************)
CONSTANTS
  Blocks,           \* header hashes
  Miniblocks,       \* miniblock hashes
  shardOf,          \* shardOf[b]: shard of block b
  body,             \* body[b]: miniblocks of block b
  sender,           \* sender[m], receiver[m]: shards of miniblock m
  receiver,
  PeerMiniblocks,   \* miniblocks of type PeerBlock
  NoBlock           \* an empty block hash

Item == [op : {"save", "remove"}, block : Blocks]
NoItem == [op |-> "none", block |-> NoBlock]

Cross(m) == sender[m] # receiver[m]

NoDoc == [senderBlockHash |-> NoBlock, receiverBlockHash |-> NoBlock, exists |-> FALSE]
Doc(from, to) == [senderBlockHash |-> from, receiverBlockHash |-> to, exists |-> TRUE]

\* getMiniblocks: the document a block writes for one of its miniblocks.
MiniblockOf(b, m) ==
  Doc(IF sender[m] = shardOf[b] THEN b ELSE NoBlock,
      IF sender[m] # shardOf[b] \/ ~Cross(m) THEN b ELSE NoBlock)

\* Mutation: the two branches of the update swapped.
WrittenSwapped(b, m, exists, doc) ==
  IF ~exists THEN MiniblockOf(b, m)
  ELSE IF ~doc.exists THEN doc
  ELSE IF shardOf[b] # sender[m]
       THEN [doc EXCEPT !.senderBlockHash = MiniblockOf(b, m).senderBlockHash]
       ELSE [doc EXCEPT !.receiverBlockHash = MiniblockOf(b, m).receiverBlockHash]

\* serializeBulkMiniBlocks: insert what the multi get did not find, update one
\* hash of what it found.  An update of a missing document has no effect.
Written(b, m, exists, doc) ==
  IF ~exists THEN MiniblockOf(b, m)
  ELSE IF ~doc.exists THEN doc
  ELSE IF shardOf[b] = sender[m]
       THEN [doc EXCEPT !.senderBlockHash = MiniblockOf(b, m).senderBlockHash]
       ELSE [doc EXCEPT !.receiverBlockHash = MiniblockOf(b, m).receiverBlockHash]

\* Mutation: what this shard received is removed as well.
RemovableReceived(b) == body[b] \ PeerMiniblocks

\* RemoveMiniblocks skips peer miniblocks and those this shard received.
Removable(b) ==
  {m \in body[b] : m \notin PeerMiniblocks /\ ~(receiver[m] = shardOf[b] /\ Cross(m))}
=============================================================================
