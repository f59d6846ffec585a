------------------------- MODULE TransactionsIndex -------------------------
(***************************************************************************)
(* What the indexers promise whoever reads the transactions in the         *)
(* database, with no queue, bulk, failure or retry in sight.  The node of  *)
(* a shard indexes one block at a time.  While it does, it may write the   *)
(* documents of that block, any of them and any number of times, and each  *)
(* write is one of the three of prepareSerializedDataForATransaction.  It  *)
(* reports the block as indexed only when every document shows it; or the  *)
(* node is lost, and has reported nothing.  The module TxIndexing is the   *)
(* implementation.                                                         *)
(***************************************************************************)
EXTENDS TransactionDocuments

CONSTANT Shards

VARIABLES
  docs,             \* docs[t]: the document of t in the "transactions" index
  current,          \* current[s]: the block the node of s is indexing, or NoBlock
  reported          \* reported[s][t]: the last block with t that it has indexed

vars == <<docs, current, reported>>

\* Nobody else has a say in an intra-shard transaction; the fields of one from
\* elsewhere are those of its receiver, whatever the sender's node writes.
Shows(b, t) ==
  /\ docs[t] # NoDoc
  /\ ~Cross(t) => docs[t] = InsertedBy(b)
  /\ CrossShardDstMe(b, t) /\ NeverInvalid(t) => docs[t].fields = b

Init ==
  /\ docs = [t \in Txs |-> NoDoc]
  /\ current = [s \in Shards |-> NoBlock]
  /\ reported = [s \in Shards |-> [t \in Txs |-> NoBlock]]

Begin(s) ==
  /\ current[s] = NoBlock
  /\ \E b \in Blocks : shardOf[b] = s /\ current' = [current EXCEPT ![s] = b]
  /\ UNCHANGED <<docs, reported>>

\* Any of the documents of its block are written.
WriteSome(s) ==
  /\ docs' \in [Txs -> Doc]
  /\ \A t \in Txs :
       \/ docs'[t] = docs[t]
       \/ t \in ToIndex(current[s]) /\ docs'[t] = Written(current[s], t, docs[t])

Write(s) ==
  /\ current[s] # NoBlock
  /\ UNCHANGED <<current, reported>>
  /\ WriteSome(s)

Report(s) ==
  /\ current[s] # NoBlock
  /\ \A t \in ToIndex(current[s]) : Shows(current[s], t)
  /\ reported' = [reported EXCEPT ![s] =
       [t \in Txs |-> IF t \in ToIndex(current[s]) THEN current[s] ELSE @[t]]]
  /\ current' = [current EXCEPT ![s] = NoBlock]
  /\ UNCHANGED docs

\* The last writes of a node may come after it.
Lose(s) ==
  /\ current[s] # NoBlock
  /\ current' = [current EXCEPT ![s] = NoBlock]
  /\ WriteSome(s)
  /\ UNCHANGED reported

Next == \E s \in Shards : Begin(s) \/ Write(s) \/ Report(s) \/ Lose(s)

Spec == Init /\ [][Next]_vars
=============================================================================
