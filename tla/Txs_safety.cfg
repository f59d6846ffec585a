CONSTANTS
  s0 = s0
  s1 = s1
  a1 = a1
  a2 = a2
  b1 = b1
  b2 = b2
  cross = cross
  intra = intra
  turned = turned
  Shards <- TwoShards
  Blocks <- ForkBlocks
  Txs <- AllTxs
  shardOf <- ShardOf
  txsOf <- TxsOf
  invalidIn <- InvalidIn
  sender <- Sender
  receiver <- Receiver
  EnabledAt <- TwoShards
  NoBlock = NoBlock
  MaxItems = 2
  MaxRestarts = 1
  IsInImportMode = FALSE
  ItemConflicts = FALSE
SPECIFICATION Spec
INVARIANTS
  TypeOK
  ExecutedFieldsKept
  ForkRewritesIntraShard
PROPERTY
  ImplementsTransactionsIndex
\* The indexers are idle when MaxItems blocks of each node are indexed.
CHECK_DEADLOCK FALSE
