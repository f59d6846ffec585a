CONSTANTS
  Txs <- Transactions
  Rewards <- Reward
  Scrs <- Results
  Elsewhere = "elsewhere"
  Addresses = {"alice", "bob", "carol", "dave", "eve"}
  Shards = {"own", "other"}
  SelfShard = "own"
  AllShards = "all"
  ShardOf <- ShardOfAddress
  sender <- OfHash
  receiver <- ToHash
  Inputs <- BlocksAndPools
  Threshold = 3
SPECIFICATION Spec
CHECK_DEADLOCK FALSE
INVARIANTS
  TypeOK
  ResultsAttachedOnce
  OutcomeOfTheBlock
  DocumentsOfTheBlock
  AlteredAddressesComplete
  BuffersComplete
