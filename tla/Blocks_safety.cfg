CONSTANTS
  s0 = s0
  s1 = s1
  a1 = a1
  a2 = a2
  b1 = b1
  cross = cross
  intra = intra
  peer = peer
  Shards <- TwoShards
  Blocks <- ForkBlocks
  Miniblocks <- AllMiniblocks
  shardOf <- ShardOf
  shardId <- ShardId
  nonceOf <- NonceOf
  MetachainShardId = 4095
  MaxUint64 = 184467
  MaxShard = 81
  MaxNonce = 999
  body <- Body
  sender <- Sender
  receiver <- Receiver
  AllShards = AllShards
  PeerMiniblocks = {peer}
  NoBlock = NoBlock
  MaxItems <- ThreeAndTwoItems
  MaxRestarts = 1
  DocumentErrors = TRUE
  EnabledIndexes <- AllIndexes
SPECIFICATION Spec
INVARIANTS
  TypeOK
  HeadersIndexed
  HashesInTheirPlace
  SentMiniblocksIndexed
  SearchOrderSeparates
