CONSTANTS
  alice = alice
  bob = bob
  b1 = b1
  b2 = b2
  Genesis = Genesis
  Nothing = Nothing
  Addresses <- TwoAddresses
  Blocks <- TwoBlocks
  alters <- AltersOf
  HandedOver <- OnlyAlice
  MaxCalls = 1
  MaxRestarts = 1
  EnabledIndexes <- ThreeIndexes
SPECIFICATION FairSpec
CHECK_DEADLOCK FALSE
INVARIANTS
  TypeOK
  HistoryAgrees
  HistoryNotEarlier
  CaughtUp
PROPERTY EventuallyCaughtUp
