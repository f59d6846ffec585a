--------------------------- MODULE MCBlockIndexing --------------------------
(***************************************************************************)
(* Shards s0 and s1.  s0 may commit a1 or a2, or one after the other is    *)
(* reverted; both hold the miniblock `cross` to s1 and the intra-shard     *)
(* miniblock `intra`, and a1 a peer miniblock.  s1 includes `cross` in b1. *)
(* The nonces have one digit and two, which the search order must level.   *)
(***************************************************************************)
EXTENDS BlockIndexing, TLC

CONSTANTS s0, s1, a1, a2, b1, cross, intra, peer

TwoShards == {s0, s1}
ForkBlocks == {a1, a2, b1}
ShardOf == [b \in Blocks |-> IF b \in {a1, a2} THEN s0 ELSE s1]
Body == [b \in Blocks |-> Miniblocks \cap (CASE b = a1 -> {cross, intra, peer}
                                             [] b = a2 -> {cross, intra}
                                             [] OTHER -> {cross})]
Sender == [m \in Miniblocks |-> s0]
Receiver == [m \in Miniblocks |-> CASE m = cross -> s1
                                    [] m = intra -> s0
                                    [] OTHER -> AllShards]
AllMiniblocks == {cross, intra, peer}
TwoItems == [s \in Shards |-> 2]
ThreeAndTwoItems == [s \in Shards |-> IF s = s0 THEN 3 ELSE 2]
ThreeItems == [s \in Shards |-> 3]
AllIndexes == {"blocks", "miniblocks", "transactions"}

\* Without the second digit of the shard, a1 and b1 would have the same order.
ShardId == [s \in Shards |-> IF s = s0 THEN 9 ELSE MetachainShardId]
NonceOf == [b \in Blocks |-> CASE b = a1 -> 5
                               [] b = a2 -> 10
                               [] OTHER -> 15]

ASSUME WidthsAssumption == WidthsFit
=============================================================================
