---------------------------- MODULE MCTxIndexing ----------------------------
(***************************************************************************)
(* Shards s0 and s1.  s0 may commit a1 or, after a fork, a2 in its place,  *)
(* with the transactions `cross` to s1 and `intra`, and `turned`, which is *)
(* invalid in a1 and valid, and sent to s1, in a2.  s1 includes what it    *)
(* received in b1 or, after a fork, in b2.                                 *)
(***************************************************************************)
EXTENDS TxIndexing

CONSTANTS s0, s1, a1, a2, b1, b2, cross, intra, turned

TwoShards == {s0, s1}
ForkBlocks == {a1, a2, b1, b2}
ShardOf == [b \in Blocks |-> IF b \in {a1, a2} THEN s0 ELSE s1]
TxsOf == [b \in Blocks |-> Txs \cap (CASE b \in {a1, a2} -> {cross, intra, turned}
                                       [] b = b1 -> {cross}
                                       [] b = b2 -> {cross, turned})]
InvalidIn == [b \in Blocks |-> Txs \cap (IF b = a1 THEN {turned} ELSE {})]
Sender == [t \in Txs |-> s0]
Receiver == [t \in Txs |-> IF t = intra THEN s0 ELSE s1]
AllTxs == {cross, intra, turned}
=============================================================================
