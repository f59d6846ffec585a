---------------------------- MODULE MCTxGrouping ----------------------------
(***************************************************************************)
(* A block with one transaction of each kind: "in" comes from the other    *)
(* shard, "out" goes there, "inv" is invalid; and a reward.  The pool has  *)
(* up to three results, which come from any of them, from one another or   *)
(* from another block, succeed or not, and one of which may refund gas.    *)
(***************************************************************************)
EXTENDS TxGrouping

Transactions == {"in", "out", "inv"}
Results == {"s1", "s2", "s3"}
Reward == {"reward"}
OfHash == [in |-> "carol", out |-> "alice", inv |-> "alice"]
ToHash == [in |-> "bob", out |-> "carol", inv |-> "dave", reward |-> "bob",
           s1 |-> "alice", s2 |-> "carol", s3 |-> "eve"]
ShardOfAddress == [a \in {"alice", "bob", "carol", "dave", "eve"} |->
                     IF a = "carol" THEN "other" ELSE "own"]

Body == <<[type |-> "TxBlock", from |-> "other", to |-> "own", hashes |-> {"in"}],
          [type |-> "TxBlock", from |-> "own", to |-> "other", hashes |-> {"out"}],
          [type |-> "InvalidBlock", from |-> "own", to |-> "own", hashes |-> {"inv"}],
          [type |-> "PeerBlock", from |-> "other", to |-> "all", hashes |-> {}],
          [type |-> "RewardsBlock", from |-> "other", to |-> "own", hashes |-> {"reward"}]>>

\* s1 comes from a transaction, the others also from a result or another block.
Origins ==
  {o \in [Results -> Transactions \cup Results \cup {"elsewhere"}] :
     /\ o["s1"] \in Transactions
     /\ o["s2"] # "s2"
     /\ o["s3"] \in Transactions \cup {"s1", "s2"}
     /\ o["s2"] = "s3" => o["s3"] # "s2"}

Everything == Transactions \cup Results \cup Reward

\* Result r, if it is ok, refunds the transaction it comes from.
Refunds(o, ok, r) ==
  [s \in Results |-> IF s = r /\ r \in ok /\ o[r] \in Transactions THEN o[r] ELSE "elsewhere"]

\* A pool without s1 is that of a node in import mode.
BlocksAndPools ==
  {[body |-> Body, pool |-> IF import THEN Everything \ {"s1"} ELSE Everything,
    import |-> import, original |-> o, successful |-> ok, refunds |-> Refunds(o, ok, r),
    special |-> special, size |-> [h \in Transactions \cup Reward |-> 1]] :
     import \in BOOLEAN, special \in {{}, {"in"}}, o \in Origins,
     ok \in SUBSET Results, r \in Results}
=============================================================================
