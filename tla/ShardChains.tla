---------------------------- MODULE ShardChains -----------------------------
(***************************************************************************)
(* The nodes' blockchains, as far as they restrict what the indexers are   *)
(* asked to index.  This is not code of the repository: it is the order in *)
(* which a node calls SaveBlock and RevertIndexedBlock.                    *)
(*                                                                         *)
(* Blocks carry parcels (miniblocks, or transactions) from a sender shard  *)
(* to a receiver shard.  A parcel is on the chain of a shard at most once, *)
(* so a second block that carries it replaces a reverted one.  A receiver  *)
(* includes only what is on the sender's chain, and a sender does not      *)
(* revert what a receiver has built upon.                                  *)
(***************************************************************************)
EXTENDS Naturals, Sequences

CONSTANTS
  Shards,
  Blocks,
  Parcels,
  shardOf,          \* shardOf[b]: shard of block b
  carries,          \* carries[b]: parcels in block b
  ships,            \* ships[b]: those of them that a receiver may include
  sender            \* sender[p]: shard that sends parcel p

VARIABLES
  chain,            \* chain[s]: committed blocks of shard s, oldest first
  notarized         \* parcels that another shard has ever included

OnChain(s) == {chain[s][i] : i \in 1..Len(chain[s])}

Top(s) == chain[s][Len(chain[s])]

Init ==
  /\ chain = [s \in Shards |-> <<>>]
  /\ notarized = {}

Commit(s, b) ==
  /\ shardOf[b] = s
  /\ \A c \in OnChain(s) : c # b /\ carries[c] \cap carries[b] = {}
  /\ \A p \in carries[b] :
       sender[p] # s => \E c \in OnChain(sender[p]) : p \in ships[c]
  /\ chain' = [chain EXCEPT ![s] = Append(@, b)]
  /\ notarized' = notarized \cup {p \in carries[b] : sender[p] # s}

Revert(s) ==
  /\ chain[s] # <<>>
  /\ \A p \in ships[Top(s)] : sender[p] = s => p \notin notarized
  /\ chain' = [chain EXCEPT ![s] = SubSeq(@, 1, Len(@) - 1)]
  /\ UNCHANGED notarized
=============================================================================
