------------------------- MODULE BlockSearchOrder -------------------------
(***************************************************************************)
(* The number by which blocks are ordered in searches (dataParser.go): the *)
(* decimal digits of 1, of the shard and of the nonce, read as one number. *)
(* Widths are scaled down: MaxUint64 is the leading digits of 2^64 - 1.    *)
(***************************************************************************)
EXTENDS Naturals

CONSTANTS
  MetachainShardId,   \* core.MetachainShardId, the largest uint32
  MaxUint64,          \* the largest search order
  MaxShard,           \* the last shard of the network
  MaxNonce            \* the last nonce its blocks will have

\* The power of ten with one digit more than n.
PowerAbove[n \in Nat] == IF n < 10 THEN 10 ELSE 10 * PowerAbove[n \div 10]

\* The number whose digits are those of a, then b, padded up to the power of ten `least`.
Concatenated(a, b, least) ==
  a * (IF PowerAbove[b] < least THEN least ELSE PowerAbove[b]) + b

\* shardID + 2 in 32 bits; the metachain comes first.
createShardIdentifier(shard) ==
  IF shard = MetachainShardId THEN 1 ELSE (shard + 2) % (MetachainShardId + 1)

\* Mutation: the shard is not padded to two digits.
SearchOrderUnpadded(shard, nonce) ==
  Concatenated(Concatenated(1, createShardIdentifier(shard), 10), nonce, 10)

\* strconv.ParseUint refuses what does not fit, and the order is then 0.
computeBlockSearchOrder(shard, nonce) ==
  LET order == Concatenated(Concatenated(1, createShardIdentifier(shard), 100), nonce, 10)
  IN IF order > MaxUint64 THEN 0 ELSE order

Network == (0..MaxShard) \cup {MetachainShardId}

Nonces == 0..MaxNonce

\* The shard has two digits, also with its offset, and the last order fits.
WidthsFit ==
  /\ MaxShard \in Nat /\ MaxNonce \in Nat /\ MaxUint64 \in Nat /\ MetachainShardId \in Nat
  /\ MaxShard + 2 <= 99
  /\ MaxShard + 2 <= MetachainShardId
  /\ (MaxShard + 102) * PowerAbove[MaxNonce] + MaxNonce <= MaxUint64
=============================================================================
