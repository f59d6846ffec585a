----------------------------- MODULE TxGrouping -----------------------------
(***************************************************************************)
(* How SaveTransactions turns a block and its pool into bulk bodies:       *)
(* transactions and rewards are taken miniblock by miniblock, contract     *)
(* results of the pool are attached to the transaction they come from,     *)
(* status and gas are settled from them, and the documents are cut into    *)
(* buffers below a threshold.  Go maps are ranged over in any order, and   *)
(* the loop over the results deletes from the map it ranges over: an entry *)
(* deleted before it is reached is not visited.                            *)
(*                                                                         *)
(* Abstractions: a transaction, reward or result stands for its hash;      *)
(* gasUsed says where the gas used (and the fee) comes from; of a list of  *)
(* results only how often each is in it is kept; search orders, a random   *)
(* numbering, are left out; what is done to the transactions of one        *)
(* miniblock, or to each transaction of the last loop, is one step, as it  *)
(* touches only that transaction.  A size is in units, newlines included.  *)
(***************************************************************************)
EXTENDS Naturals, Sequences, FiniteSets, Functions

CONSTANTS
  Txs, Rewards, Scrs,   \* hashes of transactions, rewards, contract results
  Elsewhere,            \* a transaction of another block; no transaction
  Addresses, Shards,
  SelfShard,            \* shard of the node
  AllShards,            \* core.AllShardId
  ShardOf,              \* shardCoordinator.ComputeId
  sender, receiver,     \* addresses of transactions, rewards, results
  Inputs,               \* the blocks and pools to group
  Threshold             \* bulkSizeThreshold

Hashes == Txs \cup Rewards
Originals == Txs \cup Scrs \cup {Elsewhere}
Miniblock == [type : {"TxBlock", "InvalidBlock", "RewardsBlock", "PeerBlock"},
              from : Shards, to : Shards \cup {AllShards}, hashes : SUBSET Hashes]

\* original: OriginalTxHash; successful: the data says ok (isScResultSuccessful);
\* refunds: the transaction it returns gas for (isSCRForSenderWithRefund);
\* special: "relayedTx" or "ESDTNFTTransfer" data; size: of a document without results.
Input == [body : Seq(Miniblock), pool : SUBSET (Hashes \cup Scrs), import : BOOLEAN,
          original : [Scrs -> Originals], successful : SUBSET Scrs,
          refunds : [Scrs -> Txs \cup {Elsewhere}], special : SUBSET Txs,
          size : [Hashes -> Nat \ {0}]]

ASSUME GroupingAssumption ==
  /\ Inputs \subseteq Input
  /\ SelfShard \in Shards /\ AllShards \notin Shards
  /\ ShardOf \in [Addresses -> Shards]
  /\ sender \in [Txs -> Addresses]
  /\ receiver \in [Hashes \cup Scrs -> Addresses]
  /\ Elsewhere \notin Txs \cup Scrs
  /\ Txs \cap Rewards = {} /\ Hashes \cap Scrs = {}
  /\ Threshold \in Nat
  /\ IsFiniteSet(Scrs)

\* The hashes a miniblock of a type may have.
OfType(type) ==
  CASE type \in {"TxBlock", "InvalidBlock"} -> Txs
    [] type = "RewardsBlock" -> Rewards
    [] OTHER -> {}

\* A body the protocol accepts: each hash in one miniblock, of the type of what it
\* is of and between the shards of its sender and its receiver; only a peer
\* miniblock goes to all shards.
WellFormed(body) ==
  \A i \in DOMAIN body :
    LET mb == body[i]
    IN /\ mb.hashes \subseteq OfType(mb.type)
       /\ mb.to = AllShards => mb.type = "PeerBlock"
       /\ \A j \in DOMAIN body \ {i} : mb.hashes \cap body[j].hashes = {}
       /\ \A h \in mb.hashes \cap Txs : ShardOf[sender[h]] = SelfShard <=> mb.from = SelfShard
       /\ mb.type # "InvalidBlock" => \A h \in mb.hashes :
            ShardOf[receiver[h]] = SelfShard <=> mb.to \in {SelfShard, AllShards}

ASSUME BlocksAssumption == \A in \in Inputs : WellFormed(in.body)

VARIABLES
  input,            \* the block and its pool
  step,             \* what is done next
  next,             \* index of the next miniblock
  pool,             \* txPool: the transactions and rewards not taken yet
  transactions,     \* transactions[h]: document of a transaction
  rewardsTxs,       \* rewards to index
  alteredAddresses,
  scResults,        \* the map of results: those not attached
  toVisit,          \* its entries the range has not reached
  countScResults,   \* countScResults[h]: results attached to h
  serialized,       \* documents written to buffers
  buff,             \* the documents in the current buffer
  buffSlice         \* the full buffers

groupVars == <<next, pool, rewardsTxs, alteredAddresses>>
scrVars == <<scResults, toVisit, countScResults>>
bufferVars == <<serialized, buff, buffSlice>>
vars == <<input, step, groupVars, transactions, scrVars, bufferVars>>

-----------------------------------------------------------------------------
(* groupNormalTxsAndRewards *)

\* Mutation: the modes are swapped.
ShouldIndexOutsideImport(destination) == input.import \/ destination = SelfShard

shouldIndex(destination) == input.import => destination = SelfShard

NewTx(mb) ==
  [status |-> IF mb.type = "InvalidBlock" THEN "invalid"
              ELSE IF mb.to = SelfShard THEN "success" ELSE "pending",
   gasUsed |-> IF mb.type = "InvalidBlock" THEN "limit" ELSE "base",
   results |-> [s \in Scrs |-> 0]]

\* Mutation: an invalid transaction alters its receiver too.
AlteredWithInvalid(h, mb) ==
  {sender[t] : t \in {h} \cap (IF mb.from = SelfShard THEN Txs ELSE {})}
    \cup (IF mb.to \in {SelfShard, AllShards} THEN {receiver[h]} ELSE {})

\* addToAlteredAddresses
Altered(h, mb) ==
  {sender[t] : t \in {h} \cap (IF mb.from = SelfShard THEN Txs ELSE {})}
    \cup (IF mb.type # "InvalidBlock" /\ mb.to \in {SelfShard, AllShards}
          THEN {receiver[h]} ELSE {})

\* What getTransactions or getRewardsTransaction finds in the pool.
Found(mb) ==
  mb.hashes \cap pool \cap OfType(mb.type)

GroupMiniblock ==
  /\ step = "group"
  /\ next <= Len(input.body)
  /\ LET mb == input.body[next]
         found == Found(mb)
         indexed == IF mb.type = "InvalidBlock" \/ shouldIndex(mb.to) THEN found ELSE {}
     IN /\ transactions' = [h \in DOMAIN transactions \cup (indexed \cap Txs) |->
                              IF h \in indexed THEN NewTx(mb) ELSE transactions[h]]
        /\ rewardsTxs' = rewardsTxs \cup (indexed \cap Rewards)
        /\ alteredAddresses' = alteredAddresses \cup UNION {Altered(h, mb) : h \in found}
        /\ pool' = pool \ found
  /\ next' = next + 1
  /\ UNCHANGED <<input, step, scrVars, bufferVars>>

\* groupSmartContractResults, addScrsReceiverToAlteredAccounts
GroupResults ==
  /\ step = "group"
  /\ next > Len(input.body)
  /\ scResults' = pool \cap Scrs
  /\ toVisit' = scResults'
  /\ alteredAddresses' = alteredAddresses \cup
       {receiver[s] : s \in {r \in scResults' : ShardOf[receiver[r]] = SelfShard}}
  /\ step' = "attach"
  /\ UNCHANGED <<input, next, pool, rewardsTxs, transactions, countScResults, bufferVars>>

-----------------------------------------------------------------------------
(* The results of the transactions. *)

\* findAllChildScrResults: they are deleted from the map.
Children(s) == {c \in scResults \ {s} : input.original[c] = s}

Family(s) == {s} \cup Children(s)

\* addScResultInfoInTx for a result and then its children, in any order: the last
\* one that refunds h counts, unless h is invalid.
WithResults(h, s) ==
  LET tx == transactions[h]
      refunding(scrs) == {r \in scrs : tx.status # "invalid" /\ input.refunds[r] = h}
      last == IF refunding(Children(s)) # {} THEN refunding(Children(s)) ELSE refunding({s})
      results == [r \in Scrs |-> tx.results[r] + (IF r \in Family(s) THEN 1 ELSE 0)]
  IN {[tx EXCEPT !.results = results, !.gasUsed = gas] :
        gas \in IF last = {} THEN {tx.gasUsed} ELSE last}

\* Mutation: children are attached and not counted.
AttachCountingOne(h, s) ==
  /\ \E tx \in WithResults(h, s) : transactions' = [transactions EXCEPT ![h] = tx]
  /\ countScResults' = [countScResults EXCEPT ![h] = @ + 1]
  /\ scResults' = scResults \ Family(s)
  /\ toVisit' = toVisit \ Family(s)

\* The body of the loop for result s of transaction h.
Attach(h, s) ==
  /\ \E tx \in WithResults(h, s) : transactions' = [transactions EXCEPT ![h] = tx]
  /\ countScResults' = [countScResults EXCEPT ![h] = @ + Cardinality(Family(s))]
  /\ scResults' = scResults \ Family(s)
  /\ toVisit' = toVisit \ Family(s)

\* Mutation: a result is deleted before its transaction is looked up.
AttachResultDeletingFirst(s) ==
  /\ step = "attach"
  /\ s \in toVisit
  /\ IF input.original[s] \in DOMAIN transactions
     THEN Attach(input.original[s], s)
     ELSE /\ scResults' = scResults \ {s}
          /\ toVisit' = toVisit \ {s}
          /\ UNCHANGED <<transactions, countScResults>>
  /\ UNCHANGED <<input, step, groupVars, bufferVars>>

\* One iteration of the loop over scResults.
AttachResult(s) ==
  /\ step = "attach"
  /\ s \in toVisit
  /\ IF input.original[s] \in DOMAIN transactions
     THEN Attach(input.original[s], s)
     ELSE /\ toVisit' = toVisit \ {s}
          /\ UNCHANGED <<transactions, scResults, countScResults>>
  /\ UNCHANGED <<input, step, groupVars, bufferVars>>

Failed(tx, nrScResult) ==
  nrScResult = 1 /\ \A s \in Scrs : tx.results[s] > 0 => s \notin input.successful

\* Mutation: an invalid transaction with one result is called failed.
SettledUnlessSpecial(h) ==
  LET tx == transactions[h]
  IN IF countScResults[h] = 0 THEN tx
     ELSE IF h \in input.special THEN [tx EXCEPT !.gasUsed = "limit"]
     ELSE IF Failed(tx, countScResults[h])
          THEN [tx EXCEPT !.status = "fail", !.gasUsed = "limit"]
     ELSE tx

\* The body of the loop over countScResults.
Settled(h) ==
  LET tx == transactions[h]
  IN IF countScResults[h] = 0 THEN tx
     ELSE IF h \in input.special THEN [tx EXCEPT !.gasUsed = "limit"]
     ELSE IF tx.status # "invalid" /\ Failed(tx, countScResults[h])
          THEN [tx EXCEPT !.status = "fail", !.gasUsed = "limit"]
     ELSE tx

Settle ==
  /\ step = "attach"
  /\ toVisit = {}
  /\ transactions' = [h \in DOMAIN transactions |-> Settled(h)]
  /\ step' = "serialize"
  /\ UNCHANGED <<input, groupVars, scrVars, bufferVars>>

-----------------------------------------------------------------------------
(* serializeTransactions *)

Documents == DOMAIN transactions \cup rewardsTxs

\* Results make the document of a transaction longer.
SizeOf(h) ==
  input.size[h] +
    (IF h \in Txs THEN SumFunctionOnSet(transactions[h].results, Scrs) ELSE 0)

SizeOfBuffer(docs) == SumFunctionOnSet([h \in Documents |-> SizeOf(h)], docs)

\* Mutation: the buffer is compared without the document to be written.
TooLongAlready(h) == SizeOfBuffer(buff) > Threshold /\ buff # {}

\* The document does not fit in the current buffer.
TooLong(h) == SizeOfBuffer(buff) + SizeOf(h) > Threshold /\ buff # {}

\* Transactions come in the order of a map, then the rewards.
Serialize(h) ==
  /\ step = "serialize"
  /\ h \in Documents \ serialized
  /\ h \in Rewards => DOMAIN transactions \subseteq serialized
  /\ buffSlice' = IF TooLong(h) THEN Append(buffSlice, buff) ELSE buffSlice
  /\ buff' = (IF TooLong(h) THEN {} ELSE buff) \cup {h}
  /\ serialized' = serialized \cup {h}
  /\ UNCHANGED <<input, step, groupVars, transactions, scrVars>>

\* The last buffer, unless it is empty.
LastBuffer ==
  /\ step = "serialize"
  /\ serialized = Documents
  /\ buffSlice' = IF buff # {} THEN Append(buffSlice, buff) ELSE buffSlice
  /\ step' = "done"
  /\ UNCHANGED <<input, groupVars, transactions, scrVars, serialized, buff>>

-----------------------------------------------------------------------------
Init ==
  /\ input \in Inputs
  /\ step = "group"
  /\ next = 1
  /\ pool = input.pool
  /\ transactions = <<>>
  /\ rewardsTxs = {}
  /\ alteredAddresses = {}
  /\ scResults = {}
  /\ toVisit = {}
  /\ countScResults = [h \in Txs |-> 0]
  /\ serialized = {}
  /\ buff = {}
  /\ buffSlice = <<>>

Next ==
  \/ GroupMiniblock
  \/ GroupResults
  \/ \E s \in Scrs : AttachResult(s)
  \/ Settle
  \/ \E h \in Hashes : Serialize(h)
  \/ LastBuffer

Spec == Init /\ [][Next]_vars

-----------------------------------------------------------------------------
Tx == [status : {"pending", "success", "invalid", "fail"},
       gasUsed : {"base", "limit"} \cup Scrs, results : [Scrs -> Nat]]

TypeOK ==
  /\ input \in Input
  /\ step \in {"group", "attach", "serialize", "done"}
  /\ next \in 1..(Len(input.body) + 1)
  /\ pool \subseteq input.pool
  /\ DOMAIN transactions \subseteq Txs
  /\ \A h \in DOMAIN transactions : transactions[h] \in Tx
  /\ rewardsTxs \subseteq Rewards
  /\ alteredAddresses \subseteq Addresses
  /\ toVisit \subseteq scResults /\ scResults \subseteq Scrs
  /\ countScResults \in [Txs -> Nat]
  /\ serialized \subseteq Documents
  /\ buff \subseteq serialized
  /\ buffSlice \in Seq(SUBSET serialized)
  \* The counter of a transaction is the length of its list of results.
  /\ \A h \in DOMAIN transactions :
       countScResults[h] = SumFunctionOnSet(transactions[h].results, Scrs)

Attached == step \in {"serialize", "done"}

\* The results of transaction h: those of h itself, and those of such a result.
ResultsOf(h) ==
  LET scrs == input.pool \cap Scrs
      of(o) == {s \in scrs : input.original[s] = o}
  IN of(h) \cup UNION {of(s) : s \in of(h)}

\* Each result of the pool is attached once to the transaction it comes from,
\* directly or through another result, and to no other: in whatever order the
\* loop reaches them, although it deletes from the map it ranges over.
ResultsAttachedOnce ==
  Attached =>
    \A h \in DOMAIN transactions, s \in Scrs :
      transactions[h].results[s] = IF s \in ResultsOf(h) THEN 1 ELSE 0

\* The status and gas the block gives transaction h of miniblock mb.
Outcome(h, mb) ==
  LET results == ResultsOf(h)
      refunding == {s \in results : input.refunds[s] = h}
      failed == /\ mb.type # "InvalidBlock" /\ h \notin input.special
                /\ Cardinality(results) = 1 /\ results \cap input.successful = {}
      status == IF mb.type = "InvalidBlock" THEN "invalid" ELSE IF failed THEN "fail"
                ELSE IF mb.to = SelfShard THEN "success" ELSE "pending"
      allGas == \/ status \in {"invalid", "fail"}
                \/ h \in input.special /\ results # {}
  IN [status |-> status,
      gasUsed |-> IF allGas THEN {"limit"} ELSE IF refunding = {} THEN {"base"} ELSE refunding]

\* What is indexed of a transaction depends on the block and its pool only, never
\* on the order of the maps: an invalid one stays invalid, one with a single
\* result that is not ok has failed, and the gas is the refund's, or all of it.
OutcomeOfTheBlock ==
  Attached =>
    \A i \in DOMAIN input.body :
      \A h \in input.body[i].hashes \cap DOMAIN transactions :
        LET outcome == Outcome(h, input.body[i])
        IN /\ transactions[h].status = outcome.status
           /\ transactions[h].gasUsed \in outcome.gasUsed

\* The transactions or rewards of the pool that are in miniblocks of some types.
InMiniblocks(types) ==
  {h \in input.pool : \E i \in DOMAIN input.body :
                        input.body[i].type \in types /\ h \in input.body[i].hashes}

\* The block, as TxIndexing knows it, on a node that indexes transactions: the
\* others do not get as far as grouping them.
Block ==
  INSTANCE TransactionDocuments
    WITH Blocks <- {input},
         shardOf <- [b \in {input} |-> SelfShard],
         txsOf <- [b \in {input} |-> InMiniblocks({"TxBlock", "InvalidBlock"})],
         invalidIn <- [b \in {input} |-> InMiniblocks({"InvalidBlock"})],
         sender <- [h \in Txs |-> ShardOf[sender[h]]],
         receiver <- [h \in Txs |-> ShardOf[receiver[h]]],
         NoBlock <- Elsewhere,
         EnabledAt <- {SelfShard},
         IsInImportMode <- input.import

\* What TxIndexing takes for granted: the documents are those of ToIndex (and of
\* the rewards that stay here, when importing); the write of a document, which
\* goes by its status, treats as invalid exactly the invalid transactions; and no
\* node but the sender's writes "pending", so that fields that come from the
\* receiver are those of an executed transaction.
DocumentsOfTheBlock ==
  Attached =>
    /\ DOMAIN transactions = Block!ToIndex(input)
    /\ rewardsTxs = {h \in InMiniblocks({"RewardsBlock"}) : shouldIndex(ShardOf[receiver[h]])}
    /\ \A h \in DOMAIN transactions :
         /\ transactions[h].status = "invalid" <=> h \in InMiniblocks({"InvalidBlock"})
         /\ transactions[h].status = "pending" =>
              ~Block!IntraShardOrInvalid(input, h) /\ ~Block!CrossShardDstMe(input, h)

\* The accounts of this shard whose balance the block changes are loaded again,
\* and no account is loaded without need: senders pay even when the transaction
\* is invalid, receivers get only what is executed, import mode or not.
AlteredAddressesComplete ==
  Attached =>
    alteredAddresses = {a \in Addresses :
      /\ ShardOf[a] = SelfShard
      /\ \/ \E s \in input.pool \cap Scrs : receiver[s] = a
         \/ \E i \in DOMAIN input.body : \E h \in input.body[i].hashes \cap input.pool :
              \/ h \in Txs /\ sender[h] = a
              \/ input.body[i].type # "InvalidBlock" /\ receiver[h] = a}

\* The bulk bodies hold every document once, none is empty or above the threshold
\* unless one document alone is, and no two neighbours would have fitted in one.
BuffersComplete ==
  step = "done" =>
    /\ \A h \in Documents : \E i \in DOMAIN buffSlice :
         h \in buffSlice[i] /\ \A j \in DOMAIN buffSlice \ {i} : h \notin buffSlice[j]
    /\ \A i \in DOMAIN buffSlice :
         /\ buffSlice[i] # {}
         /\ SizeOfBuffer(buffSlice[i]) <= Threshold \/ Cardinality(buffSlice[i]) = 1
         /\ i < Len(buffSlice) =>
              SizeOfBuffer(buffSlice[i]) + SizeOfBuffer(buffSlice[i + 1]) > Threshold
=============================================================================
