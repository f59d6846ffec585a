----------------------------- MODULE TxIndexing -----------------------------
(***************************************************************************)
(* Transactions in Elasticsearch.  A transaction is indexed by the node of *)
(* its sender shard and, when it goes to another shard, again by the node  *)
(* of its receiver shard, both writing the same document; a fork makes a   *)
(* node index it once more, from another block.  What a write does to the  *)
(* document depends on which of these it is (common.go,                    *)
(* prepareSerializedDataForATransaction).                                  *)
(*                                                                         *)
(* SaveTransactions splits the documents of a block into bulk requests, in *)
(* the random order of a Go map, sends them one after the other and stops  *)
(* at the first failure, after which the whole item is run again.  Remove  *)
(* items do not touch transactions (RemoveTransactions is never called),   *)
(* so only save items are modelled.  A node that restarts has lost its     *)
(* items, which are only in memory.                                        *)
(*                                                                         *)
(* What a document is, and what a write makes of it, is in                 *)
(* TransactionDocuments.  Elasticsearch runs a bulk item that updates as a *)
(* read and a conditional write: with ItemConflicts, an item whose         *)
(* document was written in between fails on its own, in a bulk answered    *)
(* with 200.                                                               *)
(***************************************************************************)
EXTENDS TransactionDocuments, Naturals, Sequences

CONSTANTS
  Shards,
  MaxItems,         \* bound: blocks a node ever queues
  MaxRestarts,      \* bound: restarts of nodes
  ItemConflicts     \* whether bulk items may fail with a version conflict

ASSUME ShapeAssumption ==
  /\ shardOf \in [Blocks -> Shards]
  /\ txsOf \in [Blocks -> SUBSET Txs]
  /\ invalidIn \in [Blocks -> SUBSET Txs]
  /\ sender \in [Txs -> Shards]
  /\ receiver \in [Txs -> Shards]
  /\ EnabledAt \subseteq Shards
  /\ \A b \in Blocks : \A t \in txsOf[b] : shardOf[b] \in {sender[t], receiver[t]}
  /\ \A b \in Blocks : \A t \in invalidIn[b] : t \in txsOf[b] /\ shardOf[b] = sender[t]
  /\ NoBlock \notin Blocks
  /\ MaxItems \in Nat
  /\ MaxRestarts \in Nat
ASSUME ModeAssumption == IsInImportMode \in BOOLEAN /\ ItemConflicts \in BOOLEAN

VARIABLES
  chain, notarized, \* see ShardChains
  blocks,           \* blocks[s]: the blocks node s has still to index, in order
  queued,           \* queued[s]: number of blocks node s has queued
  restarts,         \* number of restarts so far
  working,          \* working[s]: whether its worker is in SaveTransactions
  pending,          \* pending[s]: documents of this attempt not yet sent
  inFlight,         \* inFlight[s]: documents of the bulk Elasticsearch is at
  stale,            \* stale[s]: those of them written since they were read
  lastIndexed,      \* history: lastIndexed[s][t], the last block s completed with t
  lost,             \* history: lost[s], those in a block s has lost since in a restart
  docs              \* docs[t]: the document of t in the "transactions" index

vars == <<chain, notarized, blocks, queued, restarts, working, pending, inFlight, stale,
          lastIndexed, lost, docs>>
queueVars == <<chain, notarized, blocks, queued, restarts>>
historyVars == <<lastIndexed, lost>>

\* The blocks the nodes commit and revert; an invalid transaction is not sent on.
Chains == INSTANCE ShardChains
            WITH Parcels <- Txs, carries <- txsOf,
                 ships <- [b \in Blocks |-> txsOf[b] \ invalidIn[b]]

-----------------------------------------------------------------------------
\* The items of a bulk of block b that take effect.
Effective(b, ts, staleOnes) ==
  {t \in ts : ItemConflicts /\ t \in staleOnes => IntraShardOrInvalid(b, t)}

\* The documents `ts` are written for block b by the node of shard s; the items
\* other nodes have in flight for them become stale.
Write(s, b, ts) ==
  /\ docs' = [t \in Txs |-> IF t \in ts THEN Written(b, t, docs[t]) ELSE docs[t]]
  /\ stale' = [r \in Shards |-> IF r = s THEN {} ELSE stale[r] \cup (ts \cap inFlight[r])]

-----------------------------------------------------------------------------
Init ==
  /\ Chains!Init
  /\ blocks = [s \in Shards |-> <<>>]
  /\ queued = [s \in Shards |-> 0]
  /\ restarts = 0
  /\ working = [s \in Shards |-> FALSE]
  /\ pending = [s \in Shards |-> {}]
  /\ inFlight = [s \in Shards |-> {}]
  /\ stale = [s \in Shards |-> {}]
  /\ lastIndexed = [s \in Shards |-> [t \in Txs |-> NoBlock]]
  /\ lost = [s \in Shards |-> {}]
  /\ docs = [t \in Txs |-> NoDoc]

SaveBlock(s, b) ==
  /\ queued[s] < MaxItems
  /\ Chains!Commit(s, b)
  /\ blocks' = [blocks EXCEPT ![s] = Append(@, b)]
  /\ queued' = [queued EXCEPT ![s] = @ + 1]
  /\ UNCHANGED <<restarts, working, pending, inFlight, stale, historyVars, docs>>

\* The remove item of the reverted block leaves the transactions alone.
RevertIndexedBlock(s) ==
  /\ Chains!Revert(s)
  /\ UNCHANGED <<blocks, queued, restarts, working, pending, inFlight, stale, historyVars, docs>>

InHand(s) == blocks[s][1]

\* SaveTransactions prepares and serializes the documents of the block, or has
\* none to prepare where transactions are not indexed.
Start(s) ==
  /\ ~working[s]
  /\ blocks[s] # <<>>
  /\ working' = [working EXCEPT ![s] = TRUE]
  /\ pending' = [pending EXCEPT ![s] = ToIndex(InHand(s))]
  /\ UNCHANGED <<queueVars, inFlight, stale, historyVars, docs>>

\* The next bulk request reaches Elasticsearch, which reads its documents.
SendBulk(s) ==
  /\ working[s]
  /\ inFlight[s] = {}
  /\ \E ts \in (SUBSET pending[s]) \ {{}} :
       /\ inFlight' = [inFlight EXCEPT ![s] = ts]
       /\ pending' = [pending EXCEPT ![s] = @ \ ts]
  /\ UNCHANGED <<queueVars, working, stale, historyVars, docs>>

\* Elasticsearch writes them and answers 200; DoBulkRequest looks no further.
BulkAnswered(s) ==
  /\ inFlight[s] # {}
  /\ Write(s, InHand(s), Effective(InHand(s), inFlight[s], stale[s]))
  /\ inFlight' = [inFlight EXCEPT ![s] = {}]
  /\ UNCHANGED <<queueVars, working, pending, historyVars>>

\* Mutation: the item goes on where it stopped, as if the bulk had been applied.
BulkFailedIgnored(s) ==
  /\ inFlight[s] # {}
  /\ \E ts \in SUBSET Effective(InHand(s), inFlight[s], stale[s]) : Write(s, InHand(s), ts)
  /\ inFlight' = [inFlight EXCEPT ![s] = {}]
  /\ UNCHANGED <<queueVars, working, pending, historyVars>>

\* The request fails, some of it possibly done: the item starts again.
BulkFailed(s) ==
  /\ inFlight[s] # {}
  /\ \E ts \in SUBSET Effective(InHand(s), inFlight[s], stale[s]) : Write(s, InHand(s), ts)
  /\ inFlight' = [inFlight EXCEPT ![s] = {}]
  /\ pending' = [pending EXCEPT ![s] = ToIndex(InHand(s))]
  /\ UNCHANGED <<queueVars, working, historyVars>>

\* Mutation: the last bulk is not waited for.
AllSentEarly(s) == working[s] /\ pending[s] = {}

AllSent(s) == working[s] /\ pending[s] = {} /\ inFlight[s] = {}

\* indexAlteredAccounts fails after all transactions are written: start again.
AccountsFailed(s) ==
  /\ AllSent(s)
  /\ s \in EnabledAt
  /\ pending' = [pending EXCEPT ![s] = ToIndex(InHand(s))]
  /\ UNCHANGED <<queueVars, working, inFlight, stale, historyVars, docs>>

Complete(s) ==
  /\ AllSent(s)
  /\ working' = [working EXCEPT ![s] = FALSE]
  /\ blocks' = [blocks EXCEPT ![s] = Tail(@)]
  /\ lastIndexed' = [lastIndexed EXCEPT ![s] =
       [t \in Txs |-> IF t \in ToIndex(InHand(s)) THEN InHand(s) ELSE @[t]]]
  /\ lost' = [lost EXCEPT ![s] = @ \ ToIndex(InHand(s))]
  /\ UNCHANGED <<chain, notarized, queued, restarts, pending, inFlight, stale, docs>>

\* The node of s is killed and starts again: what was in memory is gone, the
\* bulk Elasticsearch was at may have been done in part.
Restart(s) ==
  /\ blocks[s] # <<>>
  /\ restarts < MaxRestarts
  /\ restarts' = restarts + 1
  /\ \E ts \in SUBSET Effective(InHand(s), inFlight[s], stale[s]) : Write(s, InHand(s), ts)
  /\ blocks' = [blocks EXCEPT ![s] = <<>>]
  /\ working' = [working EXCEPT ![s] = FALSE]
  /\ pending' = [pending EXCEPT ![s] = {}]
  /\ inFlight' = [inFlight EXCEPT ![s] = {}]
  /\ lost' = [lost EXCEPT ![s] = @ \cup UNION {ToIndex(blocks[s][k]) : k \in 1..Len(blocks[s])}]
  /\ UNCHANGED <<chain, notarized, queued, lastIndexed>>

Worker(s) ==
  Start(s) \/ SendBulk(s) \/ BulkAnswered(s) \/ BulkFailed(s) \/ AccountsFailed(s) \/ Complete(s)

Node(s) == (\E b \in Blocks : SaveBlock(s, b)) \/ RevertIndexedBlock(s)

Next == \E s \in Shards : Node(s) \/ Restart(s) \/ Worker(s)

Spec == Init /\ [][Next]_vars

\* Workers run, no bulk of an item fails for ever, whichever documents are left
\* to send after it, and neither do the accounts.
FairSpec ==
  /\ Spec
  /\ \A s \in Shards :
       /\ WF_vars(Worker(s))
       /\ \A left \in SUBSET Txs : SF_vars(pending[s] = left /\ BulkAnswered(s))
       /\ SF_vars(Complete(s))

-----------------------------------------------------------------------------
TypeOK ==
  /\ chain \in [Shards -> Seq(Blocks)]
  /\ notarized \subseteq Txs
  /\ blocks \in [Shards -> Seq(Blocks)]
  /\ queued \in [Shards -> Nat]
  /\ restarts \in Nat
  /\ working \in [Shards -> BOOLEAN]
  /\ pending \in [Shards -> SUBSET Txs]
  /\ inFlight \in [Shards -> SUBSET Txs]
  /\ stale \in [Shards -> SUBSET Txs]
  /\ lastIndexed \in [Shards -> [Txs -> Blocks \cup {NoBlock}]]
  /\ lost \in [Shards -> SUBSET Txs]
  /\ docs \in [Txs -> Doc]
  /\ \A s \in Shards :
       /\ \A i \in 1..Len(blocks[s]) : shardOf[blocks[s][i]] = s
       /\ IF working[s] THEN /\ blocks[s] # <<>>
                             /\ pending[s] \cup inFlight[s] \subseteq ToIndex(InHand(s))
                        ELSE pending[s] = {} /\ inFlight[s] = {}

\* The node of shard s is writing transaction t.
Indexing(s, t) == working[s] /\ t \in ToIndex(InHand(s))

\* The document of t has the fields its receiver gave it.
Executed(t) == docs[t].fields # NoBlock /\ shardOf[docs[t].fields] = receiver[t]

\* Once the receiver has indexed a cross-shard transaction, its document shows
\* what the receiver said last: neither the sender's node, however late or often
\* it writes, nor a repeated or half-done attempt brings back another status,
\* miniblock, timestamp, gas or fee.  Not so for a transaction that was invalid
\* in some block: an invalid one overwrites.  What a restart of the receiver's
\* node loses it has not said; a restart of the sender's changes nothing.
ExecutedFieldsKept ==
  \A t \in Txs :
    LET last == lastIndexed[receiver[t]][t]
    IN Cross(t) /\ NeverInvalid(t) /\ last # NoBlock
         /\ t \notin lost[receiver[t]] /\ ~Indexing(receiver[t], t)
         => docs[t].fields = last

\* Whoever reads the database never sees an executed transaction go back to
\* pending: once the fields of a cross-shard document are the receiver's, no
\* write leaves it with the sender's, in the middle of an item or after a restart
\* either.  (By the code they could be those of a block the receiver reverted.)
StaysExecuted ==
  [][\A t \in Txs : Cross(t) /\ NeverInvalid(t) /\ Executed(t) => Executed(t)']_vars

\* An intra-shard transaction is wholly rewritten by every block that has it
\* ("use basic insert as data can be re-written at forks"): after forks, failed
\* and repeated bulks its document is that of the last block indexed, unless a
\* later one was lost in a restart.
ForkRewritesIntraShard ==
  \A t \in Txs :
    LET last == lastIndexed[sender[t]][t]
    IN ~Cross(t) /\ last # NoBlock /\ t \notin lost[sender[t]] /\ ~Indexing(sender[t], t)
         => docs[t] = InsertedBy(last)

\* Every transaction of an indexed block has a document: part of the promise below
\* (Shows of TransactionsIndex), and true also when item conflicts break the rest.
IndexedHaveDocs ==
  \A s \in Shards, t \in Txs : lastIndexed[s][t] # NoBlock => docs[t] # NoDoc

\* The promise to the readers of the index, kept in steps of bulks: a node works
\* at the block in hand, its queue and the bulks it has sent do not show, and it
\* completes a block only when the documents show it, although what it has sent
\* may have failed, or been overtaken by what the other shard's node writes.
Current == [s \in Shards |-> IF working[s] THEN InHand(s) ELSE NoBlock]

Promise == INSTANCE TransactionsIndex WITH current <- Current, reported <- lastIndexed

ImplementsTransactionsIndex == Promise!Spec

\* Liveness: a transaction that its receiver has included does not stay pending
\* in the database for ever, even if the sender's node indexes it afterwards; only
\* a restart of the receiver's node can leave it so, or a receiver's node that
\* indexes no transactions.
ExecutedEventually ==
  \A t \in Txs :
    Cross(t) /\ NeverInvalid(t) /\ receiver[t] \in EnabledAt /\ t \in notarized
      ~> \/ t \in lost[receiver[t]]
         \/ []Executed(t)
=============================================================================
