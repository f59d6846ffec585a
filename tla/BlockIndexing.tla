--------------------------- MODULE BlockIndexing ----------------------------
(***************************************************************************)
(* Blocks and miniblocks in Elasticsearch.  Each shard has a node with its *)
(* own indexer; all of them write the same "blocks" and "miniblocks"       *)
(* indexes.  A node queues a save item for every block it commits and a    *)
(* remove item for every block it reverts (dataIndexer.go); its worker     *)
(* runs the items in order and runs an item again from its first step      *)
(* whenever one of its requests fails (module Dispatcher).  Every request  *)
(* to Elasticsearch is a step of its own, so that the workers interleave.  *)
(*                                                                         *)
(* Elasticsearch is modelled by what the requests of elasticClient.go need:*)
(* documents by id; get and write by id are immediate, while a search (the *)
(* delete-by-query of DoBulkRemove) only sees the last refresh, and leaves *)
(* the request in conflict when a document it found was written since.     *)
(* A request that fails may have had its effect or a part of it.  A node   *)
(* that restarts has lost its items, which are only in memory.             *)
(*                                                                         *)
(* Abstractions: a block and a miniblock stand for their hashes; of a      *)
(* document only the block hashes are kept; SaveTransactions, which may    *)
(* fail after the miniblocks are written, is one request without effect    *)
(* here; a bulk answered with 200 has applied every item.                  *)
(***************************************************************************)
EXTENDS BlockSearchOrder, MiniblockDocuments, Sequences

CONSTANTS
  Shards,           \* shards with a node that indexes
  shardId,          \* shardId[s]: the number of shard s
  nonceOf,          \* nonceOf[b]: nonce of block b
  AllShards,        \* the receiver of a peer miniblock
  MaxItems,         \* bound: MaxItems[s], items node s ever queues
  MaxRestarts,      \* bound: restarts of nodes
  DocumentErrors,   \* whether a multi get may fail for some of its documents
  EnabledIndexes    \* indexes enabled in the configuration

ASSUME ShapeAssumption ==
  /\ shardOf \in [Blocks -> Shards]
  /\ shardId \in [Shards -> Network]
  /\ \A s, r \in Shards : shardId[s] = shardId[r] => s = r
  /\ nonceOf \in [Blocks -> Nonces]
  /\ body \in [Blocks -> SUBSET Miniblocks]
  /\ sender \in [Miniblocks -> Shards]
  /\ receiver \in [Miniblocks -> Shards \cup {AllShards}]
  /\ PeerMiniblocks \subseteq Miniblocks
  /\ AllShards \notin Shards
  /\ \A m \in Miniblocks : receiver[m] = AllShards => m \in PeerMiniblocks
  /\ \A b \in Blocks : \A m \in body[b] :
       shardOf[b] = sender[m] \/ receiver[m] \in {shardOf[b], AllShards}
  /\ NoBlock \notin Blocks
  /\ MaxItems \in [Shards -> Nat]
  /\ MaxRestarts \in Nat
  /\ DocumentErrors \in BOOLEAN
ASSUME EnabledAssumption == EnabledIndexes \subseteq {"blocks", "miniblocks", "transactions"}

VARIABLES
  chain,            \* chain[s]: committed blocks of shard s (ShardChains)
  notarized,        \* miniblocks their receiver has ever included (ShardChains)
  items,            \* items[s]: the items of node s not completed, the head in progress
  queued,           \* queued[s]: number of items node s has queued
  restarts,         \* number of restarts so far
  step,             \* step[s]: the request the worker of s does next
  found,            \* found[s]: answer of its multi get, until it is used
  indexed,          \* history: the blocks whose last completed item saved them
  lost,             \* history: the blocks whose last item was lost in a restart
  blocksIndex,      \* the "blocks" index
  miniblocksIndex   \* the "miniblocks" index

vars == <<chain, notarized, items, queued, restarts, step, found, indexed, lost,
          blocksIndex, miniblocksIndex>>
chainVars == <<chain, notarized, queued, restarts>>
historyVars == <<indexed, lost>>

Steps == {"idle", "header", "mget", "bulk", "transactions", "removeHeader", "removeMiniblocks"}

\* The blocks the nodes commit and revert.
Chains == INSTANCE ShardChains
            WITH Parcels <- Miniblocks, carries <- body, ships <- body

-----------------------------------------------------------------------------
(* Elasticsearch.  An index is its documents, the ids a search finds and the *)
(* ids written since the last refresh.                                       *)

\* Mutation: the index request without Refresh.
IndexedHeaderUnrefreshed(index, b) ==
  [docs |-> index.docs \cup {b},
   searchable |-> index.searchable,
   dirty |-> index.dirty \cup {b}]

\* DoRequest with Refresh "true": the document is written and searchable.
IndexedHeader(index, b) ==
  [docs |-> index.docs \cup {b},
   searchable |-> index.searchable \cup {b},
   dirty |-> index.dirty \ {b}]

\* Delete by query of the ids in `wanted`, when no document found is dirty.
Conflict(index, wanted) == wanted \cap index.searchable \cap index.dirty # {}

Hits(index, wanted) == (wanted \cap index.searchable) \ index.dirty

RefreshBlocks ==
  /\ blocksIndex' = [docs |-> blocksIndex.docs, searchable |-> blocksIndex.docs, dirty |-> {}]
  /\ UNCHANGED <<chainVars, items, step, found, historyVars, miniblocksIndex>>

RefreshMiniblocks ==
  /\ miniblocksIndex' =
       [docs |-> miniblocksIndex.docs,
        searchable |-> {m \in Miniblocks : miniblocksIndex.docs[m].exists},
        dirty |-> {}]
  /\ UNCHANGED <<chainVars, items, step, found, historyVars, blocksIndex>>

-----------------------------------------------------------------------------
(* What the code computes from a block. *)

\* getSerializedElasticBlockAndHeaderHash: the field by which headers are ordered.
SearchOrder == [b \in Blocks |-> computeBlockSearchOrder(shardId[shardOf[b]], nonceOf[b])]

\* The bulk request of block b applied to the miniblocks in `ms`.  An insert
\* always makes a new version of the document, an update if it changes it.
BulkWritten(index, b, ms, exist) ==
  LET new(m) == Written(b, m, m \in exist, index.docs[m])
      touched == {m \in ms : m \notin exist \/ new(m) # index.docs[m]}
  IN [docs |-> [m \in Miniblocks |-> IF m \in ms THEN new(m) ELSE index.docs[m]],
      searchable |-> index.searchable,
      dirty |-> index.dirty \cup touched]

-----------------------------------------------------------------------------
Init ==
  /\ Chains!Init
  /\ items = [s \in Shards |-> <<>>]
  /\ queued = [s \in Shards |-> 0]
  /\ restarts = 0
  /\ step = [s \in Shards |-> "idle"]
  /\ found = [s \in Shards |-> {}]
  /\ indexed = {}
  /\ lost = {}
  /\ blocksIndex = [docs |-> {}, searchable |-> {}, dirty |-> {}]
  /\ miniblocksIndex = [docs |-> [m \in Miniblocks |-> NoDoc], searchable |-> {}, dirty |-> {}]

\* The node queues a block it commits, and again when it reverts it.
SaveBlock(s, b) ==
  /\ queued[s] < MaxItems[s]
  /\ Chains!Commit(s, b)
  /\ items' = [items EXCEPT ![s] = Append(@, [op |-> "save", block |-> b])]
  /\ queued' = [queued EXCEPT ![s] = @ + 1]
  /\ UNCHANGED <<restarts, step, found, historyVars, blocksIndex, miniblocksIndex>>

RevertIndexedBlock(s) ==
  /\ queued[s] < MaxItems[s]
  /\ Chains!Revert(s)
  /\ items' = [items EXCEPT ![s] = Append(@, [op |-> "remove", block |-> Chains!Top(s)])]
  /\ queued' = [queued EXCEPT ![s] = @ + 1]
  /\ UNCHANGED <<restarts, step, found, historyVars, blocksIndex, miniblocksIndex>>

InHand(s) == items[s][1].block

\* Mutation: every item starts like a save.
FirstStepSave(item) == "header"

\* First step of the item at the head, to which a failed item also returns.
FirstStep(item) == IF item.op = "save" THEN "header" ELSE "removeHeader"

Start(s) ==
  /\ step[s] = "idle"
  /\ items[s] # <<>>
  /\ step' = [step EXCEPT ![s] = FirstStep(items[s][1])]
  /\ UNCHANGED <<chainVars, items, found, historyVars, blocksIndex, miniblocksIndex>>

\* Mutation: a failed item is given up.
RetryGivesUp(s) ==
  /\ step' = [step EXCEPT ![s] = "idle"]
  /\ items' = [items EXCEPT ![s] = Tail(@)]
  /\ UNCHANGED <<chainVars, found, historyVars>>

\* A request fails: Save returns the error and doWork runs the item again.
Retry(s) ==
  /\ step' = [step EXCEPT ![s] = FirstStep(items[s][1])]
  /\ UNCHANGED <<chainVars, items, found, historyVars>>

Continue(s, next) ==
  /\ step' = [step EXCEPT ![s] = next]
  /\ UNCHANGED <<chainVars, items, found, historyVars>>

Complete(s) ==
  /\ step' = [step EXCEPT ![s] = "idle"]
  /\ items' = [items EXCEPT ![s] = Tail(@)]
  /\ indexed' = IF items[s][1].op = "save" THEN indexed \cup {InHand(s)}
                                           ELSE indexed \ {InHand(s)}
  /\ lost' = lost \ {InHand(s)}
  /\ UNCHANGED <<chainVars, found>>

\* The node of s is killed and starts again between two requests: its chain is
\* on its disk, its items were in memory.  (Nothing is lost when it has none.)
Restart(s) ==
  /\ items[s] # <<>>
  /\ restarts < MaxRestarts
  /\ restarts' = restarts + 1
  /\ items' = [items EXCEPT ![s] = <<>>]
  /\ step' = [step EXCEPT ![s] = "idle"]
  /\ found' = [found EXCEPT ![s] = {}]
  /\ lost' = lost \cup {items[s][k].block : k \in 1..Len(items[s])}
  /\ UNCHANGED <<chain, notarized, queued, indexed, blocksIndex, miniblocksIndex>>

-----------------------------------------------------------------------------
(* itemBlock.Save *)

SaveHeader(s) ==
  /\ step[s] = "header"
  /\ LET b == InHand(s)
         written == IF "blocks" \in EnabledIndexes THEN IndexedHeader(blocksIndex, b)
                                                   ELSE blocksIndex
         done == IF body[b] = {} THEN Complete(s) ELSE Continue(s, "mget")
     IN \/ blocksIndex' = written /\ done
        \/ /\ "blocks" \in EnabledIndexes
           /\ blocksIndex' \in {blocksIndex, written}
           /\ Retry(s)
  /\ UNCHANGED miniblocksIndex

ExistingMiniblocks(b) == {m \in body[b] : miniblocksIndex.docs[m].exists}

\* What getDecodedResponseMultiGet reads from the answer to a multi get: an entry
\* with an error, for whatever reason, is a document that is not there.
ReadMiniblocks(b) ==
  IF DocumentErrors THEN SUBSET ExistingMiniblocks(b) ELSE {ExistingMiniblocks(b)}

\* getExistingObjMap of the block's miniblocks.  When it fails the bulk buffer
\* stays empty, Elasticsearch refuses the empty bulk and the item fails.
GetExistingMiniblocks(s) ==
  /\ step[s] = "mget"
  /\ IF "miniblocks" \in EnabledIndexes
     THEN \/ /\ step' = [step EXCEPT ![s] = "bulk"]
             /\ \E read \in ReadMiniblocks(InHand(s)) : found' = [found EXCEPT ![s] = read]
             /\ UNCHANGED <<chainVars, items, historyVars>>
          \/ Retry(s)
     ELSE Continue(s, "transactions")
  /\ UNCHANGED <<blocksIndex, miniblocksIndex>>

SaveMiniblocks(s) ==
  /\ step[s] = "bulk"
  /\ LET b == InHand(s)
     IN \/ /\ miniblocksIndex' = BulkWritten(miniblocksIndex, b, body[b], found[s])
           /\ step' = [step EXCEPT ![s] = "transactions"]
        \/ /\ \E ms \in SUBSET body[b] :
                miniblocksIndex' = BulkWritten(miniblocksIndex, b, ms, found[s])
           /\ step' = [step EXCEPT ![s] = "header"]
  /\ found' = [found EXCEPT ![s] = {}]
  /\ UNCHANGED <<chainVars, items, historyVars, blocksIndex>>

SaveTransactions(s) ==
  /\ step[s] = "transactions"
  /\ \/ Complete(s)
     \/ "transactions" \in EnabledIndexes /\ Retry(s)
  /\ UNCHANGED <<blocksIndex, miniblocksIndex>>

-----------------------------------------------------------------------------
(* itemRemoveBlock.Save.  Neither removal asks whether its index is enabled. *)

RemovedHeaders(bs) ==
  [docs |-> blocksIndex.docs \ bs,
   searchable |-> blocksIndex.searchable,
   dirty |-> blocksIndex.dirty \cup bs]

RemoveHeader(s) ==
  /\ step[s] = "removeHeader"
  /\ LET wanted == {InHand(s)}
     IN \/ /\ ~Conflict(blocksIndex, wanted)
           /\ blocksIndex' = RemovedHeaders(Hits(blocksIndex, wanted))
           /\ Continue(s, "removeMiniblocks")
        \/ /\ \E bs \in SUBSET Hits(blocksIndex, wanted) : blocksIndex' = RemovedHeaders(bs)
           /\ Retry(s)
  /\ UNCHANGED miniblocksIndex

RemovedMiniblocks(ms) ==
  [docs |-> [m \in Miniblocks |-> IF m \in ms THEN NoDoc ELSE miniblocksIndex.docs[m]],
   searchable |-> miniblocksIndex.searchable,
   dirty |-> miniblocksIndex.dirty \cup ms]

RemoveMiniblocks(s) ==
  /\ step[s] = "removeMiniblocks"
  /\ LET b == InHand(s)
         wanted == Removable(b)
     IN IF body[b] = {}
        THEN Complete(s) /\ UNCHANGED miniblocksIndex
        ELSE \/ /\ ~Conflict(miniblocksIndex, wanted)
                /\ miniblocksIndex' = RemovedMiniblocks(Hits(miniblocksIndex, wanted))
                /\ Complete(s)
             \/ /\ \E ms \in SUBSET Hits(miniblocksIndex, wanted) :
                     miniblocksIndex' = RemovedMiniblocks(ms)
                /\ Retry(s)
  /\ UNCHANGED blocksIndex

-----------------------------------------------------------------------------
Worker(s) ==
  \/ Start(s)
  \/ SaveHeader(s)
  \/ GetExistingMiniblocks(s)
  \/ SaveMiniblocks(s)
  \/ SaveTransactions(s)
  \/ RemoveHeader(s)
  \/ RemoveMiniblocks(s)

Node(s) == (\E b \in Blocks : SaveBlock(s, b)) \/ RevertIndexedBlock(s)

Next == (\E s \in Shards : Node(s) \/ Restart(s) \/ Worker(s)) \/ RefreshBlocks \/ RefreshMiniblocks

Spec == Init /\ [][Next]_vars

\* The worker of s gets a request answered without an error.
Answered(s, request) ==
  step[s] = request /\ Worker(s) /\ step'[s] # FirstStep(items[s][1])

\* Workers run, Elasticsearch refreshes, and no kind of request fails for ever.
FairSpec ==
  /\ Spec
  /\ WF_vars(RefreshBlocks) /\ WF_vars(RefreshMiniblocks)
  /\ \A s \in Shards :
       /\ WF_vars(Worker(s))
       /\ \A request \in Steps \ {"idle"} : SF_vars(Answered(s, request))

-----------------------------------------------------------------------------
IndexState(Docs, Ids) == [docs : Docs, searchable : SUBSET Ids, dirty : SUBSET Ids]

TypeOK ==
  /\ chain \in [Shards -> Seq(Blocks)]
  /\ notarized \subseteq Miniblocks
  /\ items \in [Shards -> Seq(Item)]
  /\ queued \in [Shards -> Nat]
  /\ \A s \in Shards : queued[s] <= MaxItems[s]
  /\ restarts \in 0..MaxRestarts
  /\ step \in [Shards -> Steps]
  /\ \A s \in Shards : step[s] # "idle" =>
       /\ items[s] # <<>>
       /\ items[s][1].op = "remove" <=> step[s] \in {"removeHeader", "removeMiniblocks"}
  /\ found \in [Shards -> SUBSET Miniblocks]
  /\ indexed \subseteq Blocks
  /\ lost \subseteq Blocks
  /\ blocksIndex \in IndexState(SUBSET Blocks, Blocks)
  /\ miniblocksIndex \in IndexState(
       [Miniblocks -> [senderBlockHash : Blocks \cup {NoBlock},
                       receiverBlockHash : Blocks \cup {NoBlock},
                       exists : BOOLEAN]], Miniblocks)

\* The worker of its shard is between the first and the last request on b.
InProgress(b) ==
  step[shardOf[b]] # "idle" /\ InHand(shardOf[b]) = b

\* The blocks index tells the blocks saved from the blocks reverted, whatever
\* requests failed half-way and were repeated: a header is in it exactly when the
\* last item completed for it saved it.  A removal searches, so this needs the
\* header to be searchable from the moment it is written (Refresh "true").  Only
\* a block whose item was lost may be in it or not.
HeadersIndexed ==
  "blocks" \in EnabledIndexes =>
    \A b \in Blocks \ lost : ~InProgress(b) => (b \in blocksIndex.docs <=> b \in indexed)

\* Each hash of a miniblock document is that of a block of the right shard which
\* holds the miniblock, and a document has at least one of the two.
HashesInTheirPlace ==
  \A m \in Miniblocks :
    LET doc == miniblocksIndex.docs[m]
        from == doc.senderBlockHash
        to == doc.receiverBlockHash
    IN doc.exists =>
         /\ from # NoBlock \/ to # NoBlock
         /\ from # NoBlock => m \in body[from] /\ shardOf[from] = sender[m]
         /\ to # NoBlock => m \in body[to] /\ receiver[m] \in {shardOf[to], AllShards}

\* A miniblock its shard has sent and not reverted is in the database, and one
\* that stays in its shard names the block it is now in, even after forks that
\* put it in several blocks: in particular, a receiver that reverts its own
\* block does not remove the sender's miniblock.  (Not when the last item of the
\* block was lost in a restart.)
SentMiniblocksIndexed ==
  "miniblocks" \in EnabledIndexes =>
    \A b \in indexed \ lost : ~InProgress(b) =>
      \A m \in body[b] : sender[m] = shardOf[b] =>
        /\ miniblocksIndex.docs[m].exists
        /\ ~Cross(m) => miniblocksIndex.docs[m].senderBlockHash = b

\* The search order of a header in the index tells its shard and nonce from those
\* of every other, and puts the headers of a shard in the order of the nonces:
\* parts of variable length never run into one another, and no number is cut to 0
\* (a hundredth shard, or a nonce of one digit more than there is room for, would
\* do it).
SearchOrderSeparates ==
  \A b, c \in blocksIndex.docs :
    LET sameShard == shardOf[b] = shardOf[c]
    IN /\ SearchOrder[b] > 0
       /\ SearchOrder[b] = SearchOrder[c] => sameShard /\ nonceOf[b] = nonceOf[c]
       /\ sameShard /\ nonceOf[b] < nonceOf[c] => SearchOrder[b] < SearchOrder[c]

\* The promise to the readers of blocks and miniblocks, kept in steps of requests
\* that fail half-way and are repeated: a node works at the item in hand, and
\* completes it only when the indexes show it.
Current == [s \in Shards |-> IF step[s] = "idle" THEN NoItem ELSE items[s][1]]

Promise ==
  INSTANCE BlocksIndex
    WITH headers <- blocksIndex.docs, documents <- miniblocksIndex.docs,
         current <- Current, reported <- indexed

ImplementsBlocksIndex == Promise!Spec

\* Liveness: when the nodes stop, the blocks index becomes what is on the chains,
\* but for blocks whose items were lost.
Converges ==
  <>[](blocksIndex.docs \ lost = UNION {Chains!OnChain(s) : s \in Shards} \ lost)

\* "insert miniblock in database" when it is not there, otherwise "update sender
\* block hash" or "update receiver block hash" (serializeBulkMiniBlocks): no
\* write takes away a hash that the document has.
WritesKeepHashes ==
  [][\A m \in Miniblocks :
       LET old == miniblocksIndex.docs[m]
           new == miniblocksIndex'.docs[m]
       IN old.exists /\ new.exists =>
            /\ old.senderBlockHash # NoBlock => new.senderBlockHash # NoBlock
            /\ old.receiverBlockHash # NoBlock => new.receiverBlockHash # NoBlock]_vars

\* "Save will remove a block and miniblocks from elasticsearch database"
\* (itemRemoveBlock): once it has, no miniblock sent names the block.
RemovedMiniblocksAreGone ==
  \A b \in Blocks \ (indexed \cup lost) : ~InProgress(b) =>
    \A m \in Removable(b) : miniblocksIndex.docs[m].senderBlockHash # b
=============================================================================
