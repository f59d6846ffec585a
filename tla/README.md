# Verification of elastic-indexer-go

TLA+ models of the indexer that elrond nodes use to copy blocks, miniblocks,
transactions and accounts into Elasticsearch, the TLC runs that check them on
small instances, and TLAPS proofs. The reference is the Go code under `src/`;
line numbers in `PROJECT.json` ("map") say what each definition stands for.

Run inside this directory:

    tlc -workers 2 -config IndexerNode.cfg MCIndexerNode.tla
    tlapm DispatcherProofs.tla

## 1. The system

A node calls the **data indexer** (`dataIndexer.go`) at every block, revert,
round or rating. Each call wraps its arguments in a work item and gives it to the
**dispatcher** (`dataDispatcher.go`), a bounded channel with one worker
goroutine. The worker calls the item's `Save` (`workItems/`), which calls the
**elastic processor** (`elasticProcessor.go`): it prepares documents
(`dataParser.go`, `processTransactions.go`), serializes them into bulk bodies
(`common.go`) and sends them with the **elastic client** (`elasticClient.go`).
A `Save` that returns an error is run again from its start, for ever.

There is one such indexer per node, and one node per shard; all of them write
the same indexes of one database. So there are two levels of concurrency: the
goroutines and the worker inside a node, and the workers of all shards at the
database.

| component | state it keeps | operations | talks to | correct when |
|---|---|---|---|---|
| dispatcher | channel, back off time, cancelled context | StartIndexData, Add, doWork, Close | items' Save | items are saved in order, none lost; callers are held back; pauses bounded; Close ends the worker |
| data indexer | none | SaveBlock, RevertIndexedBlock, SaveRoundsInfo, SaveValidatorsRating, SaveValidatorsPubKeys, SaveAccounts | dispatcher | one fresh item per call |
| blocks and miniblocks | indexes "blocks", "miniblocks" | SaveHeader, SaveMiniblocks, RemoveHeader, RemoveMiniblocks | client: index, mget, bulk, delete by query | the index is what is on the chains; both hashes of a miniblock are kept |
| transactions | index "transactions" | SaveTransactions | client: bulk; accounts | the receiver's word wins over the sender's, the last block's over a reverted one's |
| grouping of transactions | none (per call) | prepareTransactionsForDatabase | transactions, accounts | each contract result is attached once, status and fee do not depend on map order |
| accounts | indexes "accounts", "accountshistory" | indexAlteredAccounts, SaveAccounts | accounts DB, client | both indexes tell the same balances, none read before its block; accounts of the last block show the current one |
| bulk buffers | list of buffers | PutData, serialize* | client | nothing lost or split, sizes below the threshold |
| elastic client | none | DoRequest, DoBulkRequest, DoMultiGet, DoBulkRemove, CheckAndCreate* | Elasticsearch | an error is reported when the request had no effect |
| factory and index set-up | templates, indexes, aliases in the database | NewIndexer, init* | client | several nodes may start at once and again |
| rounds, ratings, validators | their indexes | one request (or one per shard) each | client | idempotent by document id |

What makes it hard: items are repeated after partial effects; a search sees
less than a get; a read that decides a write is a separate request; two shards
share documents and may be far apart; forks index a miniblock or a transaction
again from another block; a bulk may fail in part inside an answer 200; an item
that never succeeds holds back all others, and the node; a node that is killed
comes back without its items, some of them half written. `PROJECT.json`
("hazards") lists these at their lines.

## 2. Modules

    SequentialIndexing     what the dispatcher promises          (abstract)
      ^ refined by
    Dispatcher             channel, worker, retries, Close
                                                DispatcherProofs TLAPS proofs
      ^ extended by
    IndexerNode            the six calls, their items' requests, and the answers
      MCIndexerNode        instances      IndexerNodeProofs TLAPS proofs

    ShardChains            the nodes' chains: what may be committed and reverted (external);
                           instantiated by BlockIndexing and TxIndexing

    MiniblockDocuments     what a write makes of the document of a miniblock
    BlockSearchOrder       the number blocks are sorted by
                                                BlockSearchOrderProofs TLAPS proofs
      ^ extended by
    BlockIndexing          save and remove items of all shards, blocks and miniblocks
      MCBlockIndexing      instances      BlockIndexingProofs TLAPS proofs
      v refines
    BlocksIndex            what the indexers promise of the blocks     (abstract)

    TransactionDocuments   what a write makes of the document of a transaction
      ^ extended by
    TxIndexing             writes of transactions by all shards
      MCTxIndexing         instances      TxIndexingProofs TLAPS proofs
      v refines
    TransactionsIndex      what the indexers promise of the transactions (abstract)

    TxGrouping             from a block and its pool to bulk bodies; instantiates
                           TransactionDocuments to compare its documents with it
      MCTxGrouping         inputs         TxGroupingProofs TLAPS proofs
    AccountsIndexing       balances and their history
      MCAccountsIndexing   instance       AccountsIndexingProofs TLAPS proofs
    ElasticResponse        what the client makes of an answer
      ^ extended by IndexerNode and
    Bootstrap              templates, indexes and aliases, several nodes starting
      MCBootstrap          instance       BootstrapProofs TLAPS proofs

**Dispatcher.** `queue` is the channel with the senders parked on it: its first
`CacheSize` elements are buffered. `Add` is a call up to the point where the
runtime has its item, `AddReturn` its return, possible once the item is no longer
parked. `Receive` and `Stop` are the two branches of the worker's select, with a
random choice when both are ready. `SaveSucceeds`, `SaveBacksOff` and
`SaveFails` are the three outcomes of `wi.Save()` in doWork with what it does to
`backOffTime`, `Wake` the end of a sleep, `Close` the cancellation. There is no
clock: a sleep has a duration, in `delay`, and ends at some later step.
`submitted` and `saved` are history variables. An item in `Poison` never
succeeds; which items these are is IndexerNode's to say. Dispatcher has no runs of its
own: its properties are checked of the node, whose steps are its steps.

**IndexerNode.** The whole path inside one node. Dispatcher leaves open how a
Save ends; here `calls` says which of the six methods an item comes from,
`Requests` which requests its Save makes on the enabled indexes, and `DoRequest`
makes the next one: `Send` with an effect on `documents` and an answer,
which parseResponse (ElasticResponse) turns into one of the outcomes of
Dispatcher; `Get` for a multi get, whose error is swallowed and leaves an empty
bulk to be sent. `todo` is what is left of the attempt: a sequence of sets,
because SaveValidatorsPubKeys ranges over a map. A block without a header makes no request
and is saved; a body of the wrong type ends the attempt with an error of Save's own
(`Failure`), before the header of a block is written but after that of a reverted one is
removed. Calls with such a body, and one without rounds, are the only ones no database can
save (`Hopeless`): `SettingsAssumption` says that their items are the poisoned ones. A
database that is not in reach may apply any part of a request and answer anything; one that is in reach applies
all of it. A document is only the item that last wrote it, so that the property
speaks of order and completeness, and the three modules on data of what is in it.
The actions of Dispatcher are conjuncts of the node's, so that what is checked of
Dispatcher is checked of the node, with the outcomes its items really have.

**ShardChains.** Not code of the repository: the order in which nodes call
SaveBlock and RevertIndexedBlock. A receiver includes what is on the sender's
chain, a sender does not revert what was included elsewhere, and a parcel is at
most once on a chain, so that a second block that has it replaces a reverted
one. The parcels are miniblocks in one instance and transactions in the other.

**BlockIndexing.** `step[s]` is the request the worker of shard s does next:
header, mget, bulk, transactions for a save item, removeHeader, removeMiniblocks
for a remove item. Each action is one request with all its outcomes: done; not
done, or done in part, and answered by an error, after which the item begins
again. `found[s]` is the answer of the multi get, used one request later. An
index is its documents, the ids a search finds (`searchable`), and the ids
written since the last refresh (`dirty`): index, get and bulk work on the
documents, delete by query on what is searchable, and it fails with a conflict
on a dirty one. The header is written with Refresh "true", the miniblocks are
not. Documents keep only their hashes; a block stands for its header hash.
With `DocumentErrors`, a multi get may fail for some of its documents, which the
code reads as documents that are not there. `Restart` kills the node between two
requests: the chain is on its disk, the items are gone, what they had written is
not. `lost` remembers their blocks, which the properties leave out until a later
item about them completes: the claim is that a restart harms nothing else.

**BlocksIndex** is the same for a reader of the two indexes, who sees neither items in a
queue nor requests. The node of a shard begins an item, writes what the item is about, in any
part and any number of times (`WriteSome`), and reports it when the indexes show it (`Shows`),
or is lost. What a write may be is MiniblockDocuments, which both extend. In the
mapping, `Current` is the item in hand while the worker has a step to do, the documents
are those of the indexes, and `reported` is `indexed`; the queue, the step, what searches find
and what multi gets have answered are not visible. Shows promises the header, and what the
block's shard has sent; of the miniblocks of a removed block it promises nothing, because
of blocks_removal.

**BlockSearchOrder.** computeBlockSearchOrder as a function on numbers, with the
wrap of the 32-bit shard and the limit of 64 bits. Checked at a smaller scale:
three digits of nonce for seventeen, 184467 for 2^64 - 1, all shards with at most
two digits after the shift by two that leave that room. Proved at every scale, the
code's own included. The padding of the format is `PowerAbove`, the power of ten
with one digit more than a number, by which what stands before it is multiplied.
BlockIndexing extends it: `SearchOrder[b]` is the number saved with the header of b.

**TxIndexing.** A document is the block its insert came from and the block its
updated fields come from, enough to tell the three kinds of write apart:
overwrite (intra-shard or invalid), upsert that updates (destination), upsert
that does not (source). A bulk has two steps, because Elasticsearch runs an
update as a read and a conditional write: `SendBulk` (read) and `BulkAnswered`
or `BulkFailed` (write of all, or of any part). With `ItemConflicts`, an item
whose document was written in between fails on its own and the bulk is still
answered by 200. Bulks divide a block in any way, as the order of the documents
is that of a Go map. `EnabledAt` are the shards whose nodes
index transactions; the blocks of others have nothing to write. `AccountsFailed` is the part
of SaveTransactions that may fail after all transactions are written. `Restart` may come while
Elasticsearch is at a bulk, any part of which it then writes; `lost[s]` is as in
BlockIndexing, one set per node.

**TransactionsIndex** is the reader's view: a node works at one block, writes documents of the
block, each by one of the three writes of TransactionDocuments, in any part and any
number of times, and reports the block only when every document shows it; or it is lost, and
its last bulk may still be written (`Lose`). In the mapping, `current` is the block in hand
of a working node and `reported` is `lastIndexed`: queues, bulks in flight, what they read and
what is left to send are gone.

**TxGrouping.** One call of SaveTransactions up to its first request: what
TxIndexing starts from. `GroupMiniblock` takes the transactions or rewards of
one miniblock out of the pool, `GroupResults` collects the contract results and
their receivers, `AttachResult` is one iteration of the loop that ranges over
`scResults` while it deletes from it: `toVisit` holds the entries the range has
not reached, and a deleted one leaves both. `Settle` is the loop that decides
status and gas, `Serialize` and `LastBuffer` cut the documents into buffers. The
properties compare the end with definitions that know of no order: `ResultsOf`
and `Outcome`. `Block` is TransactionDocuments, TxIndexing's view of a block, with the
block of this call as its only one; `DocumentsOfTheBlock` says that what TxIndexing starts
from is what the grouping ends with: the same documents, import mode or not, the same ones
taken for invalid, and none "pending" that the receiver's node writes.

**AccountsIndexing.** One node, as accounts are written by the node of their
shard only. Its chain moves while its worker loads accounts one by one
(`LoadAccount`), writes them (`SaveAccounts`) and then their history
(`SaveHistory`); either bulk may write any part, after which the item begins
again with other balances. Where the transactions are not indexed, SaveTransactions
returns before it loads anything (`AlteredAccounts`). A balance is the block that last altered the account,
with the time it was read at, which only the properties use. SaveAccounts items
bring the balances of the time of the call. The accounts of items lost in a
`Restart` join those that could not be loaded, or were not asked for, in `missed`.

**Bootstrap.** `Templates` are those NewIndexer passes on: one for each index and
"opendistro", so that the case of a template that is not found (getTemplateByName) does not
arise. `at[n]` is the object (template, index or alias) node n makes sure
of, `missing[n]` that it was not found: `CheckExists` is the first request,
`Create` the second, with its effect, its answer, or neither. `AfterAnswer` is
what parseResponse (ElasticResponse) makes of the answer: go on, or end the start.
`Write` is what a started node does next; without the alias Elasticsearch would
create an index of its own.

Assumed of Elasticsearch: requests on one document are atomic; a get by id sees
every write; a search sees the last refresh; an empty bulk is refused; a failed
request has had no effect, its effect, or part of it, and has none later. (A
request that is given up and reaches the database after its item was repeated
would break every property on order: documents have no versions.) Items of a
bulk that fail on their own inside an answer 200 are in TxIndexing only.
IndexerNode is one life of a process; restarts are in the three modules on data,
where they matter.

## 3. Runs

| run | checks | bounds | result |
|---|---|---|---|
| node | NodeTypeOK, NothingLostOrReordered, Backpressure, BackOffBounds, RecordsOfLastSaved, ImplementsDispatcher and Sequential (refinements, with fairness), EventuallySaved, AddReturns, CloseStopsWorker | 2 producers, 3 items, channel of 1; pauses 10, 13 and 3; four settings that together have all six methods | hold |
| node_close | CloseStopsWorker | one item no database can save: a block with a wrong body, or no rounds | violated: Close does not end a worker that retries |
| blocks_safety | TypeOK, HeadersIndexed, HashesInTheirPlace, SentMiniblocksIndexed, SearchOrderSeparates | 2 shards (9 and the metachain), 3 blocks (a fork; nonces 5, 10 and 15), 3 miniblocks, 3 and 2 items, 1 restart, multi gets that fail in part | hold |
| blocks_liveness | ImplementsBlocksIndex (refinement), Converges | 1 cross-shard and 1 intra-shard miniblock, 2 items per node (two blocks, or one and its revert), 1 restart | hold |
| blocks_hashes | WritesKeepHashes | as blocks_safety with 3 items per node, no restart, no partial multi gets | violated: two inserts race, one hash is lost |
| blocks_removal | RemovedMiniblocksAreGone | as blocks_hashes | violated: unrefreshed miniblocks survive a revert |
| txs_safety | TypeOK, ExecutedFieldsKept, ForkRewritesIntraShard, ImplementsTransactionsIndex (refinement) | 2 shards, 4 blocks (a fork on each), 3 transactions, 2 blocks per node, 1 restart, no item conflicts | hold |
| txs_liveness | StaysExecuted, ExecutedEventually | 1 cross-shard transaction, 1 restart | hold |
| grouping | TypeOK, ResultsAttachedOnce, OutcomeOfTheBlock, DocumentsOfTheBlock, AlteredAddressesComplete, BuffersComplete | 3 transactions (executed, outgoing, invalid), 1 reward, 3 results of any origin and outcome, 5,652 inputs | hold |
| accounts | TypeOK, HistoryAgrees, HistoryNotEarlier, CaughtUp, EventuallyCaughtUp | 2 accounts, 2 blocks, 1 SaveAccounts call, reverts, 1 restart | hold |
| bootstrap | TypeOK, StartedFindsEverything, IndexesHaveMappings, CollisionsAreHarmless, DocumentsHaveMappings | 3 nodes, 2 indexes, any number of restarts and failures | hold |
| txs_conflict | ExecutedFieldsKept | as txs_safety with item conflicts, no restart | violated: a lost update leaves an executed transaction pending |

The bounds are on what is submitted, never on failures: every request may fail
any number of times, and refreshes come at any moment. Items are bounded because
each is submitted once: in the node run, two producers and three items put one in
the worker's hands, one in the channel and a sender parked behind it (the proofs
are for any number of each). One fork and one re-inclusion are the
shortest history in which a document is written by three blocks. The pauses of
the node run are scaled, 10 rising to 13 for ten seconds rising to five minutes, so
that the back off passes its cap in two steps; node_close has the code's own.
One restart is enough for an item to be lost, before or after the other shard's, and
for its block to be saved or reverted later over what it has left: every item
after it is as after the first start. The settings of the node run are a block
indexed with its accounts, reverted and indexed again without a body; the validators of
two shards and overlapping rounds twice, on a node that does not index miniblocks; and
accounts saved before a block that alters one of them, and a rating, on a node that
indexes no headers; and a block without a header, then one without miniblocks, saved and
removed, on a node that indexes headers only. No passing setting has an item that cannot be
saved: what then holds of the items behind it, and of their callers, is nothing.
The numbers behind the search orders are the shortest with which a missing digit shows:
without the padding, shard 9 with nonce 5 has the order of another block of the run.
blocks_liveness leaves out multi gets that fail in part, which blocks_safety has.
The transaction and account runs enable every index; the proofs are for any choice.
Three results are the fewest of which one comes from
another that comes from a transaction, with a third beside them; results that
refund gas are at most one per input, as the protocol sends them. Three nodes
start in bootstrap so that two can collide while a third finds half of the objects.
Symmetry (the nodes) is used in bootstrap only. The transaction and account runs
allow deadlock, since their nodes have a last block after which their indexers are
idle, and so does grouping, a call that returns. In the other runs a Close,
a refresh or a restart is always possible, so that a deadlock of the rest shows as a
liveness property that fails, not as a deadlock of the run.

**Fairness.** `Scheduled`: a goroutine that can move does, which the Go
scheduler provides; nothing is assumed of the node (no fairness on Add or Close)
or of what Save answers. `NodeFairSpec` adds that an outage ends: an item that is
tried again and again has an attempt that finds the database in reach (strong
fairness of `NodeWake /\ reachable'`). It says nothing of the attempt itself;
that it then goes through, from the first request to the last, is what
`ImplementsDispatcher` checks: the FairSpec of Dispatcher, where an item that is not
poisoned and is tried again and again is saved (strong fairness of SaveSucceeds). In BlockIndexing, TxIndexing and
AccountsIndexing the same is said of each kind of request, since an item is repeated as a whole; refreshes
are weakly fair (the refresh interval). node_close is violated under
fairness, so it is not a system that merely stops.

**Findings.** The four violated runs are disagreements between the code and
what its comments say of it; `PROJECT.json` ("findings") quotes both.

## 4. Proofs

`DispatcherProofs` proves for every set of producers and items, every channel
capacity and every choice of pauses:

- `TypeCorrect`: Spec => []TypeOK, inductive as it stands, and in the run a conjunct of
  NodeTypeOK;
- `InOrder`: Spec => []NothingLostOrReordered, inductive with TypeOK. It is
  what makes the channel and the worker one queue: a receive shifts the boundary
  between `queue` and `current`, a success the one between `current` and `saved`;
- `BackpressureHolds`: Spec => []Backpressure. Not inductive: it speaks of
  positions in `submitted` and AddReturn of positions in the queue; the invariant
  of InOrder links the two, and a strengthening says that each parked item has
  its producer in Add;
- `BackOffBounded`: Spec => []BackOffBounds, by the arithmetic of
  increaseBackOffTime under `DurationAssumption`;
- `Implements`: Spec => Promise!Spec, the safety part of the refinement: every
  step of the dispatcher is a Submit, a SaveNext, a Close or a stutter of
  SequentialIndexing. It needs InOrder, for the item saved to be the next one.

`IndexerNodeProofs` proves for every choice of calls behind the items and of
enabled indexes, and any history of outages:

- `NodeIsSequential`: NodeSpec => Promise!Spec, from `NodeImplements` (NodeSpec => Spec:
  every step of the node is one of Dispatcher or leaves its variables alone) and
  `Implements`. With `NodeInOrder`, what Dispatcher says of Save as one step holds of
  items made of requests;
- `NodeTypeCorrect`: NodeSpec => []NodeTypeOK;
- `DatabaseIsWhatWasSaved`: NodeSpec => []RecordsOfLastSaved. Not inductive: when an item
  is saved, its records must all be its own. `RestIsPending` says so step by step: a
  record of the item in hand that the requests of `todo` do not write has been written,
  or there is no attempt. It holds at the start of an attempt because its requests
  cover the item's records (`AttemptComplete`, kind by kind), and at each request because
  one that is not applied whole is not answered by a success (`NotDoneIsNotOK`).

`BlockIndexingProofs` proves for every set of shards, blocks and miniblocks, any
enabled indexes and any history of commits, reverts, refreshes and failures:

- `TypeCorrect`: Spec => []TypeOK. The invariant also says that the blocks of a
  node's chain and items are its own, so that the worker of a shard is the only
  one that has a given block in hand;
- `HeadersCorrect`: Spec => []HeadersIndexed. The strengthening `HeaderInv` has
  two parts: a header in the index is searchable and not dirty (which Refresh
  "true" buys, and without which a removal would not find it), and in the middle
  of an item the step of the worker tells whether the header is there. An item
  that fails goes back to its first step, where nothing is claimed;
- `HashesCorrect`: Spec => []HashesInTheirPlace. Inductive: each write is right
  whatever the document was and however stale the answer of the multi get is, so
  that the race behind blocks_hashes loses a hash but never writes a wrong one;
- `SentAreIndexed`: Spec => []SentMiniblocksIndexed. The invariant has two halves. `Queues`
  carries the exclusivity of the chains over to the items in flight: replay the first
  k items of a worker on the blocks its shard has standing in the database
  (`Replayed`); the result never shares a miniblock with the block of the next item, and after
  the last one it is within what is on the chain. So, at the moment an item is worked
  on, no other standing block of its shard has its miniblocks. `SentInv` says what the
  database shows meanwhile: every standing block's own miniblocks are there, the answer of the
  sender's multi get is still right when its bulk is applied (`SentAtStep`), since no
  other worker removes such a document or changes the sender's hash (`KeptFor`), and
  a removal only takes those of the block in hand;
- `HeadersInOrder`: if the numbers fit their widths (`WidthsFit`), Spec =>
  []SearchOrderSeparates. Every header in the index is that of a block, of a shard of the
  network, so that `OrdersSeparate` applies to any two of them;
- `KeepsThePromise`: Spec => ImplementsBlocksIndex, for which HeaderInv, Queues and
  SentInv are what an implementation has to know. Each request is a `Write` of the
  abstract indexes, or the `Report` of its item if it is the last (`RequestPromised`, and one
  lemma per request); commits, reverts, refreshes and multi gets do not show; a
  restart is a `Lose`. That the indexes show a save when it is reported is HeaderInv and
  SentInv at the worker's last step: nobody has undone, since it wrote them, what its
  earlier requests wrote.

`TxIndexingProofs` proves for every set of shards, blocks and transactions:

- `TypeCorrect`: Spec => []TypeOK;
- `ReceiverHasTheLastWord`: without item conflicts, Spec => []ExecutedFieldsKept;
- `LastBlockRewrites` and `NoneMissing`: Spec => []ForkRewritesIntraShard and
  Spec => []IndexedHaveDocs, with or without item conflicts. All three follow from
  one invariant, `IndexingInv`: from the moment a bulk is answered until its item
  starts again the documents show the block in hand, and afterwards what the last
  item of their own shard wrote;
- `NeverPendingAgain`: Spec => StaysExecuted, an action property, with or without
  item conflicts: a document that shows the receiver's fields never goes back to the
  sender's. It needs only the types, which say that a bulk is of the block in hand, and what
  one write makes of one document (`WrittenStaysExecuted`). Together with
  txs_conflict: a conflict can keep a document pending, it cannot make it so again;
- `KeepsThePromise`: without item conflicts, Spec => ImplementsTransactionsIndex. Every
  bulk, answered, failed or in flight at a restart, is a `WriteSome` of the block in hand
  (`BulkWritesSome`), and IndexingInv says at the end of a block that each of its documents
  shows it, whatever the other nodes have written since it was sent. The hypothesis is needed:
  txs_conflict is a run in which a block is reported that a document does not show.

`AccountsIndexingProofs` proves for every set of accounts and blocks, every choice of
what the blocks alter, and any history of commits, reverts, loads, failed bulks and
restarts:

- `TypeCorrect`: Spec => []TypeOK;
- `IndexesAgree`: Spec => []HistoryAgrees. While the history is written, the index of
  accounts has the balances of this attempt, not of an earlier one (`JustWritten`);
- `HistoryIsLater`: Spec => []HistoryNotEarlier. The block of an item is committed
  before the item is queued, and what an item brings or loads is read later;
- `CatchesUp`: Spec => []CaughtUp. Three facts for each account whose last change
  is a commit: a balance read since that change is the current one, wherever it
  waits to be written (`ReadsAreRight`); the last of the waiting items about the
  account writes one that is read since (`NewestUpToDate`); and when none waits,
  the index has such a one (`IndexUpToDate`). Older items may still write an older
  balance in between, which is why nothing is claimed while one waits.

`TxGroupingProofs` proves for every set of hashes, every block and pool, and every order
of the maps:

- `AttachedOnce`: Spec => []ResultsAttachedOnce. The invariant of the loop that deletes
  from the map it ranges over: a transaction has those of its results that have left
  the map (`AttachedIfGone`), and a result of a transaction is in the map together with
  its own results until the range reaches it, and then none of them is
  (`GoneTogether`). No result has two transactions (`OneTransaction`), so that no iteration
  takes what another one needs;
- `OutcomeIsTheBlocks`: Spec => []OutcomeOfTheBlock. On top of that, the counter of a
  transaction is the number of its results that have left the map, and its gas is of
  one of those that refund it, if any (`CountedSoFar`);
- `DocumentsAreComplete`: Spec => []DocumentsOfTheBlock, the link to TxIndexing. The
  documents are those of the miniblocks grouped so far (`DocumentsInv`, miniblock by
  miniblock), and their status is OutcomeOfTheBlock's. That a transaction is taken for invalid
  by its own miniblock only, and that no pending one is the receiver's, needs WellFormed;
- `AlteredAreComplete`: Spec => []AlteredAddressesComplete, miniblock by miniblock;
- `TypeCorrect`: Spec => []TypeOK, with the fact that a transaction counts as many
  results as are in its list: an iteration adds one for each of a family to the sum
  of the list (`SumOfIncremented`) and their number to the counter;
- `BuffersAreComplete`: Spec => []BuffersComplete. The full buffers and the current one
  (`Buffers`) are at any time a right division of what has been written (`Cut`): a document
  that does not fit begins a buffer (`BeginsBuffer`), and one that fits can only
  make the sum of two neighbours larger (`FillsBuffer`). LastBuffer hands over just that.

`BlockSearchOrderProofs` proves, for every number of shards, nonces and largest order:

- `OrdersSeparate`: if the shard has two digits after its shift and the last order fits
  (`WidthsFit`), then OrdersTellBlocksApart: no order is 0, two that are equal are of one
  shard and nonce, and in a shard they grow with the nonce. Powers above two numbers are equal
  or differ ten times at least (`PowersApart`), and the prefix has three digits that
  begin with 1: so orders with nonces of different lengths cannot meet, and
  those of one length are told apart by prefix, then by nonce (`OrdersDiffer`);
- `SixtyFourBitsSeparate`: the widths of the code satisfy it, with 82 shards and nonces
  of up to 17 digits. One shard more would not fit.

**Recursive definitions.** The sums of TxGrouping (`SumFunctionOnSet`) and PowerAbove are
defined by recursion. The induction theorems of the library take the
property as an operator, which the provers cannot instantiate, so both are
reasoned about through an element that would be the least to refute what is claimed:
a smallest set by inclusion (`SmallestSet`), or a least number (`LeastNat`), which
WFMin gives. The first step is each time the same: approximations exist and agree
(`SumsExist`, `SumsAgree`; `PowersExist`, `PowersAgree`), hence the recursive equation holds
(`SumUnfolds`, `PowerUnfolds`). From it follow, for sums, that the order of the summands does
not matter (`SumTakesOut`) and what one more does (`SumAddsOne`).

`BootstrapProofs` proves for every set of nodes, every list of indexes and any
history of starts, stops, failed requests and lost answers:

- `TypeCorrect`: Spec => []TypeOK;
- `NothingMissing`: Spec => []StartedFindsEverything. The strengthening `MadeSure`
  says that the objects before `at[n]` are in the database: a failed answer is
  never taken for a done one (`FailedAnswerFacts`), so a node only goes on when
  its object is there, whoever created it;
- `TemplatesFirst`: Spec => []IndexesHaveMappings. By MadeSure the template is
  there when a node gets to the index (`Positions`: where each object has the
  one it needs in the order), although another node may create the index first;
- `StartsDoNotCollide`: Spec => []CollisionsAreHarmless. Each answer of the
  database to a creation is a success or the collision that parseResponse
  accepts: the others need an alias without its index, or an index the database
  created by itself, which MadeSure and the next one exclude;
- `WritesFindMappings`: Spec => []DocumentsHaveMappings.

Assumed: only the ASSUMEs of the modules. Those of Dispatcher (capacity a natural
number, positive first back off not above the cap, nil not an item) are what the
code's constants and NewDataDispatcher establish; those of BlockIndexing and
TxIndexing give the constants their shape (a miniblock of a block has it as its
sender's or its receiver's; one for all shards is a peer miniblock, and "all shards" is
not a shard), that of AccountsIndexing too, that of IndexerNode says
that each item is one of the six calls and which of them are poisoned, and that of Bootstrap that the indexes are a
sequence of strings. TxGrouping has two: the shape of its constants, and that the bodies
are what the protocol accepts (`WellFormed`: each hash in one miniblock, of the type of
what it stands for and between the shards of its sender and receiver). AttachedOnce
does without the second.

A restart takes no proof apart: items in hand or queued join `lost`, and the invariants
quantify over what is not lost, until a later item about it completes.

Three theorems about a specification have a hypothesis. `~ItemConflicts`, of ReceiverHasTheLastWord and of
KeepsThePromise in TxIndexingProofs, is a setting under which the code meets the promise;
txs_conflict shows that it does not without. `WidthsFit`, of HeadersInOrder, is a fact about the
network: SixtyFourBitsSeparate shows that 82 shards and 17 digits have it, and TLC
evaluates it for the runs on blocks.

Every invariant, every action property and the safety part of every refinement that a passing
run checks is proved. Liveness is only model-checked (Sequential's and ImplementsDispatcher's
fairness, AddReturns, EventuallySaved, CloseStopsWorker, Converges,
ExecutedEventually, EventuallyCaughtUp): the provers do not reason about ENABLED, which
fairness is made of. That ImplementsDispatcher holds but for its fairness is `NodeImplements`.

## 5. Not modelled

The nil indexer (empty methods), templates and policies (static documents; the
policies are not even created), mocks, logging, and code nobody calls
(prepareTxLog, getGasUsedFromReceipt, PutData of data/buffer.go,
CheckAndCreatePolicy and what it calls). Late effects of requests that were given up
are left out (see "Assumed of Elasticsearch"), and restarts in IndexerNode, where
they would only end one life of the process. Serialization errors are left out: the documents are plain
structures that encoding/json does not refuse. Indexes deleted while nodes run are
left out too.

What the account properties leave out is as telling as what they say: an account
that could not be loaded, or was not because its block's transactions are not indexed
(`missed`), and one whose last change was a revert,
may show an old balance until it changes again, and nothing in the code repairs that. Nor
do they bound a balance from above: a history record may show one of a later block, and
the balances of one item may be of several. After Close, items still in the channel are
dropped and callers parked on it stay there; Sequential permits it and AddReturns excuses it.

## 6. What could come next

The refinements are of single components. A specification of what a reader of the whole
database may rely on would join BlocksIndex, TransactionsIndex and the accounts: when
a block is reported, its header, miniblocks, transactions and balances are there together.
The code gives it within one item, in the order of its requests, and takes it back
only in part when the block is reverted: RemoveTransactions does nothing. Requests that take
effect after they were given up, which nothing in the code excludes, would need versions in
the documents, and are left to a model of them.
