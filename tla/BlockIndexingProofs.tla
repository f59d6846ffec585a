------------------------- MODULE BlockIndexingProofs ------------------------
(***************************************************************************)
(* Proofs about BlockIndexing for every set of shards, blocks and          *)
(* miniblocks, every choice of enabled indexes and every history of        *)
(* commits, reverts, refreshes and failures.                               *)
(***************************************************************************)
EXTENDS BlockIndexing, BlockSearchOrderProofs

LEMMA AppendFacts ==
  ASSUME NEW S, NEW seq \in Seq(S), NEW e \in S
  PROVE  /\ Append(seq, e) \in Seq(S)
         /\ Append(seq, e) # <<>>
         /\ seq # <<>> => Append(seq, e)[1] = seq[1]
         /\ \A i \in 1..Len(Append(seq, e)) :
              Append(seq, e)[i] = e \/ (i \in 1..Len(seq) /\ Append(seq, e)[i] = seq[i])
  OBVIOUS

LEMMA TailFacts ==
  ASSUME NEW S, NEW seq \in Seq(S), seq # <<>>
  PROVE  /\ seq[1] \in S
         /\ 1 \in 1..Len(seq)
         /\ Tail(seq) \in Seq(S)
         /\ \A i \in 1..Len(Tail(seq)) : i + 1 \in 1..Len(seq) /\ Tail(seq)[i] = seq[i + 1]
  OBVIOUS

LEMMA PrefixFacts ==
  ASSUME NEW S, NEW seq \in Seq(S), seq # <<>>
  PROVE  /\ SubSeq(seq, 1, Len(seq) - 1) \in Seq(S)
         /\ seq[Len(seq)] \in S
         /\ Len(seq) \in 1..Len(seq)
         /\ \A i \in 1..Len(SubSeq(seq, 1, Len(seq) - 1)) :
              i \in 1..Len(seq) /\ SubSeq(seq, 1, Len(seq) - 1)[i] = seq[i]
  OBVIOUS

-----------------------------------------------------------------------------
(* The types of what the code writes. *)

DocType == [senderBlockHash : Blocks \cup {NoBlock},
            receiverBlockHash : Blocks \cup {NoBlock},
            exists : BOOLEAN]

BlocksIndexType == IndexState(SUBSET Blocks, Blocks)
MiniblocksIndexType == IndexState([Miniblocks -> DocType], Miniblocks)

LEMMA MiniblockOfType ==
  ASSUME NEW b \in Blocks, NEW m \in Miniblocks
  PROVE  MiniblockOf(b, m) \in DocType /\ MiniblockOf(b, m).exists
  BY DEF MiniblockOf, Doc, DocType

LEMMA WrittenType ==
  ASSUME NEW b \in Blocks, NEW m \in Miniblocks, NEW exist, NEW doc \in DocType
  PROVE  Written(b, m, m \in exist, doc) \in DocType
<1>1. MiniblockOf(b, m).senderBlockHash \in Blocks \cup {NoBlock}
      /\ MiniblockOf(b, m).receiverBlockHash \in Blocks \cup {NoBlock}
  BY DEF MiniblockOf, Doc
<1>2. [doc EXCEPT !.senderBlockHash = MiniblockOf(b, m).senderBlockHash] \in DocType
  BY <1>1 DEF DocType
<1>3. [doc EXCEPT !.receiverBlockHash = MiniblockOf(b, m).receiverBlockHash] \in DocType
  BY <1>1 DEF DocType
<1> QED
  BY <1>2, <1>3, MiniblockOfType DEF Written

LEMMA BulkWrittenType ==
  ASSUME NEW index \in MiniblocksIndexType, NEW b \in Blocks,
         NEW ms \in SUBSET Miniblocks, NEW exist \in SUBSET Miniblocks
  PROVE  /\ BulkWritten(index, b, ms, exist) \in MiniblocksIndexType
         /\ BulkWritten(index, b, ms, exist).docs =
              [m \in Miniblocks |-> IF m \in ms THEN Written(b, m, m \in exist, index.docs[m])
                                                ELSE index.docs[m]]
<1> DEFINE new(m) == Written(b, m, m \in exist, index.docs[m])
           touched == {m \in ms : m \notin exist \/ new(m) # index.docs[m]}
<1>1. index.docs \in [Miniblocks -> DocType] /\ index.searchable \in SUBSET Miniblocks
      /\ index.dirty \in SUBSET Miniblocks
  BY DEF MiniblocksIndexType, IndexState
<1>2. ASSUME NEW m \in Miniblocks PROVE new(m) \in DocType
  <2>1. index.docs[m] \in DocType
    BY <1>1
  <2> QED
    BY <2>1, WrittenType
<1>3. [m \in Miniblocks |-> IF m \in ms THEN new(m) ELSE index.docs[m]] \in [Miniblocks -> DocType]
  BY <1>1, <1>2
<1>4. index.dirty \cup touched \in SUBSET Miniblocks
  BY <1>1
<1> HIDE DEF new, touched
<1>5. BulkWritten(index, b, ms, exist) =
        [docs |-> [m \in Miniblocks |-> IF m \in ms THEN new(m) ELSE index.docs[m]],
         searchable |-> index.searchable,
         dirty |-> index.dirty \cup touched]
  BY DEF BulkWritten, new, touched
<1>6. BulkWritten(index, b, ms, exist) \in MiniblocksIndexType
  BY <1>1, <1>3, <1>4, <1>5 DEF MiniblocksIndexType, IndexState
<1> QED
  BY <1>5, <1>6 DEF new

LEMMA IndexedHeaderFacts ==
  ASSUME NEW index \in BlocksIndexType, NEW b \in Blocks
  PROVE  /\ IndexedHeader(index, b) \in BlocksIndexType
         /\ IndexedHeader(index, b).docs = index.docs \cup {b}
         /\ IndexedHeader(index, b).searchable = index.searchable \cup {b}
         /\ IndexedHeader(index, b).dirty = index.dirty \ {b}
  BY DEF IndexedHeader, BlocksIndexType, IndexState

LEMMA RemovedHeadersFacts ==
  ASSUME blocksIndex \in BlocksIndexType, NEW bs \in SUBSET Blocks
  PROVE  /\ RemovedHeaders(bs) \in BlocksIndexType
         /\ RemovedHeaders(bs).docs = blocksIndex.docs \ bs
         /\ RemovedHeaders(bs).searchable = blocksIndex.searchable
         /\ RemovedHeaders(bs).dirty = blocksIndex.dirty \cup bs
  BY DEF RemovedHeaders, BlocksIndexType, IndexState

LEMMA RemovedMiniblocksFacts ==
  ASSUME miniblocksIndex \in MiniblocksIndexType, NEW ms \in SUBSET Miniblocks
  PROVE  /\ RemovedMiniblocks(ms) \in MiniblocksIndexType
         /\ RemovedMiniblocks(ms).docs =
              [m \in Miniblocks |-> IF m \in ms THEN NoDoc ELSE miniblocksIndex.docs[m]]
<1>1. NoDoc \in DocType
  BY DEF NoDoc, DocType
<1> QED
  BY <1>1 DEF RemovedMiniblocks, MiniblocksIndexType, IndexState

-----------------------------------------------------------------------------
(* Type correctness, with what the workers' requests rest on: the step of a *)
(* worker fits its item, and a node's chain and items are of its own shard. *)

StepOK(s) ==
  step[s] # "idle" =>
    /\ items[s] # <<>>
    /\ items[s][1].op = "remove" <=> step[s] \in {"removeHeader", "removeMiniblocks"}

OwnBlocks(s) ==
  /\ \A i \in 1..Len(chain[s]) : shardOf[chain[s][i]] = s
  /\ \A i \in 1..Len(items[s]) : shardOf[items[s][i].block] = s

ControlOK ==
  /\ chain \in [Shards -> Seq(Blocks)]
  /\ notarized \subseteq Miniblocks
  /\ items \in [Shards -> Seq(Item)]
  /\ queued \in [Shards -> Nat]
  /\ \A s \in Shards : queued[s] <= MaxItems[s]
  /\ restarts \in 0..MaxRestarts
  /\ step \in [Shards -> Steps]
  /\ \A s \in Shards : StepOK(s)
  /\ \A s \in Shards : OwnBlocks(s)
  /\ found \in [Shards -> SUBSET Miniblocks]
  /\ indexed \subseteq Blocks
  /\ lost \subseteq Blocks

StoreOK == blocksIndex \in BlocksIndexType /\ miniblocksIndex \in MiniblocksIndexType

LEMMA ControlAndStore == ControlOK /\ StoreOK => TypeOK
  BY DEF ControlOK, StoreOK, TypeOK, StepOK, BlocksIndexType, MiniblocksIndexType, DocType

LEMMA InHandType ==
  ASSUME ControlOK, NEW s \in Shards, items[s] # <<>>
  PROVE  /\ items[s][1] \in Item
         /\ InHand(s) \in Blocks
         /\ shardOf[InHand(s)] = s
         /\ body[InHand(s)] \subseteq Miniblocks
<1>1. items[s] \in Seq(Item)
  BY DEF ControlOK
<1>2. items[s][1] \in Item /\ 1 \in 1..Len(items[s])
  BY <1>1, TailFacts
<1>3. shardOf[items[s][1].block] = s
  BY <1>2 DEF ControlOK, OwnBlocks
<1> QED
  BY <1>2, <1>3, ShapeAssumption DEF InHand, Item

LEMMA FirstStepType ==
  ASSUME NEW item \in Item
  PROVE  /\ FirstStep(item) \in Steps
         /\ FirstStep(item) # "idle"
         /\ item.op = "remove" <=> FirstStep(item) \in {"removeHeader", "removeMiniblocks"}
  BY DEF FirstStep, Item, Steps

\* The worker goes on with its item, at a step that fits it.
LEMMA SameItem ==
  ASSUME ControlOK, NEW s \in Shards, items[s] # <<>>, NEW next \in Steps \ {"idle"},
         items[s][1].op = "remove" <=> next \in {"removeHeader", "removeMiniblocks"},
         step' = [step EXCEPT ![s] = next],
         found' \in [Shards -> SUBSET Miniblocks],
         UNCHANGED <<chainVars, items, historyVars>>
  PROVE  ControlOK'
<1>1. step' \in [Shards -> Steps] /\ step'[s] = next
      /\ \A r \in Shards : r # s => step'[r] = step[r]
  BY DEF ControlOK
<1>2. ASSUME NEW r \in Shards PROVE StepOK(r)' /\ OwnBlocks(r)'
  <2>1. StepOK(r) /\ OwnBlocks(r)
    BY DEF ControlOK
  <2>2. CASE r = s
    BY <1>1, <2>1, <2>2 DEF StepOK, OwnBlocks, chainVars
  <2>3. CASE r # s
    BY <1>1, <2>1, <2>3 DEF StepOK, OwnBlocks, chainVars
  <2> QED
    BY <2>2, <2>3
<1> QED
  BY <1>1, <1>2 DEF ControlOK, chainVars, historyVars

LEMMA RetryControl ==
  ASSUME ControlOK, NEW s \in Shards, items[s] # <<>>, Retry(s)
  PROVE  ControlOK'
<1>1. items[s][1] \in Item
  BY InHandType
<1>2. found' \in [Shards -> SUBSET Miniblocks]
  BY DEF Retry, ControlOK
<1> QED
  BY <1>1, <1>2, FirstStepType, SameItem DEF Retry

LEMMA CompleteControl ==
  ASSUME ControlOK, NEW s \in Shards, items[s] # <<>>, Complete(s)
  PROVE  ControlOK'
<1>1. InHand(s) \in Blocks /\ items[s] \in Seq(Item)
  BY InHandType DEF ControlOK
<1>2. step' \in [Shards -> Steps] /\ step'[s] = "idle"
      /\ \A r \in Shards : r # s => step'[r] = step[r]
  BY DEF Complete, ControlOK, Steps
<1>3. items' \in [Shards -> Seq(Item)] /\ items'[s] = Tail(items[s])
      /\ \A r \in Shards : r # s => items'[r] = items[r]
  BY <1>1, TailFacts DEF Complete, ControlOK
<1>4. indexed' \subseteq Blocks /\ lost' \subseteq Blocks
  BY <1>1 DEF Complete, ControlOK
<1>5. ASSUME NEW r \in Shards PROVE StepOK(r)' /\ OwnBlocks(r)'
  <2>1. StepOK(r) /\ OwnBlocks(r) /\ chain'[r] = chain[r]
    BY DEF ControlOK, Complete, chainVars
  <2>2. CASE r # s
    BY <1>2, <1>3, <2>1, <2>2 DEF StepOK, OwnBlocks
  <2>3. CASE r = s
    <3>1. \A i \in 1..Len(Tail(items[s])) : shardOf[Tail(items[s])[i].block] = s
      BY <1>1, <2>1, <2>3, TailFacts DEF OwnBlocks
    <3> QED
      BY <1>2, <1>3, <2>1, <2>3, <3>1 DEF StepOK, OwnBlocks
  <2> QED
    BY <2>2, <2>3
<1> QED
  BY <1>2, <1>3, <1>4, <1>5 DEF Complete, ControlOK, chainVars

\* The node queues an item for a block of its shard.
LEMMA QueueControl ==
  ASSUME ControlOK, NEW s \in Shards, NEW item \in Item, shardOf[item.block] = s,
         queued[s] < MaxItems[s],
         items' = [items EXCEPT ![s] = Append(@, item)],
         queued' = [queued EXCEPT ![s] = @ + 1],
         chain' \in [Shards -> Seq(Blocks)], notarized' \subseteq Miniblocks,
         \A r \in Shards : \A i \in 1..Len(chain'[r]) : shardOf[chain'[r][i]] = r,
         UNCHANGED <<restarts, step, found, historyVars>>
  PROVE  ControlOK'
<1>1. items[s] \in Seq(Item)
  BY DEF ControlOK
<1>2. items' \in [Shards -> Seq(Item)] /\ items'[s] = Append(items[s], item)
      /\ \A r \in Shards : r # s => items'[r] = items[r]
  BY <1>1, AppendFacts DEF ControlOK
<1>3. queued' \in [Shards -> Nat] /\ \A r \in Shards : queued'[r] <= MaxItems[r]
  <2>1. queued \in [Shards -> Nat] /\ MaxItems \in [Shards -> Nat]
        /\ \A r \in Shards : queued[r] <= MaxItems[r]
    BY ShapeAssumption DEF ControlOK
  <2>2. \A r \in Shards : queued'[r] = IF r = s THEN queued[s] + 1 ELSE queued[r]
    BY <2>1
  <2>3. queued' \in [Shards -> Nat]
    BY <2>1
  <2>4. queued[s] + 1 <= MaxItems[s]
    BY <2>1
  <2> QED
    BY <2>1, <2>2, <2>3, <2>4
<1>4. ASSUME NEW r \in Shards PROVE StepOK(r)' /\ OwnBlocks(r)'
  <2>1. StepOK(r) /\ OwnBlocks(r)
    BY DEF ControlOK
  <2>2. CASE r # s
    BY <1>2, <2>1, <2>2 DEF StepOK, OwnBlocks
  <2>3. CASE r = s
    <3>1. ASSUME NEW i \in 1..Len(items'[s]) PROVE shardOf[items'[s][i].block] = s
      <4>1. items'[s][i] = item \/ (i \in 1..Len(items[s]) /\ items'[s][i] = items[s][i])
        BY <1>1, <1>2, AppendFacts
      <4> QED
        BY <2>1, <2>3, <4>1 DEF OwnBlocks
    <3>2. items'[s] # <<>> /\ (items[s] # <<>> => items'[s][1] = items[s][1])
      BY <1>1, <1>2, AppendFacts
    <3> QED
      BY <2>1, <2>3, <3>1, <3>2 DEF StepOK, OwnBlocks
  <2> QED
    BY <2>2, <2>3
<1> QED
  BY <1>2, <1>3, <1>4 DEF ControlOK, historyVars

LEMMA InitOK == Init => ControlOK /\ StoreOK
<1> SUFFICES ASSUME Init PROVE ControlOK /\ StoreOK
  OBVIOUS
<1>1. chain \in [Shards -> Seq(Blocks)] /\ notarized \subseteq Miniblocks
      /\ \A s \in Shards : chain[s] = <<>>
  BY DEF Init, Chains!Init
<1>2. /\ step \in [Shards -> Steps]
      /\ queued \in [Shards -> Nat] /\ \A s \in Shards : queued[s] <= MaxItems[s]
      /\ restarts \in 0..MaxRestarts
  BY ShapeAssumption DEF Init, Steps
<1>3. ASSUME NEW s \in Shards PROVE StepOK(s) /\ OwnBlocks(s)
  <2>1. step[s] = "idle" /\ items[s] = <<>> /\ chain[s] = <<>>
    BY <1>1 DEF Init
  <2>2. Len(items[s]) = 0 /\ Len(chain[s]) = 0
    BY <2>1
  <2> QED
    BY <2>1, <2>2 DEF StepOK, OwnBlocks
<1>4. blocksIndex \in BlocksIndexType
  BY DEF Init, BlocksIndexType, IndexState
<1>5. miniblocksIndex \in MiniblocksIndexType
  BY DEF Init, MiniblocksIndexType, IndexState, NoDoc, DocType
<1> QED
  BY <1>1, <1>2, <1>3, <1>4, <1>5 DEF Init, ControlOK, StoreOK

LEMMA SaveBlockOK ==
  ASSUME ControlOK, NEW s \in Shards, NEW b \in Blocks, SaveBlock(s, b)
  PROVE  ControlOK'
<1>1. shardOf[b] = s /\ chain' = [chain EXCEPT ![s] = Append(@, b)]
      /\ notarized' \subseteq Miniblocks
  BY ShapeAssumption DEF SaveBlock, Chains!Commit, ControlOK
<1>2. chain[s] \in Seq(Blocks)
  BY DEF ControlOK
<1>3. chain' \in [Shards -> Seq(Blocks)] /\ chain'[s] = Append(chain[s], b)
      /\ \A r \in Shards : r # s => chain'[r] = chain[r]
  BY <1>1, <1>2, AppendFacts DEF ControlOK
<1>4. ASSUME NEW r \in Shards PROVE \A i \in 1..Len(chain'[r]) : shardOf[chain'[r][i]] = r
  <2>1. \A i \in 1..Len(chain[r]) : shardOf[chain[r][i]] = r
    BY DEF ControlOK, OwnBlocks
  <2>2. CASE r # s
    BY <1>3, <2>1, <2>2
  <2>3. CASE r = s
    BY <1>1, <1>2, <1>3, <2>1, <2>3, AppendFacts
  <2> QED
    BY <2>2, <2>3
<1> DEFINE item == [op |-> "save", block |-> b]
<1>5. item \in Item /\ shardOf[item.block] = s
  BY <1>1 DEF Item
<1>6. /\ queued[s] < MaxItems[s]
      /\ items' = [items EXCEPT ![s] = Append(@, item)]
      /\ queued' = [queued EXCEPT ![s] = @ + 1]
      /\ UNCHANGED <<restarts, step, found, historyVars>>
  BY DEF SaveBlock
<1> HIDE DEF item
<1> QED
  BY <1>1, <1>3, <1>4, <1>5, <1>6, QueueControl

LEMMA RevertOK ==
  ASSUME ControlOK, NEW s \in Shards, RevertIndexedBlock(s)
  PROVE  ControlOK'
<1> DEFINE b == Chains!Top(s)
<1>1. chain[s] # <<>> /\ chain' = [chain EXCEPT ![s] = SubSeq(@, 1, Len(@) - 1)]
      /\ notarized' \subseteq Miniblocks
  BY DEF RevertIndexedBlock, Chains!Revert, ControlOK
<1>2. chain[s] \in Seq(Blocks) /\ OwnBlocks(s)
  BY DEF ControlOK
<1>3. b \in Blocks /\ shardOf[b] = s
  BY <1>1, <1>2, PrefixFacts DEF Chains!Top, OwnBlocks
<1>4. chain' \in [Shards -> Seq(Blocks)] /\ chain'[s] = SubSeq(chain[s], 1, Len(chain[s]) - 1)
      /\ \A r \in Shards : r # s => chain'[r] = chain[r]
  BY <1>1, <1>2, PrefixFacts DEF ControlOK
<1>5. ASSUME NEW r \in Shards PROVE \A i \in 1..Len(chain'[r]) : shardOf[chain'[r][i]] = r
  <2>1. \A i \in 1..Len(chain[r]) : shardOf[chain[r][i]] = r
    BY DEF ControlOK, OwnBlocks
  <2>2. CASE r # s
    BY <1>4, <2>1, <2>2
  <2>3. CASE r = s
    BY <1>1, <1>2, <1>4, <2>1, <2>3, PrefixFacts
  <2> QED
    BY <2>2, <2>3
<1> DEFINE item == [op |-> "remove", block |-> b]
<1>6. item \in Item /\ shardOf[item.block] = s
  BY <1>3 DEF Item
<1>7. /\ queued[s] < MaxItems[s]
      /\ items' = [items EXCEPT ![s] = Append(@, item)]
      /\ queued' = [queued EXCEPT ![s] = @ + 1]
      /\ UNCHANGED <<restarts, step, found, historyVars>>
  BY DEF RevertIndexedBlock
<1> HIDE DEF b, item
<1> QED
  BY <1>1, <1>3, <1>4, <1>5, <1>6, <1>7, QueueControl

LEMMA StartOK ==
  ASSUME ControlOK, NEW s \in Shards, Start(s)
  PROVE  ControlOK'
<1>1. items[s] # <<>> /\ items[s][1] \in Item
  BY InHandType DEF Start
<1>2. found' \in [Shards -> SUBSET Miniblocks]
  BY DEF Start, ControlOK
<1> QED
  BY <1>1, <1>2, FirstStepType, SameItem DEF Start

\* A worker at a request has an item, of the kind the request belongs to.
LEMMA AtRequest ==
  ASSUME ControlOK, NEW s \in Shards, step[s] # "idle"
  PROVE  /\ items[s] # <<>>
         /\ items[s][1].op = "remove" <=> step[s] \in {"removeHeader", "removeMiniblocks"}
  BY DEF ControlOK, StepOK

LEMMA ContinueControl ==
  ASSUME ControlOK, NEW s \in Shards, items[s] # <<>>, NEW next \in Steps \ {"idle"},
         items[s][1].op = "remove" <=> next \in {"removeHeader", "removeMiniblocks"},
         Continue(s, next)
  PROVE  ControlOK'
<1>1. found' \in [Shards -> SUBSET Miniblocks]
  BY DEF Continue, ControlOK
<1> QED
  BY <1>1, SameItem DEF Continue

LEMMA SaveHeaderOK ==
  ASSUME ControlOK, StoreOK, NEW s \in Shards, SaveHeader(s)
  PROVE  ControlOK' /\ StoreOK'
<1>1. items[s] # <<>> /\ items[s][1].op # "remove"
  BY AtRequest DEF SaveHeader
<1>2. InHand(s) \in Blocks
  BY <1>1, InHandType
<1>3. blocksIndex' \in {blocksIndex, IndexedHeader(blocksIndex, InHand(s))}
      /\ miniblocksIndex' = miniblocksIndex
  BY DEF SaveHeader
<1>4. StoreOK'
  BY <1>2, <1>3, IndexedHeaderFacts DEF StoreOK
<1>5. Complete(s) \/ Continue(s, "mget") \/ Retry(s)
  BY DEF SaveHeader
<1>6. ControlOK'
  BY <1>1, <1>5, CompleteControl, ContinueControl, RetryControl DEF Steps
<1> QED
  BY <1>4, <1>6

LEMMA GetExistingMiniblocksOK ==
  ASSUME ControlOK, StoreOK, NEW s \in Shards, GetExistingMiniblocks(s)
  PROVE  ControlOK' /\ StoreOK'
<1>1. items[s] # <<>> /\ items[s][1].op # "remove"
  BY AtRequest DEF GetExistingMiniblocks
<1>2. ExistingMiniblocks(InHand(s)) \subseteq Miniblocks
  BY <1>1, InHandType DEF ExistingMiniblocks
<1>3. CASE Retry(s) \/ Continue(s, "transactions")
  BY <1>1, <1>3, ContinueControl, RetryControl DEF Steps, GetExistingMiniblocks, StoreOK
<1>4. CASE /\ step' = [step EXCEPT ![s] = "bulk"]
           /\ \E read \in ReadMiniblocks(InHand(s)) : found' = [found EXCEPT ![s] = read]
           /\ UNCHANGED <<chainVars, items, historyVars>>
  <2>1. found' \in [Shards -> SUBSET Miniblocks]
    BY <1>2, <1>4 DEF ControlOK, ReadMiniblocks
  <2> QED
    BY <1>1, <1>4, <2>1, SameItem DEF Steps, GetExistingMiniblocks, StoreOK
<1> QED
  BY <1>3, <1>4 DEF GetExistingMiniblocks

LEMMA SaveMiniblocksOK ==
  ASSUME ControlOK, StoreOK, NEW s \in Shards, SaveMiniblocks(s)
  PROVE  ControlOK' /\ StoreOK'
<1>1. items[s] # <<>> /\ items[s][1].op # "remove"
  BY AtRequest DEF SaveMiniblocks
<1>2. InHand(s) \in Blocks /\ body[InHand(s)] \subseteq Miniblocks
  BY <1>1, InHandType
<1>3. PICK ms \in SUBSET body[InHand(s)] :
        miniblocksIndex' = BulkWritten(miniblocksIndex, InHand(s), ms, found[s])
  BY DEF SaveMiniblocks
<1>4. StoreOK'
  BY <1>2, <1>3, BulkWrittenType DEF StoreOK, ControlOK, SaveMiniblocks
<1>5. PICK next \in {"transactions", "header"} : step' = [step EXCEPT ![s] = next]
  BY DEF SaveMiniblocks
<1>6. found' \in [Shards -> SUBSET Miniblocks]
  BY DEF SaveMiniblocks, ControlOK
<1>7. ControlOK'
  BY <1>1, <1>5, <1>6, SameItem DEF Steps, SaveMiniblocks
<1> QED
  BY <1>4, <1>7

LEMMA SaveTransactionsOK ==
  ASSUME ControlOK, StoreOK, NEW s \in Shards, SaveTransactions(s)
  PROVE  ControlOK' /\ StoreOK'
<1>1. items[s] # <<>>
  BY AtRequest DEF SaveTransactions
<1> QED
  BY <1>1, CompleteControl, RetryControl DEF SaveTransactions, StoreOK

LEMMA RemoveHeaderOK ==
  ASSUME ControlOK, StoreOK, NEW s \in Shards, RemoveHeader(s)
  PROVE  ControlOK' /\ StoreOK'
<1>1. items[s] # <<>> /\ items[s][1].op = "remove"
  BY AtRequest DEF RemoveHeader
<1>2. Hits(blocksIndex, {InHand(s)}) \subseteq Blocks
  BY <1>1, InHandType DEF Hits
<1>3. PICK bs \in SUBSET Blocks : blocksIndex' = RemovedHeaders(bs)
  BY <1>2 DEF RemoveHeader
<1>4. StoreOK'
  BY <1>3, RemovedHeadersFacts DEF StoreOK, RemoveHeader
<1>5. ControlOK'
  BY <1>1, ContinueControl, RetryControl DEF RemoveHeader, Steps
<1> QED
  BY <1>4, <1>5

LEMMA RemoveMiniblocksOK ==
  ASSUME ControlOK, StoreOK, NEW s \in Shards, RemoveMiniblocks(s)
  PROVE  ControlOK' /\ StoreOK'
<1>1. items[s] # <<>>
  BY AtRequest DEF RemoveMiniblocks
<1>2. Hits(miniblocksIndex, Removable(InHand(s))) \subseteq Miniblocks
  BY <1>1, InHandType DEF Hits, Removable
<1>3. \/ miniblocksIndex' = miniblocksIndex
      \/ \E ms \in SUBSET Miniblocks : miniblocksIndex' = RemovedMiniblocks(ms)
  BY <1>2 DEF RemoveMiniblocks
<1>4. StoreOK'
  BY <1>3, RemovedMiniblocksFacts DEF StoreOK, RemoveMiniblocks
<1>5. ControlOK'
  BY <1>1, CompleteControl, RetryControl DEF RemoveMiniblocks
<1> QED
  BY <1>4, <1>5

LEMMA RefreshOK ==
  ASSUME ControlOK, StoreOK, RefreshBlocks \/ RefreshMiniblocks
  PROVE  ControlOK' /\ StoreOK'
<1>1. ControlOK'
  BY DEF RefreshBlocks, RefreshMiniblocks, ControlOK, StepOK, OwnBlocks, chainVars, historyVars
<1>2. StoreOK'
  BY DEF RefreshBlocks, RefreshMiniblocks, StoreOK, BlocksIndexType, MiniblocksIndexType,
         IndexState
<1> QED
  BY <1>1, <1>2

LEMMA RestartOK ==
  ASSUME ControlOK, StoreOK, NEW s \in Shards, Restart(s)
  PROVE  ControlOK' /\ StoreOK'
<1>1. items[s] \in Seq(Item)
  BY DEF ControlOK
<1>2. ASSUME NEW k \in 1..Len(items[s]) PROVE items[s][k].block \in Blocks
  <2>1. items[s][k] \in Item
    BY <1>1
  <2> QED
    BY <2>1 DEF Item
<1>3. /\ items' = [items EXCEPT ![s] = <<>>]
      /\ step' = [step EXCEPT ![s] = "idle"]
      /\ found' = [found EXCEPT ![s] = {}]
      /\ UNCHANGED <<chain, notarized, queued, indexed>>
  BY DEF Restart
<1>4. items' \in [Shards -> Seq(Item)] /\ step' \in [Shards -> Steps]
      /\ found' \in [Shards -> SUBSET Miniblocks]
  BY <1>3 DEF ControlOK, Steps
<1>5. lost' \subseteq Blocks
  BY <1>2 DEF Restart, ControlOK
<1>6. restarts' \in 0..MaxRestarts
  BY ShapeAssumption DEF Restart, ControlOK
<1>7. ASSUME NEW r \in Shards PROVE StepOK(r)' /\ OwnBlocks(r)'
  <2>1. StepOK(r) /\ OwnBlocks(r)
    BY DEF ControlOK
  <2>2. CASE r = s
    <3>1. step'[s] = "idle" /\ items'[s] = <<>>
      BY <1>3 DEF ControlOK
    <3> QED
      BY <1>3, <2>1, <2>2, <3>1 DEF StepOK, OwnBlocks
  <2>3. CASE r # s
    <3>1. step'[r] = step[r] /\ items'[r] = items[r]
      BY <1>3, <2>3 DEF ControlOK
    <3> QED
      BY <1>3, <2>1, <3>1 DEF StepOK, OwnBlocks
  <2> QED
    BY <2>2, <2>3
<1>8. StoreOK'
  BY DEF Restart, StoreOK
<1> QED
  BY <1>3, <1>4, <1>5, <1>6, <1>7, <1>8 DEF ControlOK

LEMMA NextOK == ControlOK /\ StoreOK /\ [Next]_vars => ControlOK' /\ StoreOK'
<1> SUFFICES ASSUME ControlOK, StoreOK, [Next]_vars PROVE ControlOK' /\ StoreOK'
  OBVIOUS
<1>1. ASSUME NEW s \in Shards, Node(s) PROVE ControlOK' /\ StoreOK'
  BY <1>1, SaveBlockOK, RevertOK DEF Node, SaveBlock, RevertIndexedBlock, StoreOK
<1>2. ASSUME NEW s \in Shards, Worker(s) PROVE ControlOK' /\ StoreOK'
  <2>1. CASE Start(s)
    BY <2>1, StartOK DEF Start, StoreOK
  <2> QED
    BY <1>2, <2>1, SaveHeaderOK, GetExistingMiniblocksOK, SaveMiniblocksOK, SaveTransactionsOK,
       RemoveHeaderOK, RemoveMiniblocksOK DEF Worker
<1>3. CASE UNCHANGED vars
  BY <1>3 DEF vars, ControlOK, StoreOK, StepOK, OwnBlocks
<1> QED
  BY <1>1, <1>2, <1>3, RefreshOK, RestartOK DEF Next

LEMMA OKInvariant == Spec => [](ControlOK /\ StoreOK)
  BY InitOK, NextOK, PTL DEF Spec

\* Every variable keeps its type, and a worker's step is one of its item.
THEOREM TypeCorrect == Spec => []TypeOK
  BY OKInvariant, ControlAndStore, PTL

-----------------------------------------------------------------------------
(* Search orders. *)

\* For all shards and blocks whose numbers fit the widths, those of 64 bits among
\* them: whatever is reverted, repeated or lost, the headers in the index are put
\* in order, and told apart, by their search order.
THEOREM HeadersInOrder ==
  ASSUME WidthsFit
  PROVE  Spec => []SearchOrderSeparates
<1>1. TypeOK => SearchOrderSeparates
  <2> SUFFICES ASSUME TypeOK, NEW b \in blocksIndex.docs, NEW c \in blocksIndex.docs
               PROVE  /\ SearchOrder[b] > 0
                      /\ SearchOrder[b] = SearchOrder[c]
                           => shardOf[b] = shardOf[c] /\ nonceOf[b] = nonceOf[c]
                      /\ shardOf[b] = shardOf[c] /\ nonceOf[b] < nonceOf[c]
                           => SearchOrder[b] < SearchOrder[c]
    BY DEF SearchOrderSeparates
  <2>1. b \in Blocks /\ c \in Blocks
    BY DEF TypeOK, IndexState
  <2>2. /\ shardOf[b] \in Shards /\ shardOf[c] \in Shards
        /\ shardId[shardOf[b]] \in Network /\ shardId[shardOf[c]] \in Network
        /\ nonceOf[b] \in Nonces /\ nonceOf[c] \in Nonces
        /\ shardId[shardOf[b]] = shardId[shardOf[c]] => shardOf[b] = shardOf[c]
    BY <2>1, ShapeAssumption
  <2> QED
    BY <2>1, <2>2, OrdersSeparate DEF OrdersTellBlocksApart, SearchOrder
<1> QED
  BY <1>1, TypeCorrect, PTL

-----------------------------------------------------------------------------
(* Headers.  A header in the index is always searchable and never dirty, so *)
(* that a removal finds it; in the middle of an item the step tells whether *)
(* the header of the block in hand is there.                                *)

Headers == blocksIndex.docs

HeadersSearchable == Headers \subseteq blocksIndex.searchable \ blocksIndex.dirty

HeaderAtStep(s) ==
  /\ step[s] \in {"mget", "bulk", "transactions"} => InHand(s) \in Headers
  /\ step[s] = "removeMiniblocks" => InHand(s) \notin Headers

HeaderInv ==
  /\ HeadersSearchable
  /\ "blocks" \in EnabledIndexes =>
       /\ \A s \in Shards : HeaderAtStep(s)
       /\ \A b \in Blocks \ lost : ~InProgress(b) => (b \in Headers <=> b \in indexed)

LEMMA InitHeaderInv == Init => HeaderInv
  BY DEF Init, HeaderInv, HeadersSearchable, HeaderAtStep, Headers

\* A step that leaves headers, workers and the blocks in hand of the busy ones.
LEMMA HeaderQuiet ==
  ASSUME HeaderInv, HeadersSearchable', UNCHANGED historyVars, Headers' = Headers,
         \A s \in Shards : step[s] # "idle" => step'[s] # "idle" /\ InHand(s)' = InHand(s),
         \A s \in Shards : step'[s] = step[s] \/ step'[s] \in {"header", "removeHeader"}
                           \/ (step[s] \in {"mget", "bulk"} /\ step'[s] \in {"bulk", "transactions"})
  PROVE  HeaderInv'
<1>1. ASSUME "blocks" \in EnabledIndexes, NEW s \in Shards PROVE HeaderAtStep(s)'
  BY <1>1 DEF HeaderInv, HeaderAtStep
<1>2. ASSUME "blocks" \in EnabledIndexes, NEW b \in Blocks \ lost', ~InProgress(b)'
      PROVE  b \in Headers' <=> b \in indexed'
  <2>1. shardOf[b] \in Shards
    BY ShapeAssumption
  <2>2. ~InProgress(b)
    BY <1>2, <2>1 DEF InProgress
  <2> QED
    BY <1>2, <2>2 DEF HeaderInv, historyVars
<1> QED
  BY <1>1, <1>2 DEF HeaderInv

\* A step of the worker of shard s that concerns the header in its hand.
LEMMA HeaderOwnStep ==
  ASSUME ControlOK, HeaderInv, HeadersSearchable',
         NEW s \in Shards, step[s] # "idle",
         \A r \in Shards : r # s => step'[r] = step[r] /\ items'[r] = items[r],
         \A b \in Blocks \ {InHand(s)} : (b \in Headers' <=> b \in Headers)
                                         /\ (b \in indexed' <=> b \in indexed)
                                         /\ (b \in lost => b \in lost'),
         "blocks" \in EnabledIndexes =>
           IF step'[s] = "idle" THEN InHand(s) \in Headers' <=> InHand(s) \in indexed'
                                ELSE items'[s] = items[s] /\ HeaderAtStep(s)'
  PROVE  HeaderInv'
<1> SUFFICES ASSUME "blocks" \in EnabledIndexes
             PROVE  /\ \A r \in Shards : HeaderAtStep(r)'
                    /\ \A b \in Blocks \ lost' : ~InProgress(b)' => (b \in Headers' <=> b \in indexed')
  BY DEF HeaderInv
<1>1. ASSUME NEW r \in Shards PROVE HeaderAtStep(r)'
  <2>1. CASE r = s
    BY <2>1 DEF HeaderAtStep
  <2>2. CASE r # s /\ step[r] # "idle"
    <3>1. InHand(r) \in Blocks \ {InHand(s)} /\ InHand(r)' = InHand(r)
      BY <2>2, AtRequest, InHandType DEF InHand
    <3> QED
      BY <2>2, <3>1 DEF HeaderInv, HeaderAtStep
  <2>3. CASE r # s /\ step[r] = "idle"
    BY <2>3 DEF HeaderAtStep
  <2> QED
    BY <2>1, <2>2, <2>3
<1>2. ASSUME NEW b \in Blocks \ lost', ~InProgress(b)' PROVE b \in Headers' <=> b \in indexed'
  <2>0. shardOf[b] \in Shards /\ shardOf[InHand(s)] = s
    BY AtRequest, InHandType, ShapeAssumption
  <2>1. CASE b = InHand(s)
    <3>1. step'[s] = "idle"
      BY <1>2, <2>0, <2>1 DEF InProgress, InHand
    <3> QED
      BY <2>1, <3>1
  <2>2. CASE b # InHand(s)
    <3>1. ~InProgress(b)
      <4>1. CASE shardOf[b] = s
        BY <2>2, <4>1 DEF InProgress
      <4>2. CASE shardOf[b] # s
        BY <1>2, <2>0, <4>2 DEF InProgress, InHand
      <4> QED
        BY <4>1, <4>2
    <3> QED
      BY <2>2, <3>1 DEF HeaderInv
  <2> QED
    BY <2>1, <2>2
<1> QED
  BY <1>1, <1>2

\* The steps that leave the headers alone and go on with an item or begin one.
LEMMA QueueHeaderInv ==
  ASSUME ControlOK, HeaderInv, NEW s \in Shards, Node(s)
  PROVE  HeaderInv'
<1>1. UNCHANGED <<step, historyVars, blocksIndex>>
  BY DEF Node, SaveBlock, RevertIndexedBlock
<1>2. PICK item : items' = [items EXCEPT ![s] = Append(@, item)] /\ item \in Item
  <2>1. ASSUME NEW b \in Blocks, SaveBlock(s, b)
        PROVE  items' = [items EXCEPT ![s] = Append(@, [op |-> "save", block |-> b])]
               /\ [op |-> "save", block |-> b] \in Item
    BY <2>1 DEF SaveBlock, Item
  <2>2. ASSUME RevertIndexedBlock(s)
        PROVE  items' = [items EXCEPT ![s] = Append(@, [op |-> "remove", block |-> Chains!Top(s)])]
               /\ [op |-> "remove", block |-> Chains!Top(s)] \in Item
    <3>1. chain[s] # <<>> /\ chain[s] \in Seq(Blocks)
      BY <2>2 DEF RevertIndexedBlock, Chains!Revert, ControlOK
    <3>2. Chains!Top(s) \in Blocks
      BY <3>1, PrefixFacts DEF Chains!Top
    <3> QED
      BY <2>2, <3>2 DEF RevertIndexedBlock, Item
  <2> QED
    BY <2>1, <2>2 DEF Node
<1>3. ASSUME NEW r \in Shards, step[r] # "idle"
      PROVE  step'[r] # "idle" /\ InHand(r)' = InHand(r)
  <2>1. items[r] # <<>> /\ items[r] \in Seq(Item)
    BY <1>3, AtRequest DEF ControlOK
  <2>2. items'[r] = IF r = s THEN Append(items[r], item) ELSE items[r]
    BY <1>2 DEF ControlOK
  <2>3. items'[r][1] = items[r][1]
    BY <1>2, <2>1, <2>2, AppendFacts
  <2> QED
    BY <1>1, <1>3, <2>3 DEF InHand
<1> QED
  BY <1>1, <1>3, HeaderQuiet DEF HeaderInv, HeadersSearchable, Headers

LEMMA PassingHeaderInv ==
  ASSUME ControlOK, HeaderInv, NEW s \in Shards,
         Start(s) \/ GetExistingMiniblocks(s) \/ SaveMiniblocks(s)
  PROVE  HeaderInv'
<1>1. items[s] # <<>> /\ items[s][1] \in Item
  BY AtRequest, InHandType DEF Start, GetExistingMiniblocks, SaveMiniblocks
<1>2. UNCHANGED <<items, historyVars, blocksIndex>>
  BY DEF Start, GetExistingMiniblocks, SaveMiniblocks, Retry, Continue
<1>3. PICK next \in Steps \ {"idle"} :
        /\ step' = [step EXCEPT ![s] = next]
        /\ \/ next \in {"header", "removeHeader"}
           \/ step[s] \in {"mget", "bulk"} /\ next \in {"bulk", "transactions"}
  BY <1>1 DEF Start, GetExistingMiniblocks, SaveMiniblocks, Retry, Continue, FirstStep, Steps
<1>4. \A r \in Shards : step'[r] = IF r = s THEN next ELSE step[r]
  BY <1>3 DEF ControlOK
<1>5. \A r \in Shards : InHand(r)' = InHand(r)
  BY <1>2 DEF InHand
<1> QED
  BY <1>2, <1>3, <1>4, <1>5, HeaderQuiet DEF HeaderInv, HeadersSearchable, Headers

LEMMA RefreshHeaderInv ==
  ASSUME StoreOK, HeaderInv, RefreshBlocks \/ RefreshMiniblocks
  PROVE  HeaderInv'
<1>1. Headers' = Headers /\ HeadersSearchable' /\ UNCHANGED <<step, items, historyVars>>
  BY DEF RefreshBlocks, RefreshMiniblocks, HeaderInv, HeadersSearchable, Headers, chainVars
<1> QED
  BY <1>1, HeaderQuiet DEF InHand

LEMMA SaveHeaderHeaderInv ==
  ASSUME ControlOK, StoreOK, HeaderInv, NEW s \in Shards, SaveHeader(s)
  PROVE  HeaderInv'
<1> DEFINE b == InHand(s)
<1>1. step[s] = "header" /\ items[s] # <<>> /\ items[s][1].op = "save" /\ b \in Blocks
  BY AtRequest, InHandType DEF SaveHeader, Item
<1>2. \/ /\ blocksIndex' = IF "blocks" \in EnabledIndexes THEN IndexedHeader(blocksIndex, b)
                                                           ELSE blocksIndex
         /\ Complete(s) \/ Continue(s, "mget")
      \/ blocksIndex' \in {blocksIndex, IndexedHeader(blocksIndex, b)} /\ Retry(s)
  BY DEF SaveHeader
<1>3. HeadersSearchable' /\ \A c \in Blocks \ {b} : c \in Headers' <=> c \in Headers
  BY <1>1, <1>2, IndexedHeaderFacts DEF HeaderInv, HeadersSearchable, Headers, StoreOK
<1>4. CASE Complete(s)
  <2>1. /\ step' = [step EXCEPT ![s] = "idle"]
        /\ items' = [items EXCEPT ![s] = Tail(@)]
        /\ indexed' = indexed \cup {b}
        /\ lost' = lost \ {b}
    BY <1>1, <1>4 DEF Complete
  <2>2. "blocks" \in EnabledIndexes => b \in Headers'
    BY <1>1, <1>2, <1>4, IndexedHeaderFacts DEF Headers, StoreOK, Complete, Retry, ControlOK,
       FirstStep
  <2> QED
    BY <1>1, <1>3, <2>1, <2>2, HeaderOwnStep DEF ControlOK, historyVars
<1>5. CASE Continue(s, "mget")
  <2>1. step' = [step EXCEPT ![s] = "mget"] /\ UNCHANGED <<items, historyVars>>
    BY <1>5 DEF Continue
  <2>2. "blocks" \in EnabledIndexes => b \in Headers'
    BY <1>1, <1>2, <1>5, IndexedHeaderFacts DEF Headers, StoreOK, Continue, Retry, ControlOK,
       FirstStep
  <2>3. "blocks" \in EnabledIndexes => HeaderAtStep(s)'
    BY <2>1, <2>2 DEF HeaderAtStep, InHand, ControlOK
  <2> QED
    BY <1>1, <1>3, <2>1, <2>3, HeaderOwnStep DEF ControlOK, historyVars
<1>6. CASE Retry(s)
  <2>1. step' = [step EXCEPT ![s] = "header"] /\ UNCHANGED <<items, historyVars>>
    BY <1>1, <1>6 DEF Retry, FirstStep
  <2>2. HeaderAtStep(s)'
    BY <2>1 DEF HeaderAtStep, ControlOK
  <2> QED
    BY <1>1, <1>3, <2>1, <2>2, HeaderOwnStep DEF ControlOK, historyVars
<1> QED
  BY <1>2, <1>4, <1>5, <1>6

LEMMA SaveTransactionsHeaderInv ==
  ASSUME ControlOK, HeaderInv, NEW s \in Shards, SaveTransactions(s)
  PROVE  HeaderInv'
<1>1. step[s] = "transactions" /\ items[s] # <<>> /\ items[s][1].op = "save"
      /\ InHand(s) \in Blocks
  BY AtRequest, InHandType DEF SaveTransactions, Item
<1>2. Headers' = Headers /\ HeadersSearchable'
  BY DEF SaveTransactions, HeaderInv, HeadersSearchable, Headers
<1>3. CASE Complete(s)
  <2>1. /\ step' = [step EXCEPT ![s] = "idle"]
        /\ items' = [items EXCEPT ![s] = Tail(@)]
        /\ indexed' = indexed \cup {InHand(s)}
        /\ lost' = lost \ {InHand(s)}
    BY <1>1, <1>3 DEF Complete
  <2>2. "blocks" \in EnabledIndexes => InHand(s) \in Headers
    BY <1>1 DEF HeaderInv, HeaderAtStep
  <2> QED
    BY <1>1, <1>2, <2>1, <2>2, HeaderOwnStep DEF ControlOK, historyVars
<1>4. CASE Retry(s)
  <2>1. step' = [step EXCEPT ![s] = "header"] /\ UNCHANGED <<items, historyVars>>
    BY <1>1, <1>4 DEF Retry, FirstStep
  <2>2. HeaderAtStep(s)'
    BY <2>1 DEF HeaderAtStep, ControlOK
  <2> QED
    BY <1>1, <1>2, <2>1, <2>2, HeaderOwnStep DEF ControlOK, historyVars
<1> QED
  BY <1>3, <1>4 DEF SaveTransactions

LEMMA RemoveHeaderHeaderInv ==
  ASSUME ControlOK, StoreOK, HeaderInv, NEW s \in Shards, RemoveHeader(s)
  PROVE  HeaderInv'
<1> DEFINE b == InHand(s)
<1>1. step[s] = "removeHeader" /\ items[s] # <<>> /\ items[s][1].op = "remove" /\ b \in Blocks
  BY AtRequest, InHandType DEF RemoveHeader, Item
<1>2. PICK bs \in SUBSET (Hits(blocksIndex, {b})) :
        /\ blocksIndex' = RemovedHeaders(bs)
        /\ \/ Continue(s, "removeMiniblocks") /\ bs = Hits(blocksIndex, {b})
           \/ Retry(s)
  BY DEF RemoveHeader
<1>3. bs \in SUBSET {b} /\ Headers' = Headers \ bs
      /\ HeadersSearchable'
      /\ (bs = Hits(blocksIndex, {b}) => b \notin Headers')
  <2>1. bs \in SUBSET {b} /\ bs \in SUBSET Blocks
    BY <1>1, <1>2 DEF Hits
  <2>2. /\ blocksIndex'.docs = blocksIndex.docs \ bs
        /\ blocksIndex'.searchable = blocksIndex.searchable
        /\ blocksIndex'.dirty = blocksIndex.dirty \cup bs
    BY <1>2, <2>1, RemovedHeadersFacts DEF StoreOK
  <2> QED
    BY <2>1, <2>2 DEF HeaderInv, HeadersSearchable, Headers, Hits
<1>4. \A c \in Blocks \ {b} : c \in Headers' <=> c \in Headers
  BY <1>3
<1>5. CASE Continue(s, "removeMiniblocks") /\ bs = Hits(blocksIndex, {b})
  <2>1. step' = [step EXCEPT ![s] = "removeMiniblocks"] /\ UNCHANGED <<items, historyVars>>
    BY <1>5 DEF Continue
  <2>2. HeaderAtStep(s)'
    BY <1>3, <1>5, <2>1 DEF HeaderAtStep, InHand, ControlOK
  <2> QED
    BY <1>1, <1>3, <1>4, <2>1, <2>2, HeaderOwnStep DEF ControlOK, historyVars
<1>6. CASE Retry(s)
  <2>1. step' = [step EXCEPT ![s] = "removeHeader"] /\ UNCHANGED <<items, historyVars>>
    BY <1>1, <1>6 DEF Retry, FirstStep
  <2>2. HeaderAtStep(s)'
    BY <2>1 DEF HeaderAtStep, ControlOK
  <2> QED
    BY <1>1, <1>3, <1>4, <2>1, <2>2, HeaderOwnStep DEF ControlOK, historyVars
<1> QED
  BY <1>2, <1>5, <1>6

LEMMA RemoveMiniblocksHeaderInv ==
  ASSUME ControlOK, HeaderInv, NEW s \in Shards, RemoveMiniblocks(s)
  PROVE  HeaderInv'
<1>1. step[s] = "removeMiniblocks" /\ items[s] # <<>> /\ items[s][1].op = "remove"
      /\ InHand(s) \in Blocks
  BY AtRequest, InHandType DEF RemoveMiniblocks, Item
<1>2. Headers' = Headers /\ HeadersSearchable'
  BY DEF RemoveMiniblocks, HeaderInv, HeadersSearchable, Headers
<1>3. CASE Complete(s)
  <2>1. /\ step' = [step EXCEPT ![s] = "idle"]
        /\ items' = [items EXCEPT ![s] = Tail(@)]
        /\ indexed' = indexed \ {InHand(s)}
        /\ lost' = lost \ {InHand(s)}
    BY <1>1, <1>3 DEF Complete
  <2>2. "blocks" \in EnabledIndexes => InHand(s) \notin Headers
    BY <1>1 DEF HeaderInv, HeaderAtStep
  <2> QED
    BY <1>1, <1>2, <2>1, <2>2, HeaderOwnStep DEF ControlOK, historyVars
<1>4. CASE Retry(s)
  <2>1. step' = [step EXCEPT ![s] = "removeHeader"] /\ UNCHANGED <<items, historyVars>>
    BY <1>1, <1>4 DEF Retry, FirstStep
  <2>2. HeaderAtStep(s)'
    BY <2>1 DEF HeaderAtStep, ControlOK
  <2> QED
    BY <1>1, <1>2, <2>1, <2>2, HeaderOwnStep DEF ControlOK, historyVars
<1> QED
  BY <1>3, <1>4 DEF RemoveMiniblocks

\* The item in hand is lost with the others of the node.
LEMMA RestartHeaderInv ==
  ASSUME ControlOK, HeaderInv, NEW s \in Shards, Restart(s)
  PROVE  HeaderInv'
<1>1. /\ items[s] # <<>> /\ items[s] \in Seq(Item)
      /\ \A r \in Shards : step'[r] = IF r = s THEN "idle" ELSE step[r]
      /\ \A r \in Shards : r # s => items'[r] = items[r]
      /\ lost' = lost \cup {items[s][k].block : k \in 1..Len(items[s])}
      /\ UNCHANGED <<indexed, blocksIndex>>
  BY DEF Restart, ControlOK
<1>2. lost \subseteq lost' /\ InHand(s) \in lost'
  BY <1>1, TailFacts DEF InHand
<1>3. ASSUME "blocks" \in EnabledIndexes, NEW r \in Shards PROVE HeaderAtStep(r)'
  BY <1>1, <1>3 DEF HeaderInv, HeaderAtStep, Headers, InHand
<1>4. ASSUME "blocks" \in EnabledIndexes, NEW b \in Blocks \ lost', ~InProgress(b)'
      PROVE  b \in Headers' <=> b \in indexed'
  <2>1. shardOf[b] \in Shards
    BY ShapeAssumption
  <2>2. ~InProgress(b)
    BY <1>1, <1>2, <1>4, <2>1 DEF InProgress, InHand
  <2> QED
    BY <1>1, <1>2, <1>4, <2>2 DEF HeaderInv, Headers
<1> QED
  BY <1>1, <1>3, <1>4 DEF HeaderInv, HeadersSearchable, Headers

LEMMA NextHeaderInv == ControlOK /\ StoreOK /\ HeaderInv /\ [Next]_vars => HeaderInv'
<1> SUFFICES ASSUME ControlOK, StoreOK, HeaderInv, [Next]_vars PROVE HeaderInv'
  OBVIOUS
<1>1. ASSUME NEW s \in Shards, Node(s) \/ Worker(s) PROVE HeaderInv'
  BY <1>1, QueueHeaderInv, PassingHeaderInv, SaveHeaderHeaderInv, SaveTransactionsHeaderInv,
     RemoveHeaderHeaderInv, RemoveMiniblocksHeaderInv DEF Worker
<1>2. CASE UNCHANGED vars
  <2>1. UNCHANGED <<step, items, historyVars, blocksIndex>>
    BY <1>2 DEF vars, historyVars
  <2> QED
    BY <2>1, HeaderQuiet DEF HeaderInv, HeadersSearchable, Headers, InHand
<1> QED
  BY <1>1, <1>2, RefreshHeaderInv, RestartHeaderInv DEF Next

\* The blocks index tells the blocks saved from the blocks reverted, however
\* many requests failed half-way: outside of an item in progress, a header is in
\* it exactly when the last item completed for its block saved it.
THEOREM HeadersCorrect == Spec => []HeadersIndexed
<1>1. Init => HeaderInv
  BY InitHeaderInv
<1>2. HeaderInv => HeadersIndexed
  BY DEF HeaderInv, HeadersIndexed, Headers
<1> QED
  BY <1>1, <1>2, OKInvariant, NextHeaderInv, PTL DEF Spec

-----------------------------------------------------------------------------
(* Miniblocks.  What a miniblock document may show, and that every write     *)
(* leaves it so: the two hashes depend on where the writing block stands.    *)

InPlace(m, doc) ==
  LET from == doc.senderBlockHash
      to == doc.receiverBlockHash
  IN doc.exists =>
       /\ from # NoBlock \/ to # NoBlock
       /\ from # NoBlock => m \in body[from] /\ shardOf[from] = sender[m]
       /\ to # NoBlock => m \in body[to] /\ receiver[m] \in {shardOf[to], AllShards}

LEMMA MiniblockOfInPlace ==
  ASSUME NEW b \in Blocks, NEW m \in body[b], m \in Miniblocks
  PROVE  InPlace(m, MiniblockOf(b, m))
<1>1. shardOf[b] = sender[m] \/ receiver[m] \in {shardOf[b], AllShards}
  BY ShapeAssumption
<1>2. b # NoBlock
  BY ShapeAssumption
<1> QED
  BY <1>1, <1>2 DEF InPlace, MiniblockOf, Doc, Cross

LEMMA WrittenInPlace ==
  ASSUME NEW b \in Blocks, NEW m \in body[b], m \in Miniblocks,
         NEW doc \in DocType, InPlace(m, doc), NEW exist
  PROVE  InPlace(m, Written(b, m, m \in exist, doc))
<1>1. shardOf[b] = sender[m] \/ receiver[m] \in {shardOf[b], AllShards}
  BY ShapeAssumption
<1>2. b # NoBlock
  BY ShapeAssumption
<1>3. CASE m \in exist /\ doc.exists /\ shardOf[b] = sender[m]
  <2>1. Written(b, m, m \in exist, doc) = [doc EXCEPT !.senderBlockHash = b]
    BY <1>3 DEF Written, MiniblockOf, Doc
  <2> QED
    BY <1>2, <1>3, <2>1 DEF InPlace, DocType
<1>4. CASE m \in exist /\ doc.exists /\ shardOf[b] # sender[m]
  <2>1. Written(b, m, m \in exist, doc) = [doc EXCEPT !.receiverBlockHash = b]
    BY <1>4 DEF Written, MiniblockOf, Doc
  <2> QED
    BY <1>1, <1>2, <1>4, <2>1 DEF InPlace, DocType
<1>5. CASE m \notin exist \/ ~doc.exists
  BY <1>5, MiniblockOfInPlace DEF Written
<1> QED
  BY <1>3, <1>4, <1>5

Placed == \A m \in Miniblocks : InPlace(m, miniblocksIndex.docs[m])

LEMMA InitPlaced == Init => Placed
  BY DEF Init, Placed, InPlace, NoDoc

LEMMA SaveMiniblocksPlaced ==
  ASSUME ControlOK, StoreOK, Placed, NEW s \in Shards, SaveMiniblocks(s)
  PROVE  Placed'
<1> DEFINE b == InHand(s)
<1>1. b \in Blocks /\ body[b] \subseteq Miniblocks
  BY AtRequest, InHandType DEF SaveMiniblocks
<1>2. PICK ms \in SUBSET body[b] :
        miniblocksIndex' = BulkWritten(miniblocksIndex, b, ms, found[s])
  BY DEF SaveMiniblocks
<1>3. found[s] \in SUBSET Miniblocks /\ ms \in SUBSET Miniblocks
      /\ miniblocksIndex \in MiniblocksIndexType
  BY <1>1 DEF StoreOK, ControlOK
<1> HIDE DEF b
<1>4. miniblocksIndex'.docs =
        [m \in Miniblocks |-> IF m \in ms THEN Written(b, m, m \in found[s], miniblocksIndex.docs[m])
                                          ELSE miniblocksIndex.docs[m]]
  BY <1>1, <1>2, <1>3, BulkWrittenType
<1>5. ASSUME NEW m \in Miniblocks PROVE InPlace(m, miniblocksIndex'.docs[m])
  <2>1. miniblocksIndex.docs[m] \in DocType /\ InPlace(m, miniblocksIndex.docs[m])
    BY DEF StoreOK, MiniblocksIndexType, IndexState, Placed
  <2>2. CASE m \in ms
    <3>1. InPlace(m, Written(b, m, m \in found[s], miniblocksIndex.docs[m]))
      BY <1>1, <2>1, <2>2, WrittenInPlace
    <3> QED
      BY <1>4, <2>2, <3>1
  <2> QED
    BY <1>4, <2>1, <2>2
<1> QED
  BY <1>5 DEF Placed

LEMMA RemoveMiniblocksPlaced ==
  ASSUME ControlOK, StoreOK, Placed, NEW s \in Shards, RemoveMiniblocks(s)
  PROVE  Placed'
<1>1. Hits(miniblocksIndex, Removable(InHand(s))) \subseteq Miniblocks
  BY AtRequest, InHandType DEF RemoveMiniblocks, Hits, Removable
<1>2. \/ miniblocksIndex' = miniblocksIndex
      \/ \E ms \in SUBSET Miniblocks : miniblocksIndex' = RemovedMiniblocks(ms)
  BY <1>1 DEF RemoveMiniblocks
<1>3. CASE miniblocksIndex' = miniblocksIndex
  BY <1>3 DEF Placed
<1>4. ASSUME NEW ms \in SUBSET Miniblocks, miniblocksIndex' = RemovedMiniblocks(ms)
      PROVE  Placed'
  <2>1. miniblocksIndex'.docs =
          [m \in Miniblocks |-> IF m \in ms THEN NoDoc ELSE miniblocksIndex.docs[m]]
    BY <1>4, RemovedMiniblocksFacts DEF StoreOK
  <2>2. \A m \in Miniblocks : InPlace(m, NoDoc)
    BY DEF InPlace, NoDoc
  <2> QED
    BY <2>1, <2>2 DEF Placed
<1> QED
  BY <1>2, <1>3, <1>4

LEMMA NextPlaced == ControlOK /\ StoreOK /\ Placed /\ [Next]_vars => Placed'
<1> SUFFICES ASSUME ControlOK, StoreOK, Placed, [Next]_vars PROVE Placed'
  OBVIOUS
<1>1. CASE miniblocksIndex'.docs = miniblocksIndex.docs
  BY <1>1 DEF Placed
<1>2. ASSUME NEW s \in Shards, Node(s) \/ Worker(s) PROVE Placed'
  BY <1>1, <1>2, SaveMiniblocksPlaced, RemoveMiniblocksPlaced
     DEF Node, SaveBlock, RevertIndexedBlock, Worker, Start, SaveHeader, GetExistingMiniblocks,
         SaveTransactions, RemoveHeader
<1>3. CASE RefreshBlocks \/ RefreshMiniblocks \/ UNCHANGED vars
  BY <1>1, <1>3 DEF RefreshBlocks, RefreshMiniblocks, vars
<1>4. ASSUME NEW s \in Shards, Restart(s) PROVE Placed'
  BY <1>1, <1>4 DEF Restart
<1> QED
  BY <1>2, <1>3, <1>4 DEF Next

\* However the workers of two shards interleave, whatever part of a bulk was
\* applied before it failed and whatever a multi get answered that is stale when
\* used, the hashes of a miniblock document are those of blocks of the right
\* shards which hold the miniblock.
THEOREM HashesCorrect == Spec => []HashesInTheirPlace
<1>1. Placed => HashesInTheirPlace
  BY DEF Placed, InPlace, HashesInTheirPlace
<1> QED
  BY <1>1, OKInvariant, InitPlaced, NextPlaced, PTL DEF Spec
-----------------------------------------------------------------------------
(* The blocks a queue leaves saved.  What the first k items of a queue make  *)
(* of the blocks saved before, which is what the database will show when     *)
(* they are completed and none is lost.                                      *)

Replayed(base, queue, k) ==
  {b \in Blocks :
     \/ b \in base /\ \A i \in 1..k : queue[i].block # b
     \/ \E j \in 1..k :
          /\ queue[j].op = "save" /\ queue[j].block = b
          /\ \A i \in (j + 1)..k : queue[i].block # b}

\* The base after an item was completed.
After(base, item) ==
  IF item.op = "save" THEN base \cup {item.block} ELSE base \ {item.block}

LEMMA ReplayNothing ==
  ASSUME NEW base \in SUBSET Blocks, NEW queue
  PROVE  Replayed(base, queue, 0) = base
  BY DEF Replayed

\* A block no item is about stays as it was.
LEMMA ReplayKeeps ==
  ASSUME NEW base \in SUBSET Blocks, NEW queue, NEW k \in Nat, NEW b \in base,
         \A i \in 1..k : queue[i].block # b
  PROVE  b \in Replayed(base, queue, k)
  BY DEF Replayed

LEMMA ReplayAppend ==
  ASSUME NEW base \in SUBSET Blocks, NEW queue \in Seq(Item), NEW item \in Item
  PROVE  /\ \A k \in 0..Len(queue) :
              Replayed(base, Append(queue, item), k) = Replayed(base, queue, k)
         /\ Replayed(base, Append(queue, item), Len(queue) + 1)
              \subseteq After(Replayed(base, queue, Len(queue)), item)
<1> DEFINE longer == Append(queue, item)
           n == Len(queue)
<1>1. n \in Nat /\ (\A i \in 1..n : longer[i] = queue[i]) /\ longer[n + 1] = item
  OBVIOUS
<1> HIDE DEF longer
<1>2. ASSUME NEW k \in 0..n PROVE Replayed(base, longer, k) = Replayed(base, queue, k)
  <2>1. \A i \in 1..k : longer[i] = queue[i]
    BY <1>1
  <2>2. \A j \in 1..k : \A i \in (j + 1)..k : i \in 1..k
    BY <1>1
  <2> QED
    BY <2>1, <2>2 DEF Replayed
<1>3. ASSUME NEW b \in Replayed(base, longer, n + 1)
      PROVE  b \in After(Replayed(base, queue, n), item)
  <2>1. b \in Blocks
    BY DEF Replayed
  <2>2. CASE b \in base /\ \A i \in 1..(n + 1) : longer[i].block # b
    <3>1. item.block # b /\ \A i \in 1..n : queue[i].block # b
      BY <1>1, <2>2
    <3> QED
      BY <2>1, <2>2, <3>1, <1>1, ReplayKeeps DEF After
  <2>3. ASSUME NEW j \in 1..(n + 1), longer[j].op = "save", longer[j].block = b,
               \A i \in (j + 1)..(n + 1) : longer[i].block # b
        PROVE  b \in After(Replayed(base, queue, n), item)
    <3>1. CASE j = n + 1
      BY <1>1, <2>3, <3>1 DEF After
    <3>2. CASE j # n + 1
      <4>1. j \in 1..n /\ queue[j].op = "save" /\ queue[j].block = b /\ item.block # b
        BY <1>1, <2>3, <3>2
      <4>2. ASSUME NEW i \in (j + 1)..n PROVE queue[i].block # b
        BY <1>1, <2>3, <4>1
      <4>3. b \in Replayed(base, queue, n)
        BY <2>1, <4>1, <4>2 DEF Replayed
      <4> QED
        BY <4>1, <4>3 DEF After
    <3> QED
      BY <3>1, <3>2
  <2> QED
    BY <2>2, <2>3 DEF Replayed
<1> QED
  BY <1>2, <1>3 DEF longer

\* Completing the first item is what replaying it does.
LEMMA ReplayTail ==
  ASSUME NEW base \in SUBSET Blocks, NEW queue \in Seq(Item), queue # <<>>,
         NEW k \in 0..(Len(queue) - 1)
  PROVE  Replayed(After(base, queue[1]), Tail(queue), k) \subseteq Replayed(base, queue, k + 1)
<1> DEFINE rest == Tail(queue)
           new == After(base, queue[1])
<1>1. /\ Len(queue) \in Nat \ {0} /\ k \in Nat /\ queue[1] \in Item
      /\ \A i \in 1..k : rest[i] = queue[i + 1]
  OBVIOUS
<1>2. ASSUME NEW b \in Replayed(new, rest, k) PROVE b \in Replayed(base, queue, k + 1)
  <2>1. b \in Blocks
    BY DEF Replayed
  <2>2. CASE b \in new /\ \A i \in 1..k : rest[i].block # b
    <3>1. ASSUME NEW i \in 2..(k + 1) PROVE queue[i].block # b
      <4>1. i - 1 \in 1..k /\ (i - 1) + 1 = i
        BY <1>1
      <4>2. rest[i - 1] = queue[i]
        BY <1>1, <4>1
      <4> QED
        BY <2>2, <4>1, <4>2
    <3>2. CASE queue[1].op = "save" /\ queue[1].block = b
      <4>1. 1 \in 1..(k + 1) /\ \A i \in (1 + 1)..(k + 1) : queue[i].block # b
        BY <1>1, <3>1
      <4> QED
        BY <2>1, <3>2, <4>1 DEF Replayed
    <3>3. CASE b \in base /\ queue[1].block # b
      <4>1. \A i \in 1..(k + 1) : queue[i].block # b
        BY <1>1, <3>1, <3>3
      <4> QED
        BY <1>1, <3>3, <4>1, ReplayKeeps
    <3> QED
      BY <2>2, <3>2, <3>3 DEF After
  <2>3. ASSUME NEW j \in 1..k, rest[j].op = "save", rest[j].block = b,
               \A i \in (j + 1)..k : rest[i].block # b
        PROVE  b \in Replayed(base, queue, k + 1)
    <3>1. j + 1 \in 1..(k + 1) /\ queue[j + 1].op = "save" /\ queue[j + 1].block = b
      BY <1>1, <2>3
    <3>2. ASSUME NEW i \in ((j + 1) + 1)..(k + 1) PROVE queue[i].block # b
      <4>1. i - 1 \in (j + 1)..k /\ i - 1 \in 1..k /\ (i - 1) + 1 = i
        BY <1>1
      <4>2. rest[i - 1] = queue[i]
        BY <1>1, <4>1
      <4> QED
        BY <2>3, <4>1, <4>2
    <3> QED
      BY <2>1, <3>1, <3>2 DEF Replayed
  <2> QED
    BY <2>2, <2>3 DEF Replayed
<1> QED
  BY <1>2
-----------------------------------------------------------------------------
(* Queues.  A miniblock is in one committed block at a time, so whenever an  *)
(* item is run no other block with a miniblock of its block stands saved.    *)

SharesMiniblocks(b, c) == b # c /\ body[b] \cap body[c] # {}

\* The blocks of shard s that the database is to show.
Standing(s) == {b \in indexed \ lost : shardOf[b] = s}

QueueOK(s) ==
  /\ \A b, c \in Chains!OnChain(s) : ~SharesMiniblocks(b, c)
  /\ Replayed(Standing(s), items[s], Len(items[s])) \subseteq Chains!OnChain(s)
  /\ \A k \in 1..Len(items[s]) : \A b \in Replayed(Standing(s), items[s], k - 1) :
       ~SharesMiniblocks(b, items[s][k].block)

Queues == \A s \in Shards : QueueOK(s)

LEMMA OtherQueue ==
  ASSUME Queues, NEW r \in Shards, chain'[r] = chain[r], items'[r] = items[r],
         Standing(r)' = Standing(r)
  PROVE  QueueOK(r)'
<1>1. QueueOK(r) /\ Chains!OnChain(r)' = Chains!OnChain(r)
  BY DEF Queues, Chains!OnChain
<1> QED
  BY <1>1 DEF QueueOK, SharesMiniblocks

LEMMA InitQueues == Init => Queues
<1> SUFFICES ASSUME Init, NEW s \in Shards PROVE QueueOK(s)
  BY DEF Queues
<1>1. chain[s] = <<>> /\ items[s] = <<>> /\ Standing(s) = {}
  BY DEF Init, Chains!Init, Standing
<1>2. Len(chain[s]) = 0 /\ Len(items[s]) = 0
  BY <1>1
<1>3. Chains!OnChain(s) = {} /\ 1..Len(items[s]) = {}
  BY <1>2 DEF Chains!OnChain
<1>4. Replayed(Standing(s), items[s], Len(items[s])) = {}
  BY <1>1, <1>2, ReplayNothing
<1> QED
  BY <1>3, <1>4 DEF QueueOK

\* Queuing an item for a block that shares no miniblock with those on the chain.
LEMMA QueueStep ==
  ASSUME ControlOK, Queues, NEW s \in Shards, NEW item \in Item,
         \A b \in Chains!OnChain(s) : ~SharesMiniblocks(b, item.block),
         items' = [items EXCEPT ![s] = Append(@, item)],
         UNCHANGED historyVars,
         \A r \in Shards \ {s} : chain'[r] = chain[r],
         After(Chains!OnChain(s), item) \subseteq Chains!OnChain(s)',
         \A b, c \in Chains!OnChain(s)' : ~SharesMiniblocks(b, c)
  PROVE  Queues'
<1>1. ASSUME NEW r \in Shards PROVE Standing(r)' = Standing(r)
  BY DEF Standing, historyVars
<1>2. ASSUME NEW r \in Shards \ {s} PROVE QueueOK(r)'
  BY <1>1, OtherQueue DEF ControlOK
<1>3. QueueOK(s)'
  <2> DEFINE n == Len(items[s])
             base == Standing(s)
  <2>1. /\ items[s] \in Seq(Item) /\ items'[s] = Append(items[s], item) /\ n \in Nat
        /\ Len(items'[s]) = n + 1 /\ items'[s][n + 1] = item
        /\ \A k \in 1..n : items'[s][k] = items[s][k]
    BY DEF ControlOK
  <2>2. base \in SUBSET Blocks
    BY DEF Standing, ControlOK
  <2>3. /\ Replayed(base, items[s], n) \subseteq Chains!OnChain(s)
        /\ \A k \in 1..n : \A b \in Replayed(base, items[s], k - 1) :
             ~SharesMiniblocks(b, items[s][k].block)
    BY DEF Queues, QueueOK
  <2> HIDE DEF n, base
  <2>4. /\ \A k \in 0..n : Replayed(base, items'[s], k) = Replayed(base, items[s], k)
        /\ Replayed(base, items'[s], n + 1) \subseteq After(Replayed(base, items[s], n), item)
    BY <2>1, <2>2, ReplayAppend DEF n
  <2>5. Replayed(base, items'[s], n + 1) \subseteq Chains!OnChain(s)'
    BY <2>3, <2>4 DEF After
  <2>6. ASSUME NEW k \in 1..(n + 1), NEW b \in Replayed(base, items'[s], k - 1)
        PROVE  ~SharesMiniblocks(b, items'[s][k].block)
    <3>1. k - 1 \in 0..n /\ b \in Replayed(base, items[s], k - 1)
      BY <2>1, <2>4
    <3>2. CASE k = n + 1
      <4>1. b \in Chains!OnChain(s)
        BY <2>1, <2>3, <3>1, <3>2
      <4> QED
        BY <2>1, <3>2, <4>1
    <3>3. CASE k # n + 1
      <4>1. k \in 1..n
        BY <2>1, <3>3
      <4> QED
        BY <2>1, <2>3, <3>1, <4>1
    <3> QED
      BY <3>2, <3>3
  <2>7. base = Standing(s)'
    BY <1>1 DEF base
  <2> QED
    BY <2>1, <2>5, <2>6, <2>7 DEF QueueOK, SharesMiniblocks
<1> QED
  BY <1>2, <1>3 DEF Queues

LEMMA SaveBlockQueues ==
  ASSUME ControlOK, Queues, NEW s \in Shards, NEW b \in Blocks, SaveBlock(s, b)
  PROVE  Queues'
<1> DEFINE item == [op |-> "save", block |-> b]
<1>1. /\ \A c \in Chains!OnChain(s) : c # b /\ body[c] \cap body[b] = {}
      /\ chain' = [chain EXCEPT ![s] = Append(@, b)]
      /\ items' = [items EXCEPT ![s] = Append(@, item)]
      /\ UNCHANGED historyVars
  BY DEF SaveBlock, Chains!Commit
<1>2. chain[s] \in Seq(Blocks) /\ chain'[s] = Append(chain[s], b)
      /\ \A r \in Shards \ {s} : chain'[r] = chain[r]
  BY <1>1 DEF ControlOK
<1>3. Chains!OnChain(s)' = Chains!OnChain(s) \cup {b}
  <2>1. /\ Len(chain'[s]) = Len(chain[s]) + 1 /\ chain'[s][Len(chain[s]) + 1] = b
        /\ \A i \in 1..Len(chain[s]) : chain'[s][i] = chain[s][i]
    BY <1>2
  <2>2. 1..(Len(chain[s]) + 1) = (1..Len(chain[s])) \cup {Len(chain[s]) + 1}
    BY <1>2
  <2> QED
    BY <2>1, <2>2 DEF Chains!OnChain
<1>4. \A c \in Chains!OnChain(s) : ~SharesMiniblocks(c, b) /\ ~SharesMiniblocks(b, c)
  BY <1>1 DEF SharesMiniblocks
<1>5. \A c, d \in Chains!OnChain(s)' : ~SharesMiniblocks(c, d)
  BY <1>3, <1>4 DEF Queues, QueueOK, SharesMiniblocks
<1>6. item \in Item /\ item.block = b /\ item.op = "save"
  BY DEF Item
<1>7. After(Chains!OnChain(s), item) \subseteq Chains!OnChain(s)'
  BY <1>3, <1>6 DEF After
<1> HIDE DEF item
<1> QED
  BY <1>1, <1>2, <1>4, <1>5, <1>6, <1>7, QueueStep

LEMMA RevertQueues ==
  ASSUME ControlOK, Queues, NEW s \in Shards, RevertIndexedBlock(s)
  PROVE  Queues'
<1> DEFINE b == Chains!Top(s)
           item == [op |-> "remove", block |-> b]
<1>1. /\ chain[s] # <<>> /\ chain' = [chain EXCEPT ![s] = SubSeq(@, 1, Len(@) - 1)]
      /\ items' = [items EXCEPT ![s] = Append(@, item)]
      /\ UNCHANGED historyVars
  BY DEF RevertIndexedBlock, Chains!Revert
<1>2. chain[s] \in Seq(Blocks) /\ chain'[s] = SubSeq(chain[s], 1, Len(chain[s]) - 1)
      /\ \A r \in Shards \ {s} : chain'[r] = chain[r]
  BY <1>1 DEF ControlOK
<1>3. b \in Blocks /\ b \in Chains!OnChain(s)
  BY <1>1, <1>2, PrefixFacts DEF Chains!Top, Chains!OnChain
<1>4. Chains!OnChain(s)' \subseteq Chains!OnChain(s)
  BY <1>1, <1>2, PrefixFacts DEF Chains!OnChain
<1>5. Chains!OnChain(s) \ {b} \subseteq Chains!OnChain(s)'
  <2> SUFFICES ASSUME NEW i \in 1..Len(chain[s]), chain[s][i] # b
               PROVE  chain[s][i] \in Chains!OnChain(s)'
    BY DEF Chains!OnChain
  <2>1. i # Len(chain[s])
    BY DEF Chains!Top
  <2>2. i \in 1..Len(chain'[s]) /\ chain'[s][i] = chain[s][i]
    BY <1>1, <1>2, <2>1
  <2> QED
    BY <2>2 DEF Chains!OnChain
<1>6. item \in Item /\ item.block = b /\ item.op = "remove"
  BY <1>3 DEF Item
<1>7. After(Chains!OnChain(s), item) \subseteq Chains!OnChain(s)'
  BY <1>5, <1>6 DEF After
<1>8. \A c, d \in Chains!OnChain(s) : ~SharesMiniblocks(c, d)
  BY DEF Queues, QueueOK
<1> HIDE DEF b, item
<1> QED
  BY <1>1, <1>2, <1>3, <1>4, <1>6, <1>7, <1>8, QueueStep

LEMMA CompleteQueues ==
  ASSUME ControlOK, Queues, NEW s \in Shards, items[s] # <<>>, Complete(s)
  PROVE  Queues'
<1>1. /\ items[s] \in Seq(Item) /\ items[s][1] \in Item /\ shardOf[InHand(s)] = s
      /\ items' = [items EXCEPT ![s] = Tail(@)]
      /\ indexed' = IF items[s][1].op = "save" THEN indexed \cup {InHand(s)}
                                               ELSE indexed \ {InHand(s)}
      /\ lost' = lost \ {InHand(s)}
      /\ UNCHANGED chain
  BY InHandType DEF Complete, ControlOK, chainVars
<1>2. ASSUME NEW r \in Shards \ {s} PROVE QueueOK(r)'
  <2>1. Standing(r)' = Standing(r)
    BY <1>1 DEF Standing
  <2> QED
    BY <1>1, <2>1, OtherQueue DEF ControlOK
<1>3. QueueOK(s)'
  <2> DEFINE n == Len(items[s])
             base == Standing(s)
  <2>1. /\ items'[s] = Tail(items[s]) /\ n \in Nat \ {0} /\ Len(items'[s]) = n - 1
        /\ \A k \in 1..(n - 1) : items'[s][k] = items[s][k + 1]
    BY <1>1 DEF ControlOK
  <2>2. base \in SUBSET Blocks
    BY DEF Standing, ControlOK
  <2>3. Standing(s)' = After(base, items[s][1])
    BY <1>1 DEF Standing, After, InHand
  <2>4. \A k \in 0..(n - 1) :
          Replayed(Standing(s)', items'[s], k) \subseteq Replayed(base, items[s], k + 1)
    BY <1>1, <2>1, <2>2, <2>3, ReplayTail
  <2>5. /\ Replayed(base, items[s], n) \subseteq Chains!OnChain(s)
        /\ \A k \in 1..n : \A b \in Replayed(base, items[s], k - 1) :
             ~SharesMiniblocks(b, items[s][k].block)
        /\ \A b, c \in Chains!OnChain(s) : ~SharesMiniblocks(b, c)
    BY DEF Queues, QueueOK
  <2>6. Chains!OnChain(s)' = Chains!OnChain(s)
    BY <1>1 DEF Chains!OnChain
  <2> HIDE DEF n, base
  <2>7. Replayed(Standing(s)', items'[s], n - 1) \subseteq Chains!OnChain(s)'
    <3>1. n - 1 \in 0..(n - 1) /\ (n - 1) + 1 = n
      BY <2>1
    <3>2. Replayed(Standing(s)', items'[s], n - 1) \subseteq Replayed(base, items[s], (n - 1) + 1)
      BY <2>4, <3>1
    <3> QED
      BY <2>5, <2>6, <3>1, <3>2
  <2>8. ASSUME NEW k \in 1..(n - 1), NEW b \in Replayed(Standing(s)', items'[s], k - 1)
        PROVE  ~SharesMiniblocks(b, items'[s][k].block)
    <3>1. k - 1 \in 0..(n - 1) /\ (k - 1) + 1 = k /\ k + 1 \in 1..n /\ (k + 1) - 1 = k
      BY <2>1
    <3>2. b \in Replayed(base, items[s], k)
      BY <2>4, <3>1
    <3>3. ~SharesMiniblocks(b, items[s][k + 1].block)
      BY <2>5, <3>1, <3>2
    <3> QED
      BY <2>1, <3>3
  <2> QED
    BY <2>1, <2>5, <2>6, <2>7, <2>8 DEF QueueOK, SharesMiniblocks
<1> QED
  BY <1>2, <1>3 DEF Queues

\* What no lost item was about stands, and is on the chain.
LEMMA RestartQueues ==
  ASSUME ControlOK, Queues, NEW s \in Shards, Restart(s)
  PROVE  Queues'
<1>1. /\ items' = [items EXCEPT ![s] = <<>>]
      /\ lost' = lost \cup {items[s][k].block : k \in 1..Len(items[s])}
      /\ UNCHANGED <<chain, indexed>>
      /\ items[s] \in Seq(Item)
      /\ \A k \in 1..Len(items[s]) : shardOf[items[s][k].block] = s
  BY DEF Restart, ControlOK, OwnBlocks
<1>2. ASSUME NEW r \in Shards \ {s} PROVE QueueOK(r)'
  <2>1. Standing(r)' = Standing(r)
    BY <1>1 DEF Standing
  <2> QED
    BY <1>1, <2>1, OtherQueue DEF ControlOK
<1>3. QueueOK(s)'
  <2>1. items'[s] = <<>> /\ Len(items'[s]) = 0 /\ 1..Len(items'[s]) = {}
    BY <1>1 DEF ControlOK
  <2>2. Standing(s)' \in SUBSET Blocks /\ Standing(s) \in SUBSET Blocks
    BY <1>1 DEF Standing, ControlOK
  <2>3. Replayed(Standing(s)', items'[s], 0) = Standing(s)'
    BY <2>2, ReplayNothing
  <2>4. ASSUME NEW b \in Standing(s)' PROVE b \in Chains!OnChain(s)
    <3>1. b \in Standing(s) /\ \A k \in 1..Len(items[s]) : items[s][k].block # b
      BY <1>1 DEF Standing
    <3>2. b \in Replayed(Standing(s), items[s], Len(items[s]))
      BY <1>1, <2>2, <3>1, ReplayKeeps
    <3> QED
      BY <3>2 DEF Queues, QueueOK
  <2>5. Chains!OnChain(s)' = Chains!OnChain(s)
        /\ \A b, c \in Chains!OnChain(s) : ~SharesMiniblocks(b, c)
    BY <1>1 DEF Chains!OnChain, Queues, QueueOK
  <2> QED
    BY <2>1, <2>3, <2>4, <2>5 DEF QueueOK, SharesMiniblocks
<1> QED
  BY <1>2, <1>3 DEF Queues

LEMMA NextQueues == ControlOK /\ StoreOK /\ Queues /\ [Next]_vars => Queues'
<1> SUFFICES ASSUME ControlOK, StoreOK, Queues, [Next]_vars PROVE Queues'
  OBVIOUS
<1>1. CASE UNCHANGED <<chain, items, historyVars>>
  BY <1>1, OtherQueue DEF Queues, Standing, historyVars
<1>2. ASSUME NEW s \in Shards, Node(s) PROVE Queues'
  BY <1>2, SaveBlockQueues, RevertQueues DEF Node
<1>3. ASSUME NEW s \in Shards, Worker(s) PROVE Queues'
  <2>1. \/ UNCHANGED <<chain, items, historyVars>>
        \/ step[s] # "idle" /\ Complete(s)
    BY <1>3 DEF Worker, Start, SaveHeader, GetExistingMiniblocks, SaveMiniblocks, SaveTransactions,
       RemoveHeader, RemoveMiniblocks, Retry, Continue, chainVars
  <2> QED
    BY <1>1, <2>1, AtRequest, CompleteQueues
<1>4. CASE RefreshBlocks \/ RefreshMiniblocks \/ UNCHANGED vars
  BY <1>1, <1>4 DEF RefreshBlocks, RefreshMiniblocks, vars, chainVars, historyVars
<1> QED
  BY <1>2, <1>3, <1>4, RestartQueues DEF Next
-----------------------------------------------------------------------------
(* Miniblocks sent.  Only the sender's worker removes the document of a      *)
(* miniblock, so what its multi get found is still there when its bulk is    *)
(* applied; the workers of other shards only set the hash of the receiver.   *)

Sent(b) == {m \in body[b] : sender[m] = shardOf[b]}

Shown(b) ==
  \A m \in Sent(b) :
    /\ miniblocksIndex.docs[m].exists
    /\ ~Cross(m) => miniblocksIndex.docs[m].senderBlockHash = b

SentAtStep(s) ==
  /\ step[s] = "bulk" =>
       \A m \in found[s] : sender[m] = s => miniblocksIndex.docs[m].exists
  /\ step[s] = "transactions" => Shown(InHand(s))

SentInv ==
  "miniblocks" \in EnabledIndexes =>
    \A s \in Shards :
      /\ SentAtStep(s)
      /\ \A b \in Standing(s) : ~InProgress(b) => Shown(b)

LEMMA InitSent == Init => SentInv
  BY DEF Init, SentInv, SentAtStep, Standing

\* What no request but the sender's does to the documents of what shard s sends.
KeptFor(s) ==
  \A m \in Miniblocks : sender[m] = s /\ miniblocksIndex.docs[m].exists =>
    /\ miniblocksIndex'.docs[m].exists
    /\ ~Cross(m) =>
         miniblocksIndex'.docs[m].senderBlockHash = miniblocksIndex.docs[m].senderBlockHash

LEMMA KeptShown ==
  ASSUME NEW s \in Shards, KeptFor(s), NEW b \in Blocks, shardOf[b] = s, Shown(b)
  PROVE  Shown(b)'
<1>1. Sent(b) \subseteq Miniblocks /\ \A m \in Sent(b) : sender[m] = s
  BY ShapeAssumption DEF Sent
<1> QED
  BY <1>1 DEF Shown, KeptFor, Sent, Cross

\* A step that leaves the worker and the items completed of shard r alone, or
\* begins its item, or queues one more.
LEMMA SentElsewhere ==
  ASSUME ControlOK, SentInv, "miniblocks" \in EnabledIndexes,
         NEW r \in Shards, KeptFor(r),
         \/ step'[r] = step[r] /\ found'[r] = found[r]
         \/ step'[r] \in {"header", "mget", "removeHeader", "removeMiniblocks"},
         step[r] # "idle" => step'[r] # "idle" /\ InHand(r)' = InHand(r),
         Standing(r)' \subseteq Standing(r)
  PROVE  /\ SentAtStep(r)'
         /\ \A b \in Standing(r)' : ~InProgress(b)' => Shown(b)'
<1>1. SentAtStep(r)'
  <2>1. SentAtStep(r) /\ found[r] \subseteq Miniblocks
    BY DEF SentInv, ControlOK
  <2>2. CASE step'[r] = step[r] /\ found'[r] = found[r] /\ step[r] = "bulk"
    BY <2>1, <2>2 DEF SentAtStep, KeptFor
  <2>3. CASE step'[r] = step[r] /\ step[r] = "transactions"
    <3>1. PICK b \in Blocks : b = InHand(r) /\ shardOf[b] = r
      BY <2>3, AtRequest, InHandType
    <3>2. Shown(b) /\ InHand(r)' = b
      BY <2>1, <2>3, <3>1 DEF SentAtStep
    <3>3. Shown(b)'
      BY <3>1, <3>2, KeptShown
    <3> QED
      BY <2>3, <3>2, <3>3 DEF SentAtStep, Shown, Sent
  <2> QED
    BY <2>2, <2>3 DEF SentAtStep
<1>2. ASSUME NEW b \in Standing(r)', ~InProgress(b)' PROVE Shown(b)'
  <2>1. b \in Standing(r) /\ b \in Blocks /\ shardOf[b] = r
    BY DEF Standing, ControlOK
  <2>2. ~InProgress(b)
    BY <1>2, <2>1 DEF InProgress
  <2> QED
    BY <2>1, <2>2, KeptShown DEF SentInv
<1> QED
  BY <1>1, <1>2

\* The block in hand of a worker has no miniblock in common with another block
\* that stands.
LEMMA AloneInHand ==
  ASSUME ControlOK, Queues, NEW s \in Shards, items[s] # <<>>,
         NEW b \in Standing(s), b # InHand(s)
  PROVE  Sent(b) \cap body[InHand(s)] = {}
<1>1. 1 \in 1..Len(items[s]) /\ 1 - 1 = 0
  BY DEF ControlOK
<1>2. Replayed(Standing(s), items[s], 0) = Standing(s)
  BY ReplayNothing DEF Standing, ControlOK
<1>3. ~SharesMiniblocks(b, items[s][1].block)
  BY <1>1, <1>2 DEF Queues, QueueOK
<1> QED
  BY <1>3 DEF SharesMiniblocks, Sent, InHand

\* A step of the worker of s on the block in its hand.
LEMMA SentOwnStep ==
  ASSUME ControlOK, Queues, SentInv, "miniblocks" \in EnabledIndexes,
         NEW s \in Shards, step[s] # "idle", NEW b \in Blocks, b = InHand(s),
         \A r \in Shards \ {s} : /\ step'[r] = step[r] /\ items'[r] = items[r]
                                 /\ found'[r] = found[r] /\ Standing(r)' = Standing(r)
                                 /\ KeptFor(r),
         \A m \in Miniblocks \ body[b] : miniblocksIndex'.docs[m] = miniblocksIndex.docs[m],
         Standing(s)' \subseteq Standing(s) \cup {b},
         SentAtStep(s)',
         IF step'[s] = "idle" THEN b \in Standing(s)' => Shown(b)'
                              ELSE items'[s] = items[s]
  PROVE  SentInv'
<1>0. items[s] # <<>> /\ b \in Blocks /\ shardOf[b] = s /\ body[b] \subseteq Miniblocks
  BY AtRequest, InHandType
<1>1. ASSUME NEW r \in Shards \ {s}
      PROVE  SentAtStep(r)' /\ \A c \in Standing(r)' : ~InProgress(c)' => Shown(c)'
  BY <1>1, SentElsewhere DEF InHand
<1>2. ASSUME NEW c \in Standing(s)', ~InProgress(c)' PROVE Shown(c)'
  <2>1. c \in Blocks /\ shardOf[c] = s
    BY <1>0 DEF Standing, ControlOK
  <2>2. CASE c = b
    <3>1. step'[s] = "idle"
      BY <1>2, <2>1, <2>2 DEF InProgress, InHand
    <3> QED
      BY <1>2, <2>2, <3>1
  <2>3. CASE c # b
    <3>1. c \in Standing(s) /\ ~InProgress(c)
      BY <2>1, <2>3 DEF InProgress
    <3>2. Shown(c) /\ Sent(c) \cap body[b] = {}
      BY <1>0, <2>3, <3>1, AloneInHand DEF SentInv
    <3>3. Sent(c) \subseteq Miniblocks
      BY <2>1, ShapeAssumption DEF Sent
    <3> QED
      BY <3>2, <3>3 DEF Shown, Sent, Cross
  <2> QED
    BY <2>2, <2>3
<1> QED
  BY <1>1, <1>2 DEF SentInv
\* What shards other than the sender and the receiver never hold.
LEMMA Elsewhere ==
  ASSUME NEW b \in Blocks, NEW m \in body[b], sender[m] # shardOf[b]
  PROVE  /\ Cross(m)
         /\ m \notin Removable(b)
<1>1. m \in Miniblocks /\ sender[m] \in Shards /\ shardOf[b] \in Shards
      /\ receiver[m] \in {shardOf[b], AllShards}
  BY ShapeAssumption
<1>2. AllShards \notin Shards /\ (receiver[m] = AllShards => m \in PeerMiniblocks)
  BY <1>1, ShapeAssumption
<1> QED
  BY <1>1, <1>2 DEF Cross, Removable

\* The steps that leave the documents alone and do not end an item.
LEMMA PassingSent ==
  ASSUME ControlOK, SentInv, miniblocksIndex'.docs = miniblocksIndex.docs,
         \A r \in Shards :
           /\ \/ step'[r] = step[r] /\ found'[r] = found[r]
              \/ step'[r] \in {"header", "mget", "removeHeader", "removeMiniblocks"}
           /\ step[r] # "idle" => step'[r] # "idle" /\ InHand(r)' = InHand(r),
         UNCHANGED historyVars
  PROVE  SentInv'
<1>1. ASSUME NEW r \in Shards PROVE KeptFor(r) /\ Standing(r)' = Standing(r)
  BY DEF KeptFor, Standing, historyVars
<1> QED
  BY <1>1, SentElsewhere DEF SentInv

LEMMA NodeSent ==
  ASSUME ControlOK, SentInv, NEW s \in Shards, Node(s)
  PROVE  SentInv'
<1>1. UNCHANGED <<step, found, historyVars, miniblocksIndex>>
  BY DEF Node, SaveBlock, RevertIndexedBlock
<1>2. PICK item : items' = [items EXCEPT ![s] = Append(@, item)]
  BY DEF Node, SaveBlock, RevertIndexedBlock
<1>3. ASSUME NEW r \in Shards, step[r] # "idle" PROVE InHand(r)' = InHand(r)
  <2>1. items[r] # <<>> /\ items[r] \in Seq(Item)
    BY <1>3, AtRequest DEF ControlOK
  <2>2. items'[r] = IF r = s THEN Append(items[r], item) ELSE items[r]
    BY <1>2 DEF ControlOK
  <2>3. Append(items[r], item)[1] = items[r][1]
    BY <2>1
  <2> QED
    BY <2>2, <2>3 DEF InHand
<1> QED
  BY <1>1, <1>3, PassingSent

\* The worker of s begins its item, begins it again or goes on.
LEMMA StepSent ==
  ASSUME ControlOK, SentInv, NEW s \in Shards,
         NEW next \in {"header", "mget", "removeHeader", "removeMiniblocks"},
         step' = [step EXCEPT ![s] = next], UNCHANGED <<items, historyVars>>,
         \A r \in Shards \ {s} : found'[r] = found[r],
         miniblocksIndex'.docs = miniblocksIndex.docs
  PROVE  SentInv'
<1>1. step'[s] = next /\ \A r \in Shards \ {s} : step'[r] = step[r]
  BY DEF ControlOK
<1>2. \A r \in Shards : InHand(r)' = InHand(r)
  BY DEF InHand
<1> QED
  BY <1>1, <1>2, PassingSent

LEMMA RetrySent ==
  ASSUME ControlOK, SentInv, NEW s \in Shards, Retry(s),
         miniblocksIndex'.docs = miniblocksIndex.docs
  PROVE  SentInv'
<1>1. FirstStep(items[s][1]) \in {"header", "removeHeader"}
  BY DEF FirstStep
<1> QED
  BY <1>1, StepSent DEF Retry

\* An item ends, without a write of its last request or after it.
LEMMA CompleteSent ==
  ASSUME ControlOK, Queues, SentInv, "miniblocks" \in EnabledIndexes,
         NEW s \in Shards, step[s] # "idle", Complete(s),
         NEW b \in Blocks, b = InHand(s),
         \A r \in Shards \ {s} : KeptFor(r),
         \A m \in Miniblocks \ body[b] : miniblocksIndex'.docs[m] = miniblocksIndex.docs[m],
         items[s][1].op = "save" => Shown(b)'
  PROVE  SentInv'
<1>1. /\ items[s] # <<>> /\ shardOf[b] = s
      /\ step'[s] = "idle"
      /\ indexed' = IF items[s][1].op = "save" THEN indexed \cup {b} ELSE indexed \ {b}
      /\ lost' = lost \ {b}
  BY AtRequest, InHandType DEF Complete, ControlOK
<1>2. ASSUME NEW r \in Shards \ {s}
      PROVE  /\ step'[r] = step[r] /\ items'[r] = items[r] /\ found'[r] = found[r]
             /\ Standing(r)' = Standing(r)
  BY <1>1 DEF Complete, ControlOK, Standing
<1>3. Standing(s)' \subseteq Standing(s) \cup {b}
      /\ (items[s][1].op # "save" => b \notin Standing(s)')
  BY <1>1 DEF Standing
<1>4. SentAtStep(s)'
  BY <1>1 DEF SentAtStep
<1> QED
  BY <1>1, <1>2, <1>3, <1>4, SentOwnStep

LEMMA SaveHeaderSent ==
  ASSUME ControlOK, Queues, SentInv, "miniblocks" \in EnabledIndexes,
         NEW s \in Shards, SaveHeader(s)
  PROVE  SentInv'
<1>1. step[s] = "header" /\ items[s] # <<>>
  BY AtRequest DEF SaveHeader
<1>2. PICK b \in Blocks : b = InHand(s)
  BY <1>1, InHandType
<1>3. /\ miniblocksIndex' = miniblocksIndex
      /\ ((Complete(s) /\ body[b] = {}) \/ Continue(s, "mget") \/ Retry(s))
  BY <1>2 DEF SaveHeader
<1>4. CASE Complete(s) /\ body[b] = {}
  <2>1. Shown(b)'
    BY <1>4 DEF Shown, Sent
  <2>2. \A r \in Shards : KeptFor(r)
    BY <1>3 DEF KeptFor
  <2> QED
    BY <1>1, <1>2, <1>3, <1>4, <2>1, <2>2, CompleteSent
<1> QED
  BY <1>3, <1>4, RetrySent, StepSent DEF Continue

LEMMA GetExistingSent ==
  ASSUME ControlOK, Queues, SentInv, "miniblocks" \in EnabledIndexes,
         NEW s \in Shards, GetExistingMiniblocks(s)
  PROVE  SentInv'
<1>1. step[s] = "mget" /\ items[s] # <<>> /\ miniblocksIndex' = miniblocksIndex
  BY AtRequest DEF GetExistingMiniblocks
<1>2. PICK b \in Blocks : b = InHand(s)
  BY <1>1, InHandType
<1>3. CASE Retry(s)
  BY <1>1, <1>3, RetrySent
<1>4. ASSUME step' = [step EXCEPT ![s] = "bulk"],
             NEW read \in ReadMiniblocks(b), found' = [found EXCEPT ![s] = read],
             UNCHANGED <<chainVars, items, historyVars>>
      PROVE  SentInv'
  <2>1. /\ step'[s] = "bulk" /\ found'[s] = read
        /\ \A r \in Shards \ {s} : step'[r] = step[r] /\ found'[r] = found[r]
    BY <1>4 DEF ControlOK
  <2>2. \A m \in read : miniblocksIndex.docs[m].exists
    BY DEF ReadMiniblocks, ExistingMiniblocks
  <2>3. SentAtStep(s)'
    BY <1>1, <2>1, <2>2 DEF SentAtStep
  <2>4. ASSUME NEW r \in Shards PROVE KeptFor(r) /\ Standing(r)' = Standing(r)
    BY <1>1, <1>4 DEF KeptFor, Standing, historyVars
  <2> QED
    BY <1>1, <1>2, <1>4, <2>1, <2>3, <2>4, SentOwnStep
<1> QED
  BY <1>2, <1>3, <1>4 DEF GetExistingMiniblocks

\* A bulk of block b leaves what other shards sent, and what its own sent and
\* was there before is there after it.
LEMMA WrittenSent ==
  ASSUME NEW b \in Blocks, NEW m \in body[b], m \in Miniblocks, NEW exist,
         NEW doc \in DocType, doc.exists \/ m \notin exist
  PROVE  /\ Written(b, m, m \in exist, doc).exists
         /\ sender[m] = shardOf[b] => Written(b, m, m \in exist, doc).senderBlockHash = b
<1>1. doc = [doc EXCEPT !.senderBlockHash = doc.senderBlockHash]
      /\ [doc EXCEPT !.senderBlockHash = MiniblockOf(b, m).senderBlockHash].exists = doc.exists
      /\ [doc EXCEPT !.receiverBlockHash = MiniblockOf(b, m).receiverBlockHash].exists = doc.exists
  BY DEF DocType
<1>2. sender[m] = shardOf[b] => MiniblockOf(b, m).senderBlockHash = b
  BY DEF MiniblockOf, Doc
<1>3. [doc EXCEPT !.senderBlockHash = MiniblockOf(b, m).senderBlockHash].senderBlockHash
        = MiniblockOf(b, m).senderBlockHash
  BY DEF DocType
<1> QED
  BY <1>1, <1>2, <1>3, MiniblockOfType DEF Written

LEMMA SaveMiniblocksSent ==
  ASSUME ControlOK, StoreOK, Queues, SentInv, "miniblocks" \in EnabledIndexes,
         NEW s \in Shards, SaveMiniblocks(s)
  PROVE  SentInv'
<1>1. step[s] = "bulk" /\ items[s] # <<>> /\ UNCHANGED <<items, historyVars>>
  BY AtRequest DEF SaveMiniblocks
<1>2. PICK b \in Blocks : b = InHand(s) /\ shardOf[b] = s /\ body[b] \subseteq Miniblocks
  BY <1>1, InHandType
<1>3. PICK ms \in SUBSET body[b], next \in {"transactions", "header"} :
        /\ miniblocksIndex' = BulkWritten(miniblocksIndex, b, ms, found[s])
        /\ step' = [step EXCEPT ![s] = next]
        /\ next = "transactions" => ms = body[b]
  BY <1>2 DEF SaveMiniblocks
<1>4. /\ step'[s] = next
      /\ \A r \in Shards \ {s} : step'[r] = step[r] /\ found'[r] = found[r] /\ items'[r] = items[r]
      /\ \A r \in Shards : Standing(r)' = Standing(r)
      /\ found[s] \in SUBSET Miniblocks /\ ms \in SUBSET Miniblocks
      /\ miniblocksIndex \in MiniblocksIndexType
  BY <1>1, <1>2, <1>3 DEF SaveMiniblocks, ControlOK, StoreOK, Standing, historyVars
<1>5. \A m \in Miniblocks : miniblocksIndex'.docs[m] =
        IF m \in ms THEN Written(b, m, m \in found[s], miniblocksIndex.docs[m])
                    ELSE miniblocksIndex.docs[m]
  <2>1. miniblocksIndex'.docs =
          [m \in Miniblocks |-> IF m \in ms
                                  THEN Written(b, m, m \in found[s], miniblocksIndex.docs[m])
                                  ELSE miniblocksIndex.docs[m]]
    BY <1>3, <1>4, BulkWrittenType
  <2> QED
    BY <2>1
<1>6. \A m \in Miniblocks : miniblocksIndex.docs[m] \in DocType
  BY <1>4 DEF MiniblocksIndexType, IndexState
<1>7. ASSUME NEW r \in Shards \ {s} PROVE KeptFor(r)
  <2> SUFFICES ASSUME NEW m \in Miniblocks, sender[m] = r, miniblocksIndex.docs[m].exists
               PROVE  /\ miniblocksIndex'.docs[m].exists
                      /\ ~Cross(m) => miniblocksIndex'.docs[m].senderBlockHash
                                        = miniblocksIndex.docs[m].senderBlockHash
    BY DEF KeptFor
  <2>1. CASE m \in ms
    <3>1. Cross(m)
      BY <1>2, <2>1, Elsewhere
    <3>2. Written(b, m, m \in found[s], miniblocksIndex.docs[m]).exists
      BY <1>6, <2>1, WrittenSent
    <3> QED
      BY <1>5, <2>1, <3>1, <3>2
  <2> QED
    BY <1>5, <2>1
<1>8. \A m \in Miniblocks \ body[b] : miniblocksIndex'.docs[m] = miniblocksIndex.docs[m]
  BY <1>5
<1>9. ASSUME next = "transactions" PROVE Shown(b)'
  <2> SUFFICES ASSUME NEW m \in Sent(b)
               PROVE  /\ miniblocksIndex'.docs[m].exists
                      /\ miniblocksIndex'.docs[m].senderBlockHash = b
    BY DEF Shown, Sent, Cross
  <2>1. m \in ms /\ m \in Miniblocks /\ sender[m] = s
    BY <1>2, <1>3, <1>9 DEF Sent
  <2>2. miniblocksIndex.docs[m].exists \/ m \notin found[s]
    BY <1>1, <2>1 DEF SentInv, SentAtStep
  <2>3. /\ Written(b, m, m \in found[s], miniblocksIndex.docs[m]).exists
        /\ Written(b, m, m \in found[s], miniblocksIndex.docs[m]).senderBlockHash = b
    <3> DEFINE doc == miniblocksIndex.docs[m]
    <3>1. doc \in DocType /\ (doc.exists \/ m \notin found[s])
      BY <1>6, <2>1, <2>2
    <3>2. m \in body[b] /\ m \in Miniblocks /\ sender[m] = shardOf[b]
      BY <1>2, <2>1
    <3> HIDE DEF doc
    <3>3. /\ Written(b, m, m \in found[s], doc).exists
          /\ sender[m] = shardOf[b] => Written(b, m, m \in found[s], doc).senderBlockHash = b
      BY <3>1, <3>2, WrittenSent
    <3> QED
      BY <3>2, <3>3 DEF doc
  <2> QED
    BY <1>5, <2>1, <2>3
<1>10. SentAtStep(s)'
  <2>1. InHand(s)' = b
    BY <1>1, <1>2 DEF InHand
  <2> QED
    BY <1>4, <1>9, <2>1 DEF SentAtStep, Shown, Sent
<1> QED
  BY <1>1, <1>2, <1>4, <1>7, <1>8, <1>10, SentOwnStep

LEMMA SaveTransactionsSent ==
  ASSUME ControlOK, Queues, SentInv, "miniblocks" \in EnabledIndexes,
         NEW s \in Shards, SaveTransactions(s)
  PROVE  SentInv'
<1>1. step[s] = "transactions" /\ items[s] # <<>> /\ miniblocksIndex' = miniblocksIndex
      /\ (Complete(s) \/ Retry(s))
  BY AtRequest DEF SaveTransactions
<1>2. PICK b \in Blocks : b = InHand(s)
  BY <1>1, InHandType
<1>3. Shown(b)'
  BY <1>1, <1>2 DEF SentInv, SentAtStep, Shown, Sent, Cross
<1>4. \A r \in Shards : KeptFor(r)
  BY <1>1 DEF KeptFor
<1>5. CASE Complete(s)
  BY <1>1, <1>2, <1>3, <1>4, <1>5, CompleteSent
<1> QED
  BY <1>1, <1>5, RetrySent

LEMMA RemoveHeaderSent ==
  ASSUME ControlOK, SentInv, NEW s \in Shards, RemoveHeader(s)
  PROVE  SentInv'
<1>1. miniblocksIndex' = miniblocksIndex /\ (Continue(s, "removeMiniblocks") \/ Retry(s))
  BY DEF RemoveHeader
<1> QED
  BY <1>1, RetrySent, StepSent DEF Continue

LEMMA RemoveMiniblocksSent ==
  ASSUME ControlOK, StoreOK, Queues, SentInv, "miniblocks" \in EnabledIndexes,
         NEW s \in Shards, RemoveMiniblocks(s)
  PROVE  SentInv'
<1>1. step[s] = "removeMiniblocks" /\ items[s] # <<>> /\ items[s][1].op = "remove"
  BY AtRequest DEF RemoveMiniblocks
<1>2. PICK b \in Blocks : b = InHand(s) /\ shardOf[b] = s /\ body[b] \subseteq Miniblocks
  BY <1>1, InHandType
<1>3. PICK ms \in SUBSET Removable(b) :
        /\ miniblocksIndex' = miniblocksIndex \/ miniblocksIndex' = RemovedMiniblocks(ms)
        /\ Complete(s) \/ Retry(s)
  BY <1>2 DEF RemoveMiniblocks, Hits
<1>4. ms \in SUBSET Miniblocks /\ ms \subseteq body[b]
  BY <1>2 DEF Removable
<1>5. \A m \in Miniblocks \ ms : miniblocksIndex'.docs[m] = miniblocksIndex.docs[m]
  <2>1. CASE miniblocksIndex' = RemovedMiniblocks(ms)
    <3>1. miniblocksIndex'.docs =
            [m \in Miniblocks |-> IF m \in ms THEN NoDoc ELSE miniblocksIndex.docs[m]]
      BY <1>4, <2>1, RemovedMiniblocksFacts DEF StoreOK
    <3> QED
      BY <3>1
  <2> QED
    BY <1>3, <2>1
<1>6. ASSUME NEW r \in Shards \ {s} PROVE KeptFor(r)
  <2>1. \A m \in Miniblocks : sender[m] = r => m \notin ms
    BY <1>2, <1>4, Elsewhere
  <2> QED
    BY <1>5, <2>1 DEF KeptFor
<1>7. CASE Complete(s)
  BY <1>1, <1>2, <1>4, <1>5, <1>6, <1>7, CompleteSent
<1>8. CASE Retry(s)
  <2>1. FirstStep(items[s][1]) = "removeHeader"
    BY <1>1 DEF FirstStep
  <2>2. step' = [step EXCEPT ![s] = "removeHeader"] /\ UNCHANGED <<items, found, historyVars>>
    BY <1>8, <2>1 DEF Retry
  <2>3. /\ step'[s] = "removeHeader"
        /\ \A r \in Shards \ {s} : /\ step'[r] = step[r] /\ items'[r] = items[r]
                                   /\ found'[r] = found[r]
        /\ \A r \in Shards : Standing(r)' = Standing(r)
    BY <2>2 DEF ControlOK, Standing, historyVars
  <2>4. SentAtStep(s)'
    BY <2>3 DEF SentAtStep
  <2> QED
    BY <1>1, <1>2, <1>4, <1>5, <1>6, <2>2, <2>3, <2>4, SentOwnStep
<1> QED
  BY <1>3, <1>7, <1>8

LEMMA RestartSent ==
  ASSUME ControlOK, SentInv, "miniblocks" \in EnabledIndexes, NEW s \in Shards, Restart(s)
  PROVE  SentInv'
<1>1. /\ items[s] # <<>> /\ items[s] \in Seq(Item)
      /\ items' = [items EXCEPT ![s] = <<>>]
      /\ step' = [step EXCEPT ![s] = "idle"]
      /\ found' = [found EXCEPT ![s] = {}]
      /\ lost' = lost \cup {items[s][k].block : k \in 1..Len(items[s])}
      /\ UNCHANGED <<indexed, miniblocksIndex>>
  BY DEF Restart, ControlOK
<1>2. InHand(s) \in lost' /\ step'[s] = "idle"
  BY <1>1, TailFacts DEF InHand, ControlOK
<1>3. ASSUME NEW r \in Shards PROVE KeptFor(r) /\ Standing(r)' \subseteq Standing(r)
  BY <1>1 DEF KeptFor, Standing
<1>4. ASSUME NEW r \in Shards \ {s}
      PROVE  SentAtStep(r)' /\ \A b \in Standing(r)' : ~InProgress(b)' => Shown(b)'
  <2>1. step'[r] = step[r] /\ found'[r] = found[r] /\ items'[r] = items[r]
    BY <1>1 DEF ControlOK
  <2>2. InHand(r)' = InHand(r)
    BY <2>1 DEF InHand
  <2> QED
    BY <1>3, <2>1, <2>2, SentElsewhere
<1>5. SentAtStep(s)'
  BY <1>2 DEF SentAtStep
<1>6. ASSUME NEW b \in Standing(s)' PROVE Shown(b)'
  <2>1. b \in Standing(s) /\ b # InHand(s) /\ b \in Blocks /\ shardOf[b] = s
    BY <1>2, <1>3 DEF Standing, ControlOK
  <2>2. ~InProgress(b)
    BY <2>1 DEF InProgress
  <2> QED
    BY <1>3, <2>1, <2>2, KeptShown DEF SentInv
<1> QED
  BY <1>4, <1>5, <1>6 DEF SentInv

LEMMA NextSent == ControlOK /\ StoreOK /\ Queues /\ SentInv /\ [Next]_vars => SentInv'
<1> SUFFICES ASSUME ControlOK, StoreOK, Queues, SentInv, [Next]_vars,
                    "miniblocks" \in EnabledIndexes
             PROVE  SentInv'
  BY DEF SentInv
<1>1. ASSUME NEW s \in Shards, Start(s) PROVE SentInv'
  <2>1. FirstStep(items[s][1]) \in {"header", "removeHeader"}
    BY DEF FirstStep
  <2> QED
    BY <1>1, <2>1, StepSent DEF Start
<1>2. ASSUME NEW s \in Shards, Node(s) \/ Worker(s) PROVE SentInv'
  BY <1>1, <1>2, NodeSent, SaveHeaderSent, GetExistingSent, SaveMiniblocksSent,
     SaveTransactionsSent, RemoveHeaderSent, RemoveMiniblocksSent DEF Worker
<1>3. CASE RefreshBlocks \/ RefreshMiniblocks \/ UNCHANGED vars
  <2>1. miniblocksIndex'.docs = miniblocksIndex.docs /\ UNCHANGED <<step, items, found, historyVars>>
    BY <1>3 DEF RefreshBlocks, RefreshMiniblocks, vars, historyVars
  <2> QED
    BY <2>1, PassingSent DEF InHand
<1> QED
  BY <1>2, <1>3, RestartSent DEF Next

\* In every history of commits, reverts and restarts of any number of shards,
\* with requests that fail half-way and multi gets that are stale or wrong, what
\* a shard has sent and not reverted is in the database; what stays in the shard
\* names its block.  It rests on the chains: a miniblock is in one committed block
\* at a time, so the items that could undo a save are behind that of its revert.
THEOREM SentAreIndexed == Spec => []SentMiniblocksIndexed
<1>1. ControlOK /\ SentInv => SentMiniblocksIndexed
  <2> SUFFICES ASSUME ControlOK, SentInv, "miniblocks" \in EnabledIndexes,
                      NEW b \in indexed \ lost, ~InProgress(b)
               PROVE  Shown(b)
    BY DEF SentMiniblocksIndexed, Shown, Sent
  <2>1. b \in Standing(shardOf[b]) /\ shardOf[b] \in Shards
    BY ShapeAssumption DEF Standing, ControlOK
  <2> QED
    BY <2>1 DEF SentInv
<1> QED
  BY <1>1, OKInvariant, InitQueues, NextQueues, InitSent, NextSent, PTL DEF Spec
-----------------------------------------------------------------------------
(* The indexes keep the promise of BlocksIndex. *)

LEMMA SameDocuments ==
  /\ Promise!Item = Item /\ Promise!NoItem = NoItem /\ Promise!NoDoc = NoDoc
  /\ \A m : Promise!Cross(m) = Cross(m)
  /\ \A b : Promise!Removable(b) = Removable(b)
  /\ \A b, m, exists, doc : Promise!Written(b, m, exists, doc) = Written(b, m, exists, doc)
<1>1. Promise!Item = Item /\ Promise!NoItem = NoItem /\ Promise!NoDoc = NoDoc
  BY DEF Promise!Item, Item, Promise!NoItem, NoItem, Promise!NoDoc, NoDoc
<1>2. \A m : Promise!Cross(m) = Cross(m)
  BY DEF Promise!Cross, Cross
<1>3. \A b : Promise!Removable(b) = Removable(b)
  BY <1>2 DEF Promise!Removable, Removable
<1>4. \A b, m : Promise!MiniblockOf(b, m) = MiniblockOf(b, m)
  BY <1>2 DEF Promise!MiniblockOf, MiniblockOf, Promise!Doc, Doc
<1>5. \A b, m, exists, doc : Promise!Written(b, m, exists, doc) = Written(b, m, exists, doc)
  BY <1>4 DEF Promise!Written, Written
<1> QED
  BY <1>1, <1>2, <1>3, <1>5

LEMMA CurrentKept ==
  ASSUME \A r \in Shards : /\ step'[r] = "idle" <=> step[r] = "idle"
                           /\ step[r] # "idle" => items'[r][1] = items[r][1]
  PROVE  Current' = Current
BY DEF Current

LEMMA CurrentMoves ==
  ASSUME NEW s \in Shards,
         \A r \in Shards \ {s} : /\ step'[r] = "idle" <=> step[r] = "idle"
                                 /\ step[r] # "idle" => items'[r][1] = items[r][1]
  PROVE  Current' = [Current EXCEPT ![s] = IF step'[s] = "idle" THEN NoItem ELSE items'[s][1]]
BY DEF Current, NoItem

LEMMA CurrentType ==
  ASSUME ControlOK, NEW s \in Shards, step[s] # "idle"
  PROVE  /\ Current[s] = items[s][1]
         /\ Current[s] \in Item
         /\ Current[s] # NoItem
         /\ Current[s].block = InHand(s)
<1>1. items[s] # <<>>
  BY AtRequest
<1>2. items[s][1] \in Item
  BY <1>1, InHandType
<1> QED
  BY <1>2 DEF Current, InHand, Item, NoItem

\* What a request of the worker of s is to the readers: it writes some of what
\* the item is about, and if it is the last of the item, the indexes then show it.
LEMMA RequestPromised ==
  ASSUME ControlOK, NEW s \in Shards, step[s] # "idle",
         NEW item \in Item, item = items[s][1],
         Promise!WriteSome(item),
         \/ Complete(s) /\ Promise!Shows(item)'
         \/ /\ UNCHANGED <<items, historyVars>>
            /\ \E next \in Steps \ {"idle"} : step' = [step EXCEPT ![s] = next]
  PROVE  Promise!Write(s) \/ Promise!Report(s)
<1>1. Current[s] = item /\ item # NoItem /\ item.block = InHand(s)
  BY CurrentType
<1>2. CASE Complete(s) /\ Promise!Shows(item)'
  <2>1. Current' = [Current EXCEPT ![s] = NoItem]
    <3>1. step'[s] = "idle"
      BY <1>2 DEF Complete, ControlOK
    <3>2. \A r \in Shards \ {s} : step'[r] = step[r] /\ items'[r] = items[r]
      BY <1>2 DEF Complete, ControlOK
    <3> QED
      BY <3>1, <3>2, CurrentMoves
  <2>2. indexed' = IF item.op = "save" THEN indexed \cup {item.block} ELSE indexed \ {item.block}
    BY <1>1, <1>2 DEF Complete
  <2>3. item \in Promise!Item \cap {Current[s]}
    BY <1>1, SameDocuments
  <2> QED
    BY <1>2, <2>1, <2>2, <2>3, SameDocuments DEF Promise!Report
<1>3. ASSUME UNCHANGED <<items, historyVars>>,
             NEW next \in Steps \ {"idle"}, step' = [step EXCEPT ![s] = next]
      PROVE  Promise!Write(s)
  <2>1. Current' = Current
    BY <1>3, CurrentKept DEF ControlOK
  <2> QED
    BY <1>1, <1>3, <2>1, SameDocuments DEF Promise!Write, historyVars
<1> QED
  BY <1>2, <1>3

\* A request that goes on with the item, or starts it again.
LEMMA GoesOn ==
  ASSUME ControlOK, NEW s \in Shards, items[s] # <<>>,
         NEW next \in Steps \ {"idle"}, Retry(s) \/ Continue(s, next)
  PROVE  /\ UNCHANGED <<items, historyVars>>
         /\ \E n \in Steps \ {"idle"} : step' = [step EXCEPT ![s] = n]
<1>1. FirstStep(items[s][1]) \in Steps \ {"idle"}
  BY InHandType, FirstStepType
<1> QED
  BY <1>1 DEF Retry, Continue

LEMMA WritesNothing ==
  ASSUME StoreOK, NEW item \in Item,
         blocksIndex'.docs = blocksIndex.docs, miniblocksIndex'.docs = miniblocksIndex.docs
  PROVE  Promise!WriteSome(item)
<1>1. DOMAIN miniblocksIndex.docs = Miniblocks
  BY DEF StoreOK, MiniblocksIndexType, IndexState
<1> QED
  BY <1>1 DEF Promise!WriteSome

LEMMA SaveHeaderPromised ==
  ASSUME ControlOK, StoreOK, NEW s \in Shards, SaveHeader(s)
  PROVE  Promise!Write(s) \/ Promise!Report(s)
<1>1. step[s] = "header" /\ items[s] # <<>> /\ miniblocksIndex' = miniblocksIndex
  BY AtRequest DEF SaveHeader
<1>2. PICK item \in Item : item = items[s][1]
  BY <1>1, InHandType
<1>3. item.op = "save" /\ item.block = InHand(s) /\ item.block \in Blocks
  BY <1>1, <1>2, AtRequest, InHandType DEF Item, InHand
<1>4. /\ "mget" \in Steps \ {"idle"}
      /\ \/ Complete(s) /\ body[item.block] = {}
         \/ Retry(s)
         \/ Continue(s, "mget")
  BY <1>3 DEF SaveHeader, Steps
<1>5. /\ IndexedHeader(blocksIndex, item.block).docs = blocksIndex.docs \cup {item.block}
      /\ DOMAIN miniblocksIndex.docs = Miniblocks
  BY <1>3, IndexedHeaderFacts DEF StoreOK, MiniblocksIndexType, IndexState
<1>6. /\ blocksIndex'.docs \in {blocksIndex.docs, blocksIndex.docs \cup {item.block}}
      /\ Complete(s) /\ step'[s] = "idle" /\ "blocks" \in EnabledIndexes
           => item.block \in blocksIndex'.docs
  <2>1. FirstStep(items[s][1]) # "idle"
    BY <1>2, FirstStepType
  <2>2. Retry(s) => step'[s] # "idle"
    BY <2>1 DEF Retry, ControlOK
  <2> QED
    BY <1>3, <1>5, <2>2 DEF SaveHeader
<1>7. Promise!WriteSome(item)
  BY <1>1, <1>3, <1>5, <1>6 DEF Promise!WriteSome
<1>8. ASSUME Complete(s), body[item.block] = {} PROVE Promise!Shows(item)'
  <2>1. step'[s] = "idle"
    BY <1>8 DEF Complete, ControlOK
  <2> QED
    BY <1>3, <1>6, <1>8, <2>1 DEF Promise!Shows, Promise!SentShown
<1> QED
  BY <1>1, <1>2, <1>4, <1>7, <1>8, GoesOn, RequestPromised

LEMMA SaveMiniblocksPromised ==
  ASSUME ControlOK, StoreOK, NEW s \in Shards, SaveMiniblocks(s)
  PROVE  Promise!Write(s) \/ Promise!Report(s)
<1>1. /\ step[s] = "bulk" /\ items[s] # <<>> /\ blocksIndex' = blocksIndex
      /\ UNCHANGED <<items, historyVars>>
  BY AtRequest DEF SaveMiniblocks
<1>2. PICK item \in Item : item = items[s][1]
  BY <1>1, InHandType
<1>3. item.op = "save" /\ item.block = InHand(s) /\ item.block \in Blocks
      /\ body[item.block] \subseteq Miniblocks
  BY <1>1, <1>2, AtRequest, InHandType DEF Item, InHand
<1>4. PICK ms \in SUBSET body[item.block] :
        miniblocksIndex' = BulkWritten(miniblocksIndex, item.block, ms, found[s])
  BY <1>3 DEF SaveMiniblocks
<1>5. miniblocksIndex'.docs =
        [m \in Miniblocks |-> IF m \in ms
           THEN Written(item.block, m, m \in found[s], miniblocksIndex.docs[m])
           ELSE miniblocksIndex.docs[m]]
  <2>1. /\ ms \in SUBSET Miniblocks /\ found[s] \in SUBSET Miniblocks
        /\ miniblocksIndex \in MiniblocksIndexType
    BY <1>3 DEF StoreOK, ControlOK
  <2> QED
    BY <1>3, <1>4, <2>1, BulkWrittenType
<1>6. Promise!WriteSome(item)
  <2>1. ASSUME NEW m \in Miniblocks
        PROVE  \/ miniblocksIndex'.docs[m] = miniblocksIndex.docs[m]
               \/ /\ m \in body[item.block]
                  /\ \E exists \in BOOLEAN :
                       miniblocksIndex'.docs[m] =
                         Promise!Written(item.block, m, exists, miniblocksIndex.docs[m])
    <3>1. CASE m \in ms
      <4>1. miniblocksIndex'.docs[m] =
              Written(item.block, m, m \in found[s], miniblocksIndex.docs[m])
        BY <1>5, <3>1
      <4>2. (m \in found[s]) \in BOOLEAN /\ m \in body[item.block]
        BY <3>1
      <4> QED
        BY <4>1, <4>2, SameDocuments
    <3> QED
      BY <1>5, <3>1
  <2> QED
    BY <1>1, <1>3, <1>5, <2>1 DEF Promise!WriteSome
<1>7. \E next \in Steps \ {"idle"} : step' = [step EXCEPT ![s] = next]
  BY DEF SaveMiniblocks, Steps
<1> QED
  BY <1>1, <1>2, <1>6, <1>7, RequestPromised

LEMMA SaveTransactionsPromised ==
  ASSUME ControlOK, StoreOK, HeaderInv, SentInv, NEW s \in Shards, SaveTransactions(s)
  PROVE  Promise!Write(s) \/ Promise!Report(s)
<1>1. /\ step[s] = "transactions" /\ items[s] # <<>>
      /\ UNCHANGED <<blocksIndex, miniblocksIndex>>
      /\ "mget" \in Steps \ {"idle"}
      /\ Complete(s) \/ Retry(s)
  BY AtRequest DEF SaveTransactions, Steps
<1>2. PICK item \in Item : item = items[s][1]
  BY <1>1, InHandType
<1>3. item.op = "save" /\ item.block = InHand(s) /\ item.block \in Blocks
  BY <1>1, <1>2, AtRequest, InHandType DEF Item, InHand
<1>4. "blocks" \in EnabledIndexes => item.block \in blocksIndex.docs
  BY <1>1, <1>3 DEF HeaderInv, HeaderAtStep, Headers
<1>5. "miniblocks" \in EnabledIndexes => Shown(item.block)
  BY <1>1, <1>3 DEF SentInv, SentAtStep
<1>6. Promise!Shows(item)'
  BY <1>1, <1>3, <1>4, <1>5, SameDocuments
  DEF Promise!Shows, Promise!SentShown, Shown, Sent
<1>7. Promise!WriteSome(item)
  BY <1>1, WritesNothing
<1> QED
  BY <1>1, <1>2, <1>6, <1>7, GoesOn, RequestPromised

LEMMA RemoveHeaderPromised ==
  ASSUME ControlOK, StoreOK, NEW s \in Shards, RemoveHeader(s)
  PROVE  Promise!Write(s) \/ Promise!Report(s)
<1>1. /\ step[s] = "removeHeader" /\ items[s] # <<>> /\ miniblocksIndex' = miniblocksIndex
      /\ "removeMiniblocks" \in Steps \ {"idle"}
      /\ Continue(s, "removeMiniblocks") \/ Retry(s)
  BY AtRequest DEF RemoveHeader, Steps
<1>2. PICK item \in Item : item = items[s][1]
  BY <1>1, InHandType
<1>3. item.op = "remove" /\ item.block = InHand(s) /\ item.block \in Blocks
  BY <1>1, <1>2, AtRequest, InHandType DEF Item, InHand
<1>4. PICK bs \in SUBSET {item.block} : blocksIndex' = RemovedHeaders(bs)
  BY <1>3 DEF RemoveHeader, Hits
<1>5. blocksIndex'.docs = blocksIndex.docs \ bs
  BY <1>3, <1>4, RemovedHeadersFacts DEF StoreOK
<1>6. blocksIndex'.docs \in {blocksIndex.docs, blocksIndex.docs \ {item.block}}
  BY <1>5
<1>7. Promise!WriteSome(item)
  <2>1. DOMAIN miniblocksIndex.docs = Miniblocks
    BY DEF StoreOK, MiniblocksIndexType, IndexState
  <2> QED
    BY <1>1, <1>3, <1>6, <2>1 DEF Promise!WriteSome
<1> QED
  BY <1>1, <1>2, <1>7, GoesOn, RequestPromised

LEMMA RemoveMiniblocksPromised ==
  ASSUME ControlOK, StoreOK, HeaderInv, NEW s \in Shards, RemoveMiniblocks(s)
  PROVE  Promise!Write(s) \/ Promise!Report(s)
<1>1. /\ step[s] = "removeMiniblocks" /\ items[s] # <<>> /\ blocksIndex' = blocksIndex
      /\ "mget" \in Steps \ {"idle"}
      /\ Complete(s) \/ Retry(s)
  BY AtRequest DEF RemoveMiniblocks, Steps
<1>2. PICK item \in Item : item = items[s][1]
  BY <1>1, InHandType
<1>3. item.op = "remove" /\ item.block = InHand(s) /\ body[item.block] \subseteq Miniblocks
  BY <1>1, <1>2, AtRequest, InHandType DEF Item, InHand
<1>4. PICK ms \in SUBSET Removable(item.block) :
        miniblocksIndex' = miniblocksIndex \/ miniblocksIndex' = RemovedMiniblocks(ms)
  BY <1>3 DEF RemoveMiniblocks, Hits
<1>5. ms \in SUBSET Miniblocks
  BY <1>3 DEF Removable
<1>6. Promise!WriteSome(item)
  <2>1. CASE miniblocksIndex' = miniblocksIndex
    BY <1>1, <2>1, WritesNothing
  <2>2. CASE miniblocksIndex' = RemovedMiniblocks(ms)
    <3>1. miniblocksIndex'.docs =
            [m \in Miniblocks |-> IF m \in ms THEN NoDoc ELSE miniblocksIndex.docs[m]]
      BY <1>5, <2>2, RemovedMiniblocksFacts DEF StoreOK
    <3>2. ASSUME NEW m \in Miniblocks
          PROVE  \/ miniblocksIndex'.docs[m] = miniblocksIndex.docs[m]
                 \/ /\ m \in Promise!Removable(item.block)
                    /\ miniblocksIndex'.docs[m] = Promise!NoDoc
      BY <3>1, SameDocuments
    <3> QED
      BY <1>1, <1>3, <3>1, <3>2 DEF Promise!WriteSome
  <2> QED
    BY <1>4, <2>1, <2>2
<1>7. Promise!Shows(item)'
  BY <1>1, <1>2, <1>3 DEF HeaderInv, HeaderAtStep, Headers, Promise!Shows, InHand
<1> QED
  BY <1>1, <1>2, <1>6, <1>7, GoesOn, RequestPromised

\* Every step is one of the promise, or does not show.
LEMMA NextPromised ==
  ASSUME ControlOK, StoreOK, HeaderInv, SentInv, [Next]_vars
  PROVE  [Promise!Next]_(Promise!vars)
<1> DEFINE Quiet == Current' = Current /\ UNCHANGED indexed
                    /\ blocksIndex'.docs = blocksIndex.docs
                    /\ miniblocksIndex'.docs = miniblocksIndex.docs
<1>0. Quiet => UNCHANGED Promise!vars
  BY DEF Promise!vars
<1>1. ASSUME NEW s \in Shards, Node(s) PROVE Quiet
  <2>1. UNCHANGED <<step, historyVars, blocksIndex, miniblocksIndex>>
    BY <1>1 DEF Node, SaveBlock, RevertIndexedBlock
  <2>2. PICK item : items' = [items EXCEPT ![s] = Append(@, item)]
    BY <1>1 DEF Node, SaveBlock, RevertIndexedBlock
  <2>3. ASSUME NEW r \in Shards, step[r] # "idle" PROVE items'[r][1] = items[r][1]
    <3>1. items[r] # <<>> /\ items[r] \in Seq(Item)
      BY <2>3, AtRequest DEF ControlOK
    <3>2. items'[r] = IF r = s THEN Append(items[r], item) ELSE items[r]
      BY <2>2 DEF ControlOK
    <3>3. Append(items[r], item)[1] = items[r][1]
      BY <3>1
    <3> QED
      BY <3>2, <3>3
  <2> QED
    BY <2>1, <2>3, CurrentKept DEF historyVars
<1>2. ASSUME NEW s \in Shards, Start(s) PROVE Promise!Begin(s)
  <2>1. /\ step[s] = "idle" /\ items[s] # <<>> /\ items' = items
        /\ UNCHANGED <<indexed, blocksIndex, miniblocksIndex>>
    BY <1>2 DEF Start, historyVars
  <2>2. items[s][1] \in Item /\ shardOf[items[s][1].block] = s
    BY <2>1, InHandType DEF InHand
  <2>3. step'[s] # "idle" /\ \A r \in Shards \ {s} : step'[r] = step[r]
    BY <1>2, <2>2, FirstStepType DEF Start, ControlOK
  <2>4. Current[s] = NoItem /\ Current' = [Current EXCEPT ![s] = items[s][1]]
    BY <2>1, <2>3, CurrentMoves DEF Current
  <2> QED
    BY <2>1, <2>2, <2>4, SameDocuments DEF Promise!Begin
<1>3. ASSUME NEW s \in Shards, GetExistingMiniblocks(s) PROVE Quiet
  <2>1. /\ step[s] = "mget" /\ items[s] # <<>> /\ UNCHANGED <<blocksIndex, miniblocksIndex>>
        /\ "transactions" \in Steps \ {"idle"} /\ "bulk" \in Steps \ {"idle"}
    BY <1>3, AtRequest DEF GetExistingMiniblocks, Steps
  <2>2. PICK next \in Steps \ {"idle"} :
          step' = [step EXCEPT ![s] = next] /\ UNCHANGED <<items, historyVars>>
    BY <1>3, <2>1, GoesOn DEF GetExistingMiniblocks
  <2> QED
    BY <2>1, <2>2, CurrentKept DEF ControlOK, historyVars
<1>4. ASSUME NEW s \in Shards, Restart(s) PROVE Promise!Lose(s) \/ Quiet
  <2>1. /\ step'[s] = "idle" /\ UNCHANGED <<indexed, blocksIndex, miniblocksIndex>>
        /\ \A r \in Shards \ {s} : step'[r] = step[r] /\ items'[r] = items[r]
    BY <1>4 DEF Restart, ControlOK
  <2>2. Current' = [Current EXCEPT ![s] = NoItem]
    BY <2>1, CurrentMoves
  <2>3. CASE step[s] # "idle"
    <3>1. Current[s] # NoItem
      BY <2>3, CurrentType
    <3> QED
      BY <2>1, <2>2, <3>1, SameDocuments DEF Promise!Lose
  <2>4. CASE step[s] = "idle"
    BY <2>1, <2>4, CurrentKept
  <2> QED
    BY <2>3, <2>4
<1>5. ASSUME RefreshBlocks \/ RefreshMiniblocks \/ UNCHANGED vars PROVE Quiet
  <2>1. /\ UNCHANGED <<step, items, indexed>> /\ blocksIndex'.docs = blocksIndex.docs
        /\ miniblocksIndex'.docs = miniblocksIndex.docs
    BY <1>5 DEF RefreshBlocks, RefreshMiniblocks, vars, historyVars
  <2> QED
    BY <2>1, CurrentKept
<1> HIDE DEF Quiet
<1>6. ASSUME NEW s \in Shards, Node(s) \/ Restart(s) \/ Worker(s)
      PROVE  Quiet \/ Promise!Begin(s) \/ Promise!Write(s) \/ Promise!Report(s) \/ Promise!Lose(s)
  BY <1>1, <1>2, <1>3, <1>4, <1>6, SaveHeaderPromised, SaveMiniblocksPromised,
     SaveTransactionsPromised, RemoveHeaderPromised, RemoveMiniblocksPromised DEF Worker
<1>7. ASSUME Next PROVE Quiet \/ Promise!Next
  <2>1. CASE RefreshBlocks \/ RefreshMiniblocks
    BY <1>5, <2>1
  <2>2. ASSUME NEW s \in Shards, Node(s) \/ Restart(s) \/ Worker(s) PROVE Quiet \/ Promise!Next
    BY <1>6, <2>2 DEF Promise!Next
  <2> QED
    BY <1>7, <2>1, <2>2 DEF Next
<1> QED
  BY <1>0, <1>5, <1>7

LEMMA InitPromised == Init => Promise!Init
<1> SUFFICES ASSUME Init PROVE Promise!Init
  OBVIOUS
<1>1. Current = [s \in Shards |-> NoItem]
  BY DEF Init, Current
<1> QED
  BY <1>1, SameDocuments DEF Init, Promise!Init

\* The indexes of blocks and miniblocks keep their promise: whatever requests of
\* the save or the removal of a block fail, with or without effect, in whole or in
\* part, and are repeated, whatever a multi get or a search missed and whatever
\* the other shards' nodes write in between, no item is completed before the
\* indexes show it.
THEOREM KeepsThePromise == Spec => ImplementsBlocksIndex
<1>1. ControlOK /\ StoreOK /\ HeaderInv /\ SentInv /\ [Next]_vars
        => [Promise!Next]_(Promise!vars)
  BY NextPromised
<1> QED
  BY <1>1, OKInvariant, InitHeaderInv, NextHeaderInv, InitQueues, NextQueues, InitSent, NextSent,
     InitPromised, PTL DEF Spec, Promise!Spec, ImplementsBlocksIndex
=============================================================================
