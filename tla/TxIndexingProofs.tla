-------------------------- MODULE TxIndexingProofs --------------------------
(***************************************************************************)
(* Proofs about TxIndexing for every set of shards, blocks and transactions *)
(* and every division of blocks into bulks.                                *)
(***************************************************************************)
EXTENDS TxIndexing, TLAPS

\* Appending keeps the elements of a sequence, removing the head shifts them,
\* and a prefix of a sequence is one of the same elements.
LEMMA AppendFacts ==
  ASSUME NEW S, NEW seq \in Seq(S), NEW e \in S
  PROVE  /\ Append(seq, e) \in Seq(S)
         /\ Append(seq, e) # <<>>
         /\ seq # <<>> => Append(seq, e)[1] = seq[1]
         /\ \A i \in 1..Len(Append(seq, e)) :
              Append(seq, e)[i] = e \/ (i \in 1..Len(seq) /\ Append(seq, e)[i] = seq[i])
  OBVIOUS

LEMMA TailFacts ==
  ASSUME NEW S, NEW seq \in Seq(S), seq # <<>>
  PROVE  /\ seq[1] \in S
         /\ 1 \in 1..Len(seq)
         /\ Tail(seq) \in Seq(S)
         /\ \A i \in 1..Len(Tail(seq)) : i + 1 \in 1..Len(seq) /\ Tail(seq)[i] = seq[i + 1]
  OBVIOUS

LEMMA PrefixFacts ==
  ASSUME NEW S, NEW seq \in Seq(S), seq # <<>>
  PROVE  SubSeq(seq, 1, Len(seq) - 1) \in Seq(S)
  OBVIOUS

-----------------------------------------------------------------------------
(* What a write makes of a document. *)

LEMMA NoDocType == NoDoc \in Doc
  BY DEF NoDoc, Doc

LEMMA ToIndexType == ASSUME NEW b \in Blocks PROVE ToIndex(b) \subseteq Txs
  BY ShapeAssumption DEF ToIndex

\* A write gives a document, and never an absent one.
LEMMA WrittenType ==
  ASSUME NEW b \in Blocks, NEW t \in Txs, NEW doc \in Doc
  PROVE  Written(b, t, doc) \in Doc /\ Written(b, t, doc) # NoDoc
<1>1. InsertedBy(b) \in Doc /\ InsertedBy(b) # NoDoc
  BY ShapeAssumption DEF InsertedBy, NoDoc, Doc
<1>2. [doc EXCEPT !.fields = b] \in Doc /\ [doc EXCEPT !.fields = b].fields = b
  BY DEF Doc
<1>3. NoDoc.fields = NoBlock /\ b # NoBlock
  BY ShapeAssumption DEF NoDoc
<1>4. [doc EXCEPT !.fields = b] # NoDoc
  BY <1>2, <1>3
<1> QED
  BY <1>1, <1>2, <1>4 DEF Written

\* What the document of t shows when block b has been the last to say something
\* about it: the whole of b's document for an intra-shard transaction, the
\* fields of b for one that b's shard receives.
Shows(b, t, doc) ==
  /\ doc # NoDoc
  /\ ~Cross(t) => doc = InsertedBy(b)
  /\ ~ItemConflicts /\ Cross(t) /\ NeverInvalid(t) /\ receiver[t] = shardOf[b]
       => doc.fields = b

\* A block's own write makes its document show the block.
LEMMA OwnWriteShows ==
  ASSUME NEW b \in Blocks, NEW t \in ToIndex(b), NEW doc \in Doc
  PROVE  Shows(b, t, Written(b, t, doc))
<1> t \in Txs /\ t \in txsOf[b]
  BY ShapeAssumption DEF ToIndex
<1>1. Written(b, t, doc) # NoDoc
  BY WrittenType
<1>2. ~Cross(t) => Written(b, t, doc) = InsertedBy(b)
  BY ShapeAssumption DEF Written, IntraShardOrInvalid, Cross
<1>3. ASSUME Cross(t), NeverInvalid(t), receiver[t] = shardOf[b]
      PROVE  Written(b, t, doc).fields = b
  <2>1. InsertedBy(b).fields = b
    BY DEF InsertedBy
  <2>2. [doc EXCEPT !.fields = b].fields = b
    BY DEF Doc
  <2> QED
    BY <1>3, <2>1, <2>2 DEF Written, CrossShardDstMe
<1> QED
  BY <1>1, <1>2, <1>3 DEF Shows

\* A write by another shard leaves what the document shows.
LEMMA OtherWriteShows ==
  ASSUME NEW b \in Blocks, NEW c \in Blocks, shardOf[b] # shardOf[c],
         NEW t \in Txs, t \in ToIndex(b), t \in ToIndex(c), NEW doc \in Doc, Shows(b, t, doc)
  PROVE  Shows(b, t, Written(c, t, doc))
<1> t \in txsOf[b] /\ t \in txsOf[c]
  BY DEF ToIndex
<1>1. shardOf[b] \in {sender[t], receiver[t]} /\ shardOf[c] \in {sender[t], receiver[t]}
  BY ShapeAssumption
<1>2. Cross(t)
  BY <1>1 DEF Cross
<1>3. Written(c, t, doc) # NoDoc
  BY WrittenType
<1>4. ASSUME NeverInvalid(t), receiver[t] = shardOf[b]
      PROVE  Written(c, t, doc) = doc
  BY <1>2, <1>4 DEF Written, Shows, IntraShardOrInvalid, CrossShardDstMe, NeverInvalid
<1> QED
  BY <1>2, <1>3, <1>4 DEF Shows

-----------------------------------------------------------------------------
(* Type correctness. *)

\* The part of TypeOK that ties the worker of a shard to its item.
DocumentsFit(busy, queue, left, sent) ==
  IF busy THEN queue # <<>> /\ left \cup sent \subseteq ToIndex(queue[1])
          ELSE left = {} /\ sent = {}

WorkerType(s) ==
  /\ \A i \in 1..Len(blocks[s]) : shardOf[blocks[s][i]] = s
  /\ DocumentsFit(working[s], blocks[s], pending[s], inFlight[s])

\* A worker that works has a block of its shard in hand.
LEMMA InHandType ==
  ASSUME TypeOK, NEW s \in Shards, blocks[s] # <<>>
  PROVE  InHand(s) \in Blocks /\ shardOf[InHand(s)] = s /\ ToIndex(InHand(s)) \subseteq Txs
<1>1. blocks[s] \in Seq(Blocks)
  BY DEF TypeOK
<1>2. blocks[s][1] \in Blocks /\ 1 \in 1..Len(blocks[s])
  BY <1>1, TailFacts
<1> QED
  BY <1>2, ToIndexType DEF InHand, TypeOK

LEMMA InFlightType ==
  ASSUME TypeOK, NEW s \in Shards
  PROVE  /\ inFlight[s] # {} => working[s] /\ blocks[s] # <<>>
         /\ inFlight[s] \subseteq ToIndex(InHand(s))
  BY DEF TypeOK

\* A write keeps the types of documents and of what is stale.
LEMMA WriteType ==
  ASSUME TypeOK, NEW s \in Shards, NEW b \in Blocks, NEW ts \in SUBSET Txs, Write(s, b, ts)
  PROVE  docs' \in [Txs -> Doc] /\ stale' \in [Shards -> SUBSET Txs]
<1>1. \A t \in Txs : docs[t] \in Doc /\ Written(b, t, docs[t]) \in Doc
  BY WrittenType DEF TypeOK
<1> QED
  BY <1>1 DEF Write, TypeOK

DataTypes ==
  /\ chain \in [Shards -> Seq(Blocks)]
  /\ notarized \subseteq Txs
  /\ blocks \in [Shards -> Seq(Blocks)]
  /\ queued \in [Shards -> Nat]
  /\ restarts \in Nat
  /\ working \in [Shards -> BOOLEAN]
  /\ pending \in [Shards -> SUBSET Txs]
  /\ inFlight \in [Shards -> SUBSET Txs]
  /\ stale \in [Shards -> SUBSET Txs]
  /\ lastIndexed \in [Shards -> [Txs -> Blocks \cup {NoBlock}]]
  /\ lost \in [Shards -> SUBSET Txs]
  /\ docs \in [Txs -> Doc]

LEMMA TypesOfParts ==
  ASSUME DataTypes', \A s \in Shards : WorkerType(s)'
  PROVE  TypeOK'
  BY DEF DataTypes, WorkerType, DocumentsFit, InHand, TypeOK

LEMMA WorkerTypes == TypeOK => \A s \in Shards : WorkerType(s)
  BY DEF TypeOK, WorkerType, DocumentsFit, InHand

\* A step that leaves the other shards alone and the blocks of shard s.
LEMMA OneWorker ==
  ASSUME TypeOK, NEW s \in Shards, blocks' = blocks,
         \A r \in Shards \ {s} : /\ working'[r] = working[r]
                                /\ pending'[r] = pending[r]
                                /\ inFlight'[r] = inFlight[r],
         DocumentsFit(working'[s], blocks[s], pending'[s], inFlight'[s])
  PROVE  \A r \in Shards : WorkerType(r)'
<1>1. ASSUME NEW r \in Shards, r # s PROVE WorkerType(r)'
  <2>1. WorkerType(r)
    BY WorkerTypes
  <2> QED
    BY <1>1, <2>1 DEF WorkerType
<1>2. WorkerType(s)'
  <2>1. WorkerType(s)
    BY WorkerTypes
  <2> QED
    BY <2>1 DEF WorkerType
<1> QED
  BY <1>1, <1>2

LEMMA InitTypeOK == Init => TypeOK
<1> SUFFICES ASSUME Init PROVE TypeOK
  OBVIOUS
<1>1. chain \in [Shards -> Seq(Blocks)] /\ notarized \subseteq Txs
  BY DEF Init, Chains!Init
<1>2. docs \in [Txs -> Doc]
  BY NoDocType DEF Init
<1>3. ASSUME NEW s \in Shards PROVE WorkerType(s)
  BY DEF Init, WorkerType, DocumentsFit
<1> QED
  BY <1>1, <1>2, <1>3 DEF Init, TypeOK, WorkerType, DocumentsFit, InHand

LEMMA NextTypeOK == TypeOK /\ [Next]_vars => TypeOK'
<1> SUFFICES ASSUME TypeOK, [Next]_vars PROVE TypeOK'
  OBVIOUS
<1> USE DEF queueVars, historyVars
<1>0. \A s \in Shards : WorkerType(s)
  BY WorkerTypes
<1>1. ASSUME NEW s \in Shards, NEW b \in Blocks, SaveBlock(s, b) PROVE TypeOK'
  <2>1. shardOf[b] = s /\ chain' = [chain EXCEPT ![s] = Append(@, b)]
        /\ notarized' \subseteq Txs
    BY <1>1, ShapeAssumption DEF SaveBlock, Chains!Commit, TypeOK
  <2>2. chain[s] \in Seq(Blocks) /\ blocks[s] \in Seq(Blocks)
    BY DEF TypeOK
  <2>3. chain' \in [Shards -> Seq(Blocks)] /\ blocks' \in [Shards -> Seq(Blocks)]
    BY <1>1, <2>1, <2>2, AppendFacts DEF SaveBlock, TypeOK
  <2>4. ASSUME NEW r \in Shards PROVE WorkerType(r)'
    <3>0. UNCHANGED <<working, pending, inFlight>> /\ WorkerType(r)
      BY <1>0, <1>1 DEF SaveBlock
    <3>1. CASE r # s
      <4>1. blocks'[r] = blocks[r]
        BY <1>1, <3>1 DEF SaveBlock, TypeOK
      <4> QED
        BY <3>0, <4>1 DEF WorkerType
    <3>2. CASE r = s
      <4>1. blocks'[s] = Append(blocks[s], b)
        BY <1>1 DEF SaveBlock, TypeOK
      <4>2. \A i \in 1..Len(blocks'[s]) : shardOf[blocks'[s][i]] = s
        BY <3>0, <3>2, <2>1, <2>2, <4>1, AppendFacts DEF WorkerType
      <4>3. blocks'[s] # <<>> /\ (blocks[s] # <<>> => blocks'[s][1] = blocks[s][1])
        BY <2>2, <4>1, AppendFacts
      <4>4. DocumentsFit(working[s], blocks'[s], pending[s], inFlight[s])
        BY <3>0, <3>2, <4>3 DEF WorkerType, DocumentsFit
      <4> QED
        BY <3>0, <3>2, <4>2, <4>4 DEF WorkerType
    <3> QED
      BY <3>1, <3>2
  <2> QED
    <3>1. queued' \in [Shards -> Nat] /\ notarized' \subseteq Txs
      BY <1>1, <2>1 DEF SaveBlock, TypeOK
    <3>2. UNCHANGED <<restarts, working, pending, inFlight, stale, historyVars, docs>>
      BY <1>1 DEF SaveBlock
    <3>3. DataTypes'
      BY <2>3, <3>1, <3>2 DEF TypeOK, DataTypes
    <3> QED
      BY <2>4, <3>3, TypesOfParts
<1>2. ASSUME NEW s \in Shards, RevertIndexedBlock(s) PROVE TypeOK'
  <2>1. chain[s] \in Seq(Blocks) /\ chain[s] # <<>> /\ notarized' = notarized
        /\ chain' = [chain EXCEPT ![s] = SubSeq(@, 1, Len(@) - 1)]
    BY <1>2 DEF RevertIndexedBlock, Chains!Revert, TypeOK
  <2>2. chain' \in [Shards -> Seq(Blocks)]
    BY <2>1, PrefixFacts DEF TypeOK
  <2>3. UNCHANGED <<blocks, queued, restarts, working, pending, inFlight, stale, historyVars, docs>>
    BY <1>2 DEF RevertIndexedBlock
  <2>4. \A r \in Shards : WorkerType(r)'
    BY <1>0, <2>3 DEF WorkerType
  <2> QED
    BY <2>1, <2>2, <2>3, <2>4, TypesOfParts DEF TypeOK, DataTypes
<1>3. ASSUME NEW s \in Shards, Start(s) PROVE TypeOK'
  <2>1. blocks[s] # <<>> /\ ToIndex(InHand(s)) \subseteq Txs
    BY <1>3, InHandType DEF Start
  <2>2. inFlight[s] = {}
    BY <1>0, <1>3 DEF Start, WorkerType, DocumentsFit
  <2>3. DocumentsFit(TRUE, blocks[s], ToIndex(InHand(s)), inFlight[s])
    BY <2>1, <2>2 DEF DocumentsFit, InHand
  <2>4. \A r \in Shards : WorkerType(r)'
    BY <1>3, <2>3, OneWorker DEF Start, TypeOK
  <2> QED
    BY <1>3, <2>1, <2>4, TypesOfParts DEF Start, TypeOK, DataTypes
<1>4. ASSUME NEW s \in Shards, SendBulk(s) PROVE TypeOK'
  <2>1. PICK ts \in (SUBSET pending[s]) \ {{}} :
          /\ inFlight' = [inFlight EXCEPT ![s] = ts]
          /\ pending' = [pending EXCEPT ![s] = @ \ ts]
    BY <1>4 DEF SendBulk
  <2>2. DocumentsFit(working[s], blocks[s], pending[s] \ ts, ts)
    BY <1>0, <1>4 DEF SendBulk, WorkerType, DocumentsFit
  <2>3. \A r \in Shards : WorkerType(r)'
    <3>1. UNCHANGED <<blocks, working>>
      BY <1>4 DEF SendBulk
    <3>2. /\ pending'[s] = pending[s] \ ts
          /\ inFlight'[s] = ts
          /\ \A r \in Shards \ {s} : pending'[r] = pending[r] /\ inFlight'[r] = inFlight[r]
      BY <2>1 DEF TypeOK
    <3> QED
      BY <2>2, <3>1, <3>2, OneWorker
  <2> QED
    BY <1>4, <2>1, <2>3, TypesOfParts DEF SendBulk, TypeOK, DataTypes
<1>5. ASSUME NEW s \in Shards, BulkAnswered(s) PROVE TypeOK'
  <2>1. InHand(s) \in Blocks /\ ToIndex(InHand(s)) \subseteq Txs
    BY <1>5, InFlightType, InHandType DEF BulkAnswered
  <2>2. Effective(InHand(s), inFlight[s], stale[s]) \in SUBSET Txs
    BY DEF Effective, TypeOK
  <2>3. docs' \in [Txs -> Doc] /\ stale' \in [Shards -> SUBSET Txs]
    BY <1>5, <2>1, <2>2, WriteType DEF BulkAnswered
  <2>4. DocumentsFit(working[s], blocks[s], pending[s], {})
    BY <1>0 DEF WorkerType, DocumentsFit
  <2>5. \A r \in Shards : WorkerType(r)'
    BY <1>5, <2>4, OneWorker DEF BulkAnswered, TypeOK
  <2> QED
    BY <1>5, <2>3, <2>5, TypesOfParts DEF BulkAnswered, TypeOK, DataTypes
<1>6. ASSUME NEW s \in Shards, BulkFailed(s) PROVE TypeOK'
  <2>1. InHand(s) \in Blocks /\ ToIndex(InHand(s)) \subseteq Txs /\ working[s]
        /\ blocks[s] # <<>>
    BY <1>6, InFlightType, InHandType DEF BulkFailed
  <2>2. PICK ts \in SUBSET Effective(InHand(s), inFlight[s], stale[s]) : Write(s, InHand(s), ts)
    BY <1>6 DEF BulkFailed
  <2>3. ts \in SUBSET Txs
    BY <2>2 DEF Effective, TypeOK
  <2>4. docs' \in [Txs -> Doc] /\ stale' \in [Shards -> SUBSET Txs]
    BY <2>1, <2>2, <2>3, WriteType
  <2>5. DocumentsFit(working[s], blocks[s], ToIndex(InHand(s)), {})
    BY <2>1 DEF DocumentsFit, InHand
  <2>6. \A r \in Shards : WorkerType(r)'
    BY <1>6, <2>5, OneWorker DEF BulkFailed, TypeOK
  <2> QED
    BY <1>6, <2>1, <2>4, <2>6, TypesOfParts DEF BulkFailed, TypeOK, DataTypes
<1>7. ASSUME NEW s \in Shards, AccountsFailed(s) PROVE TypeOK'
  <2>1. working[s] /\ inFlight[s] = {} /\ blocks[s] # <<>>
    BY <1>0, <1>7 DEF AccountsFailed, AllSent, WorkerType, DocumentsFit
  <2>2. ToIndex(InHand(s)) \subseteq Txs
    BY <2>1, InHandType
  <2>3. DocumentsFit(working[s], blocks[s], ToIndex(InHand(s)), inFlight[s])
    BY <2>1 DEF DocumentsFit, InHand
  <2>4. \A r \in Shards : WorkerType(r)'
    BY <1>7, <2>3, OneWorker DEF AccountsFailed, TypeOK
  <2> QED
    BY <1>7, <2>2, <2>4, TypesOfParts DEF AccountsFailed, TypeOK, DataTypes
<1>8. ASSUME NEW s \in Shards, Complete(s) PROVE TypeOK'
  <2>1. blocks[s] # <<>> /\ blocks[s] \in Seq(Blocks)
        /\ pending[s] = {} /\ inFlight[s] = {}
    BY <1>0, <1>8 DEF Complete, AllSent, WorkerType, DocumentsFit, TypeOK
  <2>2. InHand(s) \in Blocks
    BY <2>1, InHandType
  <2>3. blocks' \in [Shards -> Seq(Blocks)] /\ working' \in [Shards -> BOOLEAN]
        /\ blocks'[s] = Tail(blocks[s]) /\ working'[s] = FALSE
    BY <1>8, <2>1, TailFacts DEF Complete, TypeOK
  <2>4. /\ lastIndexed' \in [Shards -> [Txs -> Blocks \cup {NoBlock}]]
        /\ lost' \in [Shards -> SUBSET Txs]
    BY <1>8, <2>2 DEF Complete, TypeOK
  <2>5. ASSUME NEW r \in Shards PROVE WorkerType(r)'
    <3>0. UNCHANGED <<pending, inFlight>> /\ WorkerType(r)
      BY <1>0, <1>8 DEF Complete
    <3>1. CASE r # s
      <4>1. blocks'[r] = blocks[r] /\ working'[r] = working[r]
        BY <1>8, <3>1 DEF Complete, TypeOK
      <4> QED
        BY <3>0, <4>1 DEF WorkerType
    <3>2. CASE r = s
      <4>1. \A i \in 1..Len(Tail(blocks[s])) : shardOf[Tail(blocks[s])[i]] = s
        BY <1>0, <2>1, TailFacts DEF WorkerType
      <4> QED
        BY <2>1, <2>3, <3>0, <3>2, <4>1 DEF WorkerType, DocumentsFit
    <3> QED
      BY <3>1, <3>2
  <2> QED
    BY <1>8, <2>3, <2>4, <2>5, TypesOfParts DEF Complete, TypeOK, DataTypes
<1>9. ASSUME NEW s \in Shards, Restart(s) PROVE TypeOK'
  <2>1. blocks[s] # <<>> /\ blocks[s] \in Seq(Blocks) /\ InHand(s) \in Blocks
    BY <1>9, InHandType DEF Restart, TypeOK
  <2>2. PICK ts \in SUBSET Effective(InHand(s), inFlight[s], stale[s]) : Write(s, InHand(s), ts)
    BY <1>9 DEF Restart
  <2>3. docs' \in [Txs -> Doc] /\ stale' \in [Shards -> SUBSET Txs]
    BY <2>1, <2>2, WriteType DEF Effective, TypeOK
  <2>4. UNION {ToIndex(blocks[s][k]) : k \in 1..Len(blocks[s])} \subseteq Txs
    BY <2>1, ToIndexType
  <2>5. lost' \in [Shards -> SUBSET Txs]
    BY <1>9, <2>4 DEF Restart, TypeOK
  <2>6. /\ blocks' \in [Shards -> Seq(Blocks)] /\ blocks'[s] = <<>>
        /\ working' \in [Shards -> BOOLEAN] /\ working'[s] = FALSE
        /\ pending' \in [Shards -> SUBSET Txs] /\ pending'[s] = {}
        /\ inFlight' \in [Shards -> SUBSET Txs] /\ inFlight'[s] = {}
    BY <1>9 DEF Restart, TypeOK
  <2>7. ASSUME NEW r \in Shards PROVE WorkerType(r)'
    <3>1. CASE r # s
      <4>1. blocks'[r] = blocks[r] /\ working'[r] = working[r] /\ pending'[r] = pending[r]
            /\ inFlight'[r] = inFlight[r]
        BY <1>9, <3>1 DEF Restart, TypeOK
      <4> QED
        BY <1>0, <4>1 DEF WorkerType
    <3>2. CASE r = s
      BY <2>6, <3>2 DEF WorkerType, DocumentsFit
    <3> QED
      BY <3>1, <3>2
  <2>8. restarts' \in Nat /\ UNCHANGED <<chain, notarized, queued, lastIndexed>>
    BY <1>9 DEF Restart, TypeOK
  <2>9. DataTypes'
    BY <2>3, <2>5, <2>6, <2>8 DEF TypeOK, DataTypes
  <2> QED
    BY <2>7, <2>9, TypesOfParts
<1>10. CASE UNCHANGED vars
  BY <1>10 DEF vars, TypeOK, InHand, ToIndex
<1> QED
  BY <1>1, <1>2, <1>3, <1>4, <1>5, <1>6, <1>7, <1>8, <1>9, <1>10 DEF Next, Node, Worker

\* Every variable keeps its type, and a worker has documents to send exactly
\* while it works on a block of its shard.
THEOREM TypeCorrect == Spec => []TypeOK
  BY InitTypeOK, NextTypeOK, PTL DEF Spec

-----------------------------------------------------------------------------
(* What the documents show.  The invariant follows a transaction through an *)
(* attempt: from the moment its bulk is answered until the item begins      *)
(* again its document shows the block in hand, and so, once the item is     *)
(* complete, the last block its shard has indexed.                          *)

\* The worker of shard s has written t in this attempt.
Done(s, t) ==
  working[s] /\ t \in ToIndex(InHand(s)) /\ t \notin pending[s] /\ t \notin inFlight[s]

\* The last block of shard s with t, if there is one, and a document for it.
LastIsOwn(s, t) ==
  lastIndexed[s][t] # NoBlock =>
    /\ shardOf[lastIndexed[s][t]] = s
    /\ t \in ToIndex(lastIndexed[s][t])
    /\ docs[t] # NoDoc

ShowsLast(s, t) ==
  lastIndexed[s][t] # NoBlock /\ t \notin lost[s] /\ ~Indexing(s, t)
    => Shows(lastIndexed[s][t], t, docs[t])

IndexingInv ==
  /\ \A s \in Shards, t \in Txs : Done(s, t) => Shows(InHand(s), t, docs[t])
  /\ \A s \in Shards, t \in Txs : LastIsOwn(s, t)
  /\ \A s \in Shards, t \in Txs : ShowsLast(s, t)
  /\ \A s \in Shards : \A t \in stale[s] : docs[t] # NoDoc

LEMMA InitIndexingInv == Init => IndexingInv
  BY DEF Init, IndexingInv, Done, LastIsOwn, ShowsLast

\* A bulk of shard s: what it does to the documents and to what others read.
LEMMA WriteFacts ==
  ASSUME TypeOK, IndexingInv, NEW s \in Shards, blocks[s] # <<>>,
         NEW ts \in SUBSET inFlight[s], Write(s, InHand(s), ts)
  PROVE  /\ \A t \in ts : Shows(InHand(s), t, docs'[t])
         /\ \A t \in Txs \ ts : docs'[t] = docs[t]
         /\ \A t \in Txs : docs[t] # NoDoc => docs'[t] # NoDoc
         /\ \A b \in Blocks, t \in Txs :
              shardOf[b] # s /\ t \in ToIndex(b) /\ Shows(b, t, docs[t]) => Shows(b, t, docs'[t])
         /\ \A r \in Shards : \A t \in stale'[r] : docs'[t] # NoDoc
<1>1. /\ InHand(s) \in Blocks
      /\ shardOf[InHand(s)] = s
      /\ inFlight[s] \subseteq ToIndex(InHand(s))
      /\ inFlight[s] \subseteq Txs
  BY InFlightType, InHandType DEF TypeOK
<1>2. \A t \in ts : docs'[t] = Written(InHand(s), t, docs[t])
  BY <1>1 DEF Write
<1>3. \A t \in Txs \ ts : docs'[t] = docs[t]
  BY DEF Write
<1>4. \A t \in Txs : docs[t] \in Doc
  BY DEF TypeOK
<1>5. ASSUME NEW t \in ts PROVE Shows(InHand(s), t, docs'[t])
  BY <1>1, <1>2, <1>4, OwnWriteShows
<1>6. \A t \in ts : docs'[t] # NoDoc
  BY <1>5 DEF Shows
<1>7. ASSUME NEW b \in Blocks, NEW t \in Txs,
             shardOf[b] # s, t \in ToIndex(b), Shows(b, t, docs[t])
      PROVE  Shows(b, t, docs'[t])
  <2>1. CASE t \in ts
    BY <1>1, <1>2, <1>4, <1>7, <2>1, OtherWriteShows
  <2>2. CASE t \notin ts
    BY <1>3, <1>7, <2>2
  <2> QED
    BY <2>1, <2>2
<1>8. ASSUME NEW r \in Shards, NEW t \in stale'[r] PROVE docs'[t] # NoDoc
  <2>1. t \in stale[r] \/ t \in ts
    BY DEF Write
  <2>2. stale[r] \subseteq Txs
    BY DEF TypeOK
  <2> QED
    BY <1>3, <1>6, <2>1, <2>2 DEF IndexingInv
<1> QED
  BY <1>3, <1>5, <1>6, <1>7, <1>8

\* A bulk of shard s keeps what the invariant says of everything but its own
\* attempt.
LEMMA WriteKeeps ==
  ASSUME TypeOK, IndexingInv, NEW s \in Shards, blocks[s] # <<>>,
         NEW ts \in SUBSET inFlight[s], Write(s, InHand(s), ts),
         lastIndexed' = lastIndexed,
         \A r \in Shards, t \in Txs : ~Indexing(r, t)' /\ t \notin lost'[r]
                                       => ~Indexing(r, t) /\ t \notin lost[r]
  PROVE  /\ \A r \in Shards, t \in Txs : r # s /\ Done(r, t) => Shows(InHand(r), t, docs'[t])
         /\ \A r \in Shards, t \in Txs : LastIsOwn(r, t)'
         /\ \A r \in Shards, t \in Txs : ShowsLast(r, t)'
         /\ \A r \in Shards : \A t \in stale'[r] : docs'[t] # NoDoc
<1>1. ASSUME NEW r \in Shards, NEW t \in Txs, r # s, Done(r, t)
      PROVE  Shows(InHand(r), t, docs'[t])
  <2>1. blocks[r] # <<>>
    BY <1>1 DEF TypeOK, Done
  <2>2. InHand(r) \in Blocks /\ shardOf[InHand(r)] # s /\ t \in ToIndex(InHand(r))
    BY <1>1, <2>1, InHandType DEF Done
  <2>3. Shows(InHand(r), t, docs[t])
    BY <1>1 DEF IndexingInv
  <2> QED
    BY <2>2, <2>3, WriteFacts
<1>2. ASSUME NEW r \in Shards, NEW t \in Txs PROVE LastIsOwn(r, t)'
  <2>1. docs[t] # NoDoc => docs'[t] # NoDoc
    BY WriteFacts
  <2> QED
    BY <2>1 DEF IndexingInv, LastIsOwn
<1>3. ASSUME NEW r \in Shards, NEW t \in Txs PROVE ShowsLast(r, t)'
  <2> SUFFICES ASSUME lastIndexed[r][t] # NoBlock, ~Indexing(r, t), t \notin lost[r]
               PROVE  Shows(lastIndexed[r][t], t, docs'[t])
    BY DEF ShowsLast
  <2>1. Shows(lastIndexed[r][t], t, docs[t]) /\ lastIndexed[r][t] \in Blocks
    BY DEF IndexingInv, ShowsLast, TypeOK
  <2>2. shardOf[lastIndexed[r][t]] = r /\ t \in ToIndex(lastIndexed[r][t])
    BY DEF IndexingInv, LastIsOwn
  <2>3. CASE r = s
    <3>1. t \notin ts
      BY <2>3, InFlightType DEF Indexing
    <3> QED
      BY <2>1, <3>1, WriteFacts
  <2>4. CASE r # s
    BY <2>1, <2>2, <2>4, WriteFacts
  <2> QED
    BY <2>3, <2>4
<1>4. \A r \in Shards : \A t \in stale'[r] : docs'[t] # NoDoc
  BY WriteFacts
<1> QED
  BY <1>1, <1>2, <1>3, <1>4

\* A step that writes nothing and by which no attempt gets further than it was.
LEMMA QuietKeeps ==
  ASSUME IndexingInv, UNCHANGED <<docs, stale, historyVars>>,
         \A r \in Shards, t \in Txs :
           /\ Done(r, t)' => Done(r, t) /\ InHand(r)' = InHand(r)
           /\ Indexing(r, t) => Indexing(r, t)'
  PROVE  IndexingInv'
<1>1. \A r \in Shards, t \in Txs : Done(r, t)' => Shows(InHand(r)', t, docs'[t])
  BY DEF IndexingInv
<1>2. \A r \in Shards, t \in Txs : LastIsOwn(r, t)'
  BY DEF IndexingInv, LastIsOwn, historyVars
<1>3. \A r \in Shards, t \in Txs : ShowsLast(r, t)'
  BY DEF IndexingInv, ShowsLast, historyVars
<1>4. \A r \in Shards : \A t \in stale'[r] : docs'[t] # NoDoc
  BY DEF IndexingInv
<1> QED
  BY <1>1, <1>2, <1>3, <1>4 DEF IndexingInv

LEMMA NextIndexingInv == TypeOK /\ IndexingInv /\ [Next]_vars => IndexingInv'
<1> SUFFICES ASSUME TypeOK, IndexingInv, [Next]_vars PROVE IndexingInv'
  OBVIOUS
<1> USE DEF queueVars, historyVars
<1>1. ASSUME NEW s \in Shards, NEW b \in Blocks, SaveBlock(s, b) PROVE IndexingInv'
  <2>1. ASSUME NEW r \in Shards, working[r] PROVE InHand(r)' = InHand(r)
    <3>1. blocks[r] # <<>> /\ blocks[r] \in Seq(Blocks)
      BY <2>1 DEF TypeOK
    <3>2. blocks'[r] = IF r = s THEN Append(blocks[r], b) ELSE blocks[r]
      BY <1>1 DEF SaveBlock, TypeOK
    <3> QED
      BY <3>1, <3>2, AppendFacts DEF InHand
  <2>2. ASSUME NEW r \in Shards, NEW t \in Txs
        PROVE  /\ Done(r, t)' => Done(r, t) /\ InHand(r)' = InHand(r)
               /\ Indexing(r, t) => Indexing(r, t)'
    <3>1. CASE working[r]
      BY <1>1, <2>1, <3>1 DEF SaveBlock, Done, Indexing, ToIndex
    <3>2. CASE ~working[r]
      BY <1>1, <3>2 DEF SaveBlock, Done, Indexing
    <3> QED
      BY <3>1, <3>2
  <2> QED
    BY <1>1, <2>2, QuietKeeps DEF SaveBlock
<1>2. ASSUME NEW s \in Shards, RevertIndexedBlock(s) PROVE IndexingInv'
  BY <1>2, QuietKeeps DEF RevertIndexedBlock, Done, Indexing, InHand, ToIndex
<1>3. ASSUME NEW s \in Shards, Start(s) PROVE IndexingInv'
  <2>1. \A r \in Shards : InHand(r)' = InHand(r)
    BY <1>3 DEF Start, InHand
  <2>2. ASSUME NEW r \in Shards, NEW t \in Txs
        PROVE  (Done(r, t)' => Done(r, t)) /\ (Indexing(r, t) => Indexing(r, t)')
    BY <1>3, <2>1 DEF Start, Done, Indexing, ToIndex, TypeOK
  <2> QED
    BY <1>3, <2>1, <2>2, QuietKeeps DEF Start
<1>4. ASSUME NEW s \in Shards, SendBulk(s) PROVE IndexingInv'
  <2>1. \A r \in Shards : InHand(r)' = InHand(r)
    BY <1>4 DEF SendBulk, InHand
  <2>2. ASSUME NEW r \in Shards, NEW t \in Txs
        PROVE  (Done(r, t)' => Done(r, t)) /\ (Indexing(r, t) => Indexing(r, t)')
    BY <1>4, <2>1 DEF SendBulk, Done, Indexing, ToIndex, TypeOK
  <2> QED
    BY <1>4, <2>1, <2>2, QuietKeeps DEF SendBulk
<1>5. ASSUME NEW s \in Shards, BulkAnswered(s) PROVE IndexingInv'
  <2> DEFINE ts == Effective(InHand(s), inFlight[s], stale[s])
  <2>1. blocks[s] # <<>> /\ ts \in SUBSET inFlight[s] /\ Write(s, InHand(s), ts)
        /\ UNCHANGED <<blocks, working, lastIndexed, lost, pending>>
    BY <1>5, InFlightType DEF BulkAnswered, Effective
  <2>2. \A r \in Shards : InHand(r)' = InHand(r) /\ \A t \in Txs : Indexing(r, t)' <=> Indexing(r, t)
    BY <2>1 DEF InHand, Indexing, ToIndex
  <2>3. ASSUME NEW r \in Shards, NEW t \in Txs, Done(r, t)'
        PROVE  Shows(InHand(r), t, docs'[t])
    <3>1. CASE r # s
      <4>1. Done(r, t)
        BY <1>5, <2>1, <2>2, <2>3, <3>1 DEF BulkAnswered, Done, ToIndex, TypeOK
      <4> QED
        BY <2>1, <2>2, <3>1, <4>1, WriteKeeps
    <3>2. CASE r = s /\ t \in ts
      BY <2>1, <3>2, WriteFacts
    <3>3. CASE r = s /\ t \in inFlight[s] \ ts
      <4>1. ItemConflicts /\ t \in stale[s] /\ ~IntraShardOrInvalid(InHand(s), t)
        BY <3>3 DEF Effective
      <4>2. docs'[t] # NoDoc
        BY <2>1, <4>1, WriteFacts DEF IndexingInv
      <4>3. t \in txsOf[InHand(s)] /\ InHand(s) \in Blocks
        BY <2>1, <3>3, InFlightType, InHandType DEF ToIndex
      <4>4. Cross(t)
        BY <4>1, <4>3, ShapeAssumption DEF IntraShardOrInvalid, Cross
      <4> QED
        BY <3>3, <4>1, <4>2, <4>4 DEF Shows
    <3>4. CASE r = s /\ t \notin inFlight[s]
      <4>1. Done(s, t)
        BY <2>1, <2>2, <2>3, <3>4 DEF Done, ToIndex
      <4>2. Shows(InHand(s), t, docs[t])
        BY <4>1 DEF IndexingInv
      <4>3. docs'[t] = docs[t]
        BY <2>1, <3>4, WriteFacts
      <4> QED
        BY <3>4, <4>2, <4>3
    <3> QED
      BY <3>1, <3>2, <3>3, <3>4
  <2> HIDE DEF ts
  <2>4. /\ \A r \in Shards, t \in Txs : LastIsOwn(r, t)' /\ ShowsLast(r, t)'
        /\ \A r \in Shards : \A t \in stale'[r] : docs'[t] # NoDoc
    BY <2>1, <2>2, WriteKeeps
  <2> QED
    BY <2>2, <2>3, <2>4 DEF IndexingInv
<1>6. ASSUME NEW s \in Shards, BulkFailed(s) PROVE IndexingInv'
  <2>1. PICK ts \in SUBSET inFlight[s] : Write(s, InHand(s), ts)
    BY <1>6 DEF BulkFailed, Effective
  <2>2. blocks[s] # <<>> /\ UNCHANGED <<blocks, working, lastIndexed, lost>>
    BY <1>6, InFlightType DEF BulkFailed
  <2>3. \A r \in Shards : InHand(r)' = InHand(r) /\ \A t \in Txs : Indexing(r, t)' <=> Indexing(r, t)
    BY <2>2 DEF InHand, Indexing, ToIndex
  <2>4. ASSUME NEW r \in Shards, NEW t \in Txs, Done(r, t)'
        PROVE  Shows(InHand(r), t, docs'[t])
    <3>1. r # s /\ Done(r, t)
      BY <1>6, <2>3, <2>4 DEF BulkFailed, Done, ToIndex, TypeOK
    <3> QED
      BY <2>1, <2>2, <2>3, <3>1, WriteKeeps
  <2>5. /\ \A r \in Shards, t \in Txs : LastIsOwn(r, t)' /\ ShowsLast(r, t)'
        /\ \A r \in Shards : \A t \in stale'[r] : docs'[t] # NoDoc
    BY <2>1, <2>2, <2>3, WriteKeeps
  <2> QED
    BY <2>3, <2>4, <2>5 DEF IndexingInv
<1>7. ASSUME NEW s \in Shards, AccountsFailed(s) PROVE IndexingInv'
  <2>1. \A r \in Shards : InHand(r)' = InHand(r)
    BY <1>7 DEF AccountsFailed, InHand
  <2>2. ASSUME NEW r \in Shards, NEW t \in Txs
        PROVE  (Done(r, t)' => Done(r, t)) /\ (Indexing(r, t) => Indexing(r, t)')
    BY <1>7, <2>1 DEF AccountsFailed, Done, Indexing, ToIndex, TypeOK
  <2> QED
    BY <1>7, <2>1, <2>2, QuietKeeps DEF AccountsFailed
<1>8. ASSUME NEW s \in Shards, Complete(s) PROVE IndexingInv'
  <2>1. blocks[s] # <<>>
    BY <1>8 DEF Complete, AllSent, TypeOK
  <2>2. InHand(s) \in Blocks /\ shardOf[InHand(s)] = s /\ InHand(s) # NoBlock
    BY <2>1, InHandType, ShapeAssumption
  <2>3. \A t \in Txs : t \in ToIndex(InHand(s)) => Done(s, t)
    BY <1>8 DEF Complete, AllSent, Done
  <2>4. \A t \in Txs : lastIndexed'[s][t] = IF t \in ToIndex(InHand(s)) THEN InHand(s)
                                                                        ELSE lastIndexed[s][t]
    BY <1>8 DEF Complete, TypeOK
  <2>5. ASSUME NEW r \in Shards, r # s
        PROVE  InHand(r)' = InHand(r) /\ lastIndexed'[r] = lastIndexed[r]
               /\ working'[r] = working[r] /\ lost'[r] = lost[r]
    BY <1>8, <2>5 DEF Complete, InHand, TypeOK
  <2>6. ~working'[s] /\ lost'[s] = lost[s] \ ToIndex(InHand(s))
        /\ UNCHANGED <<docs, stale, pending, inFlight>>
    BY <1>8 DEF Complete, TypeOK
  <2>7. ASSUME NEW r \in Shards, NEW t \in Txs, Done(r, t)'
        PROVE  Shows(InHand(r)', t, docs'[t])
    <3>1. r # s
      BY <2>6, <2>7 DEF Done
    <3>2. Done(r, t)
      BY <2>5, <2>6, <2>7, <3>1 DEF Done, ToIndex
    <3> QED
      BY <2>5, <2>6, <3>1, <3>2 DEF IndexingInv
  <2>8. ASSUME NEW r \in Shards, NEW t \in Txs PROVE LastIsOwn(r, t)' /\ ShowsLast(r, t)'
    <3>1. CASE r # s
      BY <2>5, <2>6, <3>1 DEF IndexingInv, LastIsOwn, ShowsLast, Indexing, ToIndex
    <3>2. CASE r = s /\ t \in ToIndex(InHand(s))
      <4>1. Shows(InHand(s), t, docs[t])
        BY <2>3, <3>2 DEF IndexingInv
      <4>2. docs[t] # NoDoc
        BY <4>1 DEF Shows
      <4> QED
        BY <2>2, <2>4, <2>6, <3>2, <4>1, <4>2 DEF LastIsOwn, ShowsLast
    <3>3. CASE r = s /\ t \notin ToIndex(InHand(s))
      <4>1. ~Indexing(s, t)
        BY <3>3 DEF Indexing
      <4> QED
        BY <2>4, <2>6, <3>3, <4>1 DEF IndexingInv, LastIsOwn, ShowsLast
    <3> QED
      BY <3>1, <3>2, <3>3
  <2> QED
    BY <2>6, <2>7, <2>8 DEF IndexingInv
<1>9. ASSUME NEW s \in Shards, Restart(s) PROVE IndexingInv'
  <2>1. PICK ts \in SUBSET inFlight[s] : Write(s, InHand(s), ts)
    BY <1>9 DEF Restart, Effective
  <2>2. /\ blocks[s] # <<>> /\ blocks[s] \in Seq(Blocks)
        /\ ~working'[s] /\ lastIndexed' = lastIndexed
        /\ lost'[s] = lost[s] \cup UNION {ToIndex(blocks[s][k]) : k \in 1..Len(blocks[s])}
    BY <1>9 DEF Restart, TypeOK
  <2>3. ToIndex(InHand(s)) \subseteq lost'[s] /\ lost[s] \subseteq lost'[s]
    BY <2>2, TailFacts DEF InHand
  <2>4. ASSUME NEW r \in Shards, r # s
        PROVE  /\ InHand(r)' = InHand(r) /\ lost'[r] = lost[r]
               /\ \A t \in Txs : (Done(r, t)' <=> Done(r, t)) /\ (Indexing(r, t)' <=> Indexing(r, t))
    <3>1. /\ blocks'[r] = blocks[r] /\ working'[r] = working[r] /\ pending'[r] = pending[r]
          /\ inFlight'[r] = inFlight[r] /\ lost'[r] = lost[r]
      BY <1>9, <2>4 DEF Restart, TypeOK
    <3> QED
      BY <3>1 DEF InHand, Done, Indexing, ToIndex
  <2>5. ASSUME NEW r \in Shards, NEW t \in Txs, ~Indexing(r, t)', t \notin lost'[r]
        PROVE  ~Indexing(r, t) /\ t \notin lost[r]
    <3>1. CASE r = s
      BY <2>3, <2>5, <3>1 DEF Indexing
    <3>2. CASE r # s
      BY <2>4, <2>5, <3>2
    <3> QED
      BY <3>1, <3>2
  <2>6. ASSUME NEW r \in Shards, NEW t \in Txs, Done(r, t)'
        PROVE  Shows(InHand(r)', t, docs'[t])
    <3>1. r # s
      BY <2>2, <2>6 DEF Done
    <3>2. Done(r, t) /\ InHand(r)' = InHand(r)
      BY <2>4, <2>6, <3>1
    <3> QED
      BY <2>1, <2>2, <2>5, <3>1, <3>2, WriteKeeps
  <2>7. /\ \A r \in Shards, t \in Txs : LastIsOwn(r, t)' /\ ShowsLast(r, t)'
        /\ \A r \in Shards : \A t \in stale'[r] : docs'[t] # NoDoc
    BY <2>1, <2>2, <2>5, WriteKeeps
  <2> QED
    BY <2>6, <2>7 DEF IndexingInv
<1>10. CASE UNCHANGED vars
  <2>1. \A r \in Shards, t \in Txs :
          /\ InHand(r)' = InHand(r)
          /\ Done(r, t)' <=> Done(r, t)
          /\ Indexing(r, t)' <=> Indexing(r, t)
    BY <1>10 DEF vars, InHand, Done, Indexing, ToIndex
  <2> QED
    BY <1>10, <2>1, QuietKeeps DEF vars
<1> QED
  BY <1>1, <1>2, <1>3, <1>4, <1>5, <1>6, <1>7, <1>8, <1>9, <1>10 DEF Next, Node, Worker

LEMMA Invariance == Spec => [](TypeOK /\ IndexingInv)
  BY InitTypeOK, NextTypeOK, InitIndexingInv, NextIndexingInv, PTL DEF Spec

\* Without item conflicts, the document of a cross-shard transaction that its
\* receiver has indexed shows what the receiver said last, whatever the sender's
\* node, forks and repeated bulks do.
THEOREM ReceiverHasTheLastWord ==
  ASSUME ~ItemConflicts
  PROVE  Spec => []ExecutedFieldsKept
<1>1. TypeOK /\ IndexingInv => ExecutedFieldsKept
  <2> SUFFICES ASSUME TypeOK, IndexingInv, NEW t \in Txs, Cross(t), NeverInvalid(t),
                      lastIndexed[receiver[t]][t] # NoBlock, t \notin lost[receiver[t]],
                      ~Indexing(receiver[t], t)
               PROVE  docs[t].fields = lastIndexed[receiver[t]][t]
    BY DEF ExecutedFieldsKept
  <2>1. receiver[t] \in Shards
    BY ShapeAssumption
  <2>2. Shows(lastIndexed[receiver[t]][t], t, docs[t])
        /\ shardOf[lastIndexed[receiver[t]][t]] = receiver[t]
    BY <2>1 DEF IndexingInv, ShowsLast, LastIsOwn
  <2> QED
    BY <2>2 DEF Shows
<1> QED
  BY <1>1, Invariance, PTL

\* Even with item conflicts, an intra-shard transaction shows the last block its
\* shard has indexed.
THEOREM LastBlockRewrites == Spec => []ForkRewritesIntraShard
<1>1. IndexingInv => ForkRewritesIntraShard
  <2> SUFFICES ASSUME IndexingInv, NEW t \in Txs, ~Cross(t),
                      lastIndexed[sender[t]][t] # NoBlock, t \notin lost[sender[t]],
                      ~Indexing(sender[t], t)
               PROVE  docs[t] = InsertedBy(lastIndexed[sender[t]][t])
    BY DEF ForkRewritesIntraShard
  <2>1. sender[t] \in Shards
    BY ShapeAssumption
  <2> QED
    BY <2>1 DEF IndexingInv, ShowsLast, Shows
<1> QED
  BY <1>1, Invariance, PTL

\* Even with item conflicts, no transaction of an indexed block is without a
\* document.
THEOREM NoneMissing == Spec => []IndexedHaveDocs
<1>1. IndexingInv => IndexedHaveDocs
  BY DEF IndexingInv, LastIsOwn, IndexedHaveDocs
<1> QED
  BY <1>1, Invariance, PTL

-----------------------------------------------------------------------------
(* What a reader of the database sees from one step to the next.            *)

\* A block of either shard leaves an executed transaction executed.
LEMMA WrittenStaysExecuted ==
  ASSUME NEW b \in Blocks, NEW t \in Txs, NEW doc \in Doc, Cross(t), NeverInvalid(t),
         doc.fields # NoBlock
  PROVE  \/ Written(b, t, doc).fields = doc.fields
         \/ Written(b, t, doc).fields = b /\ shardOf[b] = receiver[t]
<1>1. doc # NoDoc /\ ~IntraShardOrInvalid(b, t)
  BY DEF NoDoc, NeverInvalid, IntraShardOrInvalid
<1>2. CASE CrossShardDstMe(b, t)
  BY <1>1, <1>2 DEF Written, CrossShardDstMe, Doc
<1>3. CASE ~CrossShardDstMe(b, t)
  BY <1>1, <1>3 DEF Written
<1> QED
  BY <1>2, <1>3

\* And so does a bulk, done in full or in part.
LEMMA BulkStaysExecuted ==
  ASSUME TypeOK, NEW s \in Shards, blocks[s] # <<>>,
         NEW ts \in SUBSET inFlight[s], Write(s, InHand(s), ts),
         NEW t \in Txs, Cross(t), NeverInvalid(t), Executed(t)
  PROVE  Executed(t)'
<1>1. InHand(s) \in Blocks /\ InHand(s) # NoBlock
  BY InHandType, ShapeAssumption
<1>2. docs[t] \in Doc
  BY DEF TypeOK
<1>3. docs'[t] = docs[t] \/ docs'[t] = Written(InHand(s), t, docs[t])
  BY DEF Write
<1>4. CASE docs'[t] = docs[t]
  BY <1>4 DEF Executed
<1>5. CASE docs'[t] = Written(InHand(s), t, docs[t])
  <2>1. \/ docs'[t].fields = docs[t].fields
        \/ docs'[t].fields = InHand(s) /\ shardOf[InHand(s)] = receiver[t]
    BY <1>1, <1>2, <1>5, WrittenStaysExecuted DEF Executed
  <2> QED
    BY <1>1, <2>1 DEF Executed
<1> QED
  BY <1>3, <1>4, <1>5

\* With item conflicts or without, no step of any node, a restart in the middle
\* of a bulk included, takes the document of an executed cross-shard transaction
\* back to the fields its sender gave it.
THEOREM NeverPendingAgain == Spec => StaysExecuted
<1>1. ASSUME TypeOK, [Next]_vars, NEW t \in Txs, Cross(t), NeverInvalid(t), Executed(t)
      PROVE  Executed(t)'
  <2>1. ASSUME NEW s \in Shards, BulkAnswered(s) PROVE Executed(t)'
    <3>1. Effective(InHand(s), inFlight[s], stale[s]) \in SUBSET inFlight[s]
      BY DEF Effective
    <3> QED
      BY <1>1, <2>1, <3>1, InFlightType, BulkStaysExecuted DEF BulkAnswered
  <2>2. ASSUME NEW s \in Shards, BulkFailed(s) \/ Restart(s) PROVE Executed(t)'
    <3>1. PICK ts \in SUBSET inFlight[s] : Write(s, InHand(s), ts)
      BY <2>2 DEF BulkFailed, Restart, Effective
    <3>2. blocks[s] # <<>>
      BY <1>1, <2>2, InFlightType DEF BulkFailed, Restart
    <3> QED
      BY <1>1, <3>1, <3>2, BulkStaysExecuted
  <2>3. CASE UNCHANGED docs
    BY <1>1, <2>3 DEF Executed
  <2>4. ASSUME NEW s \in Shards, NEW b \in Blocks, SaveBlock(s, b) PROVE UNCHANGED docs
    BY <2>4 DEF SaveBlock
  <2>5. ASSUME NEW s \in Shards,
               \/ RevertIndexedBlock(s) \/ Start(s) \/ SendBulk(s)
               \/ AccountsFailed(s) \/ Complete(s)
        PROVE  UNCHANGED docs
    BY <2>5 DEF RevertIndexedBlock, Start, SendBulk, AccountsFailed, Complete
  <2>6. UNCHANGED vars => UNCHANGED docs
    BY DEF vars
  <2> QED
    BY <1>1, <2>1, <2>2, <2>3, <2>4, <2>5, <2>6 DEF Next, Node, Worker
<1>2. TypeOK /\ [Next]_vars
        => [\A t \in Txs : Cross(t) /\ NeverInvalid(t) /\ Executed(t) => Executed(t)']_vars
  BY <1>1
<1> QED
  BY <1>2, TypeCorrect, PTL DEF Spec, StaysExecuted

-----------------------------------------------------------------------------
(* The promise to the readers of the index (TransactionsIndex). *)

\* What the promise says of documents is what the implementation says of them.
LEMMA SameWords ==
  /\ Promise!Doc = Doc /\ Promise!NoDoc = NoDoc
  /\ \A b : Promise!InsertedBy(b) = InsertedBy(b) /\ Promise!ToIndex(b) = ToIndex(b)
  /\ \A t : Promise!Cross(t) = Cross(t) /\ Promise!NeverInvalid(t) = NeverInvalid(t)
  /\ \A b, t : Promise!IntraShardOrInvalid(b, t) = IntraShardOrInvalid(b, t)
  /\ \A b, t : Promise!CrossShardDstMe(b, t) = CrossShardDstMe(b, t)
  /\ \A b, t, d : Promise!Written(b, t, d) = Written(b, t, d)
<1>1. Promise!Doc = Doc /\ Promise!NoDoc = NoDoc
  BY DEF Promise!Doc, Doc, Promise!NoDoc, NoDoc
<1>2. \A b : Promise!InsertedBy(b) = InsertedBy(b)
  BY DEF Promise!InsertedBy, InsertedBy
<1>3. \A b : Promise!ToIndex(b) = ToIndex(b)
  BY DEF Promise!ToIndex, ToIndex
<1>4. \A t : Promise!Cross(t) = Cross(t) /\ Promise!NeverInvalid(t) = NeverInvalid(t)
  BY DEF Promise!Cross, Cross, Promise!NeverInvalid, NeverInvalid
<1>5. \A b, t : Promise!IntraShardOrInvalid(b, t) = IntraShardOrInvalid(b, t)
  BY <1>4 DEF Promise!IntraShardOrInvalid, IntraShardOrInvalid
<1>6. \A b, t : Promise!CrossShardDstMe(b, t) = CrossShardDstMe(b, t)
  BY <1>4 DEF Promise!CrossShardDstMe, CrossShardDstMe
<1>7. \A b, t, d : Promise!Written(b, t, d) = Written(b, t, d)
  BY <1>1, <1>2, <1>5, <1>6 DEF Promise!Written, Written
<1> QED
  BY <1>1, <1>2, <1>3, <1>4, <1>5, <1>6, <1>7

LEMMA CurrentKept ==
  ASSUME \A r \in Shards : /\ working'[r] = working[r]
                           /\ working[r] => InHand(r)' = InHand(r)
  PROVE  Current' = Current
BY DEF Current

LEMMA CurrentMoves ==
  ASSUME NEW s \in Shards,
         \A r \in Shards \ {s} : /\ working'[r] = working[r]
                                 /\ working[r] => InHand(r)' = InHand(r)
  PROVE  Current' = [Current EXCEPT ![s] = IF working'[s] THEN InHand(s)' ELSE NoBlock]
BY DEF Current

LEMMA CurrentType ==
  ASSUME TypeOK, NEW s \in Shards, working[s]
  PROVE  /\ Current[s] = InHand(s) /\ InHand(s) \in Blocks /\ shardOf[InHand(s)] = s
         /\ Current[s] # NoBlock
<1>1. blocks[s] # <<>>
  BY DEF TypeOK
<1> QED
  BY <1>1, InHandType, ShapeAssumption DEF Current

\* A bulk, done in full or in part, writes documents of the block in hand.
LEMMA BulkWritesSome ==
  ASSUME TypeOK, NEW s \in Shards, working[s],
         NEW ts \in SUBSET inFlight[s], Write(s, InHand(s), ts)
  PROVE  /\ docs' \in [Txs -> Doc]
         /\ \A t \in Txs : \/ docs'[t] = docs[t]
                           \/ t \in ToIndex(Current[s]) /\ docs'[t] = Written(Current[s], t, docs[t])
<1>1. Current[s] = InHand(s) /\ InHand(s) \in Blocks /\ ts \in SUBSET Txs
  BY CurrentType DEF TypeOK
<1>2. docs' \in [Txs -> Doc]
  BY <1>1, WriteType
<1>3. ts \subseteq ToIndex(Current[s])
  BY <1>1, InFlightType
<1> QED
  BY <1>1, <1>2, <1>3 DEF Write

LEMMA SomeWritten ==
  ASSUME NEW s \in Shards, docs' \in [Txs -> Doc],
         \A t \in Txs :
           \/ docs'[t] = docs[t]
           \/ t \in ToIndex(Current[s]) /\ docs'[t] = Written(Current[s], t, docs[t])
  PROVE  Promise!WriteSome(s)
BY SameWords DEF Promise!WriteSome

LEMMA InitPromised == Init => Promise!Init
<1> SUFFICES ASSUME Init PROVE Promise!Init
  OBVIOUS
<1>1. Current = [s \in Shards |-> NoBlock]
  BY DEF Init, Current
<1> QED
  BY <1>1 DEF Init, Promise!Init, Promise!NoDoc, NoDoc, Current

\* Every step is one of the promise, or does not show.
LEMMA NextPromised ==
  ASSUME ~ItemConflicts, TypeOK, IndexingInv, [Next]_vars
  PROVE  [Promise!Next]_(Promise!vars)
<1> USE DEF queueVars, historyVars
<1> DEFINE Quiet == Current' = Current /\ UNCHANGED <<docs, lastIndexed>>
<1>0. Quiet => UNCHANGED Promise!vars
  BY DEF Promise!vars, Current
<1>1. ASSUME NEW s \in Shards, NEW b \in Blocks, SaveBlock(s, b) PROVE Quiet
  <2>1. ASSUME NEW r \in Shards, working[r] PROVE InHand(r)' = InHand(r)
    <3>1. blocks[r] # <<>> /\ blocks[r] \in Seq(Blocks)
      BY <2>1 DEF TypeOK
    <3>2. blocks'[r] = IF r = s THEN Append(blocks[r], b) ELSE blocks[r]
      BY <1>1 DEF SaveBlock, TypeOK
    <3> QED
      BY <3>1, <3>2, AppendFacts DEF InHand
  <2> QED
    BY <1>1, <2>1, CurrentKept DEF SaveBlock
<1>2. ASSUME NEW s \in Shards, RevertIndexedBlock(s) \/ SendBulk(s) \/ AccountsFailed(s)
      PROVE  Quiet
  BY <1>2, CurrentKept DEF RevertIndexedBlock, SendBulk, AccountsFailed, InHand
<1>3. ASSUME NEW s \in Shards, Start(s) PROVE Promise!Begin(s)
  <2>1. InHand(s) \in Blocks /\ shardOf[InHand(s)] = s
    BY <1>3, InHandType DEF Start
  <2>2. working' = [working EXCEPT ![s] = TRUE] /\ ~working[s] /\ working \in [Shards -> BOOLEAN]
    BY <1>3 DEF Start, TypeOK
  <2>3. \A r \in Shards : InHand(r)' = InHand(r)
    BY <1>3 DEF Start, InHand
  <2>4. Current[s] = NoBlock /\ Current' = [Current EXCEPT ![s] = InHand(s)]
    BY <2>2, <2>3, CurrentMoves DEF Current
  <2>5. UNCHANGED <<docs, lastIndexed>>
    BY <1>3 DEF Start
  <2> QED
    BY <2>1, <2>4, <2>5 DEF Promise!Begin, Current
<1>4. ASSUME NEW s \in Shards, BulkAnswered(s) \/ BulkFailed(s) PROVE Promise!Write(s)
  <2>1. PICK ts \in SUBSET inFlight[s] : Write(s, InHand(s), ts)
    BY <1>4 DEF BulkAnswered, BulkFailed, Effective
  <2>2. working[s] /\ UNCHANGED <<blocks, working, lastIndexed>>
    BY <1>4, InFlightType DEF BulkAnswered, BulkFailed
  <2>3. Current' = Current
    BY <2>2, CurrentKept DEF InHand
  <2>4. Current[s] # NoBlock
    BY <2>2, CurrentType
  <2>5. /\ docs' \in [Txs -> Doc]
        /\ \A t \in Txs : \/ docs'[t] = docs[t]
                          \/ t \in ToIndex(Current[s]) /\ docs'[t] = Written(Current[s], t, docs[t])
    BY <2>1, <2>2, BulkWritesSome
  <2>6. Promise!WriteSome(s)
    BY <2>5, SomeWritten
  <2> QED
    BY <2>2, <2>3, <2>4, <2>6 DEF Promise!Write
<1>5. ASSUME NEW s \in Shards, Complete(s) PROVE Promise!Report(s)
  <2>1. working[s] /\ pending[s] = {} /\ inFlight[s] = {} /\ docs' = docs
    BY <1>5 DEF Complete, AllSent
  <2>2. Current[s] = InHand(s) /\ InHand(s) \in Blocks /\ Current[s] # NoBlock
    BY <2>1, CurrentType
  <2>3. ASSUME NEW t \in ToIndex(Current[s])
        PROVE  /\ docs[t] # NoDoc
               /\ ~Cross(t) => docs[t] = InsertedBy(Current[s])
               /\ CrossShardDstMe(Current[s], t) /\ NeverInvalid(t) => docs[t].fields = Current[s]
    <3>1. t \in Txs
      BY <2>2, ToIndexType
    <3>2. Done(s, t)
      BY <2>1, <2>2 DEF Done
    <3>3. Shows(InHand(s), t, docs[t])
      BY <3>1, <3>2 DEF IndexingInv
    <3> QED
      BY <2>2, <3>3 DEF Shows, CrossShardDstMe
  <2>4. Current' = [Current EXCEPT ![s] = NoBlock]
    <3>1. ~working'[s]
      BY <1>5 DEF Complete, TypeOK
    <3>2. ASSUME NEW r \in Shards, r # s
          PROVE  working'[r] = working[r] /\ InHand(r)' = InHand(r)
      BY <1>5, <3>2 DEF Complete, InHand, TypeOK
    <3> QED
      BY <3>1, <3>2, CurrentMoves
  <2>5. lastIndexed' = [lastIndexed EXCEPT ![s] =
          [t \in Txs |-> IF t \in ToIndex(Current[s]) THEN Current[s] ELSE @[t]]]
    BY <1>5, <2>2 DEF Complete
  <2> QED
    BY <2>1, <2>2, <2>3, <2>4, <2>5, SameWords
    DEF Promise!Report, Promise!Shows
<1>6. ASSUME NEW s \in Shards, Restart(s) PROVE Promise!Lose(s) \/ Quiet
  <2>1. PICK ts \in SUBSET inFlight[s] : Write(s, InHand(s), ts)
    BY <1>6 DEF Restart, Effective
  <2>2. /\ ~working'[s] /\ UNCHANGED lastIndexed
        /\ \A r \in Shards \ {s} : working'[r] = working[r] /\ InHand(r)' = InHand(r)
    BY <1>6 DEF Restart, InHand, TypeOK
  <2>3. Current' = [Current EXCEPT ![s] = NoBlock]
    BY <2>2, CurrentMoves
  <2>4. CASE working[s]
    <3>1. Current[s] # NoBlock
      BY <2>4, CurrentType
    <3>2. /\ docs' \in [Txs -> Doc]
          /\ \A t \in Txs : \/ docs'[t] = docs[t]
                            \/ t \in ToIndex(Current[s]) /\ docs'[t] = Written(Current[s], t, docs[t])
      BY <2>1, <2>4, BulkWritesSome
    <3>3. Promise!WriteSome(s)
      BY <3>2, SomeWritten
    <3> QED
      BY <2>2, <2>3, <3>1, <3>3 DEF Promise!Lose
  <2>5. CASE ~working[s]
    <3>1. ts = {}
      BY <2>5, InFlightType
    <3>2. docs' = docs
      BY <2>1, <3>1 DEF Write, TypeOK
    <3>3. Current' = Current
      BY <2>3, <2>5 DEF Current
    <3> QED
      BY <2>2, <3>2, <3>3
  <2> QED
    BY <2>4, <2>5
<1>7. UNCHANGED vars => Quiet
  BY CurrentKept DEF vars, InHand
<1> HIDE DEF Quiet
<1>8. ASSUME NEW s \in Shards, Node(s) \/ Restart(s) \/ Worker(s)
      PROVE  Quiet \/ Promise!Begin(s) \/ Promise!Write(s) \/ Promise!Report(s) \/ Promise!Lose(s)
  BY <1>1, <1>2, <1>3, <1>4, <1>5, <1>6, <1>8 DEF Node, Worker
<1>9. ASSUME Next PROVE Quiet \/ Promise!Next
  <2>1. PICK s \in Shards : Node(s) \/ Restart(s) \/ Worker(s)
    BY <1>9 DEF Next
  <2> QED
    BY <2>1, <1>8 DEF Promise!Next
<1> QED
  BY <1>0, <1>7, <1>9

\* Without item conflicts, the index of transactions keeps its promise: whatever
\* bulks the documents of a block are sent in, however many of them fail and
\* are repeated and whatever the other shards' nodes write meanwhile, a block is
\* completed only when its documents show it.
THEOREM KeepsThePromise ==
  ASSUME ~ItemConflicts
  PROVE  Spec => ImplementsTransactionsIndex
<1>1. TypeOK /\ IndexingInv /\ [Next]_vars => [Promise!Next]_(Promise!vars)
  BY NextPromised
<1> QED
  BY <1>1, Invariance, InitPromised, PTL DEF Spec, Promise!Spec, ImplementsTransactionsIndex
=============================================================================
