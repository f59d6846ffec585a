------------------------- MODULE IndexerNodeProofs -------------------------
(***************************************************************************)
(* Proofs about IndexerNode for every set of producers and items, every    *)
(* choice of enabled indexes and of the calls behind the items, and any    *)
(* history of outages: what DispatcherProofs proves of the dispatcher      *)
(* holds of the node, and the database is what the saved items wrote.      *)
(***************************************************************************)
EXTENDS IndexerNode, DispatcherProofs

(* Every step of the node is a step of its dispatcher. *)

LEMMA NextNodeRefines == [NodeNext]_nodeVars => [Next]_vars
<1> SUFFICES ASSUME [NodeNext]_nodeVars PROVE [Next]_vars
  OBVIOUS
<1> USE DEF Next, Worker
<1>1. CASE NodeStart
  BY <1>1 DEF NodeStart
<1>2. CASE AddCall
  BY <1>2
<1>3. ASSUME NEW p \in Producers, NodeAddReturn(p)
      PROVE  [Next]_vars
  BY <1>3 DEF NodeAddReturn
<1>4. CASE NodeReceive
  BY <1>4 DEF NodeReceive
<1>5. CASE NodeWake
  BY <1>5 DEF NodeWake
<1>6. CASE DoRequest
  <2>1. PICK request \in Head(todo) : Send(request) \/ Get(request)
    BY <1>6 DEF DoRequest
  <2>2. CASE Get(request)
    BY <2>2 DEF Get
  <2>3. CASE Send(request)
    <3>1. GoOn(request) \/ \E outcome : GiveUp(outcome)
      BY <2>3 DEF Send
    <3> QED
      BY <3>1 DEF GoOn, GiveUp
  <2> QED
    BY <2>1, <2>2, <2>3
<1>7. CASE NodeSaveSucceeds
  BY <1>7 DEF NodeSaveSucceeds
<1>8. CASE Stop
  BY <1>8
<1>9. CASE Close
  BY <1>9
<1>10. CASE UNCHANGED nodeVars
  BY <1>10 DEF nodeVars
<1> QED
  BY <1>1, <1>2, <1>3, <1>4, <1>5, <1>6, <1>7, <1>8, <1>9, <1>10 DEF NodeNext, NodeWorker

\* The node's indexer is the dispatcher with the outcomes its items really have:
\* no request, answer or outage takes doWork or the channel off their course.
THEOREM NodeImplements == NodeSpec => Spec
<1>1. NodeInit => Init
  BY DEF NodeInit
<1> QED
  BY <1>1, NextNodeRefines, PTL DEF NodeSpec, Spec

\* The items of a node are saved in the order of its calls, each once, whatever
\* the requests behind them answer.
THEOREM NodeInOrder == NodeSpec => []NothingLostOrReordered
  BY NodeImplements, InOrder, PTL

\* The node's indexer is the sequential indexing the dispatcher promises.
THEOREM NodeIsSequential == NodeSpec => Promise!Spec
  BY NodeImplements, Implements, PTL

-----------------------------------------------------------------------------
(* The requests of an attempt. *)

Vias == {"index", "get", "bulk", "emptyBulk", "delete", "none"}

\* What a request made for an item may be: it removes records the item is to
\* remove, or writes some it is to write; a get and a failure write none.
RequestsFor(item) ==
  {q \in [via : Vias, index : Indexes, ids : SUBSET {r[2] : r \in Touched(item)}] :
     /\ Written(q) \subseteq (IF q.via = "delete" THEN RemovedBy(item) \ RecordsOf(item)
                              ELSE RecordsOf(item))
     /\ q.via \in {"get", "emptyBulk", "none"} => q.ids = {}}

\* A multi get is alone and followed by the bulk it is for.
GetThenBulk(seq) ==
  \A k \in 1..Len(seq) : \A q \in seq[k] :
    q.via = "get" => /\ seq[k] = {q}
                     /\ k < Len(seq)
                     /\ seq[k + 1] = {Bulk("miniblocks", {})}

Sound(item, seq) == seq \in Seq(SUBSET RequestsFor(item)) /\ GetThenBulk(seq)

Pending(seq, r) == \E k \in 1..Len(seq) : \E q \in seq[k] : r \in Written(q)
Covers(seq, records) == \A r \in records : Pending(seq, r)

LEMMA RequestIsSound ==
  ASSUME NEW item, NEW via \in Vias, NEW index \in Indexes, NEW ids,
         {index} \X ids \subseteq (IF via = "delete" THEN RemovedBy(item) \ RecordsOf(item)
                                   ELSE RecordsOf(item)),
         via \in {"get", "emptyBulk", "none"} => ids = {}
  PROVE  /\ Request(via, index, ids) \in RequestsFor(item)
         /\ Written(Request(via, index, ids)) = {index} \X ids
<1> DEFINE q == Request(via, index, ids)
<1>1. q.via = via /\ q.index = index /\ q.ids = ids
  BY DEF Request
<1>2. Written(q) = {index} \X ids
  BY <1>1 DEF Written
<1>3. \A x \in ids : x \in {r[2] : r \in Touched(item)}
  <2> TAKE x \in ids
  <2>1. <<index, x>> \in Touched(item)
    BY DEF Touched
  <2> QED
    BY <2>1, <<index, x>>[2] = x
<1>4. q \in [via : Vias, index : Indexes, ids : SUBSET {r[2] : r \in Touched(item)}]
  BY <1>3 DEF Request
<1> QED
  BY <1>1, <1>2, <1>4 DEF RequestsFor

LEMMA EmptyFacts == \A item : Sound(item, <<>>) /\ Covers(<<>>, {})
  BY DEF Sound, Covers, GetThenBulk

LEMMA OneFacts ==
  ASSUME NEW item, NEW set \in SUBSET RequestsFor(item), \A q \in set : q.via # "get"
  PROVE  Sound(item, <<set>>) /\ Covers(<<set>>, UNION {Written(q) : q \in set})
<1>1. <<set>> \in Seq(SUBSET RequestsFor(item)) /\ Len(<<set>>) = 1 /\ <<set>>[1] = set
  OBVIOUS
<1> QED
  BY <1>1 DEF Sound, Covers, GetThenBulk, Pending

LEMMA ConcatFacts ==
  ASSUME NEW item, NEW s, NEW t, NEW R, NEW T,
         Sound(item, s), Sound(item, t), Covers(s, R), Covers(t, T)
  PROVE  Sound(item, s \o t) /\ Covers(s \o t, R \cup T)
<1> DEFINE st == s \o t
<1>1. /\ s \in Seq(SUBSET RequestsFor(item)) /\ t \in Seq(SUBSET RequestsFor(item))
      /\ Len(s) \in Nat /\ Len(t) \in Nat
  BY DEF Sound
<1>2. /\ st \in Seq(SUBSET RequestsFor(item))
      /\ Len(st) = Len(s) + Len(t)
      /\ \A k \in 1..Len(s) : st[k] = s[k]
      /\ \A k \in 1..Len(t) : st[Len(s) + k] = t[k]
  BY <1>1
<1> HIDE DEF st
<1>3. ASSUME NEW r \in R \cup T
      PROVE  Pending(st, r)
  <2>1. CASE r \in R
    <3>1. PICK k \in 1..Len(s) : \E q \in s[k] : r \in Written(q)
      BY <2>1 DEF Covers, Pending
    <3> QED
      BY <3>1, <1>1, <1>2 DEF Pending
  <2>2. CASE r \in T
    <3>1. PICK k \in 1..Len(t) : \E q \in t[k] : r \in Written(q)
      BY <2>2 DEF Covers, Pending
    <3>2. Len(s) + k \in 1..Len(st) /\ st[Len(s) + k] = t[k]
      BY <1>1, <1>2
    <3> QED
      BY <3>1, <3>2 DEF Pending
  <2> QED
    BY <2>1, <2>2
<1>4. ASSUME NEW k \in 1..Len(st), NEW q \in st[k], q.via = "get"
      PROVE  st[k] = {q} /\ k < Len(st) /\ st[k + 1] = {Bulk("miniblocks", {})}
  <2>1. CASE k \in 1..Len(s)
    <3>1. s[k] = {q} /\ k < Len(s) /\ s[k + 1] = {Bulk("miniblocks", {})}
      BY <2>1, <1>2, <1>4 DEF Sound, GetThenBulk
    <3>2. k + 1 \in 1..Len(s)
      BY <2>1, <3>1, <1>1
    <3> QED
      BY <2>1, <3>1, <3>2, <1>1, <1>2
  <2>2. CASE k \notin 1..Len(s)
    <3>1. PICK j \in 1..Len(t) : k = Len(s) + j
      <4>1. k - Len(s) \in 1..Len(t) /\ k = Len(s) + (k - Len(s))
        BY <2>2, <1>1, <1>2
      <4> QED
        BY <4>1
    <3>2. t[j] = {q} /\ j < Len(t) /\ t[j + 1] = {Bulk("miniblocks", {})}
      BY <3>1, <1>2, <1>4 DEF Sound, GetThenBulk
    <3>3. j + 1 \in 1..Len(t) /\ k + 1 = Len(s) + (j + 1)
      BY <3>1, <3>2, <1>1
    <3> QED
      BY <3>1, <3>2, <3>3, <1>1, <1>2
  <2> QED
    BY <2>1, <2>2
<1> QED
  BY <1>2, <1>3, <1>4 DEF Sound, Covers, GetThenBulk, st

LEMMA OneRequest ==
  ASSUME NEW item, NEW via \in Vias \ {"get"}, NEW index \in Indexes, NEW ids,
         {index} \X ids \subseteq (IF via = "delete" THEN RemovedBy(item) \ RecordsOf(item)
                                   ELSE RecordsOf(item)),
         via \in {"emptyBulk", "none"} => ids = {}
  PROVE  /\ Sound(item, <<{Request(via, index, ids)}>>)
         /\ Covers(<<{Request(via, index, ids)}>>, {index} \X ids)
<1> DEFINE q == Request(via, index, ids)
<1>1. q \in RequestsFor(item) /\ Written(q) = {index} \X ids
  BY RequestIsSound
<1>2. q.via # "get"
  BY DEF Request
<1> HIDE DEF q
<1>3. {q} \in SUBSET RequestsFor(item) /\ \A p \in {q} : p.via # "get"
  BY <1>1, <1>2
<1>4. Sound(item, <<{q}>>) /\ Covers(<<{q}>>, UNION {Written(p) : p \in {q}})
  BY <1>3, OneFacts
<1>5. UNION {Written(p) : p \in {q}} = {index} \X ids
  BY <1>1
<1> QED
  BY <1>4, <1>5 DEF q

\* The parts of a Save that look at the enabled indexes.
Part(index, records) == IF index \in enabledIndexes THEN records ELSE {}

LEMMA IfEnabledFacts ==
  ASSUME NEW item, NEW index, NEW seq, NEW R,
         index \in enabledIndexes => Sound(item, seq) /\ Covers(seq, R)
  PROVE  /\ Sound(item, IfEnabled(index, seq))
         /\ Covers(IfEnabled(index, seq), Part(index, R))
  BY EmptyFacts DEF IfEnabled, Part

AccountRecords(accounts, time) ==
  Part("accounts",
       ({"accounts"} \X accounts)
       \cup Part("accountshistory", {"accountshistory"} \X (accounts \X {time})))

\* What RecordsOf is for each method.
LEMMA RecordsOfEach ==
  ASSUME NEW item, NEW call, call = calls[item]
  PROVE  /\ call.method = "SaveBlock" =>
              RecordsOf(item) =
                IF call.header = NilHeader \/ call.body = "notABody" THEN {}
                ELSE Part("blocks", {<<"blocks", call.header>>})
                     \cup (IF call.body = "miniblocks"
                           THEN Part("transactions", AccountRecords(call.accounts, call.time))
                           ELSE {})
         /\ call.method = "RevertIndexedBlock" => RecordsOf(item) = {}
         /\ call.method = "SaveAccounts" => RecordsOf(item) = AccountRecords(call.accounts, call.time)
         /\ call.method = "SaveRoundsInfo" => RecordsOf(item) = Part("rounds", {"rounds"} \X call.rounds)
         /\ call.method = "SaveValidatorsRating" =>
              RecordsOf(item) = Part("rating", {<<"rating", call.indexID>>})
         /\ call.method = "SaveValidatorsPubKeys" =>
              RecordsOf(item) = Part("validators", {"validators"} \X (call.shards \X {call.epoch}))
         /\ call.method = "RevertIndexedBlock" => RemovedBy(item) = {<<"blocks", call.header>>}
         /\ call.method # "RevertIndexedBlock" => RemovedBy(item) = {}
<1> USE DEF RecordsOf, Part
<1> DEFINE written == enabledIndexes \ (IF "accounts" \in enabledIndexes THEN {} ELSE {"accountshistory"})
           accounts(set, time) == ({"accounts"} \X set) \cup ({"accountshistory"} \X (set \X {time}))
<1>0. \A set, time : {r \in accounts(set, time) : r[1] \in written} = AccountRecords(set, time)
  BY DEF AccountRecords
<1>1. CASE call.method = "SaveBlock"
  <2> DEFINE block == {<<"blocks", call.header>>}
             others == IF call.body = "miniblocks" /\ "transactions" \in enabledIndexes
                       THEN accounts(call.accounts, call.time) ELSE {}
  <2>1. CASE call.header = NilHeader \/ call.body = "notABody"
    BY <1>1, <2>1 DEF RemovedBy
  <2>2. CASE ~(call.header = NilHeader \/ call.body = "notABody")
    <3>1. RecordsOf(item) = {r \in block \cup others : r[1] \in written}
      BY <1>1, <2>2
    <3>2. {r \in block : r[1] \in written} = Part("blocks", block)
      OBVIOUS
    <3>3. {r \in others : r[1] \in written}
            = IF call.body = "miniblocks"
              THEN Part("transactions", AccountRecords(call.accounts, call.time)) ELSE {}
      BY <1>0
    <3>4. {r \in block \cup others : r[1] \in written}
            = {r \in block : r[1] \in written} \cup {r \in others : r[1] \in written}
      OBVIOUS
    <3> HIDE DEF block, others
    <3>5. RecordsOf(item)
            = Part("blocks", block)
              \cup (IF call.body = "miniblocks"
                    THEN Part("transactions", AccountRecords(call.accounts, call.time)) ELSE {})
      BY <3>1, <3>2, <3>3, <3>4
    <3> QED
      BY <1>1, <2>2, <3>5 DEF block, RemovedBy
  <2> QED
    BY <2>1, <2>2
<1>2. CASE call.method = "RevertIndexedBlock"
  BY <1>2 DEF RemovedBy
<1>3. CASE call.method = "SaveAccounts"
  <2>1. RecordsOf(item) = {r \in accounts(call.accounts, call.time) : r[1] \in written}
    BY <1>3
  <2> QED
    BY <1>0, <1>3, <2>1 DEF RemovedBy
<1>4. CASE call.method = "SaveRoundsInfo"
  BY <1>4 DEF RemovedBy
<1>5. CASE call.method = "SaveValidatorsRating"
  BY <1>5 DEF RemovedBy
<1>6. CASE call.method = "SaveValidatorsPubKeys"
  BY <1>6 DEF RemovedBy
<1>7. CASE call.method \notin {"SaveBlock", "RevertIndexedBlock", "SaveAccounts", "SaveRoundsInfo",
                               "SaveValidatorsRating", "SaveValidatorsPubKeys"}
  BY <1>7 DEF RemovedBy
<1> QED
  BY <1>1, <1>2, <1>3, <1>4, <1>5, <1>6, <1>7

-----------------------------------------------------------------------------
(* An attempt at an item makes requests for all its records. *)

ConfigOK == enabledIndexes \subseteq Indexes /\ \A item \in Items : IsCall(calls[item])

Complete(item, seq, records) == Sound(item, seq) /\ Covers(seq, records)

LEMMA CompleteConcat ==
  ASSUME NEW item, NEW s, NEW t, NEW R, NEW T, Complete(item, s, R), Complete(item, t, T)
  PROVE  Complete(item, s \o t, R \cup T)
  BY ConcatFacts DEF Complete

LEMMA CompleteIfEnabled ==
  ASSUME NEW item, NEW index, NEW seq, NEW R,
         index \in enabledIndexes => Complete(item, seq, R)
  PROVE  Complete(item, IfEnabled(index, seq), Part(index, R))
  BY IfEnabledFacts DEF Complete

LEMMA CompleteEmpty == \A item : Complete(item, <<>>, {})
  BY EmptyFacts DEF Complete

LEMMA CompleteWrite ==
  ASSUME NEW item, NEW via \in {"index", "bulk"}, NEW index \in Indexes, NEW ids,
         {index} \X ids \subseteq RecordsOf(item)
  PROVE  Complete(item, <<{Request(via, index, ids)}>>, {index} \X ids)
  BY OneRequest DEF Complete, Vias

\* Requests that write no record of this model, and a failure in place of one.
LEMMA CompleteOther ==
  ASSUME NEW item, NEW via \in {"bulk", "emptyBulk", "delete", "none"}, NEW index \in Indexes
  PROVE  Complete(item, <<{Request(via, index, {})}>>, {})
<1>1. {index} \X {} = {}
  OBVIOUS
<1>2. via \in Vias \ {"get"}
  BY DEF Vias
<1> QED
  BY <1>1, <1>2, OneRequest DEF Complete

LEMMA FailureComplete == \A item : Complete(item, <<{Failure}>>, {})
<1>1. "blocks" \in Indexes
  BY DEF Indexes
<1> QED
  BY <1>1, CompleteOther DEF Failure

LEMMA AccountsComplete ==
  ASSUME NEW item, NEW accounts, NEW time,
         AccountRecords(accounts, time) \subseteq RecordsOf(item)
  PROVE  Complete(item, SaveAccounts(accounts, time), AccountRecords(accounts, time))
<1> DEFINE balances == {"accounts"} \X accounts
           history == {"accountshistory"} \X (accounts \X {time})
           first == <<{Bulk("accounts", accounts)}>>
           second == IfEnabled("accountshistory", <<{Bulk("accountshistory", accounts \X {time})}>>)
<1>0. "accounts" \in Indexes /\ "accountshistory" \in Indexes
  BY DEF Indexes
<1>1. CASE accounts = {}
  <2>1. AccountRecords(accounts, time) = {}
    BY <1>1 DEF AccountRecords, Part
  <2> QED
    BY <1>1, <2>1, CompleteEmpty DEF SaveAccounts
<1>2. CASE accounts # {}
  <2>1. ASSUME "accounts" \in enabledIndexes
        PROVE  Complete(item, first \o second, balances \cup Part("accountshistory", history))
    <3>1. balances \subseteq RecordsOf(item) /\ Part("accountshistory", history) \subseteq RecordsOf(item)
      BY <2>1 DEF AccountRecords, Part
    <3>2. Complete(item, first, balances)
      BY <3>1, <1>0, CompleteWrite DEF Bulk
    <3>3. ASSUME "accountshistory" \in enabledIndexes
          PROVE  Complete(item, <<{Bulk("accountshistory", accounts \X {time})}>>, history)
      <4>1. history \subseteq RecordsOf(item)
        BY <3>1, <3>3 DEF Part
      <4> QED
        BY <4>1, <1>0, CompleteWrite DEF Bulk
    <3>4. Complete(item, second, Part("accountshistory", history))
      BY <3>3, CompleteIfEnabled
    <3> HIDE DEF first, second, balances, history
    <3> QED
      BY <3>2, <3>4, CompleteConcat
  <2>2. Complete(item, IfEnabled("accounts", first \o second),
                 Part("accounts", balances \cup Part("accountshistory", history)))
    <3> HIDE DEF first, second, balances, history
    <3> QED
      BY <2>1, CompleteIfEnabled
  <2> QED
    BY <1>2, <2>2 DEF SaveAccounts, AccountRecords
<1> QED
  BY <1>1, <1>2

LEMMA MiniblocksComplete == \A item : Complete(item, SaveMiniblocks, {})
<1> SUFFICES ASSUME NEW item PROVE Complete(item, SaveMiniblocks, {})
  OBVIOUS
<1> DEFINE get == MultiGet("miniblocks")
           bulk == Bulk("miniblocks", {})
           seq == <<{get}, {bulk}>>
<1>1. "miniblocks" \in Indexes /\ {"miniblocks"} \X {} = {}
  BY DEF Indexes
<1>2. get \in RequestsFor(item) /\ bulk \in RequestsFor(item)
  BY <1>1, RequestIsSound DEF MultiGet, Bulk, Vias
<1>3. get.via = "get" /\ bulk.via = "bulk"
  BY DEF MultiGet, Bulk, Request
<1> HIDE DEF get
<1>4. seq \in Seq(SUBSET RequestsFor(item)) /\ Len(seq) = 2 /\ seq[1] = {get} /\ seq[2] = {bulk}
  BY <1>2
<1>5. GetThenBulk(seq)
  <2> SUFFICES ASSUME NEW k \in 1..Len(seq), NEW q \in seq[k], q.via = "get"
               PROVE  seq[k] = {q} /\ k < Len(seq) /\ seq[k + 1] = {bulk}
    BY DEF GetThenBulk
  <2> HIDE DEF bulk, seq
  <2>1. k = 1 \/ k = 2
    BY <1>4
  <2> QED
    BY <2>1, <1>3, <1>4
<1>6. Complete(item, seq, {})
  BY <1>4, <1>5 DEF Complete, Sound, Covers
<1>7. Part("miniblocks", {}) = {}
  BY DEF Part
<1> QED
  BY <1>6, <1>7, CompleteIfEnabled DEF SaveMiniblocks, get

LEMMA TransactionsComplete ==
  ASSUME NEW item, NEW call, call.bulks \in Nat,
         Part("transactions", AccountRecords(call.accounts, call.time)) \subseteq RecordsOf(item)
  PROVE  Complete(item, SaveTransactions(call),
                  Part("transactions", AccountRecords(call.accounts, call.time)))
<1> DEFINE bulk == Bulk("transactions", {})
           bulks == [k \in 1..call.bulks |-> {bulk}]
           records == AccountRecords(call.accounts, call.time)
<1>1. "transactions" \in Indexes /\ {"transactions"} \X {} = {}
  BY DEF Indexes
<1>2. bulk \in RequestsFor(item)
  BY <1>1, RequestIsSound DEF Bulk, Vias
<1>3. bulk.via = "bulk"
  BY DEF Bulk, Request
<1>4. Complete(item, bulks, {})
  <2> HIDE DEF bulk
  <2>1. bulks \in Seq(SUBSET RequestsFor(item)) /\ \A k \in 1..Len(bulks) : bulks[k] = {bulk}
    BY <1>2
  <2> QED
    BY <2>1, <1>3 DEF Complete, Sound, Covers, GetThenBulk
<1>5. ASSUME "transactions" \in enabledIndexes
      PROVE  Complete(item, bulks \o SaveAccounts(call.accounts, call.time), records)
  <2>1. records \subseteq RecordsOf(item)
    BY <1>5 DEF Part
  <2>2. Complete(item, SaveAccounts(call.accounts, call.time), records)
    BY <2>1, AccountsComplete
  <2>3. {} \cup records = records
    OBVIOUS
  <2> HIDE DEF bulks, records
  <2>4. Complete(item, bulks \o SaveAccounts(call.accounts, call.time), {} \cup records)
    BY <1>4, <2>2, CompleteConcat
  <2> QED
    BY <2>3, <2>4
<1>6. Complete(item, IfEnabled("transactions", bulks \o SaveAccounts(call.accounts, call.time)),
               Part("transactions", records))
  <2> HIDE DEF bulks, records
  <2> QED
    BY <1>5, CompleteIfEnabled
<1> QED
  BY <1>6 DEF SaveTransactions

LEMMA BlockComplete ==
  ASSUME NEW item, NEW call, call = calls[item], call.method = "SaveBlock",
         call.bulks \in Nat
  PROVE  Complete(item, SaveBlock(call), RecordsOf(item))
<1> DEFINE header == {<<"blocks", call.header>>}
           accounts == Part("transactions", AccountRecords(call.accounts, call.time))
           head == IfEnabled("blocks", <<{Index("blocks", call.header)}>>)
           body == SaveMiniblocks \o SaveTransactions(call)
           rest == IF call.body = "miniblocks" THEN body ELSE <<>>
           restRecords == IF call.body = "miniblocks" THEN accounts ELSE {}
<1>1. CASE call.header = NilHeader
  <2>1. RecordsOf(item) = {}
    BY <1>1, RecordsOfEach
  <2> QED
    BY <1>1, <2>1, CompleteEmpty DEF SaveBlock
<1>2. CASE call.header # NilHeader /\ call.body = "notABody"
  <2>1. RecordsOf(item) = {}
    BY <1>2, RecordsOfEach
  <2> QED
    BY <1>2, <2>1, FailureComplete DEF SaveBlock
<1>3. CASE call.header # NilHeader /\ call.body # "notABody"
  <2>1. RecordsOf(item) = Part("blocks", header) \cup restRecords
    BY <1>3, RecordsOfEach
  <2>2. ASSUME "blocks" \in enabledIndexes
        PROVE  Complete(item, <<{Index("blocks", call.header)}>>, header)
    <3>1. "blocks" \in Indexes /\ {"blocks"} \X {call.header} = header
      BY DEF Indexes
    <3>2. header \subseteq RecordsOf(item)
      BY <2>1, <2>2 DEF Part
    <3> HIDE DEF header
    <3>3. Complete(item, <<{Request("index", "blocks", {call.header})}>>, {"blocks"} \X {call.header})
      BY <3>1, <3>2, CompleteWrite
    <3> QED
      BY <3>1, <3>3 DEF Index
  <2>3. Complete(item, head, Part("blocks", header))
    <3> HIDE DEF header
    <3> QED
      BY <2>2, CompleteIfEnabled
  <2>4. Complete(item, rest, restRecords)
    <3>1. CASE call.body = "miniblocks"
      <4>1. accounts \subseteq RecordsOf(item)
        BY <2>1, <3>1
      <4>2. Complete(item, SaveTransactions(call), accounts)
        BY <4>1, TransactionsComplete
      <4>3. Complete(item, body, {} \cup accounts)
        <5> HIDE DEF accounts
        <5> QED
          BY <4>2, MiniblocksComplete, CompleteConcat
      <4>4. {} \cup accounts = accounts
        OBVIOUS
      <4> HIDE DEF accounts, body
      <4> QED
        BY <3>1, <4>3, <4>4
    <3>2. CASE call.body # "miniblocks"
      BY <3>2, CompleteEmpty
    <3> QED
      BY <3>1, <3>2
  <2>5. SaveBlock(call) = head \o rest
    BY <1>3 DEF SaveBlock
  <2> HIDE DEF head, rest, restRecords, header
  <2> QED
    BY <2>1, <2>3, <2>4, <2>5, CompleteConcat
<1> QED
  BY <1>1, <1>2, <1>3

LEMMA RevertComplete ==
  ASSUME NEW item, NEW call, call = calls[item], call.method = "RevertIndexedBlock",
         call.body \in BodyKinds
  PROVE  Complete(item, RevertIndexedBlock(call), RemovedBy(item))
<1> DEFINE header == <<{Delete("blocks", {call.header})}>>
           miniblocks == CASE call.body = "miniblocks" -> <<{Delete("miniblocks", {})}>>
                           [] call.body = "empty" -> <<>>
                           [] call.body = "notABody" -> <<{Failure}>>
<1>0. RecordsOf(item) = {} /\ RemovedBy(item) = {<<"blocks", call.header>>}
  BY RecordsOfEach
<1>1. RecordsOf(item) = {} /\ RemovedBy(item) = {"blocks"} \X {call.header}
  BY <1>0
<1>2. "blocks" \in Indexes /\ "miniblocks" \in Indexes
  BY DEF Indexes
<1>3. Complete(item, header, RemovedBy(item))
  <2>1. "delete" \in Vias \ {"get"}
    BY DEF Vias
  <2>2. {"blocks"} \X {call.header} \subseteq RemovedBy(item) \ RecordsOf(item)
    BY <1>1
  <2> QED
    BY <1>1, <1>2, <2>1, <2>2, OneRequest DEF Delete, Complete
<1>4. Complete(item, miniblocks, {})
  <2>1. Complete(item, <<{Delete("miniblocks", {})}>>, {})
    BY <1>2, CompleteOther DEF Delete
  <2> QED
    BY <2>1, FailureComplete, CompleteEmpty DEF BodyKinds
<1>5. Complete(item, header \o miniblocks, RemovedBy(item) \cup {})
  <2> HIDE DEF header, miniblocks
  <2> QED
    BY <1>3, <1>4, CompleteConcat
<1>6. RemovedBy(item) \cup {} = RemovedBy(item)
  OBVIOUS
<1> QED
  BY <1>5, <1>6 DEF RevertIndexedBlock

LEMMA RoundsComplete ==
  ASSUME NEW item, NEW call, call = calls[item], call.method = "SaveRoundsInfo"
  PROVE  Complete(item, SaveRoundsInfo(call), RecordsOf(item))
<1> DEFINE rounds == {"rounds"} \X call.rounds
<1>1. RecordsOf(item) = Part("rounds", rounds)
  BY RecordsOfEach
<1>2. "rounds" \in Indexes
  BY DEF Indexes
<1>3. ASSUME "rounds" \in enabledIndexes, call.rounds # {}
      PROVE  Complete(item, <<{Bulk("rounds", call.rounds)}>>, rounds)
  <2>1. rounds \subseteq RecordsOf(item)
    BY <1>1, <1>3 DEF Part
  <2> QED
    BY <1>2, <2>1, CompleteWrite DEF Bulk
<1>4. ASSUME call.rounds = {}
      PROVE  Complete(item, <<{EmptyBulk("rounds")}>>, rounds)
  <2>1. rounds = {}
    BY <1>4
  <2> QED
    BY <1>2, <2>1, CompleteOther DEF EmptyBulk
<1>5. Complete(item, SaveRoundsInfo(call), Part("rounds", rounds))
  <2> HIDE DEF rounds
  <2> QED
    BY <1>3, <1>4, CompleteIfEnabled DEF SaveRoundsInfo
<1> QED
  BY <1>1, <1>5

LEMMA RatingComplete ==
  ASSUME NEW item, NEW call, call = calls[item], call.method = "SaveValidatorsRating"
  PROVE  Complete(item, SaveValidatorsRating(call), RecordsOf(item))
<1> DEFINE rating == {<<"rating", call.indexID>>}
<1>1. RecordsOf(item) = Part("rating", rating)
  BY RecordsOfEach
<1>2. "rating" \in Indexes /\ {"rating"} \X {call.indexID} = rating
  BY DEF Indexes
<1>3. ASSUME "rating" \in enabledIndexes
      PROVE  Complete(item, <<{Index("rating", call.indexID)}>>, rating)
  <2>1. {"rating"} \X {call.indexID} \subseteq RecordsOf(item)
    BY <1>1, <1>2, <1>3 DEF Part
  <2>2. Complete(item, <<{Request("index", "rating", {call.indexID})}>>, {"rating"} \X {call.indexID})
    BY <1>2, <2>1, CompleteWrite
  <2> QED
    BY <1>2, <2>2 DEF Index
<1>4. Complete(item, SaveValidatorsRating(call), Part("rating", rating))
  <2> HIDE DEF rating
  <2> QED
    BY <1>3, CompleteIfEnabled DEF SaveValidatorsRating
<1> QED
  BY <1>1, <1>4

LEMMA ValidatorsComplete ==
  ASSUME NEW item, NEW call, call = calls[item], call.method = "SaveValidatorsPubKeys"
  PROVE  Complete(item, SaveValidatorsPubKeys(call), RecordsOf(item))
<1> DEFINE records == {"validators"} \X (call.shards \X {call.epoch})
           q(shard) == SaveShardValidatorsPubKeys(shard, call.epoch)
           set == {q(shard) : shard \in call.shards}
<1>1. RecordsOf(item) = Part("validators", records)
  BY RecordsOfEach
<1>2. "validators" \in Indexes /\ "index" \in Vias
  BY DEF Indexes, Vias
<1>3. ASSUME "validators" \in enabledIndexes
      PROVE  Complete(item, <<set>>, records)
  <2>1. ASSUME NEW shard \in call.shards
        PROVE  /\ q(shard) \in RequestsFor(item)
               /\ Written(q(shard)) = {<<"validators", <<shard, call.epoch>>>>}
               /\ q(shard).via # "get"
    <3> DEFINE id == <<shard, call.epoch>>
    <3>1. {"validators"} \X {id} \subseteq RecordsOf(item)
      BY <1>1, <1>3 DEF Part
    <3>2. /\ Request("index", "validators", {id}) \in RequestsFor(item)
          /\ Written(Request("index", "validators", {id})) = {"validators"} \X {id}
      BY <1>2, <3>1, RequestIsSound
    <3> QED
      BY <3>2 DEF SaveShardValidatorsPubKeys, Index, Request
  <2>2. UNION {Written(p) : p \in set} = records
    BY <2>1
  <2>3. set \in SUBSET RequestsFor(item) /\ \A p \in set : p.via # "get"
    BY <2>1
  <2> HIDE DEF set
  <2> QED
    BY <2>2, <2>3, OneFacts DEF Complete
<1>4. CASE call.shards # {}
  <2>1. Complete(item, IfEnabled("validators", <<set>>), Part("validators", records))
    <3> HIDE DEF set, records
    <3> QED
      BY <1>3, CompleteIfEnabled
  <2> QED
    BY <1>1, <1>4, <2>1 DEF SaveValidatorsPubKeys
<1>5. CASE call.shards = {}
  <2>1. RecordsOf(item) = {}
    BY <1>1, <1>5 DEF Part
  <2> QED
    BY <1>5, <2>1, CompleteEmpty DEF SaveValidatorsPubKeys
<1> QED
  BY <1>4, <1>5

\* An attempt that makes all its requests writes or removes every record of the
\* item, on whatever indexes are enabled.
LEMMA AttemptComplete ==
  ASSUME ConfigOK, NEW item \in Items
  PROVE  Complete(item, Requests(item), Touched(item))
<1> DEFINE call == calls[item]
<1>1. IsCall(call)
  BY DEF ConfigOK
<1>2. /\ call.method # "RevertIndexedBlock" => Touched(item) = RecordsOf(item)
      /\ call.method = "RevertIndexedBlock" => Touched(item) = RemovedBy(item)
  BY RecordsOfEach DEF Touched
<1>3. CASE call.method = "SaveBlock"
  <2>1. call.bulks \in Nat
    BY <1>1, <1>3 DEF IsCall
  <2> QED
    BY <1>2, <1>3, <2>1, BlockComplete DEF Requests
<1>4. CASE call.method = "RevertIndexedBlock"
  <2>1. call.body \in BodyKinds
    BY <1>1, <1>4 DEF IsCall
  <2> QED
    BY <1>2, <1>4, <2>1, RevertComplete DEF Requests
<1>5. CASE call.method = "SaveAccounts"
  <2>1. RecordsOf(item) = AccountRecords(call.accounts, call.time)
    BY <1>5, RecordsOfEach
  <2> QED
    BY <1>2, <1>5, <2>1, AccountsComplete DEF Requests
<1>6. CASE call.method = "SaveRoundsInfo"
  BY <1>2, <1>6, RoundsComplete DEF Requests
<1>7. CASE call.method = "SaveValidatorsRating"
  BY <1>2, <1>7, RatingComplete DEF Requests
<1>8. CASE call.method = "SaveValidatorsPubKeys"
  BY <1>2, <1>8, ValidatorsComplete DEF Requests
<1> QED
  BY <1>1, <1>3, <1>4, <1>5, <1>6, <1>7, <1>8 DEF IsCall

-----------------------------------------------------------------------------
(* What is left of an attempt after a request. *)

LEMMA TailIsSound ==
  ASSUME NEW item, NEW seq, Sound(item, seq), seq # <<>>
  PROVE  /\ Head(seq) = seq[1] /\ Head(seq) \in SUBSET RequestsFor(item)
         /\ Sound(item, Tail(seq))
         /\ \A r : Pending(seq, r) =>
              (\E q \in Head(seq) : r \in Written(q)) \/ Pending(Tail(seq), r)
<1> DEFINE tail == Tail(seq)
<1>1. /\ seq \in Seq(SUBSET RequestsFor(item)) /\ GetThenBulk(seq)
      /\ Head(seq) = seq[1] /\ Head(seq) \in SUBSET RequestsFor(item)
      /\ tail \in Seq(SUBSET RequestsFor(item))
      /\ Len(seq) \in Nat \ {0} /\ Len(tail) = Len(seq) - 1
      /\ \A k \in 1..Len(tail) : tail[k] = seq[k + 1]
  BY TailFacts DEF Sound
<1> HIDE DEF tail
<1>2. ASSUME NEW k \in 1..Len(tail), NEW q \in tail[k], q.via = "get"
      PROVE  tail[k] = {q} /\ k < Len(tail) /\ tail[k + 1] = {Bulk("miniblocks", {})}
  <2>1. k + 1 \in 1..Len(seq) /\ tail[k] = seq[k + 1]
    BY <1>1
  <2>2. seq[k + 1] = {q} /\ k + 1 < Len(seq) /\ seq[k + 1 + 1] = {Bulk("miniblocks", {})}
    BY <1>1, <1>2, <2>1 DEF GetThenBulk
  <2>3. k + 1 \in 1..Len(tail) /\ k < Len(tail)
    BY <1>1, <2>2
  <2> QED
    BY <1>1, <2>1, <2>2, <2>3
<1>3. ASSUME NEW r, Pending(seq, r), ~\E q \in Head(seq) : r \in Written(q)
      PROVE  Pending(tail, r)
  <2>1. PICK k \in 1..Len(seq) : \E q \in seq[k] : r \in Written(q)
    BY <1>3 DEF Pending
  <2>2. k # 1
    BY <1>1, <1>3, <2>1
  <2>3. k - 1 \in 1..Len(tail) /\ tail[k - 1] = seq[k]
    BY <1>1, <2>2
  <2> QED
    BY <2>1, <2>3 DEF Pending
<1> QED
  BY <1>1, <1>2, <1>3 DEF Sound, GetThenBulk, tail

LEMMA NewHead ==
  ASSUME NEW item, NEW set \in SUBSET RequestsFor(item), \A q \in set : q.via # "get",
         NEW seq, Sound(item, seq)
  PROVE  /\ Sound(item, <<set>> \o seq)
         /\ \A r : (\E q \in set : r \in Written(q)) \/ Pending(seq, r) => Pending(<<set>> \o seq, r)
<1>1. Sound(item, <<set>>) /\ Covers(<<set>>, UNION {Written(q) : q \in set})
  BY OneFacts
<1>3. Covers(seq, {})
  BY DEF Covers
<1>4. Sound(item, <<set>> \o seq)
  BY <1>1, <1>3, ConcatFacts
<1>5. ASSUME NEW r, \E q \in set : r \in Written(q)
      PROVE  Pending(<<set>> \o seq, r)
  <2>1. r \in UNION {Written(q) : q \in set}
    BY <1>5
  <2>2. Covers(<<set>> \o seq, (UNION {Written(q) : q \in set}) \cup {})
    BY <1>1, <1>3, ConcatFacts
  <2> QED
    BY <2>1, <2>2 DEF Covers
<1>6. ASSUME NEW r, Pending(seq, r)
      PROVE  Pending(<<set>> \o seq, r)
  <2>1. Covers(seq, {r}) /\ Covers(<<set>>, {})
    BY <1>6 DEF Covers
  <2>2. Covers(<<set>> \o seq, {} \cup {r})
    BY <1>1, <2>1, ConcatFacts
  <2> QED
    BY <2>2 DEF Covers
<1> QED
  BY <1>4, <1>5, <1>6

LEMMA AfterSend ==
  ASSUME NEW item, Sound(item, todo), todo # <<>>, NEW q \in Head(todo), q.via # "get"
  PROVE  /\ Sound(item, After(q))
         /\ \A r : Pending(todo, r) => r \in Written(q) \/ Pending(After(q), r)
<1> DEFINE head == Head(todo)
           tail == Tail(todo)
<1>1. /\ head = todo[1] /\ head \in SUBSET RequestsFor(item) /\ Sound(item, tail)
      /\ \A r : Pending(todo, r) => (\E p \in head : r \in Written(p)) \/ Pending(tail, r)
  BY TailIsSound
<1>2. CASE head = {q}
  BY <1>1, <1>2 DEF After
<1>3. CASE head # {q}
  <2>1. \A p \in head : p.via # "get"
    <3> SUFFICES ASSUME NEW p \in head, p.via = "get" PROVE FALSE
      OBVIOUS
    <3>1. 1 \in 1..Len(todo)
      BY DEF Sound
    <3>2. todo[1] = {p}
      BY <1>1, <3>1 DEF Sound, GetThenBulk
    <3> QED
      BY <1>1, <3>2
  <2>2. After(q) = <<head \ {q}>> \o tail
    BY <1>3 DEF After
  <2>3. head \ {q} \in SUBSET RequestsFor(item) /\ \A p \in head \ {q} : p.via # "get"
    BY <1>1, <2>1
  <2> HIDE DEF head, tail
  <2>4. /\ Sound(item, <<head \ {q}>> \o tail)
        /\ \A r : (\E p \in head \ {q} : r \in Written(p)) \/ Pending(tail, r)
                    => Pending(<<head \ {q}>> \o tail, r)
    BY <1>1, <2>3, NewHead
  <2> QED
    BY <1>1, <2>2, <2>4
<1> QED
  BY <1>2, <1>3

LEMMA AfterGet ==
  ASSUME NEW item, Sound(item, todo), todo # <<>>, NEW q \in Head(todo), q.via = "get",
         NEW rest, rest \in {Tail(todo), <<{EmptyBulk(q.index)}>> \o Tail(Tail(todo))}
  PROVE  /\ Sound(item, rest)
         /\ \A r : Pending(todo, r) => Pending(rest, r)
<1> DEFINE tail == Tail(todo)
           empty == {EmptyBulk(q.index)}
<1>1. /\ Head(todo) = todo[1] /\ q \in RequestsFor(item) /\ Sound(item, tail)
      /\ \A r : Pending(todo, r) => (\E p \in Head(todo) : r \in Written(p)) \/ Pending(tail, r)
  BY TailIsSound
<1>2. todo \in Seq(SUBSET RequestsFor(item)) /\ 1 \in 1..Len(todo) /\ GetThenBulk(todo)
  BY DEF Sound
<1>3. todo[1] = {q} /\ 1 < Len(todo) /\ todo[2] = {Bulk("miniblocks", {})}
  BY <1>1, <1>2 DEF GetThenBulk
<1>4. Written(q) = {} /\ q.index \in Indexes
  BY <1>1 DEF RequestsFor, Written
<1>5. \A r : Pending(todo, r) => Pending(tail, r)
  BY <1>1, <1>3, <1>4
<1>6. tail # <<>> /\ Head(tail) = {Bulk("miniblocks", {})}
  BY <1>2, <1>3
<1>7. Written(Bulk("miniblocks", {})) = {}
  BY DEF Written, Bulk, Request
<1>8. /\ Sound(item, Tail(tail))
      /\ \A r : Pending(tail, r) => Pending(Tail(tail), r)
  <2> HIDE DEF tail
  <2>1. /\ Sound(item, Tail(tail))
        /\ \A r : Pending(tail, r) =>
             (\E p \in Head(tail) : r \in Written(p)) \/ Pending(Tail(tail), r)
    BY <1>1, <1>6, TailIsSound
  <2> QED
    BY <1>6, <1>7, <2>1
<1>9. empty \in SUBSET RequestsFor(item) /\ \A p \in empty : p.via # "get"
  <2>1. {q.index} \X {} = {} /\ "emptyBulk" \in Vias
    BY DEF Vias
  <2>2. EmptyBulk(q.index) \in RequestsFor(item)
    BY <1>4, <2>1, RequestIsSound DEF EmptyBulk
  <2> QED
    BY <2>2 DEF EmptyBulk, Request
<1>10. /\ Sound(item, <<empty>> \o Tail(tail))
       /\ \A r : Pending(Tail(tail), r) => Pending(<<empty>> \o Tail(tail), r)
  <2> HIDE DEF tail, empty
  <2> QED
    BY <1>8, <1>9, NewHead
<1> QED
  BY <1>1, <1>5, <1>8, <1>10

-----------------------------------------------------------------------------
(* The answers. *)

\* A request that did not have all its effect is never taken for a done one.
LEMMA NotDoneIsNotOK ==
  \A via \in {"index", "bulk", "delete"} : "ok" \notin OutcomesNotDone[via]
<1> USE DEF Answers, Codes, Bodies, ErrorTypes, Refusals
<1>1. ASSUME NEW a \in Refusals
      PROVE  parseResponse(a) # "ok" /\ parseResponseInto(a) # "ok"
  <2>1. CASE a = NoAnswer
    BY <2>1 DEF NoAnswer, parseResponse, parseResponseInto
  <2>2. CASE a # NoAnswer
    <3>1. a.code > 299 /\ a.code # 200 /\ a.code # 201 /\ a.type \in {"none", "other"}
      BY <1>1, <2>2
    <3>2. ~errIsAlreadyExists(a) /\ ~isErrAliasAlreadyExists(a)
      BY <3>1 DEF errIsAlreadyExists, isErrAliasAlreadyExists
    <3>3. elasticDefaultErrorResponseHandler(a) # "ok"
      BY <3>1, <3>2 DEF elasticDefaultErrorResponseHandler
    <3> QED
      BY <2>2, <3>1, <3>3 DEF parseResponse, parseResponseInto
  <2> QED
    BY <2>1, <2>2
<1>2. \A via : "ok" \notin {Outcome(via, a) : a \in Refusals}
  BY <1>1 DEF Outcome
<1> HIDE DEF Refusals
<1> QED
  BY <1>2 DEF OutcomesNotDone, OutcomesOf

-----------------------------------------------------------------------------
(* The database is what the saved items wrote. *)

\* The last of the saved items that write or remove a record.
HasLast(r) == Writers(r) # {} => \E k \in Writers(r) : \A l \in Writers(r) : l <= k

NodeTypes ==
  /\ TypeOK
  /\ ConfigOK
  /\ todo # <<>> => worker = "save"
  /\ reachable \in BOOLEAN
  /\ reachable => worker = "save"
  /\ documents \in [Records -> Items \cup {NilItem}]

\* In the middle of an attempt each record of the item is as the item is to
\* leave it, or one of the requests left sees to it.
RestIsPending ==
  worker = "save" =>
    /\ Sound(current, todo)
    /\ \A r \in Touched(current) : documents[r] = WrittenBy(current, r) \/ Pending(todo, r)

RecordsInv == NodeTypes /\ RestIsPending /\ RecordsOfLastSaved /\ \A r : HasLast(r)

\* What the calls are to write does not change.
LEMMA ConfigKept ==
  ASSUME UNCHANGED config
  PROVE  /\ Records' = Records /\ (ConfigOK => ConfigOK')
         /\ RecordsOf(current)' = RecordsOf(current')
         /\ Touched(current)' = Touched(current')
         /\ Sound(current, todo)' <=> Sound(current', todo')
         /\ \A r : WrittenBy(current, r)' = WrittenBy(current', r)
         /\ \A r : Writers(r)' = {k \in 1..Len(saved') : r \in Touched(saved'[k])}
         /\ \A r : Expected(r)' = IF Writers(r)' = {} THEN NilItem
                                  ELSE WrittenBy(saved'[Last(Writers(r)')], r)
<1> USE DEF config
<1>1. Records' = Records
  BY DEF Records, Touched, RecordsOf, RemovedBy
<1>2. ConfigOK => ConfigOK'
  BY DEF ConfigOK
<1>3. RecordsOf(current)' = RecordsOf(current')
  BY DEF RecordsOf
<1>4. Touched(current)' = Touched(current')
  BY DEF Touched, RecordsOf, RemovedBy
<1>5. Sound(current, todo)' <=> Sound(current', todo')
  BY DEF Sound, RequestsFor, Touched, RecordsOf, RemovedBy
<1>6. \A r : WrittenBy(current, r)' = WrittenBy(current', r)
  BY DEF WrittenBy, RecordsOf
<1>7. \A r : Writers(r)' = {k \in 1..Len(saved') : r \in Touched(saved'[k])}
  BY DEF Writers, Touched, RecordsOf, RemovedBy
<1>8. \A r : Expected(r)' = IF Writers(r)' = {} THEN NilItem
                            ELSE WrittenBy(saved'[Last(Writers(r)')], r)
  BY DEF Expected, WrittenBy, RecordsOf, Last
<1> QED
  BY <1>1, <1>2, <1>3, <1>4, <1>5, <1>6, <1>7, <1>8

\* While no item is saved, what is expected of the database stays.
LEMMA ExpectedKept ==
  ASSUME UNCHANGED config, UNCHANGED saved
  PROVE  \A r : Expected(r)' = Expected(r) /\ (HasLast(r) => HasLast(r)')
<1>1. \A r : Writers(r)' = Writers(r)
  BY ConfigKept DEF Writers
<1>2. \A r : Expected(r)' = Expected(r)
  BY <1>1, ConfigKept DEF Expected
<1>3. \A r : HasLast(r) => HasLast(r)'
  BY <1>1 DEF HasLast
<1> QED
  BY <1>2, <1>3

LEMMA InitRecordsInv == NodeInit => RecordsInv
<1> SUFFICES ASSUME NodeInit PROVE RecordsInv
  OBVIOUS
<1>1. TypeOK
  BY InitTypeOK DEF NodeInit
<1>2. ConfigOK
  <2> PICK setting \in Settings : enabledIndexes = setting.enabled /\ calls = setting.calls
    BY DEF NodeInit
  <2> QED
    BY SettingsAssumption DEF ConfigOK
<1>3. todo = <<>> /\ reachable = FALSE /\ saved = <<>> /\ worker = "unstarted"
  BY DEF NodeInit, Init
<1>4. documents = [r \in Records |-> NilItem]
  BY DEF NodeInit
<1>5. \A r : Writers(r) = {}
  BY <1>3 DEF Writers
<1>6. \A r \in Records : documents[r] = Expected(r)
  BY <1>4, <1>5 DEF Expected
<1> QED
  BY <1>1, <1>2, <1>3, <1>4, <1>5, <1>6
     DEF RecordsInv, NodeTypes, RestIsPending, RecordsOfLastSaved, HasLast

\* Steps after which the worker is not in a Save and has what it had in hand.
LEMMA OutsideOfSave ==
  ASSUME RecordsInv, TypeOK', UNCHANGED <<config, saved, current>>,
         documents' \in [Records -> Items \cup {NilItem}], worker' # "save",
         todo' = <<>>, reachable' = FALSE,
         \A r \in Records : \/ documents'[r] = documents[r]
                            \/ r \in Touched(current) /\ current # NilItem
                               /\ documents'[r] = WrittenBy(current, r)
  PROVE  RecordsInv'
<1>1. NodeTypes'
  BY ConfigKept DEF RecordsInv, NodeTypes
<1>2. RestIsPending'
  BY DEF RestIsPending
<1>3. RecordsOfLastSaved'
  <2> SUFFICES ASSUME NEW r \in Records
               PROVE  \/ documents'[r] = Expected(r)
                      \/ /\ current # NilItem /\ r \in Touched(current)
                         /\ documents'[r] = WrittenBy(current, r)
    BY ConfigKept, ExpectedKept DEF RecordsOfLastSaved
  <2> QED
    BY DEF RecordsInv, RecordsOfLastSaved
<1>4. \A r : HasLast(r)'
  BY ExpectedKept DEF RecordsInv
<1> QED
  BY <1>1, <1>2, <1>3, <1>4 DEF RecordsInv

\* Steps in a Save that leave it at its item, with requests left for what is
\* not yet done.
LEMMA InsideOfSave ==
  ASSUME RecordsInv, TypeOK', UNCHANGED <<config, saved, current>>, current \in Items,
         documents' \in [Records -> Items \cup {NilItem}], worker' = "save",
         reachable' \in BOOLEAN, Sound(current, todo'),
         \A r \in Records : \/ documents'[r] = documents[r]
                            \/ r \in Touched(current) /\ documents'[r] = WrittenBy(current, r),
         \A r \in Touched(current) : documents'[r] = WrittenBy(current, r) \/ Pending(todo', r)
  PROVE  RecordsInv'
<1>1. NodeTypes'
  BY ConfigKept DEF RecordsInv, NodeTypes
<1>2. RestIsPending'
  <2>1. Sound(current, todo)'
    BY ConfigKept
  <2>2. \A r \in Touched(current)' : documents'[r] = WrittenBy(current, r)' \/ Pending(todo', r)
    BY ConfigKept
  <2> QED
    BY <2>1, <2>2 DEF RestIsPending, Pending
<1>3. RecordsOfLastSaved'
  <2> SUFFICES ASSUME NEW r \in Records
               PROVE  \/ documents'[r] = Expected(r)
                      \/ /\ current # NilItem /\ r \in Touched(current)
                         /\ documents'[r] = WrittenBy(current, r)
    BY ConfigKept, ExpectedKept DEF RecordsOfLastSaved
  <2>1. current # NilItem
    BY ItemsAssumption
  <2> QED
    BY <2>1 DEF RecordsInv, RecordsOfLastSaved
<1>4. \A r : HasLast(r)'
  BY ExpectedKept DEF RecordsInv
<1> QED
  BY <1>1, <1>2, <1>3, <1>4 DEF RecordsInv

\* An attempt begins with all its requests.
LEMMA NextReceive == RecordsInv /\ TypeOK' /\ NodeReceive => RecordsInv'
<1> SUFFICES ASSUME RecordsInv, TypeOK', NodeReceive PROVE RecordsInv'
  OBVIOUS
<1>1. /\ worker = "select" /\ worker' = "save" /\ UNCHANGED <<config, saved, documents>>
      /\ todo' = Requests(current') /\ reachable' \in BOOLEAN
  BY DEF NodeReceive, Receive, Attempt
<1>2. current = NilItem /\ current' \in Items /\ current' # NilItem
  BY <1>1, ItemsAssumption DEF RecordsInv, NodeTypes, TypeOK
<1>3. ConfigOK /\ documents \in [Records -> Items \cup {NilItem}]
  BY DEF RecordsInv, NodeTypes
<1>4. Complete(current', todo', Touched(current'))
  BY <1>1, <1>2, <1>3, AttemptComplete
<1>5. NodeTypes'
  BY <1>1, <1>3, ConfigKept DEF NodeTypes
<1>6. RestIsPending'
  <2>1. Sound(current, todo)' /\ \A r \in Touched(current)' : Pending(todo', r)
    BY <1>1, <1>4, ConfigKept DEF Complete, Covers
  <2> QED
    BY <2>1 DEF RestIsPending, Pending
<1>7. RecordsOfLastSaved'
  <2>1. \A r \in Records : documents[r] = Expected(r)
    BY <1>2 DEF RecordsInv, RecordsOfLastSaved
  <2> QED
    BY <1>1, <2>1, ConfigKept, ExpectedKept DEF RecordsOfLastSaved
<1>8. \A r : HasLast(r)'
  BY <1>1, ExpectedKept DEF RecordsInv
<1> QED
  BY <1>5, <1>6, <1>7, <1>8 DEF RecordsInv

LEMMA NextWake == RecordsInv /\ TypeOK' /\ NodeWake => RecordsInv'
<1> SUFFICES ASSUME RecordsInv, TypeOK', NodeWake PROVE RecordsInv'
  OBVIOUS
<1>1. /\ worker = "sleep" /\ worker' = "save" /\ UNCHANGED <<config, saved, current, documents>>
      /\ todo' = Requests(current) /\ reachable' \in BOOLEAN
  BY DEF NodeWake, Wake, Attempt
<1>2. current \in Items
  BY <1>1 DEF RecordsInv, NodeTypes, TypeOK
<1>3. ConfigOK /\ documents \in [Records -> Items \cup {NilItem}]
  BY DEF RecordsInv, NodeTypes
<1>4. Complete(current, todo', Touched(current))
  BY <1>1, <1>2, <1>3, AttemptComplete
<1> QED
  BY <1>1, <1>2, <1>3, <1>4, InsideOfSave DEF Complete, Covers

LEMMA NextGet ==
  ASSUME RecordsInv, TypeOK', worker = "save", todo # <<>>, NEW q \in Head(todo), Get(q)
  PROVE  RecordsInv'
<1>1. /\ q.via = "get" /\ UNCHANGED <<vars, config, reachable, documents>>
      /\ todo' \in {Tail(todo), <<{EmptyBulk(q.index)}>> \o Tail(Tail(todo))}
  BY DEF Get
<1>2. /\ UNCHANGED <<saved, current>> /\ worker' = "save" /\ current \in Items
      /\ reachable' \in BOOLEAN /\ documents' \in [Records -> Items \cup {NilItem}]
  BY <1>1 DEF vars, RecordsInv, NodeTypes, TypeOK
<1>3. /\ Sound(current, todo)
      /\ \A r \in Touched(current) : documents[r] = WrittenBy(current, r) \/ Pending(todo, r)
  BY DEF RecordsInv, RestIsPending
<1>4. Sound(current, todo') /\ \A r : Pending(todo, r) => Pending(todo', r)
  BY <1>1, <1>3, AfterGet
<1> QED
  BY <1>1, <1>2, <1>3, <1>4, InsideOfSave

\* What a request does to the records of its item, done or not.
LEMMA EffectOfSend ==
  ASSUME RecordsInv, worker = "save", todo # <<>>, NEW q \in Head(todo), Send(q)
  PROVE  /\ documents' \in [Records -> Items \cup {NilItem}]
         /\ \A r \in Records : \/ documents'[r] = documents[r]
                               \/ /\ r \in Touched(current)
                                  /\ documents'[r] = WrittenBy(current, r)
         /\ \/ \E outcome : GiveUp(outcome)
            \/ /\ GoOn(q)
               /\ \A r \in Written(q) : documents'[r] = WrittenBy(current, r)
<1>1. Sound(current, todo) /\ current \in Items
  BY DEF RecordsInv, RestIsPending, NodeTypes, TypeOK
<1>2. q \in RequestsFor(current) /\ q.via \in Vias \ {"get"}
  <2>1. Head(todo) \in SUBSET RequestsFor(current)
    BY <1>1, TailIsSound
  <2> QED
    BY <2>1 DEF RequestsFor, Send
<1>3. PICK effect \in Effects(q) :
        /\ Take(q, effect)
        /\ \E outcome \in Outcomes(q, effect = Written(q)) :
             IF outcome = "ok" THEN GoOn(q) ELSE GiveUp(outcome)
  BY DEF Send
<1>4. effect \subseteq Written(q) /\ (reachable => effect = Written(q))
  BY <1>3 DEF Effects
<1>5. Written(q) \subseteq Touched(current) /\ Written(q) \subseteq Records
  BY <1>1, <1>2 DEF RequestsFor, Touched, Records
<1>6. DOMAIN documents = Records /\ documents \in [Records -> Items \cup {NilItem}]
  BY DEF RecordsInv, NodeTypes
<1>7. documents' = [r \in Records |-> IF r \notin effect THEN documents[r]
                                      ELSE IF q.via = "delete" THEN NilItem ELSE current]
  BY <1>3, <1>6 DEF Take
<1>8. \A r \in effect : documents'[r] = WrittenBy(current, r)
  <2> TAKE r \in effect
  <2>1. r \in Records /\ r \in Written(q)
    BY <1>4, <1>5
  <2>2. CASE q.via = "delete"
    <3>1. r \notin RecordsOf(current)
      BY <1>2, <2>1, <2>2 DEF RequestsFor
    <3> QED
      BY <1>7, <2>1, <2>2, <3>1 DEF WrittenBy
  <2>3. CASE q.via # "delete"
    <3>1. r \in RecordsOf(current)
      BY <1>2, <2>1, <2>3 DEF RequestsFor
    <3> QED
      BY <1>7, <2>1, <2>3, <3>1 DEF WrittenBy
  <2> QED
    BY <2>2, <2>3
<1>9. documents' \in [Records -> Items \cup {NilItem}]
  BY <1>1, <1>6, <1>7
<1>10. \A r \in Records : \/ documents'[r] = documents[r]
                          \/ r \in Touched(current) /\ documents'[r] = WrittenBy(current, r)
  BY <1>4, <1>5, <1>7, <1>8
<1>11. ASSUME effect # Written(q)
       PROVE  \E outcome : GiveUp(outcome)
  <2>1. ~reachable
    BY <1>4, <1>11
  <2>2. Written(q) # {}
    BY <1>4, <1>11
  <2>3. q.via \in {"index", "bulk", "delete"}
    BY <1>2, <2>2 DEF RequestsFor, Written, Vias
  <2>4. \A outcome \in Outcomes(q, effect = Written(q)) : outcome # "ok"
    BY <1>11, <2>1, <2>3, NotDoneIsNotOK DEF Outcomes
  <2> QED
    BY <1>3, <2>4
<1>12. (\E outcome : GiveUp(outcome)) \/ GoOn(q)
  BY <1>3
<1> QED
  BY <1>8, <1>9, <1>10, <1>11, <1>12

LEMMA NextSend ==
  ASSUME RecordsInv, TypeOK', worker = "save", todo # <<>>, NEW q \in Head(todo), Send(q)
  PROVE  RecordsInv'
<1>1. /\ Sound(current, todo) /\ current \in Items /\ current # NilItem
      /\ \A r \in Touched(current) : documents[r] = WrittenBy(current, r) \/ Pending(todo, r)
      /\ reachable \in BOOLEAN
  BY DEF RecordsInv, RestIsPending, NodeTypes, TypeOK
<1>2. CASE \E outcome : GiveUp(outcome)
  <2>1. /\ UNCHANGED <<config, saved, current>> /\ worker' # "save"
        /\ todo' = <<>> /\ reachable' = FALSE
    BY <1>2 DEF GiveUp, SaveFails, SaveBacksOff
  <2> QED
    BY <1>1, <2>1, EffectOfSend, OutsideOfSave
<1>3. CASE GoOn(q) /\ \A r \in Written(q) : documents'[r] = WrittenBy(current, r)
  <2>1. /\ todo' = After(q) /\ UNCHANGED <<config, saved, current>> /\ worker' = "save"
        /\ reachable' \in BOOLEAN
    BY <1>1, <1>3 DEF GoOn, vars
  <2>2. q.via # "get"
    BY DEF Send
  <2>3. /\ Sound(current, todo')
        /\ \A r : Pending(todo, r) => r \in Written(q) \/ Pending(todo', r)
    BY <1>1, <2>1, <2>2, AfterSend
  <2>4. \A r \in Touched(current) : r \in Records
    BY <1>1 DEF Records
  <2>5. \A r \in Touched(current) : documents'[r] = WrittenBy(current, r) \/ Pending(todo', r)
    BY <1>1, <1>3, <2>3, <2>4, EffectOfSend
  <2> QED
    BY <1>1, <2>1, <2>3, <2>5, EffectOfSend, InsideOfSave
<1> QED
  BY <1>2, <1>3, EffectOfSend

\* A saved item has made all its requests, and is the last on its records.
LEMMA NextSaved == RecordsInv /\ TypeOK' /\ NodeSaveSucceeds => RecordsInv'
<1> SUFFICES ASSUME RecordsInv, TypeOK', NodeSaveSucceeds PROVE RecordsInv'
  OBVIOUS
<1> DEFINE n == Len(saved)
<1>1. /\ worker = "save" /\ worker' = "select" /\ todo = <<>> /\ todo' = <<>> /\ reachable' = FALSE
      /\ saved' = Append(saved, current) /\ current' = NilItem
      /\ UNCHANGED <<config, documents>>
  BY DEF NodeSaveSucceeds, SaveSucceeds
<1>2. /\ current \in Items /\ saved \in Seq(Items)
      /\ documents \in [Records -> Items \cup {NilItem}]
  BY <1>1 DEF RecordsInv, NodeTypes, TypeOK
<1>3. /\ n \in Nat /\ Len(saved') = n + 1 /\ saved'[n + 1] = current
      /\ \A k \in 1..n : saved'[k] = saved[k]
  BY <1>1, <1>2, AppendFacts
<1>a. ASSUME NEW r
      PROVE  /\ Writers(r)' = {k \in 1..(n + 1) : r \in Touched(saved'[k])}
             /\ \A k \in 1..n : k \in Writers(r)' <=> k \in Writers(r)
             /\ n + 1 \in Writers(r)' <=> r \in Touched(current)
             /\ Writers(r) \subseteq 1..n /\ Writers(r)' \subseteq 1..(n + 1)
  <2>1. Writers(r)' = {k \in 1..(n + 1) : r \in Touched(saved'[k])}
    BY <1>1, <1>3, ConfigKept
  <2>2. \A k \in 1..n : r \in Touched(saved'[k]) <=> r \in Touched(saved[k])
    BY <1>3
  <2>3. r \in Touched(saved'[n + 1]) <=> r \in Touched(current)
    BY <1>3
  <2>4. Writers(r) = {k \in 1..n : r \in Touched(saved[k])}
    BY DEF Writers
  <2> HIDE DEF n
  <2> QED
    BY <1>3, <2>1, <2>2, <2>3, <2>4
<1>4. ASSUME NEW r, r \in Touched(current)
      PROVE  Writers(r)' = Writers(r) \cup {n + 1} /\ Last(Writers(r)') = n + 1 /\ HasLast(r)'
  <2>1. Writers(r)' = Writers(r) \cup {n + 1}
    <3> HIDE DEF n
    <3> QED
      BY <1>3, <1>4, <1>a
  <2>2. \A l \in Writers(r)' : l \in Nat /\ l <= n + 1
    BY <1>3, <2>1 DEF Writers
  <2>3. Last(Writers(r)') = n + 1
    BY <1>3, <2>1, <2>2 DEF Last
  <2> QED
    BY <2>1, <2>2, <2>3 DEF HasLast
<1>5. ASSUME NEW r, r \notin Touched(current)
      PROVE  /\ Writers(r)' = Writers(r) /\ HasLast(r)'
             /\ Writers(r) # {} => saved'[Last(Writers(r))] = saved[Last(Writers(r))]
  <2>1. Writers(r)' = Writers(r)
    <3> HIDE DEF n
    <3> QED
      BY <1>3, <1>5, <1>a
  <2>2. HasLast(r) /\ HasLast(r)'
    BY <2>1 DEF RecordsInv, HasLast
  <2>3. Writers(r) # {} => Last(Writers(r)) \in 1..n
    BY <2>2 DEF HasLast, Last, Writers
  <2> QED
    BY <1>3, <2>1, <2>2, <2>3
<1>6. \A r \in Touched(current) : documents[r] = WrittenBy(current, r)
  BY <1>1 DEF RecordsInv, RestIsPending, Pending
<1>7. \A r \in Records : r \notin Touched(current) => documents[r] = Expected(r)
  BY DEF RecordsInv, RecordsOfLastSaved
<1>8. NodeTypes'
  BY <1>1, <1>2, ConfigKept DEF RecordsInv, NodeTypes
<1>9. RestIsPending'
  BY <1>1 DEF RestIsPending
<1>10. \A r \in Records : documents[r] = Expected(r)'
  <2> TAKE r \in Records
  <2>1. CASE r \in Touched(current)
    BY <1>1, <1>3, <1>4, <1>6, <2>1, ConfigKept
  <2>2. CASE r \notin Touched(current)
    BY <1>1, <1>5, <1>7, <2>2, ConfigKept DEF Expected
  <2> QED
    BY <2>1, <2>2
<1>11. RecordsOfLastSaved'
  BY <1>1, <1>10, ConfigKept DEF RecordsOfLastSaved
<1>12. \A r : HasLast(r)'
  BY <1>4, <1>5
<1> QED
  BY <1>8, <1>9, <1>11, <1>12 DEF RecordsInv

\* The other goroutines, the start and the end of the worker.
LEMMA NextElsewhere ==
  ASSUME RecordsInv, TypeOK',
         UNCHANGED <<config, todo, reachable, documents, saved, current>>,
         worker' = worker \/ (worker # "save" /\ worker' # "save")
  PROVE  RecordsInv'
<1>1. CASE worker = "save"
  BY <1>1, InsideOfSave DEF RecordsInv, NodeTypes, RestIsPending, TypeOK
<1>2. CASE worker # "save"
  BY <1>2, OutsideOfSave DEF RecordsInv, NodeTypes
<1> QED
  BY <1>1, <1>2

LEMMA NextRecordsInv == RecordsInv /\ [NodeNext]_nodeVars => RecordsInv'
<1> SUFFICES ASSUME RecordsInv, [NodeNext]_nodeVars PROVE RecordsInv'
  OBVIOUS
<1>0. TypeOK'
  BY NextNodeRefines, NextTypeOK DEF RecordsInv, NodeTypes
<1> USE <1>0
<1>1. CASE NodeStart
  BY <1>1, NextElsewhere DEF NodeStart, StartIndexData
<1>2. CASE AddCall /\ UNCHANGED <<config, todo, reachable, documents>>
  BY <1>2, NextElsewhere DEF AddCall, Add, workerVars
<1>3. ASSUME NEW p \in Producers, NodeAddReturn(p)
      PROVE  RecordsInv'
  BY <1>3, NextElsewhere DEF NodeAddReturn, AddReturn, workerVars
<1>4. CASE NodeReceive
  BY <1>4, NextReceive
<1>5. CASE NodeWake
  BY <1>5, NextWake
<1>6. CASE DoRequest
  BY <1>6, NextSend, NextGet DEF DoRequest
<1>7. CASE NodeSaveSucceeds
  BY <1>7, NextSaved
<1>8. CASE Stop /\ UNCHANGED <<config, todo, reachable, documents>>
  BY <1>8, NextElsewhere DEF Stop
<1>9. CASE Close /\ UNCHANGED <<config, todo, reachable, documents>>
  BY <1>9, NextElsewhere DEF Close, workerVars
<1>10. CASE UNCHANGED nodeVars
  BY <1>10, NextElsewhere DEF nodeVars, vars, config
<1> QED
  BY <1>1, <1>2, <1>3, <1>4, <1>5, <1>6, <1>7, <1>8, <1>9, <1>10 DEF NodeNext, NodeWorker

LEMMA RecordsInvHolds == NodeSpec => []RecordsInv
  BY InitRecordsInv, NextRecordsInv, PTL DEF NodeSpec

\* The node's state has its type: the requests left are those of the item in
\* hand, and none is left between two attempts.
THEOREM NodeTypeCorrect == NodeSpec => []NodeTypeOK
<1>1. RecordsInv => NodeTypeOK
  <2> SUFFICES ASSUME RecordsInv PROVE NodeTypeOK
    OBVIOUS
  <2>1. \A k \in 1..Len(todo) : \A q \in todo[k] : Written(q) \subseteq Touched(current)
    <3> SUFFICES ASSUME NEW k \in 1..Len(todo), NEW q \in todo[k]
                 PROVE  Written(q) \subseteq Touched(current)
      OBVIOUS
    <3>1. todo # <<>>
      OBVIOUS
    <3>2. todo \in Seq(SUBSET RequestsFor(current))
      BY <3>1 DEF RecordsInv, NodeTypes, RestIsPending, Sound
    <3>3. q \in RequestsFor(current)
      BY <3>2
    <3> QED
      BY <3>3 DEF RequestsFor, Touched
  <2> QED
    BY <2>1 DEF RecordsInv, NodeTypes, NodeTypeOK, ConfigOK
<1> QED
  BY <1>1, RecordsInvHolds, PTL

\* The database is what the saved items wrote, in the order of the node's calls,
\* with nothing of the attempts that failed except of the item in hand.
THEOREM DatabaseIsWhatWasSaved == NodeSpec => []RecordsOfLastSaved
  BY RecordsInvHolds, PTL DEF RecordsInv
=============================================================================
