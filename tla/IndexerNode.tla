---------------------------- MODULE IndexerNode ----------------------------
(***************************************************************************)
(* One node's indexer put together: the six calls of dataIndexer.go give   *)
(* work items to the Dispatcher, the items' Save (workItems/) calls the    *)
(* processor (elasticProcessor.go), which makes requests through the       *)
(* client (elasticClient.go), and what the client makes of their answers   *)
(* goes back to the retry loop of doWork.                                  *)
(*                                                                         *)
(* Dispatcher leaves the outcome of a Save open; here it is that of the    *)
(* item's requests.  A database document is the item that last wrote it:   *)
(* what its fields are is for BlockIndexing, TxIndexing, AccountsIndexing. *)
(***************************************************************************)
EXTENDS Dispatcher, ElasticResponse, FiniteSets

CONSTANT Settings   \* what a node may be asked: its enabled indexes and the call behind each item

Indexes == {"blocks", "miniblocks", "transactions", "accounts", "accountshistory",
            "rounds", "rating", "validators"}

\* What the type assertion on the body of a block and a look into it can tell.
BodyKinds == {"miniblocks", "empty", "notABody"}
NilHeader == "nil"

(* The arguments of a call that decide which requests are made; `accounts` *)
(* are those of the node's shard, `bulks` the number of transaction bulks. *)
IsCall(call) ==
  CASE call.method = "SaveBlock" ->
         /\ DOMAIN call = {"method", "header", "time", "body", "bulks", "accounts"}
         /\ call.body \in BodyKinds
         /\ call.bulks \in Nat
    [] call.method = "RevertIndexedBlock" ->
         DOMAIN call = {"method", "header", "body"} /\ call.body \in BodyKinds
    [] call.method = "SaveAccounts" -> DOMAIN call = {"method", "time", "accounts"}
    [] call.method = "SaveRoundsInfo" -> DOMAIN call = {"method", "rounds"}
    [] call.method = "SaveValidatorsRating" -> DOMAIN call = {"method", "indexID"}
    [] call.method = "SaveValidatorsPubKeys" -> DOMAIN call = {"method", "epoch", "shards"}
    [] OTHER -> FALSE

\* The calls no database can save: a body of the wrong type, and no rounds,
\* for which an empty bulk is sent.
Hopeless(call, enabled) ==
  \/ call.method = "SaveBlock" /\ call.header # NilHeader /\ call.body = "notABody"
  \/ call.method = "RevertIndexedBlock" /\ call.body = "notABody"
  \/ call.method = "SaveRoundsInfo" /\ call.rounds = {} /\ "rounds" \in enabled

ASSUME SettingsAssumption ==
  \A setting \in Settings :
    /\ setting.enabled \subseteq Indexes
    /\ DOMAIN setting.calls = Items
    /\ \A item \in Items :
         /\ IsCall(setting.calls[item])
         /\ item \in Poison <=> Hopeless(setting.calls[item], setting.enabled)

VARIABLES
  enabledIndexes,   \* elasticProcessor.enabledIndexes
  calls,            \* calls[i]: the call item i is the work item of
  todo,             \* the requests left in this attempt at `current`: any of the head's, then the next
  reachable,        \* whether the database answers every request of this attempt, FALSE between two
  documents         \* documents[r]: the item that last wrote record r, NilItem if it is not there

nodeVars == <<vars, enabledIndexes, calls, todo, reachable, documents>>
config == <<enabledIndexes, calls>>

-----------------------------------------------------------------------------
(* Requests: how the client sends it, and the records it writes.           *)

Request(via, index, ids) == [via |-> via, index |-> index, ids |-> ids]
Index(index, id) == Request("index", index, {id})
MultiGet(index) == Request("get", index, {})
Bulk(index, ids) == Request("bulk", index, ids)
EmptyBulk(index) == Request("emptyBulk", index, {})
Delete(index, ids) == Request("delete", index, ids)

\* Where Save returns an error of its own, with no request.
Failure == Request("none", "blocks", {})

Written(request) == {request.index} \X request.ids

IfEnabled(index, requests) == IF index \in enabledIndexes THEN requests ELSE <<>>

\* One bulk each: how a long body is cut is TxGrouping's.  The history is not
\* reached when the accounts are not indexed.
SaveAccounts(accounts, time) ==
  IF accounts = {} THEN <<>>
  ELSE IfEnabled("accounts",
         <<{Bulk("accounts", accounts)}>>
         \o IfEnabled("accountshistory", <<{Bulk("accountshistory", accounts \X {time})}>>))

SaveTransactions(call) ==
  IfEnabled("transactions",
    [k \in 1..call.bulks |-> {Bulk("transactions", {})}]
    \o SaveAccounts(call.accounts, call.time))

SaveMiniblocks ==
  IfEnabled("miniblocks", <<{MultiGet("miniblocks")}, {Bulk("miniblocks", {})}>>)

\* Mutation: SaveHeader without its look at the enabled indexes.
SaveBlockEnabledOrNot(call) ==
  IF call.header = NilHeader THEN <<>>
  ELSE IF call.body = "notABody" THEN <<{Failure}>>
  ELSE <<{Index("blocks", call.header)}>>
       \o (IF call.body = "miniblocks" THEN SaveMiniblocks \o SaveTransactions(call) ELSE <<>>)

\* Mutation: itemBlock.Save without its return for a block without miniblocks.
SaveBlockWithEmptyBody(call) ==
  IF call.header = NilHeader THEN <<>>
  ELSE IF call.body = "notABody" THEN <<{Failure}>>
  ELSE IfEnabled("blocks", <<{Index("blocks", call.header)}>>)
       \o (IF call.body = "miniblocks" THEN SaveMiniblocks
           ELSE IfEnabled("miniblocks", <<{EmptyBulk("miniblocks")}>>))
       \o SaveTransactions(call)

\* A block without a header is skipped, and Save returns nil.
SaveBlock(call) ==
  IF call.header = NilHeader THEN <<>>
  ELSE IF call.body = "notABody" THEN <<{Failure}>>
  ELSE IfEnabled("blocks", <<{Index("blocks", call.header)}>>)
       \o (IF call.body = "miniblocks" THEN SaveMiniblocks \o SaveTransactions(call) ELSE <<>>)

\* The removals do not look at the enabled indexes, and the header is removed
\* before the body is looked at.
RevertIndexedBlock(call) ==
  <<{Delete("blocks", {call.header})}>>
  \o (CASE call.body = "miniblocks" -> <<{Delete("miniblocks", {})}>>
        [] call.body = "empty" -> <<>>
        [] call.body = "notABody" -> <<{Failure}>>)

SaveRoundsInfo(call) ==
  IfEnabled("rounds",
    <<{IF call.rounds = {} THEN EmptyBulk("rounds") ELSE Bulk("rounds", call.rounds)}>>)

SaveValidatorsRating(call) == IfEnabled("rating", <<{Index("rating", call.indexID)}>>)

SaveShardValidatorsPubKeys(shard, epoch) == Index("validators", <<shard, epoch>>)

\* One request per shard, in the random order of a map.
SaveValidatorsPubKeys(call) ==
  IF call.shards = {} THEN <<>>
  ELSE IfEnabled("validators",
         <<{SaveShardValidatorsPubKeys(shard, call.epoch) : shard \in call.shards}>>)

\* The requests an attempt at the item makes while all goes well.
Requests(item) ==
  LET call == calls[item]
  IN CASE call.method = "SaveBlock" -> SaveBlock(call)
       [] call.method = "RevertIndexedBlock" -> RevertIndexedBlock(call)
       [] call.method = "SaveAccounts" -> SaveAccounts(call.accounts, call.time)
       [] call.method = "SaveRoundsInfo" -> SaveRoundsInfo(call)
       [] call.method = "SaveValidatorsRating" -> SaveValidatorsRating(call)
       [] call.method = "SaveValidatorsPubKeys" -> SaveValidatorsPubKeys(call)

-----------------------------------------------------------------------------
(* Answers: those that may come when the request has taken its full        *)
(* effect, and those that may come when it has not.                        *)

Refusals == {a \in Answers : a.code > 299 /\ a.type \in {"none", "other"}} \cup {NoAnswer}
Acceptances == {a \in Answers : a.code \in {200, 201} /\ a.type = "none"}

\* The client decodes the answer to a get and to a removal.
Outcome(via, answer) ==
  IF via \in {"get", "delete"} THEN parseResponseInto(answer) ELSE parseResponse(answer)

OutcomesOf(answers) ==
  [via \in {"index", "get", "bulk", "delete"} |-> {Outcome(via, a) : a \in answers}]
OutcomesDone == OutcomesOf(Acceptances \cup Refusals)
OutcomesNotDone == OutcomesOf(Refusals)

Outcomes(request, done) ==
  IF request.via = "none" THEN {"error"}
  ELSE IF request.via = "emptyBulk" THEN {parseResponse(Answer(400, "other"))}
  ELSE IF reachable THEN {"ok"}
  ELSE IF done THEN OutcomesDone[request.via]
  ELSE OutcomesNotDone[request.via]

\* A request has all of its effect, or, unless the database is well, a part.
Effects(request) ==
  IF reachable THEN {Written(request)} ELSE SUBSET Written(request)

Take(request, effect) ==
  documents' = [r \in DOMAIN documents |->
                  IF r \notin effect THEN documents[r]
                  ELSE IF request.via = "delete" THEN NilItem ELSE current]

-----------------------------------------------------------------------------
\* The records a call is to write when its item is saved.
RecordsOf(item) ==
  LET call == calls[item]
      accounts(set, time) == ({"accounts"} \X set) \cup ({"accountshistory"} \X (set \X {time}))
      records ==
        CASE call.method = "SaveBlock" ->
               (IF call.header = NilHeader \/ call.body = "notABody" THEN {}
                ELSE {<<"blocks", call.header>>}
                     \cup IF call.body = "miniblocks" /\ "transactions" \in enabledIndexes
                          THEN accounts(call.accounts, call.time) ELSE {})
          [] call.method = "RevertIndexedBlock" -> {}
          [] call.method = "SaveAccounts" -> accounts(call.accounts, call.time)
          [] call.method = "SaveRoundsInfo" -> {"rounds"} \X call.rounds
          [] call.method = "SaveValidatorsRating" -> {<<"rating", call.indexID>>}
          [] call.method = "SaveValidatorsPubKeys" -> {"validators"} \X (call.shards \X {call.epoch})
      written == enabledIndexes \ (IF "accounts" \in enabledIndexes THEN {} ELSE {"accountshistory"})
  IN {r \in records : r[1] \in written}

\* The records it is to remove.
RemovedBy(item) ==
  IF calls[item].method = "RevertIndexedBlock" THEN {<<"blocks", calls[item].header>>} ELSE {}

Touched(item) == RecordsOf(item) \cup RemovedBy(item)

Records == UNION {Touched(item) : item \in Items}

NodeInit ==
  /\ Init
  /\ \E setting \in Settings : enabledIndexes = setting.enabled /\ calls = setting.calls
  /\ todo = <<>>
  /\ reachable = FALSE
  /\ documents = [r \in Records |-> NilItem]

\* An attempt begins, with a database in reach or not.
Attempt(item) ==
  /\ todo' = Requests(item)
  /\ reachable' \in BOOLEAN
  /\ UNCHANGED <<config, documents>>

NodeReceive == Receive /\ Attempt(current')
NodeWake == Wake /\ Attempt(current)

\* The attempt is over, with what it has done left in the database.
GiveUp(outcome) ==
  /\ \/ outcome = "error" /\ SaveFails
     \/ outcome = "ErrBackOff" /\ SaveBacksOff
  /\ todo' = <<>>
  /\ reachable' = FALSE
  /\ UNCHANGED config

\* The requests left after this one.
After(request) ==
  IF Head(todo) = {request} THEN Tail(todo) ELSE <<Head(todo) \ {request}>> \o Tail(todo)

GoOn(request) ==
  /\ todo' = After(request)
  /\ UNCHANGED <<vars, config, reachable>>

\* Mutation: the error of a request is logged and not returned.
SendLoggingErrors(request) ==
  /\ request.via # "get"
  /\ \E effect \in Effects(request) :
       /\ Take(request, effect)
       /\ \E outcome \in Outcomes(request, effect = Written(request)) : GoOn(request)

\* A request that writes, with its answer, or the failure in its place.  No other
\* process of the node depends on when within the request the database takes it.
Send(request) ==
  /\ request.via # "get"
  /\ \E effect \in Effects(request) :
       /\ Take(request, effect)
       /\ \E outcome \in Outcomes(request, effect = Written(request)) :
            IF outcome = "ok" THEN GoOn(request) ELSE GiveUp(outcome)

\* serializeBulkMiniBlocks goes on without the answer, but with nothing to send.
Get(request) ==
  /\ request.via = "get"
  /\ \E outcome \in Outcomes(request, TRUE) :
       todo' = IF outcome = "ok" THEN Tail(todo)
               ELSE <<{EmptyBulk(request.index)}>> \o Tail(Tail(todo))
  /\ UNCHANGED <<vars, config, reachable, documents>>

DoRequest ==
  /\ worker = "save"
  /\ todo # <<>>
  /\ \E request \in Head(todo) : Send(request) \/ Get(request)

\* Save returns nil after its last request.
NodeSaveSucceeds ==
  /\ todo = <<>>
  /\ SaveSucceeds
  /\ reachable' = FALSE
  /\ UNCHANGED <<config, todo, documents>>

NodeWorker ==
  \/ NodeReceive
  \/ NodeWake
  \/ DoRequest
  \/ NodeSaveSucceeds
  \/ Stop /\ UNCHANGED <<config, todo, reachable, documents>>

NodeStart == StartIndexData /\ UNCHANGED <<config, todo, reachable, documents>>
NodeAddReturn(p) == AddReturn(p) /\ UNCHANGED <<config, todo, reachable, documents>>

NodeNext ==
  \/ NodeStart
  \/ AddCall /\ UNCHANGED <<config, todo, reachable, documents>>
  \/ \E p \in Producers : NodeAddReturn(p)
  \/ NodeWorker
  \/ Close /\ UNCHANGED <<config, todo, reachable, documents>>

NodeSpec == NodeInit /\ [][NodeNext]_nodeVars

\* The goroutines are scheduled, and outages end: of the attempts at an item
\* that is tried again and again, one finds the database in reach.
NodeFairSpec ==
  /\ NodeSpec
  /\ WF_nodeVars(NodeStart)
  /\ WF_nodeVars(NodeWorker)
  /\ \A p \in Producers : WF_nodeVars(NodeAddReturn(p))
  /\ SF_nodeVars(NodeWake /\ reachable')

-----------------------------------------------------------------------------
\* What a record is after the item has been saved, and after all saved ones.
WrittenBy(item, r) == IF r \in RecordsOf(item) THEN item ELSE NilItem
Writers(r) == {k \in 1..Len(saved) : r \in Touched(saved[k])}
Last(writers) == CHOOSE k \in writers : \A l \in writers : l <= k
Expected(r) ==
  IF Writers(r) = {} THEN NilItem ELSE WrittenBy(saved[Last(Writers(r))], r)

NodeTypeOK ==
  /\ TypeOK
  /\ enabledIndexes \subseteq Indexes
  /\ \A item \in Items : IsCall(calls[item])
  /\ \A k \in 1..Len(todo) : \A request \in todo[k] : Written(request) \subseteq Touched(current)
  /\ todo # <<>> => worker = "save"
  /\ reachable \in BOOLEAN
  /\ reachable => worker = "save"
  /\ documents \in [Records -> Items \cup {NilItem}]

\* The database is the saved items, in the order they were submitted: each
\* record is the last saved item's that writes it, or not there if that one
\* removes it; only the item in hand may be ahead, with any part of its records,
\* however many attempts of it have failed in whatever places.  (The whole path
\* from the calls of dataIndexer.go to the answers of elasticClientCommon.go:
\* a shard of SaveValidatorsPubKeys or a bulk whose error is lost on the way
\* back leaves a record behind.)
RecordsOfLastSaved ==
  \A r \in Records :
    \/ documents[r] = Expected(r)
    \/ current # NilItem /\ r \in Touched(current) /\ documents[r] = WrittenBy(current, r)

\* The node's indexer implements the dispatcher, whatever its items are: each
\* attempt at an item ends in one of the outcomes doWork knows, and an item that
\* is tried again and again is saved once the database is back.
ImplementsDispatcher == FairSpec
=============================================================================
