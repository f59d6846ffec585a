-------------------------- MODULE AccountsIndexing --------------------------
(***************************************************************************)
(* Account balances in Elasticsearch.  Accounts of a shard are written by  *)
(* the node of that shard only (indexAlteredAccounts leaves out the rest), *)
(* so this is one node, its chain and its worker.                          *)
(*                                                                         *)
(* After the transactions of a block, its save item loads from the node's  *)
(* state every account the block altered, one by one, and writes their     *)
(* balances to the index "accounts" by address and to "accountshistory" by *)
(* address and block timestamp.  The node goes on committing and reverting *)
(* blocks meanwhile: what is loaded is the balance at the time of the      *)
(* load, not after the block.  SaveAccounts items bring their own balances,*)
(* those at the time of the call.  Any failure runs the item again from    *)
(* its start; an account that cannot be loaded is only skipped.  The items  *)
(* are only in memory: a node that restarts has lost them.                 *)
(*                                                                         *)
(* Abstractions: a balance is named by the block that last altered the     *)
(* account; `asOf` counts the changes of the chain before a balance was    *)
(* read and is not in the database; a block stands for its timestamp;      *)
(* nothing of an item before its accounts is modelled (BlockIndexing and   *)
(* TxIndexing), and remove items, which leave accounts alone, are not      *)
(* queued.  A bulk that fails has written any part of its documents, which *)
(* stands for several bulks too.                                           *)
(***************************************************************************)
EXTENDS Naturals, Sequences, FiniteSetsExt

CONSTANTS
  Addresses,        \* accounts of the node's shard
  Blocks,           \* blocks of the node's chain, and their timestamps
  alters,           \* alters[b]: accounts block b alters (prepareTransactionsForDatabase)
  Genesis,          \* the first balance, and the timestamp of the genesis block
  Nothing,          \* no document, no account loaded
  HandedOver,       \* sets of accounts a SaveAccounts call may bring
  MaxCalls,         \* bound: SaveAccounts calls of the node
  MaxRestarts,      \* bound: restarts of the node
  EnabledIndexes    \* indexes enabled in the configuration

ASSUME AccountsAssumption ==
  /\ alters \in [Blocks -> SUBSET Addresses]
  /\ Genesis \notin Blocks /\ Nothing \notin Blocks /\ Nothing # Genesis
  /\ HandedOver \subseteq SUBSET Addresses /\ MaxCalls \in Nat
  /\ MaxRestarts \in Nat
  /\ EnabledIndexes \subseteq {"transactions", "accounts", "accountshistory"}

VARIABLES
  chain,            \* the blocks committed and not reverted
  now,              \* history: number of commits and reverts
  committedAt,      \* history: committedAt[b], 0 before b is committed
  lastChange,       \* history: lastChange[a], what last changed a's balance
  calls,            \* SaveAccounts calls made
  restarts,         \* restarts so far
  items,            \* items not completed, the head in progress
  step,             \* what the worker does next
  toLoad,           \* accounts of this attempt not yet loaded
  loaded,           \* loaded[a]: balance this attempt writes for a
  accounts,         \* accounts[a]: document in "accounts"
  balanceHistory,   \* balanceHistory[a][t]: document in "accountshistory"
  lastSaved,        \* history: lastSaved[a], timestamp of the last item that wrote a
  missed            \* history: accounts their last item did not load, or lost in a restart

chainVars == <<chain, now, committedAt, lastChange, calls, restarts>>
storeVars == <<accounts, balanceHistory>>
vars == <<chainVars, items, step, toLoad, loaded, storeVars, lastSaved, missed>>

Timestamps == Blocks \cup {Genesis}
Balance == [block : Timestamps, asOf : Nat]
NoneLoaded == [a \in Addresses |-> Nothing]

-----------------------------------------------------------------------------
(* The node. *)

Top == IF chain = <<>> THEN Genesis ELSE chain[Len(chain)]

\* The block whose balance of `a` is the current one.
LastAltering(a) ==
  LET heights == {i \in DOMAIN chain : a \in alters[chain[i]]}
  IN IF heights = {} THEN Genesis ELSE chain[Max(heights)]

\* Mutation: the balance saved last is taken again.
AccountSavedLast(a) ==
  IF accounts[a] # Nothing THEN accounts[a] ELSE [block |-> LastAltering(a), asOf |-> now]

\* LoadAccount on the node's state.
Account(a) == [block |-> LastAltering(a), asOf |-> now]

\* The node commits a block and queues it.
SaveBlock(b) ==
  /\ committedAt[b] = 0
  /\ chain' = Append(chain, b)
  /\ now' = now + 1
  /\ committedAt' = [committedAt EXCEPT ![b] = now + 1]
  /\ lastChange' = [a \in Addresses |-> IF a \in alters[b] THEN "commit" ELSE lastChange[a]]
  /\ items' = Append(items, [op |-> "block", timestamp |-> b, balances |-> NoneLoaded])
  /\ UNCHANGED <<calls, restarts, step, toLoad, loaded, storeVars, lastSaved, missed>>

\* The node reverts its last block; the remove item leaves accounts alone.
RevertIndexedBlock ==
  /\ chain # <<>>
  /\ chain' = SubSeq(chain, 1, Len(chain) - 1)
  /\ now' = now + 1
  /\ lastChange' = [a \in Addresses |-> IF a \in alters[Top] THEN "revert" ELSE lastChange[a]]
  /\ UNCHANGED <<committedAt, calls, restarts, items, step, toLoad, loaded, storeVars, lastSaved, missed>>

\* The node hands over accounts as they are now.
CallSaveAccounts(as) ==
  /\ calls < MaxCalls
  /\ calls' = calls + 1
  /\ items' = Append(items,
       [op |-> "accounts", timestamp |-> Top,
        balances |-> [a \in Addresses |-> IF a \in as THEN Account(a) ELSE Nothing]])
  /\ UNCHANGED <<chain, now, committedAt, lastChange, restarts, step, toLoad, loaded, storeVars,
                 lastSaved, missed>>

-----------------------------------------------------------------------------
(* The worker. *)

\* The accounts an item is about.
Concerned(item) ==
  IF item.op = "block" THEN alters[item.timestamp]
  ELSE {a \in Addresses : item.balances[a] # Nothing}

\* The accounts SaveTransactions passes on to indexAlteredAccounts: none if
\* transactions are not indexed, when it returns before.
AlteredAccounts(item) ==
  IF item.op = "block" /\ "transactions" \in EnabledIndexes THEN alters[item.timestamp] ELSE {}

\* The attempt begins: a block item loads, a SaveAccounts item has its balances.
Begin(item) ==
  /\ step' = IF item.op = "block" THEN "load" ELSE "accounts"
  /\ toLoad' = AlteredAccounts(item)
  /\ loaded' = item.balances

Start ==
  /\ step = "idle"
  /\ items # <<>>
  /\ Begin(Head(items))
  /\ UNCHANGED <<chainVars, items, storeVars, lastSaved, missed>>

\* Mutation: a failed item is given up.
AgainGivesUp ==
  /\ step' = "idle"
  /\ toLoad' = {}
  /\ loaded' = NoneLoaded
  /\ items' = Tail(items)
  /\ UNCHANGED <<chainVars, lastSaved, missed>>

\* Save returns an error and doWork runs the item again.
Again ==
  /\ Begin(Head(items))
  /\ UNCHANGED <<chainVars, items, lastSaved, missed>>

Written == {a \in Addresses : loaded[a] # Nothing}

\* Mutation: the accounts loaded are kept for the next item.
CompleteKeepingLoaded ==
  /\ step' = "idle"
  /\ items' = Tail(items)
  /\ lastSaved' = [a \in Addresses |->
       IF a \in Written THEN Head(items).timestamp ELSE lastSaved[a]]
  /\ missed' = (missed \ Concerned(Head(items))) \cup (Concerned(Head(items)) \ Written)
  /\ UNCHANGED <<chainVars, toLoad, loaded>>

Complete ==
  /\ step' = "idle"
  /\ items' = Tail(items)
  /\ toLoad' = {}
  /\ loaded' = NoneLoaded
  /\ lastSaved' = [a \in Addresses |->
       IF a \in Written THEN Head(items).timestamp ELSE lastSaved[a]]
  /\ missed' = (missed \ Concerned(Head(items))) \cup (Concerned(Head(items)) \ Written)
  /\ UNCHANGED chainVars

\* The loop of indexAlteredAccounts, in the order of a Go map: an account that
\* cannot be loaded is skipped.
LoadAccount(a) ==
  /\ step = "load"
  /\ "accounts" \in EnabledIndexes
  /\ a \in toLoad
  /\ toLoad' = toLoad \ {a}
  /\ loaded' \in {loaded, [loaded EXCEPT ![a] = Account(a)]}
  /\ UNCHANGED <<chainVars, items, step, storeVars, lastSaved, missed>>

\* indexAlteredAccounts has nothing to save, or calls SaveAccounts.
EndLoading ==
  /\ step = "load"
  /\ toLoad = {} \/ "accounts" \notin EnabledIndexes
  /\ IF Written = {}
     THEN Complete
     ELSE step' = "accounts" /\ UNCHANGED <<chainVars, items, toLoad, loaded, lastSaved, missed>>
  /\ UNCHANGED storeVars

WriteAccounts(as) ==
  accounts' = [a \in Addresses |-> IF a \in as THEN loaded[a] ELSE accounts[a]]

\* Mutation: the error of the accounts bulk is only logged.
SaveAccountsErrorLogged ==
  /\ step = "accounts"
  /\ \E as \in SUBSET Written : WriteAccounts(as)
  /\ step' = "history"
  /\ UNCHANGED <<chainVars, items, toLoad, loaded, balanceHistory, lastSaved, missed>>

\* SaveAccounts: the bulk requests to "accounts", then saveAccountsHistory.
SaveAccounts ==
  /\ step = "accounts"
  /\ IF "accounts" \in EnabledIndexes
     THEN \/ /\ WriteAccounts(Written)
             /\ step' = "history"
             /\ UNCHANGED <<chainVars, items, toLoad, loaded, lastSaved, missed>>
          \/ /\ \E as \in SUBSET Written : WriteAccounts(as)
             /\ Again
     ELSE Complete /\ UNCHANGED accounts
  /\ UNCHANGED balanceHistory

WriteHistory(as) ==
  balanceHistory' = [a \in Addresses |->
    IF a \in as THEN [balanceHistory[a] EXCEPT ![Head(items).timestamp] = loaded[a]]
                ELSE balanceHistory[a]]

\* saveAccountsHistory: the balances just written, under the block's timestamp.
SaveHistory ==
  /\ step = "history"
  /\ IF "accountshistory" \in EnabledIndexes
     THEN \/ WriteHistory(Written) /\ Complete
          \/ (\E as \in SUBSET Written : WriteHistory(as)) /\ Again
     ELSE Complete /\ UNCHANGED balanceHistory
  /\ UNCHANGED accounts

\* The node is killed and starts again: its chain is on its disk, its items and
\* what the worker had loaded were in memory.
Restart ==
  /\ items # <<>>
  /\ restarts < MaxRestarts
  /\ restarts' = restarts + 1
  /\ items' = <<>>
  /\ step' = "idle"
  /\ toLoad' = {}
  /\ loaded' = NoneLoaded
  /\ missed' = missed \cup UNION {Concerned(items[i]) : i \in DOMAIN items}
  /\ UNCHANGED <<chain, now, committedAt, lastChange, calls, storeVars, lastSaved>>

-----------------------------------------------------------------------------
Init ==
  /\ chain = <<>>
  /\ now = 0
  /\ committedAt = [b \in Blocks |-> 0]
  /\ lastChange = [a \in Addresses |-> "none"]
  /\ calls = 0
  /\ restarts = 0
  /\ items = <<>>
  /\ step = "idle"
  /\ toLoad = {}
  /\ loaded = NoneLoaded
  /\ accounts = NoneLoaded
  /\ balanceHistory = [a \in Addresses |-> [t \in Timestamps |-> Nothing]]
  /\ lastSaved = NoneLoaded
  /\ missed = {}

Node ==
  \/ \E b \in Blocks : SaveBlock(b)
  \/ RevertIndexedBlock
  \/ \E as \in HandedOver : CallSaveAccounts(as)

Worker ==
  \/ Start
  \/ \E a \in Addresses : LoadAccount(a)
  \/ EndLoading
  \/ SaveAccounts
  \/ SaveHistory

Next == Node \/ Restart \/ Worker

Spec == Init /\ [][Next]_vars

\* The worker runs and neither kind of bulk fails for ever.
FairSpec ==
  /\ Spec
  /\ WF_vars(Worker)
  /\ SF_vars(SaveAccounts /\ step' = "history")
  /\ SF_vars(SaveHistory /\ step' = "idle")

-----------------------------------------------------------------------------
Loaded == Balance \cup {Nothing}
Items == [op : {"block", "accounts"}, timestamp : Timestamps, balances : [Addresses -> Loaded]]

TypeOK ==
  /\ chain \in Seq(Blocks)
  /\ now \in Nat
  /\ committedAt \in [Blocks -> Nat]
  /\ lastChange \in [Addresses -> {"none", "commit", "revert"}]
  /\ calls \in 0..MaxCalls
  /\ restarts \in 0..MaxRestarts
  /\ items \in Seq(Items)
  /\ step \in {"idle", "load", "accounts", "history"}
  /\ toLoad \subseteq Addresses
  /\ loaded \in [Addresses -> Loaded]
  /\ accounts \in [Addresses -> Loaded]
  /\ balanceHistory \in [Addresses -> [Timestamps -> Loaded]]
  /\ lastSaved \in [Addresses -> Timestamps \cup {Nothing}]
  /\ missed \subseteq Addresses
  /\ IF step = "idle" THEN toLoad = {} /\ Written = {}
                      ELSE items # <<>> /\ toLoad \cup Written \subseteq Concerned(Head(items))

\* The item in progress is about account a.
Saving(a) == step # "idle" /\ a \in Concerned(Head(items))

\* The two indexes tell the same: the balance of an account is the one its last
\* item recorded for its timestamp, although the two are written by separate
\* requests, either may fail half-way, and a repeated item may load another balance.
\* (Not so for an account an attempt wrote and its repeat could not load again, or
\* was lost before it in a restart.)
HistoryAgrees ==
  "accountshistory" \in EnabledIndexes =>
    \A a \in Addresses :
      lastSaved[a] # Nothing /\ a \notin missed /\ ~Saving(a) =>
        accounts[a] = balanceHistory[a][lastSaved[a]]

\* A record of the history is never of a balance from before its block: however
\* late it is loaded or handed over, it was read after the block was committed.
HistoryNotEarlier ==
  \A a \in Addresses, b \in Blocks :
    balanceHistory[a][b] # Nothing =>
      committedAt[b] # 0 /\ balanceHistory[a][b].asOf >= committedAt[b]

\* An item about account a is waiting.
Waiting(a) == \E i \in DOMAIN items : a \in Concerned(items[i])

\* Without items waiting, an account last altered by a block that is still on the
\* chain, and which was not missed, shows its current balance: no SaveAccounts
\* call with older balances, no backlog and no repeated item leaves an old one.
\* (A revert queues no item for the accounts it restores: those stay wrong.)
CaughtUp ==
  "accounts" \in EnabledIndexes =>
    \A a \in Addresses :
      lastChange[a] = "commit" /\ a \notin missed /\ ~Waiting(a) =>
        accounts[a] # Nothing /\ accounts[a].block = LastAltering(a)

\* Liveness: when the node stops, every account altered last by a commit and not
\* missed ends up with its current balance, after any number of failures.
EventuallyCaughtUp ==
  \A a \in Addresses :
    <>[](lastChange[a] = "commit" /\ a \notin missed =>
           accounts[a] # Nothing /\ accounts[a].block = LastAltering(a))
=============================================================================
