----------------------------- MODULE Dispatcher -----------------------------
(***************************************************************************)
(* The data dispatcher of the indexer (dataDispatcher.go): goroutines of   *)
(* the node hand work items to Add, which sends them on a bounded channel; *)
(* one worker goroutine receives them and calls Save on each until it      *)
(* succeeds, sleeping between two attempts.                                *)
(*                                                                         *)
(* A Go channel is modelled by the one sequence `queue` of the items sent  *)
(* and not yet received.  Its first CacheSize elements are in the buffer;  *)
(* each later one belongs to a producer the runtime keeps parked in the    *)
(* send, in arrival order (CacheSize = 0 is an unbuffered channel, where   *)
(* every element has its sender parked).  A receive takes the head, which  *)
(* moves the first parked item into the buffer.                            *)
(*                                                                         *)
(* Durations are in any unit (the code's are 10 s, 5 min and 3 s); there   *)
(* is no clock, a sleep ends at some later step.                           *)
(***************************************************************************)
EXTENDS Integers, Sequences

CONSTANTS
  Producers,        \* goroutines of the node that call the indexer
  Items,            \* work items
  Poison,           \* the items whose Save can never succeed
  NilItem,          \* the nil interface passed to Add
  CacheSize,        \* capacity of the channel
  BackOffTime,      \* first pause after ErrBackOff
  MaxBackOff,       \* a pause this long is not made longer
  ErrorRetryTime    \* pause after any other error

ASSUME ItemsAssumption == Poison \subseteq Items /\ NilItem \notin Items
ASSUME CacheSizeAssumption == CacheSize \in Nat
ASSUME DurationAssumption ==
  /\ BackOffTime \in Nat \ {0}
  /\ MaxBackOff \in Nat
  /\ BackOffTime <= MaxBackOff
  /\ ErrorRetryTime \in Nat

VARIABLES
  submitted,        \* history: the items sent on the channel, in order
  saved,            \* history: the items whose Save returned nil, in order
  queue,            \* chanWorkItems and the senders parked on it
  adding,           \* adding[p]: the item of the Add call p is in, or NilItem
  worker,           \* where the worker goroutine is
  current,          \* the item doWork is called with, or NilItem
  backOffTime,      \* dataDispatcher.backOffTime
  delay,            \* duration of the sleep the worker is in, 0 when awake
  ctxDone           \* whether cancelFunc was called

vars == <<submitted, saved, queue, adding, worker, current, backOffTime, delay, ctxDone>>
workerVars == <<saved, worker, current, backOffTime, delay>>

WorkerStates == {"unstarted", "select", "save", "sleep", "stopped"}

-----------------------------------------------------------------------------
Sent(seq) == {seq[i] : i \in 1..Len(seq)}

\* The items whose sender is parked: those past the buffer.
Parked == {queue[i] : i \in (CacheSize + 1)..Len(queue)}

\* increaseBackOffTime
Increased(time) ==
  IF time = 0 THEN BackOffTime
  ELSE IF time >= MaxBackOff THEN time
  ELSE time + time \div 5

Init ==
  /\ submitted = <<>>
  /\ saved = <<>>
  /\ queue = <<>>
  /\ adding = [p \in Producers |-> NilItem]
  /\ worker = "unstarted"
  /\ current = NilItem
  /\ backOffTime = 0
  /\ delay = 0
  /\ ctxDone = FALSE

\* NewIndexer starts the worker before it hands the indexer to the node, so no
\* other step precedes this one.
StartIndexData ==
  /\ worker = "unstarted"
  /\ worker' = "select"
  /\ UNCHANGED <<submitted, saved, queue, adding, current, backOffTime, delay, ctxDone>>

\* Add up to the point where the runtime has taken the item, into the buffer or
\* with its sender parked.  Each call brings a new item: dataIndexer allocates
\* one per call.  A nil item is refused and the call is over.
Add(p, item) ==
  /\ worker # "unstarted"
  /\ adding[p] = NilItem
  /\ item \notin Sent(submitted)
  /\ IF item = NilItem
     THEN UNCHANGED <<submitted, queue, adding>>
     ELSE /\ submitted' = Append(submitted, item)
          /\ queue' = Append(queue, item)
          /\ adding' = [adding EXCEPT ![p] = item]
  /\ UNCHANGED <<workerVars, ctxDone>>

\* Mutation: Add returns with its item past the buffer.
AddReturnEarly(p) ==
  /\ adding[p] # NilItem
  /\ adding' = [adding EXCEPT ![p] = NilItem]
  /\ UNCHANGED <<workerVars, submitted, queue, ctxDone>>

\* The send completes once its item is in the buffer or received.
AddReturn(p) ==
  /\ adding[p] # NilItem
  /\ adding[p] \notin Parked
  /\ adding' = [adding EXCEPT ![p] = NilItem]
  /\ UNCHANGED <<workerVars, submitted, queue, ctxDone>>

\* Mutation: the last item in is the first out.
ReceiveLast ==
  /\ worker = "select"
  /\ queue # <<>>
  /\ current' = queue[Len(queue)]
  /\ queue' = SubSeq(queue, 1, Len(queue) - 1)
  /\ worker' = "save"
  /\ UNCHANGED <<submitted, saved, adding, backOffTime, delay, ctxDone>>

\* The worker's select, one branch per ready case; when both are ready the
\* runtime picks either.
Receive ==
  /\ worker = "select"
  /\ queue # <<>>
  /\ current' = Head(queue)
  /\ queue' = Tail(queue)
  /\ worker' = "save"
  /\ UNCHANGED <<submitted, saved, adding, backOffTime, delay, ctxDone>>

Stop ==
  /\ worker = "select"
  /\ ctxDone
  /\ worker' = "stopped"
  /\ UNCHANGED <<submitted, saved, queue, adding, current, backOffTime, delay, ctxDone>>

\* Mutation: success does not reset the back off.
SaveSucceedsKeepingBackOff ==
  /\ worker = "save"
  /\ current \notin Poison
  /\ saved' = Append(saved, current)
  /\ current' = NilItem
  /\ worker' = "select"
  /\ UNCHANGED <<submitted, queue, adding, backOffTime, delay, ctxDone>>

\* The three outcomes of wi.Save in doWork.
SaveSucceeds ==
  /\ worker = "save"
  /\ current \notin Poison
  /\ saved' = Append(saved, current)
  /\ current' = NilItem
  /\ backOffTime' = 0
  /\ worker' = "select"
  /\ UNCHANGED <<submitted, queue, adding, delay, ctxDone>>

SaveBacksOff ==
  /\ worker = "save"
  /\ backOffTime' = Increased(backOffTime)
  /\ delay' = backOffTime'
  /\ worker' = "sleep"
  /\ UNCHANGED <<submitted, saved, queue, adding, current, ctxDone>>

\* Mutation: doWork returns on an error instead of trying again.
SaveFailsGivingUp ==
  /\ worker = "save"
  /\ backOffTime' = 0
  /\ current' = NilItem
  /\ worker' = "select"
  /\ UNCHANGED <<submitted, saved, queue, adding, delay, ctxDone>>

SaveFails ==
  /\ worker = "save"
  /\ backOffTime' = 0
  /\ delay' = ErrorRetryTime
  /\ worker' = "sleep"
  /\ UNCHANGED <<submitted, saved, queue, adding, current, ctxDone>>

\* Mutation: a sleep that Close interrupts without ending the worker.
WakeUnlessClosed ==
  /\ worker = "sleep"
  /\ ~ctxDone
  /\ delay' = 0
  /\ worker' = "save"
  /\ UNCHANGED <<submitted, saved, queue, adding, current, backOffTime, ctxDone>>

\* time.Sleep ends and doWork tries again; it does not look at the context.
Wake ==
  /\ worker = "sleep"
  /\ delay' = 0
  /\ worker' = "save"
  /\ UNCHANGED <<submitted, saved, queue, adding, current, backOffTime, ctxDone>>

\* Close only cancels the context: it neither waits nor touches the channel.
Close ==
  /\ worker # "unstarted"
  /\ ctxDone' = TRUE
  /\ UNCHANGED <<workerVars, submitted, queue, adding>>

AddCall == \E p \in Producers, item \in Items \cup {NilItem} : Add(p, item)
Worker == Receive \/ Stop \/ SaveSucceeds \/ SaveBacksOff \/ SaveFails \/ Wake

Next ==
  \/ StartIndexData
  \/ AddCall
  \/ \E p \in Producers : AddReturn(p)
  \/ Worker
  \/ Close

Spec == Init /\ [][Next]_vars

\* Every goroutine that can move does, whatever Save answers.
Scheduled ==
  /\ WF_vars(StartIndexData)
  /\ WF_vars(Worker)
  /\ \A p \in Producers : WF_vars(AddReturn(p))

ScheduledSpec == Spec /\ Scheduled

\* Moreover the database is not out of reach for ever: an item that is tried
\* again and again is saved in the end, unless it is poisoned.
FairSpec == ScheduledSpec /\ SF_vars(SaveSucceeds)

-----------------------------------------------------------------------------
\* 1 while the worker has an item, 0 otherwise.
InHand == IF current = NilItem THEN 0 ELSE 1

TypeOK ==
  /\ submitted \in Seq(Items)
  /\ saved \in Seq(Items)
  /\ queue \in Seq(Items)
  /\ adding \in [Producers -> Items \cup {NilItem}]
  /\ worker \in WorkerStates
  /\ current \in Items \cup {NilItem}
  /\ (current # NilItem) <=> (worker \in {"save", "sleep"})
  /\ backOffTime \in Nat
  /\ delay \in Nat
  /\ ctxDone \in BOOLEAN

\* No item is lost, repeated or overtaken on its way from Add to the database:
\* what was submitted is what was saved, then the item in the worker's hand,
\* then the channel, in that order.  (The channel and the retry loop of doWork.)
NothingLostOrReordered ==
  /\ Len(submitted) = Len(saved) + InHand + Len(queue)
  /\ \A i \in 1..Len(saved) : submitted[i] = saved[i]
  /\ current # NilItem => submitted[Len(saved) + 1] = current
  /\ \A i \in 1..Len(queue) : submitted[Len(saved) + InHand + i] = queue[i]

\* Backpressure: once Add has returned, its item is saved, in the worker's hand
\* or among the next CacheSize ones, so a caller is never more than CacheSize + 1
\* accepted items ahead of the database.  (Add blocks on the full channel.)
Backpressure ==
  \A k \in 1..Len(submitted) :
    k > Len(saved) + InHand + CacheSize => \E p \in Producers : adding[p] = submitted[k]

\* The pauses stay within their limits: never zero, and a back off never reaches
\* a fifth more than MaxBackOff, the last increase before the cap.  A
\* successful or otherwise failed Save forgets the back off, so that every item
\* starts without one.  (doWork and increaseBackOffTime.)
BackOffBounds ==
  /\ backOffTime # 0 => backOffTime \in BackOffTime..(MaxBackOff + MaxBackOff \div 5)
  /\ worker = "sleep" => delay = (IF backOffTime = 0 THEN ErrorRetryTime ELSE backOffTime)
  /\ worker \in {"unstarted", "select", "stopped"} => backOffTime = 0

\* Liveness: every submitted item is saved, unless the worker stops first and
\* leaves it in the channel (after Close the select may pick either case).
EventuallySaved ==
  \A item \in Items :
    item \in Sent(submitted) ~> (item \in Sent(saved) \/ worker = "stopped")

\* Liveness: no caller stays in Add for ever, unless the worker stops: Add does
\* not look at the context, so a sender parked by then is parked for good.
AddReturns ==
  \A p \in Producers :
    adding[p] # NilItem ~> (adding[p] = NilItem \/ worker = "stopped")

\* Liveness: "Close will close the endless running go routine" (comment of
\* Close).  It does when every item can be saved; doWork, which never looks at
\* the context, keeps the goroutine running on a poisoned one.
CloseStopsWorker == ctxDone ~> worker = "stopped"

\* The dispatcher implements the sequential indexing it promises.
Promise == INSTANCE SequentialIndexing WITH closed <- ctxDone
Sequential == Promise!FairSpec
=============================================================================
