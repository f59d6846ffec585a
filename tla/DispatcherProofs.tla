-------------------------- MODULE DispatcherProofs --------------------------
(***************************************************************************)
(* Proofs about Dispatcher for every set of producers and items, every     *)
(* channel capacity and every choice of the durations.                     *)
(***************************************************************************)
EXTENDS Dispatcher, TLAPS

\* Appending an element keeps the elements before it.
LEMMA AppendFacts ==
  ASSUME NEW S, NEW seq \in Seq(S), NEW e \in S
  PROVE  /\ Append(seq, e) \in Seq(S)
         /\ Len(Append(seq, e)) = Len(seq) + 1
         /\ \A i \in 1..Len(seq) : Append(seq, e)[i] = seq[i]
         /\ Append(seq, e)[Len(seq) + 1] = e
  OBVIOUS

\* Removing the head shifts the elements by one.
LEMMA TailFacts ==
  ASSUME NEW S, NEW seq \in Seq(S), seq # <<>>
  PROVE  /\ Head(seq) = seq[1]
         /\ Head(seq) \in S
         /\ Tail(seq) \in Seq(S)
         /\ Len(seq) \in Nat \ {0}
         /\ Len(Tail(seq)) = Len(seq) - 1
         /\ \A i \in 1..Len(Tail(seq)) : Tail(seq)[i] = seq[i + 1]
  OBVIOUS

\* A back off stays under the limit and never returns to zero.
LEMMA IncreasedBounds ==
  ASSUME NEW time \in Nat,
         time # 0 => time \in BackOffTime..(MaxBackOff + MaxBackOff \div 5)
  PROVE  /\ Increased(time) \in Nat
         /\ Increased(time) # 0
         /\ Increased(time) \in BackOffTime..(MaxBackOff + MaxBackOff \div 5)
<1>1. MaxBackOff \div 5 \in Nat /\ MaxBackOff \in Nat /\ BackOffTime \in Nat \ {0}
  BY DurationAssumption
<1>2. CASE time = 0
  BY <1>1, <1>2, DurationAssumption DEF Increased
<1>3. CASE time # 0 /\ time >= MaxBackOff
  BY <1>1, <1>3 DEF Increased
<1>4. CASE time # 0 /\ time < MaxBackOff
  <2>1. time \div 5 \in Nat /\ time \div 5 <= MaxBackOff \div 5
    BY <1>1, <1>4
  <2> QED
    BY <1>1, <1>4, <2>1 DEF Increased
<1> QED
  BY <1>1, <1>2, <1>3, <1>4

-----------------------------------------------------------------------------
(* Type correctness. *)

LEMMA InitTypeOK == Init => TypeOK
<1> SUFFICES ASSUME Init PROVE TypeOK
  OBVIOUS
<1> USE DEF Init
<1>1. submitted \in Seq(Items) /\ saved \in Seq(Items) /\ queue \in Seq(Items)
  OBVIOUS
<1>2. adding \in [Producers -> Items \cup {NilItem}] /\ current \in Items \cup {NilItem}
  OBVIOUS
<1>3. worker \in WorkerStates /\ ((current # NilItem) <=> (worker \in {"save", "sleep"}))
  BY DEF WorkerStates
<1>4. backOffTime \in Nat /\ delay \in Nat /\ ctxDone \in BOOLEAN
  OBVIOUS
<1> QED
  BY <1>1, <1>2, <1>3, <1>4 DEF TypeOK

LEMMA NextTypeOK == TypeOK /\ [Next]_vars => TypeOK'
<1> SUFFICES ASSUME TypeOK, [Next]_vars PROVE TypeOK'
  OBVIOUS
<1> USE DEF TypeOK, WorkerStates, workerVars
<1>1. CASE StartIndexData
  BY <1>1 DEF StartIndexData
<1>2. ASSUME NEW p \in Producers, NEW item \in Items \cup {NilItem}, Add(p, item)
      PROVE  TypeOK'
  <2>1. CASE item = NilItem
    BY <1>2, <2>1 DEF Add
  <2>2. CASE item # NilItem
    <3>1. submitted' \in Seq(Items) /\ queue' \in Seq(Items)
      <4>1. item \in Items /\ submitted \in Seq(Items) /\ queue \in Seq(Items)
        BY <2>2
      <4>2. Append(submitted, item) \in Seq(Items) /\ Append(queue, item) \in Seq(Items)
        BY <4>1, AppendFacts
      <4> QED
        BY <1>2, <2>2, <4>2 DEF Add
    <3>2. adding' \in [Producers -> Items \cup {NilItem}]
      BY <1>2, <2>2 DEF Add
    <3> QED
      BY <1>2, <3>1, <3>2 DEF Add
  <2> QED
    BY <2>1, <2>2
<1>3. ASSUME NEW p \in Producers, AddReturn(p) PROVE TypeOK'
  BY <1>3 DEF AddReturn
<1>4. CASE Receive
  <2>1. Head(queue) \in Items /\ Tail(queue) \in Seq(Items)
    BY <1>4, TailFacts DEF Receive
  <2> QED
    BY <1>4, <2>1, ItemsAssumption DEF Receive
<1>5. CASE Stop
  BY <1>5 DEF Stop
<1>6. CASE SaveSucceeds
  <2>1. saved' \in Seq(Items)
    BY <1>6, AppendFacts DEF SaveSucceeds
  <2> QED
    BY <1>6, <2>1 DEF SaveSucceeds
<1>7. CASE SaveBacksOff
  <2>1. backOffTime' \in Nat
    BY <1>7, DurationAssumption DEF SaveBacksOff, Increased
  <2> QED
    BY <1>7, <2>1 DEF SaveBacksOff
<1>8. CASE SaveFails
  BY <1>8, DurationAssumption DEF SaveFails
<1>9. CASE Wake
  BY <1>9 DEF Wake
<1>10. CASE Close
  BY <1>10 DEF Close
<1>11. CASE UNCHANGED vars
  BY <1>11 DEF vars
<1> QED
  BY <1>1, <1>2, <1>3, <1>4, <1>5, <1>6, <1>7, <1>8, <1>9, <1>10, <1>11
  DEF Next, AddCall, Worker

\* Every variable of the dispatcher keeps its type, and the worker has an item
\* exactly while it saves or sleeps.
THEOREM TypeCorrect == Spec => []TypeOK
  BY InitTypeOK, NextTypeOK, PTL DEF Spec

-----------------------------------------------------------------------------
(* Nothing is lost or reordered.  The invariant is inductive beside TypeOK. *)

LEMMA InitInOrder == Init => NothingLostOrReordered
  BY DEF Init, NothingLostOrReordered, InHand

LEMMA NextInOrder ==
  TypeOK /\ NothingLostOrReordered /\ [Next]_vars => NothingLostOrReordered'
<1> SUFFICES ASSUME TypeOK, NothingLostOrReordered, [Next]_vars
             PROVE  NothingLostOrReordered'
  OBVIOUS
<1>0. /\ submitted \in Seq(Items) /\ saved \in Seq(Items) /\ queue \in Seq(Items)
      /\ Len(submitted) \in Nat /\ Len(saved) \in Nat /\ Len(queue) \in Nat
      /\ InHand \in {0, 1}
  BY DEF TypeOK, InHand
<1>a. ASSUME UNCHANGED <<submitted, saved, queue, current>> PROVE NothingLostOrReordered'
  BY <1>a DEF NothingLostOrReordered, InHand
<1>1. ASSUME NEW p \in Producers, NEW item \in Items \cup {NilItem}, Add(p, item)
      PROVE  NothingLostOrReordered'
  <2>1. CASE item = NilItem
    BY <1>1, <2>1, <1>a DEF Add, workerVars
  <2>2. CASE item # NilItem
    <3>1. /\ submitted' = Append(submitted, item) /\ queue' = Append(queue, item)
          /\ saved' = saved /\ current' = current /\ InHand' = InHand
      BY <1>1, <2>2 DEF Add, workerVars, InHand
    <3>2. /\ Len(submitted') = Len(submitted) + 1
          /\ \A i \in 1..Len(submitted) : submitted'[i] = submitted[i]
          /\ submitted'[Len(submitted) + 1] = item
      BY <1>0, <2>2, <3>1, AppendFacts
    <3>3. /\ Len(queue') = Len(queue) + 1
          /\ \A i \in 1..Len(queue) : queue'[i] = queue[i]
          /\ queue'[Len(queue) + 1] = item
      BY <1>0, <2>2, <3>1, AppendFacts
    <3>4. Len(submitted') = Len(saved') + InHand' + Len(queue')
      BY <1>0, <3>1, <3>2, <3>3 DEF NothingLostOrReordered
    <3>5. \A i \in 1..Len(saved') : submitted'[i] = saved'[i]
      BY <1>0, <3>1, <3>2 DEF NothingLostOrReordered
    <3>6. current' # NilItem => submitted'[Len(saved') + 1] = current'
      BY <1>0, <3>1, <3>2 DEF NothingLostOrReordered, InHand
    <3>7. ASSUME NEW i \in 1..Len(queue')
          PROVE  submitted'[Len(saved') + InHand' + i] = queue'[i]
      <4>1. CASE i = Len(queue) + 1
        BY <1>0, <3>1, <3>2, <3>3, <4>1 DEF NothingLostOrReordered
      <4>2. CASE i \in 1..Len(queue)
        <5>1. submitted[Len(saved) + InHand + i] = queue[i]
          BY <4>2 DEF NothingLostOrReordered
        <5>2. Len(saved) + InHand + i \in 1..Len(submitted)
          BY <1>0, <4>2 DEF NothingLostOrReordered
        <5> QED
          BY <3>1, <3>2, <3>3, <4>2, <5>1, <5>2
      <4> QED
        BY <1>0, <3>3, <4>1, <4>2
    <3> QED
      BY <3>4, <3>5, <3>6, <3>7 DEF NothingLostOrReordered
  <2> QED
    BY <2>1, <2>2
<1>2. CASE Receive
  <2>1. /\ current = NilItem /\ InHand = 0 /\ InHand' = 1
        /\ submitted' = submitted /\ saved' = saved
        /\ current' = Head(queue) /\ queue' = Tail(queue) /\ queue # <<>>
    <3>1. Head(queue) \in Items
      BY <1>0, <1>2, TailFacts DEF Receive
    <3> QED
      BY <1>2, <3>1, ItemsAssumption DEF Receive, TypeOK, InHand
  <2>2. /\ current' = queue[1] /\ Len(queue) \in Nat \ {0}
        /\ Len(queue') = Len(queue) - 1
        /\ \A i \in 1..Len(queue') : queue'[i] = queue[i + 1]
    BY <1>0, <2>1, TailFacts
  <2>3. submitted[Len(saved) + 1] = queue[1]
    BY <1>0, <2>1, <2>2 DEF NothingLostOrReordered
  <2>4. \A i \in 1..Len(queue') : submitted[Len(saved) + 1 + i] = queue'[i]
    BY <1>0, <2>1, <2>2 DEF NothingLostOrReordered
  <2>5. Len(submitted') = Len(saved') + InHand' + Len(queue')
    <3>1. Len(submitted) = Len(saved) + 0 + Len(queue)
      BY <2>1 DEF NothingLostOrReordered
    <3>2. Len(submitted') = Len(submitted) /\ Len(saved') = Len(saved) /\ InHand' = 1
      BY <2>1
    <3> QED
      BY <1>0, <2>2, <3>1, <3>2
  <2>6. \A i \in 1..Len(saved') : submitted'[i] = saved'[i]
    BY <2>1 DEF NothingLostOrReordered
  <2> QED
    BY <2>1, <2>2, <2>3, <2>4, <2>5, <2>6 DEF NothingLostOrReordered
<1>3. CASE SaveSucceeds
  <2>1. /\ current \in Items /\ InHand = 1 /\ InHand' = 0 /\ current' = NilItem
        /\ submitted' = submitted /\ queue' = queue /\ saved' = Append(saved, current)
    BY <1>3 DEF SaveSucceeds, TypeOK, InHand
  <2>2. /\ Len(saved') = Len(saved) + 1
        /\ \A i \in 1..Len(saved) : saved'[i] = saved[i]
        /\ saved'[Len(saved) + 1] = current
    BY <1>0, <2>1, AppendFacts
  <2>3. submitted[Len(saved) + 1] = current
    BY <1>3 DEF SaveSucceeds, TypeOK, NothingLostOrReordered
  <2>4. \A i \in 1..Len(saved') : submitted[i] = saved'[i]
    BY <1>0, <2>2, <2>3 DEF NothingLostOrReordered
  <2> QED
    BY <1>0, <2>1, <2>2, <2>4 DEF NothingLostOrReordered
<1>4. CASE StartIndexData \/ Stop \/ SaveBacksOff \/ SaveFails \/ Wake \/ Close
  BY <1>4, <1>a DEF StartIndexData, Stop, SaveBacksOff, SaveFails, Wake, Close, workerVars
<1>5. ASSUME NEW p \in Producers, AddReturn(p) PROVE NothingLostOrReordered'
  BY <1>5, <1>a DEF AddReturn, workerVars
<1>6. CASE UNCHANGED vars
  BY <1>6, <1>a DEF vars
<1> QED
  BY <1>1, <1>2, <1>3, <1>4, <1>5, <1>6 DEF Next, AddCall, Worker

\* No item is lost, repeated or overtaken between Add and the database.
THEOREM InOrder == Spec => []NothingLostOrReordered
<1>1. Init => TypeOK /\ NothingLostOrReordered
  BY InitTypeOK, InitInOrder
<1>2. TypeOK /\ NothingLostOrReordered /\ [Next]_vars => (TypeOK /\ NothingLostOrReordered)'
  BY NextTypeOK, NextInOrder
<1> QED
  BY <1>1, <1>2, PTL DEF Spec
-----------------------------------------------------------------------------
(* Backpressure.  What is inductive is the state of the channel: the item past *)
(* the buffer is one that a producer is still in Add with.  With the order of  *)
(* the items it says what Backpressure says of the submission history.         *)

ParkedAreHeld ==
  \A i \in 1..Len(queue) : i > CacheSize => \E p \in Producers : adding[p] = queue[i]

LEMMA NextParkedAreHeld == TypeOK /\ ParkedAreHeld /\ [Next]_vars => ParkedAreHeld'
<1> SUFFICES ASSUME TypeOK, ParkedAreHeld, [Next]_vars PROVE ParkedAreHeld'
  OBVIOUS
<1>0. queue \in Seq(Items) /\ Len(queue) \in Nat /\ adding \in [Producers -> Items \cup {NilItem}]
  BY DEF TypeOK
<1>a. ASSUME UNCHANGED <<queue, adding>> PROVE ParkedAreHeld'
  BY <1>a DEF ParkedAreHeld
<1>1. ASSUME NEW p \in Producers, NEW item \in Items \cup {NilItem}, Add(p, item)
      PROVE  ParkedAreHeld'
  <2>1. CASE item = NilItem
    BY <1>1, <2>1, <1>a DEF Add
  <2>2. CASE item # NilItem
    <3>1. /\ queue' = Append(queue, item) /\ adding[p] = NilItem
          /\ adding' = [adding EXCEPT ![p] = item]
      BY <1>1, <2>2 DEF Add
    <3>2. /\ Len(queue') = Len(queue) + 1
          /\ \A i \in 1..Len(queue) : queue'[i] = queue[i]
          /\ queue'[Len(queue) + 1] = item
      BY <1>0, <2>2, <3>1, AppendFacts
    <3>3. ASSUME NEW i \in 1..Len(queue'), i > CacheSize
          PROVE  \E q \in Producers : adding'[q] = queue'[i]
      <4>1. CASE i = Len(queue) + 1
        BY <1>0, <3>1, <3>2, <4>1
      <4>2. CASE i \in 1..Len(queue)
        <5>1. PICK q \in Producers : adding[q] = queue[i]
          BY <3>3, <4>2 DEF ParkedAreHeld
        <5>2. queue[i] # NilItem
          BY <1>0, <4>2, ItemsAssumption
        <5> QED
          BY <1>0, <3>1, <3>2, <4>2, <5>1, <5>2
      <4> QED
        BY <1>0, <3>2, <4>1, <4>2
    <3> QED
      BY <3>3 DEF ParkedAreHeld
  <2> QED
    BY <2>1, <2>2
<1>2. ASSUME NEW p \in Producers, AddReturn(p) PROVE ParkedAreHeld'
  <2>1. /\ adding[p] \notin Parked /\ queue' = queue
        /\ adding' = [adding EXCEPT ![p] = NilItem]
    BY <1>2 DEF AddReturn
  <2>2. ASSUME NEW i \in 1..Len(queue), i > CacheSize
        PROVE  \E q \in Producers : adding'[q] = queue[i]
    <3>1. PICK q \in Producers : adding[q] = queue[i]
      BY <2>2 DEF ParkedAreHeld
    <3>2. queue[i] \in Parked
      BY <1>0, <2>2, CacheSizeAssumption DEF Parked
    <3> QED
      BY <1>0, <2>1, <3>1, <3>2
  <2> QED
    BY <2>1, <2>2 DEF ParkedAreHeld
<1>3. CASE Receive
  <2>1. queue # <<>> /\ queue' = Tail(queue) /\ adding' = adding
    BY <1>3 DEF Receive
  <2>2. /\ Len(queue) \in Nat \ {0} /\ Len(queue') = Len(queue) - 1
        /\ \A i \in 1..Len(queue') : queue'[i] = queue[i + 1]
    BY <1>0, <2>1, TailFacts
  <2> QED
    BY <2>1, <2>2, CacheSizeAssumption DEF ParkedAreHeld
<1>4. CASE \/ StartIndexData \/ Stop \/ SaveSucceeds \/ SaveBacksOff \/ SaveFails
           \/ Wake \/ Close
  BY <1>4, <1>a
  DEF StartIndexData, Stop, SaveSucceeds, SaveBacksOff, SaveFails, Wake, Close
<1>5. CASE UNCHANGED vars
  BY <1>5, <1>a DEF vars
<1> QED
  BY <1>1, <1>2, <1>3, <1>4, <1>5 DEF Next, AddCall, Worker

LEMMA ParkedGivesBackpressure ==
  TypeOK /\ NothingLostOrReordered /\ ParkedAreHeld => Backpressure
<1> SUFFICES ASSUME TypeOK, NothingLostOrReordered, ParkedAreHeld,
                    NEW k \in 1..Len(submitted), k > Len(saved) + InHand + CacheSize
             PROVE  \E p \in Producers : adding[p] = submitted[k]
  BY DEF Backpressure
<1> DEFINE i == k - (Len(saved) + InHand)
<1>1. Len(saved) \in Nat /\ Len(queue) \in Nat /\ InHand \in {0, 1} /\ CacheSize \in Nat
  BY CacheSizeAssumption DEF TypeOK, InHand
<1>2. Len(submitted) = Len(saved) + InHand + Len(queue)
  BY DEF NothingLostOrReordered
<1>3. i \in 1..Len(queue) /\ i > CacheSize /\ Len(saved) + InHand + i = k
  BY <1>1, <1>2
<1>4. submitted[k] = queue[i]
  BY <1>3 DEF NothingLostOrReordered
<1>5. \E p \in Producers : adding[p] = queue[i]
  BY <1>3 DEF ParkedAreHeld
<1> QED
  BY <1>4, <1>5

\* A caller is never more than CacheSize + 1 accepted items ahead of the database.
THEOREM BackpressureHolds == Spec => []Backpressure
<1> DEFINE Inv == TypeOK /\ NothingLostOrReordered /\ ParkedAreHeld
<1>1. Init => Inv
  <2>1. Init => ParkedAreHeld
    BY DEF Init, ParkedAreHeld
  <2> QED
    BY <2>1, InitTypeOK, InitInOrder
<1>2. Inv /\ [Next]_vars => Inv'
  BY NextTypeOK, NextInOrder, NextParkedAreHeld
<1>3. Inv => Backpressure
  BY ParkedGivesBackpressure
<1> QED
  BY <1>1, <1>2, <1>3, PTL DEF Spec

-----------------------------------------------------------------------------
(* Back off. *)

LEMMA NextBackOffBounds == TypeOK /\ BackOffBounds /\ [Next]_vars => BackOffBounds'
<1> SUFFICES ASSUME TypeOK, BackOffBounds, [Next]_vars PROVE BackOffBounds'
  OBVIOUS
<1>a. ASSUME UNCHANGED <<worker, backOffTime, delay>> PROVE BackOffBounds'
  BY <1>a DEF BackOffBounds
<1>1. CASE SaveBacksOff
  <2>1. /\ backOffTime' = Increased(backOffTime) /\ delay' = backOffTime'
        /\ worker' = "sleep"
    BY <1>1 DEF SaveBacksOff
  <2>2. backOffTime' # 0 /\ backOffTime' \in BackOffTime..(MaxBackOff + MaxBackOff \div 5)
    BY <2>1, IncreasedBounds DEF TypeOK, BackOffBounds
  <2> QED
    BY <2>1, <2>2 DEF BackOffBounds
<1>2. CASE StartIndexData
  BY <1>2 DEF StartIndexData, BackOffBounds
<1>3. CASE Receive \/ Stop \/ SaveSucceeds \/ SaveFails \/ Wake
  BY <1>3 DEF Receive, Stop, SaveSucceeds, SaveFails, Wake, BackOffBounds
<1>4. CASE AddCall \/ (\E p \in Producers : AddReturn(p)) \/ Close
  BY <1>4, <1>a DEF AddCall, Add, AddReturn, Close, workerVars
<1>5. CASE UNCHANGED vars
  BY <1>5, <1>a DEF vars
<1> QED
  BY <1>1, <1>2, <1>3, <1>4, <1>5 DEF Next, Worker

\* Every pause of the worker is within its limits, and every item starts without
\* a back off.
THEOREM BackOffBounded == Spec => []BackOffBounds
<1>1. Init => TypeOK /\ BackOffBounds
  BY InitTypeOK DEF Init, BackOffBounds
<1>2. TypeOK /\ BackOffBounds /\ [Next]_vars => (TypeOK /\ BackOffBounds)'
  BY NextTypeOK, NextBackOffBounds
<1> QED
  BY <1>1, <1>2, PTL DEF Spec

-----------------------------------------------------------------------------
(* Refinement: a send is a Submit, a successful Save saves the next item.      *)

LEMMA NextRefines ==
  TypeOK /\ NothingLostOrReordered /\ [Next]_vars => [Promise!Next]_(Promise!vars)
<1> SUFFICES ASSUME TypeOK, NothingLostOrReordered, [Next]_vars
             PROVE  [Promise!Next]_(Promise!vars)
  OBVIOUS
<1> USE DEF Promise!Next, Promise!vars
<1>1. ASSUME NEW p \in Producers, NEW item \in Items \cup {NilItem}, Add(p, item)
      PROVE  [Promise!Next]_(Promise!vars)
  BY <1>1 DEF Add, workerVars, Promise!Submit
<1>2. CASE SaveSucceeds
  <2>1. /\ Len(submitted) = Len(saved) + 1 + Len(queue)
        /\ submitted[Len(saved) + 1] = current
    BY <1>2 DEF SaveSucceeds, TypeOK, NothingLostOrReordered, InHand
  <2>2. Len(saved) < Len(submitted)
    BY <2>1 DEF TypeOK
  <2> QED
    BY <1>2, <2>1, <2>2 DEF SaveSucceeds, Promise!SaveNext
<1>3. CASE Close
  BY <1>3 DEF Close, workerVars, Promise!Close
<1>4. CASE StartIndexData \/ Receive \/ Stop \/ SaveBacksOff \/ SaveFails \/ Wake
  BY <1>4 DEF StartIndexData, Receive, Stop, SaveBacksOff, SaveFails, Wake
<1>5. ASSUME NEW p \in Producers, AddReturn(p) PROVE [Promise!Next]_(Promise!vars)
  BY <1>5 DEF AddReturn, workerVars
<1>6. CASE UNCHANGED vars
  BY <1>6 DEF vars
<1> QED
  BY <1>1, <1>2, <1>3, <1>4, <1>5, <1>6 DEF Next, AddCall, Worker

\* The dispatcher implements sequential indexing (safety part of Sequential).
THEOREM Implements == Spec => Promise!Spec
<1>1. Init => Promise!Init
  BY DEF Init, Promise!Init
<1>2. Init => TypeOK /\ NothingLostOrReordered
  BY InitTypeOK, InitInOrder
<1>3. TypeOK /\ NothingLostOrReordered /\ [Next]_vars => (TypeOK /\ NothingLostOrReordered)'
  BY NextTypeOK, NextInOrder
<1> QED
  BY <1>1, <1>2, <1>3, NextRefines, PTL DEF Spec, Promise!Spec
=============================================================================
