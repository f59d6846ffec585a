----------------------- MODULE AccountsIndexingProofs -----------------------
(***************************************************************************)
(* Proofs about AccountsIndexing for every set of accounts and blocks,     *)
(* every choice of what the blocks alter and of what is handed over, any   *)
(* enabled indexes, and any history of commits, reverts, loads, failed     *)
(* bulks and restarts.                                                     *)
(***************************************************************************)
EXTENDS AccountsIndexing, TLAPS, SequenceTheorems, WellFoundedInduction

\* The largest element of a set of positions.
LEMMA MaxFacts ==
  ASSUME NEW n \in Nat, NEW S \in SUBSET (1..n), S # {}
  PROVE  Max(S) \in S /\ \A k \in S : k <= Max(S)
<1> DEFINE T == {n - k : k \in S}
<1>0. \A k \in S : k \in Int /\ n - k \in Nat
  OBVIOUS
<1>1. T \subseteq Nat /\ T # {}
  BY <1>0
<1>2. PICK x \in T : \A y \in T : ~ (<<y, x>> \in OpToRel(<, Nat))
  BY <1>1, NatLessThanWellFounded, WFMin
<1>3. \A y \in T : ~ (y < x)
  BY <1>1, <1>2 DEF OpToRel
<1>4. PICK k \in S : x = n - k
  OBVIOUS
<1>5. \A l \in S : l <= k
  <2> TAKE l \in S
  <2>1. ~ (n - l < n - k)
    BY <1>3, <1>4
  <2> QED
    BY <2>1
<1>6. \A l \in S : k >= l
  BY <1>5
<1> QED
  BY <1>6 DEF Max

-----------------------------------------------------------------------------
(* The block that last altered an account, as a function of the chain. *)

Heights(c, a) == {i \in 1..Len(c) : a \in alters[c[i]]}
LastOf(c, a) == IF Heights(c, a) = {} THEN Genesis ELSE c[Max(Heights(c, a))]

LEMMA LastAlteringIsLastOf ==
  ASSUME chain \in Seq(Blocks)
  PROVE  \A a : LastAltering(a) = LastOf(chain, a)
<1>1. DOMAIN chain = 1..Len(chain)
  OBVIOUS
<1> QED
  BY <1>1 DEF LastAltering, LastOf, Heights

LEMMA LastOfFacts ==
  ASSUME NEW c \in Seq(Blocks), NEW a
  PROVE  /\ LastOf(c, a) \in Timestamps
         /\ LastOf(c, a) # Genesis => \E i \in 1..Len(c) : c[i] = LastOf(c, a)
<1>1. Heights(c, a) \in SUBSET (1..Len(c)) /\ Len(c) \in Nat
  BY DEF Heights
<1>2. CASE Heights(c, a) = {}
  BY <1>2 DEF LastOf, Timestamps
<1>3. CASE Heights(c, a) # {}
  <2>1. Max(Heights(c, a)) \in 1..Len(c)
    BY <1>1, <1>3, MaxFacts
  <2> QED
    BY <1>3, <2>1 DEF LastOf, Timestamps
<1> QED
  BY <1>2, <1>3

LEMMA LastOfAppend ==
  ASSUME NEW c \in Seq(Blocks), NEW b \in Blocks, NEW a
  PROVE  LastOf(Append(c, b), a) = IF a \in alters[b] THEN b ELSE LastOf(c, a)
<1> DEFINE d == Append(c, b)
           n == Len(c)
<1>1. /\ n \in Nat /\ Len(d) = n + 1 /\ d[n + 1] = b
      /\ \A i \in 1..n : d[i] = c[i]
  OBVIOUS
<1> HIDE DEF d, n
<1>2. CASE a \in alters[b]
  <2>1. n + 1 \in Heights(d, a) /\ Heights(d, a) \in SUBSET (1..(n + 1))
    BY <1>1, <1>2 DEF Heights
  <2>2. Max(Heights(d, a)) \in 1..(n + 1) /\ n + 1 <= Max(Heights(d, a))
    <3>1. n + 1 \in Nat /\ Heights(d, a) # {}
      BY <1>1, <2>1
    <3>2. /\ Max(Heights(d, a)) \in Heights(d, a)
          /\ \A k \in Heights(d, a) : k <= Max(Heights(d, a))
      BY <2>1, <3>1, MaxFacts
    <3> QED
      BY <2>1, <3>2
  <2>3. Max(Heights(d, a)) = n + 1
    BY <1>1, <2>2
  <2> QED
    BY <1>1, <1>2, <2>1, <2>3 DEF LastOf, d
<1>3. CASE a \notin alters[b]
  <2>1. Heights(d, a) = Heights(c, a)
    BY <1>1, <1>3 DEF Heights, n
  <2>2. Heights(c, a) \in SUBSET (1..n)
    BY DEF Heights, n
  <2>3. Heights(c, a) # {} => Max(Heights(c, a)) \in 1..n
    BY <1>1, <2>2, MaxFacts
  <2> QED
    BY <1>1, <1>3, <2>1, <2>3 DEF LastOf, d
<1> QED
  BY <1>2, <1>3

LEMMA LastOfShorter ==
  ASSUME NEW c \in Seq(Blocks), c # <<>>, NEW a, a \notin alters[c[Len(c)]]
  PROVE  LastOf(SubSeq(c, 1, Len(c) - 1), a) = LastOf(c, a)
<1> DEFINE d == SubSeq(c, 1, Len(c) - 1)
           n == Len(c)
<1>1. /\ n \in Nat \ {0} /\ Len(d) = n - 1
      /\ \A i \in 1..(n - 1) : d[i] = c[i]
  <2>1. n \in Nat \ {0} /\ \A i \in 1..(n - 1) : c[i] \in Blocks
    OBVIOUS
  <2>2. /\ Len(d) = IF 1 <= n - 1 THEN n - 1 - 1 + 1 ELSE 0
        /\ \A i \in 1..(n - 1 - 1 + 1) : d[i] = c[1 + i - 1]
    BY <2>1, SubSeqProperties
  <2> HIDE DEF n, d
  <2>3. Len(d) = n - 1
    BY <2>1, <2>2
  <2>4. ASSUME NEW i \in 1..(n - 1)
        PROVE  d[i] = c[i]
    <3>1. i \in 1..(n - 1 - 1 + 1) /\ 1 + i - 1 = i
      BY <2>1
    <3> QED
      BY <2>2, <3>1
  <2> QED
    BY <2>1, <2>3, <2>4
<1> HIDE DEF d, n
<1>2. Heights(d, a) = Heights(c, a)
  BY <1>1 DEF Heights, n
<1>3. Heights(d, a) \in SUBSET (1..(n - 1))
  BY <1>1 DEF Heights
<1>4. Heights(d, a) # {} => Max(Heights(d, a)) \in 1..(n - 1)
  <2>1. n - 1 \in Nat
    BY <1>1
  <2> QED
    BY <1>3, <2>1, MaxFacts
<1> QED
  BY <1>1, <1>2, <1>4 DEF LastOf, d

-----------------------------------------------------------------------------
(* Type correctness. *)

\* A block item has a block and loads its balances; while it loads it is the
\* one in hand, and a SaveAccounts item writes those it brought.
ItemsOK ==
  /\ \A i \in 1..Len(items) : items[i].op = "block" =>
       items[i].timestamp \in Blocks /\ items[i].balances = NoneLoaded
  /\ step = "load" => Head(items).op = "block"
  /\ step # "idle" /\ Head(items).op = "accounts" => loaded = Head(items).balances

TypeInv == TypeOK /\ ItemsOK

LEMMA AccountIsBalance == TypeOK => \A a \in Addresses : Account(a) \in Balance
<1> SUFFICES ASSUME TypeOK, NEW a \in Addresses PROVE Account(a) \in Balance
  OBVIOUS
<1>1. chain \in Seq(Blocks) /\ now \in Nat
  BY DEF TypeOK
<1> QED
  BY <1>1, LastAlteringIsLastOf, LastOfFacts DEF Account, Balance

LEMMA HeadFacts ==
  ASSUME TypeInv, items # <<>>
  PROVE  /\ Head(items) = items[1] /\ Head(items) \in Items /\ 1 \in 1..Len(items)
         /\ Concerned(Head(items)) \subseteq Addresses
         /\ Tail(items) \in Seq(Items) /\ Len(Tail(items)) = Len(items) - 1
         /\ \A i \in 1..Len(Tail(items)) : Tail(items)[i] = items[i + 1]
<1>1. items \in Seq(Items)
  BY DEF TypeInv, TypeOK
<1>2. /\ Head(items) = items[1] /\ Head(items) \in Items /\ 1 \in 1..Len(items)
      /\ Tail(items) \in Seq(Items) /\ Len(Tail(items)) = Len(items) - 1
      /\ \A i \in 1..Len(Tail(items)) : Tail(items)[i] = items[i + 1]
  BY <1>1
<1>3. Concerned(Head(items)) \subseteq Addresses
  <2>1. CASE Head(items).op = "block"
    <3>1. Head(items).timestamp \in Blocks
      BY <1>2, <2>1 DEF TypeInv, ItemsOK
    <3> QED
      BY <2>1, <3>1, AccountsAssumption DEF Concerned
  <2>2. CASE Head(items).op # "block"
    BY <2>2 DEF Concerned
  <2> QED
    BY <2>1, <2>2
<1> QED
  BY <1>2, <1>3

\* A new item goes behind the one in hand.
LEMMA NewItem ==
  ASSUME TypeInv, NEW item \in Items, UNCHANGED <<step, loaded, toLoad>>,
         items' = Append(items, item),
         item.op = "block" => item.timestamp \in Blocks /\ item.balances = NoneLoaded
  PROVE  /\ items' \in Seq(Items) /\ ItemsOK'
         /\ step # "idle" => items' # <<>> /\ Head(items') = Head(items)
         /\ IF step' = "idle" THEN toLoad' = {} /\ Written' = {}
            ELSE items' # <<>> /\ toLoad' \cup Written' \subseteq Concerned(Head(items'))
<1>1. /\ items \in Seq(Items)
      /\ IF step = "idle" THEN toLoad = {} /\ Written = {}
         ELSE items # <<>> /\ toLoad \cup Written \subseteq Concerned(Head(items))
  BY DEF TypeInv, TypeOK
<1>2. /\ items' \in Seq(Items) /\ Len(items') = Len(items) + 1 /\ Len(items) \in Nat
      /\ items'[Len(items) + 1] = item
      /\ \A i \in 1..Len(items) : items'[i] = items[i]
  BY <1>1
<1>3. items # <<>> => items' # <<>> /\ Head(items') = Head(items)
  BY <1>1, <1>2
<1>4. Written' = Written
  BY DEF Written
<1>5. ItemsOK'
  <2>1. ASSUME NEW i \in 1..Len(items'), items'[i].op = "block"
        PROVE  items'[i].timestamp \in Blocks /\ items'[i].balances = NoneLoaded
    <3>1. CASE i \in 1..Len(items)
      BY <1>2, <2>1, <3>1 DEF TypeInv, ItemsOK
    <3>2. CASE i \notin 1..Len(items)
      <4>1. i = Len(items) + 1
        BY <1>2, <3>2
      <4> QED
        BY <1>2, <2>1, <4>1
    <3> QED
      BY <3>1, <3>2
  <2>2. step' = "load" => Head(items').op = "block"
    BY <1>1, <1>3 DEF TypeInv, ItemsOK
  <2>3. step' # "idle" /\ Head(items').op = "accounts" => loaded' = Head(items').balances
    BY <1>1, <1>3 DEF TypeInv, ItemsOK
  <2> QED
    BY <2>1, <2>2, <2>3 DEF ItemsOK, NoneLoaded
<1> QED
  BY <1>1, <1>2, <1>3, <1>4, <1>5

\* An attempt begins.
LEMMA BeginFacts ==
  ASSUME TypeInv, items # <<>>, Begin(Head(items)), UNCHANGED items
  PROVE  /\ step' \in {"load", "accounts"} /\ toLoad' \subseteq Addresses
         /\ loaded' \in [Addresses -> Loaded]
         /\ toLoad' \cup Written' \subseteq Concerned(Head(items))
         /\ ItemsOK'
<1> DEFINE item == Head(items)
<1>1. item \in Items /\ item = items[1] /\ 1 \in 1..Len(items) /\ Concerned(item) \subseteq Addresses
  BY HeadFacts
<1>2. /\ step' = IF item.op = "block" THEN "load" ELSE "accounts"
      /\ toLoad' = AlteredAccounts(item)
      /\ loaded' = item.balances
  BY DEF Begin
<1>3. Written' = {a \in Addresses : item.balances[a] # Nothing}
  BY <1>2 DEF Written
<1>4. loaded' \in [Addresses -> Loaded] /\ step' \in {"load", "accounts"}
  BY <1>1, <1>2 DEF Items
<1>5. toLoad' \cup Written' \subseteq Concerned(item)
  <2>1. CASE item.op = "block"
    <3>1. Written' = {}
      BY <1>1, <1>3, <2>1 DEF TypeInv, ItemsOK, NoneLoaded
    <3>2. toLoad' \subseteq Concerned(item)
      BY <1>2, <2>1 DEF AlteredAccounts, Concerned
    <3> QED
      BY <3>1, <3>2
  <2>2. CASE item.op # "block"
    <3>1. toLoad' = {}
      BY <1>2, <2>2 DEF AlteredAccounts
    <3> QED
      BY <1>3, <2>2, <3>1 DEF Concerned
  <2> QED
    BY <2>1, <2>2
<1>6. ItemsOK'
  BY <1>2 DEF TypeInv, ItemsOK, NoneLoaded
<1> QED
  BY <1>1, <1>2, <1>4, <1>5, <1>6

\* The item in hand is done.
LEMMA CompleteFacts ==
  ASSUME TypeInv, step # "idle", Complete
  PROVE  /\ step' = "idle" /\ items' \in Seq(Items) /\ toLoad' = {} /\ Written' = {}
         /\ loaded' \in [Addresses -> Loaded]
         /\ lastSaved' \in [Addresses -> Timestamps \cup {Nothing}]
         /\ missed' \subseteq Addresses
         /\ ItemsOK'
<1>1. items # <<>> /\ items \in Seq(Items)
  BY DEF TypeInv, TypeOK
<1>2. /\ Head(items) \in Items /\ Concerned(Head(items)) \subseteq Addresses
      /\ Tail(items) \in Seq(Items) /\ Len(Tail(items)) = Len(items) - 1
      /\ \A i \in 1..Len(Tail(items)) : Tail(items)[i] = items[i + 1]
  BY <1>1, HeadFacts
<1>3. /\ step' = "idle" /\ items' = Tail(items) /\ toLoad' = {} /\ loaded' = NoneLoaded
      /\ lastSaved' = [a \in Addresses |->
            IF a \in Written THEN Head(items).timestamp ELSE lastSaved[a]]
      /\ missed' = (missed \ Concerned(Head(items))) \cup (Concerned(Head(items)) \ Written)
  BY DEF Complete
<1>4. Written' = {} /\ loaded' \in [Addresses -> Loaded]
  BY <1>3 DEF Written, NoneLoaded, Loaded
<1>5. lastSaved' \in [Addresses -> Timestamps \cup {Nothing}] /\ missed' \subseteq Addresses
  <2>1. Head(items).timestamp \in Timestamps
    BY <1>2 DEF Items
  <2> QED
    BY <1>2, <1>3, <2>1 DEF TypeInv, TypeOK
<1>6. ItemsOK'
  <2>1. ASSUME NEW i \in 1..Len(items'), items'[i].op = "block"
        PROVE  items'[i].timestamp \in Blocks /\ items'[i].balances = NoneLoaded
    <3>1. items'[i] = items[i + 1] /\ i + 1 \in 1..Len(items)
      BY <1>1, <1>2, <1>3
    <3> QED
      BY <2>1, <3>1 DEF TypeInv, ItemsOK
  <2> QED
    BY <1>3, <2>1 DEF ItemsOK, NoneLoaded
<1> QED
  BY <1>2, <1>3, <1>4, <1>5, <1>6

LEMMA InitTypeInv == Init => TypeInv
<1> SUFFICES ASSUME Init PROVE TypeInv
  OBVIOUS
<1> USE DEF Init, NoneLoaded, Loaded
<1>1. /\ chain \in Seq(Blocks) /\ now \in Nat /\ committedAt \in [Blocks -> Nat]
      /\ lastChange \in [Addresses -> {"none", "commit", "revert"}]
  OBVIOUS
<1>2. calls \in 0..MaxCalls /\ restarts \in 0..MaxRestarts
  BY AccountsAssumption
<1>3. items \in Seq(Items) /\ step = "idle" /\ toLoad = {} /\ Len(items) = 0
  OBVIOUS
<1>4. /\ loaded \in [Addresses -> Loaded] /\ accounts \in [Addresses -> Loaded]
      /\ balanceHistory \in [Addresses -> [Timestamps -> Loaded]]
      /\ lastSaved \in [Addresses -> Timestamps \cup {Nothing}] /\ missed = {}
  OBVIOUS
<1>5. Written = {}
  BY DEF Written
<1>6. ItemsOK
  BY <1>3 DEF ItemsOK
<1> QED
  BY <1>1, <1>2, <1>3, <1>4, <1>5, <1>6 DEF TypeInv, TypeOK

LEMMA NextTypeInv == TypeInv /\ [Next]_vars => TypeInv'
<1> SUFFICES ASSUME TypeInv, [Next]_vars PROVE TypeInv'
  OBVIOUS
<1> USE DEF chainVars, storeVars
<1>t. TypeOK
  BY DEF TypeInv
<1>1. ASSUME NEW b \in Blocks, SaveBlock(b)
      PROVE  TypeInv'
  <2> DEFINE item == [op |-> "block", timestamp |-> b, balances |-> NoneLoaded]
  <2>1. item \in Items
    BY DEF Items, Timestamps, NoneLoaded, Loaded
  <2>2. /\ items' \in Seq(Items) /\ ItemsOK'
        /\ IF step' = "idle" THEN toLoad' = {} /\ Written' = {}
           ELSE items' # <<>> /\ toLoad' \cup Written' \subseteq Concerned(Head(items'))
    <3>1. items' = Append(items, item) /\ UNCHANGED <<step, loaded, toLoad>>
      BY <1>1 DEF SaveBlock
    <3> QED
      BY <2>1, <3>1, NewItem
  <2>3. chain' \in Seq(Blocks) /\ now' \in Nat /\ committedAt' \in [Blocks -> Nat]
    BY <1>1, <1>t DEF SaveBlock, TypeOK
  <2>4. lastChange' \in [Addresses -> {"none", "commit", "revert"}]
    BY <1>1, <1>t DEF SaveBlock, TypeOK
  <2> QED
    BY <1>1, <1>t, <2>2, <2>3, <2>4 DEF SaveBlock, TypeInv, TypeOK
<1>2. CASE RevertIndexedBlock
  <2>1. chain \in Seq(Blocks) /\ chain # <<>> /\ chain' = SubSeq(chain, 1, Len(chain) - 1)
    BY <1>2, <1>t DEF RevertIndexedBlock, TypeOK
  <2>2. chain' \in Seq(Blocks)
    <3>1. Len(chain) \in Nat /\ \A i \in 1..(Len(chain) - 1) : chain[i] \in Blocks
      BY <2>1
    <3>2. Len(chain) - 1 \in Int
      BY <3>1
    <3> QED
      BY <2>1, <3>1, <3>2, SubSeqProperties
  <2>3. lastChange' \in [Addresses -> {"none", "commit", "revert"}] /\ now' \in Nat
    BY <1>2, <1>t DEF RevertIndexedBlock, TypeOK
  <2>4. Written' = Written /\ ItemsOK'
    BY <1>2 DEF RevertIndexedBlock, Written, TypeInv, ItemsOK, NoneLoaded
  <2> QED
    BY <1>2, <1>t, <2>2, <2>3, <2>4 DEF RevertIndexedBlock, TypeInv, TypeOK
<1>3. ASSUME NEW as \in HandedOver, CallSaveAccounts(as)
      PROVE  TypeInv'
  <2> DEFINE balances == [a \in Addresses |-> IF a \in as THEN Account(a) ELSE Nothing]
             item == [op |-> "accounts", timestamp |-> Top, balances |-> balances]
  <2>1. Top \in Timestamps
    BY <1>t DEF Top, TypeOK, Timestamps
  <2>2. balances \in [Addresses -> Loaded]
    BY <1>t, AccountIsBalance DEF Loaded
  <2>3. item \in Items /\ item.op # "block"
    <3> HIDE DEF balances
    <3> QED
      BY <2>1, <2>2 DEF Items
  <2>4. items' = Append(items, item) /\ UNCHANGED <<step, loaded, toLoad>>
    BY <1>3 DEF CallSaveAccounts
  <2>5. /\ items' \in Seq(Items) /\ ItemsOK'
        /\ IF step' = "idle" THEN toLoad' = {} /\ Written' = {}
           ELSE items' # <<>> /\ toLoad' \cup Written' \subseteq Concerned(Head(items'))
    <3> HIDE DEF item
    <3> QED
      BY <2>3, <2>4, NewItem
  <2>6. calls' \in 0..MaxCalls
    BY <1>3, <1>t, AccountsAssumption DEF CallSaveAccounts, TypeOK
  <2> QED
    BY <1>3, <1>t, <2>5, <2>6 DEF CallSaveAccounts, TypeInv, TypeOK
<1>4. CASE Restart
  <2>1. UNION {Concerned(items[i]) : i \in DOMAIN items} \subseteq Addresses
    <3>0. DOMAIN items = 1..Len(items)
      BY <1>t DEF TypeOK
    <3> SUFFICES ASSUME NEW i \in 1..Len(items) PROVE Concerned(items[i]) \subseteq Addresses
      BY <3>0
    <3>1. CASE items[i].op = "block"
      BY <3>1, AccountsAssumption DEF TypeInv, ItemsOK, Concerned
    <3>2. CASE items[i].op # "block"
      BY <3>2 DEF Concerned
    <3> QED
      BY <3>1, <3>2
  <2>2. loaded' = NoneLoaded /\ NoneLoaded \in [Addresses -> Loaded] /\ Written' = {}
    BY <1>4 DEF Restart, NoneLoaded, Loaded, Written
  <2>3. items' = <<>> /\ step' = "idle" /\ toLoad' = {}
    BY <1>4 DEF Restart
  <2>4. items' \in Seq(Items) /\ Len(items') = 0
    BY <2>3
  <2>5. ItemsOK'
    BY <2>3, <2>4 DEF ItemsOK
  <2>6. restarts' \in 0..MaxRestarts /\ missed' \subseteq Addresses
    BY <1>4, <1>t, <2>1, AccountsAssumption DEF Restart, TypeOK
  <2> QED
    BY <1>4, <1>t, <2>2, <2>3, <2>4, <2>5, <2>6 DEF Restart, TypeInv, TypeOK
<1>5. CASE Start
  <2>1. items # <<>> /\ Begin(Head(items)) /\ UNCHANGED <<chainVars, items, storeVars, lastSaved, missed>>
    BY <1>5 DEF Start
  <2> QED
    BY <1>t, <2>1, BeginFacts DEF TypeInv, TypeOK
<1>6. ASSUME NEW a \in Addresses, LoadAccount(a)
      PROVE  TypeInv'
  <2>1. /\ step = "load" /\ a \in toLoad /\ toLoad' = toLoad \ {a}
        /\ loaded' \in {loaded, [loaded EXCEPT ![a] = Account(a)]}
        /\ UNCHANGED <<chainVars, items, step, storeVars, lastSaved, missed>>
    BY <1>6 DEF LoadAccount
  <2>2. loaded' \in [Addresses -> Loaded]
    BY <1>t, <2>1, AccountIsBalance DEF TypeOK, Loaded
  <2>3. Written' \subseteq Written \cup {a}
    BY <1>t, <2>1 DEF Written, TypeOK
  <2>4. toLoad' \cup Written' \subseteq Concerned(Head(items)) /\ items # <<>>
    BY <1>t, <2>1, <2>3 DEF TypeOK
  <2>5. ItemsOK'
    BY <2>1 DEF TypeInv, ItemsOK, NoneLoaded
  <2> QED
    BY <1>t, <2>1, <2>2, <2>4, <2>5 DEF TypeInv, TypeOK
<1>7. CASE EndLoading
  <2>1. CASE Complete
    BY <1>7, <1>t, <2>1, CompleteFacts DEF EndLoading, Complete, TypeInv, TypeOK
  <2>2. CASE step' = "accounts" /\ UNCHANGED <<chainVars, items, toLoad, loaded, lastSaved, missed>>
    <3>1. Written' = Written /\ ItemsOK' /\ step = "load"
      BY <1>7, <2>2 DEF EndLoading, Written, TypeInv, ItemsOK, NoneLoaded
    <3> QED
      BY <1>7, <1>t, <2>2, <3>1 DEF EndLoading, TypeInv, TypeOK
  <2> QED
    BY <1>7, <2>1, <2>2 DEF EndLoading
<1>8. CASE SaveAccounts
  <2>1. step = "accounts" /\ items # <<>> /\ UNCHANGED balanceHistory
    BY <1>8, <1>t DEF SaveAccounts, TypeOK
  <2>2. accounts' \in [Addresses -> Loaded]
    BY <1>8, <1>t DEF SaveAccounts, WriteAccounts, TypeOK
  <2>3. CASE Complete
    BY <1>t, <2>1, <2>2, <2>3, CompleteFacts DEF Complete, TypeInv, TypeOK
  <2>4. CASE Again
    BY <1>t, <2>1, <2>2, <2>4, BeginFacts DEF Again, TypeInv, TypeOK
  <2>5. CASE step' = "history" /\ UNCHANGED <<chainVars, items, toLoad, loaded, lastSaved, missed>>
    <3>1. Written' = Written /\ ItemsOK'
      BY <2>1, <2>5 DEF Written, TypeInv, ItemsOK, NoneLoaded
    <3> QED
      BY <1>t, <2>1, <2>2, <2>5, <3>1 DEF TypeInv, TypeOK
  <2> QED
    BY <1>8, <2>3, <2>4, <2>5 DEF SaveAccounts
<1>9. CASE SaveHistory
  <2>1. step = "history" /\ items # <<>> /\ UNCHANGED accounts
    BY <1>9, <1>t DEF SaveHistory, TypeOK
  <2>2. balanceHistory' \in [Addresses -> [Timestamps -> Loaded]]
    <3>1. ASSUME NEW as, WriteHistory(as)
          PROVE  balanceHistory' \in [Addresses -> [Timestamps -> Loaded]]
      BY <1>t, <3>1 DEF WriteHistory, TypeOK
    <3> QED
      BY <1>9, <1>t, <3>1 DEF SaveHistory, TypeOK
  <2>3. CASE Complete
    BY <1>t, <2>1, <2>2, <2>3, CompleteFacts DEF Complete, TypeInv, TypeOK
  <2>4. CASE Again
    BY <1>t, <2>1, <2>2, <2>4, BeginFacts DEF Again, TypeInv, TypeOK
  <2> QED
    BY <1>9, <2>3, <2>4 DEF SaveHistory
<1>10. CASE UNCHANGED vars
  <2>1. Written' = Written /\ ItemsOK'
    BY <1>10 DEF vars, Written, TypeInv, ItemsOK, NoneLoaded
  <2> QED
    BY <1>10, <1>t, <2>1 DEF vars, TypeInv, TypeOK
<1> QED
  BY <1>1, <1>2, <1>3, <1>4, <1>5, <1>6, <1>7, <1>8, <1>9, <1>10 DEF Next, Node, Worker

\* Every variable keeps its type, and what an attempt loads or writes is about
\* the accounts of its item.
THEOREM TypeCorrect == Spec => []TypeOK
<1>1. TypeInv => TypeOK
  BY DEF TypeInv
<1> QED
  BY <1>1, InitTypeInv, NextTypeInv, PTL DEF Spec

-----------------------------------------------------------------------------
(* The two indexes agree. *)

\* Without the index of accounts, neither is written.
OffMeansEmpty ==
  "accounts" \notin EnabledIndexes =>
    /\ step # "history"
    /\ accounts = NoneLoaded
    /\ balanceHistory = [a \in Addresses |-> [t \in Timestamps |-> Nothing]]

\* The history follows the balances of this attempt, not of an earlier one.
JustWritten == step = "history" => \A a \in Written : accounts[a] = loaded[a]

AgreementInv == TypeInv /\ OffMeansEmpty /\ JustWritten /\ HistoryAgrees

\* An item that is completed leaves the agreement to the accounts it wrote.
LEMMA CompleteAgrees ==
  ASSUME TypeInv, TypeInv', HistoryAgrees, step # "idle", Complete,
         \A a \in Addresses \ Concerned(Head(items)) :
            accounts'[a] = accounts[a] /\ balanceHistory'[a] = balanceHistory[a],
         "accountshistory" \in EnabledIndexes =>
           \A a \in Written : accounts'[a] = balanceHistory'[a][Head(items).timestamp]
  PROVE  HistoryAgrees'
<1> SUFFICES ASSUME "accountshistory" \in EnabledIndexes, NEW a \in Addresses,
                    lastSaved'[a] # Nothing, a \notin missed'
             PROVE  accounts'[a] = balanceHistory'[a][lastSaved'[a]]
  BY DEF HistoryAgrees
<1>1. /\ lastSaved' = [x \in Addresses |->
            IF x \in Written THEN Head(items).timestamp ELSE lastSaved[x]]
      /\ missed' = (missed \ Concerned(Head(items))) \cup (Concerned(Head(items)) \ Written)
  BY DEF Complete
<1>2. Written \subseteq Concerned(Head(items))
  BY DEF TypeInv, TypeOK
<1>3. CASE a \in Concerned(Head(items))
  <2>1. a \in Written
    BY <1>1, <1>3
  <2> QED
    BY <1>1, <2>1
<1>4. CASE a \notin Concerned(Head(items))
  <2>1. lastSaved'[a] = lastSaved[a] /\ a \notin missed /\ ~Saving(a)
    BY <1>1, <1>2, <1>4 DEF Saving
  <2> QED
    BY <1>4, <2>1 DEF HistoryAgrees
<1> QED
  BY <1>3, <1>4

\* An item that goes on may have written any of its own accounts.
LEMMA SavingAgrees ==
  ASSUME TypeInv, HistoryAgrees, step # "idle", step' # "idle",
         UNCHANGED <<items, lastSaved, missed>>,
         \A a \in Addresses \ Concerned(Head(items)) :
            accounts'[a] = accounts[a] /\ balanceHistory'[a] = balanceHistory[a]
  PROVE  HistoryAgrees'
<1>1. \A a \in Addresses : Saving(a)' = Saving(a)
  BY DEF Saving, Concerned
<1>2. \A a \in Addresses : ~Saving(a) => a \notin Concerned(Head(items))
  BY DEF Saving
<1> QED
  BY <1>1, <1>2 DEF HistoryAgrees

LEMMA NextAgreement == AgreementInv /\ [Next]_vars => AgreementInv'
<1> SUFFICES ASSUME AgreementInv, [Next]_vars PROVE AgreementInv'
  OBVIOUS
<1> USE DEF chainVars, storeVars
<1>t. TypeInv /\ TypeInv' /\ TypeOK /\ TypeOK'
  BY NextTypeInv DEF AgreementInv, TypeInv
<1>i. OffMeansEmpty /\ JustWritten /\ HistoryAgrees
  BY DEF AgreementInv
<1>w. step # "idle" => items # <<>> /\ Written \subseteq Concerned(Head(items))
  BY <1>t DEF TypeOK
\* The node, and new items behind the one in hand.
<1>n. ASSUME UNCHANGED <<step, loaded, accounts, balanceHistory, lastSaved, missed>>,
             step # "idle" => Head(items') = Head(items)
      PROVE  AgreementInv'
  <2>1. Written' = Written
    BY <1>n DEF Written
  <2>2. OffMeansEmpty' /\ JustWritten'
    BY <1>i, <1>n, <2>1 DEF OffMeansEmpty, JustWritten, NoneLoaded
  <2>3. \A a \in Addresses : Saving(a)' = Saving(a)
    BY <1>n DEF Saving, Concerned
  <2>4. HistoryAgrees'
    BY <1>i, <1>n, <2>3 DEF HistoryAgrees
  <2> QED
    BY <1>t, <2>2, <2>4 DEF AgreementInv
<1>a. ASSUME NEW item, items' = Append(items, item), step # "idle"
      PROVE  Head(items') = Head(items)
  BY <1>a, <1>t, <1>w DEF TypeOK
<1>1. ASSUME NEW b \in Blocks, SaveBlock(b)
      PROVE  AgreementInv'
  BY <1>1, <1>a, <1>n DEF SaveBlock
<1>2. CASE RevertIndexedBlock
  BY <1>2, <1>n DEF RevertIndexedBlock
<1>3. ASSUME NEW as \in HandedOver, CallSaveAccounts(as)
      PROVE  AgreementInv'
  BY <1>3, <1>a, <1>n DEF CallSaveAccounts
<1>4. CASE Restart
  <2>1. \A a \in Addresses : Saving(a) => a \in missed'
    <3> SUFFICES ASSUME NEW a \in Addresses, Saving(a) PROVE a \in missed'
      OBVIOUS
    <3>1. 1 \in DOMAIN items /\ a \in Concerned(items[1])
      BY <1>t, <1>w, HeadFacts DEF Saving, TypeOK
    <3> QED
      BY <1>4, <3>1 DEF Restart
  <2>2. UNCHANGED <<accounts, balanceHistory, lastSaved>> /\ missed \subseteq missed' /\ step' = "idle"
    BY <1>4 DEF Restart
  <2>3. HistoryAgrees'
    BY <1>i, <2>1, <2>2 DEF HistoryAgrees
  <2> QED
    BY <1>t, <1>i, <2>2, <2>3 DEF AgreementInv, OffMeansEmpty, JustWritten, NoneLoaded
<1>5. CASE Start
  <2>1. step = "idle" /\ step' \in {"load", "accounts"}
        /\ UNCHANGED <<accounts, balanceHistory, lastSaved, missed>>
    BY <1>5 DEF Start, Begin
  <2>2. HistoryAgrees'
    BY <1>i, <2>1 DEF HistoryAgrees, Saving
  <2> QED
    BY <1>t, <1>i, <2>1, <2>2 DEF AgreementInv, OffMeansEmpty, JustWritten, NoneLoaded
<1>6. ASSUME NEW a \in Addresses, LoadAccount(a)
      PROVE  AgreementInv'
  <2>1. step = "load" /\ UNCHANGED <<items, step, accounts, balanceHistory, lastSaved, missed>>
    BY <1>6 DEF LoadAccount
  <2>2. HistoryAgrees'
    BY <1>t, <1>i, <2>1, SavingAgrees
  <2> QED
    BY <1>t, <1>i, <2>1, <2>2 DEF AgreementInv, OffMeansEmpty, JustWritten, NoneLoaded
<1>7. CASE EndLoading
  <2>1. step = "load" /\ UNCHANGED <<accounts, balanceHistory>>
    BY <1>7 DEF EndLoading
  <2>2. step' # "history"
    BY <1>7 DEF EndLoading, Complete
  <2>3. HistoryAgrees'
    <3>1. CASE Written = {} /\ Complete
      BY <1>t, <1>i, <2>1, <3>1, CompleteAgrees
    <3>2. CASE step' = "accounts" /\ UNCHANGED <<items, lastSaved, missed>>
      BY <1>t, <1>i, <2>1, <3>2, SavingAgrees
    <3> QED
      BY <1>7, <3>1, <3>2 DEF EndLoading
  <2> QED
    BY <1>t, <1>i, <2>1, <2>2, <2>3 DEF AgreementInv, OffMeansEmpty, JustWritten, NoneLoaded
<1>8. CASE SaveAccounts
  <2>1. step = "accounts" /\ UNCHANGED balanceHistory
    BY <1>8 DEF SaveAccounts
  <2>2. CASE "accounts" \in EnabledIndexes /\ WriteAccounts(Written) /\ step' = "history"
             /\ UNCHANGED <<chainVars, items, toLoad, loaded, lastSaved, missed>>
    <3>1. \A a \in Addresses : accounts'[a] = IF a \in Written THEN loaded[a] ELSE accounts[a]
      BY <2>2 DEF WriteAccounts
    <3>2. HistoryAgrees'
      BY <1>t, <1>i, <1>w, <2>1, <2>2, <3>1, SavingAgrees
    <3>3. JustWritten'
      BY <2>2, <3>1 DEF JustWritten, Written
    <3> QED
      BY <1>t, <2>2, <3>2, <3>3 DEF AgreementInv, OffMeansEmpty
  <2>3. CASE "accounts" \in EnabledIndexes /\ (\E as \in SUBSET Written : WriteAccounts(as)) /\ Again
    <3>1. PICK as \in SUBSET Written : WriteAccounts(as)
      BY <2>3
    <3>2. \A a \in Addresses : a \notin Written => accounts'[a] = accounts[a]
      BY <3>1 DEF WriteAccounts
    <3>3. step' \in {"load", "accounts"} /\ UNCHANGED <<items, lastSaved, missed>>
      BY <2>3 DEF Again, Begin
    <3>4. HistoryAgrees'
      BY <1>t, <1>i, <1>w, <2>1, <3>2, <3>3, SavingAgrees
    <3> QED
      BY <1>t, <2>3, <3>3, <3>4 DEF AgreementInv, OffMeansEmpty, JustWritten
  <2>4. CASE "accounts" \notin EnabledIndexes /\ Complete /\ UNCHANGED accounts
    <3>1. step' = "idle" /\ Head(items).timestamp \in Timestamps
      BY <1>t, <1>w, <2>1, <2>4, HeadFacts DEF Complete, Items
    <3>2. \A a \in Addresses, t \in Timestamps : accounts[a] = balanceHistory[a][t]
      BY <1>i, <2>4 DEF OffMeansEmpty, NoneLoaded
    <3>3. \A a \in Written : a \in Addresses
      BY DEF Written
    <3>4. HistoryAgrees'
      BY <1>t, <1>i, <2>1, <2>4, <3>1, <3>2, <3>3, CompleteAgrees
    <3> QED
      BY <1>t, <1>i, <2>1, <2>4, <3>1, <3>4 DEF AgreementInv, OffMeansEmpty, JustWritten, NoneLoaded
  <2> QED
    BY <1>8, <2>2, <2>3, <2>4 DEF SaveAccounts
<1>9. CASE SaveHistory
  <2>1. step = "history" /\ UNCHANGED accounts /\ "accounts" \in EnabledIndexes
    BY <1>9, <1>i DEF SaveHistory, OffMeansEmpty
  <2>2. step' # "history"
    BY <1>9 DEF SaveHistory, Complete, Again, Begin
  <2>3. \A as : WriteHistory(as) =>
          \A a \in Addresses : a \notin as => balanceHistory'[a] = balanceHistory[a]
    BY DEF WriteHistory
  <2>4. HistoryAgrees'
    <3>1. CASE "accountshistory" \in EnabledIndexes /\ WriteHistory(Written) /\ Complete
      <4>1. Head(items).timestamp \in Timestamps
        BY <1>t, <1>w, <2>1, HeadFacts DEF Items
      <4>2. \A a \in Written : balanceHistory'[a][Head(items).timestamp] = loaded[a]
        BY <1>t, <3>1, <4>1 DEF WriteHistory, Written, TypeOK
      <4>3. \A a \in Written : accounts'[a] = balanceHistory'[a][Head(items).timestamp]
        BY <1>i, <2>1, <4>2 DEF JustWritten
      <4> QED
        BY <1>t, <1>i, <1>w, <2>1, <2>3, <3>1, <4>3, CompleteAgrees
    <3>2. CASE (\E as \in SUBSET Written : WriteHistory(as)) /\ Again
      <4>1. PICK as \in SUBSET Written : WriteHistory(as)
        BY <3>2
      <4>2. \A a \in Addresses : a \notin Written => balanceHistory'[a] = balanceHistory[a]
        BY <2>3, <4>1
      <4>3. step' \in {"load", "accounts"} /\ UNCHANGED <<items, lastSaved, missed>>
        BY <3>2 DEF Again, Begin
      <4> QED
        BY <1>t, <1>i, <1>w, <2>1, <4>2, <4>3, SavingAgrees
    <3>3. CASE "accountshistory" \notin EnabledIndexes
      BY <3>3 DEF HistoryAgrees
    <3> QED
      BY <1>9, <3>1, <3>2, <3>3 DEF SaveHistory
  <2> QED
    BY <1>t, <2>1, <2>2, <2>4 DEF AgreementInv, OffMeansEmpty, JustWritten
<1>10. CASE UNCHANGED vars
  BY <1>10, <1>n DEF vars
<1> QED
  BY <1>1, <1>2, <1>3, <1>4, <1>5, <1>6, <1>7, <1>8, <1>9, <1>10 DEF Next, Node, Worker

LEMMA InitAgreement == Init => AgreementInv
<1>1. Init => OffMeansEmpty /\ JustWritten
  BY DEF Init, OffMeansEmpty, JustWritten
<1>2. Init => HistoryAgrees
  BY DEF Init, HistoryAgrees, NoneLoaded
<1> QED
  BY <1>1, <1>2, InitTypeInv DEF AgreementInv

\* The balance of an account is the one its last item recorded in its history,
\* whatever bulks fail half-way and whatever a repeated item loads.
THEOREM IndexesAgree == Spec => []HistoryAgrees
<1>1. AgreementInv => HistoryAgrees
  BY DEF AgreementInv
<1> QED
  BY <1>1, InitAgreement, NextAgreement, PTL DEF Spec

-----------------------------------------------------------------------------
(* No record of the history is from before its block. *)

NotEarlier(x, t) == x # Nothing /\ t \in Blocks => x.asOf >= committedAt[t]

\* The block of an item is committed, and its balances are not from before it.
ItemRead(item) ==
  /\ item.timestamp \in Blocks => committedAt[item.timestamp] # 0
  /\ \A a \in Addresses : NotEarlier(item.balances[a], item.timestamp)

\* The blocks of the chain and of the items are committed, and what an item
\* brings or has loaded was read after its own.
ReadsAfterCommit ==
  /\ \A b \in Blocks : committedAt[b] <= now
  /\ \A i \in 1..Len(chain) : committedAt[chain[i]] # 0
  /\ \A i \in 1..Len(items) : ItemRead(items[i])
  /\ step # "idle" => \A a \in Addresses : NotEarlier(loaded[a], Head(items).timestamp)

ReadInv == TypeInv /\ ReadsAfterCommit /\ HistoryNotEarlier

\* A block is committed once.
LEMMA CommittedOnce ==
  ASSUME ReadInv, [Next]_vars
  PROVE  /\ \A b \in Blocks : committedAt[b] # 0 => committedAt'[b] = committedAt[b]
         /\ \A b \in Blocks : committedAt'[b] <= now'
         /\ now <= now'
<1> USE DEF chainVars
<1>1. now \in Nat /\ committedAt \in [Blocks -> Nat] /\ \A b \in Blocks : committedAt[b] <= now
  BY DEF ReadInv, ReadsAfterCommit, TypeInv, TypeOK
<1>2. ASSUME NEW b \in Blocks, SaveBlock(b)
      PROVE  /\ \A x \in Blocks : committedAt[x] # 0 => committedAt'[x] = committedAt[x]
             /\ \A x \in Blocks : committedAt'[x] <= now'
             /\ now <= now'
  BY <1>1, <1>2 DEF SaveBlock
<1>3. CASE RevertIndexedBlock
  BY <1>1, <1>3 DEF RevertIndexedBlock
<1>4. CASE UNCHANGED <<now, committedAt>>
  BY <1>1, <1>4
<1>5. ASSUME NEW as, CallSaveAccounts(as)
      PROVE  UNCHANGED <<now, committedAt>>
  BY <1>5 DEF CallSaveAccounts
<1>6. Restart \/ Worker \/ UNCHANGED vars => UNCHANGED <<now, committedAt>>
  BY DEF Restart, Worker, Start, LoadAccount, EndLoading, SaveAccounts, SaveHistory, Complete, Again, vars
<1> QED
  BY <1>2, <1>3, <1>4, <1>5, <1>6 DEF Next, Node


\* Items wait without changing, the first of them leaves, new ones come last.
LEMMA ItemsStep ==
  ASSUME TypeInv,
         \/ items' = items
         \/ items' = Tail(items) /\ items # <<>>
         \/ items' = <<>>
         \/ \E item : items' = Append(items, item)
  PROVE  \A i \in 1..Len(items') : \/ \E j \in 1..Len(items) : items'[i] = items[j]
                                  \/ items' = Append(items, items'[i])
<1>1. items \in Seq(Items) /\ Len(items) \in Nat
  BY DEF TypeInv, TypeOK
<1>2. CASE items' = items
  BY <1>2
<1>3. CASE items' = Tail(items) /\ items # <<>>
  <2>1. \A i \in 1..Len(items') : i + 1 \in 1..Len(items) /\ items'[i] = items[i + 1]
    BY <1>1, <1>3
  <2> QED
    BY <2>1
<1>4. CASE items' = <<>>
  BY <1>4
<1>5. ASSUME NEW item, items' = Append(items, item)
      PROVE  \A i \in 1..Len(items') : \/ \E j \in 1..Len(items) : items'[i] = items[j]
                                      \/ items' = Append(items, items'[i])
  <2>1. /\ Len(items') = Len(items) + 1 /\ items'[Len(items) + 1] = item
        /\ \A i \in 1..Len(items) : items'[i] = items[i]
    BY <1>1, <1>5
  <2>2. \A i \in 1..Len(items') : i \in 1..Len(items) \/ i = Len(items) + 1
    BY <1>1, <2>1
  <2> QED
    BY <1>5, <2>1, <2>2
<1> QED
  BY <1>2, <1>3, <1>4, <1>5

LEMMA NextReads == ReadInv /\ [Next]_vars => ReadInv'
<1> SUFFICES ASSUME ReadInv, [Next]_vars PROVE ReadInv'
  OBVIOUS
<1> USE DEF chainVars, storeVars
<1>t. TypeInv /\ TypeInv' /\ TypeOK /\ TypeOK'
  BY NextTypeInv DEF ReadInv, TypeInv
<1>c. /\ \A b \in Blocks : committedAt[b] # 0 => committedAt'[b] = committedAt[b]
      /\ \A b \in Blocks : committedAt'[b] <= now'
      /\ now <= now' /\ now \in Nat /\ now' \in Nat
      /\ \A b \in Blocks : committedAt[b] \in Nat /\ committedAt'[b] \in Nat
  BY <1>t, CommittedOnce DEF TypeOK
<1>r. ReadsAfterCommit /\ HistoryNotEarlier
  BY DEF ReadInv
<1>h. step # "idle" => /\ items # <<>> /\ Head(items) = items[1] /\ ItemRead(items[1])
                       /\ Head(items) \in Items
  BY <1>t, <1>r, HeadFacts DEF TypeOK, ReadsAfterCommit
\* What has been read stays read.
<1>k. /\ \A i \in 1..Len(items) :
            /\ items[i].timestamp \in Blocks => committedAt'[items[i].timestamp] # 0
            /\ \A a \in Addresses :
                 items[i].balances[a] # Nothing /\ items[i].timestamp \in Blocks =>
                   items[i].balances[a].asOf >= committedAt'[items[i].timestamp]
      /\ step # "idle" => \A a \in Addresses :
            loaded[a] # Nothing /\ Head(items).timestamp \in Blocks =>
              loaded[a].asOf >= committedAt'[Head(items).timestamp]
  BY <1>c, <1>r, <1>h DEF ReadsAfterCommit, ItemRead, NotEarlier
\* The account as it is now was read after every block committed so far.
<1>l. \A a : Account(a).asOf = now
  BY DEF Account
<1>1. ASSUME UNCHANGED balanceHistory PROVE HistoryNotEarlier'
  <2> SUFFICES ASSUME NEW a \in Addresses, NEW b \in Blocks, balanceHistory[a][b] # Nothing
               PROVE  committedAt'[b] # 0 /\ balanceHistory[a][b].asOf >= committedAt'[b]
    BY <1>1 DEF HistoryNotEarlier
  <2> QED
    BY <1>c, <1>r DEF HistoryNotEarlier
<1>2. ASSUME NEW b \in Blocks, SaveBlock(b)
      PROVE  ReadInv'
  <2> DEFINE item == [op |-> "block", timestamp |-> b, balances |-> NoneLoaded]
  <2>1. /\ chain' = Append(chain, b) /\ committedAt'[b] = now + 1
        /\ items' = Append(items, item) /\ UNCHANGED <<step, loaded, balanceHistory>>
    BY <1>2, <1>t DEF SaveBlock, TypeOK
  <2>2. \A i \in 1..Len(chain') : committedAt'[chain'[i]] # 0
    <3>1. /\ chain \in Seq(Blocks) /\ Len(chain') = Len(chain) + 1 /\ chain'[Len(chain) + 1] = b
          /\ \A i \in 1..Len(chain) : chain'[i] = chain[i] /\ chain[i] \in Blocks
      BY <1>t, <2>1 DEF TypeOK
    <3>2. \A i \in 1..Len(chain') : i \in 1..Len(chain) \/ i = Len(chain) + 1
      BY <3>1
    <3> QED
      BY <1>c, <1>r, <2>1, <3>1, <3>2 DEF ReadsAfterCommit
  <2>3. \A i \in 1..Len(items') : ItemRead(items[i])'
    <3> SUFFICES ASSUME NEW i \in 1..Len(items') PROVE ItemRead(items[i])'
      OBVIOUS
    <3>1. (\E j \in 1..Len(items) : items'[i] = items[j]) \/ items'[i] = item
      BY <1>t, <2>1, ItemsStep DEF TypeOK
    <3>2. CASE items'[i] = item
      BY <1>c, <2>1, <3>2 DEF ItemRead, NotEarlier, NoneLoaded
    <3> QED
      BY <1>k, <3>1, <3>2 DEF ItemRead, NotEarlier
  <2>4. step # "idle" => Head(items') = Head(items)
    BY <1>t, <1>h, <2>1 DEF TypeOK
  <2> QED
    BY <1>t, <1>c, <1>k, <1>1, <2>1, <2>2, <2>3, <2>4
       DEF ReadInv, ReadsAfterCommit, NotEarlier
\* The other steps commit nothing.
<1>o. ASSUME UNCHANGED <<now, committedAt>>, \A i \in 1..Len(chain') : committedAt[chain'[i]] # 0,
             \/ items' = items
             \/ items' = Tail(items) /\ items # <<>>
             \/ items' = <<>>
             \/ \E item : items' = Append(items, item) /\ ItemRead(item),
             step' # "idle" => \A a \in Addresses : NotEarlier(loaded'[a], Head(items').timestamp),
             HistoryNotEarlier'
      PROVE  ReadInv'
  <2>1. ASSUME NEW i \in 1..Len(items')
        PROVE  ItemRead(items[i])'
    <3>1. \/ \E j \in 1..Len(items) : items'[i] = items[j]
          \/ items' = Append(items, items'[i])
      BY <1>t, <1>o, ItemsStep
    <3>2. CASE \E j \in 1..Len(items) : items'[i] = items[j]
      BY <1>k, <3>2 DEF ItemRead, NotEarlier
    <3>3. CASE ~\E j \in 1..Len(items) : items'[i] = items[j]
      <4>1. PICK item : items' = Append(items, item) /\ ItemRead(item)
        <5>1. items' # items /\ ~(items' = Tail(items) /\ items # <<>>) /\ items' # <<>>
          <6>1. items' = items => FALSE
            BY <3>3
          <6>2. items' = <<>> => FALSE
            OBVIOUS
          <6>3. items' = Tail(items) /\ items # <<>> => FALSE
            <7> SUFFICES ASSUME items' = Tail(items), items # <<>> PROVE FALSE
              OBVIOUS
            <7>1. i + 1 \in 1..Len(items) /\ items'[i] = items[i + 1]
              BY <1>t, HeadFacts DEF TypeOK
            <7> QED
              BY <3>3, <7>1
          <6> QED
            BY <6>1, <6>2, <6>3
        <5> QED
          BY <1>o, <5>1
      <4>2. items'[i] = item
        <5>1. items \in Seq(Items)
          BY <1>t DEF TypeOK
        <5>2. items'[Len(items) + 1] = item /\ Append(items, items'[i])[Len(items) + 1] = items'[i]
          BY <4>1, <5>1
        <5> QED
          BY <3>1, <3>3, <5>2
      <4> QED
        BY <1>o, <4>1, <4>2 DEF ItemRead, NotEarlier
    <3> QED
      BY <3>2, <3>3
  <2> QED
    BY <1>t, <1>c, <1>o, <2>1 DEF ReadInv, ReadsAfterCommit, NotEarlier
<1>a. ASSUME Again PROVE step' # "idle" /\ UNCHANGED <<chain, now, committedAt, items>>
                         /\ loaded' = Head(items).balances
  BY <1>a DEF Again, Begin
<1>p. ASSUME Complete, step # "idle"
      PROVE  step' = "idle" /\ UNCHANGED <<chain, now, committedAt>>
             /\ items' = Tail(items) /\ items # <<>>
  BY <1>p, <1>h DEF Complete
<1>b. ASSUME UNCHANGED <<chain, now, committedAt>>
      PROVE  \A i \in 1..Len(chain') : committedAt[chain'[i]] # 0
  BY <1>b, <1>r DEF ReadsAfterCommit
<1>3. CASE RevertIndexedBlock
  <2>1. /\ chain \in Seq(Blocks) /\ chain # <<>> /\ chain' = SubSeq(chain, 1, Len(chain) - 1)
        /\ UNCHANGED <<committedAt, items, step, loaded, balanceHistory>>
    BY <1>3, <1>t DEF RevertIndexedBlock, TypeOK
  <2>2. \A i \in 1..Len(chain') : committedAt'[chain'[i]] # 0
    <3>1. Len(chain) \in Nat \ {0} /\ \A i \in 1..(Len(chain) - 1) : chain[i] \in Blocks
      BY <2>1
    <3>2. Len(chain) - 1 \in Int
      BY <3>1
    <3>3. /\ Len(chain') = IF 1 <= Len(chain) - 1 THEN Len(chain) - 1 - 1 + 1 ELSE 0
          /\ \A i \in 1..(Len(chain) - 1 - 1 + 1) : chain'[i] = chain[1 + i - 1]
      BY <2>1, <3>1, <3>2, SubSeqProperties
    <3>4. ASSUME NEW i \in 1..Len(chain')
          PROVE  i \in 1..Len(chain) /\ chain'[i] = chain[i]
      <4>1. i \in 1..(Len(chain) - 1 - 1 + 1) /\ 1 + i - 1 = i /\ i \in 1..Len(chain)
        BY <3>1, <3>3
      <4> QED
        BY <3>3, <4>1
    <3> QED
      BY <1>r, <2>1, <3>4 DEF ReadsAfterCommit
  <2>3. \A i \in 1..Len(items) : ItemRead(items[i])'
    BY <1>k, <2>1 DEF ItemRead, NotEarlier
  <2> QED
    BY <1>t, <1>c, <1>k, <1>1, <2>1, <2>2, <2>3 DEF ReadInv, ReadsAfterCommit, NotEarlier
<1>4. ASSUME NEW as \in HandedOver, CallSaveAccounts(as)
      PROVE  ReadInv'
  <2> DEFINE balances == [a \in Addresses |-> IF a \in as THEN Account(a) ELSE Nothing]
             item == [op |-> "accounts", timestamp |-> Top, balances |-> balances]
  <2>1. /\ items' = Append(items, item)
        /\ UNCHANGED <<chain, now, committedAt, step, loaded, balanceHistory>>
    BY <1>4 DEF CallSaveAccounts
  <2>2. Top \in Blocks => committedAt[Top] # 0
    <3>1. CASE chain = <<>>
      BY <3>1, AccountsAssumption DEF Top
    <3>2. CASE chain # <<>>
      <4>1. Len(chain) \in 1..Len(chain)
        BY <1>t, <3>2 DEF TypeOK
      <4> QED
        BY <1>r, <3>2, <4>1 DEF Top, ReadsAfterCommit
    <3> QED
      BY <3>1, <3>2
  <2>3. \A a \in Addresses : balances[a] # Nothing => balances[a].asOf = now
    BY <1>l
  <2>4. ItemRead(item)
    <3> HIDE DEF balances
    <3> QED
      BY <1>r, <2>2, <2>3 DEF ItemRead, NotEarlier, ReadsAfterCommit
  <2>5. step # "idle" => Head(items') = Head(items)
    BY <1>t, <1>h, <2>1 DEF TypeOK
  <2>6. step' # "idle" => \A a \in Addresses : NotEarlier(loaded'[a], Head(items').timestamp)
    BY <1>r, <2>1, <2>5 DEF ReadsAfterCommit
  <2> HIDE DEF item
  <2> QED
    BY <1>b, <1>o, <1>1, <2>1, <2>4, <2>6
<1>5. CASE Restart
  <2>1. /\ items' = <<>> /\ step' = "idle"
        /\ UNCHANGED <<chain, now, committedAt, balanceHistory>>
    BY <1>5 DEF Restart
  <2> QED
    BY <1>b, <1>o, <1>1, <2>1
<1>g. ASSUME items # <<>>, loaded' = Head(items).balances, UNCHANGED items
      PROVE  \A a \in Addresses : NotEarlier(loaded'[a], Head(items').timestamp)
  BY <1>g, <1>r, <1>t, HeadFacts DEF ReadsAfterCommit, ItemRead
<1>6. CASE Start
  <2>1. /\ items # <<>> /\ loaded' = Head(items).balances
        /\ UNCHANGED <<chain, now, committedAt, items, balanceHistory>>
    BY <1>6 DEF Start, Begin
  <2> QED
    BY <1>b, <1>g, <1>o, <1>1, <2>1
<1>7. ASSUME NEW a \in Addresses, LoadAccount(a)
      PROVE  ReadInv'
  <2>1. /\ step = "load" /\ loaded' \in {loaded, [loaded EXCEPT ![a] = Account(a)]}
        /\ UNCHANGED <<chain, now, committedAt, items, balanceHistory>>
    BY <1>7 DEF LoadAccount
  <2>2. \A x \in Addresses : loaded'[x] = loaded[x] \/ loaded'[x] = Account(x)
    BY <1>t, <2>1 DEF TypeOK
  <2>3. \A t : \A x : NotEarlier(Account(x), t)
    BY <1>l, <1>r DEF NotEarlier, ReadsAfterCommit
  <2>4. \A x \in Addresses : NotEarlier(loaded'[x], Head(items').timestamp)
    BY <1>r, <2>1, <2>2, <2>3 DEF ReadsAfterCommit
  <2> QED
    BY <1>b, <1>o, <1>1, <2>1, <2>4
<1>m. ASSUME UNCHANGED <<chain, now, committedAt, items, loaded>>, step # "idle"
      PROVE  \A a \in Addresses : NotEarlier(loaded'[a], Head(items').timestamp)
  BY <1>m, <1>r DEF ReadsAfterCommit
<1>8. CASE EndLoading
  <2>1. step = "load" /\ UNCHANGED balanceHistory
    BY <1>8 DEF EndLoading
  <2>2. CASE Complete
    BY <1>b, <1>o, <1>p, <1>1, <2>1, <2>2
  <2>3. CASE UNCHANGED <<chainVars, items, loaded>>
    BY <1>b, <1>o, <1>m, <1>1, <2>1, <2>3
  <2> QED
    BY <1>8, <2>2, <2>3 DEF EndLoading
<1>9. CASE SaveAccounts
  <2>1. step = "accounts" /\ UNCHANGED balanceHistory
    BY <1>9 DEF SaveAccounts
  <2>2. CASE Complete
    BY <1>b, <1>o, <1>p, <1>1, <2>1, <2>2
  <2>3. CASE UNCHANGED <<chainVars, items, loaded>>
    BY <1>b, <1>o, <1>m, <1>1, <2>1, <2>3
  <2>4. CASE Again
    BY <1>a, <1>b, <1>g, <1>h, <1>o, <1>1, <2>1, <2>4
  <2> QED
    BY <1>9, <2>2, <2>3, <2>4 DEF SaveAccounts
<1>10. CASE SaveHistory
  <2>1. step = "history"
    BY <1>10 DEF SaveHistory
  <2>2. UNCHANGED <<now, committedAt>>
    BY <1>10 DEF SaveHistory, Complete, Again
  <2>3. ASSUME NEW as \in SUBSET Written, WriteHistory(as)
        PROVE  HistoryNotEarlier'
    <3> SUFFICES ASSUME NEW a \in Addresses, NEW b \in Blocks, balanceHistory'[a][b] # Nothing
                 PROVE  committedAt[b] # 0 /\ balanceHistory'[a][b].asOf >= committedAt[b]
      BY <2>2 DEF HistoryNotEarlier
    <3>1. b \in Timestamps /\ balanceHistory[a] \in [Timestamps -> Loaded]
      BY <1>t DEF Timestamps, TypeOK
    <3>2. CASE balanceHistory'[a][b] = balanceHistory[a][b]
      BY <1>r, <3>2 DEF HistoryNotEarlier
    <3>3. CASE balanceHistory'[a][b] # balanceHistory[a][b]
      <4>1. b = Head(items).timestamp /\ balanceHistory'[a][b] = loaded[a]
        BY <2>3, <3>1, <3>3 DEF WriteHistory
      <4> QED
        BY <1>h, <1>r, <2>1, <4>1 DEF ReadsAfterCommit, ItemRead, NotEarlier
    <3> QED
      BY <3>2, <3>3
  <2>4. HistoryNotEarlier'
    BY <1>10, <1>1, <2>3 DEF SaveHistory
  <2>5. CASE Complete
    BY <1>b, <1>o, <1>p, <2>1, <2>4, <2>5
  <2>6. CASE Again
    BY <1>a, <1>b, <1>g, <1>h, <1>o, <2>1, <2>4, <2>6
  <2> QED
    BY <1>10, <2>5, <2>6 DEF SaveHistory
<1>11. CASE UNCHANGED vars
  BY <1>11, <1>b, <1>m, <1>o, <1>1 DEF vars
<1> QED
  BY <1>2, <1>3, <1>4, <1>5, <1>6, <1>7, <1>8, <1>9, <1>10, <1>11 DEF Next, Node, Worker

LEMMA InitReads == Init => ReadInv
<1> SUFFICES ASSUME Init PROVE ReadInv
  OBVIOUS
<1>1. /\ now = 0 /\ chain = <<>> /\ items = <<>> /\ step = "idle"
      /\ \A b \in Blocks : committedAt[b] = 0
      /\ \A a \in Addresses, b \in Blocks : balanceHistory[a][b] = Nothing
  BY DEF Init, Timestamps
<1> QED
  BY <1>1, InitTypeInv DEF ReadInv, ReadsAfterCommit, HistoryNotEarlier

\* However late an account is loaded or handed over, its history never has a
\* balance from before the block of the record.
THEOREM HistoryIsLater == Spec => []HistoryNotEarlier
<1>1. ReadInv => HistoryNotEarlier
  BY DEF ReadInv
<1> QED
  BY <1>1, InitReads, NextReads, PTL DEF Spec

-----------------------------------------------------------------------------
(* The index of accounts catches up with the chain. *)

\* When the block that last altered an account was committed.
Changed(a) == committedAt[LastAltering(a)]

Committed(a) == lastChange[a] = "commit"

\* The balances of an account that were read and may still be written, and the
\* one in the index.
Seen(a) == {loaded[a], accounts[a]} \cup {items[i].balances[a] : i \in 1..Len(items)}

\* A balance read since the last change of the account is the current one.
ReadsAreRight ==
  \A a \in Addresses :
    /\ Committed(a) => LastAltering(a) # Genesis
    /\ \A x \in Seen(a) : x # Nothing =>
         /\ x.asOf <= now
         /\ Committed(a) /\ x.asOf >= Changed(a) => x.block = LastAltering(a)

\* An item writes the balance of an account as it is since its last change.
UpToDate(item, a) ==
  IF item.op = "block" THEN committedAt[item.timestamp] >= Changed(a)
  ELSE item.balances[a].asOf >= Changed(a)

\* The last of the waiting items that are about an account.
Newest(i, a) ==
  /\ a \in Concerned(items[i])
  /\ \A j \in 1..Len(items) : j > i => a \notin Concerned(items[j])

NewestUpToDate ==
  \A a \in Addresses, i \in 1..Len(items) :
    Committed(a) /\ Newest(i, a) => UpToDate(items[i], a)

\* With none of them waiting, the index has that balance.
IndexUpToDate ==
  "accounts" \in EnabledIndexes =>
    \A a \in Addresses :
      Committed(a) /\ a \notin missed /\ ~Waiting(a) =>
        accounts[a] # Nothing /\ accounts[a].asOf >= Changed(a)

CatchUpInv ==
  AgreementInv /\ ReadInv /\ ReadsAreRight /\ NewestUpToDate /\ IndexUpToDate

LEMMA CatchUpInvSuffices == CatchUpInv => CaughtUp
<1> SUFFICES ASSUME CatchUpInv, "accounts" \in EnabledIndexes, NEW a \in Addresses,
                    lastChange[a] = "commit", a \notin missed, ~Waiting(a)
             PROVE  accounts[a] # Nothing /\ accounts[a].block = LastAltering(a)
  BY DEF CaughtUp
<1>1. accounts[a] # Nothing /\ accounts[a].asOf >= Changed(a) /\ Committed(a)
  BY DEF CatchUpInv, IndexUpToDate, Committed
<1>2. accounts[a] \in Seen(a)
  BY DEF Seen
<1> QED
  BY <1>1, <1>2 DEF CatchUpInv, ReadsAreRight

\* The accounts a block leaves alone keep their last change.
Untouched(a) ==
  Committed(a)' => Committed(a) /\ LastAltering(a)' = LastAltering(a) /\ Changed(a)' = Changed(a)

LEMMA ChainUntouched ==
  ASSUME UNCHANGED <<chain, committedAt, lastChange>>
  PROVE  \A a : Untouched(a)
<1>1. \A a : LastAltering(a)' = LastAltering(a)
  BY DEF LastAltering
<1> QED
  BY <1>1 DEF Untouched, Committed, Changed

LEMMA ChainAfterCommit ==
  ASSUME TypeInv, ReadInv, ReadsAreRight, NEW b \in Blocks, SaveBlock(b), NEW a \in Addresses
  PROVE  IF a \in alters[b]
         THEN LastAltering(a)' = b /\ Changed(a)' = now + 1 /\ now' = now + 1 /\ Committed(a)'
         ELSE Untouched(a)
<1>1. /\ chain \in Seq(Blocks) /\ chain' = Append(chain, b) /\ chain' \in Seq(Blocks)
      /\ committedAt \in [Blocks -> Nat] /\ lastChange \in [Addresses -> {"none", "commit", "revert"}]
  BY DEF SaveBlock, TypeInv, TypeOK
<1>2. /\ committedAt[b] = 0 /\ committedAt' = [committedAt EXCEPT ![b] = now + 1]
      /\ lastChange'[a] = IF a \in alters[b] THEN "commit" ELSE lastChange[a]
      /\ now' = now + 1
  BY DEF SaveBlock
<1>3. LastAltering(a) = LastOf(chain, a)
  BY <1>1, LastAlteringIsLastOf
<1>4. LastAltering(a)' = LastOf(chain', a)
  <2>1. DOMAIN chain' = 1..Len(chain')
    BY <1>1
  <2> QED
    BY <2>1 DEF LastAltering, LastOf, Heights
<1>5. LastOf(chain', a) = IF a \in alters[b] THEN b ELSE LastOf(chain, a)
  BY <1>1, LastOfAppend
<1>6. CASE a \in alters[b]
  BY <1>1, <1>2, <1>4, <1>5, <1>6 DEF Changed, Committed
<1>7. CASE a \notin alters[b]
  <2>1. Committed(a)' <=> Committed(a)
    BY <1>2, <1>7 DEF Committed
  <2>2. LastAltering(a)' = LastAltering(a)
    BY <1>3, <1>4, <1>5, <1>7
  <2>3. ASSUME Committed(a)
        PROVE  committedAt[LastAltering(a)] # 0 /\ LastAltering(a) \in Blocks
    <3>1. \E i \in 1..Len(chain) : chain[i] = LastAltering(a)
      BY <1>1, <1>3, <2>3, LastOfFacts DEF ReadsAreRight
    <3> QED
      BY <1>1, <3>1 DEF ReadInv, ReadsAfterCommit
  <2>4. Committed(a) => Changed(a)' = Changed(a)
    BY <1>1, <1>2, <2>2, <2>3 DEF Changed
  <2> QED
    BY <1>7, <2>1, <2>2, <2>4 DEF Untouched
<1> QED
  BY <1>6, <1>7

LEMMA ChainAfterRevert ==
  ASSUME TypeInv, RevertIndexedBlock, NEW a \in Addresses
  PROVE  Untouched(a)
<1>1. /\ chain \in Seq(Blocks) /\ chain # <<>> /\ chain' = SubSeq(chain, 1, Len(chain) - 1)
      /\ UNCHANGED committedAt
      /\ lastChange'[a] = IF a \in alters[Top] THEN "revert" ELSE lastChange[a]
  BY DEF RevertIndexedBlock, TypeInv, TypeOK
<1>2. SUFFICES ASSUME a \notin alters[Top] PROVE Untouched(a)
  BY <1>1 DEF Untouched, Committed
<1>3. a \notin alters[chain[Len(chain)]]
  BY <1>1, <1>2 DEF Top
<1>4. LastOf(chain', a) = LastOf(chain, a)
  BY <1>1, <1>3, LastOfShorter
<1>5. LastAltering(a) = LastOf(chain, a)
  BY <1>1, LastAlteringIsLastOf
<1>6. LastAltering(a)' = LastOf(chain', a)
  <2>1. Len(chain) - 1 \in Int /\ \A i \in 1..(Len(chain) - 1) : chain[i] \in Blocks
    BY <1>1
  <2>2. chain' \in Seq(Blocks)
    BY <1>1, <2>1, SubSeqProperties
  <2>3. DOMAIN chain' = 1..Len(chain')
    BY <2>2
  <2> QED
    BY <2>3 DEF LastAltering, LastOf, Heights
<1>7. LastAltering(a)' = LastAltering(a)
  BY <1>4, <1>5, <1>6
<1> QED
  BY <1>1, <1>2, <1>7 DEF Untouched, Committed, Changed

LEMMA SeenAreBalances ==
  ASSUME TypeInv, NEW a \in Addresses, NEW x \in Seen(a), x # Nothing
  PROVE  x \in Balance /\ x.asOf \in Nat
<1>1. loaded[a] \in Loaded /\ accounts[a] \in Loaded
  BY DEF TypeInv, TypeOK
<1>2. \A i \in 1..Len(items) : items[i].balances[a] \in Loaded
  <2>1. \A i \in 1..Len(items) : items[i] \in Items
    BY DEF TypeInv, TypeOK
  <2> QED
    BY <2>1 DEF Items
<1>3. x \in Balance
  BY <1>1, <1>2 DEF Seen, Loaded
<1> QED
  BY <1>3 DEF Balance

\* A step reads the balances as they are, and no change of the chain is past them.
LEMMA RightKept ==
  ASSUME CatchUpInv, [Next]_vars, NEW a \in Addresses, Untouched(a),
         Seen(a)' \subseteq Seen(a) \cup {Nothing, Account(a)}
  PROVE  /\ Committed(a)' => LastAltering(a)' # Genesis
         /\ \A x \in Seen(a)' : x # Nothing =>
              /\ x.asOf <= now'
              /\ Committed(a)' /\ x.asOf >= Changed(a)' => x.block = LastAltering(a)'
<1>1. TypeInv /\ ReadInv /\ ReadsAreRight /\ now \in Nat /\ now <= now' /\ now' \in Nat
  BY CommittedOnce, NextTypeInv DEF CatchUpInv, ReadInv, TypeInv, TypeOK
<1>2. Committed(a)' => LastAltering(a)' # Genesis
  BY <1>1 DEF Untouched, ReadsAreRight
<1>3. ASSUME NEW x \in Seen(a)', x # Nothing
      PROVE  /\ x.asOf <= now'
             /\ Committed(a)' /\ x.asOf >= Changed(a)' => x.block = LastAltering(a)'
  <2>1. CASE x \in Seen(a)
    <3>1. x.asOf \in Nat /\ x.asOf <= now
      BY <1>1, <1>3, <2>1, SeenAreBalances DEF ReadsAreRight
    <3>2. Committed(a) /\ x.asOf >= Changed(a) => x.block = LastAltering(a)
      BY <1>1, <1>3, <2>1 DEF ReadsAreRight
    <3> QED
      BY <1>1, <3>1, <3>2 DEF Untouched
  <2>2. CASE x = Account(a)
    <3>1. x.asOf = now /\ x.block = LastAltering(a)
      BY <2>2 DEF Account
    <3> QED
      BY <1>1, <3>1 DEF Untouched
  <2> QED
    BY <1>3, <2>1, <2>2
<1> QED
  BY <1>2, <1>3

LEMMA ChangedFacts ==
  ASSUME TypeInv, ReadInv, ReadsAreRight, NEW a \in Addresses, Committed(a)
  PROVE  Changed(a) \in Nat /\ Changed(a) <= now /\ LastAltering(a) \in Blocks
<1>1. chain \in Seq(Blocks) /\ committedAt \in [Blocks -> Nat]
  BY DEF TypeInv, TypeOK
<1>2. LastAltering(a) \in Timestamps /\ LastAltering(a) # Genesis
  BY <1>1, LastAlteringIsLastOf, LastOfFacts DEF ReadsAreRight
<1>3. LastAltering(a) \in Blocks
  BY <1>2 DEF Timestamps
<1> QED
  BY <1>1, <1>3 DEF Changed, ReadInv, ReadsAfterCommit

\* What UpToDate says of an item after the step.
StaysUpToDate(item, a) ==
  IF item.op = "block" THEN committedAt'[item.timestamp] >= Changed(a)'
  ELSE item.balances[a].asOf >= Changed(a)'

LEMMA UpToDateKept ==
  ASSUME CatchUpInv, [Next]_vars, NEW a \in Addresses, Untouched(a), Committed(a)',
         NEW i \in 1..Len(items), Newest(i, a)
  PROVE  StaysUpToDate(items[i], a)
<1>1. Committed(a) /\ Changed(a)' = Changed(a)
  BY DEF Untouched
<1>2. UpToDate(items[i], a)
  BY <1>1 DEF CatchUpInv, NewestUpToDate
<1>3. items[i].op = "block" => committedAt'[items[i].timestamp] = committedAt[items[i].timestamp]
  <2> SUFFICES ASSUME items[i].op = "block"
               PROVE  committedAt'[items[i].timestamp] = committedAt[items[i].timestamp]
    OBVIOUS
  <2>1. items[i].timestamp \in Blocks
    BY DEF CatchUpInv, ReadInv, TypeInv, ItemsOK
  <2>2. committedAt[items[i].timestamp] # 0
    BY <2>1 DEF CatchUpInv, ReadInv, ReadsAfterCommit, ItemRead
  <2> QED
    BY <2>1, <2>2, CommittedOnce DEF CatchUpInv
<1> QED
  BY <1>1, <1>2, <1>3 DEF UpToDate, StaysUpToDate

\* The newest item about an account is the same after a step, unless one comes.
LEMMA NewestKept ==
  ASSUME CatchUpInv, [Next]_vars, NEW a \in Addresses, Untouched(a), Committed(a)',
         NEW i \in 1..Len(items'), Newest(i, a)',
         \/ items' = items
         \/ items' = Tail(items) /\ items # <<>>
         \/ items' = <<>>
         \/ \E item : items' = Append(items, item) /\ i \in 1..Len(items)
  PROVE  StaysUpToDate(items'[i], a)
<1>1. items \in Seq(Items) /\ Len(items) \in Nat
  BY DEF CatchUpInv, ReadInv, TypeInv, TypeOK
<1>2. /\ a \in Concerned(items'[i])
      /\ \A j \in 1..Len(items') : j > i => a \notin Concerned(items'[j])
  BY DEF Newest, Concerned
<1>3. CASE items' = items
  BY <1>2, <1>3, UpToDateKept DEF Newest
<1>4. CASE items' = Tail(items) /\ items # <<>>
  <2>1. /\ Len(items') = Len(items) - 1
        /\ \A j \in 1..Len(items') : items'[j] = items[j + 1]
    BY <1>1, <1>4
  <2>2. i + 1 \in 1..Len(items) /\ items'[i] = items[i + 1]
    BY <1>1, <2>1
  <2>3. ASSUME NEW j \in 1..Len(items), j > i + 1
        PROVE  a \notin Concerned(items[j])
    <3>1. j - 1 \in 1..Len(items') /\ j - 1 > i /\ (j - 1) + 1 = j
      BY <1>1, <2>1, <2>3
    <3> QED
      BY <1>2, <2>1, <3>1
  <2>4. Newest(i + 1, a)
    BY <1>2, <2>2, <2>3 DEF Newest
  <2> QED
    BY <2>2, <2>4, UpToDateKept
<1>5. CASE items' = <<>>
  BY <1>5
<1>6. ASSUME NEW item, items' = Append(items, item), i \in 1..Len(items)
      PROVE  StaysUpToDate(items'[i], a)
  <2>1. /\ Len(items') = Len(items) + 1
        /\ \A j \in 1..Len(items) : items'[j] = items[j]
    BY <1>1, <1>6
  <2>2. \A j \in 1..Len(items) : j \in 1..Len(items')
    BY <1>1, <2>1
  <2>3. Newest(i, a)
    BY <1>2, <1>6, <2>1, <2>2 DEF Newest
  <2> QED
    BY <1>6, <2>1, <2>3, UpToDateKept
<1> QED
  BY <1>3, <1>4, <1>5, <1>6

\* A step of the worker, or a restart, brings no item.
WorkersItems ==
  \/ items' = items
  \/ items' = Tail(items) /\ items # <<>>
  \/ items' = <<>>

LEMMA WorkersItemsWait ==
  ASSUME TypeInv, WorkersItems
  PROVE  \A i \in 1..Len(items') : \E j \in 1..Len(items) : items'[i] = items[j]
<1>1. items \in Seq(Items)
  BY DEF TypeInv, TypeOK
<1>2. CASE items' = items
  BY <1>2
<1>3. CASE items' = Tail(items) /\ items # <<>>
  <2>1. \A i \in 1..Len(items') : i + 1 \in 1..Len(items) /\ items'[i] = items[i + 1]
    BY <1>1, <1>3
  <2> QED
    BY <2>1
<1>4. CASE items' = <<>>
  BY <1>4
<1> QED
  BY <1>2, <1>3, <1>4 DEF WorkersItems

\* What a step leaves to be written for an account was there to be written
\* before, or is read in the step.
LEMMA SeenStep ==
  ASSUME TypeInv, NEW a \in Addresses,
         \/ loaded'[a] \in {loaded[a], Nothing, Account(a)}
         \/ items # <<>> /\ loaded'[a] = Head(items).balances[a],
         accounts'[a] \in {accounts[a], loaded[a]},
         \/ WorkersItems
         \/ \E item : items' = Append(items, item) /\ item.balances[a] \in {Nothing, Account(a)}
  PROVE  Seen(a)' \subseteq Seen(a) \cup {Nothing, Account(a)}
<1>1. items \in Seq(Items) /\ Len(items) \in Nat
  BY DEF TypeInv, TypeOK
<1>2. loaded'[a] \in Seen(a) \cup {Nothing, Account(a)}
  <2>1. CASE items # <<>> /\ loaded'[a] = Head(items).balances[a]
    <3>1. Head(items) = items[1] /\ 1 \in 1..Len(items)
      BY <2>1, HeadFacts
    <3> QED
      BY <2>1, <3>1 DEF Seen
  <2>2. CASE loaded'[a] \in {loaded[a], Nothing, Account(a)}
    BY <2>2 DEF Seen
  <2> QED
    BY <2>1, <2>2
<1>3. accounts'[a] \in Seen(a)
  BY DEF Seen
<1>4. ASSUME NEW i \in 1..Len(items')
      PROVE  items'[i].balances[a] \in Seen(a) \cup {Nothing, Account(a)}
  <2>1. CASE \E j \in 1..Len(items) : items'[i] = items[j]
    BY <2>1 DEF Seen
  <2>2. CASE ~\E j \in 1..Len(items) : items'[i] = items[j]
    <3>1. ~WorkersItems
      BY <2>2, WorkersItemsWait
    <3>2. PICK item : items' = Append(items, item) /\ item.balances[a] \in {Nothing, Account(a)}
      BY <3>1
    <3>3. items'[i] = item
      <4>1. /\ Len(items') = Len(items) + 1 /\ items'[Len(items) + 1] = item
            /\ \A j \in 1..Len(items) : items'[j] = items[j]
        BY <1>1, <3>2
      <4>2. i = Len(items) + 1
        <5>1. i \in 1..(Len(items) + 1) /\ i \notin 1..Len(items)
          BY <2>2, <4>1
        <5> QED
          BY <1>1, <5>1
      <4> QED
        BY <4>1, <4>2
    <3> QED
      BY <3>2, <3>3
  <2> QED
    BY <2>1, <2>2
<1> QED
  BY <1>2, <1>3, <1>4 DEF Seen

LEMMA LoadedStep ==
  ASSUME TypeInv, [Next]_vars, NEW a \in Addresses
  PROVE  /\ \/ loaded'[a] \in {loaded[a], Nothing, Account(a)}
            \/ items # <<>> /\ loaded'[a] = Head(items).balances[a]
         /\ accounts'[a] \in {accounts[a], loaded[a]}
         /\ \/ WorkersItems
            \/ \E b \in Blocks : SaveBlock(b)
            \/ \E as \in HandedOver : CallSaveAccounts(as)
<1> USE DEF chainVars, storeVars
<1>t. loaded \in [Addresses -> Loaded] /\ (step # "idle" => items # <<>>)
  BY DEF TypeInv, TypeOK
<1> DEFINE Facts ==
             /\ \/ loaded'[a] \in {loaded[a], Nothing, Account(a)}
                \/ items # <<>> /\ loaded'[a] = Head(items).balances[a]
             /\ accounts'[a] \in {accounts[a], loaded[a]}
             /\ \/ WorkersItems
                \/ \E b \in Blocks : SaveBlock(b)
                \/ \E as \in HandedOver : CallSaveAccounts(as)
<1>w. \A as : WriteAccounts(as) => accounts'[a] \in {accounts[a], loaded[a]}
  BY DEF WriteAccounts
<1>c. Complete /\ items # <<>> => WorkersItems /\ loaded'[a] = Nothing
  BY DEF Complete, WorkersItems, NoneLoaded
<1>a. Again => WorkersItems /\ loaded'[a] = Head(items).balances[a]
  BY DEF Again, Begin, WorkersItems
<1>1. ASSUME NEW b \in Blocks, SaveBlock(b) PROVE Facts
  BY <1>1 DEF SaveBlock
<1>2. CASE RevertIndexedBlock
  BY <1>2 DEF RevertIndexedBlock, WorkersItems
<1>3. ASSUME NEW as \in HandedOver, CallSaveAccounts(as) PROVE Facts
  BY <1>3 DEF CallSaveAccounts
<1>4. CASE Restart
  BY <1>4 DEF Restart, NoneLoaded, WorkersItems
<1>5. CASE Start
  BY <1>5 DEF Start, Begin, WorkersItems
<1>6. ASSUME NEW x \in Addresses, LoadAccount(x) PROVE Facts
  <2>1. loaded' \in {loaded, [loaded EXCEPT ![x] = Account(x)]} /\ UNCHANGED <<items, accounts>>
    BY <1>6 DEF LoadAccount
  <2>2. loaded'[a] \in {loaded[a], Account(a)}
    BY <1>t, <2>1
  <2> QED
    BY <2>1, <2>2 DEF WorkersItems
<1>7. CASE EndLoading
  <2>1. step # "idle" /\ UNCHANGED accounts
    BY <1>7 DEF EndLoading
  <2>2. Complete \/ UNCHANGED <<items, loaded>>
    BY <1>7 DEF EndLoading
  <2> QED
    BY <1>c, <1>t, <2>1, <2>2 DEF WorkersItems
<1>8. CASE SaveAccounts
  <2>1. step # "idle" /\ (UNCHANGED accounts \/ \E as : WriteAccounts(as))
    BY <1>8 DEF SaveAccounts
  <2>2. Complete \/ Again \/ UNCHANGED <<items, loaded>>
    BY <1>8 DEF SaveAccounts
  <2> QED
    BY <1>a, <1>c, <1>t, <1>w, <2>1, <2>2 DEF WorkersItems
<1>9. CASE SaveHistory
  <2>1. step # "idle" /\ UNCHANGED accounts /\ (Complete \/ Again)
    BY <1>9 DEF SaveHistory
  <2> QED
    BY <1>a, <1>c, <1>t, <2>1
<1>10. CASE UNCHANGED vars
  BY <1>10 DEF vars, WorkersItems
<1> QED
  BY <1>1, <1>2, <1>3, <1>4, <1>5, <1>6, <1>7, <1>8, <1>9, <1>10 DEF Next, Node, Worker

\* What IndexUpToDate says of an account after the step.
StaysIndexed(a) ==
  "accounts" \in EnabledIndexes /\ Committed(a)' /\ a \notin missed' /\ ~Waiting(a)' =>
    accounts'[a] # Nothing /\ accounts'[a].asOf >= Changed(a)'

\* Nothing is written for the account, and it goes on waiting, if it was.
LEMMA IndexKept ==
  ASSUME CatchUpInv, NEW a \in Addresses, Untouched(a),
         accounts'[a] = accounts[a], a \in missed => a \in missed',
         Waiting(a) => Waiting(a)' \/ a \in missed'
  PROVE  StaysIndexed(a)
BY DEF CatchUpInv, IndexUpToDate, Untouched, StaysIndexed

LEMMA NewItemWaits ==
  ASSUME TypeInv, NEW item, items' = Append(items, item), NEW a
  PROVE  /\ Waiting(a) => Waiting(a)'
         /\ a \in Concerned(item) => Waiting(a)'
<1>1. items \in Seq(Items) /\ DOMAIN items = 1..Len(items)
  BY DEF TypeInv, TypeOK
<1>2. /\ DOMAIN items' = 1..(Len(items) + 1) /\ items'[Len(items) + 1] = item /\ Len(items) \in Nat
      /\ \A i \in 1..Len(items) : items'[i] = items[i]
  BY <1>1
<1>3. \A i : Concerned(items[i])' = Concerned(items'[i])
  BY DEF Concerned
<1> QED
  BY <1>1, <1>2, <1>3 DEF Waiting

\* The item in hand has the balance of the account since its last change, when
\* no other one is about the account.
LEMMA NewestLoaded ==
  ASSUME CatchUpInv, step # "idle", NEW a \in Addresses, Committed(a), Newest(1, a), a \in Written
  PROVE  loaded[a] # Nothing /\ loaded[a].asOf >= Changed(a)
<1>1. TypeInv /\ ReadInv /\ ReadsAreRight /\ items # <<>>
  BY DEF CatchUpInv, ReadInv, TypeInv, TypeOK
<1>2. /\ Head(items) = items[1] /\ 1 \in 1..Len(items) /\ Head(items) \in Items
      /\ UpToDate(Head(items), a)
  BY <1>1, HeadFacts DEF CatchUpInv, NewestUpToDate
<1>3. loaded[a] # Nothing /\ loaded[a].asOf \in Nat
  <2>1. loaded[a] # Nothing /\ loaded[a] \in Seen(a)
    BY DEF Written, Seen
  <2> QED
    BY <1>1, <2>1, SeenAreBalances
<1>4. Changed(a) \in Nat
  BY <1>1, ChangedFacts
<1>5. CASE Head(items).op = "block"
  <2>1. Head(items).timestamp \in Blocks
    BY <1>1, <1>2, <1>5 DEF TypeInv, ItemsOK
  <2>2. loaded[a].asOf >= committedAt[Head(items).timestamp]
    BY <1>1, <1>3, <2>1 DEF ReadInv, ReadsAfterCommit, NotEarlier
  <2>3. committedAt[Head(items).timestamp] \in Nat
    BY <1>1, <2>1 DEF TypeInv, TypeOK
  <2>4. committedAt[Head(items).timestamp] >= Changed(a)
    BY <1>2, <1>5 DEF UpToDate
  <2> QED
    BY <1>3, <1>4, <2>2, <2>3, <2>4
<1>6. CASE Head(items).op # "block"
  <2>1. Head(items).op = "accounts"
    BY <1>2, <1>6 DEF Items
  <2>2. loaded = Head(items).balances
    BY <1>1, <2>1 DEF TypeInv, ItemsOK
  <2> QED
    BY <1>2, <1>3, <1>6, <2>2 DEF UpToDate
<1> QED
  BY <1>5, <1>6

LEMMA CompleteIndexed ==
  ASSUME CatchUpInv, step # "idle", Complete, NEW a \in Addresses, Untouched(a),
         accounts'[a] = accounts[a],
         "accounts" \in EnabledIndexes /\ a \in Written => accounts[a] = loaded[a]
  PROVE  StaysIndexed(a)
<1> SUFFICES ASSUME "accounts" \in EnabledIndexes, Committed(a)', a \notin missed', ~Waiting(a)'
             PROVE  accounts[a] # Nothing /\ accounts[a].asOf >= Changed(a)'
  BY DEF StaysIndexed
<1>1. TypeInv /\ items # <<>> /\ items \in Seq(Items) /\ Len(items) \in Nat
  BY DEF CatchUpInv, ReadInv, TypeInv, TypeOK
<1>2. /\ items' = Tail(items)
      /\ missed' = (missed \ Concerned(Head(items))) \cup (Concerned(Head(items)) \ Written)
  BY DEF Complete
<1>3. /\ DOMAIN items' = 1..(Len(items) - 1) /\ DOMAIN items = 1..Len(items)
      /\ \A i \in 1..(Len(items) - 1) : items'[i] = items[i + 1]
      /\ Head(items) = items[1]
  BY <1>1, <1>2, HeadFacts
<1>4. ASSUME NEW j \in 1..Len(items), j # 1
      PROVE  a \notin Concerned(items[j])
  <2>1. j - 1 \in 1..(Len(items) - 1) /\ (j - 1) + 1 = j
    BY <1>1, <1>4
  <2>2. items'[j - 1] = items[j] /\ j - 1 \in DOMAIN items'
    BY <1>3, <2>1
  <2>3. Concerned(items[j - 1])' = Concerned(items'[j - 1])
    BY DEF Concerned
  <2> QED
    BY <2>2, <2>3 DEF Waiting
<1>5. Committed(a) /\ Changed(a)' = Changed(a)
  BY DEF Untouched
<1>6. CASE a \in Concerned(Head(items))
  <2>1. a \in Written
    BY <1>2, <1>6
  <2>2. Newest(1, a)
    BY <1>3, <1>4, <1>6 DEF Newest
  <2> QED
    BY <1>5, <2>1, <2>2, NewestLoaded
<1>7. CASE a \notin Concerned(Head(items))
  <2>1. a \notin missed /\ ~Waiting(a)
    BY <1>2, <1>3, <1>4, <1>7 DEF Waiting
  <2> QED
    BY <1>5, <2>1 DEF CatchUpInv, IndexUpToDate
<1> QED
  BY <1>6, <1>7

\* An attempt writes only accounts of its item, which waits until it completes.
LEMMA SavingIndexed ==
  ASSUME CatchUpInv, step # "idle", UNCHANGED <<items, missed>>, NEW a \in Addresses, Untouched(a),
         a \notin Written => accounts'[a] = accounts[a]
  PROVE  StaysIndexed(a)
<1>1. TypeInv /\ items # <<>> /\ items \in Seq(Items) /\ Written \subseteq Concerned(Head(items))
  BY DEF CatchUpInv, ReadInv, TypeInv, TypeOK
<1>2. Waiting(a)' = Waiting(a)
  BY DEF Waiting, Concerned
<1>3. CASE a \in Written
  <2>1. 1 \in DOMAIN items /\ a \in Concerned(items[1])
    BY <1>1, <1>3, HeadFacts
  <2> QED
    BY <1>2, <2>1 DEF Waiting, StaysIndexed
<1>4. CASE a \notin Written
  BY <1>2, <1>4, IndexKept
<1> QED
  BY <1>3, <1>4

LEMMA IndexStep ==
  ASSUME CatchUpInv, [Next]_vars, NEW a \in Addresses, Untouched(a)
  PROVE  StaysIndexed(a)
<1> USE DEF chainVars, storeVars
<1>t. TypeInv /\ JustWritten /\ OffMeansEmpty /\ DOMAIN items = 1..Len(items)
  BY DEF CatchUpInv, AgreementInv, TypeInv, TypeOK
\* The item does not change, nor what is written.
<1>k. ASSUME UNCHANGED <<items, accounts, missed>> PROVE StaysIndexed(a)
  <2>1. Waiting(a)' = Waiting(a)
    BY <1>k DEF Waiting, Concerned
  <2> QED
    BY <1>k, <2>1, IndexKept
\* A new item comes.
<1>n. ASSUME NEW item, items' = Append(items, item), UNCHANGED <<accounts, missed>>
      PROVE  StaysIndexed(a)
  BY <1>n, <1>t, NewItemWaits, IndexKept
<1>a. Again => UNCHANGED <<items, missed>>
  BY DEF Again
<1>1. ASSUME NEW b \in Blocks, SaveBlock(b) PROVE StaysIndexed(a)
  BY <1>1, <1>n DEF SaveBlock
<1>2. CASE RevertIndexedBlock
  BY <1>2, <1>k DEF RevertIndexedBlock
<1>3. ASSUME NEW as \in HandedOver, CallSaveAccounts(as) PROVE StaysIndexed(a)
  BY <1>3, <1>n DEF CallSaveAccounts
<1>4. CASE Restart
  <2>1. UNCHANGED accounts /\ missed \subseteq missed'
    BY <1>4 DEF Restart
  <2>2. Waiting(a) => a \in missed'
    BY <1>4 DEF Restart, Waiting
  <2> QED
    BY <2>1, <2>2, IndexKept
<1>5. CASE Start
  BY <1>5, <1>k DEF Start
<1>6. ASSUME NEW x \in Addresses, LoadAccount(x) PROVE StaysIndexed(a)
  BY <1>6, <1>k DEF LoadAccount
<1>7. CASE EndLoading
  <2>1. step # "idle" /\ UNCHANGED accounts
    BY <1>7 DEF EndLoading
  <2>2. CASE Written = {} /\ Complete
    BY <2>1, <2>2, CompleteIndexed
  <2>3. CASE UNCHANGED <<items, missed>>
    BY <1>k, <2>1, <2>3
  <2> QED
    BY <1>7, <2>2, <2>3 DEF EndLoading
<1>8. CASE SaveAccounts
  <2>1. step # "idle"
    BY <1>8 DEF SaveAccounts
  <2>2. CASE "accounts" \notin EnabledIndexes
    BY <2>2 DEF StaysIndexed
  <2>3. CASE "accounts" \in EnabledIndexes
    <3>1. UNCHANGED <<items, missed>> /\ \E as \in SUBSET Written : WriteAccounts(as)
      BY <1>8, <1>a, <2>3 DEF SaveAccounts
    <3>2. a \notin Written => accounts'[a] = accounts[a]
      BY <3>1 DEF WriteAccounts
    <3> QED
      BY <2>1, <3>1, <3>2, SavingIndexed
  <2> QED
    BY <2>2, <2>3
<1>9. CASE SaveHistory
  <2>1. step = "history" /\ UNCHANGED accounts /\ (Complete \/ Again)
    BY <1>9 DEF SaveHistory
  <2>2. CASE Complete
    BY <1>t, <2>1, <2>2, CompleteIndexed DEF JustWritten
  <2>3. CASE Again
    BY <1>a, <1>k, <2>1, <2>3
  <2> QED
    BY <2>1, <2>2, <2>3
<1>10. CASE UNCHANGED vars
  BY <1>10, <1>k DEF vars
<1> QED
  BY <1>1, <1>2, <1>3, <1>4, <1>5, <1>6, <1>7, <1>8, <1>9, <1>10 DEF Next, Node, Worker

LEMMA NewestStep ==
  ASSUME CatchUpInv, [Next]_vars, NEW a \in Addresses, Untouched(a), Committed(a)',
         \A b \in Blocks : SaveBlock(b) => a \notin alters[b],
         NEW i \in 1..Len(items'), Newest(i, a)'
  PROVE  StaysUpToDate(items'[i], a)
<1>1. TypeInv /\ ReadInv /\ ReadsAreRight /\ items \in Seq(Items) /\ Len(items) \in Nat
  BY DEF CatchUpInv, ReadInv, TypeInv, TypeOK
<1>2. a \in Concerned(items'[i])
  BY DEF Newest, Concerned
<1>3. ASSUME NEW item, items' = Append(items, item)
      PROVE  i \in 1..Len(items) \/ items'[i] = item
  <2>1. Len(items') = Len(items) + 1 /\ items'[Len(items) + 1] = item
    BY <1>1, <1>3
  <2>2. i \in 1..Len(items) \/ i = Len(items) + 1
    BY <1>1, <2>1
  <2> QED
    BY <2>1, <2>2
<1>4. CASE WorkersItems
  BY <1>4, NewestKept DEF WorkersItems
<1>5. ASSUME NEW b \in Blocks, SaveBlock(b)
      PROVE  StaysUpToDate(items'[i], a)
  <2> DEFINE item == [op |-> "block", timestamp |-> b, balances |-> NoneLoaded]
  <2>1. items' = Append(items, item) /\ a \notin alters[b]
    BY <1>5 DEF SaveBlock
  <2>2. items'[i] # item
    BY <1>2, <2>1 DEF Concerned
  <2> HIDE DEF item
  <2> QED
    BY <1>3, <2>1, <2>2, NewestKept
<1>6. ASSUME NEW as \in HandedOver, CallSaveAccounts(as)
      PROVE  StaysUpToDate(items'[i], a)
  <2> DEFINE balances == [x \in Addresses |-> IF x \in as THEN Account(x) ELSE Nothing]
             item == [op |-> "accounts", timestamp |-> Top, balances |-> balances]
  <2>1. items' = Append(items, item)
    BY <1>6 DEF CallSaveAccounts
  <2>2. CASE i \in 1..Len(items)
    <3> HIDE DEF item
    <3> QED
      BY <2>1, <2>2, NewestKept
  <2>3. CASE items'[i] = item
    <3>1. balances[a] # Nothing
      <4> HIDE DEF balances
      <4>1. item.op = "accounts" /\ item.balances = balances
        OBVIOUS
      <4>2. a \in Concerned(item)
        BY <1>2, <2>3
      <4> HIDE DEF item
      <4> QED
        BY <4>1, <4>2 DEF Concerned
    <3>2. balances[a].asOf = now
      BY <3>1 DEF Account
    <3>3. Changed(a)' = Changed(a) /\ Changed(a) <= now /\ Changed(a) \in Nat /\ now \in Nat
      BY <1>1, ChangedFacts DEF Untouched, TypeInv, TypeOK
    <3> HIDE DEF balances
    <3> QED
      BY <2>3, <3>2, <3>3 DEF StaysUpToDate
  <2> HIDE DEF item
  <2> QED
    BY <1>3, <2>1, <2>2, <2>3
<1> QED
  BY <1>1, <1>4, <1>5, <1>6, LoadedStep

\* A block that alters the account: what was read before it is old, and its own
\* item will bring what it changed.
LEMMA CommitStep ==
  ASSUME CatchUpInv, [Next]_vars, NEW b \in Blocks, SaveBlock(b),
         NEW a \in Addresses, a \in alters[b]
  PROVE  /\ LastAltering(a)' # Genesis
         /\ \A x \in Seen(a)' : x # Nothing => x.asOf <= now' /\ ~(x.asOf >= Changed(a)')
         /\ \A i \in 1..Len(items') : Newest(i, a)' => StaysUpToDate(items'[i], a)
         /\ Waiting(a)'
<1> DEFINE item == [op |-> "block", timestamp |-> b, balances |-> NoneLoaded]
<1>1. TypeInv /\ ReadInv /\ ReadsAreRight /\ items \in Seq(Items) /\ now \in Nat
  BY DEF CatchUpInv, ReadInv, TypeInv, TypeOK
<1>2. /\ LastAltering(a)' = b /\ Changed(a)' = now + 1 /\ now' = now + 1
      /\ committedAt'[b] = now + 1
  BY <1>1, ChainAfterCommit DEF SaveBlock, TypeInv, TypeOK
<1>3. items' = Append(items, item) /\ UNCHANGED <<loaded, accounts>> /\ a \in Concerned(item)
  BY DEF SaveBlock, Concerned, storeVars
<1>4. Waiting(a)'
  <2> HIDE DEF item
  <2> QED
    BY <1>1, <1>3, NewItemWaits
<1>5. \A x \in Seen(a)' : x # Nothing => x \in Seen(a)
  <2>1. item.balances[a] = Nothing
    BY DEF NoneLoaded
  <2>2. /\ Len(items') = Len(items) + 1 /\ Len(items) \in Nat
        /\ items'[Len(items) + 1] = item
        /\ \A i \in 1..Len(items) : items'[i] = items[i]
    BY <1>1, <1>3
  <2>3. \A i \in 1..Len(items') : i \in 1..Len(items) \/ items'[i] = item
    BY <2>2
  <2> HIDE DEF item
  <2> QED
    BY <1>3, <2>1, <2>2, <2>3 DEF Seen
<1>6. ASSUME NEW x \in Seen(a)', x # Nothing
      PROVE  x.asOf <= now' /\ ~(x.asOf >= Changed(a)')
  <2>1. x.asOf \in Nat /\ x.asOf <= now
    BY <1>1, <1>5, <1>6, SeenAreBalances DEF ReadsAreRight
  <2> QED
    BY <1>1, <1>2, <2>1
<1>7. ASSUME NEW i \in 1..Len(items'), Newest(i, a)'
      PROVE  StaysUpToDate(items'[i], a)
  <2> HIDE DEF item
  <2>1. /\ Len(items') = Len(items) + 1 /\ Len(items) \in Nat
        /\ items'[Len(items) + 1] = item
    BY <1>1, <1>3
  <2>2. \A j \in 1..Len(items') : j > i => a \notin Concerned(items'[j])
    BY <1>7 DEF Newest, Concerned
  <2>3. i = Len(items) + 1
    <3>1. Len(items) + 1 \in 1..Len(items')
      BY <2>1
    <3>2. ~(Len(items) + 1 > i)
      BY <1>3, <2>1, <2>2, <3>1
    <3> QED
      BY <2>1, <3>2
  <2>4. item.op = "block" /\ item.timestamp = b
    BY DEF item
  <2> QED
    BY <1>1, <1>2, <2>1, <2>3, <2>4 DEF StaysUpToDate
<1> QED
  BY <1>2, <1>4, <1>6, <1>7, AccountsAssumption

LEMMA NextCatchUp == CatchUpInv /\ [Next]_vars => CatchUpInv'
<1> SUFFICES ASSUME CatchUpInv, [Next]_vars PROVE CatchUpInv'
  OBVIOUS
<1>1. TypeInv /\ AgreementInv' /\ ReadInv'
  BY NextAgreement, NextReads DEF CatchUpInv, ReadInv
<1>2. ASSUME NEW a \in Addresses
      PROVE  /\ Committed(a)' => LastAltering(a)' # Genesis
             /\ \A x \in Seen(a)' : x # Nothing =>
                  /\ x.asOf <= now'
                  /\ Committed(a)' /\ x.asOf >= Changed(a)' => x.block = LastAltering(a)'
             /\ \A i \in 1..Len(items') :
                  Committed(a)' /\ Newest(i, a)' => StaysUpToDate(items'[i], a)
             /\ StaysIndexed(a)
  <2>1. CASE \E b \in Blocks : SaveBlock(b) /\ a \in alters[b]
    BY <2>1, CommitStep DEF StaysIndexed
  <2>2. CASE ~\E b \in Blocks : SaveBlock(b) /\ a \in alters[b]
    <3>1. Untouched(a)
      <4>1. ASSUME NEW b \in Blocks, SaveBlock(b) PROVE Untouched(a)
        BY <1>1, <2>2, <4>1, ChainAfterCommit DEF CatchUpInv
      <4>2. CASE RevertIndexedBlock
        BY <1>1, <4>2, ChainAfterRevert
      <4>3. ASSUME NEW as \in HandedOver, CallSaveAccounts(as) PROVE Untouched(a)
        BY <4>3, ChainUntouched DEF CallSaveAccounts
      <4>4. CASE Restart \/ Worker \/ UNCHANGED vars
        <5>1. UNCHANGED <<chain, committedAt, lastChange>>
          BY <4>4 DEF Restart, Worker, Start, LoadAccount, EndLoading, SaveAccounts, SaveHistory,
                      Complete, Again, vars, chainVars
        <5> QED
          BY <5>1, ChainUntouched
      <4> QED
        BY <4>1, <4>2, <4>3, <4>4 DEF Next, Node
    <3>2. Seen(a)' \subseteq Seen(a) \cup {Nothing, Account(a)}
      <4>1. ASSUME NEW b \in Blocks, SaveBlock(b)
            PROVE  \E item : items' = Append(items, item) /\ item.balances[a] \in {Nothing, Account(a)}
        BY <4>1 DEF SaveBlock, NoneLoaded
      <4>2. ASSUME NEW as \in HandedOver, CallSaveAccounts(as)
            PROVE  \E item : items' = Append(items, item) /\ item.balances[a] \in {Nothing, Account(a)}
        <5> DEFINE balances == [x \in Addresses |-> IF x \in as THEN Account(x) ELSE Nothing]
        <5>1. items' = Append(items, [op |-> "accounts", timestamp |-> Top, balances |-> balances])
          BY <4>2 DEF CallSaveAccounts
        <5>2. balances[a] \in {Nothing, Account(a)}
          OBVIOUS
        <5> HIDE DEF balances
        <5> QED
          BY <5>1, <5>2
      <4> QED
        BY <1>1, <4>1, <4>2, LoadedStep, SeenStep
    <3>3. \A i \in 1..Len(items') :
            Committed(a)' /\ Newest(i, a)' => StaysUpToDate(items'[i], a)
      BY <2>2, <3>1, NewestStep
    <3> QED
      BY <3>1, <3>2, <3>3, RightKept, IndexStep
  <2> QED
    BY <2>1, <2>2
<1>3. ReadsAreRight'
  BY <1>2 DEF ReadsAreRight
<1>4. NewestUpToDate'
  BY <1>2 DEF NewestUpToDate, UpToDate, StaysUpToDate
<1>5. IndexUpToDate'
  BY <1>2 DEF IndexUpToDate, StaysIndexed
<1> QED
  BY <1>1, <1>3, <1>4, <1>5 DEF CatchUpInv

\* Without items waiting, an account last altered by a block still on the chain,
\* and which was not missed, shows its current balance: whatever the node commits,
\* reverts and hands over while its items wait, fail and are repeated.
THEOREM CatchesUp == Spec => []CaughtUp
<1>1. Init => CatchUpInv
  <2>1. ASSUME Init PROVE ReadsAreRight /\ NewestUpToDate /\ IndexUpToDate
    <3>1. /\ items = <<>> /\ Len(items) = 0
          /\ \A a \in Addresses : ~Committed(a) /\ loaded[a] = Nothing /\ accounts[a] = Nothing
      BY <2>1 DEF Init, Committed, NoneLoaded
    <3> QED
      BY <3>1 DEF ReadsAreRight, NewestUpToDate, IndexUpToDate, Seen
  <2>2. Init => AgreementInv
    BY InitAgreement
  <2> QED
    BY <2>1, <2>2, InitReads DEF CatchUpInv
<1> QED
  BY <1>1, NextCatchUp, CatchUpInvSuffices, PTL DEF Spec
=============================================================================
