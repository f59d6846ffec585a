-------------------------- MODULE TxGroupingProofs --------------------------
(***************************************************************************)
(* Proofs about TxGrouping for every set of transactions, rewards and      *)
(* contract results, every block and pool, and every order in which the    *)
(* maps are ranged over.                                                   *)
(***************************************************************************)
EXTENDS TxGrouping, TLAPS, FiniteSetTheorems

-----------------------------------------------------------------------------
(* Sums over finite sets.  The library's induction theorems take an operator *)
(* as a parameter, which the provers cannot instantiate; instead, a set that *)
(* would refute what is to be proved has a smallest element.                 *)

LEMMA SmallestSet ==
  ASSUME NEW S, IsFiniteSet(S), NEW C \in SUBSET (SUBSET S), C # {}
  PROVE  \E T \in C : \A U \in SUBSET T : U # T => U \notin C
<1>1. FiniteSubsetsOf(S) = SUBSET S
  BY FS_FiniteSubsetsOfFinite
<1>2. IsWellFoundedOn(StrictSubsetOrdering(S), SUBSET S)
  BY <1>1, FS_StrictSubsetOrderingWellFounded
<1>3. PICK T \in C : \A U \in C : <<U, T>> \notin StrictSubsetOrdering(S)
  BY <1>2, WFMin, Zenon
<1>4. ASSUME NEW U \in SUBSET T, U # T, U \in C PROVE FALSE
  <2>1. U \in SUBSET S /\ T \in SUBSET S
    OBVIOUS
  <2>2. <<U, T>> \in StrictSubsetOrdering(S)
    BY <1>4, <2>1 DEF StrictSubsetOrdering
  <2> QED
    BY <1>3, <1>4, <2>2
<1> QED
  BY <1>4

Pick(s) == CHOOSE x \in s : TRUE

\* What SumFunctionOnSet computes: the sums over the subsets of S.
SumsOf(f, S, sums) ==
  sums = [s \in SUBSET S |-> IF s = {} THEN 0 ELSE f[Pick(s)] + sums[s \ {Pick(s)}]]

LEMMA PickFacts ==
  ASSUME NEW s, s # {}
  PROVE  Pick(s) \in s /\ s \ {Pick(s)} \in SUBSET s /\ s \ {Pick(s)} # s
<1>1. Pick(s) \in s
  BY DEF Pick
<1> QED
  BY <1>1

LEMMA SumsAgree ==
  ASSUME NEW f, NEW S, IsFiniteSet(S), NEW T \in SUBSET S,
         NEW g, SumsOf(f, S, g), NEW h, SumsOf(f, T, h)
  PROVE  \A s \in SUBSET T : g[s] = h[s]
<1> DEFINE C == {s \in SUBSET T : g[s] # h[s]}
<1> SUFFICES ASSUME C # {} PROVE FALSE
  OBVIOUS
<1>1. PICK s \in C : \A U \in SUBSET s : U # s => U \notin C
  <2>1. C \in SUBSET (SUBSET S)
    OBVIOUS
  <2> HIDE DEF C
  <2> QED
    BY <2>1, SmallestSet, Zenon
<1>2. s \in SUBSET T /\ s \in SUBSET S
  OBVIOUS
<1>3. g[s] = IF s = {} THEN 0 ELSE f[Pick(s)] + g[s \ {Pick(s)}]
  BY <1>2 DEF SumsOf
<1>4. h[s] = IF s = {} THEN 0 ELSE f[Pick(s)] + h[s \ {Pick(s)}]
  BY <1>2 DEF SumsOf
<1>5. CASE s # {}
  <2>1. s \ {Pick(s)} \notin C /\ s \ {Pick(s)} \in SUBSET T
    BY <1>1, <1>2, <1>5, PickFacts
  <2> QED
    BY <1>3, <1>4, <1>5, <2>1
<1> QED
  BY <1>3, <1>4, <1>5

LEMMA SumsExist ==
  ASSUME NEW f, NEW S, IsFiniteSet(S)
  PROVE  \E sums : SumsOf(f, S, sums)
<1> DEFINE C == {s \in SUBSET S : ~ \E sums : SumsOf(f, s, sums)}
<1> SUFFICES ASSUME C # {} PROVE FALSE
  BY Zenon
<1>1. PICK T \in C : \A U \in SUBSET T : U # T => U \notin C
  <2>1. C \in SUBSET (SUBSET S)
    OBVIOUS
  <2> HIDE DEF C
  <2> QED
    BY <2>1, SmallestSet, Zenon
<1> DEFINE below(s) == CHOOSE sums : SumsOf(f, s, sums)
           rest(s) == s \ {Pick(s)}
           all == [s \in SUBSET T |-> IF s = {} THEN 0 ELSE f[Pick(s)] + below(rest(s))[rest(s)]]
<1>2. T \in SUBSET S /\ IsFiniteSet(T) /\ ~ \E sums : SumsOf(f, T, sums)
  BY FS_Subset
<1>3. ASSUME NEW s \in SUBSET T, s # T PROVE SumsOf(f, s, below(s)) /\ IsFiniteSet(s)
  <2>1. s \notin C /\ s \in SUBSET S
    BY <1>1, <1>2, <1>3
  <2>2. \E sums : SumsOf(f, s, sums)
    BY <2>1, Zenon
  <2>3. SumsOf(f, s, below(s))
    BY <2>2, Zenon
  <2> QED
    BY <2>1, <2>3, FS_Subset
<1> HIDE DEF C, below
<1>4. ASSUME NEW s \in SUBSET T, s # T PROVE all[s] = below(s)[s]
  <2>1. below(s)[s] = IF s = {} THEN 0 ELSE f[Pick(s)] + below(s)[rest(s)]
    <3>1. s \in SUBSET s
      OBVIOUS
    <3> QED
      BY <1>3, <1>4, <3>1 DEF SumsOf
  <2>2. CASE s # {}
    <3>1. rest(s) \in SUBSET s /\ rest(s) # s /\ rest(s) \in SUBSET T /\ rest(s) # T
      BY <1>4, <2>2, PickFacts
    <3>2. SumsOf(f, rest(s), below(rest(s))) /\ rest(s) \in SUBSET rest(s)
      BY <1>3, <3>1
    <3>3. SumsOf(f, s, below(s)) /\ IsFiniteSet(s)
      BY <1>3, <1>4
    <3>4. ASSUME NEW r \in SUBSET s, NEW g, SumsOf(f, s, g), NEW h, SumsOf(f, r, h),
                 NEW u \in SUBSET r
          PROVE  g[u] = h[u]
      BY <3>3, <3>4, SumsAgree
    <3> HIDE DEF rest
    <3>5. below(s)[rest(s)] = below(rest(s))[rest(s)]
      BY <3>1, <3>2, <3>3, <3>4
    <3> QED
      BY <2>1, <2>2, <3>5
  <2>3. CASE s = {}
    BY <2>1, <2>3
  <2> QED
    BY <2>2, <2>3
<1>5. ASSUME NEW s \in SUBSET T
      PROVE  all[s] = IF s = {} THEN 0 ELSE f[Pick(s)] + all[rest(s)]
  <2>1. CASE s # {}
    <3>1. rest(s) \in SUBSET T /\ rest(s) # T
      BY <2>1, PickFacts
    <3> QED
      BY <1>4, <2>1, <3>1
  <2> QED
    BY <2>1
<1>6. all = [s \in SUBSET T |-> IF s = {} THEN 0 ELSE f[Pick(s)] + all[rest(s)]]
  <2>1. all = [s \in SUBSET T |-> all[s]]
    OBVIOUS
  <2> HIDE DEF all
  <2> QED
    BY <1>5, <2>1
<1>7. SumsOf(f, T, all)
  BY <1>6 DEF SumsOf
<1> QED
  BY <1>2, <1>7

\* The recursive definition of the library, as one equation.
LEMMA SumUnfolds ==
  ASSUME NEW f, NEW S, IsFiniteSet(S)
  PROVE  SumFunctionOnSet(f, S) =
           IF S = {} THEN 0 ELSE f[Pick(S)] + SumFunctionOnSet(f, S \ {Pick(S)})
<1> DEFINE sums(T) == CHOOSE g : SumsOf(f, T, g)
<1>1. ASSUME NEW T \in SUBSET S
      PROVE  SumsOf(f, T, sums(T)) /\ SumFunctionOnSet(f, T) = sums(T)[T]
  <2>1. IsFiniteSet(T)
    BY FS_Subset
  <2>2. \E g : SumsOf(f, T, g)
    BY <2>1, SumsExist
  <2>3. SumFunctionOnSet(f, T) =
          (CHOOSE g : g = [s \in SUBSET T |->
             IF s = {} THEN 0 ELSE f[CHOOSE x \in s : TRUE] + g[s \ {CHOOSE x \in s : TRUE}]])[T]
    BY Zenon DEF SumFunctionOnSet, FoldFunctionOnSet, MapThenFoldSet
  <2>4. SumFunctionOnSet(f, T) = sums(T)[T]
    BY <2>3, Zenon DEF SumsOf, Pick
  <2> QED
    BY <2>2, <2>4, Zenon
<1> HIDE DEF sums
<1>2. S \in SUBSET S /\ SumsOf(f, S, sums(S)) /\ SumFunctionOnSet(f, S) = sums(S)[S]
  BY <1>1
<1>3. sums(S)[S] = IF S = {} THEN 0 ELSE f[Pick(S)] + sums(S)[S \ {Pick(S)}]
  BY <1>2 DEF SumsOf
<1>4. ASSUME NEW T \in SUBSET S PROVE sums(S)[T] = SumFunctionOnSet(f, T)
  <2>1. T \in SUBSET T
    OBVIOUS
  <2>2. SumsOf(f, T, sums(T)) /\ SumFunctionOnSet(f, T) = sums(T)[T]
    BY <1>1
  <2>3. ASSUME NEW g, SumsOf(f, S, g), NEW h, SumsOf(f, T, h), NEW u \in SUBSET T
        PROVE  g[u] = h[u]
    BY <2>3, SumsAgree
  <2> QED
    BY <1>2, <2>1, <2>2, <2>3
<1>5. CASE S # {}
  <2>1. S \ {Pick(S)} \in SUBSET S
    OBVIOUS
  <2>2. sums(S)[S \ {Pick(S)}] = SumFunctionOnSet(f, S \ {Pick(S)})
    BY <1>4, <2>1
  <2> QED
    BY <1>2, <1>3, <1>5, <2>2
<1> QED
  BY <1>2, <1>3, <1>5

LEMMA SumEmpty ==
  \A f : SumFunctionOnSet(f, {}) = 0
<1> TAKE f
<1>1. IsFiniteSet({})
  BY FS_EmptySet
<1> QED
  BY <1>1, SumUnfolds

LEMMA SumNat ==
  ASSUME NEW f, NEW S, IsFiniteSet(S), \A x \in S : f[x] \in Nat
  PROVE  SumFunctionOnSet(f, S) \in Nat
<1> DEFINE C == {s \in SUBSET S : SumFunctionOnSet(f, s) \notin Nat}
<1> SUFFICES ASSUME C # {} PROVE FALSE
  OBVIOUS
<1>1. PICK T \in C : \A U \in SUBSET T : U # T => U \notin C
  <2>1. C \in SUBSET (SUBSET S)
    OBVIOUS
  <2> HIDE DEF C
  <2> QED
    BY <2>1, SmallestSet, Zenon
<1>2. T \in SUBSET S /\ IsFiniteSet(T)
  BY FS_Subset
<1>3. SumFunctionOnSet(f, T) =
        IF T = {} THEN 0 ELSE f[Pick(T)] + SumFunctionOnSet(f, T \ {Pick(T)})
  BY <1>2, SumUnfolds
<1>4. CASE T # {}
  <2>1. Pick(T) \in S /\ SumFunctionOnSet(f, T \ {Pick(T)}) \in Nat
    BY <1>1, <1>2, <1>4, PickFacts
  <2> QED
    BY <1>3, <1>4, <2>1
<1> QED
  BY <1>3, <1>4

\* Adding nothing.
LEMMA SumOfZeros ==
  ASSUME NEW S, IsFiniteSet(S)
  PROVE  SumFunctionOnSet([x \in S |-> 0], S) = 0
<1> DEFINE f == [x \in S |-> 0]
           C == {s \in SUBSET S : SumFunctionOnSet(f, s) # 0}
<1> SUFFICES ASSUME C # {} PROVE FALSE
  OBVIOUS
<1>1. PICK T \in C : \A U \in SUBSET T : U # T => U \notin C
  <2>1. C \in SUBSET (SUBSET S)
    OBVIOUS
  <2> HIDE DEF C
  <2> QED
    BY <2>1, SmallestSet, Zenon
<1>2. T \in SUBSET S /\ IsFiniteSet(T)
  BY FS_Subset
<1>3. SumFunctionOnSet(f, T) =
        IF T = {} THEN 0 ELSE f[Pick(T)] + SumFunctionOnSet(f, T \ {Pick(T)})
  BY <1>2, SumUnfolds
<1>4. CASE T # {}
  <2>1. f[Pick(T)] = 0 /\ SumFunctionOnSet(f, T \ {Pick(T)}) = 0
    BY <1>1, <1>2, <1>4, PickFacts
  <2> QED
    BY <1>3, <1>4, <2>1
<1> QED
  BY <1>3, <1>4

\* A sum does not depend on the order in which it is taken.
LEMMA SumTakesOut ==
  ASSUME NEW f, NEW S, IsFiniteSet(S), \A x \in S : f[x] \in Nat, NEW x \in S
  PROVE  SumFunctionOnSet(f, S) = f[x] + SumFunctionOnSet(f, S \ {x})
<1> DEFINE sum(s) == SumFunctionOnSet(f, s)
           C == {s \in SUBSET S : \E y \in s : sum(s) # f[y] + sum(s \ {y})}
<1> SUFFICES ASSUME C # {} PROVE FALSE
  BY Zenon
<1>1. PICK T \in C : \A U \in SUBSET T : U # T => U \notin C
  <2>1. C \in SUBSET (SUBSET S)
    OBVIOUS
  <2> HIDE DEF C
  <2> QED
    BY <2>1, SmallestSet, Zenon
<1>2. PICK y \in T : sum(T) # f[y] + sum(T \ {y})
  OBVIOUS
<1> DEFINE p == Pick(T)
<1>3. /\ T \in SUBSET S /\ IsFiniteSet(T) /\ T # {}
      /\ p \in T /\ f[p] \in Nat /\ f[y] \in Nat
  BY FS_Subset, PickFacts
<1>4. sum(T) = f[p] + sum(T \ {p})
  BY <1>3, SumUnfolds
<1>5. p # y
  BY <1>2, <1>4
<1> HIDE DEF p, sum
<1>6. sum(T \ {p}) = f[y] + sum((T \ {p}) \ {y})
  <2>1. T \ {p} \notin C /\ y \in T \ {p} /\ T \ {p} \in SUBSET S
    BY <1>1, <1>3, <1>5
  <2> QED
    BY <2>1
<1>7. sum(T \ {y}) = f[p] + sum((T \ {y}) \ {p})
  <2>1. T \ {y} \notin C /\ p \in T \ {y} /\ T \ {y} \in SUBSET S
    BY <1>1, <1>2, <1>3, <1>5
  <2> QED
    BY <2>1
<1>8. sum((T \ {p}) \ {y}) = sum((T \ {y}) \ {p})
  <2>1. (T \ {p}) \ {y} = (T \ {y}) \ {p}
    OBVIOUS
  <2> QED
    BY <2>1, Zenon
<1>9. sum((T \ {p}) \ {y}) \in Nat
  <2>1. IsFiniteSet((T \ {p}) \ {y}) /\ \A z \in (T \ {p}) \ {y} : f[z] \in Nat
    BY <1>3, FS_Subset
  <2> QED
    BY <2>1, SumNat DEF sum
<1>10. sum(T) # f[y] + sum(T \ {y})
  BY <1>2
<1> HIDE DEF C
<1> QED
  BY <1>3, <1>4, <1>6, <1>7, <1>8, <1>9, <1>10

LEMMA SumAddsOne ==
  ASSUME NEW f, NEW S, IsFiniteSet(S), NEW x, x \notin S, \A y \in S \cup {x} : f[y] \in Nat
  PROVE  SumFunctionOnSet(f, S \cup {x}) = SumFunctionOnSet(f, S) + f[x]
<1>1. IsFiniteSet(S \cup {x}) /\ (S \cup {x}) \ {x} = S /\ x \in S \cup {x}
  BY FS_AddElement
<1>2. SumFunctionOnSet(f, S \cup {x}) = f[x] + SumFunctionOnSet(f, S)
  BY <1>1, SumTakesOut
<1>3. SumFunctionOnSet(f, S) \in Nat /\ f[x] \in Nat
  BY SumNat
<1> QED
  BY <1>2, <1>3

\* One more for each of a set of elements adds their number to the sum.
LEMMA SumOfIncremented ==
  ASSUME NEW S, IsFiniteSet(S), NEW F \in SUBSET S, NEW f, \A x \in S : f[x] \in Nat,
         NEW g, \A x \in S : g[x] = f[x] + (IF x \in F THEN 1 ELSE 0)
  PROVE  SumFunctionOnSet(g, S) = SumFunctionOnSet(f, S) + Cardinality(F)
<1> DEFINE sum(h, s) == SumFunctionOnSet(h, s)
           C == {s \in SUBSET S : sum(g, s) # sum(f, s) + Cardinality(F \cap s)}
<1> SUFFICES ASSUME C # {} PROVE FALSE
  <2>1. S \in SUBSET S /\ F \cap S = F
    OBVIOUS
  <2> QED
    BY <2>1
<1>1. PICK T \in C : \A U \in SUBSET T : U # T => U \notin C
  <2>1. C \in SUBSET (SUBSET S)
    OBVIOUS
  <2> HIDE DEF C
  <2> QED
    BY <2>1, SmallestSet, Zenon
<1>2. T \in SUBSET S /\ IsFiniteSet(T) /\ \A x \in T : f[x] \in Nat /\ g[x] \in Nat
  BY FS_Subset
<1>3. T # {}
  <2>1. F \cap {} = {} /\ Cardinality({}) = 0 /\ sum(g, {}) = 0 /\ sum(f, {}) = 0
    BY FS_EmptySet, SumEmpty
  <2> QED
    BY <2>1
<1> DEFINE p == Pick(T)
           U == T \ {p}
<1>4. p \in T /\ p \in S /\ U \in SUBSET T /\ U # T /\ IsFiniteSet(U) /\ U \in SUBSET S
  BY <1>2, <1>3, PickFacts, FS_Subset
<1> HIDE DEF p
<1>5. sum(f, T) = f[p] + sum(f, U) /\ sum(g, T) = g[p] + sum(g, U)
  BY <1>2, <1>4, SumTakesOut
<1>6. sum(f, U) \in Nat /\ sum(g, U) \in Nat
  BY <1>2, <1>4, SumNat
<1>7. sum(g, U) = sum(f, U) + Cardinality(F \cap U)
  BY <1>1, <1>4
<1>8. IsFiniteSet(F \cap U) /\ Cardinality(F \cap U) \in Nat
  BY <1>4, FS_Subset, FS_CardinalityType
<1>9. Cardinality(F \cap T) = Cardinality(F \cap U) + (IF p \in F THEN 1 ELSE 0)
  <2>1. CASE p \in F
    <3>1. F \cap T = (F \cap U) \cup {p} /\ p \notin F \cap U
      BY <1>4, <2>1
    <3> HIDE DEF U
    <3>2. Cardinality((F \cap U) \cup {p}) = Cardinality(F \cap U) + 1
      BY <1>8, <3>1, FS_AddElement
    <3>3. Cardinality(F \cap T) = Cardinality(F \cap U) + 1
      BY <3>1, <3>2, Zenon
    <3> QED
      BY <2>1, <3>3
  <2>2. CASE p \notin F
    <3>1. F \cap T = F \cap U
      BY <2>2
    <3>2. Cardinality(F \cap T) = Cardinality(F \cap U)
      BY <3>1, Zenon
    <3> QED
      BY <1>8, <2>2, <3>2
  <2> QED
    BY <2>1, <2>2
<1>10. sum(g, T) # sum(f, T) + Cardinality(F \cap T)
  OBVIOUS
<1>11. g[p] = f[p] + (IF p \in F THEN 1 ELSE 0) /\ f[p] \in Nat
  BY <1>4
<1> HIDE DEF sum, C, U
<1> QED
  BY <1>5, <1>6, <1>7, <1>8, <1>9, <1>10, <1>11

-----------------------------------------------------------------------------
(* The results attached. *)

\* The results of the pool that come from o.
Of(o) == {s \in input.pool \cap Scrs : input.original[s] = o}

\* The types the proof needs; results never leave the pool.
GroupTypes ==
  /\ input \in Input
  /\ step \in {"group", "attach", "serialize", "done"}
  /\ DOMAIN transactions \subseteq Txs
  /\ \A h \in DOMAIN transactions : transactions[h] \in Tx
  /\ pool \cap Scrs = input.pool \cap Scrs
  /\ toVisit \subseteq scResults
  /\ scResults \subseteq input.pool \cap Scrs

\* A transaction has those of its results that have left the map.
AttachedIfGone ==
  \A h \in DOMAIN transactions, s \in Scrs :
    transactions[h].results[s] = IF s \in ResultsOf(h) /\ s \notin scResults THEN 1 ELSE 0

\* A result of a transaction is in the map, with its own results, until the
\* range reaches it; then none of them is.
GoneTogether ==
  \A s \in input.pool \cap Scrs : input.original[s] \in DOMAIN transactions =>
    IF s \in toVisit THEN Of(s) \subseteq scResults
                     ELSE ({s} \cup Of(s)) \cap scResults = {}

AttachInv ==
  /\ GroupTypes
  /\ step = "group" =>
       \A h \in DOMAIN transactions, s \in Scrs : transactions[h].results[s] = 0
  /\ step = "attach" => AttachedIfGone /\ GoneTogether
  /\ ResultsAttachedOnce

LEMMA InputFacts ==
  ASSUME input \in Input
  PROVE  /\ input.original \in [Scrs -> Originals]
         /\ input.pool \subseteq Hashes \cup Scrs
         /\ \A h : ResultsOf(h) = Of(h) \cup UNION {Of(s) : s \in Of(h)}
BY DEF Input, ResultsOf, Of

\* A result comes from one transaction at most: an original is a transaction or
\* a result, and each result has one.
LEMMA OneTransaction ==
  ASSUME input \in Input, NEW h \in Txs, NEW s \in Of(h)
  PROVE  /\ s \notin Of(s)
         /\ \A r \in {s} \cup Of(s) : \A g \in Txs : r \in ResultsOf(g) <=> g = h
<1>1. Txs \cap Scrs = {}
  BY GroupingAssumption DEF Hashes
<1>2. s \in Scrs /\ input.original[s] = h /\ h \notin Scrs
  BY <1>1 DEF Of
<1>3. s \notin Of(s)
  BY <1>2 DEF Of
<1>4. ASSUME NEW g \in Txs
      PROVE  s \in ResultsOf(g) <=> g = h
  <2>1. s \in Of(g) <=> g = h
    BY <1>2 DEF Of
  <2>2. \A t \in Of(g) : s \notin Of(t)
    BY <1>2 DEF Of
  <2> QED
    BY <2>1, <2>2, InputFacts
<1>5. ASSUME NEW g \in Txs, NEW r \in Of(s)
      PROVE  r \in ResultsOf(g) <=> g = h
  <2>1. input.original[r] = s /\ g \notin Scrs
    BY <1>1, <1>5 DEF Of
  <2>2. r \notin Of(g)
    BY <1>2, <2>1 DEF Of
  <2>3. \A t \in Of(g) : r \in Of(t) <=> t = s
    BY <1>5, <2>1 DEF Of
  <2>4. s \in Of(g) <=> g = h
    BY <1>2 DEF Of
  <2> QED
    BY <2>2, <2>3, <2>4, InputFacts
<1> QED
  BY <1>3, <1>4, <1>5

\* A result reached by the range is in the map with all that come from it.
LEMMA FamilyFacts ==
  ASSUME AttachInv, step = "attach", NEW s \in toVisit, input.original[s] \in DOMAIN transactions
  PROVE  /\ input.original[s] \in Txs /\ s \in Of(input.original[s])
         /\ Family(s) = {s} \cup Of(s) /\ Family(s) \subseteq scResults
         /\ \A g \in Txs, r \in Family(s) : r \in ResultsOf(g) <=> g = input.original[s]
<1> DEFINE h == input.original[s]
<1>1. /\ GroupTypes /\ GoneTogether /\ input \in Input
      /\ s \in Of(h) /\ h \in Txs /\ s \in scResults
  BY DEF AttachInv, GroupTypes, Of
<1>2. Of(s) \subseteq scResults /\ s \notin Of(s)
  BY <1>1, OneTransaction DEF GoneTogether, GroupTypes
<1>3. Children(s) = Of(s)
  BY <1>1, <1>2 DEF Children, Of, GroupTypes
<1>4. Family(s) = {s} \cup Of(s)
  BY <1>3 DEF Family
<1> QED
  BY <1>1, <1>2, <1>4, OneTransaction

\* An iteration that finds the transaction of its result attaches the result and
\* all that come from it, whatever was visited before.
LEMMA AttachStep ==
  ASSUME AttachInv, step = "attach", NEW s \in toVisit,
         input.original[s] \in DOMAIN transactions, Attach(input.original[s], s),
         UNCHANGED <<input, pool, step>>
  PROVE  AttachInv'
<1> DEFINE h == input.original[s]
<1>1. /\ GroupTypes /\ AttachedIfGone /\ GoneTogether /\ input \in Input
      /\ s \in Of(h) /\ h \in Txs /\ s \in scResults
  BY DEF AttachInv, GroupTypes, Of
<1>2. Family(s) = {s} \cup Of(s) /\ Family(s) \subseteq scResults
  BY FamilyFacts
<1>3. PICK tx \in WithResults(h, s) : transactions' = [transactions EXCEPT ![h] = tx]
  BY DEF Attach
<1>4. scResults' = scResults \ Family(s) /\ toVisit' = toVisit \ Family(s)
  BY DEF Attach
<1> HIDE DEF h
<1>5. /\ tx \in Tx
      /\ \A r \in Scrs : tx.results[r] = transactions[h].results[r] + (IF r \in Family(s) THEN 1 ELSE 0)
  <2>1. PICK gas : /\ tx = [transactions[h] EXCEPT !.results = [r \in Scrs |->
                              transactions[h].results[r] + (IF r \in Family(s) THEN 1 ELSE 0)],
                                                 !.gasUsed = gas]
                   /\ gas \in {transactions[h].gasUsed} \cup Scrs
    <3>1. Family(s) \subseteq Scrs /\ Children(s) \subseteq Scrs /\ s \in Scrs
      BY <1>1, <1>2 DEF GroupTypes, Children
    <3> QED
      BY <1>3, <3>1 DEF WithResults
  <2>2. transactions[h] \in Tx
    BY <1>1 DEF GroupTypes, h
  <2>3. [r \in Scrs |-> transactions[h].results[r] + (IF r \in Family(s) THEN 1 ELSE 0)] \in [Scrs -> Nat]
    BY <2>2 DEF Tx
  <2> QED
    BY <2>1, <2>2, <2>3 DEF Tx
<1>6. /\ DOMAIN transactions' = DOMAIN transactions
      /\ \A g \in DOMAIN transactions : transactions'[g] = IF g = h THEN tx ELSE transactions[g]
  BY <1>3
<1>7. \A o : Of(o)' = Of(o) /\ ResultsOf(o)' = ResultsOf(o)
  BY DEF Of, ResultsOf
<1>8. GroupTypes'
  BY <1>1, <1>4, <1>5, <1>6 DEF GroupTypes
<1>9. AttachedIfGone'
  <2> SUFFICES ASSUME NEW g \in DOMAIN transactions, NEW r \in Scrs
               PROVE  transactions'[g].results[r]
                        = IF r \in ResultsOf(g) /\ r \notin scResults' THEN 1 ELSE 0
    BY <1>6, <1>7 DEF AttachedIfGone
  <2>1. transactions[g].results[r] = IF r \in ResultsOf(g) /\ r \notin scResults THEN 1 ELSE 0
    BY <1>1 DEF AttachedIfGone
  <2>2. g \in Txs /\ (r \in Family(s) => (r \in ResultsOf(g) <=> g = h))
    BY <1>1, <1>2, OneTransaction DEF GroupTypes
  <2>3. CASE r \in Family(s)
    BY <1>2, <1>4, <1>5, <1>6, <2>1, <2>2, <2>3
  <2>4. CASE r \notin Family(s)
    BY <1>4, <1>5, <1>6, <2>1, <2>4
  <2> QED
    BY <2>3, <2>4
<1>10. GoneTogether'
  <2> SUFFICES ASSUME NEW t \in input.pool \cap Scrs, input.original[t] \in DOMAIN transactions
               PROVE  IF t \in toVisit' THEN Of(t) \subseteq scResults'
                                        ELSE ({t} \cup Of(t)) \cap scResults' = {}
    BY <1>6, <1>7 DEF GoneTogether
  <2>1. CASE t = s
    BY <1>2, <1>4, <2>1
  <2>2. CASE t # s
    <3>1. t \notin Family(s) /\ Of(t) \cap Family(s) = {}
      <4>1. input.original[t] \notin Scrs /\ h \notin Scrs /\ input.original[s] = h
        BY <1>1, GroupingAssumption DEF GroupTypes, Hashes, Of
      <4>2. t \notin Family(s)
        BY <1>1, <1>2, <2>2, <4>1 DEF Of
      <4>3. ASSUME NEW c \in Of(t)
            PROVE  c \notin {s} \cup Of(s)
        <5>1. input.original[c] = t /\ t # h
          BY <4>1, <4>3 DEF Of
        <5> QED
          BY <2>2, <4>1, <5>1 DEF Of
      <4> QED
        BY <1>2, <4>2, <4>3
    <3> QED
      BY <1>1, <1>4, <3>1 DEF GoneTogether
  <2> QED
    BY <2>1, <2>2
<1>11. ResultsAttachedOnce'
  BY DEF ResultsAttachedOnce, Attached
<1> QED
  BY <1>8, <1>9, <1>10, <1>11 DEF AttachInv

LEMMA SkipStep ==
  ASSUME AttachInv, step = "attach", NEW s \in toVisit,
         input.original[s] \notin DOMAIN transactions, toVisit' = toVisit \ {s},
         UNCHANGED <<input, pool, step, transactions, scResults>>
  PROVE  AttachInv'
<1>1. \A o : Of(o)' = Of(o) /\ ResultsOf(o)' = ResultsOf(o)
  BY DEF Of, ResultsOf
<1>2. GroupTypes' /\ AttachedIfGone'
  BY <1>1 DEF AttachInv, GroupTypes, AttachedIfGone
<1>3. GoneTogether'
  BY <1>1 DEF AttachInv, GoneTogether
<1> QED
  BY <1>2, <1>3 DEF AttachInv, ResultsAttachedOnce, Attached

\* The last loop leaves the lists of results alone.
LEMMA SettleKeepsResults ==
  ASSUME NEW h \in DOMAIN transactions, transactions[h] \in Tx
  PROVE  Settled(h) \in Tx /\ Settled(h).results = transactions[h].results
BY DEF Settled, Tx

LEMMA NewTxFacts ==
  \A mb : NewTx(mb) \in Tx /\ \A s \in Scrs : NewTx(mb).results[s] = 0
<1> SUFFICES ASSUME NEW mb
             PROVE  NewTx(mb) \in Tx /\ \A s \in Scrs : NewTx(mb).results[s] = 0
  OBVIOUS
<1>1. [s \in Scrs |-> 0] \in [Scrs -> Nat]
  OBVIOUS
<1> QED
  BY <1>1 DEF NewTx, Tx

LEMMA NextAttach == AttachInv /\ [Next]_vars => AttachInv'
<1> SUFFICES ASSUME AttachInv, [Next]_vars PROVE AttachInv'
  OBVIOUS
<1> USE DEF groupVars, scrVars, bufferVars
<1>1. GroupTypes /\ Txs \cap Scrs = {} /\ Rewards \cap Scrs = {}
  BY GroupingAssumption DEF AttachInv, Hashes
\* Steps that leave the transactions and their results alone.
<1>2. ASSUME UNCHANGED <<input, step, pool, transactions, scResults, toVisit>>
      PROVE  AttachInv'
  <2>1. \A o : Of(o)' = Of(o) /\ ResultsOf(o)' = ResultsOf(o)
    BY <1>2 DEF Of, ResultsOf
  <2> QED
    BY <1>2, <2>1
       DEF AttachInv, GroupTypes, AttachedIfGone, GoneTogether, ResultsAttachedOnce, Attached
<1>3. CASE GroupMiniblock
  <2> DEFINE mb == input.body[next]
             indexed == IF mb.type = "InvalidBlock" \/ shouldIndex(mb.to) THEN Found(mb) ELSE {}
  <2>1. /\ step = "group" /\ UNCHANGED <<input, step, scResults, toVisit>>
        /\ transactions' = [h \in DOMAIN transactions \cup (indexed \cap Txs) |->
                              IF h \in indexed THEN NewTx(mb) ELSE transactions[h]]
        /\ pool' = pool \ Found(mb)
    BY <1>3 DEF GroupMiniblock
  <2>2. Found(mb) \subseteq Txs \cup Rewards
    BY DEF Found, OfType
  <2> HIDE DEF mb, indexed
  <2>3. \A h \in DOMAIN transactions' :
          transactions'[h] \in Tx /\ \A s \in Scrs : transactions'[h].results[s] = 0
    BY <1>1, <2>1, NewTxFacts DEF AttachInv, GroupTypes
  <2>4. pool' \cap Scrs = pool \cap Scrs /\ DOMAIN transactions' \subseteq Txs
    BY <1>1, <2>1, <2>2 DEF GroupTypes
  <2> QED
    BY <1>1, <2>1, <2>3, <2>4 DEF AttachInv, GroupTypes, ResultsAttachedOnce, Attached
<1>4. CASE GroupResults
  <2>1. /\ step = "group" /\ step' = "attach" /\ UNCHANGED <<input, pool, transactions>>
        /\ scResults' = input.pool \cap Scrs /\ toVisit' = scResults'
    BY <1>1, <1>4 DEF GroupResults, GroupTypes
  <2>2. \A o : Of(o)' = Of(o) /\ Of(o) \subseteq scResults' /\ ResultsOf(o)' = ResultsOf(o)
    BY <2>1 DEF Of, ResultsOf
  <2>3. \A h : ResultsOf(h) \subseteq scResults'
    BY <1>1, <2>2, InputFacts DEF GroupTypes
  <2>4. AttachedIfGone'
    BY <2>1, <2>2, <2>3 DEF AttachInv, AttachedIfGone
  <2>5. GoneTogether'
    BY <2>1, <2>2 DEF GoneTogether
  <2> QED
    BY <1>1, <2>1, <2>4, <2>5 DEF AttachInv, GroupTypes, ResultsAttachedOnce, Attached
<1>5. ASSUME NEW s \in Scrs, AttachResult(s)
      PROVE  AttachInv'
  <2>1. step = "attach" /\ s \in toVisit /\ UNCHANGED <<input, pool, step>>
    BY <1>5 DEF AttachResult
  <2>2. CASE input.original[s] \in DOMAIN transactions
    BY <1>5, <2>1, <2>2, AttachStep DEF AttachResult
  <2>3. CASE input.original[s] \notin DOMAIN transactions
    BY <1>5, <2>1, <2>3, SkipStep DEF AttachResult
  <2> QED
    BY <2>2, <2>3
<1>6. CASE Settle
  <2>1. /\ step = "attach" /\ step' = "serialize" /\ toVisit = {}
        /\ UNCHANGED <<input, pool, scResults, toVisit>>
        /\ transactions' = [h \in DOMAIN transactions |-> Settled(h)]
    BY <1>6 DEF Settle
  <2>2. \A h \in DOMAIN transactions :
          transactions'[h] \in Tx /\ transactions'[h].results = transactions[h].results
    BY <1>1, <2>1, SettleKeepsResults DEF GroupTypes
  <2>3. ASSUME NEW h \in DOMAIN transactions, NEW s \in ResultsOf(h)
        PROVE  s \notin scResults
    <3>1. \A t \in Of(h) : ({t} \cup Of(t)) \cap scResults = {}
      BY <2>1 DEF AttachInv, GoneTogether, Of
    <3> QED
      BY <1>1, <2>3, <3>1, InputFacts DEF GroupTypes
  <2>4. ResultsAttachedOnce'
    <3> SUFFICES ASSUME NEW h \in DOMAIN transactions, NEW s \in Scrs
                 PROVE  transactions'[h].results[s] = IF s \in ResultsOf(h) THEN 1 ELSE 0
      BY <2>1 DEF ResultsAttachedOnce, ResultsOf
    <3> QED
      BY <2>1, <2>2, <2>3 DEF AttachInv, AttachedIfGone
  <2> QED
    BY <1>1, <2>1, <2>2, <2>4 DEF AttachInv, GroupTypes
<1>7. ASSUME NEW h \in Hashes, Serialize(h)
      PROVE  AttachInv'
  BY <1>2, <1>7 DEF Serialize
<1>8. CASE LastBuffer
  <2>1. /\ step = "serialize" /\ step' = "done"
        /\ UNCHANGED <<input, pool, transactions, scResults, toVisit>>
    BY <1>8 DEF LastBuffer
  <2> QED
    BY <1>1, <2>1 DEF AttachInv, GroupTypes, ResultsAttachedOnce, ResultsOf, Attached
<1>9. CASE UNCHANGED vars
  BY <1>2, <1>9 DEF vars
<1> QED
  BY <1>3, <1>4, <1>5, <1>6, <1>7, <1>8, <1>9 DEF Next

LEMMA InitAttach == Init => AttachInv
<1> SUFFICES ASSUME Init PROVE AttachInv
  OBVIOUS
<1>1. /\ input \in Input /\ step = "group" /\ pool = input.pool
      /\ transactions = <<>> /\ scResults = {} /\ toVisit = {}
  BY GroupingAssumption DEF Init
<1>2. DOMAIN transactions = {}
  BY <1>1
<1> QED
  BY <1>1, <1>2 DEF AttachInv, GroupTypes, ResultsAttachedOnce, Attached

\* Each result of the pool is attached once to the transaction it comes from and
\* to no other, for every block and pool and in every order of the maps, although
\* the loop deletes from the map it ranges over.
THEOREM AttachedOnce == Spec => []ResultsAttachedOnce
<1>1. AttachInv => ResultsAttachedOnce
  BY DEF AttachInv
<1> QED
  BY <1>1, InitAttach, NextAttach, PTL DEF Spec

-----------------------------------------------------------------------------
(* The accounts to load. *)

\* The accounts of the shard that miniblock i changes.
AlteredBy(i) ==
  {a \in Addresses :
    /\ ShardOf[a] = SelfShard
    /\ \E h \in input.body[i].hashes \cap input.pool :
         \/ h \in Txs /\ sender[h] = a
         \/ input.body[i].type # "InvalidBlock" /\ receiver[h] = a}

\* Those the results of the pool change.
AlteredByResults ==
  {a \in Addresses : ShardOf[a] = SelfShard /\ \E s \in input.pool \cap Scrs : receiver[s] = a}

AlteredInv ==
  /\ AttachInv /\ input \in Inputs /\ next \in Nat \ {0}
  /\ step = "group" =>
       /\ alteredAddresses = UNION {AlteredBy(i) : i \in 1..(next - 1)}
       /\ next <= Len(input.body) + 1
       /\ \A i \in 1..Len(input.body) : i >= next =>
            input.body[i].hashes \cap pool = input.body[i].hashes \cap input.pool
  /\ step # "group" =>
       alteredAddresses = AlteredByResults \cup UNION {AlteredBy(i) : i \in DOMAIN input.body}

\* What a well-formed miniblock finds in the pool, and whom it alters.
LEMMA FoundFacts ==
  ASSUME input \in Inputs, NEW i \in DOMAIN input.body
  PROVE  /\ Found(input.body[i]) = input.body[i].hashes \cap pool
         /\ input.body[i].hashes \cap pool = input.body[i].hashes \cap input.pool =>
              UNION {Altered(h, input.body[i]) : h \in Found(input.body[i])} = AlteredBy(i)
<1> DEFINE mb == input.body[i]
<1>1. /\ mb.hashes \subseteq OfType(mb.type) /\ mb.hashes \subseteq Hashes
      /\ \A h \in mb.hashes \cap Txs : ShardOf[sender[h]] = SelfShard <=> mb.from = SelfShard
      /\ mb.type # "InvalidBlock" => \A h \in mb.hashes :
           ShardOf[receiver[h]] = SelfShard <=> mb.to \in {SelfShard, AllShards}
  <2>1. WellFormed(input.body)
    BY BlocksAssumption
  <2>2. input.body \in Seq(Miniblock)
    BY GroupingAssumption DEF Input
  <2>3. mb \in Miniblock
    BY <2>2
  <2>4. mb.hashes \subseteq Hashes
    BY <2>3 DEF Miniblock
  <2> QED
    BY <2>1, <2>4 DEF WellFormed
<1>2. Found(mb) = mb.hashes \cap pool
  BY <1>1 DEF Found
<1>3. \A h \in mb.hashes : /\ h \in Txs => sender[h] \in Addresses
                           /\ receiver[h] \in Addresses
  BY <1>1, GroupingAssumption
<1>4. ASSUME NEW h \in mb.hashes, NEW a
      PROVE  a \in Altered(h, mb) <=>
               /\ a \in Addresses /\ ShardOf[a] = SelfShard
               /\ \/ h \in Txs /\ sender[h] = a
                  \/ mb.type # "InvalidBlock" /\ receiver[h] = a
  BY <1>1, <1>3, <1>4 DEF Altered
<1> HIDE DEF mb
<1>5. ASSUME mb.hashes \cap pool = mb.hashes \cap input.pool
      PROVE  UNION {Altered(h, mb) : h \in Found(mb)}
               = {a \in Addresses :
                    /\ ShardOf[a] = SelfShard
                    /\ \E h \in mb.hashes \cap input.pool :
                         \/ h \in Txs /\ sender[h] = a
                         \/ mb.type # "InvalidBlock" /\ receiver[h] = a}
  BY <1>2, <1>4, <1>5
<1> QED
  BY <1>2, <1>5 DEF AlteredBy, mb

LEMMA NextAltered == AlteredInv /\ [Next]_vars => AlteredInv'
<1> SUFFICES ASSUME AlteredInv, [Next]_vars PROVE AlteredInv'
  OBVIOUS
<1> USE DEF groupVars, scrVars, bufferVars
<1>1. /\ AttachInv /\ AttachInv' /\ input \in Inputs /\ input \in Input
      /\ next \in Nat \ {0} /\ input.body \in Seq(Miniblock)
      /\ DOMAIN input.body = 1..Len(input.body) /\ Len(input.body) \in Nat
  <2>1. input \in Input /\ input \in Inputs /\ input.body \in Seq(Miniblock)
    BY GroupingAssumption DEF AlteredInv, Input
  <2> QED
    BY <2>1, NextAttach DEF AlteredInv
<1>i. /\ \A i : AlteredBy(i)' = AlteredBy(i)
      /\ AlteredByResults' = AlteredByResults /\ input' = input
  <2>1. input' = input
    BY DEF Next, vars, GroupMiniblock, GroupResults, AttachResult, Settle, Serialize, LastBuffer
  <2> QED
    BY <2>1 DEF AlteredBy, AlteredByResults
<1>2. CASE GroupMiniblock
  <2> DEFINE mb == input.body[next]
  <2>1. /\ step = "group" /\ step' = "group" /\ next' = next + 1 /\ next \in DOMAIN input.body
        /\ alteredAddresses' = alteredAddresses \cup UNION {Altered(h, mb) : h \in Found(mb)}
        /\ pool' = pool \ Found(mb)
    BY <1>1, <1>2 DEF GroupMiniblock
  <2>2. alteredAddresses' = alteredAddresses \cup AlteredBy(next)
    <3>1. mb.hashes \cap pool = mb.hashes \cap input.pool
      BY <1>1, <2>1 DEF AlteredInv
    <3> QED
      BY <1>1, <2>1, <3>1, FoundFacts
  <2>3. alteredAddresses' = UNION {AlteredBy(i) : i \in 1..(next' - 1)}
    <3>1. \A i : i \in 1..(next' - 1) <=> i \in 1..(next - 1) \/ i = next
      BY <1>1, <2>1
    <3>2. alteredAddresses = UNION {AlteredBy(i) : i \in 1..(next - 1)}
      BY <2>1 DEF AlteredInv
    <3> QED
      BY <2>2, <3>1, <3>2
  <2>4. ASSUME NEW i \in 1..Len(input.body), i >= next'
        PROVE  input.body[i].hashes \cap pool' = input.body[i].hashes \cap input.pool
    <3>1. i # next /\ i >= next /\ i \in DOMAIN input.body
      BY <1>1, <2>1, <2>4
    <3>2. input.body[i].hashes \cap mb.hashes = {}
      BY <1>1, <2>1, <3>1, BlocksAssumption DEF WellFormed
    <3>3. Found(mb) \subseteq mb.hashes
      BY DEF Found
    <3>4. input.body[i].hashes \cap pool = input.body[i].hashes \cap input.pool
      BY <2>1, <3>1 DEF AlteredInv
    <3> HIDE DEF mb
    <3> QED
      BY <2>1, <3>2, <3>3, <3>4
  <2>5. next' \in Nat \ {0} /\ next' <= Len(input.body) + 1
    BY <1>1, <2>1
  <2>6. \A i \in 1..Len(input'.body) : i >= next' =>
          input'.body[i].hashes \cap pool' = input'.body[i].hashes \cap input'.pool
    BY <1>i, <2>4
  <2>7. alteredAddresses' = UNION {AlteredBy(i)' : i \in 1..(next' - 1)}
    BY <1>i, <2>3
  <2> HIDE DEF mb
  <2> QED
    BY <1>1, <1>i, <2>1, <2>5, <2>6, <2>7 DEF AlteredInv
<1>3. CASE GroupResults
  <2>1. /\ step = "group" /\ step' = "attach" /\ next' = next /\ next > Len(input.body)
        /\ alteredAddresses' = alteredAddresses \cup
             {receiver[s] : s \in {r \in pool \cap Scrs : ShardOf[receiver[r]] = SelfShard}}
    BY <1>3 DEF GroupResults
  <2>2. pool \cap Scrs = input.pool \cap Scrs
    BY <1>1 DEF AttachInv, GroupTypes
  <2>3. AlteredByResults =
          {receiver[s] : s \in {r \in pool \cap Scrs : ShardOf[receiver[r]] = SelfShard}}
    BY <2>2, GroupingAssumption DEF AlteredByResults
  <2>4. 1..(next - 1) = DOMAIN input.body
    <3>1. next = Len(input.body) + 1
      BY <1>1, <2>1 DEF AlteredInv
    <3> QED
      BY <1>1, <3>1
  <2> QED
    BY <1>1, <1>i, <2>1, <2>3, <2>4 DEF AlteredInv
<1>4. ASSUME UNCHANGED <<alteredAddresses, next, pool>>,
             UNCHANGED step \/ (step # "group" /\ step' # "group")
      PROVE  AlteredInv'
  BY <1>1, <1>i, <1>4 DEF AlteredInv
<1>5. ASSUME NEW s \in Scrs, AttachResult(s) PROVE AlteredInv'
  BY <1>4, <1>5 DEF AttachResult
<1>6. CASE Settle
  BY <1>4, <1>6 DEF Settle
<1>7. ASSUME NEW h \in Hashes, Serialize(h) PROVE AlteredInv'
  BY <1>4, <1>7 DEF Serialize
<1>8. CASE LastBuffer
  BY <1>4, <1>8 DEF LastBuffer
<1>9. CASE UNCHANGED vars
  BY <1>4, <1>9 DEF vars
<1> QED
  BY <1>2, <1>3, <1>5, <1>6, <1>7, <1>8, <1>9 DEF Next

LEMMA InitAltered == Init => AlteredInv
<1> SUFFICES ASSUME Init PROVE AlteredInv
  OBVIOUS
<1>1. /\ input \in Inputs /\ step = "group" /\ next = 1 /\ pool = input.pool
      /\ alteredAddresses = {} /\ AttachInv
  BY InitAttach DEF Init
<1>2. Len(input.body) \in Nat
  BY <1>1, GroupingAssumption DEF Input
<1> QED
  BY <1>1, <1>2 DEF AlteredInv

\* For every well-formed block, exactly the accounts of this shard whose balance
\* it changes are loaded again, whatever is imported and however the maps are
\* ranged over.
THEOREM AlteredAreComplete == Spec => []AlteredAddressesComplete
<1>1. AlteredInv => AlteredAddressesComplete
  <2> SUFFICES ASSUME AlteredInv, Attached PROVE AlteredAddressesComplete
    BY DEF AlteredAddressesComplete
  <2>1. alteredAddresses = AlteredByResults \cup UNION {AlteredBy(i) : i \in DOMAIN input.body}
    BY DEF AlteredInv, Attached
  <2> QED
    BY <2>1 DEF AlteredAddressesComplete, AlteredByResults, AlteredBy
<1> QED
  BY <1>1, InitAltered, NextAltered, PTL DEF Spec

-----------------------------------------------------------------------------
(* Status and gas. *)

\* The results of transaction h that have left the map, and those that refund it.
Gone(h) == ResultsOf(h) \ scResults
Refunding(h) == {s \in Gone(h) : input.refunds[s] = h}

\* Transactions are as their miniblock makes them.
Fresh ==
  /\ \A i \in DOMAIN input.body : \A h \in input.body[i].hashes \cap DOMAIN transactions :
       transactions[h] = NewTx(input.body[i])
  /\ \A h \in Txs : countScResults[h] = 0

\* What the results attached so far make of a transaction of a miniblock.
OutcomeSoFar(h, mb) ==
  /\ transactions[h].status = NewTx(mb).status
  /\ transactions[h].gasUsed \in
       IF mb.type = "InvalidBlock" THEN {"limit"}
       ELSE IF Refunding(h) = {} THEN {"base"} ELSE Refunding(h)

CountedSoFar ==
  /\ \A h \in DOMAIN transactions : countScResults[h] = Cardinality(Gone(h))
  /\ \A i \in DOMAIN input.body : \A h \in input.body[i].hashes \cap DOMAIN transactions :
       OutcomeSoFar(h, input.body[i])

OutcomeInv ==
  /\ AttachInv /\ input \in Inputs
  /\ countScResults \in [Txs -> Nat]
  /\ step = "group" =>
       /\ Fresh
       /\ next \in 1..(Len(input.body) + 1)
  /\ step = "attach" => CountedSoFar
  /\ OutcomeOfTheBlock

LEMMA StatusFacts ==
  \A mb : /\ NewTx(mb).status = "invalid" <=> mb.type = "InvalidBlock"
          /\ NewTx(mb).status \in {"invalid", "success", "pending"}
          /\ NewTx(mb).gasUsed = IF mb.type = "InvalidBlock" THEN "limit" ELSE "base"
BY DEF NewTx

LEMMA GoneFacts ==
  ASSUME input \in Input
  PROVE  \A h : /\ ResultsOf(h) \subseteq Scrs /\ IsFiniteSet(ResultsOf(h))
                /\ Gone(h) \subseteq Scrs /\ IsFiniteSet(Gone(h)) /\ Cardinality(Gone(h)) \in Nat
<1> SUFFICES ASSUME NEW h
             PROVE  /\ ResultsOf(h) \subseteq Scrs /\ IsFiniteSet(ResultsOf(h))
                    /\ Gone(h) \subseteq Scrs /\ IsFiniteSet(Gone(h)) /\ Cardinality(Gone(h)) \in Nat
  OBVIOUS
<1>1. ResultsOf(h) \subseteq Scrs /\ Gone(h) \subseteq Scrs
  BY InputFacts DEF Gone, Of
<1>2. IsFiniteSet(ResultsOf(h)) /\ IsFiniteSet(Gone(h))
  BY <1>1, FS_Subset, GroupingAssumption
<1> QED
  BY <1>1, <1>2, FS_CardinalityType

\* One iteration adds the family of its result to the gone, and counts it.
LEMMA GoneStep ==
  ASSUME AttachInv, step = "attach", NEW s \in toVisit, input.original[s] \in DOMAIN transactions,
         Attach(input.original[s], s), UNCHANGED input
  PROVE  /\ \A g \in DOMAIN transactions :
              Gone(g)' = IF g = input.original[s] THEN Gone(g) \cup Family(s) ELSE Gone(g)
         /\ Cardinality(Gone(input.original[s]) \cup Family(s))
              = Cardinality(Gone(input.original[s])) + Cardinality(Family(s))
         /\ IsFiniteSet(Family(s)) /\ Cardinality(Family(s)) \in Nat
<1> DEFINE h == input.original[s]
<1>1. /\ h \in Txs /\ Family(s) \subseteq scResults /\ scResults \subseteq Scrs
      /\ \A g \in Txs, r \in Family(s) : r \in ResultsOf(g) <=> g = h
      /\ scResults' = scResults \ Family(s)
  BY FamilyFacts DEF AttachInv, GroupTypes, Attach
<1>2. \A g : ResultsOf(g)' = ResultsOf(g)
  BY DEF ResultsOf
<1>3. DOMAIN transactions \subseteq Txs /\ input \in Input
  BY DEF AttachInv, GroupTypes
<1>4. IsFiniteSet(Family(s)) /\ Cardinality(Family(s)) \in Nat
  <2>1. IsFiniteSet(Family(s))
    BY <1>1, FS_Subset, GroupingAssumption
  <2> QED
    BY <2>1, FS_CardinalityType
<1> HIDE DEF h
<1>5. ASSUME NEW g \in DOMAIN transactions
      PROVE  Gone(g)' = IF g = h THEN Gone(g) \cup Family(s) ELSE Gone(g)
  <2>1. Gone(g)' = ResultsOf(g) \ (scResults \ Family(s))
    BY <1>1, <1>2 DEF Gone
  <2>2. CASE g = h
    BY <1>1, <2>1, <2>2 DEF Gone
  <2>3. CASE g # h
    BY <1>1, <1>3, <2>1, <2>3 DEF Gone
  <2> QED
    BY <2>2, <2>3
<1>6. Cardinality(Gone(h) \cup Family(s)) = Cardinality(Gone(h)) + Cardinality(Family(s))
  <2>1. Gone(h) \cap Family(s) = {} /\ IsFiniteSet(Gone(h)) /\ Cardinality(Gone(h)) \in Nat
    BY <1>1, <1>3, GoneFacts DEF Gone
  <2>2. Cardinality(Gone(h) \cup Family(s))
          = Cardinality(Gone(h)) + Cardinality(Family(s)) - Cardinality(Gone(h) \cap Family(s))
    BY <1>4, <2>1, FS_Union
  <2>3. Cardinality(Gone(h) \cap Family(s)) = 0
    BY <2>1, FS_EmptySet
  <2> QED
    BY <1>4, <2>1, <2>2, <2>3
<1> QED
  BY <1>4, <1>5, <1>6 DEF h

\* The gas of the transaction comes from the refunds of the family, if any.
LEMMA GasStep ==
  ASSUME AttachInv, step = "attach", NEW s \in toVisit, input.original[s] \in DOMAIN transactions,
         NEW tx \in WithResults(input.original[s], s)
  PROVE  LET h == input.original[s]
             refunding == {r \in Family(s) : input.refunds[r] = h}
         IN /\ tx.status = transactions[h].status
            /\ tx.gasUsed \in IF transactions[h].status = "invalid" \/ refunding = {}
                              THEN {transactions[h].gasUsed} ELSE refunding
<1> DEFINE h == input.original[s]
           old == transactions[h]
           refunding(scrs) == {r \in scrs : old.status # "invalid" /\ input.refunds[r] = h}
           last == IF refunding(Children(s)) # {} THEN refunding(Children(s)) ELSE refunding({s})
           results == [r \in Scrs |-> old.results[r] + (IF r \in Family(s) THEN 1 ELSE 0)]
<1>1. PICK gas \in IF last = {} THEN {old.gasUsed} ELSE last :
        tx = [old EXCEPT !.results = results, !.gasUsed = gas]
  BY DEF WithResults
<1>2. old \in Tx
  BY DEF AttachInv, GroupTypes
<1> HIDE DEF old, results
<1>3. tx.status = old.status /\ tx.gasUsed = gas
  BY <1>1, <1>2 DEF Tx
<1>4. gas \in IF old.status = "invalid" \/ {r \in Family(s) : input.refunds[r] = h} = {}
              THEN {old.gasUsed} ELSE {r \in Family(s) : input.refunds[r] = h}
  <2>1. Family(s) = {s} \cup Children(s)
    BY DEF Family
  <2> QED
    BY <1>1, <2>1
<1> QED
  BY <1>3, <1>4 DEF old

LEMMA AttachOutcome ==
  ASSUME OutcomeInv, step = "attach", NEW s \in toVisit, input.original[s] \in DOMAIN transactions,
         Attach(input.original[s], s), UNCHANGED <<input, step>>
  PROVE  countScResults' \in [Txs -> Nat] /\ CountedSoFar'
<1> DEFINE h == input.original[s]
<1>1. /\ AttachInv /\ input \in Input /\ CountedSoFar /\ countScResults \in [Txs -> Nat]
      /\ h \in DOMAIN transactions /\ h \in Txs /\ DOMAIN transactions \subseteq Txs
  BY DEF OutcomeInv, AttachInv, GroupTypes
<1>2. /\ \A g \in DOMAIN transactions :
           Gone(g)' = IF g = h THEN Gone(g) \cup Family(s) ELSE Gone(g)
      /\ Cardinality(Gone(h) \cup Family(s)) = Cardinality(Gone(h)) + Cardinality(Family(s))
      /\ Cardinality(Family(s)) \in Nat
  BY <1>1, GoneStep
<1>3. PICK tx \in WithResults(h, s) : transactions' = [transactions EXCEPT ![h] = tx]
  BY DEF Attach
<1>4. countScResults' = [countScResults EXCEPT ![h] = @ + Cardinality(Family(s))]
  BY DEF Attach
<1>5. /\ tx.status = transactions[h].status
      /\ tx.gasUsed \in IF \/ transactions[h].status = "invalid"
                           \/ {r \in Family(s) : input.refunds[r] = h} = {}
                        THEN {transactions[h].gasUsed}
                        ELSE {r \in Family(s) : input.refunds[r] = h}
  BY <1>1, <1>3, GasStep
<1> HIDE DEF h
<1>6. /\ DOMAIN transactions' = DOMAIN transactions
      /\ \A g \in DOMAIN transactions : transactions'[g] = IF g = h THEN tx ELSE transactions[g]
  BY <1>1, <1>3
<1>7. countScResults' \in [Txs -> Nat]
  BY <1>1, <1>2, <1>4
<1>8. \A g \in DOMAIN transactions : countScResults'[g] = Cardinality(Gone(g)')
  <2> SUFFICES ASSUME NEW g \in DOMAIN transactions
               PROVE  countScResults'[g] = Cardinality(Gone(g)')
    OBVIOUS
  <2>1. countScResults[g] = Cardinality(Gone(g)) /\ g \in Txs
    BY <1>1 DEF CountedSoFar
  <2>2. CASE g = h
    BY <1>1, <1>2, <1>4, <2>1, <2>2
  <2>3. CASE g # h
    BY <1>1, <1>2, <1>4, <2>1, <2>3
  <2> QED
    BY <2>2, <2>3
<1>9. ASSUME NEW i \in DOMAIN input.body, NEW g \in input.body[i].hashes \cap DOMAIN transactions
      PROVE  OutcomeSoFar(g, input.body[i])'
  <2> DEFINE mb == input.body[i]
  <2>1. OutcomeSoFar(g, mb)
    BY <1>1 DEF CountedSoFar
  <2>2. NewTx(mb)' = NewTx(mb) /\ mb' = mb
    BY DEF NewTx
  <2>3. transactions[g].status = "invalid" <=> mb.type = "InvalidBlock"
    BY <2>1, StatusFacts DEF OutcomeSoFar
  <2>4. CASE g = h
    <3>1. Refunding(g)' = Refunding(g) \cup {r \in Family(s) : input.refunds[r] = h}
      BY <1>2, <2>4 DEF Refunding
    <3>2. transactions'[g] = tx
      BY <1>6, <2>4
    <3>3. /\ transactions[g].status = NewTx(mb).status
          /\ transactions[g].gasUsed \in IF mb.type = "InvalidBlock" THEN {"limit"}
                                         ELSE IF Refunding(g) = {} THEN {"base"} ELSE Refunding(g)
      BY <2>1 DEF OutcomeSoFar
    <3> HIDE DEF mb
    <3>4. /\ tx.status = NewTx(mb).status
          /\ tx.gasUsed \in IF mb.type = "InvalidBlock" THEN {"limit"}
                            ELSE IF Refunding(g)' = {} THEN {"base"} ELSE Refunding(g)'
      BY <1>5, <2>3, <2>4, <3>1, <3>3
    <3> QED
      BY <2>2, <3>2, <3>4 DEF OutcomeSoFar, mb
  <2>5. CASE g # h
    <3>1. Refunding(g)' = Refunding(g)
      BY <1>2, <2>5 DEF Refunding
    <3>2. transactions'[g] = transactions[g]
      BY <1>6, <2>5
    <3> QED
      BY <2>1, <2>2, <3>1, <3>2 DEF OutcomeSoFar
  <2> QED
    BY <2>4, <2>5
<1> QED
  BY <1>6, <1>7, <1>8, <1>9 DEF CountedSoFar

\* The last loop makes of what was counted the outcome of the block.
LEMMA SettledOutcome ==
  ASSUME OutcomeInv, step = "attach", toVisit = {},
         NEW i \in DOMAIN input.body, NEW h \in input.body[i].hashes \cap DOMAIN transactions
  PROVE  /\ Settled(h).status = Outcome(h, input.body[i]).status
         /\ Settled(h).gasUsed \in Outcome(h, input.body[i]).gasUsed
<1> DEFINE mb == input.body[i]
           tx == transactions[h]
           n == Cardinality(ResultsOf(h))
<1>1. /\ AttachInv /\ GroupTypes /\ input \in Input /\ tx \in Tx /\ h \in Txs
      /\ AttachedIfGone /\ GoneTogether /\ CountedSoFar
  BY DEF OutcomeInv, AttachInv, GroupTypes
<1>2. Gone(h) = ResultsOf(h)
  <2>1. \A t \in Of(h) : ({t} \cup Of(t)) \cap scResults = {}
    BY <1>1 DEF GoneTogether, Of
  <2> QED
    BY <1>1, <2>1, InputFacts DEF Gone
<1>3. /\ countScResults[h] = n /\ OutcomeSoFar(h, mb)
      /\ n \in Nat /\ (n = 0 <=> ResultsOf(h) = {}) /\ ResultsOf(h) \subseteq Scrs
  <2>1. IsFiniteSet(ResultsOf(h)) /\ ResultsOf(h) \subseteq Scrs
    BY <1>1, GoneFacts
  <2>2. n \in Nat /\ (n = 0 <=> ResultsOf(h) = {})
    BY <2>1, FS_CardinalityType, FS_EmptySet
  <2> QED
    BY <1>1, <1>2, <2>1, <2>2 DEF CountedSoFar
<1>4. \A s \in Scrs : tx.results[s] > 0 <=> s \in ResultsOf(h)
  BY <1>1, <1>2 DEF AttachedIfGone, Gone
<1>5. Failed(tx, n) <=> n = 1 /\ ResultsOf(h) \cap input.successful = {}
  BY <1>3, <1>4 DEF Failed
<1>6. /\ tx.status = NewTx(mb).status
      /\ tx.gasUsed \in IF mb.type = "InvalidBlock" THEN {"limit"}
                        ELSE IF {s \in ResultsOf(h) : input.refunds[s] = h} = {} THEN {"base"}
                        ELSE {s \in ResultsOf(h) : input.refunds[s] = h}
  BY <1>2, <1>3 DEF OutcomeSoFar, Refunding
<1>7. /\ tx.status = "invalid" <=> mb.type = "InvalidBlock"
      /\ mb.type # "InvalidBlock" =>
           tx.status = IF mb.to = SelfShard THEN "success" ELSE "pending"
  BY <1>6 DEF NewTx
<1> HIDE DEF mb, n
<1>8. Settled(h) = IF n = 0 THEN tx
                   ELSE IF h \in input.special THEN [tx EXCEPT !.gasUsed = "limit"]
                   ELSE IF tx.status # "invalid" /\ Failed(tx, n)
                        THEN [tx EXCEPT !.status = "fail", !.gasUsed = "limit"]
                   ELSE tx
  BY <1>3 DEF Settled
<1> HIDE DEF tx
<1>9. /\ [tx EXCEPT !.gasUsed = "limit"].status = tx.status
      /\ [tx EXCEPT !.gasUsed = "limit"].gasUsed = "limit"
      /\ [tx EXCEPT !.status = "fail", !.gasUsed = "limit"].status = "fail"
      /\ [tx EXCEPT !.status = "fail", !.gasUsed = "limit"].gasUsed = "limit"
  BY <1>1 DEF Tx
<1> DEFINE failed == /\ mb.type # "InvalidBlock" /\ h \notin input.special
                     /\ n = 1 /\ ResultsOf(h) \cap input.successful = {}
           status == IF mb.type = "InvalidBlock" THEN "invalid" ELSE IF failed THEN "fail"
                     ELSE IF mb.to = SelfShard THEN "success" ELSE "pending"
           allGas == \/ status \in {"invalid", "fail"}
                     \/ h \in input.special /\ ResultsOf(h) # {}
           refunding == {s \in ResultsOf(h) : input.refunds[s] = h}
           gas == IF allGas THEN {"limit"} ELSE IF refunding = {} THEN {"base"} ELSE refunding
           Right == Settled(h).status = status /\ Settled(h).gasUsed \in gas
<1>10. Outcome(h, mb).status = status /\ Outcome(h, mb).gasUsed = gas
  BY DEF Outcome, n
<1>11. ASSUME n = 0 PROVE Right
  BY <1>3, <1>6, <1>7, <1>8, <1>11
<1>12. ASSUME n # 0, h \in input.special PROVE Right
  BY <1>3, <1>6, <1>7, <1>8, <1>9, <1>12
<1>13. ASSUME n # 0, h \notin input.special PROVE Right
  BY <1>3, <1>5, <1>6, <1>7, <1>8, <1>9, <1>13
<1> QED
  BY <1>10, <1>11, <1>12, <1>13 DEF mb

LEMMA NextOutcome == OutcomeInv /\ [Next]_vars => OutcomeInv'
<1> SUFFICES ASSUME OutcomeInv, [Next]_vars PROVE OutcomeInv'
  OBVIOUS
<1> USE DEF groupVars, scrVars, bufferVars
<1>1. /\ AttachInv /\ AttachInv' /\ input \in Inputs /\ input \in Input /\ input' = input
      /\ countScResults \in [Txs -> Nat] /\ DOMAIN transactions \subseteq Txs
      /\ DOMAIN input.body = 1..Len(input.body) /\ Len(input.body) \in Nat
  <2>1. input \in Inputs /\ input \in Input /\ input.body \in Seq(Miniblock)
    BY GroupingAssumption DEF OutcomeInv, Input
  <2>2. input' = input
    BY DEF Next, vars, GroupMiniblock, GroupResults, AttachResult, Settle, Serialize, LastBuffer
  <2> QED
    BY <2>1, <2>2, NextAttach DEF OutcomeInv, AttachInv, GroupTypes
<1>n. ASSUME step' \notin {"serialize", "done"} PROVE OutcomeOfTheBlock'
  BY <1>n DEF OutcomeOfTheBlock, Attached
<1>k. ASSUME UNCHANGED <<transactions, countScResults, scResults, next>>,
             UNCHANGED step \/ (step = "serialize" /\ step' = "done")
      PROVE  OutcomeInv'
  <2>1. \A h : Gone(h)' = Gone(h) /\ Refunding(h)' = Refunding(h)
    BY <1>1, <1>k DEF Gone, Refunding, ResultsOf
  <2>2. \A mb : NewTx(mb)' = NewTx(mb) /\ \A h : Outcome(h, mb)' = Outcome(h, mb)
    BY <1>1 DEF NewTx, Outcome, ResultsOf
  <2>3. Fresh => Fresh'
    BY <1>1, <1>k, <2>2 DEF Fresh
  <2>4. CountedSoFar => CountedSoFar'
    BY <1>1, <1>k, <2>1, <2>2 DEF CountedSoFar, OutcomeSoFar
  <2>5. OutcomeOfTheBlock'
    BY <1>1, <1>k, <2>2 DEF OutcomeInv, OutcomeOfTheBlock, Attached
  <2> QED
    BY <1>1, <1>k, <2>3, <2>4, <2>5 DEF OutcomeInv
<1>2. CASE GroupMiniblock
  <2> DEFINE mb == input.body[next]
             indexed == IF mb.type = "InvalidBlock" \/ shouldIndex(mb.to) THEN Found(mb) ELSE {}
  <2>1. /\ step = "group" /\ step' = "group" /\ next' = next + 1 /\ next <= Len(input.body)
        /\ transactions' = [h \in DOMAIN transactions \cup (indexed \cap Txs) |->
                              IF h \in indexed THEN NewTx(mb) ELSE transactions[h]]
        /\ UNCHANGED countScResults
    BY <1>2 DEF GroupMiniblock
  <2>2. indexed \subseteq mb.hashes /\ next \in DOMAIN input.body
    BY <1>1, <2>1 DEF Found, OutcomeInv
  <2> HIDE DEF mb, indexed
  <2>3. ASSUME NEW i \in DOMAIN input.body, NEW h \in input.body[i].hashes \cap DOMAIN transactions'
        PROVE  transactions'[h] = NewTx(input.body[i])
    <3>1. CASE h \in indexed
      <4>1. i = next
        BY <1>1, <2>2, <2>3, <3>1, BlocksAssumption DEF WellFormed, mb
      <4> QED
        BY <2>1, <2>3, <3>1, <4>1 DEF mb
    <3>2. CASE h \notin indexed
      BY <2>1, <2>3, <3>2 DEF OutcomeInv, Fresh
    <3> QED
      BY <3>1, <3>2
  <2>4. Fresh'
    <3>1. \A m : NewTx(m)' = NewTx(m)
      BY DEF NewTx
    <3> QED
      BY <1>1, <2>1, <2>3, <3>1 DEF Fresh, OutcomeInv
  <2>5. next' \in 1..(Len(input.body) + 1)
    BY <1>1, <2>1 DEF OutcomeInv
  <2> QED
    BY <1>1, <1>n, <2>1, <2>4, <2>5 DEF OutcomeInv
<1>3. CASE GroupResults
  <2>1. /\ step = "group" /\ step' = "attach" /\ UNCHANGED <<transactions, countScResults>>
        /\ scResults' = input.pool \cap Scrs
    BY <1>1, <1>3 DEF GroupResults, AttachInv, GroupTypes
  <2>2. \A h : Gone(h)' = {} /\ Refunding(h)' = {}
    <3>1. \A h : ResultsOf(h)' = ResultsOf(h) /\ ResultsOf(h) \subseteq input.pool \cap Scrs
      BY <1>1, InputFacts DEF ResultsOf, Of
    <3> QED
      BY <2>1, <3>1 DEF Gone, Refunding
  <2>3. \A mb : NewTx(mb)' = NewTx(mb)
    BY DEF NewTx
  <2>4. ASSUME NEW i \in DOMAIN input.body, NEW h \in input.body[i].hashes \cap DOMAIN transactions
        PROVE  OutcomeSoFar(h, input.body[i])'
    <3>1. transactions'[h] = NewTx(input.body[i])
      BY <2>1 DEF OutcomeInv, Fresh
    <3> QED
      BY <1>1, <2>2, <2>3, <3>1, StatusFacts DEF OutcomeSoFar
  <2>5. \A h \in DOMAIN transactions : countScResults'[h] = Cardinality(Gone(h)')
    BY <1>1, <2>1, <2>2, FS_EmptySet DEF OutcomeInv, Fresh
  <2> QED
    BY <1>1, <1>n, <2>1, <2>4, <2>5 DEF OutcomeInv, CountedSoFar
<1>4. ASSUME NEW s \in Scrs, AttachResult(s) PROVE OutcomeInv'
  <2>1. step = "attach" /\ s \in toVisit /\ UNCHANGED <<input, step, next>>
    BY <1>4 DEF AttachResult
  <2>2. CASE input.original[s] \in DOMAIN transactions
    <3>1. Attach(input.original[s], s)
      BY <1>4, <2>2 DEF AttachResult
    <3> QED
      BY <1>1, <1>n, <2>1, <2>2, <3>1, AttachOutcome DEF OutcomeInv
  <2>3. CASE input.original[s] \notin DOMAIN transactions
    BY <1>4, <1>k, <2>3 DEF AttachResult
  <2> QED
    BY <2>2, <2>3
<1>5. CASE Settle
  <2>1. /\ step = "attach" /\ step' = "serialize" /\ toVisit = {} /\ UNCHANGED countScResults
        /\ transactions' = [h \in DOMAIN transactions |-> Settled(h)]
    BY <1>5 DEF Settle
  <2>2. \A h, mb : Outcome(h, mb)' = Outcome(h, mb)
    BY <1>1 DEF Outcome, ResultsOf
  <2>3. OutcomeOfTheBlock'
    <3> SUFFICES ASSUME NEW i \in DOMAIN input.body,
                        NEW h \in input.body[i].hashes \cap DOMAIN transactions
                 PROVE  /\ transactions'[h].status = Outcome(h, input.body[i]).status
                        /\ transactions'[h].gasUsed \in Outcome(h, input.body[i]).gasUsed
      BY <1>1, <2>1, <2>2 DEF OutcomeOfTheBlock
    <3> QED
      BY <2>1, SettledOutcome
  <2> QED
    BY <1>1, <2>1, <2>3 DEF OutcomeInv
<1>6. ASSUME NEW h \in Hashes, Serialize(h) PROVE OutcomeInv'
  BY <1>6, <1>k DEF Serialize
<1>7. CASE LastBuffer
  BY <1>7, <1>k DEF LastBuffer
<1>8. CASE UNCHANGED vars
  BY <1>8, <1>k DEF vars
<1> QED
  BY <1>2, <1>3, <1>4, <1>5, <1>6, <1>7, <1>8 DEF Next

LEMMA InitOutcome == Init => OutcomeInv
<1> SUFFICES ASSUME Init PROVE OutcomeInv
  OBVIOUS
<1>1. /\ input \in Inputs /\ step = "group" /\ next = 1 /\ AttachInv
      /\ DOMAIN transactions = {} /\ countScResults = [h \in Txs |-> 0]
  <2>1. transactions = <<>>
    BY DEF Init
  <2> QED
    BY <2>1, InitAttach DEF Init
<1>2. next \in 1..(Len(input.body) + 1)
  <2>1. Len(input.body) \in Nat
    BY <1>1, GroupingAssumption DEF Input
  <2> QED
    BY <1>1, <2>1
<1> QED
  BY <1>1, <1>2 DEF OutcomeInv, Fresh, OutcomeOfTheBlock, Attached

\* What is indexed of a transaction depends on its block and pool only: its status,
\* and where its gas comes from, in every order of the maps.
THEOREM OutcomeIsTheBlocks == Spec => []OutcomeOfTheBlock
<1>1. OutcomeInv => OutcomeOfTheBlock
  BY DEF OutcomeInv
<1> QED
  BY <1>1, InitOutcome, NextOutcome, PTL DEF Spec
-----------------------------------------------------------------------------
(* The documents. *)

\* What miniblock i adds to them.
IndexedOf(i) ==
  IF input.body[i].type = "InvalidBlock" \/ shouldIndex(input.body[i].to)
  THEN input.body[i].hashes \cap input.pool ELSE {}

DocumentsAre(hashes) ==
  DOMAIN transactions = hashes \cap Txs /\ rewardsTxs = hashes \cap Rewards

DocumentsInv ==
  /\ AlteredInv
  /\ step = "group" => DocumentsAre(UNION {IndexedOf(i) : i \in 1..(next - 1)})
  /\ step # "group" => DocumentsAre(UNION {IndexedOf(i) : i \in DOMAIN input.body})

LEMMA NextDocuments == DocumentsInv /\ [Next]_vars => DocumentsInv'
<1> SUFFICES ASSUME DocumentsInv, [Next]_vars PROVE DocumentsInv'
  OBVIOUS
<1> USE DEF groupVars, scrVars, bufferVars
<1>1. /\ AlteredInv /\ AlteredInv' /\ input \in Inputs /\ input' = input
      /\ next \in Nat \ {0} /\ DOMAIN input.body = 1..Len(input.body) /\ Len(input.body) \in Nat
  <2>1. input \in Inputs /\ input.body \in Seq(Miniblock)
    BY GroupingAssumption DEF DocumentsInv, AlteredInv, Input
  <2>2. input' = input
    BY DEF Next, vars, GroupMiniblock, GroupResults, AttachResult, Settle, Serialize, LastBuffer
  <2> QED
    BY <2>1, <2>2, NextAltered DEF DocumentsInv, AlteredInv
<1>2. \A i : IndexedOf(i)' = IndexedOf(i)
  BY <1>1 DEF IndexedOf, shouldIndex
<1>3. CASE GroupMiniblock
  <2> DEFINE mb == input.body[next]
             indexed == IF mb.type = "InvalidBlock" \/ shouldIndex(mb.to) THEN Found(mb) ELSE {}
             before == UNION {IndexedOf(i) : i \in 1..(next - 1)}
             after == UNION {IndexedOf(i) : i \in 1..(next' - 1)}
  <2>1. /\ step = "group" /\ step' = "group" /\ next' = next + 1 /\ next \in DOMAIN input.body
        /\ DOMAIN transactions' = DOMAIN transactions \cup (indexed \cap Txs)
        /\ rewardsTxs' = rewardsTxs \cup (indexed \cap Rewards)
    BY <1>1, <1>3 DEF GroupMiniblock
  <2>2. indexed = IndexedOf(next)
    <3>1. mb.hashes \cap pool = mb.hashes \cap input.pool
      BY <1>1, <2>1 DEF AlteredInv
    <3>2. Found(mb) = mb.hashes \cap input.pool
      BY <1>1, <2>1, <3>1, FoundFacts
    <3> QED
      BY <3>2 DEF IndexedOf
  <2>3. after = before \cup IndexedOf(next)
    <3>1. \A i : i \in 1..(next' - 1) <=> i \in 1..(next - 1) \/ i = next
      BY <1>1, <2>1
    <3> QED
      BY <3>1
  <2>4. DOMAIN transactions = before \cap Txs /\ rewardsTxs = before \cap Rewards
    BY <2>1 DEF DocumentsInv, DocumentsAre
  <2> HIDE DEF mb, indexed, before, after
  <2>5. DOMAIN transactions' = after \cap Txs /\ rewardsTxs' = after \cap Rewards
    BY <2>1, <2>2, <2>3, <2>4
  <2>6. (UNION {IndexedOf(i) : i \in 1..(next - 1)})' = after
    BY <1>2 DEF after
  <2>7. (step = "group" => DocumentsAre(UNION {IndexedOf(i) : i \in 1..(next - 1)}))'
    BY <2>5, <2>6 DEF DocumentsAre
  <2>8. (step # "group" => DocumentsAre(UNION {IndexedOf(i) : i \in DOMAIN input.body}))'
    BY <2>1
  <2> QED
    BY <1>1, <2>7, <2>8 DEF DocumentsInv
<1>4. CASE GroupResults
  <2>1. /\ step = "group" /\ step' = "attach" /\ next > Len(input.body)
        /\ UNCHANGED <<transactions, rewardsTxs>>
    BY <1>4 DEF GroupResults
  <2>2. 1..(next - 1) = DOMAIN input.body
    <3>1. next = Len(input.body) + 1
      BY <1>1, <2>1 DEF AlteredInv
    <3> QED
      BY <1>1, <3>1
  <2> QED
    BY <1>1, <1>2, <2>1, <2>2 DEF DocumentsInv, DocumentsAre
<1>5. ASSUME DOMAIN transactions' = DOMAIN transactions, UNCHANGED <<rewardsTxs, next>>,
             UNCHANGED step \/ (step # "group" /\ step' # "group")
      PROVE  DocumentsInv'
  <2>1. /\ (UNION {IndexedOf(i) : i \in 1..(next - 1)})' = UNION {IndexedOf(i) : i \in 1..(next - 1)}
        /\ (UNION {IndexedOf(i) : i \in DOMAIN input.body})' = UNION {IndexedOf(i) : i \in DOMAIN input.body}
    BY <1>1, <1>2, <1>5
  <2>2. (step = "group" => DocumentsAre(UNION {IndexedOf(i) : i \in 1..(next - 1)}))'
    BY <1>5, <2>1 DEF DocumentsInv, DocumentsAre
  <2>3. (step # "group" => DocumentsAre(UNION {IndexedOf(i) : i \in DOMAIN input.body}))'
    BY <1>5, <2>1 DEF DocumentsInv, DocumentsAre
  <2> QED
    BY <1>1, <2>2, <2>3 DEF DocumentsInv
<1>6. ASSUME NEW s \in Scrs, AttachResult(s) PROVE DocumentsInv'
  <2>1. DOMAIN transactions' = DOMAIN transactions
    BY <1>6 DEF AttachResult, Attach
  <2> QED
    BY <1>5, <1>6, <2>1 DEF AttachResult
<1>7. CASE Settle
  BY <1>5, <1>7 DEF Settle
<1>8. ASSUME NEW h \in Hashes, Serialize(h) PROVE DocumentsInv'
  BY <1>5, <1>8 DEF Serialize
<1>9. CASE LastBuffer
  BY <1>5, <1>9 DEF LastBuffer
<1>10. CASE UNCHANGED vars
  BY <1>5, <1>10 DEF vars
<1> QED
  BY <1>3, <1>4, <1>6, <1>7, <1>8, <1>9, <1>10 DEF Next

LEMMA InitDocuments == Init => DocumentsInv
<1> SUFFICES ASSUME Init PROVE DocumentsInv
  OBVIOUS
<1>1. AlteredInv /\ step = "group" /\ next = 1 /\ DOMAIN transactions = {} /\ rewardsTxs = {}
  <2>1. transactions = <<>>
    BY DEF Init
  <2> QED
    BY <2>1, InitAltered DEF Init
<1>2. 1..(next - 1) = {}
  BY <1>1
<1> QED
  BY <1>1, <1>2 DEF DocumentsInv, DocumentsAre

\* Which transactions and rewards the miniblocks add, by their type.
LEMMA ByType ==
  ASSUME input \in Inputs, NEW i \in DOMAIN input.body, NEW h \in input.body[i].hashes
  PROVE  /\ h \in Txs <=> input.body[i].type \in {"TxBlock", "InvalidBlock"}
         /\ h \in Rewards <=> input.body[i].type = "RewardsBlock"
         /\ \A types : h \in InMiniblocks(types) <=> h \in input.pool /\ input.body[i].type \in types
         /\ input.body[i].type # "InvalidBlock" =>
              (ShardOf[receiver[h]] = SelfShard <=> input.body[i].to = SelfShard)
<1> DEFINE mb == input.body[i]
<1>1. /\ mb \in Miniblock /\ mb.hashes \subseteq OfType(mb.type) /\ h \in mb.hashes
      /\ mb.to = AllShards => mb.type = "PeerBlock"
      /\ \A j \in DOMAIN input.body \ {i} : h \notin input.body[j].hashes
      /\ mb.type # "InvalidBlock" => \A t \in mb.hashes :
           ShardOf[receiver[t]] = SelfShard <=> mb.to \in {SelfShard, AllShards}
  <2>1. WellFormed(input.body)
    BY BlocksAssumption
  <2>2. input.body \in Seq(Miniblock)
    BY GroupingAssumption DEF Input
  <2> QED
    BY <2>1, <2>2 DEF WellFormed
<1> HIDE DEF mb
<1>2. /\ h \in Txs <=> mb.type \in {"TxBlock", "InvalidBlock"}
      /\ h \in Rewards <=> mb.type = "RewardsBlock"
      /\ mb.type # "PeerBlock"
  BY <1>1, GroupingAssumption DEF OfType
<1>3. ASSUME NEW types PROVE h \in InMiniblocks(types) <=> h \in input.pool /\ mb.type \in types
  BY <1>1 DEF InMiniblocks, mb
<1> QED
  BY <1>1, <1>2, <1>3 DEF mb

\* TransactionDocuments, for this block.
LEMMA BlockFacts ==
  ASSUME input \in Inputs
  PROVE  /\ InMiniblocks({"TxBlock", "InvalidBlock"}) \subseteq Txs
         /\ \A h \in Txs :
              Block!IntraShardOrInvalid(input, h) \/ Block!CrossShardDstMe(input, h)
                <=> ShardOf[receiver[h]] = SelfShard \/ h \in InMiniblocks({"InvalidBlock"})
         /\ Block!ToIndex(input) =
              {h \in InMiniblocks({"TxBlock", "InvalidBlock"}) :
                 shouldIndex(ShardOf[receiver[h]]) \/ h \in InMiniblocks({"InvalidBlock"})}
<1>1. InMiniblocks({"TxBlock", "InvalidBlock"}) \subseteq Txs
  <2>1. ASSUME NEW h \in InMiniblocks({"TxBlock", "InvalidBlock"}) PROVE h \in Txs
    <3>1. PICK i \in DOMAIN input.body : /\ input.body[i].type \in {"TxBlock", "InvalidBlock"}
                                        /\ h \in input.body[i].hashes
      BY <2>1 DEF InMiniblocks
    <3> QED
      BY <3>1, ByType
  <2> QED
    BY <2>1
<1>2. ASSUME NEW h \in Txs
      PROVE  Block!IntraShardOrInvalid(input, h) \/ Block!CrossShardDstMe(input, h)
               <=> ShardOf[receiver[h]] = SelfShard \/ h \in InMiniblocks({"InvalidBlock"})
  BY <1>2 DEF Block!IntraShardOrInvalid, Block!CrossShardDstMe, Block!Cross
<1>3. Block!ToIndex(input) =
        {h \in InMiniblocks({"TxBlock", "InvalidBlock"}) :
           shouldIndex(ShardOf[receiver[h]]) \/ h \in InMiniblocks({"InvalidBlock"})}
  BY <1>1 DEF Block!ToIndex, shouldIndex
<1> QED
  BY <1>1, <1>2, <1>3

LEMMA DocumentsAreTheBlocks ==
  DocumentsInv /\ OutcomeOfTheBlock => DocumentsOfTheBlock
<1> SUFFICES ASSUME DocumentsInv, OutcomeOfTheBlock, Attached PROVE DocumentsOfTheBlock
  BY DEF DocumentsOfTheBlock
<1> DEFINE all == UNION {IndexedOf(i) : i \in DOMAIN input.body}
           invalid == InMiniblocks({"InvalidBlock"})
<1>1. /\ input \in Inputs
      /\ DOMAIN transactions = all \cap Txs /\ rewardsTxs = all \cap Rewards
  BY DEF DocumentsInv, AlteredInv, DocumentsAre, Attached
<1>2. ASSUME NEW i \in DOMAIN input.body, NEW h \in input.body[i].hashes, h \in input.pool
      PROVE  h \in IndexedOf(i) <=> h \in invalid \/ shouldIndex(ShardOf[receiver[h]])
  <2>1. h \in invalid <=> input.body[i].type = "InvalidBlock"
    BY <1>1, <1>2, ByType
  <2>2. input.body[i].type # "InvalidBlock" =>
          (shouldIndex(input.body[i].to) <=> shouldIndex(ShardOf[receiver[h]]))
    BY <1>1, ByType DEF shouldIndex
  <2> QED
    BY <1>2, <2>1, <2>2 DEF IndexedOf
<1>3. \A h \in all : \E i \in DOMAIN input.body :
        h \in IndexedOf(i) /\ h \in input.body[i].hashes /\ h \in input.pool
  BY DEF IndexedOf
<1>4. \A i \in DOMAIN input.body : IndexedOf(i) \subseteq all
  OBVIOUS
<1>5. \A types : \A h \in InMiniblocks(types) : \E i \in DOMAIN input.body :
        h \in input.body[i].hashes /\ h \in input.pool /\ input.body[i].type \in types
  BY DEF InMiniblocks
<1> HIDE DEF all
<1>6. DOMAIN transactions = Block!ToIndex(input)
  <2>1. ASSUME NEW h \in all \cap Txs
        PROVE  /\ h \in InMiniblocks({"TxBlock", "InvalidBlock"})
               /\ shouldIndex(ShardOf[receiver[h]]) \/ h \in invalid
    BY <1>1, <1>2, <1>3, ByType
  <2>2. ASSUME NEW h \in InMiniblocks({"TxBlock", "InvalidBlock"}),
               shouldIndex(ShardOf[receiver[h]]) \/ h \in invalid
        PROVE  h \in all \cap Txs
    <3>1. h \in Txs
      BY <1>1, BlockFacts
    <3> QED
      BY <1>2, <1>4, <1>5, <2>2, <3>1
  <2> QED
    BY <1>1, <2>1, <2>2, BlockFacts
<1>7. rewardsTxs = {h \in InMiniblocks({"RewardsBlock"}) : shouldIndex(ShardOf[receiver[h]])}
  <2>1. ASSUME NEW h \in all \cap Rewards
        PROVE  h \in InMiniblocks({"RewardsBlock"}) /\ shouldIndex(ShardOf[receiver[h]])
    <3>1. PICK i \in DOMAIN input.body :
            h \in IndexedOf(i) /\ h \in input.body[i].hashes /\ h \in input.pool
      BY <1>3
    <3>2. input.body[i].type = "RewardsBlock" /\ h \notin invalid
      BY <1>1, <3>1, ByType
    <3> QED
      BY <1>1, <1>2, <3>1, <3>2, ByType
  <2>2. ASSUME NEW h \in InMiniblocks({"RewardsBlock"}), shouldIndex(ShardOf[receiver[h]])
        PROVE  h \in all \cap Rewards
    <3>1. PICK i \in DOMAIN input.body :
            h \in input.body[i].hashes /\ h \in input.pool /\ input.body[i].type = "RewardsBlock"
      BY <1>5
    <3> QED
      BY <1>1, <1>2, <1>4, <2>2, <3>1, ByType
  <2> QED
    BY <1>1, <2>1, <2>2
<1>8. ASSUME NEW h \in DOMAIN transactions
      PROVE  /\ transactions[h].status = "invalid" <=> h \in invalid
             /\ transactions[h].status = "pending" =>
                  ~Block!IntraShardOrInvalid(input, h) /\ ~Block!CrossShardDstMe(input, h)
  <2>1. PICK i \in DOMAIN input.body : h \in input.body[i].hashes /\ h \in input.pool
    BY <1>1, <1>3
  <2> DEFINE mb == input.body[i]
  <2>2. transactions[h].status = Outcome(h, mb).status
    BY <2>1 DEF OutcomeOfTheBlock
  <2>3. /\ Outcome(h, mb).status = "invalid" <=> mb.type = "InvalidBlock"
        /\ Outcome(h, mb).status = "pending" => mb.type # "InvalidBlock" /\ mb.to # SelfShard
    BY DEF Outcome
  <2>4. /\ h \in invalid <=> mb.type = "InvalidBlock"
        /\ mb.type # "InvalidBlock" => (ShardOf[receiver[h]] = SelfShard <=> mb.to = SelfShard)
    BY <1>1, <2>1, ByType
  <2> HIDE DEF mb, invalid
  <2> QED
    BY <1>1, <2>2, <2>3, <2>4, BlockFacts DEF invalid
<1> QED
  BY <1>6, <1>7, <1>8 DEF DocumentsOfTheBlock

\* For every well-formed block, in import mode or not and in every order of the
\* maps, the documents and their statuses are those TxIndexing takes for granted.
THEOREM DocumentsAreComplete == Spec => []DocumentsOfTheBlock
  BY DocumentsAreTheBlocks, InitDocuments, NextDocuments, OutcomeIsTheBlocks, PTL DEF Spec

-----------------------------------------------------------------------------
(* Types. *)

\* The types of what no step of the results changes.
GroupedTypes ==
  /\ next \in 1..(Len(input.body) + 1)
  /\ pool \subseteq input.pool
  /\ rewardsTxs \subseteq Rewards

BufferTypes ==
  /\ serialized \subseteq Documents
  /\ buff \subseteq serialized
  /\ buffSlice \in Seq(SUBSET serialized)

\* The counter of a transaction is the length of its list of results.
ListsCounted ==
  \A h \in DOMAIN transactions :
    countScResults[h] = SumFunctionOnSet(transactions[h].results, Scrs)

TypeInv ==
  /\ OutcomeInv /\ AlteredInv
  /\ GroupedTypes /\ BufferTypes /\ ListsCounted

LEMMA InvIsTyped == TypeInv => TypeOK
<1> SUFFICES ASSUME TypeInv PROVE TypeOK
  OBVIOUS
<1>1. alteredAddresses \subseteq Addresses
  <2>1. AlteredByResults \subseteq Addresses /\ \A i : AlteredBy(i) \subseteq Addresses
    BY DEF AlteredByResults, AlteredBy
  <2> QED
    BY <2>1 DEF TypeInv, AlteredInv
<1>2. GroupTypes /\ countScResults \in [Txs -> Nat]
  BY DEF TypeInv, OutcomeInv, AttachInv
<1> QED
  BY <1>1, <1>2 DEF TypeInv, TypeOK, GroupedTypes, BufferTypes, ListsCounted, GroupTypes

\* A new transaction has an empty list.
LEMMA NothingListed ==
  \A mb : SumFunctionOnSet(NewTx(mb).results, Scrs) = 0
<1> SUFFICES ASSUME NEW mb PROVE SumFunctionOnSet(NewTx(mb).results, Scrs) = 0
  OBVIOUS
<1> DEFINE none == [s \in Scrs |-> 0]
<1>1. NewTx(mb).results = none
  BY DEF NewTx
<1>2. SumFunctionOnSet(none, Scrs) = 0
  BY GroupingAssumption, SumOfZeros
<1> QED
  BY <1>1, <1>2, Zenon

\* An iteration lists and counts the family of its result.
LEMMA AttachCounts ==
  ASSUME TypeInv, step = "attach", NEW s \in toVisit, input.original[s] \in DOMAIN transactions,
         Attach(input.original[s], s), UNCHANGED input
  PROVE  ListsCounted' /\ DOMAIN transactions' = DOMAIN transactions
<1> DEFINE h == input.original[s]
<1>1. /\ AttachInv /\ GroupTypes /\ ListsCounted /\ h \in Txs
      /\ countScResults \in [Txs -> Nat] /\ transactions[h] \in Tx
      /\ Family(s) \subseteq Scrs /\ IsFiniteSet(Family(s)) /\ Cardinality(Family(s)) \in Nat
  <2>1. AttachInv /\ GroupTypes /\ ListsCounted /\ countScResults \in [Txs -> Nat]
    BY DEF TypeInv, OutcomeInv, AttachInv
  <2>2. Family(s) \subseteq scResults /\ h \in Txs
    BY <2>1, FamilyFacts
  <2>3. IsFiniteSet(Family(s)) /\ Cardinality(Family(s)) \in Nat
    BY <2>1, GoneStep
  <2> QED
    BY <2>1, <2>2, <2>3 DEF GroupTypes
<1>2. PICK tx \in WithResults(h, s) : transactions' = [transactions EXCEPT ![h] = tx]
  BY DEF Attach
<1>3. countScResults' = [countScResults EXCEPT ![h] = @ + Cardinality(Family(s))]
  BY DEF Attach
<1> HIDE DEF h
<1>4. \A r \in Scrs : /\ transactions[h].results[r] \in Nat
                      /\ tx.results[r] = transactions[h].results[r] + (IF r \in Family(s) THEN 1 ELSE 0)
  <2>1. PICK gas : tx = [transactions[h] EXCEPT !.results = [r \in Scrs |->
                           transactions[h].results[r] + (IF r \in Family(s) THEN 1 ELSE 0)],
                                                !.gasUsed = gas]
    BY <1>2 DEF WithResults
  <2> QED
    BY <1>1, <2>1 DEF Tx
<1>5. SumFunctionOnSet(tx.results, Scrs)
        = SumFunctionOnSet(transactions[h].results, Scrs) + Cardinality(Family(s))
  BY <1>1, <1>4, SumOfIncremented, GroupingAssumption
<1>6. /\ DOMAIN transactions' = DOMAIN transactions
      /\ h \in DOMAIN transactions
      /\ \A g \in DOMAIN transactions : transactions'[g] = IF g = h THEN tx ELSE transactions[g]
  BY <1>2 DEF h
<1>7. ASSUME NEW g \in DOMAIN transactions
      PROVE  countScResults'[g] = SumFunctionOnSet(transactions'[g].results, Scrs)
  <2>1. countScResults[g] = SumFunctionOnSet(transactions[g].results, Scrs) /\ g \in Txs
    BY <1>1 DEF ListsCounted, GroupTypes
  <2>2. CASE g = h
    <3>1. countScResults'[h] = countScResults[h] + Cardinality(Family(s)) /\ transactions'[g] = tx
      BY <1>1, <1>3, <1>6, <2>2
    <3> QED
      BY <1>5, <2>1, <2>2, <3>1
  <2>3. CASE g # h
    <3>1. countScResults'[g] = countScResults[g] /\ transactions'[g] = transactions[g]
      BY <1>1, <1>3, <1>6, <2>1, <2>3
    <3> QED
      BY <2>1, <3>1
  <2> QED
    BY <2>2, <2>3
<1> QED
  BY <1>6, <1>7 DEF ListsCounted

LEMMA NextTypes == TypeInv /\ [Next]_vars => TypeInv'
<1> SUFFICES ASSUME TypeInv, [Next]_vars
             PROVE  GroupedTypes' /\ BufferTypes' /\ ListsCounted'
  BY NextOutcome, NextAltered DEF TypeInv
<1> USE DEF groupVars, scrVars, bufferVars
<1>1. /\ GroupTypes /\ GroupedTypes /\ BufferTypes /\ ListsCounted
      /\ countScResults \in [Txs -> Nat] /\ Len(input.body) \in Nat
      /\ \A h \in DOMAIN transactions : transactions[h] \in Tx
  <2>1. input.body \in Seq(Miniblock)
    BY DEF TypeInv, OutcomeInv, AttachInv, GroupTypes, Input
  <2> QED
    BY <2>1 DEF TypeInv, OutcomeInv, AttachInv, GroupTypes
<1>2. ASSUME UNCHANGED <<transactions, countScResults>> PROVE ListsCounted'
  BY <1>1, <1>2 DEF ListsCounted
<1>3. ASSUME UNCHANGED <<transactions, rewardsTxs, bufferVars>> PROVE BufferTypes'
  BY <1>1, <1>3 DEF BufferTypes, Documents
<1>4. ASSUME UNCHANGED <<input, groupVars>> PROVE GroupedTypes'
  BY <1>1, <1>4 DEF GroupedTypes
<1>5. CASE GroupMiniblock
  <2> DEFINE mb == input.body[next]
             indexed == IF mb.type = "InvalidBlock" \/ shouldIndex(mb.to) THEN Found(mb) ELSE {}
  <2>1. /\ step = "group" /\ next <= Len(input.body) /\ next' = next + 1
        /\ transactions' = [h \in DOMAIN transactions \cup (indexed \cap Txs) |->
                              IF h \in indexed THEN NewTx(mb) ELSE transactions[h]]
        /\ rewardsTxs' = rewardsTxs \cup (indexed \cap Rewards)
        /\ pool' = pool \ Found(mb)
        /\ UNCHANGED <<input, countScResults, bufferVars>>
    BY <1>5 DEF GroupMiniblock
  <2> HIDE DEF mb, indexed
  <2>2. GroupedTypes'
    BY <1>1, <2>1 DEF GroupedTypes
  <2>3. BufferTypes'
    BY <1>1, <2>1 DEF BufferTypes, Documents
  <2>4. ASSUME NEW h \in DOMAIN transactions'
        PROVE  countScResults'[h] = SumFunctionOnSet(transactions'[h].results, Scrs)
    <3>1. countScResults'[h] = 0
      <4>1. DOMAIN transactions' \subseteq Txs
        BY <1>1, <2>1 DEF GroupTypes
      <4> QED
        BY <2>1, <2>4, <4>1 DEF TypeInv, OutcomeInv, Fresh
    <3>2. CASE h \in indexed
      <4>1. transactions'[h] = NewTx(mb)
        BY <2>1, <2>4, <3>2
      <4> QED
        BY <3>1, <4>1, NothingListed
    <3>3. CASE h \notin indexed
      BY <1>1, <2>1, <2>4, <3>3 DEF ListsCounted
    <3> QED
      BY <3>2, <3>3
  <2> QED
    BY <2>2, <2>3, <2>4 DEF ListsCounted
<1>6. CASE GroupResults
  BY <1>1, <1>2, <1>3, <1>6 DEF GroupResults, GroupedTypes
<1>7. ASSUME NEW s \in Scrs, AttachResult(s)
      PROVE  GroupedTypes' /\ BufferTypes' /\ ListsCounted'
  <2>1. step = "attach" /\ s \in toVisit /\ UNCHANGED <<input, groupVars, bufferVars>>
    BY <1>7 DEF AttachResult
  <2>2. CASE input.original[s] \in DOMAIN transactions
    <3>1. Attach(input.original[s], s)
      BY <1>7, <2>2 DEF AttachResult
    <3>2. ListsCounted' /\ DOMAIN transactions' = DOMAIN transactions
      BY <2>1, <2>2, <3>1, AttachCounts
    <3> QED
      BY <1>1, <1>4, <2>1, <3>2 DEF BufferTypes, Documents
  <2>3. CASE input.original[s] \notin DOMAIN transactions
    BY <1>2, <1>3, <1>4, <1>7, <2>1, <2>3 DEF AttachResult
  <2> QED
    BY <2>2, <2>3
<1>8. CASE Settle
  <2>1. /\ transactions' = [h \in DOMAIN transactions |-> Settled(h)]
        /\ UNCHANGED <<input, groupVars, countScResults, bufferVars>>
    BY <1>8 DEF Settle
  <2>2. ASSUME NEW h \in DOMAIN transactions
        PROVE  countScResults'[h] = SumFunctionOnSet(transactions'[h].results, Scrs)
    <3>1. transactions'[h].results = transactions[h].results
      BY <1>1, <2>1, SettleKeepsResults
    <3> QED
      BY <1>1, <2>1, <3>1 DEF ListsCounted
  <2> QED
    BY <1>1, <1>4, <2>1, <2>2 DEF ListsCounted, BufferTypes, Documents
<1>9. ASSUME NEW h \in Hashes, Serialize(h)
      PROVE  GroupedTypes' /\ BufferTypes' /\ ListsCounted'
  <2>1. /\ UNCHANGED <<input, groupVars, transactions, countScResults>>
        /\ h \in Documents /\ serialized' = serialized \cup {h}
        /\ buffSlice' = Append(buffSlice, buff) \/ buffSlice' = buffSlice
        /\ buff' \subseteq buff \cup {h}
    BY <1>9 DEF Serialize
  <2>2. buffSlice' \in Seq(SUBSET serialized')
    BY <1>1, <2>1 DEF BufferTypes
  <2> QED
    BY <1>1, <1>2, <1>4, <2>1, <2>2 DEF BufferTypes, Documents
<1>10. CASE LastBuffer
  <2>1. /\ UNCHANGED <<input, groupVars, transactions, countScResults, serialized, buff>>
        /\ buffSlice' = Append(buffSlice, buff) \/ buffSlice' = buffSlice
    BY <1>10 DEF LastBuffer
  <2> QED
    BY <1>1, <1>2, <1>4, <2>1 DEF BufferTypes, Documents
<1>11. CASE UNCHANGED vars
  BY <1>2, <1>3, <1>4, <1>11 DEF vars
<1> QED
  BY <1>5, <1>6, <1>7, <1>8, <1>9, <1>10, <1>11 DEF Next

LEMMA InitTypes == Init => TypeInv
<1> SUFFICES ASSUME Init PROVE TypeInv
  OBVIOUS
<1>1. OutcomeInv /\ AlteredInv
  BY InitOutcome, InitAltered
<1>2. Len(input.body) \in Nat
  <2>1. input.body \in Seq(Miniblock)
    BY GroupingAssumption DEF Init, Input
  <2> QED
    BY <2>1
<1>3. /\ next = 1 /\ pool = input.pool /\ rewardsTxs = {} /\ transactions = <<>>
      /\ serialized = {} /\ buff = {} /\ buffSlice = <<>>
  BY DEF Init
<1>4. DOMAIN transactions = {} /\ buffSlice \in Seq(SUBSET serialized)
  BY <1>3
<1> QED
  BY <1>1, <1>2, <1>3, <1>4 DEF TypeInv, GroupedTypes, BufferTypes, ListsCounted

\* Every variable keeps its type, the counter of a transaction is the length of
\* its list of results, and only documents of the block are written to buffers.
THEOREM TypeCorrect == Spec => []TypeOK
BY InitTypes, NextTypes, InvIsTyped, PTL DEF Spec
-----------------------------------------------------------------------------
(* The buffers. *)

Sizes == [h \in Documents |-> SizeOf(h)]

\* The buffers bs hold each of docs once, none above the threshold unless it has
\* one document, and no two neighbours fit in one.
Cut(sizes, bs, docs) ==
  /\ \A h \in docs : \E i \in DOMAIN bs : h \in bs[i] /\ \A j \in DOMAIN bs \ {i} : h \notin bs[j]
  /\ \A i \in DOMAIN bs :
       /\ bs[i] \subseteq docs /\ IsFiniteSet(bs[i]) /\ bs[i] # {}
       /\ SumFunctionOnSet(sizes, bs[i]) <= Threshold \/ Cardinality(bs[i]) = 1
       /\ i < Len(bs) =>
            SumFunctionOnSet(sizes, bs[i]) + SumFunctionOnSet(sizes, bs[i + 1]) > Threshold

\* The full buffers and the current one.
Buffers == IF buff # {} THEN Append(buffSlice, buff) ELSE buffSlice

BuffersInv ==
  /\ TypeInv
  /\ step \in {"group", "attach"} => serialized = {} /\ buff = {} /\ buffSlice = <<>>
  /\ step = "serialize" => /\ Cut(Sizes, Buffers, serialized)
                           /\ buff = {} => buffSlice = <<>>
  /\ BuffersComplete

\* A document that does not fit in the last buffer begins another.
LEMMA BeginsBuffer ==
  ASSUME NEW D, NEW sizes \in [D -> Nat], NEW docs \in SUBSET D,
         NEW bs \in Seq(SUBSET docs), Cut(sizes, bs, docs), NEW h \in D \ docs,
         bs # <<>> => SumFunctionOnSet(sizes, bs[Len(bs)]) + sizes[h] > Threshold
  PROVE  Cut(sizes, Append(bs, {h}), docs \cup {h})
<1> DEFINE new == Append(bs, {h})
           n == Len(bs)
           sum(b) == SumFunctionOnSet(sizes, b)
<1>1. /\ n \in Nat /\ DOMAIN bs = 1..n /\ DOMAIN new = 1..(n + 1) /\ Len(new) = n + 1
      /\ new[n + 1] = {h} /\ \A i \in 1..n : new[i] = bs[i] /\ bs[i] \subseteq docs
  OBVIOUS
<1>2. sum({h}) = sizes[h] /\ IsFiniteSet({h}) /\ Cardinality({h}) = 1
  <2>1. SumFunctionOnSet(sizes, {} \cup {h}) = SumFunctionOnSet(sizes, {}) + sizes[h]
    BY FS_EmptySet, SumAddsOne
  <2>2. {} \cup {h} = {h} /\ SumFunctionOnSet(sizes, {}) = 0
    BY SumEmpty
  <2>3. SumFunctionOnSet(sizes, {h}) = sizes[h]
    <3>1. sizes[h] \in Nat
      OBVIOUS
    <3> QED
      BY <2>1, <2>2, <3>1
  <2>4. IsFiniteSet({h}) /\ Cardinality({h}) = 1
    BY FS_Singleton
  <2> QED
    BY <2>3, <2>4
<1>3. bs # <<>> => n \in 1..n
  BY <1>1
<1> HIDE DEF new, n, sum
<1>4. ASSUME NEW g \in docs \cup {h}
      PROVE  \E i \in DOMAIN new : g \in new[i] /\ \A j \in DOMAIN new \ {i} : g \notin new[j]
  <2>1. CASE g = h
    <3>1. \A j \in 1..n : h \notin new[j]
      BY <1>1
    <3>2. \A j \in DOMAIN new \ {n + 1} : h \notin new[j]
      BY <1>1, <3>1
    <3>3. n + 1 \in DOMAIN new /\ h \in new[n + 1]
      BY <1>1
    <3> QED
      BY <2>1, <3>2, <3>3
  <2>2. CASE g # h
    <3>1. PICK i \in 1..n : g \in bs[i] /\ \A j \in 1..n \ {i} : g \notin bs[j]
      BY <1>1, <2>2 DEF Cut
    <3>2. i \in DOMAIN new /\ g \in new[i]
      BY <1>1, <3>1
    <3>3. ASSUME NEW j \in DOMAIN new \ {i} PROVE g \notin new[j]
      <4>1. CASE j \in 1..n
        BY <1>1, <3>1, <3>3, <4>1
      <4>2. CASE j \notin 1..n
        <5>1. j = n + 1
          BY <1>1, <3>3, <4>2
        <5> QED
          BY <1>1, <2>2, <5>1
      <4> QED
        BY <4>1, <4>2
    <3> QED
      BY <3>2, <3>3
  <2> QED
    BY <2>1, <2>2
<1>5. ASSUME NEW i \in DOMAIN new
      PROVE  /\ new[i] \subseteq docs \cup {h} /\ IsFiniteSet(new[i]) /\ new[i] # {}
             /\ sum(new[i]) <= Threshold \/ Cardinality(new[i]) = 1
             /\ i < Len(new) => sum(new[i]) + sum(new[i + 1]) > Threshold
  <2>1. CASE i = n + 1
    <3>1. ~ (i < Len(new))
      BY <1>1, <2>1
    <3> QED
      BY <1>1, <1>2, <2>1, <3>1
  <2>2. CASE i \in 1..n
    <3>1. /\ bs[i] \subseteq docs /\ IsFiniteSet(bs[i]) /\ bs[i] # {} /\ new[i] = bs[i]
          /\ sum(bs[i]) <= Threshold \/ Cardinality(bs[i]) = 1
          /\ i < n => sum(bs[i]) + sum(bs[i + 1]) > Threshold
      BY <1>1, <2>2 DEF Cut, n, sum
    <3>2. CASE i = n
      <4>1. sum(bs[n]) + sizes[h] > Threshold
        BY <1>1, <2>2, <3>2 DEF sum, n
      <4> QED
        BY <1>1, <1>2, <3>1, <3>2, <4>1
    <3>3. CASE i # n
      <4>1. i < n /\ i + 1 \in 1..n
        BY <1>1, <2>2, <3>3
      <4> QED
        BY <1>1, <3>1, <4>1
    <3> QED
      BY <3>2, <3>3
  <2> QED
    BY <1>1, <2>1, <2>2
<1> QED
  BY <1>4, <1>5 DEF Cut, new, sum

\* A document that fits in the last buffer leaves the buffers cut.
LEMMA FillsBuffer ==
  ASSUME NEW D, NEW sizes \in [D -> Nat], NEW docs \in SUBSET D,
         NEW bs \in Seq(SUBSET docs), NEW b \in SUBSET docs, b # {},
         Cut(sizes, Append(bs, b), docs), NEW h \in D \ docs,
         SumFunctionOnSet(sizes, b) + sizes[h] <= Threshold
  PROVE  Cut(sizes, Append(bs, b \cup {h}), docs \cup {h})
<1> DEFINE old == Append(bs, b)
           new == Append(bs, b \cup {h})
           n == Len(bs)
           sum(s) == SumFunctionOnSet(sizes, s)
<1>1. /\ n \in Nat /\ DOMAIN old = 1..(n + 1) /\ DOMAIN new = 1..(n + 1)
      /\ Len(old) = n + 1 /\ Len(new) = n + 1
      /\ old[n + 1] = b /\ new[n + 1] = b \cup {h}
      /\ \A i \in 1..n : new[i] = old[i] /\ old[i] \subseteq docs
  OBVIOUS
<1>2. /\ IsFiniteSet(b) /\ IsFiniteSet(b \cup {h})
      /\ sum(b \cup {h}) = sum(b) + sizes[h] /\ sum(b) \in Nat /\ sizes[h] \in Nat
  <2>1. IsFiniteSet(b)
    BY <1>1 DEF Cut
  <2>2. IsFiniteSet(b \cup {h})
    BY <2>1, FS_AddElement
  <2>3. h \notin b /\ \A g \in b \cup {h} : sizes[g] \in Nat
    OBVIOUS
  <2>4. SumFunctionOnSet(sizes, b \cup {h}) = SumFunctionOnSet(sizes, b) + sizes[h]
    BY <2>1, <2>3, SumAddsOne
  <2>5. SumFunctionOnSet(sizes, b) \in Nat
    BY <2>1, <2>3, SumNat
  <2> QED
    BY <2>1, <2>2, <2>4, <2>5
<1>3. sum(b) + sizes[h] <= Threshold /\ Threshold \in Nat
  BY GroupingAssumption
<1>4. \A i \in DOMAIN old : /\ old[i] \subseteq docs /\ IsFiniteSet(old[i]) /\ old[i] # {}
                            /\ sum(old[i]) <= Threshold \/ Cardinality(old[i]) = 1
                            /\ i < n + 1 => sum(old[i]) + sum(old[i + 1]) > Threshold
                            /\ sum(old[i]) \in Nat
  <2> SUFFICES ASSUME NEW i \in DOMAIN old
               PROVE  /\ old[i] \subseteq docs /\ IsFiniteSet(old[i]) /\ old[i] # {}
                      /\ sum(old[i]) <= Threshold \/ Cardinality(old[i]) = 1
                      /\ i < n + 1 => sum(old[i]) + sum(old[i + 1]) > Threshold
                      /\ sum(old[i]) \in Nat
    OBVIOUS
  <2> HIDE DEF old
  <2>1. /\ old[i] \subseteq docs /\ IsFiniteSet(old[i]) /\ old[i] # {}
        /\ sum(old[i]) <= Threshold \/ Cardinality(old[i]) = 1
        /\ i < n + 1 => sum(old[i]) + sum(old[i + 1]) > Threshold
    BY <1>1 DEF Cut, old
  <2>2. \A g \in old[i] : sizes[g] \in Nat
    BY <2>1
  <2>3. sum(old[i]) \in Nat
    BY <2>1, <2>2, SumNat
  <2> QED
    BY <2>1, <2>3
<1>5. \A g \in docs : \E i \in DOMAIN old : g \in old[i] /\ \A j \in DOMAIN old \ {i} : g \notin old[j]
  BY DEF Cut
<1> HIDE DEF new, old, n, sum
<1>6. ASSUME NEW g \in docs \cup {h}
      PROVE  \E i \in DOMAIN new : g \in new[i] /\ \A j \in DOMAIN new \ {i} : g \notin new[j]
  <2>0. \A j \in 1..(n + 1) : j \in 1..n \/ j = n + 1
    BY <1>1
  <2>1. CASE g = h
    <3>1. \A j \in DOMAIN new \ {n + 1} : h \notin new[j]
      BY <1>1, <2>0
    <3> QED
      BY <1>1, <2>1, <3>1
  <2>2. CASE g # h
    <3>1. PICK i \in DOMAIN old : g \in old[i] /\ \A j \in DOMAIN old \ {i} : g \notin old[j]
      BY <1>5, <2>2
    <3>2. \A j \in DOMAIN old : g \in new[j] <=> g \in old[j]
      BY <1>1, <2>0, <2>2
    <3> QED
      BY <1>1, <3>1, <3>2
  <2> QED
    BY <2>1, <2>2
<1>7. ASSUME NEW i \in DOMAIN new
      PROVE  /\ new[i] \subseteq docs \cup {h} /\ IsFiniteSet(new[i]) /\ new[i] # {}
             /\ sum(new[i]) <= Threshold \/ Cardinality(new[i]) = 1
             /\ i < Len(new) => sum(new[i]) + sum(new[i + 1]) > Threshold
  <2>1. CASE i = n + 1
    <3>1. ~ (i < Len(new)) /\ b \cup {h} # {} /\ b \cup {h} \subseteq docs \cup {h}
      BY <1>1, <2>1
    <3> QED
      BY <1>1, <1>2, <1>3, <2>1, <3>1
  <2>2. CASE i \in 1..n
    <3>1. /\ new[i] = old[i] /\ i \in DOMAIN old /\ i + 1 \in DOMAIN old /\ i < n + 1
          /\ sum(old[i]) \in Nat /\ sum(old[i + 1]) \in Nat
      BY <1>1, <1>4, <2>2
    <3>2. sum(old[i]) + sum(old[i + 1]) > Threshold
      BY <1>4, <3>1
    <3>3. sum(new[i + 1]) >= sum(old[i + 1]) /\ sum(new[i + 1]) \in Nat
      <4>1. CASE i = n
        <5>1. new[i + 1] = b \cup {h} /\ old[i + 1] = b
          BY <1>1, <4>1
        <5>2. sum(new[i + 1]) = sum(b) + sizes[h] /\ sum(old[i + 1]) = sum(b)
          BY <1>2, <5>1
        <5> QED
          BY <1>2, <5>2
      <4>2. CASE i # n
        <5>1. i + 1 \in 1..n
          BY <1>1, <2>2, <4>2
        <5>2. sum(new[i + 1]) = sum(old[i + 1])
          BY <1>1, <5>1
        <5> QED
          BY <3>1, <5>2
      <4> QED
        BY <4>1, <4>2
    <3>4. sum(new[i]) + sum(new[i + 1]) > Threshold
      BY <1>3, <3>1, <3>2, <3>3
    <3> QED
      BY <1>4, <3>1, <3>4
  <2> QED
    BY <1>1, <2>1, <2>2
<1> QED
  BY <1>6, <1>7 DEF Cut, new, sum

LEMMA SizeTypes ==
  ASSUME TypeInv
  PROVE  Sizes \in [Documents -> Nat]
<1>1. /\ input \in Input /\ DOMAIN transactions \subseteq Txs /\ rewardsTxs \subseteq Rewards
      /\ \A h \in DOMAIN transactions : transactions[h] \in Tx
  BY DEF TypeInv, OutcomeInv, AttachInv, GroupTypes, GroupedTypes
<1>2. ASSUME NEW h \in Documents PROVE SizeOf(h) \in Nat
  <2>1. input.size[h] \in Nat /\ (h \in Txs => h \in DOMAIN transactions)
    BY <1>1, GroupingAssumption DEF Documents, Input, Hashes
  <2>2. CASE h \in Txs
    <3>1. \A s \in Scrs : transactions[h].results[s] \in Nat
      BY <1>1, <2>1, <2>2 DEF Tx
    <3>2. SumFunctionOnSet(transactions[h].results, Scrs) \in Nat
      BY <3>1, SumNat, GroupingAssumption
    <3> QED
      BY <2>1, <2>2, <3>2 DEF SizeOf
  <2>3. CASE h \notin Txs
    BY <2>1, <2>3 DEF SizeOf
  <2> QED
    BY <2>2, <2>3
<1> QED
  BY <1>2 DEF Sizes

\* Cut, in the terms of the buffers that are handed over.
LEMMA CutIsComplete ==
  ASSUME Cut(Sizes, buffSlice, Documents)
  PROVE  BuffersComplete
<1>1. \A docs : SizeOfBuffer(docs) = SumFunctionOnSet(Sizes, docs)
  BY Zenon DEF SizeOfBuffer, Sizes
<1> QED
  BY <1>1 DEF Cut, BuffersComplete

LEMMA SerializeCuts ==
  ASSUME BuffersInv, NEW h, Serialize(h), UNCHANGED <<Documents, Sizes>>
  PROVE  Cut(Sizes, Buffers, serialized)' /\ buff' # {}
<1>1. /\ Cut(Sizes, Buffers, serialized) /\ (buff = {} => buffSlice = <<>>)
      /\ Sizes \in [Documents -> Nat] /\ serialized \in SUBSET Documents
      /\ buff \in SUBSET serialized /\ buffSlice \in Seq(SUBSET serialized)
      /\ h \in Documents \ serialized /\ Threshold \in Nat
  BY SizeTypes, GroupingAssumption DEF BuffersInv, TypeInv, BufferTypes, Serialize
<1>2. /\ buffSlice' = IF TooLong(h) THEN Append(buffSlice, buff) ELSE buffSlice
      /\ buff' = (IF TooLong(h) THEN {} ELSE buff) \cup {h}
      /\ serialized' = serialized \cup {h} /\ Sizes' = Sizes
  BY DEF Serialize
<1>3. buff' # {} /\ Buffers' = Append(buffSlice', buff')
  BY <1>2 DEF Buffers
<1>4. TooLong(h) <=> SumFunctionOnSet(Sizes, buff) + Sizes[h] > Threshold /\ buff # {}
  <2>1. SizeOfBuffer(buff) = SumFunctionOnSet(Sizes, buff)
    BY Zenon DEF SizeOfBuffer, Sizes
  <2>2. SizeOf(h) = Sizes[h]
    BY <1>1 DEF Sizes
  <2> QED
    BY <2>1, <2>2 DEF TooLong
<1>5. CASE buff = {} \/ TooLong(h)
  <2>1. Buffers' = Append(Buffers, {h}) /\ Buffers \in Seq(SUBSET serialized)
    BY <1>1, <1>2, <1>3, <1>4, <1>5 DEF Buffers
  <2>2. Buffers # <<>> => SumFunctionOnSet(Sizes, Buffers[Len(Buffers)]) + Sizes[h] > Threshold
    <3>1. CASE buff # {}
      <4>1. Buffers[Len(Buffers)] = buff
        BY <1>1, <3>1 DEF Buffers
      <4> QED
        BY <1>4, <1>5, <3>1, <4>1
    <3> QED
      BY <1>1, <3>1 DEF Buffers
  <2>3. Cut(Sizes, Append(Buffers, {h}), serialized \cup {h})
    BY <1>1, <2>1, <2>2, BeginsBuffer
  <2> QED
    BY <1>2, <1>3, <2>1, <2>3
<1>6. CASE buff # {} /\ ~ TooLong(h)
  <2>1. Buffers = Append(buffSlice, buff) /\ Buffers' = Append(buffSlice, buff \cup {h})
    BY <1>2, <1>3, <1>6 DEF Buffers
  <2>2. SumFunctionOnSet(Sizes, buff) + Sizes[h] <= Threshold
    <3>1. IsFiniteSet(buff)
      <4>1. Len(Buffers) \in DOMAIN Buffers /\ Buffers[Len(Buffers)] = buff
        BY <1>1, <2>1
      <4> QED
        BY <1>1, <4>1 DEF Cut
    <3>2. \A g \in buff : Sizes[g] \in Nat
      BY <1>1
    <3>3. SumFunctionOnSet(Sizes, buff) \in Nat /\ Sizes[h] \in Nat
      BY <1>1, <3>1, <3>2, SumNat
    <3> QED
      BY <1>1, <1>4, <1>6, <3>3
  <2>3. Cut(Sizes, Append(buffSlice, buff), serialized)
    BY <1>1, <2>1
  <2>4. Cut(Sizes, Append(buffSlice, buff \cup {h}), serialized \cup {h})
    BY <1>1, <1>6, <2>2, <2>3, FillsBuffer
  <2> QED
    BY <1>2, <1>3, <2>1, <2>4
<1> QED
  BY <1>5, <1>6

LEMMA NextBuffers == BuffersInv /\ [Next]_vars => BuffersInv'
<1> SUFFICES ASSUME BuffersInv, [Next]_vars PROVE BuffersInv'
  OBVIOUS
<1> USE DEF groupVars, scrVars, bufferVars
<1>1. TypeInv /\ TypeInv' /\ step \in {"group", "attach", "serialize", "done"}
  BY NextTypes DEF BuffersInv, TypeInv, OutcomeInv, AttachInv, GroupTypes
<1>2. ASSUME UNCHANGED bufferVars, step \in {"group", "attach"}, step' \in {"group", "attach"}
      PROVE  BuffersInv'
  BY <1>1, <1>2 DEF BuffersInv, BuffersComplete
<1>3. ASSUME UNCHANGED <<input, transactions, rewardsTxs>>
      PROVE  UNCHANGED <<Documents, Sizes>>
  BY <1>3 DEF Documents, Sizes, SizeOf
<1>4. CASE GroupMiniblock
  BY <1>2, <1>4 DEF GroupMiniblock
<1>5. CASE GroupResults
  BY <1>2, <1>5 DEF GroupResults
<1>6. ASSUME NEW s \in Scrs, AttachResult(s) PROVE BuffersInv'
  BY <1>2, <1>6 DEF AttachResult
<1>7. CASE Settle
  <2>1. /\ step = "attach" /\ step' = "serialize" /\ UNCHANGED bufferVars
        /\ serialized = {} /\ buff = {} /\ buffSlice = <<>>
    BY <1>7 DEF Settle, BuffersInv
  <2>2. Buffers' = <<>> /\ serialized' = {}
    BY <2>1 DEF Buffers
  <2>3. Cut(Sizes, Buffers, serialized)'
    BY <2>2 DEF Cut
  <2> QED
    BY <1>1, <2>1, <2>3 DEF BuffersInv, BuffersComplete
<1>8. ASSUME NEW h \in Hashes, Serialize(h) PROVE BuffersInv'
  <2>1. step = "serialize" /\ step' = "serialize" /\ UNCHANGED <<Documents, Sizes>>
    BY <1>3, <1>8 DEF Serialize
  <2>2. Cut(Sizes, Buffers, serialized)' /\ buff' # {}
    BY <1>8, <2>1, SerializeCuts
  <2> QED
    BY <1>1, <2>1, <2>2 DEF BuffersInv, BuffersComplete
<1>9. CASE LastBuffer
  <2>1. /\ step = "serialize" /\ step' = "done" /\ serialized = Documents
        /\ buffSlice' = Buffers /\ UNCHANGED <<Documents, Sizes>>
    BY <1>3, <1>9 DEF LastBuffer, Buffers
  <2>2. Cut(Sizes, buffSlice, Documents)'
    BY <2>1 DEF BuffersInv
  <2>3. BuffersComplete'
    BY <2>2, CutIsComplete, PTL
  <2> QED
    BY <1>1, <2>1, <2>3 DEF BuffersInv
<1>10. CASE UNCHANGED vars
  <2>1. UNCHANGED <<Documents, Sizes, Buffers, bufferVars, step>>
    BY <1>3, <1>10 DEF vars, Buffers
  <2>2. BuffersComplete'
    BY <1>10, <2>1 DEF BuffersInv, BuffersComplete, SizeOfBuffer, SizeOf, Documents, vars
  <2> QED
    BY <1>1, <2>1, <2>2 DEF BuffersInv
<1> QED
  BY <1>4, <1>5, <1>6, <1>7, <1>8, <1>9, <1>10 DEF Next

\* The buffers handed over hold every document of the block once, none is empty or
\* above the threshold unless it has one document, and no two neighbours would
\* have fitted in one: for all sizes and thresholds, in every order of the maps.
THEOREM BuffersAreComplete == Spec => []BuffersComplete
<1>1. Init => BuffersInv
  <2> SUFFICES ASSUME Init PROVE BuffersInv
    OBVIOUS
  <2>1. step = "group" /\ serialized = {} /\ buff = {} /\ buffSlice = <<>>
    BY DEF Init
  <2> QED
    BY <2>1, InitTypes DEF BuffersInv, BuffersComplete
<1>2. BuffersInv => BuffersComplete
  BY DEF BuffersInv
<1> QED
  BY <1>1, <1>2, NextBuffers, PTL DEF Spec
=============================================================================
