----------------------- MODULE BlockSearchOrderProofs -----------------------
(***************************************************************************)
(* Search orders at every width.  The digits of a number are defined by    *)
(* recursion; that such a function exists, and what it returns, is shown   *)
(* by taking the least number that would refute it.                        *)
(***************************************************************************)
EXTENDS BlockSearchOrder, WellFoundedInduction, TLAPS

LEMMA LeastNat ==
  ASSUME NEW T \in SUBSET Nat, T # {}
  PROVE  \E n \in T : \A m \in T : n <= m
<1>1. IsWellFoundedOn(OpToRel(<, Nat), Nat)
  BY NatLessThanWellFounded
<1>2. PICK n \in T : \A m \in T : <<m, n>> \notin OpToRel(<, Nat)
  BY <1>1, WFMin, Zenon
<1>3. ASSUME NEW m \in T, ~ (n <= m) PROVE FALSE
  <2>1. m \in Nat /\ n \in Nat /\ m < n
    BY <1>3
  <2>2. <<m, n>> \in Nat \X Nat /\ <<m, n>>[1] < <<m, n>>[2]
    BY <2>1
  <2>3. <<m, n>> \in {ss \in Nat \X Nat : ss[1] < ss[2]}
    BY <2>2, SMT
  <2>4. <<m, n>> \in OpToRel(<, Nat)
    BY <2>3 DEF OpToRel
  <2> QED
    BY <1>2, <2>4
<1> QED
  BY <1>3

LEMMA TenthIsLess ==
  ASSUME NEW n \in Nat, n >= 10
  PROVE  n \div 10 \in Nat /\ n \div 10 < n /\ n \div 10 >= 1
OBVIOUS

\* PowerAbove, up to N.
PowersUpTo(g, N) == g = [n \in 0..N |-> IF n < 10 THEN 10 ELSE 10 * g[n \div 10]]

LEMMA PowersAgree ==
  ASSUME NEW N \in Nat, NEW M \in 0..N,
         NEW g, PowersUpTo(g, N), NEW h, PowersUpTo(h, M), NEW n \in 0..M
  PROVE  g[n] = h[n]
<1> DEFINE C == {k \in 0..M : g[k] # h[k]}
<1> SUFFICES ASSUME C # {} PROVE FALSE
  OBVIOUS
<1>1. PICK k \in C : \A m \in C : k <= m
  <2>1. C \in SUBSET Nat
    OBVIOUS
  <2> HIDE DEF C
  <2> QED
    BY <2>1, LeastNat
<1>2. k \in 0..M /\ k \in 0..N /\ k \in Nat /\ g[k] # h[k]
  OBVIOUS
<1>3. g[k] = IF k < 10 THEN 10 ELSE 10 * g[k \div 10]
  BY <1>2 DEF PowersUpTo
<1>4. h[k] = IF k < 10 THEN 10 ELSE 10 * h[k \div 10]
  BY <1>2 DEF PowersUpTo
<1>5. ~ (k < 10)
  BY <1>2, <1>3, <1>4
<1>6. k \div 10 \in 0..M /\ ~ (k <= k \div 10)
  BY <1>2, <1>5, TenthIsLess
<1>7. g[k \div 10] = h[k \div 10]
  BY <1>1, <1>6
<1> QED
  BY <1>2, <1>3, <1>4, <1>7

LEMMA PowersExist ==
  ASSUME NEW N \in Nat
  PROVE  \E g : PowersUpTo(g, N)
<1> DEFINE C == {n \in Nat : ~ \E g : PowersUpTo(g, n)}
<1> SUFFICES ASSUME C # {} PROVE FALSE
  BY Zenon
<1>1. PICK n \in C : \A m \in C : n <= m
  <2>1. C \in SUBSET Nat
    OBVIOUS
  <2> HIDE DEF C
  <2> QED
    BY <2>1, LeastNat
<1> DEFINE below(k) == CHOOSE g : PowersUpTo(g, k)
           all == [k \in 0..n |-> IF k < 10 THEN 10 ELSE 10 * below(k \div 10)[k \div 10]]
<1>2. n \in Nat /\ ~ \E g : PowersUpTo(g, n)
  OBVIOUS
<1>3. ASSUME NEW k \in Nat, k < n PROVE PowersUpTo(below(k), k)
  <2>1. k \notin C
    BY <1>1, <1>2, <1>3
  <2>2. \E g : PowersUpTo(g, k)
    BY <2>1, Zenon
  <2> QED
    BY <2>2, Zenon
<1> HIDE DEF C, below
<1>4. ASSUME NEW k \in Nat, k < n PROVE all[k] = below(k)[k]
  <2>1. below(k)[k] = IF k < 10 THEN 10 ELSE 10 * below(k)[k \div 10]
    <3>1. k \in 0..k
      OBVIOUS
    <3> QED
      BY <1>3, <1>4, <3>1 DEF PowersUpTo
  <2>2. all[k] = IF k < 10 THEN 10 ELSE 10 * below(k \div 10)[k \div 10]
    BY <1>2, <1>4
  <2> HIDE DEF all
  <2>3. ASSUME k >= 10 PROVE below(k)[k \div 10] = below(k \div 10)[k \div 10]
    <3> DEFINE t == k \div 10
    <3>1. t \in 0..k /\ t \in Nat /\ t < n /\ t \in 0..t
      BY <1>2, <1>4, <2>3, TenthIsLess
    <3>2. PowersUpTo(below(k), k) /\ PowersUpTo(below(t), t)
      BY <1>3, <1>4, <3>1
    <3> HIDE DEF t
    <3>3. below(k)[t] = below(t)[t]
      BY <3>1, <3>2, PowersAgree
    <3> QED
      BY <3>3 DEF t
  <2> QED
    BY <2>1, <2>2, <2>3
<1>5. ASSUME NEW k \in 0..n
      PROVE  all[k] = IF k < 10 THEN 10 ELSE 10 * all[k \div 10]
  <2>1. ASSUME k >= 10 PROVE all[k \div 10] = below(k \div 10)[k \div 10]
    <3>1. k \div 10 \in Nat /\ k \div 10 < n
      BY <1>2, <2>1, TenthIsLess
    <3> HIDE DEF all
    <3> QED
      BY <1>4, <3>1
  <2>2. all[k] = IF k < 10 THEN 10 ELSE 10 * below(k \div 10)[k \div 10]
    OBVIOUS
  <2> HIDE DEF all
  <2> QED
    BY <1>2, <2>1, <2>2
<1>6. all = [k \in 0..n |-> all[k]]
  OBVIOUS
<1> HIDE DEF all
<1>7. all = [k \in 0..n |-> IF k < 10 THEN 10 ELSE 10 * all[k \div 10]]
  BY <1>5, <1>6
<1> QED
  BY <1>2, <1>7 DEF PowersUpTo

\* The recursive definition, as one equation.
LEMMA PowerUnfolds ==
  ASSUME NEW n \in Nat
  PROVE  PowerAbove[n] = IF n < 10 THEN 10 ELSE 10 * PowerAbove[n \div 10]
<1> DEFINE below(k) == CHOOSE g : PowersUpTo(g, k)
           all == [k \in Nat |-> below(k)[k]]
<1>1. ASSUME NEW k \in Nat PROVE PowersUpTo(below(k), k)
  BY PowersExist, Zenon
<1> HIDE DEF below
<1>2. ASSUME NEW k \in Nat
      PROVE  all[k] = IF k < 10 THEN 10 ELSE 10 * all[k \div 10]
  <2>1. all[k] = IF k < 10 THEN 10 ELSE 10 * below(k)[k \div 10]
    <3>1. k \in 0..k
      OBVIOUS
    <3> QED
      BY <1>1, <3>1 DEF PowersUpTo
  <2>2. ASSUME k >= 10 PROVE below(k)[k \div 10] = all[k \div 10]
    <3> DEFINE t == k \div 10
    <3>1. t \in 0..k /\ t \in Nat /\ t \in 0..t
      BY <2>2, TenthIsLess
    <3> HIDE DEF t
    <3>2. below(k)[t] = below(t)[t]
      BY <1>1, <3>1, PowersAgree
    <3>3. all[t] = below(t)[t]
      BY <3>1
    <3> HIDE DEF all
    <3> QED
      BY <3>2, <3>3 DEF t
  <2> HIDE DEF all
  <2> QED
    BY <2>1, <2>2
<1>3. all = [k \in Nat |-> all[k]]
  OBVIOUS
<1> HIDE DEF all
<1>4. all = [k \in Nat |-> IF k < 10 THEN 10 ELSE 10 * all[k \div 10]]
  BY <1>2, <1>3
<1>5. PowerAbove = CHOOSE g : g = [k \in Nat |-> IF k < 10 THEN 10 ELSE 10 * g[k \div 10]]
  BY DEF PowerAbove
<1>6. PowerAbove = [k \in Nat |-> IF k < 10 THEN 10 ELSE 10 * PowerAbove[k \div 10]]
  BY <1>4, <1>5, Zenon
<1> QED
  BY <1>6, Zenon
\* A number has fewer digits than the power above it.
LEMMA PowerFacts ==
  \A n \in Nat : PowerAbove[n] \in Nat /\ n < PowerAbove[n] /\ PowerAbove[n] >= 10
<1> DEFINE Right(n) == PowerAbove[n] \in Nat /\ n < PowerAbove[n] /\ PowerAbove[n] >= 10
           C == {n \in Nat : ~ Right(n)}
<1> SUFFICES ASSUME C # {} PROVE FALSE
  OBVIOUS
<1>1. PICK n \in C : \A m \in C : n <= m
  <2>1. C \in SUBSET Nat
    OBVIOUS
  <2> HIDE DEF C
  <2> QED
    BY <2>1, LeastNat
<1>2. n \in Nat /\ ~ Right(n)
  OBVIOUS
<1>3. PowerAbove[n] = IF n < 10 THEN 10 ELSE 10 * PowerAbove[n \div 10]
  BY <1>2, PowerUnfolds
<1>4. CASE n >= 10
  <2>1. n \div 10 \in Nat /\ n \div 10 < n
    BY <1>2, <1>4, TenthIsLess
  <2>2. n \div 10 \notin C
    BY <1>1, <1>2, <2>1
  <2>3. Right(n \div 10)
    BY <2>1, <2>2
  <2>4. n < 10 * (n \div 10) + 10
    BY <1>2
  <2> QED
    BY <1>2, <1>3, <1>4, <2>1, <2>3, <2>4
<1> QED
  BY <1>2, <1>3, <1>4

\* Powers above are the same or far apart.
LEMMA PowersApart ==
  ASSUME NEW m \in Nat, NEW n \in Nat, m <= n
  PROVE  PowerAbove[m] = PowerAbove[n] \/ 10 * PowerAbove[m] <= PowerAbove[n]
<1> DEFINE Right(k, l) == PowerAbove[k] = PowerAbove[l] \/ 10 * PowerAbove[k] <= PowerAbove[l]
           C == {l \in Nat : \E k \in 0..l : ~ Right(k, l)}
<1> SUFFICES ASSUME C # {} PROVE FALSE
  OBVIOUS
<1>1. PICK l \in C : \A i \in C : l <= i
  <2>1. C \in SUBSET Nat
    OBVIOUS
  <2> HIDE DEF C
  <2> QED
    BY <2>1, LeastNat
<1>2. PICK k \in 0..l : ~ Right(k, l)
  OBVIOUS
<1>3. k \in Nat /\ l \in Nat /\ k <= l
  OBVIOUS
<1>4. /\ PowerAbove[k] = IF k < 10 THEN 10 ELSE 10 * PowerAbove[k \div 10]
      /\ PowerAbove[l] = IF l < 10 THEN 10 ELSE 10 * PowerAbove[l \div 10]
  BY <1>3, PowerUnfolds
<1>5. CASE k < 10 /\ l >= 10
  <2>1. PowerAbove[l \div 10] \in Nat /\ PowerAbove[l \div 10] >= 10
    BY <1>3, <1>5, TenthIsLess, PowerFacts
  <2> QED
    BY <1>2, <1>4, <1>3, <1>5, <2>1
<1>6. CASE k >= 10
  <2>1. /\ k \div 10 \in Nat /\ l \div 10 \in Nat /\ l \div 10 < l
        /\ k \div 10 \in 0..(l \div 10)
    BY <1>3, <1>6, TenthIsLess
  <2>2. l \div 10 \notin C
    BY <1>1, <1>3, <2>1
  <2>3. Right(k \div 10, l \div 10)
    BY <2>1, <2>2
  <2>4. PowerAbove[k \div 10] \in Nat /\ PowerAbove[l \div 10] \in Nat
    BY <2>1, PowerFacts
  <2> QED
    BY <1>2, <1>3, <1>4, <1>6, <2>3, <2>4
<1> QED
  BY <1>2, <1>3, <1>4, <1>5, <1>6

-----------------------------------------------------------------------------
(* The orders. *)

\* The digits before the nonce.
Prefix(shard) == 100 + createShardIdentifier(shard)

LEMMA Multiply ==
  ASSUME NEW a \in Nat, NEW b \in Nat, NEW p \in Nat, NEW q \in Nat
  PROVE  /\ a * p \in Nat /\ (a + 1) * p = a * p + p
         /\ a <= b => a * p <= b * p
         /\ p <= q => a * p <= a * q
OBVIOUS

LEMMA ShardDigits ==
  ASSUME WidthsFit, NEW shard \in Network
  PROVE  /\ Prefix(shard) \in 101..(MaxShard + 102)
         /\ Prefix(shard) \in Nat
         /\ Concatenated(1, createShardIdentifier(shard), 100) = Prefix(shard)
         /\ \A other \in Network : Prefix(other) = Prefix(shard) => other = shard
<1> DEFINE id(s) == createShardIdentifier(s)
<1>1. ASSUME NEW s \in Network
      PROVE  id(s) = (IF s = MetachainShardId THEN 1 ELSE s + 2) /\ id(s) \in 1..(MaxShard + 2)
             /\ s \in Nat
  <2>1. CASE s = MetachainShardId
    BY <2>1 DEF createShardIdentifier, WidthsFit
  <2>2. CASE s # MetachainShardId
    <3>1. s \in 0..MaxShard /\ s + 2 \in Nat /\ s + 2 < MetachainShardId + 1
      BY <2>2 DEF Network, WidthsFit
    <3>2. (s + 2) % (MetachainShardId + 1) = s + 2
      <4>1. ASSUME NEW x \in Nat, NEW y \in Nat, x < y PROVE x % y = x
        BY <4>1
      <4> QED
        BY <3>1, <4>1 DEF WidthsFit
    <3> QED
      BY <2>2, <3>1, <3>2 DEF createShardIdentifier, WidthsFit
  <2> QED
    BY <2>1, <2>2
<1>2. PowerAbove[id(shard)] <= 100 /\ PowerAbove[id(shard)] \in Nat
  <2>1. id(shard) \in Nat /\ id(shard) <= 99 /\ id(shard) \div 10 \in Nat /\ id(shard) \div 10 < 10
    BY <1>1 DEF WidthsFit
  <2> HIDE DEF id
  <2>2. PowerAbove[id(shard) \div 10] = 10
    BY <2>1, PowerUnfolds
  <2> QED
    BY <2>1, <2>2, PowerUnfolds
<1> HIDE DEF id
<1>3. Concatenated(1, id(shard), 100) = 100 + id(shard)
  BY <1>1, <1>2 DEF Concatenated
<1>4. ASSUME NEW other \in Network, id(other) = id(shard) PROVE other = shard
  BY <1>1, <1>4
<1>5. \A s \in Network : id(s) \in Nat /\ Prefix(s) = 100 + id(s)
  BY <1>1 DEF Prefix, id
<1>6. \A other \in Network : Prefix(other) = Prefix(shard) => other = shard
  BY <1>4, <1>5
<1> QED
  BY <1>1, <1>3, <1>5, <1>6 DEF WidthsFit, id

\* An order is its prefix followed by its nonce, never cut to 0.
LEMMA OrderFacts ==
  ASSUME WidthsFit, NEW shard \in Network, NEW nonce \in Nonces
  PROVE  computeBlockSearchOrder(shard, nonce) = Prefix(shard) * PowerAbove[nonce] + nonce
<1> DEFINE order == Prefix(shard) * PowerAbove[nonce] + nonce
<1>1. /\ nonce \in Nat /\ nonce <= MaxNonce /\ MaxNonce \in Nat /\ MaxShard + 102 \in Nat
      /\ PowerAbove[nonce] \in Nat /\ PowerAbove[nonce] >= 10 /\ PowerAbove[MaxNonce] \in Nat
      /\ Prefix(shard) \in Nat /\ Prefix(shard) <= MaxShard + 102
  BY PowerFacts, ShardDigits DEF Nonces, WidthsFit
<1>2. PowerAbove[nonce] <= PowerAbove[MaxNonce]
  BY <1>1, PowersApart
<1>3. order <= MaxUint64
  <2>1. Prefix(shard) * PowerAbove[nonce] <= Prefix(shard) * PowerAbove[MaxNonce]
    BY <1>1, <1>2, Multiply
  <2>2. Prefix(shard) * PowerAbove[MaxNonce] <= (MaxShard + 102) * PowerAbove[MaxNonce]
    BY <1>1, Multiply
  <2>3. /\ Prefix(shard) * PowerAbove[nonce] \in Nat
        /\ Prefix(shard) * PowerAbove[MaxNonce] \in Nat
        /\ (MaxShard + 102) * PowerAbove[MaxNonce] \in Nat
    BY <1>1, Multiply
  <2> QED
    BY <1>1, <2>1, <2>2, <2>3 DEF WidthsFit
<1>4. Concatenated(Prefix(shard), nonce, 10) = order
  BY <1>1 DEF Concatenated
<1>5. ~ (order > MaxUint64)
  <2>1. order \in Nat
    BY <1>1, Multiply
  <2> HIDE DEF order
  <2> QED
    BY <1>3, <2>1 DEF WidthsFit
<1> HIDE DEF order
<1>6. computeBlockSearchOrder(shard, nonce) = IF order > MaxUint64 THEN 0 ELSE order
  BY <1>4, ShardDigits, Zenon DEF computeBlockSearchOrder
<1> QED
  BY <1>5, <1>6 DEF order

\* The digits of prefix and nonce can be told apart.
LEMMA OrdersDiffer ==
  ASSUME NEW a \in 101..199, NEW b \in 101..199, NEW m \in Nat, NEW n \in Nat, m <= n,
         a * PowerAbove[m] + m = b * PowerAbove[n] + n
  PROVE  a = b /\ m = n
<1> DEFINE p == PowerAbove[m]
           q == PowerAbove[n]
<1>1. /\ p \in Nat /\ q \in Nat /\ p >= 10 /\ m < p /\ n < q /\ a \in Nat /\ b \in Nat
      /\ p = q \/ 10 * p <= q
      /\ a * p + m = b * q + n
  BY PowerFacts, PowersApart
<1> HIDE DEF p, q
<1>2. a * p \in Nat /\ b * q \in Nat /\ b * p \in Nat
  BY <1>1, Multiply
<1>3. CASE 10 * p <= q
  <2>1. a * p <= 199 * p /\ 101 * q <= b * q
    BY <1>1, Multiply
  <2> QED
    BY <1>1, <1>2, <1>3, <2>1
<1>4. CASE p = q
  <2>1. ~ (a < b)
    <3>1. ASSUME a + 1 <= b PROVE FALSE
      <4>1. a * p + p <= b * p
        BY <1>1, <3>1, Multiply
      <4> QED
        BY <1>1, <1>2, <1>4, <4>1
    <3> QED
      BY <1>1, <3>1
  <2>2. ~ (b < a)
    <3>1. ASSUME b + 1 <= a PROVE FALSE
      <4>1. b * p + p <= a * p
        BY <1>1, <3>1, Multiply
      <4> QED
        BY <1>1, <1>2, <1>4, <4>1
    <3> QED
      BY <1>1, <3>1
  <2>3. a = b
    BY <1>1, <2>1, <2>2
  <2> QED
    BY <1>1, <1>2, <1>4, <2>3
<1> QED
  BY <1>1, <1>3, <1>4

\* Two blocks have the same order only if they are of one shard and one nonce.
LEMMA OrdersAreUnique ==
  ASSUME WidthsFit, NEW s \in Network, NEW t \in Network, NEW m \in Nonces, NEW n \in Nonces,
         computeBlockSearchOrder(s, m) = computeBlockSearchOrder(t, n)
  PROVE  s = t /\ m = n
<1>1. /\ Prefix(s) \in 101..199 /\ Prefix(t) \in 101..199 /\ m \in Nat /\ n \in Nat
      /\ Prefix(s) = Prefix(t) => s = t
  BY ShardDigits DEF WidthsFit, Nonces
<1>2. Prefix(s) * PowerAbove[m] + m = Prefix(t) * PowerAbove[n] + n
  BY OrderFacts
<1> DEFINE a == Prefix(s)
           b == Prefix(t)
<1> HIDE DEF a, b
<1>3. CASE m <= n
  <2>1. a \in 101..199 /\ b \in 101..199 /\ a * PowerAbove[m] + m = b * PowerAbove[n] + n
    BY <1>1, <1>2 DEF a, b
  <2>2. a = b /\ m = n
    BY <1>1, <1>3, <2>1, OrdersDiffer
  <2> QED
    BY <1>1, <2>2 DEF a, b
<1>4. CASE n <= m
  <2>1. a \in 101..199 /\ b \in 101..199 /\ b * PowerAbove[n] + n = a * PowerAbove[m] + m
    BY <1>1, <1>2 DEF a, b
  <2>2. b = a /\ n = m
    BY <1>1, <1>4, <2>1, OrdersDiffer
  <2> QED
    BY <1>1, <2>2 DEF a, b
<1> QED
  BY <1>1, <1>3, <1>4

\* No order falls back to 0, no two blocks of the network have the same, and
\* within a shard the order grows with the nonce.
OrdersTellBlocksApart ==
  \A s, t \in Network, m, n \in Nonces :
    LET order == computeBlockSearchOrder(s, m)
    IN /\ order > 0
       /\ order = computeBlockSearchOrder(t, n) => s = t /\ m = n
       /\ m < n => order < computeBlockSearchOrder(s, n)

\* Whatever the widths, as long as the shard has two digits and the last order
\* fits: in a shard the order grows with the nonce and is never 0, and no two
\* blocks of the network have the same (computeBlockSearchOrder).
THEOREM OrdersSeparate == WidthsFit => OrdersTellBlocksApart
<1> SUFFICES ASSUME WidthsFit, NEW s \in Network, NEW t \in Network,
                    NEW m \in Nonces, NEW n \in Nonces
             PROVE  /\ computeBlockSearchOrder(s, m) > 0
                    /\ computeBlockSearchOrder(s, m) = computeBlockSearchOrder(t, n) => s = t /\ m = n
                    /\ m < n => computeBlockSearchOrder(s, m) < computeBlockSearchOrder(s, n)
  BY DEF OrdersTellBlocksApart
<1> DEFINE a == Prefix(s)
           p == PowerAbove[m]
           q == PowerAbove[n]
<1>1. /\ a \in Nat /\ a >= 101 /\ m \in Nat /\ n \in Nat
      /\ p \in Nat /\ p >= 10 /\ q \in Nat
      /\ computeBlockSearchOrder(s, m) = a * p + m
      /\ computeBlockSearchOrder(s, n) = a * q + n
  BY ShardDigits, PowerFacts, OrderFacts DEF WidthsFit, Nonces
<1>2. m < n => p <= q
  BY <1>1, PowersApart
<1> HIDE DEF a, p, q
<1>3. 1 * p <= a * p /\ a * p \in Nat /\ a * q \in Nat
  BY <1>1, Multiply
<1>4. m < n => a * p <= a * q
  BY <1>1, <1>2, Multiply
<1> QED
  BY <1>1, <1>3, <1>4, OrdersAreUnique

\* One more digit, one more zero.
LEMMA PowerOfNextDigit ==
  ASSUME NEW n \in Nat, NEW m \in Nat, m = 10 * n + 9, n > 0
  PROVE  PowerAbove[m] = 10 * PowerAbove[n]
<1>1. m \div 10 = n /\ ~ (m < 10)
  OBVIOUS
<1> QED
  BY <1>1, PowerUnfolds

\* The widths of the code: 64 bits have room for the orders of 82 shards and the
\* metachain and of nonces of up to 17 digits.
THEOREM SixtyFourBitsSeparate ==
  ASSUME MetachainShardId = 4294967295, MaxUint64 = 18446744073709551615,
         MaxShard = 81, MaxNonce = 99999999999999999
  PROVE  OrdersTellBlocksApart
<1>1. PowerAbove[9] = 10
  BY PowerUnfolds
<1>2. PowerAbove[99] = 100
  BY <1>1, PowerOfNextDigit
<1>3. PowerAbove[999] = 1000
  BY <1>2, PowerOfNextDigit
<1>4. PowerAbove[9999] = 10000
  BY <1>3, PowerOfNextDigit
<1>5. PowerAbove[99999] = 100000
  BY <1>4, PowerOfNextDigit
<1>6. PowerAbove[999999] = 1000000
  BY <1>5, PowerOfNextDigit
<1>7. PowerAbove[9999999] = 10000000
  BY <1>6, PowerOfNextDigit
<1>8. PowerAbove[99999999] = 100000000
  BY <1>7, PowerOfNextDigit
<1>9. PowerAbove[999999999] = 1000000000
  BY <1>8, PowerOfNextDigit
<1>10. PowerAbove[9999999999] = 10000000000
  BY <1>9, PowerOfNextDigit
<1>11. PowerAbove[99999999999] = 100000000000
  BY <1>10, PowerOfNextDigit
<1>12. PowerAbove[999999999999] = 1000000000000
  BY <1>11, PowerOfNextDigit
<1>13. PowerAbove[9999999999999] = 10000000000000
  BY <1>12, PowerOfNextDigit
<1>14. PowerAbove[99999999999999] = 100000000000000
  BY <1>13, PowerOfNextDigit
<1>15. PowerAbove[999999999999999] = 1000000000000000
  BY <1>14, PowerOfNextDigit
<1>16. PowerAbove[9999999999999999] = 10000000000000000
  BY <1>15, PowerOfNextDigit
<1>17. PowerAbove[99999999999999999] = 100000000000000000
  BY <1>16, PowerOfNextDigit
<1> DEFINE p == PowerAbove[MaxNonce]
<1>18. p \in Nat /\ p <= 100000000000000000
  BY <1>17
<1> HIDE DEF p
\* p is kept a variable: the prover cuts products of literals to machine words.
<1>19. 183 * p + 99999999999999999 <= 18446744073709551615
  BY <1>18, SMT
<1>20. (MaxShard + 102) * p + MaxNonce <= MaxUint64
  <2>1. MaxShard + 102 = 183 /\ MaxNonce = 99999999999999999 /\ MaxUint64 = 18446744073709551615
    BY SMT
  <2> QED
    BY <1>18, <1>19, <2>1, SMT
<1>21. WidthsFit
  BY <1>20, SMT DEF WidthsFit, p
<1> QED
  BY <1>21, OrdersSeparate
=============================================================================
