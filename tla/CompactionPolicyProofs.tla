----------------------- MODULE CompactionPolicyProofs -----------------------
(***************************************************************************)
(* Theorems about CompactionPolicy, for stacks of any length and tables of *)
(* any size: the advice is a run of the stack, it is to do nothing only if *)
(* no neighbours are of one size, and who follows it rewrites an entry     *)
(* only to move it up by a logarithm or to make the stack smaller.         *)
(*                                                                         *)
(* The functions of the module are recursive.  Where one would argue by    *)
(* induction, the proofs here take the least number at which a claim       *)
(* fails, and show that it fails earlier.                                  *)
(***************************************************************************)
EXTENDS CompactionPolicy, SequenceTheorems, WellFoundedInduction, TLAPS

-----------------------------------------------------------------------------
(* Numbers *)

\* A set of numbers has a least one.
LEMMA FirstNumber ==
  ASSUME NEW S \in SUBSET Nat, S # {}
  PROVE  \E i \in S : \A j \in S : i <= j
<1>1. PICK x \in S : \A y \in S : <<y, x>> \notin OpToRel(<, Nat)
  BY NatLessThanWellFounded, WFMin, Zenon
<1>2. ASSUME NEW y \in S PROVE x <= y
  <2>1. ~(y < x)
    BY <1>1, Zenon DEF OpToRel
  <2> QED BY <2>1
<1> QED BY <1>2

\* A bounded set of numbers has a greatest one.
LEMMA LastNumber ==
  ASSUME NEW n \in Nat, NEW S \in SUBSET (0..n), S # {}
  PROVE  \E i \in S : \A j \in S : j <= i
<1> DEFINE T == {n - i : i \in S}
<1>0. ASSUME NEW i \in S PROVE i \in 0..n /\ n - i \in Nat /\ n - i \in T
  OBVIOUS
<1>1. T \in SUBSET Nat /\ T # {}
  BY <1>0
<1>2. PICK k \in T : \A j \in T : k <= j
  BY <1>1, FirstNumber
<1>3. PICK i \in S : k = n - i
  OBVIOUS
<1>4. ASSUME NEW j \in S PROVE j <= i
  <2>1. k <= n - j
    BY <1>2
  <2> QED BY <2>1, <1>3
<1> QED BY <1>4

-----------------------------------------------------------------------------
(* fastlog2 *)

\* The logarithm, defined up to n only.
LogUpTo(g, n) ==
  /\ g \in [0..n -> Nat]
  /\ \A k \in 0..n : g[k] = IF k < 2 THEN 0 ELSE 1 + g[k \div 2]

\* Halving ends: the recursion of fastlog2 has a solution up to every number.
LEMMA LogUpToExists == \A n \in Nat : \E g : LogUpTo(g, n)
<1> DEFINE S == {n \in Nat : ~ \E g : LogUpTo(g, n)}
<1> SUFFICES ASSUME S # {} PROVE FALSE
  OBVIOUS
<1>1. PICK n \in S : \A j \in S : n <= j
  BY FirstNumber
<1>2. n # 0
  <2> DEFINE g == [k \in 0..0 |-> 0]
  <2>1. LogUpTo(g, 0)
    BY DEF LogUpTo
  <2> QED BY <2>1
<1>3. PICK g : LogUpTo(g, n - 1)
  <2>1. n - 1 \in Nat /\ ~(n <= n - 1)
    BY <1>2
  <2>2. n - 1 \notin S
    BY <2>1, <1>1
  <2> QED BY <2>1, <2>2
<1> DEFINE h == [k \in 0..n |-> IF k < n THEN g[k] ELSE IF n < 2 THEN 0 ELSE 1 + g[n \div 2]]
<1>4. \A k \in 2..n : k \div 2 \in 0..(n - 1) /\ k \div 2 < k
  OBVIOUS
<1>5. LogUpTo(h, n)
  <2>1. g \in [0..(n - 1) -> Nat]
       /\ \A k \in 0..(n - 1) : g[k] = IF k < 2 THEN 0 ELSE 1 + g[k \div 2]
    BY <1>3 DEF LogUpTo
  <2>2. h \in [0..n -> Nat]
    <3>1. ASSUME NEW k \in 0..n
          PROVE  (IF k < n THEN g[k] ELSE IF n < 2 THEN 0 ELSE 1 + g[n \div 2]) \in Nat
      <4>1. CASE k < n
        BY <4>1, <2>1
      <4>2. CASE ~(k < n) /\ n < 2
        BY <4>2
      <4>3. CASE ~(k < n) /\ ~(n < 2)
        <5>1. n \in 2..n
          BY <4>3
        <5>2. g[n \div 2] \in Nat
          BY <5>1, <1>4, <2>1
        <5> QED BY <4>3, <5>2
      <4> QED BY <4>1, <4>2, <4>3
    <3> QED BY <3>1
  <2>3. ASSUME NEW k \in 0..n PROVE h[k] = IF k < 2 THEN 0 ELSE 1 + h[k \div 2]
    <3>1. CASE k < 2
      BY <3>1, <2>1, <1>2
    <3>2. CASE ~(k < 2)
      <4>1. k \in 2..n /\ k \div 2 \in 0..(n - 1) /\ k \div 2 < n /\ k \div 2 \in 0..n
        BY <3>2, <1>4
      <4>2. h[k \div 2] = g[k \div 2]
        BY <4>1
      <4>3. CASE k < n
        BY <4>1, <4>2, <4>3, <3>2, <2>1
      <4>4. CASE k = n
        BY <4>1, <4>2, <4>4, <3>2
      <4> QED BY <4>3, <4>4
    <3> QED BY <3>1, <3>2
  <2> QED BY <2>2, <2>3 DEF LogUpTo
<1> QED BY <1>5

\* Two solutions agree where both are defined.
LEMMA LogUpToUnique ==
  ASSUME NEW m \in Nat, NEW n \in Nat, NEW g, NEW h, LogUpTo(g, m), LogUpTo(h, n)
  PROVE  \A k \in 0..m : k <= n => g[k] = h[k]
<1> DEFINE S == {k \in 0..m : k <= n /\ g[k] # h[k]}
<1> SUFFICES ASSUME S # {} PROVE FALSE
  OBVIOUS
<1>0. S \in SUBSET Nat
  OBVIOUS
<1>1. PICK k \in S : \A j \in S : k <= j
  BY <1>0, FirstNumber
<1>2. CASE k < 2
  BY <1>2 DEF LogUpTo
<1>3. CASE ~(k < 2)
  <2>1. k \div 2 \in 0..m /\ k \div 2 <= n /\ ~(k <= k \div 2)
    BY <1>3
  <2>2. g[k \div 2] = h[k \div 2]
    BY <2>1, <1>1
  <2> QED BY <1>3, <2>2 DEF LogUpTo
<1> QED BY <1>2, <1>3

\* fastlog2 is the function its loop computes, for every number.
LEMMA LogIs ==
  /\ fastlog2 \in [Nat -> Nat]
  /\ \A n \in Nat : fastlog2[n] = IF n < 2 THEN 0 ELSE 1 + fastlog2[n \div 2]
<1> DEFINE upTo(n) == CHOOSE g : LogUpTo(g, n)
           f == [n \in Nat |-> upTo(n)[n]]
<1>1. ASSUME NEW n \in Nat PROVE LogUpTo(upTo(n), n)
  BY LogUpToExists
<1> HIDE DEF upTo
<1>2. f \in [Nat -> Nat]
  <2>1. ASSUME NEW n \in Nat PROVE upTo(n)[n] \in Nat
    BY <1>1 DEF LogUpTo
  <2> QED BY <2>1
<1>3. ASSUME NEW n \in Nat PROVE f[n] = IF n < 2 THEN 0 ELSE 1 + f[n \div 2]
  <2>1. upTo(n)[n] = IF n < 2 THEN 0 ELSE 1 + upTo(n)[n \div 2]
    BY <1>1 DEF LogUpTo
  <2>2. CASE n < 2
    BY <2>1, <2>2
  <2>3. CASE ~(n < 2)
    <3>1. n \div 2 \in Nat /\ n \div 2 <= n /\ n \div 2 \in 0..(n \div 2)
      BY <2>3
    <3>2. upTo(n \div 2)[n \div 2] = upTo(n)[n \div 2]
      BY <3>1, <1>1, LogUpToUnique
    <3> QED BY <2>1, <2>3, <3>1, <3>2
  <2> QED BY <2>2, <2>3
<1>4. f = [n \in Nat |-> IF n < 2 THEN 0 ELSE 1 + f[n \div 2]]
  BY <1>3
<1> HIDE DEF f
<1>5. \E g : g = [n \in Nat |-> IF n < 2 THEN 0 ELSE 1 + g[n \div 2]]
  BY <1>4
<1>6. fastlog2 = [n \in Nat |-> IF n < 2 THEN 0 ELSE 1 + fastlog2[n \div 2]]
  BY <1>5 DEF fastlog2
<1>7. ASSUME NEW n \in Nat PROVE fastlog2[n] = IF n < 2 THEN 0 ELSE 1 + fastlog2[n \div 2]
  BY <1>6
<1>8. ASSUME NEW n \in Nat PROVE fastlog2[n] \in Nat
  <2> DEFINE S == {k \in Nat : fastlog2[k] \notin Nat}
  <2>1. ASSUME S # {} PROVE FALSE
    <3>1. PICK k \in S : \A j \in S : k <= j
      BY <2>1, FirstNumber
    <3>2. CASE k < 2
      BY <3>1, <3>2, <1>7
    <3>3. CASE ~(k < 2)
      <4>1. k \div 2 \in Nat /\ ~(k <= k \div 2)
        BY <3>3
      <4>2. fastlog2[k \div 2] \in Nat
        BY <4>1, <3>1
      <4> QED BY <3>3, <4>2, <1>7
    <3> QED BY <3>2, <3>3
  <2> QED BY <2>1
<1>9. fastlog2 \in [Nat -> Nat]
  BY <1>6, <1>8
<1> QED BY <1>7, <1>9

\* A larger table has no smaller logarithm.
LEMMA LogGrows ==
  ASSUME NEW m \in Nat, NEW n \in Nat, m <= n
  PROVE  fastlog2[m] <= fastlog2[n]
<1> DEFINE S == {k \in Nat : \E j \in 0..k : ~(fastlog2[j] <= fastlog2[k])}
<1>1. ASSUME S # {} PROVE FALSE
  <2>1. PICK k \in S : \A j \in S : k <= j
    BY <1>1, FirstNumber
  <2>2. PICK j \in 0..k : ~(fastlog2[j] <= fastlog2[k])
    OBVIOUS
  <2>3. ~(j < 2)
    <3>1. ASSUME j < 2 PROVE FALSE
      <4>1. fastlog2[j] = 0 /\ fastlog2[k] \in Nat
        BY <3>1, LogIs
      <4> QED BY <4>1, <2>2
    <3> QED BY <3>1
  <2>4. k \div 2 \in Nat /\ j \div 2 \in 0..(k \div 2) /\ ~(k <= k \div 2) /\ ~(k < 2)
    BY <2>3
  <2>5. fastlog2[j \div 2] <= fastlog2[k \div 2]
    BY <2>4, <2>1
  <2>6. fastlog2[j] = 1 + fastlog2[j \div 2] /\ fastlog2[k] = 1 + fastlog2[k \div 2]
    BY <2>3, <2>4, LogIs
  <2>7. fastlog2[j \div 2] \in Nat /\ fastlog2[k \div 2] \in Nat
    BY <2>4, LogIs
  <2> QED BY <2>2, <2>5, <2>6, <2>7
<1> QED BY <1>1

\* Two tables that reach a logarithm make one that reaches the next.
LEMMA LogOfSum ==
  ASSUME NEW x \in Nat \ {0}, NEW y \in Nat \ {0}, NEW l \in Nat,
         l <= fastlog2[x], l <= fastlog2[y]
  PROVE  l + 1 <= fastlog2[x + y]
<1> DEFINE Fails(u, v, k) == /\ k <= fastlog2[u] /\ k <= fastlog2[v]
                             /\ ~(k + 1 <= fastlog2[u + v])
           S == {u \in Nat : \E v \in Nat \ {0}, k \in Nat : u # 0 /\ Fails(u, v, k)}
<1>1. ASSUME S # {} PROVE FALSE
  <2>1. PICK u \in S : \A j \in S : u <= j
    BY <1>1, FirstNumber
  <2>2. PICK v \in Nat \ {0}, k \in Nat : u # 0 /\ Fails(u, v, k)
    OBVIOUS
  <2>3. /\ fastlog2[u] \in Nat /\ fastlog2[v] \in Nat /\ fastlog2[u + v] \in Nat
        /\ u + v \in Nat /\ ~(u + v < 2)
    BY <2>2, LogIs
  <2>4. fastlog2[u + v] = 1 + fastlog2[(u + v) \div 2] /\ (u + v) \div 2 \in Nat
    BY <2>3, LogIs
  <2>5. fastlog2[(u + v) \div 2] \in Nat
    BY <2>4, LogIs
  <2>6. k # 0
    BY <2>2, <2>4, <2>5
  <2>7. ~(u < 2) /\ ~(v < 2)
    <3>1. ASSUME u < 2 PROVE FALSE
      BY <3>1, <2>2, <2>6, LogIs
    <3>2. ASSUME v < 2 PROVE FALSE
      BY <3>2, <2>2, <2>6, LogIs
    <3> QED BY <3>1, <3>2
  <2>8. /\ u \div 2 \in Nat \ {0} /\ v \div 2 \in Nat \ {0} /\ ~(u <= u \div 2)
        /\ k - 1 \in Nat /\ (u \div 2) + (v \div 2) <= (u + v) \div 2
        /\ (u \div 2) + (v \div 2) \in Nat
    BY <2>6, <2>7
  <2>9. /\ fastlog2[u] = 1 + fastlog2[u \div 2] /\ fastlog2[v] = 1 + fastlog2[v \div 2]
        /\ fastlog2[u \div 2] \in Nat /\ fastlog2[v \div 2] \in Nat
        /\ fastlog2[(u \div 2) + (v \div 2)] \in Nat
    BY <2>7, <2>8, LogIs
  <2>10. k - 1 <= fastlog2[u \div 2] /\ k - 1 <= fastlog2[v \div 2]
    BY <2>2, <2>9
  <2>11. ~ Fails(u \div 2, v \div 2, k - 1)
    BY <2>1, <2>8
  <2>12. (k - 1) + 1 <= fastlog2[(u \div 2) + (v \div 2)]
    BY <2>10, <2>11
  <2>13. fastlog2[(u \div 2) + (v \div 2)] <= fastlog2[(u + v) \div 2]
    BY <2>4, <2>8, LogGrows
  <2> QED BY <2>2, <2>4, <2>5, <2>9, <2>12, <2>13
<1> QED BY <1>1

\* The logarithm of the next number is larger by one at most ...
LEMMA LogStep ==
  ASSUME NEW n \in Nat PROVE fastlog2[n + 1] <= fastlog2[n] + 1
<1>1. CASE n = 0
  <2>1. fastlog2[1] = 0 /\ fastlog2[0] = 0
    BY LogIs
  <2> QED BY <1>1, <2>1
<1>2. CASE n # 0
  <2>1. 2 * n \in Nat /\ ~(2 * n < 2) /\ (2 * n) \div 2 = n /\ n + 1 <= 2 * n
    BY <1>2
  <2>2. fastlog2[2 * n] = 1 + fastlog2[n] /\ fastlog2[n] \in Nat
    BY <2>1, LogIs
  <2>3. fastlog2[n + 1] <= fastlog2[2 * n]
    BY <2>1, LogGrows
  <2> QED BY <2>2, <2>3
<1> QED BY <1>1, <1>2

\* ... so a table has to become smaller by as many bytes as its logarithm, at least.
LEMMA LogShrinks ==
  ASSUME NEW x \in Nat, NEW d \in Nat PROVE fastlog2[x + d] <= fastlog2[x] + d
<1> DEFINE S == {k \in Nat : ~(fastlog2[x + k] <= fastlog2[x] + k)}
<1>1. ASSUME S # {} PROVE FALSE
  <2>1. PICK k \in S : \A j \in S : k <= j
    BY <1>1, FirstNumber
  <2>2. k # 0
    <3>1. fastlog2[x + 0] = fastlog2[x] /\ fastlog2[x] \in Nat
      BY LogIs
    <3> QED BY <3>1, <2>1
  <2>3. k - 1 \in Nat /\ ~(k <= k - 1) /\ x + (k - 1) \in Nat /\ x + k = (x + (k - 1)) + 1
    BY <2>2
  <2>4. fastlog2[x + (k - 1)] <= fastlog2[x] + (k - 1)
    BY <2>1, <2>3
  <2>5. fastlog2[x + k] <= fastlog2[x + (k - 1)] + 1
    BY <2>3, LogStep
  <2>6. fastlog2[x] \in Nat /\ fastlog2[x + k] \in Nat /\ fastlog2[x + (k - 1)] \in Nat
    BY <2>3, LogIs
  <2> QED BY <2>1, <2>4, <2>5, <2>6
<1> QED BY <1>1

-----------------------------------------------------------------------------
(* Scans that remember the last mark they passed *)

\* The scan of 1..n that returns at i the last member of B so far.
Scan(f, n, B) == f = [i \in 1..n |-> IF i \in B THEN i ELSE f[i - 1]]

\* There is such a scan when the first number is marked.
LEMMA ScanExists ==
  ASSUME NEW n \in Nat, NEW B \in SUBSET (1..n), n # 0 => 1 \in B
  PROVE  \E f : Scan(f, n, B)
<1> DEFINE IsLast(j, i) == j \in B /\ j <= i /\ \A k \in B : k <= i => k <= j
           last(i) == CHOOSE j : IsLast(j, i)
           f == [i \in 1..n |-> last(i)]
<1>1. ASSUME NEW i \in 1..n PROVE IsLast(last(i), i)
  <2> DEFINE T == {k \in B : k <= i}
  <2>0. n # 0 /\ 1 <= i
    OBVIOUS
  <2>1. 1 \in B /\ \A k \in B : k \in 0..n
    BY <2>0
  <2>2. T \in SUBSET (0..n) /\ 1 \in T
    BY <2>0, <2>1
  <2>3. PICK j \in T : \A k \in T : k <= j
    BY <2>2, LastNumber
  <2>4. IsLast(j, i)
    BY <2>3
  <2> QED BY <2>4
<1>2. ASSUME NEW i \in 1..n, NEW x, NEW y, IsLast(x, i), IsLast(y, i) PROVE x = y
  <2>1. x \in Int /\ y \in Int /\ x <= y /\ y <= x
    BY <1>2
  <2> QED BY <2>1
<1>3. ASSUME NEW i \in 1..n PROVE f[i] = IF i \in B THEN i ELSE f[i - 1]
  <2>1. f[i] = last(i)
    OBVIOUS
  <2>2. CASE i \in B
    <3>1. IsLast(i, i)
      BY <2>2
    <3> HIDE DEF IsLast
    <3>2. last(i) = i
      BY <3>1, <1>1, <1>2
    <3> QED BY <2>1, <2>2, <3>2
  <2>3. CASE i \notin B
    <3>1. i - 1 \in 1..n
      BY <2>3
    <3>2. f[i - 1] = last(i - 1) /\ IsLast(last(i - 1), i - 1)
      BY <3>1, <1>1
    <3> HIDE DEF last
    <3>3. IsLast(last(i - 1), i)
      <4>1. ASSUME NEW k \in B, k <= i PROVE k <= i - 1
        BY <2>3, <4>1
      <4>2. last(i - 1) \in Int /\ last(i - 1) <= i
        <5>1. last(i - 1) \in B /\ last(i - 1) <= i - 1
          BY <3>2
        <5>2. last(i - 1) \in Int
          <6>1. \A k \in B : k \in Int
            OBVIOUS
          <6> QED BY <5>1, <6>1
        <5> HIDE DEF IsLast
        <5> QED BY <5>1, <5>2
      <4> QED BY <3>2, <4>1, <4>2
    <3> HIDE DEF IsLast, f
    <3>4. last(i) = last(i - 1)
      BY <3>3, <1>1, <1>2
    <3> QED BY <2>1, <2>3, <3>2, <3>4
  <2> QED BY <2>2, <2>3
<1>4. f = [i \in 1..n |-> IF i \in B THEN i ELSE f[i - 1]]
  <2>1. f = [i \in 1..n |-> f[i]]
    OBVIOUS
  <2> HIDE DEF f
  <2> QED BY <2>1, <1>3
<1> QED BY <1>4 DEF Scan

\* What it returns is a mark, and no number after it up to i is one.
LEMMA ScanIs ==
  ASSUME NEW n \in Nat, NEW B \in SUBSET (1..n), n # 0 => 1 \in B,
         NEW f, Scan(f, n, B), NEW i \in 1..n
  PROVE  /\ f[i] \in B /\ f[i] \in 1..i
         /\ \A k \in (f[i] + 1)..i : k \notin B
         /\ i \in B => f[i] = i
         /\ i \notin B => i > 1 /\ f[i] = f[i - 1]
<1> DEFINE Right(j) == f[j] \in B /\ f[j] \in 1..j /\ \A k \in (f[j] + 1)..j : k \notin B
           S == {j \in 1..n : ~ Right(j)}
<1>1. ASSUME NEW j \in 1..n PROVE f[j] = IF j \in B THEN j ELSE f[j - 1]
  <2>1. f = [x \in 1..n |-> IF x \in B THEN x ELSE f[x - 1]]
    BY DEF Scan
  <2> DEFINE g == [x \in 1..n |-> IF x \in B THEN x ELSE f[x - 1]]
  <2>2. g[j] = IF j \in B THEN j ELSE f[j - 1]
    OBVIOUS
  <2>3. f = g
    BY <2>1
  <2> HIDE DEF g
  <2> QED BY <2>2, <2>3
<1>2. ASSUME S # {} PROVE FALSE
  <2>0. S \in SUBSET Nat
    OBVIOUS
  <2>1. PICK j \in S : \A k \in S : j <= k
    BY <2>0, <1>2, FirstNumber
  <2>2. CASE j \in B
    BY <2>2, <1>1
  <2>3. CASE j \notin B
    <3>1. j - 1 \in 1..n /\ ~(j <= j - 1)
      BY <2>3
    <3>2. Right(j - 1) /\ f[j] = f[j - 1]
      BY <2>1, <2>3, <3>1, <1>1
    <3>3. f[j] \in B /\ f[j] \in 1..j
      BY <3>1, <3>2
    <3>4. ASSUME NEW k \in (f[j] + 1)..j PROVE k \notin B
      BY <2>3, <3>2, <3>3
    <3> QED BY <3>3, <3>4
  <2> QED BY <2>2, <2>3
<1>3. Right(i)
  BY <1>2
<1>4. i \notin B => i > 1
  OBVIOUS
<1> HIDE DEF S
<1> QED BY <1>1, <1>3, <1>4

-----------------------------------------------------------------------------
(* Segments *)

\* Sizes of tables are not zero.
Sizes == Seq(Nat \ {0})

\* Where the logarithm changes.
Bounds(ss) == {i \in 1..Len(ss) : i = 1 \/ Log(ss, i) # Log(ss, i - 1)}

\* Logarithms are numbers.
LEMMA LogType ==
  ASSUME NEW ss \in Sizes, NEW i \in 1..Len(ss)
  PROVE  ss[i] \in Nat \ {0} /\ Log(ss, i) \in Nat
<1>1. ss[i] \in Nat \ {0}
  BY ElementOfSeq DEF Sizes
<1> QED BY <1>1, LogIs DEF Log

\* The first table begins a segment.
LEMMA BoundsAre ==
  ASSUME NEW ss \in Sizes
  PROVE  Len(ss) \in Nat /\ Bounds(ss) \in SUBSET (1..Len(ss)) /\ (Len(ss) # 0 => 1 \in Bounds(ss))
<1>1. Len(ss) \in Nat
  BY LenProperties DEF Sizes
<1> QED BY <1>1 DEF Bounds

\* The segments' starts are a scan for the places where the logarithm changes.
LEMMA StartScans ==
  ASSUME NEW ss \in Sizes
  PROVE  Scan(StartOf(ss), Len(ss), Bounds(ss))
<1> DEFINE Solves(f) ==
             f = [i \in 1..Len(ss) |->
                   IF i = 1 \/ Log(ss, i) # Log(ss, i - 1) THEN i ELSE f[i - 1]]
<1>1. ASSUME NEW f PROVE Solves(f) <=> Scan(f, Len(ss), Bounds(ss))
  <2>1. ASSUME NEW i \in 1..Len(ss)
        PROVE  i \in Bounds(ss) <=> (i = 1 \/ Log(ss, i) # Log(ss, i - 1))
    BY DEF Bounds
  <2>2. [i \in 1..Len(ss) |-> IF i \in Bounds(ss) THEN i ELSE f[i - 1]]
        = [i \in 1..Len(ss) |-> IF i = 1 \/ Log(ss, i) # Log(ss, i - 1) THEN i ELSE f[i - 1]]
    BY <2>1
  <2> QED BY <2>2 DEF Scan
<1>2. \E f : Solves(f)
  BY <1>1, BoundsAre, ScanExists
<1>3. StartOf(ss) = CHOOSE f : Solves(f)
  BY DEF StartOf
<1> HIDE DEF Solves
<1> QED BY <1>1, <1>2, <1>3

\* A segment begins at a table before its end or at it; the tables between
\* are of one size, as determined by their logarithms.
LEMMA StartIs ==
  ASSUME NEW ss \in Sizes, NEW i \in 1..Len(ss)
  PROVE  /\ StartOf(ss)[i] \in 1..i
         /\ \A k \in StartOf(ss)[i]..i : Log(ss, k) = Log(ss, i)
         /\ i \in Bounds(ss) => StartOf(ss)[i] = i
         /\ i \notin Bounds(ss) => StartOf(ss)[i] < i
<1> DEFINE b == StartOf(ss)[i]
           S == {k \in b..i : Log(ss, k) # Log(ss, i)}
<1>0. Len(ss) \in Nat /\ i \in Nat
  BY BoundsAre
<1>1. /\ b \in 1..i /\ \A k \in (b + 1)..i : k \notin Bounds(ss)
      /\ i \in Bounds(ss) => b = i
      /\ i \notin Bounds(ss) => i > 1 /\ b = StartOf(ss)[i - 1]
  BY BoundsAre, StartScans, ScanIs
<1>2. ASSUME i \notin Bounds(ss) PROVE b < i
  <2>1. i - 1 \in 1..Len(ss)
    BY <1>0, <1>1, <1>2
  <2>2. StartOf(ss)[i - 1] \in 1..(i - 1)
    BY <2>1, BoundsAre, StartScans, ScanIs
  <2> HIDE DEF b
  <2>3. b \in 1..(i - 1)
    BY <2>2, <1>1, <1>2
  <2> QED BY <2>3
<1> HIDE DEF b
<1>3. ASSUME S # {} PROVE FALSE
  <2>1. S \in SUBSET (0..i)
    BY <1>1
  <2>2. PICK k \in S : \A j \in S : j <= k
    BY <1>0, <1>3, <2>1, LastNumber
  <2>3. k # i /\ k \in b..i /\ k + 1 \in (b + 1)..i /\ k + 1 \in b..i /\ ~(k + 1 <= k)
    BY <1>1, <2>2
  <2>4. Log(ss, k + 1) = Log(ss, i)
    BY <2>2, <2>3
  <2>5. k + 1 \in 1..Len(ss) /\ k + 1 # 1 /\ (k + 1) - 1 = k
    BY <1>0, <1>1, <2>3
  <2>6. Log(ss, k + 1) = Log(ss, k)
    BY <1>1, <2>3, <2>5 DEF Bounds
  <2> QED BY <2>2, <2>4, <2>6
<1>4. \A k \in b..i : Log(ss, k) = Log(ss, i)
  BY <1>3
<1> QED BY <1>1, <1>2, <1>4 DEF b

-----------------------------------------------------------------------------
(* The advice *)

\* A set of segments has a smallest one, and the first of the smallest.
LEMMA SmallestIs ==
  ASSUME NEW segs, segs # {},
         \A s \in segs : s.log \in Nat /\ s.start \in Nat
  PROVE  Smallest(segs) \in segs
<1> DEFINE Logs == {s.log : s \in segs}
<1>1. Logs \in SUBSET Nat /\ Logs # {}
  OBVIOUS
<1>2. PICK l \in Logs : \A k \in Logs : l <= k
  BY <1>1, FirstNumber
<1> DEFINE Starts == {s.start : s \in {t \in segs : t.log = l}}
<1>3. Starts \in SUBSET Nat /\ Starts # {}
  OBVIOUS
<1>4. PICK b \in Starts : \A k \in Starts : b <= k
  BY <1>3, FirstNumber
<1>5. PICK s \in segs : s.log = l /\ s.start = b
  OBVIOUS
<1>6. ASSUME NEW t \in segs
      PROVE  s.log < t.log \/ (s.log = t.log /\ s.start <= t.start)
  <2>1. l <= t.log /\ t.log \in Nat /\ l \in Nat
    BY <1>1, <1>2
  <2>2. CASE t.log = l
    <3>1. t.start \in Starts
      BY <2>2
    <3> QED BY <3>1, <1>4, <1>5, <2>2
  <2>3. CASE t.log # l
    BY <2>1, <2>3, <1>5
  <2> QED BY <2>2, <2>3
<1> QED BY <1>6 DEF Smallest

\* The advice is empty when no segment has more than one table.
LEMMA SuggestedNone ==
  ASSUME NEW ss \in Sizes
  PROVE  Suggested(ss) = {} <=> Ends(ss) = {}
<1>1. Candidates(ss) = {} <=> Ends(ss) = {}
  BY DEF Candidates
<1>2. Suggested(ss) = {} <=> Candidates(ss) = {}
  BY DEF Suggested
<1> QED BY <1>1, <1>2

\* What is suggested is a segment of at least two tables, and tables below it
\* each of which is no larger than the tables above it up to the segment's end.
LEMMA SuggestedIs ==
  ASSUME NEW ss \in Sizes, NEW run \in Suggested(ss)
  PROVE  \E start \in Nat :
           /\ run.first \in 1..start /\ run.last \in (start + 1)..Len(ss)
           /\ \A k \in start..run.last : Log(ss, k) = Log(ss, run.last)
           /\ \A k \in (run.first + 1)..start : Absorbs(ss, k, run.last)
<1> DEFINE s == Smallest(Candidates(ss))
           n == s.start
           Bottom == {i \in 1..n : ~(i > 1 /\ Absorbs(ss, i, s.end))}
           Solves(f) == f = [i \in 1..n |->
                              IF i > 1 /\ Absorbs(ss, i, s.end) THEN f[i - 1] ELSE i]
           lowest == CHOOSE f : Solves(f)
<1>0. Len(ss) \in Nat
  BY BoundsAre
<1>1. Candidates(ss) # {} /\ run = [first |-> lowest[n], last |-> s.end]
  BY DEF Suggested
<1>2. \A c \in Candidates(ss) : c.log \in Nat /\ c.start \in Nat
  <2>1. ASSUME NEW i \in Ends(ss)
        PROVE  Log(ss, i) \in Nat /\ StartOf(ss)[i] \in Nat
    <3>1. i \in 1..Len(ss)
      BY DEF Ends
    <3>2. StartOf(ss)[i] \in 1..i
      BY <3>1, StartIs
    <3> QED BY <3>1, <3>2, LogType
  <2> QED BY <2>1 DEF Candidates
<1>3. s \in Candidates(ss)
  BY <1>1, <1>2, SmallestIs
<1> HIDE DEF s
<1>4. PICK e \in Ends(ss) : s.start = StartOf(ss)[e] /\ s.end = e
  BY <1>3 DEF Candidates
<1>5. e \in 1..Len(ss) /\ StartOf(ss)[e] < e
  BY DEF Ends
<1>6. n \in 1..e /\ n < e /\ \A k \in n..e : Log(ss, k) = Log(ss, e)
  BY <1>4, <1>5, StartIs
<1>7. n \in Nat /\ Bottom \in SUBSET (1..n) /\ (n # 0 => 1 \in Bottom)
  BY <1>6
<1> HIDE DEF n
<1>8. ASSUME NEW f PROVE Solves(f) <=> Scan(f, n, Bottom)
  <2>1. [i \in 1..n |-> IF i \in Bottom THEN i ELSE f[i - 1]]
        = [i \in 1..n |-> IF i > 1 /\ Absorbs(ss, i, s.end) THEN f[i - 1] ELSE i]
    OBVIOUS
  <2> QED BY <2>1 DEF Scan
<1> HIDE DEF Bottom, Solves
<1>9. \E f : Scan(f, n, Bottom)
  BY <1>7, ScanExists
<1>10. Scan(lowest, n, Bottom)
  BY <1>8, <1>9
<1> HIDE DEF lowest
<1>11. n \in 1..n
  BY <1>6
<1>12. lowest[n] \in 1..n /\ \A k \in (lowest[n] + 1)..n : k \notin Bottom
  BY <1>7, <1>10, <1>11, ScanIs
<1>13. \A k \in (lowest[n] + 1)..n : Absorbs(ss, k, e)
  BY <1>4, <1>7, <1>12 DEF Bottom
<1>14. run.first = lowest[n] /\ run.last = e
  BY <1>1, <1>4
<1>15. n \in Nat /\ run.first \in 1..n /\ run.last \in (n + 1)..Len(ss)
  BY <1>0, <1>5, <1>6, <1>12, <1>14
<1> QED BY <1>6, <1>13, <1>14, <1>15

\* No segment has more than one table exactly when no neighbours have the same
\* logarithm.
LEMMA EndsAre ==
  ASSUME NEW ss \in Sizes
  PROVE  Ends(ss) = {} <=> \A i \in 1..Len(ss) - 1 : Log(ss, i) # Log(ss, i + 1)
<1>0. Len(ss) \in Nat
  BY BoundsAre
<1>1. ASSUME NEW e \in Ends(ss)
      PROVE  \E i \in 1..Len(ss) - 1 : Log(ss, i) = Log(ss, i + 1)
  <2>1. e \in 1..Len(ss) /\ StartOf(ss)[e] < e
    BY DEF Ends
  <2>2. e \notin Bounds(ss)
    BY <2>1, StartIs
  <2>3. e # 1 /\ Log(ss, e) = Log(ss, e - 1)
    BY <2>1, <2>2 DEF Bounds
  <2>4. e - 1 \in 1..Len(ss) - 1 /\ (e - 1) + 1 = e
    BY <1>0, <2>1, <2>3
  <2> QED BY <2>3, <2>4
<1>2. ASSUME NEW i \in 1..Len(ss) - 1, Log(ss, i) = Log(ss, i + 1)
      PROVE  Ends(ss) # {}
  <2> DEFINE T == {j \in (i + 1)..Len(ss) : \A k \in (i + 1)..j : k \notin Bounds(ss)}
  <2>1. i + 1 \notin Bounds(ss)
    BY <1>0, <1>2 DEF Bounds
  <2>2. T \in SUBSET (0..Len(ss)) /\ i + 1 \in T
    BY <1>0, <2>1
  <2>3. PICK e \in T : \A j \in T : j <= e
    BY <1>0, <2>2, LastNumber
  <2>4. e \in 1..Len(ss) /\ e \notin Bounds(ss)
    BY <1>0, <2>3
  <2>5. StartOf(ss)[e] < e
    BY <2>4, StartIs
  <2>6. ASSUME e < Len(ss) PROVE StartOf(ss)[e + 1] = e + 1
    <3>1. e + 1 \in (i + 1)..Len(ss) /\ ~(e + 1 <= e)
      BY <1>0, <2>3, <2>6
    <3>2. e + 1 \notin T
      BY <2>3, <3>1
    <3>3. e + 1 \in Bounds(ss)
      <4>1. PICK k \in (i + 1)..(e + 1) : k \in Bounds(ss)
        BY <3>1, <3>2
      <4>2. k \notin (i + 1)..e
        BY <2>3, <4>1
      <4>3. k = e + 1
        BY <2>4, <4>1, <4>2
      <4> QED BY <4>1, <4>3
    <3>4. e + 1 \in 1..Len(ss)
      BY <3>1
    <3> QED BY <3>3, <3>4, StartIs
  <2>7. e \in Ends(ss)
    BY <2>4, <2>5, <2>6 DEF Ends
  <2> QED BY <2>7
<1> QED BY <1>1, <1>2

-----------------------------------------------------------------------------
(* Sums of sizes *)

\* f[i] is what tables 1 to i hold together, for the tables up to n.
SumsUpTo(f, ss, n) ==
  /\ f \in [0..n -> Nat] /\ f[0] = 0
  /\ \A i \in 1..n : f[i] = f[i - 1] + ss[i]

\* There are such sums.
LEMMA SumsExist ==
  ASSUME NEW ss \in Sizes
  PROVE  \E f : SumsUpTo(f, ss, Len(ss))
<1> DEFINE S == {n \in 0..Len(ss) : ~ \E f : SumsUpTo(f, ss, n)}
<1>0. Len(ss) \in Nat
  BY BoundsAre
<1> SUFFICES ASSUME S # {} PROVE FALSE
  BY <1>0
<1>1. S \in SUBSET Nat
  OBVIOUS
<1>2. PICK n \in S : \A j \in S : n <= j
  BY <1>1, FirstNumber
<1>3. n # 0
  <2> DEFINE g == [k \in 0..0 |-> 0]
  <2>1. SumsUpTo(g, ss, 0)
    BY DEF SumsUpTo
  <2> QED BY <2>1
<1>4. n - 1 \in 0..Len(ss) /\ ~(n <= n - 1) /\ n \in 1..Len(ss)
  BY <1>0, <1>3
<1>5. PICK g : SumsUpTo(g, ss, n - 1)
  BY <1>2, <1>4
<1> DEFINE h == [k \in 0..n |-> IF k < n THEN g[k] ELSE g[n - 1] + ss[n]]
<1>6. ss[n] \in Nat
  BY <1>4, LogType
<1>7. g \in [0..(n - 1) -> Nat] /\ g[0] = 0 /\ \A i \in 1..(n - 1) : g[i] = g[i - 1] + ss[i]
  BY <1>5 DEF SumsUpTo
<1>8. g[n - 1] \in Nat
  BY <1>4, <1>7
<1>9. h \in [0..n -> Nat]
  <2>1. ASSUME NEW k \in 0..n
        PROVE  (IF k < n THEN g[k] ELSE g[n - 1] + ss[n]) \in Nat
    BY <1>6, <1>7, <1>8
  <2> QED BY <2>1
<1>10. h[0] = 0
  BY <1>4, <1>7
<1>11. ASSUME NEW i \in 1..n PROVE h[i] = h[i - 1] + ss[i]
  <2>1. i - 1 \in 0..n /\ i - 1 < n /\ h[i - 1] = g[i - 1]
    BY <1>4
  <2>2. CASE i < n
    BY <2>1, <2>2, <1>7
  <2>3. CASE i = n
    BY <2>1, <2>3
  <2> QED BY <2>2, <2>3, <1>4
<1> HIDE DEF h
<1>12. SumsUpTo(h, ss, n)
  BY <1>9, <1>10, <1>11 DEF SumsUpTo
<1> QED BY <1>12

\* The bytes of a run of tables: those of all tables up to its last without
\* those below its first.
LEMMA BytesAre ==
  ASSUME NEW ss \in Sizes, NEW f, SumsUpTo(f, ss, Len(ss)),
         NEW a \in 1..Len(ss), NEW b \in a..Len(ss)
  PROVE  Bytes(ss, a, b) = f[b] - f[a - 1] /\ Bytes(ss, a, b) \in Nat \ {0}
<1> DEFINE Solves(g) == g = [i \in a..b |-> IF i = a THEN ss[i] ELSE g[i - 1] + ss[i]]
           sum == CHOOSE g : Solves(g)
           h == [i \in a..b |-> f[i] - f[a - 1]]
           Right(i) == sum[i] = f[i] - f[a - 1] /\ sum[i] \in Nat \ {0}
           S == {i \in a..b : ~ Right(i)}
<1>0. Len(ss) \in Nat /\ a - 1 \in 0..Len(ss)
  BY BoundsAre
<1>1. /\ f \in [0..Len(ss) -> Nat]
      /\ \A i \in 1..Len(ss) : f[i] = f[i - 1] + ss[i]
      /\ \A i \in 1..Len(ss) : ss[i] \in Nat \ {0}
  BY LogType DEF SumsUpTo
<1>2. ASSUME NEW i \in a..b
      PROVE  /\ i \in 1..Len(ss) /\ i - 1 \in 0..Len(ss) /\ (i # a => i - 1 \in a..b)
             /\ f[i] = f[i - 1] + ss[i] /\ f[i] \in Nat /\ f[i - 1] \in Nat
             /\ f[a - 1] \in Nat /\ ss[i] \in Nat \ {0}
  <2>1. i \in 1..Len(ss) /\ i - 1 \in 0..Len(ss) /\ i \in 0..Len(ss) /\ (i # a => i - 1 \in a..b)
    BY <1>0
  <2> QED BY <2>1, <1>0, <1>1
<1>3. Solves(h)
  <2>1. ASSUME NEW i \in a..b
        PROVE  f[i] - f[a - 1] = IF i = a THEN ss[i] ELSE h[i - 1] + ss[i]
    <3>1. CASE i = a
      BY <3>1, <1>2
    <3>2. CASE i # a
      <4>1. h[i - 1] = f[i - 1] - f[a - 1]
        BY <3>2, <1>2
      <4> QED BY <3>2, <4>1, <1>2, SMTT(20)
    <3> QED BY <3>1, <3>2
  <2> QED BY <2>1
<1>4. Solves(sum)
  <2> HIDE DEF h, Solves
  <2> QED BY <1>3
<1>5. Bytes(ss, a, b) = sum[b]
  BY DEF Bytes
<1>6. ASSUME NEW i \in a..b
      PROVE  sum[i] = IF i = a THEN ss[i] ELSE sum[i - 1] + ss[i]
  <2> DEFINE g == [x \in a..b |-> IF x = a THEN ss[x] ELSE sum[x - 1] + ss[x]]
  <2>1. sum = g
    BY <1>4
  <2> HIDE DEF sum
  <2>2. g[i] = IF i = a THEN ss[i] ELSE sum[i - 1] + ss[i]
    OBVIOUS
  <2> HIDE DEF g
  <2> QED BY <2>1, <2>2
<1> HIDE DEF sum
<1>7. ASSUME S # {} PROVE FALSE
  <2>1. S \in SUBSET Nat
    OBVIOUS
  <2>2. PICK i \in S : \A j \in S : i <= j
    BY <2>1, <1>7, FirstNumber
  <2>0. i \in a..b /\ ~ Right(i)
    BY <2>2
  <2>3. CASE i = a
    <3>1. sum[i] = ss[i] /\ f[i] = f[i - 1] + ss[i] /\ f[i - 1] \in Nat
          /\ f[a - 1] = f[i - 1] /\ ss[i] \in Nat \ {0}
      BY <2>0, <2>3, <1>2, <1>6
    <3> QED BY <2>0, <3>1
  <2>4. CASE i # a
    <3>1. i - 1 \in a..b /\ ~(i <= i - 1)
      BY <2>0, <2>4, <1>2
    <3>2. Right(i - 1)
      BY <2>2, <3>1
    <3>3. sum[i] = sum[i - 1] + ss[i]
      BY <2>0, <2>4, <1>6
    <3>4. /\ f[i] = f[i - 1] + ss[i] /\ f[i] \in Nat /\ f[i - 1] \in Nat
          /\ f[a - 1] \in Nat /\ ss[i] \in Nat \ {0}
      BY <2>0, <1>2
    <3>5. sum[i] = f[i] - f[a - 1] /\ sum[i] \in Nat \ {0}
      BY <3>2, <3>3, <3>4, SMTT(20)
    <3> QED BY <2>0, <3>5
  <2> QED BY <2>3, <2>4
<1>8. b \in a..b
  OBVIOUS
<1>9. Right(b)
  BY <1>7, <1>8
<1> QED BY <1>5, <1>9

\* A run of one table holds what the table holds; a longer one also what the
\* run above its first table holds.
LEMMA BytesSplit ==
  ASSUME NEW ss \in Sizes, NEW a \in 1..Len(ss), NEW b \in a..Len(ss)
  PROVE  /\ Bytes(ss, a, b) \in Nat \ {0}
         /\ a = b => Bytes(ss, a, b) = ss[a]
         /\ a < b => /\ Bytes(ss, a + 1, b) \in Nat \ {0}
                     /\ Bytes(ss, a, b) = ss[a] + Bytes(ss, a + 1, b)
<1>0. Len(ss) \in Nat /\ a - 1 \in 0..Len(ss) /\ a \in 0..Len(ss) /\ b \in 0..Len(ss)
  BY BoundsAre
<1>1. PICK f : SumsUpTo(f, ss, Len(ss))
  BY SumsExist
<1>2. Bytes(ss, a, b) = f[b] - f[a - 1] /\ Bytes(ss, a, b) \in Nat \ {0}
  BY <1>1, BytesAre
<1>3. /\ f[a] = f[a - 1] + ss[a] /\ f[a] \in Nat /\ f[b] \in Nat /\ f[a - 1] \in Nat
      /\ ss[a] \in Nat
  BY <1>0, <1>1, LogType DEF SumsUpTo
<1>4. ASSUME a < b
      PROVE  Bytes(ss, a + 1, b) = f[b] - f[a] /\ Bytes(ss, a + 1, b) \in Nat \ {0}
  <2>1. a + 1 \in 1..Len(ss) /\ b \in (a + 1)..Len(ss) /\ (a + 1) - 1 = a
    BY <1>0, <1>4
  <2>2. /\ Bytes(ss, a + 1, b) = f[b] - f[(a + 1) - 1]
        /\ Bytes(ss, a + 1, b) \in Nat \ {0}
    BY <2>1, <1>1, BytesAre
  <2> QED BY <2>1, <2>2
<1>5. a < b => Bytes(ss, a, b) = ss[a] + Bytes(ss, a + 1, b)
  BY <1>2, <1>3, <1>4, SMTT(20)
<1>6. a = b => Bytes(ss, a, b) = ss[a]
  BY <1>2, <1>3
<1> QED BY <1>2, <1>4, <1>5, <1>6

-----------------------------------------------------------------------------
(* What compaction gains *)

\* Every table of the suggested run is in a size class below that of the merged
\* table: an entry that is rewritten goes into a bigger table.
LEMMA RunGrows ==
  ASSUME NEW ss \in Sizes, NEW run \in Suggested(ss)
  PROVE  \A k \in run.first..run.last :
           Log(ss, k) + 1 <= fastlog2[Bytes(ss, run.first, run.last)]
<1>1. PICK start \in Nat :
        /\ run.first \in 1..start /\ run.last \in (start + 1)..Len(ss)
        /\ \A k \in start..run.last : Log(ss, k) = Log(ss, run.last)
        /\ \A k \in (run.first + 1)..start : Absorbs(ss, k, run.last)
  BY SuggestedIs
<1> DEFINE a == run.first
           b == run.last
           L(i) == fastlog2[Bytes(ss, i, b)]
           Right(i) == /\ \A k \in i..b : Log(ss, k) <= L(i)
                       /\ i < b => \A k \in i..b : Log(ss, k) + 1 <= L(i)
           S == {i \in a..b : ~ Right(i)}
<1>2. Len(ss) \in Nat /\ a \in 1..start /\ b \in (start + 1)..Len(ss) /\ a < b
  BY <1>1, BoundsAre
<1>3. /\ \A k \in start..b : Log(ss, k) = Log(ss, b)
      /\ \A k \in (a + 1)..start : L(k) >= Log(ss, k - 1)
  BY <1>1 DEF Absorbs
<1> HIDE DEF a, b
<1>4. ASSUME NEW i \in a..b
      PROVE  /\ i \in 1..Len(ss) /\ b \in i..Len(ss) /\ ss[i] \in Nat \ {0}
             /\ Log(ss, i) \in Nat /\ L(i) \in Nat
             /\ i = b => L(i) = Log(ss, i)
             /\ i < b => /\ i + 1 \in a..b
                         /\ Bytes(ss, i + 1, b) \in Nat \ {0}
                         /\ Bytes(ss, i, b) = ss[i] + Bytes(ss, i + 1, b)
  <2>1. i \in 1..Len(ss) /\ b \in i..Len(ss) /\ (i < b => i + 1 \in a..b)
    BY <1>2
  <2>2. /\ Bytes(ss, i, b) \in Nat \ {0} /\ (i = b => Bytes(ss, i, b) = ss[i])
        /\ i < b => /\ Bytes(ss, i + 1, b) \in Nat \ {0}
                    /\ Bytes(ss, i, b) = ss[i] + Bytes(ss, i + 1, b)
    BY <2>1, BytesSplit
  <2>3. L(i) \in Nat
    BY <2>2, LogIs
  <2>4. i = b => L(i) = Log(ss, i)
    BY <2>2 DEF Log
  <2> QED BY <2>1, <2>2, <2>3, <2>4, LogType
<1>5. ASSUME S # {} PROVE FALSE
  <2>1. S \in SUBSET (0..Len(ss))
    BY <1>2
  <2>2. PICK i \in S : \A j \in S : j <= i
    BY <1>2, <1>5, <2>1, LastNumber
  <2>3. i \in a..b /\ ~ Right(i)
    BY <2>2
  <2>4. i # b
    <3>1. ASSUME i = b PROVE Right(i)
      <4>1. \A k \in i..b : k = i
        BY <2>3, <3>1, <1>2
      <4>2. Log(ss, i) <= L(i)
        BY <2>3, <3>1, <1>4
      <4>3. ~(i < b)
        BY <2>3, <3>1, <1>2
      <4> HIDE DEF L
      <4> QED BY <4>1, <4>2, <4>3
    <3> QED BY <2>3, <3>1
  <2>5. i < b /\ i + 1 \in a..b /\ ~(i + 1 <= i) /\ i \in Nat /\ start \in Nat /\ a <= i
    BY <2>3, <2>4, <1>2
  <2>6. Right(i + 1)
    BY <2>2, <2>5
  <2>7. /\ Log(ss, i) \in Nat /\ L(i) \in Nat /\ L(i + 1) \in Nat
        /\ ss[i] \in Nat \ {0} /\ Bytes(ss, i + 1, b) \in Nat \ {0}
        /\ Bytes(ss, i, b) = ss[i] + Bytes(ss, i + 1, b)
    BY <2>3, <2>5, <1>4
  <2>8. Log(ss, i) <= L(i + 1)
    <3>1. CASE i + 1 <= start
      <4>1. i + 1 \in (a + 1)..start /\ (i + 1) - 1 = i
        BY <2>5, <3>1, <1>2
      <4>2. L(i + 1) >= Log(ss, (i + 1) - 1)
        BY <4>1, <1>3
      <4> HIDE DEF L
      <4> QED BY <4>1, <4>2, <2>7
    <3>2. CASE start <= i
      <4>1. i \in start..b /\ b \in (i + 1)..b
        BY <2>5, <3>2, <1>2
      <4>2. Log(ss, i) = Log(ss, b)
        BY <4>1, <1>3
      <4>3. Log(ss, b) <= L(i + 1)
        BY <4>1, <2>6
      <4> QED BY <4>2, <4>3
    <3> QED BY <3>1, <3>2, <2>5
  <2>9. Log(ss, i) + 1 <= L(i)
    <3>1. Log(ss, i) <= fastlog2[ss[i]]
      BY <2>7 DEF Log
    <3>2. Log(ss, i) + 1 <= fastlog2[ss[i] + Bytes(ss, i + 1, b)]
      BY <2>7, <2>8, <3>1, LogOfSum
    <3> QED BY <2>7, <3>2
  <2>10. L(i + 1) <= L(i)
    <3>1. Bytes(ss, i + 1, b) <= Bytes(ss, i, b) /\ Bytes(ss, i, b) \in Nat /\ Bytes(ss, i + 1, b) \in Nat
      BY <2>7
    <3> QED BY <3>1, LogGrows
  <2>11. ASSUME NEW k \in i..b PROVE Log(ss, k) + 1 <= L(i) /\ Log(ss, k) \in Nat
    <3>1. k \in a..b /\ Log(ss, k) \in Nat
      <4>1. k \in a..b
        BY <2>3, <1>2
      <4> QED BY <4>1, <1>4
    <3>2. CASE k = i
      BY <2>9, <3>1, <3>2
    <3>3. CASE k # i /\ i + 1 < b
      <4>1. k \in (i + 1)..b
        BY <3>3, <2>3, <1>2
      <4>2. Log(ss, k) + 1 <= L(i + 1)
        BY <2>6, <3>3, <4>1
      <4> HIDE DEF L
      <4> QED BY <4>2, <3>1, <2>7, <2>10
    <3>4. CASE k # i /\ ~(i + 1 < b)
      <4>1. k = b /\ i \in start..b
        BY <3>4, <2>5, <1>2
      <4>2. Log(ss, k) = Log(ss, i)
        BY <4>1, <1>3
      <4> QED BY <4>2, <2>9, <3>1
    <3> QED BY <3>2, <3>3, <3>4
  <2>12. Right(i)
    <3> HIDE DEF L
    <3>1. \A k \in i..b : Log(ss, k) <= L(i)
      BY <2>7, <2>11
    <3> QED BY <2>11, <3>1
  <2> QED BY <2>3, <2>12
<1>6. a \in a..b
  BY <1>2
<1>7. Right(a)
  BY <1>5, <1>6
<1> QED BY <1>2, <1>7 DEF a, b

-----------------------------------------------------------------------------
(* The stack *)

\* How many elements a run has.
Count(run) == run.last - run.first + 1

\* In s, what takes the place of the run is between what was below and above it.
Spliced(T, s, seq, run, new) ==
  /\ s \in Seq(T)
  /\ Len(s) = Len(seq) - Count(run) + Len(new)
  /\ \A i \in 1..Len(seq) - Count(run) + Len(new) :
       s[i] = IF i < run.first THEN seq[i]
              ELSE IF i < run.first + Len(new) THEN new[i - run.first + 1]
              ELSE seq[i - Len(new) + Count(run)]

LEMMA ReplacedAt ==
  ASSUME NEW T, NEW seq \in Seq(T), NEW new \in Seq(T),
         NEW run, run.first \in 1..Len(seq), run.last \in run.first..Len(seq)
  PROVE  Spliced(T, Replaced(seq, run, new), seq, run, new)
<1> DEFINE a == run.first
           b == run.last
           n == Len(seq)
           k == Len(new)
           s == SubSeq(seq, 1, a - 1)
           t == SubSeq(seq, b + 1, n)
<1>1. n \in Nat /\ k \in Nat /\ a \in 1..n /\ b \in a..n
  BY LenProperties
<1>2. \A i \in 1..n : seq[i] \in T
  BY ElementOfSeq
<1> HIDE DEF a, b, n, k
<1>3. s \in Seq(T) /\ Len(s) = a - 1 /\ \A i \in 1..(a - 1) : s[i] = seq[i]
  <2>1. 1 \in Int /\ a - 1 \in Int /\ \A i \in 1..(a - 1) : seq[i] \in T
    BY <1>1, <1>2
  <2>2. /\ s \in Seq(T) /\ Len(s) = IF 1 <= a - 1 THEN (a - 1) - 1 + 1 ELSE 0
        /\ \A i \in 1..((a - 1) - 1 + 1) : s[i] = seq[1 + i - 1]
    BY <2>1, SubSeqProperties
  <2> HIDE DEF s
  <2>3. Len(s) = a - 1
    BY <1>1, <2>2
  <2>4. ASSUME NEW i \in 1..(a - 1) PROVE s[i] = seq[i]
    <3>1. i \in 1..((a - 1) - 1 + 1) /\ 1 + i - 1 = i
      BY <1>1
    <3> QED BY <2>2, <3>1
  <2> QED BY <2>2, <2>3, <2>4
<1>4. t \in Seq(T) /\ Len(t) = n - b /\ \A i \in 1..(n - b) : t[i] = seq[b + i]
  <2>1. b + 1 \in Int /\ n \in Int /\ \A i \in (b + 1)..n : seq[i] \in T
    BY <1>1, <1>2
  <2>2. /\ t \in Seq(T) /\ Len(t) = IF b + 1 <= n THEN n - (b + 1) + 1 ELSE 0
        /\ \A i \in 1..(n - (b + 1) + 1) : t[i] = seq[b + 1 + i - 1]
    BY <2>1, SubSeqProperties
  <2> HIDE DEF t
  <2>3. Len(t) = n - b
    BY <1>1, <2>2
  <2>4. ASSUME NEW i \in 1..(n - b) PROVE t[i] = seq[b + i]
    <3>1. i \in 1..(n - (b + 1) + 1) /\ b + 1 + i - 1 = b + i
      BY <1>1
    <3> QED BY <2>2, <3>1
  <2> QED BY <2>2, <2>3, <2>4
<1> DEFINE v == s \o new
           w == v \o t
<1> HIDE DEF s, t
<1>5. /\ v \in Seq(T) /\ Len(v) = (a - 1) + k
      /\ \A i \in 1..(a - 1) + k : v[i] = IF i < a THEN seq[i] ELSE new[i - a + 1]
  <2>1. /\ v \in Seq(T) /\ Len(v) = Len(s) + Len(new)
        /\ \A i \in 1..Len(s) + Len(new) : v[i] = IF i <= Len(s) THEN s[i] ELSE new[i - Len(s)]
    BY <1>3, ConcatProperties
  <2> HIDE DEF v
  <2>2. Len(v) = (a - 1) + k
    BY <2>1, <1>3 DEF k
  <2>3. ASSUME NEW i \in 1..(a - 1) + k PROVE v[i] = IF i < a THEN seq[i] ELSE new[i - a + 1]
    <3>1. v[i] = IF i <= a - 1 THEN s[i] ELSE new[i - (a - 1)]
      BY <2>1, <1>3 DEF k
    <3>2. CASE i < a
      BY <3>1, <3>2, <1>1, <1>3
    <3>3. CASE ~(i < a)
      <4>1. ~(i <= a - 1) /\ i - (a - 1) = i - a + 1
        BY <3>3, <1>1
      <4> QED BY <3>1, <3>3, <4>1
    <3> QED BY <3>2, <3>3
  <2> QED BY <2>1, <2>2, <2>3
<1>6. w = Replaced(seq, run, new)
  BY DEF Replaced, a, b, n, s, t
<1> HIDE DEF v
<1>7. /\ w \in Seq(T) /\ Len(w) = Len(v) + Len(t)
      /\ \A i \in 1..Len(v) + Len(t) :
           w[i] = IF i <= Len(v) THEN v[i] ELSE t[i - Len(v)]
  BY <1>4, <1>5, ConcatProperties
<1> HIDE DEF w
<1> DEFINE c == b - a + 1
<1>8. Len(v) + Len(t) = n - c + k
  BY <1>1, <1>4, <1>5, SMTT(20)
<1>9. ASSUME NEW i \in 1..n - c + k
      PROVE  w[i] = IF i < a THEN seq[i] ELSE IF i < a + k THEN new[i - a + 1] ELSE seq[i - k + c]
  <2>1. w[i] = IF i <= (a - 1) + k THEN v[i] ELSE t[i - ((a - 1) + k)]
    BY <1>5, <1>7, <1>8
  <2>2. CASE i <= (a - 1) + k
    <3>1. i \in 1..(a - 1) + k /\ i < a + k
      BY <2>2, <1>1
    <3> QED BY <2>1, <2>2, <3>1, <1>5
  <2>3. CASE ~(i <= (a - 1) + k)
    <3>1. /\ ~(i < a) /\ ~(i < a + k) /\ i - ((a - 1) + k) \in 1..(n - b)
          /\ b + (i - ((a - 1) + k)) = i - k + c
      BY <2>3, <1>1
    <3>2. w[i] = seq[b + (i - ((a - 1) + k))]
      BY <2>1, <2>3, <3>1, <1>4
    <3> HIDE DEF c
    <3> QED BY <3>1, <3>2
  <2> QED BY <2>2, <2>3
<1> QED BY <1>6, <1>7, <1>8, <1>9, Zenon DEF Spliced, Count, a, b, n, k

\* What the entries of a table have been through.
Lives == SUBSET [rewrites : Nat, gone : Nat]

\* The rewrites of entries are paid for by the size of their table and by the bytes
\* that have gone.
Paid(sz, es) == \A e \in es : e.rewrites <= fastlog2[sz] + e.gone

PolicyInv ==
  /\ sizes \in Sizes /\ entries \in Seq(Lives) /\ Len(sizes) = Len(entries)
  /\ \A i \in 1..Len(sizes) : Paid(sizes[i], entries[i])

\* Adding a table keeps the invariant.
LEMMA AddKeeps ==
  ASSUME PolicyInv, NEW sz \in NewSizes, Add(sz)
  PROVE  PolicyInv'
<1> DEFINE n == Len(sizes)
<1>1. sz \in Nat \ {0} /\ {Fresh} \in Lives /\ fastlog2[sz] \in Nat
  BY SizesAssumption, LogIs DEF Lives, Fresh
<1>2. /\ sizes' \in Sizes /\ Len(sizes') = n + 1
      /\ \A i \in 1..n : sizes'[i] = sizes[i]
      /\ sizes'[n + 1] = sz
  BY <1>1, AppendProperties DEF PolicyInv, Sizes, Add
<1>3. /\ entries' \in Seq(Lives) /\ Len(entries') = n + 1
      /\ \A i \in 1..n : entries'[i] = entries[i]
      /\ entries'[n + 1] = {Fresh}
  BY <1>1, AppendProperties DEF PolicyInv, Add
<1>4. n \in Nat
  BY BoundsAre DEF PolicyInv
<1>5. ASSUME NEW i \in 1..n + 1 PROVE Paid(sizes'[i], entries'[i])
  <2>1. CASE i \in 1..n
    BY <2>1, <1>2, <1>3 DEF PolicyInv
  <2>2. CASE i = n + 1
    BY <2>2, <1>1, <1>2, <1>3 DEF Paid, Fresh
  <2> QED BY <2>1, <2>2, <1>4
<1> QED BY <1>2, <1>3, <1>5 DEF PolicyInv

\* What a merge rewrites is paid for: the tables of the run are each smaller by a
\* logarithm than the run, and the merge is that large or has lost bytes.
LEMMA MergePaid ==
  ASSUME PolicyInv, NEW run \in Suggested(sizes), NEW sz \in Nat \ {0}
  PROVE  Rewritten(run, sz) \in Lives /\ Paid(sz, Rewritten(run, sz))
<1> DEFINE bytes == Bytes(sizes, run.first, run.last)
           lost  == IF sz < bytes THEN bytes - sz ELSE 0
<1>1. sizes \in Sizes /\ entries \in Seq(Lives) /\ Len(sizes) \in Nat /\ Len(entries) = Len(sizes)
  BY BoundsAre DEF PolicyInv
<1>2. run.first \in 1..Len(sizes) /\ run.last \in run.first..Len(sizes)
  <2>1. PICK start \in Nat : run.first \in 1..start /\ run.last \in (start + 1)..Len(sizes)
    BY <1>1, SuggestedIs
  <2> QED BY <2>1, <1>1
<1>3. bytes \in Nat \ {0} /\ fastlog2[bytes] \in Nat /\ fastlog2[sz] \in Nat
  BY <1>1, <1>2, BytesSplit, LogIs
<1>4. \A k \in run.first..run.last : Log(sizes, k) + 1 <= fastlog2[bytes]
  BY <1>1, RunGrows
<1> HIDE DEF bytes
<1>5. lost \in Nat /\ fastlog2[bytes] <= fastlog2[sz] + lost
  <2>1. CASE sz < bytes
    <3>1. bytes - sz \in Nat /\ sz + (bytes - sz) = bytes
      BY <2>1, <1>3
    <3>2. fastlog2[sz + (bytes - sz)] <= fastlog2[sz] + (bytes - sz)
      BY <3>1, LogShrinks
    <3> QED BY <2>1, <3>1, <3>2
  <2>2. CASE ~(sz < bytes)
    BY <2>2, <1>3, LogGrows
  <2> QED BY <2>1, <2>2
<1> HIDE DEF lost
<1>6. ASSUME NEW i \in run.first..run.last, NEW e \in entries[i]
      PROVE  /\ e.rewrites \in Nat /\ e.gone \in Nat
             /\ e.rewrites + 1 <= fastlog2[sz] + (e.gone + lost)
  <2>1. i \in 1..Len(sizes)
    BY <1>1, <1>2
  <2>2. entries[i] \in Lives
    BY <1>1, <2>1, ElementOfSeq
  <2>3. e.rewrites \in Nat /\ e.gone \in Nat
    BY <2>2 DEF Lives
  <2>4. e.rewrites <= Log(sizes, i) + e.gone
    BY <2>1 DEF PolicyInv, Paid, Log
  <2>5. Log(sizes, i) \in Nat
    BY <1>1, <2>1, LogType
  <2>6. Log(sizes, i) + 1 <= fastlog2[bytes]
    BY <1>4
  <2> QED BY <2>3, <2>4, <2>5, <2>6, <1>3, <1>5
<1>7. Rewritten(run, sz) = {[rewrites |-> e.rewrites + 1, gone |-> e.gone + lost] :
                              e \in UNION {entries[i] : i \in run.first..run.last}}
  BY DEF Rewritten, lost, bytes
<1>8. ASSUME NEW x \in Rewritten(run, sz)
      PROVE  x \in [rewrites : Nat, gone : Nat] /\ x.rewrites <= fastlog2[sz] + x.gone
  <2>1. PICK i \in run.first..run.last : \E e \in entries[i] :
          x = [rewrites |-> e.rewrites + 1, gone |-> e.gone + lost]
    BY <1>7
  <2>2. PICK e \in entries[i] : x = [rewrites |-> e.rewrites + 1, gone |-> e.gone + lost]
    BY <2>1
  <2>3. x.rewrites = e.rewrites + 1 /\ x.gone = e.gone + lost
    BY <2>2
  <2>4. e.rewrites + 1 \in Nat /\ e.gone + lost \in Nat
    BY <1>5, <1>6
  <2> QED BY <2>2, <2>3, <2>4, <1>6
<1> QED BY <1>8 DEF Lives, Paid

\* Replacing a run by one table or none keeps the invariant, if that table is paid for.
LEMMA ReplacedKeeps ==
  ASSUME PolicyInv, NEW run \in Suggested(sizes), NEW ss \in Sizes, NEW es \in Seq(Lives),
         Len(ss) = Len(es), \A i \in 1..Len(ss) : Paid(ss[i], es[i]),
         sizes' = Replaced(sizes, run, ss), entries' = Replaced(entries, run, es)
  PROVE  PolicyInv'
<1> DEFINE a == run.first
           c == Count(run)
           n == Len(sizes)
           k == Len(ss)
<1>1. /\ sizes \in Seq(Nat \ {0}) /\ entries \in Seq(Lives) /\ n \in Nat /\ Len(entries) = n
      /\ ss \in Seq(Nat \ {0}) /\ k \in Nat
  BY BoundsAre DEF PolicyInv, Sizes
<1>2. a \in 1..n /\ run.last \in a..n
  <2>1. PICK start \in Nat : a \in 1..start /\ run.last \in (start + 1)..n
    BY SuggestedIs DEF PolicyInv
  <2> HIDE DEF a, n
  <2> QED BY <2>1, <1>1
<1>3. /\ sizes' \in Seq(Nat \ {0}) /\ Len(sizes') = n - c + k
      /\ \A i \in 1..n - c + k :
           sizes'[i] = IF i < a THEN sizes[i] ELSE IF i < a + k THEN ss[i - a + 1] ELSE sizes[i - k + c]
  <2> DEFINE T == Nat \ {0}
  <2>1. sizes \in Seq(T) /\ ss \in Seq(T) /\ sizes' = Replaced(sizes, run, ss)
    BY <1>1
  <2> HIDE DEF T
  <2>2. Spliced(T, sizes', sizes, run, ss)
    BY <2>1, <1>2, ReplacedAt
  <2> QED BY <2>2, Zenon DEF Spliced, T
<1>4. /\ entries' \in Seq(Lives) /\ Len(entries') = n - c + k
      /\ \A i \in 1..n - c + k :
           entries'[i] = IF i < a THEN entries[i] ELSE IF i < a + k THEN es[i - a + 1]
                         ELSE entries[i - k + c]
  <2>1. a \in 1..Len(entries) /\ run.last \in a..Len(entries)
    BY <1>1, <1>2
  <2>2. Spliced(Lives, entries', entries, run, es)
    BY <2>1, <1>1, ReplacedAt
  <2> QED BY <2>2, <1>1, Zenon DEF Spliced
<1>5. c \in Nat
  BY <1>1, <1>2 DEF Count
<1> HIDE DEF a, c, n, k
<1>6. ASSUME NEW i \in 1..n - c + k PROVE Paid(sizes'[i], entries'[i])
  <2>1. CASE i < a
    <3>1. i \in 1..n
      BY <2>1, <1>1, <1>2
    <3> QED BY <2>1, <3>1, <1>3, <1>4 DEF PolicyInv, n
  <2>2. CASE ~(i < a) /\ i < a + k
    <3>1. i - a + 1 \in 1..k
      BY <2>2, <1>1, <1>2
    <3> QED BY <2>2, <3>1, <1>3, <1>4 DEF k
  <2>3. CASE ~(i < a) /\ ~(i < a + k)
    <3>1. i - k + c \in 1..n
      BY <2>3, <1>1, <1>2, <1>5
    <3> QED BY <2>3, <3>1, <1>3, <1>4 DEF PolicyInv, n
  <2> QED BY <2>1, <2>2, <2>3
<1> QED BY <1>3, <1>4, <1>6 DEF PolicyInv, Sizes

\* Compacting the suggested run keeps the invariant, however large its merge is.
LEMMA AutoCompactKeeps ==
  ASSUME PolicyInv, AutoCompact
  PROVE  PolicyInv'
<1>1. PICK run \in Suggested(sizes) :
        \/ sizes' = Replaced(sizes, run, <<>>) /\ entries' = Replaced(entries, run, <<>>)
        \/ \E sz \in 1..MaxMerged : /\ sizes' = Replaced(sizes, run, <<sz>>)
                                    /\ entries' = Replaced(entries, run, <<Rewritten(run, sz)>>)
  BY DEF AutoCompact
<1>2. CASE sizes' = Replaced(sizes, run, <<>>) /\ entries' = Replaced(entries, run, <<>>)
  <2> DEFINE none == <<>>
  <2>1. none \in Sizes /\ none \in Seq(Lives) /\ Len(none) = 0
    BY DEF Sizes
  <2>2. sizes' = Replaced(sizes, run, none) /\ entries' = Replaced(entries, run, none)
    BY <1>2
  <2> HIDE DEF none
  <2>3. \A i \in 1..Len(none) : Paid(none[i], none[i])
    BY <2>1
  <2> QED BY <2>1, <2>2, <2>3, ReplacedKeeps
<1>3. ASSUME NEW sz \in 1..MaxMerged, sizes' = Replaced(sizes, run, <<sz>>),
             entries' = Replaced(entries, run, <<Rewritten(run, sz)>>)
      PROVE  PolicyInv'
  <2> DEFINE es == Rewritten(run, sz)
             one == <<sz>>
             its == <<es>>
  <2>1. sz \in Nat \ {0}
    BY SizesAssumption
  <2>2. es \in Lives /\ Paid(sz, es)
    BY <2>1, MergePaid
  <2>3. sizes' = Replaced(sizes, run, one) /\ entries' = Replaced(entries, run, its)
    BY <1>3
  <2> HIDE DEF es
  <2>4. /\ one \in Sizes /\ Len(one) = 1 /\ one[1] = sz
        /\ its \in Seq(Lives) /\ Len(its) = 1 /\ its[1] = es
    BY <2>1, <2>2 DEF Sizes
  <2> HIDE DEF one, its
  <2>5. \A i \in 1..Len(one) : Paid(one[i], its[i])
    BY <2>2, <2>4
  <2> QED BY <2>3, <2>4, <2>5, ReplacedKeeps
<1> QED BY <1>1, <1>2, <1>3

\* The invariant holds whatever is added and however often the advice is taken.
LEMMA PolicyInvHolds == Spec => []PolicyInv
<1>1. Init => PolicyInv
  BY EmptySeq DEF Init, PolicyInv, Sizes
<1>2. PolicyInv /\ [Next]_vars => PolicyInv'
  <2> SUFFICES ASSUME PolicyInv, [Next]_vars PROVE PolicyInv'
    OBVIOUS
  <2>1. CASE AutoCompact
    BY <2>1, AutoCompactKeeps
  <2>2. CASE \E sz \in NewSizes : Add(sz)
    BY <2>2, AddKeeps
  <2>3. CASE UNCHANGED vars
    BY <2>3 DEF vars, PolicyInv
  <2> QED BY <2>1, <2>2, <2>3 DEF Next
<1> QED BY <1>1, <1>2, PTL DEF Spec

-----------------------------------------------------------------------------
(* Theorems *)

\* What sizes_to_segments and suggest_compaction_segment choose is a run of at
\* least two tables of the stack, however many tables it has.
THEOREM AdviceWithinStack == Spec => []RunWithinStack
<1>1. PolicyInv => RunWithinStack
  <2> SUFFICES ASSUME PolicyInv, NEW run \in Suggested(sizes)
               PROVE  1 <= run.first /\ run.first < run.last /\ run.last <= Len(sizes)
    BY DEF RunWithinStack
  <2>1. sizes \in Sizes /\ Len(sizes) \in Nat
    BY BoundsAre DEF PolicyInv
  <2>2. PICK start \in Nat : run.first \in 1..start /\ run.last \in (start + 1)..Len(sizes)
    BY <2>1, SuggestedIs
  <2> QED BY <2>1, <2>2
<1> QED BY <1>1, PolicyInvHolds, PTL

\* suggest_compaction_segment advises to do nothing exactly when no neighbours
\* are of one size, the last segment of the scan included.
THEOREM AdviceComplete == Spec => []QuietWhenBalanced
<1>1. PolicyInv => QuietWhenBalanced
  BY SuggestedNone, EndsAre DEF PolicyInv, QuietWhenBalanced
<1> QED BY <1>1, PolicyInvHolds, PTL

\* Every rewrite of an entry is paid for, whatever the sizes of the tables are, how
\* many of their records hide one another, and whether or not the compactions that
\* the policy advises are made: by the size its table has grown to, or by bytes that
\* were written before and are gone.  So if records never hide others, an entry in a
\* table of N bytes has been rewritten log2(N) times at most, and beyond that at
\* most once for each byte that the merges it went through have left out.
THEOREM FewRewrites == Spec => []RewritesPaid
<1>1. PolicyInv => RewritesPaid
  BY DEF PolicyInv, Paid, RewritesPaid
<1> QED BY <1>1, PolicyInvHolds, PTL
=============================================================================
