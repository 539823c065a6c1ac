-------------------------------- MODULE Lemmas --------------------------------
(***************************************************************************)
(* Lemmas the proofs share: the arithmetic behind the wrapping indices of  *)
(* src/queue.rs (wrapping_add, wrapping_sub and `index & mask()`) for any  *)
(* modulus; induction over the naturals, stated for a set instead of a     *)
(* predicate so that every prover can use it; and the functions that       *)
(* recursion over an interval defines.                                     *)
(***************************************************************************)
EXTENDS Integers, Sequences, Filtering, SequenceTheorems, WellFoundedInduction, TLAPS

\* Division with remainder: the remainder is in range and the two parts give the number
\* back.
LEMMA DivMod ==
    ASSUME NEW n \in Nat \ {0}, NEW a \in Int
    PROVE  /\ a % n \in 0 .. n - 1
           /\ a \div n \in Int
           /\ a = (n * (a \div n)) + (a % n)
OBVIOUS

\* The remainder is determined by any decomposition n * q + r with r in range.
LEMMA ModUnique ==
    ASSUME NEW n \in Nat \ {0}, NEW q \in Int, NEW r \in 0 .. n - 1
    PROVE  (n * q + r) % n = r
OBVIOUS

\* Two numbers with the same remainder that are less than n apart are equal: positions
\* within one round of the ring never share a slot.
LEMMA ModClose ==
    ASSUME NEW n \in Nat \ {0}, NEW a \in Int, NEW b \in Int,
           a % n = b % n, a - b < n, b - a < n
    PROVE  a = b
<1> DEFINE p == a \div n
           q == b \div n
           r == a % n
<1>0. p \in Int /\ q \in Int /\ r \in Int /\ a = n * p + r /\ b = n * q + r
  BY DivMod
<1>1. p \in Int /\ q \in Int /\ a - b = n * p - n * q
  <2> HIDE DEF p, q, r
  <2> QED BY <1>0
<1>1a. n * p - n * q = n * (p - q)
  BY <1>1
<1>2. p - q >= 1 => n * (p - q) >= n
  BY <1>1
<1>3. q - p >= 1 => n * (p - q) <= -n
  BY <1>1
<1>4. p = q
  <2> HIDE DEF p, q
  <2> QED BY <1>1, <1>1a, <1>2, <1>3
<1> QED
  <2> HIDE DEF p, q, r
  <2> QED BY <1>0, <1>4

\* The remainder of a number within one round of the range.
LEMMA ModSmall ==
    ASSUME NEW n \in Nat \ {0}, NEW a \in Int
    PROVE  /\ 0 <= a /\ a < n => a % n = a
           /\ n <= a /\ a < 2 * n => a % n = a - n
           /\ -n <= a /\ a < 0 => a % n = a + n
OBVIOUS

\* Going round a multiple of n leaves the remainder alone: wrapping the index does not move
\* the slot.
LEMMA ModShift ==
    ASSUME NEW n \in Nat \ {0}, NEW m \in Nat, m % n = 0, NEW a \in Int
    PROVE  (a + m) % n = a % n
<1> DEFINE p == a \div n
           q == m \div n
           r == a % n
<1>1. p \in Int /\ q \in Int /\ r \in 0 .. n - 1 /\ a = n * p + r /\ m = n * q
  BY DivMod
<1>2. a + m = n * (p + q) + r
  <2> HIDE DEF p, q, r
  <2> QED BY <1>1
<1>3. (n * (p + q) + r) % n = r
  <2> HIDE DEF p, q, r
  <2> QED BY <1>1, ModUnique
<1> QED
  BY <1>2, <1>3

\* wrapping_add(1), by cases.
LEMMA RingStep ==
    ASSUME NEW m \in Nat \ {0}, NEW i \in 0 .. m - 1
    PROVE  (i + 1) % m = IF i = m - 1 THEN 0 ELSE i + 1
<1>1. CASE i = m - 1
  <2>1. m % m = 0
    BY ModSmall
  <2> QED
    BY <1>1, <2>1
<1>2. CASE i # m - 1
  BY <1>2, ModSmall
<1> QED
  BY <1>1, <1>2

\* wrapping_sub of two indices, by cases.
LEMMA RingDistance ==
    ASSUME NEW m \in Nat \ {0}, NEW i \in 0 .. m - 1, NEW j \in 0 .. m - 1
    PROVE  (i - j) % m = IF j <= i THEN i - j ELSE i - j + m
<1>1. CASE j <= i
  BY <1>1, ModSmall
<1>2. CASE i < j
  BY <1>2, ModSmall
<1> QED
  BY <1>1, <1>2

\* Adding a multiple of n leaves the remainder alone.
LEMMA ModMultiple ==
    ASSUME NEW n \in Nat \ {0}, NEW a \in Int, NEW t \in Int
    PROVE  (a + n * t) % n = a % n
<1> DEFINE p == a \div n
           r == a % n
<1>1. p \in Int /\ r \in 0 .. n - 1 /\ a = n * p + r
  BY DivMod
<1>2. a + n * t = n * (p + t) + r
  <2> HIDE DEF p, r
  <2> QED BY <1>1
<1>3. (n * (p + t) + r) % n = r
  <2> HIDE DEF p, r
  <2> QED BY <1>1, ModUnique
<1> QED
  BY <1>2, <1>3

\* The slot of a wrapped index plus k is the slot of the unwrapped one plus k, because the
\* capacity divides the modulus.
LEMMA ModMod ==
    ASSUME NEW n \in Nat \ {0}, NEW m \in Nat \ {0}, m % n = 0,
           NEW a \in Int, NEW k \in Int
    PROVE  ((a % m) + k) % n = (a + k) % n
<1> DEFINE p == a \div m
           q == m \div n
           r == a % m
<1>1. p \in Int /\ q \in Int /\ r \in Int /\ a = m * p + r /\ m = n * q
  BY DivMod
<1> HIDE DEF p, q
<1>2. r + k \in Int /\ q * p \in Int
  <2> HIDE DEF r
  <2> QED BY <1>1
<1>3. a + k = (r + k) + n * (q * p)
  <2> HIDE DEF r
  <2>1. m * p = n * (q * p)
    BY <1>1
  <2>2. m * p \in Int /\ n * (q * p) \in Int
    BY <1>1, <1>2
  <2> QED BY <1>1, <2>1, <2>2
<1>4. ((r + k) + n * (q * p)) % n = (r + k) % n
  <2> HIDE DEF r
  <2> QED BY <1>2, ModMultiple, Zenon
<1> QED
  BY <1>3, <1>4

\* Walking the wrapped distance from j to i ends in the slot of i.
LEMMA SlotAtDistance ==
    ASSUME NEW n \in Nat \ {0}, NEW m \in Nat \ {0}, m % n = 0,
           NEW i \in 0 .. m - 1, NEW j \in 0 .. m - 1
    PROVE  (j + ((i - j) % m)) % n = i % n
<1>1. CASE j <= i
  BY <1>1, RingDistance
<1>2. CASE i < j
  <2>1. j + ((i - j) % m) = i + m
    BY <1>2, RingDistance
  <2>2. (i + m) % n = i % n
    <3>1. i \in Int /\ m \in Nat
      OBVIOUS
    <3> QED
      BY <3>1, ModShift, Zenon
  <2> QED
    BY <2>1, <2>2
<1> QED
  BY <1>1, <1>2

-----------------------------------------------------------------------------
(* Induction *)

\* The least-number principle, for a set.
LEMMA LeastNatural ==
    ASSUME NEW S \in SUBSET Nat, S # {}
    PROVE  \E m \in S : \A n \in S : m <= n
<1> DEFINE R == {ss \in Nat \X Nat : ss[1] < ss[2]}
<1>1. IsWellFoundedOn(R, Nat)
  BY NatLessThanWellFounded DEF OpToRel
<1>2. \A x, y \in Nat : y < x => <<y, x>> \in R
  OBVIOUS
<1> HIDE DEF R
<1>3. PICK x \in S : \A y \in S : ~(<<y, x>> \in R)
  BY <1>1, WFMin
<1>4. \A y \in S : ~(y < x)
  BY <1>2, <1>3
<1> QED
  BY <1>4

\* A set of naturals that has 0 and the successor of each of its members has them all.
LEMMA SetInduction ==
    ASSUME NEW S \in SUBSET Nat, 0 \in S, \A n \in S : n + 1 \in S
    PROVE  S = Nat
<1> SUFFICES ASSUME Nat \ S # {} PROVE FALSE
  OBVIOUS
<1>1. PICK m \in Nat \ S : \A n \in Nat \ S : m <= n
  BY LeastNatural
<1>2. m # 0 /\ m - 1 \in Nat /\ m - 1 \notin Nat \ S
  BY <1>1
<1> QED
  BY <1>2

\* Each of the steps F[1] .. F[n] stays in S.
StaysIn(S, n, F) == \A i \in 1 .. n : \A v \in S : F[i][v] \in S

\* f holds the values that the steps F[1] .. F[n] lead to from z.
Iterates(S, n, F, z, f) ==
    /\ f \in [0 .. n -> S] /\ f[0] = z
    /\ \A i \in 1 .. n : f[i] = F[i][f[i - 1]]

\* Iterating steps that stay in a set defines a function.
LEMMA IterationExists ==
    ASSUME NEW S, NEW n \in Nat, NEW F, StaysIn(S, n, F), NEW z \in S
    PROVE  \E f : Iterates(S, n, F, z, f)
<1> DEFINE Good(k, f) == f[0] = z /\ \A i \in 1 .. k : f[i] = F[i][f[i - 1]]
           Has(k) == \E f \in [0 .. k -> S] : Good(k, f)
           K == {k \in Nat : k <= n => Has(k)}
<1>1. 0 \in K
  <2> DEFINE f == [i \in 0 .. 0 |-> z]
  <2>1. f \in [0 .. 0 -> S] /\ Good(0, f)
    OBVIOUS
  <2> QED
    BY <2>1
<1>2. ASSUME NEW k \in K PROVE k + 1 \in K
  <2> SUFFICES ASSUME k + 1 <= n PROVE Has(k + 1)
    <3> HIDE DEF Has
    <3> QED OBVIOUS
  <2>1. PICK g \in [0 .. k -> S] : Good(k, g)
    BY <1>2
  <2> DEFINE f == [i \in 0 .. k + 1 |-> IF i = k + 1 THEN F[k + 1][g[k]] ELSE g[i]]
  <2>2. F[k + 1][g[k]] \in S
    <3>1. k + 1 \in 1 .. n /\ k \in 0 .. k
      BY <1>2
    <3> QED
      BY <3>1 DEF StaysIn
  <2>3. f \in [0 .. k + 1 -> S]
    BY <2>2
  <2>4. f[0] = z
    BY <2>1
  <2>5. ASSUME NEW i \in 1 .. k + 1 PROVE f[i] = F[i][f[i - 1]]
    <3>1. CASE i = k + 1
      BY <3>1
    <3>2. CASE i # k + 1
      <4>1. i \in 1 .. k /\ i - 1 \in 0 .. k /\ i - 1 # k + 1
        BY <3>2
      <4> QED
        BY <2>1, <4>1
    <3> QED
      BY <3>1, <3>2
  <2> QED
    BY <2>3, <2>4, <2>5
<1>3. K \in SUBSET Nat
  OBVIOUS
<1> HIDE DEF K
<1>4. n \in K
  BY <1>1, <1>2, <1>3, SetInduction
<1> QED
  BY <1>4 DEF K, Iterates

-----------------------------------------------------------------------------
(* Filtering *)

\* kept holds the results of filtering s up to each position.
FilterRun(S, s, T, kept) ==
    /\ kept \in [0 .. Len(s) -> Seq(S)] /\ kept[0] = <<>>
    /\ \A i \in 1 .. Len(s) :
         kept[i] = IF s[i] \in T THEN Append(kept[i - 1], s[i]) ELSE kept[i - 1]

\* The recursion that defines Filter has a solution, and Filter is its last value.
LEMMA FilterUnfolds ==
    ASSUME NEW S, NEW s \in Seq(S), NEW T
    PROVE  \E kept : FilterRun(S, s, T, kept) /\ Filter(s, T) = kept[Len(s)]
<1> DEFINE n == Len(s)
           Q == Seq(S)
           z == <<>>
           F == [i \in 1 .. n |-> [v \in Q |-> IF s[i] \in T THEN Append(v, s[i]) ELSE v]]
           Step(f) == [i \in 0 .. n |-> IF i = 0 THEN <<>> ELSE IF s[i] \in T
                                        THEN Append(f[i - 1], s[i]) ELSE f[i - 1]]
           g == CHOOSE f : f = Step(f)
<1>1. n \in Nat /\ \A i \in 1 .. n : s[i] \in S
  OBVIOUS
<1>2. Filter(s, T) = g[n]
  BY DEF Filter
<1>3. \A i \in 1 .. n, v \in Q : F[i][v] = IF s[i] \in T THEN Append(v, s[i]) ELSE v
  OBVIOUS
<1>4. StaysIn(Q, n, F) /\ z \in Q
  <2>1. ASSUME NEW i \in 1 .. n, NEW v \in Q PROVE F[i][v] \in Q
    <3>1. s[i] \in S
      BY <1>1
    <3>2. Append(v, s[i]) \in Q
      BY <3>1
    <3> HIDE DEF F, Q
    <3> QED BY <1>3, <3>2
  <2> HIDE DEF F, Q
  <2>2. StaysIn(Q, n, F)
    BY <2>1 DEF StaysIn
  <2>3. z \in Q
    BY DEF Q
  <2> QED
    BY <2>2, <2>3
<1> HIDE DEF F, n, z, Q
<1>5. \E f : f = Step(f)
  <2> HIDE DEF Step
  <2>1. \E f : Iterates(Q, n, F, z, f)
    BY <1>1, <1>4, IterationExists
  <2>2. PICK f : Iterates(Q, n, F, z, f)
    BY <2>1
  <2>3. f \in [0 .. n -> Q] /\ f[0] = <<>> /\ \A i \in 1 .. n : f[i] = F[i][f[i - 1]]
    BY <2>2 DEF Iterates, z
  <2>4. ASSUME NEW i \in 0 .. n PROVE f[i] = Step(f)[i]
    <3>1. CASE i = 0
      BY <2>3, <3>1 DEF Step
    <3>2. CASE i # 0
      <4>1. i \in 1 .. n /\ i - 1 \in 0 .. n
        BY <1>1, <3>2
      <4>2. f[i - 1] \in Q
        BY <2>3, <4>1
      <4>3. f[i] = IF s[i] \in T THEN Append(f[i - 1], s[i]) ELSE f[i - 1]
        BY <1>3, <2>3, <4>1, <4>2
      <4> QED
        BY <3>2, <4>1, <4>3 DEF Step
    <3> QED
      BY <3>1, <3>2
  <2>5. f = [i \in 0 .. n |-> f[i]] /\ Step(f) = [i \in 0 .. n |-> Step(f)[i]]
    BY <2>3 DEF Step
  <2> QED
    BY <2>4, <2>5
<1>6. g = Step(g)
  BY <1>5
<1> HIDE DEF g
<1>7. /\ g[0] = <<>>
      /\ \A i \in 1 .. n : g[i] = IF s[i] \in T THEN Append(g[i - 1], s[i]) ELSE g[i - 1]
  <2>1. ASSUME NEW i \in 0 .. n PROVE g[i] = Step(g)[i]
    <3> HIDE DEF Step
    <3> QED BY <1>6
  <2>2. 0 \in 0 .. n /\ \A i \in 1 .. n : i \in 0 .. n /\ i # 0
    BY <1>1
  <2> QED
    BY <2>1, <2>2
<1> DEFINE K == {k \in Nat : k <= n => g[k] \in Q}
<1>8. 0 \in K
  BY <1>4, <1>7 DEF z
<1>9. ASSUME NEW k \in K PROVE k + 1 \in K
  <2> SUFFICES ASSUME k + 1 <= n PROVE g[k + 1] \in Q
    OBVIOUS
  <2>1. k + 1 \in 1 .. n /\ (k + 1) - 1 = k /\ g[k] \in Q
    BY <1>1, <1>9
  <2>2. s[k + 1] \in S
    BY <1>1, <2>1
  <2>3. g[k + 1] = IF s[k + 1] \in T THEN Append(g[k], s[k + 1]) ELSE g[k]
    BY <1>7, <2>1
  <2>4. Append(g[k], s[k + 1]) \in Q
    BY <2>1, <2>2 DEF Q
  <2> QED
    BY <2>1, <2>3, <2>4
<1>10. K \in SUBSET Nat
  OBVIOUS
<1>11. \A k \in 0 .. n : g[k] \in Q
  <2> HIDE DEF K
  <2>1. K = Nat
    BY <1>8, <1>9, <1>10, SetInduction
  <2> QED
    BY <1>1, <2>1 DEF K
<1>12. g \in [0 .. n -> Q]
  <2>1. g = [i \in 0 .. n |-> Step(g)[i]]
    BY <1>6
  <2> HIDE DEF Step
  <2> QED BY <1>11, <2>1
<1>13. FilterRun(S, s, T, g)
  BY <1>7, <1>12 DEF FilterRun, n, Q
<1> QED
  BY <1>2, <1>13 DEF n

\* Filtering an empty vector, and one more element.
LEMMA FilterEmpty ==
    ASSUME NEW T
    PROVE  Filter(<<>>, T) = <<>>
<1>1. <<>> \in Seq({})
  OBVIOUS
<1>2. PICK kept : FilterRun({}, <<>>, T, kept) /\ Filter(<<>>, T) = kept[Len(<<>>)]
  BY <1>1, FilterUnfolds
<1> QED
  BY <1>2 DEF FilterRun

\* One element more.
LEMMA FilterAppend ==
    ASSUME NEW S, NEW s \in Seq(S), NEW x \in S, NEW T
    PROVE  Filter(Append(s, x), T) = IF x \in T THEN Append(Filter(s, T), x) ELSE Filter(s, T)
<1> DEFINE t == Append(s, x)
           n == Len(s)
<1>1. t \in Seq(S) /\ n \in Nat /\ Len(t) = n + 1 /\ t[n + 1] = x /\ \A i \in 1 .. n : t[i] = s[i]
  OBVIOUS
<1>2. PICK f : FilterRun(S, s, T, f) /\ Filter(s, T) = f[Len(s)]
  BY FilterUnfolds
<1> HIDE DEF t
<1>3. PICK g : FilterRun(S, t, T, g) /\ Filter(t, T) = g[Len(t)]
  BY <1>1, FilterUnfolds
<1>4. /\ f[0] = <<>> /\ Filter(s, T) = f[n]
      /\ \A i \in 1 .. n : f[i] = IF s[i] \in T THEN Append(f[i - 1], s[i]) ELSE f[i - 1]
  BY <1>2 DEF FilterRun
<1>5. /\ g[0] = <<>> /\ Filter(t, T) = g[n + 1]
      /\ \A i \in 1 .. n + 1 : g[i] = IF t[i] \in T THEN Append(g[i - 1], t[i]) ELSE g[i - 1]
  BY <1>1, <1>3 DEF FilterRun
<1> HIDE DEF n
<1> DEFINE K == {k \in Nat : k <= n => f[k] = g[k]}
<1>6. 0 \in K
  BY <1>4, <1>5
<1>7. ASSUME NEW k \in K PROVE k + 1 \in K
  <2> SUFFICES ASSUME k + 1 <= n PROVE f[k + 1] = g[k + 1]
    OBVIOUS
  <2>1. k + 1 \in 1 .. n /\ k + 1 \in 1 .. n + 1 /\ (k + 1) - 1 = k /\ f[k] = g[k]
    BY <1>1, <1>7
  <2>2. t[k + 1] = s[k + 1]
    BY <1>1, <2>1
  <2> QED
    BY <1>4, <1>5, <2>1, <2>2
<1>8. K \in SUBSET Nat
  OBVIOUS
<1>9. f[n] = g[n]
  <2> HIDE DEF K
  <2>1. K = Nat
    BY <1>6, <1>7, <1>8, SetInduction
  <2> QED
    BY <1>1, <2>1 DEF K
<1>10. n + 1 \in 1 .. n + 1 /\ (n + 1) - 1 = n
  BY <1>1
<1>11. Filter(t, T) = IF x \in T THEN Append(g[n], x) ELSE g[n]
  BY <1>1, <1>5, <1>10
<1> QED
  BY <1>4, <1>9, <1>11 DEF t

\* A property of every vector over S, given as the set of the vectors that have it, holds
\* when the empty vector has it and one more element keeps it.
LEMMA VectorInduction ==
    ASSUME NEW S, NEW P, <<>> \in P,
           \A s \in Seq(S) : \A x \in S : s \in P => Append(s, x) \in P
    PROVE  Seq(S) \subseteq P
<1> DEFINE K == {k \in Nat : \A s \in Seq(S) : Len(s) = k => s \in P}
<1>1. 0 \in K
  <2>1. \A s \in Seq(S) : Len(s) = 0 => s = <<>>
    BY EmptySeq
  <2> QED
    BY <2>1
<1>2. ASSUME NEW k \in K PROVE k + 1 \in K
  <2> SUFFICES ASSUME NEW s \in Seq(S), Len(s) = k + 1 PROVE s \in P
    OBVIOUS
  <2> DEFINE r == SubSeq(s, 1, k)
  <2>1. k \in Nat /\ \A v \in Seq(S) : Len(v) = k => v \in P
    BY <1>2
  <2>2. r \in Seq(S) /\ Len(r) = k /\ s[k + 1] \in S
    BY <2>1
  <2>3. s = Append(r, s[k + 1])
    BY <2>1
  <2> HIDE DEF r
  <2> QED
    BY <2>1, <2>2, <2>3
<1>3. K \in SUBSET Nat
  OBVIOUS
<1> HIDE DEF K
<1>4. K = Nat
  BY <1>1, <1>2, <1>3, SetInduction
<1>5. ASSUME NEW s \in Seq(S) PROVE s \in P
  <2>1. Len(s) \in Nat
    OBVIOUS
  <2> QED
    BY <1>4, <2>1 DEF K
<1> QED
  BY <1>5

\* Filtering keeps elements of the vector that are in T, only.
LEMMA FilterType ==
    ASSUME NEW S, NEW s \in Seq(S), NEW T
    PROVE  Filter(s, T) \in Seq(S \cap T)
<1> DEFINE P == {v \in Seq(S) : Filter(v, T) \in Seq(S \cap T)}
<1>1. <<>> \in P
  <2>1. <<>> \in Seq(S) /\ <<>> \in Seq(S \cap T)
    OBVIOUS
  <2>2. Filter(<<>>, T) = <<>>
    BY FilterEmpty, Zenon
  <2> QED
    BY <2>1, <2>2, Zenon
<1>2. ASSUME NEW v \in Seq(S), NEW x \in S, v \in P PROVE Append(v, x) \in P
  <2>1. Append(v, x) \in Seq(S) /\ Filter(v, T) \in Seq(S \cap T)
    BY <1>2
  <2>2. Filter(Append(v, x), T) = IF x \in T THEN Append(Filter(v, T), x) ELSE Filter(v, T)
    BY FilterAppend
  <2>3. x \in T => Append(Filter(v, T), x) \in Seq(S \cap T)
    BY <2>1
  <2> QED
    BY <2>1, <2>2, <2>3
<1> HIDE DEF P
<1>3. Seq(S) \subseteq P
  BY <1>1, <1>2, VectorInduction
<1> QED
  BY <1>3 DEF P

\* Filtering two vectors one after the other.
LEMMA FilterConcat ==
    ASSUME NEW S, NEW s \in Seq(S), NEW t \in Seq(S), NEW T
    PROVE  Filter(s \o t, T) = Filter(s, T) \o Filter(t, T)
<1> DEFINE P == {v \in Seq(S) : Filter(s \o v, T) = Filter(s, T) \o Filter(v, T)}
<1>1. Filter(s, T) \in Seq(S)
  <2>1. Filter(s, T) \in Seq(S \cap T)
    BY FilterType
  <2>2. Seq(S \cap T) \subseteq Seq(S)
    OBVIOUS
  <2> QED
    BY <2>1, <2>2
<1>2. <<>> \in P
  <2>1. s \o <<>> = s /\ Filter(s, T) \o <<>> = Filter(s, T)
    BY <1>1
  <2>2. Filter(<<>>, T) = <<>> /\ <<>> \in Seq(S)
    BY FilterEmpty
  <2> QED
    BY <2>1, <2>2
<1>3. ASSUME NEW v \in Seq(S), NEW x \in S, v \in P PROVE Append(v, x) \in P
  <2> DEFINE w == s \o v
  <2>1. w \in Seq(S) /\ s \o Append(v, x) = Append(w, x) /\ Append(v, x) \in Seq(S)
    OBVIOUS
  <2>2. Filter(w, T) = Filter(s, T) \o Filter(v, T)
    BY <1>3
  <2> HIDE DEF w
  <2>3. Filter(Append(w, x), T) = IF x \in T THEN Append(Filter(w, T), x) ELSE Filter(w, T)
    BY <2>1, FilterAppend
  <2>4. Filter(Append(v, x), T) = IF x \in T THEN Append(Filter(v, T), x) ELSE Filter(v, T)
    BY FilterAppend
  <2>5. Filter(v, T) \in Seq(S)
    <3>1. Filter(v, T) \in Seq(S \cap T)
      BY FilterType
    <3>2. Seq(S \cap T) \subseteq Seq(S)
      OBVIOUS
    <3> QED
      BY <3>1, <3>2
  <2>6. Filter(s, T) \o Append(Filter(v, T), x) = Append(Filter(s, T) \o Filter(v, T), x)
    <3> DEFINE a == Filter(s, T)
               b == Filter(v, T)
    <3>1. a \in Seq(S) /\ b \in Seq(S)
      BY <1>1, <2>5
    <3> HIDE DEF a, b
    <3>2. a \o Append(b, x) = Append(a \o b, x)
      BY <3>1
    <3> QED
      BY <3>2 DEF a, b
  <2>7. Filter(s \o Append(v, x), T) = Filter(s, T) \o Filter(Append(v, x), T)
    BY <2>1, <2>2, <2>3, <2>4, <2>6
  <2> QED
    BY <2>1, <2>7
<1> HIDE DEF P
<1>4. Seq(S) \subseteq P
  BY <1>2, <1>3, VectorInduction
<1> QED
  BY <1>4 DEF P

-----------------------------------------------------------------------------
(* The messages of a script, whose frames carry their positions as ids *)

IdsOf(s) == [i \in 1 .. Len(s) |-> s[i].id]
Rising(l) == \A i, j \in 1 .. Len(l) : i < j => l[i] < l[j]
Prefix(l, all) == Len(l) <= Len(all) /\ \A i \in 1 .. Len(l) : l[i] = all[i]
Numbered(s) == \A i \in 1 .. Len(s) : s[i].id = i

\* The ids of the messages among the first k frames.
Parsed(s, T, k) == IdsOf(Filter(SubSeq(s, 1, k), T))

\* The ids of a concatenation.
LEMMA IdsConcat ==
    ASSUME NEW S, NEW a \in Seq(S), NEW b \in Seq(S)
    PROVE  IdsOf(a \o b) = IdsOf(a) \o IdsOf(b)
  BY DEF IdsOf

\* Ids are as many as the frames.
LEMMA IdsType ==
    ASSUME NEW S, NEW a \in Seq(S), \A x \in S : x.id \in Nat
    PROVE  IdsOf(a) \in Seq(Nat) /\ Len(IdsOf(a)) = Len(a)
  BY DEF IdsOf

\* Filtering a range of s after the frames in front of it.
LEMMA FilteredRange ==
    ASSUME NEW S, NEW s \in Seq(S), NEW T, NEW k \in Nat, NEW q \in Nat, k <= q, q <= Len(s)
    PROVE  /\ Filter(SubSeq(s, 1, q), T)
                = Filter(SubSeq(s, 1, k), T) \o Filter(SubSeq(s, k + 1, q), T)
           /\ Parsed(s, T, q) = Parsed(s, T, k) \o IdsOf(Filter(SubSeq(s, k + 1, q), T))
<1> DEFINE a == SubSeq(s, 1, k)
           b == SubSeq(s, k + 1, q)
           c == SubSeq(s, 1, q)
<1>1. a \in Seq(S) /\ b \in Seq(S) /\ c = a \o b
  OBVIOUS
<1> HIDE DEF a, b, c
<1>2. Filter(c, T) = Filter(a, T) \o Filter(b, T)
  BY <1>1, FilterConcat
<1>3. Filter(a, T) \in Seq(S \cap T) /\ Filter(b, T) \in Seq(S \cap T)
  BY <1>1, FilterType
<1>4. IdsOf(Filter(c, T)) = IdsOf(Filter(a, T)) \o IdsOf(Filter(b, T))
  BY <1>2, <1>3, IdsConcat
<1> QED
  BY <1>2, <1>4 DEF Parsed, a, b, c

\* The messages of a longer part of the script continue those of a shorter one.
LEMMA ParsedPrefix ==
    ASSUME NEW S, NEW s \in Seq(S), \A x \in S : x.id \in Nat, NEW T, NEW k \in 0 .. Len(s)
    PROVE  Prefix(Parsed(s, T, k), IdsOf(Filter(s, T)))
<1> DEFINE n == Len(s)
           a == Parsed(s, T, k)
           b == IdsOf(Filter(SubSeq(s, k + 1, n), T))
<1>1. n \in Nat /\ k \in Nat /\ k <= n /\ SubSeq(s, 1, n) = s
  OBVIOUS
<1>2. SubSeq(s, 1, k) \in Seq(S) /\ SubSeq(s, k + 1, n) \in Seq(S)
  OBVIOUS
<1>3. Filter(SubSeq(s, 1, k), T) \in Seq(S \cap T) /\ Filter(SubSeq(s, k + 1, n), T) \in Seq(S \cap T)
  BY <1>2, FilterType
<1>4. a \in Seq(Nat) /\ b \in Seq(Nat)
  BY <1>3, IdsType DEF Parsed
<1> HIDE DEF n
<1>5. Parsed(s, T, n) = a \o b
  BY <1>1, FilteredRange DEF n
<1>6. IdsOf(Filter(s, T)) = a \o b
  BY <1>1, <1>5 DEF Parsed
<1> HIDE DEF a, b
<1>7. Prefix(a, a \o b)
  BY <1>4 DEF Prefix
<1> QED
  BY <1>6, <1>7 DEF a

\* The messages of a script come in the order of their positions.
LEMMA ParsedRising ==
    ASSUME NEW S, NEW s \in Seq(S), \A x \in S : x.id \in Nat, Numbered(s), NEW T,
           NEW k \in 0 .. Len(s)
    PROVE  /\ Parsed(s, T, k) \in Seq(Nat) /\ Rising(Parsed(s, T, k))
           /\ \A i \in 1 .. Len(Parsed(s, T, k)) : Parsed(s, T, k)[i] \in 1 .. k
<1> DEFINE n == Len(s)
           Good(m) == /\ Parsed(s, T, m) \in Seq(Nat) /\ Rising(Parsed(s, T, m))
                      /\ \A i \in 1 .. Len(Parsed(s, T, m)) : Parsed(s, T, m)[i] \in 1 .. m
           K == {m \in Nat : m <= n => Good(m)}
<1>1. 0 \in K
  <2>1. SubSeq(s, 1, 0) = <<>>
    OBVIOUS
  <2>2. Parsed(s, T, 0) = IdsOf(<<>>)
    BY <2>1, FilterEmpty DEF Parsed
  <2>3. IdsOf(<<>>) = <<>>
    BY DEF IdsOf
  <2>4. <<>> \in Seq(Nat) /\ 1 .. Len(<<>>) = {}
    OBVIOUS
  <2>5. Good(0)
    BY <2>2, <2>3, <2>4, Zenon DEF Rising
  <2> HIDE DEF Good
  <2> QED
    BY <2>5
<1>2. ASSUME NEW m \in K PROVE m + 1 \in K
  <2> SUFFICES ASSUME m + 1 <= n PROVE Good(m + 1)
    <3> HIDE DEF Good
    <3> QED OBVIOUS
  <2> DEFINE a == SubSeq(s, 1, m)
             x == s[m + 1]
             f == Filter(a, T)
             l == IdsOf(f)
  <2>1. m \in Nat /\ m <= n /\ Good(m)
    <3> HIDE DEF Good
    <3> QED BY <1>2
  <2>2. a \in Seq(S) /\ x \in S /\ SubSeq(s, 1, m + 1) = Append(a, x) /\ x.id = m + 1
    BY <2>1 DEF Numbered
  <2>3. l \in Seq(Nat) /\ Rising(l) /\ \A i \in 1 .. Len(l) : l[i] \in 1 .. m
    BY <2>1 DEF Parsed
  <2> HIDE DEF a, x, Good
  <2>4. Filter(Append(a, x), T) = IF x \in T THEN Append(f, x) ELSE f
    BY <2>2, FilterAppend
  <2>5. f \in Seq(S \cap T)
    BY <2>2, FilterType
  <2> HIDE DEF f
  <2>6. CASE x \in T
    <3>1. Parsed(s, T, m + 1) = Append(l, m + 1)
      <4>1. Parsed(s, T, m + 1) = IdsOf(Append(f, x))
        BY <2>2, <2>4, <2>6 DEF Parsed
      <4>2. x \in S \cap T
        BY <2>2, <2>6
      <4>3. IdsOf(Append(f, x)) = Append(IdsOf(f), x.id)
        BY <2>5, <4>2 DEF IdsOf
      <4> QED
        BY <2>2, <4>1, <4>3
    <3> HIDE DEF l
    <3>2. Append(l, m + 1) \in Seq(Nat) /\ Len(Append(l, m + 1)) = Len(l) + 1 /\ Len(l) \in Nat
      BY <2>1, <2>3
    <3>3. \A i \in 1 .. Len(l) + 1 : Append(l, m + 1)[i] = IF i = Len(l) + 1 THEN m + 1 ELSE l[i]
      BY <2>1, <2>3
    <3>4. Rising(Append(l, m + 1))
      BY <2>1, <2>3, <3>2, <3>3 DEF Rising
    <3>5. \A i \in 1 .. Len(l) + 1 : Append(l, m + 1)[i] \in 1 .. m + 1
      BY <2>1, <2>3, <3>2, <3>3
    <3> QED
      BY <3>1, <3>2, <3>4, <3>5 DEF Good
  <2>7. CASE x \notin T
    <3>1. Parsed(s, T, m + 1) = l
      BY <2>2, <2>4, <2>7 DEF Parsed
    <3> HIDE DEF l
    <3>2. \A i \in 1 .. Len(l) : l[i] \in 1 .. m + 1
      BY <2>1, <2>3
    <3> QED
      BY <2>3, <3>1, <3>2 DEF Good
  <2> QED
    BY <2>6, <2>7
<1>3. K \in SUBSET Nat
  OBVIOUS
<1>4. Good(k)
  <2> HIDE DEF K
  <2>1. K = Nat
    BY <1>1, <1>2, <1>3, SetInduction
  <2> HIDE DEF Good
  <2> QED
    BY <2>1 DEF K
<1> QED
  BY <1>4

-----------------------------------------------------------------------------
(* The way of a script's messages to the application *)

FramesOf(s) == {s[i] : i \in 1 .. Len(s)}
Script(s) == s \in Seq(FramesOf(s)) /\ Numbered(s)

\* Delivered, in the hands of the call in progress, and accepted but not returned yet.
Line(d, h, p) == (d \o h) \o IdsOf(p)

\* The messages come in order; without a gap they are the first ones of the script; and
\* behind them lies the bad frame the parser met.
InOrder(s, T, gap, l, broken) ==
    /\ Rising(l)
    /\ ~gap => Prefix(l, IdsOf(Filter(s, T)))
    /\ broken => \E b \in 1 .. Len(s) : \A i \in 1 .. Len(l) : l[i] < b

\* Everything read is in line, but for a gap, or in the buffer in front of an empty line of
\* messages.
Caught(s, T, read, gap, l, p, buf) ==
    /\ Len(buf) <= read
    /\ ~gap => l = Parsed(s, T, read - Len(buf))
    /\ \A i \in 1 .. Len(l) : l[i] <= read - Len(buf)
    /\ buf = SubSeq(s, read - Len(buf) + 1, read)
    /\ p # <<>> => buf = <<>>

FlowTypes(s, T, read, d, h, p, buf) ==
    /\ d \in Seq(Nat) /\ h \in Seq(Nat) /\ read \in 0 .. Len(s)
    /\ p \in Seq(FramesOf(s) \cap T) /\ buf \in Seq(FramesOf(s))

Flow(s, T, read, gap, d, h, p, buf, broken, live) ==
    /\ FlowTypes(s, T, read, d, h, p, buf)
    /\ InOrder(s, T, gap, Line(d, h, p), broken)
    /\ live => Caught(s, T, read, gap, Line(d, h, p), p, buf)

\* A frame of the script is known by its position.
LEMMA ScriptFrames ==
    ASSUME NEW s, Script(s), NEW f \in FramesOf(s)
    PROVE  f.id \in 1 .. Len(s) /\ s[f.id] = f /\ f.id \in Nat
<1>1. PICK i \in 1 .. Len(s) : f = s[i]
  BY DEF FramesOf
<1>2. Len(s) \in Nat
  BY DEF Script
<1> QED
  BY <1>1, <1>2 DEF Script, Numbered

\* The ids of the script's messages.
LEMMA AllTypes ==
    ASSUME NEW s, Script(s), NEW T
    PROVE  IdsOf(Filter(s, T)) \in Seq(Nat) /\ Len(IdsOf(Filter(s, T))) \in Nat
<1> DEFINE S == FramesOf(s)
<1>1. s \in Seq(S) /\ \A f \in S : f.id \in Nat
  BY ScriptFrames DEF Script
<1> HIDE DEF S
<1>2. Filter(s, T) \in Seq(S \cap T)
  BY <1>1, FilterType
<1>3. IdsOf(Filter(s, T)) \in Seq(Nat)
  BY <1>1, <1>2, IdsType
<1> QED
  BY <1>3

\* The types of a line.
LEMMA LineTypes ==
    ASSUME NEW s, Script(s), NEW T, NEW p \in Seq(FramesOf(s) \cap T)
    PROVE  /\ IdsOf(p) \in Seq(Nat) /\ Len(IdsOf(p)) = Len(p)
           /\ \A d, h \in Seq(Nat) : /\ Line(d, h, p) \in Seq(Nat)
                                     /\ Line(d, h, p) = d \o (h \o IdsOf(p))
<1> DEFINE S == FramesOf(s) \cap T
<1>1. \A f \in S : f.id \in Nat /\ f.id \in 1 .. Len(s)
  BY ScriptFrames
<1>2. p \in Seq(S)
  OBVIOUS
<1> HIDE DEF S
<1>3. IdsOf(p) \in Seq(Nat) /\ Len(IdsOf(p)) = Len(p)
  BY <1>1, <1>2, IdsType
<1>4. ASSUME NEW d \in Seq(Nat), NEW h \in Seq(Nat)
      PROVE  Line(d, h, p) \in Seq(Nat) /\ Line(d, h, p) = d \o (h \o IdsOf(p))
  <2> DEFINE r == IdsOf(p)
  <2>1. r \in Seq(Nat)
    BY <1>3
  <2> HIDE DEF r
  <2>2. (d \o h) \o r = d \o (h \o r)
    BY <2>1, SMTT(60)
  <2>3. (d \o h) \o r \in Seq(Nat)
    BY <2>1, ConcatProperties
  <2> QED
    BY <2>2, <2>3 DEF r, Line
<1> QED
  BY <1>3, <1>4 DEF S

\* The message that is next, and those behind it.
LEMMA HeadTypes ==
    ASSUME NEW s, Script(s), NEW T, NEW p \in Seq(FramesOf(s) \cap T), p # <<>>
    PROVE  /\ Head(p) \in FramesOf(s) \cap T /\ Head(p).id \in 1 .. Len(s)
           /\ Head(p).id \in Nat /\ <<Head(p)>> \in Seq(FramesOf(s) \cap T)
           /\ Tail(p) \in Seq(FramesOf(s) \cap T)
           /\ IdsOf(p) = <<Head(p).id>> \o IdsOf(Tail(p))
           /\ IdsOf(Tail(p)) \in Seq(Nat)
<1> DEFINE S == FramesOf(s) \cap T
           x == Head(p)
           q == Tail(p)
<1>1. \A f \in S : f.id \in Nat /\ f.id \in 1 .. Len(s)
  BY ScriptFrames
<1>2. x \in S /\ q \in Seq(S) /\ p = <<x>> \o q
  OBVIOUS
<1> HIDE DEF S, x, q
<1>3. <<x>> \in Seq(S)
  BY <1>2
<1>4. IdsOf(p) = IdsOf(<<x>>) \o IdsOf(q)
  BY <1>2, <1>3, IdsConcat
<1>5. IdsOf(<<x>>) = <<x.id>>
  BY DEF IdsOf
<1>6. IdsOf(q) \in Seq(Nat)
  BY <1>1, <1>2, IdsType
<1> QED
  BY <1>1, <1>2, <1>3, <1>4, <1>5, <1>6 DEF S, x, q

\* The front of an ordered line is ordered.
LEMMA OrderPrefix ==
    ASSUME NEW s, Script(s), NEW T, NEW gap, NEW broken, NEW broken2,
           NEW a \in Seq(Nat), NEW c \in Seq(Nat),
           InOrder(s, T, gap, a \o c, broken), broken2 => broken
    PROVE  InOrder(s, T, gap, a, broken2)
<1> DEFINE l == a \o c
           n == Len(a)
<1>1. /\ n \in Nat /\ Len(l) \in Nat /\ n <= Len(l)
      /\ \A i \in 1 .. n : i \in 1 .. Len(l) /\ l[i] = a[i]
  BY ConcatProperties
<1>2. InOrder(s, T, gap, l, broken)
  OBVIOUS
<1> HIDE DEF l
<1>3. Rising(a)
  <2> SUFFICES ASSUME NEW i \in 1 .. n, NEW j \in 1 .. n, i < j PROVE a[i] < a[j]
    BY DEF Rising
  <2>1. l[i] < l[j]
    BY <1>1, <1>2 DEF InOrder, Rising
  <2> QED
    BY <2>1, <1>1
<1>4. ASSUME ~gap PROVE Prefix(a, IdsOf(Filter(s, T)))
  <2> DEFINE all == IdsOf(Filter(s, T))
  <2>1. Len(l) <= Len(all) /\ \A i \in 1 .. Len(l) : l[i] = all[i]
    BY <1>2, <1>4 DEF InOrder, Prefix
  <2>2. Len(all) \in Nat
    BY AllTypes
  <2> HIDE DEF all
  <2>3. n <= Len(all) /\ \A i \in 1 .. n : a[i] = all[i]
    BY <1>1, <2>1, <2>2
  <2> QED
    BY <2>3 DEF all, Prefix
<1>5. ASSUME broken2 PROVE \E b \in 1 .. Len(s) : \A i \in 1 .. Len(a) : a[i] < b
  <2>1. PICK b \in 1 .. Len(s) : \A i \in 1 .. Len(l) : l[i] < b
    BY <1>2, <1>5 DEF InOrder
  <2>2. \A i \in 1 .. Len(a) : a[i] < b
    BY <2>1, <1>1
  <2> QED
    BY <2>2
<1> QED
  BY <1>3, <1>4, <1>5 DEF InOrder

\* Everything in a is in l.
Within(a, l) == \A i \in 1 .. Len(a) : \E j \in 1 .. Len(l) : a[i] = l[j]

\* A message is left out of the line.
LEMMA OrderGap ==
    ASSUME NEW s, NEW T, NEW gap, NEW broken, NEW d \in Seq(Nat), NEW x \in Nat,
           NEW r \in Seq(Nat), InOrder(s, T, gap, d \o (<<x>> \o r), broken)
    PROVE  /\ InOrder(s, T, TRUE, d \o r, broken)
           /\ Within(d \o r, d \o (<<x>> \o r))
<1> DEFINE l == d \o (<<x>> \o r)
           m == d \o r
           n == Len(d)
           k == Len(r)
           At(i) == IF i <= n THEN i ELSE i + 1
<1>1. n \in Nat /\ k \in Nat /\ Len(l) = n + 1 + k /\ Len(m) = n + k
  OBVIOUS
<1>2. \A i \in 1 .. n : l[i] = d[i] /\ m[i] = d[i]
  OBVIOUS
<1>3. \A i \in 1 .. k : l[n + 1 + i] = r[i] /\ m[n + i] = r[i]
  OBVIOUS
<1>4. InOrder(s, T, gap, l, broken)
  OBVIOUS
<1> HIDE DEF l, m, n, k
<1>5. \A i \in 1 .. n + k : m[i] = l[At(i)] /\ At(i) \in 1 .. Len(l)
  <2> SUFFICES ASSUME NEW i \in 1 .. n + k PROVE m[i] = l[At(i)] /\ At(i) \in 1 .. Len(l)
    OBVIOUS
  <2>1. CASE i <= n
    BY <2>1, <1>1, <1>2
  <2>2. CASE ~(i <= n)
    <3>1. i - n \in 1 .. k /\ n + (i - n) = i /\ n + 1 + (i - n) = i + 1
      BY <2>2, <1>1
    <3>2. l[n + 1 + (i - n)] = r[i - n] /\ m[n + (i - n)] = r[i - n]
      BY <3>1, <1>3
    <3> QED
      BY <2>2, <3>1, <3>2, <1>1
  <2> QED
    BY <2>1, <2>2
<1>6. Rising(m)
  <2> SUFFICES ASSUME NEW i \in 1 .. n + k, NEW j \in 1 .. n + k, i < j PROVE m[i] < m[j]
    BY <1>1 DEF Rising
  <2>1. At(i) < At(j) /\ At(i) \in 1 .. Len(l) /\ At(j) \in 1 .. Len(l)
    BY <1>1, <1>5
  <2> HIDE DEF At
  <2>2. l[At(i)] < l[At(j)]
    BY <2>1, <1>4 DEF InOrder, Rising
  <2> QED
    BY <2>2, <1>5
<1>7. ASSUME broken PROVE \E b \in 1 .. Len(s) : \A i \in 1 .. Len(m) : m[i] < b
  <2>1. PICK b \in 1 .. Len(s) : \A i \in 1 .. Len(l) : l[i] < b
    BY <1>4, <1>7 DEF InOrder
  <2> HIDE DEF At
  <2>2. \A i \in 1 .. Len(m) : m[i] < b
    BY <2>1, <1>1, <1>5
  <2> QED
    BY <2>2
<1>8. InOrder(s, T, TRUE, m, broken)
  BY <1>6, <1>7 DEF InOrder
<1> HIDE DEF At
<1>9. Within(m, l)
  BY <1>1, <1>5 DEF Within
<1> QED
  BY <1>8, <1>9 DEF l, m

\* The messages behind the first k frames are those of later positions.
LEMMA RangeRising ==
    ASSUME NEW s, Script(s), NEW T, NEW k \in Nat, NEW q \in Nat, k <= q, q <= Len(s)
    PROVE  LET r == IdsOf(Filter(SubSeq(s, k + 1, q), T))
           IN r \in Seq(Nat) /\ Rising(r) /\ \A i \in 1 .. Len(r) : r[i] \in k + 1 .. q
<1> DEFINE S == FramesOf(s)
           R == {s[i] : i \in k + 1 .. q}
           a == SubSeq(s, k + 1, q)
           f == Filter(a, T)
           r == IdsOf(f)
           b == Parsed(s, T, k)
           l == Parsed(s, T, q)
<1>1. s \in Seq(S) /\ (\A x \in S : x.id \in Nat) /\ Numbered(s) /\ Len(s) \in Nat
  BY ScriptFrames DEF Script
<1>2. \A x \in R : x.id \in k + 1 .. q /\ x.id \in Nat
  BY <1>1 DEF Numbered
<1>3. a \in Seq(R)
  <2>1. a \in Seq(S) /\ Len(a) = q - k /\ \A i \in 1 .. q - k : a[i] = s[k + i]
    BY <1>1
  <2>2. \A i \in 1 .. q - k : k + i \in k + 1 .. q
    OBVIOUS
  <2>3. \A i \in 1 .. Len(a) : a[i] \in R
    BY <2>1, <2>2
  <2> HIDE DEF a, R
  <2> QED
    BY <2>1, <2>3
<1> HIDE DEF S, R, a
<1>4. f \in Seq(R \cap T)
  BY <1>3, FilterType
<1> HIDE DEF f
<1>5. /\ r \in Seq(Nat) /\ Len(r) = Len(f) /\ \A i \in 1 .. Len(r) : r[i] \in k + 1 .. q
  <2>1. r \in Seq(Nat) /\ Len(r) = Len(f)
    BY <1>2, <1>4, IdsType
  <2>2. \A i \in 1 .. Len(f) : f[i] \in R /\ r[i] = f[i].id
    BY <1>4 DEF IdsOf
  <2> HIDE DEF r
  <2> QED
    BY <1>2, <2>1, <2>2
<1>6. l = b \o r
  BY <1>1, FilteredRange DEF f, a
<1>7. b \in Seq(Nat) /\ Rising(l)
  <2>1. k \in 0 .. Len(s) /\ q \in 0 .. Len(s)
    BY <1>1
  <2> QED
    BY <1>1, <2>1, ParsedRising
<1> HIDE DEF r, b, l
<1>8. Rising(r)
  <2> SUFFICES ASSUME NEW i \in 1 .. Len(r), NEW j \in 1 .. Len(r), i < j PROVE r[i] < r[j]
    BY DEF Rising
  <2>1. /\ Len(b) + i \in 1 .. Len(l) /\ Len(b) + j \in 1 .. Len(l) /\ Len(b) + i < Len(b) + j
        /\ l[Len(b) + i] = r[i] /\ l[Len(b) + j] = r[j]
    BY <1>5, <1>6, <1>7
  <2> QED
    BY <1>7, <2>1 DEF Rising
<1> QED
  BY <1>5, <1>8 DEF r, f, a

\* A rising line and one that rises from where the first ends.
LEMMA RisingConcat ==
    ASSUME NEW a \in Seq(Nat), NEW b \in Seq(Nat), NEW k \in Nat, NEW q \in Nat, k <= q,
           Rising(a), Rising(b), \A i \in 1 .. Len(a) : a[i] <= k,
           \A i \in 1 .. Len(b) : b[i] \in k + 1 .. q
    PROVE  a \o b \in Seq(Nat) /\ Rising(a \o b) /\ \A i \in 1 .. Len(a \o b) : (a \o b)[i] <= q
<1> DEFINE l == a \o b
<1>1. /\ l \in Seq(Nat) /\ Len(l) = Len(a) + Len(b) /\ Len(a) \in Nat /\ Len(b) \in Nat
      /\ \A i \in 1 .. Len(l) : l[i] = IF i <= Len(a) THEN a[i] ELSE b[i - Len(a)]
  OBVIOUS
<1> HIDE DEF l
<1>2. \A i \in 1 .. Len(l) : i <= Len(a) => i \in 1 .. Len(a) /\ l[i] = a[i] /\ l[i] \in Nat /\ l[i] <= k
  <2> SUFFICES ASSUME NEW i \in 1 .. Len(l), i <= Len(a)
               PROVE  i \in 1 .. Len(a) /\ l[i] = a[i] /\ l[i] \in Nat /\ l[i] <= k
    OBVIOUS
  <2>1. i \in 1 .. Len(a) /\ l[i] = a[i]
    BY <1>1
  <2> QED
    BY <2>1
<1>3. \A i \in 1 .. Len(l) : ~(i <= Len(a)) =>
        i - Len(a) \in 1 .. Len(b) /\ l[i] = b[i - Len(a)] /\ l[i] \in k + 1 .. q
  <2> SUFFICES ASSUME NEW i \in 1 .. Len(l), ~(i <= Len(a))
               PROVE  i - Len(a) \in 1 .. Len(b) /\ l[i] = b[i - Len(a)] /\ l[i] \in k + 1 .. q
    OBVIOUS
  <2>1. i - Len(a) \in 1 .. Len(b) /\ l[i] = b[i - Len(a)]
    BY <1>1
  <2> QED
    BY <2>1
<1>4. Rising(l)
  <2> SUFFICES ASSUME NEW i \in 1 .. Len(l), NEW j \in 1 .. Len(l), i < j PROVE l[i] < l[j]
    BY DEF Rising
  <2>1. CASE j <= Len(a)
    <3>1. i <= Len(a)
      BY <1>1, <2>1
    <3>2. i \in 1 .. Len(a) /\ j \in 1 .. Len(a) /\ l[i] = a[i] /\ l[j] = a[j]
      BY <1>2, <2>1, <3>1
    <3>3. a[i] < a[j]
      BY <3>2 DEF Rising
    <3> QED
      BY <3>2, <3>3
  <2>2. CASE ~(j <= Len(a)) /\ i <= Len(a)
    <3>1. l[i] \in Nat /\ l[i] <= k /\ l[j] \in k + 1 .. q
      BY <1>2, <1>3, <2>2
    <3> QED
      BY <3>1
  <2>3. CASE ~(i <= Len(a))
    <3>1. ~(j <= Len(a))
      BY <1>1, <2>3
    <3> DEFINE e == i - Len(a)
               g == j - Len(a)
    <3>2. e \in 1 .. Len(b) /\ g \in 1 .. Len(b) /\ l[i] = b[e] /\ l[j] = b[g]
      BY <1>3, <2>3, <3>1
    <3>3. e < g
      BY <1>1
    <3> HIDE DEF e, g
    <3>4. b[e] < b[g]
      BY <3>2, <3>3 DEF Rising
    <3> QED
      BY <3>2, <3>4
  <2> QED
    BY <2>1, <2>2, <2>3
<1>5. \A i \in 1 .. Len(l) : l[i] <= q
  <2> SUFFICES ASSUME NEW i \in 1 .. Len(l) PROVE l[i] <= q
    OBVIOUS
  <2>1. CASE i <= Len(a)
    <3>1. l[i] \in Nat /\ l[i] <= k
      BY <1>2, <2>1
    <3> QED
      BY <3>1
  <2>2. CASE ~(i <= Len(a))
    <3>1. l[i] \in k + 1 .. q
      BY <1>3, <2>2
    <3> QED
      BY <3>1
  <2> QED
    BY <2>1, <2>2
<1> QED
  BY <1>1, <1>4, <1>5 DEF l

\* Where everything read is in line, the line is in order.
LEMMA CaughtOrder ==
    ASSUME NEW s, Script(s), NEW T, NEW k \in 0 .. Len(s)
    PROVE  /\ Parsed(s, T, k) \in Seq(Nat)
           /\ InOrder(s, T, FALSE, Parsed(s, T, k), FALSE)
           /\ \A i \in 1 .. Len(Parsed(s, T, k)) : Parsed(s, T, k)[i] \in 1 .. k
<1> DEFINE S == FramesOf(s)
<1>1. s \in Seq(S) /\ \A f \in S : f.id \in Nat
  BY ScriptFrames DEF Script
<1>2. Numbered(s)
  BY DEF Script
<1> HIDE DEF S
<1>3. /\ Parsed(s, T, k) \in Seq(Nat) /\ Rising(Parsed(s, T, k))
      /\ \A i \in 1 .. Len(Parsed(s, T, k)) : Parsed(s, T, k)[i] \in 1 .. k
  BY <1>1, <1>2, ParsedRising
<1>4. Prefix(Parsed(s, T, k), IdsOf(Filter(s, T)))
  BY <1>1, ParsedPrefix
<1> QED
  BY <1>3, <1>4 DEF InOrder

\* A message between those in front of it and those behind it.
LEMMA Inserted ==
    ASSUME NEW d \in Seq(Nat), NEW x \in Nat, NEW r \in Seq(Nat)
    PROVE  (d \o <<x>>) \o r = d \o (<<x>> \o r)
  OBVIOUS

\* A message is taken in hand.
LEMMA FlowTakes ==
    ASSUME NEW s, Script(s), NEW T, NEW read, NEW gap, NEW d, NEW p, NEW buf, NEW broken, NEW live,
           Flow(s, T, read, gap, d, <<>>, p, buf, broken, live), p # <<>>
    PROVE  Flow(s, T, read, gap, d, <<Head(p).id>>, Tail(p), buf, broken, live)
<1>1. FlowTypes(s, T, read, d, <<>>, p, buf)
  BY DEF Flow
<1> DEFINE x == Head(p).id
           q == Tail(p)
           r == IdsOf(q)
<1>2. /\ d \in Seq(Nat) /\ p \in Seq(FramesOf(s) \cap T) /\ x \in Nat /\ r \in Seq(Nat)
      /\ q \in Seq(FramesOf(s) \cap T) /\ IdsOf(p) = <<x>> \o r
  BY <1>1, HeadTypes DEF FlowTypes
<1>3. FlowTypes(s, T, read, d, <<x>>, q, buf)
  BY <1>1, <1>2 DEF FlowTypes
<1>4. Line(d, <<>>, p) = Line(d, <<x>>, q)
  <2> HIDE DEF x, q, r
  <2>1. d \o <<>> = d /\ <<x>> \in Seq(Nat)
    BY <1>2
  <2>2. (d \o <<x>>) \o r = d \o (<<x>> \o r)
    BY <1>2, Inserted
  <2> QED
    BY <1>2, <2>1, <2>2 DEF Line, r
<1>5. q # <<>> => p # <<>>
  OBVIOUS
<1> HIDE DEF x, q, r
<1>6. Flow(s, T, read, gap, d, <<x>>, q, buf, broken, live)
  BY <1>3, <1>4, <1>5 DEF Flow, Caught
<1> QED
  BY <1>6 DEF x, q

\* The message in hand is returned.
LEMMA FlowReturns ==
    ASSUME NEW s, Script(s), NEW T, NEW read, NEW gap, NEW d, NEW x \in Nat, NEW p, NEW buf,
           NEW broken, NEW live, Flow(s, T, read, gap, d, <<x>>, p, buf, broken, live)
    PROVE  Flow(s, T, read, gap, Append(d, x), <<>>, p, buf, broken, live)
<1>1. FlowTypes(s, T, read, d, <<x>>, p, buf)
  BY DEF Flow
<1>2. d \in Seq(Nat)
  BY <1>1 DEF FlowTypes
<1>3. Append(d, x) \in Seq(Nat) /\ Append(d, x) \o <<>> = d \o <<x>>
  BY <1>2
<1>4. Line(Append(d, x), <<>>, p) = Line(d, <<x>>, p)
  BY <1>3 DEF Line
<1>5. FlowTypes(s, T, read, Append(d, x), <<>>, p, buf)
  BY <1>1, <1>3 DEF FlowTypes
<1> QED
  BY <1>4, <1>5 DEF Flow

\* A message is returned at once.
LEMMA FlowGives ==
    ASSUME NEW s, Script(s), NEW T, NEW read, NEW gap, NEW d, NEW p, NEW buf, NEW broken, NEW live,
           Flow(s, T, read, gap, d, <<>>, p, buf, broken, live), p # <<>>
    PROVE  Flow(s, T, read, gap, Append(d, Head(p).id), <<>>, Tail(p), buf, broken, live)
<1>1. Flow(s, T, read, gap, d, <<Head(p).id>>, Tail(p), buf, broken, live)
  BY FlowTakes
<1>2. Head(p).id \in Nat
  BY HeadTypes DEF Flow, FlowTypes
<1> QED
  BY <1>1, <1>2, FlowReturns

\* The stream may be over, and an error or a gap counts no more then.
LEMMA FlowWeaker ==
    ASSUME NEW s, NEW T, NEW read, NEW gap, NEW gap2, NEW d, NEW h, NEW p, NEW buf,
           NEW broken, NEW broken2, NEW live, NEW live2,
           Flow(s, T, read, gap, d, h, p, buf, broken, live),
           gap => gap2, broken2 => broken, live2 => live
    PROVE  Flow(s, T, read, gap2, d, h, p, buf, broken2, live2)
<1>1. InOrder(s, T, gap, Line(d, h, p), broken)
  BY DEF Flow
<1>2. InOrder(s, T, gap2, Line(d, h, p), broken2)
  BY <1>1 DEF InOrder
<1> QED
  BY <1>2 DEF Flow, Caught

\* A stream that is over drops what it had accepted and read.
LEMMA FlowEnds ==
    ASSUME NEW s, Script(s), NEW T, NEW read, NEW gap, NEW d, NEW h, NEW p, NEW buf, NEW broken,
           NEW live, Flow(s, T, read, gap, d, h, p, buf, broken, live)
    PROVE  /\ Flow(s, T, read, gap, d, h, <<>>, <<>>, FALSE, FALSE)
           /\ Flow(s, T, read, gap, d, <<>>, <<>>, <<>>, FALSE, FALSE)
           /\ Flow(s, T, read, gap, d, <<>>, <<>>, buf, FALSE, FALSE)
<1>1. FlowTypes(s, T, read, d, h, p, buf)
  BY DEF Flow
<1> DEFINE r == IdsOf(p)
<1>2. /\ d \in Seq(Nat) /\ h \in Seq(Nat) /\ p \in Seq(FramesOf(s) \cap T) /\ r \in Seq(Nat)
      /\ d \o h \in Seq(Nat) /\ Line(d, h, p) = d \o (h \o r)
  BY <1>1, LineTypes, ConcatProperties DEF FlowTypes
<1>3. IdsOf(<<>>) = <<>>
  BY DEF IdsOf
<1>4. Line(d, h, p) = (d \o h) \o r
  BY DEF Line
<1> HIDE DEF r
<1>5. Line(d, h, <<>>) = d \o h /\ Line(d, <<>>, <<>>) = d /\ h \o r \in Seq(Nat)
  <2>1. (d \o h) \o <<>> = d \o h /\ (d \o <<>>) \o <<>> = d /\ h \o r \in Seq(Nat)
    BY <1>2
  <2> QED
    BY <1>3, <2>1 DEF Line
<1>6. InOrder(s, T, gap, Line(d, h, p), broken)
  BY DEF Flow
<1>7. InOrder(s, T, gap, d \o h, FALSE)
  <2> DEFINE a == d \o h
  <2>1. a \in Seq(Nat) /\ InOrder(s, T, gap, a \o r, broken)
    BY <1>2, <1>4, <1>6
  <2> HIDE DEF a
  <2>2. InOrder(s, T, gap, a, FALSE)
    BY <1>2, <2>1, OrderPrefix
  <2> QED
    BY <2>2 DEF a
<1>8. InOrder(s, T, gap, d, FALSE)
  <2> DEFINE c == h \o r
  <2>1. c \in Seq(Nat) /\ InOrder(s, T, gap, d \o c, broken)
    BY <1>2, <1>5, <1>6
  <2> HIDE DEF c
  <2> QED
    BY <1>2, <2>1, OrderPrefix
<1>9. /\ FlowTypes(s, T, read, d, h, <<>>, <<>>) /\ FlowTypes(s, T, read, d, <<>>, <<>>, <<>>)
      /\ FlowTypes(s, T, read, d, <<>>, <<>>, buf)
  BY <1>1 DEF FlowTypes
<1> QED
  BY <1>5, <1>7, <1>8, <1>9 DEF Flow

\* The message in hand is lost.
LEMMA FlowLoses ==
    ASSUME NEW s, Script(s), NEW T, NEW read, NEW gap, NEW d, NEW x \in Nat, NEW p, NEW buf,
           NEW broken, NEW live, Flow(s, T, read, gap, d, <<x>>, p, buf, broken, live)
    PROVE  Flow(s, T, read, TRUE, d, <<>>, p, buf, broken, live)
<1>1. FlowTypes(s, T, read, d, <<x>>, p, buf)
  BY DEF Flow
<1> DEFINE r == IdsOf(p)
<1>2. /\ d \in Seq(Nat) /\ <<x>> \in Seq(Nat) /\ p \in Seq(FramesOf(s) \cap T) /\ r \in Seq(Nat)
      /\ Line(d, <<x>>, p) = d \o (<<x>> \o r)
  BY <1>1, LineTypes DEF FlowTypes
<1> HIDE DEF r
<1>3. InOrder(s, T, gap, d \o (<<x>> \o r), broken)
  BY <1>2 DEF Flow
<1>4. InOrder(s, T, TRUE, d \o r, broken) /\ Within(d \o r, d \o (<<x>> \o r))
  BY <1>2, <1>3, OrderGap
<1>5. Line(d, <<>>, p) = d \o r
  BY <1>2 DEF Line, r
<1>6. FlowTypes(s, T, read, d, <<>>, p, buf)
  BY <1>1 DEF FlowTypes
<1>7. ASSUME live PROVE Caught(s, T, read, TRUE, d \o r, p, buf)
  <2> DEFINE l == d \o (<<x>> \o r)
             m == d \o r
  <2>1. Caught(s, T, read, gap, l, p, buf)
    BY <1>2, <1>7 DEF Flow
  <2>2. Within(m, l)
    BY <1>4
  <2> HIDE DEF l, m
  <2>3. \A i \in 1 .. Len(m) : m[i] <= read - Len(buf)
    BY <2>1, <2>2 DEF Caught, Within
  <2>4. Caught(s, T, read, TRUE, m, p, buf)
    BY <2>1, <2>3 DEF Caught
  <2> QED
    BY <2>4 DEF m
<1> QED
  BY <1>4, <1>5, <1>6, <1>7 DEF Flow

\* More is read, when everything in front of it was parsed and returned.
LEMMA FlowReads ==
    ASSUME NEW s, Script(s), NEW T, NEW read, NEW gap, NEW d, NEW broken, NEW live,
           Flow(s, T, read, gap, d, <<>>, <<>>, <<>>, broken, live),
           NEW q \in read .. Len(s)
    PROVE  Flow(s, T, q, gap, d, <<>>, <<>>, SubSeq(s, read + 1, q), broken, live)
<1>1. read \in Nat /\ q \in Nat /\ read <= q /\ q <= Len(s) /\ Len(s) \in Nat /\ s \in Seq(FramesOf(s))
  BY DEF Flow, FlowTypes, Script
<1> DEFINE buf == SubSeq(s, read + 1, q)
<1>2. buf \in Seq(FramesOf(s)) /\ Len(buf) = q - read
  BY <1>1
<1>3. FlowTypes(s, T, q, d, <<>>, <<>>, buf)
  BY <1>1, <1>2 DEF Flow, FlowTypes
<1>4. ASSUME live PROVE Caught(s, T, q, gap, Line(d, <<>>, <<>>), <<>>, buf)
  <2>1. /\ ~gap => Line(d, <<>>, <<>>) = Parsed(s, T, read - 0)
        /\ \A i \in 1 .. Len(Line(d, <<>>, <<>>)) : Line(d, <<>>, <<>>)[i] <= read - 0
    BY <1>4 DEF Flow, Caught
  <2>2. read - 0 = read /\ q - Len(buf) = read /\ Len(buf) <= q
    BY <1>1, <1>2
  <2> QED
    BY <2>1, <2>2 DEF Caught
<1> HIDE DEF buf
<1>5. Flow(s, T, q, gap, d, <<>>, <<>>, buf, broken, live)
  BY <1>3, <1>4 DEF Flow
<1> QED
  BY <1>5 DEF buf

\* The parser accepts the messages of the first m frames it holds; if there are more, the
\* next one is bad.
LEMMA FlowParses ==
    ASSUME NEW s, Script(s), NEW T, NEW read, NEW gap, NEW d, NEW buf, NEW broken,
           Flow(s, T, read, gap, d, <<>>, <<>>, buf, broken, TRUE), NEW m \in 0 .. Len(buf),
           NEW broken2, NEW live2, broken2 => m < Len(buf), live2 => m = Len(buf)
    PROVE  Flow(s, T, read, gap, d, <<>>, Filter(SubSeq(buf, 1, m), T), <<>>, broken2, live2)
<1> DEFINE k == read - Len(buf)
           S == FramesOf(s)
           a == SubSeq(buf, 1, m)
           p == Filter(a, T)
           l == Line(d, <<>>, p)
<1>1. /\ d \in Seq(Nat) /\ read \in Nat /\ read <= Len(s) /\ Len(s) \in Nat
      /\ buf \in Seq(S) /\ Len(buf) \in Nat /\ Len(buf) <= read /\ m \in Nat /\ m <= Len(buf)
      /\ s \in Seq(S) /\ <<>> \in Seq(S) /\ <<>> \in Seq(Nat)
  BY DEF Flow, FlowTypes, Script, Caught
<1>2. k \in Nat /\ k + m \in 0 .. Len(s) /\ buf = SubSeq(s, k + 1, read) /\ k + Len(buf) = read
      /\ (~gap => Line(d, <<>>, <<>>) = Parsed(s, T, k)) /\ Rising(Line(d, <<>>, <<>>))
      /\ \A i \in 1 .. Len(Line(d, <<>>, <<>>)) : Line(d, <<>>, <<>>)[i] <= k
  BY <1>1 DEF Flow, Caught, InOrder
<1>3. (~gap => d = Parsed(s, T, k)) /\ Rising(d) /\ \A i \in 1 .. Len(d) : d[i] <= k
  <2>1. IdsOf(<<>>) = <<>>
    BY DEF IdsOf
  <2>2. (d \o <<>>) \o <<>> = d
    BY <1>1
  <2> QED
    BY <1>2, <2>1, <2>2 DEF Line
<1> HIDE DEF k, S
<1>4. a = SubSeq(s, k + 1, k + m)
  <2> DEFINE b == SubSeq(s, k + 1, k + m)
  <2>1. /\ a \in Seq(S) /\ Len(a) = m /\ \A i \in 1 .. m : a[i] = buf[i]
    BY <1>1
  <2>2. b \in Seq(S) /\ Len(b) = m /\ \A i \in 1 .. m : b[i] = s[k + i]
    BY <1>1, <1>2
  <2>3. \A i \in 1 .. m : buf[i] = s[k + i]
    BY <1>1, <1>2
  <2> HIDE DEF a, b
  <2>4. Len(a) = Len(b) /\ \A i \in 1 .. Len(a) : a[i] = b[i]
    BY <2>1, <2>2, <2>3
  <2>5. a = b
    BY <2>1, <2>2, <2>4, SeqEqual
  <2> QED
    BY <2>5 DEF b
<1>5. a \in Seq(S)
  BY <1>1
<1> HIDE DEF a
<1>6. p \in Seq(S \cap T)
  BY <1>5, FilterType
<1>7. /\ ~gap => l = Parsed(s, T, k + m)
      /\ l \in Seq(Nat) /\ Rising(l) /\ \A i \in 1 .. Len(l) : l[i] <= k + m
  <2> DEFINE q == k + m
             r == IdsOf(p)
  <2>1. k \in Nat /\ q \in Nat /\ k <= q /\ q <= Len(s)
    BY <1>1, <1>2
  <2> HIDE DEF q
  <2>2. Parsed(s, T, q) = Parsed(s, T, k) \o r
    <3>1. Parsed(s, T, q) = Parsed(s, T, k) \o IdsOf(Filter(SubSeq(s, k + 1, q), T))
      BY <2>1, <1>1, FilteredRange
    <3> QED
      BY <3>1, <1>4 DEF q
  <2>3. r \in Seq(Nat) /\ Rising(r) /\ \A i \in 1 .. Len(r) : r[i] \in k + 1 .. q
    <3>1. p = Filter(SubSeq(s, k + 1, q), T)
      BY <1>4 DEF q
    <3> QED
      BY <2>1, <3>1, RangeRising
  <2> HIDE DEF r
  <2>4. d \o r \in Seq(Nat) /\ Rising(d \o r) /\ \A i \in 1 .. Len(d \o r) : (d \o r)[i] <= q
    BY <1>1, <1>3, <2>1, <2>3, RisingConcat
  <2>5. d \o <<>> = d
    BY <1>1
  <2>6. l = d \o r
    BY <2>5 DEF Line, r
  <2> HIDE DEF l
  <2> QED
    BY <2>2, <2>4, <2>6, <1>3 DEF q
<1>8. ASSUME ~gap PROVE InOrder(s, T, FALSE, l, FALSE)
  BY <1>2, <1>7, <1>8, CaughtOrder
<1> HIDE DEF p, l
<1>9. ASSUME broken2 PROVE \E b \in 1 .. Len(s) : \A i \in 1 .. Len(l) : l[i] < b
  <2>1. k + m + 1 \in 1 .. Len(s)
    BY <1>1, <1>2, <1>9
  <2>2. \A i \in 1 .. Len(l) : l[i] < k + m + 1
    BY <1>1, <1>2, <1>7
  <2> QED
    BY <2>1, <2>2
<1>10. InOrder(s, T, gap, l, broken2)
  BY <1>7, <1>8, <1>9 DEF InOrder
<1>11. ASSUME live2 PROVE Caught(s, T, read, gap, l, p, <<>>)
  <2>1. read - Len(<<>>) = read /\ k + m = read /\ SubSeq(s, read + 1, read) = <<>> /\ Len(<<>>) <= read
    BY <1>1, <1>2, <1>11
  <2> QED
    BY <2>1, <1>7 DEF Caught
<1>12. FlowTypes(s, T, read, d, <<>>, p, <<>>)
  BY <1>1, <1>6 DEF FlowTypes, S
<1>13. Flow(s, T, read, gap, d, <<>>, p, <<>>, broken2, live2)
  BY <1>2, <1>10, <1>11, <1>12 DEF Flow, l
<1> QED
  BY <1>13 DEF p, a

\* A message that ends the script is kept, and everything behind it dropped.
LEMMA FlowCloses ==
    ASSUME NEW s, Script(s), NEW T, NEW read, NEW gap, NEW d, NEW p, NEW buf, NEW broken, NEW live,
           Flow(s, T, read, gap, d, <<>>, p, buf, broken, live), p # <<>>, Head(p).id = Len(s),
           NEW live2, live2 => live \/ broken
    PROVE  Flow(s, T, read, gap, d, <<>>, <<Head(p)>>, <<>>, FALSE, live2)
<1> DEFINE S == FramesOf(s) \cap T
           x == Head(p).id
           q == Tail(p)
           r == IdsOf(q)
           one == <<Head(p)>>
           l == Line(d, <<>>, p)
           n == Len(d)
<1>1. /\ d \in Seq(Nat) /\ n \in Nat /\ p \in Seq(S) /\ read \in Nat /\ read <= Len(s)
      /\ Len(s) \in Nat
  BY DEF Flow, FlowTypes, Script
<1>2. /\ x \in Nat /\ r \in Seq(Nat) /\ q \in Seq(S) /\ one \in Seq(S) /\ IdsOf(p) = <<x>> \o r
      /\ l \in Seq(Nat) /\ Len(IdsOf(p)) = Len(p)
  <2>0. p \in Seq(FramesOf(s) \cap T) /\ p # <<>>
    BY <1>1
  <2>1. /\ x \in Nat /\ r \in Seq(Nat) /\ q \in Seq(S) /\ one \in Seq(S) /\ IdsOf(p) = <<x>> \o r
        /\ IdsOf(p) \in Seq(Nat) /\ Len(IdsOf(p)) = Len(p)
    BY <2>0, LineTypes, HeadTypes, ZenonT(60)
  <2>2. \A e, h \in Seq(Nat) : Line(e, h, p) \in Seq(Nat)
    BY <2>0, LineTypes, Zenon
  <2>3. <<>> \in Seq(Nat)
    OBVIOUS
  <2> QED
    BY <1>1, <2>1, <2>2, <2>3
<1>3. Len(q) = Len(p) - 1 /\ Len(p) \in Nat /\ p = one \o q
  BY <1>1
<1>4. IdsOf(one) = <<x>>
  BY DEF IdsOf
<1> HIDE DEF x, q, r, one, S
<1>5. l = (d \o <<x>>) \o r /\ Line(d, <<>>, one) = d \o <<x>> /\ d \o <<x>> \in Seq(Nat)
  <2> HIDE DEF l
  <2>1. l = (d \o <<>>) \o (<<x>> \o r)
    BY <1>2 DEF l, Line
  <2>2. (d \o <<>>) \o (<<x>> \o r) = (d \o <<x>>) \o r
    <3>1. d \o <<>> = d /\ <<x>> \in Seq(Nat)
      BY <1>1, <1>2
    <3>2. d \o (<<x>> \o r) = (d \o <<x>>) \o r
      BY <1>1, <1>2, <3>1, Inserted
    <3> QED
      BY <3>1, <3>2
  <2>3. (d \o <<>>) \o <<x>> = d \o <<x>> /\ d \o <<x>> \in Seq(Nat)
    BY <1>1, <1>2
  <2> QED
    BY <1>4, <2>1, <2>2, <2>3 DEF Line
<1>6. InOrder(s, T, gap, l, broken)
  BY DEF Flow
<1>7. Len(l) = n + 1 + Len(r) /\ l[n + 1] = x /\ Len(r) \in Nat
  <2> HIDE DEF l
  <2>1. /\ Len((d \o <<x>>) \o r) = Len(d) + 1 + Len(r) /\ Len(r) \in Nat
        /\ ((d \o <<x>>) \o r)[Len(d) + 1] = x
    BY <1>1, <1>2
  <2> QED
    BY <1>5, <2>1
<1> HIDE DEF l, n
<1>8. InOrder(s, T, gap, d \o <<x>>, FALSE)
  <2> DEFINE a == d \o <<x>>
  <2>1. a \in Seq(Nat) /\ InOrder(s, T, gap, a \o r, broken)
    BY <1>5, <1>6
  <2> HIDE DEF a
  <2>2. InOrder(s, T, gap, a, FALSE)
    BY <1>2, <2>1, OrderPrefix
  <2> QED
    BY <2>2 DEF a
<1>9. ~broken
  <2> SUFFICES ASSUME broken PROVE FALSE
    OBVIOUS
  <2>1. PICK b \in 1 .. Len(s) : \A i \in 1 .. Len(l) : l[i] < b
    BY <1>6 DEF InOrder
  <2>2. n + 1 \in 1 .. Len(l) /\ x = Len(s)
    BY <1>1, <1>7 DEF x
  <2>3. l[n + 1] < b
    BY <2>1, <2>2
  <2> QED
    BY <2>1, <2>2, <2>3, <1>1, <1>7
<1>10. ASSUME live2 PROVE Caught(s, T, read, gap, Line(d, <<>>, one), one, <<>>)
  <2>1. live /\ Caught(s, T, read, gap, l, p, buf)
    BY <1>9, <1>10 DEF Flow, l
  <2>2. buf = <<>> /\ <<>> = SubSeq(s, read - Len(<<>>) + 1, read) /\ Len(<<>>) <= read
        /\ (~gap => l = Parsed(s, T, read - Len(<<>>))) /\ \A i \in 1 .. Len(l) : l[i] <= read - Len(<<>>)
    BY <2>1 DEF Caught
  <2>3. read - Len(<<>>) = read
    BY <1>1
  <2>4. \A i \in 1 .. Len(l) : l[i] \in Nat /\ l[i] <= read
    BY <2>2, <2>3, <1>2
  <2>5. Len(r) = 0
    <3> SUFFICES ASSUME Len(r) # 0 PROVE FALSE
      OBVIOUS
    <3>1. n + 1 \in 1 .. Len(l) /\ n + 2 \in 1 .. Len(l) /\ n + 1 < n + 2 /\ x = Len(s)
      BY <1>1, <1>7 DEF x
    <3>2. l[n + 1] < l[n + 2] /\ l[n + 2] \in Nat /\ l[n + 2] <= read
      BY <3>1, <1>6, <2>4 DEF InOrder, Rising
    <3> QED
      BY <3>1, <3>2, <1>1, <1>7
  <2>6. l = d \o <<x>>
    <3>1. r = <<>>
      BY <1>2, <2>5
    <3>2. (d \o <<x>>) \o <<>> = d \o <<x>>
      BY <1>5
    <3> QED
      BY <1>5, <3>1, <3>2
  <2> QED
    BY <2>1, <2>2, <2>6, <1>5 DEF Caught
<1>11. FlowTypes(s, T, read, d, <<>>, one, <<>>)
  BY <1>2 DEF Flow, FlowTypes, S
<1>12. Flow(s, T, read, gap, d, <<>>, one, <<>>, FALSE, live2)
  BY <1>5, <1>8, <1>10, <1>11 DEF Flow
<1> QED
  BY <1>12 DEF one

\* A stream starts with what came with the handshake.
LEMMA FlowStarts ==
    ASSUME NEW s, Script(s), NEW T, NEW k \in 0 .. Len(s)
    PROVE  Flow(s, T, k, FALSE, <<>>, <<>>, <<>>, SubSeq(s, 1, k), FALSE, TRUE)
<1>1. k \in Nat /\ k <= Len(s) /\ Len(s) \in Nat /\ s \in Seq(FramesOf(s))
  BY DEF Script
<1>2. SubSeq(s, 1, 0) = <<>> /\ IdsOf(<<>>) = <<>>
  BY DEF IdsOf
<1>3. Parsed(s, T, 0) = <<>>
  BY <1>2, FilterEmpty DEF Parsed
<1>4. 0 \in 0 .. Len(s)
  BY <1>1
<1>5. InOrder(s, T, FALSE, <<>>, FALSE)
  BY <1>3, <1>4, CaughtOrder
<1>6. (<<>> \o <<>>) \o <<>> = <<>>
  OBVIOUS
<1>7. Line(<<>>, <<>>, <<>>) = <<>>
  BY <1>2, <1>6 DEF Line
<1>8. Flow(s, T, 0, FALSE, <<>>, <<>>, <<>>, <<>>, FALSE, TRUE)
  <2>1. FlowTypes(s, T, 0, <<>>, <<>>, <<>>, <<>>)
    BY <1>4 DEF FlowTypes
  <2>2. Len(<<>>) = 0 /\ 0 <= 0 /\ 0 - 0 = 0 /\ 0 + 1 = 1
    OBVIOUS
  <2>3. Caught(s, T, 0, FALSE, <<>>, <<>>, <<>>)
    BY <2>2, <1>2, <1>3 DEF Caught
  <2> QED
    BY <2>1, <2>3, <1>5, <1>7 DEF Flow
<1>9. k \in 0 .. Len(s) /\ 0 + 1 = 1
  BY <1>1
<1> QED
  BY <1>8, <1>9, FlowReads

\* What was returned is in order, and without a gap it is the start of the script.
LEMMA FlowDelivered ==
    ASSUME NEW s, Script(s), NEW T, NEW read, NEW gap, NEW d, NEW h, NEW p, NEW buf, NEW broken,
           NEW live, Flow(s, T, read, gap, d, h, p, buf, broken, live)
    PROVE  /\ \A i, j \in DOMAIN d : i < j => d[i] < d[j]
           /\ gap \/ d = SubSeq(IdsOf(Filter(s, T)), 1, Len(d))
<1>1. Flow(s, T, read, gap, d, <<>>, <<>>, <<>>, FALSE, FALSE)
  BY FlowEnds
<1>2. d \in Seq(Nat) /\ Line(d, <<>>, <<>>) = d
  <2>1. d \in Seq(Nat) /\ IdsOf(<<>>) = <<>>
    BY DEF Flow, FlowTypes, IdsOf
  <2>2. (d \o <<>>) \o <<>> = d
    BY <2>1
  <2> QED
    BY <2>1, <2>2 DEF Line
<1>3. InOrder(s, T, gap, d, FALSE)
  BY <1>1, <1>2 DEF Flow
<1>4. ASSUME ~gap PROVE d = SubSeq(IdsOf(Filter(s, T)), 1, Len(d))
  <2> DEFINE all == IdsOf(Filter(s, T))
  <2>1. all \in Seq(Nat) /\ Len(all) \in Nat
    BY AllTypes
  <2>2. Len(d) <= Len(all) /\ \A i \in 1 .. Len(d) : d[i] = all[i]
    BY <1>3, <1>4 DEF InOrder, Prefix
  <2> HIDE DEF all
  <2> DEFINE b == SubSeq(all, 1, Len(d))
  <2>3. b \in Seq(Nat) /\ Len(b) = Len(d) /\ \A i \in 1 .. Len(d) : b[i] = all[i]
    BY <1>2, <2>1, <2>2
  <2> HIDE DEF b
  <2>4. \A i \in 1 .. Len(d) : d[i] = b[i]
    BY <2>2, <2>3
  <2>5. d = b
    BY <1>2, <2>3, <2>4, SeqEqual
  <2> QED
    BY <2>5 DEF b, all
<1>5. DOMAIN d = 1 .. Len(d)
  BY <1>2
<1> QED
  BY <1>3, <1>4, <1>5 DEF InOrder, Rising
=============================================================================
