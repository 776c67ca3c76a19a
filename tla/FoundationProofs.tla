---------------------------- MODULE FoundationProofs ----------------------------
(***************************************************************************)
(* What the proofs about the models need of sums, recursive functions,     *)
(* sorted sequences and the string functions of Strings. Every induction   *)
(* is on the set of the numbers, or of the sequences, for which a fact     *)
(* holds, which is first order, and rests on the well-foundedness of < on  *)
(* Nat. A sum is an integer, it is a natural number when every term is,    *)
(* and changing one term changes it by as much. A text split at a          *)
(* separator and joined again is the text, and parts that hold no          *)
(* separator are split as they were joined. A finite set can be sorted,    *)
(* and in one way only by an order that tells all its elements apart.      *)
(***************************************************************************)
EXTENDS Sums, Strings, TLAPS, WellFoundedInduction, FiniteSetTheorems, SequenceTheorems

-------------------------------------------------------------------------------
(* Sums                                                                    *)

\* A set of naturals that holds 0 and is closed under successor is Nat.
LEMMA NatClosure ==
  ASSUME NEW S \in SUBSET Nat, 0 \in S, \A n \in S : n + 1 \in S
  PROVE  S = Nat
<1>1. SUFFICES ASSUME Nat \ S # {} PROVE FALSE
  OBVIOUS
<1>2. \E m \in Nat \ S : \A y \in Nat \ S : ~ (y < m)
  <2>1. IsWellFoundedOn(OpToRel(<, Nat), Nat)
    BY NatLessThanWellFounded
  <2>2. Nat \ S \subseteq Nat
    OBVIOUS
  <2>3. \A x, y \in Nat : x < y => <<x, y>> \in OpToRel(<, Nat)
    BY DEF OpToRel
  <2> HIDE DEF OpToRel
  <2>4. \E m \in Nat \ S : \A y \in Nat \ S : ~ (<<y, m>> \in OpToRel(<, Nat))
    BY <1>1, <2>1, <2>2, WFMin
  <2>5. QED  BY <2>3, <2>4
<1>3. PICK m \in Nat \ S : \A y \in Nat \ S : ~ (y < m)
  BY <1>2
<1>4. m \in Nat /\ m # 0
  OBVIOUS
<1>5. m - 1 \in Nat /\ m - 1 < m /\ (m - 1) + 1 = m
  BY <1>4
<1>6. m - 1 \in S
  BY <1>3, <1>5
<1>7. QED  BY <1>5, <1>6

\* The recursive function that PartialSums names exists.
LEMMA PartialSumsExist ==
  ASSUME NEW n \in Nat, NEW f \in [1..n -> Int]
  PROVE  \E s : s = [i \in 0..n |-> IF i = 0 THEN 0 ELSE s[i - 1] + f[i]]
<1> DEFINE Sums(m, s) == /\ s \in [0..m -> Int]
                         /\ s[0] = 0
                         /\ \A i \in 1..m : s[i] = s[i - 1] + f[i]
           S == {m \in Nat : m <= n => \E s : Sums(m, s)}
<1>1. 0 \in S
  <2>1. Sums(0, [i \in 0..0 |-> 0])
    OBVIOUS
  <2>2. QED  BY <2>1
<1>2. ASSUME NEW m \in S PROVE m + 1 \in S
  <2> HIDE DEF Sums
  <2>1. SUFFICES ASSUME m + 1 <= n PROVE \E t : Sums(m + 1, t)
    OBVIOUS
  <2> USE DEF Sums
  <2>2. PICK s : Sums(m, s)
    BY <2>1
  <2> DEFINE t == [i \in 0..(m + 1) |-> IF i = m + 1 THEN s[m] + f[m + 1] ELSE s[i]]
  <2>3. t \in [0..(m + 1) -> Int]
    BY <2>1, <2>2
  <2>4. t[0] = 0
    BY <2>2
  <2>5. ASSUME NEW i \in 1..(m + 1) PROVE t[i] = t[i - 1] + f[i]
    <3>1. CASE i = m + 1
      BY <2>2, <3>1
    <3>2. CASE i # m + 1
      BY <2>2, <3>2
    <3>3. QED  BY <3>1, <3>2
  <2>6. Sums(m + 1, t)
    BY <2>3, <2>4, <2>5
  <2>7. QED  BY <2>6
<1>3. S = Nat
  <2> HIDE DEF S
  <2>1. S \in SUBSET Nat
    BY DEF S
  <2>2. QED  BY <1>1, <1>2, <2>1, NatClosure
<1>4. PICK s : Sums(n, s)
  <2> HIDE DEF Sums
  <2>1. n \in S
    BY <1>3
  <2>2. QED  BY <2>1
<1>5. s = [i \in 0..n |-> IF i = 0 THEN 0 ELSE s[i - 1] + f[i]]
  BY <1>4
<1>6. QED  BY <1>5

\* Hence the partial sums obey their recursion ...
LEMMA PartialSumsStep ==
  ASSUME NEW n \in Nat, NEW f \in [1..n -> Int]
  PROVE  /\ PartialSums(n, f)[0] = 0
         /\ \A i \in 1..n : PartialSums(n, f)[i] = PartialSums(n, f)[i - 1] + f[i]
<1> DEFINE Eq(s) == s = [i \in 0..n |-> IF i = 0 THEN 0 ELSE s[i - 1] + f[i]]
<1>1. \E s : Eq(s)
  BY PartialSumsExist
<1>2. PartialSums(n, f) = CHOOSE s : Eq(s)
  BY DEF PartialSums
<1>3. Eq(PartialSums(n, f))
  <2> HIDE DEF Eq
  <2>1. QED  BY <1>1, <1>2
<1> DEFINE p == PartialSums(n, f)
<1>4. p = [i \in 0..n |-> IF i = 0 THEN 0 ELSE p[i - 1] + f[i]]
  BY <1>3
<1> HIDE DEF p
<1>5. p[0] = 0 /\ \A i \in 1..n : p[i] = p[i - 1] + f[i]
  <2> DEFINE body == [i \in 0..n |-> IF i = 0 THEN 0 ELSE p[i - 1] + f[i]]
  <2>1. body[0] = 0 /\ \A i \in 1..n : body[i] = p[i - 1] + f[i]
    OBVIOUS
  <2>2. p = body
    BY <1>4
  <2> HIDE DEF body
  <2>3. QED  BY <2>1, <2>2
<1>6. QED  BY <1>5 DEF p

\* ... and are integers, and never negative when no term is.
LEMMA PartialSumsType ==
  ASSUME NEW n \in Nat, NEW f \in [1..n -> Int]
  PROVE  /\ \A i \in 0..n : PartialSums(n, f)[i] \in Int
         /\ f \in [1..n -> Nat] => \A i \in 0..n : PartialSums(n, f)[i] \in Nat
<1> DEFINE p == PartialSums(n, f)
           S == {i \in Nat : i <= n => /\ p[i] \in Int
                                       /\ f \in [1..n -> Nat] => p[i] \in Nat}
<1>1. p[0] = 0 /\ \A i \in 1..n : p[i] = p[i - 1] + f[i]
  BY PartialSumsStep
<1> HIDE DEF p
<1>2. 0 \in S
  BY <1>1
<1>3. ASSUME NEW i \in S PROVE i + 1 \in S
  <2>1. SUFFICES ASSUME i + 1 <= n
                 PROVE  /\ p[i + 1] \in Int
                        /\ f \in [1..n -> Nat] => p[i + 1] \in Nat
    OBVIOUS
  <2>2. i + 1 \in 1..n /\ (i + 1) - 1 = i
    BY <2>1
  <2>3. p[i + 1] = p[i] + f[i + 1]
    BY <1>1, <2>2
  <2>4. QED  BY <2>1, <2>2, <2>3
<1>4. S = Nat
  <2> HIDE DEF S
  <2>1. S \in SUBSET Nat
    BY DEF S
  <2>2. QED  BY <1>2, <1>3, <2>1, NatClosure
<1>5. QED  BY <1>4 DEF p

\* A sum of integers is an integer, a sum of naturals a natural.
LEMMA SumType ==
  ASSUME NEW n \in Nat, NEW f \in [1..n -> Int]
  PROVE  SumTo(n, f) \in Int /\ (f \in [1..n -> Nat] => SumTo(n, f) \in Nat)
BY PartialSumsType DEF SumTo

\* The sum of zeros is zero.
LEMMA SumOfZeros ==
  ASSUME NEW n \in Nat
  PROVE  SumTo(n, [i \in 1..n |-> 0]) = 0
<1> DEFINE f == [i \in 1..n |-> 0]
           p == PartialSums(n, f)
           S == {i \in Nat : i <= n => p[i] = 0}
<1>1. p[0] = 0 /\ \A i \in 1..n : p[i] = p[i - 1] + 0
  <2>1. f \in [1..n -> Int] /\ \A i \in 1..n : f[i] = 0
    OBVIOUS
  <2> HIDE DEF f
  <2>2. QED  BY <2>1, PartialSumsStep
<1> HIDE DEF p
<1>2. 0 \in S
  BY <1>1
<1>3. ASSUME NEW i \in S PROVE i + 1 \in S
  BY <1>1
<1>4. S = Nat
  <2> HIDE DEF S
  <2>1. S \in SUBSET Nat
    BY DEF S
  <2>2. QED  BY <1>2, <1>3, <2>1, NatClosure
<1>5. QED  BY <1>4 DEF p, SumTo

\* Changing one term changes the sum by the difference.
LEMMA SumUpdate ==
  ASSUME NEW n \in Nat, NEW f \in [1..n -> Int], NEW w \in 1..n, NEW v \in Int
  PROVE  SumTo(n, [f EXCEPT ![w] = v]) = SumTo(n, f) - f[w] + v
<1> DEFINE g == [f EXCEPT ![w] = v]
           p == PartialSums(n, f)
           q == PartialSums(n, g)
           S == {i \in Nat : i <= n => q[i] = IF i < w THEN p[i] ELSE p[i] - f[w] + v}
<1>1. g \in [1..n -> Int] /\ g[w] = v /\ \A i \in 1..n : i # w => g[i] = f[i]
  OBVIOUS
<1> HIDE DEF g
<1>2. /\ p[0] = 0 /\ \A i \in 1..n : p[i] = p[i - 1] + f[i]
      /\ q[0] = 0 /\ \A i \in 1..n : q[i] = q[i - 1] + g[i]
  BY <1>1, PartialSumsStep
<1>3. /\ \A i \in 0..n : p[i] \in Int
      /\ \A i \in 0..n : q[i] \in Int
  BY <1>1, PartialSumsType
<1> HIDE DEF p, q
<1>4. 0 \in S
  BY <1>2
<1>5. ASSUME NEW i \in S PROVE i + 1 \in S
  <2>1. SUFFICES ASSUME i + 1 <= n
                 PROVE  q[i + 1] = IF i + 1 < w THEN p[i + 1] ELSE p[i + 1] - f[w] + v
    OBVIOUS
  <2>2. i + 1 \in 1..n /\ (i + 1) - 1 = i /\ i \in 0..n
    BY <2>1
  <2>3. p[i + 1] = p[i] + f[i + 1] /\ q[i + 1] = q[i] + g[i + 1]
    BY <1>2, <2>2
  <2>4. q[i] = IF i < w THEN p[i] ELSE p[i] - f[w] + v
    BY <2>1
  <2>5. p[i] \in Int /\ q[i] \in Int /\ f[i + 1] \in Int /\ g[i + 1] \in Int /\ f[w] \in Int
    BY <1>1, <1>3, <2>2
  <2>6. CASE i + 1 = w
    <3>1. g[i + 1] = v /\ f[i + 1] = f[w] /\ i < w /\ ~(i + 1 < w)
      BY <1>1, <2>6
    <3>2. QED  BY <2>3, <2>4, <2>5, <3>1
  <2>7. CASE i + 1 # w
    <3>1. g[i + 1] = f[i + 1]
      BY <1>1, <2>2, <2>7
    <3>2. i < w <=> i + 1 < w
      BY <2>7
    <3>3. q[i + 1] = q[i] + f[i + 1] /\ p[i + 1] = p[i] + f[i + 1]
      BY <2>3, <3>1
    <3>4. CASE i < w
      <4>1. q[i + 1] = p[i + 1]
        BY <2>4, <3>3, <3>4
      <4>2. QED  BY <3>2, <3>4, <4>1
    <3>5. CASE ~(i < w)
      <4>1. q[i] = p[i] - f[w] + v
        BY <2>4, <3>5
      <4>2. q[i + 1] = p[i + 1] - f[w] + v
        BY <2>5, <3>3, <4>1
      <4>3. QED  BY <3>2, <3>5, <4>2
    <3>6. QED  BY <3>4, <3>5
  <2>8. QED  BY <2>6, <2>7
<1>6. S = Nat
  <2> HIDE DEF S
  <2>1. S \in SUBSET Nat
    BY DEF S
  <2>2. QED  BY <1>4, <1>5, <2>1, NatClosure
<1>7. q[n] = p[n] - f[w] + v
  BY <1>6
<1>8. QED  BY <1>7 DEF p, q, g, SumTo

\* No term of a sum of naturals exceeds the sum.
LEMMA SumBoundsTerm ==
  ASSUME NEW n \in Nat, NEW f \in [1..n -> Nat], NEW w \in 1..n
  PROVE  f[w] <= SumTo(n, f)
<1>1. f \in [1..n -> Int] /\ [f EXCEPT ![w] = 0] \in [1..n -> Nat]
  OBVIOUS
<1>2. [f EXCEPT ![w] = 0] \in [1..n -> Int]
  OBVIOUS
<1>3. SumTo(n, [f EXCEPT ![w] = 0]) = SumTo(n, f) - f[w] + 0
  <2>1. 0 \in Int
    OBVIOUS
  <2>2. QED  BY <1>1, <2>1, SumUpdate, Zenon
<1>4. SumTo(n, [f EXCEPT ![w] = 0]) \in Nat /\ SumTo(n, f) \in Nat
  BY <1>1, <1>2, SumType
<1>5. QED  BY <1>3, <1>4

\* Smaller terms have a smaller sum.
LEMMA SumMonotone ==
  ASSUME NEW n \in Nat, NEW f \in [1..n -> Int], NEW g \in [1..n -> Int],
         \A i \in 1..n : f[i] <= g[i]
  PROVE  SumTo(n, f) <= SumTo(n, g)
<1> DEFINE p == PartialSums(n, f)
           q == PartialSums(n, g)
           S == {i \in Nat : i <= n => p[i] <= q[i]}
<1>1. /\ p[0] = 0 /\ \A i \in 1..n : p[i] = p[i - 1] + f[i]
      /\ q[0] = 0 /\ \A i \in 1..n : q[i] = q[i - 1] + g[i]
  BY PartialSumsStep
<1>2. \A i \in 0..n : p[i] \in Int /\ q[i] \in Int
  BY PartialSumsType
<1> HIDE DEF p, q
<1>3. 0 \in S
  BY <1>1
<1>4. ASSUME NEW i \in S PROVE i + 1 \in S
  <2>1. SUFFICES ASSUME i + 1 <= n PROVE p[i + 1] <= q[i + 1]
    OBVIOUS
  <2>2. i + 1 \in 1..n /\ (i + 1) - 1 = i /\ i \in 0..n
    BY <2>1
  <2>3. p[i + 1] = p[i] + f[i + 1] /\ q[i + 1] = q[i] + g[i + 1]
    BY <1>1, <2>2
  <2>4. p[i] <= q[i] /\ f[i + 1] <= g[i + 1] /\ f[i + 1] \in Int /\ g[i + 1] \in Int
    BY <2>1, <2>2
  <2>5. QED  BY <1>2, <2>2, <2>3, <2>4
<1>5. S = Nat
  <2> HIDE DEF S
  <2>1. S \in SUBSET Nat
    BY DEF S
  <2>2. QED  BY <1>3, <1>4, <2>1, NatClosure
<1>6. p[n] <= q[n]
  BY <1>5
<1>7. QED  BY <1>6 DEF p, q, SumTo

\* One term more.
LEMMA SumExtend ==
  ASSUME NEW n \in Nat, NEW f \in [1..n -> Int], NEW g \in [1..(n + 1) -> Int],
         \A i \in 1..n : g[i] = f[i]
  PROVE  SumTo(n + 1, g) = SumTo(n, f) + g[n + 1]
<1> DEFINE p == PartialSums(n, f)
           q == PartialSums(n + 1, g)
           S == {i \in Nat : i <= n => q[i] = p[i]}
<1>1. n + 1 \in Nat
  OBVIOUS
<1>2. /\ p[0] = 0 /\ \A i \in 1..n : p[i] = p[i - 1] + f[i]
      /\ q[0] = 0 /\ \A i \in 1..(n + 1) : q[i] = q[i - 1] + g[i]
  BY <1>1, PartialSumsStep
<1> HIDE DEF p, q
<1>3. 0 \in S
  BY <1>2
<1>4. ASSUME NEW i \in S PROVE i + 1 \in S
  <2>1. SUFFICES ASSUME i + 1 <= n PROVE q[i + 1] = p[i + 1]
    OBVIOUS
  <2>2. i + 1 \in 1..n /\ i + 1 \in 1..(n + 1) /\ (i + 1) - 1 = i /\ q[i] = p[i]
    BY <2>1
  <2>3. p[i + 1] = p[i] + f[i + 1] /\ q[i + 1] = q[i] + g[i + 1] /\ g[i + 1] = f[i + 1]
    BY <1>2, <2>2
  <2>4. QED  BY <2>2, <2>3
<1>5. S = Nat
  <2> HIDE DEF S
  <2>1. S \in SUBSET Nat
    BY DEF S
  <2>2. QED  BY <1>3, <1>4, <2>1, NatClosure
<1>6. q[n] = p[n]
  BY <1>5
<1>7. n + 1 \in 1..(n + 1) /\ (n + 1) - 1 = n
  OBVIOUS
<1>8. q[n + 1] = q[n] + g[n + 1]
  BY <1>2, <1>7
<1>9. QED  BY <1>6, <1>8 DEF p, q, SumTo

-------------------------------------------------------------------------------
(* Recursion                                                               *)

\* A set of numbers that is not empty has a least.
LEMMA LeastIs ==
  ASSUME NEW S \in SUBSET Nat, S # {}
  PROVE  \E m \in S : \A y \in S : m <= y
<1>1. SUFFICES ASSUME \A m \in S : \E y \in S : ~(m <= y) PROVE FALSE
  OBVIOUS
<1> DEFINE N == {n \in Nat : \A y \in S : n <= y}
<1>2. 0 \in N
  OBVIOUS
<1>3. ASSUME NEW n \in N PROVE n + 1 \in N
  <2>1. n \in Nat /\ n \notin S /\ \A y \in S : n <= y /\ y \in Nat
    BY <1>1, <1>3
  <2>2. ASSUME NEW y \in S PROVE n + 1 <= y
    <3>1. n # y
      BY <2>1
    <3>2. QED  BY <2>1, <3>1
  <2>3. QED  BY <2>1, <2>2
<1>4. N = Nat
  <2> HIDE DEF N
  <2>1. N \in SUBSET Nat
    BY DEF N
  <2>2. QED  BY <1>2, <1>3, <2>1, NatClosure
<1>5. PICK y \in S : TRUE
  OBVIOUS
<1>6. y \in Nat /\ y + 1 \in Nat /\ ~(y + 1 <= y)
  BY <1>5
<1>7. y + 1 \in N
  BY <1>4, <1>6
<1>8. y + 1 <= y
  BY <1>7
<1>9. QED  BY <1>6, <1>8

\* f goes from base step by step.
Steps(f, n, V, base, step) ==
  /\ f \in [0..n -> V] /\ f[0] = base
  /\ \A i \in 1..n : f[i] = step[<<i, f[i - 1]>>]

\* A function that calls itself for the step before exists.
LEMMA StepRecursion ==
  ASSUME NEW n \in Nat, NEW V, NEW base \in V, NEW step \in [(1..n) \X V -> V]
  PROVE  \E f : Steps(f, n, V, base, step)
<1> DEFINE Runs(m, f) == /\ f \in [0..m -> V] /\ f[0] = base
                         /\ \A i \in 1..m : f[i] = step[<<i, f[i - 1]>>]
           S == {m \in Nat : m <= n => \E f : Runs(m, f)}
<1>1. 0 \in S
  <2>1. Runs(0, [i \in 0..0 |-> base])
    OBVIOUS
  <2>2. QED  BY <2>1
<1>2. ASSUME NEW m \in S PROVE m + 1 \in S
  <2> HIDE DEF Runs
  <2>1. SUFFICES ASSUME m + 1 <= n PROVE \E g : Runs(m + 1, g)
    OBVIOUS
  <2>2. PICK f : Runs(m, f)
    BY <2>1
  <2> DEFINE last == step[<<m + 1, f[m]>>]
             g == [i \in 0..(m + 1) |-> IF i = m + 1 THEN last ELSE f[i]]
  <2>3. /\ f \in [0..m -> V] /\ f[0] = base
        /\ \A i \in 1..m : f[i] = step[<<i, f[i - 1]>>]
    BY <2>2 DEF Runs
  <2>4. m \in Nat /\ m + 1 \in 1..n /\ m \in 0..m
    BY <2>1
  <2>5. last \in V
    BY <2>3, <2>4
  <2> HIDE DEF last
  <2>6. g \in [0..(m + 1) -> V] /\ g[0] = base
    BY <2>3, <2>4, <2>5
  <2>7. ASSUME NEW i \in 1..(m + 1) PROVE g[i] = step[<<i, g[i - 1]>>]
    <3>1. CASE i = m + 1
      <4>1. i - 1 = m /\ m \in 0..(m + 1) /\ m # m + 1
        BY <2>4, <3>1
      <4>2. g[i] = last /\ g[i - 1] = f[m]
        BY <3>1, <4>1
      <4>3. QED  BY <3>1, <4>2, Zenon DEF last
    <3>2. CASE i # m + 1
      <4>1. i \in 1..m /\ i - 1 # m + 1 /\ i - 1 \in 0..(m + 1) /\ i \in 0..(m + 1)
        BY <2>4, <3>2
      <4>2. g[i] = f[i] /\ g[i - 1] = f[i - 1]
        BY <3>2, <4>1
      <4>3. f[i] = step[<<i, f[i - 1]>>]
        BY <2>3, <4>1
      <4>4. QED  BY <4>2, <4>3, Zenon
    <3>3. QED  BY <3>1, <3>2
  <2> HIDE DEF g
  <2>8. Runs(m + 1, g)
    BY <2>6, <2>7 DEF Runs
  <2>9. QED  BY <2>8
<1>3. S = Nat
  <2> HIDE DEF S
  <2>1. S \in SUBSET Nat
    BY DEF S
  <2>2. QED  BY <1>1, <1>2, <2>1, NatClosure
<1>4. PICK f : Runs(n, f)
  <2> HIDE DEF Runs
  <2>1. n \in S
    BY <1>3
  <2>2. QED  BY <2>1
<1>5. QED  BY <1>4 DEF Steps

-------------------------------------------------------------------------------
(* Texts                                                                   *)

Avoids(s, seps) == \A i \in 1..Len(s) : s[i] \notin seps

\* What a concatenation holds, in the terms of its parts.
LEMMA ConcatIs ==
  ASSUME NEW T, NEW a \in Seq(T), NEW b \in Seq(T)
  PROVE  /\ a \o b \in Seq(T) /\ Len(a) \in Nat /\ Len(b) \in Nat
         /\ Len(a \o b) = Len(a) + Len(b)
         /\ \A i \in 1..Len(a) : (a \o b)[i] = a[i]
         /\ \A i \in 1..Len(b) : (a \o b)[Len(a) + i] = b[i]
<1>1. /\ a \o b \in Seq(T)
      /\ Len(a \o b) = Len(a) + Len(b)
      /\ \A i \in 1..(Len(a) + Len(b)) : (a \o b)[i] =
                 IF i <= Len(a) THEN a[i] ELSE b[i - Len(a)]
  BY ConcatProperties
<1>2. Len(a) \in Nat /\ Len(b) \in Nat
  BY LenProperties
<1>3. ASSUME NEW i \in 1..Len(a) PROVE (a \o b)[i] = a[i]
  <2>1. i \in 1..(Len(a) + Len(b)) /\ i <= Len(a)
    BY <1>2
  <2>2. QED  BY <1>1, <2>1
<1>4. ASSUME NEW i \in 1..Len(b) PROVE (a \o b)[Len(a) + i] = b[i]
  <2>1. Len(a) + i \in 1..(Len(a) + Len(b)) /\ ~(Len(a) + i <= Len(a)) /\ (Len(a) + i) - Len(a) = i
    BY <1>2
  <2>2. (a \o b)[Len(a) + i] = b[(Len(a) + i) - Len(a)]
    BY <1>1, <2>1
  <2>3. QED  BY <2>1, <2>2
<1>5. QED  BY <1>1, <1>2, <1>3, <1>4

\* A text of one token.
LEMMA OneToken ==
  ASSUME NEW T, NEW t \in T
  PROVE  <<t>> \in Seq(T) /\ Len(<<t>>) = 1 /\ <<t>>[1] = t
OBVIOUS

\* What is put after the same text can be told from the whole.
LEMMA CancelLeft ==
  ASSUME NEW T, NEW a \in Seq(T), NEW b \in Seq(T), NEW d \in Seq(T), a \o b = a \o d
  PROVE  b = d
<1>1. /\ Len(a) \in Nat /\ Len(b) \in Nat /\ Len(a \o b) = Len(a) + Len(b)
      /\ \A i \in 1..Len(b) : (a \o b)[Len(a) + i] = b[i]
  BY ConcatIs
<1>2. /\ Len(d) \in Nat /\ Len(a \o d) = Len(a) + Len(d)
      /\ \A i \in 1..Len(d) : (a \o d)[Len(a) + i] = d[i]
  BY ConcatIs
<1>3. Len(b) = Len(d)
  BY <1>1, <1>2
<1>4. \A i \in 1..Len(b) : b[i] = d[i]
  BY <1>1, <1>2, <1>3
<1>5. QED  BY <1>3, <1>4, SeqEqual

\* A text can be taken apart in one way only, when the first part avoids the tokens
\* that the second begins with ...
LEMMA FirstCut ==
  ASSUME NEW T, NEW seps, NEW a \in Seq(T), NEW b \in Seq(T), NEW c \in Seq(T), NEW d \in Seq(T),
         Avoids(a, seps), Avoids(c, seps),
         b # <<>> => b[1] \in seps, d # <<>> => d[1] \in seps,
         a \o b = c \o d
  PROVE  a = c /\ b = d
<1>1. ASSUME NEW p \in Seq(T), NEW q \in Seq(T), NEW r \in Seq(T), NEW s \in Seq(T),
             Avoids(r, seps), q # <<>> => q[1] \in seps, p \o q = r \o s
      PROVE  ~(Len(p) < Len(r))
  <2>1. /\ Len(p) \in Nat /\ Len(q) \in Nat /\ Len(r) \in Nat /\ Len(s) \in Nat
        /\ Len(p) + Len(q) = Len(r) + Len(s)
        /\ \A i \in 1..Len(q) : (p \o q)[Len(p) + i] = q[i]
        /\ \A i \in 1..Len(r) : (r \o s)[i] = r[i]
    <3>1. /\ Len(p) \in Nat /\ Len(q) \in Nat
          /\ Len(p \o q) = Len(p) + Len(q)
          /\ \A i \in 1..Len(q) : (p \o q)[Len(p) + i] = q[i]
      BY ConcatIs
    <3>2. /\ Len(r) \in Nat /\ Len(s) \in Nat
          /\ Len(r \o s) = Len(r) + Len(s)
          /\ \A i \in 1..Len(r) : (r \o s)[i] = r[i]
      BY ConcatIs
    <3>3. QED  BY <1>1, <3>1, <3>2
  <2>2. SUFFICES ASSUME Len(p) < Len(r) PROVE FALSE
    OBVIOUS
  <2>3. Len(p) + 1 \in 1..Len(r)
    BY <2>1, <2>2
  <2>4. 1 \in 1..Len(q)
    BY <2>1, <2>2
  <2>5. q # <<>> /\ q[1] \in seps
    BY <1>1, <2>4, EmptySeq
  <2>6. (p \o q)[Len(p) + 1] = q[1] /\ (r \o s)[Len(p) + 1] = r[Len(p) + 1]
    BY <2>1, <2>3, <2>4
  <2>7. r[Len(p) + 1] \in seps
    BY <1>1, <2>5, <2>6
  <2>8. QED  BY <1>1, <2>3, <2>7 DEF Avoids
<1>2. Len(a) = Len(c)
  <2>1. ~(Len(a) < Len(c)) /\ ~(Len(c) < Len(a))
    BY <1>1
  <2>2. Len(a) \in Nat /\ Len(c) \in Nat
    BY LenProperties
  <2>3. QED  BY <2>1, <2>2
<1>3. a = c
  <2>1. \A i \in 1..Len(a) : a[i] = c[i]
    <3>1. \A i \in 1..Len(a) : (a \o b)[i] = a[i]
      BY ConcatIs
    <3>2. \A i \in 1..Len(c) : (c \o d)[i] = c[i]
      BY ConcatIs
    <3>3. QED  BY <1>2, <3>1, <3>2
  <2>2. QED  BY <1>2, <2>1, SeqEqual
<1>4. b = d
  BY <1>3, CancelLeft
<1>5. QED  BY <1>3, <1>4

\* ... or the last part avoids the token before it.
LEMMA LastCut ==
  ASSUME NEW T, NEW sep \in T,
         NEW a \in Seq(T), NEW p \in Seq(T), NEW b \in Seq(T), NEW q \in Seq(T),
         Avoids(p, {sep}), Avoids(q, {sep}),
         a \o <<sep>> \o p = b \o <<sep>> \o q
  PROVE  a = b /\ p = q
<1> PICK one : one = <<sep>>
  OBVIOUS
<1>0. one \in Seq(T) /\ Len(one) = 1 /\ one[1] = sep
  BY OneToken
<1>1. ASSUME NEW x \in Seq(T), NEW y \in Seq(T)
      PROVE  /\ x \o one \in Seq(T) /\ Len(x) \in Nat /\ Len(y) \in Nat
             /\ Len(x \o one) = Len(x) + 1 /\ (x \o one)[Len(x) + 1] = sep
             /\ Len(x \o one \o y) = Len(x) + 1 + Len(y)
             /\ (x \o one \o y)[Len(x) + 1] = sep
             /\ \A i \in 1..Len(y) : (x \o one \o y)[Len(x) + 1 + i] = y[i]
  <2>1. /\ x \o one \in Seq(T) /\ Len(x) \in Nat
        /\ Len(x \o one) = Len(x) + Len(one)
        /\ \A i \in 1..Len(one) : (x \o one)[Len(x) + i] = one[i]
    BY <1>0, ConcatIs
  <2>2. 1 \in 1..Len(one) /\ Len(x) + 1 \in 1..Len(x \o one)
    BY <1>0, <2>1
  <2>3. /\ Len(y) \in Nat
        /\ Len(x \o one \o y) = Len(x \o one) + Len(y)
        /\ \A i \in 1..Len(x \o one) : (x \o one \o y)[i] = (x \o one)[i]
        /\ \A i \in 1..Len(y) : (x \o one \o y)[Len(x \o one) + i] = y[i]
    BY <2>1, ConcatIs
  <2>4. (x \o one)[Len(x) + 1] = sep
    BY <1>0, <2>1, <2>2
  <2>5. QED  BY <1>0, <2>1, <2>2, <2>3, <2>4
<1>2. ASSUME NEW x \in Seq(T), NEW y \in Seq(T), NEW u \in Seq(T), NEW v \in Seq(T),
             Avoids(y, {sep}), x \o one \o y = u \o one \o v
      PROVE  ~(Len(x) < Len(u))
  <2>1. /\ Len(x) \in Nat /\ Len(y) \in Nat
        /\ Len(x \o one \o y) = Len(x) + 1 + Len(y)
        /\ \A i \in 1..Len(y) : (x \o one \o y)[Len(x) + 1 + i] = y[i]
    BY <1>1
  <2>2. /\ Len(u) \in Nat /\ Len(v) \in Nat
        /\ Len(u \o one \o v) = Len(u) + 1 + Len(v)
        /\ (u \o one \o v)[Len(u) + 1] = sep
    BY <1>1
  <2>3. SUFFICES ASSUME Len(x) < Len(u) PROVE FALSE
    OBVIOUS
  <2>4. /\ Len(u) - Len(x) \in 1..Len(y)
        /\ Len(x) + 1 + (Len(u) - Len(x)) = Len(u) + 1
    BY <1>2, <2>1, <2>2, <2>3
  <2>5. y[Len(u) - Len(x)] = sep
    BY <1>2, <2>1, <2>2, <2>4
  <2>6. QED  BY <1>2, <2>4, <2>5 DEF Avoids
<1>3. a \o one \o p = b \o one \o q
  OBVIOUS
<1>4. ~(Len(a) < Len(b)) /\ ~(Len(b) < Len(a))
  BY <1>2, <1>3
<1>5. /\ Len(a) \in Nat /\ Len(b) \in Nat
      /\ a \o one \in Seq(T) /\ b \o one \in Seq(T)
      /\ Len(a \o one) = Len(a) + 1 /\ Len(b \o one) = Len(b) + 1
  BY <1>1
<1>6. Len(a) = Len(b)
  BY <1>4, <1>5
<1>7. a = b
  <2>1. ASSUME NEW x \in Seq(T), NEW y \in Seq(T), NEW i \in 1..Len(x)
        PROVE  (x \o one \o y)[i] = x[i]
    <3>1. /\ x \o one \in Seq(T) /\ Len(x) \in Nat /\ Len(x \o one) = Len(x) + 1
          /\ (x \o one)[i] = x[i]
      BY <1>0, <1>1, ConcatIs
    <3>2. i \in 1..Len(x \o one)
      BY <3>1
    <3>3. (x \o one \o y)[i] = (x \o one)[i]
      BY <3>1, <3>2, ConcatIs
    <3>4. QED  BY <3>1, <3>3
  <2>2. \A i \in 1..Len(a) : a[i] = b[i]
    BY <1>3, <1>6, <2>1
  <2>3. QED  BY <1>6, <2>2, SeqEqual
<1>8. p = q
  BY <1>3, <1>5, <1>7, CancelLeft
<1>9. QED  BY <1>7, <1>8

\* Before and From take a text apart at the first of the separators.
LEMMA CutIs ==
  ASSUME NEW T, NEW seps, NEW s \in Seq(T)
  PROVE  /\ Before(s, seps) \in Seq(T) /\ From(s, seps) \in Seq(T)
         /\ s = Before(s, seps) \o From(s, seps)
         /\ Avoids(Before(s, seps), seps)
         /\ From(s, seps) # <<>> => From(s, seps)[1] \in seps
<1> DEFINE Here(n) == /\ \A i \in 1..n : s[i] \notin seps
                      /\ n < Len(s) => s[n + 1] \in seps
<1>1. Len(s) \in Nat
  BY LenProperties
<1>2. \E n \in 0..Len(s) : Here(n)
  <2> DEFINE S == {n \in Nat : n <= Len(s) => \A i \in 1..n : s[i] \notin seps}
  <2>1. SUFFICES ASSUME ~\E n \in 0..Len(s) : Here(n) PROVE FALSE
    OBVIOUS
  <2>2. 0 \in S
    OBVIOUS
  <2>3. ASSUME NEW n \in S PROVE n + 1 \in S
    <3>1. SUFFICES ASSUME n + 1 <= Len(s), NEW i \in 1..(n + 1) PROVE s[i] \notin seps
      OBVIOUS
    <3>2. n \in 0..Len(s) /\ n < Len(s) /\ \A k \in 1..n : s[k] \notin seps
      BY <1>1, <3>1
    <3>3. s[n + 1] \notin seps
      BY <2>1, <3>2
    <3>4. i \in 1..n \/ i = n + 1
      BY <3>1
    <3>5. QED  BY <3>2, <3>3, <3>4
  <2>4. S = Nat
    <3> HIDE DEF S
    <3>1. S \in SUBSET Nat
      BY DEF S
    <3>2. QED  BY <2>2, <2>3, <3>1, NatClosure
  <2>5. \A i \in 1..Len(s) : s[i] \notin seps
    BY <1>1, <2>4
  <2>6. Here(Len(s)) /\ Len(s) \in 0..Len(s)
    BY <1>1, <2>5
  <2>7. QED  BY <2>1, <2>6
<1> DEFINE n == Cut(s, seps)
<1>3. n \in 0..Len(s) /\ Here(n)
  <2>1. n = CHOOSE m \in 0..Len(s) : Here(m)
    BY DEF Cut
  <2> HIDE DEF Here, n
  <2>2. QED  BY <1>2, <2>1
<1> HIDE DEF n
<1>4. /\ Before(s, seps) = SubSeq(s, 1, n) /\ From(s, seps) = SubSeq(s, n + 1, Len(s))
  BY DEF Before, From, n
<1>5. \A i \in 1..Len(s) : s[i] \in T
  BY ElementOfSeq
<1>6. /\ SubSeq(s, 1, n) \in Seq(T) /\ Len(SubSeq(s, 1, n)) = n
      /\ \A i \in 1..n : SubSeq(s, 1, n)[i] = s[i]
  <2>1. 1 \in Int /\ n \in Int /\ \A i \in 1..n : s[i] \in T
    BY <1>1, <1>3, <1>5
  <2>2. /\ SubSeq(s, 1, n) \in Seq(T)
        /\ Len(SubSeq(s, 1, n)) = IF 1 <= n THEN n - 1 + 1 ELSE 0
        /\ \A i \in 1..(n - 1 + 1) : SubSeq(s, 1, n)[i] = s[1 + i - 1]
    BY <2>1, SubSeqProperties
  <2>3. QED  BY <1>3, <2>2
<1>7. /\ SubSeq(s, n + 1, Len(s)) \in Seq(T) /\ Len(SubSeq(s, n + 1, Len(s))) = Len(s) - n
      /\ n < Len(s) => SubSeq(s, n + 1, Len(s))[1] = s[n + 1]
  <2>1. n + 1 \in Int /\ Len(s) \in Int /\ \A i \in (n + 1)..Len(s) : s[i] \in T
    BY <1>1, <1>3, <1>5
  <2>2. /\ SubSeq(s, n + 1, Len(s)) \in Seq(T)
        /\ Len(SubSeq(s, n + 1, Len(s))) = IF n + 1 <= Len(s) THEN Len(s) - (n + 1) + 1 ELSE 0
        /\ \A i \in 1..(Len(s) - (n + 1) + 1) : SubSeq(s, n + 1, Len(s))[i] = s[n + 1 + i - 1]
    BY <2>1, SubSeqProperties
  <2>3. QED  BY <1>1, <1>3, <2>2
<1>8. s = SubSeq(s, 1, n) \o SubSeq(s, n + 1, Len(s))
  <2>1. 1 \in 1..(Len(s) + 1) /\ n \in (1 - 1)..Len(s) /\ Len(s) \in n..Len(s)
    BY <1>1, <1>3
  <2>2. SubSeq(s, 1, n) \o SubSeq(s, n + 1, Len(s)) = SubSeq(s, 1, Len(s))
    BY <2>1, ConcatAdjacentSubSeq
  <2>3. QED  BY <2>2, SubSeqFull
<1>9. Avoids(SubSeq(s, 1, n), seps)
  BY <1>3, <1>6 DEF Avoids
<1>10. SubSeq(s, n + 1, Len(s)) # <<>> => SubSeq(s, n + 1, Len(s))[1] \in seps
  <2>1. SUFFICES ASSUME SubSeq(s, n + 1, Len(s)) # <<>> PROVE SubSeq(s, n + 1, Len(s))[1] \in seps
    OBVIOUS
  <2>2. Len(SubSeq(s, n + 1, Len(s))) \in Nat \ {0}
    BY <1>7, <2>1, EmptySeq
  <2>3. n < Len(s)
    BY <1>1, <1>3, <1>7, <2>2
  <2>4. QED  BY <1>3, <1>7, <2>3
<1>11. QED  BY <1>4, <1>6, <1>7, <1>8, <1>9, <1>10

\* So they are known as soon as the two parts are.
LEMMA CutAt ==
  ASSUME NEW T, NEW seps, NEW a \in Seq(T), NEW b \in Seq(T),
         Avoids(a, seps), b # <<>> => b[1] \in seps
  PROVE  Before(a \o b, seps) = a /\ From(a \o b, seps) = b
<1> DEFINE s == a \o b
<1>1. s \in Seq(T)
  BY ConcatIs
<1>2. s = a \o b
  OBVIOUS
<1> HIDE DEF s
<1>3. /\ Before(s, seps) \in Seq(T) /\ From(s, seps) \in Seq(T)
      /\ s = Before(s, seps) \o From(s, seps)
      /\ Avoids(Before(s, seps), seps)
      /\ From(s, seps) # <<>> => From(s, seps)[1] \in seps
  BY <1>1, CutIs
<1>4. Before(s, seps) = a /\ From(s, seps) = b
  BY <1>2, <1>3, FirstCut
<1>5. QED  BY <1>4 DEF s

-------------------------------------------------------------------------------
(* Splitting and joining                                                   *)

\* The parts after one token more.
Grown(parts, t, sep) ==
  IF t = sep THEN Append(parts, <<>>)
  ELSE Append(SubSeq(parts, 1, Len(parts) - 1), Append(parts[Len(parts)], t))

\* All but the last element, and the last.
LEMMA FrontAndLast ==
  ASSUME NEW S, NEW front \in Seq(S), NEW last \in S
  PROVE  LET s == Append(front, last) IN SubSeq(s, 1, Len(s) - 1) = front /\ s[Len(s)] = last
<1>0. PICK s : s = Append(front, last)
  OBVIOUS
<1>1. /\ Len(front) \in Nat /\ s \in Seq(S) /\ Len(s) = Len(front) + 1
      /\ \A i \in 1..Len(front) : s[i] = front[i]
      /\ s[Len(front) + 1] = last
  BY <1>0, AppendProperties, LenProperties
<1>2. PICK n \in Nat : n = Len(front)
  BY <1>1
<1>3. /\ SubSeq(s, 1, n) \in Seq(S) /\ Len(SubSeq(s, 1, n)) = n
      /\ \A i \in 1..n : SubSeq(s, 1, n)[i] = s[i]
  <2>1. 1 \in Int /\ n \in Int /\ \A i \in 1..n : s[i] \in S
    <3>1. \A i \in 1..n : front[i] \in S
      BY <1>2, ElementOfSeq
    <3>2. QED  BY <1>1, <1>2, <3>1
  <2>2. /\ SubSeq(s, 1, n) \in Seq(S)
        /\ Len(SubSeq(s, 1, n)) = IF 1 <= n THEN n - 1 + 1 ELSE 0
        /\ \A i \in 1..(n - 1 + 1) : SubSeq(s, 1, n)[i] = s[1 + i - 1]
    BY <2>1, SubSeqProperties
  <2>3. QED  BY <1>2, <2>2
<1>4. SubSeq(s, 1, n) = front
  BY <1>1, <1>2, <1>3, SeqEqual
<1>5. Len(s) - 1 = n /\ s[Len(s)] = last
  BY <1>1, <1>2
<1>6. QED  BY <1>0, <1>4, <1>5

\* A token more makes the last part longer, or starts another.
Grows(T, sep, t, parts) ==
  /\ Grown(parts, t, sep) \in Seq(Seq(T)) /\ Grown(parts, t, sep) # <<>>
  /\ t = sep => Grown(parts, t, sep) = Append(parts, <<>>)
  /\ t # sep => \E front \in Seq(Seq(T)), last \in Seq(T) :
                   /\ parts = Append(front, last)
                   /\ Grown(parts, t, sep) = Append(front, Append(last, t))

\* Growing the parts of a text by a token does one or the other.
LEMMA GrownIs ==
  ASSUME NEW T, NEW sep \in T, NEW t \in T, NEW parts \in Seq(Seq(T)), parts # <<>>
  PROVE  Grows(T, sep, t, parts)
<1>1. CASE t = sep
  <2>1. <<>> \in Seq(T)
    BY EmptySeq
  <2>2. Grown(parts, t, sep) = Append(parts, <<>>)
    BY <1>1 DEF Grown
  <2>3. Append(parts, <<>>) \in Seq(Seq(T)) /\ Append(parts, <<>>) # <<>>
    BY <2>1, AppendProperties
  <2>4. QED  BY <1>1, <2>2, <2>3 DEF Grows
<1>2. CASE t # sep
  <2>1. PICK front \in Seq(Seq(T)), last \in Seq(T) : parts = Append(front, last)
    BY SequenceEmptyOrAppend
  <2>2. PICK longer \in Seq(T) : longer = Append(last, t)
    BY AppendProperties
  <2>4. SubSeq(parts, 1, Len(parts) - 1) = front /\ parts[Len(parts)] = last
    BY <2>1, FrontAndLast
  <2>5. Append(front, longer) \in Seq(Seq(T)) /\ Append(front, longer) # <<>>
    BY AppendProperties
  <2>6. Grown(parts, t, sep) = Append(front, longer)
    BY <1>2, <2>2, <2>4 DEF Grown
  <2>7. QED  BY <1>2, <2>1, <2>2, <2>5, <2>6, Zenon DEF Grows
<1>3. QED  BY <1>1, <1>2

\* Split goes from one empty part token by token.
SplitRun(g, T, sep, s) ==
  /\ Split(s, sep) = g[Len(s)]
  /\ \A i \in 0..Len(s) : g[i] \in Seq(Seq(T)) /\ g[i] # <<>>
  /\ g[0] = <<<<>>>>
  /\ \A i \in 1..Len(s) : g[i] = Grown(g[i - 1], s[i], sep)

\* Such a run exists.
LEMMA SplitSteps ==
  ASSUME NEW T, NEW sep \in T, NEW s \in Seq(T)
  PROVE  \E g : SplitRun(g, T, sep, s)
<1> DEFINE n == Len(s)
           V == Seq(Seq(T)) \ {<<>>}
           step == [x \in (1..n) \X V |-> Grown(x[2], s[x[1]], sep)]
           Body(h) == [i \in 0..n |->
                         IF i = 0 THEN <<<<>>>>
                         ELSE LET p == h[i - 1]
                              IN  IF s[i] = sep THEN Append(p, <<>>)
                                  ELSE Append(SubSeq(p, 1, Len(p) - 1), Append(p[Len(p)], s[i]))]
<1>1. n \in Nat /\ \A i \in 1..n : s[i] \in T
  BY LenProperties, ElementOfSeq
<1> HIDE DEF n
<1>2. <<<<>>>> \in V
  <2>1. <<>> \in Seq(T)
    BY EmptySeq
  <2>2. <<<<>>>> \in Seq(Seq(T)) /\ Len(<<<<>>>>) = 1
    BY <2>1, OneToken
  <2>3. QED  BY <2>2, EmptySeq
<1>0. ASSUME NEW p \in Seq(Seq(T)), NEW t \in T, p # <<>>
      PROVE  Grown(p, t, sep) \in Seq(Seq(T)) /\ Grown(p, t, sep) # <<>>
  BY <1>0, GrownIs DEF Grows
<1>3. \A p \in V, i \in 1..n : Grown(p, s[i], sep) \in V
  <2>1. ASSUME NEW p \in V, NEW i \in 1..n PROVE Grown(p, s[i], sep) \in V
    <3>1. s[i] \in T /\ p \in Seq(Seq(T)) /\ p # <<>>
      BY <1>1
    <3>2. Grown(p, s[i], sep) \in Seq(Seq(T)) /\ Grown(p, s[i], sep) # <<>>
      BY <1>0, <3>1
    <3>3. QED  BY <3>2
  <2>2. QED  BY <2>1
<1>4. step \in [(1..n) \X V -> V]
  <2> HIDE DEF V
  <2>1. QED  BY <1>3
<1>5. PICK f : Steps(f, n, V, <<<<>>>>, step)
  <2> HIDE DEF step, V
  <2>1. QED  BY <1>1, <1>2, <1>4, StepRecursion
<1>6. /\ f \in [0..n -> V] /\ f[0] = <<<<>>>>
      /\ \A i \in 1..n : f[i] = step[<<i, f[i - 1]>>]
  BY <1>5 DEF Steps
<1>7. \A i \in 1..n : f[i] = Grown(f[i - 1], s[i], sep)
  <2> HIDE DEF V
  <2>1. ASSUME NEW i \in 1..n PROVE f[i] = Grown(f[i - 1], s[i], sep)
    <3>1. i - 1 \in 0..n
      BY <1>1
    <3>2. f[i - 1] \in V
      BY <1>6, <3>1
    <3>3. step[<<i, f[i - 1]>>] = Grown(f[i - 1], s[i], sep)
      BY <3>2
    <3>4. QED  BY <1>6, <3>3, Zenon
  <2>2. QED  BY <2>1
<1>8. \A h : Body(h) = [i \in 0..n |-> IF i = 0 THEN <<<<>>>> ELSE Grown(h[i - 1], s[i], sep)]
  BY DEF Grown
<1> HIDE DEF Body
<1>9. f = Body(f)
  <2>1. ASSUME NEW i \in 0..n
        PROVE  f[i] = IF i = 0 THEN <<<<>>>> ELSE Grown(f[i - 1], s[i], sep)
    <3>1. i = 0 \/ i \in 1..n
      BY <1>1
    <3>2. QED  BY <1>6, <1>7, <3>1, Zenon
  <2>2. f = [i \in 0..n |-> f[i]]
    <3> HIDE DEF V
    <3>1. QED  BY <1>6
  <2>3. QED  BY <1>8, <2>1, <2>2
<1>10. PICK g : g = CHOOSE h : h = Body(h)
  OBVIOUS
<1>11. g = Body(g)
  BY <1>9, <1>10, Zenon
<1>12. g = [i \in 0..n |-> IF i = 0 THEN <<<<>>>> ELSE Grown(g[i - 1], s[i], sep)]
  BY <1>8, <1>11, Zenon
<1>13. g[0] = <<<<>>>> /\ \A i \in 1..n : g[i] = Grown(g[i - 1], s[i], sep)
  <2>1. PICK b : b = [i \in 0..n |-> IF i = 0 THEN <<<<>>>> ELSE Grown(g[i - 1], s[i], sep)]
    OBVIOUS
  <2>2. b[0] = <<<<>>>> /\ \A i \in 1..n : b[i] = Grown(g[i - 1], s[i], sep)
    BY <1>1, <2>1
  <2>3. g = b
    BY <1>12, <2>1, Zenon
  <2>4. QED  BY <2>2, <2>3, Zenon
<1> DEFINE S == {i \in Nat : i <= n => g[i] \in V}
<1>14. S = Nat
  <2>1. 0 \in S
    BY <1>2, <1>13
  <2>2. ASSUME NEW i \in S PROVE i + 1 \in S
    <3> HIDE DEF V
    <3>1. SUFFICES ASSUME i + 1 <= n PROVE g[i + 1] \in V
      BY <2>2
    <3>2. i \in Nat /\ i <= n /\ i + 1 \in 1..n /\ (i + 1) - 1 = i
      BY <1>1, <2>2, <3>1
    <3>3. g[i] \in V
      BY <2>2, <3>2
    <3>4. g[i + 1] = Grown(g[i], s[i + 1], sep)
      BY <1>13, <3>2
    <3>5. QED  BY <1>3, <3>2, <3>3, <3>4
  <2> HIDE DEF S
  <2>3. S \in SUBSET Nat
    BY DEF S
  <2>4. QED  BY <2>1, <2>2, <2>3, NatClosure
<1>15. \A i \in 0..n : g[i] \in Seq(Seq(T)) /\ g[i] # <<>>
  BY <1>1, <1>14
<1>16. Split(s, sep) = g[n]
  BY <1>10, Zenon DEF Split, Body, n
<1>17. QED  BY <1>13, <1>15, <1>16 DEF n, SplitRun

\* Joined goes part by part.
JoinRun(g, T, sep, parts) ==
  /\ Joined(parts, sep) = g[Len(parts)]
  /\ \A i \in 0..Len(parts) : g[i] \in Seq(T)
  /\ g[0] = <<>>
  /\ \A i \in 1..Len(parts) :
       g[i] = IF i = 1 THEN parts[i] ELSE g[i - 1] \o <<sep>> \o parts[i]

\* Such a run exists.
LEMMA JoinedSteps ==
  ASSUME NEW T, NEW sep \in T, NEW parts \in Seq(Seq(T))
  PROVE  \E g : JoinRun(g, T, sep, parts)
<1> DEFINE n == Len(parts)
           V == Seq(T)
           Then(text, i) == IF i = 1 THEN parts[i] ELSE text \o <<sep>> \o parts[i]
           step == [x \in (1..n) \X V |-> Then(x[2], x[1])]
           Body(h) == [i \in 0..n |->
                         IF i = 0 THEN <<>>
                         ELSE IF i = 1 THEN parts[i]
                         ELSE h[i - 1] \o <<sep>> \o parts[i]]
<1>1. n \in Nat /\ \A i \in 1..n : parts[i] \in V
  BY LenProperties, ElementOfSeq
<1> HIDE DEF n
<1>2. <<>> \in V
  BY EmptySeq
<1>3. \A p \in V, i \in 1..n : Then(p, i) \in V
  <2>1. <<sep>> \in V
    BY OneToken
  <2>2. \A a, b \in V : a \o b \in V
    BY ConcatIs
  <2> HIDE DEF V
  <2>3. QED  BY <1>1, <2>1, <2>2
<1>4. step \in [(1..n) \X V -> V]
  <2> HIDE DEF V, Then
  <2>1. QED  BY <1>3
<1>5. PICK f : Steps(f, n, V, <<>>, step)
  <2> HIDE DEF step, V
  <2>1. QED  BY <1>1, <1>2, <1>4, StepRecursion
<1>6. /\ f \in [0..n -> V] /\ f[0] = <<>>
      /\ \A i \in 1..n : f[i] = step[<<i, f[i - 1]>>]
  BY <1>5 DEF Steps
<1>7. \A i \in 1..n : f[i] = Then(f[i - 1], i)
  <2> HIDE DEF V, Then
  <2>1. ASSUME NEW i \in 1..n PROVE f[i] = Then(f[i - 1], i)
    <3>1. i - 1 \in 0..n
      BY <1>1
    <3>2. f[i - 1] \in V
      BY <1>6, <3>1
    <3>3. step[<<i, f[i - 1]>>] = Then(f[i - 1], i)
      BY <3>2
    <3>4. QED  BY <1>6, <3>3, Zenon
  <2>2. QED  BY <2>1
<1>8. \A h : Body(h) = [i \in 0..n |-> IF i = 0 THEN <<>> ELSE Then(h[i - 1], i)]
  OBVIOUS
<1> HIDE DEF Body, Then
<1>9. f = Body(f)
  <2>1. ASSUME NEW i \in 0..n
        PROVE  f[i] = IF i = 0 THEN <<>> ELSE Then(f[i - 1], i)
    BY <1>1, <1>6, <1>7
  <2>2. f = [i \in 0..n |-> f[i]]
    <3> HIDE DEF V
    <3>1. QED  BY <1>6
  <2>3. QED  BY <1>8, <2>1, <2>2
<1>10. PICK g : g = CHOOSE h : h = Body(h)
  OBVIOUS
<1>11. g = Body(g)
  BY <1>9, <1>10, Zenon
<1>12. g = [i \in 0..n |-> IF i = 0 THEN <<>> ELSE Then(g[i - 1], i)]
  BY <1>8, <1>11, Zenon
<1>13. g[0] = <<>> /\ \A i \in 1..n : g[i] = Then(g[i - 1], i)
  <2>1. PICK b : b = [i \in 0..n |-> IF i = 0 THEN <<>> ELSE Then(g[i - 1], i)]
    OBVIOUS
  <2>2. b[0] = <<>> /\ \A i \in 1..n : b[i] = Then(g[i - 1], i)
    BY <1>1, <2>1
  <2>3. g = b
    BY <1>12, <2>1, Zenon
  <2>4. QED  BY <2>2, <2>3, Zenon
<1> DEFINE S == {i \in Nat : i <= n => g[i] \in V}
<1>14. S = Nat
  <2>1. 0 \in S
    BY <1>2, <1>13
  <2>2. ASSUME NEW i \in S PROVE i + 1 \in S
    <3> HIDE DEF V
    <3>1. SUFFICES ASSUME i + 1 <= n PROVE g[i + 1] \in V
      BY <2>2
    <3>2. i \in Nat /\ i <= n /\ i + 1 \in 1..n /\ (i + 1) - 1 = i
      BY <1>1, <2>2, <3>1
    <3>3. g[i] \in V
      BY <2>2, <3>2
    <3>4. g[i + 1] = Then(g[i], i + 1)
      BY <1>13, <3>2
    <3>5. QED  BY <1>3, <3>2, <3>3, <3>4
  <2> HIDE DEF S
  <2>3. S \in SUBSET Nat
    BY DEF S
  <2>4. QED  BY <2>1, <2>2, <2>3, NatClosure
<1>15. \A i \in 0..n : g[i] \in Seq(T)
  BY <1>1, <1>14
<1>16. Joined(parts, sep) = g[n]
  BY <1>10, Zenon DEF Joined, Body, n
<1>17. QED  BY <1>13, <1>15, <1>16 DEF n, Then, JoinRun

\* No parts make nothing; one part makes itself; another is put behind a separator.
JoinsTo(T, sep, parts, part) ==
  /\ Joined(parts, sep) \in Seq(T)
  /\ parts = <<>> => Joined(parts, sep) = <<>> /\ Joined(Append(parts, part), sep) = part
  /\ parts # <<>> => Joined(Append(parts, part), sep) = Joined(parts, sep) \o <<sep>> \o part

\* Joined puts parts together that way, one after the other.
LEMMA JoinedIs ==
  ASSUME NEW T, NEW sep \in T, NEW parts \in Seq(Seq(T)), NEW part \in Seq(T)
  PROVE  JoinsTo(T, sep, parts, part)
<1>1. PICK g : JoinRun(g, T, sep, parts)
  BY JoinedSteps
<1>2. PICK n \in Nat : n = Len(parts)
  BY LenProperties
<1>3. PICK more : more = Append(parts, part)
  OBVIOUS
<1>4. /\ more \in Seq(Seq(T)) /\ Len(more) = n + 1
      /\ \A i \in 1..n : more[i] = parts[i]
      /\ more[n + 1] = part
  BY <1>2, <1>3, AppendProperties
<1>5. PICK h : JoinRun(h, T, sep, more)
  BY <1>4, JoinedSteps
<1>6. /\ Joined(parts, sep) = g[n] /\ \A i \in 0..n : g[i] \in Seq(T)
      /\ g[0] = <<>>
      /\ \A i \in 1..n : g[i] = IF i = 1 THEN parts[i] ELSE g[i - 1] \o <<sep>> \o parts[i]
  BY <1>1, <1>2 DEF JoinRun
<1>7. /\ Joined(more, sep) = h[n + 1] /\ h[0] = <<>>
      /\ \A i \in 1..(n + 1) : h[i] = IF i = 1 THEN more[i] ELSE h[i - 1] \o <<sep>> \o more[i]
  BY <1>4, <1>5 DEF JoinRun
<1> DEFINE S == {i \in Nat : i <= n => h[i] = g[i]}
<1>8. S = Nat
  <2>1. 0 \in S
    BY <1>6, <1>7
  <2>2. ASSUME NEW i \in S PROVE i + 1 \in S
    <3>1. SUFFICES ASSUME i + 1 <= n PROVE h[i + 1] = g[i + 1]
      BY <2>2
    <3>2. i \in Nat /\ i + 1 \in 1..n /\ i + 1 \in 1..(n + 1) /\ (i + 1) - 1 = i /\ i <= n
      BY <3>1, <2>2
    <3>3. h[i] = g[i] /\ more[i + 1] = parts[i + 1]
      BY <1>4, <2>2, <3>2
    <3>4. h[i + 1] = IF i + 1 = 1 THEN more[i + 1] ELSE h[i] \o <<sep>> \o more[i + 1]
      BY <1>7, <3>2
    <3>5. g[i + 1] = IF i + 1 = 1 THEN parts[i + 1] ELSE g[i] \o <<sep>> \o parts[i + 1]
      BY <1>6, <3>2
    <3>6. QED  BY <3>3, <3>4, <3>5, Zenon
  <2> HIDE DEF S
  <2>3. S \in SUBSET Nat
    BY DEF S
  <2>4. QED  BY <2>1, <2>2, <2>3, NatClosure
<1>9. h[n] = g[n]
  BY <1>8
<1>10. Joined(parts, sep) \in Seq(T)
  BY <1>6
<1>11. parts = <<>> => n = 0
  BY <1>2, EmptySeq
<1>12. parts # <<>> => n # 0
  BY <1>2, EmptySeq
<1>13. n + 1 \in 1..(n + 1) /\ (n + 1) - 1 = n
  OBVIOUS
<1>14. Joined(more, sep) = IF n = 0 THEN part ELSE g[n] \o <<sep>> \o part
  <2>1. h[n + 1] = IF n + 1 = 1 THEN more[n + 1] ELSE h[n] \o <<sep>> \o more[n + 1]
    BY <1>7, <1>13
  <2>2. n + 1 = 1 <=> n = 0
    OBVIOUS
  <2>3. QED  BY <1>4, <1>7, <1>9, <2>1, <2>2, Zenon
<1>15. parts = <<>> => Joined(parts, sep) = <<>> /\ Joined(more, sep) = part
  BY <1>6, <1>11, <1>14
<1>16. parts # <<>> => Joined(more, sep) = Joined(parts, sep) \o <<sep>> \o part
  BY <1>6, <1>12, <1>14, Zenon
<1>17. QED  BY <1>3, <1>10, <1>15, <1>16, Zenon DEF JoinsTo

AllAvoid(parts, sep) == \A i \in 1..Len(parts) : Avoids(parts[i], {sep})

\* What avoids a separator, token by token ...
LEMMA AvoidsAppend ==
  ASSUME NEW T, NEW s \in Seq(T), NEW t \in T, NEW seps
  PROVE  Avoids(Append(s, t), seps) <=> Avoids(s, seps) /\ t \notin seps
<1>1. /\ Len(s) \in Nat /\ Len(Append(s, t)) = Len(s) + 1
      /\ \A i \in 1..Len(s) : Append(s, t)[i] = s[i]
      /\ Append(s, t)[Len(s) + 1] = t
  BY AppendProperties, LenProperties
<1>2. \A i : i \in 1..(Len(s) + 1) <=> i \in 1..Len(s) \/ i = Len(s) + 1
  BY <1>1
<1>3. QED  BY <1>1, <1>2, Zenon DEF Avoids

\* Part by part ...
LEMMA AllAvoidAppend ==
  ASSUME NEW T, NEW parts \in Seq(T), NEW part \in T, NEW sep
  PROVE  AllAvoid(Append(parts, part), sep) <=> AllAvoid(parts, sep) /\ Avoids(part, {sep})
<1>1. /\ Len(parts) \in Nat /\ Len(Append(parts, part)) = Len(parts) + 1
      /\ \A i \in 1..Len(parts) : Append(parts, part)[i] = parts[i]
      /\ Append(parts, part)[Len(parts) + 1] = part
  BY AppendProperties, LenProperties
<1>2. \A i : i \in 1..(Len(parts) + 1) <=> i \in 1..Len(parts) \/ i = Len(parts) + 1
  BY <1>1
<1>3. QED  BY <1>1, <1>2, Zenon DEF AllAvoid

\* ... text by text ...
LEMMA AvoidsConcat ==
  ASSUME NEW T, NEW a \in Seq(T), NEW b \in Seq(T), NEW seps
  PROVE  Avoids(a \o b, seps) <=> Avoids(a, seps) /\ Avoids(b, seps)
<1>1. /\ Len(a) \in Nat /\ Len(b) \in Nat /\ Len(a \o b) = Len(a) + Len(b)
      /\ \A i \in 1..Len(a) : (a \o b)[i] = a[i]
      /\ \A i \in 1..Len(b) : (a \o b)[Len(a) + i] = b[i]
  BY ConcatIs
<1>2. ASSUME Avoids(a \o b, seps) PROVE Avoids(a, seps) /\ Avoids(b, seps)
  <2>1. \A i \in 1..Len(a) : i \in 1..Len(a \o b)
    BY <1>1
  <2>2. \A i \in 1..Len(b) : Len(a) + i \in 1..Len(a \o b)
    BY <1>1
  <2>3. QED  BY <1>1, <1>2, <2>1, <2>2, Zenon DEF Avoids
<1>3. ASSUME Avoids(a, seps), Avoids(b, seps), NEW i \in 1..Len(a \o b)
      PROVE  (a \o b)[i] \notin seps
  <2>1. CASE i \in 1..Len(a)
    BY <1>1, <1>3, <2>1 DEF Avoids
  <2>2. CASE i \notin 1..Len(a)
    <3>1. i - Len(a) \in 1..Len(b) /\ Len(a) + (i - Len(a)) = i
      BY <1>1, <2>2
    <3>2. (a \o b)[i] = b[i - Len(a)]
      BY <1>1, <3>1
    <3>3. QED  BY <1>3, <3>1, <3>2 DEF Avoids
  <2>3. QED  BY <2>1, <2>2
<1>4. QED  BY <1>2, <1>3 DEF Avoids

\* ... and what a separator stands in does not avoid it.
LEMMA HoldsSeparator ==
  ASSUME NEW T, NEW sep \in T, NEW a \in Seq(T), NEW b \in Seq(T)
  PROVE  /\ a \o <<sep>> \o b \in Seq(T) /\ a \o <<sep>> = Append(a, sep)
         /\ ~Avoids(a \o <<sep>> \o b, {sep})
<1>1. PICK x \in Seq(T) : x = Append(a, sep) /\ x = a \o <<sep>>
  BY AppendProperties, AppendIsConcat
<1>2. ~Avoids(x, {sep})
  <2>1. Avoids(Append(a, sep), {sep}) <=> Avoids(a, {sep}) /\ sep \notin {sep}
    BY AvoidsAppend
  <2>2. QED  BY <1>1, <2>1
<1>3. x \o b \in Seq(T) /\ ~Avoids(x \o b, {sep})
  BY <1>2, AvoidsConcat, ConcatIs
<1>4. QED  BY <1>1, <1>3

\* Parts that avoid the separator are known from what they make.
LEMMA JoinedOnce ==
  ASSUME NEW T, NEW sep \in T, NEW ps \in Seq(Seq(T)), NEW qs \in Seq(Seq(T)),
         ps # <<>>, qs # <<>>, AllAvoid(ps, sep), AllAvoid(qs, sep),
         Joined(ps, sep) = Joined(qs, sep)
  PROVE  ps = qs
<1> DEFINE Same(p, q) == p # <<>> /\ q # <<>> /\ AllAvoid(p, sep) /\ AllAvoid(q, sep)
                           /\ Joined(p, sep) = Joined(q, sep) => p = q
           S == {n \in Nat : \A p, q \in Seq(Seq(T)) : Len(p) = n => Same(p, q)}
<1>1. 0 \in S
  BY EmptySeq
<1>2. ASSUME NEW n \in S PROVE n + 1 \in S
  <2>1. SUFFICES ASSUME NEW p \in Seq(Seq(T)), NEW q \in Seq(Seq(T)), Len(p) = n + 1,
                        p # <<>>, q # <<>>, AllAvoid(p, sep), AllAvoid(q, sep),
                        Joined(p, sep) = Joined(q, sep)
                 PROVE  p = q
    OBVIOUS
  <2>2. PICK p1 \in Seq(Seq(T)), p2 \in Seq(T) : p = Append(p1, p2)
    BY <2>1, SequenceEmptyOrAppend
  <2>3. PICK q1 \in Seq(Seq(T)), q2 \in Seq(T) : q = Append(q1, q2)
    BY <2>1, SequenceEmptyOrAppend
  <2>4. AllAvoid(p1, sep) /\ Avoids(p2, {sep}) /\ AllAvoid(q1, sep) /\ Avoids(q2, {sep})
    BY <2>1, <2>2, <2>3, AllAvoidAppend
  <2>5. /\ Joined(p1, sep) \in Seq(T)
        /\ p1 = <<>> => Joined(p, sep) = p2
        /\ p1 # <<>> => Joined(p, sep) = Joined(p1, sep) \o <<sep>> \o p2
    <3>1. JoinsTo(T, sep, p1, p2)
      BY JoinedIs
    <3>2. QED  BY <2>2, <3>1, Zenon DEF JoinsTo
  <2>6. /\ Joined(q1, sep) \in Seq(T)
        /\ q1 = <<>> => Joined(q, sep) = q2
        /\ q1 # <<>> => Joined(q, sep) = Joined(q1, sep) \o <<sep>> \o q2
    <3>1. JoinsTo(T, sep, q1, q2)
      BY JoinedIs
    <3>2. QED  BY <2>3, <3>1, Zenon DEF JoinsTo
  <2>7. CASE p1 = <<>> /\ q1 = <<>>
    BY <2>1, <2>2, <2>3, <2>5, <2>6, <2>7
  <2>8. p1 = <<>> <=> q1 = <<>>
    <3>1. \A a \in Seq(T), b \in Seq(T) : ~Avoids(a \o <<sep>> \o b, {sep})
      BY HoldsSeparator
    <3>2. QED  BY <2>1, <2>4, <2>5, <2>6, <3>1, Zenon
  <2>9. CASE p1 # <<>> /\ q1 # <<>>
    <3>0. PICK j \in Seq(T), k \in Seq(T) : j = Joined(p1, sep) /\ k = Joined(q1, sep)
      BY <2>5, <2>6
    <3>1. j \o <<sep>> \o p2 = k \o <<sep>> \o q2
      BY <2>1, <2>5, <2>6, <2>9, <3>0, Zenon
    <3>6. j = k /\ p2 = q2
      BY <2>4, <3>1, LastCut
    <3>2. Joined(p1, sep) = Joined(q1, sep) /\ p2 = q2
      BY <3>0, <3>6
    <3>3. Len(p1) = n
      <4>1. Len(p) = Len(p1) + 1 /\ Len(p1) \in Nat
        BY <2>2, AppendProperties, LenProperties
      <4>2. n \in Nat
        BY <1>2
      <4>3. QED  BY <2>1, <4>1, <4>2
    <3>4. p1 = q1
      BY <1>2, <2>4, <2>9, <3>2, <3>3
    <3>5. QED  BY <2>2, <2>3, <3>2, <3>4
  <2>10. QED  BY <2>7, <2>8, <2>9
<1>3. S = Nat
  <2> HIDE DEF S
  <2>1. S \in SUBSET Nat
    BY DEF S
  <2>2. QED  BY <1>1, <1>2, <2>1, NatClosure
<1>4. Len(ps) \in S
  BY <1>3, LenProperties
<1>5. QED  BY <1>4

\* A token more in the parts is a token more in the text.
LEMMA GrownJoined ==
  ASSUME NEW T, NEW sep \in T, NEW t \in T, NEW parts \in Seq(Seq(T)), parts # <<>>,
         AllAvoid(parts, sep)
  PROVE  /\ AllAvoid(Grown(parts, t, sep), sep)
         /\ Joined(Grown(parts, t, sep), sep) = Append(Joined(parts, sep), t)
<1>1. CASE t = sep
  <2>1. Grown(parts, t, sep) = Append(parts, <<>>)
    <3>1. Grows(T, sep, t, parts)
      BY GrownIs
    <3>2. QED  BY <1>1, <3>1, Zenon DEF Grows
  <2>2. PICK none \in Seq(T) : none = <<>>
    BY EmptySeq
  <2>3. Avoids(none, {sep})
    BY <2>2, EmptySeq DEF Avoids
  <2>4. AllAvoid(Append(parts, none), sep)
    BY <2>3, AllAvoidAppend
  <2>5. /\ Joined(parts, sep) \in Seq(T)
        /\ Joined(Append(parts, none), sep) = Joined(parts, sep) \o <<sep>> \o none
    <3>1. JoinsTo(T, sep, parts, none)
      BY JoinedIs
    <3>2. QED  BY <3>1, Zenon DEF JoinsTo
  <2>6. /\ Joined(parts, sep) \o <<sep>> = Append(Joined(parts, sep), sep)
        /\ Append(Joined(parts, sep), sep) \in Seq(T)
    BY <2>5, HoldsSeparator, AppendProperties
  <2>7. Append(Joined(parts, sep), sep) \o none = Append(Joined(parts, sep), sep)
    BY <2>2, <2>6, ConcatEmptySeq
  <2>8. QED  BY <1>1, <2>1, <2>2, <2>4, <2>5, <2>6, <2>7
<1>2. CASE t # sep
  <2>1. PICK front \in Seq(Seq(T)), last \in Seq(T) :
          parts = Append(front, last) /\ Grown(parts, t, sep) = Append(front, Append(last, t))
    <3>1. Grows(T, sep, t, parts)
      BY GrownIs
    <3>2. QED  BY <1>2, <3>1, Zenon DEF Grows
  <2>2. PICK longer \in Seq(T) : longer = Append(last, t) /\ longer = last \o <<t>>
    BY AppendProperties, AppendIsConcat
  <2>3. AllAvoid(front, sep) /\ Avoids(last, {sep})
    BY <2>1, AllAvoidAppend
  <2>4. Avoids(longer, {sep})
    <3>1. Avoids(Append(last, t), {sep}) <=> Avoids(last, {sep}) /\ t \notin {sep}
      BY AvoidsAppend
    <3>2. QED  BY <1>2, <2>2, <2>3, <3>1
  <2>5. AllAvoid(Append(front, longer), sep)
    BY <2>3, <2>4, AllAvoidAppend
  <2>9. JoinsTo(T, sep, front, last)
    BY JoinedIs
  <2>10. JoinsTo(T, sep, front, longer)
    BY JoinedIs
  <2>6. CASE front = <<>>
    <3>1. QED  BY <2>1, <2>2, <2>5, <2>6, <2>9, <2>10, Zenon DEF JoinsTo
  <2>7. CASE front # <<>>
    <3>1. PICK x \in Seq(T) : x = Joined(front, sep) \o <<sep>>
      <4>1. Joined(front, sep) \in Seq(T) /\ <<sep>> \in Seq(T)
        BY <2>9, OneToken DEF JoinsTo
      <4>2. QED  BY <4>1, ConcatIs
    <3>2. Joined(parts, sep) = x \o last /\ Joined(Append(front, longer), sep) = x \o longer
      <4>1. QED  BY <2>1, <2>7, <2>9, <2>10, <3>1, Zenon DEF JoinsTo
    <3>3. x \o longer = Append(x \o last, t)
      <4>1. <<t>> \in Seq(T) /\ x \o last \in Seq(T)
        BY OneToken, ConcatIs
      <4>2. x \o (last \o <<t>>) = (x \o last) \o <<t>>
        BY <4>1, ConcatAssociative
      <4>3. (x \o last) \o <<t>> = Append(x \o last, t)
        BY <4>1, AppendIsConcat
      <4>4. QED  BY <2>2, <4>2, <4>3
    <3>4. QED  BY <2>1, <2>2, <2>5, <3>2, <3>3, Zenon
  <2>8. QED  BY <2>6, <2>7
<1>3. QED  BY <1>1, <1>2

\* Split gives the parts that avoid the separator and make the text ...
LEMMA SplitIs ==
  ASSUME NEW T, NEW sep \in T, NEW s \in Seq(T)
  PROVE  /\ Split(s, sep) \in Seq(Seq(T)) /\ Split(s, sep) # <<>>
         /\ AllAvoid(Split(s, sep), sep)
         /\ Joined(Split(s, sep), sep) = s
<1>1. PICK g : SplitRun(g, T, sep, s)
  BY SplitSteps
<1>2. PICK n \in Nat : n = Len(s)
  BY LenProperties
<1>3. /\ Split(s, sep) = g[n] /\ \A i \in 0..n : g[i] \in Seq(Seq(T)) /\ g[i] # <<>>
      /\ g[0] = <<<<>>>> /\ \A i \in 1..n : g[i] = Grown(g[i - 1], s[i], sep)
  BY <1>1, <1>2 DEF SplitRun
<1> DEFINE S == {i \in Nat : i <= n => /\ AllAvoid(g[i], sep)
                                       /\ Joined(g[i], sep) = SubSeq(s, 1, i)}
<1>4. 0 \in S
  <2>1. PICK none \in Seq(T) : none = <<>>
    BY EmptySeq
  <2>2. Avoids(none, {sep})
    BY <2>1, EmptySeq DEF Avoids
  <2>3. PICK nil \in Seq(Seq(T)) : nil = <<>>
    BY EmptySeq
  <2>4. AllAvoid(nil, sep)
    BY <2>3, EmptySeq DEF AllAvoid
  <2>5. Append(nil, none) = <<none>>
    BY <2>3
  <2>6. AllAvoid(<<none>>, sep)
    BY <2>2, <2>4, <2>5, AllAvoidAppend
  <2>7. Joined(<<none>>, sep) = none
    <3>3. JoinsTo(T, sep, nil, none)
      BY JoinedIs
    <3>1. Joined(Append(nil, none), sep) = none
      BY <2>3, <3>3, Zenon DEF JoinsTo
    <3>2. QED  BY <2>5, <3>1, Zenon
  <2>8. SubSeq(s, 1, 0) = <<>>
    BY SubSeqEmpty
  <2>9. QED  BY <1>3, <2>1, <2>6, <2>7, <2>8
<1>5. ASSUME NEW i \in S PROVE i + 1 \in S
  <2>1. SUFFICES ASSUME i + 1 <= n
                 PROVE  /\ AllAvoid(g[i + 1], sep)
                        /\ Joined(g[i + 1], sep) = SubSeq(s, 1, i + 1)
    BY <1>5
  <2>2. i \in Nat /\ i + 1 \in 1..n /\ (i + 1) - 1 = i /\ i <= n /\ i \in 0..n
    BY <1>5, <2>1
  <2>3. /\ g[i] \in Seq(Seq(T)) /\ g[i] # <<>> /\ AllAvoid(g[i], sep)
        /\ Joined(g[i], sep) = SubSeq(s, 1, i)
    BY <1>3, <1>5, <2>2
  <2>4. s[i + 1] \in T
    BY <1>2, <2>2, ElementOfSeq
  <2>5. g[i + 1] = Grown(g[i], s[i + 1], sep)
    BY <1>3, <2>2
  <2>6. AllAvoid(g[i + 1], sep) /\ Joined(g[i + 1], sep) = Append(SubSeq(s, 1, i), s[i + 1])
    BY <2>3, <2>4, <2>5, GrownJoined
  <2>7. SubSeq(s, 1, i + 1) = Append(SubSeq(s, 1, i), s[i + 1])
    <3>1. 1 \in 1..Len(s) /\ i + 1 \in 1..Len(s)
      BY <1>2, <2>2
    <3>2. SubSeq(s, 1, i + 1) = SubSeq(s, 1, i) \o <<s[i + 1]>>
      BY <2>2, <3>1, SubSeqRecursiveSecond
    <3>3. SubSeq(s, 1, i) \in Seq(T)
      <4>1. \A k \in 1..i : s[k] \in T
        BY <1>2, <2>2, ElementOfSeq
      <4>2. QED  BY <2>2, <4>1, SubSeqProperties
    <3>4. QED  BY <2>4, <3>2, <3>3, AppendIsConcat
  <2>8. QED  BY <2>6, <2>7
<1>6. S = Nat
  <2> HIDE DEF S
  <2>1. S \in SUBSET Nat
    BY DEF S
  <2>2. QED  BY <1>4, <1>5, <2>1, NatClosure
<1>7. AllAvoid(g[n], sep) /\ Joined(g[n], sep) = SubSeq(s, 1, n)
  BY <1>6
<1>8. SubSeq(s, 1, n) = s
  BY <1>2, SubSeqFull
<1>9. g[n] \in Seq(Seq(T)) /\ g[n] # <<>>
  BY <1>3
<1>10. QED  BY <1>3, <1>7, <1>8, <1>9

\* ... and there are no others.
LEMMA SplitOfJoined ==
  ASSUME NEW T, NEW sep \in T, NEW parts \in Seq(Seq(T)), parts # <<>>, AllAvoid(parts, sep)
  PROVE  Split(Joined(parts, sep), sep) = parts
<1>0. PICK s \in Seq(T) : s = Joined(parts, sep)
  <2>1. PICK none \in Seq(T) : none = <<>>
    BY EmptySeq
  <2>2. JoinsTo(T, sep, parts, none)
    BY JoinedIs
  <2>3. QED  BY <2>2 DEF JoinsTo
<1>2. /\ Split(s, sep) \in Seq(Seq(T)) /\ Split(s, sep) # <<>>
      /\ AllAvoid(Split(s, sep), sep)
      /\ Joined(Split(s, sep), sep) = s
  BY SplitIs
<1>3. Split(s, sep) = parts
  BY <1>0, <1>2, JoinedOnce
<1>4. QED  BY <1>0, <1>3

-------------------------------------------------------------------------------
(* Sorting                                                                 *)

\* What before says of S is a strict order.
Orders(before, S) ==
  /\ \A x \in S : <<x, x>> \notin before
  /\ \A x, y, z \in S : <<x, y>> \in before /\ <<y, z>> \in before => <<x, z>> \in before

\* A bijection is injective and takes every value.
LEMMA BijectionIs ==
  ASSUME NEW S, NEW U, NEW f
  PROVE  f \in Bijection(S, U) <=>
           /\ f \in [S -> U] /\ \A x, y \in S : f[x] = f[y] => x = y
           /\ \A u \in U : \E x \in S : f[x] = u
BY DEF Bijection, Injection, IsInjective, Surjection

\* The last of the others, or the one left out, has nothing after it.
LEMMA LastOne ==
  ASSUME NEW U, NEW before, Orders(before, U), NEW x \in U, NEW n \in Nat, NEW s,
         Sorts(s, n, U \ {x}, before)
  PROVE  \E m \in U : \A y \in U : <<m, y>> \notin before
<1>1. /\ s \in [1..n -> U \ {x}] /\ \A u \in U \ {x} : \E i \in 1..n : s[i] = u
      /\ \A i, j \in 1..n : i < j => <<s[j], s[i]>> \notin before
  BY Zenon DEF Sorts, Bijection, Injection, Surjection
<1>2. CASE n = 0
  <2>1. 1..n = {}
    BY <1>2
  <2>2. \A y \in U : y = x
    <3>1. \A u \in U \ {x} : \E i \in {} : s[i] = u
      BY <1>1, <2>1
    <3>2. QED  BY <3>1
  <2>3. <<x, x>> \notin before
    BY DEF Orders
  <2>4. QED  BY <2>2, <2>3
<1>3. CASE n # 0
  <2>1. n \in 1..n /\ s[n] \in U
    BY <1>1, <1>3
  <2>2. \A y \in U \ {x} : <<s[n], y>> \notin before
    <3>1. SUFFICES ASSUME NEW i \in 1..n PROVE <<s[n], s[i]>> \notin before
      BY <1>1
    <3>2. i < n \/ i = n
      OBVIOUS
    <3>3. <<s[n], s[n]>> \notin before
      BY <2>1 DEF Orders
    <3>4. QED  BY <1>1, <2>1, <3>2, <3>3
  <2>3. CASE <<s[n], x>> \notin before
    BY <2>1, <2>2, <2>3
  <2>4. CASE <<s[n], x>> \in before
    <3>1. ASSUME NEW y \in U, <<x, y>> \in before PROVE FALSE
      <4>1. <<s[n], y>> \in before
        BY <2>1, <2>4, <3>1, Zenon DEF Orders
      <4>2. y = x
        BY <2>2, <4>1
      <4>3. QED  BY <3>1, <4>2 DEF Orders
    <3>2. QED  BY <3>1
  <2>5. QED  BY <2>3, <2>4
<1>4. QED  BY <1>2, <1>3

\* With it at the end, the whole is sorted.
LEMMA SortedWithLast ==
  ASSUME NEW U, NEW before, NEW m \in U, \A y \in U : <<m, y>> \notin before,
         NEW n \in Nat, NEW s, Sorts(s, n, U \ {m}, before)
  PROVE  \E t : Sorts(t, n + 1, U, before)
<1> PICK t : t = [i \in 1..(n + 1) |-> IF i = n + 1 THEN m ELSE s[i]]
  OBVIOUS
<1>1. /\ s \in [1..n -> U \ {m}] /\ \A x, y \in 1..n : s[x] = s[y] => x = y
      /\ \A u \in U \ {m} : \E i \in 1..n : s[i] = u
      /\ \A i, j \in 1..n : i < j => <<s[j], s[i]>> \notin before
  BY BijectionIs DEF Sorts
<1>2. \A i : i \in 1..(n + 1) <=> i \in 1..n \/ i = n + 1
  OBVIOUS
<1>3. n + 1 \notin 1..n
  OBVIOUS
<1>4. t[n + 1] = m /\ \A i \in 1..n : t[i] = s[i] /\ s[i] \in U /\ s[i] # m
  BY <1>1, <1>2, <1>3
<1>5. t \in [1..(n + 1) -> U]
  BY <1>1, <1>2
<1>6. \A x, y \in 1..(n + 1) : t[x] = t[y] => x = y
  BY <1>1, <1>2, <1>4, Zenon
<1>7. \A u \in U : \E x \in 1..(n + 1) : t[x] = u
  BY <1>1, <1>2, <1>4, Zenon
<1>8. ASSUME NEW i \in 1..(n + 1), NEW j \in 1..(n + 1), i < j
      PROVE  <<t[j], t[i]>> \notin before
  <2>1. i \in 1..n /\ (j \in 1..n \/ j = n + 1)
    BY <1>8
  <2>2. CASE j = n + 1
    BY <1>4, <2>1, <2>2
  <2>3. CASE j \in 1..n
    BY <1>1, <1>4, <1>8, <2>1, <2>3
  <2>4. QED  BY <2>1, <2>2, <2>3
<1>9. t \in Bijection(1..(n + 1), U)
  BY <1>5, <1>6, <1>7, BijectionIs
<1>10. QED  BY <1>8, <1>9 DEF Sorts

\* So every finite set can be sorted, and Arranged sorts it.
LEMMA ArrangedSorts ==
  ASSUME NEW S, IsFiniteSet(S), NEW before, Orders(before, S)
  PROVE  /\ Cardinality(S) \in Nat
         /\ Sorts(Arranged(S, before), Cardinality(S), S, before)
<1> DEFINE Sortable(U) == \E s : Sorts(s, Cardinality(U), U, before)
           N == {n \in Nat : \A U \in SUBSET S :
                   IsFiniteSet(U) /\ Cardinality(U) = n => Sortable(U)}
<1>1. 0 \in N
  <2>1. SUFFICES ASSUME NEW U \in SUBSET S, IsFiniteSet(U), Cardinality(U) = 0
                 PROVE  Sortable(U)
    OBVIOUS
  <2>2. U = {} /\ 1..0 = {}
    BY <2>1, FS_EmptySet
  <2>3. PICK s : s = [i \in 1..0 |-> i]
    OBVIOUS
  <2>4. s \in Bijection(1..0, U)
    <3>1. s \in [1..0 -> U]
      BY <2>2, <2>3
    <3>2. /\ \A x, y \in 1..0 : s[x] = s[y] => x = y
          /\ \A u \in U : \E x \in 1..0 : s[x] = u
      BY <2>2
    <3>3. QED  BY <3>1, <3>2, BijectionIs
  <2>5. Sorts(s, 0, U, before)
    BY <2>2, <2>4 DEF Sorts
  <2>6. QED  BY <2>1, <2>5
<1>2. ASSUME NEW n \in N PROVE n + 1 \in N
  <2>1. SUFFICES ASSUME NEW U \in SUBSET S, IsFiniteSet(U), Cardinality(U) = n + 1
                 PROVE  Sortable(U)
    OBVIOUS
  <2>2. n \in Nat /\ n + 1 # 0
    BY <1>2
  <2>3. PICK x \in U : TRUE
    BY <2>1, <2>2, FS_EmptySet
  <2>4. ASSUME NEW y \in U
        PROVE  \E s : Sorts(s, n, U \ {y}, before)
    <3>1. IsFiniteSet(U \ {y}) /\ Cardinality(U \ {y}) = n
      <4>1. IsFiniteSet(U \ {y}) /\ Cardinality(U \ {y}) = Cardinality(U) - 1
        BY <2>1, FS_RemoveElement, Zenon
      <4>2. QED  BY <2>1, <2>2, <4>1
    <3>2. U \ {y} \in SUBSET S
      OBVIOUS
    <3>3. QED  BY <1>2, <3>1, <3>2
  <2>5. Orders(before, U)
    BY Zenon DEF Orders
  <2>6. PICK m \in U : \A y \in U : <<m, y>> \notin before
    <3>1. PICK s : Sorts(s, n, U \ {x}, before)
      BY <2>3, <2>4
    <3>2. QED  BY <2>2, <2>3, <2>5, <3>1, LastOne
  <2>7. PICK s : Sorts(s, n, U \ {m}, before)
    BY <2>4
  <2>8. QED  BY <2>1, <2>2, <2>6, <2>7, SortedWithLast
<1>3. N = Nat
  <2> HIDE DEF N
  <2>1. N \in SUBSET Nat
    BY DEF N
  <2>2. QED  BY <1>1, <1>2, <2>1, NatClosure
<1>4. Cardinality(S) \in Nat
  BY FS_CardinalityType
<1>5. PICK s : Sorts(s, Cardinality(S), S, before)
  BY <1>3, <1>4
<1>6. s \in Bijection(1..Cardinality(S), S)
  BY <1>5 DEF Sorts
<1>7. QED  BY <1>4, <1>5, <1>6 DEF Arranged

\* No two elements of S stand outside the order.
Ranks(before, S) == \A x, y \in S : x = y \/ <<x, y>> \in before \/ <<y, x>> \in before

\* Two sorted arrangements of the same elements are the same, where no two of them
\* stand outside the order.
LEMMA SortedOnce ==
  ASSUME NEW E, NEW before, Ranks(before, E), NEW n \in Nat, NEW m \in Nat,
         NEW s, Sorts(s, n, E, before), NEW t, Sorts(t, m, E, before)
  PROVE  n = m /\ s = t
<1>1. /\ s \in [1..n -> E] /\ \A x, y \in 1..n : s[x] = s[y] => x = y
      /\ \A u \in E : \E i \in 1..n : s[i] = u
      /\ \A i, j \in 1..n : i < j => <<s[j], s[i]>> \notin before
  BY BijectionIs DEF Sorts
<1>2. /\ t \in [1..m -> E] /\ \A x, y \in 1..m : t[x] = t[y] => x = y
      /\ \A u \in E : \E i \in 1..m : t[i] = u
      /\ \A i, j \in 1..m : i < j => <<t[j], t[i]>> \notin before
  BY BijectionIs DEF Sorts
<1>3. ASSUME NEW i \in 1..n, i \in 1..m, \A k \in 1..(i - 1) : s[k] = t[k]
      PROVE  s[i] = t[i]
  <2>1. PICK k \in 1..m : t[k] = s[i]
    BY <1>1, <1>2
  <2>2. PICK l \in 1..n : s[l] = t[i]
    BY <1>1, <1>2, <1>3
  <2>3. \A j \in 1..(i - 1) : j \in 1..n /\ j \in 1..m /\ j # i
    BY <1>3
  <2>4. k \notin 1..(i - 1)
    BY <1>1, <1>3, <2>1, <2>3
  <2>5. l \notin 1..(i - 1)
    BY <1>2, <1>3, <2>2, <2>3
  <2>6. (k = i \/ i < k) /\ (l = i \/ i < l)
    BY <1>3, <2>4, <2>5
  <2>7. CASE k = i \/ l = i
    BY <2>1, <2>2, <2>7
  <2>8. CASE i < k /\ i < l
    <3>1. <<s[i], t[i]>> \notin before
      BY <1>2, <1>3, <2>1, <2>8
    <3>2. <<t[i], s[i]>> \notin before
      BY <1>1, <2>2, <2>8
    <3>3. s[i] \in E /\ t[i] \in E
      BY <1>1, <1>2, <1>3
    <3>4. QED  BY <3>1, <3>2, <3>3 DEF Ranks
  <2>9. QED  BY <2>6, <2>7, <2>8
<1> DEFINE Same == {i \in Nat : \A k \in 1..i : k \in 1..n /\ k \in 1..m => s[k] = t[k]}
<1>4. Same = Nat
  <2>1. 0 \in Same
    OBVIOUS
  <2>2. ASSUME NEW i \in Same PROVE i + 1 \in Same
    <3>1. i \in Nat /\ (i + 1) - 1 = i /\ \A k \in 1..(i + 1) : k \in 1..i \/ k = i + 1
      BY <2>2
    <3>2. ASSUME i + 1 \in 1..n, i + 1 \in 1..m PROVE s[i + 1] = t[i + 1]
      <4>1. \A k \in 1..i : k \in 1..n /\ k \in 1..m
        BY <3>1, <3>2
      <4>2. \A k \in 1..i : s[k] = t[k]
        BY <2>2, <4>1
      <4>3. QED  BY <1>3, <3>1, <3>2, <4>2
    <3>3. QED  BY <2>2, <3>1, <3>2
  <2> HIDE DEF Same
  <2>3. Same \in SUBSET Nat
    BY DEF Same
  <2>4. QED  BY <2>1, <2>2, <2>3, NatClosure
<1>5. \A k \in 1..n : k \in 1..m => s[k] = t[k]
  <2>1. SUFFICES ASSUME NEW k \in 1..n, k \in 1..m PROVE s[k] = t[k]
    OBVIOUS
  <2>2. k \in Same /\ k \in 1..k
    BY <1>4
  <2>3. QED  BY <2>1, <2>2
<1>6. n >= m
  <2>1. SUFFICES ASSUME n < m PROVE FALSE
    OBVIOUS
  <2>2. n + 1 \in 1..m /\ n + 1 \notin 1..n /\ \A k \in 1..n : k \in 1..m
    BY <2>1
  <2>3. PICK k \in 1..n : s[k] = t[n + 1]
    BY <1>1, <1>2, <2>2
  <2>4. QED  BY <1>2, <1>5, <2>2, <2>3
<1>7. m >= n
  <2>1. SUFFICES ASSUME m < n PROVE FALSE
    OBVIOUS
  <2>2. m + 1 \in 1..n /\ m + 1 \notin 1..m /\ \A k \in 1..m : k \in 1..n
    BY <2>1
  <2>3. PICK k \in 1..m : t[k] = s[m + 1]
    BY <1>1, <1>2, <2>2
  <2>4. QED  BY <1>1, <1>5, <2>2, <2>3
<1>8. n = m
  BY <1>6, <1>7
<1>9. QED  BY <1>1, <1>2, <1>5, <1>8

-------------------------------------------------------------------------------
(* Sequences, by induction                                                 *)

\* What holds of no elements and is kept by one more holds of every sequence.
LEMMA SequenceClosure ==
  ASSUME NEW T, NEW P \in SUBSET Seq(T), <<>> \in P, \A s \in P, t \in T : Append(s, t) \in P
  PROVE  P = Seq(T)
<1> DEFINE N == {n \in Nat : \A s \in Seq(T) : Len(s) = n => s \in P}
<1>1. 0 \in N
  BY EmptySeq
<1>2. ASSUME NEW n \in N PROVE n + 1 \in N
  <2>1. SUFFICES ASSUME NEW s \in Seq(T), Len(s) = n + 1 PROVE s \in P
    BY <1>2
  <2>2. n \in Nat /\ n + 1 # 0
    BY <1>2
  <2>3. PICK f \in Seq(T), t \in T : s = Append(f, t)
    <3>1. s # <<>>
      BY <2>1, <2>2, EmptySeq
    <3>2. QED  BY <3>1, SequenceEmptyOrAppend
  <2>4. Len(f) = n
    <3>1. Len(s) = Len(f) + 1 /\ Len(f) \in Nat
      BY <2>3, AppendProperties, LenProperties
    <3>2. QED  BY <2>1, <2>2, <3>1
  <2>5. f \in P
    BY <1>2, <2>4
  <2>6. QED  BY <2>3, <2>5
<1>3. N = Nat
  <2> HIDE DEF N
  <2>1. N \in SUBSET Nat
    BY DEF N
  <2>2. QED  BY <1>1, <1>2, <2>1, NatClosure
<1>4. ASSUME NEW s \in Seq(T) PROVE s \in P
  <2>1. Len(s) \in N
    BY <1>3, LenProperties
  <2>2. QED  BY <2>1
<1>5. QED  BY <1>4

\* Joined parts are a text ...
LEMMA JoinedType ==
  ASSUME NEW T, NEW sep \in T, NEW parts \in Seq(Seq(T))
  PROVE  Joined(parts, sep) \in Seq(T)
<1>1. PICK none \in Seq(T) : none = <<>>
  BY EmptySeq
<1>2. JoinsTo(T, sep, parts, none)
  BY JoinedIs
<1>3. QED  BY <1>2, Zenon DEF JoinsTo

\* ... that avoids what its parts avoid.
LEMMA AvoidsJoined ==
  ASSUME NEW T, NEW sep \in T, NEW seps, sep \notin seps, NEW parts \in Seq(Seq(T))
  PROVE  Avoids(Joined(parts, sep), seps) <=> \A i \in 1..Len(parts) : Avoids(parts[i], seps)
<1> DEFINE Each(ps) == \A i \in 1..Len(ps) : Avoids(ps[i], seps)
           P == {ps \in Seq(Seq(T)) : Avoids(Joined(ps, sep), seps) <=> Each(ps)}
<1>1. <<>> \in P
  <2>1. PICK nil \in Seq(Seq(T)) : nil = <<>>
    BY EmptySeq
  <2>2. PICK none \in Seq(T) : none = <<>>
    BY EmptySeq
  <2>3. JoinsTo(T, sep, nil, none)
    BY JoinedIs
  <2>4. Joined(nil, sep) = none
    BY <2>1, <2>2, <2>3, Zenon DEF JoinsTo
  <2>5. Avoids(none, seps)
    BY <2>2, EmptySeq DEF Avoids
  <2>6. Each(nil)
    BY <2>1, EmptySeq
  <2>7. nil \in P
    BY <2>4, <2>5, <2>6
  <2>8. QED  BY <2>1, <2>7
<1>2. ASSUME NEW ps \in P, NEW part \in Seq(T) PROVE Append(ps, part) \in P
  <2>1. ps \in Seq(Seq(T)) /\ (Avoids(Joined(ps, sep), seps) <=> Each(ps))
    BY <1>2
  <2>2. PICK more \in Seq(Seq(T)) : more = Append(ps, part)
    BY <2>1, AppendProperties
  <2>3. Each(more) <=> Each(ps) /\ Avoids(part, seps)
    <3>1. /\ Len(ps) \in Nat /\ Len(more) = Len(ps) + 1
          /\ \A i \in 1..Len(ps) : more[i] = ps[i]
          /\ more[Len(ps) + 1] = part
      BY <2>1, <2>2, AppendProperties, LenProperties
    <3>2. \A i : i \in 1..(Len(ps) + 1) <=> i \in 1..Len(ps) \/ i = Len(ps) + 1
      BY <3>1
    <3>3. QED  BY <3>1, <3>2, Zenon
  <2>4. JoinsTo(T, sep, ps, part)
    BY <2>1, JoinedIs
  <2>5. Avoids(Joined(more, sep), seps) <=> Each(more)
    <3>1. CASE ps = <<>>
      <4>1. Joined(more, sep) = part
        BY <2>2, <2>4, <3>1, Zenon DEF JoinsTo
      <4>2. Each(ps)
        <5>1. 1..Len(ps) = {}
          BY <3>1, EmptySeq
        <5>2. QED  BY <5>1
      <4>3. QED  BY <2>3, <4>1, <4>2, Zenon
    <3>2. CASE ps # <<>>
      <4>1. Joined(more, sep) = Joined(ps, sep) \o <<sep>> \o part /\ Joined(ps, sep) \in Seq(T)
        BY <2>2, <2>4, <3>2, Zenon DEF JoinsTo
      <4>2. PICK x \in Seq(T) : x = Append(Joined(ps, sep), sep)
        BY <4>1, AppendProperties
      <4>3. x = Joined(ps, sep) \o <<sep>>
        BY <4>1, <4>2, AppendIsConcat
      <4>4. Avoids(x, seps) <=> Avoids(Joined(ps, sep), seps)
        <5>1. Avoids(Append(Joined(ps, sep), sep), seps) <=>
                Avoids(Joined(ps, sep), seps) /\ sep \notin seps
          BY <4>1, AvoidsAppend
        <5>2. QED  BY <4>2, <5>1
      <4>5. Avoids(x \o part, seps) <=> Avoids(x, seps) /\ Avoids(part, seps)
        BY AvoidsConcat
      <4>6. Joined(more, sep) = x \o part
        BY <4>1, <4>3, Zenon
      <4>7. QED  BY <2>1, <2>3, <4>4, <4>5, <4>6, Zenon
    <3>3. QED  BY <3>1, <3>2
  <2>6. QED  BY <2>2, <2>5
<1>3. P = Seq(Seq(T))
  <2> HIDE DEF P
  <2>1. P \in SUBSET Seq(Seq(T))
    BY DEF P
  <2>2. QED  BY <1>1, <1>2, <2>1, SequenceClosure
<1>4. parts \in P
  BY <1>3
<1>5. QED  BY <1>4

-------------------------------------------------------------------------------
(* Pieces of a text                                                        *)

\* Equal sequences are those with the same elements.
LEMMA SameTokens ==
  ASSUME NEW T, NEW s \in Seq(T), NEW t \in Seq(T), Len(s) = Len(t),
         \A i \in 1..Len(s) : s[i] = t[i]
  PROVE  s = t
BY SeqEqual

\* A token in front of a text, and a text without its first token.
LEMMA InFront ==
  ASSUME NEW T, NEW t \in T, NEW s \in Seq(T)
  PROVE  /\ <<t>> \o s \in Seq(T) /\ <<t>> \o s # <<>> /\ Head(<<t>> \o s) = t
         /\ (<<t>> \o s)[1] = t /\ Tail(<<t>> \o s) = s /\ Len(<<t>> \o s) = Len(s) + 1
<1>1. PICK one \in Seq(T) : one = <<t>> /\ Len(one) = 1 /\ one[1] = t
  BY OneToken
<1>2. PICK x \in Seq(T) : x = one \o s
  BY ConcatIs
<1>3. /\ Len(s) \in Nat /\ Len(x) = 1 + Len(s)
      /\ \A i \in 1..1 : x[i] = one[i]
      /\ \A i \in 1..Len(s) : x[1 + i] = s[i]
  BY <1>1, <1>2, ConcatIs
<1>4. x # <<>> /\ x[1] = t
  BY <1>1, <1>3, EmptySeq
<1>5. /\ Head(x) = x[1] /\ Tail(x) \in Seq(T) /\ Len(Tail(x)) = Len(x) - 1
      /\ \A i \in 1..Len(Tail(x)) : Tail(x)[i] = x[i + 1]
  BY <1>4, HeadTailProperties
<1>6. Len(Tail(x)) = Len(s) /\ \A i \in 1..Len(Tail(x)) : Tail(x)[i] = s[i]
  <2>1. Len(Tail(x)) = Len(s)
    BY <1>3, <1>5
  <2>2. ASSUME NEW i \in 1..Len(Tail(x)) PROVE Tail(x)[i] = s[i]
    <3>1. i \in 1..Len(s) /\ i + 1 = 1 + i
      BY <2>1, <2>2
    <3>2. QED  BY <1>3, <1>5, <3>1
  <2>3. QED  BY <2>1, <2>2
<1>7. Tail(x) = s
  BY <1>5, <1>6, SameTokens
<1>8. Len(x) = Len(s) + 1
  BY <1>3
<1>9. QED  BY <1>1, <1>2, <1>4, <1>5, <1>7, <1>8

\* A text that is not empty is its first token and the rest.
LEMMA FirstAndRest ==
  ASSUME NEW T, NEW s \in Seq(T), s # <<>>
  PROVE  /\ Head(s) = s[1] /\ Head(s) \in T /\ Tail(s) \in Seq(T) /\ s = <<Head(s)>> \o Tail(s)
         /\ Len(Tail(s)) = Len(s) - 1 /\ Len(s) \in Nat /\ Len(s) >= 1
<1>1. /\ Head(s) = s[1] /\ Head(s) \in T /\ Tail(s) \in Seq(T) /\ Len(Tail(s)) = Len(s) - 1
      /\ \A i \in 1..Len(Tail(s)) : Tail(s)[i] = s[i + 1]
  BY HeadTailProperties
<1>2. Len(s) \in Nat /\ Len(s) >= 1
  BY LenProperties, EmptySeq
<1>3. PICK one \in Seq(T) : one = <<Head(s)>> /\ Len(one) = 1 /\ one[1] = Head(s)
  BY <1>1, OneToken
<1>4. PICK x \in Seq(T) : x = one \o Tail(s)
  BY <1>1, ConcatIs
<1>5. /\ Len(x) = 1 + Len(Tail(s))
      /\ \A i \in 1..1 : x[i] = one[i]
      /\ \A i \in 1..Len(Tail(s)) : x[1 + i] = Tail(s)[i]
  <2>1. /\ Len(one \o Tail(s)) = Len(one) + Len(Tail(s))
        /\ \A i \in 1..Len(one) : (one \o Tail(s))[i] = one[i]
        /\ \A i \in 1..Len(Tail(s)) : (one \o Tail(s))[Len(one) + i] = Tail(s)[i]
    BY <1>1, ConcatIs
  <2>2. QED  BY <1>3, <1>4, <2>1
<1>6. ASSUME NEW i \in 1..Len(s) PROVE s[i] = x[i]
  <2>1. CASE i = 1
    BY <1>1, <1>3, <1>5, <2>1
  <2>2. CASE i # 1
    <3>1. PICK j \in 1..Len(Tail(s)) : i = j + 1 /\ i = 1 + j
      <4>1. i - 1 \in 1..Len(Tail(s)) /\ i = (i - 1) + 1 /\ i = 1 + (i - 1)
        BY <1>1, <1>2, <1>6, <2>2
      <4>2. QED  BY <4>1
    <3>2. QED  BY <1>1, <1>5, <3>1
  <2>3. QED  BY <2>1, <2>2
<1>7. Len(s) = Len(x)
  BY <1>1, <1>2, <1>5
<1>8. s = x
  BY <1>6, <1>7, SameTokens
<1>9. QED  BY <1>1, <1>2, <1>3, <1>4, <1>8

\* A text of two.
LEMMA TwoTokens ==
  ASSUME NEW T, NEW a \in T, NEW b \in T
  PROVE  /\ <<a, b>> \in Seq(T) /\ Len(<<a, b>>) = 2 /\ <<a, b>>[1] = a /\ <<a, b>>[2] = b
         /\ <<a, b>> = <<a>> \o <<b>>
<1>1. <<a, b>> \in Seq(T)
  OBVIOUS
<1>2. Len(<<a, b>>) = 2
  OBVIOUS
<1>3. <<a, b>>[1] = a /\ <<a, b>>[2] = b
  OBVIOUS
<1>4. PICK s \in Seq(T) : s = <<a>> /\ Len(s) = 1 /\ s[1] = a
  BY OneToken
<1>5. PICK t \in Seq(T) : t = <<b>> /\ Len(t) = 1 /\ t[1] = b
  BY OneToken
<1>6. PICK u \in Seq(T) : u = s \o t
  BY ConcatIs
<1>7. Len(u) = 2 /\ u[1] = a /\ u[2] = b
  <2>1. /\ Len(u) = Len(s) + Len(t) /\ \A i \in 1..Len(s) : u[i] = s[i]
        /\ \A i \in 1..Len(t) : u[Len(s) + i] = t[i]
    BY <1>6, ConcatIs
  <2>2. 1 \in 1..1 /\ 1 + 1 = 2
    OBVIOUS
  <2>3. QED  BY <1>4, <1>5, <2>1, <2>2
<1>8. PICK e \in Seq(T) : e = <<a, b>>
  BY <1>1
<1>9. Len(e) = 2 /\ e[1] = a /\ e[2] = b
  BY <1>2, <1>3, <1>8, Zenon
<1>10. \A i \in 1..Len(e) : e[i] = u[i]
  BY <1>7, <1>9
<1>11. e = u
  BY <1>7, <1>9, <1>10, SameTokens
<1>12. QED  BY <1>1, <1>2, <1>3, <1>4, <1>5, <1>6, <1>8, <1>11, Zenon

\* Three texts make one, whichever two are put together first.
Regroups(a, b, c) == (a \o b) \o c = a \o (b \o c)

\* Putting texts together is associative.
LEMMA RegroupsIs ==
  ASSUME NEW T, NEW a \in Seq(T), NEW b \in Seq(T), NEW c \in Seq(T)
  PROVE  Regroups(a, b, c)
BY ConcatAssociative DEF Regroups

\* A text and two parts that make it.
MadeOf(s, a, b) ==
  /\ s = a \o b /\ Len(s) = Len(a) + Len(b) /\ Len(a) \in Nat /\ Len(b) \in Nat
  /\ SubSeq(s, 1, Len(a)) = a /\ SubSeq(s, Len(a) + 1, Len(s)) = b
  /\ \A i \in 1..Len(a) : s[i] = a[i]
  /\ \A i \in 1..Len(b) : s[Len(a) + i] = b[i]

\* The parts are found again ...
LEMMA MadeOfParts ==
  ASSUME NEW T, NEW a \in Seq(T), NEW b \in Seq(T)
  PROVE  a \o b \in Seq(T) /\ MadeOf(a \o b, a, b)
<1>5. PICK m \in Nat, n \in Nat : m = Len(a) /\ n = Len(b)
  BY ConcatIs
<1>6. PICK s \in Seq(T) : s = a \o b
  BY ConcatIs
<1>1. /\ s = a \o b /\ m = Len(a) /\ n = Len(b) /\ Len(s) = m + n
      /\ \A i \in 1..m : s[i] = a[i]
      /\ \A i \in 1..n : s[m + i] = b[i]
  BY <1>5, <1>6, ConcatIs
<1>2. SubSeq(s, 1, m) = a
  <2>1. PICK x \in Seq(T) : x = SubSeq(s, 1, m)
    BY <1>1
  <2>2. Len(x) = m /\ \A i \in 1..m : x[i] = s[i]
    BY <1>1, <2>1
  <2>3. \A i \in 1..Len(x) : x[i] = a[i]
    BY <1>1, <2>2
  <2>4. x = a
    BY <1>1, <2>2, <2>3, SameTokens
  <2>5. QED  BY <2>1, <2>4
<1>3. SubSeq(s, m + 1, m + n) = b
  <2>1. PICK x \in Seq(T) : x = SubSeq(s, m + 1, m + n)
    BY <1>1
  <2>2. Len(x) = n /\ \A i \in 1..n : x[i] = s[m + i]
    BY <1>1, <2>1
  <2>3. \A i \in 1..Len(x) : x[i] = b[i]
    BY <1>1, <2>2
  <2>4. x = b
    BY <1>1, <2>2, <2>3, SameTokens
  <2>5. QED  BY <2>1, <2>4
<1>4. QED  BY <1>1, <1>2, <1>3, Zenon DEF MadeOf

\* ... and every place of a text is one where it can be taken apart.
LEMMA TakenApart ==
  ASSUME NEW T, NEW s \in Seq(T), NEW n \in Nat, n <= Len(s)
  PROVE  /\ SubSeq(s, 1, n) \in Seq(T) /\ SubSeq(s, n + 1, Len(s)) \in Seq(T)
         /\ MadeOf(s, SubSeq(s, 1, n), SubSeq(s, n + 1, Len(s)))
         /\ Len(SubSeq(s, 1, n)) = n
<1>1. PICK l \in Nat : l = Len(s) /\ n <= l
  BY LenProperties
<1>2. PICK a \in Seq(T) : a = SubSeq(s, 1, n) /\ Len(a) = n /\ \A i \in 1..n : a[i] = s[i]
  <2>0. \A i \in 1..n : s[i] \in T
    BY <1>1, ElementOfSeq
  <2>3. 1 \in Int /\ n \in Int
    OBVIOUS
  <2>4. SubSeq(s, 1, n) \in Seq(T)
    BY <2>0, <2>3, SubSeqProperties, Zenon
  <2>1. PICK a \in Seq(T) : a = SubSeq(s, 1, n)
    BY <2>4
  <2>2. Len(a) = n /\ \A i \in 1..n : a[i] = s[i]
    BY <1>1, <2>1
  <2>5. QED  BY <2>1, <2>2
<1>3. PICK b \in Seq(T) : /\ b = SubSeq(s, n + 1, l) /\ Len(b) = l - n
                          /\ \A i \in 1..(l - n) : b[i] = s[n + i]
  <2>0. \A i \in (n + 1)..l : s[i] \in T
    BY <1>1, ElementOfSeq
  <2>3. n + 1 \in Int /\ l \in Int
    BY <1>1
  <2>4. SubSeq(s, n + 1, l) \in Seq(T)
    BY <2>0, <2>3, SubSeqProperties, Zenon
  <2>1. PICK b \in Seq(T) : b = SubSeq(s, n + 1, l)
    BY <2>4
  <2>2. Len(b) = l - n /\ \A i \in 1..(l - n) : b[i] = s[n + i]
    BY <1>1, <2>1
  <2>5. QED  BY <2>1, <2>2
<1>4. PICK t \in Seq(T) : t = a \o b
  BY ConcatIs
<1>5. /\ Len(t) = n + (l - n) /\ \A i \in 1..n : t[i] = a[i]
      /\ \A i \in 1..(l - n) : t[n + i] = b[i]
  <2>1. /\ Len(t) = Len(a) + Len(b) /\ \A i \in 1..Len(a) : t[i] = a[i]
        /\ \A i \in 1..Len(b) : t[Len(a) + i] = b[i]
    BY <1>4, ConcatIs
  <2>2. QED  BY <1>2, <1>3, <2>1
<1>6. \A i \in 1..Len(t) : t[i] = s[i]
  <2>0. Len(t) = l
    BY <1>1, <1>5
  <2>1. SUFFICES ASSUME NEW i \in 1..l PROVE t[i] = s[i]
    BY <2>0
  <2>2. CASE i <= n
    BY <1>2, <1>5, <2>2
  <2>3. CASE i > n
    <3>1. i - n \in 1..(l - n) /\ n + (i - n) = i
      BY <1>1, <2>3
    <3>2. QED  BY <1>3, <1>5, <3>1
  <2>4. QED  BY <2>2, <2>3
<1>7. t = s
  BY <1>1, <1>5, <1>6, SameTokens
<1>8. MadeOf(s, a, b)
  BY <1>4, <1>7, MadeOfParts
<1>9. QED  BY <1>1, <1>2, <1>3, <1>8

\* The middle of three texts.
LEMMA MiddleIs ==
  ASSUME NEW T, NEW a \in Seq(T), NEW b \in Seq(T), NEW c \in Seq(T)
  PROVE  SubSeq(a \o (b \o c), Len(a) + 1, Len(a) + Len(b)) = b
<1>1. PICK l \in Nat, m \in Nat, n \in Nat : l = Len(a) /\ m = Len(b) /\ n = Len(c)
  BY LenProperties
<1>2. PICK r \in Seq(T) : r = b \o c /\ MadeOf(r, b, c)
  BY MadeOfParts
<1>3. PICK s \in Seq(T) : s = a \o r /\ MadeOf(s, a, r)
  BY MadeOfParts
<1>4. /\ Len(s) = l + (m + n) /\ Len(r) = m + n
      /\ \A i \in 1..m : r[i] = b[i]
      /\ \A i \in 1..(m + n) : s[l + i] = r[i]
  <2>1. Len(r) = m + n /\ \A i \in 1..m : r[i] = b[i]
    BY <1>1, <1>2, Zenon DEF MadeOf
  <2>2. Len(s) = l + Len(r) /\ \A i \in 1..Len(r) : s[l + i] = r[i]
    BY <1>1, <1>3, Zenon DEF MadeOf
  <2>3. QED  BY <2>1, <2>2
<1>5. \A i \in 1..m : s[l + i] = b[i]
  BY <1>4
<1>6. PICK x \in Seq(T) :
        x = SubSeq(s, l + 1, l + m) /\ Len(x) = m /\ \A i \in 1..m : x[i] = s[l + i]
  <2>1. \A i \in (l + 1)..(l + m) : s[i] \in T
    BY <1>4, ElementOfSeq
  <2>2. l + 1 \in Int /\ l + m \in Int
    OBVIOUS
  <2>3. SubSeq(s, l + 1, l + m) \in Seq(T)
    BY <2>1, <2>2, SubSeqProperties, Zenon
  <2>4. PICK x \in Seq(T) : x = SubSeq(s, l + 1, l + m)
    BY <2>3
  <2>5. Len(x) = m /\ \A i \in 1..m : x[i] = s[l + i]
    BY <1>4, <2>4
  <2>6. QED  BY <2>4, <2>5
<1>7. \A i \in 1..Len(x) : x[i] = b[i]
  BY <1>5, <1>6
<1>8. x = b
  BY <1>1, <1>6, <1>7, SameTokens
<1>9. QED  BY <1>1, <1>2, <1>3, <1>6, <1>8

\* A piece of a text.
LEMMA PieceIs ==
  ASSUME NEW T, NEW s \in Seq(T), NEW n \in Nat, NEW m \in Nat, n <= m, m <= Len(s)
  PROVE  /\ SubSeq(s, n + 1, m) \in Seq(T) /\ Len(SubSeq(s, n + 1, m)) = m - n
         /\ \A i \in 1..(m - n) : SubSeq(s, n + 1, m)[i] = s[n + i]
<1>1. \A i \in (n + 1)..m : s[i] \in T
  BY ElementOfSeq
<1>2. n + 1 \in Int /\ m \in Int
  OBVIOUS
<1>3. SubSeq(s, n + 1, m) \in Seq(T)
  BY <1>1, <1>2, SubSeqProperties, Zenon
<1>4. Len(SubSeq(s, n + 1, m)) = m - n
  <2>1. Len(SubSeq(s, n + 1, m)) = IF n + 1 <= m THEN m - (n + 1) + 1 ELSE 0
    BY <1>1, <1>2, SubSeqProperties, Zenon
  <2>2. QED  BY <2>1
<1>5. \A i \in 1..(m - n) : SubSeq(s, n + 1, m)[i] = s[n + i]
  <2>1. \A i \in 1..(m - (n + 1) + 1) : SubSeq(s, n + 1, m)[i] = s[n + 1 + i - 1]
    BY <1>1, <1>2, SubSeqProperties
  <2>2. m - (n + 1) + 1 = m - n
    OBVIOUS
  <2>3. ASSUME NEW i \in 1..(m - n) PROVE SubSeq(s, n + 1, m)[i] = s[n + i]
    <3>1. n + 1 + i - 1 = n + i
      OBVIOUS
    <3>2. QED  BY <2>1, <2>2, <3>1
  <2>4. QED  BY <2>3
<1>6. QED  BY <1>3, <1>4, <1>5

-------------------------------------------------------------------------------
(* Parts in another order                                                  *)

\* Of two texts of one length, neither or both are empty.
LEMMA SameEmpty ==
  ASSUME NEW S, NEW T, NEW s \in Seq(S), NEW t \in Seq(T), Len(s) = Len(t), s # <<>>
  PROVE  t # <<>>
BY EmptySeq

\* A permutation takes every place to a place, and one to each.
Permutes(place, n) ==
  (\A i \in 1..n : place[i] \in 1..n) /\ (\A u \in 1..n : \E i \in 1..n : place[i] = u)

\* A bijection of the places permutes them.
LEMMA PermutationIs ==
  ASSUME NEW n \in Nat, NEW place \in Bijection(1..n, 1..n)
  PROVE  Permutes(place, n)
<1>1. /\ place \in [1..n -> 1..n] /\ \A i, j \in 1..n : place[i] = place[j] => i = j
      /\ \A u \in 1..n : \E i \in 1..n : place[i] = u
  BY BijectionIs
<1>2. QED  BY <1>1 DEF Permutes

\* The parts of a text in another order.
InPlaces(parts, place) == [i \in 1..Len(parts) |-> parts[place[i]]]

\* They are the same parts.
Rearranged(other, parts, place, T) ==
  /\ other \in Seq(T) /\ Len(other) = Len(parts)
  /\ \A i \in 1..Len(parts) : place[i] \in 1..Len(parts) /\ other[i] = parts[place[i]]
  /\ \A u \in 1..Len(parts) : \E i \in 1..Len(parts) : place[i] = u

\* Reordering the parts of a text leaves the same parts.
LEMMA InPlacesIs ==
  ASSUME NEW T, NEW parts \in Seq(T), NEW place \in Bijection(1..Len(parts), 1..Len(parts))
  PROVE  Rearranged(InPlaces(parts, place), parts, place, T)
<1>1. PICK n \in Nat : n = Len(parts)
  BY LenProperties
<1>2. place \in Bijection(1..n, 1..n)
  BY <1>1
<1>3. /\ \A i \in 1..n : place[i] \in 1..n
      /\ \A u \in 1..n : \E i \in 1..n : place[i] = u
  <2>1. Permutes(place, n)
    BY <1>2, PermutationIs
  <2>2. QED  BY <2>1, Zenon DEF Permutes
<1>4. \A i \in 1..n : parts[i] \in T
  BY <1>1, ElementOfSeq
<1>5. PICK f : f = [i \in 1..n |-> parts[place[i]]]
  OBVIOUS
<1>6. f \in [1..n -> T]
  BY <1>3, <1>4, <1>5
<1>7. f \in Seq(T) /\ Len(f) = n
  BY <1>6
<1>8. f = InPlaces(parts, place)
  BY <1>1, <1>5 DEF InPlaces
<1>9. \A i \in 1..n : place[i] \in 1..n /\ f[i] = parts[place[i]]
  BY <1>3, <1>5
<1>10. QED  BY <1>1, <1>3, <1>7, <1>8, <1>9 DEF Rearranged
===================================================================================
