-------------------------- MODULE ExternalSorterProofs -------------------------
(***************************************************************************)
(* Proofs about ExternalSorter, for any rules, sizes, fan-in and number of *)
(* calls, with or without I/O errors: the published list is the sorted set *)
(* of the accepted rules, its counters split them exactly, no chunk is     *)
(* lost, read after its removal or left behind, and the sorter implements  *)
(* RuleSet.                                                                *)
(*                                                                         *)
(* The inductive invariant SorterInv follows the rules through batch,      *)
(* chunk files, rounds and merges; Kept says that none is lost and Counted *)
(* that none is counted twice.                                             *)
(***************************************************************************)
EXTENDS ExternalSorter, FoundationProofs, FiniteSetTheorems, SequenceTheorems, TLAPS

Ended == {"done", "failed"}
InRound == {"group", "merge"}
Merges == {"merge", "final"}
Finishing == {"round", "final"} \cup InRound

\* The batch is empty exactly when its size is zero, at most, and lone when it is
\* too big; a chunk written by Add has a line.
BatchFits ==
  /\ pc = "adding" => /\ batch = <<>> => bytes = 0
                      /\ bytes > ChunkBytes => Len(batch) = 1
                      /\ \A f \in 1..Len(chunk) : chunk[f] # <<>>
  /\ pc \in Finishing => batch = <<>>

\* Files are numbered in the order of their creation, and merged in that order.
Lists ==
  /\ pc \in Finishing => Increasing(list)
  /\ pc \in InRound => /\ Increasing(next)
                       /\ \A i \in DOMAIN list, j \in DOMAIN next : list[i] < next[j]
  /\ pc = "merge" => start < Len(list)

\* What is to be read is there.
Filed == pc \notin Ended => Pending \subseteq files

InOrder(seq) == \A i, j \in DOMAIN seq : i < j => seq[i] <= seq[j]

\* Every chunk file is sorted, also after its removal.
Sorted == \A f \in 1..Len(chunk) : InOrder(chunk[f])

\* What a merge has written is in order, precedes what it has not read, and is
\* what it has read.
Heads ==
  pc \in Merges =>
    /\ Len(pos) = Len(Reading)
    /\ \A i \in DOMAIN pos : pos[i] <= Len(chunk[Reading[i]])
    /\ InOrder(merged) /\ (pc = "final" => Increasing(merged))
    /\ \A k \in DOMAIN merged, i \in Unread : merged[k] <= NextLine(i)
    /\ \A k \in DOMAIN merged : \E i \in DOMAIN pos : \E l \in 1..pos[i] :
          merged[k] = chunk[Reading[i]][l]
    /\ \A i \in DOMAIN pos : \A l \in 1..pos[i] : \E k \in DOMAIN merged :
          merged[k] = chunk[Reading[i]][l]

\* The accepted rules are those in the batch and in the files still to be read.
Content(chunks, fs) == UNION {ToSet(chunks[f]) : f \in fs}
Kept == pc \notin Ended => Accepted = ToSet(batch) \cup Content(chunk, Pending)

\* The lines of each file that are still to be read, and those just written.
At(f) == CHOOSE i \in DOMAIN Reading : Reading[i] = f
Left == [f \in 1..Len(chunk) |->
           IF f \notin Pending THEN 0
           ELSE IF pc \in Merges /\ f \in ToSet(Reading)
                THEN Len(chunk[f]) - pos[At(f)]
                ELSE Len(chunk[f])]
Written == IF pc \in Merges THEN Len(merged) ELSE 0

\* Every accepted rule is counted once: in the batch, as a line still to be read,
\* as a line written, or as a duplicate.
Counted ==
  pc \notin Ended =>
    Len(batch) + SumTo(Len(chunk), Left) + Written + duplicates = AcceptedSoFar

\* How Finish has ended.
Endings == /\ OutputIsSortedSet /\ NoScratchLeft
           /\ pc = "failed" /\ ~IOFaults => Accepted = {}

SorterInv == /\ TypeOK /\ BatchFits /\ Lists /\ Filed /\ Sorted
             /\ Heads /\ Kept /\ Counted /\ Endings

-------------------------------------------------------------------------------
(* Sequences                                                               *)

\* One more element.
LEMMA Appended ==
  ASSUME NEW S, NEW s \in Seq(S), NEW e \in S
  PROVE  /\ Append(s, e) \in Seq(S) /\ Len(Append(s, e)) = Len(s) + 1
         /\ DOMAIN Append(s, e) = 1..(Len(s) + 1) /\ DOMAIN s = 1..Len(s) /\ Len(s) \in Nat
         /\ \A i \in 1..Len(s) : Append(s, e)[i] = s[i]
         /\ Append(s, e)[Len(s) + 1] = e
         /\ ToSet(Append(s, e)) = ToSet(s) \cup {e}
<1>1. /\ Append(s, e) \in Seq(S) /\ Len(Append(s, e)) = Len(s) + 1
      /\ \A i \in 1..Len(s) : Append(s, e)[i] = s[i]
      /\ Append(s, e)[Len(s) + 1] = e
  BY AppendProperties
<1>2. Len(s) \in Nat /\ DOMAIN s = 1..Len(s) /\ DOMAIN Append(s, e) = 1..(Len(s) + 1)
  BY <1>1, LenProperties
<1>3. ToSet(Append(s, e)) = ToSet(s) \cup {e}
  <2>1. ASSUME NEW x \in ToSet(Append(s, e)) PROVE x \in ToSet(s) \cup {e}
    <3>1. PICK i \in 1..(Len(s) + 1) : x = Append(s, e)[i]
      BY <1>2 DEF ToSet
    <3>2. CASE i = Len(s) + 1
      BY <1>1, <3>1, <3>2
    <3>3. CASE i \in 1..Len(s)
      BY <1>1, <1>2, <3>1, <3>3 DEF ToSet
    <3>4. QED  BY <1>2, <3>1, <3>2, <3>3
  <2>2. ASSUME NEW x \in ToSet(s) PROVE x \in ToSet(Append(s, e))
    <3>1. PICK i \in 1..Len(s) : x = s[i]
      BY <1>2 DEF ToSet
    <3>2. i \in 1..(Len(s) + 1) /\ Append(s, e)[i] = x
      BY <1>1, <1>2, <3>1
    <3>3. QED  BY <1>2, <3>2 DEF ToSet
  <2>3. e \in ToSet(Append(s, e))
    <3>1. Len(s) + 1 \in 1..(Len(s) + 1)
      BY <1>2
    <3>2. QED  BY <1>1, <1>2, <3>1 DEF ToSet
  <2>4. QED  BY <2>1, <2>2, <2>3
<1>4. QED  BY <1>1, <1>2, <1>3

\* Every finite set of numbers has an increasing sequence of its elements.
LEMMA SortedExists ==
  ASSUME NEW n \in Nat, NEW S \in SUBSET (1..n)
  PROVE  \E s \in Seq(S) : ToSet(s) = S /\ Increasing(s)
<1> DEFINE Has(U) == \E s \in Seq(U) : ToSet(s) = U /\ Increasing(s)
           T == {m \in Nat : \A U \in SUBSET (1..m) : Has(U)}
<1>1. 0 \in T
  <2>1. ASSUME NEW U \in SUBSET (1..0) PROVE Has(U)
    <3>1. U = {}
      OBVIOUS
    <3>2. <<>> \in Seq(U) /\ ToSet(<<>>) = {} /\ Increasing(<<>>)
      BY DEF ToSet, Increasing
    <3>3. QED  BY <3>1, <3>2
  <2>2. QED  BY <2>1
<1>2. ASSUME NEW m \in T PROVE m + 1 \in T
  <2>1. m \in Nat /\ \A U \in SUBSET (1..m) : Has(U)
    OBVIOUS
  <2> HIDE DEF Has
  <2> SUFFICES ASSUME NEW U \in SUBSET (1..(m + 1)) PROVE Has(U)
    BY <2>1
  <2> USE DEF Has
  <2>2. CASE m + 1 \notin U
    <3>1. U \in SUBSET (1..m)
      BY <2>1, <2>2
    <3>2. QED  BY <2>1, <3>1
  <2>3. CASE m + 1 \in U
    <3> DEFINE V == U \ {m + 1}
    <3>1. V \in SUBSET (1..m)
      BY <2>1
    <3>2. PICK s \in Seq(V) : ToSet(s) = V /\ Increasing(s)
      BY <2>1, <3>1
    <3>3. s \in Seq(U)
      BY <3>2, SeqMonotonic
    <3> DEFINE t == Append(s, m + 1)
    <3>4. /\ t \in Seq(U) /\ ToSet(t) = ToSet(s) \cup {m + 1} /\ Len(s) \in Nat
          /\ DOMAIN t = 1..(Len(s) + 1) /\ DOMAIN s = 1..Len(s)
          /\ \A i \in 1..Len(s) : t[i] = s[i]
          /\ t[Len(s) + 1] = m + 1
      BY <2>3, <3>3, Appended
    <3>5. \A i \in 1..Len(s) : s[i] \in 1..m
      BY <3>1, <3>2, <3>4 DEF ToSet
    <3> HIDE DEF t
    <3>6. Increasing(t)
      <4> SUFFICES ASSUME NEW i \in 1..(Len(s) + 1), NEW j \in 1..(Len(s) + 1), i < j
                   PROVE  t[i] < t[j]
        BY <3>4 DEF Increasing
      <4>1. i \in 1..Len(s)
        BY <3>4
      <4>2. CASE j = Len(s) + 1
        BY <2>1, <3>4, <3>5, <4>1, <4>2
      <4>3. CASE j # Len(s) + 1
        <5>1. j \in 1..Len(s)
          BY <3>4, <4>3
        <5>2. QED  BY <3>2, <3>4, <4>1, <5>1 DEF Increasing
      <4>4. QED  BY <4>2, <4>3
    <3>7. ToSet(t) = U
      BY <2>3, <3>2, <3>4
    <3>8. QED  BY <3>4, <3>6, <3>7
  <2>4. QED  BY <2>2, <2>3
<1>3. T = Nat
  <2> HIDE DEF T
  <2>1. T \in SUBSET Nat
    BY DEF T
  <2>2. QED  BY <1>1, <1>2, <2>1, NatClosure
<1>4. QED  BY <1>3

\* An increasing sequence is no longer than any other with its elements.
LEMMA IncreasingIsShortest ==
  ASSUME NEW s \in Seq(Int), NEW t \in Seq(Int), Increasing(s), ToSet(s) = ToSet(t)
  PROVE  Len(s) <= Len(t)
<1>1. /\ Len(s) \in Nat /\ DOMAIN s = 1..Len(s) /\ \A i \in 1..Len(s) : s[i] \in Int
      /\ Len(t) \in Nat /\ DOMAIN t = 1..Len(t)
  BY LenProperties, ElementOfSeq
<1> DEFINE at == [i \in 1..Len(s) |-> CHOOSE k \in 1..Len(t) : t[k] = s[i]]
<1>2. ASSUME NEW i \in 1..Len(s) PROVE at[i] \in 1..Len(t) /\ t[at[i]] = s[i]
  <2>1. \E k \in 1..Len(t) : t[k] = s[i]
    BY <1>1 DEF ToSet
  <2>2. QED  BY <2>1
<1> HIDE DEF at
<1>3. at \in [1..Len(s) -> 1..Len(t)]
  BY <1>2 DEF at
<1>4. ASSUME NEW i \in 1..Len(s), NEW j \in 1..Len(s), at[i] = at[j] PROVE i = j
  <2>1. s[i] = s[j]
    BY <1>2, <1>4
  <2>2. i \in DOMAIN s /\ j \in DOMAIN s /\ s[i] \in Int /\ s[j] \in Int
    BY <1>1
  <2>3. QED  BY <2>1, <2>2, <1>1 DEF Increasing
<1>5. at \in Injection(1..Len(s), 1..Len(t))
  BY <1>3, <1>4 DEF Injection, IsInjective
<1>6. IsFiniteSet(1..Len(t)) /\ Cardinality(1..Len(t)) = Len(t) /\ Cardinality(1..Len(s)) = Len(s)
  <2>1. ASSUME NEW n \in Nat PROVE IsFiniteSet(1..n) /\ Cardinality(1..n) = n
    <3>1. 1 \in Int /\ n \in Int
      OBVIOUS
    <3>2. IsFiniteSet(1..n) /\ Cardinality(1..n) = IF 1 > n THEN 0 ELSE n - 1 + 1
      BY <3>1, FS_Interval, Zenon
    <3>3. QED  BY <3>2
  <2>2. QED  BY <1>1, <2>1
<1>7. Cardinality(1..Len(s)) <= Cardinality(1..Len(t))
  BY <1>5, <1>6, FS_Injection
<1>8. QED  BY <1>6, <1>7

\* slices.Sort and slices.Compact.
LEMMA CompactedIs ==
  ASSUME NEW rules \in Seq(Rules)
  PROVE  /\ Compacted(rules) \in Seq(Rules)
         /\ ToSet(Compacted(rules)) = ToSet(rules)
         /\ Increasing(Compacted(rules)) /\ InOrder(Compacted(rules))
         /\ Collapsed(rules) \in Nat /\ Len(Compacted(rules)) + Collapsed(rules) = Len(rules)
<1> DEFINE S == ToSet(rules)
           Good(s) == ToSet(s) = S /\ Increasing(s)
<1>1. S \in SUBSET Rules /\ NumRules \in Nat /\ Len(rules) \in Nat /\ rules \in Seq(Int)
  <2>1. DOMAIN rules = 1..Len(rules) /\ Len(rules) \in Nat /\ Rules \subseteq Int
    BY LenProperties DEF Rules
  <2>2. \A i \in 1..Len(rules) : rules[i] \in Rules
    BY ElementOfSeq
  <2>3. ToSet(rules) \in SUBSET Rules
    BY <2>1, <2>2 DEF ToSet
  <2>4. rules \in Seq(Int)
    BY <2>1, SeqMonotonic
  <2>5. QED  BY <2>1, <2>3, <2>4, SorterAssumption
<1>2. PICK s \in Seq(S) : Good(s)
  BY <1>1, SortedExists DEF Rules
<1>3. s \in SeqOf(S, Len(rules))
  <2>1. s \in Seq(Int)
    BY <1>1, <1>2, SeqMonotonic DEF Rules
  <2>2. Len(s) <= Len(rules) /\ Len(s) \in Nat /\ s \in [1..Len(s) -> S]
    BY <1>1, <1>2, <2>1, IncreasingIsShortest, LenProperties
  <2>3. Len(s) \in 0..Len(rules)
    BY <1>1, <2>2
  <2>4. QED  BY <2>2, <2>3 DEF SeqOf
<1>4. Compacted(rules) \in SeqOf(S, Len(rules)) /\ Good(Compacted(rules))
  BY <1>2, <1>3 DEF Compacted
<1> HIDE DEF S
<1>5. PICK m \in 0..Len(rules) : Compacted(rules) \in [1..m -> S]
  BY <1>4 DEF SeqOf
<1>6. Compacted(rules) \in Seq(Rules) /\ Len(Compacted(rules)) = m
  BY <1>1, <1>5
<1>7. InOrder(Compacted(rules))
  <2>1. DOMAIN Compacted(rules) = 1..m /\ \A i \in 1..m : Compacted(rules)[i] \in S
    BY <1>5
  <2>2. S \subseteq Int
    BY <1>1 DEF Rules
  <2>3. ASSUME NEW i \in 1..m, NEW j \in 1..m, i < j
        PROVE  Compacted(rules)[i] <= Compacted(rules)[j]
    <3>1. Increasing(Compacted(rules)) /\ i < j
      BY <1>4, <2>3
    <3>2. i \in DOMAIN Compacted(rules) /\ j \in DOMAIN Compacted(rules)
      BY <2>1
    <3>3. Compacted(rules)[i] < Compacted(rules)[j]
      BY <3>1, <3>2 DEF Increasing
    <3>4. Compacted(rules)[i] \in Int /\ Compacted(rules)[j] \in Int
      BY <2>1, <2>2
    <3>5. QED  BY <3>3, <3>4
  <2>4. QED  BY <2>1, <2>3 DEF InOrder
<1>8. QED  BY <1>1, <1>4, <1>6, <1>7 DEF Collapsed, S

\* The elements of g are those of l after the first k, up to the m-th.
IsSlice(g, l, k, m) ==
  /\ Len(g) \in Nat /\ DOMAIN g = 1..Len(g)
  /\ \A i \in 1..Len(g) : k + i \in (k + 1)..m /\ g[i] = l[k + i]
  /\ \A i \in (k + 1)..m : i - k \in 1..Len(g) /\ g[i - k] = l[i]

\* A slice of a sequence.
LEMMA SliceIs ==
  ASSUME NEW S, NEW l \in Seq(S), NEW k \in Nat, NEW m \in Nat, m <= Len(l)
  PROVE  SubSeq(l, k + 1, m) \in Seq(S) /\ IsSlice(SubSeq(l, k + 1, m), l, k, m)
<1>1. Len(l) \in Nat /\ \A i \in (k + 1)..m : l[i] \in S
  BY LenProperties, ElementOfSeq
<1> DEFINE g == SubSeq(l, k + 1, m)
<1>2. k + 1 \in Int /\ m \in Int
  OBVIOUS
<1>3. /\ g \in Seq(S)
      /\ Len(g) = IF k + 1 <= m THEN m - (k + 1) + 1 ELSE 0
      /\ \A i \in 1..(m - (k + 1) + 1) : g[i] = l[k + 1 + i - 1]
  BY <1>1, <1>2, SubSeqProperties
<1>4. DOMAIN g = 1..Len(g) /\ Len(g) \in Nat
  BY <1>3, LenProperties
<1> HIDE DEF g
<1>5. ASSUME NEW i \in 1..Len(g) PROVE k + i \in (k + 1)..m /\ g[i] = l[k + i]
  <2>1. k < m /\ Len(g) = m - k
    BY <1>3, <1>4
  <2>2. i \in 1..(m - (k + 1) + 1) /\ k + 1 + i - 1 = k + i /\ k + i \in (k + 1)..m
    BY <2>1
  <2>3. QED  BY <1>3, <2>2
<1>6. \A i \in (k + 1)..m : i - k \in 1..Len(g) /\ g[i - k] = l[i]
  BY <1>1, <1>3
<1>7. IsSlice(g, l, k, m)
  BY <1>4, <1>5, <1>6 DEF IsSlice
<1>8. QED  BY <1>3, <1>7 DEF g

\* The files after the first k of a list.
LEMMA RestIs ==
  ASSUME NEW S, NEW l \in Seq(S), NEW k \in Nat
  PROVE  ToSet(SubSeq(l, k + 1, Len(l))) = {l[i] : i \in (k + 1)..Len(l)}
<1>1. Len(l) \in Nat /\ Len(l) <= Len(l)
  BY LenProperties
<1> DEFINE g == SubSeq(l, k + 1, Len(l))
<1>2. IsSlice(g, l, k, Len(l))
  BY <1>1, SliceIs
<1> HIDE DEF g
<1>3. QED  BY <1>2 DEF ToSet, IsSlice, g

\* Where a group ends.
LEMMA GroupEnd ==
  ASSUME NEW k \in Nat, NEW n \in Nat
  PROVE  /\ Min({k + FanIn, n}) \in Nat /\ Min({k + FanIn, n}) <= n
         /\ Min({k + FanIn, n}) <= k + FanIn
         /\ Min({k + FanIn, n}) = n \/ Min({k + FanIn, n}) = k + FanIn
<1>1. FanIn \in Nat
  BY SorterAssumption
<1>2. PICK m \in {k + FanIn, n} : \A y \in {k + FanIn, n} : m <= y
  BY <1>1
<1>3. Min({k + FanIn, n}) \in {k + FanIn, n} /\ \A y \in {k + FanIn, n} : Min({k + FanIn, n}) <= y
  BY <1>2 DEF Min
<1>4. QED  BY <1>1, <1>3

-------------------------------------------------------------------------------
(* States                                                                  *)

\* Only files that were written are still to be read.
LEMMA PendingIs ==
  TypeOK => /\ Pending \subseteq 1..Len(chunk) /\ Len(chunk) \in Nat
            /\ pc \in InRound => Pending = {next[i] : i \in DOMAIN next}
                                            \cup {list[i] : i \in (start + 1)..Len(list)}
<1> SUFFICES ASSUME TypeOK
             PROVE  /\ Pending \subseteq 1..Len(chunk) /\ Len(chunk) \in Nat
                    /\ pc \in InRound => Pending = {next[i] : i \in DOMAIN next}
                                            \cup {list[i] : i \in (start + 1)..Len(list)}
  OBVIOUS
<1>1. /\ Len(chunk) \in Nat /\ start \in Nat /\ list \in Seq(1..Len(chunk))
      /\ next \in Seq(1..Len(chunk))
  BY LenProperties DEF TypeOK
<1>2. ToSet(list) \subseteq 1..Len(chunk) /\ ToSet(next) \subseteq 1..Len(chunk)
  BY <1>1 DEF ToSet
<1>3. pc \in InRound => Pending = {next[i] : i \in DOMAIN next}
                                  \cup {list[i] : i \in (start + 1)..Len(list)}
  BY <1>1, RestIs DEF Pending, InRound, ToSet
<1>4. {list[i] : i \in (start + 1)..Len(list)} \subseteq ToSet(list)
  BY <1>1, LenProperties DEF ToSet
<1>5. pc \notin InRound => Pending = 1..Len(chunk) \/ Pending = ToSet(list)
                           \/ Pending = ToSet(next) \cup {list[i] : i \in (start + 1)..Len(list)}
  BY <1>1, RestIs DEF Pending, InRound
<1>6. {next[i] : i \in DOMAIN next} = ToSet(next)
  BY DEF ToSet
<1>7. QED  BY <1>1, <1>2, <1>3, <1>4, <1>5, <1>6

\* What a merge reads is part of that, and in increasing order.
LEMMA ReadingIs ==
  TypeOK => /\ Reading \in Seq(1..Len(chunk))
            /\ Len(Reading) \in Nat /\ DOMAIN Reading = 1..Len(Reading)
            /\ pc \in InRound \cup {"final"} => ToSet(Reading) \subseteq Pending
            /\ pc \in Merges /\ Lists =>
                 /\ Increasing(Reading)
                 /\ \A i \in DOMAIN Reading : At(Reading[i]) = i
<1> SUFFICES ASSUME TypeOK
             PROVE  /\ Reading \in Seq(1..Len(chunk))
                    /\ Len(Reading) \in Nat /\ DOMAIN Reading = 1..Len(Reading)
                    /\ pc \in InRound \cup {"final"} => ToSet(Reading) \subseteq Pending
                    /\ pc \in Merges /\ Lists =>
                         /\ Increasing(Reading)
                         /\ \A i \in DOMAIN Reading : At(Reading[i]) = i
  OBVIOUS
<1>1. /\ list \in Seq(1..Len(chunk)) /\ start \in Nat /\ Len(list) \in Nat
      /\ DOMAIN list = 1..Len(list)
  BY LenProperties DEF TypeOK
<1>2. Reading \in Seq(Int) /\ Increasing(Reading) => \A i \in DOMAIN Reading : At(Reading[i]) = i
  <2> SUFFICES ASSUME NEW i \in DOMAIN Reading, Increasing(Reading), Reading \in Seq(Int)
               PROVE  At(Reading[i]) = i
    OBVIOUS
  <2>1. DOMAIN Reading \subseteq Int /\ \A j \in DOMAIN Reading : Reading[j] \in Int
    BY LenProperties, ElementOfSeq
  <2>2. \A j \in DOMAIN Reading : Reading[j] = Reading[i] => j = i
    BY <2>1 DEF Increasing
  <2>3. QED  BY <2>2 DEF At
<1>3. CASE pc = "final"
  <2>1. Reading = list /\ Pending = ToSet(list)
    BY <1>3 DEF Reading, Pending
  <2>2. Lists => Increasing(Reading)
    BY <1>3, <2>1 DEF Lists, Finishing
  <2>3. Reading \in Seq(Int)
    BY <1>1, <2>1, SeqMonotonic
  <2>4. QED  BY <1>1, <1>2, <2>1, <2>2, <2>3
<1>4. CASE pc # "final"
  <2> DEFINE m == Min({start + FanIn, Len(list)})
  <2>1. Reading = SubSeq(list, start + 1, m) /\ m \in Nat /\ m <= Len(list)
    BY <1>1, <1>4, GroupEnd DEF Reading
  <2> HIDE DEF m
  <2>2. /\ Reading \in Seq(1..Len(chunk))
        /\ Len(Reading) \in Nat /\ DOMAIN Reading = 1..Len(Reading)
        /\ \A i \in 1..Len(Reading) : start + i \in 1..Len(list) /\ Reading[i] = list[start + i]
    <3> DEFINE g == SubSeq(list, start + 1, m)
    <3>1. /\ list \in Seq(1..Len(chunk)) /\ start \in Nat /\ m \in Nat /\ m <= Len(list)
          /\ Len(list) \in Nat
      BY <1>1, <2>1
    <3>2. g \in Seq(1..Len(chunk)) /\ IsSlice(g, list, start, m)
      BY <3>1, SliceIs
    <3>3. Reading = g
      BY <2>1
    <3> HIDE DEF g
    <3>4. \A i \in 1..Len(g) : start + i \in 1..Len(list) /\ g[i] = list[start + i]
      BY <3>1, <3>2 DEF IsSlice
    <3>5. QED  BY <3>2, <3>3, <3>4 DEF IsSlice
  <2>3. pc \in InRound => ToSet(Reading) \subseteq Pending
    <3>1. ToSet(Reading) \subseteq {list[i] : i \in (start + 1)..Len(list)}
      BY <1>1, <2>2 DEF ToSet
    <3>2. QED  BY <3>1, PendingIs
  <2>4. pc \in Merges /\ Lists => Increasing(Reading)
    <3>1. pc \in Merges /\ Lists => Increasing(list)
      BY DEF Lists, Merges, Finishing, InRound
    <3>2. ASSUME Increasing(list), NEW i \in 1..Len(Reading), NEW j \in 1..Len(Reading), i < j
          PROVE  Reading[i] < Reading[j]
      <4>1. start + i \in DOMAIN list /\ start + j \in DOMAIN list /\ start + i < start + j
        BY <1>1, <2>2, <3>2
      <4>2. list[start + i] < list[start + j]
        BY <3>2, <4>1 DEF Increasing
      <4>3. QED  BY <2>2, <4>2
    <3>3. QED  BY <2>2, <3>1, <3>2 DEF Increasing
  <2>5. Reading \in Seq(Int)
    BY <2>2, SeqMonotonic
  <2>6. QED  BY <1>2, <1>4, <2>2, <2>3, <2>4, <2>5
<1>5. QED  BY <1>3, <1>4

\* How many lines of each file are still to be read.
LEMMA LeftIs ==
  TypeOK /\ Lists /\ Heads =>
    /\ Left \in [1..Len(chunk) -> Nat] /\ Left \in [1..Len(chunk) -> Int]
    /\ pc \in Merges => \A i \in DOMAIN Reading :
                          /\ Reading[i] \in 1..Len(chunk)
                          /\ Left[Reading[i]] = Len(chunk[Reading[i]]) - pos[i]
<1> SUFFICES ASSUME TypeOK, Lists, Heads
             PROVE  /\ Left \in [1..Len(chunk) -> Nat]
                    /\ pc \in Merges => \A i \in DOMAIN Reading :
                          /\ Reading[i] \in 1..Len(chunk)
                          /\ Left[Reading[i]] = Len(chunk[Reading[i]]) - pos[i]
  OBVIOUS
<1>1. \A f \in 1..Len(chunk) : Len(chunk[f]) \in Nat
  <2>1. chunk \in Seq(Seq(Rules))
    BY DEF TypeOK
  <2>2. \A f \in 1..Len(chunk) : chunk[f] \in Seq(Rules)
    BY <2>1, ElementOfSeq
  <2>3. QED  BY <2>2, LenProperties
<1>2. DOMAIN Reading = 1..Len(Reading) /\ \A i \in DOMAIN Reading : Reading[i] \in 1..Len(chunk)
  BY ReadingIs, ElementOfSeq
<1>3. ASSUME pc \in Merges
      PROVE  /\ DOMAIN pos = DOMAIN Reading
             /\ \A i \in DOMAIN pos : pos[i] \in Nat /\ pos[i] <= Len(chunk[Reading[i]])
  <2>1. pos \in Seq(Nat)
    BY DEF TypeOK
  <2>2. DOMAIN pos = 1..Len(pos) /\ \A i \in 1..Len(pos) : pos[i] \in Nat
    BY <2>1, LenProperties, ElementOfSeq
  <2>3. QED  BY <1>2, <1>3, <2>2 DEF Heads
<1>4. ASSUME pc \in Merges, NEW i \in DOMAIN Reading
      PROVE  Left[Reading[i]] = Len(chunk[Reading[i]]) - pos[i]
  <2>1. At(Reading[i]) = i /\ Reading[i] \in ToSet(Reading) /\ Reading[i] \in Pending
    <3>1. ToSet(Reading) \subseteq Pending
      BY <1>4, ReadingIs DEF Merges, InRound
    <3>2. At(Reading[i]) = i
      BY <1>4, ReadingIs
    <3>3. QED  BY <3>1, <3>2 DEF ToSet
  <2>2. QED  BY <1>2, <1>4, <2>1 DEF Left
<1>5. ASSUME NEW f \in 1..Len(chunk) PROVE Left[f] \in Nat
  <2>1. CASE pc \in Merges /\ f \in ToSet(Reading)
    <3>1. PICK i \in DOMAIN Reading : f = Reading[i]
      BY <2>1 DEF ToSet
    <3>2. Left[f] = Len(chunk[f]) - pos[i] /\ pos[i] \in Nat /\ pos[i] <= Len(chunk[f])
      BY <1>3, <1>4, <2>1, <3>1
    <3>3. QED  BY <1>1, <3>2
  <2>2. CASE ~(pc \in Merges /\ f \in ToSet(Reading))
    BY <1>1, <2>2 DEF Left
  <2>3. QED  BY <2>1, <2>2
<1>6. Left \in [1..Len(chunk) -> Nat]
  BY <1>5 DEF Left
<1>7. QED  BY <1>2, <1>4, <1>6

\* A rule more is accepted.
LEMMA AcceptIs ==
  ASSUME TypeOK, NEW r \in Rules, Accept(r)
  PROVE  /\ added' \in [Rules -> Nat]
         /\ Accepted' = Accepted \cup {r}
         /\ AcceptedSoFar' = AcceptedSoFar + 1
<1>1. added \in [Rules -> Nat] /\ added' = [added EXCEPT ![r] = added[r] + 1]
  BY DEF TypeOK, Accept
<1>2. Accepted' = Accepted \cup {r}
  BY <1>1 DEF Accepted
<1>3. AcceptedSoFar' = AcceptedSoFar + 1
  <2>1. /\ NumRules \in Nat /\ r \in 1..NumRules
        /\ added \in [1..NumRules -> Int] /\ added[r] + 1 \in Int /\ added[r] \in Nat
    BY <1>1, SorterAssumption DEF Rules
  <2>2. SumTo(NumRules, [added EXCEPT ![r] = added[r] + 1])
          = SumTo(NumRules, added) - added[r] + (added[r] + 1)
    BY <2>1, SumUpdate
  <2>3. SumTo(NumRules, added) \in Int
    BY <2>1, SumType
  <2>4. QED  BY <1>1, <2>1, <2>2, <2>3 DEF AcceptedSoFar
<1>4. QED  BY <1>1, <1>2, <1>3

-------------------------------------------------------------------------------
(* Add                                                                     *)

\* How many lines a sequence of chunks has.
Sizes(c) == [f \in 1..Len(c) |-> Len(c[f])]
Total(c) == SumTo(Len(c), Sizes(c))

\* The lines of all chunks are a natural number.
LEMMA TotalType ==
  ASSUME NEW c \in Seq(Seq(Rules))
  PROVE  /\ Len(c) \in Nat /\ Sizes(c) \in [1..Len(c) -> Nat]
         /\ Sizes(c) \in [1..Len(c) -> Int] /\ Total(c) \in Nat
<1>1. Len(c) \in Nat /\ \A f \in 1..Len(c) : c[f] \in Seq(Rules)
  BY LenProperties, ElementOfSeq
<1>2. \A f \in 1..Len(c) : Len(c[f]) \in Nat
  BY <1>1, LenProperties
<1>3. Sizes(c) \in [1..Len(c) -> Nat]
  BY <1>2 DEF Sizes
<1>4. Sizes(c) \in [1..Len(c) -> Int]
  BY <1>2 DEF Sizes
<1>5. Total(c) \in Nat
  BY <1>1, <1>3, <1>4, SumType DEF Total
<1>6. QED  BY <1>1, <1>3, <1>4, <1>5

\* A chunk more.
LEMMA ChunkAppended ==
  ASSUME NEW c \in Seq(Seq(Rules)), NEW x \in Seq(Rules)
  PROVE  /\ Append(c, x) \in Seq(Seq(Rules)) /\ Len(Append(c, x)) = Len(c) + 1
         /\ \A f \in 1..Len(c) : Append(c, x)[f] = c[f]
         /\ Append(c, x)[Len(c) + 1] = x
         /\ Total(Append(c, x)) = Total(c) + Len(x)
         /\ Content(Append(c, x), 1..(Len(c) + 1)) = Content(c, 1..Len(c)) \cup ToSet(x)
<1> DEFINE d == Append(c, x)
<1>1. /\ d \in Seq(Seq(Rules)) /\ Len(d) = Len(c) + 1 /\ Len(c) \in Nat
      /\ \A f \in 1..Len(c) : d[f] = c[f]
      /\ d[Len(c) + 1] = x
  BY Appended
<1> HIDE DEF d
<1>2. Total(d) = Total(c) + Len(x)
  <2>1. /\ Sizes(c) \in [1..Len(c) -> Int] /\ Sizes(d) \in [1..(Len(c) + 1) -> Int]
    BY <1>1, TotalType
  <2>2. (\A f \in 1..Len(c) : Sizes(d)[f] = Sizes(c)[f]) /\ Sizes(d)[Len(c) + 1] = Len(x)
    BY <1>1 DEF Sizes
  <2>3. SumTo(Len(c) + 1, Sizes(d)) = SumTo(Len(c), Sizes(c)) + Sizes(d)[Len(c) + 1]
    BY <1>1, <2>1, <2>2, SumExtend
  <2>4. QED  BY <1>1, <2>2, <2>3 DEF Total
<1>3. Content(d, 1..(Len(c) + 1)) = Content(c, 1..Len(c)) \cup ToSet(x)
  <2>1. 1..(Len(c) + 1) = (1..Len(c)) \cup {Len(c) + 1}
    BY <1>1
  <2>2. QED  BY <1>1, <2>1 DEF Content
<1>4. QED  BY <1>1, <1>2, <1>3 DEF d

\* The batch b and the chunks c hold the rules A, of which n, with the d
\* duplicates, were accepted.
Stage(b, c, d, A, n) ==
  /\ b \in Seq(Rules) /\ c \in Seq(Seq(Rules)) /\ d \in Nat
  /\ \A f \in 1..Len(c) : InOrder(c[f]) /\ c[f] # <<>>
  /\ A = ToSet(b) \cup Content(c, 1..Len(c))
  /\ Len(b) + Total(c) + d = n

\* A chunk that is in order and has lines.
LEMMA StageChunk ==
  ASSUME NEW b, NEW c, NEW d, NEW A, NEW n, Stage(b, c, d, A, n),
         NEW x \in Seq(Rules), InOrder(x), x # <<>>
  PROVE  Stage(b, Append(c, x), d, A \cup ToSet(x), n + Len(x))
<1>1. b \in Seq(Rules) /\ c \in Seq(Seq(Rules)) /\ d \in Nat
  BY DEF Stage
<1>2. Len(b) \in Nat /\ Total(c) \in Nat /\ Len(x) \in Nat /\ Len(c) \in Nat
  BY <1>1, LenProperties, TotalType
<1> DEFINE e == Append(c, x)
<1>3. /\ e \in Seq(Seq(Rules)) /\ Len(e) = Len(c) + 1
      /\ \A f \in 1..Len(c) : e[f] = c[f]
      /\ e[Len(c) + 1] = x
      /\ Total(e) = Total(c) + Len(x)
      /\ Content(e, 1..(Len(c) + 1)) = Content(c, 1..Len(c)) \cup ToSet(x)
  BY <1>1, ChunkAppended
<1> HIDE DEF e
<1>4. ASSUME NEW f \in 1..Len(e) PROVE InOrder(e[f]) /\ e[f] # <<>>
  <2>1. CASE f = Len(c) + 1
    BY <1>3, <2>1
  <2>2. CASE f # Len(c) + 1
    <3>1. f \in 1..Len(c)
      BY <1>2, <1>3, <2>2
    <3>2. QED  BY <1>3, <3>1 DEF Stage
  <2>3. QED  BY <2>1, <2>2
<1>5. A \cup ToSet(x) = ToSet(b) \cup Content(e, 1..Len(e))
  BY <1>3 DEF Stage
<1>6. Len(b) + Total(e) + d = n + Len(x)
  BY <1>1, <1>2, <1>3 DEF Stage
<1>7. QED  BY <1>1, <1>3, <1>4, <1>5, <1>6 DEF Stage, e

\* The batch is sorted and compacted.
LEMMA StageCompacted ==
  ASSUME NEW b, NEW c, NEW d, NEW A, NEW n, Stage(b, c, d, A, n)
  PROVE  Stage(Compacted(b), c, d + Collapsed(b), A, n)
<1>1. b \in Seq(Rules) /\ c \in Seq(Seq(Rules)) /\ d \in Nat
  BY DEF Stage
<1>2. /\ Compacted(b) \in Seq(Rules) /\ ToSet(Compacted(b)) = ToSet(b)
      /\ Collapsed(b) \in Nat /\ Len(Compacted(b)) + Collapsed(b) = Len(b)
  BY <1>1, CompactedIs
<1>3. Len(b) \in Nat /\ Total(c) \in Nat /\ Len(Compacted(b)) \in Nat
  BY <1>1, <1>2, LenProperties, TotalType
<1>4. Len(Compacted(b)) + Total(c) + (d + Collapsed(b)) = n
  BY <1>1, <1>2, <1>3 DEF Stage
<1>5. QED  BY <1>1, <1>2, <1>4 DEF Stage

\* ... and written.
LEMMA StageFlushed ==
  ASSUME NEW b, NEW c, NEW d, NEW A, NEW n, Stage(b, c, d, A, n), b # <<>>
  PROVE  Stage(<<>>, Append(c, Compacted(b)), d + Collapsed(b), A, n)
<1>1. b \in Seq(Rules) /\ c \in Seq(Seq(Rules)) /\ d \in Nat
  BY DEF Stage
<1> DEFINE x == Compacted(b)
<1>2. x \in Seq(Rules) /\ ToSet(x) = ToSet(b) /\ InOrder(x)
  BY <1>1, CompactedIs
<1>3. Stage(x, c, d + Collapsed(b), A, n)
  BY StageCompacted
<1>4. x # <<>>
  <2>1. Len(b) \in Nat \ {0} /\ DOMAIN b = 1..Len(b)
    BY <1>1, EmptySeq, LenProperties
  <2>2. b[1] \in ToSet(b)
    BY <2>1 DEF ToSet
  <2>3. ToSet(<<>>) = {}
    BY DEF ToSet
  <2>4. QED  BY <1>2, <2>2, <2>3
<1> HIDE DEF x
<1> DEFINE R == A \ ToSet(x)
<1>5. Len(x) \in Nat /\ n = Len(x) + Total(c) + (d + Collapsed(b)) /\ Total(c) \in Nat
  BY <1>1, <1>2, <1>3, LenProperties, TotalType DEF Stage
<1>6. Stage(<<>>, c, d + Collapsed(b), Content(c, 1..Len(c)), n - Len(x))
  <2>1. <<>> \in Seq(Rules) /\ Len(<<>>) = 0 /\ ToSet(<<>>) = {}
    BY EmptySeq DEF ToSet
  <2>2. d + Collapsed(b) \in Int
    BY <1>3 DEF Stage
  <2>3. 0 + Total(c) + (d + Collapsed(b)) = n - Len(x)
    BY <1>5, <2>2
  <2>4. QED  BY <1>3, <2>1, <2>3 DEF Stage
<1>7. Stage(<<>>, Append(c, x), d + Collapsed(b),
            Content(c, 1..Len(c)) \cup ToSet(x), n - Len(x) + Len(x))
  BY <1>2, <1>4, <1>6, StageChunk
<1>8. A = Content(c, 1..Len(c)) \cup ToSet(x)
  BY <1>3 DEF Stage
<1>9. n - Len(x) + Len(x) = n
  <2>1. n \in Int
    BY <1>3, <1>5 DEF Stage
  <2>2. QED  BY <1>5, <2>1
<1>10. QED  BY <1>7, <1>8, <1>9 DEF x

\* A rule joins the batch.
LEMMA StageTaken ==
  ASSUME NEW b, NEW c, NEW d, NEW A, NEW n, Stage(b, c, d, A, n), NEW r \in Rules
  PROVE  Stage(Append(b, r), c, d, A \cup {r}, n + 1)
<1>1. b \in Seq(Rules) /\ c \in Seq(Seq(Rules)) /\ d \in Nat
  BY DEF Stage
<1>2. /\ Append(b, r) \in Seq(Rules) /\ Len(Append(b, r)) = Len(b) + 1
      /\ ToSet(Append(b, r)) = ToSet(b) \cup {r} /\ Len(b) \in Nat
  BY <1>1, Appended
<1>3. Len(b) + 1 + Total(c) + d = n + 1
  BY <1>1, <1>2, TotalType DEF Stage
<1>4. QED  BY <1>1, <1>2, <1>3 DEF Stage

\* A rule alone in a batch or a chunk.
LEMMA SingleIs ==
  ASSUME NEW r \in Rules
  PROVE  /\ <<r>> \in Seq(Rules) /\ Len(<<r>>) = 1 /\ ToSet(<<r>>) = {r}
         /\ InOrder(<<r>>) /\ <<r>> # <<>> /\ Append(<<>>, r) = <<r>>
<1>1. r \in Int
  BY SorterAssumption DEF Rules
<1>2. <<r>> \in Seq(Rules) /\ Len(<<r>>) = 1 /\ <<r>> # <<>> /\ Append(<<>>, r) = <<r>>
  OBVIOUS
<1>3. DOMAIN <<r>> = {1} /\ <<r>>[1] = r
  OBVIOUS
<1>4. ToSet(<<r>>) = {r}
  BY <1>3 DEF ToSet
<1>5. InOrder(<<r>>)
  BY <1>1, <1>3 DEF InOrder
<1>6. QED  BY <1>2, <1>4, <1>5

\* While rules are added, the files are the chunks, and all are still to be read.
LEMMA StageIs ==
  SorterInv /\ pc = "adding" => /\ Stage(batch, chunk, duplicates, Accepted, AcceptedSoFar)
                                /\ files = 1..Len(chunk) /\ Len(chunk) \in Nat
<1> SUFFICES ASSUME SorterInv, pc = "adding"
             PROVE  /\ Stage(batch, chunk, duplicates, Accepted, AcceptedSoFar)
                    /\ files = 1..Len(chunk) /\ Len(chunk) \in Nat
  OBVIOUS
<1>1. /\ batch \in Seq(Rules) /\ chunk \in Seq(Seq(Rules)) /\ duplicates \in Nat
      /\ files \subseteq 1..Len(chunk)
  BY DEF SorterInv, TypeOK
<1>2. Pending = 1..Len(chunk)
  BY DEF Pending
<1>3. files = 1..Len(chunk) /\ Len(chunk) \in Nat
  BY <1>1, <1>2, LenProperties DEF SorterInv, Filed, Ended
<1>4. Left = Sizes(chunk) /\ Written = 0
  BY <1>2 DEF Left, Sizes, Written, Merges
<1>5. Len(batch) + SumTo(Len(chunk), Left) + Written + duplicates = AcceptedSoFar
  BY DEF SorterInv, Counted, Ended
<1>6. Len(batch) + Total(chunk) + duplicates = AcceptedSoFar
  BY <1>1, <1>4, <1>5, LenProperties, TotalType DEF Total
<1>7. Accepted = ToSet(batch) \cup Content(chunk, 1..Len(chunk))
  BY <1>2 DEF SorterInv, Kept, Ended
<1>8. \A f \in 1..Len(chunk) : InOrder(chunk[f]) /\ chunk[f] # <<>>
  BY DEF SorterInv, Sorted, BatchFits
<1>9. QED  BY <1>1, <1>3, <1>6, <1>7, <1>8 DEF Stage

\* Conversely that and the size of the batch are all there is to the invariant.
LEMMA StageKept ==
  ASSUME SorterInv, pc = "adding", pc' = "adding", UNCHANGED <<mergeVars, output>>,
         Stage(batch', chunk', duplicates', Accepted', AcceptedSoFar'),
         files' = 1..Len(chunk'), Len(chunk') >= Len(chunk),
         added' \in [Rules -> Nat], bytes' \in Nat,
         batch' = <<>> => bytes' = 0,
         bytes' > ChunkBytes => Len(batch') = 1
  PROVE  SorterInv'
<1>1. /\ batch' \in Seq(Rules) /\ chunk' \in Seq(Seq(Rules)) /\ duplicates' \in Nat
      /\ Len(chunk') \in Nat
  BY LenProperties DEF Stage
<1>2. TypeOK'
  <2>1. /\ chunk \in Seq(Seq(Rules)) /\ list \in Seq(1..Len(chunk)) /\ next \in Seq(1..Len(chunk))
        /\ start \in Nat /\ pos \in Seq(Nat) /\ merged \in Seq(Rules)
        /\ output \in Seq(Rules \cup {0})
    BY DEF SorterInv, TypeOK
  <2>2. 1..Len(chunk) \subseteq 1..Len(chunk')
    BY <1>1, <2>1, LenProperties
  <2>3. list' \in Seq(1..Len(chunk')) /\ next' \in Seq(1..Len(chunk'))
    <3>1. list \in Seq(1..Len(chunk')) /\ next \in Seq(1..Len(chunk'))
      BY <2>1, <2>2, SeqMonotonic
    <3>2. QED  BY <3>1 DEF mergeVars
  <2>4. /\ start' \in Nat /\ pos' \in Seq(Nat) /\ merged' \in Seq(Rules)
        /\ output' \in Seq(Rules \cup {0})
    BY <2>1 DEF mergeVars
  <2>5. pc' \in Places
    BY DEF Places
  <2>6. QED  BY <1>1, <2>3, <2>4, <2>5 DEF TypeOK
<1>3. Pending' = 1..Len(chunk')
  BY DEF Pending
<1>4. (Left = Sizes(chunk))' /\ Written' = 0
  BY <1>3 DEF Left, Sizes, Written, Merges
<1>5. BatchFits'
  BY DEF BatchFits, Stage, Finishing, InRound
<1>6. Lists' /\ Heads'
  BY DEF Lists, Heads, Finishing, InRound, Merges
<1>7. Filed' /\ Sorted'
  BY <1>3 DEF Filed, Sorted, Stage, Ended
<1>8. Kept'
  BY <1>3 DEF Kept, Stage
<1>9. Counted'
  <2>1. Len(batch') + SumTo(Len(chunk'), Left') + duplicates' = AcceptedSoFar'
    BY <1>4 DEF Stage, Total
  <2>2. Len(batch') \in Nat /\ Total(chunk') \in Nat
    BY <1>1, LenProperties, TotalType
  <2>3. Len(batch') + SumTo(Len(chunk'), Left') + Written' + duplicates' = AcceptedSoFar'
    BY <1>1, <1>4, <2>1, <2>2 DEF Total
  <2>4. QED  BY <2>3 DEF Counted
<1>10. Endings'
  BY DEF Endings, OutputIsSortedSet, NoScratchLeft
<1>11. QED  BY <1>2, <1>5, <1>6, <1>7, <1>8, <1>9, <1>10 DEF SorterInv

\* The files after one chunk, and after two.
LEMMA FilesMore ==
  ASSUME NEW n \in Nat
  PROVE  /\ (1..n) \cup {n + 1} = 1..(n + 1)
         /\ (1..n) \cup {n + 1, n + 2} = 1..(n + 2)
OBVIOUS

\* A batch that is not empty is not so after its compaction.
LEMMA CompactedLone ==
  ASSUME NEW b \in Seq(Rules), b # <<>>
  PROVE  Compacted(b) # <<>> /\ (Len(b) = 1 => Len(Compacted(b)) = 1)
<1>1. Len(b) \in Nat \ {0} /\ DOMAIN b = 1..Len(b)
  BY EmptySeq, LenProperties
<1>2. /\ Compacted(b) \in Seq(Rules) /\ ToSet(Compacted(b)) = ToSet(b)
      /\ Collapsed(b) \in Nat /\ Len(Compacted(b)) + Collapsed(b) = Len(b)
  BY CompactedIs
<1>3. b[1] \in ToSet(b)
  BY <1>1 DEF ToSet
<1>4. ToSet(<<>>) = {}
  BY DEF ToSet
<1>5. Compacted(b) # <<>>
  BY <1>2, <1>3, <1>4
<1>6. Len(Compacted(b)) \in Nat \ {0}
  BY <1>2, <1>5, EmptySeq
<1>7. ASSUME Len(b) = 1 PROVE Len(Compacted(b)) = 1
  <2>1. Len(Compacted(b)) + Collapsed(b) = 1 /\ Collapsed(b) \in Nat
    BY <1>2, <1>7
  <2>2. \A m \in Nat, n \in Nat \ {0} : n + m = 1 => n = 1
    OBVIOUS
  <2>3. QED  BY <1>6, <2>1, <2>2, Zenon
<1>8. QED  BY <1>5, <1>7

\* What Add finds.
LEMMA AddFinds ==
  ASSUME SorterInv, Adding, NEW r \in Rules
  PROVE  /\ pc = "adding" /\ TypeOK
         /\ Stage(batch, chunk, duplicates, Accepted, AcceptedSoFar)
         /\ files = 1..Len(chunk) /\ Len(chunk) \in Nat
         /\ batch \in Seq(Rules) /\ chunk \in Seq(Seq(Rules))
         /\ bytes \in Nat /\ Bytes[r] \in Nat \ {0} /\ ChunkBytes \in Nat
         /\ added \in [Rules -> Nat]
         /\ batch = <<>> => bytes = 0
         /\ bytes > ChunkBytes => Len(batch) = 1
<1>1. pc = "adding" /\ TypeOK
  BY DEF SorterInv, Adding
<1>2. /\ batch \in Seq(Rules) /\ bytes \in Nat /\ chunk \in Seq(Seq(Rules))
      /\ added \in [Rules -> Nat]
  BY <1>1 DEF TypeOK
<1>3. (batch = <<>> => bytes = 0) /\ (bytes > ChunkBytes => Len(batch) = 1)
  BY <1>1 DEF SorterInv, BatchFits
<1>4. Bytes[r] \in Nat \ {0} /\ ChunkBytes \in Nat
  BY SorterAssumption
<1>5. QED  BY <1>1, <1>2, <1>3, <1>4, StageIs

\* The steps of Add.
LEMMA AddFitsKeeps ==
  ASSUME SorterInv, NEW r \in Rules, AddFits(r)
  PROVE  SorterInv'
<1>1. Adding /\ ~NoRoom(r) /\ ~Oversized(r) /\ Accept(r)
  BY DEF AddFits
<1>2. /\ batch' = Append(batch, r) /\ bytes' = bytes + Bytes[r]
      /\ duplicates' = duplicates /\ chunk' = chunk /\ files' = files /\ pc' = pc
      /\ UNCHANGED <<mergeVars, output>>
  BY DEF AddFits, fileVars
<1>3. /\ added' \in [Rules -> Nat] /\ Accepted' = Accepted \cup {r}
      /\ AcceptedSoFar' = AcceptedSoFar + 1
  BY <1>1, AddFinds, AcceptIs
<1>4. Stage(batch', chunk', duplicates', Accepted', AcceptedSoFar')
  <2>1. Stage(Append(batch, r), chunk, duplicates, Accepted \cup {r}, AcceptedSoFar + 1)
    BY <1>1, AddFinds, StageTaken
  <2>2. QED  BY <1>2, <1>3, <2>1
<1>5. Len(batch') = Len(batch) + 1 /\ Len(batch) \in Nat
  BY <1>1, <1>2, AddFinds, Appended
<1>6. batch' # <<>>
  BY <1>5
<1>7. bytes' \in Nat /\ bytes' <= ChunkBytes
  BY <1>1, <1>2, AddFinds DEF NoRoom, Oversized
<1>8. ChunkBytes \in Nat /\ Len(chunk) \in Nat /\ files' = 1..Len(chunk') /\ pc = "adding"
  BY <1>1, <1>2, AddFinds
<1>9. Len(chunk') >= Len(chunk)
  BY <1>2, <1>8
<1>10. ~(bytes' > ChunkBytes)
  BY <1>7, <1>8
<1>11. QED  BY <1>2, <1>3, <1>4, <1>6, <1>7, <1>8, <1>9, <1>10, StageKept

\* A full batch is flushed and the rule starts the next one.
LEMMA AddFlushesKeeps ==
  ASSUME SorterInv, NEW r \in Rules, AddFlushes(r)
  PROVE  SorterInv'
<1>1. Adding /\ NoRoom(r) /\ ~Oversized(r) /\ Accept(r)
  BY DEF AddFlushes
<1>2. /\ batch' = <<r>> /\ bytes' = Bytes[r] /\ duplicates' = duplicates + Collapsed(batch)
      /\ chunk' = Append(chunk, Compacted(batch)) /\ files' = files \cup {Len(chunk) + 1}
      /\ pc' = pc /\ UNCHANGED <<mergeVars, output>>
  BY DEF AddFlushes, Flushed
<1>3. /\ added' \in [Rules -> Nat] /\ Accepted' = Accepted \cup {r}
      /\ AcceptedSoFar' = AcceptedSoFar + 1
  BY <1>1, AddFinds, AcceptIs
<1>4. Stage(batch', chunk', duplicates', Accepted', AcceptedSoFar')
  <2>1. batch # <<>>
    BY <1>1 DEF NoRoom
  <2>2. Stage(<<>>, chunk', duplicates', Accepted, AcceptedSoFar)
    BY <1>1, <1>2, <2>1, AddFinds, StageFlushed
  <2>3. Stage(Append(<<>>, r), chunk', duplicates', Accepted \cup {r}, AcceptedSoFar + 1)
    BY <2>2, StageTaken
  <2>4. QED  BY <1>2, <1>3, <2>3, SingleIs
<1>5. batch' # <<>> /\ Len(batch') = 1
  BY <1>2, SingleIs
<1>6. pc = "adding" /\ bytes' \in Nat /\ Len(chunk) \in Nat
  BY <1>1, <1>2, AddFinds
<1>7. Len(chunk') = Len(chunk) + 1
  BY <1>1, <1>2, AddFinds, CompactedIs, ChunkAppended
<1>8. Len(chunk') >= Len(chunk) /\ files' = 1..Len(chunk')
  <2>1. files = 1..Len(chunk) /\ Len(chunk) \in Nat
    BY <1>1, AddFinds
  <2>2. QED  BY <1>2, <1>7, <2>1, FilesMore
<1>9. QED  BY <1>2, <1>3, <1>4, <1>5, <1>6, <1>8, StageKept

\* A failed flush leaves the batch sorted and compacted, and counts what it collapsed.
LEMMA AddRefusedKeeps ==
  ASSUME SorterInv, NEW r \in Rules, AddRefused(r)
  PROVE  SorterInv'
<1>1. Adding /\ NoRoom(r)
  BY DEF AddRefused
<1>2. /\ batch' = Compacted(batch) /\ bytes' = bytes /\ duplicates' = duplicates + Collapsed(batch)
      /\ chunk' = chunk /\ files' = files /\ pc' = pc /\ UNCHANGED <<mergeVars, output>>
      /\ added' = added
  BY DEF AddRefused, FlushFailed, fileVars
<1>3. Accepted' = Accepted /\ AcceptedSoFar' = AcceptedSoFar
  BY <1>2 DEF Accepted, AcceptedSoFar
<1>4. Stage(batch', chunk', duplicates', Accepted', AcceptedSoFar')
  <2>1. Stage(Compacted(batch), chunk, duplicates + Collapsed(batch), Accepted, AcceptedSoFar)
    BY <1>1, AddFinds, StageCompacted
  <2>2. QED  BY <1>2, <1>3, <2>1
<1>5. batch # <<>>
  BY <1>1 DEF NoRoom
<1>6. batch' # <<>> /\ (Len(batch) = 1 => Len(batch') = 1)
  BY <1>1, <1>2, <1>5, AddFinds, CompactedLone
<1>7. /\ pc = "adding" /\ bytes' \in Nat /\ Len(chunk) \in Nat /\ added' \in [Rules -> Nat]
      /\ files' = 1..Len(chunk')
  BY <1>1, <1>2, AddFinds
<1>8. bytes' > ChunkBytes => Len(batch') = 1
  BY <1>1, <1>2, <1>6, AddFinds
<1>9. Len(chunk') >= Len(chunk)
  BY <1>2, <1>7
<1>10. QED  BY <1>2, <1>4, <1>6, <1>7, <1>8, <1>9, StageKept

\* A long rule becomes a chunk of its own, after the batch.
LEMMA AddOversizedKeeps ==
  ASSUME SorterInv, NEW r \in Rules, AddOversized(r)
  PROVE  SorterInv'
<1>1. Adding /\ Accept(r)
  BY DEF AddOversized
<1>2. batch' = <<>> /\ bytes' = 0 /\ pc' = pc /\ UNCHANGED <<mergeVars, output>>
  BY DEF AddOversized, Flushed
<1>3. /\ added' \in [Rules -> Nat] /\ Accepted' = Accepted \cup {r}
      /\ AcceptedSoFar' = AcceptedSoFar + 1
  BY <1>1, AddFinds, AcceptIs
<1>4. /\ <<r>> \in Seq(Rules) /\ Len(<<r>>) = 1 /\ ToSet(<<r>>) = {r}
      /\ InOrder(<<r>>) /\ <<r>> # <<>> /\ Append(<<>>, r) = <<r>>
  BY SingleIs
<1>5. /\ Stage(batch', chunk', duplicates', Accepted', AcceptedSoFar')
      /\ Len(chunk') >= Len(chunk) /\ files' = 1..Len(chunk')
  <2>1. CASE batch = <<>>
    <3>1. /\ chunk' = Append(chunk, Compacted(<<r>>)) /\ files' = files \cup {Len(chunk) + 1}
          /\ duplicates' = duplicates + Collapsed(<<r>>)
      BY <2>1 DEF AddOversized, Flushed
    <3>2. Stage(<<r>>, chunk, duplicates, Accepted \cup {r}, AcceptedSoFar + 1)
      <4>1. Stage(Append(batch, r), chunk, duplicates, Accepted \cup {r}, AcceptedSoFar + 1)
        BY <1>1, AddFinds, StageTaken
      <4>2. QED  BY <1>4, <2>1, <4>1
    <3>3. Stage(<<>>, chunk', duplicates', Accepted', AcceptedSoFar')
      BY <1>3, <1>4, <3>1, <3>2, StageFlushed
    <3>4. Len(chunk') = Len(chunk) + 1
      BY <1>1, <1>4, <3>1, AddFinds, CompactedIs, ChunkAppended
    <3>5. Len(chunk') >= Len(chunk) /\ files' = 1..Len(chunk')
      <4>1. files = 1..Len(chunk) /\ Len(chunk) \in Nat
        BY <1>1, AddFinds
      <4>2. QED  BY <3>1, <3>4, <4>1, FilesMore
    <3>6. QED  BY <1>2, <3>3, <3>5
  <2>2. CASE batch # <<>>
    <3> DEFINE x == Compacted(batch)
    <3>1. /\ chunk' = chunk \o <<x, <<r>>>> /\ files' = files \cup {Len(chunk) + 1, Len(chunk) + 2}
          /\ duplicates' = duplicates + Collapsed(batch)
      BY <2>2 DEF AddOversized
    <3>2. /\ x \in Seq(Rules) /\ Len(Append(chunk, x)) = Len(chunk) + 1
          /\ Append(chunk, x) \in Seq(Seq(Rules))
      BY <1>1, AddFinds, CompactedIs, ChunkAppended
    <3>3. Stage(<<>>, Append(chunk, x), duplicates', Accepted, AcceptedSoFar)
      BY <1>1, <2>2, <3>1, AddFinds, StageFlushed
    <3>4. Stage(<<>>, Append(Append(chunk, x), <<r>>), duplicates',
                Accepted \cup {r}, AcceptedSoFar + 1)
      BY <1>4, <3>3, StageChunk
    <3> HIDE DEF x
    <3>5. Append(Append(chunk, x), <<r>>) = chunk'
      <4>1. /\ chunk \in Seq(Seq(Rules)) /\ x \in Seq(Rules) /\ <<r>> \in Seq(Rules)
            /\ chunk' = chunk \o <<x, <<r>>>>
        BY <1>1, <1>4, <3>1, <3>2, AddFinds
      <4>2. \A c \in Seq(Seq(Rules)), y, z \in Seq(Rules) : c \o <<y, z>> = Append(Append(c, y), z)
        OBVIOUS
      <4>3. QED  BY <4>1, <4>2
    <3>6. Len(chunk') = Len(chunk) + 1 + 1
      BY <1>4, <3>2, <3>5, ChunkAppended
    <3>7. Len(chunk') >= Len(chunk) /\ files' = 1..Len(chunk')
      <4>1. Len(chunk') = Len(chunk) + 2 /\ files = 1..Len(chunk) /\ Len(chunk) \in Nat
        BY <1>1, <3>6, AddFinds
      <4>2. (1..Len(chunk)) \cup {Len(chunk) + 1, Len(chunk) + 2} = 1..(Len(chunk) + 2)
        BY <4>1, FilesMore
      <4>3. files' = 1..(Len(chunk) + 2) /\ Len(chunk) + 2 >= Len(chunk)
        BY <3>1, <4>1, <4>2
      <4>4. QED  BY <4>1, <4>3
    <3>8. QED  BY <1>2, <1>3, <3>4, <3>5, <3>7
  <2>3. QED  BY <2>1, <2>2
<1>6. pc = "adding" /\ bytes' \in Nat /\ ~(bytes' > ChunkBytes)
  BY <1>1, <1>2, AddFinds
<1>7. QED  BY <1>2, <1>3, <1>5, <1>6, StageKept

\* The flush of a long rule fails: the rule stays as the batch.
LEMMA AddOversizedFailsKeeps ==
  ASSUME SorterInv, NEW r \in Rules, AddOversizedFails(r)
  PROVE  SorterInv'
<1>1. Adding /\ Accept(r)
  BY DEF AddOversizedFails
<1>2. batch' = <<r>> /\ bytes' = Bytes[r] /\ pc' = pc /\ UNCHANGED <<mergeVars, output>>
  BY DEF AddOversizedFails, Flushed
<1>3. /\ added' \in [Rules -> Nat] /\ Accepted' = Accepted \cup {r}
      /\ AcceptedSoFar' = AcceptedSoFar + 1
  BY <1>1, AddFinds, AcceptIs
<1>4. Len(<<r>>) = 1 /\ <<r>> # <<>> /\ Append(<<>>, r) = <<r>>
  BY SingleIs
<1>5. /\ Stage(<<>>, chunk', duplicates', Accepted, AcceptedSoFar)
      /\ Len(chunk') >= Len(chunk) /\ files' = 1..Len(chunk')
  <2>1. CASE batch = <<>>
    <3>1. chunk' = chunk /\ files' = files /\ duplicates' = duplicates
      BY <2>1 DEF AddOversizedFails, fileVars
    <3>2. QED  BY <1>1, <2>1, <3>1, AddFinds
  <2>2. CASE batch # <<>>
    <3>1. /\ chunk' = Append(chunk, Compacted(batch)) /\ files' = files \cup {Len(chunk) + 1}
          /\ duplicates' = duplicates + Collapsed(batch)
      BY <2>2 DEF AddOversizedFails, Flushed
    <3>2. Stage(<<>>, chunk', duplicates', Accepted, AcceptedSoFar)
      BY <1>1, <2>2, <3>1, AddFinds, StageFlushed
    <3>3. Len(chunk') = Len(chunk) + 1
      BY <1>1, <3>1, AddFinds, CompactedIs, ChunkAppended
    <3>4. Len(chunk') >= Len(chunk) /\ files' = 1..Len(chunk')
      <4>1. files = 1..Len(chunk) /\ Len(chunk) \in Nat
        BY <1>1, AddFinds
      <4>2. QED  BY <3>1, <3>3, <4>1, FilesMore
    <3>5. QED  BY <3>2, <3>4
  <2>3. QED  BY <2>1, <2>2
<1>6. Stage(batch', chunk', duplicates', Accepted', AcceptedSoFar')
  <2>1. Stage(Append(<<>>, r), chunk', duplicates', Accepted \cup {r}, AcceptedSoFar + 1)
    BY <1>5, StageTaken
  <2>2. QED  BY <1>2, <1>3, <1>4, <2>1
<1>7. pc = "adding" /\ bytes' \in Nat
  BY <1>1, <1>2, AddFinds
<1>8. QED  BY <1>2, <1>3, <1>4, <1>5, <1>6, <1>7, StageKept

-------------------------------------------------------------------------------
(* Finish                                                                  *)

\* Giving up.
LEMMA FailingKeeps ==
  ASSUME SorterInv, FinishFails, ~IOFaults => Accepted = {},
         UNCHANGED <<batch, bytes, duplicates, chunk, mergeVars, output, added>>
  PROVE  SorterInv'
<1>1. pc' = "failed" /\ files' = {}
  BY DEF FinishFails
<1>2. /\ batch' = batch /\ bytes' = bytes /\ duplicates' = duplicates /\ chunk' = chunk
      /\ list' = list /\ start' = start /\ next' = next /\ pos' = pos /\ merged' = merged
      /\ output' = output /\ added' = added
  BY DEF mergeVars
<1>3. TypeOK'
  <2>1. TypeOK
    BY DEF SorterInv
  <2>2. /\ batch' \in Seq(Rules) /\ bytes' \in Nat /\ duplicates' \in Nat
        /\ chunk' \in Seq(Seq(Rules)) /\ files' \subseteq 1..Len(chunk')
    BY <1>1, <1>2, <2>1 DEF TypeOK
  <2>3. /\ list' \in Seq(1..Len(chunk')) /\ next' \in Seq(1..Len(chunk'))
        /\ start' \in Nat /\ pos' \in Seq(Nat) /\ merged' \in Seq(Rules)
    BY <1>2, <2>1 DEF TypeOK
  <2>4. output' \in Seq(Rules \cup {0}) /\ added' \in [Rules -> Nat]
    BY <1>2, <2>1 DEF TypeOK
  <2>5. pc' \in Places
    BY <1>1 DEF Places
  <2>6. QED  BY <2>2, <2>3, <2>4, <2>5 DEF TypeOK
<1>4. BatchFits' /\ Lists' /\ Filed' /\ Heads' /\ Kept' /\ Counted'
  BY <1>1 DEF BatchFits, Lists, Filed, Heads, Kept, Counted, Ended, Finishing, InRound, Merges
<1>5. Sorted'
  BY <1>2 DEF SorterInv, Sorted
<1>6. Endings'
  <2>1. Accepted' = Accepted
    BY <1>2 DEF Accepted
  <2>2. QED  BY <1>1, <2>1 DEF Endings, OutputIsSortedSet, NoScratchLeft
<1>7. QED  BY <1>3, <1>4, <1>5, <1>6 DEF SorterInv

\* Without rules Finish fails.
LEMMA FinishEmptyKeeps ==
  ASSUME SorterInv, FinishEmpty
  PROVE  SorterInv'
<1>1. /\ pc = "adding" /\ batch = <<>> /\ chunk = <<>> /\ FinishFails
      /\ UNCHANGED <<batch, bytes, duplicates, chunk, mergeVars, output, added>>
  BY DEF FinishEmpty
<1>2. Accepted = {}
  <2>1. Accepted = ToSet(batch) \cup Content(chunk, 1..Len(chunk))
    BY <1>1, StageIs DEF Stage
  <2>2. ToSet(<<>>) = {} /\ 1..Len(<<>>) = {}
    BY DEF ToSet
  <2>3. QED  BY <1>1, <2>1, <2>2 DEF Content
<1>3. QED  BY <1>1, <1>2, FailingKeeps

\* The last flush, or the temporary output, fails.
LEMMA FinishRefusedKeeps ==
  ASSUME SorterInv, FinishRefused
  PROVE  SorterInv'
BY FailingKeeps DEF FinishRefused

\* A merge finds its files.
LEMMA ReadingExists ==
  SorterInv => (pc \in InRound \cup {"final"} => ToSet(Reading) \subseteq files)
<1> SUFFICES ASSUME SorterInv, pc \in InRound \cup {"final"}
             PROVE  ToSet(Reading) \subseteq files
  OBVIOUS
<1>1. TypeOK /\ Filed
  BY DEF SorterInv
<1>2. Pending \subseteq files
  BY <1>1 DEF Filed, Ended, InRound
<1>3. QED  BY <1>1, <1>2, ReadingIs

\* A merge fails: only without rules or after an I/O error.
LEMMA MergeFailsKeeps ==
  ASSUME SorterInv, MergeFails
  PROVE  SorterInv'
<1>1. /\ pc \in InRound \cup {"final"} /\ FinishFails
      /\ IOFaults \/ ~(ToSet(Reading) \subseteq files)
      /\ UNCHANGED <<batch, bytes, duplicates, chunk, mergeVars, output, added>>
  BY DEF MergeFails, InRound
<1>2. QED  BY <1>1, ReadingExists, FailingKeeps

\* The last batch is flushed, and all chunks are listed.
LEMMA FinishStartsKeeps ==
  ASSUME SorterInv, FinishStarts
  PROVE  SorterInv' /\ Accepted # {}
<1>1. /\ pc = "adding" /\ pc' = "round" /\ bytes' = 0 /\ chunk' # <<>>
      /\ list' = [i \in 1..Len(chunk') |-> i]
      /\ start' = start /\ next' = next /\ pos' = pos /\ merged' = merged
      /\ output' = output /\ added' = added
  BY DEF FinishStarts
<1>2. Accepted' = Accepted /\ AcceptedSoFar' = AcceptedSoFar
  BY <1>1 DEF Accepted, AcceptedSoFar
<1>3. /\ Stage(batch, chunk, duplicates, Accepted, AcceptedSoFar)
      /\ files = 1..Len(chunk) /\ Len(chunk) \in Nat
  BY <1>1, StageIs
<1>4. /\ Stage(<<>>, chunk', duplicates', Accepted', AcceptedSoFar')
      /\ batch' = <<>> /\ Len(chunk') >= Len(chunk) /\ files' = 1..Len(chunk')
  <2>1. CASE batch = <<>>
    <3>1. chunk' = chunk /\ files' = files /\ duplicates' = duplicates /\ batch' = batch
      BY <2>1 DEF FinishStarts, fileVars
    <3>2. QED  BY <1>2, <1>3, <2>1, <3>1
  <2>2. CASE batch # <<>>
    <3>1. /\ chunk' = Append(chunk, Compacted(batch)) /\ files' = files \cup {Len(chunk) + 1}
          /\ duplicates' = duplicates + Collapsed(batch) /\ batch' = <<>>
      BY <2>2 DEF FinishStarts, Flushed
    <3>2. Stage(<<>>, chunk', duplicates', Accepted, AcceptedSoFar)
      BY <1>3, <2>2, <3>1, StageFlushed
    <3>3. Len(chunk') = Len(chunk) + 1
      <4>1. batch \in Seq(Rules) /\ chunk \in Seq(Seq(Rules))
        BY <1>3 DEF Stage
      <4>2. QED  BY <3>1, <4>1, CompactedIs, ChunkAppended
    <3>4. Len(chunk') >= Len(chunk) /\ files' = 1..Len(chunk')
      BY <1>3, <3>1, <3>3, FilesMore
    <3>5. QED  BY <1>2, <3>1, <3>2, <3>4
  <2>3. QED  BY <2>1, <2>2
<1>5. /\ chunk' \in Seq(Seq(Rules)) /\ duplicates' \in Nat /\ Len(chunk') \in Nat
      /\ <<>> \in Seq(Rules) /\ Len(<<>>) = 0 /\ ToSet(<<>>) = {}
  BY <1>4, EmptySeq, LenProperties DEF Stage, ToSet
<1>6. /\ list' \in Seq(1..Len(chunk')) /\ Len(list') = Len(chunk')
      /\ DOMAIN list' = 1..Len(chunk') /\ \A i \in 1..Len(chunk') : list'[i] = i
  BY <1>1, <1>5
<1>7. Pending' = 1..Len(chunk')
  <2>1. Pending' = ToSet(list')
    BY <1>1 DEF Pending
  <2>2. QED  BY <1>6, <2>1 DEF ToSet
<1>8. (Left = Sizes(chunk))' /\ Written' = 0
  BY <1>1, <1>7 DEF Left, Sizes, Written, Merges
<1>9. TypeOK'
  <2>1. TypeOK
    BY DEF SorterInv
  <2>2. 1..Len(chunk) \subseteq 1..Len(chunk')
    BY <1>3, <1>4, <1>5
  <2>3. next' \in Seq(1..Len(chunk'))
    <3>1. next \in Seq(1..Len(chunk))
      BY <2>1 DEF TypeOK
    <3>2. QED  BY <1>1, <2>2, <3>1, SeqMonotonic
  <2>4. /\ start' \in Nat /\ pos' \in Seq(Nat) /\ merged' \in Seq(Rules)
        /\ output' \in Seq(Rules \cup {0}) /\ added' \in [Rules -> Nat]
    BY <1>1, <2>1 DEF TypeOK
  <2>5. batch' \in Seq(Rules) /\ bytes' \in Nat /\ files' \subseteq 1..Len(chunk')
    BY <1>1, <1>4, <1>5
  <2>6. pc' \in Places
    BY <1>1 DEF Places
  <2>7. QED  BY <1>5, <1>6, <2>3, <2>4, <2>5, <2>6 DEF TypeOK
<1>10. BatchFits'
  BY <1>1, <1>4 DEF BatchFits
<1>11. Lists' /\ Heads'
  BY <1>1, <1>5, <1>6 DEF Lists, Heads, Finishing, InRound, Merges, Increasing
<1>12. Filed' /\ Sorted'
  BY <1>4, <1>7 DEF Filed, Sorted, Stage
<1>13. Kept'
  BY <1>4, <1>7 DEF Kept, Stage
<1>14. Counted'
  <2>1. 0 + Total(chunk') + duplicates' = AcceptedSoFar'
    BY <1>4, <1>5 DEF Stage
  <2>2. Len(batch') + SumTo(Len(chunk'), Left') + Written' + duplicates' = AcceptedSoFar'
    BY <1>4, <1>5, <1>8, <2>1, TotalType DEF Total
  <2>3. QED  BY <2>2 DEF Counted
<1>15. Endings'
  BY <1>1 DEF Endings, OutputIsSortedSet, NoScratchLeft
<1>16. Accepted # {}
  <2>1. Len(chunk') \in Nat \ {0}
    BY <1>1, <1>5, EmptySeq
  <2>2. chunk'[1] # <<>> /\ chunk'[1] \in Seq(Rules) /\ 1 \in 1..Len(chunk')
    BY <1>4, <1>5, <2>1, ElementOfSeq DEF Stage
  <2>3. chunk'[1][1] \in ToSet(chunk'[1])
    <3>1. Len(chunk'[1]) \in Nat \ {0} /\ DOMAIN chunk'[1] = 1..Len(chunk'[1])
      BY <2>2, EmptySeq, LenProperties
    <3>2. QED  BY <3>1 DEF ToSet
  <2>4. chunk'[1][1] \in Content(chunk', 1..Len(chunk'))
    BY <2>2, <2>3 DEF Content
  <2>5. QED  BY <1>2, <1>4, <2>4 DEF Stage
<1>17. QED  BY <1>9, <1>10, <1>11, <1>12, <1>13, <1>14, <1>15, <1>16 DEF SorterInv

\* Within Finish, what a step changes of the merge is all there is to see to.
LEMMA MovedKeeps ==
  ASSUME SorterInv, pc \in Finishing, pc' \in Finishing,
         UNCHANGED <<batch, bytes, fileVars, output, added>>,
         list' \in Seq(1..Len(chunk)), next' \in Seq(1..Len(chunk)), start' \in Nat,
         pos' \in Seq(Nat), merged' \in Seq(Rules), duplicates' \in Nat,
         Pending' = Pending, Lists', Heads', Counted'
  PROVE  SorterInv'
<1>1. /\ batch' = batch /\ bytes' = bytes /\ chunk' = chunk /\ files' = files
      /\ output' = output /\ added' = added
  BY DEF fileVars
<1>2. TypeOK'
  <2>1. TypeOK
    BY DEF SorterInv
  <2>2. /\ batch' \in Seq(Rules) /\ bytes' \in Nat
        /\ chunk' \in Seq(Seq(Rules)) /\ files' \subseteq 1..Len(chunk')
    BY <1>1, <2>1 DEF TypeOK
  <2>3. output' \in Seq(Rules \cup {0}) /\ added' \in [Rules -> Nat]
    BY <1>1, <2>1 DEF TypeOK
  <2>4. pc' \in Places
    BY DEF Places, Finishing, InRound
  <2>5. list' \in Seq(1..Len(chunk')) /\ next' \in Seq(1..Len(chunk'))
    BY <1>1
  <2>6. QED  BY <2>2, <2>3, <2>4, <2>5 DEF TypeOK
<1>3. pc' # "adding" /\ pc' \notin Ended /\ pc \notin Ended
  BY DEF Finishing, InRound, Ended
<1>4. BatchFits'
  BY <1>1, <1>3 DEF BatchFits, SorterInv
<1>5. Filed'
  BY <1>1, <1>3 DEF Filed, SorterInv
<1>6. Sorted'
  BY <1>1 DEF Sorted, SorterInv
<1>7. Kept'
  <2>1. Accepted' = Accepted
    BY <1>1 DEF Accepted
  <2>2. Accepted = ToSet(batch) \cup Content(chunk, Pending)
    BY <1>3 DEF SorterInv, Kept
  <2>3. QED  BY <1>1, <2>1, <2>2 DEF Kept
<1>8. Endings'
  BY <1>3 DEF Endings, OutputIsSortedSet, NoScratchLeft, Ended
<1>9. QED  BY <1>2, <1>4, <1>5, <1>6, <1>7, <1>8 DEF SorterInv

\* What Finish finds.
LEMMA FinishFinds ==
  ASSUME SorterInv, pc \in Finishing
  PROVE  /\ TypeOK /\ Lists /\ Heads /\ batch = <<>>
         /\ list \in Seq(1..Len(chunk)) /\ next \in Seq(1..Len(chunk)) /\ start \in Nat
         /\ pos \in Seq(Nat) /\ merged \in Seq(Rules) /\ duplicates \in Nat
         /\ chunk \in Seq(Seq(Rules)) /\ Len(chunk) \in Nat
         /\ DOMAIN list = 1..Len(list) /\ Len(list) \in Nat
         /\ Increasing(list) /\ Pending \subseteq files /\ Pending \subseteq 1..Len(chunk)
         /\ Accepted = Content(chunk, Pending)
         /\ SumTo(Len(chunk), Left) + Written + duplicates = AcceptedSoFar
<1>1. TypeOK /\ Lists /\ Heads /\ batch = <<>> /\ Filed
  BY DEF SorterInv, BatchFits
<1>2. /\ list \in Seq(1..Len(chunk)) /\ next \in Seq(1..Len(chunk)) /\ start \in Nat
      /\ pos \in Seq(Nat) /\ merged \in Seq(Rules) /\ duplicates \in Nat
      /\ chunk \in Seq(Seq(Rules))
  BY <1>1 DEF TypeOK
<1>3. Len(chunk) \in Nat /\ DOMAIN list = 1..Len(list) /\ Len(list) \in Nat
  BY <1>2, LenProperties
<1>4. Increasing(list)
  BY <1>1 DEF Lists
<1>5. pc \notin Ended
  BY DEF Finishing, InRound, Ended
<1>6. Pending \subseteq files /\ Pending \subseteq 1..Len(chunk)
  BY <1>1, <1>5, PendingIs DEF Filed
<1>7. ToSet(<<>>) = {} /\ Len(<<>>) = 0
  BY DEF ToSet
<1>8. Accepted = Content(chunk, Pending)
  BY <1>1, <1>5, <1>7 DEF SorterInv, Kept
<1>9. SumTo(Len(chunk), Left) + Written + duplicates = AcceptedSoFar
  <2>1. 0 + SumTo(Len(chunk), Left) + Written + duplicates = AcceptedSoFar
    BY <1>1, <1>5, <1>7 DEF SorterInv, Counted
  <2>2. SumTo(Len(chunk), Left) \in Int
    BY <1>1, <1>3, LeftIs, SumType
  <2>3. QED  BY <2>1, <2>2
<1>10. QED  BY <1>1, <1>2, <1>3, <1>4, <1>6, <1>8, <1>9

\* The count does not change when the lines to be read do not.
LEMMA CountKept ==
  ASSUME SorterInv, pc \in Finishing, UNCHANGED <<batch, chunk, duplicates, added>>,
         Left' = Left, Written' = Written
  PROVE  Counted'
<1>1. Len(batch) + SumTo(Len(chunk), Left) + Written + duplicates = AcceptedSoFar
  BY DEF SorterInv, Counted, Finishing, InRound, Ended
<1>2. AcceptedSoFar' = AcceptedSoFar
  BY DEF AcceptedSoFar
<1>3. QED  BY <1>1, <1>2 DEF Counted

\* A round of merges starts at the head of the list.
LEMMA RoundStartsKeeps ==
  ASSUME SorterInv, RoundStarts
  PROVE  SorterInv'
<1>1. /\ pc = "round" /\ pc' = "group" /\ start' = 0 /\ next' = <<>>
      /\ UNCHANGED <<batch, bytes, duplicates, fileVars, list, pos, merged, output, added>>
  BY DEF RoundStarts
<1>2. pc \in Finishing /\ pc' \in Finishing
  BY <1>1 DEF Finishing, InRound
<1>3. /\ list \in Seq(1..Len(chunk)) /\ DOMAIN list = 1..Len(list) /\ Increasing(list)
      /\ pos \in Seq(Nat) /\ merged \in Seq(Rules) /\ duplicates \in Nat
  BY <1>2, FinishFinds
<1>4. chunk' = chunk
  BY <1>1 DEF fileVars
<1>5. Pending' = Pending
  <2>1. Pending = ToSet(list) /\ Pending' = ToSet(<<>>) \cup ToSet(SubSeq(list, 0 + 1, Len(list)))
    BY <1>1 DEF Pending
  <2>2. ToSet(SubSeq(list, 0 + 1, Len(list))) = {list[i] : i \in (0 + 1)..Len(list)}
    BY <1>3, RestIs
  <2>3. (0 + 1)..Len(list) = DOMAIN list /\ ToSet(<<>>) = {}
    BY <1>3 DEF ToSet
  <2>4. QED  BY <2>1, <2>2, <2>3 DEF ToSet
<1>6. Left' = Left /\ Written' = Written
  BY <1>1, <1>4, <1>5 DEF Left, Written, Merges
<1>7. Lists' /\ Heads'
  BY <1>1, <1>3 DEF Lists, Heads, Merges, Finishing, InRound, Increasing
<1>8. Counted'
  BY <1>1, <1>2, <1>4, <1>6, CountKept
<1>9. next' \in Seq(1..Len(chunk)) /\ start' \in Nat
  BY <1>1, EmptySeq
<1>10. /\ list' \in Seq(1..Len(chunk)) /\ pos' \in Seq(Nat) /\ merged' \in Seq(Rules)
       /\ duplicates' \in Nat
  BY <1>1, <1>3
<1>11. QED  BY <1>1, <1>2, <1>5, <1>7, <1>8, <1>9, <1>10, MovedKeeps

\* The chunks a round has written become the list.
LEMMA RoundEndsKeeps ==
  ASSUME SorterInv, RoundEnds
  PROVE  SorterInv'
<1>1. /\ pc = "group" /\ pc' = "round" /\ start >= Len(list) /\ list' = next
      /\ UNCHANGED <<batch, bytes, duplicates, fileVars, start, next, pos, merged, output, added>>
  BY DEF RoundEnds
<1>2. pc \in Finishing /\ pc' \in Finishing /\ pc \in InRound
  BY <1>1 DEF Finishing, InRound
<1>3. /\ TypeOK /\ Lists /\ next \in Seq(1..Len(chunk)) /\ start \in Nat
      /\ pos \in Seq(Nat) /\ merged \in Seq(Rules) /\ duplicates \in Nat /\ Len(list) \in Nat
  BY <1>2, FinishFinds
<1>4. chunk' = chunk
  BY <1>1 DEF fileVars
<1>5. Pending' = Pending
  <2>1. Pending = {next[i] : i \in DOMAIN next} \cup {list[i] : i \in (start + 1)..Len(list)}
    BY <1>2, <1>3, PendingIs
  <2>2. (start + 1)..Len(list) = {}
    BY <1>1, <1>3
  <2>3. Pending' = {next[i] : i \in DOMAIN next}
    BY <1>1 DEF Pending, ToSet
  <2>4. QED  BY <2>1, <2>2, <2>3
<1>6. Left' = Left /\ Written' = Written
  BY <1>1, <1>4, <1>5 DEF Left, Written, Merges
<1>7. Lists' /\ Heads'
  BY <1>1, <1>2, <1>3 DEF Lists, Heads, Merges, InRound
<1>8. Counted'
  BY <1>1, <1>2, <1>4, <1>6, CountKept
<1>9. /\ list' \in Seq(1..Len(chunk)) /\ next' \in Seq(1..Len(chunk)) /\ start' \in Nat
      /\ pos' \in Seq(Nat) /\ merged' \in Seq(Rules) /\ duplicates' \in Nat
  BY <1>1, <1>3
<1>10. QED  BY <1>1, <1>2, <1>5, <1>7, <1>8, <1>9, MovedKeeps

\* What a merge reads is a sequence of files.
LEMMA ReadingType ==
  list \in Seq(1..Len(chunk)) /\ start \in Nat =>
    /\ Reading \in Seq(1..Len(chunk)) /\ Len(Reading) \in Nat
    /\ DOMAIN Reading = 1..Len(Reading)
    /\ \A i \in DOMAIN Reading : Reading[i] \in 1..Len(chunk)
<1> SUFFICES ASSUME list \in Seq(1..Len(chunk)), start \in Nat
             PROVE  Reading \in Seq(1..Len(chunk))
  BY LenProperties, ElementOfSeq
<1>1. CASE pc = "final"
  BY <1>1 DEF Reading
<1>2. CASE pc # "final"
  <2> DEFINE m == Min({start + FanIn, Len(list)})
  <2>1. Reading = SubSeq(list, start + 1, m) /\ m \in Nat /\ m <= Len(list)
    BY <1>2, LenProperties, GroupEnd DEF Reading
  <2> HIDE DEF m
  <2>2. QED  BY <2>1, SliceIs
<1>3. QED  BY <1>1, <1>2

\* A merge starts with nothing read and nothing written.
LEMMA MergeStartsKeeps ==
  ASSUME SorterInv, pc \in Finishing, pc \notin Merges, NEW place \in Merges, StartMerge(place),
         UNCHANGED <<list, start, batch, bytes, duplicates, fileVars, next, output, added>>,
         Pending' = Pending, Lists'
  PROVE  SorterInv'
<1>1. /\ pc' = place /\ pos' = [i \in 1..Len(Reading') |-> 0] /\ merged' = <<>>
      /\ pc' \in Finishing /\ pc' \in Merges
  BY DEF StartMerge, Finishing, Merges, InRound
<1>2. /\ list \in Seq(1..Len(chunk)) /\ next \in Seq(1..Len(chunk)) /\ start \in Nat
      /\ duplicates \in Nat /\ chunk \in Seq(Seq(Rules))
  BY FinishFinds
<1>3. /\ list' \in Seq(1..Len(chunk)) /\ next' \in Seq(1..Len(chunk)) /\ start' \in Nat
      /\ duplicates' \in Nat /\ chunk' = chunk
  BY <1>2 DEF fileVars
<1>4. /\ Len(Reading') \in Nat /\ DOMAIN Reading' = 1..Len(Reading')
      /\ \A i \in DOMAIN Reading' : Reading'[i] \in 1..Len(chunk')
  <2>1. (list \in Seq(1..Len(chunk)) /\ start \in Nat =>
          /\ Reading \in Seq(1..Len(chunk)) /\ Len(Reading) \in Nat
          /\ DOMAIN Reading = 1..Len(Reading)
          /\ \A i \in DOMAIN Reading : Reading[i] \in 1..Len(chunk))'
    BY ReadingType, PTL
  <2>2. QED  BY <1>3, <2>1
<1>5. /\ pos' \in Seq(Nat) /\ DOMAIN pos' = 1..Len(Reading') /\ Len(pos') = Len(Reading')
      /\ \A i \in 1..Len(Reading') : pos'[i] = 0
  BY <1>1, <1>4
<1>6. \A f \in 1..Len(chunk) : Len(chunk[f]) \in Nat
  <2>1. \A f \in 1..Len(chunk) : chunk[f] \in Seq(Rules)
    BY <1>2, ElementOfSeq
  <2>2. QED  BY <2>1, LenProperties
<1>7. merged' \in Seq(Rules) /\ Len(merged') = 0 /\ DOMAIN merged' = {}
  BY <1>1
<1>8. Heads'
  <2>1. \A i \in DOMAIN pos' : pos'[i] <= Len(chunk'[Reading'[i]])
    BY <1>3, <1>4, <1>5, <1>6
  <2>2. InOrder(merged') /\ Increasing(merged')
    BY <1>7 DEF InOrder, Increasing
  <2>3. \A i \in DOMAIN pos' : 1..pos'[i] = {}
    BY <1>5
  <2>4. QED  BY <1>5, <1>7, <2>1, <2>2, <2>3 DEF Heads
<1>9. Left' = Left
  <2>1. ASSUME NEW f \in 1..Len(chunk') PROVE Left'[f] = Left[f]
    <3>1. f \in 1..Len(chunk) /\ Left[f] = IF f \notin Pending THEN 0 ELSE Len(chunk[f])
      BY <1>3, <2>1 DEF Left
    <3>2. CASE f \in ToSet(Reading')
      <4>1. At(f)' \in DOMAIN Reading'
        <5>1. \E i \in DOMAIN Reading' : Reading'[i] = f
          BY <3>2 DEF ToSet
        <5>2. QED  BY <5>1 DEF At
      <4>2. pos'[At(f)'] = 0
        BY <1>4, <1>5, <4>1
      <4>3. Left'[f] = IF f \notin Pending THEN 0 ELSE Len(chunk[f]) - pos'[At(f)']
        BY <1>1, <1>3, <2>1, <3>2 DEF Left
      <4>4. Len(chunk[f]) - 0 = Len(chunk[f])
        BY <1>6, <3>1
      <4>5. QED  BY <3>1, <4>2, <4>3, <4>4
    <3>3. CASE f \notin ToSet(Reading')
      <4>1. Left'[f] = IF f \notin Pending THEN 0 ELSE Len(chunk[f])
        BY <1>3, <2>1, <3>3 DEF Left
      <4>2. QED  BY <3>1, <4>1
    <3>4. QED  BY <3>2, <3>3
  <2>2. /\ Left = [f \in 1..Len(chunk) |-> Left[f]]
        /\ Left' = [f \in 1..Len(chunk') |-> Left'[f]]
    BY DEF Left
  <2>3. QED  BY <1>3, <2>1, <2>2
<1>10. Written' = Written
  BY <1>1, <1>7 DEF Written
<1>11. Counted'
  BY <1>3, <1>9, <1>10, CountKept
<1>12. QED  BY <1>1, <1>3, <1>5, <1>7, <1>8, <1>11, MovedKeeps

\* The merge of a group has read nothing yet.
LEMMA GroupStartsKeeps ==
  ASSUME SorterInv, GroupStarts
  PROVE  SorterInv'
<1>1. /\ pc = "group" /\ start < Len(list) /\ StartMerge("merge") /\ pc' = "merge"
      /\ UNCHANGED <<list, start, batch, bytes, duplicates, fileVars, next, output, added>>
  BY DEF GroupStarts, StartMerge
<1>2. pc \in Finishing /\ pc \notin Merges /\ "merge" \in Merges /\ pc \in InRound
  BY <1>1 DEF Finishing, Merges, InRound
<1>3. Pending' = Pending
  BY <1>1 DEF Pending
<1>4. Lists'
  <2>1. Lists
    BY DEF SorterInv
  <2>2. QED  BY <1>1, <1>2, <2>1 DEF Lists, Finishing, InRound
<1>5. QED  BY <1>1, <1>2, <1>3, <1>4, MergeStartsKeeps

\* Neither has the final merge.
LEMMA FinalStartsKeeps ==
  ASSUME SorterInv, FinalStarts
  PROVE  SorterInv'
<1>1. /\ pc = "round" /\ StartMerge("final") /\ pc' = "final"
      /\ UNCHANGED <<list, start, batch, bytes, duplicates, fileVars, next, output, added>>
  BY DEF FinalStarts, StartMerge
<1>2. pc \in Finishing /\ pc \notin Merges /\ "final" \in Merges
  BY <1>1 DEF Finishing, Merges, InRound
<1>3. Pending' = Pending
  BY <1>1 DEF Pending
<1>4. Lists'
  <2>1. Lists
    BY DEF SorterInv
  <2>2. QED  BY <1>1, <1>2, <2>1 DEF Lists, Finishing, InRound
<1>5. QED  BY <1>1, <1>2, <1>3, <1>4, MergeStartsKeeps

\* What a merge finds.
LEMMA MergeFinds ==
  ASSUME SorterInv, pc \in Merges
  PROVE  /\ pc \in Finishing
         /\ Len(Reading) \in Nat /\ DOMAIN Reading = 1..Len(Reading)
         /\ DOMAIN pos = 1..Len(Reading) /\ Len(pos) = Len(Reading)
         /\ \A j \in 1..Len(Reading) :
              /\ Reading[j] \in 1..Len(chunk) /\ pos[j] \in Nat
              /\ Len(chunk[Reading[j]]) \in Nat /\ pos[j] <= Len(chunk[Reading[j]])
              /\ InOrder(chunk[Reading[j]])
              /\ DOMAIN chunk[Reading[j]] = 1..Len(chunk[Reading[j]])
              /\ \A l \in 1..Len(chunk[Reading[j]]) : chunk[Reading[j]][l] \in Int
         /\ \A j, k \in 1..Len(Reading) : Reading[j] = Reading[k] => j = k
         /\ \A j \in Unread : /\ j \in 1..Len(Reading)
                              /\ pos[j] + 1 \in 1..Len(chunk[Reading[j]])
                              /\ NextLine(j) \in Rules
         /\ Len(merged) \in Nat /\ DOMAIN merged = 1..Len(merged)
         /\ \A k \in 1..Len(merged) : merged[k] \in Int
         /\ Rules \subseteq Int
<1>1. pc \in Finishing
  BY DEF Merges, Finishing, InRound
<1>2. /\ TypeOK /\ Lists /\ Heads /\ pos \in Seq(Nat) /\ merged \in Seq(Rules)
      /\ chunk \in Seq(Seq(Rules))
  BY <1>1, FinishFinds
<1>3. Rules \subseteq Int
  BY SorterAssumption DEF Rules
<1>4. /\ Reading \in Seq(1..Len(chunk)) /\ Len(Reading) \in Nat
      /\ DOMAIN Reading = 1..Len(Reading) /\ \A j \in DOMAIN Reading : At(Reading[j]) = j
  BY <1>2, ReadingIs
<1>5. \A j \in 1..Len(Reading) : Reading[j] \in 1..Len(chunk)
  BY <1>4, ElementOfSeq
<1>6. /\ Len(pos) = Len(Reading) /\ DOMAIN pos = 1..Len(Reading)
      /\ \A j \in 1..Len(Reading) : pos[j] \in Nat
  <2>1. Len(pos) = Len(Reading)
    BY <1>2 DEF Heads
  <2>2. DOMAIN pos = 1..Len(pos) /\ \A j \in 1..Len(pos) : pos[j] \in Nat
    BY <1>2, LenProperties, ElementOfSeq
  <2>3. QED  BY <2>1, <2>2
<1>7. \A f \in 1..Len(chunk) : /\ Len(chunk[f]) \in Nat /\ InOrder(chunk[f])
                               /\ DOMAIN chunk[f] = 1..Len(chunk[f])
                               /\ \A l \in 1..Len(chunk[f]) : chunk[f][l] \in Rules
  <2>1. \A f \in 1..Len(chunk) : chunk[f] \in Seq(Rules)
    BY <1>2, ElementOfSeq
  <2>2. \A f \in 1..Len(chunk) : InOrder(chunk[f])
    BY DEF SorterInv, Sorted
  <2>3. QED  BY <2>1, <2>2, LenProperties, ElementOfSeq
<1>8. ASSUME NEW j \in 1..Len(Reading)
      PROVE  /\ Reading[j] \in 1..Len(chunk) /\ pos[j] \in Nat
             /\ Len(chunk[Reading[j]]) \in Nat /\ pos[j] <= Len(chunk[Reading[j]])
             /\ InOrder(chunk[Reading[j]])
             /\ DOMAIN chunk[Reading[j]] = 1..Len(chunk[Reading[j]])
             /\ \A l \in 1..Len(chunk[Reading[j]]) : chunk[Reading[j]][l] \in Rules
  <2>1. pos[j] <= Len(chunk[Reading[j]])
    BY <1>2, <1>6 DEF Heads
  <2>2. QED  BY <1>5, <1>6, <1>7, <2>1
<1>9. ASSUME NEW j \in Unread
      PROVE  /\ j \in 1..Len(Reading)
             /\ pos[j] + 1 \in 1..Len(chunk[Reading[j]])
             /\ NextLine(j) \in Rules
  <2>1. j \in 1..Len(Reading) /\ pos[j] < Len(chunk[Reading[j]])
    BY <1>6 DEF Unread
  <2>2. pos[j] + 1 \in 1..Len(chunk[Reading[j]])
    BY <1>8, <2>1
  <2>3. QED  BY <1>8, <2>1, <2>2 DEF NextLine
<1>10. /\ Len(merged) \in Nat /\ DOMAIN merged = 1..Len(merged)
       /\ \A k \in 1..Len(merged) : merged[k] \in Rules
  BY <1>2, LenProperties, ElementOfSeq
<1>11. \A j, k \in 1..Len(Reading) : Reading[j] = Reading[k] => j = k
  BY <1>4
<1>12. \A j \in 1..Len(Reading) : \A l \in 1..Len(chunk[Reading[j]]) : chunk[Reading[j]][l] \in Int
  BY <1>3, <1>8
<1>13. \A k \in 1..Len(merged) : merged[k] \in Int
  BY <1>3, <1>10
<1>14. QED  BY <1>1, <1>3, <1>4, <1>6, <1>8, <1>9, <1>10, <1>11, <1>12, <1>13

\* What a merge writes when it takes a line: the line comes last, and is a
\* duplicate when it is there already.
LEMMA LineWritten ==
  ASSUME SorterInv, NEW i, MergeLine(i)
  PROVE  /\ merged' \in Seq(Rules) /\ duplicates' \in Nat
         /\ \A k \in DOMAIN merged : k \in DOMAIN merged' /\ merged'[k] = merged[k]
         /\ \A k \in DOMAIN merged' : k \in DOMAIN merged \/ merged'[k] = NextLine(i)
         /\ \E k \in DOMAIN merged' : merged'[k] = NextLine(i)
         /\ InOrder(merged') /\ (pc = "final" => Increasing(merged'))
         /\ Len(merged') \in Nat
         /\ Len(merged') + duplicates' = Len(merged) + duplicates + 1
<1> DEFINE x == NextLine(i)
<1>1. pc \in Merges /\ i \in Unread
  BY DEF MergeLine, Merging, Merges
<1>2. /\ x \in Rules /\ x \in Int /\ Rules \subseteq Int /\ Len(merged) \in Nat
      /\ DOMAIN merged = 1..Len(merged) /\ \A k \in 1..Len(merged) : merged[k] \in Int
  BY <1>1, MergeFinds
<1>3. merged \in Seq(Rules) /\ duplicates \in Nat /\ Heads
  BY <1>1, MergeFinds, FinishFinds
<1>4. /\ InOrder(merged) /\ (pc = "final" => Increasing(merged))
      /\ \A k \in 1..Len(merged) : merged[k] <= x
  BY <1>1, <1>2, <1>3 DEF Heads
<1>5. CASE pc = "final" /\ merged # <<>> /\ Last(merged) = x
  <2>1. merged' = merged /\ duplicates' = duplicates + 1
    BY <1>5 DEF MergeLine
  <2>2. Len(merged) \in DOMAIN merged /\ merged[Len(merged)] = x
    <3>1. Len(merged) \in Nat \ {0}
      BY <1>3, <1>5, EmptySeq
    <3>2. QED  BY <1>2, <1>5, <3>1 DEF Last
  <2>3. QED  BY <1>2, <1>3, <1>4, <2>1, <2>2
<1>6. CASE ~(pc = "final" /\ merged # <<>> /\ Last(merged) = x)
  <2>1. merged' = Append(merged, x) /\ duplicates' = duplicates
    BY <1>6 DEF MergeLine
  <2> HIDE DEF x
  <2>2. /\ merged' \in Seq(Rules) /\ Len(merged') = Len(merged) + 1
        /\ DOMAIN merged' = 1..(Len(merged) + 1)
        /\ \A k \in 1..Len(merged) : merged'[k] = merged[k]
        /\ merged'[Len(merged) + 1] = x
    BY <1>2, <1>3, <2>1, Appended
  <2>3. InOrder(merged')
    <3>1. ASSUME NEW k \in 1..(Len(merged) + 1), NEW l \in 1..(Len(merged) + 1), k < l
          PROVE  merged'[k] <= merged'[l]
      <4>1. k \in 1..Len(merged)
        BY <1>2, <3>1
      <4>2. CASE l = Len(merged) + 1
        BY <1>4, <2>2, <4>1, <4>2
      <4>3. CASE l # Len(merged) + 1
        <5>1. l \in 1..Len(merged)
          BY <1>2, <4>3
        <5>2. merged[k] <= merged[l]
          BY <1>2, <1>4, <3>1, <4>1, <5>1 DEF InOrder
        <5>3. QED  BY <2>2, <4>1, <5>1, <5>2
      <4>4. QED  BY <4>2, <4>3
    <3>2. QED  BY <2>2, <3>1 DEF InOrder
  <2>4. ASSUME pc = "final" PROVE Increasing(merged')
    <3>1. ASSUME NEW k \in 1..(Len(merged) + 1), NEW l \in 1..(Len(merged) + 1), k < l
          PROVE  merged'[k] < merged'[l]
      <4>1. k \in 1..Len(merged)
        BY <1>2, <3>1
      <4>2. CASE l = Len(merged) + 1
        <5>1. Len(merged) \in 1..Len(merged) /\ merged # <<>>
          BY <1>2, <4>1
        <5>2. merged[Len(merged)] # x
          BY <1>6, <2>4, <5>1 DEF Last
        <5>3. merged[Len(merged)] < x
          BY <1>2, <1>4, <5>1, <5>2
        <5>4. merged[k] <= merged[Len(merged)]
          <6>1. CASE k = Len(merged)
            BY <1>2, <5>1, <6>1
          <6>2. CASE k # Len(merged)
            <7>1. k < Len(merged)
              <8>1. Len(merged) \in Nat
                BY <1>2
              <8>2. QED  BY <4>1, <6>2, <8>1
            <7>2. QED  BY <1>2, <1>4, <4>1, <5>1, <7>1 DEF InOrder
          <6>3. QED  BY <6>1, <6>2
        <5>5. merged[k] \in Int /\ merged[Len(merged)] \in Int
          BY <1>2, <4>1, <5>1
        <5>6. merged[k] < x
          BY <1>2, <5>3, <5>4, <5>5
        <5>7. QED  BY <2>2, <4>1, <4>2, <5>6
      <4>3. CASE l # Len(merged) + 1
        <5>1. l \in 1..Len(merged)
          BY <1>2, <4>3
        <5>2. merged[k] < merged[l]
          BY <1>2, <1>4, <2>4, <3>1, <4>1, <5>1 DEF Increasing
        <5>3. QED  BY <2>2, <4>1, <5>1, <5>2
      <4>4. QED  BY <4>2, <4>3
    <3>2. QED  BY <2>2, <3>1 DEF Increasing
  <2>5. Len(merged') + duplicates' = Len(merged) + duplicates + 1 /\ Len(merged') \in Nat
    BY <1>2, <1>3, <2>1, <2>2
  <2>6. \A k \in DOMAIN merged : k \in DOMAIN merged' /\ merged'[k] = merged[k]
    BY <1>2, <2>2
  <2>7. Len(merged) + 1 \in DOMAIN merged'
    BY <1>2, <2>2
  <2>8. \A k \in DOMAIN merged' : k \in DOMAIN merged \/ merged'[k] = x
    BY <1>2, <2>2
  <2>9. \E k \in DOMAIN merged' : merged'[k] = x
    BY <2>2, <2>7
  <2>10. duplicates' \in Nat
    BY <1>3, <2>1
  <2>11. QED  BY <2>2, <2>3, <2>4, <2>5, <2>6, <2>8, <2>9, <2>10 DEF x
<1>7. QED  BY <1>5, <1>6

\* The file has a line less to be read.
LEMMA LineLeft ==
  ASSUME SorterInv, NEW i, MergeLine(i)
  PROVE  SumTo(Len(chunk), Left') = SumTo(Len(chunk), Left) - 1
         /\ SumTo(Len(chunk), Left) \in Nat
<1>1. pc \in Merges /\ i \in Unread /\ pc' = pc /\ list' = list /\ start' = start /\ next' = next
      /\ chunk' = chunk /\ pos' = [pos EXCEPT ![i] = pos[i] + 1]
  BY DEF MergeLine, Merging, Merges, fileVars
<1>2. PICK f \in 1..Len(chunk) :
        /\ f = Reading[i] /\ i \in 1..Len(Reading) /\ pos[i] \in Nat
        /\ Len(chunk[f]) \in Nat /\ DOMAIN pos = 1..Len(Reading)
        /\ DOMAIN Reading = 1..Len(Reading)
  BY <1>1, MergeFinds
<1>3. /\ TypeOK /\ Lists /\ Heads /\ Len(chunk) \in Nat
  BY <1>1, MergeFinds, FinishFinds
<1>4. Reading' = Reading /\ Pending' = Pending
  BY <1>1 DEF Reading, Pending
<1>5. \A g : At(g)' = At(g)
  BY <1>4 DEF At
<1>6. f \in ToSet(Reading) /\ f \in Pending /\ At(f) = i
  <2>1. f \in ToSet(Reading)
    BY <1>2 DEF ToSet
  <2>2. pc \in InRound \cup {"final"}
    BY <1>1 DEF InRound, Merges
  <2>3. QED  BY <1>1, <1>2, <1>3, <2>1, <2>2, ReadingIs
<1>7. Left[f] = Len(chunk[f]) - pos[i]
  BY <1>1, <1>2, <1>6 DEF Left
<1>8. Left'[f] = Len(chunk[f]) - (pos[i] + 1)
  <2>1. pos'[i] = pos[i] + 1
    BY <1>1, <1>2
  <2>2. f \in 1..Len(chunk') /\ f \in Pending' /\ pc' \in Merges /\ f \in ToSet(Reading')
    BY <1>1, <1>2, <1>4, <1>6
  <2>3. Left'[f] = Len(chunk'[f]) - pos'[At(f)']
    BY <2>2 DEF Left
  <2>4. At(f)' = i
    BY <1>5, <1>6
  <2>5. QED  BY <1>1, <2>1, <2>3, <2>4
<1>9. ASSUME NEW g \in 1..Len(chunk), g # f PROVE Left'[g] = Left[g]
  <2>1. CASE g \in Pending /\ g \in ToSet(Reading)
    <3>1. At(g) \in DOMAIN Reading /\ Reading[At(g)] = g
      <4>1. \E j \in DOMAIN Reading : Reading[j] = g
        BY <2>1 DEF ToSet
      <4>2. QED  BY <4>1 DEF At
    <3>2. At(g) # i
      BY <1>2, <1>9, <3>1
    <3>3. pos'[At(g)] = pos[At(g)]
      BY <1>1, <1>2, <3>1, <3>2
    <3>4. Left[g] = Len(chunk[g]) - pos[At(g)]
      BY <1>1, <2>1 DEF Left
    <3>5. Left'[g] = Len(chunk'[g]) - pos'[At(g)']
      BY <1>1, <1>4, <2>1 DEF Left
    <3>6. QED  BY <1>1, <1>5, <3>3, <3>4, <3>5
  <2>2. CASE ~(g \in Pending /\ g \in ToSet(Reading))
    BY <1>1, <1>4, <2>2 DEF Left
  <2>3. QED  BY <2>1, <2>2
<1>10. /\ Left \in [1..Len(chunk) -> Nat] /\ Left \in [1..Len(chunk) -> Int]
  BY <1>3, LeftIs
<1>11. Left[f] \in Nat /\ Left'[f] = Left[f] - 1 /\ Left[f] - 1 \in Int
  BY <1>2, <1>7, <1>8, <1>10
<1>12. Left' = [Left EXCEPT ![f] = Left[f] - 1]
  <2>1. Left' = [g \in 1..Len(chunk) |-> Left'[g]]
    BY <1>1 DEF Left
  <2> DEFINE L == Left'
  <2>2. /\ L = [g \in 1..Len(chunk) |-> L[g]] /\ L[f] = Left[f] - 1
        /\ \A g \in 1..Len(chunk) : g # f => L[g] = Left[g]
    BY <1>9, <1>11, <2>1
  <2> HIDE DEF L
  <2>3. L = [Left EXCEPT ![f] = Left[f] - 1]
    BY <1>10, <2>2
  <2>4. QED  BY <2>3 DEF L
<1>13. SumTo(Len(chunk), [Left EXCEPT ![f] = Left[f] - 1])
         = SumTo(Len(chunk), Left) - Left[f] + (Left[f] - 1)
  BY <1>2, <1>3, <1>10, <1>11, SumUpdate
<1>14. SumTo(Len(chunk), Left) \in Nat
  BY <1>3, <1>10, SumType
<1>15. QED  BY <1>11, <1>12, <1>13, <1>14

\* The least next line goes to the merged file, or is counted as a duplicate.
LEMMA MergeLineKeeps ==
  ASSUME SorterInv, NEW i, MergeLine(i)
  PROVE  SorterInv'
<1>1. /\ pc \in Merges /\ i \in Unread /\ pc' = pc /\ list' = list /\ start' = start /\ next' = next
      /\ chunk' = chunk /\ batch' = batch /\ output' = output /\ added' = added
      /\ UNCHANGED <<batch, bytes, fileVars, output, added>>
      /\ pos' = [pos EXCEPT ![i] = pos[i] + 1]
      /\ \A j \in Unread : NextLine(i) <= NextLine(j)
  BY DEF MergeLine, Merging, Merges, fileVars
<1>2. /\ pc \in Finishing /\ pc' \in Finishing
      /\ Len(Reading) \in Nat /\ DOMAIN Reading = 1..Len(Reading)
      /\ DOMAIN pos = 1..Len(Reading) /\ Len(pos) = Len(Reading)
      /\ \A j \in 1..Len(Reading) :
           /\ pos[j] \in Nat /\ Len(chunk[Reading[j]]) \in Nat /\ pos[j] <= Len(chunk[Reading[j]])
           /\ InOrder(chunk[Reading[j]])
           /\ DOMAIN chunk[Reading[j]] = 1..Len(chunk[Reading[j]])
           /\ \A l \in 1..Len(chunk[Reading[j]]) : chunk[Reading[j]][l] \in Int
      /\ i \in 1..Len(Reading) /\ pos[i] + 1 \in 1..Len(chunk[Reading[i]])
      /\ NextLine(i) \in Int
      /\ \A j \in Unread : NextLine(j) \in Int
      /\ \A k \in DOMAIN merged : merged[k] \in Int
  BY <1>1, MergeFinds
<1>3. /\ TypeOK /\ Lists /\ Heads /\ pos \in Seq(Nat) /\ duplicates \in Nat
      /\ list \in Seq(1..Len(chunk)) /\ next \in Seq(1..Len(chunk)) /\ start \in Nat
  BY <1>2, FinishFinds
<1>4. Reading' = Reading /\ Pending' = Pending
  BY <1>1 DEF Reading, Pending
<1>5. /\ pos' \in Seq(Nat) /\ Len(pos') = Len(pos) /\ DOMAIN pos' = 1..Len(Reading)
      /\ pos'[i] = pos[i] + 1 /\ \A j \in 1..Len(Reading) : j # i => pos'[j] = pos[j]
  <2>1. pos[i] + 1 \in Nat
    BY <1>2
  <2>2. pos' \in Seq(Nat) /\ Len(pos') = Len(pos)
    BY <1>1, <1>2, <1>3, <2>1, ExceptSeq
  <2>3. DOMAIN pos' = 1..Len(Reading)
    BY <1>2, <2>2, LenProperties
  <2>4. pos'[i] = pos[i] + 1 /\ \A j \in 1..Len(Reading) : j # i => pos'[j] = pos[j]
    BY <1>1, <1>2
  <2>5. QED  BY <2>2, <2>3, <2>4
<1>6. /\ merged' \in Seq(Rules) /\ duplicates' \in Nat
      /\ \A k \in DOMAIN merged : k \in DOMAIN merged' /\ merged'[k] = merged[k]
      /\ \A k \in DOMAIN merged' : k \in DOMAIN merged \/ merged'[k] = NextLine(i)
      /\ \E k \in DOMAIN merged' : merged'[k] = NextLine(i)
      /\ InOrder(merged') /\ (pc = "final" => Increasing(merged'))
      /\ Len(merged') \in Nat
      /\ Len(merged') + duplicates' = Len(merged) + duplicates + 1
  BY LineWritten
<1>7. \A j \in 1..Len(Reading) : pos'[j] \in Nat /\ pos'[j] <= Len(chunk[Reading[j]])
  <2>1. pos[i] + 1 \in Nat /\ pos[i] + 1 <= Len(chunk[Reading[i]])
    BY <1>2
  <2>2. QED  BY <1>2, <1>5, <2>1
<1>8. NextLine(i) = chunk[Reading[i]][pos'[i]]
  BY <1>5 DEF NextLine
<1>9. ASSUME NEW j \in Unread'
      PROVE  /\ j \in Unread
             /\ j # i => NextLine(j)' = NextLine(j)
             /\ NextLine(i) <= NextLine(j)'
  <2>1. j \in 1..Len(Reading) /\ pos'[j] < Len(chunk[Reading[j]])
    BY <1>1, <1>4, <1>5 DEF Unread
  <2>2. CASE j = i
    <3>1. /\ pos[i] \in Nat /\ pos[i] + 1 < Len(chunk[Reading[i]]) /\ Len(chunk[Reading[i]]) \in Nat
      BY <1>2, <1>5, <2>1, <2>2
    <3>2. /\ pos[i] + 1 \in 1..Len(chunk[Reading[i]])
          /\ pos[i] + 1 + 1 \in 1..Len(chunk[Reading[i]])
          /\ pos[i] + 1 < pos[i] + 1 + 1
      BY <3>1
    <3>3. chunk[Reading[i]][pos[i] + 1] <= chunk[Reading[i]][pos[i] + 1 + 1]
      BY <1>2, <3>2 DEF InOrder
    <3>4. NextLine(j)' = chunk[Reading[i]][pos[i] + 1 + 1]
      BY <1>1, <1>4, <1>5, <2>2 DEF NextLine
    <3>5. QED  BY <1>1, <2>2, <3>3, <3>4 DEF NextLine
  <2>3. CASE j # i
    <3>1. pos'[j] = pos[j]
      BY <1>5, <2>1, <2>3
    <3>2. j \in Unread
      BY <1>2, <2>1, <3>1 DEF Unread
    <3>3. NextLine(j)' = NextLine(j)
      BY <1>1, <1>4, <3>1 DEF NextLine
    <3>4. QED  BY <1>1, <3>2, <3>3
  <2>4. QED  BY <2>2, <2>3
<1>10. ASSUME NEW k \in DOMAIN merged', NEW j \in Unread' PROVE merged'[k] <= NextLine(j)'
  <2>1. CASE merged'[k] = NextLine(i)
    BY <1>9, <2>1
  <2>2. CASE k \in DOMAIN merged
    <3>1. merged'[k] = merged[k] /\ merged[k] <= NextLine(i) /\ merged[k] <= NextLine(j)
      BY <1>1, <1>3, <1>6, <1>9, <2>2 DEF Heads
    <3>2. CASE j # i
      BY <1>9, <3>1, <3>2
    <3>3. CASE j = i
      <4>1. NextLine(i) <= NextLine(j)' /\ NextLine(j)' \in Int
        <5>1. j \in 1..Len(Reading) /\ pos'[j] < Len(chunk[Reading[j]]) /\ pos'[j] \in Nat
          BY <1>1, <1>4, <1>5, <1>7 DEF Unread
        <5>2. pos'[j] + 1 \in 1..Len(chunk[Reading[j]])
          BY <1>2, <5>1
        <5>3. NextLine(j)' = chunk[Reading[j]][pos'[j] + 1]
          BY <1>1, <1>4 DEF NextLine
        <5>4. NextLine(j)' \in Int
          BY <1>2, <5>1, <5>2, <5>3
        <5>5. QED  BY <1>9, <5>4
      <4>2. merged[k] \in Int /\ NextLine(i) \in Int
        BY <1>2, <2>2
      <4>3. QED  BY <3>1, <4>1, <4>2
    <3>4. QED  BY <3>2, <3>3
  <2>3. QED  BY <1>6, <2>1, <2>2
<1>11. ASSUME NEW k \in DOMAIN merged'
       PROVE  \E j \in DOMAIN pos' : \E l \in 1..pos'[j] : merged'[k] = chunk[Reading[j]][l]
  <2>1. CASE merged'[k] = NextLine(i)
    <3>1. i \in DOMAIN pos' /\ pos'[i] \in 1..pos'[i]
      BY <1>2, <1>5
    <3>2. QED  BY <1>8, <2>1, <3>1
  <2>2. CASE k \in DOMAIN merged
    <3>1. PICK j \in DOMAIN pos : \E l \in 1..pos[j] : merged[k] = chunk[Reading[j]][l]
      BY <1>1, <1>3, <2>2 DEF Heads
    <3>2. PICK l \in 1..pos[j] : merged[k] = chunk[Reading[j]][l]
      BY <3>1
    <3>3. j \in DOMAIN pos' /\ l \in 1..pos'[j]
      <4>1. pos[j] \in Nat /\ (pos'[j] = pos[j] \/ pos'[j] = pos[j] + 1)
        BY <1>2, <1>5
      <4>2. QED  BY <1>2, <1>5, <4>1
    <3>4. QED  BY <1>6, <2>2, <3>2, <3>3
  <2>3. QED  BY <1>6, <2>1, <2>2
<1>12. ASSUME NEW j \in DOMAIN pos', NEW l \in 1..pos'[j]
       PROVE  \E k \in DOMAIN merged' : merged'[k] = chunk[Reading[j]][l]
  <2>1. CASE j = i /\ l = pos'[i]
    BY <1>6, <1>8, <2>1
  <2>2. CASE ~(j = i /\ l = pos'[i])
    <3>1. j \in DOMAIN pos /\ l \in 1..pos[j]
      BY <1>2, <1>5, <2>2
    <3>2. \E k \in DOMAIN merged : merged[k] = chunk[Reading[j]][l]
      BY <1>1, <1>3, <3>1 DEF Heads
    <3>3. QED  BY <1>6, <3>2
  <2>3. QED  BY <2>1, <2>2
<1>13. Heads'
  <2>1. Len(pos') = Len(Reading')
    BY <1>2, <1>4, <1>5
  <2>2. \A j \in DOMAIN pos' : pos'[j] <= Len(chunk'[Reading'[j]])
    BY <1>1, <1>4, <1>5, <1>7
  <2>3. \A k \in DOMAIN merged' : \A j \in Unread' : merged'[k] <= NextLine(j)'
    BY <1>10
  <2>4. \A k \in DOMAIN merged' : \E j \in DOMAIN pos' : \E l \in 1..pos'[j] :
          merged'[k] = chunk'[Reading'[j]][l]
    BY <1>1, <1>4, <1>11
  <2>5. \A j \in DOMAIN pos' : \A l \in 1..pos'[j] : \E k \in DOMAIN merged' :
          merged'[k] = chunk'[Reading'[j]][l]
    BY <1>1, <1>4, <1>12
  <2>6. InOrder(merged') /\ (pc' = "final" => Increasing(merged'))
    BY <1>1, <1>6
  <2>7. QED  BY <2>1, <2>2, <2>3, <2>4, <2>5, <2>6 DEF Heads
<1>14. Lists'
  BY <1>1, <1>3 DEF Lists
<1>15. Counted'
  <2>1. /\ SumTo(Len(chunk), Left') = SumTo(Len(chunk), Left) - 1
        /\ SumTo(Len(chunk), Left) \in Nat
    BY LineLeft
  <2>2. SumTo(Len(chunk), Left) + Written + duplicates = AcceptedSoFar /\ batch = <<>>
    BY <1>2, FinishFinds
  <2>3. Written = Len(merged) /\ Written' = Len(merged') /\ Len(merged) \in Nat
    BY <1>1, MergeFinds DEF Written
  <2>4. AcceptedSoFar' = AcceptedSoFar
    BY <1>1 DEF AcceptedSoFar
  <2>5. 0 + (SumTo(Len(chunk), Left) - 1) + Len(merged') + duplicates' = AcceptedSoFar
    <3> DEFINE s == SumTo(Len(chunk), Left)
               m == Len(merged)
               M == Len(merged')
               D == duplicates'
    <3>1. /\ s \in Nat /\ m \in Nat /\ duplicates \in Nat /\ M \in Nat /\ D \in Nat
          /\ M + D = m + duplicates + 1
      BY <1>3, <1>6, <2>1, <2>3
    <3>2. s + m + duplicates = AcceptedSoFar
      BY <2>2, <2>3, Zenon
    <3> HIDE DEF s, m, M, D
    <3>3. 0 + (s - 1) + M + D = s + m + duplicates
      BY <3>1
    <3>4. QED  BY <3>2, <3>3 DEF s, M, D
  <2>6. Len(batch') = 0
    BY <1>1, <2>2
  <2>7. Len(batch') + SumTo(Len(chunk'), Left') + Written' + duplicates' = AcceptedSoFar'
    BY <1>1, <2>1, <2>3, <2>4, <2>5, <2>6
  <2>8. QED  BY <2>7 DEF Counted
<1>16. list' \in Seq(1..Len(chunk)) /\ next' \in Seq(1..Len(chunk)) /\ start' \in Nat
  BY <1>1, <1>3
<1>17. QED  BY <1>1, <1>2, <1>4, <1>5, <1>6, <1>13, <1>14, <1>15, <1>16, MovedKeeps

\* A merge that has read everything has written all the lines of its files.
LEMMA DrainedIs ==
  ASSUME SorterInv, pc \in Merges, Unread = {}
  PROVE  /\ ToSet(merged) = Content(chunk, ToSet(Reading))
         /\ \A f \in ToSet(Reading) : Left[f] = 0
<1>1. /\ Len(Reading) \in Nat /\ DOMAIN Reading = 1..Len(Reading)
      /\ DOMAIN pos = 1..Len(Reading)
      /\ \A j \in 1..Len(Reading) :
           /\ Reading[j] \in 1..Len(chunk)
           /\ pos[j] \in Nat /\ Len(chunk[Reading[j]]) \in Nat /\ pos[j] <= Len(chunk[Reading[j]])
           /\ DOMAIN chunk[Reading[j]] = 1..Len(chunk[Reading[j]])
  BY MergeFinds
<1>2. TypeOK /\ Lists /\ Heads
  BY MergeFinds, FinishFinds
<1>3. ASSUME NEW j \in 1..Len(Reading) PROVE pos[j] = Len(chunk[Reading[j]])
  <2>1. ~(pos[j] < Len(chunk[Reading[j]]))
    BY <1>1 DEF Unread
  <2>2. QED  BY <1>1, <2>1
<1>4. \A f \in ToSet(Reading) : Left[f] = 0
  <2>1. ASSUME NEW j \in DOMAIN Reading PROVE Left[Reading[j]] = 0
    BY <1>1, <1>2, <1>3, LeftIs
  <2>2. QED  BY <2>1 DEF ToSet
<1>5. ASSUME NEW x \in ToSet(merged) PROVE x \in Content(chunk, ToSet(Reading))
  <2>1. PICK k \in DOMAIN merged : x = merged[k]
    BY DEF ToSet
  <2>2. PICK j \in DOMAIN pos : \E l \in 1..pos[j] : merged[k] = chunk[Reading[j]][l]
    BY <1>2 DEF Heads
  <2>3. PICK l \in 1..pos[j] : merged[k] = chunk[Reading[j]][l]
    BY <2>2
  <2>4. l \in DOMAIN chunk[Reading[j]] /\ Reading[j] \in ToSet(Reading)
    BY <1>1, <1>3 DEF ToSet
  <2>5. x \in ToSet(chunk[Reading[j]])
    BY <2>1, <2>3, <2>4 DEF ToSet
  <2>6. QED  BY <2>4, <2>5 DEF Content
<1>6. ASSUME NEW x \in Content(chunk, ToSet(Reading)) PROVE x \in ToSet(merged)
  <2>1. PICK f \in ToSet(Reading) : x \in ToSet(chunk[f])
    BY DEF Content
  <2>2. PICK j \in DOMAIN Reading : f = Reading[j]
    BY DEF ToSet
  <2>3. PICK l \in DOMAIN chunk[f] : x = chunk[f][l]
    BY <2>1 DEF ToSet
  <2>4. j \in DOMAIN pos /\ l \in 1..pos[j]
    BY <1>1, <1>3, <2>2, <2>3
  <2>5. \E k \in DOMAIN merged : merged[k] = chunk[Reading[j]][l]
    BY <1>2, <2>4 DEF Heads
  <2>6. QED  BY <2>2, <2>3, <2>5 DEF ToSet
<1>7. QED  BY <1>4, <1>5, <1>6

\* The files of a merge leave what is to be read, and the file it wrote enters.
LEMMA GroupReplaced ==
  ASSUME SorterInv, GroupMerged
  PROVE  /\ Pending' = (Pending \ ToSet(Reading)) \cup {Len(chunk) + 1}
         /\ ToSet(Reading) \subseteq Pending
<1>1. /\ pc = "merge" /\ pc' = "group" /\ list' = list /\ start' = start + FanIn
      /\ next' = Append(next, Len(chunk) + 1) /\ chunk' = Append(chunk, merged)
  BY DEF GroupMerged
<1>2. pc \in Finishing /\ pc \in InRound /\ pc \in Merges /\ pc' \in InRound /\ pc # "final"
  BY <1>1 DEF Finishing, InRound, Merges
<1>3. /\ TypeOK /\ Lists /\ start \in Nat
      /\ list \in Seq(1..Len(chunk)) /\ next \in Seq(1..Len(chunk))
      /\ Len(chunk) \in Nat /\ DOMAIN list = 1..Len(list) /\ Len(list) \in Nat /\ Increasing(list)
  BY <1>2, FinishFinds
<1> DEFINE n == Len(chunk) + 1
<1>4. /\ next' \in Seq(1..n) /\ DOMAIN next = 1..Len(next) /\ Len(next) \in Nat
      /\ ToSet(next') = ToSet(next) \cup {n}
  <2>1. n \in 1..n /\ 1..Len(chunk) \subseteq 1..n
    BY <1>3
  <2>2. next \in Seq(1..n)
    BY <1>3, <2>1, SeqMonotonic
  <2> HIDE DEF n
  <2>3. next' = Append(next, n)
    BY <1>1 DEF n
  <2>4. QED  BY <2>1, <2>2, <2>3, Appended
<1> DEFINE Rest(k) == {list[i] : i \in (k + 1)..Len(list)}
<1>5. FanIn \in Nat
  BY SorterAssumption
<1>6. Pending = ToSet(next) \cup Rest(start) /\ Pending' = ToSet(next') \cup Rest(start + FanIn)
  <2>1. ToSet(SubSeq(list, start + 1, Len(list))) = Rest(start)
    BY <1>3, RestIs
  <2>2. start + FanIn \in Nat
    BY <1>3, <1>5
  <2>3. ToSet(SubSeq(list, start + FanIn + 1, Len(list))) = Rest(start + FanIn)
    BY <1>3, <2>2, RestIs
  <2>4. Pending = ToSet(next) \cup ToSet(SubSeq(list, start + 1, Len(list)))
    BY <1>1 DEF Pending
  <2>5. Pending' = ToSet(next') \cup ToSet(SubSeq(list, start + FanIn + 1, Len(list)))
    BY <1>1 DEF Pending
  <2>6. QED  BY <2>1, <2>3, <2>4, <2>5
<1>7. PICK m \in Nat :
        /\ m = Min({start + FanIn, Len(list)})
        /\ m <= Len(list) /\ m <= start + FanIn
        /\ m = Len(list) \/ m = start + FanIn
  BY <1>3, GroupEnd
<1>8. ToSet(Reading) = {list[i] : i \in (start + 1)..m}
  <2>1. Reading = SubSeq(list, start + 1, m)
    BY <1>2, <1>7 DEF Reading
  <2>2. /\ DOMAIN Reading = 1..Len(Reading)
        /\ \A i \in 1..Len(Reading) : start + i \in (start + 1)..m /\ Reading[i] = list[start + i]
        /\ \A i \in (start + 1)..m : i - start \in 1..Len(Reading) /\ Reading[i - start] = list[i]
    <3>1. list \in Seq(1..Len(chunk)) /\ start \in Nat /\ m <= Len(list)
      BY <1>3, <1>7
    <3>2. IsSlice(Reading, list, start, m)
      <4>1. IsSlice(SubSeq(list, start + 1, m), list, start, m)
        BY <1>7, <3>1, SliceIs
      <4>2. QED  BY <2>1, <4>1, Zenon
    <3>3. QED  BY <3>2 DEF IsSlice
  <2>3. ASSUME NEW f \in ToSet(Reading) PROVE f \in {list[i] : i \in (start + 1)..m}
    <3>1. PICK i \in 1..Len(Reading) : f = Reading[i]
      BY <2>2 DEF ToSet
    <3>2. QED  BY <2>2, <3>1
  <2>4. ASSUME NEW i \in (start + 1)..m PROVE list[i] \in ToSet(Reading)
    <3>1. i - start \in DOMAIN Reading /\ Reading[i - start] = list[i]
      BY <2>2
    <3>2. QED  BY <3>1 DEF ToSet
  <2>5. QED  BY <2>3, <2>4
<1>9. Rest(start) = ToSet(Reading) \cup Rest(start + FanIn)
  <2>1. (start + 1)..Len(list) = ((start + 1)..m) \cup ((start + FanIn + 1)..Len(list))
    <3>1. CASE m = Len(list)
      <4>1. Len(list) <= start + FanIn
        BY <1>7, <3>1
      <4>2. (start + FanIn + 1)..Len(list) = {}
        BY <1>3, <1>5, <4>1
      <4>3. QED  BY <3>1, <4>2
    <3>2. CASE m = start + FanIn
      <4>1. start + FanIn <= Len(list)
        BY <1>7, <3>2
      <4>2. QED  BY <1>3, <1>5, <3>2, <4>1
    <3>3. QED  BY <1>7, <3>1, <3>2
  <2>2. QED  BY <1>8, <2>1
<1>10. ToSet(Reading) \cap Rest(start + FanIn) = {}
  <2>1. ASSUME NEW i \in (start + 1)..m, NEW j \in (start + FanIn + 1)..Len(list)
        PROVE  list[i] # list[j]
    <3>1. i \in 1..Len(list) /\ j \in 1..Len(list) /\ i < j
      <4>1. start \in Nat /\ Len(list) \in Nat
        BY <1>3
      <4>2. i \in Nat /\ start + 1 <= i /\ i <= m
        BY <1>7, <4>1
      <4>3. j \in Nat /\ start + FanIn + 1 <= j /\ j <= Len(list)
        BY <1>5, <4>1
      <4>4. QED  BY <1>5, <1>7, <4>1, <4>2, <4>3
    <3>2. list[i] < list[j] /\ list[i] \in Int /\ list[j] \in Int
      <4>1. list[i] \in 1..Len(chunk) /\ list[j] \in 1..Len(chunk)
        BY <1>3, <3>1, ElementOfSeq
      <4>2. list[i] < list[j]
        BY <1>3, <3>1 DEF Increasing
      <4>3. QED  BY <4>1, <4>2
    <3>3. QED  BY <3>2
  <2>2. QED  BY <1>8, <2>1
<1>11. ToSet(Reading) \cap ToSet(next) = {}
  <2>1. ASSUME NEW i \in (start + 1)..m, NEW j \in DOMAIN next PROVE list[i] # next[j]
    <3>1. i \in 1..Len(list)
      <4>1. start \in Nat /\ Len(list) \in Nat
        BY <1>3
      <4>2. QED  BY <1>7, <4>1
    <3>2. list[i] < next[j]
      BY <1>2, <1>3, <3>1 DEF Lists
    <3>3. list[i] \in 1..Len(chunk) /\ next[j] \in 1..Len(chunk)
      BY <1>3, <1>4, <3>1, ElementOfSeq
    <3>4. QED  BY <3>2, <3>3
  <2>2. QED  BY <1>8, <2>1 DEF ToSet
<1> HIDE DEF Rest
<1>12. QED  BY <1>4, <1>6, <1>9, <1>10, <1>11

\* The merged file replaces the chunks of its group.
LEMMA GroupMergedKeeps ==
  ASSUME SorterInv, GroupMerged
  PROVE  SorterInv'
<1>1. /\ pc = "merge" /\ Unread = {} /\ pc' = "group" /\ list' = list /\ start' = start + FanIn
      /\ next' = Append(next, Len(chunk) + 1) /\ chunk' = Append(chunk, merged)
      /\ files' = (files \cup {Len(chunk) + 1}) \ ToSet(Reading)
      /\ batch' = batch /\ bytes' = bytes /\ duplicates' = duplicates /\ pos' = pos
      /\ merged' = merged /\ output' = output /\ added' = added
  BY DEF GroupMerged
<1>2. pc \in Finishing /\ pc \in InRound /\ pc \in Merges /\ pc \notin Ended
  BY <1>1 DEF Finishing, InRound, Merges, Ended
<1>3. /\ TypeOK /\ Lists /\ Heads /\ batch = <<>>
      /\ list \in Seq(1..Len(chunk)) /\ next \in Seq(1..Len(chunk)) /\ start \in Nat
      /\ pos \in Seq(Nat) /\ merged \in Seq(Rules) /\ duplicates \in Nat
      /\ chunk \in Seq(Seq(Rules)) /\ Len(chunk) \in Nat
      /\ DOMAIN list = 1..Len(list) /\ Increasing(list)
      /\ Pending \subseteq files /\ Pending \subseteq 1..Len(chunk)
      /\ Accepted = Content(chunk, Pending)
      /\ SumTo(Len(chunk), Left) + Written + duplicates = AcceptedSoFar
  BY <1>2, FinishFinds
<1>4. /\ Pending' = (Pending \ ToSet(Reading)) \cup {Len(chunk) + 1}
      /\ ToSet(Reading) \subseteq Pending
  BY GroupReplaced
<1>5. /\ ToSet(merged) = Content(chunk, ToSet(Reading))
      /\ \A f \in ToSet(Reading) : Left[f] = 0
  BY <1>1, <1>2, DrainedIs
<1>6. /\ chunk' \in Seq(Seq(Rules)) /\ Len(chunk') = Len(chunk) + 1
      /\ \A f \in 1..Len(chunk) : chunk'[f] = chunk[f]
      /\ chunk'[Len(chunk) + 1] = merged
  BY <1>1, <1>3, ChunkAppended
<1>7. /\ Len(chunk) + 1 \in 1..Len(chunk') /\ 1..Len(chunk) \subseteq 1..Len(chunk')
      /\ Len(chunk) + 1 \notin 1..Len(chunk)
  BY <1>3, <1>6
<1>8. next \in Seq(1..Len(chunk')) /\ list' \in Seq(1..Len(chunk'))
  BY <1>1, <1>3, <1>7, SeqMonotonic
<1>9. /\ next' \in Seq(1..Len(chunk')) /\ DOMAIN next' = 1..(Len(next) + 1)
      /\ \A i \in 1..Len(next) : next'[i] = next[i]
      /\ next'[Len(next) + 1] = Len(chunk) + 1
      /\ Len(next) \in Nat /\ DOMAIN next = 1..Len(next)
  BY <1>1, <1>7, <1>8, Appended
<1>10. TypeOK'
  <2>1. batch' \in Seq(Rules) /\ bytes' \in Nat /\ duplicates' \in Nat
    BY <1>1, <1>3 DEF TypeOK
  <2>2. files' \subseteq 1..Len(chunk')
    <3>1. files \subseteq 1..Len(chunk)
      BY <1>3 DEF TypeOK
    <3>2. QED  BY <1>1, <1>7, <3>1
  <2>3. pos' \in Seq(Nat) /\ merged' \in Seq(Rules) /\ start' \in Nat
    BY <1>1, <1>3, SorterAssumption
  <2>4. output' \in Seq(Rules \cup {0}) /\ added' \in [Rules -> Nat]
    BY <1>1, <1>3 DEF TypeOK
  <2>5. pc' \in Places
    BY <1>1 DEF Places
  <2>6. QED  BY <1>6, <1>8, <1>9, <2>1, <2>2, <2>3, <2>4, <2>5 DEF TypeOK
<1>11. BatchFits'
  BY <1>1, <1>3 DEF BatchFits
<1>12. Lists'
  <2>1. Increasing(next) /\ \A i \in DOMAIN list, j \in DOMAIN next : list[i] < next[j]
    BY <1>2, <1>3 DEF Lists
  <2>2. \A j \in 1..Len(next) : next[j] \in 1..Len(chunk)
    BY <1>3, ElementOfSeq
  <2>3. \A i \in 1..Len(list) : list[i] \in 1..Len(chunk)
    BY <1>3, ElementOfSeq
  <2>4. Increasing(next')
    <3>1. ASSUME NEW i \in 1..(Len(next) + 1), NEW j \in 1..(Len(next) + 1), i < j
          PROVE  next'[i] < next'[j]
      <4>1. i \in 1..Len(next)
        BY <1>9, <3>1
      <4>2. CASE j = Len(next) + 1
        BY <1>3, <1>9, <2>2, <4>1, <4>2
      <4>3. CASE j # Len(next) + 1
        <5>1. j \in 1..Len(next)
          BY <1>9, <4>3
        <5>2. next[i] < next[j]
          BY <1>9, <2>1, <3>1, <4>1, <5>1 DEF Increasing
        <5>3. QED  BY <1>9, <4>1, <5>1, <5>2
      <4>4. QED  BY <4>2, <4>3
    <3>2. QED  BY <1>9, <3>1 DEF Increasing
  <2>5. ASSUME NEW i \in DOMAIN list', NEW j \in DOMAIN next' PROVE list'[i] < next'[j]
    <3>1. i \in 1..Len(list) /\ i \in DOMAIN list /\ list'[i] = list[i]
      BY <1>1, <1>3
    <3>2. CASE j = Len(next) + 1
      <4>1. next'[j] = Len(chunk) + 1
        BY <1>9, <3>2
      <4>2. list[i] < Len(chunk) + 1
        BY <1>3, <2>3, <3>1
      <4>3. QED  BY <3>1, <4>1, <4>2
    <3>3. CASE j # Len(next) + 1
      <4>1. j \in DOMAIN next /\ next'[j] = next[j]
        BY <1>9, <3>3
      <4>2. QED  BY <2>1, <3>1, <4>1
    <3>4. QED  BY <3>2, <3>3
  <2>6. QED  BY <1>1, <1>3, <2>4, <2>5 DEF Lists
<1>13. Filed'
  <2>1. Pending' \subseteq files'
    BY <1>1, <1>3, <1>4, <1>7
  <2>2. QED  BY <2>1 DEF Filed
<1>14. Sorted'
  <2>1. InOrder(merged)
    BY <1>2, <1>3 DEF Heads
  <2>2. ASSUME NEW f \in 1..Len(chunk') PROVE InOrder(chunk'[f])
    <3>1. f \in 1..Len(chunk) \/ f = Len(chunk) + 1
      BY <1>3, <1>6
    <3>2. QED  BY <1>6, <2>1, <3>1 DEF SorterInv, Sorted
  <2>3. QED  BY <2>2 DEF Sorted
<1>15. Heads'
  BY <1>1 DEF Heads, Merges
<1>16. Kept'
  <2>1. Content(chunk', Pending') = Content(chunk, Pending \ ToSet(Reading)) \cup ToSet(merged)
    <3>1. \A f \in Pending \ ToSet(Reading) : chunk'[f] = chunk[f]
      BY <1>3, <1>6
    <3>2. QED  BY <1>4, <1>6, <3>1 DEF Content
  <2>2. Content(chunk, Pending)
          = Content(chunk, Pending \ ToSet(Reading)) \cup Content(chunk, ToSet(Reading))
    BY <1>4 DEF Content
  <2>3. Accepted' = Accepted
    BY <1>1 DEF Accepted
  <2>4. Accepted' = Content(chunk', Pending')
    BY <1>3, <1>5, <2>1, <2>2, <2>3
  <2>5. ToSet(<<>>) = {}
    BY DEF ToSet
  <2>6. QED  BY <1>1, <1>3, <2>4, <2>5 DEF Kept
<1>17. Counted'
  <2>1. /\ Left \in [1..Len(chunk) -> Nat] /\ Left \in [1..Len(chunk) -> Int]
    BY <1>3, LeftIs
  <2>2. \A f \in 1..Len(chunk) : Len(chunk[f]) \in Nat
    <3>1. \A f \in 1..Len(chunk) : chunk[f] \in Seq(Rules)
      BY <1>3, ElementOfSeq
    <3>2. QED  BY <3>1, LenProperties
  <2>3. ASSUME NEW f \in 1..Len(chunk) PROVE Left'[f] = Left[f]
    <3>1. f \in 1..Len(chunk') /\ chunk'[f] = chunk[f] /\ f # Len(chunk) + 1
      BY <1>6, <1>7
    <3>2. Left'[f] = IF f \notin Pending' THEN 0 ELSE Len(chunk'[f])
      BY <1>1, <3>1 DEF Left, Merges
    <3>3. CASE f \in ToSet(Reading)
      BY <1>4, <1>5, <3>1, <3>2, <3>3
    <3>4. CASE f \notin ToSet(Reading)
      <4>1. Left[f] = IF f \notin Pending THEN 0 ELSE Len(chunk[f])
        BY <3>4 DEF Left
      <4>2. f \in Pending <=> f \in Pending'
        BY <1>4, <3>1, <3>4
      <4>3. QED  BY <3>1, <3>2, <4>1, <4>2
    <3>5. QED  BY <3>3, <3>4
  <2>4. Left'[Len(chunk) + 1] = Len(merged)
    <3>1. Len(chunk) + 1 \in Pending'
      BY <1>4
    <3>2. QED  BY <1>1, <1>6, <1>7, <3>1 DEF Left, Merges
  <2>5. Len(merged) \in Nat
    BY <1>3, LenProperties
  <2>6. Left' \in [1..(Len(chunk) + 1) -> Int]
    <3>1. Left' = [f \in 1..(Len(chunk) + 1) |-> Left'[f]]
      BY <1>6 DEF Left
    <3>2. \A f \in 1..(Len(chunk) + 1) : Left'[f] \in Int
      <4>1. \A f \in 1..(Len(chunk) + 1) : f \in 1..Len(chunk) \/ f = Len(chunk) + 1
        BY <1>3
      <4>2. QED  BY <2>1, <2>3, <2>4, <2>5, <4>1
    <3> DEFINE L == Left'
    <3>3. L = [f \in 1..(Len(chunk) + 1) |-> L[f]] /\ \A f \in 1..(Len(chunk) + 1) : L[f] \in Int
      BY <3>1, <3>2
    <3> HIDE DEF L
    <3>4. L \in [1..(Len(chunk) + 1) -> Int]
      BY <3>3
    <3>5. QED  BY <3>4 DEF L
  <2>7. SumTo(Len(chunk) + 1, Left') = SumTo(Len(chunk), Left) + Left'[Len(chunk) + 1]
    BY <1>3, <2>1, <2>3, <2>6, SumExtend
  <2>8. SumTo(Len(chunk), Left) \in Nat
    BY <1>3, <2>1, SumType
  <2>9. Written = Len(merged) /\ Written' = 0 /\ Len(batch') = 0
    BY <1>1, <1>2, <1>3 DEF Written, Merges
  <2>10. AcceptedSoFar' = AcceptedSoFar
    BY <1>1 DEF AcceptedSoFar
  <2>11. Len(batch') + SumTo(Len(chunk'), Left') + Written' + duplicates' = AcceptedSoFar'
    <3>1. SumTo(Len(chunk'), Left') = SumTo(Len(chunk), Left) + Len(merged)
      BY <1>6, <2>4, <2>7
    <3>2. \A s, k, d \in Nat : 0 + (s + k) + 0 + d = s + k + d
      OBVIOUS
    <3>3. 0 + (SumTo(Len(chunk), Left) + Len(merged)) + 0 + duplicates
            = SumTo(Len(chunk), Left) + Len(merged) + duplicates
      BY <1>3, <2>5, <2>8, <3>2
    <3>4. QED  BY <1>1, <1>3, <2>9, <2>10, <3>1, <3>3
  <2>12. QED  BY <2>11 DEF Counted
<1>18. Endings'
  BY <1>1 DEF Endings, OutputIsSortedSet, NoScratchLeft
<1>19. QED  BY <1>10, <1>11, <1>12, <1>13, <1>14, <1>15, <1>16, <1>17, <1>18 DEF SorterInv

\* The final merge has read all files there are.
LEMMA PublishedKeeps ==
  ASSUME SorterInv, Published
  PROVE  SorterInv' /\ OutputIsSortedSet'
<1>1. /\ pc = "final" /\ Unread = {} /\ output' = merged /\ pc' = "done" /\ files' = {}
      /\ batch' = batch /\ bytes' = bytes /\ duplicates' = duplicates /\ chunk' = chunk
      /\ list' = list /\ start' = start /\ next' = next /\ pos' = pos /\ merged' = merged
      /\ added' = added
  BY DEF Published, mergeVars
<1>2. pc \in Finishing /\ pc \in Merges
  BY <1>1 DEF Finishing, Merges
<1>3. /\ TypeOK /\ Lists /\ Heads /\ merged \in Seq(Rules) /\ duplicates \in Nat
      /\ Len(chunk) \in Nat /\ Accepted = Content(chunk, Pending) /\ Pending \subseteq 1..Len(chunk)
      /\ SumTo(Len(chunk), Left) + Written + duplicates = AcceptedSoFar
  BY <1>2, FinishFinds
<1>4. Reading = list /\ Pending = ToSet(list)
  BY <1>1 DEF Reading, Pending
<1>5. ToSet(merged) = Accepted /\ \A f \in Pending : Left[f] = 0
  BY <1>1, <1>2, <1>3, <1>4, DrainedIs
<1>6. SumTo(Len(chunk), Left) = 0
  <2>1. \A f \in 1..Len(chunk) : f \notin Pending => Left[f] = 0
    BY DEF Left
  <2>2. Left = [f \in 1..Len(chunk) |-> 0]
    <3>1. \A f \in 1..Len(chunk) : Left[f] = 0
      BY <1>5, <2>1
    <3>2. Left \in [1..Len(chunk) -> Nat]
      BY <1>3, LeftIs
    <3>3. QED  BY <3>1, <3>2
  <2>3. QED  BY <1>3, <2>2, SumOfZeros
<1>7. Len(merged) + duplicates = AcceptedSoFar
  <2>1. Written = Len(merged) /\ Len(merged) \in Nat
    BY <1>2, <1>3, LenProperties DEF Written
  <2>2. QED  BY <1>3, <1>6, <2>1
<1>8. Increasing(merged)
  BY <1>1, <1>2, <1>3 DEF Heads
<1>9. Accepted' = Accepted /\ AcceptedSoFar' = AcceptedSoFar
  BY <1>1 DEF Accepted, AcceptedSoFar
<1>10. OutputIsSortedSet'
  <2>1. /\ ToSet(output') = Accepted' /\ Increasing(output')
        /\ Len(output') + duplicates' = AcceptedSoFar'
    BY <1>1, <1>5, <1>7, <1>8, <1>9
  <2>2. QED  BY <2>1 DEF OutputIsSortedSet
<1>11. TypeOK'
  <2>1. /\ batch' \in Seq(Rules) /\ bytes' \in Nat /\ duplicates' \in Nat
        /\ chunk' \in Seq(Seq(Rules)) /\ files' \subseteq 1..Len(chunk')
    BY <1>1, <1>3 DEF TypeOK
  <2>2. /\ list' \in Seq(1..Len(chunk')) /\ next' \in Seq(1..Len(chunk'))
        /\ start' \in Nat /\ pos' \in Seq(Nat)
        /\ merged' \in Seq(Rules) /\ added' \in [Rules -> Nat]
    BY <1>1, <1>3 DEF TypeOK
  <2>3. output' \in Seq(Rules \cup {0})
    <3>1. Rules \subseteq Rules \cup {0}
      OBVIOUS
    <3>2. QED  BY <1>1, <1>3, <3>1, SeqMonotonic
  <2>4. pc' \in Places
    BY <1>1 DEF Places
  <2>5. QED  BY <2>1, <2>2, <2>3, <2>4 DEF TypeOK
<1>12. BatchFits' /\ Lists' /\ Filed' /\ Heads' /\ Kept' /\ Counted'
  BY <1>1 DEF BatchFits, Lists, Filed, Heads, Kept, Counted, Ended, Finishing, InRound, Merges
<1>13. Sorted'
  BY <1>1 DEF SorterInv, Sorted
<1>14. Endings'
  BY <1>1, <1>10 DEF Endings, NoScratchLeft
<1>15. QED  BY <1>10, <1>11, <1>12, <1>13, <1>14 DEF SorterInv

-------------------------------------------------------------------------------
(* The specification                                                       *)

\* A new sorter satisfies the invariant.
LEMMA InitHolds == Init => SorterInv
<1> SUFFICES ASSUME Init PROVE SorterInv
  OBVIOUS
<1>1. /\ batch = <<>> /\ bytes = 0 /\ duplicates = 0 /\ chunk = <<>> /\ files = {}
      /\ pc = "adding" /\ list = <<>> /\ start = 0 /\ next = <<>> /\ pos = <<>> /\ merged = <<>>
      /\ output = <<0>> /\ added = [r \in Rules |-> 0]
  BY DEF Init, Old
<1>2. TypeOK
  BY <1>1 DEF TypeOK, Places
<1>3. BatchFits /\ Lists /\ Heads /\ Endings
  <2>1. ~(0 > ChunkBytes)
    BY SorterAssumption
  <2>2. BatchFits
    BY <1>1, <2>1 DEF BatchFits, Finishing, InRound
  <2>3. Lists /\ Heads
    BY <1>1 DEF Lists, Heads, Finishing, InRound, Merges
  <2>4. Endings
    BY <1>1 DEF Endings, OutputIsSortedSet, NoScratchLeft
  <2>5. QED  BY <2>2, <2>3, <2>4
<1>4. Pending = {} /\ 1..Len(chunk) = {}
  BY <1>1 DEF Pending
<1>5. Filed /\ Sorted
  BY <1>4 DEF Filed, Sorted
<1>6. Accepted = {}
  BY <1>1 DEF Accepted
<1>7. Kept
  <2>1. ToSet(<<>>) = {} /\ Content(chunk, {}) = {}
    BY DEF ToSet, Content
  <2>2. QED  BY <1>1, <1>4, <1>6, <2>1 DEF Kept
<1>8. Counted
  <2>1. Left = [f \in 1..0 |-> 0] /\ Len(chunk) = 0
    BY <1>1, <1>4 DEF Left
  <2>2. SumTo(0, [f \in 1..0 |-> 0]) = 0
    BY SumOfZeros
  <2>3. AcceptedSoFar = 0
    <3>1. NumRules \in Nat /\ added = [r \in 1..NumRules |-> 0]
      BY <1>1, SorterAssumption DEF Rules
    <3>2. QED  BY <3>1, SumOfZeros DEF AcceptedSoFar
  <2>4. Written = 0 /\ Len(batch) = 0
    BY <1>1 DEF Written, Merges
  <2>5. QED  BY <1>1, <2>1, <2>2, <2>3, <2>4 DEF Counted
<1>9. QED  BY <1>2, <1>3, <1>5, <1>7, <1>8 DEF SorterInv

\* So does one that does nothing.
LEMMA UnchangedKeeps == SorterInv /\ UNCHANGED vars => SorterInv'
<1> SUFFICES ASSUME SorterInv, UNCHANGED vars PROVE SorterInv'
  OBVIOUS
<1>1. /\ batch' = batch /\ bytes' = bytes /\ duplicates' = duplicates /\ chunk' = chunk
      /\ files' = files /\ pc' = pc /\ list' = list /\ start' = start /\ next' = next
      /\ pos' = pos /\ merged' = merged /\ output' = output /\ added' = added
  BY DEF vars
<1>2. Reading' = Reading /\ Pending' = Pending /\ Accepted' = Accepted
      /\ AcceptedSoFar' = AcceptedSoFar /\ Unread' = Unread
  BY <1>1 DEF Reading, Pending, Accepted, AcceptedSoFar, Unread
<1>3. TypeOK'
  <2>1. /\ batch' \in Seq(Rules) /\ bytes' \in Nat /\ duplicates' \in Nat
        /\ chunk' \in Seq(Seq(Rules)) /\ files' \subseteq 1..Len(chunk') /\ pc' \in Places
    BY <1>1 DEF SorterInv, TypeOK
  <2>2. /\ list' \in Seq(1..Len(chunk')) /\ next' \in Seq(1..Len(chunk'))
        /\ start' \in Nat /\ pos' \in Seq(Nat) /\ merged' \in Seq(Rules)
        /\ output' \in Seq(Rules \cup {0}) /\ added' \in [Rules -> Nat]
    BY <1>1 DEF SorterInv, TypeOK
  <2>3. QED  BY <2>1, <2>2 DEF TypeOK
<1>4. BatchFits' /\ Lists' /\ Sorted'
  BY <1>1 DEF SorterInv, BatchFits, Lists, Sorted
<1>5. Filed' /\ Kept'
  BY <1>1, <1>2 DEF SorterInv, Filed, Kept
<1>6. Heads'
  <2>1. \A i : NextLine(i)' = NextLine(i)
    BY <1>1, <1>2 DEF NextLine
  <2>2. QED  BY <1>1, <1>2, <2>1 DEF SorterInv, Heads
<1>7. Counted'
  <2>1. \A f : At(f)' = At(f)
    BY <1>2 DEF At
  <2>2. Left' = Left
    BY <1>1, <1>2, <2>1 DEF Left
  <2>3. Written' = Written
    BY <1>1 DEF Written
  <2>4. QED  BY <1>1, <1>2, <2>2, <2>3 DEF SorterInv, Counted
<1>8. Endings'
  BY <1>1, <1>2 DEF SorterInv, Endings, OutputIsSortedSet, NoScratchLeft
<1>9. QED  BY <1>3, <1>4, <1>5, <1>6, <1>7, <1>8 DEF SorterInv

\* The steps of the sorter, each by its name.
LEMMA StepsAre ==
  ASSUME Next
  PROVE  \/ \E r \in Rules : \/ AddFits(r) \/ AddFlushes(r) \/ AddRefused(r)
                             \/ AddOversized(r) \/ AddOversizedFails(r)
         \/ FinishStarts \/ FinishEmpty \/ FinishRefused \/ MergeFails
         \/ RoundStarts \/ GroupStarts \/ GroupMerged \/ RoundEnds
         \/ FinalStarts \/ Published
         \/ \E i : MergeLine(i)
         \/ UNCHANGED vars
<1>1. CASE \E raw \in RawRules : AddRule(raw)
  <2>1. PICK raw \in RawRules : AddRule(raw)
    BY <1>1
  <2>2. Canon[raw] \in Rules
    BY SorterAssumption
  <2>3. \/ AddFits(Canon[raw]) \/ AddFlushes(Canon[raw]) \/ AddRefused(Canon[raw])
        \/ AddOversized(Canon[raw]) \/ AddOversizedFails(Canon[raw])
    BY <2>1 DEF AddRule
  <2>4. QED  BY <2>2, <2>3
<1>2. CASE Finish
  BY <1>2 DEF Finish, Progress
<1>3. CASE Finished
  BY <1>3 DEF Finished
<1>4. QED  BY <1>1, <1>2, <1>3 DEF Next

\* Every step keeps the invariant.
LEMMA NextKeeps == SorterInv /\ [Next]_vars => SorterInv'
<1> SUFFICES ASSUME SorterInv, [Next]_vars PROVE SorterInv'
  OBVIOUS
<1>1. CASE UNCHANGED vars
  BY <1>1, UnchangedKeeps
<1>2. CASE \E r \in Rules : \/ AddFits(r) \/ AddFlushes(r) \/ AddRefused(r)
                            \/ AddOversized(r) \/ AddOversizedFails(r)
  BY <1>2, AddFitsKeeps, AddFlushesKeeps, AddRefusedKeeps, AddOversizedKeeps, AddOversizedFailsKeeps
<1>3. CASE FinishStarts \/ FinishEmpty \/ FinishRefused \/ MergeFails
  BY <1>3, FinishStartsKeeps, FinishEmptyKeeps, FinishRefusedKeeps, MergeFailsKeeps
<1>4. CASE RoundStarts \/ GroupStarts \/ GroupMerged \/ RoundEnds \/ FinalStarts \/ Published
  BY <1>4, RoundStartsKeeps, GroupStartsKeeps, GroupMergedKeeps, RoundEndsKeeps,
     FinalStartsKeeps, PublishedKeeps
<1>5. CASE \E i : MergeLine(i)
  BY <1>5, MergeLineKeeps
<1>6. QED  BY <1>1, <1>2, <1>3, <1>4, <1>5, StepsAre

\* The inductive invariant of the sorter, from Add through the rounds to the rename.
THEOREM SorterInvariance == Spec => []SorterInv
<1>1. Init => SorterInv
  BY InitHolds
<1>2. SorterInv /\ [Next]_vars => SorterInv'
  BY NextKeeps
<1>3. QED  BY <1>1, <1>2, PTL DEF Spec

\* The published list holds every accepted rule once and in order, and the counters
\* of SortResult add up to the accepted calls of Add (sorter.go:139-158).
THEOREM PublishedIsSortedSet == Spec => []OutputIsSortedSet
<1>1. SorterInv => OutputIsSortedSet
  BY DEF SorterInv, Endings
<1>2. QED  BY <1>1, SorterInvariance, PTL

\* An accepted rule is in the batch or in a chunk file that exists and that Finish
\* has still to read, through every flush, group and round (sorter.go:184-219).
THEOREM RulesAreKept == Spec => []NoRuleLost
<1>1. SorterInv => NoRuleLost
  <2> SUFFICES ASSUME SorterInv, pc \notin Ended, NEW r \in Accepted, r \notin ToSet(batch)
               PROVE  \E f \in files \cap Pending : r \in ToSet(chunk[f])
    BY DEF NoRuleLost, Ended
  <2>1. r \in Content(chunk, Pending)
    BY DEF SorterInv, Kept
  <2>2. Pending \subseteq files
    BY DEF SorterInv, Filed
  <2>3. QED  BY <2>1, <2>2 DEF Content
<1>2. QED  BY <1>1, SorterInvariance, PTL

\* Types; and the chunk files are sorted, there when a merge opens them, gone when
\* Finish returns, and written before the batch outgrows chunkBytes.
THEOREM SorterIsSound == Spec => []Inv
<1>1. SorterInv => Inv
  <2> SUFFICES ASSUME SorterInv PROVE Inv
    OBVIOUS
  <2>1. TypeOK /\ NoScratchLeft
    BY DEF SorterInv, Endings
  <2>2. ChunksSorted
    <3>1. files \subseteq 1..Len(chunk)
      BY <2>1 DEF TypeOK
    <3>2. QED  BY <3>1 DEF ChunksSorted, SorterInv, Sorted, InOrder
  <2>3. ReadsWhatExists
    BY ReadingExists DEF ReadsWhatExists, SorterInv, Endings, InRound
  <2>4. BatchBounded
    BY DEF BatchBounded, SorterInv, BatchFits
  <2>5. QED  BY <2>1, <2>2, <2>3, <2>4 DEF Inv
<1>2. QED  BY <1>1, SorterInvariance, PTL

-------------------------------------------------------------------------------
(* The promise                                                             *)

\* Add accepts one rule, or refuses it.
LEMMA AddPromised ==
  ASSUME SorterInv, NEW r \in Rules,
         \/ AddFits(r) \/ AddFlushes(r) \/ AddRefused(r)
         \/ AddOversized(r) \/ AddOversizedFails(r)
  PROVE  Promise!Accept(r) \/ UNCHANGED Promise!vars
<1>1. pc = "adding" /\ pc' = "adding" /\ output' = output
  BY DEF AddFits, AddFlushes, AddRefused, AddOversized, AddOversizedFails, Adding
<1>2. CASE Accept(r)
  <2>1. Accepted' = Accepted \cup {r}
    BY <1>2, AcceptIs DEF SorterInv
  <2>2. QED  BY <1>1, <2>1 DEF Promise!Accept
<1>3. CASE added' = added
  <2>1. Accepted' = Accepted
    BY <1>3 DEF Accepted
  <2>2. QED  BY <1>1, <2>1 DEF Promise!vars
<1>4. QED  BY <1>2, <1>3 DEF AddFits, AddFlushes, AddRefused, AddOversized, AddOversizedFails

\* Finish closes the set, publishes it or fails.
LEMMA ClosePromised ==
  ASSUME SorterInv, FinishStarts
  PROVE  Promise!Close
<1>1. pc = "adding" /\ pc' = "round" /\ output' = output /\ added' = added
  BY DEF FinishStarts
<1>2. Accepted' = Accepted
  BY <1>1 DEF Accepted
<1>3. QED  BY <1>1, <1>2, FinishStartsKeeps DEF Promise!Close

\* A return with an error keeps the old list, as promised.
LEMMA FailPromised ==
  ASSUME SorterInv, FinishEmpty \/ FinishRefused \/ MergeFails
  PROVE  Promise!Fail
<1>1. /\ pc \in {"adding", "group", "merge", "final"} /\ pc' = "failed"
      /\ output' = output /\ added' = added
  BY DEF FinishEmpty, FinishRefused, MergeFails, FinishFails
<1>2. Accepted' = Accepted
  BY <1>1 DEF Accepted
<1>3. QED  BY <1>1, <1>2 DEF Promise!Fail

\* The rename publishes the sorted set of the accepted rules, as promised.
LEMMA PublishPromised ==
  ASSUME SorterInv, Published
  PROVE  Promise!Publish
<1>1. pc = "final" /\ pc' = "done" /\ added' = added
  BY DEF Published
<1>2. Accepted' = Accepted
  BY <1>1 DEF Accepted
<1>3. ToSet(output') = Accepted' /\ Increasing(output')
  BY <1>1, PublishedKeeps DEF OutputIsSortedSet
<1>4. {output'[i] : i \in DOMAIN output'} = Accepted
  BY <1>2, <1>3 DEF ToSet
<1>5. \A i, j \in DOMAIN output' : i < j => output'[i] < output'[j]
  BY <1>3 DEF Increasing
<1>6. QED  BY <1>1, <1>2, <1>4, <1>5 DEF Promise!Publish, Promise!InOrder

\* What Finish does in between does not show.
LEMMA MergePromised ==
  ASSUME SorterInv,
         \/ RoundStarts \/ GroupStarts \/ GroupMerged \/ RoundEnds \/ FinalStarts
         \/ \E i : MergeLine(i)
  PROVE  UNCHANGED Promise!vars
<1>1. /\ pc \in {"round", "group", "merge", "final"} /\ pc' \in {"round", "group", "merge", "final"}
      /\ output' = output /\ added' = added
  BY DEF RoundStarts, GroupStarts, GroupMerged, RoundEnds, FinalStarts, MergeLine,
         StartMerge, Merging
<1>2. Accepted' = Accepted
  BY <1>1 DEF Accepted
<1>3. QED  BY <1>1, <1>2 DEF Promise!vars

\* The sorter implements RuleSet: one step replaces the old list by the sorted set of
\* the accepted rules, or it stays (sorter.go:131-176).
THEOREM SorterKeepsItsPromise == Spec => ImplementsRuleSet
<1>1. Init => Promise!Init
  <2> SUFFICES ASSUME Init PROVE Promise!Init
    OBVIOUS
  <2>1. Accepted = {} /\ output = Old /\ pc = "adding"
    BY DEF Init, Accepted
  <2>2. QED  BY <2>1 DEF Promise!Init
<1>2. SorterInv /\ [Next]_vars => [Promise!Next]_(Promise!vars)
  <2> SUFFICES ASSUME SorterInv, [Next]_vars PROVE [Promise!Next]_(Promise!vars)
    OBVIOUS
  <2>1. CASE UNCHANGED vars
    <3>1. pc' = pc /\ output' = output /\ added' = added
      BY <2>1 DEF vars
    <3>2. Accepted' = Accepted
      BY <3>1 DEF Accepted
    <3>3. QED  BY <3>1, <3>2 DEF Promise!vars
  <2>2. CASE \E r \in Rules : \/ AddFits(r) \/ AddFlushes(r) \/ AddRefused(r)
                              \/ AddOversized(r) \/ AddOversizedFails(r)
    BY <2>2, AddPromised DEF Promise!Next
  <2>3. CASE FinishStarts
    BY <2>3, ClosePromised DEF Promise!Next
  <2>4. CASE FinishEmpty \/ FinishRefused \/ MergeFails
    BY <2>4, FailPromised DEF Promise!Next
  <2>5. CASE Published
    BY <2>5, PublishPromised DEF Promise!Next
  <2>6. CASE \/ RoundStarts \/ GroupStarts \/ GroupMerged \/ RoundEnds \/ FinalStarts
             \/ \E i : MergeLine(i)
    BY <2>6, MergePromised
  <2>7. QED  BY <2>1, <2>2, <2>3, <2>4, <2>5, <2>6, StepsAre
<1>3. QED  BY <1>1, <1>2, SorterInvariance, PTL DEF Spec, ImplementsRuleSet, Promise!Spec
===============================================================================
