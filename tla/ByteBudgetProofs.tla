--------------------------- MODULE ByteBudgetProofs ---------------------------
(***************************************************************************)
(* Proofs about ByteBudget for every number of workers, limit, source size *)
(* and buffer size. Inv is inductive; its parts are kept by separate       *)
(* lemmas (types, bytes, waiters), each with one step per action.          *)
(***************************************************************************)
EXTENDS ByteBudget, FoundationProofs, FiniteSetTheorems

\* Fewer locations than actions: the actions of one worker, one by one.
LEMMA StepCases ==
  ASSUME Next
  PROVE  \/ \E n \in 1..MaxSource : ChargeCached(n)
         \/ StartWorkers
         \/ UNCHANGED vars
         \/ \E w \in Workers :
              \/ Begin(w) \/ ReserveBytes(w) \/ ReserveWaits(w) \/ ReserveRefused(w)
              \/ \E n \in 0..BufBytes, e \in BodyStates : ReadReturns(w, n, e)
              \/ \E n \in 0..BufBytes : WriteChunk(w, n)
              \/ \E e \in ProbeOutcomes : Probe(w, e)
              \/ RejectOversize(w) \/ RejectEmpty(w) \/ RejectFile(w) \/ PublishFile(w)
              \/ Refund(w)
BY DEF Next, Scan, CacheOverflow, WorkerStep, Reserve, Read, Write, Probing, Finish

\* Broadcast moves waiters between two locations and touches no other worker.
LEMMA WokenType ==
  ASSUME pc \in [Workers -> Locations]
  PROVE  /\ Woken(pc) \in [Workers -> Locations]
         /\ \A v \in Workers : pc[v] # "asleep" => Woken(pc)[v] = pc[v]
         /\ \A v \in Workers : pc[v] = "asleep" => Woken(pc)[v] = "reserve"
BY DEF Woken, Locations

Readers == {w \in Workers : pc[w] = "read"}

\* There are finitely many readers, and a worker in a Read is one of them.
LEMMA ReadersFinite ==
  /\ IsFiniteSet(Readers)
  /\ Cardinality(Readers) \in Nat
  /\ Cardinality(Readers) = 0 <=> \A w \in Workers : pc[w] # "read"
<1>1. IsFiniteSet(Workers)
  BY BudgetAssumption, FS_Interval DEF Workers
<1>2. IsFiniteSet(Readers)
  BY <1>1, FS_Subset DEF Readers
<1>3. QED
  BY <1>2, FS_CardinalityType, FS_EmptySet DEF Readers

\* So activeReads is not zero while some worker reads.
LEMMA SomeReader ==
  ASSUME ReadersCounted, NEW w \in Workers, pc[w] = "read"
  PROVE  activeReads # 0
BY ReadersFinite DEF ReadersCounted, Readers

-------------------------------------------------------------------------------
(* Types                                                                   *)

\* The initial state has the types.
LEMMA InitType == Init => TypeOK
<1>1. Zero \in [Workers -> 0..BufBytes] /\ Zero \in [Workers -> 0..(MaxSource + 1)]
      /\ Zero \in [Workers -> Nat]
  BY BudgetAssumption DEF Zero
<1> SUFFICES ASSUME Init PROVE TypeOK
  OBVIOUS
<1>2. /\ remaining \in Int /\ (started => remaining \in Nat)
      /\ activeReads \in Nat /\ cached \in Nat /\ started \in BOOLEAN
  <2>1. remaining = Limit /\ activeReads = 0 /\ cached = 0 /\ started \in BOOLEAN
    BY DEF Init
  <2>2. remaining \in Int /\ remaining \in Nat /\ activeReads \in Nat /\ cached \in Nat
    BY <2>1, BudgetAssumption
  <2>3. QED  BY <2>1, <2>2
<1>3. pc \in [Workers -> Locations] /\ status \in [Workers -> Statuses]
  BY DEF Init, Locations, Statuses
<1>4. QED  BY <1>1, <1>2, <1>3 DEF Init, TypeOK

\* Every step keeps them: in particular no worker takes more than the balance.
LEMMA NextType ==
  ASSUME TypeOK, ReadersCounted, Next
  PROVE  TypeOK'
<1> USE BudgetAssumption
<1>1. CASE \E n \in 1..MaxSource : ChargeCached(n)
  BY <1>1 DEF TypeOK, ChargeCached
<1>2. CASE StartWorkers
  BY <1>2 DEF TypeOK, StartWorkers
<1>3. CASE UNCHANGED vars
  BY <1>3 DEF TypeOK, vars
<1>4. ASSUME NEW w \in Workers, Begin(w) PROVE TypeOK'
  BY <1>4 DEF TypeOK, Begin, Locations, Statuses
<1>5. ASSUME NEW w \in Workers, ReserveBytes(w) PROVE TypeOK'
  <2>1. LesserOf(BufBytes, remaining) \in 0..BufBytes
        /\ LesserOf(BufBytes, remaining) <= remaining
    BY <1>5 DEF TypeOK, ReserveBytes, LesserOf
  <2>2. want'[w] = LesserOf(BufBytes, remaining)
    BY <1>5 DEF TypeOK, ReserveBytes
  <2>3. remaining' \in Nat
    BY <1>5, <2>1, <2>2 DEF TypeOK, ReserveBytes
  <2>4. QED  BY <1>5, <2>1, <2>3 DEF TypeOK, ReserveBytes, Locations
<1>6. ASSUME NEW w \in Workers, ReserveWaits(w) PROVE TypeOK'
  BY <1>6 DEF TypeOK, ReserveWaits, Locations
<1>7. ASSUME NEW w \in Workers, ReserveRefused(w) PROVE TypeOK'
  BY <1>7 DEF TypeOK, ReserveRefused, Locations
<1>8. ASSUME NEW w \in Workers, NEW n \in 0..BufBytes, NEW e \in BodyStates,
             ReadReturns(w, n, e)
      PROVE  TypeOK'
  <2>1. pc' \in [Workers -> Locations]
    BY <1>8, WokenType DEF TypeOK, ReadReturns, Locations, AfterCopy
  <2>2. activeReads' \in Nat
    BY <1>8, SomeReader DEF TypeOK, ReadReturns
  <2>3. QED  BY <1>8, <2>1, <2>2 DEF TypeOK, ReadReturns, Statuses, BodyStates
<1>9. ASSUME NEW w \in Workers, NEW n \in 0..BufBytes, WriteChunk(w, n) PROVE TypeOK'
  BY <1>9 DEF TypeOK, WriteChunk, Locations, Statuses, AfterCopy
<1>11. ASSUME NEW w \in Workers, NEW e \in ProbeOutcomes, Probe(w, e) PROVE TypeOK'
  BY <1>11 DEF TypeOK, Probe, Locations, Statuses, AfterCopy, ProbeOutcomes
<1>12. ASSUME NEW w \in Workers, RejectOversize(w) PROVE TypeOK'
  BY <1>12 DEF TypeOK, RejectOversize, Locations, Statuses
<1>13. ASSUME NEW w \in Workers, RejectEmpty(w) PROVE TypeOK'
  BY <1>13 DEF TypeOK, RejectEmpty, Locations, Statuses
<1>14. ASSUME NEW w \in Workers, RejectFile(w) PROVE TypeOK'
  BY <1>14 DEF TypeOK, RejectFile, Locations, Statuses
<1>15. ASSUME NEW w \in Workers, PublishFile(w) PROVE TypeOK'
  BY <1>15 DEF TypeOK, PublishFile, Locations, Statuses
<1>16. ASSUME NEW w \in Workers, Refund(w) PROVE TypeOK'
  BY <1>16, WokenType DEF TypeOK, Refund, Locations
<1>17. QED
  BY <1>1, <1>2, <1>3, <1>4, <1>5, <1>6, <1>7, <1>8, <1>9, <1>11,
     <1>12, <1>13, <1>14, <1>15, <1>16, StepCases

-------------------------------------------------------------------------------
(* Who reads and who waits                                                 *)

\* A worker that starts or ends a Read changes the number of readers by one,
\* every other step leaves it alone.
LEMMA ReadersChange ==
  ASSUME NEW w \in Workers
  PROVE  /\ pc[w] # "read" => Cardinality(Readers \cup {w}) = Cardinality(Readers) + 1
         /\ pc[w] = "read" => Cardinality(Readers \ {w}) = Cardinality(Readers) - 1
<1>1. IsFiniteSet(Readers) /\ Cardinality(Readers) \in Nat
  BY ReadersFinite
<1>2. ASSUME pc[w] # "read"
      PROVE  Cardinality(Readers \cup {w}) = Cardinality(Readers) + 1
  <2>1. w \notin Readers
    BY <1>2 DEF Readers
  <2>2. QED  BY <1>1, <2>1, FS_AddElement
<1>3. ASSUME pc[w] = "read"
      PROVE  Cardinality(Readers \ {w}) = Cardinality(Readers) - 1
  <2>1. w \in Readers
    BY <1>3 DEF Readers
  <2>2. QED  BY <1>1, <2>1, FS_RemoveElement
<1>4. QED  BY <1>2, <1>3

\* Every step keeps activeReads equal to the number of Reads in progress.
LEMMA NextReaders ==
  ASSUME TypeOK, ReadersCounted, Next
  PROVE  ReadersCounted'
<1> USE BudgetAssumption
<1>0. activeReads = Cardinality(Readers)
  BY DEF ReadersCounted, Readers
<1>1. SUFFICES activeReads' = Cardinality(Readers')
  BY DEF ReadersCounted, Readers
<1>2. ASSUME NEW w \in Workers, ReserveBytes(w) PROVE activeReads' = Cardinality(Readers')
  <2>1. Readers' = Readers \cup {w} /\ pc[w] # "read"
    BY <1>2 DEF ReserveBytes, Readers, TypeOK
  <2>2. QED  BY <1>0, <1>2, <2>1, ReadersChange DEF ReserveBytes
<1>3. ASSUME NEW w \in Workers, NEW n \in 0..BufBytes, NEW e \in BodyStates,
             ReadReturns(w, n, e)
      PROVE  activeReads' = Cardinality(Readers')
  <2>1. AfterCopy(e) # "read" /\ pc[w] = "read"
    BY <1>3 DEF AfterCopy, ReadReturns
  <2>2. Readers' = Readers \ {w}
    BY <1>3, <2>1, WokenType DEF ReadReturns, Readers, TypeOK
  <2>3. QED  BY <1>0, <1>3, <2>1, <2>2, ReadersChange DEF ReadReturns
<1>4. ASSUME activeReads' = activeReads, Readers' = Readers
      PROVE  activeReads' = Cardinality(Readers')
  BY <1>0, <1>4
<1>5. ASSUME NEW n \in 1..MaxSource, ChargeCached(n) PROVE activeReads' = Cardinality(Readers')
  BY <1>4, <1>5 DEF ChargeCached, Readers
<1>6. CASE StartWorkers
  BY <1>4, <1>6 DEF StartWorkers, Readers
<1>7. CASE UNCHANGED vars
  BY <1>4, <1>7 DEF vars, Readers
<1>8. ASSUME NEW w \in Workers,
             \/ Begin(w) \/ ReserveWaits(w) \/ ReserveRefused(w)
             \/ RejectOversize(w) \/ RejectEmpty(w) \/ RejectFile(w) \/ PublishFile(w)
      PROVE  activeReads' = Cardinality(Readers')
  BY <1>4, <1>8 DEF TypeOK, Readers, Begin, ReserveWaits, ReserveRefused,
                    RejectOversize, RejectEmpty, RejectFile, PublishFile
<1>9. ASSUME NEW w \in Workers, NEW n \in 0..BufBytes, WriteChunk(w, n)
      PROVE  activeReads' = Cardinality(Readers')
  BY <1>4, <1>9 DEF TypeOK, Readers, WriteChunk, AfterCopy
<1>10. ASSUME NEW w \in Workers, NEW e \in ProbeOutcomes, Probe(w, e)
       PROVE  activeReads' = Cardinality(Readers')
  BY <1>4, <1>10 DEF TypeOK, Readers, Probe, AfterCopy
<1>11. ASSUME NEW w \in Workers, Refund(w) PROVE activeReads' = Cardinality(Readers')
  <2>1. Readers' = Readers
    BY <1>11, WokenType DEF TypeOK, Readers, Refund
  <2>2. QED  BY <1>4, <1>11, <2>1 DEF Refund
<1>12. QED
  BY <1>2, <1>3, <1>5, <1>6, <1>7, <1>8, <1>9, <1>10, <1>11, StepCases

\* Every step leaves a reader behind for each waiter, or no waiter.
LEMMA NextWaiters ==
  ASSUME TypeOK, ReadersCounted, NoLostWakeup, Next
  PROVE  NoLostWakeup'
<1> USE BudgetAssumption
<1>1. SUFFICES ASSUME NEW w \in Workers, pc'[w] = "asleep"
               PROVE  remaining' <= 0 /\ \E v \in Workers : pc'[v] = "read"
  BY DEF NoLostWakeup
<1> DEFINE Goal == remaining' <= 0 /\ \E v \in Workers : pc'[v] = "read"
<1>2. ASSUME pc' = pc, remaining' \in Int, remaining' <= remaining PROVE Goal
  BY <1>1, <1>2 DEF NoLostWakeup, TypeOK
<1>3. ASSUME NEW u \in Workers, NEW loc \in Locations \ {"asleep"},
             remaining' = remaining, pc[u] # "read", pc' = [pc EXCEPT ![u] = loc]
      PROVE  Goal
  <2>1. w # u /\ pc[w] = "asleep"
    BY <1>1, <1>3 DEF TypeOK
  <2>2. remaining <= 0 /\ \E v \in Workers : pc[v] = "read"
    BY <2>1 DEF NoLostWakeup
  <2>3. QED  BY <1>3, <2>2 DEF TypeOK
<1>4. ASSUME NEW n \in 1..MaxSource, ChargeCached(n) PROVE Goal
  BY <1>2, <1>4 DEF ChargeCached, TypeOK
<1>5. CASE StartWorkers
  BY <1>2, <1>5 DEF StartWorkers, TypeOK
<1>6. CASE UNCHANGED vars
  BY <1>2, <1>6 DEF vars, TypeOK
<1>7. ASSUME NEW u \in Workers, ReserveBytes(u) PROVE Goal
  <2>1. pc[w] = "asleep" /\ remaining > 0
    BY <1>1, <1>7 DEF ReserveBytes, TypeOK
  <2>2. QED  BY <2>1 DEF NoLostWakeup, TypeOK
<1>8. ASSUME NEW u \in Workers, ReserveWaits(u) PROVE Goal
  <2>1. \E v \in Workers : pc[v] = "read"
    BY <1>8, ReadersFinite DEF ReserveWaits, ReadersCounted, Readers
  <2>2. QED  BY <1>8, <2>1 DEF ReserveWaits, TypeOK
<1>9. ASSUME NEW u \in Workers, NEW n \in 0..BufBytes, NEW e \in BodyStates,
             ReadReturns(u, n, e)
      PROVE  Goal
  \* Broadcast leaves no waiter at all.
  <2>1. pc'[w] # "asleep"
    BY <1>9, WokenType DEF ReadReturns, AfterCopy, TypeOK
  <2>2. QED  BY <1>1, <2>1
<1>10. ASSUME NEW u \in Workers, Refund(u) PROVE Goal
  <2>1. pc'[w] # "asleep"
    BY <1>10, WokenType DEF Refund, TypeOK
  <2>2. QED  BY <1>1, <2>1
<1>11. ASSUME NEW u \in Workers, Begin(u) \/ ReserveRefused(u) \/ RejectOversize(u)
              \/ RejectEmpty(u) \/ RejectFile(u) \/ PublishFile(u)
       PROVE  Goal
  <2>1. remaining' = remaining /\ pc[u] # "read"
    BY <1>11 DEF Begin, ReserveRefused, RejectOversize, RejectEmpty, RejectFile, PublishFile
  <2>2. \E loc \in Locations \ {"asleep"} : pc' = [pc EXCEPT ![u] = loc]
    BY <1>11 DEF Begin, ReserveRefused, RejectOversize, RejectEmpty, RejectFile,
                 PublishFile, Locations
  <2>3. QED  BY <1>3, <2>1, <2>2
<1>12. ASSUME NEW u \in Workers, NEW n \in 0..BufBytes, WriteChunk(u, n)
       PROVE  Goal
  <2>1. remaining' = remaining /\ pc[u] # "read"
    BY <1>12 DEF WriteChunk
  <2>2. \E loc \in Locations \ {"asleep"} : pc' = [pc EXCEPT ![u] = loc]
    BY <1>12 DEF WriteChunk, AfterCopy, Locations
  <2>3. QED  BY <1>3, <2>1, <2>2
<1>13. ASSUME NEW u \in Workers, NEW e \in ProbeOutcomes, Probe(u, e) PROVE Goal
  <2>1. remaining' = remaining /\ pc[u] # "read"
    BY <1>13 DEF Probe
  <2>2. \E loc \in Locations \ {"asleep"} : pc' = [pc EXCEPT ![u] = loc]
    BY <1>13 DEF Probe, AfterCopy, Locations
  <2>3. QED  BY <1>3, <2>1, <2>2
<1>14. QED
  BY <1>4, <1>5, <1>6, <1>7, <1>8, <1>9, <1>10, <1>11, <1>12, <1>13, StepCases

-------------------------------------------------------------------------------
(* Bytes                                                                   *)

\* Every step keeps reservations inside Reads and the temporary files no
\* longer than what was received.
LEMMA NextBookkeeping ==
  ASSUME TypeOK, Bookkeeping, Next
  PROVE  Bookkeeping'
<1> USE BudgetAssumption
<1>1. CASE \/ \E n \in 1..MaxSource : ChargeCached(n)
           \/ StartWorkers
           \/ UNCHANGED vars
  BY <1>1 DEF Bookkeeping, ChargeCached, StartWorkers, vars
<1>2. ASSUME NEW w \in Workers, Begin(w) \/ ReserveWaits(w) \/ ReserveRefused(w)
      PROVE  Bookkeeping'
  BY <1>2 DEF TypeOK, Bookkeeping, Begin, ReserveWaits, ReserveRefused
<1>3. ASSUME NEW w \in Workers, ReserveBytes(w) PROVE Bookkeeping'
  <2>1. /\ \A v \in Workers \ {w} : want'[v] = want[v] /\ pc'[v] = pc[v]
        /\ pc[w] = "reserve" /\ pc'[w] = "read" /\ UNCHANGED <<got, written>>
    BY <1>3 DEF TypeOK, ReserveBytes
  <2>2. QED  BY <2>1 DEF TypeOK, Bookkeeping
<1>4. ASSUME NEW w \in Workers, NEW n \in 0..BufBytes, NEW e \in BodyStates,
             ReadReturns(w, n, e)
      PROVE  Bookkeeping'
  <2>1. ASSUME NEW v \in Workers, v # w
        PROVE  /\ want'[v] = want[v] /\ got'[v] = got[v] /\ written'[v] = written[v]
               /\ pc'[v] = pc[v] \/ (pc[v] = "asleep" /\ pc'[v] = "reserve")
    BY <1>4, <2>1, WokenType DEF TypeOK, ReadReturns
  <2>2. /\ want'[w] = 0 /\ got'[w] = got[w] + n /\ written'[w] = written[w]
        /\ pc[w] = "read" /\ pc'[w] = IF n > 0 THEN "write" ELSE AfterCopy(e)
    BY <1>4, WokenType DEF TypeOK, ReadReturns
  <2>3. written[w] = got[w] /\ written[w] \in Nat /\ got[w] \in Nat
    BY <2>2 DEF TypeOK, Bookkeeping
  <2>4. /\ pc'[w] # "read"
        /\ written'[w] <= got'[w]
        /\ pc'[w] # "write" => written'[w] = got'[w]
    BY <2>2, <2>3 DEF AfterCopy
  <2>5. QED  BY <2>1, <2>2, <2>4 DEF Bookkeeping
<1>5. ASSUME NEW w \in Workers, NEW n \in 0..BufBytes, WriteChunk(w, n)
      PROVE  Bookkeeping'
  <2>1. /\ \A v \in Workers \ {w} : pc'[v] = pc[v] /\ written'[v] = written[v]
        /\ pc[w] = "write" /\ written'[w] = written[w] + n /\ UNCHANGED <<want, got>>
    BY <1>5 DEF TypeOK, WriteChunk
  <2>2. /\ pc'[w] # "read" /\ written'[w] <= got[w]
        /\ pc'[w] # "refund" \/ ~DiskFaults => written'[w] = got[w]
    BY <1>5 DEF TypeOK, WriteChunk, AfterCopy
  <2>3. QED  BY <2>1, <2>2 DEF Bookkeeping
<1>7. ASSUME NEW w \in Workers, NEW e \in ProbeOutcomes, Probe(w, e) PROVE Bookkeeping'
  BY <1>7 DEF TypeOK, Bookkeeping, Probe, AfterCopy
<1>8. ASSUME NEW w \in Workers, RejectOversize(w) \/ RejectEmpty(w) \/ RejectFile(w)
      PROVE  Bookkeeping'
  BY <1>8 DEF TypeOK, Bookkeeping, RejectOversize, RejectEmpty, RejectFile
<1>9. ASSUME NEW w \in Workers, PublishFile(w) PROVE Bookkeeping'
  BY <1>9 DEF TypeOK, Bookkeeping, PublishFile
<1>10. ASSUME NEW w \in Workers, Refund(w) PROVE Bookkeeping'
  <2>1. ASSUME NEW v \in Workers, v # w
        PROVE  /\ want'[v] = want[v] /\ got'[v] = got[v] /\ written'[v] = written[v]
               /\ pc'[v] = pc[v] \/ (pc[v] = "asleep" /\ pc'[v] = "reserve")
    BY <1>10, <2>1, WokenType DEF TypeOK, Refund
  <2>2. want'[w] = want[w] /\ got'[w] = 0 /\ written'[w] = 0 /\ pc[w] = "refund" /\ pc'[w] = "idle"
    BY <1>10, WokenType DEF TypeOK, Refund
  <2>3. QED  BY <2>1, <2>2 DEF Bookkeeping
<1>11. QED
  BY <1>1, <1>2, <1>3, <1>4, <1>5, <1>7, <1>8, <1>9, <1>10, StepCases

\* Nothing belongs to a worker before the workers start.
LEMMA NextNotBeforeStart ==
  ASSUME TypeOK, NotBeforeStart, Next
  PROVE  NotBeforeStart'
<1>1. CASE \/ \E n \in 1..MaxSource : ChargeCached(n)
           \/ StartWorkers
           \/ UNCHANGED vars
  BY <1>1 DEF NotBeforeStart, ChargeCached, StartWorkers, vars
<1>2. ASSUME NEW w \in Workers, started' = started, started \/ pc[w] # "idle"
      PROVE  NotBeforeStart'
  BY <1>2 DEF NotBeforeStart
<1>3. QED
  BY <1>1, <1>2, StepCases
     DEF Begin, ReserveBytes, ReserveWaits, ReserveRefused, ReadReturns, WriteChunk,
         Probe, RejectOversize, RejectEmpty, RejectFile, PublishFile, Refund

\* The sums are over naturals, and follow the change of one term.
LEMMA SumsNat ==
  ASSUME TypeOK
  PROVE  SumOf(want) \in Nat /\ SumOf(got) \in Nat /\ SumOf(published) \in Nat
<1>1. /\ want \in [1..NumWorkers -> Nat] /\ want \in [1..NumWorkers -> Int]
      /\ got \in [1..NumWorkers -> Nat] /\ got \in [1..NumWorkers -> Int]
      /\ published \in [1..NumWorkers -> Nat] /\ published \in [1..NumWorkers -> Int]
  BY BudgetAssumption DEF TypeOK, Workers
<1>2. QED  BY <1>1, BudgetAssumption, SumType DEF SumOf

\* Changing one worker's term changes the sum by the difference.
LEMMA SumChange ==
  ASSUME NEW f \in [Workers -> Int], NEW w \in Workers, NEW v \in Int
  PROVE  SumOf([f EXCEPT ![w] = v]) = SumOf(f) - f[w] + v
BY BudgetAssumption, SumUpdate DEF SumOf, Workers

\* No step creates bytes; only the refund of a file whose last Write failed
\* loses any.
LEMMA NextTotal ==
  ASSUME TypeOK, Bookkeeping, Next
  PROVE  Total' <= Total /\ (~DiskFaults => Total' = Total)
<1> DEFINE Goal == Total' <= Total /\ (~DiskFaults => Total' = Total)
<1>0. /\ SumOf(want) \in Nat /\ SumOf(got) \in Nat /\ SumOf(published) \in Nat
      /\ remaining \in Int /\ cached \in Nat
      /\ want \in [Workers -> Int] /\ got \in [Workers -> Int]
      /\ written \in [Workers -> Int] /\ published \in [Workers -> Int]
  BY SumsNat, BudgetAssumption DEF TypeOK
<1>1. ASSUME UNCHANGED <<want, got, published, remaining, cached>> PROVE Goal
  <2>1. Total' = Total
    BY <1>1 DEF Total
  <2>2. Total \in Int
    BY <1>0 DEF Total
  <2>3. QED  BY <2>1, <2>2
<1>2. ASSUME NEW n \in 1..MaxSource, ChargeCached(n) PROVE Goal
  BY <1>0, <1>2 DEF Total, ChargeCached
<1>3. CASE StartWorkers
  BY <1>1, <1>3 DEF StartWorkers
<1>4. CASE UNCHANGED vars
  BY <1>1, <1>4 DEF vars
<1>5. ASSUME NEW w \in Workers, ReserveBytes(w) PROVE Goal
  <2> DEFINE r == LesserOf(BufBytes, remaining)
  <2>1. r \in Int
    BY <1>0, BudgetAssumption DEF LesserOf
  <2> HIDE DEF r
  <2>2. want' = [want EXCEPT ![w] = r] /\ want[w] = 0
    BY <1>5 DEF ReserveBytes, Bookkeeping, r
  <2>3. want'[w] = r
    BY <2>2, <1>0
  <2>4. remaining' = remaining - r /\ UNCHANGED <<got, published, cached>>
    BY <1>5, <2>3 DEF ReserveBytes
  <2>5. SumOf(want') = SumOf(want) - want[w] + r
    BY <1>0, <2>1, <2>2, SumChange
  <2>6. SumOf(want') = SumOf(want) + r
    BY <1>0, <2>1, <2>2, <2>5
  <2>7. QED  BY <1>0, <2>1, <2>4, <2>6 DEF Total
<1>6. ASSUME NEW w \in Workers, NEW n \in 0..BufBytes, NEW e \in BodyStates,
             ReadReturns(w, n, e)
      PROVE  Goal
  <2>1. /\ remaining' = remaining + (want[w] - n)
        /\ want' = [want EXCEPT ![w] = 0]
        /\ got' = [got EXCEPT ![w] = got[w] + n]
        /\ UNCHANGED <<published, cached>>
    BY <1>6 DEF ReadReturns
  <2>2. n \in Int /\ want[w] \in Int /\ got[w] \in Int /\ got[w] + n \in Int /\ 0 \in Int
    BY <1>0, BudgetAssumption
  <2>3. SumOf(want') = SumOf(want) - want[w] + 0
    BY <1>0, <2>1, <2>2, SumChange, Zenon
  <2>4. SumOf(got') = SumOf(got) - got[w] + (got[w] + n)
    BY <1>0, <2>1, <2>2, SumChange, Zenon
  <2>5. QED  BY <1>0, <2>1, <2>2, <2>3, <2>4 DEF Total
<1>7. ASSUME NEW w \in Workers, PublishFile(w) PROVE Goal
  <2>1. /\ published' = [published EXCEPT ![w] = published[w] + got[w]]
        /\ got' = [got EXCEPT ![w] = 0]
        /\ UNCHANGED <<remaining, want, cached>>
    BY <1>7 DEF PublishFile
  <2>2. got[w] \in Int /\ published[w] \in Int /\ published[w] + got[w] \in Int /\ 0 \in Int
    BY <1>0
  <2>3. SumOf(got') = SumOf(got) - got[w] + 0
    BY <1>0, <2>1, <2>2, SumChange, Zenon
  <2>4. SumOf(published') = SumOf(published) - published[w] + (published[w] + got[w])
    BY <1>0, <2>1, <2>2, SumChange, Zenon
  <2>5. QED  BY <1>0, <2>1, <2>2, <2>3, <2>4 DEF Total
<1>8. ASSUME NEW w \in Workers, Refund(w) PROVE Goal
  <2>1. /\ remaining' = remaining + written[w]
        /\ got' = [got EXCEPT ![w] = 0]
        /\ UNCHANGED <<want, published, cached>>
    BY <1>8 DEF Refund
  <2>2. got[w] \in Int /\ written[w] \in Int /\ 0 \in Int
    BY <1>0
  <2>3. SumOf(got') = SumOf(got) - got[w] + 0
    BY <1>0, <2>1, <2>2, SumChange, Zenon
  <2>4. written[w] <= got[w] /\ (~DiskFaults => written[w] = got[w])
    BY <1>8 DEF Bookkeeping, Refund
  <2>5. QED  BY <1>0, <2>1, <2>2, <2>3, <2>4 DEF Total
<1>9. ASSUME NEW w \in Workers,
             \/ Begin(w) \/ ReserveWaits(w) \/ ReserveRefused(w)
             \/ \E n \in 0..BufBytes : WriteChunk(w, n)
             \/ \E e \in ProbeOutcomes : Probe(w, e)
             \/ RejectOversize(w) \/ RejectEmpty(w) \/ RejectFile(w)
      PROVE  Goal
  BY <1>1, <1>9 DEF Begin, ReserveWaits, ReserveRefused, WriteChunk,
                    Probe, RejectOversize, RejectEmpty, RejectFile
<1>10. QED
  BY <1>2, <1>3, <1>4, <1>5, <1>6, <1>7, <1>8, <1>9, StepCases

-------------------------------------------------------------------------------
(* Theorems                                                                *)

\* The initial state satisfies the inductive invariant; all bytes are left.
LEMMA InitInv == Init => Inv /\ Total = Limit
<1> SUFFICES ASSUME Init PROVE Inv /\ Total = Limit
  OBVIOUS
<1>1. TypeOK
  BY InitType
<1>2. Bookkeeping /\ NotBeforeStart /\ NoLostWakeup
  <2>1. \A w \in Workers : pc[w] = "idle" /\ want[w] = 0 /\ got[w] = 0
                           /\ written[w] = 0 /\ published[w] = 0
    BY DEF Init, Zero
  <2>2. QED  BY <2>1 DEF Bookkeeping, NotBeforeStart, NoLostWakeup
<1>3. Total = Limit
  <2>1. SumOf(Zero) = 0
    BY BudgetAssumption, SumOfZeros DEF SumOf, Zero, Workers
  <2>2. SumOf(want) = 0 /\ SumOf(got) = 0 /\ SumOf(published) = 0
    BY <2>1 DEF Init
  <2>3. QED  BY <2>2, BudgetAssumption DEF Init, Total
<1>4. ReadersCounted
  <2>1. Cardinality(Readers) = 0
    BY ReadersFinite DEF Init
  <2>2. QED  BY <2>1 DEF Init, ReadersCounted, Readers
<1>5. QED  BY <1>1, <1>2, <1>3, <1>4, BudgetAssumption DEF Inv

\* Every step keeps the inductive invariant.
LEMMA NextInv == Inv /\ [Next]_vars => Inv'
<1> SUFFICES ASSUME Inv, [Next]_vars PROVE Inv'
  OBVIOUS
<1>1. CASE Next
  <2>1. TypeOK' /\ ReadersCounted' /\ NoLostWakeup' /\ Bookkeeping' /\ NotBeforeStart'
    BY <1>1, NextType, NextReaders, NextWaiters, NextBookkeeping, NextNotBeforeStart DEF Inv
  <2>2. Total' <= Total
    BY <1>1, NextTotal DEF Inv
  <2>3. Total \in Int /\ Total' \in Int
    <3>1. Total \in Int
      BY SumsNat DEF Inv, TypeOK, Total
    <3>2. SumOf(want') \in Nat /\ SumOf(got') \in Nat /\ SumOf(published') \in Nat
      <4>1. want' \in [1..NumWorkers -> Nat] /\ want' \in [1..NumWorkers -> Int]
        BY <2>1, BudgetAssumption DEF TypeOK, Workers
      <4>2. got' \in [1..NumWorkers -> Nat] /\ got' \in [1..NumWorkers -> Int]
        BY <2>1, BudgetAssumption DEF TypeOK, Workers
      <4>3. published' \in [1..NumWorkers -> Nat] /\ published' \in [1..NumWorkers -> Int]
        BY <2>1, BudgetAssumption DEF TypeOK, Workers
      <4>4. QED  BY <4>1, <4>2, <4>3, BudgetAssumption, SumType DEF SumOf
    <3>3. QED  BY <2>1, <3>1, <3>2 DEF TypeOK, Total
  <2>4. Total' <= Limit
    BY <2>2, <2>3, BudgetAssumption DEF Inv
  <2>5. QED  BY <2>1, <2>4 DEF Inv
<1>2. CASE UNCHANGED vars
  BY <1>2 DEF vars, Inv, TypeOK, Bookkeeping, NotBeforeStart, Total, ReadersCounted, NoLostWakeup
<1>3. QED  BY <1>1, <1>2

\* The invariant holds in every reachable state.
THEOREM Invariance == Spec => []Inv
<1>1. Init => Inv
  BY InitInv
<1>2. QED  BY <1>1, NextInv, PTL DEF Spec

\* Every variable keeps its type: no reservation ever takes the balance below
\* zero once the workers run.
THEOREM TypeCorrect == Spec => []TypeOK
<1>1. Inv => TypeOK
  BY DEF Inv
<1>2. QED  BY <1>1, Invariance, PTL

\* Cached and published files never exceed the manifest's byte limit, for any
\* number of workers and with or without disk faults.
THEOREM LimitHolds == Spec => []WithinLimit
<1>1. Inv => WithinLimit
  <2> SUFFICES ASSUME Inv, started PROVE cached + SumOf(published) <= Limit
    BY DEF WithinLimit
  <2>1. SumOf(want) \in Nat /\ SumOf(got) \in Nat /\ SumOf(published) \in Nat
    BY SumsNat DEF Inv
  <2>2. remaining \in Nat /\ cached \in Nat /\ Total <= Limit
    BY DEF Inv, TypeOK
  <2>3. QED  BY <2>1, <2>2, BudgetAssumption DEF Total
<1>2. QED  BY <1>1, Invariance, PTL

\* No goroutine sleeps in reserve without a Read in progress to wake it.
THEOREM WakeupsNotLost == Spec => []NoLostWakeup
<1>1. Inv => NoLostWakeup
  BY DEF Inv
<1>2. QED  BY <1>1, Invariance, PTL

\* activeReads is the number of Reads in progress.
THEOREM ReadsCounted == Spec => []ReadersCounted
<1>1. Inv => ReadersCounted
  BY DEF Inv
<1>2. QED  BY <1>1, Invariance, PTL

\* Without disk faults a discarded attempt consumes nothing: every byte of the
\* limit is always accounted for.
THEOREM BooksAlwaysBalance ==
  ASSUME ~DiskFaults
  PROVE  Spec => []BooksBalance
<1>1. Init => BooksBalance
  BY InitInv DEF BooksBalance
<1>2. Inv /\ BooksBalance /\ [Next]_vars => BooksBalance'
  <2> SUFFICES ASSUME Inv, BooksBalance, [Next]_vars PROVE BooksBalance'
    OBVIOUS
  <2>1. CASE Next
    BY <2>1, NextTotal DEF Inv, BooksBalance
  <2>2. CASE UNCHANGED vars
    BY <2>2 DEF vars, BooksBalance, Total
  <2>3. QED  BY <2>1, <2>2
<1>3. QED  BY <1>1, <1>2, Invariance, PTL DEF Spec

-------------------------------------------------------------------------------
(* The budget implements the ledger                                        *)

\* What is available in the ledger: reserved bytes are not spent yet.
Available == remaining + SumOf(want)

\* Without disk faults every step is a step of the ledger or invisible in it.
LEMMA StepImplements ==
  ASSUME ~DiskFaults, Inv, Next
  PROVE  [Ledger!Next]_(Ledger!vars)
<1>0. /\ SumOf(want) \in Nat /\ remaining \in Int /\ cached \in Nat
      /\ want \in [Workers -> Nat]
      /\ want \in [Workers -> Int] /\ got \in [Workers -> Int]
      /\ Ledger!Workers = Workers
  <2>1. Ledger!Workers = Workers
    BY DEF Ledger!Workers, Workers
  <2>2. QED  BY <2>1, SumsNat, BudgetAssumption DEF Inv, TypeOK
<1> DEFINE Goal == Ledger!Next \/ UNCHANGED <<Available, got, published>>
<1>1. SUFFICES Goal
  BY DEF Ledger!vars, Available
<1>2. ASSUME UNCHANGED <<want, got, published, remaining>> PROVE Goal
  BY <1>2 DEF Available
<1>3. ASSUME NEW n \in 1..MaxSource, ChargeCached(n) PROVE Goal
  <2>1. got = Zero /\ published = Zero
    BY <1>3 DEF Inv, TypeOK, NotBeforeStart, ChargeCached, Zero
  <2>2. /\ remaining' + SumOf(want') \in Int
        /\ remaining' + SumOf(want') <= remaining + SumOf(want)
        /\ UNCHANGED <<got, published>>
    BY <1>0, <1>3 DEF ChargeCached
  <2>3. QED  BY <1>0, <2>1, <2>2 DEF Ledger!Next, Ledger!CountCached, Zero
<1>4. CASE StartWorkers
  BY <1>2, <1>4 DEF StartWorkers
<1>5. CASE UNCHANGED vars
  BY <1>2, <1>5 DEF vars
<1>6. ASSUME NEW w \in Workers, ReserveBytes(w) PROVE Goal
  <2> DEFINE r == LesserOf(BufBytes, remaining)
  <2>1. r \in Int
    BY <1>0, BudgetAssumption DEF LesserOf
  <2> HIDE DEF r
  <2>2. want' = [want EXCEPT ![w] = r] /\ want[w] = 0
    BY <1>6 DEF ReserveBytes, Inv, Bookkeeping, r
  <2>3. want'[w] = r
    BY <2>2, <1>0
  <2>4. remaining' = remaining - r /\ UNCHANGED <<got, published>>
    BY <1>6, <2>3 DEF ReserveBytes
  <2>5. SumOf(want') = SumOf(want) - want[w] + r
    BY <1>0, <2>1, <2>2, SumChange
  <2>6. Available' = Available
    BY <1>0, <2>1, <2>2, <2>4, <2>5 DEF Available
  <2>7. QED  BY <2>4, <2>6
<1>7. ASSUME NEW w \in Workers, NEW n \in 0..BufBytes, NEW e \in BodyStates,
             ReadReturns(w, n, e)
      PROVE  Goal
  <2>1. /\ remaining' = remaining + (want[w] - n) /\ n <= want[w]
        /\ want' = [want EXCEPT ![w] = 0]
        /\ got' = [got EXCEPT ![w] = got[w] + n]
        /\ UNCHANGED published
    BY <1>7 DEF ReadReturns
  <2>2. n \in Nat /\ want[w] \in Nat /\ want[w] \in Int /\ 0 \in Int /\ got[w] \in Int
    BY <1>0, BudgetAssumption
  <2>3. SumOf(want') = SumOf(want) - want[w] + 0
    BY <1>0, <2>1, <2>2, SumChange, Zenon
  <2>4. Available' = Available - n
    BY <1>0, <2>1, <2>2, <2>3 DEF Available
  <2>5. CASE n = 0
    <3>1. got' = got
      BY <1>0, <2>1, <2>2, <2>5
    <3>2. Available \in Int
      BY <1>0 DEF Available
    <3>3. QED  BY <2>1, <2>4, <2>5, <3>1, <3>2
  <2>6. CASE n # 0
    <3>1. want[w] <= SumOf(want)
      BY <1>0, BudgetAssumption, SumBoundsTerm DEF SumOf, Workers
    <3>2. remaining \in Nat
      BY <1>7, <2>1 DEF Inv, TypeOK, NotBeforeStart, ReadReturns
    <3>3. n \in 1..Available
      BY <1>0, <2>1, <2>2, <2>6, <3>1, <3>2 DEF Available
    <3>4. Ledger!Take(w)
      BY <2>1, <2>4, <3>3 DEF Ledger!Take, Available
    <3>5. QED  BY <1>0, <3>4 DEF Ledger!Next
  <2>7. QED  BY <2>5, <2>6
<1>8. ASSUME NEW w \in Workers, PublishFile(w) PROVE Goal
  <2>1. Ledger!Publish(w)
    BY <1>8 DEF PublishFile, Ledger!Publish
  <2>2. QED  BY <1>0, <2>1 DEF Ledger!Next
<1>9. ASSUME NEW w \in Workers, Refund(w) PROVE Goal
  <2>1. written[w] = got[w]
    BY <1>9 DEF Inv, Bookkeeping, Refund
  <2>2. Ledger!GiveBack(w)
    BY <1>0, <1>9, <2>1 DEF Refund, Ledger!GiveBack
  <2>3. QED  BY <1>0, <2>2 DEF Ledger!Next
<1>10. ASSUME NEW w \in Workers,
              \/ Begin(w) \/ ReserveWaits(w) \/ ReserveRefused(w)
              \/ \E n \in 0..BufBytes : WriteChunk(w, n)
              \/ \E e \in ProbeOutcomes : Probe(w, e)
              \/ RejectOversize(w) \/ RejectEmpty(w) \/ RejectFile(w)
       PROVE  Goal
  BY <1>2, <1>10 DEF Begin, ReserveWaits, ReserveRefused, WriteChunk,
                     Probe, RejectOversize, RejectEmpty, RejectFile
<1>11. QED
  BY <1>3, <1>4, <1>5, <1>6, <1>7, <1>8, <1>9, <1>10, StepCases

\* Seen from outside, the reservations, waits and partial settlements of the
\* budget are the ledger: bytes leave it one Read at a time, and those of a
\* discarded attempt come back all at once.
THEOREM BudgetImplementsLedger ==
  ASSUME ~DiskFaults
  PROVE  Spec => ImplementsLedger
<1>1. Init => Ledger!Init
  <2> SUFFICES ASSUME Init PROVE Ledger!Init
    OBVIOUS
  <2>1. SumOf(want) = 0
    BY BudgetAssumption, SumOfZeros DEF Init, SumOf, Zero, Workers
  <2>2. remaining + SumOf(want) = Limit
    BY <2>1, BudgetAssumption DEF Init
  <2>3. QED  BY <2>2 DEF Init, Zero, Ledger!Init, Ledger!Workers, Workers
<1>2. Inv /\ [Next]_vars => [Ledger!Next]_(Ledger!vars)
  <2>1. ASSUME Inv, Next PROVE [Ledger!Next]_(Ledger!vars)
    BY <2>1, StepImplements
  <2>2. ASSUME UNCHANGED vars PROVE UNCHANGED Ledger!vars
    BY <2>2 DEF vars, Ledger!vars
  <2>3. QED  BY <2>1, <2>2
<1>3. QED  BY <1>1, <1>2, Invariance, PTL DEF Spec, ImplementsLedger, Ledger!Spec
===============================================================================
