-------------------------- MODULE DownloadPoolProofs --------------------------
(***************************************************************************)
(* Proofs about DownloadPool, for any number of workers and sources, any   *)
(* sizes, limits, retries and deadlines, and any number of calls, crashes  *)
(* included.                                                               *)
(*                                                                         *)
(* The inductive invariant PoolInv is built one concern after the other:   *)
(* the budget (its own invariant, taken over from ByteBudgetProofs), types *)
(* and roles of the workers, who owns a source, how a call ends, and what  *)
(* bodies and files hold. What a call delivers rests on all of them.       *)
(***************************************************************************)
EXTENDS DownloadPool, FoundationProofs, FiniteSetTheorems, TLAPS

\* The budget of the pool, as the module with its proofs sees it. The lemmas
\* Same* say that it is the pool's `Budget'.
P == INSTANCE ByteBudgetProofs WITH MaxCachedBytes <- NumSources * MaxSource

\* The pool gives the budget constants it accepts.
LEMMA BudgetConstants == P!BudgetAssumption
<1>1. NumSources * MaxSource \in Nat
  BY PoolAssumption
<1>2. QED  BY <1>1, PoolAssumption DEF P!BudgetAssumption

\* Both instances sum alike.
LEMMA SameSum == ASSUME NEW f PROVE Budget!SumOf(f) = P!SumOf(f)
BY DEF Budget!SumOf, P!SumOf, Budget!SumTo, P!SumTo, Budget!PartialSums, P!PartialSums

\* Both instances count alike.
LEMMA SameCount == ASSUME NEW S PROVE Budget!Cardinality(S) = P!Cardinality(S)
BY DEF Budget!Cardinality, P!Cardinality, Budget!IsFiniteSet, P!IsFiniteSet

\* Both instances have one invariant.
LEMMA SameInv == Budget!Inv <=> P!Inv
<1>1. Budget!TypeOK <=> P!TypeOK
  BY DEF Budget!TypeOK, P!TypeOK, Budget!Workers, P!Workers, Budget!Locations, P!Locations, Budget!Statuses, P!Statuses
<1>2. Budget!Bookkeeping <=> P!Bookkeeping
  BY DEF Budget!Bookkeeping, P!Bookkeeping, Budget!Workers, P!Workers
<1>3. Budget!NotBeforeStart <=> P!NotBeforeStart
  BY DEF Budget!NotBeforeStart, P!NotBeforeStart, Budget!Workers, P!Workers
<1>4. Budget!NoLostWakeup <=> P!NoLostWakeup
  BY DEF Budget!NoLostWakeup, P!NoLostWakeup, Budget!Workers, P!Workers
<1>5. Budget!ReadersCounted <=> P!ReadersCounted
  BY SameCount DEF Budget!ReadersCounted, P!ReadersCounted, Budget!Workers, P!Workers
<1>6. Budget!Total = P!Total
  BY SameSum DEF Budget!Total, P!Total
<1>7. QED  BY <1>1, <1>2, <1>3, <1>4, <1>5, <1>6 DEF Budget!Inv, P!Inv

\* Both instances take the same steps.
LEMMA SameNext == Budget!Next <=> P!Next
<1> USE DEF Budget!Workers, P!Workers
<1>1. ASSUME NEW w PROVE Budget!WorkerStep(w) <=> P!WorkerStep(w)
  <2>1. Budget!Begin(w) <=> P!Begin(w)
    BY DEF Budget!Begin, P!Begin
  <2>2. Budget!Reserve(w) <=> P!Reserve(w)
    BY DEF Budget!Reserve, P!Reserve, Budget!ReserveBytes, P!ReserveBytes,
           Budget!ReserveWaits, P!ReserveWaits, Budget!ReserveRefused, P!ReserveRefused,
           Budget!LesserOf, P!LesserOf
  <2>3. Budget!Read(w) <=> P!Read(w)
    BY DEF Budget!Read, P!Read, Budget!ReadReturns, P!ReadReturns, Budget!BodyStates, P!BodyStates,
           Budget!Woken, P!Woken, Budget!AfterCopy, P!AfterCopy
  <2>4. Budget!Write(w) <=> P!Write(w)
    BY DEF Budget!Write, P!Write, Budget!WriteChunk, P!WriteChunk, Budget!AfterCopy, P!AfterCopy
  <2>5. Budget!Probing(w) <=> P!Probing(w)
    BY DEF Budget!Probing, P!Probing, Budget!Probe, P!Probe, Budget!AfterCopy, P!AfterCopy, Budget!ProbeOutcomes, P!ProbeOutcomes
  <2>6. Budget!Finish(w) <=> P!Finish(w)
    BY DEF Budget!Finish, P!Finish, Budget!RejectOversize, P!RejectOversize,
           Budget!RejectEmpty, P!RejectEmpty, Budget!RejectFile, P!RejectFile,
           Budget!PublishFile, P!PublishFile
  <2>7. Budget!Refund(w) <=> P!Refund(w)
    BY DEF Budget!Refund, P!Refund, Budget!Woken, P!Woken
  <2>8. QED  BY <2>1, <2>2, <2>3, <2>4, <2>5, <2>6, <2>7 DEF Budget!WorkerStep, P!WorkerStep
<1>2. Budget!Scan <=> P!Scan
  BY DEF Budget!Scan, P!Scan, Budget!ChargeCached, P!ChargeCached, Budget!StartWorkers, P!StartWorkers
<1>3. Budget!CacheOverflow <=> P!CacheOverflow
  BY DEF Budget!CacheOverflow, P!CacheOverflow, Budget!vars, P!vars
<1>4. QED  BY <1>1, <1>2, <1>3 DEF Budget!Next, P!Next

\* The budget starts in its invariant.
LEMMA BudgetInit == Budget!Init => Budget!Inv
<1>1. Budget!Init => P!Init
  BY DEF Budget!Init, P!Init, Budget!Zero, P!Zero, Budget!Workers, P!Workers
<1>2. P!Init => P!Inv
  BY P!InitInv, BudgetConstants
<1>3. QED  BY <1>1, <1>2, SameInv

\* A step of the budget keeps its invariant, inside the pool as well.
LEMMA BudgetStep ==
  ASSUME Budget!Inv, Budget!Next \/ UNCHANGED budgetVars
  PROVE  Budget!Inv'
<1>1. P!Inv /\ [P!Next]_(P!vars)
  BY SameInv, SameNext DEF budgetVars, P!vars
<1>2. P!Inv'
  BY <1>1, P!NextInv, BudgetConstants
<1>3. QED  BY <1>2, SameInv, PTL

\* A new manifest, or a restart, starts the budget anew.
LEMMA NewBudgetInv == Budget!NewBudget => Budget!Inv'
<1>1. Budget!NewBudget => P!Init'
  BY DEF Budget!NewBudget, P!Init, Budget!Zero, P!Zero, Budget!Workers, P!Workers
<1>2. P!Init => P!Inv
  BY P!InitInv, BudgetConstants
<1>3. QED  BY <1>1, <1>2, SameInv, PTL

-------------------------------------------------------------------------------
(* The steps                                                               *)

\* A step of the streaming of w's body that the pool does not see.
Streams(w) ==
  /\ Budget!Reserve(w) \/ Budget!Read(w) \/ Budget!Write(w) \/ Budget!Probing(w)
     \/ Budget!Finish(w) \/ Budget!Refund(w)
  /\ UNCHANGED poolVars

\* A step of a body either is the rename or only streams.
LEMMA BodyCases ==
  ASSUME NEW w \in Workers, BodyStep(w)
  PROVE  Streams(w) \/ PublishStep(w)
<1>1. CASE ReserveStep(w)
  BY <1>1 DEF ReserveStep, Streams
<1>2. CASE \E n \in 0..BufBytes, e \in Budget!BodyStates : ReadStep(w, n, e)
  BY <1>2 DEF ReadStep, Streams, Budget!Read
<1>3. CASE WriteStep(w)
  BY <1>3 DEF WriteStep, Streams
<1>4. CASE \E e \in Budget!ProbeOutcomes : ProbeStep(w, e)
  BY <1>4 DEF ProbeStep, Streams, Budget!Probing
<1>5. CASE RejectStep(w)
  BY <1>5 DEF RejectStep, Streams, Budget!Finish
<1>6. CASE RefundStep(w)
  BY <1>6 DEF RefundStep, Streams
<1>7. QED  BY <1>1, <1>2, <1>3, <1>4, <1>5, <1>6 DEF BodyStep

\* What an attempt's end does to the pool's variables.
LEMMA AttemptEnds ==
  ASSUME NEW w \in Workers, NEW e, EndAttempt(w, e)
  PROVE  \/ \E r \in {"ok", "ctx", "failed", "tooLarge"} :
              Settle(w, r) /\ (r = "ok" => e = "ok") /\ (r = "ctx" => ctxDone)
         \/ /\ attempt[w] <= EffectiveRetries
            /\ phase' = [phase EXCEPT ![w] = "backoff"]
            /\ UNCHANGED <<job, attempt, result>>
BY DEF EndAttempt

-------------------------------------------------------------------------------
(* The budget                                                              *)

FilesFit == /\ file \in [Sources -> Files]
            /\ \A u \in Sources : file[u] = "good" => CouldBeCached(u)

CachedFits == scanned \in 0..NumSources /\ cached <= scanned * MaxSource

\* Another cache hit leaves the charged bytes below their bound.
LEMMA Scanned ==
  ASSUME NEW n \in 0..(NumSources - 1)
  PROVE  /\ (n + 1) * MaxSource = n * MaxSource + MaxSource
         /\ n * MaxSource + MaxSource <= NumSources * MaxSource
<1>1. n \in Nat /\ NumSources \in Nat /\ MaxSource \in Nat /\ n + 1 <= NumSources
  BY PoolAssumption
<1>2. (n + 1) * MaxSource = n * MaxSource + MaxSource
  BY <1>1
<1>3. (n + 1) * MaxSource <= NumSources * MaxSource
  BY <1>1
<1>4. QED  BY <1>1, <1>2, <1>3

\* Every step of the pool keeps the budget's invariant; the cache holds files of
\* allowed size only, so the charges of a scan are bounded.
LEMMA NextBudget ==
  ASSUME Budget!Inv, FilesFit, CachedFits, [Next]_vars
  PROVE  Budget!Inv' /\ FilesFit' /\ CachedFits'
<1> USE PoolAssumption
<1> DEFINE Goal == Budget!Inv' /\ FilesFit' /\ CachedFits'
<1>0. cached \in Nat
  BY DEF Budget!Inv, Budget!TypeOK
<1>1. ASSUME NEW u \in Sources, ScanHit(u) PROVE Goal
  <2>1. Size[u] \in 1..MaxSource /\ u = scanned + 1 /\ scanned \in 0..(NumSources - 1)
    BY <1>1 DEF ScanHit, Scanning, FilesFit, CouldBeCached, CachedFits, Sources
  <2>2. cached + Size[u] <= (scanned + 1) * MaxSource
        /\ cached + Size[u] <= NumSources * MaxSource
    <3>1. cached <= scanned * MaxSource
      BY DEF CachedFits
    <3>2. scanned * MaxSource \in Nat /\ NumSources * MaxSource \in Nat
          /\ (scanned + 1) * MaxSource \in Nat
      BY <2>1
    <3>3. /\ (scanned + 1) * MaxSource = scanned * MaxSource + MaxSource
          /\ scanned * MaxSource + MaxSource <= NumSources * MaxSource
      BY <2>1, Scanned
    <3>4. QED  BY <3>1, <3>2, <3>3, <2>1, <1>0
  <2>3. Budget!Next
    BY <1>1, <2>1, <2>2 DEF ScanHit, Budget!Next, Budget!Scan
  <2>4. Budget!Inv'
    BY <2>3, BudgetStep
  <2>5. cached' = cached + Size[u] /\ scanned' = scanned + 1 /\ file' = file
    BY <1>1, <2>1 DEF ScanHit, Budget!ChargeCached, diskVars
  <2>6. QED  BY <2>1, <2>2, <2>4, <2>5 DEF FilesFit, CachedFits
<1>2. ASSUME NEW u \in Sources, ScanMiss(u) PROVE Goal
  <2>1. u = scanned + 1 /\ scanned \in 0..(NumSources - 1)
    BY <1>2 DEF ScanMiss, Scanning, CachedFits, Sources
  <2>2. Budget!Inv' /\ cached' = cached /\ scanned' = scanned + 1
    BY <1>2, <2>1, BudgetStep DEF ScanMiss, budgetVars
  <2>3. cached <= scanned * MaxSource /\ scanned * MaxSource \in Nat
        /\ (scanned + 1) * MaxSource = scanned * MaxSource + MaxSource
    BY <2>1, Scanned DEF CachedFits
  <2>4. CachedFits'
    BY <1>0, <2>1, <2>2, <2>3 DEF CachedFits
  <2>5. FilesFit'
    BY <1>2 DEF ScanMiss, FilesFit, Files
  <2>6. QED  BY <2>2, <2>4, <2>5
<1>3. ASSUME Budget!Next \/ UNCHANGED budgetVars, UNCHANGED <<cached, scanned, file>>
      PROVE  Goal
  BY <1>3, BudgetStep DEF FilesFit, CachedFits
<1>4. CASE StartWorkers
  <2>1. Budget!Next
    BY <1>4 DEF StartWorkers, Budget!Next, Budget!Scan
  <2>2. QED  BY <1>3, <1>4, <2>1 DEF StartWorkers, Budget!StartWorkers, diskVars
<1>5. CASE Enter \/ ScanOverflows \/ AllCached \/ Join \/ Cancel \/ UNCHANGED vars
  BY <1>3, <1>5 DEF Enter, ScanOverflows, AllCached, Join, Cancel, Return, vars, budgetVars,
                    diskVars, poolVars
<1>6. CASE CallAgain
  <2>1. Budget!Inv'
    BY <1>6, NewBudgetInv DEF CallAgain
  <2>2. FilesFit' /\ CachedFits'
    BY <1>6 DEF CallAgain, FilesFit, CachedFits, Budget!NewBudget
  <2>3. QED  BY <2>1, <2>2
<1>7. ASSUME NEW w \in Workers, WorkerStep(w) PROVE Goal
  <2>1. CASE \/ TakeJob(w) \/ WorkerExits(w) \/ TimerFires(w) \/ BackoffCancelled(w)
             \/ (\E e \in RequestErrors : RequestFails(w, e)) \/ AttemptReturns(w)
    BY <1>3, <2>1 DEF TakeJob, WorkerExits, TimerFires, BackoffCancelled, RequestFails,
                      AttemptReturns, budgetVars, callVars, diskVars
  <2>2. CASE \E p \in Pages : RequestSucceeds(w, p)
    <3>1. Budget!Next
      BY <2>2 DEF RequestSucceeds, Budget!Next, Budget!WorkerStep, Workers
    <3>2. QED  BY <1>3, <2>2, <3>1 DEF RequestSucceeds, Budget!Begin, callVars
  <2>3. CASE Streams(w)
    <3>1. Budget!Next
      BY <2>3 DEF Streams, Budget!Next, Budget!WorkerStep, Workers
    <3>2. cached' = cached
      BY <2>3 DEF Streams, Budget!Reserve, Budget!ReserveBytes, Budget!ReserveWaits,
                  Budget!ReserveRefused, Budget!Read, Budget!ReadReturns, Budget!Write,
                  Budget!WriteChunk, Budget!Probing, Budget!Probe, Budget!Finish,
                  Budget!RejectOversize, Budget!RejectEmpty, Budget!RejectFile,
                  Budget!PublishFile, Budget!Refund
    <3>3. QED  BY <1>3, <2>3, <3>1, <3>2 DEF Streams, poolVars
  <2>4. CASE PublishStep(w)
    <3>1. Budget!Next
      BY <2>4 DEF PublishStep, Budget!Next, Budget!WorkerStep, Budget!Finish, Workers
    <3>2. Budget!Inv' /\ CachedFits'
      BY <2>4, <3>1, BudgetStep DEF PublishStep, Budget!PublishFile, CachedFits, callVars
    <3>3. FilesFit'
      BY <2>4 DEF PublishStep, Budget!PublishFile, FilesFit, Files, CouldBeCached
    <3>4. QED  BY <3>2, <3>3
  <2>5. QED  BY <1>7, <2>1, <2>2, <2>3, <2>4, BodyCases DEF WorkerStep
<1>8. QED  BY <1>1, <1>2, <1>4, <1>5, <1>6, <1>7 DEF Next, MainStep, Finished

-------------------------------------------------------------------------------
(* Types and roles                                                         *)

Busy == {"request", "body", "backoff"}

PoolTypes ==
  /\ main \in {"entry", "scan", "workers", "returned"}
  /\ scanned \in 0..NumSources
  /\ queue \in Seq(Sources) /\ Len(queue) <= scanned
  /\ phase \in [Workers -> Phases]
  /\ job \in [Workers -> 0..NumSources]
  /\ attempt \in [Workers -> 0..EffectiveRetries + 1]
  /\ page \in [Workers -> Pages]
  /\ temp \in [Workers -> BOOLEAN]
  /\ file \in [Sources -> Files]
  /\ result \in [Sources -> Results]
  /\ ret \in {"none", "ok", "ctx", "noDirectory", "overflow", "errors"}
  /\ ctxDone \in BOOLEAN
  /\ calls \in 1..MaxCalls

\* A worker has a source exactly while it works on one, streams and keeps a
\* temporary file only in an attempt, and runs only between start and join.
RoleOf(w) == /\ phase[w] # "body" => pc[w] = "idle" /\ temp[w] = FALSE
             /\ phase[w] \in Busy <=> job[w] # 0
             /\ phase[w] = "backoff" => attempt[w] <= EffectiveRetries
             /\ main # "workers" => phase[w] = "exited"
Roles ==
  /\ \A w \in Workers : RoleOf(w)
  /\ main = "entry" => scanned = 0 /\ queue = <<>>
  /\ main = "workers" => scanned = NumSources

\* The capped number of retries is a number, whatever the deadline is.
LEMMA RetriesType == EffectiveRetries \in Nat
<1> USE PoolAssumption
<1>1. GreaterOf(Deadline \div Timeout, 1) - 1 \in Nat
  BY DEF GreaterOf
<1>2. QED  BY <1>1 DEF EffectiveRetries, Budget!LesserOf

\* Streaming changes nothing of the workers that do not stream.
LEMMA StreamsFrame ==
  ASSUME NEW w \in Workers, Streams(w) \/ (\E p \in Pages : RequestSucceeds(w, p)) \/ PublishStep(w),
         pc \in [Workers -> Budget!Locations]
  PROVE  \A v \in Workers : v # w /\ pc[v] = "idle" => pc'[v] = "idle"
<1> USE DEF Workers, Budget!Woken
<1>1. CASE \/ Budget!Reserve(w) \/ Budget!Write(w) \/ Budget!Probing(w) \/ Budget!Finish(w)
  BY <1>1 DEF Budget!Reserve, Budget!ReserveBytes, Budget!ReserveWaits, Budget!ReserveRefused,
              Budget!Write, Budget!WriteChunk, Budget!Probing, Budget!Probe, Budget!Finish,
              Budget!RejectOversize, Budget!RejectEmpty, Budget!RejectFile, Budget!PublishFile
<1>2. CASE Budget!Read(w) \/ Budget!Refund(w)
  BY <1>2 DEF Budget!Read, Budget!ReadReturns, Budget!Refund
<1>3. CASE \E p \in Pages : RequestSucceeds(w, p)
  BY <1>3 DEF RequestSucceeds, Budget!Begin
<1>4. CASE PublishStep(w)
  BY <1>4 DEF PublishStep, Budget!PublishFile
<1>5. QED  BY <1>1, <1>2, <1>3, <1>4 DEF Streams

\* A step of w leaves the roles of the others alone.
LEMMA OneRole ==
  ASSUME Roles, main = "workers", UNCHANGED <<main, scanned>>, NEW w \in Workers, RoleOf(w)',
         \A v \in Workers \ {w} : /\ phase'[v] = phase[v] /\ job'[v] = job[v]
                                  /\ attempt'[v] = attempt[v] /\ temp'[v] = temp[v]
                                  /\ pc[v] = "idle" => pc'[v] = "idle"
  PROVE  Roles'
<1>1. ASSUME NEW v \in Workers \ {w} PROVE RoleOf(v)'
  BY <1>1 DEF Roles, RoleOf, Busy
<1>2. \A v \in Workers : RoleOf(v)'
  BY <1>1
<1>3. QED  BY <1>2 DEF Roles

\* Every step keeps types and roles.
LEMMA NextRoles ==
  ASSUME PoolTypes, Roles, Budget!Inv, [Next]_vars
  PROVE  PoolTypes' /\ Roles'
<1> USE PoolAssumption, RetriesType
<1> USE DEF Sources, Phases, Files, Results, Pages, Busy
<1> DEFINE Goal == PoolTypes' /\ Roles'
<1>0. pc \in [Workers -> Budget!Locations] /\ NumSources \in Nat /\ MaxCalls \in Nat
  BY DEF Budget!Inv, Budget!TypeOK, Workers
<1>1. ASSUME NEW u \in Sources, ScanHit(u) PROVE Goal
  <2>1. PoolTypes'
    BY <1>1 DEF PoolTypes, ScanHit, Scanning, jobVars, diskVars
  <2>2. Roles'
    BY <1>1 DEF Roles, RoleOf, PoolTypes, ScanHit, Scanning, Budget!ChargeCached, jobVars, diskVars
  <2>3. QED  BY <2>1, <2>2
<1>2. ASSUME NEW u \in Sources, ScanMiss(u) PROVE Goal
  <2>1. PoolTypes'
    BY <1>2 DEF PoolTypes, ScanMiss, Scanning
  <2>2. Roles'
    BY <1>2 DEF Roles, RoleOf, PoolTypes, ScanMiss, Scanning, budgetVars
  <2>3. QED  BY <2>1, <2>2
<1>3. CASE Enter
  BY <1>3 DEF PoolTypes, Roles, RoleOf, Enter, Return, budgetVars, jobVars, diskVars
<1>4. CASE ScanOverflows
  BY <1>4 DEF PoolTypes, Roles, RoleOf, ScanOverflows, ScanOver, Return, budgetVars, jobVars, diskVars
<1>5. CASE AllCached
  BY <1>5 DEF PoolTypes, Roles, RoleOf, AllCached, ScanOver, Return, budgetVars, jobVars, diskVars
<1>6. CASE StartWorkers
  <2>1. PoolTypes'
    BY <1>6 DEF PoolTypes, StartWorkers, ScanOver, diskVars
  <2>2. Roles'
    BY <1>6 DEF Roles, RoleOf, PoolTypes, StartWorkers, ScanOver, Budget!StartWorkers, diskVars
  <2>3. QED  BY <2>1, <2>2
<1>7. CASE Join
  BY <1>7 DEF PoolTypes, Roles, RoleOf, Join, Return, budgetVars, jobVars, diskVars
<1>8. CASE Cancel \/ UNCHANGED vars
  <2>1. UNCHANGED <<main, scanned, jobVars, diskVars, result, ret, calls, pc>>
    <3>1. CASE Cancel
      BY <3>1 DEF Cancel, budgetVars, jobVars, diskVars
    <3>2. CASE UNCHANGED vars
      BY <3>2 DEF vars, budgetVars, poolVars, jobVars, diskVars
    <3>3. QED  BY <1>8, <3>1, <3>2
  <2>2. PoolTypes'
    <3>1. ctxDone' \in BOOLEAN
      <4>1. CASE Cancel
        BY <4>1 DEF Cancel
      <4>2. CASE UNCHANGED vars
        BY <4>2 DEF vars, poolVars, PoolTypes
      <4>3. QED  BY <1>8, <4>1, <4>2
    <3>2. UNCHANGED <<main, scanned, queue, phase, job, attempt, page, temp, file, result, ret, calls>>
      BY <2>1 DEF jobVars, diskVars
    <3>3. QED  BY <3>1, <3>2 DEF PoolTypes
  <2>3. Roles'
    BY <2>1 DEF Roles, RoleOf, jobVars, diskVars
  <2>4. QED  BY <2>2, <2>3
<1>9. CASE CallAgain
  <2>1. PoolTypes'
    <3>1. /\ phase' \in [Workers -> Phases] /\ job' \in [Workers -> 0..NumSources]
          /\ attempt' \in [Workers -> 0..EffectiveRetries + 1]
          /\ page' \in [Workers -> Pages] /\ temp' \in [Workers -> BOOLEAN]
          /\ result' \in [Sources -> Results]
      BY <1>9 DEF CallAgain, Nobody
    <3>2. main' = "entry" /\ scanned' = 0 /\ queue' = <<>> /\ ret' = "none" /\ ctxDone' = FALSE
          /\ file' = file /\ calls' \in 1..MaxCalls
      BY <1>9 DEF CallAgain, PoolTypes
    <3>3. queue' \in Seq(Sources) /\ Len(queue') <= scanned'
      BY <3>2
    <3>4. /\ main' \in {"entry", "scan", "workers", "returned"}
          /\ scanned' \in 0..NumSources
      BY <3>2
    <3>5. /\ ret' \in {"none", "ok", "ctx", "noDirectory", "overflow", "errors"}
          /\ ctxDone' \in BOOLEAN /\ calls' \in 1..MaxCalls
      BY <3>2
    <3>6. file' \in [Sources -> Files]
      BY <3>2 DEF PoolTypes
    <3>7. QED  BY <3>1, <3>3, <3>4, <3>5, <3>6 DEF PoolTypes
  <2>2. Roles'
    BY <1>9 DEF Roles, RoleOf, CallAgain, Nobody, Budget!NewBudget, Workers
  <2>3. QED  BY <2>1, <2>2
<1>10. ASSUME NEW w \in Workers, WorkerStep(w) PROVE Goal
  <2>0. main = "workers"
    <3>1. phase[w] # "exited"
      BY <1>10 DEF WorkerStep, BodyStep, TakeJob, WorkerExits, TimerFires, BackoffCancelled,
            RequestFails, RequestSucceeds, ReserveStep, ReadStep, WriteStep, ProbeStep,
            RejectStep, PublishStep, RefundStep, AttemptReturns, InBody
    <3>2. QED  BY <3>1 DEF Roles, RoleOf
  <2>1. CASE TakeJob(w)
    <3>1. /\ queue # <<>> /\ queue \in Seq(Sources) /\ Head(queue) \in Sources
          /\ Tail(queue) \in Seq(Sources) /\ Len(Tail(queue)) <= scanned
      <4>1. queue # <<>> /\ queue \in Seq(Sources) /\ Len(queue) <= scanned /\ scanned \in Nat
        BY <2>1 DEF TakeJob, PoolTypes
      <4>2. Len(Tail(queue)) = Len(queue) - 1 /\ Len(queue) \in Nat
        BY <4>1
      <4>3. Head(queue) \in Sources /\ Tail(queue) \in Seq(Sources)
        BY <4>1
      <4>4. QED  BY <4>1, <4>2, <4>3
    <3>2. PoolTypes'
      <4>1. /\ job' \in [Workers -> 0..NumSources] /\ phase' \in [Workers -> Phases]
            /\ attempt' \in [Workers -> 0..EffectiveRetries + 1]
            /\ result' \in [Sources -> Results]
        <5>1. CASE ctxDone
          BY <2>1, <3>1, <5>1 DEF PoolTypes, TakeJob
        <5>2. CASE ~ctxDone
          <6>1. /\ job' = [job EXCEPT ![w] = Head(queue)]
                /\ phase' = [phase EXCEPT ![w] = "request"]
                /\ attempt' = [attempt EXCEPT ![w] = 1] /\ result' = result
            BY <2>1, <5>2 DEF TakeJob
          <6>2. Head(queue) \in 0..NumSources /\ 1 \in 0..EffectiveRetries + 1
            BY <3>1
          <6>3. QED  BY <6>1, <6>2 DEF PoolTypes
        <5>3. QED  BY <5>1, <5>2
      <4>2. /\ queue' \in Seq(Sources) /\ Len(queue') <= scanned'
            /\ page' = page /\ temp' = temp /\ file' = file
            /\ UNCHANGED <<main, scanned, ret, ctxDone, calls>>
        BY <2>1, <3>1 DEF TakeJob, callVars, diskVars
      <4>3. QED  BY <4>1, <4>2 DEF PoolTypes
    <3>3. Roles'
      <4>1. /\ main' = main /\ scanned' = scanned /\ pc' = pc /\ temp' = temp
            /\ \A v \in Workers \ {w} : /\ phase'[v] = phase[v] /\ job'[v] = job[v]
                                        /\ attempt'[v] = attempt[v]
        BY <2>1 DEF TakeJob, PoolTypes, callVars, budgetVars, diskVars
      <4>2. RoleOf(w)'
        <5>1. pc[w] = "idle" /\ temp[w] = FALSE /\ main' = "workers" /\ job[w] = 0
          BY <2>0, <2>1, <4>1 DEF Roles, RoleOf, TakeJob
        <5>2. CASE ctxDone
          <6>1. phase'[w] = "fetch" /\ job'[w] = 0
            BY <2>1, <5>1, <5>2 DEF TakeJob
          <6>2. QED  BY <4>1, <5>1, <6>1 DEF RoleOf
        <5>3. CASE ~ctxDone
          <6>1. phase'[w] = "request" /\ job'[w] # 0
            BY <2>1, <3>1, <5>3 DEF TakeJob, PoolTypes
          <6>2. QED  BY <4>1, <5>1, <6>1 DEF RoleOf
        <5>4. QED  BY <5>2, <5>3
      <4>3. QED  BY <2>0, <4>1, <4>2, OneRole
    <3>4. QED  BY <3>2, <3>3
  <2>2. CASE WorkerExits(w)
    BY <2>0, <2>2 DEF PoolTypes, Roles, RoleOf, WorkerExits, budgetVars, callVars, diskVars
  <2>3. CASE TimerFires(w)
    BY <2>0, <2>3 DEF PoolTypes, Roles, RoleOf, TimerFires, budgetVars, callVars, diskVars
  <2>4. CASE BackoffCancelled(w)
    BY <2>0, <2>4 DEF PoolTypes, Roles, RoleOf, BackoffCancelled, Settle, budgetVars, callVars, diskVars
  <2>5. ASSUME NEW e, EndAttempt(w, e), phase[w] \in {"request", "body"}, pc[w] = "idle",
               UNCHANGED budgetVars, UNCHANGED callVars, UNCHANGED <<queue, page, file>>,
               temp' = [temp EXCEPT ![w] = FALSE]
        PROVE  Goal
    <3>1. ASSUME NEW r \in {"ok", "ctx", "failed", "tooLarge"}, Settle(w, r) PROVE Goal
      <4>1. PoolTypes'
        <5>1. /\ job' \in [Workers -> 0..NumSources] /\ phase' \in [Workers -> Phases]
              /\ attempt' \in [Workers -> 0..EffectiveRetries + 1]
              /\ result' \in [Sources -> Results]
          <6>1. job' \in [Workers -> 0..NumSources]
            BY <3>1, <1>0 DEF PoolTypes, Settle
          <6>2. phase' \in [Workers -> Phases]
            BY <3>1 DEF PoolTypes, Settle
          <6>3. attempt' \in [Workers -> 0..EffectiveRetries + 1]
            BY <3>1 DEF PoolTypes, Settle
          <6>4. result' \in [Sources -> Results]
            BY <3>1 DEF PoolTypes, Settle
          <6>5. QED  BY <6>1, <6>2, <6>3, <6>4
        <5>2. QED  BY <2>5, <5>1 DEF PoolTypes, callVars
      <4>2. Roles'
        BY <2>0, <2>5, <3>1 DEF PoolTypes, Roles, RoleOf, Settle, budgetVars, callVars
      <4>3. QED  BY <4>1, <4>2
    <3>2. ASSUME attempt[w] <= EffectiveRetries, UNCHANGED <<job, attempt, result>>,
                 phase' = [phase EXCEPT ![w] = "backoff"]
          PROVE  Goal
      <4>1. PoolTypes'
        BY <2>5, <3>2 DEF PoolTypes, callVars
      <4>2. Roles'
        BY <2>0, <2>5, <3>2 DEF PoolTypes, Roles, RoleOf, budgetVars, callVars
      <4>3. QED  BY <4>1, <4>2
    <3>3. QED  BY <2>5, <3>1, <3>2, AttemptEnds
  <2>6. CASE \E e \in RequestErrors : RequestFails(w, e)
    <3>1. PICK e \in RequestErrors : RequestFails(w, e)
      BY <2>6
    <3>2. phase[w] = "request" /\ pc[w] = "idle" /\ temp' = [temp EXCEPT ![w] = FALSE]
      BY <3>1 DEF RequestFails, Roles, RoleOf, PoolTypes, diskVars
    <3>3. QED  BY <2>5, <3>1, <3>2 DEF RequestFails, diskVars
  <2>7. CASE AttemptReturns(w)
    BY <2>5, <2>7 DEF AttemptReturns, InBody
  <2>8. CASE \E p \in Pages : RequestSucceeds(w, p)
    <3>1. PoolTypes'
      BY <2>8 DEF PoolTypes, RequestSucceeds, callVars
    <3>2. Roles'
      <4>1. \A v \in Workers : v # w /\ pc[v] = "idle" => pc'[v] = "idle"
        BY <2>8, <1>0, StreamsFrame
      <4>2. phase' = [phase EXCEPT ![w] = "body"] /\ temp' = [temp EXCEPT ![w] = TRUE]
            /\ phase[w] = "request" /\ UNCHANGED <<main, scanned, queue, job, attempt>>
        BY <2>8 DEF RequestSucceeds, callVars
      <4>3. RoleOf(w)'
        BY <2>0, <4>2 DEF PoolTypes, Roles, RoleOf
      <4>4. QED  BY <2>0, <4>1, <4>2, <4>3, OneRole DEF PoolTypes
    <3>3. QED  BY <3>1, <3>2
  <2>9. CASE Streams(w)
    <3>1. InBody(w)
      BY <1>10, <2>9 DEF Roles, RoleOf, Streams, InBody, Budget!Reserve, Budget!ReserveBytes,
            Budget!ReserveWaits, Budget!ReserveRefused, Budget!Read, Budget!ReadReturns,
            Budget!Write, Budget!WriteChunk, Budget!Probing, Budget!Probe, Budget!Finish,
            Budget!RejectOversize, Budget!RejectEmpty, Budget!RejectFile, Budget!PublishFile,
            Budget!Refund
    <3>2. QED  BY <2>0, <2>9, <3>1, <1>0, StreamsFrame DEF PoolTypes, Roles, RoleOf, Streams, InBody, poolVars
  <2>10. CASE PublishStep(w)
    <3>1. PoolTypes'
      BY <2>10 DEF PoolTypes, PublishStep, callVars, jobVars
    <3>2. Roles'
      BY <2>0, <2>10, <1>0, StreamsFrame DEF PoolTypes, Roles, RoleOf, PublishStep, InBody, callVars, jobVars
    <3>3. QED  BY <3>1, <3>2
  <2>11. QED  BY <1>10, <2>1, <2>2, <2>3, <2>4, <2>6, <2>7, <2>8, <2>9, <2>10, BodyCases
              DEF WorkerStep
<1>11. QED  BY <1>1, <1>2, <1>3, <1>4, <1>5, <1>6, <1>7, <1>8, <1>9, <1>10
            DEF Next, MainStep, Finished

-------------------------------------------------------------------------------
(* Who owns a source                                                       *)

Queued(u) == \E i \in 1..Len(queue) : queue[i] = u
Held(u) == \E w \in Workers : job[w] = u

\* No source is twice in the queue, with two workers, or in both places.
Apart ==
  /\ \A i, j \in 1..Len(queue) : queue[i] = queue[j] => i = j
  /\ \A v, w \in Workers : job[v] = job[w] /\ job[v] # 0 => v = w
  /\ \A i \in 1..Len(queue), w \in Workers : job[w] # queue[i]

\* The queue is what the scan has missed; then it is, with the workers, what
\* still has no result.
Awaited ==
  /\ main \in {"entry", "scan"} =>
       \A u \in Sources : /\ Queued(u) <=> u <= scanned /\ result[u] = "unset"
                          /\ u > scanned => result[u] = "unset"
                          /\ result[u] \in {"unset", "cached", "tooLarge"}
  /\ main = "workers" => \A u \in Sources : result[u] = "unset" <=> Queued(u) \/ Held(u)

Ownership == Apart /\ Awaited

\* Nothing of the ownership changes.
LEMMA SameOwners ==
  ASSUME Ownership, UNCHANGED <<queue, job>>,
         \/ UNCHANGED <<main, scanned, result>>
         \/ main = "entry" /\ main' = "scan" /\ UNCHANGED <<scanned, result>>
         \/ main' = "returned"
  PROVE  Ownership'
<1>1. Apart'
  BY DEF Ownership, Apart
<1>2. \A u : Queued(u)' = Queued(u) /\ Held(u)' = Held(u)
  BY DEF Queued, Held
<1>3. Awaited'
  BY <1>2 DEF Ownership, Awaited
<1>4. QED  BY <1>1, <1>3 DEF Ownership

\* A worker's source gets its result.
LEMMA SettleOwners ==
  ASSUME Ownership, PoolTypes, main = "workers", main' = main, queue' = queue,
         NEW w \in Workers, NEW r \in Results \ {"unset"}, job[w] # 0, Settle(w, r)
  PROVE  Ownership'
<1> DEFINE u == job[w]
<1>1. /\ job' = [job EXCEPT ![w] = 0] /\ result' = [result EXCEPT ![u] = r]
      /\ u \in Sources /\ job \in [Workers -> 0..NumSources] /\ result \in [Sources -> Results]
  BY PoolAssumption DEF Settle, PoolTypes, Sources
<1>2. Apart'
  <2>1. \A i \in 1..Len(queue) : queue[i] # 0
    <3>1. \A i \in 1..Len(queue) : queue[i] \in Sources
      BY DEF PoolTypes
    <3>2. QED  BY <3>1 DEF Sources
  <2>2. QED  BY <1>1, <2>1 DEF Ownership, Apart
<1>3. ASSUME NEW x \in Sources PROVE (result[x] = "unset" <=> Queued(x) \/ Held(x))'
  <2>1. Queued(x)' <=> Queued(x)
    BY DEF Queued
  <2>2. Held(x)' <=> Held(x) /\ x # u
    BY <1>1, <1>3 DEF Held, Ownership, Apart, Sources
  <2>3. ~Queued(u)
    BY DEF Queued, Ownership, Apart
  <2>4. result[x] = "unset" <=> Queued(x) \/ Held(x)
    BY DEF Ownership, Awaited
  <2>5. result'[x] = "unset" <=> result[x] = "unset" /\ x # u
    BY <1>1
  <2>6. QED  BY <2>1, <2>2, <2>3, <2>4, <2>5
<1>4. Awaited'
  BY <1>3 DEF Awaited
<1>5. QED  BY <1>2, <1>4 DEF Ownership

\* The queue's head goes to a worker, or is cancelled.
LEMMA TakeOwners ==
  ASSUME Ownership, PoolTypes, Roles, main = "workers", NEW w \in Workers, TakeJob(w)
  PROVE  Ownership'
<1> DEFINE h == Head(queue)
<1>1. /\ queue \in Seq(Sources) /\ queue # <<>> /\ queue' = Tail(queue) /\ main' = main
      /\ job \in [Workers -> 0..NumSources] /\ result \in [Sources -> Results]
      /\ job[w] = 0
  BY DEF TakeJob, PoolTypes, Roles, RoleOf, Busy, callVars
<1>2. /\ h \in Sources /\ h # 0 /\ h = queue[1] /\ Len(queue) \in Nat /\ Len(queue) >= 1
      /\ Len(queue') = Len(queue) - 1
      /\ \A i \in 1..Len(queue') : queue'[i] = queue[i + 1] /\ i + 1 \in 2..Len(queue)
  <2>1. h \in Sources /\ h = queue[1] /\ Len(queue) \in Nat /\ Len(queue) >= 1
    BY <1>1
  <2>2. Len(queue') = Len(queue) - 1
    BY <1>1
  <2>3. \A i \in 1..Len(queue') : queue'[i] = queue[i + 1]
    BY <1>1
  <2>4. h # 0 /\ \A i \in 1..Len(queue') : i + 1 \in 2..Len(queue)
    BY <2>1, <2>2 DEF Sources
  <2>5. QED  BY <2>1, <2>2, <2>3, <2>4
<1>3. \A x : Queued(x)' <=> Queued(x) /\ x # h
  <2>1. ASSUME NEW x, Queued(x)' PROVE Queued(x) /\ x # h
    <3>1. PICK i \in 1..Len(queue') : queue'[i] = x
      BY <2>1 DEF Queued
    <3>2. queue[i + 1] = x /\ i + 1 \in 1..Len(queue) /\ i + 1 # 1 /\ 1 \in 1..Len(queue)
      BY <3>1, <1>2
    <3>3. QED  BY <3>2, <1>2 DEF Queued, Ownership, Apart
  <2>2. ASSUME NEW x, Queued(x), x # h PROVE Queued(x)'
    <3>1. PICK i \in 1..Len(queue) : queue[i] = x
      BY <2>2 DEF Queued
    <3>2. i # 1 /\ i - 1 \in 1..Len(queue')
      BY <3>1, <2>2, <1>2
    <3>3. queue'[i - 1] = queue[(i - 1) + 1] /\ (i - 1) + 1 = i
      BY <3>2, <1>2
    <3>4. QED  BY <3>1, <3>2, <3>3 DEF Queued
  <2>3. QED  BY <2>1, <2>2
<1>4. \A i, j \in 1..Len(queue') : queue'[i] = queue'[j] => i = j
  BY <1>2 DEF Ownership, Apart
<1>5. \A i \in 1..Len(queue'), v \in Workers : job[v] # queue'[i] /\ queue'[i] # h
  <2>1. \A i \in 1..Len(queue') : i + 1 \in 1..Len(queue) /\ i + 1 # 1 /\ 1 \in 1..Len(queue)
    BY <1>2
  <2>2. QED  BY <1>2, <2>1 DEF Ownership, Apart
<1>6. \A v \in Workers : job[v] # h
  <2>1. 1 \in 1..Len(queue)
    BY <1>2
  <2>2. QED  BY <1>2, <2>1 DEF Ownership, Apart
<1>7. CASE ctxDone
  <2>1. job' = job /\ result' = [result EXCEPT ![h] = "ctx"]
    BY <1>7 DEF TakeJob
  <2>2. Apart'
    BY <1>4, <1>5, <2>1 DEF Ownership, Apart
  <2>3. \A x : Held(x)' <=> Held(x)
    BY <2>1 DEF Held
  <2>4. Awaited'
    BY <1>1, <1>2, <1>3, <1>6, <2>1, <2>3 DEF Ownership, Awaited, Held
  <2>5. QED  BY <2>2, <2>4 DEF Ownership
<1>8. CASE ~ctxDone
  <2>1. job' = [job EXCEPT ![w] = h] /\ result' = result
    BY <1>8 DEF TakeJob
  <2>2. Apart'
    <3>1. \A v, x \in Workers : job'[v] = job'[x] /\ job'[v] # 0 => v = x
      BY <1>1, <1>6, <2>1 DEF Ownership, Apart
    <3>2. \A i \in 1..Len(queue'), v \in Workers : job'[v] # queue'[i]
      BY <1>1, <1>5, <2>1
    <3>3. QED  BY <1>4, <3>1, <3>2 DEF Apart
  <2>3. \A x \in Sources : Held(x)' <=> Held(x) \/ x = h
    BY <1>1, <2>1 DEF Held, Sources
  <2>4. Queued(h)
    BY <1>2 DEF Queued
  <2>5. Awaited'
    BY <1>1, <1>3, <2>1, <2>3, <2>4 DEF Ownership, Awaited
  <2>6. QED  BY <2>2, <2>5 DEF Ownership
<1>9. QED  BY <1>7, <1>8

\* The scan charges a source or puts it into the queue.
LEMMA ScanOwners ==
  ASSUME Ownership, PoolTypes, Roles, NEW u \in Sources, ScanHit(u) \/ ScanMiss(u)
  PROVE  Ownership'
<1>1. /\ main = "scan" /\ main' = "scan" /\ u = scanned + 1 /\ scanned' = u /\ job' = job
      /\ scanned \in Nat /\ queue \in Seq(Sources) /\ result \in [Sources -> Results]
      /\ \A x \in Sources : x \in Nat
  BY PoolAssumption DEF ScanHit, ScanMiss, Scanning, jobVars, PoolTypes, Sources
<1>2. \A w \in Workers : job[w] = 0
  BY <1>1 DEF Roles, RoleOf, Busy
<1>3. \A x \in Sources : /\ Queued(x) <=> x <= scanned /\ result[x] = "unset"
                         /\ x > scanned => result[x] = "unset"
                         /\ result[x] \in {"unset", "cached", "tooLarge"}
  BY <1>1 DEF Ownership, Awaited
<1>4. CASE ScanHit(u)
  <2>1. queue' = queue /\ \E r \in {"tooLarge", "cached"} : result' = [result EXCEPT ![u] = r]
    BY <1>4 DEF ScanHit, jobVars
  <2>2. Apart'
    BY <1>1, <2>1 DEF Ownership, Apart
  <2>3. \A x : Queued(x)' <=> Queued(x)
    BY <2>1 DEF Queued
  <2>4. ASSUME NEW x \in Sources
        PROVE  /\ Queued(x)' <=> x <= u /\ result'[x] = "unset"
               /\ x > u => result'[x] = "unset"
               /\ result'[x] \in {"unset", "cached", "tooLarge"}
    BY <1>1, <1>3, <2>1, <2>3
  <2>5. Awaited'
    BY <1>1, <2>4 DEF Awaited
  <2>6. QED  BY <2>2, <2>5 DEF Ownership
<1>5. CASE ScanMiss(u)
  <2>1. queue' = Append(queue, u) /\ result' = result
    BY <1>5 DEF ScanMiss
  <2>2. /\ Len(queue') = Len(queue) + 1 /\ Len(queue) \in Nat /\ queue'[Len(queue) + 1] = u
        /\ \A i \in 1..Len(queue) : queue'[i] = queue[i] /\ queue[i] \in Sources
    BY <1>1, <2>1
  <2>3. \A i \in 1..Len(queue) : queue[i] # u
    BY <1>1, <1>3 DEF Queued
  <2>4. \A x : Queued(x)' <=> Queued(x) \/ x = u
    <3>1. ASSUME NEW x, Queued(x)' PROVE Queued(x) \/ x = u
      <4>1. PICK i \in 1..Len(queue') : queue'[i] = x
        BY <3>1 DEF Queued
      <4>2. i \in 1..Len(queue) \/ i = Len(queue) + 1
        BY <2>2
      <4>3. QED  BY <4>1, <4>2, <2>2 DEF Queued
    <3>2. ASSUME NEW x, Queued(x) PROVE Queued(x)'
      <4>1. PICK i \in 1..Len(queue) : queue[i] = x
        BY <3>2 DEF Queued
      <4>2. i \in 1..Len(queue')
        BY <2>2
      <4>3. QED  BY <4>1, <4>2, <2>2 DEF Queued
    <3>3. Queued(u)'
      <4>1. Len(queue) + 1 \in 1..Len(queue')
        BY <2>2
      <4>2. QED  BY <4>1, <2>2 DEF Queued
    <3>4. QED  BY <3>1, <3>2, <3>3
  <2>5. Apart'
    <3>1. \A i \in 1..Len(queue') : i \in 1..Len(queue) \/ i = Len(queue) + 1
      BY <2>2
    <3>2. \A i \in 1..Len(queue') : queue'[i] \in Sources /\ queue'[i] # 0
      BY <3>1, <2>2 DEF Sources
    <3>3. \A i, j \in 1..Len(queue') : queue'[i] = queue'[j] => i = j
      BY <3>1, <2>2, <2>3 DEF Ownership, Apart
    <3>4. QED  BY <1>1, <1>2, <3>2, <3>3 DEF Apart
  <2>6. ASSUME NEW x \in Sources
        PROVE  /\ Queued(x)' <=> x <= u /\ result'[x] = "unset"
               /\ x > u => result'[x] = "unset"
               /\ result'[x] \in {"unset", "cached", "tooLarge"}
    BY <1>1, <1>3, <2>1, <2>4
  <2>7. Awaited'
    BY <1>1, <2>6 DEF Awaited
  <2>8. QED  BY <2>5, <2>7 DEF Ownership
<1>6. QED  BY <1>4, <1>5

\* Ownership survives every step.
LEMMA NextOwnership ==
  ASSUME Ownership, PoolTypes, Roles, [Next]_vars
  PROVE  Ownership'
<1>1. ASSUME NEW u \in Sources, ScanHit(u) \/ ScanMiss(u) PROVE Ownership'
  BY <1>1, ScanOwners
<1>2. CASE Enter \/ ScanOverflows \/ AllCached \/ Join \/ Cancel \/ UNCHANGED vars
  BY <1>2, SameOwners DEF Enter, ScanOverflows, AllCached, Join, Cancel, Return, vars, poolVars,
                          jobVars
<1>3. CASE StartWorkers
  <2>1. /\ main = "scan" /\ main' = "workers" /\ UNCHANGED <<queue, job, result>>
        /\ scanned = NumSources
    BY <1>3 DEF StartWorkers, ScanOver
  <2>2. Apart'
    BY <2>1 DEF Ownership, Apart
  <2>3. \A x \in Sources : Queued(x)' = Queued(x) /\ ~Held(x)' /\ x <= scanned
    BY <2>1, PoolAssumption DEF Queued, Held, Roles, RoleOf, Busy, Sources
  <2>4. Awaited'
    BY <2>1, <2>3 DEF Ownership, Awaited
  <2>5. QED  BY <2>2, <2>4 DEF Ownership
<1>4. CASE CallAgain
  <2>1. /\ main' = "entry" /\ scanned' = 0 /\ queue' = <<>>
        /\ \A w \in Workers : job'[w] = 0
        /\ \A u \in Sources : result'[u] = "unset"
    BY <1>4 DEF CallAgain, Nobody
  <2>2. Apart'
    BY <2>1 DEF Apart
  <2>3. \A x \in Sources : ~Queued(x)' /\ x \in Nat /\ ~(x <= 0)
    BY <2>1, PoolAssumption DEF Queued, Sources
  <2>4. Awaited'
    BY <2>1, <2>3 DEF Awaited
  <2>5. QED  BY <2>2, <2>4 DEF Ownership
<1>5. ASSUME NEW w \in Workers, WorkerStep(w) PROVE Ownership'
  <2>0. main = "workers" \/ UNCHANGED <<main, scanned, queue, job, result>>
    <3>1. CASE phase[w] = "exited"
      BY <1>5, <3>1 DEF WorkerStep, BodyStep, TakeJob, WorkerExits, TimerFires, BackoffCancelled,
            RequestFails, RequestSucceeds, ReserveStep, ReadStep, WriteStep, ProbeStep,
            RejectStep, PublishStep, RefundStep, AttemptReturns, InBody
    <3>2. QED  BY <3>1 DEF Roles, RoleOf
  <2>1. CASE TakeJob(w)
    BY <2>0, <2>1, TakeOwners, SameOwners
  <2>2. ASSUME NEW e, EndAttempt(w, e), phase[w] \in Busy, UNCHANGED <<main, scanned, queue>>
        PROVE  Ownership'
    <3>1. ASSUME NEW r \in {"ok", "ctx", "failed", "tooLarge"}, Settle(w, r) PROVE Ownership'
      <4>1. r \in Results \ {"unset"} /\ job[w] # 0 /\ main = "workers"
        BY <2>2, <3>1 DEF Results, Roles, RoleOf, Busy
      <4>2. QED  BY <2>2, <3>1, <4>1, SettleOwners
    <3>2. QED  BY <2>2, <3>1, AttemptEnds, SameOwners
  <2>3. CASE (\E e \in RequestErrors : RequestFails(w, e)) \/ AttemptReturns(w)
    BY <2>2, <2>3 DEF RequestFails, AttemptReturns, callVars, Busy, InBody
  <2>4. CASE BackoffCancelled(w)
    <3>1. job[w] # 0 /\ main = "workers" /\ "ctx" \in Results \ {"unset"}
      BY <2>4 DEF BackoffCancelled, Roles, RoleOf, Busy, Results
    <3>2. QED  BY <2>4, <3>1, SettleOwners DEF BackoffCancelled, callVars
  <2>5. CASE WorkerExits(w) \/ TimerFires(w) \/ (\E p \in Pages : RequestSucceeds(w, p))
             \/ Streams(w) \/ PublishStep(w)
    BY <2>5, SameOwners DEF WorkerExits, TimerFires, RequestSucceeds, Streams, PublishStep,
                            callVars, jobVars, poolVars
  <2>6. QED  BY <1>5, <2>1, <2>3, <2>4, <2>5, BodyCases DEF WorkerStep
<1>6. QED  BY <1>1, <1>2, <1>3, <1>4, <1>5 DEF Next, MainStep, Finished

\* The ownership, counted: the places of a source are one or none.
LEMMA OwnershipCounts == Ownership /\ PoolTypes => OneOwner
<1> SUFFICES ASSUME Ownership, PoolTypes, main = "workers", NEW u \in Sources
             PROVE  Cardinality({i \in DOMAIN queue : queue[i] = u})
                      + Cardinality({w \in Workers : job[w] = u})
                    = IF result[u] = "unset" THEN 1 ELSE 0
  BY DEF OneOwner
<1> DEFINE Q == {i \in DOMAIN queue : queue[i] = u}
           H == {w \in Workers : job[w] = u}
<1>1. DOMAIN queue = 1..Len(queue) /\ u # 0
  BY DEF PoolTypes, Sources
<1>2. \A S, x : S = {x} => Cardinality(S) = 1
  BY FS_Singleton
<1>3. Cardinality({}) = 0
  BY FS_EmptySet
<1>4. (Q = {} \/ \E i : Q = {i}) /\ (Q # {} <=> Queued(u))
  <2>1. \A i, j \in Q : i = j
    BY <1>1 DEF Ownership, Apart
  <2>2. Q # {} <=> Queued(u)
    BY <1>1 DEF Queued
  <2>3. ASSUME NEW i \in Q PROVE Q = {i}
    BY <2>1
  <2>4. QED  BY <2>2, <2>3
<1>5. (H = {} \/ \E w : H = {w}) /\ (H # {} <=> Held(u))
  <2>1. \A v, w \in H : v = w
    BY <1>1 DEF Ownership, Apart
  <2>2. H # {} <=> Held(u)
    BY DEF Held
  <2>3. ASSUME NEW w \in H PROVE H = {w}
    BY <2>1
  <2>4. QED  BY <2>2, <2>3
<1>6. Q = {} \/ H = {}
  BY <1>1 DEF Ownership, Apart
<1>7. result[u] = "unset" <=> Queued(u) \/ Held(u)
  BY DEF Ownership, Awaited
<1>8. CASE Queued(u)
  <2>1. Cardinality(Q) = 1 /\ Cardinality(H) = 0
    BY <1>2, <1>3, <1>4, <1>6, <1>8
  <2>2. QED  BY <2>1, <1>7, <1>8
<1>9. CASE ~Queued(u) /\ Held(u)
  <2>1. Cardinality(Q) = 0 /\ Cardinality(H) = 1
    BY <1>2, <1>3, <1>4, <1>5, <1>9
  <2>2. QED  BY <2>1, <1>7, <1>9
<1>10. CASE ~Queued(u) /\ ~Held(u)
  <2>1. Cardinality(Q) = 0 /\ Cardinality(H) = 0
    BY <1>3, <1>4, <1>5, <1>10
  <2>2. QED  BY <2>1, <1>7, <1>10
<1>11. QED  BY <1>8, <1>9, <1>10

-------------------------------------------------------------------------------
(* How a call ends                                                         *)

Outcome ==
  /\ \A u \in Sources : result[u] = "ctx" => ctxDone
  /\ main = "workers" => queue = <<>> \/ \E w \in Workers : phase[w] # "exited"
  /\ CancelIsTotal

\* Every step keeps what is known of the end of a call.
LEMMA NextOutcome ==
  ASSUME Outcome, Ownership, PoolTypes, Roles, [Next]_vars
  PROVE  Outcome'
<1> USE PoolAssumption DEF Outcome, CancelIsTotal, Returned, Successes
<1>0. /\ result \in [Sources -> Results] /\ phase \in [Workers -> Phases]
      /\ Workers = 1..NumWorkers
  BY DEF PoolTypes, Workers, Budget!Workers
<1>1. ASSUME NEW u \in Sources, ScanHit(u) PROVE Outcome'
  <2>1. main' = "scan" /\ ctxDone' = ctxDone
        /\ \E r \in {"tooLarge", "cached"} : result' = [result EXCEPT ![u] = r]
    BY <1>1 DEF ScanHit, Scanning
  <2>2. QED  BY <1>0, <2>1
<1>2. ASSUME NEW u \in Sources, ScanMiss(u) PROVE Outcome'
  BY <1>2 DEF ScanMiss, Scanning
<1>3. CASE Enter
  BY <1>3 DEF Enter, Return, Roles
<1>4. CASE ScanOverflows
  <2>1. \A u \in Sources : result[u] \in {"unset", "cached", "tooLarge"}
    BY <1>4 DEF ScanOverflows, ScanOver, Ownership, Awaited
  <2>2. PICK u \in Sources : result[u] = "tooLarge"
    BY <1>4 DEF ScanOverflows
  <2>3. /\ main' = "returned" /\ ret' = "overflow"
        /\ result' = [v \in Sources |-> IF result[v] = "unset" THEN "skipped" ELSE result[v]]
    BY <1>4 DEF ScanOverflows, Return, NotFetched
  <2>4. \A v \in Sources : result'[v] \in {"skipped", "cached", "tooLarge"}
    BY <2>1, <2>3
  <2>5. result'[u] = "tooLarge"
    BY <2>2, <2>3
  <2>6. QED  BY <2>3, <2>4, <2>5
<1>5. CASE AllCached
  <2>1. \A u \in Sources : result[u] = "cached"
    BY <1>5 DEF AllCached
  <2>2. CASE ctxDone
    <3>1. main' = "returned" /\ ret' = "ctx" /\ ctxDone' = ctxDone
          /\ result' = [u \in Sources |-> "ctx"]
      BY <1>5, <2>2 DEF AllCached, Return
    <3>2. 1 \in Sources /\ result'[1] = "ctx"
      BY <3>1 DEF Sources
    <3>3. QED  BY <2>2, <3>1, <3>2
  <2>3. CASE ~ctxDone
    BY <1>5, <2>1, <2>3 DEF AllCached, Return
  <2>4. QED  BY <2>2, <2>3
<1>6. CASE StartWorkers
  <2>1. /\ main' = "workers" /\ result' = result /\ ctxDone' = ctxDone
        /\ phase' = [w \in Workers |-> IF w <= Len(queue) THEN "fetch" ELSE "exited"]
        /\ queue # <<>> /\ queue \in Seq(Sources)
    BY <1>6 DEF StartWorkers, PoolTypes
  <2>2. 1 \in Workers /\ 1 <= Len(queue)
    BY <1>0, <2>1
  <2>3. phase'[1] # "exited"
    BY <2>1, <2>2
  <2>4. QED  BY <2>1, <2>2, <2>3
<1>7. CASE Join
  <2>1. /\ main = "workers" /\ \A w \in Workers : phase[w] = "exited" /\ job[w] = 0
        /\ main' = "returned" /\ ctxDone' = ctxDone /\ queue = <<>>
    BY <1>7 DEF Join, Return, Roles, RoleOf, Busy
  <2>2. CASE ctxDone
    <3>1. ret' = "ctx" /\ result' = [u \in Sources |-> "ctx"]
      BY <1>7, <2>2 DEF Join, Return
    <3>2. 1 \in Sources /\ result'[1] = "ctx"
      BY <3>1 DEF Sources
    <3>3. QED  BY <2>1, <2>2, <3>1, <3>2
  <2>3. CASE ~ctxDone
    <3>1. /\ result' = result
          /\ ret' = IF \A u \in Sources : result[u] \in {"ok", "cached"} THEN "ok" ELSE "errors"
      BY <1>7, <2>3 DEF Join, Return
    <3>2. \A u \in Sources : ~Queued(u) /\ ~Held(u)
      BY <2>1 DEF Queued, Held, Sources
    <3>3. \A u \in Sources : result[u] \notin {"ctx", "unset"}
      BY <2>1, <2>3, <3>2 DEF Ownership, Awaited
    <3>4. QED  BY <2>1, <3>1, <3>3
  <2>4. QED  BY <2>2, <2>3
<1>8. CASE Cancel
  BY <1>8 DEF Cancel, jobVars
<1>9. CASE UNCHANGED vars
  BY <1>9 DEF vars, poolVars
<1>10. CASE CallAgain
  <2>1. main' = "entry" /\ \A u \in Sources : result'[u] = "unset"
    BY <1>10 DEF CallAgain
  <2>2. QED  BY <2>1
<1>11. ASSUME NEW w \in Workers, WorkerStep(w) PROVE Outcome'
  <2>0. phase[w] # "exited" /\ main = "workers" /\ UNCHANGED callVars
    <3>1. phase[w] # "exited" /\ UNCHANGED callVars
      BY <1>11 DEF WorkerStep, BodyStep, TakeJob, WorkerExits, TimerFires, BackoffCancelled,
            RequestFails, RequestSucceeds, ReserveStep, ReadStep, WriteStep, ProbeStep,
            RejectStep, PublishStep, RefundStep, AttemptReturns, InBody, poolVars, callVars
    <3>2. QED  BY <3>1 DEF Roles, RoleOf
  <2>1. ASSUME queue' = <<>> \/ phase'[w] # "exited",
               \A u \in Sources : result'[u] = "ctx" => ctxDone
        PROVE  Outcome'
    BY <2>0, <2>1 DEF callVars
  <2>2. CASE TakeJob(w)
    <3>1. phase'[w] # "exited"
      BY <1>0, <2>0, <2>2 DEF TakeJob, Phases
    <3>2. \A u \in Sources : result'[u] = "ctx" => ctxDone
      BY <1>0, <2>2 DEF TakeJob
    <3>3. QED  BY <2>1, <3>1, <3>2
  <2>3. ASSUME NEW e, EndAttempt(w, e) PROVE Outcome'
    <3>1. phase'[w] # "exited" /\ \A u \in Sources : result'[u] = "ctx" => ctxDone
      BY <1>0, <2>3, AttemptEnds DEF Settle
    <3>2. QED  BY <2>1, <3>1
  <2>4. CASE (\E e \in RequestErrors : RequestFails(w, e)) \/ AttemptReturns(w)
    BY <2>3, <2>4 DEF RequestFails, AttemptReturns
  <2>5. CASE BackoffCancelled(w)
    <3>1. phase'[w] # "exited" /\ \A u \in Sources : result'[u] = "ctx" => ctxDone
      BY <1>0, <2>5 DEF BackoffCancelled, Settle
    <3>2. QED  BY <2>1, <3>1
  <2>6. CASE WorkerExits(w) \/ TimerFires(w) \/ (\E p \in Pages : RequestSucceeds(w, p))
             \/ Streams(w) \/ PublishStep(w)
    <3>1. result' = result /\ (queue' = <<>> \/ phase'[w] # "exited")
      BY <1>0, <2>0, <2>6 DEF WorkerExits, TimerFires, RequestSucceeds, Streams, PublishStep,
                              poolVars, jobVars
    <3>2. QED  BY <2>1, <3>1
  <2>7. QED  BY <1>11, <2>2, <2>4, <2>5, <2>6, BodyCases DEF WorkerStep
<1>12. QED  BY <1>1, <1>2, <1>3, <1>4, <1>5, <1>6, <1>7, <1>8, <1>9, <1>10, <1>11
            DEF Next, MainStep, Finished

-------------------------------------------------------------------------------
(* What the files hold                                                     *)

\* A body that has come to its end is whole, and success means a good file.
GoodBody(w) ==
  phase[w] = "body" =>
    /\ pc[w] = "finish" => got[w] = BodyEnd(job[w])
    /\ pc[w] = "write" /\ status[w] = "eof" => got[w] = BodyEnd(job[w])
    /\ ~OpenFaults /\ status[w] = "ok" => file[job[w]] = "good"

Bodies == \A w \in Workers : GoodBody(w)

FilesGood == SuccessHasFile /\ CacheClean

StreamTypes ==
  /\ pc \in [Workers -> Budget!Locations]
  /\ got \in [Workers -> Nat]
  /\ written \in [Workers -> Nat]
  /\ status \in [Workers -> Budget!Statuses]

\* The types the steps of a body rest on.
LEMMA StreamTypesHold == Budget!Inv => StreamTypes
<1> SUFFICES ASSUME Budget!Inv PROVE StreamTypes
  OBVIOUS
<1>1. /\ pc \in [Workers -> Budget!Locations]
      /\ got \in [Workers -> 0..MaxSource + 1] /\ written \in [Workers -> 0..MaxSource + 1]
      /\ status \in [Workers -> Budget!Statuses]
  BY DEF Budget!Inv, Budget!TypeOK, Workers
<1>2. 0..MaxSource + 1 \subseteq Nat
  OBVIOUS
<1>3. QED  BY <1>1, <1>2 DEF StreamTypes

\* Only a body that is whole is renamed into place, and only a list unless the
\* file cannot be sniffed.
LEMMA PublishGood ==
  ASSUME Budget!Inv, Bodies, PoolTypes, Roles, NEW w \in Workers, PublishStep(w)
  PROVE  /\ job[w] \in Sources /\ got[w] = Size[job[w]]
         /\ ~OpenFaults => file' = [file EXCEPT ![job[w]] = "good"]
<1>1. job[w] \in Sources
  BY DEF PublishStep, InBody, Roles, RoleOf, Busy, PoolTypes, Sources
<1>2. ~OpenFaults => page[w] = "list"
  BY DEF PublishStep, NoHtmlError
<1>3. pc[w] = "finish" /\ written[w] \in 1..MaxSource /\ got[w] = BodyEnd(job[w])
  BY DEF PublishStep, Budget!PublishFile, Bodies, GoodBody, InBody
<1>4. written[w] = got[w]
  BY <1>3 DEF Budget!Inv, Budget!Bookkeeping, Workers
<1>5. Size[job[w]] \in Nat /\ MaxSource \in Nat
  BY <1>1, PoolAssumption
<1>6. written[w] = Size[job[w]]
  BY <1>3, <1>4, <1>5 DEF BodyEnd, Budget!LesserOf
<1>7. QED  BY <1>1, <1>2, <1>4, <1>6 DEF PublishStep

\* A step of w leaves the bodies of the others alone.
LEMMA OneBody ==
  ASSUME StreamTypes, Bodies, NEW w \in Workers, GoodBody(w)',
         NEW q, pc' = [pc EXCEPT ![w] = q] \/ pc' = [Budget!Woken(pc) EXCEPT ![w] = q],
         \A v \in Workers \ {w} : /\ phase'[v] = phase[v] /\ job'[v] = job[v]
                                  /\ got'[v] = got[v] /\ status'[v] = status[v],
         ~OpenFaults => \A u \in Sources : file[u] = "good" => file'[u] = "good",
         PoolTypes, Roles
  PROVE  Bodies'
<1>1. ASSUME NEW v \in Workers \ {w} PROVE GoodBody(v)'
  <2>1. pc'[v] \in {"finish", "write"} => pc'[v] = pc[v]
    BY DEF StreamTypes, Budget!Woken, Workers
  <2>2. phase[v] = "body" => job[v] \in Sources
    BY DEF Roles, RoleOf, Busy, PoolTypes, Sources
  <2>3. QED  BY <1>1, <2>1, <2>2 DEF Bodies, GoodBody
<1>2. QED  BY <1>1 DEF Bodies

\* The streaming of a body keeps what is known of all bodies.
LEMMA NextBodies ==
  ASSUME Bodies, Budget!Inv, PoolTypes, Roles, NEW w \in Workers, BodyStep(w)
  PROVE  Bodies'
<1>0. StreamTypes
  BY StreamTypesHold
<1>1. CASE ReserveStep(w)
  <2>1. PICK q \in {"read", "asleep", "probe"} : pc' = [pc EXCEPT ![w] = q]
    BY <1>1 DEF ReserveStep, Budget!Reserve, Budget!ReserveBytes, Budget!ReserveWaits,
                Budget!ReserveRefused
  <2>2. UNCHANGED <<phase, job, got, status, file>>
    BY <1>1 DEF ReserveStep, Budget!Reserve, Budget!ReserveBytes, Budget!ReserveWaits,
                Budget!ReserveRefused, poolVars
  <2>3. GoodBody(w)'
    BY <1>0, <2>1, <2>2 DEF GoodBody, Bodies, StreamTypes
  <2>4. QED  BY <1>0, <2>1, <2>2, <2>3, OneBody
<1>2. ASSUME NEW n \in 0..BufBytes, NEW e \in Budget!BodyStates, ReadStep(w, n, e) PROVE Bodies'
  <2>1. /\ pc' = [Budget!Woken(pc) EXCEPT ![w] = IF n > 0 THEN "write" ELSE Budget!AfterCopy(e)]
        /\ got' = [got EXCEPT ![w] = @ + n] /\ status' = [status EXCEPT ![w] = e]
        /\ UNCHANGED <<phase, job, file>>
        /\ e = "eof" => got[w] + n = BodyEnd(job[w])
    BY <1>2 DEF ReadStep, Budget!ReadReturns, poolVars
  <2>2. Budget!AfterCopy(e) = "finish" => e = "eof"
    BY DEF Budget!AfterCopy, Budget!BodyStates
  <2>3. Budget!AfterCopy(e) # "write" /\ e # "ok"
    BY DEF Budget!AfterCopy, Budget!BodyStates
  <2>4. pc'[w] = IF n > 0 THEN "write" ELSE Budget!AfterCopy(e)
    BY <1>0, <2>1 DEF StreamTypes, Budget!Woken, Workers
  <2>5. got'[w] = got[w] + n /\ status'[w] = e
    BY <1>0, <2>1 DEF StreamTypes
  <2>6. GoodBody(w)'
    BY <2>1, <2>2, <2>3, <2>4, <2>5 DEF GoodBody, BodyEnd
  <2>7. \A v \in Workers \ {w} : got'[v] = got[v] /\ status'[v] = status[v]
    BY <1>0, <2>1 DEF StreamTypes
  <2>8. QED  BY <1>0, <2>1, <2>6, <2>7, OneBody
<1>3. CASE WriteStep(w)
  <2>1. PICK n \in 0..BufBytes : Budget!WriteChunk(w, n)
    BY <1>3 DEF WriteStep, Budget!Write
  <2>2. UNCHANGED <<phase, job, file, got>> /\ pc[w] = "write" /\ phase[w] = "body"
    BY <1>3, <2>1 DEF WriteStep, Budget!WriteChunk, poolVars, InBody
  <2> DEFINE whole == written[w] + n = got[w]
             q == IF whole THEN Budget!AfterCopy(status[w]) ELSE "refund"
  <2>3. /\ status' = [status EXCEPT ![w] = IF whole THEN @ ELSE "failed"]
        /\ pc' = [pc EXCEPT ![w] = q]
    BY <2>1 DEF Budget!WriteChunk
  <2>4. Budget!AfterCopy(status[w]) = "finish" => status[w] = "eof"
    BY <1>0 DEF Budget!AfterCopy, StreamTypes, Budget!Statuses
  <2>5. q # "write"
    BY DEF Budget!AfterCopy
  <2>6. pc'[w] = q /\ status'[w] = IF whole THEN status[w] ELSE "failed"
    BY <1>0, <2>3 DEF StreamTypes
  <2>7. GoodBody(w)'
    <3>1. pc'[w] = "finish" => status[w] = "eof"
      BY <2>4, <2>6
    <3>2. status'[w] = "ok" => status[w] = "ok"
      BY <2>6
    <3>3. pc'[w] # "write"
      BY <2>5, <2>6
    <3>4. QED  BY <2>2, <3>1, <3>2, <3>3 DEF GoodBody, Bodies, BodyEnd
  <2>8. \A v \in Workers \ {w} : status'[v] = status[v]
    BY <1>0, <2>3 DEF StreamTypes
  <2>9. QED  BY <1>0, <2>2, <2>3, <2>7, <2>8, OneBody
<1>4. ASSUME NEW e \in Budget!ProbeOutcomes, ProbeStep(w, e) PROVE Bodies'
  <2>1. /\ pc' = [pc EXCEPT ![w] = Budget!AfterCopy(e)] /\ status' = [status EXCEPT ![w] = e]
        /\ UNCHANGED <<phase, job, file, got>>
        /\ e = "eof" => got[w] = BodyEnd(job[w])
    BY <1>4 DEF ProbeStep, Budget!Probe, poolVars
  <2>2. /\ Budget!AfterCopy(e) = "finish" => e = "eof"
        /\ Budget!AfterCopy(e) # "write" /\ e # "ok"
    BY DEF Budget!AfterCopy, Budget!ProbeOutcomes
  <2>3. pc'[w] = Budget!AfterCopy(e) /\ status'[w] = e
        /\ \A v \in Workers \ {w} : status'[v] = status[v]
    BY <1>0, <2>1 DEF StreamTypes
  <2>4. GoodBody(w)'
    BY <2>1, <2>2, <2>3 DEF GoodBody, BodyEnd
  <2>5. QED  BY <1>0, <2>1, <2>3, <2>4, OneBody
<1>5. CASE RejectStep(w)
  <2>1. PICK q \in {"refund", "idle"} : pc' = [pc EXCEPT ![w] = q]
    BY <1>5 DEF RejectStep, Budget!RejectOversize, Budget!RejectEmpty, Budget!RejectFile
  <2>2. PICK e \in {"tooLarge", "failed"} : status' = [status EXCEPT ![w] = e]
    BY <1>5 DEF RejectStep, Budget!RejectOversize, Budget!RejectEmpty, Budget!RejectFile
  <2>3. UNCHANGED <<phase, job, file, got>>
    BY <1>5 DEF RejectStep, Budget!RejectOversize, Budget!RejectEmpty, Budget!RejectFile, poolVars
  <2>4. pc'[w] = q /\ status'[w] = e /\ \A v \in Workers \ {w} : status'[v] = status[v]
    BY <1>0, <2>1, <2>2 DEF StreamTypes
  <2>5. GoodBody(w)'
    BY <2>1, <2>2, <2>3, <2>4 DEF GoodBody
  <2>6. QED  BY <1>0, <2>1, <2>3, <2>4, <2>5, OneBody
<1>6. CASE PublishStep(w)
  <2>1. job[w] \in Sources /\ (~OpenFaults => file' = [file EXCEPT ![job[w]] = "good"])
    BY <1>6, PublishGood
  <2>2. /\ pc' = [pc EXCEPT ![w] = "idle"] /\ UNCHANGED <<phase, job>>
        /\ got' = [got EXCEPT ![w] = 0] /\ status' = [status EXCEPT ![w] = "ok"]
    BY <1>6 DEF PublishStep, Budget!PublishFile, jobVars
  <2>3. ~OpenFaults => /\ file'[job[w]] = "good"
                       /\ \A u \in Sources : file[u] = "good" => file'[u] = "good"
    BY <2>1 DEF PoolTypes
  <2>4. pc'[w] = "idle"
    BY <1>0, <2>2 DEF StreamTypes
  <2>5. \A v \in Workers \ {w} : got'[v] = got[v] /\ status'[v] = status[v]
    BY <1>0, <2>2 DEF StreamTypes
  <2>6. GoodBody(w)'
    BY <2>2, <2>3, <2>4 DEF GoodBody
  <2>7. QED  BY <1>0, <2>2, <2>3, <2>5, <2>6, OneBody
<1>7. CASE RefundStep(w)
  <2>1. /\ pc' = [Budget!Woken(pc) EXCEPT ![w] = "idle"] /\ got' = [got EXCEPT ![w] = 0]
        /\ UNCHANGED <<phase, job, file, status>>
    BY <1>7 DEF RefundStep, Budget!Refund, poolVars
  <2>2. pc'[w] = "idle" /\ \A v \in Workers \ {w} : got'[v] = got[v]
    BY <1>0, <2>1 DEF StreamTypes, Budget!Woken, Workers
  <2>3. GoodBody(w)'
    BY <2>1, <2>2 DEF GoodBody, Bodies
  <2>4. QED  BY <1>0, <2>1, <2>2, <2>3, OneBody
<1>8. QED  BY <1>1, <1>2, <1>3, <1>4, <1>5, <1>6, <1>7 DEF BodyStep

\* A step that streams nothing.
LEMMA QuietBodies ==
  ASSUME Bodies, PoolTypes, Roles, UNCHANGED <<pc, got, status>>,
         \A v \in Workers : phase'[v] = "body" => phase[v] = "body" /\ job'[v] = job[v],
         ~OpenFaults => \A u \in Sources : file[u] = "good" => file'[u] = "good"
  PROVE  Bodies'
<1>1. \A v \in Workers : phase[v] = "body" => job[v] \in Sources
  BY DEF Roles, RoleOf, Busy, PoolTypes, Sources
<1>2. QED  BY <1>1 DEF Bodies, GoodBody

\* Every step keeps what is known of the bodies.
LEMMA AllBodies ==
  ASSUME Bodies, Budget!Inv, PoolTypes, Roles, [Next]_vars
  PROVE  Bodies'
<1>0. phase \in [Workers -> Phases] /\ job \in [Workers -> 0..NumSources]
  BY DEF PoolTypes
<1>1. ASSUME \A v \in Workers : phase'[v] # "body" PROVE Bodies'
  BY <1>1 DEF Bodies, GoodBody
<1>2. ASSUME UNCHANGED <<pc, got, status, file>>,
             \A v \in Workers : phase'[v] = "body" => phase[v] = "body" /\ job'[v] = job[v]
      PROVE  Bodies'
  BY <1>2, QuietBodies
<1>3. CASE \E u \in Sources : ScanHit(u) \/ ScanMiss(u)
  <2>1. main = "scan" /\ phase' = phase
    BY <1>3 DEF ScanHit, ScanMiss, Scanning, jobVars
  <2>2. QED  BY <1>1, <2>1 DEF Roles, RoleOf
<1>4. CASE Enter \/ ScanOverflows \/ AllCached \/ Join \/ Cancel \/ UNCHANGED vars
  BY <1>2, <1>4 DEF Enter, ScanOverflows, AllCached, Join, Cancel, vars, budgetVars, poolVars,
                    jobVars, diskVars
<1>5. CASE StartWorkers
  <2>1. \A v \in Workers : phase'[v] # "body"
    BY <1>5 DEF StartWorkers
  <2>2. QED  BY <1>1, <2>1
<1>6. CASE CallAgain
  <2>1. \A v \in Workers : phase'[v] # "body"
    BY <1>6 DEF CallAgain, Nobody
  <2>2. QED  BY <1>1, <2>1
<1>7. ASSUME NEW w \in Workers, WorkerStep(w) PROVE Bodies'
  <2>1. CASE TakeJob(w) \/ WorkerExits(w) \/ TimerFires(w) \/ BackoffCancelled(w)
    <3>1. UNCHANGED <<pc, got, status, file>>
      BY <2>1 DEF TakeJob, WorkerExits, TimerFires, BackoffCancelled, budgetVars, diskVars
    <3>2. \A v \in Workers : phase'[v] = "body" => phase[v] = "body" /\ job'[v] = job[v]
      BY <1>0, <2>1 DEF TakeJob, WorkerExits, TimerFires, BackoffCancelled, Settle
    <3>3. QED  BY <1>2, <3>1, <3>2
  <2>2. ASSUME NEW e, EndAttempt(w, e), UNCHANGED budgetVars, file' = file PROVE Bodies'
    <3>1. \A v \in Workers : phase'[v] = "body" => phase[v] = "body" /\ job'[v] = job[v]
      BY <1>0, <2>2, AttemptEnds DEF Settle
    <3>2. QED  BY <1>2, <2>2, <3>1 DEF budgetVars
  <2>3. CASE (\E e \in RequestErrors : RequestFails(w, e)) \/ AttemptReturns(w)
    BY <2>2, <2>3 DEF RequestFails, AttemptReturns, diskVars
  <2>4. CASE \E p \in Pages : RequestSucceeds(w, p)
    <3>1. /\ pc' = [pc EXCEPT ![w] = "reserve"] /\ status' = [status EXCEPT ![w] = "more"]
          /\ phase' = [phase EXCEPT ![w] = "body"]
          /\ UNCHANGED <<got, job, file>>
      BY <2>4 DEF RequestSucceeds, Budget!Begin
    <3>2. StreamTypes
      BY StreamTypesHold
    <3>3. pc'[w] = "reserve" /\ status'[w] = "more"
          /\ \A v \in Workers \ {w} : status'[v] = status[v] /\ phase'[v] = phase[v]
      BY <1>0, <3>1, <3>2 DEF StreamTypes
    <3>4. GoodBody(w)'
      BY <3>3 DEF GoodBody
    <3>5. QED  BY <3>1, <3>2, <3>3, <3>4, OneBody
  <2>5. QED  BY <1>7, <2>1, <2>3, <2>4, NextBodies DEF WorkerStep
<1>8. QED  BY <1>3, <1>4, <1>5, <1>6, <1>7 DEF Next, MainStep, Finished

\* No step breaks a reported file, dirties the cache or loses a good file.
LEMMA NextFiles ==
  ASSUME ~OpenFaults, FilesGood, Bodies, Budget!Inv, Ownership, PoolTypes, Roles, [Next]_vars
  PROVE  FilesGood' /\ \A u \in Sources : file[u] = "good" => file'[u] = "good"
<1> USE PoolAssumption DEF FilesGood, SuccessHasFile, CacheClean, Successes
<1> DEFINE GoodStay == \A u \in Sources : file[u] = "good" => file'[u] = "good"
           Goal == FilesGood' /\ GoodStay
<1>0. /\ result \in [Sources -> Results] /\ file \in [Sources -> Files]
      /\ scanned \in Nat /\ \A u \in Sources : u \in Nat
  BY DEF PoolTypes, Sources
<1>1. ASSUME NEW u \in Sources, ScanHit(u) PROVE Goal
  <2>1. /\ file' = file /\ file[u] = "good" /\ u = scanned + 1 /\ scanned' = u
        /\ \E r \in {"tooLarge", "cached"} : result' = [result EXCEPT ![u] = r]
    BY <1>1 DEF ScanHit, Scanning, diskVars
  <2>2. SuccessHasFile'
    BY <1>0, <2>1
  <2>3. CacheClean'
    <3>1. \A x \in Sources : u >= x => scanned >= x \/ x = u
      BY <1>0, <2>1
    <3>2. QED  BY <2>1, <3>1
  <2>4. QED  BY <2>1, <2>2, <2>3
<1>2. ASSUME NEW u \in Sources, ScanMiss(u) PROVE Goal
  <2>1. /\ u = scanned + 1 /\ scanned' = u /\ result' = result
        /\ file' = IF CacheConfigured THEN [file EXCEPT ![u] = "none"] ELSE file
        /\ CacheConfigured => file[u] # "good"
    BY <1>2 DEF ScanMiss, Scanning
  <2>2. GoodStay
    BY <1>0, <2>1
  <2>3. SuccessHasFile'
    BY <2>1, <2>2
  <2>4. CacheClean'
    <3>1. \A x \in Sources : u >= x => scanned >= x \/ x = u
      BY <1>0, <2>1
    <3>2. \A x \in Sources : file'[x] = file[x] \/ file'[x] = "none"
      BY <1>0, <2>1
    <3>3. CacheConfigured => file'[u] = "none"
      BY <1>0, <2>1
    <3>4. QED  BY <2>1, <3>1, <3>2, <3>3
  <2>5. QED  BY <2>2, <2>3, <2>4
<1>3. ASSUME file' = file, scanned' = scanned,
             \A u \in Sources : result'[u] \in {"ok", "cached"} => file[u] = "good"
      PROVE  Goal
  BY <1>3
<1>4. CASE Enter \/ Cancel \/ UNCHANGED vars \/ StartWorkers
  BY <1>3, <1>4 DEF Enter, Cancel, vars, diskVars, poolVars, StartWorkers
<1>5. CASE ScanOverflows
  <2>1. \A u \in Sources : result'[u] \in {"ok", "cached"} => result[u] \in {"ok", "cached"}
    BY <1>5 DEF ScanOverflows
  <2>2. QED  BY <1>3, <1>5, <2>1 DEF ScanOverflows, diskVars
<1>6. CASE AllCached \/ Join
  <2>1. result' = result \/ result' = [u \in Sources |-> "ctx"]
    BY <1>6 DEF AllCached, Join
  <2>2. QED  BY <1>3, <1>6, <2>1 DEF AllCached, Join, diskVars
<1>7. CASE CallAgain
  <2>1. file' = file /\ scanned' = 0 /\ \A u \in Sources : result'[u] = "unset"
    BY <1>7 DEF CallAgain
  <2>2. CacheClean'
    BY <1>0, <2>1 DEF Sources
  <2>3. QED  BY <2>1, <2>2
<1>8. ASSUME NEW w \in Workers, WorkerStep(w) PROVE Goal
  <2>1. CASE TakeJob(w)
    <3>1. \A u \in Sources : result'[u] \in {"ok", "cached"} => result[u] \in {"ok", "cached"}
      BY <1>0, <2>1 DEF TakeJob
    <3>2. QED  BY <1>3, <2>1, <3>1 DEF TakeJob, callVars, diskVars
  <2>2. ASSUME NEW r \in Results, Settle(w, r), r = "ok" => file[job[w]] = "good", r # "cached",
               UNCHANGED <<file, scanned>>
        PROVE  Goal
    <3>1. \A u \in Sources : result'[u] \in {"ok", "cached"} => file[u] = "good"
      BY <1>0, <2>2 DEF Settle
    <3>2. QED  BY <1>3, <2>2, <3>1
  <2>3. ASSUME NEW e, EndAttempt(w, e), e = "ok" => file[job[w]] = "good",
               UNCHANGED <<file, scanned>>
        PROVE  Goal
    <3>1. ASSUME NEW r \in {"ok", "ctx", "failed", "tooLarge"}, Settle(w, r), r = "ok" => e = "ok"
          PROVE  Goal
      BY <2>2, <2>3, <3>1 DEF Results
    <3>2. CASE result' = result
      BY <1>3, <2>3, <3>2
    <3>3. QED  BY <2>3, <3>1, <3>2, AttemptEnds
  <2>4. CASE \E e \in RequestErrors : RequestFails(w, e)
    BY <2>3, <2>4 DEF RequestFails, RequestErrors, callVars, diskVars
  <2>5. CASE AttemptReturns(w)
    <3>1. status[w] = "ok" => file[job[w]] = "good"
      BY <2>5 DEF AttemptReturns, InBody, Bodies, GoodBody
    <3>2. QED  BY <2>3, <2>5, <3>1 DEF AttemptReturns, callVars
  <2>6. CASE BackoffCancelled(w)
    BY <2>2, <2>6 DEF BackoffCancelled, Results, callVars, diskVars
  <2>7. CASE WorkerExits(w) \/ TimerFires(w) \/ (\E p \in Pages : RequestSucceeds(w, p))
    BY <1>3, <2>7 DEF WorkerExits, TimerFires, RequestSucceeds, callVars, diskVars
  <2>8. CASE BodyStep(w)
    <3>1. UNCHANGED <<result, scanned>>
      BY <2>8, BodyCases DEF Streams, PublishStep, poolVars, callVars
    <3>2. file' = file \/ \E u \in Sources : file' = [file EXCEPT ![u] = "good"]
      BY <2>8, BodyCases, PublishGood DEF Streams, poolVars
    <3>3. \A u \in Sources : file'[u] \in {file[u], "good"}
      BY <1>0, <3>2
    <3>4. QED  BY <3>1, <3>3
  <2>9. QED  BY <1>8, <2>1, <2>4, <2>5, <2>6, <2>7, <2>8 DEF WorkerStep
<1>9. QED  BY <1>1, <1>2, <1>4, <1>5, <1>6, <1>7, <1>8 DEF Next, MainStep, Finished

-------------------------------------------------------------------------------
(* What a call delivers                                                    *)

\* The sources that are reported as delivered, or are about to be.
Delivered == Successes \cup {job[w] : w \in {v \in Workers : phase[v] = "body" /\ status[v] = "ok"}}

Spent == cached + Budget!SumOf(published)

\* Deliveries are paid for; before the workers run, cache hits alone fit.
Paid == /\ BytesOf(Delivered) <= Spent
        /\ ~started => BytesOf(Delivered) <= Limit

\* The bytes of a set of sources are a number.
LEMMA BytesType ==
  ASSUME NEW S
  PROVE  /\ [u \in Sources |-> IF u \in S THEN Size[u] ELSE 0] \in [1..NumSources -> Int]
         /\ BytesOf(S) \in Nat
<1> DEFINE f == [u \in Sources |-> IF u \in S THEN Size[u] ELSE 0]
<1>1. f \in [1..NumSources -> Nat] /\ f \in [1..NumSources -> Int] /\ NumSources \in Nat
  BY PoolAssumption DEF Sources
<1>2. QED  BY <1>1, SumType DEF BytesOf

\* More sources have more bytes.
LEMMA BytesMonotone ==
  ASSUME NEW S, NEW T, \A u \in Sources : u \in S => u \in T
  PROVE  BytesOf(S) <= BytesOf(T)
<1> DEFINE f == [u \in Sources |-> IF u \in S THEN Size[u] ELSE 0]
           g == [u \in Sources |-> IF u \in T THEN Size[u] ELSE 0]
<1>1. f \in [1..NumSources -> Int] /\ g \in [1..NumSources -> Int] /\ NumSources \in Nat
  BY BytesType, PoolAssumption
<1>2. \A i \in 1..NumSources : f[i] <= g[i]
  BY PoolAssumption DEF Sources
<1> HIDE DEF f, g
<1>3. SumTo(NumSources, f) <= SumTo(NumSources, g)
  BY <1>1, <1>2, SumMonotone
<1>4. QED  BY <1>3 DEF BytesOf, f, g

\* One more source adds at most its bytes.
LEMMA BytesAdd ==
  ASSUME NEW S, NEW T, NEW u \in Sources, \A x \in Sources : x \in T => x \in S \/ x = u
  PROVE  BytesOf(T) <= BytesOf(S) + Size[u]
<1> DEFINE f == [x \in Sources |-> IF x \in S THEN Size[x] ELSE 0]
           g == [x \in Sources |-> IF x \in S \cup {u} THEN Size[x] ELSE 0]
<1>1. f \in [1..NumSources -> Int] /\ NumSources \in Nat /\ u \in 1..NumSources /\ Size[u] \in Int
  BY BytesType, PoolAssumption DEF Sources
<1>2. g = [f EXCEPT ![u] = Size[u]] /\ f[u] \in Nat
  BY PoolAssumption DEF Sources
<1> HIDE DEF f, g
<1>3. SumTo(NumSources, g) = SumTo(NumSources, f) - f[u] + Size[u]
  BY <1>1, <1>2, SumUpdate
<1>4. BytesOf(S) = SumTo(NumSources, f) /\ BytesOf(S \cup {u}) = SumTo(NumSources, g)
  BY DEF BytesOf, f, g
<1>5. BytesOf(T) <= BytesOf(S \cup {u})
  BY BytesMonotone
<1>6. BytesOf(T) \in Nat /\ BytesOf(S) \in Nat /\ BytesOf(S \cup {u}) \in Nat
  BY BytesType
<1>7. QED  BY <1>1, <1>2, <1>3, <1>4, <1>5, <1>6

\* What is spent, and its bound, follow from the budget's invariant.
LEMMA SpentBounds ==
  ASSUME Budget!Inv
  PROVE  /\ Spent \in Nat /\ (remaining \in Nat => Spent <= Limit)
         /\ started => remaining \in Nat
         /\ published \in [Workers -> Int]
<1>1. P!TypeOK /\ P!Total <= Limit
  BY SameInv DEF P!Inv
<1>2. P!SumOf(want) \in Nat /\ P!SumOf(got) \in Nat /\ P!SumOf(published) \in Nat
  BY <1>1, BudgetConstants, P!SumsNat
<1>3. remaining \in Int /\ cached \in Nat /\ (started => remaining \in Nat)
      /\ published \in [Workers -> Int]
  BY <1>1 DEF P!TypeOK, P!Workers, Workers, Budget!Workers
<1>4. Spent = cached + P!SumOf(published)
  BY SameSum DEF Spent
<1>5. P!Total \in Int
  BY <1>2, <1>3 DEF P!Total
<1>6. QED  BY <1>1, <1>2, <1>3, <1>4, <1>5, PoolAssumption DEF P!Total

\* The bound in a form that can be primed.
LEMMA SpentWithin == Budget!Inv /\ remaining \in Nat => Spent <= Limit
BY SpentBounds

\* Nothing is delivered that was not before, and nothing spent comes back.
LEMMA NothingNew ==
  ASSUME Paid, Budget!Inv, Spent' \in Int, Spent <= Spent', started => started',
         \A u \in Sources : u \in Delivered' => u \in Delivered
  PROVE  Paid'
<1>1. BytesOf(Delivered)' <= BytesOf(Delivered)
  BY BytesMonotone
<1>2. BytesOf(Delivered)' \in Nat /\ BytesOf(Delivered) \in Nat /\ Spent \in Nat /\ Limit \in Nat
  BY BytesType, SpentBounds, PoolAssumption
<1>3. QED  BY <1>1, <1>2 DEF Paid

\* A step that spends nothing and delivers nothing.
LEMMA QuietDeliveries ==
  ASSUME Paid, Budget!Inv, UNCHANGED <<cached, published>>, started => started',
         \A u \in Sources : u \in Delivered' => u \in Delivered
  PROVE  Paid'
<1>1. Spent' = Spent /\ Spent \in Nat
  BY SpentBounds DEF Spent
<1>2. QED  BY <1>1, NothingNew

\* A source is delivered, and its bytes are spent.
LEMMA OneMore ==
  ASSUME Paid, Budget!Inv, Budget!Inv', NEW u \in Sources, Spent' = Spent + Size[u],
         \A x \in Sources : x \in Delivered' => x \in Delivered \/ x = u,
         ~started' => remaining' \in Nat
  PROVE  Paid'
<1>1. BytesOf(Delivered)' <= BytesOf(Delivered) + Size[u]
  BY BytesAdd
<1>2. /\ BytesOf(Delivered)' \in Nat /\ BytesOf(Delivered) \in Nat /\ Spent \in Nat
      /\ Limit \in Nat /\ Size[u] \in Nat
  BY BytesType, SpentBounds, PoolAssumption
<1>3. remaining' \in Nat => Spent' <= Limit
  <2>1. (Budget!Inv /\ remaining \in Nat => Spent <= Limit)'
    BY SpentWithin, PTL
  <2>2. QED  BY <2>1
<1>4. QED  BY <1>1, <1>2, <1>3 DEF Paid

\* Nothing delivered costs nothing.
LEMMA FreeOfCharge ==
  ASSUME NEW S, \A u \in Sources : u \notin S
  PROVE  BytesOf(S) = 0
<1>1. [u \in Sources |-> IF u \in S THEN Size[u] ELSE 0] = [i \in 1..NumSources |-> 0]
  BY DEF Sources
<1>2. SumTo(NumSources, [i \in 1..NumSources |-> 0]) = 0
  BY SumOfZeros, PoolAssumption
<1>3. QED  BY <1>1, <1>2 DEF BytesOf

\* Before anything is delivered, nothing has to be paid.
LEMMA NoneDelivered ==
  ASSUME Budget!Inv, \A u \in Sources : u \notin Delivered
  PROVE  Paid
<1>1. BytesOf(Delivered) = 0
  BY FreeOfCharge
<1>2. QED  BY <1>1, SpentBounds, PoolAssumption DEF Paid

\* The same in a form that can be primed.
LEMMA NoneDeliveredYet == Budget!Inv /\ (\A u \in Sources : u \notin Delivered) => Paid
BY NoneDelivered

\* A body step other than the rename spends nothing and ends no attempt well.
LEMMA BodySpendsNothing ==
  ASSUME Budget!Inv, NEW w \in Workers, BodyStep(w), ~PublishStep(w)
  PROVE  /\ UNCHANGED <<cached, published, started, poolVars>>
         /\ \A v \in Workers : status'[v] = "ok" => status[v] = "ok"
<1>0. status \in [Workers -> Budget!Statuses]
  BY StreamTypesHold DEF StreamTypes
<1>1. CASE ReserveStep(w)
  BY <1>1 DEF ReserveStep, Budget!Reserve, Budget!ReserveBytes, Budget!ReserveWaits,
              Budget!ReserveRefused
<1>2. CASE \E n \in 0..BufBytes, e \in Budget!BodyStates : ReadStep(w, n, e)
  BY <1>0, <1>2 DEF ReadStep, Budget!ReadReturns, Budget!BodyStates
<1>3. CASE WriteStep(w)
  BY <1>0, <1>3 DEF WriteStep, Budget!Write, Budget!WriteChunk
<1>4. CASE \E e \in Budget!ProbeOutcomes : ProbeStep(w, e)
  BY <1>0, <1>4 DEF ProbeStep, Budget!Probe, Budget!ProbeOutcomes
<1>5. CASE RejectStep(w)
  BY <1>0, <1>5 DEF RejectStep, Budget!RejectOversize, Budget!RejectEmpty, Budget!RejectFile
<1>6. CASE RefundStep(w)
  BY <1>6 DEF RefundStep, Budget!Refund
<1>7. QED  BY <1>1, <1>2, <1>3, <1>4, <1>5, <1>6 DEF BodyStep

\* The rename spends the bytes of the source it delivers.
LEMMA PublishPays ==
  ASSUME Paid, Budget!Inv, Budget!Inv', Bodies, PoolTypes, Roles, NEW w \in Workers, PublishStep(w)
  PROVE  Paid'
<1>1. job[w] \in Sources /\ got[w] = Size[job[w]]
  BY PublishGood
<1>2. /\ published' = [published EXCEPT ![w] = published[w] + got[w]]
      /\ status' = [status EXCEPT ![w] = "ok"]
      /\ UNCHANGED <<cached, started, phase, job, result>>
      /\ pc[w] = "finish"
  BY DEF PublishStep, Budget!PublishFile, jobVars
<1>3. started
  <2>1. Budget!NotBeforeStart /\ started \in BOOLEAN
    BY DEF Budget!Inv, Budget!TypeOK
  <2>2. QED  BY <1>2, <2>1 DEF Budget!NotBeforeStart, Workers
<1>4. published \in [Workers -> Int] /\ published[w] \in Int /\ Size[job[w]] \in Int
  BY <1>1, SpentBounds, PoolAssumption
<1>5. P!SumOf(published') = P!SumOf(published) - published[w] + (published[w] + Size[job[w]])
  <2> DEFINE n == published[w] + Size[job[w]]
  <2>1. n \in Int /\ published' = [published EXCEPT ![w] = n]
    BY <1>1, <1>2, <1>4
  <2>2. published \in [P!Workers -> Int] /\ w \in P!Workers
    BY <1>4 DEF Workers, Budget!Workers, P!Workers
  <2> HIDE DEF n
  <2>3. P!SumOf([published EXCEPT ![w] = n]) = P!SumOf(published) - published[w] + n
    BY <2>1, <2>2, P!SumChange, BudgetConstants, Zenon
  <2>4. QED  BY <2>1, <2>3 DEF n
<1>6. P!SumOf(published) \in Int /\ cached \in Int
  <2>1. P!TypeOK
    BY SameInv DEF P!Inv
  <2>2. QED  BY <2>1, BudgetConstants, P!SumsNat DEF P!TypeOK
<1>7. Spent = cached + P!SumOf(published) /\ Spent' = cached' + P!SumOf(published')
  BY SameSum DEF Spent
<1>8. Spent' = Spent + Size[job[w]]
  BY <1>2, <1>4, <1>5, <1>6, <1>7
<1>9. \A x \in Sources : x \in Delivered' => x \in Delivered \/ x = job[w]
  BY <1>2 DEF Delivered, Successes
<1>10. QED  BY <1>1, <1>2, <1>3, <1>8, <1>9, OneMore

\* A cache hit spends its bytes, delivered or too large.
LEMMA ScanPays ==
  ASSUME Paid, Budget!Inv, Budget!Inv', PoolTypes, Roles, NEW u \in Sources, ScanHit(u)
  PROVE  Paid'
<1>1. /\ cached' = cached + Size[u] /\ UNCHANGED <<published, started, phase, job, status>>
      /\ result' = [result EXCEPT ![u] = IF remaining' < 0 THEN "tooLarge" ELSE "cached"]
  BY DEF ScanHit, Budget!ChargeCached, jobVars
<1>2. Budget!SumOf(published) \in Int /\ cached \in Int /\ Size[u] \in Nat /\ remaining' \in Int
  <2>1. P!TypeOK
    BY SameInv DEF P!Inv
  <2>2. P!SumOf(published) \in Nat /\ cached \in Int
    BY <2>1, BudgetConstants, P!SumsNat DEF P!TypeOK
  <2>3. remaining' \in Int
    BY DEF Budget!Inv, Budget!TypeOK
  <2>4. QED  BY <2>2, <2>3, SameSum, PoolAssumption
<1>3. Spent' = Spent + Size[u] /\ Spent \in Int
  BY <1>1, <1>2 DEF Spent
<1>4. result \in [Sources -> Results]
  BY DEF PoolTypes
<1>5. CASE remaining' < 0
  <2>1. \A x \in Sources : x \in Delivered' => x \in Delivered
    BY <1>1, <1>4, <1>5 DEF Delivered, Successes
  <2>2. QED  BY <1>1, <1>2, <1>3, <2>1, NothingNew
<1>6. CASE remaining' >= 0
  <2>1. \A x \in Sources : x \in Delivered' => x \in Delivered \/ x = u
    BY <1>1, <1>4 DEF Delivered, Successes
  <2>2. QED  BY <1>2, <1>3, <1>6, <2>1, OneMore
<1>7. QED  BY <1>2, <1>5, <1>6

\* Every step keeps the deliveries paid.
LEMMA NextPaid ==
  ASSUME Paid, Budget!Inv, Budget!Inv', Bodies, PoolTypes, Roles, [Next]_vars
  PROVE  Paid'
<1>0. /\ result \in [Sources -> Results] /\ phase \in [Workers -> Phases]
      /\ job \in [Workers -> 0..NumSources] /\ queue \in Seq(Sources)
      /\ status \in [Workers -> Budget!Statuses]
  BY StreamTypesHold DEF PoolTypes, StreamTypes
<1>1. ASSUME UNCHANGED <<cached, published>>, started => started',
             \A v \in Workers : phase'[v] = "body" /\ status'[v] = "ok" =>
                                  phase[v] = "body" /\ status[v] = "ok" /\ job'[v] = job[v],
             \A u \in Sources : u \in Successes' => u \in Delivered
      PROVE  Paid'
  <2>1. \A u \in Sources : u \in Delivered' => u \in Delivered
    BY <1>1 DEF Delivered
  <2>2. QED  BY <1>1, <2>1, QuietDeliveries
<1>2. ASSUME NEW u \in Sources, ScanHit(u) PROVE Paid'
  BY <1>2, ScanPays
<1>3. CASE \/ \E u \in Sources : ScanMiss(u)
           \/ Enter \/ ScanOverflows \/ AllCached \/ Join \/ Cancel \/ UNCHANGED vars
  <2>1. UNCHANGED <<cached, published, started, phase, status, job>>
    BY <1>3 DEF ScanMiss, Enter, ScanOverflows, AllCached, Join, Cancel, vars, budgetVars,
                poolVars, jobVars
  <2>2. \A u \in Sources : u \in Successes' => u \in Successes
    BY <1>0, <1>3 DEF ScanMiss, Enter, ScanOverflows, AllCached, Join, Cancel, NotFetched,
                      vars, poolVars, Successes
  <2>3. QED  BY <1>1, <2>1, <2>2 DEF Delivered
<1>4. CASE StartWorkers
  <2>1. /\ UNCHANGED <<cached, published, result>> /\ started' = TRUE
        /\ \A v \in Workers : phase'[v] # "body"
    BY <1>4 DEF StartWorkers, Budget!StartWorkers
  <2>2. QED  BY <1>1, <2>1 DEF Delivered, Successes
<1>5. CASE CallAgain
  <2>1. \A u \in Sources : u \notin Delivered'
    BY <1>5 DEF CallAgain, Nobody, Delivered, Successes
  <2>2. (Budget!Inv /\ (\A u \in Sources : u \notin Delivered) => Paid)'
    BY NoneDeliveredYet, PTL
  <2>3. QED  BY <2>1, <2>2
<1>6. ASSUME NEW w \in Workers, WorkerStep(w) PROVE Paid'
  <2>1. ASSUME NEW e, EndAttempt(w, e), UNCHANGED budgetVars,
               e = "ok" => phase[w] = "body" /\ status[w] = "ok"
        PROVE  Paid'
    <3>1. \A v \in Workers : phase'[v] = "body" => phase[v] = "body" /\ job'[v] = job[v]
      BY <1>0, <2>1, AttemptEnds DEF Settle
    <3>2. \A u \in Sources : u \in Successes' => u \in Successes \/ (e = "ok" /\ u = job[w])
      BY <1>0, <2>1, AttemptEnds DEF Settle, Successes
    <3>3. QED  BY <1>1, <2>1, <3>1, <3>2 DEF Delivered, budgetVars
  <2>2. CASE (\E e \in RequestErrors : RequestFails(w, e)) \/ AttemptReturns(w)
    BY <2>1, <2>2 DEF RequestFails, AttemptReturns, RequestErrors, InBody
  <2>3. CASE TakeJob(w) \/ WorkerExits(w) \/ TimerFires(w) \/ BackoffCancelled(w)
    <3>1. UNCHANGED <<cached, published, started, status>>
      BY <2>3 DEF TakeJob, WorkerExits, TimerFires, BackoffCancelled, budgetVars
    <3>2. \A v \in Workers : phase'[v] = "body" => phase[v] = "body" /\ job'[v] = job[v]
      BY <1>0, <2>3 DEF TakeJob, WorkerExits, TimerFires, BackoffCancelled, Settle
    <3>3. \A u \in Sources : u \in Successes' => u \in Successes
      BY <1>0, <2>3 DEF TakeJob, WorkerExits, TimerFires, BackoffCancelled, Settle, Successes
    <3>4. QED  BY <1>1, <3>1, <3>2, <3>3 DEF Delivered
  <2>4. CASE \E p \in Pages : RequestSucceeds(w, p)
    <3>1. /\ status' = [status EXCEPT ![w] = "more"] /\ phase' = [phase EXCEPT ![w] = "body"]
          /\ UNCHANGED <<cached, published, started, job, result>>
      BY <2>4 DEF RequestSucceeds, Budget!Begin
    <3>2. \A v \in Workers : phase'[v] = "body" /\ status'[v] = "ok" =>
                               phase[v] = "body" /\ status[v] = "ok" /\ job'[v] = job[v]
      BY <1>0, <3>1
    <3>3. QED  BY <1>1, <3>1, <3>2 DEF Delivered, Successes
  <2>5. CASE BodyStep(w) /\ ~PublishStep(w)
    <3>1. /\ UNCHANGED <<cached, published, started, phase, job, result>>
          /\ \A v \in Workers : status'[v] = "ok" => status[v] = "ok"
      BY <2>5, BodySpendsNothing DEF poolVars
    <3>2. QED  BY <1>1, <3>1 DEF Delivered, Successes
  <2>6. CASE PublishStep(w)
    BY <2>6, PublishPays
  <2>7. QED  BY <1>6, <2>2, <2>3, <2>4, <2>5, <2>6 DEF WorkerStep
<1>7. QED  BY <1>2, <1>3, <1>4, <1>5, <1>6 DEF Next, MainStep, Finished

-------------------------------------------------------------------------------
(* The theorems                                                            *)

PoolInv == /\ Budget!Inv /\ FilesFit /\ CachedFits
           /\ PoolTypes /\ Roles
           /\ Ownership /\ Outcome /\ Bodies

\* The invariant holds initially.
LEMMA InitPool == Init => PoolInv
<1> SUFFICES ASSUME Init PROVE PoolInv
  OBVIOUS
<1> USE PoolAssumption DEF Init
<1>1. Budget!Inv
  BY BudgetInit
<1>2. \A u \in Sources : u \in Nat /\ ~(u <= 0)
  BY DEF Sources
<1>3. pc = [w \in Workers |-> "idle"] /\ cached = 0
  BY DEF Budget!Init, Workers
<1>4. FilesFit
  <2>1. {"none", "junk", "good"} \subseteq Files
    BY DEF Files
  <2>2. QED  BY <2>1 DEF FilesFit
<1>5. CachedFits
  BY <1>3 DEF CachedFits
<1>6. PoolTypes
  <2>1. queue \in Seq(Sources) /\ Len(queue) <= scanned
    OBVIOUS
  <2>2. /\ phase \in [Workers -> Phases] /\ job \in [Workers -> 0..NumSources]
        /\ attempt \in [Workers -> 0..EffectiveRetries + 1] /\ page \in [Workers -> Pages]
        /\ temp \in [Workers -> BOOLEAN] /\ result \in [Sources -> Results]
    BY RetriesType DEF Nobody, Phases, Pages, Results
  <2>3. /\ main \in {"entry", "scan", "workers", "returned"} /\ scanned \in 0..NumSources
        /\ ret \in {"none", "ok", "ctx", "noDirectory", "overflow", "errors"}
        /\ ctxDone \in BOOLEAN /\ calls \in 1..MaxCalls
    OBVIOUS
  <2>4. QED  BY <2>1, <2>2, <2>3, <1>4 DEF PoolTypes, FilesFit
<1>7. Roles
  BY <1>3 DEF Roles, RoleOf, Nobody, Busy
<1>8. Ownership
  <2>1. main = "entry" /\ scanned = 0 /\ queue = <<>> /\ \A w \in Workers : job[w] = 0
    BY DEF Nobody
  <2>2. Apart
    BY <2>1 DEF Apart
  <2>3. \A u \in Sources : ~Queued(u) /\ result[u] = "unset"
    BY <2>1 DEF Queued
  <2>4. Awaited
    BY <1>2, <2>1, <2>3 DEF Awaited
  <2>5. QED  BY <2>2, <2>4 DEF Ownership
<1>9. Outcome
  BY DEF Outcome, CancelIsTotal, Returned
<1>10. Bodies
  BY DEF Nobody, Bodies, GoodBody
<1>11. QED  BY <1>1, <1>4, <1>5, <1>6, <1>7, <1>8, <1>9, <1>10 DEF PoolInv

\* The invariant is inductive.
LEMMA NextPool == PoolInv /\ [Next]_vars => PoolInv'
BY NextBudget, NextRoles, NextOwnership, NextOutcome, AllBodies DEF PoolInv

\* The invariant holds whatever the sources, limits and schedules are.
THEOREM PoolInvariance == Spec => []PoolInv
BY InitPool, NextPool, PTL DEF Spec

\* Types, and every source that awaits its result is in exactly one place: no
\* two goroutines ever write one slot of results.
THEOREM PoolCorrect == Spec => []Inv
<1>1. PoolInv => Inv
  <2> SUFFICES ASSUME PoolInv PROVE Inv
    OBVIOUS
  <2>1. Len(queue) <= NumSources
    <3>1. queue \in Seq(Sources) /\ Len(queue) <= scanned /\ scanned \in 0..NumSources
      BY DEF PoolInv, PoolTypes
    <3>2. QED  BY <3>1, PoolAssumption
  <2>2. TypeOK
    BY <2>1 DEF PoolInv, PoolTypes, Budget!Inv, TypeOK
  <2>3. OneOwner
    BY OwnershipCounts DEF PoolInv
  <2>4. QED  BY <2>2, <2>3 DEF Inv
<1>2. QED  BY <1>1, PoolInvariance, PTL

\* The budget's invariant, with its limit and its wakeups, holds in the pool:
\* cache hits, retries, cancellation and crashes never break the accounting.
THEOREM PoolKeepsBudget == Spec => []BudgetInv
<1>1. PoolInv => BudgetInv
  BY DEF PoolInv, BudgetInv
<1>2. QED  BY <1>1, PoolInvariance, PTL

\* Cancellation fails the whole manifest and is the only thing that does so.
THEOREM CancellationIsTotal == Spec => []CancelIsTotal
<1>1. PoolInv => CancelIsTotal
  BY DEF PoolInv, Outcome
<1>2. QED  BY <1>1, PoolInvariance, PTL

\* No temporary file is left when the call returns.
THEOREM TempsRemoved == Spec => []NoTempsLeft
<1>1. PoolInv => NoTempsLeft
  BY DEF PoolInv, Roles, RoleOf, NoTempsLeft, Returned
<1>2. QED  BY <1>1, PoolInvariance, PTL

\* Retries are made only when all attempts fit the caller's deadline, for every
\* number of retries, deadline and timeout.
THEOREM RetriesFit == Spec => []AttemptsFitDeadline
<1> USE PoolAssumption
<1>1. PoolInv => AttemptsFitDeadline
  <2> SUFFICES ASSUME PoolInv, NEW w \in Workers, Deadline # 0, attempt[w] > 1
               PROVE  attempt[w] * Timeout <= Deadline
    BY DEF AttemptsFitDeadline
  <2> DEFINE fit == Deadline \div Timeout
  <2>1. attempt[w] \in Nat /\ attempt[w] <= EffectiveRetries + 1
    BY RetriesType DEF PoolInv, PoolTypes
  <2>2. fit \in Nat /\ fit * Timeout <= Deadline
    OBVIOUS
  <2>3. EffectiveRetries <= GreaterOf(fit, 1) - 1
    BY <2>2 DEF EffectiveRetries, Budget!LesserOf, GreaterOf
  <2> HIDE DEF fit
  <2>4. attempt[w] <= fit
    BY <2>1, <2>2, <2>3, RetriesType DEF GreaterOf
  <2>5. attempt[w] * Timeout <= fit * Timeout
    BY <2>1, <2>2, <2>4
  <2>6. attempt[w] * Timeout \in Nat /\ fit * Timeout \in Nat
    BY <2>1, <2>2
  <2>7. QED  BY <2>2, <2>5, <2>6
<1>2. QED  BY <1>1, PoolInvariance, PTL

\* What all workers and the cache together deliver never exceeds MaxTotalBytes,
\* whatever the sizes, retries and interleavings are.
THEOREM DeliveriesWithinLimit == Spec => []DeliveredWithinLimit
<1>1. Init => Paid
  <2>1. Init => \A u \in Sources : u \notin Delivered
    BY DEF Init, Nobody, Delivered, Successes
  <2>2. QED  BY <2>1, BudgetInit, NoneDelivered DEF Init
<1>2. PoolInv /\ PoolInv' /\ Paid /\ [Next]_vars => Paid'
  <2> SUFFICES ASSUME PoolInv, PoolInv', Paid, [Next]_vars PROVE Paid'
    OBVIOUS
  <2>1. Budget!Inv'
    BY DEF PoolInv
  <2>2. QED  BY <2>1, NextPaid DEF PoolInv
<1>3. PoolInv /\ Paid => DeliveredWithinLimit
  <2> SUFFICES ASSUME PoolInv, Paid PROVE DeliveredWithinLimit
    OBVIOUS
  <2>1. BytesOf(Successes) <= BytesOf(Delivered)
    BY BytesMonotone DEF Delivered
  <2>2. BytesOf(Successes) \in Nat /\ BytesOf(Delivered) \in Nat /\ Spent \in Nat /\ Limit \in Nat
    BY BytesType, SpentBounds, PoolAssumption DEF PoolInv
  <2>3. started => Spent <= Limit
    BY SpentBounds DEF PoolInv
  <2>4. QED  BY <2>1, <2>2, <2>3 DEF Paid, DeliveredWithinLimit
<1>4. QED  BY <1>1, <1>2, <1>3, PoolInvariance, PTL DEF Spec

\* No file is reported, and no dirt has passed a scan, initially.
LEMMA InitFiles == Init => FilesGood
<1> SUFFICES ASSUME Init PROVE FilesGood
  OBVIOUS
<1>1. \A u \in Sources : ~(0 >= u)
  BY DEF Sources
<1>2. QED  BY <1>1, PoolAssumption DEF Init, FilesGood, SuccessHasFile, Successes, CacheClean

\* While htmlError can open its file, what is reported and what lies in the
\* cache is good.
LEMMA FilesStayGood ==
  ASSUME ~OpenFaults
  PROVE  Spec => []FilesGood
<1>1. PoolInv /\ FilesGood /\ [Next]_vars => FilesGood'
  BY NextFiles DEF PoolInv
<1>2. QED  BY <1>1, InitFiles, PoolInvariance, PTL DEF Spec

\* Then a source reported without an error has its whole body at its final name.
THEOREM SuccessesHaveFiles ==
  ASSUME ~OpenFaults
  PROVE  Spec => []SuccessHasFile
<1>1. FilesGood => SuccessHasFile
  BY DEF FilesGood
<1>2. QED  BY <1>1, FilesStayGood, PTL

\* And no partial body and no HTML page ever lies at a final name.
THEOREM CacheStaysClean ==
  ASSUME ~OpenFaults
  PROVE  Spec => []CacheClean
<1>1. FilesGood => CacheClean
  BY DEF FilesGood
<1>2. QED  BY <1>1, FilesStayGood, PTL

\* No failure, cancellation or crash ever loses a good file.
THEOREM GoodFilesAreKept ==
  ASSUME ~OpenFaults
  PROVE  Spec => GoodFilesStay
<1>1. PoolInv /\ FilesGood /\ [Next]_vars => [\A u \in Sources : file[u] = "good" => file'[u] = "good"]_vars
  BY NextFiles DEF PoolInv
<1>2. QED  BY <1>1, FilesStayGood, PoolInvariance, PTL DEF Spec, GoodFilesStay
-------------------------------------------------------------------------------
(* Results are final                                                       *)

\* Settle overwrites no result: the source of a worker still awaits its own.
LEMMA SettleIsFirst ==
  ASSUME Ownership, PoolTypes, main = "workers", NEW w \in Workers, job[w] # 0,
         NEW r, Settle(w, r), NEW u \in Sources, result[u] # "unset"
  PROVE  result'[u] = result[u]
<1>1. u # job[w]
  BY DEF Ownership, Awaited, Held
<1>2. result' = [result EXCEPT ![job[w]] = r] /\ result \in [Sources -> Results]
  BY DEF Settle, PoolTypes
<1>3. QED  BY <1>1, <1>2

\* Nor does any other step of a worker.
LEMMA WorkerKeepsResults ==
  ASSUME Ownership, PoolTypes, Roles, NEW w \in Workers, WorkerStep(w),
         NEW u \in Sources, result[u] # "unset"
  PROVE  result'[u] = result[u]
<1>1. main = "workers" \/ phase[w] = "exited"
  BY DEF Roles, RoleOf
<1>2. phase[w] \in Busy => job[w] # 0 /\ main = "workers"
  BY <1>1 DEF Roles, RoleOf, Busy
<1>3. ASSUME NEW r, Settle(w, r), phase[w] \in Busy PROVE result'[u] = result[u]
  BY <1>2, <1>3, SettleIsFirst
<1>4. ASSUME NEW e, EndAttempt(w, e), phase[w] \in Busy PROVE result'[u] = result[u]
  BY <1>3, <1>4, AttemptEnds
<1>5. CASE TakeJob(w)
  <2>1. main = "workers" /\ queue # <<>> /\ queue \in Seq(Sources)
    BY <1>1, <1>5 DEF TakeJob, PoolTypes
  <2>2. Queued(Head(queue))
    <3>1. 1 \in 1..Len(queue) /\ queue[1] = Head(queue)
      BY <2>1
    <3>2. QED  BY <3>1 DEF Queued
  <2>3. u # Head(queue)
    BY <2>1, <2>2 DEF Ownership, Awaited
  <2>4. result' = result \/ result' = [result EXCEPT ![Head(queue)] = "ctx"]
    BY <1>5 DEF TakeJob
  <2>5. QED  BY <2>3, <2>4 DEF PoolTypes
<1>6. CASE WorkerExits(w) \/ TimerFires(w) \/ \E p \in Pages : RequestSucceeds(w, p)
  BY <1>6 DEF WorkerExits, TimerFires, RequestSucceeds
<1>7. CASE \E e \in RequestErrors : RequestFails(w, e)
  BY <1>4, <1>7 DEF RequestFails, Busy
<1>8. CASE BackoffCancelled(w)
  BY <1>3, <1>8 DEF BackoffCancelled, Busy
<1>9. CASE BodyStep(w)
  <2>1. Streams(w) \/ PublishStep(w)
    BY <1>9, BodyCases
  <2>2. QED  BY <2>1 DEF Streams, PublishStep, poolVars
<1>10. CASE AttemptReturns(w)
  BY <1>4, <1>10 DEF AttemptReturns, InBody, Busy
<1>11. QED  BY <1>5, <1>6, <1>7, <1>8, <1>9, <1>10 DEF WorkerStep

\* Within a call a result is only ever replaced by the caller's cancellation.
LEMMA NextResults ==
  ASSUME Ownership, PoolTypes, Roles, Next, calls' = calls,
         NEW u \in Sources, result[u] # "unset"
  PROVE  result'[u] = result[u] \/ (result'[u] = "ctx" /\ main' = "returned")
<1>1. ASSUME NEW v \in Sources, ScanHit(v) PROVE result'[u] = result[u]
  <2>1. result[v] = "unset"
    BY <1>1, PoolAssumption DEF ScanHit, Scanning, Ownership, Awaited, PoolTypes, Sources
  <2>2. \E r : result' = [result EXCEPT ![v] = r]
    BY <1>1 DEF ScanHit
  <2>3. QED  BY <2>1, <2>2 DEF PoolTypes
<1>2. ASSUME NEW v \in Sources, ScanMiss(v) PROVE result'[u] = result[u]
  BY <1>2 DEF ScanMiss
<1>3. CASE Enter \/ StartWorkers \/ Cancel \/ Finished
  BY <1>3 DEF Enter, StartWorkers, Cancel, Finished, vars, poolVars
<1>4. CASE ScanOverflows
  BY <1>4 DEF ScanOverflows, NotFetched
<1>5. CASE AllCached
  BY <1>5 DEF AllCached, Return
<1>6. CASE Join
  BY <1>6 DEF Join, Return
<1>7. ASSUME NEW w \in Workers, WorkerStep(w) PROVE result'[u] = result[u]
  BY <1>7, WorkerKeepsResults
<1>8. CASE CallAgain
  <2>1. calls' = calls + 1 /\ calls \in Nat
    BY <1>8, PoolAssumption DEF CallAgain, PoolTypes
  <2>2. QED  BY <2>1
<1>9. QED  BY <1>1, <1>2, <1>3, <1>4, <1>5, <1>6, <1>7, <1>8 DEF Next, MainStep

\* A result is final when it is written, the caller's cancellation apart: no
\* worker, retry or late answer ever replaces what a source has been given.
THEOREM ResultsAreFinal == Spec => ResultsFinal
<1> DEFINE Final == calls' = calls =>
                      \A u \in Sources : result[u] # "unset" =>
                        result'[u] = result[u] \/ (result'[u] = "ctx" /\ main' = "returned")
<1>1. PoolInv /\ [Next]_vars => [Final]_vars
  BY NextResults DEF PoolInv
<1>2. QED  BY <1>1, PoolInvariance, PTL DEF Spec, ResultsFinal
===============================================================================
