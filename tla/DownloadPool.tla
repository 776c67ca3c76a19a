----------------------------- MODULE DownloadPool -----------------------------
(***************************************************************************)
(* One call of AllWithCache (download.go:150-307): the cache scan, the     *)
(* worker goroutines, the retry loop of get (331-376) and getOnce          *)
(* (378-442), with the caller's context, the files at the destination and  *)
(* the process itself as what may go wrong. The streaming of a body is     *)
(* the module ByteBudget; its actions are conjoined here with what the     *)
(* pool knows of the job.                                                  *)
(*                                                                         *)
(* The server is the environment: every attempt may fail at any point, may *)
(* be answered by an HTML page of the same length, or may deliver the      *)
(* Size[u] bytes of the source in any pieces.                              *)
(***************************************************************************)
EXTENDS Integers, Sequences, FiniteSets, Sums

CONSTANTS NumWorkers, Limit, MaxSource, BufBytes, DiskFaults,
          NumSources,      \* len(urls)
          Size,            \* Size[u]: bytes of the body of source u
          CacheConfigured, \* cacheDir # ""
          OpenFaults,      \* TRUE when htmlError may fail to open its file
          Retries,         \* the retries argument, after its lower bound 0
          Deadline,        \* time.Until(deadline), 0 when there is none
          Timeout,         \* time one attempt may take
          MaxCalls         \* calls of AllWithCache, crashes included (a bound)

Sources == 1..NumSources

ASSUME PoolAssumption ==
  /\ NumWorkers \in Nat \ {0} /\ NumSources \in Nat \ {0}
  /\ Limit \in Nat /\ MaxSource \in Nat \ {0} /\ BufBytes \in Nat \ {0}
  /\ DiskFaults \in BOOLEAN
  /\ Size \in [Sources -> Nat]
  /\ CacheConfigured \in BOOLEAN /\ OpenFaults \in BOOLEAN
  /\ Retries \in Nat /\ Deadline \in Nat /\ Timeout \in Nat \ {0}
  /\ MaxCalls \in Nat \ {0}

VARIABLES remaining, activeReads, cached, started, pc, want, got, written,
          status, published  \* the budget, see ByteBudget

VARIABLES main,     \* where the caller's goroutine is
          scanned,  \* how many URLs the cache scan has looked up
          queue,    \* the jobs channel; during the scan, the slice `missing'
          phase,    \* where each worker is outside the streaming of a body
          job,      \* the source a worker works on, 0 for none
          attempt,  \* requests issued for that source
          page,     \* what the server answers the current attempt with
          temp,     \* the worker's temporary file exists
          file,     \* file[u]: what the final name of source u holds
          result,   \* result[u]: results[i] of the source
          ret,      \* what AllWithCache returned
          ctxDone,  \* the caller's context is cancelled or past its deadline
          calls     \* calls made so far

Budget == INSTANCE ByteBudget WITH MaxCachedBytes <- NumSources * MaxSource

Workers == Budget!Workers

budgetVars == <<remaining, activeReads, cached, started, pc, want, got, written,
                status, published>>
poolVars == <<main, scanned, queue, phase, job, attempt, page, temp, file,
              result, ret, ctxDone, calls>>
vars == <<budgetVars, poolVars>>

callVars == <<main, scanned, ret, ctxDone, calls>>
jobVars == <<queue, phase, job, attempt>>
diskVars == <<page, temp, file>>

Phases == {"fetch", "request", "body", "backoff", "exited"}
Results == {"unset", "ok", "cached", "tooLarge", "failed", "ctx", "skipped"}
Files == {"none", "junk", "good", "html", "partial"}

\* A regular file of allowed size that is no HTML page: what cachedFile accepts.
\* "junk" is anything else that may lie at the name of a cache entry.
CouldBeCached(u) == Size[u] \in 1..MaxSource

Nobody(value) == [w \in Workers |-> value]

Init == /\ Budget!Init
        /\ main = "entry" /\ scanned = 0 /\ queue = <<>> /\ ret = "none"
        /\ phase = Nobody("exited") /\ job = Nobody(0) /\ attempt = Nobody(0)
        /\ page = Nobody("list") /\ temp = Nobody(FALSE)
        /\ result = [u \in Sources |-> "unset"]
        /\ file \in [Sources -> {"none", "junk", "good"}]
        /\ \A u \in Sources : file[u] = "good" => CouldBeCached(u)
        /\ ctxDone \in BOOLEAN
        /\ calls = 1

-------------------------------------------------------------------------------
(* The caller: entry, cache scan, start of the workers                     *)

Return(r) == main' = "returned" /\ ret' = r

Enter ==
  /\ main = "entry"
  /\ \/ ctxDone /\ Return("ctx")
     \/ ~ctxDone /\ DiskFaults /\ Return("noDirectory")
     \/ ~ctxDone /\ main' = "scan" /\ UNCHANGED ret
  /\ UNCHANGED <<budgetVars, scanned, jobVars, diskVars, result, ctxDone, calls>>

Scanning(u) == main = "scan" /\ u = scanned + 1 /\ u \in Sources

\* Faulty variant: a cached source is handed to the workers as well.
ScanHitGoesOn(u) ==
  /\ Scanning(u) /\ CacheConfigured /\ file[u] = "good"
  /\ Budget!ChargeCached(Size[u])
  /\ result' = [result EXCEPT ![u] = IF remaining' < 0 THEN "tooLarge" ELSE "cached"]
  /\ queue' = Append(queue, u)
  /\ scanned' = u
  /\ UNCHANGED <<main, phase, job, attempt, diskVars, ret, ctxDone, calls>>

\* A cached file is charged even when it, or an earlier one, breaks the limit.
ScanHit(u) ==
  /\ Scanning(u) /\ CacheConfigured /\ file[u] = "good"
  /\ Budget!ChargeCached(Size[u])
  /\ result' = [result EXCEPT ![u] = IF remaining' < 0 THEN "tooLarge" ELSE "cached"]
  /\ scanned' = u
  /\ UNCHANGED <<main, jobVars, diskVars, ret, ctxDone, calls>>

\* cachedFile removes what it does not accept.
ScanMiss(u) ==
  /\ Scanning(u) /\ ~(CacheConfigured /\ file[u] = "good")
  /\ file' = IF CacheConfigured THEN [file EXCEPT ![u] = "none"] ELSE file
  /\ queue' = Append(queue, u)
  /\ scanned' = u
  /\ UNCHANGED <<budgetVars, main, phase, job, attempt, page, temp, result, ret, ctxDone, calls>>

ScanOver == main = "scan" /\ scanned = NumSources

\* Faulty variant: every source is taken for one.
AnySource(u) == TRUE

NotFetched(u) == result[u] = "unset"

\* Cached sources alone exceed the limit: nothing is fetched.
ScanOverflows ==
  /\ ScanOver /\ \E u \in Sources : result[u] = "tooLarge"
  /\ result' = [u \in Sources |-> IF NotFetched(u) THEN "skipped" ELSE result[u]]
  /\ Return("overflow")
  /\ UNCHANGED <<budgetVars, scanned, jobVars, diskVars, ctxDone, calls>>

\* An all-cached call checks the context again before it succeeds.
AllCached ==
  /\ ScanOver /\ queue = <<>> /\ \A u \in Sources : result[u] = "cached"
  /\ IF ctxDone
     THEN result' = [u \in Sources |-> "ctx"] /\ Return("ctx")
     ELSE Return("ok") /\ UNCHANGED result
  /\ UNCHANGED <<budgetVars, scanned, jobVars, diskVars, ctxDone, calls>>

\* Never more workers than jobs; the others do not exist.
StartWorkers ==
  /\ ScanOver /\ queue # <<>> /\ \A u \in Sources : result[u] # "tooLarge"
  /\ Budget!StartWorkers
  /\ main' = "workers"
  /\ phase' = [w \in Workers |-> IF w <= Len(queue) THEN "fetch" ELSE "exited"]
  /\ UNCHANGED <<scanned, queue, job, attempt, diskVars, result, ret, ctxDone, calls>>

-------------------------------------------------------------------------------
(* A worker: the jobs loop and the retry loop of get                       *)

\* A job taken after cancellation fails without a request.
TakeJob(w) ==
  /\ phase[w] = "fetch" /\ queue # <<>>
  /\ queue' = Tail(queue)
  /\ IF ctxDone
     THEN /\ result' = [result EXCEPT ![Head(queue)] = "ctx"]
          /\ UNCHANGED <<phase, job, attempt>>
     ELSE /\ job' = [job EXCEPT ![w] = Head(queue)]
          /\ phase' = [phase EXCEPT ![w] = "request"]
          /\ attempt' = [attempt EXCEPT ![w] = 1]
          /\ UNCHANGED result
  /\ UNCHANGED <<budgetVars, callVars, diskVars>>

WorkerExits(w) ==
  /\ phase[w] = "fetch" /\ queue = <<>>
  /\ phase' = [phase EXCEPT ![w] = "exited"]
  /\ UNCHANGED <<budgetVars, callVars, queue, job, attempt, diskVars, result>>

GreaterOf(a, b) == IF a > b THEN a ELSE b

\* Faulty variant: the deadline is ignored.
RetriesUncapped == Retries

\* The retries that fit the caller's deadline, at least one attempt.
EffectiveRetries ==
  IF Deadline = 0 THEN Retries
  ELSE Budget!LesserOf(Retries, GreaterOf(Deadline \div Timeout, 1) - 1)

Settle(w, r) ==
  /\ result' = [result EXCEPT ![job[w]] = r]
  /\ job' = [job EXCEPT ![w] = 0]
  /\ attempt' = [attempt EXCEPT ![w] = 0]
  /\ phase' = [phase EXCEPT ![w] = "fetch"]

\* What get does with the outcome e of an attempt: a success stands even if
\* the context is done; cancellation outranks every error; only a transient
\* error is retried, while attempts are left.
EndAttempt(w, e) ==
  \/ e = "ok" /\ Settle(w, "ok")
  \/ e # "ok" /\ ctxDone /\ Settle(w, "ctx")
  \/ /\ e = "transient" /\ ~ctxDone /\ attempt[w] <= EffectiveRetries
     /\ phase' = [phase EXCEPT ![w] = "backoff"]
     /\ UNCHANGED <<job, attempt, result>>
  \/ e = "transient" /\ ~ctxDone /\ attempt[w] > EffectiveRetries /\ Settle(w, "failed")
  \/ e \in {"failed", "tooLarge"} /\ ~ctxDone /\ Settle(w, e)

\* No usable response: a transport error, a status other than 2xx, a declared
\* length above the limit of a source, or no temporary file.
RequestFails(w, e) ==
  /\ phase[w] = "request"
  /\ e = "tooLarge" => Size[job[w]] > MaxSource
  /\ EndAttempt(w, e)
  /\ UNCHANGED <<budgetVars, callVars, queue, diskVars>>

\* A 2xx response before cancellation; the temporary file is created.
RequestSucceeds(w, p) ==
  /\ phase[w] = "request" /\ ~ctxDone
  /\ Budget!Begin(w)
  /\ page' = [page EXCEPT ![w] = p]
  /\ temp' = [temp EXCEPT ![w] = TRUE]
  /\ phase' = [phase EXCEPT ![w] = "body"]
  /\ UNCHANGED <<callVars, queue, job, attempt, file, result>>

\* Faulty variant: attempts are not counted.
TimerRepeats(w) ==
  /\ phase[w] = "backoff"
  /\ phase' = [phase EXCEPT ![w] = "request"]
  /\ UNCHANGED <<budgetVars, callVars, queue, job, attempt, diskVars, result>>

TimerFires(w) ==
  /\ phase[w] = "backoff"
  /\ attempt' = [attempt EXCEPT ![w] = @ + 1]
  /\ phase' = [phase EXCEPT ![w] = "request"]
  /\ UNCHANGED <<budgetVars, callVars, queue, job, diskVars, result>>

BackoffCancelled(w) ==
  /\ phase[w] = "backoff" /\ ctxDone
  /\ Settle(w, "ctx")
  /\ UNCHANGED <<budgetVars, callVars, queue, diskVars>>

-------------------------------------------------------------------------------
(* A worker: the body of one attempt                                       *)

\* The LimitReader ends a body after MaxSource + 1 bytes.
BodyEnd(u) == Budget!LesserOf(Size[u], MaxSource + 1)

InBody(w) == phase[w] = "body"

ReserveStep(w) == /\ InBody(w) /\ Budget!Reserve(w)
                  /\ UNCHANGED poolVars

\* io.EOF comes at the end of the body, with its last bytes or after them.
ReadStep(w, n, e) == /\ InBody(w)
                     /\ Budget!ReadReturns(w, n, e)
                     /\ got[w] + n <= BodyEnd(job[w])
                     /\ e = "eof" => got[w] + n = BodyEnd(job[w])
                     /\ UNCHANGED poolVars

WriteStep(w) == /\ InBody(w) /\ Budget!Write(w)
                /\ UNCHANGED poolVars

ProbeStep(w, e) == /\ InBody(w)
                   /\ Budget!Probe(w, e)
                   /\ e = "tooLarge" => got[w] < BodyEnd(job[w])
                   /\ e = "eof" => got[w] = BodyEnd(job[w])
                   /\ UNCHANGED poolVars

\* htmlError finds the page, or Close or Rename fails.
RejectStep(w) == /\ InBody(w)
                 /\ \/ Budget!RejectOversize(w) \/ Budget!RejectEmpty(w)
                    \/ (page[w] = "html" \/ DiskFaults) /\ Budget!RejectFile(w)
                 /\ UNCHANGED poolVars

\* Faulty variant: the file is not sniffed.
EverythingPasses(w) == TRUE

\* htmlError lets a page pass when it cannot open the file.
NoHtmlError(w) == page[w] = "list" \/ OpenFaults

\* The rename.
PublishStep(w) ==
  /\ InBody(w)
  /\ NoHtmlError(w)
  /\ Budget!PublishFile(w)
  /\ file' = [file EXCEPT ![job[w]] =
                IF page[w] = "html" THEN "html"
                ELSE IF written[w] = Size[job[w]] THEN "good" ELSE "partial"]
  /\ temp' = [temp EXCEPT ![w] = FALSE]
  /\ UNCHANGED <<callVars, jobVars, page, result>>

RefundStep(w) == /\ InBody(w) /\ Budget!Refund(w)
                 /\ UNCHANGED poolVars

\* Faulty variant: the temporary file stays.
AttemptForgetsTemp(w) ==
  /\ InBody(w) /\ pc[w] = "idle"
  /\ EndAttempt(w, status[w])
  /\ UNCHANGED <<budgetVars, callVars, queue, diskVars>>

\* Faulty variant: the deferred removal takes the final name.
AttemptRemovesFinal(w) ==
  /\ InBody(w) /\ pc[w] = "idle"
  /\ temp' = [temp EXCEPT ![w] = FALSE]
  /\ file' = [file EXCEPT ![job[w]] = "none"]
  /\ EndAttempt(w, status[w])
  /\ UNCHANGED <<budgetVars, callVars, queue, page>>

\* getOnce returns: its deferred function removes the temporary file.
AttemptReturns(w) ==
  /\ InBody(w) /\ pc[w] = "idle"
  /\ temp' = [temp EXCEPT ![w] = FALSE]
  /\ EndAttempt(w, status[w])
  /\ UNCHANGED <<budgetVars, callVars, queue, page, file>>

-------------------------------------------------------------------------------
(* The end of the call, cancellation, restarts                             *)

\* Faulty variant: the context is not looked at again.
JoinForgetsContext ==
  /\ main = "workers" /\ \A w \in Workers : phase[w] = "exited"
  /\ Return(IF \A u \in Sources : result[u] \in {"ok", "cached"} THEN "ok" ELSE "errors")
  /\ UNCHANGED <<budgetVars, scanned, jobVars, diskVars, result, ctxDone, calls>>

\* wg.Wait returned: cancellation fails every source, cache hits included.
Join ==
  /\ main = "workers" /\ \A w \in Workers : phase[w] = "exited"
  /\ IF ctxDone
     THEN result' = [u \in Sources |-> "ctx"] /\ Return("ctx")
     ELSE /\ Return(IF \A u \in Sources : result[u] \in {"ok", "cached"} THEN "ok" ELSE "errors")
          /\ UNCHANGED result
  /\ UNCHANGED <<budgetVars, scanned, jobVars, diskVars, ctxDone, calls>>

Cancel ==
  /\ ~ctxDone /\ main # "returned"
  /\ ctxDone' = TRUE
  /\ UNCHANGED <<budgetVars, main, scanned, jobVars, diskVars, result, ret, calls>>

\* The next manifest of the build calls again with the same cache, or the
\* process was killed at any point and the build is run again.
CallAgain ==
  /\ calls < MaxCalls
  /\ calls' = calls + 1
  /\ ctxDone' = FALSE
  /\ Budget!NewBudget
  /\ main' = "entry" /\ scanned' = 0 /\ queue' = <<>> /\ ret' = "none"
  /\ phase' = Nobody("exited") /\ job' = Nobody(0) /\ attempt' = Nobody(0)
  /\ page' = Nobody("list") /\ temp' = Nobody(FALSE)
  /\ result' = [u \in Sources |-> "unset"]
  /\ UNCHANGED file

Finished == main = "returned" /\ calls = MaxCalls /\ UNCHANGED vars

RequestErrors == {"transient", "failed", "tooLarge"}
Pages == {"list", "html"}

BodyStep(w) ==
  \/ ReserveStep(w)
  \/ \E n \in 0..BufBytes, e \in Budget!BodyStates : ReadStep(w, n, e)
  \/ WriteStep(w)
  \/ \E e \in Budget!ProbeOutcomes : ProbeStep(w, e)
  \/ RejectStep(w) \/ PublishStep(w) \/ RefundStep(w)

WorkerStep(w) ==
  \/ TakeJob(w) \/ WorkerExits(w)
  \/ \E e \in RequestErrors : RequestFails(w, e)
  \/ \E p \in Pages : RequestSucceeds(w, p)
  \/ TimerFires(w) \/ BackoffCancelled(w)
  \/ BodyStep(w) \/ AttemptReturns(w)

MainStep ==
  \/ Enter \/ \E u \in Sources : ScanHit(u) \/ ScanMiss(u)
  \/ ScanOverflows \/ AllCached \/ StartWorkers \/ Join

Next == MainStep \/ (\E w \in Workers : WorkerStep(w)) \/ Cancel \/ CallAgain \/ Finished

Spec == Init /\ [][Next]_vars

\* The goroutines are scheduled, requests and Reads return, and the client's
\* Timeout (download.go:44-47) ends a body that keeps delivering nothing.
ReadEnds(w) == \E n \in 0..BufBytes, e \in Budget!BodyStates \ {"more"} : ReadStep(w, n, e)

Fairness == /\ WF_vars(MainStep)
            /\ \A w \in Workers : WF_vars(WorkerStep(w)) /\ SF_vars(ReadEnds(w))

FairSpec == Spec /\ Fairness

-------------------------------------------------------------------------------
(* Properties                                                              *)

\* Every variable has its type.
TypeOK ==
  /\ Budget!TypeOK
  /\ main \in {"entry", "scan", "workers", "returned"}
  /\ scanned \in 0..NumSources
  /\ queue \in Seq(Sources) /\ Len(queue) <= NumSources
  /\ phase \in [Workers -> Phases]
  /\ job \in [Workers -> 0..NumSources]
  /\ attempt \in [Workers -> 0..EffectiveRetries + 1]
  /\ page \in [Workers -> Pages]
  /\ temp \in [Workers -> BOOLEAN]
  /\ file \in [Sources -> Files]
  /\ result \in [Sources -> Results]
  /\ ret \in {"none", "ok", "ctx", "noDirectory", "overflow", "errors"}
  /\ ctxDone \in BOOLEAN
  /\ calls \in 1..MaxCalls

\* What the proofs about the budget rest on holds inside the pool as well.
BudgetInv == Budget!Inv

Returned == main = "returned"
Successes == {u \in Sources : result[u] \in {"ok", "cached"}}

\* A source reported without an error has its whole body at its final name,
\* even when other attempts, crashes or disk faults came before
\* (download.go:226-229, 275-278: callers count such results as downloads).
SuccessHasFile == \A u \in Successes : file[u] = "good"

\* Nothing but complete list bodies ever lies at a final name once the scan
\* has passed it: no partial download, no HTML page (download.go:431-432).
CacheClean ==
  \A u \in Sources : /\ file[u] \notin {"html", "partial"}
                     /\ CacheConfigured /\ scanned >= u => file[u] # "junk"

\* A good file is never lost again, whatever attempts fail, whoever cancels
\* and wherever the process is killed: later manifests rely on it (146-149).
GoodFilesStay == [][\A u \in Sources : file[u] = "good" => file'[u] = "good"]_vars

\* Cancellation fails the whole manifest and nothing else reports it: results
\* are all cancelled exactly when the call returns the context's error
\* (238-251, 287-295).
CancelIsTotal ==
  Returned /\ scanned > 0 =>
    /\ ret = "ctx" => \A u \in Sources : result[u] = "ctx"
    /\ ret # "ctx" => \A u \in Sources : result[u] \notin {"ctx", "unset"}
    /\ ret = "ok" <=> Successes = Sources

\* Each source that awaits its result is in exactly one place, the queue or
\* one worker, so no two goroutines write the same slot of results or rename
\* over each other (260-282).
OneOwner ==
  main = "workers" =>
    \A u \in Sources :
      Cardinality({i \in DOMAIN queue : queue[i] = u})
        + Cardinality({w \in Workers : job[w] = u})
      = IF result[u] = "unset" THEN 1 ELSE 0

\* Types, and every source has one owner.
Inv == TypeOK /\ OneOwner

\* Every result but a cancellation by the caller is final when it is written.
ResultsFinal ==
  [][calls' = calls =>
       \A u \in Sources : result[u] # "unset" =>
          result'[u] = result[u] \/ (result'[u] = "ctx" /\ main' = "returned")]_vars

BytesOf(S) == SumTo(NumSources, [u \in Sources |-> IF u \in S THEN Size[u] ELSE 0])

\* What the call reports as delivered never exceeds MaxTotalBytes, cache hits
\* and downloads of all workers together (206-224, 444-447).
DeliveredWithinLimit == BytesOf(Successes) <= Limit

\* When the call returns, every temporary file is gone (406-409).
NoTempsLeft == Returned => \A w \in Workers : ~temp[w]

\* A retry is only made when all attempts of the source, at their full
\* timeout, fit the caller's deadline (186-197).
AttemptsFitDeadline ==
  \A w \in Workers : Deadline # 0 /\ attempt[w] > 1 => attempt[w] * Timeout <= Deadline

\* A source is reported too large only if it is, or if it really does not fit
\* beside what the manifest delivers (444-447, 412-414).
TooLargeIsDefinitive ==
  Returned /\ ret = "errors" =>
    \A u \in Sources : result[u] = "tooLarge" =>
       Size[u] > MaxSource \/ BytesOf(Successes) + Size[u] > Limit

\* A call that is not killed returns: no worker waits for ever in reserve, on a
\* server or for another worker.
Terminates == []<>Returned

\* Once the context is done the call returns and reports it, unless it had
\* finished its last check, or it is killed: the next has a context of its own.
CancelIsHonoured == main = "workers" /\ ctxDone ~> (Returned /\ ret = "ctx") \/ ~ctxDone
===============================================================================
