------------------------------ MODULE ByteBudget ------------------------------
(***************************************************************************)
(* The byte budget of one manifest (type byteBudget, download.go:444-509), *)
(* the reader that charges it (budgetReader.Read, 511-546) and the part of *)
(* getOnce that streams a body into a temporary file and publishes it      *)
(* (410-441), run by NumWorkers goroutines at once.                        *)
(*                                                                         *)
(* A step is what one goroutine does between two points where another may  *)
(* interfere: a critical section under byteBudget.mu, one Read of the      *)
(* body with the settle that follows it, one Write to the temporary file,  *)
(* and the checks between the end of io.Copy and the rename.               *)
(***************************************************************************)
EXTENDS Integers, FiniteSets, Sums

CONSTANTS NumWorkers,      \* goroutines started by AllWithCache
          Limit,           \* MaxTotalBytes
          MaxSource,       \* MaxSourceBytes
          BufBytes,        \* len(p), the size of io.Copy's buffer
          MaxCachedBytes,  \* bytes of source files already in the cache
          DiskFaults       \* TRUE when writes, Close and Rename may fail

ASSUME BudgetAssumption ==
  /\ NumWorkers \in Nat
  /\ Limit \in Nat
  /\ MaxSource \in Nat \ {0}
  /\ BufBytes \in Nat \ {0}
  /\ MaxCachedBytes \in Nat
  /\ DiskFaults \in BOOLEAN

Workers == 1..NumWorkers

VARIABLES remaining,    \* byteBudget.remaining
          activeReads,  \* byteBudget.activeReads
          cached,       \* bytes charged for cached files
          started,      \* the cache scan is over and the workers run
          pc,           \* where each worker is
          want,         \* bytes its Read has reserved, 0 outside a Read
          got,          \* bytes settled for its current attempt
          written,      \* n of io.Copy: bytes written to its temporary file
          status,       \* how its body, then its attempt, ended
          published     \* bytes of the files it has renamed into place

vars == <<remaining, activeReads, cached, started, pc, want, got, written,
          status, published>>

\* "reserve" is both the entry of byteBudget.reserve and a waiter that a
\* Broadcast has woken: each must take the lock and test the balance again.
Locations == {"idle", "reserve", "asleep", "read", "write", "probe",
              "finish", "refund"}

\* "more" and "eof" are about the body, the others the error getOnce returns:
\* "transient" errors are the ones `retryable' accepts.
Statuses == {"more", "eof", "ok", "tooLarge", "transient", "failed"}

SumOf(f) == SumTo(NumWorkers, f)

Zero == [w \in Workers |-> 0]

Init == /\ remaining = Limit
        /\ activeReads = 0
        /\ cached = 0
        /\ started = FALSE
        /\ pc = [w \in Workers |-> "idle"]
        /\ want = Zero /\ got = Zero /\ written = Zero /\ published = Zero
        /\ status = [w \in Workers |-> "ok"]

\* newByteBudget for another manifest: nothing of the last one is left.
NewBudget == /\ remaining' = Limit
             /\ activeReads' = 0
             /\ cached' = 0
             /\ started' = FALSE
             /\ pc' = [w \in Workers |-> "idle"]
             /\ want' = Zero /\ got' = Zero /\ written' = Zero /\ published' = Zero
             /\ status' = [w \in Workers |-> "ok"]

-------------------------------------------------------------------------------
(* Before the workers                                                      *)

\* Faulty variant: cached files are not charged.
ChargeNothing(n) ==
  /\ ~started
  /\ UNCHANGED <<remaining, activeReads, cached, started, pc, want, got, written, status, published>>

\* chargeCached may drive the balance below zero; it wakes nobody, since no
\* worker runs yet.
ChargeCached(n) ==
  /\ ~started
  /\ remaining' = remaining - n
  /\ cached' = cached + n
  /\ UNCHANGED <<activeReads, started, pc, want, got, written, status, published>>

\* AllWithCache starts the goroutines only when no cached file overflowed.
StartWorkers ==
  /\ ~started /\ remaining >= 0
  /\ started' = TRUE
  /\ UNCHANGED <<remaining, activeReads, cached, pc, want, got, written, status, published>>

-------------------------------------------------------------------------------
(* One attempt of one worker                                               *)

\* Faulty variant: the Broadcast is forgotten.
NobodyWoken(locs) == locs

\* cond.Broadcast: every waiter goes back to the top of reserve's loop.
Woken(locs) == [v \in Workers |-> IF locs[v] = "asleep" THEN "reserve" ELSE locs[v]]

\* The temporary file exists and io.Copy calls Read for the first time.
Begin(w) ==
  /\ started /\ pc[w] = "idle"
  /\ pc' = [pc EXCEPT ![w] = "reserve"]
  /\ status' = [status EXCEPT ![w] = "more"]
  /\ UNCHANGED <<remaining, activeReads, cached, started, want, got, written, published>>

\* Faulty variant: the whole buffer is reserved, whatever is left.
FirstOf(a, b) == a

LesserOf(a, b) == IF a < b THEN a ELSE b

ReserveBytes(w) ==
  /\ pc[w] = "reserve" /\ remaining > 0
  /\ want' = [want EXCEPT ![w] = LesserOf(BufBytes, remaining)]
  /\ remaining' = remaining - want'[w]
  /\ activeReads' = activeReads + 1
  /\ pc' = [pc EXCEPT ![w] = "read"]
  /\ UNCHANGED <<cached, started, got, written, status, published>>

\* Faulty variant: it waits even if no Read can settle.
ReserveWaitsAlways(w) ==
  /\ pc[w] = "reserve" /\ remaining <= 0
  /\ pc' = [pc EXCEPT ![w] = "asleep"]
  /\ UNCHANGED <<remaining, activeReads, cached, started, want, got, written, status, published>>

ReserveWaits(w) ==
  /\ pc[w] = "reserve" /\ remaining <= 0 /\ activeReads # 0
  /\ pc' = [pc EXCEPT ![w] = "asleep"]
  /\ UNCHANGED <<remaining, activeReads, cached, started, want, got, written, status, published>>

ReserveRefused(w) ==
  /\ pc[w] = "reserve" /\ remaining <= 0 /\ activeReads = 0
  /\ pc' = [pc EXCEPT ![w] = "probe"]
  /\ UNCHANGED <<remaining, activeReads, cached, started, want, got, written, status, published>>

\* Faulty variant: an error of the body passes for its end.
ErrorEndsCopy(e) == IF e = "more" THEN "reserve" ELSE "finish"

\* Where io.Copy goes when the body is in state e and nothing is left to write.
AfterCopy(e) == CASE e = "more" -> "reserve"
                  [] e = "eof"  -> "finish"
                  [] OTHER      -> "refund"

\* The underlying Read returns n bytes with the end-of-body state e, and
\* settle gives back the unused part of the reservation. The LimitReader
\* yields one byte more than a source may have and then io.EOF.
ReadReturns(w, n, e) ==
  /\ pc[w] = "read"
  /\ n <= want[w] /\ got[w] + n <= MaxSource + 1
  /\ got[w] = MaxSource + 1 => e = "eof"
  /\ remaining' = remaining + (want[w] - n)
  /\ activeReads' = activeReads - 1
  /\ want' = [want EXCEPT ![w] = 0]
  /\ got' = [got EXCEPT ![w] = @ + n]
  /\ status' = [status EXCEPT ![w] = e]
  /\ pc' = [Woken(pc) EXCEPT ![w] = IF n > 0 THEN "write" ELSE AfterCopy(e)]
  /\ UNCHANGED <<cached, started, written, published>>

\* io.Copy writes the chunk: n bytes of it are taken, all of them unless the
\* file system fails. It then counts the bytes written, not the bytes its
\* reader delivered.
WriteChunk(w, n) ==
  /\ pc[w] = "write" /\ written[w] + n <= got[w]
  /\ DiskFaults \/ written[w] + n = got[w]
  /\ written' = [written EXCEPT ![w] = @ + n]
  /\ LET whole == written[w] + n = got[w] IN
       /\ status' = [status EXCEPT ![w] = IF whole THEN @ ELSE "failed"]
       /\ pc' = [pc EXCEPT ![w] = IF whole THEN AfterCopy(status[w]) ELSE "refund"]
  /\ UNCHANGED <<remaining, activeReads, cached, started, want, got, published>>

\* With no balance left the reader probes for one byte: data means over
\* budget, EOF that the source just fitted. A reader that made no progress
\* 100 times fails as "stalled", which `retryable' does not accept.
Probe(w, e) ==
  /\ pc[w] = "probe"
  /\ got[w] = MaxSource + 1 => e = "eof"
  /\ status' = [status EXCEPT ![w] = e]
  /\ pc' = [pc EXCEPT ![w] = AfterCopy(e)]
  /\ UNCHANGED <<remaining, activeReads, cached, started, want, got, written, published>>

ProbeOutcomes == {"tooLarge", "eof", "transient", "failed"}

\* Checks between io.Copy and the rename.
RejectOversize(w) ==
  /\ pc[w] = "finish" /\ written[w] > MaxSource
  /\ status' = [status EXCEPT ![w] = "tooLarge"]
  /\ pc' = [pc EXCEPT ![w] = "refund"]
  /\ UNCHANGED <<remaining, activeReads, cached, started, want, got, written, published>>

RejectEmpty(w) ==
  /\ pc[w] = "finish" /\ written[w] = 0
  /\ status' = [status EXCEPT ![w] = "failed"]
  /\ pc' = [pc EXCEPT ![w] = "idle"]
  /\ UNCHANGED <<remaining, activeReads, cached, started, want, got, written, published>>

\* Close or Rename failed, or the body is an HTML page.
RejectFile(w) ==
  /\ pc[w] = "finish" /\ written[w] \in 1..MaxSource
  /\ status' = [status EXCEPT ![w] = "failed"]
  /\ pc' = [pc EXCEPT ![w] = "refund"]
  /\ UNCHANGED <<remaining, activeReads, cached, started, want, got, written, published>>

PublishFile(w) ==
  /\ pc[w] = "finish" /\ written[w] \in 1..MaxSource
  /\ published' = [published EXCEPT ![w] = @ + got[w]]
  /\ got' = [got EXCEPT ![w] = 0]
  /\ written' = [written EXCEPT ![w] = 0]
  /\ status' = [status EXCEPT ![w] = "ok"]
  /\ pc' = [pc EXCEPT ![w] = "idle"]
  /\ UNCHANGED <<remaining, activeReads, cached, started, want>>

\* Faulty variant: nothing is given back.
RefundForgotten(w) ==
  /\ pc[w] = "refund"
  /\ got' = [got EXCEPT ![w] = 0]
  /\ written' = [written EXCEPT ![w] = 0]
  /\ pc' = [Woken(pc) EXCEPT ![w] = "idle"]
  /\ UNCHANGED <<remaining, activeReads, cached, started, want, status, published>>

\* Faulty variant: the bytes are given back by the check and again on return.
RefundTwice(w) ==
  /\ pc[w] = "refund"
  /\ remaining' = remaining + 2 * written[w]
  /\ got' = [got EXCEPT ![w] = 0]
  /\ written' = [written EXCEPT ![w] = 0]
  /\ pc' = [Woken(pc) EXCEPT ![w] = "idle"]
  /\ UNCHANGED <<activeReads, cached, started, want, status, published>>

\* getOnce's refund closure gives back n, the bytes written, and returns.
Refund(w) ==
  /\ pc[w] = "refund"
  /\ remaining' = remaining + written[w]
  /\ got' = [got EXCEPT ![w] = 0]
  /\ written' = [written EXCEPT ![w] = 0]
  /\ pc' = [Woken(pc) EXCEPT ![w] = "idle"]
  /\ UNCHANGED <<activeReads, cached, started, want, status, published>>

-------------------------------------------------------------------------------
Reserve(w) == ReserveBytes(w) \/ ReserveWaits(w) \/ ReserveRefused(w)

BodyStates == {"more", "eof", "transient", "failed"}

Read(w) == \E n \in 0..BufBytes, e \in BodyStates : ReadReturns(w, n, e)

Write(w) == \E n \in 0..BufBytes : WriteChunk(w, n)

Probing(w) == \E e \in ProbeOutcomes : Probe(w, e)

Finish(w) == RejectOversize(w) \/ RejectEmpty(w) \/ RejectFile(w) \/ PublishFile(w)

WorkerStep(w) == \/ Begin(w)  \/ Reserve(w) \/ Read(w) \/ Write(w)
                 \/ Probing(w) \/ Finish(w) \/ Refund(w)

Scan == \/ \E n \in 1..MaxSource : cached + n <= MaxCachedBytes /\ ChargeCached(n)
        \/ StartWorkers

\* Cached files alone exceed the limit: AllWithCache returns without workers.
CacheOverflow == ~started /\ remaining < 0 /\ UNCHANGED vars

Next == Scan \/ CacheOverflow \/ \E w \in Workers : WorkerStep(w)

Spec == Init /\ [][Next]_vars

-------------------------------------------------------------------------------
(* Properties                                                              *)

\* Every variable has its type; the balance is never negative once workers run.
TypeOK == /\ remaining \in Int /\ (started => remaining \in Nat)
          /\ activeReads \in Nat
          /\ cached \in Nat
          /\ started \in BOOLEAN
          /\ pc \in [Workers -> Locations]
          /\ want \in [Workers -> 0..BufBytes]
          /\ got \in [Workers -> 0..MaxSource + 1]
          /\ written \in [Workers -> 0..MaxSource + 1]
          /\ status \in [Workers -> Statuses]
          /\ published \in [Workers -> Nat]

\* Cached and published files of one manifest never exceed MaxTotalBytes,
\* whatever the interleaving of reservations, settlements and refunds
\* (download.go:444-447), even when refunds lose bytes to a failing disk.
WithinLimit == started => cached + SumOf(published) <= Limit

\* A waiter in reserve always has a Read in progress to wake it: no settle or
\* refund ever leaves a goroutine asleep next to a balance it could use
\* (download.go:479-481).
NoLostWakeup ==
  \A w \in Workers : pc[w] = "asleep" =>
     remaining <= 0 /\ \E v \in Workers : pc[v] = "read"

\* activeReads counts exactly the Reads between reserve and settle, so the
\* choice between waiting and refusing is taken on the truth (482-509).
ReadersCounted == activeReads = Cardinality({w \in Workers : pc[w] = "read"})

\* The bytes that are left, reserved, held by attempts, published or cached.
Total == remaining + SumOf(want) + SumOf(got) + SumOf(published) + cached

\* Every byte of the limit is left, reserved, held by an attempt in progress,
\* published or cached: a failed or rejected attempt consumes nothing
\* (download.go:412-414).
BooksBalance == Total = Limit

\* A reservation lives only inside a Read; a temporary file never holds more
\* than was received, and all of it unless a chunk is still to be written or
\* its Write failed.
Bookkeeping ==
  \A w \in Workers :
    /\ pc[w] # "read" => want[w] = 0
    /\ written[w] <= got[w]
    /\ pc[w] \notin {"write", "refund"} => written[w] = got[w]
    /\ ~DiskFaults /\ pc[w] = "refund" => written[w] = got[w]

NotBeforeStart ==
  ~started => \A w \in Workers : pc[w] = "idle" /\ got[w] = 0 /\ published[w] = 0

\* The inductive invariant behind the properties of this module.
Inv == /\ TypeOK
       /\ Bookkeeping
       /\ NotBeforeStart
       /\ Total <= Limit
       /\ ReadersCounted
       /\ NoLostWakeup

\* The budget implements the ledger: what an outsider sees is bytes taken one
\* Read at a time and given back all at once.
Ledger == INSTANCE BudgetLedger WITH available <- remaining + SumOf(want),
                                     held <- got, spent <- published

ImplementsLedger == Ledger!Spec
===============================================================================
