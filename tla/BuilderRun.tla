------------------------------ MODULE BuilderRun ------------------------------
(***************************************************************************)
(* Successive runs of legacy-filter-builder (run in                        *)
(* cmd/legacy-filter-builder/main.go:36-220) over one build directory. A   *)
(* run fails at any of its early returns, or is killed between two of its  *)
(* effects on the disk, and the next one starts from what it left: output, *)
(* summary, rejection reports, raw snapshots, sort scratch. The user may   *)
(* edit the custom rules at any time.                                      *)
(*                                                                         *)
(* AllWithCache and the sorter appear by what they promise: the first      *)
(* leaves whole snapshots (DownloadPool!SuccessHasFile), the second puts   *)
(* a whole list in place or nothing (ExternalSorter!ImplementsRuleSet).       *)
(***************************************************************************)
EXTENDS Integers, FiniteSets

CONSTANTS NumSources,        \* URLs of the manifest
          CustomConfigured,  \* --custom
          DiskFaults,        \* TRUE when removing and writing files may fail
          MaxRuns            \* runs of the builder (a bound)

Sources == 1..NumSources
Custom == NumSources + 1     \* the custom rules, read after the sources
Inputs == 1..Custom

ASSUME BuilderAssumption ==
  /\ NumSources \in Nat \ {0}
  /\ {CustomConfigured, DiskFaults} \subseteq BOOLEAN
  /\ MaxRuns \in Nat

VARIABLES run,       \* number of the current or last run
          pc,        \* where it is
          ret,       \* what the last run that returned returned
          options,   \* its options: whether --cache-dir and --allow-partial are set
          custom,    \* the custom rules file: "missing", "empty" or "rules"
          seen,      \* customInfo: it held rules when the run looked at it
          steady,    \* it has held rules since the run began (history)
          raw,       \* raw[u]: the run that put the file of u in buildDir/raw, or 0
          cache,     \* cache[u]: the same for the shared cache directory
          ok,        \* results without an error
          taken,     \* inputs the sorter has received
          output,    \* the list: its run and inputs
          summary,   \* the summary file
          report,    \* report[i]: the rejection report of input i
          scratch    \* runs that have files in buildDir/sort

vars == <<run, pc, ret, options, custom, seen, steady, raw, cache, ok, taken,
          output, summary, report, scratch>>

snapshots == <<raw, cache>>
customVars == <<custom, seen, steady>>
builtVars == <<output, summary, report>>

NoSummary == [run |-> 0, whole |-> FALSE, succeeded |-> 0]

Init == /\ run = 0 /\ pc = "returned" /\ ret = "none"
        /\ custom \in {"missing", "empty", "rules"}
        /\ seen = FALSE /\ steady = FALSE
        /\ options = [cache |-> FALSE, partial |-> FALSE]
        /\ raw = [u \in Sources |-> 0] /\ cache = [u \in Sources |-> 0]
        /\ ok = {} /\ taken = {}
        /\ output = [run |-> 0, from |-> {}]
        /\ summary = NoSummary
        /\ report = [i \in Inputs |-> [run |-> 0, whole |-> FALSE]]
        /\ scratch = {}

Return(r) == pc' = "returned" /\ ret' = r

-------------------------------------------------------------------------------
(* Up to the downloads                                                     *)

\* The command is run, for the first time or again, with any options.
RunStarts ==
  /\ pc \in {"returned", "killed"} /\ run < MaxRuns
  /\ run' = run + 1
  /\ pc' = "preflight"
  /\ options' \in [cache : BOOLEAN, partial : BOOLEAN]
  /\ steady' = (custom = "rules")
  /\ seen' = FALSE /\ ok' = {} /\ taken' = {}
  /\ UNCHANGED <<ret, custom, snapshots, builtVars, scratch>>

\* Bad arguments, manifest, custom path or aliased paths: nothing is touched.
PreflightFails ==
  /\ pc = "preflight"
  /\ Return("failed")
  /\ UNCHANGED <<run, options, customVars, snapshots, ok, taken, builtVars, scratch>>

\* customInfo keeps the size the custom file has now.
PreflightPasses ==
  /\ pc = "preflight"
  /\ CustomConfigured => custom # "missing"
  /\ seen' = (CustomConfigured /\ custom = "rules")
  /\ pc' = "clear"
  /\ UNCHANGED <<run, options, ret, custom, steady, snapshots, ok, taken, builtVars, scratch>>

clearStaleSummary ==
  /\ pc = "clear"
  /\ summary' = NoSummary
  /\ pc' = "prepare"
  /\ UNCHANGED <<run, options, ret, customVars, snapshots, ok, taken, output, report, scratch>>

ClearFails ==
  /\ pc = "clear" /\ DiskFaults
  /\ Return("failed")
  /\ UNCHANGED <<run, options, customVars, snapshots, ok, taken, builtVars, scratch>>

\* Faulty variant: buildDir/raw stays.
RawStays ==
  /\ pc = "prepare"
  /\ pc' = "download"
  /\ UNCHANGED <<run, options, ret, customVars, snapshots, ok, taken, builtVars, scratch>>

\* Without a cache, buildDir/raw is removed; a failure may leave part of it.
Prepare ==
  /\ pc = "prepare"
  /\ IF options.cache THEN UNCHANGED raw ELSE raw' = [u \in Sources |-> 0]
  /\ pc' = "download"
  /\ UNCHANGED <<run, options, ret, customVars, cache, ok, taken, builtVars, scratch>>

PrepareFails ==
  /\ pc = "prepare" /\ DiskFaults
  /\ \E S \in SUBSET Sources :
        /\ options.cache => S = {}
        /\ raw' = [u \in Sources |-> IF u \in S THEN 0 ELSE raw[u]]
  /\ Return("failed")
  /\ UNCHANGED <<run, options, customVars, cache, ok, taken, builtVars, scratch>>

\* AllWithCache fetches F and succeeds for S, cache hits included. A source
\* may be fetched and then fail with the others on cancellation.
Fetches(F, S) ==
  /\ pc = "download"
  /\ LET hits == {u \in Sources : options.cache /\ cache[u] # 0}
         Fetched(dir) == [u \in Sources |-> IF u \in F THEN run ELSE dir[u]]
     IN  /\ F \cap hits = {} /\ S \subseteq F \cup hits
         /\ IF options.cache THEN cache' = Fetched(cache) /\ UNCHANGED raw
                             ELSE raw' = Fetched(raw) /\ UNCHANGED cache
  /\ ok' = S

\* All sources, or with --allow-partial at least one.
Downloaded(F, S) ==
  /\ Fetches(F, S)
  /\ S = Sources \/ (options.partial /\ S # {})
  /\ pc' = "scratch"
  /\ UNCHANGED <<run, options, ret, customVars, taken, builtVars, scratch>>

\* A source failed: always fatal when the context is done.
DownloadFails(F, S) ==
  /\ Fetches(F, S) /\ S # Sources
  /\ Return("failed")
  /\ UNCHANGED <<run, options, customVars, taken, builtVars, scratch>>

-------------------------------------------------------------------------------
(* From the scratch directory to the summary                               *)

\* RemoveAll(sortDir), the deferred removal, NewExternalSorter.
ScratchOpens ==
  /\ pc = "scratch"
  /\ scratch' = {run}
  /\ pc' = "read"
  /\ UNCHANGED <<run, options, ret, customVars, snapshots, ok, taken, builtVars>>

ScratchFails ==
  /\ pc = "scratch" /\ DiskFaults
  /\ scratch' \in {scratch, {}}
  /\ Return("failed")
  /\ UNCHANGED <<run, options, customVars, snapshots, ok, taken, builtVars>>

\* From here on every return removes the scratch directory and ignores the
\* error of the removal.
Leave(r) == /\ Return(r)
            /\ scratch' = {} \/ (DiskFaults /\ UNCHANGED scratch)

\* Faulty variant: the custom rules are forgotten.
SourcesOnly == ok

\* Sources in manifest order, then the custom rules.
ToRead == ok \cup (IF seen THEN {Custom} ELSE {})
NextInput(i) == i \in ToRead \ taken /\ \A j \in ToRead \ taken : i <= j

\* ReadFileToSink opens its input and truncates the report ...
ReadStarts(i) ==
  /\ pc = "read" /\ NextInput(i)
  /\ i = Custom => custom # "missing"
  /\ report' = [report EXCEPT ![i] = [run |-> run, whole |-> FALSE]]
  /\ pc' = "reading"
  /\ UNCHANGED <<run, options, ret, customVars, snapshots, ok, taken, output, summary, scratch>>

\* Faulty variant: the report is not flushed.
ReadUnflushed(i) ==
  /\ pc = "reading" /\ NextInput(i)
  /\ taken' = taken \cup {i}
  /\ pc' = "read"
  /\ UNCHANGED <<run, options, ret, customVars, snapshots, ok, builtVars, scratch>>

\* ... hands its rules to Add, and flushes the report.
ReadEnds(i) ==
  /\ pc = "reading" /\ NextInput(i)
  /\ report' = [report EXCEPT ![i].whole = TRUE]
  /\ taken' = taken \cup {i}
  /\ pc' = "read"
  /\ UNCHANGED <<run, options, ret, customVars, snapshots, ok, output, summary, scratch>>

\* Input or report cannot be opened, a line is too long, Add or a write fails.
ReadFails ==
  /\ pc \in {"read", "reading"} /\ ToRead # taken
  /\ Leave("failed")
  /\ UNCHANGED <<run, options, customVars, snapshots, ok, taken, builtVars>>

\* sorter.Finish replaces the output.
Finishes ==
  /\ pc = "read" /\ ToRead = taken
  /\ output' = [run |-> run, from |-> taken]
  /\ pc' = "summary"
  /\ UNCHANGED <<run, options, ret, customVars, snapshots, ok, taken, summary, report, scratch>>

\* No rule survived, or the merge failed.
FinishFails ==
  /\ pc = "read" /\ ToRead = taken
  /\ Leave("failed")
  /\ UNCHANGED <<run, options, customVars, snapshots, ok, taken, builtVars>>

\* os.WriteFile creates the summary and then fills it.
SummaryOpens ==
  /\ pc = "summary" /\ summary.run # run
  /\ summary' = [run |-> run, whole |-> FALSE, succeeded |-> 0]
  /\ UNCHANGED <<run, options, pc, ret, customVars, snapshots, ok, taken, output, report, scratch>>

\* Faulty variant: the configured sources are counted.
SummaryOverstates ==
  /\ pc = "summary" /\ summary.run = run
  /\ summary' = [summary EXCEPT !.whole = TRUE, !.succeeded = NumSources]
  /\ Leave("ok")
  /\ UNCHANGED <<run, options, customVars, snapshots, ok, taken, output, report>>

SummaryWritten ==
  /\ pc = "summary" /\ summary.run = run
  /\ summary' = [summary EXCEPT !.whole = TRUE, !.succeeded = Cardinality(ok)]
  /\ Leave("ok")
  /\ UNCHANGED <<run, options, customVars, snapshots, ok, taken, output, report>>

\* Faulty variant: the error is dropped.
SummaryErrorIgnored ==
  /\ pc = "summary" /\ DiskFaults
  /\ Leave("ok")
  /\ UNCHANGED <<run, options, customVars, snapshots, ok, taken, builtVars>>

SummaryFails ==
  /\ pc = "summary" /\ DiskFaults
  /\ Leave("failed")
  /\ UNCHANGED <<run, options, customVars, snapshots, ok, taken, builtVars>>

-------------------------------------------------------------------------------
(* The environment                                                         *)

Running == pc \notin {"returned", "killed"}

\* No deferred function runs.
Killed ==
  /\ Running
  /\ pc' = "killed"
  /\ UNCHANGED <<run, options, ret, customVars, snapshots, ok, taken, builtVars, scratch>>

EditCustom ==
  /\ Running /\ CustomConfigured
  /\ custom' \in {"missing", "empty", "rules"}
  /\ steady' = (steady /\ custom' = "rules")
  /\ UNCHANGED <<run, options, pc, ret, seen, snapshots, ok, taken, builtVars, scratch>>

Finished == ~Running /\ run = MaxRuns /\ UNCHANGED vars

Preparing == \/ PreflightFails \/ PreflightPasses \/ clearStaleSummary \/ ClearFails
             \/ Prepare \/ PrepareFails
             \/ \E F, S \in SUBSET Sources : Downloaded(F, S) \/ DownloadFails(F, S)

Building == \/ ScratchOpens \/ ScratchFails
            \/ (\E i \in Inputs : ReadStarts(i) \/ ReadEnds(i))
            \/ ReadFails \/ Finishes \/ FinishFails
            \/ SummaryOpens \/ SummaryWritten \/ SummaryFails

Next == RunStarts \/ Preparing \/ Building \/ Killed \/ EditCustom \/ Finished

Spec == Init /\ [][Next]_vars

-------------------------------------------------------------------------------
(* Properties                                                              *)

\* Every variable has its type.
TypeOK ==
  /\ run \in 0..MaxRuns
  /\ pc \in {"returned", "killed", "preflight", "clear", "prepare", "download",
             "scratch", "read", "reading", "summary"}
  /\ ret \in {"none", "ok", "failed"}
  /\ custom \in {"missing", "empty", "rules"} /\ {seen, steady} \subseteq BOOLEAN
  /\ options \in [cache : BOOLEAN, partial : BOOLEAN]
  /\ raw \in [Sources -> 0..run] /\ cache \in [Sources -> 0..run]
  /\ ok \subseteq Sources /\ taken \subseteq ToRead
  /\ output \in [run : 0..run, from : SUBSET Inputs]
  /\ summary \in [run : 0..run, whole : BOOLEAN, succeeded : 0..NumSources]
  /\ report \in [Inputs -> [run : 0..run, whole : BOOLEAN]]
  /\ scratch \subseteq 1..run

\* A summary that exists is of the list that lies beside it, and a whole one
\* counts its sources, wherever earlier and later runs failed or were killed
\* (main.go:73-77, 201-218): build.sh sources it blindly.
SummaryDescribesOutput ==
  summary.run # 0 =>
    /\ summary.run = output.run
    /\ summary.whole => summary.succeeded = Cardinality(output.from \cap Sources)

\* The list is only ever replaced by one that holds every source (without
\* --allow-partial), the custom rules if they were there all the time, and
\* whose rejection reports are already whole (main.go:129-131, 157-177).
PublishesWhole ==
  [][output' # output =>
       /\ output'.run = run
       /\ options.partial \/ Sources \subseteq output'.from
       /\ CustomConfigured /\ steady => Custom \in output'.from
       /\ \A i \in output'.from : report[i] = [run |-> run, whole |-> TRUE]]_vars

\* The report of an input of the list is never older than the list; a partial
\* one belongs to a later run that was broken off (main.go:157-173).
ReportsCoverOutput ==
  \A i \in output.from : /\ report[i].run >= output.run
                         /\ report[i].run = output.run => report[i].whole

\* Without a shared cache, no snapshot of an earlier run lies beside those of
\* the run that downloads and builds, though sources may fail (83-93).
NoStaleSnapshots ==
  pc \in {"download", "scratch", "read", "reading", "summary"} /\ ~options.cache =>
    \A u \in Sources : raw[u] \in {0, run}

\* Runs that are killed, or fail to clean up, one after the other never pile up
\* scratch in the build directory (main.go:135-143).
ScratchDoesNotPileUp == Cardinality(scratch) <= 1

\* Types, and nothing of an earlier run is left to be mistaken for this one's:
\* no snapshots, and no more scratch than one run makes.
Inv == TypeOK /\ NoStaleSnapshots /\ ScratchDoesNotPileUp

\* A run that returned success left a whole summary beside its own list
\* (main.go:201-219): build.sh goes on by the exit status alone.
SuccessIsComplete ==
  pc = "returned" /\ ret = "ok" =>
    output.run = run /\ summary.run = run /\ summary.whole
===============================================================================
