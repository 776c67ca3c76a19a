---------------------------- MODULE BuilderRunProofs ----------------------------
(***************************************************************************)
(* Proofs about BuilderRun, for any number of sources and of runs: list,   *)
(* summary, reports, snapshots and scratch fit together, wherever runs     *)
(* fail or are killed. The invariant BuilderInv says, for each place a run *)
(* may be at, what it has already replaced and what is still of an earlier *)
(* run.                                                                    *)
(***************************************************************************)
EXTENDS BuilderRun, FiniteSetTheorems, TLAPS

\* The places of a run before the sorter opens, and while it takes its inputs.
UpToDownload == {"preflight", "clear", "prepare", "download"}
Reads == {"read", "reading"}

\* What the run has decided, and what it has not replaced yet.
Progress ==
  /\ pc # "returned" => run >= 1
  /\ pc \in UpToDownload \cup {"scratch"} => taken = {}
  /\ pc \in UpToDownload \cup {"scratch"} \cup Reads => output.run < run
  /\ pc \in {"prepare", "download", "scratch"} \cup Reads => summary.run = 0
  /\ pc = "summary" => /\ output.run = run /\ output.from = ToRead
                       /\ summary.run \in {0, run}
  /\ pc \in {"scratch", "summary"} \cup Reads => options.partial \/ ok = Sources

\* Custom rules that were there all the time are among the inputs.
CustomSeen ==
  /\ steady => custom = "rules"
  /\ pc \in {"clear", "prepare", "download", "scratch", "summary"} \cup Reads =>
       (CustomConfigured /\ steady => seen)

\* The reports of the inputs taken are whole, and the next one is truncated.
Reports ==
  /\ pc \in Reads \cup {"summary"} =>
       \A i \in taken : report[i] = [run |-> run, whole |-> TRUE]
  /\ pc = "reading" => \A i \in Inputs : NextInput(i) => report[i].run = run
  /\ ReportsCoverOutput

BuilderInv == /\ TypeOK /\ Progress /\ CustomSeen /\ Reports
              /\ SummaryDescribesOutput /\ SuccessIsComplete
              /\ NoStaleSnapshots /\ ScratchDoesNotPileUp

\* The halves of the type invariant.
Flags ==
  /\ run \in 0..MaxRuns
  /\ pc \in {"returned", "killed", "preflight", "clear", "prepare", "download",
             "scratch", "read", "reading", "summary"}
  /\ ret \in {"none", "ok", "failed"}
  /\ custom \in {"missing", "empty", "rules"} /\ {seen, steady} \subseteq BOOLEAN
  /\ options \in [cache : BOOLEAN, partial : BOOLEAN]

Contents ==
  /\ raw \in [Sources -> 0..run] /\ cache \in [Sources -> 0..run]
  /\ ok \subseteq Sources /\ taken \subseteq ToRead
  /\ output \in [run : 0..run, from : SUBSET Inputs]
  /\ summary \in [run : 0..run, whole : BOOLEAN, succeeded : 0..NumSources]
  /\ report \in [Inputs -> [run : 0..run, whole : BOOLEAN]]
  /\ scratch \subseteq 1..run

\* They make it up.
LEMMA Halves == TypeOK <=> Flags /\ Contents
BY DEF TypeOK, Flags, Contents

\* Every step keeps places and flags.
LEMMA NextFlags ==
  ASSUME Flags, [Next]_vars
  PROVE  Flags'
<1> USE BuilderAssumption DEF Flags, customVars, Return, Leave, Running
<1>1. CASE RunStarts
  <2>1. run' \in 0..MaxRuns
    BY <1>1 DEF RunStarts
  <2>2. QED  BY <1>1, <2>1 DEF RunStarts
<1>2. CASE PreflightFails
  BY <1>2 DEF PreflightFails
<1>3. CASE PreflightPasses
  BY <1>3 DEF PreflightPasses
<1>4. CASE clearStaleSummary
  BY <1>4 DEF clearStaleSummary
<1>5. CASE ClearFails
  BY <1>5 DEF ClearFails
<1>6. CASE Prepare
  BY <1>6 DEF Prepare
<1>7. CASE PrepareFails
  BY <1>7 DEF PrepareFails
<1>8. CASE ScratchOpens
  BY <1>8 DEF ScratchOpens
<1>9. CASE ScratchFails
  BY <1>9 DEF ScratchFails
<1>10. CASE ReadFails
  BY <1>10 DEF ReadFails
<1>11. CASE Finishes
  BY <1>11 DEF Finishes
<1>12. CASE FinishFails
  BY <1>12 DEF FinishFails
<1>13. CASE SummaryOpens
  BY <1>13 DEF SummaryOpens
<1>14. CASE SummaryWritten
  BY <1>14 DEF SummaryWritten
<1>15. CASE SummaryFails
  BY <1>15 DEF SummaryFails
<1>16. CASE Killed
  BY <1>16 DEF Killed
<1>17. CASE EditCustom
  BY <1>17 DEF EditCustom
<1>18. CASE \E F, S \in SUBSET Sources : Downloaded(F, S)
  BY <1>18 DEF Downloaded, Fetches
<1>19. CASE \E F, S \in SUBSET Sources : DownloadFails(F, S)
  BY <1>19 DEF DownloadFails, Fetches
<1>20. CASE \E i \in Inputs : ReadStarts(i)
  BY <1>20 DEF ReadStarts
<1>21. CASE \E i \in Inputs : ReadEnds(i)
  BY <1>21 DEF ReadEnds
<1>22. CASE UNCHANGED vars
  BY <1>22 DEF vars
<1>23. QED
  BY <1>1, <1>2, <1>3, <1>4, <1>5, <1>6, <1>7, <1>8, <1>9, <1>10, <1>11, <1>12, <1>13, <1>14,
     <1>15, <1>16, <1>17, <1>18, <1>19, <1>20, <1>21, <1>22
  DEF Next, Preparing, Building, Finished

\* The inputs are numbers, the custom rules are none of the sources.
LEMMA InputFacts ==
  /\ NumSources \in Nat /\ Custom \notin Sources /\ Inputs \subseteq Nat /\ IsFiniteSet(Sources)
  /\ Sources \subseteq Inputs /\ Custom \in Inputs /\ Cardinality(Sources) = NumSources
<1>1. NumSources \in Nat
  BY BuilderAssumption
<1>2. IsFiniteSet(Sources) /\ Cardinality(Sources) = NumSources
  <2>1. 1 \in Int /\ NumSources \in Int
    BY <1>1
  <2>2. /\ IsFiniteSet(1..NumSources)
        /\ Cardinality(1..NumSources) = IF 1 > NumSources THEN 0 ELSE NumSources - 1 + 1
    BY <2>1, FS_Interval, Zenon
  <2>3. QED  BY <1>1, <2>2 DEF Sources
<1>3. QED  BY <1>1, <1>2 DEF Custom, Sources, Inputs

\* The number of successes is one the summary can hold.
LEMMA SuccessCount == ASSUME NEW S, S \subseteq Sources PROVE Cardinality(S) \in 0..NumSources
<1>1. IsFiniteSet(S) /\ Cardinality(S) <= NumSources
  BY InputFacts, FS_Subset
<1>2. Cardinality(S) \in Nat
  BY <1>1, FS_CardinalityType
<1>3. QED  BY <1>1, <1>2, InputFacts

\* Every step keeps the types of the files.
LEMMA NextContents ==
  ASSUME Flags, Contents, Progress, [Next]_vars
  PROVE  Contents'
<1> USE DEF Contents, snapshots, builtVars, customVars, Return, Leave
<1>0. /\ run \in Nat /\ 0 \in 0..run /\ run \in 0..run
      /\ pc # "returned" => run \in 1..run
  BY DEF Flags, Progress
<1>1. ASSUME UNCHANGED <<run, raw, cache, ok, taken, seen, output, summary, report>>,
             scratch' \subseteq scratch \/ (scratch' = {run} /\ pc # "returned")
      PROVE  Contents'
  BY <1>0, <1>1 DEF ToRead
<1>2. CASE RunStarts
  <2>1. /\ run' = run + 1 /\ ok' = {} /\ taken' = {}
        /\ UNCHANGED <<raw, cache, output, summary, report, scratch>>
    BY <1>2 DEF RunStarts
  <2>2. 0..run \subseteq 0..run' /\ 1..run \subseteq 1..run'
    BY <1>0, <2>1
  <2>3. raw' \in [Sources -> 0..run'] /\ cache' \in [Sources -> 0..run']
    BY <2>1, <2>2
  <2>4. ok' \subseteq Sources /\ taken' \subseteq ToRead' /\ scratch' \subseteq 1..run'
    BY <2>1, <2>2
  <2>5. output' \in [run : 0..run', from : SUBSET Inputs]
    BY <2>1, <2>2
  <2>6. summary' \in [run : 0..run', whole : BOOLEAN, succeeded : 0..NumSources]
    BY <2>1, <2>2
  <2>7. report' \in [Inputs -> [run : 0..run', whole : BOOLEAN]]
    <3>1. [run : 0..run, whole : BOOLEAN] \subseteq [run : 0..run', whole : BOOLEAN]
      BY <2>2
    <3>2. QED  BY <2>1, <3>1
  <2>8. QED  BY <2>3, <2>4, <2>5, <2>6, <2>7
<1>3. CASE PreflightPasses
  <2>1. taken' = {} /\ UNCHANGED <<run, raw, cache, ok, output, summary, report, scratch>>
    BY <1>3 DEF PreflightPasses, Progress, UpToDownload
  <2>2. QED  BY <2>1
<1>4. CASE clearStaleSummary \/ SummaryOpens \/ SummaryWritten
  <2>1. UNCHANGED <<run, raw, cache, ok, taken, seen, output, report>> /\ scratch' \subseteq scratch
    BY <1>4 DEF clearStaleSummary, SummaryOpens, SummaryWritten
  <2>2. summary' \in [run : 0..run, whole : BOOLEAN, succeeded : 0..NumSources]
    <3>1. CASE clearStaleSummary
      BY <1>0, <3>1, InputFacts DEF clearStaleSummary, NoSummary
    <3>2. CASE SummaryOpens
      BY <1>0, <3>2, InputFacts DEF SummaryOpens
    <3>3. CASE SummaryWritten
      <4>1. Cardinality(ok) \in 0..NumSources
        BY SuccessCount
      <4>2. QED  BY <3>3, <4>1 DEF SummaryWritten
    <3>4. QED  BY <1>4, <3>1, <3>2, <3>3
  <2>3. QED  BY <2>1, <2>2 DEF ToRead
<1>5. ASSUME UNCHANGED <<run, cache, ok, taken, seen, output, summary, report, scratch>>,
             \A u \in Sources : raw'[u] \in {0, raw[u]}, DOMAIN raw' = Sources,
             raw' = [u \in Sources |-> raw'[u]]
      PROVE  Contents'
  <2>1. raw' \in [Sources -> 0..run]
    BY <1>0, <1>5
  <2>2. QED  BY <1>5, <2>1 DEF ToRead
<1>6. CASE Prepare
  BY <1>5, <1>6 DEF Prepare
<1>7. CASE PrepareFails
  BY <1>5, <1>7 DEF PrepareFails
<1>8. ASSUME NEW F \in SUBSET Sources, NEW S \in SUBSET Sources,
             Downloaded(F, S) \/ DownloadFails(F, S)
      PROVE  Contents'
  <2>1. taken' = {} /\ UNCHANGED <<run, output, summary, report, scratch>>
    BY <1>8 DEF Downloaded, DownloadFails, Fetches, Progress, UpToDownload
  <2>2. /\ raw' = raw \/ raw' = [u \in Sources |-> IF u \in F THEN run ELSE raw[u]]
        /\ cache' = cache \/ cache' = [u \in Sources |-> IF u \in F THEN run ELSE cache[u]]
        /\ ok' = S
    BY <1>8 DEF Downloaded, DownloadFails, Fetches
  <2>3. raw' \in [Sources -> 0..run] /\ cache' \in [Sources -> 0..run]
    BY <1>0, <2>2
  <2>4. QED  BY <2>1, <2>2, <2>3
<1>9. ASSUME NEW i \in Inputs, ReadStarts(i) \/ ReadEnds(i) PROVE Contents'
  <2>1. UNCHANGED <<run, raw, cache, ok, seen, output, summary, scratch>>
    BY <1>9 DEF ReadStarts, ReadEnds
  <2>2. taken' \subseteq ToRead
    BY <1>9 DEF ReadStarts, ReadEnds, NextInput
  <2>3. report' \in [Inputs -> [run : 0..run, whole : BOOLEAN]]
    <3>1. CASE ReadStarts(i)
      BY <1>0, <3>1 DEF ReadStarts
    <3>2. CASE ReadEnds(i)
      <4>1. [report[i] EXCEPT !.whole = TRUE] \in [run : 0..run, whole : BOOLEAN]
        OBVIOUS
      <4>2. report' = [report EXCEPT ![i] = [report[i] EXCEPT !.whole = TRUE]]
        BY <3>2 DEF ReadEnds
      <4>3. QED  BY <4>1, <4>2
    <3>3. QED  BY <1>9, <3>1, <3>2
  <2>4. QED  BY <2>1, <2>2, <2>3 DEF ToRead
<1>10. CASE Finishes
  <2>1. taken \subseteq Inputs
    BY InputFacts DEF ToRead
  <2>2. /\ output' = [run |-> run, from |-> taken]
        /\ UNCHANGED <<run, raw, cache, ok, taken, seen, summary, report, scratch>>
    BY <1>10 DEF Finishes
  <2>3. QED  BY <1>0, <2>1, <2>2 DEF ToRead
<1>11. CASE ScratchOpens \/ ScratchFails \/ ReadFails \/ FinishFails \/ SummaryFails
  BY <1>1, <1>11 DEF ScratchOpens, ScratchFails, ReadFails, FinishFails, SummaryFails
<1>12. CASE PreflightFails \/ ClearFails \/ Killed
  <2>1. UNCHANGED <<run, raw, cache, ok, taken, output, summary, report, scratch>>
    BY <1>12 DEF PreflightFails, ClearFails, Killed
  <2>2. ToRead' = ToRead
    BY <1>12 DEF PreflightFails, ClearFails, Killed, ToRead
  <2>3. QED  BY <2>1, <2>2
<1>13. CASE EditCustom
  <2>1. UNCHANGED <<run, raw, cache, ok, taken, output, summary, report, scratch>>
    BY <1>13 DEF EditCustom
  <2>2. ToRead' = ToRead
    BY <1>13 DEF EditCustom, ToRead
  <2>3. QED  BY <2>1, <2>2
<1>14. CASE UNCHANGED vars
  <2>1. UNCHANGED <<run, raw, cache, ok, taken, output, summary, report, scratch>>
    BY <1>14 DEF vars
  <2>2. ToRead' = ToRead
    BY <1>14 DEF vars, ToRead
  <2>3. QED  BY <2>1, <2>2
<1>15. QED  BY <1>2, <1>3, <1>4, <1>6, <1>7, <1>8, <1>9, <1>10, <1>11, <1>12, <1>13, <1>14
            DEF Next, Preparing, Building, Finished

\* Every step keeps what is known of the run's progress.
LEMMA NextProgress ==
  ASSUME Flags, Contents, Progress, [Next]_vars
  PROVE  Progress'
<1>0. run \in Nat /\ output.run \in 0..run
  BY DEF Flags, Contents
<1> USE DEF Progress, UpToDownload, Reads
<1> USE DEF snapshots, customVars, builtVars, Return, Leave, Flags, Running
<1>1. CASE RunStarts
  BY <1>0, <1>1 DEF RunStarts
<1>2. CASE PreflightFails
  BY <1>2 DEF PreflightFails
<1>3. CASE PreflightPasses
  BY <1>3 DEF PreflightPasses
<1>4. CASE clearStaleSummary
  BY <1>4 DEF clearStaleSummary, NoSummary
<1>5. CASE ClearFails
  BY <1>5 DEF ClearFails
<1>6. CASE Prepare
  BY <1>6 DEF Prepare
<1>7. CASE PrepareFails
  BY <1>7 DEF PrepareFails
<1>8. CASE ScratchOpens
  BY <1>8 DEF ScratchOpens
<1>9. CASE ScratchFails
  BY <1>9 DEF ScratchFails
<1>10. CASE ReadFails
  BY <1>10 DEF ReadFails
<1>11. CASE Finishes
  BY <1>11 DEF Finishes, ToRead
<1>12. CASE FinishFails
  BY <1>12 DEF FinishFails
<1>13. CASE SummaryOpens
  BY <1>13 DEF SummaryOpens, ToRead
<1>14. CASE SummaryWritten
  BY <1>14 DEF SummaryWritten, ToRead
<1>15. CASE SummaryFails
  BY <1>15 DEF SummaryFails
<1>16. CASE Killed
  BY <1>16 DEF Killed
<1>17. CASE EditCustom
  <2>1. ToRead' = ToRead /\ UNCHANGED <<run, pc, taken, output, summary, options, ok>>
    BY <1>17 DEF EditCustom, ToRead
  <2>2. QED  BY <2>1
<1>18. CASE \E F, S \in SUBSET Sources : Downloaded(F, S)
  BY <1>18 DEF Downloaded, Fetches
<1>19. CASE \E F, S \in SUBSET Sources : DownloadFails(F, S)
  BY <1>19 DEF DownloadFails, Fetches
<1>20. CASE \E i \in Inputs : ReadStarts(i)
  BY <1>20 DEF ReadStarts
<1>21. CASE \E i \in Inputs : ReadEnds(i)
  BY <1>21 DEF ReadEnds
<1>22. CASE UNCHANGED vars
  <2>1. ToRead' = ToRead /\ UNCHANGED <<run, pc, taken, output, summary, options, ok>>
    BY <1>22 DEF vars, ToRead
  <2>2. QED  BY <2>1
<1>23. QED
  BY <1>1, <1>2, <1>3, <1>4, <1>5, <1>6, <1>7, <1>8, <1>9, <1>10, <1>11, <1>12, <1>13, <1>14,
     <1>15, <1>16, <1>17, <1>18, <1>19, <1>20, <1>21, <1>22
  DEF Next, Preparing, Building, Finished

\* Every step keeps the custom rules in sight.
LEMMA NextCustom ==
  ASSUME Flags, CustomSeen, [Next]_vars
  PROVE  CustomSeen'
<1> USE DEF CustomSeen, Reads, Flags
<1> USE DEF snapshots, customVars, builtVars, Return, Leave, Running
<1>1. CASE RunStarts
  BY <1>1 DEF RunStarts
<1>2. CASE PreflightFails
  BY <1>2 DEF PreflightFails
<1>3. CASE PreflightPasses
  BY <1>3 DEF PreflightPasses
<1>4. CASE clearStaleSummary
  BY <1>4 DEF clearStaleSummary
<1>5. CASE ClearFails
  BY <1>5 DEF ClearFails
<1>6. CASE Prepare
  BY <1>6 DEF Prepare
<1>7. CASE PrepareFails
  BY <1>7 DEF PrepareFails
<1>8. CASE ScratchOpens
  BY <1>8 DEF ScratchOpens
<1>9. CASE ScratchFails
  BY <1>9 DEF ScratchFails
<1>10. CASE ReadFails
  BY <1>10 DEF ReadFails
<1>11. CASE Finishes
  BY <1>11 DEF Finishes
<1>12. CASE FinishFails
  BY <1>12 DEF FinishFails
<1>13. CASE SummaryOpens
  BY <1>13 DEF SummaryOpens
<1>14. CASE SummaryWritten
  BY <1>14 DEF SummaryWritten
<1>15. CASE SummaryFails
  BY <1>15 DEF SummaryFails
<1>16. CASE Killed
  BY <1>16 DEF Killed
<1>17. CASE EditCustom
  BY <1>17 DEF EditCustom
<1>18. CASE \E F, S \in SUBSET Sources : Downloaded(F, S)
  BY <1>18 DEF Downloaded, Fetches
<1>19. CASE \E F, S \in SUBSET Sources : DownloadFails(F, S)
  BY <1>19 DEF DownloadFails, Fetches
<1>20. CASE \E i \in Inputs : ReadStarts(i)
  BY <1>20 DEF ReadStarts
<1>21. CASE \E i \in Inputs : ReadEnds(i)
  BY <1>21 DEF ReadEnds
<1>22. CASE UNCHANGED vars
  BY <1>22 DEF vars
<1>23. QED
  BY <1>1, <1>2, <1>3, <1>4, <1>5, <1>6, <1>7, <1>8, <1>9, <1>10, <1>11, <1>12, <1>13, <1>14,
     <1>15, <1>16, <1>17, <1>18, <1>19, <1>20, <1>21, <1>22
  DEF Next, Preparing, Building, Finished

\* Without a shared cache, buildDir/raw is emptied before the first download.
LEMMA NextSnapshots ==
  ASSUME Flags, Contents, NoStaleSnapshots, [Next]_vars
  PROVE  NoStaleSnapshots'
<1> USE DEF NoStaleSnapshots
<1> USE DEF snapshots, customVars, builtVars, Return, Leave, Running
<1>1. CASE RunStarts
  BY <1>1 DEF RunStarts
<1>2. CASE PreflightFails
  BY <1>2 DEF PreflightFails
<1>3. CASE PreflightPasses
  BY <1>3 DEF PreflightPasses
<1>4. CASE clearStaleSummary
  BY <1>4 DEF clearStaleSummary
<1>5. CASE ClearFails
  BY <1>5 DEF ClearFails
<1>6. CASE Prepare
  BY <1>6 DEF Prepare
<1>7. CASE PrepareFails
  BY <1>7 DEF PrepareFails
<1>8. CASE ScratchOpens
  BY <1>8 DEF ScratchOpens
<1>9. CASE ScratchFails
  BY <1>9 DEF ScratchFails
<1>10. CASE ReadFails
  BY <1>10 DEF ReadFails
<1>11. CASE Finishes
  BY <1>11 DEF Finishes
<1>12. CASE FinishFails
  BY <1>12 DEF FinishFails
<1>13. CASE SummaryOpens
  BY <1>13 DEF SummaryOpens
<1>14. CASE SummaryWritten
  BY <1>14 DEF SummaryWritten
<1>15. CASE SummaryFails
  BY <1>15 DEF SummaryFails
<1>16. CASE Killed
  BY <1>16 DEF Killed
<1>17. CASE EditCustom
  BY <1>17 DEF EditCustom
<1>18. CASE \E F, S \in SUBSET Sources : Downloaded(F, S)
  BY <1>18 DEF Downloaded, Fetches
<1>19. CASE \E F, S \in SUBSET Sources : DownloadFails(F, S)
  BY <1>19 DEF DownloadFails, Fetches
<1>20. CASE \E i \in Inputs : ReadStarts(i)
  BY <1>20 DEF ReadStarts
<1>21. CASE \E i \in Inputs : ReadEnds(i)
  BY <1>21 DEF ReadEnds
<1>22. CASE UNCHANGED vars
  BY <1>22 DEF vars
<1>23. QED
  BY <1>1, <1>2, <1>3, <1>4, <1>5, <1>6, <1>7, <1>8, <1>9, <1>10, <1>11, <1>12, <1>13, <1>14,
     <1>15, <1>16, <1>17, <1>18, <1>19, <1>20, <1>21, <1>22
  DEF Next, Preparing, Building, Finished

\* The next input is one input.
LEMMA OneNext ==
  ASSUME Contents, NEW i \in Inputs, NEW j \in Inputs, NextInput(i), NextInput(j)
  PROVE  i = j
BY InputFacts DEF NextInput

\* Every step keeps the reports in order.
LEMMA NextReports ==
  ASSUME Flags, Contents, Progress, Reports, [Next]_vars
  PROVE  Reports'
<1>0. run \in Nat /\ output.run \in 0..run /\ output.from \subseteq Inputs /\ taken \subseteq Inputs
  BY InputFacts DEF Flags, Contents, ToRead
<1>1. ASSUME UNCHANGED <<run, report, output>>,
             pc' \notin Reads \cup {"summary"}
               \/ (UNCHANGED <<pc, taken>> /\ ToRead' = ToRead)
      PROVE  Reports'
  BY <1>1 DEF Reports, ReportsCoverOutput, NextInput, Reads
<1> USE DEF snapshots, customVars, builtVars, Return, Leave
<1>2. CASE RunStarts
  <2>1. run' = run + 1 /\ pc' = "preflight" /\ UNCHANGED <<report, output>>
    BY <1>2 DEF RunStarts
  <2>2. QED
    BY <1>0, <2>1 DEF Reports, ReportsCoverOutput, Reads
<1>3. CASE PreflightFails \/ PreflightPasses \/ clearStaleSummary \/ ClearFails \/ Prepare
           \/ PrepareFails \/ ScratchFails \/ Killed
  <2>1. UNCHANGED <<run, report, output>> /\ pc' \notin Reads \cup {"summary"}
    BY <1>3 DEF PreflightFails, PreflightPasses, clearStaleSummary, ClearFails, Prepare,
                PrepareFails, ScratchFails, Killed, Reads
  <2>2. QED  BY <1>1, <2>1
<1>4. CASE \E F, S \in SUBSET Sources : Downloaded(F, S) \/ DownloadFails(F, S)
  <2>1. UNCHANGED <<run, report, output>> /\ pc' \notin Reads \cup {"summary"}
    BY <1>4 DEF Downloaded, DownloadFails, Reads
  <2>2. QED  BY <1>1, <2>1
<1>5. CASE ReadFails \/ FinishFails \/ SummaryFails \/ SummaryWritten
  <2>1. UNCHANGED <<run, report, output>> /\ pc' \notin Reads \cup {"summary"}
    BY <1>5 DEF ReadFails, FinishFails, SummaryFails, SummaryWritten, Reads
  <2>2. QED  BY <1>1, <2>1
<1>6. CASE EditCustom \/ SummaryOpens \/ UNCHANGED vars
  <2>1. UNCHANGED <<run, report, output, pc, taken>>
    BY <1>6 DEF EditCustom, SummaryOpens, vars
  <2>2. ToRead' = ToRead
    BY <1>6 DEF EditCustom, SummaryOpens, vars, ToRead
  <2>3. QED  BY <1>1, <2>1, <2>2
<1>7. CASE ScratchOpens
  <2>1. taken' = {} /\ pc' = "read" /\ UNCHANGED <<run, report, output>>
    BY <1>7 DEF ScratchOpens, Progress
  <2>2. QED  BY <2>1 DEF Reports, ReportsCoverOutput, Reads
<1>8. ASSUME NEW i \in Inputs, ReadStarts(i) PROVE Reports'
  <2>1. /\ i \notin taken /\ pc = "read" /\ output.run < run /\ NextInput(i)
        /\ UNCHANGED <<run, output, taken>> /\ ToRead' = ToRead /\ pc' = "reading"
        /\ report' = [report EXCEPT ![i] = [run |-> run, whole |-> FALSE]]
    BY <1>8 DEF ReadStarts, NextInput, Progress, Reads, ToRead
  <2>2. \A j \in Inputs : report'[j] = IF j = i THEN [run |-> run, whole |-> FALSE] ELSE report[j]
    BY <2>1 DEF Contents
  <2>3. \A j \in taken' : report'[j] = [run |-> run', whole |-> TRUE]
    BY <1>0, <2>1, <2>2 DEF Reports, Reads
  <2>4. \A j \in Inputs : NextInput(j)' => report'[j].run = run'
    <3>1. \A j \in Inputs : NextInput(j)' => j = i
      BY <2>1, OneNext DEF NextInput
    <3>2. QED  BY <2>1, <2>2, <3>1
  <2>5. ReportsCoverOutput'
    BY <1>0, <2>1, <2>2 DEF Reports, ReportsCoverOutput
  <2>6. QED  BY <2>3, <2>4, <2>5 DEF Reports
<1>9. ASSUME NEW i \in Inputs, ReadEnds(i) PROVE Reports'
  <2>1. /\ i \notin taken /\ pc = "reading" /\ output.run < run /\ report[i].run = run
        /\ UNCHANGED <<run, output>> /\ taken' = taken \cup {i} /\ pc' = "read"
        /\ report' = [report EXCEPT ![i].whole = TRUE]
    BY <1>9 DEF ReadEnds, NextInput, Progress, Reads, Reports
  <2>2. \A j \in Inputs : report'[j] = IF j = i THEN [run |-> run, whole |-> TRUE] ELSE report[j]
    <3>1. report[i] \in [run : 0..run, whole : BOOLEAN]
      BY DEF Contents
    <3>2. [report[i] EXCEPT !.whole = TRUE] = [run |-> run, whole |-> TRUE]
      <4> DEFINE r == [report[i] EXCEPT !.whole = TRUE]
      <4>1. r \in [run : 0..run, whole : BOOLEAN] /\ r.run = run /\ r.whole = TRUE
        BY <2>1, <3>1
      <4> HIDE DEF r
      <4>2. r = [run |-> r.run, whole |-> r.whole]
        BY <4>1
      <4>3. r = [run |-> run, whole |-> TRUE]
        BY <4>1, <4>2
      <4>4. QED  BY <4>3 DEF r
    <3>3. report' = [report EXCEPT ![i] = [report[i] EXCEPT !.whole = TRUE]]
      BY <2>1
    <3>4. QED  BY <3>2, <3>3 DEF Contents
  <2>3. \A j \in taken' : report'[j] = [run |-> run', whole |-> TRUE]
    BY <1>0, <2>1, <2>2 DEF Reports, Reads
  <2>4. ReportsCoverOutput'
    BY <1>0, <2>1, <2>2 DEF Reports, ReportsCoverOutput
  <2>5. QED  BY <2>1, <2>3, <2>4 DEF Reports
<1>10. CASE Finishes
  <2>1. /\ pc = "read" /\ pc' = "summary" /\ output' = [run |-> run, from |-> taken]
        /\ UNCHANGED <<run, taken, report>>
    BY <1>10 DEF Finishes
  <2>2. \A j \in taken : report[j] = [run |-> run, whole |-> TRUE]
    BY <2>1 DEF Reports, Reads
  <2>3. ReportsCoverOutput'
    BY <1>0, <2>1, <2>2 DEF ReportsCoverOutput
  <2>4. QED  BY <2>1, <2>2, <2>3 DEF Reports
<1>11. QED
  BY <1>2, <1>3, <1>4, <1>5, <1>6, <1>7, <1>8, <1>9, <1>10
  DEF Next, Preparing, Building, Finished

\* Of the list's inputs, the sources are the results without an error.
LEMMA SourcesRead == Contents => ToRead \cap Sources = ok
BY InputFacts DEF Contents, ToRead

\* Every step keeps the summary true of the list beside it.
LEMMA NextSummary ==
  ASSUME Flags, Contents, Progress, SummaryDescribesOutput, SuccessIsComplete, [Next]_vars
  PROVE  SummaryDescribesOutput' /\ SuccessIsComplete'
<1>1. ASSUME UNCHANGED <<run, output, summary>>, pc' # "returned" \/ ret' # "ok"
      PROVE  SummaryDescribesOutput' /\ SuccessIsComplete'
  BY <1>1 DEF SummaryDescribesOutput, SuccessIsComplete
<1> USE DEF snapshots, customVars, builtVars, Return, Leave
<1>2. CASE RunStarts
  BY <1>2 DEF RunStarts, SummaryDescribesOutput, SuccessIsComplete
<1>3. CASE PreflightFails \/ PreflightPasses \/ ClearFails \/ Prepare \/ PrepareFails
           \/ ScratchOpens \/ ScratchFails \/ Killed
  BY <1>1, <1>3 DEF PreflightFails, PreflightPasses, ClearFails, Prepare, PrepareFails,
                    ScratchOpens, ScratchFails, Killed
<1>4. CASE \E F, S \in SUBSET Sources : Downloaded(F, S) \/ DownloadFails(F, S)
  <2>1. UNCHANGED <<run, output, summary>> /\ (pc' # "returned" \/ ret' # "ok")
    BY <1>4 DEF Downloaded, DownloadFails
  <2>2. QED  BY <1>1, <2>1
<1>5. CASE ReadFails \/ FinishFails \/ SummaryFails
  BY <1>1, <1>5 DEF ReadFails, FinishFails, SummaryFails
<1>6. CASE EditCustom
  BY <1>6 DEF EditCustom, Running, SummaryDescribesOutput, SuccessIsComplete
<1>7. CASE \E i \in Inputs : ReadStarts(i) \/ ReadEnds(i)
  <2>1. UNCHANGED <<run, output, summary>> /\ pc' # "returned"
    BY <1>7 DEF ReadStarts, ReadEnds
  <2>2. QED  BY <1>1, <2>1
<1>8. CASE clearStaleSummary
  BY <1>8 DEF clearStaleSummary, NoSummary, SummaryDescribesOutput, SuccessIsComplete
<1>9. CASE Finishes
  BY <1>9 DEF Finishes, Progress, Reads, SummaryDescribesOutput, SuccessIsComplete
<1>10. CASE SummaryOpens
  BY <1>10 DEF SummaryOpens, Progress, SummaryDescribesOutput, SuccessIsComplete
<1>11. CASE SummaryWritten
  <2>1. /\ output.run = run /\ output.from \cap Sources = ok
        /\ pc = "summary" /\ summary.run = run
    BY <1>11, SourcesRead DEF SummaryWritten, Progress
  <2>2. /\ UNCHANGED <<run, output>>
        /\ summary' = [summary EXCEPT !.whole = TRUE, !.succeeded = Cardinality(ok)]
    BY <1>11 DEF SummaryWritten
  <2>3. summary'.run = run /\ summary'.whole = TRUE /\ summary'.succeeded = Cardinality(ok)
    BY <2>1, <2>2 DEF Contents
  <2>4. QED  BY <2>1, <2>2, <2>3 DEF SummaryDescribesOutput, SuccessIsComplete
<1>12. CASE UNCHANGED vars
  BY <1>12 DEF vars, SummaryDescribesOutput, SuccessIsComplete
<1>13. QED
  BY <1>2, <1>3, <1>4, <1>5, <1>6, <1>7, <1>8, <1>9, <1>10, <1>11, <1>12
  DEF Next, Preparing, Building, Finished

\* The scratch directory holds the files of one run at most, after every step.
LEMMA NextScratch ==
  ASSUME Flags, ScratchDoesNotPileUp, [Next]_vars
  PROVE  ScratchDoesNotPileUp'
<1>1. scratch' \in {scratch, {}, {run}}
  BY DEF Next, Preparing, Building, Finished, RunStarts, PreflightFails, PreflightPasses,
         clearStaleSummary, ClearFails, Prepare, PrepareFails, Downloaded, DownloadFails,
         ScratchOpens, ScratchFails, ReadStarts, ReadEnds, ReadFails, Finishes, FinishFails,
         SummaryOpens, SummaryWritten, SummaryFails, Killed, EditCustom, Leave, vars
<1>2. Cardinality({}) = 0 /\ Cardinality({run}) = 1
  BY FS_EmptySet, FS_Singleton
<1>3. QED  BY <1>1, <1>2 DEF ScratchDoesNotPileUp

\* The builder has not run yet.
LEMMA InitBuilder == Init => BuilderInv
<1> SUFFICES ASSUME Init PROVE BuilderInv
  OBVIOUS
<1> USE DEF Init
<1>1. Flags
  <2>1. run \in 0..MaxRuns
    BY BuilderAssumption
  <2>2. QED  BY <2>1 DEF Flags
<1>2. Contents
  <2>1. NoSummary \in [run : 0..0, whole : BOOLEAN, succeeded : 0..NumSources]
    BY InputFacts DEF NoSummary
  <2>2. QED  BY <2>1 DEF Contents
<1>3. Progress /\ CustomSeen /\ Reports
  BY DEF Progress, CustomSeen, Reports, ReportsCoverOutput, UpToDownload, Reads
<1>4. SummaryDescribesOutput /\ SuccessIsComplete /\ NoStaleSnapshots
  BY DEF SummaryDescribesOutput, SuccessIsComplete, NoStaleSnapshots, NoSummary
<1>5. ScratchDoesNotPileUp
  BY FS_EmptySet DEF ScratchDoesNotPileUp
<1>6. QED  BY <1>1, <1>2, <1>3, <1>4, <1>5, Halves DEF BuilderInv

\* Every step keeps the invariant.
LEMMA NextBuilder == BuilderInv /\ [Next]_vars => BuilderInv'
<1> SUFFICES ASSUME BuilderInv, [Next]_vars PROVE BuilderInv'
  OBVIOUS
<1>1. Flags /\ Contents
  BY Halves DEF BuilderInv
<1> USE <1>1 DEF BuilderInv
<1>2. Flags'
  BY NextFlags
<1>3. Contents'
  BY NextContents
<1>4. Progress'
  BY NextProgress
<1>5. CustomSeen'
  BY NextCustom
<1>6. Reports'
  BY NextReports
<1>7. SummaryDescribesOutput' /\ SuccessIsComplete'
  BY NextSummary
<1>8. NoStaleSnapshots'
  BY NextSnapshots
<1>9. ScratchDoesNotPileUp'
  BY NextScratch
<1>10. TypeOK'
  BY <1>2, <1>3, Halves, PTL
<1>11. QED  BY <1>4, <1>5, <1>6, <1>7, <1>8, <1>9, <1>10

\* Whatever runs succeed, fail or are killed, BuilderInv holds.
THEOREM BuilderInvariance == Spec => []BuilderInv
BY InitBuilder, NextBuilder, PTL DEF Spec

\* Every variable keeps its type, no snapshot of an earlier run is mistaken for
\* one of this run, and scratch does not pile up (main.go:83-93, 135-143).
THEOREM NothingIsMistaken == Spec => []Inv
<1>1. BuilderInv => Inv
  BY DEF BuilderInv, Inv
<1>2. QED  BY <1>1, BuilderInvariance, PTL

\* A summary lies beside the list it describes (main.go:73-77, 201-218).
THEOREM SummariesAreTrue == Spec => []SummaryDescribesOutput
<1>1. BuilderInv => SummaryDescribesOutput
  BY DEF BuilderInv
<1>2. QED  BY <1>1, BuilderInvariance, PTL

\* The rejection reports of the inputs of a list are never older than it
\* (main.go:157-173).
THEOREM ReportsAreCurrent == Spec => []ReportsCoverOutput
<1>1. BuilderInv => ReportsCoverOutput
  BY DEF BuilderInv, Reports
<1>2. QED  BY <1>1, BuilderInvariance, PTL

\* Exit status 0 stands for a new list with its whole summary (main.go:201-219).
THEOREM SuccessIsTrue == Spec => []SuccessIsComplete
<1>1. BuilderInv => SuccessIsComplete
  BY DEF BuilderInv
<1>2. QED  BY <1>1, BuilderInvariance, PTL

\* A list that is put in place holds every source it must hold, the custom rules
\* if they were there all the time, and its reports are whole already
\* (main.go:129-131, 157-177).
THEOREM ListsAreWhole == Spec => PublishesWhole
<1> DEFINE Whole == /\ output'.run = run
                    /\ options.partial \/ Sources \subseteq output'.from
                    /\ CustomConfigured /\ steady => Custom \in output'.from
                    /\ \A i \in output'.from : report[i] = [run |-> run, whole |-> TRUE]
<1>1. BuilderInv /\ [Next]_vars => [output' # output => Whole]_vars
  <2> SUFFICES ASSUME BuilderInv, Next, output' # output PROVE Whole
    BY DEF vars
  <2>1. Finishes
    BY DEF Next, Preparing, Building, Finished, RunStarts, PreflightFails, PreflightPasses,
           clearStaleSummary, ClearFails, Prepare, PrepareFails, Downloaded, DownloadFails,
           ScratchOpens, ScratchFails, ReadStarts, ReadEnds, ReadFails, FinishFails,
           SummaryOpens, SummaryWritten, SummaryFails, Killed, EditCustom, builtVars, vars
  <2>2. pc = "read" /\ ToRead = taken /\ output' = [run |-> run, from |-> taken]
    BY <2>1 DEF Finishes
  <2>3. options.partial \/ Sources \subseteq taken
    BY <2>2 DEF BuilderInv, Progress, Reads, ToRead
  <2>4. CustomConfigured /\ steady => Custom \in taken
    BY <2>2 DEF BuilderInv, CustomSeen, Reads, ToRead
  <2>5. \A i \in taken : report[i] = [run |-> run, whole |-> TRUE]
    BY <2>2 DEF BuilderInv, Reports, Reads
  <2>6. QED  BY <2>2, <2>3, <2>4, <2>5
<1>2. QED  BY <1>1, BuilderInvariance, PTL DEF Spec, PublishesWhole

===============================================================================
