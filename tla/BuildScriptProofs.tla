--------------------------- MODULE BuildScriptProofs ---------------------------
(***************************************************************************)
(* Proofs about BuildScript, for any number of manifests and of runs:      *)
(* what lies in dist, what the release summary says of it, and what is     *)
(* left when the script or filtrite returns. The invariant ScriptInv ties  *)
(* the files to the place the script is at.                                *)
(***************************************************************************)
EXTENDS BuildScript, TLAPS

\* What is under way belongs to the place the script is at; `filtrite' by hand
\* is only ever in Convert.
Shape ==
  /\ going # {} => pc = "wait"
  /\ archive => pc \in {"unpack", "unpacking"}
  /\ child # "none" => pc = "run"
  /\ temp # "none" => pc \in {"log", "run"}
  /\ pc = "log" => temp = "empty"
  /\ child = "running" => temp \in {"empty", "part"}
  /\ child = "ok" => temp \in {"empty", "fits", "big"}
  /\ pc # "idle" => run >= 1
  /\ pc \in {"check", "log", "run", "size"} => list \in Lists
  /\ caller = "hand" => pc \in {"idle", "check", "log", "run"}
  /\ caller = "script" /\ pc # "idle" => exit = "none"

\* No part of a ruleset is in dist, and one of this run that is too big only
\* until its size check, or until the script is killed before it.
Dist ==
  /\ \A l \in Lists : dat[l].holds # "part"
  /\ run > 0 /\ exit # "killed" =>
       \A l \in Lists : dat[l].run = run => dat[l].holds = "fits" \/ (pc = "size" /\ l = list)
  /\ pc = "size" => dat[list].run = run

\* The lines of the summary are older than this run until it truncates the file,
\* none until the loop, and then one for each manifest before the current one.
Release ==
  /\ \A i \in DOMAIN lines : lines[i].run <= run
  /\ pc \in {"preflight", "truncate"} => \A i \in DOMAIN lines : lines[i].run < run
  /\ pc \in {"fetch", "unpack", "unpacking", "compile", "wait"} => lines = <<>>
  /\ caller = "script" /\ pc \in {"build", "check", "log", "run", "size"} =>
       lines = [i \in 1..(list - 1) |-> [list |-> i, run |-> run]]
  /\ SummaryMatchesRelease

ScriptInv == TypeOK /\ Shape /\ Dist /\ Release

\* The two halves of the types: places and flags, and what the files hold.
Flags ==
  /\ run \in 0..MaxRuns /\ list \in 1..(NumLists + 1)
  /\ pc \in {"idle", "preflight", "truncate", "fetch", "unpack", "unpacking", "compile",
             "wait", "build", "check", "log", "run", "size"}
  /\ exit \in {"none", "ok", "failed", "killed"} /\ caller \in {"script", "hand"}
  /\ converter \in {"none", "partial", "torn", "whole"} /\ archive \in BOOLEAN
  /\ going \subseteq Helpers /\ broken \in BOOLEAN
  /\ temp \in {"none", "empty", "part", "fits", "big"}
  /\ child \in {"none", "running", "ok", "failed"} /\ cancelled \in BOOLEAN

Dats == [run : 0..run, holds : {"nothing", "part", "fits", "big"}]
Line == [list : Lists, run : 1..MaxRuns]

Contents ==
  /\ built \in [Helpers -> 0..run] /\ filters \in [Lists -> 0..run]
  /\ dat \in [Lists -> Dats] /\ lines \in Seq(Line)

\* They make up the type invariant.
LEMMA Halves == TypeOK <=> Flags /\ Contents
BY DEF TypeOK, Flags, Contents, Dats, Line

-------------------------------------------------------------------------------
(* Types and places                                                        *)

\* Every step keeps places and flags.
LEMMA NextFlags ==
  ASSUME Flags, Shape, Contents, [Next]_vars
  PROVE  Flags' /\ Shape'
<1>0. filters \in [Lists -> Nat] /\ built \in [Helpers -> 0..run] /\ run \in Nat
  BY DEF Contents, Flags
<1> USE <1>0, ScriptAssumption DEF Flags, Shape, Lists
<1> USE DEF depsVars, goVars, convertVars, Exit, Helpers
<1>1. CASE ScriptStarts
  BY <1>1 DEF ScriptStarts
<1>2. CASE PreflightFails
  BY <1>2 DEF PreflightFails
<1>3. CASE ClearOutputs
  BY <1>3 DEF ClearOutputs
<1>4. CASE TruncateSummary
  BY <1>4 DEF TruncateSummary, Runnable
<1>5. CASE Fetched
  BY <1>5 DEF Fetched
<1>6. CASE Unpacks
  BY <1>6 DEF Unpacks
<1>7. CASE Unpacked
  BY <1>7 DEF Unpacked
<1>8. CASE FetchFails
  BY <1>8 DEF FetchFails
<1>9. CASE Compile
  BY <1>9 DEF Compile
<1>10. CASE BothBuilt
  BY <1>10 DEF BothBuilt, Waited
<1>11. CASE NotBuilt
  BY <1>11 DEF NotBuilt, Waited
<1>12. CASE ListBuilt
  BY <1>12 DEF ListBuilt
<1>13. CASE ListFails
  BY <1>13 DEF ListFails
<1>14. CASE SizeFits
  BY <1>14 DEF SizeFits
<1>15. CASE SizeExceeds
  BY <1>15 DEF SizeExceeds
<1>16. CASE AllBuilt
  BY <1>16 DEF AllBuilt
<1>17. CASE OpenTemp
  BY <1>17 DEF OpenTemp
<1>18. CASE StartChild
  BY <1>18 DEF StartChild
<1>19. CASE KillChild
  BY <1>19 DEF KillChild
<1>20. CASE Cancel
  BY <1>20 DEF Cancel, Converting
<1>21. CASE Publish
  BY <1>21 DEF Publish, RunSucceeds, Returns
<1>22. CASE ConvertFails
  BY <1>22 DEF ConvertFails, Returns, Converting
<1>23. CASE ChildWrites
  BY <1>23 DEF ChildWrites
<1>24. CASE ChildExits
  BY <1>24 DEF ChildExits
<1>25. CASE ChildFails
  BY <1>25 DEF ChildFails
<1>26. CASE Killed
  BY <1>26 DEF Killed
<1>27. CASE RemoveConverter
  BY <1>27 DEF RemoveConverter
<1>28. ASSUME NEW h \in Helpers, BuildEnds(h) PROVE Flags' /\ Shape'
  BY <1>28 DEF BuildEnds
<1>29. ASSUME NEW l \in Lists, ByHand(l) PROVE Flags' /\ Shape'
  <2>1. run \in Nat /\ run # 0
    BY <1>29 DEF ByHand
  <2>2. Flags'
    <3>1. list' \in 1..(NumLists + 1)
      BY <1>29 DEF ByHand
    <3>2. pc' = "check" /\ caller' = "hand" /\ UNCHANGED <<run, exit, converter, going, temp, child>>
      BY <1>29 DEF ByHand
    <3>3. archive' \in BOOLEAN /\ broken' \in BOOLEAN /\ cancelled' \in BOOLEAN
      BY <1>29 DEF ByHand
    <3>4. QED  BY <3>1, <3>2, <3>3
  <2>3. /\ pc = "idle" /\ pc' = "check" /\ caller' = "hand" /\ list' = l
        /\ UNCHANGED <<run, going, child, temp>>
    BY <1>29 DEF ByHand
  <2>4. archive' => pc' \in {"unpack", "unpacking"}
    BY <1>29 DEF ByHand
  <2>5. run >= 1
    BY <2>1
  <2>6. Shape'
    BY <2>3, <2>4, <2>5
  <2>7. QED  BY <2>2, <2>6
<1>30. CASE UNCHANGED vars
  BY <1>30 DEF vars
<1>31. QED
  BY <1>1, <1>2, <1>3, <1>4, <1>5, <1>6, <1>7, <1>8, <1>9, <1>10, <1>11, <1>12, <1>13,
     <1>14, <1>15, <1>16, <1>17, <1>18, <1>19, <1>20, <1>21, <1>22, <1>23, <1>24, <1>25, <1>26,
     <1>27, <1>28, <1>29, <1>30
  DEF Next, Script, Convert, Child, Finished

\* Every step keeps the types of files and lines.
LEMMA NextContents ==
  ASSUME Flags, Shape, Contents, [Next]_vars
  PROVE  Contents'
<1> USE DEF Contents, depsVars, goVars, convertVars
<1>0. NoDat \in Dats /\ run \in Nat /\ 0 \in 0..run /\ run \in 0..run
  BY ScriptAssumption DEF NoDat, Dats, Flags
<1>1. CASE ScriptStarts
  <2>1. /\ UNCHANGED <<built, filters, dat, lines>> /\ run' = run + 1
    BY <1>1 DEF ScriptStarts
  <2>2. 0..run \subseteq 0..run' /\ Dats \subseteq Dats'
    BY <1>0, <2>1 DEF Dats
  <2>3. QED  BY <2>1, <2>2 DEF Line
<1>2. CASE ClearOutputs
  <2>1. /\ filters' = [l \in Lists |-> 0] /\ dat' = [l \in Lists |-> NoDat]
        /\ UNCHANGED <<run, built, lines>>
    BY <1>2 DEF ClearOutputs
  <2>2. Dats' = Dats
    BY <2>1 DEF Dats
  <2>3. QED  BY <1>0, <2>1, <2>2
<1>3. CASE SizeExceeds \/ Publish
  <2>1. [run |-> IF caller = "hand" THEN 0 ELSE run, holds |-> temp] \in Dats \/ ~Publish
    BY <1>0, <1>3 DEF Publish, RunSucceeds, Shape, Dats
  <2>2. PICK d \in Dats : dat' = [dat EXCEPT ![list] = d]
    BY <1>0, <1>3, <2>1 DEF SizeExceeds, Publish
  <2>3. UNCHANGED <<run, built, filters, lines>>
    BY <1>3 DEF SizeExceeds, Publish
  <2>4. Dats' = Dats
    BY <2>3 DEF Dats
  <2>5. QED  BY <2>2, <2>3, <2>4
<1>4. CASE TruncateSummary
  <2>1. lines' = <<>> /\ UNCHANGED <<run, built, filters, dat>>
    BY <1>4 DEF TruncateSummary
  <2>2. Dats' = Dats /\ lines' \in Seq(Line)
    BY <2>1 DEF Dats
  <2>3. QED  BY <2>1, <2>2
<1>5. ASSUME NEW g \in 0..run, UNCHANGED <<run, dat, lines>>,
             UNCHANGED built \/ (\E h \in Helpers : built' = [built EXCEPT ![h] = g]),
             UNCHANGED filters \/ filters' = [filters EXCEPT ![list] = g]
      PROVE  Contents'
  <2>1. Dats' = Dats
    BY <1>5 DEF Dats
  <2>2. built' \in [Helpers -> 0..run] /\ filters' \in [Lists -> 0..run]
    BY <1>5
  <2>3. QED  BY <1>5, <2>1, <2>2
<1>6. CASE SizeFits
  <2>1. list \in Lists /\ run \in 1..MaxRuns
    BY <1>6 DEF SizeFits, Shape, Flags
  <2>2. [list |-> list, run |-> run] \in Line
    BY <2>1 DEF Line
  <2>3. lines' \in Seq(Line)
    BY <1>6, <2>2 DEF SizeFits
  <2>4. UNCHANGED <<run, built, filters, dat>>
    BY <1>6 DEF SizeFits
  <2>5. QED  BY <2>3, <2>4 DEF Dats
<1>7. CASE ListBuilt \/ ListFails \/ \E h \in Helpers : BuildEnds(h)
  BY <1>0, <1>5, <1>7 DEF ListBuilt, ListFails, BuildEnds
<1>8. ASSUME UNCHANGED <<run, built, filters, dat, lines>> PROVE Contents'
  BY <1>8 DEF Dats
<1>9. CASE \/ PreflightFails \/ Fetched \/ Unpacks \/ Unpacked \/ FetchFails \/ Compile
           \/ BothBuilt \/ NotBuilt \/ AllBuilt
  BY <1>8, <1>9 DEF PreflightFails, Fetched, Unpacks, Unpacked, FetchFails, Compile, BothBuilt,
                    NotBuilt, AllBuilt
<1>10. CASE \/ OpenTemp \/ StartChild \/ KillChild \/ Cancel \/ ConvertFails \/ Child
            \/ Killed \/ (\E l \in Lists : ByHand(l)) \/ RemoveConverter \/ UNCHANGED vars
  BY <1>8, <1>10 DEF OpenTemp, StartChild, KillChild, Cancel, ConvertFails, Child, ChildWrites,
                     ChildExits, ChildFails, Killed, ByHand, RemoveConverter, vars
<1>11. QED  BY <1>1, <1>2, <1>3, <1>4, <1>6, <1>7, <1>9, <1>10
            DEF Next, Script, Convert, Finished

-------------------------------------------------------------------------------
(* Rulesets                                                                *)

\* Only a whole ruleset is put in place, and it stays after its check only if it
\* fits.
LEMMA NextDist ==
  ASSUME Flags, Shape, Contents, Dist, [Next]_vars
  PROVE  Dist'
<1>0. run \in Nat /\ \A l \in Lists : dat[l] \in Dats /\ dat[l].run \in 0..run
  BY DEF Flags, Contents, Dats
<1> USE DEF Dist, Exit
<1>1. CASE ScriptStarts
  BY <1>0, <1>1 DEF ScriptStarts
<1>2. CASE ClearOutputs
  BY <1>2 DEF ClearOutputs, NoDat
<1>3. CASE SizeExceeds
  <2>1. /\ run' = run /\ pc = "size" /\ pc' = "idle" /\ dat' = [dat EXCEPT ![list] = NoDat]
        /\ exit = "none" /\ list \in Lists
    BY <1>3 DEF SizeExceeds, Shape, Flags
  <2>2. \A l \in Lists : dat'[l] = IF l = list THEN NoDat ELSE dat[l]
    BY <2>1 DEF Contents
  <2>3. QED  BY <1>0, <2>1, <2>2 DEF NoDat
<1>4. CASE SizeFits
  BY <1>0, <1>4 DEF SizeFits
<1>5. CASE Publish
  <2> DEFINE new == [run |-> IF caller = "hand" THEN 0 ELSE run, holds |-> temp]
  <2>1. /\ dat' = [dat EXCEPT ![list] = new] /\ list \in Lists /\ list' = list /\ run' = run
        /\ temp \in {"fits", "big"} /\ caller \in {"hand", "script"}
        /\ pc' = (IF caller = "hand" THEN "idle" ELSE "size") /\ exit' = exit
    BY <1>5 DEF Publish, RunSucceeds, Returns, Shape, Flags
  <2>2. \A l \in Lists : dat'[l] = IF l = list THEN new ELSE dat[l]
    BY <2>1 DEF Contents
  <2>3. new.holds # "part" /\ new.run = IF caller = "hand" THEN 0 ELSE run
    BY <2>1
  <2>4. pc = "run"
    BY <1>5 DEF Publish
  <2>5. QED  BY <1>0, <2>1, <2>2, <2>3, <2>4
<1>6. ASSUME UNCHANGED <<run, dat>>, pc # "size", pc' # "size", exit # "killed" \/ exit' = exit
      PROVE  Dist'
  BY <1>6
<1>7. CASE \/ PreflightFails \/ TruncateSummary \/ Fetched \/ Unpacks \/ Unpacked \/ FetchFails
           \/ Compile \/ BothBuilt \/ NotBuilt \/ ListBuilt \/ ListFails \/ AllBuilt
  <2>1. exit = "none"
    BY <1>7 DEF Shape, PreflightFails, TruncateSummary, Fetched, Unpacks, Unpacked, FetchFails,
                Compile, BothBuilt, NotBuilt, ListBuilt, ListFails, AllBuilt, Flags
  <2>2. QED
  BY <1>6, <1>7, <2>1 DEF PreflightFails, TruncateSummary, Fetched, Unpacks, Unpacked,
     FetchFails,
                Compile, BothBuilt, NotBuilt, ListBuilt, ListFails, AllBuilt
<1>8. CASE ConvertFails
  <2>1. caller = "hand" \/ exit = "none"
    BY <1>8 DEF ConvertFails, Converting, Shape, Flags
  <2>2. QED  BY <1>6, <1>8, <2>1 DEF ConvertFails, Converting, Returns
<1>9. CASE \/ OpenTemp \/ StartChild \/ Cancel \/ (\E l \in Lists : ByHand(l)) \/ RemoveConverter
  BY <1>6, <1>9 DEF OpenTemp, StartChild, Cancel, Converting, ByHand, RemoveConverter
<1>10. CASE \/ KillChild \/ Child \/ UNCHANGED vars \/ \E h \in Helpers : BuildEnds(h)
  BY <1>10 DEF KillChild, Child, ChildWrites, ChildExits, ChildFails, vars, BuildEnds
<1>11. CASE Killed
  <2>1. /\ run' = run /\ dat' = dat /\ pc' = "idle" /\ pc # "idle"
        /\ exit' = IF caller = "hand" THEN exit ELSE "killed"
    BY <1>11 DEF Killed
  <2>2. QED  BY <2>1 DEF Shape
<1>12. QED  BY <1>1, <1>2, <1>3, <1>4, <1>5, <1>7, <1>8, <1>9, <1>10, <1>11
            DEF Next, Script, Convert, Finished

-------------------------------------------------------------------------------
(* The release summary                                                     *)

\* A step that leaves lines, dat, run and the list alone, and is not the end of
\* the loop.
LEMMA SameRelease ==
  ASSUME Release, UNCHANGED <<run, lines, dat, caller>>,
         list' = list \/ caller = "hand",
         exit' = "ok" => exit = "ok",
         \/ pc' = "idle" \/ pc' = pc
         \/ pc \in {"fetch", "unpack", "unpacking", "compile", "wait"}
            /\ pc' \in {"fetch", "unpack", "unpacking", "compile", "wait"}
         \/ pc \in {"build", "check", "log", "run", "size"} /\ pc' \in {"build", "check", "log", "run", "size"}
  PROVE  Release'
BY DEF Release, SummaryMatchesRelease

\* Every step keeps the summary in step with dist.
LEMMA NextRelease ==
  ASSUME Flags, Shape, Contents, Dist, Release, [Next]_vars
  PROVE  Release'
<1>0. run \in Nat /\ list \in Nat /\ NumLists \in Nat /\ lines \in Seq(Line)
  BY ScriptAssumption DEF Flags, Contents
<1>1. CASE ScriptStarts
  <2>1. /\ run' = run + 1 /\ lines' = lines /\ pc' = "preflight" /\ exit' = "none"
    BY <1>1 DEF ScriptStarts
  <2>2. \A i \in DOMAIN lines : lines[i].run \in Nat /\ lines[i].run <= run
    <3>1. \A i \in DOMAIN lines : lines[i] \in Line
      BY <1>0
    <3>2. QED  BY <3>1 DEF Release, Line
  <2>3. \A i \in DOMAIN lines : lines[i].run < run + 1 /\ lines[i].run # run + 1
    BY <1>0, <2>2
  <2>4. QED  BY <2>1, <2>2, <2>3, <1>0 DEF Release, SummaryMatchesRelease
<1>2. CASE ClearOutputs
  <2>1. /\ run' = run /\ lines' = lines /\ pc' = "truncate" /\ pc = "preflight" /\ exit' = exit
        /\ exit # "ok"
    BY <1>2 DEF ClearOutputs, Shape, Flags
  <2>2. \A i \in DOMAIN lines : lines[i].run # run
    <3>1. \A i \in DOMAIN lines : lines[i] \in Line /\ lines[i].run < run
      BY <1>0, <2>1 DEF Release
    <3>2. QED  BY <1>0, <3>1 DEF Line
  <2>3. QED  BY <2>1, <2>2 DEF Release, SummaryMatchesRelease
<1>3. CASE TruncateSummary
  <2>1. lines' = <<>> /\ pc' \in {"compile", "fetch"} /\ exit' = exit /\ exit # "ok"
    BY <1>3 DEF TruncateSummary, Shape, Flags
  <2>2. QED  BY <2>1 DEF Release, SummaryMatchesRelease
<1>4. CASE BothBuilt
  <2>1. lines = <<>> /\ lines' = lines /\ pc' = "build" /\ list' = 1 /\ exit' = exit /\ exit # "ok"
    BY <1>4 DEF BothBuilt, Release, Shape, Flags
  <2>2. lines' = [i \in 1..(list' - 1) |-> [list |-> i, run |-> run']]
    BY <2>1
  <2>3. QED  BY <2>1, <2>2 DEF Release, SummaryMatchesRelease
<1>5. ASSUME caller = "script", list \in Lists, pc = "size" PROVE
        /\ Len(lines) = list - 1
        /\ lines = [i \in 1..(list - 1) |-> [list |-> i, run |-> run]]
        /\ \A i \in DOMAIN lines : lines[i] = [list |-> i, run |-> run] /\ i \in Lists /\ i # list
  <2>1. lines = [i \in 1..(list - 1) |-> [list |-> i, run |-> run]]
    BY <1>5 DEF Release
  <2>2. DOMAIN lines = 1..(list - 1) /\ list - 1 \in Nat
    BY <1>5, <2>1, <1>0 DEF Lists
  <2>3. Len(lines) = list - 1
    BY <1>0, <2>2
  <2>4. \A i \in 1..(list - 1) : i \in Lists /\ i # list
    BY <1>0, <1>5 DEF Lists
  <2>5. QED  BY <2>1, <2>2, <2>3, <2>4
<1>6. CASE SizeFits
  <2>1. /\ pc = "size" /\ pc' = "build" /\ dat[list].holds = "fits" /\ dat[list].run = run
        /\ list' = list + 1 /\ lines' = Append(lines, [list |-> list, run |-> run])
        /\ UNCHANGED <<run, exit, caller, dat>> /\ list \in Lists /\ caller = "script" /\ exit = "none"
    BY <1>6 DEF SizeFits, Shape, Dist, Flags
  <2>2. dat[list] = [run |-> run, holds |-> "fits"]
    <3>1. dat[list] \in Dats
      BY <2>1 DEF Contents
    <3>2. QED  BY <2>1, <3>1 DEF Dats
  <2>3. lines' = [i \in 1..list |-> [list |-> i, run |-> run]]
    BY <1>0, <1>5, <2>1
  <2>4. DOMAIN lines' = 1..list /\ \A i \in 1..list : lines'[i] = [list |-> i, run |-> run]
    BY <2>3
  <2>5. \A i \in 1..list : dat[i] = [run |-> run, holds |-> "fits"]
    <3>1. \A i \in DOMAIN lines : lines[i].run = run => dat[lines[i].list] = [run |-> run, holds |-> "fits"]
      BY <2>1 DEF Release, SummaryMatchesRelease
    <3>2. \A i \in 1..(list - 1) : dat[i] = [run |-> run, holds |-> "fits"]
      BY <1>5, <2>1, <3>1
    <3>3. QED  BY <1>0, <2>2, <3>2
  <2>6. lines' = [i \in 1..(list' - 1) |-> [list |-> i, run |-> run']]
    BY <1>0, <2>1, <2>3
  <2>7. QED  BY <1>0, <2>1, <2>4, <2>5, <2>6 DEF Release, SummaryMatchesRelease
<1>7. CASE SizeExceeds
  <2>1. /\ pc = "size" /\ pc' = "idle" /\ exit' = "failed" /\ dat' = [dat EXCEPT ![list] = NoDat]
        /\ UNCHANGED <<run, list, caller, lines>> /\ list \in Lists /\ caller = "script"
    BY <1>7 DEF SizeExceeds, Exit, Shape, Flags
  <2>2. \A i \in DOMAIN lines : dat'[lines[i].list] = dat[lines[i].list]
    BY <1>5, <2>1 DEF Contents
  <2>3. QED  BY <2>1, <2>2 DEF Release, SummaryMatchesRelease
<1>8. CASE Publish
  <2>1. CASE caller = "hand"
    <3>1. pc' = "idle" /\ UNCHANGED <<run, lines, caller>>
      BY <1>8, <2>1 DEF Publish, Returns
    <3>2. QED  BY <2>1, <3>1 DEF Release, SummaryMatchesRelease
  <2>2. CASE caller = "script"
    <3>1. /\ pc = "run" /\ pc' = "size" /\ UNCHANGED <<run, lines, caller, list, exit>>
          /\ dat' = [dat EXCEPT ![list] = [run |-> run, holds |-> temp]] /\ exit = "none"
          /\ list \in Lists
      BY <1>8, <2>2 DEF Publish, Returns, Shape, Flags
    <3>2. lines = [i \in 1..(list - 1) |-> [list |-> i, run |-> run]]
      BY <2>2, <3>1 DEF Release
    <3>3. \A i \in DOMAIN lines : lines[i].list \in Lists /\ lines[i].list # list
      BY <1>0, <3>1, <3>2 DEF Lists
    <3>4. \A i \in DOMAIN lines : dat'[lines[i].list] = dat[lines[i].list]
      BY <3>1, <3>3 DEF Contents
    <3>5. QED  BY <3>1, <3>4 DEF Release, SummaryMatchesRelease
  <2>3. QED  BY <2>1, <2>2 DEF Flags
<1>9. CASE AllBuilt
  <2>1. /\ pc = "build" /\ list \notin Lists /\ pc' = "idle" /\ exit' = "ok" /\ caller = "script"
        /\ UNCHANGED <<run, list, caller, lines, dat>>
    BY <1>9 DEF AllBuilt, Exit, Shape, Flags
  <2>2. list - 1 = NumLists
    BY <1>0, <2>1 DEF Flags, Lists
  <2>3. lines = [i \in Lists |-> [list |-> i, run |-> run]]
    BY <2>1, <2>2 DEF Release, Lists
  <2>4. QED  BY <2>1, <2>3 DEF Release, SummaryMatchesRelease
<1>10. ASSUME NEW l \in Lists, ByHand(l) PROVE Release'
  <2>1. pc' = "check" /\ caller' = "hand" /\ UNCHANGED <<run, lines>>
    BY <1>10 DEF ByHand
  <2>2. QED  BY <2>1 DEF Release, SummaryMatchesRelease
<1>11. CASE \/ PreflightFails \/ Fetched \/ Unpacks \/ Unpacked \/ FetchFails \/ Compile
            \/ NotBuilt \/ ListBuilt \/ ListFails
  BY <1>11, SameRelease DEF PreflightFails, Fetched, Unpacks, Unpacked, FetchFails, Compile,
                            NotBuilt, ListBuilt, ListFails, Exit
<1>12. CASE \/ OpenTemp \/ StartChild \/ KillChild \/ Cancel \/ Child \/ Killed
            \/ RemoveConverter \/ \E h \in Helpers : BuildEnds(h)
  BY <1>12, SameRelease DEF OpenTemp, StartChild, KillChild, Cancel, Child, ChildWrites,
                            ChildExits, ChildFails, Killed, RemoveConverter, BuildEnds
<1>13. CASE ConvertFails
  BY <1>13, SameRelease DEF ConvertFails, Returns, Exit
<1>14. CASE UNCHANGED vars
  BY <1>14, SameRelease DEF vars
<1>15. QED  BY <1>1, <1>2, <1>3, <1>4, <1>6, <1>7, <1>8, <1>9, <1>10, <1>11, <1>12, <1>13, <1>14
            DEF Next, Script, Convert, Finished

-------------------------------------------------------------------------------
(* The theorems                                                            *)

\* The invariant holds initially.
LEMMA InitScript == Init => ScriptInv
<1> SUFFICES ASSUME Init PROVE ScriptInv
  OBVIOUS
<1> USE ScriptAssumption
<1>1. Flags
  <2>1. /\ run \in 0..MaxRuns /\ list \in 1..(NumLists + 1)
        /\ pc = "idle" /\ exit = "none" /\ caller = "script" /\ going = {}
        /\ converter \in {"none", "partial", "whole"} /\ temp = "none" /\ child = "none"
    BY DEF Init
  <2>2. archive \in BOOLEAN /\ broken \in BOOLEAN /\ cancelled \in BOOLEAN
    BY DEF Init
  <2>3. QED  BY <2>1, <2>2 DEF Flags
<1>2. Contents
  <2>1. NoDat \in Dats /\ 0 \in 0..run
    BY DEF Init, NoDat, Dats
  <2>2. lines \in Seq(Line)
    BY DEF Init
  <2>3. QED  BY <2>1, <2>2 DEF Init, Contents
<1>3. Shape
  BY DEF Init, Shape
<1>4. Dist
  BY DEF Init, Dist, NoDat
<1>5. Release
  BY DEF Init, Release, SummaryMatchesRelease
<1>6. QED  BY <1>1, <1>2, <1>3, <1>4, <1>5, Halves DEF ScriptInv

\* And it is inductive.
LEMMA NextScript == ScriptInv /\ [Next]_vars => ScriptInv'
<1> SUFFICES ASSUME ScriptInv, [Next]_vars PROVE ScriptInv'
  OBVIOUS
<1>1. Flags /\ Contents
  BY Halves DEF ScriptInv
<1>2. Flags' /\ Shape' /\ Contents' /\ Dist' /\ Release'
  BY <1>1, NextFlags, NextContents, NextDist, NextRelease DEF ScriptInv
<1>3. (TypeOK <=> Flags /\ Contents)'
  BY Halves, PTL
<1>4. QED  BY <1>2, <1>3 DEF ScriptInv

\* The invariant holds for any number of manifests and runs.
THEOREM ScriptInvariance == Spec => []ScriptInv
BY InitScript, NextScript, PTL DEF Spec

\* No part of a ruleset is ever in dist, and no ruleset of a run that has ended
\* by itself is over the limit.
THEOREM RulesetsAreWhole == Spec => []Inv
<1>1. ScriptInv => Inv
  <2> SUFFICES ASSUME ScriptInv PROVE Inv
    OBVIOUS
  <2>1. RulesetsWhole
    <3>1. pc = "size" => exit = "none"
      BY Halves DEF ScriptInv, Shape, Flags
    <3>2. QED  BY <3>1 DEF ScriptInv, Dist, RulesetsWhole
  <2>2. QED  BY <2>1 DEF ScriptInv, Inv
<1>2. QED  BY <1>1, ScriptInvariance, PTL

\* The summary of a run names what lies in dist, and after a run that succeeded
\* each manifest once.
THEOREM SummaryIsTrue == Spec => []SummaryMatchesRelease
<1>1. ScriptInv => SummaryMatchesRelease
  BY DEF ScriptInv, Release
<1>2. QED  BY <1>1, ScriptInvariance, PTL

\* No build, converter or temporary file outlives the process it belongs to.
THEOREM LeavesNothing == Spec => NothingLeftBehind
<1>1. ScriptInv /\ [Next]_vars =>
        [pc # "idle" /\ pc' = "idle" =>
           going' = {} /\ child' = "none" /\ temp' = "none" /\ ~archive']_vars
  <2> SUFFICES ASSUME ScriptInv, [Next]_vars, pc' = "idle"
               PROVE  going' = {} /\ child' = "none" /\ temp' = "none" /\ ~archive'
    OBVIOUS
  <2>1. Shape'
    BY NextScript DEF ScriptInv
  <2>2. QED  BY <2>1 DEF Shape
<1>2. QED  BY <1>1, ScriptInvariance, PTL DEF Spec, NothingLeftBehind
===============================================================================
