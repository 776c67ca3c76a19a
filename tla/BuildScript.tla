------------------------------ MODULE BuildScript ------------------------------
(***************************************************************************)
(* Runs of build.sh over one checkout, with the converter wrapper it calls *)
(* (cmd/filtrite and Convert of internal/ruleset/ruleset.go) step by step. *)
(* A run fails wherever a command of it fails (set -e), or is killed with  *)
(* its children; the next one starts from what it left. Between runs the   *)
(* user may run filtrite by hand, or remove the converter to refresh it.   *)
(*                                                                         *)
(* The builder appears by what BuilderRun!SuccessIsComplete promises: when *)
(* it succeeds, list and summary are those of this run.                    *)
(***************************************************************************)
EXTENDS Integers, Sequences

CONSTANTS NumLists,  \* manifests in lists/
          MaxRuns    \* runs of build.sh (a bound)

Lists == 1..NumLists
Helpers == {"legacy-filter-builder", "filtrite"}

ASSUME ScriptAssumption == NumLists \in Nat \ {0} /\ MaxRuns \in Nat

VARIABLES run,        \* number of the current or last run
          pc,         \* where the process in the foreground is, or "idle"
          exit,       \* how the last run ended
          caller,     \* who has called filtrite: "script" or "hand"
          list,       \* the manifest it is at
          converter,  \* deps/ruleset_converter; "torn" is cut off but executable
          archive,    \* the temporary archive exists
          going,      \* go builds under way
          broken,     \* one of them has failed: build_status
          built,      \* built[h]: the run that built helper h, or 0
          filters,    \* filters[l]: the run that built the list of l, or 0
          dat,        \* dat[l]: dist/l.dat, and the script's run that made it
          temp,       \* Convert's temporary output
          child,      \* the converter process
          cancelled,  \* Convert's context is done
          lines       \* release-summary.md

vars == <<run, pc, exit, caller, list, converter, archive, going, broken, built,
          filters, dat, temp, child, cancelled, lines>>

depsVars == <<converter, archive>>
goVars == <<going, broken, built>>
convertVars == <<temp, child, cancelled>>

NoDat == [run |-> 0, holds |-> "nothing"]
Runnable == converter \in {"whole", "torn"}

Init == /\ run = 0 /\ pc = "idle" /\ exit = "none" /\ caller = "script" /\ list = 1
        /\ converter \in {"none", "partial", "whole"} /\ archive = FALSE
        /\ going = {} /\ broken = FALSE /\ built = [h \in Helpers |-> 0]
        /\ filters = [l \in Lists |-> 0] /\ dat = [l \in Lists |-> NoDat]
        /\ temp = "none" /\ child = "none" /\ cancelled = FALSE
        /\ lines = <<>>

-------------------------------------------------------------------------------
(* Up to the loop                                                          *)

Exit(how) == pc' = "idle" /\ exit' = how

ScriptStarts ==
  /\ pc = "idle" /\ run < MaxRuns
  /\ run' = run + 1 /\ pc' = "preflight" /\ exit' = "none" /\ caller' = "script"
  /\ UNCHANGED <<list, depsVars, goVars, filters, dat, convertVars, lines>>

PreflightFails ==
  /\ pc = "preflight" /\ Exit("failed")
  /\ UNCHANGED <<run, caller, list, depsVars, goVars, filters, dat, convertVars, lines>>

\* rm -rf filters dist build/work build/source-cache, and mkdir.
ClearOutputs ==
  /\ pc = "preflight" /\ pc' = "truncate"
  /\ filters' = [l \in Lists |-> 0]
  /\ dat' = [l \in Lists |-> NoDat]
  /\ UNCHANGED <<run, exit, caller, list, depsVars, goVars, convertVars, lines>>

\* Faulty variant: >> instead of >.
SummaryKept ==
  /\ pc = "truncate" /\ pc' = (IF Runnable THEN "compile" ELSE "fetch")
  /\ UNCHANGED <<run, exit, caller, list, depsVars, goVars, filters, dat, convertVars, lines>>

\* : > build/release-summary.md
TruncateSummary ==
  /\ pc = "truncate" /\ pc' = (IF Runnable THEN "compile" ELSE "fetch")
  /\ lines' = <<>>
  /\ UNCHANGED <<run, exit, caller, list, depsVars, goVars, filters, dat, convertVars>>

\* curl and sha256sum have succeeded on the file mktemp made.
Fetched ==
  /\ pc = "fetch" /\ pc' = "unpack"
  /\ archive' = TRUE
  /\ UNCHANGED <<run, exit, caller, list, converter, goVars, filters, dat, convertVars, lines>>

\* unzip replaces what is there by a file it fills, then gives it its mode.
Unpacks ==
  /\ pc = "unpack" /\ pc' = "unpacking"
  /\ converter' = "partial"
  /\ UNCHANGED <<run, exit, caller, list, archive, goVars, filters, dat, convertVars, lines>>

\* The file is complete; chmod, and the archive is removed.
Unpacked ==
  /\ pc = "unpacking" /\ pc' = "compile"
  /\ converter' = "whole" /\ archive' = FALSE
  /\ UNCHANGED <<run, exit, caller, list, goVars, filters, dat, convertVars, lines>>

\* The EXIT trap removes the archive. A full disk ends unzip in the middle, and
\* it gives the cut-off file the mode of the archive all the same.
FetchFails ==
  /\ pc \in {"fetch", "unpack", "unpacking"} /\ Exit("failed")
  /\ archive' = FALSE
  /\ converter' \in IF pc = "unpacking" THEN {"partial", "torn"} ELSE {converter}
  /\ UNCHANGED <<run, caller, list, goVars, filters, dat, convertVars, lines>>

\* go build twice, in the background.
Compile ==
  /\ pc = "compile" /\ pc' = "wait"
  /\ going' = Helpers /\ broken' = FALSE
  /\ UNCHANGED <<run, exit, caller, list, depsVars, built, filters, dat, convertVars, lines>>

BuildEnds(h) ==
  /\ h \in going /\ going' = going \ {h}
  /\ \/ built' = [built EXCEPT ![h] = run] /\ UNCHANGED broken
     \/ broken' = TRUE /\ UNCHANGED built
  /\ UNCHANGED <<run, pc, exit, caller, list, depsVars, filters, dat, convertVars, lines>>

\* Faulty variant: the first failure ends the script.
WaitedForOne == going = {} \/ broken

\* Each PID is waited for, whatever the others returned.
Waited == going = {}

BothBuilt ==
  /\ pc = "wait" /\ Waited /\ ~broken
  /\ pc' = "build" /\ list' = 1
  /\ UNCHANGED <<run, exit, caller, depsVars, goVars, filters, dat, convertVars, lines>>

NotBuilt ==
  /\ pc = "wait" /\ Waited /\ broken /\ Exit("failed")
  /\ UNCHANGED <<run, caller, list, depsVars, goVars, filters, dat, convertVars, lines>>

-------------------------------------------------------------------------------
(* One manifest                                                            *)

\* legacy-filter-builder and validate.sh have succeeded, filtrite starts.
ListBuilt ==
  /\ pc = "build" /\ list \in Lists
  /\ filters' = [filters EXCEPT ![list] = run]
  /\ pc' = "check" /\ cancelled' = FALSE
  /\ UNCHANGED <<run, exit, caller, list, depsVars, goVars, dat, temp, child, lines>>

\* The builder fails before or after it has replaced the list, or the list is
\* not valid.
ListFails ==
  /\ pc = "build" /\ list \in Lists /\ Exit("failed")
  /\ filters' \in {filters, [filters EXCEPT ![list] = run]}
  /\ UNCHANGED <<run, caller, list, depsVars, goVars, dat, convertVars, lines>>

\* filtrite is back, with or without an error.
Returns(ok) == IF caller = "hand" THEN pc' = "idle" /\ UNCHANGED exit
               ELSE IF ok THEN pc' = "size" /\ UNCHANGED exit
               ELSE Exit("failed")

\* The size check, and the line of the summary.
SizeFits ==
  /\ pc = "size" /\ dat[list].holds = "fits"
  /\ lines' = Append(lines, [list |-> list, run |-> run])
  /\ list' = list + 1 /\ pc' = "build"
  /\ UNCHANGED <<run, exit, caller, depsVars, goVars, filters, dat, convertVars>>

SizeExceeds ==
  /\ pc = "size" /\ dat[list].holds = "big"
  /\ dat' = [dat EXCEPT ![list] = NoDat]
  /\ Exit("failed")
  /\ UNCHANGED <<run, caller, list, depsVars, goVars, filters, convertVars, lines>>

AllBuilt ==
  /\ pc = "build" /\ list \notin Lists /\ Exit("ok")
  /\ UNCHANGED <<run, caller, list, depsVars, goVars, filters, dat, convertVars, lines>>

-------------------------------------------------------------------------------
(* Convert                                                                 *)

Converting == pc \in {"check", "log", "run"}

\* The timeout of filtrite has passed, or a signal has reached it.
Cancel ==
  /\ Converting /\ ~cancelled
  /\ cancelled' = TRUE
  /\ UNCHANGED <<run, pc, exit, caller, list, depsVars, goVars, filters, dat, temp, child, lines>>

\* The arguments, the context, LookPath, the alias checks, CreateTemp.
OpenTemp ==
  /\ pc = "check" /\ ~cancelled /\ Runnable /\ filters[list] # 0
  /\ pc' = "log" /\ temp' = "empty"
  /\ UNCHANGED <<run, exit, caller, list, depsVars, goVars, filters, dat, child, cancelled, lines>>

\* The log is created, and cmd.Run starts the child unless the context is done
\* or the file is no program.
StartChild ==
  /\ pc = "log" /\ pc' = "run"
  /\ child' = IF cancelled \/ converter = "torn" THEN "failed" ELSE "running"
  /\ UNCHANGED <<run, exit, caller, list, depsVars, goVars, filters, dat, temp, cancelled, lines>>

ChildWrites ==
  /\ child = "running" /\ temp = "empty"
  /\ temp' = "part"
  /\ UNCHANGED <<run, pc, exit, caller, list, depsVars, goVars, filters, dat, child, cancelled, lines>>

\* The ruleset is complete, or there is nothing in it.
ChildExits ==
  /\ child = "running" /\ child' = "ok"
  /\ temp' \in IF temp = "empty" THEN {"empty"} ELSE {"fits", "big"}
  /\ UNCHANGED <<run, pc, exit, caller, list, depsVars, goVars, filters, dat, cancelled, lines>>

ChildFails ==
  /\ child = "running" /\ child' = "failed"
  /\ UNCHANGED <<run, pc, exit, caller, list, depsVars, goVars, filters, dat, temp, cancelled, lines>>

\* Faulty variant: exec.Command, which knows no context.
ContextIgnored == FALSE /\ UNCHANGED vars

\* exec.CommandContext.
KillChild ==
  /\ child = "running" /\ cancelled
  /\ child' = "failed"
  /\ UNCHANGED <<run, pc, exit, caller, list, depsVars, goVars, filters, dat, temp, cancelled, lines>>

\* Faulty variant: an output that is not empty has to do.
RunOver == child \in {"ok", "failed"}

\* cmd.Run returns nil, also when the context is done just after the child.
RunSucceeds == child = "ok"

\* Stat, Chmod and Rename.
Publish ==
  /\ pc = "run" /\ RunSucceeds /\ temp # "empty"
  /\ dat' = [dat EXCEPT ![list] = [run |-> IF caller = "hand" THEN 0 ELSE run, holds |-> temp]]
  /\ temp' = "none" /\ child' = "none"
  /\ Returns(TRUE)
  /\ UNCHANGED <<run, caller, list, depsVars, goVars, filters, cancelled, lines>>

\* Any early return; the deferred call removes the temporary file.
ConvertFails ==
  /\ Converting /\ child # "running"
  /\ temp' = "none" /\ child' = "none"
  /\ Returns(FALSE)
  /\ UNCHANGED <<run, caller, list, depsVars, goVars, filters, dat, cancelled, lines>>

-------------------------------------------------------------------------------
(* Others                                                                  *)

\* The script is killed with its children. A temporary file of Convert has a
\* name of its own, which nobody reads.
Killed ==
  /\ pc # "idle" /\ pc' = "idle"
  /\ exit' = IF caller = "hand" THEN exit ELSE "killed"
  /\ going' = {} /\ temp' = "none" /\ child' = "none" /\ archive' = FALSE
  /\ UNCHANGED <<run, caller, list, converter, broken, built, filters, dat, cancelled, lines>>

\* filtrite is run by hand, as the README of the repository shows.
ByHand(l) ==
  /\ pc = "idle" /\ built["filtrite"] # 0
  /\ pc' = "check" /\ caller' = "hand" /\ list' = l /\ cancelled' = FALSE
  /\ UNCHANGED <<run, exit, depsVars, goVars, filters, dat, temp, child, lines>>

\* "Delete the binary to force a refresh" (README.md:141).
RemoveConverter ==
  /\ pc = "idle" /\ converter # "none"
  /\ converter' = "none"
  /\ UNCHANGED <<run, pc, exit, caller, list, archive, goVars, filters, dat, convertVars, lines>>

Script == \/ PreflightFails \/ ClearOutputs \/ TruncateSummary
          \/ Fetched \/ Unpacks \/ Unpacked \/ FetchFails
          \/ Compile \/ (\E h \in Helpers : BuildEnds(h)) \/ BothBuilt \/ NotBuilt
          \/ ListBuilt \/ ListFails \/ SizeFits \/ SizeExceeds \/ AllBuilt

Convert == OpenTemp \/ StartChild \/ KillChild \/ Publish \/ ConvertFails

Child == ChildWrites \/ ChildExits \/ ChildFails

Finished == pc = "idle" /\ run = MaxRuns /\ UNCHANGED vars

Next == \/ ScriptStarts \/ Script \/ Convert \/ Cancel \/ Child \/ Killed
        \/ (\E l \in Lists : ByHand(l)) \/ RemoveConverter \/ Finished

Spec == Init /\ [][Next]_vars

\* Every command ends, but the converter, which may hang; the timer of filtrite
\* does fire.
FairSpec == Spec /\ WF_vars(Script) /\ WF_vars(Convert) /\ WF_vars(Cancel)

-------------------------------------------------------------------------------
(* Properties                                                              *)

\* Every variable has its type.
TypeOK ==
  /\ run \in 0..MaxRuns /\ list \in 1..(NumLists + 1)
  /\ pc \in {"idle", "preflight", "truncate", "fetch", "unpack", "unpacking", "compile",
             "wait", "build", "check", "log", "run", "size"}
  /\ exit \in {"none", "ok", "failed", "killed"} /\ caller \in {"script", "hand"}
  /\ converter \in {"none", "partial", "torn", "whole"} /\ archive \in BOOLEAN
  /\ going \subseteq Helpers /\ broken \in BOOLEAN /\ built \in [Helpers -> 0..run]
  /\ filters \in [Lists -> 0..run]
  /\ dat \in [Lists -> [run : 0..run, holds : {"nothing", "part", "fits", "big"}]]
  /\ temp \in {"none", "empty", "part", "fits", "big"}
  /\ child \in {"none", "running", "ok", "failed"} /\ cancelled \in BOOLEAN
  /\ lines \in Seq([list : Lists, run : 1..MaxRuns])

\* dist never holds part of a ruleset, whatever fails, hangs or is killed, nor,
\* once the script has ended by itself, one of its own over the limit
\* (build.sh:425-437, ruleset.go:143-174).
RulesetsWhole ==
  \A l \in Lists : /\ dat[l].holds # "part"
                   /\ exit \in {"ok", "failed"} /\ run > 0 /\ dat[l].run = run
                      => dat[l].holds = "fits"

\* Types, and dist holds whole rulesets only.
Inv == TypeOK /\ RulesetsWhole

\* The summary, the text of the release, names a ruleset of this run only when
\* it lies in dist and fits; after a run that succeeded it names each manifest once,
\* with nothing of a run before it that was killed or failed (build.sh:303-308, 439-454).
SummaryMatchesRelease ==
  caller = "script" =>
    /\ \A i \in DOMAIN lines : lines[i].run = run =>
         dat[lines[i].list] = [run |-> run, holds |-> "fits"]
    /\ exit = "ok" => lines = [i \in Lists |-> [list |-> i, run |-> run]]

\* When the script or filtrite returns, no process of it runs on and writes to the
\* helpers or to dist, and its temporary files are gone, whichever of two
\* builds failed first (build.sh:356-361, ruleset.go:128-156).
NothingLeftBehind ==
  [][pc # "idle" /\ pc' = "idle" =>
       going' = {} /\ child' = "none" /\ temp' = "none" /\ ~archive']_vars

\* A converter that hangs is cut off: the script ends (main.go:30-39 of filtrite).
ScriptEnds == pc # "idle" ~> pc = "idle"
===============================================================================
