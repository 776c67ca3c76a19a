# A verification project for filtrite

filtrite turns manifests of filter-list URLs into rulesets for Chromium's
subresource filter. This directory holds TLA+ models of the parts of it where
order, concurrency and failure decide whether the result is right, the TLC
configurations that check them on small instances, and proofs, checked by
TLAPS, of what holds for every value of the constants.

Run from this directory:

    tlc -config budget.cfg MCByteBudget.tla     # and so on, see "Runs"
    tlapm ByteBudgetProofs.tla

## 1. Inventory

| Part (source) | State it keeps | Operations | Talks to |
|---|---|---|---|
| Byte budget, `internal/download/download.go` 444-546 | `remaining`, `activeReads`, a condition variable | `chargeCached`, `reserve`, `settle`, `refund`, `budgetReader.Read` | every download goroutine |
| Download pool, `download.go` 150-442 | results, the jobs channel, files at their final names, temporary files | `AllWithCache`, `get`, `getOnce`, `cachedFile`, `htmlError` | server, budget, shared cache directory, caller's context |
| Manifest parsing, `download.go` 65-144 | none | `URLsFromFile` | builder |
| Normalisation, `internal/filter/filter.go`, and the grammar of `scripts/validate.sh` | none; one rejection report per input | `ReadFileToSink`, `normalize`, `optimizeRule` | sorter |
| External sorter, `internal/filter/sorter.go` | batch, list of chunk files, duplicate counter | `Add`, `Finish`, `mergeRound`, `mergeToWriter`, `flushChunk` | scratch directory, output file |
| Builder, `cmd/legacy-filter-builder/main.go` | output, summary, reports, raw and sort directories | `run`, alias preflight, `clearStaleSummary` | all of the above |
| Path resolution, `internal/pathutil/path.go` | none | `Resolve` | builder, converter wrapper |
| Converter wrapper, `internal/ruleset/ruleset.go`, `cmd/filtrite` | `.dat` output, converter log | `Convert` | the external converter |
| Build script, `build.sh` | `filters/`, `dist/`, `build/`, `deps/ruleset_converter`, the release summary | fetch the converter, build the helpers, then one builder, validation, conversion and size check per manifest | builder, wrapper, network |

The builder calls `AllWithCache` once per manifest, streams each snapshot
through `ReadFileToSink` into the sorter, lets the sorter replace the output,
and writes a summary. `build.sh` calls the builder for one manifest after the
other; they share only the cache directory.

What is hard:

* **Concurrency.** Up to eight goroutines reserve bytes from one budget, sleep
  when it is exhausted while some Read is in progress, give back what a Read did
  not use and what a discarded attempt had received. They share the queue, the
  results slice and the destination directory.
* **Failure.** Every attempt may fail at every point; the body may be an HTML
  page, too long or cut off; writes, renames and chunk files may fail; the
  process may be killed and run again over what it left.
* **Timing.** Cancellation may strike at any point, in the backoff and during
  the cache scan too; retries are capped by the caller's deadline.
* **Ordering.** Merge rounds delete the files they have consumed; the summary
  is removed before and written after the list is replaced; facts read in
  preflight are used minutes later; dist is cleared before the release summary
  is truncated.
* **Two readings of one thing.** The validator is a second grammar, in awk, of
  what the normaliser emits; `Resolve` is a second path lookup beside the
  kernel's; options and domains come in any order and case.

What makes each part correct is stated by the properties named in section 4;
`PROJECT.json` lists the hazards, each at its line, with the properties that
would catch it.

## 2. Modules

| Module | Models | Composition |
|---|---|---|
| `BudgetLedger` | what the budget promises: bytes are taken, given back, or published | abstract specification |
| `ByteBudget` | `byteBudget`, `budgetReader.Read` and the streaming part of `getOnce`, for `NumWorkers` goroutines | implements `BudgetLedger` (`Ledger == INSTANCE BudgetLedger WITH ...`) |
| `DownloadPool` | `AllWithCache`, `get`, `getOnce`, `cachedFile`, `htmlError`, successive calls and kills | conjoins the actions of `ByteBudget` (`Budget == INSTANCE ByteBudget`) with what the pool knows of the job |
| `RuleSet` | what the sorter promises: a set that grows and replaces the old list in one step, or never | abstract specification |
| `ExternalSorter` | `sorter.go` and the bare-domain guard `optimizeRule` | implements `RuleSet` (`Promise`) |
| `RuleLines` | `normalize` and what it calls, and the acceptance test of `validate.sh`, as operators over tokens | |
| `Strings` | the functions of Go's `strings` and `slices` that these call: split, join, cut, sort | used by `RuleLines` |
| `ListReader` | `ReadFileToSink`: lines to the sink or the report, with failing I/O | applies `RuleLines` to each line |
| `FileTree` | `pathutil.Resolve`, and the kernel's lookup and file operations on a tree with links | |
| `AliasPreflight` | both alias preflights, and what each tool then does to the tree | over `FileTree` |
| `BuilderRun` | `run` of the builder, over several runs on one build directory | takes from the pool and the sorter what their properties say |
| `BuildScript` | `build.sh` with `Convert` and `filtrite`, over several runs on one checkout | takes from the builder what `SuccessIsComplete` says |
| `Sums` | sums over workers, chunks, calls and tokens | used by the budget, the pool, the sorter and the rules |
| `FoundationProofs` | lemmas about `Sums`, `Strings`, recursive functions and sorting | used by the proofs of five components |
| `ByteBudgetProofs`, `DownloadPoolProofs`, `ExternalSorterProofs`, `ListReaderProofs`, `BuilderRunProofs`, `BuildScriptProofs`, `AliasPreflightProofs` | theorems about the modules they are named after | `DownloadPoolProofs` takes the budget's theorems over by `INSTANCE` |
| `MC...` | instances for TLC | |

Definitions headed "Faulty variant" are mutations of the definition that
follows them. They belong to no specification; replacing the definition by its
variant must break the property listed for it in `PROJECT.json`.

### ByteBudget

One step is what a goroutine does between two points where another can
interfere: one critical section under `byteBudget.mu` (`ReserveBytes`,
`ReserveWaits`, `ReserveRefused`, the `settle` inside `ReadReturns`, `Refund`),
one `Write`, or the checks between `io.Copy` and the rename. `pc[w]` says where
worker `w` is; `"asleep"` is `cond.Wait`, and `Woken` (a Broadcast) sends
sleepers back to the loop head, where they compete for the lock again. `want`
is the reservation of a Read in progress, `got` what has been settled for the
current attempt, `written` the count `io.Copy` returns. They are kept apart
because `settle` charges the first and `refund` gives back the second.
With `DiskFaults`, `WriteChunk` may take only a part of its chunk, or nothing,
and then fails.

The bytes of a body are numbers; its end is one of *more*, *eof* and two kinds
of error, those `retryable` accepts and the others. The LimitReader's
`MaxSource + 1` is there because the oversize check depends on it.

### DownloadPool

`main` is the caller's goroutine (entry, scan, workers, returned), `phase[w]`
is where worker `w` is outside the body, `queue` is `missing` during the scan
and the closed channel after it. `file[u]` abstracts what lies at the final name
of a source: nothing, junk, the whole body, an HTML page, or part of a body.
The server chooses each response; which statuses and transport errors are
transient is its choice too. A call ends as in the code, with a last look at the
context. `CallAgain` is the next manifest on the same cache, or a kill and a
new build; temporary files of a killed process have random names nobody reads,
so the model forgets them.

The `retries` argument and the deadline enter through `EffectiveRetries`. Time
itself is not modelled; `Cancel` may happen at any moment before the return.

### ExternalSorter

Rules are numbers and `<` on them is the order of the strings. `chunk[i]` is
what file `i` was written with, `files` which files exist. The heap of
`mergeToWriter` is the choice of a reader whose next line is least, with all
ties. Faults hit creating, opening, reading, writing and renaming files; the
removals, whose errors the code ignores, succeed. After a failed `Add` the
caller may go on, because nothing in the API forbids it; the builder itself
stops.

`RuleSet` sees the accepted rules, the lines at the output path and whether the
sorter is open, closing, done or failed. That a failed Add may have taken its
rule, that a flush keeps or drops a batch, and that rounds replace files by
files are all stutters to it; publication is one step that nothing can undo.

### RuleLines and ListReader

A line is a sequence of tokens: a word, a punctuation mark, or one of the things
the code looks for as a whole (`"@@"`, `"https://"`, `"0.0.0.0 "`, `"%41"`, a
cosmetic marker). `Word` gives each word its width, its lower-case form, whether
it is numeric and its place in the text order, so that lengths, host case and
domain order are those of the code. `normalize` and the operators under it
follow the functions of the same names, with their early returns; `Accepts`
follows the awk program of `validate.sh` and shares with them only what is one
rule in both (`validDomain`, splitting at separators). `Strings` says what the Go
library does: `Arranged`, a sort, is any arrangement that no pair contradicts, since
`slices.SortFunc` promises no more; that it leaves one choice only is proved. Two of the twelve
resource types, the two activation types and two of the three hosts prefixes are
kept: the code tells the others from these by name alone.

`ListReader` reads a file whose first line is any of some 2100 and whose second
is one of six. `report` is what has been written to the buffered writer,
`onDisk` how much of it is in the file: it may grow at any record, and does when
the deferred function flushes. `sunk` is what the sink has taken, after
`optimizeRule`, which `Add` applies.

### FileTree and AliasPreflight

A tree is a function from the locations that exist to directories, files with
their inodes, and links. `Walk` is the kernel's lookup (one lookup follows at
most `KernelLinks` links); `Resolve` follows the code component by component,
with `resolved`, `unresolved`, `parts` and the count of links of its loop.

`BuilderPreflight` and `WrapperPreflight` are the checks of
`rejectAliasedBuilderPaths` and of `rejectAliasedPaths` with the test of the
log that `Convert` makes after it. A run that passes then makes its effects one
by one, in the code's order: unlink, make directories, clear, write through,
rename over, read. `text[i]` says whose data inode `i` holds, so that a write
that goes through a hard link is seen in the input it destroys. One source
stands for all; its name, and those of its report and of a chunk, are fixed, and
the rules fit one chunk, which `Finish` writes. `before` is the tree as it was at
the start (history: no guard reads it), which the properties compare with.

The preflights compare the places that paths lead to at the start. They do not
look for a path that is named through a link which the run itself removes,
because it lies in `buildDir/sort` or `buildDir/raw`, or because the wrapper's
output replaces it. `LinksStay` says that there is none, or that its path leads
nowhere else without it. `InputsSurvive` (the inputs lie where they did and
nobody has written into them, at every moment of a run) and `ProductsKeptApart`
(a run that ends well leaves every product whole) are stated on this condition.
`PreflightPrevents` says both without it, as the comment on the preflight does,
and is false: finding 4.

### BuilderRun

Every effect of `run` on the disk is a step, in the code's order, and every
early return an alternative to one. `ToRead` contains the custom rules when
`customInfo.Size()`, taken in preflight, was positive; `EditCustom` changes the
file at any time. Writing the summary is two steps, creating the file and filling
it. Only a run with `--summary` is modelled. The alias preflight is one step
that passes or fails here; `AliasPreflight` says what it ensures.

### BuildScript

One action is one command of the script, or one step of `Convert` while
`filtrite` runs. `set -e` makes each command's failure an action that ends the
run (`Exit`). The two `go build` run in the background beside the script. `dat[l]`
is what `dist/l.dat` holds and which run of the script has put it there: nothing,
part of a ruleset (which no step of the model may produce, and
`RulesetsWhole` says so), or a whole one that fits the limit or is too big.
`converter` tells a converter that is not executable yet (`"partial"`) from one
that was cut off by a full disk and is (`"torn"`).

A kill takes the script together with its children, as an interrupt from a
terminal or the end of a CI job does; `Cancel` is the timeout of `filtrite` or a
signal to it alone, which `Convert` handles. Between runs the user may run
`filtrite` by hand on a list, which writes to `dist` without the size check, or
delete the converter. The checks before the clean-up are one step.

## 3. Plan

Done: the modules above; every component with state of its own is modelled, and
the safety properties of the budget, the pool, the sorter, the list reader and
the rules it makes, the builder and the build script are proved, with both
refinements, and so is what path resolution and the preflights show before a
tool starts. What is left, in this order:

1. What a tool may still write to once it has started: `InputsSurvive` and
   `ProductsKeptApart`, whose precondition is `LinksStay`, from
   `StartsAreSeparate`.
2. `Convert` in a module of its own, if its log is ever to be modelled.

## 4. Runs

| Run | Instance | Shows |
|---|---|---|
| `budget` | 3 workers, limit 3, sources up to 2 bytes, buffer 2, cached files up to 4 | `Inv` (the inductive invariant of the proofs), `WithinLimit`, `NoLostWakeup`, `BooksBalance`; `ImplementsLedger` |
| `budget_leak` | 2 workers, failing writes | *violates* `BooksBalance`: finding 1 |
| `pool` | 2 full sources and an oversized one, limit 3, 2 workers, cache of any content, disk faults, 3 retries, deadline 5, timeout 2 | `Inv` (`OneOwner`), `DeliveredWithinLimit`, `CancelIsTotal`, `SuccessHasFile`, `NoTempsLeft`, `AttemptsFitDeadline`; `ResultsFinal` |
| `pool_calls` | 2 sources that use up the limit, two calls on one cache, kills, disk faults, retries, fair | `BudgetInv` (the invariant of the proofs, with failing writes), `CacheClean`; `GoodFilesStay`, `Terminates`, `CancelIsHonoured` |
| `pool_html` | `htmlError` may fail to open its file | *violates* `CacheClean`: finding 3 |
| `pool_spurious` | two sources that do not fit together | *violates* `TooLargeIsDefinitive`: finding 2 |
| `sorter` | up to 7 rules, chunks of 2 bytes, fan-in 2, I/O errors, fair | `Inv` (`ChunksSorted`, `ReadsWhatExists`, `NoScratchLeft`, `BatchBounded`), `OutputIsSortedSet`, `NoRuleLost`; `FinishReturns`, `ImplementsRuleSet` |
| `builder` | 2 sources, custom rules, 2 runs with any options, disk faults, kills | `Inv` (`ScratchDoesNotPileUp`, `NoStaleSnapshots`), `SummaryDescribesOutput`, `ReportsCoverOutput`, `SuccessIsComplete`, `PublishesWhole` |
| `normalize` | 2108 first lines, 6 second ones, I/O errors | `Inv` (`LinesAccountedFor`, `ReportComplete`), `EmittedIsValid`, `NormalIsFixed`, `MeaningKept`, `OneSpelling`, `OrderIsIrrelevant` |
| `paths` | 2466 trees, 84 argument lists of the two tools, 120 paths | `Inv` (`InputsSurvive`), `ResolveAgrees`, `ProductsKeptApart` |
| `paths_links` | a link inside `buildDir/sort` or `buildDir/raw`, outputs and summaries named through it | *violates* `PreflightPrevents`: finding 4 |
| `script` | 2 manifests, 3 runs of the script, kills, hangs, fair | `Inv` (`RulesetsWhole`), `SummaryMatchesRelease`; `NothingLeftBehind`, `ScriptEnds` |

Each module's `Inv` holds its type invariant and the named parts in brackets;
it is one invariant of the run so that every part is checked in every state.

**Bounds.** `MaxCachedBytes`, `MaxCalls`, `MaxAdds`, `MaxRuns` and the sizes are
the only bounds; nothing else grows. The limit is smaller than what the workers
can hold together and the buffer smaller than the limit, so that the balance
runs out in the middle of bodies, with and without Reads in progress; one
source fills its maximum exactly and one exceeds it. With seven rules in chunks of
two bytes and a fan-in of two there are up to seven chunks, three rounds, and
groups shorter than the fan-in. One rule is longer than a chunk, two raw rules
become equal through the bare-domain guard. Two builder runs are a good one and
one that is broken off, or one that is broken off and one that starts from what
it left; with `MaxRuns = 3` (5.0 million states, some two minutes) nothing else
comes up. The pool without a cache differs in `ScanMiss` and in nothing else. In
`pool` (930 thousand states) the three sources outnumber the workers, one that is
too long is among them, and the other two do not fit the limit together, so that
no call finds everything in the cache. In `pool_calls` (113 thousand, each with
its fairness) two sources fit exactly, so that one may; its buffer is a single
byte. The safety properties of both are proved for all of these constants.

The lines of `normalize` are all combinations of an anchor, a host (label and
name lengths at and one beyond their limits, numeric, empty and hyphenated
labels), a rest and the exception mark, and all pairs of 19 options with all
triples of the six that interact. Since normalising knows nothing of other
lines, a second line is there only for what relates two: line numbers, the byte
order mark and spellings. In `paths` any two of ten places, in and beside the
directories the builder owns, hold a directory, one of two files or one of six
links: a link to a link, a loop, a dangling link and a second name of an input
all come up. Another 108 trees have a link inside `raw` or `sort` and something
else beside it, and 26 of the argument lists of `paths` and `paths_links` name outputs
and summaries through such links, back to the sources or to a report. Runs of
`paths` end well under `LinksStay` with links in a directory that is cleared but on no
path, with paths through a link in `raw` that a cache directory spares, and with
paths through links elsewhere; those with a path through a link that is cleared, or
a log through the link that the output replaces, are what `LinksStay` excludes.
`KernelLinks` and `ResolveLinks` stand for 40 and 255. In `script`
three runs are enough for one to start from what a killed one left and to leave
something itself, and two manifests for a failure after a success.

**Fairness.** `DownloadPool`: weak fairness of the caller and of each worker,
which the Go scheduler gives and, for a request or a Read that returns, the
client's `Timeout` (`newClient`); strong fairness of a Read that ends its body,
since a server that trickles for ever is cut off by the same `Timeout` (strong,
because the Reads of a body alternate with reservations and writes).
Cancellation and kills are never fair: `Terminates` and `CancelIsHonoured` are about
calls that nobody kills. `ExternalSorter`: weak fairness of
`Finish` once it merges; no I/O error has to happen for it to return.
`BuildScript`: weak fairness of the script and of `Convert`, whose commands each
end (curl has `--max-time`, the builder a timeout), and of `Cancel`, the timer of
`filtrite`; none of the converter, which may hang.

**Deadlock** is checked in every run; a `Finished` step stutters where the
program has really ended.

## 5. Proofs

### The budget

`ByteBudgetProofs` proves, for any number of workers, any limits and any size of
buffer, under `BudgetAssumption` alone:

* `Invariance`: `Spec => []Inv`;
* from it `TypeCorrect`, `LimitHolds` (`WithinLimit`), `WakeupsNotLost`
  (`NoLostWakeup`) and `ReadsCounted` (`ReadersCounted`, a part of `Inv`);
* with the further assumption `~DiskFaults`, `BooksAlwaysBalance` and
  `BudgetImplementsLedger`. The assumption is needed: see finding 1.

`Inv` is inductive where its parts are not. `WithinLimit` needs to know that
the total of what is left, reserved, held, published and cached never grows
(`Total <= Limit`), and that each term is not negative (`TypeOK`: in particular
the balance, once workers run). That total is preserved by `Refund` because an
attempt never writes more than it received, `Bookkeeping`. `NoLostWakeup`
survives `ReserveWaits` because a counter that is not zero means a Read in
progress, which is `ReadersCounted`, and survives the end of that Read because
`settle` wakes everybody; `ReadersCounted` in turn changes by exactly one worker
per step (`ReadersChange`). `StepCases` splits a step into the actions, and each
conjunct has a lemma of its own (`NextType`, `NextReaders`, `NextWaiters`,
`NextBookkeeping`, `NextNotBeforeStart`, `NextTotal`), combined in `NextInv`.
The sums over workers are recursive functions; `FoundationProofs` shows what
updating one term does to them (`SumUpdate`) and that a term does not exceed the
sum (`SumBoundsTerm`).

### The pool

`DownloadPoolProofs` proves, under `PoolAssumption`, for any number of workers,
sources and calls, any sizes, limits, retries and deadlines, kills and disk
faults included:

* `PoolInvariance`: `Spec => []PoolInv`, and from it
* `PoolCorrect` (`Inv`, with `OneOwner`), `PoolKeepsBudget` (`BudgetInv`),
  `CancellationIsTotal` (`CancelIsTotal`), `TempsRemoved` (`NoTempsLeft`),
  `RetriesFit` (`AttemptsFitDeadline`) and `DeliveriesWithinLimit`
  (`DeliveredWithinLimit`);
* with the further assumption `~OpenFaults`, `SuccessesHaveFiles`
  (`SuccessHasFile`), `CacheStaysClean` (`CacheClean`) and `GoodFilesAreKept`
  (`GoodFilesStay`). The assumption is needed: see finding 3.

The parts of `PoolInv`, and what each is there for:

* the budget's own `Inv`. The pool sees the budget as `Budget == INSTANCE
  ByteBudget`, its theorems come in as `P == INSTANCE ByteBudgetProofs` with the
  same substitution; the lemmas `Same...` identify the two. Every action of the
  pool is a step of the budget, a stutter, or `NewBudget`. The bound on cached
  bytes that the budget asks for is `FilesFit` and `CachedFits`: a file in the
  cache fits `MaxSource`, so `n` hits charge at most `n * MaxSource`;
* `PoolTypes`, and `Roles`: a worker has a source exactly while it works on one,
  streams and keeps a temporary file only in an attempt, and runs only between
  start and join;
* `Ownership`: no source is twice in the queue or with the workers (`Apart`); the
  queue holds what the scan has missed, and while workers run a source has no
  result exactly when it is queued or held (`Awaited`). `OneOwner` is not
  inductive without this equivalence;
* `Outcome`: `"ctx"` results mean a context that is done, and a queue that is
  not empty has a worker left to take from it;
* `Bodies`: an attempt that has read the end of its body has received all of it,
  and one that succeeded has its file in place. With it go `SuccessHasFile` and
  `CacheClean`, kept together under `~OpenFaults`.

For `DeliveredWithinLimit` a further invariant, `Paid`, bounds the bytes of all
sources that are delivered or about to be (`Delivered`) by what the budget has
cached and published (`Spent`): a cache hit and a rename each add a source to the
one and its size to the other, and `Ownership` says that it was not there
before. `Total <= Limit` bounds the rest.

`ResultsAreFinal` (`ResultsFinal`) is an action property: a result is not
replaced once it is written. It rests on `Ownership` (a worker settles only the
source it holds, and that one has no result yet, `SettleIsFirst`) and on the join:
the overwrite of all results by the context's error comes after the workers.

### The sorter

`ExternalSorterProofs` proves under `SorterAssumption` (chunks of at least one
byte, a fan-in of at least two, rules of at least one byte), for any rules,
sizes and number of calls, with or without I/O errors:
`SorterInvariance` (`Spec => []SorterInv`), and from it `SorterIsSound` (`Inv`),
`PublishedIsSortedSet` (`OutputIsSortedSet`), `RulesAreKept` (`NoRuleLost`) and
`SorterKeepsItsPromise` (`Spec => ImplementsRuleSet`). `OutputIsSortedSet` speaks of
the end only; what makes it inductive is a conservation law in two parts:

* `Kept`: the accepted rules are those of the batch and of the chunk files in
  `Pending`, which Finish has still to read, as a set. A round moves files from
  `list` to `next` without adding or losing a rule, because a group's output holds
  exactly what was read of its chunks (`Heads`) and ends when all is read;
* `Counted`: batch, lines still to be read, lines written and duplicates add up to
  the accepted calls. A flush compacts a batch and adds what it dropped to
  `duplicates`; an intermediate round drops nothing; the last one drops or writes
  each line. `Left` is the function that is summed, over chunk files, and
  `SumUpdate` and `SumExtend` say how one step changes the sum.

`Sorted` and the third line of `Heads` (what is written precedes what is not
read yet) give the order of the output. The other parts are about the files:
`Lists` (files are numbered in the order of their creation, and those of `next`
come after those of `list`, so no file is in both), `Filed` (what is to be read
exists), and `BatchFits` (`bytes` and the batch agree, so that Finish
flushes what there is). `Compacted`, which the code computes with `slices.Sort`
and `slices.Compact`, is an increasing sequence with the same members, no longer
than the batch; `CompactedIs` proves that there is one, by induction on the
rules in the first-order form of `NatClosure`.

For the refinement, a step of the sorter is a step of `RuleSet` or a stutter
according to its action; only `Published` changes what lies at the final name,
and `SorterInv` says that it then holds the set.

### The list reader

`ListReaderProofs` proves all that the run `normalize` checks, for files of any
length, any lines of any tokens and any length, and I/O errors anywhere.

*No line goes missing.* `ReaderInvariance` (`Spec => []ReaderInv`) and from it
`ReaderIsSound` (`Inv`: types, `LinesAccountedFor`, `ReportComplete`).
`LinesAccountedFor` speaks of the end of a file; `Accounted` states the same of
every prefix, with the line whose sink failed as the one rule that is neither
sunk nor rejected. Each line then adds one to exactly one of: lines skipped,
records of the report (and one counter), rules sunk (`SkippedAccounted`,
`RejectedAccounted`, `SunkAccounted`, over sets of line numbers). Of `normalize` this
needs only that a rejected line has a reason that the counters know
(`NormalizeReasons`).

*What the rules are like.* The part of `ReaderInv` that matters here is `sunk \in
Seq(SinkRules)`: what is in the sink was made of accepted lines. Everything else is
about the operators of `RuleLines`, and turns on one notion. `NormalForm(rule, x, q,
h, rest, taken)` says that `rule` is an exception mark (if `x`), an anchor `q`, a host
`h` in lower case, a `rest` and the options of the set `taken`, written in their
order. Four facts about it give the theorems:

| Fact | Says | Gives |
|---|---|---|
| `AcceptedIs`, `NarrowedIs` | what `normalize` accepts becomes a rule in normal form, of the same meaning; `optimizeRule` keeps it in that form and leaves no bare domain | `SinkForm`, `RulesKeepMeaning` (`MeaningKept`) |
| `NormalIs` | `normalize` returns a rule in normal form unchanged, and its meaning is its parts | `RulesAreFixed` (`NormalIsFixed`) |
| `NormalAccepted` | the awk program accepts it, unless it is a bare domain | `RulesPassValidation` (`EmittedIsValid`) |
| `NormalOnce` | rules in normal form that mean the same are one line | `RulesSpelledOnce` (`OneSpelling`) |

They rest on lemmas about texts of any length, each an induction in the first-order
form of `NatClosure` or `SequenceClosure`. In `FoundationProofs`: `Joined` undoes
`Split` and the other way round (`SplitIs`, `SplitOfJoined`), a text has one first
and one last separator (`FirstCut`, `LastCut`), a finite set can be sorted by a strict
order and in one way only if the order is total (`ArrangedSorts`, `SortedOnce`). In
`ListReaderProofs`, going up: lower-casing keeps lengths and splits (`SplitLowered`,
`LoweredWidth`); domains are words and dots, in any case (`DomainIs`, `ValidLowered`);
`TextBefore` orders texts (`TextOrders`), and any two that differ (`TextRanks`);
a domain list written out is read back, and is determined by the set of its
entries (`DomainListIs`, `DomainListOnce`); the same of options (`ModifiersRead`,
`ModifiersOnce`); patterns are taken apart where they were put together
(`PatternAccepts`, `PatternAccepted`).

The order of the entries needs the second and third conjunct of `WordAssumption`:
lower-casing a word twice is lower-casing it once and keeps its width, and
`strings.Compare` tells different lower-case words apart. `TokenAssumption` says
that no word is one of the tokens the code looks for, `LinesAssumption` that `Lines`
and the lines in it are sequences. The theorems assume nothing else.

*The order of options.* `OptionsInAnyOrder` is about `parseModifiers`, for options of
any number and with any values: given the same options in another order, its loop
accepts or refuses as before and keeps the same set. The loop compares each
option with those before it; `CanTakeIs` shows that what it asks splits into what an
option must be (`Stands`) and what two options must be to each other
(`StandTogether`), that the latter is symmetric, and `AllFitIs` that therefore only
the pairs count. `RulesInAnyOrder` (`OrderIsIrrelevant`) says it of whole lines:
whether a line is accepted, and as which rule. It does not say that a refused
line is always refused for the same *reason*, and that is not so: of a line
that begins with `/`, the reason is `regex-filter` or another according to whether the
option that happens to be last ends with `/`.

### The builder

`BuilderRunProofs` proves under `BuilderAssumption`, for any number of sources
and runs, all the properties of the run `builder`: `BuilderInvariance`
(`BuilderInv`), `NothingIsMistaken` (`Inv`), `SummariesAreTrue`, `ReportsAreCurrent`,
`SuccessIsTrue` and `ListsAreWhole` (`PublishesWhole`). `BuilderInv` adds to them
what is known at each place of a run: `Progress` (the list is of an earlier run
until `Finishes`, the summary is gone from `clearStaleSummary` until then, and
what the list was made from is `ToRead`, so that counting `ok` when the summary
is written counts the sources of the list), `CustomSeen` (what preflight saw is
still true of a file nobody has touched) and `Reports` (the reports of inputs
taken are whole, that of the input being read is of this run).

### The build script

`BuildScriptProofs` proves under `ScriptAssumption`, for any number of manifests
and runs: `ScriptInvariance` (`ScriptInv`), `RulesetsAreWhole` (`Inv`),
`SummaryIsTrue` (`SummaryMatchesRelease`) and `LeavesNothing`
(`NothingLeftBehind`). `ScriptInv` adds `Shape` (what is under way belongs to the
place the script is at: a child only in `run`, a temporary output only in `log`
and `run`), `Dist` (a ruleset of this run that is too big is the one whose size is
about to be checked) and `Release` (the lines of the summary are those of the
manifests done so far, or all of earlier runs).

### Paths

`AliasPreflightProofs` is about any tree (`TreesAssumption`: every entry lies in a
directory, links have targets), any path, and limits with `KernelLinks <=
ResolveLinks` (`LinkAssumption`; the kernel's 40 and the code's 255).
`ArgumentsAssumption` says that what a tool is given are paths and that optional ones
may be missing.

*The recursions.* `Walk` and `Resolve` only call themselves last, so each is
determined by where it stops and where it goes from a state; `TailRecursion`
constructs such a function whether or not it always ends (`WalkIs`, `ResolveIs`).
That they end is an induction: a step follows one more link, of which there are
boundedly many, or takes a component from the path (`LookupInduction`,
`PathInduction`, from `NatClosure`, since the libraries' induction theorems take
an operator as parameter). Directory by directory, `MkdirAll` and `Clean` recurse
over the length of the path (`StepRecursion`).

*Resolve is right.* `SameLookup` runs both lookups side by side, by `PathInduction`:
as long as the kernel goes on, `Resolve` goes to the same place; where it stops at a
free name, `Resolve` keeps the name as `unresolved`. From it `ResolveFindsPlaces`:
where `Stat` finds a file or a directory, or a name that is free, `Resolve` returns
that place. `ResolveLeavesNoLink` is about all that `Resolve` returns without an
error, also below what does not exist: `Resting` (a directory or file reached
without a link, and names missing below it) holds of every result (`ResultRests`),
is left alone by another `Resolve` (`RestingStays`), and has no link among its
prefixes (`RestingHasNoLink`). `ResolveIsRight` takes both to the specification:
`Spec => []ResolveAgrees`, since no tool has touched the tree while it is idle
(`StaysUntouched`).

*The preflights.* A preflight compares resolved paths, and with `os.SameFile` what
these name. `ApartByResolve` shows that this decides about the paths as they were
given, and `StartsAreSeparate` is the action property that follows: a tool that
starts has no generated path that leads to the place or to the file (by inode)
of an input or of another generated path, and nothing in a directory that it
owns, as the tree is at the start (for the wrapper, no two of its paths are one).
It speaks of paths the kernel finds or could create (`Found`); of the others the
preflight compares names only.

*The tree stays one.* `TypeCorrect` (`Spec => []TypeOK`) needs `TypeInv`: the effects
still to be made write only as one of the roles and clear only clean paths below
the root. Clearing would take the root away if such a path could lead there; that
a lookup that does not follow the last link ends below the root is
`NameIsBelowRoot`, and each file operation has its lemma (`PutKeepsTree`,
`WithDirsKeepsTree`, `ClearKeepsTree`, `UnlinkKeepsTree`). What may be put in place of
something, and where, is what lookups say of what they find (`WalkSound`).

### Only model-checked

* Liveness under fairness, `Terminates`, `CancelIsHonoured`, `FinishReturns` and
  `ScriptEnds`: out of the prover's reach.
* Of `AliasPreflight`, `InputsSurvive` and `ProductsKeptApart`: they speak of the end of a
  run, whose own effects may have changed where its paths lead. The theorems say
  what is true when it starts. Their precondition, `LinksStay`, is more than the
  preflights check; without it neither holds (finding 4).

## 6. Findings

1. `getOnce` refunds the bytes it has *written* (`download.go:415`) where `settle`
   charged the bytes it had *read*; a failing Write loses the difference for the
   rest of the manifest (`budget_leak`). The limit still holds
   (`LimitHolds` assumes nothing about faults).
2. `reserve` refuses when the balance is zero and no Read is in progress
   (`download.go:495-498`), even if another attempt is about to refund all it
   holds; the refused source fails with the error that is never retried
   (`pool_spurious`).
3. `htmlError` treats a file it cannot open as no HTML page
   (`download.go:549-552`), so a page can reach the cache (`pool_html`).

4. The builder's preflight "prevents generated files from overwriting inputs and
   prevents output, summary, and rejected-report paths from colliding"
   (`main.go:238-240`), but it compares what links lead to, and the run removes
   those inside the directories it owns (`main.go:90`, `main.go:140`). In the trace of
   `paths_links` the build directory is `/a` and holds a link `/a/sort/a -> /a`; the sources
   are `a/source`, the output `a/sort/a/b`, the summary `a/sort/a/../../source`. The
   preflight sees `/a/b` and `/source`, apart from everything. The run clears
   `sort`, makes `sort/a` again as a plain directory for the output, writes the
   summary over `a/source` (`main.go:215`), and its last removal of `sort`
   (`main.go:143`) takes the output with it. It ends well. What does hold is
   `InputsSurvive` and `ProductsKeptApart`, when `LinksStay`.

Observed while modelling, with no run of their own:

* A run of the builder that fails in preflight keeps the summary of an earlier
  build, as the README of the repository says. What holds is
  `SummaryDescribesOutput`: a summary is always of the list beside it.
* An *input* that is named through a link inside `buildDir/raw` or
  `buildDir/sort` passes the preflight as well, although the comment at
  `main.go:247-249` says "reject inputs and outputs anywhere under them". The run
  removes the link with the directory and then fails to open the input, which
  itself is untouched.
* `unzip` on a full disk leaves a truncated file and gives it its executable
  mode; the next build finds an executable of positive size (`build.sh:237`) and
  uses it. In the model (`"torn"`) such a converter never yields a ruleset,
  and every build fails until the file is deleted.
* A script killed between the publication of a ruleset and the size check leaves
  it in `dist` until the next run clears it. The summary never names it
  (`SummaryMatchesRelease`).

## 7. Not modelled

URL syntax, redirects, `Retry-After` and transport tuning: pure checks or
settings of the HTTP library. Manifest parsing: the models start from its result.
Wording, logging, `sanitizeReport` and report layout: no property is about them.
The rule and duplicate counters of the summary are covered by the sorter's
`OutputIsSortedSet` only. Removals whose errors the code ignores
(`download.go:320`, `download.go:408`, the sorter's chunk files) always succeed in the
models, so `NoTempsLeft` says nothing of a file system that refuses them. The order
of two texts (`TextBefore`) is that of their ranks, not of their bytes. A failing
`rm` or `mkdir` at `build.sh:304-308` appears only as a kill at that place. A builder
without `--summary` is in `AliasPreflight` only. The limit on the length of a line
is `ScanFails`. The checks of `build.sh` before the clean-up (lines 10-301), which mirror in bash
what `AliasPreflight` checks in Go, are one step. Processes that outlive a killed
script, and others that change links or files while a tool runs, are outside
what the code defends against. The release workflow and the helper tests are not
part of the program.
