---------------------------- MODULE ExternalSorter ----------------------------
(***************************************************************************)
(* The external sorter of internal/filter/sorter.go: rules are batched,    *)
(* each full batch is written as a sorted chunk file, and Finish merges    *)
(* the chunks, at most FanIn at a time, into the output file. With         *)
(* IOFaults every create, open, read, write and rename may fail, removals  *)
(* do not, and a caller may go on after a failed Add.                      *)
(*                                                                         *)
(* A rule is a number, and < on numbers is the order of the strings.       *)
(***************************************************************************)
EXTENDS Integers, Sequences, SequencesExt, Sums

CONSTANTS NumRules,    \* distinct canonical rules
          RawRules,    \* rules as Add receives them
          Canon,       \* optimizeRule: the bare-domain guard
          Bytes,       \* Bytes[r]: length of r and its newline
          ChunkBytes,  \* chunkBytes
          FanIn,       \* maxMergeFanIn
          IOFaults,    \* TRUE when file operations may fail
          MaxAdds      \* calls of Add (a bound)

Rules == 1..NumRules

ASSUME SorterAssumption ==
  /\ NumRules \in Nat
  /\ Canon \in [RawRules -> Rules]
  /\ Bytes \in [Rules -> Nat \ {0}]
  /\ ChunkBytes \in Nat \ {0}
  /\ FanIn \in Nat /\ FanIn >= 2
  /\ IOFaults \in BOOLEAN
  /\ MaxAdds \in Nat

VARIABLES batch,       \* s.rules
          bytes,       \* s.bytes
          duplicates,  \* s.duplicates, then result.Duplicates
          chunk,       \* s.chunks: chunk[i] is what file i was written with
          files,       \* the chunk files that exist
          pc,          \* where the caller is
          list,        \* Finish: `chunks', the files still to be merged
          start,       \* mergeRound: how many of them are merged already
          next,        \* mergeRound: the files that replace them
          pos,         \* mergeToWriter: lines consumed of each file it reads
          merged,      \* mergeToWriter: lines written
          output,      \* the lines of the output file
          added        \* added[r]: how often r was accepted (history)

vars == <<batch, bytes, duplicates, chunk, files, pc, list, start, next, pos,
          merged, output, added>>

fileVars == <<chunk, files>>
mergeVars == <<list, start, next, pos, merged>>

Places == {"adding", "round", "group", "merge", "final", "done", "failed"}

\* What the output path held before: no rule is 0.
Old == <<0>>

Init == /\ batch = <<>> /\ bytes = 0 /\ duplicates = 0
        /\ chunk = <<>> /\ files = {}
        /\ pc = "adding"
        /\ list = <<>> /\ start = 0 /\ next = <<>> /\ pos = <<>> /\ merged = <<>>
        /\ output = Old
        /\ added = [r \in Rules |-> 0]

Increasing(seq) == \A i, j \in DOMAIN seq : i < j => seq[i] < seq[j]

\* slices.Sort, then slices.Compact.
Compacted(rules) == CHOOSE s \in SeqOf(ToSet(rules), Len(rules)) :
                      ToSet(s) = ToSet(rules) /\ Increasing(s)
Collapsed(rules) == Len(rules) - Len(Compacted(rules))

AcceptedSoFar == SumTo(NumRules, added)

-------------------------------------------------------------------------------
(* Add                                                                     *)

\* The rules become chunk file Len(chunk) + 1, the batch is what comes next.
Flushed(rules, rest) ==
  /\ chunk' = Append(chunk, Compacted(rules))
  /\ files' = files \cup {Len(chunk) + 1}
  /\ duplicates' = duplicates + Collapsed(rules)
  /\ batch' = rest

\* Faulty variant: the duplicates are only counted when the flush succeeds.
FlushUncounted(rules) ==
  /\ IOFaults
  /\ batch' = Compacted(rules)
  /\ UNCHANGED <<duplicates, fileVars>>

\* The chunk file could not be created or written and is removed: the batch
\* stays, already sorted and compacted, and the collapsed rules are counted.
FlushFailed(rules) ==
  /\ IOFaults
  /\ batch' = Compacted(rules)
  /\ duplicates' = duplicates + Collapsed(rules)
  /\ UNCHANGED fileVars

Accept(r) == added' = [added EXCEPT ![r] = @ + 1]

Adding == pc = "adding" /\ AcceptedSoFar < MaxAdds
NoRoom(r) == batch # <<>> /\ bytes + Bytes[r] > ChunkBytes
Oversized(r) == Bytes[r] > ChunkBytes

\* The rule fits beside the batch.
AddFits(r) ==
  /\ Adding /\ ~NoRoom(r) /\ ~Oversized(r)
  /\ batch' = Append(batch, r)
  /\ bytes' = bytes + Bytes[r]
  /\ Accept(r)
  /\ UNCHANGED <<duplicates, fileVars, pc, mergeVars, output>>

\* The batch is flushed first and the rule starts the next one.
AddFlushes(r) ==
  /\ Adding /\ NoRoom(r) /\ ~Oversized(r)
  /\ Flushed(batch, <<r>>)
  /\ bytes' = Bytes[r]
  /\ Accept(r)
  /\ UNCHANGED <<pc, mergeVars, output>>

\* The flush before the append fails: the rule is not taken.
AddRefused(r) ==
  /\ Adding /\ NoRoom(r)
  /\ FlushFailed(batch)
  /\ UNCHANGED <<bytes, pc, mergeVars, output, added>>

\* A rule longer than a chunk becomes a chunk of its own, after the batch.
AddOversized(r) ==
  /\ Adding /\ Oversized(r)
  /\ IF batch = <<>>
     THEN /\ Flushed(<<r>>, <<>>)
     ELSE /\ chunk' = chunk \o <<Compacted(batch), <<r>>>>
          /\ files' = files \cup {Len(chunk) + 1, Len(chunk) + 2}
          /\ duplicates' = duplicates + Collapsed(batch)
          /\ batch' = <<>>
  /\ bytes' = 0
  /\ Accept(r)
  /\ UNCHANGED <<pc, mergeVars, output>>

\* Its own flush fails: Add reports an error but has taken the rule.
AddOversizedFails(r) ==
  /\ Adding /\ Oversized(r) /\ IOFaults
  /\ IF batch = <<>>
     THEN UNCHANGED <<duplicates, fileVars>> /\ batch' = <<r>>
     ELSE Flushed(batch, <<r>>)
  /\ bytes' = Bytes[r]
  /\ Accept(r)
  /\ UNCHANGED <<pc, mergeVars, output>>

AddRule(raw) == LET r == Canon[raw]
                IN  \/ AddFits(r) \/ AddFlushes(r) \/ AddRefused(r)
                    \/ AddOversized(r) \/ AddOversizedFails(r)

-------------------------------------------------------------------------------
(* Finish                                                                  *)

\* Every return of Finish runs the deferred removal of all chunk files.
FinishFails == pc' = "failed" /\ files' = {}

\* The last batch is flushed. Without rules there is nothing to publish.
FinishStarts ==
  /\ pc = "adding"
  /\ IF batch = <<>> THEN UNCHANGED <<duplicates, fileVars, batch>>
                     ELSE Flushed(batch, <<>>)
  /\ bytes' = 0
  /\ chunk' # <<>>
  /\ list' = [i \in 1..Len(chunk') |-> i]
  /\ pc' = "round"
  /\ UNCHANGED <<start, next, pos, merged, output, added>>

FinishEmpty ==
  /\ pc = "adding" /\ batch = <<>> /\ chunk = <<>>
  /\ FinishFails
  /\ UNCHANGED <<batch, bytes, duplicates, chunk, mergeVars, output, added>>

\* The last flush fails, or the temporary output cannot be created.
FinishRefused ==
  /\ pc = "adding" /\ IOFaults
  /\ FinishFails
  /\ UNCHANGED <<batch, bytes, duplicates, chunk, mergeVars, output, added>>

\* More files than one pass may open: a round of merges without deduplication.
RoundStarts ==
  /\ pc = "round" /\ Len(list) > FanIn
  /\ pc' = "group" /\ start' = 0 /\ next' = <<>>
  /\ UNCHANGED <<batch, bytes, duplicates, fileVars, list, pos, merged, output, added>>

\* Faulty variant: a group ends one file early.
ReadingShort == IF pc = "final" THEN list
                ELSE SubSeq(list, start + 1, Min({start + FanIn - 1, Len(list)}))

\* The files one merge reads: a group of the round, or in the end all.
Reading == IF pc = "final" THEN list
           ELSE SubSeq(list, start + 1, Min({start + FanIn, Len(list)}))

StartMerge(place) ==
  /\ pc' = place
  /\ pos' = [i \in 1..Len(Reading') |-> 0]
  /\ merged' = <<>>

GroupStarts ==
  /\ pc = "group" /\ start < Len(list)
  /\ UNCHANGED <<list, start>>
  /\ StartMerge("merge")
  /\ UNCHANGED <<batch, bytes, duplicates, fileVars, next, output, added>>

\* Faulty variant: the output itself is opened and truncated.
FinalInPlace ==
  /\ pc = "round" /\ Len(list) <= FanIn
  /\ UNCHANGED <<list, start>>
  /\ StartMerge("final")
  /\ output' = <<>>
  /\ UNCHANGED <<batch, bytes, duplicates, fileVars, next, added>>

FinalStarts ==
  /\ pc = "round" /\ Len(list) <= FanIn
  /\ UNCHANGED <<list, start>>
  /\ StartMerge("final")
  /\ UNCHANGED <<batch, bytes, duplicates, fileVars, next, output, added>>

Merging == pc \in {"merge", "final"} /\ ToSet(Reading) \subseteq files
Unread == {i \in DOMAIN pos : pos[i] < Len(chunk[Reading[i]])}
NextLine(i) == chunk[Reading[i]][pos[i] + 1]

\* The root of the heap: a file whose next line no other file precedes. Only
\* the final merge collapses a line equal to the one written last.
MergeLine(i) ==
  /\ Merging /\ i \in Unread /\ \A j \in Unread : NextLine(i) <= NextLine(j)
  /\ IF pc = "final" /\ merged # <<>> /\ Last(merged) = NextLine(i)
     THEN duplicates' = duplicates + 1 /\ UNCHANGED merged
     ELSE merged' = Append(merged, NextLine(i)) /\ UNCHANGED duplicates
  /\ pos' = [pos EXCEPT ![i] = @ + 1]
  /\ UNCHANGED <<batch, bytes, fileVars, pc, list, start, next, output, added>>

\* The intermediate chunk is complete and replaces the files of its group.
GroupMerged ==
  /\ pc = "merge" /\ Merging /\ Unread = {}
  /\ chunk' = Append(chunk, merged)
  /\ next' = Append(next, Len(chunk) + 1)
  /\ files' = (files \cup {Len(chunk) + 1}) \ ToSet(Reading)
  /\ start' = start + FanIn
  /\ pc' = "group"
  /\ UNCHANGED <<batch, bytes, duplicates, list, pos, merged, output, added>>

\* Faulty variant: the next round gets the files this one has removed.
RoundKeepsList ==
  /\ pc = "group" /\ start >= Len(list)
  /\ pc' = "round"
  /\ UNCHANGED <<batch, bytes, duplicates, fileVars, list, start, next, pos, merged, output, added>>

\* Faulty variant: the round never leaves its loop.
RoundGoesOn ==
  /\ pc = "group" /\ start >= Len(list)
  /\ list' = next
  /\ start' = Len(next)
  /\ UNCHANGED <<batch, bytes, duplicates, fileVars, pc, next, pos, merged, output, added>>

RoundEnds ==
  /\ pc = "group" /\ start >= Len(list)
  /\ list' = next
  /\ pc' = "round"
  /\ UNCHANGED <<batch, bytes, duplicates, fileVars, start, next, pos, merged, output, added>>

\* Flush, Sync, Close, Chmod and Rename all succeed.
Published ==
  /\ pc = "final" /\ Merging /\ Unread = {}
  /\ output' = merged
  /\ pc' = "done" /\ files' = {}
  /\ UNCHANGED <<batch, bytes, duplicates, chunk, mergeVars, added>>

\* A file cannot be opened, read, written or renamed; one that was removed
\* already cannot be opened either.
MergeFails ==
  /\ pc \in {"group", "merge", "final"}
  /\ IOFaults \/ ~(ToSet(Reading) \subseteq files)
  /\ FinishFails
  /\ UNCHANGED <<batch, bytes, duplicates, chunk, mergeVars, output, added>>

Finished == pc \in {"done", "failed"} /\ UNCHANGED vars

Progress == \/ RoundStarts \/ GroupStarts \/ GroupMerged \/ RoundEnds
            \/ FinalStarts \/ Published
            \/ \E i \in DOMAIN pos : MergeLine(i)

Finish == FinishStarts \/ FinishEmpty \/ FinishRefused \/ Progress \/ MergeFails

Next == (\E raw \in RawRules : AddRule(raw)) \/ Finish \/ Finished

Spec == Init /\ [][Next]_vars

\* Finish is sequential code: once called it takes its next step. No I/O error
\* has to happen for it to return.
FairSpec == Spec /\ WF_vars(Progress)

-------------------------------------------------------------------------------
(* Properties                                                              *)

\* Every variable has its type.
TypeOK ==
  /\ batch \in Seq(Rules) /\ bytes \in Nat /\ duplicates \in Nat
  /\ chunk \in Seq(Seq(Rules)) /\ files \subseteq 1..Len(chunk)
  /\ pc \in Places
  /\ list \in Seq(1..Len(chunk)) /\ next \in Seq(1..Len(chunk))
  /\ start \in Nat /\ pos \in Seq(Nat) /\ merged \in Seq(Rules)
  /\ output \in Seq(Rules \cup {0})
  /\ added \in [Rules -> Nat]

Accepted == {r \in Rules : added[r] > 0}

\* The published list holds every accepted rule once, in order, and the two
\* counters of SortResult split the accepted rules exactly (sorter.go:139-158),
\* whatever the sizes, the number of merge rounds and failed flushes before.
OutputIsSortedSet ==
  pc = "done" =>
    /\ ToSet(output) = Accepted
    /\ Increasing(output)
    /\ Len(output) + duplicates = AcceptedSoFar

\* The files that Finish has still to read.
Pending == CASE pc = "adding"             -> 1..Len(chunk)
             [] pc \in {"round", "final"} -> ToSet(list)
             [] OTHER -> ToSet(next) \cup ToSet(SubSeq(list, start + 1, Len(list)))

\* Until the list is published, each accepted rule is in the batch or in a
\* chunk file that still exists and is still to be read (184-219).
NoRuleLost ==
  pc \notin {"done", "failed"} =>
    \A r \in Accepted :
      \/ r \in ToSet(batch)
      \/ \E f \in files \cap Pending : r \in ToSet(chunk[f])

\* Every chunk is sorted, intermediate ones included: the merge relies on it.
ChunksSorted ==
  \A f \in files : \A i, j \in DOMAIN chunk[f] : i < j => chunk[f][i] <= chunk[f][j]

\* No merge ever opens a chunk that an earlier group or round has removed, and
\* without I/O errors Finish fails only when there is no rule (197-216).
ReadsWhatExists ==
  /\ pc \in {"merge", "final"} => ToSet(Reading) \subseteq files
  /\ pc = "failed" /\ ~IOFaults => Accepted = {}

\* When Finish returns, no chunk or intermediate file is left (112-116).
NoScratchLeft == pc \in {"done", "failed"} => files = {}

\* The batch in memory stays within chunkBytes, a lone long rule apart (88-100).
BatchBounded == pc = "adding" /\ bytes > ChunkBytes => Len(batch) = 1

\* Types, and the chunk files are sorted, there when a merge opens them, gone
\* when Finish returns, and written before the batch outgrows its bound.
Inv == TypeOK /\ ChunksSorted /\ ReadsWhatExists /\ NoScratchLeft /\ BatchBounded

\* The sorter implements the abstract one: whatever chunks, rounds and I/O errors
\* there are, the old list is replaced in one step by the sorted set of the accepted
\* rules, after which Finish cannot fail any more, or it stays (131-176).
Promise == INSTANCE RuleSet WITH
             OldList <- Old, rules <- Accepted, list <- output,
             state <- CASE pc = "adding" -> "open"
                        [] pc \in {"done", "failed"} -> pc
                        [] OTHER -> "closing"

ImplementsRuleSet == Promise!Spec

\* Rounds of merges end: Finish returns.
FinishReturns == pc = "round" ~> pc \in {"done", "failed"}
===============================================================================
