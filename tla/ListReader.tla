------------------------------- MODULE ListReader -------------------------------
(***************************************************************************)
(* ReadFileToSink of internal/filter/filter.go: one input file is read     *)
(* line by line, accepted rules go to the sink (the sorter's Add, which    *)
(* guards bare domains), rejected ones to a buffered report that a         *)
(* deferred function flushes and closes. With Faults, reads, the sink and  *)
(* writes of the report may fail at any line.                              *)
(***************************************************************************)
EXTENDS RuleLines

CONSTANTS Lines,  \* Lines[n]: the lines the file may have as its n-th
          Faults  \* TRUE when I/O may fail

\* A sequence, of any length, and so is every line, of any tokens.
ASSUME LinesAssumption == /\ Len(Lines) \in Nat /\ DOMAIN Lines = 1..Len(Lines)
                          /\ \A n \in DOMAIN Lines : \A line \in Lines[n] : line \in Seq(ToSet(line))

VARIABLES pc,      \* where ReadFileToSink is
          file,    \* the lines read so far, as they stand in the file
          stats,   \* Stats
          report,  \* the records written to the buffered report
          onDisk,  \* how many of them are in the file
          sunk,    \* the rules the sink has taken
          err,     \* returnErr, "" for nil
          broken   \* a write of the report has failed (history)

vars == <<pc, file, stats, report, onDisk, sunk, err, broken>>

Init == /\ pc = "opening"
        /\ file = <<>>
        /\ stats = [read |-> 0, rejected |-> 0, byReason |-> [r \in Reasons |-> 0]]
        /\ report = <<>> /\ onDisk = 0
        /\ sunk = <<>>
        /\ err = "" /\ broken = FALSE

Open == pc = "opening" /\ pc' = "reading" /\ UNCHANGED <<file, stats, report, onDisk, sunk, err, broken>>

\* The input, the report's directory or the report cannot be opened.
OpenFails == /\ pc = "opening" /\ Faults
             /\ pc' = "returned" /\ err' = "open"
             /\ UNCHANGED <<file, stats, report, onDisk, sunk, broken>>

\* A byte order mark is ignorable at the start of the file only.
Raw(n, line) == IF n = 1 /\ line # <<>> /\ Head(line) = "BOM" THEN Tail(line) ELSE line
RawLine(line) == Raw(Len(file) + 1, line)

\* Blank after TrimSpace, or a comment.
Skipped(raw) == LET n == SelectInSeq(raw, LAMBDA t : t \notin {" "})
                IN  IF n = 0 THEN TRUE ELSE raw[n] = "!"

SkipLine == /\ stats' = [stats EXCEPT !.read = @ + 1]
            /\ UNCHANGED <<pc, report, onDisk, sunk, err, broken>>

CountRejected(reason) ==
  stats' = [stats EXCEPT !.read = @ + 1, !.rejected = @ + 1, !.byReason[reason] = @ + 1]

\* The record goes to the buffer, which may be flushed at any write.
RejectLine(r) ==
  /\ ~r.ok
  /\ CountRejected(r.reason)
  /\ report' = Append(report, <<stats.read + 1, r.reason>>)
  /\ onDisk' \in {onDisk, Len(report')}
  /\ UNCHANGED <<pc, sunk, err, broken>>

\* The buffer is full and cannot be written; bufio keeps the error.
ReportFails(r) ==
  /\ ~r.ok /\ Faults
  /\ CountRejected(r.reason)
  /\ pc' = "closing" /\ err' = "report" /\ broken' = TRUE
  /\ UNCHANGED <<report, onDisk, sunk>>

SinkLine(r) ==
  /\ r.ok
  /\ stats' = [stats EXCEPT !.read = @ + 1]
  /\ sunk' = Append(sunk, optimizeRule(r.rule))
  /\ UNCHANGED <<pc, report, onDisk, err, broken>>

SinkFails(r) ==
  /\ r.ok /\ Faults
  /\ stats' = [stats EXCEPT !.read = @ + 1]
  /\ pc' = "closing" /\ err' = "sink"
  /\ UNCHANGED <<report, onDisk, sunk, broken>>

\* A line is longer than maxRuleLineBytes, or the file cannot be read.
ScanFails == /\ pc = "reading" /\ Faults
             /\ pc' = "closing" /\ err' = "scan"
             /\ UNCHANGED <<file, stats, report, onDisk, sunk, broken>>

EndOfFile == /\ pc = "reading"
             /\ pc' = "closing"
             /\ UNCHANGED <<file, stats, report, onDisk, sunk, err, broken>>

\* Faulty variant: the report is flushed on the way to success only.
CloseOnSuccess == /\ pc = "closing" /\ err # "report"
                  /\ pc' = "returned"
                  /\ onDisk' = IF err = "" THEN Len(report) ELSE onDisk
                  /\ UNCHANGED <<file, stats, report, sunk, err, broken>>

\* The deferred Flush and Close.
Close == /\ pc = "closing" /\ err # "report"
         /\ pc' = "returned" /\ onDisk' = Len(report)
         /\ UNCHANGED <<file, stats, report, sunk, err, broken>>

CloseFails == /\ pc = "closing" /\ (Faults \/ err = "report")
              /\ pc' = "returned" /\ err' = IF err = "" THEN "report" ELSE err
              /\ onDisk' \in IF err = "report" THEN {onDisk} ELSE onDisk..Len(report)
              /\ broken' = TRUE
              /\ UNCHANGED <<file, stats, report, sunk>>

Returned == pc = "returned" /\ UNCHANGED vars

\* The scanner returns the next line of the file.
ReadLine(line) ==
  /\ pc = "reading"
  /\ file' = Append(file, line)
  /\ IF Skipped(RawLine(line)) THEN SkipLine
     ELSE \E r \in {normalize(RawLine(line))} :
            RejectLine(r) \/ ReportFails(r) \/ SinkLine(r) \/ SinkFails(r)

Next == \/ Open \/ OpenFails \/ ScanFails \/ EndOfFile \/ Close \/ CloseFails \/ Returned
        \/ \E n \in DOMAIN Lines : n = Len(file) + 1 /\ \E line \in Lines[n] : ReadLine(line)

Spec == Init /\ [][Next]_vars

-------------------------------------------------------------------------------
(* Properties                                                              *)

\* Every variable has its type; a rejected line always has one of the reasons.
TypeOK ==
  /\ pc \in {"opening", "reading", "closing", "returned"}
  /\ Len(file) <= Len(Lines) /\ \A i \in DOMAIN file : file[i] \in Lines[i]
  /\ stats \in [read : Nat, rejected : Nat, byReason : [Reasons -> Nat]]
  /\ \A i \in DOMAIN report : report[i][1] \in DOMAIN file /\ report[i][2] \in Reasons
  /\ onDisk \in 0..Len(report)
  /\ err \in {"", "open", "scan", "report", "sink"} /\ broken \in BOOLEAN

\* The sink has taken a rule, and no step other than a line has followed.
Sunk == pc = "reading" /\ sunk # <<>>

\* No rule reaches the generated list that scripts/validate.sh would refuse: it
\* would abort the release build (filter.go:279-282, 303-305).
EmittedIsValid == Sunk => Accepts(Last(sunk))

\* Reading a generated list again changes no rule of it.
NormalIsFixed ==
  Sunk => LET r == normalize(Last(sunk))
          IN  r.ok /\ optimizeRule(r.rule) = Last(sunk)

\* What a rule says to Chromium, however it is spelled: hosts and domains have no
\* case, options and domains have no order.
Meaning(line) ==
  IF Head(line) \in HostsPrefixes
  THEN [exception |-> FALSE, host |-> <<"|", "|">> \o Lowered(Tail(line)),
        rest |-> <<"^">>, options |-> {}]
  ELSE LET exception == Head(line) = "@@"
           pattern == Before(IF exception THEN Tail(line) ELSE line, {"$"})
           opts == From(line, {"$"})
           host == Before(SubSeq(pattern, 3, Len(pattern)), {"/", "?", "#", "^", "|"})
       IN  [exception |-> exception,
            host |-> SubSeq(pattern, 1, 2) \o Lowered(host),
            rest |-> SubSeq(pattern, 3 + Len(host), Len(pattern)),
            options |-> IF opts = <<>> THEN {}
                        ELSE {LET o == Option(part)
                              IN  [name |-> o.name, negated |-> o.negated,
                                   domains |-> IF o.value = <<>> THEN {}
                                               ELSE ToSet(Entries(Tail(o.value)))]
                                : part \in ToSet(Split(Tail(opts), ","))}]

\* A rule as normalize gets it; every line may be the first of its file.
FirstRaw == Raw(1, file[1])
FirstCounts == pc = "reading" /\ Len(file) = 1 /\ ~Skipped(FirstRaw)

\* An accepted rule still means what the line said (154-313, 365-537); only
\* bare-domain blocks are narrowed, by optimizeRule.
MeaningKept ==
  FirstCounts => LET r == normalize(FirstRaw)
                IN  r.ok => Meaning(r.rule) = Meaning(FirstRaw)

\* Two spellings of one rule become one line, or the sorter would keep both and
\* the list would depend on how its sources spell it (290-296, 493-495).
OneSpelling ==
  Sunk => \A i \in DOMAIN sunk : Meaning(sunk[i]) = Meaning(Last(sunk)) => sunk[i] = Last(sunk)

\* The line with its options in every other order.
Reordered(line) ==
  LET opts == From(line, {"$"})
      parts == Split(Tail(opts), ",")
  IN  IF opts = <<>> THEN {}
      ELSE {Before(line, {"$"}) \o <<"$">> \o Joined([i \in DOMAIN parts |-> parts[p[i]]], ",")
              : p \in Bijection(DOMAIN parts, DOMAIN parts)}

\* Two answers are one, but for the reason of a refusal.
SameRule(r, t) == t.ok = r.ok /\ t.rule = r.rule

\* Whether a rule is accepted, and as what, never depends on the order of its
\* options, although parseModifiers takes them one by one (337-341).
OrderIsIrrelevant ==
  FirstCounts => \A l \in Reordered(FirstRaw) : SameRule(normalize(FirstRaw), normalize(l))

\* Every line is skipped, reported under its number and reason, or stored, and
\* the counters of Stats say how many (75-104).
LinesAccountedFor ==
  pc = "closing" /\ err # "report" =>
    LET skips == {i \in DOMAIN file : Skipped(Raw(i, file[i]))}
        reported == {report[i][1] : i \in DOMAIN report}
    IN  /\ stats.read = Len(file) /\ stats.rejected = Len(report)
        /\ \A r \in Reasons : stats.byReason[r] = Cardinality({i \in DOMAIN report : report[i][2] = r})
        /\ Cardinality(reported) = Len(report) /\ reported \cap skips = {}
        /\ Len(file) = Cardinality(skips) + Len(report) + Len(sunk) + (IF err = "sink" THEN 1 ELSE 0)

\* The report on disk is complete whenever no write of it failed, also when the
\* scan or the sink fails (45-56), and a failed write is never passed over.
ReportComplete ==
  pc = "returned" => /\ ~broken => onDisk = Len(report)
                     /\ broken => err # ""

\* Types, and no line and no record of the report goes missing.
Inv == TypeOK /\ LinesAccountedFor /\ ReportComplete
===============================================================================
