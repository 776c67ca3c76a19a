---------------------------- MODULE ListReaderProofs ----------------------------
(***************************************************************************)
(* Proofs about ListReader, for files of any length made of any lines of   *)
(* any length, and I/O errors at any of them. Two things are proved. No    *)
(* line and no record of the report goes missing: for this a rejected line *)
(* only needs a reason to count. And every rule that reaches the sink is   *)
(* in the one form that its meaning can be written in (NormalForm): the    *)
(* host and the domains in lower case, the options and the domains each in *)
(* their order. From that form all else follows: it is accepted by         *)
(* scripts/validate.sh, it is normalized to itself, it means what the line *)
(* meant, and no other rule in that form means the same.                   *)
(***************************************************************************)
EXTENDS ListReader, FoundationProofs

\* What the variables range over, whatever the lines are.
AllLines == UNION {Lines[n] : n \in DOMAIN Lines}
Records == Nat \X Reasons
StatsType == [read : Nat, rejected : Nat, byReason : [Reasons -> Nat]]

\* The lines that are accepted, and what the sink is given for them.
AllRaw == {Raw(n, line) : n \in Nat, line \in AllLines}
Accepted == {raw \in AllRaw : ~Skipped(raw) /\ normalize(raw).ok}
SinkRules == {optimizeRule(normalize(raw).rule) : raw \in Accepted}

Types ==
  /\ file \in Seq(AllLines) /\ report \in Seq(Records) /\ sunk \in Seq(SinkRules)
  /\ TypeOK

Skips(f) == {i \in DOMAIN f : Skipped(Raw(i, f[i]))}
Numbers(records) == {records[i][1] : i \in DOMAIN records}
WithReason(records, r) == {i \in DOMAIN records : records[i][2] = r}

\* t counts one line more than s, rejected for a reason.
CountsRejected(s, t, reason) ==
  /\ t.read = s.read + 1 /\ t.rejected = s.rejected + 1
  /\ \A r \in Reasons : t.byReason[r] = IF r = reason THEN s.byReason[r] + 1 ELSE s.byReason[r]

\* LinesAccountedFor of any file, statistics, report, number of rules sunk and
\* number of rules lost.
Accounts(f, s, records, rules, lost) ==
  /\ s.read = Len(f) /\ s.rejected = Len(records)
  /\ \A r \in Reasons : s.byReason[r] = Cardinality(WithReason(records, r))
  /\ Cardinality(Numbers(records)) = Len(records) /\ Numbers(records) \cap Skips(f) = {}
  /\ Len(f) = Cardinality(Skips(f)) + Len(records) + rules + lost

\* While the file is read nothing has failed and every line is accounted for.
Going == pc \in {"opening", "reading"} => err = "" /\ ~broken
Accounted == pc # "returned" /\ err # "report" =>
               Accounts(file, stats, report, Len(sunk), IF err = "sink" THEN 1 ELSE 0)

\* Nothing is written before the report is open; a failed write is the error.
Fresh == pc = "opening" => report = <<>>
Broken == pc = "closing" => (broken <=> err = "report")

ReaderInv == Types /\ Going /\ Accounted /\ Fresh /\ Broken /\ ReportComplete

-------------------------------------------------------------------------------
(* Reasons                                                                 *)

\* Of a pattern that is refused, only an open host rule has a reason of its own.
LEMMA PatternReasons ==
  ASSUME NEW p, ~Pattern(p).ok
  PROVE  Pattern(p).reason \in {"", "unterminated-host-rule"}
<1>1. ASSUME NEW x, ~DomainPattern(x).ok
      PROVE  DomainPattern(x).reason \in {"", "unterminated-host-rule"}
  BY <1>1 DEF DomainPattern, Rejected, Emitted
<1>2. ASSUME NEW x, ~UrlPattern(x).ok PROVE UrlPattern(x).reason = ""
  BY <1>2 DEF UrlPattern, Rejected, Emitted
<1>3. Rejected("").reason = ""
  BY DEF Rejected
<1>4. QED  BY <1>1, <1>2, <1>3 DEF Pattern

\* A network rule that is refused has a reason.
LEMMA NetworkReasons ==
  ASSUME NEW line, NEW exception, ~normalizeNetwork(line, exception).ok
  PROVE  normalizeNetwork(line, exception).reason \in Reasons
<1>1. ASSUME NEW reason, NEW r, reason \in Reasons, r = Rejected(reason)
      PROVE  r.reason \in Reasons
  BY <1>1 DEF Rejected
<1>2. "unsupported-modifier" \in Reasons /\ FallbackReason(exception) \in Reasons
  BY DEF Reasons, FallbackReason
<1>3. ASSUME NEW r, ~r.ok, r.reason \in {"", "unterminated-host-rule"}
      PROVE  (IF r.reason = "" THEN FallbackReason(exception) ELSE r.reason) \in Reasons
  BY <1>2, <1>3 DEF Reasons
<1>4. ASSUME NEW r PROVE Emitted(r).ok
  BY DEF Emitted
<1>5. QED  BY <1>1, <1>2, <1>3, <1>4, PatternReasons DEF normalizeNetwork

\* A refused line has one of the reasons that Stats counts.
LEMMA NormalizeReasons ==
  ASSUME NEW line, ~normalize(line).ok
  PROVE  normalize(line).reason \in Reasons
<1>1. ASSUME NEW reason, reason \in Reasons PROVE Rejected(reason).reason \in Reasons
  BY <1>1 DEF Rejected
<1>2. ASSUME NEW host, ~HostsEntry(host).ok PROVE HostsEntry(host).reason \in Reasons
  BY <1>2 DEF HostsEntry, Rejected, Emitted, Reasons
<1>3. ASSUME NEW r PROVE Emitted(r).ok
  BY DEF Emitted
<1>4. {"invalid-utf8", "unsupported-cosmetic-scriptlet", "regex-filter", "metadata",
       "unsupported-exception-rule", "non-ascii-or-whitespace"} \subseteq Reasons
  BY DEF Reasons
<1>5. QED  BY <1>1, <1>2, <1>3, <1>4, NetworkReasons DEF normalize, WithMark

-------------------------------------------------------------------------------
(* Tokens                                                                  *)

\* The tokens there are: words, those the code looks for, those of the lines.
Special == Markers \cup Blanks \cup Schemes \cup NotAscii
           \cup {Malformed, "[Adblock", "@@", "$", ",", "~", "=", "|", ".", "/", "?", "#", "^"}
Tok == Words \cup Special \cup {OptionOrder[n] : n \in DOMAIN OptionOrder} \cup {"?"}
       \cup UNION {ToSet(l) : l \in AllLines}

\* Words are words, and what the code looks for is not.
LEMMA TokenFacts ==
  /\ Words \subseteq Tok /\ Special \subseteq Tok
  /\ \A w \in Words : w \notin Special
<1>1. Words \cap Special = {}
  BY TokenAssumption, Zenon DEF Special
<1>2. QED  BY <1>1, Zenon DEF Tok

\* The punctuation that rules are written with.
Marks == {"@@", "$", ",", "~", "=", "|", ".", "/", "?", "#", "^"}

\* The punctuation and the schemes are tokens, and none of them is a word.
LEMMA MarkFacts ==
  /\ Marks \subseteq Tok /\ Marks \cap Words = {}
  /\ Schemes \subseteq Tok /\ Schemes \cap Words = {} /\ Marks \cap Schemes = {}
<1>1. Marks \subseteq Special /\ Schemes \subseteq Special
  BY DEF Marks, Special
<1>2. Marks \cap Schemes = {}
  BY DEF Marks, Schemes
<1>3. QED  BY <1>1, <1>2, TokenFacts

\* The lower-case form of a token.
Low(t) == IF t \in Words THEN Word[t].lower ELSE t

\* It is a token, lower-case itself; a word stays a word like it.
LEMMA LowIs ==
  ASSUME NEW t \in Tok
  PROVE  /\ Low(t) \in Tok /\ Low(Low(t)) = Low(t) /\ (Low(t) \in Words <=> t \in Words)
         /\ t \notin Words => Low(t) = t
         /\ t \in Words => /\ Word[Low(t)].width = Word[t].width
                           /\ Word[Low(t)].numeric = Word[t].numeric
                           /\ Word[Low(t)].hyphenEdge = Word[t].hyphenEdge
<1>1. ASSUME NEW w \in Words
      PROVE  /\ Word[w].lower \in Words /\ Word[Word[w].lower].lower = Word[w].lower
             /\ Word[Word[w].lower].width = Word[w].width
             /\ Word[Word[w].lower].numeric = Word[w].numeric
             /\ Word[Word[w].lower].hyphenEdge = Word[w].hyphenEdge
  BY WordAssumption
<1>2. Words \subseteq Tok
  BY TokenFacts
<1>3. QED  BY <1>1, <1>2 DEF Low

\* Lowered lowers each token.
LEMMA LoweredIs ==
  ASSUME NEW s \in Seq(Tok)
  PROVE  /\ Lowered(s) \in Seq(Tok) /\ Len(Lowered(s)) = Len(s) /\ Len(s) \in Nat
         /\ \A i \in 1..Len(s) : Lowered(s)[i] = Low(s[i])
<1>1. DOMAIN s = 1..Len(s) /\ Len(s) \in Nat
  BY LenProperties
<1>2. Lowered(s) = [i \in 1..Len(s) |-> Low(s[i])]
  BY <1>1 DEF Lowered, Low
<1>3. \A i \in 1..Len(s) : Low(s[i]) \in Tok
  BY LowIs, ElementOfSeq
<1>4. QED  BY <1>1, <1>2, <1>3

\* Lowering twice changes nothing more.
LEMMA LoweredTwice ==
  ASSUME NEW s \in Seq(Tok)
  PROVE  Lowered(Lowered(s)) = Lowered(s)
<1>1. PICK t \in Seq(Tok) : t = Lowered(s)
  BY LoweredIs
<1>2. /\ Len(t) = Len(s) /\ \A i \in 1..Len(s) : t[i] = Low(s[i]) /\ s[i] \in Tok
  BY <1>1, LoweredIs, ElementOfSeq
<1>3. PICK u \in Seq(Tok) : u = Lowered(t)
  BY LoweredIs
<1>4. /\ Len(u) = Len(t) /\ \A i \in 1..Len(t) : u[i] = Low(t[i])
  BY <1>3, LoweredIs
<1>5. \A i \in 1..Len(u) : u[i] = t[i]
  BY <1>2, <1>4, LowIs
<1>6. u = t
  BY <1>2, <1>4, <1>5, SameTokens
<1>7. QED  BY <1>1, <1>3, <1>6

\* Texts are lowered piece by piece ...
LEMMA LoweredConcat ==
  ASSUME NEW a \in Seq(Tok), NEW b \in Seq(Tok)
  PROVE  Lowered(a \o b) = Lowered(a) \o Lowered(b)
<1>1. PICK c \in Seq(Tok) : c = a \o b
  BY ConcatIs
<1>2. /\ Len(a) \in Nat /\ Len(b) \in Nat /\ Len(c) = Len(a) + Len(b)
      /\ \A i \in 1..Len(a) : c[i] = a[i]
      /\ \A i \in 1..Len(b) : c[Len(a) + i] = b[i]
  BY <1>1, ConcatIs
<1>3. PICK la \in Seq(Tok), lb \in Seq(Tok) : la = Lowered(a) /\ lb = Lowered(b)
  BY LoweredIs
<1>4. /\ Len(la) = Len(a) /\ \A i \in 1..Len(a) : la[i] = Low(a[i])
      /\ Len(lb) = Len(b) /\ \A i \in 1..Len(b) : lb[i] = Low(b[i])
  BY <1>3, LoweredIs
<1>5. PICK d \in Seq(Tok) : d = la \o lb
  BY ConcatIs
<1>6. /\ Len(d) = Len(a) + Len(b)
      /\ \A i \in 1..Len(a) : d[i] = la[i]
      /\ \A i \in 1..Len(b) : d[Len(a) + i] = lb[i]
  <2>1. /\ Len(la \o lb) = Len(la) + Len(lb)
        /\ \A i \in 1..Len(la) : (la \o lb)[i] = la[i]
        /\ \A i \in 1..Len(lb) : (la \o lb)[Len(la) + i] = lb[i]
    BY ConcatIs
  <2>2. QED  BY <1>4, <1>5, <2>1
<1>7. PICK e \in Seq(Tok) : e = Lowered(c)
  BY LoweredIs
<1>8. Len(e) = Len(c) /\ \A i \in 1..Len(c) : e[i] = Low(c[i])
  BY <1>7, LoweredIs
<1>9. ASSUME NEW i \in 1..Len(e) PROVE e[i] = d[i]
  <2>1. CASE i <= Len(a)
    <3>1. i \in 1..Len(a) /\ i \in 1..Len(c)
      BY <1>2, <1>8, <1>9, <2>1
    <3>2. QED  BY <1>2, <1>4, <1>6, <1>8, <3>1
  <2>2. CASE i > Len(a)
    <3>1. PICK j \in 1..Len(b) : i = Len(a) + j
      <4>1. i - Len(a) \in 1..Len(b) /\ i = Len(a) + (i - Len(a))
        BY <1>2, <1>8, <1>9, <2>2
      <4>2. QED  BY <4>1
    <3>2. Len(a) + j \in 1..Len(c)
      BY <1>8, <1>9, <3>1
    <3>3. QED  BY <1>2, <1>4, <1>6, <1>8, <3>1, <3>2
  <2>3. QED  BY <1>2, <1>9, <2>1, <2>2
<1>10. e = d
  BY <1>2, <1>6, <1>8, <1>9, SameTokens
<1>11. QED  BY <1>1, <1>3, <1>5, <1>7, <1>10

\* ... a token at a time, and nothing to nothing.
LEMMA LoweredFew ==
  /\ Lowered(<<>>) = <<>>
  /\ \A t \in Tok : Lowered(<<t>>) = <<Low(t)>>
<1>1. Lowered(<<>>) = <<>>
  <2>1. PICK s \in Seq(Tok) : s = <<>>
    BY EmptySeq
  <2>2. Lowered(s) \in Seq(Tok) /\ Len(Lowered(s)) = 0
    BY <2>1, LoweredIs, EmptySeq
  <2>3. QED  BY <2>1, <2>2, EmptySeq
<1>2. ASSUME NEW t \in Tok PROVE Lowered(<<t>>) = <<Low(t)>>
  <2>1. PICK s \in Seq(Tok) : s = <<t>> /\ Len(s) = 1 /\ s[1] = t
    BY OneToken
  <2>2. /\ Lowered(s) \in Seq(Tok) /\ Len(Lowered(s)) = 1
        /\ \A i \in 1..1 : Lowered(s)[i] = Low(s[i])
    BY <2>1, LoweredIs
  <2>3. PICK u \in Seq(Tok) : u = <<Low(t)>> /\ Len(u) = 1 /\ u[1] = Low(t)
    BY LowIs, OneToken
  <2>4. Lowered(s) = u
    BY <2>1, <2>2, <2>3, SameTokens
  <2>5. QED  BY <2>1, <2>3, <2>4
<1>3. QED  BY <1>1, <1>2

\* What is not a word is avoided by a text when its lower-case form avoids it.
LEMMA LoweredAvoids ==
  ASSUME NEW s \in Seq(Tok), NEW seps, seps \cap Words = {}
  PROVE  Avoids(Lowered(s), seps) <=> Avoids(s, seps)
<1>1. /\ Len(Lowered(s)) = Len(s)
      /\ \A i \in 1..Len(s) : Lowered(s)[i] = Low(s[i]) /\ s[i] \in Tok
  BY LoweredIs, ElementOfSeq
<1>2. \A t \in Tok : Low(t) \in seps <=> t \in seps
  BY LowIs
<1>3. QED  BY <1>1, <1>2 DEF Avoids

\* A text has its width in either case.
LEMMA LoweredWidth ==
  ASSUME NEW s \in Seq(Tok)
  PROVE  Width(Lowered(s)) = Width(s) /\ Width(s) \in Nat
<1> DEFINE W(t) == IF t \in Words THEN Word[t].width ELSE 1
<1>1. PICK l \in Seq(Tok) : l = Lowered(s)
  BY LoweredIs
<1>2. /\ Len(l) = Len(s) /\ Len(s) \in Nat
      /\ \A i \in 1..Len(s) : l[i] = Low(s[i]) /\ s[i] \in Tok
  BY <1>1, LoweredIs, ElementOfSeq
<1>3. \A t \in Tok : W(Low(t)) = W(t)
  BY LowIs
<1>4. \A i \in 1..Len(s) : W(l[i]) = W(s[i])
  BY <1>2, <1>3
<1>5. [i \in 1..Len(l) |-> W(l[i])] = [i \in 1..Len(s) |-> W(s[i])]
  BY <1>2, <1>4
<1>6. \A t : W(t) \in Nat
  BY WordAssumption
<1>7. [i \in 1..Len(s) |-> W(s[i])] \in [1..Len(s) -> Nat]
  BY <1>6
<1>8. [i \in 1..Len(s) |-> W(s[i])] \in [1..Len(s) -> Int]
  BY <1>7
<1>9. SumTo(Len(s), [i \in 1..Len(s) |-> W(s[i])]) \in Nat
  BY <1>2, <1>7, <1>8, SumType
<1>10. Width(l) = Width(s)
  BY <1>2, <1>5, Zenon DEF Width
<1>11. Width(s) \in Nat
  BY <1>9, Zenon DEF Width
<1>12. QED  BY <1>1, <1>10, <1>11

\* Parts are lowered one by one, for a separator that has no case.
LoweredParts(parts) == [i \in 1..Len(parts) |-> Lowered(parts[i])]
LoweredJoin(parts, sep) ==
  /\ LoweredParts(parts) \in Seq(Seq(Tok)) /\ Len(LoweredParts(parts)) = Len(parts)
  /\ \A i \in 1..Len(parts) : LoweredParts(parts)[i] = Lowered(parts[i])
  /\ Lowered(Joined(parts, sep)) = Joined(LoweredParts(parts), sep)

\* Lower-casing every part leaves as many.
LEMMA LoweredPartsIs ==
  ASSUME NEW parts \in Seq(Seq(Tok))
  PROVE  /\ LoweredParts(parts) \in Seq(Seq(Tok)) /\ Len(LoweredParts(parts)) = Len(parts)
         /\ Len(parts) \in Nat
         /\ \A i \in 1..Len(parts) : LoweredParts(parts)[i] = Lowered(parts[i])
<1>1. \A i \in 1..Len(parts) : Lowered(parts[i]) \in Seq(Tok)
  BY LoweredIs, ElementOfSeq
<1>2. Len(parts) \in Nat
  BY LenProperties
<1>3. PICK q : q = LoweredParts(parts)
  OBVIOUS
<1>4. q = [i \in 1..Len(parts) |-> Lowered(parts[i])]
  BY <1>3 DEF LoweredParts
<1>5. q \in [1..Len(parts) -> Seq(Tok)]
  BY <1>1, <1>4
<1>6. q \in Seq(Seq(Tok)) /\ Len(q) = Len(parts)
  BY <1>2, <1>5
<1>7. QED  BY <1>2, <1>3, <1>4, <1>6

\* Lower-casing a text or its parts is the same, unless a separator is a word.
LEMMA LoweredJoined ==
  ASSUME NEW parts \in Seq(Seq(Tok)), NEW sep \in Tok, sep \notin Words
  PROVE  LoweredJoin(parts, sep)
<1> DEFINE P == {ps \in Seq(Seq(Tok)) : Lowered(Joined(ps, sep)) = Joined(LoweredParts(ps), sep)}
<1>0. PICK none \in Seq(Tok) : none = <<>>
  BY EmptySeq
<1>1. <<>> \in P
  <2>1. PICK nil \in Seq(Seq(Tok)) : nil = <<>>
    BY EmptySeq
  <2>2. JoinsTo(Tok, sep, nil, none)
    BY JoinedIs
  <2>3. Joined(nil, sep) = none
    BY <1>0, <2>1, <2>2, Zenon DEF JoinsTo
  <2>4. LoweredParts(nil) = nil
    <3>1. LoweredParts(nil) \in Seq(Seq(Tok)) /\ Len(LoweredParts(nil)) = 0
      BY <2>1, LoweredPartsIs, EmptySeq
    <3>2. QED  BY <2>1, <3>1, EmptySeq
  <2>5. Lowered(none) = none
    BY <1>0, LoweredFew
  <2>6. nil \in P
    BY <2>3, <2>4, <2>5
  <2>7. QED  BY <2>1, <2>6
<1>2. ASSUME NEW ps \in P, NEW part \in Seq(Tok) PROVE Append(ps, part) \in P
  <2>1. ps \in Seq(Seq(Tok)) /\ Lowered(Joined(ps, sep)) = Joined(LoweredParts(ps), sep)
    BY <1>2
  <2>2. PICK more \in Seq(Seq(Tok)) : more = Append(ps, part)
    BY <2>1, AppendProperties
  <2>3. PICK lps \in Seq(Seq(Tok)), lpart \in Seq(Tok) :
          lps = LoweredParts(ps) /\ lpart = Lowered(part)
    BY <2>1, LoweredPartsIs, LoweredIs
  <2>4. LoweredParts(more) = Append(lps, lpart)
    <3>1. /\ Len(ps) \in Nat /\ Len(more) = Len(ps) + 1
          /\ \A i \in 1..Len(ps) : more[i] = ps[i]
          /\ more[Len(ps) + 1] = part
      BY <2>1, <2>2, AppendProperties, LenProperties
    <3>2. PICK a \in Seq(Seq(Tok)) : a = LoweredParts(more)
      BY LoweredPartsIs
    <3>3. Len(a) = Len(ps) + 1 /\ \A i \in 1..(Len(ps) + 1) : a[i] = Lowered(more[i])
      BY <3>1, <3>2, LoweredPartsIs
    <3>4. PICK b \in Seq(Seq(Tok)) : b = Append(lps, lpart)
      BY AppendProperties
    <3>5. Len(lps) = Len(ps) /\ \A i \in 1..Len(ps) : lps[i] = Lowered(ps[i])
      BY <2>1, <2>3, LoweredPartsIs
    <3>6. /\ Len(b) = Len(lps) + 1 /\ \A i \in 1..Len(lps) : b[i] = lps[i]
          /\ b[Len(lps) + 1] = lpart
      BY <3>4, AppendProperties, LenProperties
    <3>7. \A i : i \in 1..(Len(ps) + 1) <=> i \in 1..Len(ps) \/ i = Len(ps) + 1
      <4>1. Len(ps) \in Nat
        BY <3>1
      <4>2. QED  BY <4>1
    <3>8. \A i \in 1..Len(a) : a[i] = b[i]
      BY <2>3, <3>1, <3>3, <3>5, <3>6, <3>7, Zenon
    <3>9. a = b
      BY <3>3, <3>5, <3>6, <3>8, SameTokens
    <3>10. QED  BY <3>2, <3>4, <3>9
  <2>5. JoinsTo(Tok, sep, ps, part) /\ JoinsTo(Tok, sep, lps, lpart)
    BY <2>1, JoinedIs
  <2>6. ps = <<>> <=> lps = <<>>
    <3>1. Len(lps) = Len(ps)
      BY <2>1, <2>3, LoweredPartsIs
    <3>2. QED  BY <2>1, <3>1, EmptySeq
  <2>7. Lowered(Joined(more, sep)) = Joined(LoweredParts(more), sep)
    <3>1. CASE ps = <<>>
      BY <2>2, <2>3, <2>4, <2>5, <2>6, <3>1, Zenon DEF JoinsTo
    <3>2. CASE ps # <<>>
      <4>1. /\ Joined(more, sep) = Joined(ps, sep) \o <<sep>> \o part
            /\ Joined(Append(lps, lpart), sep) = Joined(lps, sep) \o <<sep>> \o lpart
            /\ Joined(ps, sep) \in Seq(Tok)
        BY <2>2, <2>5, <2>6, <3>2, Zenon DEF JoinsTo
      <4>2. PICK j \in Seq(Tok) : j = Joined(ps, sep)
        BY <4>1
      <4>3. PICK one \in Seq(Tok) : one = <<sep>> /\ Lowered(one) = one
        <5>1. <<sep>> \in Seq(Tok)
          BY OneToken
        <5>2. Lowered(<<sep>>) = <<Low(sep)>> /\ Low(sep) = sep
          BY LoweredFew, LowIs
        <5>3. QED  BY <5>1, <5>2
      <4>4. j \o one \in Seq(Tok) /\ Lowered(j \o one) = Lowered(j) \o one
        BY <4>3, LoweredConcat, ConcatIs
      <4>5. Lowered((j \o one) \o part) = Lowered(j \o one) \o lpart
        BY <2>3, <4>4, LoweredConcat
      <4>6. Lowered(j) = Joined(lps, sep)
        BY <2>1, <2>3, <4>2
      <4>7. QED  BY <2>4, <4>1, <4>2, <4>3, <4>4, <4>5, <4>6, Zenon
    <3>3. QED  BY <3>1, <3>2
  <2>8. QED  BY <2>2, <2>7
<1>3. P = Seq(Seq(Tok))
  <2> HIDE DEF P
  <2>1. P \in SUBSET Seq(Seq(Tok))
    BY DEF P
  <2>2. QED  BY <1>1, <1>2, <2>1, SequenceClosure
<1>4. parts \in P
  BY <1>3
<1>5. QED  BY <1>4, LoweredPartsIs DEF LoweredJoin

\* The parts of a lowered text are the lowered parts.
LEMMA SplitLowered ==
  ASSUME NEW s \in Seq(Tok), NEW sep \in Tok, sep \notin Words
  PROVE  Split(Lowered(s), sep) = LoweredParts(Split(s, sep))
<1>1. PICK parts \in Seq(Seq(Tok)) :
        parts = Split(s, sep) /\ parts # <<>> /\ AllAvoid(parts, sep) /\ Joined(parts, sep) = s
  BY SplitIs
<1>2. PICK low \in Seq(Seq(Tok)) :
        /\ low = LoweredParts(parts) /\ Len(low) = Len(parts)
        /\ \A i \in 1..Len(parts) : low[i] = Lowered(parts[i])
  BY LoweredPartsIs
<1>3. Lowered(s) = Joined(low, sep)
  <2>1. LoweredJoin(parts, sep)
    BY LoweredJoined
  <2>2. QED  BY <1>1, <1>2, <2>1, Zenon DEF LoweredJoin
<1>4. low # <<>>
  BY <1>1, <1>2, EmptySeq
<1>5. AllAvoid(low, sep)
  <2>1. SUFFICES ASSUME NEW i \in 1..Len(low) PROVE Avoids(low[i], {sep})
    BY DEF AllAvoid
  <2>2. parts[i] \in Seq(Tok) /\ Avoids(parts[i], {sep}) /\ low[i] = Lowered(parts[i])
    BY <1>1, <1>2, ElementOfSeq DEF AllAvoid
  <2>3. {sep} \cap Words = {}
    OBVIOUS
  <2>4. QED  BY <2>2, <2>3, LoweredAvoids
<1>6. Split(Joined(low, sep), sep) = low
  BY <1>4, <1>5, SplitOfJoined
<1>7. QED  BY <1>1, <1>2, <1>3, <1>6

-------------------------------------------------------------------------------
(* Domains                                                                 *)

\* What validDomain asks of the labels.
LabelFits(label) == /\ Len(label) = 1 /\ label[1] \in Words
                    /\ Word[label[1]].width <= MaxLabel /\ ~Word[label[1]].hyphenEdge
LabelsFit(labels) ==
  /\ Len(labels) >= 2 /\ \A i \in 1..Len(labels) : LabelFits(labels[i])
  /\ \E i \in 1..Len(labels) : ~Word[labels[i][1]].numeric

\* validDomain says as much of the text's labels and of its length.
LEMMA ValidIs ==
  ASSUME NEW s \in Seq(Tok)
  PROVE  /\ Split(s, ".") \in Seq(Seq(Tok)) /\ Split(s, ".") # <<>>
         /\ Joined(Split(s, "."), ".") = s
         /\ validDomain(s) <=> Width(s) <= MaxDomain /\ LabelsFit(Split(s, "."))
<1>1. "." \in Tok
  BY MarkFacts DEF Marks
<1>2. /\ Split(s, ".") \in Seq(Seq(Tok)) /\ Split(s, ".") # <<>>
      /\ Joined(Split(s, "."), ".") = s
  BY <1>1, SplitIs
<1>3. DOMAIN Split(s, ".") = 1..Len(Split(s, "."))
  BY <1>2, LenProperties
<1>4. QED  BY <1>2, <1>3 DEF validDomain, LabelsFit, LabelFits

\* None of it depends on case, so a domain is valid in either.
LEMMA ValidLowered ==
  ASSUME NEW s \in Seq(Tok)
  PROVE  validDomain(Lowered(s)) <=> validDomain(s)
<1>1. "." \in Tok /\ "." \notin Words
  BY MarkFacts DEF Marks
<1>2. PICK parts \in Seq(Seq(Tok)) : parts = Split(s, ".")
  BY ValidIs
<1>3. PICK low \in Seq(Seq(Tok)) :
        /\ low = LoweredParts(parts) /\ Len(low) = Len(parts)
        /\ \A i \in 1..Len(parts) : low[i] = Lowered(parts[i])
  BY LoweredPartsIs
<1>4. PICK l \in Seq(Tok) : l = Lowered(s)
  BY LoweredIs
<1>5. Split(l, ".") = low
  BY <1>1, <1>2, <1>3, <1>4, SplitLowered
<1>6. ASSUME NEW label \in Seq(Tok)
      PROVE  /\ LabelFits(Lowered(label)) <=> LabelFits(label)
             /\ LabelFits(label) =>
                  (Word[Lowered(label)[1]].numeric <=> Word[label[1]].numeric)
  <2>1. /\ Len(Lowered(label)) = Len(label)
        /\ \A i \in 1..Len(label) : Lowered(label)[i] = Low(label[i]) /\ label[i] \in Tok
    BY LoweredIs, ElementOfSeq
  <2>2. CASE Len(label) = 1
    <3>1. Lowered(label)[1] = Low(label[1]) /\ label[1] \in Tok
      BY <2>1, <2>2
    <3>2. /\ Low(label[1]) \in Words <=> label[1] \in Words
          /\ label[1] \in Words =>
               /\ Word[Low(label[1])].width = Word[label[1]].width
               /\ Word[Low(label[1])].numeric = Word[label[1]].numeric
               /\ Word[Low(label[1])].hyphenEdge = Word[label[1]].hyphenEdge
      BY <3>1, LowIs
    <3>3. QED  BY <2>1, <2>2, <3>1, <3>2 DEF LabelFits
  <2>3. CASE Len(label) # 1
    BY <2>1, <2>3 DEF LabelFits
  <2>4. QED  BY <2>2, <2>3
<1>7. \A i \in 1..Len(parts) : parts[i] \in Seq(Tok)
  BY ElementOfSeq
<1>8. \A i \in 1..Len(parts) : LabelFits(low[i]) <=> LabelFits(parts[i])
  BY <1>3, <1>6, <1>7
<1>9. LabelsFit(low) <=> LabelsFit(parts)
  <2>1. \A i \in 1..Len(parts) :
          LabelFits(parts[i]) => (Word[low[i][1]].numeric <=> Word[parts[i][1]].numeric)
    BY <1>3, <1>6, <1>7
  <2>2. QED  BY <1>3, <1>8, <2>1, Zenon DEF LabelsFit
<1>10. Width(l) = Width(s)
  BY <1>4, LoweredWidth
<1>11. validDomain(s) <=> Width(s) <= MaxDomain /\ LabelsFit(parts)
  BY <1>2, ValidIs
<1>12. validDomain(l) <=> Width(l) <= MaxDomain /\ LabelsFit(low)
  BY <1>5, ValidIs
<1>13. QED  BY <1>4, <1>9, <1>10, <1>11, <1>12

\* A domain is a word, a dot, a word and so on, with a word at the end.
Alternates(s) ==
  /\ Len(s) >= 1 /\ s[1] \in Words /\ s[Len(s)] \in Words
  /\ \A i \in 1..Len(s) : s[i] \in Words \/ s[i] = "."
  /\ \A i \in 1..(Len(s) - 1) : s[i] \in Words <=> s[i + 1] = "."

\* A domain stays one with a label more.
LEMMA AlternatesMore ==
  ASSUME NEW s \in Seq(Tok), Alternates(s), NEW w \in Words
  PROVE  Alternates(Append(Append(s, "."), w))
<1>1. "." \in Tok /\ "." \notin Words /\ w \in Tok /\ w # "."
  BY MarkFacts, TokenFacts DEF Marks
<1>2. PICK n \in Nat : n = Len(s)
  BY LenProperties
<1>3. PICK a \in Seq(Tok) : a = Append(s, ".")
  BY <1>1, AppendProperties
<1>4. Len(a) = n + 1 /\ (\A i \in 1..n : a[i] = s[i]) /\ a[n + 1] = "."
  BY <1>1, <1>2, <1>3, AppendProperties
<1>5. PICK b \in Seq(Tok) : b = Append(a, w)
  BY <1>1, AppendProperties
<1>6. Len(b) = (n + 1) + 1 /\ (\A i \in 1..(n + 1) : b[i] = a[i]) /\ b[(n + 1) + 1] = w
  BY <1>1, <1>4, <1>5, AppendProperties
<1>7. n >= 1 /\ s[1] \in Words /\ s[n] \in Words
  BY <1>2 DEF Alternates
<1>8. 1 \in 1..n /\ n \in 1..n /\ \A i \in 1..n : i \in 1..(n + 1)
  BY <1>7
<1>9. \A i \in 1..n : b[i] = s[i]
  BY <1>4, <1>6, <1>8
<1>10. n + 1 \in 1..(n + 1)
  OBVIOUS
<1>11. b[n + 1] = "." /\ b[n + 2] = w /\ Len(b) = n + 2
  BY <1>4, <1>6, <1>10
<1>12. ASSUME NEW i \in 1..Len(b) PROVE b[i] \in Words \/ b[i] = "."
  <2>1. i \in 1..n \/ i = n + 1 \/ i = n + 2
    BY <1>11, <1>12
  <2>2. \A j \in 1..n : s[j] \in Words \/ s[j] = "."
    BY <1>2 DEF Alternates
  <2>3. QED  BY <1>9, <1>11, <2>1, <2>2
<1>13. ASSUME NEW i \in 1..(Len(b) - 1) PROVE b[i] \in Words <=> b[i + 1] = "."
  <2>1. i \in 1..(n - 1) \/ i = n \/ i = n + 1
    BY <1>11, <1>13
  <2>2. CASE i \in 1..(n - 1)
    <3>1. i \in 1..n /\ i + 1 \in 1..n
      BY <2>2
    <3>2. s[i] \in Words <=> s[i + 1] = "."
      BY <1>2, <2>2 DEF Alternates
    <3>3. QED  BY <1>9, <3>1, <3>2
  <2>3. CASE i = n
    BY <1>7, <1>8, <1>9, <1>11, <2>3
  <2>4. CASE i = n + 1
    <3>1. i + 1 = n + 2
      BY <2>4
    <3>2. QED  BY <1>1, <1>11, <2>4, <3>1
  <2>5. QED  BY <2>1, <2>2, <2>3, <2>4
<1>14. Len(b) >= 1 /\ b[1] \in Words /\ b[Len(b)] \in Words
  BY <1>7, <1>8, <1>9, <1>11
<1>15. Alternates(b)
  BY <1>12, <1>13, <1>14 DEF Alternates
<1>16. QED  BY <1>3, <1>5, <1>15

\* Labels that fit make a domain of words and dots.
LEMMA WordsAlternate ==
  ASSUME NEW parts \in Seq(Seq(Tok)), parts # <<>>, \A i \in 1..Len(parts) : LabelFits(parts[i])
  PROVE  Alternates(Joined(parts, "."))
<1> DEFINE Fit(ps) == \A i \in 1..Len(ps) : LabelFits(ps[i])
           P == {ps \in Seq(Seq(Tok)) : ps # <<>> /\ Fit(ps) => Alternates(Joined(ps, "."))}
<1>0. "." \in Tok
  BY MarkFacts DEF Marks
<1>1. <<>> \in P
  BY EmptySeq
<1>2. ASSUME NEW ps \in P, NEW part \in Seq(Tok) PROVE Append(ps, part) \in P
  <2>1. ps \in Seq(Seq(Tok)) /\ (ps # <<>> /\ Fit(ps) => Alternates(Joined(ps, ".")))
    BY <1>2
  <2>2. PICK more \in Seq(Seq(Tok)) : more = Append(ps, part)
    BY <2>1, AppendProperties
  <2>3. SUFFICES ASSUME Fit(more) PROVE Alternates(Joined(more, "."))
    BY <2>2
  <2>4. Fit(ps) /\ LabelFits(part)
    <3>1. /\ Len(ps) \in Nat /\ Len(more) = Len(ps) + 1
          /\ \A i \in 1..Len(ps) : more[i] = ps[i]
          /\ more[Len(ps) + 1] = part
      BY <2>1, <2>2, AppendProperties, LenProperties
    <3>2. Len(ps) + 1 \in 1..Len(more) /\ \A i \in 1..Len(ps) : i \in 1..Len(more)
      BY <3>1
    <3>3. QED  BY <2>3, <3>1, <3>2
  <2>5. PICK w \in Words : part = <<w>>
    <3>1. Len(part) = 1 /\ part[1] \in Words
      BY <2>4 DEF LabelFits
    <3>2. PICK w \in Words : w = part[1]
      BY <3>1
    <3>3. PICK one \in Seq(Tok) : one = <<w>> /\ Len(one) = 1 /\ one[1] = w
      BY TokenFacts, OneToken
    <3>4. part = one
      BY <3>1, <3>2, <3>3, SameTokens
    <3>5. QED  BY <3>3, <3>4
  <2>6. JoinsTo(Tok, ".", ps, part)
    BY <1>0, <2>1, JoinedIs
  <2>7. CASE ps = <<>>
    <3>1. Joined(more, ".") = part
      BY <2>2, <2>6, <2>7, Zenon DEF JoinsTo
    <3>2. Alternates(part)
      <4>1. Len(part) = 1 /\ part[1] = w
        BY <2>5
      <4>2. QED  BY <4>1 DEF Alternates
    <3>3. QED  BY <3>1, <3>2
  <2>8. CASE ps # <<>>
    <3>1. Joined(more, ".") = Joined(ps, ".") \o <<".">> \o part /\ Joined(ps, ".") \in Seq(Tok)
      BY <2>2, <2>6, <2>8, Zenon DEF JoinsTo
    <3>2. PICK j \in Seq(Tok) : j = Joined(ps, ".")
      BY <3>1
    <3>3. Alternates(j)
      BY <2>1, <2>4, <2>8, <3>2
    <3>4. PICK x \in Seq(Tok) : x = Append(j, ".") /\ x = j \o <<".">>
      BY <1>0, AppendProperties, AppendIsConcat
    <3>5. Append(x, w) = x \o <<w>>
      BY TokenFacts, AppendIsConcat
    <3>6. Alternates(Append(x, w))
      BY <3>3, <3>4, AlternatesMore
    <3>7. QED  BY <2>5, <3>1, <3>2, <3>4, <3>5, <3>6, Zenon
  <2>9. QED  BY <2>7, <2>8
<1>3. P = Seq(Seq(Tok))
  <2> HIDE DEF P
  <2>1. P \in SUBSET Seq(Seq(Tok))
    BY DEF P
  <2>2. QED  BY <1>1, <1>2, <2>1, SequenceClosure
<1>4. parts \in P
  BY <1>3
<1>5. QED  BY <1>4

\* So a valid domain begins and ends with a word, and holds none of the separators.
LEMMA DomainIs ==
  ASSUME NEW s \in Seq(Tok), validDomain(s)
  PROVE  /\ Alternates(s) /\ s # <<>> /\ Len(s) \in Nat /\ Len(s) >= 1
         /\ \A seps : seps \cap Words = {} /\ "." \notin seps => Avoids(s, seps)
<1>1. PICK parts \in Seq(Seq(Tok)) :
        parts = Split(s, ".") /\ parts # <<>> /\ Joined(parts, ".") = s
  BY ValidIs
<1>2. LabelsFit(parts)
  BY <1>1, ValidIs
<1>3. Alternates(s)
  BY <1>1, <1>2, WordsAlternate DEF LabelsFit
<1>4. Len(s) \in Nat /\ Len(s) >= 1
  BY <1>3, LenProperties DEF Alternates
<1>5. s # <<>>
  BY <1>4, EmptySeq
<1>6. \A seps : seps \cap Words = {} /\ "." \notin seps => Avoids(s, seps)
  BY <1>3, Zenon DEF Alternates, Avoids
<1>7. QED  BY <1>3, <1>4, <1>5, <1>6

\* Texts are ordered strictly ...
LEMMA TextOrders ==
  ASSUME NEW s \in Seq(Tok), NEW t \in Seq(Tok), NEW u \in Seq(Tok)
  PROVE  /\ ~TextBefore(s, s)
         /\ TextBefore(s, t) /\ TextBefore(t, u) => TextBefore(s, u)
<1>1. /\ Len(s) \in Nat /\ Len(t) \in Nat /\ Len(u) \in Nat
      /\ \A w \in Words : Word[w].rank \in Nat
  BY LenProperties, WordAssumption
<1>2. ~TextBefore(s, s)
  BY <1>1 DEF TextBefore
<1>3. ASSUME TextBefore(s, t), TextBefore(t, u) PROVE TextBefore(s, u)
  <2>1. PICK n \in 1..Len(t) :
          /\ \A i \in 1..(n - 1) : s[i] = t[i]
          /\ \/ n = Len(s) + 1
             \/ /\ n <= Len(s) /\ s[n] \in Words /\ t[n] \in Words
                /\ Word[s[n]].rank < Word[t[n]].rank
    BY <1>3 DEF TextBefore
  <2>2. PICK m \in 1..Len(u) :
          /\ \A i \in 1..(m - 1) : t[i] = u[i]
          /\ \/ m = Len(t) + 1
             \/ /\ m <= Len(t) /\ t[m] \in Words /\ u[m] \in Words
                /\ Word[t[m]].rank < Word[u[m]].rank
    BY <1>3 DEF TextBefore
  <2>3. CASE n < m
    <3>1. n \in 1..Len(u) /\ n \in 1..(m - 1) /\ \A i \in 1..(n - 1) : i \in 1..(m - 1)
      BY <1>1, <2>3
    <3>2. t[n] = u[n] /\ \A i \in 1..(n - 1) : s[i] = u[i]
      BY <2>1, <2>2, <3>1
    <3>3. QED  BY <2>1, <3>1, <3>2 DEF TextBefore
  <2>4. CASE m < n
    <3>1. /\ m \in 1..Len(u) /\ m \in 1..(n - 1) /\ m <= Len(t) /\ m # Len(t) + 1
          /\ \A i \in 1..(m - 1) : i \in 1..(n - 1)
      BY <1>1, <2>4
    <3>2. m <= Len(s)
      BY <1>1, <2>1, <2>4
    <3>3. s[m] = t[m] /\ \A i \in 1..(m - 1) : s[i] = u[i]
      BY <2>1, <2>2, <3>1
    <3>4. QED  BY <2>2, <3>1, <3>2, <3>3 DEF TextBefore
  <2>5. CASE n = m
    <3>1. \A i \in 1..(m - 1) : s[i] = u[i]
      BY <2>1, <2>2, <2>5
    <3>2. /\ t[m] \in Words /\ u[m] \in Words
          /\ Word[t[m]].rank < Word[u[m]].rank
      BY <1>1, <2>1, <2>2, <2>5
    <3>3. CASE m = Len(s) + 1
      BY <3>1, <3>3 DEF TextBefore
    <3>4. CASE m # Len(s) + 1
      <4>1. m <= Len(s) /\ s[m] \in Words /\ Word[s[m]].rank < Word[t[m]].rank
        BY <2>1, <2>5, <3>4
      <4>2. Word[s[m]].rank < Word[u[m]].rank
        BY <1>1, <3>2, <4>1
      <4>3. QED  BY <3>1, <3>2, <4>1, <4>2 DEF TextBefore
    <3>5. QED  BY <3>3, <3>4
  <2>6. QED  BY <1>1, <2>3, <2>4, <2>5
<1>4. QED  BY <1>2, <1>3

\* ... and of two domains in lower case that differ, one is first.
LEMMA TextRanks ==
  ASSUME NEW s \in Seq(Tok), NEW t \in Seq(Tok), Alternates(s), Alternates(t),
         Lowered(s) = s, Lowered(t) = t, s # t
  PROVE  TextBefore(s, t) \/ TextBefore(t, s)
<1>1. Len(s) \in Nat /\ Len(t) \in Nat
  BY LenProperties
<1> DEFINE D == {i \in Nat : 1 <= i /\ i <= Len(s) /\ i <= Len(t) /\ s[i] # t[i]}
<1>2. CASE D = {}
  <2>1. \A i \in Nat : 1 <= i /\ i <= Len(s) /\ i <= Len(t) => s[i] = t[i]
    BY <1>2
  <2>2. Len(s) # Len(t)
    <3>1. SUFFICES ASSUME Len(s) = Len(t) PROVE FALSE
      OBVIOUS
    <3>2. \A i \in 1..Len(s) : s[i] = t[i]
      BY <1>1, <2>1, <3>1
    <3>3. QED  BY <3>1, <3>2, SameTokens
  <2>3. CASE Len(s) < Len(t)
    <3>1. Len(s) + 1 \in 1..Len(t) /\ \A i \in 1..((Len(s) + 1) - 1) : s[i] = t[i]
      BY <1>1, <2>1, <2>3
    <3>2. QED  BY <3>1, Zenon DEF TextBefore
  <2>4. CASE Len(t) < Len(s)
    <3>1. Len(t) + 1 \in 1..Len(s) /\ \A i \in 1..((Len(t) + 1) - 1) : t[i] = s[i]
      BY <1>1, <2>1, <2>4
    <3>2. QED  BY <3>1, Zenon DEF TextBefore
  <2>5. QED  BY <1>1, <2>2, <2>3, <2>4
<1>3. CASE D # {}
  <2>1. PICK n \in D : \A y \in D : n <= y
    <3> HIDE DEF D
    <3>1. D \in SUBSET Nat
      BY DEF D
    <3>2. QED  BY <1>3, <3>1, LeastIs
  <2>2. n \in Nat /\ 1 <= n /\ n <= Len(s) /\ n <= Len(t) /\ s[n] # t[n]
    BY <2>1
  <2>3. ASSUME NEW i \in 1..(n - 1) PROVE s[i] = t[i]
    <3>1. i \in Nat /\ 1 <= i /\ i <= Len(s) /\ i <= Len(t) /\ ~(n <= i)
      BY <1>1, <2>2, <2>3
    <3>2. i \notin D
      BY <2>1, <3>1
    <3>3. QED  BY <3>1, <3>2
  <2>4. n \in 1..Len(s) /\ n \in 1..Len(t)
    BY <1>1, <2>2
  <2>5. s[n] \in Words /\ t[n] \in Words
    <3>1. (s[n] \in Words \/ s[n] = ".") /\ (t[n] \in Words \/ t[n] = ".")
      BY <2>4 DEF Alternates
    <3>2. CASE n = 1
      BY <3>2 DEF Alternates
    <3>3. CASE n # 1
      <4>1. /\ n - 1 \in 1..(n - 1) /\ n - 1 \in 1..(Len(s) - 1) /\ n - 1 \in 1..(Len(t) - 1)
            /\ (n - 1) + 1 = n
        BY <1>1, <2>2, <3>3
      <4>2. s[n - 1] = t[n - 1]
        BY <2>3, <4>1
      <4>3. (s[n - 1] \in Words <=> s[n] = ".") /\ (t[n - 1] \in Words <=> t[n] = ".")
        <5>1. \A i \in 1..(Len(s) - 1) : s[i] \in Words <=> s[i + 1] = "."
          BY DEF Alternates
        <5>2. \A i \in 1..(Len(t) - 1) : t[i] \in Words <=> t[i + 1] = "."
          BY DEF Alternates
        <5>3. QED  BY <4>1, <5>1, <5>2
      <4>4. QED  BY <2>2, <3>1, <4>2, <4>3
    <3>4. QED  BY <3>2, <3>3
  <2>6. s[n] = Word[s[n]].lower /\ t[n] = Word[t[n]].lower
    <3>1. s[n] = Low(s[n]) /\ t[n] = Low(t[n])
      BY <2>4, LoweredIs
    <3>2. QED  BY <2>5, <3>1 DEF Low
  <2>7. Word[s[n]].rank # Word[t[n]].rank
    <3>1. s[n] \in {Word[x].lower : x \in Words} /\ t[n] \in {Word[x].lower : x \in Words}
      BY <2>5, <2>6
    <3>2. \A v, w \in {Word[x].lower : x \in Words} : Word[v].rank = Word[w].rank => v = w
      BY WordAssumption
    <3>3. QED  BY <2>2, <3>1, <3>2
  <2>8. Word[s[n]].rank \in Nat /\ Word[t[n]].rank \in Nat
    BY <2>5, WordAssumption
  <2>9. Word[s[n]].rank < Word[t[n]].rank \/ Word[t[n]].rank < Word[s[n]].rank
    BY <2>7, <2>8
  <2>10. CASE Word[s[n]].rank < Word[t[n]].rank
    <3>1. TextBefore(s, t)
      BY <2>2, <2>3, <2>4, <2>5, <2>10 DEF TextBefore
    <3>2. QED  BY <3>1
  <2>11. CASE Word[t[n]].rank < Word[s[n]].rank
    <3>1. TextBefore(t, s)
      BY <2>2, <2>3, <2>4, <2>5, <2>11 DEF TextBefore
    <3>2. QED  BY <3>1
  <2>12. QED  BY <2>9, <2>10, <2>11
<1>4. QED  BY <1>2, <1>3

\* Entries are in lower case.
EntryType == [excluded : BOOLEAN, base : {s \in Seq(Tok) : Lowered(s) = s}]

\* Reading an entry lower-cases it.
LEMMA EntryIs ==
  ASSUME NEW e \in Seq(Tok)
  PROVE  Entry(e) \in EntryType
<1> DEFINE x == e # <<>> /\ Head(e) = "~"
           b == IF x THEN Tail(e) ELSE e
<1>1. b \in Seq(Tok)
  BY FirstAndRest
<1>2. Lowered(b) \in Seq(Tok) /\ Lowered(Lowered(b)) = Lowered(b)
  BY <1>1, LoweredIs, LoweredTwice
<1>3. Entry(e) = [excluded |-> x, base |-> Lowered(b)]
  BY Zenon DEF Entry
<1> HIDE DEF b
<1>4. x \in BOOLEAN
  OBVIOUS
<1> HIDE DEF x
<1>5. QED  BY <1>2, <1>3, <1>4 DEF EntryType

\* Written out, an entry is what it is read from again.
WritesEntry(w, e) ==
  /\ w \in Seq(Tok) /\ w # <<>> /\ Entry(w) = e /\ Lowered(w) = w
  /\ \A seps : seps \cap Words = {} /\ "." \notin seps /\ "~" \notin seps => Avoids(w, seps)

\* WrittenEntry and Entry undo each other for a valid domain.
LEMMA WrittenEntryIs ==
  ASSUME NEW e \in EntryType, validDomain(e.base)
  PROVE  WritesEntry(WrittenEntry(e), e)
<1>1. PICK b \in Seq(Tok) : b = e.base /\ Lowered(b) = b
  BY DEF EntryType
<1>2. /\ b # <<>> /\ b[1] \in Words /\ Len(b) \in Nat
      /\ \A seps : seps \cap Words = {} /\ "." \notin seps => Avoids(b, seps)
  <2>1. validDomain(b)
    BY <1>1
  <2>2. Alternates(b) /\ b # <<>> /\ Len(b) \in Nat
        /\ \A seps : seps \cap Words = {} /\ "." \notin seps => Avoids(b, seps)
    BY <2>1, DomainIs
  <2>3. QED  BY <2>2 DEF Alternates
<1>3. "~" \in Tok /\ "~" \notin Words
  BY MarkFacts DEF Marks
<1>4. /\ e.excluded \in BOOLEAN
      /\ \A x \in BOOLEAN : x = e.excluded => e = [excluded |-> x, base |-> b]
  BY <1>1 DEF EntryType
<1>5. CASE e.excluded
  <2>1. PICK w \in Seq(Tok) :
          w = <<"~">> \o b /\ w # <<>> /\ Head(w) = "~" /\ w[1] = "~" /\ Tail(w) = b
    BY <1>3, InFront
  <2>2. WrittenEntry(e) = w
    BY <1>1, <1>5, <2>1, Zenon DEF WrittenEntry
  <2>3. Entry(w) = [excluded |-> TRUE, base |-> b]
    <3>1. Entry(w) = [excluded |-> w # <<>> /\ Head(w) = "~",
                      base |-> Lowered(IF w # <<>> /\ Head(w) = "~" THEN Tail(w) ELSE w)]
      BY DEF Entry
    <3>2. (w # <<>> /\ Head(w) = "~") = TRUE
      BY <2>1
    <3>3. QED  BY <1>1, <2>1, <3>1, <3>2
  <2>4. Entry(w) = e
    BY <1>4, <1>5, <2>3
  <2>5. Lowered(w) = w
    <3>1. Lowered(<<"~">> \o b) = Lowered(<<"~">>) \o Lowered(b)
      BY <1>3, OneToken, LoweredConcat
    <3>2. Lowered(<<"~">>) = <<"~">>
      BY <1>3, LoweredFew, LowIs
    <3>3. QED  BY <1>1, <2>1, <3>1, <3>2
  <2>6. ASSUME NEW seps, seps \cap Words = {}, "." \notin seps, "~" \notin seps
        PROVE  Avoids(w, seps)
    <3>1. PICK one \in Seq(Tok) : one = <<"~">> /\ Len(one) = 1 /\ one[1] = "~"
      BY <1>3, OneToken
    <3>2. Avoids(one, seps) /\ Avoids(b, seps)
      BY <1>2, <2>6, <3>1 DEF Avoids
    <3>3. Avoids(one \o b, seps)
      BY <3>2, AvoidsConcat
    <3>4. QED  BY <2>1, <3>1, <3>3
  <2>7. QED  BY <2>1, <2>2, <2>4, <2>5, <2>6 DEF WritesEntry
<1>6. CASE ~e.excluded
  <2>1. WrittenEntry(e) = b
    <3>1. <<>> \o b = b
      BY ConcatEmptySeq
    <3>2. QED  BY <1>1, <1>6, <3>1, Zenon DEF WrittenEntry
  <2>2. Head(b) = b[1]
    BY <1>2, FirstAndRest
  <2>3. Entry(b) = [excluded |-> FALSE, base |-> b]
    <3>1. Entry(b) = [excluded |-> b # <<>> /\ Head(b) = "~",
                      base |-> Lowered(IF b # <<>> /\ Head(b) = "~" THEN Tail(b) ELSE b)]
      BY DEF Entry
    <3>2. (b # <<>> /\ Head(b) = "~") = FALSE
      BY <1>2, <1>3, <2>2
    <3>3. QED  BY <1>1, <3>1, <3>2
  <2>4. Entry(b) = e
    BY <1>4, <1>6, <2>3
  <2>5. QED  BY <1>1, <1>2, <2>1, <2>4 DEF WritesEntry
<1>7. QED  BY <1>4, <1>5, <1>6

\* The entries of a list, one for each part.
EntriesOf(es, v) ==
  /\ es \in Seq(EntryType) /\ Len(es) \in Nat /\ Len(es) >= 1
  /\ Len(es) = Len(Split(v, "|")) /\ DOMAIN es = 1..Len(es)
  /\ \A i \in 1..Len(es) : es[i] = Entry(Split(v, "|")[i])

\* Entries takes a domain list apart at every "|".
LEMMA EntriesIs ==
  ASSUME NEW v \in Seq(Tok)
  PROVE  EntriesOf(Entries(v), v)
<1>1. "|" \in Tok
  BY MarkFacts DEF Marks
<1>2. PICK parts \in Seq(Seq(Tok)) : parts = Split(v, "|") /\ parts # <<>>
  BY <1>1, SplitIs
<1>3. DOMAIN parts = 1..Len(parts) /\ Len(parts) \in Nat /\ Len(parts) >= 1
  BY <1>2, LenProperties, EmptySeq
<1>4. PICK es : es = [i \in 1..Len(parts) |-> Entry(parts[i])]
  OBVIOUS
<1>5. Entries(v) = es
  BY <1>2, <1>3, <1>4, Zenon DEF Entries
<1>6. \A i \in 1..Len(parts) : Entry(parts[i]) \in EntryType
  BY EntryIs, ElementOfSeq
<1>7. es \in [1..Len(parts) -> EntryType]
  BY <1>4, <1>6
<1>8. es \in Seq(EntryType) /\ Len(es) = Len(parts)
  <2>1. PICK n \in Nat : n = Len(parts)
    BY <1>3
  <2>2. es \in [1..n -> EntryType]
    BY <1>7, <2>1
  <2>3. es \in Seq(EntryType) /\ Len(es) = n
    BY <2>2
  <2>4. QED  BY <2>1, <2>3
<1>9. DOMAIN es = 1..Len(es)
  BY <1>4, <1>8
<1>10. EntriesOf(es, v)
  BY <1>2, <1>3, <1>4, <1>8, <1>9 DEF EntriesOf
<1>11. QED  BY <1>5, <1>10

\* Entries are ordered strictly, and any two of different valid domains are.
LEMMA EntryOrders ==
  ASSUME NEW d \in EntryType, NEW e \in EntryType, NEW f \in EntryType
  PROVE  /\ ~EntryBefore(d, d)
         /\ EntryBefore(d, e) /\ EntryBefore(e, f) => EntryBefore(d, f)
         /\ validDomain(d.base) /\ validDomain(e.base) /\ d.base # e.base =>
              EntryBefore(d, e) \/ EntryBefore(e, d)
<1>1. /\ d.base \in Seq(Tok) /\ e.base \in Seq(Tok) /\ f.base \in Seq(Tok)
      /\ Lowered(d.base) = d.base /\ Lowered(e.base) = e.base
  BY DEF EntryType
<1>2. Width(d.base) \in Nat /\ Width(e.base) \in Nat /\ Width(f.base) \in Nat
  BY <1>1, LoweredWidth
<1>3. /\ ~TextBefore(d.base, d.base)
      /\ TextBefore(d.base, e.base) /\ TextBefore(e.base, f.base) => TextBefore(d.base, f.base)
  BY <1>1, TextOrders
<1>4. ~EntryBefore(d, d)
  BY <1>2, <1>3 DEF EntryBefore
<1>5. EntryBefore(d, e) /\ EntryBefore(e, f) => EntryBefore(d, f)
  BY <1>2, <1>3 DEF EntryBefore
<1>6. ASSUME validDomain(d.base), validDomain(e.base), d.base # e.base
      PROVE  EntryBefore(d, e) \/ EntryBefore(e, d)
  <2>1. Alternates(d.base) /\ Alternates(e.base)
    BY <1>1, <1>6, DomainIs
  <2>2. TextBefore(d.base, e.base) \/ TextBefore(e.base, d.base)
    BY <1>1, <1>6, <2>1, TextRanks
  <2>3. QED  BY <1>2, <2>2 DEF EntryBefore
<1>7. QED  BY <1>4, <1>5, <1>6

\* A list of entries written out, and the order it is written in.
WrittenList(c) == Joined([i \in 1..Len(c) |-> WrittenEntry(c[i])], "|")
EntryOrder(E) == {p \in E \X E : EntryBefore(p[1], p[2])}

\* No base stands twice in a valid list, and every base is valid.
GoodEntries(es) ==
  \A i \in 1..Len(es) : /\ validDomain(es[i].base)
                        /\ \A j \in 1..Len(es) : es[j].base = es[i].base => j = i

\* c is a list of distinct valid domains in order, and E is the set of its entries.
Canonical(c, E) ==
  /\ c \in Seq(EntryType) /\ Len(c) \in Nat /\ Len(c) >= 1
  /\ GoodEntries(c) /\ ToSet(c) = E
  /\ Sorts(c, Len(c), E, EntryOrder(E)) /\ Ranks(EntryOrder(E), E)

\* Whether a list is valid depends on its entries only.
LEMMA ListIs ==
  ASSUME NEW v \in Seq(Tok)
  PROVE  ValidDomainList(v) <=> GoodEntries(Entries(v))
<1>1. DOMAIN Entries(v) = 1..Len(Entries(v))
  BY EntriesIs DEF EntriesOf
<1>2. QED  BY <1>1, Zenon DEF ValidDomainList, GoodEntries

\* canonicalDomainList writes the list's entries in order.
LEMMA CanonicalIs ==
  ASSUME NEW v \in Seq(Tok), ValidDomainList(v)
  PROVE  \E c : Canonical(c, ToSet(Entries(v))) /\ canonicalDomainList(v) = WrittenList(c)
<1>0. PICK es \in Seq(EntryType) : es = Entries(v)
  BY EntriesIs DEF EntriesOf
<1>1. PICK n \in Nat : n = Len(es) /\ n >= 1
  BY <1>0, EntriesIs DEF EntriesOf
<1>2. DOMAIN es = 1..n /\ \A i \in 1..n : es[i] \in EntryType
  BY <1>1, LenProperties, ElementOfSeq
<1>3. /\ \A i \in 1..n : validDomain(es[i].base)
      /\ \A i, j \in 1..n : es[j].base = es[i].base => j = i
  BY <1>0, <1>1, ListIs, Zenon DEF GoodEntries
<1>4. PICK P : P = {p \in (1..n) \X (1..n) : EntryBefore(es[p[1]], es[p[2]])}
  OBVIOUS
<1>5. \A i, j \in 1..n : <<i, j>> \in P <=> EntryBefore(es[i], es[j])
  BY <1>4
<1>6. Orders(P, 1..n)
  <2>1. \A i \in 1..n : <<i, i>> \notin P
    BY <1>2, <1>5, EntryOrders
  <2>2. ASSUME NEW i \in 1..n, NEW j \in 1..n, NEW k \in 1..n, <<i, j>> \in P, <<j, k>> \in P
        PROVE  <<i, k>> \in P
    <3>1. EntryBefore(es[i], es[j]) /\ EntryBefore(es[j], es[k])
      BY <1>5, <2>2
    <3>2. EntryBefore(es[i], es[k])
      BY <1>2, <3>1, EntryOrders
    <3>3. QED  BY <1>5, <3>2
  <2>3. QED  BY <2>1, <2>2 DEF Orders
<1>7. IsFiniteSet(1..n) /\ Cardinality(1..n) = n
  <2>1. /\ IsFiniteSet(1..n)
        /\ Cardinality(1..n) = IF 1 > n THEN 0 ELSE n - 1 + 1
    BY FS_Interval
  <2>2. (IF 1 > n THEN 0 ELSE n - 1 + 1) = n
    BY <1>1
  <2>3. QED  BY <2>1, <2>2
<1>8. PICK order : order = Arranged(1..n, P) /\ Sorts(order, n, 1..n, P)
  BY <1>6, <1>7, ArrangedSorts
<1>9. /\ order \in [1..n -> 1..n] /\ \A i, j \in 1..n : order[i] = order[j] => i = j
      /\ \A k \in 1..n : \E i \in 1..n : order[i] = k
      /\ \A i, j \in 1..n : i < j => <<order[j], order[i]>> \notin P
  <2>1. order \in Bijection(1..n, 1..n)
    BY <1>8 DEF Sorts
  <2>2. /\ order \in [1..n -> 1..n] /\ \A i, j \in 1..n : order[i] = order[j] => i = j
        /\ \A k \in 1..n : \E i \in 1..n : order[i] = k
    BY <2>1, BijectionIs
  <2>3. QED  BY <1>8, <2>2 DEF Sorts
<1>10. PICK c : c = [i \in 1..n |-> es[order[i]]]
  OBVIOUS
<1>11. /\ c \in [1..n -> EntryType] /\ \A i \in 1..n : c[i] = es[order[i]] /\ order[i] \in 1..n
  BY <1>2, <1>9, <1>10
<1>12. c \in Seq(EntryType) /\ Len(c) = n /\ DOMAIN c = 1..n
  BY <1>11
<1>13. GoodEntries(c)
  <2>1. SUFFICES ASSUME NEW i \in 1..n
                 PROVE  /\ validDomain(c[i].base)
                        /\ \A j \in 1..n : c[j].base = c[i].base => j = i
    BY <1>12 DEF GoodEntries
  <2>2. validDomain(c[i].base)
    BY <1>3, <1>11
  <2>3. ASSUME NEW j \in 1..n, c[j].base = c[i].base PROVE j = i
    <3>1. order[j] = order[i]
      BY <1>3, <1>11, <2>3
    <3>2. QED  BY <1>9, <3>1
  <2>4. QED  BY <2>2, <2>3
<1>14. PICK E : E = ToSet(es)
  OBVIOUS
<1>15. E = {es[k] : k \in 1..n}
  BY <1>2, <1>14 DEF ToSet
<1>16. ToSet(c) = E
  <2>1. ToSet(c) = {c[i] : i \in 1..n}
    BY <1>12 DEF ToSet
  <2>2. \A k \in 1..n : \E i \in 1..n : c[i] = es[k]
    BY <1>9, <1>11
  <2>3. \A i \in 1..n : \E k \in 1..n : c[i] = es[k]
    BY <1>11
  <2>4. E \subseteq ToSet(c)
    BY <1>15, <2>1, <2>2
  <2>5. ToSet(c) \subseteq E
    BY <1>15, <2>1, <2>3
  <2>6. QED  BY <2>4, <2>5
<1>17. Sorts(c, n, E, EntryOrder(E))
  <2>1. c \in [1..n -> E]
    <3>1. \A i \in 1..n : c[i] \in E
      BY <1>11, <1>15
    <3>2. QED  BY <1>10, <3>1
  <2>2. \A i, j \in 1..n : c[i] = c[j] => i = j
    <3>1. SUFFICES ASSUME NEW i \in 1..n, NEW j \in 1..n, c[i] = c[j] PROVE i = j
      OBVIOUS
    <3>2. /\ order[i] \in 1..n /\ order[j] \in 1..n
          /\ es[order[i]].base = es[order[j]].base
      BY <1>11, <3>1
    <3>3. order[i] = order[j]
      BY <1>3, <3>2
    <3>4. QED  BY <1>9, <3>3
  <2>3. \A e \in E : \E i \in 1..n : c[i] = e
    <3>1. SUFFICES ASSUME NEW e \in E PROVE \E i \in 1..n : c[i] = e
      OBVIOUS
    <3>2. PICK k \in 1..n : e = es[k]
      BY <1>15
    <3>3. PICK i \in 1..n : order[i] = k
      BY <1>9
    <3>4. c[i] = es[order[i]]
      BY <1>11
    <3>5. c[i] = e
      BY <3>2, <3>3, <3>4, Zenon
    <3>6. QED  BY <3>5
  <2>4. ASSUME NEW i \in 1..n, NEW j \in 1..n, i < j PROVE <<c[j], c[i]>> \notin EntryOrder(E)
    <3>1. <<order[j], order[i]>> \notin P
      BY <1>9, <2>4
    <3>2. ~EntryBefore(c[j], c[i])
      BY <1>5, <1>11, <3>1
    <3>3. QED  BY <3>2 DEF EntryOrder
  <2>5. c \in Bijection(1..n, E)
    BY <2>1, <2>2, <2>3, BijectionIs
  <2>6. QED  BY <2>4, <2>5 DEF Sorts
<1>18. Ranks(EntryOrder(E), E)
  <2>1. SUFFICES ASSUME NEW d \in E, NEW e \in E, d # e
                 PROVE  <<d, e>> \in EntryOrder(E) \/ <<e, d>> \in EntryOrder(E)
    BY DEF Ranks
  <2>2. PICK i \in 1..n, j \in 1..n : d = es[i] /\ e = es[j]
    BY <1>15
  <2>3. i # j /\ d.base # e.base /\ validDomain(d.base) /\ validDomain(e.base)
    BY <1>3, <2>1, <2>2
  <2>4. d \in EntryType /\ e \in EntryType
    BY <1>2, <2>2
  <2>5. EntryBefore(d, e) \/ EntryBefore(e, d)
    BY <2>3, <2>4, EntryOrders
  <2>6. QED  BY <2>5 DEF EntryOrder
<1>19. Canonical(c, E)
  BY <1>1, <1>12, <1>13, <1>16, <1>17, <1>18 DEF Canonical
<1>20. canonicalDomainList(v) = WrittenList(c)
  <2>1. Ordered(es) = [i \in 1..n |-> es[Arranged(1..n, P)[i]]]
    BY <1>2, <1>4, Zenon DEF Ordered
  <2>2. Ordered(es) = c
    BY <1>8, <1>10, <2>1, Zenon
  <2>3. WrittenEntries(c) = [i \in 1..Len(c) |-> WrittenEntry(c[i])]
    BY <1>12, Zenon DEF WrittenEntries
  <2>4. canonicalDomainList(v) = Joined(WrittenEntries(Ordered(es)), "|")
    BY <1>0, Zenon DEF canonicalDomainList
  <2>5. QED  BY <2>2, <2>3, <2>4, Zenon DEF WrittenList
<1>21. QED  BY <1>0, <1>14, <1>19, <1>20

\* A list written out is read as what it was written from.
WritesList(w, c) ==
  /\ w \in Seq(Tok) /\ w # <<>> /\ Entries(w) = c /\ Lowered(w) = w
  /\ \A seps : seps \cap Words = {} /\ "." \notin seps /\ "~" \notin seps /\ "|" \notin seps =>
       Avoids(w, seps)

\* Entries and WrittenList undo each other for valid domains.
LEMMA WrittenListIs ==
  ASSUME NEW c \in Seq(EntryType), Len(c) >= 1, \A i \in 1..Len(c) : validDomain(c[i].base)
  PROVE  WritesList(WrittenList(c), c)
<1>0. "|" \in Tok /\ "|" \notin Words
  BY MarkFacts DEF Marks
<1>1. PICK parts : parts = [i \in 1..Len(c) |-> WrittenEntry(c[i])]
  OBVIOUS
<1>2. \A i \in 1..Len(c) : WritesEntry(parts[i], c[i])
  BY <1>1, WrittenEntryIs, ElementOfSeq
<1>3. parts \in Seq(Seq(Tok)) /\ Len(parts) = Len(c) /\ Len(c) \in Nat
  <2>1. PICK n \in Nat : n = Len(c)
    BY LenProperties
  <2>2. \A i \in 1..n : WrittenEntry(c[i]) \in Seq(Tok)
    BY <1>1, <1>2, <2>1 DEF WritesEntry
  <2>3. parts \in [1..n -> Seq(Tok)]
    BY <1>1, <2>1, <2>2
  <2>4. parts \in Seq(Seq(Tok)) /\ Len(parts) = n
    BY <2>3
  <2>5. QED  BY <2>1, <2>4
<1>4. parts # <<>>
  BY <1>3, EmptySeq
<1>5. AllAvoid(parts, "|")
  <2>1. SUFFICES ASSUME NEW i \in 1..Len(parts) PROVE Avoids(parts[i], {"|"})
    BY DEF AllAvoid
  <2>2. WritesEntry(parts[i], c[i])
    BY <1>2, <1>3
  <2>3. {"|"} \cap Words = {} /\ "." \notin {"|"} /\ "~" \notin {"|"}
    BY <1>0
  <2>4. QED  BY <2>2, <2>3, Zenon DEF WritesEntry
<1>6. PICK w \in Seq(Tok) : w = Joined(parts, "|")
  BY <1>0, <1>3, JoinedType
<1>7. Split(w, "|") = parts
  BY <1>0, <1>3, <1>4, <1>5, <1>6, SplitOfJoined
<1>8. Entries(w) = c
  <2>1. PICK es \in Seq(EntryType) : es = Entries(w)
    BY EntriesIs DEF EntriesOf
  <2>2. EntriesOf(es, w)
    BY <2>1, EntriesIs
  <2>3. Len(es) = Len(c) /\ \A i \in 1..Len(es) : es[i] = Entry(parts[i])
    BY <1>3, <1>7, <2>2 DEF EntriesOf
  <2>4. \A i \in 1..Len(es) : es[i] = c[i]
    BY <1>2, <2>3 DEF WritesEntry
  <2>5. es = c
    BY <2>3, <2>4, SameTokens
  <2>6. QED  BY <2>1, <2>5
<1>9. Lowered(w) = w
  <2>1. LoweredJoin(parts, "|")
    BY <1>0, <1>3, LoweredJoined
  <2>2. PICK low \in Seq(Seq(Tok)) : low = LoweredParts(parts)
    BY <1>3, LoweredPartsIs
  <2>3. Len(low) = Len(parts) /\ \A i \in 1..Len(low) : low[i] = Lowered(parts[i])
    BY <1>3, <2>2, LoweredPartsIs
  <2>4. \A i \in 1..Len(low) : low[i] = parts[i]
    BY <1>2, <1>3, <2>3 DEF WritesEntry
  <2>5. low = parts
    BY <1>3, <2>3, <2>4, SameTokens
  <2>6. Lowered(w) = Joined(low, "|")
    BY <1>6, <2>1, <2>2, Zenon DEF LoweredJoin
  <2>7. QED  BY <1>6, <2>5, <2>6
<1>10. w # <<>>
  <2>1. SUFFICES ASSUME w = <<>> PROVE FALSE
    OBVIOUS
  <2>2. Avoids(w, Tok)
    BY <2>1, EmptySeq DEF Avoids
  <2>3. PICK none \in Seq(Tok), nil \in Seq(Seq(Tok)) : none = <<>> /\ nil = <<>>
    <3>1. <<>> \in Seq(Tok) /\ <<>> \in Seq(Seq(Tok))
      BY EmptySeq
    <3>2. QED  BY <3>1
  <2>4. JoinsTo(Tok, "|", nil, none)
    BY <1>0, JoinedIs
  <2>5. PICK one \in Seq(Seq(Tok)) : one = Append(nil, none)
    BY AppendProperties
  <2>6. Joined(one, "|") = none
    BY <2>3, <2>4, <2>5, Zenon DEF JoinsTo
  <2>7. one # <<>> /\ Len(one) = 1 /\ one[1] = none
    BY <2>3, <2>5, AppendProperties
  <2>8. AllAvoid(one, "|")
    <3>1. Avoids(none, {"|"})
      BY <2>3, EmptySeq DEF Avoids
    <3>2. QED  BY <2>7, <3>1 DEF AllAvoid
  <2>9. Split(none, "|") = one
    BY <1>0, <2>6, <2>7, <2>8, SplitOfJoined
  <2>10. parts[1] = <<>>
    BY <1>7, <2>1, <2>3, <2>7, <2>9
  <2>11. 1 \in 1..Len(c)
    BY <1>3
  <2>12. QED  BY <1>2, <2>10, <2>11 DEF WritesEntry
<1>11. ASSUME NEW seps, seps \cap Words = {}, "." \notin seps, "~" \notin seps, "|" \notin seps
       PROVE  Avoids(w, seps)
  <2>1. \A i \in 1..Len(parts) : Avoids(parts[i], seps)
    BY <1>2, <1>3, <1>11, Zenon DEF WritesEntry
  <2>2. QED  BY <1>0, <1>3, <1>6, <1>11, <2>1, AvoidsJoined
<1>12. WritesList(w, c)
  BY <1>6, <1>8, <1>9, <1>10, <1>11 DEF WritesList
<1>13. WrittenList(c) = w
  BY <1>1, <1>6, Zenon DEF WrittenList
<1>14. QED  BY <1>12, <1>13

\* A canonical list is a valid one, in lower case, of the same entries ...
DomainList(w, v) ==
  /\ w \in Seq(Tok) /\ w # <<>> /\ Lowered(w) = w
  /\ ValidDomainList(w) /\ ToSet(Entries(w)) = ToSet(Entries(v))
  /\ \A seps : seps \cap Words = {} /\ "." \notin seps /\ "~" \notin seps /\ "|" \notin seps =>
       Avoids(w, seps)

\* canonicalDomainList makes such a list of every valid one.
LEMMA DomainListIs ==
  ASSUME NEW v \in Seq(Tok), ValidDomainList(v)
  PROVE  DomainList(canonicalDomainList(v), v)
<1>1. PICK c : Canonical(c, ToSet(Entries(v))) /\ canonicalDomainList(v) = WrittenList(c)
  BY CanonicalIs
<1>2. c \in Seq(EntryType) /\ Len(c) >= 1 /\ GoodEntries(c) /\ ToSet(c) = ToSet(Entries(v))
  BY <1>1, Zenon DEF Canonical
<1>3. \A i \in 1..Len(c) : validDomain(c[i].base)
  BY <1>2, Zenon DEF GoodEntries
<1>4. PICK w : w = WrittenList(c) /\ WritesList(w, c)
  BY <1>2, <1>3, WrittenListIs
<1>5. w \in Seq(Tok) /\ Entries(w) = c
  BY <1>4, Zenon DEF WritesList
<1>6. ValidDomainList(w)
  BY <1>2, <1>5, ListIs
<1>7. DomainList(w, v)
  BY <1>2, <1>4, <1>5, <1>6, Zenon DEF WritesList, DomainList
<1>8. QED  BY <1>1, <1>4, <1>7

\* ... and there is one for a set of entries.
LEMMA DomainListOnce ==
  ASSUME NEW u \in Seq(Tok), NEW v \in Seq(Tok), ValidDomainList(u), ValidDomainList(v),
         ToSet(Entries(u)) = ToSet(Entries(v))
  PROVE  canonicalDomainList(u) = canonicalDomainList(v)
<1>1. PICK E : E = ToSet(Entries(u)) /\ E = ToSet(Entries(v))
  OBVIOUS
<1>2. PICK c : Canonical(c, E) /\ canonicalDomainList(u) = WrittenList(c)
  BY <1>1, CanonicalIs
<1>3. PICK d : Canonical(d, E) /\ canonicalDomainList(v) = WrittenList(d)
  BY <1>1, CanonicalIs
<1>4. c = d
  <2>1. /\ Len(c) \in Nat /\ Sorts(c, Len(c), E, EntryOrder(E)) /\ Ranks(EntryOrder(E), E)
        /\ Len(d) \in Nat /\ Sorts(d, Len(d), E, EntryOrder(E))
    BY <1>2, <1>3, Zenon DEF Canonical
  <2>2. QED  BY <2>1, SortedOnce
<1>5. QED  BY <1>2, <1>3, <1>4

-------------------------------------------------------------------------------
(* Options                                                                 *)

\* What taking the first n options comes to.
Taken(parts, n) == {Option(parts[j]) : j \in 1..n}
AllFit(parts, n, exception) ==
  \A j \in 1..n : CanTake(Option(parts[j]), Taken(parts, j - 1), exception)

\* parseModifiers in these terms.
LEMMA TakeAllIs ==
  ASSUME NEW S, NEW parts \in Seq(S), NEW exception
  PROVE  TakeAll(parts, exception) = [ok |-> AllFit(parts, Len(parts), exception),
                                      taken |-> Taken(parts, Len(parts))]
<1>1. DOMAIN parts = 1..Len(parts)
  BY LenProperties
<1>2. QED  BY <1>1 DEF TakeAll, AllFit, Taken

\* Whether an option may stand in a rule at all, and whether two may stand together.
Stands(o, exception) ==
  \/ o.name \in ElementTypes /\ o.value = <<>>
  \/ o.name \in ActivationTypes /\ o.value = <<>> /\ ~o.negated /\ exception
  \/ o.name = "third-party" /\ o.value = <<>>
  \/ o.name = "match-case" /\ o.value = <<>> /\ ~o.negated
  \/ o.name = "domain" /\ ~o.negated /\ Len(o.value) > 1 /\ ValidDomainList(Tail(o.value))
StandTogether(o, p) ==
  /\ o.name # p.name
  /\ ~(o.name \in ElementTypes /\ p.name \in ActivationTypes)
  /\ ~(p.name \in ElementTypes /\ o.name \in ActivationTypes)
  /\ o.name \in ElementTypes /\ p.name \in ElementTypes => o.negated = p.negated

\* What CanTake asks of the options before is the same of each, and mutual.
LEMMA CanTakeIs ==
  ASSUME NEW o, NEW taken, NEW exception
  PROVE  CanTake(o, taken, exception) <=>
           Stands(o, exception) /\ \A p \in taken : StandTogether(o, p)
<1> USE DEF Among, ElementTypes, ActivationTypes
<1>1. Among({o.name}, taken) = {} <=> \A p \in taken : o.name # p.name
  OBVIOUS
<1>2. CASE o.name \in ElementTypes
  <2>1. TypeFits(o, taken) <=>
          /\ o.value = <<>>
          /\ \A p \in taken : /\ p.name \notin ActivationTypes
                              /\ p.name \in ElementTypes => p.negated = o.negated
    BY DEF TypeFits
  <2>2. CanTake(o, taken, exception) <=> Among({o.name}, taken) = {} /\ TypeFits(o, taken)
    BY <1>2 DEF CanTake
  <2>3. Stands(o, exception) <=> o.value = <<>>
    BY <1>2 DEF Stands
  <2>4. QED  BY <1>1, <1>2, <2>1, <2>2, <2>3 DEF StandTogether
<1>3. CASE o.name \in ActivationTypes
  <2>1. Among(ElementTypes, taken) = {} <=> \A p \in taken : p.name \notin ElementTypes
    OBVIOUS
  <2>2. CanTake(o, taken, exception) <=>
          /\ Among({o.name}, taken) = {}
          /\ o.value = <<>> /\ ~o.negated /\ exception /\ Among(ElementTypes, taken) = {}
    BY <1>3 DEF CanTake
  <2>3. Stands(o, exception) <=> o.value = <<>> /\ ~o.negated /\ exception
    BY <1>3 DEF Stands
  <2>4. QED  BY <1>1, <1>3, <2>1, <2>2, <2>3 DEF StandTogether
<1>4. CASE o.name \notin ElementTypes /\ o.name \notin ActivationTypes
  <2>1. CanTake(o, taken, exception) <=> Among({o.name}, taken) = {} /\ Stands(o, exception)
    BY <1>4 DEF CanTake, Stands
  <2>2. QED  BY <1>1, <1>4, <2>1 DEF StandTogether
<1>5. QED  BY <1>2, <1>3, <1>4

\* So all options of a rule fit if each may stand in it and any two of them together.
LEMMA AllFitIs ==
  ASSUME NEW parts, NEW n \in Nat, NEW exception
  PROVE  AllFit(parts, n, exception) <=>
           /\ \A j \in 1..n : Stands(Option(parts[j]), exception)
           /\ \A j, k \in 1..n : j # k => StandTogether(Option(parts[j]), Option(parts[k]))
<1>1. \A j \in 1..n : CanTake(Option(parts[j]), Taken(parts, j - 1), exception) <=>
        /\ Stands(Option(parts[j]), exception)
        /\ \A k \in 1..(j - 1) : StandTogether(Option(parts[j]), Option(parts[k]))
  BY CanTakeIs DEF Taken
<1>2. \A j, k \in 1..n : k \in 1..(j - 1) <=> k < j
  OBVIOUS
<1>3. \A o, p : StandTogether(o, p) <=> StandTogether(p, o)
  BY DEF StandTogether
<1>4. AllFit(parts, n, exception) <=>
        /\ \A j \in 1..n : Stands(Option(parts[j]), exception)
        /\ \A j, k \in 1..n : k < j => StandTogether(Option(parts[j]), Option(parts[k]))
  <2>1. \A j \in 1..n : \A k \in 1..(j - 1) : k \in 1..n
    OBVIOUS
  <2>2. QED  BY <1>1, <1>2, <2>1, Zenon DEF AllFit
<1>5. \A j, k \in 1..n : j # k <=> j < k \/ k < j
  OBVIOUS
<1>6. QED  BY <1>3, <1>4, <1>5, Zenon

\* The order of the options makes no difference to parseModifiers, although it takes
\* them one by one and each against those before it: with the same parts in another
\* order it accepts the rule or not as before, and keeps the same options. This is
\* what the comments on the option names promise (filter.go:343-347, 356-357).
THEOREM OptionsInAnyOrder ==
  ASSUME NEW S, NEW parts \in Seq(S), NEW other \in Seq(S), Len(other) = Len(parts),
         NEW place \in Bijection(1..Len(parts), 1..Len(parts)),
         \A i \in 1..Len(parts) : other[i] = parts[place[i]],
         NEW exception
  PROVE  TakeAll(other, exception) = TakeAll(parts, exception)
<1> DEFINE n == Len(parts)
<1>1. n \in Nat /\ place \in [1..n -> 1..n]
  BY LenProperties DEF Bijection, Injection
<1>2. \A i, j \in 1..n : place[i] = place[j] => i = j
  BY DEF Bijection, Injection, IsInjective
<1>3. \A j \in 1..n : \E i \in 1..n : place[i] = j
  BY DEF Bijection, Surjection
<1>4. \A i \in 1..n : Option(other[i]) = Option(parts[place[i]])
  BY Zenon
<1> HIDE DEF n
<1>5. \A i \in 1..n : place[i] \in 1..n
  BY <1>1
<1>6. Taken(other, n) = Taken(parts, n)
  <2>1. ASSUME NEW o \in Taken(other, n) PROVE o \in Taken(parts, n)
    <3>1. PICK i \in 1..n : o = Option(other[i])
      BY <2>1 DEF Taken
    <3>2. place[i] \in 1..n /\ o = Option(parts[place[i]])
      BY <1>4, <1>5, <3>1, Zenon
    <3>3. QED  BY <3>2, Zenon DEF Taken
  <2>2. ASSUME NEW o \in Taken(parts, n) PROVE o \in Taken(other, n)
    <3>1. PICK j \in 1..n : o = Option(parts[j])
      BY <2>2 DEF Taken
    <3>2. PICK i \in 1..n : place[i] = j
      BY <1>3
    <3>3. o = Option(other[i])
      BY <1>4, <3>1, <3>2, Zenon
    <3>4. QED  BY <3>3, Zenon DEF Taken
  <2>3. QED  BY <2>1, <2>2
<1>7. AllFit(other, n, exception) <=> AllFit(parts, n, exception)
  <2>1. ASSUME \A j \in 1..n : Stands(Option(parts[j]), exception), NEW i \in 1..n
        PROVE  Stands(Option(other[i]), exception)
    <3>1. Stands(Option(parts[place[i]]), exception)
      BY <1>5, <2>1, Zenon
    <3>2. Option(other[i]) = Option(parts[place[i]])
      BY <1>4, Zenon
    <3>3. QED  BY <3>1, <3>2, Zenon
  <2>2. ASSUME \A j, k \in 1..n : j # k => StandTogether(Option(parts[j]), Option(parts[k])),
               NEW i \in 1..n, NEW l \in 1..n, i # l
        PROVE  StandTogether(Option(other[i]), Option(other[l]))
    <3>1. place[i] # place[l]
      BY <1>2, <2>2, Zenon
    <3>2. StandTogether(Option(parts[place[i]]), Option(parts[place[l]]))
      BY <1>5, <2>2, <3>1, Zenon
    <3>3. /\ Option(other[i]) = Option(parts[place[i]])
          /\ Option(other[l]) = Option(parts[place[l]])
      BY <1>4, Zenon
    <3>4. QED  BY <3>2, <3>3, Zenon
  <2>3. ASSUME \A i, l \in 1..n : i # l => StandTogether(Option(other[i]), Option(other[l])),
               NEW j \in 1..n, NEW k \in 1..n, j # k
        PROVE  StandTogether(Option(parts[j]), Option(parts[k]))
    <3>1. PICK i \in 1..n : place[i] = j
      BY <1>3
    <3>2. PICK l \in 1..n : place[l] = k
      BY <1>3
    <3>3. i # l
      BY <2>3, <3>1, <3>2
    <3>4. Option(other[i]) = Option(parts[j]) /\ Option(other[l]) = Option(parts[k])
      BY <1>4, <3>1, <3>2, Zenon
    <3>5. StandTogether(Option(other[i]), Option(other[l]))
      BY <2>3, <3>3, Zenon
    <3>6. QED  BY <3>4, <3>5, Zenon
  <2>4. ASSUME \A i \in 1..n : Stands(Option(other[i]), exception), NEW j \in 1..n
        PROVE  Stands(Option(parts[j]), exception)
    <3>1. PICK i \in 1..n : place[i] = j
      BY <1>3
    <3>2. Option(other[i]) = Option(parts[j])
      BY <1>4, <3>1, Zenon
    <3>3. Stands(Option(other[i]), exception)
      BY <2>4, Zenon
    <3>4. QED  BY <3>2, <3>3, Zenon
  <2>5. (\A i \in 1..n : Stands(Option(other[i]), exception))
          <=> \A j \in 1..n : Stands(Option(parts[j]), exception)
    BY <2>1, <2>4, Zenon
  <2>6. (\A i, l \in 1..n : i # l => StandTogether(Option(other[i]), Option(other[l])))
          <=> \A j, k \in 1..n : j # k => StandTogether(Option(parts[j]), Option(parts[k]))
    BY <2>2, <2>3, Zenon
  <2>7. QED  BY <1>1, <2>5, <2>6, AllFitIs, Zenon
<1>8. TakeAll(parts, exception) = [ok |-> AllFit(parts, n, exception), taken |-> Taken(parts, n)]
  BY TakeAllIs DEF n
<1>9. TakeAll(other, exception) = [ok |-> AllFit(other, n, exception), taken |-> Taken(other, n)]
  BY TakeAllIs DEF n
<1>10. AllFit(other, n, exception) = AllFit(parts, n, exception)
  BY <1>7 DEF AllFit
<1>11. QED  BY <1>6, <1>8, <1>9, <1>10, Zenon

OptionNames == {OptionOrder[n] : n \in DOMAIN OptionOrder}
OptionType == [negated : BOOLEAN, name : Tok, value : Seq(Tok)]

\* The seven names.
LEMMA NamesAre ==
  OptionNames = {"image", "script", "document", "genericblock",
                 "third-party", "match-case", "domain"}
<1>1. DOMAIN OptionOrder = 1..7
  BY DEF OptionOrder
<1>2. 1..7 = {1, 2, 3, 4, 5, 6, 7}
  OBVIOUS
<1>3. OptionNames = {OptionOrder[n] : n \in {1, 2, 3, 4, 5, 6, 7}}
  BY <1>1, <1>2 DEF OptionNames
<1>4. QED  BY <1>3 DEF OptionOrder

\* An option is what Option reads in a part.
LEMMA OptionIs ==
  ASSUME NEW t \in Seq(Tok)
  PROVE  Option(t) \in OptionType /\ (Option(t).value # <<>> => Option(t).value[1] = "=")
<1>1. PICK x \in BOOLEAN : x <=> (t # <<>> /\ Head(t) = "~")
  OBVIOUS
<1>2. PICK b \in Seq(Tok) : b = IF x THEN Tail(t) ELSE t
  BY <1>1, FirstAndRest
<1>3. PICK name \in Seq(Tok), value \in Seq(Tok) :
        /\ name = Before(b, {"="}) /\ value = From(b, {"="})
        /\ value # <<>> => value[1] = "="
  <2>1. /\ Before(b, {"="}) \in Seq(Tok) /\ From(b, {"="}) \in Seq(Tok)
        /\ From(b, {"="}) # <<>> => From(b, {"="})[1] \in {"="}
    BY CutIs
  <2>2. QED  BY <2>1
<1>4. PICK n \in Tok : n = IF Len(name) = 1 THEN name[1] ELSE "?"
  <2>1. "?" \in Tok
    BY MarkFacts DEF Marks
  <2>2. Len(name) = 1 => name[1] \in Tok
    BY <1>3, ElementOfSeq
  <2>3. QED  BY <2>1, <2>2
<1>5. x = (t # <<>> /\ Head(t) = "~")
  BY <1>1
<1>6. Option(t) = [negated |-> x, name |-> n, value |-> value]
  BY <1>2, <1>3, <1>4, <1>5, Zenon DEF Option
<1>7. Option(t) \in OptionType
  BY <1>6 DEF OptionType
<1>8. QED  BY <1>3, <1>6, <1>7

\* An option that may stand, as WrittenOption spells it.
CanonicalOption(o) ==
  [negated |-> o.negated, name |-> o.name,
   value |-> IF o.name = "domain" THEN <<"=">> \o canonicalDomainList(Tail(o.value)) ELSE <<>>]
OptionMeaning(o) ==
  [name |-> o.name, negated |-> o.negated,
   domains |-> IF o.value = <<>> THEN {} ELSE ToSet(Entries(Tail(o.value)))]

\* The options of no value, and that of a list of domains.
LEMMA StandsIs ==
  ASSUME NEW o \in OptionType, NEW exception, Stands(o, exception)
  PROVE  /\ o.name \in OptionNames
         /\ o.name # "domain" => o.value = <<>>
         /\ o.name = "domain" =>
              /\ ~o.negated /\ o.value # <<>> /\ Tail(o.value) \in Seq(Tok)
              /\ ValidDomainList(Tail(o.value))
<1>1. OptionNames = {"image", "script", "document", "genericblock",
                     "third-party", "match-case", "domain"}
  BY NamesAre
<1>2. o.name \in OptionNames
  BY <1>1 DEF Stands, ElementTypes, ActivationTypes
<1>3. o.name # "domain" => o.value = <<>>
  BY DEF Stands
<1>4. ASSUME o.name = "domain"
      PROVE  /\ ~o.negated /\ o.value # <<>> /\ Tail(o.value) \in Seq(Tok)
             /\ ValidDomainList(Tail(o.value))
  <2>1. ~o.negated /\ Len(o.value) > 1 /\ ValidDomainList(Tail(o.value))
    BY <1>4 DEF Stands, ElementTypes, ActivationTypes
  <2>2. o.value \in Seq(Tok)
    BY DEF OptionType
  <2>3. o.value # <<>>
    BY <2>1, <2>2, EmptySeq
  <2>4. Tail(o.value) \in Seq(Tok)
    BY <2>2, <2>3, FirstAndRest
  <2>5. QED  BY <2>1, <2>3, <2>4
<1>5. QED  BY <1>2, <1>3, <1>4

\* None of the names is punctuation.
LEMMA NameFacts ==
  OptionNames \subseteq Tok /\ OptionNames \cap Special = {}
<1>1. OptionNames \subseteq Tok
  BY Zenon DEF Tok, OptionNames
<1>2. ASSUME NEW n \in OptionNames PROVE n \notin Special
  BY <1>2, NamesAre
     DEF Special, Markers, Blanks, HostsPrefixes, Schemes, NotAscii, Malformed
<1>3. QED  BY <1>1, <1>2

\* Separators that no option written out holds.
Plain(seps) == /\ seps \cap Words = {} /\ seps \cap OptionNames = {}
               /\ "." \notin seps /\ "~" \notin seps /\ "|" \notin seps /\ "=" \notin seps

\* It is written so that it is read as itself again.
WritesOption(w, o) ==
  /\ w \in Seq(Tok) /\ w # <<>> /\ Option(w) = CanonicalOption(o)
  /\ \A seps : Plain(seps) => Avoids(w, seps)

\* What stands behind the name.
LEMMA WrittenValue ==
  ASSUME NEW o \in OptionType, NEW exception, Stands(o, exception)
  PROVE  \E v \in Seq(Tok) :
           /\ v = CanonicalOption(o).value /\ (v # <<>> => v[1] = "=")
           /\ v = IF o.name = "domain" THEN <<"=">> \o canonicalDomainList(Tail(o.value)) ELSE <<>>
           /\ \A seps : Plain(seps) => Avoids(v, seps)
<1>1. CASE o.name # "domain"
  <2>1. PICK v \in Seq(Tok) : v = <<>>
    BY EmptySeq
  <2>2. \A seps : Avoids(v, seps)
    BY <2>1, EmptySeq DEF Avoids
  <2>3. CanonicalOption(o).value = v
    BY <1>1, <2>1 DEF CanonicalOption
  <2>4. QED  BY <1>1, <2>1, <2>2, <2>3
<1>2. CASE o.name = "domain"
  <2>1. "=" \in Tok
    BY MarkFacts DEF Marks
  <2>2. PICK l \in Seq(Tok) : l = Tail(o.value) /\ ValidDomainList(l)
    BY <1>2, StandsIs
  <2>3. PICK w \in Seq(Tok) : w = canonicalDomainList(l) /\ DomainList(w, l)
    <3>1. DomainList(canonicalDomainList(l), l)
      BY <2>2, DomainListIs
    <3>2. QED  BY <3>1, Zenon DEF DomainList
  <2>4. PICK v \in Seq(Tok) : v = <<"=">> \o w /\ v[1] = "="
    BY <2>1, InFront
  <2>5. CanonicalOption(o).value = v
    BY <1>2, <2>2, <2>3, <2>4 DEF CanonicalOption
  <2>6. ASSUME NEW seps, Plain(seps)
        PROVE  Avoids(v, seps)
    <3>1. Avoids(w, seps)
      BY <2>3, <2>6, Zenon DEF DomainList, Plain
    <3>2. PICK one \in Seq(Tok) : one = <<"=">> /\ Len(one) = 1 /\ one[1] = "="
      BY <2>1, OneToken
    <3>3. Avoids(one, seps)
      BY <2>6, <3>2 DEF Avoids, Plain
    <3>4. Avoids(one \o w, seps)
      BY <3>1, <3>3, AvoidsConcat
    <3>5. QED  BY <2>4, <3>2, <3>4
  <2>7. QED  BY <1>2, <2>2, <2>3, <2>4, <2>5, <2>6, Zenon
<1>3. QED  BY <1>1, <1>2

\* WrittenOption and Option undo each other, up to the order of the domains.
LEMMA WrittenOptionIs ==
  ASSUME NEW o \in OptionType, NEW exception, Stands(o, exception)
  PROVE  WritesOption(WrittenOption(o), o)
<1>1. o.name \in OptionNames /\ o.name \in Tok /\ o.name \notin Special
  BY StandsIs, NameFacts
<1>2. PICK v \in Seq(Tok) :
           /\ v = CanonicalOption(o).value /\ (v # <<>> => v[1] = "=")
           /\ v = IF o.name = "domain" THEN <<"=">> \o canonicalDomainList(Tail(o.value)) ELSE <<>>
           /\ \A seps : Plain(seps) => Avoids(v, seps)
  BY WrittenValue
<1>3. PICK name \in Seq(Tok) : name = <<o.name>> /\ Len(name) = 1 /\ name[1] = o.name
  BY <1>1, OneToken
<1>4. "~" \in Tok /\ "~" \in Special /\ "=" \in Special
  BY MarkFacts DEF Marks, Special
<1>5. PICK b \in Seq(Tok) : b = name \o v
  BY ConcatIs
<1>6. Before(b, {"="}) = name /\ From(b, {"="}) = v
  <2>1. Avoids(name, {"="})
    BY <1>1, <1>3, <1>4 DEF Avoids
  <2>2. v # <<>> => v[1] \in {"="}
    BY <1>2
  <2>3. QED  BY <1>5, <2>1, <2>2, CutAt
<1>7. b # <<>> /\ Head(b) = o.name
  BY <1>1, <1>3, <1>5, InFront
<1>8. \A t \in Seq(Tok), x \in BOOLEAN :
        (x <=> (t # <<>> /\ Head(t) = "~")) /\ b = (IF x THEN Tail(t) ELSE t) =>
          Option(t) = [negated |-> x, name |-> o.name, value |-> v]
  <2>1. SUFFICES ASSUME NEW t \in Seq(Tok), NEW x \in BOOLEAN,
                        x <=> (t # <<>> /\ Head(t) = "~"), b = IF x THEN Tail(t) ELSE t
                 PROVE  Option(t) = [negated |-> x, name |-> o.name, value |-> v]
    OBVIOUS
  <2>2. x = (t # <<>> /\ Head(t) = "~")
    BY <2>1
  <2>3. (IF Len(name) = 1 THEN name[1] ELSE "?") = o.name
    BY <1>3
  <2>4. QED  BY <1>6, <2>1, <2>2, <2>3, Zenon DEF Option
<1>9. PICK w \in Seq(Tok) :
        /\ w = (IF o.negated THEN <<"~">> ELSE <<>>) \o b /\ w # <<>>
        /\ Option(w) = [negated |-> o.negated, name |-> o.name, value |-> v]
        /\ \A seps : "~" \notin seps /\ Avoids(b, seps) => Avoids(w, seps)
  <2>0. o.negated \in BOOLEAN
    BY DEF OptionType
  <2>1. CASE o.negated
    <3>1. PICK w \in Seq(Tok) : w = <<"~">> \o b /\ w # <<>> /\ Head(w) = "~" /\ Tail(w) = b
      BY <1>4, InFront
    <3>2. Option(w) = [negated |-> TRUE, name |-> o.name, value |-> v]
      BY <1>8, <3>1
    <3>3. ASSUME NEW seps, "~" \notin seps, Avoids(b, seps) PROVE Avoids(w, seps)
      <4>1. PICK one \in Seq(Tok) : one = <<"~">> /\ Len(one) = 1 /\ one[1] = "~"
        BY <1>4, OneToken
      <4>2. Avoids(one, seps)
        BY <3>3, <4>1 DEF Avoids
      <4>3. Avoids(one \o b, seps)
        BY <3>3, <4>2, AvoidsConcat
      <4>4. QED  BY <3>1, <4>1, <4>3
    <3>4. o.negated = TRUE
      BY <2>0, <2>1
    <3>5. QED  BY <3>1, <3>2, <3>3, <3>4, Zenon
  <2>2. CASE ~o.negated
    <3>1. <<>> \o b = b
      BY ConcatEmptySeq
    <3>2. Option(b) = [negated |-> FALSE, name |-> o.name, value |-> v]
      BY <1>1, <1>4, <1>7, <1>8
    <3>3. o.negated = FALSE
      BY <2>0, <2>2
    <3>4. QED  BY <1>7, <3>1, <3>2, <3>3, Zenon
  <2>3. QED  BY <2>1, <2>2
<1>10. WrittenOption(o) = w
  <2>1. \A p \in Seq(Tok) : p = (IF o.negated THEN <<"~">> ELSE <<>>) => WrittenOption(o) = w
    <3>1. SUFFICES ASSUME NEW p \in Seq(Tok), p = IF o.negated THEN <<"~">> ELSE <<>>
                   PROVE  WrittenOption(o) = w
      OBVIOUS
    <3>2. Regroups(p, name, v)
      BY RegroupsIs
    <3>3. WrittenOption(o) = (p \o name) \o v
      BY <1>2, <1>3, <3>1, Zenon DEF WrittenOption
    <3>4. QED  BY <1>5, <1>9, <3>1, <3>2, <3>3, Zenon DEF Regroups
  <2>2. <<"~">> \in Seq(Tok) /\ <<>> \in Seq(Tok)
    BY <1>4, OneToken, EmptySeq
  <2>3. QED  BY <2>1, <2>2
<1>11. Option(w) = CanonicalOption(o)
  BY <1>2, <1>9 DEF CanonicalOption
<1>12. ASSUME NEW seps, Plain(seps)
       PROVE  Avoids(w, seps)
  <2>1. Avoids(v, seps)
    BY <1>2, <1>12
  <2>2. Avoids(name, seps)
    BY <1>1, <1>3, <1>12 DEF Avoids, Plain
  <2>3. Avoids(b, seps)
    BY <1>5, <2>1, <2>2, AvoidsConcat
  <2>4. QED  BY <1>9, <1>12, <2>3 DEF Plain
<1>13. WritesOption(w, o)
  BY <1>9, <1>11, <1>12 DEF WritesOption
<1>14. QED  BY <1>10, <1>13

\* The options of an accepted rule: each may stand in it, and any two of them together.
Fits(taken, exception) ==
  /\ taken \subseteq OptionType
  /\ \A o \in taken : Stands(o, exception)
  /\ \A o, p \in taken : o # p => StandTogether(o, p)

\* parseModifiers in the terms of the parts.
Parsed(r, parts, exception) ==
  /\ parts \in Seq(Seq(Tok)) /\ Len(parts) \in Nat /\ Len(parts) >= 1
  /\ r = [ok |-> AllFit(parts, Len(parts), exception), taken |-> Taken(parts, Len(parts))]

\* It is.
LEMMA ParsedIs ==
  ASSUME NEW opts \in Seq(Tok), NEW exception
  PROVE  Parsed(parseModifiers(opts, exception), Split(opts, ","), exception)
<1>1. "," \in Tok
  BY MarkFacts DEF Marks
<1>2. PICK parts \in Seq(Seq(Tok)) : parts = Split(opts, ",") /\ parts # <<>>
  BY <1>1, SplitIs
<1>3. Len(parts) \in Nat /\ Len(parts) >= 1
  BY <1>2, FirstAndRest
<1>4. TakeAll(parts, exception) = [ok |-> AllFit(parts, Len(parts), exception),
                                   taken |-> Taken(parts, Len(parts))]
  BY TakeAllIs, Zenon
<1>5. parseModifiers(opts, exception) = TakeAll(parts, exception)
  BY <1>2, Zenon DEF parseModifiers
<1>6. QED  BY <1>2, <1>3, <1>4, <1>5, Zenon DEF Parsed

\* So the options that it accepts fit.
LEMMA ParsedFits ==
  ASSUME NEW opts \in Seq(Tok), NEW exception, parseModifiers(opts, exception).ok
  PROVE  /\ Fits(parseModifiers(opts, exception).taken, exception)
         /\ parseModifiers(opts, exception).taken # {}
<1>1. PICK parts \in Seq(Seq(Tok)), n \in Nat :
        /\ n = Len(parts) /\ n >= 1
        /\ parseModifiers(opts, exception) =
             [ok |-> AllFit(parts, n, exception), taken |-> Taken(parts, n)]
  BY ParsedIs, Zenon DEF Parsed
<1>2. AllFit(parts, n, exception)
  BY <1>1
<1>3. /\ \A j \in 1..n : Stands(Option(parts[j]), exception)
      /\ \A j, k \in 1..n : j # k => StandTogether(Option(parts[j]), Option(parts[k]))
  BY <1>2, AllFitIs, Zenon
<1>4. \A j \in 1..n : Option(parts[j]) \in OptionType
  BY <1>1, OptionIs, ElementOfSeq
<1>5. Fits(Taken(parts, n), exception)
  <2>1. Taken(parts, n) \subseteq OptionType
    BY <1>4 DEF Taken
  <2>2. \A o \in Taken(parts, n) : Stands(o, exception)
    BY <1>3 DEF Taken
  <2>3. ASSUME NEW o \in Taken(parts, n), NEW p \in Taken(parts, n), o # p
        PROVE  StandTogether(o, p)
    <3>1. PICK j \in 1..n : o = Option(parts[j])
      BY Zenon DEF Taken
    <3>2. PICK k \in 1..n : p = Option(parts[k])
      BY Zenon DEF Taken
    <3>3. j # k
      BY <2>3, <3>1, <3>2
    <3>4. QED  BY <1>3, <3>1, <3>2, <3>3, Zenon
  <2>4. QED  BY <2>1, <2>2, <2>3 DEF Fits
<1>6. Taken(parts, n) # {}
  <2>1. 1 \in 1..n
    BY <1>1
  <2>2. QED  BY <2>1 DEF Taken
<1>7. QED  BY <1>1, <1>5, <1>6

\* And options that are the same or fit are accepted.
LEMMA FittingParts ==
  ASSUME NEW opts \in Seq(Tok), NEW exception,
         NEW parts, parts = Split(opts, ","),
         \A j \in 1..Len(parts) : Stands(Option(parts[j]), exception),
         \A j, k \in 1..Len(parts) : j # k => StandTogether(Option(parts[j]), Option(parts[k]))
  PROVE  parseModifiers(opts, exception) = [ok |-> TRUE, taken |-> Taken(parts, Len(parts))]
<1>1. PICK n \in Nat :
        /\ n = Len(parts)
        /\ parseModifiers(opts, exception) =
             [ok |-> AllFit(parts, n, exception), taken |-> Taken(parts, n)]
  BY ParsedIs, Zenon DEF Parsed
<1>2. AllFit(parts, n, exception)
  BY <1>1, AllFitIs, Zenon
<1>3. AllFit(parts, n, exception) = TRUE
  BY <1>2 DEF AllFit
<1>4. QED  BY <1>1, <1>3

-------------------------------------------------------------------------------
(* The order of the options                                                *)

\* Each name has its place.
LEMMA PositionIs ==
  ASSUME NEW name \in OptionNames
  PROVE  Position(name) \in 1..7 /\ OptionOrder[Position(name)] = name
<1>1. DOMAIN OptionOrder = 1..7
  BY DEF OptionOrder
<1>2. \E n \in DOMAIN OptionOrder : OptionOrder[n] = name
  BY Zenon DEF OptionNames
<1>3. QED  BY <1>1, <1>2 DEF Position

PositionOrder(names) == {p \in names \X names : Position(p[1]) < Position(p[2])}

\* So the names are ordered, and any two of them.
LEMMA NamesOrdered ==
  ASSUME NEW names \in SUBSET OptionNames
  PROVE  /\ IsFiniteSet(names)
         /\ Orders(PositionOrder(names), names) /\ Ranks(PositionOrder(names), names)
<1>1. \A x \in names : Position(x) \in Int
  BY PositionIs
<1>2. \A x, y \in names : <<x, y>> \in PositionOrder(names) <=> Position(x) < Position(y)
  BY DEF PositionOrder
<1>3. Orders(PositionOrder(names), names)
  BY <1>1, <1>2 DEF Orders
<1>4. \A x, y \in names : Position(x) = Position(y) => x = y
  BY PositionIs
<1>5. Ranks(PositionOrder(names), names)
  <2>1. SUFFICES ASSUME NEW x \in names, NEW y \in names, x # y
                 PROVE  <<x, y>> \in PositionOrder(names) \/ <<y, x>> \in PositionOrder(names)
    BY Zenon DEF Ranks
  <2>2. Position(x) # Position(y)
    BY <1>4, <2>1
  <2>3. Position(x) < Position(y) \/ Position(y) < Position(x)
    BY <1>1, <2>2
  <2>4. QED  BY <1>2, <2>3, Zenon
<1>6. IsFiniteSet(OptionNames)
  <2>1. DOMAIN OptionOrder = 1..7
    BY DEF OptionOrder
  <2>2. IsFiniteSet(1..7)
    <3>1. 1 \in Int /\ 7 \in Int
      OBVIOUS
    <3>2. QED  BY <3>1, FS_Interval, Zenon
  <2>3. PICK f : f = [n \in 1..7 |-> OptionOrder[n]]
    OBVIOUS
  <2>4. f \in Surjection(1..7, OptionNames)
    <3>1. f \in [1..7 -> OptionNames]
      BY <2>1, <2>3 DEF OptionNames
    <3>2. \A y \in OptionNames : \E n \in 1..7 : f[n] = y
      BY <2>1, <2>3 DEF OptionNames
    <3>3. QED  BY <3>1, <3>2, Zenon DEF Surjection
  <2>5. QED  BY <2>2, <2>4, FS_Surjection
<1>7. IsFiniteSet(names)
  BY <1>6, FS_Subset
<1>8. QED  BY <1>3, <1>5, <1>7

\* c is the options in the order of their names.
InOrder(c, taken) ==
  /\ c \in Seq(OptionType) /\ Len(c) \in Nat
  /\ ToSet(c) = taken /\ \A i \in 1..Len(c) : c[i] \in taken
  /\ \A i, j \in 1..Len(c) : c[i].name = c[j].name => i = j
  /\ Sorts([i \in 1..Len(c) |-> c[i].name], Len(c), {o.name : o \in taken},
           PositionOrder({o.name : o \in taken}))

\* Options written one after another.
WrittenOptions(c) == Joined([i \in 1..Len(c) |-> WrittenOption(c[i])], ",")

\* Options that fit have different names, and each name is one of the seven.
LEMMA FitsIs ==
  ASSUME NEW taken, NEW exception, Fits(taken, exception)
  PROVE  /\ {o.name : o \in taken} \in SUBSET OptionNames
         /\ \A o, p \in taken : o.name = p.name => o = p
<1>1. \A o \in taken : o.name \in OptionNames
  BY StandsIs DEF Fits
<1>2. \A o, p \in taken : o.name = p.name => o = p
  BY DEF Fits, StandTogether
<1>3. QED  BY <1>1, <1>2

WrittenIn(order, n, taken) ==
  [i \in 1..n |-> WrittenOption(CHOOSE o \in taken : o.name = order[i])]

\* WrittenModifiers writes them in that order.
LEMMA ModifiersInOrder ==
  ASSUME NEW taken, NEW exception, Fits(taken, exception), taken # {}
  PROVE  \E c : /\ InOrder(c, taken) /\ Len(c) >= 1
                /\ WrittenModifiers(taken) = <<"$">> \o WrittenOptions(c)
<1>1. PICK names \in SUBSET OptionNames : names = {o.name : o \in taken}
  BY FitsIs
<1>2. \A o, p \in taken : o.name = p.name => o = p
  BY FitsIs
<1>3. PICK n \in Nat :
        /\ n = Cardinality(names)
        /\ Sorts(Arranged(names, PositionOrder(names)), n, names, PositionOrder(names))
  <2>1. IsFiniteSet(names) /\ Orders(PositionOrder(names), names)
    BY NamesOrdered
  <2>2. QED  BY <2>1, ArrangedSorts
<1>4. PICK order :
        /\ n = Cardinality(names) /\ order = Arranged(names, PositionOrder(names))
        /\ Sorts(order, n, names, PositionOrder(names))
  BY <1>3
<1>5. order \in Bijection(1..n, names)
  BY <1>4, Zenon DEF Sorts
<1>6. /\ order \in [1..n -> names] /\ \A x, y \in 1..n : order[x] = order[y] => x = y
      /\ \A u \in names : \E x \in 1..n : order[x] = u
  BY <1>5, BijectionIs
<1>7. PICK c : c = [i \in 1..n |-> CHOOSE o \in taken : o.name = order[i]]
  OBVIOUS
<1>8. \A i \in 1..n : c[i] \in taken /\ c[i].name = order[i]
  <2>1. SUFFICES ASSUME NEW i \in 1..n PROVE c[i] \in taken /\ c[i].name = order[i]
    OBVIOUS
  <2>2. \E o \in taken : o.name = order[i]
    BY <1>1, <1>6
  <2>3. c[i] = CHOOSE o \in taken : o.name = order[i]
    BY <1>7
  <2>4. QED  BY <2>2, <2>3, Zenon
<1>9. c \in Seq(OptionType) /\ Len(c) = n /\ DOMAIN c = 1..n
  <2>1. taken \subseteq OptionType
    BY Zenon DEF Fits
  <2>2. c \in [1..n -> OptionType]
    BY <1>7, <1>8, <2>1
  <2>3. QED  BY <2>2
<1>10. ToSet(c) = taken
  <2>1. ASSUME NEW o \in taken PROVE o \in ToSet(c)
    <3>1. PICK i \in 1..n : order[i] = o.name
      BY <1>1, <1>6
    <3>2. c[i] = o
      BY <1>2, <1>8, <3>1
    <3>3. QED  BY <1>9, <3>2 DEF ToSet
  <2>2. \A o \in ToSet(c) : o \in taken
    BY <1>8, <1>9 DEF ToSet
  <2>3. QED  BY <2>1, <2>2
<1>11. \A i, j \in 1..n : c[i].name = c[j].name => i = j
  BY <1>6, <1>8
<1>12. [i \in 1..n |-> c[i].name] = order
  BY <1>6, <1>8
<1>13. InOrder(c, taken)
  BY <1>1, <1>4, <1>8, <1>9, <1>10, <1>11, <1>12, Zenon DEF InOrder
<1>14. n >= 1
  <2>1. PICK o \in taken : TRUE
    OBVIOUS
  <2>2. \E i \in 1..n : order[i] = o.name
    BY <1>1, <1>6
  <2>3. QED  BY <2>2
<1>15. WrittenModifiers(taken) = <<"$">> \o WrittenOptions(c)
  <2>1. WrittenModifiers(taken) =
          <<"$">> \o Joined(WrittenIn(Arranged({o.name : o \in taken},
                                              PositionOrder({o.name : o \in taken})),
                                     Cardinality({o.name : o \in taken}), taken), ",")
    BY Zenon DEF WrittenModifiers, WrittenInOrder, PositionOrder, WrittenIn
  <2>2. WrittenModifiers(taken) = <<"$">> \o Joined(WrittenIn(order, n, taken), ",")
    BY <1>1, <1>4, <2>1
  <2>3. WrittenIn(order, n, taken) = [i \in 1..n |-> WrittenOption(c[i])]
    BY <1>7 DEF WrittenIn
  <2>4. QED  BY <1>9, <2>2, <2>3, Zenon DEF WrittenOptions
<1>16. QED  BY <1>9, <1>13, <1>14, <1>15, Zenon

\* Options of one meaning are written alike.
LEMMA SameWritten ==
  ASSUME NEW o \in OptionType, NEW p \in OptionType, NEW x, NEW y, Stands(o, x), Stands(p, y),
         OptionMeaning(o) = OptionMeaning(p)
  PROVE  WrittenOption(o) = WrittenOption(p)
<1>1. o.name = p.name /\ o.negated = p.negated
  BY DEF OptionMeaning
<1>2. CASE o.name # "domain"
  BY <1>1, <1>2, Zenon DEF WrittenOption
<1>3. CASE o.name = "domain"
  <2>1. /\ o.value # <<>> /\ Tail(o.value) \in Seq(Tok) /\ ValidDomainList(Tail(o.value))
        /\ p.value # <<>> /\ Tail(p.value) \in Seq(Tok) /\ ValidDomainList(Tail(p.value))
    BY <1>1, <1>3, StandsIs
  <2>2. ToSet(Entries(Tail(o.value))) = ToSet(Entries(Tail(p.value)))
    BY <2>1 DEF OptionMeaning
  <2>3. canonicalDomainList(Tail(o.value)) = canonicalDomainList(Tail(p.value))
    BY <2>1, <2>2, DomainListOnce
  <2>4. QED  BY <1>1, <1>3, <2>3, Zenon DEF WrittenOption
<1>4. QED  BY <1>2, <1>3

Meanings(taken) == {OptionMeaning(o) : o \in taken}

\* So the options of a rule are known from what they say.
LEMMA ModifiersOnce ==
  ASSUME NEW s, NEW t, NEW x, NEW y, Fits(s, x), Fits(t, y), Meanings(s) = Meanings(t)
  PROVE  WrittenModifiers(s) = WrittenModifiers(t)
<1>1. CASE s = {}
  <2>1. t = {}
    BY <1>1 DEF Meanings
  <2>2. QED  BY <1>1, <2>1
<1>2. CASE s # {}
  <2>1. t # {}
    BY <1>2 DEF Meanings
  <2>2. PICK c : InOrder(c, s) /\ Len(c) >= 1 /\ WrittenModifiers(s) = <<"$">> \o WrittenOptions(c)
    BY <1>2, ModifiersInOrder
  <2>3. PICK d : InOrder(d, t) /\ Len(d) >= 1 /\ WrittenModifiers(t) = <<"$">> \o WrittenOptions(d)
    BY <2>1, ModifiersInOrder
  <2>4. PICK names \in SUBSET OptionNames : names = {o.name : o \in s}
    BY FitsIs
  <2>5. {o.name : o \in t} = names
    <3>1. \A o : OptionMeaning(o).name = o.name
      BY DEF OptionMeaning
    <3>2. \A u : {o.name : o \in u} = {m.name : m \in Meanings(u)}
      BY <3>1 DEF Meanings
    <3>3. QED  BY <2>4, <3>2
  <2>6. PICK m \in Nat, n \in Nat : m = Len(c) /\ n = Len(d)
    BY <2>2, <2>3, Zenon DEF InOrder
  <2>7. m = n /\ [i \in 1..m |-> c[i].name] = [i \in 1..n |-> d[i].name]
    <3>1. Sorts([i \in 1..m |-> c[i].name], m, names, PositionOrder(names))
      BY <2>2, <2>4, <2>6, Zenon DEF InOrder
    <3>2. Sorts([i \in 1..n |-> d[i].name], n, names, PositionOrder(names))
      BY <2>3, <2>5, <2>6, Zenon DEF InOrder
    <3>3. Ranks(PositionOrder(names), names)
      BY NamesOrdered
    <3>4. QED  BY <3>1, <3>2, <3>3, SortedOnce
  <2>8. ASSUME NEW i \in 1..m PROVE WrittenOption(c[i]) = WrittenOption(d[i])
    <3>1. c[i].name = d[i].name
      BY <2>7
    <3>2. c[i] \in s /\ d[i] \in t
      BY <2>2, <2>3, <2>6, <2>7, Zenon DEF InOrder
    <3>3. PICK o \in t : OptionMeaning(c[i]) = OptionMeaning(o)
      BY <3>2, Zenon DEF Meanings
    <3>4. o.name = d[i].name
      BY <3>1, <3>3 DEF OptionMeaning
    <3>5. o = d[i]
      BY <3>2, <3>4, FitsIs
    <3>6. c[i] \in OptionType /\ d[i] \in OptionType /\ Stands(c[i], x) /\ Stands(d[i], y)
      BY <3>2, Zenon DEF Fits
    <3>7. QED  BY <3>3, <3>5, <3>6, SameWritten, Zenon
  <2>9. [i \in 1..m |-> WrittenOption(c[i])] = [i \in 1..n |-> WrittenOption(d[i])]
    BY <2>7, <2>8
  <2>10. WrittenOptions(c) = WrittenOptions(d)
    BY <2>6, <2>9, Zenon DEF WrittenOptions
  <2>11. QED  BY <2>2, <2>3, <2>10, Zenon
<1>3. QED  BY <1>1, <1>2

CanonicalOnes(taken) == {CanonicalOption(o) : o \in taken}

\* An option as it is written may stand where it stood and means the same, and
\* scripts/validate.sh accepts it.
LikeIt(k, o, exception) ==
  /\ k \in OptionType /\ k.name = o.name /\ k.negated = o.negated
  /\ Stands(k, exception) /\ OptionMeaning(k) = OptionMeaning(o) /\ AcceptsOption(k, exception)

\* Putting its domains in order does not change what an option is.
LEMMA CanonicalIsLike ==
  ASSUME NEW o \in OptionType, NEW exception, Stands(o, exception)
  PROVE  LikeIt(CanonicalOption(o), o, exception)
<1>1. PICK k : k = CanonicalOption(o)
  OBVIOUS
<1>2. o.negated \in BOOLEAN /\ o.name \in Tok
  BY DEF OptionType
<1>3. CASE o.name # "domain"
  <2>1. k = [negated |-> o.negated, name |-> o.name, value |-> <<>>]
    BY <1>1, <1>3 DEF CanonicalOption
  <2>2. <<>> \in Seq(Tok)
    BY EmptySeq
  <2>3. k \in OptionType /\ k.name = o.name /\ k.negated = o.negated /\ k.value = <<>>
    BY <1>2, <2>1, <2>2 DEF OptionType
  <2>4. o.value = <<>>
    BY <1>3, StandsIs
  <2>5. Stands(k, exception)
    BY <1>3, <2>3, <2>4, Zenon DEF Stands
  <2>6. OptionMeaning(k) = OptionMeaning(o)
    BY <2>3, <2>4, Zenon DEF OptionMeaning
  <2>7. AcceptsOption(k, exception)
    BY <1>3, <2>3, <2>5 DEF AcceptsOption, Stands
  <2>8. QED  BY <1>1, <2>3, <2>5, <2>6, <2>7, Zenon DEF LikeIt
<1>4. CASE o.name = "domain"
  <2>1. ~o.negated /\ o.value # <<>>
    BY <1>4, StandsIs
  <2>2. PICK l \in Seq(Tok) : l = Tail(o.value) /\ ValidDomainList(l)
    BY <1>4, StandsIs
  <2>3. PICK w \in Seq(Tok) : w = canonicalDomainList(l) /\ DomainList(w, l)
    <3>1. DomainList(canonicalDomainList(l), l)
      BY <2>2, DomainListIs
    <3>2. QED  BY <3>1, Zenon DEF DomainList
  <2>4. "=" \in Tok
    BY MarkFacts DEF Marks
  <2>5. PICK v \in Seq(Tok) : v = <<"=">> \o w /\ v # <<>> /\ Tail(v) = w /\ Len(v) = Len(w) + 1
    BY <2>4, InFront
  <2>6. w # <<>> /\ Lowered(w) = w /\ ValidDomainList(w) /\ ToSet(Entries(w)) = ToSet(Entries(l))
    BY <2>3, Zenon DEF DomainList
  <2>7. Len(v) > 1
    BY <2>5, <2>6, FirstAndRest
  <2>8. k = [negated |-> o.negated, name |-> o.name, value |-> v]
    BY <1>1, <1>4, <2>2, <2>3, <2>5 DEF CanonicalOption
  <2>9. k \in OptionType /\ k.name = o.name /\ k.negated = o.negated /\ k.value = v
    BY <1>2, <2>8 DEF OptionType
  <2>10. Stands(k, exception)
    BY <1>4, <2>1, <2>5, <2>6, <2>7, <2>9 DEF Stands
  <2>11. OptionMeaning(k) = OptionMeaning(o)
    BY <2>1, <2>2, <2>5, <2>6, <2>9 DEF OptionMeaning
  <2>12. AcceptsOption(k, exception)
    BY <1>4, <2>1, <2>5, <2>6, <2>7, <2>9 DEF AcceptsOption, AcceptsDomains
  <2>13. QED  BY <1>1, <2>9, <2>10, <2>11, <2>12, Zenon DEF LikeIt
<1>5. QED  BY <1>3, <1>4

\* So the options as they are written fit, and say the same.
LEMMA CanonicalFits ==
  ASSUME NEW taken, NEW exception, Fits(taken, exception)
  PROVE  Fits(CanonicalOnes(taken), exception) /\ Meanings(CanonicalOnes(taken)) = Meanings(taken)
<1>1. \A o \in taken : o \in OptionType /\ Stands(o, exception)
  BY Zenon DEF Fits
<1>2. ASSUME NEW o \in taken
      PROVE  LikeIt(CanonicalOption(o), o, exception)
  BY <1>1, CanonicalIsLike
<1>3. /\ CanonicalOnes(taken) \subseteq OptionType
      /\ \A k \in CanonicalOnes(taken) : Stands(k, exception)
  BY <1>2 DEF CanonicalOnes, LikeIt
<1>4. ASSUME NEW k \in CanonicalOnes(taken), NEW l \in CanonicalOnes(taken), k # l
      PROVE  StandTogether(k, l)
  <2>1. PICK o \in taken : k = CanonicalOption(o)
    BY Zenon DEF CanonicalOnes
  <2>2. PICK p \in taken : l = CanonicalOption(p)
    BY Zenon DEF CanonicalOnes
  <2>3. StandTogether(o, p)
    BY <1>4, <2>1, <2>2, Zenon DEF Fits
  <2>4. k.name = o.name /\ k.negated = o.negated /\ l.name = p.name /\ l.negated = p.negated
    BY <1>2, <2>1, <2>2, Zenon DEF LikeIt
  <2>5. QED  BY <2>3, <2>4 DEF StandTogether
<1>5. \A o \in taken : OptionMeaning(CanonicalOption(o)) = OptionMeaning(o)
  BY <1>2, Zenon DEF LikeIt
<1>6. Meanings(CanonicalOnes(taken)) = Meanings(taken)
  BY <1>5 DEF Meanings, CanonicalOnes
<1>7. QED  BY <1>3, <1>4, <1>6 DEF Fits

\* Options written out are read as themselves, and accepted.
ReadsBack(m, taken, exception) ==
  \E j \in Seq(Tok) :
    /\ m = <<"$">> \o j
    /\ parseModifiers(j, exception) = [ok |-> TRUE, taken |-> CanonicalOnes(taken)]
    /\ AcceptsModifiers(j, exception)
    /\ \A seps : Plain(seps) /\ "," \notin seps => Avoids(j, seps)

\* parseModifiers reads what WrittenModifiers writes.
LEMMA ModifiersRead ==
  ASSUME NEW taken, NEW exception, Fits(taken, exception), taken # {}
  PROVE  ReadsBack(WrittenModifiers(taken), taken, exception)
<1>1. PICK c : /\ InOrder(c, taken) /\ Len(c) >= 1
               /\ WrittenModifiers(taken) = <<"$">> \o WrittenOptions(c)
  BY ModifiersInOrder
<1>2. PICK n \in Nat : n = Len(c) /\ n >= 1
  BY <1>1, Zenon DEF InOrder
<1>3. /\ \A i \in 1..n : c[i] \in taken /\ c[i] \in OptionType /\ Stands(c[i], exception)
      /\ \A i, k \in 1..n : i # k => StandTogether(c[i], c[k])
  <2>1. /\ \A i \in 1..n : c[i] \in taken
        /\ \A i, k \in 1..n : c[i].name = c[k].name => i = k
    BY <1>1, <1>2, Zenon DEF InOrder
  <2>2. \A i \in 1..n : c[i] \in OptionType /\ Stands(c[i], exception)
    BY <2>1, Zenon DEF Fits
  <2>3. \A i, k \in 1..n : i # k => c[i] # c[k]
    BY <2>1, Zenon
  <2>4. \A i, k \in 1..n : i # k => StandTogether(c[i], c[k])
    BY <2>1, <2>3, Zenon DEF Fits
  <2>5. QED  BY <2>1, <2>2, <2>4, Zenon
<1>4. ASSUME NEW i \in 1..n
      PROVE  /\ WritesOption(WrittenOption(c[i]), c[i])
             /\ LikeIt(CanonicalOption(c[i]), c[i], exception)
  <2>1. c[i] \in OptionType /\ Stands(c[i], exception)
    BY <1>3
  <2>2. WritesOption(WrittenOption(c[i]), c[i])
    BY <2>1, WrittenOptionIs
  <2>3. LikeIt(CanonicalOption(c[i]), c[i], exception)
    BY <2>1, CanonicalIsLike
  <2>4. QED  BY <2>2, <2>3
<1>5. PICK ws \in Seq(Seq(Tok)) :
        /\ ws = [i \in 1..n |-> WrittenOption(c[i])] /\ Len(ws) = n
        /\ \A i \in 1..n : ws[i] = WrittenOption(c[i])
  <2>1. \A i \in 1..n : WrittenOption(c[i]) \in Seq(Tok)
    BY <1>4, Zenon DEF WritesOption
  <2>2. PICK ws : ws = [i \in 1..n |-> WrittenOption(c[i])]
    OBVIOUS
  <2>3. ws \in [1..n -> Seq(Tok)] /\ \A i \in 1..n : ws[i] = WrittenOption(c[i])
    BY <2>1, <2>2
  <2>4. ws \in Seq(Seq(Tok)) /\ Len(ws) = n
    BY <2>3
  <2>5. QED  BY <2>2, <2>3, <2>4, Zenon
<1>6. \A i \in 1..n : /\ Option(ws[i]) = CanonicalOption(c[i])
                      /\ \A seps : Plain(seps) => Avoids(ws[i], seps)
  BY <1>4, <1>5, Zenon DEF WritesOption
<1>7. "," \in Tok /\ Plain({","})
  <2>1. "," \in Tok /\ "," \notin Words
    BY MarkFacts DEF Marks
  <2>2. "," \notin OptionNames
    BY NameFacts DEF Special
  <2>3. QED  BY <2>1, <2>2 DEF Plain
<1>8. PICK j \in Seq(Tok) : j = Joined(ws, ",")
  BY <1>7, JoinedType
<1>9. Split(j, ",") = ws
  <2>1. AllAvoid(ws, ",")
    BY <1>5, <1>6, <1>7, Zenon DEF AllAvoid
  <2>2. ws # <<>>
    BY <1>2, <1>5, EmptySeq
  <2>3. QED  BY <1>7, <1>8, <2>1, <2>2, SplitOfJoined
<1>10. \A i \in 1..n : LikeIt(Option(ws[i]), c[i], exception)
  BY <1>4, <1>6, Zenon
<1>11. \A i, k \in 1..n : i # k => StandTogether(Option(ws[i]), Option(ws[k]))
  <2>1. \A i \in 1..n : Option(ws[i]).name = c[i].name /\ Option(ws[i]).negated = c[i].negated
    BY <1>10, Zenon DEF LikeIt
  <2>2. SUFFICES ASSUME NEW i \in 1..n, NEW k \in 1..n, i # k
                 PROVE  StandTogether(Option(ws[i]), Option(ws[k]))
    OBVIOUS
  <2>3. StandTogether(c[i], c[k])
    BY <1>3, <2>2, Zenon
  <2>4. QED  BY <2>1, <2>3 DEF StandTogether
<1>12. \A i \in 1..n : Stands(Option(ws[i]), exception)
  BY <1>10, Zenon DEF LikeIt
<1>13. parseModifiers(j, exception) = [ok |-> TRUE, taken |-> Taken(ws, n)]
  BY <1>5, <1>9, <1>11, <1>12, FittingParts
<1>14. Taken(ws, n) = CanonicalOnes(taken)
  <2>1. ASSUME NEW o \in taken PROVE CanonicalOption(o) \in Taken(ws, n)
    <3>1. PICK i \in 1..n : c[i] = o
      <4>1. DOMAIN c = 1..n /\ ToSet(c) = taken
        BY <1>1, <1>2, LenProperties DEF InOrder
      <4>2. QED  BY <4>1 DEF ToSet
    <3>2. Option(ws[i]) = CanonicalOption(o)
      BY <1>6, <3>1
    <3>3. QED  BY <3>2, Zenon DEF Taken
  <2>2. ASSUME NEW i \in 1..n PROVE Option(ws[i]) \in CanonicalOnes(taken)
    BY <1>3, <1>6, Zenon DEF CanonicalOnes
  <2>3. QED  BY <2>1, <2>2 DEF CanonicalOnes, Taken
<1>15. AcceptsModifiers(j, exception)
  <2>1. DOMAIN ws = 1..n
    BY <1>5, LenProperties
  <2>9. PICK os : os = [i \in 1..n |-> Option(ws[i])]
    OBVIOUS
  <2>2. /\ os = [i \in 1..n |-> Option(ws[i])] /\ DOMAIN os = 1..n
        /\ \A i \in 1..n : os[i] = Option(ws[i])
    BY <2>9
  <2>3. \A i \in 1..n : AcceptsOption(os[i], exception)
    BY <1>10, <2>2, Zenon DEF LikeIt
  <2>4. \A i, k \in 1..n : os[k].name = os[i].name => k = i
    BY <1>11, <2>2, Zenon DEF StandTogether
  <2>5. \A o, p \in ToSet(os) : o # p => StandTogether(o, p)
    BY <1>11, <2>2 DEF ToSet
  <2>6. \A o, p \in Among(ElementTypes, ToSet(os)) : o.negated = p.negated
    BY <2>5 DEF Among, StandTogether
  <2>7. Among(ElementTypes, ToSet(os)) = {} \/ Among(ActivationTypes, ToSet(os)) = {}
    <3>1. ElementTypes \cap ActivationTypes = {}
      BY DEF ElementTypes, ActivationTypes
    <3>2. QED  BY <2>5, <3>1 DEF Among, StandTogether
  <2>8. QED  BY <1>9, <2>1, <2>2, <2>3, <2>4, <2>6, <2>7, Zenon DEF AcceptsModifiers
<1>16. ASSUME NEW seps, Plain(seps), "," \notin seps
       PROVE  Avoids(j, seps)
  <2>1. \A i \in 1..Len(ws) : Avoids(ws[i], seps)
    BY <1>5, <1>6, <1>16, Zenon
  <2>2. QED  BY <1>7, <1>8, <1>16, <2>1, AvoidsJoined
<1>17. WrittenModifiers(taken) = <<"$">> \o j
  BY <1>1, <1>2, <1>5, <1>8, Zenon DEF WrittenOptions
<1>18. QED  BY <1>13, <1>14, <1>15, <1>16, <1>17, Zenon DEF ReadsBack

\* What Meaning says of the options is what they say.
MeaningOptions(opts) == {OptionMeaning(Option(part)) : part \in ToSet(Split(opts, ","))}

\* That is the meaning of the options that parseModifiers takes.
LEMMA MeaningOptionsIs ==
  ASSUME NEW opts \in Seq(Tok), NEW exception
  PROVE  MeaningOptions(opts) = Meanings(parseModifiers(opts, exception).taken)
<1>1. PICK parts \in Seq(Seq(Tok)), n \in Nat :
        /\ parts = Split(opts, ",") /\ n = Len(parts)
        /\ parseModifiers(opts, exception) =
             [ok |-> AllFit(parts, n, exception), taken |-> Taken(parts, n)]
  BY ParsedIs, Zenon DEF Parsed
<1>2. DOMAIN parts = 1..n
  BY <1>1, LenProperties
<1>3. ASSUME NEW m \in MeaningOptions(opts) PROVE m \in Meanings(Taken(parts, n))
  <2>1. PICK part \in ToSet(parts) : m = OptionMeaning(Option(part))
    BY <1>1, <1>3, Zenon DEF MeaningOptions
  <2>2. PICK i \in 1..n : part = parts[i]
    BY <1>2, <2>1, Zenon DEF ToSet
  <2>3. Option(parts[i]) \in Taken(parts, n)
    BY Zenon DEF Taken
  <2>4. QED  BY <2>1, <2>2, <2>3, Zenon DEF Meanings
<1>4. ASSUME NEW m \in Meanings(Taken(parts, n)) PROVE m \in MeaningOptions(opts)
  <2>1. PICK o \in Taken(parts, n) : m = OptionMeaning(o)
    BY <1>4, Zenon DEF Meanings
  <2>2. PICK i \in 1..n : o = Option(parts[i])
    BY <2>1, Zenon DEF Taken
  <2>3. parts[i] \in ToSet(parts)
    BY <1>2, Zenon DEF ToSet
  <2>4. QED  BY <1>1, <2>1, <2>2, <2>3, Zenon DEF MeaningOptions
<1>5. MeaningOptions(opts) = Meanings(Taken(parts, n))
  BY <1>3, <1>4
<1>6. parseModifiers(opts, exception).taken = Taken(parts, n)
  <2>1. PICK r, t : r = parseModifiers(opts, exception) /\ t = Taken(parts, n)
    OBVIOUS
  <2>2. r = [ok |-> AllFit(parts, n, exception), taken |-> t]
    BY <1>1, <2>1
  <2>3. r.taken = t
    BY <2>2
  <2>4. QED  BY <2>1, <2>3
<1>7. QED  BY <1>5, <1>6, Zenon

\* The option that narrows a bare domain.
ThirdParty == [negated |-> FALSE, name |-> "third-party", value |-> <<>>]

\* It fits, and is written as it stands.
LEMMA ThirdPartyIs ==
  ASSUME NEW exception
  PROVE  Fits({ThirdParty}, exception) /\ WrittenModifiers({ThirdParty}) = <<"$", "third-party">>
<1>1. "third-party" \in OptionNames /\ "third-party" \in Tok
  BY NamesAre, NameFacts
<1>2. <<>> \in Seq(Tok)
  BY EmptySeq
<1>3. ThirdParty \in OptionType
  BY <1>1, <1>2 DEF ThirdParty, OptionType
<1>4. Stands(ThirdParty, exception)
  BY DEF ThirdParty, Stands
<1>5. Fits({ThirdParty}, exception)
  BY <1>3, <1>4 DEF Fits
<1>6. PICK c : /\ InOrder(c, {ThirdParty}) /\ Len(c) >= 1
               /\ WrittenModifiers({ThirdParty}) = <<"$">> \o WrittenOptions(c)
  <2>1. {ThirdParty} # {}
    OBVIOUS
  <2>2. QED  BY <1>5, <2>1, ModifiersInOrder
<1>7. PICK n \in Nat : n = Len(c) /\ n >= 1
  BY <1>6, Zenon DEF InOrder
<1>8. /\ \A i \in 1..n : c[i] = ThirdParty
      /\ \A i, j \in 1..n : c[i].name = c[j].name => i = j
  BY <1>6, <1>7 DEF InOrder
<1>9. n = 1
  <2>1. \A i \in 1..n : i = 1
    BY <1>7, <1>8
  <2>2. n \in 1..n
    BY <1>7
  <2>3. QED  BY <2>1, <2>2
<1>10. PICK w \in Seq(Tok) : w = <<"third-party">>
  BY <1>1, OneToken
<1>11. WrittenOption(ThirdParty) = w
  <2>1. (<<>> \o <<"third-party">>) \o <<>> = w
    BY <1>10, ConcatEmptySeq
  <2>2. WrittenOption(ThirdParty) = (<<>> \o <<"third-party">>) \o <<>>
    BY DEF WrittenOption, ThirdParty
  <2>3. QED  BY <2>1, <2>2
<1>12. "," \in Tok /\ "$" \in Tok
  BY MarkFacts DEF Marks
<1>13. WrittenOptions(c) = w
  <2>1. PICK e \in Seq(Seq(Tok)) : e = <<>>
    BY EmptySeq
  <2>2. JoinsTo(Tok, ",", e, w)
    BY <1>12, JoinedIs
  <2>3. Joined(Append(e, w), ",") = w
    BY <2>1, <2>2, Zenon DEF JoinsTo
  <2>4. [i \in 1..n |-> WrittenOption(c[i])] = Append(e, w)
    <3>1. PICK ws : ws = [i \in 1..n |-> WrittenOption(c[i])]
      OBVIOUS
    <3>0. 1 \in 1..1 /\ c[1] = ThirdParty
      BY <1>8, <1>9
    <3>2. ws \in [1..n -> Seq(Tok)] /\ ws[1] = w
      BY <1>8, <1>9, <1>11, <3>0, <3>1
    <3>8. ws \in Seq(Seq(Tok)) /\ Len(ws) = n
      BY <3>2
    <3>3. ws \in Seq(Seq(Tok)) /\ Len(ws) = 1
      BY <1>9, <3>8
    <3>4. Append(e, w) \in Seq(Seq(Tok)) /\ Len(Append(e, w)) = 1 /\ Append(e, w)[1] = w
      BY <2>1
    <3>5. \A i \in 1..Len(ws) : ws[i] = Append(e, w)[i]
      BY <3>2, <3>3, <3>4
    <3>6. ws = Append(e, w)
      BY <3>3, <3>4, <3>5, SameTokens
    <3>7. QED  BY <3>1, <3>6
  <2>5. WrittenOptions(c) = Joined([i \in 1..n |-> WrittenOption(c[i])], ",")
    BY <1>7, Zenon DEF WrittenOptions
  <2>6. QED  BY <2>3, <2>4, <2>5, Zenon
<1>14. <<"$">> \o w = <<"$", "third-party">>
  <2>1. <<"$", "third-party">> = <<"$">> \o <<"third-party">>
    <3>1. \A a, b \in Tok : <<a, b>> = <<a>> \o <<b>>
      BY TwoTokens
    <3>2. QED  BY <1>1, <1>12, <3>1
  <2>2. QED  BY <1>10, <2>1
<1>15. QED  BY <1>5, <1>6, <1>13, <1>14

-------------------------------------------------------------------------------
(* Lines                                                                   *)

\* The last "$" of a line, and the pattern and the options it divides.
Dollars(line) == {i \in 1..Len(line) : line[i] = "$"}
LastDollar(line) ==
  IF Dollars(line) # {} THEN CHOOSE x \in Dollars(line) : \A y \in Dollars(line) : x >= y ELSE 0
PatternOf(line, at) == IF at = 0 THEN line ELSE SubSeq(line, 1, at - 1)
ModifiersOf(line, at, exception) ==
  IF at = 0 THEN [ok |-> TRUE, taken |-> {}]
  ELSE parseModifiers(SubSeq(line, at + 1, Len(line)), exception)
NetworkRule(pattern, mods, exception) ==
  IF "$" \in ToSet(pattern) \/ ~mods.ok THEN Rejected("unsupported-modifier")
  ELSE IF Pattern(pattern).ok THEN Emitted(Pattern(pattern).rule \o WrittenModifiers(mods.taken))
  ELSE Rejected(IF Pattern(pattern).reason = "" THEN FallbackReason(exception)
                ELSE Pattern(pattern).reason)

\* normalizeNetwork in these terms.
LEMMA NetworkSteps ==
  ASSUME NEW line, NEW exception
  PROVE  normalizeNetwork(line, exception) =
           NetworkRule(PatternOf(line, LastDollar(line)),
                       ModifiersOf(line, LastDollar(line), exception), exception)
BY Zenon DEF normalizeNetwork, NetworkRule, ModifiersOf, PatternOf, LastDollar, Dollars,
             SelectLastInSeq, Max

\* A line holds a "$" after which there is no other, or none.
LEMMA LastDollarIs ==
  ASSUME NEW b \in Seq(Tok)
  PROVE  \/ Avoids(b, {"$"})
         \/ \E p \in Seq(Tok), o \in Seq(Tok) : b = p \o (<<"$">> \o o) /\ Avoids(o, {"$"})
<1>1. PICK l \in Nat : l = Len(b)
  BY LenProperties
<1>2. PICK S \in SUBSET Nat : S = {n \in Nat : n <= l /\ \A i \in (n + 1)..l : b[i] # "$"}
  OBVIOUS
<1>3. l \in S
  BY <1>2
<1>4. PICK m \in S : \A y \in S : m <= y
  BY <1>3, LeastIs
<1>5. m \in Nat /\ m <= l /\ \A i \in (m + 1)..l : b[i] # "$"
  BY <1>2
<1>6. CASE m = 0
  BY <1>1, <1>5, <1>6 DEF Avoids
<1>7. CASE m # 0
  <2>1. PICK k \in Nat : k = m - 1 /\ m = k + 1 /\ k <= l
    BY <1>5, <1>7
  <2>2. k \notin S
    BY <1>4, <2>1
  <2>3. b[m] = "$"
    <3>1. PICK i \in (k + 1)..l : b[i] = "$"
      BY <1>2, <2>1, <2>2
    <3>2. i = m
      BY <1>5, <2>1, <3>1
    <3>3. QED  BY <3>1, <3>2
  <2>4. PICK p \in Seq(Tok), r \in Seq(Tok) : MadeOf(b, p, r) /\ Len(p) = k
    <3>1. /\ SubSeq(b, 1, k) \in Seq(Tok) /\ SubSeq(b, k + 1, Len(b)) \in Seq(Tok)
          /\ MadeOf(b, SubSeq(b, 1, k), SubSeq(b, k + 1, Len(b))) /\ Len(SubSeq(b, 1, k)) = k
      BY <1>1, <2>1, TakenApart
    <3>2. QED  BY <3>1, Zenon
  <2>5. /\ b = p \o r /\ l = k + Len(r) /\ Len(r) \in Nat
        /\ \A i \in 1..Len(r) : b[k + i] = r[i]
    BY <1>1, <2>4, Zenon DEF MadeOf
  <2>6. Len(r) >= 1
    BY <1>5, <2>1, <2>5
  <2>7. r # <<>>
    BY <2>6, EmptySeq
  <2>8. r[1] = "$"
    <3>1. 1 \in 1..Len(r)
      BY <2>5, <2>6
    <3>2. b[k + 1] = r[1]
      BY <2>5, <3>1
    <3>3. QED  BY <2>1, <2>3, <3>2
  <2>9. PICK o \in Seq(Tok) : r = <<"$">> \o o /\ Len(o) = Len(r) - 1
    BY <2>7, <2>8, FirstAndRest
  <2>10. \A i \in 1..Len(o) : o[i] = r[i + 1]
    <3>1. "$" \in Tok
      BY MarkFacts DEF Marks
    <3>2. PICK d \in Seq(Tok) : d = <<"$">> /\ Len(d) = 1
      BY <3>1, OneToken
    <3>3. Len(o) \in Nat /\ \A i \in 1..Len(o) : (d \o o)[1 + i] = o[i]
      BY <3>2, ConcatIs
    <3>4. QED  BY <2>9, <3>2, <3>3
  <2>11. \A i \in 1..Len(o) : i + 1 \in 1..Len(r) /\ k + (i + 1) \in (m + 1)..l
    BY <2>1, <2>5, <2>9
  <2>12. \A i \in 1..Len(o) : o[i] # "$"
    BY <1>5, <2>5, <2>10, <2>11, Zenon
  <2>13. QED  BY <2>5, <2>9, <2>12, Zenon DEF Avoids
<1>8. QED  BY <1>6, <1>7

\* Where it is known, so is what normalizeNetwork does.
LEMMA NetworkIs ==
  ASSUME NEW p \in Seq(Tok), NEW exception
  PROVE  /\ Avoids(p, {"$"}) =>
              normalizeNetwork(p, exception) =
                NetworkRule(p, [ok |-> TRUE, taken |-> {}], exception)
         /\ \A o \in Seq(Tok) : Avoids(o, {"$"}) =>
              normalizeNetwork(p \o (<<"$">> \o o), exception) =
                NetworkRule(p, parseModifiers(o, exception), exception)
<1>1. ASSUME Avoids(p, {"$"})
      PROVE  normalizeNetwork(p, exception) =
               NetworkRule(p, [ok |-> TRUE, taken |-> {}], exception)
  <2>1. Dollars(p) = {}
    BY <1>1 DEF Dollars, Avoids
  <2>2. LastDollar(p) = 0
    BY <2>1, Zenon DEF LastDollar
  <2>3. QED  BY <2>2, NetworkSteps, Zenon DEF PatternOf, ModifiersOf
<1>2. ASSUME NEW o \in Seq(Tok), Avoids(o, {"$"})
      PROVE  normalizeNetwork(p \o (<<"$">> \o o), exception) =
               NetworkRule(p, parseModifiers(o, exception), exception)
  <2>1. "$" \in Tok
    BY MarkFacts DEF Marks
  <2>2. PICK d \in Seq(Tok) : d = <<"$">> /\ Len(d) = 1 /\ d[1] = "$"
    BY <2>1, OneToken
  <2>3. PICK r \in Seq(Tok) : r = d \o o /\ MadeOf(r, d, o)
    BY MadeOfParts
  <2>4. PICK b \in Seq(Tok) : b = p \o r /\ MadeOf(b, p, r)
    BY MadeOfParts
  <2>5. PICK at \in Nat, m \in Nat, l \in Nat :
          at = Len(p) /\ m = Len(o) /\ l = at + (1 + m) /\ l = Len(b) /\ Len(r) = 1 + m
    <3>1. Len(p) \in Nat /\ Len(o) \in Nat /\ Len(r) = 1 + Len(o) /\ Len(b) = Len(p) + Len(r)
      BY <2>2, <2>3, <2>4, Zenon DEF MadeOf
    <3>2. QED  BY <3>1
  <2>6. b[at + 1] = "$"
    <3>1. \A i \in 1..Len(r) : b[at + i] = r[i]
      BY <2>4, <2>5, Zenon DEF MadeOf
    <3>2. r[1] = d[1]
      <4>1. \A i \in 1..Len(d) : r[i] = d[i]
        BY <2>3, Zenon DEF MadeOf
      <4>2. QED  BY <2>2, <4>1
    <3>3. 1 \in 1..Len(r)
      BY <2>5
    <3>4. QED  BY <2>2, <3>1, <3>2, <3>3
  <2>7. \A i \in 1..m : b[(at + 1) + i] # "$"
    <3>1. SUFFICES ASSUME NEW i \in 1..m PROVE b[(at + 1) + i] # "$"
      OBVIOUS
    <3>2. 1 + i \in 1..Len(r) /\ (at + 1) + i = at + (1 + i)
      BY <2>5
    <3>3. b[at + (1 + i)] = r[1 + i]
      BY <2>4, <2>5, <3>2, Zenon DEF MadeOf
    <3>4. r[1 + i] = o[i]
      BY <2>2, <2>3, <2>5, <3>1, Zenon DEF MadeOf
    <3>5. o[i] # "$"
      BY <1>2, <2>5 DEF Avoids
    <3>6. QED  BY <3>2, <3>3, <3>4, <3>5
  <2>8. at + 1 \in Dollars(b) /\ \A y \in Dollars(b) : at + 1 >= y
    <3>1. at + 1 \in Dollars(b)
      BY <2>5, <2>6 DEF Dollars
    <3>2. ASSUME NEW y \in 1..l, y > at + 1 PROVE b[y] # "$"
      <4>1. y - (at + 1) \in 1..m /\ (at + 1) + (y - (at + 1)) = y
        BY <2>5, <3>2
      <4>2. QED  BY <2>7, <4>1
    <3>3. \A y \in Dollars(b) : y \in 1..l /\ b[y] = "$"
      BY <2>5 DEF Dollars
    <3>4. ASSUME NEW y \in Dollars(b) PROVE at + 1 >= y
      <4>1. y \in 1..l /\ b[y] = "$"
        BY <3>3
      <4>2. ~(y > at + 1)
        BY <3>2, <4>1
      <4>3. QED  BY <2>5, <4>1, <4>2
    <3>5. QED  BY <3>1, <3>4
  <2>9. \A y \in Dollars(b) : (\A z \in Dollars(b) : y >= z) => y = at + 1
    <3>1. \A y \in Dollars(b) : y \in Int
      BY <2>5 DEF Dollars
    <3>2. QED  BY <2>8, <3>1
  <2>10. LastDollar(b) = at + 1
    <3>1. Dollars(b) # {}
      BY <2>8
    <3>2. \E x \in Dollars(b) : \A y \in Dollars(b) : x >= y
      BY <2>8, Zenon
    <3>3. PICK last : last = CHOOSE x \in Dollars(b) : \A y \in Dollars(b) : x >= y
      OBVIOUS
    <3>4. last \in Dollars(b) /\ \A y \in Dollars(b) : last >= y
      BY <3>2, <3>3, Zenon
    <3>5. last = at + 1
      BY <2>9, <3>4, Zenon
    <3>6. QED  BY <3>1, <3>3, <3>5, Zenon DEF LastDollar
  <2>11. PatternOf(b, at + 1) = p
    <3>1. at + 1 # 0 /\ (at + 1) - 1 = at
      OBVIOUS
    <3>2. SubSeq(b, 1, at) = p
      BY <2>4, <2>5, Zenon DEF MadeOf
    <3>3. QED  BY <3>1, <3>2 DEF PatternOf
  <2>12. SubSeq(b, (at + 1) + 1, Len(b)) = o
    <3>1. PICK c \in Seq(Tok) : c = p \o d /\ Len(c) = at + 1
      <4>1. PICK c \in Seq(Tok) : c = p \o d
        BY ConcatIs
      <4>2. Len(c) = Len(p) + Len(d)
        BY <4>1, ConcatIs
      <4>3. QED  BY <2>2, <2>5, <4>1, <4>2
    <3>2. b = c \o o
      <4>1. Regroups(p, d, o)
        BY RegroupsIs
      <4>2. QED  BY <2>3, <2>4, <3>1, <4>1 DEF Regroups
    <3>3. MadeOf(c \o o, c, o)
      BY MadeOfParts
    <3>4. QED  BY <3>1, <3>2, <3>3, Zenon DEF MadeOf
  <2>13. ModifiersOf(b, at + 1, exception) = parseModifiers(o, exception)
    <3>1. at + 1 # 0
      OBVIOUS
    <3>2. QED  BY <2>12, <3>1 DEF ModifiersOf
  <2>14. normalizeNetwork(b, exception) = NetworkRule(p, parseModifiers(o, exception), exception)
    BY <2>10, <2>11, <2>13, NetworkSteps
  <2>15. QED  BY <2>2, <2>3, <2>4, <2>14
<1>3. QED  BY <1>1, <1>2

\* A text and the set of its tokens avoid the same.
LEMMA AvoidsIs ==
  ASSUME NEW s \in Seq(Tok), NEW seps
  PROVE  Avoids(s, seps) <=> ToSet(s) \cap seps = {}
<1>1. DOMAIN s = 1..Len(s)
  BY LenProperties
<1>2. QED  BY <1>1 DEF Avoids, ToSet

\* A network rule that normalizeNetwork accepts, its pattern and its options.
NetworkParts(line, p, taken, exception) ==
  /\ p \in Seq(Tok) /\ Avoids(p, {"$"}) /\ Pattern(p).ok /\ Fits(taken, exception)
  /\ \/ line = p /\ taken = {}
     \/ \E o \in Seq(Tok) :
          /\ line = p \o (<<"$">> \o o) /\ Avoids(o, {"$"})
          /\ parseModifiers(o, exception).ok
          /\ taken = parseModifiers(o, exception).taken /\ taken # {}

\* What it is emitted as.
LEMMA NetworkAccepts ==
  ASSUME NEW line, NEW p, NEW taken, NEW exception, NetworkParts(line, p, taken, exception)
  PROVE  normalizeNetwork(line, exception) = Emitted(Pattern(p).rule \o WrittenModifiers(taken))
<1>1. p \in Seq(Tok) /\ Avoids(p, {"$"}) /\ Pattern(p).ok
  BY Zenon DEF NetworkParts
<1>2. "$" \notin ToSet(p)
  BY <1>1, AvoidsIs
<1>3. ASSUME NEW mods, mods.ok, mods.taken = taken
      PROVE  NetworkRule(p, mods, exception) = Emitted(Pattern(p).rule \o WrittenModifiers(taken))
  BY <1>1, <1>2, <1>3, Zenon DEF NetworkRule
<1>4. CASE line = p /\ taken = {}
  <2>1. PICK mods : mods = [ok |-> TRUE, taken |-> {}]
    OBVIOUS
  <2>2. mods.ok /\ mods.taken = taken
    BY <1>4, <2>1
  <2>3. normalizeNetwork(p, exception) = NetworkRule(p, mods, exception)
    BY <1>1, <2>1, NetworkIs
  <2>4. QED  BY <1>3, <1>4, <2>2, <2>3
<1>5. CASE \E o \in Seq(Tok) :
             /\ line = p \o (<<"$">> \o o) /\ Avoids(o, {"$"})
             /\ parseModifiers(o, exception).ok
             /\ taken = parseModifiers(o, exception).taken /\ taken # {}
  <2>1. PICK o \in Seq(Tok) :
          /\ line = p \o (<<"$">> \o o) /\ Avoids(o, {"$"})
          /\ parseModifiers(o, exception).ok /\ taken = parseModifiers(o, exception).taken
    BY <1>5
  <2>2. normalizeNetwork(line, exception) = NetworkRule(p, parseModifiers(o, exception), exception)
    BY <1>1, <2>1, NetworkIs
  <2>3. QED  BY <1>3, <2>1, <2>2, Zenon
<1>6. QED  BY <1>4, <1>5, Zenon DEF NetworkParts

\* No options fit.
LEMMA NoOptionsFit ==
  ASSUME NEW exception
  PROVE  Fits({}, exception) /\ WrittenModifiers({}) = <<>>
BY Zenon DEF Fits, WrittenModifiers

\* There is no other.
LEMMA NetworkAccepted ==
  ASSUME NEW line \in Seq(Tok), NEW exception, normalizeNetwork(line, exception).ok
  PROVE  \E p, taken : NetworkParts(line, p, taken, exception)
<1>1. ASSUME NEW p \in Seq(Tok), NEW mods, NetworkRule(p, mods, exception).ok
      PROVE  Avoids(p, {"$"}) /\ mods.ok /\ Pattern(p).ok
  <2>1. \A reason : ~Rejected(reason).ok
    BY DEF Rejected
  <2>2. "$" \notin ToSet(p) /\ mods.ok /\ Pattern(p).ok
    BY <1>1, <2>1, Zenon DEF NetworkRule
  <2>3. QED  BY <2>2, AvoidsIs
<1>2. CASE Avoids(line, {"$"})
  <2>1. NetworkRule(line, [ok |-> TRUE, taken |-> {}], exception).ok
    BY <1>2, NetworkIs
  <2>2. Pattern(line).ok
    BY <1>1, <2>1
  <2>3. NetworkParts(line, line, {}, exception)
    BY <1>2, <2>2, NoOptionsFit, Zenon DEF NetworkParts
  <2>4. QED  BY <2>3, Zenon
<1>3. CASE ~Avoids(line, {"$"})
  <2>1. PICK p \in Seq(Tok), o \in Seq(Tok) : line = p \o (<<"$">> \o o) /\ Avoids(o, {"$"})
    BY <1>3, LastDollarIs
  <2>2. NetworkRule(p, parseModifiers(o, exception), exception).ok
    BY <2>1, NetworkIs
  <2>3. Avoids(p, {"$"}) /\ parseModifiers(o, exception).ok /\ Pattern(p).ok
    BY <1>1, <2>2
  <2>4. PICK taken : taken = parseModifiers(o, exception).taken
    OBVIOUS
  <2>5. Fits(taken, exception) /\ taken # {}
    BY <2>3, <2>4, ParsedFits
  <2>6. NetworkParts(line, p, taken, exception)
    BY <2>1, <2>3, <2>4, <2>5, Zenon DEF NetworkParts
  <2>7. QED  BY <2>6, Zenon
<1>4. QED  BY <1>2, <1>3

\* What no rule may hold, and the mark of an exception.
Banned == {Malformed} \cup Markers \cup Blanks \cup NotAscii
Marked(exception, line) == IF exception THEN <<"@@">> \o line ELSE line

\* A line of the hosts format, and one of Adblock Plus, that normalize accepts.
HostsLine(line, host, rule) ==
  /\ host \in Seq(Tok) /\ validDomain(host)
  /\ line # <<>> /\ Head(line) \in HostsPrefixes /\ host = Tail(line)
  /\ rule = <<"|", "|">> \o Lowered(host) \o <<"^">>
NetworkLine(line, exception, p, taken, rule) ==
  /\ exception \in BOOLEAN
  /\ \E b \in Seq(Tok) : /\ b # <<>> /\ line = Marked(exception, b)
                         /\ Avoids(b, Banned) /\ NetworkParts(b, p, taken, exception)
  /\ rule = Marked(exception, Pattern(p).rule \o WrittenModifiers(taken))

\* It accepts no others.
LEMMA NormalizeAccepted ==
  ASSUME NEW line \in Seq(Tok), line # <<>>, normalize(line).ok
  PROVE  \/ \E host : HostsLine(line, host, normalize(line).rule)
         \/ \E exception, p, taken : NetworkLine(line, exception, p, taken, normalize(line).rule)
<1>1. PICK x \in BOOLEAN : x = (Head(line) = "@@")
  OBVIOUS
<1>2. line = <<Head(line)>> \o Tail(line) /\ Tail(line) \in Seq(Tok)
  BY FirstAndRest
<1>3. PICK b \in Seq(Tok) : b = IF x THEN Tail(line) ELSE line
  BY <1>2
<1>4. PICK r : r = normalizeNetwork(b, x)
  OBVIOUS
<1>5. \A reason : ~Rejected(reason).ok
  BY DEF Rejected
<1>6. normalize(line) =
        IF Malformed \in ToSet(line) THEN Rejected("invalid-utf8")
        ELSE IF ToSet(line) \cap Markers # {} THEN Rejected("unsupported-cosmetic-scriptlet")
        ELSE IF Len(line) > 1 /\ Head(line) = "/" /\ Last(line) = "/" THEN Rejected("regex-filter")
        ELSE IF Head(line) = "[Adblock" THEN Rejected("metadata")
        ELSE IF b = <<>> THEN Rejected("unsupported-exception-rule")
        ELSE IF Head(b) \in HostsPrefixes
             THEN IF x THEN Rejected("unsupported-exception-rule") ELSE HostsEntry(Tail(b))
        ELSE IF ToSet(b) \cap (Blanks \cup NotAscii) # {} THEN Rejected("non-ascii-or-whitespace")
        ELSE IF x /\ r.ok THEN Emitted(<<"@@">> \o r.rule) ELSE r
  BY <1>1, <1>3, <1>4, Zenon DEF normalize, WithMark
<1>7. Malformed \notin ToSet(line) /\ ToSet(line) \cap Markers = {} /\ b # <<>>
  BY <1>5, <1>6, Zenon
<1>8. CASE Head(b) \in HostsPrefixes
  <2>1. ~x /\ normalize(line) = HostsEntry(Tail(b))
    BY <1>5, <1>6, <1>8, Zenon
  <2>2. b = line
    BY <1>3, <2>1
  <2>3. /\ validDomain(Tail(line))
        /\ normalize(line) = Emitted(<<"|", "|">> \o Lowered(Tail(line)) \o <<"^">>)
    BY <1>5, <2>1, <2>2, Zenon DEF HostsEntry
  <2>4. HostsLine(line, Tail(line), normalize(line).rule)
    <3>1. \A s : Emitted(s).rule = s
      BY DEF Emitted
    <3>2. normalize(line).rule = <<"|", "|">> \o Lowered(Tail(line)) \o <<"^">>
      BY <2>3, <3>1, Zenon
    <3>3. Head(line) \in HostsPrefixes
      BY <1>8, <2>2
    <3>4. QED  BY <1>2, <2>3, <3>2, <3>3, Zenon DEF HostsLine
  <2>5. QED  BY <2>4, Zenon
<1>9. CASE Head(b) \notin HostsPrefixes
  <2>1. ToSet(b) \cap (Blanks \cup NotAscii) = {}
    BY <1>5, <1>6, <1>7, <1>9, Zenon
  <2>2. normalize(line) = IF x /\ r.ok THEN Emitted(<<"@@">> \o r.rule) ELSE r
    BY <1>5, <1>6, <1>7, <1>9, <2>1, Zenon
  <2>3. r.ok
    BY <2>2, Zenon
  <2>4. PICK p, taken : NetworkParts(b, p, taken, x)
    BY <1>4, <2>3, NetworkAccepted
  <2>5. r = Emitted(Pattern(p).rule \o WrittenModifiers(taken))
    BY <1>4, <2>4, NetworkAccepts
  <2>6. normalize(line).rule = Marked(x, Pattern(p).rule \o WrittenModifiers(taken))
    <3>1. \A s : Emitted(s).rule = s
      BY DEF Emitted
    <3>2. CASE x
      <4>1. normalize(line) = Emitted(<<"@@">> \o r.rule)
        BY <2>2, <2>3, <3>2
      <4>2. QED  BY <2>5, <3>1, <3>2, <4>1, Zenon DEF Marked
    <3>3. CASE ~x
      BY <2>2, <2>5, <3>1, <3>3, Zenon DEF Marked
    <3>4. QED  BY <3>2, <3>3
  <2>7. line = Marked(x, b)
    BY <1>1, <1>2, <1>3 DEF Marked
  <2>8. Avoids(b, Banned)
    <3>1. ToSet(b) \subseteq ToSet(line)
      <4>1. CASE x
        <5>1. PICK d \in Seq(Tok), t \in Seq(Tok) :
                t = Tail(line) /\ d = <<Head(line)>> /\ Len(d) = 1
          BY <1>2, FirstAndRest, OneToken
        <5>2. line = d \o t /\ b = t
          BY <1>2, <1>3, <4>1, <5>1
        <5>3. Len(line) = 1 + Len(t) /\ Len(t) \in Nat /\ \A i \in 1..Len(t) : line[1 + i] = t[i]
          BY <5>1, <5>2, ConcatIs
        <5>4. DOMAIN line = 1..Len(line) /\ DOMAIN t = 1..Len(t)
          BY LenProperties
        <5>5. \A i \in 1..Len(t) : 1 + i \in 1..Len(line)
          BY <5>3
        <5>6. ASSUME NEW y \in ToSet(b) PROVE y \in ToSet(line)
          <6>1. PICK i \in 1..Len(t) : y = t[i]
            BY <5>2, <5>4, Zenon DEF ToSet
          <6>2. 1 + i \in DOMAIN line /\ line[1 + i] = y
            BY <5>3, <5>4, <5>5, <6>1
          <6>3. QED  BY <6>2, Zenon DEF ToSet
        <5>7. QED  BY <5>6
      <4>2. CASE ~x
        BY <1>3, <4>2
      <4>3. QED  BY <4>1, <4>2
    <3>2. ToSet(b) \cap Banned = {}
      BY <1>7, <2>1, <3>1 DEF Banned
    <3>3. QED  BY <3>2, AvoidsIs
  <2>9. NetworkLine(line, x, p, taken, normalize(line).rule)
    BY <1>7, <2>4, <2>6, <2>7, <2>8, Zenon DEF NetworkLine
  <2>10. QED  BY <2>9, Zenon
<1>10. QED  BY <1>8, <1>9

-------------------------------------------------------------------------------
(* Patterns                                                                *)

\* A host stands between what begins a pattern and the rest of it.
DomainRest(rest) == rest # <<>> /\ ~InnerPipe(rest) /\ rest[1] \in {"/", "?", "#", "^", "|"}
UrlRest(rest, tail, end) ==
  /\ rest = tail \o end /\ end \in {<<>>, <<"|">>}
  /\ ToSet(tail) \subseteq TailTokens
  /\ tail # <<>> => tail[1] \in {"/", "?", "#"}
PatternForm(q, h, rest) ==
  /\ q \in Seq(Tok) /\ h \in Seq(Tok) /\ rest \in Seq(Tok) /\ validDomain(h)
  /\ \/ q = <<"|", "|">> /\ DomainRest(rest)
     \/ \E s \in Schemes, tail \in Seq(Tok), end \in Seq(Tok) :
          q = <<"|", s>> /\ UrlRest(rest, tail, end)

\* Two tokens begin a pattern, the first of them "|".
Begins(q) == /\ q \in Seq(Tok) /\ Len(q) = 2 /\ q[1] = "|" /\ q[2] \in {"|"} \cup Schemes
             /\ q = <<"|", q[2]>>

\* A bar and a bar or a scheme begin a pattern.
LEMMA BeginsWith ==
  ASSUME NEW t \in {"|"} \cup Schemes
  PROVE  Begins(<<"|", t>>) /\ <<"|", t>>[2] = t
<1>1. "|" \in Tok /\ t \in Tok
  BY MarkFacts DEF Marks
<1>2. /\ <<"|", t>> \in Seq(Tok) /\ Len(<<"|", t>>) = 2
      /\ <<"|", t>>[1] = "|" /\ <<"|", t>>[2] = t
  <2>1. \A a, b \in Tok : /\ <<a, b>> \in Seq(Tok) /\ Len(<<a, b>>) = 2
                          /\ <<a, b>>[1] = a /\ <<a, b>>[2] = b
    BY TwoTokens
  <2>2. QED  BY <1>1, <2>1, Zenon
<1>3. QED  BY <1>2, Zenon DEF Begins

\* What a form says of its parts, and it is one in lower case too.
FormParts(q, h, rest) ==
  /\ Begins(q) /\ h # <<>> /\ Len(h) \in Nat /\ Len(h) >= 1
  /\ rest # <<>> => rest[1] \in {"/", "?", "#", "^", "|"}

\* Every pattern has those parts, whatever the case of its host.
LEMMA FormIs ==
  ASSUME NEW q, NEW h, NEW rest, PatternForm(q, h, rest)
  PROVE  FormParts(q, h, rest) /\ PatternForm(q, Lowered(h), rest)
<1>1. q \in Seq(Tok) /\ h \in Seq(Tok) /\ rest \in Seq(Tok) /\ validDomain(h)
  BY Zenon DEF PatternForm
<1>2. h # <<>> /\ Len(h) \in Nat /\ Len(h) >= 1
  BY <1>1, DomainIs
<1>3. Lowered(h) \in Seq(Tok) /\ validDomain(Lowered(h))
  BY <1>1, LoweredIs, ValidLowered
<1>4. PatternForm(q, Lowered(h), rest)
  BY <1>3, Zenon DEF PatternForm
<1>5. CASE q = <<"|", "|">> /\ DomainRest(rest)
  <2>1. Begins(<<"|", "|">>)
    BY BeginsWith
  <2>2. QED  BY <1>2, <1>4, <1>5, <2>1 DEF FormParts, DomainRest
<1>6. CASE \E s \in Schemes, tail \in Seq(Tok), end \in Seq(Tok) :
             q = <<"|", s>> /\ UrlRest(rest, tail, end)
  <2>1. PICK s \in Schemes, tail \in Seq(Tok), end \in Seq(Tok) :
          q = <<"|", s>> /\ UrlRest(rest, tail, end)
    BY <1>6
  <2>2. Begins(<<"|", s>>)
    BY BeginsWith
  <2>3. rest # <<>> => rest[1] \in {"/", "?", "#", "^", "|"}
    <3>1. /\ rest = tail \o end /\ end \in {<<>>, <<"|">>}
          /\ tail # <<>> => tail[1] \in {"/", "?", "#"}
      BY <2>1, Zenon DEF UrlRest
    <3>2. CASE tail = <<>>
      <4>1. rest = end
        BY <3>1, <3>2, ConcatEmptySeq
      <4>2. <<"|">>[1] = "|"
        OBVIOUS
      <4>3. QED  BY <3>1, <4>1, <4>2
    <3>3. CASE tail # <<>>
      <4>1. 1 \in 1..Len(tail)
        BY <3>3, FirstAndRest
      <4>2. rest[1] = tail[1]
        BY <3>1, <4>1, ConcatIs
      <4>3. QED  BY <3>1, <3>3, <4>2
    <3>4. QED  BY <3>2, <3>3
  <2>4. QED  BY <1>2, <1>4, <2>1, <2>2, <2>3, Zenon DEF FormParts
<1>7. QED  BY <1>5, <1>6, Zenon DEF PatternForm

\* How a pattern begins.
LEMMA PipesAre ==
  ASSUME NEW p \in Seq(Tok)
  PROVE  HasPrefix(p, <<"|", "|">>) <=> Len(p) >= 2 /\ p[1] = "|" /\ p[2] = "|"
<1>1. PICK d \in Seq(Tok) : d = <<"|", "|">> /\ Len(d) = 2 /\ d[1] = "|" /\ d[2] = "|"
  <2>1. Begins(<<"|", "|">>) /\ <<"|", "|">>[2] = "|"
    BY BeginsWith
  <2>2. QED  BY <2>1 DEF Begins
<1>2. PICK l \in Nat : l = Len(p)
  BY LenProperties
<1>3. SubSeq(d, 1, 2) = d
  <2>1. SubSeq(d, 1, Len(d)) = d
    BY SubSeqFull
  <2>2. QED  BY <1>1, <2>1
<1>4. HasPrefix(p, d) <=> 2 <= l /\ SubSeq(p, 1, 2) = d
  BY <1>1, <1>2, <1>3 DEF HasPrefix, IsPrefix
<1>5. ASSUME 2 <= l
      PROVE  SubSeq(p, 1, 2) = d <=> p[1] = "|" /\ p[2] = "|"
  <2>1. PICK x \in Seq(Tok) : x = SubSeq(p, 1, 2) /\ Len(x) = 2 /\ \A i \in 1..2 : p[i] = x[i]
    <3>1. /\ SubSeq(p, 1, 2) \in Seq(Tok) /\ Len(SubSeq(p, 1, 2)) = 2
          /\ MadeOf(p, SubSeq(p, 1, 2), SubSeq(p, 2 + 1, Len(p)))
      BY <1>2, <1>5, TakenApart
    <3>2. QED  BY <3>1 DEF MadeOf
  <2>2. p[1] = x[1] /\ p[2] = x[2]
    BY <2>1
  <2>3. ASSUME x[1] = "|", x[2] = "|" PROVE x = d
    <3>1. \A i \in 1..Len(x) : x[i] = d[i]
      BY <1>1, <2>1, <2>3
    <3>2. QED  BY <1>1, <2>1, <3>1, SameTokens
  <2>4. QED  BY <1>1, <2>1, <2>2, <2>3
<1>6. QED  BY <1>1, <1>2, <1>4, <1>5

\* A pattern of that form is accepted, its host in lower case.
Whole(q, h, rest) == q \o (h \o rest)

\* Pattern changes the case of its host and nothing else.
LEMMA PatternAccepts ==
  ASSUME NEW q, NEW h, NEW rest, PatternForm(q, h, rest)
  PROVE  Pattern(Whole(q, h, rest)) = Emitted(Whole(q, Lowered(h), rest))
<1>1. /\ q \in Seq(Tok) /\ h \in Seq(Tok) /\ rest \in Seq(Tok) /\ validDomain(h)
      /\ Lowered(h) \in Seq(Tok)
  BY LoweredIs DEF PatternForm
<1>2. FormParts(q, h, rest)
  BY FormIs
<1>3. Len(q) = 2 /\ q[1] = "|" /\ q[2] \in {"|"} \cup Schemes
  BY <1>2, Zenon DEF FormParts, Begins
<1>4. PICK hr \in Seq(Tok) : hr = h \o rest /\ MadeOf(hr, h, rest)
  BY <1>1, MadeOfParts
<1>5. PICK p \in Seq(Tok) : p = q \o hr /\ MadeOf(p, q, hr)
  BY <1>1, MadeOfParts
<1>6. PICK l \in Nat, m \in Nat, n \in Nat :
        /\ l = Len(p) /\ m = Len(h) /\ n = Len(rest) /\ m >= 1
        /\ l = 2 + (m + n) /\ Len(hr) = m + n
  <2>1. /\ Len(h) \in Nat /\ Len(rest) \in Nat /\ Len(hr) = Len(h) + Len(rest)
        /\ Len(p) = 2 + Len(hr)
    BY <1>3, <1>4, <1>5, Zenon DEF MadeOf
  <2>2. Len(h) >= 1
    BY <1>2, Zenon DEF FormParts
  <2>3. QED  BY <2>1, <2>2
<1>7. p[1] = "|" /\ p[2] = q[2]
  <2>1. \A i \in 1..2 : p[i] = q[i]
    BY <1>3, <1>5, Zenon DEF MadeOf
  <2>2. QED  BY <1>3, <2>1
<1>8. SubSeq(p, 1, 2) = q /\ SubSeq(p, 3, l) = hr
  <2>1. SubSeq(p, 1, 2) = q /\ SubSeq(p, 2 + 1, l) = hr
    BY <1>3, <1>5, <1>6, Zenon DEF MadeOf
  <2>2. QED  BY <2>1
<1>9. Regroups(q, Lowered(h), rest)
  BY <1>1, RegroupsIs
<1>10. p = Whole(q, h, rest)
  BY <1>4, <1>5 DEF Whole
<1>11. ASSUME NEW seps, seps \subseteq {"/", "?", "#", "^", "|"}
       PROVE  Avoids(h, seps)
  <2>1. seps \cap Words = {} /\ "." \notin seps
    BY <1>11, MarkFacts DEF Marks
  <2>2. QED  BY <1>1, <2>1, DomainIs
<1>12. CASE q = <<"|", "|">> /\ DomainRest(rest)
  <2>1. HasPrefix(p, <<"|", "|">>)
    <3>1. q[2] = "|"
      <4>1. "|" \in {"|"} \cup Schemes
        OBVIOUS
      <4>2. <<"|", "|">>[2] = "|"
        BY <4>1, BeginsWith
      <4>3. QED  BY <1>12, <4>2, Zenon
    <3>2. l = 2 + (m + n) /\ l = Len(p)
      BY <1>6, Zenon
    <3>3. l >= 2
      BY <3>2
    <3>4. Len(p) >= 2 /\ p[1] = "|" /\ p[2] = "|"
      BY <1>7, <3>1, <3>2, <3>3, Zenon
    <3>5. QED  BY <3>4, PipesAre
  <2>2. PICK seps : seps = {"/", "?", "#", "^", "|"}
    OBVIOUS
  <2>3. Avoids(h, seps)
    BY <1>11, <2>2
  <2>4. rest # <<>> => rest[1] \in seps
    BY <1>12, <2>2 DEF DomainRest
  <2>5. Before(hr, seps) = h /\ From(hr, seps) = rest
    BY <1>1, <1>4, <2>3, <2>4, CutAt
  <2>6. DomainPattern(hr) = Emitted(<<"|", "|">> \o Lowered(h) \o rest)
    BY <1>1, <1>12, <2>2, <2>5, Zenon DEF DomainPattern, DomainRest
  <2>7. Pattern(p) = DomainPattern(hr)
    BY <1>6, <1>8, <2>1, Zenon DEF Pattern
  <2>8. QED  BY <1>9, <1>10, <1>12, <2>6, <2>7 DEF Regroups, Whole
<1>13. CASE \E s \in Schemes, tail \in Seq(Tok), end \in Seq(Tok) :
              q = <<"|", s>> /\ UrlRest(rest, tail, end)
  <2>1. PICK s \in Schemes, tail \in Seq(Tok), end \in Seq(Tok) :
          q = <<"|", s>> /\ UrlRest(rest, tail, end)
    BY <1>13
  <2>2. /\ rest = tail \o end /\ end \in {<<>>, <<"|">>} /\ ToSet(tail) \subseteq TailTokens
        /\ tail # <<>> => tail[1] \in {"/", "?", "#"}
    BY <2>1, Zenon DEF UrlRest
  <2>3. p[2] = s /\ s # "|"
    <3>1. q[2] = s
      BY <2>1, BeginsWith
    <3>2. s # "|"
      BY DEF Schemes
    <3>3. QED  BY <1>7, <3>1, <3>2
  <2>4. ~HasPrefix(p, <<"|", "|">>)
    BY <2>3, PipesAre
  <2>5. Pattern(p) = UrlPattern(p)
    <3>1. Len(p) > 1 /\ p[1] = "|" /\ p[2] \in Schemes
      BY <1>6, <1>7, <2>3
    <3>2. QED  BY <2>4, <3>1, Zenon DEF Pattern
  <2>6. PICK u \in Seq(Tok) : u = h \o tail /\ MadeOf(u, h, tail)
    BY <1>1, MadeOfParts
  <2>7. p = q \o (u \o end)
    <3>1. Regroups(h, tail, end)
      BY <1>1, RegroupsIs
    <3>2. QED  BY <1>4, <1>5, <2>2, <2>6, <3>1 DEF Regroups
  <2>8. PICK k \in Nat, e \in Nat : k = Len(u) /\ e = Len(end) /\ k >= 1 /\ l = 2 + (k + e)
    <3>1. Len(u) = m + Len(tail) /\ Len(tail) \in Nat
      BY <1>6, <2>6, Zenon DEF MadeOf
    <3>2. PICK ue \in Seq(Tok) : ue = u \o end /\ Len(ue) = Len(u) + Len(end) /\ Len(end) \in Nat
      BY ConcatIs
    <3>3. hr = ue
      <4>1. Regroups(h, tail, end)
        BY <1>1, RegroupsIs
      <4>2. QED  BY <1>4, <2>2, <2>6, <3>2, <4>1 DEF Regroups
    <3>4. PICK k \in Nat, e \in Nat : k = Len(u) /\ e = Len(end)
      BY <3>2, LenProperties
    <3>5. k >= 1 /\ l = 2 + (k + e)
      <4>1. Len(hr) = k + e
        BY <3>2, <3>3, <3>4, Zenon
      <4>2. PICK t \in Nat : t = Len(tail) /\ k = m + t
        BY <3>1, <3>4
      <4>3. m >= 1 /\ l = 2 + (m + n) /\ m + n = k + e
        BY <1>6, <4>1, Zenon
      <4>4. k = m + t
        BY <4>2
      <4>5. k >= 1
        BY <4>3, <4>4
      <4>6. l = 2 + (k + e)
        BY <4>3
      <4>7. QED  BY <4>5, <4>6
    <3>6. QED  BY <3>4, <3>5
  <2>9. SubSeq(p, 3, l - e) = u
    <3>1. SubSeq(p, 2 + 1, 2 + k) = u
      <4>1. SubSeq(q \o (u \o end), Len(q) + 1, Len(q) + Len(u)) = u
        BY <1>1, MiddleIs
      <4>2. QED  BY <1>3, <2>7, <2>8, <4>1
    <3>2. 2 + 1 = 3 /\ 2 + k = l - e
      BY <2>8
    <3>3. QED  BY <3>1, <3>2
  <2>10. /\ Last(p) = "|" => end = <<"|">>
         /\ end = <<"|">> => Last(p) = "|"
    <3>1. PICK qu \in Seq(Tok) : qu = q \o u /\ MadeOf(qu, q, u)
      BY <1>1, MadeOfParts
    <3>2. p = qu \o end
      <4>1. Regroups(q, u, end)
        BY <1>1, RegroupsIs
      <4>2. QED  BY <2>7, <3>1, <4>1 DEF Regroups
    <3>3. Len(qu) = 2 + k
      BY <1>3, <2>8, <3>1, Zenon DEF MadeOf
    <3>4. CASE end = <<"|">>
      <4>1. "|" \in Tok
        BY MarkFacts DEF Marks
      <4>2. Len(end) = 1 /\ end[1] = "|"
        BY <3>4
      <4>3. MadeOf(p, qu, end)
        BY <3>2, MadeOfParts
      <4>4. p[Len(qu) + 1] = end[1]
        BY <4>2, <4>3 DEF MadeOf
      <4>5. Len(p) = Len(qu) + 1
        BY <1>6, <2>8, <3>3, <4>2
      <4>6. QED  BY <3>4, <4>2, <4>4, <4>5 DEF Last
    <3>5. CASE end = <<>>
      <4>1. p = qu
        BY <3>2, <3>5, ConcatEmptySeq
      <4>2. p[2 + k] = u[k]
        <5>1. \A i \in 1..Len(u) : qu[2 + i] = u[i]
          BY <1>3, <3>1, Zenon DEF MadeOf
        <5>2. QED  BY <2>8, <4>1, <5>1
      <4>3. u[k] # "|"
        <5>1. "|" \notin Words /\ "|" \notin TailTokens
          BY MarkFacts DEF Marks, TailTokens
        <5>2. k = m + Len(tail) /\ Len(tail) \in Nat
          BY <1>6, <2>6, <2>8, Zenon DEF MadeOf
        <5>3. CASE tail = <<>>
          <6>1. Len(tail) = 0 /\ m \in 1..m
            BY <1>6, <5>3
          <6>2. u[k] = h[m]
            BY <1>6, <2>6, <5>2, <6>1 DEF MadeOf
          <6>3. h[m] \in Words
            BY <1>1, <1>6, DomainIs DEF Alternates
          <6>4. QED  BY <5>1, <6>2, <6>3
        <5>4. CASE tail # <<>>
          <6>1. Len(tail) >= 1
            BY <5>4, FirstAndRest
          <6>2. Len(tail) \in 1..Len(tail) /\ DOMAIN tail = 1..Len(tail)
            BY <5>2, <6>1, LenProperties
          <6>3. u[k] = tail[Len(tail)]
            BY <1>6, <2>6, <5>2, <6>2 DEF MadeOf
          <6>4. tail[Len(tail)] \in TailTokens
            BY <2>2, <6>2 DEF ToSet
          <6>5. QED  BY <5>1, <6>3, <6>4
        <5>5. QED  BY <5>3, <5>4
      <4>4. Last(p) = p[2 + k]
        BY <3>3, <4>1 DEF Last
      <4>5. QED  BY <3>5, <4>2, <4>3, <4>4
    <3>6. QED  BY <2>2, <3>4, <3>5
  <2>11. (IF Last(p) = "|" THEN <<"|">> ELSE <<>>) = end
    BY <2>2, <2>10
  <2>12. Before(u, {"/", "?", "#"}) = h /\ From(u, {"/", "?", "#"}) = tail
    <3>1. Avoids(h, {"/", "?", "#"})
      BY <1>11
    <3>2. QED  BY <1>1, <2>2, <2>6, <3>1, CutAt
  <2>13. UrlPattern(p) = Emitted(q \o Lowered(h) \o tail \o end)
    BY <1>1, <1>6, <1>8, <2>2, <2>8, <2>9, <2>11, <2>12, Zenon DEF UrlPattern, CanonicalTail
  <2>14. q \o Lowered(h) \o tail \o end = Whole(q, Lowered(h), rest)
    <3>1. PICK qh \in Seq(Tok) : qh = q \o Lowered(h)
      BY <1>1, ConcatIs
    <3>2. Regroups(qh, tail, end)
      BY RegroupsIs
    <3>3. QED  BY <1>9, <2>2, <3>1, <3>2 DEF Regroups, Whole
  <2>15. QED  BY <1>10, <2>5, <2>13, <2>14
<1>14. QED  BY <1>12, <1>13, Zenon DEF PatternForm

\* And no other is.
LEMMA PatternAccepted ==
  ASSUME NEW p \in Seq(Tok), Pattern(p).ok
  PROVE  \E q, h, rest : PatternForm(q, h, rest) /\ p = Whole(q, h, rest)
<1>1. \A reason : ~Rejected(reason).ok
  BY DEF Rejected
<1>2. PICK l \in Nat : l = Len(p)
  BY LenProperties
<1>3. \/ HasPrefix(p, <<"|", "|">>) /\ Pattern(p) = DomainPattern(SubSeq(p, 3, l))
      \/ /\ ~HasPrefix(p, <<"|", "|">>) /\ l > 1 /\ p[1] = "|" /\ p[2] \in Schemes
         /\ Pattern(p) = UrlPattern(p)
  BY <1>1, <1>2, Zenon DEF Pattern
<1>4. /\ l >= 2 /\ p[1] = "|" /\ p[2] \in {"|"} \cup Schemes
      /\ HasPrefix(p, <<"|", "|">>) => p[2] = "|"
  <2>1. CASE HasPrefix(p, <<"|", "|">>)
    BY <1>2, <2>1, PipesAre
  <2>2. CASE ~HasPrefix(p, <<"|", "|">>)
    BY <1>2, <1>3, <2>2
  <2>3. QED  BY <2>1, <2>2
<1>5. PICK q \in Seq(Tok), r \in Seq(Tok) : /\ MadeOf(p, q, r) /\ q = <<"|", p[2]>> /\ Len(q) = 2
                                            /\ q = SubSeq(p, 1, 2) /\ r = SubSeq(p, 3, l)
  <2>1. PICK q \in Seq(Tok), r \in Seq(Tok) :
          MadeOf(p, q, r) /\ Len(q) = 2 /\ q = SubSeq(p, 1, 2) /\ r = SubSeq(p, 2 + 1, Len(p))
    <3>1. /\ SubSeq(p, 1, 2) \in Seq(Tok) /\ SubSeq(p, 2 + 1, Len(p)) \in Seq(Tok)
          /\ MadeOf(p, SubSeq(p, 1, 2), SubSeq(p, 2 + 1, Len(p))) /\ Len(SubSeq(p, 1, 2)) = 2
      BY <1>2, <1>4, TakenApart
    <3>2. QED  BY <3>1, Zenon
  <2>2. PICK d \in Seq(Tok) : d = <<"|", p[2]>> /\ Len(d) = 2 /\ d[1] = "|" /\ d[2] = p[2]
    <3>1. Begins(<<"|", p[2]>>) /\ <<"|", p[2]>>[2] = p[2]
      BY <1>4, BeginsWith
    <3>2. QED  BY <3>1 DEF Begins
  <2>3. \A i \in 1..2 : p[i] = q[i]
    BY <2>1, Zenon DEF MadeOf
  <2>4. \A i \in 1..Len(q) : q[i] = d[i]
    BY <1>4, <2>1, <2>2, <2>3
  <2>5. q = d
    <3>1. Len(q) = Len(d)
      BY <2>1, <2>2
    <3>2. QED  BY <2>4, <3>1, SameTokens
  <2>6. 2 + 1 = 3
    OBVIOUS
  <2>7. QED  BY <1>2, <2>1, <2>2, <2>5, <2>6
<1>6. p = q \o r
  BY <1>5, Zenon DEF MadeOf
<1>7. CASE HasPrefix(p, <<"|", "|">>)
  <2>1. Pattern(p) = DomainPattern(r) /\ q = <<"|", "|">>
    BY <1>3, <1>4, <1>5, <1>7
  <2>2. PICK seps : seps = {"/", "?", "#", "^", "|"}
    OBVIOUS
  <2>3. PICK h \in Seq(Tok), rest \in Seq(Tok) :
          /\ h = Before(r, seps) /\ rest = From(r, seps) /\ r = h \o rest
          /\ rest # <<>> => rest[1] \in seps
    BY CutIs
  <2>4. validDomain(h) /\ ~InnerPipe(rest) /\ rest # <<>>
    BY <1>1, <2>1, <2>2, <2>3, Zenon DEF DomainPattern
  <2>5. DomainRest(rest)
    BY <2>2, <2>3, <2>4, Zenon DEF DomainRest
  <2>6. PatternForm(q, h, rest)
    BY <2>1, <2>4, <2>5, Zenon DEF PatternForm
  <2>7. QED  BY <1>6, <2>3, <2>6, Zenon DEF Whole
<1>8. CASE ~HasPrefix(p, <<"|", "|">>)
  <2>1. Pattern(p) = UrlPattern(p) /\ p[2] \in Schemes
    BY <1>3, <1>8
  <2>2. "|" \in Tok /\ "|" \notin Schemes
    BY MarkFacts DEF Marks, Schemes
  <2>3. PICK u \in Seq(Tok), end \in Seq(Tok) :
          /\ end = (IF Last(p) = "|" THEN <<"|">> ELSE <<>>) /\ end \in {<<>>, <<"|">>}
          /\ u = SubSeq(p, 3, l - Len(end)) /\ r = u \o end
    <3>1. CASE Last(p) = "|"
      <4>1. PICK end \in Seq(Tok) : end = <<"|">> /\ Len(end) = 1 /\ end[1] = "|"
        BY <2>2, OneToken
      <4>2. PICK m \in Nat : m = Len(r) /\ l = 2 + m
        BY <1>2, <1>5, Zenon DEF MadeOf
      <4>3. p[l] = "|"
        BY <1>2, <3>1 DEF Last
      <4>4. m # 0
        <5>1. p[2] # "|"
          BY <2>1, <2>2
        <5>2. QED  BY <4>2, <4>3, <5>1
      <4>5. PICK k \in Nat : m = k + 1
        <5>1. m - 1 \in Nat /\ m = (m - 1) + 1
          BY <4>4
        <5>2. QED  BY <5>1
      <4>6. PICK u \in Seq(Tok), e \in Seq(Tok) : MadeOf(r, u, e) /\ Len(u) = k
        <5>1. k <= Len(r)
          BY <4>2, <4>5
        <5>2. /\ SubSeq(r, 1, k) \in Seq(Tok) /\ SubSeq(r, k + 1, Len(r)) \in Seq(Tok)
              /\ MadeOf(r, SubSeq(r, 1, k), SubSeq(r, k + 1, Len(r))) /\ Len(SubSeq(r, 1, k)) = k
          BY <5>1, TakenApart
        <5>3. QED  BY <5>2, Zenon
      <4>7. e = end
        <5>1. Len(r) = k + Len(e) /\ Len(e) \in Nat /\ \A i \in 1..Len(e) : r[k + i] = e[i]
          BY <4>6, Zenon DEF MadeOf
        <5>2. Len(e) = 1
          <6>1. PICK n \in Nat : n = Len(e)
            BY <5>1
          <6>2. k + 1 = k + n
            BY <4>2, <4>5, <5>1, <6>1, Zenon
          <6>3. n = 1
            BY <6>2
          <6>4. QED  BY <6>1, <6>3
        <5>3. \A i \in 1..m : p[2 + i] = r[i]
          BY <1>5, <4>2, Zenon DEF MadeOf
        <5>4. r[m] = p[2 + m]
          BY <4>4, <5>3
        <5>5. e[1] = "|"
          BY <4>2, <4>3, <4>5, <5>1, <5>2, <5>4
        <5>6. \A i \in 1..Len(e) : e[i] = end[i]
          BY <4>1, <5>2, <5>5
        <5>7. QED  BY <4>1, <5>2, <5>6, SameTokens
      <4>8. r = u \o end
        BY <4>6, <4>7, Zenon DEF MadeOf
      <4>9. SubSeq(p, 3, l - Len(end)) = u
        <5>1. SubSeq(q \o (u \o end), Len(q) + 1, Len(q) + Len(u)) = u
          BY MiddleIs
        <5>2. Len(q) + 1 = 3 /\ Len(q) + Len(u) = l - Len(end)
          BY <1>5, <4>1, <4>2, <4>5, <4>6
        <5>3. QED  BY <1>6, <4>8, <5>1, <5>2
      <4>10. QED  BY <3>1, <4>1, <4>8, <4>9
    <3>2. CASE Last(p) # "|"
      <4>1. PICK end \in Seq(Tok) : end = <<>> /\ Len(end) = 0
        BY EmptySeq
      <4>2. l - Len(end) = l
        BY <4>1
      <4>3. r = r \o end
        BY <4>1, ConcatEmptySeq
      <4>4. QED  BY <1>5, <3>2, <4>1, <4>2, <4>3
    <3>3. QED  BY <3>1, <3>2
  <2>4. PICK h \in Seq(Tok), tail \in Seq(Tok) :
          /\ h = Before(u, {"/", "?", "#"}) /\ tail = From(u, {"/", "?", "#"}) /\ u = h \o tail
          /\ tail # <<>> => tail[1] \in {"/", "?", "#"}
    BY CutIs
  <2>5. validDomain(h) /\ ToSet(tail) \subseteq TailTokens
    BY <1>1, <1>2, <2>1, <2>3, <2>4, Zenon DEF UrlPattern
  <2>6. PICK rest \in Seq(Tok) : rest = tail \o end
    BY ConcatIs
  <2>7. UrlRest(rest, tail, end)
    BY <2>3, <2>4, <2>5, <2>6, Zenon DEF UrlRest
  <2>8. PatternForm(q, h, rest)
    BY <1>5, <2>1, <2>5, <2>7, Zenon DEF PatternForm
  <2>9. p = Whole(q, h, rest)
    <3>1. Regroups(h, tail, end)
      BY RegroupsIs
    <3>2. r = h \o rest
      BY <2>3, <2>4, <2>6, <3>1 DEF Regroups
    <3>3. QED  BY <1>6, <3>2 DEF Whole
  <2>10. QED  BY <2>8, <2>9, Zenon
<1>9. QED  BY <1>7, <1>8

-------------------------------------------------------------------------------
(* Rules                                                                   *)

\* A network rule without its mark, taken apart.
NetworkForm(b, exception, q, h, rest, taken) ==
  /\ exception \in BOOLEAN /\ PatternForm(q, h, rest)
  /\ NetworkParts(b, Whole(q, h, rest), taken, exception)

\* It begins with a bar.
Barred(b) == b \in Seq(Tok) /\ b # <<>> /\ Head(b) = "|"

\* Every pattern begins so, also with options behind it.
LEMMA WholeBegins ==
  ASSUME NEW q, NEW h, NEW rest, PatternForm(q, h, rest), NEW m \in Seq(Tok)
  PROVE  Barred(Whole(q, h, rest)) /\ Barred(Whole(q, h, rest) \o m)
<1>1. q \in Seq(Tok) /\ h \in Seq(Tok) /\ rest \in Seq(Tok)
  BY Zenon DEF PatternForm
<1>2. Len(q) = 2 /\ q[1] = "|"
  BY FormIs, Zenon DEF FormParts, Begins
<1>3. ASSUME NEW s \in Seq(Tok) PROVE Barred(q \o s)
  <2>1. PICK b \in Seq(Tok) : b = q \o s /\ MadeOf(b, q, s)
    BY <1>1, MadeOfParts
  <2>2. Len(b) = 2 + Len(s) /\ Len(s) \in Nat /\ \A i \in 1..2 : b[i] = q[i]
    BY <1>2, <2>1, Zenon DEF MadeOf
  <2>3. b[1] = "|"
    BY <1>2, <2>2
  <2>4. b # <<>>
    <3>1. Len(b) # 0
      BY <2>2
    <3>2. QED  BY <3>1, EmptySeq
  <2>5. Head(b) = b[1]
    BY <2>4, FirstAndRest
  <2>6. QED  BY <2>1, <2>3, <2>4, <2>5 DEF Barred
<1>4. PICK hr \in Seq(Tok) : hr = h \o rest
  BY <1>1, ConcatIs
<1>5. PICK s \in Seq(Tok) : s = hr \o m
  BY ConcatIs
<1>6. Regroups(q, hr, m)
  BY <1>1, RegroupsIs
<1>7. QED  BY <1>3, <1>4, <1>5, <1>6 DEF Whole, Regroups

\* So does every network rule, its mark apart.
LEMMA FormBegins ==
  ASSUME NEW b, NEW exception, NEW q, NEW h, NEW rest, NEW taken,
         NetworkForm(b, exception, q, h, rest, taken)
  PROVE  Barred(b)
<1>1. PatternForm(q, h, rest) /\ NetworkParts(b, Whole(q, h, rest), taken, exception)
  BY Zenon DEF NetworkForm
<1>2. CASE b = Whole(q, h, rest)
  <2>1. <<>> \in Seq(Tok)
    BY EmptySeq
  <2>2. QED  BY <1>1, <1>2, <2>1, WholeBegins
<1>3. CASE \E o \in Seq(Tok) : b = Whole(q, h, rest) \o (<<"$">> \o o)
  <2>1. PICK o \in Seq(Tok) : b = Whole(q, h, rest) \o (<<"$">> \o o)
    BY <1>3
  <2>2. "$" \in Tok
    BY MarkFacts DEF Marks
  <2>3. <<"$">> \o o \in Seq(Tok)
    BY <2>2, InFront
  <2>4. QED  BY <1>1, <2>1, <2>3, WholeBegins
<1>4. QED  BY <1>1, <1>2, <1>3, Zenon DEF NetworkParts

\* A marked line shows its mark.
LEMMA MarkedIs ==
  ASSUME NEW b, Barred(b), NEW x \in BOOLEAN
  PROVE  /\ Marked(x, b) \in Seq(Tok) /\ Marked(x, b) # <<>>
         /\ x = (Head(Marked(x, b)) = "@@")
         /\ b = (IF x THEN Tail(Marked(x, b)) ELSE Marked(x, b))
         /\ Head(Marked(x, b)) \in {"@@", "|"}
<1>1. b \in Seq(Tok) /\ b # <<>> /\ Head(b) = "|"
  BY DEF Barred
<1>2. "@@" \in Tok
  BY MarkFacts DEF Marks
<1>3. CASE x
  <2>1. /\ <<"@@">> \o b \in Seq(Tok) /\ <<"@@">> \o b # <<>> /\ Head(<<"@@">> \o b) = "@@"
        /\ Tail(<<"@@">> \o b) = b
    BY <1>1, <1>2, InFront
  <2>2. Marked(x, b) = <<"@@">> \o b
    BY <1>3 DEF Marked
  <2>3. QED  BY <1>3, <2>1, <2>2
<1>4. CASE ~x
  <2>1. Marked(x, b) = b
    BY <1>4 DEF Marked
  <2>2. QED  BY <1>1, <1>4, <2>1
<1>5. QED  BY <1>3, <1>4

\* What it avoids.
LEMMA MarkedAvoids ==
  ASSUME NEW b \in Seq(Tok), NEW x \in BOOLEAN, NEW seps
  PROVE  Avoids(Marked(x, b), seps) <=> Avoids(b, seps) /\ (x => "@@" \notin seps)
<1>1. CASE x
  <2>1. "@@" \in Tok
    BY MarkFacts DEF Marks
  <2>2. PICK d \in Seq(Tok) : d = <<"@@">> /\ Len(d) = 1 /\ d[1] = "@@"
    BY <2>1, OneToken
  <2>3. Avoids(d \o b, seps) <=> Avoids(d, seps) /\ Avoids(b, seps)
    BY AvoidsConcat
  <2>4. Avoids(d, seps) <=> "@@" \notin seps
    BY <2>2 DEF Avoids
  <2>5. Marked(x, b) = d \o b
    BY <1>1, <2>2 DEF Marked
  <2>6. QED  BY <1>1, <2>3, <2>4, <2>5
<1>2. CASE ~x
  BY <1>2 DEF Marked
<1>3. QED  BY <1>1, <1>2

\* A network rule that holds nothing banned is accepted.
LEMMA NormalizeAccepts ==
  ASSUME NEW b, NEW x, NEW q, NEW h, NEW rest, NEW taken, NetworkForm(b, x, q, h, rest, taken),
         Avoids(b, Banned)
  PROVE  normalize(Marked(x, b)) =
           Emitted(Marked(x, Whole(q, Lowered(h), rest) \o WrittenModifiers(taken)))
<1>1. x \in BOOLEAN /\ PatternForm(q, h, rest) /\ NetworkParts(b, Whole(q, h, rest), taken, x)
  BY Zenon DEF NetworkForm
<1>2. Barred(b)
  BY FormBegins
<1>3. PICK line \in Seq(Tok) : /\ line = Marked(x, b) /\ line # <<>> /\ x = (Head(line) = "@@")
                               /\ b = (IF x THEN Tail(line) ELSE line)
                               /\ Head(line) \in {"@@", "|"}
  BY <1>1, <1>2, MarkedIs
<1>4. b \in Seq(Tok) /\ b # <<>> /\ Head(b) = "|"
  BY <1>2 DEF Barred
<1>5. PICK rule : rule = Whole(q, Lowered(h), rest) \o WrittenModifiers(taken)
  OBVIOUS
<1>6. normalizeNetwork(b, x) = Emitted(rule)
  <2>1. Pattern(Whole(q, h, rest)) = Emitted(Whole(q, Lowered(h), rest))
    BY <1>1, PatternAccepts
  <2>2. \A s : Emitted(s).rule = s
    BY DEF Emitted
  <2>3. normalizeNetwork(b, x) = Emitted(Pattern(Whole(q, h, rest)).rule \o WrittenModifiers(taken))
    BY <1>1, NetworkAccepts
  <2>4. QED  BY <1>5, <2>1, <2>2, <2>3
<1>7. ToSet(b) \cap Banned = {}
  BY <1>4, AvoidsIs
<1>8. Malformed \notin ToSet(line) /\ ToSet(line) \cap Markers = {}
  <2>1. PICK seps : seps = {Malformed} \cup Markers
    OBVIOUS
  <2>2. "@@" \notin seps
    BY <2>1 DEF Malformed, Markers
  <2>3. Avoids(b, seps)
    <3>1. ToSet(b) \cap seps = {}
      BY <1>7, <2>1 DEF Banned
    <3>2. QED  BY <1>4, <3>1, AvoidsIs
  <2>4. Avoids(line, seps)
    BY <1>1, <1>3, <1>4, <2>2, <2>3, MarkedAvoids
  <2>5. ToSet(line) \cap seps = {}
    BY <2>4, AvoidsIs
  <2>6. QED  BY <2>1, <2>5
<1>9. Head(line) # "/" /\ Head(line) # "[Adblock" /\ Head(b) \notin HostsPrefixes
  BY <1>3, <1>4 DEF HostsPrefixes
<1>10. ToSet(b) \cap (Blanks \cup NotAscii) = {}
  BY <1>7 DEF Banned
<1>11. \A s : Emitted(s).ok /\ Emitted(s).rule = s
  BY DEF Emitted
<1>12. normalize(line) = IF x /\ normalizeNetwork(b, x).ok
                        THEN Emitted(<<"@@">> \o normalizeNetwork(b, x).rule)
                        ELSE normalizeNetwork(b, x)
  BY <1>3, <1>4, <1>8, <1>9, <1>10, Zenon DEF normalize, WithMark
<1>13. normalize(line) = Emitted(Marked(x, rule))
  BY <1>6, <1>11, <1>12, Zenon DEF Marked
<1>14. QED  BY <1>3, <1>5, <1>13

\* The parts of a pattern, as Meaning takes it apart.
WholeParts(p, q, h, rest) ==
  /\ p \in Seq(Tok) /\ SubSeq(p, 1, 2) = q /\ SubSeq(p, 3 + Len(h), Len(p)) = rest
  /\ Before(SubSeq(p, 3, Len(p)), {"/", "?", "#", "^", "|"}) = h

\* Meaning finds the parts that a pattern is made of.
LEMMA WholeIs ==
  ASSUME NEW q, NEW h, NEW rest, PatternForm(q, h, rest)
  PROVE  WholeParts(Whole(q, h, rest), q, h, rest)
<1>1. q \in Seq(Tok) /\ h \in Seq(Tok) /\ rest \in Seq(Tok) /\ validDomain(h)
  BY Zenon DEF PatternForm
<1>2. /\ Len(q) = 2 /\ Len(h) \in Nat
      /\ rest # <<>> => rest[1] \in {"/", "?", "#", "^", "|"}
  BY FormIs, Zenon DEF FormParts, Begins
<1>3. PICK hr \in Seq(Tok) : hr = h \o rest
  BY <1>1, ConcatIs
<1>4. PICK p \in Seq(Tok) : p = q \o hr /\ MadeOf(p, q, hr)
  BY <1>1, MadeOfParts
<1>5. SubSeq(p, 1, 2) = q /\ SubSeq(p, 3, Len(p)) = hr
  <2>1. SubSeq(p, 1, 2) = q /\ SubSeq(p, 2 + 1, Len(p)) = hr
    BY <1>2, <1>4, Zenon DEF MadeOf
  <2>2. QED  BY <2>1
<1>6. PICK qh \in Seq(Tok) : qh = q \o h /\ MadeOf(qh, q, h)
  BY <1>1, MadeOfParts
<1>7. p = qh \o rest
  <2>1. Regroups(q, h, rest)
    BY <1>1, RegroupsIs
  <2>2. QED  BY <1>3, <1>4, <1>6, <2>1 DEF Regroups
<1>8. SubSeq(p, 3 + Len(h), Len(p)) = rest
  <2>1. MadeOf(qh \o rest, qh, rest)
    BY <1>1, MadeOfParts
  <2>2. SubSeq(p, Len(qh) + 1, Len(p)) = rest
    BY <1>7, <2>1, Zenon DEF MadeOf
  <2>3. Len(qh) = 2 + Len(h)
    BY <1>2, <1>6, Zenon DEF MadeOf
  <2>4. Len(qh) + 1 = 3 + Len(h)
    BY <1>2, <2>3
  <2>5. QED  BY <2>2, <2>4
<1>9. Before(hr, {"/", "?", "#", "^", "|"}) = h
  <2>1. PICK seps : seps = {"/", "?", "#", "^", "|"}
    OBVIOUS
  <2>2. seps \cap Words = {} /\ "." \notin seps
    BY <2>1, MarkFacts DEF Marks
  <2>3. Avoids(h, seps)
    BY <1>1, <2>2, DomainIs
  <2>4. rest # <<>> => rest[1] \in seps
    BY <1>2, <2>1
  <2>5. Before(hr, seps) = h
    BY <1>1, <1>3, <2>3, <2>4, CutAt
  <2>6. QED  BY <2>1, <2>5
<1>10. p = Whole(q, h, rest)
  BY <1>3, <1>4 DEF Whole
<1>11. QED  BY <1>5, <1>8, <1>9, <1>10, Zenon DEF WholeParts

\* The options are cut off where they begin, whether the line is marked or not.
LEMMA MarkedCut ==
  ASSUME NEW p \in Seq(Tok), Avoids(p, {"$"}), NEW m \in Seq(Tok), m # <<>> => m[1] = "$",
         NEW x \in BOOLEAN
  PROVE  Before(p \o m, {"$"}) = p /\ From(Marked(x, p \o m), {"$"}) = m
<1>1. m # <<>> => m[1] \in {"$"}
  OBVIOUS
<1>2. Before(p \o m, {"$"}) = p /\ From(p \o m, {"$"}) = m
  BY <1>1, CutAt
<1>3. CASE x
  <2>1. "@@" \in Tok
    BY MarkFacts DEF Marks
  <2>2. PICK d \in Seq(Tok) : d = <<"@@">>
    BY <2>1, OneToken
  <2>3. PICK dp \in Seq(Tok) : dp = d \o p
    BY ConcatIs
  <2>4. Avoids(dp, {"$"})
    <3>1. Avoids(Marked(x, p), {"$"})
      BY MarkedAvoids
    <3>2. QED  BY <1>3, <2>2, <2>3, <3>1 DEF Marked
  <2>5. From(dp \o m, {"$"}) = m
    BY <1>1, <2>4, CutAt
  <2>6. Regroups(d, p, m)
    BY RegroupsIs
  <2>7. Marked(x, p \o m) = dp \o m
    BY <1>3, <2>2, <2>3, <2>6 DEF Marked, Regroups
  <2>8. QED  BY <1>2, <2>5, <2>7
<1>4. CASE ~x
  BY <1>2, <1>4 DEF Marked
<1>5. QED  BY <1>3, <1>4

\* What such a rule means.
Says(x, q, h, rest, taken) ==
  [exception |-> x, host |-> q \o h, rest |-> rest, options |-> Meanings(taken)]

\* Meaning says that of a network rule, its host in lower case.
LEMMA MeaningIs ==
  ASSUME NEW b, NEW x, NEW q, NEW h, NEW rest, NEW taken, NetworkForm(b, x, q, h, rest, taken)
  PROVE  Meaning(Marked(x, b)) = Says(x, q, Lowered(h), rest, taken)
<1>1. x \in BOOLEAN /\ PatternForm(q, h, rest) /\ NetworkParts(b, Whole(q, h, rest), taken, x)
  BY Zenon DEF NetworkForm
<1>2. Barred(b)
  BY FormBegins
<1>3. PICK p : p = Whole(q, h, rest)
  OBVIOUS
<1>4. p \in Seq(Tok) /\ Avoids(p, {"$"})
  BY <1>1, <1>3, Zenon DEF NetworkParts
<1>5. PICK m \in Seq(Tok) :
        /\ b = p \o m /\ (m # <<>> => m[1] = "$")
        /\ Meanings(taken) = IF m = <<>> THEN {} ELSE MeaningOptions(Tail(m))
  <2>1. CASE b = p /\ taken = {}
    <3>1. PICK m \in Seq(Tok) : m = <<>>
      BY EmptySeq
    <3>2. b = p \o m
      BY <1>4, <2>1, <3>1, ConcatEmptySeq
    <3>3. Meanings(taken) = {}
      BY <2>1 DEF Meanings
    <3>4. QED  BY <3>1, <3>2, <3>3
  <2>2. CASE \E o \in Seq(Tok) : /\ b = p \o (<<"$">> \o o) /\ parseModifiers(o, x).ok
                                 /\ taken = parseModifiers(o, x).taken
    <3>1. PICK o \in Seq(Tok) : b = p \o (<<"$">> \o o) /\ taken = parseModifiers(o, x).taken
      BY <2>2
    <3>2. "$" \in Tok
      BY MarkFacts DEF Marks
    <3>3. PICK m \in Seq(Tok) : m = <<"$">> \o o /\ m # <<>> /\ m[1] = "$" /\ Tail(m) = o
      BY <3>2, InFront
    <3>4. MeaningOptions(o) = Meanings(taken)
      BY <3>1, MeaningOptionsIs
    <3>5. QED  BY <3>1, <3>3, <3>4
  <2>3. QED  BY <1>1, <1>3, <2>1, <2>2, Zenon DEF NetworkParts
<1>6. PICK line \in Seq(Tok) : /\ line = Marked(x, b) /\ line # <<>> /\ x = (Head(line) = "@@")
                               /\ b = (IF x THEN Tail(line) ELSE line)
                               /\ Head(line) \in {"@@", "|"}
  BY <1>1, <1>2, MarkedIs
<1>7. Before(b, {"$"}) = p /\ From(line, {"$"}) = m
  BY <1>1, <1>4, <1>5, <1>6, MarkedCut
<1>8. WholeParts(p, q, h, rest)
  BY <1>1, <1>3, WholeIs
<1>9. Head(line) \notin HostsPrefixes
  BY <1>6 DEF HostsPrefixes
<1>10. (IF m = <<>> THEN {} ELSE MeaningOptions(Tail(m))) =
         IF m = <<>> THEN {}
         ELSE {LET o == Option(part)
               IN  [name |-> o.name, negated |-> o.negated,
                    domains |-> IF o.value = <<>> THEN {}
                                ELSE ToSet(Entries(Tail(o.value)))]
                 : part \in ToSet(Split(Tail(m), ","))}
  BY Zenon DEF MeaningOptions, OptionMeaning
<1>11. Meaning(line) = [exception |-> x, host |-> q \o Lowered(h), rest |-> rest,
                        options |-> IF m = <<>> THEN {} ELSE MeaningOptions(Tail(m))]
  BY <1>6, <1>7, <1>8, <1>9, <1>10, Zenon DEF Meaning, WholeParts
<1>12. QED  BY <1>5, <1>6, <1>11, Zenon DEF Says

\* A rule as it is written: the host in lower case, the options in order.
NormalForm(line, x, q, h, rest, taken) ==
  /\ x \in BOOLEAN /\ PatternForm(q, h, rest) /\ Lowered(h) = h
  /\ Avoids(rest, Banned \cup {"$"}) /\ Fits(taken, x)
  /\ line = Marked(x, Whole(q, h, rest) \o WrittenModifiers(taken))

\* What is banned is neither a word nor one of the tokens that rules are written with.
LEMMA BannedIs ==
  ASSUME NEW seps, seps \subseteq Banned \cup {"$"}
  PROVE  /\ seps \cap Words = {} /\ Plain(seps) /\ "," \notin seps /\ "." \notin seps
         /\ seps \cap ({"|", "^"} \cup Schemes) = {}
<1>1. Banned \cup {"$"} \subseteq Special
  BY DEF Banned, Special
<1>2. (Banned \cup {"$"}) \cap {"~", "|", "=", ",", ".", "^"} = {}
  BY DEF Banned, Malformed, Markers, Blanks, HostsPrefixes, NotAscii
<1>3. (Banned \cup {"$"}) \cap Schemes = {}
  BY DEF Banned, Malformed, Markers, Blanks, HostsPrefixes, NotAscii, Schemes
<1>4. seps \cap Words = {}
  BY <1>1, TokenFacts
<1>5. seps \cap OptionNames = {}
  BY <1>1, NameFacts
<1>6. QED  BY <1>2, <1>3, <1>4, <1>5 DEF Plain

\* A pattern avoids what its rest avoids.
LEMMA WholeAvoids ==
  ASSUME NEW q, NEW h, NEW rest, PatternForm(q, h, rest),
         NEW seps, seps \subseteq Banned \cup {"$"}
  PROVE  Avoids(Whole(q, h, rest), seps) <=> Avoids(rest, seps)
<1>1. q \in Seq(Tok) /\ h \in Seq(Tok) /\ rest \in Seq(Tok) /\ validDomain(h)
  BY Zenon DEF PatternForm
<1>2. Len(q) = 2 /\ q[1] = "|" /\ q[2] \in {"|"} \cup Schemes
  BY FormIs, Zenon DEF FormParts, Begins
<1>3. /\ seps \cap Words = {} /\ "." \notin seps /\ seps \cap ({"|", "^"} \cup Schemes) = {}
  BY BannedIs
<1>4. Avoids(h, seps)
  BY <1>1, <1>3, DomainIs
<1>5. Avoids(q, seps)
  <2>1. q[1] \notin seps /\ q[2] \notin seps
    BY <1>2, <1>3
  <2>2. QED  BY <1>2, <2>1 DEF Avoids
<1>6. PICK hr \in Seq(Tok) : hr = h \o rest
  BY <1>1, ConcatIs
<1>7. Avoids(hr, seps) <=> Avoids(h, seps) /\ Avoids(rest, seps)
  BY <1>1, <1>6, AvoidsConcat
<1>8. Avoids(q \o hr, seps) <=> Avoids(q, seps) /\ Avoids(hr, seps)
  BY <1>1, AvoidsConcat
<1>9. QED  BY <1>4, <1>5, <1>6, <1>7, <1>8 DEF Whole

\* Options as they are written: none, or "$" and what parseModifiers reads.
\* Written options, read as modifiers.
WrittenParts(m, taken, x) ==
  /\ m \in Seq(Tok) /\ (m # <<>> => m[1] = "$")
  /\ Avoids(m, Banned)
  /\ (m = <<>>) = (taken = {})
  /\ m # <<>> => /\ m = <<"$">> \o Tail(m) /\ Tail(m) \in Seq(Tok) /\ Avoids(Tail(m), {"$"})
                 /\ parseModifiers(Tail(m), x) = [ok |-> TRUE, taken |-> CanonicalOnes(taken)]
                 /\ AcceptsModifiers(Tail(m), x)

\* WrittenModifiers writes options so.
LEMMA WrittenIs ==
  ASSUME NEW taken, NEW x, Fits(taken, x)
  PROVE  WrittenParts(WrittenModifiers(taken), taken, x)
<1>1. CASE taken = {}
  <2>1. PICK m \in Seq(Tok) : m = <<>>
    BY EmptySeq
  <2>2. Avoids(m, Banned)
    BY <2>1, EmptySeq DEF Avoids
  <2>3. WrittenModifiers(taken) = m
    BY <1>1, <2>1, NoOptionsFit
  <2>4. QED  BY <1>1, <2>1, <2>2, <2>3, Zenon DEF WrittenParts
<1>2. CASE taken # {}
  <2>1. PICK j \in Seq(Tok) :
          /\ WrittenModifiers(taken) = <<"$">> \o j
          /\ parseModifiers(j, x) = [ok |-> TRUE, taken |-> CanonicalOnes(taken)]
          /\ AcceptsModifiers(j, x)
          /\ \A seps : Plain(seps) /\ "," \notin seps => Avoids(j, seps)
    <3>1. ReadsBack(WrittenModifiers(taken), taken, x)
      BY <1>2, ModifiersRead
    <3>2. QED  BY <3>1, Zenon DEF ReadsBack
  <2>2. "$" \in Tok
    BY MarkFacts DEF Marks
  <2>3. PICK m \in Seq(Tok) : m = <<"$">> \o j /\ m # <<>> /\ m[1] = "$" /\ Tail(m) = j
    BY <2>2, InFront
  <2>4. Avoids(j, {"$"}) /\ Avoids(j, Banned)
    <3>1. Plain({"$"}) /\ "," \notin {"$"}
      BY BannedIs
    <3>2. Plain(Banned) /\ "," \notin Banned
      BY BannedIs
    <3>3. QED  BY <2>1, <3>1, <3>2, Zenon
  <2>5. Avoids(m, Banned)
    <3>1. PICK d \in Seq(Tok) : d = <<"$">> /\ Len(d) = 1 /\ d[1] = "$"
      BY <2>2, OneToken
    <3>2. "$" \notin Banned
      BY DEF Banned, Malformed, Markers, Blanks, HostsPrefixes, NotAscii
    <3>3. Avoids(d, Banned)
      BY <3>1, <3>2 DEF Avoids
    <3>4. Avoids(d \o j, Banned)
      BY <2>4, <3>3, AvoidsConcat
    <3>5. QED  BY <2>3, <3>1, <3>4
  <2>6. m = WrittenModifiers(taken)
    BY <2>1, <2>3
  <2>7. (m = <<>>) = (taken = {})
    BY <1>2, <2>3
  <2>8. WrittenParts(m, taken, x)
    BY <2>1, <2>3, <2>4, <2>5, <2>7, Zenon DEF WrittenParts
  <2>9. QED  BY <2>6, <2>8
<1>3. QED  BY <1>1, <1>2

\* A rule in normal form is a network rule of what it says, holds nothing banned ...
LEMMA NormalNetwork ==
  ASSUME NEW line, NEW x, NEW q, NEW h, NEW rest, NEW taken, NormalForm(line, x, q, h, rest, taken)
  PROVE  \E b : /\ b = Whole(q, h, rest) \o WrittenModifiers(taken) /\ line = Marked(x, b)
                /\ NetworkForm(b, x, q, h, rest, CanonicalOnes(taken)) /\ Avoids(b, Banned)
<1>1. /\ x \in BOOLEAN /\ PatternForm(q, h, rest) /\ Lowered(h) = h
      /\ Avoids(rest, Banned \cup {"$"}) /\ Fits(taken, x)
      /\ line = Marked(x, Whole(q, h, rest) \o WrittenModifiers(taken))
  BY Zenon DEF NormalForm
<1>2. PICK p \in Seq(Tok) : p = Whole(q, h, rest)
  BY <1>1, WholeIs DEF WholeParts
<1>3. PICK m \in Seq(Tok) : m = WrittenModifiers(taken) /\ WrittenParts(m, taken, x)
  <2>1. WrittenParts(WrittenModifiers(taken), taken, x)
    BY <1>1, WrittenIs
  <2>2. QED  BY <2>1, Zenon DEF WrittenParts
<1>4. Avoids(p, {"$"}) /\ Avoids(p, Banned)
  <2>1. Avoids(rest, {"$"}) /\ Avoids(rest, Banned)
    BY <1>1 DEF Avoids
  <2>2. QED  BY <1>1, <1>2, <2>1, WholeAvoids
<1>5. Avoids(p \o m, Banned)
  BY <1>3, <1>4, AvoidsConcat DEF WrittenParts
<1>6. Pattern(p).ok
  <2>1. \A s : Emitted(s).ok
    BY DEF Emitted
  <2>2. Pattern(Whole(q, h, rest)) = Emitted(Whole(q, Lowered(h), rest))
    BY <1>1, PatternAccepts
  <2>3. QED  BY <1>2, <2>1, <2>2
<1>7. Fits(CanonicalOnes(taken), x)
  BY <1>1, CanonicalFits
<1>8. NetworkParts(p \o m, p, CanonicalOnes(taken), x)
  <2>1. CASE taken = {}
    <3>1. CanonicalOnes(taken) = {}
      BY <2>1 DEF CanonicalOnes
    <3>2. m = <<>>
      BY <1>3, <2>1 DEF WrittenParts
    <3>3. p \o m = p
      BY <3>2, ConcatEmptySeq
    <3>4. QED  BY <1>4, <1>6, <1>7, <3>1, <3>3, Zenon DEF NetworkParts
  <2>2. CASE taken # {}
    <3>1. CanonicalOnes(taken) # {}
      BY <2>2 DEF CanonicalOnes
    <3>2. PICK o \in Seq(Tok) :
            /\ m = <<"$">> \o o /\ Avoids(o, {"$"})
            /\ parseModifiers(o, x) = [ok |-> TRUE, taken |-> CanonicalOnes(taken)]
      BY <1>3, <2>2, Zenon DEF WrittenParts
    <3>3. parseModifiers(o, x).ok /\ CanonicalOnes(taken) = parseModifiers(o, x).taken
      BY <3>2
    <3>4. QED  BY <1>4, <1>6, <1>7, <3>1, <3>2, <3>3, Zenon DEF NetworkParts
  <2>3. QED  BY <2>1, <2>2
<1>9. NetworkForm(p \o m, x, q, h, rest, CanonicalOnes(taken))
  BY <1>1, <1>2, <1>8, Zenon DEF NetworkForm
<1>10. QED  BY <1>1, <1>2, <1>3, <1>5, <1>9, Zenon

\* ... is accepted as itself and means what it says.
LEMMA NormalIs ==
  ASSUME NEW line, NEW x, NEW q, NEW h, NEW rest, NEW taken, NormalForm(line, x, q, h, rest, taken)
  PROVE  normalize(line) = Emitted(line) /\ Meaning(line) = Says(x, q, h, rest, taken)
<1>1. /\ x \in BOOLEAN /\ Lowered(h) = h /\ Fits(taken, x)
      /\ line = Marked(x, Whole(q, h, rest) \o WrittenModifiers(taken))
  BY Zenon DEF NormalForm
<1>2. PICK b : /\ line = Marked(x, b) /\ Avoids(b, Banned)
               /\ NetworkForm(b, x, q, h, rest, CanonicalOnes(taken))
  BY NormalNetwork
<1>3. Fits(CanonicalOnes(taken), x) /\ Meanings(CanonicalOnes(taken)) = Meanings(taken)
  BY <1>1, CanonicalFits
<1>4. WrittenModifiers(CanonicalOnes(taken)) = WrittenModifiers(taken)
  BY <1>1, <1>3, ModifiersOnce
<1>5. normalize(Marked(x, b)) =
        Emitted(Marked(x, Whole(q, Lowered(h), rest) \o WrittenModifiers(CanonicalOnes(taken))))
  BY <1>2, NormalizeAccepts
<1>6. Meaning(Marked(x, b)) = Says(x, q, Lowered(h), rest, CanonicalOnes(taken))
  BY <1>2, MeaningIs
<1>7. Says(x, q, h, rest, CanonicalOnes(taken)) = Says(x, q, h, rest, taken)
  BY <1>3, Zenon DEF Says
<1>8. QED  BY <1>1, <1>2, <1>4, <1>5, <1>6, <1>7

\* And there is one for what it says.
LEMMA NormalOnce ==
  ASSUME NEW k, NEW x, NEW q, NEW h, NEW rest, NEW s, NormalForm(k, x, q, h, rest, s),
         NEW l, NEW y, NEW r, NEW g, NEW tail, NEW t, NormalForm(l, y, r, g, tail, t),
         Meaning(k) = Meaning(l)
  PROVE  k = l
<1>1. Says(x, q, h, rest, s) = Says(y, r, g, tail, t)
  BY NormalIs
<1>2. x = y /\ q \o h = r \o g /\ rest = tail /\ Meanings(s) = Meanings(t)
  BY <1>1 DEF Says
<1>3. /\ PatternForm(q, h, rest) /\ Fits(s, x)
      /\ PatternForm(r, g, tail) /\ Fits(t, y)
      /\ k = Marked(x, Whole(q, h, rest) \o WrittenModifiers(s))
      /\ l = Marked(y, Whole(r, g, tail) \o WrittenModifiers(t))
  BY Zenon DEF NormalForm
<1>4. WrittenModifiers(s) = WrittenModifiers(t)
  BY <1>2, <1>3, ModifiersOnce
<1>5. Whole(q, h, rest) = Whole(r, g, tail)
  <2>1. /\ q \in Seq(Tok) /\ h \in Seq(Tok) /\ rest \in Seq(Tok)
        /\ r \in Seq(Tok) /\ g \in Seq(Tok) /\ tail \in Seq(Tok)
    BY <1>3, Zenon DEF PatternForm
  <2>2. Regroups(q, h, rest)
    BY <2>1, RegroupsIs
  <2>3. Regroups(r, g, tail)
    BY <2>1, RegroupsIs
  <2>4. QED  BY <1>2, <2>2, <2>3 DEF Regroups, Whole
<1>6. QED  BY <1>2, <1>3, <1>4, <1>5

\* A host as it is emitted, ...
LEMMA HostEmitted ==
  ASSUME NEW line, NEW host, NEW rule, HostsLine(line, host, rule)
  PROVE  \E q, h, rest : /\ NormalForm(rule, FALSE, q, h, rest, {})
                         /\ Meaning(line) = Says(FALSE, q, h, rest, {})
<1>1. /\ host \in Seq(Tok) /\ validDomain(host)
      /\ Head(line) \in HostsPrefixes /\ host = Tail(line)
      /\ rule = <<"|", "|">> \o Lowered(host) \o <<"^">>
  BY Zenon DEF HostsLine
<1>2. PICK h \in Seq(Tok) : h = Lowered(host) /\ Lowered(h) = h /\ validDomain(h)
  BY <1>1, LoweredIs, LoweredTwice, ValidLowered
<1>3. PICK q : q = <<"|", "|">> /\ q \in Seq(Tok)
  <2>1. "|" \in {"|"} \cup Schemes
    OBVIOUS
  <2>2. Begins(<<"|", "|">>)
    BY <2>1, BeginsWith
  <2>3. QED  BY <2>2 DEF Begins
<1>4. PICK rest \in Seq(Tok) : rest = <<"^">> /\ Len(rest) = 1 /\ rest[1] = "^"
  <2>1. "^" \in Tok
    BY MarkFacts DEF Marks
  <2>2. QED  BY <2>1, OneToken
<1>5. PatternForm(q, h, rest)
  <2>1. rest # <<>>
    BY <1>4, EmptySeq
  <2>2. ~InnerPipe(rest)
    BY <1>4 DEF InnerPipe
  <2>3. DomainRest(rest)
    BY <1>4, <2>1, <2>2 DEF DomainRest
  <2>4. QED  BY <1>2, <1>3, <1>4, <2>3 DEF PatternForm
<1>6. Avoids(rest, Banned \cup {"$"})
  <2>1. "^" \notin Banned \cup {"$"}
    BY BannedIs
  <2>2. QED  BY <1>4, <2>1 DEF Avoids
<1>7. Fits({}, FALSE) /\ WrittenModifiers({}) = <<>>
  BY NoOptionsFit
<1>8. rule = Marked(FALSE, Whole(q, h, rest) \o WrittenModifiers({}))
  <2>1. Regroups(q, h, rest)
    BY <1>2, <1>3, <1>4, RegroupsIs
  <2>2. rule = Whole(q, h, rest)
    BY <1>1, <1>2, <1>3, <1>4, <2>1 DEF Regroups, Whole
  <2>3. PICK p \in Seq(Tok) : p = Whole(q, h, rest)
    BY <1>5, WholeIs DEF WholeParts
  <2>4. p \o <<>> = p
    BY <2>3, ConcatEmptySeq
  <2>5. QED  BY <1>7, <2>2, <2>3, <2>4 DEF Marked
<1>9. NormalForm(rule, FALSE, q, h, rest, {})
  BY <1>2, <1>5, <1>6, <1>7, <1>8 DEF NormalForm
<1>10. Meaning(line) = Says(FALSE, q, h, rest, {})
  <2>1. Meaning(line) = [exception |-> FALSE, host |-> <<"|", "|">> \o Lowered(Tail(line)),
                         rest |-> <<"^">>, options |-> {}]
    BY <1>1, Zenon DEF Meaning
  <2>2. Meanings({}) = {}
    BY DEF Meanings
  <2>3. QED  BY <1>1, <1>2, <1>3, <1>4, <2>1, <2>2 DEF Says
<1>11. QED  BY <1>9, <1>10

\* ... and a network rule.
LEMMA NetworkEmitted ==
  ASSUME NEW line, NEW x, NEW p, NEW taken, NEW rule, NetworkLine(line, x, p, taken, rule)
  PROVE  \E q, h, rest : /\ NormalForm(rule, x, q, h, rest, taken)
                         /\ Meaning(line) = Says(x, q, h, rest, taken)
<1>1. /\ x \in BOOLEAN
      /\ \E b \in Seq(Tok) : /\ b # <<>> /\ line = Marked(x, b)
                             /\ Avoids(b, Banned) /\ NetworkParts(b, p, taken, x)
      /\ rule = Marked(x, Pattern(p).rule \o WrittenModifiers(taken))
  BY Zenon DEF NetworkLine
<1>2. PICK b \in Seq(Tok) : line = Marked(x, b) /\ Avoids(b, Banned) /\ NetworkParts(b, p, taken, x)
  BY <1>1
<1>3. p \in Seq(Tok) /\ Avoids(p, {"$"}) /\ Pattern(p).ok /\ Fits(taken, x)
  BY <1>2, Zenon DEF NetworkParts
<1>4. PICK q, g, rest : PatternForm(q, g, rest) /\ p = Whole(q, g, rest)
  BY <1>3, PatternAccepted
<1>5. PICK h : h = Lowered(g)
  OBVIOUS
<1>6. PatternForm(q, h, rest) /\ Lowered(h) = h
  <2>1. g \in Seq(Tok)
    BY <1>4, Zenon DEF PatternForm
  <2>2. Lowered(Lowered(g)) = Lowered(g)
    BY <2>1, LoweredTwice
  <2>3. QED  BY <1>4, <1>5, <2>2, FormIs
<1>7. NetworkForm(b, x, q, g, rest, taken)
  BY <1>1, <1>2, <1>4, Zenon DEF NetworkForm
<1>8. Meaning(line) = Says(x, q, h, rest, taken)
  BY <1>2, <1>5, <1>7, MeaningIs
<1>9. rule = Marked(x, Whole(q, h, rest) \o WrittenModifiers(taken))
  <2>1. Pattern(p) = Emitted(Whole(q, h, rest))
    BY <1>4, <1>5, PatternAccepts
  <2>2. \A s : Emitted(s).rule = s
    BY DEF Emitted
  <2>3. QED  BY <1>1, <2>1, <2>2
<1>10. Avoids(p, Banned)
  <2>1. CASE b = p
    BY <1>2, <2>1
  <2>2. CASE \E o \in Seq(Tok) : b = p \o (<<"$">> \o o)
    <3>1. PICK o \in Seq(Tok) : b = p \o (<<"$">> \o o)
      BY <2>2
    <3>2. "$" \in Tok
      BY MarkFacts DEF Marks
    <3>3. PICK m \in Seq(Tok) : m = <<"$">> \o o
      BY <3>2, InFront
    <3>4. QED  BY <1>2, <1>3, <3>1, <3>3, AvoidsConcat
  <2>3. QED  BY <1>2, <2>1, <2>2, Zenon DEF NetworkParts
<1>11. Avoids(rest, Banned \cup {"$"})
  <2>1. Avoids(rest, Banned)
    BY <1>4, <1>10, WholeAvoids
  <2>2. Avoids(rest, {"$"})
    BY <1>3, <1>4, WholeAvoids
  <2>3. QED  BY <2>1, <2>2 DEF Avoids
<1>12. NormalForm(rule, x, q, h, rest, taken)
  BY <1>1, <1>3, <1>6, <1>9, <1>11, Zenon DEF NormalForm
<1>13. QED  BY <1>8, <1>12

\* So what is accepted is emitted in normal form, and the form says what the line meant.
LEMMA AcceptedIs ==
  ASSUME NEW line \in Seq(Tok), line # <<>>, normalize(line).ok
  PROVE  \E x, q, h, rest, taken : /\ NormalForm(normalize(line).rule, x, q, h, rest, taken)
                                   /\ Meaning(line) = Says(x, q, h, rest, taken)
<1>1. CASE \E host : HostsLine(line, host, normalize(line).rule)
  BY <1>1, HostEmitted
<1>2. CASE \E x, p, taken : NetworkLine(line, x, p, taken, normalize(line).rule)
  BY <1>2, NetworkEmitted
<1>3. QED  BY <1>1, <1>2, NormalizeAccepted

\* A pattern is longer than what begins it.
LEMMA WholeLength ==
  ASSUME NEW q, NEW h, NEW rest, PatternForm(q, h, rest)
  PROVE  Len(Whole(q, h, rest)) >= 3
<1>1. q \in Seq(Tok) /\ h \in Seq(Tok) /\ rest \in Seq(Tok)
  BY Zenon DEF PatternForm
<1>2. Len(q) = 2 /\ Len(h) \in Nat /\ Len(h) >= 1
  BY FormIs, Zenon DEF FormParts, Begins
<1>3. PICK hr \in Seq(Tok) : hr = h \o rest /\ Len(hr) = Len(h) + Len(rest) /\ Len(rest) \in Nat
  BY <1>1, ConcatIs
<1>4. Len(q \o hr) = Len(q) + Len(hr)
  BY <1>1, ConcatIs
<1>5. QED  BY <1>2, <1>3, <1>4 DEF Whole

\* A rule in normal form that blocks a bare domain is no exception and has no options.
LEMMA BareIs ==
  ASSUME NEW line, NEW x, NEW q, NEW h, NEW rest, NEW taken,
         NormalForm(line, x, q, h, rest, taken), isBareDomainBlock(line)
  PROVE  ~x /\ taken = {}
<1>1. /\ x \in BOOLEAN /\ PatternForm(q, h, rest) /\ Fits(taken, x)
      /\ line = Marked(x, Whole(q, h, rest) \o WrittenModifiers(taken))
  BY Zenon DEF NormalForm
<1>2. PICK p \in Seq(Tok) : p = Whole(q, h, rest)
  BY <1>1, WholeIs DEF WholeParts
<1>3. PICK m \in Seq(Tok) : /\ m = WrittenModifiers(taken) /\ (m # <<>> => m[1] = "$")
                            /\ (m = <<>>) = (taken = {})
  <2>1. WrittenParts(WrittenModifiers(taken), taken, x)
    BY <1>1, WrittenIs
  <2>2. QED  BY <2>1, Zenon DEF WrittenParts
<1>4. PICK b \in Seq(Tok) : b = p \o m /\ MadeOf(b, p, m)
  BY MadeOfParts
<1>5. Barred(b)
  BY <1>1, <1>2, <1>4, WholeBegins
<1>6. line \in Seq(Tok) /\ line # <<>> /\ x = (Head(line) = "@@")
  BY <1>1, <1>2, <1>3, <1>4, <1>5, MarkedIs
<1>7. Len(line) >= 2 /\ line[1] = "|"
  BY <1>6, PipesAre DEF isBareDomainBlock
<1>8. ~x
  <2>1. Head(line) = line[1]
    BY <1>6, FirstAndRest
  <2>2. QED  BY <1>6, <1>7, <2>1
<1>9. line = b
  BY <1>1, <1>2, <1>3, <1>4, <1>8 DEF Marked
<1>10. m = <<>>
  <2>1. SUFFICES ASSUME m # <<>> PROVE FALSE
    OBVIOUS
  <2>2. m[1] = "$" /\ Len(m) \in Nat /\ Len(m) >= 1
    BY <1>3, <2>1, FirstAndRest
  <2>3. PICK i \in Nat : i = Len(p) + 1
    BY <1>4 DEF MadeOf
  <2>4. /\ line[i] = "$" /\ i >= 3 /\ i <= Len(line) /\ Len(line) \in Nat
    <3>1. line[Len(p) + 1] = m[1] /\ Len(line) = Len(p) + Len(m) /\ Len(p) \in Nat
      BY <1>4, <1>9, <2>2 DEF MadeOf
    <3>2. Len(p) >= 2
      BY <1>1, <1>2, WholeLength
    <3>3. QED  BY <2>2, <2>3, <3>1, <3>2
  <2>5. Last(line) = "^" /\ validDomain(SubSeq(line, 3, Len(line) - 1))
    BY DEF isBareDomainBlock
  <2>6. i # Len(line)
    BY <2>4, <2>5 DEF Last
  <2>7. PICK k \in Nat : k = i - 2 /\ k >= 1
    BY <2>4
  <2>8. PICK s \in Seq(Tok) :
          /\ s = SubSeq(line, 3, Len(line) - 1) /\ Len(s) = Len(line) - 3
          /\ \A j \in 1..Len(s) : s[j] = line[2 + j]
    <3>1. PICK n \in Nat : n = Len(line) - 1 /\ 2 <= n /\ n <= Len(line)
      BY <2>4
    <3>2. /\ SubSeq(line, 2 + 1, n) \in Seq(Tok) /\ Len(SubSeq(line, 2 + 1, n)) = n - 2
          /\ \A j \in 1..(n - 2) : SubSeq(line, 2 + 1, n)[j] = line[2 + j]
      BY <1>6, <3>1, PieceIs
    <3>3. n - 2 = Len(line) - 3 /\ 2 + 1 = 3
      BY <2>4, <3>1
    <3>4. QED  BY <3>1, <3>2, <3>3
  <2>9. k \in 1..Len(s) /\ s[k] = "$"
    <3>1. k \in 1..Len(s)
      BY <2>4, <2>6, <2>7, <2>8
    <3>2. 2 + k = i
      BY <2>7
    <3>3. QED  BY <2>4, <2>8, <3>1, <3>2
  <2>10. {"$"} \cap Words = {} /\ "." \notin {"$"}
    BY MarkFacts DEF Marks
  <2>11. Avoids(s, {"$"})
    BY <2>5, <2>8, <2>10, DomainIs
  <2>12. QED  BY <2>9, <2>11 DEF Avoids
<1>11. QED  BY <1>3, <1>8, <1>10

\* Narrowed, it is still in normal form, and is not narrowed again.
LEMMA NarrowedIs ==
  ASSUME NEW line, NEW x, NEW q, NEW h, NEW rest, NEW taken, NormalForm(line, x, q, h, rest, taken)
  PROVE  /\ \E s : NormalForm(optimizeRule(line), x, q, h, rest, s)
         /\ ~isBareDomainBlock(optimizeRule(line))
<1>1. CASE ~isBareDomainBlock(line)
  BY <1>1 DEF optimizeRule
<1>2. CASE isBareDomainBlock(line)
  <2>1. ~x /\ taken = {}
    BY <1>2, BareIs
  <2>2. /\ PatternForm(q, h, rest) /\ Lowered(h) = h /\ Avoids(rest, Banned \cup {"$"})
        /\ line = Marked(x, Whole(q, h, rest) \o WrittenModifiers(taken))
    BY Zenon DEF NormalForm
  <2>3. PICK p \in Seq(Tok) : p = Whole(q, h, rest)
    BY <2>2, WholeIs DEF WholeParts
  <2>4. line = p
    <3>1. WrittenModifiers({}) = <<>>
      BY NoOptionsFit
    <3>2. p \o <<>> = p
      BY ConcatEmptySeq
    <3>3. QED  BY <2>1, <2>2, <2>3, <3>1, <3>2 DEF Marked
  <2>5. PICK s : s = {ThirdParty}
    OBVIOUS
  <2>6. Fits(s, x) /\ WrittenModifiers(s) = <<"$", "third-party">> /\ s # {}
    BY <2>5, ThirdPartyIs
  <2>7. optimizeRule(line) = Marked(x, Whole(q, h, rest) \o WrittenModifiers(s))
    BY <1>2, <2>1, <2>3, <2>4, <2>6 DEF optimizeRule, Marked
  <2>8. NormalForm(optimizeRule(line), x, q, h, rest, s)
    BY <2>1, <2>2, <2>6, <2>7 DEF NormalForm
  <2>9. QED  BY <2>6, <2>8, BareIs
<1>3. QED  BY <1>1, <1>2

\* What a text begins with is a prefix of it.
LEMMA PrefixIs ==
  ASSUME NEW T, NEW a \in Seq(T), NEW b \in Seq(T)
  PROVE  HasPrefix(a \o b, a)
<1>1. PICK s \in Seq(T) : s = a \o b /\ MadeOf(s, a, b)
  BY MadeOfParts
<1>2. SubSeq(s, 1, Len(a)) = a /\ Len(a) <= Len(s)
  BY <1>1 DEF MadeOf
<1>3. SubSeq(a, 1, Len(a)) = a
  BY SubSeqFull
<1>4. QED  BY <1>1, <1>2, <1>3 DEF HasPrefix, IsPrefix

\* The rest of a pattern: what the host is followed by, and an end anchor or none.
RestIs(rest, body, end, q) ==
  /\ body \in Seq(Tok) /\ end \in Seq(Tok) /\ rest = body \o end /\ end \in {<<>>, <<"|">>}
  /\ Avoids(body, {"|"})
  /\ body # <<>> => body[1] \in {"/", "?", "#"} \cup IF q[2] \in Schemes THEN {} ELSE {"^"}
  /\ q[2] \in Schemes => ToSet(body) \subseteq TailTokens

\* Every pattern has such a rest ...
LEMMA RestEnds ==
  ASSUME NEW q, NEW h, NEW rest, PatternForm(q, h, rest)
  PROVE  \E body, end : RestIs(rest, body, end, q)
<1>1. q \in Seq(Tok) /\ h \in Seq(Tok) /\ rest \in Seq(Tok)
  BY Zenon DEF PatternForm
<1>2. CASE q = <<"|", "|">> /\ DomainRest(rest)
  <2>1. q[2] \notin Schemes
    <3>1. <<"|", "|">>[2] = "|"
      BY BeginsWith
    <3>2. "|" \notin Schemes
      BY DEF Schemes
    <3>3. QED  BY <1>2, <3>1, <3>2
  <2>2. /\ rest # <<>> /\ rest[1] \in {"/", "?", "#", "^", "|"}
        /\ \A i \in 1..Len(rest) - 1 : rest[i] # "|"
    BY <1>2, Zenon DEF DomainRest, InnerPipe
  <2>3. PICK n \in Nat : Len(rest) = n + 1
    <3>1. Len(rest) \in Nat /\ Len(rest) >= 1
      BY <1>1, <2>2, FirstAndRest
    <3>2. Len(rest) - 1 \in Nat /\ Len(rest) = (Len(rest) - 1) + 1
      BY <3>1
    <3>3. QED  BY <3>2
  <2>4. ASSUME NEW body \in Seq(Tok), NEW end \in Seq(Tok), rest = body \o end,
               end \in {<<>>, <<"|">>}, Avoids(body, {"|"})
        PROVE  RestIs(rest, body, end, q)
    <3>1. ASSUME body # <<>> PROVE body[1] \in {"/", "?", "#"} \cup {"^"}
      <4>1. Len(body) >= 1 /\ Len(body) \in Nat
        BY <3>1, FirstAndRest
      <4>2. \A i \in 1..Len(body) : (body \o end)[i] = body[i]
        BY ConcatIs
      <4>3. rest[1] = body[1] /\ body[1] # "|"
        <5>1. 1 \in 1..Len(body)
          BY <4>1
        <5>2. QED  BY <2>4, <4>2, <5>1 DEF Avoids
      <4>4. QED  BY <2>2, <4>3
    <3>2. QED  BY <2>1, <2>4, <3>1 DEF RestIs
  <2>5. CASE rest[n + 1] = "|"
    <3>1. PICK body \in Seq(Tok), end \in Seq(Tok) :
            /\ body = SubSeq(rest, 1, n) /\ end = SubSeq(rest, n + 1, Len(rest))
            /\ MadeOf(rest, body, end) /\ Len(body) = n
      <4>1. n <= Len(rest)
        BY <2>3
      <4>2. QED  BY <1>1, <4>1, TakenApart
    <3>2. rest = body \o end /\ \A i \in 1..n : rest[i] = body[i]
      BY <3>1, Zenon DEF MadeOf
    <3>3. Avoids(body, {"|"})
      <4>1. Len(rest) - 1 = n
        BY <2>3
      <4>2. QED  BY <2>2, <3>1, <3>2, <4>1 DEF Avoids
    <3>4. end = <<"|">>
      <4>1. /\ Len(rest) = n + Len(end) /\ Len(end) \in Nat
            /\ \A i \in 1..Len(end) : rest[n + i] = end[i]
        BY <3>1, Zenon DEF MadeOf
      <4>2. Len(end) = 1
        <5>1. PICK k \in Nat : k = Len(end)
          BY <4>1
        <5>2. n + k = n + 1
          BY <2>3, <4>1, <5>1
        <5>3. QED  BY <5>1, <5>2
      <4>3. end[1] = "|"
        BY <2>5, <4>1, <4>2
      <4>4. "|" \in Tok
        BY MarkFacts DEF Marks
      <4>5. PICK d \in Seq(Tok) : d = <<"|">> /\ Len(d) = 1 /\ d[1] = "|"
        BY <4>4, OneToken
      <4>6. \A i \in 1..Len(end) : end[i] = d[i]
        BY <4>2, <4>3, <4>5
      <4>7. QED  BY <4>2, <4>5, <4>6, SameTokens
    <3>5. QED  BY <2>4, <3>2, <3>3, <3>4
  <2>6. CASE rest[n + 1] # "|"
    <3>1. PICK end \in Seq(Tok) : end = <<>>
      BY EmptySeq
    <3>2. rest = rest \o end
      BY <1>1, <3>1, ConcatEmptySeq
    <3>3. Avoids(rest, {"|"})
      <4>1. SUFFICES ASSUME NEW i \in 1..Len(rest) PROVE rest[i] # "|"
        BY DEF Avoids
      <4>2. i = n + 1 \/ i \in 1..Len(rest) - 1
        BY <2>3
      <4>3. QED  BY <2>2, <2>6, <4>2
    <3>4. QED  BY <1>1, <2>4, <3>1, <3>2, <3>3
  <2>7. QED  BY <2>5, <2>6
<1>3. CASE \E s \in Schemes, tail \in Seq(Tok), end \in Seq(Tok) :
             q = <<"|", s>> /\ UrlRest(rest, tail, end)
  <2>1. PICK s \in Schemes, tail \in Seq(Tok), end \in Seq(Tok) :
          q = <<"|", s>> /\ UrlRest(rest, tail, end)
    BY <1>3
  <2>2. /\ rest = tail \o end /\ end \in {<<>>, <<"|">>} /\ ToSet(tail) \subseteq TailTokens
        /\ tail # <<>> => tail[1] \in {"/", "?", "#"}
    BY <2>1, Zenon DEF UrlRest
  <2>3. q[2] \in Schemes
    <3>1. <<"|", s>>[2] = s
      BY BeginsWith
    <3>2. QED  BY <2>1, <3>1
  <2>4. Avoids(tail, {"|"})
    <3>1. "|" \notin TailTokens
      BY MarkFacts DEF TailTokens, Marks
    <3>2. ToSet(tail) \cap {"|"} = {}
      BY <2>2, <3>1
    <3>3. QED  BY <3>2, AvoidsIs
  <2>5. QED  BY <2>2, <2>3, <2>4, Zenon DEF RestIs
<1>4. QED  BY <1>2, <1>3, Zenon DEF PatternForm

\* ... and is read by scripts/validate.sh as host and rest.
PatternReads(p, q, h, body) ==
  /\ p \in Seq(Tok) /\ Len(p) > 1 /\ p[2] = q[2]
  /\ HasPrefix(p, IF q[2] \in Schemes THEN <<"|">> ELSE <<"|", "|">>)
  /\ SubSeq(p, 3, Len(p) - IF Last(p) = "|" THEN 1 ELSE 0) = h \o body

\* The awk program finds the host and the rest of a pattern.
LEMMA PatternRead ==
  ASSUME NEW q, NEW h, NEW rest, PatternForm(q, h, rest),
         NEW body, NEW end, RestIs(rest, body, end, q)
  PROVE  PatternReads(Whole(q, h, rest), q, h, body)
<1>1. /\ q \in Seq(Tok) /\ h \in Seq(Tok) /\ rest \in Seq(Tok) /\ validDomain(h)
      /\ Len(q) = 2 /\ q[1] = "|" /\ q = <<"|", q[2]>> /\ q[2] \in {"|"} \cup Schemes
      /\ Len(h) \in Nat /\ Len(h) >= 1
  <2>1. q \in Seq(Tok) /\ h \in Seq(Tok) /\ rest \in Seq(Tok) /\ validDomain(h)
    BY Zenon DEF PatternForm
  <2>2. Begins(q) /\ Len(h) \in Nat /\ Len(h) >= 1
    BY FormIs, Zenon DEF FormParts
  <2>3. QED  BY <2>1, <2>2, Zenon DEF Begins
<1>0. q \in Seq(Tok)
  BY <1>1
<1>2. /\ body \in Seq(Tok) /\ end \in Seq(Tok) /\ rest = body \o end /\ end \in {<<>>, <<"|">>}
      /\ Avoids(body, {"|"})
  BY Zenon DEF RestIs
<1>3. PICK w \in Seq(Tok) : w = h \o body /\ Len(w) = Len(h) + Len(body) /\ Len(body) \in Nat
  BY <1>1, <1>2, ConcatIs
<1>4. PICK k \in Nat : k = Len(w) /\ k >= 1
  BY <1>1, <1>3
<1>5. PICK p \in Seq(Tok) : p = Whole(q, h, rest) /\ p = q \o (w \o end)
  <2>1. Regroups(h, body, end)
    BY <1>1, <1>2, RegroupsIs
  <2>2. h \o rest = w \o end
    BY <1>2, <1>3, <2>1 DEF Regroups
  <2>3. PICK p \in Seq(Tok) : p = Whole(q, h, rest)
    BY WholeIs DEF WholeParts
  <2>4. QED  BY <2>2, <2>3 DEF Whole
<1>6. SubSeq(p, 3, 2 + k) = w
  <2>1. SubSeq(q \o (w \o end), Len(q) + 1, Len(q) + Len(w)) = w
    BY <1>1, <1>2, MiddleIs
  <2>2. Len(q) + 1 = 3 /\ Len(q) + Len(w) = 2 + k
    BY <1>1, <1>4
  <2>3. QED  BY <1>5, <2>1, <2>2
<1>7. p[1] = "|" /\ p[2] = q[2] /\ Len(p) >= 2
  <2>1. PICK we \in Seq(Tok) : we = w \o end
    BY <1>2, ConcatIs
  <2>2. /\ Len(q \o we) = Len(q) + Len(we) /\ Len(we) \in Nat
        /\ \A i \in 1..Len(q) : (q \o we)[i] = q[i]
    BY <1>0, ConcatIs
  <2>3. QED  BY <1>1, <1>5, <2>1, <2>2
<1>8. SubSeq(p, 3, Len(p) - IF Last(p) = "|" THEN 1 ELSE 0) = w
  <2>1. PICK qw \in Seq(Tok) : qw = q \o w /\ Len(qw) = 2 + k /\ \A i \in 1..k : qw[2 + i] = w[i]
    <3>1. /\ q \o w \in Seq(Tok) /\ Len(q \o w) = Len(q) + Len(w)
          /\ \A i \in 1..Len(w) : (q \o w)[Len(q) + i] = w[i]
      BY <1>0, ConcatIs
    <3>2. QED  BY <1>1, <1>4, <3>1
  <2>2. p = qw \o end
    <3>1. Regroups(q, w, end)
      BY <1>1, <1>2, RegroupsIs
    <3>2. QED  BY <1>5, <2>1, <3>1 DEF Regroups
  <2>3. CASE end = <<>>
    <3>1. p = qw
      BY <2>1, <2>2, <2>3, ConcatEmptySeq
    <3>2. Len(p) = 2 + k /\ p[2 + k] = w[k]
      BY <1>4, <2>1, <3>1
    <3>3. w[k] # "|"
      <4>1. {"|"} \cap Words = {} /\ "." \notin {"|"}
        BY MarkFacts DEF Marks
      <4>2. Avoids(h, {"|"})
        BY <1>1, <4>1, DomainIs
      <4>3. Avoids(w, {"|"})
        BY <1>1, <1>2, <1>3, <4>2, AvoidsConcat
      <4>4. k \in 1..Len(w)
        BY <1>4
      <4>5. QED  BY <4>3, <4>4 DEF Avoids
    <3>4. Last(p) # "|" /\ Len(p) - 0 = 2 + k
      BY <3>2, <3>3 DEF Last
    <3>5. QED  BY <1>6, <3>4
  <2>4. CASE end = <<"|">>
    <3>1. Len(end) = 1 /\ end[1] = "|"
      BY <2>4
    <3>2. /\ Len(qw \o end) = Len(qw) + Len(end)
          /\ \A i \in 1..Len(end) : (qw \o end)[Len(qw) + i] = end[i]
      BY <1>2, ConcatIs
    <3>3. Len(p) = 2 + k + 1
      BY <2>1, <2>2, <3>1, <3>2
    <3>4. p[2 + k + 1] = "|"
      BY <2>1, <2>2, <3>1, <3>2
    <3>5. Last(p) = "|" /\ Len(p) - 1 = 2 + k
      BY <3>3, <3>4 DEF Last
    <3>6. QED  BY <1>6, <3>5
  <2>5. QED  BY <1>2, <2>3, <2>4
<1>9. HasPrefix(p, IF q[2] \in Schemes THEN <<"|">> ELSE <<"|", "|">>)
  <2>1. CASE q[2] \in Schemes
    <3>1. p # <<>>
      BY <1>7, EmptySeq
    <3>2. "|" \in Tok
      BY MarkFacts DEF Marks
    <3>3. PICK d \in Seq(Tok) : d = <<"|">>
      BY <3>2, OneToken
    <3>4. p = <<Head(p)>> \o Tail(p) /\ Head(p) = p[1] /\ Tail(p) \in Seq(Tok)
      BY <3>1, FirstAndRest
    <3>5. p = d \o Tail(p)
      BY <1>7, <3>3, <3>4
    <3>6. HasPrefix(p, d)
      BY <3>4, <3>5, PrefixIs
    <3>7. QED  BY <2>1, <3>3, <3>6
  <2>2. CASE q[2] \notin Schemes
    <3>1. q[2] = "|"
      BY <1>1, <2>2
    <3>2. HasPrefix(p, <<"|", "|">>)
      BY <1>7, <3>1, PipesAre
    <3>3. QED  BY <2>2, <3>2
  <2>3. QED  BY <2>1, <2>2
<1>10. Len(p) > 1
  <2>1. Len(p) \in Nat
    BY LenProperties
  <2>2. QED  BY <1>7, <2>1
<1>11. QED  BY <1>3, <1>5, <1>7, <1>8, <1>9, <1>10, Zenon DEF PatternReads

\* scripts/validate.sh accepts every rule in normal form but a bare domain.
LEMMA NormalAccepted ==
  ASSUME NEW line, NEW x, NEW q, NEW h, NEW rest, NEW taken,
         NormalForm(line, x, q, h, rest, taken), ~isBareDomainBlock(line)
  PROVE  Accepts(line)
<1>1. /\ x \in BOOLEAN /\ PatternForm(q, h, rest) /\ Lowered(h) = h
      /\ Avoids(rest, Banned \cup {"$"}) /\ Fits(taken, x)
      /\ line = Marked(x, Whole(q, h, rest) \o WrittenModifiers(taken))
  BY Zenon DEF NormalForm
<1>2. PICK body, end : RestIs(rest, body, end, q)
  BY <1>1, RestEnds
<1>3. PICK p : p = Whole(q, h, rest) /\ PatternReads(p, q, h, body)
  BY <1>1, <1>2, PatternRead
<1>4. p \in Seq(Tok) /\ Avoids(p, {"$"})
  <2>1. Avoids(rest, {"$"})
    BY <1>1 DEF Avoids
  <2>2. Avoids(p, {"$"})
    BY <1>1, <1>3, <2>1, WholeAvoids
  <2>3. QED  BY <1>3, <2>2, Zenon DEF PatternReads
<1>5. PICK m \in Seq(Tok) : /\ m = WrittenModifiers(taken) /\ WrittenParts(m, taken, x)
                            /\ (m # <<>> => m[1] = "$")
  <2>1. WrittenParts(WrittenModifiers(taken), taken, x)
    BY <1>1, WrittenIs
  <2>2. QED  BY <2>1, Zenon DEF WrittenParts
<1>6. PICK b \in Seq(Tok) : b = p \o m /\ Avoids(b, Banned)
  <2>1. PICK b : /\ b = Whole(q, h, rest) \o WrittenModifiers(taken) /\ Avoids(b, Banned)
    BY NormalNetwork
  <2>2. p \o m \in Seq(Tok)
    BY <1>4, ConcatIs
  <2>3. QED  BY <1>3, <1>5, <2>1, <2>2
<1>7. Barred(b)
  BY <1>1, <1>3, <1>6, WholeBegins
<1>8. line = Marked(x, b)
  BY <1>1, <1>3, <1>5, <1>6
<1>9. /\ line \in Seq(Tok) /\ line # <<>> /\ x = (Head(line) = "@@")
      /\ b = (IF x THEN Tail(line) ELSE line) /\ Head(line) \in {"@@", "|"}
  BY <1>1, <1>7, <1>8, MarkedIs
<1>10. Before(b, {"$"}) = p /\ From(line, {"$"}) = m
  BY <1>1, <1>4, <1>5, <1>6, <1>8, MarkedCut
<1>11. PICK r \in Seq(Tok) :
         /\ r = SubSeq(p, 3, Len(p) - IF Last(p) = "|" THEN 1 ELSE 0) /\ r = h \o body
         /\ h \in Seq(Tok) /\ body \in Seq(Tok)
  <2>1. h \in Seq(Tok) /\ body \in Seq(Tok)
    BY <1>1, <1>2, Zenon DEF PatternForm, RestIs
  <2>2. h \o body \in Seq(Tok)
    BY <2>1, ConcatIs
  <2>3. QED  BY <1>3, <2>1, <2>2 DEF PatternReads
<1>12. PICK anchored \in BOOLEAN : anchored = (Len(p) > 1 /\ p[2] \in Schemes)
  OBVIOUS
<1>13. anchored = (q[2] \in Schemes)
  BY <1>3, <1>12 DEF PatternReads
<1>14. ToSet(line) \cap (Blanks \cup Markers) = {}
  <2>1. "@@" \notin Blanks \cup Markers
    BY DEF Blanks, HostsPrefixes, Markers
  <2>2. Avoids(b, Blanks \cup Markers)
    BY <1>6 DEF Avoids, Banned
  <2>3. Avoids(line, Blanks \cup Markers)
    BY <1>1, <1>8, <2>1, <2>2, MarkedAvoids
  <2>4. QED  BY <1>9, <2>3, AvoidsIs
<1>15. m # <<>> => "$" \notin ToSet(Tail(m)) /\ AcceptsModifiers(Tail(m), x)
  <2>1. SUFFICES ASSUME m # <<>> PROVE "$" \notin ToSet(Tail(m)) /\ AcceptsModifiers(Tail(m), x)
    OBVIOUS
  <2>2. Tail(m) \in Seq(Tok) /\ Avoids(Tail(m), {"$"}) /\ AcceptsModifiers(Tail(m), x)
    BY <1>5, <2>1, Zenon DEF WrittenParts
  <2>3. ToSet(Tail(m)) \cap {"$"} = {}
    BY <2>2, AvoidsIs
  <2>4. QED  BY <2>2, <2>3
<1>16. HasPrefix(p, IF anchored THEN <<"|">> ELSE <<"|", "|">>)
  BY <1>3, <1>13, Zenon DEF PatternReads
<1>17. validDomain(h) /\ Avoids(body, {"|"})
  BY <1>1, <1>2, Zenon DEF PatternForm, RestIs
<1>18. "|" \notin ToSet(r)
  <2>1. {"|"} \cap Words = {} /\ "." \notin {"|"}
    BY MarkFacts DEF Marks
  <2>2. Avoids(h, {"|"})
    BY <1>11, <1>17, <2>1, DomainIs
  <2>3. Avoids(r, {"|"})
    BY <1>11, <1>17, <2>2, AvoidsConcat
  <2>4. ToSet(r) \cap {"|"} = {}
    BY <2>3, AvoidsIs
  <2>5. QED  BY <2>4
<1>19. PICK seps : seps = {"/", "?", "#"} \cup IF anchored THEN {} ELSE {"^"}
  OBVIOUS
<1>20. Before(r, seps) = h /\ From(r, seps) = body
  <2>1. seps \cap Words = {} /\ "." \notin seps
    BY <1>19, MarkFacts DEF Marks
  <2>2. Avoids(h, seps)
    BY <1>11, <1>17, <2>1, DomainIs
  <2>3. body # <<>> => body[1] \in seps
    BY <1>2, <1>13, <1>19 DEF RestIs
  <2>4. QED  BY <1>11, <2>2, <2>3, CutAt
<1>21. AcceptsHost(Before(r, seps))
  BY <1>1, <1>17, <1>20 DEF AcceptsHost
<1>22. anchored => ToSet(From(r, {"/", "?", "#"})) \subseteq UrlTokens
  <2>1. SUFFICES ASSUME anchored PROVE ToSet(From(r, {"/", "?", "#"})) \subseteq UrlTokens
    OBVIOUS
  <2>2. ToSet(body) \subseteq TailTokens
    BY <1>2, <1>13, <2>1 DEF RestIs
  <2>3. TailTokens = UrlTokens
    BY DEF TailTokens, UrlTokens
  <2>4. seps = {"/", "?", "#"}
    BY <1>19, <2>1
  <2>5. QED  BY <1>20, <2>2, <2>3, <2>4
<1>23. ~(m = <<>> /\ ~x /\ isBareDomainBlock(p))
  <2>1. SUFFICES ASSUME m = <<>>, ~x PROVE line = p
    OBVIOUS
  <2>2. p \o <<>> = p
    BY <1>4, ConcatEmptySeq
  <2>3. QED  BY <1>6, <1>8, <2>1, <2>2 DEF Marked
<1>24. ~(Len(line) > 1 /\ Head(line) = "/" /\ Last(line) = "/")
  BY <1>9
<1>25. QED
  BY <1>9, <1>10, <1>11, <1>12, <1>14, <1>15, <1>16, <1>18, <1>19, <1>21, <1>22, <1>23, <1>24,
     Zenon DEF Accepts

-------------------------------------------------------------------------------
(* The order of the options of a line                                      *)

\* Two texts of options that hold the same tokens and are taken alike.
Alike(o, n) ==
  /\ o \in Seq(Tok) /\ n \in Seq(Tok)
  /\ \A seps : "," \notin seps => (Avoids(o, seps) <=> Avoids(n, seps))
  /\ \A exception : parseModifiers(o, exception) = parseModifiers(n, exception)
Shuffles(place, parts) == place \in Bijection(1..Len(parts), 1..Len(parts))

\* Options in another order are alike.
LEMMA ReorderedAlike ==
  ASSUME NEW o \in Seq(Tok), NEW place, Shuffles(place, Split(o, ","))
  PROVE  Alike(o, Joined(InPlaces(Split(o, ","), place), ","))
<1>1. "," \in Tok
  BY MarkFacts DEF Marks
<1>2. PICK parts \in Seq(Seq(Tok)) : /\ parts = Split(o, ",") /\ parts # <<>>
                                     /\ AllAvoid(parts, ",") /\ Joined(parts, ",") = o
  BY <1>1, SplitIs
<1>3. PICK n \in Nat : n = Len(parts)
  BY LenProperties
<1>4. Rearranged(InPlaces(parts, place), parts, place, Seq(Tok))
  <2>1. place \in Bijection(1..Len(parts), 1..Len(parts))
    BY <1>2, Zenon DEF Shuffles
  <2>2. QED  BY <2>1, InPlacesIs, Zenon
<1>5. PICK other \in Seq(Seq(Tok)) : other = InPlaces(parts, place)
  BY <1>4, Zenon DEF Rearranged
<1>6. Len(other) = n
  BY <1>3, <1>4, <1>5 DEF Rearranged
<1>7. /\ Len(other) = n /\ \A i \in 1..n : place[i] \in 1..n /\ other[i] = parts[place[i]]
      /\ \A u \in 1..n : \E i \in 1..n : place[i] = u
  BY <1>3, <1>4, <1>5 DEF Rearranged
<1>8. other # <<>>
  BY <1>2, <1>3, <1>6, SameEmpty, Zenon
<1>9. AllAvoid(other, ",")
  BY <1>2, <1>3, <1>7 DEF AllAvoid
<1>10. Split(Joined(other, ","), ",") = other
  BY <1>9, <1>1, <1>8, SplitOfJoined
<1>11. Joined(other, ",") \in Seq(Tok)
  BY <1>1, JoinedType
<1>12. ASSUME NEW seps, "," \notin seps
       PROVE  Avoids(o, seps) <=> Avoids(Joined(other, ","), seps)
  <2>1. Avoids(o, seps) <=> \A i \in 1..n : Avoids(parts[i], seps)
    BY <1>1, <1>2, <1>3, <1>12, AvoidsJoined
  <2>2. Avoids(Joined(other, ","), seps) <=> \A i \in 1..Len(other) : Avoids(other[i], seps)
    BY <1>1, <1>12, AvoidsJoined
  <2>3. ASSUME \A i \in 1..n : Avoids(parts[i], seps), NEW i \in 1..n
        PROVE  Avoids(other[i], seps)
    BY <1>7, <2>3
  <2>4. ASSUME \A i \in 1..n : Avoids(other[i], seps), NEW u \in 1..n
        PROVE  Avoids(parts[u], seps)
    <3>1. PICK i \in 1..n : place[i] = u
      BY <1>7
    <3>2. QED  BY <1>7, <2>4, <3>1
  <2>5. QED  BY <1>7, <2>1, <2>2, <2>3, <2>4
<1>13. ASSUME NEW exception
       PROVE  parseModifiers(o, exception) = parseModifiers(Joined(other, ","), exception)
  <2>1. parseModifiers(o, exception) = TakeAll(parts, exception)
    BY <1>2, Zenon DEF parseModifiers
  <2>2. parseModifiers(Joined(other, ","), exception) = TakeAll(other, exception)
    BY <1>10 DEF parseModifiers
  <2>3. TakeAll(other, exception) = TakeAll(parts, exception)
    <3>1. place \in Bijection(1..Len(parts), 1..Len(parts)) /\ Len(other) = Len(parts)
      BY <1>2, <1>3, <1>7, Zenon DEF Shuffles
    <3>2. \A i \in 1..Len(parts) : other[i] = parts[place[i]]
      BY <1>3, <1>7
    <3>3. QED  BY <3>1, <3>2, OptionsInAnyOrder
  <2>4. QED  BY <2>1, <2>2, <2>3
<1>14. QED  BY <1>2, <1>5, <1>11, <1>12, <1>13, Zenon DEF Alike

\* A line of one pattern and options.
WithOptions(b, o) == b \o (<<"$">> \o o)

\* It is a line, and holds a "$".
LEMMA WithOptionsIs ==
  ASSUME NEW b \in Seq(Tok), NEW o \in Seq(Tok)
  PROVE  /\ WithOptions(b, o) \in Seq(Tok) /\ WithOptions(b, o) # <<>>
         /\ ~Avoids(WithOptions(b, o), {"$"})
         /\ <<"$">> \o o \in Seq(Tok) /\ (<<"$">> \o o)[1] = "$"
         /\ \A seps : "$" \notin seps =>
              (Avoids(WithOptions(b, o), seps) <=> Avoids(b, seps) /\ Avoids(o, seps))
<1>1. "$" \in Tok
  BY MarkFacts DEF Marks
<1>2. PICK d \in Seq(Tok) : d = <<"$">> /\ Len(d) = 1 /\ d[1] = "$"
  BY <1>1, OneToken
<1>3. PICK m \in Seq(Tok) : m = <<"$">> \o o /\ m[1] = "$"
  BY <1>1, InFront
<1>4. PICK l \in Seq(Tok) : l = WithOptions(b, o) /\ l = b \o m
  <2>1. b \o m \in Seq(Tok)
    BY ConcatIs
  <2>2. QED  BY <1>3, <2>1 DEF WithOptions
<1>5. ASSUME NEW seps
      PROVE  Avoids(l, seps) <=> Avoids(b, seps) /\ "$" \notin seps /\ Avoids(o, seps)
  <2>1. Avoids(l, seps) <=> Avoids(b, seps) /\ Avoids(m, seps)
    BY <1>4, AvoidsConcat
  <2>2. Avoids(m, seps) <=> Avoids(d, seps) /\ Avoids(o, seps)
    BY <1>2, <1>3, AvoidsConcat
  <2>3. Avoids(d, seps) <=> "$" \notin seps
    BY <1>2 DEF Avoids
  <2>4. QED  BY <2>1, <2>2, <2>3
<1>6. ~Avoids(l, {"$"})
  BY <1>5
<1>7. l # <<>>
  BY <1>6, EmptySeq DEF Avoids
<1>8. QED  BY <1>3, <1>4, <1>5, <1>6, <1>7

\* A mark changes only what stands first.
LEMMA MarkedType ==
  ASSUME NEW p \in Seq(Tok), NEW x \in BOOLEAN
  PROVE  Marked(x, p) \in Seq(Tok)
<1>1. "@@" \in Tok
  BY MarkFacts DEF Marks
<1>2. <<"@@">> \o p \in Seq(Tok)
  BY <1>1, InFront
<1>3. QED  BY <1>2 DEF Marked

\* The mark of an exception stands in front, options or not.
LEMMA MarkedWith ==
  ASSUME NEW p \in Seq(Tok), NEW x \in BOOLEAN, NEW o \in Seq(Tok)
  PROVE  Marked(x, WithOptions(p, o)) = WithOptions(Marked(x, p), o)
<1>1. PICK m \in Seq(Tok) : m = <<"$">> \o o
  BY WithOptionsIs
<1>2. CASE x
  <2>1. "@@" \in Tok
    BY MarkFacts DEF Marks
  <2>2. PICK d \in Seq(Tok) : d = <<"@@">>
    BY <2>1, OneToken
  <2>3. Regroups(d, p, m)
    BY RegroupsIs
  <2>4. QED  BY <1>1, <1>2, <2>2, <2>3 DEF Marked, WithOptions, Regroups
<1>3. CASE ~x
  BY <1>3 DEF Marked
<1>4. QED  BY <1>2, <1>3

\* normalize answers yes or no, and there is no rule when it answers no.
Answers(r) == r.ok \in BOOLEAN /\ (r.ok \/ r.rule = <<>>)

\* Every line has such an answer.
LEMMA AnswerIs ==
  ASSUME NEW line
  PROVE  Answers(normalize(line))
<1>1. \A reason : Answers(Rejected(reason))
  BY DEF Answers, Rejected
<1>2. \A rule : Answers(Emitted(rule))
  BY DEF Answers, Emitted
<1>3. \A b, x : Answers(normalizeNetwork(b, x))
  <2>1. SUFFICES ASSUME NEW b, NEW x PROVE Answers(normalizeNetwork(b, x))
    OBVIOUS
  <2>2. PICK p, mods : normalizeNetwork(b, x) = NetworkRule(p, mods, x)
    BY NetworkSteps
  <2>3. \/ \E reason : NetworkRule(p, mods, x) = Rejected(reason)
        \/ \E rule : NetworkRule(p, mods, x) = Emitted(rule)
    BY Zenon DEF NetworkRule
  <2>4. QED  BY <1>1, <1>2, <2>2, <2>3, Zenon
<1>4. \A host : Answers(HostsEntry(host))
  BY <1>1, <1>2, Zenon DEF HostsEntry
<1>5. PICK body, x, network :
        /\ x = (Head(line) = "@@") /\ body = (IF x THEN Tail(line) ELSE line)
        /\ network = normalizeNetwork(body, x)
  OBVIOUS
<1>6. \/ \E reason : normalize(line) = Rejected(reason)
      \/ \E host : normalize(line) = HostsEntry(host)
      \/ \E rule : normalize(line) = Emitted(rule)
      \/ normalize(line) = network
  BY <1>5, Zenon DEF normalize, WithMark
<1>7. Answers(network)
  BY <1>3, <1>5
<1>8. QED  BY <1>1, <1>2, <1>4, <1>6, <1>7, Zenon

\* What is accepted with options is accepted with options alike, as the same rule.
LEMMA AlikeAccepted ==
  ASSUME NEW b \in Seq(Tok), Avoids(b, {"$"}), NEW o, NEW n, Alike(o, n),
         normalize(WithOptions(b, o)).ok
  PROVE  normalize(WithOptions(b, n)) = normalize(WithOptions(b, o))
<1>1. o \in Seq(Tok) /\ n \in Seq(Tok)
  BY Zenon DEF Alike
<1>2. PICK line \in Seq(Tok) :
        /\ line = WithOptions(b, o) /\ line # <<>>
        /\ ~Avoids(line, {"$"}) /\ line = b \o (<<"$">> \o o)
  BY <1>1, WithOptionsIs DEF WithOptions
<1>3. ~\E host : HostsLine(line, host, normalize(line).rule)
  <2>1. SUFFICES ASSUME NEW host, HostsLine(line, host, normalize(line).rule) PROVE FALSE
    BY Zenon
  <2>2. /\ host \in Seq(Tok) /\ validDomain(host)
        /\ Head(line) \in HostsPrefixes /\ host = Tail(line)
    BY <2>1, Zenon DEF HostsLine
  <2>3. {"$"} \cap Words = {} /\ "." \notin {"$"}
    BY MarkFacts DEF Marks
  <2>4. Avoids(host, {"$"})
    BY <2>2, <2>3, DomainIs
  <2>5. PICK t \in Tok : t = Head(line) /\ line = <<t>> \o host
    BY <1>2, <2>2, FirstAndRest
  <2>6. PICK d \in Seq(Tok) : d = <<t>> /\ Len(d) = 1 /\ d[1] = t
    BY OneToken
  <2>7. Avoids(d, {"$"})
    <3>1. t # "$"
      BY <2>2, <2>5 DEF HostsPrefixes
    <3>2. QED  BY <2>6, <3>1 DEF Avoids
  <2>8. Avoids(line, {"$"})
    <3>1. Avoids(d \o host, {"$"}) <=> Avoids(d, {"$"}) /\ Avoids(host, {"$"})
      BY <2>2, AvoidsConcat
    <3>2. line = d \o host
      BY <2>5, <2>6
    <3>3. QED  BY <2>4, <2>7, <3>1, <3>2
  <2>9. QED  BY <1>2, <2>8
<1>4. PICK x, p, taken : NetworkLine(line, x, p, taken, normalize(line).rule)
  BY <1>2, <1>3, NormalizeAccepted
<1>5. x \in BOOLEAN
  BY <1>4, Zenon DEF NetworkLine
<1>6. PICK c \in Seq(Tok) :
        c # <<>> /\ line = Marked(x, c) /\ Avoids(c, Banned) /\ NetworkParts(c, p, taken, x)
  BY <1>4, Zenon DEF NetworkLine
<1>7. p \in Seq(Tok) /\ Avoids(p, {"$"}) /\ Pattern(p).ok /\ Fits(taken, x)
  BY <1>6, Zenon DEF NetworkParts
<1>8. ~Avoids(c, {"$"})
  <2>1. "@@" \notin {"$"}
    OBVIOUS
  <2>2. Avoids(Marked(x, c), {"$"}) <=> Avoids(c, {"$"}) /\ (x => "@@" \notin {"$"})
    BY <1>5, MarkedAvoids
  <2>3. QED  BY <1>2, <1>6, <2>1, <2>2
<1>9. PICK u \in Seq(Tok) :
        /\ c = WithOptions(p, u) /\ parseModifiers(u, x).ok
        /\ taken = parseModifiers(u, x).taken /\ taken # {} /\ Avoids(u, {"$"})
  BY <1>6, <1>7, <1>8, Zenon DEF NetworkParts, WithOptions
<1>10. PICK mp \in Seq(Tok) : mp = Marked(x, p) /\ Avoids(mp, {"$"})
  <2>1. Avoids(Marked(x, p), {"$"}) <=> Avoids(p, {"$"}) /\ (x => "@@" \notin {"$"})
    BY <1>5, <1>7, MarkedAvoids
  <2>2. Marked(x, p) \in Seq(Tok)
    BY <1>5, <1>7, MarkedType
  <2>3. QED  BY <1>7, <2>1, <2>2
<1>11. \A s \in Seq(Tok) : Marked(x, WithOptions(p, s)) = WithOptions(mp, s)
  BY <1>5, <1>7, <1>10, MarkedWith
<1>12. u = o /\ mp = b
  <2>1. WithOptions(mp, u) = WithOptions(b, o)
    BY <1>2, <1>6, <1>9, <1>11
  <2>2. PICK du \in Seq(Tok), do \in Seq(Tok) :
          du = <<"$">> \o u /\ do = <<"$">> \o o /\ du[1] \in {"$"} /\ do[1] \in {"$"}
    BY <1>1, WithOptionsIs
  <2>3. mp \o du = b \o do
    BY <2>1, <2>2 DEF WithOptions
  <2>4. mp = b /\ du = do
    BY <1>10, <2>2, <2>3, FirstCut
  <2>5. "$" \in Tok
    BY MarkFacts DEF Marks
  <2>6. PICK d \in Seq(Tok) : d = <<"$">>
    BY <2>5, OneToken
  <2>7. d \o u = d \o o
    BY <2>2, <2>4, <2>6
  <2>8. QED  BY <1>1, <2>4, <2>6, <2>7, CancelLeft
<1>13. parseModifiers(n, x) = parseModifiers(u, x)
  BY <1>12 DEF Alike
<1>14. PICK k \in Seq(Tok) : k = WithOptions(p, n) /\ Avoids(k, Banned)
  <2>1. "$" \notin Banned /\ "," \notin Banned
    BY DEF Banned, Malformed, Markers, Blanks, HostsPrefixes, NotAscii
  <2>2. Avoids(p, Banned) /\ Avoids(u, Banned)
    <3>1. Avoids(WithOptions(p, u), Banned) <=> Avoids(p, Banned) /\ Avoids(u, Banned)
      BY <1>7, <2>1, WithOptionsIs
    <3>2. QED  BY <1>6, <1>9, <3>1
  <2>3. Avoids(n, Banned)
    BY <1>12, <2>1, <2>2 DEF Alike
  <2>4. /\ WithOptions(p, n) \in Seq(Tok)
        /\ Avoids(WithOptions(p, n), Banned) <=> Avoids(p, Banned) /\ Avoids(n, Banned)
    BY <1>1, <1>7, <2>1, WithOptionsIs
  <2>5. QED  BY <2>2, <2>3, <2>4
<1>15. NetworkParts(k, p, taken, x)
  <2>1. "," \notin {"$"}
    OBVIOUS
  <2>2. Avoids(n, {"$"})
    BY <1>9, <1>12, <2>1 DEF Alike
  <2>3. k = p \o (<<"$">> \o n)
    BY <1>14 DEF WithOptions
  <2>4. QED  BY <1>1, <1>7, <1>9, <1>13, <2>2, <2>3, Zenon DEF NetworkParts
<1>16. PICK q, h, rest : PatternForm(q, h, rest) /\ p = Whole(q, h, rest)
  BY <1>7, PatternAccepted
<1>17. NetworkForm(c, x, q, h, rest, taken) /\ NetworkForm(k, x, q, h, rest, taken)
  BY <1>5, <1>6, <1>15, <1>16, Zenon DEF NetworkForm
<1>18. normalize(Marked(x, c)) = normalize(Marked(x, k))
  <2>1. normalize(Marked(x, c)) =
          Emitted(Marked(x, Whole(q, Lowered(h), rest) \o WrittenModifiers(taken)))
    BY <1>6, <1>17, NormalizeAccepts
  <2>2. normalize(Marked(x, k)) =
          Emitted(Marked(x, Whole(q, Lowered(h), rest) \o WrittenModifiers(taken)))
    BY <1>14, <1>17, NormalizeAccepts
  <2>3. QED  BY <2>1, <2>2
<1>19. Marked(x, k) = WithOptions(b, n)
  BY <1>1, <1>11, <1>12, <1>14
<1>20. QED  BY <1>2, <1>6, <1>18, <1>19

\* A text and its options in every order.
Reorderings(b, parts) ==
  {b \o <<"$">> \o Joined([i \in DOMAIN parts |-> parts[p[i]]], ",")
     : p \in Bijection(DOMAIN parts, DOMAIN parts)}

\* So whether a line is accepted, and as what, does not depend on the order of its options.
LEMMA AnyOrder ==
  ASSUME NEW line \in Seq(Tok), NEW l \in Reordered(line)
  PROVE  normalize(l).ok = normalize(line).ok /\ normalize(l).rule = normalize(line).rule
<1>1. PICK b \in Seq(Tok), opts \in Seq(Tok) :
        /\ b = Before(line, {"$"}) /\ opts = From(line, {"$"}) /\ line = b \o opts
        /\ Avoids(b, {"$"}) /\ (opts # <<>> => opts[1] \in {"$"})
  BY CutIs
<1>2. opts # <<>>
  BY <1>1 DEF Reordered
<1>3. PICK o \in Seq(Tok) : o = Tail(opts) /\ opts = <<"$">> \o o
  <2>1. /\ Head(opts) = opts[1] /\ Tail(opts) \in Seq(Tok)
        /\ opts = <<Head(opts)>> \o Tail(opts)
    BY <1>2, FirstAndRest
  <2>2. opts[1] = "$"
    BY <1>1, <1>2
  <2>3. QED  BY <2>1, <2>2
<1>4. PICK parts \in Seq(Seq(Tok)) : parts = Split(o, ",")
  <2>1. "," \in Tok
    BY MarkFacts DEF Marks
  <2>2. QED  BY <2>1, SplitIs
<1>5. DOMAIN parts = 1..Len(parts)
  OBVIOUS
<1>6. Reordered(line) = Reorderings(b, parts)
  <2>1. From(line, {"$"}) # <<>>
    BY <1>1, <1>2
  <2>2. Reordered(line) = Reorderings(Before(line, {"$"}), Split(Tail(From(line, {"$"})), ","))
    BY <2>1, Zenon DEF Reordered, Reorderings
  <2>3. QED  BY <1>1, <1>3, <1>4, <2>2, Zenon
<1>7. PICK place \in Bijection(1..Len(parts), 1..Len(parts)) :
        l = b \o <<"$">> \o Joined([i \in 1..Len(parts) |-> parts[place[i]]], ",")
  <2>1. PICK place \in Bijection(DOMAIN parts, DOMAIN parts) :
          l = b \o <<"$">> \o Joined([i \in DOMAIN parts |-> parts[place[i]]], ",")
    BY <1>6, Zenon DEF Reorderings
  <2>2. QED  BY <1>5, <2>1, Zenon
<1>8. PICK n : n = Joined(InPlaces(parts, place), ",")
  OBVIOUS
<1>9. Alike(o, n)
  <2>1. Shuffles(place, Split(o, ","))
    BY <1>4, <1>7, Zenon DEF Shuffles
  <2>2. QED  BY <1>4, <1>8, <2>1, ReorderedAlike
<1>10. Alike(n, o)
  BY <1>9, Zenon DEF Alike
<1>11. n \in Seq(Tok)
  BY <1>9, Zenon DEF Alike
<1>12. l = WithOptions(b, n)
  <2>1. "$" \in Tok
    BY MarkFacts DEF Marks
  <2>2. PICK d \in Seq(Tok) : d = <<"$">>
    BY <2>1, OneToken
  <2>3. Regroups(b, d, n)
    BY <1>11, RegroupsIs
  <2>4. l = b \o <<"$">> \o n
    BY <1>7, <1>8, Zenon DEF InPlaces
  <2>5. QED  BY <2>2, <2>3, <2>4 DEF Regroups, WithOptions
<1>13. line = WithOptions(b, o)
  BY <1>1, <1>3 DEF WithOptions
<1>14. ASSUME normalize(line).ok PROVE normalize(l) = normalize(line)
  <2>1. normalize(WithOptions(b, o)).ok
    BY <1>13, <1>14
  <2>2. normalize(WithOptions(b, n)) = normalize(WithOptions(b, o))
    BY <1>1, <1>9, <2>1, AlikeAccepted
  <2>3. QED  BY <1>12, <1>13, <2>2
<1>15. ASSUME normalize(l).ok PROVE normalize(line) = normalize(l)
  <2>1. normalize(WithOptions(b, n)).ok
    BY <1>12, <1>15
  <2>2. normalize(WithOptions(b, o)) = normalize(WithOptions(b, n))
    BY <1>1, <1>10, <2>1, AlikeAccepted
  <2>3. QED  BY <1>12, <1>13, <2>2
<1>16. Answers(normalize(line)) /\ Answers(normalize(l))
  BY AnswerIs
<1>17. CASE ~normalize(line).ok /\ ~normalize(l).ok
  BY <1>16, <1>17 DEF Answers
<1>18. QED  BY <1>14, <1>15, <1>17

-------------------------------------------------------------------------------
(* What reaches the sink                                                   *)

\* A rule as the sink may get it.
RuleForm(rule) == /\ \E x, q, h, rest, taken : NormalForm(rule, x, q, h, rest, taken)
                  /\ ~isBareDomainBlock(rule)

\* A line that is not skipped has a token.
LEMMA RawIs ==
  ASSUME NEW raw \in AllRaw, ~Skipped(raw)
  PROVE  raw \in Seq(Tok) /\ raw # <<>>
<1>1. PICK n \in Nat, line \in AllLines : raw = Raw(n, line)
  BY DEF AllRaw
<1>2. PICK k \in DOMAIN Lines : line \in Lines[k]
  BY DEF AllLines
<1>3. line \in Seq(ToSet(line))
  BY <1>2, LinesAssumption
<1>4. ToSet(line) \subseteq Tok
  <2>1. ToSet(line) \in {ToSet(l) : l \in AllLines}
    BY Zenon
  <2>2. QED  BY <2>1 DEF Tok
<1>5. line \in Seq(Tok)
  BY <1>3, <1>4, SeqMonotonic
<1>6. ASSUME line # <<>> PROVE Tail(line) \in Seq(Tok)
  BY <1>5, <1>6, FirstAndRest
<1>7. raw \in Seq(Tok)
  <2>1. PICK b \in BOOLEAN : b = (n = 1 /\ line # <<>> /\ Head(line) = "BOM")
    OBVIOUS
  <2>2. raw = IF b THEN Tail(line) ELSE line
    BY <1>1, <2>1, Zenon DEF Raw
  <2>3. b => line # <<>>
    BY <2>1, Zenon
  <2>4. QED  BY <1>5, <1>6, <2>2, <2>3, Zenon
<1>8. raw # <<>>
  <2>1. SUFFICES ASSUME raw = <<>> PROVE FALSE
    OBVIOUS
  <2>2. {i \in 1..Len(raw) : raw[i] \notin {" "}} = {}
    BY <2>1
  <2>3. SelectInSeq(raw, LAMBDA t : t \notin {" "}) = 0
    BY <2>2 DEF SelectInSeq
  <2>4. QED  BY <2>3 DEF Skipped
<1>9. QED  BY <1>7, <1>8

\* Every rule that reaches the sink is written in the one form of its meaning.
LEMMA SinkForm ==
  ASSUME NEW rule \in SinkRules
  PROVE  RuleForm(rule)
<1>1. PICK raw \in Accepted : rule = optimizeRule(normalize(raw).rule)
  BY DEF SinkRules
<1>2. raw \in AllRaw /\ ~Skipped(raw) /\ normalize(raw).ok
  BY DEF Accepted
<1>3. raw \in Seq(Tok) /\ raw # <<>>
  BY <1>2, RawIs
<1>4. PICK x, q, h, rest, taken : NormalForm(normalize(raw).rule, x, q, h, rest, taken)
  BY <1>2, <1>3, AcceptedIs
<1>5. /\ \E s : NormalForm(rule, x, q, h, rest, s)
      /\ ~isBareDomainBlock(rule)
  BY <1>1, <1>4, NarrowedIs
<1>6. QED  BY <1>5, Zenon DEF RuleForm

\* So scripts/validate.sh lets it pass,
LEMMA FormAccepted ==
  ASSUME NEW rule, RuleForm(rule)
  PROVE  Accepts(rule)
<1>1. PICK x, q, h, rest, taken : NormalForm(rule, x, q, h, rest, taken)
  BY Zenon DEF RuleForm
<1>2. ~isBareDomainBlock(rule)
  BY Zenon DEF RuleForm
<1>3. QED  BY <1>1, <1>2, NormalAccepted

\* it is normalized to itself,
LEMMA FormIsFixed ==
  ASSUME NEW rule, RuleForm(rule)
  PROVE  normalize(rule).ok /\ optimizeRule(normalize(rule).rule) = rule
<1>1. PICK x, q, h, rest, taken : NormalForm(rule, x, q, h, rest, taken)
  BY Zenon DEF RuleForm
<1>2. normalize(rule) = Emitted(rule)
  BY <1>1, NormalIs
<1>3. \A s : Emitted(s).rule = s /\ Emitted(s).ok
  BY DEF Emitted
<1>4. normalize(rule).ok /\ normalize(rule).rule = rule
  BY <1>2, <1>3
<1>5. ~isBareDomainBlock(rule)
  BY Zenon DEF RuleForm
<1>6. optimizeRule(rule) = rule
  BY <1>5 DEF optimizeRule
<1>7. QED  BY <1>4, <1>6, Zenon

\* and no other rule means the same.
LEMMA FormIsOne ==
  ASSUME NEW k, RuleForm(k), NEW l, RuleForm(l), Meaning(k) = Meaning(l)
  PROVE  k = l
<1>1. PICK x, q, h, rest, s : NormalForm(k, x, q, h, rest, s)
  BY Zenon DEF RuleForm
<1>2. PICK y, r, g, tail, t : NormalForm(l, y, r, g, tail, t)
  BY Zenon DEF RuleForm
<1>3. QED  BY <1>1, <1>2, NormalOnce

\* What is accepted means what its line means.
LEMMA AcceptedMeans ==
  ASSUME NEW raw \in AllRaw, ~Skipped(raw), normalize(raw).ok
  PROVE  Meaning(normalize(raw).rule) = Meaning(raw)
<1>1. raw \in Seq(Tok) /\ raw # <<>>
  BY RawIs
<1>2. PICK x, q, h, rest, taken : /\ NormalForm(normalize(raw).rule, x, q, h, rest, taken)
                                  /\ Meaning(raw) = Says(x, q, h, rest, taken)
  BY <1>1, AcceptedIs
<1>3. Meaning(normalize(raw).rule) = Says(x, q, h, rest, taken)
  BY <1>2, NormalIs
<1>4. QED  BY <1>2, <1>3

-------------------------------------------------------------------------------
(* One line more                                                           *)

\* What Append does to a sequence.
LEMMA AppendIs ==
  ASSUME NEW S, NEW s \in Seq(S), NEW e \in S
  PROVE  /\ Append(s, e) \in Seq(S) /\ Len(s) \in Nat /\ Len(Append(s, e)) = Len(s) + 1
         /\ DOMAIN s = 1..Len(s) /\ DOMAIN Append(s, e) = (DOMAIN s) \cup {Len(s) + 1}
         /\ \A i \in DOMAIN s : Append(s, e)[i] = s[i]
         /\ Append(s, e)[Len(s) + 1] = e
<1>1. /\ Append(s, e) \in Seq(S) /\ Len(Append(s, e)) = Len(s) + 1
      /\ \A i \in 1..Len(s) : Append(s, e)[i] = s[i]
      /\ Append(s, e)[Len(s) + 1] = e
  BY AppendProperties
<1>2. /\ Len(s) \in Nat /\ DOMAIN s = 1..Len(s)
      /\ DOMAIN Append(s, e) = 1..Len(Append(s, e))
  BY <1>1, LenProperties
<1>3. 1..(Len(s) + 1) = (1..Len(s)) \cup {Len(s) + 1}
  BY <1>2
<1>4. QED  BY <1>1, <1>2, <1>3

\* The indices of a sequence, and what is selected from them, can be counted.
LEMMA IndicesFinite ==
  ASSUME NEW S, NEW s \in Seq(S), NEW T \in SUBSET (DOMAIN s)
  PROVE  IsFiniteSet(T) /\ Cardinality(T) \in Nat
<1>1. DOMAIN s = 1..Len(s) /\ Len(s) \in Nat
  BY LenProperties
<1>2. IsFiniteSet(1..Len(s))
  BY <1>1, FS_Interval
<1>3. IsFiniteSet(T)
  BY <1>1, <1>2, FS_Subset
<1>4. QED  BY <1>3, FS_CardinalityType

\* The line is skipped or it is not, whatever came before.
LEMMA SkipsAppend ==
  ASSUME NEW S, NEW f \in Seq(S), NEW line \in S
  PROVE  Skips(Append(f, line)) =
           IF Skipped(Raw(Len(f) + 1, line)) THEN Skips(f) \cup {Len(f) + 1} ELSE Skips(f)
<1> DEFINE g == Append(f, line)
<1>1. /\ DOMAIN g = (DOMAIN f) \cup {Len(f) + 1}
      /\ \A i \in DOMAIN f : g[i] = f[i]
      /\ g[Len(f) + 1] = line
  BY AppendIs
<1> HIDE DEF g
<1>2. Skips(g) = IF Skipped(Raw(Len(f) + 1, line)) THEN Skips(f) \cup {Len(f) + 1} ELSE Skips(f)
  BY <1>1 DEF Skips
<1>3. QED  BY <1>2 DEF g

\* A record is a number and a reason.
LEMMA RecordIs ==
  ASSUME NEW n \in Nat, NEW reason \in Reasons
  PROVE  \E e \in Records : e = <<n, reason>> /\ e[1] = n /\ e[2] = reason
<1>1. <<n, reason>>[1] = n /\ <<n, reason>>[2] = reason
  OBVIOUS
<1>2. <<n, reason>> \in Records
  BY DEF Records
<1>3. QED  BY <1>1, <1>2, Zenon

\* A record more has its number, and one reason is given once more.
LEMMA RecordAppend ==
  ASSUME NEW records \in Seq(Records), NEW n \in Nat, NEW reason \in Reasons
  PROVE  /\ Numbers(Append(records, <<n, reason>>)) = Numbers(records) \cup {n}
         /\ \A r \in Reasons : WithReason(Append(records, <<n, reason>>), r) =
              IF r = reason THEN WithReason(records, r) \cup {Len(records) + 1}
                            ELSE WithReason(records, r)
<1> DEFINE e == <<n, reason>>
           g == Append(records, e)
<1>1. e \in Records /\ e[1] = n /\ e[2] = reason
  BY DEF Records
<1> HIDE DEF e
<1>2. /\ DOMAIN g = (DOMAIN records) \cup {Len(records) + 1}
      /\ \A i \in DOMAIN records : g[i] = records[i]
      /\ g[Len(records) + 1] = e
  BY <1>1, AppendIs
<1> HIDE DEF g
<1>3. Numbers(g) = Numbers(records) \cup {n}
  BY <1>1, <1>2 DEF Numbers
<1>4. ASSUME NEW r \in Reasons
      PROVE  WithReason(g, r) = IF r = reason THEN WithReason(records, r) \cup {Len(records) + 1}
                                              ELSE WithReason(records, r)
  BY <1>1, <1>2 DEF WithReason
<1>5. QED  BY <1>3, <1>4 DEF g, e

\* The sets that are counted are finite, and hold no line to come.
LEMMA Countable ==
  ASSUME NEW S, NEW f \in Seq(S), NEW records \in Seq(Records),
         \A i \in DOMAIN records : records[i][1] \in DOMAIN f
  PROVE  /\ IsFiniteSet(Skips(f)) /\ Cardinality(Skips(f)) \in Nat /\ Len(f) + 1 \notin Skips(f)
         /\ IsFiniteSet(Numbers(records)) /\ Len(f) + 1 \notin Numbers(records)
         /\ \A r \in Reasons : /\ IsFiniteSet(WithReason(records, r))
                               /\ Cardinality(WithReason(records, r)) \in Nat
                               /\ Len(records) + 1 \notin WithReason(records, r)
<1>1. /\ DOMAIN f = 1..Len(f) /\ Len(f) \in Nat
      /\ DOMAIN records = 1..Len(records) /\ Len(records) \in Nat
  BY LenProperties
<1>2. Skips(f) \in SUBSET (DOMAIN f) /\ Numbers(records) \in SUBSET (DOMAIN f)
  BY DEF Skips, Numbers
<1>3. \A r \in Reasons : WithReason(records, r) \in SUBSET (DOMAIN records)
  BY DEF WithReason
<1>4. Len(f) + 1 \notin DOMAIN f /\ Len(records) + 1 \notin DOMAIN records
  BY <1>1
<1>5. /\ IsFiniteSet(Skips(f)) /\ Cardinality(Skips(f)) \in Nat
      /\ IsFiniteSet(Numbers(records))
  BY <1>2, IndicesFinite
<1>6. \A r \in Reasons : /\ IsFiniteSet(WithReason(records, r))
                         /\ Cardinality(WithReason(records, r)) \in Nat
  BY <1>3, IndicesFinite
<1>7. QED  BY <1>2, <1>3, <1>4, <1>5, <1>6

-------------------------------------------------------------------------------
(* The accounts after one line more                                        *)

\* A line is skipped.
LEMMA SkippedAccounted ==
  ASSUME NEW S, NEW f \in Seq(S), NEW line \in S, NEW records \in Seq(Records),
         \A i \in DOMAIN records : records[i][1] \in DOMAIN f,
         NEW rules \in Nat, NEW lost \in Nat, NEW s, NEW t,
         Accounts(f, s, records, rules, lost),
         t.read = s.read + 1, t.rejected = s.rejected, t.byReason = s.byReason,
         Skipped(Raw(Len(f) + 1, line))
  PROVE  Accounts(Append(f, line), t, records, rules, lost)
<1>1. /\ Len(Append(f, line)) = Len(f) + 1 /\ Len(f) \in Nat /\ Len(records) \in Nat
      /\ Skips(Append(f, line)) = Skips(f) \cup {Len(f) + 1}
  BY AppendIs, SkipsAppend, LenProperties
<1>2. /\ IsFiniteSet(Skips(f)) /\ Cardinality(Skips(f)) \in Nat
      /\ Len(f) + 1 \notin Skips(f) /\ Len(f) + 1 \notin Numbers(records)
  BY Countable
<1>3. Cardinality(Skips(Append(f, line))) = Cardinality(Skips(f)) + 1
  <2>1. Cardinality(Skips(f) \cup {Len(f) + 1}) = Cardinality(Skips(f)) + 1
    BY <1>2, FS_AddElement
  <2>2. QED  BY <1>1, <2>1
<1>4. Numbers(records) \cap Skips(Append(f, line)) = {}
  BY <1>1, <1>2 DEF Accounts
<1>5. Len(f) + 1 = Cardinality(Skips(f)) + 1 + Len(records) + rules + lost
  BY <1>1, <1>2 DEF Accounts
<1>6. QED  BY <1>1, <1>3, <1>4, <1>5 DEF Accounts

\* A line is sunk or lost.
LEMMA SunkAccounted ==
  ASSUME NEW S, NEW f \in Seq(S), NEW line \in S, NEW records \in Seq(Records),
         \A i \in DOMAIN records : records[i][1] \in DOMAIN f,
         NEW rules \in Nat, NEW lost \in Nat, NEW s, NEW t,
         Accounts(f, s, records, rules, lost),
         t.read = s.read + 1, t.rejected = s.rejected, t.byReason = s.byReason,
         ~Skipped(Raw(Len(f) + 1, line)),
         NEW more \in Nat, NEW less \in Nat, more + less = rules + lost + 1
  PROVE  Accounts(Append(f, line), t, records, more, less)
<1>1. /\ Len(Append(f, line)) = Len(f) + 1 /\ Len(f) \in Nat /\ Len(records) \in Nat
      /\ Skips(Append(f, line)) = Skips(f)
  BY AppendIs, SkipsAppend, LenProperties
<1>2. Cardinality(Skips(f)) \in Nat
  BY Countable
<1>3. Len(f) + 1 = Cardinality(Skips(f)) + Len(records) + more + less
  <2>1. Len(f) = Cardinality(Skips(f)) + Len(records) + rules + lost
    BY DEF Accounts
  <2>2. \A l, c, n \in Nat : l = c + n + rules + lost => l + 1 = c + n + more + less
    OBVIOUS
  <2>3. QED  BY <1>1, <1>2, <2>1, <2>2
<1>4. QED  BY <1>1, <1>3 DEF Accounts

\* A line is rejected, and reported under its number.
LEMMA RejectedAccounted ==
  ASSUME NEW S, NEW f \in Seq(S), NEW line \in S, NEW records \in Seq(Records),
         \A i \in DOMAIN records : records[i][1] \in DOMAIN f,
         NEW rules \in Nat, NEW lost \in Nat, NEW s, NEW t, NEW reason \in Reasons,
         Accounts(f, s, records, rules, lost),
         CountsRejected(s, t, reason),
         ~Skipped(Raw(Len(f) + 1, line))
  PROVE  Accounts(Append(f, line), t, Append(records, <<Len(f) + 1, reason>>), rules, lost)
<1> DEFINE g == Append(f, line)
           rs == Append(records, <<Len(f) + 1, reason>>)
<1>1. Len(f) + 1 \in Nat
  BY LenProperties
<1>2. Len(g) = Len(f) + 1 /\ Len(f) \in Nat /\ Skips(g) = Skips(f)
  BY AppendIs, SkipsAppend
<1>3. Len(rs) = Len(records) + 1 /\ Len(records) \in Nat
  <2>1. <<Len(f) + 1, reason>> \in Records
    BY <1>2 DEF Records
  <2>2. QED  BY <2>1, AppendIs
<1>4. /\ Numbers(rs) = Numbers(records) \cup {Len(f) + 1}
      /\ \A r \in Reasons : WithReason(rs, r) =
           IF r = reason THEN WithReason(records, r) \cup {Len(records) + 1}
                         ELSE WithReason(records, r)
  <2>1. \A m \in Nat : Numbers(Append(records, <<m, reason>>)) = Numbers(records) \cup {m}
    BY RecordAppend
  <2>2. \A m \in Nat : \A r \in Reasons : WithReason(Append(records, <<m, reason>>), r) =
          IF r = reason THEN WithReason(records, r) \cup {Len(records) + 1}
                        ELSE WithReason(records, r)
    BY RecordAppend
  <2>3. QED  BY <1>1, <2>1, <2>2, Zenon
<1> HIDE DEF g, rs
<1>5. /\ Cardinality(Skips(f)) \in Nat /\ Len(f) + 1 \notin Skips(f)
      /\ IsFiniteSet(Numbers(records)) /\ Len(f) + 1 \notin Numbers(records)
      /\ \A r \in Reasons : /\ IsFiniteSet(WithReason(records, r))
                            /\ Len(records) + 1 \notin WithReason(records, r)
  BY Countable
<1>6. Cardinality(Numbers(rs)) = Len(rs)
  <2>1. Cardinality(Numbers(rs)) = Cardinality(Numbers(records)) + 1
    BY <1>4, <1>5, FS_AddElement
  <2>2. QED  BY <1>3, <2>1 DEF Accounts
<1>7. Numbers(rs) \cap Skips(g) = {}
  BY <1>2, <1>4, <1>5 DEF Accounts
<1>8. ASSUME NEW r \in Reasons PROVE t.byReason[r] = Cardinality(WithReason(rs, r))
  <2>1. s.byReason[r] = Cardinality(WithReason(records, r))
    BY DEF Accounts
  <2>2. t.byReason[r] = IF r = reason THEN s.byReason[r] + 1 ELSE s.byReason[r]
    BY DEF CountsRejected
  <2>3. CASE r = reason
    <3>1. WithReason(rs, r) = WithReason(records, r) \cup {Len(records) + 1}
      BY <1>4, <2>3
    <3>2. Cardinality(WithReason(rs, r)) = Cardinality(WithReason(records, r)) + 1
      BY <1>5, <3>1, FS_AddElement
    <3>3. QED  BY <2>1, <2>2, <2>3, <3>2
  <2>4. CASE r # reason
    BY <1>4, <2>1, <2>2, <2>4
  <2>5. QED  BY <2>3, <2>4
<1>9. t.read = Len(g) /\ t.rejected = Len(rs)
  BY <1>2, <1>3 DEF Accounts, CountsRejected
<1>10. Len(g) = Cardinality(Skips(g)) + Len(rs) + rules + lost
  BY <1>2, <1>3, <1>5 DEF Accounts
<1>11. Accounts(g, t, rs, rules, lost)
  BY <1>6, <1>7, <1>8, <1>9, <1>10 DEF Accounts
<1>12. QED  BY <1>11 DEF g, rs

-------------------------------------------------------------------------------
(* The lines                                                               *)

\* A line is counted as read.
LEMMA CountedRead ==
  ASSUME NEW s \in StatsType, NEW t, t = [s EXCEPT !.read = @ + 1]
  PROVE  /\ t \in StatsType
         /\ t.read = s.read + 1 /\ t.rejected = s.rejected /\ t.byReason = s.byReason
BY DEF StatsType

\* CountRejected does.
LEMMA CountedRejected ==
  ASSUME NEW s \in StatsType, NEW reason \in Reasons, NEW t,
         t = [s EXCEPT !.read = @ + 1, !.rejected = @ + 1, !.byReason[reason] = @ + 1]
  PROVE  t \in StatsType /\ CountsRejected(s, t, reason)
<1> DEFINE b == [s.byReason EXCEPT ![reason] = @ + 1]
<1>1. s.byReason \in [Reasons -> Nat] /\ s.read \in Nat /\ s.rejected \in Nat
  BY DEF StatsType
<1>2. /\ b \in [Reasons -> Nat]
      /\ \A r \in Reasons : b[r] = IF r = reason THEN s.byReason[r] + 1 ELSE s.byReason[r]
  BY <1>1
<1>3. t = [read |-> s.read + 1, rejected |-> s.rejected + 1, byReason |-> b]
  BY DEF StatsType
<1> HIDE DEF b
<1>4. QED  BY <1>1, <1>2, <1>3 DEF StatsType, CountsRejected

\* What the reader knows when it takes a line.
LEMMA LineTaken ==
  ASSUME ReaderInv, pc = "reading",
         NEW n \in DOMAIN Lines, n = Len(file) + 1, NEW line \in Lines[n],
         file' = Append(file, line)
  PROVE  /\ file \in Seq(AllLines) /\ line \in AllLines /\ file' \in Seq(AllLines)
         /\ Len(file) \in Nat /\ Len(file) + 1 \in Nat
         /\ Len(file') = Len(file) + 1 /\ Len(file') <= Len(Lines)
         /\ DOMAIN file \subseteq DOMAIN file' /\ Len(file) + 1 \in DOMAIN file'
         /\ \A i \in DOMAIN file' : file'[i] \in Lines[i]
         /\ err = "" /\ ~broken /\ err # "sink" /\ err # "report" /\ pc # "returned"
         /\ report \in Seq(Records) /\ sunk \in Seq(SinkRules)
         /\ Len(report) \in Nat /\ Len(sunk) \in Nat
         /\ \A i \in DOMAIN report : report[i][1] \in DOMAIN file /\ report[i][2] \in Reasons
         /\ onDisk \in 0..Len(report) /\ stats \in StatsType
         /\ Accounts(file, stats, report, Len(sunk), 0)
         /\ stats.read = Len(file)
<1>1. file \in Seq(AllLines) /\ report \in Seq(Records) /\ sunk \in Seq(SinkRules) /\ TypeOK
  BY DEF ReaderInv, Types
<1>2. line \in AllLines
  BY DEF AllLines
<1>3. /\ file' \in Seq(AllLines) /\ Len(file) \in Nat /\ Len(file') = Len(file) + 1
      /\ DOMAIN file' = (DOMAIN file) \cup {Len(file) + 1}
      /\ \A i \in DOMAIN file : file'[i] = file[i]
      /\ file'[Len(file) + 1] = line
  BY <1>1, <1>2, AppendIs
<1>4. Len(file') <= Len(Lines)
  BY <1>3, LinesAssumption
<1>5. \A i \in DOMAIN file' : file'[i] \in Lines[i]
  BY <1>1, <1>3 DEF TypeOK
<1>6. err = "" /\ ~broken
  BY DEF ReaderInv, Going
<1>7. Len(report) \in Nat /\ Len(sunk) \in Nat
  BY <1>1, LenProperties
<1>8. /\ \A i \in DOMAIN report : report[i][1] \in DOMAIN file /\ report[i][2] \in Reasons
      /\ onDisk \in 0..Len(report) /\ stats \in StatsType
  BY <1>1 DEF TypeOK, StatsType
<1>9. Accounts(file, stats, report, Len(sunk), 0)
  BY <1>6 DEF ReaderInv, Accounted
<1>10. stats.read = Len(file)
  BY <1>9 DEF Accounts
<1>11. \A m \in Nat : m + 1 \in Nat
  OBVIOUS
<1>12. QED  BY <1>1, <1>2, <1>3, <1>4, <1>5, <1>6, <1>7, <1>8, <1>9, <1>10, <1>11

\* The invariant after a line, from what each outcome has to say for itself.
LEMMA LineLeaves ==
  ASSUME ReaderInv, pc = "reading",
         NEW n \in DOMAIN Lines, n = Len(file) + 1, NEW line \in Lines[n],
         file' = Append(file, line),
         stats' \in StatsType,
         report' \in Seq(Records), sunk' \in Seq(SinkRules),
         \A i \in DOMAIN report' : report'[i][1] \in DOMAIN file' /\ report'[i][2] \in Reasons,
         onDisk' \in 0..Len(report'),
         \/ pc' = "reading" /\ err' = "" /\ broken' = FALSE
         \/ pc' = "closing" /\ err' = "sink" /\ broken' = FALSE
         \/ pc' = "closing" /\ err' = "report" /\ broken' = TRUE,
         err' # "report" =>
           Accounts(file', stats', report', Len(sunk'), IF err' = "sink" THEN 1 ELSE 0)
  PROVE  ReaderInv'
<1>1. /\ file' \in Seq(AllLines) /\ Len(file') <= Len(Lines)
      /\ \A i \in DOMAIN file' : file'[i] \in Lines[i]
  BY LineTaken
<1>2. TypeOK'
  BY <1>1 DEF TypeOK, StatsType
<1>3. Types'
  <2>1. /\ file' \in Seq(AllLines) /\ report' \in Seq(Records) /\ sunk' \in Seq(SinkRules)
        /\ TypeOK'
    BY <1>1, <1>2
  <2>2. QED  BY <2>1 DEF Types
<1>4. Going' /\ Fresh' /\ Broken' /\ ReportComplete'
  BY DEF Going, Fresh, Broken, ReportComplete
<1>5. Accounted'
  BY DEF Accounted
<1>6. QED  BY <1>3, <1>4, <1>5 DEF ReaderInv

\* A skipped line is counted.
LEMMA SkipKeeps ==
  ASSUME ReaderInv, pc = "reading",
         NEW n \in DOMAIN Lines, n = Len(file) + 1, NEW line \in Lines[n],
         file' = Append(file, line), Skipped(RawLine(line)), SkipLine
  PROVE  ReaderInv'
<1>1. /\ pc' = "reading" /\ report' = report /\ onDisk' = onDisk /\ sunk' = sunk
      /\ err' = err /\ broken' = broken
      /\ stats' = [stats EXCEPT !.read = @ + 1]
  BY DEF SkipLine
<1>2. /\ file \in Seq(AllLines) /\ line \in AllLines /\ report \in Seq(Records)
      /\ sunk \in Seq(SinkRules) /\ Len(sunk) \in Nat /\ stats \in StatsType
      /\ \A i \in DOMAIN report : report[i][1] \in DOMAIN file /\ report[i][2] \in Reasons
      /\ DOMAIN file \subseteq DOMAIN file' /\ onDisk \in 0..Len(report)
      /\ err = "" /\ ~broken
  BY LineTaken
<1>3. broken \in BOOLEAN
  BY DEF ReaderInv, Types, TypeOK
<1>4. /\ stats' \in StatsType /\ stats'.read = stats.read + 1
      /\ stats'.rejected = stats.rejected /\ stats'.byReason = stats.byReason
  BY <1>1, <1>2, CountedRead
<1>5. Accounts(file', stats', report, Len(sunk), 0)
  <2>1. Accounts(file, stats, report, Len(sunk), 0)
    BY LineTaken
  <2>2. Skipped(Raw(Len(file) + 1, line))
    BY DEF RawLine
  <2>3. QED  BY <1>2, <1>4, <2>1, <2>2, SkippedAccounted
<1>6. QED  BY <1>1, <1>2, <1>3, <1>4, <1>5, LineLeaves

\* A rejected line has a reason, and its record goes to the report.
LEMMA RejectKeeps ==
  ASSUME ReaderInv, pc = "reading",
         NEW n \in DOMAIN Lines, n = Len(file) + 1, NEW line \in Lines[n],
         file' = Append(file, line), ~Skipped(RawLine(line)),
         NEW r, RejectLine(r), r.reason \in Reasons
  PROVE  ReaderInv'
<1> DEFINE q == r.reason
<1>1. /\ pc' = "reading" /\ report' = Append(report, <<stats.read + 1, q>>)
      /\ onDisk' \in {onDisk, Len(report')} /\ sunk' = sunk /\ err' = err /\ broken' = broken
      /\ stats' = [stats EXCEPT !.read = @ + 1, !.rejected = @ + 1, !.byReason[q] = @ + 1]
      /\ q \in Reasons
  BY DEF RejectLine, CountRejected
<1> HIDE DEF q
<1>2. /\ file \in Seq(AllLines) /\ line \in AllLines /\ report \in Seq(Records)
      /\ sunk \in Seq(SinkRules) /\ Len(sunk) \in Nat /\ stats \in StatsType
      /\ \A i \in DOMAIN report : report[i][1] \in DOMAIN file /\ report[i][2] \in Reasons
      /\ DOMAIN file \subseteq DOMAIN file' /\ Len(file) + 1 \in DOMAIN file'
      /\ Len(file) + 1 \in Nat /\ onDisk \in 0..Len(report) /\ Len(report) \in Nat
      /\ err = "" /\ ~broken /\ stats.read = Len(file)
  BY LineTaken
<1>3. broken \in BOOLEAN
  BY DEF ReaderInv, Types, TypeOK
<1>4. stats' \in StatsType /\ CountsRejected(stats, stats', q)
  <2>1. /\ stats' = [stats EXCEPT !.read = @ + 1, !.rejected = @ + 1, !.byReason[q] = @ + 1]
        /\ stats \in StatsType /\ q \in Reasons
    BY <1>1, <1>2
  <2>2. QED  BY <2>1, CountedRejected
<1>5. PICK e \in Records : e = <<Len(file) + 1, q>> /\ e[1] = Len(file) + 1 /\ e[2] = q
  BY <1>1, <1>2, RecordIs
<1>6. /\ report' \in Seq(Records) /\ Len(report') = Len(report) + 1
      /\ DOMAIN report' = (DOMAIN report) \cup {Len(report) + 1}
      /\ \A i \in DOMAIN report : report'[i] = report[i]
      /\ report'[Len(report) + 1] = e
  <2>1. report' = Append(report, e) /\ report \in Seq(Records)
    BY <1>1, <1>2, <1>5, Zenon
  <2>2. QED  BY <2>1, AppendIs
<1>7. \A i \in DOMAIN report' : report'[i][1] \in DOMAIN file' /\ report'[i][2] \in Reasons
  <2>1. ASSUME NEW i \in DOMAIN report
        PROVE  report'[i][1] \in DOMAIN file' /\ report'[i][2] \in Reasons
    BY <1>2, <1>6
  <2>2. report'[Len(report) + 1][1] \in DOMAIN file' /\ report'[Len(report) + 1][2] \in Reasons
    BY <1>1, <1>2, <1>5, <1>6
  <2>3. QED  BY <1>6, <2>1, <2>2
<1>8. Accounts(file', stats', report', Len(sunk), 0)
  <2>1. Accounts(file, stats, report, Len(sunk), 0)
    BY LineTaken
  <2>2. ~Skipped(Raw(Len(file) + 1, line))
    BY DEF RawLine
  <2>3. Accounts(Append(file, line), stats', Append(report, <<Len(file) + 1, q>>), Len(sunk), 0)
    BY <1>1, <1>2, <1>4, <2>1, <2>2, RejectedAccounted
  <2>4. QED  BY <1>1, <1>2, <2>3
<1>9. onDisk' \in 0..Len(report')
  <2>1. onDisk \in 0..Len(report) /\ Len(report) \in Nat /\ Len(report') = Len(report) + 1
    BY <1>2, <1>6
  <2>2. onDisk' = onDisk \/ onDisk' = Len(report')
    BY <1>1
  <2>3. QED  BY <2>1, <2>2
<1>10. QED  BY <1>1, <1>2, <1>3, <1>4, <1>6, <1>7, <1>8, <1>9, LineLeaves

\* When the report breaks, the accounts end.
LEMMA ReportFailsKeeps ==
  ASSUME ReaderInv, pc = "reading",
         NEW n \in DOMAIN Lines, n = Len(file) + 1, NEW line \in Lines[n],
         file' = Append(file, line), NEW r, ReportFails(r), r.reason \in Reasons
  PROVE  ReaderInv'
<1>1. /\ pc' = "closing" /\ err' = "report" /\ broken' = TRUE
      /\ report' = report /\ onDisk' = onDisk /\ sunk' = sunk
      /\ stats' = [stats EXCEPT !.read = @ + 1, !.rejected = @ + 1, !.byReason[r.reason] = @ + 1]
  BY DEF ReportFails, CountRejected
<1>2. /\ report \in Seq(Records) /\ sunk \in Seq(SinkRules) /\ stats \in StatsType
      /\ \A i \in DOMAIN report : report[i][1] \in DOMAIN file /\ report[i][2] \in Reasons
      /\ DOMAIN file \subseteq DOMAIN file' /\ onDisk \in 0..Len(report)
  BY LineTaken
<1>3. stats' \in StatsType
  BY <1>1, <1>2, CountedRejected
<1>4. QED  BY <1>1, <1>2, <1>3, LineLeaves

\* An accepted line is sunk, or it is the one the sink has refused.
LEMMA SinkKeeps ==
  ASSUME ReaderInv, pc = "reading",
         NEW n \in DOMAIN Lines, n = Len(file) + 1, NEW line \in Lines[n],
         file' = Append(file, line), ~Skipped(RawLine(line)),
         NEW r, SinkLine(r) \/ SinkFails(r), r = normalize(RawLine(line))
  PROVE  ReaderInv'
<1>1. /\ report' = report /\ onDisk' = onDisk /\ broken' = broken
      /\ stats' = [stats EXCEPT !.read = @ + 1]
  BY DEF SinkLine, SinkFails
<1>2. /\ file \in Seq(AllLines) /\ line \in AllLines /\ report \in Seq(Records)
      /\ sunk \in Seq(SinkRules) /\ Len(sunk) \in Nat /\ stats \in StatsType
      /\ Len(file) + 1 \in Nat
      /\ \A i \in DOMAIN report : report[i][1] \in DOMAIN file /\ report[i][2] \in Reasons
      /\ DOMAIN file \subseteq DOMAIN file' /\ onDisk \in 0..Len(report)
      /\ err = "" /\ ~broken
  BY LineTaken
<1>3. broken \in BOOLEAN
  BY DEF ReaderInv, Types, TypeOK
<1>4. /\ stats' \in StatsType /\ stats'.read = stats.read + 1
      /\ stats'.rejected = stats.rejected /\ stats'.byReason = stats.byReason
  BY <1>1, <1>2, CountedRead
<1>5. \/ pc' = "reading" /\ err' = err /\ sunk' = Append(sunk, optimizeRule(r.rule))
      \/ pc' = "closing" /\ err' = "sink" /\ sunk' = sunk
  BY DEF SinkLine, SinkFails
<1>6. optimizeRule(r.rule) \in SinkRules
  <2>1. Len(file) + 1 \in Nat /\ line \in AllLines
    BY <1>2
  <2>2. PICK raw : raw = RawLine(line)
    OBVIOUS
  <2>3. raw \in AllRaw
    BY <2>1, <2>2 DEF RawLine, AllRaw
  <2>4. r = normalize(raw) /\ ~Skipped(raw)
    BY <2>2
  <2>5. r.ok
    BY DEF SinkLine, SinkFails
  <2>6. raw \in Accepted
    BY <2>3, <2>4, <2>5 DEF Accepted
  <2>7. QED  BY <2>4, <2>6 DEF SinkRules
<1>7. Len(Append(sunk, optimizeRule(r.rule))) = Len(sunk) + 1
      /\ Append(sunk, optimizeRule(r.rule)) \in Seq(SinkRules)
  BY <1>2, <1>6, AppendIs
<1>8. \A more, less \in Nat : more + less = Len(sunk) + 0 + 1 =>
        Accounts(file', stats', report, more, less)
  <2>1. Accounts(file, stats, report, Len(sunk), 0)
    BY LineTaken
  <2>2. ~Skipped(Raw(Len(file) + 1, line))
    BY DEF RawLine
  <2>3. QED  BY <1>2, <1>4, <2>1, <2>2, SunkAccounted
<1>9. CASE pc' = "reading" /\ err' = err /\ sunk' = Append(sunk, optimizeRule(r.rule))
  <2>1. Accounts(file', stats', report', Len(sunk'), 0)
    <3>1. Len(sunk') = Len(sunk) + 1 /\ Len(sunk) \in Nat
      BY <1>2, <1>7, <1>9
    <3>2. Len(sunk') \in Nat /\ 0 \in Nat /\ Len(sunk') + 0 = Len(sunk) + 0 + 1
      BY <3>1
    <3>3. Accounts(file', stats', report, Len(sunk'), 0)
      BY <1>8, <3>2
    <3>4. QED  BY <1>1, <3>3, Zenon
  <2>2. QED  BY <1>1, <1>2, <1>3, <1>4, <1>7, <1>9, <2>1, LineLeaves
<1>10. CASE pc' = "closing" /\ err' = "sink" /\ sunk' = sunk
  <2>1. Accounts(file', stats', report', Len(sunk'), 1)
    <3>1. Len(sunk) + 1 = Len(sunk) + 0 + 1 /\ Len(sunk) \in Nat
      <4>1. \A m \in Nat : m + 1 = m + 0 + 1
        OBVIOUS
      <4>2. QED  BY <1>2, <4>1
    <3>2. Accounts(file', stats', report, Len(sunk), 1)
      BY <1>8, <3>1
    <3>3. QED  BY <1>1, <1>10, <3>2, Zenon
  <2>2. QED  BY <1>1, <1>2, <1>3, <1>4, <1>10, <2>1, LineLeaves
<1>11. QED  BY <1>5, <1>9, <1>10

\* So each line the scanner returns keeps the invariant.
LEMMA ReadLineKeeps ==
  ASSUME ReaderInv, NEW n \in DOMAIN Lines, n = Len(file) + 1, NEW line \in Lines[n],
         ReadLine(line)
  PROVE  ReaderInv'
<1>1. pc = "reading" /\ file' = Append(file, line)
  BY DEF ReadLine
<1>2. CASE Skipped(RawLine(line))
  <2>1. SkipLine
    BY <1>2 DEF ReadLine
  <2>2. QED  BY <1>1, <1>2, <2>1, SkipKeeps
<1>3. CASE ~Skipped(RawLine(line))
  <2>1. PICK r : /\ r = normalize(RawLine(line))
                 /\ RejectLine(r) \/ ReportFails(r) \/ SinkLine(r) \/ SinkFails(r)
    BY <1>3 DEF ReadLine
  <2>2. CASE RejectLine(r) \/ ReportFails(r)
    <3>1. r.reason \in Reasons
      BY <2>1, <2>2, NormalizeReasons DEF RejectLine, ReportFails
    <3>2. QED  BY <1>1, <1>3, <2>2, <3>1, RejectKeeps, ReportFailsKeeps
  <2>3. CASE SinkLine(r) \/ SinkFails(r)
    BY <1>1, <1>3, <2>1, <2>3, SinkKeeps
  <2>4. QED  BY <2>1, <2>2, <2>3
<1>4. QED  BY <1>2, <1>3

-------------------------------------------------------------------------------
(* The end                                                                 *)

\* A step that takes no line and writes no record leaves most of the invariant.
LEMMA NoLineKeeps ==
  ASSUME ReaderInv, pc # "returned", UNCHANGED <<file, stats, report, sunk>>,
         onDisk' \in 0..Len(report),
         pc' \in {"reading", "closing", "returned"},
         err' \in {"", "open", "scan", "report", "sink"}, broken' \in BOOLEAN,
         pc' # "returned" /\ err' # "report" => err # "report" /\ (err' = "sink" <=> err = "sink"),
         pc' = "reading" => err' = "" /\ ~broken',
         pc' = "closing" => (broken' <=> err' = "report"),
         ReportComplete'
  PROVE  ReaderInv'
<1>1. TypeOK' /\ Types'
  BY DEF ReaderInv, Types, TypeOK
<1>2. Going' /\ Fresh' /\ Broken'
  BY DEF Going, Fresh, Broken
<1>3. Accounted'
  BY DEF ReaderInv, Accounted
<1>4. QED  BY <1>1, <1>2, <1>3 DEF ReaderInv

\* The report on disk, and whether it may be incomplete.
LEMMA OnDiskIs ==
  ASSUME ReaderInv
  PROVE  /\ onDisk \in 0..Len(report) /\ Len(report) \in Nat
         /\ err \in {"", "open", "scan", "report", "sink"} /\ broken \in BOOLEAN
         /\ pc = "opening" => onDisk = Len(report)
<1>1. report \in Seq(Records) /\ onDisk \in 0..Len(report)
  BY DEF ReaderInv, Types, TypeOK
<1>2. Len(report) \in Nat
  BY <1>1, LenProperties
<1>3. ASSUME pc = "opening" PROVE onDisk = Len(report)
  <2>1. report = <<>>
    BY <1>3 DEF ReaderInv, Fresh
  <2>2. Len(report) = 0
    BY <2>1
  <2>3. QED  BY <1>1, <2>2
<1>4. QED  BY <1>1, <1>2, <1>3 DEF ReaderInv, Types, TypeOK

\* The report is opened, or cannot be.
LEMMA OpenKeeps == ReaderInv /\ (Open \/ OpenFails) => ReaderInv'
<1> SUFFICES ASSUME ReaderInv, Open \/ OpenFails PROVE ReaderInv'
  OBVIOUS
<1>1. pc = "opening" /\ UNCHANGED <<file, stats, report, onDisk, sunk, broken>>
  BY DEF Open, OpenFails
<1>2. \/ pc' = "reading" /\ err' = err
      \/ pc' = "returned" /\ err' = "open"
  BY DEF Open, OpenFails
<1>3. err = "" /\ ~broken
  BY <1>1 DEF ReaderInv, Going
<1>4. /\ onDisk \in 0..Len(report) /\ Len(report) \in Nat /\ broken \in BOOLEAN
      /\ onDisk = Len(report)
  BY <1>1, OnDiskIs
<1>5. ReportComplete'
  BY <1>1, <1>2, <1>3, <1>4 DEF ReportComplete
<1>6. QED  BY <1>1, <1>2, <1>3, <1>4, <1>5, NoLineKeeps

\* The file ends, or cannot be read any further.
LEMMA EndKeeps == ReaderInv /\ (ScanFails \/ EndOfFile) => ReaderInv'
<1> SUFFICES ASSUME ReaderInv, ScanFails \/ EndOfFile PROVE ReaderInv'
  OBVIOUS
<1>1. /\ pc = "reading" /\ pc' = "closing" /\ err' \in {err, "scan"}
      /\ UNCHANGED <<file, stats, report, onDisk, sunk, broken>>
  BY DEF ScanFails, EndOfFile
<1>2. err = "" /\ ~broken
  BY <1>1 DEF ReaderInv, Going
<1>3. ReportComplete'
  BY <1>1 DEF ReportComplete
<1>4. onDisk \in 0..Len(report) /\ broken \in BOOLEAN
  BY OnDiskIs
<1>5. QED  BY <1>1, <1>2, <1>3, <1>4, NoLineKeeps

\* The deferred Close flushes the report, or says that it cannot.
LEMMA CloseKeeps == ReaderInv /\ (Close \/ CloseFails) => ReaderInv'
<1> SUFFICES ASSUME ReaderInv, Close \/ CloseFails PROVE ReaderInv'
  OBVIOUS
<1>1. pc = "closing" /\ pc' = "returned" /\ UNCHANGED <<file, stats, report, sunk>>
  BY DEF Close, CloseFails
<1>2. /\ onDisk \in 0..Len(report) /\ Len(report) \in Nat
      /\ err \in {"", "open", "scan", "report", "sink"} /\ broken \in BOOLEAN
  BY OnDiskIs
<1>3. CASE Close
  <2>1. err # "report" /\ onDisk' = Len(report) /\ err' = err /\ broken' = broken
    BY <1>3 DEF Close
  <2>2. ~broken
    BY <1>1, <2>1 DEF ReaderInv, Broken
  <2>3. ReportComplete'
    BY <1>1, <2>1, <2>2 DEF ReportComplete
  <2>4. onDisk' \in 0..Len(report)
    <3>1. \A l \in Nat : l \in 0..l
      OBVIOUS
    <3>2. QED  BY <1>2, <2>1, <3>1, Zenon
  <2>5. QED  BY <1>1, <1>2, <2>1, <2>2, <2>3, <2>4, NoLineKeeps
<1>4. CASE CloseFails
  <2>1. /\ err' = (IF err = "" THEN "report" ELSE err) /\ broken' = TRUE
        /\ onDisk' = onDisk \/ onDisk' \in onDisk..Len(report)
    BY <1>4 DEF CloseFails
  <2>2. onDisk' \in 0..Len(report)
    <3>1. \A l \in Nat : \A d \in 0..l : d..l \subseteq 0..l
      OBVIOUS
    <3>2. onDisk..Len(report) \subseteq 0..Len(report)
      BY <1>2, <3>1, Zenon
    <3>3. QED  BY <1>2, <2>1, <3>2
  <2>3. ReportComplete'
    BY <1>1, <2>1 DEF ReportComplete
  <2>4. err' \in {"", "open", "scan", "report", "sink"}
    BY <1>2, <2>1
  <2>5. QED  BY <1>1, <2>1, <2>2, <2>3, <2>4, NoLineKeeps
<1>5. QED  BY <1>3, <1>4

\* Nothing has been read yet.
LEMMA InitReader == Init => ReaderInv
<1> SUFFICES ASSUME Init PROVE ReaderInv
  OBVIOUS
<1>1. /\ pc = "opening" /\ file = <<>> /\ report = <<>> /\ sunk = <<>> /\ onDisk = 0
      /\ err = "" /\ broken = FALSE
      /\ stats = [read |-> 0, rejected |-> 0, byReason |-> [r \in Reasons |-> 0]]
  BY DEF Init
<1>2. /\ file \in Seq(AllLines) /\ report \in Seq(Records) /\ sunk \in Seq(SinkRules)
      /\ Len(file) = 0 /\ Len(report) = 0 /\ Len(sunk) = 0
      /\ DOMAIN file = {} /\ DOMAIN report = {}
  <2>1. \A S : <<>> \in Seq(S)
    OBVIOUS
  <2>2. Len(<<>>) = 0 /\ DOMAIN <<>> = {}
    OBVIOUS
  <2>3. QED  BY <1>1, <2>1, <2>2, Zenon
<1>3. stats \in [read : Nat, rejected : Nat, byReason : [Reasons -> Nat]]
  BY <1>1
<1>4. Len(file) <= Len(Lines) /\ onDisk \in 0..Len(report)
  <2>1. Len(file) <= Len(Lines)
    BY <1>2, LinesAssumption
  <2>2. 0 \in 0..0
    OBVIOUS
  <2>3. QED  BY <1>1, <1>2, <2>1, <2>2, Zenon
<1>5. Types
  BY <1>1, <1>2, <1>3, <1>4 DEF Types, TypeOK
<1>6. Accounts(file, stats, report, Len(sunk), 0)
  <2>1. Skips(file) = {} /\ Numbers(report) = {} /\ \A r \in Reasons : WithReason(report, r) = {}
    BY <1>2 DEF Skips, Numbers, WithReason
  <2>2. Cardinality({}) = 0
    BY FS_EmptySet
  <2>3. stats.read = 0 /\ stats.rejected = 0 /\ \A r \in Reasons : stats.byReason[r] = 0
    BY <1>1
  <2>4. /\ stats.read = Len(file) /\ stats.rejected = Len(report)
        /\ Cardinality(Numbers(report)) = Len(report) /\ Numbers(report) \cap Skips(file) = {}
        /\ \A r \in Reasons : stats.byReason[r] = Cardinality(WithReason(report, r))
    BY <1>2, <2>1, <2>2, <2>3
  <2>5. Cardinality(Skips(file)) = 0
    BY <2>1, <2>2
  <2>6. Len(file) = Cardinality(Skips(file)) + Len(report) + Len(sunk) + 0
    BY <1>2, <2>5
  <2>7. QED  BY <2>4, <2>6 DEF Accounts
<1>7. Accounted
  BY <1>1, <1>6 DEF Accounted
<1>8. QED  BY <1>1, <1>5, <1>7 DEF ReaderInv, Going, Fresh, Broken, ReportComplete

\* Every step keeps the invariant.
LEMMA NextReader == ReaderInv /\ [Next]_vars => ReaderInv'
<1> SUFFICES ASSUME ReaderInv, [Next]_vars PROVE ReaderInv'
  OBVIOUS
<1>1. CASE Open \/ OpenFails \/ ScanFails \/ EndOfFile \/ Close \/ CloseFails
  BY <1>1, OpenKeeps, EndKeeps, CloseKeeps
<1>2. CASE \E n \in DOMAIN Lines : n = Len(file) + 1 /\ \E line \in Lines[n] : ReadLine(line)
  BY <1>2, ReadLineKeeps
<1>3. CASE UNCHANGED vars
  <2>1. /\ Types' /\ Going' /\ Fresh' /\ Broken' /\ ReportComplete'
    BY <1>3 DEF ReaderInv, Types, TypeOK, Going, Fresh, Broken, ReportComplete, vars
  <2>2. Accounted'
    BY <1>3 DEF ReaderInv, Accounted, vars
  <2>3. QED  BY <2>1, <2>2 DEF ReaderInv
<1>4. QED  BY <1>1, <1>2, <1>3 DEF Next, Returned

-------------------------------------------------------------------------------
(* What the variables say of rules                                         *)

\* What the sink has taken are rules made of accepted lines.
LEMMA SunkIs ==
  ASSUME ReaderInv
  PROVE  /\ \A i \in DOMAIN sunk : sunk[i] \in SinkRules
         /\ Sunk => Last(sunk) \in SinkRules
<1>1. sunk \in Seq(SinkRules)
  BY DEF ReaderInv, Types
<1>2. \A i \in DOMAIN sunk : sunk[i] \in SinkRules
  BY <1>1
<1>3. ASSUME Sunk PROVE Last(sunk) \in SinkRules
  <2>1. sunk # <<>>
    BY <1>3 DEF Sunk
  <2>2. Len(sunk) \in DOMAIN sunk
    BY <1>1, <2>1, LenProperties, EmptySeq
  <2>3. QED  BY <1>2, <2>2 DEF Last
<1>4. QED  BY <1>2, <1>3

\* The first line of the file is one that is read and not skipped.
LEMMA FirstIs ==
  ASSUME ReaderInv, FirstCounts
  PROVE  FirstRaw \in AllRaw /\ ~Skipped(FirstRaw)
<1>1. file \in Seq(AllLines) /\ Len(file) = 1 /\ ~Skipped(FirstRaw)
  BY DEF ReaderInv, Types, FirstCounts
<1>2. PICK line \in AllLines : line = file[1]
  <2>1. 1 \in 1..Len(file)
    BY <1>1
  <2>2. QED  BY <1>1, <2>1, ElementOfSeq
<1>3. 1 \in Nat /\ FirstRaw = Raw(1, line)
  BY <1>2, Zenon DEF FirstRaw
<1>4. FirstRaw \in AllRaw
  BY <1>3 DEF AllRaw
<1>5. QED  BY <1>1, <1>4

-------------------------------------------------------------------------------
(* Theorems                                                                *)

\* The invariant holds for files of any length and errors at any line.
THEOREM ReaderInvariance == Spec => []ReaderInv
BY InitReader, NextReader, PTL DEF Spec

\* No line goes missing between the counters, the report and the sink, and the
\* report on disk is complete unless a write failed, which is never passed over
\* (filter.go:45-104).
THEOREM ReaderIsSound == Spec => []Inv
<1>1. ReaderInv => Inv
  <2> SUFFICES ASSUME ReaderInv PROVE Inv
    OBVIOUS
  <2>1. TypeOK /\ ReportComplete
    BY DEF ReaderInv, Types
  <2>2. LinesAccountedFor
    <3> SUFFICES ASSUME pc = "closing", err # "report" PROVE LinesAccountedFor
      BY DEF LinesAccountedFor
    <3>1. Accounts(file, stats, report, Len(sunk), IF err = "sink" THEN 1 ELSE 0)
      BY DEF ReaderInv, Accounted
    <3>2. QED  BY <3>1 DEF LinesAccountedFor, Accounts, Skips, Numbers, WithReason
  <2>3. QED  BY <2>1, <2>2 DEF Inv
<1>2. QED  BY <1>1, ReaderInvariance, PTL

\* scripts/validate.sh lets every rule pass that reaches the sink, whatever the
\* lines are, so that no list aborts the release (filter.go:154-313, 365-537).
THEOREM RulesPassValidation == Spec => []EmittedIsValid
<1>1. ReaderInv => EmittedIsValid
  <2> SUFFICES ASSUME ReaderInv, Sunk PROVE Accepts(Last(sunk))
    BY DEF EmittedIsValid
  <2>1. Last(sunk) \in SinkRules
    BY SunkIs
  <2>2. RuleForm(Last(sunk))
    BY <2>1, SinkForm
  <2>3. QED  BY <2>2, FormAccepted
<1>2. QED  BY <1>1, ReaderInvariance, PTL

\* Reading a generated list again changes no rule of it (filter.go:154-313, 365-537).
THEOREM RulesAreFixed == Spec => []NormalIsFixed
<1>1. ReaderInv => NormalIsFixed
  <2> SUFFICES ASSUME ReaderInv PROVE NormalIsFixed
    OBVIOUS
  <2>1. ASSUME Sunk
        PROVE  /\ normalize(Last(sunk)).ok
               /\ optimizeRule(normalize(Last(sunk)).rule) = Last(sunk)
    <3>1. Last(sunk) \in SinkRules
      BY <2>1, SunkIs
    <3>2. RuleForm(Last(sunk))
      BY <3>1, SinkForm
    <3>3. QED  BY <3>2, FormIsFixed
  <2>2. QED  BY <2>1, Zenon DEF NormalIsFixed
<1>2. QED  BY <1>1, ReaderInvariance, PTL

\* An accepted rule means what its line means, whatever the line is, until
\* optimizeRule narrows a bare domain (filter.go:154-313, 365-537).
THEOREM RulesKeepMeaning == Spec => []MeaningKept
<1>1. ReaderInv => MeaningKept
  <2> SUFFICES ASSUME ReaderInv PROVE MeaningKept
    OBVIOUS
  <2>1. ASSUME FirstCounts, normalize(FirstRaw).ok
        PROVE  Meaning(normalize(FirstRaw).rule) = Meaning(FirstRaw)
    <3>1. FirstRaw \in AllRaw /\ ~Skipped(FirstRaw)
      BY <2>1, FirstIs
    <3>2. QED  BY <2>1, <3>1, AcceptedMeans
  <2>2. QED  BY <2>1, Zenon DEF MeaningKept
<1>2. QED  BY <1>1, ReaderInvariance, PTL

\* However a rule is spelled, the sink is given one line for it: two rules in it
\* that mean the same are the same line (filter.go:290-296, 493-495).
THEOREM RulesSpelledOnce == Spec => []OneSpelling
<1>1. ReaderInv => OneSpelling
  <2> SUFFICES ASSUME ReaderInv, Sunk, NEW i \in DOMAIN sunk, Meaning(sunk[i]) = Meaning(Last(sunk))
               PROVE  sunk[i] = Last(sunk)
    BY Zenon DEF OneSpelling
  <2>1. sunk[i] \in SinkRules /\ Last(sunk) \in SinkRules
    BY SunkIs
  <2>2. RuleForm(sunk[i]) /\ RuleForm(Last(sunk))
    BY <2>1, SinkForm
  <2>3. QED  BY <2>2, FormIsOne
<1>2. QED  BY <1>1, ReaderInvariance, PTL

\* The order in which a line lists its options, however many they are, decides
\* neither whether the line is accepted nor as what (filter.go:337-341, 365-462).
THEOREM RulesInAnyOrder == Spec => []OrderIsIrrelevant
<1>1. ReaderInv => OrderIsIrrelevant
  <2> SUFFICES ASSUME ReaderInv PROVE OrderIsIrrelevant
    OBVIOUS
  <2>1. ASSUME FirstCounts, NEW l \in Reordered(FirstRaw)
        PROVE  /\ normalize(l).ok = normalize(FirstRaw).ok
               /\ normalize(l).rule = normalize(FirstRaw).rule
    <3>1. FirstRaw \in AllRaw /\ ~Skipped(FirstRaw)
      BY <2>1, FirstIs
    <3>2. FirstRaw \in Seq(Tok)
      BY <3>1, RawIs
    <3>3. QED  BY <2>1, <3>2, AnyOrder
  <2>2. QED  BY <2>1, Zenon DEF OrderIsIrrelevant, SameRule
<1>2. QED  BY <1>1, ReaderInvariance, PTL
===============================================================================
