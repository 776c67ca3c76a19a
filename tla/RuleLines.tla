------------------------------- MODULE RuleLines -------------------------------
(***************************************************************************)
(* The rule grammar of internal/filter/filter.go (normalize and what it    *)
(* calls) and the acceptance test of scripts/validate.sh, as operators.    *)
(*                                                                         *)
(* A line is a sequence of tokens: words (labels, option names, pieces of  *)
(* a path), punctuation, and one token for each thing the code looks for   *)
(* as a whole ("@@", "https://", "0.0.0.0 ", a marker, a percent escape).  *)
(***************************************************************************)
EXTENDS Integers, Sequences, SequencesExt, Strings, Sums

CONSTANTS Word,       \* Word[w]: width, lower-case form, numeric or not, ...
          MaxDomain,  \* longest domain validDomain accepts
          MaxLabel    \* longest label

Words == DOMAIN Word

\* A word and its lower-case form differ in nothing but case, and strings.Compare
\* tells lower-case words apart.
ASSUME WordAssumption ==
  /\ Word \in [Words -> [width : Nat, lower : Words, numeric : BOOLEAN,
                         hyphenEdge : BOOLEAN, rank : Nat]]
  /\ \A w \in Words : LET low == Word[Word[w].lower]
                       IN  /\ low.lower = Word[w].lower /\ low.width = Word[w].width
                           /\ low.numeric = Word[w].numeric
                           /\ low.hyphenEdge = Word[w].hyphenEdge
  /\ \A v, w \in {Word[x].lower : x \in Words} : Word[v].rank = Word[w].rank => v = w
  /\ MaxDomain \in Nat /\ MaxLabel \in Nat

Markers == {"##", "+js("}
HostsPrefixes == {"0.0.0.0 ", "::1 "}
Blanks == {" "} \cup HostsPrefixes
Schemes == {"https://", "http://"}
NotAscii == {"BOM", "e-acute"}
Malformed == "\\xff"

\* No word holds one of the tokens that the code looks for.
ASSUME TokenAssumption ==
  Words \cap (Markers \cup Blanks \cup Schemes \cup NotAscii
             \cup {Malformed, "[Adblock", "@@", "$", ",", "~", "=", "|", ".", "/", "?", "#", "^"}) = {}

\* Faulty variant: a percent sign need not start an escape.
LooseTailTokens == Words \cup {".", "/", "?", "#", "%41", "%zz", ",", "=", "~", "@@"}

\* What anchoredURLChars leaves of the tokens, "%41" being a good escape.
TailTokens == Words \cup {".", "/", "?", "#", "%41", ",", "=", "~", "@@"}

ElementTypes == {"image", "script"}
ActivationTypes == {"document", "genericblock"}

\* The order in which parseModifiers writes the options of a rule.
OptionOrder == <<"image", "script", "document", "genericblock",
                 "third-party", "match-case", "domain">>

-------------------------------------------------------------------------------
(* Strings                                                                 *)

Lowered(s) == [i \in DOMAIN s |-> IF s[i] \in Words THEN Word[s[i]].lower ELSE s[i]]

Width(s) == SumTo(Len(s), [i \in 1..Len(s) |-> IF s[i] \in Words THEN Word[s[i]].width ELSE 1])

\* strings.Compare: the first difference decides, or the shorter text is first.
TextBefore(s, t) ==
  \E n \in 1..Len(t) :
    /\ \A i \in 1..(n - 1) : s[i] = t[i]
    /\ \/ n = Len(s) + 1
       \/ /\ n <= Len(s) /\ {s[n], t[n]} \subseteq Words
          /\ Word[s[n]].rank < Word[t[n]].rank

-------------------------------------------------------------------------------
(* Domains                                                                 *)

validDomain(s) ==
  LET labels == Split(s, ".")
  IN  /\ Width(s) <= MaxDomain /\ Len(labels) >= 2
      /\ \A i \in DOMAIN labels :
           /\ Len(labels[i]) = 1 /\ labels[i][1] \in Words
           /\ Word[labels[i][1]].width <= MaxLabel /\ ~Word[labels[i][1]].hyphenEdge
      /\ \E i \in DOMAIN labels : ~Word[labels[i][1]].numeric

\* An entry of a domain= list, "~" excluding.
Entry(e) == LET excluded == e # <<>> /\ Head(e) = "~"
            IN  [excluded |-> excluded,
                 base |-> Lowered(IF excluded THEN Tail(e) ELSE e)]
Entries(value) == LET parts == Split(value, "|")
                  IN  [i \in DOMAIN parts |-> Entry(parts[i])]

ValidDomainList(value) ==
  LET es == Entries(value)
  IN  \A i \in DOMAIN es : /\ validDomain(es[i].base)
                           /\ \A j \in DOMAIN es : es[j].base = es[i].base => j = i

\* Faulty variant: domains of one length keep the order of the source.
LongerOnly(a, b) == Width(a.base) > Width(b.base)

\* Longest domain first, then in text order.
EntryBefore(a, b) == \/ Width(a.base) > Width(b.base)
                     \/ Width(a.base) = Width(b.base) /\ TextBefore(a.base, b.base)

WrittenEntry(e) == (IF e.excluded THEN <<"~">> ELSE <<>>) \o e.base

\* The entries in that order.
Ordered(es) ==
  LET places == DOMAIN es
      order == Arranged(places, {p \in places \X places : EntryBefore(es[p[1]], es[p[2]])})
  IN  [i \in places |-> es[order[i]]]

WrittenEntries(es) == [i \in DOMAIN es |-> WrittenEntry(es[i])]

canonicalDomainList(value) == Joined(WrittenEntries(Ordered(Entries(value))), "|")

-------------------------------------------------------------------------------
(* Modifiers                                                               *)

\* One option: [~]name[=value], the value with its "=".
Option(token) ==
  LET negated == token # <<>> /\ Head(token) = "~"
      body == IF negated THEN Tail(token) ELSE token
      name == Before(body, {"="})
  IN  [negated |-> negated, name |-> IF Len(name) = 1 THEN name[1] ELSE "?",
       value |-> From(body, {"="})]

Among(names, options) == {o \in options : o.name \in names}

\* Faulty variant: a resource type may follow an activation type.
TypeFitsLate(o, taken) ==
  o.value = <<>> /\ \A p \in Among(ElementTypes, taken) : p.negated = o.negated

\* Resource types have one sign in a rule and exclude activation types.
TypeFits(o, taken) ==
  /\ o.value = <<>>
  /\ Among(ActivationTypes, taken) = {}
  /\ \A p \in Among(ElementTypes, taken) : p.negated = o.negated

\* Whether the loop of parseModifiers takes o after the options taken before.
CanTake(o, taken, exception) ==
  /\ Among({o.name}, taken) = {}
  /\ \/ o.name \in ElementTypes /\ TypeFits(o, taken)
     \/ /\ o.name \in ActivationTypes /\ o.value = <<>> /\ ~o.negated
        /\ exception /\ Among(ElementTypes, taken) = {}
     \/ o.name = "third-party" /\ o.value = <<>>
     \/ o.name = "match-case" /\ o.value = <<>> /\ ~o.negated
     \/ o.name = "domain" /\ ~o.negated /\ Len(o.value) > 1 /\ ValidDomainList(Tail(o.value))

\* The loop: it ends at the first part that cannot be taken after those before it.
TakeAll(parts, exception) ==
  [ok |-> \A n \in DOMAIN parts :
            CanTake(Option(parts[n]), {Option(parts[j]) : j \in 1..(n - 1)}, exception),
   taken |-> {Option(parts[n]) : n \in DOMAIN parts}]

parseModifiers(opts, exception) == TakeAll(Split(opts, ","), exception)

Position(name) == CHOOSE n \in DOMAIN OptionOrder : OptionOrder[n] = name

WrittenOption(o) ==
  (IF o.negated THEN <<"~">> ELSE <<>>) \o <<o.name>>
    \o IF o.name = "domain" THEN <<"=">> \o canonicalDomainList(Tail(o.value)) ELSE <<>>

\* One option of each name, in the order of the names.
WrittenInOrder(taken, names) ==
  LET order == Arranged(names, {p \in names \X names : Position(p[1]) < Position(p[2])})
  IN  [i \in 1..Cardinality(names) |-> WrittenOption(CHOOSE o \in taken : o.name = order[i])]

WrittenModifiers(taken) ==
  IF taken = {} THEN <<>>
  ELSE <<"$">> \o Joined(WrittenInOrder(taken, {o.name : o \in taken}), ",")

-------------------------------------------------------------------------------
(* normalize                                                               *)

Rejected(reason) == [ok |-> FALSE, reason |-> reason, rule |-> <<>>]
Emitted(rule) == [ok |-> TRUE, reason |-> "", rule |-> rule]

HasPrefix(s, prefix) == IsPrefix(prefix, s)

\* A "|" anywhere but at the end.
InnerPipe(s) == \E i \in 1..Len(s) - 1 : s[i] = "|"

\* "||host" and what follows it.
DomainPattern(x) ==
  LET separators == {"/", "?", "#", "^", "|"}
      host == Before(x, separators)
      rest == From(x, separators)
  IN  IF ~validDomain(host) \/ InnerPipe(rest) THEN Rejected("")
      ELSE IF rest = <<>> THEN Rejected("unterminated-host-rule")
      ELSE Emitted(<<"|", "|">> \o Lowered(host) \o rest)

\* Faulty variant: the path is lower-cased with the host.
TailLowered(tail) == Lowered(tail)

\* The path is kept as it is.
CanonicalTail(tail) == tail

\* "|scheme://host" and a path; one trailing "|" is the end anchor.
UrlPattern(pattern) ==
  LET end  == IF Last(pattern) = "|" THEN <<"|">> ELSE <<>>
      url  == SubSeq(pattern, 3, Len(pattern) - Len(end))
      host == Before(url, {"/", "?", "#"})
      tail == From(url, {"/", "?", "#"})
  IN  IF validDomain(host) /\ ToSet(tail) \subseteq TailTokens
      THEN Emitted(SubSeq(pattern, 1, 2) \o Lowered(host) \o CanonicalTail(tail) \o end)
      ELSE Rejected("")

Pattern(pattern) ==
  IF HasPrefix(pattern, <<"|", "|">>) THEN DomainPattern(SubSeq(pattern, 3, Len(pattern)))
  ELSE IF Len(pattern) > 1 /\ pattern[1] = "|" /\ pattern[2] \in Schemes THEN UrlPattern(pattern)
  ELSE Rejected("")

FallbackReason(exception) ==
  IF exception THEN "unsupported-exception-rule" ELSE "unsupported-network-rule"

normalizeNetwork(line, exception) ==
  LET at == SelectLastInSeq(line, LAMBDA t : t = "$")
      pattern == IF at = 0 THEN line ELSE SubSeq(line, 1, at - 1)
      mods == IF at = 0 THEN [ok |-> TRUE, taken |-> {}]
              ELSE parseModifiers(SubSeq(line, at + 1, Len(line)), exception)
      r == Pattern(pattern)
  IN  IF "$" \in ToSet(pattern) \/ ~mods.ok THEN Rejected("unsupported-modifier")
      ELSE IF r.ok THEN Emitted(r.rule \o WrittenModifiers(mods.taken))
      ELSE Rejected(IF r.reason = "" THEN FallbackReason(exception) ELSE r.reason)

HostsEntry(host) ==
  IF validDomain(host) THEN Emitted(<<"|", "|">> \o Lowered(host) \o <<"^">>)
                       ELSE Rejected("invalid-host-entry")

\* An accepted exception keeps its mark.
WithMark(exception, r) ==
  IF exception /\ r.ok THEN Emitted(<<"@@">> \o r.rule) ELSE r

normalize(line) ==
  LET exception == Head(line) = "@@"
      body == IF exception THEN Tail(line) ELSE line
  IN  IF Malformed \in ToSet(line) THEN Rejected("invalid-utf8")
      ELSE IF ToSet(line) \cap Markers # {} THEN Rejected("unsupported-cosmetic-scriptlet")
      ELSE IF Len(line) > 1 /\ Head(line) = "/" /\ Last(line) = "/" THEN Rejected("regex-filter")
      ELSE IF Head(line) = "[Adblock" THEN Rejected("metadata")
      ELSE IF body = <<>> THEN Rejected("unsupported-exception-rule")
      ELSE IF Head(body) \in HostsPrefixes
           THEN IF exception THEN Rejected("unsupported-exception-rule")
                             ELSE HostsEntry(Tail(body))
      ELSE IF ToSet(body) \cap (Blanks \cup NotAscii) # {} THEN Rejected("non-ascii-or-whitespace")
      ELSE WithMark(exception, normalizeNetwork(body, exception))

Reasons == {"invalid-utf8", "unsupported-cosmetic-scriptlet", "regex-filter", "metadata",
            "unsupported-exception-rule", "invalid-host-entry", "non-ascii-or-whitespace",
            "unsupported-modifier", "unterminated-host-rule", "unsupported-network-rule"}

\* Faulty variant: every domain rule counts, whatever follows the host.
AnyDomainRule(rule) == HasPrefix(rule, <<"|", "|">>)

isBareDomainBlock(rule) ==
  /\ HasPrefix(rule, <<"|", "|">>) /\ Last(rule) = "^"
  /\ validDomain(SubSeq(rule, 3, Len(rule) - 1))

optimizeRule(rule) ==
  IF isBareDomainBlock(rule) THEN rule \o <<"$", "third-party">> ELSE rule

-------------------------------------------------------------------------------
(* scripts/validate.sh                                                     *)

\* The domain= list as awk reads it: lower-case, valid, no base twice.
AcceptsDomains(value) ==
  /\ ValidDomainList(value)
  /\ Lowered(value) = value

\* One option, whatever stands beside it.
AcceptsOption(o, exception) ==
  \/ o.name \in {"third-party"} \cup ElementTypes /\ o.value = <<>>
  \/ o.name = "match-case" /\ o.value = <<>> /\ ~o.negated
  \/ o.name = "domain" /\ ~o.negated /\ Len(o.value) > 1 /\ AcceptsDomains(Tail(o.value))
  \/ o.name \in ActivationTypes /\ o.value = <<>> /\ ~o.negated /\ exception

AcceptsModifiers(mods, exception) ==
  LET parts == Split(mods, ",")
      os == [i \in DOMAIN parts |-> Option(parts[i])]
      types == Among(ElementTypes, ToSet(os))
  IN  /\ \A i \in DOMAIN os : /\ AcceptsOption(os[i], exception)
                              /\ \A j \in DOMAIN os : os[j].name = os[i].name => j = i
      /\ \A o, p \in types : o.negated = p.negated
      /\ types = {} \/ Among(ActivationTypes, ToSet(os)) = {}

AcceptsHost(host) == validDomain(host) /\ Lowered(host) = host

UrlTokens == Words \cup {".", "/", "?", "#", "%41", ",", "=", "~", "@@"}

\* What the awk program lets pass in a generated list.
Accepts(line) ==
  LET exception == Head(line) = "@@"
      pattern == Before(IF exception THEN Tail(line) ELSE line, {"$"})
      mods == From(line, {"$"})
      anchored == Len(pattern) > 1 /\ pattern[2] \in Schemes
      rest == SubSeq(pattern, 3, Len(pattern) - IF Last(pattern) = "|" THEN 1 ELSE 0)
  IN  /\ ToSet(line) \cap (Blanks \cup Markers) = {}
      /\ ~(Len(line) > 1 /\ Head(line) = "/" /\ Last(line) = "/")
      /\ mods # <<>> => "$" \notin ToSet(Tail(mods)) /\ AcceptsModifiers(Tail(mods), exception)
      /\ HasPrefix(pattern, IF anchored THEN <<"|">> ELSE <<"|", "|">>)
      /\ "|" \notin ToSet(rest)
      /\ AcceptsHost(Before(rest, {"/", "?", "#"} \cup IF anchored THEN {} ELSE {"^"}))
      /\ anchored => ToSet(From(rest, {"/", "?", "#"})) \subseteq UrlTokens
      /\ ~(mods = <<>> /\ ~exception /\ isBareDomainBlock(pattern))
===============================================================================
