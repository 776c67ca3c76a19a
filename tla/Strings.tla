-------------------------------- MODULE Strings --------------------------------
(***************************************************************************)
(* What the rules are taken apart and put together with: the functions of  *)
(* Go's strings and slices packages that internal/filter/filter.go calls,  *)
(* on texts that are sequences of tokens.                                  *)
(***************************************************************************)
EXTENDS Integers, Sequences, FiniteSets, Functions

Split(s, sep) ==
  LET parts[n \in 0..Len(s)] ==
        IF n = 0 THEN <<<<>>>>
        ELSE LET p == parts[n - 1]
             IN  IF s[n] = sep THEN Append(p, <<>>)
                 ELSE Append(SubSeq(p, 1, Len(p) - 1), Append(p[Len(p)], s[n]))
  IN  parts[Len(s)]

Joined(parts, sep) ==
  LET text[n \in 0..Len(parts)] ==
        IF n = 0 THEN <<>>
        ELSE IF n = 1 THEN parts[n]
        ELSE text[n - 1] \o <<sep>> \o parts[n]
  IN  text[Len(parts)]

\* What precedes the first of the separators, and the rest with it.
Cut(s, seps) == CHOOSE n \in 0..Len(s) : /\ \A i \in 1..n : s[i] \notin seps
                                         /\ n < Len(s) => s[n + 1] \in seps
Before(s, seps) == SubSeq(s, 1, Cut(s, seps))
From(s, seps) == SubSeq(s, Cut(s, seps) + 1, Len(s))

\* s is S arranged from 1 to n, the pairs in order being those of before. Nothing is
\* said of elements that before does not order, as an unstable sort keeps no order.
Sorts(s, n, S, before) ==
  s \in Bijection(1..n, S) /\ \A i, j \in 1..n : i < j => <<s[j], s[i]>> \notin before

Arranged(S, before) ==
  CHOOSE s \in Bijection(1..Cardinality(S), S) : Sorts(s, Cardinality(S), S, before)
===============================================================================
