--------------------------------- MODULE Sums ---------------------------------
(***************************************************************************)
(* The sum of a function over 1..n, by a recursive function so that it can *)
(* be proved about.                                                        *)
(***************************************************************************)
EXTENDS Integers

PartialSums(n, f) ==
  LET sum[i \in 0..n] == IF i = 0 THEN 0 ELSE sum[i - 1] + f[i]
  IN  sum

SumTo(n, f) == PartialSums(n, f)[n]
===============================================================================
