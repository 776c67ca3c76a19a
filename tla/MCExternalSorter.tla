--------------------------- MODULE MCExternalSorter ---------------------------
(* Instances of ExternalSorter for TLC.                                      *)
EXTENDS ExternalSorter

\* Four raw rules, two of which optimizeRule makes equal; rule 3 is long.
FourRaw == 1..4
GuardedPair == <<1, 2, 3, 2>>
LongThird == <<1, 1, 3>>
===============================================================================
