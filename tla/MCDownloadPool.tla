---------------------------- MODULE MCDownloadPool ----------------------------
(* Instances of DownloadPool for TLC: the sizes of the sources; the other   *)
(* constants are in the .cfg files.                                         *)
EXTENDS DownloadPool

\* With Limit = 3 and MaxSource = 2: two full ones, which do not fit together,
\* and one that is too long.
ThreeLists == <<2, 2, 3>>
\* With Limit = 3: they fit exactly.
ShortAndFull == <<1, 2>>
\* With Limit = 3: either fits, both together do not.
TwoFull == <<2, 2>>
\* With Limit = 2: one byte each, they fit exactly.
TwoSmall == <<1, 1>>
===============================================================================
