----------------------------- MODULE MCByteBudget -----------------------------
(* Instances of ByteBudget for TLC; the constants are in the .cfg files.    *)
EXTENDS ByteBudget
===============================================================================
