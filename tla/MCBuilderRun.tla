----------------------------- MODULE MCBuilderRun -----------------------------
(* Instances of BuilderRun for TLC; the constants are in the .cfg files.    *)
EXTENDS BuilderRun
===============================================================================
