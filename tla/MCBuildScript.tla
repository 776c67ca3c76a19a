----------------------------- MODULE MCBuildScript -----------------------------
(* Instances of BuildScript for TLC; the constants are in the .cfg files.    *)
EXTENDS BuildScript
===============================================================================
