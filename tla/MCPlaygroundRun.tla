---------------------------- MODULE MCPlaygroundRun ----------------------------
(* Instances of PlaygroundRun for TLC *)
EXTENDS PlaygroundRun

MCModes == {"read", "write", "file"}
===============================================================================
