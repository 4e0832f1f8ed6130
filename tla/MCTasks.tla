------------------------------ MODULE MCTasks -------------------------------
(* Tasks for TLC: the constants are given in the configuration.            *)
EXTENDS Tasks
=============================================================================
