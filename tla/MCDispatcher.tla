---------------------------- MODULE MCDispatcher ----------------------------
(* Dispatcher for TLC: its constants are given in the configuration.       *)
EXTENDS Dispatcher
=============================================================================
