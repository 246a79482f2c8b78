---------------------------- MODULE MCRunMonitor ----------------------------
(* Instances of RunMonitor for TLC. *)
EXTENDS RunMonitor
=============================================================================
