---------------------------- MODULE MCProcesses ----------------------------
(***************************************************************************)
(* Small instances of Processes.                                           *)
(***************************************************************************)
EXTENDS Processes
=============================================================================
