---------------------------- MODULE MCSupervisor ----------------------------
(***************************************************************************)
(* The supervisor for TLC: the bounds are numbers, given in the .cfg.      *)
(***************************************************************************)
EXTENDS Supervisor
=============================================================================
