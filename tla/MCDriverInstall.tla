-------------------------- MODULE MCDriverInstall --------------------------
(***************************************************************************)
(* A small instance of DriverInstall: two calls at the same time, of any   *)
(* kind and with any privileges, with every fault.                         *)
(***************************************************************************)
EXTENDS DriverInstall

AnyFault == AllFaults
=============================================================================
