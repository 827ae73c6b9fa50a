-------------------------- MODULE MCRemoteSession --------------------------
(***************************************************************************)
(* Small instances of RemoteSession: everything may go wrong, and a user   *)
(* who interrupts a command on a line that is otherwise perfect.           *)
(***************************************************************************)
EXTENDS RemoteSession

AnyFault == AllFaults
Interrupted == {"kill"}
=============================================================================
