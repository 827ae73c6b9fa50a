--------------------------- MODULE MCProbeCommands --------------------------
(***************************************************************************)
(* A small instance of ProbeCommands.  A tick stands for a poll of 200 ms  *)
(* or for half of one; the timeout of 5 s is cut to a few polls.           *)
(***************************************************************************)
EXTENDS ProbeCommands

(* Faults of transfers and of the user: the probe itself always comes back *)
(* and can be opened.                                                      *)
OrderlyFaults == {"transfer", "dfuerror", "kill", "badfile"}
=============================================================================
