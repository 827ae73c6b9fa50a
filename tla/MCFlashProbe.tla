---------------------------- MODULE MCFlashProbe ----------------------------
(***************************************************************************)
(* Small instances of FlashProbe.  A tick stands for a poll of 200 ms or   *)
(* for half of one; the timeout of 5 s is cut to a few polls.              *)
(***************************************************************************)
EXTENDS FlashProbe

(* Every fault but an image that does not start.                           *)
HostileFaults == AllFaults \ {"badimage"}

(* Nothing goes wrong but that the image that is written does not start.   *)
NoStart == {"badimage"}
=============================================================================
