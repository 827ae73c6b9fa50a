--------------------------- MODULE FirmwareUpdate ---------------------------
(***************************************************************************)
(* What updating a probe promises, whatever happens on the bus: success is *)
(* only ever reported with the whole new image in flash, and once a run    *)
(* has reported, nothing touches the image until the next run.             *)
(***************************************************************************)
VARIABLES
  image,    \* the application area of the probe's flash
  verdict   \* what the run in progress, or the last one, reported

vars == <<image, verdict>>

Init == image = "old" /\ verdict = "none"

(* Writing starts, or starts over, by erasing what is there.               *)
Erase ==
  /\ verdict = "none"
  /\ image' = "partial"
  /\ verdict' \in {"none", "failed"}

Complete ==
  /\ verdict = "none"
  /\ image = "partial"
  /\ image' = "new"
  /\ UNCHANGED verdict

Succeed ==
  /\ verdict = "none"
  /\ image = "new"
  /\ verdict' = "ok"
  /\ UNCHANGED image

Fail ==
  /\ verdict = "none"
  /\ verdict' = "failed"
  /\ UNCHANGED image

Retry ==
  /\ verdict = "failed"
  /\ verdict' = "none"
  /\ UNCHANGED image

Next == Erase \/ Complete \/ Succeed \/ Fail \/ Retry

Spec == Init /\ [][Next]_vars
=============================================================================
