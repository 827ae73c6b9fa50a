------------------------------ MODULE UsbProbe ------------------------------
(***************************************************************************)
(* One physical probe on one USB port, as the operating system shows it to *)
(* bmputil.  Nothing in src/ implements this module: it is the environment *)
(* the code in bmp.rs and flasher.rs talks to, with exactly the freedom    *)
(* that code allows for (errors it handles or ignores, sleeps it takes to  *)
(* let the probe go away, timeouts it keeps on waiting for it to return).  *)
(*                                                                         *)
(* Time is counted in ticks.  A probe that takes a DFU_DETACH or a reset   *)
(* stays on the bus for at most MaxLeave ticks and is away for at most     *)
(* MaxAway ticks, unless it is lost.                                       *)
(***************************************************************************)
EXTENDS Integers

CONSTANTS
  MaxLeave,  \* ticks a probe may still be listed after it took a detach
  MaxAway,   \* ticks a rebooting probe may stay off the bus
  Faults     \* which faults this environment has, a subset of AllFaults

(***************************************************************************)
(* stall     a probe may refuse a detach with a STALL and keep running     *)
(* vanish    a rebooting probe may never come back (unusable firmware)     *)
(* unplug    the user may pull the probe and plug it in again              *)
(* deny      opening a listed probe may fail (permissions not yet set)     *)
(* transfer  a control transfer may fail with an error of another kind     *)
(* dfuerror  the bootloader may go to the dfuERROR state                   *)
(* badimage  the firmware in the file does not start                       *)
(* kill      bmputil may be killed at any point                            *)
(* badfile   the file may be unreadable or of no recognisable type         *)
(***************************************************************************)
AllFaults ==
  {"stall", "vanish", "unplug", "deny", "transfer", "dfuerror", "badimage", "kill",
   "badfile"}

ASSUME ProbeAssumption ==
  /\ MaxLeave \in Nat
  /\ MaxAway \in Nat
  /\ Faults \subseteq AllFaults

VARIABLES
  mode,   \* what the probe runs, or will run when it is back on the bus
  bus,    \* whether the probe is listed
  due,    \* ticks within which a leaving or absent probe must move on
  link,   \* whether the host's newest handle still reaches the probe
  image,  \* the application area of the probe's flash
  attrs   \* attributes in its bootloader's DFU functional descriptor

probeVars == <<mode, bus, due, link, image, attrs>>

Mode  == {"Runtime", "FirmwareUpgrade"}
Bus   == {"up", "leaving", "away", "lost"}
Image == {"old", "partial", "new"}

ProbeTypeOK ==
  /\ mode \in Mode
  /\ bus \in Bus
  /\ due \in Nat
  /\ link \in {"live", "dead"}
  /\ image \in Image
  /\ attrs \in SUBSET {"tolerant", "willDetach"}

ProbeInit ==
  /\ mode \in Mode
  /\ bus = "up"
  /\ due = 0
  /\ link = "live"
  /\ image = "old"
  /\ attrs \in SUBSET {"tolerant", "willDetach"}

Listed == bus \in {"up", "leaving"}

(* Transfers reach the probe only through a handle that is still live.     *)
Reachable == link = "live" /\ bus = "up"

(* The old firmware starts, the new one does if it is any good, half of    *)
(* one is left to the bootloader.                                          *)
BootMode ==
  IF image = "old" \/ (image = "new" /\ "badimage" \notin Faults)
  THEN "Runtime"
  ELSE "FirmwareUpgrade"

(* A detach or a reset the probe accepts.                                  *)
Depart ==
  /\ Reachable
  /\ bus' = "leaving"
  /\ due' = MaxLeave
  /\ UNCHANGED <<mode, link, image, attrs>>

(* The probe drops off the bus.  Firmware that was told to detach comes    *)
(* back as the bootloader, the bootloader as whatever it can start.        *)
Leave ==
  /\ bus = "leaving"
  /\ bus' \in {"away"} \cup (IF "vanish" \in Faults THEN {"lost"} ELSE {})
  /\ due' = MaxAway
  /\ mode' = IF mode = "Runtime" THEN "FirmwareUpgrade" ELSE BootMode
  /\ link' = "dead"
  /\ UNCHANGED <<image, attrs>>

Return ==
  /\ bus = "away"
  /\ bus' = "up"
  /\ due' = 0
  /\ UNCHANGED <<mode, link, image, attrs>>

Unplug ==
  /\ "unplug" \in Faults
  /\ bus # "lost"
  /\ bus' = "lost"
  /\ due' = 0
  /\ mode' = BootMode
  /\ link' = "dead"
  /\ UNCHANGED <<image, attrs>>

Replug ==
  /\ "unplug" \in Faults
  /\ bus = "lost"
  /\ bus' = "up"
  /\ due' = 0
  /\ mode' = BootMode
  /\ UNCHANGED <<link, image, attrs>>

(* Time passes for the probe: it never outstays the time it has.           *)
ProbeTick ==
  /\ bus \in {"leaving", "away"} => due > 0
  /\ due' = IF bus \in {"leaving", "away"} THEN due - 1 ELSE due
  /\ UNCHANGED <<mode, bus, link, image, attrs>>

ProbeStep == Leave \/ Return \/ Unplug \/ Replug
=============================================================================
