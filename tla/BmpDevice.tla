----------------------------- MODULE BmpDevice ------------------------------
(***************************************************************************)
(* The host's view of a probe: struct BmpDevice of src/bmp.rs and the      *)
(* operations that take it across a reboot of the probe, request_detach,   *)
(* detach_and_enumerate and wait_for_probe_reboot.  Commands that use them *)
(* (FlashProbe, RebootCommand) extend this module and say where control    *)
(* goes when an operation returns.                                         *)
(*                                                                         *)
(* Time passes only in the program's sleeps; everything else the host does *)
(* takes none, and the probe may move between any two of its steps.        *)
(***************************************************************************)
EXTENDS UsbProbe

CONSTANTS
  DetachSettle,   \* sleep after a detach before looking for the probe
  PollInterval,   \* sleep between two looks at the device list
  Timeout         \* how long wait_for_probe_reboot keeps looking

ASSUME DeviceAssumption ==
  /\ DetachSettle \in Nat
  /\ PollInterval \in Nat \ {0}
  /\ Timeout \in Nat

VARIABLES
  pc,       \* where the command is
  dev,      \* the BmpDevice the command works with
  timer,    \* what is left of the current sleep
  elapsed   \* time since wait_for_probe_reboot started

hostVars == <<pc, dev, timer, elapsed>>

(* mode is BmpDevice::mode, owns the Option fields that are Some.          *)
Handle == [mode : Mode, owns : SUBSET {"device", "interface"}]

WaitLabels == {"settle", "poll", "check", "nap"}

HostTypeOK(labels) ==
  /\ pc \in labels
  /\ dev \in Handle
  /\ timer \in Nat
  /\ elapsed \in Nat

(* BmpDevice::from_usb_device on a listed probe.                           *)
Opened == [mode |-> mode, owns |-> {"device", "interface"}]
Dropped(d) == [d EXCEPT !.owns = {}]

HostInit(start) ==
  /\ pc = start
  /\ dev = Opened
  /\ timer = 0
  /\ elapsed = 0

-----------------------------------------------------------------------------
(* The outcomes of a DFU_DETACH after handle_detach_errors: a probe that   *)
(* took it, a probe that is gone or that stalled (taken for a rebooting    *)
(* one), or an error, which does not tell whether the probe took it.       *)
DetachOk ==
  \/ Depart
  \/ ~Reachable /\ UNCHANGED probeVars
  \/ "stall" \in Faults /\ UNCHANGED probeVars

DetachErr ==
  /\ "transfer" \in Faults
  /\ Depart \/ UNCHANGED probeVars

(* request_detach unwraps the interface and expects a device.              *)
CanDetach == dev.owns = {"device", "interface"}

(* A USB reset needs a probe that is still listed under this handle.       *)
ResetOk ==
  \/ Depart
  \/ link = "live" /\ ~Reachable /\ UNCHANGED probeVars

(* BmpDevice::reboot: DFU_DETACH for a bootloader that is not manifestation*)
(* tolerant, a USB reset for one that will not detach by itself.           *)
RebootOk ==
  \/ attrs = {"tolerant", "willDetach"} /\ UNCHANGED probeVars
  \/ attrs = {"willDetach"} /\ DetachOk
  \/ "willDetach" \notin attrs /\ ResetOk

(* The reset fails on a probe that is gone, or that went on the detach.    *)
ResetErr ==
  /\ "willDetach" \notin attrs
  /\ \/ ~Reachable /\ UNCHANGED probeVars
     \/ "tolerant" \notin attrs /\ Depart

RebootErr == ResetErr \/ (attrs # {"tolerant", "willDetach"} /\ DetachErr)

(* Mutant: the reset of a bootloader that does not detach is forgotten.    *)
LeaveDfuOk_noReset ==
  \/ "willDetach" \in attrs /\ Depart
  \/ "willDetach" \notin attrs /\ UNCHANGED probeVars

(* request_detach in a bootloader (leave_dfu_mode): the zero-length DNLOAD *)
(* and GETSTATUS of a manifestation tolerant bootloader must both get      *)
(* through, a DFU_DETACH is judged by handle_detach_errors, and then comes *)
(* the reset.                                                              *)
LeaveDfuOk ==
  \/ attrs = {"tolerant", "willDetach"} /\ Depart
  \/ attrs = {"willDetach"} /\ DetachOk
  \/ "willDetach" \notin attrs /\ ResetOk

LeaveDfuErr ==
  \/ DetachErr \/ ResetErr
  \/ "tolerant" \in attrs /\ ~Reachable /\ UNCHANGED probeVars

RequestDetachOk == IF dev.mode = "Runtime" THEN DetachOk ELSE LeaveDfuOk
RequestDetachErr == IF dev.mode = "Runtime" THEN DetachErr ELSE LeaveDfuErr

(* Mutant: no sleep before the first look at the device list.              *)
DetachAndSleep_nosleep ==
  /\ CanDetach
  /\ DetachOk
  /\ dev' = Dropped(dev)
  /\ timer' = 0
  /\ pc' = "settle"
  /\ UNCHANGED elapsed

(* detach_and_enumerate up to its sleep: both handles are given up.        *)
DetachAndSleep ==
  /\ CanDetach
  /\ DetachOk
  /\ dev' = Dropped(dev)
  /\ timer' = DetachSettle
  /\ pc' = "settle"
  /\ UNCHANGED elapsed

-----------------------------------------------------------------------------
(* wait_for_probe_reboot.  The wait starts when the sleep before it ends.  *)
StartWait ==
  /\ pc = "settle"
  /\ timer = 0
  /\ pc' = "poll"
  /\ elapsed' = 0
  /\ UNCHANGED <<dev, timer>> /\ UNCHANGED probeVars

(* Mutant: the struct is not re-initialised from the probe that was found. *)
Found_stale(next) ==
  /\ pc = "poll"
  /\ Listed
  /\ link' = "live"
  /\ pc' = next
  /\ UNCHANGED <<dev, timer, elapsed, mode, bus, due, image, attrs>>

(* Mutant: the mode is not among what is re-initialised.                   *)
Found_oldMode(next) ==
  /\ pc = "poll"
  /\ Listed
  /\ dev' = [Opened EXCEPT !.mode = dev.mode]
  /\ link' = "live"
  /\ pc' = next
  /\ UNCHANGED <<timer, elapsed, mode, bus, due, image, attrs>>

(* One probe is listed on the port and opens: the loop ends with it.       *)
Found(next) ==
  /\ pc = "poll"
  /\ Listed
  /\ dev' = Opened
  /\ link' = "live"
  /\ pc' = next
  /\ UNCHANGED <<timer, elapsed, mode, bus, due, image, attrs>>

(* Nothing is listed on the port, or what is listed cannot be opened: both *)
(* leave the matcher's found list empty.                                   *)
NotFound ==
  /\ pc = "poll"
  /\ ~Listed \/ "deny" \in Faults
  /\ pc' = "check"
  /\ UNCHANGED <<dev, timer, elapsed>> /\ UNCHANGED probeVars

(* Mutant: the wait ends when the timeout is reached, not when it is over. *)
Expired_early == pc = "check" /\ elapsed >= Timeout

Expired == pc = "check" /\ elapsed > Timeout

(* Mutant: the host naps without looking at the time.                      *)
Nap_always ==
  /\ pc = "check"
  /\ timer' = PollInterval
  /\ pc' = "nap"
  /\ UNCHANGED <<dev, elapsed>> /\ UNCHANGED probeVars

Nap ==
  /\ pc = "check"
  /\ elapsed <= Timeout
  /\ timer' = PollInterval
  /\ pc' = "nap"
  /\ UNCHANGED <<dev, elapsed>> /\ UNCHANGED probeVars

(* Mutant: every look at the device list starts the wait anew.             *)
LookAgain_restart ==
  /\ pc = "nap"
  /\ timer = 0
  /\ pc' = "poll"
  /\ elapsed' = 0
  /\ UNCHANGED <<dev, timer>> /\ UNCHANGED probeVars

LookAgain ==
  /\ pc = "nap"
  /\ timer = 0
  /\ pc' = "poll"
  /\ UNCHANGED <<dev, timer, elapsed>> /\ UNCHANGED probeVars

WaitStep == StartWait \/ NotFound \/ Nap \/ LookAgain

(* Mutant: a sleep runs past its end.                                      *)
Tick_unguarded ==
  /\ pc \in {"settle", "nap"}
  /\ timer' = timer - 1
  /\ elapsed' = IF pc = "nap" THEN elapsed + 1 ELSE elapsed
  /\ ProbeTick
  /\ UNCHANGED <<pc, dev>>

(* A sleeping host lets time pass, for itself and for the probe.           *)
Tick ==
  /\ pc \in {"settle", "nap"}
  /\ timer > 0
  /\ timer' = timer - 1
  /\ elapsed' = IF pc = "nap" THEN elapsed + 1 ELSE elapsed
  /\ ProbeTick
  /\ UNCHANGED <<pc, dev>>
=============================================================================
