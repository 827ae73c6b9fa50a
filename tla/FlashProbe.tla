----------------------------- MODULE FlashProbe -----------------------------
(***************************************************************************)
(* bmputil update (and switch) once a file has been chosen: flash_probe,   *)
(* program_firmware and check_programming of src/flasher.rs with           *)
(* BmpDevice::download and reboot of src/bmp.rs.  A probe that runs its    *)
(* firmware is detached into its bootloader and looked for again, the      *)
(* image is written in ImageLen blocks, once more after a dfuERROR, the    *)
(* probe is rebooted, looked for again and asked what it runs.             *)
(*                                                                         *)
(* The user may run the command again after it failed or was killed.       *)
(***************************************************************************)
EXTENDS BmpDevice

CONSTANTS
  RebootSettle,  \* sleep after the reboot before looking for the probe
  ImageLen       \* blocks in the firmware image

ASSUME FlashAssumption ==
  /\ RebootSettle \in Nat
  /\ ImageLen \in Nat \ {0}

VARIABLES
  written,  \* blocks the current DFU download has put into flash
  attempt,  \* try_download calls made by this run
  stage,    \* which wait_for_probe_reboot this is: for detach or verify
  result    \* what the command reported

flashVars == <<written, attempt, stage, result>>
vars == <<probeVars, hostVars, flashVars>>

(* Where update can be, and (start, detach) the reboot command, which      *)
(* ProbeCommands adds.                                                     *)
Labels == WaitLabels \cup
  {"prepare", "download", "open", "erase", "write", "manifest", "clear",
   "reboot", "identify", "done", "start", "detach"}

Results == {"none", "ok", "error", "lost", "killed"}

TypeOK ==
  /\ ProbeTypeOK
  /\ HostTypeOK(Labels)
  /\ written \in 0..ImageLen
  /\ attempt \in {1, 2}
  /\ stage \in {"detach", "verify"}
  /\ result \in Results

RunInit ==
  /\ written = 0
  /\ attempt = 1
  /\ stage = "detach"
  /\ result = "none"

Init == ProbeInit /\ HostInit("prepare") /\ RunInit

-----------------------------------------------------------------------------
(* Moves of control that leave everything the command owns alone.          *)
Goto(label) ==
  /\ pc' = label
  /\ UNCHANGED <<dev, timer, elapsed, written, attempt, stage, result>>

(* The command returns: its handles are dropped.                           *)
Finish(r) ==
  /\ pc' = "done"
  /\ result' = r
  /\ dev' = Dropped(dev)
  /\ UNCHANGED <<timer, elapsed, written, attempt, stage>>

(* flash_probe up to program_firmware: the file is read and typed.         *)
Prepare ==
  /\ pc = "prepare"
  /\ \/ Goto("download")
     \/ "badfile" \in Faults /\ Finish("error")
  /\ UNCHANGED probeVars

(* Mutant: a probe that is in its bootloader already is detached as well.  *)
Download_always ==
  /\ pc = "download"
  /\ \/ DetachAndSleep /\ UNCHANGED flashVars
     \/ DetachErr /\ Finish("error")

(* Mutant: only probes that run their firmware are accepted.               *)
Download_runtimeOnly ==
  /\ pc = "download"
  /\ \/ /\ dev.mode = "Runtime"
        /\ DetachAndSleep
        /\ UNCHANGED flashVars
     \/ /\ dev.mode = "Runtime" => DetachErr
        /\ dev.mode = "FirmwareUpgrade" => UNCHANGED probeVars
        /\ Finish("error")

(* download: only a probe in Runtime mode is detached.                     *)
Download ==
  /\ pc = "download"
  /\ \/ /\ dev.mode = "Runtime"
        /\ DetachAndSleep
        /\ UNCHANGED flashVars
     \/ /\ dev.mode = "Runtime"
        /\ DetachErr
        /\ Finish("error")
     \/ /\ dev.mode = "FirmwareUpgrade"
        /\ Goto("open")
        /\ UNCHANGED probeVars

(* Whatever probe is found on the port is taken, in whatever mode it is.   *)
FoundProbe ==
  /\ Found(IF stage = "detach" THEN "open" ELSE "identify")
  /\ UNCHANGED flashVars

GiveUp == Expired /\ Finish("lost") /\ UNCHANGED probeVars

(* DfuNusb::open consumes the device and clones the interface.             *)
Open ==
  /\ pc = "open"
  /\ dev.owns = {"device", "interface"}
  /\ \/ /\ pc' = "erase"
        /\ dev' = [dev EXCEPT !.owns = @ \ {"device"}]
        /\ UNCHANGED <<timer, elapsed>> /\ UNCHANGED flashVars
     \/ /\ ~Reachable \/ "transfer" \in Faults
        /\ Finish("error")
  /\ UNCHANGED probeVars

-----------------------------------------------------------------------------
(* DfuSync::download, block by block.                                      *)

DfuReady == Reachable /\ mode = "FirmwareUpgrade"

SetImage(i) ==
  /\ image' = i
  /\ UNCHANGED <<mode, bus, due, link, attrs>>

(* Mutant: the result of the second try is not looked at.                  *)
DfuError_swallowed ==
  /\ "dfuerror" \in Faults
  /\ DfuReady
  /\ pc' = IF attempt = 1 THEN "clear" ELSE "reboot"
  /\ UNCHANGED <<dev, result, timer, elapsed, written, attempt, stage>>

(* The device reported dfuERROR: one more try after DFU_CLRSTATUS.         *)
DfuError ==
  /\ "dfuerror" \in Faults
  /\ DfuReady
  /\ IF attempt = 1
     THEN pc' = "clear" /\ UNCHANGED <<dev, result>>
     ELSE pc' = "done" /\ result' = "error" /\ dev' = Dropped(dev)
  /\ UNCHANGED <<timer, elapsed, written, attempt, stage>>

TransferError ==
  /\ ~DfuReady \/ "transfer" \in Faults
  /\ Finish("error")

Erase ==
  /\ pc = "erase"
  /\ \/ /\ DfuReady
        /\ SetImage("partial")
        /\ pc' = "write"
        /\ written' = 0
        /\ UNCHANGED <<dev, timer, elapsed, attempt, stage, result>>
     \/ /\ DfuError
        /\ \E i \in {image, "partial"} : SetImage(i)
     \/ /\ TransferError
        /\ \E i \in {image} \cup (IF DfuReady THEN {"partial"} ELSE {}) : SetImage(i)

(* Mutant: blocks are read past the end of the image.                      *)
Write_unbounded ==
  /\ pc = "write"
  /\ DfuReady
  /\ written' = written + 1
  /\ SetImage(IF written + 1 = ImageLen THEN "new" ELSE "partial")
  /\ UNCHANGED <<pc, dev, timer, elapsed, attempt, stage, result>>

(* One block.  What the progress callback does with it is left out: see    *)
(* Reboot.                                                                 *)
Write ==
  /\ pc = "write"
  /\ written < ImageLen
  /\ \/ /\ DfuReady
        /\ written' = written + 1
        /\ SetImage(IF written + 1 = ImageLen THEN "new" ELSE "partial")
        /\ UNCHANGED <<pc, dev, timer, elapsed, attempt, stage, result>>
     \/ (DfuError \/ TransferError) /\ UNCHANGED probeVars

(* Mutant: the last block is not written.                                  *)
AllWritten_short ==
  /\ pc = "write"
  /\ written = ImageLen - 1
  /\ Goto("manifest")
  /\ UNCHANGED probeVars

AllWritten ==
  /\ pc = "write"
  /\ written = ImageLen
  /\ Goto("manifest")
  /\ UNCHANGED probeVars

(* The empty block that ends the download: a bootloader may start the new  *)
(* firmware on it, one that needs no further request always does.          *)
Manifest ==
  /\ pc = "manifest"
  /\ \/ /\ DfuReady
        /\ Goto("reboot")
        /\ \/ Depart
           \/ attrs # {"tolerant", "willDetach"} /\ UNCHANGED probeVars
     \/ (DfuError \/ TransferError) /\ UNCHANGED probeVars

(* The second try uses the DfuSync of the first.                           *)
(* The 250 ms before the DFU_CLRSTATUS are not counted: no wait is running *)
(* and the probe moves between steps anyway.                               *)
ClearStatus ==
  /\ pc = "clear"
  /\ \/ /\ DfuReady
        /\ pc' = "erase"
        /\ attempt' = 2
        /\ UNCHANGED <<dev, timer, elapsed, written, stage, result>>
     \/ TransferError
  /\ UNCHANGED probeVars

-----------------------------------------------------------------------------
(* program_firmware after the download, and check_programming.             *)

(* Mutant: the rebooted probe is looked for at once.                       *)
Reboot_nosettle ==
  /\ pc = "reboot"
  /\ \/ /\ RebootOk
        /\ dev' = Dropped(dev)
        /\ timer' = 0
        /\ stage' = "verify"
        /\ pc' = "settle"
        /\ UNCHANGED <<elapsed, written, attempt, result>>
     \/ /\ RebootErr
        /\ Finish("error")

(* The comparison of flasher.rs:122 keeps nothing from the reboot: finish  *)
(* (flasher.rs:118) has set the bar's position to the image's length, so   *)
(* that what is left of the check is the download's own error.             *)
Reboot ==
  /\ pc = "reboot"
  /\ \/ /\ RebootOk
        /\ dev' = Dropped(dev)
        /\ timer' = RebootSettle
        /\ stage' = "verify"
        /\ pc' = "settle"
        /\ UNCHANGED <<elapsed, written, attempt, result>>
     \/ /\ RebootErr
        /\ Finish("error")

(* check_programming: any product string that parses counts as success,    *)
(* the bootloader's own as well.  A probe that is about to leave may still *)
(* answer.                                                                 *)
Identify ==
  /\ pc = "identify"
  /\ \/ link = "live" /\ Listed /\ Finish("ok")
     \/ (~Reachable \/ "transfer" \in Faults) /\ Finish("error")
  /\ UNCHANGED probeVars

-----------------------------------------------------------------------------
Kill ==
  /\ "kill" \in Faults
  /\ pc # "done"
  /\ Finish("killed")
  /\ UNCHANGED probeVars

(* The user runs the command again; find_matching_probes opens what is     *)
(* there.                                                                  *)
Rerun ==
  /\ pc = "done"
  /\ result # "ok"
  /\ Listed
  /\ pc' = "prepare"
  /\ dev' = Opened
  /\ link' = "live"
  /\ timer' = 0
  /\ elapsed' = 0
  /\ written' = 0
  /\ attempt' = 1
  /\ stage' = "detach"
  /\ result' = "none"
  /\ UNCHANGED <<mode, bus, due, image, attrs>>

Waiting == WaitStep /\ UNCHANGED flashVars

Host ==
  \/ Prepare \/ Download \/ FoundProbe \/ GiveUp \/ Open
  \/ Erase \/ Write \/ AllWritten \/ Manifest \/ ClearStatus
  \/ Reboot \/ Identify \/ Waiting

Time == Tick /\ UNCHANGED flashVars

Probe == ProbeStep /\ UNCHANGED hostVars /\ UNCHANGED flashVars

Next == Host \/ Time \/ Probe \/ Kill \/ Rerun

Fairness ==
  /\ WF_vars(Host)
  /\ WF_vars(Time)
  /\ WF_vars(Leave /\ UNCHANGED hostVars /\ UNCHANGED flashVars)
  /\ WF_vars(Return /\ UNCHANGED hostVars /\ UNCHANGED flashVars)

Spec == Init /\ [][Next]_vars
FairSpec == Spec /\ Fairness

-----------------------------------------------------------------------------
(* Success is reported only with every block of the image in flash: the    *)
(* Ok of flash_probe (flasher.rs:150-179) is worth that much even after    *)
(* retries, lost replies and earlier runs that were killed half way.       *)
SuccessMeansFlashed == result = "ok" => image = "new"

(* wait_for_probe_reboot (bmp.rs:644-685) gives up, or returns a probe,    *)
(* within one poll interval of its timeout.                                *)
WaitBounded == elapsed <= Timeout + PollInterval

(* The Options that download (bmp.rs:519-521, 557-560) and enter_dfu_mode  *)
(* (bmp.rs:397-399) unwrap are Some whenever they get there.               *)
HandleHeld ==
  /\ pc \in {"download", "open"} => dev.owns = {"device", "interface"}
  /\ pc \in {"erase", "write", "manifest", "clear"} => "interface" \in dev.owns

(* The mode cached in BmpDevice (bmp.rs:173) is the mode of the probe as   *)
(* long as the handle still reaches it, however often the probe rebooted.  *)
CachedModeFresh == link = "live" => dev.mode = mode

(* What download opens and writes to is a probe found in its bootloader    *)
(* (bmp.rs:496-523): "switching into DFU mode automatically if necessary". *)
ProgramsBootloader ==
  pc \in {"open", "erase", "write", "manifest", "clear", "reboot"}
    => dev.mode = "FirmwareUpgrade"

(* A probe is only ever sent out of its bootloader by a run that has put   *)
(* the whole image there (program_firmware): only the error of the         *)
(* download (flasher.rs:119) keeps it there when a block is missing.       *)
LeavesBootloaderWhole ==
  [][(bus = "up" /\ bus' = "leaving" /\ mode = "FirmwareUpgrade") => image = "new"]_vars

(* "Successfully rebooted into firmware version" (flasher.rs:142-145), and *)
(* that "the firmware programming cycle succeeded" (flasher.rs:136), is    *)
(* said of a probe that runs its firmware.                                 *)
SuccessMeansRuntime == result = "ok" => dev.mode = "Runtime"

(* A probe that comes back in time is not reported lost (bmp.rs:654-680).  *)
ReturnedIsFound == result # "lost"

(* Every run reports something: no sleep, poll or retry goes on for ever.  *)
Terminates == (pc # "done") ~> (pc = "done")

(* What may go wrong outside the program: it is killed, the file is bad,   *)
(* the bootloader reports an error, a request to a probe that is there     *)
(* fails.                                                                  *)
Mishap ==
  /\ pc # "done"
  /\ \/ result' = "killed"
     \/ pc' = "clear"
     \/ result' = "error" /\ pc = "prepare"
     \/ result' = "error" /\ Reachable /\ (pc = "download" => dev.mode = "Runtime")

Abstract == INSTANCE FirmwareUpdate WITH
  verdict <- IF result \in {"none", "ok"} THEN result ELSE "failed"

ImplementsUpdate == Abstract!Spec
=============================================================================
