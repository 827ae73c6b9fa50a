--------------------------- MODULE ProbeCommands ----------------------------
(***************************************************************************)
(* The commands of bmputil that touch a probe, one after the other on the  *)
(* same one: probe update (FlashProbe) and probe reboot (reboot_command of *)
(* src/bin/bmputil-cli.rs): with --dfu into the bootloader, with --repeat  *)
(* into whichever of the two the probe is not in, and otherwise back into  *)
(* the firmware, through the bootloader if the probe is not there yet.     *)
(*                                                                         *)
(* Each command finds the probe as the one before left it: rebooting, half *)
(* written, or killed in the middle of it.                                 *)
(***************************************************************************)
EXTENDS FlashProbe

VARIABLES
  args,   \* which command this is
  early   \* whether it was started on a probe that was still about to leave

commandVars == <<args, early>>
allVars == <<vars, commandVars>>

Reboots == {"dfu", "repeat", "plain"}
Args == Reboots \cup {"update"}
FirstStep(a) == IF a = "update" THEN "prepare" ELSE "start"

CommandsTypeOK ==
  /\ TypeOK
  /\ args \in Args
  /\ early \in BOOLEAN

CommandsInit ==
  /\ args \in Args
  /\ early = FALSE
  /\ ProbeInit /\ HostInit(FirstStep(args)) /\ RunInit

-----------------------------------------------------------------------------
(* Mutant: --dfu detaches without looking at the mode.                     *)
Start_dfuToggles ==
  /\ pc = "start"
  /\ \/ /\ <<args, dev.mode>> = <<"plain", "Runtime">>
        /\ DetachAndSleep
        /\ UNCHANGED flashVars
     \/ /\ <<args, dev.mode>> # <<"plain", "Runtime">>
        /\ Goto("detach")
        /\ UNCHANGED probeVars

(* Nothing to do for --dfu in a bootloader; a plain reboot of a running    *)
(* firmware goes through the bootloader; everything else is one detach.    *)
Start ==
  /\ pc = "start"
  /\ \/ /\ <<args, dev.mode>> = <<"dfu", "FirmwareUpgrade">>
        /\ Finish("ok")
        /\ UNCHANGED probeVars
     \/ /\ <<args, dev.mode>> = <<"plain", "Runtime">>
        /\ \/ DetachAndSleep /\ UNCHANGED flashVars
           \/ DetachErr /\ Finish("error")
     \/ /\ <<args, dev.mode>> \notin
             {<<"dfu", "FirmwareUpgrade">>, <<"plain", "Runtime">>}
        /\ Goto("detach")
        /\ UNCHANGED probeVars

(* detach_and_destroy: one request_detach by the mode the handle was       *)
(* opened in, and nothing after it.                                        *)
Destroy ==
  /\ pc = "detach"
  /\ CanDetach
  /\ \/ RequestDetachOk /\ Finish("ok")
     \/ RequestDetachErr /\ Finish("error")

FoundForReboot == Found("detach") /\ UNCHANGED flashVars

RebootHost == Start \/ Destroy \/ FoundForReboot \/ GiveUp \/ Waiting

(* The next command on the same probe, as soon as that is listed.          *)
Command(a) ==
  /\ pc = "done"
  /\ Listed
  /\ args' = a
  /\ early' = (bus = "leaving")
  /\ pc' = FirstStep(a)
  /\ dev' = Opened
  /\ link' = "live"
  /\ timer' = 0 /\ elapsed' = 0
  /\ written' = 0
  /\ attempt' = 1 /\ stage' = "detach" /\ result' = "none"
  /\ UNCHANGED <<mode, bus, due, image, attrs>>

CommandHost == IF args = "update" THEN Host ELSE RebootHost

CommandStep == (CommandHost \/ Time \/ Probe \/ Kill) /\ UNCHANGED commandVars

CommandsNext == CommandStep \/ \E a \in Args : Command(a)

(* The host's steps and the probe's happen; that somebody types another    *)
(* command is not promised.                                                *)
CommandsFairness ==
  /\ WF_allVars(CommandHost /\ UNCHANGED commandVars)
  /\ WF_allVars(Time /\ UNCHANGED commandVars)
  /\ WF_allVars(Leave /\ UNCHANGED <<hostVars, flashVars, commandVars>>)
  /\ WF_allVars(Return /\ UNCHANGED <<hostVars, flashVars, commandVars>>)

CommandsSpec == CommandsInit /\ [][CommandsNext]_allVars
FairCommandsSpec == CommandsSpec /\ CommandsFairness

-----------------------------------------------------------------------------
(* A command that reported success leaves the probe in the mode it         *)
(* promises (bmputil-cli.rs:244-271, flasher.rs:142-145), once the probe   *)
(* is back: update and a plain reboot in the firmware, --dfu in the        *)
(* bootloader, --repeat in the mode it did not find it in.  Two things are *)
(* excepted: a probe with half an image has no firmware to start, and      *)
(* --dfu believes a bootloader that is just about to leave.                *)
EndsAsPromised ==
  (result = "ok" /\ bus = "up") =>
    CASE args = "update" -> mode = "Runtime" /\ dev.mode = "Runtime"
      [] args = "dfu" -> early \/ mode = "FirmwareUpgrade"
      [] args = "plain" -> image = "partial" \/ mode = "Runtime"
      [] args = "repeat" -> image = "partial" \/ mode # dev.mode

(* Every command reports, also one that is killed, and a probe that is     *)
(* rebooting when it does is back for good (bmputil-cli.rs:236-272).       *)
ReportsAndReturns ==
  (pc # "done") ~> (pc = "done" /\ bus = "up")

(* A probe whose update was killed or failed, or that was rebooted half    *)
(* written, is not out of reach: whatever other commands are given, if an  *)
(* update of a probe that is there is tried again and again and there are  *)
(* no mishaps any more, the new firmware comes up (flasher.rs:150-179 from *)
(* whatever state the probe was left in).                                  *)
RecoversByUpdate ==
  (<>[][~Mishap]_allVars /\ SF_allVars(bus = "up" /\ Command("update")))
    => <>(image = "new" /\ mode = "Runtime" /\ bus = "up")
=============================================================================
