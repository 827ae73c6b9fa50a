------------------------ MODULE ProbeCommands_proofs ------------------------
(***************************************************************************)
(* Theorems about ProbeCommands, for every timing, image length and set of *)
(* faults.  What an update does was shown of FlashProbe step by step: the  *)
(* steps the commands share with it are taken from there.                  *)
(***************************************************************************)
EXTENDS ProbeCommands, FlashProbe_proofs

(* Every step is one of FlashProbe's, one that only the reboot command     *)
(* takes, or the start of another command.                                 *)
LEMMA StepCases ==
  [CommandsNext]_allVars =>
    \/ /\ [Next]_vars /\ UNCHANGED commandVars
       /\ \/ args = "update"
          \/ GiveUp \/ Waiting \/ Time \/ Probe \/ Kill \/ UNCHANGED vars
    \/ (Start \/ Destroy \/ FoundForReboot) /\ args # "update" /\ UNCHANGED commandVars
    \/ \E a \in Args : Command(a)
BY DEF CommandsNext, CommandStep, CommandHost, RebootHost, Next, Host, allVars

(* Every state of every behaviour has the types CommandsTypeOK gives it.   *)
THEOREM CommandsTypeCorrect == CommandsSpec => []CommandsTypeOK
<1> USE DEF CommandsTypeOK, Args, Reboots, FirstStep
<1>1. CommandsInit => CommandsTypeOK
  <2> SUFFICES ASSUME CommandsInit PROVE CommandsTypeOK
    OBVIOUS
  <2>1. args \in Args /\ early = FALSE /\ ProbeInit /\ HostInit(FirstStep(args)) /\ RunInit
    BY DEF CommandsInit
  <2>2. ProbeTypeOK
    BY <2>1 DEF ProbeInit, ProbeTypeOK, Mode, Bus, Image
  <2>3. HostTypeOK(Labels)
    BY <2>1 DEF HostInit, HostTypeOK, ProbeInit, Opened, Labels, Handle, Mode
  <2>4. TypeOK
    BY <2>1, <2>2, <2>3, Constants DEF RunInit, TypeOK, Results
  <2> QED
    BY <2>1, <2>4
<1>2. CommandsTypeOK /\ [CommandsNext]_allVars => CommandsTypeOK'
  <2> SUFFICES ASSUME CommandsTypeOK, [CommandsNext]_allVars PROVE CommandsTypeOK'
    OBVIOUS
  <2>1. CASE [Next]_vars /\ UNCHANGED commandVars
    BY <2>1, TypeStep DEF commandVars
  <2>2. CASE (Start \/ Destroy \/ FoundForReboot) /\ UNCHANGED commandVars
    <3>0. TypeOK /\ args' \in Args /\ early' \in BOOLEAN
      BY <2>2 DEF commandVars
    <3> USE Constants DEF TypeOK, ProbeTypeOK, HostTypeOK, Labels, WaitLabels, Handle, Mode,
            Bus, Image, Results, probeVars, flashVars, Goto, Finish, Dropped, Opened
    <3>1. CASE Start
      BY <3>0, <3>1 DEF Start, DetachAndSleep, DetachOk, DetachErr, Depart
    <3>2. CASE Destroy
      <4>1. Depart \/ UNCHANGED probeVars
        BY <3>2 DEF Destroy, RequestDetachOk, RequestDetachErr, DetachOk, DetachErr,
           LeaveDfuOk, LeaveDfuErr, ResetOk, ResetErr
      <4>2. ProbeTypeOK'
        BY <3>0, <4>1 DEF Depart
      <4> QED
        BY <3>0, <3>2, <4>2 DEF Destroy
    <3>3. CASE FoundForReboot
      BY <3>0, <3>3 DEF FoundForReboot, Found
    <3> QED
      BY <2>2, <3>1, <3>2, <3>3
  <2>3. CASE \E a \in Args : Command(a)
    <3>1. PICK a \in Args : Command(a)
      BY <2>3
    <3> QED
      BY <3>1, Constants DEF Command, TypeOK, ProbeTypeOK, HostTypeOK, Labels, Handle, Mode,
         Bus, Image, Results, Opened
  <2> QED
    BY <2>1, <2>2, <2>3, StepCases
<1> QED
  BY <1>1, <1>2, PTL DEF CommandsSpec

-----------------------------------------------------------------------------
(* Where a reboot command can be, and what it never has to do with.        *)
ShapeInv ==
  /\ args = "update" => pc \notin {"start", "detach"}
  /\ args # "update" =>
       /\ stage = "detach"
       /\ pc \in WaitLabels \cup {"start", "detach", "done"}
       /\ pc \in WaitLabels => args = "plain"
       /\ pc = "done" <=> result # "none"

(* Until a reboot command has succeeded nothing about the image is         *)
(* promised that an update would not promise.                              *)
CommandImageInv == (args = "update" \/ result # "ok") => ImageInv

CommandInv == ShapeInv /\ CommandImageInv /\ LinkInv

(* Every step keeps CommandInv: an update keeps what FlashProbe keeps, and *)
(* a reboot command touches neither the image nor the download.            *)
LEMMA CommandKept ==
  CommandsTypeOK /\ CommandInv /\ [CommandsNext]_allVars => CommandInv'
<1> USE DEF CommandInv
<1> SUFFICES ASSUME CommandsTypeOK, CommandInv, [CommandsNext]_allVars PROVE CommandInv'
  OBVIOUS
<1>0. /\ TypeOK /\ args \in Args
      /\ dev \in Handle /\ due \in Nat /\ link \in {"live", "dead"}
  BY DEF CommandsTypeOK, TypeOK, HostTypeOK, ProbeTypeOK
<1>1. ASSUME [Next]_vars, UNCHANGED commandVars,
             \/ args = "update"
             \/ GiveUp \/ Waiting \/ Time \/ Probe \/ Kill \/ UNCHANGED vars
      PROVE  CommandInv'
  <2>1. LinkInv'
    BY <1>0, <1>1, LinkStep
  <2>2. CASE args = "update"
    <3>1. ImageInv' /\ args' = "update"
      BY <1>0, <1>1, <2>2, ImageStep DEF CommandImageInv, commandVars
    <3>2. pc' \notin {"start", "detach"}
      <4>1. pc \notin {"start", "detach"}
        BY <2>2 DEF ShapeInv
      <4> USE DEF Goto, Finish
      <4>2. CASE Prepare \/ Download \/ FoundProbe \/ GiveUp \/ Open
        BY <4>2 DEF Prepare, Download, DetachAndSleep, FoundProbe, Found, GiveUp, Open
      <4>3. CASE Erase \/ Write \/ AllWritten
        BY <4>1, <4>3 DEF Erase, Write, AllWritten, DfuError, TransferError
      <4>4. CASE Manifest \/ ClearStatus \/ Reboot \/ Identify
        BY <4>1, <4>4 DEF Manifest, ClearStatus, Reboot, Identify, DfuError,
           TransferError
      <4>5. CASE Waiting \/ Time \/ Probe \/ Kill \/ Rerun \/ UNCHANGED vars
        BY <4>1, <4>5 DEF Waiting, WaitStep, StartWait, NotFound, Nap, LookAgain, Time, Tick,
           Probe, hostVars, Kill, Rerun, vars
      <4> QED
        BY <1>1, <4>2, <4>3, <4>4, <4>5 DEF Next, Host
    <3> QED
      BY <2>1, <3>1, <3>2 DEF ShapeInv, CommandImageInv
  <2>3. CASE args # "update"
    <3> USE DEF hostVars, flashVars, vars, commandVars
    <3>1. /\ stage' = stage /\ args' = args
          /\ \/ pc \in WaitLabels /\ pc' \in WaitLabels /\ result' = result
             \/ pc' = "done" /\ result' \in {"lost", "killed"}
             \/ pc' = pc /\ result' = result
      BY <1>1, <2>3 DEF GiveUp, Waiting, WaitStep, StartWait, NotFound, Nap, LookAgain, Time,
         Tick, Probe, Kill, Finish, WaitLabels
    <3>2. ShapeInv'
      BY <2>3, <3>1 DEF ShapeInv, WaitLabels
    <3>3. CASE result = "ok"
      <4>1. pc = "done" /\ result' = "ok"
        BY <1>1, <2>3, <3>3 DEF ShapeInv, GiveUp, Expired, Waiting, WaitStep, StartWait,
           NotFound, Nap, LookAgain, Time, Tick, Probe, Kill
      <4> QED
        BY <2>1, <2>3, <3>1, <3>2, <4>1 DEF CommandImageInv
    <3>4. CASE result # "ok"
      BY <1>0, <1>1, <2>1, <3>2, <3>4, ImageStep DEF CommandImageInv
    <3> QED
      BY <3>3, <3>4
  <2> QED
    BY <2>2, <2>3
<1>2. ASSUME Start \/ Destroy \/ FoundForReboot, args # "update", UNCHANGED commandVars
      PROVE  CommandInv'
  <2>0. stage = "detach" /\ result = "none"
    BY <1>2 DEF ShapeInv, Start, Destroy, FoundForReboot, Found
  <2>1. /\ pc' \in {"settle", "detach", "done"}
        /\ pc' = "settle" => args = "plain"
        /\ pc' = "done" <=> result' # "none"
        /\ stage' = "detach"
    BY <1>2, <2>0 DEF Start, Destroy, FoundForReboot, Found, DetachAndSleep, Goto, Finish,
       flashVars
  <2>2. ShapeInv'
    BY <1>2, <2>1 DEF ShapeInv, WaitLabels, commandVars
  <2>3. CommandImageInv'
    BY <1>2, <2>1 DEF CommandImageInv, ImageInv, WaitLabels, commandVars
  <2>4. LinkInv'
    <3>1. CASE FoundForReboot
      BY <1>0, <3>1 DEF FoundForReboot, Found, Opened, Listed, LinkInv, CachedModeFresh
    <3>2. CASE Start \/ Destroy
      <4>1. Depart \/ UNCHANGED probeVars
        BY <3>2 DEF Start, Destroy, DetachAndSleep, RequestDetachOk, RequestDetachErr,
           DetachOk, DetachErr, LeaveDfuOk, LeaveDfuErr, ResetOk, ResetErr
      <4>2. dev'.mode = dev.mode
        BY <1>0, <3>2 DEF Start, Destroy, DetachAndSleep, Goto, Finish, Dropped, Handle,
           flashVars
      <4> QED
        BY <4>1, <4>2, Constants DEF Depart, Reachable, LinkInv, CachedModeFresh, probeVars
    <3> QED
      BY <1>2, <3>1, <3>2
  <2> QED
    BY <2>2, <2>3, <2>4
<1>3. ASSUME NEW a \in Args, Command(a) PROVE CommandInv'
  BY <1>0, <1>3 DEF Command, FirstStep, Args, Reboots, Opened, Listed, ShapeInv,
     CommandImageInv, ImageInv, LinkInv, CachedModeFresh, WaitLabels
<1> QED
  BY <1>1, <1>2, <1>3, StepCases

(* CommandInv is inductive (reboot_command, bmputil-cli.rs:236-272).        *)
LEMMA CommandInductive == CommandsSpec => []CommandInv
<1> USE DEF CommandInv
<1>1. CommandsInit => CommandInv
  BY DEF CommandsInit, ProbeInit, HostInit, RunInit, Opened, FirstStep, ShapeInv,
     CommandImageInv, ImageInv, LinkInv, CachedModeFresh, Args, Reboots, WaitLabels
<1>2. CommandsTypeOK /\ CommandInv /\ [CommandsNext]_allVars => CommandInv'
  BY CommandKept
<1> QED
  BY <1>1, <1>2, CommandsTypeCorrect, PTL DEF CommandsSpec

-----------------------------------------------------------------------------
(* A reboot command that is about to detach the probe owns both handles.   *)
RebootHandleInv == HandleInv /\ (pc \in {"start", "detach"} => CanDetach)

(* No command unwraps an Option of BmpDevice that is empty, whatever was   *)
(* done to the probe before: neither an update nor request_detach, which   *)
(* reboot calls in whichever mode the probe was found (bmp.rs:397-399,     *)
(* bmputil-cli.rs:236-272).                                                *)
THEOREM CommandsHoldHandle ==
  CommandsSpec => [](HandleHeld /\ (pc \in {"start", "detach"} => CanDetach))
<1> USE DEF RebootHandleInv, CanDetach
<1>1. CommandsInit => RebootHandleInv
  BY DEF CommandsInit, HostInit, Opened, HandleInv
<1>2. CommandsTypeOK /\ CommandInv /\ RebootHandleInv /\ [CommandsNext]_allVars
        => RebootHandleInv'
  <2> SUFFICES ASSUME CommandsTypeOK, CommandInv, RebootHandleInv, [CommandsNext]_allVars
               PROVE  RebootHandleInv'
    OBVIOUS
  <2>0. TypeOK /\ ShapeInv /\ CommandInv'
    BY CommandKept DEF CommandsTypeOK, CommandInv
  <2>1. ASSUME [Next]_vars, UNCHANGED commandVars,
               \/ args = "update"
               \/ GiveUp \/ Waiting \/ Time \/ Probe \/ Kill \/ UNCHANGED vars
        PROVE  RebootHandleInv'
    <3>1. HandleInv'
      BY <2>0, <2>1, HandleKept
    <3>2. CASE args = "update"
      <4>1. args' = "update"
        BY <2>1, <3>2 DEF commandVars
      <4>2. pc' \notin {"start", "detach"}
        BY <2>0, <4>1 DEF CommandInv, ShapeInv
      <4> QED
        BY <3>1, <4>2
    <3>3. CASE args # "update"
      <4>1. pc' \notin {"start", "detach"} \/ UNCHANGED <<pc, dev>>
        BY <2>1, <3>3 DEF GiveUp, Waiting, WaitStep, StartWait, NotFound, Nap, LookAgain, Time,
           Tick, Probe, hostVars, Kill, Finish, vars
      <4> QED
        BY <3>1, <4>1
    <3> QED
      BY <3>2, <3>3
  <2>2. CASE Start \/ Destroy \/ FoundForReboot
    <3>1. \/ pc' = "detach" /\ dev'.owns = {"device", "interface"}
          \/ pc' \in {"settle", "done"}
      BY <2>2 DEF Start, Destroy, FoundForReboot, Found, Opened, DetachAndSleep, Goto, Finish
    <3> QED
      BY <3>1 DEF HandleInv
  <2>3. ASSUME NEW a \in Args, Command(a) PROVE RebootHandleInv'
    BY <2>3 DEF Command, FirstStep, HandleInv, Opened
  <2> QED
    BY <2>1, <2>2, <2>3, StepCases
<1>3. RebootHandleInv => HandleHeld /\ (pc \in {"start", "detach"} => CanDetach)
  BY DEF HandleInv, HandleHeld
<1> QED
  BY <1>1, <1>2, <1>3, CommandsTypeCorrect, CommandInductive, PTL DEF CommandsSpec

(* What FlashProbe was shown to promise of an update holds of one that     *)
(* comes after any reboots, and the cached mode is fresh in all commands.  *)
THEOREM CommandsKeepPromises ==
  CommandsSpec => [](CachedModeFresh /\ (args = "update" => SuccessMeansFlashed))
<1>1. CommandInv => CachedModeFresh /\ (args = "update" => SuccessMeansFlashed)
  BY DEF CommandInv, CommandImageInv, ImageInv, LinkInv, SuccessMeansFlashed
<1> QED
  BY <1>1, CommandInductive, PTL

-----------------------------------------------------------------------------
(* On a prompt bus the wait of a plain reboot can only end with the        *)
(* bootloader, like that of an update.                                     *)
DepartInv ==
  /\ ModeInv
  /\ (pc = "start" /\ dev.mode = "Runtime" /\ link = "dead") => mode = "FirmwareUpgrade"

(* DepartInv is inductive on a prompt bus: detach_and_enumerate            *)
(* (bmp.rs:431-453) is the same operation in both commands.                *)
LEMMA DepartInductive == ASSUME PromptBus PROVE CommandsSpec => []DepartInv
<1> USE DEF DepartInv
<1>1. CommandsInit => DepartInv
  BY DEF CommandsInit, ProbeInit, HostInit, RunInit, Opened, FirstStep, ModeInv,
     ProgramsBootloader, WaitLabels
<1>2. CommandsTypeOK /\ CommandInv /\ DepartInv /\ [CommandsNext]_allVars => DepartInv'
  <2> SUFFICES ASSUME CommandsTypeOK, CommandInv, DepartInv, [CommandsNext]_allVars
               PROVE  DepartInv'
    OBVIOUS
  <2>0. /\ TypeOK /\ LinkInv /\ ShapeInv /\ CommandImageInv
        /\ dev \in Handle /\ due \in Nat /\ timer \in Nat
        /\ mode \in Mode /\ link \in {"live", "dead"}
    BY DEF CommandsTypeOK, CommandInv, TypeOK, HostTypeOK, ProbeTypeOK
  (* Nothing is promised of a probe no command has to do with.             *)
  <2>a. ASSUME pc' \in {"done", "detach"} PROVE DepartInv'
    BY <2>a DEF ModeInv, ProgramsBootloader, WaitLabels
  <2>1. ASSUME [Next]_vars, UNCHANGED commandVars,
               \/ args = "update"
               \/ GiveUp \/ Waiting \/ Time \/ Probe \/ Kill \/ UNCHANGED vars
        PROVE  DepartInv'
    <3>1. CASE ImageInv
      <4>1. ModeInv'
        BY <2>0, <2>1, <3>1, ModeStep
      <4>2. CASE pc' = "start"
        <5>1. args # "update" /\ pc = "start" /\ (Probe \/ UNCHANGED vars)
          <6>1. CommandInv'
            BY CommandKept
          <6>2. args # "update"
            BY <2>1, <4>2, <6>1 DEF CommandInv, ShapeInv, commandVars
          <6> QED
            BY <2>1, <4>2, <6>2 DEF GiveUp, Waiting, WaitStep, StartWait, NotFound, Nap,
               LookAgain, Time, Tick, Probe, hostVars, Kill, Finish, vars
        <5>2. CASE Probe
          BY <2>0, <4>1, <5>1, <5>2 DEF Probe, ProbeStep, Leave, Return, Unplug, Replug, PromptBus,
             LinkInv, CachedModeFresh, Mode, hostVars
        <5>3. CASE UNCHANGED vars
          BY <4>1, <5>1, <5>3 DEF vars, probeVars, hostVars
        <5> QED
          BY <5>1, <5>2, <5>3
      <4> QED
        BY <4>1, <4>2
    <3>2. CASE ~ImageInv
      <4>1. pc = "done" /\ args # "update" /\ result = "ok"
        BY <2>0, <3>2 DEF CommandImageInv, ShapeInv
      <4> QED
        BY <2>1, <2>a, <4>1 DEF GiveUp, Expired, Waiting, WaitStep, StartWait, NotFound, Nap,
           LookAgain, Time, Tick, Probe, Kill, hostVars, vars
    <3> QED
      BY <3>1, <3>2
  <2>2. CASE Start /\ args # "update"
    <3>1. CASE pc' = "settle"
      <4>1. /\ dev.mode = "Runtime" /\ DetachOk /\ timer' = DetachSettle
            /\ stage' = "detach" /\ pc = "start"
        BY <2>0, <2>2, <3>1 DEF Start, DetachAndSleep, Goto, Finish, flashVars, ShapeInv
      <4>2. Gone("Runtime")'
        <5>1. CASE Depart
          BY <3>1, <4>1, <5>1, Constants DEF Depart, Reachable, LinkInv, CachedModeFresh, Gone,
             PromptBus, CommandInv
        <5>2. CASE ~Reachable /\ UNCHANGED probeVars
          <6>1. CASE link = "dead"
            BY <4>1, <5>2, <6>1, <2>0 DEF Gone, LinkInv, probeVars
          <6>2. CASE link = "live"
            BY <2>0, <3>1, <4>1, <5>2, <6>2, Constants DEF Gone, LinkInv, CachedModeFresh,
               Reachable, PromptBus, probeVars
          <6> QED
            BY <2>0, <6>1, <6>2
        <5> QED
          BY <4>1, <5>1, <5>2 DEF DetachOk, PromptBus
      <4> QED
        BY <3>1, <4>1, <4>2 DEF ModeInv, ProgramsBootloader
    <3>2. CASE pc' # "settle"
      BY <2>2, <2>a, <3>2 DEF Start, DetachAndSleep, Goto, Finish
    <3> QED
      BY <3>1, <3>2
  <2>3. CASE Destroy \/ FoundForReboot
    BY <2>3, <2>a DEF Destroy, FoundForReboot, Found, Finish
  <2>4. ASSUME NEW a \in Args, Command(a) PROVE DepartInv'
    BY <2>0, <2>4 DEF Command, FirstStep, Opened, ModeInv, ProgramsBootloader, WaitLabels
  <2> QED
    BY <2>1, <2>2, <2>3, <2>4, StepCases
<1> QED
  BY <1>1, <1>2, CommandsTypeCorrect, CommandInductive, PTL DEF CommandsSpec

(* On a prompt bus no order of commands makes an update open or write to a *)
(* probe that is not in its bootloader.                                    *)
THEOREM CommandsProgramBootloader ==
  ASSUME PromptBus PROVE CommandsSpec => []ProgramsBootloader
<1>1. DepartInv => ProgramsBootloader
  BY DEF DepartInv, ModeInv
<1> QED
  BY <1>1, DepartInductive, PTL

-----------------------------------------------------------------------------
(* The mode a probe is in once it has left, if it is about to.             *)
Ends(m) ==
  m = IF bus # "leaving" THEN mode
      ELSE IF mode = "Runtime" THEN "FirmwareUpgrade" ELSE BootMode

(* What success stands for, also while the probe is away.                  *)
Promise ==
  /\ args = "update" => dev.mode = "Runtime" /\ mode = "Runtime" /\ bus # "leaving"
  /\ args = "dfu" => early \/ Ends("FirmwareUpgrade")
  /\ args = "plain" => image = "partial" \/ Ends("Runtime")
  /\ args = "repeat" => image = "partial" \/ \E m \in Mode \ {dev.mode} : Ends(m)

(* A handle that no longer reaches the probe was opened on what the probe  *)
(* was before it left; one that a command has just been given, on a probe  *)
(* that stays unless the command was early.                                *)
PromiseInv ==
  /\ args = "update" => RuntimeInv
  /\ (pc \in {"start", "detach"} /\ link = "dead") =>
       mode = IF dev.mode = "Runtime" THEN "FirmwareUpgrade" ELSE BootMode
  /\ (pc = "start" /\ ~early) => link = "live" /\ bus = "up"
  /\ pc = "detach" =>
       <<args, dev.mode>> \notin {<<"dfu", "FirmwareUpgrade">>, <<"plain", "Runtime">>}
  /\ pc = "identify" => mode = "Runtime" /\ bus # "leaving"
  /\ result = "ok" => Promise

(* On a prompt bus a request_detach that succeeds sends the probe into the *)
(* other mode, or finds it on its way there (bmp.rs:320-428).              *)
LEMMA DetachEnds ==
  ASSUME PromptBus, "badimage" \notin Faults, TypeOK, LinkInv, RequestDetachOk,
         link = "dead" =>
           mode = IF dev.mode = "Runtime" THEN "FirmwareUpgrade" ELSE BootMode
  PROVE  /\ image' = image
         /\ dev.mode = "Runtime" => Ends("FirmwareUpgrade")'
         /\ dev.mode = "FirmwareUpgrade" => image = "partial" \/ Ends("Runtime")'
<1>0. dev.mode \in Mode /\ mode \in Mode /\ link \in {"live", "dead"} /\ image \in Image
  BY DEF TypeOK, HostTypeOK, ProbeTypeOK, Handle
<1>1. Depart \/ (~Reachable /\ UNCHANGED probeVars)
  BY DEF RequestDetachOk, LeaveDfuOk, DetachOk, ResetOk, PromptBus
<1>2. CASE Depart
  <2>1. dev.mode = mode /\ bus' = "leaving" /\ mode' = mode /\ image' = image
    BY <1>2 DEF Depart, Reachable, LinkInv, CachedModeFresh
  <2> QED
    BY <1>0, <2>1 DEF Ends, BootMode, Image, Mode
<1>3. CASE ~Reachable /\ UNCHANGED probeVars
  <2>1. CASE link = "live"
    <3>1. bus = "leaving" /\ dev.mode = mode
      BY <1>3, <2>1 DEF Reachable, LinkInv, CachedModeFresh
    <3> QED
      BY <1>0, <1>3, <3>1 DEF Ends, BootMode, Image, Mode, probeVars
  <2>2. CASE link = "dead"
    <3>1. bus # "leaving"
      BY <2>2 DEF LinkInv
    <3> QED
      BY <1>0, <1>3, <2>2, <3>1 DEF Ends, BootMode, Image, Mode, probeVars
  <2> QED
    BY <1>0, <2>1, <2>2
<1> QED
  BY <1>1, <1>2, <1>3

(* What the probe's own steps on a prompt bus leave as it is.              *)
LEMMA EndsKept ==
  ASSUME PromptBus, TypeOK, LinkInv, ProbeStep \/ UNCHANGED probeVars
  PROVE  /\ image' = image
         /\ \A m \in Mode : Ends(m) => Ends(m)'
         /\ bus # "leaving" => mode' = mode /\ bus' # "leaving"
         /\ link = "dead" => link' = "dead"
         /\ link' = "dead" /\ link = "live" =>
              /\ dev.mode = mode
              /\ mode' = IF mode = "Runtime" THEN "FirmwareUpgrade" ELSE BootMode
         /\ bus = "up" => bus' = "up" /\ link' = link
<1>0. mode \in Mode /\ link \in {"live", "dead"}
  BY DEF TypeOK, ProbeTypeOK
<1>1. CASE Leave
  BY <1>0, <1>1 DEF Leave, Ends, BootMode, LinkInv, CachedModeFresh
<1>2. CASE Return
  BY <1>0, <1>2 DEF Return, Ends, BootMode
<1>3. CASE UNCHANGED probeVars
  BY <1>0, <1>3 DEF probeVars, Ends, BootMode
<1> QED
  BY <1>1, <1>2, <1>3 DEF ProbeStep, Unplug, Replug, PromptBus

(* PromiseInv is inductive on a prompt bus with firmware that starts.      *)
LEMMA PromiseInductive ==
  ASSUME PromptBus, "badimage" \notin Faults PROVE CommandsSpec => []PromiseInv
<1> USE DEF PromiseInv
<1>1. CommandsInit => PromiseInv
  BY DEF CommandsInit, ProbeInit, HostInit, RunInit, Opened, FirstStep, RuntimeInv,
     SuccessMeansRuntime, WaitLabels
<1>2. CommandsTypeOK /\ CommandInv /\ DepartInv /\ PromiseInv /\ [CommandsNext]_allVars
        => PromiseInv'
  <2> SUFFICES ASSUME CommandsTypeOK, CommandInv, DepartInv, PromiseInv,
                      [CommandsNext]_allVars
               PROVE  PromiseInv'
    OBVIOUS
  <2>0. /\ TypeOK /\ LinkInv /\ ShapeInv /\ CommandImageInv /\ ModeInv /\ CommandInv'
        /\ dev \in Handle /\ mode \in Mode /\ link \in {"live", "dead"}
        /\ stage \in {"detach", "verify"} /\ early \in BOOLEAN
    BY CommandKept DEF CommandsTypeOK, CommandInv, DepartInv, TypeOK, HostTypeOK, ProbeTypeOK
  <2>1. ASSUME [Next]_vars, UNCHANGED commandVars, args = "update" PROVE PromiseInv'
    <3>1. /\ ImageInv /\ ImageInv' /\ RuntimeInv /\ RuntimeInv'
          /\ args' = "update" /\ pc' \notin {"start", "detach"}
      BY <2>0, <2>1, RuntimeStep
         DEF CommandInv, CommandImageInv, ShapeInv, commandVars
    <3>2. CASE Probe \/ UNCHANGED vars
      <4>1. ProbeStep \/ UNCHANGED probeVars
        BY <3>2 DEF Probe, vars
      <4>2. pc' = pc /\ dev' = dev /\ result' = result
        BY <3>2 DEF Probe, vars, hostVars, flashVars
      <4>3. bus # "leaving" => mode' = mode /\ bus' # "leaving"
        BY <2>0, <4>1, EndsKept
      <4> QED
        BY <2>1, <3>1, <4>2, <4>3 DEF Promise
    <3>3. CASE FoundProbe
      <4>1. pc' = "identify" => stage = "verify" /\ pc = "poll"
        BY <2>0, <3>3 DEF FoundProbe, Found
      <4>2. pc' = "identify" => mode' = "Runtime" /\ bus' # "leaving"
        BY <2>0, <3>1, <3>3, <4>1 DEF RuntimeInv, Gone, WaitLabels, FoundProbe, Found, Mode
      <4>3. result' # "ok"
        BY <3>1, <3>3 DEF ImageInv, FoundProbe, Found
      <4> QED
        BY <3>1, <4>2, <4>3
    <3>4. CASE Identify
      <4>1. pc' = "done" /\ UNCHANGED probeVars /\ dev' = Dropped(dev) /\ pc = "identify"
        BY <3>4 DEF Identify, Finish
      <4>2. dev.mode = "Runtime" /\ mode' = "Runtime" /\ bus' # "leaving"
        BY <3>1, <4>1 DEF RuntimeInv, probeVars
      <4>3. dev'.mode = "Runtime"
        BY <2>0, <4>1, <4>2 DEF Dropped, Handle
      <4> QED
        BY <3>1, <4>1, <4>2, <4>3 DEF Promise
    <3>5. ASSUME pc' # "identify", result' # "ok" PROVE PromiseInv'
      BY <3>1, <3>5
    <3> USE DEF Goto, Finish
    <3>6. CASE Prepare \/ Download \/ GiveUp \/ Open
      BY <3>1, <3>5, <3>6 DEF ImageInv, Prepare, Download, DetachAndSleep, GiveUp, Expired,
         Open, flashVars
    <3>7. CASE Erase \/ Write \/ AllWritten
      BY <3>1, <3>5, <3>7 DEF ImageInv, Erase, Write, AllWritten, DfuError, TransferError
    <3>8. CASE Manifest \/ ClearStatus \/ Reboot
      BY <3>1, <3>5, <3>8 DEF ImageInv, Manifest, ClearStatus, Reboot,
         DfuError, TransferError
    <3>9. CASE Waiting \/ Time \/ Kill \/ Rerun
      BY <3>1, <3>5, <3>9 DEF ImageInv, Waiting, WaitStep, StartWait, NotFound, Nap,
         LookAgain, Time, Tick, Kill, Rerun, flashVars
    <3> QED
      BY <2>1, <3>2, <3>3, <3>4, <3>6, <3>7, <3>8, <3>9 DEF Next, Host
  <2>2. ASSUME args # "update", UNCHANGED commandVars,
               GiveUp \/ Waiting \/ Time \/ Probe \/ Kill \/ UNCHANGED vars
        PROVE  PromiseInv'
    <3>1. args' = args /\ early' = early
      BY <2>2 DEF commandVars
    <3>2. CASE Probe \/ UNCHANGED vars
      <4>1. ProbeStep \/ UNCHANGED probeVars
        BY <3>2 DEF Probe, vars
      <4>2. pc' = pc /\ dev' = dev /\ result' = result
        BY <3>2 DEF Probe, vars, hostVars, flashVars
      <4>3. pc # "identify"
        BY <2>2, <2>0 DEF ShapeInv, WaitLabels
      <4>4. result = "ok" => Promise'
        BY <2>0, <2>2, <3>1, <4>1, <4>2, EndsKept DEF Promise, Mode
      <4>5. (pc = "start" /\ ~early) => link' = "live" /\ bus' = "up"
        BY <2>0, <4>1, EndsKept
      <4>6. (pc \in {"start", "detach"} /\ link' = "dead") =>
              mode' = IF dev.mode = "Runtime" THEN "FirmwareUpgrade" ELSE BootMode'
        <5>1. BootMode' = BootMode
          BY <2>0, <4>1, EndsKept DEF BootMode
        <5>2. CASE link = "live"
          BY <2>0, <4>1, <5>1, <5>2, EndsKept
        <5>3. CASE link = "dead"
          <6>1. bus # "leaving"
            BY <5>3, <2>0 DEF LinkInv
          <6> QED
            BY <2>0, <4>1, <5>1, <5>3, <6>1, EndsKept
        <5> QED
          BY <2>0, <5>2, <5>3
      <4> QED
        BY <2>2, <3>1, <4>2, <4>3, <4>4, <4>5, <4>6
    <3>3. CASE GiveUp \/ Waiting \/ Time \/ Kill
      <4>1. pc' \in WaitLabels \cup {"done"} /\ result' # "ok"
        BY <2>0, <2>2, <3>3 DEF ShapeInv, GiveUp, Expired, Waiting, WaitStep, StartWait,
           NotFound, Nap, LookAgain, Time, Tick, Kill, Finish, WaitLabels, flashVars
      <4> QED
        BY <2>2, <3>1, <4>1 DEF WaitLabels
    <3> QED
      BY <2>2, <3>2, <3>3
  <2>3. ASSUME Start, args # "update", UNCHANGED commandVars PROVE PromiseInv'
    <3>0. /\ args' = args /\ early' = early /\ pc = "start" /\ result = "none"
      BY <2>0, <2>3 DEF commandVars, Start, ShapeInv
    <3>1. CASE <<args, dev.mode>> = <<"dfu", "FirmwareUpgrade">>
      <4>1. result' = "ok" /\ pc' = "done" /\ UNCHANGED probeVars
        BY <2>3, <3>1 DEF Start, Finish
      <4>2. early \/ (mode = "FirmwareUpgrade" /\ bus = "up")
        BY <2>0, <3>0, <3>1 DEF LinkInv, CachedModeFresh
      <4> QED
        BY <2>3, <3>0, <3>1, <4>1, <4>2 DEF Promise, Ends, probeVars
    <3>2. CASE <<args, dev.mode>> = <<"plain", "Runtime">>
      <4>1. pc' \in {"settle", "done"} /\ result' # "ok"
        BY <2>3, <3>0, <3>2 DEF Start, DetachAndSleep, Finish, flashVars
      <4> QED
        BY <2>3, <3>0, <4>1
    <3>3. CASE <<args, dev.mode>> \notin {<<"dfu", "FirmwareUpgrade">>, <<"plain", "Runtime">>}
      <4>1. pc' = "detach" /\ dev' = dev /\ result' = result /\ UNCHANGED probeVars
        BY <2>3, <3>3 DEF Start, Goto
      <4> QED
        BY <2>3, <3>0, <3>3, <4>1 DEF probeVars, BootMode
    <3> QED
      BY <3>1, <3>2, <3>3
  <2>4. ASSUME Destroy, args # "update", UNCHANGED commandVars PROVE PromiseInv'
    <3>0. args' = args /\ early' = early /\ pc = "detach" /\ pc' = "done"
      BY <2>4 DEF commandVars, Destroy, Finish
    <3>1. CASE RequestDetachOk /\ Finish("ok")
      <4>1. /\ image' = image
            /\ dev.mode = "Runtime" => Ends("FirmwareUpgrade")'
            /\ dev.mode = "FirmwareUpgrade" => image = "partial" \/ Ends("Runtime")'
        BY <2>0, <3>0, <3>1, DetachEnds
      <4>2. dev'.mode = dev.mode /\ dev.mode \in Mode
        BY <2>0, <3>1 DEF Finish, Dropped, Handle
      <4>3. Promise'
        BY <2>4, <3>0, <4>1, <4>2 DEF Promise, Mode
      <4> QED
        BY <2>4, <3>0, <4>3
    <3>2. CASE Finish("error")
      BY <2>4, <3>0, <3>2 DEF Finish
    <3> QED
      BY <2>4, <3>1, <3>2 DEF Destroy
  <2>5. ASSUME FoundForReboot, args # "update", UNCHANGED commandVars PROVE PromiseInv'
    <3>1. args = "plain" /\ mode = "FirmwareUpgrade"
      BY <2>0, <2>5 DEF ShapeInv, FoundForReboot, Found, WaitLabels, ModeInv, Gone, Mode
    <3>2. pc' = "detach" /\ link' = "live" /\ dev'.mode = "FirmwareUpgrade" /\ result' # "ok"
      BY <2>0, <2>5, <3>1 DEF ShapeInv, FoundForReboot, Found, Opened, flashVars, WaitLabels
    <3> QED
      BY <2>5, <3>1, <3>2 DEF commandVars
  <2>6. ASSUME NEW a \in Args, Command(a) PROVE PromiseInv'
    <3>1. /\ pc' = FirstStep(a) /\ link' = "live" /\ result' = "none" /\ stage' = "detach"
          /\ ~early' => bus' = "up"
      BY <2>6 DEF Command, Listed
    <3>2. RuntimeInv' \/ pc' # "prepare"
      BY <3>1 DEF RuntimeInv, SuccessMeansRuntime, WaitLabels
    <3> QED
      BY <2>6, <3>1, <3>2 DEF Command, FirstStep
  <2> QED
    BY <2>1, <2>2, <2>3, <2>4, <2>5, <2>6, StepCases
<1> QED
  BY <1>1, <1>2, CommandsTypeCorrect, CommandInductive, DepartInductive, PTL DEF CommandsSpec

(* On a prompt bus with firmware that starts, every command that reported  *)
(* success leaves the probe in the mode it promises.                       *)
THEOREM CommandsEndAsPromised ==
  ASSUME PromptBus, "badimage" \notin Faults PROVE CommandsSpec => []EndsAsPromised
<1>1. CommandsTypeOK /\ PromiseInv => EndsAsPromised
  BY DEF CommandsTypeOK, Args, Reboots, TypeOK, ProbeTypeOK, PromiseInv, Promise, Ends,
     EndsAsPromised
<1> QED
  BY <1>1, CommandsTypeCorrect, PromiseInductive, PTL

-----------------------------------------------------------------------------
(* ReturnInv is inductive on a punctual bus for every order of commands:   *)
(* a reboot sleeps as long before it looks as an update does               *)
(* (bmp.rs:431-453).                                                       *)
LEMMA CommandsReturnInductive == ASSUME PunctualBus PROVE CommandsSpec => []ReturnInv
<1> USE DEF WaitLabels
<1>1. CommandsInit => ReturnInv
  BY Constants DEF CommandsInit, ProbeInit, HostInit, RunInit, FirstStep, ReturnInv,
     ReturnedIsFound
<1>2. CommandsTypeOK /\ CommandInv /\ ReturnInv /\ [CommandsNext]_allVars => ReturnInv'
  <2> SUFFICES ASSUME CommandsTypeOK, CommandInv, ReturnInv, [CommandsNext]_allVars
               PROVE  ReturnInv'
    OBVIOUS
  <2>0. /\ TypeOK /\ LinkInv /\ ShapeInv /\ CommandImageInv
        /\ due \in Nat /\ bus \in Bus
    BY DEF CommandsTypeOK, CommandInv, TypeOK, ProbeTypeOK
  (* A host that is not waiting has made no promise.                       *)
  <2>a. ASSUME pc' \notin WaitLabels, result' # "lost", Depart \/ UNCHANGED <<bus, due>>
        PROVE  ReturnInv'
    BY <2>a, <2>0 DEF Depart, ReturnInv, ReturnedIsFound
  <2>1. ASSUME [Next]_vars, UNCHANGED commandVars,
               \/ args = "update"
               \/ GiveUp \/ Waiting \/ Time \/ Probe \/ Kill \/ UNCHANGED vars
        PROVE  ReturnInv'
    <3>1. CASE ImageInv
      BY <2>0, <2>1, <3>1, ReturnStep
    <3>2. CASE ~ImageInv
      <4>1. pc = "done" /\ result = "ok" /\ args # "update"
        BY <2>0, <3>2 DEF CommandImageInv, ShapeInv
      <4>2. /\ Probe \/ UNCHANGED vars
            /\ pc' = "done" /\ result' = "ok"
        BY <2>1, <4>1 DEF GiveUp, Expired, Waiting, WaitStep, StartWait, NotFound, Nap,
           LookAgain, Time, Tick, Kill, Probe, hostVars, flashVars, vars
      <4>3. CASE UNCHANGED <<bus, due>>
        BY <2>a, <4>2, <4>3
      <4>4. CASE ~UNCHANGED <<bus, due>>
        <5>1. bus' # "lost" /\ (bus' = "away" => due' <= MaxAway)
          BY <4>2, <4>4, Constants
             DEF Probe, ProbeStep, Leave, Return, Unplug, Replug, PunctualBus, vars, probeVars
        <5> QED
          BY <4>2, <5>1 DEF ReturnInv, ReturnedIsFound
      <4> QED
        BY <4>3, <4>4
    <3> QED
      BY <3>1, <3>2
  <2>2. CASE Start /\ args # "update"
    <3>0. stage = "detach" /\ result = "none"
      BY <2>0, <2>2 DEF ShapeInv, Start
    <3>1. Depart \/ UNCHANGED probeVars
      BY <2>2 DEF Start, DetachAndSleep, DetachOk, DetachErr
    <3>2. CASE pc' = "settle"
      <4>1. timer' = DetachSettle /\ stage' = "detach" /\ result' = "none"
        BY <2>2, <3>0, <3>2 DEF Start, DetachAndSleep, Goto, Finish, flashVars
      <4>2. /\ bus' = "leaving" => due' <= MaxLeave /\ due' \in Nat
            /\ bus' # "lost" /\ (bus' = "away" => due' <= MaxAway /\ due' \in Nat)
        BY <2>0, <3>1, Constants DEF Depart, LinkInv, probeVars, ReturnInv
      <4> QED
        BY <3>2, <4>1, <4>2, Constants DEF ReturnInv, ReturnedIsFound, Settle, Passed, Remaining
    <3>3. CASE pc' # "settle"
      BY <2>2, <2>a, <3>0, <3>1, <3>3
         DEF Start, DetachAndSleep, Goto, Finish, probeVars
    <3> QED
      BY <3>2, <3>3
  <2>3. CASE Destroy /\ args # "update"
    <3>1. Depart \/ UNCHANGED probeVars
      BY <2>3 DEF Destroy, RequestDetachOk, RequestDetachErr, DetachOk, DetachErr,
         LeaveDfuOk, LeaveDfuErr, ResetOk, ResetErr
    <3> QED
      BY <2>3, <2>a, <3>1 DEF Destroy, Finish, probeVars
  <2>4. CASE FoundForReboot
    BY <2>0, <2>4, <2>a DEF FoundForReboot, Found, flashVars, ReturnInv, ReturnedIsFound
  <2>5. ASSUME NEW a \in Args, Command(a) PROVE ReturnInv'
    BY <2>5, <2>a DEF Command, FirstStep
  <2> QED
    BY <2>1, <2>2, <2>3, <2>4, <2>5, StepCases
<1> QED
  BY <1>1, <1>2, CommandsTypeCorrect, CommandInductive, PTL DEF CommandsSpec

(* No order of commands reports a probe lost that is back within the sleep *)
(* and the timeout.                                                        *)
THEOREM CommandsReturningIsFound ==
  ASSUME PunctualBus PROVE CommandsSpec => []ReturnedIsFound
<1>1. ReturnInv => ReturnedIsFound
  BY DEF ReturnInv
<1> QED
  BY <1>1, CommandsReturnInductive, PTL

-----------------------------------------------------------------------------
(* The wait of every command is the same one.                              *)
LEMMA CommandsWaitInductive == CommandsSpec => []WaitInv
<1>1. CommandsInit => WaitInv
  BY Constants DEF CommandsInit, HostInit, WaitInv, WaitBounded, FirstStep
<1>2. CommandsTypeOK /\ WaitInv /\ [CommandsNext]_allVars => WaitInv'
  <2> SUFFICES ASSUME CommandsTypeOK, WaitInv, [CommandsNext]_allVars PROVE WaitInv'
    OBVIOUS
  <2>0. TypeOK
    BY DEF CommandsTypeOK
  <2>1. CASE [Next]_vars
    BY <2>0, <2>1, WaitKept
  <2>2. CASE Start \/ Destroy \/ FoundForReboot
    <3>1. elapsed' = elapsed /\ pc' # "nap"
      BY <2>2 DEF Start, Destroy, FoundForReboot, Found, DetachAndSleep, Goto, Finish
    <3> QED
      BY <3>1 DEF WaitInv, WaitBounded
  <2>3. ASSUME NEW a \in Args, Command(a) PROVE WaitInv'
    BY <2>3, Constants DEF Command, FirstStep, WaitInv, WaitBounded
  <2> QED
    BY <2>1, <2>2, <2>3, StepCases
<1> QED
  BY <1>1, <1>2, CommandsTypeCorrect, PTL DEF CommandsSpec

(* No wait of any command, after whatever commands came before it, lasts   *)
(* longer than the timeout and one poll.                                   *)
THEOREM CommandsWaitIsBounded == CommandsSpec => []WaitBounded
<1>1. WaitInv => WaitBounded
  BY DEF WaitInv
<1> QED
  BY <1>1, CommandsWaitInductive, PTL

(* The steps only the reboot command takes are among those it had left.    *)
LEMMA RebootAdvances ==
  ASSUME TypeOK, WaitInv, TypeOK', StepsInv, StepsInv',
         Start \/ Destroy \/ FoundForReboot
  PROVE  Advances
<1>0. /\ StepsLeft \in Nat /\ StepsLeft' \in Nat /\ (pc # "done" => StepsLeft > 0)
      /\ timer' \in Nat /\ stage \in {"detach", "verify"}
  BY DEF StepsInv, TypeOK, HostTypeOK
<1>a. pc # "done"
  BY DEF Start, Destroy, FoundForReboot, Found
<1>b. ASSUME pc' = "done" PROVE Advances
  <2>1. StepsLeft' = 0
    BY <1>b DEF StepsLeft, WaitLabels
  <2> QED
    BY <1>0, <1>a, <2>1 DEF Advances
<1>c. SUFFICES ASSUME pc' # "done" PROVE StepsLeft' < StepsLeft
  BY <1>0, <1>b DEF Advances
<1> USE Constants DEF StepsLeft, WholeWait, AfterDownload, Tries, OneTry, WaitLabels
<1>1. CASE Start
  BY <1>c, <1>0, <1>1 DEF Start, DetachAndSleep, Goto, Finish, flashVars, WaitLeft
<1>2. CASE Destroy
  BY <1>c, <1>2 DEF Destroy, Finish
<1>3. CASE FoundForReboot
  BY <1>0, <1>3, WaitEnds DEF FoundForReboot, Found, flashVars
<1> QED
  BY <1>1, <1>2, <1>3

(* Every command is over after at most as many steps as it had left when   *)
(* it began, in whatever state the commands before it left the probe       *)
(* (bmputil-cli.rs:236-272): only the next command starts a new count.     *)
THEOREM CommandStepsBounded ==
  CommandsSpec =>
    [][(\E a \in Args : Command(a)) \/ Advances \/ (Probe /\ StepsLeft' = StepsLeft)]_allVars
<1> DEFINE OtherCommand == \E a \in Args : Command(a)
           Goes == OtherCommand \/ Advances \/ (Probe /\ StepsLeft' = StepsLeft)
<1>1. CommandsTypeOK /\ WaitInv /\ CommandsTypeOK' /\ StepsInv /\ StepsInv'
        /\ [CommandsNext]_allVars => [Goes]_allVars
  <2> SUFFICES ASSUME CommandsTypeOK, WaitInv, CommandsTypeOK', StepsInv, StepsInv',
                      CommandsNext
               PROVE  Goes
    OBVIOUS
  <2>0. TypeOK /\ TypeOK'
    BY DEF CommandsTypeOK
  <2>1. CASE Host \/ Time \/ Kill
    BY <2>0, <2>1, HostAdvances
  <2>2. CASE Start \/ Destroy \/ FoundForReboot
    BY <2>0, <2>2, RebootAdvances
  <2>3. CASE Probe
    BY <2>3, ProbeAside
  <2> QED
    BY <2>1, <2>2, <2>3 DEF CommandsNext, CommandStep, CommandHost, RebootHost, Host
<1>2. CommandsTypeOK /\ WaitInv => StepsInv
  BY StepsCount DEF CommandsTypeOK
<1> QED
  BY <1>1, <1>2, CommandsTypeCorrect, CommandsWaitInductive, PTL DEF CommandsSpec
=============================================================================
