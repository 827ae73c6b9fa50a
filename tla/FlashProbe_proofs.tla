-------------------------- MODULE FlashProbe_proofs -------------------------
(***************************************************************************)
(* Theorems about FlashProbe, for every number of blocks, every length of  *)
(* the sleeps and the timeout, and every set of faults.                    *)
(***************************************************************************)
EXTENDS FlashProbe, TLAPS

(* The assumptions on the constants, as the proofs cite them.              *)
LEMMA Constants ==
  /\ MaxLeave \in Nat /\ MaxAway \in Nat
  /\ DetachSettle \in Nat /\ RebootSettle \in Nat
  /\ PollInterval \in Nat \ {0} /\ Timeout \in Nat
  /\ ImageLen \in Nat \ {0}
BY ProbeAssumption, DeviceAssumption, FlashAssumption

(* Every step keeps the types.                                             *)
LEMMA TypeStep ==
  TypeOK /\ [Next]_vars => TypeOK'
<1> USE Constants DEF TypeOK, ProbeTypeOK, HostTypeOK, Labels, WaitLabels,
        Handle, Mode, Bus, Image, Results
<1> SUFFICES ASSUME TypeOK, [Next]_vars PROVE TypeOK'
  OBVIOUS
<1> USE DEF probeVars, hostVars, flashVars, Goto, Finish, Dropped, Opened
<1>1. CASE Prepare
  BY <1>1 DEF Prepare
<1>2. CASE Download
  BY <1>2 DEF Download, DetachAndSleep, DetachOk, DetachErr, Depart
<1>3. CASE FoundProbe
  BY <1>3 DEF FoundProbe, Found
<1>4. CASE GiveUp
  BY <1>4 DEF GiveUp, Expired
<1>5. CASE Open
  BY <1>5 DEF Open
<1>6. CASE Erase
  BY <1>6 DEF Erase, SetImage, DfuError, TransferError
<1>7. CASE Write
  BY <1>7 DEF Write, SetImage, DfuError, TransferError
<1>8. CASE AllWritten
  BY <1>8 DEF AllWritten
<1>9. CASE Manifest
  BY <1>9 DEF Manifest, Depart, DfuError, TransferError
<1>10. CASE ClearStatus
  BY <1>10 DEF ClearStatus, TransferError
<1>11. CASE Reboot
  <2>1. Depart \/ UNCHANGED probeVars
    BY <1>11 DEF Reboot, RebootOk, RebootErr, ResetOk, ResetErr, DetachOk, DetachErr
  <2>2. ProbeTypeOK'
    BY <2>1 DEF Depart
  <2> QED
    BY <1>11, <2>2 DEF Reboot
<1>12. CASE Identify
  BY <1>12 DEF Identify
<1>13. CASE Waiting
  <2>1. ProbeTypeOK' /\ UNCHANGED flashVars /\ UNCHANGED dev
    BY <1>13 DEF Waiting, WaitStep, StartWait, NotFound, Nap, LookAgain
  <2>2. pc' \in WaitLabels /\ timer' \in Nat /\ elapsed' \in Nat
    BY <1>13 DEF Waiting, WaitStep, StartWait, NotFound, Nap, LookAgain
  <2> QED
    BY <2>1, <2>2
<1>14. CASE Time
  BY <1>14 DEF Time, Tick, ProbeTick
<1>15. CASE Probe
  <2>1. ProbeTypeOK'
    <3>1. CASE Leave
      BY <3>1 DEF Leave, BootMode
    <3>2. CASE Return
      BY <3>2 DEF Return
    <3>3. CASE Unplug
      BY <3>3 DEF Unplug, BootMode
    <3>4. CASE Replug
      BY <3>4 DEF Replug, BootMode
    <3> QED
      BY <1>15, <3>1, <3>2, <3>3, <3>4 DEF Probe, ProbeStep
  <2> QED
    BY <1>15, <2>1 DEF Probe
<1>16. CASE Kill
  BY <1>16 DEF Kill
<1>17. CASE Rerun
  BY <1>17 DEF Rerun
<1>18. CASE UNCHANGED vars
  BY <1>18 DEF vars
<1> QED
  BY <1>1, <1>2, <1>3, <1>4, <1>5, <1>6, <1>7, <1>8, <1>9, <1>10, <1>11,
     <1>12, <1>13, <1>14, <1>15, <1>16, <1>17, <1>18 DEF Next, Host

(* Every state of every behaviour has the types TypeOK gives it.           *)
THEOREM TypeCorrect == Spec => []TypeOK
<1> USE Constants DEF TypeOK, ProbeTypeOK, HostTypeOK, Labels, WaitLabels,
        Handle, Mode, Bus, Image, Results
<1>1. Init => TypeOK
  BY DEF Init, ProbeInit, HostInit, RunInit, Opened
<1>2. TypeOK /\ [Next]_vars => TypeOK'
  BY TypeStep
<1> QED
  BY <1>1, <1>2, PTL DEF Spec

-----------------------------------------------------------------------------
(* The wait: a nap only starts while the timeout has not passed, and ends  *)
(* after one poll interval.                                                *)
WaitInv ==
  /\ WaitBounded
  /\ pc = "nap" => elapsed + timer <= Timeout + PollInterval

(* The image: the download counts blocks that are in flash, and only a     *)
(* whole image gets past it, to the reboot and to success.                 *)
ImageInv ==
  /\ pc = "write" => image = IF written = ImageLen THEN "new" ELSE "partial"
  /\ pc \in {"manifest", "reboot"} => image = "new"
  /\ stage = "verify" => image = "new"
  /\ stage = "verify" => pc \in WaitLabels \cup {"identify", "done"}
  /\ pc = "identify" => stage = "verify"
  /\ result = "ok" => stage = "verify"
  /\ pc = "done" <=> result # "none"

(* The link: a probe departs only through a live handle and takes it away  *)
(* when it goes, and a reachable probe runs what its handle says.          *)
LinkInv ==
  /\ CachedModeFresh
  /\ link = "live" => bus \in {"up", "leaving"}
  /\ bus = "leaving" => link = "live" /\ due <= MaxLeave

(* A bus on which no probe outstays the sleeps meant to let it go, and     *)
(* none refuses to detach or is pulled and plugged in again.               *)
PromptBus ==
  /\ MaxLeave < DetachSettle
  /\ MaxLeave < RebootSettle
  /\ Faults \cap {"stall", "unplug"} = {}

(* A probe that was sent off in mode m is on its way, with less time left  *)
(* than the host sleeps, or has gone and is the other thing now.           *)
Gone(m) ==
  \/ mode # m /\ bus # "leaving"
  \/ mode = m /\ bus = "leaving" /\ pc = "settle" /\ timer > due

(* On a prompt bus the wait of a detach can only end with the bootloader.  *)
ModeInv ==
  /\ ProgramsBootloader
  /\ (pc \in {"prepare", "download"} /\ dev.mode = "Runtime" /\ link = "dead")
       => mode = "FirmwareUpgrade"
  /\ (pc \in WaitLabels /\ stage = "detach") => Gone("Runtime")

(* With firmware that starts, the wait after the reboot can only end with  *)
(* that firmware.                                                          *)
RuntimeInv ==
  /\ (pc = "reboot" /\ link = "dead") => mode = "Runtime"
  /\ (pc = "reboot" /\ attrs = {"tolerant", "willDetach"})
       => link = "dead" \/ bus = "leaving"
  /\ (pc \in WaitLabels /\ stage = "verify") => Gone("FirmwareUpgrade")
  /\ pc = "identify" => dev.mode = "Runtime"
  /\ SuccessMeansRuntime

(* A bus that gives a probe back within the time the host looks for it.    *)
PunctualBus ==
  /\ MaxLeave + MaxAway <= DetachSettle + Timeout
  /\ MaxLeave + MaxAway <= RebootSettle + Timeout
  /\ Faults \cap {"deny", "vanish", "unplug"} = {}

Settle == IF stage = "detach" THEN DetachSettle ELSE RebootSettle
Passed == IF pc = "settle" THEN Settle - timer ELSE Settle + elapsed
Remaining == due + (IF bus = "leaving" THEN MaxAway ELSE 0)

(* What the probe still needs and what the host has waited add up to no    *)
(* more than a reboot takes.                                               *)
ReturnInv ==
  /\ ReturnedIsFound
  /\ bus # "lost"
  /\ bus = "away" => due <= MaxAway
  /\ pc = "settle" => timer <= Settle
  /\ (pc \in WaitLabels /\ bus \in {"leaving", "away"})
       => Remaining + Passed <= MaxLeave + MaxAway
  /\ pc = "check" => elapsed <= Timeout

-----------------------------------------------------------------------------
(* WaitInv is inductive: only a host that has just looked at the time naps,
   so what is left of a nap never takes the wait past the timeout by more
   than one poll (wait_for_probe_reboot, bmp.rs:644-685).                  *)
LEMMA WaitKept == TypeOK /\ WaitInv /\ [Next]_vars => WaitInv'
<1> USE Constants DEF WaitInv, WaitBounded
<1> SUFFICES ASSUME TypeOK, WaitInv, [Next]_vars PROVE WaitInv'
  OBVIOUS
<1>0. timer \in Nat /\ elapsed \in Nat
  BY DEF TypeOK, HostTypeOK
<1>1. CASE Waiting
  <2>1. CASE StartWait
    BY <1>0, <2>1 DEF StartWait
  <2>2. CASE NotFound \/ LookAgain
    BY <1>0, <2>2 DEF NotFound, LookAgain
  <2>3. CASE Nap
    BY <1>0, <2>3 DEF Nap
  <2> QED
    BY <1>1, <2>1, <2>2, <2>3 DEF Waiting, WaitStep
<1>2. CASE Time
  BY <1>0, <1>2 DEF Time, Tick
<1>3. CASE Rerun
  BY <1>3 DEF Rerun
<1>4. CASE Probe \/ UNCHANGED vars
  BY <1>4 DEF Probe, hostVars, vars
<1>5. CASE Kill \/ (Host /\ ~Waiting)
  (* Everything else leaves the time alone and does not go to a nap.     *)
  <2>1. elapsed' = elapsed /\ pc' # "nap"
    <3> USE DEF Goto, Finish
    <3>1. CASE Prepare \/ Open \/ Kill
      BY <3>1 DEF Prepare, Open, Kill
    <3>2. CASE Download
      BY <3>2 DEF Download, DetachAndSleep
    <3>3. CASE FoundProbe \/ GiveUp
      BY <3>3 DEF FoundProbe, Found, GiveUp
    <3>4. CASE Erase \/ Write \/ AllWritten
      BY <3>4 DEF Erase, Write, AllWritten, DfuError, TransferError
    <3>5. CASE Manifest \/ ClearStatus
      BY <3>5 DEF Manifest, ClearStatus, DfuError, TransferError
    <3>6. CASE Reboot \/ Identify
      BY <3>6 DEF Reboot, Identify
    <3> QED
      BY <1>5, <3>1, <3>2, <3>3, <3>4, <3>5, <3>6 DEF Host
  <2> QED
    BY <2>1
<1> QED
  BY <1>1, <1>2, <1>3, <1>4, <1>5 DEF Next

LEMMA WaitInductive == Spec => []WaitInv
<1>1. Init => WaitInv
  BY Constants DEF Init, HostInit, WaitInv, WaitBounded
<1> QED
  BY <1>1, WaitKept, TypeCorrect, PTL DEF Spec

(* No wait for a probe lasts longer than the timeout and one poll.         *)
THEOREM WaitIsBounded == Spec => []WaitBounded
<1>1. WaitInv => WaitBounded
  BY DEF WaitInv
<1> QED
  BY <1>1, WaitInductive, PTL

-----------------------------------------------------------------------------
(* Every step keeps ImageInv.                                              *)
LEMMA ImageStep ==
  TypeOK /\ ImageInv /\ [Next]_vars => ImageInv'
<1> USE Constants DEF ImageInv, WaitLabels
<1> SUFFICES ASSUME TypeOK, ImageInv, [Next]_vars PROVE ImageInv'
  OBVIOUS
<1> USE DEF probeVars, hostVars, flashVars, Goto, Finish
<1>0. written \in 0..ImageLen /\ stage \in {"detach", "verify"}
  BY DEF TypeOK
<1>1. CASE Prepare \/ GiveUp \/ Open
  BY <1>1 DEF Prepare, GiveUp, Expired, Open
<1>2. CASE Download
  BY <1>2 DEF Download, DetachAndSleep, DetachOk, DetachErr, Depart
<1>3. CASE FoundProbe
  BY <1>0, <1>3 DEF FoundProbe, Found
<1>4. CASE Erase
  BY <1>4 DEF Erase, SetImage, DfuError, TransferError
<1>5. CASE Write
  BY <1>0, <1>5 DEF Write, SetImage, DfuError, TransferError
<1>6. CASE AllWritten
  BY <1>6 DEF AllWritten
<1>7. CASE Manifest
  BY <1>7 DEF Manifest, Depart, DfuError, TransferError
<1>8. CASE ClearStatus
  BY <1>8 DEF ClearStatus, TransferError
<1>9. CASE Reboot
  <2>1. UNCHANGED image
    BY <1>9 DEF Reboot, RebootOk, RebootErr, ResetOk, ResetErr, DetachOk, DetachErr, Depart
  <2> QED
    BY <1>9, <2>1 DEF Reboot
<1>10. CASE Identify \/ Kill
  BY <1>10 DEF Identify, Kill
<1>11. CASE Waiting
  <2>1. pc \in WaitLabels /\ pc' \in WaitLabels /\ UNCHANGED <<image, flashVars>>
    BY <1>11 DEF Waiting, WaitStep, StartWait, NotFound, Nap, LookAgain
  <2> QED
    BY <1>11, <2>1
<1>12. CASE Time
  BY <1>12 DEF Time, Tick, ProbeTick
<1>13. CASE Probe
  BY <1>13 DEF Probe, ProbeStep, Leave, Return, Unplug, Replug
<1>14. CASE Rerun
  BY <1>14 DEF Rerun
<1>15. CASE UNCHANGED vars
  BY <1>15 DEF vars
<1> QED
  BY <1>1, <1>2, <1>3, <1>4, <1>5, <1>6, <1>7, <1>8, <1>9, <1>10, <1>11,
     <1>12, <1>13, <1>14, <1>15 DEF Next, Host

(* ImageInv is inductive: from the last block of a download to its verdict
   the whole image is in flash (download, bmp.rs:496-568).                 *)
LEMMA ImageInductive == Spec => []ImageInv
<1> USE Constants DEF ImageInv, WaitLabels
<1>1. Init => ImageInv
  BY DEF Init, HostInit, RunInit
<1>2. TypeOK /\ ImageInv /\ [Next]_vars => ImageInv'
  BY ImageStep
<1> QED
  BY <1>1, <1>2, TypeCorrect, PTL DEF Spec

(* Success is only reported with the whole image in flash.                 *)
THEOREM SuccessIsFlashed == Spec => []SuccessMeansFlashed
<1>1. ImageInv => SuccessMeansFlashed
  BY DEF ImageInv, SuccessMeansFlashed
<1> QED
  BY <1>1, ImageInductive, PTL

-----------------------------------------------------------------------------
(* Every step keeps LinkInv.                                               *)
LEMMA LinkStep ==
  TypeOK /\ LinkInv /\ [Next]_vars => LinkInv'
<1> USE Constants DEF LinkInv, CachedModeFresh
<1> SUFFICES ASSUME TypeOK, LinkInv, [Next]_vars PROVE LinkInv'
  OBVIOUS
<1>0. dev \in Handle /\ due \in Nat /\ link \in {"live", "dead"}
  BY DEF TypeOK, HostTypeOK, ProbeTypeOK
(* Steps in which the probe stays put, or departs, and the handle keeps   *)
(* the mode it was opened with.                                          *)
<1>1. ASSUME Depart \/ UNCHANGED <<mode, bus, due, link>>, dev'.mode = dev.mode
      PROVE  LinkInv'
  BY <1>1 DEF Depart, Reachable
<1>2. dev' = dev \/ dev' = Dropped(dev) => dev'.mode = dev.mode
  BY <1>0 DEF Dropped, Handle
<1> USE DEF probeVars, hostVars, flashVars, Goto, Finish
<1>3. CASE Prepare \/ GiveUp \/ Identify \/ Kill
  BY <1>1, <1>2, <1>3 DEF Prepare, GiveUp, Identify, Kill
<1>4. CASE Download
  BY <1>1, <1>2, <1>4 DEF Download, DetachAndSleep, DetachOk, DetachErr
<1>5. CASE FoundProbe
  BY <1>0, <1>5 DEF FoundProbe, Found, Opened, Listed
<1>6. CASE Open
  <2>1. dev'.mode = dev.mode
    BY <1>0, <1>2, <1>6 DEF Open, Handle
  <2> QED
    BY <1>1, <1>6, <2>1 DEF Open
<1>7. CASE Erase \/ Write
  BY <1>1, <1>2, <1>7 DEF Erase, Write, SetImage, DfuError, TransferError
<1>8. CASE AllWritten \/ Manifest \/ ClearStatus
  BY <1>1, <1>2, <1>8 DEF AllWritten, Manifest, ClearStatus, DfuError, TransferError
<1>9. CASE Reboot
  <2>1. Depart \/ UNCHANGED probeVars
    BY <1>9 DEF Reboot, RebootOk, RebootErr, ResetOk, ResetErr, DetachOk, DetachErr
  <2> QED
    BY <1>1, <1>2, <1>9, <2>1 DEF Reboot
<1>10. CASE Waiting
  BY <1>1, <1>10 DEF Waiting, WaitStep, StartWait, NotFound, Nap, LookAgain
<1>11. CASE Time
  BY <1>0, <1>11 DEF Time, Tick, ProbeTick
<1>12. CASE Probe
  BY <1>0, <1>12 DEF Probe, ProbeStep, Leave, Return, Unplug, Replug
<1>13. CASE Rerun
  BY <1>0, <1>13 DEF Rerun, Opened, Listed
<1>14. CASE UNCHANGED vars
  BY <1>14 DEF vars
<1> QED
  BY <1>3, <1>4, <1>5, <1>6, <1>7, <1>8, <1>9, <1>10, <1>11, <1>12, <1>13,
     <1>14 DEF Next, Host

(* LinkInv is inductive: a reboot of the probe kills the handle it was
   known by, so a live handle's cached mode is current (bmp.rs:173).       *)
LEMMA LinkInductive == Spec => []LinkInv
<1> USE Constants DEF LinkInv, CachedModeFresh
<1>1. Init => LinkInv
  BY DEF Init, ProbeInit, HostInit, Opened
<1>2. TypeOK /\ LinkInv /\ [Next]_vars => LinkInv'
  BY LinkStep
<1> QED
  BY <1>1, <1>2, TypeCorrect, PTL DEF Spec

(* A handle that reaches its probe knows what the probe runs.              *)
THEOREM CachedModeIsFresh == Spec => []CachedModeFresh
<1>1. LinkInv => CachedModeFresh
  BY DEF LinkInv
<1> QED
  BY <1>1, LinkInductive, PTL

(* No step sends a probe out of its bootloader with half an image.         *)
THEOREM LeavesWhole == Spec => LeavesBootloaderWhole
<1> DEFINE Whole == (bus = "up" /\ bus' = "leaving" /\ mode = "FirmwareUpgrade") => image = "new"
<1>1. ImageInv /\ LinkInv /\ [Next]_vars => [Whole]_vars
  <2> SUFFICES ASSUME ImageInv, LinkInv, [Next]_vars,
                      bus = "up", bus' = "leaving", mode = "FirmwareUpgrade"
               PROVE  image = "new"
    OBVIOUS
  <2> USE DEF probeVars, hostVars, flashVars
  <2>1. CASE Download
    BY <2>1 DEF Download, DetachAndSleep, DetachOk, DetachErr, Depart, Reachable,
                LinkInv, CachedModeFresh
  <2>2. CASE Manifest \/ Reboot
    BY <2>2 DEF Manifest, Reboot, ImageInv
  <2>3. CASE Prepare \/ GiveUp \/ Open \/ Identify \/ Kill
    BY <2>3 DEF Prepare, GiveUp, Open, Identify, Kill
  <2>4. CASE FoundProbe \/ Rerun
    BY <2>4 DEF FoundProbe, Found, Rerun
  <2>5. CASE Erase \/ Write \/ AllWritten \/ ClearStatus
    BY <2>5 DEF Erase, Write, AllWritten, ClearStatus, SetImage
  <2>6. CASE Waiting
    BY <2>6 DEF Waiting, WaitStep, StartWait, NotFound, Nap, LookAgain
  <2>7. CASE Time \/ Probe \/ UNCHANGED vars
    BY <2>7 DEF Time, Tick, ProbeTick, Probe, ProbeStep, Leave, Return, Unplug, Replug, vars
  <2> QED
    BY <2>1, <2>2, <2>3, <2>4, <2>5, <2>6, <2>7 DEF Next, Host
<1> QED
  BY <1>1, ImageInductive, LinkInductive, PTL DEF Spec, LeavesBootloaderWhole

-----------------------------------------------------------------------------
(* The Options: from the search for the probe to the request that detaches *)
(* or opens it a handle owns both, from then on the interface.             *)
HandleInv ==
  /\ pc \in {"prepare", "download", "open"} => dev.owns = {"device", "interface"}
  /\ pc \in {"erase", "write", "manifest", "clear"} => "interface" \in dev.owns

(* HandleInv is inductive: a wait ends with a handle that is opened anew,  *)
(* and nothing between open and the end of the download drops one          *)
(* (bmp.rs:397-399, 519-521, 557-560).                                     *)
LEMMA HandleKept == TypeOK /\ HandleInv /\ [Next]_vars => HandleInv'
<1> USE DEF HandleInv
<1> SUFFICES ASSUME TypeOK, HandleInv, [Next]_vars PROVE HandleInv'
  OBVIOUS
<1>0. dev \in Handle
  BY DEF TypeOK, HostTypeOK
<1> USE DEF hostVars, flashVars, Goto, Finish
<1>1. CASE Prepare \/ Download
  BY <1>1 DEF Prepare, Download, DetachAndSleep
<1>2. CASE FoundProbe \/ Rerun
  BY <1>2 DEF FoundProbe, Found, Rerun, Opened
<1>3. CASE Open
  BY <1>0, <1>3 DEF Open, Handle
<1>4. CASE Erase \/ Write
  BY <1>4 DEF Erase, Write, DfuError, TransferError
<1>5. CASE AllWritten \/ Manifest \/ ClearStatus
  BY <1>5 DEF AllWritten, Manifest, ClearStatus, DfuError, TransferError
<1>6. CASE Reboot \/ Identify
  BY <1>6 DEF Reboot, Identify
<1>7. CASE GiveUp \/ Kill
  BY <1>7 DEF GiveUp, Kill
<1>8. CASE Waiting \/ Time
  BY <1>8 DEF Waiting, WaitStep, StartWait, NotFound, Nap, LookAgain, Time, Tick
<1>9. CASE Probe \/ UNCHANGED vars
  BY <1>9 DEF Probe, vars
<1> QED
  BY <1>1, <1>2, <1>3, <1>4, <1>5, <1>6, <1>7, <1>8, <1>9 DEF Next, Host

LEMMA HandleInductive == Spec => []HandleInv
<1>1. Init => HandleInv
  BY DEF Init, HostInit, Opened, HandleInv
<1> QED
  BY <1>1, HandleKept, TypeCorrect, PTL DEF Spec

(* No Option of BmpDevice is unwrapped empty by an update, however it got  *)
(* where it unwraps it.                                                    *)
THEOREM HandleIsHeld == Spec => []HandleHeld
<1>1. HandleInv => HandleHeld
  BY DEF HandleInv, HandleHeld
<1> QED
  BY <1>1, HandleInductive, PTL

-----------------------------------------------------------------------------
(* On a prompt bus every step keeps ModeInv.                               *)
LEMMA ModeStep ==
  ASSUME PromptBus
  PROVE  TypeOK /\ ImageInv /\ LinkInv /\ ModeInv /\ [Next]_vars => ModeInv'
<1> USE Constants DEF ModeInv, ProgramsBootloader, Gone, WaitLabels
<1> SUFFICES ASSUME TypeOK, ImageInv, LinkInv, ModeInv, [Next]_vars PROVE ModeInv'
  OBVIOUS
<1>0. /\ dev \in Handle /\ due \in Nat /\ timer \in Nat
      /\ mode \in Mode /\ bus \in Bus /\ link \in {"live", "dead"}
      /\ stage \in {"detach", "verify"}
  BY DEF TypeOK, HostTypeOK, ProbeTypeOK
<1>a. dev' = dev \/ dev' = Dropped(dev) => dev'.mode = dev.mode
  BY <1>0 DEF Dropped, Handle
<1>b. pc \in {"prepare", "download"} => stage = "detach"
  BY <1>0 DEF ImageInv
(* Control that goes nowhere the invariant speaks of in a new way.       *)
<1>c. ASSUME pc' = "done" PROVE ModeInv'
  BY <1>c
<1>d. ASSUME pc \in {"open", "erase", "write", "manifest", "clear", "reboot"},
             pc' \in {"open", "erase", "write", "manifest", "clear", "reboot"},
             dev'.mode = dev.mode
      PROVE  ModeInv'
  BY <1>d
<1> USE DEF probeVars, hostVars, flashVars, Goto, Finish
<1>1. CASE Prepare
  BY <1>1 DEF Prepare
<1>2. CASE Download
  <2>1. CASE dev.mode = "Runtime" /\ DetachAndSleep /\ UNCHANGED flashVars
    <3>1. pc' = "settle" /\ timer' = DetachSettle /\ stage' = "detach"
      BY <1>2, <1>b, <2>1 DEF Download, DetachAndSleep
    <3>2. pc = "download" /\ DetachOk
      BY <1>2, <2>1 DEF Download, DetachAndSleep
    <3>3. CASE Depart
      <4>1. mode' = "Runtime" /\ bus' = "leaving" /\ due' = MaxLeave
        BY <2>1, <3>3 DEF Depart, Reachable, LinkInv, CachedModeFresh
      <4> QED
        BY <3>1, <4>1 DEF PromptBus
    <3>4. CASE ~Reachable /\ UNCHANGED probeVars
      <4>1. CASE link = "dead"
        BY <2>1, <3>1, <3>2, <3>4, <4>1 DEF LinkInv
      <4>2. CASE link = "live"
        <5>1. bus = "leaving" /\ due <= MaxLeave /\ mode = "Runtime"
          BY <2>1, <3>4, <4>2 DEF LinkInv, Reachable, CachedModeFresh
        <5> QED
          BY <1>0, <3>1, <3>4, <5>1 DEF PromptBus
      <4> QED
        BY <1>0, <4>1, <4>2
    <3> QED
      BY <3>2, <3>3, <3>4 DEF DetachOk, PromptBus
  <2>2. CASE dev.mode = "FirmwareUpgrade" /\ Goto("open") /\ UNCHANGED probeVars
    BY <2>2
  <2> QED
    BY <1>2, <1>c, <2>1, <2>2 DEF Download
<1>3. CASE FoundProbe
  <2>1. CASE stage = "detach"
    BY <1>0, <1>3, <2>1 DEF FoundProbe, Found, Opened, Mode
  <2>2. CASE stage = "verify"
    BY <1>3, <2>2 DEF FoundProbe, Found
  <2> QED
    BY <1>0, <2>1, <2>2
<1>4. CASE Open
  <2>1. dev'.mode = dev.mode
    BY <1>0, <1>a, <1>4 DEF Open, Handle
  <2> QED
    BY <1>4, <1>c, <1>d, <2>1 DEF Open
<1>5. CASE Erase
  BY <1>5, <1>a, <1>c, <1>d DEF Erase, DfuError, TransferError
<1>6. CASE Write \/ AllWritten
  BY <1>6, <1>a, <1>c, <1>d DEF Write, AllWritten, DfuError, TransferError
<1>7. CASE Manifest \/ ClearStatus
  BY <1>7, <1>a, <1>c, <1>d DEF Manifest, ClearStatus, DfuError, TransferError
<1>8. CASE Reboot
  BY <1>8, <1>c DEF Reboot
<1>9. CASE GiveUp \/ Identify \/ Kill
  BY <1>9, <1>c DEF GiveUp, Identify, Kill
<1>10. CASE Waiting
  <2>1. CASE StartWait
    BY <1>0, <1>10, <2>1 DEF Waiting, StartWait
  <2>2. CASE NotFound \/ Nap \/ LookAgain
    BY <1>10, <2>2 DEF Waiting, NotFound, Nap, LookAgain
  <2> QED
    BY <1>10, <2>1, <2>2 DEF Waiting, WaitStep
<1>11. CASE Time
  BY <1>0, <1>11 DEF Time, Tick, ProbeTick
<1>12. CASE Probe
  <2>1. CASE Leave
    <3>1. bus = "leaving" /\ bus' # "leaving" /\ link = "live" /\ dev.mode = mode
      BY <2>1 DEF Leave, LinkInv, CachedModeFresh
    <3>2. mode = "Runtime" => mode' = "FirmwareUpgrade"
      BY <2>1 DEF Leave
    <3>3. CASE pc \in WaitLabels /\ stage = "detach"
      BY <1>0, <1>12, <2>1, <3>1, <3>2, <3>3 DEF Probe, Mode
    <3>4. CASE ~(pc \in WaitLabels /\ stage = "detach")
      BY <1>0, <1>12, <3>1, <3>2, <3>4 DEF Probe, Mode
    <3> QED
      BY <3>3, <3>4
  <2>2. CASE Return
    BY <1>12, <2>2 DEF Probe, Return
  <2> QED
    BY <1>12, <2>1, <2>2 DEF Probe, ProbeStep, Unplug, Replug, PromptBus
<1>13. CASE Rerun
  BY <1>13 DEF Rerun
<1>14. CASE UNCHANGED vars
  BY <1>14 DEF vars
<1> QED
  BY <1>1, <1>2, <1>3, <1>4, <1>5, <1>6, <1>7, <1>8, <1>9, <1>10, <1>11,
     <1>12, <1>13, <1>14 DEF Next, Host

(* ModeInv is inductive on a prompt bus: the probe that a detach has sent
   off is gone when the sleep is over, and can only return as the
   bootloader (detach_and_enumerate, bmp.rs:431-453).                      *)
LEMMA ModeInductive == ASSUME PromptBus PROVE Spec => []ModeInv
<1> USE Constants DEF ModeInv, ProgramsBootloader, Gone, WaitLabels
<1>1. Init => ModeInv
  BY DEF Init, ProbeInit, HostInit, RunInit, Opened
<1>2. TypeOK /\ ImageInv /\ LinkInv /\ ModeInv /\ [Next]_vars => ModeInv'
  BY ModeStep
<1> QED
  BY <1>1, <1>2, TypeCorrect, ImageInductive, LinkInductive, PTL DEF Spec

(* On a prompt bus whatever download opens and writes to was found in its  *)
(* bootloader.                                                             *)
THEOREM BootloaderIsProgrammed ==
  ASSUME PromptBus PROVE Spec => []ProgramsBootloader
<1>1. ModeInv => ProgramsBootloader
  BY DEF ModeInv
<1> QED
  BY <1>1, ModeInductive, PTL

-----------------------------------------------------------------------------
(* On a prompt bus, with firmware that starts, every step keeps          *)
(* RuntimeInv.                                                            *)
LEMMA RuntimeStep ==
  ASSUME PromptBus, "badimage" \notin Faults
  PROVE  TypeOK /\ ImageInv /\ LinkInv /\ ModeInv /\ RuntimeInv /\ [Next]_vars => RuntimeInv'
<1> USE Constants DEF RuntimeInv, SuccessMeansRuntime, Gone, WaitLabels
<1> SUFFICES ASSUME TypeOK, ImageInv, LinkInv, ModeInv, RuntimeInv, [Next]_vars
             PROVE  RuntimeInv'
  OBVIOUS
<1>0. /\ dev \in Handle /\ due \in Nat /\ timer \in Nat
      /\ mode \in Mode /\ bus \in Bus /\ link \in {"live", "dead"}
      /\ stage \in {"detach", "verify"}
  BY DEF TypeOK, HostTypeOK, ProbeTypeOK
<1>a. dev' = dev \/ dev' = Dropped(dev) => dev'.mode = dev.mode
  BY <1>0 DEF Dropped, Handle
<1>b. ASSUME pc' = "done", result' # "ok" \/ dev'.mode = "Runtime"
      PROVE  RuntimeInv'
  BY <1>b
(* Before the image has been counted the invariant asks for nothing.     *)
<1>c. ASSUME pc' \in Labels \ {"reboot", "identify"},
             stage' = "detach", result' # "ok"
      PROVE  RuntimeInv'
  BY <1>c
<1>d. result = "ok" => pc \in WaitLabels \cup {"identify", "done"}
  BY DEF ImageInv
<1>e. stage = "verify" => pc \in WaitLabels \cup {"identify", "done"}
  BY DEF ImageInv
<1> USE DEF probeVars, hostVars, flashVars, Goto, Finish, Labels
<1>1. CASE Prepare
  BY <1>0, <1>b, <1>c, <1>d, <1>e, <1>1 DEF Prepare
<1>2. CASE Download
  BY <1>0, <1>b, <1>c, <1>d, <1>e, <1>2 DEF Download, DetachAndSleep
<1>3. CASE FoundProbe
  <2>1. CASE stage = "detach"
    BY <1>0, <1>c, <1>3, <2>1 DEF FoundProbe, Found, ImageInv
  <2>2. CASE stage = "verify"
    <3>1. dev'.mode = mode /\ mode = "Runtime"
      BY <1>0, <1>3, <2>2 DEF FoundProbe, Found, Opened, Mode
    <3> QED
      BY <1>3, <2>2, <3>1 DEF FoundProbe, Found
  <2> QED
    BY <1>0, <2>1, <2>2
<1>4. CASE Open
  BY <1>0, <1>b, <1>c, <1>d, <1>e, <1>4 DEF Open
<1>5. CASE Erase
  BY <1>0, <1>b, <1>c, <1>d, <1>e, <1>5 DEF Erase, DfuError, TransferError
<1>6. CASE Write \/ AllWritten
  BY <1>0, <1>b, <1>c, <1>d, <1>e, <1>6 DEF Write, AllWritten, DfuError, TransferError
<1>7. CASE ClearStatus
  BY <1>0, <1>b, <1>c, <1>d, <1>e, <1>7 DEF ClearStatus, TransferError
<1>8. CASE Manifest
  <2>1. CASE pc' = "reboot"
    <3>1. /\ link = "live" /\ link' = "live" /\ stage' = "detach" /\ result' # "ok"
          /\ attrs' = {"tolerant", "willDetach"} => bus' = "leaving"
      BY <1>0, <1>d, <1>e, <1>8, <2>1
         DEF Manifest, DfuReady, Reachable, Depart, DfuError, TransferError
    <3> QED
      BY <2>1, <3>1
  <2>2. CASE pc' # "reboot"
    BY <1>0, <1>b, <1>c, <1>d, <1>e, <1>8, <2>2 DEF Manifest, DfuError, TransferError
  <2> QED
    BY <2>1, <2>2
<1>9. CASE Reboot
  <2>1. CASE pc' = "done"
    BY <1>b, <1>9, <2>1 DEF Reboot
  <2>2. CASE pc' # "done"
    <3>1. /\ pc = "reboot" /\ RebootOk /\ pc' = "settle" /\ timer' = RebootSettle
          /\ stage' = "verify" /\ result' = result
      BY <1>9, <2>2 DEF Reboot
    <3>2. result' # "ok"
      BY <1>d, <3>1
    <3>3. link = "live" => mode = "FirmwareUpgrade"
      BY <3>1 DEF ModeInv, ProgramsBootloader, LinkInv, CachedModeFresh
    <3>4. Depart \/ (~Reachable /\ UNCHANGED probeVars)
      BY <1>0, <3>1 DEF RebootOk, ResetOk, DetachOk, PromptBus, Reachable
    <3>5. CASE Depart
      BY <3>1, <3>2, <3>3, <3>5 DEF Depart, Reachable, PromptBus
    <3>6. CASE ~Reachable /\ UNCHANGED probeVars
      <4>1. CASE link = "dead"
        BY <3>1, <3>2, <3>6, <4>1 DEF LinkInv
      <4>2. CASE link = "live"
        <5>1. bus = "leaving" /\ due <= MaxLeave /\ mode = "FirmwareUpgrade"
          BY <3>3, <3>6, <4>2 DEF LinkInv, Reachable
        <5> QED
          BY <1>0, <3>1, <3>2, <3>6, <5>1 DEF PromptBus
      <4> QED
        BY <1>0, <4>1, <4>2
    <3> QED
      BY <3>4, <3>5, <3>6
  <2> QED
    BY <2>1, <2>2
<1>10. CASE GiveUp \/ Kill
  BY <1>b, <1>10 DEF GiveUp, Kill
<1>11. CASE Identify
  BY <1>a, <1>b, <1>11 DEF Identify
<1>12. CASE Waiting
  <2>1. CASE StartWait
    BY <1>0, <1>12, <2>1 DEF Waiting, StartWait
  <2>2. CASE NotFound \/ Nap \/ LookAgain
    BY <1>12, <2>2 DEF Waiting, NotFound, Nap, LookAgain
  <2> QED
    BY <1>12, <2>1, <2>2 DEF Waiting, WaitStep
<1>13. CASE Time
  BY <1>0, <1>13 DEF Time, Tick, ProbeTick
<1>14. CASE Probe
  <2>1. CASE Leave
    <3>1. /\ bus = "leaving" /\ bus' # "leaving" /\ link = "live" /\ dev.mode = mode
          /\ link' = "dead"
      BY <2>1 DEF Leave, LinkInv, CachedModeFresh
    <3>2. (mode = "FirmwareUpgrade" /\ image = "new") => mode' = "Runtime"
      BY <2>1 DEF Leave, BootMode
    <3>3. (pc = "reboot" \/ stage = "verify") => image = "new"
      BY DEF ImageInv
    <3>4. pc = "reboot" => mode' = "Runtime"
      BY <3>1, <3>2, <3>3 DEF ModeInv, ProgramsBootloader
    <3>5. (pc \in WaitLabels /\ stage = "verify") => mode' = "Runtime"
      BY <3>1, <3>2, <3>3
    <3> QED
      BY <1>14, <3>1, <3>4, <3>5 DEF Probe
  <2>2. CASE Return
    BY <1>14, <2>2 DEF Probe, Return, LinkInv
  <2> QED
    BY <1>14, <2>1, <2>2 DEF Probe, ProbeStep, Unplug, Replug, PromptBus
<1>15. CASE Rerun
  BY <1>15 DEF Rerun
<1>16. CASE UNCHANGED vars
  BY <1>16 DEF vars
<1> QED
  BY <1>1, <1>2, <1>3, <1>4, <1>5, <1>6, <1>7, <1>8, <1>9, <1>10, <1>11,
     <1>12, <1>13, <1>14, <1>15, <1>16 DEF Next, Host

(* RuntimeInv is inductive on a prompt bus with firmware that starts: after
   the reboot the probe is gone when the sleep is over, and can only return
   as its firmware (flash_probe, flasher.rs:171-178).                      *)
LEMMA RuntimeInductive ==
  ASSUME PromptBus, "badimage" \notin Faults PROVE Spec => []RuntimeInv
<1> USE Constants DEF RuntimeInv, SuccessMeansRuntime, Gone, WaitLabels
<1>1. Init => RuntimeInv
  BY DEF Init, HostInit, RunInit
<1>2. TypeOK /\ ImageInv /\ LinkInv /\ ModeInv /\ RuntimeInv /\ [Next]_vars => RuntimeInv'
  BY RuntimeStep
<1> QED
  BY <1>1, <1>2, TypeCorrect, ImageInductive, LinkInductive, ModeInductive, PTL DEF Spec

(* On a prompt bus, with firmware that starts, success means the probe     *)
(* runs its firmware.                                                      *)
THEOREM SuccessIsRuntime ==
  ASSUME PromptBus, "badimage" \notin Faults PROVE Spec => []SuccessMeansRuntime
<1>1. RuntimeInv => SuccessMeansRuntime
  BY DEF RuntimeInv
<1> QED
  BY <1>1, RuntimeInductive, PTL

-----------------------------------------------------------------------------
(* On a punctual bus every step keeps ReturnInv.                           *)
LEMMA ReturnStep ==
  ASSUME PunctualBus
  PROVE  TypeOK /\ ImageInv /\ LinkInv /\ ReturnInv /\ [Next]_vars => ReturnInv'
<1> USE Constants DEF ReturnInv, ReturnedIsFound, Settle, Passed, Remaining, WaitLabels
<1> SUFFICES ASSUME TypeOK, ImageInv, LinkInv, ReturnInv, [Next]_vars PROVE ReturnInv'
  OBVIOUS
<1>0. /\ due \in Nat /\ timer \in Nat /\ elapsed \in Nat
      /\ bus \in Bus /\ stage \in {"detach", "verify"}
  BY DEF TypeOK, HostTypeOK, ProbeTypeOK
(* A host that is not waiting has made no promise yet.                   *)
<1>a. ASSUME pc' \notin WaitLabels, result' # "lost", Depart \/ UNCHANGED <<bus, due>>
      PROVE  ReturnInv'
  BY <1>a DEF Depart
<1>b. ASSUME pc' = "settle", timer' = IF stage' = "detach" THEN DetachSettle ELSE RebootSettle,
             result' # "lost", Depart \/ UNCHANGED probeVars, stage' \in {"detach", "verify"}
      PROVE  ReturnInv'
  <2>1. bus' = "leaving" => due' <= MaxLeave /\ due' \in Nat
    BY <1>0, <1>b DEF Depart, LinkInv, probeVars
  <2>2. bus' # "lost" /\ (bus' = "away" => due' <= MaxAway /\ due' \in Nat)
    BY <1>0, <1>b DEF Depart, probeVars
  <2> QED
    BY <1>b, <2>1, <2>2
<1> USE DEF probeVars, hostVars, flashVars, Goto, Finish
<1>1. CASE Prepare \/ Open \/ Identify \/ Kill
  BY <1>a, <1>1 DEF Prepare, Open, Identify, Kill
<1>2. CASE Download
  <2>1. stage = "detach"
    BY <1>0, <1>2 DEF Download, ImageInv
  <2>2. CASE pc' = "settle"
    BY <1>b, <1>2, <2>1, <2>2 DEF Download, DetachAndSleep, DetachOk
  <2>3. CASE pc' # "settle"
    BY <1>a, <1>2, <2>3 DEF Download, DetachAndSleep, DetachErr
  <2> QED
    BY <2>2, <2>3
<1>3. CASE FoundProbe
  BY <1>a, <1>3 DEF FoundProbe, Found
<1>4. CASE GiveUp
  BY <1>0, <1>4 DEF GiveUp, Expired
<1>5. CASE Erase
  BY <1>a, <1>5 DEF Erase, SetImage, DfuError, TransferError
<1>6. CASE Write \/ AllWritten
  BY <1>a, <1>6 DEF Write, AllWritten, SetImage, DfuError, TransferError
<1>7. CASE Manifest \/ ClearStatus
  BY <1>a, <1>7 DEF Manifest, ClearStatus, DfuError, TransferError
<1>8. CASE Reboot
  <2>1. Depart \/ UNCHANGED probeVars
    BY <1>8 DEF Reboot, RebootOk, RebootErr, ResetOk, ResetErr, DetachOk, DetachErr
  <2>2. CASE pc' = "settle"
    BY <1>b, <1>8, <2>1, <2>2 DEF Reboot
  <2>3. CASE pc' # "settle"
    BY <1>a, <1>8, <2>1, <2>3 DEF Reboot
  <2> QED
    BY <2>2, <2>3
<1>9. CASE Waiting
  <2>1. CASE StartWait
    BY <1>0, <1>9, <2>1 DEF Waiting, StartWait
  (* Nothing was listed, so the probe still needs some of its time.      *)
  <2>2. CASE NotFound
    <3>1. bus = "away"
      BY <1>0, <2>2 DEF NotFound, Listed, PunctualBus, Bus
    <3>2. elapsed <= Timeout
      BY <1>0, <2>2, <3>1 DEF NotFound, PunctualBus
    <3> QED
      BY <1>0, <1>9, <2>2, <3>2 DEF Waiting, NotFound
  <2>3. CASE Nap \/ LookAgain
    BY <1>0, <1>9, <2>3 DEF Waiting, Nap, LookAgain
  <2> QED
    BY <1>9, <2>1, <2>2, <2>3 DEF Waiting, WaitStep
<1>10. CASE Time
  BY <1>0, <1>10 DEF Time, Tick, ProbeTick
<1>11. CASE Probe
  <2>1. CASE Leave
    BY <1>0, <1>11, <2>1 DEF Probe, Leave, PunctualBus
  <2>2. CASE Return
    BY <1>0, <1>11, <2>2 DEF Probe, Return
  <2> QED
    BY <1>11, <2>1, <2>2 DEF Probe, ProbeStep, Unplug, Replug, PunctualBus
<1>12. CASE Rerun
  BY <1>a, <1>12 DEF Rerun
<1>13. CASE UNCHANGED vars
  BY <1>13 DEF vars
<1> QED
  BY <1>1, <1>2, <1>3, <1>4, <1>5, <1>6, <1>7, <1>8, <1>9, <1>10, <1>11, <1>12,
     <1>13 DEF Next, Host

(* ReturnInv is inductive on a punctual bus: what the probe still needs to
   come back is never more than what is left of the sleep and the wait
   (wait_for_probe_reboot, bmp.rs:644-685).                                *)
LEMMA ReturnInductive == ASSUME PunctualBus PROVE Spec => []ReturnInv
<1> USE Constants DEF ReturnInv, ReturnedIsFound, Settle, Passed, Remaining, WaitLabels
<1>1. Init => ReturnInv
  BY DEF Init, ProbeInit, HostInit, RunInit
<1>2. TypeOK /\ ImageInv /\ LinkInv /\ ReturnInv /\ [Next]_vars => ReturnInv'
  BY ReturnStep
<1> QED
  BY <1>1, <1>2, TypeCorrect, ImageInductive, LinkInductive, PTL DEF Spec

(* A probe that is back within the sleep and the timeout is never reported *)
(* lost.                                                                   *)
THEOREM ReturningIsFound == ASSUME PunctualBus PROVE Spec => []ReturnedIsFound
<1>1. ReturnInv => ReturnedIsFound
  BY DEF ReturnInv
<1> QED
  BY <1>1, ReturnInductive, PTL

-----------------------------------------------------------------------------
(* FlashProbe implements FirmwareUpdate: every step erases, completes,     *)
(* reports or stutters, whatever the bus does meanwhile.                   *)
THEOREM Implementation == Spec => ImplementsUpdate
<1>1. Init => Abstract!Init
  BY DEF Init, ProbeInit, RunInit, Abstract!Init
<1>2. TypeOK /\ ImageInv /\ [Next]_vars => [Abstract!Next]_(Abstract!vars)
  <2> SUFFICES ASSUME TypeOK, ImageInv, [Next]_vars
               PROVE  Abstract!Next \/ UNCHANGED Abstract!vars
    OBVIOUS
  <2>0. written \in 0..ImageLen /\ image \in Image
    BY DEF TypeOK, ProbeTypeOK
  <2>a. ASSUME UNCHANGED <<image, result>> PROVE UNCHANGED Abstract!vars
    BY <2>a DEF Abstract!vars
  <2>b. ASSUME result = "none", UNCHANGED image,
               result' \in Results \ {"none", "ok"}
        PROVE  Abstract!Next
    BY <2>b DEF Abstract!Next, Abstract!Fail, Results
  <2>c. ASSUME result = "none", image' = "partial", result' \in Results \ {"ok"}
        PROVE  Abstract!Next
    BY <2>c DEF Abstract!Next, Abstract!Erase, Results
  <2> USE DEF probeVars, hostVars, flashVars, Goto, Finish, ImageInv, Results
  <2>1. CASE Prepare \/ GiveUp \/ Open
    BY <2>a, <2>b, <2>1 DEF Prepare, GiveUp, Expired, Open
  <2>2. CASE Download
    <3>1. UNCHANGED image
      BY <2>2 DEF Download, DetachAndSleep, DetachOk, DetachErr, Depart
    <3> QED
      BY <2>a, <2>b, <2>2, <3>1 DEF Download, DetachAndSleep
  <2>3. CASE FoundProbe
    BY <2>a, <2>3 DEF FoundProbe, Found
  <2>4. CASE Erase
    <3>1. result = "none" /\ result' \in {"none", "error"} /\ image' \in {image, "partial"}
      BY <2>4 DEF Erase, SetImage, DfuError, TransferError
    <3> QED
      BY <2>a, <2>b, <2>c, <3>1
  <2>5. CASE Write
    <3>1. CASE UNCHANGED image
      BY <2>a, <2>b, <2>5, <3>1 DEF Write, DfuError, TransferError
    <3>2. CASE ~UNCHANGED image
      <4>1. image = "partial" /\ image' = "new" /\ result = "none" /\ result' = "none"
        BY <2>0, <2>5, <3>2 DEF Write, SetImage
      <4> QED
        BY <4>1 DEF Abstract!Next, Abstract!Complete
    <3> QED
      BY <3>1, <3>2
  <2>6. CASE AllWritten \/ ClearStatus
    BY <2>a, <2>b, <2>6 DEF AllWritten, ClearStatus, TransferError
  <2>7. CASE Manifest
    BY <2>a, <2>b, <2>7 DEF Manifest, Depart, DfuError, TransferError
  <2>8. CASE Reboot
    <3>1. UNCHANGED image
      BY <2>8 DEF Reboot, RebootOk, RebootErr, ResetOk, ResetErr, DetachOk, DetachErr, Depart
    <3> QED
      BY <2>a, <2>b, <2>8, <3>1 DEF Reboot
  <2>9. CASE Identify
    <3>1. CASE result' = "ok"
      BY <2>9, <3>1 DEF Identify, Abstract!Next, Abstract!Succeed
    <3>2. CASE result' # "ok"
      BY <2>b, <2>9, <3>2 DEF Identify
    <3> QED
      BY <3>1, <3>2
  <2>10. CASE Kill
    BY <2>b, <2>10 DEF Kill
  <2>11. CASE Waiting
    BY <2>a, <2>11 DEF Waiting, WaitStep, StartWait, NotFound, Nap, LookAgain
  <2>12. CASE Time
    BY <2>a, <2>12 DEF Time, Tick, ProbeTick
  <2>13. CASE Probe
    BY <2>a, <2>13 DEF Probe, ProbeStep, Leave, Return, Unplug, Replug
  <2>14. CASE Rerun
    BY <2>14 DEF Rerun, Abstract!Next, Abstract!Retry
  <2>15. CASE UNCHANGED vars
    BY <2>a, <2>15 DEF vars
  <2> QED
    BY <2>1, <2>2, <2>3, <2>4, <2>5, <2>6, <2>7, <2>8, <2>9, <2>10, <2>11, <2>12,
       <2>13, <2>14, <2>15 DEF Next, Host
<1> QED
  BY <1>1, <1>2, TypeCorrect, ImageInductive, PTL DEF Spec, ImplementsUpdate, Abstract!Spec

-----------------------------------------------------------------------------
(* What is left of a command: how many steps of the host and of the clock  *)
(* it can take at most before it reports.  The wait is the hard part, its  *)
(* loop ends only because every nap brings the timeout nearer.             *)
WholeWait == 4 * (Timeout + PollInterval) + 4
TimeLeft == Timeout + PollInterval - elapsed

WaitLeft ==
  CASE pc = "settle" -> WholeWait + timer
    [] pc = "poll" -> 4 * TimeLeft + 3
    [] pc = "check" -> 4 * TimeLeft + 2
    [] pc = "nap" -> 4 * (TimeLeft - timer) + timer + 4

(* After the download: the reboot, the wait and the question.              *)
AfterDownload == RebootSettle + WholeWait + 3

(* One try_download, and both of them with the DFU_CLRSTATUS in between.   *)
OneTry == ImageLen + 3
Tries == AfterDownload + 2 * OneTry + 2

TryLeft == AfterDownload + (IF attempt = 1 THEN OneTry + 1 ELSE 0)

StepsLeft ==
  CASE pc = "done" -> 0
    [] pc \in {"identify", "detach"} -> 1
    [] pc \in WaitLabels -> WaitLeft + (IF stage = "verify" THEN 1 ELSE Tries)
    [] pc = "reboot" -> AfterDownload - 1
    [] pc = "manifest" -> TryLeft
    [] pc = "write" -> TryLeft + 1 + (ImageLen - written)
    [] pc = "erase" -> TryLeft + 2 + ImageLen
    [] pc = "clear" -> AfterDownload + OneTry
    [] pc = "open" -> Tries
    [] pc = "download" -> Tries + WholeWait + DetachSettle + 1
    [] pc \in {"prepare", "start"} -> Tries + WholeWait + DetachSettle + 2

(* The command reports, or it takes a step of those it had left.           *)
Advances == StepsLeft' \in 0..StepsLeft - 1

(* There is always as much left as the step at hand takes.                 *)
StepsInv == StepsLeft \in Nat /\ (pc # "done" => StepsLeft > 0)

LEMMA StepsCount == TypeOK /\ WaitInv => StepsInv
<1> SUFFICES ASSUME TypeOK, WaitInv PROVE StepsInv
  OBVIOUS
<1> USE Constants DEF StepsInv, StepsLeft, WholeWait, AfterDownload, Tries, OneTry, TryLeft
<1>1. /\ pc \in Labels /\ timer \in Nat /\ elapsed \in Nat
      /\ written \in Nat /\ written <= ImageLen
  BY DEF TypeOK, HostTypeOK
<1>2. CASE pc \in WaitLabels
  <2>1. WaitLeft \in Nat /\ WaitLeft > 0
    BY <1>1, <1>2 DEF WaitInv, WaitBounded, WaitLeft, TimeLeft, WaitLabels
  <2> QED
    BY <1>2, <2>1 DEF WaitLabels
<1>3. CASE pc \notin WaitLabels
  BY <1>1, <1>3 DEF Labels, WaitLabels
<1> QED
  BY <1>2, <1>3

(* A step of the wait, and the time it takes.                              *)
LEMMA WaitSteps ==
  ASSUME TypeOK, WaitInv, WaitStep \/ Tick
  PROVE  pc \in WaitLabels /\ pc' \in WaitLabels /\ WaitLeft' < WaitLeft /\ WaitLeft' \in Int
<1> USE Constants DEF WaitLeft, WholeWait, TimeLeft, WaitLabels
<1>1. timer \in Nat /\ elapsed \in Nat
  BY DEF TypeOK, HostTypeOK
<1>2. CASE StartWait
  BY <1>1, <1>2 DEF StartWait
<1>3. CASE NotFound
  BY <1>1, <1>3 DEF NotFound
<1>4. CASE Nap
  BY <1>1, <1>4 DEF Nap
<1>5. CASE LookAgain
  BY <1>1, <1>5 DEF LookAgain
<1>6. CASE Tick
  BY <1>1, <1>6 DEF Tick
<1> QED
  BY <1>2, <1>3, <1>4, <1>5, <1>6 DEF WaitStep

(* What a found probe leaves undone.                                       *)
LEMMA WaitEnds ==
  ASSUME TypeOK, WaitInv, pc = "poll"
  PROVE  WaitLeft \in Nat /\ WaitLeft > 2
BY Constants DEF WaitLeft, TimeLeft, TypeOK, HostTypeOK, WaitInv, WaitBounded

(* A step that reports something, or a move of the command, takes steps.   *)
LEMMA HostAdvances ==
  ASSUME TypeOK, WaitInv, TypeOK', StepsInv, StepsInv', Host \/ Time \/ Kill PROVE Advances
<1>a. StepsLeft \in Nat /\ (pc # "done" => StepsLeft > 0) /\ StepsLeft' \in Nat
  BY DEF StepsInv
<1>b. ASSUME pc # "done", pc' = "done" PROVE Advances
  <2>1. StepsLeft' = 0
    BY <1>b DEF StepsLeft, WaitLabels
  <2> QED
    BY <1>a, <1>b, <2>1 DEF Advances
<1>c. SUFFICES ASSUME pc' # "done" PROVE StepsLeft' < StepsLeft
  <2>1. pc # "done"
    BY DEF Host, Time, Kill, Tick, Prepare, Download, FoundProbe, Found, GiveUp, Expired,
       Open, Erase, Write, AllWritten, Manifest, ClearStatus, Reboot,
       Identify, Waiting, WaitStep, StartWait, NotFound, Nap, LookAgain
  <2> QED
    BY <1>a, <1>b, <2>1 DEF Advances
<1>0. /\ timer \in Nat /\ timer' \in Nat /\ attempt \in {1, 2} /\ stage \in {"detach", "verify"}
      /\ written \in Nat /\ written <= ImageLen
  BY DEF TypeOK, HostTypeOK
<1> USE Constants DEF StepsLeft, WholeWait, AfterDownload, Tries, OneTry, TryLeft
<1>1. CASE Prepare
  BY <1>c, <1>1 DEF Prepare, Goto, Finish
<1>2. CASE Download
  BY <1>c, <1>0, <1>2 DEF Download, DetachAndSleep, Goto, Finish, WaitLabels, WaitLeft, flashVars
<1>3. CASE FoundProbe
  BY <1>c, <1>0, <1>3, WaitEnds DEF FoundProbe, Found, WaitLabels, flashVars
<1>4. CASE GiveUp \/ Identify \/ Kill
  BY <1>c, <1>4 DEF GiveUp, Identify, Kill, Finish
<1>5. CASE Open
  BY <1>c, <1>0, <1>5 DEF Open, Finish, flashVars
<1>6. CASE Erase
  BY <1>c, <1>0, <1>6 DEF Erase, DfuError, TransferError, Finish
<1>7. CASE Write
  BY <1>c, <1>0, <1>7 DEF Write, DfuError, TransferError, Finish
<1>8. CASE AllWritten
  BY <1>0, <1>8 DEF AllWritten, Goto
<1>9. CASE Manifest
  BY <1>c, <1>0, <1>9 DEF Manifest, DfuError, TransferError, Finish, Goto
<1>10. CASE ClearStatus
  BY <1>c, <1>0, <1>10 DEF ClearStatus, TransferError, Finish
<1>11. CASE Reboot
  BY <1>c, <1>0, <1>11 DEF Reboot, Finish, WaitLabels, WaitLeft
<1>12. CASE Waiting \/ Time
  <2>1. WaitStep \/ Tick
    BY <1>12 DEF Waiting, Time
  <2>2. pc \in WaitLabels /\ pc' \in WaitLabels /\ WaitLeft' < WaitLeft /\ WaitLeft' \in Int
    BY <2>1, WaitSteps
  <2>3. WaitLeft \in Int
    BY <2>2, <1>0 DEF WaitLeft, TimeLeft, WaitLabels, TypeOK, HostTypeOK
  <2>4. UNCHANGED stage
    BY <1>12 DEF Waiting, Time, flashVars
  <2> QED
    BY <2>2, <2>3, <2>4, <1>0 DEF WaitLabels
<1> QED
  BY <1>1, <1>2, <1>3, <1>4, <1>5, <1>6, <1>7, <1>8, <1>9, <1>10, <1>11, <1>12
     DEF Host

(* What the probe does of itself takes nothing from the command.           *)
LEMMA ProbeAside == Probe => StepsLeft' = StepsLeft
BY DEF Probe, hostVars, flashVars, StepsLeft, WaitLeft, TimeLeft, TryLeft, WholeWait,
   AfterDownload, Tries, OneTry

(* A run of update is over after at most as many steps of the host and of  *)
(* the clock as the image has blocks for both tries and both waits have    *)
(* time for, whatever the probe does meanwhile: every step but the start   *)
(* of a new run takes some of them away, and the probe's take none         *)
(* (bmp.rs:551-580, 644-685).                                              *)
THEOREM UpdateStepsBounded ==
  Spec => [][Rerun \/ Advances \/ (Probe /\ StepsLeft' = StepsLeft)]_vars
<1>1. TypeOK /\ WaitInv /\ TypeOK' /\ StepsInv /\ StepsInv' /\ [Next]_vars =>
        [Rerun \/ Advances \/ (Probe /\ StepsLeft' = StepsLeft)]_vars
  BY HostAdvances, ProbeAside DEF Next
<1> QED
  BY <1>1, StepsCount, TypeCorrect, WaitInductive, PTL DEF Spec
=============================================================================
