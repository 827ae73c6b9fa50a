--------------------------- MODULE ChooseFirmware ---------------------------
(***************************************************************************)
(* How a command settles on a probe, after the user has asked info for     *)
(* those there are, and what it takes the probe for: switch asks the user  *)
(* for a probe and a release (src/switcher.rs), update takes the only      *)
(* probe and the latest release (update_probe of src/bin/bmputil-cli.rs,   *)
(* Metadata::latest), and both ask for a variant with FirmwareMultichoice  *)
(* (src/firmware_selector.rs); power, and info with --list-targets, open   *)
(* the serial port of the only probe (src/serial/interface.rs).            *)
(***************************************************************************)
EXTENDS ProbeIdentity, BmpMatcher, ProbeInterface, DocsViewer, Functions

CONSTANTS
  Buses,     \* what may be plugged in
  Spares,    \* what may be plugged in later as well
  Indices,   \* what the index of releases may be
  Commands   \* what may be on the command line

(* The string that names a release.                                        *)
Key(parts) == [ToText(parts) EXCEPT !.prefix = "v"]
V1_6 == [prefix |-> "v", numbers |-> <<1, 6>>, pieces |-> <<>>]

(* The name contains "-rc".                                                *)
IsRc(name) == \E i \in 1..Len(name.pieces) : name.pieces[i].is = "rc"

(* An index lists releases in the order of their names, each with the      *)
(* friendly names of the variants it has for some kinds of probes.         *)
IndexOf(keys, firmware) == [i \in 1..Len(keys) |-> [name |-> keys[i], firmware |-> firmware[i]]]

IsList(list) == list \in Seq(Range(list))

(* The numbers of a version are naturals, and its hash is a hash.          *)
WellWritten(text) == IsFull(Version(text)) => Version(text).parts \in VersionParts

IsBus(probes) ==
  /\ IsList(probes)
  /\ \A i \in 1..Len(probes) : \A text \in probes[i].product.version : WellWritten(text)

ASSUME BusesAssumption == \A probes \in Buses \cup Spares : IsBus(probes)

ASSUME CommandsAssumption ==
  \A line \in Commands : {"index", "serial", "port"} \subseteq DOMAIN line

(* Releases have a "v", development builds are not released, and v1.6 was  *)
(* a release for native probes.                                            *)
ASSUME IndicesAssumption ==
  \A releases \in Indices :
    /\ IsList(releases)
    /\ \A i \in 1..Len(releases) :
         LET name == releases[i].name
             firmware == releases[i].firmware
         IN  /\ name.prefix = "v" /\ WellWritten(name)
             /\ name = V1_6 => Native \in DOMAIN firmware
             /\ IsFull(Version(name)) => Version(name).parts.kind.class # "development"
             /\ \A k \in DOMAIN firmware : IsList(firmware[k])

VARIABLES
  bus,       \* the probes plugged in
  moved,     \* history: they were plugged in otherwise when info listed them
  command,   \* the command line
  metadata,  \* the index the server has, once it is downloaded
  pc,        \* where the command is
  probe,     \* position of the probe on the bus, 0 before there is one
  meant,     \* history: position of the probe the user pointed at, 0 if it
             \* is unplugged or there is none
  named,     \* history: what the user pointed with
  port,      \* position of the probe whose serial port is opened, or 0
  looked,    \* how many releases latest has looked at
  latest,    \* current_release of it: a position in the index, or 0
  release,   \* position of the release in the index, or 0
  picked,    \* the variant the user pointed at, or 0
  variant,   \* the variant to flash, or 0
  result     \* how the command ended

given == <<bus, moved, command, metadata>>
pointed == <<meant, named>>
walk == <<looked, latest>>
chosen == <<probe, pointed, port, walk, release, picked, variant>>
vars == <<given, pc, chosen, result, screen>>

Found == FindMatchingProbes(bus, FromParams(command))

(* firmware_identity: the strings can be read, and understood.             *)
Identity(p) == IF bus[p].readable THEN ParseIdentity(bus[p].product) ELSE {}
Readable(p) == Identity(p) # {}

(* ProbeIdentity::variant: a set that is empty for a bootloader.           *)
Kind == UNION {identity.kind : identity \in Identity(probe)}
Running == (CHOOSE identity \in Identity(probe) : TRUE).version
Supports(r) == Kind \subseteq DOMAIN metadata[r].firmware
Variants == metadata[release].firmware[CHOOSE k \in Kind : TRUE]

TypeOK ==
  /\ metadata \in Indices \cup {<<>>} /\ moved \in BOOLEAN
  /\ pc \in {"shell", "told", "probe", "identify", "metadata", "release", "latest",
             "variants", "pick", "action", "docs", "reading", "download", "port", "done"}
  /\ probe \in 0..Len(bus) /\ meant \in 0..Len(bus) /\ port \in 0..Len(bus)
  /\ named \in {"none", "index", "serial", "port", "list"}
  /\ looked \in 0..Len(metadata) /\ latest \in 0..looked /\ release \in 0..Len(metadata)
  /\ (picked # 0 \/ variant # 0) => (picked \in 0..Len(Variants) /\ variant \in 0..Len(Variants))
  /\ result \in {"none", "notfound", "toomany", "cancelled", "error", "panic",
                 "unsupported", "current", "flash", "opened"}
  /\ Showing <=> pc = "reading"

Init ==
  /\ bus \in Buses /\ command \in Commands /\ metadata = <<>> /\ moved = FALSE
  /\ pc = "shell"
  /\ probe = 0 /\ meant = 0 /\ named = "none" /\ port = 0
  /\ looked = 0 /\ latest = 0 /\ release = 0 /\ picked = 0 /\ variant = 0
  /\ result = "none" /\ Closed

Goto(label) == pc' = label /\ UNCHANGED <<given, result, screen>>
End(r) == pc' = "done" /\ result' = r /\ UNCHANGED <<given, chosen, screen>>

-----------------------------------------------------------------------------
(* info_command, for all probes: they are listed with their serial numbers *)
(* and ports, and with their places in this list if there are several.     *)
(* The user takes one of them to name a probe with.                        *)
Info ==
  LET listed == FindMatchingProbes(bus, NoFilter) IN
  /\ pc = "shell"
  /\ meant' \in listed
  /\ \/ /\ Cardinality(listed) > 1
        /\ named' = "index"
        /\ command' = [command EXCEPT !.index = {Place(listed, meant')}]
     \/ named' = "serial" /\ command' = [command EXCEPT !.serial = {bus[meant'].serial}]
     \/ named' = "port" /\ command' = [command EXCEPT !.port = {bus[meant'].port}]
  /\ pc' = "told"
  /\ UNCHANGED <<bus, moved, metadata, probe, port, walk, release, picked, variant,
                 result, screen>>

(* Then other probes are plugged in, some are unplugged, maybe the one     *)
(* that is meant, and the system lists those there are in any order.       *)
Replug ==
  /\ pc = "told" /\ ~moved
  /\ moved' = TRUE
  /\ \E spare \in Spares :
       LET all == bus \o spare IN
       \E n \in 0..Len(all) : \E order \in [1..n -> 1..Len(all)] :
         /\ IsInjective(order)
         /\ bus' = [i \in 1..n |-> all[order[i]]]
         /\ meant' \in IF meant \in Range(order) THEN {m \in 1..n : order[m] = meant} ELSE {0}
  /\ UNCHANGED <<command, metadata, pc, probe, named, port, walk, release, picked, variant,
                 result, screen>>

-----------------------------------------------------------------------------
(* pop_all and select_probe for switch; pop_single for the others.         *)
FindProbe ==
  /\ pc \in {"shell", "told"}
  /\ CASE Found = {} -> End("notfound")
       [] Cardinality(Found) = 1 ->
            /\ probe' \in Found
            /\ Goto(IF command.name = "power" THEN "port" ELSE "identify")
            /\ UNCHANGED <<pointed, port, walk, release, picked, variant>>
       [] OTHER -> IF command.name = "switch" THEN Goto("probe") /\ UNCHANGED chosen
                   ELSE End("toomany")

(* Probes whose strings cannot be read are left out of what is shown, and  *)
(* the place of the user's choice in it is used in the list of all.        *)
SelectProbe ==
  LET shown == {i \in Found : Readable(i)} IN
  /\ pc = "probe"
  /\ IF shown = {} THEN End("error")
     ELSE \/ /\ meant' \in shown /\ named' = "list"
             /\ probe' \in {i \in Found : Place(Found, i) = Place(shown, meant')}
             /\ Goto("identify")
             /\ UNCHANGED <<port, walk, release, picked, variant>>
          \/ End("cancelled")

(* bmd_serial_interface: by the serial number, if that can be read.        *)
OpenPort ==
  /\ pc = "port"
  /\ LET ports == ProbePorts(bus, bus[probe].serial) IN
       IF bus[probe].readable /\ ports # {}
       THEN /\ port' \in ports
            /\ pc' = "done" /\ result' = "opened"
            /\ UNCHANGED <<given, screen, probe, pointed, walk, release, picked, variant>>
       ELSE End("error")

(* A file on the command line of update is flashed as it is.               *)
Identify ==
  /\ pc = "identify"
  /\ IF command.file THEN End("flash")
     ELSE IF Readable(probe) THEN Goto("metadata") /\ UNCHANGED chosen
     ELSE End("error")

DownloadMetadata ==
  /\ pc = "metadata"
  /\ \/ /\ metadata' \in Indices
        /\ pc' = IF command.name = "update" THEN "latest" ELSE "release"
        /\ UNCHANGED <<bus, moved, command, chosen, result, screen>>
     \/ End("error")

-----------------------------------------------------------------------------
(* Mutant: the version is compared with its "v".                           *)
IsRunning_v(r) ==
  \/ Running = Unknown /\ metadata[r].name = V1_6
  \/ IsFull(Running) /\ metadata[r].name = Key(Running.parts)

(* pick_release takes a probe without a version for one that runs v1.6.    *)
IsRunning(r) ==
  \/ Running = Unknown /\ metadata[r].name = V1_6
  \/ IsFull(Running) /\ metadata[r].name = ToText(Running.parts)

(* A release that runs already is left out, if there is only one variant   *)
(* of it; whether there is one for this kind of probe is asked later.      *)
Panics == \E r \in 1..Len(metadata) : IsRunning(r) /\ ~Supports(r)
Offered ==
  {r \in 1..Len(metadata) :
     /\ Supports(r)
     /\ ~(IsRunning(r) /\ \A k \in Kind : Len(metadata[r].firmware[k]) = 1)}

PickRelease ==
  /\ pc = "release"
  /\ IF Kind = {} THEN End("error")
     ELSE IF Panics THEN End("panic")
     ELSE IF Offered = {} THEN End("error")
     ELSE \/ /\ release' \in Offered
             /\ Goto("variants")
             /\ UNCHANGED <<probe, pointed, port, walk, picked, variant>>
          \/ End("cancelled")

(* Metadata::latest: one release after the other is looked at.             *)
Considered(r) == command.rcs \/ ~IsRc(metadata[r].name)

(* Mutant: the last one in the order of the names.                         *)
MoreRecent_byName(current, r) == IF Considered(r) THEN r ELSE current

MoreRecent(current, r) ==
  IF ~Considered(r) THEN current
  ELSE IF current = 0 THEN r
  ELSE IF Newer(Version(metadata[r].name), Version(metadata[current].name)) THEN r
  ELSE current

LookAt ==
  /\ pc = "latest" /\ looked < Len(metadata)
  /\ looked' = looked + 1 /\ latest' = MoreRecent(latest, looked + 1)
  /\ UNCHANGED <<given, pc, probe, pointed, port, release, picked, variant, result, screen>>

UpToDate == AtLeast(Running, Version(metadata[latest].name)) /\ ~command.force

PickLatest ==
  /\ pc = "latest" /\ looked = Len(metadata)
  /\ IF latest = 0 \/ Kind = {} THEN End("error")
     ELSE IF ~Supports(latest) THEN End("unsupported")
     ELSE IF UpToDate THEN End("current")
     ELSE /\ release' = latest
          /\ Goto("variants")
          /\ UNCHANGED <<probe, pointed, port, walk, picked, variant>>

-----------------------------------------------------------------------------
(* pick_firmware.                                                          *)
PickFirmware ==
  /\ pc = "variants"
  /\ CASE Len(Variants) = 0 -> End("cancelled")
       [] Len(Variants) = 1 -> /\ variant' = 1
                               /\ Goto("download")
                               /\ UNCHANGED <<probe, pointed, port, walk, release, picked>>
       [] OTHER -> Goto("pick") /\ UNCHANGED chosen

(* Mutant: the list is one too long.                                       *)
FirmwareSelection_past ==
  /\ pc = "pick"
  /\ \/ /\ picked' \in 1..(Len(Variants) + 1)
        /\ Goto("action")
        /\ UNCHANGED <<probe, pointed, port, walk, release, variant>>
     \/ End("cancelled")

FirmwareSelection ==
  /\ pc = "pick"
  /\ \/ /\ picked' \in 1..Len(Variants)
        /\ Goto("action")
        /\ UNCHANGED <<probe, pointed, port, walk, release, variant>>
     \/ End("cancelled")

(* Mutant: the variant is the one before.                                  *)
Named_before == IF picked > 1 THEN picked - 1 ELSE picked

(* The variant is the first one that has the name.                         *)
Named == CHOOSE i \in 1..Len(Variants) :
           /\ Variants[i] = Variants[picked]
           /\ \A j \in 1..(i - 1) : Variants[j] # Variants[picked]

(* Flash it, read about it, choose another one, or cancel.                 *)
ActionSelection ==
  /\ pc = "action"
  /\ \/ /\ variant' = Named
        /\ Goto("download") \/ Goto("docs")
        /\ UNCHANGED <<probe, pointed, port, walk, release, picked>>
     \/ Goto("pick") /\ UNCHANGED chosen
     \/ End("cancelled")

(* What the release is called: by its name in switch, by its version       *)
(* turned into text in update.  The URI of a variant has a segment that is *)
(* the name.                                                               *)
Called ==
  LET name == metadata[release].name IN
    IF command.name = "switch" THEN name
    ELSE IF IsFull(Version(name)) THEN ToText(Version(name).parts) ELSE Invalid

(* Documentation that is not there is said to be at the release's page;    *)
(* without a segment of the URI that is the release there is no such page. *)
ShowDocumentation ==
  /\ pc = "docs"
  /\ \/ Display /\ pc' = "reading" /\ UNCHANGED <<given, chosen, result>>
     \/ IF Called = metadata[release].name THEN Goto("action") /\ UNCHANGED chosen
                                           ELSE End("error")
     \/ End("error")

(* The viewer runs until the user quits, or an event cannot be read.       *)
ReadDocumentation ==
  /\ pc = "reading"
  /\ UNCHANGED <<given, chosen>>
  /\ \/ /\ ScrollUp \/ ScrollDown \/ ScrollPageUp \/ ScrollPageDown \/ Resized \/ HandleResize
        /\ UNCHANGED <<pc, result>>
     \/ Quit /\ pc' = "action" /\ UNCHANGED result
     \/ Quit /\ pc' = "done" /\ result' = "error"

DownloadFirmware == pc = "download" /\ (End("flash") \/ End("error"))

Next ==
  \/ Info \/ Replug \/ FindProbe \/ SelectProbe \/ OpenPort \/ Identify \/ DownloadMetadata
  \/ PickRelease \/ LookAt \/ PickLatest \/ PickFirmware \/ FirmwareSelection \/ ActionSelection
  \/ ShowDocumentation \/ ReadDocumentation \/ DownloadFirmware

Spec == Init /\ [][Next]_vars

-----------------------------------------------------------------------------
AllReadable == \A i \in Found : Readable(i)
OnlyMeant == \A i \in 1..Len(bus) : bus[i].serial \in command.serial => i = meant
AllOpen == \A i \in 1..Len(bus) : bus[i].opens
DistinctSerials == \A i, j \in 1..Len(bus) : bus[i].serial = bus[j].serial => i = j
DistinctNames ==
  \A i, j \in 1..Len(Variants) : Variants[i] = Variants[j] => i = j

(* "Extract and return that one" (switcher.rs:101): the probe that is      *)
(* flashed is the one the user pointed at.                                 *)
FlashesMeantProbe == (result = "flash" /\ named = "list") => probe = meant

(* The variant that is flashed is the one the user pointed at, if no two   *)
(* have the same name (firmware_selector.rs:99-110).                       *)
FlashesPicked == (result = "flash" /\ picked # 0 /\ DistinctNames) => variant = picked

(* A command is for the probe the user pointed at: in the list of switch   *)
(* if all in it can be read; with an index of info if all probes could be  *)
(* opened and they are still in their places; with a serial number if no   *)
(* other probe has it, and then there is nothing to act on once the one    *)
(* that is meant is gone; never surely with a port, which is not looked    *)
(* at.                                                                     *)
(* The serial port is that of the probe, if no other one has its serial    *)
(* number, and the variant is the one that was picked (switcher.rs:87-102, *)
(* bmp_matcher.rs:39-161, interface.rs:45-105).                            *)
ActsOnMeant ==
  /\ FlashesPicked
  /\ result \in {"flash", "opened"} =>
       /\ (named = "list" /\ AllReadable) => probe = meant
       /\ (named = "index" /\ AllOpen /\ ~moved) => probe = meant
       /\ (named = "serial" /\ OnlyMeant) => probe = meant
       /\ (result = "opened" /\ DistinctSerials) => port = probe

(* update flashes the latest release there is, a candidate only if they    *)
(* are asked for, and without --force only over a version that is older.   *)
(* A probe is only called up to date with a version that can be ordered,   *)
(* and no release is newer than that.  The first release considered is     *)
(* only replaced if it is a version (structs.rs:324-355,                   *)
(* bmputil-cli.rs:308-317).                                                *)
UpdatesToLatest ==
  LET version(r) == Version(metadata[r].name)
      First(r) == Considered(r) /\ \A q \in 1..(r - 1) : ~Considered(q)
      startsFull == \E r \in 1..Len(metadata) : First(r) /\ IsFull(version(r))
      NoneNewer(v) == \A r \in 1..Len(metadata) :
                        (Considered(r) /\ IsFull(version(r))) => AtLeast(v, version(r))
  IN  (command.name = "update" /\ startsFull) =>
        /\ release # 0 =>
             /\ Considered(release) /\ NoneNewer(version(release))
             /\ (IsFull(Running) /\ ~command.force) => Newer(version(release), Running)
        /\ result = "current" => IsFull(Running) /\ ~command.force /\ NoneNewer(Running)

(* No release of the index makes the choice panic (switcher.rs:134).       *)
NeverPanics == result # "panic"
=============================================================================
