# bmputil in TLA+

bmputil is the command line companion of the Black Magic Probe, a debugger that
sits on a USB port and runs either its firmware ("runtime") or a DFU bootloader
("firmware upgrade").  The program finds probes, moves them between the two,
flashes firmware into them, fetches firmware from a release index, and talks to a
running probe over its serial port.  This directory holds its specification: the
modules, the TLC configurations that check small instances, and the proofs TLAPS
checks for all of them.

Line numbers without a path are of the file named last, and paths are relative to
the repository's `src/`.

## 1. Inventory

| component | state | operations | what makes it correct |
|---|---|---|---|
| Probe handle, `bmp.rs` | `device`, `interface` (Options), cached `mode`, `platform`, `port` | `from_usb_device`, `request_detach`, `detach_and_enumerate`, `detach_and_destroy`, `reboot`, `download`, `wait_for_probe_reboot` | the cached mode is the probe's; Options are Some where they are unwrapped; waits end, and find a probe that returns; only a bootloader is programmed |
| Flasher, `flasher.rs` | firmware type | `flash_probe`, `program_firmware`, `check_programming` | success means the image is in flash and running |
| Matcher, `bmp_matcher.rs` | filters; found, filtered out, errors | `from_params`, `find_matching_probes`, `pop_all`, `pop_single` | the probe the user named is the one operated on |
| Commands, `bin/bmputil-cli.rs` | arguments | `probe reboot`, `update`, `switch`, `info`; `target info`, `power` | each ends in the state it announces, and finds the probe as the one before it left it |
| Switcher, `switcher.rs` | cache directory | `switch_firmware`, `select_probe`, `pick_release`, `pick_firmware`, `download_firmware` | what is flashed is the release and the variant that were chosen |
| Selector, `firmware_selector.rs` | state machine | `step`, `selection` | ends with the chosen variant or none |
| Metadata, `metadata/` | cached index, etag | `download_metadata`, `latest`, `build_release_uri` | a damaged cache heals; the latest release is the latest |
| Identity and versions, `probe_identity.rs` | - | parsing and ordering of versions | the order is one |
| Firmware images, `firmware_file/`, `firmware_type.rs` | - | ELF, Intel HEX and raw images, load addresses, type detection | every byte is where the file says |
| Serial link and remote protocol, `serial/bmd_rsp.rs`, `serial/remote/` | receive buffer with two cursors; version of the protocol | handshake, `buffer_write`, `buffer_read`, `read_more_data`, queries for accelerations, architectures, families, power; start of JTAG and SWD | a request gets the answer to itself, and the two sides are of one mind about the version |
| Port discovery, `serial/interface.rs` | - | search of `/dev/serial/by-id` | the port is that of the probe |
| Documentation viewer, `docs_viewer.rs` | `viewport_size`, `max_scroll`, `scroll_position` | keys, resize | the page is full as far as there is text |
| Errors, USB descriptors, `error.rs`, `usb.rs` | - | - | formatting and decoding only |
| Windows drivers, `windows.rs` | `devices_needing_driver`; the exit code of the process it starts | `ensure_access`, starting itself as administrator, `admin_install_drivers` | no command without its drivers, and each command once |

How they interact: a command asks the matcher for a probe and gets a
`BmpDevice`.  `update` and `switch` read or download a file and give both to
`flash_probe`, which owns the device until the probe has been rebooted twice and
found again twice; the probe itself moves concurrently, on the other side of the
bus.  `switch` and `releases` share a cache directory with every other bmputil
that runs on the machine.  `target` commands open the serial port that belongs to the
serial number of the probe and keep one request outstanding at a time.  On Windows `main`
first calls `ensure_access`, which may start the program again, as administrator and
with one more argument, and wait for it.

What is hard: the probe leaves and comes back on its own schedule and the program
sleeps and polls to follow it; errors are ignored when they look like a reboot;
a download that fails is retried on the same objects; the program may be killed
and run again; the serial link may answer late, in pieces or not at all; the cache
is shared between processes and survives crashes; probes are numbered by one command and
looked up by that number in another one; a terminal is resized while the viewer scrolls
by the size it was told of before; a process that was started again finds the machine as
it is then.

## 2. Modules

| module | models | built on |
|---|---|---|
| `UsbProbe` | the probe, the bus and the user: not part of `src/`, the freedom the code allows for | - |
| `BmpDevice` | opening, detaching and rebooting a probe, `wait_for_probe_reboot` (`bmp.rs`) | `UsbProbe` |
| `FlashProbe` | `flash_probe` from the file to the verdict, `BmpDevice::download`, and running it again (`flasher.rs`, `bmp.rs`) | `BmpDevice` |
| `FirmwareUpdate` | what an update promises (abstract); `FlashProbe` implements it | - |
| `ProbeCommands` | `probe reboot` in its three forms and `probe update`, one after the other on the same probe (`bin/bmputil-cli.rs`) | `FlashProbe` |
| `RspReader` | `buffer_read` and `read_more_data` byte by byte (`serial/bmd_rsp.rs`) | - |
| `RspStream` | a queue of whole answers (abstract); `RspReader` implements it | - |
| `RemoteSession` | the handshake, the choice of a protocol version, accelerations, the queries of `target info` and `power` and the start of JTAG and SWD, over many sessions on one line (`serial/remote/`) | - |
| `FirmwareCache` | the cache directory of concurrent processes: index, etag, releases (`metadata/mod.rs`, `switcher.rs`) | - |
| `Versions` | version numbers and their order (`probe_identity.rs`) | - |
| `ProbeIdentity` | reading and writing product strings and versions (`probe_identity.rs`) | `Versions` |
| `BmpMatcher` | the filters of the command line and what they find (`bmp_matcher.rs`) | - |
| `ProbeInterface` | the search for a serial port (`serial/interface.rs`) | - |
| `DocsViewer` | scrolling and resizing (`docs_viewer.rs`) | - |
| `ChooseFirmware` | `info`, and then `switch`, `update` or `power`: from the search for a probe to the file that is flashed or the port that is opened (`switcher.rs`, `firmware_selector.rs`, `metadata/structs.rs`, `bin/bmputil-cli.rs`) | `ProbeIdentity`, `BmpMatcher`, `ProbeInterface`, `DocsViewer` |
| `FirmwareImage` | the ELF, HEX and raw readers, the type of firmware, its override, and where the image is programmed (`firmware_file/`, `firmware_type.rs`, `flasher.rs`) | - |
| `DriverInstall` | `ensure_access` and the processes it comes to, around any command (`windows.rs`, `bin/bmputil-cli.rs`) | - |
| `*_proofs` | theorems about the module they are named after | it, and `TLAPS` |
| `MC*` | sets of faults, files, probes, indices and sizes for the instances | it |

Operators whose name has an underscore (`MoreRecent_byName`) are mutants: the
definition they stand in front of with a bug.  A property that does not notice its
mutant would say nothing about the code.

### How they correspond to the code

*The probe's side* (`UsbProbe`).  `mode` is what the probe runs, `bus` whether it is
listed (`up`, `leaving`, `away`, `lost`), `due` the ticks it may still take, `link`
whether the handle the command has still reaches it, `image` what is in the
application area (`old`, `partial`, `new`), `attrs` two bits of the DFU functional
descriptor.  `Depart`, `Leave`, `Return`, `Unplug` and `Replug` are what a probe and a
user may do.  `Faults` says what an instance allows.

*The handle* (`BmpDevice`).  `dev.mode` and `dev.owns` are the cached mode and the two
Options of `bmp.rs:35-57`; `DetachOk`/`DetachErr` are `detach_and_enumerate` with the
errors `handle_detach_errors` forgives (64-98); `timer` and `elapsed` are its sleeps and
the loop of `wait_for_probe_reboot` (644-685).

*The update* (`FlashProbe`).  `Prepare` .. `Identify` follow `flash_probe`
(`flasher.rs:150-179`) in order: file and type, detach if in runtime mode, wait, open
DFU, erase, write block by block, the empty block, reboot, wait, and the product string.
The comparison of the progress bar with the length of the image (`flasher.rs:122`) is left out, because it always holds:
`finish` has moved the bar to its end.  `ClearStatus` is the second try after a dfuERROR
(`bmp.rs:538-568`).  `Kill` and `Rerun` are the user.

*One command after the other* (`ProbeCommands`).  `args` is the command line.  `Start` has
the branches of `reboot_command`, `Destroy` is `detach_and_destroy`, an update takes the
actions of `FlashProbe`, and `Command` is the next one, with a new handle, as soon as the
probe is listed: rebooting, half written, or about to leave (`early`).

*The serial link.*  `RspReader` has the buffer, `offset`, `fullness` and the message
with its length; one step looks at one byte, one is a `read` that may give any part of
what has come in.  `RemoteSession` takes answers whole; a request is outstanding until it
is answered or 2 s pass; `quiet` records that nothing older was on the line when the
session was opened.  `Query` is what a command asks of a version, `Offered` what
the version accelerates; the operations of the five versions that ask nothing are left out.

*The cache.*  A file is absent, or a version of an index or a release of which a number
of `Chunks` has been written.  Each process is a program counter over
`download_metadata` and `download_firmware`; creating the file, each piece that is
copied, and reading it are steps of their own, so that two processes and a kill may come
between any two.  `alone` records that no other process ran since this one started, and
`spoiled` the releases of which a download was broken off.

*The choice.*  Product strings and version texts are taken apart at their separators:
a text is a prefix, numbers and pieces (`rc`, commits, hash, dirty).  `ChooseFirmware`
has one action per question the command asks the user, the index or the server.  `Info`
is what the user has seen before: a place in a list, a serial number or a port, one of
which goes on the command line; `Replug` comes between: any of the probes may be unplugged, the one that
was meant (`meant` is 0 then) included, one of `Spares` plugged in, and the order changed.  `meant` and `named` record what
was pointed at, and how.  What the matcher finds is the set of places on the bus that match;
`Place(i)` is the one that has number i.  `Metadata::latest` is a loop: `LookAt` is one turn of
it, with `looked` for the releases it has been to and `latest` for the best of them.  `DocsViewer` has the three fields of `Viewer` and next to them
the terminal, whose changes of size are `pending` until they are read; a document is the
number of lines it comes to, by the width.

*The image.*  Program headers and HEX records are both records of an address and data.
`ProcessRecord` is one turn of the loop of `from_records` with its five locals;
`CollectSegments` is the map of program headers; `Flat` is the array that
`build_firmware_image` fills.  Addresses wrap around as in a release build.

*The drivers.*  `Proc` is a call and a depth: 0 for the process the user started, 1 for
the one it starts as administrator, 2 for one that this one starts.  Each has the
privileges `level`, what it `needs`, and its exit `code`; what a process held is forgotten
when it exits.  The arguments of depth 1 are joined with blanks, and may be refused; those
of depth 2 have the added option twice, and are.  `Kill` also stands for the calls of the
system that panic when they fail.  `alone` records that no read failed and that no other
call installed a driver meanwhile.

### How they compose

`ProbeCommands` extends `FlashProbe`, that `BmpDevice`, and that `UsbProbe`: the probe
moves between any two steps of any command.  `DriverInstall` is `main` around a command,
which is a step there.  `ChooseFirmware` ends where
`FirmwareCache` delivers a file, and `FlashProbe` starts there: `FirmwareCache` has the
choice and the flash as a step each, `FlashProbe` the file as good or bad and as long as
its number of blocks, and `FirmwareImage` says which files are good and what their
blocks are.  `RspReader` implements `RspStream`, a queue of answers, which is how
`RemoteSession` sees the wire; the port it is opened on is `ChooseFirmware`'s.

## 3. What the runs check

| run | instance | shows |
|---|---|---|
| `FlashHostile` | the probe takes up to 3 ticks to leave, sleeps are 2; stalls, unplugging, refused opens, failed transfers, dfuERROR, kills, reruns, bad files | `SuccessMeansFlashed`, `WaitBounded`, `HandleHeld`, `CachedModeFresh`, `LeavesBootloaderWhole`, `Terminates` and the refinement of `FirmwareUpdate` survive all of them |
| `FlashNoStart` | an image that does not start, no other fault | finding: the bootloader that comes back is reported as firmware the probe was rebooted into |
| `Commands` | any commands in any order, each killed anywhere; the probe is gone before the sleep ends and back on the very last tick of sleep and timeout; dfuERROR, failed transfers, bad files | `ProgramsBootloader`, `ReturnedIsFound`, `EndsAsPromised`, `ReportsAndReturns`; `RecoversByUpdate`: any number of kills and failures, then none, and the new firmware runs |
| `RspReader` | buffer of 2, messages of 0 to 3 bytes, 3 answers, old bytes in front | nothing out of bounds, nothing stale, `RspStream` implemented, every call returns |
| `RspHangup` | the port hangs up | finding: bytes of an earlier answer are used |
| `RemoteAny` | 3 sessions, every firmware, late and lost answers, refusals, kills | a session on a quiet line hears its own answers only, is of one mind with the firmware (`AgreesWithFirmware`), and ends |
| `Cache` | 2 processes, 2 pieces a file, 2 versions of the index | commands that run alone see the server's index; whole releases stay; what is flashed is whole, unless a download of it was broken off (`UnspoiledFlashesWhole`) |
| `CacheTruncated` | 1 process | finding: a cut off download is taken for the release |
| `Choose` | up to 3 probes of 4 kinds, some of which do not open or cannot be read, two with one serial number, 14 more strings one at a time; three at a time of 3 kinds; `info` or not; then any of them unplugged, one more plugged in (of another serial number or of that of the first), in any order; 4 indices, all switches; a document on a terminal of 2 sizes | the command is for what was pointed at (`ActsOnMeant`); update goes to the latest, upwards only, and calls no other version up to date; no index panics; a page is full |
| `ChooseWrongProbe` | the same | finding: an unreadable probe shifts the choice |
| `Images` | all HEX files of up to 4 records, all ELF files of up to 3 headers, raw files of up to 2 words, 3 platforms | a well-formed file is programmed byte for byte; a raw one below its reset vector |
| `Drivers` | 2 calls at the same time, any privileges, every fault | no command without both drivers; a call that is alone runs its command once; every call ends |

*Bounds and why they are enough.*  Times are ticks.  The program's are 500 ms before
and 250 ms after the reboot, polls of 200 ms and a timeout of 5 s; what matters is how
the time a probe takes compares with sleep, poll and timeout, and the instances have it
shorter, equal and longer, and a timeout that is hit between two polls.  An image of two
blocks has a first, a last and a middle (one written, one not); two tries are all the
code makes.  The reader's buffer is smaller than a message, so that messages span reads
and reads span messages.  Three sessions are the least in which a session in the middle
has something left over from the one before and leaves something to the next.  Two
pieces of a file tell absent, cut off and whole apart; two versions of an index, old
and new; two processes, alone and not.  Four records are the least with a base, two
pieces and an end, three pieces and an end let one be between the others; 16 addresses
with bases that are multiples of 4 have both the gap and the wrap.  Two probes
shift a number, three let the one that is meant be before, between and behind those that
cannot be read.  A terminal of two sizes and one change that is pending give a viewer that
is behind and one that has caught up, with several pages to scroll and with less than one.
Two calls install the drivers of each other; a third process of a call is the last that can
be.  What holds for all values is proved (section 5), except where section 6 says otherwise.

*Fairness.*  `WF(Host)`: the program's next statement runs; all its waits are sleeps and
polls with a timeout, and nothing in it waits for a lock.  `WF(Time)`: the clock goes on.
`WF(Leave)`, `WF(Return)`: a probe that accepted a detach does it some time; without a
stall in `Faults` it comes back.  These are about devices, not about the code, and
`Terminates` holds in `FlashHostile` where probes may be unplugged for ever.  `WF(Respond)`
in `RemoteSession`: the probe gets to a request some time, and answers it or not.
`RecoversByUpdate` assumes `SF` of the user's update, a user who does not give up, and says
so in the formula; it is not part of the specification.  In `DriverInstall` each process
has `WF(Step(p))`: the user answers the question for privileges, and installations and
commands end; the program waits for its child without a timeout, and relies on that.

`CHECK_DEADLOCK FALSE` is where the program ends: a command reports and is gone.
In `Commands` and `RspReader` there is always a next one or a stuttering end, and TLC does
check that nothing stops.

## 4. Findings

Each is a run that TLC must find violated; the text with the lines of the code is in
`PROJECT.json`.

1. `FlashNoStart`: when the new firmware does not start and the bootloader comes back, its
   product string is taken for the proof that "the firmware programming cycle succeeded".
2. `RspHangup`: a port whose probe has gone is readable and gives no bytes; the reader
   goes on with what is in its buffer, of an earlier answer or zeros.
3. `CacheTruncated`: a release whose download was cut off (the timeout is 2 s) is in the
   cache for good, and what is flashed next time.
4. `ChooseWrongProbe`: the list that is shown leaves out unreadable probes, the choice
   is looked up in the list that does not.

Disagreements seen while modelling that have no run of their own:

- "Failed to flash device, download incomplete" (`flasher.rs:125`) is never said:
  `progress_bar.finish()` (118) moves the bar to its length before its position is compared
  with the length (122).  That a download is complete is known from its own error (119) only.
- An interrupted serial session leaves its answer to the next one, which takes it for
  its own: on Unix nothing is purged when a port is opened (`serial/bmd_rsp.rs:52-58`), on
  Windows it is (323).  `RemoteSession` has this as the constant `Purge`; the properties
  are about sessions that found the line quiet.
- `pick_release` means to leave out the release that runs (`switcher.rs:119-136`), but
  compares a version written without `v` with names that have one; the branch is only
  taken for probes without a version, which count as v1.6.
- `update` calls the release by that text too, so that documentation which is not there
  ends it with an error, while `switch` says where to find it
  (`metadata/firmware_download.rs:51-65`, `bin/bmputil-cli.rs:341`).
- A probe whose version is unknown, invalid or a hash is updated without `--force`.
- Development builds after a candidate are newer than the release
  (`probe_identity.rs:572-600`); two builds as many commits after one base with different
  hashes have no order, and comparing them panics (595).  `OrderTotal` says these are the
  only ones.
- HEX: a file without an end of file record loses its last segment silently
  (`firmware_file/ihex.rs:173-180`); a start address record is taken for a base
  (187-190), which is harmless as long as no data follows; records of types 2 and 3
  panic (191).  ELF and HEX: overlapping segments that reach beyond the last one panic,
  and so do raw files of less than 8 bytes.  `WellFormed` in `FirmwareImage` leaves these
  out, and says which files are left.
- `--port` is documented as a filter (`bin/bmputil-cli.rs:42-44`), and so it is recommended
  when there are several probes, but no command looks at it: `from_params` takes the index
  and the serial number only (`bmp_matcher.rs:46`).  `ActsOnMeant` promises nothing of it.
- `info` numbers the probes it could open; `--index` counts all there are.  `ActsOnMeant`
  is about buses of which all can be opened.
- The viewer counts lines as wrapped at the width of the terminal, and the text in its
  border has 4 columns less: the last lines of a document may be out of reach
  (`docs_viewer.rs:112-124`).  A page down goes on by the height with the border, two lines
  more than are shown.  A terminal without rows panics (197).
- The start of JTAG and SWD is to "report it and abort" if it "failed for some reason", and
  takes every answer for success that does not begin with `E`, `N` for a request the probe
  does not know and `P` for a bad parameter included (`serial/remote/protocol_v0.rs:85`, 104).
- "Potentially install drivers, but still do whatever else the user wanted"
  (`bin/bmputil-cli.rs:636`): a process that is elevated already installs and exits.
- "nothing more to do in the admin process" (`windows.rs:453`): one that finds the drivers
  there by then, or whose parent could not read the registry, goes on to the command, and
  its parent runs it again.  `RunsOnce` excepts these calls, and `TypeOK` says twice is the
  most.
- The arguments of the process that is started again are joined without quotes
  (475), so that one with a blank in it breaks the call; an administrator that
  is not elevated starts itself once more with the added option twice, and that is refused.
- `--override-firmware-type` announces "flashing to user-specified location"
  (`flasher.rs:62-65`), and an ELF or HEX file stays where its load address says
  (`bmp.rs:514-517`).
- The type of raw firmware is found for the platform of the probe before it is detached,
  which a running probe does not show.  `PlacedBelowVector` holds all the same, because
  the start addresses of the other platforms are the same for both types.

## 5. What is proved

TLAPS checks the following for all values of the constants that satisfy the named
assumptions; TLC checks these assumptions, too, on every run.  The theorem says which
property it is about.

| module | theorems | assumptions | inductive invariant |
|---|---|---|---|
| `FlashProbe_proofs` | `TypeCorrect`, `WaitIsBounded`, `SuccessIsFlashed`, `CachedModeIsFresh`, `LeavesWhole`, `HandleIsHeld`, `Implementation` | `ProbeAssumption`, `DeviceAssumption`, `FlashAssumption`: times are numbers, an image has a block | `WaitInv`, `ImageInv`, `LinkInv`, `HandleInv` |
| | `BootloaderIsProgrammed` | `PromptBus`: a probe leaves within the sleep, none stalls or is unplugged | `ModeInv` |
| | `SuccessIsRuntime` | the same, and firmware that starts | `RuntimeInv` |
| | `ReturningIsFound` | `PunctualBus`: back within sleep and timeout, can be opened | `ReturnInv` |
| | `UpdateStepsBounded` | those of the first row | `WaitInv` |
| `ProbeCommands_proofs` | `CommandsTypeCorrect`, `CommandsKeepPromises`, `CommandsHoldHandle`, `CommandsWaitIsBounded`, `CommandStepsBounded` | those of `FlashProbe` | `CommandInv`, `RebootHandleInv`, `WaitInv` |
| | `CommandsProgramBootloader` | `PromptBus` | `CommandInv`, `DepartInv` |
| | `CommandsEndAsPromised` | the same, and firmware that starts | `PromiseInv` |
| | `CommandsReturningIsFound` | `PunctualBus` | `ReturnInv` |
| `RspReader_proofs` | `TypeCorrect` | `ReaderAssumption` | - |
| | `ReaderNeverPanics`, `ReaderReadsFresh`, `ReadUsesBytes` | the same, and that the port does not hang up | `CursorInv` |
| | `ReaderImplementsStream` | the same | `StreamInv` |
| `RemoteSession_proofs` | `TypeCorrect`, `QuietSessionsHearOwn`, `QuietSessionsAgree`, `SessionStepsBounded` | `SessionAssumption`, with every fault | `LineInv`, `QuietInv` |
| | `PromptSessionsHearOwn` | no late answers and no kills | `PromptInv` |
| `FirmwareCache_proofs` | `TypeCorrect`, `AlwaysFresh`, `AlwaysParses`, `AlwaysStays` | `CacheAssumption` | `CacheInv` |
| | `UninterruptedFlashesWhole` | the same | `CacheInv`, `WholeInv` |
| `ChooseFirmware_proofs` | `ChoiceNeverPanics` | `IndicesAssumption`: releases have a `v`, none is a development build, v1.6 is for native probes | `IdentifiedInv` |
| | `PickedIsFlashed` | the same | `PickedInv` |
| | `ChoiceTypeCorrect` | `BusesAssumption`, `CommandsAssumption`: those of a bus, of what may be plugged in later, and of a command line as `clap` makes it; `IndicesAssumption`, `SizesAssumption` | `ChoiceInv`: `BusInv`, `PlacesInv`, `SettledInv`, `MeantInv`, `LatestInv`; `ReadingInv` |
| | `CommandActsOnMeant` | the same, without `SizesAssumption` | `ChoiceInv`, `PickedInv` |
| | `UpdateTakesLatest` | `BusesAssumption`, `CommandsAssumption`, `IndicesAssumption` | `ChoiceInv` |
| | `DocumentationFillsPage` | `SizesAssumption`: a terminal has a row | `ReadingInv` |
| | `OrderFlips`, `OrderAgreesWithEquality`, `OrderTransitive`, `OrderTotal`, `WrittenIsRead` | none | - |
| `FirmwareImage_proofs` | `TypeCorrect`, `FileIsProgrammed`, `RawIsPlaced` | `ImageAssumption`, `StartAssumption`: only native probes start an application elsewhere | `FlowInv`, `PathInv`, `VectorInv` |
| `DriverInstall_proofs` | `TypeCorrect`, `AccessBeforeCommand`, `AloneRunsOnce`, `CallStepsBounded` | `DriverAssumption`, with every fault and any number of calls | `Types`, `AccessInv`, `CallInv` |

Why the invariants are what they are:

- `WaitInv` adds to `WaitBounded` that a poll only starts before the timeout.
- `ImageInv` ties `written` to `image` at every label between erase and the verdict:
  without it nothing is known of the flash when `Identify` says ok, two waits later.
- `LinkInv` says when a handle still reaches its probe; a handle dropped at every reboot
  is why the cached mode is never stale.
- `ModeInv` and `RuntimeInv` say on which side of a reboot the probe is while it is
  waited for.  They need `PromptBus`: `wait_for_probe_reboot` takes whatever is on the
  port, and a probe that has not left yet would be found in its old mode.
- `ReturnInv` compares `Remaining`, what the probe still needs, with what is left of
  sleep and timeout.
- `DepartInv` and `PromiseInv` are about a handle that no longer reaches its probe: whatever
  command follows, the probe is then in the other mode than the handle was opened in, and the
  command that holds it does one more detach at most.
- `CursorInv` is what the loop of `buffer_read` knows of `offset` and `fullness` at each
  label.
- `StreamInv` says what the bytes that are still to be looked at are, in the buffer and on the
  wire (`Pending`): the answers the abstract queue has, laid one after the other (`Laid`),
  behind the rest of the answer that is being copied (`RestOfAnswer`) or, between two calls,
  behind bytes none starts in (`NoStart`).  `MessageInv` ties what has been copied to the first answer.
  The rest of an answer and the next ones cannot be confused, because the bytes
  that start and end an answer (`Resp`, `Eom`) are in no payload.
- `LineInv` counts: a session on a quiet line has as many requests and answers under way
  as it has asked.  `QuietInv` is what the session knows of the firmware by then.
- `CacheInv` follows one file through create, copy and read, for a process that is alone,
  whatever the file was before.  `WholeInv` is about any number of processes that write the
  same release at the same time: each piece that is missing in a file that is not
  `spoiled` is before some process that still copies.
- `PlacesInv` says at which label what is settled: no probe before the bus is searched, no
  release before the probe is identified; and that a probe, once settled, is one of the bus.
  `SettledInv` says the same of the release and its variants: the release is one for the kind of
  that probe.  `MeantInv` takes what was pointed at from the first listing of the probes through the
  replugging to the command: a number means the same probe only as long as the bus is the
  one it was read from.  `LatestInv` is the invariant of the loop of `Metadata::latest`:
  `latest` is no older than any candidate in `looked`, which needs that the order is
  transitive and total on releases (`OrderTransitive`, `OrderTotal`).
- `PickedInv` says that nothing is picked before the list of variants, and that between there
  and the flash `variant` is what was picked, however often the user goes back.
- `ReadingInv` ties the viewer to the terminal through the last change of size that is
  pending; nothing is known of the two before that is read.
- `AccessInv` says of every process that what it does not know to be missing is there, which
  holds because nothing unbinds a driver.  `CallInv` adds the order of the processes of a
  call (`Order`: a child runs while its parent waits, or was killed) and that a child which
  is alone starts with a driver missing (`StillMissing`), so that it never gets to the
  command.
- `PathInv` is in four parts, one for each stretch of the way from the records to the
  flash.  The first, `Cut`, is the invariant of `from_records`: every piece of the records
  processed is kept by a segment or by the data at hand, these are apart, and they cover
  nothing else.  That both directions are needed is seen where a segment starts or goes
  on: the piece must not meet what is there (`NextApart`), and after the loop the gaps
  must be gaps.

## 6. What is only model-checked, and what is not modelled

*Model-checked only.*  `Terminates`, `ReportsAndReturns`, `RecoversByUpdate`, `ReadEnds`,
`SessionEnds` and `EveryCallEnds` are liveness under fairness, which the prover does not
reach.  What is proved towards them is that nothing goes on for ever: `StepsLeft` (of an
update, a command, a session, a call) and `BytesLeft` (of a read) are numbers that every step
lowers, for all lengths of image, sleeps and timeouts and under all faults
(`UpdateStepsBounded`, `CommandStepsBounded`, `SessionStepsBounded`, `CallStepsBounded`,
`ReadUsesBytes`).  That there is a step to take as long as they are not over, and that the
probe is back afterwards, is what TLC shows.  All invariants, action properties and
refinements that the passing runs check are proved, those with a condition under the
condition the table names.

*Simplifications.*  `ProbeCommands` starts the next command when the probe is listed
again.  The 250 ms before the second try of a download are not counted; the probe may
move there anyway.  The Windows variants of the serial port and of the detach are left
out; ports are looked up as on Linux.  Index entries are releases with complete names, and
a URI of a variant has the name of the release as one segment.  HTTP is: an answer whole,
cut off, or none.  The server's hash of the index is equal exactly for equal contents.
JSON, ELF headers and the characters of a HEX record are parsed, or are an error.  Markdown
is the number of lines it comes to, and drawing it is left out.  The cut of the scroll position to 16
bits when it is drawn (`docs_viewer.rs:175`) is not modelled: documents here are shorter.
Between `info` and the command a probe keeps whether it can be opened and read, and its port.  A driver is bound or not;
the calls of Windows succeed or fail.

*Not modelled.*  The debug access of the remote protocol (`serial/remote/adi.rs`,
`riscv_debug.rs`, and the JTAG and SWD structures of the versions), whose operations are
empty or return a constant; the GDB connection, which opens the port and does nothing
else; the lookup of ports in the registry of Windows and the fixed name on macOS; kinds of
errors, formatting, and USB descriptors, which have no state of their own.

## 7. Plan

In the order of what matters most to a user: that a probe is never left unusable, that
what it runs is what was asked for, that what is said of it is true.

| step | modules | state |
|---|---|---|
| 1. updating and rebooting a probe | `UsbProbe`, `BmpDevice`, `FlashProbe`, `FirmwareUpdate` | done; all safety properties and the bound on the steps proved |
| 2. the serial link | `RspReader`, `RspStream`, `RemoteSession` | done; safety and the refinement proved, and that calls and sessions end |
| 3. cache and index | `FirmwareCache` | done; safety proved, and what concurrent downloads leave |
| 4. versions, identities, the choice | `Versions`, `ProbeIdentity`, `BmpMatcher`, `ChooseFirmware` | done; all properties proved |
| 5. firmware images | `FirmwareImage` | done; safety proved |
| 6. the commands on one probe | `ProbeCommands`: `update` and `reboot` in any order, killed anywhere | done; safety and the bound on the steps proved |
| 7. `info`, then a number, a serial number or a port on the command line, and the port that is opened | `ChooseFirmware` with `Info`, `Replug`, `OpenPort`; `ProbeInterface` | done; proved |
| 8. the documentation viewer: scroll position, height, resize | `DocsViewer` | done; proved |
| 9. drivers and elevation on Windows | `DriverInstall` | done; safety and the bound on the steps proved |
| 10. proofs | `ChooseFirmware`: `TypeOK`, `ActsOnMeant`, `UpdatesToLatest`; `RspReader`: `ImplementsStream`; bounds on the steps of everything that has to end | done |
| 11. the Windows variant of the serial port | `RspReader` with its purge and timeouts (`serial/bmd_rsp.rs:255-354`) | to do |

Next in the proofs: abstract specifications beyond `FirmwareUpdate` and `RspStream`, with
the refinement.  Of the cache, a map from names to contents that is read as it was published; of `DriverInstall`, a
call that runs once when both drivers are there, or not at all; of `RemoteSession`, a call
that gets the answer to itself or none.
