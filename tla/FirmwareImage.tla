--------------------------- MODULE FirmwareImage ----------------------------
(***************************************************************************)
(* From a file to bytes at an address: FirmwareFile::from_path with the    *)
(* ELF, Intel HEX and raw readers of src/firmware_file/, the type of       *)
(* firmware (src/firmware_type.rs, src/flasher.rs) and the address that    *)
(* BmpDevice::download programs the image at.                              *)
(*                                                                         *)
(* The program headers of an ELF file and the records of an Intel HEX file *)
(* are both `records': an address and data.  Arithmetic is that of a       *)
(* release build: an address of Space is 0.                                *)
(***************************************************************************)
EXTENDS Integers, Sequences, FiniteSetsExt

CONSTANTS
  Space,       \* number of addresses, 2^32
  Erased,      \* what erased flash reads as, 0xff
  WordLen,     \* bytes of a word, 4
  FlashBit,    \* the bit every address in flash has, 0x0800_0000
  HexRecords,  \* records a HEX file may have
  MaxRecords,  \* bound: records in a HEX file
  Headers,     \* program headers an ELF file may have
  ElfFiles,    \* lists of program headers ELF files may have
  RawFiles,    \* contents raw files may have
  Platforms,   \* kinds of bootloaders
  Native,      \* the one a running probe is taken to have
  Start        \* BmpPlatform::load_address

Byte == 0..255
Address == 0..(Space - 1)
Types == {"Bootloader", "Application"}

Record == [type : {"data", "eof", "linear", "start", "todo", "other", "outside"},
           address : Address, data : {bytes \in Seq(Byte) : Len(bytes) < Space}]

ASSUME ImageAssumption ==
  /\ Space \in Nat \ {0} /\ WordLen \in 1..4 /\ FlashBit \in Nat \ {0}
  /\ MaxRecords \in Nat /\ Erased \in Byte
  /\ HexRecords \subseteq Record
  /\ Headers \subseteq Record
  /\ ElfFiles \subseteq Seq(Headers) /\ RawFiles \subseteq Seq(Byte)
  /\ Native \in Platforms /\ Start \in [Platforms -> [Types -> Address]]

(* Only native bootloaders keep an application and a bootloader apart.     *)
ASSUME StartAssumption ==
  /\ Start[Native]["Bootloader"] <= Start[Native]["Application"]
  /\ \A p \in Platforms \ {Native} : Start[p]["Bootloader"] = Start[p]["Application"]

VARIABLES
  pc,        \* where the command is
  platform,  \* the kind of bootloader the probe really has
  running,   \* whether it ran its firmware when it was found
  form,      \* what the signature of the file says it is
  records,   \* records, or program headers, of the file
  idx,       \* records processed
  base, begin, end, data,  \* locals of from_records
  segments,  \* address -> data
  image,     \* the flattened image
  type,      \* the type of firmware
  override,  \* --override-firmware-type, or "none"
  at,        \* address the image is programmed at
  result     \* how it ended

given == <<platform, running>>
file == <<form, records>>
walk == <<idx, base, begin, end, data, segments>>
vars == <<pc, given, file, walk, image, type, override, at, result>>

TypeOK ==
  /\ pc \in {"open", "read", "process", "collect", "build", "detect", "override",
             "download", "done"}
  /\ platform \in Platforms /\ running \in BOOLEAN
  /\ form \in {"none", "elf", "hex", "raw"}
  /\ records \in Seq(Record) /\ idx \in 0..Len(records)
  /\ {base, begin, end, at} \subseteq Address /\ data \in Seq(Byte)
  /\ DOMAIN segments \subseteq Address
  /\ segments \in [DOMAIN segments -> Seq(Byte)]
  /\ image \in Seq(Byte)
  /\ type \in Types \cup {"none"} /\ override \in Types \cup {"none"}
  /\ result \in {"none", "ok", "error", "panic", "refused", "unreadable"}

Init ==
  /\ pc = "open"
  /\ platform \in Platforms /\ running \in BOOLEAN
  /\ form = "none" /\ records = <<>>
  /\ idx = 0 /\ base = 0 /\ begin = 0 /\ end = 0 /\ data = <<>> /\ segments = <<>>
  /\ image = <<>> /\ type = "none" /\ override = "none" /\ at = 0
  /\ result = "none"

Finish(r) ==
  /\ pc' = "done" /\ result' = r
  /\ UNCHANGED <<given, file, walk, image, type, override, at>>

(* Mutant: sums are wider than addresses.                                  *)
Wrap_wide(sum) == sum

(* A sum of two addresses, or of an address and a length.                  *)
Wrap(sum) == IF sum < Space THEN sum ELSE sum - Space

-----------------------------------------------------------------------------
(* from_path: the signature decides on the reader.  Files that cannot be   *)
(* read, and ELF files of other machines, are errors.                      *)
FromPath ==
  /\ pc = "open"
  /\ \/ /\ \E f \in ElfFiles : records' = f
        /\ form' = "elf" /\ pc' = "collect"
        /\ UNCHANGED <<given, walk, image, type, override, at, result>>
     \/ /\ form' = "hex" /\ pc' = "read"
        /\ UNCHANGED <<given, records, walk, image, type, override, at, result>>
     \/ /\ \E f \in RawFiles : image' = f
        /\ form' = "raw" /\ pc' = "detect"
        /\ UNCHANGED <<given, records, walk, type, override, at, result>>
     \/ Finish("unreadable")

(* One record of a HEX file.  The file ends where no other record follows; *)
(* a checksum, a length or a type that is wrong is an error.               *)
ReadRecord ==
  /\ pc = "read"
  /\ \/ /\ Len(records) < MaxRecords
        /\ \E r \in HexRecords : records' = Append(records, r)
        /\ pc' \in {"read", "process"}
        /\ UNCHANGED <<given, form, walk, image, type, override, at, result>>
     \/ Finish("unreadable")

(* A later segment with the address of an earlier one takes its place.     *)
Put(segs, address, bytes) ==
  [a \in DOMAIN segs \cup {address} |-> IF a = address THEN bytes ELSE segs[a]]

Flushed == IF end # begin THEN Put(segments, begin, data) ELSE segments

(* Mutant: the data read so far is not kept when there is a gap.           *)
AddData_dropped(r) ==
  LET address == Wrap(base + r.address) IN
  /\ IF end # address
     THEN /\ begin' = address /\ end' = Wrap(address + Len(r.data))
          /\ data' = r.data
     ELSE /\ end' = Wrap(end + Len(r.data)) /\ data' = data \o r.data
          /\ UNCHANGED begin
  /\ UNCHANGED <<base, segments>>

(* A data record: more of the segment at hand, or the start of another.    *)
AddData(r) ==
  LET address == Wrap(base + r.address) IN
  /\ IF end # address
     THEN /\ segments' = Flushed
          /\ begin' = address /\ end' = Wrap(address + Len(r.data))
          /\ data' = r.data
     ELSE /\ end' = Wrap(end + Len(r.data)) /\ data' = data \o r.data
          /\ UNCHANGED <<begin, segments>>
  /\ UNCHANGED base

(* from_records, one record at a time.  Only an end of file record puts    *)
(* away the last segment, and a start address is taken for a base.         *)
ProcessRecord ==
  LET r == records[idx + 1] IN
  /\ pc = "process" /\ idx < Len(records)
  /\ CASE r.type = "todo" -> Finish("panic")
       [] r.type = "eof" /\ idx + 1 # Len(records) -> Finish("error")
       [] OTHER ->
            /\ idx' = idx + 1
            /\ CASE r.type = "data" -> AddData(r)
                 [] r.type = "eof" -> /\ segments' = Flushed
                                      /\ data' = <<>>
                                      /\ UNCHANGED <<base, begin, end>>
                 [] OTHER -> base' = r.address /\ UNCHANGED <<begin, end, data, segments>>
            /\ UNCHANGED <<pc, given, file, image, type, override, at, result>>

EndOfRecords ==
  /\ pc = "process" /\ idx = Len(records)
  /\ pc' = "build"
  /\ UNCHANGED <<given, file, walk, image, type, override, at, result>>

(* The loadable program headers with data, by their addresses.  Data that  *)
(* the file does not have ("outside") is sliced out of bounds.             *)
IsLoaded(i) == records[i].type = "data" /\ records[i].data # <<>>
Loaded == {i \in 1..Len(records) : IsLoaded(i)}

CollectSegments ==
  LET last(a) == Max({i \in Loaded : records[i].address = a}) IN
  /\ pc = "collect"
  /\ IF \E i \in 1..Len(records) : records[i].type = "outside" THEN Finish("panic")
     ELSE /\ segments' = [a \in {records[i].address : i \in Loaded} |-> records[last(a)].data]
          /\ pc' = "build"
          /\ UNCHANGED <<given, file, idx, base, begin, end, data, image, type, override,
                        at, result>>

-----------------------------------------------------------------------------
(* build_firmware_image.                                                   *)
SegmentEnd(a) == a + Len(segments[a])
Lowest == Min(DOMAIN segments)
Highest == Max(DOMAIN segments)
Over(a) == {b \in DOMAIN segments : b <= a /\ a < SegmentEnd(b)}

(* Erased where there is no segment, the later one where there are two.    *)
ByteAt(a) ==
  IF Over(a) = {} THEN Erased
  ELSE LET b == Max(Over(a)) IN segments[b][a - b + 1]

(* From the start of the first segment to the end of the last.             *)
Flat ==
  IF DOMAIN segments = {} THEN <<>>
  ELSE [k \in 1..(SegmentEnd(Highest) - Lowest) |-> ByteAt(Lowest + k - 1)]

(* A segment that reaches beyond the last one, or to the end of the        *)
(* address space, is copied out of bounds.                                 *)
Fits ==
  \A a \in DOMAIN segments :
    SegmentEnd(a) <= SegmentEnd(Highest) /\ SegmentEnd(a) < Space

BuildFirmwareImage ==
  /\ pc = "build"
  /\ IF Fits
     THEN /\ image' = Flat
          /\ pc' = "detect"
          /\ UNCHANGED <<given, file, walk, type, override, at, result>>
     ELSE Finish("panic")

(* load_address: of nothing in a raw file and a file without data.         *)
LoadAddress == IF DOMAIN segments = {} THEN {} ELSE {Lowest}

-----------------------------------------------------------------------------
(* What from_vid_pid makes of the probe before it is detached.             *)
Seen == IF running THEN Native ELSE platform

(* The second word of the vector table, low byte first.                    *)
ResetVector ==
  LET byte(i) == IF i < WordLen THEN image[WordLen + 1 + i] ELSE 0 IN
  byte(0) + 256 * byte(1) + 65536 * byte(2) + 16777216 * byte(3)

DetectedType ==
  IF LoadAddress # {}
  THEN IF Lowest = Start[Seen]["Bootloader"] THEN "Bootloader" ELSE "Application"
  ELSE IF ResetVector > Start[Seen]["Application"] THEN "Application" ELSE "Bootloader"

DetectFromFirmware ==
  /\ pc = "detect"
  /\ IF LoadAddress = {} /\ Len(image) < 2 * WordLen THEN Finish("panic")
     ELSE IF LoadAddress = {} /\ (ResetVector \div FlashBit) % 2 = 0 THEN Finish("error")
     ELSE /\ type' = DetectedType
          /\ pc' = "override"
          /\ UNCHANGED <<given, file, walk, image, override, at, result>>

(* determine_firmware_type: the user may overrule it, if they mean it.     *)
OverrideType ==
  /\ pc = "override"
  /\ \/ /\ pc' = "download"
        /\ UNCHANGED <<given, file, walk, image, type, override, at, result>>
     \/ /\ override' \in Types
        /\ type' = override'
        /\ pc' = "download"
        /\ UNCHANGED <<given, file, walk, image, at, result>>
     \/ Finish("refused")

(* Mutant: the bootloader is taken for the one that was seen before.       *)
Download_stale ==
  /\ pc = "download"
  /\ \E a \in IF LoadAddress = {} THEN {Start[Seen][type]} ELSE LoadAddress : at' = a
  /\ pc' = "done" /\ result' = "ok"
  /\ UNCHANGED <<given, file, walk, image, type, override>>

(* download: the probe is in its bootloader now, and what kind it is can   *)
(* be seen.                                                                *)
Download ==
  /\ pc = "download"
  /\ \E a \in IF LoadAddress = {} THEN {Start[platform][type]} ELSE LoadAddress : at' = a
  /\ pc' = "done" /\ result' = "ok"
  /\ UNCHANGED <<given, file, walk, image, type, override>>

Next ==
  \/ FromPath \/ ReadRecord \/ ProcessRecord \/ EndOfRecords \/ CollectSegments
  \/ BuildFirmwareImage \/ DetectFromFirmware \/ OverrideType \/ Download

Spec == Init /\ [][Next]_vars

-----------------------------------------------------------------------------
(* What a file says, by the format and not by the code: the address of     *)
(* each piece of data is its own and that of the latest extended linear    *)
(* address before it.                                                      *)
Bases(i) == {j \in 1..(i - 1) : records[j].type = "linear"}
Place(i) ==
  records[i].address + (IF Bases(i) = {} THEN 0 ELSE records[Max(Bases(i))].address)
PlaceEnd(i) == Place(i) + Len(records[i].data)

Apart ==
  \A i, j \in Loaded : i # j => PlaceEnd(i) <= Place(j) \/ PlaceEnd(j) <= Place(i)

(* An end of file record ends a HEX file, and start addresses come last.   *)
Ordered ==
  \A i \in 1..Len(records) :
    /\ records[i].type \in {"data", "linear", "start", "eof"}
    /\ (records[i].type = "eof") = (i = Len(records))
    /\ records[i].type = "start" => \A j \in i..Len(records) : records[j].type # "data"

(* A file with some data, no byte of it twice, and none at the very end of *)
(* the address space.                                                      *)
WellFormed ==
  /\ Loaded # {}
  /\ Apart
  /\ \A i \in Loaded : PlaceEnd(i) < Space
  /\ form = "hex" => Ordered
  /\ form = "elf" => \A i \in 1..Len(records) : records[i].type \in {"data", "other"}

(* The image holds the byte a at k.                                        *)
Programs(a, byte) == a - at + 1 \in 1..Len(image) /\ image[a - at + 1] = byte

(* A well-formed ELF or HEX file is not refused or stumbled over: every    *)
(* byte of it is programmed at its address (build_firmware_image,          *)
(* elf.rs:79-123, ihex.rs:100-131, download, bmp.rs:515-534), however its  *)
(* pieces are ordered, cut and joined, and what is between them is erased. *)
ProgramsWhatFileSays ==
  (form \in {"elf", "hex"} /\ pc = "done" /\ result # "unreadable" /\ WellFormed) =>
    /\ result \in {"ok", "refused"}
    /\ result = "ok" =>
         /\ \A i \in Loaded : \A k \in 1..Len(records[i].data) :
              Programs(Place(i) + k - 1, records[i].data[k])
         /\ \A a \in at..(at + Len(image) - 1) :
              (\A i \in Loaded : a \notin Place(i)..(PlaceEnd(i) - 1)) => Programs(a, Erased)

(* A raw image, which has no address, is programmed where its reset vector *)
(* says it was linked: at the last place firmware may start at below the   *)
(* vector.  The type is found before the probe is detached, when it can    *)
(* not be seen what bootloader it has (firmware_type.rs:76-118,            *)
(* bmp.rs:514-517).                                                        *)
PlacedBelowVector ==
  (form = "raw" /\ result = "ok" /\ override = "none") =>
    LET starts == {s \in {Start[platform][t] : t \in Types} : s < ResetVector} IN
    starts # {} => at = Max(starts)
=============================================================================
