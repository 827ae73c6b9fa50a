--------------------------- MODULE FirmwareCache ---------------------------
(***************************************************************************)
(* The cache directory every bmputil on a machine works in: the index of   *)
(* releases, metadata.json (download_metadata and compute_etag of          *)
(* src/metadata/mod.rs), and a file for each release that was downloaded   *)
(* (download_firmware of src/switcher.rs).  Commands of several processes  *)
(* run at any time, may be killed, and lose their connection; what they    *)
(* leave in the directory is what the next ones find.                      *)
(*                                                                         *)
(* The contents of a file is Chunks pieces of a version of what the server *)
(* has, written one after the other.  0 is a piece that is not there.      *)
(***************************************************************************)
EXTENDS Naturals

CONSTANTS
  Procs,     \* processes that run bmputil
  Chunks,    \* pieces a download comes in
  MaxIndex   \* bound: versions of the index that are published

ASSUME CacheAssumption ==
  /\ Chunks \in Nat \ {0}
  /\ MaxIndex \in Nat \ {0}

(* The index is file 0; version v of it lists releases 1 to v, and release *)
(* r is downloaded into file r.                                            *)
Name == 0..MaxIndex
Index == 0
Release == 1..MaxIndex
Data == [1..Chunks -> 0..MaxIndex]
File == [there : BOOLEAN, data : Data]

Whole(v) == [k \in 1..Chunks |-> v]
Absent == [there |-> FALSE, data |-> Whole(0)]
Truncated == [there |-> TRUE, data |-> Whole(0)]
WholeFile(v) == [there |-> TRUE, data |-> Whole(v)]

VARIABLES
  published,  \* version of the index the server has
  cache,      \* the files of the cache directory
  pc,         \* where each process is in its command
  etag,       \* the contents it hashed, Absent if there is none
  target,     \* the file it downloads, or the release it installs
  pos,        \* pieces of it written
  index,      \* the version of the index it read, 0 before that
  asked,      \* the version the server had when it was asked, 0 before that
  alone,      \* history: no other command ran at the same time
  spoiled     \* history: releases a download of which was broken off

process == <<pc, etag, target, pos, index, asked>>
vars == <<published, cache, process, alone, spoiled>>

Idle == "idle"
Labels ==
  {Idle, "etag", "index", "create", "copy", "parse", "choose", "exists", "firmware",
   "flash"}

TypeOK ==
  /\ published \in Release
  /\ cache \in [Name -> File]
  /\ pc \in [Procs -> Labels]
  /\ etag \in [Procs -> File]
  /\ target \in [Procs -> Name]
  /\ pos \in [Procs -> 0..Chunks]
  /\ index \in [Procs -> 0..MaxIndex]
  /\ asked \in [Procs -> 0..MaxIndex]
  /\ alone \in [Procs -> BOOLEAN]
  /\ spoiled \subseteq Release

Init ==
  /\ published = 1
  /\ cache = [f \in Name |-> Absent]
  /\ pc = [p \in Procs |-> Idle]
  /\ etag = [p \in Procs |-> Absent]
  /\ target = [p \in Procs |-> Index]
  /\ pos = [p \in Procs |-> 0]
  /\ index = [p \in Procs |-> 0]
  /\ asked = [p \in Procs |-> 0]
  /\ alone = [p \in Procs |-> TRUE]
  /\ spoiled = {}

-----------------------------------------------------------------------------
(* A release is published: the server has a new index.                     *)
Publish ==
  /\ published < MaxIndex
  /\ published' = published + 1
  /\ UNCHANGED <<cache, process, alone, spoiled>>

Goto(p, label) == pc' = [pc EXCEPT ![p] = label]

(* What a process knew is gone with it; the files are not, and a release   *)
(* it has not copied to the end stays as it is.                            *)
End(p) ==
  /\ Goto(p, Idle)
  /\ etag' = [etag EXCEPT ![p] = Absent]
  /\ target' = [target EXCEPT ![p] = Index]
  /\ pos' = [pos EXCEPT ![p] = 0]
  /\ index' = [index EXCEPT ![p] = 0]
  /\ asked' = [asked EXCEPT ![p] = 0]
  /\ alone' = [alone EXCEPT ![p] = TRUE]
  /\ spoiled' = spoiled \cup (IF pc[p] = "copy" THEN {target[p]} \ {Index} ELSE {})
  /\ UNCHANGED <<published, cache>>

(* The user runs releases, update or switch.                               *)
Start(p) ==
  /\ pc[p] = Idle
  /\ Goto(p, "etag")
  /\ alone' = [q \in Procs |->
                 IF q = p THEN \A o \in Procs \ {p} : pc[o] = Idle
                          ELSE alone[q] /\ pc[q] = Idle]
  /\ UNCHANGED <<published, cache, etag, target, pos, index, asked, spoiled>>

Kill(p) == pc[p] # Idle /\ End(p)

(* A request or a transfer fails, or takes longer than its two seconds.    *)
Fail(p) == pc[p] \in {"index", "copy", "firmware"} /\ End(p)

(* compute_etag.                                                           *)
ComputeEtag(p) ==
  /\ pc[p] = "etag"
  /\ etag' = [etag EXCEPT ![p] = cache[Index]]
  /\ Goto(p, "index")
  /\ UNCHANGED <<published, cache, target, pos, index, asked, alone, spoiled>>

(* Mutant: any file that is there is taken for the one the server has.     *)
RequestIndex_any(p) ==
  /\ pc[p] = "index"
  /\ asked' = [asked EXCEPT ![p] = published]
  /\ Goto(p, IF etag[p].there THEN "parse" ELSE "create")
  /\ UNCHANGED <<published, cache, etag, target, pos, index, alone, spoiled>>

(* The server answers 304 to the hash of what it has, and otherwise sends  *)
(* it.                                                                     *)
RequestIndex(p) ==
  /\ pc[p] = "index"
  /\ asked' = [asked EXCEPT ![p] = published]
  /\ Goto(p, IF etag[p] = WholeFile(published) THEN "parse" ELSE "create")
  /\ UNCHANGED <<published, cache, etag, target, pos, index, alone, spoiled>>

(* Mutant: the file is opened for append, as it is.                        *)
CreateFile_append(p) ==
  /\ pc[p] = "create"
  /\ cache' = [cache EXCEPT ![target[p]].there = TRUE]
  /\ pos' = [pos EXCEPT ![p] = IF cache[target[p]].there THEN 1 ELSE 0]
  /\ Goto(p, "copy")
  /\ UNCHANGED <<published, etag, target, index, asked, alone, spoiled>>

(* File::create cuts what is there to nothing.                             *)
CreateFile(p) ==
  /\ pc[p] = "create"
  /\ cache' = [cache EXCEPT ![target[p]] = Truncated]
  /\ pos' = [pos EXCEPT ![p] = 0]
  /\ Goto(p, "copy")
  /\ UNCHANGED <<published, etag, target, index, asked, alone, spoiled>>

(* What the server sends: the index it had, or the release.                *)
Body(p) == IF target[p] = Index THEN asked[p] ELSE target[p]

(* Mutant: one piece too many.                                             *)
CopyChunk_past(p) ==
  /\ pc[p] = "copy"
  /\ pos[p] <= Chunks
  /\ cache' = [cache EXCEPT ![target[p]].data =
                   [k \in 1..(pos[p] + 1) |-> IF k <= pos[p] THEN @[k] ELSE Body(p)]]
  /\ pos' = [pos EXCEPT ![p] = @ + 1]
  /\ UNCHANGED <<published, pc, etag, target, index, asked, alone, spoiled>>

(* copy_to writes what comes in where this process has got to.             *)
CopyChunk(p) ==
  /\ pc[p] = "copy"
  /\ pos[p] < Chunks
  /\ cache' = [cache EXCEPT ![target[p]].data[pos[p] + 1] = Body(p)]
  /\ pos' = [pos EXCEPT ![p] = @ + 1]
  /\ UNCHANGED <<published, pc, etag, target, index, asked, alone, spoiled>>

(* Mutant: a transfer that breaks off counts as done.                      *)
Copied_short(p) ==
  /\ pc[p] = "copy"
  /\ Goto(p, IF target[p] = Index THEN "parse" ELSE "flash")
  /\ UNCHANGED <<published, cache, etag, target, pos, index, asked, alone, spoiled>>

Copied(p) ==
  /\ pc[p] = "copy"
  /\ pos[p] = Chunks
  /\ Goto(p, IF target[p] = Index THEN "parse" ELSE "flash")
  /\ UNCHANGED <<published, cache, etag, target, pos, index, asked, alone, spoiled>>

(* The index is opened again and parsed; what is not a whole index is not  *)
(* one.                                                                    *)
ParseIndex(p) ==
  /\ pc[p] = "parse"
  /\ \/ \E v \in Release :
          /\ cache[Index].data = Whole(v)
          /\ index' = [index EXCEPT ![p] = v]
          /\ Goto(p, "choose")
          /\ UNCHANGED <<published, cache, etag, target, pos, asked, alone, spoiled>>
     \/ /\ \A v \in Release : cache[Index].data # Whole(v)
        /\ End(p)

(* A release of the index is chosen, by update or by the user of switch,   *)
(* or the command was releases and is done.                                *)
Choose(p) ==
  /\ pc[p] = "choose"
  /\ \/ /\ \E r \in 1..index[p] : target' = [target EXCEPT ![p] = r]
        /\ Goto(p, "exists")
        /\ UNCHANGED <<published, cache, etag, pos, index, asked, alone, spoiled>>
     \/ End(p)

(* Mutant: the release is downloaded whether it is there or not.           *)
FindFirmware_always(p) ==
  /\ pc[p] = "exists"
  /\ Goto(p, "firmware")
  /\ UNCHANGED <<published, cache, etag, target, pos, index, asked, alone, spoiled>>

(* download_firmware takes the file that is there.                         *)
FindFirmware(p) ==
  /\ pc[p] = "exists"
  /\ Goto(p, IF cache[target[p]].there THEN "flash" ELSE "firmware")
  /\ UNCHANGED <<published, cache, etag, target, pos, index, asked, alone, spoiled>>

RequestFirmware(p) ==
  /\ pc[p] = "firmware"
  /\ Goto(p, "create")
  /\ UNCHANGED <<published, cache, etag, target, pos, index, asked, alone, spoiled>>

(* flash_probe reads the file, and the command no longer uses the cache.   *)
Flash(p) == pc[p] = "flash" /\ End(p)

Next ==
  \/ Publish
  \/ \E p \in Procs :
       \/ Start(p) \/ ComputeEtag(p) \/ RequestIndex(p) \/ CreateFile(p) \/ CopyChunk(p)
       \/ Copied(p) \/ ParseIndex(p) \/ Choose(p) \/ FindFirmware(p) \/ RequestFirmware(p)
       \/ Flash(p) \/ Fail(p) \/ Kill(p)

Spec == Init /\ [][Next]_vars

-----------------------------------------------------------------------------
(* A command that runs alone acts on the index the server had when it      *)
(* asked, whatever earlier commands left in the cache, and never on an     *)
(* older one (metadata/mod.rs:23-67).                                      *)
AloneFresh ==
  \A p \in Procs : (alone[p] /\ index[p] # 0) => index[p] = asked[p]

(* Nothing an earlier command left behind makes one that runs alone fail   *)
(* to parse the index: a damaged cache heals (metadata/mod.rs:27-48).      *)
AloneParses ==
  \A p \in Procs :
    (alone[p] /\ pc[p] = "parse") => \E v \in Release : cache[Index] = WholeFile(v)

(* A release that is in the cache stays there, whole, as long as commands  *)
(* run one at a time (switcher.rs:186-190).                                *)
WholeStays ==
  [][\A r \in Release :
       (cache[r] = WholeFile(r) /\ \A p \in Procs : alone[p])
         => cache'[r] = WholeFile(r)]_vars

(* What a command that runs alone gives to flash_probe is all of the       *)
(* release, unless a download of it was broken off before: neither the     *)
(* commands that ran before, however many downloaded the same release at   *)
(* the same time, nor its own download leave less (switcher.rs:186-221).   *)
UnspoiledFlashesWhole ==
  \A p \in Procs :
    (alone[p] /\ pc[p] = "flash" /\ target[p] \notin spoiled)
      => cache[target[p]] = WholeFile(target[p])

(* "Better to die early and have them retry" (switcher.rs:200-202): the    *)
(* file a command that runs alone gives to flash_probe is all of the       *)
(* release.                                                                *)
AloneFlashesWhole ==
  \A p \in Procs :
    (alone[p] /\ pc[p] = "flash") => cache[target[p]] = WholeFile(target[p])
=============================================================================
