------------------------ MODULE FirmwareCache_proofs ------------------------
(***************************************************************************)
(* Proofs about FirmwareCache, for any processes, pieces and versions.     *)
(*                                                                         *)
(* What a command that runs alone relies on depends on where it is:        *)
(* AloneInv says it label by label, and IdleInv what a process starts      *)
(* from.  WholeInv is about commands that run at the same time: who will   *)
(* still write the pieces that a release in the cache has not got.         *)
(***************************************************************************)
EXTENDS FirmwareCache, TLAPS

(* A process that runs no command knows nothing of an earlier one.         *)
IdleInv ==
  \A p \in Procs : pc[p] = Idle => target[p] = Index /\ index[p] = 0 /\ asked[p] = 0

(* What p has written so far of the file it downloads.                     *)
Written(p) == [k \in 1..Chunks |-> IF k <= pos[p] THEN Body(p) ELSE 0]

(* The index: p knows its hash before it asks, and has it whole when it    *)
(* parses it.                                                              *)
IndexPart(p) ==
  /\ pc[p] \in {"etag", "index", "parse", "choose"} => target[p] = Index
  /\ pc[p] = "index" => etag[p] = cache[Index]
  /\ pc[p] \in {"etag", "index", "parse"} => index[p] = 0
  /\ (pc[p] \in {"create", "copy"} /\ target[p] = Index) =>
       (asked[p] \in Release /\ index[p] = 0)
  /\ pc[p] = "parse" => (asked[p] \in Release /\ cache[Index] = WholeFile(asked[p]))
  /\ index[p] # 0 => index[p] = asked[p]

(* The release: p only writes one that is not there.                       *)
ReleasePart(p) ==
  /\ pc[p] \in {"exists", "firmware", "flash"} => target[p] \in Release
  /\ pc[p] = "firmware" => ~cache[target[p]].there
  /\ (pc[p] = "create" /\ target[p] # Index) => ~cache[target[p]].there

CopyPart(p) ==
  pc[p] = "copy" => (cache[target[p]].there /\ cache[target[p]].data = Written(p))

AloneInv ==
  \A p \in Procs :
    (alone[p] /\ pc[p] # Idle) =>
      /\ \A q \in Procs \ {p} : pc[q] = Idle
      /\ IndexPart(p)
      /\ ReleasePart(p)
      /\ CopyPart(p)

CacheInv == TypeOK /\ IdleInv /\ AloneInv

-----------------------------------------------------------------------------
(* Every state of every behaviour has the types TypeOK gives it.           *)
THEOREM TypeCorrect == Spec => []TypeOK
<1> USE CacheAssumption DEF TypeOK
<1>0. /\ Absent \in File
      /\ Truncated \in File
  BY DEF Absent, Truncated, Whole, File, Data
<1>1. Init => TypeOK
  BY <1>0 DEF Init, Name, Index, Release, Labels, Idle
<1>2. TypeOK /\ [Next]_vars => TypeOK'
  <2> SUFFICES ASSUME TypeOK, [Next]_vars PROVE TypeOK'
    OBVIOUS
  <2> USE DEF Goto, process
  <2>0. ASSUME NEW p \in Procs, End(p) PROVE TypeOK'
    <3>1. spoiled' \subseteq Release
      <4>1. target[p] # Index => target[p] \in Release
        BY DEF Name, Index, Release
      <4> QED
        BY <2>0, <4>1 DEF End
    <3> QED
      BY <1>0, <2>0, <3>1 DEF End, Labels, Idle, Name, Index
  <2>1. CASE Publish
    BY <2>1 DEF Publish, Release
  <2>2. ASSUME NEW p \in Procs, Start(p) PROVE TypeOK'
    <3>1. alone' \in [Procs -> BOOLEAN]
      BY <2>2 DEF Start
    <3>2. pc' \in [Procs -> Labels]
      BY <2>2 DEF Start, Labels
    <3> QED
      BY <2>2, <3>1, <3>2 DEF Start
  <2>3. ASSUME NEW p \in Procs, ComputeEtag(p) PROVE TypeOK'
    <3>1. cache[Index] \in File
      BY DEF Name, Index
    <3> QED
      BY <2>3, <3>1 DEF ComputeEtag, Labels
  <2>4. ASSUME NEW p \in Procs, RequestIndex(p) PROVE TypeOK'
    BY <2>4 DEF RequestIndex, Labels, Release
  <2>5. ASSUME NEW p \in Procs, CreateFile(p) PROVE TypeOK'
    BY <1>0, <2>5 DEF CreateFile, Labels
  <2>6. ASSUME NEW p \in Procs, CopyChunk(p) PROVE TypeOK'
    <3>1. Body(p) \in 0..MaxIndex
      BY DEF Body, Name
    <3>2. cache[target[p]] \in File /\ pos[p] + 1 \in 1..Chunks
      BY <2>6 DEF CopyChunk
    <3>3. [cache[target[p]] EXCEPT !.data[pos[p] + 1] = Body(p)] \in File
      BY <3>1, <3>2 DEF File, Data
    <3>4. cache' \in [Name -> File]
      BY <2>6, <3>3 DEF CopyChunk
    <3> QED
      BY <2>6, <3>2, <3>4 DEF CopyChunk
  <2>7. ASSUME NEW p \in Procs, Copied(p) PROVE TypeOK'
    BY <2>7 DEF Copied, Labels
  <2>8. ASSUME NEW p \in Procs, ParseIndex(p) PROVE TypeOK'
    <3>1. ASSUME NEW v \in Release, index' = [index EXCEPT ![p] = v]
          PROVE  index' \in [Procs -> 0..MaxIndex]
      BY <3>1 DEF Release
    <3> QED
      BY <2>0, <2>8, <3>1 DEF ParseIndex, Labels
  <2>9. ASSUME NEW p \in Procs, Choose(p) PROVE TypeOK'
    <3>1. ASSUME NEW r \in 1..index[p], target' = [target EXCEPT ![p] = r]
          PROVE  target' \in [Procs -> Name]
      BY <3>1 DEF Name
    <3> QED
      BY <2>0, <2>9, <3>1 DEF Choose, Labels
  <2>10. ASSUME NEW p \in Procs, FindFirmware(p) PROVE TypeOK'
    BY <2>10 DEF FindFirmware, Labels
  <2>11. ASSUME NEW p \in Procs, RequestFirmware(p) PROVE TypeOK'
    BY <2>11 DEF RequestFirmware, Labels
  <2>12. CASE UNCHANGED vars
    BY <2>12 DEF vars
  <2> QED
    BY <2>0, <2>1, <2>2, <2>3, <2>4, <2>5, <2>6, <2>7, <2>8, <2>9, <2>10, <2>11, <2>12
    DEF Next, Flash, Fail, Kill
<1> QED
  BY <1>1, <1>2, PTL DEF Spec

-----------------------------------------------------------------------------
(* Two whole versions that are the same contents are the same version.     *)
LEMMA WholeInjective ==
  ASSUME NEW v \in Nat, NEW w \in Nat, Whole(v) = Whole(w)
  PROVE  v = w
<1>1. 1 \in 1..Chunks
  BY CacheAssumption
<1> QED
  BY <1>1 DEF Whole

(* What the invariant says of a process is what it says of any other that  *)
(* runs: the one that takes a step is the only one that is not idle.       *)
LEMMA OthersIdle ==
  ASSUME CacheInv, NEW p \in Procs, NEW q \in Procs, q # p,
         pc[p] # Idle, alone[q], pc[q] # Idle
  PROVE  FALSE
BY DEF CacheInv, AloneInv

(* A step of p that is not the start or the end of a command keeps the     *)
(* invariant if it keeps p's part of it.                                   *)
LEMMA OwnPart ==
  ASSUME CacheInv, TypeOK', NEW p \in Procs, NEW label, label # Idle,
         pc[p] # Idle, pc' = [pc EXCEPT ![p] = label], alone' = alone,
         \A q \in Procs \ {p} : target'[q] = target[q] /\ index'[q] = index[q]
                               /\ asked'[q] = asked[q],
         alone[p] => (IndexPart(p) /\ ReleasePart(p) /\ CopyPart(p))'
  PROVE  CacheInv'
<1> USE DEF CacheInv
<1>1. pc'[p] = label /\ \A q \in Procs \ {p} : pc'[q] = pc[q]
  BY DEF TypeOK
<1>2. IdleInv'
  BY <1>1 DEF IdleInv
<1>3. ASSUME NEW q \in Procs, alone'[q], pc'[q] # Idle
      PROVE  q = p
  BY <1>1, <1>3, OthersIdle
<1>4. AloneInv'
  <2>1. alone[p] => \A q \in Procs \ {p} : pc'[q] = Idle
    BY <1>1 DEF AloneInv
  <2> QED
    BY <1>3, <2>1 DEF AloneInv
<1> QED
  BY <1>2, <1>4

(* The end of a command keeps the invariant.                               *)
LEMMA EndKeeps ==
  ASSUME CacheInv, TypeOK', NEW p \in Procs, pc[p] # Idle, End(p)
  PROVE  CacheInv'
<1> USE DEF CacheInv
<1>1. /\ pc'[p] = Idle /\ target'[p] = Index /\ index'[p] = 0 /\ asked'[p] = 0
      /\ \A q \in Procs \ {p} : /\ pc'[q] = pc[q]
                                /\ target'[q] = target[q]
                                /\ index'[q] = index[q]
                                /\ asked'[q] = asked[q]
                                /\ alone'[q] = alone[q]
  BY DEF End, Goto, TypeOK
<1>2. IdleInv'
  BY <1>1 DEF IdleInv
<1>3. AloneInv'
  <2> SUFFICES ASSUME NEW q \in Procs, alone'[q], pc'[q] # Idle PROVE FALSE
    BY DEF AloneInv
  <2>1. q # p
    BY <1>1
  <2> QED
    BY <1>1, <2>1, OthersIdle
<1> QED
  BY <1>2, <1>3

(* What a command that runs alone relies on is so, in every state of every *)
(* behaviour.                                                              *)
THEOREM CacheInductive == Spec => []CacheInv
<1> USE CacheAssumption
<1>1. Init => CacheInv
  <2> SUFFICES ASSUME Init PROVE IdleInv /\ AloneInv
    <3>1. Init => TypeOK
      BY DEF Init, TypeOK, Absent, Whole, File, Data, Name, Index, Release, Labels, Idle
    <3> QED
      BY <3>1 DEF CacheInv
  <2> QED
    BY DEF Init, IdleInv, AloneInv
<1>2. CacheInv /\ TypeOK' /\ [Next]_vars => CacheInv'
  <2> SUFFICES ASSUME CacheInv, TypeOK', [Next]_vars PROVE CacheInv'
    OBVIOUS
  <2> USE DEF CacheInv
  <2>1. CASE Publish
    BY <2>1 DEF Publish, process, IdleInv, AloneInv, IndexPart, ReleasePart, CopyPart,
                Written, Body, Release
  <2>2. ASSUME NEW p \in Procs, Start(p) PROVE CacheInv'
    <3>1. /\ pc[p] = Idle /\ pc'[p] = "etag" /\ alone'[p] = \A o \in Procs \ {p} : pc[o] = Idle
          /\ \A q \in Procs \ {p} : pc'[q] = pc[q] /\ alone'[q] = (alone[q] /\ pc[q] = Idle)
      BY <2>2 DEF Start, Goto, TypeOK
    <3>2. IdleInv'
      BY <2>2, <3>1 DEF Start, IdleInv, Idle
    <3>3. ASSUME NEW q \in Procs, alone'[q], pc'[q] # Idle PROVE q = p
      BY <3>1, <3>3
    <3>4. target'[p] = Index /\ index'[p] = 0
      BY <2>2, <3>1 DEF Start, IdleInv
    <3>5. (IndexPart(p) /\ ReleasePart(p) /\ CopyPart(p))'
      BY <3>1, <3>4 DEF IndexPart, ReleasePart, CopyPart
    <3>6. AloneInv'
      BY <3>1, <3>3, <3>5 DEF AloneInv
    <3> QED
      BY <3>2, <3>6
  <2>3. ASSUME NEW p \in Procs, ComputeEtag(p) PROVE CacheInv'
    <3> USE <2>3 DEF ComputeEtag, Goto
    <3>1. pc[p] # Idle /\ "index" # Idle
      BY DEF Idle
    <3>2. alone[p] => (IndexPart(p) /\ ReleasePart(p) /\ CopyPart(p))'
      BY <3>1 DEF TypeOK, AloneInv, IndexPart, ReleasePart, CopyPart
    <3> QED
      BY <3>1, <3>2, OwnPart
  <2>4. ASSUME NEW p \in Procs, RequestIndex(p) PROVE CacheInv'
    <3> USE <2>4 DEF RequestIndex, Goto
    <3>1. pc[p] # Idle /\ "parse" # Idle /\ "create" # Idle
      BY DEF Idle
    <3>2. alone[p] => (IndexPart(p) /\ ReleasePart(p) /\ CopyPart(p))'
      BY <3>1 DEF TypeOK, AloneInv, IndexPart, ReleasePart, CopyPart
    <3> QED
      BY <3>1, <3>2, OwnPart DEF TypeOK
  <2>5. ASSUME NEW p \in Procs, CreateFile(p) PROVE CacheInv'
    <3> USE <2>5 DEF CreateFile, Goto
    <3>1. pc[p] # Idle /\ "copy" # Idle
      BY DEF Idle
    <3>2. alone[p] => (IndexPart(p) /\ ReleasePart(p))'
      BY <3>1 DEF TypeOK, AloneInv, IndexPart, ReleasePart
    <3>3. CopyPart(p)'
      <4>1. cache'[target[p]] = Truncated /\ pos'[p] = 0
        BY DEF TypeOK
      <4>2. Written(p)' = Whole(0)
        BY <4>1 DEF Written, Whole
      <4> QED
        BY <4>1, <4>2 DEF CopyPart, Truncated
    <3> QED
      BY <3>1, <3>2, <3>3, OwnPart
  <2>6. ASSUME NEW p \in Procs, CopyChunk(p) PROVE CacheInv'
    <3> USE <2>6 DEF CopyChunk
    <3>1. pc[p] # Idle /\ "copy" # Idle /\ pc' = [pc EXCEPT ![p] = "copy"]
      BY DEF Idle, TypeOK
    <3>2. alone[p] => (IndexPart(p) /\ ReleasePart(p))'
      BY <3>1 DEF TypeOK, AloneInv, IndexPart, ReleasePart
    <3>3. alone[p] => CopyPart(p)'
      <4> SUFFICES ASSUME alone[p]
                   PROVE  cache'[target[p]].there /\ cache'[target[p]].data = Written(p)'
        BY DEF CopyPart
      <4>1. cache[target[p]].there /\ cache[target[p]].data = Written(p)
        BY <3>1 DEF AloneInv, CopyPart
      <4>2. target[p] \in DOMAIN cache /\ pos'[p] = pos[p] + 1 /\ pos[p] \in 0..Chunks
        BY DEF TypeOK
      <4>3. Body(p)' = Body(p)
        BY DEF Body
      <4>4. cache[target[p]] \in File
        BY DEF TypeOK
      <4>5. /\ cache'[target[p]].there = cache[target[p]].there
            /\ cache'[target[p]].data = [cache[target[p]].data EXCEPT ![pos[p] + 1] = Body(p)]
        BY <4>2, <4>4 DEF File
      <4>6. [Written(p) EXCEPT ![pos[p] + 1] = Body(p)] = Written(p)'
        <5> DEFINE old(k) == IF k <= pos[p] THEN Body(p) ELSE 0
                   new(k) == IF k <= pos[p] + 1 THEN Body(p) ELSE 0
        <5>1. Written(p) = [k \in 1..Chunks |-> old(k)]
          BY DEF Written
        <5>2. Written(p)' = [k \in 1..Chunks |-> new(k)]
          BY <4>2, <4>3 DEF Written
        <5>3. \A k \in 1..Chunks :
                new(k) = IF k = pos[p] + 1 THEN Body(p) ELSE old(k)
          BY <4>2
        <5> HIDE DEF old, new
        <5>4. [[k \in 1..Chunks |-> old(k)] EXCEPT ![pos[p] + 1] = Body(p)]
                = [k \in 1..Chunks |-> new(k)]
          BY <5>3
        <5> QED
          BY <5>1, <5>2, <5>4
      <4> QED
        BY <4>1, <4>5, <4>6
    <3> QED
      BY <3>1, <3>2, <3>3, OwnPart
  <2>7. ASSUME NEW p \in Procs, Copied(p) PROVE CacheInv'
    <3> USE <2>7 DEF Copied, Goto
    <3>1. pc[p] # Idle /\ "parse" # Idle /\ "flash" # Idle
      BY DEF Idle
    <3>2. alone[p] => (IndexPart(p) /\ ReleasePart(p) /\ CopyPart(p))'
      <4> SUFFICES ASSUME alone[p] PROVE (IndexPart(p) /\ ReleasePart(p) /\ CopyPart(p))'
        OBVIOUS
      <4>1. Written(p) = Whole(Body(p))
        BY DEF Written, Whole
      <4>2. CopyPart(p) /\ IndexPart(p)
        BY <3>1 DEF AloneInv
      <4>3. cache[target[p]] = WholeFile(Body(p))
        BY <4>1, <4>2 DEF CopyPart, WholeFile, TypeOK, File
      <4>4. target[p] = Index => cache[Index] = WholeFile(asked[p])
        BY <4>3 DEF Body
      <4>5. target[p] # Index => target[p] \in Release
        BY DEF TypeOK, Name, Release, Index
      <4> QED
        BY <4>2, <4>4, <4>5 DEF TypeOK, IndexPart, ReleasePart, CopyPart
    <3> QED
      BY <3>1, <3>2, OwnPart
  <2>8. ASSUME NEW p \in Procs, ParseIndex(p) PROVE CacheInv'
    <3>1. pc[p] = "parse" /\ pc[p] # Idle /\ "choose" # Idle
      BY <2>8 DEF ParseIndex, Idle
    <3>2. CASE End(p)
      BY <3>1, <3>2, EndKeeps
    <3>3. CASE ~End(p)
      <4>1. PICK v \in Release :
              /\ cache[Index].data = Whole(v)
              /\ index' = [index EXCEPT ![p] = v]
              /\ pc' = [pc EXCEPT ![p] = "choose"]
              /\ UNCHANGED <<published, cache, etag, target, pos, asked, alone, spoiled>>
        BY <2>8, <3>3 DEF ParseIndex, Goto
      <4>2. alone[p] => v = asked[p]
        <5>1. alone[p] => Whole(v) = Whole(asked[p])
          <6>1. alone[p] => cache[Index] = WholeFile(asked[p])
            BY <3>1 DEF AloneInv, IndexPart
          <6>2. WholeFile(asked[p]).data = Whole(asked[p])
            BY DEF WholeFile
          <6> QED
            BY <4>1, <6>1, <6>2
        <5> QED
          BY <5>1, WholeInjective DEF Release, TypeOK
      <4>3. alone[p] => (IndexPart(p) /\ ReleasePart(p) /\ CopyPart(p))'
        BY <3>1, <4>1, <4>2 DEF TypeOK, AloneInv, IndexPart, ReleasePart, CopyPart
      <4> QED
        BY <3>1, <4>1, <4>3, OwnPart DEF TypeOK
    <3> QED
      BY <3>2, <3>3
  <2>9. ASSUME NEW p \in Procs, Choose(p) PROVE CacheInv'
    <3>1. pc[p] = "choose" /\ pc[p] # Idle /\ "exists" # Idle
      BY <2>9 DEF Choose, Idle
    <3>2. CASE End(p)
      BY <3>1, <3>2, EndKeeps
    <3>3. CASE ~End(p)
      <4>1. PICK r \in 1..index[p] :
              /\ target' = [target EXCEPT ![p] = r]
              /\ pc' = [pc EXCEPT ![p] = "exists"]
              /\ UNCHANGED <<published, cache, etag, pos, index, asked, alone, spoiled>>
        BY <2>9, <3>3 DEF Choose, Goto
      <4>2. r \in Release
        BY <4>1 DEF TypeOK, Release
      <4>3. alone[p] => (IndexPart(p) /\ ReleasePart(p) /\ CopyPart(p))'
        BY <3>1, <4>1, <4>2 DEF TypeOK, AloneInv, IndexPart, ReleasePart, CopyPart
      <4> QED
        BY <3>1, <4>1, <4>3, OwnPart DEF TypeOK
    <3> QED
      BY <3>2, <3>3
  <2>10. ASSUME NEW p \in Procs, FindFirmware(p) PROVE CacheInv'
    <3> USE <2>10 DEF FindFirmware, Goto
    <3>1. pc[p] # Idle /\ "flash" # Idle /\ "firmware" # Idle
      BY DEF Idle
    <3>2. alone[p] => (IndexPart(p) /\ ReleasePart(p) /\ CopyPart(p))'
      BY <3>1 DEF TypeOK, AloneInv, IndexPart, ReleasePart, CopyPart
    <3> QED
      BY <3>1, <3>2, OwnPart
  <2>11. ASSUME NEW p \in Procs, RequestFirmware(p) PROVE CacheInv'
    <3> USE <2>11 DEF RequestFirmware, Goto
    <3>1. pc[p] # Idle /\ "create" # Idle
      BY DEF Idle
    <3>2. alone[p] => target[p] # Index /\ ~cache[target[p]].there
      BY <3>1 DEF AloneInv, ReleasePart, Release, Index
    <3>3. pc'[p] = "create"
      BY DEF TypeOK
    <3>4. alone[p] => (IndexPart(p) /\ ReleasePart(p) /\ CopyPart(p))'
      BY <3>1, <3>2, <3>3 DEF AloneInv, IndexPart, ReleasePart, CopyPart
    <3> QED
      BY <3>1, <3>4, OwnPart
  <2>12. ASSUME NEW p \in Procs, Flash(p) \/ Fail(p) \/ Kill(p) PROVE CacheInv'
    <3>1. pc[p] # Idle /\ End(p)
      BY <2>12 DEF Flash, Fail, Kill, Idle
    <3> QED
      BY <3>1, EndKeeps
  <2>13. CASE UNCHANGED vars
    BY <2>13 DEF vars, process, IdleInv, AloneInv, IndexPart, ReleasePart, CopyPart,
                 Written, Body
  <2> QED
    BY <2>1, <2>2, <2>3, <2>4, <2>5, <2>6, <2>7, <2>8, <2>9, <2>10, <2>11, <2>12, <2>13
    DEF Next
<1> QED
  BY <1>1, <1>2, TypeCorrect, PTL DEF Spec

(* Whatever earlier commands left in the cache, one that runs alone acts   *)
(* on the index the server had when it asked for it.                       *)
THEOREM AlwaysFresh == Spec => []AloneFresh
<1>1. CacheInv => AloneFresh
  BY DEF CacheInv, IdleInv, AloneInv, IndexPart, AloneFresh
<1> QED
  BY <1>1, CacheInductive, PTL

(* A command that runs alone never fails to parse the index: the cache     *)
(* heals, whatever was left in it.                                         *)
THEOREM AlwaysParses == Spec => []AloneParses
<1>1. CacheInv => AloneParses
  BY DEF CacheInv, AloneInv, IndexPart, AloneParses, Idle
<1> QED
  BY <1>1, CacheInductive, PTL

(* No command changes a release that is whole in the cache, while all that *)
(* run are alone.                                                          *)
THEOREM AlwaysStays == Spec => WholeStays
<1>1. CacheInv /\ TypeOK' /\ [Next]_vars =>
        \A r \in Release :
          (cache[r] = WholeFile(r) /\ \A p \in Procs : alone[p])
            => cache'[r] = WholeFile(r)
  <2> SUFFICES ASSUME CacheInv, TypeOK', [Next]_vars, NEW r \in Release,
                      cache[r] = WholeFile(r), \A p \in Procs : alone[p],
                      cache'[r] # cache[r]
               PROVE  FALSE
    OBVIOUS
  <2> USE CacheAssumption DEF CacheInv
  <2>1. r \in Name /\ r # Index
    BY DEF Release, Name, Index
  <2>2. PICK p \in Procs : CreateFile(p) \/ CopyChunk(p)
    BY DEF Next, vars, process, Publish, Start, ComputeEtag, RequestIndex, Copied, ParseIndex,
           Choose, FindFirmware, RequestFirmware, Flash, Fail, Kill, End
  <2>3. pc[p] # Idle /\ target[p] \in Name
    BY <2>2 DEF CreateFile, CopyChunk, Idle, TypeOK
  <2>4. target[p] = r
    BY <2>1, <2>2, <2>3 DEF CreateFile, CopyChunk, TypeOK
  <2>5. CASE CreateFile(p)
    <3>1. ~cache[r].there
      BY <2>1, <2>3, <2>4, <2>5 DEF CreateFile, AloneInv, ReleasePart
    <3> QED
      BY <3>1 DEF WholeFile
  <2>6. CASE CopyChunk(p)
    <3>1. cache[r].data = Written(p)
      BY <2>3, <2>4, <2>6 DEF CopyChunk, AloneInv, CopyPart
    <3>2. Written(p) = Whole(r)
      BY <3>1 DEF WholeFile
    <3>3. Written(p)[Chunks] = 0
      BY <2>6 DEF CopyChunk, Written, TypeOK
    <3>4. Whole(r)[Chunks] = r
      BY DEF Whole
    <3> QED
      BY <2>1, <3>2, <3>3, <3>4 DEF Index
  <2> QED
    BY <2>2, <2>5, <2>6
<1> QED
  BY <1>1, CacheInductive, TypeCorrect, PTL DEF Spec, WholeStays

-----------------------------------------------------------------------------
(* A download that is broken off is all that leaves part of a release in   *)
(* the cache: every other piece that is missing is still to be written by  *)
(* somebody, however many commands download the same release.              *)
WillWrite(p, r, k) == pc[p] = "copy" /\ target[p] = r /\ pos[p] < k

Completed(r) ==
  cache[r].there =>
    \A k \in 1..Chunks : cache[r].data[k] = r \/ \E p \in Procs : WillWrite(p, r, k)

Targets(p) ==
  /\ pc[p] \in {"exists", "firmware", "flash"} => target[p] \in Release
  /\ pc[p] \in {"copy", "flash"} => cache[target[p]].there

WholeInv == (\A r \in Release \ spoiled : Completed(r)) /\ (\A p \in Procs : Targets(p))

(* The command of p ends: what it had still to copy is spoiled.            *)
LEMMA EndCompletes ==
  ASSUME TypeOK, WholeInv, NEW p \in Procs, End(p)
  PROVE  WholeInv'
<1>0. /\ spoiled \subseteq spoiled'
      /\ \A r \in Release, k \in 1..Chunks : WillWrite(p, r, k) => r \in spoiled'
  BY DEF End, WillWrite, Release, Index
<1>1. /\ UNCHANGED cache /\ pc'[p] = Idle
      /\ \A q \in Procs \ {p} : UNCHANGED <<pc[q], target[q], pos[q]>>
  BY DEF End, Goto, TypeOK
<1>2. ASSUME NEW r \in Release \ spoiled' PROVE Completed(r)'
  <2>1. ASSUME NEW k \in 1..Chunks, NEW q \in Procs, WillWrite(q, r, k)
        PROVE  WillWrite(q, r, k)'
    BY <1>0, <1>1, <2>1 DEF WillWrite
  <2> QED
    BY <1>0, <1>1, <2>1 DEF WholeInv, Completed
<1>3. ASSUME NEW q \in Procs PROVE Targets(q)'
  BY <1>1 DEF WholeInv, Targets, Idle
<1> QED
  BY <1>2, <1>3 DEF WholeInv

(* A step that writes nothing and does not break off a copy.               *)
LEMMA OthersComplete ==
  ASSUME TypeOK, WholeInv, UNCHANGED <<cache, spoiled>>, NEW p \in Procs,
         pc[p] = "copy" => pos[p] = Chunks,
         \A q \in Procs \ {p} : UNCHANGED <<pc[q], target[q], pos[q]>>,
         Targets(p)'
  PROVE  WholeInv'
<1>1. ASSUME NEW r \in Release \ spoiled PROVE Completed(r)'
  BY CacheAssumption DEF WholeInv, Completed, WillWrite
<1>2. ASSUME NEW q \in Procs PROVE Targets(q)'
  BY DEF WholeInv, Targets
<1> QED
  BY <1>1, <1>2 DEF WholeInv

LEMMA WholeKept ==
  ASSUME TypeOK, WholeInv, [Next]_vars PROVE WholeInv'
<1>0. \A p \in Procs : Targets(p) /\ target[p] \in Name
  BY DEF WholeInv, TypeOK
<1> USE DEF Goto
<1>1. CASE Publish \/ UNCHANGED vars
  <2>1. UNCHANGED <<cache, pc, target, pos, spoiled>>
    BY <1>1 DEF Publish, process, vars
  <2> QED
    BY <2>1 DEF WholeInv, Completed, WillWrite, Targets
<1>2. ASSUME NEW p \in Procs, End(p) PROVE WholeInv'
  BY <1>2, EndCompletes
<1>3. ASSUME NEW p \in Procs, NEW label, pc[p] # "copy", pc' = [pc EXCEPT ![p] = label],
             UNCHANGED <<cache, pos, spoiled>>, \A q \in Procs \ {p} : UNCHANGED target[q],
             label \in {"exists", "firmware", "flash"} => target'[p] \in Release,
             label \in {"copy", "flash"} => cache[target'[p]].there
      PROVE  WholeInv'
  <2>1. pc'[p] = label /\ \A q \in Procs \ {p} : UNCHANGED <<pc[q], target[q], pos[q]>>
    BY <1>3 DEF TypeOK
  <2>2. Targets(p)'
    BY <1>3, <2>1 DEF Targets
  <2> QED
    BY <1>3, <2>1, <2>2, OthersComplete
<1>4. ASSUME NEW p \in Procs, Start(p) \/ ComputeEtag(p) \/ RequestIndex(p) PROVE WholeInv'
  <2>1. PICK label : /\ pc' = [pc EXCEPT ![p] = label]
                     /\ label \in {"etag", "index", "parse", "create"}
                     /\ pc[p] # "copy" /\ UNCHANGED <<cache, target, pos, spoiled>>
    BY <1>4 DEF Start, ComputeEtag, RequestIndex, Idle
  <2> QED
    BY <1>3, <2>1
<1>5. ASSUME NEW p \in Procs, ParseIndex(p) \/ Choose(p) PROVE WholeInv'
  <2>1. CASE End(p)
    BY <1>2, <2>1
  <2>2. CASE ~End(p) /\ ParseIndex(p)
    BY <1>3, <2>2 DEF ParseIndex
  <2>3. CASE ~End(p) /\ Choose(p)
    <3>1. PICK r \in 1..index[p] : target' = [target EXCEPT ![p] = r]
      BY <2>3 DEF Choose
    <3>0. index[p] \in 0..MaxIndex
      BY DEF TypeOK
    <3>2. target'[p] \in Release /\ \A q \in Procs \ {p} : UNCHANGED target[q]
      <4>1. r \in Release
        BY <3>0, CacheAssumption DEF Release
      <4> QED
        BY <3>1, <4>1 DEF TypeOK
    <3>3. /\ pc[p] # "copy" /\ pc' = [pc EXCEPT ![p] = "exists"]
          /\ UNCHANGED <<cache, pos, spoiled>>
      BY <2>3 DEF Choose
    <3> QED
      BY <1>3, <3>2, <3>3
  <2> QED
    BY <1>5, <2>1, <2>2, <2>3
<1>6. ASSUME NEW p \in Procs, FindFirmware(p) \/ RequestFirmware(p) PROVE WholeInv'
  <2>1. /\ target[p] \in Release /\ pc[p] # "copy" /\ UNCHANGED <<cache, target, pos, spoiled>>
        /\ \/ pc' = [pc EXCEPT ![p] = "firmware"] \/ pc' = [pc EXCEPT ![p] = "create"]
           \/ pc' = [pc EXCEPT ![p] = "flash"] /\ cache[target[p]].there
    BY <1>0, <1>6 DEF FindFirmware, RequestFirmware, Targets
  <2> QED
    BY <1>3, <2>1
<1>7. ASSUME NEW p \in Procs, CreateFile(p) PROVE WholeInv'
  <2>1. /\ pc[p] = "create" /\ pc'[p] = "copy" /\ pos'[p] = 0 /\ UNCHANGED <<target, spoiled>>
        /\ \A q \in Procs \ {p} : UNCHANGED <<pc[q], target[q], pos[q]>>
        /\ cache'[target[p]].there /\ \A n \in Name \ {target[p]} : UNCHANGED cache[n]
    BY <1>0, <1>7 DEF CreateFile, TypeOK, Truncated
  <2>2. ASSUME NEW r \in Release \ spoiled PROVE Completed(r)'
    <3>1. CASE r = target[p]
      <4>1. ASSUME NEW k \in 1..Chunks PROVE WillWrite(p, r, k)'
        BY <2>1, <3>1, <4>1 DEF WillWrite
      <4> QED
        BY <4>1 DEF Completed
    <3>2. CASE r # target[p]
      <4>1. UNCHANGED cache[r]
        BY <2>1, <3>2 DEF Release, Name
      <4>2. ASSUME NEW q \in Procs, NEW k, WillWrite(q, r, k) PROVE WillWrite(q, r, k)'
        BY <2>1, <4>2 DEF WillWrite
      <4> QED
        BY <4>1, <4>2 DEF Completed, WholeInv
    <3> QED
      BY <3>1, <3>2
  <2>3. ASSUME NEW q \in Procs PROVE Targets(q)'
    BY <1>0, <2>1 DEF Targets
  <2> QED
    BY <2>1, <2>2, <2>3 DEF WholeInv
<1>8. ASSUME NEW p \in Procs, CopyChunk(p) PROVE WholeInv'
  <2>0. pos[p] \in 0..Chunks /\ pos[p] < Chunks /\ cache[target[p]] \in File
    BY <1>0, <1>8 DEF CopyChunk, TypeOK
  <2>1. /\ pc[p] = "copy" /\ pc' = pc /\ target' = target /\ spoiled' = spoiled
        /\ pos'[p] = pos[p] + 1 /\ \A q \in Procs \ {p} : UNCHANGED pos[q]
        /\ \A n \in Name \ {target[p]} : UNCHANGED cache[n]
        /\ cache'[target[p]].there = cache[target[p]].there
        /\ cache'[target[p]].data = [cache[target[p]].data EXCEPT ![pos[p] + 1] = Body(p)]
    BY <1>0, <1>8 DEF CopyChunk, TypeOK, File
  <2>2. ASSUME NEW r \in Release \ spoiled PROVE Completed(r)'
    <3>1. CASE r = target[p]
      <4>0. Body(p) = r /\ cache[r].data \in [1..Chunks -> 0..MaxIndex]
        BY <2>0, <3>1 DEF Body, Index, Release, File, Data
      <4>1. ASSUME NEW k \in 1..Chunks, cache'[r].there
            PROVE  cache'[r].data[k] = r \/ \E q \in Procs : WillWrite(q, r, k)'
        <5>1. CASE k = pos[p] + 1
          BY <2>1, <3>1, <4>0, <5>1
        <5>2. CASE k # pos[p] + 1 /\ cache[r].data[k] = r
          BY <2>1, <3>1, <4>0, <5>2
        <5>3. CASE k # pos[p] + 1 /\ cache[r].data[k] # r
          <6>1. PICK q \in Procs : WillWrite(q, r, k)
            BY <2>1, <3>1, <4>1, <5>3 DEF WholeInv, Completed
          <6>2. WillWrite(q, r, k)'
            <7>1. CASE q = p
              BY <2>0, <2>1, <5>3, <6>1, <7>1 DEF WillWrite
            <7>2. CASE q # p
              BY <2>1, <6>1, <7>2 DEF WillWrite
            <7> QED
              BY <7>1, <7>2
          <6> QED
            BY <6>2
        <5> QED
          BY <5>1, <5>2, <5>3
      <4> QED
        BY <4>1 DEF Completed
    <3>2. CASE r # target[p]
      <4>1. UNCHANGED cache[r]
        BY <2>1, <3>2 DEF Release, Name
      <4>2. ASSUME NEW q \in Procs, NEW k, WillWrite(q, r, k) PROVE WillWrite(q, r, k)'
        BY <2>1, <3>2, <4>2 DEF WillWrite
      <4> QED
        BY <4>1, <4>2 DEF Completed, WholeInv
    <3> QED
      BY <3>1, <3>2
  <2>3. ASSUME NEW q \in Procs PROVE Targets(q)'
    BY <1>0, <2>1 DEF Targets
  <2> QED
    BY <2>1, <2>2, <2>3 DEF WholeInv
<1>9. ASSUME NEW p \in Procs, Copied(p) PROVE WholeInv'
  <2>1. /\ pc[p] = "copy" /\ pos[p] = Chunks /\ UNCHANGED <<cache, target, pos, spoiled>>
        /\ \A q \in Procs \ {p} : UNCHANGED pc[q]
        /\ pc'[p] = IF target[p] = Index THEN "parse" ELSE "flash"
    BY <1>9 DEF Copied, TypeOK
  <2>2. Targets(p)'
    BY <1>0, <2>1 DEF Targets, Name, Release, Index
  <2> QED
    BY <2>1, <2>2, OthersComplete
<1>10. ASSUME NEW p \in Procs, Flash(p) \/ Fail(p) \/ Kill(p) PROVE WholeInv'
  BY <1>2, <1>10 DEF Flash, Fail, Kill
<1> QED
  BY <1>1, <1>4, <1>5, <1>6, <1>7, <1>8, <1>9, <1>10 DEF Next

(* What a command that runs alone gives to flash_probe is all of the       *)
(* release, unless a download of it was killed, lost its connection or     *)
(* took too long before: nothing else, not even two commands that          *)
(* downloaded it at the same time, leaves a damaged file                   *)
(* (switcher.rs:186-221).                                                  *)
THEOREM UninterruptedFlashesWhole == Spec => []UnspoiledFlashesWhole
<1>1. Init => WholeInv
  BY DEF Init, WholeInv, Completed, Targets, Absent, Release, Name, Idle
<1>2. CacheInv /\ WholeInv => UnspoiledFlashesWhole
  <2> SUFFICES ASSUME CacheInv, WholeInv, NEW p \in Procs, alone[p], pc[p] = "flash",
                      target[p] \notin spoiled
               PROVE  cache[target[p]] = WholeFile(target[p])
    BY DEF UnspoiledFlashesWhole
  <2>1. target[p] \in Release /\ cache[target[p]].there
    BY DEF WholeInv, Targets
  <2>2. \A q \in Procs : pc[q] # "copy"
    BY DEF CacheInv, AloneInv, Idle
  <2>3. \A k \in 1..Chunks : cache[target[p]].data[k] = target[p]
    BY <2>1, <2>2 DEF WholeInv, Completed, WillWrite
  <2>4. cache[target[p]] \in File
    BY <2>1 DEF CacheInv, TypeOK, Release, Name
  <2>5. cache[target[p]].data = Whole(target[p])
    BY <2>3, <2>4 DEF File, Data, Whole
  <2> QED
    BY <2>1, <2>4, <2>5 DEF File, WholeFile
<1>3. CacheInv /\ WholeInv /\ [Next]_vars => WholeInv'
  BY WholeKept DEF CacheInv
<1> QED
  BY <1>1, <1>2, <1>3, CacheInductive, PTL DEF Spec
=============================================================================
