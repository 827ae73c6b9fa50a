------------------------ MODULE FirmwareImage_proofs ------------------------
(***************************************************************************)
(* Theorems about FirmwareImage, for all files, address spaces and         *)
(* platforms.                                                              *)
(*                                                                         *)
(* What a well-formed file says is a set of pieces at places (LoadedIn,    *)
(* PlaceIn).  The invariant of from_records, Cut, says that every piece of *)
(* a record that has been processed is kept by a segment or by the data at *)
(* hand, that these are apart, and that they hold nothing else.            *)
(***************************************************************************)
EXTENDS FirmwareImage, WellFoundedInduction, TLAPS

(* There is a relation by which smaller numbers are before larger ones and *)
(* no set of numbers is without a first one.                               *)
LEMMA NatOrder ==
  \E R : IsWellFoundedOn(R, Nat) /\ \A x, y \in Nat : y < x => <<y, x>> \in R
<1>1. \A x, y \in Nat : y < x => <<y, x>> \in OpToRel(<, Nat)
  BY DEF OpToRel
<1>2. WITNESS OpToRel(<, Nat)
<1> QED BY <1>1, NatLessThanWellFounded

(* Min is the smallest member of a set of numbers.                         *)
LEMMA SmallestOf ==
  ASSUME NEW S \in SUBSET Nat, S # {}
  PROVE  Min(S) \in S /\ \A y \in S : Min(S) <= y
<1>1. PICK R : IsWellFoundedOn(R, Nat) /\ \A x, y \in Nat : y < x => <<y, x>> \in R
  BY NatOrder
<1>2. PICK x \in S : \A y \in S : ~ (<<y, x>> \in R)
  BY <1>1, WFMin
<1>3. ASSUME NEW y \in S PROVE x <= y
  <2>1. x \in Nat /\ y \in Nat
    OBVIOUS
  <2>2. ~ (y < x)
    BY <1>1, <1>2, <2>1
  <2> QED BY <2>1, <2>2
<1> QED BY <1>3 DEF Min

(* Max is the largest member of a bounded set of numbers.                  *)
LEMMA LargestOf ==
  ASSUME NEW n \in Nat, NEW S \in SUBSET (0..n), S # {}
  PROVE  Max(S) \in S /\ \A y \in S : y <= Max(S)
<1> DEFINE T == {n - x : x \in S}
<1>1. T \in SUBSET Nat /\ T # {}
  <2>1. \A x \in S : n - x \in Nat
    OBVIOUS
  <2> QED BY <2>1
<1>2. Min(T) \in T /\ \A y \in T : Min(T) <= y
  <2> HIDE DEF T
  <2> QED BY <1>1, SmallestOf
<1>3. PICK x \in S : Min(T) = n - x
  BY <1>2
<1>4. \A y \in S : x >= y
  BY <1>2, <1>3
<1>5. Max(S) \in S /\ \A y \in S : Max(S) >= y
  BY <1>4 DEF Max
<1> QED BY <1>5

-----------------------------------------------------------------------------
(* Type correctness.                                                       *)
walkVars == <<idx, base, begin, end, data, segments>>

(* A sum that wraps is an address again.                                   *)
LEMMA WrapIsAddress ==
  ASSUME NEW a \in Address, NEW n \in Nat, n <= Space
  PROVE  Wrap(a + n) \in Address
BY ImageAssumption DEF Wrap, Address

(* A segment more, or one replaced, keeps the type of the segments.        *)
LEMMA PutType ==
  ASSUME NEW segs, DOMAIN segs \subseteq Address, segs \in [DOMAIN segs -> Seq(Byte)],
         NEW a \in Address, NEW bytes \in Seq(Byte)
  PROVE  /\ DOMAIN Put(segs, a, bytes) \subseteq Address
         /\ Put(segs, a, bytes) \in [DOMAIN Put(segs, a, bytes) -> Seq(Byte)]
BY DEF Put

(* The segments, with at least one, end at an address after their start.   *)
LEMMA SegmentBounds ==
  ASSUME TypeOK, DOMAIN segments # {}
  PROVE  /\ Lowest \in DOMAIN segments /\ \A b \in DOMAIN segments : Lowest <= b
         /\ Highest \in DOMAIN segments /\ \A b \in DOMAIN segments : b <= Highest
         /\ Lowest \in Nat /\ Highest \in Nat
         /\ SegmentEnd(Highest) \in Nat
<1>1. DOMAIN segments \in SUBSET Nat /\ DOMAIN segments \in SUBSET (0..(Space - 1))
  BY ImageAssumption DEF TypeOK, Address
<1>2. Space - 1 \in Nat
  BY ImageAssumption
<1>3. Lowest \in DOMAIN segments /\ \A b \in DOMAIN segments : Lowest <= b
  BY <1>1, SmallestOf DEF Lowest
<1>4. Highest \in DOMAIN segments /\ \A b \in DOMAIN segments : b <= Highest
  BY <1>1, <1>2, LargestOf DEF Highest
<1>5. Highest \in Nat /\ segments[Highest] \in Seq(Byte)
  BY <1>1, <1>4 DEF TypeOK
<1>6. SegmentEnd(Highest) \in Nat
  BY <1>5 DEF SegmentEnd
<1> QED BY <1>1, <1>3, <1>4, <1>5, <1>6

(* A byte of the image that some segment is over is one of the last such.  *)
LEMMA OverBounds ==
  ASSUME TypeOK, NEW a \in Nat, Over(a) # {}
  PROVE  /\ Max(Over(a)) \in Over(a)
         /\ \A b \in Over(a) : b <= Max(Over(a))
         /\ segments[Max(Over(a))][a - Max(Over(a)) + 1] \in Byte
<1>1. Over(a) \in SUBSET (0..a)
  BY ImageAssumption DEF Over, TypeOK, Address
<1>2. Max(Over(a)) \in Over(a) /\ \A b \in Over(a) : b <= Max(Over(a))
  BY <1>1, LargestOf
<1> DEFINE m == Max(Over(a))
<1> HIDE DEF m
<1>3. m \in DOMAIN segments /\ m <= a /\ a < m + Len(segments[m])
  BY <1>2 DEF m, Over, SegmentEnd
<1>4. m \in Nat /\ segments[m] \in Seq(Byte)
  BY <1>3, ImageAssumption DEF TypeOK, Address
<1>5. a - m + 1 \in 1..Len(segments[m])
  BY <1>3, <1>4
<1>6. segments[m][a - m + 1] \in Byte
  BY <1>4, <1>5
<1> QED BY <1>2, <1>6 DEF m

(* The image is bytes.                                                     *)
LEMMA FlatType ==
  ASSUME TypeOK
  PROVE  Flat \in Seq(Byte)
<1>1. CASE DOMAIN segments = {}
  BY <1>1 DEF Flat
<1>2. CASE DOMAIN segments # {}
  <2> DEFINE n == SegmentEnd(Highest) - Lowest
  <2>1. n \in Nat /\ Lowest \in Nat
    <3>1. segments[Highest] \in Seq(Byte)
      BY <1>2, SegmentBounds DEF TypeOK
    <3> QED BY <1>2, <3>1, SegmentBounds DEF SegmentEnd
  <2>2. \A a \in Nat : ByteAt(a) \in Byte
    BY OverBounds, ImageAssumption DEF ByteAt
  <2>3. \A k \in 1..n : ByteAt(Lowest + k - 1) \in Byte
    <3> HIDE DEF n
    <3> QED BY <2>1, <2>2
  <2>4. Flat = [k \in 1..n |-> ByteAt(Lowest + k - 1)]
    BY <1>2 DEF Flat
  <2> HIDE DEF n
  <2> QED BY <2>1, <2>3, <2>4
<1> QED BY <1>1, <1>2

-----------------------------------------------------------------------------
(* Where the command is tells what it knows already.                       *)
Fresh ==
  idx = 0 /\ base = 0 /\ begin = 0 /\ end = 0 /\ data = <<>> /\ segments = <<>>

FlowInv ==
  /\ pc \in {"open", "read"} => Fresh
  /\ pc = "open" => form = "none" /\ records = <<>>
  /\ pc \in {"read", "process"} => form = "hex"
  /\ pc = "collect" => form = "elf"
  /\ pc = "build" => form \in {"elf", "hex"}
  /\ form = "raw" => segments = <<>>
  /\ form = "none" => pc \in {"open", "done"}
  /\ pc \in {"override", "download"} => type \in Types
  /\ pc # "done" => result = "none" /\ (pc # "download" => override = "none")
  /\ result = "ok" => pc = "done"

(* Every step keeps the types of the variables.                            *)
LEMMA TypeInductive ==
  ASSUME TypeOK, FlowInv, [Next]_vars
  PROVE  TypeOK'
<1> USE DEF TypeOK, given, file, walk
<1>0. 0 \in Address /\ Space \in Nat
  BY ImageAssumption DEF Address
<1>f. ASSUME NEW r \in {"ok", "error", "panic", "refused", "unreadable"}, Finish(r)
      PROVE  TypeOK'
  BY <1>f DEF Finish
<1>1. CASE FromPath
  <2>1. ASSUME NEW f \in ElfFiles PROVE f \in Seq(Record)
    BY <2>1, ImageAssumption
  <2>2. ASSUME NEW f \in RawFiles PROVE f \in Seq(Byte)
    BY <2>2, ImageAssumption
  <2>0. idx = 0
    BY <1>1 DEF FromPath, FlowInv, Fresh
  <2>3. ASSUME NEW f \in ElfFiles, records' = f, pc' = "collect", form' = "elf",
               UNCHANGED <<given, walk, image, type, override, at, result>>
        PROVE  TypeOK'
    BY <2>0, <2>1, <2>3
  <2>4. ASSUME NEW f \in RawFiles, image' = f, pc' = "detect", form' = "raw",
               UNCHANGED <<given, records, walk, type, override, at, result>>
        PROVE  TypeOK'
    BY <2>2, <2>4
  <2>5. ASSUME form' = "hex", pc' = "read",
               UNCHANGED <<given, records, walk, image, type, override, at, result>>
        PROVE  TypeOK'
    BY <2>5
  <2> QED BY <1>1, <1>f, <2>3, <2>4, <2>5 DEF FromPath
<1>2. CASE ReadRecord
  <2>1. ASSUME NEW r \in HexRecords, records' = Append(records, r), UNCHANGED idx
        PROVE  records' \in Seq(Record) /\ idx' \in 0..Len(records')
    BY <2>1, ImageAssumption
  <2> QED BY <1>2, <1>f, <2>1 DEF ReadRecord
<1>3. CASE ProcessRecord
  <2> DEFINE r == records[idx + 1]
             address == Wrap(base + r.address)
  <2>1. idx < Len(records) /\ r \in Record /\ idx + 1 \in 0..Len(records)
    BY <1>3 DEF ProcessRecord
  <2>2. /\ r.address \in Address /\ r.data \in Seq(Byte)
        /\ Len(r.data) \in Nat /\ Len(r.data) < Space
    BY <2>1 DEF Record
  <2> HIDE DEF r
  <2>3. \A a \in Address : Wrap(a + r.address) \in Address /\ Wrap(a + Len(r.data)) \in Address
    <3>1. r.address \in Nat /\ r.address <= Space /\ Len(r.data) <= Space
      BY <2>2, ImageAssumption DEF Address
    <3> QED BY <2>2, <3>1, WrapIsAddress
  <2>4. DOMAIN Flushed \subseteq Address /\ Flushed \in [DOMAIN Flushed -> Seq(Byte)]
    BY PutType DEF Flushed
  <2>5. CASE Finish("panic") \/ Finish("error")
    BY <2>5, <1>f
  <2>6. ASSUME idx' = idx + 1,
               UNCHANGED <<pc, given, file, image, type, override, at, result>>,
               AddData(r)
        PROVE  TypeOK'
    <3>1. /\ base' \in Address /\ begin' \in Address /\ end' \in Address
          /\ data' \in Seq(Byte)
          /\ DOMAIN segments' \subseteq Address /\ segments' \in [DOMAIN segments' -> Seq(Byte)]
      <4>1. address \in Address /\ Wrap(address + Len(r.data)) \in Address
               /\ Wrap(end + Len(r.data)) \in Address
        BY <2>3
      <4> HIDE DEF address
      <4>2. CASE end # address
        BY <2>2, <2>4, <2>6, <4>1, <4>2 DEF AddData, address
      <4>3. CASE end = address
        <5>1. data \o r.data \in Seq(Byte)
          BY <2>2
        <5> QED BY <2>6, <4>1, <4>3, <5>1 DEF AddData, address
      <4> QED BY <4>2, <4>3
    <3> QED BY <2>1, <2>6, <3>1
  <2>7. ASSUME idx' = idx + 1,
               UNCHANGED <<pc, given, file, image, type, override, at, result>>,
               segments' = Flushed /\ data' = <<>> /\ UNCHANGED <<base, begin, end>>
        PROVE  TypeOK'
    <3>1. DOMAIN segments' \subseteq Address /\ segments' \in [DOMAIN segments' -> Seq(Byte)]
      BY <2>4, <2>7
    <3> QED BY <2>1, <2>7, <3>1
  <2>8. ASSUME idx' = idx + 1,
               UNCHANGED <<pc, given, file, image, type, override, at, result>>,
               base' = r.address /\ UNCHANGED <<begin, end, data, segments>>
        PROVE  TypeOK'
    BY <2>1, <2>2, <2>8
  <2> QED BY <1>3, <2>5, <2>6, <2>7, <2>8 DEF ProcessRecord, r
<1>4. CASE EndOfRecords
  BY <1>4 DEF EndOfRecords
<1>5. CASE CollectSegments
  <2> DEFINE addresses == {records[i].address : i \in Loaded}
             last(a) == Max({i \in Loaded : records[i].address = a})
  <2>1. \A i \in Loaded : i \in 1..Len(records) /\ records[i] \in Record
    BY DEF Loaded
  <2>2. ASSUME NEW a \in addresses PROVE records[last(a)].data \in Seq(Byte)
    <3> DEFINE S == {i \in Loaded : records[i].address = a}
    <3>1. S \in SUBSET (0..Len(records)) /\ S # {} /\ Len(records) \in Nat
      BY <2>1, <2>2
    <3>2. Max(S) \in S
      <4> HIDE DEF S
      <4> QED BY <3>1, LargestOf
    <3> QED BY <2>1, <3>2 DEF Record
  <2>3. addresses \subseteq Address
    BY <2>1 DEF Record
  <2>4. ASSUME segments' = [a \in addresses |-> records[last(a)].data], pc' = "build",
               UNCHANGED <<given, file, idx, base, begin, end, data, image, type, override,
                           at, result>>
        PROVE  TypeOK'
    <3> HIDE DEF addresses, last
    <3>1. DOMAIN segments' \subseteq Address /\ segments' \in [DOMAIN segments' -> Seq(Byte)]
      BY <2>2, <2>3, <2>4
    <3> QED BY <2>4, <3>1
  <2> QED BY <1>5, <1>f, <2>4 DEF CollectSegments
<1>6. CASE BuildFirmwareImage
  BY <1>6, <1>f, FlatType DEF BuildFirmwareImage
<1>7. CASE DetectFromFirmware
  BY <1>7, <1>f DEF DetectFromFirmware, DetectedType, Types
<1>8. CASE OverrideType
  BY <1>8, <1>f DEF OverrideType
<1>9. CASE Download
  <2>1. LoadAddress # {} => LoadAddress \subseteq Address
    BY SegmentBounds DEF LoadAddress
  <2>2. Start[platform][type] \in Address
    <3>1. type \in Types
      BY <1>9 DEF Download, FlowInv
    <3> QED BY <3>1, ImageAssumption
  <2>3. at' \in Address
    BY <1>9, <2>1, <2>2 DEF Download
  <2> QED BY <1>9, <2>3 DEF Download
<1>10. CASE UNCHANGED vars
  BY <1>10 DEF vars
<1> QED BY <1>1, <1>2, <1>3, <1>4, <1>5, <1>6, <1>7, <1>8, <1>9, <1>10 DEF Next

(* Every step keeps what is known where the command is.                    *)
LEMMA FlowInductive ==
  ASSUME TypeOK, FlowInv, [Next]_vars
  PROVE  FlowInv'
<1> USE DEF FlowInv, given, file, walk
<1>f. ASSUME NEW r \in {"error", "panic", "refused", "unreadable"}, Finish(r)
      PROVE  FlowInv'
  BY <1>f DEF Finish
<1>1. CASE FromPath
  BY <1>1, <1>f DEF FromPath, Fresh
<1>2. CASE ReadRecord
  BY <1>2, <1>f DEF ReadRecord, Fresh
<1>3. CASE ProcessRecord
  BY <1>3, <1>f DEF ProcessRecord
<1>4. CASE EndOfRecords
  BY <1>4 DEF EndOfRecords
<1>5. CASE CollectSegments
  BY <1>5, <1>f DEF CollectSegments
<1>6. CASE BuildFirmwareImage
  BY <1>6, <1>f DEF BuildFirmwareImage
<1>7. CASE DetectFromFirmware
  BY <1>7, <1>f DEF DetectFromFirmware, DetectedType, Types
<1>8. CASE OverrideType
  BY <1>8, <1>f DEF OverrideType
<1>9. CASE Download
  BY <1>9 DEF Download
<1>10. CASE UNCHANGED vars
  BY <1>10 DEF vars, Fresh
<1> QED BY <1>1, <1>2, <1>3, <1>4, <1>5, <1>6, <1>7, <1>8, <1>9, <1>10 DEF Next

(* The types of the variables, in every reachable state.                   *)
THEOREM TypeCorrect == Spec => []TypeOK
<1>1. Init => TypeOK /\ FlowInv
  BY ImageAssumption DEF Init, TypeOK, FlowInv, Fresh, Address
<1>2. TypeOK /\ FlowInv /\ [Next]_vars => TypeOK' /\ FlowInv'
  BY TypeInductive, FlowInductive
<1> QED BY <1>1, <1>2, PTL DEF Spec

-----------------------------------------------------------------------------
(* The pieces of a file of records rs.                                     *)
LoadedIn(rs) == {i \in 1..Len(rs) : rs[i].type = "data" /\ rs[i].data # <<>>}
BasesIn(rs, i) == {j \in 1..(i - 1) : rs[j].type = "linear"}
BaseIn(rs, i) == IF BasesIn(rs, i) = {} THEN 0 ELSE rs[Max(BasesIn(rs, i))].address
PlaceIn(rs, i) == rs[i].address + BaseIn(rs, i)

(* Pieces with data that do not overlap, below the end of memory.          *)
Pieces(rs) ==
  /\ rs \in Seq(Record)
  /\ \A i \in LoadedIn(rs) :
       /\ PlaceIn(rs, i) \in Nat
       /\ rs[i].data \in Seq(Byte) /\ Len(rs[i].data) > 0
       /\ PlaceIn(rs, i) + Len(rs[i].data) < Space
  /\ \A i, j \in LoadedIn(rs) :
       i # j => \/ PlaceIn(rs, i) + Len(rs[i].data) <= PlaceIn(rs, j)
                \/ PlaceIn(rs, j) + Len(rs[j].data) <= PlaceIn(rs, i)

(* The bytes s, put at b, have those of t at q.                            *)
Keeps(b, s, q, t) ==
  /\ b <= q
  /\ q + Len(t) <= b + Len(s)
  /\ \A k \in 1..Len(t) : s[q - b + k] = t[k]

(* The bytes s, put at b, are all of pieces up to n.                       *)
Covered(rs, n, b, s) ==
  /\ b + Len(s) < Space
  /\ \A a \in Nat : (b <= a /\ a < b + Len(s)) =>
       \E i \in LoadedIn(rs) :
         i <= n /\ PlaceIn(rs, i) <= a /\ a < PlaceIn(rs, i) + Len(rs[i].data)

(* from_records after n records: the segments segs, and the bytes d at bg. *)
Cut(rs, n, segs, bg, d) ==
  /\ \A i \in LoadedIn(rs) : i <= n =>
       \/ Keeps(bg, d, PlaceIn(rs, i), rs[i].data)
       \/ \E b \in DOMAIN segs : Keeps(b, segs[b], PlaceIn(rs, i), rs[i].data)
  /\ \A b \in DOMAIN segs :
       b \in Nat /\ segs[b] \in Seq(Byte) /\ segs[b] # <<>> /\ Covered(rs, n, b, segs[b])
  /\ bg \in Nat /\ d \in Seq(Byte) /\ Covered(rs, n, bg, d)
  /\ \A b, c \in DOMAIN segs : b < c => b + Len(segs[b]) <= c
  /\ d # <<>> => \A b \in DOMAIN segs : b + Len(segs[b]) <= bg \/ bg + Len(d) <= b

(* Putting the bytes at hand away keeps everything.                        *)
LEMMA FlushCut ==
  ASSUME NEW rs, Pieces(rs), NEW n \in Nat, NEW segs, NEW bg, NEW d, Cut(rs, n, segs, bg, d),
         NEW x \in Address
  PROVE  Cut(rs, n, IF d # <<>> THEN Put(segs, bg, d) ELSE segs, x, <<>>)
<1> DEFINE new == IF d # <<>> THEN Put(segs, bg, d) ELSE segs
<1>0. x \in Nat /\ x < Space
  BY ImageAssumption DEF Address
<1>1. Covered(rs, n, x, <<>>)
  BY <1>0 DEF Covered
<1>2. CASE d = <<>>
  <2>1. new = segs
    BY <1>2
  <2>2. \A i \in LoadedIn(rs) : ~ Keeps(bg, d, PlaceIn(rs, i), rs[i].data)
    BY <1>2 DEF Keeps, Pieces, Cut
  <2> HIDE DEF new
  <2>3. \A i \in LoadedIn(rs) : i <= n =>
          \E b \in DOMAIN new : Keeps(b, new[b], PlaceIn(rs, i), rs[i].data)
    BY <2>1, <2>2 DEF Cut
  <2> QED BY <1>0, <1>1, <2>1, <2>3 DEF Cut, new
<1>3. CASE d # <<>>
  <2>1. bg \notin DOMAIN segs
    <3>1. d \in Seq(Byte) /\ Len(d) > 0 /\ bg \in Nat
      BY <1>3 DEF Cut
    <3>2. ASSUME bg \in DOMAIN segs PROVE FALSE
      <4>1. segs[bg] \in Seq(Byte) /\ Len(segs[bg]) > 0
        BY <3>2 DEF Cut
      <4>2. bg + Len(segs[bg]) <= bg \/ bg + Len(d) <= bg
        BY <1>3, <3>2 DEF Cut
      <4> QED BY <3>1, <4>1, <4>2
    <3> QED BY <3>2
  <2>2. /\ DOMAIN new = DOMAIN segs \cup {bg}
        /\ new[bg] = d
        /\ \A b \in DOMAIN segs : new[b] = segs[b]
    BY <1>3, <2>1 DEF Put
  <2> HIDE DEF new
  <2>3. \A i \in LoadedIn(rs) : i <= n =>
          \E b \in DOMAIN new : Keeps(b, new[b], PlaceIn(rs, i), rs[i].data)
    BY <2>2 DEF Cut
  <2>4. \A b \in DOMAIN new :
          b \in Nat /\ new[b] \in Seq(Byte) /\ new[b] # <<>> /\ Covered(rs, n, b, new[b])
    BY <1>3, <2>2 DEF Cut
  <2>5. ASSUME NEW b \in DOMAIN new, NEW c \in DOMAIN new, b < c
        PROVE  b + Len(new[b]) <= c
    <3>1. CASE b = bg
      <4>1. c \in DOMAIN segs /\ c \in Nat /\ bg \in Nat /\ Len(segs[c]) > 0 /\ Len(segs[c]) \in Nat
        BY <2>2, <2>4, <2>5, <3>1
      <4>2. c + Len(segs[c]) <= bg \/ bg + Len(d) <= c
        BY <1>3, <4>1 DEF Cut
      <4> QED BY <2>2, <2>5, <3>1, <4>1, <4>2
    <3>2. CASE c = bg
      <4>1. /\ b \in DOMAIN segs /\ b \in Nat /\ bg \in Nat
            /\ Len(segs[b]) \in Nat /\ Len(d) \in Nat /\ Len(d) > 0
        BY <2>2, <2>4, <2>5, <3>2
      <4>2. b + Len(segs[b]) <= bg \/ bg + Len(d) <= b
        BY <1>3, <4>1 DEF Cut
      <4> QED BY <2>2, <2>5, <3>2, <4>1, <4>2
    <3>3. CASE b # bg /\ c # bg
      BY <2>2, <2>5, <3>3 DEF Cut
    <3> QED BY <3>1, <3>2, <3>3
  <2> QED BY <1>0, <1>1, <2>3, <2>4, <2>5 DEF Cut, new
<1> QED BY <1>2, <1>3

(* Bytes of earlier pieces are apart from the next piece.                  *)
LEMMA NextApart ==
  ASSUME NEW rs, Pieces(rs), NEW n \in Nat, n + 1 \in LoadedIn(rs),
         NEW b \in Nat, NEW s \in Seq(Byte), s # <<>>, Covered(rs, n, b, s)
  PROVE  \/ b + Len(s) <= PlaceIn(rs, n + 1)
         \/ PlaceIn(rs, n + 1) + Len(rs[n + 1].data) <= b
<1> DEFINE p == PlaceIn(rs, n + 1)
           l == Len(rs[n + 1].data)
<1>1. p \in Nat /\ l \in Nat /\ l > 0
  BY DEF Pieces
<1>2. Len(s) \in Nat /\ Len(s) > 0
  OBVIOUS
<1>3. ASSUME NEW a \in Nat, b <= a, a < b + Len(s), p <= a, a < p + l
      PROVE  FALSE
  <2>1. PICK i \in LoadedIn(rs) :
          i <= n /\ PlaceIn(rs, i) <= a /\ a < PlaceIn(rs, i) + Len(rs[i].data)
    BY <1>3 DEF Covered
  <2>2. i # n + 1 /\ PlaceIn(rs, i) \in Nat /\ Len(rs[i].data) \in Nat
    BY <2>1 DEF Pieces
  <2>3. \/ PlaceIn(rs, i) + Len(rs[i].data) <= p
        \/ p + l <= PlaceIn(rs, i)
    BY <2>2 DEF Pieces
  <2> HIDE DEF p, l
  <2> QED BY <1>1, <1>3, <2>1, <2>2, <2>3
<1> HIDE DEF p, l
<1> DEFINE m == Len(s)
<1>2a. m \in Nat /\ m > 0
  BY <1>2
<1>3a. \A a \in Nat : ~ (b <= a /\ a < b + m /\ p <= a /\ a < p + l)
  BY <1>3
<1> HIDE DEF m
<1>4. CASE b <= p
  <2>1. ~ (p < b + m)
    BY <1>1, <1>2a, <1>3a, <1>4
  <2> QED BY <1>1, <1>2a, <2>1 DEF m, p, l
<1>5. CASE p < b
  <2>1. ~ (b < p + l)
    BY <1>1, <1>2a, <1>3a, <1>5
  <2> QED BY <1>1, <1>2a, <2>1 DEF m, p, l
<1> QED BY <1>1, <1>4, <1>5 DEF p, l

(* What is covered stays covered.                                          *)
LEMMA CoveredNext ==
  ASSUME NEW rs, NEW n \in Nat, NEW b, NEW s, Covered(rs, n, b, s)
  PROVE  Covered(rs, n + 1, b, s)
<1>1. \A i \in LoadedIn(rs) : i <= n => i <= n + 1
  BY DEF LoadedIn
<1> QED BY <1>1 DEF Covered

(* A record without data changes nothing.                                  *)
LEMMA SkipCut ==
  ASSUME NEW rs, NEW n \in Nat, n + 1 \notin LoadedIn(rs), NEW segs, NEW bg, NEW d,
         Cut(rs, n, segs, bg, d)
  PROVE  Cut(rs, n + 1, segs, bg, d)
<1>1. \A i \in LoadedIn(rs) : i <= n + 1 => i <= n
  BY DEF LoadedIn
<1> QED BY <1>1, CoveredNext DEF Cut

(* A piece that starts a segment.                                          *)
LEMMA StartCut ==
  ASSUME NEW rs, Pieces(rs), NEW n \in Nat, n + 1 \in LoadedIn(rs), NEW segs, NEW x,
         Cut(rs, n, segs, x, <<>>)
  PROVE  Cut(rs, n + 1, segs, PlaceIn(rs, n + 1), rs[n + 1].data)
<1> DEFINE p == PlaceIn(rs, n + 1)
           t == rs[n + 1].data
<1>1. p \in Nat /\ t \in Seq(Byte) /\ Len(t) > 0 /\ p + Len(t) < Space
  BY DEF Pieces
<1>2. Keeps(p, t, p, t)
  <2> HIDE DEF p, t
  <2> QED BY <1>1 DEF Keeps
<1>3. \A i \in LoadedIn(rs) : i <= n + 1 => i <= n \/ i = n + 1
  BY DEF LoadedIn
<1>4. \A i \in LoadedIn(rs) : ~ Keeps(x, <<>>, PlaceIn(rs, i), rs[i].data)
  BY DEF Keeps, Pieces, Cut
<1>5. \A i \in LoadedIn(rs) : i <= n + 1 =>
        \/ Keeps(p, t, PlaceIn(rs, i), rs[i].data)
        \/ \E b \in DOMAIN segs : Keeps(b, segs[b], PlaceIn(rs, i), rs[i].data)
  BY <1>2, <1>3, <1>4 DEF Cut
<1>6. Covered(rs, n + 1, p, t)
  BY <1>1 DEF Covered
<1>7. \A b \in DOMAIN segs : b + Len(segs[b]) <= p \/ p + Len(t) <= b
  BY NextApart DEF Cut
<1> HIDE DEF p, t
<1> QED BY <1>1, <1>5, <1>6, <1>7, CoveredNext DEF Cut, p, t

(* A piece that goes on where the bytes at hand end.                       *)
LEMMA ExtendCut ==
  ASSUME NEW rs, Pieces(rs), NEW n \in Nat, n + 1 \in LoadedIn(rs), NEW segs, NEW bg, NEW d,
         Cut(rs, n, segs, bg, d), PlaceIn(rs, n + 1) = bg + Len(d)
  PROVE  Cut(rs, n + 1, segs, bg, d \o rs[n + 1].data)
<1> DEFINE p == PlaceIn(rs, n + 1)
           t == rs[n + 1].data
<1>1. p \in Nat /\ t \in Seq(Byte) /\ Len(t) > 0 /\ p + Len(t) < Space
  BY DEF Pieces
<1>2. bg \in Nat /\ d \in Seq(Byte) /\ p = bg + Len(d)
  BY DEF Cut
<1>a. \A i \in LoadedIn(rs) :
        PlaceIn(rs, i) \in Nat /\ rs[i].data \in Seq(Byte) /\ Len(rs[i].data) > 0
  BY DEF Pieces
<1>b. \A i \in LoadedIn(rs) : i <= n + 1 => i <= n \/ i = n + 1
  BY DEF LoadedIn
<1>c. \A b \in DOMAIN segs : /\ b \in Nat /\ segs[b] \in Seq(Byte) /\ segs[b] # <<>>
                              /\ Len(segs[b]) \in Nat /\ Len(segs[b]) > 0
  BY DEF Cut
<1>7. \A b \in DOMAIN segs : b + Len(segs[b]) <= p \/ p + Len(t) <= b
  BY NextApart DEF Cut
<1>8. d # <<>> => \A b \in DOMAIN segs : b + Len(segs[b]) <= bg \/ bg + Len(d) <= b
  BY DEF Cut
<1>9. \A i \in LoadedIn(rs) : i <= n =>
       \/ Keeps(bg, d, PlaceIn(rs, i), rs[i].data)
       \/ \E b \in DOMAIN segs : Keeps(b, segs[b], PlaceIn(rs, i), rs[i].data)
  BY DEF Cut
<1>x. PlaceIn(rs, n + 1) = p /\ rs[n + 1].data = t
  OBVIOUS
<1> HIDE DEF p, t
<1> DEFINE u == d \o t
<1>3. /\ u \in Seq(Byte) /\ u # <<>> /\ Len(u) = Len(d) + Len(t)
      /\ \A k \in 1..Len(d) : u[k] = d[k]
      /\ \A k \in 1..Len(t) : u[Len(d) + k] = t[k]
  BY <1>1, <1>2
<1> HIDE DEF u
<1>4. Keeps(bg, u, p, t)
  BY <1>1, <1>2, <1>3 DEF Keeps
<1>5. ASSUME NEW i \in LoadedIn(rs), Keeps(bg, d, PlaceIn(rs, i), rs[i].data)
      PROVE  Keeps(bg, u, PlaceIn(rs, i), rs[i].data)
  <2> DEFINE q == PlaceIn(rs, i)
             v == rs[i].data
  <2>1. q \in Nat /\ v \in Seq(Byte) /\ Len(v) \in Nat
    BY <1>a
  <2>2. bg <= q /\ q + Len(v) <= bg + Len(d) /\ \A k \in 1..Len(v) : d[q - bg + k] = v[k]
    BY <1>5 DEF Keeps
  <2> HIDE DEF q, v
  <2>3. q + Len(v) <= bg + Len(u)
    BY <1>1, <1>2, <1>3, <2>1, <2>2
  <2>4. ASSUME NEW k \in 1..Len(v) PROVE u[q - bg + k] = v[k]
    <3>1. q - bg + k \in 1..Len(d)
      BY <1>2, <2>1, <2>2
    <3> QED BY <1>3, <2>2, <3>1
  <2> QED BY <2>2, <2>3, <2>4 DEF Keeps, q, v
<1>6. \A i \in LoadedIn(rs) : i <= n + 1 =>
        \/ Keeps(bg, u, PlaceIn(rs, i), rs[i].data)
        \/ \E b \in DOMAIN segs : Keeps(b, segs[b], PlaceIn(rs, i), rs[i].data)
  BY <1>4, <1>5, <1>9, <1>b, <1>x
<1>10. Covered(rs, n + 1, bg, u)
  <2>1. bg + Len(u) < Space
    BY <1>1, <1>2, <1>3
  <2>2. ASSUME NEW a \in Nat, bg <= a, a < bg + Len(u)
        PROVE  \E i \in LoadedIn(rs) :
                 i <= n + 1 /\ PlaceIn(rs, i) <= a /\ a < PlaceIn(rs, i) + Len(rs[i].data)
    <3>1. CASE a < p
      <4>1. Covered(rs, n + 1, bg, d)
        BY CoveredNext DEF Cut
      <4> QED BY <1>2, <2>2, <3>1, <4>1 DEF Covered
    <3>2. CASE p <= a
      <4>1. a < p + Len(t)
        BY <1>1, <1>2, <1>3, <2>2
      <4> QED BY <1>x, <3>2, <4>1
    <3> QED BY <1>1, <3>1, <3>2
  <2> QED BY <2>1, <2>2 DEF Covered
<1>11. \A b \in DOMAIN segs : b + Len(segs[b]) <= bg \/ bg + Len(u) <= b
  <2>1. TAKE b \in DOMAIN segs
  <2>2. CASE d = <<>>
    BY <1>1, <1>2, <1>3, <1>7, <1>c, <2>2
  <2>3. CASE d # <<>>
    <3>1. Len(d) > 0 /\ Len(d) \in Nat
      BY <1>2, <2>3
    <3>2. b + Len(segs[b]) <= bg \/ p <= b
      BY <1>2, <1>8, <2>3
    <3> QED BY <1>1, <1>2, <1>3, <1>7, <1>c, <3>1, <3>2
  <2> QED BY <2>2, <2>3
<1> QED BY <1>2, <1>3, <1>6, <1>10, <1>11, <1>c, <1>x, CoveredNext DEF Cut, u

-----------------------------------------------------------------------------
(* Bases of records are addresses.                                         *)
LEMMA BaseIsAddress ==
  ASSUME NEW rs \in Seq(Record), NEW i \in 1..(Len(rs) + 1)
  PROVE  BaseIn(rs, i) \in Address
<1>1. CASE BasesIn(rs, i) = {}
  BY <1>1, ImageAssumption DEF BaseIn, Address
<1>2. CASE BasesIn(rs, i) # {}
  <2>1. BasesIn(rs, i) \in SUBSET (0..(i - 1)) /\ i - 1 \in Nat
    BY DEF BasesIn
  <2>2. Max(BasesIn(rs, i)) \in BasesIn(rs, i)
    BY <1>2, <2>1, LargestOf
  <2>3. Max(BasesIn(rs, i)) \in 1..Len(rs)
    BY <2>2 DEF BasesIn
  <2>4. rs[Max(BasesIn(rs, i))] \in Record
    BY <2>3
  <2> QED BY <1>2, <2>4 DEF BaseIn, Record
<1> QED BY <1>1, <1>2

(* What WellFormed asks of a file makes its records pieces.                *)
LEMMA WellFormedPieces ==
  ASSUME TypeOK, WellFormed
  PROVE  /\ Pieces(records)
         /\ Loaded = LoadedIn(records)
         /\ \A i : Place(i) = PlaceIn(records, i)
<1>1. Loaded = LoadedIn(records)
  BY DEF Loaded, LoadedIn, IsLoaded
<1>2. ASSUME NEW i PROVE Place(i) = PlaceIn(records, i)
  BY DEF Place, PlaceIn, BaseIn, Bases, BasesIn
<1>3. ASSUME NEW i \in Loaded
      PROVE  /\ PlaceIn(records, i) \in Nat
             /\ records[i].data \in Seq(Byte) /\ Len(records[i].data) > 0
  <2>1. i \in 1..Len(records) /\ records[i] \in Record /\ records[i].data # <<>>
    BY <1>3 DEF Loaded, IsLoaded, TypeOK
  <2>2. BaseIn(records, i) \in Address
    BY <2>1, BaseIsAddress DEF TypeOK
  <2>3. records[i].address \in Address /\ records[i].data \in Seq(Byte)
    BY <2>1 DEF Record
  <2> QED BY <2>1, <2>2, <2>3, ImageAssumption DEF PlaceIn, Address
<1>4. \A i \in Loaded : PlaceIn(records, i) + Len(records[i].data) < Space
  BY <1>2 DEF WellFormed, PlaceEnd
<1>5. \A i, j \in Loaded :
        i # j => \/ PlaceIn(records, i) + Len(records[i].data) <= PlaceIn(records, j)
                 \/ PlaceIn(records, j) + Len(records[j].data) <= PlaceIn(records, i)
  BY <1>2 DEF WellFormed, Apart, PlaceEnd
<1> QED BY <1>1, <1>2, <1>3, <1>4, <1>5 DEF Pieces, TypeOK

(* The base of the next record.                                            *)
LEMMA NextBase ==
  ASSUME NEW rs \in Seq(Record), NEW n \in Nat, n < Len(rs)
  PROVE  BaseIn(rs, n + 2) =
           IF rs[n + 1].type = "linear" THEN rs[n + 1].address ELSE BaseIn(rs, n + 1)
<1>1. CASE rs[n + 1].type = "linear"
  <2> DEFINE B == BasesIn(rs, n + 2)
  <2>1. n + 1 \in B /\ \A j \in B : j \in Int /\ j <= n + 1
    BY <1>1 DEF BasesIn
  <2> HIDE DEF B
  <2>2. Max(B) = n + 1
    BY <2>1 DEF Max
  <2> QED BY <1>1, <2>1, <2>2 DEF BaseIn, B
<1>2. CASE rs[n + 1].type # "linear"
  <2>1. BasesIn(rs, n + 2) = BasesIn(rs, n + 1)
    BY <1>2 DEF BasesIn
  <2> QED BY <1>2, <2>1 DEF BaseIn
<1> QED BY <1>1, <1>2

-----------------------------------------------------------------------------
(* The invariant of the way from the records to the image.                 *)
MoreData == \E j \in (idx + 1)..Len(records) : records[j].type = "data"

ProcessInv ==
  (pc = "process" /\ WellFormed) =>
    /\ Cut(records, idx, segments, begin, data)
    /\ idx < Len(records) => end = begin + Len(data)
    /\ idx = Len(records) => data = <<>>
    /\ MoreData => base = BaseIn(records, idx + 1)

BuildInv ==
  (pc = "build" /\ WellFormed) => Cut(records, Len(records), segments, 0, <<>>)

(* The image, put at a, is what the file says.                             *)
HoldsAt(a) ==
  /\ \A i \in Loaded : \A k \in 1..Len(records[i].data) :
       /\ Place(i) + k - 1 - a + 1 \in 1..Len(image)
       /\ image[Place(i) + k - 1 - a + 1] = records[i].data[k]
  /\ \A c \in a..(a + Len(image) - 1) :
       (\A i \in Loaded : c \notin Place(i)..(PlaceEnd(i) - 1)) =>
         c - a + 1 \in 1..Len(image) /\ image[c - a + 1] = Erased

ImageInv ==
  (pc \in {"detect", "override", "download"} /\ form \in {"elf", "hex"} /\ WellFormed) =>
    DOMAIN segments # {} /\ HoldsAt(Lowest)

PathInv == ProcessInv /\ BuildInv /\ ImageInv /\ ProgramsWhatFileSays

(* What a file says does not change while it is walked through.            *)
LEMMA SameFile ==
  ASSUME UNCHANGED file
  PROVE  /\ WellFormed' <=> WellFormed
         /\ Loaded' = Loaded
         /\ \A i : Place(i)' = Place(i) /\ PlaceEnd(i)' = PlaceEnd(i)
<1> USE DEF file
<1>1. Loaded' = Loaded
  BY DEF Loaded, IsLoaded
<1>2. ASSUME NEW i PROVE Place(i)' = Place(i) /\ PlaceEnd(i)' = PlaceEnd(i)
  BY DEF Place, PlaceEnd, Bases
<1>3. Apart' <=> Apart
  BY <1>1, <1>2 DEF Apart
<1>4. Ordered' <=> Ordered
  BY DEF Ordered
<1>5. WellFormed' <=> WellFormed
  BY <1>1, <1>2, <1>3, <1>4 DEF WellFormed
<1> QED BY <1>1, <1>2, <1>5

(* A well-formed HEX file is walked through without an error.              *)
LEMMA ProcessStep ==
  ASSUME TypeOK, FlowInv, ProcessInv, ProcessRecord, WellFormed
  PROVE  /\ pc' = "process" /\ result' = result
         /\ ProcessInv'
<1> DEFINE r == records[idx + 1]
           t == r.data
<1>1. pc = "process" /\ idx \in Nat /\ idx < Len(records) /\ form = "hex" /\ Ordered
  BY DEF ProcessRecord, TypeOK, FlowInv, WellFormed
<1>2. /\ records \in Seq(Record) /\ idx + 1 \in 1..Len(records) /\ r \in Record
      /\ r.type \in {"data", "linear", "start", "eof"}
      /\ (r.type = "eof") = (idx + 1 = Len(records))
      /\ r.type = "start" => \A j \in (idx + 1)..Len(records) : records[j].type # "data"
  BY <1>1 DEF Ordered, TypeOK
<1>3. /\ Pieces(records) /\ Loaded = LoadedIn(records)
      /\ \A i : Place(i) = PlaceIn(records, i)
  BY WellFormedPieces
<1>4. /\ Cut(records, idx, segments, begin, data)
      /\ end = begin + Len(data)
      /\ MoreData => base = BaseIn(records, idx + 1)
  BY <1>1 DEF ProcessInv
<1>5. /\ r.address \in Address /\ t \in Seq(Byte) /\ Len(t) \in Nat /\ Len(t) < Space
      /\ Space \in Nat
  BY <1>2, ImageAssumption DEF Record
<1>6. idx + 1 \in LoadedIn(records) <=> (r.type = "data" /\ t # <<>>)
  BY <1>2 DEF LoadedIn
<1>7. BaseIn(records, idx + 2) =
        IF r.type = "linear" THEN r.address ELSE BaseIn(records, idx + 1)
  BY <1>1, <1>2, NextBase
<1> HIDE DEF r, t
<1>8. begin \in Nat /\ data \in Seq(Byte) /\ Len(data) \in Nat /\ begin + Len(data) < Space
  BY <1>4 DEF Cut, Covered
<1>9. Flushed = IF data # <<>> THEN Put(segments, begin, data) ELSE segments
  <2>1. (end # begin) <=> (data # <<>>)
    BY <1>4, <1>8
  <2> QED BY <2>1 DEF Flushed
<1>10. \A x \in Address : Cut(records, idx, Flushed, x, <<>>)
  BY <1>1, <1>3, <1>4, <1>9, FlushCut
<1>11. /\ idx' = idx + 1
       /\ CASE r.type = "data" -> AddData(r)
            [] r.type = "eof" -> segments' = Flushed /\ data' = <<>> /\ UNCHANGED <<base, begin, end>>
            [] OTHER -> base' = r.address /\ UNCHANGED <<begin, end, data, segments>>
       /\ UNCHANGED <<pc, given, file, image, type, override, at, result>>
  BY <1>2 DEF ProcessRecord, r
<1>12. UNCHANGED file /\ pc' = "process" /\ result' = result /\ records' = records
  BY <1>1, <1>11 DEF file
<1>13. SUFFICES /\ Cut(records, idx + 1, segments', begin', data')
                /\ idx + 1 < Len(records) => end' = begin' + Len(data')
                /\ idx + 1 = Len(records) => data' = <<>>
                /\ (\E j \in (idx + 2)..Len(records) : records[j].type = "data") =>
                     base' = BaseIn(records, idx + 2)
  BY <1>1, <1>11, <1>12 DEF ProcessInv, MoreData
<1>14. (\E j \in (idx + 2)..Len(records) : records[j].type = "data") => MoreData
  BY <1>1 DEF MoreData
<1>15. CASE r.type = "eof"
  <2>1. segments' = Flushed /\ data' = <<>> /\ base' = base /\ begin' = begin
    BY <1>11, <1>15
  <2>2. begin \in Address /\ idx + 1 = Len(records)
    BY <1>2, <1>15 DEF TypeOK, r
  <2>3. Cut(records, idx + 1, Flushed, begin, <<>>)
    BY <1>1, <1>6, <1>10, <1>15, <2>2, SkipCut
  <2> QED BY <1>1, <2>1, <2>2, <2>3
<1>16. CASE r.type \in {"linear", "start"}
  <2>1. base' = r.address /\ begin' = begin /\ end' = end /\ data' = data /\ segments' = segments
    BY <1>11, <1>16
  <2>2. idx + 1 # Len(records)
    BY <1>2, <1>16 DEF r
  <2>3. Cut(records, idx + 1, segments, begin, data)
    BY <1>1, <1>4, <1>6, <1>16, SkipCut
  <2>4. (\E j \in (idx + 2)..Len(records) : records[j].type = "data") => r.type = "linear"
    BY <1>1, <1>2, <1>16 DEF r
  <2> QED BY <1>4, <1>7, <2>1, <2>2, <2>3, <2>4
<1>17. CASE r.type = "data"
  <2> DEFINE address == Wrap(base + r.address)
  <2>1. AddData(r) /\ base' = base /\ idx + 1 # Len(records)
    BY <1>2, <1>11, <1>17 DEF AddData, r
  <2>2. base = BaseIn(records, idx + 1)
    <3>1. MoreData
      BY <1>2, <1>17 DEF MoreData, r
    <3> QED BY <1>4, <3>1
  <2>3. address \in Address
    <3>1. base \in Address
      BY DEF TypeOK
    <3>2. r.address \in Nat /\ r.address <= Space
      BY <1>5 DEF Address
    <3> QED BY <3>1, <3>2, WrapIsAddress
  <2>4. address \in Nat /\ address < Space
    BY <1>5, <2>3 DEF Address
  <2>5. t # <<>> => /\ address = PlaceIn(records, idx + 1)
                    /\ address + Len(t) < Space
    <3>1. PlaceIn(records, idx + 1) = base + r.address
      <4>1. base \in Nat /\ r.address \in Nat
        BY <1>5 DEF TypeOK, Address
      <4> QED BY <2>2, <4>1 DEF PlaceIn, r
    <3>2. t # <<>> => /\ PlaceIn(records, idx + 1) \in Nat
                      /\ PlaceIn(records, idx + 1) + Len(t) < Space
      BY <1>3, <1>6, <1>17 DEF Pieces, t, r
    <3> QED BY <1>5, <3>1, <3>2 DEF Wrap
  <2> HIDE DEF address
  <2>6. address + Len(t) < Space
    BY <1>5, <2>4, <2>5
  <2>7. Wrap(address + Len(t)) = address + Len(t)
    BY <2>6 DEF Wrap
  <2>8. Cut(records, idx + 1, segments', begin', data') /\ end' = begin' + Len(data')
    <3>1. CASE end # address
      <4>1. segments' = Flushed /\ begin' = address /\ end' = address + Len(t) /\ data' = t
        BY <2>1, <2>7, <3>1 DEF AddData, address, t
      <4>2. Cut(records, idx, Flushed, address, <<>>)
        BY <1>10, <2>3
      <4>3. CASE t = <<>>
        BY <1>1, <1>6, <4>1, <4>2, <4>3, SkipCut
      <4>4. CASE t # <<>>
        <5>1. Cut(records, idx + 1, Flushed, PlaceIn(records, idx + 1), records[idx + 1].data)
          BY <1>1, <1>3, <1>6, <1>17, <4>2, <4>4, StartCut
        <5> QED BY <2>5, <4>1, <4>4, <5>1 DEF t, r
      <4> QED BY <4>1, <4>3, <4>4
    <3>2. CASE end = address
      <4>1. segments' = segments /\ begin' = begin /\ end' = Wrap(end + Len(t)) /\ data' = data \o t
        BY <2>1, <3>2 DEF AddData, address, t
      <4>2. end' = begin + Len(data \o t)
        <5>1. Len(data \o t) = Len(data) + Len(t)
          BY <1>5, <1>8
        <5>2. end' = end + Len(t)
          BY <2>7, <3>2, <4>1
        <5> QED BY <1>4, <1>5, <1>8, <5>1, <5>2
      <4>3. CASE t = <<>>
        <5>1. data \o t = data
          BY <1>8, <4>3
        <5> QED BY <1>1, <1>4, <1>6, <4>1, <4>2, <4>3, <5>1, SkipCut
      <4>4. CASE t # <<>>
        <5>1. PlaceIn(records, idx + 1) = begin + Len(data)
          BY <1>4, <2>5, <3>2, <4>4
        <5>2. Cut(records, idx + 1, segments, begin, data \o records[idx + 1].data)
          BY <1>1, <1>3, <1>4, <1>6, <1>17, <4>4, <5>1, ExtendCut
        <5> QED BY <4>1, <4>2, <5>2 DEF t, r
      <4> QED BY <4>3, <4>4
    <3> QED BY <3>1, <3>2
  <2> QED BY <1>4, <1>7, <1>14, <1>17, <2>1, <2>2, <2>8
<1> QED BY <1>2, <1>15, <1>16, <1>17 DEF r

(* The end of the records leaves nothing outside the segments.             *)
LEMMA EndStep ==
  ASSUME TypeOK, ProcessInv, EndOfRecords
  PROVE  BuildInv'
<1>1. UNCHANGED file /\ pc = "process" /\ idx = Len(records) /\ segments' = segments
  BY DEF EndOfRecords, walk
<1>2. ASSUME WellFormed PROVE Cut(records, Len(records), segments, 0, <<>>)
  <2>1. Cut(records, idx, segments, begin, <<>>)
    BY <1>1, <1>2 DEF ProcessInv
  <2>2. Covered(records, idx, 0, <<>>)
    BY ImageAssumption DEF Covered
  <2>3. \A i \in LoadedIn(records) : ~ Keeps(begin, <<>>, PlaceIn(records, i), records[i].data)
    <3>1. Pieces(records)
      BY <1>2, WellFormedPieces
    <3> QED BY <2>1, <3>1 DEF Keeps, Pieces, Cut
  <2> QED BY <1>1, <2>1, <2>2, <2>3 DEF Cut
<1> QED BY <1>1, <1>2, SameFile DEF BuildInv, file

(* The segments of a well-formed ELF file are its pieces.                  *)
LEMMA CollectStep ==
  ASSUME TypeOK, FlowInv, CollectSegments, WellFormed
  PROVE  pc' = "build" /\ result' = result /\ BuildInv'
<1> DEFINE addresses == {records[i].address : i \in Loaded}
           last(a) == Max({i \in Loaded : records[i].address = a})
           rs == records
<1>1. /\ form = "elf" /\ rs \in Seq(Record)
      /\ \A i \in 1..Len(rs) : rs[i].type \in {"data", "other"}
  BY DEF CollectSegments, FlowInv, WellFormed, TypeOK
<1>2. /\ Pieces(rs) /\ Loaded = LoadedIn(rs)
  BY WellFormedPieces
<1>3. /\ segments' = [a \in addresses |-> rs[last(a)].data]
      /\ pc' = "build" /\ result' = result /\ UNCHANGED file
  BY <1>1 DEF CollectSegments, file
<1>4. ASSUME NEW i \in Loaded
      PROVE  /\ PlaceIn(rs, i) = rs[i].address
             /\ rs[i].address \in Nat /\ rs[i].data \in Seq(Byte) /\ Len(rs[i].data) > 0
             /\ rs[i].data # <<>> /\ Len(rs[i].data) \in Nat
             /\ rs[i].address + Len(rs[i].data) < Space
             /\ last(rs[i].address) = i
  <2>1. i \in 1..Len(rs) /\ rs[i] \in Record
    BY <1>1, <1>4 DEF Loaded
  <2>2. BasesIn(rs, i) = {}
    BY <1>1, <2>1 DEF BasesIn
  <2>3. rs[i].address \in Nat
    BY <2>1, ImageAssumption DEF Record, Address
  <2>4. PlaceIn(rs, i) = rs[i].address
    BY <2>2, <2>3 DEF PlaceIn, BaseIn
  <2>5. /\ rs[i].data \in Seq(Byte) /\ Len(rs[i].data) > 0 /\ Len(rs[i].data) \in Nat
        /\ rs[i].address + Len(rs[i].data) < Space
    BY <1>2, <1>4, <2>4 DEF Pieces
  <2>6. ASSUME NEW j \in Loaded, rs[j].address = rs[i].address, j # i
        PROVE  FALSE
    <3>1. BasesIn(rs, j) = {}
      BY <1>1, <2>6 DEF BasesIn, Loaded
    <3>2. PlaceIn(rs, j) = PlaceIn(rs, i)
      BY <2>2, <2>6, <3>1 DEF PlaceIn, BaseIn
    <3>3. Len(rs[j].data) \in Nat /\ Len(rs[j].data) > 0
      BY <1>2, <2>6 DEF Pieces
    <3>4. \/ PlaceIn(rs, i) + Len(rs[i].data) <= PlaceIn(rs, j)
          \/ PlaceIn(rs, j) + Len(rs[j].data) <= PlaceIn(rs, i)
      BY <1>2, <1>4, <2>6 DEF Pieces
    <3> QED BY <2>3, <2>4, <2>5, <3>2, <3>3, <3>4
  <2>7. {j \in Loaded : rs[j].address = rs[i].address} = {i}
    BY <1>4, <2>6
  <2>8. last(rs[i].address) = i
    <3> DEFINE S == {j \in Loaded : rs[j].address = rs[i].address}
    <3>1. S = {i} /\ i \in Int
      BY <2>1, <2>7
    <3> HIDE DEF S
    <3>2. Max(S) = i
      BY <3>1 DEF Max
    <3> QED BY <3>2 DEF S
  <2> QED BY <2>3, <2>4, <2>5, <2>8
<1> DEFINE segs == segments'
<1>5. /\ DOMAIN segs = addresses
      /\ \A i \in Loaded : segs[rs[i].address] = rs[i].data
  BY <1>3, <1>4
<1> HIDE DEF addresses, last, segs
<1>6. \A b \in DOMAIN segs : \E i \in Loaded : b = rs[i].address
  BY <1>5 DEF addresses
<1>7. \A i \in Loaded : rs[i].address \in DOMAIN segs
  BY <1>5 DEF addresses
<1>8. ASSUME NEW i \in Loaded
      PROVE  \E b \in DOMAIN segs : Keeps(b, segs[b], PlaceIn(rs, i), rs[i].data)
  <2>1. Keeps(rs[i].address, rs[i].data, PlaceIn(rs, i), rs[i].data)
    <3> DEFINE p == rs[i].address
               t == rs[i].data
    <3>1. p \in Nat /\ t \in Seq(Byte) /\ PlaceIn(rs, i) = p
      BY <1>4
    <3> HIDE DEF p, t
    <3>2. Keeps(p, t, p, t)
      BY <3>1 DEF Keeps
    <3> QED BY <3>1, <3>2 DEF p, t
  <2> QED BY <1>5, <1>7, <2>1
<1>9. ASSUME NEW b \in DOMAIN segs
      PROVE  /\ b \in Nat /\ segs[b] \in Seq(Byte) /\ segs[b] # <<>>
             /\ Covered(rs, Len(rs), b, segs[b])
  <2>1. PICK i \in Loaded : b = rs[i].address
    BY <1>6
  <2>2. segs[b] = rs[i].data /\ i <= Len(rs) /\ i \in LoadedIn(rs) /\ PlaceIn(rs, i) = b
    BY <1>2, <1>4, <1>5, <2>1 DEF Loaded
  <2>3. Covered(rs, Len(rs), b, segs[b])
    BY <1>4, <2>1, <2>2 DEF Covered
  <2> QED BY <1>4, <2>1, <2>2, <2>3
<1>10. ASSUME NEW b \in DOMAIN segs, NEW c \in DOMAIN segs, b < c
       PROVE  b + Len(segs[b]) <= c
  <2>1. PICK i \in Loaded : b = rs[i].address
    BY <1>6
  <2>2. PICK j \in Loaded : c = rs[j].address
    BY <1>6
  <2>3. /\ segs[b] = rs[i].data /\ PlaceIn(rs, i) = b /\ b \in Nat
        /\ segs[c] = rs[j].data /\ PlaceIn(rs, j) = c /\ c \in Nat
        /\ Len(rs[i].data) \in Nat /\ Len(rs[j].data) \in Nat /\ Len(rs[j].data) > 0
    BY <1>4, <1>5, <2>1, <2>2
  <2>4. i # j
    BY <1>10, <2>1, <2>2, <2>3
  <2>5. b + Len(rs[i].data) <= c \/ c + Len(rs[j].data) <= b
    BY <1>2, <2>3, <2>4 DEF Pieces
  <2> QED BY <1>10, <2>3, <2>5
<1>11. Covered(rs, Len(rs), 0, <<>>)
  BY ImageAssumption DEF Covered
<1>12. Cut(rs, Len(rs), segs, 0, <<>>)
  BY <1>2, <1>8, <1>9, <1>10, <1>11 DEF Cut
<1>13. records' = records
  BY <1>3 DEF file
<1> QED BY <1>3, <1>12, <1>13 DEF BuildInv, segs

(* The image of a well-formed file has the bytes of its pieces and nothing *)
(* else.                                                                   *)
LEMMA BuildStep ==
  ASSUME TypeOK, BuildInv, BuildFirmwareImage, WellFormed
  PROVE  /\ pc' = "detect" /\ result' = result
         /\ UNCHANGED <<file, segments>>
         /\ DOMAIN segments # {} /\ HoldsAt(Lowest)'
<1> DEFINE rs == records
<1>1. /\ Pieces(rs) /\ Loaded = LoadedIn(rs)
      /\ \A i : Place(i) = PlaceIn(rs, i)
      /\ Loaded # {}
  BY WellFormedPieces DEF WellFormed
<1>2. Cut(rs, Len(rs), segments, 0, <<>>)
  BY DEF BuildInv, BuildFirmwareImage
<1>3. \A i \in Loaded : /\ Place(i) \in Nat /\ PlaceEnd(i) = Place(i) + Len(rs[i].data)
                        /\ rs[i].data \in Seq(Byte) /\ Len(rs[i].data) > 0
                        /\ Len(rs[i].data) \in Nat
  BY <1>1 DEF Pieces, PlaceEnd
<1>4. ASSUME NEW i \in Loaded
      PROVE  \E b \in DOMAIN segments : Keeps(b, segments[b], Place(i), rs[i].data)
  <2>1. ~ Keeps(0, <<>>, Place(i), rs[i].data)
    BY <1>3 DEF Keeps
  <2>2. i <= Len(rs)
    BY DEF Loaded
  <2> QED BY <1>1, <1>2, <2>1, <2>2 DEF Cut
<1>5. DOMAIN segments # {}
  BY <1>1, <1>4
<1>6. \A b \in DOMAIN segments :
        /\ b \in Nat /\ segments[b] \in Seq(Byte) /\ Len(segments[b]) \in Nat
        /\ Len(segments[b]) > 0 /\ SegmentEnd(b) = b + Len(segments[b])
        /\ Covered(rs, Len(rs), b, segments[b])
  BY <1>2 DEF Cut, SegmentEnd
<1>7. \A b, c \in DOMAIN segments : b < c => SegmentEnd(b) <= c
  BY <1>2, <1>6 DEF Cut
<1>8. /\ Lowest \in DOMAIN segments /\ \A b \in DOMAIN segments : Lowest <= b
      /\ Highest \in DOMAIN segments /\ \A b \in DOMAIN segments : b <= Highest
  BY <1>5, SegmentBounds
<1>9. \A b \in DOMAIN segments : SegmentEnd(b) <= SegmentEnd(Highest) /\ SegmentEnd(b) < Space
  <2>1. TAKE b \in DOMAIN segments
  <2>2. SegmentEnd(b) < Space
    BY <1>6 DEF Covered
  <2>3. b = Highest \/ b < Highest
    BY <1>6, <1>8
  <2>4. SegmentEnd(b) <= SegmentEnd(Highest)
    BY <1>6, <1>7, <1>8, <2>3
  <2> QED BY <2>2, <2>4
<1>10. /\ image' = Flat /\ pc' = "detect" /\ result' = result
       /\ UNCHANGED <<file, segments>>
  BY <1>9 DEF Fits, BuildFirmwareImage, walk
<1> DEFINE n == SegmentEnd(Highest) - Lowest
<1>11. n \in Nat /\ Lowest \in Nat
  BY <1>6, <1>8
<1>12. image' = [k \in 1..n |-> ByteAt(Lowest + k - 1)]
  BY <1>5, <1>10 DEF Flat
<1>13. Len(image') = n
  <2> HIDE DEF n
  <2>1. image' \in Seq(Byte)
    BY <1>10, FlatType
  <2>2. DOMAIN image' = 1..n
    BY <1>12
  <2> QED BY <1>11, <2>1, <2>2
<1>14. ASSUME NEW b \in DOMAIN segments, NEW a \in Nat, b <= a, a < SegmentEnd(b)
       PROVE  ByteAt(a) = segments[b][a - b + 1]
  <2>1. ASSUME NEW c \in Over(a) PROVE c = b
    <3>1. c \in DOMAIN segments /\ c <= a /\ a < SegmentEnd(c)
      BY <2>1 DEF Over
    <3>2. c \in Nat /\ b \in Nat /\ SegmentEnd(c) \in Nat /\ SegmentEnd(b) \in Nat
      BY <1>6, <3>1
    <3>3. ~ (c < b) /\ ~ (b < c)
      BY <1>7, <1>14, <3>1, <3>2
    <3> QED BY <3>2, <3>3
  <2>2. b \in Over(a)
    BY <1>14 DEF Over
  <2>3. Over(a) # {} /\ Max(Over(a)) = b
    BY <2>1, <2>2, OverBounds
  <2> QED BY <2>3 DEF ByteAt
<1>15. \A a \in Nat : (Lowest <= a /\ a < Lowest + n) =>
         a - Lowest + 1 \in 1..n /\ image'[a - Lowest + 1] = ByteAt(a)
  <2>1. TAKE a \in Nat
  <2>2. HAVE Lowest <= a /\ a < Lowest + n
  <2> HIDE DEF n
  <2>3. a - Lowest + 1 \in 1..n /\ Lowest + (a - Lowest + 1) - 1 = a
    BY <1>11, <2>2
  <2> QED BY <1>12, <2>3
<1>16. ASSUME NEW i \in Loaded, NEW k \in 1..Len(rs[i].data)
       PROVE  /\ Place(i) + k - 1 - Lowest + 1 \in 1..n
              /\ image'[Place(i) + k - 1 - Lowest + 1] = rs[i].data[k]
  <2> DEFINE a == Place(i) + k - 1
  <2>1. PICK b \in DOMAIN segments : Keeps(b, segments[b], Place(i), rs[i].data)
    BY <1>4
  <2>2. /\ b <= Place(i) /\ Place(i) + Len(rs[i].data) <= SegmentEnd(b)
        /\ segments[b][Place(i) - b + k] = rs[i].data[k]
    BY <1>6, <2>1 DEF Keeps
  <2>3. /\ a \in Nat /\ b <= a /\ a < SegmentEnd(b) /\ b \in Nat
        /\ a - b + 1 = Place(i) - b + k
    BY <1>3, <1>6, <2>2
  <2>4. Lowest <= b /\ SegmentEnd(b) <= SegmentEnd(Highest)
    BY <1>8, <1>9
  <2>5. Lowest <= a /\ a < Lowest + n
    <3>1. SegmentEnd(Highest) \in Nat /\ SegmentEnd(b) \in Nat
      BY <1>6, <1>8
    <3> HIDE DEF a
    <3> QED BY <1>11, <2>3, <2>4, <3>1
  <2>6. ByteAt(a) = rs[i].data[k]
    BY <1>14, <2>2, <2>3
  <2>7. a - Lowest + 1 \in 1..n /\ image'[a - Lowest + 1] = ByteAt(a)
    <3> HIDE DEF a, n
    <3> QED BY <1>15, <2>3, <2>5
  <2> HIDE DEF n
  <2>8. a - Lowest + 1 = Place(i) + k - 1 - Lowest + 1
    BY <1>3, <1>11
  <2> HIDE DEF a
  <2> QED BY <2>6, <2>7, <2>8
<1>17. ASSUME NEW c \in Lowest..(Lowest + n - 1),
              \A i \in Loaded : c \notin Place(i)..(PlaceEnd(i) - 1)
       PROVE  c - Lowest + 1 \in 1..n /\ image'[c - Lowest + 1] = Erased
  <2>1. c \in Nat /\ Lowest <= c /\ c < Lowest + n
    <3> HIDE DEF n
    <3> QED BY <1>11
  <2>2. ASSUME NEW b \in Over(c) PROVE FALSE
    <3>1. b \in DOMAIN segments /\ b <= c /\ c < b + Len(segments[b])
      BY <1>6, <2>2 DEF Over
    <3>2. PICK i \in Loaded : Place(i) <= c /\ c < Place(i) + Len(rs[i].data)
      BY <1>1, <1>6, <2>1, <3>1 DEF Covered
    <3>3. c \in Place(i)..(PlaceEnd(i) - 1)
      BY <1>3, <2>1, <3>2
    <3> QED BY <1>17, <3>3
  <2>3. ByteAt(c) = Erased
    BY <2>2 DEF ByteAt
  <2> HIDE DEF n
  <2> QED BY <1>15, <2>1, <2>3
<1>18. /\ Lowest' = Lowest /\ Loaded' = Loaded /\ records' = records
       /\ \A i : Place(i)' = Place(i) /\ PlaceEnd(i)' = PlaceEnd(i)
  BY <1>10, SameFile DEF Lowest, file
<1> HIDE DEF n
<1>19. HoldsAt(Lowest)'
  BY <1>13, <1>16, <1>17, <1>18 DEF HoldsAt
<1> QED BY <1>5, <1>10, <1>19

(* The type of the firmware does not touch the image.                      *)
LEMMA TypeStep ==
  ASSUME TypeOK, FlowInv, ImageInv, DetectFromFirmware \/ OverrideType,
         form \in {"elf", "hex"}, WellFormed
  PROVE  /\ ImageInv'
         /\ result' \in {"none", "refused"} /\ (pc' = "done" => result' = "refused")
         /\ UNCHANGED file
<1>1. DOMAIN segments # {} /\ HoldsAt(Lowest) /\ result = "none"
  BY DEF ImageInv, DetectFromFirmware, OverrideType, FlowInv
<1>2. LoadAddress # {}
  BY <1>1 DEF LoadAddress
<1>3. /\ UNCHANGED <<file, walk, image>>
      /\ result' \in {"none", "refused"} /\ (pc' = "done" => result' = "refused")
  BY <1>1, <1>2 DEF DetectFromFirmware, OverrideType, Finish
<1>4. segments' = segments /\ image' = image /\ records' = records /\ form' = form
  BY <1>3 DEF walk, file
<1>5. Lowest' = Lowest
  BY <1>4 DEF Lowest
<1>6. /\ Loaded' = Loaded
      /\ \A i : Place(i)' = Place(i) /\ PlaceEnd(i)' = PlaceEnd(i)
  BY <1>3, SameFile
<1>7. HoldsAt(Lowest)'
  BY <1>1, <1>4, <1>5, <1>6 DEF HoldsAt
<1> QED BY <1>1, <1>3, <1>4, <1>7 DEF ImageInv

(* The image of a file with an address is programmed there.                *)
LEMMA DownloadStep ==
  ASSUME TypeOK, FlowInv, ImageInv, Download, form \in {"elf", "hex"}, WellFormed
  PROVE  ProgramsWhatFileSays'
<1>1. DOMAIN segments # {} /\ HoldsAt(Lowest)
  BY DEF ImageInv, Download
<1>2. at' = Lowest /\ result' = "ok" /\ image' = image /\ UNCHANGED file
  BY <1>1 DEF Download, LoadAddress
<1>3. /\ Loaded' = Loaded
      /\ \A i : Place(i)' = Place(i) /\ PlaceEnd(i)' = PlaceEnd(i)
  BY <1>2, SameFile
<1>4. records' = records
  BY <1>2 DEF file
<1>5. \A i \in Loaded : \A k \in 1..Len(records[i].data) :
        Programs(Place(i) + k - 1, records[i].data[k])'
  <2>1. TAKE i \in Loaded
  <2>. TAKE k \in 1..Len(records[i].data)
  <2>2. /\ Place(i) + k - 1 - Lowest + 1 \in 1..Len(image)
        /\ image[Place(i) + k - 1 - Lowest + 1] = records[i].data[k]
    BY <1>1 DEF HoldsAt
  <2>3. Place(i)' = Place(i)
    BY <1>3
  <2>4. (Place(i) + k - 1) - Lowest + 1 = Place(i) + k - 1 - Lowest + 1
    <3>1. Place(i) \in Nat /\ Lowest \in Nat
      BY <1>1, SegmentBounds, WellFormedPieces DEF Pieces
    <3> QED BY <3>1
  <2> QED BY <1>2, <1>4, <2>2, <2>3, <2>4 DEF Programs
<1>6. \A a \in Lowest..(Lowest + Len(image) - 1) :
        (\A i \in Loaded : a \notin Place(i)..(PlaceEnd(i) - 1)) => Programs(a, Erased)'
  BY <1>1, <1>2 DEF HoldsAt, Programs
<1> QED BY <1>2, <1>3, <1>4, <1>5, <1>6 DEF ProgramsWhatFileSays

(* Every step keeps what is known of the file on its way to the probe.     *)
LEMMA PathInductive ==
  ASSUME TypeOK, FlowInv, PathInv, [Next]_vars
  PROVE  PathInv'
<1>0. ASSUME UNCHANGED file, ~ WellFormed PROVE PathInv'
  BY <1>0, SameFile
     DEF PathInv, ProcessInv, BuildInv, ImageInv, ProgramsWhatFileSays
<1>r. ASSUME form' = "raw" PROVE ImageInv' /\ ProgramsWhatFileSays'
  BY <1>r DEF ImageInv, ProgramsWhatFileSays
<1>u. ASSUME Finish("unreadable") PROVE PathInv'
  BY <1>u DEF Finish, PathInv, ProcessInv, BuildInv, ImageInv, ProgramsWhatFileSays
<1>1. CASE FromPath
  <2>1. \/ pc' \in {"collect", "read"}
        \/ pc' = "detect" /\ form' = "raw"
        \/ Finish("unreadable")
    BY <1>1 DEF FromPath
  <2> QED BY <1>u, <2>1 DEF PathInv, ProcessInv, BuildInv, ImageInv, ProgramsWhatFileSays
<1>2. CASE ReadRecord
  <2>1. CASE pc' = "process"
    <3>1. idx' = 0 /\ base' = 0 /\ begin' = 0 /\ end' = 0 /\ data' = <<>> /\ segments' = <<>>
      BY <1>2, <2>1 DEF ReadRecord, FlowInv, Fresh, walk, Finish
    <3> DEFINE rs == records'
    <3> HIDE DEF rs
    <3>2. Covered(rs, 0, 0, <<>>)
      BY ImageAssumption DEF Covered
    <3>3. Cut(rs, 0, <<>>, 0, <<>>)
      BY <3>2 DEF Cut, LoadedIn
    <3>4. BaseIn(rs, 1) = 0
      BY DEF BaseIn, BasesIn
    <3>5. ProcessInv'
      BY <3>1, <3>3, <3>4 DEF ProcessInv, rs
    <3> QED BY <2>1, <3>5 DEF PathInv, BuildInv, ImageInv, ProgramsWhatFileSays
  <2>2. CASE pc' = "read"
    BY <2>2 DEF PathInv, ProcessInv, BuildInv, ImageInv, ProgramsWhatFileSays
  <2> QED BY <1>2, <1>u, <2>1, <2>2 DEF ReadRecord
<1>3. CASE ProcessRecord
  <2>1. CASE WellFormed
    <3>1. pc' = "process" /\ ProcessInv'
      BY <1>3, <2>1, ProcessStep DEF PathInv
    <3> QED BY <3>1 DEF PathInv, BuildInv, ImageInv, ProgramsWhatFileSays
  <2>2. UNCHANGED file
    BY <1>3 DEF ProcessRecord, Finish, file
  <2> QED BY <1>0, <2>1, <2>2
<1>4. CASE EndOfRecords
  <2>1. pc' = "build" /\ BuildInv'
    BY <1>4, EndStep DEF PathInv, EndOfRecords
  <2> QED BY <2>1 DEF PathInv, ProcessInv, ImageInv, ProgramsWhatFileSays
<1>5. CASE CollectSegments
  <2>1. CASE WellFormed
    <3>1. pc' = "build" /\ BuildInv'
      BY <1>5, <2>1, CollectStep
    <3> QED BY <3>1 DEF PathInv, ProcessInv, ImageInv, ProgramsWhatFileSays
  <2>2. UNCHANGED file
    BY <1>5 DEF CollectSegments, Finish, file
  <2> QED BY <1>0, <2>1, <2>2
<1>6. CASE BuildFirmwareImage
  <2>1. CASE WellFormed
    <3>1. /\ pc' = "detect" /\ UNCHANGED segments
          /\ DOMAIN segments # {} /\ HoldsAt(Lowest)'
      BY <1>6, <2>1, BuildStep DEF PathInv
    <3> QED BY <3>1 DEF PathInv, ProcessInv, BuildInv, ImageInv, ProgramsWhatFileSays
  <2>2. UNCHANGED file
    BY <1>6 DEF BuildFirmwareImage, Finish, file
  <2> QED BY <1>0, <2>1, <2>2
<1>7. CASE DetectFromFirmware \/ OverrideType
  <2>1. /\ UNCHANGED file /\ form' = form /\ form \in {"elf", "hex", "raw"}
        /\ pc' \in {"override", "download", "done"}
    BY <1>7 DEF DetectFromFirmware, OverrideType, Finish, file, FlowInv, TypeOK
  <2>2. ProcessInv' /\ BuildInv'
    BY <2>1 DEF ProcessInv, BuildInv
  <2>3. CASE WellFormed /\ form \in {"elf", "hex"}
    <3>1. ImageInv' /\ (pc' = "done" => result' = "refused")
      BY <1>7, <2>3, TypeStep DEF PathInv
    <3> QED BY <2>2, <3>1 DEF PathInv, ProgramsWhatFileSays
  <2> QED BY <1>0, <1>r, <2>1, <2>2, <2>3 DEF PathInv
<1>8. CASE Download
  <2>1. /\ UNCHANGED file /\ form' = form /\ form \in {"elf", "hex", "raw"}
        /\ pc' = "done"
    BY <1>8 DEF Download, file, FlowInv, TypeOK
  <2>2. ProcessInv' /\ BuildInv' /\ ImageInv'
    BY <2>1 DEF ProcessInv, BuildInv, ImageInv
  <2>3. CASE WellFormed /\ form \in {"elf", "hex"}
    BY <1>8, <2>2, <2>3, DownloadStep DEF PathInv
  <2> QED BY <1>0, <1>r, <2>1, <2>2, <2>3 DEF PathInv
<1>9. CASE UNCHANGED vars
  <2>1. /\ UNCHANGED <<pc, file, walk, image, at, result>>
        /\ pc' = pc /\ form' = form /\ records' = records /\ idx' = idx /\ base' = base
        /\ begin' = begin /\ end' = end /\ data' = data /\ segments' = segments
        /\ image' = image /\ at' = at /\ result' = result
    BY <1>9 DEF vars, file, walk
  <2>2. /\ WellFormed' <=> WellFormed
        /\ Loaded' = Loaded
        /\ \A i : Place(i)' = Place(i) /\ PlaceEnd(i)' = PlaceEnd(i)
    BY <2>1, SameFile
  <2>3. ProcessInv'
    BY <2>1, <2>2 DEF PathInv, ProcessInv, MoreData
  <2>4. BuildInv'
    BY <2>1, <2>2 DEF PathInv, BuildInv
  <2>5. Lowest' = Lowest
    BY <2>1 DEF Lowest
  <2>6. HoldsAt(Lowest)' <=> HoldsAt(Lowest)
    BY <2>1, <2>2, <2>5 DEF HoldsAt
  <2>7. ImageInv'
    BY <2>1, <2>2, <2>6 DEF PathInv, ImageInv
  <2>8. ProgramsWhatFileSays'
    BY <2>1, <2>2 DEF PathInv, ProgramsWhatFileSays, Programs
  <2> QED BY <2>3, <2>4, <2>7, <2>8 DEF PathInv
<1> QED BY <1>1, <1>2, <1>3, <1>4, <1>5, <1>6, <1>7, <1>8, <1>9 DEF Next

(* Every byte of a well-formed file is programmed at its address, and what *)
(* is between them is erased.                                              *)
THEOREM FileIsProgrammed == Spec => []ProgramsWhatFileSays
<1>1. Init => TypeOK /\ FlowInv /\ PathInv
  <2>1. Init => TypeOK /\ FlowInv
    BY ImageAssumption DEF Init, TypeOK, FlowInv, Fresh, Address
  <2>2. Init => PathInv
    BY DEF Init, PathInv, ProcessInv, BuildInv, ImageInv, ProgramsWhatFileSays
  <2> QED BY <2>1, <2>2
<1>2. TypeOK /\ FlowInv /\ PathInv /\ [Next]_vars => TypeOK' /\ FlowInv' /\ PathInv'
  BY TypeInductive, FlowInductive, PathInductive
<1>3. PathInv => ProgramsWhatFileSays
  BY DEF PathInv
<1> QED BY <1>1, <1>2, <1>3, PTL DEF Spec

-----------------------------------------------------------------------------
(* Raw images.                                                             *)
VectorInv ==
  form = "raw" =>
    /\ (override = "none" /\ (pc \in {"override", "download"} \/ result = "ok")) =>
         type = DetectedType /\ Len(image) >= 2 * WordLen
    /\ result = "ok" => at = Start[platform][type]

(* The type that is detected, and what it depends on, stay as they are.    *)
LEMMA VectorInductive ==
  ASSUME TypeOK, FlowInv, VectorInv, [Next]_vars
  PROVE  VectorInv'
<1> USE DEF given, file, walk
<1>1. CASE FromPath
  BY <1>1 DEF FromPath, Finish, VectorInv, FlowInv
<1>2. CASE ReadRecord
  BY <1>2 DEF ReadRecord, Finish, VectorInv, FlowInv
<1>3. CASE ProcessRecord
  BY <1>3 DEF ProcessRecord, Finish, VectorInv, FlowInv
<1>4. CASE EndOfRecords
  BY <1>4 DEF EndOfRecords, VectorInv, FlowInv
<1>5. CASE CollectSegments
  BY <1>5 DEF CollectSegments, Finish, VectorInv, FlowInv
<1>6. CASE BuildFirmwareImage
  BY <1>6 DEF BuildFirmwareImage, Finish, VectorInv, FlowInv
<1>d. ASSUME UNCHANGED <<segments, image, running, platform>>
      PROVE  DetectedType' = DetectedType
  BY <1>d DEF DetectedType, LoadAddress, Lowest, Seen, ResetVector
<1>7. CASE DetectFromFirmware
  <2>1. CASE Finish("panic") \/ Finish("error")
    BY <1>7, <2>1 DEF DetectFromFirmware, Finish, VectorInv
  <2>2. CASE type' = DetectedType /\ pc' = "override"
    <3>1. UNCHANGED <<given, file, walk, image, override, at, result>>
      BY <1>7, <2>2 DEF DetectFromFirmware, Finish
    <3>2. result = "none"
      BY <1>7 DEF DetectFromFirmware, FlowInv
    <3>3. form = "raw" => LoadAddress = {}
      BY DEF FlowInv, LoadAddress
    <3>4. form = "raw" => ~ (Len(image) < 2 * WordLen)
      BY <1>7, <2>2, <3>3 DEF DetectFromFirmware, Finish
    <3>5. Len(image) \in Nat /\ WordLen \in Nat
      BY ImageAssumption DEF TypeOK
    <3>6. form = "raw" => Len(image) >= 2 * WordLen
      BY <3>4, <3>5
    <3> QED BY <1>d, <2>2, <3>1, <3>2, <3>6 DEF VectorInv
  <2> QED BY <1>7, <2>1, <2>2 DEF DetectFromFirmware
<1>8. CASE OverrideType
  <2>1. /\ UNCHANGED <<given, file, walk, image, at>> /\ result = "none" /\ result' # "ok"
        /\ override = "none"
        /\ override' = "none" => type' = type
        /\ pc = "override"
    BY <1>8 DEF OverrideType, Finish, FlowInv, Types
  <2> QED BY <1>d, <2>1 DEF VectorInv
<1>9. CASE Download
  <2>1. /\ UNCHANGED <<given, file, walk, image, type, override>>
        /\ pc = "download"
    BY <1>9 DEF Download
  <2>2. form = "raw" => at' = Start[platform][type]
    BY <1>9 DEF Download, FlowInv, LoadAddress
  <2> QED BY <1>d, <2>1, <2>2 DEF VectorInv
<1>10. CASE UNCHANGED vars
  <2>1. UNCHANGED <<pc, given, file, walk, image, type, override, at, result>>
    BY <1>10 DEF vars
  <2> QED BY <1>d, <2>1 DEF VectorInv
<1> QED BY <1>1, <1>2, <1>3, <1>4, <1>5, <1>6, <1>7, <1>8, <1>9, <1>10 DEF Next

(* The reset vector of an image with one is a number.                      *)
LEMMA VectorIsNumber ==
  ASSUME TypeOK, Len(image) >= 2 * WordLen
  PROVE  ResetVector \in Nat
<1> DEFINE byte(i) == IF i < WordLen THEN image[WordLen + 1 + i] ELSE 0
<1>1. WordLen \in Nat /\ image \in Seq(Byte) /\ Len(image) \in Nat
  BY ImageAssumption DEF TypeOK
<1>2. ASSUME NEW i \in 0..3 PROVE byte(i) \in Nat
  <2>1. CASE i < WordLen
    <3>1. WordLen + 1 + i \in 1..Len(image)
      BY <1>1, <2>1
    <3>2. image[WordLen + 1 + i] \in Byte
      BY <1>1, <3>1
    <3>3. image[WordLen + 1 + i] \in Nat
      <4>1. \A x \in Byte : x \in Nat
        BY DEF Byte
      <4> QED BY <3>2, <4>1, Zenon
    <3> QED BY <2>1, <3>3
  <2>2. CASE ~ (i < WordLen)
    BY <2>2
  <2> QED BY <2>1, <2>2
<1>3. byte(0) \in Nat /\ byte(1) \in Nat /\ byte(2) \in Nat /\ byte(3) \in Nat
  BY <1>2
<1>4. ResetVector = byte(0) + 256 * byte(1) + 65536 * byte(2) + 16777216 * byte(3)
  BY DEF ResetVector
<1> HIDE DEF byte
<1> QED BY <1>3, <1>4

(* A raw image goes to the last start of firmware below its reset vector.  *)
LEMMA BelowVector ==
  ASSUME TypeOK, FlowInv, VectorInv
  PROVE  PlacedBelowVector
<1> SUFFICES ASSUME form = "raw", result = "ok", override = "none"
             PROVE  LET starts == {s \in {Start[platform][t] : t \in Types} : s < ResetVector}
                    IN  starts # {} => at = Max(starts)
  BY DEF PlacedBelowVector
<1> DEFINE v == ResetVector
           b == Start[platform]["Bootloader"]
           a == Start[platform]["Application"]
           starts == {s \in {Start[platform][t] : t \in Types} : s < v}
<1>1. type = DetectedType /\ at = Start[platform][type] /\ v \in Nat
  BY VectorIsNumber DEF VectorInv
<1>2. LoadAddress = {}
  BY DEF FlowInv, LoadAddress
<1>3. b \in Nat /\ a \in Nat
  BY ImageAssumption DEF TypeOK, Types, Address
<1>4. at = IF v > Start[Seen]["Application"] THEN a ELSE b
  BY <1>1, <1>2 DEF DetectedType
<1>5. starts = {s \in {b, a} : s < v}
  BY DEF Types
<1>6. /\ platform = Native => Seen = platform /\ b <= a
      /\ platform # Native => b = a
  BY StartAssumption DEF Seen, TypeOK
<1> HIDE DEF v, b, a, starts
<1>7. ASSUME starts # {} PROVE at = Max(starts)
  <2>1. CASE platform = Native /\ v > a
    <3>1. starts = {b, a} /\ b <= a /\ at = a
      BY <1>3, <1>1, <1>4, <1>5, <1>6, <2>1 DEF a
    <3>2. at \in starts /\ \A y \in starts : at >= y
      BY <1>3, <3>1
    <3>3. \A x \in starts : (\A y \in starts : x >= y) => x = at
      BY <1>3, <3>1, <3>2
    <3> QED BY <3>2, <3>3 DEF Max
  <2>2. CASE platform # Native \/ ~ (v > a)
    <3>1. starts = {at} /\ at \in Nat
      <4>1. at = b
        BY <1>4, <1>6, <2>2 DEF a
      <4>2. starts \subseteq {b}
        BY <1>1, <1>3, <1>5, <1>6, <2>2
      <4> QED BY <1>3, <1>7, <4>1, <4>2
    <3> QED BY <3>1 DEF Max
  <2> QED BY <2>1, <2>2
<1> QED BY <1>7 DEF starts, v

(* Where raw images are programmed, for all platforms and contents.        *)
THEOREM RawIsPlaced == Spec => []PlacedBelowVector
<1>1. Init => TypeOK /\ FlowInv /\ VectorInv
  BY ImageAssumption DEF Init, TypeOK, FlowInv, Fresh, Address, VectorInv
<1>2. TypeOK /\ FlowInv /\ VectorInv /\ [Next]_vars => TypeOK' /\ FlowInv' /\ VectorInv'
  BY TypeInductive, FlowInductive, VectorInductive
<1>3. TypeOK /\ FlowInv /\ VectorInv => PlacedBelowVector
  BY BelowVector
<1> QED BY <1>1, <1>2, <1>3, PTL DEF Spec
=============================================================================
