------------------------ MODULE ChooseFirmware_proofs ------------------------
(***************************************************************************)
(* The order of full versions is one: it agrees with equality, it can be   *)
(* turned round and it is transitive; and it says when it panics.  A       *)
(* version that is written and read again is the same version, once it has *)
(* the "v" that to_string leaves out.  Whatever is on the bus and in the   *)
(* index of releases, as far as the assumptions of ChooseFirmware allow:   *)
(*   - the index into a release by the kind of the probe never panics;     *)
(*   - a command is for the probe the user pointed at, whatever is plugged *)
(*     in and out between two commands, and the file is the variant that   *)
(*     was picked;                                                         *)
(*   - update takes a release no other one is newer than, or leaves one    *)
(*     alone that no release is newer than;                                *)
(*   - documentation fills the page.                                       *)
(***************************************************************************)
EXTENDS ChooseFirmware, SequenceTheorems, FiniteSetTheorems, TLAPS

Flip(answer) ==
  CASE answer = "less" -> "greater"
    [] answer = "greater" -> "less"
    [] OTHER -> answer

(* Two development builds of the same base, after as many commits, with    *)
(* different hashes.                                                       *)
Siblings(a, b) ==
  /\ a.class = "development" /\ b.class = "development"
  /\ a.git.rc = b.git.rc
  /\ a.git.commits = b.git.commits
  /\ a.git.hash # b.git.hash

LEMMA GitFlips ==
  ASSUME NEW a \in GitVersion, NEW b \in GitVersion
  PROVE  CompareGit(b, a) = Flip(CompareGit(a, b))
BY DEF GitVersion, CompareGit, CompareNumbers, Flip, None

LEMMA GitTransitive ==
  ASSUME NEW a \in GitVersion, NEW b \in GitVersion, NEW c \in GitVersion,
         CompareGit(a, b) = "less", CompareGit(b, c) = "less"
  PROVE  CompareGit(a, c) = "less"
BY DEF GitVersion, CompareGit, CompareNumbers, None

LEMMA GitEqual ==
  ASSUME NEW a \in GitVersion, NEW b \in GitVersion
  PROVE  (CompareGit(a, b) = "equal") <=> (a = b)
BY DEF GitVersion, CompareGit, CompareNumbers, None

LEMMA GitAnswers ==
  ASSUME NEW a \in GitVersion, NEW b \in GitVersion
  PROVE  CompareGit(a, b) \in {"less", "equal", "greater", "none"}
BY DEF CompareGit, CompareNumbers

-----------------------------------------------------------------------------
LEMMA Kinds ==
  ASSUME NEW a \in VersionKind
  PROVE  \/ a = Release /\ a.class = "release" /\ Rank(a) = 1
         \/ a.class = "candidate" /\ a.rc \in Nat /\ a = [class |-> "candidate", rc |-> a.rc]
            /\ Rank(a) = 0
         \/ a.class = "development" /\ a.git \in GitVersion
            /\ a = [class |-> "development", git |-> a.git] /\ Rank(a) = 2
BY DEF VersionKind, Release, Candidate, Development, Rank

LEMMA KindFlips ==
  ASSUME NEW a \in VersionKind, NEW b \in VersionKind
  PROVE  CompareKinds(b, a) = Flip(CompareKinds(a, b))
<1>1. CASE Rank(a) # Rank(b)
  BY <1>1, Kinds DEF CompareKinds, CompareNumbers, Flip
<1>2. CASE a.class = "development" /\ b.class = "development"
  BY <1>2, Kinds, GitFlips, GitAnswers DEF CompareKinds, Flip
<1>3. CASE a.class = "candidate" /\ b.class = "candidate"
  BY <1>3, Kinds DEF CompareKinds, CompareNumbers, Flip
<1>4. CASE a.class = "release" /\ b.class = "release"
  BY <1>4, Kinds DEF CompareKinds, Flip
<1> QED
  BY <1>1, <1>2, <1>3, <1>4, Kinds

LEMMA KindEqual ==
  ASSUME NEW a \in VersionKind, NEW b \in VersionKind
  PROVE  (CompareKinds(a, b) = "equal") <=> (a = b)
<1>1. CASE Rank(a) # Rank(b)
  BY <1>1, Kinds DEF CompareKinds, CompareNumbers
<1>2. CASE a.class = "development" /\ b.class = "development"
  <2>1. (a = b) <=> (a.git = b.git)
    BY <1>2, Kinds
  <2> QED
    BY <1>2, <2>1, Kinds, GitEqual, GitAnswers DEF CompareKinds
<1>3. CASE a.class = "candidate" /\ b.class = "candidate"
  <2>1. (a = b) <=> (a.rc = b.rc)
    BY <1>3, Kinds
  <2> QED
    BY <1>3, <2>1, Kinds DEF CompareKinds, CompareNumbers
<1>4. CASE a.class = "release" /\ b.class = "release"
  BY <1>4, Kinds DEF CompareKinds
<1> QED
  BY <1>1, <1>2, <1>3, <1>4, Kinds

LEMMA KindTransitive ==
  ASSUME NEW a \in VersionKind, NEW b \in VersionKind, NEW c \in VersionKind,
         CompareKinds(a, b) = "less", CompareKinds(b, c) = "less"
  PROVE  CompareKinds(a, c) = "less"
<1>1. Rank(a) <= Rank(b) /\ Rank(b) <= Rank(c) /\ Rank(a) \in Nat /\ Rank(b) \in Nat
        /\ Rank(c) \in Nat
  BY Kinds DEF CompareKinds, CompareNumbers
<1>2. CASE Rank(a) # Rank(c)
  BY <1>1, <1>2 DEF CompareKinds, CompareNumbers
<1>3. CASE Rank(a) = Rank(c)
  <2>1. Rank(a) = Rank(b) /\ Rank(b) = Rank(c) /\ a.class = b.class /\ b.class = c.class
    BY <1>1, <1>3, Kinds
  <2>2. CASE a.class = "development"
    <3>1. /\ a.git \in GitVersion /\ b.git \in GitVersion /\ c.git \in GitVersion
          /\ CompareGit(a.git, b.git) = "less" /\ CompareGit(b.git, c.git) = "less"
      BY <2>1, <2>2, Kinds DEF CompareKinds
    <3> QED
      BY <2>1, <2>2, <3>1, GitTransitive DEF CompareKinds
  <2>3. CASE a.class = "candidate"
    <3>1. a.rc \in Nat /\ b.rc \in Nat /\ c.rc \in Nat
      BY <2>1, <2>3, Kinds
    <3> QED
      BY <2>1, <2>3, <3>1 DEF CompareKinds, CompareNumbers
  <2>4. CASE a.class = "release"
    BY <1>3, <2>1, <2>4, Kinds DEF CompareKinds
  <2> QED
    BY <2>2, <2>3, <2>4, Kinds
<1> QED
  BY <1>2, <1>3

LEMMA KindAnswers ==
  ASSUME NEW a \in VersionKind, NEW b \in VersionKind
  PROVE  /\ CompareKinds(a, b) \in {"less", "equal", "greater", "panic"}
         /\ (CompareKinds(a, b) = "panic") <=> Siblings(a, b)
<1>1. CASE a.class = "development" /\ b.class = "development"
  <2>1. (CompareGit(a.git, b.git) = "none") <=> Siblings(a, b)
    BY <1>1, Kinds DEF CompareGit, CompareNumbers, Siblings, GitVersion
  <2> QED
    BY <1>1, <2>1, Kinds, GitAnswers DEF CompareKinds
<1>2. CASE ~(a.class = "development" /\ b.class = "development")
  BY <1>2, Kinds DEF CompareKinds, CompareNumbers, Siblings
<1> QED
  BY <1>1, <1>2

-----------------------------------------------------------------------------
SameBase(a, b) == a.major = b.major /\ a.minor = b.minor /\ a.revision = b.revision

(* Asking which of two versions is newer the other way round gives the     *)
(* other answer (probe_identity.rs:480-527).                               *)
THEOREM OrderFlips ==
  ASSUME NEW a \in VersionParts, NEW b \in VersionParts
  PROVE  CompareParts(b, a) = Flip(CompareParts(a, b))
<1> USE DEF VersionParts
<1>1. CASE ~SameBase(a, b)
  BY <1>1 DEF SameBase, CompareParts, CompareNumbers, Flip
<1>2. CASE SameBase(a, b)
  BY <1>2, KindFlips, KindAnswers DEF SameBase, CompareParts, CompareDirty, Flip
<1> QED
  BY <1>1, <1>2

(* Versions compare as equal exactly when they are equal: the derived Eq   *)
(* and the written Ord agree.                                              *)
THEOREM OrderAgreesWithEquality ==
  ASSUME NEW a \in VersionParts, NEW b \in VersionParts
  PROVE  (CompareParts(a, b) = "equal") <=> (a = b)
<1> USE DEF VersionParts
<1>1. CASE ~SameBase(a, b)
  BY <1>1 DEF SameBase, CompareParts, CompareNumbers
<1>2. CASE SameBase(a, b)
  BY <1>2, KindEqual DEF SameBase, CompareParts, CompareDirty
<1> QED
  BY <1>1, <1>2

(* A version older than one that is older than a third is older than the   *)
(* third, dirty builds and builds of candidates included.                  *)
THEOREM OrderTransitive ==
  ASSUME NEW a \in VersionParts, NEW b \in VersionParts, NEW c \in VersionParts,
         CompareParts(a, b) = "less", CompareParts(b, c) = "less"
  PROVE  CompareParts(a, c) = "less"
<1> USE DEF VersionParts
<1>1. CASE SameBase(a, b) /\ SameBase(b, c)
  <2>1. CompareKinds(a.kind, b.kind) = "less" \/ a.kind = b.kind
    BY <1>1, KindEqual DEF SameBase, CompareParts
  <2>2. CompareKinds(b.kind, c.kind) = "less" \/ b.kind = c.kind
    BY <1>1, KindEqual DEF SameBase, CompareParts
  <2>3. CASE CompareKinds(a.kind, c.kind) = "less"
    BY <1>1, <2>3 DEF SameBase, CompareParts
  <2>4. CASE a.kind = b.kind /\ b.kind = c.kind
    BY <1>1, <2>4, KindEqual DEF SameBase, CompareParts, CompareDirty
  <2> QED
    BY <2>1, <2>2, <2>3, <2>4, KindTransitive
<1>2. CASE ~(SameBase(a, b) /\ SameBase(b, c))
  BY <1>2 DEF SameBase, CompareParts, CompareNumbers
<1> QED
  BY <1>1, <1>2

(* Two versions can always be compared, but for development builds of the  *)
(* same base after as many commits with different hashes: there the unwrap *)
(* of probe_identity.rs:595 panics.                                        *)
THEOREM OrderTotal ==
  ASSUME NEW a \in VersionParts, NEW b \in VersionParts
  PROVE  /\ CompareParts(a, b) \in {"less", "equal", "greater", "panic"}
         /\ (CompareParts(a, b) = "panic") <=> (SameBase(a, b) /\ Siblings(a.kind, b.kind))
<1> USE DEF VersionParts
<1>1. CASE ~SameBase(a, b)
  BY <1>1 DEF SameBase, CompareParts, CompareNumbers
<1>2. CASE SameBase(a, b)
  BY <1>2, KindAnswers DEF SameBase, CompareParts, CompareDirty
<1> QED
  BY <1>1, <1>2

-----------------------------------------------------------------------------
(* One element in front of two.                                            *)
LEMMA TripleOf ==
  ASSUME NEW a, NEW b, NEW c
  PROVE  <<a>> \o <<b, c>> = <<a, b, c>>
<1> DEFINE S == {a, b, c}
<1>1. <<a>> \in Seq(S) /\ <<b, c>> \in Seq(S) /\ <<a, b, c>> \in Seq(S)
  OBVIOUS
<1>2. Len(<<a>> \o <<b, c>>) = 3 /\ <<a>> \o <<b, c>> \in Seq(S)
  BY <1>1
<1>3. \A i \in 1..3 : (<<a>> \o <<b, c>>)[i] = <<a, b, c>>[i]
  BY <1>1
<1>4. Len(<<a, b, c>>) = 3
  OBVIOUS
<1> HIDE DEF S
<1> QED
  BY <1>1, <1>2, <1>3, <1>4, SeqEqual

(* What ParseKind makes of what KindPieces writes, and that the last piece *)
(* of it is not taken for "dirty".                                         *)
LEMMA KindReadBack ==
  ASSUME NEW kind \in VersionKind
  PROVE  /\ ParseKind(KindPieces(kind)) = {kind}
         /\ KindPieces(kind) # <<>> =>
              KindPieces(kind)[Len(KindPieces(kind))].is # "dirty"
<1>1. CASE kind = Release
  <2>1. KindPieces(kind) = <<>>
    BY <1>1 DEF KindPieces, Release
  <2> QED
    BY <1>1, <2>1 DEF ParseKind
<1>2. CASE kind \in Candidate
  <2>1. KindPieces(kind) = <<RcPiece(kind.rc)>>
    BY <1>2 DEF KindPieces, Candidate
  <2>2. kind = [class |-> "candidate", rc |-> kind.rc]
    BY <1>2 DEF Candidate
  <2>3. /\ KindPieces(kind) # <<>> /\ Len(KindPieces(kind)) = 1
        /\ KindPieces(kind)[1] = RcPiece(kind.rc)
        /\ Tail(KindPieces(kind)) = <<>>
    BY <2>1
  <2>4. RcPiece(kind.rc).is = "rc" /\ RcPiece(kind.rc).n = kind.rc
    BY DEF RcPiece
  <2> QED
    BY <2>2, <2>3, <2>4 DEF ParseKind
<1>3. CASE kind \in Development
  <2> DEFINE number == NumberPiece(kind.git.commits)
             hash == HashPiece(kind.git.hash)
             rc == RcPiece(kind.git.rc)
  <2>1. /\ number.is = "number" /\ number.n = kind.git.commits
        /\ hash.is = "hash" /\ hash.hash = kind.git.hash
        /\ rc.is = "rc" /\ rc.n = kind.git.rc
    BY DEF NumberPiece, HashPiece, RcPiece
  <2>2. kind = [class |-> "development",
                git |-> [rc |-> kind.git.rc, commits |-> kind.git.commits,
                         hash |-> kind.git.hash]]
    BY <1>3 DEF Development, GitVersion
  <2>3. CASE kind.git.rc = None
    <3>1. KindPieces(kind) = <<number, hash>>
      BY <1>3, <2>3 DEF KindPieces, Development
    <3> HIDE DEF number, hash, rc
    <3>2. /\ KindPieces(kind) # <<>> /\ Len(KindPieces(kind)) = 2
          /\ KindPieces(kind)[1] = number /\ KindPieces(kind)[2] = hash
      BY <3>1
    <3> QED
      BY <2>1, <2>2, <2>3, <3>2 DEF ParseKind
  <2>4. CASE kind.git.rc # None
    <3>1. KindPieces(kind) = <<rc>> \o <<number, hash>>
      BY <1>3, <2>4 DEF KindPieces, Development
    <3>2. KindPieces(kind) = <<rc, number, hash>>
      BY <3>1, TripleOf
    <3> HIDE DEF number, hash, rc
    <3>3. /\ KindPieces(kind) # <<>> /\ Len(KindPieces(kind)) = 3
          /\ KindPieces(kind)[1] = rc /\ KindPieces(kind)[3] = hash
          /\ Tail(KindPieces(kind)) = <<number, hash>>
      BY <3>2
    <3>4. /\ <<number, hash>> # <<>> /\ Len(<<number, hash>>) = 2
          /\ <<number, hash>>[1] = number /\ <<number, hash>>[2] = hash
      OBVIOUS
    <3> QED
      BY <2>1, <2>2, <3>3, <3>4 DEF ParseKind
  <2> QED
    BY <2>3, <2>4
<1> QED
  BY <1>1, <1>2, <1>3 DEF VersionKind

(* The pieces of a kind are a sequence.                                    *)
LEMMA KindPiecesType ==
  ASSUME NEW kind \in VersionKind
  PROVE  \E S : KindPieces(kind) \in Seq(S)
<1> DEFINE S == {RcPiece(kind.rc), RcPiece(kind.git.rc), NumberPiece(kind.git.commits),
                 HashPiece(kind.git.hash)}
<1>1. \A a \in S, b \in S, c \in S :
        /\ <<>> \in Seq(S) /\ <<a>> \in Seq(S) /\ <<b, c>> \in Seq(S)
        /\ <<a>> \o <<b, c>> \in Seq(S)
  OBVIOUS
<1>2. CASE kind = Release
  BY <1>1, <1>2 DEF KindPieces, Release
<1>3. CASE kind \in Candidate
  BY <1>1, <1>3 DEF KindPieces, Candidate
<1>4. CASE kind \in Development
  BY <1>1, <1>4 DEF KindPieces, Development
<1> QED
  BY <1>2, <1>3, <1>4 DEF VersionKind

(* VersionParts::try_from of what VersionParts::to_string writes is the    *)
(* version, for all numbers, kinds and hashes, dirty or not                *)
(* (probe_identity.rs:377-491).                                            *)
THEOREM WrittenIsRead ==
  ASSUME NEW parts \in VersionParts
  PROVE  ParseParts(ToText(parts).numbers, ToText(parts).pieces) = {parts}
<1> DEFINE kp == KindPieces(parts.kind)
           pieces == ToText(parts).pieces
           numbers == ToText(parts).numbers
<1>1. /\ numbers = <<parts.major, parts.minor, parts.revision>>
      /\ pieces = kp \o IF parts.dirty THEN <<DirtyPiece>> ELSE <<>>
  BY DEF ToText
<1>2. PICK S : kp \in Seq(S)
  BY KindPiecesType DEF VersionParts
<1>3. /\ ParseKind(kp) = {parts.kind}
      /\ kp # <<>> => kp[Len(kp)].is # "dirty"
  BY KindReadBack DEF VersionParts
<1>4. parts = [major |-> parts.major, minor |-> parts.minor, revision |-> parts.revision,
               kind |-> parts.kind, dirty |-> parts.dirty]
  BY DEF VersionParts
<1>5. /\ Len(numbers) = 3 /\ numbers[1] = parts.major /\ numbers[2] = parts.minor
      /\ numbers[3] = parts.revision
  BY <1>1
<1> HIDE DEF kp, pieces, numbers
<1>6. CASE parts.dirty
  <2>1. pieces = Append(kp, DirtyPiece)
    BY <1>1, <1>2, <1>6
  <2>2. /\ pieces # <<>> /\ pieces[Len(pieces)] = DirtyPiece
        /\ SubSeq(pieces, 1, Len(pieces) - 1) = kp
    BY <1>2, <2>1
  <2>3. DirtyPiece.is = "dirty"
    BY DEF DirtyPiece
  <2>4. ParseParts(numbers, pieces)
          = {[major |-> numbers[1], minor |-> numbers[2], revision |-> numbers[3],
              kind |-> kind, dirty |-> TRUE] : kind \in {parts.kind}}
    BY <1>3, <1>5, <2>2, <2>3 DEF ParseParts
  <2> QED
    BY <1>4, <1>5, <1>6, <2>4 DEF pieces, numbers
<1>7. CASE ~parts.dirty
  <2>1. pieces = kp
    BY <1>1, <1>2, <1>7
  <2>2. ParseParts(numbers, pieces)
          = {[major |-> numbers[1], minor |-> numbers[2], revision |-> numbers[3],
              kind |-> kind, dirty |-> FALSE] : kind \in {parts.kind}}
    BY <1>3, <1>5, <2>1 DEF ParseParts
  <2>3. parts.dirty = FALSE
    BY <1>7 DEF VersionParts
  <2> QED
    BY <1>4, <1>5, <2>2, <2>3 DEF pieces, numbers
<1> QED
  BY <1>6, <1>7

-----------------------------------------------------------------------------
(* By the time a release is picked the probe has been identified.          *)
IdentifiedInv ==
  /\ metadata \in Indices \cup {<<>>}
  /\ pc \in {"metadata", "release"} => Readable(probe)
  /\ NeverPanics

(* Only a native probe, or a bootloader, has no version.                   *)
LEMMA NoVersionIsNative ==
  ASSUME NEW product, NEW identity \in ParseIdentity(product), identity.version = Unknown
  PROVE  identity.kind \subseteq {Native}
<1>1. \A text : Version(text) # Unknown
  BY DEF Version, Unknown, GitHash, FullVersion, Invalid
<1> QED
  BY <1>1 DEF ParseIdentity, Unknown, Invalid

(* A product string is understood in one way.                              *)
LEMMA OneIdentity ==
  ASSUME NEW product, NEW i \in ParseIdentity(product), NEW j \in ParseIdentity(product)
  PROVE  i = j
BY DEF ParseIdentity

(* The release a readable probe runs has firmware for it.                  *)
LEMMA RunningIsSupported ==
  ASSUME metadata \in Indices \cup {<<>>}, Readable(probe), NEW r \in 1..Len(metadata), IsRunning(r)
  PROVE  Supports(r)
<1>1. /\ metadata[r].name.prefix = "v"
      /\ metadata[r].name = V1_6 => Native \in DOMAIN metadata[r].firmware
  BY IndicesAssumption
<1>2. PICK identity \in ParseIdentity(bus[probe].product) :
        Running = identity.version /\ Identity(probe) = {identity}
  BY OneIdentity DEF Readable, Identity, Running
<1>3. Kind = identity.kind
  BY <1>2 DEF Kind
<1>4. CASE Running = Unknown /\ metadata[r].name = V1_6
  BY <1>1, <1>2, <1>3, <1>4, NoVersionIsNative DEF Supports
<1>5. CASE metadata[r].name = ToText(Running.parts)
  <2>1. ToText(Running.parts).prefix = ""
    BY DEF ToText
  <2> QED
    BY <1>1, <1>5, <2>1
<1> QED
  BY <1>4, <1>5 DEF IsRunning

(* No index of releases makes the choice panic (switcher.rs:134).          *)
THEOREM ChoiceNeverPanics == Spec => []NeverPanics
<1> USE DEF IdentifiedInv, NeverPanics, Goto, End, given, chosen, pointed, walk, Readable, Identity
<1>1. Init => IdentifiedInv
  BY DEF Init
<1>2. IdentifiedInv /\ [Next]_vars => IdentifiedInv'
  <2> SUFFICES ASSUME IdentifiedInv, [Next]_vars PROVE IdentifiedInv'
    OBVIOUS
  <2>1. CASE Info
    BY <2>1 DEF Info
  <2>2. CASE Replug
    BY <2>2 DEF Replug
  <2>3. CASE FindProbe
    BY <2>3 DEF FindProbe
  <2>4. CASE SelectProbe
    BY <2>4 DEF SelectProbe
  <2>5. CASE OpenPort
    BY <2>5 DEF OpenPort
  <2>6. CASE Identify
    BY <2>6 DEF Identify
  <2>7. CASE DownloadMetadata
    BY <2>7 DEF DownloadMetadata
  <2>8. CASE PickRelease
    <3>1. ~Panics
      <4>1. Readable(probe)
        BY <2>8 DEF PickRelease
      <4> QED
        BY <4>1, RunningIsSupported DEF Panics
    <3> QED
      BY <2>8, <3>1 DEF PickRelease
  <2>9. CASE PickLatest
    BY <2>9 DEF PickLatest
  <2>10. CASE LookAt
    BY <2>10 DEF LookAt
  <2>11. CASE PickFirmware
    BY <2>11 DEF PickFirmware
  <2>12. CASE FirmwareSelection
    BY <2>12 DEF FirmwareSelection
  <2>13. CASE ActionSelection
    BY <2>13 DEF ActionSelection
  <2>14. CASE ShowDocumentation
    BY <2>14 DEF ShowDocumentation
  <2>15. CASE ReadDocumentation
    BY <2>15 DEF ReadDocumentation
  <2>16. CASE DownloadFirmware
    BY <2>16 DEF DownloadFirmware
  <2>17. CASE UNCHANGED vars
    BY <2>17 DEF vars
  <2> QED
    BY <2>1, <2>2, <2>3, <2>4, <2>5, <2>6, <2>7, <2>8, <2>9, <2>10, <2>11, <2>12, <2>13, <2>14, <2>15, <2>16, <2>17 DEF Next
<1>3. IdentifiedInv => NeverPanics
  OBVIOUS
<1> QED
  BY <1>1, <1>2, <1>3, PTL DEF Spec

-----------------------------------------------------------------------------
(* What was picked is what is flashed: the variant is 0 or what it was     *)
(* before while the user is still between the variants and the actions.    *)
PickedInv ==
  /\ pc \in {"shell", "told", "probe", "port", "identify", "metadata", "release", "latest",
             "variants"} => picked = 0
  /\ picked # 0 => picked \in 1..Len(Variants)
  /\ (picked # 0 /\ DistinctNames /\ pc \in {"docs", "reading", "download"}) =>
       variant = picked
  /\ result = "none" \/ pc = "done"
  /\ FlashesPicked

(* A variant whose name no other one has is found by its name.             *)
LEMMA NamedIsPicked ==
  ASSUME picked \in 1..Len(Variants), DistinctNames
  PROVE  Named = picked
<1> DEFINE Fits(i) == /\ Variants[i] = Variants[picked]
                      /\ \A j \in 1..(i - 1) : Variants[j] # Variants[picked]
<1> HIDE DEF Variants
<1>1. Fits(picked)
  BY DEF DistinctNames
<1>2. \A i \in 1..Len(Variants) : Fits(i) => i = picked
  BY DEF DistinctNames
<1> QED
  BY <1>1, <1>2 DEF Named

(* Whatever the user goes through, reads and chooses again, the variant    *)
(* that is flashed is the one picked last, for every index of releases     *)
(* with distinct names (firmware_selector.rs:64-127).                      *)
THEOREM PickedIsFlashed == Spec => []FlashesPicked
<1> USE DEF PickedInv, FlashesPicked, Goto, End, given, chosen, pointed, walk
<1>1. Init => PickedInv
  BY DEF Init
<1>2. PickedInv /\ [Next]_vars => PickedInv'
  <2> SUFFICES ASSUME PickedInv, [Next]_vars PROVE PickedInv'
    OBVIOUS
  <2> DEFINE held == <<bus, metadata, probe, release>>
  <2>0. UNCHANGED held => UNCHANGED Variants /\ DistinctNames' = DistinctNames
    BY DEF Variants, Kind, Identity, DistinctNames
  <2>1. CASE Info
    BY <2>1 DEF Info
  <2>2. CASE Replug
    BY <2>2 DEF Replug
  <2>3. CASE FindProbe
    BY <2>3 DEF FindProbe
  <2>4. CASE SelectProbe
    BY <2>4 DEF SelectProbe
  <2>5. CASE OpenPort
    BY <2>5 DEF OpenPort
  <2>6. CASE Identify
    BY <2>6 DEF Identify
  <2>7. CASE DownloadMetadata
    BY <2>7 DEF DownloadMetadata
  <2>8. CASE PickRelease
    BY <2>8 DEF PickRelease
  <2>9. CASE PickLatest
    BY <2>9 DEF PickLatest
  <2>10. CASE LookAt
    BY <2>10 DEF LookAt
  <2>11. CASE PickFirmware
    BY <2>11, <2>0 DEF PickFirmware
  <2>12. CASE FirmwareSelection
    BY <2>12, <2>0 DEF FirmwareSelection
  <2>13. CASE ActionSelection
    <3>1. UNCHANGED held /\ UNCHANGED picked
      BY <2>13 DEF ActionSelection
    <3>2. (picked # 0 /\ DistinctNames) => Named = picked
      BY NamedIsPicked
    <3> QED
      BY <2>13, <2>0, <3>1, <3>2 DEF ActionSelection
  <2>14. CASE ShowDocumentation
    BY <2>14, <2>0 DEF ShowDocumentation
  <2>15. CASE ReadDocumentation
    BY <2>15, <2>0 DEF ReadDocumentation
  <2>16. CASE DownloadFirmware
    BY <2>16, <2>0 DEF DownloadFirmware
  <2>17. CASE UNCHANGED vars
    BY <2>17, <2>0 DEF vars
  <2> QED
    BY <2>1, <2>2, <2>3, <2>4, <2>5, <2>6, <2>7, <2>8, <2>9, <2>10, <2>11, <2>12, <2>13, <2>14, <2>15, <2>16, <2>17 DEF Next
<1>3. PickedInv => FlashesPicked
  OBVIOUS
<1> QED
  BY <1>1, <1>2, <1>3, PTL DEF Spec

-----------------------------------------------------------------------------
(* The viewer is in the document as far as it knows the size, and the last *)
(* of the sizes it has not read is that of the terminal.                   *)
ViewerOK ==
  /\ docs \in Documents /\ term \in Sizes /\ pending \in Seq(Sizes)
  /\ viewer \in [viewport_size : Sizes, max_scroll : Nat, scroll_position : Nat]
  /\ viewer.max_scroll = MaxScroll(docs, viewer.viewport_size)
  /\ viewer.scroll_position <= viewer.max_scroll
  /\ term = IF pending = <<>> THEN viewer.viewport_size ELSE pending[Len(pending)]

ReadingInv == (pc = "reading" => (ViewerOK /\ Showing)) /\ (Showing => pc = "reading")

LEMMA MaxScrollType ==
  ASSUME NEW text \in Documents, NEW size \in Sizes
  PROVE  /\ MaxScroll(text, size) \in Nat /\ LineCount(text, size.width) \in Nat
         /\ MaxScroll(text, size) > 0 =>
              MaxScroll(text, size) + size.height = LineCount(text, size.width)
<1>1. size.height \in Nat /\ text[size.width] \in Nat
  BY SizesAssumption
<1> QED
  BY <1>1 DEF MaxScroll, LineCount, SaturatingSub

LEMMA DisplayStep ==
  ASSUME Display
  PROVE  ViewerOK' /\ Showing'
<1>1. PICK text \in Documents, size \in Sizes : docs' = text
  BY DEF Display
<1>2. size.width \in DOMAIN text
  BY SizesAssumption
<1>3. Showing'
  BY <1>1, <1>2 DEF Showing
<1> QED
  BY <1>3, MaxScrollType DEF Display, ViewerOK

LEMMA ViewerStep ==
  ASSUME ViewerOK,
         ScrollUp \/ ScrollDown \/ ScrollPageUp \/ ScrollPageDown \/ Resized \/ HandleResize
  PROVE  ViewerOK'
<1> USE DEF ViewerOK
<1>1. viewer.viewport_size.height \in Nat
  BY SizesAssumption
<1>2. CASE ScrollUp \/ ScrollDown \/ ScrollPageUp \/ ScrollPageDown
  <2>1. PICK position \in 0..viewer.max_scroll : ScrollTo(position)
    BY <1>1, <1>2 DEF ScrollUp, ScrollDown, ScrollPageUp, ScrollPageDown, SaturatingSub
  <2> QED
    BY <2>1 DEF ScrollTo
<1>3. CASE Resized
  BY <1>3 DEF Resized
<1>4. CASE HandleResize
  <2>1. Head(pending) \in Sizes /\ pending' \in Seq(Sizes) /\ Len(pending) \in Nat \ {0}
    BY <1>4 DEF HandleResize
  <2>2. MaxScroll(docs, Head(pending)) \in Nat
    BY <2>1, MaxScrollType
  <2>3. term = IF pending' = <<>> THEN Head(pending) ELSE pending'[Len(pending')]
    <3>1. pending # <<>> /\ pending' = Tail(pending) /\ UNCHANGED term
      BY <1>4 DEF HandleResize
    <3>2. term = pending[Len(pending)] /\ Len(pending') = Len(pending) - 1
      BY <2>1, <3>1
    <3>3. CASE Len(pending) = 1
      BY <2>1, <3>1, <3>2, <3>3
    <3>4. CASE Len(pending) # 1
      <4>1. Len(pending') \in Nat \ {0} /\ pending' # <<>>
        BY <2>1, <3>1, <3>2, <3>4
      <4>2. pending'[Len(pending')] = pending[Len(pending') + 1]
        BY <2>1, <3>1, <3>2, <4>1
      <4> QED
        BY <2>1, <3>2, <4>1, <4>2
    <3> QED
      BY <3>3, <3>4
  <2> QED
    BY <1>4, <2>1, <2>2, <2>3 DEF HandleResize
<1> QED
  BY <1>2, <1>3, <1>4

LEMMA ReadingInvariant == Spec => []ReadingInv
<1> USE DEF ReadingInv, Showing, Goto, End, screen
<1>1. Init => ReadingInv
  BY DEF Init, Closed
<1>2. ReadingInv /\ [Next]_vars => ReadingInv'
  <2> SUFFICES ASSUME ReadingInv, [Next]_vars PROVE ReadingInv'
    OBVIOUS
  <2>1. CASE Info
    BY <2>1 DEF Info
  <2>2. CASE Replug
    BY <2>2 DEF Replug
  <2>3. CASE FindProbe
    BY <2>3 DEF FindProbe
  <2>4. CASE SelectProbe
    BY <2>4 DEF SelectProbe
  <2>5. CASE OpenPort
    BY <2>5 DEF OpenPort
  <2>6. CASE Identify
    BY <2>6 DEF Identify
  <2>7. CASE DownloadMetadata
    BY <2>7 DEF DownloadMetadata
  <2>8. CASE PickRelease
    BY <2>8 DEF PickRelease
  <2>9. CASE PickLatest
    BY <2>9 DEF PickLatest
  <2>10. CASE LookAt
    BY <2>10 DEF LookAt
  <2>11. CASE PickFirmware
    BY <2>11 DEF PickFirmware
  <2>12. CASE FirmwareSelection
    BY <2>12 DEF FirmwareSelection
  <2>13. CASE ActionSelection
    BY <2>13 DEF ActionSelection
  <2>14. CASE ShowDocumentation
    BY <2>14, DisplayStep DEF ShowDocumentation
  <2>15. CASE ReadDocumentation
    <3>1. CASE pc' = "reading"
      <4>1. ViewerOK'
        BY <2>15, <3>1, ViewerStep DEF ReadDocumentation
      <4>2. Showing'
        <5>1. UNCHANGED docs
          BY <2>15, <3>1 DEF ReadDocumentation, ScrollUp, ScrollDown, ScrollPageUp,
             ScrollPageDown, ScrollTo, Resized, HandleResize
        <5> QED
          BY <2>15, <5>1 DEF ReadDocumentation
      <4> QED
        BY <3>1, <4>1, <4>2
    <3>2. CASE pc' # "reading"
      <4>1. Quit
        BY <2>15, <3>2 DEF ReadDocumentation
      <4> QED
        BY <3>2, <4>1 DEF Quit
    <3> QED
      BY <3>1, <3>2
  <2>16. CASE DownloadFirmware
    BY <2>16 DEF DownloadFirmware
  <2>17. CASE UNCHANGED vars
    BY <2>17 DEF vars, ViewerOK
  <2> QED
    BY <2>1, <2>2, <2>3, <2>4, <2>5, <2>6, <2>7, <2>8, <2>9, <2>10, <2>11, <2>12, <2>13, <2>14, <2>15, <2>16, <2>17 DEF Next
<1> QED
  BY <1>1, <1>2, PTL DEF Spec

(* Once it has read every change of size, the viewer shows a full page, or *)
(* the document from its start, for all documents, sizes of terminals and  *)
(* numbers of changes in between (docs_viewer.rs:44-164).                  *)
THEOREM DocumentationFillsPage == Spec => []ShowsFullPage
<1>1. ReadingInv => ShowsFullPage
  <2> SUFFICES ASSUME ViewerOK, pending = <<>> PROVE ShowsFullPage
    BY DEF ShowsFullPage, ReadingInv
  <2>1. term = viewer.viewport_size /\ term \in Sizes /\ docs \in Documents
    BY DEF ViewerOK
  <2> QED
    BY <2>1, MaxScrollType, SizesAssumption DEF ShowsFullPage, ViewerOK
<1> QED
  BY <1>1, ReadingInvariant, PTL
-----------------------------------------------------------------------------
(* Where the command is in its run, by what is settled there.              *)
Before == {"shell", "told", "probe"}
AtProbe == {"port", "identify", "metadata"}
AtRelease == {"release", "latest"}
AtVariant == {"variants", "pick", "action", "docs", "reading", "download"}

(* The bus is a list of probes whose versions are well written.            *)
BusInv == IsBus(bus)

(* Nothing is settled before it is asked for, and what is settled is on    *)
(* the bus, in the index and in the release.                               *)
PlacesInv ==
  /\ pc \in Before \cup AtProbe \cup AtRelease \cup AtVariant \cup {"done"}
  /\ result \in {"none", "notfound", "toomany", "cancelled", "error", "panic",
                 "unsupported", "current", "flash", "opened"}
  /\ result # "none" => pc = "done"
  /\ moved \in BOOLEAN
  /\ metadata \in Indices \cup {<<>>}
  /\ meant \in 0..Len(bus) /\ (named = "none" => meant = 0)
  /\ named \in {"none", "index", "serial", "port", "list"}
  /\ pc = "shell" => (named = "none" /\ command \in Commands)
  /\ pc = "told" => named \in {"index", "serial", "port"}
  /\ probe \in 0..Len(bus) /\ port \in 0..Len(bus)
  /\ pc \in Before => (probe = 0 /\ port = 0)
  /\ pc \in AtProbe \cup AtRelease \cup AtVariant => probe # 0
  /\ pc \in Before \cup AtProbe => (looked = 0 /\ latest = 0)
  /\ pc \in Before \cup AtProbe \cup AtRelease => (release = 0 /\ picked = 0 /\ variant = 0)
  /\ pc \in AtVariant => release # 0
  /\ pc \in {"action", "docs", "reading"} => picked # 0

SettledInv ==
  /\ looked \in 0..Len(metadata) /\ latest \in 0..looked /\ release \in 0..Len(metadata)
  /\ release # 0 => (Kind # {} /\ Supports(release))
  /\ picked # 0 => (release # 0 /\ picked \in 1..Len(Variants))
  /\ variant # 0 => (release # 0 /\ variant \in 1..Len(Variants))

(* The filter has what the user took from the list, and with that the      *)
(* probe is the one that was meant.                                        *)
MeantInv ==
  /\ pc = "told" =>
       /\ (named = "index" /\ AllOpen /\ ~moved) =>
            meant # 0 /\ command.index = {meant - 1}
       /\ named = "serial" => \E serial : command.serial = {serial}
  /\ probe # 0 =>
       /\ (named = "list" /\ AllReadable) => probe = meant
       /\ (named = "index" /\ AllOpen /\ ~moved) => probe = meant
       /\ (named = "serial" /\ OnlyMeant) => probe = meant
  /\ result \in {"flash", "opened"} => probe # 0
  /\ result = "opened" => port \in ProbePorts(bus, bus[probe].serial)

LEMMA ListOf ==
  ASSUME NEW n \in Nat, NEW f, DOMAIN f = 1..n, f = [i \in 1..n |-> f[i]]
  PROVE  IsList(f) /\ Len(f) = n
<1>1. f \in [1..n -> Range(f)]
  BY DEF Range
<1>2. f \in Seq(Range(f))
  BY <1>1, SeqDef
<1>3. 1..n = 1..Len(f) /\ Len(f) \in Nat
  BY <1>2, LenProperties
<1> QED
  BY <1>2, <1>3 DEF IsList

LEMMA ListType ==
  ASSUME NEW f, IsList(f)
  PROVE  Len(f) \in Nat /\ DOMAIN f = 1..Len(f)
BY LenProperties DEF IsList

LEMMA BusType ==
  ASSUME BusInv
  PROVE  Len(bus) \in Nat /\ DOMAIN bus = 1..Len(bus)
BY ListType DEF BusInv, IsBus

(* What the system lists anew is made of what it listed before and what is *)
(* plugged in.                                                             *)
LEMMA ReplugStep ==
  ASSUME BusInv, Replug
  PROVE  BusInv' /\ meant' \in 0..Len(bus')
<1>1. PICK spare \in Spares :
        LET all == bus \o spare IN
        \E n \in 0..Len(all) : \E order \in [1..n -> 1..Len(all)] :
          /\ bus' = [i \in 1..n |-> all[order[i]]]
          /\ meant' \in IF meant \in Range(order) THEN {m \in 1..n : order[m] = meant} ELSE {0}
  BY DEF Replug
<1> DEFINE all == bus \o spare
           S == Range(bus) \cup Range(spare)
<1>2. IsBus(spare) /\ Len(spare) \in Nat /\ Len(bus) \in Nat
  BY BusesAssumption, BusType, ListType DEF IsBus
<1>3. /\ Len(all) = Len(bus) + Len(spare)
      /\ \A k \in 1..Len(all) : all[k] = IF k <= Len(bus) THEN bus[k] ELSE spare[k - Len(bus)]
  <2>1. bus \in Seq(S) /\ spare \in Seq(S)
    BY <1>2, SeqMonotonic DEF BusInv, IsBus, IsList
  <2> HIDE DEF S
  <2> QED
    BY <2>1, ConcatProperties
<1> HIDE DEF all, S
<1>4. \A k \in 1..Len(all) : \A text \in all[k].product.version : WellWritten(text)
  <2> TAKE k \in 1..Len(all)
  <2>1. CASE k <= Len(bus)
    BY <1>2, <1>3, <2>1 DEF BusInv, IsBus
  <2>2. CASE ~(k <= Len(bus))
    <3>1. k - Len(bus) \in 1..Len(spare)
      BY <1>2, <1>3, <2>2
    <3> QED
      BY <1>2, <1>3, <2>2, <3>1 DEF IsBus
  <2> QED
    BY <2>1, <2>2
<1>5. PICK n \in 0..Len(all) : \E order \in [1..n -> 1..Len(all)] :
        /\ bus' = [i \in 1..n |-> all[order[i]]]
        /\ meant' \in IF meant \in Range(order) THEN {m \in 1..n : order[m] = meant} ELSE {0}
  BY <1>1 DEF all
<1>6. PICK order \in [1..n -> 1..Len(all)] :
        /\ bus' = [i \in 1..n |-> all[order[i]]]
        /\ meant' \in IF meant \in Range(order) THEN {m \in 1..n : order[m] = meant} ELSE {0}
  BY <1>5
<1>7. n \in Nat
  BY <1>2, <1>3, <1>5
<1>8. IsList(bus') /\ Len(bus') = n
  BY <1>6, <1>7, ListOf
<1>9. \A i \in 1..n : bus'[i] = all[order[i]] /\ order[i] \in 1..Len(all)
  BY <1>6
<1>10. meant' \in 0..n
  BY <1>6, <1>7
<1> QED
  BY <1>4, <1>8, <1>9, <1>10 DEF BusInv, IsBus, WellWritten

LEMMA BusStep ==
  ASSUME BusInv, PlacesInv, [Next]_vars
  PROVE  BusInv'
<1>1. CASE Replug
  BY <1>1, ReplugStep
<1>2. CASE ~Replug
  <2>1. UNCHANGED bus
    BY <1>2 DEF Next, vars, given, Goto, End, Info, FindProbe, SelectProbe, OpenPort, Identify,
         DownloadMetadata, PickRelease, LookAt, PickLatest, PickFirmware, FirmwareSelection,
         ActionSelection, ShowDocumentation, ReadDocumentation, DownloadFirmware
  <2> QED
    BY <2>1 DEF BusInv
<1> QED
  BY <1>1, <1>2

-----------------------------------------------------------------------------
LEMMA FoundIsFinite ==
  ASSUME NEW n \in Nat, NEW found \in SUBSET (1..n)
  PROVE  IsFiniteSet(found) /\ \A i \in found : Place(found, i) \in Nat
<1>1. IsFiniteSet(1..n)
  <2>1. 1 \in Int /\ n \in Int
    OBVIOUS
  <2> QED
    BY <2>1, FS_Interval, Zenon
<1>2. IsFiniteSet(found)
  BY <1>1, FS_Subset, Zenon
<1>3. ASSUME NEW i \in found
      PROVE  Place(found, i) \in Nat
  <2> DEFINE T == {j \in found : j < i}
  <2>1. T \in SUBSET found
    OBVIOUS
  <2>2. Cardinality(T) \in Nat
    BY <1>2, <2>1, FS_Subset, FS_CardinalityType, Zenon
  <2> QED
    BY <2>2 DEF Place
<1> QED
  BY <1>2, <1>3

(* A probe comes before another one in a list if it does so on the bus.    *)
LEMMA PlaceMonotonic ==
  ASSUME NEW n \in Nat, NEW found \in SUBSET (1..n), NEW a \in found, NEW b \in found, a < b
  PROVE  Place(found, a) < Place(found, b)
<1> DEFINE T == {j \in found : j < a}
           U == {j \in found : j < b}
<1>1. IsFiniteSet(found) /\ T \in SUBSET found /\ U \in SUBSET found
  BY FoundIsFinite
<1>2. IsFiniteSet(T) /\ IsFiniteSet(U) /\ Cardinality(T) \in Nat /\ Cardinality(U) \in Nat
  <2>1. IsFiniteSet(T) /\ Cardinality(T) \in Nat
    BY <1>1, FS_Subset, FS_CardinalityType, Zenon
  <2>2. IsFiniteSet(U) /\ Cardinality(U) \in Nat
    BY <1>1, FS_Subset, FS_CardinalityType, Zenon
  <2> QED
    BY <2>1, <2>2
<1>3. Cardinality(T \cup {a}) = Cardinality(T) + 1
  <2>1. a \in Nat
    OBVIOUS
  <2>2. a \notin T
    BY <2>1
  <2> HIDE DEF T
  <2> QED
    BY <1>2, <2>2, FS_AddElement
<1>4. Cardinality(T \cup {a}) <= Cardinality(U)
  <2>1. T \cup {a} \in SUBSET U
    <3>1. a \in Nat /\ b \in Nat /\ \A j \in found : j \in Nat
      OBVIOUS
    <3>2. \A j \in found : j < a => j < b
      BY <3>1
    <3> QED
      BY <3>2, Zenon
  <2> QED
    BY <1>2, <2>1, FS_Subset
<1> QED
  BY <1>2, <1>3, <1>4 DEF Place

LEMMA PlaceInjective ==
  ASSUME NEW n \in Nat, NEW found \in SUBSET (1..n), NEW a \in found, NEW b \in found,
         Place(found, a) = Place(found, b)
  PROVE  a = b
<1>1. /\ a < b => Place(found, a) < Place(found, b)
      /\ b < a => Place(found, b) < Place(found, a)
  BY PlaceMonotonic
<1>2. Place(found, a) \in Nat
  BY FoundIsFinite
<1>3. ~(Place(found, a) < Place(found, a))
  BY <1>2
<1>4. ~(a < b) /\ ~(b < a)
  BY <1>1, <1>3, Zenon
<1>5. a \in Nat /\ b \in Nat
  OBVIOUS
<1> QED
  BY <1>4, <1>5

LEMMA PlaceInAll ==
  ASSUME NEW n \in Nat, NEW i \in 1..n
  PROVE  Place(1..n, i) = i - 1
<1>1. {j \in 1..n : j < i} = 1..(i - 1)
  OBVIOUS
<1>2. 1 \in Int /\ i - 1 \in Int
  OBVIOUS
<1>3. Cardinality(1..(i - 1)) = IF 1 > i - 1 THEN 0 ELSE (i - 1) - 1 + 1
  BY <1>2, FS_Interval, Zenon
<1>4. Place(1..n, i) = Cardinality(1..(i - 1))
  BY <1>1, Zenon DEF Place
<1>5. (IF 1 > i - 1 THEN 0 ELSE (i - 1) - 1 + 1) = i - 1
  OBVIOUS
<1> QED
  BY <1>3, <1>4, <1>5, Zenon

LEMMA FoundOnBus == Found \subseteq 1..Len(bus)
BY DEF Found, FindMatchingProbes

LEMMA PortsOnBus ==
  ASSUME NEW serial, NEW p \in ProbePorts(bus, serial)
  PROVE  p \in 1..Len(bus) /\ bus[p].serial = serial
BY DEF ProbePorts, Entries

(* Supports is asked of a release that is in the index.                    *)
LEMMA OfferedInIndex == \A r \in Offered : r \in 1..Len(metadata) /\ r # 0 /\ Supports(r)
BY DEF Offered

LEMMA IndexType ==
  ASSUME metadata \in Indices \cup {<<>>}
  PROVE  Len(metadata) \in Nat
<1>1. CASE metadata \in Indices
  BY <1>1, IndicesAssumption, ListType
<1>2. CASE metadata = <<>>
  BY <1>2
<1> QED
  BY <1>1, <1>2

LEMMA PlacesStep ==
  ASSUME BusInv, PlacesInv, [Next]_vars
  PROVE  PlacesInv'
<1> USE DEF PlacesInv, Before, AtProbe, AtRelease, AtVariant, Goto, End, given, chosen, pointed, walk
<1>0. Len(bus) \in Nat
  BY BusType
<1>1. CASE Info
  BY <1>0, <1>1 DEF Info, FindMatchingProbes
<1>2. CASE Replug
  <2>1. Len(bus') \in Nat
    BY BusStep, <1>2, ListType DEF BusInv, IsBus
  <2>2. meant' \in 0..Len(bus')
    BY <1>2, ReplugStep
  <2> QED
    BY <1>0, <1>2, <2>1, <2>2 DEF Replug
<1>3. CASE FindProbe
  BY <1>0, <1>3, FoundOnBus DEF FindProbe
<1>4. CASE SelectProbe
  <2>1. CASE /\ meant' \in Found /\ probe' \in Found /\ named' = "list" /\ pc' = "identify"
             /\ UNCHANGED <<given, walk, port, release, picked, variant>>
    BY <1>0, <1>4, <2>1, FoundOnBus DEF SelectProbe
  <2>2. CASE pc' = "done" /\ UNCHANGED <<given, chosen>>
    BY <1>4, <2>2 DEF SelectProbe
  <2> QED
    BY <1>4, <2>1, <2>2 DEF SelectProbe
<1>5. CASE OpenPort
  BY <1>0, <1>5, PortsOnBus DEF OpenPort
<1>6. CASE Identify
  BY <1>6 DEF Identify
<1>7. CASE DownloadMetadata
  BY <1>7 DEF DownloadMetadata
<1>8. CASE PickRelease
  BY <1>8, OfferedInIndex DEF PickRelease
<1>9. CASE PickLatest
  BY <1>9 DEF PickLatest
<1>10. CASE LookAt
  BY <1>10 DEF LookAt
<1>11. CASE PickFirmware
  BY <1>11 DEF PickFirmware
<1>12. CASE FirmwareSelection
  BY <1>12 DEF FirmwareSelection
<1>13. CASE ActionSelection
  BY <1>13 DEF ActionSelection
<1>14. CASE ShowDocumentation
  BY <1>14 DEF ShowDocumentation
<1>15. CASE ReadDocumentation
  BY <1>15 DEF ReadDocumentation
<1>16. CASE DownloadFirmware
  BY <1>16 DEF DownloadFirmware
<1>17. CASE UNCHANGED vars
  BY <1>17 DEF vars
<1> QED
  BY <1>1, <1>2, <1>3, <1>4, <1>5, <1>6, <1>7, <1>8, <1>9, <1>10, <1>11, <1>12, <1>13, <1>14, <1>15, <1>16, <1>17 DEF Next

(* The variants of a release the probe is supported by are a list.         *)
LEMMA VariantsType ==
  ASSUME PlacesInv, release \in 1..Len(metadata), Kind # {}, Supports(release)
  PROVE  Len(Variants) \in Nat
<1>1. metadata \in Indices
  BY DEF PlacesInv
<1>2. (CHOOSE k \in Kind : TRUE) \in DOMAIN metadata[release].firmware
  BY DEF Supports
<1>3. IsList(Variants)
  BY <1>1, <1>2, IndicesAssumption DEF Variants
<1> QED
  BY <1>3, ListType

LEMMA LeastPlace ==
  ASSUME NEW S, S \subseteq Nat, S # {}
  PROVE  \E least \in S : \A i \in S : least <= i
<1>1. PICK least \in S : \A i \in S : ~(<<i, least>> \in OpToRel(<, Nat))
  BY NatLessThanWellFounded, WFMin, Zenon
<1>2. \A i \in S : ~(i < least)
  BY <1>1 DEF OpToRel
<1> QED
  BY <1>2

(* There is a first variant with the name that was picked.                 *)
LEMMA NamedIsVariant ==
  ASSUME Len(Variants) \in Nat, picked \in 1..Len(Variants)
  PROVE  Named \in 1..Len(Variants)
<1> DEFINE same == {i \in 1..Len(Variants) : Variants[i] = Variants[picked]}
<1>1. PICK least \in same : \A i \in same : least <= i
  <2>1. same \subseteq Nat /\ same # {}
    OBVIOUS
  <2> QED
    BY <2>1, LeastPlace
<1>2. \A j \in 1..(least - 1) : Variants[j] # Variants[picked]
  BY <1>1
<1> QED
  BY <1>1, <1>2 DEF Named

LEMMA SettledStep ==
  ASSUME BusInv, PlacesInv, SettledInv, [Next]_vars
  PROVE  SettledInv'
<1> USE DEF SettledInv, Goto, End, given, chosen, pointed, walk
<1> DEFINE held == <<bus, metadata, probe, release>>
<1>0. UNCHANGED held => /\ UNCHANGED Kind /\ UNCHANGED Variants
                        /\ Supports(release)' = Supports(release)
  BY DEF Kind, Identity, Variants, Supports
<1>a. /\ Len(metadata) \in Nat
      /\ release # 0 => (Len(Variants) \in Nat /\ release \in 1..Len(metadata))
  BY IndexType, VariantsType DEF PlacesInv
<1>b. pc \in Before \cup AtProbe \cup AtRelease => (release = 0 /\ picked = 0 /\ variant = 0)
  BY DEF PlacesInv
<1>c. pc \in Before \cup AtProbe => (looked = 0 /\ latest = 0)
  BY DEF PlacesInv
<1>d. Before = {"shell", "told", "probe"} /\ AtProbe = {"port", "identify", "metadata"}
      /\ AtRelease = {"release", "latest"}
  BY DEF Before, AtProbe, AtRelease
<1>1. CASE Info
  BY <1>a, <1>b, <1>c, <1>d, <1>1 DEF Info
<1>2. CASE Replug
  BY <1>a, <1>b, <1>c, <1>d, <1>2 DEF Replug
<1>3. CASE FindProbe
  BY <1>a, <1>b, <1>c, <1>d, <1>3 DEF FindProbe
<1>4. CASE SelectProbe
  BY <1>a, <1>b, <1>c, <1>d, <1>4 DEF SelectProbe
<1>5. CASE OpenPort
  BY <1>a, <1>b, <1>c, <1>d, <1>5 DEF OpenPort
<1>6. CASE Identify
  BY <1>a, <1>b, <1>c, <1>d, <1>6 DEF Identify
<1>7. CASE DownloadMetadata
  <2>1. Len(metadata') \in Nat
    BY <1>7, IndicesAssumption, ListType, IndexType DEF DownloadMetadata, PlacesInv
  <2> QED
    BY <1>b, <1>c, <1>d, <1>7, <2>1 DEF DownloadMetadata
<1>8. CASE PickRelease
  <2>1. CASE release' \in Offered /\ Kind # {} /\ UNCHANGED <<given, probe, walk, picked, variant>>
    <3>1. UNCHANGED Kind
      BY <2>1 DEF Kind, Identity
    <3>2. release' \in 1..Len(metadata) /\ Supports(release)'
      BY <2>1, <3>1, OfferedInIndex DEF Supports
    <3> QED
      BY <1>a, <1>b, <1>d, <1>8, <2>1, <3>1, <3>2 DEF PickRelease
  <2>2. CASE UNCHANGED <<given, chosen>>
    BY <1>b, <1>d, <1>8, <2>2 DEF PickRelease
  <2> QED
    BY <1>8, <2>1, <2>2 DEF PickRelease
<1>9. CASE PickLatest
  <2>1. CASE /\ release' = latest /\ latest # 0 /\ Kind # {} /\ Supports(latest)
             /\ UNCHANGED <<given, probe, walk, picked, variant>>
    <3>1. UNCHANGED Kind
      BY <2>1 DEF Kind, Identity
    <3>2. Supports(release)'
      BY <2>1, <3>1 DEF Supports
    <3> QED
      BY <1>a, <1>b, <1>d, <1>9, <2>1, <3>1, <3>2 DEF PickLatest
  <2>2. CASE UNCHANGED <<given, chosen>>
    BY <1>b, <1>d, <1>9, <2>2 DEF PickLatest
  <2> QED
    BY <1>9, <2>1, <2>2 DEF PickLatest
<1>10. CASE LookAt
  BY <1>a, <1>b, <1>d, <1>10 DEF LookAt, MoreRecent
<1>11. CASE PickFirmware
  <2>1. release # 0 /\ UNCHANGED held /\ UNCHANGED <<walk, picked, metadata>>
    BY <1>11 DEF PickFirmware, PlacesInv, AtVariant
  <2>2. variant' = variant \/ (variant' = 1 /\ Len(Variants) = 1)
    BY <1>11 DEF PickFirmware
  <2> HIDE DEF held
  <2> QED
    BY <1>0, <1>a, <2>1, <2>2 DEF held
<1>12. CASE FirmwareSelection
  BY <1>0, <1>12 DEF FirmwareSelection, PlacesInv, AtVariant
<1>13. CASE ActionSelection
  <2>1. picked # 0
    BY <1>13 DEF ActionSelection, PlacesInv
  <2>2. Named \in 1..Len(Variants)
    BY <1>a, <2>1, NamedIsVariant
  <2> QED
    BY <1>0, <1>13, <2>1, <2>2 DEF ActionSelection
<1>14. CASE ShowDocumentation
  BY <1>0, <1>14 DEF ShowDocumentation
<1>15. CASE ReadDocumentation
  BY <1>0, <1>15 DEF ReadDocumentation
<1>16. CASE DownloadFirmware
  BY <1>0, <1>16 DEF DownloadFirmware
<1>17. CASE UNCHANGED vars
  BY <1>0, <1>17 DEF vars
<1> QED
  BY <1>1, <1>2, <1>3, <1>4, <1>5, <1>6, <1>7, <1>8, <1>9, <1>10, <1>11, <1>12, <1>13, <1>14, <1>15, <1>16, <1>17 DEF Next

(* A filter with a serial number or an index finds no other probe.         *)
LEMMA FoundMatches ==
  ASSUME NEW i \in Found
  PROVE  /\ \A serial : command.serial = {serial} => bus[i].serial = serial
         /\ \A n \in Nat : command.index = {n} => i - 1 = n
BY DEF Found, FindMatchingProbes, Matches, FromParams

(* If nothing is left out of what is shown, places in it are places in the *)
(* list of all.                                                            *)
LEMMA ShownIsFound ==
  ASSUME BusInv, AllReadable,
         NEW a \in {i \in Found : Readable(i)},
         NEW b \in {i \in Found : Place(Found, i) = Place({j \in Found : Readable(j)}, a)}
  PROVE  a = b
<1>1. {j \in Found : Readable(j)} = Found
  BY DEF AllReadable
<1>2. Place(Found, a) = Place(Found, b) /\ a \in Found /\ b \in Found
  BY <1>1
<1>3. Len(bus) \in Nat /\ Found \in SUBSET (1..Len(bus))
  BY FoundOnBus, BusType
<1> QED
  BY <1>2, <1>3, PlaceInjective, Zenon

LEMMA MeantStep ==
  ASSUME BusInv, PlacesInv, MeantInv, [Next]_vars
  PROVE  MeantInv'
<1> USE DEF MeantInv, Goto, End, given, chosen, pointed, walk
<1>. result = "none" \/ pc = "done"
  BY DEF PlacesInv
<1> DEFINE held == <<bus, moved, command, probe, pointed, port>>
<1>0. UNCHANGED held => /\ AllOpen' = AllOpen /\ AllReadable' = AllReadable
                        /\ OnlyMeant' = OnlyMeant
                        /\ ProbePorts(bus, bus[probe].serial)' = ProbePorts(bus, bus[probe].serial)
  BY DEF AllOpen, AllReadable, Found, Readable, Identity, OnlyMeant
<1>a. pc \in Before => probe = 0
  BY DEF PlacesInv
<1>b. pc \in AtProbe \cup AtRelease \cup AtVariant => probe # 0
  BY DEF PlacesInv
<1>c. Before = {"shell", "told", "probe"} /\ AtProbe = {"port", "identify", "metadata"}
      /\ AtRelease = {"release", "latest"}
      /\ AtVariant = {"variants", "pick", "action", "docs", "reading", "download"}
  BY DEF Before, AtProbe, AtRelease, AtVariant
<1>d. Len(bus) \in Nat
  BY BusType
<1>1. CASE Info
  <2>1. {"index", "serial", "port"} \subseteq DOMAIN command
    BY <1>1, CommandsAssumption DEF Info, PlacesInv
  <2>2. named' = "serial" => command'.serial = {bus[meant'].serial}
    BY <1>1, <2>1 DEF Info
  <2>3. (named' = "index" /\ AllOpen') => meant' # 0 /\ command'.index = {meant' - 1}
    <3> SUFFICES ASSUME named' = "index", AllOpen'
                 PROVE  meant' # 0 /\ command'.index = {meant' - 1}
      OBVIOUS
    <3>1. FindMatchingProbes(bus, NoFilter) = 1..Len(bus)
      BY <1>1 DEF Info, AllOpen, FindMatchingProbes, Matches, NoFilter
    <3>2. meant' \in 1..Len(bus) /\ command'.index = {Place(1..Len(bus), meant')}
      BY <1>1, <2>1, <3>1 DEF Info
    <3>3. Place(1..Len(bus), meant') = meant' - 1
      BY <1>d, <3>2, PlaceInAll
    <3> QED
      BY <1>d, <3>2, <3>3
  <2> QED
    BY <1>1, <1>a, <1>c, <2>2, <2>3 DEF Info
<1>2. CASE Replug
  BY <1>2, <1>a, <1>c DEF Replug
<1>3. CASE FindProbe
  <2>1. CASE /\ probe' \in Found /\ pc' \in {"port", "identify"}
             /\ UNCHANGED <<bus, moved, command, pointed, result>>
    <3>1. probe' \in 1..Len(bus)
      BY <2>1, FoundOnBus
    <3>2. meant \in 0..Len(bus)
      BY DEF PlacesInv
    <3>3. pc = "shell" => named = "none"
      BY DEF PlacesInv
    <3>4. pc = "told" => named # "list"
      BY DEF PlacesInv
    <3>5. AllOpen' = AllOpen /\ OnlyMeant' = OnlyMeant
      BY <2>1 DEF AllOpen, OnlyMeant
    <3>6. (named = "index" /\ AllOpen /\ ~moved) => probe' = meant
      <4> SUFFICES ASSUME named = "index", AllOpen, ~moved PROVE probe' = meant
        OBVIOUS
      <4>1. command.index = {meant - 1} /\ meant \in 1..Len(bus)
        BY <1>3, <1>d, <3>2, <3>3 DEF FindProbe, PlacesInv
      <4> QED
        BY <1>d, <2>1, <3>1, <4>1, FoundMatches
    <3>7. (named = "serial" /\ OnlyMeant) => probe' = meant
      <4> SUFFICES ASSUME named = "serial", OnlyMeant PROVE probe' = meant
        OBVIOUS
      <4>1. PICK serial : command.serial = {serial}
        BY <1>3, <3>3 DEF FindProbe
      <4>2. bus[probe'].serial \in command.serial
        BY <2>1, <4>1, FoundMatches
      <4> QED
        BY <3>1, <4>2 DEF OnlyMeant
    <3> QED
      BY <1>3, <2>1, <3>1, <3>3, <3>4, <3>5, <3>6, <3>7 DEF FindProbe
  <2>2. CASE UNCHANGED held /\ pc' = "probe" /\ UNCHANGED result
    BY <1>0, <1>a, <1>c, <1>3, <2>2 DEF FindProbe
  <2>3. CASE UNCHANGED held /\ pc' = "done" /\ result' \in {"notfound", "toomany"}
    BY <1>0, <1>a, <1>c, <1>3, <2>3 DEF FindProbe
  <2> QED
    BY <1>3, <2>1, <2>2, <2>3 DEF FindProbe
<1>4. CASE SelectProbe
  <2> DEFINE shown == {i \in Found : Readable(i)}
  <2>1. CASE /\ meant' \in shown /\ named' = "list" /\ pc' = "identify"
             /\ probe' \in {i \in Found : Place(Found, i) = Place(shown, meant')}
             /\ UNCHANGED <<given, result>>
    <3>1. AllReadable' = AllReadable /\ probe' # 0
      BY <2>1, FoundOnBus DEF AllReadable, Found, Readable, Identity
    <3>2. AllReadable => probe' = meant'
      BY <2>1, ShownIsFound
    <3> QED
      BY <1>4, <2>1, <3>1, <3>2 DEF SelectProbe
  <2>2. CASE UNCHANGED held /\ pc' = "done" /\ result' \in {"error", "cancelled"}
    BY <1>0, <1>a, <1>c, <1>4, <2>2 DEF SelectProbe
  <2> QED
    BY <1>4, <2>1, <2>2 DEF SelectProbe
<1>5. CASE OpenPort
  <2>1. CASE /\ port' \in ProbePorts(bus, bus[probe].serial) /\ pc' = "done" /\ result' = "opened"
             /\ UNCHANGED <<given, probe, pointed>>
    <3>1. /\ AllOpen' = AllOpen /\ AllReadable' = AllReadable
          /\ OnlyMeant' = OnlyMeant
      BY <2>1 DEF AllOpen, AllReadable, Found, Readable, Identity, OnlyMeant
    <3> QED
      BY <1>5, <1>b, <1>c, <2>1, <3>1 DEF OpenPort
  <2>2. CASE UNCHANGED held /\ pc' = "done" /\ result' = "error"
    BY <1>0, <1>5, <2>2 DEF OpenPort
  <2> QED
    BY <1>5, <2>1, <2>2 DEF OpenPort
<1>6. CASE Identify
  BY <1>0, <1>b, <1>c, <1>6 DEF Identify
<1>7. CASE DownloadMetadata
  BY <1>0, <1>b, <1>c, <1>7 DEF DownloadMetadata
<1>8. CASE PickRelease
  BY <1>0, <1>b, <1>c, <1>8 DEF PickRelease
<1>9. CASE PickLatest
  BY <1>0, <1>b, <1>c, <1>9 DEF PickLatest
<1>10. CASE LookAt
  BY <1>0, <1>b, <1>c, <1>10 DEF LookAt
<1>11. CASE PickFirmware
  BY <1>0, <1>b, <1>c, <1>11 DEF PickFirmware
<1>12. CASE FirmwareSelection
  BY <1>0, <1>b, <1>c, <1>12 DEF FirmwareSelection
<1>13. CASE ActionSelection
  BY <1>0, <1>b, <1>c, <1>13 DEF ActionSelection
<1>14. CASE ShowDocumentation
  BY <1>0, <1>b, <1>c, <1>14 DEF ShowDocumentation
<1>15. CASE ReadDocumentation
  BY <1>0, <1>b, <1>c, <1>15 DEF ReadDocumentation
<1>16. CASE DownloadFirmware
  BY <1>0, <1>b, <1>c, <1>16 DEF DownloadFirmware
<1>17. CASE UNCHANGED vars
  BY <1>0, <1>17 DEF vars
<1> QED
  BY <1>1, <1>2, <1>3, <1>4, <1>5, <1>6, <1>7, <1>8, <1>9, <1>10, <1>11, <1>12, <1>13, <1>14, <1>15, <1>16, <1>17 DEF Next

-----------------------------------------------------------------------------
AnswersAtLeast(answer) == answer \in {"greater", "equal"}

LEMMA AtLeastTransitive ==
  ASSUME NEW a \in VersionParts, NEW b \in VersionParts, NEW c \in VersionParts,
         AnswersAtLeast(CompareParts(a, b)), AnswersAtLeast(CompareParts(b, c))
  PROVE  AnswersAtLeast(CompareParts(a, c))
<1>1. CASE CompareParts(a, b) = "equal" \/ CompareParts(b, c) = "equal"
  BY <1>1, OrderAgreesWithEquality DEF AnswersAtLeast
<1>2. CASE CompareParts(a, b) = "greater" /\ CompareParts(b, c) = "greater"
  <2>1. CompareParts(b, a) = "less" /\ CompareParts(c, b) = "less"
    BY <1>2, OrderFlips DEF Flip
  <2>2. CompareParts(c, a) = "less"
    BY <2>1, OrderTransitive
  <2> QED
    BY <2>2, OrderFlips DEF Flip, AnswersAtLeast
<1> QED
  BY <1>1, <1>2 DEF AnswersAtLeast

(* A version that is no development build can be compared with any.        *)
LEMMA NotNewer ==
  ASSUME NEW a \in VersionParts, NEW b \in VersionParts,
         a.kind.class # "development" \/ b.kind.class # "development",
         CompareParts(a, b) # "greater"
  PROVE  AnswersAtLeast(CompareParts(b, a))
<1>1. CompareParts(a, b) \in {"less", "equal"}
  BY OrderTotal DEF Siblings
<1> QED
  BY <1>1, OrderFlips DEF Flip, AnswersAtLeast

LEMMA NotAtLeast ==
  ASSUME NEW a \in VersionParts, NEW b \in VersionParts,
         a.kind.class # "development" \/ b.kind.class # "development",
         ~AnswersAtLeast(CompareParts(a, b))
  PROVE  CompareParts(b, a) = "greater"
<1>1. CompareParts(a, b) = "less"
  BY OrderTotal DEF Siblings, AnswersAtLeast
<1> QED
  BY <1>1, OrderFlips DEF Flip

(* What is the latest of the releases that were looked at.                 *)
VersionOf(r) == Version(metadata[r].name)
First(r) == Considered(r) /\ \A q \in 1..(r - 1) : ~Considered(q)
IsLatestUpTo(n, l) ==
  /\ l # 0 => Considered(l)
  /\ l = 0 => \A r \in 1..n : ~Considered(r)
  /\ (\E r \in 1..n : First(r) /\ IsFull(VersionOf(r))) =>
       /\ IsFull(VersionOf(l))
       /\ \A r \in 1..n : (Considered(r) /\ IsFull(VersionOf(r))) =>
            AtLeast(VersionOf(l), VersionOf(r))

LatestInv ==
  /\ IsLatestUpTo(looked, latest)
  /\ pc = "release" => command.name # "update"
  /\ UpdatesToLatest

(* Full versions of the index are those the order is proved for.           *)
LEMMA IndexVersions ==
  ASSUME metadata \in Indices \cup {<<>>}, NEW r \in 1..Len(metadata), IsFull(VersionOf(r))
  PROVE  /\ VersionOf(r).parts \in VersionParts
         /\ VersionOf(r).parts.kind.class # "development"
<1>1. metadata \in Indices
  OBVIOUS
<1> QED
  BY <1>1, IndicesAssumption DEF VersionOf, WellWritten

(* Looking at one more release keeps the latest of those looked at.        *)
LEMMA MoreRecentIsLatest ==
  ASSUME metadata \in Indices \cup {<<>>}, Len(metadata) \in Nat,
         NEW n \in 0..Len(metadata), n < Len(metadata),
         NEW l \in 0..n, IsLatestUpTo(n, l)
  PROVE  IsLatestUpTo(n + 1, MoreRecent(l, n + 1))
<1> DEFINE r == n + 1
           m == MoreRecent(l, r)
<1>0. r \in 1..Len(metadata) /\ 1..r = 1..n \cup {r} /\ (l # 0 => l \in 1..Len(metadata))
  OBVIOUS
<1>1. CASE ~Considered(r)
  <2>1. m = l
    BY <1>1 DEF MoreRecent
  <2>2. ~First(r)
    BY <1>1 DEF First
  <2> QED
    BY <1>0, <1>1, <2>1, <2>2 DEF IsLatestUpTo
<1>2. CASE Considered(r) /\ l = 0
  <2>1. m = r /\ \A q \in 1..n : ~Considered(q)
    BY <1>2 DEF MoreRecent, IsLatestUpTo
  <2>2. IsFull(VersionOf(r)) => AtLeast(VersionOf(r), VersionOf(r))
    <3> SUFFICES ASSUME IsFull(VersionOf(r)) PROVE AtLeast(VersionOf(r), VersionOf(r))
      OBVIOUS
    <3>1. CompareParts(VersionOf(r).parts, VersionOf(r).parts) = "equal"
      BY <1>0, IndexVersions, OrderAgreesWithEquality
    <3> QED
      BY <3>1 DEF AtLeast, CompareVersions
  <2>3. \A q \in 1..r : Considered(q) => q = r
    BY <1>0, <2>1
  <2> QED
    BY <1>0, <1>2, <2>1, <2>2, <2>3 DEF IsLatestUpTo, First
<1>3. CASE Considered(r) /\ l # 0
  <2>1. Considered(l) /\ Considered(m)
    BY <1>3 DEF IsLatestUpTo, MoreRecent
  <2>2. m # 0
    BY <1>0, <1>3 DEF MoreRecent
  <2> SUFFICES ASSUME \E f \in 1..r : First(f) /\ IsFull(VersionOf(f))
               PROVE  /\ IsFull(VersionOf(m))
                      /\ \A q \in 1..r : (Considered(q) /\ IsFull(VersionOf(q))) =>
                           AtLeast(VersionOf(m), VersionOf(q))
    BY <2>1, <2>2 DEF IsLatestUpTo
  <2>3. ~First(r)
    BY <1>0, <1>3, <2>1 DEF First
  <2>4. /\ IsFull(VersionOf(l))
        /\ \A q \in 1..n : (Considered(q) /\ IsFull(VersionOf(q))) =>
             AtLeast(VersionOf(l), VersionOf(q))
    BY <1>0, <2>3 DEF IsLatestUpTo
  <2> DEFINE full == IsFull(VersionOf(r))
             answer == CompareParts(VersionOf(r).parts, VersionOf(l).parts)
  <2>5. /\ VersionOf(l).parts \in VersionParts
        /\ VersionOf(l).parts.kind.class # "development"
    BY <1>0, <1>3, <2>4, IndexVersions
  <2>6. full => VersionOf(r).parts \in VersionParts
    BY <1>0, IndexVersions
  <2>7. Newer(VersionOf(r), VersionOf(l)) <=> (full /\ answer = "greater")
    BY <2>4 DEF Newer, CompareVersions
  <2>8. CASE full /\ answer = "greater"
    <3>1. m = r
      BY <1>3, <2>7, <2>8 DEF MoreRecent, VersionOf
    <3>2. \A q \in 1..n : (Considered(q) /\ IsFull(VersionOf(q))) =>
            AtLeast(VersionOf(r), VersionOf(q))
      <4> SUFFICES ASSUME NEW q \in 1..n, Considered(q), IsFull(VersionOf(q))
                   PROVE  AtLeast(VersionOf(r), VersionOf(q))
        OBVIOUS
      <4>1. VersionOf(q).parts \in VersionParts
        BY <1>0, IndexVersions
      <4>2. AnswersAtLeast(CompareParts(VersionOf(l).parts, VersionOf(q).parts))
        BY <2>4 DEF AtLeast, CompareVersions, AnswersAtLeast
      <4>3. AnswersAtLeast(CompareParts(VersionOf(r).parts, VersionOf(q).parts))
        BY <2>5, <2>6, <2>8, <4>1, <4>2, AtLeastTransitive DEF AnswersAtLeast
      <4> QED
        BY <2>8, <4>3 DEF AtLeast, CompareVersions, AnswersAtLeast
    <3>3. AtLeast(VersionOf(r), VersionOf(r))
      <4>1. CompareParts(VersionOf(r).parts, VersionOf(r).parts) = "equal"
        BY <2>6, <2>8, OrderAgreesWithEquality
      <4> QED
        BY <2>8, <4>1 DEF AtLeast, CompareVersions
    <3> HIDE DEF m
    <3> QED
      BY <1>0, <2>8, <3>1, <3>2, <3>3
  <2>9. CASE ~(full /\ answer = "greater")
    <3>1. m = l
      BY <1>3, <2>7, <2>9 DEF MoreRecent, VersionOf
    <3>2. full => AtLeast(VersionOf(l), VersionOf(r))
      <4> SUFFICES ASSUME full PROVE AtLeast(VersionOf(l), VersionOf(r))
        OBVIOUS
      <4>1. AnswersAtLeast(CompareParts(VersionOf(l).parts, VersionOf(r).parts))
        BY <2>5, <2>6, <2>9, NotNewer
      <4> QED
        BY <2>4, <4>1 DEF AtLeast, CompareVersions, AnswersAtLeast
    <3> HIDE DEF m
    <3> QED
      BY <1>0, <2>4, <3>1, <3>2
  <2> QED
    BY <2>8, <2>9
<1> QED
  BY <1>1, <1>2, <1>3

(* What a probe runs is well written, as its product string is.            *)
LEMMA RunningType ==
  ASSUME BusInv, probe \in 1..Len(bus), Kind # {}, IsFull(Running)
  PROVE  Running.parts \in VersionParts
<1>1. PICK identity \in ParseIdentity(bus[probe].product) :
        Identity(probe) = {identity} /\ Running = identity.version
  BY OneIdentity DEF Kind, Identity, Running
<1>2. PICK text \in bus[probe].product.version : Running = Version(text)
  BY <1>1 DEF ParseIdentity, IsFull, Unknown, Invalid
<1>3. WellWritten(text)
  BY <1>2 DEF BusInv, IsBus
<1> QED
  BY <1>2, <1>3 DEF WellWritten

(* The release that update takes, or that it finds the probe to run.       *)
LEMMA PickedIsLatest ==
  ASSUME BusInv, PlacesInv, SettledInv, LatestInv, pc = "latest", PickLatest,
         release' # 0 \/ result' = "current"
  PROVE  UpdatesToLatest'
<1>1. /\ latest # 0 /\ Kind # {} /\ looked = Len(metadata)
      /\ UNCHANGED <<bus, command, metadata, probe, latest>>
      /\ \/ release' = latest /\ ~UpToDate /\ result' # "current"
         \/ release' = 0 /\ UpToDate
  BY DEF PickLatest, Goto, End, given, chosen, walk, PlacesInv, Before, AtProbe, AtRelease
<1>2. /\ IsLatestUpTo(Len(metadata), latest) /\ metadata \in Indices \cup {<<>>}
      /\ latest \in 1..Len(metadata) /\ Len(metadata) \in Nat
  BY <1>1, IndexType DEF LatestInv, PlacesInv, SettledInv
<1>3. probe \in 1..Len(bus)
  BY BusType DEF PlacesInv, AtRelease
<1> DEFINE startsFull == \E r \in 1..Len(metadata) : First(r) /\ IsFull(VersionOf(r))
           NoneNewer(v) == \A r \in 1..Len(metadata) :
                             (Considered(r) /\ IsFull(VersionOf(r))) => AtLeast(v, VersionOf(r))
<1>4. Considered(latest)
  BY <1>1, <1>2 DEF IsLatestUpTo
<1>5. startsFull => IsFull(VersionOf(latest)) /\ NoneNewer(VersionOf(latest))
  BY <1>2 DEF IsLatestUpTo
<1>6. IsFull(Running) => Running.parts \in VersionParts
  BY <1>1, <1>3, RunningType
<1>7. (~UpToDate /\ IsFull(VersionOf(latest)) /\ IsFull(Running) /\ ~command.force) =>
        Newer(VersionOf(latest), Running)
  <2> SUFFICES ASSUME ~UpToDate, IsFull(VersionOf(latest)), IsFull(Running), ~command.force
               PROVE  Newer(VersionOf(latest), Running)
    OBVIOUS
  <2>1. ~AtLeast(Running, VersionOf(latest))
    BY DEF UpToDate, VersionOf
  <2>2. /\ VersionOf(latest).parts \in VersionParts
        /\ VersionOf(latest).parts.kind.class # "development"
    BY <1>2, IndexVersions
  <2>3. ~AnswersAtLeast(CompareParts(Running.parts, VersionOf(latest).parts))
    BY <2>1 DEF AtLeast, CompareVersions, AnswersAtLeast
  <2> QED
    BY <1>6, <2>2, <2>3, NotAtLeast DEF Newer, CompareVersions
<1>8. (UpToDate /\ startsFull) => IsFull(Running) /\ ~command.force /\ NoneNewer(Running)
  <2> SUFFICES ASSUME UpToDate, startsFull
               PROVE  IsFull(Running) /\ ~command.force /\ NoneNewer(Running)
    OBVIOUS
  <2>1. ~command.force /\ AtLeast(Running, VersionOf(latest)) /\ IsFull(VersionOf(latest))
    BY <1>5 DEF UpToDate, VersionOf
  <2>2. IsFull(Running)
    BY <2>1 DEF AtLeast, CompareVersions, IsFull
  <2>3. AnswersAtLeast(CompareParts(Running.parts, VersionOf(latest).parts))
    BY <2>1, <2>2 DEF AtLeast, CompareVersions, AnswersAtLeast
  <2>4. ASSUME NEW r \in 1..Len(metadata), Considered(r), IsFull(VersionOf(r))
        PROVE  AtLeast(Running, VersionOf(r))
    <3>1. VersionOf(r).parts \in VersionParts /\ VersionOf(latest).parts \in VersionParts
      BY <1>2, <2>1, <2>4, IndexVersions
    <3>2. AnswersAtLeast(CompareParts(VersionOf(latest).parts, VersionOf(r).parts))
      BY <1>5, <2>1, <2>4 DEF AtLeast, CompareVersions, AnswersAtLeast
    <3>3. AnswersAtLeast(CompareParts(Running.parts, VersionOf(r).parts))
      BY <1>6, <2>2, <2>3, <3>1, <3>2, AtLeastTransitive
    <3> QED
      BY <2>2, <2>4, <3>3 DEF AtLeast, CompareVersions, AnswersAtLeast
  <2> QED
    BY <2>1, <2>2, <2>4
<1>9. UNCHANGED Running
  BY <1>1 DEF Running, Identity
<1>10. \A r : (First(r)' <=> First(r)) /\ VersionOf(r)' = VersionOf(r)
              /\ (Considered(r)' <=> Considered(r))
  BY <1>1 DEF First, Considered, VersionOf
<1> QED
  BY <1>1, <1>2, <1>4, <1>5, <1>7, <1>8, <1>9, <1>10
     DEF UpdatesToLatest, First, Considered, VersionOf

LEMMA LatestStep ==
  ASSUME BusInv, PlacesInv, SettledInv, LatestInv, [Next]_vars
  PROVE  LatestInv'
<1> USE DEF Goto, End, given, chosen, pointed, walk
<1>0. (UNCHANGED <<bus, command, metadata, probe, release>>
        /\ (UNCHANGED result \/ result' # "current")) => UpdatesToLatest'
  BY DEF LatestInv, UpdatesToLatest, Considered, Running, Identity
<1>a. UNCHANGED <<command, metadata, looked, latest>> =>
        IsLatestUpTo(looked, latest)' = IsLatestUpTo(looked, latest)
  BY DEF IsLatestUpTo, Considered, First, VersionOf
<1>b. pc \in Before \cup AtProbe => (looked = 0 /\ latest = 0)
  BY DEF PlacesInv
<1>c. pc \in Before \cup AtProbe \cup AtRelease => release = 0
  BY DEF PlacesInv
<1>d. Before = {"shell", "told", "probe"} /\ AtProbe = {"port", "identify", "metadata"}
      /\ AtRelease = {"release", "latest"}
  BY DEF Before, AtProbe, AtRelease
<1>e. (looked' = 0 /\ latest' = 0) => IsLatestUpTo(looked, latest)'
  BY DEF IsLatestUpTo
<1>f. (release' = 0 /\ result' # "current") => UpdatesToLatest'
  BY DEF UpdatesToLatest
<1>g. pc # "done" => result = "none"
  BY DEF PlacesInv
<1>1. CASE Info
  BY <1>b, <1>c, <1>d, <1>e, <1>f, <1>g, <1>1 DEF Info, LatestInv
<1>2. CASE Replug
  BY <1>b, <1>c, <1>d, <1>e, <1>f, <1>g, <1>2 DEF Replug, LatestInv
<1>3. CASE FindProbe
  BY <1>b, <1>c, <1>d, <1>e, <1>f, <1>g, <1>3 DEF FindProbe, LatestInv
<1>4. CASE SelectProbe
  BY <1>b, <1>c, <1>d, <1>e, <1>f, <1>g, <1>4 DEF SelectProbe, LatestInv
<1>5. CASE OpenPort
  BY <1>b, <1>c, <1>d, <1>e, <1>f, <1>g, <1>5 DEF OpenPort, LatestInv
<1>6. CASE Identify
  BY <1>b, <1>c, <1>d, <1>e, <1>f, <1>g, <1>6 DEF Identify, LatestInv
<1>7. CASE DownloadMetadata
  BY <1>b, <1>c, <1>d, <1>e, <1>f, <1>g, <1>7 DEF DownloadMetadata, LatestInv
<1>8. CASE PickRelease
  <2>1. /\ command.name # "update" /\ UNCHANGED <<command, metadata, looked, latest>>
        /\ pc' # "release"
    BY <1>8 DEF PickRelease, LatestInv
  <2>2. UpdatesToLatest'
    BY <2>1 DEF UpdatesToLatest
  <2> QED
    BY <1>a, <2>1, <2>2 DEF LatestInv
<1>9. CASE PickLatest
  <2>1. UNCHANGED <<command, metadata, looked, latest>> /\ pc' # "release" /\ pc = "latest"
    BY <1>9 DEF PickLatest
  <2>2. UpdatesToLatest'
    BY <1>f, <2>1, <1>9, PickedIsLatest
  <2> QED
    BY <1>a, <2>1, <2>2 DEF LatestInv
<1>10. CASE LookAt
  <2>1. /\ looked' = looked + 1 /\ latest' = MoreRecent(latest, looked + 1)
        /\ UNCHANGED <<bus, command, metadata, probe, release, result, pc>> /\ looked < Len(metadata)
    BY <1>10 DEF LookAt
  <2>2. IsLatestUpTo(looked + 1, MoreRecent(latest, looked + 1))
    BY <2>1, IndexType, MoreRecentIsLatest DEF LatestInv, PlacesInv, SettledInv
  <2>3. IsLatestUpTo(looked, latest)'
    BY <2>1, <2>2 DEF IsLatestUpTo, Considered, First, VersionOf
  <2> QED
    BY <1>0, <2>1, <2>3 DEF LatestInv
<1>11. CASE PickFirmware
  BY <1>0, <1>a, <1>11 DEF PickFirmware, LatestInv
<1>12. CASE FirmwareSelection
  BY <1>0, <1>a, <1>12 DEF FirmwareSelection, LatestInv
<1>13. CASE ActionSelection
  BY <1>0, <1>a, <1>13 DEF ActionSelection, LatestInv
<1>14. CASE ShowDocumentation
  BY <1>0, <1>a, <1>14 DEF ShowDocumentation, LatestInv
<1>15. CASE ReadDocumentation
  BY <1>0, <1>a, <1>15 DEF ReadDocumentation, LatestInv
<1>16. CASE DownloadFirmware
  BY <1>0, <1>a, <1>16 DEF DownloadFirmware, LatestInv
<1>17. CASE UNCHANGED vars
  BY <1>0, <1>a, <1>17 DEF vars, LatestInv
<1> QED
  BY <1>1, <1>2, <1>3, <1>4, <1>5, <1>6, <1>7, <1>8, <1>9, <1>10, <1>11, <1>12, <1>13, <1>14, <1>15, <1>16, <1>17 DEF Next

-----------------------------------------------------------------------------
ChoiceInv == BusInv /\ PlacesInv /\ SettledInv /\ MeantInv /\ LatestInv

LEMMA ChoiceInvariant == Spec => []ChoiceInv
<1>1. Init => ChoiceInv
  <2> SUFFICES ASSUME Init PROVE ChoiceInv
    OBVIOUS
  <2>1. BusInv
    BY BusesAssumption DEF Init, BusInv
  <2>2. Len(bus) \in Nat /\ Len(<<>>) = 0
    BY <2>1, BusType
  <2>3. PlacesInv
    <3>1. /\ pc = "shell" /\ result = "none" /\ moved = FALSE /\ metadata = <<>>
          /\ meant = 0 /\ named = "none" /\ command \in Commands /\ probe = 0 /\ port = 0
          /\ looked = 0 /\ latest = 0 /\ release = 0 /\ picked = 0 /\ variant = 0
      BY DEF Init
    <3>2. 0 \in 0..Len(bus)
      BY <2>2
    <3> QED
      BY <3>1, <3>2 DEF PlacesInv, Before, AtProbe, AtRelease, AtVariant
  <2>4. SettledInv
    BY <2>2 DEF Init, SettledInv
  <2>5. MeantInv
    BY DEF Init, MeantInv
  <2>6. LatestInv
    BY DEF Init, LatestInv, IsLatestUpTo, UpdatesToLatest
  <2> QED
    BY <2>1, <2>3, <2>4, <2>5, <2>6 DEF ChoiceInv
<1>2. ChoiceInv /\ [Next]_vars => ChoiceInv'
  BY BusStep, PlacesStep, SettledStep, MeantStep, LatestStep DEF ChoiceInv
<1> QED
  BY <1>1, <1>2, PTL DEF Spec

(* Whatever is plugged in and in the index: places are on the bus, in the  *)
(* index and in the release, and the viewer is there while it is read.     *)
THEOREM ChoiceTypeCorrect == Spec => []TypeOK
<1>1. ChoiceInv /\ ReadingInv => TypeOK
  <2> SUFFICES ASSUME ChoiceInv, ReadingInv PROVE TypeOK
    OBVIOUS
  <2>1. pc \in {"shell", "told", "probe", "identify", "metadata", "release", "latest",
                "variants", "pick", "action", "docs", "reading", "download", "port", "done"}
    BY DEF ChoiceInv, PlacesInv, Before, AtProbe, AtRelease, AtVariant
  <2>2. release # 0 => Len(Variants) \in Nat
    BY IndexType, VariantsType DEF ChoiceInv, PlacesInv, SettledInv
  <2>3. (picked # 0 \/ variant # 0) =>
          (picked \in 0..Len(Variants) /\ variant \in 0..Len(Variants))
    BY <2>2 DEF ChoiceInv, SettledInv
  <2> QED
    BY <2>1, <2>3 DEF ChoiceInv, PlacesInv, SettledInv, ReadingInv, TypeOK
<1> QED
  BY <1>1, ChoiceInvariant, ReadingInvariant, PTL

(* A command is for the probe the user pointed at, or it does nothing, for *)
(* every bus and all that may be plugged in and out of it in between: by a *)
(* place in the list of switch if none is left out of it, by an index of   *)
(* info if moreover nothing has changed, and by a serial number as long as *)
(* no other probe has it, also when the one that was meant is gone         *)
(* (switcher.rs:87-102, bmp_matcher.rs:39-161, interface.rs:45-105).       *)
THEOREM CommandActsOnMeant == Spec => []ActsOnMeant
<1>1. ChoiceInv /\ FlashesPicked => ActsOnMeant
  <2> SUFFICES ASSUME ChoiceInv, FlashesPicked PROVE ActsOnMeant
    OBVIOUS
  <2>1. (result = "opened" /\ DistinctSerials) => port = probe
    <3> SUFFICES ASSUME result = "opened", DistinctSerials PROVE port = probe
      OBVIOUS
    <3>1. port \in 1..Len(bus) /\ bus[port].serial = bus[probe].serial
      BY PortsOnBus DEF ChoiceInv, MeantInv
    <3>2. probe \in 1..Len(bus)
      BY BusType DEF ChoiceInv, MeantInv, PlacesInv
    <3> QED
      BY <3>1, <3>2 DEF DistinctSerials
  <2> QED
    BY <2>1 DEF ChoiceInv, MeantInv, ActsOnMeant
<1> QED
  BY <1>1, ChoiceInvariant, PickedIsFlashed, PTL

(* For every index in the order of its names, update takes the latest      *)
(* version it has, and without --force only one that is newer than what    *)
(* the probe runs, and it only calls the probe up to date if no version it *)
(* has is newer than that (structs.rs:324-355, bmputil-cli.rs:308-317).    *)
THEOREM UpdateTakesLatest == Spec => []UpdatesToLatest
<1>1. ChoiceInv => UpdatesToLatest
  BY DEF ChoiceInv, LatestInv
<1> QED
  BY <1>1, ChoiceInvariant, PTL
=============================================================================
