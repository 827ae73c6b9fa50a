------------------------------ MODULE Versions ------------------------------
(***************************************************************************)
(* Version numbers of probe firmware and their order                       *)
(* (src/probe_identity.rs).  The answer of a comparison is "less", "equal" *)
(* or "greater", "none" where the code has no order, and "panic" where it  *)
(* unwraps one it does not have.                                           *)
(***************************************************************************)
EXTENDS Integers

CONSTANT Hash  \* Git hashes

(* A development build counts the commits since a release, or since a      *)
(* release candidate if rc is its number.                                  *)
None == -1
GitVersion == [rc : Nat \cup {None}, commits : Nat, hash : Hash]

Release == [class |-> "release"]
Candidate == [class : {"candidate"}, rc : Nat]
Development == [class : {"development"}, git : GitVersion]
VersionKind == {Release} \cup Candidate \cup Development

VersionParts ==
  [major : Nat, minor : Nat, revision : Nat, kind : VersionKind, dirty : BOOLEAN]

Unknown == [form |-> "unknown"]
Invalid == [form |-> "invalid"]
GitHash(h) == [form |-> "hash", hash |-> h]
FullVersion(parts) == [form |-> "full", parts |-> parts]

IsFull(v) == v.form = "full"

-----------------------------------------------------------------------------
CompareNumbers(a, b) == IF a < b THEN "less" ELSE IF a > b THEN "greater" ELSE "equal"

(* a development build of a candidate comes before one of the release      *)
CompareGit(a, b) ==
  IF a.rc # b.rc
  THEN IF b.rc = None THEN "less"
       ELSE IF a.rc = None THEN "greater"
       ELSE CompareNumbers(a.rc, b.rc)
  ELSE IF a.commits # b.commits THEN CompareNumbers(a.commits, b.commits)
  ELSE IF a.hash = b.hash THEN "equal" ELSE "none"

Rank(kind) ==
  CASE kind.class = "candidate" -> 0
    [] kind.class = "release" -> 1
    [] kind.class = "development" -> 2

CompareKinds(a, b) ==
  IF Rank(a) # Rank(b) THEN CompareNumbers(Rank(a), Rank(b))
  ELSE IF a.class = "release" THEN "equal"
  ELSE IF a.class = "candidate" THEN CompareNumbers(a.rc, b.rc)
  ELSE IF CompareGit(a.git, b.git) = "none" THEN "panic"
  ELSE CompareGit(a.git, b.git)

CompareDirty(a, b) ==
  IF a = b THEN "equal" ELSE IF a THEN "greater" ELSE "less"

CompareParts(a, b) ==
  IF a.major # b.major THEN CompareNumbers(a.major, b.major)
  ELSE IF a.minor # b.minor THEN CompareNumbers(a.minor, b.minor)
  ELSE IF a.revision # b.revision THEN CompareNumbers(a.revision, b.revision)
  ELSE IF CompareKinds(a.kind, b.kind) # "equal" THEN CompareKinds(a.kind, b.kind)
  ELSE CompareDirty(a.dirty, b.dirty)

CompareVersions(a, b) ==
  IF IsFull(a) /\ IsFull(b) THEN CompareParts(a.parts, b.parts)
  ELSE IF a.form = "hash" /\ a = b THEN "equal"
  ELSE "none"

Newer(a, b) == CompareVersions(a, b) = "greater"
AtLeast(a, b) == CompareVersions(a, b) \in {"greater", "equal"}
=============================================================================
