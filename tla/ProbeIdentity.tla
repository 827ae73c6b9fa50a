--------------------------- MODULE ProbeIdentity ---------------------------
(***************************************************************************)
(* What a probe says it is, and how versions are written                   *)
(* (src/probe_identity.rs).  A version is written as a prefix, numbers     *)
(* with dots between them, and pieces with dashes in front; a product      *)
(* string as how it starts, a name in parentheses, and a version.  A       *)
(* result that may be missing is a set of at most one.                     *)
(***************************************************************************)
EXTENDS Versions, Sequences

CONSTANTS
  Native,  \* the probe that has no name in its product string
  Known    \* the kinds whose names are understood, Native among them

RcPiece(n) == [is |-> "rc", n |-> n]
NumberPiece(n) == [is |-> "number", n |-> n]
HashPiece(h) == [is |-> "hash", hash |-> h]
DirtyPiece == [is |-> "dirty"]

(* to_string of VersionKind, GitVersion and VersionParts: no "v" in front. *)
KindPieces(kind) ==
  CASE kind.class = "release" -> <<>>
    [] kind.class = "candidate" -> <<RcPiece(kind.rc)>>
    [] kind.class = "development" ->
         LET built == <<NumberPiece(kind.git.commits), HashPiece(kind.git.hash)>>
         IN  IF kind.git.rc = None THEN built ELSE <<RcPiece(kind.git.rc)>> \o built

ToText(parts) ==
  [prefix  |-> "",
   numbers |-> <<parts.major, parts.minor, parts.revision>>,
   pieces  |-> KindPieces(parts.kind) \o IF parts.dirty THEN <<DirtyPiece>> ELSE <<>>]

(* What is left behind the numbers, once "dirty" is taken off: a candidate *)
(* in front, and commits and a hash or nothing.                            *)
ParseKind(pieces) ==
  LET candidate == pieces # <<>> /\ pieces[1].is = "rc"
      rest == IF candidate THEN Tail(pieces) ELSE pieces
  IN  IF pieces = <<>> THEN {Release}
      ELSE IF rest = <<>> THEN {[class |-> "candidate", rc |-> pieces[1].n]}
      ELSE IF Len(rest) = 2 /\ rest[1].is = "number"
      THEN {[class |-> "development",
             git |-> [rc |-> IF candidate THEN pieces[1].n ELSE None,
                      commits |-> rest[1].n, hash |-> rest[2].hash]]}
      ELSE {}

(* VersionParts::try_from: three numbers, no more and no less.             *)
ParseParts(numbers, pieces) ==
  LET dirty == pieces # <<>> /\ pieces[Len(pieces)].is = "dirty"
      kinds == ParseKind(IF dirty THEN SubSeq(pieces, 1, Len(pieces) - 1) ELSE pieces)
  IN  IF Len(numbers) # 3 THEN {}
      ELSE {[major |-> numbers[1], minor |-> numbers[2], revision |-> numbers[3],
             kind |-> kind, dirty |-> dirty] : kind \in kinds}

(* VersionNumber::from.                                                    *)
Version(text) ==
  CASE text.prefix = "g" -> GitHash(text.pieces[1].hash)
    [] text.prefix = "v" ->
         IF ParseParts(text.numbers, text.pieces) = {} THEN Invalid
         ELSE FullVersion(CHOOSE parts \in ParseParts(text.numbers, text.pieces) : TRUE)
    [] OTHER -> Invalid

(* ProbeIdentity::try_from, of a product string that starts as a           *)
(* bootloader's, a probe's or in some other way.  The kind of a bootloader *)
(* is {}; a probe whose string ends there is an old native one.  A version *)
(* is what comes behind the last blank: with a name and nothing behind it  *)
(* that is the name in its parentheses, which is no version.               *)
ParseIdentity(product) ==
  CASE product.start = "bootloader" -> {[kind |-> {}, version |-> Unknown]}
    [] product.start = "probe" /\ product.name = {} /\ product.version = {} ->
         {[kind |-> {Native}, version |-> Unknown]}
    [] product.start = "probe" /\ product.version = {} /\ product.name \in {{k} : k \in Known} ->
         {[kind |-> product.name, version |-> Invalid]}
    [] product.start = "probe" /\ product.version # {} /\ product.name \subseteq Known ->
         {[kind |-> IF product.name = {} THEN {Native} ELSE product.name,
           version |-> Version(CHOOSE text \in product.version : TRUE)]}
    [] OTHER -> {}
=============================================================================
