-------------------------- MODULE MCChooseFirmware --------------------------
(***************************************************************************)
(* Small instances of ChooseFirmware: up to three probes, of which some    *)
(* cannot be opened or read, or have the serial number of another; indices *)
(* of up to four releases whose order by name is not that of their         *)
(* versions; a document of more than a page, on a terminal that can be     *)
(* made wider, narrower or longer.                                         *)
(***************************************************************************)
EXTENDS ChooseFirmware, SequencesExt

CONSTANTS stlink, bluepill, full, common, h1

Parts(major, minor, kind) ==
  [major |-> major, minor |-> minor, revision |-> 0, kind |-> kind, dirty |-> FALSE]
Rc(n) == [class |-> "candidate", rc |-> n]
Built(n, rc) == [class |-> "development", git |-> [rc |-> rc, commits |-> n, hash |-> h1]]

R1_9 == Parts(1, 9, Release)
R1_10 == Parts(1, 10, Release)
R2_0_rc1 == Parts(2, 0, Rc(1))
R2_0 == Parts(2, 0, Release)

(* Product strings: of a probe, with a name and a version or without, and  *)
(* of bootloaders.                                                         *)
Product(name, version) == [start |-> "probe", name |-> name, version |-> version]
Firmware(name, parts) == Product(name, {Key(parts)})
Bootloader == [start |-> "bootloader", name |-> {}, version |-> {}]
BootRom == [start |-> "other", name |-> {}, version |-> {}]
Old == Product({}, {})

Probe(product) ==
  [product |-> product, opens |-> TRUE, readable |-> TRUE, vendor |-> "known"]
Clone == [Probe(Firmware({}, R1_10)) EXCEPT !.vendor = "other"]
Unread == [Probe(Firmware({}, R2_0)) EXCEPT !.readable = FALSE]
Denied == [Probe(Firmware({}, R2_0)) EXCEPT !.opens = FALSE]

LeftOut == {Unread, Denied}
Plain == Probe(Firmware({}, R1_10))
SomeProbes == LeftOut \cup {Plain, Probe(Firmware({stlink}, R2_0))}

(* A name that is not understood, no version, one of two numbers, one      *)
(* that has commits and no hash, a hash, builds after a release and after  *)
(* a candidate, and a dirty one.                                           *)
OtherProbes ==
  {Probe(p) : p \in
     {Bootloader, BootRom, Old, Firmware({bluepill}, R2_0), Product({stlink}, {}),
      Product({}, {V1_6}),
      Product({stlink}, {[Key(R2_0) EXCEPT !.pieces = <<NumberPiece(5)>>]}),
      Product({}, {[prefix |-> "g", numbers |-> <<>>, pieces |-> <<HashPiece(h1)>>]}),
      Product({}, {ToText(R2_0)}),
      Firmware({stlink}, Parts(2, 0, Built(5, None))),
      Firmware({}, Parts(2, 0, Built(5, 1))),
      Firmware({}, R2_0), Firmware({}, R2_0_rc1),
      Firmware({}, [R1_10 EXCEPT !.dirty = TRUE])}}

(* The serial number of a probe is where it was plugged in first, or the   *)
(* same for all.                                                           *)
Plugged(probes) == [i \in 1..Len(probes) |-> probes[i] @@ [serial |-> i, port |-> i]]
Twins(probes) == [i \in 1..Len(probes) |-> probes[i] @@ [serial |-> 1, port |-> i]]

MCBuses ==
  {Plugged(probes) : probes \in SeqOf(SomeProbes, 2) \cup TupleOf(LeftOut \cup {Plain}, 3)
                                  \cup {<<p>> : p \in OtherProbes}}
  \cup {Twins(probes) : probes \in TupleOf(SomeProbes, 2) \cup TupleOf({Clone}, 1)}

(* Nothing more, a probe of another kind than those there, or one with the *)
(* serial number that the first of them had.                               *)
MCSpares ==
  {<<>>} \cup {<<Probe(Firmware({stlink}, R1_10)) @@ [serial |-> n, port |-> 4]>> : n \in {1, 4}}

OnlyNative(variants) == [k \in {Native} |-> variants]
Both(variants) == [k \in {Native, stlink} |-> variants]

(* By name v1.10.0 comes before v1.6 and v1.9.0, and v2.0.0 before its     *)
(* candidates.                                                             *)
MCIndices ==
  {<<>>,
   IndexOf(<<Key(R1_10), V1_6, Key(R1_9)>>,
           <<Both(<<full>>), OnlyNative(<<full>>), Both(<<full>>)>>),
   IndexOf(<<Key(R1_10), Key(R2_0), Key(R2_0_rc1)>>,
           <<Both(<<full>>), OnlyNative(<<common, full>>), Both(<<full, full>>)>>),
   IndexOf(<<Key(R1_10), Key(R1_9), Key(R2_0_rc1)>>,
           <<OnlyNative(<<>>), Both(<<full>>), Both(<<common, full>>)>>)}

Line(name, ports, force, rcs, file) ==
  [name |-> name, index |-> {}, serial |-> {}, port |-> ports,
   force |-> force, rcs |-> rcs, file |-> file]

MCCommands ==
  {Line(name, {}, FALSE, FALSE, FALSE) : name \in {"switch", "power"}} \cup
  {Line("update", {}, force, rcs, file) : force, rcs, file \in BOOLEAN} \cup
  {Line("update", {2}, FALSE, FALSE, TRUE)}

Size(width, height) == [width |-> width, height |-> height]
MCSizes == {Size(1, 3), Size(2, 5)}
MCDocuments == {1 :> 6 @@ 2 :> 4}
=============================================================================
