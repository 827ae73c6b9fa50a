-------------------------- MODULE MCFirmwareImage ---------------------------
(***************************************************************************)
(* Small instances of FirmwareImage: 16 addresses, flash from 8, firmware  *)
(* of native probes from 10, words of one byte.                            *)
(***************************************************************************)
EXTENDS FirmwareImage

Rec(t, a, d) == [type |-> t, address |-> a, data |-> d]
Datas == {<<>>, <<1>>, <<2, 3>>}

(* Record addresses below 4, bases that are multiples of 4.                *)
MCHexRecords ==
  {Rec("data", a, d) : a \in 0..3, d \in Datas}
    \cup {Rec("linear", a, <<>>) : a \in {8, 12}}
    \cup {Rec("start", 9, <<>>), Rec("eof", 0, <<>>), Rec("todo", 0, <<>>)}

MCHeaders ==
  {Rec("data", a, d) : a \in 8..12, d \in Datas} \cup {Rec("other", 8, <<1>>), Rec("outside", 8, <<>>)}
MCElfFiles == UNION {[1..n -> MCHeaders] : n \in 0..3}

MCRawFiles == {<<>>, <<1>>} \cup {<<1, v>> : v \in 7..15}

MCPlatforms == {"native", "dragon", "stm32"}
MCStart == [p \in MCPlatforms |->
  CASE p = "native" -> [Bootloader |-> 8, Application |-> 10]
    [] p = "dragon" -> [Bootloader |-> 10, Application |-> 10]
    [] p = "stm32" -> [Bootloader |-> 8, Application |-> 8]]
=============================================================================
