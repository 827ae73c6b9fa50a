---------------------------- MODULE MCRspReader ----------------------------
(***************************************************************************)
(* Small instances of RspReader: a wire that is clean, and one that may    *)
(* start in the middle of an older answer.                                 *)
(***************************************************************************)
EXTENDS RspReader

OlderAnswer == {<<>>, <<"a", "#">>}
NoNoise == {<<>>}
=============================================================================
