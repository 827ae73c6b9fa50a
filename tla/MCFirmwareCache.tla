-------------------------- MODULE MCFirmwareCache --------------------------
(***************************************************************************)
(* Small instances of FirmwareCache.                                       *)
(***************************************************************************)
EXTENDS FirmwareCache, TLC
=============================================================================
