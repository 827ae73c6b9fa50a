--------------------------- MODULE ProbeInterface ---------------------------
(***************************************************************************)
(* The serial port of a probe, on Linux (src/serial/interface.rs): the     *)
(* entries of /dev/serial/by-id are searched for one whose name has the    *)
(* serial number of the probe.                                             *)
(***************************************************************************)
EXTENDS Naturals, Sequences

(* The system has an entry for each of the two serial interfaces of every  *)
(* probe that runs its firmware.                                           *)
Entries(bus) ==
  {[probe |-> i, vendor |-> bus[i].vendor, serial |-> bus[i].serial, interface |-> n] :
     i \in {j \in 1..Len(bus) : bus[j].product.start = "probe"}, n \in {0, 2}}

(* device_is_bmd_gdb_port: the name starts as that of a probe of a known   *)
(* vendor, and ends as that of the first interface.                        *)
IsGdbPort(entry) == entry.vendor = "known" /\ entry.interface = 0

(* Mutant: any interface of the probe will do, and any serial number.      *)
ProbePorts_any(bus, serial) == {entry.probe : entry \in {e \in Entries(bus) : IsGdbPort(e)}}

(* probe_interface: the probes whose port may be opened for a serial       *)
(* number.  A directory is read in any order, so each may be the first.    *)
ProbePorts(bus, serial) ==
  {entry.probe : entry \in {e \in Entries(bus) : IsGdbPort(e) /\ e.serial = serial}}
=============================================================================
