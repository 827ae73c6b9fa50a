----------------------------- MODULE BmpMatcher -----------------------------
(***************************************************************************)
(* Which of the probes on the bus a command is for (src/bmp_matcher.rs).   *)
(* A bus is the sequence of the probes the system lists, in its order; a   *)
(* filter has an index, a serial number and a port, each a set of at most  *)
(* one.                                                                    *)
(***************************************************************************)
EXTENDS Naturals, Sequences, FiniteSets

NoFilter == [index |-> {}, serial |-> {}, port |-> {}]

(* The filter of a command line has no port, whatever is on the line.      *)
FromParams(line) == [index |-> line.index, serial |-> line.serial, port |-> {}]

(* matching_probe: a filter that is not given matches every probe.         *)
Matches(bus, filter, i) ==
  /\ filter.index \subseteq {i - 1}
  /\ filter.serial \subseteq {bus[i].serial}
  /\ filter.port \subseteq {bus[i].port}

(* find_matching_probes: the positions of those that match and that the    *)
(* system lets be opened.                                                  *)
FindMatchingProbes(bus, filter) ==
  {i \in 1..Len(bus) : Matches(bus, filter, i) /\ bus[i].opens}

(* Results are lists in the order of the bus: the place of a probe in      *)
(* such a list, from 0.                                                    *)
Place(found, i) == Cardinality({j \in found : j < i})
=============================================================================
