--------------------------- MODULE RemoteSession ---------------------------
(***************************************************************************)
(* Sessions of the BMD remote protocol: the commands that open a probe's   *)
(* serial port, agree on a protocol version and ask a question, each a     *)
(* process of its own with a buffer of its own.  One request is written,   *)
(* and the next answer that comes in is taken for the answer to it.        *)
(*                                                                         *)
(* Reading an answer from the port is the one step RspReader shows it is.  *)
(***************************************************************************)
EXTENDS Naturals, Sequences

CONSTANTS
  MaxSessions,  \* bound: sessions opened
  Purge,        \* whether opening the port discards what has come in
  Faults        \* what may go wrong, a subset of AllFaults

(***************************************************************************)
(* late     the probe may answer after the host has stopped waiting        *)
(* deaf     the probe may never answer a request                           *)
(* refuse   the probe may answer with an error, of the request or its own  *)
(* kill     the command may be killed while it waits for an answer         *)
(***************************************************************************)
AllFaults == {"late", "deaf", "refuse", "kill"}

ASSUME SessionAssumption ==
  /\ MaxSessions \in Nat
  /\ Purge \in BOOLEAN
  /\ Faults \subseteq AllFaults

VARIABLES
  firmware,  \* protocol the probe's firmware speaks
  todo,      \* requests on their way to the probe
  answers,   \* answers on their way to the host
  sessions,  \* sessions opened so far
  command,   \* what the session is for
  asked,     \* the request it waits for an answer to
  version,   \* BmdRspInterface::protocol_version
  accelerations,  \* RemoteV4::accelerations
  quiet,     \* history: nothing was on the line when the session opened
  heard,     \* the last answer acted on, with what it was taken to answer
  shown,     \* what was printed of the supported architectures
  result     \* how the session ended

link == <<todo, answers>>
session == <<sessions, command, quiet>>
known == <<version, accelerations>>
vars == <<firmware, link, session, asked, known, heard, shown, result>>

(* Firmware that speaks v4 may be too early to know what it supports, and  *)
(* v5 is one bmputil does not know.                                        *)
Firmware == {"v0", "v0plus", "v1", "v2", "v3", "v4early", "v4", "v5"}
Version == {"unknown", "v0", "v0plus", "v1", "v2", "v3", "v4"}
Request == {"start", "check", "accel", "archs", "families", "power", "jtag", "swd"}
Status == {"K", "N", "P", "E"}
Command == {"archs", "power", "jtag", "swd"}
Acceleration == {"adiv5", "adiv6", "riscv"}
Answer == [to : Request, status : Status]

(* Mutant: every number is taken for a version.                            *)
VersionOf_any(fw) == fw

VersionOf(fw) ==
  CASE fw = "v4early" -> "v4"
    [] fw = "v5"      -> "unknown"
    [] OTHER          -> fw

Knows(fw, request) ==
  CASE request \in {"start", "jtag", "swd"} -> TRUE
    [] request = "check" -> fw # "v0"
    [] request = "accel" -> fw \in {"v4early", "v4", "v5"}
    [] request = "power" -> fw \in {"v2", "v3", "v4early", "v4", "v5"}
    [] OTHER             -> fw = "v4"

(* What the probe does on its own of a debug session.                      *)
Accelerated(fw) ==
  CASE fw = "v0"             -> {}
    [] fw \in {"v4", "v5"}   -> Acceleration
    [] OTHER                 -> {"adiv5"}

(* adiv5_init, adiv6_init and riscv_jtag_init: v0+ and v1 have the first,  *)
(* v2 has what v1 has, v3 its own.                                         *)
OfferedByVersion == IF version \in {"v0plus", "v1", "v2", "v3"} THEN {"adiv5"} ELSE {}

(* v4 goes by what the probe told.                                         *)
Offered == IF version = "v4" THEN accelerations ELSE OfferedByVersion

Nothing == [asked |-> "start", to |-> "start"]

TypeOK ==
  /\ firmware \in Firmware
  /\ todo \in Seq(Request)
  /\ answers \in Seq(Answer)
  /\ sessions \in 0..MaxSessions
  /\ command \in Command
  /\ quiet \in BOOLEAN
  /\ asked \in Request \cup {"none"}
  /\ version \in Version
  /\ accelerations \subseteq Acceleration
  /\ heard \in [asked : Request, to : Request]
  /\ shown \in {"none", "unsupported", "listed"}
  /\ result \in {"none", "ok", "error", "killed", "panic"}

Init ==
  /\ firmware \in Firmware
  /\ todo = <<>>
  /\ answers = <<>>
  /\ sessions = 0
  /\ command = "archs"
  /\ quiet = TRUE
  /\ asked = "none"
  /\ version = "unknown" /\ accelerations = {}
  /\ heard = Nothing
  /\ shown = "none"
  /\ result = "none"

-----------------------------------------------------------------------------
(* The probe answers its requests in the order they come in.               *)
Respond ==
  /\ todo # <<>>
  /\ todo' = Tail(todo)
  /\ \/ \E s \in {IF Knows(firmware, Head(todo)) THEN "K" ELSE "N"} \cup
                 (IF "refuse" \in Faults THEN {"E", "P"} ELSE {}) :
          answers' = Append(answers, [to |-> Head(todo), status |-> s])
     \/ "deaf" \in Faults /\ UNCHANGED answers
  /\ UNCHANGED <<firmware, session, asked, known, heard, shown, result>>

(* from_path up to its first request.                                      *)
Open ==
  /\ asked = "none"
  /\ sessions < MaxSessions
  /\ sessions' = sessions + 1
  /\ command' \in Command
  /\ answers' = IF Purge THEN <<>> ELSE answers
  /\ quiet' = (todo = <<>> /\ answers' = <<>>)
  /\ todo' = Append(todo, "start")
  /\ asked' = "start"
  /\ version' = "unknown" /\ accelerations' = {}
  /\ heard' = Nothing
  /\ shown' = "none"
  /\ result' = "none"
  /\ UNCHANGED firmware

(* The session ends; the system may drop what has come in on the port.     *)
Leftover == {answers, <<>>}

End(r, rest) ==
  /\ asked' = "none"
  /\ result' = r
  /\ answers' \in rest
  /\ UNCHANGED todo

(* Mutant: only the first request has a timeout.                           *)
Timeout_startOnly ==
  /\ asked = "start"
  /\ todo = <<>> /\ answers = <<>>
  /\ End("error", Leftover)
  /\ UNCHANGED <<firmware, session, known, heard, shown>>

Timeout ==
  /\ asked # "none"
  /\ "late" \in Faults \/ (todo = <<>> /\ answers = <<>>)
  /\ End("error", Leftover)
  /\ UNCHANGED <<firmware, session, known, heard, shown>>

Kill ==
  /\ "kill" \in Faults
  /\ asked # "none"
  /\ End("killed", Leftover)
  /\ UNCHANGED <<firmware, session, known, heard, shown>>

-----------------------------------------------------------------------------
(* buffer_read took the next answer: the session goes on to ask r, or ends.*)
Hear(request) ==
  /\ asked = request
  /\ answers # <<>>
  /\ heard' = [asked |-> asked, to |-> Head(answers).to]
  /\ UNCHANGED <<firmware, session>>

(* Mutant: the answer that was read stays in the buffer.                   *)
Ask_again(r) ==
  /\ asked' = r
  /\ todo' = Append(todo, r)
  /\ UNCHANGED <<answers, result>>

Ask(r) ==
  /\ asked' = r
  /\ todo' = Append(todo, r)
  /\ answers' = Tail(answers)
  /\ UNCHANGED result

EndNow(r) == End(r, {Tail(answers), <<>>})

Said == Head(answers).status

(* decode_response unwraps every digit: the version string that answers    *)
(* "start" has none to offer.                                              *)
Decodes == Head(answers).to # "start"

(* The number in the answer, as a protocol version or as accelerations:    *)
(* anything, if it is not the answer to what was asked.                    *)
Decoded ==
  IF Head(answers).to = "check" THEN {VersionOf(firmware)} ELSE Version
DecodedAccel ==
  IF Head(answers).to = "accel" THEN {Accelerated(firmware)} ELSE SUBSET Acceleration

StartReply ==
  /\ Hear("start")
  /\ IF Said = "K" THEN Ask("check") ELSE EndNow("error")
  /\ UNCHANGED <<known, shown>>

(* What the command asks of a probe that speaks v, or a user of the        *)
(* library to start debugging with.  The versions inherit from each other: *)
(* the power query comes with v2, those for what is supported with v4.     *)
Query(v) ==
  \/ command \in {"jtag", "swd"} /\ Ask(command) /\ UNCHANGED shown
  \/ command = "archs" /\ v = "v4" /\ Ask("archs") /\ UNCHANGED shown
  \/ command = "archs" /\ v # "v4" /\ EndNow("ok") /\ shown' = "unsupported"
  \/ command = "power" /\ v \in {"v2", "v3", "v4"} /\ Ask("power") /\ UNCHANGED shown
  \/ command = "power" /\ v \notin {"v2", "v3", "v4"} /\ EndNow("error") /\ UNCHANGED shown

(* remote() makes the protocol object; that of v4 asks a question first.   *)
Connected(v) ==
  \/ v = "v4" /\ Ask("accel") /\ UNCHANGED shown
  \/ v # "v4" /\ Query(v)

(* Mutant: an error is taken for "not supported".                          *)
CheckReply_errorIsV0 ==
  /\ Hear("check")
  /\ \/ Said # "K" /\ version' = "v0" /\ Connected("v0")
     \/ /\ Said = "K"
        /\ version' \in Decoded
        /\ IF version' = "unknown"
           THEN EndNow("error") /\ UNCHANGED shown
           ELSE Connected(version')
  /\ UNCHANGED accelerations

CheckReply ==
  /\ Hear("check")
  /\ \/ Said = "N" /\ version' = "v0" /\ Connected("v0")
     \/ /\ Said = "K"
        /\ ~Decodes
        /\ EndNow("panic")
        /\ UNCHANGED <<version, shown>>
     \/ /\ Said = "K"
        /\ Decodes
        /\ version' \in Decoded
        /\ IF version' = "unknown"
           THEN EndNow("error") /\ UNCHANGED shown
           ELSE Connected(version')
     \/ Said \in {"P", "E"} /\ EndNow("error") /\ UNCHANGED <<version, shown>>
  /\ UNCHANGED accelerations

AccelReply ==
  /\ Hear("accel")
  /\ \/ Said = "K" /\ Decodes /\ accelerations' \in DecodedAccel /\ Query("v4")
     \/ Said = "K" /\ ~Decodes /\ EndNow("panic") /\ UNCHANGED <<accelerations, shown>>
     \/ Said # "K" /\ EndNow("error") /\ UNCHANGED <<accelerations, shown>>
  /\ UNCHANGED version

ArchsReply ==
  /\ Hear("archs")
  /\ \/ Said = "K" /\ Decodes /\ Ask("families") /\ shown' = "listed"
     \/ Said = "K" /\ ~Decodes /\ EndNow("panic") /\ UNCHANGED shown
     \/ Said = "N" /\ Ask("families") /\ shown' = "unsupported"
     \/ Said \in {"P", "E"} /\ EndNow("error") /\ UNCHANGED shown
  /\ UNCHANGED known

FamiliesReply ==
  /\ Hear("families")
  /\ \/ (Said = "N" \/ (Said = "K" /\ Decodes)) /\ EndNow("ok")
     \/ Said = "K" /\ ~Decodes /\ EndNow("panic")
     \/ Said \in {"P", "E"} /\ EndNow("error")
  /\ UNCHANGED <<known, shown>>

(* What answers another request may be too short to tell the power state.  *)
PowerReply ==
  /\ Hear("power")
  /\ \/ Said = "K" /\ EndNow("ok")
     \/ (Said # "K" \/ Head(answers).to # "power") /\ EndNow("error")
  /\ UNCHANGED <<known, shown>>

(* jtag_init and swd_init: only an error of the probe is one.              *)
CommsReply ==
  /\ Hear("jtag") \/ Hear("swd")
  /\ IF Said = "E" THEN EndNow("error") ELSE EndNow("ok")
  /\ UNCHANGED <<known, shown>>

Host ==
  \/ StartReply \/ CheckReply \/ AccelReply \/ ArchsReply \/ FamiliesReply
  \/ PowerReply \/ CommsReply \/ Timeout

Next == Host \/ Respond \/ Open \/ Kill

Spec == Init /\ [][Next]_vars
FairSpec == Spec /\ WF_vars(Host) /\ WF_vars(Respond)

-----------------------------------------------------------------------------
(* A session acts on the answer to what it asked, never on one that an     *)
(* earlier request or session left behind (bmd_rsp.rs:60-104).             *)
OwnAnswer == heard.to = heard.asked

(* A session that found a quiet line does, whatever happens in it or is    *)
(* left over from it: it never goes on after a request it gave up on.  So  *)
(* it unwraps no digit that is none, which only an answer to another       *)
(* request has (mod.rs:223-239).                                           *)
QuietHearsOwn == quiet => OwnAnswer /\ result # "panic"

VersionAgreed == version # "unknown" => version = VersionOf(firmware)
AsksWhatIsKnown == asked \in {"accel", "power"} => Knows(firmware, asked)
OffersWhatIsKnown ==
  asked \in {"archs", "families", "power", "jtag", "swd"} => Offered = Accelerated(firmware)
ListsWhatIsKnown ==
  (result = "ok" /\ command = "archs") => (shown = "listed" <=> firmware = "v4")

(* Such a session and the probe's firmware are of one mind: the version it *)
(* goes by is the one the firmware speaks; beyond the requests that find   *)
(* out, it asks nothing that the firmware does not know; the interfaces it *)
(* offers are those the firmware accelerates; and it names architectures   *)
(* exactly when the firmware can tell them (bmd_rsp.rs:81-100, what the    *)
(* implementations of serial/remote inherit, bmputil-cli.rs:411-430).      *)
AgreesWithFirmware ==
  quiet => VersionAgreed /\ AsksWhatIsKnown /\ OffersWhatIsKnown /\ ListsWhatIsKnown

(* Every session ends (bmd_rsp.rs:227-240).                                *)
SessionEnds == (asked # "none") ~> (asked = "none")
=============================================================================
