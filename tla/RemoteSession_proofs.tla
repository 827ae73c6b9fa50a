------------------------ MODULE RemoteSession_proofs ------------------------
(***************************************************************************)
(* A session that opens on a quiet line hears the answers to its own       *)
(* requests, with every fault: no digit is missing, the version is the     *)
(* firmware's and what it asks and prints is what the firmware knows.  If  *)
(* the probe answers in time or never, and nobody interrupts a command,    *)
(* every line is quiet.  On any line a session ends after a few steps.     *)
(***************************************************************************)
EXTENDS RemoteSession, SequenceTheorems, TLAPS

(* Every state of every behaviour has the types TypeOK gives it.           *)
THEOREM TypeCorrect == Spec => []TypeOK
<1> USE SessionAssumption DEF TypeOK
<1>1. Init => TypeOK
  BY DEF Init, Nothing, Request, Version, Command
<1>2. TypeOK /\ [Next]_vars => TypeOK'
  <2> SUFFICES ASSUME TypeOK, [Next]_vars PROVE TypeOK'
    OBVIOUS
  <2> USE DEF link, session, known
  <2>1. CASE Respond
    <3>1. Tail(todo) \in Seq(Request) /\ Head(todo) \in Request
      BY <2>1 DEF Respond
    <3>2. CASE UNCHANGED answers
      BY <2>1, <3>1, <3>2 DEF Respond
    <3>3. ASSUME NEW s \in Status, answers' = Append(answers, [to |-> Head(todo), status |-> s])
          PROVE  answers' \in Seq(Answer)
      <4>1. [to |-> Head(todo), status |-> s] \in Answer
        BY <3>1 DEF Answer
      <4> QED
        BY <3>3, <4>1
    <3>4. answers' \in Seq(Answer)
      BY <2>1, <3>2, <3>3 DEF Respond, Status
    <3> QED
      BY <2>1, <3>1, <3>4 DEF Respond
  <2>2. CASE Open
    <3>1. "start" \in Request /\ <<>> \in Seq(Answer)
      BY DEF Request
    <3>2. todo' \in Seq(Request) /\ answers' \in Seq(Answer)
      BY <2>2, <3>1 DEF Open
    <3>3. sessions' \in 0..MaxSessions
      BY <2>2 DEF Open
    <3> QED
      BY <2>2, <3>1, <3>2, <3>3 DEF Open, Nothing, Version
  <2>3. CASE Timeout \/ Kill
    <3>1. \A q \in Leftover : q \in Seq(Answer)
      <4>1. <<>> \in Seq(Answer)
        OBVIOUS
      <4> QED
        BY <4>1 DEF Leftover
    <3> QED
      BY <2>3, <3>1 DEF Timeout, Kill, End
  <2>4. ASSUME NEW r \in Request, Hear(r)
        PROVE  /\ Tail(answers) \in Seq(Answer)
               /\ heard' \in [asked : Request, to : Request]
               /\ UNCHANGED <<firmware, sessions, command, quiet>>
    <3>1. Head(answers) \in Answer /\ Tail(answers) \in Seq(Answer)
      BY <2>4 DEF Hear
    <3> QED
      BY <2>4, <3>1 DEF Hear, Answer
  <2>5. ASSUME NEW r \in Request, Ask(r), Tail(answers) \in Seq(Answer)
        PROVE  /\ todo' \in Seq(Request) /\ answers' \in Seq(Answer)
               /\ asked' \in Request /\ UNCHANGED result
    BY <2>5 DEF Ask
  <2>6. ASSUME NEW r \in {"ok", "error", "panic"}, EndNow(r), Tail(answers) \in Seq(Answer)
        PROVE  /\ todo' \in Seq(Request) /\ answers' \in Seq(Answer)
               /\ asked' = "none" /\ result' = r
    <3>1. <<>> \in Seq(Answer)
      OBVIOUS
    <3>2. answers' = Tail(answers) \/ answers' = <<>>
      BY <2>6 DEF EndNow, End
    <3> QED
      BY <2>6, <3>1, <3>2 DEF EndNow, End
  <2>7. ASSUME NEW v \in Version, Connected(v) \/ Query(v), Tail(answers) \in Seq(Answer)
        PROVE  /\ todo' \in Seq(Request) /\ answers' \in Seq(Answer)
               /\ asked' \in Request \cup {"none"}
               /\ result' \in {"none", "ok", "error", "killed", "panic"}
               /\ shown' \in {"none", "unsupported", "listed"}
    <3>1. \/ \E r \in {"accel", "archs", "power", "jtag", "swd"} : Ask(r) /\ UNCHANGED shown
          \/ \E r \in {"ok", "error"} : EndNow(r) /\ shown' \in {shown, "unsupported"}
      BY <2>7 DEF Connected, Query
    <3>2. {"accel", "archs", "power", "jtag", "swd"} \subseteq Request
      BY DEF Request
    <3> QED
      BY <2>5, <2>6, <2>7, <3>1, <3>2
  <2>8. CASE StartReply
    <3>1. "start" \in Request /\ "check" \in Request
      BY DEF Request
    <3> QED
      BY <2>4, <2>5, <2>6, <2>8, <3>1 DEF StartReply
  <2>9. CASE CheckReply
    <3>1. "check" \in Request
      BY DEF Request
    <3>2. \A v \in Decoded : v \in Version
      BY DEF Decoded, Version, VersionOf, Firmware
    <3>3. Hear("check") /\ Tail(answers) \in Seq(Answer)
      BY <2>4, <2>9, <3>1 DEF CheckReply
    <3>4. version' \in Version
      BY <2>9, <3>2 DEF CheckReply, Version
    <3>5. \/ \E v \in Version : Connected(v)
          \/ \E r \in {"error", "panic"} : EndNow(r) /\ UNCHANGED shown
      BY <2>9, <3>4 DEF CheckReply, Version
    <3>6. UNCHANGED accelerations
      BY <2>9 DEF CheckReply
    <3> QED
      BY <2>4, <2>6, <2>7, <3>1, <3>3, <3>4, <3>5, <3>6
  <2>10. CASE AccelReply
    <3>1. "accel" \in Request /\ "v4" \in Version
      BY DEF Request, Version
    <3>2. Hear("accel") /\ Tail(answers) \in Seq(Answer)
      BY <2>4, <2>10, <3>1 DEF AccelReply
    <3>3. \A a \in DecodedAccel : a \subseteq Acceleration
      BY DEF DecodedAccel, Accelerated, Acceleration
    <3>4. accelerations' \subseteq Acceleration
      BY <2>10, <3>3 DEF AccelReply
    <3> QED
      BY <2>4, <2>6, <2>7, <2>10, <3>1, <3>2, <3>4 DEF AccelReply
  <2>11. CASE ArchsReply
    <3>1. "archs" \in Request /\ "families" \in Request
      BY DEF Request
    <3>2. Hear("archs") /\ Tail(answers) \in Seq(Answer)
      BY <2>4, <2>11, <3>1 DEF ArchsReply
    <3> QED
      BY <2>4, <2>5, <2>6, <2>11, <3>1, <3>2 DEF ArchsReply
  <2>12. CASE FamiliesReply
    <3>1. "families" \in Request
      BY DEF Request
    <3> QED
      BY <2>4, <2>6, <2>12, <3>1 DEF FamiliesReply
  <2>13. CASE PowerReply
    <3>1. "power" \in Request
      BY DEF Request
    <3> QED
      BY <2>4, <2>6, <2>13, <3>1 DEF PowerReply
  <2>14. CASE CommsReply
    <3>1. "jtag" \in Request /\ "swd" \in Request
      BY DEF Request
    <3> QED
      BY <2>4, <2>6, <2>14, <3>1 DEF CommsReply
  <2>15. CASE UNCHANGED vars
    BY <2>15 DEF vars
  <2> QED
    BY <2>1, <2>2, <2>3, <2>8, <2>9, <2>10, <2>11, <2>12, <2>13, <2>14, <2>15 DEF Next, Host
<1> QED
  BY <1>1, <1>2, PTL DEF Spec
-----------------------------------------------------------------------------
(* On a line that was quiet when the session opened there is at most one   *)
(* request or one answer, and it is about what the session asks.           *)
LineInv ==
  /\ quiet => OwnAnswer
  /\ (quiet /\ asked # "none") =>
       \/ todo = <<asked>> /\ answers = <<>>
       \/ todo = <<>> /\ answers = <<>>
       \/ todo = <<>> /\ Len(answers) = 1 /\ answers[1].to = asked

(* What a session on a quiet line hears, and what that leaves.             *)
LEMMA HearsOwn ==
  ASSUME TypeOK, LineInv, quiet, NEW r \in Request, Hear(r)
  PROVE  /\ Head(answers).to = r
         /\ todo = <<>>
         /\ Tail(answers) = <<>>
         /\ heard' = [asked |-> r, to |-> r]
<1>1. todo = <<>> /\ Len(answers) = 1 /\ answers[1].to = r
  BY DEF LineInv, Hear, Request
<1>2. heard' = [asked |-> r, to |-> Head(answers).to] /\ answers # <<>>
  BY DEF Hear
<1>3. answers \in Seq(Answer)
  BY DEF TypeOK
<1>4. Head(answers) = answers[1] /\ Tail(answers) = <<>>
  <2>1. Len(answers) = 1
    BY <1>1
  <2>2. Tail(answers) \in Seq(Answer) /\ Len(Tail(answers)) = 0
    BY <1>2, <1>3, <2>1
  <2>3. Tail(answers) = <<>>
    BY <2>2, EmptySeq
  <2>4. Head(answers) = answers[1]
    BY <1>2, <1>3
  <2> QED
    BY <2>3, <2>4
<1> QED
  BY <1>1, <1>2, <1>4

(* How a session goes on from an answer: it asks one more thing or ends.   *)
GoesOn(r) ==
  /\ Hear(r)
  /\ (\E next \in Request : Ask(next)) \/ (\E how \in {"ok", "error", "panic"} : EndNow(how))

(* Every reply a session acts on makes it go on that way.                  *)
LEMMA RepliesGoOn ==
  ASSUME TypeOK, Host, ~Timeout
  PROVE  \E r \in Request : GoesOn(r)
<1> USE DEF GoesOn, Request
<1>1. CASE StartReply
  BY <1>1 DEF StartReply
<1>2. CASE CheckReply
  BY <1>2 DEF CheckReply, Connected, Query
<1>3. CASE AccelReply
  BY <1>3 DEF AccelReply, Query
<1>4. CASE ArchsReply
  BY <1>4 DEF ArchsReply
<1>5. CASE FamiliesReply
  BY <1>5 DEF FamiliesReply
<1>6. CASE PowerReply
  BY <1>6 DEF PowerReply
<1>7. CASE CommsReply
  BY <1>7 DEF CommsReply
<1> QED
  BY <1>1, <1>2, <1>3, <1>4, <1>5, <1>6, <1>7 DEF Host

(* LineInv is inductive, with every fault: a session that gives up on a    *)
(* request asks nothing more.                                              *)
LEMMA LineInductive == Spec => []LineInv
<1> USE DEF LineInv, OwnAnswer
<1>1. Init => LineInv
  BY DEF Init, Nothing
<1>2. TypeOK /\ LineInv /\ [Next]_vars => LineInv'
  <2> SUFFICES ASSUME TypeOK, LineInv, [Next]_vars PROVE LineInv'
    OBVIOUS
  <2>1. CASE Respond
    <3>1. CASE quiet /\ asked # "none"
      <4>1. todo = <<asked>> /\ answers = <<>>
        BY <2>1, <3>1 DEF Respond
      <4>2. Head(todo) = asked /\ Tail(todo) = <<>>
        BY <4>1
      <4>3. \/ answers' = <<>>
            \/ \E s \in Status : answers' = <<[to |-> asked, status |-> s]>>
        BY <2>1, <4>1, <4>2 DEF Respond, Status
      <4> QED
        BY <2>1, <3>1, <4>2, <4>3 DEF Respond, session
    <3> QED
      BY <2>1, <3>1 DEF Respond, session
  <2>2. CASE Open
    <3>1. CASE quiet'
      <4>1. todo = <<>> /\ answers' = <<>> /\ asked' = "start"
        BY <2>2, <3>1 DEF Open
      <4>2. todo' = <<asked'>>
        BY <2>2, <4>1 DEF Open
      <4> QED
        BY <2>2, <4>1, <4>2 DEF Open, Nothing
    <3> QED
      BY <3>1
  <2>3. CASE Timeout \/ Kill
    BY <2>3 DEF Timeout, Kill, End, session
  <2>4. CASE Host /\ ~Timeout
    <3>1. PICK r \in Request : GoesOn(r)
      BY <2>4, RepliesGoOn
    <3>2. UNCHANGED quiet
      BY <3>1 DEF GoesOn, Hear, session
    <3>3. CASE quiet
      <4>1. /\ todo = <<>> /\ Tail(answers) = <<>>
            /\ heard' = [asked |-> r, to |-> r]
        BY <3>1, <3>3, HearsOwn DEF GoesOn
      <4>2. ASSUME NEW next \in Request, Ask(next)
            PROVE  todo' = <<asked'>> /\ answers' = <<>>
        BY <4>1, <4>2 DEF Ask
      <4>3. ASSUME NEW how \in {"ok", "error", "panic"}, EndNow(how)
            PROVE  asked' = "none"
        BY <4>3 DEF EndNow, End
      <4> QED
        BY <3>1, <4>1, <4>2, <4>3 DEF GoesOn
    <3> QED
      BY <3>2, <3>3
  <2>5. CASE UNCHANGED vars
    BY <2>5 DEF vars, link, session
  <2> QED
    BY <2>1, <2>2, <2>3, <2>4, <2>5 DEF Next
<1> QED
  BY <1>1, <1>2, TypeCorrect, PTL DEF Spec

-----------------------------------------------------------------------------
(* What a session that found a quiet line knows of the firmware, at each   *)
(* of its requests and at its end.                                         *)
KnowsFirmware ==
  /\ asked # "none" => result = "none"
  /\ (asked # "none" /\ answers # <<>>) =>
       /\ Said = "K" => Knows(firmware, asked)
       /\ Said = "N" => ~Knows(firmware, asked)
  /\ result # "panic"
  /\ version # "unknown" => version = VersionOf(firmware)
  /\ asked \in {"accel", "archs", "families"} => version = "v4"
  /\ asked = "power" => version \in {"v2", "v3", "v4"} /\ command = "power"
  /\ asked \in {"jtag", "swd"} => command = asked
  /\ asked \in {"archs", "families", "power", "jtag", "swd"} => Offered = Accelerated(firmware)
  /\ asked = "families" => (shown = "listed" <=> firmware = "v4")
  /\ (result = "ok" /\ command = "archs") => (shown = "listed" <=> firmware = "v4")

QuietInv == quiet => KnowsFirmware

(* Whatever request a session goes on to from the version it knows, what   *)
(* it knows of the firmware stays true.                                    *)
LEMMA QueryKeeps ==
  ASSUME TypeOK, asked # "none", result = "none", Tail(answers) = <<>>,
         UNCHANGED <<firmware, command>>,
         NEW v \in Version, v # "unknown", v = VersionOf(firmware), version' = v,
         \/ Connected(v)
         \/ Query(v) /\ (v = "v4" => accelerations' = Accelerated(firmware))
  PROVE  KnowsFirmware'
<1> USE DEF KnowsFirmware, Said, EndNow, End, Ask, Version, TypeOK
<1>1. CASE Query(v) /\ (v = "v4" => accelerations' = Accelerated(firmware))
  <2>1. v # "v4" => firmware # "v4"
    BY DEF VersionOf
  <2>2. answers' = <<>>
    BY <1>1 DEF Query
  <2>3. Offered' = Accelerated(firmware)'
    BY <1>1 DEF Offered, OfferedByVersion, Accelerated, VersionOf, Firmware
  <2> QED
    BY <1>1, <2>1, <2>2, <2>3 DEF Query
<1>2. CASE v = "v4" /\ Ask("accel") /\ UNCHANGED shown
  BY <1>2
<1> QED
  BY <1>1, <1>2 DEF Connected

(* QuietInv is inductive.                                                  *)
LEMMA QuietInductive == Spec => []QuietInv
<1>1. Init => QuietInv
  BY DEF Init, QuietInv, KnowsFirmware, Said
<1>2. TypeOK /\ LineInv /\ QuietInv /\ [Next]_vars => QuietInv'
  <2> SUFFICES ASSUME TypeOK, LineInv, QuietInv, [Next]_vars, quiet'
               PROVE KnowsFirmware'
    BY DEF QuietInv
  <2>0. UNCHANGED <<firmware, known>> =>
          /\ UNCHANGED <<version, accelerations>>
          /\ Offered' = Offered /\ Accelerated(firmware)' = Accelerated(firmware)
          /\ VersionOf(firmware)' = VersionOf(firmware)
    BY DEF Offered, OfferedByVersion, known
  <2>1. CASE Respond
    <3>1. quiet /\ KnowsFirmware
      BY <2>1 DEF Respond, session, QuietInv
    <3>2. CASE asked = "none"
      BY <2>0, <2>1, <3>1, <3>2 DEF Respond, session, KnowsFirmware
    <3>3. CASE asked # "none"
      <4>1. todo = <<asked>> /\ answers = <<>>
        BY <2>1, <3>1, <3>3 DEF Respond, LineInv
      <4>2. Head(todo) = asked
        BY <4>1
      <4>3. \/ answers' = <<>>
            \/ \E s \in {IF Knows(firmware, asked) THEN "K" ELSE "N"} \cup {"E", "P"} :
                 answers' = <<[to |-> asked, status |-> s]>>
        BY <2>1, <4>1, <4>2 DEF Respond
      <4>4. answers' # <<>> => /\ Said' = "K" => Knows(firmware, asked)
                               /\ Said' = "N" => ~Knows(firmware, asked)
        BY <4>3 DEF Said
      <4>5. UNCHANGED <<firmware, asked, known, shown, result, command>>
        BY <2>1 DEF Respond, session, known
      <4> QED
        BY <2>0, <3>1, <4>4, <4>5 DEF KnowsFirmware
    <3> QED
      BY <3>2, <3>3
  <2>2. CASE Open
    BY <2>2 DEF Open, KnowsFirmware, Said
  <2>3. CASE Timeout \/ Kill
    BY <2>0, <2>3 DEF Timeout, Kill, End, session, QuietInv, KnowsFirmware
  <2>4. CASE Host /\ ~Timeout
    <3>1. PICK r \in Request : GoesOn(r)
      BY <2>4, RepliesGoOn
    <3>2. UNCHANGED <<quiet, firmware, command>>
      BY <3>1 DEF GoesOn, Hear, session
    <3>3. quiet /\ KnowsFirmware
      BY <3>2 DEF QuietInv
    <3>4. /\ Head(answers).to = r /\ asked = r /\ asked # "none" /\ answers # <<>>
          /\ Tail(answers) = <<>>
      BY <3>1, <3>3, HearsOwn DEF GoesOn, Hear, Request
    <3>5. answers' = <<>>
      BY <3>1, <3>4 DEF GoesOn, Ask, EndNow, End
    <3>6. asked # "start" => Decodes
      BY <3>4 DEF Decodes
    <3>7. result = "none"
      BY <3>3, <3>4 DEF KnowsFirmware
    <3> USE DEF Hear, Ask, EndNow, End
    <3>8. CASE StartReply
      BY <2>0, <3>2, <3>3, <3>5, <3>7, <3>8 DEF StartReply, KnowsFirmware
    <3>9. CASE CheckReply
      <4>1. asked = "check" /\ Head(answers).to = "check"
        BY <3>4, <3>9 DEF CheckReply
      <4>2. CASE Said = "N"
        <5>1. firmware = "v0"
          BY <3>3, <3>4, <4>1, <4>2 DEF KnowsFirmware, Knows
        <5>2. version' = "v0" /\ Connected("v0")
          BY <3>9, <4>2 DEF CheckReply
        <5> QED
          BY <3>2, <3>4, <3>7, <5>1, <5>2, QueryKeeps DEF VersionOf, Version
      <4>3. CASE Said = "K"
        <5>1. version' = VersionOf(firmware)
          BY <3>6, <3>9, <4>1, <4>3 DEF CheckReply, Decoded
        <5>2. CASE version' = "unknown"
          BY <3>2, <3>3, <3>5, <3>6, <3>7, <3>9, <4>1, <4>3, <5>2
             DEF CheckReply, KnowsFirmware, VersionOf
        <5>3. CASE version' # "unknown"
          <6>1. Connected(version')
            BY <3>6, <3>9, <4>1, <4>3, <5>3 DEF CheckReply
          <6>2. version' \in Version
            BY <5>1 DEF TypeOK, VersionOf, Version, Firmware
          <6> QED
            BY <3>2, <3>4, <3>7, <5>1, <5>3, <6>1, <6>2, QueryKeeps
        <5> QED
          BY <5>2, <5>3
      <4>4. CASE Said \notin {"K", "N"}
        BY <3>2, <3>3, <3>5, <3>7, <3>9, <4>4 DEF CheckReply, KnowsFirmware, VersionOf
      <4> QED
        BY <4>2, <4>3, <4>4
    <3>10. CASE AccelReply
      <4>1. asked = "accel" /\ version = "v4" /\ version = VersionOf(firmware)
        BY <3>3, <3>10 DEF AccelReply, KnowsFirmware
      <4>2. version' = "v4"
        BY <3>10, <4>1 DEF AccelReply
      <4>3. CASE accelerations' \in DecodedAccel /\ Query("v4")
        <5>1. accelerations' = Accelerated(firmware)
          BY <3>4, <4>1, <4>3 DEF DecodedAccel
        <5> QED
          BY <3>2, <3>4, <3>7, <4>1, <4>2, <4>3, <5>1, QueryKeeps DEF Version
      <4>4. CASE EndNow("error") /\ UNCHANGED shown
        BY <3>2, <3>3, <3>5, <4>2, <4>1, <4>4 DEF KnowsFirmware, VersionOf
      <4> QED
        BY <3>6, <3>10, <4>1, <4>3, <4>4 DEF AccelReply
    <3>11. CASE ArchsReply
      <4>1. /\ asked = "archs" /\ version = "v4"
            /\ Said = "K" => firmware = "v4"
            /\ Said = "N" => firmware # "v4"
        BY <3>3, <3>4, <3>11 DEF ArchsReply, KnowsFirmware, Knows
      <4> QED
        BY <2>0, <3>2, <3>3, <3>5, <3>6, <3>7, <3>11, <4>1 DEF ArchsReply, KnowsFirmware
    <3>12. CASE FamiliesReply
      BY <2>0, <3>2, <3>3, <3>4, <3>5, <3>6, <3>12 DEF FamiliesReply, KnowsFirmware
    <3>13. CASE PowerReply
      BY <2>0, <3>2, <3>3, <3>4, <3>5, <3>13 DEF PowerReply, KnowsFirmware
    <3>14. CASE CommsReply
      BY <2>0, <3>2, <3>3, <3>4, <3>5, <3>14 DEF CommsReply, KnowsFirmware
    <3> QED
      BY <2>4, <3>8, <3>9, <3>10, <3>11, <3>12, <3>13, <3>14 DEF Host
  <2>5. CASE UNCHANGED vars
    BY <2>0, <2>5 DEF vars, link, session, Said, QuietInv, KnowsFirmware
  <2> QED
    BY <2>1, <2>2, <2>3, <2>4, <2>5 DEF Next, Host
<1> QED
  BY <1>1, <1>2, TypeCorrect, LineInductive, PTL DEF Spec

(* A session that found a quiet line acts on no answer but its own, and    *)
(* none of these is without its digits.                                    *)
THEOREM QuietSessionsHearOwn == Spec => []QuietHearsOwn
<1>1. LineInv /\ QuietInv => QuietHearsOwn
  BY DEF LineInv, QuietInv, KnowsFirmware, QuietHearsOwn
<1> QED
  BY <1>1, LineInductive, QuietInductive, PTL

(* Such a session and the firmware are of one mind about the version, the  *)
(* requests, the interfaces and what is printed (bmd_rsp.rs:81-100,        *)
(* serial/remote, bmputil-cli.rs:411-430).                                 *)
THEOREM QuietSessionsAgree == Spec => []AgreesWithFirmware
<1>1. TypeOK /\ QuietInv => AgreesWithFirmware
  BY DEF TypeOK, QuietInv, KnowsFirmware, AgreesWithFirmware, VersionAgreed, AsksWhatIsKnown,
     OffersWhatIsKnown, ListsWhatIsKnown, Knows, VersionOf, Firmware
<1> QED
  BY <1>1, TypeCorrect, QuietInductive, PTL

-----------------------------------------------------------------------------
(* With a probe that answers in time or never, and commands that are not   *)
(* interrupted, nothing is left on the line between sessions.              *)
PromptInv ==
  /\ quiet
  /\ asked = "none" => todo = <<>> /\ answers = <<>>

(* With such a probe every session acts on its own answers.                *)
THEOREM PromptSessionsHearOwn ==
  ASSUME Faults \cap {"late", "kill"} = {} PROVE Spec => []OwnAnswer
<1>1. Init => PromptInv
  BY DEF Init, PromptInv
<1>2. TypeOK /\ LineInv /\ PromptInv /\ [Next]_vars => PromptInv'
  <2> SUFFICES ASSUME TypeOK, LineInv, PromptInv, [Next]_vars PROVE PromptInv'
    OBVIOUS
  <2> USE DEF PromptInv
  <2>1. CASE Respond
    BY <2>1 DEF Respond, session
  <2>2. CASE Open
    BY <2>2 DEF Open
  <2>3. CASE Timeout
    BY <2>3 DEF Timeout, End, Leftover, session
  <2>4. CASE Kill
    BY <2>4 DEF Kill
  <2>5. CASE Host /\ ~Timeout
    <3>1. PICK r \in Request : GoesOn(r)
      BY <2>5, RepliesGoOn
    <3>2. todo = <<>> /\ Tail(answers) = <<>>
      BY <3>1, HearsOwn DEF GoesOn
    <3> QED
      BY <3>1, <3>2 DEF GoesOn, Hear, session, Ask, EndNow, End, Request
  <2>6. CASE UNCHANGED vars
    BY <2>6 DEF vars, link, session
  <2> QED
    BY <2>1, <2>2, <2>3, <2>4, <2>5, <2>6 DEF Next
<1>3. PromptInv /\ QuietHearsOwn => OwnAnswer
  BY DEF PromptInv, QuietHearsOwn
<1> QED
  BY <1>1, <1>2, <1>3, TypeCorrect, LineInductive, QuietSessionsHearOwn, PTL DEF Spec
-----------------------------------------------------------------------------
(* How far a request is from the end of a session, whatever that is for.   *)
Ahead(request) ==
  CASE request = "start" -> 5
    [] request = "check" -> 4
    [] request = "accel" -> 3
    [] request = "archs" -> 2
    [] request \in {"families", "power", "jtag", "swd"} -> 1
    [] request = "none" -> 0

(* How many steps the session and the probe can take at most before the    *)
(* session has ended and nothing is on the line any more.                  *)
StepsLeft == 2 * Ahead(asked) + 2 * Len(todo) + Len(answers)

Advances == StepsLeft' \in 0..StepsLeft - 1

(* A reply brings a session nearer to its end: it never asks again what it *)
(* has asked before.                                                       *)
MovesOn ==
  /\ asked # "none" /\ answers # <<>>
  /\ \/ \E r \in Request : Ask(r) /\ Ahead(r) < Ahead(asked)
     \/ \E how \in {"ok", "error", "panic"} : EndNow(how)

LEMMA RepliesMoveOn == Host /\ ~Timeout => MovesOn
<1> SUFFICES ASSUME Host, ~Timeout PROVE MovesOn
  OBVIOUS
<1> USE DEF MovesOn, Request, Ahead, Hear
<1>1. CASE StartReply
  BY <1>1 DEF StartReply
<1>2. CASE CheckReply
  <2>1. /\ asked = "check" /\ answers # <<>>
        /\ \/ \E r \in {"accel", "archs", "power", "jtag", "swd"} : Ask(r)
           \/ \E how \in {"ok", "error", "panic"} : EndNow(how)
    BY <1>2 DEF CheckReply, Connected, Query
  <2> QED
    BY <2>1
<1>3. CASE AccelReply
  <2>1. /\ asked = "accel" /\ answers # <<>>
        /\ \/ \E r \in {"archs", "power", "jtag", "swd"} : Ask(r)
           \/ \E how \in {"ok", "error", "panic"} : EndNow(how)
    BY <1>3 DEF AccelReply, Query
  <2> QED
    BY <2>1
<1>4. CASE ArchsReply
  BY <1>4 DEF ArchsReply
<1>5. CASE FamiliesReply
  BY <1>5 DEF FamiliesReply
<1>6. CASE PowerReply
  BY <1>6 DEF PowerReply
<1>7. CASE CommsReply
  BY <1>7 DEF CommsReply
<1> QED
  BY <1>1, <1>2, <1>3, <1>4, <1>5, <1>6, <1>7 DEF Host

(* Every session ends after at most a dozen steps of its own and of the    *)
(* probe, with two more for every request and one for every answer that is *)
(* still on the line when it opens: no answer, not even one to another     *)
(* question, makes it ask again what it has asked (bmd_rsp.rs:60-104, what *)
(* the implementations of serial/remote inherit).                          *)
THEOREM SessionStepsBounded ==
  Spec => [][Advances \/ (Open /\ StepsLeft' \in 0..StepsLeft + 12)]_vars
<1>1. TypeOK /\ TypeOK' /\ [Next]_vars =>
        [Advances \/ (Open /\ StepsLeft' \in 0..StepsLeft + 12)]_vars
  <2> SUFFICES ASSUME TypeOK, TypeOK', Next
               PROVE  Advances \/ (Open /\ StepsLeft' \in 0..StepsLeft + 12)
    OBVIOUS
  <2>0. /\ todo \in Seq(Request) /\ answers \in Seq(Answer)
        /\ todo' \in Seq(Request) /\ answers' \in Seq(Answer)
        /\ asked \in Request \cup {"none"} /\ asked' \in Request \cup {"none"}
    BY DEF TypeOK
  <2>1. /\ Len(todo) \in Nat /\ Len(answers) \in Nat
        /\ Len(todo') \in Nat /\ Len(answers') \in Nat
    BY <2>0
  <2>2. Ahead(asked) \in 0..5 /\ Ahead(asked') \in 0..5 /\ (asked # "none" => Ahead(asked) > 0)
    BY <2>0 DEF Ahead, Request
  <2>3. ASSUME NEW r \in Request
        PROVE  Len(Append(todo, r)) = Len(todo) + 1
    BY <2>0
  <2>4. ASSUME answers # <<>> PROVE Len(Tail(answers)) = Len(answers) - 1
    BY <2>0, <2>4
  <2>5. Len(<<>>) = 0
    OBVIOUS
  <2> DEFINE Before == 2 * Ahead(asked) + 2 * Len(todo) + Len(answers)
             After == 2 * Ahead(asked') + 2 * Len(todo') + Len(answers')
  <2>6. StepsLeft = Before /\ StepsLeft' = After
    BY DEF StepsLeft
  <2>a. Before \in Nat /\ After \in Nat
    <3>1. /\ Ahead(asked) \in Nat /\ Ahead(asked') \in Nat
          /\ Len(todo) \in Nat /\ Len(answers) \in Nat
          /\ Len(todo') \in Nat /\ Len(answers') \in Nat
      BY <2>1, <2>2
    <3>2. \A x, y, z \in Nat : 2 * x + 2 * y + z \in Nat
      OBVIOUS
    <3> QED
      BY <3>1, <3>2, Zenon
  <2>b. ASSUME After < Before PROVE Advances
    <3> HIDE DEF Before, After
    <3> QED
      BY <2>6, <2>a, <2>b DEF Advances
  <2>7. CASE Respond
    <3>1. /\ asked' = asked /\ Len(todo') = Len(todo) - 1
          /\ \/ Len(answers') = Len(answers)
             \/ Len(answers') = Len(answers) + 1
      <4>1. todo # <<>> /\ todo' = Tail(todo) /\ asked' = asked
        BY <2>7 DEF Respond
      <4>2. UNCHANGED answers \/ \E a : answers' = Append(answers, a)
        BY <2>7 DEF Respond
      <4>3. Len(todo') = Len(todo) - 1
        BY <2>0, <4>1
      <4>4. ASSUME NEW a, answers' = Append(answers, a)
            PROVE  Len(answers') = Len(answers) + 1
        BY <2>0, <4>4
      <4> QED
        BY <4>1, <4>2, <4>3, <4>4
    <3> QED
      BY <2>1, <2>2, <2>b, <3>1
  <2>8. CASE Timeout \/ Kill
    <3>1. /\ asked # "none" /\ asked' = "none" /\ UNCHANGED todo
          /\ answers' \in {answers, <<>>}
      BY <2>8 DEF Timeout, Kill, End, Leftover
    <3>2. Ahead(asked') = 0
      BY <3>1 DEF Ahead
    <3>3. Len(answers') <= Len(answers)
      BY <2>1, <2>5, <3>1
    <3> QED
      BY <2>1, <2>2, <2>b, <3>1, <3>2, <3>3
  <2>9. CASE Host /\ ~Timeout
    <3>1. MovesOn
      BY <2>9, RepliesMoveOn
    <3>2. ASSUME NEW r \in Request, Ask(r), Ahead(r) < Ahead(asked)
          PROVE  Advances
      <4>1. /\ asked' = r /\ Len(todo') = Len(todo) + 1 /\ Len(answers') = Len(answers) - 1
        BY <2>3, <2>4, <3>1, <3>2 DEF Ask, MovesOn
      <4> QED
        BY <2>1, <2>2, <2>b, <3>2, <4>1
    <3>3. ASSUME NEW how, EndNow(how) PROVE Advances
      <4>1. asked # "none" /\ asked' = "none" /\ UNCHANGED todo
            /\ (answers' = Tail(answers) \/ answers' = <<>>)
        BY <3>1, <3>3 DEF EndNow, End, MovesOn
      <4>2. Ahead(asked') = 0
        BY <4>1 DEF Ahead
      <4>3. Len(answers') <= Len(answers)
        BY <2>1, <2>4, <2>5, <3>1, <4>1 DEF MovesOn
      <4> QED
        BY <2>1, <2>2, <2>b, <4>1, <4>2, <4>3
    <3> QED
      BY <3>1, <3>2, <3>3 DEF MovesOn
  <2>10. CASE Open
    <3>1. /\ asked = "none" /\ asked' = "start" /\ todo' = Append(todo, "start")
          /\ answers' \in {answers, <<>>}
      BY <2>10 DEF Open
    <3>2. Ahead(asked) = 0 /\ Ahead(asked') = 5
      BY <3>1 DEF Ahead
    <3>3. Len(answers') <= Len(answers)
      BY <2>1, <2>5, <3>1
    <3>4. Len(todo') = Len(todo) + 1
      BY <2>3, <3>1 DEF Request
    <3> QED
      BY <2>1, <2>6, <2>10, <3>2, <3>3, <3>4
  <2> QED
    BY <2>7, <2>8, <2>9, <2>10 DEF Next, Host
<1> QED
  BY <1>1, TypeCorrect, PTL DEF Spec
=============================================================================
