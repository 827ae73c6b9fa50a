----------------------------- MODULE RspReader -----------------------------
(***************************************************************************)
(* BmdRspInterface::buffer_read and read_more_data of                      *)
(* src/serial/bmd_rsp.rs: answers "&payload#" come in over a serial port   *)
(* in pieces of any size, are read into a buffer with two cursors and      *)
(* given to the caller one at a time.                                      *)
(*                                                                         *)
(* Bytes are the two markers and whatever else an answer is made of.       *)
(***************************************************************************)
EXTENDS Integers, Sequences

CONSTANTS
  BufSize,         \* REMOTE_MAX_MSG_SIZE: of the read buffer and a message
  Data,            \* bytes other than the markers
  MaxPayload,      \* longest payload of an answer
  MaxAnswers,      \* bound: answers the probe sends
  Noise,           \* what may be on the wire before the first answer
  Hangup,          \* whether a read may return no bytes (the probe is gone)
  OverflowChecks   \* whether the build panics on integer overflow

Resp == "&"    \* REMOTE_RESP
Eom  == "#"    \* REMOTE_EOM
Nul  == "0"

None == [is |-> "none", bytes |-> <<>>]
Failed == [is |-> "failed", bytes |-> <<>>]
Got(a) == [is |-> "answer", bytes |-> a]

Payloads == UNION {[1..n -> Data] : n \in 0..MaxPayload}
Byte == Data \cup {Resp, Eom, Nul}

ASSUME ReaderAssumption ==
  /\ BufSize \in Nat \ {0}
  /\ MaxPayload \in Nat
  /\ MaxAnswers \in Nat
  /\ {Resp, Eom, Nul} \cap Data = {}
  /\ Noise \subseteq Seq(Data \cup {Eom})
  /\ Hangup \in BOOLEAN
  /\ OverflowChecks \in BOOLEAN

VARIABLES
  wire,       \* bytes sent and not yet read from the port
  sent,       \* number of answers sent
  unread,     \* history: answers sent and not yet returned to a caller
  pc,         \* where buffer_read is
  readBuf,    \* read_buffer
  fullness,   \* read_buffer_fullness
  offset,     \* read_buffer_offset
  message,    \* the first bytes of buffer, as many as were collected
  result      \* what the last call returned

port == <<wire, sent>>
cursors == <<readBuf, fullness, offset>>
vars == <<port, unread, pc, cursors, message, result>>

TypeOK ==
  /\ wire \in Seq(Byte)
  /\ sent \in 0..MaxAnswers
  /\ unread \in Seq(Payloads)
  /\ pc \in {"idle", "drain", "scan", "collect", "copy", "panic"}
  /\ readBuf \in [0..BufSize - 1 -> Byte]
  /\ fullness \in 0..BufSize
  /\ offset \in 0..BufSize
  /\ message \in Seq(Byte)
  /\ Len(message) <= BufSize
  /\ result \in {None, Failed} \cup [is : {"answer"}, bytes : Seq(Byte)]

Init ==
  /\ wire \in Noise
  /\ sent = 0
  /\ unread = <<>>
  /\ pc = "idle"
  /\ readBuf = [i \in 0..BufSize - 1 |-> Nul]
  /\ fullness = 0
  /\ offset = 0
  /\ message = <<>>
  /\ result = None

-----------------------------------------------------------------------------
(* The probe answers a request.                                            *)
Send ==
  /\ sent < MaxAnswers
  /\ \E a \in Payloads :
       /\ wire' = wire \o <<Resp>> \o a \o <<Eom>>
       /\ unread' = Append(unread, a)
  /\ sent' = sent + 1
  /\ UNCHANGED <<pc, cursors, message, result>>

(* A caller asks for the next answer.                                      *)
Call ==
  /\ pc = "idle"
  /\ pc' = "drain"
  /\ message' = <<>>
  /\ result' = None
  /\ UNCHANGED <<port, unread, cursors>>

Panic ==
  /\ pc' = "panic"
  /\ UNCHANGED <<port, unread, cursors, message, result>>

Return(r, rest) ==
  /\ pc' = "idle"
  /\ result' = r
  /\ unread' = rest

Rest == IF unread = <<>> THEN <<>> ELSE Tail(unread)

-----------------------------------------------------------------------------
(* Mutant: the end of the buffer is noticed one byte late.                 *)
Empty_late == offset > fullness

Empty == offset = fullness

(* Mutant: what comes in is counted on top of what came in before.         *)
Refill_append ==
  /\ pc \in {"drain", "collect"}
  /\ Empty
  /\ \E n \in 1..BufSize :
       /\ n <= Len(wire)
       /\ readBuf' = [i \in 0..BufSize - 1 |->
                        IF i < n THEN wire[i + 1] ELSE readBuf[i]]
       /\ fullness' = fullness + n
       /\ wire' = SubSeq(wire, n + 1, Len(wire))
  /\ offset' = 0
  /\ pc' = IF pc = "drain" THEN "scan" ELSE "copy"
  /\ UNCHANGED <<sent, unread, message, result>>

(* Mutant: the cursor is not taken back to the start of the buffer.        *)
Refill_keepOffset ==
  /\ pc \in {"drain", "collect"}
  /\ Empty
  /\ \E n \in 1..BufSize :
       /\ n <= Len(wire)
       /\ readBuf' = [i \in 0..BufSize - 1 |->
                        IF i < n THEN wire[i + 1] ELSE readBuf[i]]
       /\ fullness' = n
       /\ wire' = SubSeq(wire, n + 1, Len(wire))
  /\ pc' = IF pc = "drain" THEN "scan" ELSE "copy"
  /\ UNCHANGED <<sent, offset, unread, message, result>>

(* read_more_data: the port has some bytes within two seconds, or the call *)
(* fails, and buffer_read with it.  What comes in overwrites the start of  *)
(* the buffer and leaves the rest as it was.                               *)
Refill ==
  /\ pc \in {"drain", "collect"}
  /\ Empty
  /\ \E n \in (IF Hangup /\ wire = <<>> THEN {0} ELSE {}) \cup 1..BufSize :
       /\ n <= Len(wire)
       /\ readBuf' = [i \in 0..BufSize - 1 |->
                        IF i < n THEN wire[i + 1] ELSE readBuf[i]]
       /\ fullness' = n
       /\ offset' = 0
       /\ wire' = SubSeq(wire, n + 1, Len(wire))
  /\ pc' = IF pc = "drain" THEN "scan" ELSE "copy"
  /\ UNCHANGED <<sent, unread, message, result>>

ReadFails ==
  /\ pc \in {"drain", "collect"}
  /\ Empty
  /\ Return(Failed, IF pc = "drain" THEN unread ELSE Rest)
  /\ UNCHANGED <<port, cursors, message>>

(* Mutant: the cursor stays on a byte that starts no answer.               *)
Scan_stuck ==
  /\ pc = "scan" \/ (pc = "drain" /\ ~Empty)
  /\ IF offset = BufSize
     THEN Panic
     ELSE /\ offset' = IF readBuf[offset] = Resp THEN offset + 1 ELSE offset
          /\ pc' = IF readBuf[offset] = Resp THEN "collect" ELSE "drain"
          /\ UNCHANGED <<port, unread, readBuf, fullness, message, result>>

(* One turn of the first loop: a byte is looked at, until it is the marker *)
(* an answer starts with.                                                  *)
Scan ==
  /\ pc = "scan" \/ (pc = "drain" /\ ~Empty)
  /\ IF offset = BufSize
     THEN Panic
     ELSE /\ offset' = offset + 1
          /\ pc' = IF readBuf[offset] = Resp THEN "collect" ELSE "drain"
          /\ UNCHANGED <<port, unread, readBuf, fullness, message, result>>

(* n bytes at the cursor reach to the end of the answer, of what is in the *)
(* buffer or of what fits the message, whichever comes first.              *)
IsPiece(n) ==
  /\ n <= BufSize - Len(message)
  /\ \A k \in 0..n - 2 : readBuf[offset + k] # Eom
  /\ \/ readBuf[offset + n - 1] = Eom
     \/ n = BufSize - Len(message)
     \/ offset + n = fullness

Piece(n) == [k \in 1..n |-> readBuf[offset + k - 1]]

(* One turn of the second loop.  An empty piece makes response_length - 1  *)
(* wrap: the build panics, or offset comes out as it was, unless it is 0   *)
(* and the index that follows is out of bounds.                            *)
CopyNothing ==
  IF OverflowChecks \/ message = <<>>
  THEN Panic
  ELSE /\ pc' = "collect"
       /\ UNCHANGED <<port, unread, cursors, message, result>>

(* Mutant: the end of an answer throws away what came in after it.         *)
CopyPiece_dropRest(n) ==
  /\ IsPiece(n)
  /\ IF readBuf[offset + n - 1] = Eom
     THEN offset' = fullness /\ message' = message \o Piece(n - 1)
     ELSE offset' = offset + n /\ message' = message \o Piece(n)
  /\ IF readBuf[offset + n - 1] = Eom \/ Len(message') = BufSize
     THEN Return(Got(message'), Rest)
     ELSE pc' = "collect" /\ UNCHANGED <<unread, result>>
  /\ UNCHANGED <<port, readBuf, fullness>>

(* The marker at the end of an answer is passed over, not returned.        *)
CopyPiece(n) ==
  /\ IsPiece(n)
  /\ offset' = offset + n
  /\ message' = message \o Piece(IF readBuf[offset + n - 1] = Eom THEN n - 1 ELSE n)
  /\ IF readBuf[offset + n - 1] = Eom \/ Len(message') = BufSize
     THEN Return(Got(message'), Rest)
     ELSE pc' = "collect" /\ UNCHANGED <<unread, result>>
  /\ UNCHANGED <<port, readBuf, fullness>>

Copy ==
  /\ pc = "copy" \/ (pc = "collect" /\ ~Empty)
  /\ IF offset < fullness
     THEN \E n \in 1..fullness - offset : CopyPiece(n)
     ELSE CopyNothing

BufferRead == Refill \/ ReadFails \/ Scan \/ Copy

Next == Send \/ Call \/ BufferRead

Spec == Init /\ [][Next]_vars
FairSpec == Spec /\ WF_vars(BufferRead)

-----------------------------------------------------------------------------
(* buffer_read never indexes out of bounds nor wraps around: both cursors  *)
(* and the message stay within their arrays (bmd_rsp.rs:123-173).          *)
NeverPanics == pc # "panic"

(* Only bytes of the last read are looked at, never older ones that are    *)
(* still in the buffer (bmd_rsp.rs:130-136, 142-158).                      *)
ReadsFresh == (pc \in {"scan", "copy"} => offset < fullness) /\ offset <= fullness

Stream == INSTANCE RspStream WITH
  Answers <- Payloads, MaxLen <- BufSize

(* Answers come out of buffer_read whole, once and in the order they were  *)
(* sent, whatever pieces they came in and whichever calls timed out.       *)
ImplementsStream == Stream!Spec

(* A call that found an answer or ran out of bytes returns: the two loops  *)
(* end (bmd_rsp.rs:128-168).                                               *)
ReadEnds == (pc # "idle") ~> (pc = "idle")
=============================================================================
