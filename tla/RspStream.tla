----------------------------- MODULE RspStream -----------------------------
(***************************************************************************)
(* What reading answers from a probe's serial port promises: each read     *)
(* gives the oldest answer the probe has sent and the host has not read,   *)
(* whole, or cut to what fits a message, or it fails.  A read that fails   *)
(* costs at most the answer it was in the middle of.                       *)
(***************************************************************************)
EXTENDS Sequences, Naturals

CONSTANTS
  Answers,  \* the answers a probe may send, sequences of bytes
  MaxLen    \* what fits a message

VARIABLES
  unread,   \* answers that were sent and have not been read
  result    \* outcome of the last read

vars == <<unread, result>>

None == [is |-> "none", bytes |-> <<>>]
Failed == [is |-> "failed", bytes |-> <<>>]
Got(a) == [is |-> "answer", bytes |-> a]

Cut(a) == IF Len(a) > MaxLen THEN SubSeq(a, 1, MaxLen) ELSE a

Init == unread = <<>> /\ result = None

Send ==
  /\ \E a \in Answers : unread' = Append(unread, a)
  /\ UNCHANGED result

Ask ==
  /\ result # None
  /\ result' = None
  /\ UNCHANGED unread

Read ==
  /\ result = None
  /\ unread # <<>>
  /\ result' = Got(Cut(Head(unread)))
  /\ unread' = Tail(unread)

Fail ==
  /\ result = None
  /\ result' = Failed
  /\ \/ UNCHANGED unread
     \/ unread # <<>> /\ unread' = Tail(unread)

Next == Send \/ Ask \/ Read \/ Fail

Spec == Init /\ [][Next]_vars
=============================================================================
