-------------------------- MODULE RspReader_proofs --------------------------
(***************************************************************************)
(* For every size of the buffer, every payload and every way the bytes     *)
(* come in, as long as a port that has something to read gives at least    *)
(* one byte: the cursors of BmdRspInterface stay within their arrays, and  *)
(* what a call returns is the oldest answer, whole or cut to a message.    *)
(*                                                                         *)
(* The second rests on StreamInv: the bytes in the buffer and on the wire  *)
(* are the answers nobody has read, one after the other, behind what is    *)
(* left of the one that is being read, or behind bytes none starts in.     *)
(***************************************************************************)
EXTENDS RspReader, SequenceTheorems, TLAPS

(* A piece of the buffer is a sequence of bytes of the length it says.     *)
LEMMA PieceType ==
  ASSUME readBuf \in [0..BufSize - 1 -> Byte], offset \in Nat, BufSize \in Nat,
         NEW n \in Nat, offset + n <= BufSize
  PROVE  Piece(n) \in Seq(Byte) /\ Len(Piece(n)) = n
<1>1. \A k \in 1..n : readBuf[offset + k - 1] \in Byte
  OBVIOUS
<1>2. Piece(n) \in [1..n -> Byte]
  BY <1>1 DEF Piece
<1> QED
  BY <1>2, SMT DEF Piece

(* Every state of every behaviour has the types TypeOK gives it.           *)
THEOREM TypeCorrect == Spec => []TypeOK
<1> USE ReaderAssumption
<1>1. Init => TypeOK
  <2> SUFFICES ASSUME Init PROVE TypeOK
    OBVIOUS
  <2>1. wire \in Seq(Byte)
    <3>1. \A w \in Seq(Data \cup {Eom}) : w \in Seq(Byte)
      BY DEF Byte
    <3> QED
      BY <3>1 DEF Init
  <2> QED
    BY <2>1 DEF Init, TypeOK, Byte
<1>2. TypeOK /\ [Next]_vars => TypeOK'
  <2> SUFFICES ASSUME TypeOK, [Next]_vars PROVE TypeOK'
    OBVIOUS
  <2> USE DEF TypeOK
  <2>0. Rest \in Seq(Payloads)
    BY DEF Rest
  <2>1. CASE Send
    <3>1. PICK a \in Payloads : /\ wire' = wire \o <<Resp>> \o a \o <<Eom>>
                                /\ unread' = Append(unread, a)
      BY <2>1 DEF Send
    <3>2. <<Resp>> \in Seq(Byte) /\ <<Eom>> \in Seq(Byte) /\ a \in Seq(Byte)
      <4>1. PICK n \in 0..MaxPayload : a \in [1..n -> Data]
        BY DEF Payloads
      <4> QED
        BY <4>1 DEF Byte
    <3>3. wire' \in Seq(Byte)
      BY <3>1, <3>2
    <3> QED
      BY <2>1, <3>1, <3>3 DEF Send, cursors
  <2>2. CASE Call
    BY <2>2 DEF Call, port, cursors
  <2>3. CASE Refill
    <3>1. PICK n \in 0..BufSize :
            /\ n <= Len(wire)
            /\ readBuf' = [i \in 0..BufSize - 1 |->
                             IF i < n THEN wire[i + 1] ELSE readBuf[i]]
            /\ fullness' = n
            /\ offset' = 0
            /\ wire' = SubSeq(wire, n + 1, Len(wire))
      BY <2>3 DEF Refill
    <3>2. \A i \in 0..BufSize - 1 : i < n => wire[i + 1] \in Byte
      BY <3>1
    <3>3. readBuf' \in [0..BufSize - 1 -> Byte]
      BY <3>1, <3>2
    <3>4. wire' \in Seq(Byte)
      BY <3>1
    <3> QED
      BY <2>3, <3>1, <3>3, <3>4 DEF Refill
  <2>4. CASE ReadFails
    BY <2>0, <2>4 DEF ReadFails, Return, port, cursors
  <2>5. CASE Scan
    BY <2>5 DEF Scan, Panic, port, cursors
  <2>6. CASE Copy
    <3>1. CASE CopyNothing
      BY <3>1 DEF CopyNothing, Panic, port, cursors
    <3>2. ASSUME NEW n \in 1..fullness - offset, CopyPiece(n) PROVE TypeOK'
      <4> DEFINE m == IF readBuf[offset + n - 1] = Eom THEN n - 1 ELSE n
      <4>1. m \in Nat /\ m <= n /\ offset + m <= BufSize
        BY <3>2
      <4>2. Piece(m) \in Seq(Byte) /\ Len(Piece(m)) = m
        BY <4>1, PieceType
      <4>3. message' = message \o Piece(m)
        BY <3>2 DEF CopyPiece
      <4>4. n <= BufSize - Len(message)
        BY <3>2 DEF CopyPiece, IsPiece
      <4> HIDE DEF m
      <4>5. message' \in Seq(Byte) /\ Len(message') <= BufSize
        BY <4>1, <4>2, <4>3, <4>4
      <4>6. offset' \in 0..BufSize
        BY <3>2 DEF CopyPiece
      <4>7. result' \in {None, Failed} \cup [is : {"answer"}, bytes : Seq(Byte)]
        <5>1. result' = result \/ result' = Got(message')
          BY <3>2 DEF CopyPiece, Return
        <5>2. Got(message') \in [is : {"answer"}, bytes : Seq(Byte)]
          BY <4>5 DEF Got
        <5> QED
          BY <5>1, <5>2
      <4> QED
        BY <2>0, <3>2, <4>5, <4>6, <4>7 DEF CopyPiece, Return, port
    <3> QED
      BY <2>6, <3>1, <3>2 DEF Copy
  <2>7. CASE UNCHANGED vars
    BY <2>7 DEF vars, port, cursors
  <2> QED
    BY <2>1, <2>2, <2>3, <2>4, <2>5, <2>6, <2>7 DEF Next, BufferRead
<1> QED
  BY <1>1, <1>2, PTL DEF Spec

-----------------------------------------------------------------------------
(* The cursors never pass each other, and a byte that is about to be read  *)
(* is one that came in.                                                    *)
CursorInv == NeverPanics /\ ReadsFresh

(* CursorInv is inductive when no read comes back empty.                   *)
LEMMA CursorsInductive == ASSUME ~Hangup PROVE Spec => []CursorInv
<1> USE ReaderAssumption DEF CursorInv, NeverPanics, ReadsFresh
<1>1. Init => CursorInv
  BY DEF Init
<1>2. TypeOK /\ CursorInv /\ [Next]_vars => CursorInv'
  <2> SUFFICES ASSUME TypeOK, CursorInv, [Next]_vars PROVE CursorInv'
    OBVIOUS
  <2>0. offset \in Nat /\ fullness \in Nat /\ offset <= fullness /\ fullness <= BufSize
    BY DEF TypeOK
  <2>1. CASE Send \/ Call
    BY <2>1 DEF Send, Call, cursors
  <2>2. CASE Refill
    BY <2>0, <2>2, ~Hangup DEF Refill
  <2>3. CASE ReadFails
    BY <2>3 DEF ReadFails, Return, cursors
  <2>4. CASE Scan
    <3>1. offset < fullness
      BY <2>0, <2>4 DEF Scan, Empty
    <3> QED
      BY <2>0, <2>4, <3>1 DEF Scan
  <2>5. CASE Copy
    <3>1. offset < fullness
      BY <2>0, <2>5 DEF Copy, Empty
    <3>2. PICK n \in 1..fullness - offset : CopyPiece(n)
      BY <2>5, <3>1 DEF Copy
    <3> QED
      BY <2>0, <3>2 DEF CopyPiece, Return
  <2>6. CASE UNCHANGED vars
    BY <2>6 DEF vars, cursors
  <2> QED
    BY <2>1, <2>2, <2>3, <2>4, <2>5, <2>6 DEF Next, BufferRead
<1> QED
  BY <1>1, <1>2, TypeCorrect, PTL DEF Spec

(* buffer_read never indexes out of bounds nor wraps around.               *)
THEOREM ReaderNeverPanics == ASSUME ~Hangup PROVE Spec => []NeverPanics
<1>1. CursorInv => NeverPanics
  BY DEF CursorInv
<1> QED
  BY <1>1, CursorsInductive, PTL

(* Only bytes of the last read are ever looked at.                         *)
THEOREM ReaderReadsFresh == ASSUME ~Hangup PROVE Spec => []ReadsFresh
<1>1. CursorInv => ReadsFresh
  BY DEF CursorInv
<1> QED
  BY <1>1, CursorsInductive, PTL

-----------------------------------------------------------------------------
(* What was sent and has not been looked at: first in the buffer, then on  *)
(* the wire.                                                               *)
PendingIn(buf, full, at, rest) == [k \in 1..full - at |-> buf[at + k - 1]] \o rest
Pending == PendingIn(readBuf, fullness, offset, wire)

(* The answer a lies behind position start, markers included, up to end.   *)
IsAnswer(bytes, a, start, end) ==
  /\ end = start + Len(a) + 2
  /\ bytes[start + 1] = Resp
  /\ \A k \in 1..Len(a) : bytes[start + 1 + k] = a[k]
  /\ bytes[end] = Eom

(* Behind the first pos[0] bytes are the answers, one after the other, the *)
(* j-th up to pos[j], and nothing else.                                    *)
Laid(bytes, answers, pos) ==
  /\ pos \in [0..Len(answers) -> 0..Len(bytes)]
  /\ \A i, j \in 0..Len(answers) : i <= j => pos[i] <= pos[j]
  /\ pos[Len(answers)] = Len(bytes)
  /\ \A j \in 1..Len(answers) : IsAnswer(bytes, answers[j], pos[j - 1], pos[j])

(* What comes before the answers: what is left of answer a behind its      *)
(* first m bytes, or what no answer starts in.                             *)
RestOfAnswer(bytes, a, m, lead) ==
  /\ m + lead = Len(a) + 1
  /\ \A i \in 1..lead - 1 : bytes[i] = a[m + i]
  /\ bytes[lead] = Eom
NoStart(bytes, lead) == \A i \in 1..lead : bytes[i] # Resp

Within(bytes, a, m, answers) ==
  \E pos : Laid(bytes, answers, pos) /\ RestOfAnswer(bytes, a, m, pos[0])
Between(bytes, answers) ==
  \E pos : Laid(bytes, answers, pos) /\ NoStart(bytes, pos[0])

(* In the middle of an answer, it is the oldest one that is unread.        *)
Collecting == pc \in {"collect", "copy"}

MessageInv ==
  /\ Collecting =>
       /\ unread # <<>>
       /\ Len(message) < BufSize /\ Len(message) <= Len(Head(unread))
       /\ \A k \in 1..Len(message) : message[k] = Head(unread)[k]
  /\ pc \in {"drain", "scan"} => message = <<>>
  /\ pc # "idle" => result = None

(* The bytes that are pending are the answers that are unread.             *)
StreamInv ==
  /\ MessageInv
  /\ IF Collecting
     THEN Within(Pending, Head(unread), Len(message), Tail(unread))
     ELSE Between(Pending, unread)

(* later is what is left of bytes without the first d.                     *)
Without(bytes, d, later) ==
  /\ later \in Seq(Byte) /\ d <= Len(bytes) /\ Len(later) = Len(bytes) - d
  /\ \A i \in 1..Len(bytes) - d : later[i] = bytes[i + d]

(* The first k bytes end no answer; they are those of a behind its first m.*)
NoEnd(bytes, k) == \A i \in 1..k : bytes[i] # Eom
Spells(bytes, k, a, m) == m + k <= Len(a) /\ \A i \in 1..k : bytes[i] = a[m + i]

LEMMA PayloadType ==
  ASSUME NEW a \in Payloads
  PROVE  /\ a \in Seq(Byte) /\ Len(a) \in Nat
         /\ \A k \in 1..Len(a) : a[k] # Resp /\ a[k] # Eom
<1> USE ReaderAssumption
<1>1. PICK n \in 0..MaxPayload : a \in [1..n -> Data]
  BY DEF Payloads
<1>2. a \in Seq(Data)
  BY <1>1
<1>3. \A k \in 1..Len(a) : a[k] \in Data
  BY <1>2
<1> QED
  BY <1>2, <1>3 DEF Byte

(* What bytes are if they come from the buffer and then from the wire.     *)
ComesFrom(bytes, buf, full, at, rest) ==
  /\ bytes \in Seq(Byte) /\ full - at \in Nat
  /\ Len(bytes) = full - at + Len(rest)
  /\ \A i \in 1..full - at : bytes[i] = buf[at + i - 1]
  /\ \A i \in 1..Len(rest) : bytes[full - at + i] = rest[i]

LEMMA PendingType ==
  ASSUME NEW buf \in [0..BufSize - 1 -> Byte], NEW full \in 0..BufSize, NEW at \in 0..full,
         NEW rest \in Seq(Byte), BufSize \in Nat
  PROVE  ComesFrom(PendingIn(buf, full, at, rest), buf, full, at, rest)
<1> DEFINE n == full - at
           bytes == PendingIn(buf, full, at, rest)
           held == [k \in 1..n |-> buf[at + k - 1]]
<1>1. n \in Nat /\ at \in Nat /\ at + n <= BufSize /\ Len(rest) \in Nat
  OBVIOUS
<1>2. \A k \in 1..n : held[k] = buf[at + k - 1] /\ held[k] \in Byte
  BY <1>1
<1>3. held \in [1..n -> Byte]
  BY <1>2
<1>4. bytes = held \o rest
  BY DEF PendingIn
<1> HIDE DEF n, held, bytes
<1>5. held \in Seq(Byte) /\ Len(held) = n
  <2>1. held \in Seq(Byte)
    BY <1>1, <1>3, SeqDef
  <2>2. 1..n = 1..Len(held) /\ Len(held) \in Nat
    BY <1>3, <2>1, LenProperties
  <2> QED
    BY <1>1, <2>1, <2>2
<1>6. /\ held \o rest \in Seq(Byte) /\ Len(held \o rest) = Len(held) + Len(rest)
      /\ \A i \in 1..Len(held) + Len(rest) : (held \o rest)[i] =
           IF i <= Len(held) THEN held[i] ELSE rest[i - Len(held)]
  BY <1>5, ConcatProperties
<1>7. /\ bytes \in Seq(Byte) /\ Len(bytes) = n + Len(rest)
      /\ \A i \in 1..n + Len(rest) : bytes[i] = IF i <= n THEN held[i] ELSE rest[i - n]
  BY <1>4, <1>5, <1>6
<1>8. \A i \in 1..n : bytes[i] = buf[at + i - 1]
  BY <1>1, <1>2, <1>7
<1>9. \A i \in 1..Len(rest) : bytes[n + i] = rest[i]
  <2> SUFFICES ASSUME NEW i \in 1..Len(rest) PROVE bytes[n + i] = rest[i]
    OBVIOUS
  <2>1. n + i \in 1..n + Len(rest) /\ ~(n + i <= n) /\ (n + i) - n = i
    BY <1>1
  <2> QED
    BY <1>7, <2>1
<1> QED
  BY <1>1, <1>7, <1>8, <1>9 DEF n, bytes, ComesFrom

(* An answer lies where it did, d bytes further on.                        *)
LEMMA AnswerMoves ==
  ASSUME NEW a \in Payloads, NEW bytes, NEW later, Len(bytes) \in Nat,
         NEW start \in Nat, NEW end \in Nat, IsAnswer(bytes, a, start, end),
         NEW d \in Nat, d <= start, end <= Len(bytes),
         \A i \in 1..Len(bytes) - d : later[i] = bytes[i + d]
  PROVE  IsAnswer(later, a, start - d, end - d)
<1>1. Len(a) \in Nat /\ end = start + Len(a) + 2
  BY PayloadType DEF IsAnswer
<1>2. \A i \in start..end : i # start => later[i - d] = bytes[i]
  <2> SUFFICES ASSUME NEW i \in start..end, i # start PROVE later[i - d] = bytes[i]
    OBVIOUS
  <2>1. i - d \in 1..Len(bytes) - d /\ (i - d) + d = i
    OBVIOUS
  <2> QED
    BY <2>1
<1>3. later[(start - d) + 1] = Resp
  <2>1. start + 1 \in start..end /\ start + 1 # start /\ (start + 1) - d = (start - d) + 1
    BY <1>1
  <2> QED
    BY <1>2, <2>1 DEF IsAnswer
<1>4. \A k \in 1..Len(a) : later[(start - d) + 1 + k] = a[k]
  <2> SUFFICES ASSUME NEW k \in 1..Len(a) PROVE later[(start - d) + 1 + k] = a[k]
    OBVIOUS
  <2>1. /\ start + 1 + k \in start..end /\ start + 1 + k # start
        /\ (start + 1 + k) - d = (start - d) + 1 + k
    BY <1>1
  <2>2. later[(start + 1 + k) - d] = bytes[start + 1 + k]
    BY <1>2, <2>1, Zenon
  <2>3. bytes[start + 1 + k] = a[k]
    BY DEF IsAnswer
  <2> QED
    BY <2>1, <2>2, <2>3, Zenon
<1>5. later[end - d] = Eom
  <2>1. end \in start..end /\ end # start
    BY <1>1
  <2> QED
    BY <1>2, <2>1 DEF IsAnswer
<1> QED
  BY <1>1, <1>3, <1>4, <1>5 DEF IsAnswer

(* The first d bytes are read, none of an answer.                          *)
LEMMA LaidShift ==
  ASSUME NEW bytes \in Seq(Byte), NEW later \in Seq(Byte), NEW answers \in Seq(Payloads),
         NEW pos, Laid(bytes, answers, pos),
         NEW d \in Nat, d <= pos[0],
         Len(later) = Len(bytes) - d,
         \A i \in 1..Len(later) : later[i] = bytes[i + d]
  PROVE  Laid(later, answers, [j \in 0..Len(answers) |-> pos[j] - d])
<1> DEFINE moved == [j \in 0..Len(answers) |-> pos[j] - d]
<1>1. Len(answers) \in Nat /\ Len(bytes) \in Nat /\ Len(later) \in Nat
  OBVIOUS
<1>2. \A j \in 0..Len(answers) : pos[j] \in Nat /\ pos[0] <= pos[j] /\ pos[j] <= Len(bytes)
  <2> SUFFICES ASSUME NEW j \in 0..Len(answers)
               PROVE  pos[j] \in Nat /\ pos[0] <= pos[j] /\ pos[j] <= Len(bytes)
    OBVIOUS
  <2>1. pos[j] \in 0..Len(bytes)
    BY DEF Laid
  <2>2. 0 \in 0..Len(answers) /\ 0 <= j
    BY <1>1
  <2>3. pos[0] <= pos[j]
    BY <2>2 DEF Laid
  <2> QED
    BY <1>1, <2>1, <2>3
<1>3. \A j \in 0..Len(answers) : moved[j] = pos[j] - d /\ moved[j] \in 0..Len(later)
  BY <1>1, <1>2
<1>4. moved \in [0..Len(answers) -> 0..Len(later)]
  BY <1>3
<1> HIDE DEF moved
<1>5. \A i, j \in 0..Len(answers) : i <= j => moved[i] <= moved[j]
  <2> SUFFICES ASSUME NEW i \in 0..Len(answers), NEW j \in 0..Len(answers), i <= j
               PROVE  moved[i] <= moved[j]
    OBVIOUS
  <2>1. pos[i] <= pos[j]
    BY DEF Laid
  <2>2. /\ pos[i] \in Nat /\ pos[j] \in Nat
        /\ moved[i] = pos[i] - d /\ moved[j] = pos[j] - d
    BY <1>2, <1>3
  <2> QED
    BY <2>1, <2>2
<1>6. moved[Len(answers)] = Len(later)
  <2>1. pos[Len(answers)] = Len(bytes) /\ Len(answers) \in 0..Len(answers)
    BY <1>1 DEF Laid
  <2>2. moved[Len(answers)] = Len(bytes) - d
    BY <1>3, <2>1
  <2> QED
    BY <2>2
<1>7. ASSUME NEW j \in 1..Len(answers)
      PROVE  IsAnswer(later, answers[j], moved[j - 1], moved[j])
  <2>1. IsAnswer(bytes, answers[j], pos[j - 1], pos[j])
    BY DEF Laid
  <2>2. j - 1 \in 0..Len(answers) /\ j \in 0..Len(answers)
    BY <1>1
  <2>3. moved[j] = pos[j] - d /\ moved[j - 1] = pos[j - 1] - d
    BY <1>3, <2>2
  <2>4. /\ pos[j] \in Nat /\ pos[j - 1] \in Nat /\ d <= pos[j - 1] /\ pos[j] <= Len(bytes)
    BY <1>2, <2>2
  <2>5. answers[j] \in Payloads /\ \A i \in 1..Len(bytes) - d : later[i] = bytes[i + d]
    OBVIOUS
  <2>6. IsAnswer(later, answers[j], pos[j - 1] - d, pos[j] - d)
    BY <1>1, <2>1, <2>4, <2>5, AnswerMoves, Zenon
  <2> QED
    BY <2>3, <2>6, Zenon
<1>8. Laid(later, answers, moved)
  BY <1>4, <1>5, <1>6, <1>7 DEF Laid
<1> QED
  BY <1>8 DEF moved

(* The oldest answer is being read: it lies in front of the others.        *)
LEMMA LaidNext ==
  ASSUME NEW bytes \in Seq(Byte), NEW answers \in Seq(Payloads), answers # <<>>,
         NEW pos, Laid(bytes, answers, pos)
  PROVE  /\ Laid(bytes, Tail(answers), [j \in 0..Len(Tail(answers)) |-> pos[j + 1]])
         /\ IsAnswer(bytes, Head(answers), pos[0], pos[1])
<1> DEFINE rest == Tail(answers)
           next == [j \in 0..Len(rest) |-> pos[j + 1]]
<1>1. /\ Len(answers) \in Nat \ {0} /\ Len(rest) = Len(answers) - 1
      /\ Head(answers) = answers[1] /\ \A j \in 1..Len(rest) : rest[j] = answers[j + 1]
  OBVIOUS
<1>2. IsAnswer(bytes, Head(answers), pos[0], pos[1])
  <2>1. IsAnswer(bytes, answers[1], pos[1 - 1], pos[1])
    BY <1>1 DEF Laid
  <2> QED
    BY <1>1, <2>1
<1>3. \A j \in 0..Len(rest) : next[j] = pos[j + 1] /\ next[j] \in 0..Len(bytes)
  BY <1>1 DEF Laid
<1>4. next \in [0..Len(rest) -> 0..Len(bytes)]
  BY <1>3
<1> HIDE DEF rest, next
<1>5. \A i, j \in 0..Len(rest) : i <= j => next[i] <= next[j]
  BY <1>1, <1>3 DEF Laid
<1>6. next[Len(rest)] = Len(bytes)
  BY <1>1, <1>3 DEF Laid
<1>7. ASSUME NEW j \in 1..Len(rest)
      PROVE  IsAnswer(bytes, rest[j], next[j - 1], next[j])
  <2>1. IsAnswer(bytes, answers[j + 1], pos[(j + 1) - 1], pos[j + 1])
    BY <1>1 DEF Laid
  <2>2. next[j - 1] = pos[(j - 1) + 1] /\ next[j] = pos[j + 1]
    BY <1>1, <1>3
  <2>3. (j - 1) + 1 = (j + 1) - 1
    OBVIOUS
  <2> QED
    BY <1>1, <2>1, <2>2, <2>3
<1>8. Laid(bytes, rest, next)
  BY <1>4, <1>5, <1>6, <1>7 DEF Laid
<1> QED
  BY <1>2, <1>8 DEF rest, next

(* Behind the bytes comes the answer a, markers included.                  *)
Longer(bytes, a, longer) ==
  /\ longer \in Seq(Byte) /\ Len(longer) = Len(bytes) + Len(a) + 2
  /\ \A i \in 1..Len(bytes) : longer[i] = bytes[i]
  /\ longer[Len(bytes) + 1] = Resp
  /\ \A k \in 1..Len(a) : longer[Len(bytes) + 1 + k] = a[k]
  /\ longer[Len(longer)] = Eom

(* One more answer is sent.                                                *)
LEMMA LaidAppend ==
  ASSUME NEW bytes \in Seq(Byte), NEW answers \in Seq(Payloads), NEW pos,
         Laid(bytes, answers, pos), NEW a \in Payloads, NEW longer, Longer(bytes, a, longer)
  PROVE  Laid(longer, Append(answers, a),
              [j \in 0..Len(answers) + 1 |-> IF j <= Len(answers) THEN pos[j] ELSE Len(longer)])
<1> DEFINE n == Len(answers)
           more == Append(answers, a)
           next == [j \in 0..n + 1 |-> IF j <= n THEN pos[j] ELSE Len(longer)]
<1>0. /\ longer \in Seq(Byte) /\ Len(longer) = Len(bytes) + Len(a) + 2
      /\ \A i \in 1..Len(bytes) : longer[i] = bytes[i]
      /\ longer[Len(bytes) + 1] = Resp
      /\ \A k \in 1..Len(a) : longer[Len(bytes) + 1 + k] = a[k]
      /\ longer[Len(longer)] = Eom
  BY DEF Longer
<1>1. /\ n \in Nat /\ Len(more) = n + 1 /\ more[n + 1] = a
      /\ \A j \in 1..n : more[j] = answers[j]
  OBVIOUS
<1>2. Len(a) \in Nat /\ Len(bytes) \in Nat /\ Len(longer) \in Nat
  BY <1>0, PayloadType
<1>3. /\ \A j \in 0..n : next[j] = pos[j] /\ pos[j] \in 0..Len(bytes)
      /\ next[n + 1] = Len(longer)
  BY <1>1, <1>2 DEF Laid
<1>4. next \in [0..n + 1 -> 0..Len(longer)]
  BY <1>0, <1>1, <1>2 DEF Laid
<1> HIDE DEF more, next, n
<1>5. \A i, j \in 0..n + 1 : i <= j => next[i] <= next[j]
  <2> SUFFICES ASSUME NEW i \in 0..n + 1, NEW j \in 0..n + 1, i <= j PROVE next[i] <= next[j]
    OBVIOUS
  <2>1. CASE j <= n
    BY <1>1, <1>3, <2>1 DEF Laid, n
  <2>2. CASE j = n + 1
    <3>1. next[i] \in 0..Len(longer)
      BY <1>4
    <3> QED
      BY <1>0, <1>2, <1>3, <2>2, <3>1
  <2> QED
    BY <1>1, <2>1, <2>2
<1>6. ASSUME NEW j \in 1..n + 1
      PROVE  IsAnswer(longer, more[j], next[j - 1], next[j])
  <2>1. CASE j <= n
    <3>1. IsAnswer(bytes, answers[j], pos[j - 1], pos[j])
      BY <1>1, <2>1 DEF Laid, n
    <3>2. /\ pos[j - 1] \in Nat /\ pos[j] \in 1..Len(bytes) /\ Len(answers[j]) \in Nat
          /\ pos[j] = pos[j - 1] + Len(answers[j]) + 2
      <4>1. Len(answers[j]) \in Nat
        BY <1>1, <2>1, PayloadType DEF n
      <4>2. pos[j - 1] \in 0..Len(bytes) /\ pos[j] \in 0..Len(bytes)
        BY <1>1, <1>3, <2>1
      <4> QED
        BY <1>2, <3>1, <4>1, <4>2 DEF IsAnswer
    <3>3. next[j - 1] = pos[j - 1] /\ next[j] = pos[j] /\ more[j] = answers[j]
      BY <1>1, <1>3, <2>1
    <3>4. \A i \in 1..Len(bytes) - 0 : longer[i] = bytes[i + 0]
      BY <1>0, <1>2
    <3>5. IsAnswer(longer, answers[j], pos[j - 1] - 0, pos[j] - 0)
      <4>1. answers[j] \in Payloads
        BY <1>1, <2>1 DEF n
      <4>2. 0 \in Nat /\ 0 <= pos[j - 1] /\ pos[j] \in Nat /\ pos[j] <= Len(bytes)
        BY <1>2, <3>2
      <4> QED
        BY <1>2, <3>1, <3>2, <3>4, <4>1, <4>2, AnswerMoves
    <3> QED
      BY <3>2, <3>3, <3>5
  <2>2. CASE j = n + 1
    <3>1. next[j - 1] = Len(bytes) /\ next[j] = Len(longer) /\ more[j] = a
      BY <1>1, <1>3, <2>2 DEF Laid, n
    <3> QED
      BY <1>0, <1>2, <3>1 DEF IsAnswer
  <2> QED
    BY <1>1, <2>1, <2>2
<1>7. Laid(longer, more, next)
  BY <1>1, <1>3, <1>4, <1>5, <1>6 DEF Laid
<1> QED
  BY <1>7 DEF more, next, n

(* The bytes of one more answer behind those that were sent.               *)
LEMMA SentBehind ==
  ASSUME NEW bytes \in Seq(Byte), NEW a \in Seq(Byte)
  PROVE  Longer(bytes, a, bytes \o <<Resp>> \o a \o <<Eom>>)
<1> DEFINE x == bytes \o <<Resp>>
           y == x \o a
           z == y \o <<Eom>>
<1>0. /\ <<Resp>> \in Seq(Byte) /\ <<Eom>> \in Seq(Byte)
      /\ Len(<<Resp>>) = 1 /\ Len(<<Eom>>) = 1 /\ <<Resp>>[1] = Resp /\ <<Eom>>[1] = Eom
      /\ Len(bytes) \in Nat /\ Len(a) \in Nat
  BY DEF Byte
<1>1. /\ x \in Seq(Byte) /\ Len(x) = Len(bytes) + 1
      /\ \A i \in 1..Len(bytes) : x[i] = bytes[i]
      /\ x[Len(bytes) + 1] = Resp
  BY <1>0
<1> HIDE DEF x
<1>2. /\ y \in Seq(Byte) /\ Len(y) = Len(x) + Len(a)
      /\ \A i \in 1..Len(x) + Len(a) : y[i] = IF i <= Len(x) THEN x[i] ELSE a[i - Len(x)]
  BY <1>1, ConcatProperties
<1>3. /\ \A i \in 1..Len(x) : y[i] = x[i]
      /\ \A k \in 1..Len(a) : y[Len(x) + k] = a[k]
  <2>1. \A i \in 1..Len(x) : y[i] = x[i]
    BY <1>0, <1>1, <1>2
  <2>2. ASSUME NEW k \in 1..Len(a) PROVE y[Len(x) + k] = a[k]
    <3>1. /\ Len(x) + k \in 1..Len(x) + Len(a) /\ ~(Len(x) + k <= Len(x))
          /\ (Len(x) + k) - Len(x) = k
      BY <1>0, <1>1
    <3> QED
      BY <1>2, <3>1
  <2> QED
    BY <2>1, <2>2
<1> HIDE DEF y
<1>4. /\ z \in Seq(Byte) /\ Len(z) = Len(y) + 1
      /\ \A i \in 1..Len(y) : z[i] = y[i]
      /\ z[Len(y) + 1] = Eom
  BY <1>0, <1>2
<1> HIDE DEF z
<1>5. /\ \A i \in 1..Len(bytes) : z[i] = bytes[i]
      /\ z[Len(bytes) + 1] = Resp
  <2>1. \A i \in 1..Len(bytes) : i \in 1..Len(x) /\ i \in 1..Len(y)
    BY <1>0, <1>1, <1>2
  <2>2. Len(bytes) + 1 \in 1..Len(x) /\ Len(bytes) + 1 \in 1..Len(y)
    BY <1>0, <1>1, <1>2
  <2>3. \A i \in 1..Len(bytes) : z[i] = x[i]
    BY <1>3, <1>4, <2>1
  <2>4. z[Len(bytes) + 1] = x[Len(bytes) + 1]
    BY <1>3, <1>4, <2>2
  <2> QED
    BY <1>1, <2>3, <2>4
<1>6. ASSUME NEW k \in 1..Len(a) PROVE z[Len(bytes) + 1 + k] = a[k]
  <2>1. Len(bytes) + 1 + k = Len(x) + k /\ Len(x) + k \in 1..Len(y)
    BY <1>0, <1>1, <1>2
  <2> QED
    BY <1>3, <1>4, <2>1
<1>7. Len(z) = Len(bytes) + Len(a) + 2 /\ z[Len(z)] = Eom
  BY <1>0, <1>1, <1>2, <1>4
<1> QED
  BY <1>4, <1>5, <1>6, <1>7 DEF x, y, z, Longer

(* Bytes that are passed over are taken off the front of what is left.     *)
LEMMA RestMoves ==
  ASSUME NEW a \in Payloads, NEW bytes, NEW later, Len(bytes) \in Nat, NEW m \in Nat,
         NEW lead \in Nat, NEW d \in Nat, d < lead, lead <= Len(bytes),
         \A i \in 1..Len(bytes) - d : later[i] = bytes[i + d],
         RestOfAnswer(bytes, a, m, lead)
  PROVE  RestOfAnswer(later, a, m + d, lead - d)
<1>1. Len(a) \in Nat /\ (m + d) + (lead - d) = Len(a) + 1
  <2>1. Len(a) \in Nat
    BY PayloadType
  <2>2. m + lead = Len(a) + 1
    BY DEF RestOfAnswer
  <2>3. (m + d) + (lead - d) = m + lead
    OBVIOUS
  <2> QED
    BY <2>1, <2>2, <2>3, Zenon
<1>2. later[lead - d] = Eom
  <2>1. lead - d \in 1..Len(bytes) - d /\ (lead - d) + d = lead
    OBVIOUS
  <2>2. later[lead - d] = bytes[(lead - d) + d]
    BY <2>1
  <2> QED
    BY <2>1, <2>2 DEF RestOfAnswer
<1>3. ASSUME NEW i \in 1..(lead - d) - 1 PROVE later[i] = a[(m + d) + i]
  <2>1. /\ i \in 1..Len(bytes) - d /\ i + d \in 1..lead - 1
        /\ m + (i + d) = (m + d) + i
    OBVIOUS
  <2>2. later[i] = bytes[i + d]
    BY <2>1
  <2>3. bytes[i + d] = a[m + (i + d)]
    BY <2>1 DEF RestOfAnswer
  <2> QED
    BY <2>1, <2>2, <2>3
<1> QED
  BY <1>1, <1>2, <1>3 DEF RestOfAnswer

(* No answer starts in what is left of one.                                *)
LEMMA RestIsNoStart ==
  ASSUME NEW a \in Payloads, NEW bytes, NEW m \in Nat, NEW lead \in Nat,
         RestOfAnswer(bytes, a, m, lead)
  PROVE  NoStart(bytes, lead)
<1> SUFFICES ASSUME NEW i \in 1..lead PROVE bytes[i] # Resp
  BY DEF NoStart
<1>1. CASE i = lead
  BY <1>1 DEF RestOfAnswer, Resp, Eom
<1>2. CASE i # lead
  <2>1. i \in 1..lead - 1 /\ Len(a) \in Nat /\ m + i \in 1..Len(a)
    BY <1>2, PayloadType DEF RestOfAnswer
  <2> QED
    BY <2>1, PayloadType DEF RestOfAnswer
<1> QED
  BY <1>1, <1>2

LEMMA NoStartMoves ==
  ASSUME NEW bytes, NEW later, Len(bytes) \in Nat, NEW lead \in Nat, NEW d \in Nat,
         d <= lead, lead <= Len(bytes),
         \A i \in 1..Len(bytes) - d : later[i] = bytes[i + d],
         NoStart(bytes, lead)
  PROVE  NoStart(later, lead - d)
<1> SUFFICES ASSUME NEW i \in 1..lead - d PROVE later[i] # Resp
  BY DEF NoStart
<1>1. i \in 1..Len(bytes) - d /\ i + d \in 1..lead
  OBVIOUS
<1> QED
  BY <1>1 DEF NoStart

LEMMA PendingNow ==
  ASSUME TypeOK, ReadsFresh
  PROVE  LET n == fullness - offset
         IN  /\ Pending \in Seq(Byte) /\ n \in Nat /\ Len(Pending) \in Nat
             /\ Len(Pending) = n + Len(wire)
             /\ \A i \in 1..n : Pending[i] = readBuf[offset + i - 1]
             /\ \A i \in 1..Len(wire) : Pending[n + i] = wire[i]
<1>1. /\ readBuf \in [0..BufSize - 1 -> Byte] /\ fullness \in 0..BufSize
      /\ offset \in 0..fullness /\ wire \in Seq(Byte) /\ BufSize \in Nat
  BY ReaderAssumption DEF TypeOK, ReadsFresh
<1>2. Pending \in Seq(Byte) => Len(Pending) \in Nat
  OBVIOUS
<1> QED
  BY <1>1, <1>2, PendingType DEF Pending, ComesFrom

(* Reading from the port moves bytes to the buffer, and changes nothing of *)
(* what is pending.                                                        *)
LEMMA RefillKeeps ==
  ASSUME TypeOK, ReadsFresh, Refill
  PROVE  Pending' = Pending
<1> USE ReaderAssumption
<1>1. PICK n \in 0..BufSize :
        /\ n <= Len(wire)
        /\ readBuf' = [i \in 0..BufSize - 1 |-> IF i < n THEN wire[i + 1] ELSE readBuf[i]]
        /\ fullness' = n /\ offset' = 0
        /\ wire' = SubSeq(wire, n + 1, Len(wire))
  BY DEF Refill
<1>2. /\ wire \in Seq(Byte) /\ Len(wire) \in Nat /\ BufSize \in Nat
      /\ fullness - offset = 0
  BY DEF TypeOK, Refill, Empty
<1>3. /\ Len(Pending) = Len(wire) /\ \A i \in 1..Len(wire) : Pending[i] = wire[i]
  <2>1. Len(Pending) = 0 + Len(wire) /\ \A i \in 1..Len(wire) : Pending[0 + i] = wire[i]
    BY <1>2, PendingNow
  <2> QED
    BY <1>2, <2>1
<1>4. /\ wire' \in Seq(Byte) /\ Len(wire') = Len(wire) - n
      /\ \A i \in 1..Len(wire) - n : wire'[i] = wire[n + i]
  BY <1>1, <1>2
<1>5. readBuf' \in [0..BufSize - 1 -> Byte]
  <2>1. \A i \in 0..BufSize - 1 : i < n => wire[i + 1] \in Byte
    BY <1>1, <1>2
  <2> QED
    BY <1>1, <2>1 DEF TypeOK
<1>6. /\ Pending' \in Seq(Byte) /\ Len(Pending') = n + Len(wire')
      /\ \A i \in 1..n : Pending'[i] = readBuf'[i - 1]
      /\ \A i \in 1..Len(wire') : Pending'[n + i] = wire'[i]
  <2>1. n \in 0..BufSize /\ 0 \in 0..n /\ n = n - 0
    BY <1>1
  <2>2. Pending' = PendingIn(readBuf', n, 0, wire')
    BY <1>1 DEF Pending
  <2>3. /\ Pending' \in Seq(Byte) /\ Len(Pending') = n + Len(wire')
        /\ \A i \in 1..n : Pending'[i] = readBuf'[0 + i - 1]
        /\ \A i \in 1..Len(wire') : Pending'[n + i] = wire'[i]
    <3> DEFINE buf == readBuf'
               rest == wire'
               bytes == PendingIn(buf, n, 0, rest)
    <3>1. buf \in [0..BufSize - 1 -> Byte] /\ rest \in Seq(Byte) /\ BufSize \in Nat
      BY <1>2, <1>4, <1>5
    <3> HIDE DEF buf, rest
    <3>2. ComesFrom(bytes, buf, n, 0, rest)
      BY <2>1, <3>1, PendingType
    <3> QED
      BY <2>1, <2>2, <3>2 DEF buf, rest, ComesFrom
  <2>4. \A i \in 1..n : 0 + i - 1 = i - 1
    OBVIOUS
  <2> QED
    BY <2>3, <2>4
<1>7. \A i \in 1..n : Pending'[i] = wire[i]
  <2> SUFFICES ASSUME NEW i \in 1..n PROVE Pending'[i] = wire[i]
    OBVIOUS
  <2>1. i - 1 \in 0..BufSize - 1 /\ i - 1 < n /\ (i - 1) + 1 = i
    BY <1>1, <1>2
  <2>2. readBuf'[i - 1] = wire[(i - 1) + 1]
    BY <1>1, <2>1
  <2> QED
    BY <1>6, <2>1, <2>2
<1>8. \A i \in 1..Len(wire) : i > n => Pending'[i] = wire[i]
  <2> SUFFICES ASSUME NEW i \in 1..Len(wire), i > n PROVE Pending'[i] = wire[i]
    OBVIOUS
  <2>1. i - n \in 1..Len(wire) - n /\ n + (i - n) = i
    BY <1>1, <1>2
  <2>2. Pending'[n + (i - n)] = wire'[i - n] /\ wire'[i - n] = wire[n + (i - n)]
    BY <1>4, <1>6, <2>1
  <2> QED
    BY <2>1, <2>2
<1>9. Len(Pending') = Len(wire)
  BY <1>1, <1>2, <1>4, <1>6
<1>10. \A i \in 1..Len(wire) : Pending'[i] = Pending[i]
  <2> SUFFICES ASSUME NEW i \in 1..Len(wire) PROVE Pending'[i] = Pending[i]
    OBVIOUS
  <2>1. i > n \/ i \in 1..n
    BY <1>1
  <2> QED
    BY <1>3, <1>7, <1>8, <2>1
<1>11. Pending \in Seq(Byte) /\ Len(Pending) = Len(Pending')
  BY <1>3, <1>9, PendingNow
<1>12. \A i \in 1..Len(Pending) : Pending[i] = Pending'[i]
  BY <1>3, <1>10
<1> QED
  BY <1>6, <1>11, <1>12, SeqEqual, Zenon

(* Looking at d bytes of the buffer takes them off what is pending.        *)
LEMMA CursorPasses ==
  ASSUME TypeOK, ReadsFresh, NEW d \in 0..fullness - offset, offset' = offset + d,
         UNCHANGED <<wire, readBuf, fullness>>
  PROVE  Without(Pending, d, Pending')
<1> USE ReaderAssumption
<1> DEFINE n == fullness - offset
<1>1. /\ readBuf \in [0..BufSize - 1 -> Byte] /\ fullness \in 0..BufSize
      /\ offset \in Nat /\ offset + d \in 0..fullness /\ wire \in Seq(Byte) /\ BufSize \in Nat
      /\ Len(wire) \in Nat /\ n \in Nat /\ d \in Nat /\ d <= n
      /\ fullness - (offset + d) = n - d /\ n - d \in Nat
  BY DEF TypeOK, ReadsFresh
<1>2. /\ Len(Pending) = n + Len(wire)
      /\ \A i \in 1..n : Pending[i] = readBuf[offset + i - 1]
      /\ \A i \in 1..Len(wire) : Pending[n + i] = wire[i]
  BY PendingNow
<1>3. Pending' = PendingIn(readBuf, fullness, offset + d, wire)
  BY DEF Pending
<1>4. offset + d \in 0..fullness /\ n - d = fullness - (offset + d)
  BY <1>1
<1> HIDE DEF n
<1>5. /\ Pending' \in Seq(Byte) /\ Len(Pending') = n - d + Len(wire)
      /\ \A i \in 1..n - d : Pending'[i] = readBuf[(offset + d) + i - 1]
      /\ \A i \in 1..Len(wire) : Pending'[n - d + i] = wire[i]
  <2> DEFINE at == offset + d
             bytes == PendingIn(readBuf, fullness, at, wire)
  <2>1. at \in 0..fullness /\ fullness - at = n - d
    BY <1>1, <1>4
  <2> HIDE DEF at
  <2>2. ComesFrom(bytes, readBuf, fullness, at, wire)
    BY <1>1, <2>1, PendingType
  <2>3. Pending' = bytes
    BY <1>3 DEF at
  <2> HIDE DEF bytes
  <2> QED
    BY <2>1, <2>2, <2>3 DEF at, ComesFrom
<1>6. ASSUME NEW i \in 1..Len(Pending) - d PROVE Pending'[i] = Pending[i + d]
  <2>1. CASE i <= n - d
    <3>1. i \in 1..n - d /\ i + d \in 1..n /\ offset + (i + d) - 1 = (offset + d) + i - 1
      BY <1>1, <2>1
    <3>2. Pending'[i] = readBuf[(offset + d) + i - 1]
      BY <1>5, <3>1
    <3>3. Pending[i + d] = readBuf[offset + (i + d) - 1]
      BY <1>2, <3>1
    <3> QED
      BY <3>1, <3>2, <3>3
  <2>2. CASE ~(i <= n - d)
    <3> DEFINE k == i - (n - d)
    <3>1. k \in 1..Len(wire) /\ n - d + k = i /\ n + k = i + d
      BY <1>1, <1>2, <2>2
    <3> HIDE DEF k
    <3>2. Pending'[n - d + k] = wire[k] /\ Pending[n + k] = wire[k]
      BY <1>2, <1>5, <3>1
    <3> QED
      BY <3>1, <3>2
  <2> QED
    BY <2>1, <2>2
<1> QED
  BY <1>1, <1>2, <1>5, <1>6 DEF Without

(* The first byte is no start of an answer: it is before all of them.      *)
LEMMA BetweenPasses ==
  ASSUME NEW bytes \in Seq(Byte), NEW later, NEW answers \in Seq(Payloads),
         Between(bytes, answers), bytes[1] # Resp, Without(bytes, 1, later)
  PROVE  Between(later, answers)
<1>0. /\ later \in Seq(Byte) /\ Len(bytes) >= 1 /\ Len(later) = Len(bytes) - 1
      /\ \A i \in 1..Len(bytes) - 1 : later[i] = bytes[i + 1]
  BY DEF Without
<1>1. PICK pos : Laid(bytes, answers, pos) /\ NoStart(bytes, pos[0])
  BY DEF Between
<1>2. /\ Len(answers) \in Nat /\ Len(bytes) \in Nat /\ Len(later) \in Nat
      /\ pos[0] \in 0..Len(bytes)
  BY <1>0, <1>1 DEF Laid
<1>3. 1 <= pos[0]
  <2>1. CASE Len(answers) = 0
    BY <1>0, <1>1, <1>2, <2>1 DEF Laid
  <2>2. CASE Len(answers) # 0
    <3>1. IsAnswer(bytes, answers[1], pos[1 - 1], pos[1])
      BY <1>0, <1>1, <1>2, <2>2 DEF Laid
    <3>2. bytes[pos[0] + 1] = Resp
      BY <3>1 DEF IsAnswer
    <3> QED
      BY <1>0, <1>2, <3>2
  <2> QED
    BY <2>1, <2>2
<1> DEFINE moved == [j \in 0..Len(answers) |-> pos[j] - 1]
<1>4. \A i \in 1..Len(later) : later[i] = bytes[i + 1]
  BY <1>0, <1>2
<1>5. Laid(later, answers, moved)
  <2>1. 1 \in Nat
    OBVIOUS
  <2> QED
    BY <1>0, <1>1, <1>3, <1>4, <2>1, LaidShift
<1>6. moved[0] = pos[0] - 1
  BY <1>0, <1>2
<1> HIDE DEF moved
<1>7. NoStart(later, pos[0] - 1)
  <2>1. pos[0] \in Nat /\ 1 \in Nat /\ pos[0] <= Len(bytes)
    BY <1>0, <1>2
  <2> QED
    BY <1>0, <1>1, <1>2, <1>3, <2>1, NoStartMoves, Zenon
<1> QED
  BY <1>5, <1>6, <1>7 DEF Between

(* The first byte starts an answer: it is the oldest one.                  *)
LEMMA BetweenStarts ==
  ASSUME NEW bytes \in Seq(Byte), NEW later, NEW answers \in Seq(Payloads),
         Between(bytes, answers), bytes[1] = Resp, Without(bytes, 1, later)
  PROVE  answers # <<>> /\ Within(later, Head(answers), 0, Tail(answers))
<1>0. /\ later \in Seq(Byte) /\ Len(bytes) >= 1 /\ Len(later) = Len(bytes) - 1
      /\ \A i \in 1..Len(bytes) - 1 : later[i] = bytes[i + 1]
  BY DEF Without
<1>1. PICK pos : Laid(bytes, answers, pos) /\ NoStart(bytes, pos[0])
  BY DEF Between
<1>2. /\ Len(answers) \in Nat /\ Len(bytes) \in Nat /\ Len(later) \in Nat
      /\ pos[0] \in 0..Len(bytes)
  BY <1>0, <1>1 DEF Laid
<1>3. pos[0] = 0
  BY <1>0, <1>1, <1>2 DEF NoStart
<1>4. answers # <<>>
  BY <1>0, <1>1, <1>2, <1>3 DEF Laid
<1> DEFINE rest == Tail(answers)
           a == Head(answers)
           next == [j \in 0..Len(rest) |-> pos[j + 1]]
           moved == [j \in 0..Len(rest) |-> next[j] - 1]
<1>5. rest \in Seq(Payloads) /\ Len(rest) \in Nat /\ a \in Payloads
  BY <1>4
<1>6. Laid(bytes, rest, next) /\ IsAnswer(bytes, a, pos[0], pos[1])
  BY <1>1, <1>4, LaidNext
<1>7. next[0] = pos[1]
  BY <1>5
<1> HIDE DEF rest, a, next
<1>8. Len(a) \in Nat
  BY <1>5, PayloadType
<1>9. pos[1] = Len(a) + 2 /\ next[0] = Len(a) + 2
  BY <1>3, <1>6, <1>7, <1>8 DEF IsAnswer
<1>10. Laid(later, rest, moved)
  <2>1. 1 \in Nat /\ 1 <= next[0]
    BY <1>8, <1>9
  <2>2. \A i \in 1..Len(later) : later[i] = bytes[i + 1]
    BY <1>0, <1>2
  <2> QED
    BY <1>0, <1>5, <1>6, <2>1, <2>2, LaidShift
<1>11. moved[0] = Len(a) + 1
  BY <1>5, <1>8, <1>9
<1> HIDE DEF moved
<1>12. RestOfAnswer(later, a, 0, Len(a) + 1)
  <2>1. next[0] <= Len(bytes)
    BY <1>5, <1>6 DEF Laid
  <2>2. \A i \in 1..Len(a) + 1 : later[i] = bytes[i + 1]
    BY <1>0, <1>2, <1>8, <1>9, <2>1
  <2>3. ASSUME NEW i \in 1..(Len(a) + 1) - 1 PROVE later[i] = a[0 + i]
    <3>1. i \in 1..Len(a) /\ i \in 1..Len(a) + 1 /\ pos[0] + 1 + i = i + 1 /\ 0 + i = i
      BY <1>3, <1>8
    <3>2. bytes[pos[0] + 1 + i] = a[i]
      BY <1>6, <3>1 DEF IsAnswer
    <3> QED
      BY <2>2, <3>1, <3>2
  <2>4. later[Len(a) + 1] = Eom
    <3>1. Len(a) + 1 \in 1..Len(a) + 1 /\ (Len(a) + 1) + 1 = Len(a) + 2
      BY <1>8
    <3>2. bytes[pos[1]] = Eom
      BY <1>6 DEF IsAnswer
    <3> QED
      BY <1>9, <2>2, <3>1, <3>2
  <2>5. 0 + (Len(a) + 1) = Len(a) + 1
    BY <1>8
  <2> QED
    BY <2>3, <2>4, <2>5 DEF RestOfAnswer
<1>13. Within(later, a, 0, rest)
  BY <1>10, <1>11, <1>12 DEF Within
<1> QED
  BY <1>4, <1>13 DEF rest, a

(* An answer that is given up is passed over by the next call.             *)
LEMMA WithinIsBetween ==
  ASSUME NEW bytes \in Seq(Byte), NEW a \in Payloads, NEW m \in Nat,
         NEW answers \in Seq(Payloads), Within(bytes, a, m, answers)
  PROVE  Between(bytes, answers)
<1>1. PICK pos : Laid(bytes, answers, pos) /\ RestOfAnswer(bytes, a, m, pos[0])
  BY DEF Within
<1>2. pos[0] \in Nat
  BY <1>1 DEF Laid
<1>3. NoStart(bytes, pos[0])
  BY <1>1, <1>2, RestIsNoStart
<1> QED
  BY <1>1, <1>3 DEF Between

(* d bytes without the marker at the end are the next ones of the answer.  *)
LEMMA WithinPasses ==
  ASSUME NEW bytes \in Seq(Byte), NEW later, NEW a \in Payloads, NEW m \in Nat,
         NEW answers \in Seq(Payloads), Within(bytes, a, m, answers),
         m <= Len(a),
         NEW d \in Nat, NoEnd(bytes, d), Without(bytes, d, later)
  PROVE  /\ Within(later, a, m + d, answers) /\ Spells(bytes, d, a, m)
<1>0. /\ later \in Seq(Byte) /\ d <= Len(bytes) /\ Len(later) = Len(bytes) - d
      /\ \A i \in 1..Len(bytes) - d : later[i] = bytes[i + d]
      /\ \A i \in 1..d : bytes[i] # Eom
  BY DEF Without, NoEnd
<1>1. PICK pos : Laid(bytes, answers, pos) /\ RestOfAnswer(bytes, a, m, pos[0])
  BY DEF Within
<1>2. /\ Len(answers) \in Nat /\ Len(bytes) \in Nat /\ Len(later) \in Nat
      /\ pos[0] \in 0..Len(bytes) /\ Len(a) \in Nat
  <2>1. later \in Seq(Byte) /\ Len(a) \in Nat
    BY <1>0, PayloadType
  <2>2. Len(answers) \in Nat /\ Len(bytes) \in Nat /\ Len(later) \in Nat
    BY <2>1
  <2>3. pos \in [0..Len(answers) -> 0..Len(bytes)]
    BY <1>1 DEF Laid
  <2> QED
    BY <2>1, <2>2, <2>3
<1>3. bytes[pos[0]] = Eom /\ m + pos[0] = Len(a) + 1
  BY <1>1 DEF RestOfAnswer
<1>4. d < pos[0]
  <2>1. 1 <= pos[0]
    BY <1>0, <1>2, <1>3
  <2> QED
    BY <1>0, <1>2, <1>3, <2>1
<1> DEFINE moved == [j \in 0..Len(answers) |-> pos[j] - d]
<1>5. \A i \in 1..Len(later) : later[i] = bytes[i + d]
  BY <1>0, <1>2
<1>6. Laid(later, answers, moved)
  <2>1. d <= pos[0]
    BY <1>0, <1>2, <1>4
  <2> QED
    BY <1>0, <1>1, <1>5, <2>1, LaidShift
<1>7. moved[0] = pos[0] - d
  BY <1>0, <1>2
<1> HIDE DEF moved
<1>8. RestOfAnswer(later, a, m + d, pos[0] - d)
  <2>1. pos[0] \in Nat /\ d < pos[0] /\ pos[0] <= Len(bytes)
    BY <1>0, <1>2, <1>4
  <2> QED
    BY <1>0, <1>1, <1>2, <2>1, RestMoves, Zenon
<1>9. Within(later, a, m + d, answers)
  BY <1>6, <1>7, <1>8 DEF Within
<1>10. m + d <= Len(a)
  BY <1>0, <1>2, <1>3, <1>4
<1>11. \A i \in 1..d : bytes[i] = a[m + i]
  BY <1>0, <1>1, <1>2, <1>4 DEF RestOfAnswer
<1> QED
  BY <1>9, <1>10, <1>11 DEF Spells

(* The marker at the end comes d bytes on: the answer is whole.            *)
LEMMA WithinEnds ==
  ASSUME NEW bytes \in Seq(Byte), NEW later, NEW a \in Payloads, NEW m \in Nat,
         NEW answers \in Seq(Payloads), Within(bytes, a, m, answers),
         m <= Len(a),
         NEW d \in Nat \ {0}, NoEnd(bytes, d - 1), bytes[d] = Eom,
         Without(bytes, d, later)
  PROVE  /\ Between(later, answers) /\ m + (d - 1) = Len(a)
         /\ Spells(bytes, d - 1, a, m)
<1>0. /\ later \in Seq(Byte) /\ d <= Len(bytes) /\ Len(later) = Len(bytes) - d
      /\ \A i \in 1..Len(bytes) - d : later[i] = bytes[i + d]
      /\ \A i \in 1..d - 1 : bytes[i] # Eom
  BY DEF Without, NoEnd
<1>1. PICK pos : Laid(bytes, answers, pos) /\ RestOfAnswer(bytes, a, m, pos[0])
  BY DEF Within
<1>2. /\ Len(answers) \in Nat /\ Len(bytes) \in Nat /\ Len(later) \in Nat
      /\ pos[0] \in 0..Len(bytes) /\ Len(a) \in Nat
  <2>1. later \in Seq(Byte) /\ Len(a) \in Nat
    BY <1>0, PayloadType
  <2>2. Len(answers) \in Nat /\ Len(bytes) \in Nat /\ Len(later) \in Nat
    BY <2>1
  <2>3. pos \in [0..Len(answers) -> 0..Len(bytes)]
    BY <1>1 DEF Laid
  <2> QED
    BY <2>1, <2>2, <2>3
<1>3. bytes[pos[0]] = Eom /\ m + pos[0] = Len(a) + 1
  BY <1>1 DEF RestOfAnswer
<1>4. d = pos[0]
  <2>1. 1 <= pos[0]
    BY <1>0, <1>2, <1>3
  <2>2. ~(pos[0] < d)
    BY <1>0, <1>2, <1>3, <2>1
  <2>3. ~(d < pos[0])
    <3> SUFFICES ASSUME d < pos[0] PROVE FALSE
      OBVIOUS
    <3>1. m + d \in 1..Len(a) /\ d \in 1..pos[0] - 1
      BY <1>0, <1>2, <1>3
    <3>2. bytes[d] = a[m + d]
      BY <1>1, <3>1 DEF RestOfAnswer
    <3> QED
      BY <3>1, <3>2, PayloadType
  <2> QED
    BY <1>0, <1>2, <2>2, <2>3
<1> DEFINE moved == [j \in 0..Len(answers) |-> pos[j] - d]
<1>5. \A i \in 1..Len(later) : later[i] = bytes[i + d]
  BY <1>0, <1>2
<1>6. Laid(later, answers, moved)
  <2>1. d <= pos[0]
    BY <1>0, <1>2, <1>4
  <2> QED
    BY <1>0, <1>1, <1>5, <2>1, LaidShift
<1>7. moved[0] = 0
  BY <1>0, <1>2, <1>4
<1> HIDE DEF moved
<1>8. Between(later, answers)
  BY <1>6, <1>7 DEF Between, NoStart
<1>9. m + (d - 1) = Len(a)
  BY <1>0, <1>2, <1>3, <1>4
<1>10. \A i \in 1..d - 1 : bytes[i] = a[m + i]
  BY <1>1, <1>4 DEF RestOfAnswer
<1> QED
  BY <1>2, <1>8, <1>9, <1>10 DEF Spells

LEMMA BetweenGrows ==
  ASSUME NEW bytes \in Seq(Byte), NEW answers \in Seq(Payloads), Between(bytes, answers),
         NEW a \in Payloads, NEW longer, Longer(bytes, a, longer)
  PROVE  Between(longer, Append(answers, a))
<1>1. PICK pos : Laid(bytes, answers, pos) /\ NoStart(bytes, pos[0])
  BY DEF Between
<1>2. Len(answers) \in Nat /\ Len(bytes) \in Nat /\ pos[0] \in 0..Len(bytes)
  BY <1>1 DEF Laid
<1> DEFINE next == [j \in 0..Len(answers) + 1 |-> IF j <= Len(answers) THEN pos[j] ELSE Len(longer)]
<1>3. Laid(longer, Append(answers, a), next)
  BY <1>1, LaidAppend, Zenon
<1>4. next[0] = pos[0]
  BY <1>2
<1> HIDE DEF next
<1>5. NoStart(longer, next[0])
  BY <1>1, <1>2, <1>4 DEF NoStart, Longer
<1> QED
  BY <1>3, <1>5 DEF Between

LEMMA WithinGrows ==
  ASSUME NEW bytes \in Seq(Byte), NEW answers \in Seq(Payloads), NEW b \in Payloads,
         NEW m \in Nat, m <= Len(b), Within(bytes, b, m, answers),
         NEW a \in Payloads, NEW longer, Longer(bytes, a, longer)
  PROVE  Within(longer, b, m, Append(answers, a))
<1>1. PICK pos : Laid(bytes, answers, pos) /\ RestOfAnswer(bytes, b, m, pos[0])
  BY DEF Within
<1>2. Len(answers) \in Nat /\ Len(bytes) \in Nat /\ pos[0] \in 0..Len(bytes) /\ Len(b) \in Nat
  BY <1>1, PayloadType DEF Laid
<1> DEFINE next == [j \in 0..Len(answers) + 1 |-> IF j <= Len(answers) THEN pos[j] ELSE Len(longer)]
<1>3. Laid(longer, Append(answers, a), next)
  BY <1>1, LaidAppend, Zenon
<1>4. next[0] = pos[0]
  BY <1>2
<1> HIDE DEF next
<1>5. \A i \in 1..pos[0] : longer[i] = bytes[i]
  BY <1>2 DEF Longer
<1>6. pos[0] \in 1..pos[0]
  BY <1>1, <1>2 DEF RestOfAnswer
<1>7. RestOfAnswer(longer, b, m, pos[0])
  BY <1>1, <1>2, <1>5, <1>6 DEF RestOfAnswer
<1> QED
  BY <1>3, <1>4, <1>7 DEF Within

(* An answer that is sent is the last of what is pending.                  *)
LEMMA PendingGrows ==
  ASSUME TypeOK, ReadsFresh, NEW a \in Payloads,
         wire' = wire \o <<Resp>> \o a \o <<Eom>>,
         UNCHANGED <<readBuf, fullness, offset>>
  PROVE  Longer(Pending, a, Pending')
<1> USE ReaderAssumption
<1> DEFINE n == fullness - offset
           w == wire \o <<Resp>> \o a \o <<Eom>>
<1>1. /\ readBuf \in [0..BufSize - 1 -> Byte] /\ fullness \in 0..BufSize
      /\ offset \in 0..fullness /\ wire \in Seq(Byte) /\ BufSize \in Nat
      /\ Len(wire) \in Nat /\ n \in Nat
  BY DEF TypeOK, ReadsFresh
<1>2. /\ Len(Pending) = n + Len(wire) /\ Pending \in Seq(Byte)
      /\ \A i \in 1..n : Pending[i] = readBuf[offset + i - 1]
      /\ \A i \in 1..Len(wire) : Pending[n + i] = wire[i]
  BY PendingNow
<1>3. a \in Seq(Byte) /\ Len(a) \in Nat
  BY PayloadType
<1>4. Longer(wire, a, w)
  BY <1>1, <1>3, SentBehind
<1>5. Pending' = PendingIn(readBuf, fullness, offset, w)
  BY DEF Pending
<1> HIDE DEF w
<1>6. w \in Seq(Byte)
  BY <1>4 DEF Longer
<1>7. ComesFrom(PendingIn(readBuf, fullness, offset, w), readBuf, fullness, offset, w)
  BY <1>1, <1>6, PendingType
<1> DEFINE q == PendingIn(readBuf, fullness, offset, w)
<1>8. /\ q \in Seq(Byte) /\ Len(q) = n + Len(w)
      /\ \A i \in 1..n : q[i] = readBuf[offset + i - 1]
      /\ \A i \in 1..Len(w) : q[n + i] = w[i]
  BY <1>7 DEF ComesFrom
<1> HIDE DEF q, n
<1>9. Len(w) = Len(wire) + Len(a) + 2
  BY <1>4 DEF Longer
<1>10. ASSUME NEW i \in 1..Len(Pending) PROVE q[i] = Pending[i]
  <2>1. CASE i <= n
    BY <1>1, <1>2, <1>8, <2>1
  <2>2. CASE ~(i <= n)
    <3>1. i - n \in 1..Len(wire) /\ i - n \in 1..Len(w) /\ n + (i - n) = i
      BY <1>1, <1>2, <1>3, <1>9, <2>2
    <3>2. q[n + (i - n)] = w[i - n] /\ Pending[n + (i - n)] = wire[i - n]
      BY <1>2, <1>8, <3>1
    <3>3. w[i - n] = wire[i - n]
      BY <1>4, <3>1 DEF Longer
    <3> QED
      BY <3>1, <3>2, <3>3
  <2> QED
    BY <2>1, <2>2
<1>11. q[Len(Pending) + 1] = Resp
  <2>1. Len(wire) + 1 \in 1..Len(w) /\ n + (Len(wire) + 1) = Len(Pending) + 1
    BY <1>1, <1>2, <1>3, <1>9
  <2> QED
    BY <1>4, <1>8, <2>1 DEF Longer
<1>12. ASSUME NEW k \in 1..Len(a) PROVE q[Len(Pending) + 1 + k] = a[k]
  <2>1. Len(wire) + 1 + k \in 1..Len(w) /\ n + (Len(wire) + 1 + k) = Len(Pending) + 1 + k
    BY <1>1, <1>2, <1>3, <1>9
  <2>2. q[n + (Len(wire) + 1 + k)] = w[Len(wire) + 1 + k]
    BY <1>8, <2>1
  <2>3. w[Len(wire) + 1 + k] = a[k]
    BY <1>4 DEF Longer
  <2> QED
    BY <2>1, <2>2, <2>3
<1>13. q[Len(q)] = Eom
  <2>1. Len(w) \in 1..Len(w)
    BY <1>1, <1>3, <1>9
  <2> QED
    BY <1>4, <1>8, <2>1 DEF Longer
<1>14. Len(q) = Len(Pending) + Len(a) + 2
  BY <1>1, <1>2, <1>3, <1>8, <1>9
<1>15. Longer(Pending, a, q)
  BY <1>8, <1>10, <1>11, <1>12, <1>13, <1>14 DEF Longer
<1> QED
  BY <1>5, <1>15 DEF q

-----------------------------------------------------------------------------
(* What is collected behind the message are the next bytes that pend.      *)
LEMMA PieceIsNext ==
  ASSUME TypeOK, ReadsFresh, NEW k \in 0..fullness - offset,
         NEW a \in Payloads, Spells(Pending, k, a, Len(message)),
         \A i \in 1..Len(message) : message[i] = a[i]
  PROVE  LET longer == message \o Piece(k)
         IN  /\ longer \in Seq(Byte) /\ Len(longer) = Len(message) + k
             /\ \A i \in 1..Len(longer) : longer[i] = a[i]
<1> USE ReaderAssumption
<1> DEFINE m == Len(message)
           longer == message \o Piece(k)
<1>1. /\ message \in Seq(Byte) /\ m \in Nat /\ k \in Nat /\ k <= fullness - offset
      /\ offset \in Nat /\ offset + k <= BufSize /\ BufSize \in Nat
      /\ readBuf \in [0..BufSize - 1 -> Byte]
  BY DEF TypeOK, ReadsFresh
<1>2. Piece(k) \in Seq(Byte) /\ Len(Piece(k)) = k
  BY <1>1, PieceType
<1>3. /\ longer \in Seq(Byte) /\ Len(longer) = m + k
      /\ \A i \in 1..m + k : longer[i] = IF i <= m THEN message[i] ELSE Piece(k)[i - m]
  BY <1>1, <1>2, ConcatProperties
<1>4. \A i \in 1..k : Piece(k)[i] = a[m + i]
  <2>1. \A i \in 1..k : Piece(k)[i] = readBuf[offset + i - 1]
    BY DEF Piece
  <2>2. \A i \in 1..fullness - offset : Pending[i] = readBuf[offset + i - 1]
    BY PendingNow
  <2>3. \A i \in 1..k : i \in 1..fullness - offset
    BY <1>1 DEF TypeOK
  <2> QED
    BY <2>1, <2>2, <2>3 DEF Spells
<1> HIDE DEF longer
<1>5. ASSUME NEW i \in 1..m + k PROVE longer[i] = a[i]
  <2>1. CASE i <= m
    BY <1>1, <1>3, <2>1
  <2>2. CASE ~(i <= m)
    <3>1. i - m \in 1..k /\ m + (i - m) = i
      BY <1>1, <2>2
    <3>2. Piece(k)[i - m] = a[m + (i - m)]
      BY <1>4, <3>1
    <3> QED
      BY <1>3, <2>2, <3>1, <3>2
  <2> QED
    BY <2>1, <2>2
<1> QED
  BY <1>3, <1>5 DEF longer

(* What a call returns that comes to the end of the oldest answer, or to   *)
(* the end of its buffer.                                                  *)
LEMMA WholeOrCut ==
  ASSUME NEW a \in Payloads, NEW b \in Seq(Byte),
         Len(b) <= Len(a), \A i \in 1..Len(b) : b[i] = a[i],
         \/ Len(b) = Len(a) /\ Len(a) <= BufSize
         \/ Len(b) = BufSize
  PROVE  b = Stream!Cut(a)
<1>1. a \in Seq(Byte) /\ Len(a) \in Nat /\ Len(b) \in Nat /\ BufSize \in Nat
  BY PayloadType, ReaderAssumption
<1>2. CASE Len(a) > BufSize
  <2> DEFINE c == SubSeq(a, 1, BufSize)
  <2>1. /\ c \in Seq(Byte) /\ Len(c) = BufSize /\ \A i \in 1..BufSize : c[i] = a[i]
    BY <1>1, <1>2
  <2>2. Len(b) = BufSize
    BY <1>1, <1>2
  <2> HIDE DEF c
  <2>3. b = c
    <3>1. Len(b) = Len(c) /\ \A i \in 1..Len(b) : b[i] = c[i]
      BY <2>1, <2>2
    <3> QED
      BY <2>1, <3>1, SeqEqual, Zenon
  <2> QED
    BY <1>2, <2>3 DEF Stream!Cut, c
<1>3. CASE ~(Len(a) > BufSize)
  <2>1. Len(b) = Len(a)
    BY <1>1, <1>3
  <2>2. b = a
    BY <1>1, <2>1, SeqEqual
  <2> QED
    BY <1>3, <2>2 DEF Stream!Cut
<1> QED
  BY <1>2, <1>3

(* What a piece of an answer leaves: the call returns the oldest answer, or*)
(* goes on with what is left of it.                                        *)
Answered ==
  /\ pc' = "idle" /\ unread # <<>> /\ unread' = Tail(unread)
  /\ result' = Got(Stream!Cut(Head(unread)))
  /\ Between(Pending', Tail(unread))

GoesOn ==
  /\ pc' = "collect" /\ UNCHANGED <<unread, result>>
  /\ Len(message') < BufSize /\ Len(message') <= Len(Head(unread))
  /\ \A k \in 1..Len(message') : message'[k] = Head(unread)[k]
  /\ Within(Pending', Head(unread), Len(message'), Tail(unread))

LEMMA PieceStep ==
  ASSUME TypeOK, ReadsFresh, StreamInv, Collecting,
         NEW n \in 1..fullness - offset, CopyPiece(n)
  PROVE  Answered \/ GoesOn
<1> USE ReaderAssumption
<1> DEFINE m == Len(message)
           a == Head(unread)
           rest == Tail(unread)
<1>1. /\ unread # <<>> /\ m < BufSize /\ m <= Len(a)
      /\ \A k \in 1..m : message[k] = a[k]
      /\ Within(Pending, a, m, rest)
  BY DEF StreamInv, MessageInv
<1>2. /\ unread \in Seq(Payloads) /\ message \in Seq(Byte) /\ m \in Nat /\ BufSize \in Nat
      /\ fullness \in Nat /\ offset \in Nat
  BY DEF TypeOK
<1>3. a \in Payloads /\ rest \in Seq(Payloads) /\ Len(a) \in Nat
  <2>1. a \in Payloads /\ rest \in Seq(Payloads)
    BY <1>1, <1>2
  <2> QED
    BY <2>1, PayloadType
<1>4. Rest = rest
  BY <1>1 DEF Rest
<1> HIDE DEF m, a, rest
<1>5. n \in Nat \ {0} /\ n <= fullness - offset /\ n - 1 \in Nat
  BY <1>2
<1>6. /\ offset' = offset + n /\ n <= BufSize - m
      /\ \A k \in 0..n - 2 : readBuf[offset + k] # Eom
      /\ UNCHANGED <<wire, readBuf, fullness>>
  BY DEF CopyPiece, IsPiece, port, m
<1>7. Without(Pending, n, Pending')
  <2>1. n \in 0..fullness - offset
    BY <1>5
  <2> QED
    BY <1>6, <2>1, CursorPasses
<1>8. /\ Pending \in Seq(Byte) /\ Len(Pending) \in Nat
      /\ \A i \in 1..fullness - offset : Pending[i] = readBuf[offset + i - 1]
  BY PendingNow
<1>9. \A i \in 1..n - 1 : Pending[i] # Eom
  <2> SUFFICES ASSUME NEW i \in 1..n - 1 PROVE Pending[i] # Eom
    OBVIOUS
  <2>1. i \in 1..fullness - offset /\ i - 1 \in 0..n - 2 /\ offset + (i - 1) = offset + i - 1
    BY <1>2, <1>5
  <2> QED
    BY <1>6, <1>8, <2>1
<1>10. Pending[n] = readBuf[offset + n - 1]
  BY <1>5, <1>8
<1>11. CASE Pending[n] = Eom
  <2>1. /\ Between(Pending', rest) /\ m + (n - 1) = Len(a)
        /\ Spells(Pending, n - 1, a, m)
    <3>1. NoEnd(Pending, n - 1) /\ Pending[n] = Eom
      BY <1>9, <1>11 DEF NoEnd
    <3> QED
      BY <1>1, <1>2, <1>3, <1>5, <1>7, <1>8, <3>1, WithinEnds, Zenon
  <2>2. message' = message \o Piece(n - 1) /\ pc' = "idle" /\ result' = Got(message')
        /\ unread' = rest
    BY <1>4, <1>10, <1>11 DEF CopyPiece, Return
  <2>3. n - 1 \in 0..fullness - offset /\ m + (n - 1) <= Len(a) /\ m + (n - 1) <= BufSize
    BY <1>2, <1>3, <1>5, <1>6, <2>1
  <2>4. /\ message' \in Seq(Byte) /\ Len(message') = m + (n - 1)
        /\ \A i \in 1..Len(message') : message'[i] = a[i]
    BY <1>1, <1>3, <2>1, <2>2, <2>3, PieceIsNext DEF m
  <2>5. message' = Stream!Cut(a)
    <3> DEFINE b == message'
    <3>1. b \in Seq(Byte) /\ \A i \in 1..Len(b) : b[i] = a[i]
      BY <2>4
    <3>2. Len(b) <= Len(a) /\ Len(b) = Len(a) /\ Len(a) <= BufSize
      BY <1>3, <2>1, <2>3, <2>4
    <3> HIDE DEF b
    <3>3. b = Stream!Cut(a)
      BY <1>3, <3>1, <3>2, WholeOrCut
    <3> QED
      BY <3>3 DEF b
  <2> QED
    BY <1>1, <2>1, <2>2, <2>5 DEF Answered, a, rest
<1>12. CASE Pending[n] # Eom
  <2>1. \A i \in 1..n : Pending[i] # Eom
    <3>1. \A i \in 1..n : i = n \/ i \in 1..n - 1
      BY <1>5
    <3> QED
      BY <1>9, <1>12, <3>1
  <2>2. Within(Pending', a, m + n, rest) /\ Spells(Pending, n, a, m)
    <3>1. n \in Nat /\ NoEnd(Pending, n)
      BY <1>5, <2>1 DEF NoEnd
    <3> QED
      BY <1>1, <1>2, <1>3, <1>7, <1>8, <3>1, WithinPasses, Zenon
  <2>3. /\ message' = message \o Piece(n)
        /\ IF Len(message') = BufSize
           THEN pc' = "idle" /\ result' = Got(message') /\ unread' = rest
           ELSE pc' = "collect" /\ UNCHANGED <<unread, result>>
    BY <1>4, <1>10, <1>12 DEF CopyPiece, Return
  <2>4. n \in 0..fullness - offset /\ m + n <= Len(a)
    BY <1>5, <2>2 DEF Spells
  <2>5. /\ message' \in Seq(Byte) /\ Len(message') = m + n
        /\ \A i \in 1..Len(message') : message'[i] = a[i]
    BY <1>1, <1>3, <2>2, <2>3, <2>4, PieceIsNext DEF m
  <2>6. CASE Len(message') = BufSize
    <3>1. message' = Stream!Cut(a)
      <4> DEFINE b == message'
      <4>1. b \in Seq(Byte) /\ \A i \in 1..Len(b) : b[i] = a[i]
        BY <2>5
      <4>2. Len(b) <= Len(a) /\ Len(b) = BufSize
        BY <2>4, <2>5, <2>6
      <4> HIDE DEF b
      <4>3. b = Stream!Cut(a)
        BY <1>3, <4>1, <4>2, WholeOrCut
      <4> QED
        BY <4>3 DEF b
    <3>2. Between(Pending', rest)
      <4>1. m + n \in Nat
        BY <1>2, <1>5
      <4> QED
        BY <1>3, <1>7, <2>2, <4>1, WithinIsBetween DEF Without
    <3> QED
      BY <1>1, <2>3, <2>6, <3>1, <3>2 DEF Answered, a, rest
  <2>7. CASE Len(message') # BufSize
    <3>1. Len(message') < BufSize
      BY <1>2, <1>5, <1>6, <2>5, <2>7
    <3> QED
      BY <2>2, <2>3, <2>4, <2>5, <2>7, <3>1 DEF GoesOn, a, rest
  <2> QED
    BY <2>6, <2>7
<1> QED
  BY <1>11, <1>12

-----------------------------------------------------------------------------
LEMMA StreamStarts == Init => StreamInv
<1> USE ReaderAssumption
<1> SUFFICES ASSUME Init PROVE StreamInv
  OBVIOUS
<1>1. wire \in Seq(Data \cup {Eom}) /\ Len(wire) \in Nat
  BY DEF Init
<1>2. wire \in Seq(Byte) /\ \A i \in 1..Len(wire) : wire[i] # Resp
  <2>1. \A b \in Data \cup {Eom} : b \in Byte /\ b # Resp
    BY DEF Byte, Resp, Eom
  <2> QED
    BY <1>1, <2>1
<1>3. TypeOK /\ ReadsFresh
  BY <1>2 DEF Init, TypeOK, ReadsFresh, Byte
<1>4. /\ Pending \in Seq(Byte) /\ Len(Pending) = Len(wire)
      /\ \A i \in 1..Len(wire) : Pending[i] = wire[i]
  <2>1. fullness - offset = 0
    BY DEF Init
  <2>2. /\ Pending \in Seq(Byte) /\ Len(Pending) = 0 + Len(wire)
        /\ \A i \in 1..Len(wire) : Pending[0 + i] = wire[i]
    BY <1>3, <2>1, PendingNow
  <2> QED
    BY <1>1, <2>2
<1> DEFINE pos == [j \in 0..0 |-> Len(Pending)]
<1>5. Laid(Pending, unread, pos) /\ NoStart(Pending, pos[0])
  <2>1. unread = <<>> /\ Len(unread) = 0
    BY DEF Init
  <2>2. pos[0] = Len(Pending) /\ \A i, j \in 0..0 : pos[i] <= pos[j]
    BY <1>1, <1>4
  <2>3. pos \in [0..0 -> 0..Len(Pending)] /\ 1..0 = {}
    BY <1>1, <1>4
  <2> HIDE DEF pos
  <2>4. Laid(Pending, unread, pos)
    BY <2>1, <2>2, <2>3 DEF Laid
  <2>5. NoStart(Pending, pos[0])
    BY <1>2, <1>4, <2>2 DEF NoStart
  <2> QED
    BY <2>4, <2>5
<1>6. Between(Pending, unread)
  BY <1>5 DEF Between
<1> QED
  BY <1>6 DEF Init, StreamInv, MessageInv, Collecting

(* An answer that is sent is the last of those that are unread.            *)
LEMMA SendStep ==
  ASSUME TypeOK, ReadsFresh, StreamInv, Send
  PROVE  StreamInv'
<1> USE ReaderAssumption
<1>1. PICK a \in Payloads : /\ wire' = wire \o <<Resp>> \o a \o <<Eom>>
                            /\ unread' = Append(unread, a)
  BY DEF Send
<1>2. UNCHANGED <<pc, readBuf, fullness, offset, message, result>>
  BY DEF Send, cursors
<1>3. Longer(Pending, a, Pending')
  BY <1>1, <1>2, PendingGrows
<1>4. unread \in Seq(Payloads) /\ Pending \in Seq(Byte) /\ Len(message) \in Nat
  BY PendingNow DEF TypeOK
<1>5. Collecting' <=> Collecting
  BY <1>2 DEF Collecting
<1>6. CASE Collecting
  <2>1. /\ unread # <<>> /\ Len(message) <= Len(Head(unread))
        /\ Within(Pending, Head(unread), Len(message), Tail(unread))
    BY <1>6 DEF StreamInv, MessageInv
  <2>2. Head(unread) \in Payloads /\ Tail(unread) \in Seq(Payloads)
    BY <1>4, <2>1
  <2>3. /\ unread' # <<>> /\ Head(unread') = Head(unread)
        /\ Tail(unread') = Append(Tail(unread), a)
    BY <1>1, <1>4, <2>1
  <2>4. Within(Pending', Head(unread), Len(message), Append(Tail(unread), a))
    BY <1>3, <1>4, <2>1, <2>2, WithinGrows, Zenon
  <2>5. MessageInv'
    BY <1>2, <1>5, <2>3 DEF StreamInv, MessageInv
  <2> QED
    BY <1>2, <1>5, <1>6, <2>3, <2>4, <2>5 DEF StreamInv
<1>7. CASE ~Collecting
  <2>1. Between(Pending', Append(unread, a))
    <3>1. Between(Pending, unread)
      BY <1>7 DEF StreamInv
    <3> QED
      BY <1>3, <1>4, <3>1, BetweenGrows, Zenon
  <2>2. MessageInv'
    BY <1>2, <1>5, <1>7 DEF StreamInv, MessageInv
  <2> QED
    BY <1>1, <1>5, <1>7, <2>1, <2>2 DEF StreamInv
<1> QED
  BY <1>6, <1>7

(* A call that fails gives up the answer it is in the middle of.           *)
LEMMA FailStep ==
  ASSUME TypeOK, StreamInv, ReadFails, Pending \in Seq(Byte)
  PROVE  StreamInv' /\ unread' = IF Collecting THEN Tail(unread) ELSE unread
<1>1. pc \in {"drain", "collect"} /\ pc' = "idle" /\ Pending' = Pending /\ ~Collecting'
  BY DEF ReadFails, Return, Pending, port, cursors, Collecting
<1>2. MessageInv'
  BY <1>1 DEF MessageInv
<1>3. unread' = IF Collecting THEN Tail(unread) ELSE unread
  BY <1>1 DEF ReadFails, Return, Rest, StreamInv, MessageInv, Collecting
<1>4. CASE Collecting
  <2>1. /\ Len(message) \in Nat /\ Head(unread) \in Payloads /\ Tail(unread) \in Seq(Payloads)
    BY <1>4 DEF TypeOK, StreamInv, MessageInv
  <2>2. Within(Pending, Head(unread), Len(message), Tail(unread))
    BY <1>4 DEF StreamInv
  <2>3. Between(Pending, Tail(unread))
    BY <2>1, <2>2, WithinIsBetween
  <2> QED
    BY <1>1, <1>2, <1>3, <1>4, <2>3 DEF StreamInv
<1>5. CASE ~Collecting
  BY <1>1, <1>2, <1>3, <1>5 DEF StreamInv
<1> QED
  BY <1>3, <1>4, <1>5

(* The byte that is looked at is the first that pends.                     *)
LEMMA ScanStep ==
  ASSUME TypeOK, CursorInv, StreamInv, Scan
  PROVE  StreamInv' /\ UNCHANGED <<unread, result>>
<1> USE ReaderAssumption
<1>1. /\ offset \in Nat /\ fullness \in Nat /\ fullness <= BufSize /\ BufSize \in Nat
      /\ offset < fullness /\ pc \in {"scan", "drain"} /\ ReadsFresh
  BY DEF Scan, Empty, TypeOK, CursorInv, ReadsFresh
<1>2. /\ offset' = offset + 1
      /\ pc' = IF readBuf[offset] = Resp THEN "collect" ELSE "drain"
      /\ UNCHANGED <<wire, unread, readBuf, fullness, message, result>>
  BY <1>1 DEF Scan, port
<1>3. message = <<>> /\ result = None /\ Between(Pending, unread)
  BY <1>1 DEF StreamInv, MessageInv, Collecting
<1>4. Without(Pending, 1, Pending')
  <2>1. 1 \in 0..fullness - offset
    BY <1>1
  <2> QED
    BY <1>1, <1>2, <2>1, CursorPasses
<1>5. Pending \in Seq(Byte) /\ Pending[1] = readBuf[offset]
  <2>1. Pending \in Seq(Byte) /\ \A i \in 1..fullness - offset : Pending[i] = readBuf[offset + i - 1]
    BY <1>1, PendingNow
  <2>2. 1 \in 1..fullness - offset /\ offset + 1 - 1 = offset
    BY <1>1
  <2> QED
    BY <2>1, <2>2
<1>6. unread \in Seq(Payloads)
  BY DEF TypeOK
<1>7. CASE readBuf[offset] = Resp
  <2>1. unread # <<>> /\ Within(Pending', Head(unread), 0, Tail(unread))
    BY <1>3, <1>4, <1>5, <1>6, <1>7, BetweenStarts, Zenon
  <2>2. Collecting' /\ Len(message') = 0
    BY <1>2, <1>3, <1>7 DEF Collecting
  <2>3. Head(unread) \in Seq(Byte) /\ Len(Head(unread)) \in Nat
    <3>1. Head(unread) \in Payloads
      BY <1>6, <2>1
    <3> QED
      BY <3>1, PayloadType
  <2>4. MessageInv'
    BY <1>2, <1>3, <1>7, <2>1, <2>2, <2>3 DEF MessageInv
  <2> QED
    BY <1>2, <2>1, <2>2, <2>4 DEF StreamInv
<1>8. CASE readBuf[offset] # Resp
  <2>1. Between(Pending', unread)
    BY <1>3, <1>4, <1>5, <1>6, <1>8, BetweenPasses, Zenon
  <2>2. ~Collecting' /\ pc' = "drain"
    BY <1>2, <1>8 DEF Collecting
  <2>3. MessageInv'
    BY <1>2, <1>3, <2>2 DEF MessageInv
  <2> QED
    BY <1>2, <2>1, <2>2, <2>3 DEF StreamInv
<1> QED
  BY <1>2, <1>7, <1>8

(* A turn of the second loop has bytes to copy.                            *)
LEMMA CopyStep ==
  ASSUME TypeOK, CursorInv, StreamInv, Copy
  PROVE  Collecting /\ (Answered \/ GoesOn)
<1>1. Collecting /\ ReadsFresh
  BY DEF Copy, Collecting, CursorInv
<1>2. offset < fullness
  BY DEF Copy, Empty, CursorInv, ReadsFresh, TypeOK
<1>3. PICK n \in 1..fullness - offset : CopyPiece(n)
  BY <1>2 DEF Copy
<1> QED
  BY <1>1, <1>3, PieceStep

(* What a step does to the answers that are unread and to the result.      *)
ReadStep ==
  \/ \E a \in Payloads : unread' = Append(unread, a) /\ UNCHANGED result
  \/ unread' = unread /\ result' \in {result, None}
  \/ result = None /\ result' = Failed /\ unread' = unread
  \/ result = None /\ result' = Failed /\ unread # <<>> /\ unread' = Tail(unread)
  \/ /\ result = None /\ unread # <<>>
     /\ result' = Got(Stream!Cut(Head(unread))) /\ unread' = Tail(unread)

(* Every step keeps StreamInv, and does what RspStream allows.             *)
LEMMA StreamStep ==
  ASSUME TypeOK, CursorInv, StreamInv, [Next]_vars
  PROVE  StreamInv' /\ ReadStep
<1> USE ReaderAssumption
<1>0. ReadsFresh /\ Pending \in Seq(Byte)
  BY PendingNow DEF CursorInv
<1>1. CASE Send
  <2>1. ReadStep
    BY <1>1 DEF Send, ReadStep
  <2> QED
    BY <1>0, <1>1, <2>1, SendStep
<1>2. CASE Call
  <2>1. /\ pc' = "drain" /\ pc = "idle" /\ message' = <<>> /\ result' = None
        /\ unread' = unread /\ Pending' = Pending
    BY <1>2 DEF Call, port, cursors, Pending
  <2>2. ~Collecting /\ ~Collecting' /\ MessageInv'
    BY <2>1 DEF Collecting, MessageInv
  <2> QED
    BY <2>1, <2>2 DEF StreamInv, ReadStep
<1>3. CASE Refill
  <2>1. Pending' = Pending
    BY <1>0, <1>3, RefillKeeps
  <2>2. /\ UNCHANGED <<unread, message, result>>
        /\ pc \in {"drain", "collect"} /\ pc' = IF pc = "drain" THEN "scan" ELSE "copy"
    BY <1>3 DEF Refill
  <2>3. Collecting' <=> Collecting
    BY <2>2 DEF Collecting
  <2>4. MessageInv'
    BY <2>2, <2>3 DEF StreamInv, MessageInv
  <2> QED
    BY <2>1, <2>2, <2>3, <2>4 DEF StreamInv, ReadStep
<1>4. CASE ReadFails
  <2>1. StreamInv' /\ unread' = IF Collecting THEN Tail(unread) ELSE unread
    BY <1>0, <1>4, FailStep
  <2>2. result = None /\ result' = Failed /\ (Collecting => unread # <<>>)
    BY <1>4 DEF ReadFails, Return, StreamInv, MessageInv
  <2> QED
    BY <2>1, <2>2 DEF ReadStep
<1>5. CASE Scan
  <2>1. StreamInv' /\ UNCHANGED <<unread, result>>
    BY <1>5, ScanStep
  <2> QED
    BY <2>1 DEF ReadStep
<1>6. CASE Copy
  <2>1. Collecting /\ (Answered \/ GoesOn) /\ result = None
    BY <1>6, CopyStep DEF StreamInv, MessageInv, Collecting
  <2>2. CASE Answered
    <3>1. ReadStep
      BY <2>1, <2>2 DEF Answered, ReadStep
    <3>2. ~Collecting' /\ MessageInv'
      BY <2>2 DEF Answered, Collecting, MessageInv
    <3> QED
      BY <2>2, <3>1, <3>2 DEF Answered, StreamInv
  <2>3. CASE GoesOn
    <3>1. ReadStep
      BY <2>3 DEF GoesOn, ReadStep
    <3>2. Collecting' /\ MessageInv'
      BY <2>1, <2>3 DEF GoesOn, Collecting, StreamInv, MessageInv
    <3> QED
      BY <2>3, <3>1, <3>2 DEF GoesOn, StreamInv
  <2> QED
    BY <2>1, <2>2, <2>3
<1>7. CASE UNCHANGED vars
  <2>1. UNCHANGED <<pc, unread, message, result>> /\ Pending' = Pending
    BY <1>7 DEF vars, port, cursors, Pending
  <2>2. (Collecting' <=> Collecting) /\ MessageInv'
    BY <2>1 DEF Collecting, StreamInv, MessageInv
  <2> QED
    BY <2>1, <2>2 DEF StreamInv, ReadStep
<1> QED
  BY <1>1, <1>2, <1>3, <1>4, <1>5, <1>6, <1>7 DEF Next, BufferRead

(* The bytes that are pending are the answers that are unread, always.     *)
LEMMA StreamInvariant == ASSUME ~Hangup PROVE Spec => []StreamInv
<1>1. TypeOK /\ CursorInv /\ StreamInv /\ [Next]_vars => StreamInv'
  BY StreamStep
<1> QED
  BY <1>1, StreamStarts, TypeCorrect, CursorsInductive, PTL DEF Spec

(* Answers come out of buffer_read whole, or cut to what fits a message,   *)
(* once and in the order they were sent, for every size of the buffer and  *)
(* of the answers and whatever pieces they came in (bmd_rsp.rs:123-173).   *)
THEOREM ReaderImplementsStream == ASSUME ~Hangup PROVE Spec => ImplementsStream
<1>1. Init => Stream!Init
  BY DEF Init, Stream!Init, None, Stream!None
<1>2. TypeOK /\ CursorInv /\ StreamInv /\ [Next]_vars => [Stream!Next]_Stream!vars
  <2> SUFFICES ASSUME TypeOK, CursorInv, StreamInv, [Next]_vars
               PROVE  [Stream!Next]_Stream!vars
    OBVIOUS
  <2>1. ReadStep
    BY StreamStep
  <2>2. None = Stream!None /\ Failed = Stream!Failed /\ \A a : Got(a) = Stream!Got(a)
    BY DEF None, Failed, Got, Stream!None, Stream!Failed, Stream!Got
  <2>3. CASE \E a \in Payloads : unread' = Append(unread, a) /\ UNCHANGED result
    BY <2>3 DEF Stream!Next, Stream!Send
  <2>4. CASE unread' = unread /\ result' \in {result, None}
    BY <2>2, <2>4 DEF Stream!Next, Stream!Ask, Stream!vars
  <2>5. CASE result = None /\ result' = Failed /\ unread' = unread
    BY <2>2, <2>5 DEF Stream!Next, Stream!Fail
  <2>6. CASE result = None /\ result' = Failed /\ unread # <<>> /\ unread' = Tail(unread)
    BY <2>2, <2>6 DEF Stream!Next, Stream!Fail
  <2>7. CASE /\ result = None /\ unread # <<>>
             /\ result' = Got(Stream!Cut(Head(unread))) /\ unread' = Tail(unread)
    BY <2>2, <2>7 DEF Stream!Next, Stream!Read
  <2> QED
    BY <2>1, <2>3, <2>4, <2>5, <2>6, <2>7 DEF ReadStep
<1> QED
  BY <1>1, <1>2, TypeCorrect, CursorsInductive, StreamInvariant, PTL
     DEF Spec, ImplementsStream, Stream!Spec

-----------------------------------------------------------------------------
(* What a call of buffer_read can still do: take a byte off the wire, and  *)
(* look at it.                                                             *)
BytesLeft == 2 * Len(wire) + (fullness - offset)

(* Every turn of the loops of buffer_read that does not return uses up     *)
(* bytes that were sent, and the others are the caller's and the probe's:  *)
(* whatever comes in, a call takes no more steps than twice the bytes      *)
(* there are (bmd_rsp.rs:127-168).                                         *)
THEOREM ReadUsesBytes ==
  ASSUME ~Hangup
  PROVE  Spec => [][BufferRead => pc' = "idle" \/ BytesLeft' \in 0..BytesLeft - 1]_vars
<1> USE ReaderAssumption
<1>1. TypeOK /\ CursorInv /\ [Next]_vars
        => [BufferRead => pc' = "idle" \/ BytesLeft' \in 0..BytesLeft - 1]_vars
  <2> SUFFICES ASSUME TypeOK, CursorInv, BufferRead
               PROVE  pc' = "idle" \/ BytesLeft' \in 0..BytesLeft - 1
    OBVIOUS
  <2>0. /\ offset \in Nat /\ fullness \in Nat /\ offset <= fullness /\ fullness <= BufSize
        /\ wire \in Seq(Byte) /\ Len(wire) \in Nat
    BY DEF TypeOK, CursorInv, ReadsFresh
  <2>1. CASE Refill
    <3>1. PICK n \in 1..BufSize :
            /\ n <= Len(wire) /\ fullness' = n /\ offset' = 0
            /\ wire' = SubSeq(wire, n + 1, Len(wire))
      BY <2>1 DEF Refill
    <3>2. Len(wire') = Len(wire) - n
      BY <2>0, <3>1
    <3> QED
      BY <2>0, <2>1, <3>1, <3>2 DEF Refill, Empty, BytesLeft
  <2>2. CASE ReadFails
    BY <2>2 DEF ReadFails, Return
  <2>3. CASE Scan
    <3>1. offset < fullness
      BY <2>0, <2>3 DEF Scan, Empty, CursorInv, ReadsFresh
    <3>2. offset' = offset + 1 /\ fullness' = fullness /\ wire' = wire
      BY <2>0, <2>3, <3>1 DEF Scan, port
    <3> QED
      BY <2>0, <3>1, <3>2 DEF BytesLeft
  <2>4. CASE Copy
    <3>1. offset < fullness
      BY <2>0, <2>4 DEF Copy, Empty, CursorInv, ReadsFresh
    <3>2. PICK n \in 1..fullness - offset : CopyPiece(n)
      BY <2>4, <3>1 DEF Copy
    <3>3. offset' = offset + n /\ fullness' = fullness /\ wire' = wire
      BY <3>2 DEF CopyPiece, port
    <3> QED
      BY <2>0, <3>3 DEF BytesLeft
  <2> QED
    BY <2>1, <2>2, <2>3, <2>4 DEF BufferRead
<1> QED
  BY <1>1, TypeCorrect, CursorsInductive, PTL DEF Spec
=============================================================================
