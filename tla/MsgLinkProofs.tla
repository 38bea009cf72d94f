---------------------------- MODULE MsgLinkProofs ----------------------------
(***************************************************************************)
(* The safety properties of MsgLink hold for any messages, sizes, buffers  *)
(* and counts, and whichever frames are lost.                              *)
(***************************************************************************)
EXTENDS MsgLink, SequenceLemmas

Byte == 0 .. (Radix - 1)

----------------------------------------------------------------------------
\* The inductive invariant.

\* What stands in a frame of messages ms behind each of them.
Layouts(ms) ==
    {after \in [0 .. Len(ms) -> Seq(Byte)] :
        /\ after[Len(ms)] = << >>
        /\ \A i \in 1 .. Len(ms) : after[i - 1] = Built(ms[i]) \o after[i]}

\* A frame is within its buffer and consists of its messages, in order.
FrameInv(f) ==
    /\ f \in Frames /\ f.cap \in Capacities /\ FrameBytes(f) <= f.cap
    /\ \A k \in DOMAIN f.msgs : BuiltSize(f.msgs[k]) <= PayloadSizeMax
    /\ \E after \in Layouts(f.msgs) : f.payload = after[0]

FramesInv ==
    /\ out # NoFrame => FrameInv(out)
    /\ \A k \in DOMAIN wire : FrameInv(wire[k])
    /\ parsing # NoFrame => FrameInv(parsing)

\* The parser has reported the first i messages and stands before the next,
\* in the wrapper of the next, or at the end of the wrapper of the last.
AtMessage(after, i) ==
    connect_type = "WIRED" /\ windows = <<after[i]>>
InWrapper(after, i) ==
    LET ms == parsing.msgs IN
    /\ connect_type = "WIRELESS"
    /\ i < Len(ms) /\ ms[i + 1].connect_type = "WIRELESS"
    /\ windows = <<MsgWrite(ms[i + 1].id, ms[i + 1].raw), after[i + 1]>>
AtWrapperEnd(after, i) ==
    connect_type = "WIRELESS" /\ windows = << << >>, after[i] >>

ParserInv ==
    windows # << >> =>
        /\ parsing # NoFrame
        /\ \E after \in Layouts(parsing.msgs), i \in 0 .. Len(parsing.msgs) :
               /\ AtMessage(after, i) \/ InWrapper(after, i) \/ AtWrapperEnd(after, i)
               /\ reports = Expected(SubSeq(parsing.msgs, 1, i))

BasicInv ==
    /\ begun \in 0 .. FramesMax
    /\ wire \in Seq(Frames)
    /\ connect_type \in ConnectType
    /\ frame_cnt \in 0 .. (CntRange - 1)
    /\ windows = << >> /\ parsing = NoFrame => reports = << >>

IInv == BasicInv /\ FramesInv /\ ParserInv /\ AllReported

----------------------------------------------------------------------------
\* A window that begins with a message: identifier, length, payload, the rest.
Begins(w, a, body, rest) == w = (<<a, Len(body)>> \o body) \o rest

\* The fields of a message at the front of a window are read as they were written.
LEMMA TakeApart ==
    ASSUME NEW a \in Byte, NEW body \in Seq(Byte), Len(body) \in Byte,
           NEW rest \in Seq(Byte), NEW w, Begins(w, a, body, rest)
    PROVE  /\ w \in Seq(Byte) /\ MsgReady(w) /\ MsgId(w) = a
           /\ MsgPayload(w) = body /\ AfterMsg(w) = rest
<1> DEFINE b == Len(body)
           head == <<a, b>>
           msg == head \o body
<1>1. head \in Seq(Byte) /\ Len(head) = 2 /\ head[1] = a /\ head[2] = b
  OBVIOUS
<1>2. Len(body) \in Nat /\ Len(rest) \in Nat
  OBVIOUS
<1> HIDE DEF head
<1>3. /\ msg \in Seq(Byte) /\ Len(msg) = 2 + Len(body)
      /\ msg[1] = a /\ msg[2] = b
  <2>1. /\ msg \in Seq(Byte) /\ Len(msg) = Len(head) + Len(body)
        /\ \A i \in 1 .. Len(head) + Len(body) :
               msg[i] = IF i <= Len(head) THEN head[i] ELSE body[i - Len(head)]
    BY <1>1, ConcatProperties
  <2> QED
    BY <1>1, <1>2, <2>1
<1> HIDE DEF msg
<1>4. w = msg \o rest
  BY DEF Begins, msg, head
<1>5. /\ w \in Seq(Byte) /\ Len(w) = 2 + Len(body) + Len(rest)
      /\ w[1] = a /\ w[2] = b
  <2>1. /\ msg \o rest \in Seq(Byte) /\ Len(msg \o rest) = Len(msg) + Len(rest)
        /\ \A i \in 1 .. Len(msg) + Len(rest) :
               (msg \o rest)[i] = IF i <= Len(msg) THEN msg[i] ELSE rest[i - Len(msg)]
    <3>1. msg \in Seq(Byte)
      BY <1>3
    <3> QED
      BY <3>1, ConcatProperties
  <2> QED
    BY <1>2, <1>3, <1>4, <2>1
<1>6. MsgSize(w) = 2 + Len(body)
  BY <1>5 DEF MsgSize, MsgHeaderSize
<1>7. MsgReady(w) /\ MsgId(w) = a
  BY <1>2, <1>5, <1>6 DEF MsgReady, MsgId, MsgHeaderSize
<1>8. AfterMsg(w) = rest
  <2>1. SubSeq(msg \o rest, Len(msg) + 1, Len(msg \o rest)) = rest
    BY <1>3, ConcatRest
  <2> QED
    BY <1>3, <1>4, <1>6, <2>1 DEF AfterMsg
<1>9. MsgPayload(w) = body
  <2>1. SubSeq((head \o body) \o rest, Len(head) + 1, Len(head) + Len(body)) = body
    BY <1>1, ConcatMiddle
  <2> QED
    BY <1>1, <1>4, <1>6, <2>1 DEF MsgPayload, MsgHeaderSize, msg
<1> QED
  BY <1>5, <1>7, <1>8, <1>9

\* A size that fits a byte is stored as it is.
LEMMA U8Small ==
    ASSUME NEW n \in Byte
    PROVE  U8(n) = n
<1> DEFINE r == Radix
<1>1. r \in Nat \ {0} /\ n \in 0 .. (r - 1)
  BY RadixAssumption DEF Byte
<1> HIDE DEF r
<1>2. n % r = n
  BY <1>1
<1> QED
  BY <1>2 DEF U8, r

\* A message that fits a frame is written in as many bytes as it is said to be.
LEMMA WriteType ==
    ASSUME NEW m \in Messages, BuiltSize(m) <= PayloadSizeMax
    PROVE  /\ m.id \in Byte /\ m.raw \in Seq(Byte) /\ Len(m.raw) \in Byte
           /\ MsgWrite(m.id, m.raw) = <<m.id, Len(m.raw)>> \o m.raw
           /\ MsgWrite(m.id, m.raw) \in Seq(Byte)
           /\ Len(MsgWrite(m.id, m.raw)) = 2 + Len(m.raw)
<1>1. m.id \in Byte /\ m.raw \in Seq(Byte) /\ m.connect_type \in ConnectType
  BY MessageAssumption DEF Byte
<1>2. Len(m.raw) \in Nat
  BY <1>1
<1>3. Len(m.raw) < Radix /\ Radix \in Nat
  BY <1>1, <1>2, SizeAssumption, CapacityAssumption, RadixAssumption
     DEF BuiltSize, WrappedSize, UserDataHeader, MsgHeaderSize
<1>4. Len(m.raw) \in Byte /\ U8(Len(m.raw)) = Len(m.raw)
  <2>1. Len(m.raw) \in Byte
    BY <1>2, <1>3 DEF Byte
  <2> QED
    BY <2>1, U8Small
<1> DEFINE head == <<m.id, Len(m.raw)>>
<1>5. head \in Seq(Byte) /\ Len(head) = 2
  BY <1>1, <1>4
<1>6. MsgWrite(m.id, m.raw) = head \o m.raw
  BY <1>4 DEF MsgWrite
<1> HIDE DEF head
<1>7. head \o m.raw \in Seq(Byte) /\ Len(head \o m.raw) = Len(head) + Len(m.raw)
  BY <1>1, <1>5, ConcatProperties
<1> QED
  BY <1>1, <1>4, <1>5, <1>6, <1>7 DEF head

\* In a wrapper it is preceded by its length.
LEMMA WrapperType ==
    ASSUME NEW m \in Messages, BuiltSize(m) <= PayloadSizeMax, m.connect_type = "WIRELESS"
    PROVE  LET inner == MsgWrite(m.id, m.raw)
               body  == <<Len(inner)>> \o inner
           IN  /\ Len(inner) \in Byte /\ Len(body) \in Byte /\ WrapId \in Byte
               /\ body \in Seq(Byte) /\ Len(body) = 3 + Len(m.raw)
               /\ Built(m) = <<WrapId, Len(body)>> \o body
               /\ Built(m) = <<WrapId, Len(body), Len(inner)>> \o inner
<1> DEFINE inner == MsgWrite(m.id, m.raw)
           one   == <<Len(inner)>>
           body  == one \o inner
           head  == <<WrapId, Len(body)>>
<1>1. inner \in Seq(Byte) /\ Len(inner) = 2 + Len(m.raw) /\ Len(m.raw) \in Nat
  BY WriteType, LenProperties
<1>2. 3 + Len(m.raw) < Radix /\ Radix \in Nat
  BY <1>1, SizeAssumption, CapacityAssumption, RadixAssumption
     DEF BuiltSize, WrappedSize, UserDataHeader, MsgHeaderSize
<1>3. Len(inner) \in Byte /\ U8(2 + Len(m.raw)) = Len(inner) /\ WrapId \in Byte
  <2>1. Len(inner) \in Byte /\ WrapId \in Byte
    BY <1>1, <1>2, IdAssumption DEF Byte
  <2> QED
    BY <1>1, <2>1, U8Small
<1>4. Built(m) = <<WrapId, U8(3 + Len(m.raw)), U8(2 + Len(m.raw))>> \o inner
  <2>1. MsgHeaderSize + Len(m.raw) = 2 + Len(m.raw)
        /\ WrappedSize(m.raw) = 3 + Len(m.raw)
    BY <1>1 DEF WrappedSize, UserDataHeader, MsgHeaderSize
  <2> QED
    BY <2>1 DEF Built, Wrapped
<1> HIDE DEF inner
<1>5. one \in Seq(Byte) /\ Len(one) = 1
  BY <1>3
<1> HIDE DEF one
<1>6. body \in Seq(Byte) /\ Len(body) = 3 + Len(m.raw)
  <2>1. one \o inner \in Seq(Byte) /\ Len(one \o inner) = Len(one) + Len(inner)
    BY <1>1, <1>5, ConcatProperties
  <2> QED
    BY <1>1, <1>5, <2>1
<1>7. Len(body) \in Byte /\ U8(3 + Len(m.raw)) = Len(body)
  <2>1. Len(body) \in Byte
    BY <1>1, <1>2, <1>6 DEF Byte
  <2> QED
    BY <1>6, <2>1, U8Small
<1> HIDE DEF body
<1>8. head \in Seq(Byte)
  BY <1>3, <1>7
<1>9. <<WrapId, Len(body), Len(inner)>> = head \o one
  <2>1. ASSUME NEW x \in Byte, NEW y \in Byte, NEW z \in Byte
        PROVE  <<x, y>> \o <<z>> = <<x, y, z>>
    <3>1. <<x, y>> \in Seq(Byte) /\ <<z>> \in Seq(Byte) /\ <<x, y, z>> \in Seq(Byte)
      OBVIOUS
    <3>2. /\ Len(<<x, y>>) = 2 /\ Len(<<z>>) = 1 /\ Len(<<x, y, z>>) = 3
      OBVIOUS
    <3>3. /\ <<x, y>> \o <<z>> \in Seq(Byte) /\ Len(<<x, y>> \o <<z>>) = 3
          /\ \A i \in 1 .. 3 :
                (<<x, y>> \o <<z>>)[i] = IF i <= 2 THEN <<x, y>>[i] ELSE <<z>>[i - 2]
      BY <3>1, <3>2, ConcatProperties
    <3>4. \A i \in 1 .. 3 : (<<x, y>> \o <<z>>)[i] = <<x, y, z>>[i]
      BY <3>3
    <3> QED
      BY <3>1, <3>2, <3>3, <3>4, SeqEqual
  <2> QED
    BY <1>3, <1>7, <2>1, Zenon DEF one
<1> HIDE DEF head
<1>10. (head \o one) \o inner = head \o (one \o inner)
  <2>1. inner \in Seq(Byte) /\ one \in Seq(Byte) /\ head \in Seq(Byte)
    BY <1>1, <1>5, <1>8
  <2> QED
    BY <2>1, ConcatAssociative
<1>11. Built(m) = <<WrapId, Len(body), Len(inner)>> \o inner
  BY <1>3, <1>4, <1>7
<1>12. Built(m) = head \o body
  BY <1>9, <1>10, <1>11 DEF body
<1> QED
  BY <1>3, <1>6, <1>7, <1>11, <1>12 DEF head, body, one, inner

\* A message that fits has the bytes and the size it is charged with.
LEMMA BuiltType ==
    ASSUME NEW m \in Messages, BuiltSize(m) <= PayloadSizeMax
    PROVE  Built(m) \in Seq(Byte) /\ Len(Built(m)) = BuiltSize(m)
<1>1. CASE m.connect_type = "WIRED"
  <2>1. Built(m) = MsgWrite(m.id, m.raw) /\ BuiltSize(m) = 2 + Len(m.raw)
    BY <1>1 DEF Built, BuiltSize, MsgHeaderSize
  <2> QED
    BY <2>1, WriteType
<1>2. CASE m.connect_type = "WIRELESS"
  <2> DEFINE inner == MsgWrite(m.id, m.raw)
             body == <<Len(inner)>> \o inner
             head == <<WrapId, Len(body)>>
  <2>1. /\ body \in Seq(Byte) /\ Len(body) = 3 + Len(m.raw) /\ Len(body) \in Byte
        /\ WrapId \in Byte /\ Built(m) = head \o body
    BY <1>2, WrapperType
  <2>2. BuiltSize(m) = 2 + (3 + Len(m.raw))
    <3>1. Len(m.raw) \in Nat
      BY WriteType, LenProperties
    <3> QED
      BY <1>2, <3>1 DEF BuiltSize, WrappedSize, UserDataHeader, MsgHeaderSize
  <2> HIDE DEF body
  <2>3. head \in Seq(Byte) /\ Len(head) = 2
    BY <2>1
  <2> HIDE DEF head
  <2>4. head \o body \in Seq(Byte) /\ Len(head \o body) = Len(head) + Len(body)
    BY <2>1, <2>3, ConcatProperties
  <2> QED
    BY <2>1, <2>2, <2>3, <2>4
<1> QED
  BY <1>1, <1>2, MessageAssumption DEF ConnectType

\* The parser finds a message that was written, ...
LEMMA WrittenIsFound ==
    ASSUME NEW m \in Messages, BuiltSize(m) <= PayloadSizeMax, NEW rest \in Seq(Byte),
           NEW w, w = MsgWrite(m.id, m.raw) \o rest
    PROVE  /\ MsgReady(w) /\ MsgId(w) = m.id
           /\ MsgPayload(w) = m.raw /\ AfterMsg(w) = rest
<1>1. /\ m.id \in Byte /\ m.raw \in Seq(Byte) /\ Len(m.raw) \in Byte
      /\ w = (<<m.id, Len(m.raw)>> \o m.raw) \o rest
  BY WriteType
<1>2. Begins(w, m.id, m.raw, rest)
  BY <1>1 DEF Begins
<1> QED
  BY <1>1, <1>2, TakeApart

\* ... and in a wrapper the message that was wrapped.
LEMMA WrappedIsFound ==
    ASSUME NEW m \in Messages, BuiltSize(m) <= PayloadSizeMax,
           m.connect_type = "WIRELESS", NEW rest \in Seq(Byte),
           NEW w, w = Built(m) \o rest
    PROVE  /\ MsgReady(w) /\ MsgId(w) = WrapId
           /\ UserData(w) = MsgWrite(m.id, m.raw) /\ AfterMsg(w) = rest
<1> DEFINE inner == MsgWrite(m.id, m.raw)
           body == <<Len(inner)>> \o inner
           head == <<WrapId, Len(body), Len(inner)>>
<1>1. /\ Len(inner) \in Byte /\ Len(body) \in Byte /\ WrapId \in Byte
      /\ body \in Seq(Byte) /\ Built(m) = <<WrapId, Len(body)>> \o body
      /\ Built(m) = head \o inner
  BY WrapperType
<1>2. inner \in Seq(Byte)
  BY WriteType
<1>3. MsgReady(w) /\ MsgId(w) = WrapId /\ AfterMsg(w) = rest
  <2> HIDE DEF body
  <2>1. Begins(w, WrapId, body, rest)
    BY <1>1 DEF Begins
  <2> QED
    BY <1>1, <2>1, TakeApart
<1> HIDE DEF body, inner
<1>4. head \in Seq(Byte) /\ Len(head) = 3 /\ head[3] = Len(inner)
  <2>1. WrapId \in Byte /\ Len(body) \in Byte /\ Len(inner) \in Byte
    BY <1>1
  <2> QED
    BY <2>1
<1> HIDE DEF head
<1>5. w = (head \o inner) \o rest
  BY <1>1
<1>6. SubSeq(w, Len(head) + 1, Len(head) + Len(inner)) = inner
  <2>1. SubSeq((head \o inner) \o rest, Len(head) + 1, Len(head) + Len(inner)) = inner
    BY <1>2, <1>4, ConcatMiddle
  <2> QED
    BY <1>5, <2>1
<1>7. w[3] = Len(inner)
  <2>1. /\ head \o inner \in Seq(Byte) /\ Len(head \o inner) = Len(head) + Len(inner)
        /\ \A i \in 1 .. Len(head) + Len(inner) :
               (head \o inner)[i] = IF i <= Len(head) THEN head[i] ELSE inner[i - Len(head)]
    BY <1>2, <1>4, ConcatProperties
  <2>2. Len(inner) \in Nat /\ Len(rest) \in Nat
    BY <1>2, LenProperties
  <2>3. (head \o inner)[3] = Len(inner)
    BY <1>4, <2>1, <2>2
  <2> DEFINE both == head \o inner
  <2>4. both \in Seq(Byte) /\ Len(both) = 3 + Len(inner) /\ both[3] = Len(inner)
    BY <1>4, <2>1, <2>3
  <2>5. w = both \o rest
    BY <1>5
  <2> HIDE DEF both
  <2>6. \A i \in 1 .. Len(both) + Len(rest) :
            (both \o rest)[i] = IF i <= Len(both) THEN both[i] ELSE rest[i - Len(both)]
    BY <2>4, ConcatProperties
  <2> QED
    BY <2>2, <2>4, <2>5, <2>6
<1>8. UserData(w) = inner
  <2>1. MsgHeaderSize + UserDataHeader = 3 /\ MsgHeaderSize + 1 = 3
    BY DEF MsgHeaderSize, UserDataHeader
  <2> QED
    BY <1>4, <1>6, <1>7, <2>1 DEF UserData, UserDataSize
<1> QED
  BY <1>3, <1>8 DEF inner

\* No message is found in an empty window.
LEMMA NothingIsFound == ~MsgReady(<< >>)
BY DEF MsgReady, MsgHeaderSize

----------------------------------------------------------------------------
\* What the peer reports of a message it knows.

\* fm_msg_copy_payload fills a struct: with what was sent, then with zeros.
LEMMA CopyType ==
    ASSUME NEW size \in Nat, NEW raw \in Seq(Byte)
    PROVE  /\ CopyPayload(size, raw) \in Seq(Byte) /\ Len(CopyPayload(size, raw)) = size
           /\ \A i \in 1 .. size :
                  CopyPayload(size, raw)[i] = IF i <= Len(raw) THEN raw[i] ELSE 0
<1>1. 0 \in Byte /\ Len(raw) \in Nat
  BY RadixAssumption DEF Byte
<1>2. \A i \in 1 .. size : i <= Len(raw) => raw[i] \in Byte
  BY <1>1
<1>3. CopyPayload(size, raw) \in [1 .. size -> Byte]
  BY <1>1, <1>2 DEF CopyPayload
<1> QED
  BY <1>3 DEF CopyPayload

\* The wrapped message's copy is cut and filled up in the same way.
LEMMA FilledUp ==
    ASSUME NEW size \in Nat, NEW raw \in Seq(Byte)
    PROVE  SubSeq(raw \o [i \in 1 .. size |-> 0], 1, size) = CopyPayload(size, raw)
<1> DEFINE zeros == [i \in 1 .. size |-> 0]
           all == raw \o zeros
           cut == SubSeq(all, 1, size)
<1>1. zeros \in Seq(Byte) /\ Len(zeros) = size /\ \A i \in 1 .. size : zeros[i] = 0
  <2>1. zeros \in [1 .. size -> Byte]
    BY RadixAssumption DEF Byte
  <2> QED
    BY <2>1
<1> HIDE DEF zeros
<1>2. /\ Len(raw) \in Nat /\ all \in Seq(Byte) /\ Len(all) = Len(raw) + size
      /\ \A i \in 1 .. Len(raw) + size :
             all[i] = IF i <= Len(raw) THEN raw[i] ELSE zeros[i - Len(raw)]
  <2>1. /\ all \in Seq(Byte) /\ Len(all) = Len(raw) + Len(zeros)
        /\ \A i \in 1 .. Len(raw) + Len(zeros) :
               all[i] = IF i <= Len(raw) THEN raw[i] ELSE zeros[i - Len(raw)]
    BY <1>1, ConcatProperties
  <2> QED
    BY <1>1, <2>1, LenProperties
<1> HIDE DEF all
<1>3. \A i \in 1 .. size : all[i] = IF i <= Len(raw) THEN raw[i] ELSE 0
  <2>1. \A i \in 1 .. size : i \in 1 .. Len(raw) + size
                            /\ (~ (i <= Len(raw)) => i - Len(raw) \in 1 .. size)
    BY <1>2
  <2> QED
    BY <1>1, <1>2, <2>1
<1>4. \A i \in 1 .. size : all[i] \in Byte
  BY <1>2, ElementOfSeq
<1>5. cut \in Seq(Byte) /\ Len(cut) = size /\ \A i \in 1 .. size : cut[i] = all[i]
  <2>1. /\ 1 \in Int /\ size \in Int /\ (IF 1 <= size THEN size - 1 + 1 ELSE 0) = size
        /\ size - 1 + 1 = size /\ \A i \in 1 .. size : 1 + i - 1 = i
    OBVIOUS
  <2> QED
    BY <1>4, <2>1, SubSeqProperties
<1> HIDE DEF cut
<1>6. /\ CopyPayload(size, raw) \in Seq(Byte) /\ Len(CopyPayload(size, raw)) = size
      /\ \A i \in 1 .. size :
             CopyPayload(size, raw)[i] = IF i <= Len(raw) THEN raw[i] ELSE 0
  BY CopyType
<1>7. cut = CopyPayload(size, raw)
  BY <1>3, <1>5, <1>6, SeqEqual
<1> QED
  BY <1>7 DEF cut, all, zeros

\* A message copied and decoded is the message that was given, fitted to its struct.
LEMMA DecodedIsFitted ==
    ASSUME NEW m \in Messages, m.id \in DOMAIN RawSize
    PROVE  /\ Decoded(m.id, CopyPayload(RawSize[m.id], m.raw)) = Fitted(m)
           /\ Fitted(m) \in Seq(Byte)
<1> DEFINE size == RawSize[m.id]
           copy == CopyPayload(size, m.raw)
<1>1. m.raw \in Seq(Byte) /\ Len(m.raw) \in Nat /\ size \in Nat
  BY MessageAssumption, IdAssumption DEF Byte
<1>2. /\ copy \in Seq(Byte) /\ Len(copy) = size
      /\ \A i \in 1 .. size : copy[i] = IF i <= Len(m.raw) THEN m.raw[i] ELSE 0
  BY <1>1, CopyType
<1>3. CASE m.id \notin SizedIds
  <2>1. Fitted(m) = CopyPayload(size, m.raw)
    BY <1>1, <1>3, FilledUp DEF Fitted
  <2> QED
    BY <1>2, <1>3, <2>1 DEF Decoded
<1>4. CASE m.id \in SizedIds
  <2>1. /\ Len(m.raw) \in Nat \ {0} /\ Len(m.raw) = 1 + m.raw[1] /\ Len(m.raw) <= size
    BY <1>1, <1>4, MessageAssumption
  <2>2. Fitted(m) = m.raw
    <3> DEFINE zeros == [i \in 1 .. Len(m.raw) |-> 0]
    <3>1. zeros \in Seq(Byte)
      <4>1. zeros \in [1 .. Len(m.raw) -> Byte]
        BY RadixAssumption DEF Byte
      <4> QED BY <1>1, <4>1
    <3>2. Fitted(m) = SubSeq(m.raw \o zeros, 1, Len(m.raw))
      BY <1>4 DEF Fitted
    <3> HIDE DEF zeros
    <3> QED
      BY <1>1, <3>1, <3>2, ConcatFirst
  <2>3. copy[1] = m.raw[1]
    BY <1>2, <2>1
  <2> HIDE DEF copy
  <2> DEFINE cut == SubSeq(copy, 1, Len(m.raw))
  <2>4. Decoded(m.id, copy) = cut
    BY <1>4, <2>1, <2>3 DEF Decoded
  <2>5. \A i \in 1 .. Len(m.raw) : copy[i] = m.raw[i] /\ copy[i] \in Byte
    BY <1>1, <1>2, <2>1
  <2>6. cut \in Seq(Byte) /\ Len(cut) = Len(m.raw) /\ \A i \in 1 .. Len(m.raw) : cut[i] = copy[i]
    <3>1. /\ 1 \in Int /\ Len(m.raw) \in Int
          /\ (IF 1 <= Len(m.raw) THEN Len(m.raw) - 1 + 1 ELSE 0) = Len(m.raw)
          /\ Len(m.raw) - 1 + 1 = Len(m.raw) /\ \A i \in 1 .. Len(m.raw) : 1 + i - 1 = i
      BY <2>1
    <3> QED
      BY <2>5, <3>1, SubSeqProperties
  <2> HIDE DEF cut
  <2>7. cut = m.raw
    BY <1>1, <2>5, <2>6, SeqEqual
  <2> QED
    BY <1>1, <2>2, <2>4, <2>7 DEF copy
<1> QED
  BY <1>3, <1>4

Report == [connect_type : ConnectType, id : DOMAIN RawSize, raw : Seq(Byte)]
Known == {m \in Messages : m.id \in DOMAIN RawSize}
Reports(ms) == [k \in DOMAIN ms |-> ToReport(ms[k])]

\* A report is a report, ...
LEMMA ReportType ==
    ASSUME NEW m \in Known
    PROVE  ToReport(m) \in Report
<1>1. Fitted(m) \in Seq(Byte) /\ m.id \in DOMAIN RawSize /\ m.connect_type \in ConnectType
  BY DecodedIsFitted, MessageAssumption DEF Known
<1>2. Reported(m.connect_type, m.id) \in ConnectType
  BY <1>1 DEF Reported, ConnectType
<1> QED
  BY <1>1, <1>2 DEF ToReport, Report

\* ... and the reports of some messages are one for each.
LEMMA ReportsType ==
    ASSUME NEW ms \in Seq(Messages \cap Known)
    PROVE  /\ Reports(ms) \in Seq(Report) /\ Len(Reports(ms)) = Len(ms)
           /\ \A k \in 1 .. Len(ms) : Reports(ms)[k] = ToReport(ms[k])
<1>1. /\ Len(ms) \in Nat /\ DOMAIN ms = 1 .. Len(ms)
      /\ \A k \in 1 .. Len(ms) : ms[k] \in Known
  BY LenProperties, ElementOfSeq
<1>2. Reports(ms) \in [1 .. Len(ms) -> Report]
  BY <1>1, ReportType DEF Reports
<1> QED
  BY <1>1, <1>2 DEF Reports

\* What is expected is a report for each message that the peer knows.
LEMMA ExpectedIs ==
    ASSUME NEW ms
    PROVE  Expected(ms) = Reports(Selected(ms, Known))
BY DEF Expected, Reports, Known

\* The expected reports are reports, ...
LEMMA ExpectedType ==
    ASSUME NEW ms \in Seq(Messages)
    PROVE  Expected(ms) \in Seq(Report)
BY SelectedType, ReportsType, ExpectedIs

\* ... none for a frame without messages, ...
LEMMA ExpectedEmpty == Expected(<< >>) = << >>
<1>1. Selected(<< >>, Known) = << >>
  BY SelectedEmpty
<1> QED
  BY <1>1, ExpectedIs DEF Reports

\* One message more, one report more, if the peer knows it.
LEMMA ExpectedAppend ==
    ASSUME NEW ms \in Seq(Messages), NEW m \in Messages
    PROVE  Expected(Append(ms, m)) = IF m.id \in DOMAIN RawSize
                                     THEN Append(Expected(ms), ToReport(m))
                                     ELSE Expected(ms)
<1> DEFINE known == Selected(ms, Known)
           more == Append(known, m)
<1>1. known \in Seq(Messages \cap Known)
  BY SelectedType
<1>2. Selected(Append(ms, m), Known) = IF m \in Known THEN more ELSE known
  BY SelectedAppend
<1>3. m \in Known <=> m.id \in DOMAIN RawSize
  BY DEF Known
<1>4. CASE m \in Known
  <2> HIDE DEF known
  <2>0. m \in Messages \cap Known
    BY <1>4
  <2>1. /\ more \in Seq(Messages \cap Known) /\ Len(more) = Len(known) + 1
        /\ \A k \in 1 .. Len(known) : more[k] = known[k]
        /\ more[Len(known) + 1] = m
    BY <1>1, <2>0, AppendProperties
  <2> HIDE DEF more
  <2>2. Len(known) \in Nat
    BY <1>1, LenProperties
  <2>3. /\ Reports(more) \in Seq(Report) /\ Len(Reports(more)) = Len(known) + 1
        /\ \A k \in 1 .. Len(known) + 1 : Reports(more)[k] = ToReport(more[k])
    BY <2>1, ReportsType
  <2>4. /\ Reports(known) \in Seq(Report) /\ Len(Reports(known)) = Len(known)
        /\ \A k \in 1 .. Len(known) : Reports(known)[k] = ToReport(known[k])
    BY <1>1, ReportsType
  <2> DEFINE longer == Append(Reports(known), ToReport(m))
  <2>5. /\ longer \in Seq(Report) /\ Len(longer) = Len(known) + 1
        /\ \A k \in 1 .. Len(known) : longer[k] = Reports(known)[k]
        /\ longer[Len(known) + 1] = ToReport(m)
    BY <1>4, <2>4, ReportType, AppendProperties
  <2> HIDE DEF longer
  <2>6. ASSUME NEW k \in 1 .. Len(known) + 1 PROVE Reports(more)[k] = longer[k]
    <3>1. CASE k = Len(known) + 1
      BY <2>1, <2>2, <2>3, <2>5, <3>1
    <3>2. CASE k \in 1 .. Len(known)
      BY <2>1, <2>2, <2>3, <2>4, <2>5, <3>2
    <3> QED
      BY <2>2, <3>1, <3>2
  <2>7. Reports(more) = longer
    BY <2>3, <2>5, <2>6, SeqEqual
  <2> QED
    BY <1>2, <1>3, <1>4, <2>7, ExpectedIs DEF longer, known
<1>5. CASE m \notin Known
  BY <1>2, <1>3, <1>5, ExpectedIs
<1> QED
  BY <1>4, <1>5

\* ... and one more for one more message, if the peer knows it.
LEMMA ExpectedNext ==
    ASSUME NEW ms \in Seq(Messages), NEW i \in 0 .. (Len(ms) - 1)
    PROVE  /\ ms[i + 1] \in Messages
           /\ Expected(SubSeq(ms, 1, i + 1)) =
                 IF ms[i + 1].id \in DOMAIN RawSize
                 THEN Append(Expected(SubSeq(ms, 1, i)), ToReport(ms[i + 1]))
                 ELSE Expected(SubSeq(ms, 1, i))
<1> DEFINE first == SubSeq(ms, 1, i)
           m == ms[i + 1]
<1>1. i + 1 \in 1 .. Len(ms) /\ Len(ms) \in Nat /\ m \in Messages
  <2>1. i + 1 \in 1 .. Len(ms) /\ Len(ms) \in Nat
    BY LenProperties
  <2> QED
    BY <2>1, ElementOfSeq
<1>2. first \in Seq(Messages)
  <2>1. \A j \in 1 .. i : ms[j] \in Messages
    BY <1>1, ElementOfSeq
  <2> QED
    BY <2>1, SubSeqProperties
<1>3. SubSeq(ms, 1, i + 1) = first \o <<m>>
  <2>1. 1 \in 1 .. Len(ms) /\ i + 1 \in 1 .. Len(ms) /\ (i + 1) - 1 = i
    BY <1>1
  <2> QED
    BY <2>1, SubSeqRecursiveSecond
<1> HIDE DEF first, m
<1>4. SubSeq(ms, 1, i + 1) = Append(first, m)
  BY <1>1, <1>2, <1>3, AppendIsConcat
<1>5. Expected(Append(first, m)) = IF m.id \in DOMAIN RawSize
                                  THEN Append(Expected(first), ToReport(m)) ELSE Expected(first)
  BY <1>1, <1>2, ExpectedAppend
<1> QED
  BY <1>1, <1>4, <1>5 DEF first, m

----------------------------------------------------------------------------
\* How a frame's bytes are those of its messages.

\* An empty frame is laid out as nothing.
LEMMA LayoutEmpty == \E after \in Layouts(<< >>) : after[0] = << >>
<1> DEFINE after == [i \in 0 .. 0 |-> << >>]
<1>1. << >> \in Seq(Byte) /\ Len(<< >>) = 0
  BY EmptySeq
<1>2. after \in Layouts(<< >>)
  BY <1>1 DEF Layouts
<1> QED
  BY <1>2

\* A message more is laid out behind the others.
LEMMA LayoutAppend ==
    ASSUME NEW ms \in Seq(Messages), \A k \in DOMAIN ms : BuiltSize(ms[k]) <= PayloadSizeMax,
           NEW m \in Messages, BuiltSize(m) <= PayloadSizeMax, NEW after \in Layouts(ms)
    PROVE  \E more \in Layouts(Append(ms, m)) : more[0] = after[0] \o Built(m)
<1> DEFINE n == Len(ms)
           ms2 == Append(ms, m)
           B == Built(m)
           more == [i \in 0 .. n + 1 |-> IF i <= n THEN after[i] \o B ELSE << >>]
<1>1. /\ n \in Nat /\ DOMAIN ms = 1 .. n /\ Len(ms2) = n + 1
      /\ \A i \in 1 .. n : ms2[i] = ms[i] /\ ms[i] \in Messages
      /\ ms2[n + 1] = m
  OBVIOUS
<1>2. B \in Seq(Byte)
  BY BuiltType
<1>3. /\ after \in [0 .. n -> Seq(Byte)] /\ after[n] = << >>
      /\ \A i \in 1 .. n : after[i - 1] = Built(ms[i]) \o after[i]
  BY DEF Layouts
<1> HIDE DEF n, ms2
<1>4. more \in [0 .. n + 1 -> Seq(Byte)]
  <2>1. << >> \in Seq(Byte)
    BY EmptySeq
  <2>2. \A i \in 0 .. n : after[i] \o B \in Seq(Byte)
    BY <1>2, <1>3, ConcatProperties
  <2> QED
    BY <1>1, <2>1, <2>2
<1>5. more[n + 1] = << >> /\ \A i \in 0 .. n : more[i] = after[i] \o B
  BY <1>1
<1> HIDE DEF more, B
<1>6. ASSUME NEW i \in 1 .. n + 1
      PROVE  more[i - 1] = Built(ms2[i]) \o more[i]
  <2>1. CASE i = n + 1
    <3>1. << >> \o B = B /\ B \o << >> = B
      BY <1>2, ConcatEmptySeq
    <3>2. more[n] = after[n] \o B
      <4>1. n \in 0 .. n
        BY <1>1
      <4> QED BY <1>5, <4>1
    <3>3. more[n] = B
      BY <1>3, <3>1, <3>2, Zenon
    <3>4. Built(ms2[n + 1]) = B
      BY <1>1 DEF B
    <3>5. Built(ms2[n + 1]) \o more[n + 1] = B
      BY <1>5, <3>1, <3>4, Zenon
    <3>6. i - 1 = n
      BY <1>1, <2>1
    <3> QED
      BY <2>1, <3>3, <3>5, <3>6, Zenon
  <2>2. CASE i \in 1 .. n
    <3> DEFINE b == Built(ms[i])
               a == after[i]
    <3>1. b \in Seq(Byte) /\ a \in Seq(Byte)
      <4>1. ms[i] \in Messages
        BY <1>1, <2>2, Zenon
      <4>2. BuiltSize(ms[i]) <= PayloadSizeMax
        BY <1>1, <2>2, Zenon
      <4>3. b \in Seq(Byte)
        BY <4>1, <4>2, BuiltType, Zenon
      <4>4. a \in Seq(Byte)
        <5>1. i \in 0 .. n
          BY <1>1, <2>2
        <5> QED BY <1>3, <5>1, Zenon
      <4> QED BY <4>3, <4>4
    <3>2. i - 1 \in 0 .. n /\ i \in 0 .. n
      BY <1>1, <2>2
    <3>3. more[i - 1] = (b \o a) \o B /\ more[i] = a \o B
      BY <1>3, <1>5, <2>2, <3>2
    <3> HIDE DEF a, b
    <3>4. (b \o a) \o B = b \o (a \o B)
      BY <1>2, <3>1, ConcatAssociative
    <3> QED
      BY <1>1, <2>2, <3>3, <3>4 DEF b
  <2> QED
    BY <1>1, <2>1, <2>2
<1>7. more \in Layouts(ms2)
  BY <1>1, <1>4, <1>5, <1>6 DEF Layouts
<1>8. more[0] = after[0] \o B
  BY <1>1, <1>5
<1> QED
  BY <1>7, <1>8 DEF ms2, B

----------------------------------------------------------------------------
\* Frames.

\* A frame is no missing frame, and a peer's layout allows it.
LEMMA FrameFacts ==
    ASSUME NEW f, FrameInv(f)
    PROVE  /\ f # NoFrame /\ Acceptable(f)
           /\ f.msgs \in Seq(Messages) /\ f.payload \in Seq(Byte)
           /\ f.cap \in Nat /\ f.cap <= SizeMin + PayloadSizeMax
<1>1. f.cap \in Nat /\ f.cap > 0 /\ f.cap <= SizeMin + PayloadSizeMax
  <2> DEFINE cap == f.cap
  <2>1. cap \in Capacities
    BY DEF FrameInv
  <2> HIDE DEF cap
  <2>2. cap \in Nat /\ cap > 0 /\ cap <= SizeMin + PayloadSizeMax
    BY <2>1, SizeAssumption, CapacityAssumption
  <2> QED
    BY <2>2 DEF cap
<1>2. f # NoFrame
  BY <1>1 DEF NoFrame
<1>3. f.msgs \in Seq(Messages) /\ f.payload \in Seq(Byte)
  BY DEF FrameInv, Frames, Byte
<1>4. Acceptable(f)
  BY <1>1, <1>3, SizeAssumption DEF FrameInv, FrameBytes, Acceptable
<1> QED
  BY <1>1, <1>2, <1>3, <1>4

\* A frame just begun is in order, ...
LEMMA NewFrameInv ==
    ASSUME NEW cap \in Capacities, begun \in 0 .. FramesMax
    PROVE  FrameInv(NewFrame(cap))
<1> DEFINE f == NewFrame(cap)
<1>1. /\ f.cap = cap /\ f.payload = << >> /\ f.msgs = << >>
  BY DEF NewFrame
<1>2. begun % CntRange \in 0 .. (CntRange - 1)
  BY BoundAssumption
<1>3. << >> \in Seq(0 .. (Radix - 1)) /\ << >> \in Seq(Messages) /\ Len(<< >>) = 0
  BY EmptySeq
<1>4. f \in Frames
  BY <1>2, <1>3, SizeAssumption, BoundAssumption DEF NewFrame, Frames
<1>5. FrameBytes(f) <= f.cap
  BY <1>1, <1>3, SizeAssumption DEF FrameBytes
<1> HIDE DEF f
<1>6. \A k \in DOMAIN f.msgs : BuiltSize(f.msgs[k]) <= PayloadSizeMax
  BY <1>1, <1>3
<1>7. \E after \in Layouts(f.msgs) : f.payload = after[0]
  BY <1>1, LayoutEmpty
<1> QED
  BY <1>1, <1>4, <1>5, <1>6, <1>7 DEF FrameInv, f

\* Frame g is f with a message more.
Extends(g, f, m) ==
    /\ g \in [cap : {f.cap}, cnt : {f.cnt}, payload : {f.payload \o Built(m)},
              msgs : {Append(f.msgs, m)}, tried : 0 .. MsgMax]

\* ... and it stays so with one message more that there is room for.
LEMMA ExtendsInv ==
    ASSUME NEW f, FrameInv(f), NEW m \in Messages, BuiltSize(m) <= f.cap - FrameBytes(f),
           NEW g, Extends(g, f, m)
    PROVE  FrameInv(g)
<1> DEFINE B == Built(m)
<1>1. /\ g.cap = f.cap /\ g.cnt = f.cnt /\ g.payload = f.payload \o B
      /\ g.msgs = Append(f.msgs, m)
  BY DEF Extends
<1>2. /\ f.msgs \in Seq(Messages) /\ f.payload \in Seq(Byte) /\ f \in Frames
      /\ f.cap \in Capacities /\ f.cap \in Nat /\ f.cap <= SizeMin + PayloadSizeMax
      /\ FrameBytes(f) = SizeMin + Len(f.payload) /\ Len(f.payload) \in Nat
  BY FrameFacts DEF FrameInv, FrameBytes
<1>3. BuiltSize(m) \in Nat
  <2>1. m.raw \in Seq(Byte) /\ Len(m.raw) \in Nat
    BY MessageAssumption DEF Byte
  <2> QED
    BY <2>1 DEF BuiltSize, WrappedSize, MsgHeaderSize, UserDataHeader
<1>4. BuiltSize(m) <= PayloadSizeMax
  BY <1>2, <1>3, SizeAssumption
<1>5. B \in Seq(Byte) /\ Len(B) = BuiltSize(m)
  BY <1>4, BuiltType
<1> HIDE DEF B
<1>6. f.payload \o B \in Seq(Byte) /\ Len(f.payload \o B) = Len(f.payload) + Len(B)
  BY <1>2, <1>5, ConcatProperties
<1>7. Append(f.msgs, m) \in Seq(Messages)
  BY <1>2
<1>8. g \in Frames
  BY <1>2, <1>6, <1>7 DEF Extends, Frames, Byte, B
<1>9. FrameBytes(g) <= g.cap
  BY <1>1, <1>2, <1>3, <1>5, <1>6, SizeAssumption DEF FrameBytes
<1>10. \A k \in DOMAIN g.msgs : BuiltSize(g.msgs[k]) <= PayloadSizeMax
  <2>1. /\ DOMAIN g.msgs = 1 .. Len(f.msgs) + 1 /\ DOMAIN f.msgs = 1 .. Len(f.msgs)
        /\ g.msgs[Len(f.msgs) + 1] = m
        /\ \A k \in 1 .. Len(f.msgs) : g.msgs[k] = f.msgs[k]
    BY <1>1, <1>2
  <2> QED
    BY <1>2, <1>4, <2>1 DEF FrameInv
<1>11. \E more \in Layouts(g.msgs) : g.payload = more[0]
  <2>1. PICK after \in Layouts(f.msgs) : f.payload = after[0]
    BY DEF FrameInv
  <2>2. \A k \in DOMAIN f.msgs : BuiltSize(f.msgs[k]) <= PayloadSizeMax
    BY DEF FrameInv
  <2>3. PICK more \in Layouts(Append(f.msgs, m)) : more[0] = after[0] \o Built(m)
    BY <1>2, <1>4, <2>2, LayoutAppend
  <2> QED
    BY <1>1, <2>1, <2>3 DEF B
<1> QED
  BY <1>1, <1>2, <1>8, <1>9, <1>10, <1>11 DEF FrameInv

\* Frames on their way are in order, whichever come and go.
LEMMA WireType ==
    ASSUME wire \in Seq(Frames), \A k \in DOMAIN wire : FrameInv(wire[k])
    PROVE  /\ \A f : FrameInv(f) /\ wire' \in {wire, Append(wire, f)} =>
                  wire' \in Seq(Frames) /\ \A k \in DOMAIN wire' : FrameInv(wire'[k])
           /\ wire # << >> => FrameInv(Head(wire))
           /\ wire # << >> /\ wire' = Tail(wire) =>
                  wire' \in Seq(Frames) /\ \A k \in DOMAIN wire' : FrameInv(wire'[k])
<1>1. ASSUME NEW f, FrameInv(f), wire' \in {wire, Append(wire, f)}
      PROVE  wire' \in Seq(Frames) /\ \A k \in DOMAIN wire' : FrameInv(wire'[k])
  <2>1. CASE wire' = wire
    BY <2>1
  <2>2. CASE wire' = Append(wire, f)
    <3>1. f \in Frames
      BY <1>1 DEF FrameInv
    <3>2. /\ wire' \in Seq(Frames) /\ DOMAIN wire' = 1 .. Len(wire) + 1
          /\ DOMAIN wire = 1 .. Len(wire) /\ Len(wire) \in Nat
          /\ wire'[Len(wire) + 1] = f /\ \A k \in 1 .. Len(wire) : wire'[k] = wire[k]
      BY <2>2, <3>1
    <3> QED
      BY <1>1, <3>2
  <2> QED
    BY <1>1, <2>1, <2>2
<1>2. wire # << >> => FrameInv(Head(wire))
  OBVIOUS
<1>3. ASSUME wire # << >>, wire' = Tail(wire)
      PROVE  wire' \in Seq(Frames) /\ \A k \in DOMAIN wire' : FrameInv(wire'[k])
  <2>1. /\ wire' \in Seq(Frames) /\ DOMAIN wire' = 1 .. Len(wire) - 1
        /\ DOMAIN wire = 1 .. Len(wire) /\ Len(wire) \in Nat
        /\ \A k \in 1 .. Len(wire) - 1 : wire'[k] = wire[k + 1]
    BY <1>3
  <2> QED
    BY <2>1
<1> QED
  BY <1>1, <1>2, <1>3

----------------------------------------------------------------------------
\* The steps of the sender and of the line.

SenderStep == \/ \E cap \in Capacities : Begin(cap)
              \/ \E m \in Messages : AppendMsg(m) \/ AppendFails(m)
              \/ \E cap \in Capacities, m \in Messages : Prepare(cap, m)
              \/ End \/ Lose

\* What the sender does keeps the frames in order, ...
LEMMA SenderKeepsFrames ==
    ASSUME BasicInv, FramesInv, SenderStep
    PROVE  BasicInv' /\ FramesInv'
<1> USE DEF parser, sender
<1>0. /\ UNCHANGED parser /\ begun \in 0 .. FramesMax
      /\ wire \in Seq(Frames) /\ \A k \in DOMAIN wire : FrameInv(wire[k])
  BY DEF SenderStep, Begin, AppendMsg, AppendFails, Prepare, End, Lose, BasicInv, FramesInv
<1>1. SUFFICES /\ begun' \in 0 .. FramesMax
               /\ wire' \in Seq(Frames) /\ \A k \in DOMAIN wire' : FrameInv(wire'[k])
               /\ out' # NoFrame => FrameInv(out')
  BY <1>0 DEF BasicInv, FramesInv, FrameInv, FrameBytes, Frames, Layouts, NoFrame
<1>2. ASSUME NEW cap \in Capacities, Begin(cap)
      PROVE  begun' \in 0 .. FramesMax /\ wire' = wire /\ FrameInv(out')
  BY <1>0, <1>2, NewFrameInv, BoundAssumption DEF Begin
<1>3. ASSUME NEW m \in Messages, AppendMsg(m)
      PROVE  begun' = begun /\ wire' = wire /\ FrameInv(out')
  <2>1. FrameInv(out)
    BY <1>3 DEF AppendMsg, FramesInv
  <2>2. out.tried + 1 \in 0 .. MsgMax
    BY <1>3, <2>1, BoundAssumption DEF AppendMsg, FrameInv, Frames
  <2>3. Extends(out', out, m)
    BY <1>3, <2>1, <2>2 DEF AppendMsg, Extends, FrameInv, Frames
  <2> QED
    BY <1>3, <2>1, <2>3, ExtendsInv DEF AppendMsg
<1>4. ASSUME NEW m \in Messages, AppendFails(m)
      PROVE  begun' = begun /\ wire' = wire /\ FrameInv(out')
  <2>1. FrameInv(out)
    BY <1>4 DEF AppendFails, FramesInv
  <2>2. out.tried + 1 \in 0 .. MsgMax
    BY <1>4, <2>1, BoundAssumption DEF AppendFails, FrameInv, Frames
  <2>3. /\ out' \in Frames /\ out'.cap = out.cap /\ out'.msgs = out.msgs
        /\ out'.payload = out.payload
    BY <1>4, <2>1, <2>2 DEF AppendFails, FrameInv, Frames
  <2> QED
    BY <1>4, <2>1, <2>3 DEF AppendFails, FrameInv, FrameBytes
<1>5. ASSUME NEW cap \in Capacities, NEW m \in Messages, Prepare(cap, m)
      PROVE  /\ begun' \in 0 .. FramesMax
             /\ wire' \in Seq(Frames) /\ \A k \in DOMAIN wire' : FrameInv(wire'[k])
             /\ out' # NoFrame => FrameInv(out')
  <2> DEFINE f == NewFrame(cap)
             g == [f EXCEPT !.payload = Built(m), !.msgs = <<m>>]
  <2>1. FrameInv(f)
    BY <1>0, NewFrameInv
  <2>2. begun' \in 0 .. FramesMax
    BY <1>0, <1>5, BoundAssumption DEF Prepare
  <2>3. CASE BuiltSize(m) <= cap - FrameBytes(f)
    <3>1. BuiltSize(m) <= f.cap - FrameBytes(f)
      BY <2>3 DEF NewFrame
    <3>2. BuiltSize(m) <= PayloadSizeMax
      <4>1. f.payload = << >> /\ f.cap \in Nat /\ f.cap <= SizeMin + PayloadSizeMax
        BY <2>1, FrameFacts DEF NewFrame
      <4>2. FrameBytes(f) = SizeMin
        <5>1. Len(<< >>) = 0
          BY EmptySeq
        <5> QED
          BY <4>1, <5>1, SizeAssumption DEF FrameBytes
      <4>3. BuiltSize(m) \in Nat
        <5>1. m.raw \in Seq(Byte) /\ Len(m.raw) \in Nat
          BY MessageAssumption DEF Byte
        <5> QED
          BY <5>1 DEF BuiltSize, WrappedSize, MsgHeaderSize, UserDataHeader
      <4> QED
        BY <3>1, <4>1, <4>2, <4>3, SizeAssumption
    <3>3. Extends(g, f, m)
      <4>1. << >> \o Built(m) = Built(m)
        BY <3>2, BuiltType, ConcatEmptySeq
      <4>2. Append(<< >>, m) = <<m>>
        OBVIOUS
      <4>3. f.cap = cap /\ f.payload = << >> /\ f.msgs = << >> /\ f.tried = 0
        BY DEF NewFrame
      <4>4. f \in Frames /\ 0 \in 0 .. MsgMax
        BY <2>1, BoundAssumption DEF FrameInv
      <4> HIDE DEF f
      <4>5. /\ g.cap = f.cap /\ g.cnt = f.cnt /\ g.payload = Built(m)
            /\ g.msgs = <<m>> /\ g.tried = f.tried
            /\ g \in [cap : {f.cap}, cnt : {f.cnt}, payload : {Built(m)}, msgs : {<<m>>},
                      tried : {f.tried}]
        BY <4>4 DEF Frames
      <4> HIDE DEF g
      <4> QED
        BY <4>1, <4>2, <4>3, <4>4, <4>5 DEF Extends
    <3>4. FrameInv(g)
      <4> HIDE DEF f, g
      <4> QED BY <2>1, <3>1, <3>3, ExtendsInv
    <3>5. wire' \in {wire, Append(wire, g)} /\ out' = NoFrame
      BY <1>5, <2>3 DEF Prepare, Send
    <3> HIDE DEF f, g
    <3> QED
      BY <1>0, <2>2, <3>4, <3>5, WireType
  <2>4. CASE ~ (BuiltSize(m) <= cap - FrameBytes(f))
    BY <1>0, <1>5, <2>1, <2>2, <2>4 DEF Prepare
  <2> QED
    BY <2>3, <2>4
<1>6. CASE End
  <2>1. FrameInv(out) /\ wire' \in {wire, Append(wire, out)} /\ out' = NoFrame /\ begun' = begun
    BY <1>6 DEF End, Send, FramesInv
  <2> QED
    BY <1>0, <2>1, WireType
<1>7. CASE Lose
  <2>1. wire # << >> /\ wire' = Tail(wire) /\ out' = out /\ begun' = begun
    BY <1>7 DEF Lose
  <2> QED
    BY <1>0, <2>1, WireType DEF FramesInv
<1> QED
  BY <1>0, <1>2, <1>3, <1>4, <1>5, <1>6, <1>7 DEF SenderStep

\* ... and does not touch the parser.
LEMMA SenderKeepsParser ==
    ASSUME ParserInv, AllReported, UNCHANGED parser
    PROVE  ParserInv' /\ AllReported'
BY DEF parser, ParserInv, AtMessage, InWrapper, AtWrapperEnd, AllReported

----------------------------------------------------------------------------
\* The steps of the parser.

\* A frame is taken: nothing of it has been parsed.
LEMMA FrameIsTaken ==
    ASSUME BasicInv, FramesInv, OnFrame
    PROVE  BasicInv' /\ FramesInv' /\ ParserInv' /\ AllReported'
<1> DEFINE f == Head(wire)
<1>1. wire \in Seq(Frames) /\ (\A k \in DOMAIN wire : FrameInv(wire[k])) /\ wire # << >>
  BY DEF BasicInv, FramesInv, OnFrame
<1>2. FrameInv(f) /\ f # NoFrame /\ Acceptable(f) /\ f.msgs \in Seq(Messages)
  BY <1>1, WireType, FrameFacts
<1>3. /\ wire' = Tail(wire) /\ parsing' = f /\ connect_type' = "WIRED"
      /\ frame_cnt' = f.cnt /\ windows' = <<f.payload>> /\ reports' = << >>
      /\ out' = out /\ begun' = begun
  BY <1>2 DEF OnFrame, sender
<1>4. wire' \in Seq(Frames) /\ \A k \in DOMAIN wire' : FrameInv(wire'[k])
  BY <1>1, <1>3, WireType
<1>5. f.cnt \in 0 .. (CntRange - 1)
  BY <1>2 DEF FrameInv, Frames
<1> HIDE DEF f
<1>6. BasicInv'
  BY <1>3, <1>4, <1>5 DEF BasicInv, ConnectType
<1>7. FramesInv'
  BY <1>2, <1>3, <1>4 DEF FramesInv, FrameInv, FrameBytes, Frames, Layouts
<1>8. ParserInv'
  <2>1. PICK after \in Layouts(f.msgs) : f.payload = after[0]
    BY <1>2 DEF FrameInv
  <2>2. 0 \in 0 .. Len(f.msgs)
    BY <1>2
  <2>3. SubSeq(f.msgs, 1, 0) = << >>
    BY <1>2, SubSeqEmpty
  <2>4. reports' = Expected(SubSeq(f.msgs, 1, 0))
    BY <1>3, <2>3, ExpectedEmpty
  <2>5. AtMessage(after, 0)'
    BY <1>3, <2>1 DEF AtMessage
  <2> QED
    BY <1>2, <1>3, <2>2, <2>4, <2>5 DEF ParserInv
<1>9. AllReported'
  BY <1>3 DEF AllReported
<1> QED
  BY <1>6, <1>7, <1>8, <1>9

\* The other steps are within a frame.
Within == OnMsg \/ EnterWrapper \/ IgnoreMsg \/ LeaveWrapper \/ OnFrameEnd

\* Within a frame the parser changes nothing of the frames.
LEMMA WithinFrame ==
    ASSUME BasicInv, FramesInv, ParserInv, Within
    PROVE  /\ BasicInv' /\ FramesInv' /\ windows # << >>
           /\ parsing' = parsing /\ parsing # NoFrame
<1>1. windows # << >>
  <2>1. Len(<< >>) = 0
    BY EmptySeq
  <2> QED
    BY <2>1 DEF Within, OnMsg, EnterWrapper, IgnoreMsg, LeaveWrapper, OnFrameEnd
<1>2. /\ wire' = wire /\ parsing' = parsing /\ frame_cnt' = frame_cnt
      /\ out' = out /\ begun' = begun /\ connect_type' \in {connect_type, "WIRED", "WIRELESS"}
  BY DEF Within, OnMsg, EnterWrapper, IgnoreMsg, LeaveWrapper, OnFrameEnd, sender
<1>3. parsing # NoFrame
  BY <1>1 DEF ParserInv
<1>4. BasicInv'
  BY <1>2, <1>3 DEF BasicInv, ConnectType
<1>5. FramesInv'
  BY <1>2 DEF FramesInv, FrameInv, FrameBytes, Frames, Layouts
<1> QED
  BY <1>1, <1>2, <1>3, <1>4, <1>5

\* Where the parser stands and what it finds there: a message, a wrapper, the
\* message in it, the end of a wrapper or the end of the frame.
Message(after, i) ==
    /\ connect_type = "WIRED" /\ Tail(windows) = << >>
    /\ i < Len(parsing.msgs) /\ parsing.msgs[i + 1].connect_type = "WIRED"
    /\ MsgReady(Window) /\ MsgId(Window) = parsing.msgs[i + 1].id
    /\ MsgPayload(Window) = parsing.msgs[i + 1].raw /\ AfterMsg(Window) = after[i + 1]
Wrapper(after, i) ==
    /\ connect_type = "WIRED" /\ Tail(windows) = << >>
    /\ i < Len(parsing.msgs) /\ parsing.msgs[i + 1].connect_type = "WIRELESS"
    /\ MsgReady(Window) /\ MsgId(Window) = WrapId
    /\ UserData(Window) = MsgWrite(parsing.msgs[i + 1].id, parsing.msgs[i + 1].raw)
    /\ AfterMsg(Window) = after[i + 1]
Wireless(after, i) ==
    /\ connect_type = "WIRELESS" /\ Tail(windows) = <<after[i + 1]>>
    /\ i < Len(parsing.msgs) /\ parsing.msgs[i + 1].connect_type = "WIRELESS"
    /\ MsgReady(Window) /\ MsgId(Window) = parsing.msgs[i + 1].id
    /\ MsgPayload(Window) = parsing.msgs[i + 1].raw /\ AfterMsg(Window) = << >>
WrapperEnd(after, i) ==
    Len(windows) = 2 /\ Tail(windows) = <<after[i]>> /\ ~MsgReady(Window)
FrameEnd(i) ==
    Len(windows) = 1 /\ i = Len(parsing.msgs) /\ ~MsgReady(Window)

\* Within a frame the parser is at the front of one of its messages, within one that
\* is wrapped, behind that, or at the frame's end, and has reported those before.
LEMMA WhatIsFound ==
    ASSUME FramesInv, ParserInv, windows # << >>
    PROVE  \E after \in Layouts(parsing.msgs), i \in 0 .. Len(parsing.msgs) :
               /\ \/ Message(after, i) \/ Wrapper(after, i) \/ Wireless(after, i)
                  \/ WrapperEnd(after, i) \/ FrameEnd(i)
               /\ reports = Expected(SubSeq(parsing.msgs, 1, i))
               /\ parsing.msgs \in Seq(Messages)
<1> DEFINE ms == parsing.msgs
<1>1. parsing # NoFrame /\ FrameInv(parsing)
  BY DEF ParserInv, FramesInv
<1>2. ms \in Seq(Messages) /\ \A k \in DOMAIN ms : BuiltSize(ms[k]) <= PayloadSizeMax
  BY <1>1, FrameFacts DEF FrameInv
<1>3. PICK after \in Layouts(ms), i \in 0 .. Len(ms) :
          /\ AtMessage(after, i) \/ InWrapper(after, i) \/ AtWrapperEnd(after, i)
          /\ reports = Expected(SubSeq(ms, 1, i))
  BY DEF ParserInv
<1>4. /\ after \in [0 .. Len(ms) -> Seq(Byte)] /\ after[Len(ms)] = << >>
      /\ \A k \in 1 .. Len(ms) : after[k - 1] = Built(ms[k]) \o after[k]
  BY DEF Layouts
<1>5. Len(ms) \in Nat /\ DOMAIN ms = 1 .. Len(ms) /\ \A k \in 1 .. Len(ms) : ms[k] \in Messages
  BY <1>2, LenProperties, ElementOfSeq
<1>6. ASSUME i < Len(ms)
      PROVE  /\ ms[i + 1] \in Messages /\ BuiltSize(ms[i + 1]) <= PayloadSizeMax
             /\ after[i + 1] \in Seq(Byte) /\ after[i] = Built(ms[i + 1]) \o after[i + 1]
             /\ ms[i + 1].connect_type \in {"WIRED", "WIRELESS"}
  <2>1. i + 1 \in 1 .. Len(ms) /\ (i + 1) - 1 = i /\ i + 1 \in 0 .. Len(ms)
    BY <1>5, <1>6
  <2>2. after[(i + 1) - 1] = Built(ms[i + 1]) \o after[i + 1]
    BY <1>4, <2>1
  <2> QED
    BY <1>2, <1>4, <1>5, <2>1, <2>2, MessageAssumption DEF ConnectType
<1> HIDE DEF ms
<1>7. CASE AtMessage(after, i)
  <2>1. connect_type = "WIRED" /\ Window = after[i] /\ Tail(windows) = << >> /\ Len(windows) = 1
    BY <1>7 DEF AtMessage, Window
  <2>2. CASE i = Len(ms)
    <3>1. ~MsgReady(Window)
      BY <1>4, <2>1, <2>2, NothingIsFound
    <3>2. FrameEnd(i)
      BY <2>1, <2>2, <3>1 DEF FrameEnd, ms
    <3> QED
      BY <1>2, <1>3, <3>2 DEF ms
  <2>3. CASE i < Len(ms) /\ ms[i + 1].connect_type = "WIRED"
    <3>1. Window = MsgWrite(ms[i + 1].id, ms[i + 1].raw) \o after[i + 1]
      BY <1>6, <2>1, <2>3 DEF Built
    <3>2. /\ MsgReady(Window) /\ MsgId(Window) = ms[i + 1].id
          /\ MsgPayload(Window) = ms[i + 1].raw /\ AfterMsg(Window) = after[i + 1]
      BY <1>6, <2>3, <3>1, WrittenIsFound
    <3>3. Message(after, i)
      BY <2>1, <2>3, <3>2 DEF Message, ms
    <3> QED
      BY <1>2, <1>3, <3>3 DEF ms
  <2>4. CASE i < Len(ms) /\ ms[i + 1].connect_type = "WIRELESS"
    <3>1. Window = Built(ms[i + 1]) \o after[i + 1]
      BY <1>6, <2>1, <2>4
    <3>2. /\ MsgReady(Window) /\ MsgId(Window) = WrapId
          /\ UserData(Window) = MsgWrite(ms[i + 1].id, ms[i + 1].raw)
          /\ AfterMsg(Window) = after[i + 1]
      <4> DEFINE m == ms[i + 1]
                 rest == after[i + 1]
      <4>1. /\ m \in Messages /\ BuiltSize(m) <= PayloadSizeMax
            /\ m.connect_type = "WIRELESS" /\ rest \in Seq(Byte)
            /\ Window = Built(m) \o rest
        BY <1>6, <2>4, <3>1
      <4> HIDE DEF m, rest
      <4>2. /\ MsgReady(Window) /\ MsgId(Window) = WrapId
            /\ UserData(Window) = MsgWrite(m.id, m.raw) /\ AfterMsg(Window) = rest
        BY <4>1, WrappedIsFound
      <4> QED
        BY <4>2 DEF m, rest
    <3>3. Wrapper(after, i)
      BY <2>1, <2>4, <3>2 DEF Wrapper, ms
    <3> QED
      BY <1>2, <1>3, <3>3 DEF ms
  <2>5. i = Len(ms) \/ i < Len(ms)
    <3> DEFINE n == Len(ms)
    <3>1. i \in 0 .. n /\ n \in Nat
      BY <1>5
    <3> HIDE DEF n
    <3>2. i = n \/ i < n
      BY <3>1
    <3> QED
      BY <3>2 DEF n
  <2>6. CASE i < Len(ms)
    <3>1. ms[i + 1].connect_type = "WIRED" \/ ms[i + 1].connect_type = "WIRELESS"
      BY <1>6, <2>6
    <3> QED
      BY <2>3, <2>4, <2>6, <3>1
  <2> QED
    BY <2>2, <2>5, <2>6
<1>8. CASE InWrapper(after, i)
  <2> DEFINE m == ms[i + 1]
  <2>1. /\ connect_type = "WIRELESS" /\ i < Len(ms) /\ m.connect_type = "WIRELESS"
        /\ windows = <<MsgWrite(m.id, m.raw), after[i + 1]>>
    BY <1>8 DEF InWrapper, ms
  <2>2. Window = MsgWrite(m.id, m.raw) /\ Tail(windows) = <<after[i + 1]>>
    BY <2>1 DEF Window
  <2>3. m \in Messages /\ BuiltSize(m) <= PayloadSizeMax
    BY <1>6, <2>1
  <2> HIDE DEF m
  <2>4. << >> \in Seq(Byte) /\ MsgWrite(m.id, m.raw) = MsgWrite(m.id, m.raw) \o << >>
    BY <2>3, WriteType, ConcatEmptySeq, EmptySeq
  <2>5. Window = MsgWrite(m.id, m.raw) \o << >>
    BY <2>2, <2>4
  <2>6. /\ MsgReady(Window) /\ MsgId(Window) = m.id
        /\ MsgPayload(Window) = m.raw /\ AfterMsg(Window) = << >>
    BY <2>3, <2>4, <2>5, WrittenIsFound
  <2>7. Wireless(after, i)
    BY <2>1, <2>2, <2>6 DEF Wireless, m, ms
  <2> QED
    BY <1>2, <1>3, <2>7 DEF ms
<1>9. CASE AtWrapperEnd(after, i)
  <2>1. Window = << >> /\ Tail(windows) = <<after[i]>> /\ Len(windows) = 2
    BY <1>9 DEF AtWrapperEnd, Window
  <2>2. WrapperEnd(after, i)
    BY <2>1, NothingIsFound DEF WrapperEnd
  <2> QED
    BY <1>2, <1>3, <2>2 DEF ms
<1> QED
  BY <1>3, <1>7, <1>8, <1>9

\* A step that leaves the parser within the frame.
LEMMA StillWithin ==
    ASSUME parsing' = parsing, parsing # NoFrame, windows' # << >>,
           NEW after \in Layouts(parsing.msgs), NEW i \in 0 .. Len(parsing.msgs),
           \/ AtMessage(after, i)' \/ InWrapper(after, i)' \/ AtWrapperEnd(after, i)',
           reports' = Expected(SubSeq(parsing.msgs, 1, i))
    PROVE  ParserInv' /\ AllReported'
BY DEF ParserInv, AllReported

\* What a message became a report of is reported as it should be.
LEMMA MessageReported ==
    ASSUME NEW m \in Messages, m.id \in DOMAIN RawSize
    PROVE  ToReport(m) = [connect_type |-> Reported(m.connect_type, m.id), id |-> m.id,
                          raw |-> Decoded(m.id, CopyPayload(RawSize[m.id], m.raw))]
BY DecodedIsFitted DEF ToReport

\* A message was reported or ignored.
LEMMA MessagePassed ==
    ASSUME BasicInv, FramesInv, ParserInv, OnMsg \/ IgnoreMsg
    PROVE  ParserInv' /\ AllReported'
<1> DEFINE ms == parsing.msgs
<1>1. parsing' = parsing /\ parsing # NoFrame /\ windows # << >>
  BY WithinFrame DEF Within
<1>2. PICK after \in Layouts(ms), i \in 0 .. Len(ms) :
          /\ \/ Message(after, i) \/ Wrapper(after, i) \/ Wireless(after, i)
             \/ WrapperEnd(after, i) \/ FrameEnd(i)
          /\ reports = Expected(SubSeq(ms, 1, i)) /\ ms \in Seq(Messages)
  BY <1>1, WhatIsFound
<1>3. /\ MsgReady(Window) /\ MsgId(Window) # WrapId /\ connect_type' = connect_type
      /\ windows' = <<AfterMsg(Window)>> \o Tail(windows)
  BY IdAssumption DEF OnMsg, IgnoreMsg
<1>4. Message(after, i) \/ Wireless(after, i)
  BY <1>2, <1>3 DEF Wrapper, WrapperEnd, FrameEnd
<1>5. /\ i < Len(ms) /\ MsgId(Window) = ms[i + 1].id
      /\ MsgPayload(Window) = ms[i + 1].raw /\ connect_type = ms[i + 1].connect_type
  BY <1>4 DEF Message, Wireless
<1>6. i \in 0 .. (Len(ms) - 1) /\ i + 1 \in 0 .. Len(ms) /\ ms \in Seq(Messages)
  <2> DEFINE n == Len(ms)
  <2>1. n \in Nat /\ i \in 0 .. n /\ i < n
    BY <1>2, <1>5, LenProperties
  <2> HIDE DEF n
  <2>2. i \in 0 .. (n - 1) /\ i + 1 \in 0 .. n
    BY <2>1
  <2> QED
    BY <1>2, <2>2 DEF n
<1>7. /\ ms[i + 1] \in Messages
      /\ Expected(SubSeq(ms, 1, i + 1)) = IF ms[i + 1].id \in DOMAIN RawSize
                                          THEN Append(reports, ToReport(ms[i + 1])) ELSE reports
  BY <1>2, <1>6, ExpectedNext
<1> DEFINE m == ms[i + 1]
<1>8. reports' = Expected(SubSeq(ms, 1, i + 1))
  <2> HIDE DEF m
  <2>1. CASE OnMsg
    <3>1. /\ m.id \in DOMAIN RawSize
          /\ reports' = Append(reports, [connect_type |-> Reported(m.connect_type, m.id),
                id |-> m.id, raw |-> Decoded(m.id, CopyPayload(RawSize[m.id], m.raw))])
      BY <1>5, <2>1 DEF OnMsg, m
    <3> QED
      BY <1>7, <3>1, MessageReported DEF m
  <2>2. CASE IgnoreMsg
    BY <1>5, <1>7, <2>2 DEF IgnoreMsg
  <2> QED
    BY <2>1, <2>2
<1>9. AtMessage(after, i + 1)' \/ AtWrapperEnd(after, i + 1)'
  <2>1. CASE Message(after, i)
    <3>1. /\ connect_type' = "WIRED" /\ AfterMsg(Window) = after[i + 1]
          /\ Tail(windows) = << >>
      BY <1>3, <2>1 DEF Message
    <3>2. windows' = <<after[i + 1]>>
      BY <1>3, <3>1, ShortTuples, Zenon
    <3> QED
      BY <3>1, <3>2 DEF AtMessage
  <2>2. CASE Wireless(after, i)
    <3>1. /\ connect_type' = "WIRELESS" /\ AfterMsg(Window) = << >>
          /\ Tail(windows) = <<after[i + 1]>>
      BY <1>3, <2>2 DEF Wireless
    <3>2. windows' = << << >>, after[i + 1] >>
      BY <1>3, <3>1, ShortTuples, Zenon
    <3> QED
      BY <3>1, <3>2 DEF AtWrapperEnd
  <2> QED
    BY <1>4, <2>1, <2>2
<1>10. windows' # << >>
  BY <1>9, ShortTuples, Zenon DEF AtMessage, AtWrapperEnd
<1> HIDE DEF ms
<1> QED
  BY <1>1, <1>6, <1>8, <1>9, <1>10, StillWithin DEF ms

\* The messages in a wrapper are gone through, ...
LEMMA WrapperEntered ==
    ASSUME BasicInv, FramesInv, ParserInv, EnterWrapper
    PROVE  ParserInv' /\ AllReported'
<1> DEFINE ms == parsing.msgs
<1>1. parsing' = parsing /\ parsing # NoFrame /\ windows # << >>
  BY WithinFrame DEF Within
<1>2. PICK after \in Layouts(ms), i \in 0 .. Len(ms) :
          /\ \/ Message(after, i) \/ Wrapper(after, i) \/ Wireless(after, i)
             \/ WrapperEnd(after, i) \/ FrameEnd(i)
          /\ reports = Expected(SubSeq(ms, 1, i)) /\ ms \in Seq(Messages)
  BY <1>1, WhatIsFound
<1>3. /\ MsgReady(Window) /\ MsgId(Window) = WrapId
      /\ connect_type' = "WIRELESS" /\ reports' = reports
      /\ windows' = <<UserData(Window), AfterMsg(Window)>> \o Tail(windows)
  BY DEF EnterWrapper
<1>4. i < Len(ms) => ms[i + 1].id # WrapId
  <2> SUFFICES ASSUME i < Len(ms) PROVE ms[i + 1] \in Messages
    BY MessageAssumption
  <2> DEFINE n == Len(ms)
  <2>1. n \in Nat /\ i \in 0 .. n /\ i < n
    BY <1>2, LenProperties
  <2> HIDE DEF n
  <2>2. i + 1 \in 1 .. n
    BY <2>1
  <2> QED
    BY <1>2, <2>2, ElementOfSeq DEF n
<1>5. Wrapper(after, i)
  BY <1>2, <1>3, <1>4 DEF Message, Wireless, WrapperEnd, FrameEnd
<1>6. /\ Tail(windows) = << >> /\ AfterMsg(Window) = after[i + 1] /\ i < Len(ms)
      /\ ms[i + 1].connect_type = "WIRELESS"
      /\ UserData(Window) = MsgWrite(ms[i + 1].id, ms[i + 1].raw)
  BY <1>5 DEF Wrapper
<1>7. windows' = <<MsgWrite(ms[i + 1].id, ms[i + 1].raw), after[i + 1]>>
  BY <1>3, <1>6, ShortTuples, Zenon
<1>8. InWrapper(after, i)'
  BY <1>1, <1>3, <1>6, <1>7 DEF InWrapper
<1>9. windows' # << >>
  BY <1>7, ShortTuples, Zenon
<1> HIDE DEF ms
<1> QED
  BY <1>1, <1>2, <1>3, <1>8, <1>9, StillWithin DEF ms

\* ... and then the messages after the wrapper.
LEMMA WrapperLeft ==
    ASSUME BasicInv, FramesInv, ParserInv, LeaveWrapper
    PROVE  ParserInv' /\ AllReported'
<1> DEFINE ms == parsing.msgs
<1>1. parsing' = parsing /\ parsing # NoFrame /\ windows # << >>
  BY WithinFrame DEF Within
<1>2. PICK after \in Layouts(ms), i \in 0 .. Len(ms) :
          /\ \/ Message(after, i) \/ Wrapper(after, i) \/ Wireless(after, i)
             \/ WrapperEnd(after, i) \/ FrameEnd(i)
          /\ reports = Expected(SubSeq(ms, 1, i)) /\ ms \in Seq(Messages)
  BY <1>1, WhatIsFound
<1>3. /\ ~MsgReady(Window) /\ Len(windows) > 1 /\ connect_type' = "WIRED"
      /\ reports' = reports /\ windows' = Tail(windows)
  BY DEF LeaveWrapper
<1>4. WrapperEnd(after, i)
  BY <1>2, <1>3 DEF Message, Wireless, Wrapper, FrameEnd
<1>5. windows' = <<after[i]>>
  BY <1>3, <1>4 DEF WrapperEnd
<1>6. AtMessage(after, i)' /\ windows' # << >>
  BY <1>3, <1>5, ShortTuples, Zenon DEF AtMessage
<1> HIDE DEF ms
<1> QED
  BY <1>1, <1>2, <1>3, <1>6, StillWithin DEF ms

\* Nothing is left: all messages have been reported.
LEMMA FrameEnded ==
    ASSUME BasicInv, FramesInv, ParserInv, OnFrameEnd
    PROVE  ParserInv' /\ AllReported'
<1> DEFINE ms == parsing.msgs
<1>1. parsing' = parsing /\ parsing # NoFrame /\ windows # << >>
  BY WithinFrame DEF Within
<1>2. PICK after \in Layouts(ms), i \in 0 .. Len(ms) :
          /\ \/ Message(after, i) \/ Wrapper(after, i) \/ Wireless(after, i)
             \/ WrapperEnd(after, i) \/ FrameEnd(i)
          /\ reports = Expected(SubSeq(ms, 1, i)) /\ ms \in Seq(Messages)
  BY <1>1, WhatIsFound
<1>3. ~MsgReady(Window) /\ Len(windows) = 1 /\ reports' = reports /\ windows' = << >>
  BY DEF OnFrameEnd
<1>4. FrameEnd(i)
  BY <1>2, <1>3 DEF Message, Wireless, Wrapper, WrapperEnd
<1>5. SubSeq(ms, 1, i) = ms
  BY <1>2, <1>4, SubSeqFull DEF FrameEnd
<1> QED
  BY <1>1, <1>2, <1>3, <1>5 DEF ParserInv, AllReported

----------------------------------------------------------------------------
\* The theorems.

\* The invariant holds at the start ...
LEMMA IInvInit == Init => IInv
<1> SUFFICES ASSUME Init PROVE IInv
  OBVIOUS
<1> USE DEF Init
<1>1. BasicInv
  <2>1. << >> \in Seq(Frames)
    BY EmptySeq
  <2> QED
    BY <2>1, BoundAssumption DEF BasicInv, ConnectType
<1>2. FramesInv
  BY DEF FramesInv
<1> QED
  BY <1>1, <1>2 DEF IInv, ParserInv, AllReported

\* ... and every step keeps it.
LEMMA IInvStep == IInv /\ [Next]_vars => IInv'
<1> SUFFICES ASSUME IInv, [Next]_vars PROVE IInv'
  OBVIOUS
<1>1. BasicInv /\ FramesInv /\ ParserInv /\ AllReported
  BY DEF IInv
<1>2. CASE SenderStep
  <2>1. UNCHANGED parser
    BY <1>2 DEF SenderStep, Begin, AppendMsg, AppendFails, Prepare, End, Lose, parser, sender
  <2> QED
    BY <1>1, <1>2, <2>1, SenderKeepsFrames, SenderKeepsParser DEF IInv
<1>3. CASE OnFrame
  BY <1>1, <1>3, FrameIsTaken DEF IInv
<1>4. CASE Within
  <2>1. BasicInv' /\ FramesInv'
    BY <1>1, <1>4, WithinFrame
  <2>2. ParserInv' /\ AllReported'
    BY <1>1, <1>4, MessagePassed, WrapperEntered, WrapperLeft, FrameEnded DEF Within
  <2> QED
    BY <2>1, <2>2 DEF IInv
<1>5. CASE UNCHANGED vars
  <2>1. UNCHANGED parser
    BY <1>5 DEF vars, parser
  <2>2. BasicInv' /\ FramesInv'
    BY <1>1, <1>5 DEF vars, BasicInv, FramesInv, FrameInv, FrameBytes, Frames, Layouts
  <2> QED
    BY <1>1, <2>1, <2>2, SenderKeepsParser DEF IInv
<1> QED
  BY <1>2, <1>3, <1>4, <1>5 DEF Next, ParserStep, SenderStep, Within

\* Every frame is within its buffer and made of its messages, and the parser is
\* where one of the messages ends and has reported those before.
THEOREM Invariance == SafeSpec => []IInv
<1> QED
  BY IInvInit, IInvStep, PTL DEF SafeSpec

\* The values that the builder of frames and the parser of messages keep are
\* of their types, and at most one wrapper is open.
THEOREM TypeCorrect == SafeSpec => []TypeOK
<1>1. IInv => TypeOK
  <2> SUFFICES ASSUME IInv PROVE TypeOK
    OBVIOUS
  <2>0. BasicInv /\ FramesInv /\ ParserInv /\ AllReported
    BY DEF IInv
  <2>1. /\ out \in Frames \cup {NoFrame} /\ parsing \in Frames \cup {NoFrame}
        /\ begun \in 0 .. FramesMax /\ wire \in Seq(Frames)
        /\ connect_type \in ConnectType /\ frame_cnt \in 0 .. (CntRange - 1)
    BY <2>0 DEF BasicInv, FramesInv, FrameInv
  <2>2. CASE windows = << >>
    <3>1. windows \in Seq(Seq(Byte)) /\ Len(windows) = 0
      BY <2>2, EmptySeq
    <3>2. reports \in Seq(Report)
      <4>1. CASE parsing = NoFrame
        BY <2>0, <2>2, <4>1, EmptySeq DEF BasicInv
      <4>2. CASE parsing # NoFrame
        <5>1. parsing.msgs \in Seq(Messages)
          BY <2>0, <4>2, FrameFacts DEF FramesInv
        <5> QED
          BY <2>0, <2>2, <4>2, <5>1, ExpectedType DEF AllReported
      <4> QED
        BY <4>1, <4>2
    <3> QED
      BY <2>1, <3>1, <3>2 DEF TypeOK, Byte, Report
  <2>3. CASE windows # << >>
    <3> DEFINE ms == parsing.msgs
    <3>1. PICK after \in Layouts(ms), i \in 0 .. Len(ms) :
              /\ AtMessage(after, i) \/ InWrapper(after, i) \/ AtWrapperEnd(after, i)
              /\ reports = Expected(SubSeq(ms, 1, i))
      BY <2>0, <2>3 DEF ParserInv
    <3>2. FrameInv(parsing)
      BY <2>0, <2>3 DEF ParserInv, FramesInv
    <3>3. ms \in Seq(Messages) /\ \A k \in DOMAIN ms : BuiltSize(ms[k]) <= PayloadSizeMax
      BY <3>2, FrameFacts DEF FrameInv
    <3>4. after \in [0 .. Len(ms) -> Seq(Byte)] /\ Len(ms) \in Nat /\ DOMAIN ms = 1 .. Len(ms)
      BY <3>3 DEF Layouts
    <3>5. reports \in Seq(Report)
      <4>1. \A j \in 1 .. i : ms[j] \in Messages
        BY <3>3, <3>4
      <4>2. SubSeq(ms, 1, i) \in Seq(Messages)
        BY <4>1, SubSeqProperties
      <4> QED
        BY <3>1, <4>2, ExpectedType
    <3>6. windows \in Seq(Seq(Byte)) /\ Len(windows) <= 2
      <4>1. CASE AtMessage(after, i)
        BY <3>4, <4>1 DEF AtMessage
      <4>2. CASE InWrapper(after, i)
        <5>1. i + 1 \in 1 .. Len(ms)
          BY <3>4, <4>2 DEF InWrapper
        <5>2. MsgWrite(ms[i + 1].id, ms[i + 1].raw) \in Seq(Byte)
          <6> DEFINE m == ms[i + 1]
          <6>1. m \in Messages /\ BuiltSize(m) <= PayloadSizeMax
            BY <3>3, <3>4, <5>1, ElementOfSeq
          <6> HIDE DEF m
          <6>2. MsgWrite(m.id, m.raw) \in Seq(Byte)
            BY <6>1, WriteType
          <6> QED
            BY <6>2 DEF m
        <5>3. after[i + 1] \in Seq(Byte)
          BY <3>4, <5>1
        <5> QED
          BY <4>2, <5>2, <5>3 DEF InWrapper
      <4>3. CASE AtWrapperEnd(after, i)
        <5>1. << >> \in Seq(Byte) /\ after[i] \in Seq(Byte)
          BY <3>4, EmptySeq
        <5> QED
          BY <4>3, <5>1 DEF AtWrapperEnd
      <4> QED
        BY <3>1, <4>1, <4>2, <4>3
    <3> QED
      BY <2>1, <3>5, <3>6 DEF TypeOK, Byte, Report
  <2> QED
    BY <2>2, <2>3
<1> QED
  BY <1>1, Invariance, PTL

\* fm_prepare_msg_to_dev_try_append: what it accepts, wrapper included, leaves
\* room for the checksum within the sender's buffer, for any buffer and message.
THEOREM FramesFit == SafeSpec => []FrameFits
<1>1. IInv => FrameFits
  BY DEF IInv, FramesInv, FrameInv, FrameFits
<1> QED
  BY <1>1, Invariance, PTL

\* fm_frame_parser_handle_data of the peer never turns down a sent frame for
\* its length.
THEOREM FramesAccepted == SafeSpec => []PeerAccepts
<1>1. IInv => PeerAccepts
  BY FrameFacts DEF IInv, FramesInv, PeerAccepts
<1> QED
  BY <1>1, Invariance, PTL

\* fm_msg_parser_handle_data and the on_frame_msg callbacks: of every frame that
\* arrives all messages known to the peer are reported, in order and as sent.
THEOREM MessagesReported == SafeSpec => []AllReported
<1>1. IInv => AllReported
  BY DEF IInv
<1> QED
  BY <1>1, Invariance, PTL

\* parser->connect_type is wireless exactly within a wrapper.
THEOREM ConnectTypeCorrect == SafeSpec => []ConnectTypeFollowsWrapper
<1>1. IInv => ConnectTypeFollowsWrapper
  <2> SUFFICES ASSUME IInv, windows # << >>
               PROVE  connect_type = "WIRELESS" <=> Len(windows) = 2
    BY DEF ConnectTypeFollowsWrapper
  <2>1. PICK after, i : AtMessage(after, i) \/ InWrapper(after, i) \/ AtWrapperEnd(after, i)
    BY DEF IInv, ParserInv
  <2> QED
    BY <2>1 DEF AtMessage, InWrapper, AtWrapperEnd
<1> QED
  BY <1>1, Invariance, PTL
=============================================================================
