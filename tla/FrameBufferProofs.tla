------------------------- MODULE FrameBufferProofs -------------------------
(***************************************************************************)
(* The safety properties of FrameBuffer hold for every frame format, every *)
(* buffer size that fits it, every stream and every cutting of the stream. *)
(***************************************************************************)
EXTENDS FrameBuffer, TLAPS

----------------------------------------------------------------------------
\* The inductive invariant.

\* The call in progress was handed the last bytes of the stream, and the
\* window lies within what it and its predecessors have copied.
CallInv ==
    /\ index_end <= Copied
    /\ pc = "idle" => data = << >> /\ offset = 0
    /\ \A j \in 1 .. Len(data) :
           data[j] = received[Len(received) - Len(data) + j]

\* Outside the extract loop the buffer starts at its front and is not full,
\* and shows no frame that could be decided.
FrontInv ==
    pc # "extract" =>
        /\ index_begin = 0 /\ index_end < FrameSizeMax
        /\ HeaderReady => Candidate /\ ~Complete

\* Every position disposed of lies in a frame handed over, or bears no frame.
Decided == \A p \in 0 .. (Position - 1) : Covered(p) \/ NoFrameAt(received, p)

IInv == /\ TypeOK /\ CallInv /\ FrontInv
        /\ WindowIsStream /\ DeliveredFromStream /\ Decided

----------------------------------------------------------------------------
\* Lemmas on streams.

\* A payload size is a natural number.
LEMMA U16Type ==
    ASSUME NEW lo \in Byte, NEW hi \in Byte
    PROVE  U16(lo, hi) \in Nat
<1>1. lo \in Nat /\ hi \in Nat /\ Radix \in Nat
  BY ByteAssumption
<1>2. Radix * hi \in Nat
  BY <1>1
<1> QED
  BY <1>1, <1>2 DEF U16

\* Once its header has arrived, a position has a frame size.
LEMMA FrameSizeAtType ==
    ASSUME NEW s \in Seq(Byte), NEW p \in Nat, HeaderAt(s, p)
    PROVE  /\ PayloadSizeAt(s, p) \in Nat
           /\ FrameSizeAt(s, p) \in Nat /\ FrameSizeAt(s, p) >= SizeMin
<1>1. /\ p + PayloadSizeOffset + 1 \in 1 .. Len(s)
      /\ p + PayloadSizeOffset + 2 \in 1 .. Len(s)
  BY LayoutAssumption DEF HeaderAt
<1>2. /\ s[p + PayloadSizeOffset + 1] \in Byte
      /\ s[p + PayloadSizeOffset + 2] \in Byte
  BY <1>1
<1>3. PayloadSizeAt(s, p) \in Nat
  BY <1>2, U16Type DEF PayloadSizeAt
<1> QED
  BY <1>3, LayoutAssumption DEF FrameSizeAt

\* t continues s.
Extends(t, s) == /\ Len(s) <= Len(t)
                 /\ \A i \in 1 .. Len(s) : t[i] = s[i]

\* What stands at a position is settled: more bytes do not change it.
LEMMA ExtendHeader ==
    ASSUME NEW s \in Seq(Byte), NEW t \in Seq(Byte), Extends(t, s),
           NEW p \in Nat, HeaderAt(s, p)
    PROVE  /\ HeaderAt(t, p)
           /\ PayloadSizeAt(t, p) = PayloadSizeAt(s, p)
           /\ FrameSizeAt(t, p) = FrameSizeAt(s, p)
           /\ CandidateAt(t, p) <=> CandidateAt(s, p)
           /\ CompleteAt(s, p) => CompleteAt(t, p) /\ BytesAt(t, p) = BytesAt(s, p)
<1>1. /\ p + PayloadSizeOffset + 1 \in 1 .. Len(s)
      /\ p + PayloadSizeOffset + 2 \in 1 .. Len(s)
      /\ p + 1 \in 1 .. Len(s)
  BY LayoutAssumption DEF HeaderAt
<1>2. /\ t[p + PayloadSizeOffset + 1] = s[p + PayloadSizeOffset + 1]
      /\ t[p + PayloadSizeOffset + 2] = s[p + PayloadSizeOffset + 2]
      /\ t[p + 1] = s[p + 1]
  BY <1>1 DEF Extends
<1>3. PayloadSizeAt(t, p) = PayloadSizeAt(s, p)
  BY <1>2 DEF PayloadSizeAt
<1>4. FrameSizeAt(t, p) = FrameSizeAt(s, p)
  BY <1>3 DEF FrameSizeAt
<1>5. HeaderAt(t, p)
  BY LayoutAssumption DEF HeaderAt, Extends
<1>6. CandidateAt(t, p) <=> CandidateAt(s, p)
  BY <1>2, <1>3 DEF CandidateAt
<1>7. ASSUME CompleteAt(s, p)
      PROVE  CompleteAt(t, p) /\ BytesAt(t, p) = BytesAt(s, p)
  <2> DEFINE n == FrameSizeAt(s, p)
  <2>1. n \in Nat /\ p + n <= Len(s) /\ p + n <= Len(t)
    BY <1>7, FrameSizeAtType DEF CompleteAt, Extends
  <2>2. CompleteAt(t, p)
    BY <2>1, <1>4 DEF CompleteAt
  <2> HIDE DEF n
  <2>3. SubSeq(t, p + 1, p + n) = SubSeq(s, p + 1, p + n)
    BY <2>1 DEF Extends
  <2> QED
    BY <2>2, <2>3, <1>4 DEF BytesAt, n
<1> QED
  BY <1>3, <1>4, <1>5, <1>6, <1>7

\* A stream that goes on has the frames it had, and no frame where there was none.
LEMMA ExtendStream ==
    ASSUME NEW s \in Seq(Byte), NEW t \in Seq(Byte), Extends(t, s), NEW p \in Nat
    PROVE  /\ FrameAt(s, p) => FrameAt(t, p) /\ BytesAt(t, p) = BytesAt(s, p)
           /\ NoFrameAt(s, p) => NoFrameAt(t, p)
BY ExtendHeader DEF FrameAt, NoFrameAt

\* A position bears a frame or bears none, not both.
LEMMA NoFrameIsNoFrame ==
    ASSUME NEW s, NEW p, NoFrameAt(s, p)
    PROVE  ~FrameAt(s, p)
BY DEF NoFrameAt, FrameAt

----------------------------------------------------------------------------
\* What the buffer shows is what stands in the stream at Position.

\* The numbers of bytes seen and still to be seen are within their limits.
LEMMA CursorTypes ==
    ASSUME TypeOK, CallInv
    PROVE  /\ Available \in Nat /\ Copied \in Nat /\ Position \in Nat
           /\ Available <= FrameSizeMax
           /\ Copied <= Len(received) /\ Position = Copied - Available
           /\ FrameSizeMax \in Nat
BY FrameSizeAssumption, LayoutAssumption
   DEF TypeOK, CallInv, Available, Copied, Position

\* The window, counted from the cursor.
LEMMA FrontIsStream ==
    ASSUME TypeOK, CallInv, WindowIsStream, NEW i \in 0 .. (Available - 1)
    PROVE  /\ Position + i + 1 \in 1 .. Len(received)
           /\ Front(i) = received[Position + i + 1]
           /\ Front(i) \in Byte
<1>1. index_begin + i \in index_begin .. (index_end - 1)
  BY DEF TypeOK, Available
<1>2. buffer[index_begin + i]
        = received[Copied - index_end + (index_begin + i) + 1]
  BY <1>1 DEF WindowIsStream
<1>3. Copied - index_end + (index_begin + i) + 1 = Position + i + 1
  BY <1>1, CursorTypes DEF TypeOK, Available, Position
<1>4. Position + i + 1 \in 1 .. Len(received)
  BY CursorTypes
<1>5. index_begin + i \in 0 .. (FrameSizeMax - 1)
  BY <1>1, CursorTypes DEF TypeOK
<1> QED
  BY <1>2, <1>3, <1>4, <1>5 DEF Front, TypeOK

\* What is read off the buffer is what stands in the stream at Position.
LEMMA BufferShowsStream ==
    ASSUME TypeOK, CallInv, WindowIsStream
    PROVE  /\ HeaderReady => /\ HeaderAt(received, Position)
                             /\ FrameSize = FrameSizeAt(received, Position)
                             /\ FrameSize \in Nat /\ FrameSize >= SizeMin
                             /\ Candidate <=> CandidateAt(received, Position)
           /\ HeaderReady /\ Complete =>
                /\ CompleteAt(received, Position)
                /\ FrameBytes = BytesAt(received, Position)
                /\ FrameBytes \in Seq(Byte) /\ Len(FrameBytes) = FrameSize
           /\ pc = "idle" =>
                /\ HeaderAt(received, Position) => HeaderReady
                /\ HeaderAt(received, Position) /\ CompleteAt(received, Position)
                     => Complete
<1> DEFINE o == PayloadSizeOffset
<1>1. Available \in Nat /\ Copied \in Nat /\ Position \in Nat
      /\ Copied <= Len(received) /\ Position = Copied - Available
  BY CursorTypes
<1>2. ASSUME HeaderReady
      PROVE  /\ HeaderAt(received, Position)
             /\ PayloadSize = PayloadSizeAt(received, Position)
             /\ FrameSize = FrameSizeAt(received, Position)
             /\ FrameSize \in Nat /\ FrameSize >= SizeMin
             /\ Candidate <=> CandidateAt(received, Position)
  <2>1. HeaderAt(received, Position)
    BY <1>1, <1>2, LayoutAssumption DEF HeaderReady, HeaderAt
  <2>2. 0 \in 0 .. (Available - 1) /\ o \in 0 .. (Available - 1)
        /\ o + 1 \in 0 .. (Available - 1)
    BY <1>1, <1>2, LayoutAssumption DEF HeaderReady
  <2>3. /\ Front(0) = received[Position + 1]
        /\ Front(o) = received[Position + o + 1]
        /\ Front(o + 1) = received[Position + o + 2]
    <3>1. Front(0) = received[Position + 0 + 1]
      BY <2>2, FrontIsStream
    <3>2. Front(o) = received[Position + o + 1]
      BY <2>2, FrontIsStream
    <3>3. Front(o + 1) = received[Position + (o + 1) + 1]
      BY <2>2, FrontIsStream
    <3> QED
      BY <3>1, <3>2, <3>3, <1>1, LayoutAssumption
  <2>4. PayloadSize = PayloadSizeAt(received, Position)
    BY <2>3 DEF PayloadSize, PayloadSizeAt
  <2>5. FrameSize = FrameSizeAt(received, Position)
    BY <2>4 DEF FrameSize, FrameSizeAt
  <2>6. FrameSize \in Nat /\ FrameSize >= SizeMin
    BY <2>1, <2>5, <1>1, FrameSizeAtType DEF TypeOK
  <2> QED
    BY <2>1, <2>3, <2>4, <2>5, <2>6 DEF Candidate, CandidateAt
<1>3. ASSUME HeaderReady, Complete
      PROVE  /\ CompleteAt(received, Position)
             /\ FrameBytes = BytesAt(received, Position)
             /\ FrameBytes \in Seq(Byte) /\ Len(FrameBytes) = FrameSize
  <2>1. FrameSize \in Nat /\ FrameSize <= Available
        /\ FrameSize = FrameSizeAt(received, Position)
    BY <1>1, <1>2, <1>3 DEF Complete
  <2>2. \A i \in 1 .. FrameSize : /\ Front(i - 1) = received[Position + i]
                                  /\ Front(i - 1) \in Byte
    <3> TAKE i \in 1 .. FrameSize
    <3>1. i - 1 \in 0 .. (Available - 1)
      BY <2>1, <1>1
    <3>2. Front(i - 1) = received[Position + (i - 1) + 1] /\ Front(i - 1) \in Byte
      BY <3>1, FrontIsStream
    <3> QED
      BY <3>2, <1>1, <2>1
  <2>3. CompleteAt(received, Position)
    BY <2>1, <1>1 DEF CompleteAt
  <2>4. SubSeq(received, Position + 1, Position + FrameSize)
          = [i \in 1 .. FrameSize |-> received[Position + i]]
    BY <2>1, <1>1 DEF TypeOK
  <2>5. FrameBytes = BytesAt(received, Position)
    BY <2>1, <2>2, <2>4 DEF FrameBytes, BytesAt
  <2>6. FrameBytes \in Seq(Byte) /\ Len(FrameBytes) = FrameSize
    BY <2>1, <2>2 DEF FrameBytes
  <2> QED
    BY <2>3, <2>5, <2>6
<1>4. ASSUME pc = "idle"
      PROVE  /\ HeaderAt(received, Position) => HeaderReady
             /\ HeaderAt(received, Position) /\ CompleteAt(received, Position)
                  => Complete
  <2>1. Copied = Len(received)
    BY <1>4 DEF TypeOK, CallInv, Copied
  <2>2. HeaderAt(received, Position) => HeaderReady
    BY <2>1, <1>1, LayoutAssumption DEF HeaderAt, HeaderReady
  <2>3. ASSUME HeaderAt(received, Position), CompleteAt(received, Position)
        PROVE  Complete
    BY <2>1, <2>2, <2>3, <1>1, <1>2 DEF CompleteAt, Complete
  <2> QED
    BY <2>2, <2>3
<1> QED
  BY <1>2, <1>3, <1>4

\* A frame delivered is a place and some bytes.
LEMMA FrameTypes ==
    ASSUME TypeOK, NEW k \in DOMAIN frames
    PROVE  frames[k].at \in Nat /\ frames[k].bytes \in Seq(Byte)
<1> DEFINE Frame == [at : Nat, bytes : Seq(Byte)]
<1>1. frames \in Seq(Frame)
  BY DEF TypeOK
<1> HIDE DEF Frame
<1>2. frames[k] \in Frame
  BY <1>1
<1> QED
  BY <1>2 DEF Frame

----------------------------------------------------------------------------
\* The invariant holds at the start and every action keeps it.

\* The invariant holds at the start, ...
LEMMA InitInv == Init => IInv
<1> SUFFICES ASSUME Init PROVE IInv
  OBVIOUS
<1> USE DEF Init
<1>1. FrameSizeMax \in Nat \ {0} /\ 0 \in Byte
  BY FrameSizeAssumption, LayoutAssumption, ByteAssumption
<1>2. TypeOK
  BY <1>1 DEF TypeOK
<1>3. CallInv /\ Available = 0 /\ Position = 0
  BY DEF CallInv, Copied, Position, Available
<1>4. FrontInv
  BY <1>1, <1>3, LayoutAssumption DEF FrontInv, HeaderReady
<1>5. WindowIsStream /\ DeliveredFromStream /\ Decided
  BY <1>3 DEF WindowIsStream, DeliveredFromStream, Decided
<1> QED
  BY <1>2, <1>3, <1>4, <1>5 DEF IInv

\* What is delivered and what is decided survive when the stream grows and
\* the cursor stays.
LEMMA HistoryStable ==
    ASSUME TypeOK, CallInv, DeliveredFromStream, Decided,
           received' \in Seq(Byte), Extends(received', received),
           UNCHANGED frames, Position' = Position
    PROVE  DeliveredFromStream' /\ Decided'
<1>1. Position \in Nat
  BY CursorTypes
<1>2. DeliveredFromStream'
  <2>1. ASSUME NEW k \in DOMAIN frames
        PROVE  /\ FrameAt(received', frames[k].at)
               /\ frames[k].bytes = BytesAt(received', frames[k].at)
    <3>1. frames[k].at \in Nat
      BY FrameTypes
    <3> QED
      BY <3>1, ExtendStream DEF DeliveredFromStream, TypeOK
  <2> QED
    BY <2>1 DEF DeliveredFromStream
<1>3. Decided'
  <2> SUFFICES ASSUME NEW p \in 0 .. (Position - 1)
               PROVE  Covered(p)' \/ NoFrameAt(received', p)
    BY DEF Decided
  <2>1. p \in Nat
    BY <1>1
  <2>2. CASE Covered(p)
    BY <2>2 DEF Covered
  <2>3. CASE NoFrameAt(received, p)
    BY <2>1, <2>3, ExtendStream DEF TypeOK
  <2> QED
    BY <2>2, <2>3 DEF Decided
<1> QED
  BY <1>2, <1>3

\* ... a call of handle_data keeps it, ...
LEMMA HandleDataInv ==
    ASSUME IInv, NEW chunk \in Chunks, HandleData(chunk)
    PROVE  IInv'
<1> USE DEF HandleData, IInv
<1>1. chunk \in Seq(Byte) /\ Len(chunk) \in Nat
  <2>1. PICK n \in 0 .. ChunkMax : chunk \in [1 .. n -> Byte]
    BY DEF Chunks
  <2>2. n \in Nat
    BY <2>1, BoundAssumption
  <2> QED
    BY <2>1, <2>2
<1>2. received' \in Seq(Byte) /\ Len(received') = Len(received) + Len(chunk)
      /\ \A i \in 1 .. Len(received) : received'[i] = received[i]
  BY <1>1 DEF TypeOK
<1>3. TypeOK'
  BY <1>1, <1>2 DEF TypeOK
<1>4. Copied = Len(received) /\ Copied' = Copied /\ Available' = Available
      /\ Position' = Position /\ Copied \in Nat
  BY <1>1, <1>2 DEF CallInv, Copied, Position, Available, TypeOK
<1>5. CallInv'
  <2>1. \A j \in 1 .. Len(chunk) : received'[Len(received) + j] = chunk[j]
    BY <1>1 DEF TypeOK
  <2>2. \A j \in 1 .. Len(data') :
            data'[j] = received'[Len(received') - Len(data') + j]
    BY <1>1, <1>2, <2>1 DEF TypeOK
  <2> QED
    BY <1>4, <2>2 DEF CallInv
<1>6. FrontInv'
  BY DEF FrontInv, HeaderReady, Candidate, Complete, Available, Front,
         PayloadSize, FrameSize
<1>7. WindowIsStream'
  <2> SUFFICES ASSUME NEW i \in index_begin .. (index_end - 1)
               PROVE  buffer[i] = received'[Copied - index_end + i + 1]
    BY <1>4 DEF WindowIsStream
  <2>1. Copied - index_end + i + 1 \in 1 .. Len(received)
    BY <1>4 DEF CallInv, TypeOK
  <2> QED
    BY <2>1, <1>2 DEF WindowIsStream
<1>8. DeliveredFromStream' /\ Decided'
  BY <1>2, <1>4, HistoryStable DEF Extends
<1> QED
  BY <1>3, <1>5, <1>6, <1>7, <1>8

\* ... so does copying a piece into the buffer, ...
LEMMA CopyPieceInv ==
    ASSUME IInv, CopyPiece
    PROVE  IInv'
<1> DEFINE size == Lesser(FrameSizeMax - index_end, Len(data) - offset)
<1>1. /\ pc = "feed" /\ offset < Len(data) /\ index_begin = 0
      /\ index_end < FrameSizeMax
      /\ size \in Nat /\ size > 0
      /\ size <= FrameSizeMax - index_end /\ size <= Len(data) - offset
      /\ FrameSizeMax \in Nat /\ index_end \in Nat /\ offset \in Nat
      /\ Len(data) \in Nat /\ Len(received) \in Nat
  BY FrameSizeAssumption, LayoutAssumption
     DEF CopyPiece, IInv, FrontInv, TypeOK, Lesser
<1>2. /\ index_end' = index_end + size /\ offset' = offset + size
      /\ pc' = "extract"
      /\ UNCHANGED <<index_begin, data, received, frames>>
      /\ buffer' = [i \in DOMAIN buffer |->
                       IF i \in index_end .. (index_end + size - 1)
                       THEN data[offset + (i - index_end) + 1]
                       ELSE buffer[i]]
  BY DEF CopyPiece
<1> HIDE DEF size
<1>3. Copied \in Nat /\ Copied' = Copied + size /\ index_end <= Copied
      /\ Available' = Available + size /\ Available = index_end
      /\ Position' = Position
  BY <1>1, <1>2 DEF IInv, CallInv, Copied, Position, Available
<1>4. TypeOK'
  <2>1. buffer' \in [0 .. (FrameSizeMax - 1) -> Byte]
    <3>1. buffer \in [0 .. (FrameSizeMax - 1) -> Byte] /\ data \in Seq(Byte)
      BY DEF IInv, TypeOK
    <3>2. \A i \in index_end .. (index_end + size - 1) :
              data[offset + (i - index_end) + 1] \in Byte
      <4> TAKE i \in index_end .. (index_end + size - 1)
      <4>1. offset + (i - index_end) + 1 \in 1 .. Len(data)
        BY <1>1
      <4> QED
        BY <3>1, <4>1
    <3> QED
      BY <1>2, <3>1, <3>2
  <2> QED
    BY <1>1, <1>2, <2>1 DEF IInv, TypeOK
<1>5. CallInv'
  BY <1>1, <1>2, <1>3 DEF IInv, CallInv
<1>6. FrontInv'
  BY <1>2 DEF FrontInv
<1>7. WindowIsStream'
  <2> SUFFICES ASSUME NEW i \in index_begin' .. (index_end' - 1)
               PROVE  buffer'[i] = received'[Copied' - index_end' + i + 1]
    BY DEF WindowIsStream
  <2>1. i \in 0 .. (index_end + size - 1) /\ i \in DOMAIN buffer /\ i \in Int
    BY <1>1, <1>2 DEF IInv, TypeOK
  <2>2. received'[Copied' - index_end' + i + 1] = received[Copied - index_end + i + 1]
    <3>1. Copied' - index_end' + i + 1 = Copied - index_end + i + 1
      BY <1>1, <1>2, <1>3, <2>1
    <3> QED
      BY <1>2, <3>1
  <2>3. CASE i < index_end
    <3>1. buffer'[i] = buffer[i]
      BY <1>1, <1>2, <2>1, <2>3
    <3>2. i \in index_begin .. (index_end - 1)
      BY <1>1, <2>1, <2>3
    <3>3. buffer[i] = received[Copied - index_end + i + 1]
      BY <3>2 DEF IInv, WindowIsStream
    <3> QED
      BY <2>2, <3>1, <3>3
  <2>4. CASE i >= index_end
    <3>1. buffer'[i] = data[offset + (i - index_end) + 1]
      BY <1>1, <1>2, <2>1, <2>4
    <3>2. offset + (i - index_end) + 1 \in 1 .. Len(data)
      BY <1>1, <2>1, <2>4
    <3>3. data[offset + (i - index_end) + 1]
            = received[Len(received) - Len(data) + (offset + (i - index_end) + 1)]
      BY <3>2 DEF IInv, CallInv
    <3>4. Len(received) - Len(data) + (offset + (i - index_end) + 1)
            = Copied - index_end + i + 1
      BY <1>1, <2>1 DEF Copied
    <3> QED
      BY <2>2, <3>1, <3>3, <3>4
  <2> QED
    BY <2>1, <2>3, <2>4, <1>1
<1>8. DeliveredFromStream' /\ Decided'
  <2>1. received \in Seq(Byte) /\ Extends(received, received)
    BY DEF IInv, TypeOK, Extends
  <2> QED
    BY <1>2, <1>3, <2>1, HistoryStable DEF IInv
<1> QED
  BY <1>4, <1>5, <1>6, <1>7, <1>8 DEF IInv

\* A position passed without delivery bears no frame.
LEMMA SkipByteInv ==
    ASSUME IInv, SkipByte
    PROVE  IInv'
<1> USE DEF IInv
<1>1. /\ pc = "extract" /\ HeaderReady
      /\ Candidate => Complete /\ ~CrcVerify(FrameBytes)
      /\ index_begin' = index_begin + 1
      /\ UNCHANGED <<buffer, index_end, data, offset, pc, received, frames>>
  BY DEF SkipByte
<1>2. Available \in Nat /\ Position \in Nat /\ Copied \in Nat /\ Available >= 1
  BY <1>1, CursorTypes, LayoutAssumption DEF HeaderReady
<1>3. Copied' = Copied /\ Available' = Available - 1 /\ Position' = Position + 1
  BY <1>1, <1>2 DEF Copied, Available, Position, TypeOK
<1>4. TypeOK' /\ CallInv' /\ FrontInv'
  <2>1. TypeOK'
    BY <1>1, <1>2 DEF TypeOK, Available
  <2>2. CallInv' /\ FrontInv'
    BY <1>1, <1>3 DEF CallInv, FrontInv
  <2> QED
    BY <2>1, <2>2
<1>5. WindowIsStream'
  BY <1>1, <1>3 DEF WindowIsStream, TypeOK
<1>6. DeliveredFromStream'
  <2> SUFFICES ASSUME NEW k \in DOMAIN frames
               PROVE  frames[k].at + Len(frames[k].bytes) <=
                        (IF k = Len(frames) THEN Position + 1
                                            ELSE frames[k + 1].at)
    BY <1>1, <1>3 DEF DeliveredFromStream
  <2>1. frames[k].at + Len(frames[k].bytes) <=
           (IF k = Len(frames) THEN Position ELSE frames[k + 1].at)
    BY DEF DeliveredFromStream
  <2>2. frames[k].at + Len(frames[k].bytes) \in Nat
    BY FrameTypes
  <2> QED
    BY <2>1, <2>2, <1>2
<1>7. Decided'
  <2>1. NoFrameAt(received, Position)
    BY <1>1, BufferShowsStream DEF NoFrameAt
  <2> SUFFICES ASSUME NEW p \in 0 .. Position
               PROVE  Covered(p) \/ NoFrameAt(received, p)
    BY <1>1, <1>2, <1>3 DEF Decided, Covered
  <2>2. CASE p = Position
    BY <2>1, <2>2
  <2>3. CASE p < Position
    BY <1>2, <2>3 DEF Decided
  <2> QED
    BY <1>2, <2>2, <2>3
<1> QED
  BY <1>4, <1>5, <1>6, <1>7

\* What is handed over is the frame that stands at Position, and the cursor
\* then stands behind it.
LEMMA DeliverFrameInv ==
    ASSUME IInv, DeliverFrame
    PROVE  IInv'
<1> USE DEF IInv
<1> DEFINE f == [at |-> Position, bytes |-> FrameBytes]
<1>1. /\ pc = "extract" /\ HeaderReady /\ Candidate /\ Complete
      /\ CrcVerify(FrameBytes)
      /\ frames' = Append(frames, f)
      /\ index_begin' = index_begin + FrameSize
      /\ UNCHANGED <<buffer, index_end, data, offset, pc, received>>
  BY DEF DeliverFrame
<1>2. Available \in Nat /\ Position \in Nat /\ Copied \in Nat
      /\ FrameSize \in Nat /\ FrameSize <= Available /\ FrameSize >= 1
  BY <1>1, CursorTypes, BufferShowsStream, LayoutAssumption DEF Complete
<1>3. FrameAt(received, Position) /\ FrameBytes = BytesAt(received, Position)
      /\ FrameBytes \in Seq(Byte) /\ Len(FrameBytes) = FrameSize
  BY <1>1, BufferShowsStream DEF FrameAt
<1>4. Copied' = Copied /\ Available' = Available - FrameSize
      /\ Position' = Position + FrameSize
  BY <1>1, <1>2 DEF Copied, Available, Position, TypeOK
<1>5. f \in [at : Nat, bytes : Seq(Byte)] /\ f.at = Position
      /\ f.bytes = FrameBytes
  BY <1>2, <1>3
<1>6. /\ frames' \in Seq([at : Nat, bytes : Seq(Byte)])
      /\ Len(frames') = Len(frames) + 1 /\ Len(frames) \in Nat
      /\ DOMAIN frames' = 1 .. (Len(frames) + 1)
      /\ DOMAIN frames = 1 .. Len(frames)
      /\ \A k \in DOMAIN frames : frames'[k] = frames[k]
      /\ frames'[Len(frames) + 1] = f
  <2> DEFINE Frame == [at : Nat, bytes : Seq(Byte)]
  <2>1. frames \in Seq(Frame) /\ f \in Frame
    BY <1>5 DEF TypeOK
  <2> HIDE DEF Frame, f
  <2>2. /\ Append(frames, f) \in Seq(Frame)
        /\ Len(Append(frames, f)) = Len(frames) + 1 /\ Len(frames) \in Nat
        /\ DOMAIN Append(frames, f) = 1 .. (Len(frames) + 1)
        /\ DOMAIN frames = 1 .. Len(frames)
        /\ \A k \in DOMAIN frames : Append(frames, f)[k] = frames[k]
        /\ Append(frames, f)[Len(frames) + 1] = f
    BY <2>1
  <2> QED
    BY <1>1, <2>2 DEF Frame
<1> HIDE DEF f
<1>7. TypeOK' /\ CallInv' /\ FrontInv'
  <2>1. index_begin' \in 0 .. index_end'
    BY <1>1, <1>2 DEF TypeOK, Available
  <2>2. TypeOK'
    BY <1>1, <1>6, <2>1 DEF TypeOK
  <2>3. CallInv' /\ FrontInv'
    BY <1>1, <1>4 DEF CallInv, FrontInv
  <2> QED
    BY <2>2, <2>3
<1>8. WindowIsStream'
  <2>1. \A i \in index_begin' .. (index_end' - 1) :
            i \in index_begin .. (index_end - 1)
    BY <1>1, <1>2 DEF TypeOK
  <2> QED
    BY <1>1, <1>4, <2>1 DEF WindowIsStream
<1>9. DeliveredFromStream'
  <2> SUFFICES ASSUME NEW k \in DOMAIN frames'
               PROVE  /\ FrameAt(received, frames'[k].at)
                      /\ frames'[k].bytes = BytesAt(received, frames'[k].at)
                      /\ frames'[k].at + Len(frames'[k].bytes) <=
                           (IF k = Len(frames') THEN Position + FrameSize
                                                ELSE frames'[k + 1].at)
    BY <1>1, <1>4 DEF DeliveredFromStream
  <2>1. CASE k = Len(frames')
    BY <1>2, <1>3, <1>5, <1>6, <2>1
  <2>2. CASE k # Len(frames')
    <3>1. k \in DOMAIN frames /\ frames'[k] = frames[k]
      BY <1>6, <2>2
    <3>2. frames'[k + 1].at
            = (IF k = Len(frames) THEN Position ELSE frames[k + 1].at)
      <4>1. k \in 1 .. Len(frames) /\ Len(frames) \in Nat
        BY <3>1 DEF TypeOK
      <4>2. CASE k = Len(frames)
        BY <1>5, <1>6, <4>1, <4>2
      <4>3. CASE k # Len(frames)
        <5>1. k + 1 \in DOMAIN frames
          BY <4>1, <4>3
        <5> QED
          BY <1>6, <4>3, <5>1
      <4> QED
        BY <4>2, <4>3
    <3> QED
      BY <2>2, <3>1, <3>2 DEF DeliveredFromStream
  <2> QED
    BY <2>1, <2>2
<1>10. Decided'
  <2> SUFFICES ASSUME NEW p \in 0 .. (Position' - 1)
               PROVE  Covered(p)' \/ NoFrameAt(received', p)
    BY DEF Decided
  <2>0. p \in 0 .. (Position + FrameSize - 1) /\ received' = received
    <3>1. received' = received
      BY <1>1
    <3>2. Position' = Position + FrameSize
      BY <1>4
    <3> QED
      BY <1>2, <3>1, <3>2
  <2>1. CASE p < Position
    <3>1. Covered(p) \/ NoFrameAt(received, p)
      BY <1>2, <2>0, <2>1 DEF Decided
    <3>2. Covered(p) => Covered(p)'
      BY <1>6 DEF Covered
    <3> QED
      BY <2>0, <3>1, <3>2
  <2>2. CASE p >= Position
    <3>1. /\ frames'[Len(frames) + 1].at <= p
          /\ p < frames'[Len(frames) + 1].at + Len(frames'[Len(frames) + 1].bytes)
      BY <1>2, <1>3, <1>5, <1>6, <2>0, <2>2
    <3>2. Len(frames) + 1 \in DOMAIN frames'
      BY <1>6
    <3> QED
      BY <3>1, <3>2 DEF Covered
  <2> QED
    BY <1>2, <2>0, <2>1, <2>2
<1> QED
  BY <1>7, <1>8, <1>9, <1>10

\* At the end of the loop the window is shorter than the buffer, and moving
\* it to the front does not change what it shows.
LEMMA CompactInv ==
    ASSUME IInv, Compact
    PROVE  IInv'
<1> USE DEF IInv
<1>1. /\ pc = "extract" /\ (HeaderReady => Candidate /\ ~Complete)
      /\ buffer' = [i \in DOMAIN buffer |->
                       IF i < Available THEN Front(i) ELSE buffer[i]]
      /\ index_end' = Available /\ index_begin' = 0 /\ pc' = "feed"
      /\ UNCHANGED <<data, offset, received, frames>>
  BY DEF Compact
<1>2. Available \in Nat /\ Position \in Nat /\ Copied \in Nat
      /\ FrameSizeMax \in Nat /\ Available <= FrameSizeMax
      /\ Position = Copied - Available
      /\ DOMAIN buffer = 0 .. (FrameSizeMax - 1)
  BY CursorTypes DEF TypeOK
<1>3. Copied' = Copied /\ Available' = Available /\ Position' = Position
  BY <1>1, <1>2 DEF Copied, Available, Position
<1>4. Available < FrameSizeMax
  <2>1. CASE ~HeaderReady
    BY <2>1, <1>2, FrameSizeAssumption, LayoutAssumption DEF HeaderReady
  <2>2. CASE HeaderReady
    <3>1. /\ Available < FrameSize /\ PayloadSize <= PayloadSizeMax
          /\ FrameSize = SizeMin + PayloadSize
          /\ PayloadSize \in Nat
      <4>1. PayloadSize \in Nat
        <5>1. /\ PayloadSizeOffset \in 0 .. (Available - 1)
              /\ PayloadSizeOffset + 1 \in 0 .. (Available - 1)
          BY <2>2, <1>2, LayoutAssumption DEF HeaderReady
        <5>2. Front(PayloadSizeOffset) \in Byte /\ Front(PayloadSizeOffset + 1) \in Byte
          BY <5>1, FrontIsStream
        <5> QED
          BY <5>2, U16Type DEF PayloadSize
      <4> QED
        BY <4>1, <2>2, <1>1, <1>2, LayoutAssumption
           DEF Candidate, Complete, FrameSize
    <3> QED
      BY <3>1, <1>2, FrameSizeAssumption, LayoutAssumption
  <2> QED
    BY <2>1, <2>2
<1>5. \A i \in 0 .. (Available - 1) : Front(i)' = Front(i)
  <2> TAKE i \in 0 .. (Available - 1)
  <2>1. i \in DOMAIN buffer /\ i \in Int
    BY <1>2
  <2>2. buffer'[i] = Front(i)
    BY <1>1, <1>2, <2>1
  <2> QED
    BY <1>1, <2>2 DEF Front
<1>6. TypeOK'
  <2>1. \A i \in DOMAIN buffer :
            (IF i < Available THEN Front(i) ELSE buffer[i]) \in Byte
    <3> TAKE i \in DOMAIN buffer
    <3>1. CASE i < Available
      <4>1. i \in 0 .. (Available - 1)
        BY <1>2, <3>1
      <4> QED
        BY <3>1, <4>1, FrontIsStream
    <3>2. CASE ~(i < Available)
      BY <3>2 DEF TypeOK
    <3> QED
      BY <3>1, <3>2
  <2>2. buffer' \in [0 .. (FrameSizeMax - 1) -> Byte]
    BY <1>1, <1>2, <2>1
  <2> QED
    BY <1>1, <1>2, <2>2 DEF TypeOK
<1>7. CallInv'
  BY <1>1, <1>2, <1>3 DEF CallInv
<1>8. FrontInv'
  <2>1. HeaderReady' <=> HeaderReady
    BY <1>3 DEF HeaderReady
  <2>2. ASSUME HeaderReady PROVE Candidate' /\ ~Complete'
    <3>1. /\ 0 \in 0 .. (Available - 1)
          /\ PayloadSizeOffset \in 0 .. (Available - 1)
          /\ PayloadSizeOffset + 1 \in 0 .. (Available - 1)
      BY <2>2, <1>2, LayoutAssumption DEF HeaderReady
    <3>2. /\ Front(0)' = Front(0)
          /\ Front(PayloadSizeOffset)' = Front(PayloadSizeOffset)
          /\ Front(PayloadSizeOffset + 1)' = Front(PayloadSizeOffset + 1)
      BY <3>1, <1>5
    <3>3. PayloadSize' = PayloadSize
      BY <3>2 DEF PayloadSize
    <3>4. FrameSize' = FrameSize
      BY <3>3 DEF FrameSize
    <3> QED
      BY <2>2, <3>2, <3>3, <3>4, <1>1, <1>3 DEF Candidate, Complete
  <2> QED
    BY <1>1, <1>4, <2>1, <2>2 DEF FrontInv
<1>9. WindowIsStream'
  <2> SUFFICES ASSUME NEW i \in index_begin' .. (index_end' - 1)
               PROVE  buffer'[i] = received'[Copied' - index_end' + i + 1]
    BY DEF WindowIsStream
  <2>1. i \in 0 .. (Available - 1) /\ i \in DOMAIN buffer
    BY <1>1, <1>2
  <2>2. buffer'[i] = Front(i)
    BY <1>1, <1>2, <2>1
  <2>3. Front(i) = received[Position + i + 1]
    BY <2>1, FrontIsStream
  <2>4. Copied' - index_end' + i + 1 = Position + i + 1
    BY <1>1, <1>2, <1>3, <2>1
  <2> QED
    BY <1>1, <2>2, <2>3, <2>4
<1>10. DeliveredFromStream' /\ Decided'
  <2>1. received \in Seq(Byte) /\ Extends(received, received)
    BY DEF TypeOK, Extends
  <2> QED
    BY <1>1, <1>3, <2>1, HistoryStable
<1> QED
  BY <1>6, <1>7, <1>8, <1>9, <1>10

\* ... and so does its return; ...
LEMMA ReturnInv ==
    ASSUME IInv, Return
    PROVE  IInv'
<1> USE DEF IInv
<1>1. /\ pc = "feed" /\ offset >= Len(data) /\ pc' = "idle"
      /\ data' = << >> /\ offset' = 0
      /\ UNCHANGED <<buffer, index_begin, index_end, received, frames>>
  BY DEF Return
<1>2. Copied = Len(received) /\ Copied' = Copied /\ Available' = Available
      /\ Position' = Position /\ Copied \in Nat
  <2>1. offset = Len(data) /\ Len(data) \in Nat /\ Len(received) \in Nat
    BY <1>1 DEF TypeOK
  <2>2. Copied = Len(received)
    BY <2>1 DEF Copied
  <2>3. Len(data') = 0 /\ offset' = 0 /\ received' = received
    BY <1>1
  <2>4. Copied' = Len(received)
    BY <2>1, <2>3 DEF Copied
  <2>5. Available' = Available
    BY <1>1 DEF Available
  <2> QED
    BY <2>1, <2>2, <2>4, <2>5 DEF Position
<1>3. TypeOK' /\ CallInv'
  BY <1>1, <1>2 DEF TypeOK, CallInv
<1>4. FrontInv'
  BY <1>1 DEF FrontInv, HeaderReady, Candidate, Complete, Available, Front,
              PayloadSize, FrameSize
<1>5. WindowIsStream'
  BY <1>1, <1>2 DEF WindowIsStream
<1>6. DeliveredFromStream' /\ Decided'
  <2>1. received \in Seq(Byte) /\ Extends(received, received)
    BY DEF TypeOK, Extends
  <2> QED
    BY <1>1, <1>2, <2>1, HistoryStable
<1> QED
  BY <1>3, <1>4, <1>5, <1>6

\* ... so every step does.
LEMMA NextInv == IInv /\ [Next]_vars => IInv'
<1> SUFFICES ASSUME IInv, [Next]_vars PROVE IInv'
  OBVIOUS
<1>1. CASE \E chunk \in Chunks : HandleData(chunk)
  BY <1>1, HandleDataInv
<1>2. CASE CopyPiece
  BY <1>2, CopyPieceInv
<1>3. CASE SkipByte
  BY <1>3, SkipByteInv
<1>4. CASE DeliverFrame
  BY <1>4, DeliverFrameInv
<1>5. CASE Compact
  BY <1>5, CompactInv
<1>6. CASE Return
  BY <1>6, ReturnInv
<1>7. CASE UNCHANGED vars
  <2>1. Copied' = Copied /\ Available' = Available /\ Position' = Position
    BY <1>7 DEF vars, Copied, Available, Position
  <2>2. TypeOK' /\ CallInv' /\ WindowIsStream'
    BY <1>7, <2>1 DEF IInv, vars, TypeOK, CallInv, WindowIsStream
  <2>3. FrontInv'
    BY <1>7 DEF IInv, vars, FrontInv, HeaderReady, Candidate, Complete,
                Available, Front, PayloadSize, FrameSize
  <2>4. DeliveredFromStream' /\ Decided'
    BY <1>7, <2>1 DEF IInv, vars, DeliveredFromStream, Decided, Covered
  <2> QED
    BY <2>2, <2>3, <2>4 DEF IInv
<1> QED
  BY <1>1, <1>2, <1>3, <1>4, <1>5, <1>6, <1>7 DEF Next, Step

----------------------------------------------------------------------------
\* The theorems.

\* The inductive invariant holds throughout.
THEOREM Invariance == SafeSpec => []IInv
BY InitInv, NextInv, PTL DEF SafeSpec

\* TypeOK: types, and the bounds on the cursors that the memcpy and memmove
\* of fm_frame.c rely on.
THEOREM TypeCorrect == SafeSpec => []TypeOK
<1>1. IInv => TypeOK
  BY DEF IInv
<1> QED
  BY <1>1, Invariance, PTL

\* RoomToCopy: the loop of fm_frame_buffer_feed never stalls on a full
\* buffer, for any buffer as large as the largest frame of the layout.
THEOREM NeverStalls == SafeSpec => []RoomToCopy
<1>1. IInv => RoomToCopy
  BY DEF IInv, FrontInv, RoomToCopy
<1> QED
  BY <1>1, Invariance, PTL

\* WindowIsStream: compaction and partial copies keep the buffer equal to the
\* part of the stream it stands for.
THEOREM WindowCorrect == SafeSpec => []WindowIsStream
<1>1. IInv => WindowIsStream
  BY DEF IInv
<1> QED
  BY <1>1, Invariance, PTL

\* DeliveredFromStream: the callback gets frames of the stream, unaltered, in
\* order and without overlap, wherever the stream was cut.
THEOREM DeliveryCorrect == SafeSpec => []DeliveredFromStream
<1>1. IInv => DeliveredFromStream
  BY DEF IInv
<1> QED
  BY <1>1, Invariance, PTL

\* NoFrameSkipped: resynchronisation passes over no frame.
THEOREM ResyncComplete == SafeSpec => []NoFrameSkipped
<1>1. IInv => NoFrameSkipped
  BY NoFrameIsNoFrame DEF IInv, Decided, NoFrameSkipped
<1> QED
  BY <1>1, Invariance, PTL

\* NothingHeldBack: a call returns only when the buffer shows the beginning
\* of a possible frame and no more.
THEOREM ReturnsDrained == SafeSpec => []NothingHeldBack
<1>1. IInv => NothingHeldBack
  <2> SUFFICES ASSUME IInv, pc = "idle"
               PROVE  ~FrameAt(received, Position) /\ ~NoFrameAt(received, Position)
    BY DEF NothingHeldBack
  <2>1. HeaderReady => Candidate /\ ~Complete
    BY DEF IInv, FrontInv
  <2>2. HeaderAt(received, Position) =>
            CandidateAt(received, Position) /\ ~CompleteAt(received, Position)
    BY <2>1, BufferShowsStream DEF IInv
  <2> QED
    BY <2>2 DEF FrameAt, NoFrameAt
<1> QED
  BY <1>1, Invariance, PTL

\* DeliveredWithinABuffer: a false start never delays a frame by a buffer.
THEOREM DelayBounded == SafeSpec => []DeliveredWithinABuffer
<1>1. IInv => DeliveredWithinABuffer
  <2> SUFFICES ASSUME IInv, pc = "idle",
                      NEW p \in 0 .. (Len(received) - FrameSizeMax),
                      FrameAt(received, p)
               PROVE  Covered(p)
    BY DEF DeliveredWithinABuffer
  <2>1. Copied = Len(received) /\ Available < FrameSizeMax
    BY DEF IInv, TypeOK, CallInv, FrontInv, Copied, Available
  <2>2. p \in 0 .. (Position - 1)
    BY <2>1, CursorTypes DEF IInv
  <2> QED
    BY <2>2, NoFrameIsNoFrame DEF IInv, Decided
<1> QED
  BY <1>1, Invariance, PTL

----------------------------------------------------------------------------
\* How the steps move on in the stream, for the refinement and for the link
\* that this parser is a part of.

\* What is fed in or moved within the buffer is not passed by it.
LEMMA PositionStays ==
    ASSUME IInv
    PROVE  /\ \A chunk \in Seq(Byte) : HandleData(chunk) => Copied' = Copied /\ Position' = Position
           /\ CopyPiece => Position' = Position
           /\ Compact => Copied' = Copied /\ Position' = Position
           /\ Return => Copied' = Copied /\ Position' = Position
<1>1. ASSUME NEW chunk \in Seq(Byte), HandleData(chunk)
      PROVE  Copied' = Copied /\ Position' = Position
  <2>1. /\ pc = "idle" /\ data' = chunk /\ offset' = 0
        /\ received' = received \o chunk
        /\ UNCHANGED <<index_begin, index_end>>
    BY <1>1 DEF HandleData
  <2>2. Len(received') = Len(received) + Len(chunk) /\ Len(chunk) \in Nat
    BY <2>1 DEF IInv, TypeOK
  <2> QED
    BY <2>1, <2>2 DEF IInv, TypeOK, CallInv, Copied, Position, Available
<1>2. ASSUME CopyPiece PROVE Position' = Position
  <2> DEFINE size == Lesser(FrameSizeMax - index_end, Len(data) - offset)
  <2>1. /\ UNCHANGED <<index_begin, data, received>>
        /\ index_end' = index_end + size /\ offset' = offset + size
    BY <1>2 DEF CopyPiece
  <2>2. size \in Int
    BY FrameSizeAssumption, LayoutAssumption DEF IInv, TypeOK, Lesser
  <2> HIDE DEF size
  <2> QED
    BY <2>1, <2>2 DEF IInv, TypeOK, Copied, Position, Available
<1>3. ASSUME Compact PROVE Copied' = Copied /\ Position' = Position
  <2>1. UNCHANGED <<data, offset, received>> /\ index_end' = Available /\ index_begin' = 0
    BY <1>3 DEF Compact
  <2> QED
    BY <2>1, CursorTypes DEF IInv, Copied, Position, Available
<1>4. ASSUME Return PROVE Copied' = Copied /\ Position' = Position
  <2>1. /\ offset >= Len(data) /\ data' = << >> /\ offset' = 0
        /\ UNCHANGED <<index_begin, index_end, received>>
    BY <1>4 DEF Return
  <2>2. offset = Len(data) /\ Len(data') = 0
    BY <2>1 DEF IInv, TypeOK
  <2> QED
    BY <2>1, <2>2 DEF IInv, TypeOK, Copied, Position, Available
<1> QED
  BY <1>1, <1>2, <1>3, <1>4

\* A byte is passed, or a frame that stands there.
LEMMA PositionMoves ==
    ASSUME IInv
    PROVE  /\ SkipByte => /\ Copied' = Copied /\ Position' = Position + 1
                          /\ Position + 1 <= Len(received)
           /\ DeliverFrame => /\ Copied' = Copied /\ Position' = Position + FrameSize
                              /\ FrameAt(received, Position)
                              /\ FrameBytes = BytesAt(received, Position)
                              /\ FrameSize = FrameSizeAt(received, Position)
<1>1. ASSUME SkipByte
      PROVE  Copied' = Copied /\ Position' = Position + 1 /\ Position + 1 <= Len(received)
  <2>1. /\ HeaderReady /\ index_begin' = index_begin + 1
        /\ UNCHANGED <<index_end, data, offset, received>>
    BY <1>1 DEF SkipByte
  <2>2. Position + SizeMin <= Len(received)
    BY <2>1, BufferShowsStream DEF IInv, HeaderAt
  <2>3. Position \in Nat /\ SizeMin \in Nat /\ SizeMin >= 1 /\ Len(received) \in Nat
    BY CursorTypes, LayoutAssumption DEF IInv, TypeOK
  <2>4. Position + 1 <= Len(received)
    BY <2>2, <2>3
  <2>5. Copied' = Copied /\ Position' = Position + 1
    BY <2>1, CursorTypes DEF IInv, TypeOK, Copied, Position, Available
  <2> QED
    BY <2>4, <2>5
<1>2. ASSUME DeliverFrame
      PROVE  /\ Copied' = Copied /\ Position' = Position + FrameSize
             /\ FrameAt(received, Position)
             /\ FrameBytes = BytesAt(received, Position)
             /\ FrameSize = FrameSizeAt(received, Position)
  <2>1. /\ HeaderReady /\ Candidate /\ Complete /\ CrcVerify(FrameBytes)
        /\ index_begin' = index_begin + FrameSize
        /\ UNCHANGED <<index_end, data, offset, received>>
    BY <1>2 DEF DeliverFrame
  <2>2. /\ FrameAt(received, Position) /\ FrameBytes = BytesAt(received, Position)
        /\ FrameSize = FrameSizeAt(received, Position) /\ FrameSize \in Nat
    BY <2>1, BufferShowsStream DEF IInv, FrameAt
  <2>3. Copied' = Copied /\ Position' = Position + FrameSize
    BY <2>1, <2>2, CursorTypes DEF IInv, TypeOK, Copied, Position, Available
  <2> QED
    BY <2>2, <2>3
<1> QED
  BY <1>1, <1>2

----------------------------------------------------------------------------
\* Refinement.

Stream == SubSeq(received, 1, Copied)

\* The bytes copied so far are a beginning of what was received.
LEMMA StreamTypes ==
    ASSUME TypeOK, CallInv
    PROVE  /\ Stream \in Seq(Byte) /\ Len(Stream) = Copied
           /\ \A i \in 1 .. Copied : Stream[i] = received[i]
           /\ Extends(received, Stream)
<1>1. Copied \in 0 .. Len(received) /\ received \in Seq(Byte)
  BY CursorTypes DEF TypeOK
<1>2. /\ Stream \in Seq(Byte) /\ Len(Stream) = Copied
      /\ \A i \in 1 .. Copied : Stream[i] = received[i]
  <2> DEFINE n == Copied
  <2>1. n \in 0 .. Len(received)
    BY <1>1
  <2> HIDE DEF n
  <2>2. /\ SubSeq(received, 1, n) \in Seq(Byte) /\ Len(SubSeq(received, 1, n)) = n
        /\ \A i \in 1 .. n : SubSeq(received, 1, n)[i] = received[i]
    BY <1>1, <2>1
  <2> QED
    BY <2>2 DEF Stream, n
<1> QED
  BY <1>1, <1>2 DEF Extends

\* The buffer shows, of the bytes copied, all there is from Position on.
LEMMA BufferShowsCopied ==
    ASSUME TypeOK, CallInv, WindowIsStream, HeaderReady
    PROVE  /\ HeaderAt(Stream, Position)
           /\ FrameSize = FrameSizeAt(Stream, Position)
           /\ Candidate <=> CandidateAt(Stream, Position)
           /\ Complete => /\ CompleteAt(Stream, Position)
                          /\ FrameBytes = BytesAt(Stream, Position)
<1>1. HeaderAt(Stream, Position)
  BY StreamTypes, CursorTypes, LayoutAssumption DEF HeaderReady, HeaderAt
<1>2. Position \in Nat /\ received \in Seq(Byte) /\ Stream \in Seq(Byte)
      /\ Extends(received, Stream)
  BY StreamTypes, CursorTypes DEF TypeOK
<1>3. FrameSize = FrameSizeAt(Stream, Position)
      /\ (Candidate <=> CandidateAt(Stream, Position))
  BY <1>1, <1>2, ExtendHeader, BufferShowsStream
<1>4. ASSUME Complete
      PROVE  CompleteAt(Stream, Position) /\ FrameBytes = BytesAt(Stream, Position)
  <2>1. CompleteAt(Stream, Position)
    BY <1>3, <1>4, StreamTypes, CursorTypes, BufferShowsStream
       DEF Complete, CompleteAt
  <2> QED
    BY <1>1, <1>2, <1>4, <2>1, ExtendHeader, BufferShowsStream
<1> QED
  BY <1>1, <1>3, <1>4

\* The initial states are those of FrameSync, ...
LEMMA InitRefines == Init => Sync!Init
BY DEF Init, Sync!Init, Copied, Position, Available

\* Unless a piece is copied, the bytes copied so far stay the same.
LEMMA StreamStays ==
    ASSUME TypeOK, CallInv, Copied' = Copied,
           received' \in Seq(Byte), Extends(received', received)
    PROVE  Stream' = Stream
<1>1. Copied \in Nat /\ Copied <= Len(received) /\ received \in Seq(Byte)
      /\ Copied <= Len(received')
  BY CursorTypes DEF TypeOK, Extends
<1>2. SubSeq(received', 1, Copied) = SubSeq(received, 1, Copied)
  BY <1>1 DEF Extends
<1> QED
  BY <1>2 DEF Stream

\* FrameSync is instantiated with the same frame format.
LEMMA SameLayout ==
    ASSUME NEW s, NEW p
    PROVE  /\ Sync!FrameAt(s, p) = FrameAt(s, p)
           /\ Sync!NoFrameAt(s, p) = NoFrameAt(s, p)
           /\ Sync!BytesAt(s, p) = BytesAt(s, p)
           /\ Sync!FrameSizeAt(s, p) = FrameSizeAt(s, p)
BY DEF Sync!FrameAt, Sync!NoFrameAt, Sync!BytesAt, Sync!FrameSizeAt,
       Sync!PayloadSizeAt, Sync!HeaderAt, Sync!CandidateAt, Sync!CompleteAt,
       Sync!U16, FrameAt, NoFrameAt, BytesAt, FrameSizeAt, PayloadSizeAt,
       HeaderAt, CandidateAt, CompleteAt, U16

\* The steps of FrameSync, on this module's variables.
LEMMA ArriveRefined ==
    ASSUME IInv, IInv', CopyPiece
    PROVE  Sync!Arrive
<1>1. /\ UNCHANGED <<received, frames, index_begin, data>>
      /\ \E size \in Nat : index_end' = index_end + size /\ offset' = offset + size
  <2>1. Lesser(FrameSizeMax - index_end, Len(data) - offset) \in Nat
    <3>1. FrameSizeMax \in Nat
      BY CursorTypes DEF IInv
    <3> QED
      BY <3>1 DEF IInv, TypeOK, Lesser
  <2> QED
    BY <2>1 DEF CopyPiece
<1>2. Copied' >= Copied /\ Position' = Position
  BY <1>1, CursorTypes DEF IInv, TypeOK, Copied, Position, Available
<1>3. Copied' \in Nat /\ Copied' <= Len(received) /\ Copied \in Nat
      /\ received \in Seq(Byte)
  <2>1. TypeOK' /\ CallInv'
    BY DEF IInv
  <2>2. Copied' = Len(received') - (Len(data') - offset')
    BY DEF Copied
  <2> QED
    BY <1>1, <1>2, <2>1, <2>2, CursorTypes DEF IInv, TypeOK
<1>4. Stream' = SubSeq(received, 1, Copied')
  BY <1>1 DEF Stream
<1>5. Stream' \in Seq(Byte) /\ Len(Stream) <= Len(Stream')
      /\ SubSeq(Stream', 1, Len(Stream)) = Stream
  <2> DEFINE c == Copied'
  <2> HIDE DEF c
  <2>1. SubSeq(received, 1, c) \in Seq(Byte) /\ Len(SubSeq(received, 1, c)) = c
        /\ SubSeq(SubSeq(received, 1, c), 1, Copied) = SubSeq(received, 1, Copied)
    <3>1. received \in Seq(Byte) /\ c \in Nat /\ c <= Len(received)
          /\ Copied \in Nat /\ Copied <= c
      BY <1>2, <1>3 DEF c
    <3> QED
      BY <3>1
  <2>2. Len(Stream) = Copied
    BY StreamTypes DEF IInv
  <2> QED
    BY <1>2, <1>3, <1>4, <2>1, <2>2 DEF c, Stream
<1> QED
  BY <1>1, <1>2, <1>5 DEF Sync!Arrive, Stream

\* ... a byte skipped is one skipped there, ...
LEMMA SkipRefined ==
    ASSUME IInv, SkipByte
    PROVE  Sync!Skip
<1>1. /\ HeaderReady
      /\ Candidate => Complete /\ ~CrcVerify(FrameBytes)
      /\ index_begin' = index_begin + 1
      /\ UNCHANGED <<index_end, data, offset, received, frames>>
  BY DEF SkipByte
<1>2. NoFrameAt(Stream, Position)
  BY <1>1, BufferShowsCopied DEF IInv, NoFrameAt
<1>3. Copied' = Copied /\ Position' = Position + 1
  BY PositionMoves
<1> QED
  BY <1>1, <1>2, <1>3, SameLayout DEF Sync!Skip, Stream

\* ... a frame delivered is one delivered there, ...
LEMMA DeliverRefined ==
    ASSUME IInv, DeliverFrame
    PROVE  Sync!Deliver
<1>1. /\ HeaderReady /\ Candidate /\ Complete /\ CrcVerify(FrameBytes)
      /\ frames' = Append(frames, [at |-> Position, bytes |-> FrameBytes])
      /\ index_begin' = index_begin + FrameSize
      /\ UNCHANGED <<index_end, data, offset, received>>
  BY DEF DeliverFrame
<1>2. /\ FrameAt(Stream, Position)
      /\ FrameBytes = BytesAt(Stream, Position)
      /\ FrameSize = FrameSizeAt(Stream, Position)
  BY <1>1, BufferShowsCopied DEF IInv, FrameAt
<1>3. Copied' = Copied /\ Position' = Position + FrameSize
  BY PositionMoves
<1> QED
  BY <1>1, <1>2, <1>3, SameLayout DEF Sync!Deliver, Stream

\* The other steps change nothing of what FrameSync speaks of.
LEMMA StutterRefined ==
    ASSUME IInv, UNCHANGED <<Copied, Position, frames>>,
           received' \in Seq(Byte), Extends(received', received)
    PROVE  UNCHANGED Sync!vars
<1>1. Stream' = Stream
  BY StreamStays DEF IInv
<1> QED
  BY <1>1 DEF Sync!vars, Stream

\* ... and every step is one of FrameSync or none.
LEMMA NextRefines == IInv /\ IInv' /\ [Next]_vars => [Sync!Next]_(Sync!vars)
<1> SUFFICES ASSUME IInv, IInv', [Next]_vars
             PROVE  Sync!Next \/ UNCHANGED Sync!vars
  OBVIOUS
<1>1. ASSUME NEW chunk \in Chunks, HandleData(chunk)
      PROVE  UNCHANGED Sync!vars
  <2>1. /\ pc = "idle" /\ data' = chunk /\ offset' = 0
        /\ received' = received \o chunk
        /\ UNCHANGED <<index_begin, index_end, frames>>
    BY <1>1 DEF HandleData
  <2>2. chunk \in Seq(Byte)
    <3>1. data' \in Seq(Byte)
      BY DEF IInv, TypeOK
    <3> QED
      BY <2>1, <3>1
  <2>3. received' \in Seq(Byte) /\ Extends(received', received)
        /\ Len(received') = Len(received) + Len(chunk)
    BY <2>1, <2>2 DEF IInv, TypeOK, Extends
  <2>4. Copied' = Copied /\ Position' = Position
    BY <1>1, <2>2, PositionStays
  <2> QED
    BY <2>1, <2>3, <2>4, StutterRefined
<1>2. CASE CopyPiece
  BY <1>2, ArriveRefined DEF Sync!Next
<1>3. CASE SkipByte
  BY <1>3, SkipRefined DEF Sync!Next
<1>4. CASE DeliverFrame
  BY <1>4, DeliverRefined DEF Sync!Next
<1>5. CASE Compact
  <2>1. UNCHANGED <<received, frames>>
    BY <1>5 DEF Compact
  <2>2. Copied' = Copied /\ Position' = Position
    BY <1>5, PositionStays
  <2>3. received' \in Seq(Byte) /\ Extends(received', received)
    BY <2>1 DEF IInv, TypeOK, Extends
  <2> QED
    BY <2>1, <2>2, <2>3, StutterRefined
<1>6. CASE Return
  <2>1. UNCHANGED <<received, frames>>
    BY <1>6 DEF Return
  <2>2. Copied' = Copied /\ Position' = Position
    BY <1>6, PositionStays
  <2>3. received' \in Seq(Byte) /\ Extends(received', received)
    BY <2>1 DEF IInv, TypeOK, Extends
  <2> QED
    BY <2>1, <2>2, <2>3, StutterRefined
<1>7. CASE UNCHANGED vars
  <2>1. UNCHANGED <<Copied, Position, frames, received>>
    BY <1>7 DEF vars, Copied, Position, Available
  <2>2. received' \in Seq(Byte) /\ Extends(received', received)
    BY <2>1 DEF IInv, TypeOK, Extends
  <2> QED
    BY <2>1, <2>2, StutterRefined
<1> QED
  BY <1>1, <1>2, <1>3, <1>4, <1>5, <1>6, <1>7 DEF Next, Step

\* ImplementsFrameSync: with its one-frame buffer, chunk by chunk, the parser
\* does what FrameSync does on the whole stream.
THEOREM Refinement == SafeSpec => ImplementsFrameSync
BY InitRefines, NextRefines, Invariance, PTL
   DEF SafeSpec, ImplementsFrameSync, Sync!SafeSpec
============================================================================
