---------------------------- MODULE FrameBuffer ----------------------------
(***************************************************************************)
(* The frame parser of fm_frame.c: fm_frame_buffer_feed and its loop       *)
(* fm_frame_buffer_extract, for one parser and one direction.  The owner   *)
(* calls handle_data with chunks of the byte stream, cut anywhere; the     *)
(* parser copies them piece by piece into a buffer of FrameSizeMax bytes,  *)
(* hands every frame it finds to the callback and moves what is left to    *)
(* the front.                                                              *)
(***************************************************************************)
EXTENDS FrameLayout

CONSTANTS
    FrameSizeMax,  \* FM_FRAME_SIZE_MAX, the size of the buffer
    ChunkMax,      \* bound: bytes handed over by one call
    StreamMax      \* bound: bytes handed over altogether

ASSUME FrameSizeAssumption == FrameSizeMax = SizeMin + PayloadSizeMax
ASSUME BoundAssumption == ChunkMax \in Nat /\ StreamMax \in Nat

VARIABLES
    buffer,       \* uint8_t buffer[FM_FRAME_SIZE_MAX]
    index_begin,  \* cursors into it: the bytes in use are
    index_end,    \*   buffer[index_begin .. index_end - 1]
    data,         \* the argument of the handle_data call in progress
    offset,       \* how much of it is copied
    pc,           \* "idle", or the loop the call is in: "feed", "extract"
    received,     \* history: all bytes ever handed over
    frames        \* history: all frames handed to the callback

vars == <<buffer, index_begin, index_end, data, offset, pc, received, frames>>

Lesser(a, b) == IF a < b THEN a ELSE b

----------------------------------------------------------------------------
\* The frame that the buffer shows at index_begin.

Available == index_end - index_begin
Front(i)  == buffer[index_begin + i]
PayloadSize == U16(Front(PayloadSizeOffset), Front(PayloadSizeOffset + 1))
FrameSize   == SizeMin + PayloadSize
FrameBytes  == [i \in 1 .. FrameSize |-> Front(i - 1)]

\* Where that frame stands in the stream.
Copied   == Len(received) - (Len(data) - offset)
Position == Copied - Available

\* Mutant: one byte more than the header is waited for.
HeaderReadyLate == Available > SizeMin
HeaderReady == Available >= SizeMin
\* Mutant: the limit on the payload size is off by one.
CandidateTooLarge == Front(0) = Sof /\ PayloadSize <= PayloadSizeMax + 1
Candidate   == Front(0) = Sof /\ PayloadSize <= PayloadSizeMax
\* Mutant: the last byte of a frame is not waited for.
CompleteEarly == Available >= FrameSize - 1
Complete    == Available >= FrameSize

----------------------------------------------------------------------------
\* memset in fm_parser_from_dev_init and fm_parser_from_user_init.
Init == /\ buffer = [i \in 0 .. (FrameSizeMax - 1) |-> 0]
        /\ index_begin = 0 /\ index_end = 0
        /\ data = << >> /\ offset = 0 /\ pc = "idle"
        /\ received = << >> /\ frames = << >>

\* handle_data is called with the next bytes of the stream.
HandleData(chunk) ==
    /\ pc = "idle"
    /\ Len(received) + Len(chunk) <= StreamMax
    /\ data' = chunk
    /\ offset' = 0
    /\ pc' = "feed"
    /\ received' = received \o chunk
    /\ UNCHANGED <<buffer, index_begin, index_end, frames>>

\* Mutant: everything is copied, whatever room there is.
CopyAll ==
    /\ pc = "feed"
    /\ offset < Len(data)
    /\ buffer' = [i \in DOMAIN buffer |->
                     IF i \in index_end .. (index_end + Len(data) - offset - 1)
                     THEN data[offset + (i - index_end) + 1]
                     ELSE buffer[i]]
    /\ index_end' = index_end + Len(data) - offset
    /\ offset' = Len(data)
    /\ pc' = "extract"
    /\ UNCHANGED <<index_begin, data, received, frames>>

\* The feed loop copies what the buffer has room for, then extracts.
CopyPiece ==
    /\ pc = "feed"
    /\ offset < Len(data)
    /\ LET size == Lesser(FrameSizeMax - index_end, Len(data) - offset)
       IN  /\ buffer' = [i \in DOMAIN buffer |->
                            IF i \in index_end .. (index_end + size - 1)
                            THEN data[offset + (i - index_end) + 1]
                            ELSE buffer[i]]
           /\ index_end' = index_end + size
           /\ offset' = offset + size
    /\ pc' = "extract"
    /\ UNCHANGED <<index_begin, data, received, frames>>

\* Mutant: after a wrong checksum the whole would-be frame is skipped.
SkipWhole ==
    /\ pc = "extract"
    /\ HeaderReady
    /\ Candidate => Complete /\ ~CrcVerify(FrameBytes)
    /\ index_begin' = index_begin + (IF Candidate THEN FrameSize ELSE 1)
    /\ UNCHANGED <<buffer, index_end, data, offset, pc, received, frames>>

\* No start of frame, an illegal length or a wrong checksum: one byte on.
SkipByte ==
    /\ pc = "extract"
    /\ HeaderReady
    /\ Candidate => Complete /\ ~CrcVerify(FrameBytes)
    /\ index_begin' = index_begin + 1
    /\ UNCHANGED <<buffer, index_end, data, offset, pc, received, frames>>

\* A frame: the callback gets it, then the cursor passes it.
DeliverFrame ==
    /\ pc = "extract"
    /\ HeaderReady /\ Candidate /\ Complete /\ CrcVerify(FrameBytes)
    /\ frames' = Append(frames, [at |-> Position, bytes |-> FrameBytes])
    /\ index_begin' = index_begin + FrameSize
    /\ UNCHANGED <<buffer, index_end, data, offset, pc, received>>

\* Mutants: the memmove is missing; what is left is thrown away.
CompactUnmoved ==
    /\ pc = "extract"
    /\ HeaderReady => Candidate /\ ~Complete
    /\ index_end' = Available
    /\ index_begin' = 0
    /\ pc' = "feed"
    /\ UNCHANGED <<buffer, data, offset, received, frames>>

CompactDiscarding ==
    /\ pc = "extract"
    /\ HeaderReady => Candidate /\ ~Complete
    /\ index_end' = 0
    /\ index_begin' = 0
    /\ pc' = "feed"
    /\ UNCHANGED <<buffer, data, offset, received, frames>>

\* Too few bytes for a header, or for the frame it announces: the loop ends
\* and the rest moves to the front.  Bytes behind the rest keep their value.
Compact ==
    /\ pc = "extract"
    /\ HeaderReady => Candidate /\ ~Complete
    /\ buffer' = [i \in DOMAIN buffer |->
                     IF i < Available THEN Front(i) ELSE buffer[i]]
    /\ index_end' = Available
    /\ index_begin' = 0
    /\ pc' = "feed"
    /\ UNCHANGED <<data, offset, received, frames>>

\* Everything is copied: handle_data returns.
Return == /\ pc = "feed"
          /\ offset >= Len(data)
          /\ pc' = "idle"
          /\ data' = << >> /\ offset' = 0
          /\ UNCHANGED <<buffer, index_begin, index_end, received, frames>>

Chunks == UNION {[1 .. n -> Byte] : n \in 0 .. ChunkMax}

Step == CopyPiece \/ SkipByte \/ DeliverFrame \/ Compact \/ Return
Next == (\E chunk \in Chunks : HandleData(chunk)) \/ Step

SafeSpec == Init /\ [][Next]_vars

\* handle_data runs on the thread that called it until it returns; nothing
\* says that it is called again.
Spec == SafeSpec /\ WF_vars(Step)

----------------------------------------------------------------------------
\* Type and range of every variable; in particular both cursors stay within
\* the buffer and offset within the argument, as the memcpy and memmove of
\* fm_frame.c need.
TypeOK ==
    /\ buffer \in [0 .. (FrameSizeMax - 1) -> Byte]
    /\ index_begin \in 0 .. index_end /\ index_end \in 0 .. FrameSizeMax
    /\ data \in Seq(Byte) /\ received \in Seq(Byte)
    /\ offset \in 0 .. Len(data)
    /\ Len(data) <= Len(received)
    /\ pc \in {"idle", "feed", "extract"}
    /\ frames \in Seq([at : Nat, bytes : Seq(Byte)])

\* The feed loop never meets a full buffer: each round of it copies at least
\* one byte, so a call of handle_data cannot loop without progress.  This is
\* where the payload limit of the layout and the buffer size must agree.
RoomToCopy == pc = "feed" => index_begin = 0 /\ index_end < FrameSizeMax

\* The bytes in use are the last ones copied from the stream, in order: no
\* compaction or partial copy displaces, loses or repeats a byte.
WindowIsStream ==
    \A i \in index_begin .. (index_end - 1) :
        buffer[i] = received[Copied - index_end + i + 1]

\* The callback gets exact frames of the stream, in order, and no byte of
\* the stream in two of them, however the stream was cut into chunks.
DeliveredFromStream ==
    \A k \in DOMAIN frames :
        LET f == frames[k] IN
        /\ FrameAt(received, f.at)
        /\ f.bytes = BytesAt(received, f.at)
        /\ f.at + Len(f.bytes) <=
             (IF k = Len(frames) THEN Position ELSE frames[k + 1].at)

\* Position p belongs to a frame that was handed over.
Covered(p) == \E k \in DOMAIN frames :
                 /\ frames[k].at <= p
                 /\ p < frames[k].at + Len(frames[k].bytes)

\* Resynchronising after a false start never passes over a frame: every
\* frame that starts in the part disposed of was handed over, or starts
\* within the bytes of one that was.
NoFrameSkipped ==
    \A p \in 0 .. (Position - 1) : FrameAt(received, p) => Covered(p)

\* When handle_data has returned, nothing that could be decided is left for
\* the next call: the buffer holds the beginning of a possible frame.
NothingHeldBack ==
    pc = "idle" => ~FrameAt(received, Position) /\ ~NoFrameAt(received, Position)

\* A false start delays the frames behind it, but never by as much as one
\* buffer: a frame whose first byte lies FrameSizeMax bytes back was handed
\* over (or lies in one that was) when handle_data returns.
DeliveredWithinABuffer ==
    pc = "idle" =>
        \A p \in 0 .. (Len(received) - FrameSizeMax) :
            FrameAt(received, p) => Covered(p)

\* handle_data always returns.
HandleDataReturns == (pc # "idle") ~> (pc = "idle")

Sync == INSTANCE FrameSync WITH stream <- SubSeq(received, 1, Copied),
                                pos <- Position

\* The parser with its buffer implements the one without: every step of it
\* is, on the bytes copied so far, an arrival of bytes, a byte skipped, a
\* frame delivered, or no step at all.
ImplementsFrameSync == Sync!SafeSpec

\* It also keeps that one's promise not to rest while its cursor can move,
\* however few bytes follow.
KeepsMoving == Sync!Fairness
============================================================================
