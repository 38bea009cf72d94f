---------------------------- MODULE FrameLayout ----------------------------
(***************************************************************************)
(* The frame format of fm_frame.h for one direction (an FMFrameLayout),    *)
(* and what it means for a frame to stand at a position of a byte stream.  *)
(***************************************************************************)
EXTENDS Integers, Sequences

CONSTANTS
    Radix,              \* what the high byte of a uint16 counts for (256)
    Byte,               \* uint8_t (0 .. 255 in the code)
    Sof,                \* FM_FRAME_SOF, the first byte of every frame
    SizeMin,            \* layout->size_min: header and checksum
    PayloadSizeOffset,  \* layout->payload_size_offset
    PayloadSizeMax,     \* layout->payload_size_max
    CrcVerify(_)        \* fm_crc16_verify on the bytes of a whole frame

ASSUME ByteAssumption == Radix \in Nat /\ Byte \subseteq Nat /\ {0, Sof} \subseteq Byte

\* The checksum field lies behind the payload size field, so that the header
\* is readable once size_min bytes have arrived.
ASSUME LayoutAssumption ==
    /\ SizeMin \in Nat /\ PayloadSizeMax \in Nat /\ PayloadSizeOffset \in Nat
    /\ PayloadSizeOffset > 0
    /\ PayloadSizeOffset + 2 <= SizeMin

\* A little-endian uint16.
U16(lo, hi) == lo + Radix * hi

----------------------------------------------------------------------------
\* Positions count from 0: the byte at position p of stream s is s[p + 1].

PayloadSizeAt(s, p) == U16(s[p + PayloadSizeOffset + 1],
                           s[p + PayloadSizeOffset + 2])
FrameSizeAt(s, p) == SizeMin + PayloadSizeAt(s, p)
BytesAt(s, p) == SubSeq(s, p + 1, p + FrameSizeAt(s, p))

\* The header at p has arrived; it is that of a frame of legal size; the
\* whole frame it announces has arrived.
HeaderAt(s, p)    == p + SizeMin <= Len(s)
CandidateAt(s, p) == s[p + 1] = Sof /\ PayloadSizeAt(s, p) <= PayloadSizeMax
CompleteAt(s, p)  == p + FrameSizeAt(s, p) <= Len(s)

\* A frame starts at p.
FrameAt(s, p) ==
    /\ HeaderAt(s, p) /\ CandidateAt(s, p) /\ CompleteAt(s, p)
    /\ CrcVerify(BytesAt(s, p))

\* No frame starts at p, whatever is received after s.
NoFrameAt(s, p) ==
    /\ HeaderAt(s, p)
    /\ CandidateAt(s, p) => CompleteAt(s, p) /\ ~CrcVerify(BytesAt(s, p))
============================================================================
