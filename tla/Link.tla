-------------------------------- MODULE Link --------------------------------
(***************************************************************************)
(* A whole link from user to device: the message builder of MsgLink, a     *)
(* line of bytes that loses, adds and alters some, the frame parser of     *)
(* FrameBuffer and the message parser of MsgLink, called by it.  In        *)
(* MsgLink frames travel in a queue that may lose some; here they are      *)
(* bytes among bytes, and that the queue is the right picture is checked.  *)
(***************************************************************************)
EXTENDS Selection

CONSTANTS
    Radix, Sof, SizeMin, PayloadSizeOffset, PayloadSizeMax,  \* see FrameLayout
    FrameSizeMax, StreamMax,                                 \* see FrameBuffer
    WrapId, EchoId, UserToUserId, RawSize,                    \* see MsgLayout
    UserToUserIsWireless,
    Messages, Capacities, CntRange, MsgMax, FramesMax,       \* see MsgLink
    Checksum(_),  \* what stands for the checksum that fm_crc16_update appends
    ChunkSizes,   \* bound: how many bytes one call of handle_data brings
    NoiseBytes,   \* bound: what a damaged byte may become
    NoiseMax      \* bound: how often the line does damage

VARIABLES
    out, begun,    \* the sender, as in MsgLink
    posted,        \* history: the frames sent, but those whose checksum is lost
    line,          \* bytes on their way
    noise,         \* how often the line has done damage
    buffer, index_begin, index_end, data, offset, pc, received, frames,
                   \* the frame parser, as in FrameBuffer
    windows, connect_type, frame_cnt, parsing, reports
                   \* the message parser, as in MsgLink

channel == <<posted, line, noise>>
framing == <<buffer, index_begin, index_end, data, offset, pc, received, frames>>
sender == <<out, begun>>
parser == <<windows, connect_type, frame_cnt, parsing, reports>>
vars == <<channel, framing, sender, parser>>

----------------------------------------------------------------------------
Msg == INSTANCE MsgLayout

\* A frame in bytes: the header of FMFrameUserToDev, payload and checksum.
Covered(cnt, payload) ==
    <<Sof, cnt, Len(payload) % Radix, Len(payload) \div Radix>> \o payload
FrameOf(f) == Append(Covered(f.cnt, f.payload), Checksum(Covered(f.cnt, f.payload)))

\* What a sender whose buffer has FrameSizeMax bytes can put under a checksum.
Payloads[n \in 0 .. MsgMax] ==
    IF n = 0 THEN {<< >>}
    ELSE Payloads[n - 1] \cup {p \o Msg!Built(m) : p \in Payloads[n - 1], m \in Messages}
Coverable == {Covered(cnt, p) : cnt \in 0 .. (CntRange - 1),
                                p \in {q \in Payloads[MsgMax] : Len(q) <= PayloadSizeMax}}

\* The checksum is taken to be ideal, a number of its own for each content,
\* that damage never produces.  How far the 16 bits of fm_crc16_get come up
\* to that is the subject of module Crc.
ASSUME IdealAssumption ==
    /\ \A a, b \in Coverable : Checksum(a) = Checksum(b) => a = b
    /\ \A a \in Coverable : Checksum(a) \in Nat /\ Checksum(a) >= Radix
\* Header and checksum are those of Covered and FrameOf.
ASSUME FormatAssumption ==
    Sof \in 0 .. (Radix - 1) /\ SizeMin = 5 /\ PayloadSizeOffset = 2
ASSUME LineAssumption == NoiseBytes \subseteq 0 .. (Radix - 1) /\ ChunkSizes \subseteq Nat
ASSUME CapacityAssumption == \A cap \in Capacities : cap <= FrameSizeMax
\* A count fits its byte.
ASSUME CountAssumption == CntRange <= Radix

CrcVerify(bytes) ==
    LET covered == SubSeq(bytes, 1, Len(bytes) - 1)
    IN  covered \in Coverable /\ bytes[Len(bytes)] = Checksum(covered)

\* What travels on the line: bytes and checksums.
Sums == {Checksum(a) : a \in Coverable}
Symbol == 0 .. (Radix - 1) \cup Sums

FB == INSTANCE FrameBuffer WITH ChunkMax <- StreamMax, Byte <- Symbol

----------------------------------------------------------------------------
\* The queue of MsgLink: the frames whose checksum is still to come.
Ahead == SubSeq(received, FB!Position + 1, Len(received)) \o line
Wire == LET n == Len(Selected(Ahead, Sums))
        IN  SubSeq(posted, Len(posted) - n + 1, Len(posted))

ML == INSTANCE MsgLink WITH wire <- Wire

\* What the parts assume of their constants.
ASSUME PartsAssumption ==
    /\ FB!ByteAssumption /\ FB!LayoutAssumption
    /\ FB!FrameSizeAssumption /\ FB!BoundAssumption
    /\ ML!RadixAssumption /\ ML!IdAssumption /\ ML!SizeAssumption
    /\ ML!CapacityAssumption /\ ML!MessageAssumption /\ ML!BoundAssumption

----------------------------------------------------------------------------
Init == /\ posted = << >> /\ line = << >> /\ noise = 0
        /\ FB!Init
        /\ ML!Init

Build == /\ UNCHANGED <<channel, framing>>
         /\ \/ \E cap \in Capacities : ML!Begin(cap)
            \/ \E m \in Messages : ML!AppendMsg(m) \/ ML!AppendFails(m)

\* What becomes of a byte: itself, or, damaged, nothing, another or two.
Damaged(b) == {<< >>} \cup {<<x>> : x \in NoiseBytes \ {b}} \cup {<<x, b>> : x \in NoiseBytes}
\* What the line makes of bytes with at most one such damage.
Variants(bytes) == {bytes} \cup
    UNION {{SubSeq(bytes, 1, i - 1) \o d \o SubSeq(bytes, i + 1, Len(bytes)) :
                d \in Damaged(bytes[i])} : i \in DOMAIN bytes}

\* fm_prepare_msg_to_dev_end, and the bytes go out; what the line will do to
\* them is settled here.
End == /\ out # ML!NoFrame
       /\ out' = ML!NoFrame
       /\ \E bytes \in Variants(FrameOf(out)) :
              /\ line' = line \o bytes
              /\ noise' = noise + (IF bytes = FrameOf(out) THEN 0 ELSE 1)
              /\ noise' <= NoiseMax
              /\ posted' = IF Selected(bytes, Sums) = << >> THEN posted
                                                               ELSE Append(posted, out)
       /\ UNCHANGED <<begun, framing, parser>>

\* The device reads n bytes and hands them to fm_parser_from_user_handle_data.
HandleData(n) ==
    /\ n <= Len(line)
    /\ FB!HandleData(SubSeq(line, 1, n))
    /\ line' = SubSeq(line, n + 1, Len(line))
    /\ UNCHANGED <<posted, noise, sender, parser>>

\* The frame parser between callbacks.
FrameStep == /\ windows = << >>
             /\ FB!CopyPiece \/ FB!SkipByte \/ FB!Compact \/ FB!Return
             /\ UNCHANGED <<channel, sender, parser>>

\* Mutant: the messages are taken to reach up to the end of the frame.
OnFrameToEnd ==
    LET f == FB!FrameBytes
    IN  /\ windows = << >>
        /\ FB!DeliverFrame
        /\ connect_type' = "WIRED"
        /\ frame_cnt' = f[2]
        /\ windows' = <<SubSeq(f, PayloadSizeOffset + 3, Len(f))>>
        /\ reports' = << >>
        /\ parsing' = IF Wire # << >> /\ FrameOf(Head(Wire)) = f THEN Head(Wire)
                                                                ELSE ML!NoFrame
        /\ UNCHANGED <<channel, sender>>

\* It calls fm_parser_from_user_on_frame with the bytes of a frame.  That they
\* are those of the first frame in the queue is for history to say, or not.
OnFrame ==
    LET f == FB!FrameBytes
    IN  /\ windows = << >>
        /\ FB!DeliverFrame
        /\ connect_type' = "WIRED"
        /\ frame_cnt' = f[2]
        /\ windows' = <<SubSeq(f, PayloadSizeOffset + 3,
                               PayloadSizeOffset + 2 + FB!PayloadSize)>>
        /\ reports' = << >>
        /\ parsing' = IF Wire # << >> /\ FrameOf(Head(Wire)) = f THEN Head(Wire)
                                                                ELSE ML!NoFrame
        /\ UNCHANGED <<channel, sender>>

\* The message loop, within that callback.
MsgStep == /\ UNCHANGED <<channel, framing>>
           /\ \/ ML!OnMsg \/ ML!EnterWrapper \/ ML!IgnoreMsg
              \/ ML!LeaveWrapper \/ ML!OnFrameEnd

Next == \/ Build \/ End
        \/ \E n \in ChunkSizes : HandleData(n)
        \/ FrameStep \/ OnFrame \/ MsgStep

Spec == Init /\ [][Next]_vars

----------------------------------------------------------------------------
\* The link of bytes implements the queue of frames that may lose some: what
\* the device's callbacks get is what MsgLink allows, whatever the line does.
\* In particular no damage makes the device report a frame that was not sent,
\* a frame twice, or messages of one frame with the count of another.
ImplementsMsgLink == ML!SafeSpec

\* Frame f stands undamaged at position p of what was received.
StandsAt(f, p) == LET bytes == FrameOf(f) IN
    p + Len(bytes) <= Len(received) /\ SubSeq(received, p + 1, p + Len(bytes)) = bytes

\* Damage costs the frames it hits and no other: a frame that arrives
\* undamaged is parsed, at the latest when as many bytes as the buffer holds
\* have come since its first, however broken those before it were.
UndamagedIsParsed ==
    pc = "idle" =>
        \A k \in DOMAIN posted : \A p \in 0 .. (Len(received) - FrameSizeMax) :
            StandsAt(posted[k], p) => \E j \in DOMAIN frames : frames[j].at = p
=============================================================================
