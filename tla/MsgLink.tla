------------------------------ MODULE MsgLink ------------------------------
(***************************************************************************)
(* One direction of a link, above the level of frames: a sender builds     *)
(* frames of messages with fm_prepare_msg_to_dev_begin, .._try_append and  *)
(* .._end (or their .._to_user twins) in a buffer of its own; the frame    *)
(* parser of the peer, here a queue that may lose frames, hands them to    *)
(* fm_parser_from_user_on_frame (or .._from_dev_..), which reports message *)
(* after message to its callbacks.                                         *)
(***************************************************************************)
EXTENDS MsgLayout, Selection

CONSTANTS
    SizeMin,         \* header and checksum of a frame in this direction
    PayloadSizeMax,  \* what the peer's layout accepts
    Messages,        \* what may be sent: [connect_type, id, raw]
    Capacities,      \* frame_size_max of the sender's buffers
    CntRange,        \* bound: frame counts 0 .. CntRange-1 (256 in the code)
    MsgMax,          \* bound: calls of try_append for one frame
    FramesMax        \* bound: frames begun

ASSUME SizeAssumption ==
    /\ SizeMin \in Nat /\ PayloadSizeMax \in Nat /\ SizeMin > 0
    /\ Capacities \subseteq Nat /\ \A cap \in Capacities : cap >= SizeMin
\* No buffer is larger than FM_FRAME_SIZE_MAX, so that a length within a frame
\* fits its byte.
ASSUME CapacityAssumption ==
    /\ \A cap \in Capacities : cap <= SizeMin + PayloadSizeMax
    /\ PayloadSizeMax < Radix
ASSUME MessageAssumption ==
    \A m \in Messages : /\ m.connect_type \in ConnectType
                        /\ m.id \in 0 .. (Radix - 1) /\ m.id # WrapId
                        /\ m.raw \in Seq(0 .. (Radix - 1))
                        /\ m.id \in SizedIds =>
                             /\ m.raw # << >> /\ Len(m.raw) = 1 + Head(m.raw)
                             /\ Len(m.raw) <= RawSize[m.id]
ASSUME BoundAssumption == CntRange \in Nat \ {0} /\ MsgMax \in Nat /\ FramesMax \in Nat

VARIABLES
    out,           \* the frame being built, or NoFrame
    begun,         \* frames begun so far
    wire,          \* frames on their way
    windows,       \* parser: the bytes each nested call has still to go through
    connect_type,  \* parser->connect_type
    frame_cnt,     \* parser->frame_cnt
    parsing,       \* history: the frame being parsed, or NoFrame
    reports        \* history: the callbacks made for it

vars == <<out, begun, wire, windows, connect_type, frame_cnt, parsing, reports>>
sender == <<out, begun>>
parser == <<windows, connect_type, frame_cnt, parsing, reports>>

NoFrame == [cap |-> 0]

\* A frame in the sender's buffer; msgs is history, what it was made of.
NewFrame(cap) ==
    [cap |-> cap, cnt |-> begun % CntRange, payload |-> << >>, msgs |-> << >>, tried |-> 0]

\* fm_frame_user_to_dev_bytes, fm_frame_dev_to_user_bytes
\* Mutant: the checksum is not reckoned with.
FrameBytesUnchecked(f) == SizeMin - 2 + Len(f.payload)

FrameBytes(f) == SizeMin + Len(f.payload)

----------------------------------------------------------------------------
Init == /\ out = NoFrame /\ begun = 0 /\ wire = << >>
        /\ windows = << >> /\ connect_type = "WIRELESS" /\ frame_cnt = 0
        /\ parsing = NoFrame /\ reports = << >>

\* fm_prepare_msg_to_dev_begin; a frame not ended yet is dropped by this.
Begin(cap) ==
    /\ begun < FramesMax
    /\ out' = NewFrame(cap)
    /\ begun' = begun + 1
    /\ UNCHANGED <<wire, parser>>

\* fm_prepare_msg_to_dev_try_append returning true, ...
AppendMsg(m) ==
    /\ out # NoFrame /\ out.tried < MsgMax
    /\ BuiltSize(m) <= out.cap - FrameBytes(out)
    /\ out' = [out EXCEPT !.payload = @ \o Built(m), !.msgs = Append(@, m),
                          !.tried = @ + 1]
    /\ UNCHANGED <<begun, wire, parser>>

\* ... and returning false.
AppendFails(m) ==
    /\ out # NoFrame /\ out.tried < MsgMax
    /\ BuiltSize(m) > out.cap - FrameBytes(out)
    /\ out' = [out EXCEPT !.tried = @ + 1]
    /\ UNCHANGED <<begun, wire, parser>>

\* The frame is sent, or lost at once.
Send(f) == wire' \in {wire, Append(wire, f)}

\* fm_prepare_msg_to_dev_end, and the frame is sent.
End ==
    /\ out # NoFrame
    /\ Send(out)
    /\ out' = NoFrame
    /\ UNCHANGED <<begun, parser>>

\* fm_prepare_msg_to_dev: the three calls for a single message; without room
\* for it nothing is sent, and the buffer keeps an empty frame.
Prepare(cap, m) ==
    LET f == NewFrame(cap) IN
    /\ begun < FramesMax
    /\ begun' = begun + 1
    /\ IF BuiltSize(m) <= cap - FrameBytes(f)
       THEN /\ Send([f EXCEPT !.payload = Built(m), !.msgs = <<m>>])
            /\ out' = NoFrame
       ELSE /\ out' = f
            /\ UNCHANGED wire
    /\ UNCHANGED parser

\* Or it is lost on its way.
Lose == /\ wire # << >>
        /\ wire' = Tail(wire)
        /\ UNCHANGED <<sender, parser>>

----------------------------------------------------------------------------
\* on_frame: the peer's frame parser takes what its layout allows.
Acceptable(f) == Len(f.payload) <= PayloadSizeMax

\* Mutant: connect_type is left as the previous frame set it.
OnFrameStale ==
    /\ windows = << >> /\ wire # << >>
    /\ wire' = Tail(wire)
    /\ IF Acceptable(Head(wire))
       THEN /\ parsing' = Head(wire)
            /\ frame_cnt' = Head(wire).cnt
            /\ windows' = <<Head(wire).payload>>
            /\ reports' = << >>
       ELSE UNCHANGED <<parsing, frame_cnt, windows, reports>>
    /\ UNCHANGED <<sender, connect_type>>

OnFrame ==
    /\ windows = << >> /\ wire # << >>
    /\ wire' = Tail(wire)
    /\ IF Acceptable(Head(wire))
       THEN /\ parsing' = Head(wire)
            /\ connect_type' = "WIRED"
            /\ frame_cnt' = Head(wire).cnt
            /\ windows' = <<Head(wire).payload>>
            /\ reports' = << >>
       ELSE UNCHANGED parser
    /\ UNCHANGED sender

Window == Head(windows)

\* A message for the callback on_frame_msg.
OnMsg ==
    /\ windows # << >> /\ MsgReady(Window)
    /\ MsgId(Window) \in DOMAIN RawSize
    /\ reports' = Append(reports,
          [connect_type |-> Reported(connect_type, MsgId(Window)),
           id |-> MsgId(Window),
           raw |-> Decoded(MsgId(Window), CopyPayload(RawSize[MsgId(Window)],
                                                      MsgPayload(Window)))])
    /\ windows' = <<AfterMsg(Window)>> \o Tail(windows)
    /\ UNCHANGED <<sender, wire, connect_type, frame_cnt, parsing>>

\* A wrapper: the messages in it are gone through first.
EnterWrapper ==
    /\ windows # << >> /\ MsgReady(Window)
    /\ MsgId(Window) = WrapId
    /\ connect_type' = "WIRELESS"
    /\ windows' = <<UserData(Window), AfterMsg(Window)>> \o Tail(windows)
    /\ UNCHANGED <<sender, wire, frame_cnt, parsing, reports>>

\* Mutant: an unknown message is not stepped over.
IgnoreStanding ==
    /\ windows # << >> /\ MsgReady(Window)
    /\ MsgId(Window) \notin DOMAIN RawSize \cup {WrapId}
    /\ UNCHANGED vars

\* A message of a kind unknown to the peer.
IgnoreMsg ==
    /\ windows # << >> /\ MsgReady(Window)
    /\ MsgId(Window) \notin DOMAIN RawSize \cup {WrapId}
    /\ windows' = <<AfterMsg(Window)>> \o Tail(windows)
    /\ UNCHANGED <<sender, wire, connect_type, frame_cnt, parsing, reports>>

\* Mutant: connect_type is not restored.
LeaveWireless ==
    /\ Len(windows) > 1 /\ ~MsgReady(Window)
    /\ windows' = Tail(windows)
    /\ UNCHANGED <<sender, wire, connect_type, frame_cnt, parsing, reports>>

\* No whole message is left in a wrapper: back to the messages around it.
LeaveWrapper ==
    /\ Len(windows) > 1 /\ ~MsgReady(Window)
    /\ connect_type' = "WIRED"
    /\ windows' = Tail(windows)
    /\ UNCHANGED <<sender, wire, frame_cnt, parsing, reports>>

\* No whole message is left in the frame: on_frame_end.
OnFrameEnd ==
    /\ Len(windows) = 1 /\ ~MsgReady(Window)
    /\ windows' = << >>
    /\ UNCHANGED <<sender, wire, connect_type, frame_cnt, parsing, reports>>

----------------------------------------------------------------------------
ParserStep == OnFrame \/ OnMsg \/ EnterWrapper \/ IgnoreMsg \/ LeaveWrapper
                      \/ OnFrameEnd

Next == \/ \E cap \in Capacities : Begin(cap)
        \/ \E m \in Messages : AppendMsg(m) \/ AppendFails(m)
        \/ \E cap \in Capacities, m \in Messages : Prepare(cap, m)
        \/ End
        \/ Lose
        \/ ParserStep

SafeSpec == Init /\ [][Next]_vars

\* A frame is parsed within the call of handle_data that completed it.
Spec == SafeSpec /\ WF_vars(ParserStep)

----------------------------------------------------------------------------
Frames == [cap : Nat, cnt : 0 .. (CntRange - 1), payload : Seq(0 .. (Radix - 1)),
           msgs : Seq(Messages), tried : 0 .. MsgMax]

\* Types; and wrappers are nested in frames but not in one another.
TypeOK ==
    /\ out \in Frames \cup {NoFrame} /\ parsing \in Frames \cup {NoFrame}
    /\ begun \in 0 .. FramesMax
    /\ wire \in Seq(Frames)
    /\ windows \in Seq(Seq(0 .. (Radix - 1))) /\ Len(windows) <= 2
    /\ connect_type \in ConnectType
    /\ frame_cnt \in 0 .. (CntRange - 1)
    /\ reports \in Seq([connect_type : ConnectType, id : DOMAIN RawSize,
                        raw : Seq(0 .. (Radix - 1))])

\* Header, payload and the checksum still to be written never exceed the
\* sender's buffer: try_append reckons with the wrapper and with the checksum.
FrameFits == out # NoFrame => FrameBytes(out) <= out.cap

\* Every frame that was ended and is sent passes the peer's frame parser, as
\* long as no buffer is larger than FM_FRAME_SIZE_MAX.
PeerAccepts == \A k \in DOMAIN wire : Acceptable(wire[k])

\* What the peer has to report for messages ms: those it knows, in order,
\* each with the connection the sender named and the payload it gave, cut or
\* filled with zeros to the size the peer knows; an echo and user data as they
\* are.
Fitted(m) ==
    LET size == IF m.id \in SizedIds THEN Len(m.raw) ELSE RawSize[m.id]
    IN  SubSeq(m.raw \o [i \in 1 .. size |-> 0], 1, size)
ToReport(m) == [connect_type |-> Reported(m.connect_type, m.id), id |-> m.id,
                raw |-> Fitted(m)]
Expected(ms) ==
    LET known == Selected(ms, {m \in Messages : m.id \in DOMAIN RawSize})
    IN  [k \in DOMAIN known |-> ToReport(known[k])]

\* When on_frame_end is called the peer has reported every message that was
\* appended to this frame and nothing else: in order, of the right node and
\* with the right bytes, wrapped or not, whatever frames were lost before it
\* and whatever unknown messages stand between.
AllReported ==
    windows = << >> /\ parsing # NoFrame => reports = Expected(parsing.msgs)

\* The transient connect_type is that of the message being parsed: wireless
\* exactly within a wrapper, whatever was parsed before it.
ConnectTypeFollowsWrapper ==
    windows # << >> => (connect_type = "WIRELESS" <=> Len(windows) = 2)

\* A frame on its way is lost, or taken by the parser and gone through to its
\* end: no frame sent before it and no message in it, known or unknown, wrapped
\* or not, holds the parser up.  The frames of a behaviour are told by their
\* counts, of which there are enough.
FrameGetsParsed ==
    \A c \in 0 .. (FramesMax - 1) :
        LET going == \/ \E k \in DOMAIN wire : wire[k].cnt = c
                     \/ windows # << >> /\ parsing.cnt = c
        IN  going ~> ~going

\* fm_driver_data.h: what is relayed over UWB as user data has at most
\* FM_USER_DATA_PAYLOAD_SIZE bytes.
UserDataSizeMax == 78
WrappedWithinUserData ==
    out # NoFrame => \A k \in DOMAIN out.msgs :
        out.msgs[k].connect_type = "WIRELESS" =>
            MsgHeaderSize + Len(out.msgs[k].raw) <= UserDataSizeMax
============================================================================
