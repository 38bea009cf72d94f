----------------------------- MODULE FrameSync -----------------------------
(***************************************************************************)
(* What the frame parser of fm_frame.c promises, without its buffer: a     *)
(* cursor runs along the whole byte stream, steps over every byte at which *)
(* no frame starts and hands over, entire, every frame it stands on.       *)
(* FrameBuffer implements this module with a buffer of one frame's size.   *)
(***************************************************************************)
EXTENDS FrameLayout

VARIABLES
    stream,  \* every byte received so far
    pos,     \* how many of them are disposed of
    frames   \* the frames handed over: where each starts, and its bytes

vars == <<stream, pos, frames>>

Init == stream = << >> /\ pos = 0 /\ frames = << >>

\* More bytes arrive, any number of them.
Arrive == /\ stream' \in Seq(Byte)
          /\ Len(stream) <= Len(stream')
          /\ SubSeq(stream', 1, Len(stream)) = stream
          /\ UNCHANGED <<pos, frames>>

Skip == /\ NoFrameAt(stream, pos)
        /\ pos' = pos + 1
        /\ UNCHANGED <<stream, frames>>

Deliver ==
    /\ FrameAt(stream, pos)
    /\ frames' = Append(frames, [at |-> pos, bytes |-> BytesAt(stream, pos)])
    /\ pos' = pos + FrameSizeAt(stream, pos)
    /\ UNCHANGED stream

Next == Arrive \/ Skip \/ Deliver

SafeSpec == Init /\ [][Next]_vars

\* The parser does not rest while its cursor can move.
Fairness == WF_vars(Skip \/ Deliver)

Spec == SafeSpec /\ Fairness
============================================================================
