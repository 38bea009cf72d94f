--------------------------- MODULE MCFrameBuffer ---------------------------
(***************************************************************************)
(* A small frame format for FrameBuffer: bytes 0 and 1, start of frame 1,  *)
(* two bytes of payload size, a payload of at most 2 bytes, and one byte   *)
(* of checksum, the sum of the others.  Every stream of StreamMax bytes is *)
(* tried, cut into chunks everywhere.                                      *)
(***************************************************************************)
EXTENDS FrameBuffer

Ext == INSTANCE SequencesExt

SumVerify(f) ==
    f[Len(f)] = Ext!FoldLeft(LAMBDA a, b : (a + b) % Radix, 0, SubSeq(f, 1, Len(f) - 1))
============================================================================
