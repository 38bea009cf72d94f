------------------------------- MODULE MCLink -------------------------------
(***************************************************************************)
(* A small format for Link: bytes 0 .. 7, a number for the checksum.  A    *)
(* count and a payload byte are starts of a frame; the device does not     *)
(* know messages of id 5.                                                  *)
(***************************************************************************)
EXTENDS Link, TLC

Ext == INSTANCE SequencesExt

\* The bytes read as the digits of a number.
Number(covered) == Ext!FoldLeft(LAMBDA a, b : Radix * a + b, 0, covered)

RawSizes == 4 :> 1 @@ 6 :> 2 @@ 7 :> 2
Sent == {[connect_type |-> "WIRED", id |-> 4, raw |-> <<1>>],
         [connect_type |-> "WIRELESS", id |-> 4, raw |-> <<1>>],
         [connect_type |-> "WIRED", id |-> 5, raw |-> << >>]}
=============================================================================
