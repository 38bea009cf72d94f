------------------------------ MODULE MCFields ------------------------------
(***************************************************************************)
(* The hundredths for Fields: all values of both types, and some beyond.   *)
(***************************************************************************)
EXTENDS Fields

AllHundredths == (-32768 .. 65535) \cup {-7000000, -32769, 65536, 7000000}
FewHundredths == {-32769, -53, 0, 53, 65535, 65536}
=============================================================================
