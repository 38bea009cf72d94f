----------------------------- MODULE Selection -----------------------------
(***************************************************************************)
(* The elements of a sequence that are in a set.  SelectSeq does the same; *)
(* this one is written out, as a recursive function, for the proofs.       *)
(***************************************************************************)
EXTENDS Integers, Sequences

\* For each length what is selected from that much of s.
SelectedUpTo(s, S) ==
    LET upTo[n \in 0 .. Len(s)] ==
            IF n = 0 THEN << >>
            ELSE IF s[n] \in S THEN Append(upTo[n - 1], s[n]) ELSE upTo[n - 1]
    IN  upTo

Selected(s, S) == SelectedUpTo(s, S)[Len(s)]
============================================================================
