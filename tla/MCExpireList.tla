---------------------------- MODULE MCExpireList ----------------------------
(* A small wheel for TLC: widths 1, 2, 4, ... and a last list too wide for  *)
(* any time, as in the code.                                               *)
EXTENDS ExpireList

MCWidths == [i \in Timed |-> IF i = Last THEN TimeMod - 1 ELSE 2^i]
=============================================================================
