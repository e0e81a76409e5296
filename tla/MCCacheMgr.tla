----------------------------- MODULE MCCacheMgr -----------------------------
(* Small instances of CacheMgr for TLC.                                    *)
EXTENDS CacheMgr, TLC

CONSTANTS k1, k2, g1, g2

MCGroupOf == [k \in Keys |-> IF k = k1 THEN g1 ELSE g2]

\* Addresses and handles are interchangeable.
Symmetry == Permutations(Items) \cup Permutations(Handles)
=============================================================================
