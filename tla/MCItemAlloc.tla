---------------------------- MODULE MCItemAlloc ----------------------------
(* The instance of ItemAlloc that TLC checks: the blocks are alike.        *)
EXTENDS ItemAlloc, TLC

BufferSymmetry == Permutations(Buffers)
=============================================================================
