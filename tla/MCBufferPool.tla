---------------------------- MODULE MCBufferPool ----------------------------
(* Model values for BufferPool: threads and frames are interchangeable. *)
EXTENDS BufferPool, TLC

Symmetry == Permutations(Threads) \cup Permutations(Frames)
=============================================================================
