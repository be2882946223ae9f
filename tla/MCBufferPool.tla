---------------------------- MODULE MCBufferPool ----------------------------
(***************************************************************************)
(* BufferPool with model values for threads and frames.                    *)
(***************************************************************************)
EXTENDS BufferPool, TLC

Symmetry == Permutations(Thread) \cup Permutations(Frame)
=============================================================================
