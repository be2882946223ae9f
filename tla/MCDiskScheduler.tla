--------------------------- MODULE MCDiskScheduler --------------------------
(***************************************************************************)
(* DiskScheduler with model values for pages, buffers and contents.        *)
(***************************************************************************)
EXTENDS DiskScheduler, TLC

Symmetry == Permutations(Page) \cup Permutations(Buffer)
=============================================================================
