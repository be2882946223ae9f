--------------------------- MODULE MCArcReplacer ----------------------------
(* ArcReplacer on a small pool. *)
EXTENDS ArcReplacer, TLC

\* Frames and pages are only compared with each other.
Symmetry == Permutations(Frame) \union Permutations(Page)
=============================================================================
