---------------------------- MODULE MCTableHeap -----------------------------
(***************************************************************************)
(* TableHeap with rows of one byte, one that fills a page, and one too     *)
(* large by a byte.  A page has 11 bytes, so room for two short rows.      *)
(***************************************************************************)
EXTENDS TableHeap

Bytes(count, content) == [bytes |-> count, content |-> content]

MCLength(row) == row.bytes

PageRoom == PageSize - HeaderSize - InfoSize

MCTuple == {Bytes(1, content) : content \in {"first", "second"}}
           \cup {Bytes(PageRoom, "full"), Bytes(PageRoom + 1, "too long")}
=============================================================================
