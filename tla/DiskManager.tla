---------------------------- MODULE DiskManager -----------------------------
(***************************************************************************)
(* storage/disk/disk_manager.cpp: where each page lives in the database    *)
(* file.  An offset is counted in pages (offset / BUSTUB_PAGE_SIZE), the   *)
(* size of the file too.  Every operation holds db_io_latch_: one step.    *)
(***************************************************************************)
EXTENDS Integers, Sequences, FiniteSets

CONSTANTS Page, Buffer, Content,
          Zero,              \* the bytes of a part of the file that was never written
          InitialCapacity,   \* DEFAULT_DB_IO_SIZE
          IntPages           \* the file sizes GetFileSize can tell: 2^31 / BUSTUB_PAGE_SIZE

ASSUME CapacityAssumption ==
    /\ IsFiniteSet(Page) /\ Zero \in Content
    /\ InitialCapacity \in Nat \ {0} /\ IntPages \in Nat \ {0}

Slot == 0..Cardinality(Page)

VARIABLES pages,             \* page -> slot, for the pages that have one
          free_slots,        \* a stack
          page_capacity,
          slots,             \* the file: the content of each slot, written or not
          io_bad,            \* badbit of db_io_, which nothing clears
          memory             \* the buffers the callers pass

dvars == <<pages, free_slots, page_capacity, slots, io_bad, memory>>

Known(p) == p \in DOMAIN pages
Mapped(p, s) == [q \in DOMAIN pages \cup {p} |-> IF q = p THEN s ELSE pages[q]]

\* int GetFileSize(): the size of the file, in the 32 bits of an int.
AsInt(n) == LET m == n % (2 * IntPages) IN IF m >= IntPages THEN m - 2 * IntPages ELSE m
GetFileSize(capacity) == AsInt(capacity + 1)

PastEnd(s, capacity) == GetFileSize(capacity) < 0 \/ s > GetFileSize(capacity)

DiskInit ==
    /\ pages = <<>>
    /\ free_slots = <<>>
    /\ page_capacity = InitialCapacity
    /\ slots = [s \in Slot |-> Zero]
    /\ io_bad = FALSE
    /\ memory \in [Buffer -> Content]

-----------------------------------------------------------------------------
(* The slot of a page: its own, or the one AllocatePage picks. *)

\* Mutant: the free slot that is handed out stays on the stack.
PopNothing == UNCHANGED free_slots

PopFreeSlot == free_slots' = SubSeq(free_slots, 1, Len(free_slots) - 1)

Grown == IF Cardinality(DOMAIN pages) + 1 >= page_capacity THEN 2 * page_capacity ELSE page_capacity

AllocatePage(s) ==
    \/ /\ free_slots # <<>>
       /\ s = free_slots[Len(free_slots)]
       /\ PopFreeSlot
       /\ UNCHANGED page_capacity
    \/ /\ free_slots = <<>>
       /\ page_capacity' = Grown
       /\ s = Cardinality(DOMAIN pages)
       /\ UNCHANGED free_slots

SlotOf(p, s) ==
    \/ Known(p) /\ s = pages[p] /\ UNCHANGED <<free_slots, page_capacity>>
    \/ ~Known(p) /\ AllocatePage(s)

-----------------------------------------------------------------------------
\* The write fails: the page is not recorded and its slot is lost; or its flush
\* fails, after the page was recorded.  Nothing is read from the file any more.
WriteFails(p, s) ==
    /\ io_bad' = TRUE
    /\ UNCHANGED pages \/ (~io_bad /\ pages' = Mapped(p, s))
    /\ UNCHANGED slots

WriteSucceeds(p, b, s) ==
    /\ ~io_bad
    /\ pages' = Mapped(p, s)
    /\ slots' = [slots EXCEPT ![s] = memory[b]]
    /\ UNCHANGED io_bad

WritePage(p, b) ==
    /\ \E s \in Slot : SlotOf(p, s) /\ (WriteFails(p, s) \/ WriteSucceeds(p, b, s))
    /\ UNCHANGED memory

\* The slot is past the size GetFileSize tells: the page is not recorded, nothing is read.
ReadPastEnd(s) ==
    /\ PastEnd(s, page_capacity')
    /\ UNCHANGED <<pages, memory, io_bad>>

\* The read stops in the middle, or is not tried at all after an earlier error.
ReadFails(p, b, s) ==
    /\ ~PastEnd(s, page_capacity')
    /\ pages' = Mapped(p, s)
    /\ io_bad' = TRUE
    /\ \/ UNCHANGED memory
       \/ ~io_bad /\ \E v \in Content : memory' = [memory EXCEPT ![b] = v]

ReadSucceeds(p, b, s) ==
    /\ ~PastEnd(s, page_capacity')
    /\ ~io_bad
    /\ pages' = Mapped(p, s)
    /\ memory' = [memory EXCEPT ![b] = slots[s]]
    /\ UNCHANGED io_bad

ReadPage(p, b) ==
    /\ \E s \in Slot :
          SlotOf(p, s) /\ (ReadPastEnd(s) \/ ReadFails(p, b, s) \/ ReadSucceeds(p, b, s))
    /\ UNCHANGED slots

DeletePage(p) ==
    /\ IF Known(p)
       THEN /\ free_slots' = Append(free_slots, pages[p])
            /\ pages' = [q \in DOMAIN pages \ {p} |-> pages[q]]
       ELSE UNCHANGED <<free_slots, pages>>
    /\ UNCHANGED <<page_capacity, slots, io_bad, memory>>

-----------------------------------------------------------------------------
(* Properties. *)

\* The variables keep their types.
DiskTypeOK ==
    /\ DOMAIN pages \subseteq Page
    /\ pages \in [DOMAIN pages -> Slot]
    /\ free_slots \in Seq(Slot)
    /\ page_capacity \in Nat \ {0}
    /\ slots \in [Slot -> Content]
    /\ io_bad \in BOOLEAN
    /\ memory \in [Buffer -> Content]

\* A page that has a slot lies in the page_capacity_ pages the file is grown to.
\* Until the first I/O error no two pages share a slot, no slot is
\* free while a page uses it or free twice, and none is lost.
SlotsDistinct ==
    /\ \A p \in DOMAIN pages : pages[p] < page_capacity
    /\ io_bad \/
       LET free == {free_slots[i] : i \in DOMAIN free_slots}
           used == {pages[p] : p \in DOMAIN pages}
       IN /\ \A p, q \in DOMAIN pages : pages[p] = pages[q] => p = q
          /\ \A i, j \in DOMAIN free_slots : free_slots[i] = free_slots[j] => i = j
          /\ free \cap used = {}
          /\ free \cup used = 0..Cardinality(DOMAIN pages) + Len(free_slots) - 1

=============================================================================
