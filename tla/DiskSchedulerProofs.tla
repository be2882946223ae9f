------------------------ MODULE DiskSchedulerProofs ------------------------
(***************************************************************************)
(* What holds of the disk manager and the scheduler for every finite set   *)
(* of pages, all buffers and contents, and every capacity to begin with.   *)
(***************************************************************************)
EXTENDS DiskScheduler, TLAPS, FiniteSetTheorems, SequenceTheorems

-----------------------------------------------------------------------------
(* Where the pages are.                                                    *)

Taken == {pages[p] : p \in DOMAIN pages}
Free  == {free_slots[i] : i \in DOMAIN free_slots}

\* The file is grown far enough for the pages and the free slots, and not
\* beyond what the pages call for.
InFile ==
    /\ DiskTypeOK
    /\ Cardinality(DOMAIN pages) + Len(free_slots) <= page_capacity
    /\ page_capacity <= InitialCapacity + 2 * Cardinality(Page)
    /\ \A p \in DOMAIN pages : pages[p] < page_capacity
    /\ \A i \in DOMAIN free_slots : free_slots[i] < page_capacity

\* Pages and free slots share out the first slots among them.
Apart ==
    /\ \A p, q \in DOMAIN pages : pages[p] = pages[q] => p = q
    /\ \A i, j \in DOMAIN free_slots : free_slots[i] = free_slots[j] => i = j
    /\ Free \cap Taken = {}
    /\ Free \cup Taken = 0..Cardinality(DOMAIN pages) + Len(free_slots) - 1

\* What is assumed where it says so: GetFileSize can tell every size of the file.
SmallFile == InitialCapacity + 2 * Cardinality(Page) + 1 < IntPages

LEMMA PagesFinite ==
    ASSUME DiskTypeOK
    PROVE  /\ IsFiniteSet(DOMAIN pages) /\ Cardinality(DOMAIN pages) \in Nat
           /\ Cardinality(Page) \in Nat /\ Cardinality(DOMAIN pages) <= Cardinality(Page)
           /\ \A p \in Page \ DOMAIN pages :
                 /\ Cardinality(DOMAIN pages \cup {p}) = Cardinality(DOMAIN pages) + 1
                 /\ Cardinality(DOMAIN pages) + 1 <= Cardinality(Page)
           /\ \A p \in DOMAIN pages : /\ DOMAIN pages \cup {p} = DOMAIN pages
                                      /\ Cardinality(DOMAIN pages \ {p}) = Cardinality(DOMAIN pages) - 1
                                      /\ Cardinality(DOMAIN pages) > 0
<1>1. IsFiniteSet(Page) /\ DOMAIN pages \subseteq Page
  BY CapacityAssumption DEF DiskTypeOK
<1>2. IsFiniteSet(DOMAIN pages) /\ Cardinality(DOMAIN pages) <= Cardinality(Page)
      /\ Cardinality(DOMAIN pages) \in Nat /\ Cardinality(Page) \in Nat
  BY <1>1, FS_Subset, FS_CardinalityType
<1>3. ASSUME NEW p \in Page \ DOMAIN pages
      PROVE  /\ Cardinality(DOMAIN pages \cup {p}) = Cardinality(DOMAIN pages) + 1
             /\ Cardinality(DOMAIN pages) + 1 <= Cardinality(Page)
  <2>1. Cardinality(DOMAIN pages \cup {p}) = Cardinality(DOMAIN pages) + 1
    BY <1>2, FS_AddElement
  <2>2. DOMAIN pages \cup {p} \in SUBSET Page
    BY <1>1
  <2>3. Cardinality(DOMAIN pages \cup {p}) <= Cardinality(Page)
    BY <1>1, <2>2, FS_Subset
  <2> QED BY <2>1, <2>3
<1>4. ASSUME NEW p \in DOMAIN pages
      PROVE  Cardinality(DOMAIN pages \ {p}) = Cardinality(DOMAIN pages) - 1 /\ Cardinality(DOMAIN pages) > 0
  <2>1. Cardinality(DOMAIN pages \ {p}) = Cardinality(DOMAIN pages) - 1
    BY <1>2, FS_RemoveElement
  <2>2. Cardinality(DOMAIN pages) # 0
    BY <1>2, FS_EmptySet
  <2> QED BY <1>2, <2>1, <2>2
<1> QED BY <1>2, <1>3, <1>4

\* What GetFileSize tells of a file that is small enough.
LEMMA SizeTold ==
    ASSUME SmallFile, NEW capacity \in Nat, capacity <= InitialCapacity + 2 * Cardinality(Page),
           NEW s \in Nat, s < capacity
    PROVE  ~PastEnd(s, capacity)
<1>1. Cardinality(Page) \in Nat /\ IntPages \in Nat \ {0} /\ InitialCapacity \in Nat
  BY CapacityAssumption, FS_CardinalityType
<1>2. capacity + 1 < IntPages /\ capacity + 1 \in Nat
  BY <1>1 DEF SmallFile
<1>3. \A n, m \in Nat : m # 0 /\ n < m => n % m = n
  OBVIOUS
<1>4. (capacity + 1) % (2 * IntPages) = capacity + 1
  BY <1>1, <1>2, <1>3
<1> QED BY <1>1, <1>2, <1>4 DEF PastEnd, GetFileSize, AsInt

\* The slot of a page, its own or a new one.
LEMMA SlotGiven ==
    ASSUME InFile, NEW p \in Page, NEW s \in Slot, SlotOf(p, s)
    PROVE  /\ free_slots' \in Seq(Slot) /\ page_capacity' \in Nat \ {0}
           /\ page_capacity' >= page_capacity /\ page_capacity' <= InitialCapacity + 2 * Cardinality(Page)
           /\ s < page_capacity'
           /\ \A i \in DOMAIN free_slots' : i \in DOMAIN free_slots /\ free_slots'[i] = free_slots[i]
           /\ Cardinality(DOMAIN pages \cup {p}) + Len(free_slots') <= page_capacity'
           /\ Cardinality(DOMAIN pages) + Len(free_slots') <= page_capacity'
<1>1. /\ free_slots \in Seq(Slot) /\ page_capacity \in Nat \ {0} /\ Len(free_slots) \in Nat
      /\ Slot \subseteq Nat /\ DOMAIN free_slots = 1..Len(free_slots)
      /\ Cardinality(DOMAIN pages) + Len(free_slots) <= page_capacity
      /\ page_capacity <= InitialCapacity + 2 * Cardinality(Page)
      /\ \A i \in DOMAIN free_slots : free_slots[i] < page_capacity
      /\ InitialCapacity \in Nat \ {0}
  BY LenProperties, CapacityAssumption DEF InFile, DiskTypeOK, Slot
<1>2. /\ Cardinality(DOMAIN pages) \in Nat /\ Cardinality(Page) \in Nat
      /\ p \notin DOMAIN pages => /\ Cardinality(DOMAIN pages \cup {p}) = Cardinality(DOMAIN pages) + 1
                                  /\ Cardinality(DOMAIN pages) + 1 <= Cardinality(Page)
      /\ p \in DOMAIN pages => DOMAIN pages \cup {p} = DOMAIN pages
  BY PagesFinite DEF InFile
<1>3. CASE Known(p) /\ s = pages[p] /\ UNCHANGED <<free_slots, page_capacity>>
  <2>1. s < page_capacity /\ DOMAIN pages \cup {p} = DOMAIN pages
    BY <1>2, <1>3 DEF Known, InFile
  <2> QED BY <1>1, <1>2, <1>3, <2>1
<1>4. CASE ~Known(p) /\ free_slots # <<>> /\ s = free_slots[Len(free_slots)] /\ PopFreeSlot
           /\ UNCHANGED page_capacity
  <2>1. Len(free_slots) > 0 /\ Len(free_slots) \in DOMAIN free_slots
    BY <1>1, <1>4, EmptySeq
  <2>2. \A i \in 1..Len(free_slots) - 1 : free_slots[i] \in Slot
    BY <1>1, ElementOfSeq
  <2>3. /\ free_slots' \in Seq(Slot) /\ Len(free_slots') = Len(free_slots) - 1
        /\ \A i \in 1..Len(free_slots) - 1 : free_slots'[i] = free_slots[i]
    BY <1>1, <1>4, <2>1, <2>2, SubSeqProperties DEF PopFreeSlot
  <2>4. DOMAIN free_slots' = 1..Len(free_slots) - 1
    BY <2>3, LenProperties
  <2>5. \A i \in DOMAIN free_slots' : i \in DOMAIN free_slots /\ free_slots'[i] = free_slots[i]
    BY <1>1, <2>3, <2>4
  <2>6. Cardinality(DOMAIN pages \cup {p}) + Len(free_slots') <= page_capacity
        /\ Cardinality(DOMAIN pages) + Len(free_slots') <= page_capacity
    BY <1>1, <1>2, <1>4, <2>1, <2>3 DEF Known
  <2>7. s < page_capacity
    BY <1>1, <1>4, <2>1
  <2> QED BY <1>1, <1>4, <2>3, <2>5, <2>6, <2>7
<1>5. CASE ~Known(p) /\ free_slots = <<>> /\ page_capacity' = Grown /\ s = Cardinality(DOMAIN pages)
           /\ UNCHANGED free_slots
  <2>1. Len(free_slots) = 0
    BY <1>5, EmptySeq
  <2>2. /\ page_capacity' = IF Cardinality(DOMAIN pages) + 1 >= page_capacity THEN 2 * page_capacity ELSE page_capacity
        /\ Cardinality(DOMAIN pages) <= page_capacity
    BY <1>1, <1>5, <2>1 DEF Grown
  <2>3. page_capacity' \in Nat \ {0} /\ page_capacity' >= page_capacity /\ s < page_capacity'
        /\ Cardinality(DOMAIN pages) + 1 <= page_capacity'
    BY <1>1, <1>2, <1>5, <2>2
  <2>4. page_capacity' <= InitialCapacity + 2 * Cardinality(Page)
    BY <1>1, <1>2, <1>5, <2>2 DEF Known
  <2> QED BY <1>1, <1>2, <1>5, <2>1, <2>3, <2>4 DEF Known
<1> QED BY <1>3, <1>4, <1>5 DEF SlotOf, AllocatePage

\* The slot that is given is nobody else's.
LEMMA SlotApart ==
    ASSUME InFile, Apart, NEW p \in Page, NEW s \in Slot, SlotOf(p, s)
    PROVE  LET others == {pages[q] : q \in DOMAIN pages \ {p}}
               left   == {free_slots'[i] : i \in DOMAIN free_slots'}
           IN  /\ s \notin others /\ s \notin left /\ left \cap others = {}
               /\ \A i, j \in DOMAIN free_slots' : free_slots'[i] = free_slots'[j] => i = j
               /\ left \cup others \cup {s} = 0..Cardinality(DOMAIN pages \cup {p}) + Len(free_slots') - 1
<1> DEFINE others == {pages[q] : q \in DOMAIN pages \ {p}}
           left   == {free_slots'[i] : i \in DOMAIN free_slots'}
<1>1. /\ free_slots \in Seq(Slot) /\ Len(free_slots) \in Nat
      /\ Slot \subseteq Nat /\ DOMAIN free_slots = 1..Len(free_slots)
  BY LenProperties DEF InFile, DiskTypeOK, Slot
<1>2. /\ Cardinality(DOMAIN pages) \in Nat
      /\ p \notin DOMAIN pages => Cardinality(DOMAIN pages \cup {p}) = Cardinality(DOMAIN pages) + 1
      /\ p \in DOMAIN pages => DOMAIN pages \cup {p} = DOMAIN pages
  BY PagesFinite DEF InFile
<1>3. CASE Known(p) /\ s = pages[p] /\ UNCHANGED <<free_slots, page_capacity>>
  <2>1. p \in DOMAIN pages /\ Taken = others \cup {s} /\ left = Free /\ s \notin others
    BY <1>3 DEF Known, Taken, Free, Apart
  <2> QED BY <1>2, <1>3, <2>1 DEF Apart
<1>4. CASE ~Known(p) /\ free_slots # <<>> /\ s = free_slots[Len(free_slots)] /\ PopFreeSlot
  <2>1. Len(free_slots) > 0 /\ Len(free_slots) \in DOMAIN free_slots
    BY <1>1, <1>4, EmptySeq
  <2>2. \A i \in 1..Len(free_slots) - 1 : free_slots[i] \in Slot
    BY <1>1, ElementOfSeq
  <2>3. /\ free_slots' \in Seq(Slot) /\ Len(free_slots') = Len(free_slots) - 1
        /\ \A i \in 1..Len(free_slots) - 1 : free_slots'[i] = free_slots[i]
    BY <1>1, <1>4, <2>1, <2>2, SubSeqProperties DEF PopFreeSlot
  <2>4. DOMAIN free_slots' = 1..Len(free_slots) - 1
    BY <2>3, LenProperties
  <2>5. others = Taken
    BY <1>4 DEF Known, Taken
  <2>6. Free = left \cup {s} /\ s \notin left
    <3>1. PICK n \in Nat : n = Len(free_slots)
      BY <1>1
    <3>2. 1..n = (1..n - 1) \cup {n} /\ n \notin 1..n - 1
      BY <2>1, <3>1
    <3>3. /\ left = {free_slots[i] : i \in 1..n - 1} /\ s = free_slots[n]
          /\ DOMAIN free_slots = 1..n
      BY <1>1, <1>4, <2>3, <2>4, <3>1
    <3>4. Free = left \cup {s}
      BY <3>2, <3>3 DEF Free
    <3>5. s \notin left
      <4> SUFFICES ASSUME NEW i \in 1..n - 1, free_slots[i] = free_slots[n] PROVE FALSE
        BY <3>3
      <4>1. i \in DOMAIN free_slots /\ n \in DOMAIN free_slots /\ i # n
        BY <2>1, <3>1, <3>2, <3>3
      <4> QED BY <4>1 DEF Apart
    <3> QED BY <3>4, <3>5
  <2>7. \A i, j \in DOMAIN free_slots' : free_slots'[i] = free_slots'[j] => i = j
    BY <1>1, <2>3, <2>4 DEF Apart
  <2>8. Cardinality(DOMAIN pages \cup {p}) + Len(free_slots') - 1 = Cardinality(DOMAIN pages) + Len(free_slots) - 1
    BY <1>1, <1>2, <1>4, <2>3 DEF Known
  <2> HIDE DEF others, left
  <2> QED BY <2>5, <2>6, <2>7, <2>8 DEF Apart, others, left
<1>5. CASE ~Known(p) /\ free_slots = <<>> /\ s = Cardinality(DOMAIN pages) /\ UNCHANGED free_slots
  <2>1. Len(free_slots) = 0 /\ DOMAIN free_slots = {}
    BY <1>1, <1>5, EmptySeq
  <2>2. others = Taken /\ left = {} /\ Free = {}
    BY <1>5, <2>1 DEF Known, Taken, Free
  <2>3. Taken = 0..Cardinality(DOMAIN pages) - 1
    BY <1>2, <2>1, <2>2 DEF Apart
  <2>4. s \notin Taken /\ Taken \cup {s} = 0..Cardinality(DOMAIN pages)
    BY <1>2, <1>5, <2>3
  <2>5. Cardinality(DOMAIN pages \cup {p}) + Len(free_slots') - 1 = Cardinality(DOMAIN pages)
    BY <1>2, <1>5, <2>1 DEF Known
  <2> HIDE DEF others, left
  <2> QED BY <1>5, <2>1, <2>2, <2>4, <2>5 DEF others, left
<1> QED BY <1>3, <1>4, <1>5 DEF SlotOf, AllocatePage

\* The slot is recorded for the page, or lost.
LEMMA Recorded ==
    ASSUME InFile, NEW p \in Page, NEW s \in Slot, SlotOf(p, s), pages' = Mapped(p, s) \/ UNCHANGED pages,
           slots' \in [Slot -> Content], io_bad' \in BOOLEAN, memory' \in [Buffer -> Content]
    PROVE  InFile'
<1>1. /\ free_slots' \in Seq(Slot) /\ page_capacity' \in Nat \ {0}
      /\ page_capacity' >= page_capacity /\ page_capacity' <= InitialCapacity + 2 * Cardinality(Page)
      /\ s < page_capacity'
      /\ \A i \in DOMAIN free_slots' : i \in DOMAIN free_slots /\ free_slots'[i] = free_slots[i]
      /\ Cardinality(DOMAIN pages \cup {p}) + Len(free_slots') <= page_capacity'
      /\ Cardinality(DOMAIN pages) + Len(free_slots') <= page_capacity'
  BY SlotGiven
<1>2. /\ DOMAIN pages \subseteq Page /\ pages \in [DOMAIN pages -> Slot] /\ Slot \subseteq Nat
      /\ page_capacity \in Nat /\ \A q \in DOMAIN pages : pages[q] < page_capacity
      /\ free_slots \in Seq(Slot) /\ DOMAIN free_slots = 1..Len(free_slots)
      /\ \A i \in DOMAIN free_slots : free_slots[i] < page_capacity
  BY LenProperties DEF InFile, DiskTypeOK, Slot
<1>3. \A i \in DOMAIN free_slots : free_slots[i] \in Nat
  BY <1>2, ElementOfSeq
<1>4. \A i \in DOMAIN free_slots' : free_slots'[i] < page_capacity'
  BY <1>1, <1>2, <1>3
<1>5. CASE pages' = Mapped(p, s)
  <2>1. /\ DOMAIN pages' = DOMAIN pages \cup {p}
        /\ \A q \in DOMAIN pages' : pages'[q] = IF q = p THEN s ELSE pages[q]
        /\ pages' = [q \in DOMAIN pages' |-> pages'[q]]
    BY <1>5 DEF Mapped
  <2>2. pages' \in [DOMAIN pages' -> Slot] /\ DOMAIN pages' \subseteq Page
    BY <1>2, <2>1
  <2>3. \A q \in DOMAIN pages' : pages'[q] < page_capacity'
    BY <1>1, <1>2, <2>1
  <2> QED BY <1>1, <1>4, <2>1, <2>2, <2>3 DEF InFile, DiskTypeOK
<1>6. CASE UNCHANGED pages
  <2>1. \A q \in DOMAIN pages : pages[q] < page_capacity'
    BY <1>1, <1>2
  <2> QED BY <1>1, <1>2, <1>4, <1>6, <2>1 DEF InFile, DiskTypeOK
<1> QED BY <1>5, <1>6

LEMMA RecordedApart ==
    ASSUME InFile, Apart, NEW p \in Page, NEW s \in Slot, SlotOf(p, s), pages' = Mapped(p, s)
    PROVE  Apart'
<1> DEFINE others == {pages[q] : q \in DOMAIN pages \ {p}}
           left   == {free_slots'[i] : i \in DOMAIN free_slots'}
<1>1. /\ s \notin others /\ s \notin left /\ left \cap others = {}
      /\ \A i, j \in DOMAIN free_slots' : free_slots'[i] = free_slots'[j] => i = j
      /\ left \cup others \cup {s} = 0..Cardinality(DOMAIN pages \cup {p}) + Len(free_slots') - 1
  BY SlotApart
<1>2. /\ DOMAIN pages' = DOMAIN pages \cup {p}
      /\ \A q \in DOMAIN pages' : pages'[q] = IF q = p THEN s ELSE pages[q]
  BY DEF Mapped
<1>3. Free' = left
  BY DEF Free
<1>4. Taken' = others \cup {s}
  BY <1>2 DEF Taken
<1>5. \A q, r \in DOMAIN pages' : pages'[q] = pages'[r] => q = r
  BY <1>1, <1>2 DEF Apart
<1> HIDE DEF others, left
<1> QED BY <1>1, <1>2, <1>3, <1>4, <1>5 DEF Apart

LEMMA WriteInFile ==
    ASSUME InFile, NEW p \in Page, NEW b \in Buffer, WritePage(p, b)
    PROVE  InFile'
<1> PICK s \in Slot : SlotOf(p, s) /\ (WriteFails(p, s) \/ WriteSucceeds(p, b, s))
  BY DEF WritePage
<1>1. pages' = Mapped(p, s) \/ UNCHANGED pages
  BY DEF WriteFails, WriteSucceeds
<1>2. slots' \in [Slot -> Content] /\ io_bad' \in BOOLEAN /\ memory' \in [Buffer -> Content]
  <2>1. slots \in [Slot -> Content] /\ io_bad \in BOOLEAN /\ memory \in [Buffer -> Content] /\ UNCHANGED memory
    BY DEF WritePage, InFile, DiskTypeOK
  <2>2. slots' = slots \/ slots' = [slots EXCEPT ![s] = memory[b]]
    BY DEF WriteFails, WriteSucceeds
  <2>3. io_bad' \in {TRUE, io_bad}
    BY DEF WriteFails, WriteSucceeds
  <2> QED BY <2>1, <2>2, <2>3
<1> QED BY <1>1, <1>2, Recorded

LEMMA ReadInFile ==
    ASSUME InFile, NEW p \in Page, NEW b \in Buffer, ReadPage(p, b)
    PROVE  InFile'
<1> PICK s \in Slot : SlotOf(p, s) /\ (ReadPastEnd(s) \/ ReadFails(p, b, s) \/ ReadSucceeds(p, b, s))
  BY DEF ReadPage
<1>1. pages' = Mapped(p, s) \/ UNCHANGED pages
  BY DEF ReadPastEnd, ReadFails, ReadSucceeds
<1>2. slots' \in [Slot -> Content] /\ io_bad' \in BOOLEAN /\ memory' \in [Buffer -> Content]
  BY DEF ReadPastEnd, ReadFails, ReadSucceeds, ReadPage, InFile, DiskTypeOK
<1> QED BY <1>1, <1>2, Recorded

\* A page whose slot is freed.
LEMMA DeleteInFile ==
    ASSUME InFile, NEW p \in Page, DeletePage(p)
    PROVE  InFile'
<1>1. CASE ~Known(p)
  BY <1>1 DEF DeletePage, InFile, DiskTypeOK
<1>2. CASE Known(p)
  <2>1. /\ pages[p] \in Slot /\ free_slots \in Seq(Slot) /\ Len(free_slots) \in Nat
        /\ pages[p] < page_capacity /\ DOMAIN free_slots = 1..Len(free_slots)
    BY <1>2, LenProperties DEF Known, InFile, DiskTypeOK
  <2>2. free_slots' = Append(free_slots, pages[p]) /\ pages' = [q \in DOMAIN pages \ {p} |-> pages[q]]
        /\ UNCHANGED <<page_capacity, slots, io_bad, memory>>
    BY <1>2 DEF DeletePage
  <2>3. /\ free_slots' \in Seq(Slot) /\ Len(free_slots') = Len(free_slots) + 1
        /\ \A i \in 1..Len(free_slots) : free_slots'[i] = free_slots[i]
        /\ free_slots'[Len(free_slots) + 1] = pages[p]
        /\ DOMAIN free_slots' = 1..Len(free_slots')
    BY <2>1, <2>2, AppendProperties, LenProperties
  <2>4. Cardinality(DOMAIN pages \ {p}) = Cardinality(DOMAIN pages) - 1 /\ Cardinality(DOMAIN pages) \in Nat
    BY <1>2, PagesFinite DEF InFile, Known
  <2>5. Cardinality(DOMAIN pages') + Len(free_slots') <= page_capacity'
    BY <2>1, <2>2, <2>3, <2>4 DEF InFile, DiskTypeOK
  <2>6. \A i \in DOMAIN free_slots' : free_slots'[i] < page_capacity
    BY <2>1, <2>3 DEF InFile
  <2>7. /\ DOMAIN pages' \subseteq DOMAIN pages /\ pages' \in [DOMAIN pages' -> Slot]
        /\ \A q \in DOMAIN pages' : pages'[q] < page_capacity
    BY <2>2 DEF InFile, DiskTypeOK
  <2> QED BY <2>2, <2>3, <2>5, <2>6, <2>7 DEF InFile, DiskTypeOK
<1> QED BY <1>1, <1>2

LEMMA DeleteApart ==
    ASSUME InFile, Apart, NEW p \in Page, DeletePage(p)
    PROVE  Apart'
<1>1. CASE ~Known(p)
  BY <1>1 DEF DeletePage, Apart, Free, Taken
<1>2. CASE Known(p)
  <2>1. /\ pages[p] \in Slot /\ free_slots \in Seq(Slot) /\ Len(free_slots) \in Nat
        /\ DOMAIN free_slots = 1..Len(free_slots)
    BY <1>2, LenProperties DEF Known, InFile, DiskTypeOK
  <2>2. free_slots' = Append(free_slots, pages[p]) /\ pages' = [q \in DOMAIN pages \ {p} |-> pages[q]]
    BY <1>2 DEF DeletePage
  <2>3. /\ free_slots' \in Seq(Slot) /\ Len(free_slots') = Len(free_slots) + 1
        /\ \A i \in 1..Len(free_slots) : free_slots'[i] = free_slots[i]
        /\ free_slots'[Len(free_slots) + 1] = pages[p]
        /\ DOMAIN free_slots' = 1..Len(free_slots')
    BY <2>1, <2>2, AppendProperties, LenProperties
  <2>4. DOMAIN free_slots' = DOMAIN free_slots \cup {Len(free_slots) + 1} /\ Len(free_slots) + 1 \notin DOMAIN free_slots
    BY <2>1, <2>3
  <2>5. Cardinality(DOMAIN pages') + Len(free_slots') - 1 = Cardinality(DOMAIN pages) + Len(free_slots) - 1
    <3>1. Cardinality(DOMAIN pages \ {p}) = Cardinality(DOMAIN pages) - 1 /\ Cardinality(DOMAIN pages) \in Nat
      BY <1>2, PagesFinite DEF InFile, Known
    <3> QED BY <2>1, <2>2, <2>3, <3>1
  <2>6. Free' = Free \cup {pages[p]}
    BY <2>1, <2>3, <2>4 DEF Free
  <2>7. Taken' = Taken \ {pages[p]} /\ pages[p] \in Taken
    BY <1>2, <2>2 DEF Taken, Known, Apart
  <2>8. \A i \in DOMAIN free_slots : free_slots[i] # pages[p]
    BY <2>7 DEF Apart, Free
  <2>9. \A i, j \in DOMAIN free_slots' : free_slots'[i] = free_slots'[j] => i = j
    BY <2>1, <2>3, <2>4, <2>8 DEF Apart
  <2>10. \A q, r \in DOMAIN pages' : pages'[q] = pages'[r] => q = r
    BY <2>2 DEF Apart
  <2>11. Free' \cap Taken' = {} /\ Free' \cup Taken' = Free \cup Taken
    BY <2>6, <2>7 DEF Apart
  <2> QED BY <2>5, <2>9, <2>10, <2>11 DEF Apart
<1> QED BY <1>1, <1>2

-----------------------------------------------------------------------------
(* The queue: requests, and Stop at its end, if at all.                    *)

Marked(q)     == q # <<>> /\ q[Len(q)] = Stop
Before(q)     == IF Marked(q) THEN SubSeq(q, 1, Len(q) - 1) ELSE q
WellMarked(q) == q \in Seq(DiskRequest \cup {Stop}) /\ \A i \in 1..Len(q) - 1 : q[i] # Stop

LEMMA UpTo ==
    ASSUME NEW n \in Nat
    PROVE  (\A i \in 1..n : i = n \/ i \in 1..n - 1) /\ (\A i \in 1..n - 1 : i \in 1..n)
  OBVIOUS

LEMMA NoneLeft ==
    ASSUME NEW S, NEW s \in Seq(S), Len(s) = 0
    PROVE  s = <<>>
  BY EmptySeq

LEMMA StopIsNone == ASSUME NEW r \in DiskRequest PROVE r # Stop
<1>1. DOMAIN r = {"write", "page", "buffer"} /\ DOMAIN Stop = {"stop"}
  BY DEF DiskRequest, Stop
<1> QED BY <1>1

LEMMA BeforeType ==
    ASSUME NEW q, WellMarked(q)
    PROVE  /\ Before(q) \in Seq(DiskRequest)
           /\ \A i \in DOMAIN Before(q) : i \in DOMAIN q /\ Before(q)[i] = q[i]
           /\ \A i \in DOMAIN q : q[i] # Stop => i \in DOMAIN Before(q)
<1>1. q \in Seq(DiskRequest \cup {Stop}) /\ Len(q) \in Nat /\ DOMAIN q = 1..Len(q)
      /\ \A i \in 1..Len(q) : q[i] \in DiskRequest \cup {Stop}
  BY LenProperties, ElementOfSeq DEF WellMarked
<1>2. CASE Marked(q)
  <2>1. Len(q) > 0 /\ q[Len(q)] = Stop
    BY <1>1, <1>2, EmptySeq DEF Marked
  <2>2. \A i \in 1..Len(q) - 1 : q[i] \in DiskRequest
    <3> TAKE i \in 1..Len(q) - 1
    <3>1. i \in 1..Len(q) /\ q[i] # Stop
      BY <1>1 DEF WellMarked
    <3> QED BY <1>1, <3>1
  <2>3. /\ SubSeq(q, 1, Len(q) - 1) \in Seq(DiskRequest)
        /\ Len(SubSeq(q, 1, Len(q) - 1)) = Len(q) - 1
        /\ \A i \in 1..Len(q) - 1 : SubSeq(q, 1, Len(q) - 1)[i] = q[i]
    BY <1>1, <2>1, <2>2, SubSeqProperties
  <2>4. Before(q) = SubSeq(q, 1, Len(q) - 1)
    BY <1>2 DEF Before
  <2>5. Before(q) \in Seq(DiskRequest) /\ DOMAIN Before(q) = 1..Len(q) - 1
        /\ \A i \in 1..Len(q) - 1 : Before(q)[i] = q[i]
    BY <2>3, <2>4, LenProperties
  <2>6. \A i \in 1..Len(q) : i = Len(q) \/ i \in 1..Len(q) - 1
    BY <1>1, UpTo
  <2>7. \A i \in 1..Len(q) - 1 : i \in 1..Len(q)
    BY <1>1, UpTo
  <2> QED BY <1>1, <2>1, <2>5, <2>6, <2>7
<1>3. CASE ~Marked(q)
  <2>1. \A i \in 1..Len(q) : q[i] \in DiskRequest
    <3> TAKE i \in 1..Len(q)
    <3>1. q # <<>>
      BY <1>1, EmptySeq
    <3>2. q[Len(q)] # Stop
      BY <1>3, <3>1 DEF Marked
    <3>3. i = Len(q) \/ i \in 1..Len(q) - 1
      BY <1>1, UpTo
    <3> QED BY <1>1, <3>2, <3>3 DEF WellMarked
  <2>2. q \in Seq(DiskRequest)
    BY <1>1, <2>1
  <2> QED BY <1>3, <2>2 DEF Before
<1> QED BY <1>2, <1>3

\* A request is put at the end, or the mark is.
LEMMA BeforeAppend ==
    ASSUME NEW q, WellMarked(q), \A i \in DOMAIN q : q[i] # Stop
    PROVE  /\ \A r \in DiskRequest : WellMarked(Append(q, r)) /\ Before(Append(q, r)) = Append(Before(q), r)
           /\ WellMarked(Append(q, Stop)) /\ Before(Append(q, Stop)) = Before(q)
<1>1. q \in Seq(DiskRequest \cup {Stop}) /\ Len(q) \in Nat /\ DOMAIN q = 1..Len(q)
  BY LenProperties DEF WellMarked
<1>2. ~Marked(q) /\ Before(q) = q
  <2>1. q # <<>> => Len(q) \in DOMAIN q
    BY <1>1, EmptySeq
  <2> QED BY <2>1 DEF Marked, Before
<1>3. ASSUME NEW e \in DiskRequest \cup {Stop}
      PROVE  /\ WellMarked(Append(q, e)) /\ Append(q, e) # <<>>
             /\ Len(Append(q, e)) = Len(q) + 1 /\ Append(q, e)[Len(q) + 1] = e
             /\ \A i \in 1..Len(q) : Append(q, e)[i] = q[i]
  <2>1. /\ Append(q, e) \in Seq(DiskRequest \cup {Stop}) /\ Append(q, e) # <<>>
        /\ Len(Append(q, e)) = Len(q) + 1 /\ Append(q, e)[Len(q) + 1] = e
        /\ \A i \in 1..Len(q) : Append(q, e)[i] = q[i]
    BY <1>1, AppendProperties
  <2>2. \A i \in 1..Len(Append(q, e)) - 1 : Append(q, e)[i] # Stop
    BY <1>1, <2>1
  <2> QED BY <2>1, <2>2 DEF WellMarked
<1>4. ASSUME NEW r \in DiskRequest PROVE WellMarked(Append(q, r)) /\ Before(Append(q, r)) = Append(Before(q), r)
  <2>1. ~Marked(Append(q, r))
    BY <1>3, StopIsNone DEF Marked
  <2> QED BY <1>2, <1>3, <2>1 DEF Before
<1>5. WellMarked(Append(q, Stop)) /\ Before(Append(q, Stop)) = Before(q)
  <2>1. Marked(Append(q, Stop))
    BY <1>3 DEF Marked
  <2>2. Before(Append(q, Stop)) = SubSeq(Append(q, Stop), 1, Len(q))
    BY <1>1, <1>3, <2>1 DEF Before
  <2>3. SubSeq(Append(q, Stop), 1, Len(q)) = q
    <3> DEFINE a == SubSeq(Append(q, Stop), 1, Len(q))
    <3>1. \A i \in 1..Len(q) : Append(q, Stop)[i] \in DiskRequest \cup {Stop}
      BY <1>1, <1>3, ElementOfSeq
    <3>2. a \in Seq(DiskRequest \cup {Stop}) /\ Len(a) = Len(q) /\ \A i \in 1..Len(q) : a[i] = Append(q, Stop)[i]
      BY <1>1, <3>1, SubSeqProperties
    <3> HIDE DEF a
    <3>3. a = q
      BY <1>1, <1>3, <3>2, SeqEqual
    <3> QED BY <3>3 DEF a
  <2> QED BY <1>2, <1>3, <2>2, <2>3
<1> QED BY <1>4, <1>5

\* The first element is taken.
LEMMA BeforeTail ==
    ASSUME NEW q, WellMarked(q), q # <<>>
    PROVE  /\ WellMarked(Tail(q))
           /\ Head(q) = Stop => Tail(q) = <<>> /\ Before(q) = <<>> /\ Before(Tail(q)) = <<>>
           /\ Head(q) # Stop => Head(q) \in DiskRequest /\ Before(q) = <<Head(q)>> \o Before(Tail(q))
<1>1. /\ q \in Seq(DiskRequest \cup {Stop}) /\ Len(q) \in Nat /\ Len(q) > 0 /\ DOMAIN q = 1..Len(q)
      /\ Head(q) = q[1] /\ Head(q) \in DiskRequest \cup {Stop}
      /\ Tail(q) \in Seq(DiskRequest \cup {Stop}) /\ Len(Tail(q)) = Len(q) - 1
      /\ \A i \in 1..Len(q) - 1 : Tail(q)[i] = q[i + 1]
  BY LenProperties, EmptySeq, HeadTailProperties DEF WellMarked
<1>2. WellMarked(Tail(q))
  <2>1. \A i \in 1..Len(Tail(q)) - 1 : i \in 1..Len(q) - 1 /\ i + 1 \in 1..Len(q) - 1
    BY <1>1
  <2> QED BY <1>1, <2>1 DEF WellMarked
<1>3. CASE Head(q) = Stop
  <2>1. Len(q) = 1
    BY <1>1, <1>3 DEF WellMarked
  <2>2. Tail(q) = <<>>
    <3>1. Tail(q) \in Seq(DiskRequest \cup {Stop}) /\ Len(Tail(q)) = 0
      BY <1>1, <2>1
    <3> QED BY <3>1, NoneLeft
  <2>3. Before(q) = SubSeq(q, 1, 0)
    BY <1>1, <1>3, <2>1 DEF Before, Marked
  <2>4. Before(q) = <<>>
    BY <2>3, SubSeqEmpty
  <2> QED BY <1>2, <1>3, <2>2, <2>4 DEF Before, Marked
<1>4. CASE Head(q) # Stop
  <2>1. Head(q) \in DiskRequest
    BY <1>1, <1>4
  <2> DEFINE b == Before(q)
             c == Before(Tail(q))
  <2>2. /\ b \in Seq(DiskRequest) /\ c \in Seq(DiskRequest)
        /\ \A i \in DOMAIN b : i \in DOMAIN q /\ b[i] = q[i]
        /\ \A i \in DOMAIN c : i \in DOMAIN Tail(q) /\ c[i] = Tail(q)[i]
    BY <1>2, BeforeType
  <2>3. Marked(q) <=> Marked(Tail(q))
    <3>1. CASE Len(q) = 1
      <4>1. Tail(q) \in Seq(DiskRequest \cup {Stop}) /\ Len(Tail(q)) = 0 /\ q[Len(q)] = Head(q)
        BY <1>1, <3>1
      <4>2. Tail(q) = <<>>
        BY <4>1, NoneLeft
      <4> QED BY <1>4, <4>1, <4>2 DEF Marked
    <3>2. CASE Len(q) > 1
      <4>1. Tail(q) # <<>> /\ Len(Tail(q)) \in 1..Len(q) - 1 /\ Len(Tail(q)) + 1 = Len(q)
        <5>1. PICK n \in Nat : n = Len(q)
          BY <1>1
        <5>2. Len(Tail(q)) = n - 1 /\ n > 1
          BY <1>1, <3>2, <5>1
        <5>3. Tail(q) # <<>>
          <6>1. Len(Tail(q)) # 0
            BY <5>1, <5>2
          <6>2. Len(<<>>) = 0
            OBVIOUS
          <6>3. Tail(q) = <<>> => Len(Tail(q)) = Len(<<>>)
            OBVIOUS
          <6> QED BY <6>1, <6>2, <6>3
        <5>4. n - 1 \in 1..n - 1 /\ n - 1 + 1 = n
          BY <5>1, <5>2
        <5> QED BY <5>1, <5>2, <5>3, <5>4
      <4>2. Tail(q)[Len(Tail(q))] = q[Len(q)]
        BY <1>1, <4>1
      <4> QED BY <4>1, <4>2 DEF Marked
    <3> QED BY <1>1, <3>1, <3>2
  <2>4. Len(b) = Len(c) + 1 /\ Len(c) \in Nat
    <3>1. CASE Marked(q)
      <4>1. b = SubSeq(q, 1, Len(q) - 1) /\ c = SubSeq(Tail(q), 1, Len(Tail(q)) - 1)
        BY <2>3, <3>1 DEF Before
      <4>2. Len(q) > 1
        BY <1>1, <1>4, <3>1 DEF Marked
      <4> HIDE DEF b, c
      <4>3. Len(b) = Len(q) - 1 /\ Len(c) = Len(Tail(q)) - 1
        BY <1>1, <4>1, <4>2
      <4> QED BY <1>1, <4>2, <4>3
    <3>2. CASE ~Marked(q)
      <4>1. b = q /\ c = Tail(q)
        BY <2>3, <3>2 DEF Before
      <4>2. Len(q) \in Nat /\ Len(q) > 0 /\ Len(Tail(q)) = Len(q) - 1
        BY <1>1
      <4> HIDE DEF b, c
      <4>3. Len(b) = Len(q) /\ Len(c) = Len(Tail(q))
        BY <4>1
      <4> QED BY <4>2, <4>3
    <3> QED BY <3>1, <3>2
  <2>5. b = <<Head(q)>> \o c
    <3> DEFINE d == <<Head(q)>> \o c
    <3> HIDE DEF b, c
    <3>1. <<Head(q)>> \in Seq(DiskRequest) /\ Len(<<Head(q)>>) = 1 /\ <<Head(q)>>[1] = Head(q)
      BY <2>1
    <3>2. /\ d \in Seq(DiskRequest) /\ Len(d) = 1 + Len(c)
          /\ \A i \in 1..1 + Len(c) : d[i] = IF i <= 1 THEN <<Head(q)>>[i] ELSE c[i - 1]
      BY <2>2, <3>1, ConcatProperties
    <3> HIDE DEF d
    <3>3. DOMAIN b = 1..Len(b) /\ DOMAIN c = 1..Len(c)
      BY <2>2, LenProperties
    <3>4. ASSUME NEW i \in 1..Len(b) PROVE b[i] = d[i]
      <4>1. b[i] = q[i] /\ i \in 1..Len(q)
        BY <1>1, <2>2, <3>3
      <4>2. CASE i = 1
        BY <1>1, <2>4, <3>1, <3>2, <4>1, <4>2
      <4>3. CASE i # 1
        <5>1. i - 1 \in DOMAIN c /\ i - 1 \in 1..Len(q) - 1 /\ i - 1 + 1 = i
          BY <1>1, <2>4, <3>3, <4>1, <4>3
        <5>2. c[i - 1] = q[i]
          BY <1>1, <2>2, <5>1
        <5>3. d[i] = c[i - 1]
          BY <2>4, <3>2, <4>3
        <5> QED BY <4>1, <5>2, <5>3
      <4> QED BY <4>2, <4>3
    <3>5. b = d
      BY <2>2, <2>4, <3>2, <3>4, SeqEqual
    <3> QED BY <3>5 DEF d
  <2> QED BY <1>2, <1>4, <2>1, <2>5
<1> QED BY <1>3, <1>4

-----------------------------------------------------------------------------
(* The types, and where the pages are.                                     *)

LEMMA QueuedIsBefore == Queued = Before(queue)
  BY DEF Queued, Before, Marked

LEMMA WorkerKinds ==
    ASSUME TypeOK
    PROVE  /\ worker.step = "got" => worker.request \in DiskRequest
           /\ worker.step = "done" => worker.request \in DiskRequest
           /\ worker = Waiting => worker.step = "waiting"
  BY DEF TypeOK, Waiting, Exited, Holding, Done

LEMMA NothingMarked ==
    ASSUME TypeOK, ~Closing
    PROVE  \A i \in DOMAIN queue : queue[i] # Stop
  BY DEF Closing

LEMMA ClientsKeepTypes ==
    ASSUME TypeOK, InFile,
           \/ \E b \in Buffer, v \in Content : Fill(b, v)
           \/ \E r \in DiskRequest : Schedule(r)
           \/ \E b \in Buffer : Answer(b)
           \/ \E p \in Page : DeallocatePage(p)
           \/ Destroy
    PROVE  TypeOK' /\ InFile'
<1>1. ASSUME NEW b \in Buffer, NEW v \in Content, Fill(b, v) PROVE TypeOK' /\ InFile'
  <2>1. memory' \in [Buffer -> Content]
    BY <1>1 DEF Fill, InFile, DiskTypeOK
  <2> QED BY <1>1, <2>1 DEF Fill, TypeOK, InFile, DiskTypeOK
<1>2. ASSUME NEW r \in DiskRequest, Schedule(r) PROVE TypeOK' /\ InFile'
  <2>1. WellMarked(queue) /\ \A i \in DOMAIN queue : queue[i] # Stop
    BY <1>2, NothingMarked DEF Schedule, TypeOK, WellMarked
  <2>2. WellMarked(queue')
    BY <1>2, <2>1, BeforeAppend DEF Schedule
  <2> QED BY <1>2, <2>2 DEF Schedule, TypeOK, InFile, DiskTypeOK, WellMarked, dvars
<1>3. ASSUME NEW b \in Buffer, Answer(b) PROVE TypeOK' /\ InFile'
  BY <1>3 DEF Answer, TypeOK, InFile, DiskTypeOK, dvars
<1>4. ASSUME NEW p \in Page, DeallocatePage(p) PROVE TypeOK' /\ InFile'
  <2>1. InFile'
    BY <1>4, DeleteInFile DEF DeallocatePage
  <2> QED BY <1>4, <2>1 DEF DeallocatePage, TypeOK, InFile
<1>5. ASSUME Destroy PROVE TypeOK' /\ InFile'
  <2>1. WellMarked(queue) /\ \A i \in DOMAIN queue : queue[i] # Stop
    BY <1>5, NothingMarked DEF Destroy, TypeOK, WellMarked
  <2>2. WellMarked(queue')
    BY <1>5, <2>1, BeforeAppend DEF Destroy
  <2> QED BY <1>5, <2>2 DEF Destroy, TypeOK, InFile, DiskTypeOK, WellMarked, dvars
<1> QED BY <1>1, <1>2, <1>3, <1>4, <1>5

LEMMA WorkerKeepsTypes ==
    ASSUME TypeOK, InFile, Worker
    PROVE  TypeOK' /\ InFile'
<1>1. CASE Get
  <2>1. WellMarked(queue) /\ queue # <<>>
    BY <1>1 DEF Get, TypeOK, WellMarked
  <2>2. WellMarked(queue') /\ worker' \in {Exited} \cup {Holding(r) : r \in DiskRequest}
    BY <1>1, <2>1, BeforeTail DEF Get
  <2> QED BY <1>1, <2>2 DEF Get, TypeOK, InFile, DiskTypeOK, WellMarked, dvars
<1>2. CASE Serve
  <2> DEFINE r == worker.request
  <2>1. r \in DiskRequest /\ r.page \in Page /\ r.buffer \in Buffer
    BY <1>2, WorkerKinds DEF Serve, DiskRequest
  <2>2. WritePage(r.page, r.buffer) \/ ReadPage(r.page, r.buffer)
    BY <1>2 DEF Serve
  <2>3. InFile'
    BY <2>1, <2>2, WriteInFile, ReadInFile
  <2> QED BY <1>2, <2>1, <2>3 DEF Serve, TypeOK, InFile
<1>3. CASE SetValue
  <2>1. worker.request.buffer \in Buffer
    BY <1>3, WorkerKinds DEF SetValue, DiskRequest
  <2> QED BY <1>3, <2>1 DEF SetValue, TypeOK, InFile, DiskTypeOK, dvars
<1> QED BY <1>1, <1>2, <1>3 DEF Worker

LEMMA InFileAtFirst == Init => TypeOK /\ InFile
<1> SUFFICES ASSUME Init PROVE TypeOK /\ InFile
  OBVIOUS
<1>1. Cardinality(Page) \in Nat /\ InitialCapacity \in Nat \ {0} /\ Zero \in Content
  BY CapacityAssumption, FS_CardinalityType
<1>2. pages = <<>> /\ DOMAIN pages = {} /\ Cardinality(DOMAIN pages) = 0
  BY FS_EmptySet DEF Init, DiskInit
<1>3. /\ free_slots = <<>> /\ Len(free_slots) = 0 /\ DOMAIN free_slots = {}
      /\ free_slots \in Seq(Slot) /\ page_capacity = InitialCapacity
      /\ slots = [s \in Slot |-> Zero] /\ io_bad = FALSE /\ memory \in [Buffer -> Content]
  BY DEF Init, DiskInit
<1>4. pages \in [DOMAIN pages -> Slot]
  BY <1>2
<1>5. DiskTypeOK
  BY <1>1, <1>2, <1>3, <1>4 DEF DiskTypeOK
<1>6. queue \in Seq(DiskRequest \cup {Stop}) /\ \A i \in 1..Len(queue) - 1 : queue[i] # Stop
  BY DEF Init
<1> QED BY <1>1, <1>2, <1>3, <1>5, <1>6 DEF TypeOK, InFile, Init

LEMMA TypeStep == ASSUME TypeOK, InFile, [Next]_vars PROVE TypeOK' /\ InFile'
<1>1. CASE Next
  BY <1>1, WorkerKeepsTypes, ClientsKeepTypes DEF Next
<1>2. CASE UNCHANGED vars
  BY <1>2 DEF vars, dvars, TypeOK, InFile, DiskTypeOK
<1> QED BY <1>1, <1>2

LEMMA AlwaysInFile == Spec => [](TypeOK /\ InFile)
<1>1. TypeOK /\ InFile /\ [Next]_vars => (TypeOK /\ InFile)'
  BY TypeStep
<1> QED BY <1>1, InFileAtFirst, PTL DEF Spec

\* The disk manager and the scheduler keep their types, and Stop stays at the
\* end of the queue, whatever the clients, the file and the worker do.
THEOREM SchedulerTypeOK == Spec => []TypeOK
  BY AlwaysInFile, PTL

-----------------------------------------------------------------------------
(* No slot is shared or lost before the first error.                       *)

LEMMA ApartServe ==
    ASSUME SmallFile, InFile, Apart, NEW p \in Page, NEW b \in Buffer, ~io_bad',
           WritePage(p, b) \/ ReadPage(p, b)
    PROVE  \E s \in Slot : SlotOf(p, s) /\ (WriteSucceeds(p, b, s) \/ ReadSucceeds(p, b, s)) /\ Apart'
<1>1. CASE WritePage(p, b)
  <2>1. PICK s \in Slot : SlotOf(p, s) /\ WriteSucceeds(p, b, s)
    BY <1>1 DEF WritePage, WriteFails
  <2>2. pages' = Mapped(p, s)
    BY <2>1 DEF WriteSucceeds
  <2> QED BY <2>1, <2>2, RecordedApart
<1>2. CASE ReadPage(p, b)
  <2>1. PICK s \in Slot : SlotOf(p, s) /\ (ReadPastEnd(s) \/ ReadSucceeds(p, b, s))
    BY <1>2 DEF ReadPage, ReadFails
  <2>2. /\ page_capacity' \in Nat /\ page_capacity' <= InitialCapacity + 2 * Cardinality(Page)
        /\ s < page_capacity'
    BY <2>1, SlotGiven
  <2>6. s \in Nat
    BY DEF Slot
  <2>3. ~PastEnd(s, page_capacity')
    BY <2>2, <2>6, SizeTold
  <2>4. ReadSucceeds(p, b, s)
    BY <2>1, <2>3 DEF ReadPastEnd
  <2>5. pages' = Mapped(p, s)
    BY <2>4 DEF ReadSucceeds
  <2> QED BY <2>1, <2>4, <2>5, RecordedApart
<1> QED BY <1>1, <1>2

LEMMA ApartStep ==
    ASSUME SmallFile, TypeOK, InFile, io_bad \/ Apart, [Next]_vars
    PROVE  io_bad' \/ Apart'
<1>1. CASE UNCHANGED <<pages, free_slots, io_bad>>
  <2>1. pages' = pages /\ free_slots' = free_slots /\ io_bad' = io_bad
    BY <1>1
  <2>2. Apart => Apart'
    BY <2>1 DEF Apart, Free, Taken
  <2> QED BY <2>1, <2>2
<1>2. ASSUME NEW p \in Page, DeallocatePage(p) PROVE io_bad' \/ Apart'
  <2>1. DeletePage(p) /\ io_bad' = io_bad
    BY <1>2 DEF DeallocatePage, DeletePage
  <2> QED BY <2>1, DeleteApart
<1>3. ASSUME Serve PROVE io_bad' \/ Apart'
  <2> DEFINE r == worker.request
  <2>1. r.page \in Page /\ r.buffer \in Buffer
    BY <1>3, WorkerKinds DEF Serve, DiskRequest
  <2>2. WritePage(r.page, r.buffer) \/ ReadPage(r.page, r.buffer)
    BY <1>3 DEF Serve
  <2>3. io_bad => io_bad'
    BY <2>2 DEF WritePage, WriteFails, WriteSucceeds, ReadPage, ReadPastEnd, ReadFails, ReadSucceeds
  <2> QED BY <2>1, <2>2, <2>3, ApartServe
<1>4. ASSUME ~Serve, \A p \in Page : ~DeallocatePage(p) PROVE UNCHANGED <<pages, free_slots, io_bad>>
  BY <1>4 DEF Next, Worker, Get, SetValue, Fill, Schedule, Answer, Destroy, vars, dvars
<1> QED BY <1>1, <1>2, <1>3, <1>4

LEMMA ApartAtFirst == Init => Apart
<1> SUFFICES ASSUME Init PROVE Apart
  OBVIOUS
<1>1. pages = <<>> /\ free_slots = <<>> /\ DOMAIN pages = {} /\ DOMAIN free_slots = {}
      /\ Cardinality(DOMAIN pages) = 0 /\ Len(free_slots) = 0
  BY FS_EmptySet DEF Init, DiskInit
<1> QED BY <1>1 DEF Apart, Free, Taken

LEMMA AlwaysApart == ASSUME SmallFile PROVE Spec => [](TypeOK /\ InFile /\ (io_bad \/ Apart))
<1> DEFINE I == TypeOK /\ InFile /\ (io_bad \/ Apart)
<1>1. Init => I
  BY InFileAtFirst, ApartAtFirst
<1>2. I /\ [Next]_vars => I'
  BY TypeStep, ApartStep
<1> HIDE DEF I
<1>3. Spec => []I
  BY <1>1, <1>2, PTL DEF Spec
<1> QED BY <1>3 DEF I

\* Every page lies in the part of the file that is grown, and before the first
\* I/O error AllocatePage and DeletePage share out the slots, losing none, as
\* long as GetFileSize can tell the size of the file.
THEOREM SchedulerSlotsDistinct == ASSUME SmallFile PROVE Spec => []SlotsDistinct
<1>1. TypeOK /\ InFile /\ (io_bad \/ Apart) => SlotsDistinct
  BY DEF InFile, Apart, Free, Taken, SlotsDistinct
<1> QED BY <1>1, AlwaysApart, PTL

-----------------------------------------------------------------------------
(* The page store: what is there, what is asked for, and what is done.     *)

content  == [p \in Page |-> IF Known(p) THEN slots[pages[p]] ELSE Unknown]
requests == IF worker.step = "got" THEN <<worker.request>> \o Queued ELSE Queued
served   == ready \cup IF worker.step = "done" THEN {worker.request.buffer} ELSE {}

LEMMA FirstOf ==
    ASSUME NEW S, NEW e \in S, NEW s \in Seq(S)
    PROVE  /\ <<e>> \o s \in Seq(S) /\ <<e>> \o s # <<>>
           /\ Head(<<e>> \o s) = e /\ Tail(<<e>> \o s) = s
           /\ Len(<<e>> \o s) = Len(s) + 1 /\ (<<e>> \o s)[1] = e
           /\ \A i \in 1..Len(s) : (<<e>> \o s)[i + 1] = s[i]
           /\ \A r \in S : <<e>> \o Append(s, r) = Append(<<e>> \o s, r)
<1>1. <<e>> \in Seq(S) /\ Len(<<e>>) = 1 /\ <<e>>[1] = e /\ Len(s) \in Nat
  BY LenProperties
<1> DEFINE h == <<e>> \o s
<1>2. /\ h \in Seq(S) /\ Len(h) = 1 + Len(s)
      /\ \A i \in 1..1 + Len(s) : h[i] = IF i <= 1 THEN <<e>>[i] ELSE s[i - 1]
  BY <1>1, ConcatProperties
<1>3. \A r \in S : <<e>> \o Append(s, r) = Append(h, r)
  <2> TAKE r \in S
  <2>1. <<r>> \in Seq(S)
    OBVIOUS
  <2>2. Append(s, r) = s \o <<r>> /\ Append(h, r) = h \o <<r>>
    BY <1>2, AppendIsConcat
  <2> QED BY <1>1, <2>1, <2>2, ConcatAssociative
<1> HIDE DEF h
<1>4. Len(h) = Len(s) + 1 /\ h[1] = e /\ \A i \in 1..Len(s) : h[i + 1] = s[i]
  <2>1. 1 \in 1..1 + Len(s) /\ \A i \in 1..Len(s) : i + 1 \in 1..1 + Len(s) /\ ~(i + 1 <= 1) /\ i + 1 - 1 = i
    BY <1>1
  <2> QED BY <1>1, <1>2, <2>1
<1>5. h # <<>>
  BY <1>1, <1>2, EmptySeq
<1>6. Head(h) = e /\ Tail(h) \in Seq(S) /\ Len(Tail(h)) = Len(s) /\ \A i \in 1..Len(s) : Tail(h)[i] = s[i]
  BY <1>1, <1>2, <1>4, <1>5, HeadTailProperties
<1>7. Tail(h) = s
  BY <1>6, SeqEqual
<1> QED BY <1>2, <1>3, <1>4, <1>5, <1>6, <1>7 DEF h

LEMMA RequestsType ==
    ASSUME TypeOK
    PROVE  /\ requests \in Seq(DiskRequest) /\ Queued \in Seq(DiskRequest) /\ served \subseteq Buffer
           /\ \A i \in DOMAIN requests : requests[i] \in Outstanding
<1>1. WellMarked(queue)
  BY DEF TypeOK, WellMarked
<1>2. /\ Queued \in Seq(DiskRequest)
      /\ \A i \in DOMAIN Queued : i \in DOMAIN queue /\ Queued[i] = queue[i] /\ Queued[i] \in DiskRequest
  <2>1. /\ Before(queue) \in Seq(DiskRequest)
        /\ \A i \in DOMAIN Before(queue) : i \in DOMAIN queue /\ Before(queue)[i] = queue[i]
    BY <1>1, BeforeType
  <2>2. \A i \in DOMAIN Before(queue) : Before(queue)[i] \in DiskRequest
    BY <2>1
  <2> QED BY <2>1, <2>2, QueuedIsBefore
<1>3. \A i \in DOMAIN Queued : Queued[i] \in Outstanding
  BY <1>2, StopIsNone DEF Outstanding
<1>4. served \subseteq Buffer
  BY WorkerKinds DEF served, DiskRequest, TypeOK
<1>5. CASE worker.step = "got"
  <2> DEFINE w == worker.request
  <2>1. w \in DiskRequest /\ w \in Outstanding /\ requests = <<w>> \o Queued
    BY <1>5, WorkerKinds DEF Outstanding, requests
  <2>2. /\ requests \in Seq(DiskRequest) /\ Len(requests) = Len(Queued) + 1 /\ requests[1] = w
        /\ \A i \in 1..Len(Queued) : requests[i + 1] = Queued[i]
    BY <1>2, <2>1, FirstOf
  <2>3. DOMAIN requests = 1..Len(requests) /\ DOMAIN Queued = 1..Len(Queued) /\ Len(Queued) \in Nat
    BY <1>2, <2>2, LenProperties
  <2>4. \A i \in DOMAIN requests : i = 1 \/ (i - 1 \in DOMAIN Queued /\ i - 1 + 1 = i)
    BY <2>2, <2>3
  <2>5. \A i \in DOMAIN requests : requests[i] \in Outstanding
    BY <1>3, <2>1, <2>2, <2>3, <2>4
  <2> QED BY <1>2, <1>4, <2>2, <2>5
<1>6. CASE worker.step # "got"
  BY <1>2, <1>3, <1>4, <1>6 DEF requests
<1> QED BY <1>5, <1>6

\* How each step changes what is asked for and what is done.
LEMMA ScheduleAsks ==
    ASSUME TypeOK, NEW r \in DiskRequest, Schedule(r)
    PROVE  requests' = Append(requests, r) /\ served' = served
<1>1. WellMarked(queue) /\ \A i \in DOMAIN queue : queue[i] # Stop
  BY NothingMarked DEF Schedule, TypeOK, WellMarked
<1>2. queue' = Append(queue, r) /\ worker' = worker /\ ready' = ready
  BY DEF Schedule
<1>3. Queued' = Append(Queued, r)
  <2>1. Before(Append(queue, r)) = Append(Before(queue), r)
    BY <1>1, BeforeAppend
  <2>2. Queued' = Before(Append(queue, r))
    BY <1>2 DEF Queued, Before, Marked
  <2> QED BY <2>1, <2>2, QueuedIsBefore
<1>4. CASE worker.step = "got"
  <2>1. worker.request \in DiskRequest /\ Queued \in Seq(DiskRequest)
    BY <1>4, WorkerKinds, RequestsType
  <2>2. <<worker.request>> \o Append(Queued, r) = Append(<<worker.request>> \o Queued, r)
    BY <2>1, FirstOf
  <2> QED BY <1>2, <1>3, <1>4, <2>2 DEF requests, served
<1>5. CASE worker.step # "got"
  BY <1>2, <1>3, <1>5 DEF requests, served
<1> QED BY <1>4, <1>5

LEMMA DestroyAsks ==
    ASSUME TypeOK, Destroy
    PROVE  requests' = requests /\ served' = served
<1>1. WellMarked(queue) /\ \A i \in DOMAIN queue : queue[i] # Stop
  BY NothingMarked DEF Destroy, TypeOK, WellMarked
<1>2. queue' = Append(queue, Stop) /\ worker' = worker /\ ready' = ready
  BY DEF Destroy
<1>3. Queued' = Queued
  <2>1. Before(Append(queue, Stop)) = Before(queue)
    BY <1>1, BeforeAppend
  <2>2. Queued' = Before(Append(queue, Stop))
    BY <1>2 DEF Queued, Before, Marked
  <2> QED BY <2>1, <2>2, QueuedIsBefore
<1> QED BY <1>2, <1>3 DEF requests, served

LEMMA GetAsks ==
    ASSUME TypeOK, Get
    PROVE  requests' = requests /\ served' = served
<1>1. WellMarked(queue) /\ queue # <<>> /\ worker = Waiting /\ queue' = Tail(queue) /\ ready' = ready
      /\ worker' = IF Head(queue) = Stop THEN Exited ELSE Holding(Head(queue))
  BY DEF Get, TypeOK, WellMarked
<1>2. Queued' = Before(Tail(queue)) /\ requests = Before(queue) /\ served = ready
  BY <1>1, QueuedIsBefore DEF Queued, Before, Marked, requests, served, Waiting
<1>3. CASE Head(queue) = Stop
  <2>1. Before(queue) = <<>> /\ Before(Tail(queue)) = <<>>
    BY <1>1, <1>3, BeforeTail
  <2> QED BY <1>1, <1>2, <1>3, <2>1 DEF requests, served, Exited
<1>4. CASE Head(queue) # Stop
  <2>1. Before(queue) = <<Head(queue)>> \o Before(Tail(queue))
    BY <1>1, <1>4, BeforeTail
  <2> QED BY <1>1, <1>2, <1>4, <2>1 DEF requests, served, Holding
<1> QED BY <1>3, <1>4

LEMMA ServeAsks ==
    ASSUME TypeOK, Serve
    PROVE  /\ requests # <<>> /\ Head(requests) = worker.request /\ requests' = Tail(requests)
           /\ served = ready /\ served' = served \cup {worker.request.buffer}
           /\ Len(requests) \in Nat /\ Len(requests) > 0 /\ requests[1] = worker.request
<1>1. worker.step = "got" /\ worker.request \in DiskRequest /\ Queued \in Seq(DiskRequest)
      /\ worker' = Done(worker.request) /\ queue' = queue /\ ready' = ready
  BY WorkerKinds, RequestsType DEF Serve
<1>2. requests = <<worker.request>> \o Queued /\ requests' = Queued
  <2>1. Queued' = Queued
    BY <1>1 DEF Queued
  <2> QED BY <1>1, <2>1 DEF requests, Done
<1>3. served = ready /\ served' = ready \cup {worker.request.buffer}
  BY <1>1 DEF served, Done
<1>4. Len(Queued) \in Nat
  BY <1>1, LenProperties
<1>5. /\ <<worker.request>> \o Queued # <<>> /\ Head(<<worker.request>> \o Queued) = worker.request
      /\ Tail(<<worker.request>> \o Queued) = Queued
      /\ Len(<<worker.request>> \o Queued) = Len(Queued) + 1 /\ (<<worker.request>> \o Queued)[1] = worker.request
  BY <1>1, FirstOf
<1> QED BY <1>2, <1>3, <1>4, <1>5

LEMMA SetValueAsks ==
    ASSUME TypeOK, SetValue
    PROVE  requests' = requests /\ served' = served
<1>1. worker.step = "done" /\ worker' = Waiting /\ ready' = ready \cup {worker.request.buffer} /\ queue' = queue
  BY DEF SetValue
<1>2. Queued' = Queued
  BY <1>1 DEF Queued
<1> QED BY <1>1, <1>2 DEF requests, served, Waiting

\* A buffer is in one request at most, and that request is done once.
OnceEach ==
    /\ \A i, j \in DOMAIN requests : requests[i].buffer = requests[j].buffer => i = j
    /\ \A i \in DOMAIN requests : requests[i].buffer \notin served
    /\ worker.step = "done" => worker.request.buffer \notin ready

LEMMA StoreBusy ==
    ASSUME TypeOK, NEW b \in Buffer, ~Busy(b)
    PROVE  b \notin served /\ \A i \in DOMAIN requests : requests[i].buffer # b
<1>1. \A i \in DOMAIN requests : requests[i] \in Outstanding
  BY RequestsType
<1>2. b \notin served
  BY DEF Busy, served, Outstanding
<1> QED BY <1>1, <1>2 DEF Busy

LEMMA OnceStep ==
    ASSUME TypeOK, OnceEach, [Next]_vars
    PROVE  OnceEach'
<1>1. requests \in Seq(DiskRequest) /\ Len(requests) \in Nat /\ DOMAIN requests = 1..Len(requests)
  BY RequestsType, LenProperties
<1>2. CASE UNCHANGED <<queue, worker, ready>>
  <2>1. requests' = requests /\ served' = served /\ worker' = worker /\ ready' = ready
    BY <1>2 DEF requests, served, Queued
  <2> QED BY <2>1 DEF OnceEach
<1>3. ASSUME NEW r \in DiskRequest, Schedule(r) PROVE OnceEach'
  <2>1. r.buffer \in Buffer /\ ~Busy(r.buffer) /\ worker' = worker /\ ready' = ready
    BY <1>3 DEF Schedule, DiskRequest
  <2>2. r.buffer \notin served /\ \A i \in DOMAIN requests : requests[i].buffer # r.buffer
    BY <2>1, StoreBusy
  <2>3. requests' = Append(requests, r) /\ served' = served
    BY <1>3, ScheduleAsks
  <2>4. /\ requests' \in Seq(DiskRequest) /\ Len(requests') = Len(requests) + 1
        /\ \A i \in 1..Len(requests) : requests'[i] = requests[i]
        /\ requests'[Len(requests) + 1] = r
    BY <1>1, <2>3, AppendProperties
  <2>5. DOMAIN requests' = 1..Len(requests) + 1
    BY <2>4, LenProperties
  <2>6. \A i \in DOMAIN requests' : i \in DOMAIN requests \/ i = Len(requests) + 1
    BY <1>1, <2>5
  <2>7. /\ \A i \in DOMAIN requests : requests'[i] = requests[i]
        /\ requests'[Len(requests) + 1] = r
    BY <1>1, <2>4
  <2>8. \A i \in DOMAIN requests' : requests'[i].buffer \notin served'
    BY <2>2, <2>3, <2>6, <2>7 DEF OnceEach
  <2>9. \A i, j \in DOMAIN requests' : requests'[i].buffer = requests'[j].buffer => i = j
    BY <2>2, <2>6, <2>7 DEF OnceEach
  <2> QED BY <2>1, <2>8, <2>9 DEF OnceEach
<1>4. ASSUME NEW b \in Buffer, Answer(b) PROVE OnceEach'
  <2>1. queue' = queue /\ worker' = worker /\ ready' = ready \ {b}
    BY <1>4 DEF Answer
  <2>2. requests' = requests /\ served' \subseteq served
    BY <2>1 DEF requests, served, Queued
  <2> QED BY <2>1, <2>2 DEF OnceEach
<1>5. ASSUME Destroy PROVE OnceEach'
  <2>1. requests' = requests /\ served' = served /\ worker' = worker /\ ready' = ready
    BY <1>5, DestroyAsks DEF Destroy
  <2> QED BY <2>1 DEF OnceEach
<1>6. ASSUME Get PROVE OnceEach'
  <2>1. requests' = requests /\ served' = served /\ worker'.step # "done"
    BY <1>6, GetAsks DEF Get, Exited, Holding
  <2> QED BY <2>1 DEF OnceEach
<1>7. ASSUME Serve PROVE OnceEach'
  <2> DEFINE w == worker.request
  <2>1. /\ requests # <<>> /\ requests' = Tail(requests) /\ served = ready /\ served' = served \cup {w.buffer}
        /\ Len(requests) > 0 /\ requests[1] = w /\ worker' = Done(w) /\ ready' = ready
    BY <1>7, ServeAsks DEF Serve
  <2>2. /\ requests' \in Seq(DiskRequest) /\ Len(requests') = Len(requests) - 1
        /\ \A i \in 1..Len(requests') : requests'[i] = requests[i + 1]
    BY <1>1, <2>1, HeadTailProperties
  <2>3. DOMAIN requests' = 1..Len(requests')
    BY <2>2, LenProperties
  <2>4. 1 \in DOMAIN requests /\ \A i \in DOMAIN requests' :
           i + 1 \in DOMAIN requests /\ i + 1 # 1 /\ requests'[i] = requests[i + 1]
    BY <1>1, <2>1, <2>2, <2>3
  <2>5. w.buffer \notin ready
    BY <2>1, <2>4 DEF OnceEach
  <2>6. \A i \in DOMAIN requests' : requests'[i].buffer \notin served'
    BY <2>1, <2>4 DEF OnceEach
  <2>7. \A i, j \in DOMAIN requests' : i \in Nat /\ j \in Nat /\ (i + 1 = j + 1 => i = j)
    BY <2>3
  <2>8. \A i, j \in DOMAIN requests' : requests'[i].buffer = requests'[j].buffer => i = j
    BY <2>4, <2>7 DEF OnceEach
  <2> QED BY <2>1, <2>5, <2>6, <2>8 DEF OnceEach, Done
<1>8. ASSUME SetValue PROVE OnceEach'
  <2>1. requests' = requests /\ served' = served /\ worker'.step # "done"
    BY <1>8, SetValueAsks DEF SetValue, Waiting
  <2> QED BY <2>1 DEF OnceEach
<1>9. ASSUME \/ \E b \in Buffer, v \in Content : Fill(b, v)
             \/ \E p \in Page : DeallocatePage(p)
             \/ UNCHANGED vars
      PROVE  UNCHANGED <<queue, worker, ready>>
  BY <1>9 DEF Fill, DeallocatePage, vars
<1> QED BY <1>2, <1>3, <1>4, <1>5, <1>6, <1>7, <1>8, <1>9 DEF Next, Worker

-----------------------------------------------------------------------------
(* The scheduler over the disk manager is a page store.                    *)

StoreInv == TypeOK /\ InFile /\ (io_bad \/ Apart) /\ OnceEach

LEMMA ContentType ==
    ASSUME DiskTypeOK
    PROVE  /\ content \in [Page -> Content \cup {Unknown}]
           /\ \A p \in Page : Known(p) => pages[p] \in Slot /\ slots[pages[p]] \in Content
  BY DEF content, DiskTypeOK, Known

\* A write puts the bytes of the buffer there, and leaves every other page alone.
LEMMA WriteStores ==
    ASSUME InFile, Apart, NEW p \in Page, NEW b \in Buffer, NEW s \in Slot, SlotOf(p, s), WriteSucceeds(p, b, s)
    PROVE  content' = [content EXCEPT ![p] = memory[b]]
<1>1. s \notin {pages[q] : q \in DOMAIN pages \ {p}}
  BY SlotApart
<1>2. /\ pages' = Mapped(p, s) /\ slots' = [slots EXCEPT ![s] = memory[b]]
      /\ slots \in [Slot -> Content]
  BY DEF WriteSucceeds, InFile, DiskTypeOK
<1>3. /\ DOMAIN pages' = DOMAIN pages \cup {p} /\ pages'[p] = s
      /\ \A q \in DOMAIN pages : q # p => pages'[q] = pages[q]
  BY <1>2 DEF Mapped
<1>4. slots'[s] = memory[b] /\ \A t \in Slot : t # s => slots'[t] = slots[t]
  BY <1>2
<1>5. \A q \in DOMAIN pages : pages[q] \in Slot
  BY DEF InFile, DiskTypeOK
<1>6. ASSUME NEW q \in Page
      PROVE  (IF Known(q)' THEN slots'[pages'[q]] ELSE Unknown) = IF q = p THEN memory[b] ELSE content[q]
  <2>1. CASE q = p
    BY <1>3, <1>4, <2>1 DEF Known
  <2>2. CASE q # p /\ q \in DOMAIN pages
    <3>1. pages[q] # s
      BY <1>1, <2>2
    <3> QED BY <1>3, <1>4, <1>5, <2>2, <3>1 DEF Known, content
  <2>3. CASE q # p /\ q \notin DOMAIN pages
    BY <1>3, <2>3 DEF Known, content
  <2> QED BY <2>1, <2>2, <2>3
<1>7. content' = [q \in Page |-> IF q = p THEN memory[b] ELSE content[q]]
  BY <1>6 DEF content
<1> QED BY <1>7 DEF content

\* A read returns what is there; a page that was unknown is what was read from now on.
LEMMA ReadStores ==
    ASSUME InFile, NEW p \in Page, NEW b \in Buffer, NEW s \in Slot, SlotOf(p, s), ReadSucceeds(p, b, s),
           slots' = slots
    PROVE  /\ content[p] \in {slots[s], Unknown} /\ slots[s] \in Content
           /\ content' = [content EXCEPT ![p] = slots[s]]
           /\ memory' = [memory EXCEPT ![b] = slots[s]]
<1>1. pages' = Mapped(p, s) /\ memory' = [memory EXCEPT ![b] = slots[s]] /\ slots[s] \in Content
  BY DEF ReadSucceeds, InFile, DiskTypeOK
<1>2. content[p] \in {slots[s], Unknown}
  BY DEF content, SlotOf
<1>3. /\ DOMAIN pages' = DOMAIN pages \cup {p} /\ pages'[p] = s
      /\ \A q \in DOMAIN pages : q # p => pages'[q] = pages[q]
  BY <1>1 DEF Mapped
<1>4. ASSUME NEW q \in Page
      PROVE  (IF Known(q)' THEN slots'[pages'[q]] ELSE Unknown) = IF q = p THEN slots[s] ELSE content[q]
  BY <1>3 DEF Known, content
<1>5. content' = [q \in Page |-> IF q = p THEN slots[s] ELSE content[q]]
  BY <1>4 DEF content
<1> QED BY <1>1, <1>2, <1>5 DEF content

LEMMA StoreServe ==
    ASSUME SmallFile, StoreInv, TypeOK', Serve
    PROVE  Store!Serve
<1> DEFINE r == worker.request
<1>1. r \in DiskRequest /\ r.page \in Page /\ r.buffer \in Buffer
  BY WorkerKinds DEF Serve, StoreInv, DiskRequest
<1>2. /\ requests # <<>> /\ Head(requests) = r /\ requests' = Tail(requests)
      /\ served' = served \cup {r.buffer}
  BY ServeAsks DEF StoreInv
<1>3. IF r.write THEN WritePage(r.page, r.buffer) ELSE ReadPage(r.page, r.buffer)
  BY DEF Serve
<1>4. /\ io_bad \in BOOLEAN /\ memory \in [Buffer -> Content] /\ io_bad' \in BOOLEAN
      /\ content' \in [Page -> Content \cup {Unknown}]
  <2>1. content \in [Page -> Content \cup {Unknown}]
    BY ContentType DEF StoreInv, InFile
  <2>2. DiskTypeOK' => content' \in [Page -> Content \cup {Unknown}]
    BY DEF content, DiskTypeOK, Known
  <2> QED BY <2>2 DEF StoreInv, InFile, DiskTypeOK, TypeOK
<1>5. CASE io_bad'
  <2>1. \/ UNCHANGED memory
        \/ ~r.write /\ \E v \in Content : memory' = [memory EXCEPT ![r.buffer] = v]
    <3>1. CASE r.write
      BY <1>3, <3>1 DEF WritePage
    <3>2. CASE ~r.write
      <4>1. PICK s \in Slot : ReadPastEnd(s) \/ ReadFails(r.page, r.buffer, s) \/ ReadSucceeds(r.page, r.buffer, s)
        BY <1>3, <3>2 DEF ReadPage
      <4>2. slots[s] \in Content
        BY DEF StoreInv, InFile, DiskTypeOK
      <4> QED BY <3>2, <4>1, <4>2 DEF ReadPastEnd, ReadFails, ReadSucceeds
    <3> QED BY <3>1, <3>2
  <2>2. io_bad' = TRUE
    BY <1>4, <1>5
  <2> HIDE DEF r
  <2> QED BY <1>2, <1>4, <2>1, <2>2 DEF Store!Serve, Store!Failure, requests, served, content
<1>6. CASE ~io_bad'
  <2>1. ~io_bad
    BY <1>3, <1>6 DEF WritePage, WriteFails, WriteSucceeds, ReadPage, ReadPastEnd, ReadFails, ReadSucceeds
  <2>2. InFile /\ Apart
    BY <2>1 DEF StoreInv
  <2>3. \E v \in Content : Store!Effect(r, v)
    <3>1. CASE r.write
      <4>1. PICK s \in Slot : SlotOf(r.page, s) /\ WriteSucceeds(r.page, r.buffer, s)
        BY <1>3, <1>6, <3>1 DEF WritePage, WriteFails
      <4>2. content' = [content EXCEPT ![r.page] = memory[r.buffer]] /\ UNCHANGED memory
        BY <1>1, <1>3, <2>2, <3>1, <4>1, WriteStores DEF WritePage
      <4>3. Zero \in Content
        BY CapacityAssumption
      <4>4. Store!Effect(r, Zero)
        BY <3>1, <4>2 DEF Store!Effect, content
      <4> QED BY <4>3, <4>4
    <3>2. CASE ~r.write
      <4>1. ReadPage(r.page, r.buffer)
        BY <1>3, <3>2
      <4>2. PICK s \in Slot : SlotOf(r.page, s) /\ ReadSucceeds(r.page, r.buffer, s)
        <5>1. PICK s \in Slot : SlotOf(r.page, s) /\ (ReadPastEnd(s) \/ ReadSucceeds(r.page, r.buffer, s))
          BY <1>6, <4>1 DEF ReadPage, ReadFails
        <5>2. /\ page_capacity' \in Nat /\ page_capacity' <= InitialCapacity + 2 * Cardinality(Page)
              /\ s < page_capacity'
          BY <1>1, <2>2, <5>1, SlotGiven
        <5>3. s \in Nat
          BY DEF Slot
        <5>4. ~PastEnd(s, page_capacity')
          BY <5>2, <5>3, SizeTold
        <5> QED BY <5>1, <5>4 DEF ReadPastEnd
      <4>3. slots' = slots
        BY <4>1 DEF ReadPage
      <4>4. /\ content[r.page] \in {slots[s], Unknown} /\ slots[s] \in Content
            /\ content' = [content EXCEPT ![r.page] = slots[s]]
            /\ memory' = [memory EXCEPT ![r.buffer] = slots[s]]
        BY <1>1, <2>2, <4>2, <4>3, ReadStores
      <4>5. PICK v \in Content : v = slots[s]
        BY <4>4
      <4>6. Store!Effect(r, v)
        BY <3>2, <4>4, <4>5 DEF Store!Effect, content
      <4> QED BY <4>6
    <3> QED BY <3>1, <3>2
  <2>4. io_bad' = io_bad
    BY <1>4, <1>6, <2>1
  <2> QED BY <1>2, <2>1, <2>3, <2>4 DEF Store!Serve, requests, served
<1> QED BY <1>5, <1>6

LEMMA StoreStep ==
    ASSUME SmallFile, StoreInv, TypeOK', [Next]_vars
    PROVE  [Store!Next]_Store!svars
<1>1. CASE UNCHANGED vars
  BY <1>1 DEF vars, dvars, Store!svars, Known, Queued
<1>2. ASSUME NEW b \in Buffer, NEW v \in Content, Fill(b, v) PROVE Store!Next
  <2>1. b \notin served /\ \A i \in DOMAIN requests : requests[i].buffer # b
    BY <1>2, StoreBusy DEF Fill, StoreInv
  <2>2. content' = content /\ requests' = requests /\ served' = served
        /\ io_bad' = io_bad /\ memory' = [memory EXCEPT ![b] = v]
    BY <1>2 DEF Fill, content, requests, served, Known, Queued
  <2>3. Store!Fill(b, v)
    BY <2>1, <2>2 DEF Store!Fill, Store!Busy, content, requests, served
  <2> QED BY <2>3 DEF Store!Next
<1>3. ASSUME NEW r \in DiskRequest, Schedule(r) PROVE Store!Next
  <2>1. r \in Store!Request /\ r.buffer \in Buffer
    BY DEF DiskRequest, Store!Request
  <2>2. r.buffer \notin served /\ \A i \in DOMAIN requests : requests[i].buffer # r.buffer
    BY <1>3, <2>1, StoreBusy DEF Schedule, StoreInv
  <2>3. requests' = Append(requests, r) /\ served' = served
    BY <1>3, ScheduleAsks DEF StoreInv
  <2>4. content' = content /\ io_bad' = io_bad /\ memory' = memory
    BY <1>3 DEF Schedule, dvars, content, Known
  <2>5. Store!Schedule(r)
    BY <2>2, <2>3, <2>4 DEF Store!Schedule, Store!Busy, content, requests, served
  <2> QED BY <2>1, <2>5 DEF Store!Next
<1>4. ASSUME NEW b \in Buffer, Answer(b) PROVE Store!Next
  <2>1. b \in ready /\ ready' = ready \ {b} /\ queue' = queue /\ worker' = worker
        /\ content' = content /\ io_bad' = io_bad /\ memory' = memory
    BY <1>4 DEF Answer, dvars, content, Known
  <2>2. b \in served /\ served' = served \ {b}
    BY <2>1 DEF served, StoreInv, OnceEach
  <2>3. requests' = requests
    BY <2>1 DEF requests, Queued
  <2>4. Store!Answer(b)
    BY <2>1, <2>2, <2>3 DEF Store!Answer, content, requests, served
  <2> QED BY <2>4 DEF Store!Next
<1>5. ASSUME NEW p \in Page, DeallocatePage(p) PROVE Store!Next
  <2>1. \A i \in DOMAIN requests : requests[i].page # p
    BY <1>5, RequestsType DEF DeallocatePage, StoreInv
  <2>2. requests' = requests /\ served' = served
    BY <1>5 DEF DeallocatePage, requests, served, Queued
  <2>3. slots' = slots /\ io_bad' = io_bad /\ memory' = memory
        /\ pages' = [q \in DOMAIN pages \ {p} |-> pages[q]]
    <3>1. DeletePage(p)
      BY <1>5 DEF DeallocatePage
    <3>2. ~Known(p) => pages = [q \in DOMAIN pages \ {p} |-> pages[q]]
      BY DEF Known, StoreInv, InFile, DiskTypeOK
    <3> QED BY <3>1, <3>2 DEF DeletePage
  <2>4. content' = [content EXCEPT ![p] = Unknown]
    BY <2>3 DEF content, Known
  <2>5. content' \in [Page -> Content \cup {Unknown}]
    <3>1. content \in [Page -> Content \cup {Unknown}]
      BY ContentType DEF StoreInv, InFile
    <3> QED BY <2>4, <3>1
  <2>6. Store!Delete(p)
    BY <2>1, <2>2, <2>3, <2>4, <2>5 DEF Store!Delete, content, requests, served
  <2> QED BY <2>6 DEF Store!Next
<1>6. ASSUME Destroy \/ Get \/ SetValue PROVE UNCHANGED Store!svars
  <2>1. requests' = requests /\ served' = served
    BY <1>6, DestroyAsks, GetAsks, SetValueAsks DEF StoreInv
  <2>2. content' = content /\ io_bad' = io_bad /\ memory' = memory
    BY <1>6 DEF Destroy, Get, SetValue, dvars, content, Known
  <2> QED BY <2>1, <2>2 DEF Store!svars, content, requests, served
<1>7. ASSUME Serve PROVE Store!Next
  BY <1>7, StoreServe DEF Store!Next
<1> QED BY <1>1, <1>2, <1>3, <1>4, <1>5, <1>6, <1>7 DEF Next, Worker

LEMMA StoreAtFirst == Init => Store!Init /\ OnceEach
<1> SUFFICES ASSUME Init PROVE Store!Init /\ OnceEach
  OBVIOUS
<1>1. /\ pages = <<>> /\ DOMAIN pages = {} /\ io_bad = FALSE /\ memory \in [Buffer -> Content]
      /\ queue = <<>> /\ worker.step = "waiting" /\ ready = {}
  BY DEF Init, DiskInit, Waiting
<1>2. content = [p \in Page |-> Unknown] /\ requests = <<>> /\ served = {}
  BY <1>1 DEF content, requests, served, Queued, Known
<1>3. Store!Init
  BY <1>1, <1>2 DEF Store!Init, content, requests, served
<1>4. DOMAIN requests = {}
  BY <1>2
<1> QED BY <1>1, <1>3, <1>4 DEF OnceEach

\* DiskManager under the scheduler's queue keeps the promises the buffer pool
\* relies on: each request takes effect once and in order, and what is read is
\* what was written last, whichever slots the pages come to lie in.
THEOREM SchedulerImplementsStore == ASSUME SmallFile PROVE Spec => ImplementsStore
<1>1. Init => Store!Init /\ StoreInv
  BY StoreAtFirst, InFileAtFirst, ApartAtFirst DEF StoreInv
<1>2. StoreInv /\ [Next]_vars => StoreInv' /\ [Store!Next]_Store!svars
  <2> SUFFICES ASSUME StoreInv, [Next]_vars PROVE StoreInv' /\ [Store!Next]_Store!svars
    OBVIOUS
  <2>1. TypeOK' /\ InFile'
    BY TypeStep DEF StoreInv
  <2>2. StoreInv'
    BY <2>1, ApartStep, OnceStep DEF StoreInv
  <2> QED BY <2>1, <2>2, StoreStep
<1>3. Spec => []StoreInv
  BY <1>1, <1>2, PTL DEF Spec
<1> QED BY <1>1, <1>2, <1>3, PTL DEF Spec, ImplementsStore, Store!Spec
=============================================================================
