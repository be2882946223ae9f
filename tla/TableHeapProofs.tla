--------------------------- MODULE TableHeapProofs --------------------------
(***************************************************************************)
(* What holds of TableHeap for every page size, every set of rows and      *)
(* threads, and every number of insertions; in the end, that the heap is a *)
(* log of rows (RowLog).                                                   *)
(***************************************************************************)
EXTENDS TableHeap, TLAPS, SequenceTheorems, WellFoundedInduction

-----------------------------------------------------------------------------
(* The inductive invariant.                                                 *)

Slot    == [offset : 0..(OffsetMod - 1), size : 0..(OffsetMod - 1), row : Row]
Page    == [next : Nat, slots : Seq(Slot)]
RidType == [page : Nat, slot : Nat]

StateOK(s) ==
    /\ s.do = "latched" => s \in [do : {"latched"}, tuple : Tuple]
    /\ s.do = "placing" => s \in [do : {"placing"}, tuple : Tuple, page : DOMAIN pages]
    /\ s.do = "leaving" => s \in [do : {"leaving"}, page : DOMAIN pages]
    /\ s.do = "bound" => s.last \in DOMAIN pages
    /\ s.do = "open" => s.stop \in SUBSET RidType
    /\ s.do = "at" => /\ s \in [do : {"at"}, rid : RidType, stop : SUBSET RidType, got : SUBSET Row]
                      /\ s.rid.page \in DOMAIN pages

Typed ==
    /\ pages \in Seq(Page) /\ Len(pages) >= 1
    /\ at = [t \in Thread |-> at[t]]
    /\ \A t \in Thread : StateOK(at[t])
    /\ \A t \in Scanner : at[t].do \notin {"latched", "placing", "leaving"}
    /\ \A t \in Writer : at[t].do \notin {"bound", "open", "at"}
    /\ terminated \in BOOLEAN

Linked ==
    /\ last_page_id = Len(pages)
    /\ \A p \in DOMAIN pages : pages[p].next = IF p = Len(pages) THEN NoPage ELSE p + 1

Sized == \A p \in DOMAIN pages : \A i \in DOMAIN pages[p].slots :
            pages[p].slots[i].size = Length(pages[p].slots[i].row.tuple) % OffsetMod

\* One thread inserts at a time, at the end of the table; a page has one holder.
Holds(t) == at[t].do \in {"placing", "leaving"}

Exclusive ==
    /\ \A t, u \in Writer : Inserting(t) /\ Inserting(u) => t = u
    /\ \A t, u \in Writer : Holds(t) /\ Holds(u) /\ at[t].page = at[u].page => t = u
    /\ \A t \in Writer : at[t].do = "placing" => at[t].page = Len(pages)

\* Only the page that an insertion has just added is empty, but for the first.
Filled ==
    \A p \in DOMAIN pages : p # 1 /\ pages[p].slots = <<>> =>
       \E t \in Writer : at[t].do = "placing" /\ at[t].page = p

\* An iterator is at a row, or at the start of such a page.
AtRow ==
    \A t \in Scanner : at[t].do = "at" =>
       \/ Exists(at[t].rid)
       \/ at[t].rid.slot = 0 /\ at[t].rid.page # 1 /\ pages[at[t].rid.page].slots = <<>>

HeapInv == Typed /\ Linked /\ Sized /\ Exclusive /\ Filled /\ AtRow

-----------------------------------------------------------------------------

\* The invariant implies the types, and that an iterator reads rows there are.
LEMMA HeapInvImplies == HeapInv => TypeOK /\ IteratorAtRow
<1> SUFFICES ASSUME HeapInv PROVE TypeOK /\ IteratorAtRow
  OBVIOUS
<1> USE DEF HeapInv, Typed
<1>1. \A p \in DOMAIN pages : pages[p] \in Page
  OBVIOUS
<1>2. ASSUME NEW p \in DOMAIN pages, NEW i \in DOMAIN pages[p].slots
      PROVE pages[p].slots[i] \in Slot
  <2>1. pages[p].slots \in Seq(Slot)
    BY <1>1 DEF Page
  <2> QED BY <2>1
<1>3. TypeOK
  <2>1. \A p \in DOMAIN pages : pages[p].next = IF p = Len(pages) THEN NoPage ELSE p + 1
    BY DEF Linked
  <2>2. ASSUME NEW p \in DOMAIN pages, NEW i \in DOMAIN pages[p].slots
        PROVE  LET slot == pages[p].slots[i] IN
               /\ slot.offset \in 0..(OffsetMod - 1) /\ slot.size = Length(slot.row.tuple) % OffsetMod
               /\ slot.row \in Row
    BY <1>2 DEF Sized, Slot
  <2>3. \A t \in Thread : at[t].do \in {"placing", "leaving"} => at[t].page \in DOMAIN pages
    BY DEF StateOK
  <2> QED BY <2>1, <2>2, <2>3 DEF TypeOK, Linked
<1>4. IteratorAtRow
  BY DEF IteratorAtRow, AtRow, Filled, Free, Thread, StateOK
<1> QED BY <1>3, <1>4

\* Initially.
LEMMA HeapInvInit == Init => HeapInv
<1> SUFFICES ASSUME Init PROVE HeapInv
  OBVIOUS
<1> USE DEF Init
<1>1. pages \in Seq(Page) /\ Len(pages) = 1 /\ DOMAIN pages = {1} /\ pages[1] = NewTablePage
  BY DEF NewTablePage, Page, NoPage
<1>2. \A t \in Thread : at[t].do = "idle"
  BY DEF Idle
<1>3. Typed
  <2>1. at = [t \in Thread |-> at[t]]
    OBVIOUS
  <2>2. \A t \in Thread : StateOK(at[t])
    BY <1>2 DEF StateOK
  <2>3. /\ \A t \in Scanner : at[t].do \notin {"latched", "placing", "leaving"}
        /\ \A t \in Writer : at[t].do \notin {"bound", "open", "at"}
    BY <1>2 DEF Thread
  <2>4. pages \in Seq(Page) /\ Len(pages) >= 1
    BY <1>1
  <2>5. terminated \in BOOLEAN
    OBVIOUS
  <2> QED BY <2>1, <2>2, <2>3, <2>4, <2>5 DEF Typed
<1>4. Linked /\ Sized
  BY <1>1 DEF Linked, Sized, NewTablePage
<1>5. Exclusive /\ Filled /\ AtRow
  BY <1>1, <1>2 DEF Exclusive, Filled, AtRow, Inserting, Holds, Thread
<1> QED BY <1>3, <1>4, <1>5 DEF HeapInv

-----------------------------------------------------------------------------
(* Steps that change no page.                                               *)

\* A thread that moves to a state that holds and inserts nothing new.
LEMMA ThreadMoves ==
    ASSUME HeapInv, NEW t \in Thread, NEW s, Do(t, s), UNCHANGED <<pages, last_page_id>>,
           terminated' \in BOOLEAN, StateOK(s),
           t \in Scanner => s.do \notin {"latched", "placing", "leaving"},
           t \in Writer => s.do \notin {"bound", "open", "at", "placing"},
           s.do = "latched" => LatchFree,
           s.do = "leaving" => FALSE,
           at[t].do # "placing",
           s.do = "at" => \/ Exists(s.rid)
                          \/ s.rid.slot = 0 /\ s.rid.page # 1 /\ pages[s.rid.page].slots = <<>>
    PROVE  HeapInv'
<1> USE DEF HeapInv
<1>1. at' = [u \in Thread |-> IF u = t THEN s ELSE at[u]]
  BY DEF Typed, Do
<1>2. \A u \in Thread : at'[u] = IF u = t THEN s ELSE at[u]
  BY <1>1
<1>3. \A x : StateOK(x) <=> StateOK(x)'
  BY DEF StateOK
<1>4. Typed'
  BY <1>1, <1>2, <1>3 DEF Typed, Thread, StateOK
<1>5. Linked' /\ Sized'
  BY DEF Linked, Sized
<1>6. Exclusive'
  BY <1>2 DEF Exclusive, Inserting, Holds, LatchFree, Thread
<1>7. Filled'
  BY <1>2 DEF Filled, Thread
<1>8. AtRow'
  BY <1>2 DEF AtRow, Exists, Thread
<1> QED BY <1>4, <1>5, <1>6, <1>7, <1>8

LEMMA StartInsertStep == ASSUME HeapInv, NEW t \in Writer, StartInsert(t) PROVE HeapInv'
<1> PICK v \in Tuple : Do(t, [do |-> "latched", tuple |-> v])
  BY DEF StartInsert
<1> DEFINE s == [do |-> "latched", tuple |-> v]
<1>1. StateOK(s)
  BY DEF StateOK
<1>2. terminated' \in BOOLEAN
  BY DEF StartInsert, HeapInv, Typed
<1>3. t \in Thread /\ t \notin Scanner /\ at[t].do # "placing"
  BY HeapBounds DEF StartInsert, Idle, Thread
<1> QED BY <1>1, <1>2, <1>3, ThreadMoves DEF StartInsert

LEMMA LeaveStep == ASSUME HeapInv, NEW t \in Writer, Leave(t) PROVE HeapInv'
<1>1. StateOK(Idle) /\ Idle.do = "idle"
  BY DEF StateOK, Idle
<1>2. terminated' \in BOOLEAN
  BY DEF Leave, HeapInv, Typed
<1>3. t \in Thread /\ at[t].do # "placing"
  BY DEF Leave, Thread
<1> QED BY <1>1, <1>2, <1>3, ThreadMoves DEF Leave

LEMMA MakeIteratorStep == ASSUME HeapInv, NEW t \in Scanner, MakeIterator(t) PROVE HeapInv'
<1> DEFINE s == [do |-> "bound", last |-> last_page_id, rows |-> Len(Rows)]
<1>1. StateOK(s)
  BY DEF StateOK, HeapInv, Typed, Linked
<1>2. terminated' \in BOOLEAN
  BY DEF MakeIterator, HeapInv, Typed
<1>3. t \in Thread /\ t \notin Writer /\ at[t].do # "placing" /\ Do(t, s)
  BY HeapBounds DEF MakeIterator, Idle, Thread
<1> QED BY <1>1, <1>2, <1>3, ThreadMoves DEF MakeIterator

LEMMA MakeEagerIteratorStep ==
    ASSUME HeapInv, NEW t \in Scanner, MakeEagerIterator(t) PROVE HeapInv'
<1> DEFINE s == [do |-> "open", stop |-> {}]
<1>1. StateOK(s)
  BY DEF StateOK
<1>2. terminated' \in BOOLEAN
  BY DEF MakeEagerIterator, HeapInv, Typed
<1>3. t \in Thread /\ t \notin Writer /\ at[t].do # "placing" /\ Do(t, s)
  BY HeapBounds DEF MakeEagerIterator, Idle, Thread
<1> QED BY <1>1, <1>2, <1>3, ThreadMoves DEF MakeEagerIterator

LEMMA PageTyped ==
    ASSUME HeapInv, NEW p \in DOMAIN pages
    PROVE  pages[p] \in Page /\ Len(pages[p].slots) \in Nat
<1>1. pages[p] \in Page
  BY DEF HeapInv, Typed
<1> QED BY <1>1 DEF Page

LEMMA BoundStep == ASSUME HeapInv, NEW t \in Scanner, Bound(t) PROVE HeapInv'
<1> DEFINE stop == {[page |-> at[t].last, slot |-> Len(pages[at[t].last].slots)]}
           s == [do |-> "open", stop |-> stop]
<1>1. t \in Thread /\ t \notin Writer /\ at[t].do # "placing" /\ Do(t, s)
  BY HeapBounds DEF Bound, Thread
<1>2. at[t].last \in DOMAIN pages
  BY <1>1 DEF Bound, HeapInv, Typed, StateOK
<1>3. at[t].last \in Nat
  BY <1>2 DEF HeapInv, Typed
<1>4. Len(pages[at[t].last].slots) \in Nat
  BY <1>2, PageTyped
<1>5. StateOK(s)
  BY <1>3, <1>4 DEF StateOK, RidType
<1>6. terminated' \in BOOLEAN
  BY DEF Bound, HeapInv, Typed
<1> QED BY <1>1, <1>5, <1>6, ThreadMoves DEF Bound

LEMMA OpenStep == ASSUME HeapInv, NEW t \in Scanner, Open(t) PROVE HeapInv'
<1> DEFINE s == IF Exists(First) THEN At(First, at[t].stop) ELSE Idle
<1>1. t \in Thread /\ t \notin Writer /\ at[t].do # "placing" /\ Do(t, s)
  BY HeapBounds DEF Open, Thread
<1>2. terminated' \in BOOLEAN
  BY DEF Open, HeapInv, Typed
<1>3. CASE Exists(First)
  <2>1. at[t].stop \in SUBSET RidType
    BY <1>1 DEF Open, HeapInv, Typed, StateOK
  <2>2. StateOK(s) /\ s.do = "at" /\ s.rid = First
    BY <1>3, <2>1 DEF StateOK, At, First, RidType, HeapInv, Typed
  <2> QED BY <1>1, <1>2, <1>3, <2>2, ThreadMoves DEF Open
<1>4. CASE ~Exists(First)
  <2>1. StateOK(s) /\ s.do = "idle"
    BY <1>4 DEF StateOK, Idle
  <2> QED BY <1>1, <1>2, <2>1, ThreadMoves DEF Open
<1> QED BY <1>3, <1>4

LEMMA ReadStep == ASSUME HeapInv, NEW t \in Scanner, Read(t) PROVE HeapInv'
<1> DEFINE s == [at[t] EXCEPT !.got = {SlotAt(at[t].rid).row}]
<1>1. t \in Thread /\ t \notin Writer /\ at[t].do # "placing" /\ Do(t, s)
  BY HeapBounds DEF Read, Thread, Do
<1>2. terminated' \in BOOLEAN
  BY DEF Read, HeapInv, Typed
<1>3. /\ at[t] \in [do : {"at"}, rid : RidType, stop : SUBSET RidType, got : SUBSET Row]
      /\ at[t].rid.page \in DOMAIN pages
  BY <1>1 DEF Read, HeapInv, Typed, StateOK
<1>4. SlotAt(at[t].rid).row \in Row
  <2>1. pages[at[t].rid.page].slots \in Seq(Slot)
    BY <1>3, PageTyped DEF Page
  <2>2. at[t].rid.slot + 1 \in 1..Len(pages[at[t].rid.page].slots)
    BY <1>3, <2>1 DEF Read, Exists, RidType
  <2>3. SlotAt(at[t].rid) \in Slot
    BY <2>1, <2>2 DEF SlotAt
  <2> QED BY <2>3 DEF Slot
<1>5. StateOK(s) /\ s.do = "at" /\ s.rid = at[t].rid
  BY <1>3, <1>4 DEF StateOK
<1> QED BY <1>1, <1>2, <1>5, ThreadMoves DEF Read

LEMMA AdvanceStep == ASSUME HeapInv, NEW t \in Scanner, Advance(t) PROVE HeapInv'
<1> DEFINE rid == at[t].rid
           next == Following(rid)
           stops == [rid EXCEPT !.slot = @ + 1] \in at[t].stop \/ next.page = NoPage
           s == IF stops THEN Idle ELSE At(next, at[t].stop)
<1>1. t \in Thread /\ t \notin Writer /\ at[t].do # "placing" /\ Do(t, s)
  BY HeapBounds DEF Advance, Thread
<1>2. terminated' \in BOOLEAN
  BY DEF Advance
<1>3. /\ at[t] \in [do : {"at"}, rid : RidType, stop : SUBSET RidType, got : SUBSET Row]
      /\ rid.page \in DOMAIN pages
  BY <1>1 DEF Advance, HeapInv, Typed, StateOK
<1>4. CASE stops
  <2>1. StateOK(s) /\ s.do = "idle"
    BY <1>4 DEF StateOK, Idle
  <2> QED BY <1>1, <1>2, <2>1, ThreadMoves DEF Advance
<1>5. CASE ~stops
  <2>1. /\ next \in RidType /\ next.page \in DOMAIN pages
        /\ \/ Exists(next)
           \/ next.slot = 0 /\ next.page # 1 /\ pages[next.page].slots = <<>>
    <3> DEFINE here == [rid EXCEPT !.slot = @ + 1]
    <3>1. here \in RidType /\ here.page = rid.page
      BY <1>3 DEF RidType
    <3>2. CASE Exists(here)
      BY <3>1, <3>2, <1>3 DEF Following
    <3>3. CASE ~Exists(here)
      <4>1. next = [page |-> pages[rid.page].next, slot |-> 0]
        BY <3>3 DEF Following
      <4>2. next.page = rid.page + 1 /\ rid.page # Len(pages) /\ rid.page \in 1..Len(pages)
        BY <4>1, <1>3, <1>5 DEF HeapInv, Linked, Typed
      <4>3. next \in RidType /\ next.page \in DOMAIN pages /\ next.page # 1 /\ next.slot = 0
        BY <4>1, <4>2 DEF HeapInv, Typed, RidType
      <4>4. pages[next.page].slots \in Seq(Slot)
        BY <4>3, PageTyped DEF Page
      <4>5. Len(pages[next.page].slots) > 0 \/ pages[next.page].slots = <<>>
        BY <4>4
      <4> QED BY <4>3, <4>4, <4>5 DEF Exists
    <3> QED BY <3>2, <3>3
  <2>2. s = At(next, at[t].stop)
    BY <1>5
  <2>3. s \in [do : {"at"}, rid : RidType, stop : SUBSET RidType, got : SUBSET Row]
    BY <2>1, <2>2, <1>3 DEF At
  <2>4. StateOK(s) /\ s.do = "at" /\ s.rid = next
    BY <2>1, <2>2, <2>3 DEF StateOK, At
  <2> HIDE DEF next, s, stops
  <2> QED BY <1>1, <1>2, <2>1, <2>4, ThreadMoves DEF Advance
<1> QED BY <1>4, <1>5

-----------------------------------------------------------------------------
(* Steps of the holder of latch_.                                           *)

LEMMA TakeLastPageStep == ASSUME HeapInv, NEW t \in Writer, TakeLastPage(t) PROVE HeapInv'
<1> DEFINE s == [do |-> "placing", tuple |-> at[t].tuple, page |-> last_page_id]
<1> USE DEF HeapInv
<1>1. t \in Thread /\ t \notin Scanner
  BY HeapBounds DEF Thread
<1>2. /\ at' = [u \in Thread |-> IF u = t THEN s ELSE at[u]]
      /\ \A u \in Thread : at'[u] = IF u = t THEN s ELSE at[u]
  BY <1>1 DEF TakeLastPage, Do, Typed
<1>3. UNCHANGED <<pages, last_page_id, terminated>>
  BY DEF TakeLastPage
<1>4. last_page_id = Len(pages) /\ last_page_id \in DOMAIN pages
  BY DEF Linked, Typed
<1>5. at[t].tuple \in Tuple
  BY <1>1 DEF TakeLastPage, Typed, StateOK
<1>6. \A x : StateOK(x) <=> StateOK(x)'
  BY <1>3 DEF StateOK
<1>7. StateOK(s)
  BY <1>4, <1>5 DEF StateOK
<1>8. Typed'
  <2>1. \A u \in Thread : StateOK(at[u])'
    BY <1>2, <1>6, <1>7 DEF Typed
  <2>2. \A u \in Scanner : at'[u].do \notin {"latched", "placing", "leaving"}
    BY <1>1, <1>2 DEF Typed, Thread
  <2>3. \A u \in Writer : at'[u].do \notin {"bound", "open", "at"}
    BY <1>1, <1>2 DEF Typed, Thread
  <2>4. at' = [u \in Thread |-> at'[u]]
    BY <1>2
  <2> QED BY <2>1, <2>2, <2>3, <2>4, <1>3 DEF Typed
<1>9. Exclusive'
  BY <1>1, <1>2, <1>3, <1>4 DEF Exclusive, Inserting, Holds, TakeLastPage, Free, Thread
<1>10. Filled' /\ AtRow'
  BY <1>1, <1>2, <1>3 DEF Filled, AtRow, Exists, Thread, TakeLastPage
<1>11. Linked' /\ Sized'
  BY <1>3 DEF Linked, Sized
<1> QED BY <1>8, <1>9, <1>10, <1>11

LEMMA TooLargeStep == ASSUME HeapInv, NEW t \in Writer, TooLarge(t) PROVE HeapInv'
<1>1. UNCHANGED <<pages, last_page_id, at>> /\ terminated' \in BOOLEAN
  BY DEF TooLarge
<1>2. \A x : StateOK(x) <=> StateOK(x)'
  BY <1>1 DEF StateOK
<1>3. Typed'
  BY <1>1, <1>2 DEF Typed, HeapInv
<1> QED
  BY <1>1, <1>3 DEF HeapInv, Linked, Sized, Exclusive, Filled, AtRow, Inserting, Holds, Exists

\* What the holder of latch_ knows.
LEMMA Placing ==
    ASSUME HeapInv, NEW t \in Writer, at[t].do = "placing"
    PROVE  /\ t \in Thread /\ t \notin Scanner
           /\ at[t] \in [do : {"placing"}, tuple : Tuple, page : DOMAIN pages]
           /\ at[t].page = Len(pages)
           /\ Len(pages) \in Nat \ {0}
           /\ \A u \in Writer \ {t} : ~Inserting(u) /\ ~(Holds(u) /\ at[u].page = Len(pages))
<1>1. t \in Thread /\ t \notin Scanner
  BY HeapBounds DEF Thread
<1> QED BY <1>1, SMTT(30) DEF HeapInv, Typed, Exclusive, StateOK, Inserting, Holds

\* A page is added.
LEMMA GrowPages ==
    ASSUME HeapInv, NEW t \in Writer, Grow(t)
    PROVE  LET n == Len(pages) new == n + 1 IN
           /\ pages' \in Seq(Page) /\ Len(pages') = new /\ DOMAIN pages' = 1..new /\ DOMAIN pages = 1..n
           /\ n \in Nat \ {0}
           /\ \A p \in 1..n : pages'[p].slots = pages[p].slots
           /\ \A p \in 1..n : pages'[p].next = IF p = n THEN new ELSE pages[p].next
           /\ pages'[new].slots = <<>> /\ pages'[new].next = 0
           /\ pages[n].slots # <<>>
<1> DEFINE n == Len(pages)
           new == n + 1
<1> USE DEF HeapInv
<1>1. /\ t \in Thread /\ t \notin Scanner
      /\ at[t] \in [do : {"placing"}, tuple : Tuple, page : DOMAIN pages]
      /\ at[t].page = n /\ n \in Nat \ {0}
      /\ \A u \in Writer \ {t} : ~Inserting(u)
  BY Placing DEF Grow
<1>3. /\ pages' = Append([pages EXCEPT ![n].next = new], NewTablePage)
      /\ last_page_id' = new /\ UNCHANGED terminated
      /\ pages[n].slots # <<>>
  BY <1>1 DEF Grow
<1>4. NewTablePage \in Page
  BY DEF NewTablePage, Page, NoPage
<1>5. pages[n] \in Page /\ n \in DOMAIN pages /\ [pages[n] EXCEPT !.next = new] \in Page
  <2>1. n \in DOMAIN pages
    BY <1>1 DEF Typed
  <2> QED BY <2>1, <1>1, PageTyped DEF Page
<1>6. /\ [pages EXCEPT ![n].next = new] \in Seq(Page)
      /\ Len([pages EXCEPT ![n].next = new]) = n
  BY <1>1, <1>5 DEF Typed
<1> DEFINE linked == [pages EXCEPT ![n].next = new]
<1>7. /\ pages' \in Seq(Page) /\ Len(pages') = new /\ DOMAIN pages' = 1..new /\ DOMAIN pages = 1..n
      /\ pages'[new] = NewTablePage
      /\ \A p \in 1..n : pages'[p] = IF p = n THEN [pages[n] EXCEPT !.next = new] ELSE pages[p]
  <2>1. DOMAIN pages = 1..n
    BY DEF Typed
  <2>2. \A p \in 1..n : linked[p] = IF p = n THEN [pages[n] EXCEPT !.next = new] ELSE pages[p]
    BY <2>1
  <2>3. linked \in Seq(Page) /\ Len(linked) = n /\ pages' = Append(linked, NewTablePage)
    BY <1>3, <1>6
  <2> HIDE DEF linked
  <2>4. pages' \in Seq(Page) /\ Len(pages') = n + 1 /\ pages'[n + 1] = NewTablePage
    BY <1>1, <1>4, <2>3
  <2>5. \A p \in 1..n : pages'[p] = linked[p]
    BY <1>1, <1>4, <2>3
  <2>6. DOMAIN pages' = 1..(n + 1)
    BY <2>4
  <2> QED BY <2>1, <2>2, <2>4, <2>5, <2>6
<1>8. /\ \A p \in 1..n : pages'[p].slots = pages[p].slots
      /\ \A p \in 1..n : pages'[p].next = IF p = n THEN new ELSE pages[p].next
      /\ pages'[new].slots = <<>> /\ pages'[new].next = 0
  <2>1. pages[n].slots = [pages[n] EXCEPT !.next = new].slots /\ [pages[n] EXCEPT !.next = new].next = new
    BY <1>5 DEF Page
  <2>2. NewTablePage.slots = <<>> /\ NewTablePage.next = 0
    BY DEF NewTablePage, NoPage
  <2> HIDE DEF new
  <2> QED BY <1>7, <2>1, <2>2
<1> QED BY <1>1, <1>3, <1>7, <1>8

LEMMA GrowStep == ASSUME HeapInv, NEW t \in Writer, Grow(t) PROVE HeapInv'
<1> DEFINE n == Len(pages)
           new == n + 1
           s == [at[t] EXCEPT !.page = new]
<1> USE DEF HeapInv
<1>1. /\ t \in Thread /\ t \notin Scanner
      /\ at[t] \in [do : {"placing"}, tuple : Tuple, page : DOMAIN pages]
      /\ at[t].page = n /\ n \in Nat \ {0}
      /\ \A u \in Writer \ {t} : ~Inserting(u)
  BY Placing DEF Grow
<1>2. /\ at' = [u \in Thread |-> IF u = t THEN s ELSE at[u]]
      /\ \A u \in Thread : at'[u] = IF u = t THEN s ELSE at[u]
  BY <1>1 DEF Grow, Typed
<1>3. last_page_id' = new /\ UNCHANGED terminated
  BY <1>1 DEF Grow
<1>7. /\ pages' \in Seq(Page) /\ Len(pages') = new /\ DOMAIN pages' = 1..new /\ DOMAIN pages = 1..n
      /\ pages[n].slots # <<>>
  BY GrowPages
<1>8. /\ \A p \in 1..n : pages'[p].slots = pages[p].slots
      /\ \A p \in 1..n : pages'[p].next = IF p = n THEN new ELSE pages[p].next
      /\ pages'[new].slots = <<>> /\ pages'[new].next = 0
  BY GrowPages
<1> HIDE DEF s
<1>9. s \in [do : {"placing"}, tuple : Tuple, page : 1..new] /\ s.page = new /\ s.do = "placing"
  BY <1>1 DEF s
<1>10. Typed'
  <2>1. ASSUME NEW u \in Thread PROVE StateOK(at[u])'
    <3>1. CASE u = t
      BY <3>1, <1>2, <1>7, <1>9 DEF StateOK
    <3>2. CASE u # t
      <4>1. at'[u] = at[u] /\ StateOK(at[u])
        BY <3>2, <1>2 DEF Typed
      <4>2. DOMAIN pages \subseteq DOMAIN pages'
        BY <1>1, <1>7
      <4> QED BY <4>1, <4>2 DEF StateOK
    <3> QED BY <3>1, <3>2
  <2>2. \A u \in Scanner : at'[u].do \notin {"latched", "placing", "leaving"}
    BY <1>1, <1>2 DEF Typed, Thread
  <2>3. \A u \in Writer : at'[u].do \notin {"bound", "open", "at"}
    BY <1>1, <1>2, <1>9 DEF Typed, Thread
  <2>4. at' = [u \in Thread |-> at'[u]]
    BY <1>2
  <2>5. Len(pages') >= 1
    BY <1>1, <1>7
  <2> QED BY <2>1, <2>2, <2>3, <2>4, <2>5, <1>3, <1>7 DEF Typed
<1>11. Linked'
  BY <1>1, <1>3, <1>7, <1>8 DEF Linked, NoPage
<1>12. Sized'
  <2>1. DOMAIN pages'[new].slots = {}
    BY <1>8
  <2>2. \A p \in 1..n : p \in DOMAIN pages /\ pages'[p].slots = pages[p].slots
    BY <1>7, <1>8
  <2> HIDE DEF n
  <2> QED BY <2>1, <2>2, <1>1, <1>7 DEF Sized
<1>13. Exclusive'
  <2>1. \A u \in Writer : Holds(u) => at[u].page \in 1..n
    BY <1>7 DEF Typed, Holds, StateOK, Thread
  <2> QED BY <1>1, <1>2, <1>7, <1>9, <2>1 DEF Exclusive, Inserting, Holds, Thread
<1>14. Filled'
  <2> SUFFICES ASSUME NEW p \in 1..new, p # 1, pages'[p].slots = <<>>
               PROVE  \E u \in Writer : at'[u].do = "placing" /\ at'[u].page = p
    BY <1>7 DEF Filled
  <2>1. CASE p = new
    BY <2>1, <1>1, <1>2, <1>9
  <2>2. CASE p # new
    <3>1. p \in 1..n /\ pages[p].slots = <<>>
      BY <2>2, <1>1, <1>8
    <3>2. PICK u \in Writer : at[u].do = "placing" /\ at[u].page = p
      BY <3>1, <1>7 DEF Filled
    <3>3. u = t
      BY <3>2, <1>1 DEF Inserting
    <3> QED BY <3>1, <3>2, <3>3, <1>1, <1>7
  <2> QED BY <2>1, <2>2
<1>15. AtRow'
  <2> SUFFICES ASSUME NEW u \in Scanner, at'[u].do = "at"
               PROVE \/ Exists(at[u].rid)'
                     \/ /\ at'[u].rid.slot = 0 /\ at'[u].rid.page # 1
                        /\ pages'[at'[u].rid.page].slots = <<>>
    BY DEF AtRow
  <2>1. at'[u] = at[u] /\ at[u].rid.page \in 1..n
    BY <1>1, <1>2, <1>7 DEF Typed, StateOK, Thread
  <2>2. pages'[at[u].rid.page].slots = pages[at[u].rid.page].slots /\ at[u].rid.page \in 1..new
    BY <1>1, <1>8, <2>1
  <2> QED BY <2>1, <2>2, <1>7 DEF AtRow, Exists
<1> QED BY <1>10, <1>11, <1>12, <1>13, <1>14, <1>15

\* A step that replaces the slots of one page.
LEMMA PageChanges ==
    ASSUME HeapInv, NEW p \in DOMAIN pages, NEW slots \in Seq(Slot),
           pages' = [pages EXCEPT ![p].slots = slots]
    PROVE  /\ pages' \in Seq(Page) /\ Len(pages') = Len(pages) /\ DOMAIN pages' = DOMAIN pages
           /\ pages'[p].slots = slots
           /\ \A q \in DOMAIN pages : pages'[q].next = pages[q].next
           /\ \A q \in DOMAIN pages \ {p} : pages'[q].slots = pages[q].slots
<1>1. pages \in Seq(Page) /\ pages[p] \in Page
  BY PageTyped DEF HeapInv, Typed
<1>2. /\ [pages[p] EXCEPT !.slots = slots] \in Page
      /\ [pages[p] EXCEPT !.slots = slots].slots = slots
      /\ [pages[p] EXCEPT !.slots = slots].next = pages[p].next
  BY <1>1 DEF Page
<1>3. /\ pages' \in Seq(Page) /\ Len(pages') = Len(pages) /\ DOMAIN pages' = DOMAIN pages
      /\ \A q \in DOMAIN pages :
            pages'[q] = IF q = p THEN [pages[p] EXCEPT !.slots = slots] ELSE pages[q]
  BY <1>1, <1>2
<1> QED BY <1>2, <1>3

LEMMA SlotEndTyped ==
    ASSUME HeapInv, NEW p \in DOMAIN pages
    PROVE  SlotEnd(pages[p]) \in Nat
<1>1. pages[p].slots \in Seq(Slot)
  BY PageTyped DEF Page
<1>2. CASE pages[p].slots = <<>>
  BY <1>2, HeapBounds DEF SlotEnd
<1>3. CASE pages[p].slots # <<>>
  <2>1. pages[p].slots[Len(pages[p].slots)] \in Slot
    BY <1>1, <1>3
  <2> QED BY <2>1, <1>3, HeapBounds DEF SlotEnd, Slot
<1> QED BY <1>2, <1>3

LEMMA OffsetTyped ==
    ASSUME HeapInv, NEW p \in DOMAIN pages, NEW v \in Tuple
    PROVE  /\ TupleOffset(pages[p], v) \in Nat
           /\ TupleOffset(pages[p], v) % OffsetMod \in 0..(OffsetMod - 1)
<1>1. SlotEnd(pages[p]) \in Nat
  BY SlotEndTyped
<1>2. Length(v) \in 1..SizeMod
  BY HeapBounds
<1>3. TupleOffset(pages[p], v) \in Nat
  BY <1>1, <1>2, HeapBounds DEF TupleOffset, Wraps
<1>4. OffsetMod \in Nat \ {0}
  BY HeapBounds
<1> QED BY <1>3, <1>4

\* A row is added to the last page.
LEMMA PlacePages ==
    ASSUME HeapInv, NEW t \in Writer, Place(t)
    PROVE  LET n == Len(pages)
               old == pages[n].slots
               slot == NewSlot(pages[n], [tuple |-> at[t].tuple, deleted |-> FALSE])
               new == Append(old, slot)
           IN
           /\ n \in DOMAIN pages /\ old \in Seq(Slot) /\ Len(old) \in Nat
           /\ slot \in Slot /\ slot.size = Length(slot.row.tuple) % OffsetMod
           /\ new \in Seq(Slot) /\ Len(new) = Len(old) + 1 /\ new # <<>>
           /\ \A i \in 1..Len(old) : new[i] = old[i]
           /\ new[Len(old) + 1] = slot
           /\ pages' \in Seq(Page) /\ Len(pages') = n /\ DOMAIN pages' = DOMAIN pages
           /\ pages'[n].slots = new
           /\ \A q \in DOMAIN pages : pages'[q].next = pages[q].next
           /\ \A q \in DOMAIN pages \ {n} : pages'[q].slots = pages[q].slots
<1> DEFINE n == Len(pages)
           old == pages[n].slots
           row == [tuple |-> at[t].tuple, deleted |-> FALSE]
           slot == NewSlot(pages[n], row)
<1> USE DEF HeapInv
<1>1. /\ t \in Thread /\ t \notin Scanner
      /\ at[t] \in [do : {"placing"}, tuple : Tuple, page : DOMAIN pages]
      /\ at[t].page = n /\ n \in Nat \ {0} /\ n \in DOMAIN pages
      /\ \A u \in Writer \ {t} : ~Inserting(u) /\ ~(Holds(u) /\ at[u].page = n)
  BY Placing DEF Place
<1>3. pages' = [pages EXCEPT ![n].slots = Append(old, slot)] /\ UNCHANGED last_page_id
  BY <1>1 DEF Place
<1>4. slot \in Slot /\ slot.size = Length(slot.row.tuple) % OffsetMod
  <2>1. row \in Row /\ row.tuple = at[t].tuple /\ at[t].tuple \in Tuple
    BY <1>1 DEF Row
  <2>2. Length(at[t].tuple) % OffsetMod \in 0..(OffsetMod - 1)
    <3>1. Length(at[t].tuple) \in Nat /\ OffsetMod \in Nat \ {0}
      BY <2>1, HeapBounds
    <3> QED BY <3>1
  <2>3. TupleOffset(pages[n], at[t].tuple) % OffsetMod \in 0..(OffsetMod - 1)
    BY <1>1, <2>1, OffsetTyped
  <2> QED BY <2>1, <2>2, <2>3 DEF NewSlot, Slot
<1>5. old \in Seq(Slot)
  BY <1>1, PageTyped DEF Page
<1> HIDE DEF slot, row
<1>6. /\ Append(old, slot) \in Seq(Slot) /\ Len(Append(old, slot)) = Len(old) + 1
      /\ \A i \in 1..Len(old) : Append(old, slot)[i] = old[i]
      /\ Append(old, slot)[Len(old) + 1] = slot
      /\ Len(old) \in Nat /\ Append(old, slot) # <<>>
  BY <1>4, <1>5, SMTT(30)
<1>7. /\ pages' \in Seq(Page) /\ Len(pages') = n /\ DOMAIN pages' = DOMAIN pages
      /\ pages'[n].slots = Append(old, slot)
      /\ \A q \in DOMAIN pages : pages'[q].next = pages[q].next
      /\ \A q \in DOMAIN pages \ {n} : pages'[q].slots = pages[q].slots
  BY <1>1, <1>3, <1>6, PageChanges
<1> QED BY <1>1, <1>4, <1>5, <1>6, <1>7 DEF slot, row

LEMMA PlaceStep == ASSUME HeapInv, NEW t \in Writer, Place(t) PROVE HeapInv'
<1> DEFINE n == Len(pages)
           s == [do |-> "leaving", page |-> at[t].page]
           old == pages[n].slots
           row == [tuple |-> at[t].tuple, deleted |-> FALSE]
           slot == NewSlot(pages[n], row)
<1> USE DEF HeapInv
<1>1. /\ t \in Thread /\ t \notin Scanner
      /\ at[t] \in [do : {"placing"}, tuple : Tuple, page : DOMAIN pages]
      /\ at[t].page = n /\ n \in Nat \ {0} /\ n \in DOMAIN pages
      /\ \A u \in Writer \ {t} : ~Inserting(u) /\ ~(Holds(u) /\ at[u].page = n)
  BY Placing DEF Place
<1>2. /\ at' = [u \in Thread |-> IF u = t THEN s ELSE at[u]]
      /\ \A u \in Thread : at'[u] = IF u = t THEN s ELSE at[u]
  BY <1>1 DEF Place, Do, Typed
<1>3. UNCHANGED last_page_id /\ terminated' \in BOOLEAN
  BY DEF Place, Wraps
<1> HIDE DEF slot
<1>4. slot.size = Length(slot.row.tuple) % OffsetMod /\ old \in Seq(Slot)
  BY PlacePages DEF slot
<1>6. /\ Append(old, slot) \in Seq(Slot) /\ Len(Append(old, slot)) = Len(old) + 1
      /\ \A i \in 1..Len(old) : Append(old, slot)[i] = old[i]
      /\ Append(old, slot)[Len(old) + 1] = slot
      /\ Len(old) \in Nat /\ Append(old, slot) # <<>>
  BY PlacePages DEF slot
<1>7. /\ pages' \in Seq(Page) /\ Len(pages') = n /\ DOMAIN pages' = DOMAIN pages
      /\ pages'[n].slots = Append(old, slot)
      /\ \A q \in DOMAIN pages : pages'[q].next = pages[q].next
      /\ \A q \in DOMAIN pages \ {n} : pages'[q].slots = pages[q].slots
  BY PlacePages DEF slot
<1>8. Typed'
  <2>1. ASSUME NEW u \in Thread PROVE StateOK(at[u])'
    <3>1. CASE u = t
      BY <3>1, <1>1, <1>2, <1>7 DEF StateOK
    <3>2. CASE u # t
      BY <3>2, <1>2, <1>7 DEF Typed, StateOK
    <3> QED BY <3>1, <3>2
  <2>2. \A u \in Scanner : at'[u].do \notin {"latched", "placing", "leaving"}
    BY <1>1, <1>2 DEF Typed, Thread
  <2>3. \A u \in Writer : at'[u].do \notin {"bound", "open", "at"}
    BY <1>1, <1>2 DEF Typed, Thread
  <2>4. at' = [u \in Thread |-> at'[u]]
    BY <1>2
  <2> QED BY <2>1, <2>2, <2>3, <2>4, <1>1, <1>3, <1>7 DEF Typed
<1>9. Linked'
  BY <1>3, <1>7 DEF Linked
<1>10. Sized'
  <2>1. \A i \in DOMAIN pages'[n].slots : pages'[n].slots[i].size = Length(pages'[n].slots[i].row.tuple) % OffsetMod
    BY <1>1, <1>4, <1>6, <1>7 DEF Sized
  <2>2. \A q \in DOMAIN pages \ {n} : \A i \in DOMAIN pages'[q].slots :
           pages'[q].slots[i].size = Length(pages'[q].slots[i].row.tuple) % OffsetMod
    BY <1>7 DEF Sized
  <2> HIDE DEF n, HeapInv
  <2> QED BY <2>1, <2>2, <1>7 DEF Sized
<1>11. Exclusive'
  BY <1>1, <1>2, <1>7 DEF Exclusive, Inserting, Holds, Thread
<1>12. Filled'
  <2> SUFFICES ASSUME NEW p \in DOMAIN pages, p # 1, pages'[p].slots = <<>>
               PROVE  FALSE
    BY <1>7 DEF Filled
  <2>1. p # n /\ pages[p].slots = <<>>
    BY <1>6, <1>7
  <2>2. PICK u \in Writer : at[u].do = "placing" /\ at[u].page = p
    BY <2>1 DEF Filled
  <2> QED BY <2>1, <2>2, <1>1 DEF Inserting
<1>13. AtRow'
  <2> SUFFICES ASSUME NEW u \in Scanner, at'[u].do = "at"
               PROVE \/ Exists(at[u].rid)'
                     \/ /\ at'[u].rid.slot = 0 /\ at'[u].rid.page # 1
                        /\ pages'[at'[u].rid.page].slots = <<>>
    BY DEF AtRow
  <2>1. at'[u] = at[u] /\ at[u].rid.page \in DOMAIN pages /\ at[u].rid.slot \in Nat
    BY <1>1, <1>2 DEF Typed, StateOK, Thread, RidType
  <2>2. CASE at[u].rid.page = n
    BY <2>1, <2>2, <1>6, <1>7 DEF AtRow, Exists
  <2>3. CASE at[u].rid.page # n
    BY <2>1, <2>3, <1>7 DEF AtRow, Exists
  <2> QED BY <2>2, <2>3
<1> QED BY <1>8, <1>9, <1>10, <1>11, <1>12, <1>13

\* An update keeps the number of rows of every page.
LEMMA SetPages ==
    ASSUME HeapInv, NEW rid \in Rid, NEW row, Set(rid, row)
    PROVE  /\ DOMAIN pages' = DOMAIN pages
           /\ \A q \in DOMAIN pages :
                 /\ Len(pages'[q].slots) = Len(pages[q].slots) /\ Len(pages[q].slots) \in Nat
                 /\ pages'[q].slots = <<>> <=> pages[q].slots = <<>>
<1> DEFINE p == rid.page
           i == rid.slot + 1
           old == pages[p].slots
           slots == [old EXCEPT ![i].row = row]
<1>1. p \in DOMAIN pages /\ old \in Seq(Slot) /\ Len(old) \in Nat /\ i \in 1..Len(old)
  BY PageTyped DEF Rid, Page
<1>2. Len(slots) = Len(old) /\ slots # <<>> /\ old # <<>>
  BY <1>1
<1>3. pages \in Seq(Page) /\ pages[p] \in Page
  BY <1>1, PageTyped DEF HeapInv, Typed
<1>4. /\ DOMAIN pages' = DOMAIN pages
      /\ \A q \in DOMAIN pages : pages'[q].slots = IF q = p THEN slots ELSE pages[q].slots
  BY <1>1, <1>3 DEF Set, Page
<1>5. \A q \in DOMAIN pages : Len(pages[q].slots) \in Nat
  BY PageTyped
<1> HIDE DEF slots, p, i
<1> QED BY <1>1, <1>2, <1>4, <1>5

\* A row changes where it is.
LEMMA SetStep ==
    ASSUME HeapInv, NEW rid \in Rid, NEW row \in Row, Length(row.tuple) % OffsetMod = SlotAt(rid).size,
           Set(rid, row), UNCHANGED <<last_page_id, at, terminated>>
    PROVE  HeapInv'
<1> DEFINE p == rid.page
           i == rid.slot + 1
           old == pages[p].slots
           slots == [old EXCEPT ![i].row = row]
<1> USE DEF HeapInv
<1>1. p \in DOMAIN pages /\ rid.slot \in 0..(Len(pages[p].slots) - 1)
  BY DEF Rid
<1>2. old \in Seq(Slot) /\ i \in 1..Len(old) /\ Len(old) \in Nat
  BY <1>1, PageTyped DEF Page
<1>3. old[i] \in Slot
  BY <1>2
<1>4. /\ [old[i] EXCEPT !.row = row] \in Slot
      /\ [old[i] EXCEPT !.row = row].size = old[i].size
      /\ [old[i] EXCEPT !.row = row].offset = old[i].offset
      /\ [old[i] EXCEPT !.row = row].row = row
  BY <1>3 DEF Slot
<1>5. /\ slots \in Seq(Slot) /\ Len(slots) = Len(old) /\ DOMAIN slots = DOMAIN old
      /\ \A j \in DOMAIN old : slots[j] = IF j = i THEN [old[i] EXCEPT !.row = row] ELSE old[j]
  BY <1>2, <1>4
<1>6. pages' = [pages EXCEPT ![p].slots = slots]
  BY DEF Set
<1>7. /\ pages' \in Seq(Page) /\ Len(pages') = Len(pages) /\ DOMAIN pages' = DOMAIN pages
      /\ pages'[p].slots = slots
      /\ \A q \in DOMAIN pages : pages'[q].next = pages[q].next
      /\ \A q \in DOMAIN pages \ {p} : pages'[q].slots = pages[q].slots
  <2> HIDE DEF HeapInv, p, slots
  <2> QED BY <1>1, <1>5, <1>6, PageChanges
<1>8. \A q \in DOMAIN pages : Len(pages'[q].slots) = Len(pages[q].slots) /\
                              (pages'[q].slots = <<>> <=> pages[q].slots = <<>>)
  <2> HIDE DEF HeapInv, p, old, slots
  <2>1. Len(pages'[p].slots) = Len(pages[p].slots) /\ (pages'[p].slots = <<>> <=> pages[p].slots = <<>>)
    BY <1>2, <1>5, <1>7 DEF old
  <2> QED BY <2>1, <1>7
<1>9. Typed'
  <2>1. \A u \in Thread : StateOK(at[u])'
    BY <1>7 DEF Typed, StateOK
  <2> QED BY <2>1, <1>7 DEF Typed
<1>10. Linked'
  BY <1>7 DEF Linked
<1>11. Sized'
  <2>1. \A j \in DOMAIN slots : slots[j].size = Length(slots[j].row.tuple) % OffsetMod
    BY <1>1, <1>4, <1>5 DEF Sized, SlotAt
  <2>2. \A q \in DOMAIN pages \ {p} : \A j \in DOMAIN pages'[q].slots :
           pages'[q].slots[j].size = Length(pages'[q].slots[j].row.tuple) % OffsetMod
    BY <1>7 DEF Sized
  <2>3. \A j \in DOMAIN pages'[p].slots : pages'[p].slots[j].size = Length(pages'[p].slots[j].row.tuple) % OffsetMod
    BY <2>1, <1>7
  <2> HIDE DEF p
  <2> QED BY <2>2, <2>3, <1>7 DEF Sized
<1>12. Exclusive'
  BY <1>7 DEF Exclusive, Inserting, Holds
<1>13. Filled'
  BY <1>7, <1>8 DEF Filled
<1>14. AtRow'
  BY <1>7, <1>8 DEF AtRow, Exists, Typed, StateOK, Thread
<1> QED BY <1>9, <1>10, <1>11, <1>12, <1>13, <1>14

LEMMA UpdateStep == ASSUME HeapInv, NEW t \in Writer, Update(t) PROVE HeapInv'
<1>1. \A rid \in Rid : /\ SlotAt(rid) \in Slot
                       /\ SlotAt(rid).size = Length(SlotAt(rid).row.tuple) % OffsetMod
  <2> SUFFICES ASSUME NEW rid \in Rid
               PROVE  SlotAt(rid) \in Slot /\ SlotAt(rid).size = Length(SlotAt(rid).row.tuple) % OffsetMod
    OBVIOUS
  <2>1. rid.page \in DOMAIN pages /\ rid.slot \in 0..(Len(pages[rid.page].slots) - 1)
    BY DEF Rid
  <2>2. pages[rid.page].slots \in Seq(Slot) /\ rid.slot + 1 \in DOMAIN pages[rid.page].slots
    BY <2>1, PageTyped DEF Page
  <2> QED BY <2>1, <2>2 DEF SlotAt, Sized, HeapInv
<1>2. CASE UpdateTupleMeta(t)
  <2>1. PICK rid \in Rid, d \in BOOLEAN : Set(rid, [tuple |-> SlotAt(rid).row.tuple, deleted |-> d])
    BY <1>2 DEF UpdateTupleMeta
  <2> DEFINE row == [tuple |-> SlotAt(rid).row.tuple, deleted |-> d]
  <2>2. row \in Row /\ Length(row.tuple) % OffsetMod = SlotAt(rid).size
    <3>1. SlotAt(rid).row \in Row
      BY <1>1 DEF Slot
    <3> QED BY <3>1, <1>1 DEF Row
  <2> QED BY <2>1, <2>2, <1>2, SetStep DEF UpdateTupleMeta
<1>3. CASE UpdateTupleInPlace(t)
  <2>1. PICK rid \in Rid, row \in Row : SlotAt(rid).size = Length(row.tuple) /\ Set(rid, row)
    BY <1>3 DEF UpdateTupleInPlace
  <2>2. Length(row.tuple) \in 0..(OffsetMod - 1) /\ OffsetMod \in Nat
    BY <1>1, <2>1, HeapBounds DEF Slot
  <2>3. Length(row.tuple) % OffsetMod = SlotAt(rid).size
    BY <2>1, <2>2
  <2> QED BY <2>1, <2>3, <1>3, SetStep DEF UpdateTupleInPlace
<1> QED BY <1>2, <1>3 DEF Update

-----------------------------------------------------------------------------
(* The theorems.                                                            *)

LEMMA HeapInvStep == HeapInv /\ [Next]_vars => HeapInv'
<1> SUFFICES ASSUME HeapInv, [Next]_vars PROVE HeapInv'
  OBVIOUS
<1>1. CASE UNCHANGED vars
  <2>1. UNCHANGED <<pages, last_page_id, at, terminated>>
    BY <1>1 DEF vars
  <2>2. \A x : StateOK(x) <=> StateOK(x)'
    BY <2>1 DEF StateOK
  <2>3. Typed'
    BY <2>1, <2>2 DEF HeapInv, Typed
  <2>4. Linked' /\ Sized'
    BY <2>1 DEF HeapInv, Linked, Sized
  <2>5. Exclusive' /\ Filled' /\ AtRow'
    BY <2>1 DEF HeapInv, Exclusive, Filled, AtRow, Inserting, Holds, Exists
  <2> QED BY <2>3, <2>4, <2>5 DEF HeapInv
<1>2. ASSUME NEW t \in Writer, Insert(t) PROVE HeapInv'
  BY <1>2, StartInsertStep, TakeLastPageStep, GrowStep, TooLargeStep, PlaceStep, LeaveStep DEF Insert
<1>3. ASSUME NEW t \in Writer, Update(t) PROVE HeapInv'
  BY <1>3, UpdateStep
<1>4. ASSUME NEW t \in Scanner, Scan(t) PROVE HeapInv'
  BY <1>4, MakeIteratorStep, MakeEagerIteratorStep, BoundStep, OpenStep, ReadStep, AdvanceStep DEF Scan
<1> QED BY <1>1, <1>2, <1>3, <1>4 DEF Next

\* The invariant holds.
THEOREM HeapInvariant == Spec => []HeapInv
BY HeapInvInit, HeapInvStep, PTL DEF Spec

\* Types and links of the pages hold in every run of the table heap.
THEOREM HeapTypeOK == Spec => []TypeOK
<1>1. HeapInv => TypeOK
  BY HeapInvImplies
<1> QED BY <1>1, HeapInvariant, PTL

\* An iterator never reads a row that is not there, whatever pages insertions
\* add while it moves.
THEOREM HeapIteratorAtRow == Spec => []IteratorAtRow
<1>1. HeapInv => IteratorAtRow
  BY HeapInvImplies
<1> QED BY <1>1, HeapInvariant, PTL

-----------------------------------------------------------------------------
(* Sizes are cut to 16 bits, which shows in no slot while the program runs.  *)

\* No row was longer than an offset can tell, as long as the program runs.
Uncut ==
    ~terminated => \A p \in DOMAIN pages : \A i \in DOMAIN pages[p].slots :
                      Length(pages[p].slots[i].row.tuple) < OffsetMod

\* Then the size in a slot is that of its row.
LEMMA UncutAt ==
    ASSUME HeapInv, Uncut, ~terminated, NEW rid \in Rid
    PROVE  /\ SlotAt(rid) \in Slot /\ SlotAt(rid).size = Length(SlotAt(rid).row.tuple)
           /\ Length(SlotAt(rid).row.tuple) < OffsetMod
<1> DEFINE slot == SlotAt(rid)
<1>1. rid.page \in DOMAIN pages /\ rid.slot \in 0..(Len(pages[rid.page].slots) - 1)
  BY DEF Rid
<1>2. pages[rid.page].slots \in Seq(Slot) /\ rid.slot + 1 \in DOMAIN pages[rid.page].slots
  BY <1>1, PageTyped DEF Page
<1>3. /\ slot \in Slot /\ slot.size = Length(slot.row.tuple) % OffsetMod
      /\ Length(slot.row.tuple) < OffsetMod
  BY <1>1, <1>2 DEF SlotAt, Sized, Uncut, HeapInv
<1>4. Length(slot.row.tuple) \in Nat /\ OffsetMod \in Nat
  <2>1. slot.row.tuple \in Tuple
    BY <1>3 DEF Slot, Row
  <2> QED BY <2>1, HeapBounds
<1> HIDE DEF slot
<1>5. slot.size = Length(slot.row.tuple)
  BY <1>3, <1>4
<1> QED BY <1>3, <1>5 DEF slot

LEMMA WriterUncut ==
    ASSUME HeapInv, Uncut, ~terminated, NEW t \in Writer, Insert(t) \/ Update(t)
    PROVE  Uncut'
<1>1. CASE UNCHANGED pages
  BY <1>1 DEF Uncut
<1>2. CASE Grow(t)
  <2>1. /\ DOMAIN pages' = 1..(Len(pages) + 1) /\ DOMAIN pages = 1..Len(pages) /\ Len(pages) \in Nat
        /\ \A p \in 1..Len(pages) : pages'[p].slots = pages[p].slots
        /\ pages'[Len(pages) + 1].slots = <<>>
    BY <1>2, GrowPages
  <2>2. DOMAIN pages'[Len(pages) + 1].slots = {}
    BY <2>1
  <2> QED BY <2>1, <2>2 DEF Uncut
<1>3. CASE Place(t)
  <2> DEFINE n == Len(pages)
             old == pages[n].slots
             slot == NewSlot(pages[n], [tuple |-> at[t].tuple, deleted |-> FALSE])
  <2>1. slot.row.tuple = at[t].tuple
    BY DEF NewSlot
  <2> HIDE DEF slot
  <2>2. /\ Len(old) \in Nat /\ old \in Seq(Slot) /\ pages'[n].slots = Append(old, slot)
        /\ n \in DOMAIN pages /\ DOMAIN pages' = DOMAIN pages
        /\ \A q \in DOMAIN pages \ {n} : pages'[q].slots = pages[q].slots
    BY <1>3, PlacePages DEF slot
  <2>3. ASSUME ~terminated' PROVE Length(slot.row.tuple) < OffsetMod
    <3>1. at[t].page = n /\ at[t].tuple \in Tuple
      BY <1>3, Placing DEF Place
    <3>3. SlotEnd(pages[n]) \in Nat /\ SlotEnd(pages[n]) < OffsetMod
      <4>1. CASE old = <<>>
        BY <4>1, HeapBounds DEF SlotEnd
      <4>2. CASE old # <<>>
        <5>1. old[Len(old)] \in Slot
          BY <4>2, <2>2
        <5> QED BY <5>1, <4>2, HeapBounds DEF SlotEnd, Slot
      <4> QED BY <4>1, <4>2
    <3>4. Length(at[t].tuple) \in Nat /\ OffsetMod \in Nat
      BY <3>1, HeapBounds
    <3>2. Length(at[t].tuple) <= SlotEnd(pages[n])
      <4>1. ~Wraps(pages[n], at[t].tuple)
        BY <1>3, <2>3, <3>1, Zenon DEF Place
      <4> QED BY <3>3, <3>4, <4>1 DEF Wraps
    <3> QED BY <2>1, <3>2, <3>3, <3>4
  <2>4. \A i \in DOMAIN Append(old, slot) :
           Append(old, slot)[i] = slot \/ (i \in DOMAIN old /\ Append(old, slot)[i] = old[i])
    BY <2>2
  <2> QED BY <2>2, <2>3, <2>4 DEF Uncut
<1>4. ASSUME NEW rid \in Rid, NEW row, Set(rid, row), Length(row.tuple) < OffsetMod PROVE Uncut'
  <2> DEFINE p == rid.page
             i == rid.slot + 1
             slots == [pages[p].slots EXCEPT ![i].row = row]
  <2>1. p \in DOMAIN pages /\ pages[p].slots \in Seq(Slot) /\ i \in DOMAIN pages[p].slots
    BY PageTyped DEF Rid, Page
  <2>2. \A j \in DOMAIN pages[p].slots : pages[p].slots[j] \in Slot
    BY <2>1
  <2>3. /\ DOMAIN slots = DOMAIN pages[p].slots
        /\ \A j \in DOMAIN slots : slots[j].row = IF j = i THEN row ELSE pages[p].slots[j].row
    BY <2>1, <2>2 DEF Slot
  <2>4. /\ DOMAIN pages' = DOMAIN pages
        /\ \A q \in DOMAIN pages : pages'[q].slots = IF q = p THEN slots ELSE pages[q].slots
    <3>1. pages \in Seq(Page) /\ pages[p] \in Page
      BY <2>1, PageTyped DEF HeapInv, Typed
    <3> QED BY <1>4, <2>1, <3>1 DEF Set, Page
  <2> HIDE DEF slots, p, i
  <2> QED BY <1>4, <2>1, <2>3, <2>4 DEF Uncut
<1>5. CASE UpdateTupleMeta(t)
  <2>1. PICK rid \in Rid, d \in BOOLEAN : Set(rid, [tuple |-> SlotAt(rid).row.tuple, deleted |-> d])
    BY <1>5 DEF UpdateTupleMeta
  <2>2. Length(SlotAt(rid).row.tuple) < OffsetMod
    BY UncutAt
  <2> QED BY <1>4, <2>1, <2>2
<1>6. CASE UpdateTupleInPlace(t)
  <2>1. PICK rid \in Rid, row \in Row : SlotAt(rid).size = Length(row.tuple) /\ Set(rid, row)
    BY <1>6 DEF UpdateTupleInPlace
  <2>2. SlotAt(rid) \in Slot /\ OffsetMod \in Nat
    BY UncutAt, HeapBounds
  <2>3. Length(row.tuple) < OffsetMod
    BY <2>1, <2>2 DEF Slot
  <2> QED BY <1>4, <2>1, <2>3
<1> QED BY <1>1, <1>2, <1>3, <1>5, <1>6 DEF Insert, Update, StartInsert, TakeLastPage, TooLarge, Leave

-----------------------------------------------------------------------------
(* The layout of the pages: rows of any lengths leave it whole, unless one *)
(* is longer than what lies before the slots' end and its offset wraps.     *)

LEMMA SlotsEndTyped == ASSUME NEW n \in Nat PROVE SlotsEnd(n) \in Nat
<1>1. HeaderSize \in Nat /\ InfoSize \in Nat
  BY HeapBounds
<1>2. InfoSize * n \in Nat
  BY <1>1
<1> QED BY <1>1, <1>2 DEF SlotsEnd

LEMMA SlotsTyped ==
    ASSUME HeapInv, NEW p \in DOMAIN pages
    PROVE  /\ pages[p].slots \in Seq(Slot) /\ Len(pages[p].slots) \in Nat
           /\ DOMAIN pages[p].slots = 1..Len(pages[p].slots)
           /\ \A i \in 1..Len(pages[p].slots) :
                 pages[p].slots[i].offset \in Nat /\ Length(pages[p].slots[i].row.tuple) \in Nat
<1>1. pages[p].slots \in Seq(Slot) /\ Len(pages[p].slots) \in Nat
  BY PageTyped DEF Page
<1>2. \A i \in 1..Len(pages[p].slots) : pages[p].slots[i] \in Slot
  BY <1>1
<1>3. OffsetMod \in Nat /\ \A v \in Tuple : Length(v) \in Nat
  BY HeapBounds
<1>4. ASSUME NEW slot \in Slot PROVE slot.offset \in Nat /\ Length(slot.row.tuple) \in Nat
  BY <1>3 DEF Slot, Row
<1>5. DOMAIN pages[p].slots = 1..Len(pages[p].slots)
  BY <1>1
<1> QED BY <1>1, <1>2, <1>4, <1>5

\* The offset of a row that fits.
LEMMA RowFits ==
    ASSUME HeapInv, NEW p \in DOMAIN pages, RowsApart(pages[p].slots), NEW v \in Tuple,
           ~Wraps(pages[p], v)
    PROVE  /\ TupleOffset(pages[p], v) = SlotEnd(pages[p]) - Length(v)
           /\ TupleOffset(pages[p], v) % OffsetMod = TupleOffset(pages[p], v)
           /\ TupleOffset(pages[p], v) \in Nat
           /\ SlotEnd(pages[p]) <= PageSize
           /\ \A i \in DOMAIN pages[p].slots : SlotEnd(pages[p]) <= pages[p].slots[i].offset
<1> DEFINE slots == pages[p].slots
           n == Len(slots)
<1>1. Length(v) \in Nat /\ PageSize \in Nat /\ OffsetMod \in Nat /\ PageSize < OffsetMod
  BY HeapBounds
<1>2. SlotEnd(pages[p]) \in Nat /\ TupleOffset(pages[p], v) \in Nat
  BY SlotEndTyped, OffsetTyped
<1>3. SlotEnd(pages[p]) <= PageSize /\ Length(v) <= SlotEnd(pages[p])
  <2>1. Length(v) <= SlotEnd(pages[p])
    BY <1>1, <1>2 DEF Wraps
  <2>2. CASE slots = <<>>
    BY <2>1, <2>2, <1>1 DEF SlotEnd
  <2>3. CASE slots # <<>>
    <3>1. n \in 1..n /\ n \in DOMAIN slots
      BY <2>3, SlotsTyped
    <3>2. slots[n].offset + Length(slots[n].row.tuple) <= PageSize
      BY <3>1 DEF RowsApart
    <3>3. /\ SlotEnd(pages[p]) = slots[n].offset
          /\ slots[n].offset \in Nat /\ Length(slots[n].row.tuple) \in Nat
      BY <2>3, <3>1, SlotsTyped DEF SlotEnd
    <3> QED BY <2>1, <3>2, <3>3, <1>1
  <2> QED BY <2>2, <2>3
<1>4. TupleOffset(pages[p], v) = SlotEnd(pages[p]) - Length(v)
  BY DEF TupleOffset
<1>5. TupleOffset(pages[p], v) \in 0..(OffsetMod - 1)
  BY <1>1, <1>2, <1>3, <1>4
<1>6. TupleOffset(pages[p], v) % OffsetMod = TupleOffset(pages[p], v)
  BY <1>5, <1>1
<1>7. ASSUME NEW i \in DOMAIN slots PROVE SlotEnd(pages[p]) <= slots[i].offset
  <2>1. n \in 1..n /\ i \in 1..n /\ slots # <<>>
    BY SlotsTyped
  <2>2. /\ SlotEnd(pages[p]) = slots[n].offset
        /\ slots[n].offset \in Nat /\ Length(slots[n].row.tuple) \in Nat
    BY <2>1, SlotsTyped DEF SlotEnd
  <2>3. i < n => slots[n].offset + Length(slots[n].row.tuple) <= slots[i].offset
    BY <2>1, SlotsTyped DEF RowsApart
  <2> QED BY <2>1, <2>2, <2>3, SlotsTyped
<1> QED BY <1>2, <1>3, <1>4, <1>6, <1>7

\* A row is added to a page that is laid out.
LEMMA RowsApartPlace ==
    ASSUME HeapInv, NEW t \in Writer, Place(t), NEW n, n = Len(pages),
           RowsApart(pages[n].slots), ~Wraps(pages[n], at[t].tuple)
    PROVE  RowsApart(pages'[n].slots)
<1> DEFINE old == pages[n].slots
           k == Len(old)
           row == [tuple |-> at[t].tuple, deleted |-> FALSE]
           slot == NewSlot(pages[n], row)
           offset == TupleOffset(pages[n], at[t].tuple)
           length == Length(at[t].tuple)
           new == Append(old, slot)
<1>1. at[t].tuple \in Tuple /\ at[t].page = n /\ n \in DOMAIN pages /\ Fits(pages[n], at[t].tuple)
  BY Placing DEF Place
<1>2. /\ offset \in Nat /\ offset = SlotEnd(pages[n]) - length
      /\ SlotEnd(pages[n]) <= PageSize /\ SlotEnd(pages[n]) \in Nat
      /\ slot.offset = offset /\ slot.row.tuple = at[t].tuple /\ length \in Nat
      /\ \A i \in 1..k : SlotEnd(pages[n]) <= old[i].offset
  <2>1. /\ offset \in Nat /\ offset = SlotEnd(pages[n]) - length
        /\ offset % OffsetMod = offset /\ SlotEnd(pages[n]) <= PageSize
        /\ \A i \in DOMAIN old : SlotEnd(pages[n]) <= old[i].offset
    BY <1>1, RowFits
  <2>2. SlotEnd(pages[n]) \in Nat /\ DOMAIN old = 1..k /\ length \in Nat
    BY <1>1, SlotEndTyped, SlotsTyped, HeapBounds
  <2>3. slot.offset = offset % OffsetMod /\ slot.row.tuple = at[t].tuple
    BY DEF NewSlot
  <2> QED BY <2>1, <2>2, <2>3
<1>3. /\ k \in Nat /\ DOMAIN old = 1..k
      /\ \A i \in 1..k : old[i].offset \in Nat /\ Length(old[i].row.tuple) \in Nat
  BY <1>1, SlotsTyped
<1>4. SlotsEnd(k + 1) <= offset
  BY <1>1 DEF Fits
<1>5. SlotsEnd(k + 1) \in Nat
  <2> k \in Nat /\ k + 1 \in Nat
    BY <1>3
  <2> HIDE DEF k
  <2> QED BY SlotsEndTyped
<1>6. /\ new = pages'[n].slots /\ Len(new) = k + 1 /\ DOMAIN new = 1..(k + 1)
      /\ \A i \in 1..k : new[i] = old[i]
      /\ new[k + 1] = slot
  <2>1. slot \in Slot /\ old \in Seq(Slot) /\ pages'[n].slots = new
    BY PlacePages
  <2> HIDE DEF slot
  <2> QED BY <2>1
<1> HIDE DEF slot, offset, length
<1> DEFINE End(s, i) == s[i].offset + Length(s[i].row.tuple)
<1>7. ASSUME NEW i \in 1..(k + 1)
      PROVE  /\ SlotsEnd(k + 1) <= new[i].offset /\ End(new, i) <= PageSize
             /\ \A j \in 1..(k + 1) : i < j => End(new, j) <= new[i].offset
  <2>1. End(new, k + 1) = SlotEnd(pages[n])
    BY <1>2, <1>6 DEF length
  <2>2. CASE i = k + 1
    <3>1. \A j \in 1..(k + 1) : ~(i < j)
      BY <2>2, <1>3
    <3>2. new[i].offset = offset /\ End(new, i) <= PageSize
      BY <2>1, <2>2, <1>2, <1>6
    <3> QED BY <3>1, <3>2, <1>4
  <2>3. CASE i # k + 1
    <3>1. i \in 1..k /\ new[i] = old[i]
      BY <2>3, <1>3, <1>6
    <3>2. /\ End(old, i) <= PageSize
          /\ \A j \in 1..k : i < j => End(old, j) <= old[i].offset
      BY <3>1, <1>3 DEF RowsApart
    <3>3. SlotEnd(pages[n]) <= old[i].offset
      BY <3>1, <1>2
    <3>4. SlotsEnd(k + 1) <= old[i].offset
      <4>1. offset <= SlotEnd(pages[n]) /\ old[i].offset \in Nat
        BY <3>1, <1>2, <1>3
      <4> HIDE DEF k, old
      <4> QED BY <4>1, <3>3, <1>2, <1>4, <1>5
    <3>5. \A j \in 1..(k + 1) : i < j => End(new, j) <= new[i].offset
      <4> SUFFICES ASSUME NEW j \in 1..(k + 1), i < j PROVE End(new, j) <= new[i].offset
        OBVIOUS
      <4>1. CASE j = k + 1
        BY <4>1, <2>1, <3>1, <3>3
      <4>2. CASE j # k + 1
        <5>2. j \in 1..k
          <6> HIDE DEF k
          <6> QED BY <4>2, <1>3
        <5>1. new[j] = old[j]
          BY <5>2, <1>6
        <5> QED BY <5>1, <5>2, <3>1, <3>2
      <4> QED BY <4>1, <4>2
    <3> QED BY <3>1, <3>2, <3>4, <3>5
  <2> QED BY <2>2, <2>3
<1> HIDE DEF new, k, old
<1> QED BY <1>6, <1>7 DEF RowsApart

LEMMA LayoutPlace ==
    ASSUME HeapInv, LayoutUnlessWrapped, NEW t \in Writer, Place(t)
    PROVE  LayoutUnlessWrapped'
<1> DEFINE n == Len(pages)
           old == pages[n].slots
           k == Len(old)
           new == pages'[n].slots
<1>1. /\ n \in DOMAIN pages /\ k \in Nat /\ DOMAIN old = 1..k /\ DOMAIN new = 1..(k + 1)
      /\ \A i \in 1..k : new[i] = old[i]
      /\ new[k + 1].row.tuple = at[t].tuple
      /\ DOMAIN pages' = DOMAIN pages
      /\ \A q \in DOMAIN pages \ {n} : pages'[q].slots = pages[q].slots
  <2> DEFINE slot == NewSlot(pages[n], [tuple |-> at[t].tuple, deleted |-> FALSE])
  <2>1. slot.row.tuple = at[t].tuple
    BY DEF NewSlot
  <2> HIDE DEF slot
  <2>2. /\ n \in DOMAIN pages /\ k \in Nat /\ old \in Seq(Slot) /\ new \in Seq(Slot) /\ Len(new) = k + 1
        /\ \A i \in 1..k : new[i] = old[i]
        /\ new[k + 1] = slot
        /\ DOMAIN pages' = DOMAIN pages
        /\ \A q \in DOMAIN pages \ {n} : pages'[q].slots = pages[q].slots
    BY PlacePages DEF slot
  <2> QED BY <2>1, <2>2
<1>2. ASSUME NoneWrapped(new) PROVE RowsApart(new)
  <2>1. NoneWrapped(old)
    <3> SUFFICES ASSUME NEW i \in 1..k
                 PROVE  Length(old[i].row.tuple) <= IF i = 1 THEN PageSize ELSE old[i - 1].offset
      BY <1>1 DEF NoneWrapped
    <3>1. i \in 1..(k + 1) /\ new[i] = old[i] /\ (i # 1 => i - 1 \in 1..k)
      BY <1>1
    <3>2. i # 1 => new[i - 1] = old[i - 1]
      BY <1>1, <3>1
    <3> HIDE DEF new, old, k
    <3> QED BY <1>1, <1>2, <3>1, <3>2 DEF NoneWrapped
  <2>2. RowsApart(old)
    BY <1>1, <2>1 DEF LayoutUnlessWrapped
  <2>3. Length(at[t].tuple) <= SlotEnd(pages[n])
    <3>1. Length(new[k + 1].row.tuple) <= IF k + 1 = 1 THEN PageSize ELSE new[k + 1 - 1].offset
      <4> DEFINE m == k + 1
      <4>1. m \in DOMAIN new
        BY <1>1
      <4> HIDE DEF m
      <4>2. Length(new[m].row.tuple) <= IF m = 1 THEN PageSize ELSE new[m - 1].offset
        BY <1>2, <4>1, Zenon DEF NoneWrapped
      <4> QED BY <4>2 DEF m
    <3>2. CASE k = 0
      <4>1. old = <<>>
        BY <3>2, <1>1, SlotsTyped
      <4> QED BY <1>1, <3>1, <3>2, <4>1 DEF SlotEnd
    <3>3. CASE k # 0
      <4>1. k \in 1..k /\ k + 1 # 1 /\ k + 1 - 1 = k /\ old # <<>>
        BY <3>3, <1>1
      <4>2. new[k] = old[k] /\ SlotEnd(pages[n]) = old[k].offset
        BY <1>1, <4>1 DEF SlotEnd
      <4> HIDE DEF new, old, k
      <4> QED BY <1>1, <3>1, <4>1, <4>2
    <3> QED BY <3>2, <3>3
  <2>4. ~Wraps(pages[n], at[t].tuple)
    <3>1. at[t].tuple \in Tuple
      BY Placing DEF Place
    <3>2. Length(at[t].tuple) \in Nat /\ SlotEnd(pages[n]) \in Nat
      BY <1>1, <3>1, SlotEndTyped, HeapBounds
    <3> QED BY <2>3, <3>2 DEF Wraps
  <2> QED BY <2>2, <2>4, RowsApartPlace
<1> HIDE DEF n
<1> QED BY <1>1, <1>2 DEF LayoutUnlessWrapped

LEMMA LayoutSet ==
    ASSUME HeapInv, LayoutUnlessWrapped, NEW rid \in Rid, NEW row, Set(rid, row),
           Length(row.tuple) = Length(SlotAt(rid).row.tuple)
    PROVE  LayoutUnlessWrapped'
<1> DEFINE p == rid.page
           i == rid.slot + 1
           old == pages[p].slots
           slots == [old EXCEPT ![i].row = row]
<1>1. p \in DOMAIN pages /\ i \in DOMAIN old
  BY SlotsTyped DEF Rid
<1>2. old \in Seq(Slot) /\ \A j \in DOMAIN old : old[j] \in Slot
  BY <1>1, SlotsTyped
<1>3. /\ DOMAIN slots = DOMAIN old /\ Len(slots) = Len(old)
      /\ \A j \in DOMAIN old : /\ slots[j].offset = old[j].offset
                               /\ slots[j].row = IF j = i THEN row ELSE old[j].row
  <2> HIDE DEF HeapInv, LayoutUnlessWrapped, p, i, old
  <2> QED BY <1>1, <1>2 DEF Slot
<1>4. \A j \in DOMAIN old : Length(slots[j].row.tuple) = Length(old[j].row.tuple)
  BY <1>1, <1>3 DEF SlotAt
<1>5. pages \in Seq(Page) /\ pages[p] \in Page
  BY <1>1, PageTyped DEF HeapInv, Typed
<1>6. /\ DOMAIN pages' = DOMAIN pages
      /\ \A q \in DOMAIN pages : pages'[q].slots = IF q = p THEN slots ELSE pages[q].slots
  BY <1>1, <1>5 DEF Set, Page
<1>7. DOMAIN old = 1..Len(old) /\ Len(old) \in Nat
  BY <1>2
<1> HIDE DEF slots, old
<1>8. NoneWrapped(slots) => NoneWrapped(old)
  <2> SUFFICES ASSUME NoneWrapped(slots), NEW j \in DOMAIN old
               PROVE  Length(old[j].row.tuple) <= IF j = 1 THEN PageSize ELSE old[j - 1].offset
    BY DEF NoneWrapped
  <2>1. j # 1 => j - 1 \in DOMAIN old
    BY <1>7
  <2>2. Length(slots[j].row.tuple) <= IF j = 1 THEN PageSize ELSE slots[j - 1].offset
    BY <1>3 DEF NoneWrapped
  <2> QED BY <1>3, <1>4, <2>1, <2>2
<1>9. RowsApart(old) => RowsApart(slots)
  BY <1>3, <1>4 DEF RowsApart
<1>10. NoneWrapped(slots) => RowsApart(slots)
  BY <1>1, <1>8, <1>9 DEF LayoutUnlessWrapped, old
<1> HIDE DEF p
<1> QED BY <1>6, <1>10 DEF LayoutUnlessWrapped

LEMMA LayoutGrow ==
    ASSUME HeapInv, LayoutUnlessWrapped, NEW t \in Writer, Grow(t)
    PROVE  LayoutUnlessWrapped'
<1> DEFINE n == Len(pages)
<1>1. /\ DOMAIN pages' = 1..(n + 1) /\ DOMAIN pages = 1..n /\ n \in Nat
      /\ \A p \in 1..n : pages'[p].slots = pages[p].slots
      /\ pages'[n + 1].slots = <<>>
  BY GrowPages
<1>2. DOMAIN pages'[n + 1].slots = {}
  BY <1>1
<1> HIDE DEF n
<1>3. RowsApart(pages'[n + 1].slots)
  BY <1>2 DEF RowsApart
<1> QED BY <1>1, <1>3 DEF LayoutUnlessWrapped

\* The rows of a page lie between its slots and its end and share no byte, for
\* every size of the pages and rows of all lengths, in every page where no row
\* was longer than what lay before the slots' end: table_page.cpp:43 is the only
\* place where the format can break.
THEOREM HeapLayout == Spec => []LayoutUnlessWrapped
<1> DEFINE LInv == LayoutUnlessWrapped /\ Uncut
<1>1. Init => LInv
  BY DEF Init, LayoutUnlessWrapped, RowsApart, Uncut, NewTablePage
<1>2. HeapInv /\ LInv /\ [Next]_vars => LInv'
  <2> SUFFICES ASSUME HeapInv, LInv, [Next]_vars PROVE LInv'
    OBVIOUS
  <2>1. CASE UNCHANGED vars
    BY <2>1 DEF vars, LayoutUnlessWrapped, Uncut
  <2>2. ASSUME ~terminated, NEW t \in Writer, Insert(t) \/ Update(t) PROVE LInv'
    <3>1. Uncut'
      BY <2>2, WriterUncut
    <3>2. CASE Grow(t)
      BY <3>1, <3>2, LayoutGrow
    <3>3. CASE Place(t)
      BY <3>1, <3>3, LayoutPlace
    <3>4. CASE UpdateTupleMeta(t)
      <4>1. PICK rid \in Rid, d \in BOOLEAN : Set(rid, [tuple |-> SlotAt(rid).row.tuple, deleted |-> d])
        BY <3>4 DEF UpdateTupleMeta
      <4> QED BY <3>1, <4>1, LayoutSet
    <3>5. CASE UpdateTupleInPlace(t)
      <4>1. PICK rid \in Rid, row \in Row : SlotAt(rid).size = Length(row.tuple) /\ Set(rid, row)
        BY <3>5 DEF UpdateTupleInPlace
      <4>2. SlotAt(rid).size = Length(SlotAt(rid).row.tuple)
        BY <2>2, UncutAt
      <4> QED BY <3>1, <4>1, <4>2, LayoutSet
    <3>6. CASE UNCHANGED pages
      BY <3>1, <3>6 DEF LayoutUnlessWrapped
    <3> QED BY <2>2, <3>2, <3>3, <3>4, <3>5, <3>6
            DEF Insert, Update, StartInsert, TakeLastPage, TooLarge, Leave
  <2>3. ASSUME ~terminated, NEW t \in Scanner, Scan(t) PROVE LInv'
    BY <2>3 DEF LayoutUnlessWrapped, Uncut, Scan, MakeIterator, MakeEagerIterator, Bound, Open, Read, Advance
  <2> QED BY <2>1, <2>2, <2>3 DEF Next
<1> HIDE DEF LInv
<1>3. LInv => LayoutUnlessWrapped
  BY DEF LInv
<1> QED BY <1>1, <1>2, <1>3, HeapInvariant, PTL DEF Spec

-----------------------------------------------------------------------------
(* Iterators stop in bound, if no scan overlaps the first insertion.        *)

\* The stop of an iterator is a place of the table, after the row it is at.
\* Only the stop of an empty table has no row before it.
StopOK(s) ==
    s.do \in {"open", "at"} => \A stop \in s.stop :
       /\ stop.page \in DOMAIN pages /\ stop.slot <= Len(pages[stop.page].slots)
       /\ stop.slot = 0 => s.do = "open" /\ stop.page = 1 /\ pages[1].slots = <<>>
       /\ s.do = "at" => Sooner(s.rid, stop)

FirstAlone ==
    pages[1].slots = <<>> => \A s \in Scanner, w \in Writer : ~(Opening(s) /\ Inserting(w))

StopInv == FirstAlone /\ \A t \in Scanner : StopOK(at[t])

\* A scan moves on.
LEMMA ScanMoves ==
    ASSUME HeapInv, StopInv, NEW t \in Scanner, NEW s, Do(t, s), UNCHANGED pages, StopOK(s),
           /\ pages[1].slots = <<>> /\ s.do \in {"bound", "open"}
              => Opening(t) \/ \A w \in Writer : ~Inserting(w)
    PROVE  StopInv'
<1>1. t \in Thread /\ t \notin Writer
  BY HeapBounds DEF Thread
<1>2. \A u \in Thread : at'[u] = IF u = t THEN s ELSE at[u]
  BY <1>1 DEF Do, HeapInv, Typed
<1>3. \A x : StopOK(x) <=> StopOK(x)'
  BY DEF StopOK
<1>4. \A u \in Scanner : StopOK(at[u])'
  BY <1>2, <1>3 DEF StopInv, Thread
<1>5. FirstAlone'
  BY <1>1, <1>2 DEF StopInv, FirstAlone, Opening, Inserting, Thread
<1> QED BY <1>4, <1>5 DEF StopInv

LEMMA AdvanceStops ==
    ASSUME HeapInv, StopInv, NEW t \in Scanner, Advance(t)
    PROVE  StopInv'
<1> DEFINE rid == at[t].rid
           here == [rid EXCEPT !.slot = @ + 1]
           next == Following(rid)
           stops == here \in at[t].stop \/ next.page = NoPage
           s == IF stops THEN Idle ELSE At(next, at[t].stop)
<1>1. t \in Thread /\ Do(t, s) /\ UNCHANGED pages /\ at[t].do = "at"
  BY DEF Advance, Thread
<1>2. /\ rid \in RidType /\ at[t].stop \in SUBSET RidType /\ rid.page \in DOMAIN pages
  BY <1>1 DEF HeapInv, Typed, StateOK
<1>3. here \in RidType /\ here.page = rid.page /\ here.slot = rid.slot + 1
  BY <1>2 DEF RidType
<1>4. s.do \in {"idle", "at"}
  BY DEF Idle, At
<1>5. StopOK(s)
  <2>1. CASE stops
    BY <2>1 DEF StopOK, Idle
  <2>2. CASE ~stops
    <3> SUFFICES ASSUME NEW stop \in at[t].stop
                 PROVE  /\ stop.page \in DOMAIN pages /\ stop.slot <= Len(pages[stop.page].slots)
                        /\ stop.slot # 0 /\ Sooner(next, stop)
      BY <2>2 DEF StopOK, At
    <3>1. /\ stop.page \in DOMAIN pages /\ stop.slot <= Len(pages[stop.page].slots)
          /\ stop.slot # 0 /\ Sooner(rid, stop)
      BY <1>1 DEF StopInv, StopOK
    <3>2. stop \in RidType /\ stop # here
      BY <1>2, <2>2
    <3>3. stop.page # rid.page \/ stop.slot # rid.slot + 1
      BY <1>3, <3>2 DEF RidType
    <3>4. rid.page \in Nat /\ rid.slot \in Nat /\ stop.page \in Nat /\ stop.slot \in Nat
      BY <1>2, <3>2 DEF RidType
    <3>5. CASE Exists(here)
      <4>1. next = here
        BY <3>5 DEF Following
      <4> HIDE DEF next, here
      <4> QED BY <4>1, <1>3, <3>1, <3>3, <3>4 DEF Sooner
    <3>6. CASE ~Exists(here)
      <4>1. next = [page |-> pages[rid.page].next, slot |-> 0]
        BY <3>6 DEF Following
      <4>2. next.page = rid.page + 1 /\ next.slot = 0
        BY <4>1, <1>2, <2>2 DEF HeapInv, Linked
      <4>3. Len(pages[rid.page].slots) \in Nat /\ Len(pages[rid.page].slots) <= rid.slot + 1
        BY <3>6, <3>4, <1>2, <1>3, PageTyped, SMTT(30) DEF Exists
      <4>4. rid.page < stop.page
        <5> HIDE DEF next, here
        <5> QED BY <3>1, <3>3, <3>4, <4>3, SMTT(30) DEF Sooner
      <4> HIDE DEF next
      <4> QED BY <3>1, <3>4, <4>2, <4>4 DEF Sooner
    <3> QED BY <3>5, <3>6
  <2> QED BY <2>1, <2>2
<1> HIDE DEF s
<1> QED BY <1>1, <1>4, <1>5, ScanMoves

LEMMA BoundStops ==
    ASSUME HeapInv, StopInv, NEW t \in Scanner, Bound(t)
    PROVE  StopInv'
<1> DEFINE last == at[t].last
           stop == [page |-> last, slot |-> Len(pages[last].slots)]
           s == [do |-> "open", stop |-> {stop}]
<1>1. t \in Thread /\ Do(t, s) /\ UNCHANGED pages /\ at[t].do = "bound" /\ Free(last)
  BY DEF Bound, Thread
<1>2. last \in DOMAIN pages /\ pages[last].slots \in Seq(Slot)
  BY <1>1, PageTyped DEF HeapInv, Typed, StateOK, Page
<1>3. Len(pages[last].slots) = 0 => pages[last].slots = <<>> /\ last = 1
  BY <1>1, <1>2 DEF HeapInv, Filled, Free
<1>4. StopOK(s)
  BY <1>2, <1>3, PageTyped DEF StopOK
<1> QED BY <1>1, <1>4, ScanMoves DEF Opening

LEMMA ScanStops ==
    ASSUME FirstRowAlone, HeapInv, StopInv, NEW t \in Scanner, Scan(t)
    PROVE  StopInv'
<1>1. CASE MakeIterator(t)
  <2> DEFINE s == [do |-> "bound", last |-> last_page_id, rows |-> Len(Rows)]
  <2>1. StopOK(s)
    BY DEF StopOK
  <2> QED BY <1>1, <2>1, ScanMoves DEF MakeIterator, MayScan, Alone
<1>2. CASE MakeEagerIterator(t)
  <2> DEFINE s == [do |-> "open", stop |-> {}]
  <2>1. StopOK(s)
    BY DEF StopOK
  <2> QED BY <1>2, <2>1, ScanMoves DEF MakeEagerIterator, MayScan, Alone
<1>3. CASE Open(t)
  <2> DEFINE s == IF Exists(First) THEN At(First, at[t].stop) ELSE Idle
  <2>1. t \in Thread /\ Do(t, s) /\ UNCHANGED pages /\ at[t].do = "open"
    BY <1>3 DEF Open, Thread
  <2>2. at[t].stop \in SUBSET RidType /\ 1 \in DOMAIN pages /\ Len(pages[1].slots) \in Nat
    BY <2>1, PageTyped DEF HeapInv, Typed, StateOK
  <2>3. StopOK(s) /\ s.do \in {"at", "idle"}
    <3>1. CASE ~Exists(First)
      BY <3>1 DEF StopOK, Idle
    <3>2. CASE Exists(First)
      <4>1. s = [do |-> "at", rid |-> First, stop |-> at[t].stop, got |-> {}]
        BY <3>2 DEF At
      <4>2. pages[1].slots # <<>>
        BY <2>2, <3>2 DEF Exists, First
      <4>3. ASSUME NEW stop \in at[t].stop
            PROVE  /\ stop.page \in DOMAIN pages /\ stop.slot <= Len(pages[stop.page].slots)
                   /\ stop.slot # 0 /\ Sooner(First, stop)
        <5>1. /\ stop.page \in DOMAIN pages /\ stop.slot <= Len(pages[stop.page].slots)
              /\ stop.slot # 0
          BY <2>1, <4>2 DEF StopInv, StopOK
        <5>2. stop.page \in Nat /\ stop.slot \in Nat /\ stop.page >= 1
          BY <2>2, <5>1 DEF RidType, HeapInv, Typed
        <5> QED BY <5>1, <5>2 DEF Sooner, First
      <4> HIDE DEF s
      <4> QED BY <4>1, <4>3 DEF StopOK
    <3> QED BY <3>1, <3>2
  <2> HIDE DEF s
  <2> QED BY <2>1, <2>3, ScanMoves
<1>4. CASE Read(t)
  <2> DEFINE s == [at[t] EXCEPT !.got = {SlotAt(at[t].rid).row}]
  <2>1. t \in Thread /\ at[t].do = "at" /\ Do(t, s) /\ UNCHANGED pages
    BY <1>4 DEF Read, Thread, Do
  <2>2. at[t] \in [do : {"at"}, rid : RidType, stop : SUBSET RidType, got : SUBSET Row]
    BY <2>1 DEF HeapInv, Typed, StateOK
  <2>3. s.do = "at" /\ s.rid = at[t].rid /\ s.stop = at[t].stop
    BY <2>2
  <2>4. StopOK(s)
    BY <2>1, <2>3 DEF StopOK, StopInv
  <2> HIDE DEF s
  <2> QED BY <2>1, <2>3, <2>4, ScanMoves
<1> QED BY <1>1, <1>2, <1>3, <1>4, BoundStops, AdvanceStops DEF Scan

\* Pages that only grow keep every stop where it is.
LEMMA WriterStops ==
    ASSUME FirstRowAlone, HeapInv, StopInv, NEW t \in Writer, Insert(t) \/ Update(t)
    PROVE  StopInv'
<1> DEFINE Grown == /\ DOMAIN pages \subseteq DOMAIN pages'
                    /\ \A p \in DOMAIN pages : Len(pages[p].slots) <= Len(pages'[p].slots)
                    /\ pages'[1].slots = <<>> => pages[1].slots = <<>>
                    /\ pages[1].slots = <<>> /\ ~Inserting(t) => pages'[1].slots = <<>>
<1>1. t \in Thread /\ t \notin Scanner /\ 1 \in DOMAIN pages
  BY HeapBounds, SMTT(30) DEF Thread, HeapInv, Typed
<1>2. \A u \in Thread \ {t} : at'[u] = at[u]
  BY DEF Insert, Update, StartInsert, TakeLastPage, Grow, TooLarge, Place, Leave, Do,
         UpdateTupleMeta, UpdateTupleInPlace, HeapInv, Typed
<1>3. at'[t].do \in {"latched", "placing"} /\ ~Inserting(t) => StartInsert(t)
  BY <1>1 DEF Insert, Update, TakeLastPage, Grow, TooLarge, Place, Leave, Do, Inserting, Idle,
              UpdateTupleMeta, UpdateTupleInPlace, HeapInv, Typed
<1>4. Grown
  <2>1. CASE UNCHANGED pages
    <3>1. \A p \in DOMAIN pages : Len(pages[p].slots) \in Nat
      BY PageTyped
    <3> QED BY <2>1, <3>1
  <2>2. CASE Grow(t)
    <3>1. \A p \in DOMAIN pages : pages'[p].slots = pages[p].slots /\ Len(pages[p].slots) \in Nat
      BY <2>2, GrowPages, PageTyped
    <3>2. DOMAIN pages \subseteq DOMAIN pages'
      BY <2>2, GrowPages
    <3> QED BY <1>1, <3>1, <3>2
  <2>3. CASE Place(t)
    <3> DEFINE n == Len(pages)
               old == pages[n].slots
               new == pages'[n].slots
    <3>1. /\ n \in DOMAIN pages /\ Len(old) \in Nat /\ Len(new) = Len(old) + 1 /\ new # <<>>
          /\ DOMAIN pages' = DOMAIN pages
          /\ \A q \in DOMAIN pages \ {n} : pages'[q].slots = pages[q].slots
      BY <2>3, PlacePages
    <3>2. \A q \in DOMAIN pages : Len(pages[q].slots) \in Nat
      BY PageTyped
    <3>3. Inserting(t)
      BY <2>3 DEF Place, Inserting
    <3> HIDE DEF n
    <3>4. \A q \in DOMAIN pages : Len(pages[q].slots) <= Len(pages'[q].slots)
      BY <3>1, <3>2
    <3>5. pages'[1].slots = <<>> => pages[1].slots = <<>>
      BY <3>1, <1>1
    <3> QED BY <3>1, <3>3, <3>4, <3>5
  <2>4. CASE Update(t)
    <3> DEFINE Kept == DOMAIN pages' = DOMAIN pages /\ \A q \in DOMAIN pages :
                  /\ Len(pages'[q].slots) = Len(pages[q].slots) /\ Len(pages[q].slots) \in Nat
                  /\ pages'[q].slots = <<>> <=> pages[q].slots = <<>>
    <3>1. ASSUME NEW rid \in Rid, NEW row, Set(rid, row) PROVE Kept
      BY <3>1, SetPages
    <3>2. ASSUME UpdateTupleMeta(t) PROVE Kept
      <4>1. PICK rid \in Rid, d \in BOOLEAN : Set(rid, [tuple |-> SlotAt(rid).row.tuple, deleted |-> d])
        BY <3>2 DEF UpdateTupleMeta
      <4> QED BY <3>1, <4>1
    <3>3. ASSUME UpdateTupleInPlace(t) PROVE Kept
      <4>1. PICK rid \in Rid, row \in Row : Set(rid, row)
        BY <3>3 DEF UpdateTupleInPlace
      <4> QED BY <3>1, <4>1
    <3>4. Kept
      BY <2>4, <3>2, <3>3 DEF Update
    <3> QED BY <3>4, <1>1
  <2> QED BY <2>1, <2>2, <2>3, <2>4 DEF Insert, StartInsert, TakeLastPage, TooLarge, Leave
<1>5. ASSUME NEW s \in Scanner PROVE StopOK(at[s])'
  <2>1. at'[s] = at[s] /\ StopOK(at[s])
    BY <1>1, <1>2 DEF StopInv, Thread
  <2>2. at[s].do \in {"open", "at"} =>
           at[s].stop \in SUBSET RidType
    BY DEF HeapInv, Typed, StateOK, Thread
  <2>3. SUFFICES ASSUME at[s].do \in {"open", "at"}, NEW stop \in at[s].stop
                 PROVE  /\ stop.page \in DOMAIN pages' /\ stop.slot <= Len(pages'[stop.page].slots)
                        /\ stop.slot = 0 => at[s].do = "open" /\ stop.page = 1 /\ pages'[1].slots = <<>>
                        /\ at[s].do = "at" => Sooner(at[s].rid, stop)
    BY <2>1 DEF StopOK
  <2>4. /\ stop.page \in DOMAIN pages /\ stop.slot <= Len(pages[stop.page].slots)
        /\ stop.slot = 0 => at[s].do = "open" /\ stop.page = 1 /\ pages[1].slots = <<>>
        /\ at[s].do = "at" => Sooner(at[s].rid, stop)
    BY <2>1, <2>3 DEF StopOK
  <2>5. stop.slot = 0 => ~Inserting(t)
    BY <2>4 DEF StopInv, FirstAlone, Opening
  <2>6. stop.slot \in Nat /\ Len(pages[stop.page].slots) \in Nat
    BY <2>2, <2>3, <2>4, PageTyped DEF RidType
  <2>7. Len(pages'[stop.page].slots) \in Nat
    BY <1>4, <2>4, HeapInvStep, PageTyped DEF Next
  <2> QED BY <1>4, <2>4, <2>5, <2>6, <2>7
<1>6. FirstAlone'
  <2> SUFFICES ASSUME pages'[1].slots = <<>>, NEW s \in Scanner, NEW w \in Writer,
                      Opening(s)', Inserting(w)'
               PROVE  FALSE
    BY DEF FirstAlone
  <2>1. pages[1].slots = <<>>
    BY <1>4
  <2>2. Opening(s)
    BY <1>1, <1>2 DEF Opening, Thread
  <2>3. ~Inserting(w) /\ ~Inserting(t)
    BY <2>1, <2>2 DEF StopInv, FirstAlone
  <2>4. w = t
    BY <1>2, <2>3 DEF Inserting, Thread
  <2>5. StartInsert(t)
    BY <1>3, <2>3, <2>4 DEF Inserting
  <2> QED BY <2>1, <2>2, <2>5 DEF StartInsert, Alone
<1> QED BY <1>5, <1>6 DEF StopInv

\* The iterator of MakeIterator stops where it promised, if no scan of the
\* empty table overlaps the insertion of its first row.
THEOREM HeapStops ==
    ASSUME FirstRowAlone
    PROVE  Spec => []StopsInBound
<1>1. Init => StopInv
  BY DEF Init, StopInv, FirstAlone, StopOK, Idle, Inserting, Thread
<1>2. HeapInv /\ StopInv /\ [Next]_vars => StopInv'
  <2> SUFFICES ASSUME HeapInv, StopInv, [Next]_vars PROVE StopInv'
    OBVIOUS
  <2>1. CASE UNCHANGED vars
    BY <2>1 DEF vars, StopInv, FirstAlone, StopOK, Opening, Inserting
  <2> QED BY <2>1, ScanStops, WriterStops DEF Next
<1>3. HeapInv /\ StopInv => StopsInBound
  BY DEF StopInv, StopOK, StopsInBound, InBound
<1> QED BY <1>1, <1>2, <1>3, HeapInvariant, PTL DEF Spec

-----------------------------------------------------------------------------
(* Joining sequences.                                                       *)

\* A set of numbers that has 0 and all successors of its members has them all.
LEMMA Induction ==
    ASSUME NEW S, 0 \in S, \A n \in Nat : n \in S => n + 1 \in S
    PROVE  \A n \in Nat : n \in S
<1> DEFINE less == OpToRel(<, Nat)
           out == Nat \ S
<1> SUFFICES ASSUME out # {} PROVE FALSE
  OBVIOUS
<1>1. IsWellFoundedOn(less, Nat)
  BY NatLessThanWellFounded
<1>2. \A x, y \in Nat : y < x => <<y, x>> \in less
  BY DEF OpToRel
<1> HIDE DEF less
<1>3. out \subseteq Nat
  OBVIOUS
<1> HIDE DEF out
<1>4. PICK x \in out : \A y \in out : <<y, x>> \notin less
  BY <1>1, <1>3, WFMin
<1>5. x \in Nat /\ x \notin S /\ x # 0
  BY <1>4 DEF out
<1>6. x - 1 \in Nat /\ x - 1 < x /\ (x - 1) + 1 = x
  BY <1>5
<1>7. x - 1 \in S
  BY <1>2, <1>4, <1>5, <1>6 DEF out
<1> QED BY <1>5, <1>6, <1>7

\* f joins ss up to each of its places, as FlattenSeq does.
Joins(ss, n, f) ==
    /\ f = [i \in 1..n |-> f[i]]
    /\ \A i \in 1..n : /\ i = 1 => f[i] = ss[i]
                       /\ i # 1 => f[i] = f[i - 1] \o ss[i]

LEMMA JoinsExists == ASSUME NEW ss, NEW n \in Nat PROVE \E f : Joins(ss, n, f)
<1> DEFINE S == {m \in Nat : \E f : Joins(ss, m, f)}
<1>1. 0 \in S
  <2>1. Joins(ss, 0, [i \in 1..0 |-> 0])
    BY DEF Joins
  <2> QED BY <2>1
<1>2. ASSUME NEW m \in Nat, m \in S PROVE m + 1 \in S
  <2>1. PICK f : Joins(ss, m, f)
    BY <1>2
  <2> DEFINE g == [i \in 1..(m + 1) |->
                     IF i = 1 THEN ss[i]
                     ELSE IF i = m + 1 THEN f[m] \o ss[m + 1] ELSE f[i]]
  <2>2. /\ \A i \in 1..m : g[i] = f[i]
        /\ m + 1 = 1 => g[m + 1] = ss[m + 1]
        /\ m + 1 # 1 => g[m + 1] = f[m] \o ss[m + 1]
        /\ g = [i \in 1..(m + 1) |-> g[i]]
    <3>1. \A i \in 1..m : i = 1 => ss[i] = f[i]
      BY <2>1 DEF Joins
    <3>2. \A i \in 1..m : g[i] = IF i = 1 THEN ss[i] ELSE f[i]
      OBVIOUS
    <3>3. m + 1 \in 1..(m + 1) /\ g = [i \in 1..(m + 1) |-> g[i]]
      OBVIOUS
    <3>4. g[m + 1] = IF m + 1 = 1 THEN ss[m + 1] ELSE f[m] \o ss[m + 1]
      BY <3>3
    <3> HIDE DEF g
    <3> QED BY <3>1, <3>2, <3>3, <3>4
  <2> HIDE DEF g
  <2>3. ASSUME NEW i \in 1..(m + 1)
        PROVE  /\ i = 1 => g[i] = ss[i]
               /\ i # 1 => g[i] = g[i - 1] \o ss[i]
    <3>1. CASE i = m + 1
      <4>1. i # 1 => i - 1 \in 1..m /\ i - 1 = m
        BY <3>1
      <4> QED BY <2>2, <3>1, <4>1
    <3>2. CASE i # m + 1
      <4>1. i \in 1..m /\ (i # 1 => i - 1 \in 1..m)
        BY <3>2
      <4> QED BY <2>1, <2>2, <4>1 DEF Joins
    <3> QED BY <3>1, <3>2
  <2>4. Joins(ss, m + 1, g)
    BY <2>2, <2>3 DEF Joins
  <2> QED BY <2>4
<1> HIDE DEF S
<1>3. n \in S
  BY <1>1, <1>2, Induction
<1> QED BY <1>3 DEF S

LEMMA JoinsAgree ==
    ASSUME NEW ss, NEW tt, NEW f, NEW g, NEW n \in Nat, NEW m \in Nat,
           Joins(ss, n, f), Joins(tt, m, g), NEW k \in 1..n, k <= m,
           \A i \in 1..k : ss[i] = tt[i]
    PROVE  f[k] = g[k]
<1> DEFINE S == {i \in Nat : i \in 1..k => f[i] = g[i]}
<1>1. 0 \in S
  OBVIOUS
<1>2. ASSUME NEW i \in Nat, i \in S PROVE i + 1 \in S
  <2> SUFFICES ASSUME i + 1 \in 1..k PROVE f[i + 1] = g[i + 1]
    OBVIOUS
  <2>1. i + 1 \in 1..n /\ i + 1 \in 1..m
    OBVIOUS
  <2>2. CASE i = 0
    <3>1. i + 1 = 1
      BY <2>2
    <3> QED BY <2>1, <3>1 DEF Joins
  <2>3. CASE i # 0
    <3>1. i \in 1..k /\ f[i] = g[i]
      BY <2>3, <1>2
    <3>2. f[i + 1] = f[i] \o ss[i + 1] /\ g[i + 1] = g[i] \o tt[i + 1]
      <4>1. i + 1 # 1 /\ (i + 1) - 1 = i
        BY <2>3
      <4> QED BY <2>1, <4>1 DEF Joins
    <3> QED BY <3>1, <3>2
  <2> QED BY <2>2, <2>3
<1> HIDE DEF S
<1>3. \A i \in Nat : i \in S
  BY <1>1, <1>2, Induction
<1> QED BY <1>3 DEF S

\* The first k sequences, joined.
Joined(ss, k) == FlattenSeq([i \in 1..k |-> ss[i]])

LEMMA JoinedNone == ASSUME NEW ss PROVE Joined(ss, 0) = <<>>
<1>1. [i \in 1..0 |-> ss[i]] = <<>>
  OBVIOUS
<1> QED BY <1>1 DEF Joined, FlattenSeq

LEMMA FlattenJoins ==
    ASSUME NEW ss, NEW n \in Nat \ {0}, Len(ss) = n
    PROVE  \E f : Joins(ss, n, f) /\ FlattenSeq(ss) = f[n]
<1> DEFINE Equation(f) == f = [i \in 1..n |-> IF i = 1 THEN ss[i] ELSE f[i-1] \o ss[i]]
           flatten == CHOOSE f : Equation(f)
<1>1. ASSUME NEW f, Joins(ss, n, f) PROVE Equation(f)
  BY <1>1 DEF Joins
<1>2. ASSUME NEW f, Equation(f) PROVE Joins(ss, n, f)
  <2> DEFINE g == [i \in 1..n |-> IF i = 1 THEN ss[i] ELSE f[i-1] \o ss[i]]
  <2>1. f = g
    BY <1>2
  <2>2. /\ g = [i \in 1..n |-> g[i]]
        /\ \A i \in 1..n : g[i] = IF i = 1 THEN ss[i] ELSE f[i-1] \o ss[i]
    OBVIOUS
  <2> HIDE DEF g
  <2> QED BY <2>1, <2>2 DEF Joins
<1>3. FlattenSeq(ss) = flatten[n]
  BY DEF FlattenSeq
<1> HIDE DEF Equation
<1>4. \E f : Equation(f)
  BY <1>1, JoinsExists
<1>5. Equation(flatten)
  BY <1>4
<1> QED BY <1>2, <1>3, <1>5

LEMMA JoinedNext ==
    ASSUME NEW ss, NEW k \in Nat, NEW T, ss[k + 1] \in Seq(T)
    PROVE  Joined(ss, k + 1) = Joined(ss, k) \o ss[k + 1]
<1> DEFINE now == [i \in 1..k |-> ss[i]]
           next == [i \in 1..(k + 1) |-> ss[i]]
<1>1. Len(next) = k + 1 /\ Len(now) = k
  OBVIOUS
<1>2. PICK g : Joins(next, k + 1, g) /\ FlattenSeq(next) = g[k + 1]
  <2> HIDE DEF next
  <2> QED BY <1>1, FlattenJoins
<1>3. CASE k = 0
  <2>1. g[k + 1] = next[k + 1] /\ next[k + 1] = ss[k + 1]
    BY <1>2, <1>3 DEF Joins
  <2>2. Joined(ss, k) = <<>>
    BY <1>3, JoinedNone
  <2>3. <<>> \o ss[k + 1] = ss[k + 1]
    OBVIOUS
  <2> QED BY <1>2, <2>1, <2>2, <2>3 DEF Joined
<1>4. CASE k # 0
  <2>1. PICK f : Joins(now, k, f) /\ FlattenSeq(now) = f[k]
    <3> HIDE DEF now
    <3> QED BY <1>1, <1>4, FlattenJoins
  <2>2. f[k] = g[k]
    <3>1. \A i \in 1..k : now[i] = next[i]
      OBVIOUS
    <3> HIDE DEF now, next
    <3> DEFINE more == k + 1
    <3>2. more \in Nat /\ k <= more /\ k \in 1..k
      BY <1>4
    <3>3. Joins(next, more, g) /\ Joins(now, k, f)
      BY <1>2, <2>1
    <3> HIDE DEF more
    <3> QED BY <3>1, <3>2, <3>3, JoinsAgree
  <2>3. g[k + 1] = g[k] \o next[k + 1]
    <3> HIDE DEF next
    <3>1. k + 1 \in 1..(k + 1) /\ k + 1 # 1 /\ (k + 1) - 1 = k
      BY <1>4
    <3> QED BY <1>2, <3>1 DEF Joins
  <2>4. next[k + 1] = ss[k + 1]
    OBVIOUS
  <2> QED BY <1>2, <2>1, <2>2, <2>3, <2>4 DEF Joined
<1> QED BY <1>3, <1>4

LEMMA JoinedAll == ASSUME NEW T, NEW ss \in Seq(T) PROVE Joined(ss, Len(ss)) = FlattenSeq(ss)
<1>1. [i \in 1..Len(ss) |-> ss[i]] = ss
  OBVIOUS
<1> QED BY <1>1 DEF Joined

LEMMA JoinedTyped ==
    ASSUME NEW T, NEW ss \in Seq(Seq(T))
    PROVE  \A k \in 0..Len(ss) : Joined(ss, k) \in Seq(T)
<1> DEFINE S == {k \in Nat : k <= Len(ss) => Joined(ss, k) \in Seq(T)}
<1>1. 0 \in S
  <2>1. Joined(ss, 0) = <<>> /\ <<>> \in Seq(T)
    BY JoinedNone
  <2> QED BY <2>1
<1>2. ASSUME NEW k \in Nat, k \in S PROVE k + 1 \in S
  <2> SUFFICES ASSUME k + 1 <= Len(ss) PROVE Joined(ss, k + 1) \in Seq(T)
    OBVIOUS
  <2>1. ss[k + 1] \in Seq(T) /\ Joined(ss, k) \in Seq(T)
    BY <1>2
  <2>2. Joined(ss, k + 1) = Joined(ss, k) \o ss[k + 1]
    BY <2>1, JoinedNext
  <2> QED BY <2>1, <2>2, ConcatProperties
<1> HIDE DEF S
<1>3. \A k \in Nat : k \in S
  BY <1>1, <1>2, Induction
<1> QED BY <1>3 DEF S

\* What the next sequence adds.
LEMMA JoinedStep ==
    ASSUME NEW T, NEW ss \in Seq(Seq(T)), NEW k \in Nat, k + 1 <= Len(ss)
    PROVE  /\ Joined(ss, k + 1) = Joined(ss, k) \o ss[k + 1]
           /\ Joined(ss, k) \in Seq(T) /\ ss[k + 1] \in Seq(T)
           /\ Len(Joined(ss, k + 1)) = Len(Joined(ss, k)) + Len(ss[k + 1])
<1>1. ss[k + 1] \in Seq(T) /\ k \in 0..Len(ss)
  OBVIOUS
<1>2. Joined(ss, k) \in Seq(T)
  BY <1>1, JoinedTyped
<1>3. Joined(ss, k + 1) = Joined(ss, k) \o ss[k + 1]
  BY <1>1, JoinedNext
<1> QED BY <1>1, <1>2, <1>3

\* How long it is depends on the lengths alone.
LEMMA JoinedLength ==
    ASSUME NEW T, NEW U, NEW ss \in Seq(Seq(T)), NEW tt \in Seq(Seq(U)),
           NEW n \in Nat, n <= Len(ss), n <= Len(tt),
           \A i \in 1..n : Len(ss[i]) = Len(tt[i])
    PROVE  Len(Joined(ss, n)) = Len(Joined(tt, n))
<1> DEFINE S == {k \in Nat : k <= n => Len(Joined(ss, k)) = Len(Joined(tt, k))}
<1>1. 0 \in S
  BY JoinedNone
<1>2. ASSUME NEW k \in Nat, k \in S PROVE k + 1 \in S
  <2> SUFFICES ASSUME k + 1 <= n PROVE Len(Joined(ss, k + 1)) = Len(Joined(tt, k + 1))
    OBVIOUS
  <2>1. Len(Joined(ss, k)) = Len(Joined(tt, k)) /\ Len(ss[k + 1]) = Len(tt[k + 1])
    BY <1>2
  <2>2. k + 1 <= Len(ss) /\ k + 1 <= Len(tt)
    OBVIOUS
  <2>3. Len(Joined(ss, k + 1)) = Len(Joined(ss, k)) + Len(ss[k + 1])
    BY <2>2, JoinedStep
  <2>4. Len(Joined(tt, k + 1)) = Len(Joined(tt, k)) + Len(tt[k + 1])
    BY <2>2, JoinedStep
  <2> QED BY <2>1, <2>3, <2>4
<1> HIDE DEF S
<1>3. \A k \in Nat : k \in S
  BY <1>1, <1>2, Induction
<1> QED BY <1>3 DEF S

\* Item i of sequence p follows what is before p.
LEMMA JoinedAt ==
    ASSUME NEW T, NEW ss \in Seq(Seq(T)), NEW p \in 1..Len(ss), NEW i \in 1..Len(ss[p]),
           NEW n \in p..Len(ss)
    PROVE  LET before == Len(Joined(ss, p - 1)) IN
           /\ before \in Nat /\ before + i \in 1..Len(Joined(ss, n))
           /\ before + Len(ss[p]) <= Len(Joined(ss, n))
           /\ Joined(ss, n)[before + i] = ss[p][i]
<1> DEFINE before == Len(Joined(ss, p - 1))
           Here(k) == /\ before + i \in 1..Len(Joined(ss, k))
                       /\ before + Len(ss[p]) <= Len(Joined(ss, k))
                       /\ Joined(ss, k)[before + i] = ss[p][i]
           S == {k \in Nat : p <= k /\ k <= Len(ss) => Here(k)}
<1>0. /\ before \in Nat /\ ss[p] \in Seq(T)
      /\ Len(ss) \in Nat /\ p \in Nat /\ 1 <= p /\ p <= Len(ss)
      /\ Len(ss[p]) \in Nat /\ i \in Nat /\ 1 <= i /\ i <= Len(ss[p])
  <2>1. p - 1 \in 0..Len(ss)
    OBVIOUS
  <2>2. Joined(ss, p - 1) \in Seq(T)
    BY <2>1, JoinedTyped
  <2> QED BY <2>2
<1> HIDE DEF before
<1>1. 0 \in S
  BY <1>0
<1>2. ASSUME NEW k \in Nat, k \in S PROVE k + 1 \in S
  <2> SUFFICES ASSUME p <= k + 1, k + 1 <= Len(ss) PROVE Here(k + 1)
    OBVIOUS
  <2> DEFINE now  == Joined(ss, k)
             next == ss[k + 1]
  <2>1. Joined(ss, k + 1) = now \o next /\ now \in Seq(T) /\ next \in Seq(T)
    BY JoinedStep
  <2> SUFFICES /\ before + i \in 1..Len(now \o next)
               /\ before + Len(ss[p]) <= Len(now \o next)
               /\ (now \o next)[before + i] = ss[p][i]
    BY <2>1
  <2>2. CASE k + 1 = p
    <3>1. k = p - 1
      BY <2>2, <1>0
    <3>2. before = Len(now) /\ next = ss[p]
      BY <2>2, <3>1 DEF before
    <3> HIDE DEF now, next
    <3>3. /\ Len(now \o next) = Len(now) + Len(next)
          /\ \A j \in 1..(Len(now) + Len(next)) :
                (now \o next)[j] = IF j <= Len(now) THEN now[j] ELSE next[j - Len(now)]
      BY <2>1, ConcatProperties
    <3> QED BY <3>2, <3>3, <1>0, SMTT(30)
  <2>3. CASE k + 1 # p
    <3>1. Here(k)
      <4> HIDE DEF Here
      <4>1. p <= k /\ k <= Len(ss)
        BY <2>3, <1>0
      <4> QED BY <4>1, <1>2
    <3>2. before + i \in 1..Len(now) /\ before + Len(ss[p]) <= Len(now) /\ now[before + i] = ss[p][i]
      BY <3>1
    <3> HIDE DEF now, next
    <3>3. /\ Len(now \o next) = Len(now) + Len(next) /\ Len(now) \in Nat /\ Len(next) \in Nat
          /\ \A j \in 1..(Len(now) + Len(next)) :
                (now \o next)[j] = IF j <= Len(now) THEN now[j] ELSE next[j - Len(now)]
      BY <2>1, ConcatProperties
    <3>4. before + i \in 1..(Len(now) + Len(next)) /\ before + i <= Len(now)
      BY <3>2, <3>3, <1>0
    <3>5. (now \o next)[before + i] = now[before + i]
      BY <3>3, <3>4
    <3> QED BY <3>2, <3>3, <3>4, <3>5, <1>0, SMTT(30)
  <2> QED BY <2>2, <2>3
<1> HIDE DEF S
<1>3. n \in S
  <2>1. n \in Nat
    BY <1>0
  <2> QED BY <1>1, <1>2, <2>1, Induction
<1>4. Here(n)
  <2> HIDE DEF Here
  <2> QED BY <1>0, <1>3 DEF S
<1> QED BY <1>0, <1>4 DEF before

\* A sequence changes at one place.
Put(s, i, x) == [s EXCEPT ![i] = x]

LEMMA Updated ==
    ASSUME NEW T, NEW s \in Seq(T), NEW j \in 1..Len(s), NEW x \in T
    PROVE  /\ [s EXCEPT ![j] = x] \in Seq(T) /\ Len([s EXCEPT ![j] = x]) = Len(s)
           /\ \A i \in 1..Len(s) : [s EXCEPT ![j] = x][i] = IF i = j THEN x ELSE s[i]
  OBVIOUS

LEMMA Concat ==
    ASSUME NEW T, NEW a \in Seq(T), NEW b \in Seq(T)
    PROVE  /\ Len(a) \in Nat /\ Len(b) \in Nat /\ Len(a \o b) = Len(a) + Len(b)
           /\ \A j \in 1..(Len(a) + Len(b)) : (a \o b)[j] = IF j <= Len(a) THEN a[j] ELSE b[j - Len(a)]
BY ConcatProperties

\* One sequence changes at one place.
LEMMA JoinedUpdate ==
    ASSUME NEW T, NEW ss \in Seq(Seq(T)), NEW tt \in Seq(Seq(T)), Len(tt) = Len(ss),
           NEW p \in 1..Len(ss), NEW i \in 1..Len(ss[p]), NEW x \in T,
           tt[p] = Put(ss[p], i, x), \A q \in 1..Len(ss) : q # p => tt[q] = ss[q],
           NEW n \in p..Len(ss)
    PROVE  Joined(tt, n) = Put(Joined(ss, n), Len(Joined(ss, p - 1)) + i, x)
<1> DEFINE here == Len(Joined(ss, p - 1)) + i
           Here(k) == /\ Len(Joined(tt, k)) = Len(Joined(ss, k))
                      /\ \A j \in 1..Len(Joined(ss, k)) :
                            Joined(tt, k)[j] = IF j = here THEN x ELSE Joined(ss, k)[j]
           S == {k \in Nat : p <= k /\ k <= Len(ss) => Here(k)}
<1>0. /\ ss[p] \in Seq(T) /\ tt[p] \in Seq(T) /\ Len(tt[p]) = Len(ss[p])
      /\ \A j \in 1..Len(ss[p]) : tt[p][j] = IF j = i THEN x ELSE ss[p][j]
      /\ Len(ss) \in Nat /\ p \in Nat /\ 1 <= p /\ p <= Len(ss)
  BY DEF Put
<1>1. 0 \in S
  BY <1>0
<1>2. ASSUME NEW k \in Nat, k \in S PROVE k + 1 \in S
  <2> SUFFICES ASSUME p <= k + 1, k + 1 <= Len(ss) PROVE Here(k + 1)
    OBVIOUS
  <2> DEFINE a == Joined(ss, k)
             b == ss[k + 1]
             c == Joined(tt, k)
             d == tt[k + 1]
  <2>1. Joined(ss, k + 1) = a \o b /\ a \in Seq(T) /\ b \in Seq(T)
    BY JoinedStep
  <2>2. Joined(tt, k + 1) = c \o d /\ c \in Seq(T) /\ d \in Seq(T)
    BY JoinedStep
  <2>3. /\ Len(a) \in Nat /\ Len(b) \in Nat /\ Len(a \o b) = Len(a) + Len(b)
        /\ \A j \in 1..(Len(a) + Len(b)) : (a \o b)[j] = IF j <= Len(a) THEN a[j] ELSE b[j - Len(a)]
    <3> HIDE DEF a, b
    <3> QED BY <2>1, Concat
  <2>4. /\ Len(c \o d) = Len(c) + Len(d)
        /\ \A j \in 1..(Len(c) + Len(d)) : (c \o d)[j] = IF j <= Len(c) THEN c[j] ELSE d[j - Len(c)]
    <3> HIDE DEF c, d
    <3> QED BY <2>2, Concat
  <2> SUFFICES /\ Len(c \o d) = Len(a \o b)
               /\ \A j \in 1..Len(a \o b) : (c \o d)[j] = IF j = here THEN x ELSE (a \o b)[j]
    BY <2>1, <2>2
  <2>5. CASE k + 1 = p
    <3>1. k = p - 1
      BY <2>5, <1>0
    <3>2. [j \in 1..k |-> tt[j]] = [j \in 1..k |-> ss[j]]
      BY <3>1, <1>0
    <3>3. here = Len(a) + i /\ c = a
      BY <3>1, <3>2 DEF Joined
    <3>4. /\ Len(d) = Len(b) /\ i \in 1..Len(b)
          /\ \A j \in 1..Len(b) : d[j] = IF j = i THEN x ELSE b[j]
      BY <1>0, <2>5
    <3> HIDE DEF a, b, c, d, here
    <3>5. Len(c \o d) = Len(a) + Len(b)
      BY <2>4, <3>3, <3>4
    <3>6. ASSUME NEW j \in 1..(Len(a) + Len(b))
          PROVE  (c \o d)[j] = IF j = here THEN x ELSE (a \o b)[j]
      <4>1. CASE j <= Len(a)
        <5>1. j # here
          BY <2>3, <3>3, <4>1
        <5> QED BY <2>3, <2>4, <3>3, <3>4, <4>1, <5>1
      <4>2. CASE j > Len(a)
        <5>1. j - Len(a) \in 1..Len(b) /\ (j = here <=> j - Len(a) = i)
          BY <2>3, <3>3, <3>4, <4>2
        <5>2. (c \o d)[j] = d[j - Len(a)] /\ (a \o b)[j] = b[j - Len(a)]
          <6>1. j \in 1..(Len(c) + Len(d)) /\ ~(j <= Len(c)) /\ ~(j <= Len(a)) /\ Len(c) = Len(a)
            BY <2>3, <3>3, <3>4, <4>2
          <6> QED BY <2>3, <2>4, <6>1
        <5> QED BY <3>4, <5>1, <5>2
      <4>3. j <= Len(a) \/ j > Len(a)
        BY <2>1
      <4> QED BY <4>1, <4>2, <4>3
    <3> QED BY <2>3, <3>5, <3>6
  <2>6. CASE k + 1 # p
    <3>1. p <= k /\ k <= Len(ss)
      <4>1. p \in Nat /\ Len(ss) \in Nat
        BY <1>0
      <4> HIDE DEF Here, S, a, b, c, d, here
      <4> QED BY <2>6, <4>1, SMTT(30)
    <3>2. Here(k)
      <4> HIDE DEF Here
      <4> QED BY <3>1, <1>2
    <3>3. here \in 1..Len(a)
      <4>1. k \in p..Len(ss)
        BY <3>1, <1>0
      <4> QED BY <4>1, JoinedAt
    <3>4. d = b
      BY <2>6, <1>0
    <3>5. Len(c) = Len(a) /\ \A j \in 1..Len(a) : c[j] = IF j = here THEN x ELSE a[j]
      BY <3>2
    <3> HIDE DEF a, b, c, d, here
    <3>6. Len(c \o d) = Len(a) + Len(b)
      BY <2>4, <3>4, <3>5
    <3>7. ASSUME NEW j \in 1..(Len(a) + Len(b))
          PROVE  (c \o d)[j] = IF j = here THEN x ELSE (a \o b)[j]
      <4>1. CASE j <= Len(a)
        <5>1. j \in 1..Len(a) /\ j \in 1..(Len(c) + Len(d)) /\ j <= Len(c)
          BY <2>3, <3>4, <3>5, <4>1
        <5>2. (c \o d)[j] = c[j] /\ (a \o b)[j] = a[j]
          BY <2>3, <2>4, <4>1, <5>1
        <5> QED BY <3>5, <5>1, <5>2
      <4>2. CASE j > Len(a)
        <5>1. j # here
          BY <2>3, <3>3, <4>2
        <5>2. j \in 1..(Len(c) + Len(d)) /\ ~(j <= Len(c)) /\ ~(j <= Len(a))
          BY <2>3, <3>4, <3>5, <4>2
        <5>3. (c \o d)[j] = d[j - Len(c)] /\ (a \o b)[j] = b[j - Len(a)]
          BY <2>3, <2>4, <5>2
        <5> QED BY <3>4, <3>5, <5>1, <5>3
      <4>3. j <= Len(a) \/ j > Len(a)
        BY <2>1
      <4> QED BY <4>1, <4>2, <4>3
    <3> QED BY <2>3, <3>6, <3>7
  <2> QED BY <2>5, <2>6
<1> HIDE DEF S
<1>3. n \in S
  <2>1. n \in Nat
    BY <1>0
  <2> QED BY <1>1, <1>2, <2>1, Induction
<1>4. Here(n)
  <2> HIDE DEF Here
  <2> QED BY <1>0, <1>3 DEF S
<1> DEFINE a == Joined(ss, n)
           c == Joined(tt, n)
<1>5. n \in 0..Len(ss)
  BY <1>0
<1>6. a \in Seq(T) /\ c \in Seq(T)
  BY <1>5, JoinedTyped
<1>7. here \in 1..Len(a)
  BY JoinedAt
<1>8. Len(c) = Len(a) /\ \A j \in 1..Len(a) : c[j] = IF j = here THEN x ELSE a[j]
  BY <1>4
<1> HIDE DEF a, c, here
<1>9. c = Put(a, here, x)
  <2>1. /\ Put(a, here, x) \in Seq(T) /\ Len(Put(a, here, x)) = Len(a)
        /\ \A j \in 1..Len(a) : Put(a, here, x)[j] = IF j = here THEN x ELSE a[j]
    BY <1>6, <1>7, Updated DEF Put
  <2> QED BY <1>6, <1>8, <2>1, SeqEqual
<1> QED BY <1>9 DEF a, c, here

LEMMA JoinedGrows ==
    ASSUME NEW T, NEW ss \in Seq(Seq(T)), NEW k \in Nat, NEW n \in Nat, k <= n, n <= Len(ss)
    PROVE  Len(Joined(ss, k)) <= Len(Joined(ss, n))
<1> DEFINE Here(m) == Len(Joined(ss, k)) <= Len(Joined(ss, m))
           S == {m \in Nat : k <= m /\ m <= Len(ss) => Here(m)}
<1>0. k \in 0..Len(ss) /\ Len(ss) \in Nat
  OBVIOUS
<1>1. 0 \in S
  <2>1. CASE k = 0
    <3>1. Joined(ss, k) = <<>>
      BY <2>1, JoinedNone
    <3>2. Here(0)
      BY <2>1, <3>1
    <3> HIDE DEF Here
    <3> QED BY <3>2
  <2>2. CASE k # 0
    BY <2>2
  <2> QED BY <2>1, <2>2
<1>2. ASSUME NEW m \in Nat, m \in S PROVE m + 1 \in S
  <2> SUFFICES ASSUME k <= m + 1, m + 1 <= Len(ss) PROVE Here(m + 1)
    OBVIOUS
  <2>1. CASE k = m + 1
    <3>1. Len(Joined(ss, k)) \in Nat
      BY <1>0, JoinedTyped
    <3> QED BY <2>1, <3>1
  <2>2. CASE k # m + 1
    <3>1. k <= m /\ m <= Len(ss)
      BY <2>2
    <3>2. Here(m)
      <4> HIDE DEF Here
      <4> QED BY <3>1, <1>2
    <3>3. /\ Len(Joined(ss, m + 1)) = Len(Joined(ss, m)) + Len(ss[m + 1])
          /\ Joined(ss, m) \in Seq(T) /\ ss[m + 1] \in Seq(T)
      BY JoinedStep
    <3>4. Len(Joined(ss, m)) \in Nat /\ Len(ss[m + 1]) \in Nat /\ Len(Joined(ss, k)) \in Nat
      BY <3>3, <1>0, JoinedTyped, SMTT(30)
    <3> QED BY <3>2, <3>3, <3>4
  <2> QED BY <2>1, <2>2
<1> HIDE DEF S
<1>3. n \in S
  BY <1>1, <1>2, Induction
<1> HIDE DEF Here
<1>4. Here(n)
  BY <1>0, <1>3 DEF S
<1> QED BY <1>4 DEF Here

-----------------------------------------------------------------------------
(* The rows of a table's pages, and how many there are before a page's.     *)

PageRows(page) == [i \in DOMAIN page.slots |-> page.slots[i].row]
PagesRows(pgs) == [p \in DOMAIN pgs |-> PageRows(pgs[p])]
Before(pgs, p) == Len(Joined(PagesRows(pgs), p))
PlaceIn(pgs, rid) == Len(FlattenSeq([p \in 1..(rid.page - 1) |-> pgs[p].slots])) + rid.slot

LEMMA PageRowsTyped ==
    ASSUME NEW page \in Page
    PROVE  /\ PageRows(page) \in Seq(Row) /\ Len(PageRows(page)) = Len(page.slots)
           /\ page.slots \in Seq(Slot) /\ DOMAIN page.slots = 1..Len(page.slots)
           /\ Len(page.slots) \in Nat
           /\ \A i \in DOMAIN page.slots : PageRows(page)[i] = page.slots[i].row
<1> DEFINE slots == page.slots
<1>1. slots \in Seq(Slot)
  BY DEF Page
<1>2. \A i \in 1..Len(slots) : slots[i].row \in Row
  <2> HIDE DEF slots
  <2>1. \A i \in 1..Len(slots) : slots[i] \in Slot
    BY <1>1
  <2> QED BY <2>1 DEF Slot
<1>3. DOMAIN slots = 1..Len(slots) /\ Len(slots) \in Nat
  BY <1>1
<1> HIDE DEF slots
<1> DEFINE rows == [i \in 1..Len(slots) |-> slots[i].row]
<1>4. rows \in Seq(Row) /\ Len(rows) = Len(slots) /\ \A i \in 1..Len(slots) : rows[i] = slots[i].row
  BY <1>2, <1>3
<1>5. PageRows(page) = rows
  BY <1>3 DEF PageRows, slots
<1> HIDE DEF rows
<1> QED BY <1>1, <1>3, <1>4, <1>5 DEF slots

LEMMA PagesTyped ==
    ASSUME NEW pgs \in Seq(Page)
    PROVE  /\ PagesRows(pgs) \in Seq(Seq(Row)) /\ Len(PagesRows(pgs)) = Len(pgs)
           /\ DOMAIN pgs = 1..Len(pgs) /\ Len(pgs) \in Nat
           /\ \A p \in 1..Len(pgs) :
                 /\ pgs[p] \in Page
                 /\ PagesRows(pgs)[p] = PageRows(pgs[p])
                 /\ Len(PagesRows(pgs)[p]) = Len(pgs[p].slots)
<1>1. DOMAIN pgs = 1..Len(pgs) /\ Len(pgs) \in Nat /\ \A p \in 1..Len(pgs) : pgs[p] \in Page
  OBVIOUS
<1>2. \A p \in 1..Len(pgs) : /\ PageRows(pgs[p]) \in Seq(Row)
                             /\ Len(PageRows(pgs[p])) = Len(pgs[p].slots)
  BY <1>1, PageRowsTyped
<1>3. \A p \in 1..Len(pgs) : PagesRows(pgs)[p] = PageRows(pgs[p])
  BY <1>1 DEF PagesRows
<1>4. PagesRows(pgs) \in Seq(Seq(Row)) /\ Len(PagesRows(pgs)) = Len(pgs)
  BY <1>1, <1>2 DEF PagesRows
<1> QED BY <1>1, <1>2, <1>3, <1>4

LEMMA RowsJoined ==
    ASSUME NEW pgs \in Seq(Page)
    PROVE  LET rows == FlattenSeq(PagesRows(pgs)) IN
           /\ rows = Joined(PagesRows(pgs), Len(pgs)) /\ rows \in Seq(Row)
           /\ Len(rows) = Before(pgs, Len(pgs))
<1>1. FlattenSeq(PagesRows(pgs)) = Joined(PagesRows(pgs), Len(pgs))
  BY PagesTyped, JoinedAll
<1>2. Joined(PagesRows(pgs), Len(pgs)) \in Seq(Row)
  BY PagesTyped, JoinedTyped
<1> QED BY <1>1, <1>2 DEF Before

LEMMA BeforeNext ==
    ASSUME NEW pgs \in Seq(Page)
    PROVE  /\ Before(pgs, 0) = 0
           /\ \A p \in 1..Len(pgs) : /\ Before(pgs, p) = Before(pgs, p - 1) + Len(pgs[p].slots)
                                     /\ Before(pgs, p) \in Nat /\ Before(pgs, p - 1) \in Nat
                                     /\ Len(pgs[p].slots) \in Nat
<1>1. Before(pgs, 0) = 0
  BY JoinedNone DEF Before
<1>2. ASSUME NEW p \in 1..Len(pgs)
      PROVE  /\ Before(pgs, p) = Before(pgs, p - 1) + Len(pgs[p].slots)
             /\ Before(pgs, p) \in Nat /\ Before(pgs, p - 1) \in Nat
             /\ Len(pgs[p].slots) \in Nat
  <2> DEFINE k == p - 1
             rows == PagesRows(pgs)
  <2>1. k \in Nat /\ p = k + 1 /\ k + 1 <= Len(rows) /\ rows \in Seq(Seq(Row))
        /\ Len(rows[p]) = Len(pgs[p].slots)
    BY PagesTyped
  <2> HIDE DEF k, rows
  <2>2. /\ Len(Joined(rows, k + 1)) = Len(Joined(rows, k)) + Len(rows[k + 1])
        /\ Joined(rows, k) \in Seq(Row) /\ rows[k + 1] \in Seq(Row)
    BY <2>1, JoinedStep
  <2>3. Before(pgs, p) = Before(pgs, k) + Len(pgs[p].slots) /\ Before(pgs, k) \in Nat /\ Len(pgs[p].slots) \in Nat
    BY <2>1, <2>2 DEF Before, rows
  <2> QED BY <2>3 DEF k
<1> QED BY <1>1, <1>2

LEMMA BeforeGrows ==
    ASSUME NEW pgs \in Seq(Page), NEW p \in Nat, NEW q \in Nat, p <= q, q <= Len(pgs)
    PROVE  Before(pgs, p) <= Before(pgs, q)
<1> DEFINE rows == PagesRows(pgs)
<1>1. rows \in Seq(Seq(Row)) /\ q <= Len(rows)
  BY PagesTyped
<1> HIDE DEF rows
<1> QED BY <1>1, JoinedGrows DEF Before, rows

\* How many rows there are before a page depends on the lengths of the pages before it.
LEMMA BeforeKept ==
    ASSUME NEW old \in Seq(Page), NEW new \in Seq(Page), NEW k \in Nat, k <= Len(old), k <= Len(new),
           \A p \in 1..k : Len(old[p].slots) = Len(new[p].slots)
    PROVE  Before(old, k) = Before(new, k)
<1> DEFINE a == PagesRows(old)
           b == PagesRows(new)
<1>1. /\ a \in Seq(Seq(Row)) /\ b \in Seq(Seq(Row)) /\ k <= Len(a) /\ k <= Len(b)
      /\ \A p \in 1..k : Len(a[p]) = Len(b[p])
  <2>1. ASSUME NEW p \in 1..k PROVE Len(a[p]) = Len(b[p])
    <3>1. Len(a[p]) = Len(old[p].slots) /\ Len(b[p]) = Len(new[p].slots)
      BY PagesTyped
    <3> HIDE DEF a, b
    <3> QED BY <3>1
  <2>2. a \in Seq(Seq(Row)) /\ b \in Seq(Seq(Row)) /\ k <= Len(a) /\ k <= Len(b)
    BY PagesTyped
  <2> QED BY <2>1, <2>2
<1> HIDE DEF a, b
<1> QED BY <1>1, JoinedLength DEF Before, a, b

\* Where a row is in the log.
LEMMA PlaceIs ==
    ASSUME NEW pgs \in Seq(Page), NEW rid, rid.page \in DOMAIN pgs
    PROVE  PlaceIn(pgs, rid) = Before(pgs, rid.page - 1) + rid.slot
<1> DEFINE k == rid.page - 1
           slots == [p \in DOMAIN pgs |-> pgs[p].slots]
           rows == PagesRows(pgs)
<1>1. k \in Nat /\ k <= Len(pgs) /\ DOMAIN pgs = 1..Len(pgs) /\ Len(pgs) \in Nat
  BY PagesTyped
<1>2. \A p \in DOMAIN pgs : pgs[p].slots \in Seq(Slot)
  BY <1>1, PagesTyped, PageRowsTyped
<1>3. slots \in Seq(Seq(Slot)) /\ Len(slots) = Len(pgs) /\ \A p \in DOMAIN pgs : slots[p] = pgs[p].slots
  BY <1>1, <1>2
<1>4. [p \in 1..k |-> slots[p]] = [p \in 1..k |-> pgs[p].slots]
  BY <1>1
<1>5. PlaceIn(pgs, rid) = Len(Joined(slots, k)) + rid.slot
  BY <1>4 DEF PlaceIn, Joined
<1>6. \A p \in 1..k : Len(slots[p]) = Len(rows[p])
  <2> SUFFICES ASSUME NEW p \in 1..k PROVE Len(slots[p]) = Len(rows[p])
    OBVIOUS
  <2>1. p \in 1..Len(pgs)
    BY <1>1
  <2>2. slots[p] = pgs[p].slots
    BY <1>1, <1>3, <2>1
  <2>3. Len(rows[p]) = Len(pgs[p].slots)
    BY <2>1, PagesTyped
  <2> HIDE DEF slots, rows
  <2> QED BY <2>2, <2>3
<1>7. rows \in Seq(Seq(Row)) /\ k <= Len(rows) /\ k <= Len(slots)
  BY <1>1, <1>3, PagesTyped
<1> HIDE DEF slots, k, rows
<1>8. Len(Joined(slots, k)) = Len(Joined(rows, k))
  BY <1>1, <1>3, <1>6, <1>7, JoinedLength
<1> QED BY <1>5, <1>8 DEF Before, k, rows

\* The row of a slot in the log.
LEMMA RowAt ==
    ASSUME NEW pgs \in Seq(Page), NEW rid, rid.page \in DOMAIN pgs, rid.slot \in Nat,
           rid.slot < Len(pgs[rid.page].slots)
    PROVE  LET rows == FlattenSeq(PagesRows(pgs)) IN
           /\ PlaceIn(pgs, rid) \in Nat
           /\ PlaceIn(pgs, rid) < Before(pgs, rid.page) /\ PlaceIn(pgs, rid) < Len(rows)
           /\ rows[PlaceIn(pgs, rid) + 1] = pgs[rid.page].slots[rid.slot + 1].row
<1> DEFINE ss == PagesRows(pgs)
           p == rid.page
           i == rid.slot + 1
           n == Len(pgs)
<1>1. /\ p \in 1..n /\ n \in Nat /\ ss \in Seq(Seq(Row)) /\ Len(ss) = n
      /\ ss[p] = PageRows(pgs[p]) /\ Len(ss[p]) = Len(pgs[p].slots) /\ pgs[p] \in Page
  BY PagesTyped
<1>2. i \in 1..Len(ss[p]) /\ i \in DOMAIN pgs[p].slots /\ ss[p][i] = pgs[p].slots[i].row
  <2> DEFINE page == pgs[p]
  <2>1. i \in 1..Len(page.slots)
    BY <1>1, PageRowsTyped, SMTT(30)
  <2>2. page \in Page /\ ss[p] = PageRows(page) /\ Len(ss[p]) = Len(page.slots)
    BY <1>1
  <2> HIDE DEF page, ss, i, p
  <2>3. i \in DOMAIN page.slots /\ PageRows(page)[i] = page.slots[i].row
    BY <2>1, <2>2, PageRowsTyped
  <2> QED BY <2>1, <2>2, <2>3 DEF page
<1>3. /\ Before(pgs, p - 1) \in Nat /\ Before(pgs, p) = Before(pgs, p - 1) + Len(pgs[p].slots)
      /\ Len(pgs[p].slots) \in Nat /\ Before(pgs, p) <= Before(pgs, n)
  <2>1. p \in Nat /\ p <= n /\ n <= Len(pgs)
    BY <1>1
  <2>2. Before(pgs, p) <= Before(pgs, n)
    <3> HIDE DEF p, n
    <3> QED BY <1>1, <2>1, BeforeGrows
  <2> QED BY <1>1, <2>2, BeforeNext
<1>4. PlaceIn(pgs, rid) = Before(pgs, p - 1) + rid.slot
  BY PlaceIs
<1>5. FlattenSeq(ss) = Joined(ss, n) /\ Len(FlattenSeq(ss)) = Before(pgs, n)
  BY RowsJoined
<1>6. Joined(ss, n)[Before(pgs, p - 1) + i] = ss[p][i]
  <2> HIDE DEF ss, p, i
  <2>1. n \in p..Len(ss) /\ p \in 1..Len(ss) /\ Before(pgs, p - 1) = Len(Joined(ss, p - 1))
    BY <1>1 DEF Before, ss
  <2>2. i \in 1..Len(ss[p]) /\ ss \in Seq(Seq(Row)) /\ p \in Nat
    BY <1>1, <1>2
  <2> HIDE DEF n
  <2>3. Joined(ss, n)[Len(Joined(ss, p - 1)) + i] = ss[p][i]
    BY <2>1, <2>2, JoinedAt
  <2> QED BY <2>1, <2>3
<1>7. Before(pgs, p - 1) + i = PlaceIn(pgs, rid) + 1
  BY <1>3, <1>4
<1> HIDE DEF ss, p, n
<1>8. Before(pgs, n) \in Nat
  <2>1. 1..Len(pgs) # {} /\ n \in 1..Len(pgs)
    BY <1>1 DEF n
  <2> QED BY <2>1, BeforeNext
<1>9. PlaceIn(pgs, rid) \in Nat /\ PlaceIn(pgs, rid) < Before(pgs, p) /\ PlaceIn(pgs, rid) < Before(pgs, n)
  <2>1. rid.slot < Len(pgs[p].slots)
    BY DEF p
  <2> QED BY <1>3, <1>4, <1>8, <2>1, SMTT(30)
<1> QED BY <1>2, <1>5, <1>6, <1>7, <1>9 DEF ss, p

\* A page is added, with no row.
LEMMA RowsSame ==
    ASSUME NEW old \in Seq(Page), NEW new \in Seq(Page), Len(new) = Len(old) + 1,
           \A p \in 1..Len(old) : new[p].slots = old[p].slots, new[Len(new)].slots = <<>>
    PROVE  FlattenSeq(PagesRows(new)) = FlattenSeq(PagesRows(old))
<1> DEFINE a == PagesRows(old)
           b == PagesRows(new)
           n == Len(old)
<1>1. /\ a \in Seq(Seq(Row)) /\ Len(a) = n /\ b \in Seq(Seq(Row)) /\ Len(b) = n + 1 /\ n \in Nat
      /\ FlattenSeq(a) = Joined(a, n) /\ FlattenSeq(a) \in Seq(Row) /\ FlattenSeq(b) = Joined(b, n + 1)
  BY PagesTyped, RowsJoined
<1>2. ASSUME NEW p \in 1..n PROVE a[p] = b[p]
  <2>1. p \in 1..Len(new) /\ new[p].slots = old[p].slots
    BY <1>1
  <2>2. a[p] = PageRows(old[p]) /\ b[p] = PageRows(new[p])
    BY <2>1, PagesTyped
  <2> QED BY <2>1, <2>2 DEF PageRows
<1>3. b[n + 1] = <<>>
  <2>1. n + 1 \in 1..Len(new) /\ new[n + 1].slots = <<>>
    BY <1>1
  <2>2. b[n + 1] = PageRows(new[n + 1])
    BY <2>1, PagesTyped
  <2>3. [i \in DOMAIN << >> |-> new[n + 1].slots[i].row] = << >>
    OBVIOUS
  <2> QED BY <2>1, <2>2, <2>3 DEF PageRows
<1> HIDE DEF a, b, n
<1>4. Joined(b, n) = Joined(a, n)
  <2>1. [i \in 1..n |-> b[i]] = [i \in 1..n |-> a[i]]
    BY <1>2
  <2> QED BY <2>1 DEF Joined
<1>5. Joined(b, n + 1) = Joined(b, n) \o b[n + 1]
  <2>1. n + 1 <= Len(b)
    BY <1>1
  <2> QED BY <1>1, <2>1, JoinedStep
<1>6. FlattenSeq(b) = FlattenSeq(a) \o <<>>
  BY <1>1, <1>3, <1>4, <1>5
<1> QED BY <1>1, <1>6, ConcatEmptySeq DEF a, b

LEMMA AppendRight ==
    ASSUME NEW T, NEW s \in Seq(T), NEW r \in Seq(T), NEW x \in T
    PROVE  s \o Append(r, x) = Append(s \o r, x)
<1>1. Append(r, x) = r \o <<x>>
  BY AppendIsConcat
<1>2. <<x>> \in Seq(T) /\ s \o r \in Seq(T)
  BY ConcatProperties
<1>3. s \o (r \o <<x>>) = (s \o r) \o <<x>>
  BY <1>2, ConcatAssociative
<1> DEFINE c == s \o r
<1>4. Append(c, x) = c \o <<x>>
  <2>1. c \in Seq(T)
    BY <1>2
  <2> HIDE DEF c
  <2> QED BY <2>1, AppendIsConcat
<1> QED BY <1>1, <1>3, <1>4

\* A row is added to the last page.
LEMMA RowsAppend ==
    ASSUME NEW old \in Seq(Page), NEW new \in Seq(Page), Len(new) = Len(old), Len(old) # 0,
           \A p \in 1..(Len(old) - 1) : new[p].slots = old[p].slots,
           NEW row \in Row, PageRows(new[Len(old)]) = Append(PageRows(old[Len(old)]), row)
    PROVE  FlattenSeq(PagesRows(new)) = Append(FlattenSeq(PagesRows(old)), row)
<1> DEFINE a == PagesRows(old)
           b == PagesRows(new)
           n == Len(old)
           k == n - 1
<1>1. /\ a \in Seq(Seq(Row)) /\ Len(a) = n /\ b \in Seq(Seq(Row)) /\ Len(b) = n /\ n \in Nat
      /\ FlattenSeq(a) = Joined(a, n) /\ FlattenSeq(b) = Joined(b, n)
  BY PagesTyped, RowsJoined
<1>2. ASSUME NEW p \in 1..k PROVE a[p] = b[p]
  <2>1. p \in 1..Len(old) /\ p \in 1..Len(new) /\ new[p].slots = old[p].slots
    BY <1>1
  <2>2. a[p] = PageRows(old[p]) /\ b[p] = PageRows(new[p])
    BY <2>1, PagesTyped
  <2> QED BY <2>1, <2>2 DEF PageRows
<1>3. b[n] = Append(a[n], row)
  <2>1. n \in 1..Len(old) /\ n \in 1..Len(new)
    BY <1>1
  <2>2. a[n] = PageRows(old[n]) /\ b[n] = PageRows(new[n])
    BY <2>1, PagesTyped
  <2> QED BY <2>2
<1>4. k \in Nat /\ n = k + 1
  BY <1>1
<1> HIDE DEF a, b, n, k
<1>5. Joined(b, k) = Joined(a, k)
  <2>1. [i \in 1..k |-> b[i]] = [i \in 1..k |-> a[i]]
    BY <1>2
  <2> QED BY <2>1 DEF Joined
<1>6. /\ Joined(a, k + 1) = Joined(a, k) \o a[k + 1]
      /\ Joined(a, k) \in Seq(Row) /\ a[k + 1] \in Seq(Row)
      /\ Joined(b, k + 1) = Joined(b, k) \o b[k + 1]
  <2>1. k + 1 <= Len(a) /\ k + 1 <= Len(b)
    BY <1>1, <1>4
  <2> QED BY <1>1, <1>4, <2>1, JoinedStep
<1> DEFINE s == Joined(a, k)
           r == a[k + 1]
<1>8. s \o Append(r, row) = Append(s \o r, row)
  <2> HIDE DEF s, r
  <2>1. s \in Seq(Row) /\ r \in Seq(Row)
    BY <1>6 DEF s, r
  <2> QED BY <2>1, AppendRight, SMTT(30)
<1> QED BY <1>1, <1>3, <1>4, <1>5, <1>6, <1>8 DEF a, b

\* A row is replaced.
LEMMA RowsPut ==
    ASSUME NEW old \in Seq(Page), NEW new \in Seq(Page), Len(new) = Len(old),
           NEW p \in 1..Len(old), NEW i \in 1..Len(old[p].slots), NEW row \in Row,
           PageRows(new[p]) = Put(PageRows(old[p]), i, row),
           \A q \in 1..Len(old) : q # p => new[q].slots = old[q].slots
    PROVE  FlattenSeq(PagesRows(new)) = Put(FlattenSeq(PagesRows(old)), Before(old, p - 1) + i, row)
<1> DEFINE a == PagesRows(old)
           b == PagesRows(new)
           n == Len(old)
<1>1. /\ a \in Seq(Seq(Row)) /\ Len(a) = n /\ b \in Seq(Seq(Row)) /\ Len(b) = n /\ n \in Nat
      /\ FlattenSeq(a) = Joined(a, n) /\ FlattenSeq(b) = Joined(b, n)
  BY PagesTyped, RowsJoined
<1>2. ASSUME NEW q \in 1..n, q # p PROVE b[q] = a[q]
  <2>1. q \in 1..Len(new) /\ new[q].slots = old[q].slots
    BY <1>2
  <2>2. a[q] = PageRows(old[q]) /\ b[q] = PageRows(new[q])
    BY <2>1, PagesTyped
  <2> QED BY <2>1, <2>2 DEF PageRows
<1>3. b[p] = Put(a[p], i, row) /\ i \in 1..Len(a[p])
  BY PagesTyped
<1>4. n \in p..Len(a) /\ p \in 1..Len(a) /\ Len(b) = Len(a)
  BY <1>1
<1> HIDE DEF a, b, n
<1>5. Joined(b, n) = Put(Joined(a, n), Len(Joined(a, p - 1)) + i, row)
  <2>1. \A q \in 1..Len(a) : q # p => b[q] = a[q]
    BY <1>1, <1>2
  <2>2. a \in Seq(Seq(Row)) /\ b \in Seq(Seq(Row))
    BY <1>1
  <2> QED BY <1>3, <1>4, <2>1, <2>2, JoinedUpdate, ZenonT(40)
<1> QED BY <1>1, <1>5 DEF Before, a, b

-----------------------------------------------------------------------------
(* The invariant of the refinement.                                         *)

\* An iterator stops after the rows there were when it was made, and at one place.
LogOK(s) ==
    /\ s.do = "bound" => s.rows \in Nat /\ s.rows <= Before(pages, s.last)
    /\ s.do \in {"open", "at"} => \A a, b \in s.stop : a = b

LogInv ==
    /\ Len(pages) > 1 => pages[1].slots # <<>>
    /\ \A t \in Scanner : LogOK(at[t])

\* Pages are added, and rows only to the last one there was.
Grown(old, new) ==
    /\ old \in Seq(Page) /\ new \in Seq(Page) /\ Len(old) <= Len(new) /\ Len(old) # 0
    /\ \A p \in 1..Len(old) : Len(old[p].slots) <= Len(new[p].slots)
    /\ \A p \in 1..(Len(old) - 1) : Len(old[p].slots) = Len(new[p].slots)

\* Rows keep their places.
LEMMA PlaceKept ==
    ASSUME NEW old, NEW new, Grown(old, new), NEW rid, rid.page \in DOMAIN old
    PROVE  PlaceIn(new, rid) = PlaceIn(old, rid)
<1> DEFINE k == rid.page - 1
<1>1. old \in Seq(Page) /\ new \in Seq(Page) /\ rid.page \in 1..Len(old) /\ Len(old) <= Len(new)
      /\ DOMAIN new = 1..Len(new) /\ Len(new) \in Nat /\ Len(old) \in Nat
  BY DEF Grown
<1>2. k \in Nat /\ k <= Len(old) /\ k <= Len(new) /\ rid.page \in DOMAIN new
  BY <1>1
<1>3. \A p \in 1..k : Len(old[p].slots) = Len(new[p].slots)
  BY <1>1 DEF Grown
<1>4. Before(old, k) = Before(new, k)
  <2> HIDE DEF k
  <2> QED BY <1>1, <1>2, <1>3, BeforeKept
<1>5. PlaceIn(old, rid) = Before(old, k) + rid.slot /\ PlaceIn(new, rid) = Before(new, k) + rid.slot
  BY <1>1, <1>2, PlaceIs
<1> QED BY <1>4, <1>5

LEMMA BeforeMore ==
    ASSUME NEW old, NEW new, Grown(old, new), NEW p \in 1..Len(old)
    PROVE  Before(old, p) \in Nat /\ Before(new, p) \in Nat /\ Before(old, p) <= Before(new, p)
<1> DEFINE k == p - 1
<1>1. old \in Seq(Page) /\ new \in Seq(Page) /\ Len(old) <= Len(new) /\ p \in 1..Len(new)
      /\ k \in Nat /\ k <= Len(old) /\ k <= Len(new)
  BY DEF Grown
<1>2. \A q \in 1..k : Len(old[q].slots) = Len(new[q].slots)
  BY DEF Grown
<1>3. Before(old, k) = Before(new, k)
  <2> HIDE DEF k
  <2> QED BY <1>1, <1>2, BeforeKept
<1>4. /\ Before(old, p) = Before(old, k) + Len(old[p].slots) /\ Before(old, k) \in Nat
      /\ Before(new, p) = Before(new, k) + Len(new[p].slots) /\ Before(new, k) \in Nat
      /\ Len(old[p].slots) \in Nat /\ Len(new[p].slots) \in Nat
      /\ Before(old, p) \in Nat /\ Before(new, p) \in Nat
  BY <1>1, BeforeNext
<1>5. Len(old[p].slots) <= Len(new[p].slots)
  BY DEF Grown
<1> HIDE DEF k
<1> QED BY <1>3, <1>4, <1>5

LEMMA WriterGrows ==
    ASSUME HeapInv, NEW t \in Writer, Insert(t) \/ Update(t)
    PROVE  /\ Grown(pages, pages') /\ HeapInv'
           /\ \A u \in Scanner : at'[u] = at[u]
           /\ pages'[1].slots = <<>> => pages[1].slots = <<>>
           /\ Len(pages') > Len(pages) => pages[Len(pages)].slots # <<>>
<1>1. HeapInv'
  BY StartInsertStep, TakeLastPageStep, GrowStep, TooLargeStep, PlaceStep, LeaveStep, UpdateStep DEF Insert
<1>2. pages \in Seq(Page) /\ pages' \in Seq(Page) /\ DOMAIN pages = 1..Len(pages) /\ Len(pages) \in Nat \ {0}
  BY <1>1 DEF HeapInv, Typed
<1>3. \A u \in Scanner : at'[u] = at[u]
  BY HeapBounds DEF Thread, Insert, Update, StartInsert, TakeLastPage, Grow, TooLarge, Place, Leave, Do,
         UpdateTupleMeta, UpdateTupleInPlace, HeapInv, Typed
<1>4. \A p \in 1..Len(pages) : Len(pages[p].slots) \in Nat
  BY <1>2, PageTyped
<1> DEFINE Kept == /\ Grown(pages, pages')
                   /\ pages'[1].slots = <<>> => pages[1].slots = <<>>
                   /\ Len(pages') > Len(pages) => pages[Len(pages)].slots # <<>>
<1> SUFFICES Kept
  BY <1>1, <1>3
<1>5. CASE UNCHANGED pages
  BY <1>2, <1>4, <1>5 DEF Grown
<1>6. CASE Grow(t)
  <2>1. /\ Len(pages') = Len(pages) + 1 /\ \A p \in 1..Len(pages) : pages'[p].slots = pages[p].slots
        /\ pages[Len(pages)].slots # <<>>
    BY <1>6, GrowPages
  <2> QED BY <1>2, <1>4, <2>1 DEF Grown
<1>7. CASE Place(t)
  <2> DEFINE n == Len(pages)
  <2>1. /\ Len(pages'[n].slots) = Len(pages[n].slots) + 1 /\ pages'[n].slots # <<>>
        /\ Len(pages') = n /\ \A p \in DOMAIN pages \ {n} : pages'[p].slots = pages[p].slots
    BY <1>7, PlacePages
  <2>3. n \in Nat \ {0} /\ DOMAIN pages = 1..n
    BY <1>2
  <2>2. \A p \in 1..(n - 1) : p \in DOMAIN pages \ {n}
    <3> HIDE DEF n
    <3> QED BY <2>3
  <2>4. \A p \in 1..n : Len(pages[p].slots) <= Len(pages'[p].slots)
    BY <1>4, <2>1, <2>3
  <2>5. \A p \in 1..(n - 1) : Len(pages[p].slots) = Len(pages'[p].slots)
    BY <2>1, <2>2
  <2>6. Grown(pages, pages')
    BY <1>2, <2>1, <2>4, <2>5 DEF Grown
  <2>7. pages'[1].slots = <<>> => pages[1].slots = <<>>
    BY <2>1, <2>3
  <2> QED BY <2>1, <2>3, <2>6, <2>7
<1>8. ASSUME NEW rid \in Rid, NEW row, Set(rid, row) PROVE Kept
  <2>1. /\ DOMAIN pages' = DOMAIN pages
        /\ \A p \in DOMAIN pages : /\ Len(pages'[p].slots) = Len(pages[p].slots)
                                   /\ pages'[p].slots = <<>> <=> pages[p].slots = <<>>
    BY <1>8, SetPages
  <2>2. Len(pages') = Len(pages)
    BY <1>2, <2>1
  <2> QED BY <1>2, <1>4, <2>1, <2>2, SMTT(30) DEF Grown
<1>9. CASE Update(t)
  <2>1. ASSUME UpdateTupleMeta(t) PROVE Kept
    <3>1. PICK rid \in Rid, d \in BOOLEAN : Set(rid, [tuple |-> SlotAt(rid).row.tuple, deleted |-> d])
      BY <2>1 DEF UpdateTupleMeta
    <3> QED BY <1>8, <3>1
  <2>2. ASSUME UpdateTupleInPlace(t) PROVE Kept
    <3>1. PICK rid \in Rid, row \in Row : Set(rid, row)
      BY <2>2 DEF UpdateTupleInPlace
    <3> QED BY <1>8, <3>1
  <2> HIDE DEF Kept
  <2> QED BY <1>9, <2>1, <2>2 DEF Update
<1> HIDE DEF Kept
<1> QED BY <1>5, <1>6, <1>7, <1>9 DEF Insert, StartInsert, TakeLastPage, TooLarge, Leave

\* The numbers of rows, and the places of rows, in the state and after a step.
LEMMA RowsAre ==
    ASSUME HeapInv
    PROVE  /\ Rows = FlattenSeq(PagesRows(pages)) /\ Rows \in Seq(Row)
           /\ Len(Rows) = Before(pages, Len(pages)) /\ Len(Rows) \in Nat
           /\ pages \in Seq(Page) /\ DOMAIN pages = 1..Len(pages) /\ Len(pages) \in Nat \ {0}
           /\ \A p \in 1..Len(pages) : Before(pages, p) \in Nat /\ Before(pages, p) <= Len(Rows)
<1>1. pages \in Seq(Page) /\ DOMAIN pages = 1..Len(pages) /\ Len(pages) \in Nat \ {0}
  BY DEF HeapInv, Typed
<1>2. Rows = FlattenSeq(PagesRows(pages))
  BY DEF Rows, PagesRows, PageRows
<1>3. Rows \in Seq(Row) /\ Len(Rows) = Before(pages, Len(pages)) /\ Len(Rows) \in Nat
  BY <1>1, <1>2, RowsJoined
<1>4. \A p \in 1..Len(pages) : Before(pages, p) \in Nat /\ Before(pages, p) <= Len(Rows)
  BY <1>1, <1>3, BeforeNext, BeforeGrows
<1> QED BY <1>1, <1>2, <1>3, <1>4

LEMMA RowsNext == Rows' = FlattenSeq(PagesRows(pages'))
BY DEF Rows, PagesRows, PageRows

\* A scan moves on.
LEMMA LogMoves ==
    ASSUME HeapInv, LogInv, NEW t \in Scanner, NEW s, Do(t, s), UNCHANGED pages, LogOK(s)
    PROVE  LogInv'
<1>1. \A u \in Scanner : at'[u] = IF u = t THEN s ELSE at[u]
  BY DEF Do, HeapInv, Typed, Thread
<1>2. \A x : LogOK(x) <=> LogOK(x)'
  BY DEF LogOK
<1>3. \A u \in Scanner : LogOK(at[u])'
  BY <1>1, <1>2 DEF LogInv
<1> QED BY <1>3 DEF LogInv

LEMMA ScanLogs ==
    ASSUME HeapInv, LogInv, NEW t \in Scanner, Scan(t)
    PROVE  LogInv'
<1>0. t \in Thread
  BY DEF Thread
<1>1. CASE MakeIterator(t)
  <2> DEFINE s == [do |-> "bound", last |-> last_page_id, rows |-> Len(Rows)]
  <2>1. LogOK(s)
    <3>1. last_page_id = Len(pages)
      BY DEF HeapInv, Linked
    <3>2. Len(Rows) \in Nat /\ Len(Rows) = Before(pages, Len(pages))
      BY RowsAre
    <3> QED BY <3>1, <3>2 DEF LogOK
  <2> HIDE DEF s
  <2>2. Do(t, s) /\ UNCHANGED pages
    BY <1>1 DEF MakeIterator, s
  <2> QED BY <2>1, <2>2, LogMoves
<1>2. CASE MakeEagerIterator(t)
  <2> DEFINE s == [do |-> "open", stop |-> {}]
  <2>1. LogOK(s) /\ Do(t, s) /\ UNCHANGED pages
    BY <1>2 DEF LogOK, MakeEagerIterator
  <2> QED BY <2>1, LogMoves
<1>3. CASE Bound(t)
  <2> DEFINE s == [do |-> "open", stop |-> {[page |-> at[t].last, slot |-> Len(pages[at[t].last].slots)]}]
  <2>1. LogOK(s) /\ Do(t, s) /\ UNCHANGED pages
    BY <1>3 DEF LogOK, Bound
  <2> HIDE DEF s
  <2> QED BY <2>1, LogMoves
<1> DEFINE Stays(s) == s = Idle \/ (s.do = "at" /\ s.stop = at[t].stop)
<1>4. ASSUME NEW s, at[t].do \in {"open", "at"}, Stays(s) PROVE LogOK(s)
  BY <1>4 DEF LogOK, LogInv, Idle
<1>5. CASE Open(t)
  <2> DEFINE s == IF Exists(First) THEN At(First, at[t].stop) ELSE Idle
  <2>1. Stays(s) /\ Do(t, s) /\ UNCHANGED pages /\ at[t].do = "open"
    BY <1>5 DEF Open, At
  <2> HIDE DEF s, Stays
  <2> QED BY <2>1, <1>4, LogMoves
<1>6. CASE Read(t)
  <2> DEFINE s == [at[t] EXCEPT !.got = {SlotAt(at[t].rid).row}]
  <2>1. Do(t, s) /\ UNCHANGED pages /\ at[t].do = "at"
    BY <1>6 DEF Read, Do
  <2>2. at[t] \in [do : {"at"}, rid : RidType, stop : SUBSET RidType, got : SUBSET Row]
    BY <1>0, <2>1 DEF HeapInv, Typed, StateOK
  <2>3. Stays(s)
    BY <2>2
  <2> HIDE DEF s, Stays
  <2> QED BY <2>1, <2>3, <1>4, LogMoves
<1>7. CASE Advance(t)
  <2> DEFINE rid == at[t].rid
             stops == [rid EXCEPT !.slot = @ + 1] \in at[t].stop \/ Following(rid).page = NoPage
             s == IF stops THEN Idle ELSE At(Following(rid), at[t].stop)
  <2>1. Do(t, s) /\ UNCHANGED pages /\ at[t].do = "at"
    BY <1>7 DEF Advance
  <2> HIDE DEF stops
  <2>2. Stays(s)
    BY DEF At
  <2> HIDE DEF s, Stays
  <2> QED BY <2>1, <2>2, <1>4, LogMoves
<1> QED BY <1>1, <1>2, <1>3, <1>5, <1>6, <1>7 DEF Scan

LEMMA WriterLogs ==
    ASSUME HeapInv, LogInv, NEW t \in Writer, Insert(t) \/ Update(t)
    PROVE  LogInv'
<1>1. /\ Grown(pages, pages') /\ HeapInv'
      /\ \A u \in Scanner : at'[u] = at[u]
      /\ pages'[1].slots = <<>> => pages[1].slots = <<>>
      /\ Len(pages') > Len(pages) => pages[Len(pages)].slots # <<>>
  BY WriterGrows
<1>2. Len(pages) \in Nat \ {0} /\ Len(pages') \in Nat /\ Len(pages) <= Len(pages')
  BY <1>1 DEF Grown
<1>3. Len(pages') > 1 => pages'[1].slots # <<>>
  <2>1. CASE Len(pages) = 1
    BY <1>1, <1>2, <2>1
  <2>2. CASE Len(pages) > 1
    BY <1>1, <2>2 DEF LogInv
  <2> QED BY <1>2, <2>1, <2>2, SMTT(30)
<1>4. ASSUME NEW u \in Scanner PROVE LogOK(at[u])'
  <2>1. LogOK(at[u]) /\ at'[u] = at[u]
    BY <1>1 DEF LogInv
  <2>2. CASE at[u].do = "bound"
    <3>0. DOMAIN pages = 1..Len(pages)
      BY DEF HeapInv, Typed
    <3>1. at[u].last \in 1..Len(pages)
      BY <2>2, <3>0 DEF HeapInv, Typed, StateOK, Thread
    <3>2. /\ Before(pages, at[u].last) \in Nat /\ Before(pages', at[u].last) \in Nat
          /\ Before(pages, at[u].last) <= Before(pages', at[u].last)
      BY <1>1, <3>1, BeforeMore
    <3>3. at[u].rows \in Nat /\ at[u].rows <= Before(pages, at[u].last)
      BY <2>1, <2>2 DEF LogOK
    <3>4. at[u].rows <= Before(pages', at[u].last)
      BY <3>2, <3>3
    <3> QED BY <2>1, <2>2, <3>3, <3>4 DEF LogOK
  <2>3. CASE at[u].do # "bound"
    BY <2>1, <2>3 DEF LogOK
  <2> QED BY <2>2, <2>3
<1> QED BY <1>3, <1>4 DEF LogInv

-----------------------------------------------------------------------------
(* The scans of the log.                                                    *)

Scans == [t \in Scanner |-> ScanOf(t)]

LEMMA PositionIs == \A rid : Position(rid) = PlaceIn(pages, rid) /\ Position(rid)' = PlaceIn(pages', rid)
BY DEF Position, PlaceIn

LEMMA ScanKept ==
    ASSUME HeapInv, StopInv, Grown(pages, pages'), NEW u \in Scanner, at'[u] = at[u]
    PROVE  ScanOf(u)' = ScanOf(u)
<1>1. \A rid : rid.page \in DOMAIN pages => Position(rid)' = Position(rid)
  BY PositionIs, PlaceKept
<1>2. at[u].do \in {"open", "at"} => \A r \in at[u].stop : r.page \in DOMAIN pages
  BY DEF StopInv, StopOK
<1>3. at[u].do = "at" => at[u].rid.page \in DOMAIN pages
  BY DEF HeapInv, Typed, StateOK, Thread
<1>4. at[u].do \in {"open", "at"} =>
         {Position(r)' : r \in at[u].stop} = {Position(r) : r \in at[u].stop}
  BY <1>1, <1>2
<1> HIDE DEF Position
<1> QED BY <1>1, <1>3, <1>4 DEF ScanOf

LEMMA GrownSame == ASSUME HeapInv, UNCHANGED pages PROVE Grown(pages, pages')
BY PageTyped DEF HeapInv, Typed, Grown

LEMMA ScansKept ==
    ASSUME HeapInv, StopInv, Grown(pages, pages'), \A u \in Scanner : at'[u] = at[u]
    PROVE  Scans' = Scans
BY ScanKept DEF Scans

\* What the scan of a thread is, from what the thread is doing.
ScanAt(s) ==
    IF s.do = "bound" THEN [do |-> "start", low |-> s.rows]
    ELSE IF s.do = "open"
    THEN [do |-> "read", read |-> 0, stop |-> {Position(r) : r \in s.stop}, got |-> {}]
    ELSE IF s.do = "at"
    THEN [do   |-> "read", read |-> Position(s.rid),
          stop |-> {Position(r) : r \in s.stop}, got |-> s.got]
    ELSE Idle

LEMMA ScanMoved ==
    ASSUME HeapInv, StopInv, NEW t \in Scanner, NEW s, Do(t, s), UNCHANGED pages
    PROVE  /\ Scans' = [Scans EXCEPT ![t] = ScanAt(s)] /\ Rows' = Rows
           /\ Scans[t] = ScanAt(at[t])
<1>1. /\ at'[t] = s
      /\ \A u \in Scanner \ {t} : at'[u] = at[u]
  BY DEF Do, HeapInv, Typed, Thread
<1>2. \A u \in Scanner \ {t} : ScanOf(u)' = ScanOf(u)
  BY <1>1, GrownSame, ScanKept
<1>3. Rows' = Rows
  BY DEF Rows
<1>4. Scans' = [u \in Scanner |-> ScanOf(u)']
  BY DEF Scans
<1>5. ScanOf(t)' = ScanAt(s)
  <2>1. \A r : Position(r)' = Position(r)
    BY PositionIs
  <2> HIDE DEF Position
  <2>2. {Position(r)' : r \in s.stop} = {Position(r) : r \in s.stop}
    BY <2>1
  <2>3. Position(s.rid)' = Position(s.rid)
    <3> DEFINE here == s.rid
    <3> QED BY <1>1, <2>1
  <2> QED BY <1>1, <2>1, <2>2 DEF ScanOf, ScanAt
<1> QED BY <1>2, <1>3, <1>4, <1>5 DEF Scans, ScanOf, ScanAt

-----------------------------------------------------------------------------
(* What the steps of the writers do to the log.                             *)

\* A step of the log, or none.
LogStep == [Log!Next]_(Log!vars)

LEMMA LogSame == ASSUME Rows' = Rows, Scans' = Scans PROVE LogStep
BY DEF LogStep, Log!vars, Scans

LEMMA PlaceRows ==
    ASSUME HeapInv, NEW t \in Writer, Place(t)
    PROVE  \E row \in Row : Rows' = Append(Rows, row)
<1> DEFINE n == Len(pages)
           old == pages[n].slots
           row == [tuple |-> at[t].tuple, deleted |-> FALSE]
           slot == NewSlot(pages[n], row)
           new == Append(old, slot)
<1>1. /\ n \in DOMAIN pages /\ slot \in Slot
      /\ new \in Seq(Slot) /\ Len(new) = Len(old) + 1 /\ Len(old) \in Nat
      /\ \A i \in 1..Len(old) : new[i] = old[i]
      /\ new[Len(old) + 1] = slot
      /\ pages' \in Seq(Page) /\ Len(pages') = n
      /\ pages'[n].slots = new
      /\ \A q \in DOMAIN pages \ {n} : pages'[q].slots = pages[q].slots
  BY PlacePages
<1>2. row \in Row
  <2>1. at[t].tuple \in Tuple
    BY Placing DEF Place
  <2> QED BY <2>1 DEF Row
<1>3. slot.row = row
  BY DEF NewSlot
<1>4. pages \in Seq(Page) /\ DOMAIN pages = 1..n /\ n \in Nat \ {0} /\ pages[n] \in Page /\ pages'[n] \in Page
  <2>1. pages \in Seq(Page) /\ DOMAIN pages = 1..n /\ n \in Nat \ {0}
    BY RowsAre
  <2> HIDE DEF n
  <2> QED BY <2>1, <1>1
<1> HIDE DEF n, old, row, slot, new
<1>5. PageRows(pages'[n]) = Append(PageRows(pages[n]), row)
  <2> DEFINE a == PageRows(pages[n])
             b == PageRows(pages'[n])
  <2>1. /\ a \in Seq(Row) /\ Len(a) = Len(old) /\ DOMAIN old = 1..Len(old)
        /\ \A i \in DOMAIN old : a[i] = old[i].row
    BY <1>4, PageRowsTyped DEF old
  <2>2. /\ b \in Seq(Row) /\ Len(b) = Len(new) /\ DOMAIN new = 1..Len(new)
        /\ \A i \in DOMAIN new : b[i] = new[i].row
    <3>1. pages'[n].slots = new /\ pages'[n] \in Page
      BY <1>1, <1>4
    <3> QED BY <3>1, PageRowsTyped
  <2> HIDE DEF a, b
  <2>3. \A i \in 1..Len(a) : b[i] = a[i]
    BY <1>1, <2>1, <2>2
  <2>4. b[Len(a) + 1] = row /\ Len(b) = Len(a) + 1
    BY <1>1, <1>3, <2>1, <2>2
  <2>5. Append(a, row) \in Seq(Row) /\ Len(Append(a, row)) = Len(a) + 1
        /\ \A i \in 1..(Len(a) + 1) : Append(a, row)[i] = IF i = Len(a) + 1 THEN row ELSE a[i]
    <3>1. a \in Seq(Row) /\ row \in Row
      BY <1>2, <2>1
    <3> QED BY ONLY <3>1
  <2>6. b = Append(a, row)
    <3>1. Len(a) \in Nat /\ DOMAIN b = 1..(Len(a) + 1)
      BY <2>1, <2>2, <2>4, LenProperties
    <3>2. \A i \in 1..(Len(a) + 1) : b[i] = Append(a, row)[i]
      <4> TAKE i \in 1..(Len(a) + 1)
      <4>1. i = Len(a) + 1 \/ i \in 1..Len(a)
        BY ONLY <3>1, i \in 1..(Len(a) + 1)
      <4> QED BY <2>3, <2>4, <2>5, <4>1
    <3> QED BY <2>2, <2>4, <2>5, <3>2, SeqEqual
  <2> QED BY <2>6 DEF a, b
<1>6. \A p \in 1..(n - 1) : pages'[p].slots = pages[p].slots
  <2>1. n \in Nat /\ DOMAIN pages = 1..n
    BY <1>4
  <2>2. \A p \in 1..(n - 1) : p \in 1..n /\ p # n
    BY ONLY <2>1
  <2> QED BY <1>1, <2>1, <2>2
<1>7. FlattenSeq(PagesRows(pages')) = Append(FlattenSeq(PagesRows(pages)), row)
  BY <1>1, <1>2, <1>4, <1>5, <1>6, RowsAppend DEF n
<1> QED BY <1>2, <1>7, RowsAre, RowsNext

LEMMA SetRows ==
    ASSUME HeapInv, HeapInv', NEW rid \in Rid, NEW row \in Row, Set(rid, row),
           Length(row.tuple) = Length(SlotAt(rid).row.tuple)
    PROVE  \E i \in DOMAIN Rows, r \in Row :
              Size(r) = Size(Rows[i]) /\ Rows' = [Rows EXCEPT ![i] = r]
<1> DEFINE p == rid.page
           j == rid.slot + 1
           old == pages[p].slots
           new == pages'[p].slots
           here == Position(rid) + 1
<1>1. /\ pages \in Seq(Page) /\ pages' \in Seq(Page) /\ Len(pages') = Len(pages) /\ DOMAIN pages = 1..Len(pages)
      /\ DOMAIN pages' = DOMAIN pages
  <2>1. DOMAIN pages' = DOMAIN pages
    BY SetPages
  <2>2. pages \in Seq(Page) /\ DOMAIN pages = 1..Len(pages) /\ Len(pages) \in Nat
    BY RowsAre
  <2>3. pages' \in Seq(Page)
    BY DEF HeapInv, Typed
  <2> QED BY <2>1, <2>2, <2>3
<1>2. p \in DOMAIN pages /\ rid.slot \in Nat /\ rid.slot < Len(old) /\ Len(old) \in Nat /\ j \in 1..Len(old)
  <2>1. PICK q \in DOMAIN pages : rid \in [page : {q}, slot : 0..(Len(pages[q].slots) - 1)]
    BY DEF Rid
  <2>2. Len(pages[q].slots) \in Nat
    BY PageTyped
  <2> QED BY <2>1, <2>2
<1>3. pages[p] \in Page /\ pages'[p] \in Page
  BY <1>1, <1>2
<1>4. /\ \A q \in DOMAIN pages \ {p} : pages'[q].slots = pages[q].slots
      /\ \A i \in 1..Len(old) : new[i].row = IF i = j THEN row ELSE old[i].row
  <2>0. old \in Seq(Slot) /\ DOMAIN old = 1..Len(old) /\ pages[p] \in [next : Nat, slots : Seq(Slot)]
    BY <1>3 DEF Page
  <2>1. pages' = [pages EXCEPT ![p].slots[j].row = row]
    BY DEF Set
  <2> HIDE DEF j
  <2>2. \A q \in DOMAIN pages \ {p} : pages'[q] = pages[q]
    BY <2>1
  <2>3. pages'[p] = [pages[p] EXCEPT !.slots = [old EXCEPT ![j].row = row]]
    BY <1>2, <2>1
  <2>4. new = [old EXCEPT ![j].row = row]
    BY <2>0, <2>3
  <2>5. old[j] \in Slot
    BY <1>2, <2>0
  <2>6. \A i \in 1..Len(old) : new[i] = IF i = j THEN [old[j] EXCEPT !.row = row] ELSE old[i]
    BY <2>0, <2>4
  <2>7. [old[j] EXCEPT !.row = row].row = row
    BY <2>5 DEF Slot
  <2> QED BY <2>2, <2>6, <2>7
<1>5. PageRows(pages'[p]) = Put(PageRows(pages[p]), j, row)
  <2> DEFINE a == PageRows(pages[p])
             b == PageRows(pages'[p])
  <2>1. /\ a \in Seq(Row) /\ Len(a) = Len(old) /\ DOMAIN old = 1..Len(old)
        /\ \A i \in DOMAIN old : a[i] = old[i].row
    BY <1>3, PageRowsTyped
  <2>2. /\ b \in Seq(Row) /\ Len(b) = Len(new) /\ DOMAIN new = 1..Len(new)
        /\ \A i \in DOMAIN new : b[i] = new[i].row
    BY <1>3, PageRowsTyped
  <2>3. Len(new) = Len(old)
    BY <1>2, SetPages
  <2> HIDE DEF a, b, new, old, j
  <2>4. \A i \in 1..Len(a) : b[i] = IF i = j THEN row ELSE a[i]
    BY <1>4, <2>1, <2>2, <2>3
  <2>5. /\ Put(a, j, row) \in Seq(Row) /\ Len(Put(a, j, row)) = Len(a)
        /\ \A i \in 1..Len(a) : Put(a, j, row)[i] = IF i = j THEN row ELSE a[i]
    <3>1. j \in 1..Len(a)
      BY <1>2, <2>1
    <3> QED BY <2>1, <3>1, Updated DEF Put
  <2>6. b = Put(a, j, row)
    BY <2>1, <2>2, <2>3, <2>4, <2>5, SeqEqual
  <2> QED BY <2>6 DEF a, b
<1>6. Position(rid) = Before(pages, p - 1) + rid.slot
  BY <1>1, <1>2, PlaceIs, PositionIs
<1>7. /\ Position(rid) \in Nat /\ Position(rid) < Len(Rows)
      /\ Rows[here] = old[j].row
  <2>1. LET rows == FlattenSeq(PagesRows(pages)) IN
           /\ PlaceIn(pages, rid) \in Nat
           /\ PlaceIn(pages, rid) < Before(pages, rid.page) /\ PlaceIn(pages, rid) < Len(rows)
           /\ rows[PlaceIn(pages, rid) + 1] = pages[rid.page].slots[rid.slot + 1].row
    BY <1>1, <1>2, RowAt
  <2> QED BY <2>1, RowsAre, PositionIs
<1>8. Before(pages, p - 1) \in Nat
  BY <1>1, <1>2, BeforeNext
<1>9. Before(pages, p - 1) + j = here
  <2> HIDE DEF p, Position
  <2> QED BY <1>2, <1>6, <1>8
<1>10. Rows' = Put(Rows, here, row)
  <2>1. FlattenSeq(PagesRows(pages')) = Put(FlattenSeq(PagesRows(pages)), Before(pages, p - 1) + j, row)
    <3>1. p \in 1..Len(pages) /\ j \in 1..Len(pages[p].slots)
          /\ \A q \in 1..Len(pages) : q # p => pages'[q].slots = pages[q].slots
      BY <1>1, <1>2, <1>4
    <3> HIDE DEF p, j
    <3> QED BY <1>1, <1>5, <3>1, RowsPut
  <2> QED BY <1>9, <2>1, RowsAre, RowsNext
<1>11. Size(row) = Size(Rows[here])
  <2>1. SlotAt(rid) = old[j]
    BY <1>2, <1>3, PageRowsTyped DEF SlotAt
  <2> QED BY <1>7, <2>1 DEF Size
<1>12. here \in DOMAIN Rows
  <2>1. Rows \in Seq(Row)
    BY RowsAre
  <2> HIDE DEF Position
  <2> QED BY <1>7, <2>1
<1> HIDE DEF here
<1> QED BY <1>10, <1>11, <1>12 DEF Put

LEMMA WriterRefines ==
    ASSUME HeapInv, StopInv, Uncut, ~terminated, NEW t \in Writer, Insert(t) \/ Update(t)
    PROVE  LogStep
<1>1. Grown(pages, pages') /\ HeapInv' /\ \A u \in Scanner : at'[u] = at[u]
  BY WriterGrows
<1>2. Scans' = Scans
  BY <1>1, ScansKept
<1>3. CASE UNCHANGED pages
  BY <1>2, <1>3, LogSame DEF Rows
<1>4. CASE Grow(t)
  <2>1. /\ pages' \in Seq(Page) /\ Len(pages') = Len(pages) + 1
        /\ \A p \in 1..Len(pages) : pages'[p].slots = pages[p].slots
        /\ pages'[Len(pages) + 1].slots = <<>>
    BY <1>4, GrowPages
  <2>2. FlattenSeq(PagesRows(pages')) = FlattenSeq(PagesRows(pages))
    BY <2>1, RowsAre, RowsSame
  <2> QED BY <1>2, <2>2, RowsAre, RowsNext, LogSame
<1>5. CASE Place(t)
  <2>1. \E row \in Row : Rows' = Append(Rows, row)
    BY <1>5, PlaceRows
  <2>2. Log!Insert
    BY <1>2, <2>1 DEF Log!Insert, Scans
  <2> QED BY <2>2 DEF LogStep, Log!Next
<1>6. ASSUME NEW rid \in Rid, NEW row \in Row, Length(row.tuple) = Length(SlotAt(rid).row.tuple),
             Set(rid, row)
      PROVE  LogStep
  <2>1. \E i \in DOMAIN Rows, r \in Row : Size(r) = Size(Rows[i]) /\ Rows' = [Rows EXCEPT ![i] = r]
    BY <1>1, <1>6, SetRows
  <2>2. Log!Update
    BY <1>2, <2>1 DEF Log!Update, Scans
  <2> QED BY <2>2 DEF LogStep, Log!Next
<1>7. CASE UpdateTupleMeta(t)
  <2>1. PICK rid \in Rid, d \in BOOLEAN : Set(rid, [tuple |-> SlotAt(rid).row.tuple, deleted |-> d])
    BY <1>7 DEF UpdateTupleMeta
  <2> DEFINE row == [tuple |-> SlotAt(rid).row.tuple, deleted |-> d]
  <2>2. PICK p \in DOMAIN pages : rid \in [page : {p}, slot : 0..(Len(pages[p].slots) - 1)]
    BY DEF Rid
  <2>3. rid.slot + 1 \in DOMAIN pages[p].slots /\ pages[p].slots \in Seq(Slot)
    BY <2>2, PageTyped DEF Page
  <2>4. SlotAt(rid) \in Slot
    BY <2>2, <2>3 DEF SlotAt
  <2>5. row \in Row /\ Length(row.tuple) = Length(SlotAt(rid).row.tuple)
    BY <2>4 DEF Slot, Row
  <2> HIDE DEF row
  <2>6. Set(rid, row)
    BY <2>1 DEF row
  <2> QED BY <1>6, <2>5, <2>6
<1>8. CASE UpdateTupleInPlace(t)
  <2>1. PICK rid \in Rid, row \in Row : SlotAt(rid).size = Length(row.tuple) /\ Set(rid, row)
    BY <1>8 DEF UpdateTupleInPlace
  <2>2. SlotAt(rid).size = Length(SlotAt(rid).row.tuple)
    BY UncutAt
  <2> QED BY <1>6, <2>1, <2>2
<1> QED BY <1>3, <1>4, <1>5, <1>7, <1>8 DEF Insert, Update, StartInsert, TakeLastPage, TooLarge, Leave

-----------------------------------------------------------------------------
(* What the steps of the scanners do to the log.                            *)

\* The place of a row there may be, in the order of the pages.
LEMMA PositionNat ==
    ASSUME HeapInv, NEW a \in RidType, a.page \in DOMAIN pages
    PROVE  /\ Position(a) = Before(pages, a.page - 1) + a.slot
           /\ Before(pages, a.page - 1) \in Nat /\ Before(pages, a.page) \in Nat /\ a.slot \in Nat
           /\ Before(pages, a.page) = Before(pages, a.page - 1) + Len(pages[a.page].slots)
           /\ Len(pages[a.page].slots) \in Nat /\ Position(a) \in Nat
<1>1. pages \in Seq(Page) /\ a.page \in 1..Len(pages) /\ a.slot \in Nat
  BY RowsAre DEF RidType
<1>2. Position(a) = Before(pages, a.page - 1) + a.slot
  BY <1>1, PlaceIs, PositionIs
<1> HIDE DEF Position
<1> QED BY <1>1, <1>2, BeforeNext

LEMMA SoonerPlace ==
    ASSUME HeapInv, NEW a \in RidType, NEW b \in RidType, a.page \in DOMAIN pages, b.page \in DOMAIN pages,
           a.page < b.page => a.slot < Len(pages[a.page].slots), Sooner(a, b)
    PROVE  Position(a) < Position(b)
<1>1. /\ Position(a) = Before(pages, a.page - 1) + a.slot /\ Position(a) \in Nat
      /\ Position(b) = Before(pages, b.page - 1) + b.slot /\ Position(b) \in Nat
      /\ Before(pages, a.page) = Before(pages, a.page - 1) + Len(pages[a.page].slots)
      /\ Before(pages, a.page - 1) \in Nat /\ Before(pages, a.page) \in Nat /\ Before(pages, b.page - 1) \in Nat
      /\ Len(pages[a.page].slots) \in Nat /\ a.slot \in Nat /\ b.slot \in Nat
  BY PositionNat
<1>2. pages \in Seq(Page) /\ a.page \in 1..Len(pages) /\ b.page \in 1..Len(pages)
  BY RowsAre
<1> HIDE DEF Position
<1>3. CASE a.page = b.page
  BY <1>1, <1>2, <1>3 DEF Sooner
<1>4. CASE a.page < b.page
  <2> DEFINE p == a.page
             q == b.page - 1
  <2>1. p \in Nat /\ q \in Nat /\ p <= q /\ q <= Len(pages)
    BY <1>2, <1>4
  <2>2. Before(pages, p) <= Before(pages, q)
    <3> HIDE DEF p, q
    <3> QED BY <1>2, <2>1, BeforeGrows
  <2>3. a.slot < Len(pages[a.page].slots)
    BY <1>4
  <2>4. Position(a) < Before(pages, a.page)
    BY <1>1, <2>3, SMTT(30)
  <2>5. Before(pages, b.page - 1) <= Position(b)
    BY <1>1
  <2> QED BY <1>1, <2>2, <2>4, <2>5
<1> QED BY <1>3, <1>4 DEF Sooner

LEMMA StartRefines ==
    ASSUME HeapInv, StopInv, NEW t \in Scanner, MakeIterator(t) \/ MakeEagerIterator(t)
    PROVE  LogStep
<1> DEFINE bound == [do |-> "bound", last |-> last_page_id, rows |-> Len(Rows)]
           eager == [do |-> "open", stop |-> {}]
<1>1. at[t] = Idle /\ UNCHANGED pages /\ (Do(t, bound) \/ Do(t, eager))
  BY DEF MakeIterator, MakeEagerIterator
<1>2. ScanAt(at[t]) = Log!Idle
  BY <1>1 DEF ScanAt, Idle, Log!Idle
<1>3. ScanAt(bound) = [do |-> "start", low |-> Len(Rows)] /\ ScanAt(eager) = Log!Reads(0, {})
  BY DEF ScanAt, Log!Reads
<1> HIDE DEF bound, eager
<1>4. ASSUME NEW s \in {bound, eager}, Do(t, s) PROVE LogStep
  <2>1. Scans' = [Scans EXCEPT ![t] = ScanAt(s)] /\ Rows' = Rows /\ Scans[t] = Log!Idle
    BY <1>1, <1>2, <1>4, ScanMoved
  <2>2. Log!Start(t)
    BY <1>3, <2>1 DEF Log!Start, Scans
  <2> QED BY <2>2 DEF LogStep, Log!Next
<1> QED BY <1>1, <1>4

LEMMA BoundRefines ==
    ASSUME HeapInv, StopInv, LogInv, NEW t \in Scanner, Bound(t)
    PROVE  LogStep
<1> DEFINE last == at[t].last
           stop == [page |-> last, slot |-> Len(pages[last].slots)]
           s == [do |-> "open", stop |-> {stop}]
           n == Position(stop)
<1>1. Do(t, s) /\ UNCHANGED pages /\ at[t].do = "bound"
  BY DEF Bound
<1>2. last \in 1..Len(pages) /\ DOMAIN pages = 1..Len(pages)
  BY <1>1, RowsAre DEF HeapInv, Typed, StateOK, Thread
<1>3. stop \in RidType /\ stop.page = last /\ stop.slot = Len(pages[last].slots)
  BY <1>2, PageTyped DEF RidType
<1>4. ScanAt(at[t]) = [do |-> "start", low |-> at[t].rows]
  BY <1>1 DEF ScanAt
<1>5. ScanAt(s) = Log!Reads(0, {n})
  <2> HIDE DEF Position
  <2> QED BY DEF ScanAt, Log!Reads
<1> HIDE DEF s
<1>6. Scans' = [Scans EXCEPT ![t] = ScanAt(s)] /\ Scans[t] = ScanAt(at[t]) /\ Rows' = Rows
  BY <1>1, ScanMoved
<1> HIDE DEF stop
<1>7. n = Before(pages, last)
  BY <1>2, <1>3, PositionNat
<1>8. /\ at[t].rows \in Nat /\ at[t].rows <= Before(pages, last)
      /\ Before(pages, last) \in Nat /\ Before(pages, last) <= Len(Rows) /\ Len(Rows) \in Nat
  BY <1>1, <1>2, RowsAre DEF LogInv, LogOK
<1>9. n \in at[t].rows..Len(Rows)
  BY <1>7, <1>8
<1> HIDE DEF n
<1>10. Log!Stop(t)
  <2>1. Scans[t].do = "start" /\ n \in Scans[t].low..Len(Rows)
    BY <1>4, <1>6, <1>9
  <2>2. Scans' = [Scans EXCEPT ![t] = Log!Reads(0, {n})] /\ Rows' = Rows
    BY <1>5, <1>6
  <2> QED BY <2>1, <2>2 DEF Log!Stop, Scans
<1> QED BY <1>10 DEF LogStep, Log!Next

\* The place where a scan stops.
LEMMA StopIs ==
    ASSUME HeapInv, StopInv, LogInv, NEW t \in Scanner, at[t].do \in {"open", "at"}
    PROVE  /\ Scans[t] = ScanAt(at[t]) /\ ScanAt(at[t]).do = "read"
           /\ ScanAt(at[t]).stop = {Position(r) : r \in at[t].stop}
           /\ at[t].stop = {} => Log!Limit(t) = Len(Rows) /\ ScanAt(at[t]).stop = {}
           /\ \A stop \in at[t].stop :
                 /\ at[t].stop = {stop} /\ stop \in RidType /\ stop.page \in DOMAIN pages
                 /\ stop.slot <= Len(pages[stop.page].slots)
                 /\ Log!Limit(t) = Position(stop)
<1>1. Scans[t] = ScanAt(at[t]) /\ ScanAt(at[t]).stop = {Position(r) : r \in at[t].stop} /\ ScanAt(at[t]).do = "read"
  <2> HIDE DEF Position
  <2> QED BY DEF Scans, ScanOf, ScanAt
<1>2. at[t].stop = {} => Log!Limit(t) = Len(Rows) /\ ScanAt(at[t]).stop = {}
  <2> HIDE DEF Position
  <2> QED BY <1>1 DEF Log!Limit, Scans
<1>3. ASSUME NEW stop \in at[t].stop
      PROVE  /\ at[t].stop = {stop} /\ stop \in RidType /\ stop.page \in DOMAIN pages
             /\ stop.slot <= Len(pages[stop.page].slots)
             /\ Log!Limit(t) = Position(stop)
  <2>1. at[t].stop = {stop}
    BY DEF LogInv, LogOK
  <2>2. stop \in RidType
    BY DEF HeapInv, Typed, StateOK, Thread
  <2>3. stop.page \in DOMAIN pages /\ stop.slot <= Len(pages[stop.page].slots)
    BY DEF StopInv, StopOK
  <2> HIDE DEF Position
  <2>4. ScanAt(at[t]).stop = {Position(stop)}
    BY <1>1, <2>1
  <2>5. Log!Limit(t) = Position(stop)
    BY <1>1, <2>4 DEF Log!Limit, Scans
  <2> QED BY <2>1, <2>2, <2>3, <2>5
<1> QED BY <1>1, <1>2, <1>3

LEMMA OpenRefines ==
    ASSUME HeapInv, StopInv, LogInv, NEW t \in Scanner, Open(t)
    PROVE  LogStep
<1> DEFINE s == IF Exists(First) THEN At(First, at[t].stop) ELSE Idle
<1>1. Do(t, s) /\ UNCHANGED pages /\ at[t].do = "open"
  BY DEF Open
<1>2. Scans' = [Scans EXCEPT ![t] = ScanAt(s)] /\ Scans[t] = ScanAt(at[t]) /\ Rows' = Rows
  <2> HIDE DEF s
  <2> QED BY <1>1, ScanMoved
<1>3. First \in RidType /\ First.page \in DOMAIN pages /\ First.page = 1 /\ First.slot = 0
      /\ DOMAIN pages = 1..Len(pages) /\ Len(pages) \in Nat \ {0} /\ pages \in Seq(Page)
  BY RowsAre DEF First, RidType
<1>4. Before(pages, 0) = 0 /\ Position(First) = 0
  <2>1. Before(pages, 0) = 0
    BY <1>3, BeforeNext
  <2>2. Position(First) = Before(pages, First.page - 1) + First.slot
    BY <1>3, PositionNat
  <2> HIDE DEF Position
  <2> QED BY <1>3, <2>1, <2>2
<1>5. ScanAt(at[t]) = [do |-> "read", read |-> 0, stop |-> {Position(r) : r \in at[t].stop}, got |-> {}]
  <2> HIDE DEF Position
  <2> QED BY <1>1 DEF ScanAt
<1>6. CASE Exists(First)
  <2>1. s = [do |-> "at", rid |-> First, stop |-> at[t].stop, got |-> {}]
    BY <1>6 DEF At
  <2> HIDE DEF s
  <2>2. ScanAt(s) = ScanAt(at[t])
    <3> HIDE DEF Position
    <3> QED BY <1>4, <1>5, <2>1 DEF ScanAt
  <2>3. Scans' = Scans
    BY <1>2, <2>2 DEF Scans
  <2> QED BY <1>2, <2>3, LogSame
<1>7. CASE ~Exists(First)
  <2>1. ScanAt(s) = Log!Idle
    BY <1>7 DEF ScanAt, Idle, Log!Idle
  <2>2. Len(pages[1].slots) = 0 /\ pages[1].slots = <<>>
    <3>1. pages[1].slots \in Seq(Slot)
      BY <1>3, PageTyped DEF Page
    <3> QED BY <1>3, <1>7, <3>1 DEF Exists
  <2>3. Len(pages) = 1
    BY <1>3, <2>2 DEF LogInv
  <2>4. Len(Rows) = 0
    <3>1. Before(pages, 1) = Before(pages, 0) + 0
      BY <1>3, <2>2, PositionNat
    <3> QED BY <1>4, <2>3, <3>1, RowsAre
  <2>5. Log!Limit(t) = 0
    <3>1. CASE at[t].stop = {}
      BY <1>1, <2>4, <3>1, StopIs
    <3>2. ASSUME NEW stop \in at[t].stop PROVE Log!Limit(t) = 0
      <4>1. /\ stop \in RidType /\ stop.page \in DOMAIN pages
            /\ stop.slot <= Len(pages[stop.page].slots)
            /\ Log!Limit(t) = Position(stop)
        BY <1>1, StopIs
      <4>2. stop.page = 1 /\ stop.slot = 0
        BY <1>3, <2>2, <2>3, <4>1 DEF RidType
      <4>3. Position(stop) = Before(pages, stop.page - 1) + stop.slot
        BY <4>1, PositionNat
      <4> HIDE DEF Position
      <4> QED BY <1>4, <4>1, <4>2, <4>3
    <3> QED BY <3>1, <3>2
  <2> HIDE DEF Position
  <2>6. Log!Finished(t) = 0
    BY <1>2, <1>5 DEF Log!Finished, Scans
  <2>7. Log!End(t)
    <3> HIDE DEF s
    <3>1. Log!Finished(t) = Log!Limit(t) /\ ScanAt(at[t]).do = "read"
      BY <1>5, <2>5, <2>6
    <3> HIDE DEF Log!Finished, Log!Limit
    <3> QED BY <1>2, <2>1, <3>1 DEF Log!End, Scans
  <2> QED BY <2>7 DEF LogStep, Log!Next
<1> QED BY <1>6, <1>7

LEMMA ReadRefines ==
    ASSUME HeapInv, StopInv, LogInv, NEW t \in Scanner, Read(t)
    PROVE  LogStep
<1> DEFINE rid == at[t].rid
           row == SlotAt(rid).row
           s == [at[t] EXCEPT !.got = {row}]
<1>1. Do(t, s) /\ UNCHANGED pages /\ at[t].do = "at" /\ at[t].got = {} /\ Exists(rid)
  BY DEF Read, Do
<1>2. at[t] \in [do : {"at"}, rid : RidType, stop : SUBSET RidType, got : SUBSET Row]
  BY <1>1 DEF HeapInv, Typed, StateOK, Thread
<1>3. Scans' = [Scans EXCEPT ![t] = ScanAt(s)] /\ Scans[t] = ScanAt(at[t]) /\ Rows' = Rows
  <2> HIDE DEF s
  <2> QED BY <1>1, ScanMoved
<1>4. rid \in RidType /\ rid.page \in DOMAIN pages /\ rid.slot \in Nat
      /\ rid.slot < Len(pages[rid.page].slots) /\ pages \in Seq(Page)
  BY <1>1, <1>2, RowsAre DEF Exists, RidType
<1> HIDE DEF rid
<1>5. Position(rid) \in Nat /\ Position(rid) < Len(Rows) /\ Rows[Position(rid) + 1] = row
  <2>1. LET rows == FlattenSeq(PagesRows(pages)) IN
           /\ PlaceIn(pages, rid) \in Nat
           /\ PlaceIn(pages, rid) < Before(pages, rid.page) /\ PlaceIn(pages, rid) < Len(rows)
           /\ rows[PlaceIn(pages, rid) + 1] = pages[rid.page].slots[rid.slot + 1].row
    BY <1>4, RowAt
  <2> QED BY <2>1, RowsAre, PositionIs DEF SlotAt
<1>6. Position(rid) < Log!Limit(t)
  <2>1. CASE at[t].stop = {}
    BY <1>1, <1>5, <2>1, StopIs
  <2>2. ASSUME NEW stop \in at[t].stop PROVE Position(rid) < Log!Limit(t)
    <3>1. stop \in RidType /\ stop.page \in DOMAIN pages /\ Log!Limit(t) = Position(stop)
      BY <1>1, StopIs
    <3>2. Sooner(rid, stop)
      BY <1>1 DEF StopInv, StopOK, rid
    <3>3. Position(rid) < Position(stop)
      BY <1>4, <3>1, <3>2, SoonerPlace
    <3> QED BY <3>1, <3>3
  <2> QED BY <2>1, <2>2
<1> HIDE DEF Position, row
<1>8. ScanAt(at[t]) = [do   |-> "read", read |-> Position(rid),
                       stop |-> {Position(r) : r \in at[t].stop}, got |-> {}]
  BY <1>1 DEF ScanAt, rid
<1>9. ScanAt(s) = [do   |-> "read", read |-> Position(rid),
                   stop |-> {Position(r) : r \in at[t].stop}, got |-> {row}]
  <2>1. s.do = "at" /\ s.rid = rid /\ s.stop = at[t].stop /\ s.got = {row}
    BY <1>2 DEF rid
  <2> HIDE DEF s
  <2> QED BY <2>1 DEF ScanAt
<1> HIDE DEF s
<1>10. Scans' = [Scans EXCEPT ![t].got = {Rows[Scans[t].read + 1]}]
  <2>1. Scans[t].read = Position(rid)
    BY <1>3, <1>8
  <2>2. ScanAt(s) = [Scans[t] EXCEPT !.got = {Rows[Scans[t].read + 1]}]
    <3>1. Rows[Scans[t].read + 1] = row /\ Scans[t] = ScanAt(at[t])
      BY <1>3, <1>5, <2>1
    <3>2. ScanAt(s) = [ScanAt(at[t]) EXCEPT !.got = {row}]
      BY ONLY <1>8, <1>9
    <3> QED BY ONLY <3>1, <3>2
  <2>3. [Scans EXCEPT ![t].got = {Rows[Scans[t].read + 1]}]
        = [Scans EXCEPT ![t] = [Scans[t] EXCEPT !.got = {Rows[Scans[t].read + 1]}]]
    BY DEF Scans
  <2> QED BY <1>3, <2>2, <2>3
<1>11. Scans[t].do = "read" /\ Scans[t].got = {} /\ Scans[t].read < Log!Limit(t)
  <2>1. ScanAt(at[t]).do = "read" /\ ScanAt(at[t]).got = {} /\ ScanAt(at[t]).read = Position(rid)
    BY <1>8
  <2> QED BY <1>3, <1>6, <2>1
<1> HIDE DEF Log!Limit
<1>12. Log!Read(t)
  BY <1>3, <1>10, <1>11 DEF Log!Read, Scans
<1> QED BY <1>12 DEF LogStep, Log!Next

\* operator++ moves one place on in the log, or past its end.
LEMMA FollowingPlace ==
    ASSUME HeapInv, NEW rid \in RidType, rid.page \in DOMAIN pages, Exists(rid)
    PROVE  LET next == Following(rid)
               here == [rid EXCEPT !.slot = @ + 1]
           IN
           /\ here \in RidType /\ here.page = rid.page /\ here.slot = rid.slot + 1
           /\ Position(here) = Position(rid) + 1 /\ Position(rid) \in Nat
           /\ next.page = NoPage => /\ rid.page = Len(pages) /\ rid.slot + 1 = Len(pages[rid.page].slots)
                                    /\ Len(Rows) = Position(rid) + 1
           /\ next.page # NoPage => /\ next \in RidType /\ next.page \in DOMAIN pages
                                    /\ Position(next) = Position(rid) + 1
                                    /\ ~Exists(next) => next.slot = 0 /\ next.page # 1
<1> DEFINE next == Following(rid)
           here == [rid EXCEPT !.slot = @ + 1]
           p == rid.page
<1>1. rid.slot \in Nat /\ here \in RidType /\ here.page = p /\ here.slot = rid.slot + 1
  BY DEF RidType
<1>2. /\ pages \in Seq(Page) /\ DOMAIN pages = 1..Len(pages) /\ Len(pages) \in Nat /\ p \in 1..Len(pages)
      /\ Len(Rows) = Before(pages, Len(pages))
  BY RowsAre
<1>3. /\ Position(rid) = Before(pages, p - 1) + rid.slot /\ Position(rid) \in Nat
      /\ Before(pages, p - 1) \in Nat
      /\ Before(pages, p) = Before(pages, p - 1) + Len(pages[p].slots)
      /\ Len(pages[p].slots) \in Nat /\ Before(pages, p) \in Nat
  BY PositionNat
<1> HIDE DEF here
<1>4. Position(here) = Before(pages, p - 1) + here.slot
  BY <1>1, <1>2, PositionNat
<1>5. Position(here) = Position(rid) + 1
  <2> HIDE DEF Position
  <2> QED BY <1>1, <1>3, <1>4
<1>6. rid.slot < Len(pages[p].slots)
  BY DEF Exists
<1>7. CASE Exists(here)
  <2>1. next = here
    BY <1>7 DEF Following, here
  <2> HIDE DEF next, Position
  <2>2. next.page # NoPage
    BY <1>1, <1>2, <2>1 DEF NoPage
  <2> QED BY <1>1, <1>2, <1>3, <1>5, <1>7, <2>1, <2>2 DEF next, here
<1>8. CASE ~Exists(here)
  <2>1. next = [page |-> pages[p].next, slot |-> 0]
    BY <1>8 DEF Following, here
  <2>2. rid.slot + 1 = Len(pages[p].slots)
    <3>1. ~(here.slot < Len(pages[p].slots))
      BY <1>1, <1>2, <1>8 DEF Exists
    <3>2. ~(rid.slot + 1 < Len(pages[p].slots))
      BY <1>1, <3>1
    <3> QED BY <1>1, <1>3, <1>6, <3>2
  <2>3. pages[p].next = IF p = Len(pages) THEN 0 ELSE p + 1
    BY <1>2 DEF HeapInv, Linked, NoPage
  <2> HIDE DEF next
  <2>4. Before(pages, p) = Position(rid) + 1
    <3> HIDE DEF Position
    <3> QED BY <1>1, <1>3, <2>2
  <2>5. CASE p = Len(pages)
    <3> HIDE DEF Position
    <3>1. next.page = NoPage
      BY <2>1, <2>3, <2>5 DEF NoPage
    <3> QED BY <1>1, <1>2, <1>3, <1>5, <2>2, <2>4, <2>5, <3>1 DEF here, next
  <2>6. CASE p # Len(pages)
    <3>1. next.page = p + 1 /\ next.slot = 0 /\ next \in RidType /\ next.page \in DOMAIN pages /\ next.page # 1
      BY <1>2, <2>1, <2>3, <2>6 DEF RidType
    <3>2. Position(next) = Before(pages, next.page - 1) + next.slot
      BY <3>1, PositionNat
    <3> HIDE DEF Position
    <3>3. next.page - 1 = p
      BY <1>2, <3>1
    <3>4. Position(next) = Position(rid) + 1
      BY <1>3, <2>4, <3>1, <3>2, <3>3
    <3>5. next.page # NoPage
      BY <1>2, <3>1 DEF NoPage
    <3> QED BY <1>1, <1>3, <1>5, <3>1, <3>4, <3>5 DEF here, next
  <2> QED BY <2>5, <2>6
<1> HIDE DEF Position, next
<1> QED BY <1>7, <1>8

LEMMA AdvanceRefines ==
    ASSUME HeapInv, StopInv, LogInv, NEW t \in Scanner, Advance(t)
    PROVE  LogStep
<1> DEFINE rid == at[t].rid
           stop == at[t].stop
           here == [rid EXCEPT !.slot = @ + 1]
           next == Following(rid)
           stops == here \in stop \/ next.page = NoPage
           s == IF stops THEN Idle ELSE At(next, stop)
<1>0. t \in Thread
  BY DEF Thread
<1>1. Do(t, s) /\ UNCHANGED pages /\ at[t].do = "at" /\ at[t].got # {} /\ Free(rid.page)
  BY DEF Advance
<1>2. rid \in RidType /\ stop \in SUBSET RidType /\ rid.page \in DOMAIN pages
  BY <1>0, <1>1 DEF HeapInv, Typed, StateOK
<1>3. Exists(rid)
  BY <1>1, HeapInvImplies DEF IteratorAtRow
<1>4. StopInv'
  BY AdvanceStops
<1>5. ScanAt(at[t]) = [do   |-> "read", read |-> Position(rid),
                       stop |-> {Position(r) : r \in stop}, got |-> at[t].got]
  <2> HIDE DEF Position
  <2> QED BY <1>1 DEF ScanAt
<1>6. Scans' = [Scans EXCEPT ![t] = ScanAt(s)] /\ Scans[t] = ScanAt(at[t]) /\ Rows' = Rows
      /\ at'[t] = s
  <2> HIDE DEF s
  <2>1. at'[t] = s
    BY <1>0, <1>1 DEF Do, HeapInv, Typed
  <2> QED BY <1>1, <2>1, ScanMoved
<1>7. DOMAIN pages = 1..Len(pages) /\ Len(pages) \in Nat
  BY RowsAre
<1> HIDE DEF Position, rid
<1>8. Log!Finished(t) = Position(rid) + 1 /\ Scans[t].do = "read" /\ Scans[t].got # {}
      /\ Scans[t].read = Position(rid)
  BY <1>1, <1>5, <1>6 DEF Log!Finished, Scans
<1>9. CASE stops
  <2>1. ScanAt(s) = Log!Idle
    BY <1>9 DEF ScanAt, Idle, Log!Idle
  <2>2. Log!Limit(t) = Position(rid) + 1
    <3>1. CASE stop = {}
      <4>1. next.page = NoPage
        BY <1>9, <3>1
      <4> QED BY <1>1, <1>2, <1>3, <3>1, <4>1, FollowingPlace, StopIs
    <3>2. CASE here \in stop
      BY <1>1, <1>2, <1>3, <3>2, FollowingPlace, StopIs
    <3>3. ASSUME NEW x \in stop, next.page = NoPage PROVE here \in stop
      <4>1. rid.page = Len(pages) /\ rid.slot + 1 = Len(pages[rid.page].slots)
            /\ here \in RidType /\ here.page = rid.page /\ here.slot = rid.slot + 1
        BY <1>2, <1>3, <3>3, FollowingPlace
      <4>2. x \in RidType /\ x.page \in DOMAIN pages /\ x.slot <= Len(pages[x.page].slots)
        BY <1>1, StopIs
      <4>3. Sooner(rid, x)
        BY <1>1 DEF StopInv, StopOK, rid
      <4>4. rid.slot \in Nat /\ x.slot \in Nat
        BY <1>2, <4>2 DEF RidType
      <4>5. x.page = rid.page /\ x.slot = rid.slot + 1
        BY <1>7, <4>1, <4>2, <4>3, <4>4 DEF Sooner
      <4> HIDE DEF here
      <4>6. x = here
        BY <4>1, <4>2, <4>5 DEF RidType
      <4> QED BY <4>6
    <3> QED BY <1>9, <3>1, <3>2, <3>3
  <2> HIDE DEF s, Log!Finished, Log!Limit
  <2>3. Log!Finished(t) = Log!Limit(t)
    BY <1>8, <2>2
  <2>4. Log!End(t)
    BY <1>6, <1>8, <2>1, <2>3 DEF Log!End, Scans
  <2> QED BY <2>4 DEF LogStep, Log!Next
<1>10. CASE ~stops
  <2>1. /\ next \in RidType /\ next.page \in DOMAIN pages
        /\ Position(next) = Position(rid) + 1
        /\ ~Exists(next) => next.slot = 0 /\ next.page # 1
    BY <1>2, <1>3, <1>10, FollowingPlace
  <2>2. s = [do |-> "at", rid |-> next, stop |-> stop, got |-> {}]
    BY <1>10 DEF At
  <2> HIDE DEF s, next
  <2>3. ScanAt(s) = [do   |-> "read", read |-> Position(rid) + 1,
                     stop |-> {Position(r) : r \in stop}, got |-> {}]
    BY <2>1, <2>2 DEF ScanAt
  <2>4. ASSUME NEW x \in stop PROVE Position(next) < Log!Limit(t)
    <3>1. x \in RidType /\ x.page \in DOMAIN pages /\ Log!Limit(t) = Position(x)
      BY <1>1, StopIs
    <3>2. Sooner(next, x)
      <4>1. StopOK(at[t])'
        BY <1>4 DEF StopInv
      <4>2. at'[t].do = "at" /\ at'[t].rid = next /\ at'[t].stop = stop
        BY <1>6, <2>2
      <4> HIDE DEF stop
      <4> QED BY <4>1, <4>2 DEF StopOK
    <3>3. next.page < x.page => next.slot < Len(pages[next.page].slots)
      <4> SUFFICES ASSUME next.page < x.page, ~Exists(next) PROVE FALSE
        BY DEF Exists
      <4>1. next.slot = 0 /\ next.page # 1 /\ next.page # Len(pages)
        BY <1>7, <2>1, <3>1
      <4>2. pages[next.page].slots \in Seq(Slot)
        BY <2>1, PageTyped DEF Page
      <4>3. pages[next.page].slots = <<>>
        BY <2>1, <4>1, <4>2 DEF Exists
      <4>4. \E w \in Writer : at[w].do = "placing" /\ at[w].page = next.page
        BY <2>1, <4>1, <4>3 DEF HeapInv, Filled
      <4> QED BY <4>1, <4>4 DEF HeapInv, Exclusive
    <3> QED BY <2>1, <3>1, <3>2, <3>3, SoonerPlace
  <2>5. Scans[t].stop = {} \/ Position(rid) + 1 < Log!Limit(t)
    <3>1. CASE stop = {}
      BY <1>1, <1>6, <3>1, StopIs
    <3>2. CASE stop # {}
      BY <2>1, <2>4, <3>2
    <3> QED BY <3>1, <3>2
  <2>6. Scans' = [Scans EXCEPT ![t].read = @ + 1, ![t].got = {}]
    <3>1. [ScanAt(at[t]) EXCEPT !.read = @ + 1, !.got = {}] = ScanAt(s)
      <4> DEFINE old == ScanAt(at[t])
                 new == ScanAt(s)
                 k   == Position(rid)
                 st  == {Position(r) : r \in stop}
      <4>1. /\ old = [do |-> "read", read |-> k, stop |-> st, got |-> at[t].got]
            /\ new = [do |-> "read", read |-> k + 1, stop |-> st, got |-> {}]
        BY <1>5, <2>3
      <4> DEFINE g   == at[t].got
                 mid == [old EXCEPT !.read = @ + 1]
      <4> HIDE DEF old, new, k, st, g
      <4>3. mid = [do |-> "read", read |-> k + 1, stop |-> st, got |-> g]
        BY <4>1 DEF g
      <4> HIDE DEF mid
      <4>4. [mid EXCEPT !.got = {}] = new
        BY <4>1, <4>3
      <4>2. [old EXCEPT !.read = @ + 1, !.got = {}] = new
        BY <4>4 DEF mid
      <4> QED BY <4>2 DEF old, new
    <3>2. [Scans EXCEPT ![t].read = @ + 1, ![t].got = {}]
          = [Scans EXCEPT ![t] = [Scans[t] EXCEPT !.read = @ + 1, !.got = {}]]
      BY DEF Scans
    <3> QED BY <1>6, <3>1, <3>2
  <2> HIDE DEF Log!Finished, Log!Limit
  <2>7. Log!Advance(t)
    BY <1>6, <1>8, <2>5, <2>6 DEF Log!Advance, Scans
  <2> QED BY <2>7 DEF LogStep, Log!Next
<1> QED BY <1>9, <1>10

LEMMA ScannerRefines ==
    ASSUME HeapInv, StopInv, LogInv, NEW t \in Scanner, Scan(t)
    PROVE  LogStep
BY StartRefines, BoundRefines, OpenRefines, ReadRefines, AdvanceRefines DEF Scan

LEMMA LogInit == Init => Log!Init /\ LogInv
<1> SUFFICES ASSUME Init PROVE Log!Init /\ LogInv
  OBVIOUS
<1>1. pages = <<NewTablePage>> /\ \A t \in Scanner : at[t] = Idle
  BY DEF Init, Thread
<1>2. LogInv
  BY <1>1 DEF LogInv, LogOK, Idle
<1>3. Rows = <<>>
  <2>1. HeapInv
    BY HeapInvInit
  <2>3. pages[1].slots = <<>> /\ Len(pages) = 1 /\ 1 \in 1..Len(pages)
    BY <1>1 DEF NewTablePage
  <2>2. Before(pages, 1) = Before(pages, 1 - 1) + Len(pages[1].slots) /\ Before(pages, 0) = 0
    BY <2>1, <2>3, RowsAre, BeforeNext
  <2>4. Len(Rows) = 0 /\ Rows \in Seq(Row)
    BY <2>1, <2>2, <2>3, RowsAre
  <2> QED BY <2>4
<1>4. \A t \in Scanner : ScanOf(t) = Log!Idle
  BY <1>1 DEF ScanOf, Idle, Log!Idle
<1> QED BY <1>2, <1>3, <1>4 DEF Log!Init

\* A table heap is the log of its rows, for every size of the pages and of the
\* rows, if no scan of the empty table overlaps the insertion of its first row:
\* rows keep their places, and each scan reads the rows in order, each once, up
\* to a place fixed before its first read.
THEOREM HeapImplementsLog ==
    ASSUME FirstRowAlone
    PROVE  Spec => ImplementsLog
<1> DEFINE RInv == StopInv /\ LogInv /\ Uncut
<1>1. Init => RInv /\ Log!Init
  <2>1. Init => StopInv
    BY DEF Init, StopInv, FirstAlone, StopOK, Idle, Inserting, Thread
  <2>2. Init => Uncut
    BY DEF Init, Uncut, NewTablePage
  <2> QED BY <2>1, <2>2, LogInit
<1>2. HeapInv /\ RInv /\ [Next]_vars => RInv' /\ [Log!Next]_(Log!vars)
  <2> SUFFICES ASSUME HeapInv, RInv, [Next]_vars PROVE RInv' /\ LogStep
    BY DEF LogStep
  <2>1. CASE UNCHANGED vars
    <3>1. StopInv'
      BY <2>1 DEF vars, StopInv, FirstAlone, StopOK, Opening, Inserting
    <3>2. LogInv'
      BY <2>1 DEF vars, LogInv, LogOK, Before
    <3>3. UNCHANGED pages /\ \A u \in Scanner : at'[u] = at[u]
      BY <2>1 DEF vars
    <3>4. Scans' = Scans /\ Rows' = Rows
      BY <3>3, GrownSame, ScansKept DEF Rows
    <3>5. Uncut'
      BY <2>1 DEF vars, Uncut
    <3> QED BY <3>1, <3>2, <3>4, <3>5, LogSame
  <2>2. ASSUME ~terminated, NEW t \in Writer, Insert(t) \/ Update(t) PROVE RInv' /\ LogStep
    BY <2>2, WriterStops, WriterLogs, WriterRefines, WriterUncut
  <2>3. ASSUME ~terminated, NEW t \in Scanner, Scan(t) PROVE RInv' /\ LogStep
    <3>1. Uncut'
      BY <2>3 DEF Uncut, Scan, MakeIterator, MakeEagerIterator, Bound, Open, Read, Advance
    <3> QED BY <2>3, <3>1, ScanStops, ScanLogs, ScannerRefines
  <2> HIDE DEF RInv
  <2> QED BY <2>1, <2>2, <2>3 DEF Next
<1> HIDE DEF RInv
<1> QED BY <1>1, <1>2, HeapInvariant, PTL DEF Spec, ImplementsLog, Log!Spec

=============================================================================
