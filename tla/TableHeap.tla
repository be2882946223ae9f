----------------------------- MODULE TableHeap ------------------------------
(***************************************************************************)
(* storage/table/table_heap.cpp and table_iterator.cpp with the slotted    *)
(* pages of storage/page/table_page.cpp, used by several threads.          *)
(*                                                                         *)
(* latch_ is held from the start of an insertion until the row is placed,  *)
(* the write latch of a page from the step that takes the page until the   *)
(* insertion leaves; every other latch is taken and released within one    *)
(* step.  The bytes of a page are left out: a slot holds its row, which is *)
(* what the bytes hold as long as no two slots overlap (RowsApart); a row  *)
(* written outside its page is undefined behaviour, and ends the model.    *)
(* A page always finds a frame in the buffer pool.                         *)
(***************************************************************************)
EXTENDS Naturals, FiniteSets, Sequences, SequencesExt

CONSTANTS Writer, Scanner,      \* the threads that write, and that scan
          Tuple, Length(_),     \* the values of a row, and their bytes
          PageSize,             \* BUSTUB_PAGE_SIZE
          HeaderSize, InfoSize, \* TABLE_PAGE_HEADER_SIZE, TUPLE_INFO_SIZE
          SizeMod, OffsetMod,   \* 2^w of a size_t and of an offset
          MaxRows,              \* bound: rows inserted
          FirstRowAlone         \* bound: no scan overlaps the first insertion

Thread == Writer \cup Scanner

ASSUME HeapBounds ==
    /\ PageSize \in Nat /\ HeaderSize \in Nat /\ InfoSize \in Nat \ {0}
    /\ OffsetMod \in Nat /\ SizeMod \in Nat /\ MaxRows \in Nat
    /\ PageSize < OffsetMod /\ OffsetMod <= SizeMod
    /\ \A v \in Tuple : Length(v) \in 1..SizeMod
    /\ Writer \cap Scanner = {}

VARIABLES pages,        \* the pages, in the order of NewPage; a page's id is its index
          last_page_id,
          at,           \* what each thread is doing
          terminated    \* std::terminate, a failed assertion, a row outside its page

vars == <<pages, last_page_id, at, terminated>>

NoPage == 0             \* INVALID_PAGE_ID
Idle   == [do |-> "idle"]
NewTablePage == [next |-> NoPage, slots |-> <<>>]

Row == [tuple : Tuple, deleted : BOOLEAN]

Do(t, state) == at' = [at EXCEPT ![t] = state]

-----------------------------------------------------------------------------
(* Latches.                                                                 *)

LatchFree == \A t \in Writer : at[t].do \notin {"latched", "placing"}
Free(p) == \A t \in Writer : at[t].do \in {"placing", "leaving"} => at[t].page # p

-----------------------------------------------------------------------------
(* A slotted page: slots grow from the header, rows from the end.           *)

SlotEnd(page) == IF page.slots = <<>> THEN PageSize ELSE page.slots[Len(page.slots)].offset

\* slot_end_offset - tuple.GetLength(), in size_t: it wraps if the row is longer
\* than what lies before the slots' end.
Wraps(page, v) == Length(v) > SlotEnd(page)
TupleOffset(page, v) ==
    IF Wraps(page, v) THEN SlotEnd(page) + SizeMod - Length(v) ELSE SlotEnd(page) - Length(v)
SlotsEnd(n) == HeaderSize + InfoSize * n

\* Mutant: the slot of the row itself is not counted.
FitsWithoutSlot(page, v) == TupleOffset(page, v) >= SlotsEnd(Len(page.slots))
Fits(page, v) == TupleOffset(page, v) >= SlotsEnd(Len(page.slots) + 1)

NewSlot(page, row) ==
    [offset |-> TupleOffset(page, row.tuple) % OffsetMod,
     size   |-> Length(row.tuple) % OffsetMod, row |-> row]

Exists(rid) == rid.page \in DOMAIN pages /\ rid.slot < Len(pages[rid.page].slots)
SlotAt(rid) == pages[rid.page].slots[rid.slot + 1]

-----------------------------------------------------------------------------
(* Inserting.                                                               *)

Rows == FlattenSeq([p \in DOMAIN pages |-> [i \in DOMAIN pages[p].slots |-> pages[p].slots[i].row]])

Inserting(t) == at[t].do \in {"latched", "placing"}
Opening(t)   == at[t].do \in {"bound", "open"}
Alone        == FirstRowAlone /\ pages[1].slots = <<>>

StartInsert(t) ==
    /\ at[t] = Idle /\ LatchFree
    /\ Len(Rows) < MaxRows
    /\ Alone => \A s \in Scanner : ~Opening(s)
    /\ \E v \in Tuple : Do(t, [do |-> "latched", tuple |-> v])
    /\ UNCHANGED <<pages, last_page_id, terminated>>

\* bpm_->WritePage(last_page_id_).
TakeLastPage(t) ==
    /\ at[t].do = "latched" /\ Free(last_page_id)
    /\ Do(t, [do |-> "placing", tuple |-> at[t].tuple, page |-> last_page_id])
    /\ UNCHANGED <<pages, last_page_id, terminated>>

Grow(t) ==
    /\ at[t].do = "placing" /\ ~Fits(pages[at[t].page], at[t].tuple)
    /\ pages[at[t].page].slots # <<>>
    /\ LET new == Len(pages) + 1 IN
       /\ pages' = Append([pages EXCEPT ![at[t].page].next = new], NewTablePage)
       /\ last_page_id' = new
       /\ at' = [at EXCEPT ![t].page = new]
    /\ UNCHANGED terminated

TooLarge(t) ==
    /\ at[t].do = "placing" /\ ~Fits(pages[at[t].page], at[t].tuple)
    /\ pages[at[t].page].slots = <<>>
    /\ terminated' = TRUE
    /\ UNCHANGED <<pages, last_page_id, at>>

\* The row is in the page and latch_ is free, the page is latched still.  Cut to
\* 16 bits, a wrapped offset lets the bytes of the row run past the page's end.
Place(t) ==
    /\ at[t].do = "placing" /\ Fits(pages[at[t].page], at[t].tuple)
    /\ LET row == [tuple |-> at[t].tuple, deleted |-> FALSE] IN
       pages' = [pages EXCEPT ![at[t].page].slots = Append(@, NewSlot(pages[at[t].page], row))]
    /\ Do(t, [do |-> "leaving", page |-> at[t].page])
    /\ terminated' = Wraps(pages[at[t].page], at[t].tuple)
    /\ UNCHANGED last_page_id

Leave(t) ==
    /\ at[t].do = "leaving"
    /\ Do(t, Idle)
    /\ UNCHANGED <<pages, last_page_id, terminated>>

-----------------------------------------------------------------------------
(* Updating.                                                                *)

Rid == UNION {[page : {p}, slot : 0..(Len(pages[p].slots) - 1)] : p \in DOMAIN pages}

Set(rid, row) == pages' = [pages EXCEPT ![rid.page].slots[rid.slot + 1].row = row]

UpdateTupleMeta(t) ==
    /\ at[t] = Idle
    /\ \E rid \in Rid, d \in BOOLEAN :
          Free(rid.page) /\ Set(rid, [tuple |-> SlotAt(rid).row.tuple, deleted |-> d])
    /\ UNCHANGED <<last_page_id, at, terminated>>

\* The row is written if the caller's check of the old one passes; a row of
\* another size raises an exception.
UpdateTupleInPlace(t) ==
    /\ at[t] = Idle
    /\ \E rid \in Rid, row \in Row :
          /\ Free(rid.page)
          /\ SlotAt(rid).size = Length(row.tuple)
          /\ Set(rid, row)
    /\ UNCHANGED <<last_page_id, at, terminated>>

-----------------------------------------------------------------------------
(* Scanning.  rid is the row the iterator is at, stop the place where it    *)
(* stops, {} for an eager iterator; got is the row read at rid.             *)

First == [page |-> 1, slot |-> 0]

MayScan == Alone => \A w \in Writer : ~Inserting(w)

\* MakeIterator.  rows is a history value: the length of the table.
MakeIterator(t) ==
    /\ at[t] = Idle /\ LatchFree /\ MayScan
    /\ Do(t, [do |-> "bound", last |-> last_page_id, rows |-> Len(Rows)])
    /\ UNCHANGED <<pages, last_page_id, terminated>>

MakeEagerIterator(t) ==
    /\ at[t] = Idle /\ MayScan
    /\ Do(t, [do |-> "open", stop |-> {}])
    /\ UNCHANGED <<pages, last_page_id, terminated>>

Bound(t) ==
    /\ at[t].do = "bound" /\ Free(at[t].last)
    /\ Do(t, [do   |-> "open",
              stop |-> {[page |-> at[t].last, slot |-> Len(pages[at[t].last].slots)]}])
    /\ UNCHANGED <<pages, last_page_id, terminated>>

At(rid, stop) == [do |-> "at", rid |-> rid, stop |-> stop, got |-> {}]

\* Mutant: an empty first page is not looked for.
OpenUnchecked(t) ==
    /\ at[t].do = "open" /\ Free(First.page)
    /\ Do(t, At(First, at[t].stop))
    /\ UNCHANGED <<pages, last_page_id, terminated>>
\* The constructor of TableIterator.
Open(t) ==
    /\ at[t].do = "open" /\ Free(First.page)
    /\ Do(t, IF Exists(First) THEN At(First, at[t].stop) ELSE Idle)
    /\ UNCHANGED <<pages, last_page_id, terminated>>

\* GetTuple.
Read(t) ==
    /\ at[t].do = "at" /\ at[t].got = {}
    /\ Free(at[t].rid.page) /\ Exists(at[t].rid)
    /\ at' = [at EXCEPT ![t].got = {SlotAt(at[t].rid).row}]
    /\ UNCHANGED <<pages, last_page_id, terminated>>

Sooner(a, b) == a.page < b.page \/ (a.page = b.page /\ a.slot < b.slot)
\* "iterate out of bound".
InBound(t)   == \A stop \in at[t].stop : Sooner(at[t].rid, stop)

\* Mutant: the page is the last one when its rows are read.
FollowingInPage(rid) ==
    LET next == [rid EXCEPT !.slot = @ + 1] IN
    IF Exists(next) THEN next ELSE [page |-> NoPage, slot |-> 0]
\* Mutant: the iterator starts the page again.
FollowingAround(rid) ==
    LET next == [rid EXCEPT !.slot = @ + 1] IN
    IF Exists(next) THEN next ELSE [page |-> IF pages[rid.page].next = NoPage THEN NoPage ELSE rid.page,
                                    slot |-> 0]
\* operator++: the next row of the page, or the first one of the next page,
\* or the end.
Following(rid) ==
    LET next == [rid EXCEPT !.slot = @ + 1] IN
    IF Exists(next) THEN next ELSE [page |-> pages[rid.page].next, slot |-> 0]

\* Mutant: the end of the page counts, the stop does not.
AdvancePast(t) ==
    /\ at[t].do = "at" /\ at[t].got # {} /\ Free(at[t].rid.page)
    /\ LET next == Following(at[t].rid)
       IN Do(t, IF next.page = NoPage THEN Idle ELSE At(next, at[t].stop))
    /\ UNCHANGED <<pages, last_page_id, terminated>>
Advance(t) ==
    /\ at[t].do = "at" /\ at[t].got # {} /\ Free(at[t].rid.page)
    /\ LET rid  == at[t].rid
           next == Following(rid)
           stops == [rid EXCEPT !.slot = @ + 1] \in at[t].stop \/ next.page = NoPage
       IN Do(t, IF stops THEN Idle ELSE At(next, at[t].stop))
    /\ terminated' = ~InBound(t)
    /\ UNCHANGED <<pages, last_page_id>>

-----------------------------------------------------------------------------
\* TableHeap's constructor.
Init ==
    /\ pages = <<NewTablePage>>
    /\ last_page_id = 1
    /\ at = [t \in Thread |-> Idle]
    /\ terminated = FALSE

Insert(t) == StartInsert(t) \/ TakeLastPage(t) \/ Grow(t) \/ TooLarge(t) \/ Place(t) \/ Leave(t)
Scan(t)   == MakeIterator(t) \/ MakeEagerIterator(t) \/ Bound(t) \/ Open(t) \/ Read(t) \/ Advance(t)
Update(t) == UpdateTupleMeta(t) \/ UpdateTupleInPlace(t)

Next ==
    /\ ~terminated
    /\ \/ \E t \in Writer : Insert(t) \/ Update(t)
       \/ \E t \in Scanner : Scan(t)

\* A call that has begun goes on: threads run, and nobody keeps a latch.
Continues(t) ==
    /\ ~terminated
    /\ \/ TakeLastPage(t) \/ Grow(t) \/ TooLarge(t) \/ Place(t) \/ Leave(t)
       \/ Bound(t) \/ Open(t) \/ Read(t) \/ Advance(t)

Spec     == Init /\ [][Next]_vars
FairSpec == Spec /\ \A t \in Thread : WF_vars(Continues(t))

-----------------------------------------------------------------------------
(* Properties.                                                              *)

\* The pages, the last one, and what each thread is doing.
TypeOK ==
    /\ \A p \in DOMAIN pages :
          /\ pages[p].next = IF p = Len(pages) THEN NoPage ELSE p + 1
          /\ \A i \in DOMAIN pages[p].slots :
                LET slot == pages[p].slots[i] IN
                /\ slot.offset \in 0..(OffsetMod - 1) /\ slot.size = Length(slot.row.tuple) % OffsetMod
                /\ slot.row \in Row
    /\ last_page_id = Len(pages)
    /\ \A t \in Thread : at[t].do \in {"placing", "leaving"} => at[t].page \in DOMAIN pages
    /\ terminated \in BOOLEAN

\* table_page.h:32, "Slotted page format": the rows lie between the slots of
\* their page and its end, and no two share a byte.
RowsApart(slots) ==
    LET End(i) == slots[i].offset + Length(slots[i].row.tuple)
    IN \A i \in DOMAIN slots :
          /\ SlotsEnd(Len(slots)) <= slots[i].offset /\ End(i) <= PageSize
          /\ \A j \in DOMAIN slots : i < j => End(j) <= slots[i].offset

\* Pages have that format, whatever is inserted.
SlotsDisjoint == \A p \in DOMAIN pages : RowsApart(pages[p].slots)

\* No row of the page was longer than what lay before the end of its slots.
NoneWrapped(slots) ==
    \A i \in DOMAIN slots :
       Length(slots[i].row.tuple) <= IF i = 1 THEN PageSize ELSE slots[i - 1].offset

\* table_page.cpp:43: the wrapped difference is the only way to break the format;
\* rows of any other lengths, in any order over the pages, leave it whole.
LayoutUnlessWrapped ==
    \A p \in DOMAIN pages : NoneWrapped(pages[p].slots) => RowsApart(pages[p].slots)

\* GetTuple never raises "Tuple ID out of range" for an iterator: the row it
\* is at exists as soon as its page can be latched, however the page was
\* added while the iterator moved to it.
IteratorAtRow == \A t \in Scanner : at[t].do = "at" /\ Free(at[t].rid.page) => Exists(at[t].rid)

\* table_heap.cpp:137: an iterator "will record the current last tuple in the
\* table heap, and [...] will stop at that point".
StopsInBound == \A t \in Scanner : at[t].do = "at" => InBound(t)

\* The rows as a log, and the scans of it.
Position(rid) == Len(FlattenSeq([p \in 1..(rid.page - 1) |-> pages[p].slots])) + rid.slot

ScanOf(t) ==
    IF at[t].do = "bound" THEN [do |-> "start", low |-> at[t].rows]
    ELSE IF at[t].do = "open"
    THEN [do |-> "read", read |-> 0, stop |-> {Position(r) : r \in at[t].stop}, got |-> {}]
    ELSE IF at[t].do = "at"
    THEN [do   |-> "read", read |-> Position(at[t].rid),
          stop |-> {Position(r) : r \in at[t].stop}, got |-> at[t].got]
    ELSE Idle

Size(row) == Length(row.tuple)
Log == INSTANCE RowLog WITH log <- Rows, scan <- [t \in Scanner |-> ScanOf(t)]

\* The heap is such a log: rows keep their places, and a scan reads each row
\* up to its stop once, in order, while pages are added and rows updated.
ImplementsLog == Log!Spec

\* Every call returns: nobody waits for a latch for ever, and every iterator,
\* an eager one too when insertions cease, comes to its end.
CallsReturn == \A t \in Thread : at[t].do # "idle" ~> at[t].do = "idle" \/ terminated
=============================================================================
