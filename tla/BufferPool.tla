----------------------------- MODULE BufferPool -----------------------------
(***************************************************************************)
(* buffer/buffer_pool_manager.cpp and storage/page/page_guard.cpp: threads *)
(* that share a pool of frames through page guards.                        *)
(*                                                                         *)
(* A step is the work between two points where another thread can get in   *)
(* the way: a critical section under bpm_latch_ (which waits for its disk  *)
(* requests) is one step, taking a frame's rwlatch_ is another, and the    *)
(* three parts of Drop are a step each, because pin_count_ is decremented  *)
(* outside bpm_latch_.  bpm_latch is a variable for the one code that      *)
(* blocks while it holds it, FlushPage and FlushAllPages.                  *)
(*                                                                         *)
(* The replacer is any implementation of Replacer.  A disk request that    *)
(* was waited for has taken effect.  The content of a page is the set of   *)
(* the changes that were made to it.                                       *)
(***************************************************************************)
EXTENDS Naturals, FiniteSets, Sequences

CONSTANTS Thread, NoThread,
          Frame, NoFrame,      \* the frames_ of the pool
          MaxPages,            \* bound: pages NewPage may allocate
          MaxWrites,           \* bound: changes made to one page
          MaxGuards,           \* bound: guards a thread holds at once
          Nesting,             \* threads that call the pool while they hold a guard
          Flushing,            \* threads that call FlushPage and FlushAllPages
          Deleting,            \* threads that call DeletePage
          Rewriting            \* threads that change a page after Flush on its guard

ASSUME BoundsAssumption ==
    MaxPages \in Nat /\ MaxWrites \in Nat /\ MaxGuards \in Nat \ {0}

ASSUME NamesAssumption ==
    /\ IsFiniteSet(Frame) /\ NoFrame \notin Frame
    /\ IsFiniteSet(Thread) /\ NoThread \notin Thread

Page == 0..MaxPages - 1
NoPage == MaxPages             \* no entry in frame_to_page_

Mode == {"read", "write"}
Guard == [page : Page, frame : Frame, mode : Mode, flushed : BOOLEAN]
Change == Page \X (1..MaxWrites)

VARIABLES page_table,          \* page -> frame
          frame_to_page,       \* frame -> page
          free_frames,         \* a queue
          frames,              \* FrameHeader: data_, pin_count_, is_dirty_
          entry,               \* the replacer
          bpm_latch,           \* the holder of bpm_latch_
          next_page_id,
          disk,                \* what a read of each page returns
          deallocated,         \* pages deleted
          guards,              \* the valid guards of each thread, rwlatch_ held
          at,                  \* what each thread is doing
          aborted,             \* an assertion stopped the process
          latest               \* history: the changes made to each page

maps == <<page_table, frame_to_page, free_frames>>
vars == <<maps, frames, entry, bpm_latch, next_page_id, disk, deallocated,
          guards, at, aborted, latest>>

R == INSTANCE Replacer WITH size <- 0, victim <- NoFrame

Idle == [step |-> "idle"]

Resident(p) == page_table[p] # NoFrame

\* The frame's rwlatch_ is held by the guards on it.
Latched(f, mode) == \E t \in Thread : \E g \in guards[t] : g.frame = f /\ g.mode \in mode

-----------------------------------------------------------------------------
Init ==
    /\ page_table = [p \in Page |-> NoFrame]
    /\ frame_to_page = [f \in Frame |-> NoPage]
    /\ free_frames \in {q \in [1..Cardinality(Frame) -> Frame] :
                          \A i, j \in DOMAIN q : q[i] = q[j] => i = j}
    /\ frames = [f \in Frame |-> [data |-> {}, pin |-> 0, dirty |-> FALSE]]
    /\ entry = [f \in Frame |-> "absent"]
    /\ bpm_latch = NoThread
    /\ next_page_id = 0
    /\ disk = [p \in Page |-> {}]
    /\ deallocated = {}
    /\ guards = [t \in Thread |-> {}]
    /\ at = [t \in Thread |-> Idle]
    /\ aborted = FALSE
    /\ latest = [p \in Page |-> {}]

-----------------------------------------------------------------------------
Live(p) == p < next_page_id /\ p \notin deallocated

Go(t, next) == at' = [at EXCEPT ![t] = next]

CanCall(t) ==
    /\ ~aborted
    /\ at[t] = Idle
    /\ guards[t] = {} \/ t \in Nesting

\* A critical section of thread t under bpm_latch_.
Critical(t) ==
    /\ ~aborted
    /\ bpm_latch = NoThread

-----------------------------------------------------------------------------
(* NewPage, CheckedReadPage and CheckedWritePage. *)

NewPage(t) ==
    /\ CanCall(t)
    /\ Critical(t)
    /\ next_page_id < MaxPages
    /\ next_page_id' = next_page_id + 1
    /\ UNCHANGED <<maps, frames, entry, bpm_latch, disk, deallocated, guards, at,
                   aborted, latest>>

\* The caller's decision, before it waits for bpm_latch_.  Pages are latched in
\* ascending order, a page once: what keeps callers from waiting for each other.
CallFetch(t, p, mode) ==
    /\ CanCall(t)
    /\ Live(p)
    /\ Cardinality(guards[t]) < MaxGuards
    /\ \A g \in guards[t] : g.page < p
    /\ Go(t, [step |-> "fetch", page |-> p, mode |-> mode])
    /\ UNCHANGED <<maps, frames, entry, bpm_latch, next_page_id, disk, deallocated,
                   guards, aborted, latest>>

Fetching(t) ==
    /\ Critical(t)
    /\ at[t].step = "fetch"
    /\ UNCHANGED <<bpm_latch, next_page_id, deallocated, guards, aborted, latest>>

\* bpm_latch_ is released, the guard's constructor waits for the frame's latch.
GoLatching(t, f) ==
    Go(t, [step |-> "latching", page |-> at[t].page, frame |-> f, mode |-> at[t].mode])

\* Mutant: a hit does not count its pin.
FetchHitUnpinned(t) ==
    /\ Fetching(t)
    /\ Resident(at[t].page)
    /\ LET f == page_table[at[t].page] IN
          /\ entry' = R!Recorded(R!WithEvictable(entry, f, FALSE), f)
          /\ GoLatching(t, f)
    /\ UNCHANGED <<maps, disk, frames>>

FetchHit(t) ==
    /\ Fetching(t)
    /\ Resident(at[t].page)
    /\ LET f == page_table[at[t].page] IN
          /\ frames' = [frames EXCEPT ![f].pin = @ + 1]
          /\ entry' = R!Recorded(R!WithEvictable(entry, f, FALSE), f)
          /\ GoLatching(t, f)
    /\ UNCHANGED <<maps, disk>>

\* The page is read into frame f, whose dirty flag is d.
Load(t, f, d, e, source) ==
    LET p == at[t].page IN
      /\ frames' = [frames EXCEPT ![f] = [data |-> source[p], pin |-> 1, dirty |-> d]]
      /\ entry' = R!WithEvictable(R!Recorded(e, f), f, FALSE)
      /\ frame_to_page' = [frame_to_page EXCEPT ![f] = p]
      /\ GoLatching(t, f)

FetchFree(t) ==
    /\ Fetching(t)
    /\ ~Resident(at[t].page)
    /\ free_frames # <<>>
    /\ LET f == Head(free_frames) IN
          /\ Load(t, f, frames[f].dirty, entry, disk)
          /\ page_table' = [page_table EXCEPT ![at[t].page] = f]
    /\ free_frames' = Tail(free_frames)
    /\ UNCHANGED disk

\* The disk after the victim's page was written back.
WrittenBack(f) ==
    IF frame_to_page[f] # NoPage /\ frames[f].dirty
    THEN [disk EXCEPT ![frame_to_page[f]] = frames[f].data] ELSE disk

\* Mutant: the victim's page stays in page_table_.
FetchEvictKeepingPage(t, f) ==
    /\ Fetching(t)
    /\ ~Resident(at[t].page)
    /\ free_frames = <<>>
    /\ f \in R!Evictable(entry)
    /\ disk' = WrittenBack(f)
    /\ Load(t, f, FALSE, R!Forgotten(entry, f), WrittenBack(f))
    /\ page_table' = [page_table EXCEPT ![at[t].page] = f]
    /\ UNCHANGED free_frames

FetchEvict(t, f) ==
    /\ Fetching(t)
    /\ ~Resident(at[t].page)
    /\ free_frames = <<>>
    /\ f \in R!Evictable(entry)
    /\ disk' = WrittenBack(f)
    /\ Load(t, f, FALSE, R!Forgotten(entry, f), WrittenBack(f))
    /\ page_table' = [p \in Page |-> IF p = at[t].page THEN f
                                    ELSE IF p = frame_to_page[f] THEN NoFrame
                                    ELSE page_table[p]]
    /\ UNCHANGED free_frames

\* std::nullopt: no frame is free and no victim can be found.
FetchFail(t) ==
    /\ Fetching(t)
    /\ ~Resident(at[t].page)
    /\ free_frames = <<>>
    /\ R!Evictable(entry) = {}
    /\ Go(t, Idle)
    /\ UNCHANGED <<maps, frames, entry, disk>>

\* The end of the constructor of a page guard.
Lock(t) ==
    /\ ~aborted
    /\ at[t].step = "latching"
    /\ LET f == at[t].frame
           write == at[t].mode = "write"
       IN /\ ~Latched(f, IF write THEN Mode ELSE {"write"})
          /\ frames' = [frames EXCEPT ![f].dirty = @ \/ write]
          /\ guards' = [guards EXCEPT ![t] = @ \cup
                {[page |-> at[t].page, frame |-> f, mode |-> at[t].mode, flushed |-> FALSE]}]
    /\ Go(t, Idle)
    /\ UNCHANGED <<maps, entry, bpm_latch, next_page_id, disk, deallocated, aborted, latest>>

-----------------------------------------------------------------------------
(* Use of a guard. *)

Using(t, g) ==
    /\ ~aborted
    /\ at[t] = Idle
    /\ g \in guards[t]

\* A change through GetDataMut or AsMut.
Write(t, g) ==
    /\ Using(t, g)
    /\ g.mode = "write"
    /\ ~g.flushed \/ t \in Rewriting
    /\ Cardinality(latest[g.page]) < MaxWrites
    /\ LET change == <<g.page, Cardinality(latest[g.page]) + 1>> IN
          /\ frames' = [frames EXCEPT ![g.frame].data = @ \cup {change}]
          /\ latest' = [latest EXCEPT ![g.page] = @ \cup {change}]
    /\ UNCHANGED <<maps, entry, bpm_latch, next_page_id, disk, deallocated, guards, at, aborted>>

\* Flush() of a guard: the write to disk, then the flag.
GuardFlush(t, g) ==
    /\ Using(t, g)
    /\ frames[g.frame].dirty
    /\ disk' = [disk EXCEPT ![g.page] = frames[g.frame].data]
    /\ Go(t, [step |-> "written", guard |-> g])
    /\ UNCHANGED <<maps, frames, entry, bpm_latch, next_page_id, deallocated, guards, aborted, latest>>

ClearDirty(t) ==
    /\ ~aborted
    /\ at[t].step = "written"
    /\ frames' = [frames EXCEPT ![at[t].guard.frame].dirty = FALSE]
    /\ guards' = [guards EXCEPT ![t] =
                    (@ \ {at[t].guard}) \cup {[at[t].guard EXCEPT !.flushed = TRUE]}]
    /\ Go(t, Idle)
    /\ UNCHANGED <<maps, entry, bpm_latch, next_page_id, disk, deallocated, aborted, latest>>

\* Drop releases the frame's latch ...
Drop(t, g) ==
    /\ Using(t, g)
    /\ guards' = [guards EXCEPT ![t] = @ \ {g}]
    /\ Go(t, [step |-> "dropped", frame |-> g.frame])
    /\ UNCHANGED <<maps, frames, entry, bpm_latch, next_page_id, disk, deallocated, aborted, latest>>

\* ... then decrements the pin count, without bpm_latch_ ...
Unpin(t) ==
    /\ ~aborted
    /\ at[t].step = "dropped"
    /\ frames' = [frames EXCEPT ![at[t].frame].pin = @ - 1]
    /\ Go(t, [step |-> "unpinned", frame |-> at[t].frame])
    /\ UNCHANGED <<maps, entry, bpm_latch, next_page_id, disk, deallocated, guards, aborted, latest>>

\* Mutant: the pin count is not read again under bpm_latch_.
SettleUnchecked(t) ==
    /\ Critical(t)
    /\ at[t].step = "unpinned"
    /\ entry' = R!WithEvictable(entry, at[t].frame, TRUE)
    /\ Go(t, Idle)
    /\ UNCHANGED <<maps, frames, bpm_latch, next_page_id, disk, deallocated, guards, aborted, latest>>

\* Mutant: the count before the decrement is compared with 0.
SettleOldCount(t) ==
    /\ Critical(t)
    /\ at[t].step = "unpinned"
    /\ entry' = IF frames[at[t].frame].pin + 1 = 0
                THEN R!WithEvictable(entry, at[t].frame, TRUE) ELSE entry
    /\ Go(t, Idle)
    /\ UNCHANGED <<maps, frames, bpm_latch, next_page_id, disk, deallocated, guards, aborted, latest>>

\* ... and tells the replacer under bpm_latch_, if the pin count is 0 by then.
Settle(t) ==
    /\ Critical(t)
    /\ at[t].step = "unpinned"
    /\ entry' = IF frames[at[t].frame].pin = 0
                THEN R!WithEvictable(entry, at[t].frame, TRUE) ELSE entry
    /\ Go(t, Idle)
    /\ UNCHANGED <<maps, frames, bpm_latch, next_page_id, disk, deallocated, guards, aborted, latest>>

-----------------------------------------------------------------------------
(* DeletePage.  A page is deleted by its owner, and nobody asks for it again. *)

Deallocate(p) == deallocated' = deallocated \cup {p}

DeleteAbsent(p) ==
    /\ ~Resident(p)
    /\ Deallocate(p)
    /\ UNCHANGED <<maps, frames, entry, aborted>>

DeletePinned(p) ==
    /\ Resident(p)
    /\ frames[page_table[p]].pin > 0
    /\ UNCHANGED <<maps, frames, entry, deallocated, aborted>>

DeleteResident(p) ==
    /\ Resident(p)
    /\ LET f == page_table[p] IN
          /\ frames[f].pin = 0
          /\ entry[f] # "pinned"
          /\ entry' = R!Forgotten(entry, f)
          /\ page_table' = [page_table EXCEPT ![p] = NoFrame]
          /\ frame_to_page' = [frame_to_page EXCEPT ![f] = NoPage]
          /\ free_frames' = Append(free_frames, f)
          /\ frames' = [frames EXCEPT ![f] = [data |-> {}, pin |-> 0, dirty |-> FALSE]]
    /\ Deallocate(p)
    /\ UNCHANGED aborted

\* The assertion in ArcReplacer::Remove fails.
DeleteAborts(p) ==
    /\ Resident(p)
    /\ frames[page_table[p]].pin = 0
    /\ entry[page_table[p]] = "pinned"
    /\ aborted' = TRUE
    /\ UNCHANGED <<maps, frames, entry, deallocated>>

DeletePage(t, p) ==
    /\ CanCall(t)
    /\ t \in Deleting
    /\ Live(p)
    /\ \A u \in Thread : at[u].step = "fetch" => at[u].page # p
    /\ Critical(t)
    /\ DeleteAbsent(p) \/ DeletePinned(p) \/ DeleteResident(p) \/ DeleteAborts(p)
    /\ UNCHANGED <<bpm_latch, next_page_id, disk, guards, at, latest>>

-----------------------------------------------------------------------------
(* FlushPage and FlushAllPages hold bpm_latch_ while they wait for the latch *)
(* of each resident page they flush.                                         *)

BeginFlush(t, todo) ==
    /\ CanCall(t)
    /\ t \in Flushing
    /\ guards[t] = {}
    /\ Critical(t)
    /\ todo # {} /\ \A p \in todo : Resident(p)
    /\ bpm_latch' = t
    /\ Go(t, [step |-> "flushing", todo |-> todo])
    /\ UNCHANGED <<maps, frames, entry, next_page_id, disk, deallocated, guards, aborted, latest>>

FlushPage(t, p) == BeginFlush(t, {p})
FlushAllPages(t) == BeginFlush(t, {p \in Page : Resident(p)})

\* Mutant: a page is flushed without its latch.
FlushOneUnlatched(t, p) ==
    /\ ~aborted
    /\ at[t].step = "flushing"
    /\ p \in at[t].todo
    /\ LET f == page_table[p]
           rest == at[t].todo \ {p}
       IN /\ disk' = IF frames[f].dirty THEN [disk EXCEPT ![p] = frames[f].data] ELSE disk
          /\ frames' = [frames EXCEPT ![f].dirty = FALSE]
          /\ Go(t, IF rest = {} THEN Idle ELSE [step |-> "flushing", todo |-> rest])
          /\ bpm_latch' = IF rest = {} THEN NoThread ELSE t
    /\ UNCHANGED <<maps, entry, next_page_id, deallocated, guards, aborted, latest>>

\* Mutant: bpm_latch_ is not released.
FlushOneKeepingLatch(t, p) ==
    /\ ~aborted
    /\ at[t].step = "flushing"
    /\ p \in at[t].todo
    /\ LET f == page_table[p]
           rest == at[t].todo \ {p}
       IN /\ ~Latched(f, Mode)
          /\ disk' = IF frames[f].dirty THEN [disk EXCEPT ![p] = frames[f].data] ELSE disk
          /\ frames' = [frames EXCEPT ![f].dirty = FALSE]
          /\ Go(t, IF rest = {} THEN Idle ELSE [step |-> "flushing", todo |-> rest])
    /\ UNCHANGED <<maps, entry, bpm_latch, next_page_id, deallocated, guards, aborted, latest>>

\* FlushPageUnsafe under the frame's latch; after the last page bpm_latch_ is released.
FlushOne(t, p) ==
    /\ ~aborted
    /\ at[t].step = "flushing"
    /\ p \in at[t].todo
    /\ LET f == page_table[p]
           rest == at[t].todo \ {p}
       IN /\ ~Latched(f, Mode)
          /\ disk' = IF frames[f].dirty THEN [disk EXCEPT ![p] = frames[f].data] ELSE disk
          /\ frames' = [frames EXCEPT ![f].dirty = FALSE]
          /\ Go(t, IF rest = {} THEN Idle ELSE [step |-> "flushing", todo |-> rest])
          /\ bpm_latch' = IF rest = {} THEN NoThread ELSE t
    /\ UNCHANGED <<maps, entry, next_page_id, deallocated, guards, aborted, latest>>

-----------------------------------------------------------------------------
Fetch(t) == FetchHit(t) \/ FetchFree(t) \/ (\E f \in Frame : FetchEvict(t, f)) \/ FetchFail(t)

Call(t) ==
    \/ \E p \in Page, mode \in Mode : CallFetch(t, p, mode)
    \/ \E p \in Page : FlushPage(t, p)
    \/ FlushAllPages(t)

\* What a thread does of its own accord once it is inside a call, or holds a guard.
Finish(t) ==
    \/ Fetch(t) \/ Lock(t) \/ ClearDirty(t) \/ Unpin(t) \/ Settle(t)
    \/ \E g \in guards[t] : Drop(t, g)
    \/ \E p \in Page : FlushOne(t, p)

Next ==
    \E t \in Thread :
        \/ NewPage(t)
        \/ Call(t)
        \/ Finish(t)
        \/ \E g \in guards[t] : Write(t, g) \/ GuardFlush(t, g)
        \/ \E p \in Page : DeletePage(t, p)

Spec == Init /\ [][Next]_vars

\* Every thread keeps running, and a guard is dropped in the end (its destructor).
FairSpec == Spec /\ \A t \in Thread : WF_vars(Finish(t))

-----------------------------------------------------------------------------
(* Properties. *)

Step ==
    {Idle}
    \cup [step : {"fetch"}, page : Page, mode : Mode]
    \cup [step : {"latching"}, page : Page, frame : Frame, mode : Mode]
    \cup [step : {"written"}, guard : Guard]
    \cup [step : {"dropped", "unpinned"}, frame : Frame]
    \cup [step : {"flushing"}, todo : SUBSET Page]

\* The variables keep their types; a pin count (a size_t) never wraps below 0.
TypeOK ==
    /\ page_table \in [Page -> Frame \cup {NoFrame}]
    /\ frame_to_page \in [Frame -> Page \cup {NoPage}]
    /\ free_frames \in Seq(Frame)
    /\ frames \in [Frame -> [data : SUBSET Change, pin : Nat, dirty : BOOLEAN]]
    /\ entry \in [Frame -> R!Status]
    /\ bpm_latch \in Thread \cup {NoThread}
    /\ next_page_id \in 0..MaxPages
    /\ disk \in [Page -> SUBSET Change]
    /\ deallocated \in SUBSET Page
    /\ guards \in [Thread -> SUBSET Guard]
    /\ at \in [Thread -> Step]
    /\ aborted \in BOOLEAN
    /\ latest \in [Page -> SUBSET Change]

InFree(f) == \E i \in DOMAIN free_frames : free_frames[i] = f

\* page_table_ and frame_to_page_ are inverse; a frame is in free_frames_ once,
\* or holds one page and is known to the replacer: no page has two homes, and
\* no frame is handed out twice.
OneHome ==
    /\ \A p \in Page, f \in Frame : page_table[p] = f <=> frame_to_page[f] = p
    /\ \A i, j \in DOMAIN free_frames : free_frames[i] = free_frames[j] => i = j
    /\ \A f \in Frame : InFree(f) <=> frame_to_page[f] = NoPage
    /\ \A f \in Frame : InFree(f) <=> entry[f] = "absent"

\* The threads that account for one pin of f besides their guards.
Passing(f) == {t \in Thread : at[t].step \in {"latching", "dropped"} /\ at[t].frame = f}
Guarding(f) == {t \in Thread : \E g \in guards[t] : g.frame = f}

\* pin_count_ counts the guards of a frame, the fetches that wait for its latch
\* and the Drops that have not decremented it yet.
PinsCounted ==
    \A f \in Frame : frames[f].pin = Cardinality(Guarding(f)) + Cardinality(Passing(f))

\* The replacer never offers a frame that is pinned, although Drop decrements
\* the count and tells the replacer in two steps.
EvictableUnpinned ==
    \A f \in Frame : entry[f] = "evictable" => frames[f].pin = 0

\* A frame nobody pins can be evicted, or a Drop is about to make it so: no
\* interleaving of Drops and fetches loses a frame of the pool for good.
NoFrameLost ==
    \A f \in Frame :
        (frames[f].pin = 0 /\ ~InFree(f) /\ ~aborted) =>
            \/ entry[f] = "evictable"
            \/ \E t \in Thread : at[t] = [step |-> "unpinned", frame |-> f]

\* While a thread has a guard on a page, or waits for the latch to get one, the
\* page stays in that frame; and a page is guarded by one writer or by readers.
GuardedPagesStay ==
    /\ \A t \in Thread : \A g \in guards[t] : page_table[g.page] = g.frame
    /\ \A t \in Thread : at[t].step = "latching" => page_table[at[t].page] = at[t].frame
    /\ \A t, u \in Thread : \A g \in guards[t], h \in guards[u] :
          (t # u /\ g.page = h.page) => g.mode = "read" /\ h.mode = "read"

\* No change to a page is lost: memory has every change of a resident page, the
\* disk has those of a page that is clean or not resident.
NoLostUpdate ==
    \A p \in Page \ deallocated :
        /\ Resident(p) => frames[page_table[p]].data = latest[p]
        /\ (Resident(p) => ~frames[page_table[p]].dirty) => disk[p] = latest[p]

\* Nothing is under way, no page is guarded, every resident page can be evicted.
Quiet ==
    /\ at = [t \in Thread |-> Idle]
    /\ guards = [t \in Thread |-> {}]
    /\ bpm_latch = NoThread
    /\ \A f \in Frame : frames[f].pin = 0 /\ (~InFree(f) => entry[f] = "evictable")

\* The pool never stops by itself: once no thread makes a call, every call and
\* every guard comes to its end, and all frames can be used again.
ComesToRest == []<><<\E t \in Thread : Call(t)>>_vars \/ <>[]Quiet

-----------------------------------------------------------------------------
(* What a comment says, and the code does not do. *)

\* DeletePage removes a page that is not pinned: the assertion in Remove holds.
DeleteNeverAborts == ~aborted
=============================================================================
