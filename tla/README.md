# A TLA+ development of BusTub

This directory models BusTub (CMU 15-445) as this repository implements it, from the
disk scheduler up to the SQL prompt and its connections: TLA+ modules translated from the C++ sources, TLC configurations
that check them on small instances, and theorems about them that TLAPS checks for
every instance. `PROJECT.json` maps each definition to the lines it stands for.
Paths below are relative to `src/bustub-master/src/`.

## 1. The system

| Component | State | Operations | What is hard | What makes it correct |
| --- | --- | --- | --- | --- |
| ARC replacer (`buffer/arc_replacer.cpp`) | four lists, two maps with list iterators, `curr_size_`, the target `mru_target_size_` | `RecordAccess`, `Evict`, `SetEvictable`, `Remove` | a list and its map must never part; trimming relies on bounds that hold only under the pool's protocol | lists match maps, the directory bounds, the size counts what can be evicted, any client sees a plain set of frames |
| Buffer pool (`buffer/buffer_pool_manager.cpp`) and page guards (`storage/page/page_guard.cpp`) | `page_table_`, `frame_to_page_`, `free_frames_`, the frames (data, `pin_count_`, `is_dirty_`, `rwlatch_`), `bpm_latch_` | `NewPage`, `DeletePage`, read and write fetches, `FlushPage`, `FlushAllPages`; a guard's construction, writes, `Flush`, `Drop` | the frame latch is taken after `bpm_latch_` is released; `Drop` is three steps, one without any latch; flushes wait with `bpm_latch_` held | a page has one frame, pins are counted, only unpinned frames are evicted, no change is lost, no frame is lost, callers do not block for ever |
| Disk scheduler (`storage/disk/disk_scheduler.cpp`, `common/channel.h`) | request queue, worker thread, promises | `Schedule`, `DeallocatePage`, the destructor | buffers are shared by pointer; shutdown with requests queued; I/O errors | requests are served once each, in order, before their future is ready; all are answered |
| Disk manager (`storage/disk/disk_manager.cpp`) | `pages_`, `free_slots_`, `page_capacity_`, the file | `ReadPage`, `WritePage`, `DeletePage` | failures between allocation and recording; file sizes held in an `int` | pages have slots of their own, inside the file |
| Table heap (`storage/table/`, `storage/page/table_page.cpp`) | chained slotted pages, `last_page_id_` under `latch_`; in an iterator its place and its stop | `InsertTuple`, `UpdateTupleMeta`, `UpdateTupleInPlace`, `GetTuple`, `MakeIterator`, `MakeEagerIterator`, `operator++` | offsets in unsigned numbers; pages are added while iterators move; the bound and the start of an iterator are read at different moments | a log of rows that keep their places; scans read each row up to their stop once |
| B+ tree (`storage/index/`, `storage/page/b_plus_tree_*`) | pages of the tree, latched through guards | `GetValue`, `Insert`, `Remove`, iterators | optimistic paths release all latches and latch the leaf again; splits, loans, merges, sibling latches | behaves as an ordered set of keys; no key is lost; the tree stays balanced and its leaves chained |
| Transactions (`concurrency/`, `execution/execution_common.cpp`) | timestamps of tuples, undo logs and links, `txn_map_`, `last_commit_ts_`, the watermark | `Begin`, `Commit`, `Abort`, `GarbageCollection`, `ModifyTuple`, `InsertTupleMvcc`, `VerifyTxn`, the scans | commits that stamp tuples one by one while others read, aborts, collection of versions still needed, a key inserted in three steps | snapshot isolation, serializability where asked for |
| Planner, optimizer, executors (`planner/`, `optimizer/`, `execution/`) | a plan tree; in each executor a cursor, a batch and an offset | `PlanSelect`, the rewriting rules, `Init` and `Next` | rules that move and renumber expressions; state kept between two batches; executors started again | the answer is the one of the SQL statement, whatever the rules and the batches |
| BusTub instance and shells (`common/bustub_instance.cpp`, `bustub_ddl.cpp`, `tools/shell`, `tools/nc-shell`) | `current_txn_`, variables, a transaction per connection | `ExecuteSql`, `ExecuteSqlTxn`, BEGIN, COMMIT, ROLLBACK, SET, `\txn`, `Serve` | strings of several statements that fail in the middle; three places that end a transaction; clients that go | what a user is told is what has happened; nothing is written in a transaction that has ended; each ends once |
| Binder, catalog, types | - | - | sequential, no protocol of their own | - |
| Stubs: hash indexes, LRU/LRU-K/clock, lock manager, log manager, checkpoints | - | not implemented in this repository | - | - |
| Primers (`primer/`) | a skip list, sketches, a trie, a set | - | partial locking, unlinking at all levels | each behaves as its abstract type |

Interactions. An executor or the B+ tree calls the pool for a page and gets a guard;
the pool calls the replacer under `bpm_latch_` and waits for futures of the disk
scheduler under it; the scheduler's worker calls the disk manager. A guard's `Drop`
calls back: it releases the frame's latch, decrements the pin count, then takes
`bpm_latch_` and tells the replacer. There is no write-ahead log and no recovery, so
the code promises nothing after a crash and no crash is modelled.

`PROJECT.json` lists under `hazards` each place where this code can go wrong in a way
a test would hardly reach, with the property that covers it or the module that is to.

## 2. The plan

1. `Replacer`, `ArcReplacer`, `ArcReplacerProofs`: done.
2. `BufferPool`, with `Replacer` for the policy, and `BufferPoolProofs`: done.
3. `PageStore`, `DiskManager`, `DiskScheduler`, `DiskSchedulerProofs` (types, distinct slots, the refinement): done.
4. MVCC: `SnapshotStore` (what is promised), `Mvcc` (what the code does), `MvccProofs` (types, the
   watermark, the order of the version chains, garbage collection against readers, what the undo logs say),
   `MvccStoreProofs` (what scans find, the refinement): done.
5. The B+ tree: `KeySet` (an index as a set of keys), `BPlusTree`, and `BPlusTreeProofs` for trees nobody removes
   from (types, balance, the chain of leaves, scans, the refinement), insertions, lookups and scans overlapping: done.
   Open: a proof about removals (see section 7).
6. Queries: `Sql` (what a statement means), `Planner`, `Optimizer`, `Executors`, `Query`: done for
   SELECT.
7. The table heap: `RowLog` (what it promises), `TableHeap`, `TableHeapProofs` (types, iterators, the
   layout, the refinement): done.
8. The instance and the shells: `Session`, which implements `SnapshotStore` too, `SessionProofs` (types, the
   current transaction, the refinement, the answers): done. Open: DDL.
9. The primers: the skip list's `Erase`, the count-min sketch's `Merge`: not begun; they are no part
   of the database.

How they compose: `ArcReplacer` implements `Replacer` (`ImplementsReplacer`), and
`BufferPool` uses the operators of `Replacer` where the code calls the replacer, so what is
shown of the pool holds for ARC and for any other policy. `DiskScheduler` extends
`DiskManager` and implements `PageStore` (`ImplementsStore`), which is the disk as
`BufferPool` assumes it: a request that was waited for has taken effect. `BPlusTree` and `Mvcc`
take pages and rows behind latches as the pool provides them (`GuardedPagesStay`,
`NoLostUpdate`), and `Mvcc` takes the heap as the log of rows that `TableHeap` implements (`ImplementsLog`). `Mvcc` uses the index as `KeySet` promises it (one step per entry and lookup), and
`BPlusTree` implements `KeySet` (`ImplementsIndex`); `Mvcc` implements `SnapshotStore`
(`ImplementsStore`). `Query` runs over the rows a transaction sees, which is what `SnapshotReads` of
`Mvcc` gives a scan. `Session` and `Mvcc` implement the same `SnapshotStore`: `Mvcc` in the small, from the latches of
single rows up, with well-behaved transactions; `Session` in the large, with a row written in one step, but with
whatever users do around the statements.

## 3. The modules

**`Replacer`** is the contract between the pool and a replacer. The state is, for each
frame, whether it is absent, pinned or evictable. The effect of each call is an operator on
that map, so that a critical section that makes several calls composes them.

**`ArcReplacer`** has one variable per field of the class and one action per public
method; every method holds `latch_` throughout. A list iterator stored in a map is the
position of the element (`At`), which exists as long as `ListsMatchMaps` holds. `Evict` is
three actions (from `mru`, from `mfu`, nothing), `RecordAccess` is three cases. Calls are
those of the pool (`ValidAccess`): a resident frame comes with its page, and a page is
entered in one frame only. `Remove` of a frame that is not evictable fails an assertion in
the code; whether the pool may do that is a question to `BufferPool`.

**`BufferPool`** interleaves threads. A step is the work between two points where another
thread can get in the way:

| Code | Actions |
| --- | --- |
| `NewPage` | `NewPage` |
| `CheckedReadPage`, `CheckedWritePage` | `CallFetch`; under `bpm_latch_` `FetchHit`, `FetchFree`, `FetchEvict` or `FetchFail`; then `Lock`, the wait for the frame's latch in the guard's constructor |
| `GetDataMut`, `AsMut` | `Write` |
| `ReadPageGuard::Flush`, `WritePageGuard::Flush` | `GuardFlush`, `ClearDirty` |
| `Drop` | `Drop` (the latch), `Unpin` (the count), `Settle` (`bpm_latch_` and the replacer) |
| `DeletePage` | `DeletePage`, with four outcomes, the failed assertion among them |
| `FlushPage`, `FlushAllPages` | `BeginFlush`, then `FlushOne` per page with `bpm_latch_` held |

The content of a page is the set of changes made to it, so a lost, stale or foreign copy is
told from the right one. The latch of a frame is held by the guards on it (`Latched`). A
critical section that waits for disk requests is one step, since nothing else can run under
`bpm_latch_` and the requests it waits for are its own; `DiskScheduler` justifies that
they have taken effect. The exception is a guard's `Flush`, which writes outside
`bpm_latch_`: the write and the change of the flag are two steps.

What callers do is part of the model, and assumed: a thread latches pages in ascending order
and a page once (otherwise two callers can wait for each other, as in any system of
latches); nobody asks for a page it knows to be deleted; a thread that flushes the pool holds no
guard itself; after `Flush` on a write guard the thread does not write through this guard
any more, unless it is in `Rewriting`. `Nesting`, `Flushing`, `Deleting` and `Rewriting`
say which threads do what, so that each run allows what its question needs.

**`DiskManager`** counts offsets and the file's size in pages. `GetFileSize` keeps the
width of the `int` the code casts to (`AsInt`; `IntPages` is the number of pages up to which the int is
right). A write or a read may fail before or after the page is recorded, and after a failure the stream
stays bad, as nothing clears it.

**`DiskScheduler`** adds the queue, the worker and the promises. A buffer is a location that a
request refers to, its content is read or written when the worker serves it. **`PageStore`** is what
clients are promised.

**`SnapshotStore`** is a store with snapshots: a transaction copies the committed versions when it
begins, writes to its own copy, may write a key only if nobody committed it since, and publishes
everything in one step; a serializable writer may commit only if its queries still select the same.
**`Mvcc`** is the code. A transaction is a thread that runs a program of statements (`Workloads`):

| Code | Actions |
| --- | --- |
| `Begin` | `Begin` |
| `SeqScanExecutor`, `IndexScanExecutor` | `StartScan`, then per row `Visit` (`GetTupleAndUndoLink`, under the page latch) and `Collect` (`CollectUndoLogs`, after it), `EndScan` |
| `UpdateExecutor`, `DeleteExecutor` | the scan drained first, then `Modify` row by row, an insertion for a row whose key changed. The code drains the scan in updates only; a deletion modifies the rows after each batch of 20 (`delete_executor.cpp:64`), which is the same up to 20 rows |
| `InsertExecutor`, `InsertTupleMvcc` | `StartInsert`, `LookUpKey`, then `Revive` (a deleted row) or `AppendRow` and `EnterKey` |
| `NestedIndexJoinExecutor` | `StartJoin`, `JoinRead`, `EndJoin` |
| `Commit`, `VerifyTxn` | `StartCommit`, `Fetch` and `VerifyRow` per changed row, `StampRow` per written row, `EndCommit` |
| `Abort` | `StartAbort`, `RestoreRow` per written row, `EndAbort` |
| `GarbageCollection` | `GarbageCollection`, in one step: it holds `txn_map_mutex_` and needs, as its callers see to, that nobody is inside a statement |

A version keeps its tuple, its timestamp (a temporary one is the transaction's number, above every
commit's), the mark of a deletion and the link to its undo log; an undo log is kept with the columns that it
changes and no others, as `GenerateNewUndoLog` makes it. A row that was appended and whose key is not
in the index (its insertion lost a race) is garbage of the heap no query finds by key; the mapping to
`SnapshotStore` is by key. What a TAINTED transaction does besides aborting is in `Session`.

**`RowLog`** is the list of rows ever inserted, and the scans of it: each fixes its stop between its start
and its first read. **`TableHeap`** is the code, with latches:

| Code | Actions |
| --- | --- |
| `InsertTuple` | `StartInsert` (`latch_`), `TakeLastPage`, `Grow` per new page or `TooLarge`, `Place` (up to `unlock`), `Leave` |
| `UpdateTupleMeta`, `UpdateTupleInPlace` | one action each; the caller's check is a choice |
| `MakeIterator`, `MakeEagerIterator` | `MakeIterator` (`latch_`), `Bound` (the page), then `Open`, the constructor of the iterator |
| `GetTuple`, `operator++` | `Read`, `Advance` |

Offsets are computed as in C++: the difference wraps at `SizeMod` and is cut at `OffsetMod`. A page's id is its
place in the chain, as `NewPage` gives ascending ids. A slot keeps the size of its row as the code does, cut to 16 bits.
`Wraps` is the condition that the difference is negative, and `LayoutUnlessWrapped` says that nothing else spoils a page.

**`KeySet`** is a set of keys with operations that are invoked, take effect at one moment and return.
**`BPlusTree`** interleaves threads at the points where the code holds no latch that keeps the others
out. The descent of a pessimistic operation holds the header page and its path for writing (`fix`), and a
removal that repairs a leaf goes through `TryLeft`, `TryRight` and `Merge`, each with the sibling's
latch. The optimistic ones are two steps, with the gap at `guards.clear()`: `PeekInsert` and
`InsertAtLeaf`, `PeekRemove` and `RemoveAtLeaf`. `GetValue` drops the header page before it
latches the root: `ReadHeader`, `Descend`. Latch coupling below it is one step, as nothing can overtake it.
An iterator holds its leaf and waits for the next one with it (`Advance`).
An internal page has n children and the n - 1 separators between them, as the code never uses key 0.
`RemoveFrom` is one step. The code reads the leaf's size at `b_plus_tree.cpp:591` when `UpdateAncestorMinKey`
may have given up the leaf's latch, so another thread might change the leaf just before; this takes leaves of four
entries or more, where the lost path does harm with no other thread at all (section 5).

Two steps break the tree whatever else is right: an optimistic insertion that enters its key in a leaf which has been split
or filled since it was chosen (`StaleLeaf`), and a lookup that descends from an old root to a leaf which is not the one for its
key (`StaleRoot`). `LeavesFresh` and `RootsFresh` say that these steps are not taken, and nothing else: the operations
overlap as they like. `SpecApart` is the tree without the two steps. In it a thread that is in front of one waits, for ever if nobody
makes the leaf fit again.

**`Sql`** says what a bound SELECT answers, from the clauses down: its `Answers` is a set, since ORDER BY
leaves ties open and LIMIT may cut any of them. Expressions are evaluated as the code does, with NULL.
**`Planner`** makes the plan tree; **`Optimizer`** has one operator per rule, each from plan node to
plan node, and `Rewrite` applies one bottom up; **`Executors`** has `CreateExecutor`, `Init` and
`Next` as functions from an executor's state to the set of states and batches that may follow (a set:
hash tables have no order). **`Query`** is `ExecuteSqlTxn`: `PlanQuery`, `Optimize` (a step per
rule), `StartExecutors`, `PollExecutor` (a step per batch).

**`Session`** is the instance and the programs around it. A thread is the prompt (`ExecuteSql`; in the shell with
managed transactions, in nc-shell without) or a client of nc-shell (`Serve`). A SQL string is a sequence of
statements, a statement is what it does to the rows:

| Code | Actions |
| --- | --- |
| `ExecuteSql` | `ExecuteSql` (the choice of the transaction), `FinishOwn` (the commit of one it has begun) or `Finish`, `Catch` (its handler) |
| `Serve` | `Connect`, `Query`, `CloseEnded`, `Disconnect`, `Finish`, `Catch` |
| `ExecuteSqlTxn`, the executors | `WriteRow` per row, `Conflict`, `ConflictAgain`, `Select`, `Bad`, `SetVariable` |
| `HandleTxnStatement` | `Begin`, `BeginRefused`, `CommitTxn`, `AbortTxn`, `EndRefused`, `MismatchStops` |
| `CmdTxn` | `Leave`, `Switch` |

That a query was run is kept (`scanned`) where it is looked at, at level SERIALIZABLE, and the variable where it
is read, in managed mode. `Orderly` says what is assumed of users: a COMMIT or ROLLBACK is the last statement of
its string, and `\txn N` goes neither to a transaction that has ended nor to the one that runs it.
Section 5 says what happens to the others.

## 4. The runs

| Run | Shows |
| --- | --- |
| `arc_replacer` | the invariants of ARC and that it implements `Replacer` |
| `buffer_pool` | seven invariants of the pool with two threads that nest guards, flush and delete |
| `buffer_pool_rest` | liveness: calls and guards come to their end and all frames are usable again |
| `disk_scheduler` | slots, shutdown, answers and the refinement of `PageStore`, with I/O errors |
| `mvcc` | snapshots, version chains, garbage collection, the watermark, and the refinement of `SnapshotStore` |
| `bplus_tree` | balance, chained leaves, scans and the refinement of `KeySet`, without the two racing steps (`SpecApart`) |
| `table_heap` | rows and slots of a page keep apart until an offset wraps, the heap implements `RowLog`, iterators stay at rows and within their stop, every call returns |
| `query` | plans and executors answer what the statement means, and end |
| `session` | what users are told, the current transaction, and the refinement of `SnapshotStore` |
| `delete_page` | `DeletePage` can fail an assertion in the replacer (violated) |
| `index_join` | a nested index join shows uncommitted rows (violated) |
| `bplus_race` | two inserts: a key in a leaf where nobody finds it (violated) |

Bounds, and why they are enough.

- `ArcReplacer.cfg`: two frames and five pages. Both ghost lists get longer than one, the
  target takes every value, the history and the total are both filled and trimmed.
- `BufferPool.cfg`: two threads, two frames, three pages: a page more than frames, so victims
  are taken while pages come back; each thread may hold two guards, so a pool can be full of
  pinned frames (`FetchFail`). `MaxWrites` = 1: a lost change is seen at the first one.
  Threads, as well as frames, are interchangeable: symmetry. Two threads suffice for
  each window between a step of `Drop` and another call; a third would add a reader.
- `BufferPoolRest.cfg`: no symmetry (liveness). One thread nests guards, and the same one flushes, when it
  holds none; the other takes one guard at a time. So there are waits for latches under a guard and under `bpm_latch_`, and
  no cycle of them, which is what the property needs (a thread that nests while
  another one flushes closes one, section 5). Contents matter nothing here (`MaxWrites` = 0).
- `DiskScheduler.cfg`: two pages and two buffers, a slot capacity of one at first so that the
  file grows. `IntPages` is out of reach in this run (section 5 says what is beyond it).
- `Mvcc.cfg`: two keys, two values, three rows, a first row loaded by an earlier transaction; every pair of
  five programs at both isolation levels (two updates of a row, a query and an insertion that would
  change it, a deletion and insertion of one key, a change of key, a scan), and three transactions where one
  reads while two commit, so that a chain has three versions and garbage collection may take one.
- `BPlusTree.cfg`: leaves of at most 3 and internal pages of at most 4, the sizes the repository's tests
  use; keys 1 to 6, so that the tree reaches height 3 and leaves split, borrow from both sides and merge; one
  thread fills and empties the tree, the other inserts, removes, looks up or scans. `Overlap` says which operations may run
  at one moment: insertions beside insertions, lookups and scans, removals beside removals and scans. An insertion or a lookup
  beside a removal is left out, the first because of what section 5 says of `Merge`, the second as a removal may take
  the root away from a lookup too. Only keys 4 and 5 are removed: internal pages then borrow from the left only, as
  the other direction loses a child (section 5).
  A root is not split beyond `MaxHeight` and no page taken beyond `MaxPages`; the run reaches neither.
- `TableHeap.cfg`: pages of 11 bytes, a header of 2 and slots of 3, rows of 1 byte, two of which fit on a page and leave
  too little for a third, a row of 6 bytes that fits on an empty page only, and one of 7 bytes that never fits. The 6-byte row behind
  a row of 1 byte makes the difference wrap, and the run reaches this. Three rows, so two pages or more, two
  writers and one scan. `FirstRowAlone` keeps scans away from the first insertion (section 5).
- `Query.cfg`: tables t(k, v) and u(k, w) of up to three rows with an index on k, batches of 2, so that
  batches fill up in the middle; about forty statements that between them use every rule of the
  optimizer, both pipelines and all the executors. Left out of them: an inner side of a join that restarts in the middle of
  a batch, a LEFT JOIN ON TRUE under a WHERE
  (see section 5), duplicates and NULLs in indexed columns, and a LIMIT in a subquery over an index scan
  (the answer is right for another set of rows).

- `Session.cfg`: the prompt and one client, two rows, three transactions, twelve strings (writes of one and of several
  rows, in both orders, a write before a statement that cannot be bound, a query, every statement on transactions),
  in three modes: managed, and nc-shell at either level. Two transactions are enough for a conflict, the third
  begins while one of them is left, TAINTED or switched away from. `AnyTxn` is FALSE and COMMIT ends its string
  (`Orderly`, section 5).

`CHECK_DEADLOCK FALSE` is given where the system may stop: no page is left to allocate and
threads have no duty to call (and an assertion stops the process); a destroyed scheduler has nothing to do;
transactions and queries end, and so does the bound of transactions in a session; and in the B+ tree an iterator and a removal may wait for each other
(section 5).

Fairness. `BufferPool!FairSpec` has weak fairness of what a thread does once it is inside a
call or has a guard (`Finish`): threads run, latches are granted, guards are destroyed at the
end of their scope. Calls, writes and flushes through guards are not fair: nobody has to make them.
`DiskScheduler!FairSpec` has weak fairness of the worker, a loop that only `Stop` ends. `TableHeap!FairSpec` has weak
fairness of what a thread does inside a call (`Continues`). `Query!Spec` has
weak fairness of the one thread that plans and polls: nothing it calls waits for another.

Properties are chosen for what several steps of several actors could break; each has a variant
of the code in the module ("Mutant", "Variant"), one plausible slip, that breaks it.

## 5. What the runs found

- **`DeletePage` races with `Drop`** (`delete_page`). `Drop` decrements the count outside
  `bpm_latch_`; `DeletePage` then takes the frame for unpinned and calls `Remove`, whose
  assertion that the frame is evictable fails.
- **The nested index join reads the heap as it is** (`index_join`): neither undo logs nor scan
  predicates, so it shows uncommitted rows. Only the starter pipeline plans it.
- **Optimistic insertion trusts a leaf it has let go** (`bplus_race`): the key goes into a leaf that has
  been split, where no lookup finds it. `RemoveAtLeaf` checks the size again and whether the key is there, and
  falls back to the pessimistic path: this one is right (`ImplementsIndex`).

What TLC shows of the same modules outside of these runs, with the change to a `.cfg` that shows it. The runs leave
each of these cases out, and the hazards in `PROJECT.json` say where:

- **A lookup starts at a root that is one no more**: `GetValue` latches the root after it has
  dropped the header page (`b_plus_tree.cpp:68`), and an insertion splits it in between. With `Spec` in place of `SpecApart`
  and one overlap of get and insert, `ImplementsIndex` is violated.
- **A removal merges with a sibling it has not looked at again**: between `TryLeft` and `Merge` nothing latches the
  sibling (`b_plus_tree.cpp:662`), and an optimistic insertion may fill it. With `LeafMax` = 4 and an insertion beside a
  removal, `Balanced` is violated: a leaf is full and has not been split.
- **An internal page that borrows from its right sibling loses a child**: `MoveFirstToEndOf`
  (`b_plus_tree_internal_page.cpp:242`) shifts the page ids from index 1, and the lent one stays at 0. When one thread inserts
  1 to 6 and removes 1, `ImplementsIndex` is violated. The same
  happens on the real pages: with sizes (3, 4), insertions of 1 to 7 and the removal of 1 lose key 4.
- **A removed first key takes the path with it**: `UpdateAncestorMinKey` pops the guards up to the page of
  the separator, and the repair goes on with what is left. With `LeafMax` = 4 and key 3 of 1 to 4 removed a leaf stays too
  small, and `Balanced` is violated. When the key is the first of the
  leftmost leaf nothing is left and `write_set_.front()` of an empty list is read (`b_plus_tree.cpp:758`); the model ends there in a
  state "terminated". With `LeafMax` = 3 a leaf that is too small is empty and has no first key, so this is out of reach.
- **A write after `Flush` is lost**: only the constructor of a write guard marks the page dirty, and
  `Flush` clears the mark (`page_guard.cpp:309`). With `Rewriting` = {t1} `NoLostUpdate` is violated.
- **`FlushPage` waits for a latch under `bpm_latch_`**, and a thread that fetches a page under a guard closes the cycle
  (`docs/relearn/project1-buffer-pool.md:232` asks for another order). With `Nesting` = {t1} and `Flushing` = {t2} in
  `BufferPoolRest.cfg`, `ComesToRest` is violated.
- **`GetFileSize` truncates to `int`** (`disk_manager.cpp:253`): past 2 GiB a read loses the free slot it
  was given, and the next appended page shares one. With `IntPages` = 4 and three pages `SlotsDistinct` is violated.
- **A row that does not fit is placed** (`table_page.cpp:43`): the difference of unsigned offsets wraps when a row is
  longer than what lies in front of the last one, and counts as room. `SlotsDisjoint` as an invariant of
  `TableHeap.cfg` is violated; `LayoutUnlessWrapped` says that a page is right as long as this has not happened to it.
- **The first row of a table** (`table_heap.cpp:143`): the bound of an iterator is read before the row is
  inserted and its start after, behind the stop; the assertion of `operator++` fails. With `FirstRowAlone` = FALSE
  `StopsInBound` is violated.
- **Filter and projection keep their batch across `Init`** (`filter_executor.cpp:30`, `projection_executor.cpp:28`): as
  the inner side of a nested loop join they begin the next round with the rows they still held. With the statement
  `SELECT t.*, x.* FROM t, (SELECT * FROM (VALUES (1), (2), (3), (4)) v(a) WHERE a <> 1 LIMIT 2) x` `AnswerIsRight` is violated.

What modelling showed besides:

- A row of the size of a page ends the process (`table_heap.cpp:67`, `BUSTUB_ENSURE`) instead of the `nullopt`
  the comment at line 50 promises.
- ARC's target stays as it is on a hit in the frequent ghost list when the recency one is longer, unlike
  its documented formula (`arc_replacer.cpp:183`).
- An iterator waits for the next leaf with its own one latched; a removal holds that next leaf and
  waits for its left sibling: a cycle of latches.
- A removal of a leaf without siblings (internal pages of 3) does not repair the chain, whose
  previous leaf goes on pointing to the deleted page. `InternalMax` is 4 in the runs for this reason.
- `OptimizeMergeFilterNLJ` moves the WHERE of a LEFT JOIN ON TRUE into the join's condition
  (`merge_filter_nlj.cpp:90`): the unmatched rows come back with NULLs.
- nc-shell closes the connection of a TAINTED transaction without aborting it (`tools/nc-shell/nc-shell.cpp:67`,
  unlike lines 77 to 85; `docs/relearn/project4-mvcc.md:215` asks for the abort): the rows it wrote conflict
  with everybody's writes from then on.
- A second conflict in a TAINTED transaction ends the process (`transaction_manager_impl.cpp:123`), and nothing
  keeps statements from going on after the first.
- Statements behind a COMMIT or ROLLBACK in one string run in a transaction that has ended: `COMMIT; INSERT`
  writes rows nobody will commit, and is told ok. `INSERT; COMMIT` outside of BEGIN commits and reports an
  error, as `ExecuteSql` commits once more. `BEGIN; COMMIT` in one string fails the assertion of
  `bustub_ddl.cpp:209`, as the string still runs in the transaction before it (`MismatchStops`, in the run).
- `\txn -1` with no current transaction dereferences null (`bustub_instance.cpp:472`); `\txn N` with a
  transaction that has ended, or with the one the call itself has begun, leaves a `current_txn_` that
  cannot end (`AnyTxn`).
- `CREATE TABLE` with a primary key of a table that exists dereferences null (`bustub_ddl.cpp:64`, before the check
  at line 87), one whose primary key is refused leaves the table behind, and `CREATE INDEX` misses rows that
  are inserted while it runs.

The other consequence of the window in `Drop` that the notes suspect
(`docs/relearn/project1-buffer-pool.md:179`, a frame used again that is marked evictable by a late `Drop`)
does not happen: `Drop` reads the count again under `bpm_latch_`, and `EvictableUnpinned`
and `NoFrameLost` hold in every interleaving. What remains is that a fetch may find no frame although
one is not pinned any more (`FetchFail` while a thread is "unpinned").

## 6. What is proved

`ArcReplacerProofs`, for every finite set of frames and every set of pages, from
`FrameAssumption` alone:

- `ArcInvariant`: `Spec => []IInv`. None of the properties is inductive alone: that a list can be
  trimmed (`TrimFindsGhost`) needs the directory bounds, these need that a frame is in one
  list once and in the maps (`ListsMatchMaps`), and `curr_size_` never going below 0 needs
  that it counts the evictable entries (`SizeCountsEvictable`). `IInv` is their conjunction with
  `TypeOK`. There is one lemma per action, over lemmas about the three changes of a list (`RemoveAtType`,
  `PushType`, `FrontType` and their `Holds...` versions) and about maps.
- `ArcTypeOK`, `ArcListsMatchMaps`, `ArcSizeCountsEvictable`, `ArcGhostsAreNotResident`,
  `ArcDirectoryBounds`, `ArcTrimFindsGhost`: the properties one by one (`GhostsAreNotResident` in no run).
- `ArcImplementsReplacer`: every step of ARC is a step of `Replacer` under the refinement mapping.

`BufferPoolProofs`, for every finite set of threads and of frames (`NamesAssumption`), all values of the
bounds (`BoundsAssumption`) and every choice of the threads that nest, flush and delete:

- `PoolInvariant`: `Spec => []IInv`. That a victim is guarded by nobody (`GuardedPagesStay`) needs that
  pins are counted (`PinsCounted`) and that a frame is only tracked as evictable, or not
  at all, with pin count 0 (`PinnedTracked`, which has `EvictableUnpinned` for free frames too);
  that a count moves by one when a guard comes or goes needs that a thread has one guard in
  a frame, hence that it latches a page once (`CallersInv`) and that a frame has one page
  (`OneHome`); that a flush finds its pages resident needs that it holds `bpm_latch_`
  (`FlushersInv`). There is one lemma per action, over lemmas about the counts (`OneApart`,
  `CountMoves`) and about parts that a step leaves alone (`SameMaps`, `SameCallers`, ...).
- `PoolTypeOK`, `PoolOneHome`, `PoolPinsCounted`, `PoolEvictableUnpinned`,
  `PoolGuardedPagesStay`: the properties one by one.
- `PoolNoFrameLost`: on top of `IInv`, frame by frame (`Kept`): a step that leaves a
  frame unpinned and not evictable leaves a thread between the two halves of `Drop`.
- `PoolNoLostUpdate`, if `Rewriting = {}`: on top of `IInv`, `DInv` adds that a page under a write guard
  is dirty until `Flush` on this guard (`DirtyGuards`) and that nobody changes the page between the
  two halves of that `Flush` (`WrittenPages`); both rest on a writer's guard being the only
  one on its page (`GuardFacts`). Without the assumption the property is false: see section 5.

`MvccProofs`, for every set of keys, values and predicates, every number of transactions and rows and every
workload (`BoundsAssumption`, `PredicateAssumption`, `WorkloadsAssumption`, `JoiningAssumption`;
`MvccStoreProofs` also uses `LoadedAssumption`, that no key is loaded twice, which `InsertTupleMvcc` refuses):

- `MvccInvariant`: `Spec => []IInv`. `TypeOK` is not inductive alone: a commit timestamp stays below
  `TXN_START_ID` because every commit used up an id (`CommitsCounted`), an undo log that is
  extended or restored exists because links name logs of transactions that have begun and
  ids do not come back (`LinksKnown`, `IdsIssued`), a row that a thread is about to touch is in the heap
  (`RowsKnown`), and only the threads of active transactions are at work (`BusyActive`).
- `MvccTypeOK`.
- `MvccWatermark`: the counts of `current_reads_` are the numbers of active readers of each timestamp
  (`WatermarkCounts`); a commit or abort takes out one reader and the entry only with the last.
- `MvccVersionsOrdered`: a write that is no conflict replaces a version of its own or one committed by the
  time of its snapshot, which is past (`SnapshotsPast`); an abort takes the first log of
  a row it wrote for its own (`OwnLinks`), and what it restores was committed.

- `MvccUndoLogsKept`: a reader walks a chain, and a step changes the chain anywhere, so that an invariant about walks
  is not kept by looking at one step. `ChainsKept` says instead that there is a set of undo logs which exist, with
  the first log of every row and the next log of every log in it that is needed from a version newer than the watermark
  (`Kept`). Writers add a log to the set (`ModifyTupleKept`), rollbacks and stamps need no new one, and the
  watermark never goes back (`WatermarkGrows`). What `GarbageCollection` may take is stated over the walk of at most
  `MaxTxns` logs in `NeededBy`, so that this case needs two things: what the n-th step of the recursive `Older`
  finds (`BacksExist`, `OlderIs`, `ChainKept`, each by `Induction` over n, from the least number that fails), and that a
  walk which is still above the watermark is no longer than that, because the timestamps of committed versions go
  down by one at least and a commit takes a transaction (`ChainEnds`).

Steps that neither begin nor end a transaction keep the watermark (`Quiet`), steps that write no row and
no log keep the chains (`StillChains`), so that each of these parts looks at a few actions only.

- What the logs say. `Told(N)`: N gives every log that is needed the row it belongs to, the value
  it restores and the answer a reader gets from there on at each timestamp from the watermark on. `Goes(N, M)`: a
  step leads from N to M and changes no answer at a timestamp that a reader may still use, whatever it
  adds, stamps, restores or erases (`ToldStep`).

`MvccStoreProofs`, from the same assumptions:

- `MvccSnapshotReads`, in three parts. `KeysInv`: the index keeps up with the rows; a row is the one the index has for its
  key or an orphan that nobody sees, as its insertion was undone, has failed or has yet to enter the key.
  `Following`: what a scan took from a row under its latch still leads, through the undo logs, to what the
  transaction sees of this row, although others have overwritten it since. `Pending`: a row that the transaction sees
  and the filter selects is among the rows found or still to visit, and in one place only; this needs that a transaction
  writes nothing of its own while it scans (`NoScan`) and that the steps of others change nothing that it
  sees (`OthersUndisturbed`, `OthersScan`). `ReadsInv` is their conjunction for some N that tells the
  logs; `ScansStep` is the step from N to M, and `DrainedSees` reads the property off when nothing is left to visit.
- `MvccCommits`: `Spec => []CommitInv`. One transaction at a time verifies and stamps its rows (`Mutex`), a row is
  committed, in progress, or stamped by the transaction that commits (`Stamps`), and under a row in
  progress is the version its writer started from, in its own undo log (`OwnBase`).
- `MvccImplementsStore`: every step is a step of `SnapshotStore` or none. The store's version of a key is the answer that
  N gives for its row (`KeysTold`), so no step changes one that is in use, garbage collection included (`StepVersions`,
  `DbOn`, `SnapOn`), and what others have written and asked stays (`OthersSame`). A write is one of the store because a row that
  is no conflict is its own or as its snapshot has it (`KeyUnchanged`) and nobody else's (`KeyFree`). `EndCommit` is the
  commit of the store, with all rows at once: the stamped rows are the rows it wrote (`AllStamped`) and what they replaced is
  what its snapshot has (`OwnBase`). That its queries would select the same (`QueriesStill`) needs two invariants over N:
  a row committed since a serializable transaction began is among those the code looks at, whatever
  garbage collection took (`ChangesSeen`), and a verification has passed a row, holds a copy of it or has it still to visit
  (`VerifySees`). A passed row is one the queries do not tell apart, although the code tests version by
  version what the queries select before and after (`PassOn`, by induction down the chain; `NotPhantom`). An abort is one of the
  store at its first step (`AbortedStore`): the rows it has yet to restore are nobody's.

`TableHeapProofs`, for all sets of writers, scanners and rows and all page sizes (`HeapBounds`):

- `HeapInvariant`: `Spec => []HeapInv`. That an iterator is at a row (`AtRow`) needs that every page but
  the last has rows, or is latched by the insertion that will place one (`Filled`), and this needs that
  there is one insertion at a time between `latch_` and its end (`Exclusive`) and that it latches the last page.
- `HeapTypeOK` (in no run), `HeapIteratorAtRow`: the properties.
- `HeapLayout`, for rows of any length: a page whose rows or slots overlap has a row that is longer than what lay before the row
  inserted last (`Wraps`). Nothing keeps such rows out of the heap, so that this is what can be said of the layout.
- `HeapStops`, if `FirstRowAlone`: the place of an iterator is before its stop, because the stop is in the chain and
  has as many rows as it counts. Without it TLC
  finds the property false: the case of section 5.
- `HeapImplementsLog`, if `FirstRowAlone`: every step of the heap is a step of `RowLog` or none, with the rows of all
  pages in one sequence for the log. `Joined(ss, n)` is what the first n sequences make together; that it
  is `FlattenSeq` of them and what becomes of it when one sequence grows or changes at one place (`JoinedStep`,
  `JoinedAt`, `JoinedUpdate`) is shown by induction over n. The library's induction theorems cannot be
  instantiated, so `Induction` is stated of a set of numbers and follows from the theorem on minimal
  elements. Then `RowsSame`, `RowsAppend` and `RowsPut` say what adding a page, placing a row and updating one do
  to the log, `PlaceKept` that pages which only grow at the end (`Grown`) keep every place, and
  `FollowingPlace` that `operator++` goes one place on. That an iterator which stops at a place has read
  exactly the rows before it needs that it has one stop, after as many rows as there were when it was made, and
  that a page is only added behind one with rows (`LogInv`).

`SessionProofs`, for every set of clients, rows and strings, any number of transactions and all modes
(`SessionAssumption`):

- `SessionTypeOK`: a write that is the next statement has a row left (`KeysLeft`), a thread's transaction is in the map.
- `SessionCurrentActive`, of orderly users: a transaction has one thread, and is active as long as a statement of
  its thread is to come; the current one is active and is not the one that `ExecuteSql` has begun for
  the call (`Owned`). `OwnedThread` reduces each action to the thread that takes it.
- `SessionImplementsStore`, of orderly users: the current version of a row that an active transaction may
  overwrite is the one in its snapshot, because later ones have a later timestamp (`Versioned`). Each action has one
  of six effects (`StepEffect`), and each effect is a step of `SnapshotStore` or none (`EffectImplements`).
- `SessionAnswerTells`, of orderly users whose strings with a COMMIT write nothing (`Unmixed`; without it TLC finds the
  property false: `INSERT; COMMIT` of section 5). `Answers` holds while `ExecuteSql` runs a string in a transaction it has
  begun: no committed row is of this transaction, and it is RUNNING only as long as every statement has succeeded. Steps of
  other threads are about other transactions (`ExecuteTouches`, `OthersAnswer`), and only the last step of a
  string makes the prompt idle (`ToldAtEnd`).

`BPlusTreeProofs`, for every finite set of threads, every set of keys and all page sizes from 2 entries in a leaf and
3 children up (`TreeBounds`), if nobody removes (`InsertOnly`). This is how the
database uses its index: of its code `DeleteEntry` alone calls `Remove`, and nothing calls `DeleteEntry` (a deleted row
keeps its entry; `b_plus_tree_debug.h` has helpers for tools that remove). Any number of insertions, lookups and scans
overlap. The theorems are about behaviours in which no insertion enters its key in a stale leaf, `[][LeavesFresh]_vars`, and
`TreeImplementsIndex` about those in which, besides, no lookup descends from a stale root, `[][RootsFresh]_vars`: the steps that
`bplus_race` and section 5 show are the only ones that spoil the tree.

- `TreeInvariant`: `Spec /\ [][LeavesFresh]_vars => []InsertInv`. There are a lower and an upper bound and a level for each page (`Shaped`): a page's
  keys lie between its bounds, the separators of an internal page are the bounds of its children, pages of one
  level cover different keys, a leaf's next page begins where it ends, and each page is as full as it
  must be (`Filled`). Bounds and levels are no part of the state: the invariant says that some exist, and each step gives new
  ones. A split is an insertion that climbs. Between two levels the tree is not a search tree, as the new right half
  has no parent yet; `Tree(.., x, y)` is the shape of this moment, where x still covers what y has
  (`Wide`). One level of the climb leads from such a tree to another or to a whole one
  (`SplitLeafPasses`, `IntoParentPasses`), the whole climb by induction over the path (`InsertedRises`), and the last
  split makes a root (`NewRoot`). Since all leaves together then hold one key more and the other pages are as before (`Took`),
  what threads have seen of the tree stays true (`Seen`): the leaf an optimistic insertion remembers is still the one
  for its key and has room unless `StaleLeaf` holds, the place of a scan is still there, the keys it has yet to return are
  beyond it.
- `TreeTypeOK`; `TreeScanSeesKept`: no leaf is empty, so that an iterator at the end of its leaf is one hop away from the next key
  (`SettledIs`).
- `TreeImplementsIndex`, of `SpecApart`'s steps: what searches find (`Reachable`) is what the leaves
  hold (`ReachableStored`), because pages of a level cover different keys and a descent goes to the one that covers the key
  (`PathDescends`), and an insertion adds its key to it in one step.
- `TreeBalanced`, `TreeLeavesChained`: the levels of the tree are runs of pages side by side from no bound to no
  bound (`LevelIs`), by induction from the root down (`NextRun`). The lowest run are the leaves (`LeavesRun`), each of
  them is linked to the one beside it, which begins where it ends (`ChainLinks`), and their keys ascend (`ChainAscends`).

`DiskSchedulerProofs`, for every finite set of pages, all buffers and contents, and every capacity to begin with
(`CapacityAssumption`):

- `SchedulerTypeOK`: `Stop` stays at the end of the queue (`WellMarked`), and the file is grown far enough for every
  slot that is in use or free (`InFile`), after I/O errors too.
- `SchedulerSlotsDistinct`, if `SmallFile`: pages and free slots share out the first slots (`Apart`) until the first
  error. `SmallFile` says that `GetFileSize` can tell every size the file grows to: with the cast to `int` a read of
  a larger file gives up before it records the slot it took, and the slot is lost.
- `SchedulerImplementsStore`, if `SmallFile`: a write leaves the other pages alone because its slot is nobody else's
  (`SlotApart`, `WriteStores`); each buffer is in one request, which is done once (`OnceEach`), so that the answer
  to one request is not taken for another.

## 7. What is only model-checked, and what is not modelled

Only model-checked, on the instances above: removals from the B+ tree, beside which the theorems of
`BPlusTreeProofs` say nothing (with repairs half done no bounds fit the pages, and larger pages or several
repairs end in the states of section 5); the queries; liveness (`ComesToRest`, `EveryRequestAnswered`, `ShutdownEnds`,
`QueryEnds`, `CallsReturn`), as temporal reasoning with fairness and ENABLED is out of the prover's reach. `Sql`, `Planner`,
`Optimizer` and `Executors` are functions on trees, written with RECURSIVE operators: induction over data is
out of the prover's reach too.

Granularity. A step of `Mvcc` is the work under one page latch; the walk along undo logs after it is one
step, since the logs behind the first belong to ended transactions and are fixed. Descents of the B+ tree are one step
under the latches that protect them. Page ids are used again as soon as nothing refers to
them, so that the use of a deleted id by a thread that remembers it is a step on an absent page, never on a
foreign one. Data races on `is_dirty_` (a plain `bool` that readers may clear together under a shared latch,
`page_guard.cpp:141`) are taken as atomic accesses in any order.

Not modelled, each with its reason in `PROJECT.json`: the stubs, the primers, the in-memory disk managers,
tools and bootcamp; the binder and the catalog; types other than INTEGER and BOOLEAN. Of the modelled files:
`WriteLog` and `ReadLog` of the disk manager, which nothing calls, `Size` and `GetPinCount`, which only read;
`Begin()`, `End()`, the bulk operations and the tombstones of the B+ tree (the index is built
without them); the bytes of tuples, and `num_deleted_tuples_`, which nothing reads; DDL, EXPLAIN and the commands that print; OFFSET, window functions, TopN, CTEs,
SELECT without FROM, mock scans and `InitCheck`. COUNT of NULLs only is NULL, as `CombineAggregateValues`
has it, and `Sql` follows it.
