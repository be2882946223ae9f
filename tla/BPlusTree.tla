------------------------------ MODULE BPlusTree ------------------------------
(***************************************************************************)
(* storage/index/b_plus_tree.cpp and the pages and iterator it works on:   *)
(* a B+ tree of unique keys, called from several threads.                  *)
(*                                                                         *)
(* A step is what happens while latches are only taken: a descent that     *)
(* holds the header page or a latch on every page of its path, and the     *)
(* changes it makes before it releases the first latch.  Two places are    *)
(* several steps: the optimistic insertion and removal, which release      *)
(* every latch and take the latch of the leaf again, and the removal that  *)
(* has to repair an underfull leaf, which takes, releases and retakes the  *)
(* latches of the siblings.                                                *)
(*                                                                         *)
(* An entry is its key.  Tombstones are left out: NumTombs is 0, as in     *)
(* BPlusTreeIndex.                                                         *)
(***************************************************************************)
EXTENDS Naturals, FiniteSets, Sequences, SequencesExt

CONSTANTS Thread, Key,
          LeafMax,       \* leaf_max_size_
          InternalMax,   \* internal_max_size_
          MaxPages,      \* bound: pages alive or remembered at a time
          MaxHeight,     \* bound: pages on a path
          Calls,         \* the calls there may be: [thread, op, key]
          Overlap        \* the operations that may be in progress together

ASSUME TreeBounds ==
    /\ Key \subseteq Nat
    /\ LeafMax \in Nat /\ LeafMax >= 2 /\ InternalMax \in Nat /\ InternalMax >= 3
    /\ MaxPages \in Nat /\ MaxHeight \in Nat \ {0}
    /\ IsFiniteSet(Thread)

PageId == 1..MaxPages
NoPage == 0                    \* INVALID_PAGE_ID

VARIABLES root_page_id,        \* in the header page
          pages,               \* the pages of the tree that are not deleted
          at                   \* what each thread is doing

vars == <<root_page_id, pages, at>>

Idle == [do |-> "idle"]

\* A leaf: its keys and the next leaf.  An internal page: its children and the
\* separators between them; the key in slot 0 is never used and left out.
Leaf(keys, next)   == [leaf |-> TRUE, keys |-> keys, kids |-> <<>>, next |-> next]
Inner(keys, kids)  == [leaf |-> FALSE, keys |-> keys, kids |-> kids, next |-> NoPage]

Smallest(S) == CHOOSE x \in S : \A y \in S : x <= y

LeafMin     == LeafMax \div 2
InternalMin == InternalMax \div 2

-----------------------------------------------------------------------------
(* Latches.  A thread that repairs the tree holds the header page and its   *)
(* path for writing, an iterator holds its leaf for reading.                *)

HeaderFree(t) == \A u \in Thread \ {t} : at[u].do # "fix"

Scanning(t) == at[t].do \in {"scan", "waiting"}

WriteLatched(t) == UNION {Range(at[u].path) : u \in {x \in Thread \ {t} : at[x].do = "fix"}}
ReadLatched(t) == {at[u].leaf : u \in {x \in Thread \ {t} : Scanning(x)}}
\* Mutant: iterators are not waited for.
LatchedForWriting(t) == WriteLatched(t)

Latched(t) == WriteLatched(t) \cup ReadLatched(t)

-----------------------------------------------------------------------------
(* Searching.                                                               *)

Before(keys, k) == Cardinality({i \in DOMAIN keys : keys[i] < k})
UpTo(keys, k)   == Cardinality({i \in DOMAIN keys : keys[i] <= k})
Child(page, k)  == page.kids[UpTo(page.keys, k) + 1]
Has(page, k)    == k \in Range(page.keys)

\* The path from page p down to the leaf for k, as a set with one sequence.
Paths(p, k) ==
    LET down[n \in 1..MaxHeight] ==
            IF n = 1 THEN {<<p>>}
            ELSE {IF pages[Last(q)].leaf THEN q ELSE Append(q, Child(pages[Last(q)], k)) :
                     q \in down[n - 1]}
    IN  down[MaxHeight]

Path(p, k) == CHOOSE q \in Paths(p, k) : TRUE
LeafFor(k) == Last(Path(root_page_id, k))

\* The keys a descent from the header page finds.
Reachable == IF root_page_id = NoPage THEN {} ELSE {k \in Key : Has(pages[LeafFor(k)], k)}

-----------------------------------------------------------------------------
(* New pages.  The program never uses a page id twice; an id that nothing   *)
(* refers to any more is as good as a new one.                              *)

RememberedBy(t) ==
    IF at[t].do \in {"leaf-insert", "leaf-remove"} \/ Scanning(t) THEN {at[t].leaf}
    ELSE IF at[t].do = "descend" THEN {at[t].root}
    ELSE IF at[t].do = "discard" THEN at[t].drop ELSE {}

Fresh(pgs) ==
    Smallest(PageId \ (DOMAIN pgs
                       \cup (UNION {Range(pgs[p].kids) \cup {pgs[p].next} : p \in DOMAIN pgs})
                       \cup (UNION {RememberedBy(t) : t \in Thread})))

With(pgs, p, page) == [q \in DOMAIN pgs \cup {p} |-> IF q = p THEN page ELSE pgs[q]]

PagesLeft == Cardinality(DOMAIN pages) + Cardinality(Thread) + MaxHeight < MaxPages

-----------------------------------------------------------------------------
Init ==
    /\ root_page_id = NoPage
    /\ pages = <<>>
    /\ at = [t \in Thread |-> Idle]

Goto(t, where) == at' = [at EXCEPT ![t] = where]

MayCall(t, op) ==
    /\ at[t] = Idle
    /\ \A u \in Thread \ {t} : at[u] # Idle => {op, at[u].op} \in Overlap

Call(t) ==
    /\ \E c \in Calls :
          /\ c.thread = t /\ c.op \in {"insert", "remove", "get"}
          /\ MayCall(t, c.op)
          /\ Goto(t, [do |-> c.op, op |-> c.op, key |-> c.key])
    /\ UNCHANGED <<root_page_id, pages>>

\* The end of an operation; its answer is in `res`.
Done(t, res) == [do |-> "return", op |-> at[t].op, key |-> at[t].key, res |-> res]
Return(t) ==
    /\ at[t].do = "return"
    /\ Goto(t, Idle)
    /\ UNCHANGED <<root_page_id, pages>>

\* The operation goes on with the pessimistic descent, or at a leaf.
Slow(t) == [do |-> "slow", op |-> at[t].op, key |-> at[t].key]
AtLeaf(t, how) == [do |-> how, op |-> at[t].op, key |-> at[t].key, leaf |-> LeafFor(at[t].key)]

-----------------------------------------------------------------------------
(* GetValue: the header page is released before the root is latched.        *)

ReadHeader(t) ==
    /\ at[t].do = "get"
    /\ HeaderFree(t)
    /\ IF root_page_id = NoPage THEN Goto(t, Done(t, FALSE))
       ELSE Goto(t, [do |-> "descend", op |-> "get", key |-> at[t].key, root |-> root_page_id])
    /\ UNCHANGED <<root_page_id, pages>>

\* What is read through the id of a page that was deleted is not modelled.
Descend(t) ==
    /\ at[t].do = "descend" /\ at[t].root \in DOMAIN pages
    /\ \E q \in Paths(at[t].root, at[t].key) :
          /\ Range(q) \cap WriteLatched(t) = {}
          /\ Goto(t, Done(t, Has(pages[Last(q)], at[t].key)))
    /\ UNCHANGED <<root_page_id, pages>>

-----------------------------------------------------------------------------
(* Insert.                                                                  *)

\* TryOptimisticInsert up to guards.clear().
PeekInsert(t) ==
    /\ at[t].do = "insert"
    /\ HeaderFree(t)
    /\ IF root_page_id # NoPage /\ Len(pages[LeafFor(at[t].key)].keys) + 1 < LeafMax
       THEN Goto(t, AtLeaf(t, "leaf-insert"))
       ELSE Goto(t, Slow(t))
    /\ UNCHANGED <<root_page_id, pages>>

Entered(page, k) == [page EXCEPT !.keys = InsertAt(@, Before(@, k) + 1, k)]

\* The rest of it: nothing but the key is looked at again.  A leaf that left the
\* tree in between is empty, and still there if this thread has pinned it.
InsertAtLeaf(t) ==
    /\ at[t].do = "leaf-insert" /\ at[t].leaf \notin Latched(t)
    /\ IF at[t].leaf \notin DOMAIN pages
       THEN Goto(t, Done(t, TRUE)) /\ UNCHANGED pages
       ELSE IF Has(pages[at[t].leaf], at[t].key)
       THEN Goto(t, Slow(t)) /\ UNCHANGED pages
       ELSE /\ pages' = [pages EXCEPT ![at[t].leaf] = Entered(@, at[t].key)]
            /\ Goto(t, Done(t, TRUE))
    /\ UNCHANGED root_page_id

\* A split on its way up: the pages, and the key and page to enter into the
\* parent; page NoPage when nothing is left to enter.
Carry(pgs, key, page) == [pages |-> pgs, key |-> key, page |-> page]

\* Mutant: the left half keeps its link.
SplitLeafUnlinked(pgs, p) ==
    LET keys == pgs[p].keys
        half == Len(keys) \div 2
        new  == Fresh(pgs)
    IN  IF Len(keys) # LeafMax THEN Carry(pgs, 0, NoPage)
        ELSE Carry(With(With(pgs, p, Leaf(SubSeq(keys, 1, half), pgs[p].next)),
                        new, Leaf(SubSeq(keys, half + 1, Len(keys)), pgs[p].next)),
                   keys[half + 1], new)

\* Mutant: the separator is the last key of the left half.
SplitLeafLow(pgs, p) ==
    LET keys == pgs[p].keys
        half == Len(keys) \div 2
        new  == Fresh(pgs)
    IN  IF Len(keys) # LeafMax THEN Carry(pgs, 0, NoPage)
        ELSE Carry(With(With(pgs, p, Leaf(SubSeq(keys, 1, half), new)),
                        new, Leaf(SubSeq(keys, half + 1, Len(keys)), pgs[p].next)),
                   keys[half], new)

\* Leaf page p after Split, when an insertion has filled it.
SplitLeaf(pgs, p) ==
    LET keys == pgs[p].keys
        half == Len(keys) \div 2
        new  == Fresh(pgs)
    IN  IF Len(keys) # LeafMax THEN Carry(pgs, 0, NoPage)
        ELSE Carry(With(With(pgs, p, Leaf(SubSeq(keys, 1, half), new)),
                        new, Leaf(SubSeq(keys, half + 1, Len(keys)), pgs[p].next)),
                   keys[half + 1], new)

\* Mutant: a full parent takes one more child.
IntoParentLate(c, p) ==
    LET i    == UpTo(c.pages[p].keys, c.key)
        keys == InsertAt(c.pages[p].keys, i + 1, c.key)
        kids == InsertAt(c.pages[p].kids, i + 2, c.page)
    IN  IF c.page = NoPage THEN c
        ELSE Carry(With(c.pages, p, Inner(keys, kids)), 0, NoPage)

\* InsertIntoParent for parent p.
IntoParent(c, p) ==
    LET i    == UpTo(c.pages[p].keys, c.key)
        keys == InsertAt(c.pages[p].keys, i + 1, c.key)
        kids == InsertAt(c.pages[p].kids, i + 2, c.page)
        mid  == Len(kids) \div 2
        new  == Fresh(c.pages)
    IN  IF c.page = NoPage THEN c
        ELSE IF Len(c.pages[p].kids) < InternalMax
        THEN Carry(With(c.pages, p, Inner(keys, kids)), 0, NoPage)
        ELSE Carry(With(With(c.pages, p, Inner(SubSeq(keys, 1, mid - 1), SubSeq(kids, 1, mid))),
                        new, Inner(SubSeq(keys, mid + 1, Len(keys)),
                                   SubSeq(kids, mid + 1, Len(kids)))),
                   keys[mid], new)

\* The insertion of k at the end of path q, as a set with one Carry.
InsertedAlong(q, k) ==
    LET entered == With(pages, Last(q), Entered(pages[Last(q)], k))
        up[n \in 0..Len(q) - 1] ==
            IF n = 0 THEN {SplitLeaf(entered, Last(q))}
            ELSE {IntoParent(c, q[Len(q) - n]) : c \in up[n - 1]}
    IN  up[Len(q) - 1]

InsertEmpty(t) ==
    LET new == Fresh(pages) IN
    /\ pages' = With(pages, new, Leaf(<<at[t].key>>, NoPage))
    /\ root_page_id' = new
    /\ Goto(t, Done(t, TRUE))

InsertDown(t, q) ==
    /\ Range(q) \cap Latched(t) = {}
    /\ IF Has(pages[Last(q)], at[t].key)
       THEN Goto(t, Done(t, FALSE)) /\ UNCHANGED <<root_page_id, pages>>
       ELSE /\ \E c \in InsertedAlong(q, at[t].key) :
                  IF c.page = NoPage THEN pages' = c.pages /\ UNCHANGED root_page_id
                  ELSE LET new == Fresh(c.pages) IN
                       /\ Len(q) < MaxHeight
                       /\ pages' = With(c.pages, new, Inner(<<c.key>>, <<Head(q), c.page>>))
                       /\ root_page_id' = new
            /\ Goto(t, Done(t, TRUE))

InsertSlow(t) ==
    /\ at[t].do = "slow" /\ at[t].op = "insert"
    /\ HeaderFree(t) /\ PagesLeft
    /\ IF root_page_id = NoPage THEN InsertEmpty(t)
       ELSE \E q \in Paths(root_page_id, at[t].key) : InsertDown(t, q)

-----------------------------------------------------------------------------
(* Remove.                                                                  *)

Without(keys, k) == SelectSeq(keys, LAMBDA x : x # k)

\* The key is removed, for t and for the scans in progress.
Removed(t, where) ==
    at' = [u \in Thread |-> IF u = t THEN where
                            ELSE IF Scanning(u) THEN [at[u] EXCEPT !.kept = @ \ {at[t].key}]
                            ELSE at[u]]

\* TryOptimisticRemove up to guards.clear().
PeekRemove(t) ==
    /\ at[t].do = "remove"
    /\ HeaderFree(t)
    /\ IF root_page_id # NoPage /\ Len(pages[LeafFor(at[t].key)].keys) > LeafMin
       THEN Goto(t, AtLeaf(t, "leaf-remove"))
       ELSE Goto(t, Slow(t))
    /\ UNCHANGED <<root_page_id, pages>>

\* Mutant: the size is not checked again.
RemoveAtLeafUnchecked(t) ==
    /\ at[t].do = "leaf-remove" /\ at[t].leaf \notin Latched(t)
    /\ IF at[t].leaf \in DOMAIN pages /\ Has(pages[at[t].leaf], at[t].key)
       THEN /\ pages' = [pages EXCEPT ![at[t].leaf].keys = Without(@, at[t].key)]
            /\ Removed(t, Done(t, TRUE))
       ELSE Goto(t, Slow(t)) /\ UNCHANGED pages
    /\ UNCHANGED root_page_id

RemoveAtLeaf(t) ==
    /\ at[t].do = "leaf-remove" /\ at[t].leaf \notin Latched(t)
    /\ IF /\ at[t].leaf \in DOMAIN pages
          /\ Len(pages[at[t].leaf].keys) > LeafMin /\ Has(pages[at[t].leaf], at[t].key)
       THEN /\ pages' = [pages EXCEPT ![at[t].leaf].keys = Without(@, at[t].key)]
            /\ Removed(t, Done(t, TRUE))
       ELSE Goto(t, Slow(t)) /\ UNCHANGED pages
    /\ UNCHANGED root_page_id

\* Where a child is among the children of its parent.
ValueIndex(page, p) == CHOOSE i \in DOMAIN page.kids : page.kids[i] = p

\* UpdateAncestorMinKey takes the guards of path q from its end: the leaf's,
\* where it finds no child, and those of the pages above, up to and with the
\* page that holds the separator.  Where on q that page is, 0 if nowhere:
SeparatorOf(pgs, q) ==
    LET above == {i \in 1..Len(q) - 1 : ValueIndex(pgs[q[i]], q[i + 1]) > 1}
    IN  IF above = {} THEN 0 ELSE CHOOSE i \in above : \A j \in above : j <= i

MinKeyUpdated(pgs, q) ==
    LET n == SeparatorOf(pgs, q)
    IN  IF n = 0 THEN pgs
        ELSE [pgs EXCEPT ![q[n]].keys[ValueIndex(pgs[q[n]], q[n + 1]) - 1] =
                             Head(pgs[Last(q)].keys)]

\* RemoveAt of an internal page.
DropKid(page, i) ==
    Inner(IF page.keys = <<>> THEN <<>> ELSE RemoveAt(page.keys, IF i = 1 THEN 1 ELSE i - 1),
          RemoveAt(page.kids, i))

\* MoveLastToFrontOf and MoveAllTo of internal pages, over separator key.
Lent(page, key, kid) ==
    Inner(IF page.kids = <<>> THEN <<>> ELSE <<key>> \o page.keys, <<kid>> \o page.kids)
Joined(left, key, right) ==
    Inner(left.keys \o (IF left.kids = <<>> THEN <<>> ELSE <<key>>) \o right.keys,
          left.kids \o right.kids)

\* A repair on its way up: the pages, those to delete, and whether it goes on.
Repair(pgs, drop, on) == [pages |-> pgs, drop |-> drop, on |-> on]

\* The repair at internal page q[m].  No other thread has a latch on its
\* siblings: the header page is held.
RepairInner(r, q, m) ==
    LET pgs    == r.pages
        p      == q[m - 1]
        parent == pgs[p]
        cur    == pgs[q[m]]
        i      == ValueIndex(parent, q[m])
        left   == parent.kids[i - 1]
        right  == parent.kids[i + 1]
        Lends(s) == Len(pgs[s].kids) > InternalMin
        hasLeft  == i > 1
        hasRight == i < Len(parent.kids)
    IN  IF ~r.on \/ Len(cur.kids) >= InternalMin THEN Repair(pgs, r.drop, FALSE)
        ELSE IF hasLeft /\ Lends(left)
        THEN Repair([pgs EXCEPT ![q[m]] = Lent(cur, parent.keys[i - 1], Last(pgs[left].kids)),
                                ![left] = Inner(Front(@.keys), Front(@.kids)),
                                ![p].keys[i - 1] = Last(pgs[left].keys)], r.drop, FALSE)
        ELSE IF hasRight /\ Lends(right)
        THEN Repair([pgs EXCEPT ![q[m]] = Joined(cur, parent.keys[i], Inner(<<>>, <<Head(pgs[right].kids)>>)),
                                ![right] = Inner(Tail(@.keys), RemoveAt(@.kids, 2)),
                                ![p].keys[i] = Head(pgs[right].keys)], r.drop, FALSE)
        ELSE IF hasLeft
        THEN Repair([pgs EXCEPT ![left] = IF cur.kids = <<>> THEN @ ELSE Joined(@, parent.keys[i - 1], cur),
                                ![q[m]] = Inner(<<>>, <<>>),
                                ![p] = DropKid(@, i)], r.drop \cup {q[m]}, TRUE)
        ELSE IF hasRight
        THEN Repair([pgs EXCEPT ![q[m]] = IF pgs[right].kids = <<>> THEN @
                                          ELSE Joined(@, parent.keys[i], pgs[right]),
                                ![right] = Inner(<<>>, <<>>),
                                ![p] = DropKid(@, i + 1)], r.drop \cup {right}, TRUE)
        ELSE Repair([pgs EXCEPT ![p] = DropKid(@, i)], r.drop \cup {q[m]}, TRUE)

\* The repairs at q[m], ..., q[2], as a set with one Repair.
RepairedFrom(r, q, m) ==
    LET up[n \in 0..m] == IF n = 0 THEN {r}
                          ELSE IF m - n < 1 THEN up[n - 1]
                          ELSE {RepairInner(x, q, m - n + 1) : x \in up[n - 1]}
    IN  up[m]

\* The second phase of Remove begins with the sibling that comes first.
Fix(t, q) ==
    LET parent == pages[q[Len(q) - 1]]
    IN  [do |-> "fix", op |-> "remove", key |-> at[t].key, path |-> q,
         look |-> IF Head(parent.kids) # Last(q) THEN "left"
                  ELSE IF Len(parent.kids) > 1 THEN "right" ELSE "merge"]

Discard(t, drop, next) ==
    [do |-> "discard", op |-> "remove", key |-> at[t].key, drop |-> drop, next |-> next]

\* The rest of Remove, from level m of path q on: the repair, and the root
\* that has one child or none.
FinishRemove(t, r, q, m, At(_)) ==
    \E x \in RepairedFrom(r, q, m) :
        LET root == x.pages[Head(q)]
            shrunk == ~root.leaf /\ Len(root.kids) <= 1
        IN  /\ pages' = x.pages
            /\ root_page_id' = IF ~shrunk THEN root_page_id
                               ELSE IF root.kids = <<>> THEN NoPage ELSE Head(root.kids)
            /\ At(Discard(t, IF shrunk THEN x.drop \cup {Head(q)} ELSE x.drop, "collapse"))

\* The leaf at the end of q loses the key.
RemoveFrom(t, q) ==
    LET before == pages[Last(q)].keys
        after  == Without(before, at[t].key)
        pgs    == [pages EXCEPT ![Last(q)].keys = after]
        moved  == after # <<>> /\ Head(before) # Head(after)
        n      == SeparatorOf(pgs, q)
        updated == IF moved THEN MinKeyUpdated(pgs, q) ELSE pgs
        Stop(where) == pages' = updated /\ UNCHANGED root_page_id /\ Removed(t, where)
    IN  IF Len(q) = 1
        THEN /\ pages' = pgs
             /\ root_page_id' = IF after = <<>> THEN NoPage ELSE root_page_id
             /\ Removed(t, IF after = <<>> THEN Discard(t, {Last(q)}, "return") ELSE Done(t, TRUE))
        ELSE IF Len(after) >= LeafMin THEN Stop(Done(t, TRUE))
        ELSE IF ~moved THEN Stop(Fix(t, q))
        \* Only the guards above the separator are left, or none at all.
        ELSE IF n > 1
        THEN FinishRemove(t, Repair(updated, {}, TRUE), SubSeq(q, 1, n - 1), n - 1,
                          LAMBDA where : Removed(t, where))
        ELSE Stop([do |-> "terminated", op |-> "remove", key |-> at[t].key])

RemoveSlow(t) ==
    /\ at[t].do = "slow" /\ at[t].op = "remove"
    /\ HeaderFree(t)
    /\ IF root_page_id = NoPage THEN Goto(t, Done(t, TRUE)) /\ UNCHANGED <<root_page_id, pages>>
       ELSE \E q \in Paths(root_page_id, at[t].key) :
               /\ Range(q) \cap Latched(t) = {}
               /\ IF Has(pages[Last(q)], at[t].key) THEN RemoveFrom(t, q)
                  ELSE Goto(t, Done(t, TRUE)) /\ UNCHANGED <<root_page_id, pages>>

-----------------------------------------------------------------------------
(* The second phase of Remove: the leaf has too few keys.                   *)

Fixing(t, look) == at[t].do = "fix" /\ at[t].look = look

Slot(q)   == ValueIndex(pages[q[Len(q) - 1]], Last(q))
Kids(q)   == pages[q[Len(q) - 1]].kids
Finish(t, pgs, drop, on) ==
    LET q == at[t].path
    IN  FinishRemove(t, Repair(pgs, drop, on), q, Len(q) - 1, LAMBDA where : Goto(t, where))

\* Mutant: the separator of the parent stays as it was.
TryLeftOnly(t) ==
    /\ Fixing(t, "left")
    /\ LET q    == at[t].path
           i    == Slot(q)
           left == Kids(q)[i - 1]
           keys == pages[left].keys
       IN  /\ left \notin Latched(t)
           /\ IF Len(keys) > LeafMin
              THEN Finish(t, [pages EXCEPT ![Last(q)].keys = <<Last(keys)>> \o @,
                                           ![left].keys = Front(@)], {}, FALSE)
              ELSE /\ at' = [at EXCEPT ![t].look = IF i < Len(Kids(q)) THEN "right" ELSE "merge"]
                   /\ UNCHANGED <<root_page_id, pages>>

TryLeft(t) ==
    /\ Fixing(t, "left")
    /\ LET q    == at[t].path
           i    == Slot(q)
           left == Kids(q)[i - 1]
           keys == pages[left].keys
       IN  /\ left \notin Latched(t)
           /\ IF Len(keys) > LeafMin
              THEN Finish(t, [pages EXCEPT ![Last(q)].keys = <<Last(keys)>> \o @,
                                           ![left].keys = Front(@),
                                           ![q[Len(q) - 1]].keys[i - 1] = Last(keys)], {}, FALSE)
              ELSE /\ at' = [at EXCEPT ![t].look = IF i < Len(Kids(q)) THEN "right" ELSE "merge"]
                   /\ UNCHANGED <<root_page_id, pages>>

TryRight(t) ==
    /\ Fixing(t, "right")
    /\ LET q     == at[t].path
           i     == Slot(q)
           right == Kids(q)[i + 1]
           keys  == pages[right].keys
       IN  /\ right \notin Latched(t)
           /\ IF Len(keys) > LeafMin
              THEN Finish(t, [pages EXCEPT ![Last(q)].keys = Append(@, Head(keys)),
                                           ![right].keys = Tail(@),
                                           ![q[Len(q) - 1]].keys[i] = keys[2]], {}, FALSE)
              ELSE /\ at' = [at EXCEPT ![t].look = "merge"]
                   /\ UNCHANGED <<root_page_id, pages>>

\* Mutant: the merged leaf keeps its own link.
MergeLeafUnlinked(t, into, from, i) ==
    /\ {into, from} \cap Latched(t) = {}
    /\ LET q == at[t].path
       IN  Finish(t, [pages EXCEPT ![into] = Leaf(@.keys \o pages[from].keys, @.next),
                                   ![from].keys = <<>>,
                                   ![q[Len(q) - 1]] = DropKid(@, i)], {from}, TRUE)

\* Leaf `from`, child number i of the parent, moves into leaf `into`.
MergeLeaf(t, into, from, i) ==
    /\ {into, from} \cap Latched(t) = {}
    /\ LET q == at[t].path
       IN  Finish(t, [pages EXCEPT ![into] = Leaf(@.keys \o pages[from].keys, pages[from].next),
                                   ![from].keys = <<>>,
                                   ![q[Len(q) - 1]] = DropKid(@, i)], {from}, TRUE)

Merge(t) ==
    /\ Fixing(t, "merge")
    /\ LET q == at[t].path
           i == Slot(q)
       IN  IF i > 1 THEN MergeLeaf(t, Kids(q)[i - 1], Last(q), i)
           ELSE IF Len(Kids(q)) > 1 THEN MergeLeaf(t, Last(q), Kids(q)[i + 1], i + 1)
           ELSE Finish(t, [pages EXCEPT ![q[Len(q) - 1]] = DropKid(@, i)], {Last(q)}, TRUE)

\* DeletePage.  A page that is pinned stays, out of the tree and out of `pages`.
DeletePages(t) ==
    /\ at[t].do = "discard"
    /\ pages' = [p \in DOMAIN pages \ at[t].drop |-> pages[p]]
    /\ Goto(t, IF at[t].next = "return" THEN Done(t, TRUE)
               ELSE [do |-> "collapse", op |-> "remove", key |-> at[t].key])
    /\ UNCHANGED root_page_id

\* One round of the loop at the end of Remove.
Collapse(t) ==
    /\ at[t].do = "collapse"
    /\ HeaderFree(t) /\ root_page_id \notin Latched(t)
    /\ UNCHANGED pages
    /\ LET root  == pages[root_page_id]
           empty == (root.leaf /\ root.keys = <<>>) \/ (~root.leaf /\ root.kids = <<>>)
       IN  IF root_page_id = NoPage THEN Goto(t, Done(t, TRUE)) /\ UNCHANGED root_page_id
           ELSE IF empty
           THEN root_page_id' = NoPage /\ Goto(t, Discard(t, {root_page_id}, "return"))
           ELSE IF ~root.leaf /\ Len(root.kids) = 1
           THEN root_page_id' = Head(root.kids) /\ Goto(t, Discard(t, {root_page_id}, "collapse"))
           ELSE Goto(t, Done(t, TRUE)) /\ UNCHANGED root_page_id

-----------------------------------------------------------------------------
(* Iterators.  Begin holds the header page until it is at its leaf.         *)

\* Mutant: the first slot of the next leaf is passed over.
SettledSecond(p, i) ==
    LET hop[n \in 0..Cardinality(DOMAIN pages)] ==
            IF n = 0 THEN {<<p, i>>}
            ELSE {IF s[1] # NoPage /\ s[2] > Len(pages[s[1]].keys) THEN <<pages[s[1]].next, 2>> ELSE s :
                     s \in hop[n - 1]}
    IN  hop[Cardinality(DOMAIN pages)]

\* Slot i of leaf p, or the first slot of the next leaf that is not empty, as
\* a set with one pair.
Settled(p, i) ==
    LET hop[n \in 0..Cardinality(DOMAIN pages)] ==
            IF n = 0 THEN {<<p, i>>}
            ELSE {IF s[1] # NoPage /\ s[2] > Len(pages[s[1]].keys) THEN <<pages[s[1]].next, 1>> ELSE s :
                     s \in hop[n - 1]}
    IN  hop[Cardinality(DOMAIN pages)]

\* `kept` is for the properties: the keys that have been in the index since
\* the scan began and that it has not returned yet.
ScanAt(p, i, kept) ==
    IF p = NoPage THEN [do |-> "scanned", op |-> "scan", kept |-> kept]
    ELSE [do |-> "scan", op |-> "scan", leaf |-> p, pos |-> i, kept |-> kept \ {pages[p].keys[i]}]

\* Begin(from).
StartScan(t) ==
    /\ \E c \in Calls :
          /\ c.thread = t /\ c.op = "scan"
          /\ MayCall(t, "scan") /\ HeaderFree(t)
          /\ LET kept == {k \in Reachable : k >= c.key} IN
             IF root_page_id = NoPage THEN Goto(t, ScanAt(NoPage, 1, kept))
             ELSE LET leaf == LeafFor(c.key) IN
                  \E s \in Settled(leaf, Before(pages[leaf].keys, c.key) + 1) :
                      Goto(t, ScanAt(s[1], s[2], kept))
    /\ UNCHANGED <<root_page_id, pages>>

\* operator++: at the end of the leaf it latches the next one first, and may
\* have to wait for it.
Advance(t) ==
    /\ Scanning(t)
    /\ LET p == at[t].leaf
           blocked == at[t].pos = Len(pages[p].keys) /\ pages[p].next \in WriteLatched(t)
       IN  IF blocked
           THEN /\ at[t].do = "scan"
                /\ at' = [at EXCEPT ![t].do = "waiting"]
           ELSE \E s \in Settled(p, at[t].pos + 1) :
                   Goto(t, ScanAt(s[1], s[2], at[t].kept))
    /\ UNCHANGED <<root_page_id, pages>>

\* The iterator is destroyed.
EndScan(t) ==
    /\ at[t].do \in {"scan", "scanned"}
    /\ Goto(t, Idle)
    /\ UNCHANGED <<root_page_id, pages>>

-----------------------------------------------------------------------------
Step(t) ==
    \/ Call(t) \/ Return(t)
    \/ ReadHeader(t) \/ Descend(t)
    \/ PeekInsert(t) \/ InsertAtLeaf(t) \/ InsertSlow(t)
    \/ PeekRemove(t) \/ RemoveAtLeaf(t) \/ RemoveSlow(t)
    \/ TryLeft(t) \/ TryRight(t) \/ Merge(t) \/ DeletePages(t) \/ Collapse(t)
    \/ StartScan(t) \/ Advance(t) \/ EndScan(t)

Running == \A t \in Thread : at[t].do # "terminated"

Next == Running /\ \E t \in Thread : Step(t)

Spec == Init /\ [][Next]_vars

-----------------------------------------------------------------------------
(* The two races of insertions and lookups, as steps.  What is said of the  *)
(* tree apart from them is said of SpecApart.                               *)

\* An optimistic insertion is about to enter its key in a leaf that has been
\* split, or filled, since it was chosen.
StaleLeaf(t) ==
    /\ at[t].do = "leaf-insert" /\ at[t].leaf \in DOMAIN pages
    /\ ~Has(pages[at[t].leaf], at[t].key)
    /\ \/ root_page_id = NoPage
       \/ at[t].leaf # LeafFor(at[t].key)
       \/ Len(pages[at[t].leaf].keys) + 1 >= LeafMax

\* A lookup is about to descend from an old root to a leaf that is not the
\* leaf for its key.
StaleRoot(t) ==
    /\ at[t].do = "descend" /\ at[t].root \in DOMAIN pages
    /\ \/ root_page_id = NoPage
       \/ \E q \in Paths(at[t].root, at[t].key) : Last(q) # LeafFor(at[t].key)

LeavesFresh == \A t \in Thread : StaleLeaf(t) => at'[t] = at[t]
RootsFresh  == \A t \in Thread : StaleRoot(t) => at'[t] = at[t]

SpecApart == Init /\ [][Next /\ LeavesFresh /\ RootsFresh]_vars

-----------------------------------------------------------------------------
(* Properties.                                                              *)

Page == [leaf : BOOLEAN, keys : Seq(Key), kids : Seq(PageId), next : PageId \cup {NoPage}]

\* The types of the header page and the pages; a thread in the second phase of
\* Remove has a leaf that is too small at the end of a path from the root.
TypeOK ==
    /\ root_page_id \in DOMAIN pages \cup {NoPage}
    /\ DOMAIN pages \subseteq PageId
    /\ \A p \in DOMAIN pages : pages[p] \in Page
    /\ \A t \in Thread :
          /\ Scanning(t) => at[t].leaf \in DOMAIN pages /\ at[t].pos \in DOMAIN pages[at[t].leaf].keys
          /\ at[t].do = "fix" =>
                /\ at[t].path \in Paths(root_page_id, at[t].key) /\ Len(at[t].path) > 1
                /\ Len(pages[Last(at[t].path)].keys) < LeafMin

\* What the callers see.
Outcome(t) ==
    IF at[t] = Idle \/ at[t].op = "scan" THEN [op |-> "none"]
    ELSE [op |-> at[t].op, key |-> at[t].key,
          res |-> IF at[t].do = "return" THEN {at[t].res}
                  ELSE IF at[t].do \in {"fix", "discard", "collapse"} THEN {TRUE}
                  ELSE {}]

Index == INSTANCE KeySet WITH keys <- Reachable, call <- [t \in Thread |-> Outcome(t)]

\* The tree behaves like a set of keys: every insertion, removal and lookup
\* takes effect at one moment between its call and its return, and no split,
\* loan, merge or change of the root changes the set (Insert, Remove,
\* GetValue).
ImplementsIndex == Index!Spec

\* A scan returns, in order, every key that is in the index from the moment it
\* begins until the scan has passed it, whatever splits, loans and merges go
\* on around it (Begin, operator++).
ScanSeesKept ==
    \A t \in Thread :
        /\ Scanning(t) => \A k \in at[t].kept : k > pages[at[t].leaf].keys[at[t].pos]
        /\ at[t].do = "scanned" => at[t].kept = {}

\* The pages at depth n, from left to right.
Level ==
    LET row[n \in 1..MaxHeight] ==
            IF n = 1 THEN IF root_page_id = NoPage THEN <<>> ELSE <<root_page_id>>
            ELSE LET above == row[n - 1]
                 IN  FlattenSeq([i \in DOMAIN above |-> pages[above[i]].kids])
    IN  row

Leaves ==
    LET all == FlattenSeq(Level)
    IN  FlattenSeq([i \in DOMAIN all |-> IF pages[all[i]].leaf THEN <<all[i]>> ELSE <<>>])

\* While no repair is under way, all leaves are at the same depth, every page
\* but the root is at least half full, and no page has more than its maximum
\* (Insert, InsertIntoParent, Remove).
Balanced ==
    (\A t \in Thread : at[t].do # "fix") =>
        LET level == Level IN
        \A n \in 1..MaxHeight : \A i \in DOMAIN level[n] :
            LET page == pages[level[n][i]] IN
            /\ page.leaf = pages[level[n][1]].leaf
            /\ IF page.leaf
               THEN Len(page.keys) \in (IF n = 1 THEN 1 ELSE LeafMin)..(LeafMax - 1)
               ELSE /\ Len(page.kids) \in (IF n = 1 THEN 2 ELSE InternalMin)..InternalMax
                    /\ Len(page.keys) = Len(page.kids) - 1

\* The leaves hang together in the order of the tree, their keys ascend, and
\* each of them is where a search looks for it; in every state, a repair under
\* way or not (Split and the merges of Remove).
LeavesChained ==
    LET leaves == Leaves
        keys   == FlattenSeq([i \in DOMAIN leaves |-> pages[leaves[i]].keys])
    IN  /\ \A i \in DOMAIN leaves :
              pages[leaves[i]].next = IF i = Len(leaves) THEN NoPage ELSE leaves[i + 1]
        /\ \A i \in 1..Len(keys) - 1 : keys[i] < keys[i + 1]
        /\ Range(keys) = Reachable

\* Where nobody removes, a key whose insertion has answered true is found
\* (Insert, GetValue).
InsertedKeyFound ==
    \A t \in Thread : at[t].do = "return" /\ at[t].op = "insert" /\ at[t].res => at[t].key \in Reachable
=============================================================================
