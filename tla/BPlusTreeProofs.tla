---------------------------- MODULE BPlusTreeProofs ----------------------------
(***************************************************************************)
(* What holds of BPlusTree for every page size and every set of keys and   *)
(* threads, where nobody removes and one thread inserts at a time.         *)
(***************************************************************************)
EXTENDS BPlusTree, TLAPS, FiniteSetTheorems, SequenceTheorems, WellFoundedInduction

-----------------------------------------------------------------------------
(* Numbers and sequences. *)

\* A set of numbers that is not empty has a least one.
LEMMA LeastOf == ASSUME NEW S, S \subseteq Nat, S # {} PROVE \E x \in S : \A y \in S : x <= y
<1> DEFINE less == OpToRel(<, Nat)
<1>1. IsWellFoundedOn(less, Nat)
  BY NatLessThanWellFounded
<1>2. \A x, y \in Nat : y < x => <<y, x>> \in less
  BY DEF OpToRel
<1> HIDE DEF less
<1>3. PICK x \in S : \A y \in S : <<y, x>> \notin less
  BY <1>1, WFMin
<1>4. ASSUME NEW y \in S PROVE x <= y
  <2>1. x \in Nat /\ y \in Nat
    BY <1>3
  <2>2. ~(y < x)
    BY <1>2, <1>3, <2>1
  <2> QED BY <2>1, <2>2
<1> QED BY <1>3, <1>4

\* A set of numbers that has 0 and the next of each of its numbers has them all.
LEMMA Induction ==
    ASSUME NEW S, 0 \in S, \A n \in Nat : n \in S => n + 1 \in S
    PROVE  \A n \in Nat : n \in S
<1> DEFINE out == Nat \ S
<1> SUFFICES ASSUME out # {} PROVE FALSE
  OBVIOUS
<1>1. out \subseteq Nat
  OBVIOUS
<1>2. PICK x \in out : \A y \in out : x <= y
  <2> HIDE DEF out
  <2> QED BY <1>1, LeastOf
<1>3. x \in Nat /\ x \notin S /\ x # 0
  BY <1>2
<1>4. x - 1 \in Nat /\ ~(x <= x - 1) /\ (x - 1) + 1 = x
  BY <1>3
<1>5. x - 1 \in S
  BY <1>2, <1>4
<1> QED BY <1>3, <1>4, <1>5

LEMMA SmallestOf ==
    ASSUME NEW S, S \subseteq Nat, S # {}
    PROVE  Smallest(S) \in S /\ \A y \in S : Smallest(S) <= y
BY LeastOf DEF Smallest

LEMMA Concat ==
    ASSUME NEW T, NEW a \in Seq(T), NEW b \in Seq(T)
    PROVE  /\ a \o b \in Seq(T)
           /\ Len(a) \in Nat /\ Len(b) \in Nat /\ Len(a \o b) = Len(a) + Len(b)
           /\ DOMAIN (a \o b) = 1..(Len(a) + Len(b))
           /\ \A j \in 1..(Len(a) + Len(b)) : (a \o b)[j] = IF j <= Len(a) THEN a[j] ELSE b[j - Len(a)]
<1>1. a \o b \in Seq(T) /\ Len(a \o b) = Len(a) + Len(b)
  BY ConcatProperties
<1> QED BY <1>1, ConcatProperties, LenProperties

\* A part of a sequence.
LEMMA PartOf ==
    ASSUME NEW T, NEW s \in Seq(T), NEW m \in Nat \ {0}, NEW n \in Nat, n <= Len(s), m <= n + 1
    PROVE  /\ SubSeq(s, m, n) \in Seq(T) /\ Len(SubSeq(s, m, n)) = n - m + 1
           /\ DOMAIN SubSeq(s, m, n) = 1..(n - m + 1)
           /\ \A i \in 1..(n - m + 1) : SubSeq(s, m, n)[i] = s[m + i - 1]
<1>1. \A i \in m..n : s[i] \in T
  BY LenProperties, ElementOfSeq
<1>2. /\ SubSeq(s, m, n) \in Seq(T)
      /\ Len(SubSeq(s, m, n)) = IF m <= n THEN n - m + 1 ELSE 0
      /\ \A i \in 1..(n - m + 1) : SubSeq(s, m, n)[i] = s[m + i - 1]
  BY <1>1, SubSeqProperties
<1>3. Len(SubSeq(s, m, n)) = n - m + 1
  BY <1>2, LenProperties
<1> QED BY <1>2, <1>3, LenProperties

\* InsertAt puts x in place i.
LEMMA InsertedAt ==
    ASSUME NEW T, NEW s \in Seq(T), NEW x \in T, NEW i \in 1..(Len(s) + 1)
    PROVE  /\ InsertAt(s, i, x) \in Seq(T) /\ Len(InsertAt(s, i, x)) = Len(s) + 1
           /\ DOMAIN InsertAt(s, i, x) = 1..(Len(s) + 1)
           /\ \A j \in 1..(Len(s) + 1) :
                 InsertAt(s, i, x)[j] = IF j < i THEN s[j] ELSE IF j = i THEN x ELSE s[j - 1]
<1> DEFINE a == SubSeq(s, 1, i - 1)
           b == SubSeq(s, i, Len(s))
           c == a \o <<x>>
<1>0. Len(s) \in Nat /\ i \in Nat
  BY LenProperties
<1>1. a \in Seq(T) /\ Len(a) = i - 1 /\ \A j \in 1..(i - 1) : a[j] = s[j]
  BY <1>0, PartOf
<1>2. b \in Seq(T) /\ Len(b) = Len(s) - i + 1 /\ \A j \in 1..(Len(s) - i + 1) : b[j] = s[i + j - 1]
  BY <1>0, PartOf
<1>3. <<x>> \in Seq(T) /\ Len(<<x>>) = 1 /\ <<x>>[1] = x
  OBVIOUS
<1>4. InsertAt(s, i, x) = c \o b
  BY DEF InsertAt
<1> HIDE DEF a
<1>5. c \in Seq(T) /\ Len(c) = i /\ \A j \in 1..i : c[j] = IF j < i THEN a[j] ELSE x
  BY <1>0, <1>1, <1>3, Concat
<1> HIDE DEF c
<1>6. /\ c \o b \in Seq(T) /\ Len(c \o b) = Len(s) + 1 /\ DOMAIN (c \o b) = 1..(Len(s) + 1)
      /\ \A j \in 1..(Len(s) + 1) : (c \o b)[j] = IF j <= i THEN c[j] ELSE b[j - i]
  <2>1. Len(c) + Len(b) = Len(s) + 1
    BY <1>0, <1>2, <1>5
  <2> QED BY <1>2, <1>5, <2>1, Concat
<1> HIDE DEF b
<1>7. ASSUME NEW j \in 1..(Len(s) + 1)
      PROVE  (c \o b)[j] = IF j < i THEN s[j] ELSE IF j = i THEN x ELSE s[j - 1]
  <2>1. CASE j < i
    BY <1>0, <1>1, <1>5, <1>6, <2>1
  <2>2. CASE j = i
    BY <1>0, <1>5, <1>6, <2>2
  <2>3. CASE j > i
    <3>1. j - i \in 1..(Len(s) - i + 1) /\ i + (j - i) - 1 = j - 1
      BY <1>0, <2>3
    <3>2. b[j - i] = s[j - 1]
      BY <1>2, <3>1
    <3>3. ~(j <= i) /\ ~(j < i) /\ j # i
      BY <1>0, <2>3
    <3> QED BY <1>6, <3>2, <3>3
  <2>4. j < i \/ j = i \/ j > i
    BY <1>0
  <2> QED BY <2>1, <2>2, <2>3, <2>4
<1> QED BY <1>4, <1>6, <1>7

\* The numbers ascend.
Ascending(s) == \A i, j \in DOMAIN s : i < j => s[i] < s[j]

\* How many are below k, or at most k.
LEMMA CountedBefore ==
    ASSUME NEW s \in Seq(Nat), NEW k \in Nat, NEW m \in 0..Len(s),
           \A i \in 1..m : s[i] < k, \A i \in (m + 1)..Len(s) : k <= s[i]
    PROVE  Before(s, k) = m
<1>1. {i \in DOMAIN s : s[i] < k} = 1..m
  <2>1. DOMAIN s = 1..Len(s) /\ \A i \in 1..Len(s) : s[i] \in Nat
    BY LenProperties, ElementOfSeq
  <2>2. Len(s) \in Nat /\ \A i \in 1..Len(s) : i \notin 1..m => i \in (m + 1)..Len(s)
    BY LenProperties
  <2>3. 1..m \subseteq 1..Len(s)
    BY <2>2
  <2>4. ASSUME NEW i \in 1..Len(s) PROVE s[i] < k <=> i \in 1..m
    BY <2>1, <2>2
  <2> QED BY <2>1, <2>3, <2>4
<1>2. Cardinality(1..m) = m
  BY FS_Interval
<1> QED BY <1>1, <1>2 DEF Before

LEMMA CountedUpTo ==
    ASSUME NEW s \in Seq(Nat), NEW k \in Nat, NEW m \in 0..Len(s),
           \A i \in 1..m : s[i] <= k, \A i \in (m + 1)..Len(s) : k < s[i]
    PROVE  UpTo(s, k) = m
<1>1. {i \in DOMAIN s : s[i] <= k} = 1..m
  <2>1. DOMAIN s = 1..Len(s) /\ \A i \in 1..Len(s) : s[i] \in Nat
    BY LenProperties, ElementOfSeq
  <2>2. Len(s) \in Nat /\ \A i \in 1..Len(s) : i \notin 1..m => i \in (m + 1)..Len(s)
    BY LenProperties
  <2>3. 1..m \subseteq 1..Len(s)
    BY <2>2
  <2>4. ASSUME NEW i \in 1..Len(s) PROVE s[i] <= k <=> i \in 1..m
    BY <2>1, <2>2
  <2> QED BY <2>1, <2>3, <2>4
<1>2. Cardinality(1..m) = m
  BY FS_Interval
<1> QED BY <1>1, <1>2 DEF UpTo

LEMMA BeforeSplits ==
    ASSUME NEW s \in Seq(Nat), Ascending(s), NEW k \in Nat
    PROVE  /\ Before(s, k) \in 0..Len(s)
           /\ \A i \in DOMAIN s : s[i] < k <=> i <= Before(s, k)
<1> DEFINE S == {i \in 1..(Len(s) + 1) : i = Len(s) + 1 \/ k <= s[i]}
<1>0. /\ Len(s) \in Nat /\ DOMAIN s = 1..Len(s) /\ \A i \in 1..Len(s) : s[i] \in Nat
  BY LenProperties, ElementOfSeq
<1>1. PICK x \in S : \A y \in S : x <= y
  <2>1. S \subseteq Nat /\ Len(s) + 1 \in S
    BY <1>0
  <2> HIDE DEF S
  <2> QED BY <2>1, LeastOf
<1>2. \A i \in 1..Len(s) : i < x => s[i] < k
  BY <1>0, <1>1
<1>3. \A i \in 1..Len(s) : x <= i => k <= s[i]
  <2>1. x \in 1..(Len(s) + 1) /\ (x = Len(s) + 1 \/ k <= s[x])
    BY <1>1
  <2> HIDE DEF S
  <2> SUFFICES ASSUME NEW i \in 1..Len(s), x <= i PROVE k <= s[i]
    OBVIOUS
  <2>2. x \in DOMAIN s /\ i \in DOMAIN s /\ k <= s[x] /\ s[x] \in Nat /\ s[i] \in Nat
    BY <1>0, <2>1
  <2>3. CASE x = i
    BY <2>2, <2>3
  <2>4. CASE x # i
    <3>1. x < i
      BY <1>0, <2>1, <2>4
    <3>2. s[x] < s[i]
      BY <2>2, <3>1 DEF Ascending
    <3> QED BY ONLY <2>2, <3>2, k \in Nat
  <2> QED BY <2>3, <2>4
<1>4. x - 1 \in 0..Len(s) /\ x \in Nat
  BY <1>0, <1>1
<1>5. Before(s, k) = x - 1
  <2>1. \A i \in 1..(x - 1) : s[i] < k
    BY <1>0, <1>2, <1>4
  <2>2. \A i \in ((x - 1) + 1)..Len(s) : k <= s[i]
    BY <1>0, <1>3, <1>4
  <2> HIDE DEF S
  <2> QED BY <1>4, <2>1, <2>2, CountedBefore
<1> QED BY <1>0, <1>2, <1>3, <1>4, <1>5

LEMMA UpToSplits ==
    ASSUME NEW s \in Seq(Nat), Ascending(s), NEW k \in Nat
    PROVE  /\ UpTo(s, k) \in 0..Len(s)
           /\ \A i \in DOMAIN s : s[i] <= k <=> i <= UpTo(s, k)
<1> DEFINE S == {i \in 1..(Len(s) + 1) : i = Len(s) + 1 \/ k < s[i]}
<1>0. /\ Len(s) \in Nat /\ DOMAIN s = 1..Len(s) /\ \A i \in 1..Len(s) : s[i] \in Nat
  BY LenProperties, ElementOfSeq
<1>1. PICK x \in S : \A y \in S : x <= y
  <2>1. S \subseteq Nat /\ Len(s) + 1 \in S
    BY <1>0
  <2> HIDE DEF S
  <2> QED BY <2>1, LeastOf
<1>2. \A i \in 1..Len(s) : i < x => s[i] <= k
  BY <1>0, <1>1
<1>3. \A i \in 1..Len(s) : x <= i => k < s[i]
  <2>1. x \in 1..(Len(s) + 1) /\ (x = Len(s) + 1 \/ k < s[x])
    BY <1>1
  <2> HIDE DEF S
  <2> SUFFICES ASSUME NEW i \in 1..Len(s), x <= i PROVE k < s[i]
    OBVIOUS
  <2>2. x \in DOMAIN s /\ i \in DOMAIN s /\ k < s[x] /\ s[x] \in Nat /\ s[i] \in Nat
    BY <1>0, <2>1
  <2>3. CASE x = i
    BY <2>2, <2>3
  <2>4. CASE x # i
    <3>1. x < i
      BY <1>0, <2>1, <2>4
    <3>2. s[x] < s[i]
      BY <2>2, <3>1 DEF Ascending
    <3> QED BY ONLY <2>2, <3>2, k \in Nat
  <2> QED BY <2>3, <2>4
<1>4. x - 1 \in 0..Len(s) /\ x \in Nat
  BY <1>0, <1>1
<1>5. UpTo(s, k) = x - 1
  <2>1. \A i \in 1..(x - 1) : s[i] <= k
    BY <1>0, <1>2, <1>4
  <2>2. \A i \in ((x - 1) + 1)..Len(s) : k < s[i]
    BY <1>0, <1>3, <1>4
  <2> HIDE DEF S
  <2> QED BY <1>4, <2>1, <2>2, CountedUpTo
<1> QED BY <1>0, <1>2, <1>3, <1>4, <1>5

-----------------------------------------------------------------------------
(* The shape of the tree. *)

\* A page covers the keys from lo up to hi; hi = 0 if there is no bound.
Under(k, h)      == h = 0 \/ k < h
Covers(lo, hi, p, k) == lo[p] <= k /\ Under(k, hi[p])

\* Page x has been split and its right half y is not entered into the parent
\* yet, which takes x for both; x = NoPage if there is no such page.
Wide(hi, x, y, p) == IF p = x THEN hi[y] ELSE hi[p]

LeafShape(pgs, lo, hi, lev, p) ==
    /\ pgs[p].leaf /\ pgs[p].kids = <<>> /\ lev[p] = 0
    /\ pgs[p].next = NoPage <=> hi[p] = 0
    /\ pgs[p].next # NoPage =>
          /\ pgs[p].next \in DOMAIN pgs
          /\ lev[pgs[p].next] = 0 /\ lo[pgs[p].next] = hi[p]

\* The separators are the bounds of the children.
InnerShape(pgs, lo, hi, lev, x, y, p) ==
    /\ ~pgs[p].leaf /\ lev[p] > 0 /\ pgs[p].next = NoPage
    /\ Len(pgs[p].kids) = Len(pgs[p].keys) + 1
    /\ \A i \in DOMAIN pgs[p].keys : lo[p] < pgs[p].keys[i]
    /\ \A i \in DOMAIN pgs[p].kids :
          LET kid == pgs[p].kids[i] IN
          /\ kid \in DOMAIN pgs /\ lev[kid] + 1 = lev[p]
          /\ lo[kid] = (IF i = 1 THEN lo[p] ELSE pgs[p].keys[i - 1])
          /\ Wide(hi, x, y, kid) = (IF i = Len(pgs[p].kids) THEN hi[p] ELSE pgs[p].keys[i])

PageShape(pgs, lo, hi, lev, x, y, p) ==
    /\ pgs[p] \in Page
    /\ Under(lo[p], hi[p])
    /\ Ascending(pgs[p].keys)
    /\ \A i \in DOMAIN pgs[p].keys : Covers(lo, hi, p, pgs[p].keys[i])
    /\ LeafShape(pgs, lo, hi, lev, p) \/ InnerShape(pgs, lo, hi, lev, x, y, p)

\* The root may have fewer keys or children, but not when it has just been split.
Filled(pgs, root, x, p) ==
    IF pgs[p].leaf
    THEN /\ Len(pgs[p].keys) < LeafMax
         /\ Len(pgs[p].keys) >= (IF p = root /\ p # x THEN 1 ELSE LeafMin)
    ELSE /\ Len(pgs[p].kids) <= InternalMax
         /\ Len(pgs[p].kids) >= (IF p = root /\ p # x THEN 2 ELSE InternalMin)

\* Pages of the same level cover different keys.
Apart(lo, hi, p, q) == Under(lo[p], hi[q]) => ~Under(lo[q], hi[p])

Shaped(pgs, root, lo, hi, lev, x, y) ==
    /\ lo \in [PageId -> Nat] /\ hi \in [PageId -> Nat] /\ lev \in [PageId -> Nat]
    /\ DOMAIN pgs \subseteq PageId /\ pgs = [p \in DOMAIN pgs |-> pgs[p]]
    /\ root \in DOMAIN pgs /\ lo[root] = 0 /\ Wide(hi, x, y, root) = 0
    /\ \A p \in DOMAIN pgs : lev[p] <= lev[root]
    /\ \A p, q \in DOMAIN pgs : p # q /\ lev[p] = lev[q] => Apart(lo, hi, p, q)
    /\ \A p \in DOMAIN pgs : PageShape(pgs, lo, hi, lev, x, y, p)
    /\ x # NoPage => /\ x \in DOMAIN pgs /\ y \in DOMAIN pgs /\ x # y
                     /\ lev[x] = lev[y] /\ hi[x] = lo[y] /\ hi[x] # 0

Tree(pgs, root, lo, hi, lev, x, y) ==
    Shaped(pgs, root, lo, hi, lev, x, y) /\ \A p \in DOMAIN pgs : Filled(pgs, root, x, p)

\* No page is split.
Whole(pgs, root, lo, hi, lev) == Tree(pgs, root, lo, hi, lev, NoPage, NoPage)

\* The keys in the leaves.
Stored(pgs) == UNION {Range(pgs[p].keys) : p \in {q \in DOMAIN pgs : pgs[q].leaf}}

LEMMA PageIds == PageId \subseteq Nat /\ NoPage \notin PageId
BY TreeBounds DEF PageId, NoPage

\* The fields of a page, in the terms of the provers.
LEMMA PageFields ==
    ASSUME NEW pgs, NEW lo, NEW hi, NEW lev, NEW x, NEW y, NEW p,
           PageShape(pgs, lo, hi, lev, x, y, p)
    PROVE  /\ pgs[p].leaf \in BOOLEAN
           /\ pgs[p].keys \in Seq(Nat) /\ pgs[p].keys \in Seq(Key)
           /\ DOMAIN pgs[p].keys = 1..Len(pgs[p].keys) /\ Len(pgs[p].keys) \in Nat
           /\ pgs[p].kids \in Seq(PageId)
           /\ DOMAIN pgs[p].kids = 1..Len(pgs[p].kids) /\ Len(pgs[p].kids) \in Nat
           /\ \A i \in DOMAIN pgs[p].keys : pgs[p].keys[i] \in Key /\ pgs[p].keys[i] \in Nat
           /\ \A i \in DOMAIN pgs[p].kids : pgs[p].kids[i] \in PageId
           /\ pgs[p].next \in PageId \cup {NoPage}
<1>1. pgs[p] \in Page
  BY DEF PageShape
<1>2. /\ pgs[p].leaf \in BOOLEAN /\ pgs[p].keys \in Seq(Key) /\ pgs[p].kids \in Seq(PageId)
      /\ pgs[p].next \in PageId \cup {NoPage}
  BY <1>1 DEF Page
<1>3. pgs[p].keys \in Seq(Nat)
  BY <1>2, TreeBounds, SeqMonotonic
<1> QED BY <1>2, <1>3, LenProperties, ElementOfSeq, TreeBounds

\* A key is covered by one page of a level.
LEMMA OnePage ==
    ASSUME NEW pgs, NEW root, NEW lo, NEW hi, NEW lev, NEW x, NEW y,
           Shaped(pgs, root, lo, hi, lev, x, y),
           NEW p \in DOMAIN pgs, NEW q \in DOMAIN pgs, lev[p] = lev[q],
           NEW k \in Nat, Covers(lo, hi, p, k), Covers(lo, hi, q, k)
    PROVE  p = q
<1>1. /\ lo[p] \in Nat /\ lo[q] \in Nat /\ hi[p] \in Nat /\ hi[q] \in Nat
      /\ p # q => Apart(lo, hi, p, q)
  BY DEF Tree, Shaped
<1> QED BY <1>1 DEF Apart, Covers, Under

\* The child that a descent goes to covers the key.
LEMMA ChildCovers ==
    ASSUME NEW pgs, NEW root, NEW lo, NEW hi, NEW lev, Whole(pgs, root, lo, hi, lev),
           NEW p \in DOMAIN pgs, ~pgs[p].leaf, NEW k \in Nat, Covers(lo, hi, p, k)
    PROVE  LET i == UpTo(pgs[p].keys, k) + 1 IN
           /\ i \in DOMAIN pgs[p].kids /\ Child(pgs[p], k) = pgs[p].kids[i]
           /\ pgs[p].kids[i] \in DOMAIN pgs /\ lev[pgs[p].kids[i]] + 1 = lev[p]
           /\ Covers(lo, hi, pgs[p].kids[i], k)
<1> DEFINE keys == pgs[p].keys
           kids == pgs[p].kids
           n == UpTo(keys, k)
           kid == kids[n + 1]
<1>1. PageShape(pgs, lo, hi, lev, NoPage, NoPage, p)
  BY DEF Whole, Tree, Shaped
<1>2. InnerShape(pgs, lo, hi, lev, NoPage, NoPage, p)
  BY <1>1 DEF PageShape, LeafShape
<1>3. /\ keys \in Seq(Nat) /\ DOMAIN keys = 1..Len(keys) /\ Len(keys) \in Nat
      /\ DOMAIN kids = 1..Len(kids) /\ Len(kids) \in Nat /\ Ascending(keys)
      /\ \A i \in DOMAIN keys : keys[i] \in Nat
  <2>1. Ascending(keys)
    BY <1>1 DEF PageShape
  <2> QED BY <1>1, <2>1, PageFields
<1>4. Len(kids) = Len(keys) + 1
  BY <1>2 DEF InnerShape
<1>5. n \in 0..Len(keys) /\ \A i \in DOMAIN keys : keys[i] <= k <=> i <= n
  <2> HIDE DEF keys
  <2> QED BY <1>3, UpToSplits
<1>6. Child(pgs[p], k) = kid
  BY DEF Child
<1>7. /\ kid \in DOMAIN pgs /\ lev[kid] + 1 = lev[p]
      /\ lo[kid] = (IF n + 1 = 1 THEN lo[p] ELSE keys[n])
      /\ hi[kid] = (IF n + 1 = Len(kids) THEN hi[p] ELSE keys[n + 1])
  <2> HIDE DEF n
  <2>1. /\ kid \in DOMAIN pgs /\ lev[kid] + 1 = lev[p]
        /\ lo[kid] = (IF n + 1 = 1 THEN lo[p] ELSE keys[(n + 1) - 1])
        /\ Wide(hi, NoPage, NoPage, kid) = (IF n + 1 = Len(kids) THEN hi[p] ELSE keys[n + 1])
    <3>1. n + 1 \in DOMAIN kids
      BY <1>3, <1>4, <1>5
    <3> QED BY <1>2, <3>1 DEF InnerShape
  <2>2. kid \in PageId
    BY <2>1 DEF Whole, Tree, Shaped
  <2>3. Wide(hi, NoPage, NoPage, kid) = hi[kid]
    BY <2>2, PageIds DEF Wide
  <2>4. (n + 1) - 1 = n
    BY <1>5
  <2> QED BY <2>1, <2>3, <2>4
<1> HIDE DEF keys, kids, n, kid
<1>8. Covers(lo, hi, kid, k)
  <2>1. lo[kid] <= k
    <3>1. CASE n = 0
      <4>1. lo[kid] = lo[p] /\ lo[p] <= k
        BY <3>1, <1>5, <1>7 DEF Covers
      <4> QED BY <4>1
    <3>2. CASE n # 0
      <4>1. n \in DOMAIN keys /\ n <= n /\ n + 1 # 1
        BY <3>2, <1>3, <1>5
      <4>2. lo[kid] = keys[n] /\ keys[n] <= k
        BY <4>1, <1>5, <1>7
      <4> QED BY <4>2
    <3> QED BY <3>1, <3>2
  <2>2. Under(k, hi[kid])
    <3>1. CASE n + 1 = Len(kids)
      BY <3>1, <1>7 DEF Covers
    <3>2. CASE n + 1 # Len(kids)
      <4>1. n + 1 \in DOMAIN keys /\ ~(n + 1 <= n)
        BY <3>2, <1>3, <1>4, <1>5
      <4>2. ~(keys[n + 1] <= k) /\ keys[n + 1] \in Nat
        BY <4>1, <1>3, <1>5
      <4> QED BY <3>2, <4>2, <1>7 DEF Under
    <3> QED BY <3>1, <3>2
  <2> QED BY <2>1, <2>2 DEF Covers
<1>9. n + 1 \in DOMAIN kids
  BY <1>3, <1>4, <1>5
<1> QED BY <1>6, <1>7, <1>8, <1>9 DEF n, keys, kids, kid

-----------------------------------------------------------------------------
(* A descent ends at the leaf that covers the key. *)

\* The pages after one more step.
Further(S, k) == {IF pages[Last(q)].leaf THEN q ELSE Append(q, Child(pages[Last(q)], k)) : q \in S}

\* f has the first m steps of a descent from page p.
Descents(f, m, p, k) ==
    /\ f = [n \in 1..m |-> f[n]]
    /\ \A n \in 1..m : /\ n = 1 => f[n] = {<<p>>}
                       /\ n # 1 => f[n] = Further(f[n - 1], k)

LEMMA DescentsExist == ASSUME NEW p, NEW k, NEW m \in Nat PROVE \E f : Descents(f, m, p, k)
<1> DEFINE S == {n \in Nat : \E f : Descents(f, n, p, k)}
<1>1. 0 \in S
  <2>1. Descents([i \in 1..0 |-> 0], 0, p, k)
    BY DEF Descents
  <2> QED BY <2>1
<1>2. ASSUME NEW n \in Nat, n \in S PROVE n + 1 \in S
  <2>1. PICK f : Descents(f, n, p, k)
    BY <1>2
  <2> DEFINE g == [i \in 1..(n + 1) |->
                      IF i = n + 1 THEN IF i = 1 THEN {<<p>>} ELSE Further(f[n], k) ELSE f[i]]
  <2>2. /\ g = [i \in 1..(n + 1) |-> g[i]]
        /\ \A i \in 1..n : g[i] = f[i]
        /\ g[n + 1] = IF n + 1 = 1 THEN {<<p>>} ELSE Further(f[n], k)
    OBVIOUS
  <2> HIDE DEF g
  <2>3. ASSUME NEW i \in 1..(n + 1)
        PROVE  /\ i = 1 => g[i] = {<<p>>}
               /\ i # 1 => g[i] = Further(g[i - 1], k)
    <3>1. CASE i = n + 1
      <4>1. i # 1 => n \in 1..n /\ i - 1 = n
        BY <3>1
      <4> QED BY <2>2, <3>1, <4>1
    <3>2. CASE i # n + 1
      <4>1. i \in 1..n /\ (i # 1 => i - 1 \in 1..n)
        BY <3>2
      <4> QED BY <2>1, <2>2, <4>1 DEF Descents
    <3> QED BY <3>1, <3>2
  <2>4. Descents(g, n + 1, p, k)
    BY <2>2, <2>3 DEF Descents
  <2> QED BY <2>4
<1> HIDE DEF S
<1>3. m \in S
  BY <1>1, <1>2, Induction
<1> QED BY <1>3 DEF S

LEMMA PathsDescend ==
    ASSUME NEW p, NEW k
    PROVE  \E f : Descents(f, MaxHeight, p, k) /\ Paths(p, k) = f[MaxHeight]
<1> DEFINE Equation(f) ==
              f = [n \in 1..MaxHeight |->
                     IF n = 1 THEN {<<p>>}
                     ELSE {IF pages[Last(q)].leaf THEN q ELSE Append(q, Child(pages[Last(q)], k)) :
                              q \in f[n - 1]}]
           down == CHOOSE f : Equation(f)
<1>0. MaxHeight \in Nat
  BY TreeBounds
<1>1. ASSUME NEW f, Descents(f, MaxHeight, p, k) PROVE Equation(f)
  BY <1>1 DEF Descents, Further
<1>2. ASSUME NEW f, Equation(f) PROVE Descents(f, MaxHeight, p, k)
  <2> DEFINE g == [n \in 1..MaxHeight |-> IF n = 1 THEN {<<p>>} ELSE Further(f[n - 1], k)]
  <2>1. f = g
    BY <1>2 DEF Further
  <2>2. /\ g = [i \in 1..MaxHeight |-> g[i]]
        /\ \A i \in 1..MaxHeight : g[i] = IF i = 1 THEN {<<p>>} ELSE Further(f[i - 1], k)
    OBVIOUS
  <2> HIDE DEF g
  <2> QED BY <2>1, <2>2 DEF Descents
<1>3. Paths(p, k) = down[MaxHeight]
  BY DEF Paths
<1> HIDE DEF Equation
<1>4. \E f : Equation(f)
  BY <1>0, <1>1, DescentsExist
<1>5. Equation(down)
  BY <1>4
<1> QED BY <1>2, <1>3, <1>5

\* q goes down from the root, level by level, on pages that cover the key.
Descent(lo, hi, lev, k, q) ==
    /\ q \in Seq(PageId) /\ Len(q) >= 1 /\ q[1] = root_page_id
    /\ \A i \in 1..Len(q) : /\ q[i] \in DOMAIN pages /\ Covers(lo, hi, q[i], k)
                            /\ lev[q[i]] + i = lev[root_page_id] + 1
    /\ \A i \in 1..(Len(q) - 1) : \E j \in DOMAIN pages[q[i]].kids : pages[q[i]].kids[j] = q[i + 1]

\* The leaves are the pages of level 0.
LEMMA LeafLevel ==
    ASSUME NEW pgs, NEW root, NEW lo, NEW hi, NEW lev, NEW x, NEW y,
           Shaped(pgs, root, lo, hi, lev, x, y), NEW p \in DOMAIN pgs
    PROVE  pgs[p].leaf <=> lev[p] = 0
<1>1. PageShape(pgs, lo, hi, lev, x, y, p)
  BY DEF Tree, Shaped
<1>2. LeafShape(pgs, lo, hi, lev, p) \/ InnerShape(pgs, lo, hi, lev, x, y, p)
  BY <1>1 DEF PageShape
<1> QED BY <1>2 DEF LeafShape, InnerShape

LEMMA PathDescends ==
    ASSUME root_page_id # NoPage, NEW lo, NEW hi, NEW lev,
           Whole(pages, root_page_id, lo, hi, lev), lev[root_page_id] < MaxHeight, NEW k \in Key
    PROVE  \E q : /\ Paths(root_page_id, k) = {q} /\ Path(root_page_id, k) = q
                  /\ Descent(lo, hi, lev, k, q)
                  /\ Len(q) = lev[root_page_id] + 1 /\ Last(q) = q[Len(q)] /\ LeafFor(k) = Last(q)
                  /\ pages[Last(q)].leaf
<1> DEFINE h == lev[root_page_id] + 1
<1>0. /\ MaxHeight \in Nat /\ MaxHeight >= 1 /\ k \in Nat
      /\ root_page_id \in DOMAIN pages /\ DOMAIN pages \subseteq PageId
      /\ lev[root_page_id] \in Nat /\ \A p \in DOMAIN pages : lev[p] \in Nat
      /\ lo[root_page_id] = 0 /\ hi[root_page_id] = 0
  BY TreeBounds DEF Whole, Tree, Shaped, Wide
<1>1. PICK f : Descents(f, MaxHeight, root_page_id, k) /\ Paths(root_page_id, k) = f[MaxHeight]
  BY PathsDescend
<1> DEFINE At(n) == \E q : /\ f[n] = {q} /\ Descent(lo, hi, lev, k, q)
                           /\ Len(q) = IF n <= h THEN n ELSE h
           S == {n \in Nat : n \in 1..MaxHeight => At(n)}
<1>2. 0 \in S
  OBVIOUS
<1>3. ASSUME NEW n \in Nat, n \in S PROVE n + 1 \in S
  <2> SUFFICES ASSUME n + 1 \in 1..MaxHeight PROVE At(n + 1)
    OBVIOUS
  <2>1. CASE n = 0
    <3> DEFINE q == <<root_page_id>>
    <3>1. f[n + 1] = {q}
      <4>1. n + 1 = 1
        BY <2>1
      <4> QED BY <1>1, <4>1 DEF Descents
    <3>2. q \in Seq(PageId) /\ Len(q) = 1 /\ q[1] = root_page_id
      BY <1>0
    <3>3. Covers(lo, hi, root_page_id, k)
      BY <1>0 DEF Covers, Under
    <3> HIDE DEF q
    <3>4. Descent(lo, hi, lev, k, q)
      BY <1>0, <3>2, <3>3 DEF Descent
    <3>5. Len(q) = IF n + 1 <= h THEN n + 1 ELSE h
      BY <1>0, <2>1, <3>2
    <3> HIDE DEF h
    <3> QED BY <3>1, <3>4, <3>5
  <2>2. CASE n # 0
    <3>1. n \in 1..MaxHeight /\ n + 1 # 1 /\ (n + 1) - 1 = n
      BY <1>0, <2>2
    <3>2. PICK q : /\ f[n] = {q} /\ Descent(lo, hi, lev, k, q)
                   /\ Len(q) = IF n <= h THEN n ELSE h
      <4> HIDE DEF At
      <4>1. At(n)
        BY <1>3, <3>1
      <4> QED BY <4>1 DEF At
    <3>3. f[n + 1] = {IF pages[Last(q)].leaf THEN q ELSE Append(q, Child(pages[Last(q)], k))}
      <4>1. f[n + 1] = Further(f[n], k)
        BY <1>1, <3>1 DEF Descents
      <4> QED BY <3>2, <4>1 DEF Further
    <3> DEFINE end == Last(q)
    <3>4. /\ Len(q) \in 1..Len(q) /\ Len(q) \in Nat /\ end = q[Len(q)] /\ end \in DOMAIN pages
          /\ Covers(lo, hi, end, k) /\ lev[end] + Len(q) = h /\ lev[end] \in Nat
      <4>1. Len(q) \in Nat /\ Len(q) >= 1
        BY <3>2, LenProperties DEF Descent
      <4> QED BY <1>0, <3>2, <4>1 DEF Descent, Last
    <3> HIDE DEF end
    <3>5. pages[end].leaf <=> lev[end] = 0
      BY <3>4, LeafLevel DEF Whole, Tree
    <3>6. CASE pages[end].leaf
      <4>1. f[n + 1] = {q}
        BY <3>3, <3>6 DEF end
      <4>2. Len(q) = IF n + 1 <= h THEN n + 1 ELSE h
        BY <1>0, <3>2, <3>4, <3>5, <3>6
      <4> HIDE DEF h
      <4> QED BY <3>2, <4>1, <4>2
    <3>7. CASE ~pages[end].leaf
      <4> DEFINE i == UpTo(pages[end].keys, k) + 1
                 kid == pages[end].kids[i]
                 r == Append(q, kid)
      <4>1. /\ i \in DOMAIN pages[end].kids /\ Child(pages[end], k) = kid /\ kid \in DOMAIN pages
            /\ lev[kid] + 1 = lev[end] /\ Covers(lo, hi, kid, k)
        BY <1>0, <3>4, <3>7, ChildCovers
      <4> HIDE DEF i
      <4>2. f[n + 1] = {r}
        BY <3>3, <3>7, <4>1 DEF end
      <4> HIDE DEF kid
      <4>3. /\ r \in Seq(PageId) /\ Len(r) = Len(q) + 1 /\ \A m \in 1..Len(q) : r[m] = q[m]
            /\ r[Len(q) + 1] = kid
        <5>1. q \in Seq(PageId) /\ kid \in PageId
          BY <1>0, <3>2, <4>1 DEF Descent
        <5> HIDE DEF r
        <5>2. r = Append(q, kid)
          BY DEF r
        <5> QED BY ONLY <5>1, <5>2, AppendProperties
      <4> HIDE DEF r
      <4>4. ASSUME NEW m \in 1..Len(r)
            PROVE  /\ r[m] \in DOMAIN pages /\ Covers(lo, hi, r[m], k)
                   /\ lev[r[m]] + m = lev[root_page_id] + 1
        <5>1. CASE m = Len(q) + 1
          <6>1. r[m] = kid
            BY <4>3, <5>1
          <6>2. lev[kid] \in Nat /\ lev[kid] + m = lev[root_page_id] + 1
            <7>1. lev[kid] \in Nat
              BY <1>0, <4>1
            <7>2. lev[kid] + 1 = lev[end] /\ lev[end] + Len(q) = h /\ Len(q) \in Nat
              BY <3>4, <4>1
            <7>3. lev[kid] + m = h
              <8> HIDE DEF h
              <8> QED BY <5>1, <7>1, <7>2
            <7> QED BY <7>1, <7>3
          <6> QED BY <4>1, <6>1, <6>2
        <5>2. CASE m # Len(q) + 1
          <6>1. m \in 1..Len(q)
            BY <3>4, <4>3, <5>2
          <6> QED BY <3>2, <4>3, <6>1 DEF Descent
        <5> QED BY <5>1, <5>2
      <4>5. ASSUME NEW m \in 1..(Len(r) - 1)
            PROVE  \E j \in DOMAIN pages[r[m]].kids : pages[r[m]].kids[j] = r[m + 1]
        <5>0. m \in 1..Len(q) /\ r[m] = q[m]
          BY <3>4, <4>3
        <5>1. CASE m = Len(q)
          <6>1. r[m] = end /\ r[m + 1] = kid
            BY <3>4, <4>3, <5>0, <5>1
          <6> QED BY <4>1, <6>1 DEF kid
        <5>2. CASE m # Len(q)
          <6>1. m \in 1..(Len(q) - 1) /\ m + 1 \in 1..Len(q)
            BY <3>4, <5>0, <5>2
          <6> QED BY <3>2, <4>3, <5>0, <6>1 DEF Descent
        <5> QED BY <5>1, <5>2
      <4>6. r[1] = root_page_id /\ Len(r) >= 1
        <5>1. 1 \in 1..Len(q) /\ q[1] = root_page_id
          BY <3>2, <3>4 DEF Descent
        <5> QED BY <3>4, <4>3, <5>1
      <4>7. Descent(lo, hi, lev, k, r)
        BY <4>3, <4>4, <4>5, <4>6 DEF Descent
      <4>8. Len(r) = IF n + 1 <= h THEN n + 1 ELSE h
        <5>1. lev[end] >= 1 /\ h \in Nat
          BY <1>0, <3>4, <3>5, <3>7
        <5> HIDE DEF h
        <5>2. Len(q) < h
          BY <3>4, <5>1
        <5>3. Len(q) = n /\ n + 1 <= h
          BY <3>2, <5>1, <5>2
        <5> QED BY <4>3, <5>3
      <4> HIDE DEF h
      <4> QED BY <4>2, <4>7, <4>8
    <3> QED BY <3>6, <3>7
  <2> QED BY <2>1, <2>2
<1> HIDE DEF S
<1>4. MaxHeight \in S
  BY <1>0, <1>2, <1>3, Induction
<1>5. At(MaxHeight)
  <2> HIDE DEF At
  <2> QED BY <1>0, <1>4 DEF S
<1>6. PICK q : /\ f[MaxHeight] = {q} /\ Descent(lo, hi, lev, k, q)
               /\ Len(q) = IF MaxHeight <= h THEN MaxHeight ELSE h
  BY <1>5
<1>7. Len(q) = h /\ Len(q) \in 1..Len(q)
  BY <1>0, <1>6
<1>8. Path(root_page_id, k) = q
  BY <1>1, <1>6 DEF Path
<1>9. q[Len(q)] \in DOMAIN pages /\ lev[q[Len(q)]] + Len(q) = lev[root_page_id] + 1
  BY <1>6, <1>7 DEF Descent
<1>10. pages[Last(q)].leaf
  <2>1. lev[q[Len(q)]] = 0
    BY <1>0, <1>7, <1>9
  <2> QED BY <1>9, <2>1, LeafLevel DEF Whole, Tree, Last
<1> QED BY <1>1, <1>6, <1>7, <1>8, <1>10 DEF LeafFor, Last

\* Where a search for k ends.
LEMMA LeafForCovers ==
    ASSUME root_page_id # NoPage, NEW lo, NEW hi, NEW lev,
           Whole(pages, root_page_id, lo, hi, lev), lev[root_page_id] < MaxHeight, NEW k \in Key
    PROVE  /\ LeafFor(k) \in DOMAIN pages /\ pages[LeafFor(k)].leaf /\ Covers(lo, hi, LeafFor(k), k)
<1>1. PICK q : /\ Descent(lo, hi, lev, k, q) /\ Last(q) = q[Len(q)] /\ LeafFor(k) = Last(q)
               /\ pages[Last(q)].leaf
  BY PathDescends
<1>2. Len(q) \in 1..Len(q)
  BY <1>1, LenProperties DEF Descent
<1> QED BY <1>1, <1>2 DEF Descent

\* A descent finds the keys of the leaves.
LEMMA ReachableStored ==
    ASSUME NEW lo, NEW hi, NEW lev,
           root_page_id = NoPage => DOMAIN pages = {},
           root_page_id # NoPage => /\ Whole(pages, root_page_id, lo, hi, lev)
                                    /\ lev[root_page_id] < MaxHeight
    PROVE  Reachable = Stored(pages)
<1>1. CASE root_page_id = NoPage
  BY <1>1 DEF Reachable, Stored
<1>2. CASE root_page_id # NoPage
  <2>1. ASSUME NEW k \in Key, Has(pages[LeafFor(k)], k) PROVE k \in Stored(pages)
    <3>1. LeafFor(k) \in DOMAIN pages /\ pages[LeafFor(k)].leaf
      BY <1>2, LeafForCovers
    <3> QED BY <2>1, <3>1 DEF Stored, Has
  <2>2. ASSUME NEW k \in Stored(pages) PROVE k \in Key /\ Has(pages[LeafFor(k)], k)
    <3>1. PICK p \in DOMAIN pages : pages[p].leaf /\ k \in Range(pages[p].keys)
      BY DEF Stored
    <3>2. PICK i \in DOMAIN pages[p].keys : k = pages[p].keys[i]
      BY <3>1 DEF Range
    <3>3. PageShape(pages, lo, hi, lev, NoPage, NoPage, p)
      BY <1>2 DEF Whole, Tree, Shaped
    <3>4. k \in Key /\ k \in Nat
      BY <3>2, <3>3, PageFields
    <3>5. Covers(lo, hi, p, k)
      BY <3>2, <3>3 DEF PageShape
    <3>6. /\ LeafFor(k) \in DOMAIN pages /\ pages[LeafFor(k)].leaf /\ Covers(lo, hi, LeafFor(k), k)
      BY <1>2, <3>4, LeafForCovers
    <3>7. lev[p] = 0 /\ lev[LeafFor(k)] = 0
      BY <1>2, <3>1, <3>6, LeafLevel DEF Whole, Tree
    <3>8. LeafFor(k) = p
      BY <1>2, <3>4, <3>5, <3>6, <3>7, OnePage DEF Whole, Tree
    <3> QED BY <3>1, <3>4, <3>8 DEF Has
  <2> QED BY <1>2, <2>1, <2>2 DEF Reachable
<1> QED BY <1>1, <1>2

-----------------------------------------------------------------------------
(* New pages, and pages that change. *)

LEMMA WithPage ==
    ASSUME NEW pgs, NEW p, NEW page
    PROVE  /\ DOMAIN With(pgs, p, page) = DOMAIN pgs \cup {p}
           /\ With(pgs, p, page) = [q \in DOMAIN With(pgs, p, page) |-> With(pgs, p, page)[q]]
           /\ With(pgs, p, page)[p] = page
           /\ \A q \in DOMAIN pgs : q # p => With(pgs, p, page)[q] = pgs[q]
BY DEF With

\* Changing a page in place.
LEMMA WithExcept ==
    ASSUME NEW pgs, NEW p \in DOMAIN pgs, NEW page, pgs = [q \in DOMAIN pgs |-> pgs[q]]
    PROVE  [pgs EXCEPT ![p] = page] = With(pgs, p, page)
<1>1. DOMAIN pgs \cup {p} = DOMAIN pgs
  OBVIOUS
<1> QED BY <1>1 DEF With

\* The pages that pages refer to exist.
Refs(pgs) == \A p \in DOMAIN pgs : Range(pgs[p].kids) \cup {pgs[p].next} \subseteq DOMAIN pgs \cup {NoPage}

LEMMA ShapedRefs ==
    ASSUME NEW pgs, NEW root, NEW lo, NEW hi, NEW lev, NEW x, NEW y,
           Shaped(pgs, root, lo, hi, lev, x, y)
    PROVE  Refs(pgs)
<1> SUFFICES ASSUME NEW p \in DOMAIN pgs
             PROVE  Range(pgs[p].kids) \cup {pgs[p].next} \subseteq DOMAIN pgs \cup {NoPage}
  BY DEF Refs
<1>1. PageShape(pgs, lo, hi, lev, x, y, p)
  BY DEF Shaped
<1>2. CASE LeafShape(pgs, lo, hi, lev, p)
  <2>1. Range(pgs[p].kids) = {}
    BY <1>2 DEF LeafShape, Range
  <2> QED BY <1>2, <2>1 DEF LeafShape
<1>3. CASE InnerShape(pgs, lo, hi, lev, x, y, p)
  BY <1>3 DEF InnerShape, Range
<1> QED BY <1>1, <1>2, <1>3 DEF PageShape

\* There is a page id left.
LEMMA FreshPage ==
    ASSUME NEW pgs, DOMAIN pgs \subseteq PageId, Refs(pgs), Cardinality(DOMAIN pgs) < MaxPages,
           \A t \in Thread : RememberedBy(t) \subseteq DOMAIN pgs
    PROVE  Fresh(pgs) \in PageId /\ Fresh(pgs) \notin DOMAIN pgs /\ Fresh(pgs) # NoPage
<1> DEFINE named == UNION {Range(pgs[p].kids) \cup {pgs[p].next} : p \in DOMAIN pgs}
           held == UNION {RememberedBy(t) : t \in Thread}
           used == DOMAIN pgs \cup named \cup held
<1>1. used \subseteq DOMAIN pgs \cup {NoPage}
  <2>1. named \subseteq DOMAIN pgs \cup {NoPage}
    BY DEF Refs
  <2>2. held \subseteq DOMAIN pgs
    OBVIOUS
  <2> HIDE DEF named, held
  <2> QED BY <2>1, <2>2
<1>2. MaxPages \in Nat /\ IsFiniteSet(PageId) /\ Cardinality(PageId) = MaxPages
  BY TreeBounds, FS_Interval DEF PageId
<1>3. PageId # DOMAIN pgs
  BY <1>2
<1>4. PageId \ used # {}
  BY <1>1, <1>3, PageIds
<1>5. PageId \ used \subseteq Nat
  BY PageIds
<1>6. Fresh(pgs) = Smallest(PageId \ used)
  BY DEF Fresh
<1>7. DOMAIN pgs \subseteq used
  OBVIOUS
<1> HIDE DEF used
<1>8. Fresh(pgs) \in PageId \ used
  BY <1>4, <1>5, <1>6, SmallestOf
<1> QED BY <1>7, <1>8, PageIds

\* A page is what it was, and so are the pages it refers to.
LEMMA SameShape ==
    ASSUME NEW pgs, NEW lo, NEW hi, NEW lev, NEW x, NEW y, NEW q \in DOMAIN pgs,
           PageShape(pgs, lo, hi, lev, x, y, q),
           NEW pgs2, NEW lo2, NEW hi2, NEW lev2, NEW x2, NEW y2,
           DOMAIN pgs \subseteq DOMAIN pgs2, pgs2[q] = pgs[q], hi2[q] = hi[q],
           \A p \in DOMAIN pgs : lo2[p] = lo[p] /\ lev2[p] = lev[p],
           \A i \in DOMAIN pgs[q].kids :
              Wide(hi2, x2, y2, pgs[q].kids[i]) = Wide(hi, x, y, pgs[q].kids[i])
    PROVE  PageShape(pgs2, lo2, hi2, lev2, x2, y2, q)
<1>1. lo2[q] = lo[q] /\ lev2[q] = lev[q]
  OBVIOUS
<1>2. CASE LeafShape(pgs, lo, hi, lev, q)
  <2>1. LeafShape(pgs2, lo2, hi2, lev2, q)
    BY <1>1, <1>2 DEF LeafShape
  <2> QED BY <1>1, <2>1 DEF PageShape, Covers
<1>3. CASE InnerShape(pgs, lo, hi, lev, x, y, q)
  <2>1. ASSUME NEW i \in DOMAIN pgs2[q].kids
        PROVE  LET kid == pgs2[q].kids[i] IN
               /\ kid \in DOMAIN pgs2 /\ lev2[kid] + 1 = lev2[q]
               /\ lo2[kid] = (IF i = 1 THEN lo2[q] ELSE pgs2[q].keys[i - 1])
               /\ Wide(hi2, x2, y2, kid) = (IF i = Len(pgs2[q].kids) THEN hi2[q] ELSE pgs2[q].keys[i])
    BY <1>1, <1>3 DEF InnerShape
  <2>2. InnerShape(pgs2, lo2, hi2, lev2, x2, y2, q)
    BY <1>1, <1>3, <2>1 DEF InnerShape
  <2> QED BY <1>1, <2>2 DEF PageShape, Covers
<1> QED BY <1>2, <1>3 DEF PageShape

-----------------------------------------------------------------------------
(* Entering a key. *)

LEMMA AscendingInsert ==
    ASSUME NEW s \in Seq(Key), Ascending(s), NEW k \in Key, NEW m \in 0..Len(s),
           \A i \in DOMAIN s : IF i <= m THEN s[i] < k ELSE k < s[i]
    PROVE  LET r == InsertAt(s, m + 1, k) IN
           /\ r \in Seq(Key) /\ Len(r) = Len(s) + 1 /\ DOMAIN r = 1..(Len(s) + 1)
           /\ \A j \in 1..(Len(s) + 1) :
                 r[j] = IF j < m + 1 THEN s[j] ELSE IF j = m + 1 THEN k ELSE s[j - 1]
           /\ Ascending(r) /\ Range(r) = Range(s) \cup {k}
<1> DEFINE r == InsertAt(s, m + 1, k)
           n == Len(s)
<1>0. /\ n \in Nat /\ DOMAIN s = 1..n /\ m \in Nat /\ m <= n /\ k \in Nat
      /\ \A i \in 1..n : s[i] \in Nat
  <2>1. n \in Nat /\ DOMAIN s = 1..n
    BY LenProperties
  <2>2. \A i \in 1..n : s[i] \in Nat
    BY ElementOfSeq, TreeBounds
  <2> QED BY <2>1, <2>2, TreeBounds
<1>1. /\ r \in Seq(Key) /\ Len(r) = n + 1 /\ DOMAIN r = 1..(n + 1)
      /\ \A j \in 1..(n + 1) : r[j] = IF j < m + 1 THEN s[j] ELSE IF j = m + 1 THEN k ELSE s[j - 1]
  <2>1. m + 1 \in 1..(Len(s) + 1)
    BY <1>0
  <2> QED BY <2>1, InsertedAt
<1> HIDE DEF r
<1>2. ASSUME NEW i \in 1..(n + 1), NEW j \in 1..(n + 1), i < j PROVE r[i] < r[j]
  <2> HIDE DEF n
  <2>1. CASE j <= m
    <3>1. i \in 1..n /\ j \in 1..n /\ r[i] = s[i] /\ r[j] = s[j]
      BY <1>0, <1>1, <1>2, <2>1
    <3> QED BY <1>0, <1>2, <3>1 DEF Ascending
  <2>2. CASE j = m + 1
    <3>1. i \in 1..n /\ i <= m /\ r[i] = s[i] /\ r[j] = k
      BY <1>0, <1>1, <1>2, <2>2
    <3> QED BY <1>0, <3>1
  <2>3. CASE j > m + 1
    <3>1. j - 1 \in 1..n /\ r[j] = s[j - 1] /\ ~(j - 1 <= m)
      BY <1>0, <1>1, <2>3
    <3>2. CASE i <= m
      <4>1. i \in 1..n /\ r[i] = s[i] /\ i < j - 1
        BY <1>0, <1>1, <2>3, <3>2
      <4> QED BY <1>0, <3>1, <4>1 DEF Ascending
    <3>3. CASE i = m + 1
      <4>1. r[i] = k
        BY <1>0, <1>1, <3>3
      <4> QED BY <1>0, <3>1, <4>1
    <3>4. CASE i > m + 1
      <4>1. i - 1 \in 1..n /\ r[i] = s[i - 1] /\ i - 1 < j - 1
        BY <1>0, <1>1, <1>2, <3>4
      <4> QED BY <1>0, <3>1, <4>1 DEF Ascending
    <3> QED BY <1>0, <3>2, <3>3, <3>4
  <2> QED BY <1>0, <2>1, <2>2, <2>3
<1>3. Ascending(r)
  BY <1>1, <1>2 DEF Ascending
<1>4. Range(r) = Range(s) \cup {k}
  <2> HIDE DEF n
  <2>1. ASSUME NEW j \in 1..(n + 1) PROVE r[j] \in Range(s) \cup {k}
    <3>1. CASE j < m + 1
      <4>1. j \in DOMAIN s
        BY <1>0, <3>1
      <4> QED BY <1>1, <3>1, <4>1 DEF Range
    <3>2. CASE j = m + 1
      BY <1>0, <1>1, <3>2
    <3>3. CASE j > m + 1
      <4>1. j - 1 \in DOMAIN s /\ ~(j < m + 1) /\ j # m + 1
        BY <1>0, <3>3
      <4> QED BY <1>1, <4>1 DEF Range
    <3> QED BY <1>0, <3>1, <3>2, <3>3
  <2>2. ASSUME NEW j \in 1..n PROVE s[j] \in Range(r)
    <3>1. CASE j <= m
      <4>1. j \in DOMAIN r /\ r[j] = s[j]
        BY <1>0, <1>1, <3>1
      <4> QED BY <4>1 DEF Range
    <3>2. CASE j > m
      <4>1. j + 1 \in 1..(n + 1) /\ ~(j + 1 < m + 1) /\ j + 1 # m + 1 /\ (j + 1) - 1 = j
        BY <1>0, <3>2
      <4>2. r[j + 1] = s[j] /\ j + 1 \in DOMAIN r
        BY <1>1, <4>1
      <4> QED BY <4>2 DEF Range
    <3> QED BY <1>0, <3>1, <3>2
  <2>3. k \in Range(r)
    <3>1. m + 1 \in DOMAIN r /\ r[m + 1] = k
      BY <1>0, <1>1
    <3> QED BY <3>1 DEF Range
  <2> QED BY <1>0, <1>1, <2>1, <2>2, <2>3 DEF Range
<1> QED BY <1>1, <1>3, <1>4 DEF r, n

\* A leaf with one key more.
LEMMA EnteredLeaf ==
    ASSUME NEW page \in Page, Ascending(page.keys), NEW k \in Key, ~Has(page, k)
    PROVE  LET e == Entered(page, k) IN
           /\ e \in Page /\ e.leaf = page.leaf /\ e.kids = page.kids /\ e.next = page.next
           /\ e.keys \in Seq(Key) /\ Len(e.keys) = Len(page.keys) + 1
           /\ Ascending(e.keys) /\ Range(e.keys) = Range(page.keys) \cup {k}
<1> DEFINE s == page.keys
           m == Before(s, k)
           r == InsertAt(s, m + 1, k)
<1>1. s \in Seq(Key) /\ s \in Seq(Nat) /\ k \in Nat
  BY TreeBounds, SeqMonotonic DEF Page
<1>2. m \in 0..Len(s) /\ \A i \in DOMAIN s : s[i] < k <=> i <= m
  BY <1>1, BeforeSplits
<1>3. Entered(page, k) = [page EXCEPT !.keys = r]
  BY DEF Entered
<1> HIDE DEF m
<1>4. \A i \in DOMAIN s : IF i <= m THEN s[i] < k ELSE k < s[i]
  <2>1. \A i \in DOMAIN s : s[i] # k /\ s[i] \in Nat
    BY <1>1, LenProperties, ElementOfSeq DEF Has, Range
  <2> QED BY <1>1, <1>2, <2>1
<1>5. /\ r \in Seq(Key) /\ Len(r) = Len(s) + 1 /\ Ascending(r) /\ Range(r) = Range(s) \cup {k}
  <2> HIDE DEF s
  <2>1. Ascending(s)
    BY DEF s
  <2> QED BY <1>1, <1>2, <1>4, <2>1, AscendingInsert
<1> HIDE DEF r
<1> QED BY <1>3, <1>5 DEF Page

\* The sizes fit.
LEMMA Sizes ==
    /\ LeafMin \in Nat /\ LeafMin >= 1 /\ 2 * LeafMin <= LeafMax /\ LeafMax <= 2 * LeafMin + 1
    /\ InternalMin \in Nat /\ InternalMin >= 1
    /\ 2 * InternalMin <= InternalMax /\ InternalMax <= 2 * InternalMin + 1
    /\ LeafMax \in Nat /\ InternalMax \in Nat /\ InternalMax >= 3 /\ LeafMax >= 2
BY TreeBounds DEF LeafMin, InternalMin

\* A key is entered into the leaf that covers it; the leaf may be full then.
LEMMA EnterShaped ==
    ASSUME NEW pgs, NEW root, NEW lo, NEW hi, NEW lev,
           Shaped(pgs, root, lo, hi, lev, NoPage, NoPage),
           NEW p \in DOMAIN pgs, pgs[p].leaf, NEW k \in Key, Covers(lo, hi, p, k), ~Has(pgs[p], k)
    PROVE  LET e == With(pgs, p, Entered(pgs[p], k)) IN
           /\ Shaped(e, root, lo, hi, lev, NoPage, NoPage)
           /\ DOMAIN e = DOMAIN pgs /\ e[p].leaf /\ Len(e[p].keys) = Len(pgs[p].keys) + 1
           /\ \A q \in DOMAIN pgs : q # p => e[q] = pgs[q]
           /\ Stored(e) = Stored(pgs) \cup {k}
<1> DEFINE page == Entered(pgs[p], k)
           e == With(pgs, p, page)
<1>1. PageShape(pgs, lo, hi, lev, NoPage, NoPage, p)
  BY DEF Shaped
<1>2. pgs[p] \in Page /\ Ascending(pgs[p].keys)
  BY <1>1 DEF PageShape
<1>3. /\ page \in Page /\ page.leaf = pgs[p].leaf /\ page.kids = pgs[p].kids /\ page.next = pgs[p].next
      /\ page.keys \in Seq(Key) /\ Len(page.keys) = Len(pgs[p].keys) + 1
      /\ Ascending(page.keys) /\ Range(page.keys) = Range(pgs[p].keys) \cup {k}
  BY <1>2, EnteredLeaf
<1> HIDE DEF page
<1>4. /\ DOMAIN e = DOMAIN pgs /\ e = [q \in DOMAIN e |-> e[q]]
      /\ e[p] = page /\ \A q \in DOMAIN pgs : q # p => e[q] = pgs[q]
  <2>1. DOMAIN pgs \cup {p} = DOMAIN pgs
    OBVIOUS
  <2>2. /\ DOMAIN e = DOMAIN pgs \cup {p} /\ e = [q \in DOMAIN e |-> e[q]]
        /\ e[p] = page /\ \A q \in DOMAIN pgs : q # p => e[q] = pgs[q]
    BY DEF With
  <2> HIDE DEF e, page
  <2> QED BY <2>1, <2>2
<1> HIDE DEF e
<1>5. PageShape(e, lo, hi, lev, NoPage, NoPage, p)
  <2>1. LeafShape(pgs, lo, hi, lev, p)
    BY <1>1 DEF PageShape, InnerShape
  <2>2. LeafShape(e, lo, hi, lev, p)
    BY <1>3, <1>4, <2>1 DEF LeafShape
  <2>3. \A i \in DOMAIN page.keys : Covers(lo, hi, p, page.keys[i])
    <3>1. \A i \in DOMAIN page.keys : page.keys[i] \in Range(pgs[p].keys) \cup {k}
      BY <1>3 DEF Range
    <3>2. \A j \in Range(pgs[p].keys) : Covers(lo, hi, p, j)
      BY <1>1 DEF PageShape, Range
    <3> QED BY <3>1, <3>2
  <2>4. Under(lo[p], hi[p])
    BY <1>1 DEF PageShape
  <2> QED BY <1>3, <1>4, <2>2, <2>3, <2>4 DEF PageShape
<1>6. ASSUME NEW q \in DOMAIN pgs, q # p PROVE PageShape(e, lo, hi, lev, NoPage, NoPage, q)
  <2>1. PageShape(pgs, lo, hi, lev, NoPage, NoPage, q) /\ e[q] = pgs[q]
    BY <1>4, <1>6 DEF Shaped
  <2> QED BY <1>4, <2>1, SameShape
<1>7. Shaped(e, root, lo, hi, lev, NoPage, NoPage)
  BY <1>4, <1>5, <1>6 DEF Shaped
<1>8. Stored(e) = Stored(pgs) \cup {k}
  <2>1. Stored(e) \subseteq Stored(pgs) \cup {k}
    BY <1>3, <1>4 DEF Stored
  <2>2. Stored(pgs) \cup {k} \subseteq Stored(e)
    <3>1. k \in Stored(e)
      BY <1>3, <1>4 DEF Stored
    <3>2. ASSUME NEW q \in DOMAIN pgs, pgs[q].leaf, NEW j \in Range(pgs[q].keys)
          PROVE  j \in Stored(e)
      <4>1. q \in DOMAIN e /\ e[q].leaf /\ j \in Range(e[q].keys)
        BY <1>3, <1>4, <3>2
      <4> QED BY <4>1 DEF Stored
    <3> QED BY <3>1, <3>2 DEF Stored
  <2> QED BY <2>1, <2>2
<1> QED BY <1>3, <1>4, <1>7, <1>8 DEF e, page

-----------------------------------------------------------------------------
(* Splitting a page. *)

\* The bounds when page p keeps the keys under m and the others go to page new.
SplitLo(lo, new, m)      == [lo EXCEPT ![new] = m]
SplitHi(hi, p, new, m)   == [hi EXCEPT ![p] = m, ![new] = hi[p]]
SplitLev(lev, p, new)    == [lev EXCEPT ![new] = lev[p]]

LEMMA SplitGhosts ==
    ASSUME NEW lo \in [PageId -> Nat], NEW hi \in [PageId -> Nat], NEW lev \in [PageId -> Nat],
           NEW p \in PageId, NEW new \in PageId, p # new, NEW m \in Nat
    PROVE  /\ SplitLo(lo, new, m) \in [PageId -> Nat] /\ SplitHi(hi, p, new, m) \in [PageId -> Nat]
           /\ SplitLev(lev, p, new) \in [PageId -> Nat]
           /\ SplitLo(lo, new, m)[new] = m
           /\ \A q \in PageId : q # new => SplitLo(lo, new, m)[q] = lo[q]
           /\ SplitHi(hi, p, new, m)[p] = m /\ SplitHi(hi, p, new, m)[new] = hi[p]
           /\ \A q \in PageId : q # new /\ q # p => SplitHi(hi, p, new, m)[q] = hi[q]
           /\ SplitLev(lev, p, new)[new] = lev[p]
           /\ \A q \in PageId : q # new => SplitLev(lev, p, new)[q] = lev[q]
BY DEF SplitLo, SplitHi, SplitLev

\* Both halves stay apart from the other pages, and from each other.
LEMMA SplitApart ==
    ASSUME NEW D, D \subseteq PageId,
           NEW lo \in [PageId -> Nat], NEW hi \in [PageId -> Nat], NEW lev \in [PageId -> Nat],
           \A q, r \in D : q # r /\ lev[q] = lev[r] => Apart(lo, hi, q, r),
           NEW p \in D, NEW new \in PageId, new \notin D, NEW m \in Nat, m # 0,
           lo[p] < m, Under(m, hi[p])
    PROVE  \A q, r \in D \cup {new} :
              q # r /\ SplitLev(lev, p, new)[q] = SplitLev(lev, p, new)[r] =>
                 Apart(SplitLo(lo, new, m), SplitHi(hi, p, new, m), q, r)
<1> DEFINE lo2 == SplitLo(lo, new, m)
           hi2 == SplitHi(hi, p, new, m)
           lev2 == SplitLev(lev, p, new)
<1>1. /\ lo2[new] = m /\ \A q \in D : lo2[q] = lo[q]
      /\ hi2[p] = m /\ hi2[new] = hi[p] /\ \A q \in D : q # p => hi2[q] = hi[q]
      /\ lev2[new] = lev[p] /\ \A q \in D : lev2[q] = lev[q]
  <2>1. p \in PageId /\ p # new /\ \A q \in D : q \in PageId /\ q # new
    OBVIOUS
  <2>2. /\ lo2[new] = m /\ \A q \in PageId : q # new => lo2[q] = lo[q]
        /\ hi2[p] = m /\ hi2[new] = hi[p] /\ \A q \in PageId : q # new /\ q # p => hi2[q] = hi[q]
        /\ lev2[new] = lev[p] /\ \A q \in PageId : q # new => lev2[q] = lev[q]
    <3>1. p \in PageId
      OBVIOUS
    <3> QED BY <2>1, <3>1 DEF SplitLo, SplitHi, SplitLev
  <2> HIDE DEF lo2, hi2, lev2
  <2> QED BY <2>1, <2>2
<1> HIDE DEF lo2, hi2, lev2
<1>2. \A q \in D : lo[q] \in Nat /\ hi[q] \in Nat /\ lev[q] \in Nat
  OBVIOUS
<1> SUFFICES ASSUME NEW q \in D \cup {new}, NEW r \in D \cup {new}, q # r, lev2[q] = lev2[r]
             PROVE  Apart(lo2, hi2, q, r)
  BY DEF lo2, hi2, lev2
<1>3. CASE q \in D /\ r \in D
  <2>1. Apart(lo, hi, q, r)
    BY <1>1, <1>3
  <2> QED BY <1>1, <1>2, <1>3, <2>1 DEF Apart, Under
<1>4. CASE q = new /\ r = p
  BY <1>1, <1>2, <1>4 DEF Apart, Under
<1>5. CASE q = p /\ r = new
  BY <1>1, <1>2, <1>5 DEF Apart, Under
<1>6. CASE q = new /\ r \in D /\ r # p
  <2>1. Apart(lo, hi, p, r) /\ Apart(lo, hi, r, p)
    BY <1>1, <1>6
  <2> QED BY <1>1, <1>2, <1>6, <2>1 DEF Apart, Under
<1>7. CASE r = new /\ q \in D /\ q # p
  <2>1. Apart(lo, hi, p, q) /\ Apart(lo, hi, q, p)
    BY <1>1, <1>7
  <2> QED BY <1>1, <1>2, <1>7, <2>1 DEF Apart, Under
<1> QED BY <1>3, <1>4, <1>5, <1>6, <1>7

\* A child has one parent.
LEMMA OneParent ==
    ASSUME NEW pgs, NEW root, NEW lo, NEW hi, NEW lev, NEW x, NEW y,
           Shaped(pgs, root, lo, hi, lev, x, y),
           NEW p \in DOMAIN pgs, NEW q \in DOMAIN pgs,
           NEW i \in DOMAIN pgs[p].kids, NEW j \in DOMAIN pgs[q].kids,
           pgs[p].kids[i] = pgs[q].kids[j]
    PROVE  p = q /\ i = j
<1> DEFINE kid == pgs[p].kids[i]
<1>1. ASSUME NEW r \in DOMAIN pgs, NEW n \in DOMAIN pgs[r].kids, pgs[r].kids[n] = kid
      PROVE  /\ lev[kid] + 1 = lev[r] /\ Covers(lo, hi, r, lo[kid]) /\ n \in Nat /\ n >= 1
             /\ n - 1 <= Len(pgs[r].keys) /\ Len(pgs[r].keys) \in Nat
             /\ lo[kid] = (IF n = 1 THEN lo[r] ELSE pgs[r].keys[n - 1])
             /\ \A m \in 1..Len(pgs[r].keys) : lo[r] < pgs[r].keys[m] /\ pgs[r].keys[m] \in Nat
             /\ \A a, b \in 1..Len(pgs[r].keys) : a < b => pgs[r].keys[a] < pgs[r].keys[b]
             /\ kid \in DOMAIN pgs
  <2>1. PageShape(pgs, lo, hi, lev, x, y, r)
    BY DEF Shaped
  <2>2. /\ DOMAIN pgs[r].kids = 1..Len(pgs[r].kids) /\ Len(pgs[r].kids) \in Nat
        /\ DOMAIN pgs[r].keys = 1..Len(pgs[r].keys) /\ Len(pgs[r].keys) \in Nat
        /\ \A m \in DOMAIN pgs[r].keys : pgs[r].keys[m] \in Nat
    BY <2>1, PageFields
  <2>3. InnerShape(pgs, lo, hi, lev, x, y, r)
    BY <2>1, <2>2 DEF PageShape, LeafShape
  <2>4. /\ lev[kid] + 1 = lev[r] /\ lo[kid] = (IF n = 1 THEN lo[r] ELSE pgs[r].keys[n - 1])
        /\ Len(pgs[r].kids) = Len(pgs[r].keys) + 1 /\ kid \in DOMAIN pgs
        /\ \A m \in DOMAIN pgs[r].keys : lo[r] < pgs[r].keys[m]
    BY <1>1, <2>3 DEF InnerShape
  <2>5. n \in Nat /\ n >= 1 /\ n - 1 <= Len(pgs[r].keys)
    BY <2>2, <2>4
  <2>6. Covers(lo, hi, r, lo[kid])
    <3>1. CASE n = 1
      <4>1. Under(lo[r], hi[r]) /\ lo[r] \in Nat
        BY <2>1 DEF PageShape, Shaped
      <4> QED BY <2>4, <3>1, <4>1 DEF Covers
    <3>2. CASE n # 1
      <4>1. n - 1 \in DOMAIN pgs[r].keys
        BY <2>2, <2>5, <3>2
      <4> QED BY <2>1, <2>4, <3>2, <4>1 DEF PageShape
    <3> QED BY <3>1, <3>2
  <2>7. \A a, b \in 1..Len(pgs[r].keys) : a < b => pgs[r].keys[a] < pgs[r].keys[b]
    BY <2>1, <2>2 DEF PageShape, Ascending
  <2> QED BY <2>2, <2>4, <2>5, <2>6, <2>7
<1>2. /\ lev[kid] + 1 = lev[p] /\ Covers(lo, hi, p, lo[kid]) /\ kid \in DOMAIN pgs
      /\ lev[kid] + 1 = lev[q] /\ Covers(lo, hi, q, lo[kid])
  BY <1>1
<1>3. lev[p] = lev[q] /\ lo[kid] \in Nat
  BY <1>2 DEF Shaped
<1>4. p = q
  <2> HIDE DEF kid
  <2> QED BY <1>2, <1>3, OnePage
<1>5. /\ i \in Nat /\ i >= 1 /\ i - 1 <= Len(pgs[p].keys) /\ Len(pgs[p].keys) \in Nat
      /\ lo[kid] = (IF i = 1 THEN lo[p] ELSE pgs[p].keys[i - 1])
      /\ \A m \in 1..Len(pgs[p].keys) : lo[p] < pgs[p].keys[m] /\ pgs[p].keys[m] \in Nat
      /\ \A a, b \in 1..Len(pgs[p].keys) : a < b => pgs[p].keys[a] < pgs[p].keys[b]
  BY <1>1
<1>6. /\ j \in Nat /\ j >= 1 /\ j - 1 <= Len(pgs[p].keys)
      /\ lo[kid] = (IF j = 1 THEN lo[p] ELSE pgs[p].keys[j - 1])
  BY <1>1, <1>4
<1>7. lo[p] \in Nat
  BY DEF Shaped
<1> HIDE DEF kid
<1>8. i = j
  <2>1. ASSUME i < j PROVE FALSE
    <3>1. j - 1 \in 1..Len(pgs[p].keys) /\ lo[kid] = pgs[p].keys[j - 1]
      BY <1>5, <1>6, <2>1
    <3>2. i = 1 \/ (i - 1 \in 1..Len(pgs[p].keys) /\ i - 1 < j - 1 /\ i # 1)
      BY <1>5, <1>6, <2>1
    <3> QED BY <1>5, <1>7, <3>1, <3>2
  <2>2. ASSUME j < i PROVE FALSE
    <3>1. i - 1 \in 1..Len(pgs[p].keys) /\ lo[kid] = pgs[p].keys[i - 1]
      BY <1>5, <1>6, <2>2
    <3>2. i - 1 \in Nat /\ lo[p] < lo[kid] /\ lo[kid] \in Nat
      BY <1>5, <3>1
    <3>3. CASE j = 1
      <4>1. lo[kid] = lo[p]
        BY <1>6, <3>3
      <4> QED BY ONLY <1>7, <3>2, <4>1
    <3>4. CASE j # 1
      <4>1. j - 1 \in 1..Len(pgs[p].keys) /\ j - 1 < i - 1
        BY <1>5, <1>6, <2>2, <3>4
      <4>2. pgs[p].keys[j - 1] < pgs[p].keys[i - 1]
        BY <1>5, <3>1, <4>1
      <4>3. lo[kid] = pgs[p].keys[j - 1]
        BY <1>6, <3>4
      <4> QED BY ONLY <3>1, <3>2, <4>2, <4>3
    <3> QED BY <3>3, <3>4
  <2> QED BY <1>5, <1>6, <2>1, <2>2
<1> QED BY <1>4, <1>8

\* Page p is split at m into p and new, whose parent is to learn of it; if a
\* child x of p was split before, p or new knows of it now.
LEMMA SplitShaped ==
    ASSUME NEW pgs, NEW root, NEW lo, NEW hi, NEW lev, NEW x, NEW y,
           Shaped(pgs, root, lo, hi, lev, x, y), NEW p \in DOMAIN pgs,
           x # NoPage => lev[x] < lev[p],
           \A q \in DOMAIN pgs : q # p => \A i \in DOMAIN pgs[q].kids : pgs[q].kids[i] # x,
           NEW new \in PageId, new \notin DOMAIN pgs, NEW m \in Nat, m # 0, lo[p] < m, Under(m, hi[p]),
           NEW a, NEW b,
           NEW pgs2, pgs2 = With(With(pgs, p, a), new, b),
           NEW lo2, lo2 = SplitLo(lo, new, m), NEW hi2, hi2 = SplitHi(hi, p, new, m),
           NEW lev2, lev2 = SplitLev(lev, p, new),
           PageShape(pgs2, lo2, hi2, lev2, p, new, p), PageShape(pgs2, lo2, hi2, lev2, p, new, new)
    PROVE  Shaped(pgs2, root, lo2, hi2, lev2, p, new)
<1>0. /\ p \in PageId /\ p # new /\ p # NoPage /\ DOMAIN pgs \subseteq PageId
      /\ lo \in [PageId -> Nat] /\ hi \in [PageId -> Nat] /\ lev \in [PageId -> Nat]
      /\ root \in DOMAIN pgs /\ lo[root] = 0 /\ Wide(hi, x, y, root) = 0
      /\ \A q \in DOMAIN pgs : lev[q] <= lev[root] /\ lev[q] \in Nat
      /\ \A q \in DOMAIN pgs : PageShape(pgs, lo, hi, lev, x, y, q)
  BY PageIds DEF Shaped
<1>1. /\ DOMAIN pgs2 = DOMAIN pgs \cup {new} /\ pgs2 = [q \in DOMAIN pgs2 |-> pgs2[q]]
      /\ pgs2[p] = a /\ pgs2[new] = b /\ \A q \in DOMAIN pgs : q # p => pgs2[q] = pgs[q]
  <2> DEFINE mid == With(pgs, p, a)
  <2>1. /\ DOMAIN mid = DOMAIN pgs /\ mid[p] = a /\ \A q \in DOMAIN pgs : q # p => mid[q] = pgs[q]
    BY DEF With
  <2> HIDE DEF mid
  <2>2. /\ DOMAIN pgs2 = DOMAIN mid \cup {new} /\ pgs2 = [q \in DOMAIN pgs2 |-> pgs2[q]]
        /\ pgs2[new] = b /\ \A q \in DOMAIN mid : q # new => pgs2[q] = mid[q]
    BY DEF With, mid
  <2> QED BY <2>1, <2>2
<1>2. /\ lo2 \in [PageId -> Nat] /\ hi2 \in [PageId -> Nat] /\ lev2 \in [PageId -> Nat]
      /\ lo2[new] = m /\ \A q \in DOMAIN pgs : lo2[q] = lo[q]
      /\ hi2[p] = m /\ hi2[new] = hi[p] /\ \A q \in DOMAIN pgs : q # p => hi2[q] = hi[q]
      /\ lev2[new] = lev[p] /\ \A q \in DOMAIN pgs : lev2[q] = lev[q]
  BY <1>0 DEF SplitLo, SplitHi, SplitLev
<1>3. \A q \in DOMAIN pgs : q # x => Wide(hi2, p, new, q) = Wide(hi, x, y, q)
  BY <1>0, <1>2 DEF Wide
<1>4. root # x
  <2>1. root # NoPage /\ lev[p] <= lev[root] /\ lev[p] \in Nat /\ lev[root] \in Nat
    BY <1>0, PageIds
  <2> QED BY <2>1
<1>5. Wide(hi2, p, new, root) = 0
  BY <1>0, <1>3, <1>4
<1>6. \A q \in DOMAIN pgs2 : lev2[q] <= lev2[root]
  BY <1>0, <1>1, <1>2
<1>7. \A q, r \in DOMAIN pgs2 : q # r /\ lev2[q] = lev2[r] => Apart(lo2, hi2, q, r)
  <2>1. \A q, r \in DOMAIN pgs : q # r /\ lev[q] = lev[r] => Apart(lo, hi, q, r)
    BY DEF Shaped
  <2> DEFINE D == DOMAIN pgs
  <2>2. /\ D \subseteq PageId /\ p \in D /\ new \notin D
        /\ \A q, r \in D : q # r /\ lev[q] = lev[r] => Apart(lo, hi, q, r)
    BY <1>0, <2>1
  <2>3. DOMAIN pgs2 = D \cup {new}
    BY <1>1
  <2> HIDE DEF D
  <2>4. \A q, r \in D \cup {new} :
           q # r /\ SplitLev(lev, p, new)[q] = SplitLev(lev, p, new)[r] =>
              Apart(SplitLo(lo, new, m), SplitHi(hi, p, new, m), q, r)
    BY <1>0, <2>2, SplitApart
  <2> QED BY <2>3, <2>4
<1>8. ASSUME NEW q \in DOMAIN pgs, q # p PROVE PageShape(pgs2, lo2, hi2, lev2, p, new, q)
  <2>1. pgs2[q] = pgs[q] /\ hi2[q] = hi[q] /\ DOMAIN pgs \subseteq DOMAIN pgs2
    BY <1>1, <1>2, <1>8
  <2>2. PageShape(pgs, lo, hi, lev, x, y, q)
    BY <1>0
  <2>3. \A i \in DOMAIN pgs[q].kids : pgs[q].kids[i] \in DOMAIN pgs
    <3>1. CASE LeafShape(pgs, lo, hi, lev, q)
      BY ONLY <3>1 DEF LeafShape
    <3>2. CASE InnerShape(pgs, lo, hi, lev, x, y, q)
      BY ONLY <3>2 DEF InnerShape
    <3> QED BY ONLY <2>2, <3>1, <3>2 DEF PageShape
  <2>4. \A i \in DOMAIN pgs[q].kids : Wide(hi2, p, new, pgs[q].kids[i]) = Wide(hi, x, y, pgs[q].kids[i])
    BY <1>3, <1>8, <2>3
  <2> QED BY <1>2, <2>1, <2>2, <2>4, SameShape
<1>9. \A q \in DOMAIN pgs2 : PageShape(pgs2, lo2, hi2, lev2, p, new, q)
  BY <1>1, <1>8
<1>10. DOMAIN pgs2 \subseteq PageId /\ root \in DOMAIN pgs2 /\ lo2[root] = 0
  BY <1>0, <1>1, <1>2
<1>11. /\ p \in DOMAIN pgs2 /\ new \in DOMAIN pgs2 /\ p # new
       /\ lev2[p] = lev2[new] /\ hi2[p] = lo2[new] /\ hi2[p] # 0
  BY <1>0, <1>1, <1>2
<1> QED BY <1>1, <1>2, <1>5, <1>6, <1>7, <1>9, <1>10, <1>11 DEF Shaped

\* Half of a leaf.
LEMMA LeafPart ==
    ASSUME NEW s \in Seq(Key), Ascending(s), NEW i \in Nat \ {0}, NEW j \in Nat,
           i <= j + 1, j <= Len(s)
    PROVE  LET t == SubSeq(s, i, j) IN
           /\ t \in Seq(Key) /\ Len(t) = j - i + 1 /\ Ascending(t) /\ DOMAIN t = 1..(j - i + 1)
           /\ \A n \in DOMAIN t : t[n] = s[i + n - 1] /\ i + n - 1 \in DOMAIN s /\ t[n] \in Nat
<1> DEFINE t == SubSeq(s, i, j)
<1>1. /\ t \in Seq(Key) /\ Len(t) = j - i + 1 /\ DOMAIN t = 1..(j - i + 1)
      /\ \A n \in 1..(j - i + 1) : t[n] = s[i + n - 1]
  BY PartOf
<1> HIDE DEF t
<1>2. DOMAIN s = 1..Len(s) /\ Len(s) \in Nat /\ \A n \in DOMAIN s : s[n] \in Nat
  BY LenProperties, ElementOfSeq, TreeBounds
<1>3. \A n \in DOMAIN t : i + n - 1 \in DOMAIN s
  BY <1>1, <1>2
<1>4. Ascending(t)
  <2> SUFFICES ASSUME NEW a \in DOMAIN t, NEW b \in DOMAIN t, a < b PROVE t[a] < t[b]
    BY DEF Ascending
  <2>1. a \in 1..(j - i + 1) /\ b \in 1..(j - i + 1)
    BY <1>1
  <2>2. i + a - 1 < i + b - 1
    BY ONLY <2>1, a < b, i \in Nat, j \in Nat
  <2>3. i + a - 1 \in DOMAIN s /\ i + b - 1 \in DOMAIN s
    BY <1>3
  <2>4. t[a] = s[i + a - 1] /\ t[b] = s[i + b - 1]
    BY <1>1, <2>1
  <2> QED BY <2>2, <2>3, <2>4 DEF Ascending
<1> QED BY <1>1, <1>2, <1>3, <1>4 DEF t

\* What a split of page p leaves to its parent in c, if anything.
Passed(c, pgs, root, lo, hi, lev, p) ==
    /\ Stored(c.pages) = Stored(pgs)
    /\ \A q \in DOMAIN pgs : q # p => c.pages[q] = pgs[q]
    /\ \/ /\ c.page = NoPage /\ DOMAIN c.pages = DOMAIN pgs
          /\ Whole(c.pages, root, lo, hi, lev)
       \/ /\ c.page \in PageId /\ c.page \notin DOMAIN pgs
          /\ DOMAIN c.pages = DOMAIN pgs \cup {c.page}
          /\ \E lo2, hi2, lev2 :
                /\ Tree(c.pages, root, lo2, hi2, lev2, p, c.page)
                /\ c.key = hi2[p] /\ c.key \in Key
                /\ \A q \in DOMAIN pgs : lev2[q] = lev[q]

\* The keys of two halves.
LEMMA RangeOfParts ==
    ASSUME NEW s \in Seq(Key), NEW i \in 0..Len(s)
    PROVE  Range(SubSeq(s, 1, i)) \cup Range(SubSeq(s, i + 1, Len(s))) = Range(s)
<1> DEFINE a == SubSeq(s, 1, i)
           b == SubSeq(s, i + 1, Len(s))
           n == Len(s)
<1>0. n \in Nat /\ i \in Nat /\ i <= n /\ DOMAIN s = 1..n
  BY LenProperties
<1>1. DOMAIN a = 1..i /\ \A j \in 1..i : a[j] = s[j]
  <2>1. /\ DOMAIN a = 1..(i - 1 + 1)
        /\ \A j \in 1..(i - 1 + 1) : a[j] = s[1 + j - 1]
    BY <1>0, PartOf
  <2> QED BY <1>0, <2>1
<1>2. DOMAIN b = 1..(n - i) /\ \A j \in 1..(n - i) : b[j] = s[i + j]
  <2>1. /\ DOMAIN b = 1..(n - (i + 1) + 1)
        /\ \A j \in 1..(n - (i + 1) + 1) : b[j] = s[(i + 1) + j - 1]
    BY <1>0, PartOf
  <2> HIDE DEF b, n
  <2>2. n - (i + 1) + 1 = n - i /\ \A j \in 1..(n - i) : (i + 1) + j - 1 = i + j
    BY <1>0
  <2> QED BY <2>1, <2>2
<1> HIDE DEF a, b, n
<1>3. Range(a) \cup Range(b) \subseteq Range(s)
  <2>1. \A j \in 1..i : j \in 1..n
    BY <1>0
  <2>2. \A j \in 1..(n - i) : i + j \in 1..n
    BY <1>0
  <2>3. Range(a) \subseteq Range(s)
    BY <1>0, <1>1, <2>1 DEF Range
  <2>4. Range(b) \subseteq Range(s)
    BY <1>0, <1>2, <2>2 DEF Range
  <2> QED BY <2>3, <2>4
<1>4. ASSUME NEW j \in 1..n PROVE s[j] \in Range(a) \cup Range(b)
  <2>1. CASE j <= i
    <3>1. j \in DOMAIN a /\ a[j] = s[j]
      BY <1>0, <1>1, <2>1
    <3> QED BY <3>1 DEF Range
  <2>2. CASE j > i
    <3>1. j - i \in 1..(n - i) /\ i + (j - i) = j
      BY <1>0, <2>2
    <3>2. j - i \in DOMAIN b /\ b[j - i] = s[j]
      BY <1>2, <3>1
    <3> QED BY <3>2 DEF Range
  <2> QED BY <1>0, <2>1, <2>2
<1>5. Range(a) \cup Range(b) = Range(s)
  BY <1>0, <1>3, <1>4 DEF Range
<1> QED BY <1>5 DEF a, b, n

\* Split of a leaf that an insertion has filled.
LEMMA SplitLeafPasses ==
    ASSUME NEW pgs, NEW root, NEW lo, NEW hi, NEW lev,
           Shaped(pgs, root, lo, hi, lev, NoPage, NoPage), NEW p \in DOMAIN pgs, pgs[p].leaf,
           \A q \in DOMAIN pgs : q # p => Filled(pgs, root, NoPage, q),
           Len(pgs[p].keys) <= LeafMax, Len(pgs[p].keys) >= 1,
           p # root => Len(pgs[p].keys) >= LeafMin,
           Cardinality(DOMAIN pgs) < MaxPages,
           \A t \in Thread : RememberedBy(t) \subseteq DOMAIN pgs
    PROVE  Passed(SplitLeaf(pgs, p), pgs, root, lo, hi, lev, p)
<1> DEFINE keys == pgs[p].keys
           half == Len(keys) \div 2
           new  == Fresh(pgs)
           m    == keys[half + 1]
           a    == Leaf(SubSeq(keys, 1, half), new)
           b    == Leaf(SubSeq(keys, half + 1, Len(keys)), pgs[p].next)
           pgs2 == With(With(pgs, p, a), new, b)
           lo2  == SplitLo(lo, new, m)
           hi2  == SplitHi(hi, p, new, m)
           lev2 == SplitLev(lev, p, new)
           c    == SplitLeaf(pgs, p)
<1>0. /\ DOMAIN pgs \subseteq PageId /\ p \in PageId /\ root \in DOMAIN pgs
      /\ lo \in [PageId -> Nat] /\ hi \in [PageId -> Nat] /\ lev \in [PageId -> Nat]
      /\ PageShape(pgs, lo, hi, lev, NoPage, NoPage, p)
  BY DEF Shaped
<1>1. /\ keys \in Seq(Key) /\ Len(keys) \in Nat /\ DOMAIN keys = 1..Len(keys)
      /\ \A i \in DOMAIN keys : keys[i] \in Key /\ keys[i] \in Nat
      /\ pgs[p].next \in PageId \cup {NoPage}
  BY <1>0, PageFields
<1>2. Ascending(keys) /\ \A i \in DOMAIN keys : Covers(lo, hi, p, keys[i])
  BY <1>0 DEF PageShape
<1>3. CASE Len(keys) # LeafMax
  <2>1. c = Carry(pgs, 0, NoPage)
    BY <1>3 DEF SplitLeaf
  <2>2. c.pages = pgs /\ c.page = NoPage
    BY <2>1 DEF Carry
  <2>3. Filled(pgs, root, NoPage, p)
    <3>1. p # NoPage /\ Len(keys) < LeafMax
      BY <1>0, <1>1, <1>3, Sizes, PageIds
    <3> QED BY <1>1, <3>1 DEF Filled
  <2>4. Whole(pgs, root, lo, hi, lev)
    BY <2>3 DEF Whole, Tree
  <2> QED BY <2>2, <2>4 DEF Passed
<1>4. CASE Len(keys) = LeafMax
  <2>1. c = Carry(pgs2, m, new)
    BY <1>4 DEF SplitLeaf
  <2>2. c.pages = pgs2 /\ c.key = m /\ c.page = new
    BY <2>1 DEF Carry
  <2>3. half = LeafMin /\ half \in Nat /\ half >= 1 /\ half + 1 <= Len(keys) /\ half < LeafMax
    BY <1>4, Sizes DEF LeafMin
  <2>4. new \in PageId /\ new \notin DOMAIN pgs /\ new # NoPage /\ new # p
    <3>1. Refs(pgs)
      BY ShapedRefs
    <3> QED BY <1>0, <3>1, FreshPage
  <2> HIDE DEF new, half, c
  <2>5. half + 1 \in DOMAIN keys /\ m \in Key /\ m \in Nat /\ 1 \in DOMAIN keys /\ keys[1] < m
    <3>1. half + 1 \in DOMAIN keys /\ 1 \in DOMAIN keys /\ 1 < half + 1
      BY <1>1, <2>3
    <3> QED BY <1>1, <1>2, <3>1 DEF Ascending
  <2>6. m # 0 /\ lo[p] < m /\ Under(m, hi[p])
    <3>1. keys[1] \in Nat /\ lo[p] <= keys[1] /\ lo[p] \in Nat /\ Under(m, hi[p])
      BY <1>0, <1>1, <1>2, <2>5 DEF Covers
    <3> QED BY <2>5, <3>1
  <2>7. /\ DOMAIN pgs2 = DOMAIN pgs \cup {new}
        /\ pgs2[p] = a /\ pgs2[new] = b /\ \A q \in DOMAIN pgs : q # p => pgs2[q] = pgs[q]
    BY <2>4 DEF With
  <2>8. /\ lo2[new] = m /\ \A q \in DOMAIN pgs : lo2[q] = lo[q]
        /\ hi2[p] = m /\ hi2[new] = hi[p] /\ \A q \in DOMAIN pgs : q # p => hi2[q] = hi[q]
        /\ lev2[new] = lev[p] /\ \A q \in DOMAIN pgs : lev2[q] = lev[q]
    BY <1>0, <2>4 DEF SplitLo, SplitHi, SplitLev
  <2>9. /\ a.keys \in Seq(Key) /\ Len(a.keys) = half /\ Ascending(a.keys)
        /\ \A i \in DOMAIN a.keys : a.keys[i] = keys[i] /\ i \in DOMAIN keys /\ i < half + 1
        /\ a.leaf /\ a.kids = <<>> /\ a.next = new /\ a.keys = SubSeq(keys, 1, half)
    <3> DEFINE t == SubSeq(keys, 1, half)
    <3>1. /\ t \in Seq(Key) /\ Len(t) = half - 1 + 1 /\ Ascending(t) /\ DOMAIN t = 1..(half - 1 + 1)
          /\ \A n \in DOMAIN t : t[n] = keys[1 + n - 1] /\ 1 + n - 1 \in DOMAIN keys
      <4> HIDE DEF keys
      <4> QED BY <1>1, <1>2, <2>3, LeafPart
    <3>2. a.keys = t /\ a.leaf /\ a.kids = <<>> /\ a.next = new
      BY DEF Leaf
    <3> HIDE DEF t, keys, a
    <3>3. Len(t) = half /\ DOMAIN t = 1..half
      BY <2>3, <3>1
    <3>4. \A n \in DOMAIN t : 1 + n - 1 = n /\ n < half + 1
      BY <2>3, <3>3
    <3>5. \A n \in DOMAIN t : t[n] = keys[n] /\ n \in DOMAIN keys /\ n < half + 1
      BY <3>1, <3>4
    <3> QED BY <3>1, <3>2, <3>3, <3>5 DEF t
  <2>10. /\ b.keys \in Seq(Key) /\ Len(b.keys) = LeafMax - half /\ Ascending(b.keys)
         /\ \A i \in DOMAIN b.keys : /\ b.keys[i] = keys[half + i] /\ half + i \in DOMAIN keys
                                     /\ i \in Nat /\ i >= 1
         /\ b.leaf /\ b.kids = <<>> /\ b.next = pgs[p].next /\ b.keys = SubSeq(keys, half + 1, Len(keys))
    <3> DEFINE t == SubSeq(keys, half + 1, Len(keys))
    <3>1. /\ t \in Seq(Key) /\ Len(t) = Len(keys) - (half + 1) + 1 /\ Ascending(t)
          /\ DOMAIN t = 1..(Len(keys) - (half + 1) + 1)
          /\ \A n \in DOMAIN t : t[n] = keys[(half + 1) + n - 1] /\ (half + 1) + n - 1 \in DOMAIN keys
      <4>1. keys \in Seq(Key) /\ Ascending(keys) /\ Len(keys) \in Nat
        BY <1>1, <1>2, LenProperties
      <4>2. half + 1 \in Nat \ {0} /\ half + 1 <= Len(keys) + 1 /\ Len(keys) <= Len(keys)
        BY <1>1, <1>2, <2>3
      <4> HIDE DEF keys
      <4> QED BY <4>1, <4>2, LeafPart
    <3>2. b.keys = t /\ b.leaf /\ b.kids = <<>> /\ b.next = pgs[p].next
      BY DEF Leaf
    <3> HIDE DEF t, keys, b
    <3>3. Len(t) = LeafMax - half
      BY <1>1, <1>4, <2>3, <3>1
    <3>4. \A n \in DOMAIN t : (half + 1) + n - 1 = half + n /\ n \in Nat /\ n >= 1
      BY <1>1, <2>3, <3>1
    <3>5. \A n \in DOMAIN t : t[n] = keys[half + n] /\ half + n \in DOMAIN keys
      BY <3>1, <3>4
    <3> QED BY <3>1, <3>2, <3>3, <3>4, <3>5 DEF t
  <2>11. a \in Page /\ b \in Page
    BY <1>1, <2>4, <2>9, <2>10 DEF Page, Leaf
  <2> HIDE DEF a, b, pgs2, lo2, hi2, lev2, m
  <2>12. LeafShape(pgs, lo, hi, lev, p)
    BY <1>0 DEF PageShape, InnerShape
  <2>13. PageShape(pgs2, lo2, hi2, lev2, p, new, p)
    <3>1. LeafShape(pgs2, lo2, hi2, lev2, p)
      BY <2>4, <2>6, <2>7, <2>8, <2>9, <2>12 DEF LeafShape
    <3>2. ASSUME NEW i \in DOMAIN a.keys PROVE Covers(lo2, hi2, p, a.keys[i])
      <4>1. a.keys[i] = keys[i] /\ i \in DOMAIN keys /\ keys[i] < m /\ lo[p] <= keys[i]
        BY <1>2, <2>5, <2>9 DEF Ascending, Covers, m
      <4> QED BY <2>8, <4>1 DEF Covers, Under
    <3>3. Under(lo2[p], hi2[p])
      BY <2>6, <2>8 DEF Under
    <3> QED BY <2>7, <2>9, <2>11, <3>1, <3>2, <3>3 DEF PageShape
  <2>14. PageShape(pgs2, lo2, hi2, lev2, p, new, new)
    <3>1. LeafShape(pgs2, lo2, hi2, lev2, new)
      <4>1. b.next = NoPage <=> hi[p] = 0
        BY <2>10, <2>12 DEF LeafShape
      <4>2. ASSUME b.next # NoPage PROVE b.next \in DOMAIN pgs2 /\ lev2[b.next] = 0 /\ lo2[b.next] = hi[p]
        BY <2>7, <2>8, <2>10, <2>12, <4>2 DEF LeafShape
      <4>3. lev2[new] = 0
        BY <2>8, <2>12 DEF LeafShape
      <4> QED BY <2>7, <2>8, <2>10, <4>1, <4>2, <4>3 DEF LeafShape
    <3>2. ASSUME NEW i \in DOMAIN b.keys PROVE Covers(lo2, hi2, new, b.keys[i])
      <4>1. /\ b.keys[i] = keys[half + i] /\ half + i \in DOMAIN keys /\ keys[half + i] \in Nat
            /\ Under(keys[half + i], hi[p])
        BY <1>1, <1>2, <2>10 DEF Covers
      <4>2. m <= keys[half + i]
        <5>1. CASE i = 1
          BY <2>5, <5>1 DEF m
        <5>2. CASE i # 1
          <6>1. half + 1 < half + i
            BY <2>3, <2>10, <5>2
          <6>2. keys[half + 1] < keys[half + i]
            BY <1>2, <2>5, <4>1, <6>1 DEF Ascending
          <6> QED BY <2>5, <4>1, <6>2 DEF m
        <5> QED BY <5>1, <5>2
      <4> QED BY <2>8, <4>1, <4>2 DEF Covers
    <3>3. Under(lo2[new], hi2[new])
      BY <2>6, <2>8
    <3> QED BY <2>7, <2>10, <2>11, <3>1, <3>2, <3>3 DEF PageShape
  <2>15. Shaped(pgs2, root, lo2, hi2, lev2, p, new)
    <3>1. \A q \in DOMAIN pgs : \A i \in DOMAIN pgs[q].kids : pgs[q].kids[i] # NoPage
      <4> SUFFICES ASSUME NEW q \in DOMAIN pgs PROVE \A i \in DOMAIN pgs[q].kids : pgs[q].kids[i] # NoPage
        OBVIOUS
      <4>1. PageShape(pgs, lo, hi, lev, NoPage, NoPage, q)
        BY DEF Shaped
      <4> QED BY <4>1, PageFields, PageIds
    <3> QED BY <2>4, <2>5, <2>6, <2>13, <2>14, <3>1, SplitShaped DEF pgs2, lo2, hi2, lev2
  <2>16. ASSUME NEW q \in DOMAIN pgs2 PROVE Filled(pgs2, root, p, q)
    <3>1. CASE q = p
      BY <2>3, <2>7, <2>9, <3>1, Sizes DEF Filled
    <3>2. CASE q = new
      <4>1. LeafMax - half >= LeafMin /\ LeafMax - half < LeafMax
        BY <2>3, Sizes
      <4> QED BY <1>0, <2>4, <2>7, <2>10, <3>2, <4>1 DEF Filled
    <3>3. CASE q # p /\ q # new
      <4>1. q \in DOMAIN pgs /\ pgs2[q] = pgs[q] /\ Filled(pgs, root, NoPage, q) /\ q # NoPage
        BY <1>0, <2>7, <3>3, PageIds
      <4> QED BY <3>3, <4>1 DEF Filled
    <3> QED BY <3>1, <3>2, <3>3
  <2>17. Tree(pgs2, root, lo2, hi2, lev2, p, new)
    BY <2>15, <2>16 DEF Tree
  <2>18. Stored(pgs2) = Stored(pgs)
    <3>1. Range(a.keys) \cup Range(b.keys) = Range(keys)
      <4>1. half \in 0..Len(keys)
        BY <1>1, <2>3
      <4> HIDE DEF keys
      <4> QED BY <1>1, <2>9, <2>10, <4>1, RangeOfParts
    <3>2. ASSUME NEW q \in DOMAIN pgs, pgs[q].leaf, NEW k \in Range(pgs[q].keys) PROVE k \in Stored(pgs2)
      <4>1. CASE q = p
        <5>1. k \in Range(a.keys) \/ k \in Range(b.keys)
          BY <3>1, <3>2, <4>1
        <5>2. /\ p \in DOMAIN pgs2 /\ pgs2[p].leaf /\ Range(pgs2[p].keys) = Range(a.keys)
              /\ new \in DOMAIN pgs2 /\ pgs2[new].leaf /\ Range(pgs2[new].keys) = Range(b.keys)
          BY <2>7, <2>9, <2>10
        <5> QED BY <5>1, <5>2 DEF Stored
      <4>2. CASE q # p
        BY <2>7, <3>2, <4>2 DEF Stored
      <4> QED BY <4>1, <4>2
    <3>3. ASSUME NEW q \in DOMAIN pgs2, pgs2[q].leaf, NEW k \in Range(pgs2[q].keys) PROVE k \in Stored(pgs)
      <4>1. CASE q = p \/ q = new
        BY <2>7, <3>1, <3>3, <4>1 DEF Stored
      <4>2. CASE q # p /\ q # new
        BY <2>7, <3>3, <4>2 DEF Stored
      <4> QED BY <4>1, <4>2
    <3> QED BY <3>2, <3>3 DEF Stored
  <2>19. /\ c.key = hi2[p] /\ c.key \in Key /\ \A q \in DOMAIN pgs : lev2[q] = lev[q]
    BY <2>2, <2>5, <2>8
  <2>20. \E lo3, hi3, lev3 : /\ Tree(c.pages, root, lo3, hi3, lev3, p, c.page)
                             /\ c.key = hi3[p] /\ c.key \in Key
                             /\ \A q \in DOMAIN pgs : lev3[q] = lev[q]
    BY <2>2, <2>17, <2>19
  <2>21. Passed(c, pgs, root, lo, hi, lev, p)
    BY <2>2, <2>4, <2>7, <2>18, <2>20 DEF Passed
  <2> QED BY <2>21 DEF c
<1> QED BY <1>3, <1>4

-----------------------------------------------------------------------------
(* Internal pages. *)

\* The separators keys are the bounds of the children kids of a page that
\* covers l up to h; up has the upper bounds of the children.
Spans(keys, kids, l, h, lo, up) ==
    /\ keys \in Seq(Key) /\ kids \in Seq(PageId) /\ Len(kids) = Len(keys) + 1
    /\ Ascending(keys)
    /\ \A i \in DOMAIN keys : l < keys[i] /\ Under(keys[i], h)
    /\ \A i \in DOMAIN kids :
          /\ lo[kids[i]] = (IF i = 1 THEN l ELSE keys[i - 1])
          /\ up[kids[i]] = (IF i = Len(kids) THEN h ELSE keys[i])

\* The domains of its sequences.
LEMMA SpansTyped ==
    ASSUME NEW keys, NEW kids, NEW l, NEW h, NEW lo, NEW up, Spans(keys, kids, l, h, lo, up)
    PROVE  /\ keys \in Seq(Key) /\ keys \in Seq(Nat) /\ Len(keys) \in Nat /\ DOMAIN keys = 1..Len(keys)
           /\ kids \in Seq(PageId) /\ Len(kids) = Len(keys) + 1 /\ DOMAIN kids = 1..(Len(keys) + 1)
           /\ \A i \in 1..Len(keys) : keys[i] \in Key /\ keys[i] \in Nat
           /\ \A i \in 1..(Len(keys) + 1) : kids[i] \in PageId
<1>1. keys \in Seq(Key) /\ kids \in Seq(PageId) /\ Len(kids) = Len(keys) + 1
  BY DEF Spans
<1>2. Len(keys) \in Nat /\ DOMAIN keys = 1..Len(keys) /\ DOMAIN kids = 1..Len(kids)
  BY <1>1, LenProperties
<1>3. keys \in Seq(Nat)
  BY <1>1, TreeBounds, SeqMonotonic
<1> QED BY <1>1, <1>2, <1>3, ElementOfSeq, TreeBounds

\* The separators of an internal page.
LEMMA InnerSpans ==
    ASSUME NEW pgs, NEW root, NEW lo, NEW hi, NEW lev, NEW x, NEW y,
           Shaped(pgs, root, lo, hi, lev, x, y), NEW p \in DOMAIN pgs, ~pgs[p].leaf,
           NEW up, \A q \in PageId : up[q] = Wide(hi, x, y, q)
    PROVE  /\ Spans(pgs[p].keys, pgs[p].kids, lo[p], hi[p], lo, up)
           /\ pgs[p].next = NoPage /\ lev[p] > 0
           /\ \A i \in DOMAIN pgs[p].kids : pgs[p].kids[i] \in DOMAIN pgs /\ lev[pgs[p].kids[i]] + 1 = lev[p]
<1>1. PageShape(pgs, lo, hi, lev, x, y, p)
  BY DEF Shaped
<1>2. InnerShape(pgs, lo, hi, lev, x, y, p)
  BY <1>1 DEF PageShape, LeafShape
<1>3. /\ pgs[p].keys \in Seq(Key) /\ pgs[p].kids \in Seq(PageId)
      /\ \A i \in DOMAIN pgs[p].kids : pgs[p].kids[i] \in PageId
  BY <1>1, PageFields
<1>4. /\ Ascending(pgs[p].keys) /\ Len(pgs[p].kids) = Len(pgs[p].keys) + 1
      /\ \A i \in DOMAIN pgs[p].keys : lo[p] < pgs[p].keys[i] /\ Under(pgs[p].keys[i], hi[p])
  BY <1>1, <1>2 DEF PageShape, InnerShape, Covers
<1>5. ASSUME NEW i \in DOMAIN pgs[p].kids
      PROVE  /\ lo[pgs[p].kids[i]] = (IF i = 1 THEN lo[p] ELSE pgs[p].keys[i - 1])
             /\ up[pgs[p].kids[i]] = (IF i = Len(pgs[p].kids) THEN hi[p] ELSE pgs[p].keys[i])
             /\ pgs[p].kids[i] \in DOMAIN pgs /\ lev[pgs[p].kids[i]] + 1 = lev[p]
  BY <1>2, <1>3 DEF InnerShape
<1>6. pgs[p].next = NoPage /\ lev[p] > 0
  BY <1>2 DEF InnerShape
<1>7. Spans(pgs[p].keys, pgs[p].kids, lo[p], hi[p], lo, up)
  BY <1>3, <1>4, <1>5 DEF Spans
<1> QED BY <1>5, <1>6, <1>7

\* And back: such a page is well formed.
LEMMA SpansInner ==
    ASSUME NEW pgs, NEW lo, NEW hi, NEW lev, NEW x, NEW y, NEW p, NEW keys, NEW kids,
           pgs[p] = Inner(keys, kids), lo[p] \in Nat, hi[p] \in Nat, Under(lo[p], hi[p]),
           NEW up, Spans(keys, kids, lo[p], hi[p], lo, up),
           \A i \in DOMAIN kids : /\ kids[i] \in DOMAIN pgs /\ lev[kids[i]] \in Nat
                                  /\ lev[kids[i]] + 1 = lev[p] /\ Wide(hi, x, y, kids[i]) = up[kids[i]]
    PROVE  PageShape(pgs, lo, hi, lev, x, y, p)
<1>1. /\ pgs[p].keys = keys /\ pgs[p].kids = kids /\ ~pgs[p].leaf /\ pgs[p].next = NoPage
      /\ pgs[p] = [leaf |-> FALSE, keys |-> keys, kids |-> kids, next |-> NoPage]
  BY DEF Inner
<1>2. /\ keys \in Seq(Key) /\ Len(keys) \in Nat /\ DOMAIN keys = 1..Len(keys)
      /\ kids \in Seq(PageId) /\ Len(kids) = Len(keys) + 1 /\ DOMAIN kids = 1..(Len(keys) + 1)
      /\ \A i \in 1..Len(keys) : keys[i] \in Nat
  BY SpansTyped
<1>3. pgs[p] \in Page
  BY <1>1, <1>2 DEF Page
<1>4. /\ Ascending(keys) /\ \A i \in DOMAIN keys : lo[p] < keys[i] /\ Under(keys[i], hi[p])
  BY DEF Spans
<1>5. \A i \in DOMAIN keys : Covers(lo, hi, p, keys[i])
  BY <1>2, <1>4 DEF Covers
<1>6. lev[p] > 0
  <2>1. 1 \in DOMAIN kids
    BY <1>2
  <2> QED BY <2>1
<1>7. ASSUME NEW i \in DOMAIN kids
      PROVE  /\ kids[i] \in DOMAIN pgs /\ lev[kids[i]] + 1 = lev[p]
             /\ lo[kids[i]] = (IF i = 1 THEN lo[p] ELSE keys[i - 1])
             /\ Wide(hi, x, y, kids[i]) = (IF i = Len(kids) THEN hi[p] ELSE keys[i])
  BY DEF Spans
<1>8. InnerShape(pgs, lo, hi, lev, x, y, p)
  BY <1>1, <1>2, <1>4, <1>6, <1>7 DEF InnerShape
<1> QED BY <1>1, <1>3, <1>4, <1>5, <1>8 DEF PageShape

\* r is s with x more, in place i.
Grown(r, s, i, x) ==
    /\ Len(r) = Len(s) + 1 /\ DOMAIN r = 1..(Len(s) + 1)
    /\ \A j \in 1..(Len(s) + 1) : r[j] = IF j < i THEN s[j] ELSE IF j = i THEN x ELSE s[j - 1]

LEMMA InsertGrown ==
    ASSUME NEW T, NEW s \in Seq(T), NEW x \in T, NEW i \in 1..(Len(s) + 1)
    PROVE  InsertAt(s, i, x) \in Seq(T) /\ Grown(InsertAt(s, i, x), s, i, x)
<1>1. InsertAt(s, i, x) \in Seq(T)
  BY InsertedAt
<1>2. Len(InsertAt(s, i, x)) = Len(s) + 1 /\ DOMAIN InsertAt(s, i, x) = 1..(Len(s) + 1)
  BY InsertedAt
<1>3. \A j \in 1..(Len(s) + 1) :
         InsertAt(s, i, x)[j] = IF j < i THEN s[j] ELSE IF j = i THEN x ELSE s[j - 1]
  BY InsertedAt
<1> QED BY <1>1, <1>2, <1>3 DEF Grown

\* The child kids[j] has been split at key; its right half is y.
LEMMA SpansInsert ==
    ASSUME NEW keys, NEW kids, NEW l, NEW h, NEW lo, NEW up, NEW hi,
           Spans(keys, kids, l, h, lo, up), l \in Nat, NEW j \in DOMAIN kids,
           \A i \in DOMAIN kids : i # j => up[kids[i]] = hi[kids[i]],
           NEW y \in PageId, NEW key \in Key, hi[kids[j]] = key, lo[y] = key, hi[y] = up[kids[j]],
           lo[kids[j]] < key, Under(key, hi[y]), Under(key, h), l < key,
           NEW ks \in Seq(Key), Grown(ks, keys, j, key),
           NEW cs \in Seq(PageId), Grown(cs, kids, j + 1, y)
    PROVE  /\ UpTo(keys, key) = j - 1
           /\ Spans(ks, cs, l, h, lo, hi)
           /\ Range(cs) = Range(kids) \cup {y}
<1> DEFINE n == Len(keys)
<1>0. /\ keys \in Seq(Key) /\ keys \in Seq(Nat) /\ n \in Nat /\ DOMAIN keys = 1..n
      /\ kids \in Seq(PageId) /\ Len(kids) = n + 1 /\ DOMAIN kids = 1..(n + 1)
      /\ \A i \in 1..n : keys[i] \in Key /\ keys[i] \in Nat
      /\ \A i \in 1..(n + 1) : kids[i] \in PageId
      /\ key \in Nat /\ j \in 1..(n + 1)
  BY SpansTyped, TreeBounds
<1>1. /\ Ascending(keys) /\ \A i \in 1..n : l < keys[i] /\ Under(keys[i], h)
      /\ \A i \in 1..(n + 1) : /\ lo[kids[i]] = (IF i = 1 THEN l ELSE keys[i - 1])
                               /\ up[kids[i]] = (IF i = n + 1 THEN h ELSE keys[i])
  <2>1. Ascending(keys) /\ \A i \in DOMAIN keys : l < keys[i] /\ Under(keys[i], h)
    BY DEF Spans
  <2>2. \A i \in DOMAIN kids : /\ lo[kids[i]] = (IF i = 1 THEN l ELSE keys[i - 1])
                               /\ up[kids[i]] = (IF i = Len(kids) THEN h ELSE keys[i])
    BY DEF Spans
  <2>3. DOMAIN keys = 1..n /\ DOMAIN kids = 1..(n + 1) /\ Len(kids) = n + 1
    BY <1>0
  <2> QED BY ONLY <2>1, <2>2, <2>3
<1>a. \A a, b \in 1..n : a < b => keys[a] < keys[b]
  BY <1>0, <1>1 DEF Ascending
<1>2. /\ ks \in Seq(Key) /\ Len(ks) = n + 1 /\ DOMAIN ks = 1..(n + 1)
      /\ \A i \in 1..(n + 1) : ks[i] = IF i < j THEN keys[i] ELSE IF i = j THEN key ELSE keys[i - 1]
      /\ cs \in Seq(PageId) /\ Len(cs) = n + 2 /\ DOMAIN cs = 1..(n + 2)
      /\ \A i \in 1..(n + 2) : cs[i] = IF i < j + 1 THEN kids[i] ELSE IF i = j + 1 THEN y ELSE kids[i - 1]
  <2>1. /\ Len(ks) = n + 1 /\ DOMAIN ks = 1..(n + 1)
        /\ \A i \in 1..(n + 1) : ks[i] = IF i < j THEN keys[i] ELSE IF i = j THEN key ELSE keys[i - 1]
    BY DEF Grown
  <2>2. /\ Len(cs) = Len(kids) + 1 /\ DOMAIN cs = 1..(Len(kids) + 1)
        /\ \A i \in 1..(Len(kids) + 1) :
              cs[i] = IF i < j + 1 THEN kids[i] ELSE IF i = j + 1 THEN y ELSE kids[i - 1]
    BY DEF Grown
  <2>3. Len(kids) + 1 = n + 2
    BY <1>0
  <2> QED BY <2>1, <2>2, <2>3
<1> HIDE DEF n
<1>b. n \in Nat /\ j \in 1..(n + 1) /\ j \in Nat /\ key \in Nat
  BY <1>0
<1>4. \A i \in 1..n : IF i <= j - 1 THEN keys[i] < key ELSE key < keys[i]
  <2> SUFFICES ASSUME NEW i \in 1..n PROVE IF i <= j - 1 THEN keys[i] < key ELSE key < keys[i]
    OBVIOUS
  <2>1. CASE i <= j - 1
    <3>0. /\ j # 1 /\ j - 1 \in 1..n /\ j \in 1..(n + 1)
          /\ keys[i] \in Nat /\ keys[j - 1] \in Nat /\ key \in Nat
      <4>1. j # 1 /\ j - 1 \in 1..n /\ j \in 1..(n + 1)
        BY ONLY <1>b, <2>1, i \in 1..n
      <4> QED BY <1>0, <4>1
    <3>1. lo[kids[j]] = keys[j - 1] /\ keys[j - 1] < key
      BY <1>1, <3>0
    <3>2. i = j - 1 \/ keys[i] < keys[j - 1]
      <4>1. i = j - 1 \/ i < j - 1
        BY ONLY <1>b, <2>1, i \in 1..n
      <4> QED BY <1>a, <3>0, <4>1
    <3> QED BY ONLY <2>1, <3>0, <3>1, <3>2
  <2>2. CASE i >= j
    <3>0. j # n + 1 /\ j \in 1..n
      BY ONLY <1>b, <2>2, i \in 1..n
    <3>1. j # n + 1 /\ j \in 1..n /\ hi[y] = keys[j] /\ keys[i] \in Nat /\ keys[j] \in Nat
      BY <1>0, <1>1, <3>0
    <3>2. key < keys[j]
      <4>1. l < keys[j] /\ keys[j] \in Nat
        BY <1>0, <1>1, <3>1
      <4>2. keys[j] # 0
        BY <4>1
      <4> QED BY <3>1, <4>2 DEF Under
    <3>3. i = j \/ keys[j] < keys[i]
      <4>1. i = j \/ j < i
        BY ONLY <1>b, <2>2, i \in 1..n
      <4> QED BY <1>a, <3>1, <4>1
    <3> QED BY ONLY <1>b, <2>2, <3>1, <3>2, <3>3, i \in 1..n
  <2>3. i <= j - 1 \/ i >= j
    BY ONLY <1>b, i \in 1..n
  <2> QED BY <2>1, <2>2, <2>3
<1>5. UpTo(keys, key) = j - 1
  <2>1. j - 1 \in 0..Len(keys)
    BY <1>0 DEF n
  <2>2. /\ \A i \in 1..(j - 1) : keys[i] <= key
        /\ \A i \in ((j - 1) + 1)..Len(keys) : key < keys[i]
    <3>1. \A i \in 1..(j - 1) : i \in 1..n /\ i <= j - 1
      BY ONLY <1>b
    <3>2. \A i \in ((j - 1) + 1)..n : i \in 1..n /\ ~(i <= j - 1)
      BY ONLY <1>b
    <3>3. \A i \in 1..(j - 1) : keys[i] <= key
      <4> TAKE i \in 1..(j - 1)
      <4>1. keys[i] < key /\ keys[i] \in Nat
        BY <1>0, <1>4, <3>1
      <4> QED BY ONLY <1>b, <4>1
    <3>4. \A i \in ((j - 1) + 1)..n : key < keys[i]
      BY <1>4, <3>2
    <3> QED BY <3>3, <3>4 DEF n
  <2> QED BY <1>0, <2>1, <2>2, CountedUpTo
<1>6. Ascending(ks)
  <2> SUFFICES ASSUME NEW a \in 1..(n + 1), NEW b \in 1..(n + 1), a < b PROVE ks[a] < ks[b]
    BY <1>2 DEF Ascending
  <2>1. CASE b < j
    <3>1. a \in 1..n /\ b \in 1..n /\ ks[a] = keys[a] /\ ks[b] = keys[b]
      BY <1>0, <1>2, <2>1
    <3> QED BY <1>a, <1>2, <3>1
  <2>2. CASE b = j
    <3>1. a \in 1..n /\ a <= j - 1 /\ ks[a] = keys[a] /\ ks[b] = key
      BY <1>0, <1>2, <2>2
    <3> QED BY <1>4, <3>1
  <2>3. CASE b > j
    <3>1. b - 1 \in 1..n /\ ks[b] = keys[b - 1] /\ ~(b - 1 <= j - 1)
      BY <1>0, <1>2, <2>3
    <3>2. CASE a < j
      <4>0. a \in 1..n /\ a < b - 1
        BY <1>0, <2>3, <3>2
      <4>1. a \in 1..n /\ ks[a] = keys[a] /\ a < b - 1
        BY <1>2, <3>2, <4>0
      <4> QED BY <1>a, <3>1, <4>1
    <3>3. CASE a = j
      <4>1. ks[a] = key
        BY <1>0, <1>2, <3>3
      <4> QED BY <1>4, <3>1, <4>1
    <3>4. CASE a > j
      <4>0. a - 1 \in 1..n /\ a - 1 < b - 1 /\ ~(a < j) /\ a # j
        BY ONLY <1>b, <3>4, a \in 1..(n + 1), b \in 1..(n + 1), a < b
      <4>1. a - 1 \in 1..n /\ ks[a] = keys[a - 1] /\ a - 1 < b - 1
        BY <1>2, <4>0
      <4> QED BY <1>a, <3>1, <4>1
    <3> QED BY <1>0, <3>2, <3>3, <3>4
  <2> QED BY <1>0, <2>1, <2>2, <2>3
<1>7. ASSUME NEW i \in 1..(n + 1) PROVE l < ks[i] /\ Under(ks[i], h)
  <2>1. CASE i < j
    BY <1>0, <1>1, <1>2, <2>1
  <2>2. CASE i = j
    BY <1>2, <2>2
  <2>3. CASE i > j
    <3>1. i - 1 \in 1..n /\ ks[i] = keys[i - 1]
      BY <1>0, <1>2, <2>3
    <3> QED BY <1>1, <3>1
  <2> QED BY <1>0, <2>1, <2>2, <2>3
<1>8. ASSUME NEW i \in 1..(n + 2)
      PROVE  /\ lo[cs[i]] = (IF i = 1 THEN l ELSE ks[i - 1])
             /\ hi[cs[i]] = (IF i = n + 2 THEN h ELSE ks[i])
  <2>1. CASE i < j
    <3>0. i \in 1..(n + 1) /\ i \in 1..n /\ i # j /\ i # n + 2 /\ i # n + 1 /\ i < j + 1
      BY <1>0, <2>1
    <3>1. i \in 1..(n + 1) /\ i \in 1..n /\ cs[i] = kids[i] /\ i # j /\ ks[i] = keys[i] /\ i # n + 2 /\ i # n + 1
      BY <1>2, <2>1, <3>0
    <3>2. ASSUME i # 1 PROVE ks[i - 1] = keys[i - 1]
      <4>1. i - 1 \in 1..(n + 1) /\ i - 1 < j
        BY <1>0, <2>1, <3>2
      <4> QED BY <1>2, <4>1
    <3>3. lo[cs[i]] = (IF i = 1 THEN l ELSE ks[i - 1])
      <4>1. lo[kids[i]] = (IF i = 1 THEN l ELSE keys[i - 1])
        BY <1>1, <3>0
      <4> QED BY <3>1, <3>2, <4>1
    <3>4. hi[cs[i]] = ks[i]
      <4>1. hi[kids[i]] = up[kids[i]]
        BY <1>0, <3>0
      <4>2. up[kids[i]] = keys[i]
        BY <1>1, <3>0
      <4> QED BY <3>1, <4>1, <4>2
    <3> QED BY <3>0, <3>3, <3>4
  <2>2. CASE i = j
    <3>1. i \in 1..(n + 1) /\ cs[i] = kids[i] /\ ks[i] = key /\ i # n + 2
      BY <1>0, <1>2, <2>2
    <3>2. i # 1 => ks[i - 1] = keys[i - 1]
      <4> SUFFICES ASSUME i # 1 PROVE ks[i - 1] = keys[i - 1]
        OBVIOUS
      <4>1. i - 1 \in 1..(n + 1) /\ i - 1 < j
        BY ONLY <1>b, <2>2, i \in 1..(n + 2), i # 1
      <4> QED BY <1>2, <4>1
    <3>3. lo[cs[i]] = (IF i = 1 THEN l ELSE ks[i - 1])
      BY <1>1, <3>1, <3>2
    <3>4. hi[cs[i]] = key
      BY <2>2, <3>1
    <3> QED BY <3>1, <3>3, <3>4
  <2>3. CASE i = j + 1
    <3>1. cs[i] = y /\ i # 1 /\ ks[i - 1] = key /\ lo[y] = key
      BY <1>0, <1>2, <2>3
    <3>2. hi[y] = (IF i = n + 2 THEN h ELSE ks[i])
      <4>1. CASE i = n + 2
        <5>1. j = n + 1 /\ j \in 1..(n + 1)
          BY <1>0, <2>3, <4>1
        <5> QED BY <1>1, <4>1, <5>1
      <4>2. CASE i # n + 2
        <5>1. j # n + 1 /\ ks[i] = keys[j] /\ j \in 1..(n + 1)
          BY <1>0, <1>2, <2>3, <4>2
        <5> QED BY <1>1, <4>2, <5>1
      <4> QED BY <4>1, <4>2
    <3> QED BY <3>1, <3>2
  <2>4. CASE i > j + 1
    <3>0. i - 1 \in 1..(n + 1) /\ i - 1 # j /\ i # 1 /\ i - 1 # 1 /\ ~(i < j + 1) /\ i # j + 1
      BY <1>0, <2>4
    <3>1. i - 1 \in 1..(n + 1) /\ cs[i] = kids[i - 1] /\ i - 1 # j /\ i # 1 /\ i - 1 # 1
      BY <1>2, <3>0
    <3>2. ks[i - 1] = keys[(i - 1) - 1]
      BY <1>0, <1>2, <2>4
    <3>3. i # n + 2 => ks[i] = keys[i - 1] /\ i - 1 # n + 1
      BY <1>0, <1>2, <2>4
    <3>4. hi[kids[i - 1]] = up[kids[i - 1]]
      BY <1>0, <3>1
    <3>5. i = n + 2 => i - 1 = n + 1
      BY <1>0
    <3> QED BY <1>1, <3>1, <3>2, <3>3, <3>4, <3>5
  <2> QED BY <1>0, <2>1, <2>2, <2>3, <2>4
<1>9. Spans(ks, cs, l, h, lo, hi)
  <2>1. Len(cs) = Len(ks) + 1
    BY <1>0, <1>2
  <2>2. DOMAIN ks = 1..(n + 1) /\ DOMAIN cs = 1..(n + 2) /\ Len(cs) = n + 2
    BY <1>2
  <2>3. \A i \in DOMAIN ks : l < ks[i] /\ Under(ks[i], h)
    BY <1>7, <2>2
  <2>4. \A i \in DOMAIN cs : /\ lo[cs[i]] = (IF i = 1 THEN l ELSE ks[i - 1])
                              /\ hi[cs[i]] = (IF i = Len(cs) THEN h ELSE ks[i])
    BY <1>8, <2>2
  <2> QED BY <1>6, <2>1, <2>3, <2>4 DEF Spans
<1>10. Range(cs) = Range(kids) \cup {y}
  <2>1. ASSUME NEW i \in 1..(n + 2) PROVE cs[i] \in Range(kids) \cup {y}
    <3>1. CASE i < j + 1
      <4>1. i \in DOMAIN kids /\ cs[i] = kids[i]
        BY <1>0, <1>2, <3>1
      <4> QED BY <4>1 DEF Range
    <3>2. CASE i = j + 1
      BY <1>0, <1>2, <3>2
    <3>3. CASE i > j + 1
      <4>1. i - 1 \in DOMAIN kids /\ cs[i] = kids[i - 1]
        BY <1>0, <1>2, <3>3
      <4> QED BY <4>1 DEF Range
    <3> QED BY <1>0, <3>1, <3>2, <3>3
  <2>2. ASSUME NEW i \in 1..(n + 1) PROVE kids[i] \in Range(cs)
    <3>1. CASE i < j + 1
      <4>1. i \in DOMAIN cs /\ cs[i] = kids[i]
        BY <1>0, <1>2, <3>1
      <4> QED BY <4>1 DEF Range
    <3>2. CASE i >= j + 1
      <4>1. i + 1 \in DOMAIN cs /\ cs[i + 1] = kids[(i + 1) - 1] /\ (i + 1) - 1 = i
        BY <1>0, <1>2, <3>2
      <4> QED BY <4>1 DEF Range
    <3> QED BY <1>0, <3>1, <3>2
  <2>3. y \in Range(cs)
    <3>1. j + 1 \in DOMAIN cs /\ cs[j + 1] = y
      BY <1>0, <1>2
    <3> QED BY <3>1 DEF Range
  <2>4. Range(cs) \subseteq Range(kids) \cup {y}
    <3>1. \A i \in DOMAIN cs : cs[i] \in Range(kids) \cup {y}
      BY <1>2, <2>1
    <3> QED BY <3>1 DEF Range
  <2>5. Range(kids) \subseteq Range(cs)
    <3>1. \A i \in DOMAIN kids : kids[i] \in Range(cs)
      BY <1>0, <2>2
    <3> QED BY <3>1 DEF Range
  <2> QED BY <2>3, <2>4, <2>5
<1> QED BY <1>5, <1>9, <1>10

\* The halves of an internal page.
LEMMA SpansSplit ==
    ASSUME NEW keys, NEW kids, NEW l, NEW h, NEW lo, NEW up,
           Spans(keys, kids, l, h, lo, up), NEW m \in Nat, m >= 1, m < Len(kids)
    PROVE  /\ m \in DOMAIN keys /\ keys[m] \in Key /\ l < keys[m] /\ Under(keys[m], h)
           /\ Spans(SubSeq(keys, 1, m - 1), SubSeq(kids, 1, m), l, keys[m], lo, up)
           /\ Spans(SubSeq(keys, m + 1, Len(keys)), SubSeq(kids, m + 1, Len(kids)), keys[m], h, lo, up)
           /\ Len(SubSeq(kids, 1, m)) = m /\ Len(SubSeq(kids, m + 1, Len(kids))) = Len(kids) - m
           /\ Range(SubSeq(kids, 1, m)) \subseteq Range(kids)
           /\ Range(SubSeq(kids, m + 1, Len(kids))) \subseteq Range(kids)
<1> DEFINE n  == Len(keys)
           k1 == SubSeq(keys, 1, m - 1)
           c1 == SubSeq(kids, 1, m)
           k2 == SubSeq(keys, m + 1, Len(keys))
           c2 == SubSeq(kids, m + 1, Len(kids))
<1>0. /\ keys \in Seq(Key) /\ n \in Nat /\ DOMAIN keys = 1..n
      /\ kids \in Seq(PageId) /\ Len(kids) = n + 1 /\ DOMAIN kids = 1..(n + 1)
      /\ \A i \in 1..n : keys[i] \in Key /\ keys[i] \in Nat
      /\ m \in 1..n
  <2>1. /\ keys \in Seq(Key) /\ n \in Nat /\ DOMAIN keys = 1..n
        /\ kids \in Seq(PageId) /\ Len(kids) = n + 1 /\ DOMAIN kids = 1..(n + 1)
        /\ \A i \in 1..n : keys[i] \in Key /\ keys[i] \in Nat
    BY SpansTyped
  <2> QED BY <2>1
<1>1. /\ Ascending(keys) /\ \A i \in 1..n : l < keys[i] /\ Under(keys[i], h)
      /\ \A i \in 1..(n + 1) : /\ lo[kids[i]] = (IF i = 1 THEN l ELSE keys[i - 1])
                               /\ up[kids[i]] = (IF i = n + 1 THEN h ELSE keys[i])
  <2>1. Ascending(keys) /\ \A i \in DOMAIN keys : l < keys[i] /\ Under(keys[i], h)
    BY DEF Spans
  <2>2. \A i \in DOMAIN kids : /\ lo[kids[i]] = (IF i = 1 THEN l ELSE keys[i - 1])
                               /\ up[kids[i]] = (IF i = Len(kids) THEN h ELSE keys[i])
    BY DEF Spans
  <2>3. DOMAIN keys = 1..n /\ DOMAIN kids = 1..(n + 1) /\ Len(kids) = n + 1
    BY <1>0
  <2> QED BY ONLY <2>1, <2>2, <2>3
<1>a. \A a, b \in 1..n : a < b => keys[a] < keys[b]
  BY <1>0, <1>1 DEF Ascending
<1>2. /\ k1 \in Seq(Key) /\ Len(k1) = m - 1 /\ Ascending(k1) /\ DOMAIN k1 = 1..(m - 1)
      /\ \A i \in 1..(m - 1) : k1[i] = keys[i] /\ i \in 1..n
  <2>1. /\ k1 \in Seq(Key) /\ Len(k1) = (m - 1) - 1 + 1 /\ Ascending(k1) /\ DOMAIN k1 = 1..((m - 1) - 1 + 1)
        /\ \A i \in DOMAIN k1 : k1[i] = keys[1 + i - 1] /\ 1 + i - 1 \in DOMAIN keys
    <3>1. m - 1 \in Nat /\ 1 <= (m - 1) + 1 /\ m - 1 <= Len(keys)
      BY <1>0
    <3> QED BY <1>0, <1>1, <3>1, LeafPart
  <2>2. (m - 1) - 1 + 1 = m - 1 /\ \A i \in 1..(m - 1) : 1 + i - 1 = i
    BY <1>0
  <2> HIDE DEF k1
  <2> QED BY <1>0, <2>1, <2>2
<1>3. /\ k2 \in Seq(Key) /\ Len(k2) = n - m /\ Ascending(k2) /\ DOMAIN k2 = 1..(n - m)
      /\ \A i \in 1..(n - m) : k2[i] = keys[m + i] /\ m + i \in 1..n
  <2>1. /\ k2 \in Seq(Key) /\ Len(k2) = Len(keys) - (m + 1) + 1 /\ Ascending(k2)
        /\ DOMAIN k2 = 1..(Len(keys) - (m + 1) + 1)
        /\ \A i \in DOMAIN k2 : k2[i] = keys[(m + 1) + i - 1] /\ (m + 1) + i - 1 \in DOMAIN keys
    <3>1. /\ m + 1 \in Nat \ {0} /\ m + 1 <= Len(keys) + 1 /\ Len(keys) \in Nat /\ Len(keys) <= Len(keys)
          /\ keys \in Seq(Key) /\ Ascending(keys)
      BY <1>0, <1>1
    <3> QED BY <3>1, LeafPart
  <2>2. n - (m + 1) + 1 = n - m /\ \A i \in 1..(n - m) : (m + 1) + i - 1 = m + i
    BY <1>0
  <2> HIDE DEF k2
  <2> QED BY <1>0, <2>1, <2>2
<1>4. /\ c1 \in Seq(PageId) /\ Len(c1) = m /\ DOMAIN c1 = 1..m
      /\ \A i \in 1..m : c1[i] = kids[i] /\ i \in 1..(n + 1)
  <2>1. /\ c1 \in Seq(PageId) /\ Len(c1) = m - 1 + 1 /\ DOMAIN c1 = 1..(m - 1 + 1)
        /\ \A i \in 1..(m - 1 + 1) : c1[i] = kids[1 + i - 1]
    <3>1. 1 \in Nat \ {0} /\ m <= Len(kids) /\ 1 <= m + 1
      BY <1>0
    <3> QED BY <1>0, <3>1, PartOf
  <2>2. m - 1 + 1 = m /\ \A i \in 1..m : 1 + i - 1 = i /\ i \in 1..(n + 1)
    BY <1>0
  <2> HIDE DEF c1
  <2> QED BY <2>1, <2>2
<1>5. /\ c2 \in Seq(PageId) /\ Len(c2) = n + 1 - m /\ DOMAIN c2 = 1..(n + 1 - m)
      /\ \A i \in 1..(n + 1 - m) : c2[i] = kids[m + i] /\ m + i \in 1..(n + 1)
  <2>1. /\ c2 \in Seq(PageId) /\ Len(c2) = Len(kids) - (m + 1) + 1 /\ DOMAIN c2 = 1..(Len(kids) - (m + 1) + 1)
        /\ \A i \in 1..(Len(kids) - (m + 1) + 1) : c2[i] = kids[(m + 1) + i - 1]
    <3>1. m + 1 \in Nat \ {0} /\ Len(kids) \in Nat /\ Len(kids) <= Len(kids) /\ m + 1 <= Len(kids) + 1
      BY <1>0
    <3> QED BY <1>0, <3>1, PartOf
  <2>2. /\ Len(kids) - (m + 1) + 1 = n + 1 - m
        /\ \A i \in 1..(n + 1 - m) : (m + 1) + i - 1 = m + i /\ m + i \in 1..(n + 1)
    BY <1>0
  <2> HIDE DEF c2
  <2> QED BY <2>1, <2>2
<1> HIDE DEF k1, k2, c1, c2, n
<1>b. n \in Nat /\ m \in 1..n /\ m \in Nat
  BY <1>0
<1>6. /\ m \in DOMAIN keys /\ keys[m] \in Key /\ l < keys[m] /\ Under(keys[m], h) /\ keys[m] \in Nat
  BY <1>0, <1>1
<1>7. Spans(k1, c1, l, keys[m], lo, up)
  <2>1. ASSUME NEW i \in DOMAIN k1 PROVE l < k1[i] /\ Under(k1[i], keys[m])
    <3>1. k1[i] = keys[i] /\ i \in 1..n /\ i < m
      BY <1>0, <1>2, <2>1
    <3>2. i \in DOMAIN keys /\ l < keys[i]
      BY <1>0, <1>1, <3>1
    <3>3. keys[i] < keys[m]
      BY <1>a, <1>b, <3>1
    <3> QED BY <3>1, <3>2, <3>3 DEF Under
  <2>2. ASSUME NEW i \in DOMAIN c1
        PROVE  /\ lo[c1[i]] = (IF i = 1 THEN l ELSE k1[i - 1])
               /\ up[c1[i]] = (IF i = Len(c1) THEN keys[m] ELSE k1[i])
    <3>1. c1[i] = kids[i] /\ i \in 1..(n + 1) /\ i \in 1..m /\ Len(c1) = m /\ i # n + 1
      BY <1>0, <1>4, <2>2
    <3>2. i # 1 => k1[i - 1] = keys[i - 1]
      BY <1>0, <1>2, <3>1
    <3>3. i # m => k1[i] = keys[i]
      BY <1>0, <1>2, <3>1
    <3> QED BY <1>1, <3>1, <3>2, <3>3
  <2>3. Len(c1) = Len(k1) + 1
    BY <1>0, <1>2, <1>4
  <2> QED BY <1>2, <1>4, <2>1, <2>2, <2>3 DEF Spans
<1>8. Spans(k2, c2, keys[m], h, lo, up)
  <2>1. ASSUME NEW i \in DOMAIN k2 PROVE keys[m] < k2[i] /\ Under(k2[i], h)
    <3>1. i \in 1..(n - m)
      BY <1>3
    <3>2. k2[i] = keys[m + i] /\ m + i \in 1..n /\ m < m + i
      <4>1. m < m + i
        BY ONLY <1>b, <3>1
      <4> QED BY <1>3, <3>1, <4>1
    <3> QED BY <1>1, <1>a, <1>b, <3>2
  <2>2. ASSUME NEW i \in DOMAIN c2
        PROVE  /\ lo[c2[i]] = (IF i = 1 THEN keys[m] ELSE k2[i - 1])
               /\ up[c2[i]] = (IF i = Len(c2) THEN h ELSE k2[i])
    <3>1. c2[i] = kids[m + i] /\ m + i \in 1..(n + 1) /\ i \in 1..(n + 1 - m) /\ m + i # 1
      BY <1>0, <1>5, <2>2
    <3>2. ASSUME i # 1 PROVE k2[i - 1] = keys[(m + i) - 1]
      <4>1. i - 1 \in 1..(n - m) /\ m + (i - 1) = (m + i) - 1
        <5>1. i \in 1..(n + 1 - m)
          BY <3>1
        <5> QED BY ONLY <1>b, <3>2, <5>1
      <4> QED BY <1>3, <4>1
    <3>3. i = 1 => (m + i) - 1 = m
      BY <1>0
    <3>4. ASSUME i # Len(c2) PROVE k2[i] = keys[m + i] /\ m + i # n + 1
      <4>1. i \in 1..(n - m) /\ m + i # n + 1
        BY <1>0, <1>5, <3>4
      <4> QED BY <1>3, <4>1
    <3>5. i = Len(c2) => m + i = n + 1
      BY <1>0, <1>5
    <3> QED BY <1>1, <3>1, <3>2, <3>3, <3>4, <3>5
  <2>3. Len(c2) = Len(k2) + 1
    BY <1>0, <1>3, <1>5
  <2> QED BY <1>3, <1>5, <2>1, <2>2, <2>3 DEF Spans
<1>9. Len(c1) = m /\ Len(c2) = Len(kids) - m
  BY <1>0, <1>4, <1>5
<1>10. Range(c1) \subseteq Range(kids) /\ Range(c2) \subseteq Range(kids)
  <2>1. \A i \in DOMAIN c1 : i \in DOMAIN kids /\ c1[i] = kids[i]
    BY <1>0, <1>4
  <2>2. \A i \in DOMAIN c2 : m + i \in DOMAIN kids /\ c2[i] = kids[m + i]
    BY <1>0, <1>5
  <2> QED BY <2>1, <2>2 DEF Range
<1> QED BY <1>6, <1>7, <1>8, <1>9, <1>10 DEF k1, k2, c1, c2

-----------------------------------------------------------------------------
(* A split goes up. *)

\* Only the bounds of the children matter.
LEMMA SpansSame ==
    ASSUME NEW keys, NEW kids, NEW l, NEW h, NEW lo, NEW up, Spans(keys, kids, l, h, lo, up),
           NEW lo2, NEW up2, \A i \in DOMAIN kids : lo2[kids[i]] = lo[kids[i]] /\ up2[kids[i]] = up[kids[i]]
    PROVE  Spans(keys, kids, l, h, lo2, up2)
BY DEF Spans

\* What the parent p knows of the pending split of its child number j.
PendingAt(pgs, root, lo, hi, lev, x, y, p, j, key) ==
    /\ Shaped(pgs, root, lo, hi, lev, x, y) /\ x # NoPage
    /\ p \in DOMAIN pgs /\ ~pgs[p].leaf /\ j \in DOMAIN pgs[p].kids /\ pgs[p].kids[j] = x
    /\ key \in Key /\ key = hi[x]

LEMMA PendingChild ==
    ASSUME NEW pgs, NEW root, NEW lo, NEW hi, NEW lev, NEW x, NEW y, NEW p, NEW j, NEW key,
           PendingAt(pgs, root, lo, hi, lev, x, y, p, j, key)
    PROVE  /\ lev[x] < lev[p] /\ x # root /\ root # NoPage /\ x # p
           /\ \A q \in DOMAIN pgs : \A i \in DOMAIN pgs[q].kids : pgs[q].kids[i] = x => q = p /\ i = j
<1>1. Shaped(pgs, root, lo, hi, lev, x, y) /\ p \in DOMAIN pgs /\ ~pgs[p].leaf
  BY DEF PendingAt
<1>2. j \in DOMAIN pgs[p].kids /\ pgs[p].kids[j] = x /\ x # NoPage
  BY DEF PendingAt
<1>3. /\ \A q \in DOMAIN pgs : lev[q] \in Nat /\ lev[q] <= lev[root] /\ q # NoPage
      /\ root \in DOMAIN pgs /\ x \in DOMAIN pgs
  BY <1>1, <1>2, PageIds DEF Shaped
<1>4. lev[x] + 1 = lev[p]
  <2>1. PageShape(pgs, lo, hi, lev, x, y, p)
    BY <1>1 DEF Shaped
  <2>2. InnerShape(pgs, lo, hi, lev, x, y, p)
    BY <1>1, <2>1 DEF PageShape, LeafShape
  <2> QED BY <1>2, <2>2 DEF InnerShape
<1>5. lev[x] < lev[p] /\ x # root /\ root # NoPage /\ x # p
  BY <1>1, <1>3, <1>4
<1>6. ASSUME NEW q \in DOMAIN pgs, NEW i \in DOMAIN pgs[q].kids, pgs[q].kids[i] = x PROVE q = p /\ i = j
  <2>1. pgs[q].kids[i] = pgs[p].kids[j]
    BY <1>2, <1>6
  <2> QED BY <1>1, <1>2, <2>1, OneParent
<1> QED BY <1>5, <1>6

\* Its keys and children with the new ones, which are number j and j + 1.
KeysWith(page, j, key) == InsertAt(page.keys, j, key)
KidsWith(page, j, kid) == InsertAt(page.kids, j + 1, kid)

\* Keys ks and children cs can be those of page p.
Fit(pgs, lo, hi, lev, p, ks, cs) ==
    /\ Spans(ks, cs, lo[p], hi[p], lo, hi)
    /\ \A i \in DOMAIN cs : cs[i] \in DOMAIN pgs /\ lev[cs[i]] + 1 = lev[p]
    /\ Len(cs) = Len(pgs[p].kids) + 1 /\ Len(pgs[p].kids) \in Nat

\* The separators with the new key.
LEMMA ParentSpans ==
    ASSUME NEW pgs, NEW root, NEW lo, NEW hi, NEW lev, NEW x, NEW y, NEW p, NEW j, NEW key,
           PendingAt(pgs, root, lo, hi, lev, x, y, p, j, key)
    PROVE  /\ UpTo(pgs[p].keys, key) = j - 1 /\ j \in Nat
           /\ Fit(pgs, lo, hi, lev, p, KeysWith(pgs[p], j, key), KidsWith(pgs[p], j, y))
<1> DEFINE up == [q \in PageId |-> Wide(hi, x, y, q)]
           ks == KeysWith(pgs[p], j, key)
           cs == KidsWith(pgs[p], j, y)
           keys == pgs[p].keys
           kids == pgs[p].kids
<1>1. Shaped(pgs, root, lo, hi, lev, x, y) /\ p \in DOMAIN pgs /\ ~pgs[p].leaf
  BY DEF PendingAt
<1>2. j \in DOMAIN kids /\ kids[j] = x /\ x # NoPage /\ key \in Key /\ key = hi[x] /\ key \in Nat
  BY TreeBounds DEF PendingAt
<1>3. /\ DOMAIN pgs \subseteq PageId /\ lo \in [PageId -> Nat] /\ hi \in [PageId -> Nat]
      /\ x \in DOMAIN pgs /\ y \in DOMAIN pgs /\ x # y /\ lev[x] = lev[y] /\ hi[x] = lo[y] /\ hi[x] # 0
      /\ Under(lo[x], hi[x]) /\ Under(lo[y], hi[y])
  <2>1. /\ DOMAIN pgs \subseteq PageId /\ lo \in [PageId -> Nat] /\ hi \in [PageId -> Nat]
        /\ x \in DOMAIN pgs /\ y \in DOMAIN pgs /\ x # y /\ lev[x] = lev[y] /\ hi[x] = lo[y] /\ hi[x] # 0
    BY <1>1, <1>2 DEF Shaped
  <2>2. PageShape(pgs, lo, hi, lev, x, y, x) /\ PageShape(pgs, lo, hi, lev, x, y, y)
    BY <1>1, <2>1 DEF Shaped
  <2> QED BY <2>1, <2>2 DEF PageShape
<1>4. \A q \in PageId : up[q] = Wide(hi, x, y, q)
  OBVIOUS
<1> HIDE DEF up, ks, cs
<1>5. /\ Spans(keys, kids, lo[p], hi[p], lo, up)
      /\ \A i \in DOMAIN kids : kids[i] \in DOMAIN pgs /\ lev[kids[i]] + 1 = lev[p]
  BY <1>1, <1>4, InnerSpans
<1> HIDE DEF keys, kids
<1>6. /\ keys \in Seq(Key) /\ Len(keys) \in Nat /\ DOMAIN keys = 1..Len(keys)
      /\ kids \in Seq(PageId) /\ Len(kids) = Len(keys) + 1 /\ DOMAIN kids = 1..(Len(keys) + 1)
      /\ \A i \in 1..Len(keys) : keys[i] \in Nat
  BY <1>5, SpansTyped
<1>7. \A i \in DOMAIN kids : i # j => up[kids[i]] = hi[kids[i]]
  <2>1. \A i \in DOMAIN kids : kids[i] = x => i = j
    BY <1>1, PendingChild DEF kids
  <2> QED BY <1>3, <1>4, <1>5, <2>1 DEF Wide
<1>8. up[x] = hi[y] /\ lo[x] < key /\ Under(key, hi[y]) /\ lo[y] = key /\ lo[p] \in Nat /\ hi[p] \in Nat
      /\ hi[y] \in Nat /\ lo[x] \in Nat
  BY <1>1, <1>2, <1>3, <1>4 DEF Wide, Under
<1>9. Under(key, hi[p])
  <2>1. CASE j = Len(kids)
    <3>1. up[x] = hi[p]
      BY <1>2, <1>5, <2>1 DEF Spans
    <3> QED BY <1>8, <3>1
  <2>2. CASE j # Len(kids)
    <3>1. j \in DOMAIN keys
      BY <1>2, <1>6, <2>2
    <3>2. up[x] = keys[j]
      BY <1>2, <1>5, <2>2 DEF Spans
    <3>3. lo[p] < keys[j] /\ Under(keys[j], hi[p])
      BY <1>5, <3>1 DEF Spans
    <3>4. keys[j] \in Nat
      BY <1>6, <3>1
    <3> QED BY <1>2, <1>8, <3>2, <3>3, <3>4 DEF Under
  <2> QED BY <2>1, <2>2
<1>10. lo[p] < key
  <2>1. CASE j = 1
    <3>1. lo[x] = lo[p]
      BY <1>2, <1>5, <2>1 DEF Spans
    <3> QED BY <1>8, <3>1
  <2>2. CASE j # 1
    <3>1. j - 1 \in DOMAIN keys
      BY <1>2, <1>6, <2>2
    <3>2. lo[x] = keys[j - 1]
      BY <1>2, <1>5, <2>2 DEF Spans
    <3>3. lo[p] < keys[j - 1]
      BY <1>5, <3>1 DEF Spans
    <3> QED BY <1>2, <1>8, <3>2, <3>3
  <2> QED BY <2>1, <2>2
<1>11. ks \in Seq(Key) /\ Grown(ks, keys, j, key)
  <2>1. j \in 1..(Len(keys) + 1) /\ ks = InsertAt(keys, j, key)
    BY <1>2, <1>6 DEF keys, ks, KeysWith
  <2> QED BY <1>2, <1>6, <2>1, InsertGrown
<1>12. cs \in Seq(PageId) /\ Grown(cs, kids, j + 1, y)
  <2>1. j + 1 \in 1..(Len(kids) + 1) /\ cs = InsertAt(kids, j + 1, y) /\ y \in PageId
    <3>1. j \in 1..Len(kids) /\ Len(kids) \in Nat
      BY <1>2, <1>6
    <3>2. j + 1 \in 1..(Len(kids) + 1)
      BY ONLY <3>1
    <3>3. cs = InsertAt(kids, j + 1, y)
      BY <1>2 DEF kids, cs, KidsWith
    <3> QED BY <1>3, <3>2, <3>3
  <2> QED BY <1>6, <2>1, InsertGrown
<1>13. /\ UpTo(keys, key) = j - 1 /\ Spans(ks, cs, lo[p], hi[p], lo, hi) /\ Range(cs) = Range(kids) \cup {y}
  <2>1. /\ Spans(keys, kids, lo[p], hi[p], lo, up) /\ lo[p] \in Nat /\ j \in DOMAIN kids
        /\ y \in PageId /\ key \in Key /\ hi[kids[j]] = key /\ lo[y] = key /\ hi[y] = up[kids[j]]
        /\ lo[kids[j]] < key /\ Under(key, hi[y]) /\ Under(key, hi[p]) /\ lo[p] < key
    BY <1>2, <1>3, <1>5, <1>8, <1>9, <1>10
  <2> QED BY <1>7, <1>11, <1>12, <2>1, SpansInsert
<1>14. \A i \in DOMAIN cs : cs[i] \in DOMAIN pgs /\ lev[cs[i]] + 1 = lev[p]
  <2>1. \A c \in Range(kids) \cup {y} : c \in DOMAIN pgs /\ lev[c] + 1 = lev[p]
    BY <1>2, <1>3, <1>5 DEF Range
  <2> QED BY <1>13, <2>1 DEF Range
<1>15. Len(cs) = Len(kids) + 1
  BY <1>12 DEF Grown
<1>16. Fit(pgs, lo, hi, lev, p, ks, cs)
  BY <1>6, <1>13, <1>14, <1>15 DEF keys, kids, Fit
<1> QED BY <1>2, <1>6, <1>13, <1>16 DEF keys, kids, ks, cs

LowerHalf(ks, cs) == Inner(SubSeq(ks, 1, Len(cs) \div 2 - 1), SubSeq(cs, 1, Len(cs) \div 2))
UpperHalf(ks, cs) == Inner(SubSeq(ks, Len(cs) \div 2 + 1, Len(ks)), SubSeq(cs, Len(cs) \div 2 + 1, Len(cs)))

Taken(pgs, p, ks, cs)      == Carry(With(pgs, p, Inner(ks, cs)), 0, NoPage)
Halved(pgs, p, ks, cs, new) ==
    Carry(With(With(pgs, p, LowerHalf(ks, cs)), new, UpperHalf(ks, cs)), ks[Len(cs) \div 2], new)

\* What IntoParent does.
LEMMA IntoParentCases ==
    ASSUME NEW pgs, NEW key, NEW y, y # NoPage, NEW p, NEW j \in Nat, UpTo(pgs[p].keys, key) = j - 1
    PROVE  LET ks == KeysWith(pgs[p], j, key)
               cs == KidsWith(pgs[p], j, y)
           IN  IntoParent(Carry(pgs, key, y), p) =
                  IF Len(pgs[p].kids) < InternalMax THEN Taken(pgs, p, ks, cs)
                  ELSE Halved(pgs, p, ks, cs, Fresh(pgs))
<1>1. (j - 1) + 1 = j /\ (j - 1) + 2 = j + 1
  OBVIOUS
<1> QED BY <1>1 DEF IntoParent, Carry, KeysWith, KidsWith, Taken, Halved, LowerHalf, UpperHalf

\* The parent takes the new child.
LEMMA ParentTakes ==
    ASSUME NEW pgs, NEW root, NEW lo, NEW hi, NEW lev, NEW x, NEW y, NEW p, NEW j, NEW key,
           PendingAt(pgs, root, lo, hi, lev, x, y, p, j, key),
           \A q \in DOMAIN pgs : Filled(pgs, root, x, q),
           Len(pgs[p].kids) < InternalMax,
           NEW ks, NEW cs, Fit(pgs, lo, hi, lev, p, ks, cs)
    PROVE  Passed(Taken(pgs, p, ks, cs), pgs, root, lo, hi, lev, p)
<1> DEFINE pgs2 == With(pgs, p, Inner(ks, cs))
<1>1. Shaped(pgs, root, lo, hi, lev, x, y) /\ p \in DOMAIN pgs /\ ~pgs[p].leaf
  BY DEF PendingAt
<1>2. /\ x # root /\ root # NoPage /\ x # p
      /\ \A q \in DOMAIN pgs : q # p => \A i \in DOMAIN pgs[q].kids : pgs[q].kids[i] # x
  BY PendingChild
<1>3. /\ Spans(ks, cs, lo[p], hi[p], lo, hi)
      /\ \A i \in DOMAIN cs : cs[i] \in DOMAIN pgs /\ lev[cs[i]] + 1 = lev[p]
      /\ Len(cs) = Len(pgs[p].kids) + 1 /\ Len(pgs[p].kids) \in Nat
  BY DEF Fit
<1>4. /\ DOMAIN pgs \subseteq PageId /\ root \in DOMAIN pgs /\ lo[root] = 0 /\ Wide(hi, x, y, root) = 0
      /\ lo \in [PageId -> Nat] /\ hi \in [PageId -> Nat] /\ lev \in [PageId -> Nat]
      /\ \A q \in DOMAIN pgs : lev[q] <= lev[root]
      /\ \A q, r \in DOMAIN pgs : q # r /\ lev[q] = lev[r] => Apart(lo, hi, q, r)
      /\ \A q \in DOMAIN pgs : PageShape(pgs, lo, hi, lev, x, y, q) /\ q # NoPage
  BY <1>1, PageIds DEF Shaped
<1>5. /\ DOMAIN pgs2 = DOMAIN pgs /\ pgs2 = [q \in DOMAIN pgs2 |-> pgs2[q]]
      /\ pgs2[p] = Inner(ks, cs) /\ \A q \in DOMAIN pgs : q # p => pgs2[q] = pgs[q]
  BY <1>1 DEF With
<1> HIDE DEF pgs2
<1>6. PageShape(pgs2, lo, hi, lev, NoPage, NoPage, p)
  <2>1. Under(lo[p], hi[p]) /\ lo[p] \in Nat /\ hi[p] \in Nat
    BY <1>1, <1>4 DEF PageShape
  <2>2. ASSUME NEW i \in DOMAIN cs
        PROVE  /\ cs[i] \in DOMAIN pgs2 /\ lev[cs[i]] \in Nat /\ lev[cs[i]] + 1 = lev[p]
               /\ Wide(hi, NoPage, NoPage, cs[i]) = hi[cs[i]]
    BY <1>3, <1>4, <1>5 DEF Wide
  <2> QED BY <1>3, <1>5, <2>1, <2>2, SpansInner
<1>7. ASSUME NEW q \in DOMAIN pgs, q # p PROVE PageShape(pgs2, lo, hi, lev, NoPage, NoPage, q)
  <2>1. \A i \in DOMAIN pgs[q].kids : pgs[q].kids[i] # x
    BY <1>2, <1>7
  <2>2. PageShape(pgs, lo, hi, lev, x, y, q)
    BY <1>4
  <2>3. \A i \in DOMAIN pgs[q].kids : pgs[q].kids[i] # NoPage
    BY <2>2, PageFields, PageIds
  <2>4. \A i \in DOMAIN pgs[q].kids : Wide(hi, NoPage, NoPage, pgs[q].kids[i]) = Wide(hi, x, y, pgs[q].kids[i])
    BY <2>1, <2>3 DEF Wide
  <2>5. pgs2[q] = pgs[q] /\ DOMAIN pgs \subseteq DOMAIN pgs2
    BY <1>5, <1>7
  <2> QED BY <2>2, <2>4, <2>5, SameShape
<1>8. Wide(hi, NoPage, NoPage, root) = 0
  BY <1>2, <1>4 DEF Wide
<1>9. \A q \in DOMAIN pgs2 : PageShape(pgs2, lo, hi, lev, NoPage, NoPage, q)
  BY <1>5, <1>6, <1>7
<1>10. Shaped(pgs2, root, lo, hi, lev, NoPage, NoPage)
  BY <1>4, <1>5, <1>8, <1>9 DEF Shaped
<1>11. ASSUME NEW q \in DOMAIN pgs2 PROVE Filled(pgs2, root, NoPage, q)
  <2>1. Filled(pgs, root, x, q) /\ q \in DOMAIN pgs
    BY <1>5, <1>11
  <2>2. CASE q = p
    <3>1. ~pgs2[q].leaf /\ pgs2[q].kids = cs
      BY <1>5, <2>2 DEF Inner
    <3>2. Len(cs) <= InternalMax
      BY <1>3, Sizes
    <3>3. Len(cs) >= (IF q = root /\ q # NoPage THEN 2 ELSE InternalMin)
      BY <1>1, <1>2, <1>3, <2>1, <2>2, Sizes DEF Filled
    <3> QED BY <3>1, <3>2, <3>3 DEF Filled
  <2>3. CASE q # p
    <3>1. pgs2[q] = pgs[q]
      BY <1>5, <2>1, <2>3
    <3>2. (q = root /\ q # x) <=> (q = root /\ q # NoPage)
      BY <1>2
    <3> QED BY <2>1, <3>1, <3>2 DEF Filled
  <2> QED BY <2>2, <2>3
<1>12. Whole(pgs2, root, lo, hi, lev)
  BY <1>10, <1>11 DEF Whole, Tree
<1>13. Stored(pgs2) = Stored(pgs)
  <2>1. ~pgs2[p].leaf
    BY <1>5 DEF Inner
  <2>2. {q \in DOMAIN pgs2 : pgs2[q].leaf} = {q \in DOMAIN pgs : pgs[q].leaf}
    BY <1>1, <1>5, <2>1
  <2>3. \A q \in {r \in DOMAIN pgs : pgs[r].leaf} : pgs2[q].keys = pgs[q].keys
    BY <1>1, <1>5
  <2> QED BY <2>2, <2>3 DEF Stored
<1>14. Taken(pgs, p, ks, cs).pages = pgs2 /\ Taken(pgs, p, ks, cs).page = NoPage
  BY DEF Taken, Carry, pgs2
<1> QED BY <1>5, <1>12, <1>13, <1>14 DEF Passed

\* The parent is split too.
LEMMA ParentSplits ==
    ASSUME NEW pgs, NEW root, NEW lo, NEW hi, NEW lev, NEW x, NEW y, NEW p, NEW j, NEW key,
           PendingAt(pgs, root, lo, hi, lev, x, y, p, j, key),
           \A q \in DOMAIN pgs : Filled(pgs, root, x, q),
           ~(Len(pgs[p].kids) < InternalMax),
           NEW ks, NEW cs, Fit(pgs, lo, hi, lev, p, ks, cs),
           NEW new \in PageId, new \notin DOMAIN pgs
    PROVE  Passed(Halved(pgs, p, ks, cs, new), pgs, root, lo, hi, lev, p)
<1> DEFINE mid  == Len(cs) \div 2
           a    == LowerHalf(ks, cs)
           b    == UpperHalf(ks, cs)
           pgs2 == With(With(pgs, p, a), new, b)
           m    == ks[mid]
           lo2  == SplitLo(lo, new, m)
           hi2  == SplitHi(hi, p, new, m)
           lev2 == SplitLev(lev, p, new)
<1>1. Shaped(pgs, root, lo, hi, lev, x, y) /\ p \in DOMAIN pgs /\ ~pgs[p].leaf
  BY DEF PendingAt
<1>2. /\ lev[x] < lev[p] /\ x # root /\ root # NoPage
      /\ \A q \in DOMAIN pgs : q # p => \A i \in DOMAIN pgs[q].kids : pgs[q].kids[i] # x
  BY PendingChild
<1>3. /\ Spans(ks, cs, lo[p], hi[p], lo, hi)
      /\ \A i \in DOMAIN cs : cs[i] \in DOMAIN pgs /\ lev[cs[i]] + 1 = lev[p]
      /\ Len(cs) = Len(pgs[p].kids) + 1 /\ Len(pgs[p].kids) \in Nat
  BY DEF Fit
<1>4. /\ DOMAIN pgs \subseteq PageId /\ root \in DOMAIN pgs /\ p \in PageId /\ new # p /\ root # new
      /\ lo \in [PageId -> Nat] /\ hi \in [PageId -> Nat] /\ lev \in [PageId -> Nat]
      /\ Under(lo[p], hi[p])
  BY <1>1 DEF Shaped, PageShape
<1>5. Len(cs) = InternalMax + 1 /\ mid \in Nat /\ 1 <= mid /\ mid < Len(cs)
      /\ mid >= InternalMin /\ mid <= InternalMax /\ Len(cs) - mid >= InternalMin /\ Len(cs) - mid <= InternalMax
  <2>1. Len(pgs[p].kids) <= InternalMax
    BY <1>1 DEF Filled
  <2>2. Len(cs) = InternalMax + 1
    BY <1>3, <2>1, Sizes
  <2> QED BY <2>2, Sizes
<1> HIDE DEF mid
<1>6. /\ ks[mid] \in Key /\ lo[p] < ks[mid] /\ Under(ks[mid], hi[p])
      /\ Spans(SubSeq(ks, 1, mid - 1), SubSeq(cs, 1, mid), lo[p], ks[mid], lo, hi)
      /\ Spans(SubSeq(ks, mid + 1, Len(ks)), SubSeq(cs, mid + 1, Len(cs)), ks[mid], hi[p], lo, hi)
      /\ Len(SubSeq(cs, 1, mid)) = mid /\ Len(SubSeq(cs, mid + 1, Len(cs))) = Len(cs) - mid
      /\ Range(SubSeq(cs, 1, mid)) \subseteq Range(cs)
      /\ Range(SubSeq(cs, mid + 1, Len(cs))) \subseteq Range(cs)
  <2>1. Spans(ks, cs, lo[p], hi[p], lo, hi) /\ mid \in Nat /\ mid >= 1 /\ mid < Len(cs)
    BY <1>3, <1>5
  <2> QED BY ONLY <2>1, SpansSplit
<1>7. m \in Nat /\ m # 0 /\ m \in Key /\ lo[p] < m /\ Under(m, hi[p]) /\ m = ks[mid]
  <2>1. m \in Key /\ lo[p] < m /\ Under(m, hi[p])
    BY <1>6
  <2>2. lo[p] \in Nat
    BY <1>4
  <2> HIDE DEF m
  <2>3. m \in Nat /\ m # 0
    BY <2>1, <2>2, TreeBounds
  <2> QED BY <2>1, <2>3 DEF m
<1> HIDE DEF m
<1>8. /\ DOMAIN pgs2 = DOMAIN pgs \cup {new}
      /\ pgs2[p] = a /\ pgs2[new] = b /\ \A q \in DOMAIN pgs : q # p => pgs2[q] = pgs[q]
  BY <1>1, <1>4 DEF With
<1> HIDE DEF pgs2
<1>9. /\ lo2[new] = m /\ \A q \in DOMAIN pgs : lo2[q] = lo[q]
      /\ hi2[p] = m /\ hi2[new] = hi[p] /\ \A q \in DOMAIN pgs : q # p => hi2[q] = hi[q]
      /\ lev2[new] = lev[p] /\ \A q \in DOMAIN pgs : lev2[q] = lev[q]
  BY <1>1, <1>4, <1>7 DEF SplitLo, SplitHi, SplitLev
<1> HIDE DEF lo2, hi2, lev2
<1>10. ASSUME NEW c \in Range(cs)
       PROVE  /\ c \in DOMAIN pgs /\ c # p /\ c # new /\ lev[c] \in Nat /\ lev[c] + 1 = lev[p]
              /\ lo2[c] = lo[c] /\ hi2[c] = hi[c] /\ lev2[c] = lev[c] /\ Wide(hi2, p, new, c) = hi[c]
  <2>1. c \in DOMAIN pgs /\ lev[c] + 1 = lev[p]
    BY <1>3, <1>10 DEF Range
  <2>2. lev[c] \in Nat /\ c # new
    BY <1>4, <2>1
  <2>3. c # p
    BY <2>1, <2>2
  <2> QED BY <1>9, <2>1, <2>2, <2>3 DEF Wide
<1>11. PageShape(pgs2, lo2, hi2, lev2, p, new, p)
  <2> DEFINE k1 == SubSeq(ks, 1, mid - 1)
             c1 == SubSeq(cs, 1, mid)
  <2>1. Spans(k1, c1, lo[p], m, lo, hi) /\ Range(c1) \subseteq Range(cs) /\ a = Inner(k1, c1)
    BY <1>6, <1>7 DEF LowerHalf, mid
  <2> HIDE DEF k1, c1
  <2>2. \A i \in DOMAIN c1 : c1[i] \in Range(cs)
    BY <2>1 DEF Range
  <2>3. Spans(k1, c1, lo[p], m, lo2, hi)
    BY <1>10, <2>1, <2>2, SpansSame
  <2>4. pgs2[p] = Inner(k1, c1) /\ lo2[p] = lo[p] /\ hi2[p] = m /\ lev2[p] = lev[p]
    BY <1>1, <1>8, <1>9, <2>1
  <2>5. lo2[p] \in Nat /\ hi2[p] \in Nat /\ Under(lo2[p], hi2[p])
    BY <1>4, <1>7, <2>4 DEF Under
  <2>6. \A i \in DOMAIN c1 : /\ c1[i] \in DOMAIN pgs2 /\ lev2[c1[i]] \in Nat
                             /\ lev2[c1[i]] + 1 = lev2[p] /\ Wide(hi2, p, new, c1[i]) = hi[c1[i]]
    BY <1>8, <1>10, <2>2, <2>4
  <2>7. Spans(k1, c1, lo2[p], hi2[p], lo2, hi)
    BY <2>3, <2>4
  <2> QED BY ONLY <2>4, <2>5, <2>6, <2>7, SpansInner
<1>12. PageShape(pgs2, lo2, hi2, lev2, p, new, new)
  <2> DEFINE k2 == SubSeq(ks, mid + 1, Len(ks))
             c2 == SubSeq(cs, mid + 1, Len(cs))
  <2>1. Spans(k2, c2, m, hi[p], lo, hi) /\ Range(c2) \subseteq Range(cs) /\ b = Inner(k2, c2)
    BY <1>6, <1>7 DEF UpperHalf, mid
  <2> HIDE DEF k2, c2
  <2>2. \A i \in DOMAIN c2 : c2[i] \in Range(cs)
    BY <2>1 DEF Range
  <2>3. Spans(k2, c2, m, hi[p], lo2, hi)
    BY <1>10, <2>1, <2>2, SpansSame
  <2>4. pgs2[new] = Inner(k2, c2) /\ lo2[new] = m /\ hi2[new] = hi[p] /\ lev2[new] = lev[p]
    BY <1>1, <1>8, <1>9, <2>1
  <2>5. lo2[new] \in Nat /\ hi2[new] \in Nat /\ Under(lo2[new], hi2[new])
    BY <1>4, <1>7, <2>4
  <2>6. \A i \in DOMAIN c2 : /\ c2[i] \in DOMAIN pgs2 /\ lev2[c2[i]] \in Nat
                             /\ lev2[c2[i]] + 1 = lev2[new] /\ Wide(hi2, p, new, c2[i]) = hi[c2[i]]
    BY <1>8, <1>10, <2>2, <2>4
  <2>7. Spans(k2, c2, lo2[new], hi2[new], lo2, hi)
    BY <2>3, <2>4
  <2> QED BY ONLY <2>4, <2>5, <2>6, <2>7, SpansInner
<1>13. Shaped(pgs2, root, lo2, hi2, lev2, p, new)
  BY <1>1, <1>2, <1>7, <1>11, <1>12, SplitShaped DEF lo2, hi2, lev2, pgs2
<1>14. ASSUME NEW q \in DOMAIN pgs2 PROVE Filled(pgs2, root, p, q)
  <2>1. CASE q = p
    <3>0. ~a.leaf /\ a.kids = SubSeq(cs, 1, mid)
      BY DEF Inner, LowerHalf, mid
    <3>1. ~pgs2[q].leaf /\ pgs2[q].kids = SubSeq(cs, 1, mid)
      BY <1>8, <2>1, <3>0
    <3> QED BY <1>5, <1>6, <2>1, <3>1 DEF Filled
  <2>2. CASE q = new
    <3>0. ~b.leaf /\ b.kids = SubSeq(cs, mid + 1, Len(cs))
      BY DEF Inner, UpperHalf, mid
    <3>1. ~pgs2[q].leaf /\ pgs2[q].kids = SubSeq(cs, mid + 1, Len(cs))
      BY <1>8, <2>2, <3>0
    <3> QED BY <1>4, <1>5, <1>6, <2>2, <3>1 DEF Filled
  <2>3. CASE q # p /\ q # new
    <3>1. q \in DOMAIN pgs /\ pgs2[q] = pgs[q] /\ Filled(pgs, root, x, q)
      BY <1>8, <2>3
    <3>2. (q = root /\ q # x) <=> (q = root /\ q # p)
      BY <1>2, <2>3
    <3> QED BY <3>1, <3>2 DEF Filled
  <2> QED BY <2>1, <2>2, <2>3
<1>15. Tree(pgs2, root, lo2, hi2, lev2, p, new)
  BY <1>13, <1>14 DEF Tree
<1>16. Stored(pgs2) = Stored(pgs)
  <2>1. ~pgs2[p].leaf /\ ~pgs2[new].leaf
    BY <1>8 DEF Inner, LowerHalf, UpperHalf
  <2>2. {q \in DOMAIN pgs2 : pgs2[q].leaf} = {q \in DOMAIN pgs : pgs[q].leaf}
    BY <1>1, <1>8, <2>1
  <2>3. \A q \in {r \in DOMAIN pgs : pgs[r].leaf} : pgs2[q].keys = pgs[q].keys
    BY <1>1, <1>8
  <2> QED BY <2>2, <2>3 DEF Stored
<1>17. m = hi2[p] /\ m \in Key /\ \A q \in DOMAIN pgs : lev2[q] = lev[q]
  BY <1>1, <1>7, <1>9
<1> DEFINE c == Halved(pgs, p, ks, cs, new)
<1>18. c.pages = pgs2 /\ c.page = new /\ c.key = m
  BY DEF Halved, Carry, pgs2, a, b, m, mid
<1> HIDE DEF c
<1>19. \E lo3, hi3, lev3 : /\ Tree(c.pages, root, lo3, hi3, lev3, p, c.page)
                          /\ c.key = hi3[p] /\ c.key \in Key
                          /\ \A q \in DOMAIN pgs : lev3[q] = lev[q]
  BY <1>15, <1>17, <1>18
<1>20. Passed(c, pgs, root, lo, hi, lev, p)
  BY <1>8, <1>16, <1>18, <1>19 DEF Passed
<1> QED BY <1>20 DEF c

\* InsertIntoParent: the parent takes the child, or is split in its turn.
LEMMA IntoParentPasses ==
    ASSUME NEW pgs, NEW root, NEW lo, NEW hi, NEW lev, NEW x, NEW y, NEW p, NEW j, NEW key,
           PendingAt(pgs, root, lo, hi, lev, x, y, p, j, key),
           \A q \in DOMAIN pgs : Filled(pgs, root, x, q),
           Cardinality(DOMAIN pgs) < MaxPages,
           \A t \in Thread : RememberedBy(t) \subseteq DOMAIN pgs
    PROVE  Passed(IntoParent(Carry(pgs, key, y), p), pgs, root, lo, hi, lev, p)
<1> DEFINE ks  == KeysWith(pgs[p], j, key)
           cs  == KidsWith(pgs[p], j, y)
           new == Fresh(pgs)
<1>1. Shaped(pgs, root, lo, hi, lev, x, y) /\ x # NoPage
  BY DEF PendingAt
<1>2. y # NoPage /\ DOMAIN pgs \subseteq PageId
  BY <1>1, PageIds DEF Shaped
<1>3. UpTo(pgs[p].keys, key) = j - 1 /\ j \in Nat /\ Fit(pgs, lo, hi, lev, p, ks, cs)
  BY ParentSpans
<1>4. new \in PageId /\ new \notin DOMAIN pgs
  <2>1. Refs(pgs)
    BY <1>1, ShapedRefs
  <2> QED BY <1>2, <2>1, FreshPage
<1>5. IntoParent(Carry(pgs, key, y), p) =
         IF Len(pgs[p].kids) < InternalMax THEN Taken(pgs, p, ks, cs) ELSE Halved(pgs, p, ks, cs, new)
  BY <1>2, <1>3, IntoParentCases
<1> HIDE DEF ks, cs, new
<1>6. Len(pgs[p].kids) < InternalMax => Passed(Taken(pgs, p, ks, cs), pgs, root, lo, hi, lev, p)
  BY <1>3, ParentTakes
<1>7. ~(Len(pgs[p].kids) < InternalMax) => Passed(Halved(pgs, p, ks, cs, new), pgs, root, lo, hi, lev, p)
  BY <1>3, <1>4, ParentSplits
<1> QED BY <1>5, <1>6, <1>7

-----------------------------------------------------------------------------
(* New roots. *)

\* A tree with its root, its height and its keys.
Rooted(pgs, root, h, keys) ==
    /\ \E lo, hi, lev : Whole(pgs, root, lo, hi, lev) /\ lev[root] = h
    /\ Stored(pgs) = keys

\* The root has been split: a page above the two halves.
LEMMA NewRoot ==
    ASSUME NEW pgs, NEW root, root # NoPage, NEW lo, NEW hi, NEW lev, NEW y,
           Tree(pgs, root, lo, hi, lev, root, y), NEW key \in Key, key = hi[root],
           NEW new \in PageId, new \notin DOMAIN pgs
    PROVE  Rooted(With(pgs, new, Inner(<<key>>, <<root, y>>)), new, lev[root] + 1, Stored(pgs))
<1> DEFINE ks   == <<key>>
           cs   == <<root, y>>
           pgs2 == With(pgs, new, Inner(ks, cs))
           lo2  == [lo EXCEPT ![new] = 0]
           hi2  == [hi EXCEPT ![new] = 0]
           lev2 == [lev EXCEPT ![new] = lev[root] + 1]
<1>1. Shaped(pgs, root, lo, hi, lev, root, y) /\ \A q \in DOMAIN pgs : Filled(pgs, root, root, q)
  BY DEF Tree
<1>2. /\ DOMAIN pgs \subseteq PageId /\ root \in DOMAIN pgs /\ lo[root] = 0 /\ Wide(hi, root, y, root) = 0
      /\ lo \in [PageId -> Nat] /\ hi \in [PageId -> Nat] /\ lev \in [PageId -> Nat]
      /\ \A q \in DOMAIN pgs : lev[q] <= lev[root] /\ lev[q] \in Nat /\ q # NoPage /\ q # new
      /\ y \in DOMAIN pgs /\ root # y /\ lev[root] = lev[y] /\ hi[root] = lo[y] /\ hi[root] # 0
  BY <1>1, PageIds DEF Shaped
<1>3. /\ \A q, r \in DOMAIN pgs : q # r /\ lev[q] = lev[r] => Apart(lo, hi, q, r)
      /\ \A q \in DOMAIN pgs : PageShape(pgs, lo, hi, lev, root, y, q)
  BY <1>1 DEF Shaped
<1>4. hi[y] = 0 /\ key \in Nat /\ 0 < key
  BY <1>2, TreeBounds DEF Wide
<1>5. /\ DOMAIN pgs2 = DOMAIN pgs \cup {new} /\ pgs2 = [q \in DOMAIN pgs2 |-> pgs2[q]]
      /\ pgs2[new] = Inner(ks, cs) /\ \A q \in DOMAIN pgs : pgs2[q] = pgs[q]
  BY <1>2 DEF With
<1> HIDE DEF pgs2
<1>6. /\ lo2 \in [PageId -> Nat] /\ hi2 \in [PageId -> Nat] /\ lev2 \in [PageId -> Nat]
      /\ lo2[new] = 0 /\ hi2[new] = 0 /\ lev2[new] = lev[root] + 1
      /\ \A q \in DOMAIN pgs : lo2[q] = lo[q] /\ hi2[q] = hi[q] /\ lev2[q] = lev[q]
  BY <1>2
<1> HIDE DEF lo2, hi2, lev2
<1>7. Spans(ks, cs, 0, 0, lo2, hi2)
  <2>1. /\ ks \in Seq(Key) /\ cs \in Seq(PageId) /\ Len(cs) = Len(ks) + 1 /\ Ascending(ks)
        /\ DOMAIN ks = {1} /\ DOMAIN cs = {1, 2} /\ Len(cs) = 2
        /\ ks[1] = key /\ cs[1] = root /\ cs[2] = y
    BY <1>2, <1>4 DEF Ascending
  <2>2. \A i \in DOMAIN ks : 0 < ks[i] /\ Under(ks[i], 0)
    BY <1>4, <2>1 DEF Under
  <2>3. /\ lo2[cs[1]] = 0 /\ hi2[cs[1]] = ks[1]
        /\ lo2[cs[2]] = ks[1] /\ hi2[cs[2]] = 0
    BY <1>2, <1>4, <1>6, <2>1
  <2> HIDE DEF ks, cs
  <2>4. \A i \in DOMAIN cs : /\ lo2[cs[i]] = (IF i = 1 THEN 0 ELSE ks[i - 1])
                             /\ hi2[cs[i]] = (IF i = Len(cs) THEN 0 ELSE ks[i])
    BY <2>1, <2>3
  <2> QED BY <2>1, <2>2, <2>4 DEF Spans
<1>8. PageShape(pgs2, lo2, hi2, lev2, NoPage, NoPage, new)
  <2>1. \A i \in DOMAIN cs : cs[i] = root \/ cs[i] = y
    OBVIOUS
  <2>2. ASSUME NEW i \in DOMAIN cs
        PROVE  /\ cs[i] \in DOMAIN pgs2 /\ lev2[cs[i]] \in Nat /\ lev2[cs[i]] + 1 = lev2[new]
               /\ Wide(hi2, NoPage, NoPage, cs[i]) = hi2[cs[i]]
    <3>1. cs[i] \in DOMAIN pgs /\ lev[cs[i]] = lev[root]
      BY <1>2, <2>1
    <3> HIDE DEF cs
    <3> QED BY <1>2, <1>5, <1>6, <3>1 DEF Wide
  <2> HIDE DEF cs, ks
  <2>3. lo2[new] \in Nat /\ hi2[new] \in Nat /\ Under(lo2[new], hi2[new])
    BY <1>6 DEF Under
  <2>4. Spans(ks, cs, lo2[new], hi2[new], lo2, hi2)
    BY <1>6, <1>7
  <2> QED BY ONLY <1>5, <2>2, <2>3, <2>4, SpansInner
<1> HIDE DEF cs, ks
<1>9. ASSUME NEW q \in DOMAIN pgs PROVE PageShape(pgs2, lo2, hi2, lev2, NoPage, NoPage, q)
  <2>1. PageShape(pgs, lo, hi, lev, root, y, q)
    BY <1>3
  <2>2. ASSUME NEW i \in DOMAIN pgs[q].kids
        PROVE  Wide(hi2, NoPage, NoPage, pgs[q].kids[i]) = Wide(hi, root, y, pgs[q].kids[i])
    <3>1. pgs[q].kids[i] \in DOMAIN pgs /\ lev[pgs[q].kids[i]] + 1 = lev[q]
      BY <2>1, <2>2 DEF PageShape, LeafShape, InnerShape
    <3>2. pgs[q].kids[i] # root
      BY <1>2, <3>1
    <3> QED BY <1>2, <1>6, <3>1, <3>2 DEF Wide
  <2>3. pgs2[q] = pgs[q] /\ DOMAIN pgs \subseteq DOMAIN pgs2 /\ hi2[q] = hi[q]
    BY <1>5, <1>6
  <2> QED BY <1>6, <2>1, <2>2, <2>3, SameShape
<1>10. \A q, r \in DOMAIN pgs2 : q # r /\ lev2[q] = lev2[r] => Apart(lo2, hi2, q, r)
  <2>1. \A q \in DOMAIN pgs : lev2[q] # lev2[new]
    BY <1>2, <1>6
  <2> QED BY <1>3, <1>5, <1>6, <2>1 DEF Apart
<1>11. \A q \in DOMAIN pgs2 : lev2[q] <= lev2[new]
  BY <1>2, <1>5, <1>6
<1>12. Shaped(pgs2, new, lo2, hi2, lev2, NoPage, NoPage)
  <2>1. \A q \in DOMAIN pgs2 : PageShape(pgs2, lo2, hi2, lev2, NoPage, NoPage, q)
    BY <1>5, <1>8, <1>9
  <2>2. Wide(hi2, NoPage, NoPage, new) = 0
    BY <1>6, PageIds DEF Wide
  <2> QED BY <1>2, <1>5, <1>6, <1>10, <1>11, <2>1, <2>2 DEF Shaped
<1>13. ASSUME NEW q \in DOMAIN pgs2 PROVE Filled(pgs2, new, NoPage, q)
  <2>1. CASE q = new
    <3>1. ~pgs2[q].leaf /\ Len(pgs2[q].kids) = 2
      BY <1>5, <2>1 DEF Inner, cs
    <3>2. q # NoPage
      BY <2>1, PageIds
    <3> QED BY <2>1, <3>1, <3>2, Sizes DEF Filled
  <2>2. CASE q # new
    <3>1. q \in DOMAIN pgs /\ pgs2[q] = pgs[q] /\ Filled(pgs, root, root, q)
      BY <1>1, <1>5, <2>2
    <3> QED BY <2>2, <3>1 DEF Filled
  <2> QED BY <2>1, <2>2
<1>14. Whole(pgs2, new, lo2, hi2, lev2)
  BY <1>12, <1>13 DEF Whole, Tree
<1>15. Stored(pgs2) = Stored(pgs)
  <2>1. ~pgs2[new].leaf
    BY <1>5 DEF Inner
  <2>2. {q \in DOMAIN pgs2 : pgs2[q].leaf} = {q \in DOMAIN pgs : pgs[q].leaf}
    BY <1>5, <2>1
  <2>3. \A q \in {r \in DOMAIN pgs : pgs[r].leaf} : pgs2[q].keys = pgs[q].keys
    BY <1>5
  <2> QED BY <2>2, <2>3 DEF Stored
<1>16. Rooted(pgs2, new, lev[root] + 1, Stored(pgs))
  BY <1>6, <1>14, <1>15 DEF Rooted
<1> QED BY <1>16 DEF pgs2, ks, cs

\* The first leaf.
LEMMA FirstLeaf ==
    ASSUME NEW pgs, DOMAIN pgs = {}, NEW new \in PageId, NEW k \in Key
    PROVE  Rooted(With(pgs, new, Leaf(<<k>>, NoPage)), new, 0, {k})
<1> DEFINE page == Leaf(<<k>>, NoPage)
           pgs2 == With(pgs, new, page)
           none == [p \in PageId |-> 0]
<1>1. DOMAIN pgs2 = {new} /\ pgs2[new] = page /\ pgs2 = [q \in DOMAIN pgs2 |-> pgs2[q]]
  BY DEF With
<1>2. /\ page.leaf /\ page.keys = <<k>> /\ page.kids = <<>> /\ page.next = NoPage
      /\ page \in Page /\ Len(page.keys) = 1 /\ DOMAIN page.keys = {1} /\ page.keys[1] = k
      /\ Ascending(page.keys) /\ Range(page.keys) = {k}
  <2>1. <<k>> \in Seq(Key) /\ <<>> \in Seq(PageId) /\ Len(<<k>>) = 1 /\ DOMAIN <<k>> = {1} /\ <<k>>[1] = k
    OBVIOUS
  <2>2. page = [leaf |-> TRUE, keys |-> <<k>>, kids |-> <<>>, next |-> NoPage]
    BY DEF Leaf
  <2>3. page \in Page
    <3>1. \A keys \in Seq(Key), kids \in Seq(PageId) :
             [leaf |-> TRUE, keys |-> keys, kids |-> kids, next |-> NoPage] \in Page
      BY DEF Page
    <3> QED BY <2>1, <2>2, <3>1
  <2>4. Ascending(<<k>>) /\ Range(<<k>>) = {k}
    BY <2>1 DEF Ascending, Range
  <2> QED BY <2>1, <2>2, <2>3, <2>4
<1> HIDE DEF pgs2, page
<1>3. none \in [PageId -> Nat] /\ none[new] = 0
  OBVIOUS
<1> HIDE DEF none
<1>4. k \in Nat /\ NoPage = 0 /\ new # NoPage
  BY TreeBounds, PageIds DEF NoPage
<1>5. LeafShape(pgs2, none, none, none, new)
  BY <1>1, <1>2, <1>3 DEF LeafShape
<1>6. PageShape(pgs2, none, none, none, NoPage, NoPage, new)
  <2>1. Under(none[new], none[new]) /\ Covers(none, none, new, k)
    BY <1>3, <1>4 DEF Under, Covers
  <2>2. \A i \in DOMAIN page.keys : Covers(none, none, new, page.keys[i])
    BY <1>2, <2>1
  <2> QED BY <1>1, <1>2, <1>5, <2>1, <2>2 DEF PageShape
<1>7. Shaped(pgs2, new, none, none, none, NoPage, NoPage)
  BY <1>1, <1>3, <1>4, <1>6 DEF Shaped, Wide
<1>8. Filled(pgs2, new, NoPage, new)
  BY <1>1, <1>2, <1>4, Sizes DEF Filled
<1>9. Whole(pgs2, new, none, none, none)
  BY <1>1, <1>7, <1>8 DEF Whole, Tree
<1>10. Stored(pgs2) = {k}
  BY <1>1, <1>2 DEF Stored
<1>11. Rooted(pgs2, new, 0, {k})
  BY <1>3, <1>9, <1>10 DEF Rooted
<1> QED BY <1>11 DEF pgs2, page

-----------------------------------------------------------------------------
(* The insertion along a path. *)

\* The splits after one more level of path q.
Raised(S, q, n) == {IntoParent(c, q[Len(q) - n]) : c \in S}

\* f has the splits of the first m levels above the leaf.
Climbs(f, m, e, q) ==
    /\ f = [n \in 0..m |-> f[n]]
    /\ \A n \in 0..m : /\ n = 0 => f[n] = {SplitLeaf(e, Last(q))}
                       /\ n # 0 => f[n] = Raised(f[n - 1], q, n)

LEMMA ClimbsExist == ASSUME NEW e, NEW q, NEW m \in Nat PROVE \E f : Climbs(f, m, e, q)
<1> DEFINE S == {n \in Nat : \E f : Climbs(f, n, e, q)}
<1>1. 0 \in S
  <2> DEFINE f == [i \in 0..0 |-> {SplitLeaf(e, Last(q))}]
  <2>1. Climbs(f, 0, e, q)
    BY DEF Climbs
  <2> QED BY <2>1
<1>2. ASSUME NEW n \in Nat, n \in S PROVE n + 1 \in S
  <2>1. PICK f : Climbs(f, n, e, q)
    BY <1>2
  <2> DEFINE g == [i \in 0..(n + 1) |-> IF i = n + 1 THEN Raised(f[n], q, n + 1) ELSE f[i]]
  <2>2. /\ g = [i \in 0..(n + 1) |-> g[i]]
        /\ \A i \in 0..n : g[i] = f[i]
        /\ g[n + 1] = Raised(f[n], q, n + 1)
    OBVIOUS
  <2> HIDE DEF g
  <2>3. ASSUME NEW i \in 0..(n + 1)
        PROVE  /\ i = 0 => g[i] = {SplitLeaf(e, Last(q))}
               /\ i # 0 => g[i] = Raised(g[i - 1], q, i)
    <3>1. CASE i = n + 1
      <4>1. i # 0 /\ n \in 0..n /\ i - 1 = n
        BY <3>1
      <4> QED BY <2>2, <3>1, <4>1
    <3>2. CASE i # n + 1
      <4>1. i \in 0..n /\ (i # 0 => i - 1 \in 0..n)
        BY <3>2
      <4> QED BY <2>1, <2>2, <4>1 DEF Climbs
    <3> QED BY <3>1, <3>2
  <2>4. Climbs(g, n + 1, e, q)
    BY <2>2, <2>3 DEF Climbs
  <2> QED BY <2>4
<1> HIDE DEF S
<1>3. m \in S
  BY <1>1, <1>2, Induction
<1> QED BY <1>3 DEF S

LEMMA InsertedClimbs ==
    ASSUME NEW q, Len(q) \in Nat, Len(q) >= 1, NEW k
    PROVE  \E f : /\ Climbs(f, Len(q) - 1, With(pages, Last(q), Entered(pages[Last(q)], k)), q)
                  /\ InsertedAlong(q, k) = f[Len(q) - 1]
<1> DEFINE e == With(pages, Last(q), Entered(pages[Last(q)], k))
           m == Len(q) - 1
           Equation(f) ==
              f = [n \in 0..m |-> IF n = 0 THEN {SplitLeaf(e, Last(q))}
                                  ELSE {IntoParent(c, q[Len(q) - n]) : c \in f[n - 1]}]
           up == CHOOSE f : Equation(f)
<1>0. m \in Nat
  OBVIOUS
<1>1. InsertedAlong(q, k) = up[m]
  BY DEF InsertedAlong
<1> HIDE DEF e, m
<1>2. ASSUME NEW f, Climbs(f, m, e, q) PROVE Equation(f)
  BY <1>2 DEF Climbs, Raised
<1>3. ASSUME NEW f, Equation(f) PROVE Climbs(f, m, e, q)
  <2> DEFINE g == [n \in 0..m |-> IF n = 0 THEN {SplitLeaf(e, Last(q))} ELSE Raised(f[n - 1], q, n)]
  <2>1. f = g
    BY <1>3 DEF Raised
  <2>2. /\ g = [i \in 0..m |-> g[i]]
        /\ \A i \in 0..m : g[i] = IF i = 0 THEN {SplitLeaf(e, Last(q))} ELSE Raised(f[i - 1], q, i)
    OBVIOUS
  <2> HIDE DEF g
  <2> QED BY <2>1, <2>2 DEF Climbs
<1> HIDE DEF Equation
<1>4. \E f : Equation(f)
  BY <1>0, <1>2, ClimbsExist
<1>5. Equation(up)
  BY <1>4
<1> QED BY <1>1, <1>3, <1>5 DEF e, m

\* The split c that goes on into the page q[i].
Risen(c, root, lev, q, i, k) ==
    /\ DOMAIN pages \subseteq DOMAIN c.pages /\ IsFiniteSet(DOMAIN c.pages)
    /\ Cardinality(DOMAIN c.pages) <= Cardinality(DOMAIN pages) + Len(q) - i
    /\ Stored(c.pages) = Stored(pages) \cup {k}
    /\ \A p \in DOMAIN pages : (\A j \in (i + 1)..Len(q) : p # q[j]) => c.pages[p] = pages[p]
    /\ \E lo, hi, lev2 :
          /\ \A p \in DOMAIN pages : lev2[p] = lev[p]
          /\ IF c.page = NoPage THEN Whole(c.pages, root, lo, hi, lev2)
             ELSE Tree(c.pages, root, lo, hi, lev2, q[i + 1], c.page) /\ c.key = hi[q[i + 1]] /\ c.key \in Key

\* The number of pages after Passed.
LEMMA PassedSize ==
    ASSUME NEW c, NEW pgs, NEW root, NEW lo, NEW hi, NEW lev, NEW p,
           Passed(c, pgs, root, lo, hi, lev, p), IsFiniteSet(DOMAIN pgs)
    PROVE  /\ DOMAIN pgs \subseteq DOMAIN c.pages /\ IsFiniteSet(DOMAIN c.pages)
           /\ Cardinality(DOMAIN c.pages) \in Nat /\ Cardinality(DOMAIN pgs) \in Nat
           /\ Cardinality(DOMAIN c.pages) <= Cardinality(DOMAIN pgs) + 1
<1>1. Cardinality(DOMAIN pgs) \in Nat
  BY FS_CardinalityType
<1>2. CASE DOMAIN c.pages = DOMAIN pgs
  BY <1>1, <1>2
<1>3. CASE c.page \notin DOMAIN pgs /\ DOMAIN c.pages = DOMAIN pgs \cup {c.page}
  <2>1. IsFiniteSet(DOMAIN c.pages) /\ Cardinality(DOMAIN c.pages) = Cardinality(DOMAIN pgs) + 1
    BY <1>3, FS_AddElement
  <2> QED BY <1>1, <1>3, <2>1
<1> QED BY <1>2, <1>3 DEF Passed

\* The pages of a descent differ from each other.
LEMMA DescentDiffers ==
    ASSUME NEW lo, NEW hi, NEW lev, NEW k, NEW q, Descent(lo, hi, lev, k, q), root_page_id # NoPage,
           Whole(pages, root_page_id, lo, hi, lev), NEW i \in 1..Len(q), NEW j \in 1..Len(q), i # j
    PROVE  q[i] # q[j]
<1>1. Len(q) \in Nat
  BY LenProperties DEF Descent
<1>2. /\ q[i] \in DOMAIN pages /\ lev[q[i]] + i = lev[root_page_id] + 1
      /\ q[j] \in DOMAIN pages /\ lev[q[j]] + j = lev[root_page_id] + 1
  BY DEF Descent
<1>3. lev[q[i]] \in Nat /\ lev[q[j]] \in Nat /\ lev[root_page_id] \in Nat
  BY <1>2 DEF Whole, Tree, Shaped
<1> QED BY <1>1, <1>2, <1>3

\* A key is inserted at the end of path q.
Entering(lo, hi, lev, q, k) ==
    /\ root_page_id # NoPage /\ Whole(pages, root_page_id, lo, hi, lev) /\ lev[root_page_id] < MaxHeight
    /\ k \in Key /\ Descent(lo, hi, lev, k, q) /\ Len(q) = lev[root_page_id] + 1
    /\ Last(q) = q[Len(q)] /\ pages[Last(q)].leaf /\ ~Has(pages[Last(q)], k)
    /\ PagesLeft /\ \A t \in Thread : RememberedBy(t) \subseteq DOMAIN pages

\* How many pages there are and how long the path is.
LEMMA EnteringSizes ==
    ASSUME NEW lo, NEW hi, NEW lev, NEW q, NEW k, Entering(lo, hi, lev, q, k)
    PROVE  /\ DOMAIN pages \subseteq PageId /\ IsFiniteSet(DOMAIN pages) /\ Cardinality(DOMAIN pages) \in Nat
           /\ Len(q) \in Nat /\ Len(q) >= 1 /\ Len(q) <= MaxHeight
           /\ \A n \in Nat : n <= MaxHeight => Cardinality(DOMAIN pages) + n < MaxPages
<1>1. DOMAIN pages \subseteq PageId /\ lev[root_page_id] \in Nat /\ root_page_id \in DOMAIN pages
  BY DEF Entering, Whole, Tree, Shaped
<1>2. IsFiniteSet(PageId)
  BY FS_Interval, TreeBounds DEF PageId
<1>3. IsFiniteSet(DOMAIN pages) /\ Cardinality(DOMAIN pages) \in Nat
  BY <1>1, <1>2, FS_Subset, FS_CardinalityType
<1>4. Cardinality(Thread) \in Nat
  BY TreeBounds, FS_CardinalityType
<1>5. Cardinality(DOMAIN pages) + Cardinality(Thread) + MaxHeight < MaxPages
  BY DEF Entering, PagesLeft
<1>6. Len(q) = lev[root_page_id] + 1 /\ lev[root_page_id] < MaxHeight
  BY DEF Entering
<1>7. MaxHeight \in Nat /\ MaxPages \in Nat
  BY TreeBounds
<1>8. ASSUME NEW n \in Nat, n <= MaxHeight PROVE Cardinality(DOMAIN pages) + n < MaxPages
  BY <1>3, <1>4, <1>5, <1>7, <1>8
<1> QED BY <1>1, <1>3, <1>6, <1>7, <1>8

\* At the leaf.
LEMMA LeafRises ==
    ASSUME NEW lo, NEW hi, NEW lev, NEW q, NEW k, Entering(lo, hi, lev, q, k)
    PROVE  Risen(SplitLeaf(With(pages, Last(q), Entered(pages[Last(q)], k)), Last(q)),
                 root_page_id, lev, q, Len(q) - 1, k)
<1> DEFINE p == Last(q)
           e == With(pages, p, Entered(pages[p], k))
           c == SplitLeaf(e, p)
<1>0. /\ DOMAIN pages \subseteq PageId /\ IsFiniteSet(DOMAIN pages) /\ Cardinality(DOMAIN pages) \in Nat
      /\ Len(q) \in Nat /\ Len(q) >= 1 /\ Cardinality(DOMAIN pages) < MaxPages
  <2>1. 0 \in Nat /\ 0 <= MaxHeight
    BY TreeBounds
  <2> QED BY <2>1, EnteringSizes
<1>1. /\ Whole(pages, root_page_id, lo, hi, lev) /\ k \in Key /\ pages[p].leaf /\ ~Has(pages[p], k)
      /\ p = q[Len(q)] /\ Descent(lo, hi, lev, k, q) /\ \A t \in Thread : RememberedBy(t) \subseteq DOMAIN pages
  BY DEF Entering
<1> HIDE DEF p
<1>2. p \in DOMAIN pages /\ Covers(lo, hi, p, k)
  <2>1. Len(q) \in 1..Len(q)
    BY <1>0
  <2> QED BY <1>1, <2>1 DEF Descent
<1>3. /\ Shaped(pages, root_page_id, lo, hi, lev, NoPage, NoPage)
      /\ \A r \in DOMAIN pages : Filled(pages, root_page_id, NoPage, r)
  BY <1>1 DEF Whole, Tree
<1>4. /\ Shaped(e, root_page_id, lo, hi, lev, NoPage, NoPage)
      /\ DOMAIN e = DOMAIN pages /\ e[p].leaf /\ Len(e[p].keys) = Len(pages[p].keys) + 1
      /\ \A r \in DOMAIN pages : r # p => e[r] = pages[r]
      /\ Stored(e) = Stored(pages) \cup {k}
  BY <1>1, <1>2, <1>3, EnterShaped
<1> HIDE DEF e
<1>5. Passed(c, e, root_page_id, lo, hi, lev, p)
  <2>1. Filled(pages, root_page_id, NoPage, p) /\ p # NoPage
    BY <1>0, <1>2, <1>3, PageIds
  <2>2. Len(pages[p].keys) \in Nat
    BY <1>2, <1>3, PageFields DEF Shaped
  <2>3. /\ Len(e[p].keys) <= LeafMax /\ Len(e[p].keys) >= 1
        /\ p # root_page_id => Len(e[p].keys) >= LeafMin
    BY <1>1, <1>4, <2>1, <2>2, Sizes DEF Filled
  <2>4. \A r \in DOMAIN e : r # p => Filled(e, root_page_id, NoPage, r)
    BY <1>3, <1>4 DEF Filled
  <2>5. Cardinality(DOMAIN e) < MaxPages /\ \A t \in Thread : RememberedBy(t) \subseteq DOMAIN e
    BY <1>0, <1>1, <1>4
  <2> QED BY <1>2, <1>4, <2>3, <2>4, <2>5, SplitLeafPasses
<1> HIDE DEF c
<1>6. /\ DOMAIN pages \subseteq DOMAIN c.pages /\ IsFiniteSet(DOMAIN c.pages)
      /\ Cardinality(DOMAIN c.pages) <= Cardinality(DOMAIN pages) + 1
  <2>1. IsFiniteSet(DOMAIN e)
    BY <1>0, <1>4
  <2> QED BY <1>4, <1>5, <2>1, PassedSize
<1>7. Stored(c.pages) = Stored(pages) \cup {k} /\ \A r \in DOMAIN pages : r # p => c.pages[r] = pages[r]
  BY <1>4, <1>5 DEF Passed
<1>8. \E lo2, hi2, lev2 :
         /\ \A r \in DOMAIN pages : lev2[r] = lev[r]
         /\ IF c.page = NoPage THEN Whole(c.pages, root_page_id, lo2, hi2, lev2)
            ELSE Tree(c.pages, root_page_id, lo2, hi2, lev2, p, c.page) /\ c.key = hi2[p] /\ c.key \in Key
  <2>1. CASE c.page = NoPage
    <3>1. Whole(c.pages, root_page_id, lo, hi, lev)
      BY <1>5, <2>1, PageIds DEF Passed
    <3> QED BY <2>1, <3>1
  <2>2. CASE c.page # NoPage
    BY <1>4, <1>5, <2>2 DEF Passed
  <2> QED BY <2>1, <2>2
<1>9. (Len(q) - 1) + 1 = Len(q) /\ Len(q) \in (Len(q) - 1 + 1)..Len(q) /\ Len(q) - (Len(q) - 1) = 1
  BY <1>0
<1>10. \A r \in DOMAIN pages : (\A j \in ((Len(q) - 1) + 1)..Len(q) : r # q[j]) => c.pages[r] = pages[r]
  BY <1>1, <1>7, <1>9
<1>11. Cardinality(DOMAIN c.pages) <= Cardinality(DOMAIN pages) + Len(q) - (Len(q) - 1)
  <2>1. Cardinality(DOMAIN pages) + Len(q) - (Len(q) - 1) = Cardinality(DOMAIN pages) + 1
    BY <1>0
  <2> QED BY <1>6, <2>1
<1>12. Risen(c, root_page_id, lev, q, Len(q) - 1, k)
  <2>1. q[(Len(q) - 1) + 1] = p
    BY <1>1, <1>9
  <2> QED BY <1>6, <1>7, <1>8, <1>10, <1>11, <2>1 DEF Risen
<1> QED BY <1>12 DEF c, e, p

\* At the page above.
LEMMA ParentRises ==
    ASSUME NEW lo, NEW hi, NEW lev, NEW q, NEW k, Entering(lo, hi, lev, q, k),
           NEW i \in 1..(Len(q) - 1), NEW c, Risen(c, root_page_id, lev, q, i, k)
    PROVE  Risen(IntoParent(c, q[i]), root_page_id, lev, q, i - 1, k)
<1> DEFINE p == q[i]
           x == q[i + 1]
           d == IntoParent(c, p)
<1>0. /\ DOMAIN pages \subseteq PageId /\ Cardinality(DOMAIN pages) \in Nat
      /\ Len(q) \in Nat /\ Len(q) >= 1 /\ Len(q) <= MaxHeight /\ i \in 1..Len(q) /\ i + 1 \in 1..Len(q)
      /\ i - 1 \in Nat /\ (i - 1) + 1 = i /\ i \in Nat
      /\ \A n \in Nat : n <= MaxHeight => Cardinality(DOMAIN pages) + n < MaxPages
  BY EnteringSizes
<1>1. /\ Whole(pages, root_page_id, lo, hi, lev) /\ root_page_id # NoPage
      /\ Descent(lo, hi, lev, k, q) /\ \A t \in Thread : RememberedBy(t) \subseteq DOMAIN pages
  BY DEF Entering
<1>2. /\ p \in DOMAIN pages /\ x \in DOMAIN pages /\ x # NoPage
      /\ \E j \in DOMAIN pages[p].kids : pages[p].kids[j] = x
  BY <1>0, <1>1, PageIds DEF Descent
<1>3. /\ DOMAIN pages \subseteq DOMAIN c.pages /\ IsFiniteSet(DOMAIN c.pages)
      /\ Cardinality(DOMAIN c.pages) <= Cardinality(DOMAIN pages) + Len(q) - i
      /\ Stored(c.pages) = Stored(pages) \cup {k}
      /\ \A r \in DOMAIN pages : (\A j \in (i + 1)..Len(q) : r # q[j]) => c.pages[r] = pages[r]
  BY DEF Risen
<1>4. PICK lo2, hi2, lev2 :
          /\ \A r \in DOMAIN pages : lev2[r] = lev[r]
          /\ IF c.page = NoPage THEN Whole(c.pages, root_page_id, lo2, hi2, lev2)
             ELSE Tree(c.pages, root_page_id, lo2, hi2, lev2, x, c.page) /\ c.key = hi2[x] /\ c.key \in Key
  BY DEF Risen
<1>5. \A r \in DOMAIN pages : (\A j \in ((i - 1) + 1)..Len(q) : r # q[j]) =>
                                 r # p /\ c.pages[r] = pages[r]
  <2> SUFFICES ASSUME NEW r \in DOMAIN pages, \A j \in ((i - 1) + 1)..Len(q) : r # q[j]
               PROVE  r # p /\ c.pages[r] = pages[r]
    OBVIOUS
  <2>1. i \in ((i - 1) + 1)..Len(q) /\ \A j \in (i + 1)..Len(q) : j \in ((i - 1) + 1)..Len(q)
    BY <1>0
  <2> QED BY <1>3, <2>1
<1>6. Cardinality(DOMAIN c.pages) \in Nat
  BY <1>3, FS_CardinalityType
<1> HIDE DEF p, x, d
<1>7. CASE c.page = NoPage
  <2>1. d = c
    BY <1>7 DEF d, IntoParent
  <2>2. Cardinality(DOMAIN c.pages) <= Cardinality(DOMAIN pages) + Len(q) - (i - 1)
    BY <1>0, <1>3, <1>6
  <2>3. \E lo3, hi3, lev3 :
          /\ \A r \in DOMAIN pages : lev3[r] = lev[r]
          /\ IF c.page = NoPage THEN Whole(c.pages, root_page_id, lo3, hi3, lev3)
             ELSE Tree(c.pages, root_page_id, lo3, hi3, lev3, q[(i - 1) + 1], c.page)
                  /\ c.key = hi3[q[(i - 1) + 1]] /\ c.key \in Key
    BY <1>4, <1>7
  <2>4. Risen(c, root_page_id, lev, q, i - 1, k)
    BY <1>3, <1>5, <2>2, <2>3 DEF Risen
  <2> QED BY <2>1, <2>4 DEF d, p
<1>8. CASE c.page # NoPage
  <2> DEFINE pgs == c.pages
             y   == c.page
             key == c.key
  <2>1. d = IntoParent(Carry(pgs, key, y), p)
    BY <1>8 DEF d, IntoParent, Carry
  <2>2. Tree(pgs, root_page_id, lo2, hi2, lev2, x, y) /\ key = hi2[x] /\ key \in Key
    BY <1>4, <1>8
  <2>3. c.pages[p] = pages[p]
    <3>1. \A j \in (i + 1)..Len(q) : j \in 1..Len(q) /\ i # j
      BY <1>0
    <3>2. \A j \in (i + 1)..Len(q) : p # q[j]
      BY <1>0, <1>1, <3>1, DescentDiffers DEF p
    <3> QED BY <1>2, <1>3, <3>2
  <2>4. PICK j \in DOMAIN pages[p].kids : pages[p].kids[j] = x
    BY <1>2
  <2>5. ~pages[p].leaf
    <3>1. PageShape(pages, lo, hi, lev, NoPage, NoPage, p)
      BY <1>1, <1>2 DEF Whole, Tree, Shaped
    <3>2. pages[p].kids # <<>>
      BY <2>4
    <3> QED BY <3>1, <3>2 DEF PageShape, LeafShape, InnerShape
  <2>6. PendingAt(pgs, root_page_id, lo2, hi2, lev2, x, y, p, j, key)
    BY <1>2, <1>3, <2>2, <2>3, <2>4, <2>5 DEF PendingAt, Tree
  <2>7. Cardinality(DOMAIN pgs) < MaxPages
    <3>1. Len(q) - i \in Nat /\ Len(q) - i <= MaxHeight
      BY <1>0, TreeBounds
    <3>2. Cardinality(DOMAIN pages) + (Len(q) - i) < MaxPages
      BY <1>0, <3>1
    <3> QED BY <1>0, <1>3, <1>6, <3>2, TreeBounds
  <2>8. \A t \in Thread : RememberedBy(t) \subseteq DOMAIN pgs
    BY <1>1, <1>3
  <2>9. \A r \in DOMAIN pgs : Filled(pgs, root_page_id, x, r)
    BY <2>2 DEF Tree
  <2> HIDE DEF pgs, y, key
  <2>10. Passed(d, pgs, root_page_id, lo2, hi2, lev2, p)
    BY <2>1, <2>6, <2>7, <2>8, <2>9, IntoParentPasses
  <2>11. /\ DOMAIN pgs \subseteq DOMAIN d.pages /\ IsFiniteSet(DOMAIN d.pages)
         /\ Cardinality(DOMAIN d.pages) \in Nat
         /\ Cardinality(DOMAIN d.pages) <= Cardinality(DOMAIN pgs) + 1
    <3>1. IsFiniteSet(DOMAIN pgs)
      BY <1>3 DEF pgs
    <3> QED BY <2>10, <3>1, PassedSize
  <2>12. Cardinality(DOMAIN d.pages) <= Cardinality(DOMAIN pages) + Len(q) - (i - 1)
    <3>1. Cardinality(DOMAIN pgs) \in Nat /\ Cardinality(DOMAIN pgs) <= Cardinality(DOMAIN pages) + Len(q) - i
      BY <1>3, <1>6 DEF pgs
    <3> QED BY <1>0, <2>11, <3>1
  <2>13. /\ Stored(d.pages) = Stored(pages) \cup {k}
         /\ \A r \in DOMAIN pages : (\A m \in ((i - 1) + 1)..Len(q) : r # q[m]) => d.pages[r] = pages[r]
    BY <1>3, <1>5, <2>10 DEF Passed, pgs
  <2>14. \E lo3, hi3, lev3 :
          /\ \A r \in DOMAIN pages : lev3[r] = lev[r]
          /\ IF d.page = NoPage THEN Whole(d.pages, root_page_id, lo3, hi3, lev3)
             ELSE Tree(d.pages, root_page_id, lo3, hi3, lev3, q[(i - 1) + 1], d.page)
                  /\ d.key = hi3[q[(i - 1) + 1]] /\ d.key \in Key
    <3>1. q[(i - 1) + 1] = p
      BY <1>0 DEF p
    <3>2. CASE d.page = NoPage
      <4>1. Whole(d.pages, root_page_id, lo2, hi2, lev2)
        BY <2>10, <3>2, PageIds DEF Passed
      <4> QED BY <1>4, <3>2, <4>1
    <3>3. CASE d.page # NoPage
      <4>1. PICK lo3, hi3, lev3 :
               /\ Tree(d.pages, root_page_id, lo3, hi3, lev3, p, d.page)
               /\ d.key = hi3[p] /\ d.key \in Key
               /\ \A r \in DOMAIN pgs : lev3[r] = lev2[r]
        BY <2>10, <3>3 DEF Passed
      <4>2. \A r \in DOMAIN pages : lev3[r] = lev[r]
        BY <1>3, <1>4, <4>1 DEF pgs
      <4> QED BY <3>1, <3>3, <4>1, <4>2
    <3> QED BY <3>2, <3>3
  <2>15. DOMAIN pages \subseteq DOMAIN d.pages
    BY <1>3, <2>11 DEF pgs
  <2>16. Risen(d, root_page_id, lev, q, i - 1, k)
    BY <2>11, <2>12, <2>13, <2>14, <2>15 DEF Risen
  <2> QED BY <2>16 DEF d, p
<1> QED BY <1>7, <1>8

\* At the root.
LEMMA InsertedRises ==
    ASSUME NEW lo, NEW hi, NEW lev, NEW q, NEW k, Entering(lo, hi, lev, q, k)
    PROVE  \E c : InsertedAlong(q, k) = {c} /\ Risen(c, root_page_id, lev, q, 0, k)
<1> DEFINE e == With(pages, Last(q), Entered(pages[Last(q)], k))
           m == Len(q) - 1
<1>0. Len(q) \in Nat /\ Len(q) >= 1 /\ m \in Nat /\ m - m = 0 /\ m - 0 = Len(q) - 1
  BY EnteringSizes
<1>1. PICK f : Climbs(f, m, e, q) /\ InsertedAlong(q, k) = f[m]
  BY <1>0, InsertedClimbs
<1> DEFINE At(n) == \E c : f[n] = {c} /\ Risen(c, root_page_id, lev, q, m - n, k)
           S == {n \in Nat : n <= m => At(n)}
<1> HIDE DEF e
<1>2. At(0)
  <2>1. 0 \in 0..m
    BY <1>0
  <2>2. f[0] = {SplitLeaf(e, Last(q))}
    BY <1>1, <2>1 DEF Climbs
  <2>3. Risen(SplitLeaf(e, Last(q)), root_page_id, lev, q, m - 0, k)
    BY <1>0, LeafRises DEF e
  <2> QED BY <2>2, <2>3
<1>3. ASSUME NEW n \in Nat, n + 1 <= m, At(n) PROVE At(n + 1)
  <2>1. PICK c : f[n] = {c} /\ Risen(c, root_page_id, lev, q, m - n, k)
    BY <1>3
  <2> DEFINE i == m - n
  <2>2. i \in 1..(Len(q) - 1) /\ i - 1 = m - (n + 1) /\ Len(q) - (n + 1) = i
    BY <1>0, <1>3
  <2>3. n + 1 \in 0..m /\ n + 1 # 0 /\ (n + 1) - 1 = n
    BY <1>0, <1>3
  <2>4. f[n + 1] = Raised(f[n], q, n + 1)
    BY <1>1, <2>3 DEF Climbs
  <2>5. f[n + 1] = {IntoParent(c, q[Len(q) - (n + 1)])}
    BY <2>1, <2>4 DEF Raised
  <2> HIDE DEF i, m
  <2>6. Risen(IntoParent(c, q[i]), root_page_id, lev, q, i - 1, k)
    BY <2>1, <2>2, ParentRises DEF i
  <2>7. f[n + 1] = {IntoParent(c, q[i])} /\ Risen(IntoParent(c, q[i]), root_page_id, lev, q, m - (n + 1), k)
    BY <2>2, <2>5, <2>6
  <2> QED BY <2>7
<1> HIDE DEF At
<1>4. 0 \in S
  BY <1>2
<1>5. \A n \in Nat : n \in S => n + 1 \in S
  <2> SUFFICES ASSUME NEW n \in Nat, n \in S, n + 1 <= m PROVE At(n + 1)
    OBVIOUS
  <2>1. n <= m
    BY <1>0
  <2> QED BY <1>3, <2>1
<1>6. m \in S
  <2> HIDE DEF S
  <2> QED BY <1>0, <1>4, <1>5, Induction
<1>7. At(m)
  BY <1>0, <1>6
<1> QED BY <1>0, <1>1, <1>7 DEF At

-----------------------------------------------------------------------------
(* What an insertion does to the tree. *)

\* The header page and the pages below it.
TreeAt(root, pgs, lo, hi, lev) ==
    IF root = NoPage THEN DOMAIN pgs = {}
    ELSE Whole(pgs, root, lo, hi, lev) /\ lev[root] < MaxHeight

\* Key k has been inserted, into the pages of S.
Took(k, S) ==
    /\ root_page_id' # NoPage
    /\ DOMAIN pages \subseteq DOMAIN pages' /\ Stored(pages') = Stored(pages) \cup {k}
    /\ \A p \in DOMAIN pages \ S : pages'[p] = pages[p]

LEMMA InsertDownTakes ==
    ASSUME NEW lo, NEW hi, NEW lev, NEW q, NEW t, NEW k, k = at[t].key, Entering(lo, hi, lev, q, k),
           InsertDown(t, q)
    PROVE  Took(k, Range(q)) /\ \E lo2, hi2, lev2 : TreeAt(root_page_id', pages', lo2, hi2, lev2)
<1>1. PICK c : InsertedAlong(q, k) = {c} /\ Risen(c, root_page_id, lev, q, 0, k)
  BY InsertedRises
<1>2. /\ DOMAIN pages \subseteq PageId /\ IsFiniteSet(DOMAIN pages) /\ Cardinality(DOMAIN pages) \in Nat
      /\ Len(q) \in Nat /\ Len(q) >= 1 /\ Len(q) <= MaxHeight
      /\ Cardinality(DOMAIN pages) + Len(q) < MaxPages
  BY EnteringSizes
<1>3. /\ root_page_id # NoPage /\ lev[root_page_id] < MaxHeight /\ lev[root_page_id] \in Nat
      /\ root_page_id \in DOMAIN pages
      /\ Len(q) = lev[root_page_id] + 1 /\ ~Has(pages[Last(q)], k) /\ q[1] = root_page_id /\ Head(q) = q[1]
      /\ \A u \in Thread : RememberedBy(u) \subseteq DOMAIN pages
  BY DEF Entering, Whole, Tree, Shaped, Descent
<1>4. /\ DOMAIN pages \subseteq DOMAIN c.pages /\ IsFiniteSet(DOMAIN c.pages)
      /\ Cardinality(DOMAIN c.pages) <= Cardinality(DOMAIN pages) + Len(q) - 0
      /\ Stored(c.pages) = Stored(pages) \cup {k}
      /\ \A p \in DOMAIN pages : (\A j \in (0 + 1)..Len(q) : p # q[j]) => c.pages[p] = pages[p]
  BY <1>1 DEF Risen
<1>5. PICK lo2, hi2, lev2 :
         /\ \A p \in DOMAIN pages : lev2[p] = lev[p]
         /\ IF c.page = NoPage THEN Whole(c.pages, root_page_id, lo2, hi2, lev2)
            ELSE /\ Tree(c.pages, root_page_id, lo2, hi2, lev2, q[0 + 1], c.page)
                 /\ c.key = hi2[q[0 + 1]] /\ c.key \in Key
  BY <1>1 DEF Risen
<1>6. \A p \in DOMAIN pages \ Range(q) : c.pages[p] = pages[p]
  <2>1. \A j \in 1..Len(q) : q[j] \in Range(q)
    <3>1. DOMAIN q = 1..Len(q)
      BY DEF Entering, Descent
    <3> QED BY <3>1 DEF Range
  <2> QED BY <1>4, <2>1
<1>7. CASE c.page = NoPage
  <2>1. pages' = c.pages /\ root_page_id' = root_page_id
    BY <1>1, <1>3, <1>7 DEF InsertDown
  <2>2. TreeAt(root_page_id', pages', lo2, hi2, lev2)
    BY <1>3, <1>5, <1>7, <2>1 DEF TreeAt
  <2>3. Took(k, Range(q))
    BY <1>3, <1>4, <1>6, <2>1 DEF Took
  <2> QED BY <2>2, <2>3
<1>8. CASE c.page # NoPage
  <2> DEFINE new == Fresh(c.pages)
             pgs2 == With(c.pages, new, Inner(<<c.key>>, <<root_page_id, c.page>>))
  <2>1. Len(q) < MaxHeight /\ pages' = pgs2 /\ root_page_id' = new
    BY <1>1, <1>3, <1>8 DEF InsertDown
  <2>2. Tree(c.pages, root_page_id, lo2, hi2, lev2, root_page_id, c.page) /\ c.key = hi2[root_page_id]
        /\ c.key \in Key
    BY <1>3, <1>5, <1>8
  <2>3. new \in PageId /\ new \notin DOMAIN c.pages /\ new # NoPage
    <3>1. Shaped(c.pages, root_page_id, lo2, hi2, lev2, root_page_id, c.page)
      BY <2>2 DEF Tree
    <3>2. DOMAIN c.pages \subseteq PageId /\ Refs(c.pages)
      BY <3>1, ShapedRefs DEF Shaped
    <3>3. Cardinality(DOMAIN c.pages) < MaxPages
      <4>1. Cardinality(DOMAIN c.pages) \in Nat /\ MaxPages \in Nat
        BY <1>4, FS_CardinalityType, TreeBounds
      <4> QED BY <1>2, <1>4, <4>1
    <3>4. \A u \in Thread : RememberedBy(u) \subseteq DOMAIN c.pages
      BY <1>3, <1>4
    <3> QED BY <3>2, <3>3, <3>4, FreshPage
  <2> HIDE DEF new
  <2>4. Rooted(pgs2, new, lev2[root_page_id] + 1, Stored(c.pages))
    <3>1. root_page_id # NoPage
      BY <1>3
    <3> QED BY ONLY <2>2, <2>3, <3>1, NewRoot
  <2>9. DOMAIN pgs2 = DOMAIN c.pages \cup {new} /\ \A p \in DOMAIN c.pages : pgs2[p] = c.pages[p]
    BY <2>3 DEF With
  <2> HIDE DEF pgs2
  <2>5. PICK lo3, hi3, lev3 : Whole(pgs2, new, lo3, hi3, lev3) /\ lev3[new] = lev2[root_page_id] + 1
    BY <2>4 DEF Rooted
  <2>6. lev3[new] < MaxHeight
    <3>1. lev3[new] = Len(q)
      BY <1>3, <1>5, <2>5
    <3> QED BY <2>1, <3>1
  <2>7. TreeAt(root_page_id', pages', lo3, hi3, lev3)
    BY <2>1, <2>3, <2>5, <2>6 DEF TreeAt
  <2>8. Took(k, Range(q))
    BY <1>4, <1>6, <2>1, <2>3, <2>4, <2>9 DEF Took, Rooted
  <2> QED BY <2>7, <2>8
<1> QED BY <1>7, <1>8

LEMMA InsertEmptyTakes ==
    ASSUME DOMAIN pages = {}, PagesLeft, \A u \in Thread : RememberedBy(u) \subseteq DOMAIN pages,
           NEW t, NEW k, k = at[t].key, k \in Key, InsertEmpty(t)
    PROVE  Took(k, {}) /\ \E lo2, hi2, lev2 : TreeAt(root_page_id', pages', lo2, hi2, lev2)
<1> DEFINE new == Fresh(pages)
           pgs2 == With(pages, new, Leaf(<<k>>, NoPage))
<1>1. new \in PageId /\ new # NoPage
  <2>1. DOMAIN pages \subseteq PageId /\ Refs(pages)
    BY DEF Refs
  <2>2. Cardinality(DOMAIN pages) < MaxPages
    <3>1. Cardinality(DOMAIN pages) = 0
      BY FS_EmptySet
    <3>2. Cardinality(Thread) \in Nat /\ MaxHeight \in Nat /\ MaxHeight # 0 /\ MaxPages \in Nat
      BY TreeBounds, FS_CardinalityType
    <3> QED BY <3>1, <3>2 DEF PagesLeft
  <2> QED BY <2>1, <2>2, FreshPage
<1>2. root_page_id' = new /\ pages' = pgs2
  BY DEF InsertEmpty
<1> HIDE DEF new
<1>3. Rooted(pgs2, new, 0, {k})
  <2>1. DOMAIN pages = {} /\ k \in Key
    OBVIOUS
  <2> QED BY ONLY <1>1, <2>1, FirstLeaf
<1> HIDE DEF pgs2
<1>4. Stored(pages) = {}
  BY DEF Stored
<1>5. PICK lo, hi, lev : Whole(pgs2, new, lo, hi, lev) /\ lev[new] = 0
  BY <1>3 DEF Rooted
<1>6. TreeAt(root_page_id', pages', lo, hi, lev)
  BY <1>1, <1>2, <1>5, TreeBounds DEF TreeAt
<1>7. Took(k, {})
  BY <1>1, <1>2, <1>3, <1>4 DEF Took, Rooted
<1> QED BY <1>6, <1>7

-----------------------------------------------------------------------------
(* Iterators. *)

\* The places after one more hop.
Hopped(S) ==
    {IF s[1] # NoPage /\ s[2] > Len(pages[s[1]].keys) THEN <<pages[s[1]].next, 1>> ELSE s : s \in S}

\* f has the first m hops from slot i of page p.
Hops(f, m, p, i) ==
    /\ f = [n \in 0..m |-> f[n]]
    /\ \A n \in 0..m : /\ n = 0 => f[n] = {<<p, i>>}
                       /\ n # 0 => f[n] = Hopped(f[n - 1])

LEMMA HopsExist == ASSUME NEW p, NEW i, NEW m \in Nat PROVE \E f : Hops(f, m, p, i)
<1> DEFINE S == {n \in Nat : \E f : Hops(f, n, p, i)}
<1>1. 0 \in S
  <2> DEFINE f == [j \in 0..0 |-> {<<p, i>>}]
  <2>1. Hops(f, 0, p, i)
    BY DEF Hops
  <2> QED BY <2>1
<1>2. ASSUME NEW n \in Nat, n \in S PROVE n + 1 \in S
  <2>1. PICK f : Hops(f, n, p, i)
    BY <1>2
  <2> DEFINE g == [j \in 0..(n + 1) |-> IF j = n + 1 THEN Hopped(f[n]) ELSE f[j]]
  <2>2. /\ g = [j \in 0..(n + 1) |-> g[j]]
        /\ \A j \in 0..n : g[j] = f[j]
        /\ g[n + 1] = Hopped(f[n])
    OBVIOUS
  <2> HIDE DEF g
  <2>3. ASSUME NEW j \in 0..(n + 1)
        PROVE  /\ j = 0 => g[j] = {<<p, i>>}
               /\ j # 0 => g[j] = Hopped(g[j - 1])
    <3>1. CASE j = n + 1
      <4>1. j # 0 /\ n \in 0..n /\ j - 1 = n
        BY <3>1
      <4> QED BY <2>2, <3>1, <4>1
    <3>2. CASE j # n + 1
      <4>1. j \in 0..n /\ (j # 0 => j - 1 \in 0..n)
        BY <3>2
      <4> QED BY <2>1, <2>2, <4>1 DEF Hops
    <3> QED BY <3>1, <3>2
  <2>4. Hops(g, n + 1, p, i)
    BY <2>2, <2>3 DEF Hops
  <2> QED BY <2>4
<1> HIDE DEF S
<1>3. m \in S
  BY <1>1, <1>2, Induction
<1> QED BY <1>3 DEF S

LEMMA SettledHops ==
    ASSUME NEW p, NEW i, Cardinality(DOMAIN pages) \in Nat
    PROVE  \E f : /\ Hops(f, Cardinality(DOMAIN pages), p, i)
                  /\ Settled(p, i) = f[Cardinality(DOMAIN pages)]
<1> DEFINE m == Cardinality(DOMAIN pages)
           Equation(f) ==
              f = [n \in 0..m |->
                     IF n = 0 THEN {<<p, i>>}
                     ELSE {IF s[1] # NoPage /\ s[2] > Len(pages[s[1]].keys) THEN <<pages[s[1]].next, 1>>
                           ELSE s : s \in f[n - 1]}]
           hop == CHOOSE f : Equation(f)
<1>1. ASSUME NEW f, Hops(f, m, p, i) PROVE Equation(f)
  BY <1>1 DEF Hops, Hopped
<1>2. ASSUME NEW f, Equation(f) PROVE Hops(f, m, p, i)
  <2> DEFINE g == [n \in 0..m |-> IF n = 0 THEN {<<p, i>>} ELSE Hopped(f[n - 1])]
  <2>1. f = g
    BY <1>2 DEF Hopped
  <2>2. /\ g = [n \in 0..m |-> g[n]]
        /\ \A n \in 0..m : g[n] = IF n = 0 THEN {<<p, i>>} ELSE Hopped(f[n - 1])
    OBVIOUS
  <2> HIDE DEF g
  <2> QED BY <2>1, <2>2 DEF Hops
<1>3. Settled(p, i) = hop[m]
  BY DEF Settled
<1> HIDE DEF Equation
<1>4. \E f : Equation(f)
  BY <1>1, HopsExist
<1>5. Equation(hop)
  BY <1>4
<1> QED BY <1>2, <1>3, <1>5

\* The leaf after a leaf.
LEMMA NextLeaf ==
    ASSUME NEW root, NEW lo, NEW hi, NEW lev, Whole(pages, root, lo, hi, lev),
           NEW p \in DOMAIN pages, pages[p].leaf
    PROVE  /\ lev[p] = 0 /\ lo[p] \in Nat /\ hi[p] \in Nat /\ Under(lo[p], hi[p])
           /\ pages[p].next = NoPage <=> hi[p] = 0
           /\ pages[p].next # NoPage =>
                 /\ pages[p].next \in DOMAIN pages /\ pages[pages[p].next].leaf
                 /\ lev[pages[p].next] = 0 /\ lo[pages[p].next] = hi[p]
           /\ Len(pages[p].keys) >= 1 /\ Len(pages[p].keys) \in Nat
<1>1. /\ Shaped(pages, root, lo, hi, lev, NoPage, NoPage) /\ Filled(pages, root, NoPage, p)
      /\ p \in PageId /\ PageShape(pages, lo, hi, lev, NoPage, NoPage, p)
  BY DEF Whole, Tree, Shaped
<1>2. LeafShape(pages, lo, hi, lev, p)
  BY <1>1 DEF PageShape, LeafShape, InnerShape
<1>3. lo[p] \in Nat /\ hi[p] \in Nat /\ Under(lo[p], hi[p])
  BY <1>1 DEF Shaped, PageShape
<1>4. pages[p].next # NoPage => pages[pages[p].next].leaf
  BY <1>1, <1>2, LeafLevel DEF LeafShape
<1>5. Len(pages[p].keys) >= 1 /\ Len(pages[p].keys) \in Nat
  <2>1. Len(pages[p].keys) \in Nat
    BY <1>1, PageFields
  <2> QED BY <1>1, <2>1, Sizes DEF Filled
<1> QED BY <1>2, <1>3, <1>4, <1>5 DEF LeafShape

\* One hop is enough: no leaf is empty.
LEMMA SettledIs ==
    ASSUME NEW root, NEW lo, NEW hi, NEW lev, Whole(pages, root, lo, hi, lev),
           NEW p \in DOMAIN pages, pages[p].leaf, NEW i \in 1..(Len(pages[p].keys) + 1)
    PROVE  Settled(p, i) = {IF i <= Len(pages[p].keys) THEN <<p, i>> ELSE <<pages[p].next, 1>>}
<1> DEFINE end == IF i <= Len(pages[p].keys) THEN <<p, i>> ELSE <<pages[p].next, 1>>
           m == Cardinality(DOMAIN pages)
<1>1. m \in Nat /\ m >= 1
  <2>1. DOMAIN pages \subseteq PageId /\ IsFiniteSet(PageId)
    <3>1. DOMAIN pages \subseteq PageId
      BY DEF Whole, Tree, Shaped
    <3> QED BY <3>1, FS_Interval, TreeBounds DEF PageId
  <2>2. IsFiniteSet(DOMAIN pages)
    BY <2>1, FS_Subset
  <2>3. m \in Nat /\ (m = 0 <=> DOMAIN pages = {})
    BY <2>2, FS_CardinalityType, FS_EmptySet
  <2> QED BY <2>3
<1> HIDE DEF m
<1>2. PICK f : Hops(f, m, p, i) /\ Settled(p, i) = f[m]
  BY <1>1, SettledHops DEF m
<1>3. p # NoPage
  BY PageIds DEF Whole, Tree, Shaped
<1>4. Hopped({<<p, i>>}) = {end}
  <2>1. Len(pages[p].keys) \in Nat
    BY NextLeaf
  <2>2. Hopped({<<p, i>>}) = {IF p # NoPage /\ i > Len(pages[p].keys) THEN <<pages[p].next, 1>> ELSE <<p, i>>}
    BY DEF Hopped
  <2>3. i > Len(pages[p].keys) <=> ~(i <= Len(pages[p].keys))
    BY <2>1
  <2> QED BY <1>3, <2>2, <2>3
<1>5. Hopped({end}) = {end}
  <2>1. Len(pages[p].keys) \in Nat /\ (i > Len(pages[p].keys) <=> ~(i <= Len(pages[p].keys)))
    BY NextLeaf
  <2>2. \A r, j : ~(r # NoPage /\ j > Len(pages[r].keys)) => Hopped({<<r, j>>}) = {<<r, j>>}
    BY DEF Hopped
  <2>3. CASE i <= Len(pages[p].keys)
    BY <2>1, <2>2, <2>3
  <2>4. CASE ~(i <= Len(pages[p].keys))
    <3> DEFINE r == pages[p].next
    <3>1. r # NoPage => Len(pages[r].keys) \in Nat /\ Len(pages[r].keys) >= 1
      BY NextLeaf
    <3>2. ~(r # NoPage /\ 1 > Len(pages[r].keys))
      BY <3>1
    <3> HIDE DEF r
    <3>3. Hopped({<<r, 1>>}) = {<<r, 1>>}
      BY <2>2, <3>2
    <3> QED BY <2>4, <3>3 DEF r
  <2> QED BY <2>3, <2>4
<1> HIDE DEF end
<1> DEFINE S == {n \in Nat : n + 1 \in 1..m => f[n + 1] = {end}}
<1>6. 0 \in S
  <2>1. 0 \in 0..m /\ 1 \in 0..m
    BY <1>1
  <2>2. f[0] = {<<p, i>>} /\ f[1] = Hopped(f[1 - 1])
    <3>1. \A n \in 0..m : n # 0 => f[n] = Hopped(f[n - 1])
      BY <1>2 DEF Hops
    <3>2. \A n \in 0..m : n = 0 => f[n] = {<<p, i>>}
      BY <1>2 DEF Hops
    <3>3. 1 # 0
      OBVIOUS
    <3>4. f[1] = Hopped(f[1 - 1])
      BY ONLY <2>1, <3>1, <3>3, Zenon
    <3> QED BY <2>1, <3>2, <3>4
  <2>3. 1 - 1 = 0 /\ 0 + 1 = 1 /\ 0 \in Nat
    OBVIOUS
  <2> QED BY <1>4, <2>2, <2>3
<1>7. ASSUME NEW n \in Nat, n \in S PROVE n + 1 \in S
  <2> SUFFICES ASSUME (n + 1) + 1 \in 1..m PROVE f[(n + 1) + 1] = {end}
    OBVIOUS
  <2>1. n + 1 \in 1..m /\ (n + 1) + 1 \in 0..m /\ (n + 1) + 1 # 0 /\ ((n + 1) + 1) - 1 = n + 1
    BY <1>1
  <2>2. f[(n + 1) + 1] = Hopped(f[n + 1])
    BY <1>2, <2>1 DEF Hops
  <2>3. f[n + 1] = {end}
    BY <1>7, <2>1
  <2> QED BY <1>5, <2>2, <2>3
<1> HIDE DEF S
<1>8. m - 1 \in Nat /\ m - 1 \in S
  BY <1>1, <1>6, <1>7, Induction
<1>9. (m - 1) + 1 = m /\ m \in 1..m
  BY <1>1
<1>10. f[m] = {end}
  BY <1>8, <1>9 DEF S
<1> QED BY <1>2, <1>10 DEF end

-----------------------------------------------------------------------------
(* What a scan still has to return. *)

\* A place of a scan: the keys to return are in the tree, beyond the current one.
AtScan(x) ==
    /\ x.do = "scan" =>
          /\ x.leaf \in DOMAIN pages /\ pages[x.leaf].leaf /\ x.pos \in DOMAIN pages[x.leaf].keys
          /\ x.kept \subseteq Stored(pages) /\ \A k \in x.kept : pages[x.leaf].keys[x.pos] < k
    /\ x.do = "scanned" => x.kept = {}

\* A stored key is in the leaf that covers it.
LEMMA StoredWhere ==
    ASSUME NEW root, NEW lo, NEW hi, NEW lev, Whole(pages, root, lo, hi, lev),
           NEW p \in DOMAIN pages, pages[p].leaf, NEW k \in Stored(pages), k \in Nat, Covers(lo, hi, p, k)
    PROVE  \E j \in DOMAIN pages[p].keys : pages[p].keys[j] = k
<1>1. PICK r \in DOMAIN pages : pages[r].leaf /\ k \in Range(pages[r].keys)
  BY DEF Stored
<1>2. PICK j \in DOMAIN pages[r].keys : pages[r].keys[j] = k
  BY <1>1 DEF Range
<1>3. Shaped(pages, root, lo, hi, lev, NoPage, NoPage)
  BY DEF Whole, Tree
<1>4. Covers(lo, hi, r, k)
  BY <1>2, <1>3 DEF Shaped, PageShape
<1>5. lev[p] = 0 /\ lev[r] = 0
  BY <1>1, NextLeaf
<1>6. p = r
  BY <1>3, <1>4, <1>5, OnePage
<1> QED BY <1>2, <1>6

\* The keys beyond the slots before slot i, without the key of slot i, are beyond it.
LEMMA BeyondSlot ==
    ASSUME NEW root, NEW lo, NEW hi, NEW lev, Whole(pages, root, lo, hi, lev),
           NEW p \in DOMAIN pages, pages[p].leaf, NEW i \in DOMAIN pages[p].keys,
           NEW k \in Stored(pages), k \in Nat, lo[p] <= k,
           \A j \in 1..(i - 1) : pages[p].keys[j] < k, k # pages[p].keys[i]
    PROVE  pages[p].keys[i] < k
<1> DEFINE keys == pages[p].keys
<1>1. PageShape(pages, lo, hi, lev, NoPage, NoPage, p)
  BY DEF Whole, Tree, Shaped
<1>2. /\ DOMAIN keys = 1..Len(keys) /\ Len(keys) \in Nat /\ \A j \in DOMAIN keys : keys[j] \in Nat
      /\ Ascending(keys) /\ Covers(lo, hi, p, keys[i]) /\ lo[p] \in Nat /\ hi[p] \in Nat
  <2>1. DOMAIN keys = 1..Len(keys) /\ Len(keys) \in Nat /\ \A j \in DOMAIN keys : keys[j] \in Nat
    BY <1>1, PageFields
  <2>2. lo[p] \in Nat /\ hi[p] \in Nat
    BY NextLeaf
  <2>3. Ascending(keys) /\ Covers(lo, hi, p, keys[i])
    BY <1>1 DEF PageShape
  <2> QED BY <2>1, <2>2, <2>3
<1> HIDE DEF keys
<1> SUFFICES ASSUME k < keys[i] PROVE FALSE
  BY <1>2 DEF keys
<1>3. Covers(lo, hi, p, k)
  <2>1. keys[i] \in Nat
    BY <1>2 DEF keys
  <2> QED BY <1>2, <2>1 DEF Covers, Under
<1>4. PICK j \in DOMAIN keys : keys[j] = k
  BY <1>3, StoredWhere DEF keys
<1>5. j \in 1..(i - 1) \/ j = i \/ i < j
  BY <1>2 DEF keys
<1>6. i < j => keys[i] < keys[j]
  BY <1>2 DEF Ascending, keys
<1> QED BY <1>2, <1>4, <1>5, <1>6 DEF keys

\* Where a scan gets from slot i of leaf p.
LEMMA SettledScans ==
    ASSUME NEW root, NEW lo, NEW hi, NEW lev, Whole(pages, root, lo, hi, lev),
           NEW p \in DOMAIN pages, pages[p].leaf, NEW i \in 1..(Len(pages[p].keys) + 1),
           NEW kept \in SUBSET Key, kept \subseteq Stored(pages),
           \A k \in kept : lo[p] <= k /\ \A j \in 1..(i - 1) : pages[p].keys[j] < k,
           NEW s \in Settled(p, i)
    PROVE  AtScan(ScanAt(s[1], s[2], kept))
<1>0. /\ p # NoPage /\ Key \subseteq Nat
      /\ \A r \in DOMAIN pages : DOMAIN pages[r].keys = 1..Len(pages[r].keys) /\ Len(pages[r].keys) \in Nat
  <2>1. \A r \in DOMAIN pages : PageShape(pages, lo, hi, lev, NoPage, NoPage, r)
    BY DEF Whole, Tree, Shaped
  <2>2. p # NoPage
    BY PageIds DEF Whole, Tree, Shaped
  <2> QED BY <2>1, <2>2, TreeBounds, PageFields
<1>1. s = IF i <= Len(pages[p].keys) THEN <<p, i>> ELSE <<pages[p].next, 1>>
  BY SettledIs
<1>2. CASE i <= Len(pages[p].keys)
  <2>1. s[1] = p /\ s[2] = i /\ i \in DOMAIN pages[p].keys
    BY <1>0, <1>1, <1>2
  <2>2. \A k \in kept \ {pages[p].keys[i]} : pages[p].keys[i] < k
    BY <1>0, <2>1, BeyondSlot
  <2>3. ScanAt(p, i, kept) =
           [do |-> "scan", op |-> "scan", leaf |-> p, pos |-> i, kept |-> kept \ {pages[p].keys[i]}]
    BY <1>0 DEF ScanAt
  <2> QED BY <2>1, <2>2, <2>3 DEF AtScan
<1>3. CASE ~(i <= Len(pages[p].keys))
  <2> DEFINE n == pages[p].next
  <2>1. s[1] = n /\ s[2] = 1 /\ i - 1 = Len(pages[p].keys)
    BY <1>0, <1>1, <1>3
  <2>2. \A k \in kept : hi[p] # 0 /\ hi[p] <= k
    <3> SUFFICES ASSUME NEW k \in kept PROVE ~Covers(lo, hi, p, k)
      <4>1. hi[p] \in Nat /\ lo[p] \in Nat
        BY NextLeaf
      <4>2. \A k \in kept : k \in Nat /\ lo[p] <= k
        BY <1>0
      <4> QED BY <4>1, <4>2 DEF Covers, Under
    <3>1. k \in Nat /\ \A j \in DOMAIN pages[p].keys : pages[p].keys[j] < k
      BY <1>0, <2>1
    <3> QED BY <3>1, StoredWhere
  <2>3. CASE n = NoPage
    <3>1. kept = {}
      BY <2>2, <2>3, NextLeaf
    <3>2. ScanAt(NoPage, 1, kept) = [do |-> "scanned", op |-> "scan", kept |-> kept]
      BY DEF ScanAt
    <3> QED BY <2>1, <2>3, <3>1, <3>2 DEF AtScan
  <2>4. CASE n # NoPage
    <3>1. n \in DOMAIN pages /\ pages[n].leaf /\ lo[n] = hi[p]
      BY <2>4, NextLeaf
    <3>2. 1 \in DOMAIN pages[n].keys
      <4> HIDE DEF n
      <4>1. Len(pages[n].keys) >= 1
        BY <3>1, NextLeaf
      <4> QED BY <1>0, <3>1, <4>1
    <3> HIDE DEF n
    <3>3. \A k \in kept : lo[n] <= k /\ k \in Nat
      BY <1>0, <2>2, <3>1
    <3>4. \A k \in kept \ {pages[n].keys[1]} : pages[n].keys[1] < k
      <4> TAKE k \in kept \ {pages[n].keys[1]}
      <4>1. \A j \in 1..(1 - 1) : pages[n].keys[j] < k
        OBVIOUS
      <4> QED BY <3>1, <3>2, <3>3, <4>1, BeyondSlot
    <3>5. ScanAt(n, 1, kept) =
             [do |-> "scan", op |-> "scan", leaf |-> n, pos |-> 1, kept |-> kept \ {pages[n].keys[1]}]
      BY <2>4 DEF ScanAt
    <3> QED BY <2>1, <3>1, <3>2, <3>4, <3>5 DEF AtScan
  <2> QED BY <2>3, <2>4
<1> QED BY <1>2, <1>3

-----------------------------------------------------------------------------
(* The tree while nobody removes. *)

\* Nobody removes, as in the database: of its code DeleteEntry alone calls
\* Remove, and nothing calls DeleteEntry.  The operations overlap as they will.
InsertOnly == Calls \subseteq [thread : Thread, op : {"insert", "get", "scan"}, key : Key]

\* What a thread can then be doing.
Place ==
    {Idle} \cup [do : {"insert", "slow"}, op : {"insert"}, key : Key]
           \cup [do : {"leaf-insert"}, op : {"insert"}, key : Key, leaf : PageId]
           \cup [do : {"get"}, op : {"get"}, key : Key]
           \cup [do : {"descend"}, op : {"get"}, key : Key, root : PageId]
           \cup [do : {"return"}, op : {"insert", "get"}, key : Key, res : BOOLEAN]
           \cup [do : {"scan"}, op : {"scan"}, leaf : PageId, pos : Nat, kept : SUBSET Key]
           \cup [do : {"scanned"}, op : {"scan"}, kept : SUBSET Key]

\* What a thread has seen of the tree: a leaf, a root, or the place of a scan.
Seen(x) ==
    /\ x.do = "leaf-insert" => x.leaf \in DOMAIN pages
    /\ x.do = "descend" => x.root \in DOMAIN pages
    /\ AtScan(x)

InsertInv ==
    /\ at \in [Thread -> Place]
    /\ \E lo, hi, lev : TreeAt(root_page_id, pages, lo, hi, lev)
    /\ \A t \in Thread : Seen(at[t])

\* The fields of a place.
LEMMA PlaceFields ==
    ASSUME NEW x \in Place
    PROVE  /\ x.do \in {"idle", "insert", "slow", "leaf-insert", "get", "descend", "return", "scan", "scanned"}
           /\ x.do = "idle" <=> x = Idle
           /\ x.do \in {"insert", "slow", "leaf-insert"} => x.op = "insert" /\ x.key \in Key
           /\ x.do = "leaf-insert" => x.leaf \in PageId
           /\ x.do \in {"get", "descend"} => x.op = "get" /\ x.key \in Key
           /\ x.do = "descend" => x.root \in PageId
           /\ x.do = "return" => x.op \in {"insert", "get"} /\ x.key \in Key /\ x.res \in BOOLEAN
           /\ x.do \in {"scan", "scanned"} => x.op = "scan" /\ x.kept \in SUBSET Key
           /\ x.do = "scan" => x.leaf \in PageId /\ x.pos \in Nat
BY DEF Place, Idle

\* Nobody repairs the tree.
LEMMA NoRepair ==
    ASSUME at \in [Thread -> Place], NEW t \in Thread
    PROVE  /\ WriteLatched(t) = {} /\ HeaderFree(t)
           /\ \A u \in Thread : Scanning(u) <=> at[u].do = "scan"
<1>1. \A u \in Thread : at[u] \in Place
  OBVIOUS
<1>2. \A u \in Thread : at[u].do \notin {"fix", "waiting"}
  BY <1>1, PlaceFields
<1>3. WriteLatched(t) = {}
  BY <1>2 DEF WriteLatched
<1> QED BY <1>2, <1>3 DEF HeaderFree, Scanning

\* Every page a thread remembers is in the tree.
LEMMA RememberedThere ==
    ASSUME InsertInv
    PROVE  \A t \in Thread : RememberedBy(t) \subseteq DOMAIN pages
<1> SUFFICES ASSUME NEW t \in Thread PROVE RememberedBy(t) \subseteq DOMAIN pages
  OBVIOUS
<1>1. at \in [Thread -> Place] /\ at[t] \in Place /\ Seen(at[t])
  BY DEF InsertInv
<1>2. at[t].do \notin {"leaf-remove", "discard"}
  BY <1>1, PlaceFields
<1>3. Scanning(t) <=> at[t].do = "scan"
  BY <1>1, NoRepair
<1> QED BY <1>1, <1>2, <1>3 DEF RememberedBy, Seen, AtScan

\* A step of t that leaves the tree alone.
LEMMA StaySame ==
    ASSUME InsertInv, NEW t \in Thread, NEW x \in Place, Seen(x), Goto(t, x),
           UNCHANGED <<root_page_id, pages>>
    PROVE  InsertInv'
<1>1. at \in [Thread -> Place] /\ \A u \in Thread : Seen(at[u])
  BY DEF InsertInv
<1>2. PICK lo, hi, lev : TreeAt(root_page_id, pages, lo, hi, lev)
  BY DEF InsertInv
<1>3. /\ at' \in [Thread -> Place] /\ at'[t] = x /\ \A u \in Thread \ {t} : at'[u] = at[u]
  BY <1>1 DEF Goto
<1>4. \A y : Seen(y) => /\ y.do = "leaf-insert" => y.leaf \in DOMAIN pages'
                        /\ y.do = "descend" => y.root \in DOMAIN pages'
                        /\ y.do = "scan" =>
                              /\ y.leaf \in DOMAIN pages' /\ pages'[y.leaf].leaf
                              /\ y.pos \in DOMAIN pages'[y.leaf].keys
                              /\ y.kept \subseteq Stored(pages')
                              /\ \A k \in y.kept : pages'[y.leaf].keys[y.pos] < k
                        /\ y.do = "scanned" => y.kept = {}
  BY DEF Seen, AtScan
<1>5. \A u \in Thread : Seen(at'[u])
  BY <1>1, <1>3
<1>6. \A u \in Thread : Seen(at[u])'
  BY <1>4, <1>5 DEF Seen, AtScan
<1>7. TreeAt(root_page_id', pages', lo, hi, lev)
  BY <1>2
<1> QED BY <1>3, <1>6, <1>7 DEF InsertInv

\* An insertion of t changes no page that a scan is on.
LEMMA TookKeeps ==
    ASSUME InsertInv, NEW t \in Thread, NEW x \in Place, x.do = "return", Goto(t, x),
           NEW k, NEW S, Took(k, S), S \cap Latched(t) = {},
           \E lo, hi, lev : TreeAt(root_page_id', pages', lo, hi, lev)
    PROVE  InsertInv'
<1>1. at \in [Thread -> Place] /\ \A u \in Thread : Seen(at[u])
  BY DEF InsertInv
<1>2. /\ at' \in [Thread -> Place] /\ at'[t] = x /\ \A u \in Thread \ {t} : at'[u] = at[u]
  BY <1>1 DEF Goto
<1>3. ASSUME NEW u \in Thread PROVE Seen(at[u])'
  <2>1. CASE u = t
    <3>1. at'[u].do = "return"
      BY <1>2, <2>1
    <3> QED BY <3>1 DEF Seen, AtScan
  <2>2. CASE u # t
    <3>1. at'[u] = at[u] /\ Seen(at[u])
      BY <1>1, <1>2, <2>2
    <3>2. CASE at[u].do \in {"leaf-insert", "descend"}
      BY <3>1, <3>2 DEF Seen, AtScan, Took
    <3>3. CASE at[u].do = "scan"
      <4>1. at[u].leaf \notin S
        <5>1. Scanning(u)
          BY <1>1, <3>3, NoRepair
        <5>2. at[u].leaf \in Latched(t)
          BY <2>2, <5>1 DEF Latched, ReadLatched
        <5> QED BY <5>2
      <4>2. at[u].leaf \in DOMAIN pages /\ AtScan(at[u])
        BY <3>1, <3>3 DEF Seen, AtScan
      <4>3. at[u].leaf \in DOMAIN pages' /\ pages'[at[u].leaf] = pages[at[u].leaf]
            /\ Stored(pages) \subseteq Stored(pages')
        BY <4>1, <4>2 DEF Took
      <4> QED BY <3>1, <3>3, <4>2, <4>3 DEF Seen, AtScan
    <3>4. CASE at[u].do \notin {"leaf-insert", "descend", "scan"}
      BY <3>1, <3>4 DEF Seen, AtScan
    <3> QED BY <3>2, <3>3, <3>4
  <2> QED BY <2>1, <2>2
<1> QED BY <1>2, <1>3 DEF InsertInv

\* InsertAtLeaf.
LEMMA LeafTakes ==
    ASSUME NEW lo, NEW hi, NEW lev, TreeAt(root_page_id, pages, lo, hi, lev), UNCHANGED root_page_id,
           NEW p \in DOMAIN pages, NEW k \in Key, pages[p].leaf, Covers(lo, hi, p, k),
           Len(pages[p].keys) + 1 < LeafMax, ~Has(pages[p], k),
           pages' = [pages EXCEPT ![p] = Entered(pages[p], k)]
    PROVE  Took(k, {p}) /\ TreeAt(root_page_id', pages', lo, hi, lev)
<1>1. /\ root_page_id # NoPage /\ Whole(pages, root_page_id, lo, hi, lev) /\ lev[root_page_id] < MaxHeight
  BY DEF TreeAt
<1>2. /\ Shaped(pages, root_page_id, lo, hi, lev, NoPage, NoPage)
      /\ \A r \in DOMAIN pages : Filled(pages, root_page_id, NoPage, r)
  BY <1>1 DEF Whole, Tree
<1> DEFINE e == With(pages, p, Entered(pages[p], k))
<1>3. /\ Shaped(e, root_page_id, lo, hi, lev, NoPage, NoPage)
      /\ DOMAIN e = DOMAIN pages /\ e[p].leaf /\ Len(e[p].keys) = Len(pages[p].keys) + 1
      /\ \A r \in DOMAIN pages : r # p => e[r] = pages[r]
      /\ Stored(e) = Stored(pages) \cup {k}
  BY <1>2, EnterShaped
<1>4. pages' = e
  <2>1. pages = [r \in DOMAIN pages |-> pages[r]]
    BY <1>2 DEF Shaped
  <2> QED BY <2>1, WithExcept
<1> HIDE DEF e
<1>5. ASSUME NEW r \in DOMAIN e PROVE Filled(e, root_page_id, NoPage, r)
  <2>1. CASE r = p
    <3>1. Filled(pages, root_page_id, NoPage, p) /\ Len(pages[p].keys) \in Nat
      <4>1. PageShape(pages, lo, hi, lev, NoPage, NoPage, p)
        BY <1>2 DEF Shaped
      <4> QED BY <1>2, <4>1, PageFields
    <3> QED BY <1>3, <2>1, <3>1, Sizes DEF Filled
  <2>2. CASE r # p
    BY <1>2, <1>3, <2>2 DEF Filled
  <2> QED BY <2>1, <2>2
<1>6. TreeAt(root_page_id', pages', lo, hi, lev)
  BY <1>1, <1>3, <1>4, <1>5 DEF TreeAt, Whole, Tree
<1>7. Took(k, {p})
  BY <1>1, <1>3, <1>4 DEF Took
<1> QED BY <1>6, <1>7

-----------------------------------------------------------------------------
(* The steps. *)

LEMMA Reaches == ASSUME InsertInv PROVE Reachable = Stored(pages)
<1>1. PICK lo, hi, lev : TreeAt(root_page_id, pages, lo, hi, lev)
  BY DEF InsertInv
<1> QED BY <1>1, ReachableStored DEF TreeAt

\* A key is inserted, or was there.
Enters(t) ==
    \/ UNCHANGED <<root_page_id, pages>> /\ Goto(t, Slow(t)) /\ at[t].do = "leaf-insert"
    \/ UNCHANGED <<root_page_id, pages>> /\ Goto(t, Done(t, FALSE)) /\ at[t].key \in Stored(pages)
    \/ /\ Goto(t, Done(t, TRUE)) /\ at[t].key \notin Stored(pages)
       /\ Stored(pages') = Stored(pages) \cup {at[t].key}

\* The places an operation goes to.
LEMMA NextPlaces ==
    ASSUME InsertInv, NEW t \in Thread
    PROVE  /\ at[t].do \in {"insert", "leaf-insert", "slow"} => Slow(t) \in Place
           /\ at[t].do \in {"insert", "leaf-insert", "slow", "get", "descend"} =>
                 \A res \in BOOLEAN : Done(t, res) \in Place
<1>1. at[t] \in Place
  BY DEF InsertInv
<1>2. at[t].do \in {"insert", "leaf-insert", "slow"} => at[t].op = "insert" /\ at[t].key \in Key
  BY <1>1, PlaceFields
<1>3. at[t].do \in {"get", "descend"} => at[t].op = "get" /\ at[t].key \in Key
  BY <1>1, PlaceFields
<1> QED BY <1>2, <1>3 DEF Place, Slow, Done

\* A step of t inside its operation that leaves the tree alone and learns nothing of it.
LEMMA StayLearns ==
    ASSUME InsertInv, NEW t \in Thread, NEW x \in Place, x.do \in {"idle", "insert", "slow", "get", "return"},
           Goto(t, x), UNCHANGED <<root_page_id, pages>>
    PROVE  InsertInv'
<1>1. Seen(x)
  BY DEF Seen, AtScan
<1> QED BY <1>1, StaySame

\* A step of t that ends its operation.
LEMMA StayEnds ==
    ASSUME InsertInv, NEW t \in Thread, Goto(t, Idle), UNCHANGED <<root_page_id, pages>>
    PROVE  InsertInv'
<1>1. Idle \in Place /\ Idle.do = "idle"
  BY DEF Place, Idle
<1> QED BY <1>1, StayLearns

\* The leaf that is not stale is the leaf for the key, and has room for it.
LEMMA InsertAtLeafStep ==
    ASSUME InsertInv, LeavesFresh, NEW t \in Thread, InsertAtLeaf(t) PROVE InsertInv' /\ Enters(t)
<1> DEFINE p == at[t].leaf
           k == at[t].key
<1>1. /\ at[t].do = "leaf-insert" /\ p \notin Latched(t) /\ UNCHANGED root_page_id
  BY DEF InsertAtLeaf
<1>2. PICK lo, hi, lev : TreeAt(root_page_id, pages, lo, hi, lev)
  BY DEF InsertInv
<1>3. p \in DOMAIN pages
  BY <1>1 DEF InsertInv, Seen
<1>4. at[t].op = "insert" /\ k \in Key /\ at[t] # Idle
  <2>1. at[t] \in Place
    BY DEF InsertInv
  <2> QED BY <1>1, <2>1, PlaceFields
<1>5. CASE Has(pages[p], k)
  <2>1. Goto(t, Slow(t)) /\ UNCHANGED pages
    BY <1>3, <1>5 DEF InsertAtLeaf
  <2>2. Slow(t) \in Place /\ Slow(t).do = "slow"
    BY <1>1, NextPlaces DEF Slow
  <2> HIDE DEF p, k
  <2>3. InsertInv'
    BY <1>1, <2>1, <2>2, StayLearns
  <2> QED BY <1>1, <2>1, <2>3 DEF Enters
<1>6. CASE ~Has(pages[p], k)
  <2>1. /\ pages' = [pages EXCEPT ![p] = Entered(pages[p], k)] /\ Goto(t, Done(t, TRUE))
    BY <1>3, <1>6 DEF InsertAtLeaf
  <2>2. ~StaleLeaf(t)
    <3>1. at'[t] = Done(t, TRUE)
      BY <2>1 DEF Goto, InsertInv
    <3>2. at'[t] # at[t]
      BY <1>1, <3>1 DEF Done
    <3> QED BY <3>2 DEF LeavesFresh
  <2>3. p = LeafFor(k) /\ ~(Len(pages[p].keys) + 1 >= LeafMax)
    BY <1>1, <1>3, <1>6, <2>2 DEF StaleLeaf
  <2>4. Whole(pages, root_page_id, lo, hi, lev) /\ root_page_id # NoPage /\ lev[root_page_id] < MaxHeight
    BY <1>2, <1>3 DEF TreeAt
  <2>5. pages[p].leaf /\ Covers(lo, hi, p, k)
    BY <1>4, <2>3, <2>4, LeafForCovers
  <2>6. Len(pages[p].keys) + 1 < LeafMax
    <3>1. PageShape(pages, lo, hi, lev, NoPage, NoPage, p)
      BY <1>3, <2>4 DEF Whole, Tree, Shaped
    <3>2. Len(pages[p].keys) \in Nat /\ LeafMax \in Nat
      BY <1>3, <3>1, PageFields, TreeBounds
    <3> QED BY ONLY <2>3, <3>2
  <2> HIDE DEF p, k
  <2>7. Took(k, {p}) /\ TreeAt(root_page_id', pages', lo, hi, lev)
    BY <1>1, <1>2, <1>3, <1>4, <1>6, <2>1, <2>5, <2>6, LeafTakes
  <2>8. Done(t, TRUE) \in Place /\ Done(t, TRUE).do = "return"
    BY <1>1, NextPlaces DEF Done
  <2>9. InsertInv'
    <3>1. {p} \cap Latched(t) = {}
      BY <1>1
    <3>2. \E lo2, hi2, lev2 : TreeAt(root_page_id', pages', lo2, hi2, lev2)
      BY <2>7
    <3> HIDE DEF InsertInv, Took, TreeAt
    <3> QED BY <2>1, <2>7, <2>8, <3>1, <3>2, TookKeeps
  <2>10. k \notin Stored(pages)
    <3>1. k \in Nat
      BY <1>4, TreeBounds
    <3> QED BY <1>3, <1>6, <2>4, <2>5, <3>1, StoredWhere DEF Has, Range
  <2> QED BY <2>1, <2>7, <2>9, <2>10 DEF Enters, Took, k
<1> QED BY <1>5, <1>6

LEMMA InsertSlowStep ==
    ASSUME InsertInv, NEW t \in Thread, InsertSlow(t) PROVE InsertInv' /\ Enters(t)
<1> DEFINE k == at[t].key
<1>1. at[t].do = "slow" /\ PagesLeft
  BY DEF InsertSlow
<1>2. PICK lo, hi, lev : TreeAt(root_page_id, pages, lo, hi, lev)
  BY DEF InsertInv
<1>3. at[t].op = "insert" /\ k \in Key /\ k \in Nat /\ at[t] # Idle
  <2>1. at[t] \in Place
    BY DEF InsertInv
  <2> QED BY <1>1, <2>1, PlaceFields, TreeBounds
<1>4. \A u \in Thread : RememberedBy(u) \subseteq DOMAIN pages
  BY RememberedThere
<1>5. \A res \in BOOLEAN : Done(t, res) \in Place /\ Done(t, res).op = "insert" /\ Done(t, res).do = "return"
  BY <1>1, <1>3, NextPlaces DEF Done
<1>6. ASSUME NEW S, Took(k, S), S \cap Latched(t) = {}, Goto(t, Done(t, TRUE)), k \notin Stored(pages),
             \E lo2, hi2, lev2 : TreeAt(root_page_id', pages', lo2, hi2, lev2)
      PROVE  InsertInv' /\ Enters(t)
  <2>1. InsertInv'
    <3> HIDE DEF k
    <3> QED BY <1>5, <1>6, TookKeeps
  <2> QED BY <1>6, <2>1 DEF Enters, Took
<1>7. CASE root_page_id = NoPage
  <2>1. InsertEmpty(t) /\ DOMAIN pages = {}
    BY <1>2, <1>7 DEF InsertSlow, TreeAt
  <2>2. Took(k, {}) /\ \E lo2, hi2, lev2 : TreeAt(root_page_id', pages', lo2, hi2, lev2)
    BY <1>1, <1>3, <1>4, <2>1, InsertEmptyTakes
  <2>3. Goto(t, Done(t, TRUE)) /\ k \notin Stored(pages)
    BY <2>1 DEF InsertEmpty, Stored
  <2>4. {} \cap Latched(t) = {}
    OBVIOUS
  <2> HIDE DEF k
  <2> QED BY <1>6, <2>2, <2>3, <2>4
<1>8. CASE root_page_id # NoPage
  <2>1. Whole(pages, root_page_id, lo, hi, lev) /\ lev[root_page_id] < MaxHeight
    BY <1>2, <1>8 DEF TreeAt
  <2>2. PICK q : /\ Paths(root_page_id, k) = {q} /\ Descent(lo, hi, lev, k, q)
                 /\ Len(q) = lev[root_page_id] + 1 /\ Last(q) = q[Len(q)] /\ pages[Last(q)].leaf
    BY <1>3, <1>8, <2>1, PathDescends
  <2>3. InsertDown(t, q)
    BY <1>8, <2>2 DEF InsertSlow
  <2>4. Range(q) \cap Latched(t) = {}
    BY <2>3 DEF InsertDown
  <2>5. Last(q) \in DOMAIN pages /\ Covers(lo, hi, Last(q), k)
    <3>1. Len(q) \in 1..Len(q)
      <4>1. Len(q) \in Nat /\ Len(q) >= 1
        BY <2>2, LenProperties DEF Descent
      <4> QED BY <4>1
    <3> QED BY <2>2, <3>1 DEF Descent
  <2>6. CASE Has(pages[Last(q)], k)
    <3>1. Goto(t, Done(t, FALSE)) /\ UNCHANGED <<root_page_id, pages>>
      BY <2>3, <2>6 DEF InsertDown
    <3>2. k \in Stored(pages)
      BY <2>2, <2>5, <2>6 DEF Stored, Has
    <3>3. InsertInv'
      BY <1>5, <3>1, StayLearns
    <3> QED BY <3>1, <3>2, <3>3 DEF Enters
  <2>7. CASE ~Has(pages[Last(q)], k)
    <3>1. Entering(lo, hi, lev, q, k)
      BY <1>1, <1>3, <1>4, <1>8, <2>1, <2>2, <2>7 DEF Entering
    <3>2. Took(k, Range(q)) /\ \E lo2, hi2, lev2 : TreeAt(root_page_id', pages', lo2, hi2, lev2)
      BY <2>3, <3>1, InsertDownTakes
    <3>3. Goto(t, Done(t, TRUE))
      BY <2>3, <2>7 DEF InsertDown
    <3>4. k \notin Stored(pages)
      BY <1>3, <2>1, <2>2, <2>5, <2>7, StoredWhere DEF Has, Range
    <3> QED BY <1>6, <2>4, <3>2, <3>3, <3>4
  <2> QED BY <2>6, <2>7
<1> QED BY <1>7, <1>8

LEMMA CallStep ==
    ASSUME InsertOnly, InsertInv, NEW t \in Thread, Call(t)
    PROVE  /\ InsertInv' /\ UNCHANGED <<root_page_id, pages>> /\ at[t] = Idle
           /\ \E op \in {"insert", "get"}, k \in Key : Goto(t, [do |-> op, op |-> op, key |-> k])
<1>1. PICK c \in Calls : /\ c.op \in {"insert", "remove", "get"} /\ MayCall(t, c.op)
                         /\ Goto(t, [do |-> c.op, op |-> c.op, key |-> c.key])
  BY DEF Call
<1>2. c.op \in {"insert", "get"} /\ c.key \in Key
  BY <1>1 DEF InsertOnly
<1>3. UNCHANGED <<root_page_id, pages>> /\ at[t] = Idle
  BY <1>1 DEF Call, MayCall
<1> DEFINE x == [do |-> c.op, op |-> c.op, key |-> c.key]
<1>4. x \in Place /\ x.do \in {"insert", "get"}
  BY <1>2 DEF Place
<1>5. Goto(t, x)
  BY <1>1
<1> HIDE DEF x
<1>6. InsertInv'
  BY <1>3, <1>4, <1>5, StayLearns
<1> QED BY <1>2, <1>3, <1>5, <1>6 DEF x

LEMMA ReadHeaderStep ==
    ASSUME InsertInv, NEW t \in Thread, ReadHeader(t)
    PROVE  /\ InsertInv' /\ UNCHANGED <<root_page_id, pages>> /\ at[t].op = "get" /\ at[t].do = "get"
           /\ \/ root_page_id = NoPage /\ Goto(t, Done(t, FALSE))
              \/ /\ root_page_id # NoPage
                 /\ Goto(t, [do |-> "descend", op |-> "get", key |-> at[t].key, root |-> root_page_id])
<1>1. at[t].do = "get" /\ UNCHANGED <<root_page_id, pages>> /\ at[t] \in Place
  BY DEF ReadHeader, InsertInv
<1>2. at[t].op = "get" /\ at[t].key \in Key /\ at[t] # Idle
  BY <1>1, PlaceFields
<1>3. CASE root_page_id = NoPage
  <2>1. Goto(t, Done(t, FALSE))
    BY <1>3 DEF ReadHeader
  <2>2. Done(t, FALSE) \in Place /\ Done(t, FALSE).do = "return"
    BY <1>1, NextPlaces DEF Done
  <2>3. InsertInv'
    BY <1>1, <2>1, <2>2, StayLearns
  <2> QED BY <1>1, <1>2, <1>3, <2>1, <2>3
<1>4. CASE root_page_id # NoPage
  <2> DEFINE x == [do |-> "descend", op |-> "get", key |-> at[t].key, root |-> root_page_id]
  <2>1. Goto(t, x)
    BY <1>4 DEF ReadHeader
  <2>2. root_page_id \in DOMAIN pages /\ root_page_id \in PageId
    BY <1>4 DEF InsertInv, TreeAt, Whole, Tree, Shaped
  <2>3. x \in Place /\ Seen(x)
    BY <1>2, <2>2 DEF Place, Seen, AtScan
  <2> HIDE DEF x
  <2>4. InsertInv'
    BY <1>1, <2>1, <2>3, StaySame
  <2> QED BY <1>1, <1>2, <1>4, <2>1, <2>4 DEF x
<1> QED BY <1>3, <1>4

LEMMA DescendStep ==
    ASSUME InsertInv, NEW t \in Thread, Descend(t)
    PROVE  /\ InsertInv' /\ UNCHANGED <<root_page_id, pages>> /\ at[t].op = "get" /\ at[t].do = "descend"
           /\ \E q \in Paths(at[t].root, at[t].key) : Goto(t, Done(t, Has(pages[Last(q)], at[t].key)))
<1>1. at[t].do = "descend" /\ UNCHANGED <<root_page_id, pages>> /\ at[t] \in Place
  BY DEF Descend, InsertInv
<1>2. at[t].op = "get" /\ at[t].key \in Key /\ at[t] # Idle
  BY <1>1, PlaceFields
<1>3. PICK q \in Paths(at[t].root, at[t].key) : Goto(t, Done(t, Has(pages[Last(q)], at[t].key)))
  BY DEF Descend
<1> DEFINE res == Has(pages[Last(q)], at[t].key)
<1>4. res \in BOOLEAN
  BY DEF Has
<1>5. Done(t, res) \in Place /\ Done(t, res).do = "return"
  BY <1>1, <1>4, NextPlaces DEF Done
<1>6. Goto(t, Done(t, res))
  BY <1>3
<1> HIDE DEF res
<1>7. InsertInv'
  BY <1>1, <1>5, <1>6, StayLearns
<1> QED BY <1>1, <1>2, <1>3, <1>7

LEMMA PeekInsertStep ==
    ASSUME InsertInv, NEW t \in Thread, PeekInsert(t)
    PROVE  /\ InsertInv' /\ UNCHANGED <<root_page_id, pages>> /\ at[t].do = "insert" /\ at[t].op = "insert"
           /\ Goto(t, AtLeaf(t, "leaf-insert")) \/ Goto(t, Slow(t))
<1>1. at[t].do = "insert" /\ UNCHANGED <<root_page_id, pages>> /\ at[t] \in Place
  BY DEF PeekInsert, InsertInv
<1>2. at[t].op = "insert" /\ at[t].key \in Key /\ at[t] # Idle
  BY <1>1, PlaceFields
<1> DEFINE p == LeafFor(at[t].key)
<1>3. CASE root_page_id # NoPage /\ Len(pages[p].keys) + 1 < LeafMax
  <2> DEFINE x == AtLeaf(t, "leaf-insert")
  <2>1. Goto(t, x)
    BY <1>3 DEF PeekInsert
  <2>2. p \in DOMAIN pages /\ DOMAIN pages \subseteq PageId
    <3>1. PICK lo, hi, lev : TreeAt(root_page_id, pages, lo, hi, lev)
      BY DEF InsertInv
    <3>2. Whole(pages, root_page_id, lo, hi, lev) /\ lev[root_page_id] < MaxHeight
      BY <1>3, <3>1 DEF TreeAt
    <3>3. DOMAIN pages \subseteq PageId
      BY <3>2 DEF Whole, Tree, Shaped
    <3> QED BY <1>2, <1>3, <3>2, <3>3, LeafForCovers
  <2>3. x = [do |-> "leaf-insert", op |-> "insert", key |-> at[t].key, leaf |-> p]
    BY <1>2 DEF AtLeaf
  <2> HIDE DEF p
  <2>4. x \in Place /\ Seen(x)
    BY <1>2, <2>2, <2>3 DEF Place, Seen, AtScan
  <2> HIDE DEF x
  <2>5. InsertInv'
    BY <1>1, <2>1, <2>4, StaySame
  <2> QED BY <1>1, <1>2, <2>1, <2>5 DEF x
<1>4. CASE ~(root_page_id # NoPage /\ Len(pages[p].keys) + 1 < LeafMax)
  <2>1. Goto(t, Slow(t))
    BY <1>4 DEF PeekInsert
  <2>2. Slow(t) \in Place /\ Slow(t).do = "slow"
    BY <1>1, NextPlaces DEF Slow
  <2>3. InsertInv'
    BY <1>1, <2>1, <2>2, StayLearns
  <2> QED BY <1>1, <1>2, <2>1, <2>3
<1> QED BY <1>3, <1>4

LEMMA ScanPlace ==
    ASSUME NEW root, NEW lo, NEW hi, NEW lev, TreeAt(root, pages, lo, hi, lev),
           NEW p, NEW i, NEW kept \in SUBSET Key, AtScan(ScanAt(p, i, kept))
    PROVE  ScanAt(p, i, kept) \in Place /\ Seen(ScanAt(p, i, kept))
<1>1. CASE p = NoPage
  <2>1. ScanAt(p, i, kept) = [do |-> "scanned", op |-> "scan", kept |-> kept]
    BY <1>1 DEF ScanAt
  <2>2. ScanAt(p, i, kept) \in Place
    BY <2>1 DEF Place
  <2> QED BY <2>1, <2>2 DEF Seen
<1>2. CASE p # NoPage
  <2> DEFINE left == kept \ {pages[p].keys[i]}
  <2>1. ScanAt(p, i, kept) = [do |-> "scan", op |-> "scan", leaf |-> p, pos |-> i, kept |-> left]
    BY <1>2 DEF ScanAt
  <2>2. p \in DOMAIN pages /\ i \in DOMAIN pages[p].keys /\ left \in SUBSET Key
    BY <2>1 DEF AtScan
  <2>3. Whole(pages, root, lo, hi, lev)
    BY <2>2 DEF TreeAt
  <2>4. PageShape(pages, lo, hi, lev, NoPage, NoPage, p) /\ p \in PageId
    BY <2>2, <2>3 DEF Whole, Tree, Shaped
  <2>5. i \in Nat
    BY <2>2, <2>4, PageFields
  <2> HIDE DEF left
  <2>6. ScanAt(p, i, kept) \in Place
    BY <2>1, <2>2, <2>4, <2>5 DEF Place
  <2> QED BY <2>1, <2>6 DEF Seen
<1> QED BY <1>1, <1>2

\* A step of a scan.
LEMMA StayScans ==
    ASSUME InsertInv, NEW t \in Thread, NEW lo, NEW hi, NEW lev, TreeAt(root_page_id, pages, lo, hi, lev),
           NEW p, NEW i, NEW kept \in SUBSET Key, AtScan(ScanAt(p, i, kept)),
           Goto(t, ScanAt(p, i, kept)), UNCHANGED <<root_page_id, pages>>
    PROVE  InsertInv'
<1> DEFINE x == ScanAt(p, i, kept)
<1>1. x \in Place /\ Seen(x)
  BY ScanPlace
<1>2. Goto(t, x)
  OBVIOUS
<1> HIDE DEF x
<1> QED BY <1>1, <1>2, StaySame

LEMMA StartScanStep ==
    ASSUME InsertOnly, InsertInv, NEW t \in Thread, StartScan(t)
    PROVE  /\ InsertInv' /\ UNCHANGED <<root_page_id, pages>> /\ at[t] = Idle
           /\ \E p, i, kept : Goto(t, ScanAt(p, i, kept))
<1>1. PICK c \in Calls :
         /\ c.thread = t /\ MayCall(t, "scan")
         /\ LET kept == {k \in Reachable : k >= c.key} IN
            IF root_page_id = NoPage THEN Goto(t, ScanAt(NoPage, 1, kept))
            ELSE LET leaf == LeafFor(c.key) IN
                 \E s \in Settled(leaf, Before(pages[leaf].keys, c.key) + 1) :
                     Goto(t, ScanAt(s[1], s[2], kept))
  BY DEF StartScan
<1> DEFINE kept == {k \in Reachable : k >= c.key}
           p == LeafFor(c.key)
           b == Before(pages[p].keys, c.key)
<1>2. UNCHANGED <<root_page_id, pages>> /\ at[t] = Idle /\ c.key \in Key /\ Key \subseteq Nat
  BY <1>1, TreeBounds DEF StartScan, MayCall, InsertOnly
<1>3. kept \in SUBSET Key
  BY DEF Reachable
<1>4. PICK lo, hi, lev : TreeAt(root_page_id, pages, lo, hi, lev)
  BY DEF InsertInv
<1>5. CASE root_page_id = NoPage
  <2>1. Goto(t, ScanAt(NoPage, 1, kept))
    BY <1>1, <1>5
  <2>2. kept = {}
    BY <1>5 DEF Reachable
  <2>3. AtScan(ScanAt(NoPage, 1, kept))
    <3>1. ScanAt(NoPage, 1, kept) = [do |-> "scanned", op |-> "scan", kept |-> kept]
      BY DEF ScanAt
    <3> QED BY <2>2, <3>1 DEF AtScan
  <2> HIDE DEF kept
  <2>4. InsertInv'
    BY <1>2, <1>3, <1>4, <2>1, <2>3, StayScans
  <2> QED BY <1>2, <2>1, <2>4
<1>6. CASE root_page_id # NoPage
  <2>1. PICK s \in Settled(p, b + 1) : Goto(t, ScanAt(s[1], s[2], kept))
    BY <1>1, <1>6
  <2>2. Whole(pages, root_page_id, lo, hi, lev) /\ lev[root_page_id] < MaxHeight
    BY <1>4, <1>6 DEF TreeAt
  <2>3. p \in DOMAIN pages /\ pages[p].leaf /\ Covers(lo, hi, p, c.key)
    BY <1>2, <1>6, <2>2, LeafForCovers
  <2>4. Reachable = Stored(pages)
    BY Reaches
  <2> HIDE DEF p
  <2>5. /\ pages[p].keys \in Seq(Nat) /\ Ascending(pages[p].keys) /\ DOMAIN pages[p].keys = 1..Len(pages[p].keys)
        /\ \A j \in DOMAIN pages[p].keys : pages[p].keys[j] \in Nat
    <3>1. PageShape(pages, lo, hi, lev, NoPage, NoPage, p)
      BY <2>2, <2>3 DEF Whole, Tree, Shaped
    <3>2. Ascending(pages[p].keys)
      BY <3>1 DEF PageShape
    <3> QED BY <3>1, <3>2, PageFields
  <2>6. b \in 0..Len(pages[p].keys) /\ \A j \in DOMAIN pages[p].keys : pages[p].keys[j] < c.key <=> j <= b
    BY <1>2, <2>5, BeforeSplits
  <2> HIDE DEF b
  <2>7. Len(pages[p].keys) \in Nat
    BY <2>5, LenProperties
  <2>8. kept \subseteq Stored(pages) /\ \A k \in kept : k \in Nat /\ c.key <= k
    BY <1>2, <1>3, <2>4
  <2>9. \A k \in kept : lo[p] <= k /\ \A j \in 1..((b + 1) - 1) : pages[p].keys[j] < k
    <3>1. lo[p] \in Nat
      BY <2>2, <2>3, NextLeaf
    <3>2. \A j \in 1..((b + 1) - 1) : j \in DOMAIN pages[p].keys /\ pages[p].keys[j] \in Nat /\ pages[p].keys[j] < c.key
      <4> TAKE j \in 1..((b + 1) - 1)
      <4>1. b \in Nat /\ b <= Len(pages[p].keys)
        BY <2>6, <2>7
      <4>2. j \in 1..Len(pages[p].keys) /\ j <= b
        BY ONLY <2>7, <4>1, j \in 1..((b + 1) - 1)
      <4>3. j \in DOMAIN pages[p].keys
        BY <2>5, <4>2
      <4> QED BY <2>5, <2>6, <4>2, <4>3
    <3> HIDE DEF kept
    <3>3. c.key \in Nat /\ lo[p] <= c.key
      BY <1>2, <2>3 DEF Covers
    <3> TAKE k \in kept
    <3>4. k \in Nat /\ c.key <= k
      BY <2>8
    <3> HIDE DEF b
    <3>5. lo[p] <= k
      BY <3>1, <3>3, <3>4
    <3>6. \A j \in 1..((b + 1) - 1) : pages[p].keys[j] < k
      BY <3>2, <3>3, <3>4
    <3> QED BY <3>5, <3>6
  <2> HIDE DEF kept
  <2>10. b + 1 \in 1..(Len(pages[p].keys) + 1)
    BY <2>6, <2>7
  <2>11. AtScan(ScanAt(s[1], s[2], kept))
    BY <1>3, <2>1, <2>2, <2>3, <2>8, <2>9, <2>10, SettledScans
  <2>12. InsertInv'
    BY <1>2, <1>3, <1>4, <2>1, <2>11, StayScans
  <2> QED BY <1>2, <2>1, <2>12
<1> QED BY <1>5, <1>6

LEMMA AdvanceStep ==
    ASSUME InsertInv, NEW t \in Thread, Advance(t)
    PROVE  /\ InsertInv' /\ UNCHANGED <<root_page_id, pages>> /\ at[t].do = "scan" /\ at[t].op = "scan"
           /\ \E p, i, kept : Goto(t, ScanAt(p, i, kept))
<1> DEFINE p == at[t].leaf
           kept == at[t].kept
           pos == at[t].pos
<1>1. at \in [Thread -> Place] /\ at[t] \in Place
  BY DEF InsertInv
<1>2. at[t].do = "scan" /\ WriteLatched(t) = {}
  BY <1>1, NoRepair DEF Advance
<1>3. at[t].op = "scan" /\ at[t] # Idle /\ kept \in SUBSET Key /\ Key \subseteq Nat
  BY <1>1, <1>2, PlaceFields, TreeBounds
<1>4. UNCHANGED <<root_page_id, pages>>
  BY DEF Advance
<1>5. PICK s \in Settled(p, pos + 1) : Goto(t, ScanAt(s[1], s[2], kept))
  BY <1>2 DEF Advance
<1>6. PICK lo, hi, lev : TreeAt(root_page_id, pages, lo, hi, lev) /\ AtScan(at[t])
  BY DEF InsertInv, Seen
<1>7. /\ p \in DOMAIN pages /\ pages[p].leaf /\ pos \in DOMAIN pages[p].keys
      /\ kept \subseteq Stored(pages) /\ \A k \in kept : pages[p].keys[pos] < k
  BY <1>2, <1>6 DEF AtScan
<1> HIDE DEF p, kept, pos
<1>8. Whole(pages, root_page_id, lo, hi, lev)
  BY <1>6, <1>7 DEF TreeAt
<1>9. /\ DOMAIN pages[p].keys = 1..Len(pages[p].keys) /\ Len(pages[p].keys) \in Nat
      /\ \A j \in DOMAIN pages[p].keys : pages[p].keys[j] \in Nat
      /\ Ascending(pages[p].keys) /\ lo[p] \in Nat /\ lo[p] <= pages[p].keys[pos]
  <2>1. PageShape(pages, lo, hi, lev, NoPage, NoPage, p)
    BY <1>7, <1>8 DEF Whole, Tree, Shaped
  <2>2. Ascending(pages[p].keys) /\ Covers(lo, hi, p, pages[p].keys[pos])
    BY <1>7, <2>1 DEF PageShape
  <2>3. lo[p] \in Nat
    BY <1>7, <1>8, NextLeaf
  <2> QED BY <2>1, <2>2, <2>3, PageFields DEF Covers
<1>10. pos + 1 \in 1..(Len(pages[p].keys) + 1) /\ (pos + 1) - 1 = pos /\ pos \in Nat
  BY <1>7, <1>9
<1>11. \A k \in kept : lo[p] <= k /\ \A j \in 1..((pos + 1) - 1) : pages[p].keys[j] < k
  <2> SUFFICES ASSUME NEW k \in kept PROVE lo[p] <= k /\ \A j \in 1..pos : pages[p].keys[j] < k
    BY <1>10
  <2>1. k \in Nat /\ pages[p].keys[pos] < k /\ pages[p].keys[pos] \in Nat
    BY <1>3, <1>7, <1>9
  <2>2. ASSUME NEW j \in 1..pos PROVE pages[p].keys[j] < k
    <3>1. j \in DOMAIN pages[p].keys /\ (j = pos \/ j < pos)
      BY <1>7, <1>9, <1>10
    <3>2. j < pos => pages[p].keys[j] < pages[p].keys[pos]
      BY <1>7, <1>9, <3>1 DEF Ascending
    <3> QED BY <1>9, <2>1, <3>1, <3>2
  <2> QED BY <1>9, <2>1, <2>2
<1>12. AtScan(ScanAt(s[1], s[2], kept))
  BY <1>3, <1>5, <1>7, <1>8, <1>10, <1>11, SettledScans
<1>13. InsertInv'
  BY <1>3, <1>4, <1>5, <1>6, <1>12, StayScans
<1> QED BY <1>2, <1>3, <1>4, <1>5, <1>13

\* The steps there are.
LEMMA StepCases ==
    ASSUME InsertOnly, InsertInv, NEW t \in Thread, Step(t)
    PROVE  \/ Call(t) \/ Return(t) \/ ReadHeader(t) \/ Descend(t)
           \/ PeekInsert(t) \/ InsertAtLeaf(t) \/ InsertSlow(t)
           \/ StartScan(t) \/ Advance(t) \/ EndScan(t)
<1>1. at[t] \in Place
  BY DEF InsertInv
<1>2. at[t].do \notin {"remove", "leaf-remove", "fix", "discard", "collapse"} /\ (at[t].do = "slow" => at[t].op = "insert")
  BY <1>1, PlaceFields
<1>3. ~PeekRemove(t) /\ ~RemoveAtLeaf(t) /\ ~RemoveSlow(t)
  BY <1>2 DEF PeekRemove, RemoveAtLeaf, RemoveSlow
<1>4. ~TryLeft(t) /\ ~TryRight(t) /\ ~Merge(t)
  BY <1>2 DEF TryLeft, TryRight, Merge, Fixing
<1>5. ~DeletePages(t) /\ ~Collapse(t)
  BY <1>2 DEF DeletePages, Collapse
<1> QED BY <1>3, <1>4, <1>5 DEF Step

\* An operation ends and leaves the tree alone.
LEMMA EndStep ==
    ASSUME InsertInv, NEW t \in Thread, Return(t) \/ EndScan(t)
    PROVE  InsertInv' /\ UNCHANGED <<root_page_id, pages>> /\ Goto(t, Idle)
<1>1. UNCHANGED <<root_page_id, pages>> /\ Goto(t, Idle)
  BY DEF Return, EndScan
<1> QED BY <1>1, StayEnds

LEMMA InsertInit == Init => InsertInv
<1> SUFFICES ASSUME Init PROVE InsertInv
  OBVIOUS
<1>1. root_page_id = NoPage /\ pages = <<>> /\ at = [t \in Thread |-> Idle]
  BY DEF Init
<1>2. Idle \in Place /\ Idle.do = "idle"
  BY DEF Place, Idle
<1>3. \A t \in Thread : Seen(at[t])
  BY <1>1, <1>2 DEF Seen, AtScan
<1>4. TreeAt(root_page_id, pages, 0, 0, 0)
  BY <1>1 DEF TreeAt
<1> QED BY <1>1, <1>2, <1>3, <1>4 DEF InsertInv

LEMMA InsertNext ==
    ASSUME InsertOnly, InsertInv, [Next]_vars, [LeavesFresh]_vars PROVE InsertInv'
<1>1. CASE UNCHANGED vars
  BY <1>1 DEF vars, InsertInv, TreeAt, Seen, AtScan
<1>2. ASSUME NEW t \in Thread, Step(t), LeavesFresh PROVE InsertInv'
  BY <1>2, StepCases, CallStep, EndStep, ReadHeaderStep, DescendStep, PeekInsertStep, InsertAtLeafStep,
     InsertSlowStep, StartScanStep, AdvanceStep
<1> QED BY <1>1, <1>2 DEF Next

\* The invariant: where nobody removes, and however insertions, lookups and
\* scans overlap, the tree has some lower and upper bounds and levels that make
\* it a search tree of half full pages, and the threads remember pages that are
\* still there, until an optimistic insertion enters its key in a stale leaf:
\* that step alone breaks the tree (InsertAtLeaf).
THEOREM TreeInvariant == ASSUME InsertOnly PROVE Spec /\ [][LeavesFresh]_vars => []InsertInv
<1>1. Init => InsertInv
  BY InsertInit
<1>2. InsertInv /\ [Next]_vars /\ [LeavesFresh]_vars => InsertInv'
  BY InsertNext
<1> QED BY <1>1, <1>2, PTL DEF Spec

-----------------------------------------------------------------------------
(* The properties of one state. *)

LEMMA TypesFollow == ASSUME InsertInv PROVE TypeOK
<1>1. PICK lo, hi, lev : TreeAt(root_page_id, pages, lo, hi, lev)
  BY DEF InsertInv
<1>2. at \in [Thread -> Place] /\ \A t \in Thread : at[t] \in Place /\ Seen(at[t])
  BY DEF InsertInv
<1>3. ASSUME NEW t \in Thread
      PROVE  /\ Scanning(t) => at[t].leaf \in DOMAIN pages /\ at[t].pos \in DOMAIN pages[at[t].leaf].keys
             /\ at[t].do # "fix"
  <2>1. at[t].do # "fix" /\ (Scanning(t) <=> at[t].do = "scan")
    BY <1>2, PlaceFields, NoRepair
  <2>2. AtScan(at[t])
    BY <1>2 DEF Seen
  <2> QED BY <2>1, <2>2 DEF AtScan
<1>4. root_page_id \in DOMAIN pages \cup {NoPage} /\ DOMAIN pages \subseteq PageId
      /\ \A p \in DOMAIN pages : pages[p] \in Page
  <2>1. CASE root_page_id = NoPage
    BY <1>1, <2>1 DEF TreeAt
  <2>2. CASE root_page_id # NoPage
    <3>1. Shaped(pages, root_page_id, lo, hi, lev, NoPage, NoPage)
      BY <1>1, <2>2 DEF TreeAt, Whole, Tree
    <3> QED BY <3>1 DEF Shaped, PageShape
  <2> QED BY <2>1, <2>2
<1> QED BY <1>3, <1>4 DEF TypeOK

LEMMA ScansFollow == ASSUME InsertInv PROVE ScanSeesKept
<1>0. at \in [Thread -> Place] /\ \A t \in Thread : at[t] \in Place
  BY DEF InsertInv
<1> SUFFICES ASSUME NEW t \in Thread
             PROVE  /\ Scanning(t) => \A k \in at[t].kept : k > pages[at[t].leaf].keys[at[t].pos]
                    /\ at[t].do = "scanned" => at[t].kept = {}
  BY DEF ScanSeesKept
<1>1. PICK lo, hi, lev : TreeAt(root_page_id, pages, lo, hi, lev)
  BY DEF InsertInv
<1>2. Scanning(t) <=> at[t].do = "scan"
  BY <1>0, NoRepair
<1>3. AtScan(at[t])
  BY DEF InsertInv, Seen
<1>4. ASSUME at[t].do = "scan" PROVE \A k \in at[t].kept : k > pages[at[t].leaf].keys[at[t].pos]
  <2> DEFINE p == at[t].leaf
             x == pages[p].keys[at[t].pos]
  <2>1. p \in DOMAIN pages /\ at[t].pos \in DOMAIN pages[p].keys /\ \A k \in at[t].kept : x < k
    BY <1>3, <1>4 DEF AtScan
  <2>2. PageShape(pages, lo, hi, lev, NoPage, NoPage, p)
    BY <1>1, <2>1 DEF TreeAt, Whole, Tree, Shaped
  <2>3. x \in Nat
    BY <2>1, <2>2, PageFields
  <2>4. at[t].kept \subseteq Nat
    BY <1>0, <1>4, PlaceFields, TreeBounds
  <2> QED BY <2>1, <2>3, <2>4
<1> QED BY <1>2, <1>3, <1>4 DEF AtScan

\* The types of the pages and the places of the scans, where nobody removes, up
\* to an insertion in a stale leaf (Insert, Begin, operator++).
THEOREM TreeTypeOK == ASSUME InsertOnly PROVE Spec /\ [][LeavesFresh]_vars => []TypeOK
<1>1. InsertInv => TypeOK
  BY TypesFollow
<1> QED BY <1>1, TreeInvariant, PTL

\* Where nobody removes, a scan misses no key that was in the index when it
\* began, whatever splits go on around it and however many insert, up to an
\* insertion in a stale leaf (Begin, operator++, Split).
THEOREM TreeScanSeesKept == ASSUME InsertOnly PROVE Spec /\ [][LeavesFresh]_vars => []ScanSeesKept
<1>1. InsertInv => ScanSeesKept
  BY ScansFollow
<1> QED BY <1>1, TreeInvariant, PTL

-----------------------------------------------------------------------------
(* The tree implements a set of keys. *)

calls == [t \in Thread |-> Outcome(t)]

\* What an operation that takes key k for op has answered.
Told(op, k, res) == [op |-> op, key |-> k, res |-> res]

LEMMA OutcomeIs ==
    ASSUME at \in [Thread -> Place], NEW t \in Thread
    PROVE  /\ at[t].do \in {"idle", "scan", "scanned"} => Outcome(t) = [op |-> "none"]
           /\ at[t].do \in {"insert", "slow", "leaf-insert", "get", "descend"} =>
                 Outcome(t) = Told(at[t].op, at[t].key, {})
           /\ at[t].do = "return" => Outcome(t) = Told(at[t].op, at[t].key, {at[t].res})
<1>1. at[t] \in Place
  OBVIOUS
<1>2. at[t].do \in {"idle", "scan", "scanned"} => at[t] = Idle \/ at[t].op = "scan"
  BY <1>1, PlaceFields
<1>3. at[t].do \in {"insert", "slow", "leaf-insert", "get", "descend", "return"} => at[t] # Idle /\ at[t].op # "scan"
  BY <1>1, PlaceFields
<1> QED BY <1>2, <1>3 DEF Outcome, Told

\* A step of t changes nothing for the callers of others.
LEMMA CallsMove ==
    ASSUME at \in [Thread -> Place], NEW t \in Thread, NEW x, Goto(t, x)
    PROVE  at'[t] = x /\ calls' = [calls EXCEPT ![t] = Outcome(t)']
<1>1. at'[t] = x /\ \A u \in Thread \ {t} : at'[u] = at[u]
  BY DEF Goto
<1>2. \A u \in Thread \ {t} : Outcome(u)' = Outcome(u)
  BY <1>1 DEF Outcome
<1> QED BY <1>1, <1>2 DEF calls

\* Reachable looks at the header page and the pages only.
LEMMA ReachableSame ==
    ASSUME UNCHANGED <<root_page_id, pages>> PROVE Reachable' = Reachable
BY DEF Reachable, LeafFor, Path, Paths

\* What the steps of KeySet are here.
LEMMA IndexSteps ==
    /\ \A t \in Thread : calls[t] = [op |-> "none"] =>
          \A op \in {"insert", "get"}, k \in Key :
             calls' = [calls EXCEPT ![t] = Told(op, k, {})] /\ Reachable' = Reachable => Index!Next
    /\ \A t \in Thread : \A k \in Key :
          /\ calls[t] = Told("insert", k, {})
          /\ calls' = [calls EXCEPT ![t] = Told("insert", k, {k \notin Reachable})]
          /\ Reachable' = Reachable \cup {k}
          => Index!Next
    /\ \A t \in Thread : \A op, k, res :
          /\ calls[t] = Told(op, k, {res})
          /\ op \in {"insert", "get"}
          /\ calls' = [calls EXCEPT ![t] = [op |-> "none"]]
          /\ Reachable' = Reachable
          => Index!Next
<1>0. calls = [t \in Thread |-> Outcome(t)] /\ calls' = [t \in Thread |-> Outcome(t)']
  BY DEF calls
<1>1. DOMAIN calls = Thread
  BY DEF calls
<1>2. \A op \in {"insert", "get"} : \A k, res : Told(op, k, res) # [op |-> "none"]
  BY DEF Told
<1>3. ASSUME NEW t \in Thread, calls[t] = [op |-> "none"], NEW op \in {"insert", "get"}, NEW k \in Key,
             calls' = [calls EXCEPT ![t] = Told(op, k, {})], Reachable' = Reachable
      PROVE  Index!Next
  <2>1. calls'[t] = Told(op, k, {})
    BY <1>1, <1>3
  <2>2. calls'[t] # [op |-> "none"]
    BY <1>2, <2>1
  <2>3. Index!Invoke(t)
    BY <1>0, <1>3, <2>2 DEF Index!Invoke, Index!None, Told
  <2> QED BY <2>3 DEF Index!Next
<1>4. ASSUME NEW t \in Thread, NEW k \in Key, calls[t] = Told("insert", k, {}),
             calls' = [calls EXCEPT ![t] = Told("insert", k, {k \notin Reachable})],
             Reachable' = Reachable \cup {k}
      PROVE  Index!Next
  <2>1. calls[t].op = "insert" /\ calls[t].res = {} /\ calls[t].key = k
    BY <1>4 DEF Told
  <2>2. [calls[t] EXCEPT !.res = {k \notin Reachable}] = Told("insert", k, {k \notin Reachable})
    BY <1>4 DEF Told
  <2>3. calls' = [calls EXCEPT ![t].res = {k \notin Reachable}]
    BY <1>1, <1>4, <2>2
  <2>4. Index!Insert(t)
    BY <1>0, <1>4, <2>1, <2>3 DEF Index!Insert, Index!Pending, Index!Answer
  <2> QED BY <2>4 DEF Index!Next
<1>6. ASSUME NEW t \in Thread, NEW op \in {"insert", "get"}, NEW k, NEW res,
             calls[t] = Told(op, k, {res}), calls' = [calls EXCEPT ![t] = [op |-> "none"]],
             Reachable' = Reachable
      PROVE  Index!Next
  <2>1. calls[t] # [op |-> "none"] /\ calls[t].res # {}
    BY <1>2, <1>6 DEF Told
  <2>2. Index!Return(t)
    BY <1>0, <1>6, <2>1 DEF Index!Return, Index!None
  <2> QED BY <2>2 DEF Index!Next
<1> QED BY <1>3, <1>4, <1>6

\* A lookup answers.
LEMMA GetAnswers ==
    ASSUME NEW t \in Thread, NEW k \in Key, calls[t] = Told("get", k, {}),
           NEW res, res = (k \in Reachable),
           calls' = [calls EXCEPT ![t] = Told("get", k, {res})], Reachable' = Reachable
    PROVE  Index!Next
<1>0. calls = [u \in Thread |-> Outcome(u)] /\ calls' = [u \in Thread |-> Outcome(u)']
  BY DEF calls
<1>1. DOMAIN calls = Thread
  BY DEF calls
<1>2. calls[t].op = "get" /\ calls[t].res = {} /\ calls[t].key = k
  BY DEF Told
<1>3. [calls[t] EXCEPT !.res = {res}] = Told("get", k, {res})
  BY DEF Told
<1>4. calls' = [calls EXCEPT ![t].res = {res}]
  BY <1>1, <1>3
<1>5. Index!Pending(t, "get")
  BY <1>0, <1>2 DEF Index!Pending
<1>6. Index!Answer(t, res)
  BY <1>0, <1>4 DEF Index!Answer
<1>7. [u \in Thread |-> Outcome(u)][t].key = k
  BY <1>0, <1>2
<1>8. Index!GetValue(t)
  BY <1>5, <1>6, <1>7, Zenon DEF Index!GetValue
<1> QED BY <1>8 DEF Index!Next

\* What the callers see, and which keys.
Answers ==
    /\ Reachable = Stored(pages)
    /\ \A t \in Thread :
          /\ at[t].do \in {"idle", "scan", "scanned"} => Outcome(t) = [op |-> "none"]
          /\ at[t].do \in {"insert", "slow", "leaf-insert", "get", "descend"} =>
                Outcome(t) = Told(at[t].op, at[t].key, {})
          /\ at[t].do = "return" => Outcome(t) = Told(at[t].op, at[t].key, {at[t].res})

LEMMA AnswersFollow == ASSUME InsertInv PROVE Answers
<1>1. at \in [Thread -> Place]
  BY DEF InsertInv
<1> QED BY <1>1, Reaches, OutcomeIs DEF Answers

\* The end of an operation.
LEMMA DoneCalls ==
    ASSUME at \in [Thread -> Place], Answers', NEW t \in Thread, NEW res, Goto(t, Done(t, res))
    PROVE  calls' = [calls EXCEPT ![t] = Told(at[t].op, at[t].key, {res})]
<1>1. at'[t] = Done(t, res) /\ calls' = [calls EXCEPT ![t] = Outcome(t)']
  BY CallsMove
<1>2. at'[t].do = "return" /\ at'[t].op = at[t].op /\ at'[t].key = at[t].key /\ at'[t].res = res
  BY <1>1 DEF Done
<1>3. Outcome(t)' = Told(at'[t].op, at'[t].key, {at'[t].res})
  BY <1>2 DEF Answers
<1> QED BY <1>1, <1>2, <1>3

\* The callers see nothing of a step.
LEMMA SameCalls ==
    ASSUME NEW t \in Thread, calls' = [calls EXCEPT ![t] = calls[t]], Reachable' = Reachable
    PROVE  UNCHANGED Index!vars
<1>1. calls' = calls
  BY DEF calls
<1> QED BY <1>1 DEF Index!vars, calls

LEMMA IndexNext ==
    ASSUME InsertOnly, InsertInv, InsertInv', Answers, Answers', [Next]_vars, [LeavesFresh]_vars, [RootsFresh]_vars
    PROVE  [Index!Next]_Index!vars
<1>0. /\ at \in [Thread -> Place] /\ at' \in [Thread -> Place]
      /\ \A t \in Thread : at[t] \in Place
      /\ Reachable = Stored(pages) /\ Reachable' = Stored(pages')
  BY DEF InsertInv, Answers
<1>1. CASE UNCHANGED vars
  <2>1. \A t \in Thread : Outcome(t)' = Outcome(t)
    BY <1>1 DEF vars, Outcome
  <2>2. Reachable' = Reachable
    BY <1>1, ReachableSame DEF vars
  <2> QED BY <2>1, <2>2 DEF Index!vars
<1>2. ASSUME NEW t \in Thread, Step(t), LeavesFresh, RootsFresh PROVE Index!Next \/ UNCHANGED Index!vars
  <2> USE <1>0
  <2>1. \A x : Goto(t, x) => at'[t] = x /\ calls' = [calls EXCEPT ![t] = Outcome(t)']
    BY CallsMove
  <2>2. calls[t] = Outcome(t)
    BY DEF calls
  <2>3. /\ at[t].do \in {"idle", "scan", "scanned"} => calls[t] = [op |-> "none"]
        /\ at[t].do \in {"insert", "slow", "leaf-insert", "get", "descend"} =>
              calls[t] = Told(at[t].op, at[t].key, {})
        /\ at[t].do = "return" => calls[t] = Told(at[t].op, at[t].key, {at[t].res})
    BY <2>2 DEF Answers
  <2>4. /\ at'[t].do \in {"idle", "scan", "scanned"} => Outcome(t)' = [op |-> "none"]
        /\ at'[t].do \in {"insert", "slow", "leaf-insert", "get", "descend"} =>
              Outcome(t)' = Told(at'[t].op, at'[t].key, {})
        /\ at'[t].do = "return" => Outcome(t)' = Told(at'[t].op, at'[t].key, {at'[t].res})
    BY DEF Answers
  <2>5. \A res : Goto(t, Done(t, res)) => calls' = [calls EXCEPT ![t] = Told(at[t].op, at[t].key, {res})]
    BY DoneCalls
  <2>6. CASE Call(t)
    <3>1. /\ UNCHANGED <<root_page_id, pages>> /\ at[t] = Idle
          /\ \E op \in {"insert", "get"}, k \in Key : Goto(t, [do |-> op, op |-> op, key |-> k])
      BY <2>6, CallStep
    <3>2. PICK op \in {"insert", "get"}, k \in Key : Goto(t, [do |-> op, op |-> op, key |-> k])
      BY <3>1
    <3>3. calls' = [calls EXCEPT ![t] = Told(op, k, {})]
      BY <2>1, <2>4, <3>2
    <3>4. calls[t] = [op |-> "none"]
      BY <2>3, <3>1 DEF Idle
    <3> QED BY <3>1, <3>2, <3>3, <3>4, ReachableSame, IndexSteps
  <2>7. CASE Return(t)
    <3>1. UNCHANGED <<root_page_id, pages>> /\ Goto(t, Idle) /\ at[t].do = "return"
      BY <2>7, EndStep DEF Return
    <3>2. calls' = [calls EXCEPT ![t] = [op |-> "none"]]
      BY <2>1, <2>4, <3>1 DEF Idle
    <3>3. calls[t] = Told(at[t].op, at[t].key, {at[t].res}) /\ at[t].op \in {"insert", "get"}
      BY <2>3, <3>1, PlaceFields
    <3> QED BY <3>1, <3>2, <3>3, ReachableSame, IndexSteps
  <2>8. CASE EndScan(t)
    <3>1. UNCHANGED <<root_page_id, pages>> /\ Goto(t, Idle) /\ at[t].do \in {"scan", "scanned"}
      BY <2>8, EndStep DEF EndScan
    <3>2. calls' = [calls EXCEPT ![t] = calls[t]]
      BY <2>1, <2>3, <2>4, <3>1 DEF Idle
    <3> QED BY <3>1, <3>2, ReachableSame, SameCalls
  <2>9. CASE ReadHeader(t)
    <3>1. UNCHANGED <<root_page_id, pages>> /\ at[t].op = "get" /\ at[t].do = "get"
      BY <2>9, ReadHeaderStep
    <3>2. calls[t] = Told("get", at[t].key, {}) /\ at[t].key \in Key
      BY <2>3, <3>1, PlaceFields
    <3>3. CASE root_page_id = NoPage /\ Goto(t, Done(t, FALSE))
      <4>1. (at[t].key \in Reachable) = FALSE
        BY <3>3 DEF Reachable
      <4>2. calls' = [calls EXCEPT ![t] = Told("get", at[t].key, {FALSE})]
        BY <2>5, <3>1, <3>3
      <4>3. Reachable' = Reachable
        BY <3>1, ReachableSame
      <4> QED BY <3>2, <4>1, <4>2, <4>3, GetAnswers
    <3>4. CASE Goto(t, [do |-> "descend", op |-> "get", key |-> at[t].key, root |-> root_page_id])
      <4>1. calls' = [calls EXCEPT ![t] = calls[t]]
        BY <2>1, <2>4, <3>2, <3>4
      <4> QED BY <3>1, <4>1, ReachableSame, SameCalls
    <3> QED BY <2>9, <3>3, <3>4, ReadHeaderStep
  <2>10. CASE Descend(t)
    <3>1. UNCHANGED <<root_page_id, pages>> /\ at[t].op = "get" /\ at[t].do = "descend"
      BY <2>10, DescendStep
    <3>2. calls[t] = Told("get", at[t].key, {}) /\ at[t].key \in Key
      BY <2>3, <3>1, PlaceFields
    <3>3. at[t].root \in DOMAIN pages /\ root_page_id # NoPage
      BY <2>10 DEF Descend, InsertInv, TreeAt
    <3>4. PICK q \in Paths(at[t].root, at[t].key) : Goto(t, Done(t, Has(pages[Last(q)], at[t].key)))
      BY <2>10, DescendStep
    <3>5. Last(q) = LeafFor(at[t].key)
      <4>1. at'[t].do = "return"
        BY <2>1, <3>4 DEF Done
      <4>2. ~StaleRoot(t)
        BY <1>2, <3>1, <4>1 DEF RootsFresh
      <4> QED BY <3>1, <3>3, <3>4, <4>2 DEF StaleRoot
    <3>6. Has(pages[Last(q)], at[t].key) = (at[t].key \in Reachable)
      BY <3>2, <3>3, <3>5 DEF Reachable, Has
    <3>7. calls' = [calls EXCEPT ![t] = Told("get", at[t].key, {Has(pages[Last(q)], at[t].key)})]
      BY <2>5, <3>1, <3>4, Zenon
    <3>8. Reachable' = Reachable
      BY <3>1, ReachableSame
    <3> QED BY <3>2, <3>6, <3>7, <3>8, GetAnswers
  <2>11. CASE PeekInsert(t)
    <3>1. /\ UNCHANGED <<root_page_id, pages>> /\ at[t].do = "insert" /\ at[t].op = "insert"
          /\ Goto(t, AtLeaf(t, "leaf-insert")) \/ Goto(t, Slow(t))
      BY <2>11, PeekInsertStep
    <3>2. \A x \in {AtLeaf(t, "leaf-insert"), Slow(t)} :
             x.do \in {"leaf-insert", "slow"} /\ x.op = at[t].op /\ x.key = at[t].key
      BY DEF AtLeaf, Slow
    <3>3. calls' = [calls EXCEPT ![t] = calls[t]]
      BY <2>1, <2>3, <2>4, <3>1, <3>2
    <3> QED BY <3>1, <3>3, ReachableSame, SameCalls
  <2>12. CASE InsertAtLeaf(t) \/ InsertSlow(t)
    <3>1. Enters(t)
      BY <1>2, <2>12, InsertAtLeafStep, InsertSlowStep
    <3>2. at[t].op = "insert" /\ at[t].do \in {"leaf-insert", "slow"} /\ at[t].key \in Key
      <4>1. at[t].do \in {"leaf-insert", "slow"}
        BY <2>12 DEF InsertAtLeaf, InsertSlow
      <4> QED BY <4>1, PlaceFields
    <3>3. calls[t] = Told("insert", at[t].key, {})
      BY <2>3, <3>2
    <3>4. CASE UNCHANGED <<root_page_id, pages>> /\ Goto(t, Slow(t))
      <4>1. Slow(t).do = "slow" /\ Slow(t).op = at[t].op /\ Slow(t).key = at[t].key
        BY DEF Slow
      <4>2. calls' = [calls EXCEPT ![t] = calls[t]]
        BY <2>1, <2>4, <3>2, <3>3, <3>4, <4>1
      <4> QED BY <3>4, <4>2, ReachableSame, SameCalls
    <3>5. CASE UNCHANGED <<root_page_id, pages>> /\ Goto(t, Done(t, FALSE)) /\ at[t].key \in Stored(pages)
      <4>1. (at[t].key \notin Reachable) = FALSE /\ Reachable' = Reachable \cup {at[t].key}
        BY <3>5, ReachableSame
      <4>2. calls' = [calls EXCEPT ![t] = Told("insert", at[t].key, {FALSE})]
        BY <2>5, <3>2, <3>5
      <4> QED BY <3>2, <3>3, <4>1, <4>2, IndexSteps
    <3>6. CASE /\ Goto(t, Done(t, TRUE)) /\ at[t].key \notin Stored(pages)
               /\ Stored(pages') = Stored(pages) \cup {at[t].key}
      <4>1. (at[t].key \notin Reachable) = TRUE /\ Reachable' = Reachable \cup {at[t].key}
        BY <3>6
      <4>2. calls' = [calls EXCEPT ![t] = Told("insert", at[t].key, {TRUE})]
        BY <2>5, <3>2, <3>6
      <4> QED BY <3>2, <3>3, <4>1, <4>2, IndexSteps
    <3> QED BY <3>1, <3>4, <3>5, <3>6 DEF Enters
  <2>13. CASE StartScan(t) \/ Advance(t)
    <3>1. /\ UNCHANGED <<root_page_id, pages>> /\ at[t].do \in {"idle", "scan"}
          /\ \E p, i, kept : Goto(t, ScanAt(p, i, kept))
      BY <2>13, StartScanStep, AdvanceStep DEF Idle
    <3>2. PICK p, i, kept : Goto(t, ScanAt(p, i, kept))
      BY <3>1
    <3>3. ScanAt(p, i, kept).do \in {"scan", "scanned"}
      BY DEF ScanAt
    <3>4. calls' = [calls EXCEPT ![t] = calls[t]]
      BY <2>1, <2>3, <2>4, <3>1, <3>2, <3>3
    <3> QED BY <3>1, <3>4, ReachableSame, SameCalls
  <2> QED BY <1>2, <2>6, <2>7, <2>8, <2>9, <2>10, <2>11, <2>12, <2>13, StepCases
<1> QED BY <1>1, <1>2 DEF Next

\* Where nobody removes, the tree is a set of keys, however insertions, lookups
\* and scans of any threads overlap: the splits and the new roots change nothing
\* that a caller sees.  Two steps are left out, and no others: an optimistic
\* insertion that enters its key in a stale leaf, and a lookup that descends from
\* an old root to another leaf than the one for its key (Insert,
\* InsertIntoParent, GetValue).
THEOREM TreeImplementsIndex ==
    ASSUME InsertOnly PROVE Spec /\ [][LeavesFresh]_vars /\ [][RootsFresh]_vars => ImplementsIndex
<1>1. Init => Index!Init
  <2> SUFFICES ASSUME Init PROVE Index!Init
    OBVIOUS
  <2>1. Reachable = {}
    BY DEF Init, Reachable
  <2>2. \A t \in Thread : Outcome(t) = [op |-> "none"]
    BY DEF Init, Outcome
  <2> QED BY <2>1, <2>2 DEF Index!Init, Index!None
<1>2. InsertInv => Answers
  BY AnswersFollow
<1>3. InsertInv /\ InsertInv' /\ Answers /\ Answers' /\ [Next]_vars /\ [LeavesFresh]_vars /\ [RootsFresh]_vars
      => [Index!Next]_Index!vars
  BY IndexNext
<1> QED BY <1>1, <1>2, <1>3, TreeInvariant, PTL DEF Spec, ImplementsIndex, Index!Spec

-----------------------------------------------------------------------------
(* Sequences of sequences. *)

\* f joins ss up to each of its places, as FlattenSeq does.
Joins(ss, n, f) ==
    /\ f = [i \in 1..n |-> f[i]]
    /\ \A i \in 1..n : /\ i = 1 => f[i] = ss[i]
                       /\ i # 1 => f[i] = f[i - 1] \o ss[i]

LEMMA JoinsExists == ASSUME NEW ss, NEW n \in Nat PROVE \E f : Joins(ss, n, f)
<1> DEFINE S == {m \in Nat : \E f : Joins(ss, m, f)}
<1>1. 0 \in S
  <2>1. Joins(ss, 0, [i \in 1..0 |-> 0])
    BY DEF Joins
  <2> QED BY <2>1
<1>2. ASSUME NEW m \in Nat, m \in S PROVE m + 1 \in S
  <2>1. PICK f : Joins(ss, m, f)
    BY <1>2
  <2> DEFINE g == [i \in 1..(m + 1) |->
                     IF i = 1 THEN ss[i]
                     ELSE IF i = m + 1 THEN f[m] \o ss[m + 1] ELSE f[i]]
  <2>2. /\ \A i \in 1..m : g[i] = f[i]
        /\ m + 1 = 1 => g[m + 1] = ss[m + 1]
        /\ m + 1 # 1 => g[m + 1] = f[m] \o ss[m + 1]
        /\ g = [i \in 1..(m + 1) |-> g[i]]
    <3>1. \A i \in 1..m : i = 1 => ss[i] = f[i]
      BY <2>1 DEF Joins
    <3>2. \A i \in 1..m : g[i] = IF i = 1 THEN ss[i] ELSE f[i]
      OBVIOUS
    <3>3. m + 1 \in 1..(m + 1) /\ g = [i \in 1..(m + 1) |-> g[i]]
      OBVIOUS
    <3>4. g[m + 1] = IF m + 1 = 1 THEN ss[m + 1] ELSE f[m] \o ss[m + 1]
      BY <3>3
    <3> HIDE DEF g
    <3> QED BY <3>1, <3>2, <3>3, <3>4
  <2> HIDE DEF g
  <2>3. ASSUME NEW i \in 1..(m + 1)
        PROVE  /\ i = 1 => g[i] = ss[i]
               /\ i # 1 => g[i] = g[i - 1] \o ss[i]
    <3>1. CASE i = m + 1
      <4>1. i # 1 => i - 1 \in 1..m /\ i - 1 = m
        BY <3>1
      <4> QED BY <2>2, <3>1, <4>1
    <3>2. CASE i # m + 1
      <4>1. i \in 1..m /\ (i # 1 => i - 1 \in 1..m)
        BY <3>2
      <4> QED BY <2>1, <2>2, <4>1 DEF Joins
    <3> QED BY <3>1, <3>2
  <2>4. Joins(ss, m + 1, g)
    BY <2>2, <2>3 DEF Joins
  <2> QED BY <2>4
<1> HIDE DEF S
<1>3. n \in S
  BY <1>1, <1>2, Induction
<1> QED BY <1>3 DEF S

LEMMA FlattenJoins ==
    ASSUME NEW ss, NEW n \in Nat \ {0}, Len(ss) = n
    PROVE  \E f : Joins(ss, n, f) /\ FlattenSeq(ss) = f[n]
<1> DEFINE Equation(f) == f = [i \in 1..n |-> IF i = 1 THEN ss[i] ELSE f[i-1] \o ss[i]]
           flatten == CHOOSE f : Equation(f)
<1>1. ASSUME NEW f, Joins(ss, n, f) PROVE Equation(f)
  BY <1>1 DEF Joins
<1>2. ASSUME NEW f, Equation(f) PROVE Joins(ss, n, f)
  <2> DEFINE g == [i \in 1..n |-> IF i = 1 THEN ss[i] ELSE f[i-1] \o ss[i]]
  <2>1. f = g
    BY <1>2
  <2>2. /\ g = [i \in 1..n |-> g[i]]
        /\ \A i \in 1..n : g[i] = IF i = 1 THEN ss[i] ELSE f[i-1] \o ss[i]
    OBVIOUS
  <2> HIDE DEF g
  <2> QED BY <2>1, <2>2 DEF Joins
<1>3. FlattenSeq(ss) = flatten[n]
  BY DEF FlattenSeq
<1> HIDE DEF Equation
<1>4. \E f : Equation(f)
  BY <1>1, JoinsExists
<1>5. Equation(flatten)
  BY <1>4
<1> QED BY <1>2, <1>3, <1>5

\* What becomes of a sequence of sequences, one after the other.
Builds(T, ss, f) ==
    /\ f[0] = <<>> /\ f[Len(ss)] = FlattenSeq(ss)
    /\ \A k \in 0..Len(ss) : f[k] \in Seq(T)
    /\ \A k \in 1..Len(ss) : f[k] = f[k - 1] \o ss[k]

LEMMA FlattenBuilds == ASSUME NEW T, NEW ss \in Seq(Seq(T)) PROVE \E f : Builds(T, ss, f)
<1> DEFINE n == Len(ss)
<1>1. n \in Nat /\ \A k \in 1..n : ss[k] \in Seq(T)
  BY LenProperties, ElementOfSeq
<1>2. CASE n = 0
  <2> DEFINE f == [k \in 0..0 |-> <<>>]
  <2>1. FlattenSeq(ss) = <<>>
    BY <1>2 DEF FlattenSeq
  <2>2. f[0] = <<>> /\ f[n] = <<>> /\ \A k \in 0..n : f[k] \in Seq(T)
    BY <1>2
  <2> HIDE DEF f
  <2>3. Builds(T, ss, f)
    BY <1>2, <2>1, <2>2 DEF Builds
  <2> QED BY <2>3
<1>3. CASE n # 0
  <2>1. PICK g : Joins(ss, n, g) /\ FlattenSeq(ss) = g[n]
    BY <1>1, <1>3, FlattenJoins
  <2> DEFINE f == [k \in 0..n |-> IF k = 0 THEN <<>> ELSE g[k]]
  <2>2. f[0] = <<>> /\ f[n] = FlattenSeq(ss) /\ \A k \in 1..n : f[k] = g[k]
    BY <1>1, <1>3, <2>1
  <2> HIDE DEF f
  <2>3. \A k \in 1..n : f[k] = f[k - 1] \o ss[k]
    <3> TAKE k \in 1..n
    <3>1. CASE k = 1
      <4>1. g[k] = ss[k] /\ k - 1 = 0 /\ f[k] = g[k]
        <5>1. g[k] = ss[k]
          BY ONLY <2>1, <3>1, k \in 1..n DEF Joins
        <5> QED BY <2>2, <3>1, <5>1
      <4>2. <<>> \o ss[k] = ss[k]
        <5>1. ss[k] \in Seq(T)
          BY <1>1
        <5> QED BY <5>1, ConcatEmptySeq
      <4> QED BY <2>2, <4>1, <4>2
    <3>2. CASE k # 1
      <4>1. k - 1 \in 1..n
        BY <1>1, <3>2
      <4> QED BY <2>1, <2>2, <3>2, <4>1 DEF Joins
    <3> QED BY <3>1, <3>2
  <2> DEFINE S == {k \in Nat : k <= n => f[k] \in Seq(T)}
  <2>4. 0 \in S
    <3>1. f[0] \in Seq(T)
      BY <2>2
    <3> QED BY <3>1
  <2>5. ASSUME NEW k \in Nat, k \in S PROVE k + 1 \in S
    <3> SUFFICES ASSUME k + 1 <= n PROVE f[k + 1] \in Seq(T)
      OBVIOUS
    <3>1. k + 1 \in 1..n /\ (k + 1) - 1 = k /\ k <= n
      BY <1>1
    <3>2. f[k] \in Seq(T) /\ ss[k + 1] \in Seq(T)
      BY <1>1, <2>5, <3>1
    <3>3. f[k + 1] = f[k] \o ss[k + 1]
      BY <2>3, <3>1
    <3> QED BY <3>2, <3>3, ConcatProperties
  <2> HIDE DEF S
  <2>6. \A k \in Nat : k \in S
    BY <2>4, <2>5, Induction
  <2>7. \A k \in 0..n : f[k] \in Seq(T)
    BY <1>1, <2>6 DEF S
  <2>8. Builds(T, ss, f)
    BY <2>2, <2>3, <2>7 DEF Builds
  <2> QED BY <2>8
<1> QED BY <1>2, <1>3

\* Single values, after nothing, in one sequence.
LEMMA FlattenOnes ==
    ASSUME NEW T, NEW ss \in Seq(Seq(T)), NEW a \in Nat, NEW r \in Seq(T), Len(ss) = a + Len(r),
           \A i \in 1..a : ss[i] = <<>>,
           \A j \in 1..Len(r) : ss[a + j] = <<r[j]>>
    PROVE  FlattenSeq(ss) = r
<1> DEFINE n == Len(r)
           So(g, j) == g \in Seq(T) /\ Len(g) = j /\ \A i \in 1..j : g[i] = r[i]
<1>1. n \in Nat /\ \A j \in 1..n : r[j] \in T
  BY LenProperties, ElementOfSeq
<1>2. PICK f : Builds(T, ss, f)
  BY FlattenBuilds
<1> HIDE DEF n
<1>3. /\ f[0] = <<>> /\ f[a + n] = FlattenSeq(ss)
      /\ \A k \in 0..(a + n) : f[k] \in Seq(T)
      /\ \A k \in 1..(a + n) : f[k] = f[k - 1] \o ss[k]
  BY <1>2 DEF Builds, n
<1> DEFINE S == {k \in Nat : k <= a => f[k] = <<>>}
<1>4. a \in S
  <2>1. 0 \in S
    BY <1>3
  <2>2. ASSUME NEW k \in Nat, k \in S PROVE k + 1 \in S
    <3> SUFFICES ASSUME k + 1 <= a PROVE f[k + 1] = <<>>
      OBVIOUS
    <3>1. k + 1 \in 1..a /\ k + 1 \in 1..(a + n) /\ (k + 1) - 1 = k /\ k <= a
      BY <1>1
    <3>2. f[k + 1] = f[k] \o ss[k + 1] /\ f[k] = <<>> /\ ss[k + 1] = <<>>
      BY <1>3, <2>2, <3>1
    <3>3. <<>> \o <<>> = <<>>
      OBVIOUS
    <3> QED BY <3>2, <3>3
  <2> HIDE DEF S
  <2> QED BY <2>1, <2>2, Induction
<1> DEFINE V == {j \in Nat : j <= n => So(f[a + j], j)}
<1>5. n \in V
  <2>1. 0 \in V
    <3>1. f[a] = <<>> /\ a + 0 = a
      BY <1>4
    <3>2. <<>> \in Seq(T) /\ Len(<<>>) = 0 /\ \A i \in 1..0 : <<>>[i] = r[i]
      OBVIOUS
    <3>3. So(f[a + 0], 0)
      BY ONLY <3>1, <3>2
    <3> QED BY <3>3
  <2>2. ASSUME NEW j \in Nat, j \in V PROVE j + 1 \in V
    <3> SUFFICES ASSUME j + 1 <= n PROVE So(f[a + (j + 1)], j + 1)
      OBVIOUS
    <3>1. a + (j + 1) \in 1..(a + n) /\ (a + (j + 1)) - 1 = a + j /\ j + 1 \in 1..n /\ j <= n
      BY <1>1
    <3> DEFINE g == f[a + j]
               x == r[j + 1]
               z == g \o <<x>>
    <3>2. f[a + (j + 1)] = z
      BY <1>3, <3>1 DEF n
    <3>3. So(g, j) /\ x \in T
      BY <1>1, <2>2, <3>1
    <3> HIDE DEF g, x
    <3> DEFINE o == <<x>>
    <3>4. o \in Seq(T) /\ Len(o) = 1 /\ o[1] = x
      BY <3>3
    <3>5. z = g \o o
      OBVIOUS
    <3> HIDE DEF o, z
    <3>6. /\ z \in Seq(T) /\ Len(z) = j + 1
          /\ \A i \in 1..(j + 1) : z[i] = IF i <= j THEN g[i] ELSE o[i - j]
      <4>1. /\ g \o o \in Seq(T) /\ Len(g \o o) = Len(g) + Len(o)
            /\ \A i \in 1..(Len(g) + Len(o)) : (g \o o)[i] = IF i <= Len(g) THEN g[i] ELSE o[i - Len(g)]
        BY ONLY <3>3, <3>4, Concat
      <4> QED BY ONLY <3>3, <3>4, <3>5, <4>1
    <3>7. ASSUME NEW i \in 1..(j + 1) PROVE z[i] = r[i]
      <4>1. CASE i <= j
        BY <3>3, <3>6, <4>1
      <4>2. CASE ~(i <= j)
        <5>1. i = j + 1 /\ i - j = 1
          BY <4>2
        <5> QED BY <3>4, <3>6, <5>1 DEF x
      <4> QED BY <4>1, <4>2
    <3> QED BY <3>2, <3>6, <3>7 DEF z
  <2> HIDE DEF V
  <2> QED BY <1>1, <2>1, <2>2, Induction
<1>6. So(FlattenSeq(ss), n)
  <2>1. n <= n
    BY <1>1
  <2>2. So(f[a + n], n)
    BY <1>5, <2>1
  <2> QED BY <1>3, <2>2
<1> QED BY <1>6, SeqEqual DEF n

\* What is in the parts is in the whole.
LEMMA FlattenRange ==
    ASSUME NEW T, NEW ss \in Seq(Seq(T))
    PROVE  Range(FlattenSeq(ss)) = UNION {Range(ss[i]) : i \in 1..Len(ss)}
<1> DEFINE n == Len(ss)
<1>1. n \in Nat /\ \A i \in 1..n : ss[i] \in Seq(T)
  BY LenProperties, ElementOfSeq
<1>2. PICK f : Builds(T, ss, f)
  BY FlattenBuilds
<1> HIDE DEF n
<1>3. /\ f[0] = <<>> /\ f[n] = FlattenSeq(ss)
      /\ \A k \in 0..n : f[k] \in Seq(T)
      /\ \A k \in 1..n : f[k] = f[k - 1] \o ss[k]
  BY <1>2 DEF Builds, n
<1> DEFINE S == {k \in Nat : k <= n => \A x : x \in Range(f[k]) <=> \E i \in 1..k : x \in Range(ss[i])}
<1>4. 0 \in S
  <2>1. Range(f[0]) = {}
    BY <1>3 DEF Range
  <2> QED BY <2>1
<1>5. ASSUME NEW k \in Nat, k \in S PROVE k + 1 \in S
  <2> SUFFICES ASSUME k + 1 <= n, NEW x
               PROVE  x \in Range(f[k + 1]) <=> \E i \in 1..(k + 1) : x \in Range(ss[i])
    OBVIOUS
  <2>1. k + 1 \in 1..n /\ (k + 1) - 1 = k /\ k \in 0..n /\ k <= n
    BY <1>1
  <2>2. f[k + 1] = f[k] \o ss[k + 1] /\ f[k] \in Seq(T) /\ ss[k + 1] \in Seq(T)
    BY <1>1, <1>3, <2>1
  <2>3. Range(f[k + 1]) = Range(f[k]) \cup Range(ss[k + 1])
    BY <2>2, RangeConcatenation
  <2>4. x \in Range(f[k]) <=> \E i \in 1..k : x \in Range(ss[i])
    BY <1>5, <2>1
  <2>5. 1..(k + 1) = 1..k \cup {k + 1}
    OBVIOUS
  <2> QED BY <2>3, <2>4, <2>5
<1> HIDE DEF S
<1>6. n \in S
  BY <1>1, <1>4, <1>5, Induction
<1>7. n <= n
  BY <1>1
<1>8. \A x : x \in Range(FlattenSeq(ss)) <=> \E i \in 1..n : x \in Range(ss[i])
  BY <1>3, <1>6, <1>7 DEF S
<1> QED BY <1>8 DEF n

-----------------------------------------------------------------------------
(* The levels of the tree. *)

\* Pages of level l, side by side from bound a to bound b.
Run(lo, hi, lev, s, l, a, b) ==
    /\ s \in Seq(PageId) /\ Len(s) >= 1
    /\ \A i \in 1..Len(s) : s[i] \in DOMAIN pages /\ lev[s[i]] = l
    /\ lo[s[1]] = a /\ hi[s[Len(s)]] = b
    /\ \A i \in 1..(Len(s) - 1) : hi[s[i]] = lo[s[i + 1]] /\ hi[s[i]] # 0

LEMMA RunConcat ==
    ASSUME NEW lo, NEW hi, NEW lev, NEW s, NEW r, NEW l, NEW a, NEW b, NEW c, b # 0,
           Run(lo, hi, lev, s, l, a, b), Run(lo, hi, lev, r, l, b, c)
    PROVE  Run(lo, hi, lev, s \o r, l, a, c)
<1> DEFINE z == s \o r
           m == Len(s)
           n == Len(r)
<1>1. /\ z \in Seq(PageId) /\ m \in Nat /\ n \in Nat /\ m >= 1 /\ n >= 1 /\ Len(z) = m + n
      /\ \A j \in 1..(m + n) : z[j] = IF j <= m THEN s[j] ELSE r[j - m]
  <2>1. s \in Seq(PageId) /\ r \in Seq(PageId) /\ m >= 1 /\ n >= 1
    BY DEF Run
  <2> QED BY <2>1, Concat
<1> HIDE DEF z
<1>2. /\ \A j \in 1..m : z[j] = s[j]
      /\ \A j \in (m + 1)..(m + n) : z[j] = r[j - m]
  BY <1>1
<1>3. /\ \A i \in 1..m : s[i] \in DOMAIN pages /\ lev[s[i]] = l
      /\ lo[s[1]] = a /\ hi[s[m]] = b
      /\ \A i \in 1..(m - 1) : hi[s[i]] = lo[s[i + 1]] /\ hi[s[i]] # 0
  BY DEF Run
<1>4. /\ \A i \in 1..n : r[i] \in DOMAIN pages /\ lev[r[i]] = l
      /\ lo[r[1]] = b /\ hi[r[n]] = c
      /\ \A i \in 1..(n - 1) : hi[r[i]] = lo[r[i + 1]] /\ hi[r[i]] # 0
  BY DEF Run
<1> HIDE DEF m, n
<1>5. ASSUME NEW i \in 1..(m + n) PROVE z[i] \in DOMAIN pages /\ lev[z[i]] = l
  <2>1. CASE i <= m
    BY <1>1, <1>2, <1>3, <2>1
  <2>2. CASE ~(i <= m)
    <3>1. i \in (m + 1)..(m + n) /\ i - m \in 1..n
      BY <1>1, <2>2
    <3> QED BY <1>2, <1>4, <3>1
  <2> QED BY <2>1, <2>2
<1>6. lo[z[1]] = a /\ hi[z[m + n]] = c
  <2>1. 1 \in 1..m /\ m + n \in (m + 1)..(m + n) /\ (m + n) - m = n
    BY <1>1
  <2> QED BY <1>2, <1>3, <1>4, <2>1
<1>7. ASSUME NEW i \in 1..((m + n) - 1) PROVE hi[z[i]] = lo[z[i + 1]] /\ hi[z[i]] # 0
  <2>1. CASE i < m
    <3>1. i \in 1..m /\ i + 1 \in 1..m /\ i \in 1..(m - 1)
      BY <1>1, <2>1
    <3> QED BY <1>2, <1>3, <3>1
  <2>2. CASE i = m
    <3>1. i \in 1..m /\ i + 1 \in (m + 1)..(m + n) /\ (i + 1) - m = 1
      BY <1>1, <2>2
    <3> QED BY <1>2, <1>3, <1>4, <2>2, <3>1
  <2>3. CASE i > m
    <3>1. /\ i \in (m + 1)..(m + n) /\ i + 1 \in (m + 1)..(m + n) /\ i - m \in 1..(n - 1)
          /\ (i + 1) - m = (i - m) + 1
      BY <1>1, <2>3
    <3> QED BY <1>2, <1>4, <3>1
  <2> QED BY <1>1, <2>1, <2>2, <2>3
<1>8. Run(lo, hi, lev, z, l, a, c)
  BY <1>1, <1>5, <1>6, <1>7 DEF Run
<1> QED BY <1>8 DEF z

\* The children of a page lie side by side.
LEMMA KidsRun ==
    ASSUME NEW root, NEW lo, NEW hi, NEW lev, Whole(pages, root, lo, hi, lev),
           NEW p \in DOMAIN pages, ~pages[p].leaf
    PROVE  lev[p] \in Nat /\ Run(lo, hi, lev, pages[p].kids, lev[p] - 1, lo[p], hi[p])
<1> DEFINE kids == pages[p].kids
           keys == pages[p].keys
<1>1. PageShape(pages, lo, hi, lev, NoPage, NoPage, p) /\ InnerShape(pages, lo, hi, lev, NoPage, NoPage, p)
      /\ lev \in [PageId -> Nat] /\ DOMAIN pages \subseteq PageId
  BY DEF Whole, Tree, Shaped, PageShape, LeafShape
<1>2. /\ kids \in Seq(PageId) /\ Len(kids) \in Nat /\ DOMAIN kids = 1..Len(kids)
      /\ DOMAIN keys = 1..Len(keys) /\ Len(keys) \in Nat
  BY <1>1, PageFields
<1>3. Len(kids) = Len(keys) + 1
  BY <1>1 DEF InnerShape
<1> HIDE DEF kids, keys
<1>4. ASSUME NEW i \in 1..Len(kids)
      PROVE  /\ kids[i] \in DOMAIN pages /\ lev[kids[i]] = lev[p] - 1
             /\ lo[kids[i]] = (IF i = 1 THEN lo[p] ELSE keys[i - 1])
             /\ hi[kids[i]] = (IF i = Len(kids) THEN hi[p] ELSE keys[i])
  <2>1. /\ kids[i] \in DOMAIN pages /\ lev[kids[i]] + 1 = lev[p]
        /\ lo[kids[i]] = (IF i = 1 THEN lo[p] ELSE keys[i - 1])
        /\ Wide(hi, NoPage, NoPage, kids[i]) = (IF i = Len(kids) THEN hi[p] ELSE keys[i])
    BY <1>1, <1>2 DEF InnerShape, kids, keys
  <2>2. kids[i] \in PageId /\ kids[i] # NoPage
    BY <1>1, <2>1, PageIds
  <2>3. lev[kids[i]] \in Nat /\ lev[p] \in Nat
    BY <1>1, <2>2
  <2> QED BY <2>1, <2>2, <2>3 DEF Wide
<1>5. ASSUME NEW i \in 1..(Len(kids) - 1) PROVE hi[kids[i]] = lo[kids[i + 1]] /\ hi[kids[i]] # 0
  <2>1. i \in 1..Len(kids) /\ i + 1 \in 1..Len(kids) /\ i # Len(kids) /\ i + 1 # 1 /\ (i + 1) - 1 = i
    <3>1. Len(kids) \in Nat
      BY <1>2
    <3> QED BY ONLY <3>1, i \in 1..(Len(kids) - 1)
  <2>2. i \in DOMAIN keys
    BY <1>2, <1>3
  <2>3. lo[p] \in Nat /\ keys[i] \in Nat /\ lo[p] < keys[i]
    <3>1. keys[i] \in Nat
      BY <1>1, <2>2, PageFields DEF keys
    <3>2. lo[p] \in Nat
      BY DEF Whole, Tree, Shaped
    <3>3. lo[p] < keys[i]
      BY <1>1, <2>2 DEF InnerShape, keys
    <3> QED BY <3>1, <3>2, <3>3
  <2>4. hi[kids[i]] = keys[i] /\ keys[i] # 0
    BY <1>4, <2>1, <2>3
  <2> QED BY <1>4, <2>1, <2>4
<1>6. 1 \in 1..Len(kids) /\ Len(kids) \in 1..Len(kids) /\ Len(kids) >= 1
  BY <1>2, <1>3
<1>7. lo[kids[1]] = lo[p] /\ hi[kids[Len(kids)]] = hi[p]
  BY <1>4, <1>6
<1>8. Run(lo, hi, lev, kids, lev[p] - 1, lo[p], hi[p])
  BY <1>2, <1>4, <1>5, <1>6, <1>7 DEF Run
<1> QED BY <1>1, <1>8 DEF kids

\* The pages below those of s.
KidsOf(s) == [i \in DOMAIN s |-> pages[s[i]].kids]
Below(s)  == FlattenSeq(KidsOf(s))

LEMMA NextRun ==
    ASSUME NEW root, NEW lo, NEW hi, NEW lev, Whole(pages, root, lo, hi, lev),
           NEW s, NEW l \in Nat, l > 0, NEW a, NEW b, Run(lo, hi, lev, s, l, a, b)
    PROVE  Run(lo, hi, lev, Below(s), l - 1, a, b)
<1> DEFINE ss == KidsOf(s)
           n == Len(s)
<1>1. /\ n \in Nat /\ n >= 1 /\ DOMAIN s = 1..n
      /\ \A i \in 1..n : s[i] \in DOMAIN pages /\ lev[s[i]] = l
      /\ lo[s[1]] = a /\ hi[s[n]] = b
      /\ \A i \in 1..(n - 1) : hi[s[i]] = lo[s[i + 1]] /\ hi[s[i]] # 0
  <2>1. s \in Seq(PageId)
    BY DEF Run
  <2>2. n \in Nat /\ DOMAIN s = 1..n
    BY <2>1, LenProperties
  <2> QED BY <2>2 DEF Run
<1> HIDE DEF n
<1>2. ss = [i \in 1..n |-> pages[s[i]].kids]
  BY <1>1 DEF KidsOf
<1>3. ASSUME NEW i \in 1..n PROVE Run(lo, hi, lev, ss[i], l - 1, lo[s[i]], hi[s[i]])
  <2>1. s[i] \in DOMAIN pages /\ lev[s[i]] = l
    BY <1>1
  <2>2. ~pages[s[i]].leaf
    <3>1. Shaped(pages, root, lo, hi, lev, NoPage, NoPage)
      BY DEF Whole, Tree
    <3> QED BY <2>1, <3>1, LeafLevel
  <2> QED BY <1>2, <2>1, <2>2, KidsRun
<1> HIDE DEF ss
<1>4. ss \in Seq(Seq(PageId)) /\ Len(ss) = n
  <2>1. \A i \in 1..n : ss[i] \in Seq(PageId)
    BY <1>3 DEF Run
  <2>2. ss \in [1..n -> Seq(PageId)]
    BY <1>2, <2>1
  <2> QED BY <1>1, <2>2
<1>5. PICK f : Builds(PageId, ss, f)
  BY <1>4, FlattenBuilds
<1> DEFINE S == {k \in Nat : k + 1 <= n => Run(lo, hi, lev, f[k + 1], l - 1, a, hi[s[k + 1]])}
<1>6. 0 \in S
  <2>1. 0 \in 0..n /\ 1 \in 1..n /\ 1 - 1 = 0 /\ 0 + 1 = 1
    BY <1>1
  <2>2. f[1] = f[1 - 1] \o ss[1] /\ f[0] = <<>>
    BY ONLY <1>4, <1>5, <2>1 DEF Builds
  <2>3. f[1] = ss[1]
    <3>1. ss[1] \in Seq(PageId)
      BY <1>3, <2>1 DEF Run
    <3> QED BY <2>1, <2>2, <3>1, ConcatEmptySeq
  <2>4. Run(lo, hi, lev, f[1], l - 1, a, hi[s[1]])
    BY <1>1, <1>3, <2>1, <2>3
  <2> QED BY <2>1, <2>4
<1>7. ASSUME NEW k \in Nat, k \in S PROVE k + 1 \in S
  <2> SUFFICES ASSUME (k + 1) + 1 <= n
               PROVE  Run(lo, hi, lev, f[(k + 1) + 1], l - 1, a, hi[s[(k + 1) + 1]])
    OBVIOUS
  <2>1. k + 1 \in 1..(n - 1) /\ (k + 1) + 1 \in 1..n /\ ((k + 1) + 1) - 1 = k + 1 /\ k + 1 <= n
    BY <1>1
  <2>2. Run(lo, hi, lev, f[k + 1], l - 1, a, hi[s[k + 1]])
    BY <1>7, <2>1
  <2>3. f[(k + 1) + 1] = f[k + 1] \o ss[(k + 1) + 1]
    BY <1>4, <1>5, <2>1 DEF Builds
  <2>4. Run(lo, hi, lev, ss[(k + 1) + 1], l - 1, hi[s[k + 1]], hi[s[(k + 1) + 1]])
    BY <1>1, <1>3, <2>1
  <2>5. hi[s[k + 1]] # 0
    BY <1>1, <2>1
  <2> QED BY <2>2, <2>3, <2>4, <2>5, RunConcat
<1> HIDE DEF S
<1>8. n - 1 \in Nat /\ n - 1 \in S
  <2>1. n - 1 \in Nat
    BY <1>1
  <2>2. \A k \in Nat : k \in S
    BY ONLY <1>6, <1>7, Induction
  <2> QED BY <2>1, <2>2
<1>9. (n - 1) + 1 = n
  BY <1>1
<1>10. Run(lo, hi, lev, f[n], l - 1, a, b)
  BY <1>1, <1>8, <1>9 DEF S
<1> QED BY <1>4, <1>5, <1>10 DEF Builds, Below, ss

\* Below the leaves there is nothing.
LEMMA BelowNone ==
    ASSUME NEW s \in Seq(PageId), \A i \in 1..Len(s) : pages[s[i]].kids = <<>>
    PROVE  Below(s) = <<>>
<1> DEFINE ss == KidsOf(s)
           n == Len(s)
           none == <<>>
<1>1. n \in Nat /\ DOMAIN s = 1..n
  BY LenProperties
<1>2. none \in Seq(PageId) /\ Len(none) = 0 /\ ss = [i \in 1..n |-> none]
  BY <1>1 DEF KidsOf
<1> HIDE DEF ss, n
<1>3. /\ ss \in Seq(Seq(PageId)) /\ Len(ss) = n + Len(none)
      /\ \A i \in 1..n : ss[i] = <<>>
      /\ \A j \in 1..Len(none) : ss[n + j] = <<none[j]>>
  <2>1. ss \in [1..n -> Seq(PageId)]
    BY <1>2
  <2> QED BY <1>1, <1>2, <2>1
<1> HIDE DEF none
<1>4. FlattenSeq(ss) = none
  BY <1>1, <1>2, <1>3, FlattenOnes
<1> QED BY <1>4 DEF Below, ss, none

\* f has the first m levels.
Top == IF root_page_id = NoPage THEN <<>> ELSE <<root_page_id>>
Rows(f, m) ==
    /\ f = [n \in 1..m |-> f[n]]
    /\ \A n \in 1..m : /\ n = 1 => f[n] = Top
                       /\ n # 1 => f[n] = Below(f[n - 1])

LEMMA RowsExist == ASSUME NEW m \in Nat PROVE \E f : Rows(f, m)
<1> DEFINE S == {n \in Nat : \E f : Rows(f, n)}
<1>1. 0 \in S
  <2>1. Rows([i \in 1..0 |-> 0], 0)
    BY DEF Rows
  <2> QED BY <2>1
<1>2. ASSUME NEW n \in Nat, n \in S PROVE n + 1 \in S
  <2>1. PICK f : Rows(f, n)
    BY <1>2
  <2> DEFINE g == [i \in 1..(n + 1) |->
                      IF i = n + 1 THEN IF i = 1 THEN Top ELSE Below(f[n]) ELSE f[i]]
  <2>2. /\ g = [i \in 1..(n + 1) |-> g[i]]
        /\ \A i \in 1..n : g[i] = f[i]
        /\ g[n + 1] = IF n + 1 = 1 THEN Top ELSE Below(f[n])
    OBVIOUS
  <2> HIDE DEF g
  <2>3. ASSUME NEW i \in 1..(n + 1)
        PROVE  /\ i = 1 => g[i] = Top
               /\ i # 1 => g[i] = Below(g[i - 1])
    <3>1. CASE i = n + 1
      <4>1. i # 1 => n \in 1..n /\ i - 1 = n
        BY <3>1
      <4> QED BY <2>2, <3>1, <4>1
    <3>2. CASE i # n + 1
      <4>1. i \in 1..n /\ (i # 1 => i - 1 \in 1..n)
        BY <3>2
      <4> QED BY <2>1, <2>2, <4>1 DEF Rows
    <3> QED BY <3>1, <3>2
  <2>4. Rows(g, n + 1)
    BY <2>2, <2>3 DEF Rows
  <2> QED BY <2>4
<1> HIDE DEF S
<1>3. m \in S
  BY <1>1, <1>2, Induction
<1> QED BY <1>3 DEF S

LEMMA LevelRows == Rows(Level, MaxHeight)
<1> DEFINE Equation(f) ==
              f = [n \in 1..MaxHeight |->
                     IF n = 1 THEN IF root_page_id = NoPage THEN <<>> ELSE <<root_page_id>>
                     ELSE LET above == f[n - 1]
                          IN  FlattenSeq([i \in DOMAIN above |-> pages[above[i]].kids])]
           row == CHOOSE f : Equation(f)
<1>0. MaxHeight \in Nat
  BY TreeBounds
<1>1. ASSUME NEW f, Rows(f, MaxHeight) PROVE Equation(f)
  BY <1>1 DEF Rows, Below, KidsOf, Top
<1>2. ASSUME NEW f, Equation(f) PROVE Rows(f, MaxHeight)
  <2> DEFINE g == [n \in 1..MaxHeight |-> IF n = 1 THEN Top ELSE Below(f[n - 1])]
  <2>1. f = g
    BY <1>2 DEF Below, KidsOf, Top
  <2>2. /\ g = [i \in 1..MaxHeight |-> g[i]]
        /\ \A i \in 1..MaxHeight : g[i] = IF i = 1 THEN Top ELSE Below(f[i - 1])
    OBVIOUS
  <2> HIDE DEF g
  <2> QED BY <2>1, <2>2 DEF Rows
<1>3. Level = row
  BY DEF Level
<1> HIDE DEF Equation
<1>4. \E f : Equation(f)
  BY <1>0, <1>1, RowsExist
<1>5. Equation(row)
  BY <1>4
<1> QED BY <1>2, <1>3, <1>5

LEMMA BelowRun ==
    ASSUME NEW root, NEW lo, NEW hi, NEW lev, Whole(pages, root, lo, hi, lev),
           NEW s, NEW l, NEW m, l \in Nat, m \in Nat, l = m + 1, Run(lo, hi, lev, s, l, 0, 0)
    PROVE  Run(lo, hi, lev, Below(s), m, 0, 0)
<1>1. l > 0 /\ l - 1 = m
  OBVIOUS
<1>2. Run(lo, hi, lev, Below(s), l - 1, 0, 0)
  BY <1>1, NextRun
<1> QED BY <1>1, <1>2

\* The levels of a tree that is whole: the pages of each cover all keys.
LEMMA LevelIs ==
    ASSUME root_page_id # NoPage, NEW lo, NEW hi, NEW lev, Whole(pages, root_page_id, lo, hi, lev)
    PROVE  /\ lev[root_page_id] \in Nat /\ DOMAIN Level = 1..MaxHeight
           /\ \A n \in 1..MaxHeight :
                 IF n <= lev[root_page_id] + 1
                 THEN Run(lo, hi, lev, Level[n], lev[root_page_id] + 1 - n, 0, 0) ELSE Level[n] = <<>>
<1> DEFINE h == lev[root_page_id]
           At(n) == IF n <= h + 1 THEN Run(lo, hi, lev, Level[n], h + 1 - n, 0, 0) ELSE Level[n] = <<>>
<1>1. /\ Rows(Level, MaxHeight) /\ MaxHeight \in Nat
      /\ Shaped(pages, root_page_id, lo, hi, lev, NoPage, NoPage)
  BY LevelRows, TreeBounds DEF Whole, Tree
<1>2. /\ root_page_id \in DOMAIN pages /\ root_page_id \in PageId /\ h \in Nat
      /\ lo[root_page_id] = 0 /\ hi[root_page_id] = 0
  BY <1>1 DEF Shaped, Wide
<1>3. ASSUME 1 \in 1..MaxHeight PROVE At(1)
  <2>1. Level[1] = <<root_page_id>>
    BY <1>1, <1>3 DEF Rows, Top
  <2>2. <<root_page_id>> \in Seq(PageId) /\ Len(<<root_page_id>>) = 1 /\ <<root_page_id>>[1] = root_page_id
    BY <1>2
  <2>3. Run(lo, hi, lev, <<root_page_id>>, h, 0, 0)
    BY <1>2, <2>2 DEF Run
  <2>4. 1 <= h + 1 /\ h + 1 - 1 = h
    BY <1>2
  <2> QED BY <2>1, <2>3, <2>4
<1>4. ASSUME NEW n \in 1..MaxHeight, n + 1 \in 1..MaxHeight, At(n) PROVE At(n + 1)
  <2>1. Level[n + 1] = Below(Level[n])
    <3>1. n + 1 # 1 /\ (n + 1) - 1 = n
      OBVIOUS
    <3> QED BY <1>1, <1>4, <3>1 DEF Rows
  <2> HIDE DEF h
  <2>2. CASE n + 1 <= h + 1
    <3>1. n <= h + 1 /\ h + 1 - n \in Nat /\ h + 1 - n > 0 /\ h + 1 - n - 1 = h + 1 - (n + 1)
      BY <1>2, <2>2
    <3>2. Run(lo, hi, lev, Level[n], h + 1 - n, 0, 0)
      BY <1>4, <3>1
    <3> DEFINE l == h + 1 - n
               m == h + 1 - (n + 1)
    <3>3. l \in Nat /\ m \in Nat /\ l = m + 1 /\ Run(lo, hi, lev, Level[n], l, 0, 0)
      BY <1>2, <2>2, <3>1, <3>2
    <3> HIDE DEF l, m
    <3>4. Run(lo, hi, lev, Below(Level[n]), m, 0, 0)
      BY <3>3, BelowRun
    <3> QED BY <2>1, <2>2, <3>4 DEF m
  <2>3. CASE ~(n + 1 <= h + 1) /\ n <= h + 1
    <3>1. n = h + 1 /\ h + 1 - n = 0
      BY <1>2, <2>3
    <3>2. Run(lo, hi, lev, Level[n], 0, 0, 0)
      BY <1>4, <2>3, <3>1
    <3>3. Level[n] \in Seq(PageId) /\ \A i \in 1..Len(Level[n]) : pages[Level[n][i]].kids = <<>>
      <4>1. \A p \in DOMAIN pages : lev[p] = 0 => pages[p].kids = <<>>
        <5> TAKE p \in DOMAIN pages
        <5> HAVE lev[p] = 0
        <5>1. PageShape(pages, lo, hi, lev, NoPage, NoPage, p)
          BY <1>1 DEF Shaped
        <5> QED BY <5>1 DEF PageShape, LeafShape, InnerShape
      <4> QED BY <3>2, <4>1 DEF Run
    <3>4. Level[n + 1] = <<>>
      BY <2>1, <3>3, BelowNone
    <3> QED BY <2>3, <3>4
  <2>4. CASE ~(n <= h + 1)
    <3>1. Level[n] = <<>> /\ ~(n + 1 <= h + 1)
      BY <1>2, <1>4, <2>4
    <3>2. Below(<<>>) = <<>>
      <4> DEFINE s == <<>>
      <4>1. s \in Seq(PageId) /\ \A i \in 1..Len(s) : pages[s[i]].kids = <<>>
        OBVIOUS
      <4> HIDE DEF s
      <4>2. Below(s) = <<>>
        BY <4>1, BelowNone
      <4> QED BY <4>2 DEF s
    <3> QED BY <2>1, <3>1, <3>2
  <2> QED BY <2>2, <2>3, <2>4
<1> HIDE DEF At
<1> DEFINE S == {n \in Nat : n + 1 \in 1..MaxHeight => At(n + 1)}
<1>5. 0 \in S
  BY <1>3
<1>6. ASSUME NEW n \in Nat, n \in S PROVE n + 1 \in S
  <2> SUFFICES ASSUME (n + 1) + 1 \in 1..MaxHeight PROVE At((n + 1) + 1)
    OBVIOUS
  <2>1. n + 1 \in 1..MaxHeight
    BY <1>1
  <2> QED BY <1>4, <1>6, <2>1
<1> HIDE DEF S
<1>7. ASSUME NEW n \in 1..MaxHeight PROVE At(n)
  <2>1. n - 1 \in Nat /\ (n - 1) + 1 = n
    OBVIOUS
  <2>2. n - 1 \in S
    BY <1>5, <1>6, <2>1, Induction
  <2> QED BY <2>1, <2>2 DEF S
<1>8. DOMAIN Level = 1..MaxHeight
  BY <1>1 DEF Rows
<1> QED BY <1>2, <1>7, <1>8 DEF At

\* No levels without a root.
LEMMA NoLevels ==
    ASSUME root_page_id = NoPage PROVE DOMAIN Level = 1..MaxHeight /\ \A n \in 1..MaxHeight : Level[n] = <<>>
<1>1. Rows(Level, MaxHeight)
  BY LevelRows
<1> DEFINE S == {n \in Nat : n + 1 \in 1..MaxHeight => Level[n + 1] = <<>>}
<1>2. 0 \in S
  <2>1. 0 + 1 = 1 /\ Top = <<>>
    BY DEF Top
  <2> QED BY <1>1, <2>1 DEF Rows
<1>3. Below(<<>>) = <<>>
  <2> DEFINE s == <<>>
  <2>1. s \in Seq(PageId) /\ \A i \in 1..Len(s) : pages[s[i]].kids = <<>>
    OBVIOUS
  <2> HIDE DEF s
  <2>2. Below(s) = <<>>
    BY <2>1, BelowNone
  <2> QED BY <2>2 DEF s
<1>4. ASSUME NEW n \in Nat, n \in S PROVE n + 1 \in S
  <2> SUFFICES ASSUME (n + 1) + 1 \in 1..MaxHeight PROVE Level[(n + 1) + 1] = <<>>
    OBVIOUS
  <2>1. n + 1 \in 1..MaxHeight /\ (n + 1) + 1 # 1 /\ ((n + 1) + 1) - 1 = n + 1
    BY TreeBounds
  <2> QED BY <1>1, <1>3, <1>4, <2>1 DEF Rows
<1> HIDE DEF S
<1>5. ASSUME NEW n \in 1..MaxHeight PROVE Level[n] = <<>>
  <2>1. n - 1 \in Nat /\ (n - 1) + 1 = n
    OBVIOUS
  <2>2. n - 1 \in S
    BY <1>2, <1>4, <2>1, Induction
  <2> QED BY <2>1, <2>2 DEF S
<1> QED BY <1>1, <1>5 DEF Rows

\* A page of the tree is as full as it should be.
LEMMA PageFilled ==
    ASSUME NEW root, NEW lo, NEW hi, NEW lev, Whole(pages, root, lo, hi, lev), NEW p \in DOMAIN pages
    PROVE  /\ pages[p].leaf <=> lev[p] = 0
           /\ IF pages[p].leaf
              THEN Len(pages[p].keys) \in (IF p = root THEN 1 ELSE LeafMin)..(LeafMax - 1)
              ELSE /\ Len(pages[p].kids) \in (IF p = root THEN 2 ELSE InternalMin)..InternalMax
                   /\ Len(pages[p].keys) = Len(pages[p].kids) - 1
<1>1. /\ Shaped(pages, root, lo, hi, lev, NoPage, NoPage) /\ Filled(pages, root, NoPage, p)
      /\ p \in PageId /\ PageShape(pages, lo, hi, lev, NoPage, NoPage, p)
  BY DEF Whole, Tree, Shaped
<1>2. pages[p].leaf <=> lev[p] = 0
  BY <1>1, LeafLevel
<1>3. p # NoPage
  BY <1>1, PageIds
<1>4. Len(pages[p].keys) \in Nat /\ Len(pages[p].kids) \in Nat
  BY <1>1, PageFields
<1>5. CASE pages[p].leaf
  <2>1. /\ Len(pages[p].keys) < LeafMax
        /\ Len(pages[p].keys) >= (IF p = root THEN 1 ELSE LeafMin)
    BY <1>1, <1>3, <1>5 DEF Filled
  <2> QED BY <1>2, <1>4, <1>5, <2>1, Sizes
<1>6. CASE ~pages[p].leaf
  <2>1. /\ Len(pages[p].kids) <= InternalMax
        /\ Len(pages[p].kids) >= (IF p = root THEN 2 ELSE InternalMin)
    BY <1>1, <1>3, <1>6 DEF Filled
  <2>2. Len(pages[p].kids) = Len(pages[p].keys) + 1
    BY <1>1, <1>6 DEF PageShape, LeafShape, InnerShape
  <2> QED BY <1>2, <1>4, <1>6, <2>1, <2>2, Sizes
<1> QED BY <1>5, <1>6

LEMMA BalanceFollows == ASSUME InsertInv PROVE Balanced
<1>1. PICK lo, hi, lev : TreeAt(root_page_id, pages, lo, hi, lev)
  BY DEF InsertInv
<1> SUFFICES ASSUME NEW n \in 1..MaxHeight, NEW i \in DOMAIN Level[n]
             PROVE  /\ pages[Level[n][i]].leaf = pages[Level[n][1]].leaf
                    /\ IF pages[Level[n][i]].leaf
                       THEN Len(pages[Level[n][i]].keys) \in (IF n = 1 THEN 1 ELSE LeafMin)..(LeafMax - 1)
                       ELSE /\ Len(pages[Level[n][i]].kids) \in
                                  (IF n = 1 THEN 2 ELSE InternalMin)..InternalMax
                            /\ Len(pages[Level[n][i]].keys) = Len(pages[Level[n][i]].kids) - 1
  BY DEF Balanced
<1>2. CASE root_page_id = NoPage
  BY <1>2, NoLevels
<1>3. CASE root_page_id # NoPage
  <2> DEFINE root == root_page_id
             p == Level[n][i]
             q == Level[n][1]
             l == lev[root] + 1 - n
  <2>1. Whole(pages, root, lo, hi, lev)
    BY <1>1, <1>3 DEF TreeAt
  <2>2. /\ lev[root] \in Nat
        /\ IF n <= lev[root] + 1 THEN Run(lo, hi, lev, Level[n], l, 0, 0) ELSE Level[n] = <<>>
    BY <1>3, <2>1, LevelIs
  <2>3. n <= lev[root] + 1 /\ Run(lo, hi, lev, Level[n], l, 0, 0)
    BY <2>2
  <2>4. /\ Level[n] \in Seq(PageId) /\ Len(Level[n]) >= 1
        /\ \A j \in 1..Len(Level[n]) : Level[n][j] \in DOMAIN pages /\ lev[Level[n][j]] = l
    BY <2>3 DEF Run
  <2>5. i \in 1..Len(Level[n]) /\ 1 \in 1..Len(Level[n])
    <3>1. DOMAIN Level[n] = 1..Len(Level[n]) /\ Len(Level[n]) \in Nat
      BY <2>4, LenProperties
    <3> QED BY <2>4, <3>1
  <2>6. /\ p \in DOMAIN pages /\ lev[p] = l /\ q \in DOMAIN pages /\ lev[q] = l
    BY <2>4, <2>5
  <2>7. n = 1 <=> p = root
    <3>1. ASSUME n = 1 PROVE p = root
      <4>1. Level[1] = <<root>>
        BY <1>3, <3>1, LevelRows DEF Rows, Top
      <4>2. i = 1
        BY <2>5, <3>1, <4>1
      <4> QED BY <3>1, <4>1, <4>2
    <3>2. ASSUME p = root PROVE n = 1
      BY <2>2, <2>6, <3>2
    <3> QED BY <3>1, <3>2
  <2>8. /\ pages[p].leaf <=> l = 0
        /\ IF pages[p].leaf
           THEN Len(pages[p].keys) \in (IF p = root THEN 1 ELSE LeafMin)..(LeafMax - 1)
           ELSE /\ Len(pages[p].kids) \in (IF p = root THEN 2 ELSE InternalMin)..InternalMax
                /\ Len(pages[p].keys) = Len(pages[p].kids) - 1
    <3> HIDE DEF p, l
    <3> QED BY <2>1, <2>6, PageFilled
  <2>9. pages[q].leaf <=> l = 0
    <3> HIDE DEF q, l
    <3> QED BY <2>1, <2>6, PageFilled
  <2>10. pages[p].leaf \in BOOLEAN /\ pages[q].leaf \in BOOLEAN
    <3>1. /\ PageShape(pages, lo, hi, lev, NoPage, NoPage, p)
          /\ PageShape(pages, lo, hi, lev, NoPage, NoPage, q)
      BY <2>1, <2>6 DEF Whole, Tree, Shaped
    <3> HIDE DEF p, q
    <3> QED BY <3>1, PageFields
  <2> HIDE DEF p, q, l
  <2>11. /\ pages[p].leaf = pages[q].leaf
         /\ IF pages[p].leaf
            THEN Len(pages[p].keys) \in (IF n = 1 THEN 1 ELSE LeafMin)..(LeafMax - 1)
            ELSE /\ Len(pages[p].kids) \in (IF n = 1 THEN 2 ELSE InternalMin)..InternalMax
                 /\ Len(pages[p].keys) = Len(pages[p].kids) - 1
    BY <2>7, <2>8, <2>9, <2>10
  <2> QED BY <2>11 DEF p, q
<1> QED BY <1>2, <1>3

\* Where nobody removes, the tree stays balanced and half full, and no page
\* outgrows its maximum: a split leaves both halves with the minimum, on the
\* same level, all the way up, however insertions overlap, up to one in a stale
\* leaf (Insert, InsertIntoParent).
THEOREM TreeBalanced == ASSUME InsertOnly PROVE Spec /\ [][LeavesFresh]_vars => []Balanced
<1>1. InsertInv => Balanced
  BY BalanceFollows
<1> QED BY <1>1, TreeInvariant, PTL

-----------------------------------------------------------------------------
(* The chain of the leaves. *)

\* The pages from the root down: first those that are no leaves, then the leaves.
LEMMA AllPages ==
    ASSUME root_page_id # NoPage, NEW lo, NEW hi, NEW lev, Whole(pages, root_page_id, lo, hi, lev),
           lev[root_page_id] < MaxHeight
    PROVE  \E r, q : /\ Run(lo, hi, lev, r, 0, 0, 0) /\ q \in Seq(PageId)
                     /\ FlattenSeq(Level) = q \o r
                     /\ \A i \in 1..Len(q) : q[i] \in DOMAIN pages /\ ~pages[q[i]].leaf
<1> DEFINE h == lev[root_page_id]
           m == MaxHeight
<1>1. h \in Nat /\ m \in Nat /\ h + 1 \in 1..m /\ DOMAIN Level = 1..m
  BY LevelIs, TreeBounds
<1> DEFINE r == Level[h + 1]
<1>2. ASSUME NEW n \in 1..m, n <= h
      PROVE  /\ Level[n] \in Seq(PageId)
             /\ \A i \in 1..Len(Level[n]) : Level[n][i] \in DOMAIN pages /\ ~pages[Level[n][i]].leaf
  <2> DEFINE l == h + 1 - n
  <2>1. Run(lo, hi, lev, Level[n], l, 0, 0)
    BY <1>1, <1>2, LevelIs
  <2>2. l # 0
    BY <1>1, <1>2
  <2>3. \A p \in DOMAIN pages : pages[p].leaf <=> lev[p] = 0
    BY LeafLevel DEF Whole, Tree
  <2> HIDE DEF l
  <2> QED BY <2>1, <2>2, <2>3 DEF Run
<1>3. Run(lo, hi, lev, r, 0, 0, 0)
  <2> DEFINE n == h + 1
  <2>1. n \in 1..m /\ n <= h + 1 /\ h + 1 - n = 0
    BY <1>1
  <2>2. Run(lo, hi, lev, Level[n], h + 1 - n, 0, 0)
    <3> HIDE DEF n
    <3> QED BY <2>1, LevelIs
  <2> QED BY <2>1, <2>2
<1>4. ASSUME NEW n \in 1..m, n > h + 1 PROVE Level[n] = <<>>
  BY <1>1, <1>4, LevelIs
<1>5. r \in Seq(PageId)
  BY <1>3 DEF Run
<1>6. Level \in Seq(Seq(PageId)) /\ Len(Level) = m
  <2>1. ASSUME NEW n \in 1..m PROVE Level[n] \in Seq(PageId)
    <3>1. CASE n <= h
      BY <1>2, <3>1
    <3>2. CASE n = h + 1
      BY <1>5, <3>2
    <3>3. CASE n > h + 1
      <4>1. <<>> \in Seq(PageId)
        OBVIOUS
      <4> QED BY <1>4, <3>3, <4>1
    <3> QED BY <1>1, <3>1, <3>2, <3>3
  <2>2. Level = [n \in 1..m |-> Level[n]]
    BY LevelRows DEF Rows
  <2>3. Level \in [1..m -> Seq(PageId)]
    BY <2>1, <2>2
  <2> QED BY <1>1, <2>3
<1> HIDE DEF h, m
<1>7. PICK f : Builds(PageId, Level, f)
  BY <1>6, FlattenBuilds
<1>8. /\ f[0] = <<>> /\ f[m] = FlattenSeq(Level)
      /\ \A k \in 0..m : f[k] \in Seq(PageId)
      /\ \A k \in 1..m : f[k] = f[k - 1] \o Level[k]
  BY <1>6, <1>7 DEF Builds
<1> DEFINE S == {n \in Nat : n <= h => \A i \in 1..Len(f[n]) : f[n][i] \in DOMAIN pages /\ ~pages[f[n][i]].leaf}
<1>9. h \in S
  <2>1. 0 \in S
    <3>1. Len(f[0]) = 0
      BY <1>8
    <3> QED BY <3>1
  <2>2. ASSUME NEW n \in Nat, n \in S PROVE n + 1 \in S
    <3> DEFINE z == f[n + 1]
               g == f[n]
               s == Level[n + 1]
    <3> SUFFICES ASSUME n + 1 <= h, NEW i \in 1..Len(z)
                 PROVE  z[i] \in DOMAIN pages /\ ~pages[z[i]].leaf
      OBVIOUS
    <3>1. n + 1 \in 1..m /\ n \in 0..m /\ (n + 1) - 1 = n /\ n <= h
      BY <1>1
    <3>2. z = g \o s /\ g \in Seq(PageId)
      BY <1>8, <3>1
    <3>3. s \in Seq(PageId) /\ \A j \in 1..Len(s) : s[j] \in DOMAIN pages /\ ~pages[s[j]].leaf
      BY <1>2, <3>1
    <3>4. \A j \in 1..Len(g) : g[j] \in DOMAIN pages /\ ~pages[g[j]].leaf
      BY <2>2, <3>1
    <3> HIDE DEF z, g, s
    <3>5. /\ Len(g) \in Nat /\ Len(s) \in Nat /\ Len(z) = Len(g) + Len(s)
          /\ \A j \in 1..(Len(g) + Len(s)) : z[j] = IF j <= Len(g) THEN g[j] ELSE s[j - Len(g)]
      BY <3>2, <3>3, Concat
    <3>6. CASE i <= Len(g)
      BY <3>4, <3>5, <3>6
    <3>7. CASE ~(i <= Len(g))
      <4>1. i - Len(g) \in 1..Len(s)
        BY <3>5, <3>7
      <4> QED BY <3>3, <3>5, <3>7, <4>1
    <3> QED BY <3>6, <3>7
  <2> HIDE DEF S
  <2> QED BY <1>1, <2>1, <2>2, Induction
<1> DEFINE V == {n \in Nat : (h + 1) + n <= m => f[(h + 1) + n] = f[h + 1]}
<1>10. m - (h + 1) \in V
  <2>1. 0 \in V
    BY <1>1
  <2>2. ASSUME NEW n \in Nat, n \in V PROVE n + 1 \in V
    <3> SUFFICES ASSUME (h + 1) + (n + 1) <= m PROVE f[(h + 1) + (n + 1)] = f[h + 1]
      OBVIOUS
    <3>1. /\ (h + 1) + (n + 1) \in 1..m /\ (h + 1) + n \in 0..m /\ ((h + 1) + (n + 1)) - 1 = (h + 1) + n
          /\ (h + 1) + n <= m /\ (h + 1) + (n + 1) > h + 1
      BY <1>1
    <3>2. f[(h + 1) + (n + 1)] = f[(h + 1) + n] \o Level[(h + 1) + (n + 1)]
      BY <1>8, <3>1
    <3>3. Level[(h + 1) + (n + 1)] = <<>>
      BY <1>4, <3>1
    <3>4. f[(h + 1) + n] \in Seq(PageId) /\ f[(h + 1) + n] = f[h + 1]
      BY <1>8, <2>2, <3>1
    <3> QED BY <3>2, <3>3, <3>4, ConcatEmptySeq
  <2>3. m - (h + 1) \in Nat
    BY <1>1
  <2> HIDE DEF V
  <2> QED BY <2>1, <2>2, <2>3, Induction
<1>11. f[m] = f[h + 1]
  <2>1. (h + 1) + (m - (h + 1)) = m /\ m <= m
    BY <1>1
  <2> QED BY <1>10, <2>1
<1>12. f[h + 1] = f[h] \o r /\ f[h] \in Seq(PageId)
  <2>1. (h + 1) - 1 = h /\ h \in 0..m
    BY <1>1
  <2> QED BY <1>1, <1>8, <2>1
<1>13. \A i \in 1..Len(f[h]) : f[h][i] \in DOMAIN pages /\ ~pages[f[h][i]].leaf
  <2>1. h <= h
    BY <1>1
  <2> QED BY <1>9, <2>1
<1> DEFINE q == f[h]
<1>14. /\ Run(lo, hi, lev, r, 0, 0, 0) /\ q \in Seq(PageId)
       /\ FlattenSeq(Level) = q \o r
       /\ \A i \in 1..Len(q) : q[i] \in DOMAIN pages /\ ~pages[q[i]].leaf
  BY <1>3, <1>8, <1>11, <1>12, <1>13
<1> HIDE DEF q, r
<1> QED BY ONLY <1>14

\* The leaves of a tree that is whole: side by side, over all keys.
LEMMA LeavesRun ==
    ASSUME root_page_id # NoPage, NEW lo, NEW hi, NEW lev, Whole(pages, root_page_id, lo, hi, lev),
           lev[root_page_id] < MaxHeight
    PROVE  Run(lo, hi, lev, Leaves, 0, 0, 0)
<1>1. PICK r, q : /\ Run(lo, hi, lev, r, 0, 0, 0) /\ q \in Seq(PageId)
                  /\ FlattenSeq(Level) = q \o r
                  /\ \A i \in 1..Len(q) : q[i] \in DOMAIN pages /\ ~pages[q[i]].leaf
  BY AllPages
<1> DEFINE all == FlattenSeq(Level)
           ss == [i \in DOMAIN all |-> IF pages[all[i]].leaf THEN <<all[i]>> ELSE <<>>]
           a == Len(q)
           n == Len(r)
<1>2. Leaves = FlattenSeq(ss)
  BY DEF Leaves
<1>3. r \in Seq(PageId) /\ \A i \in 1..n : r[i] \in DOMAIN pages /\ lev[r[i]] = 0
  BY <1>1 DEF Run
<1>4. \A p \in DOMAIN pages : pages[p].leaf <=> lev[p] = 0
  BY LeafLevel DEF Whole, Tree
<1>5. /\ a \in Nat /\ n \in Nat /\ DOMAIN all = 1..(a + n)
      /\ \A j \in 1..(a + n) : all[j] = IF j <= a THEN q[j] ELSE r[j - a]
  BY <1>1, <1>3, Concat
<1> HIDE DEF all, a, n
<1>6. ss = [i \in 1..(a + n) |-> IF pages[all[i]].leaf THEN <<all[i]>> ELSE <<>>]
  BY <1>5
<1> HIDE DEF ss
<1>7. ASSUME NEW i \in 1..a PROVE ss[i] = <<>>
  <2>1. i \in 1..(a + n) /\ all[i] = q[i]
    BY <1>5
  <2> QED BY <1>1, <1>6, <2>1 DEF a
<1>8. ASSUME NEW j \in 1..n PROVE ss[a + j] = <<r[j]>>
  <2>1. a + j \in 1..(a + n) /\ ~(a + j <= a) /\ (a + j) - a = j
    BY <1>5
  <2>2. all[a + j] = r[j] /\ pages[r[j]].leaf
    BY <1>3, <1>4, <1>5, <2>1
  <2> QED BY <1>6, <2>1, <2>2
<1>9. ss \in Seq(Seq(PageId)) /\ Len(ss) = a + n
  <2>1. ASSUME NEW i \in 1..(a + n) PROVE ss[i] \in Seq(PageId)
    <3>1. CASE i <= a
      <4>1. ss[i] = <<>>
        BY <1>5, <1>7, <3>1
      <4> QED BY <4>1
    <3>2. CASE ~(i <= a)
      <4>1. i - a \in 1..n /\ a + (i - a) = i
        BY <1>5, <3>2
      <4>2. ss[i] = <<r[i - a]>>
        BY <1>8, <4>1
      <4>3. r[i - a] \in PageId
        BY <1>3, <4>1, ElementOfSeq DEF n
      <4> QED BY <4>2, <4>3
    <3> QED BY <3>1, <3>2
  <2>2. ss \in [1..(a + n) -> Seq(PageId)]
    BY <1>6, <2>1
  <2> QED BY <1>5, <2>2
<1>10. FlattenSeq(ss) = r
  BY <1>3, <1>5, <1>7, <1>8, <1>9, FlattenOnes DEF n
<1> QED BY <1>1, <1>2, <1>10

\* The next page of a leaf is the one beside it.
LEMMA ChainLinks ==
    ASSUME NEW root, NEW lo, NEW hi, NEW lev, Whole(pages, root, lo, hi, lev),
           NEW s, Run(lo, hi, lev, s, 0, 0, 0), NEW i \in 1..Len(s)
    PROVE  pages[s[i]].next = IF i = Len(s) THEN NoPage ELSE s[i + 1]
<1> DEFINE p == s[i]
           q == pages[p].next
           n == Len(s)
<1>1. /\ n \in Nat /\ \A j \in 1..n : s[j] \in DOMAIN pages /\ lev[s[j]] = 0
      /\ hi[s[n]] = 0
      /\ \A j \in 1..(n - 1) : hi[s[j]] = lo[s[j + 1]] /\ hi[s[j]] # 0
  <2>1. s \in Seq(PageId)
    BY DEF Run
  <2> QED BY <2>1, LenProperties DEF Run
<1>2. Shaped(pages, root, lo, hi, lev, NoPage, NoPage)
  BY DEF Whole, Tree
<1> HIDE DEF n
<1>3. p \in DOMAIN pages /\ pages[p].leaf /\ lev[p] = 0
  <2>1. p \in DOMAIN pages /\ lev[p] = 0
    BY <1>1 DEF n
  <2> HIDE DEF p
  <2> QED BY <1>2, <2>1, LeafLevel
<1>4. /\ q = NoPage <=> hi[p] = 0
      /\ q # NoPage => q \in DOMAIN pages /\ pages[q].leaf /\ lev[q] = 0 /\ lo[q] = hi[p]
  <2> HIDE DEF p
  <2> QED BY <1>3, NextLeaf
<1>5. CASE i = n
  BY <1>1, <1>4, <1>5 DEF n
<1>6. CASE i # n
  <2> DEFINE u == s[i + 1]
             k == lo[u]
  <2>1. i \in 1..(n - 1) /\ i + 1 \in 1..n
    BY <1>1, <1>6 DEF n
  <2>2. hi[p] = k /\ hi[p] # 0 /\ u \in DOMAIN pages /\ lev[u] = 0
    BY <1>1, <2>1
  <2>3. q \in DOMAIN pages /\ lev[q] = 0 /\ lo[q] = k /\ q # NoPage
    BY <1>4, <2>2
  <2> HIDE DEF p, q, u
  <2>4. k \in Nat /\ Under(lo[u], hi[u]) /\ Under(lo[q], hi[q])
    BY <1>2, <2>2, <2>3 DEF Shaped, PageShape
  <2> HIDE DEF k
  <2>5. Covers(lo, hi, u, k) /\ Covers(lo, hi, q, k)
    <3>1. lo[u] = k
      BY DEF k
    <3> QED BY <2>3, <2>4, <3>1 DEF Covers
  <2>6. q = u
    BY <1>2, <2>2, <2>3, <2>4, <2>5, OnePage
  <2> QED BY <1>6, <2>6 DEF q, u, p, n
<1> QED BY <1>5, <1>6

\* A key is covered by one of the pages side by side over all keys.
LEMMA RunCovers ==
    ASSUME NEW root, NEW lo, NEW hi, NEW lev, Whole(pages, root, lo, hi, lev),
           NEW s, Run(lo, hi, lev, s, 0, 0, 0), NEW k \in Nat
    PROVE  \E i \in 1..Len(s) : Covers(lo, hi, s[i], k)
<1> DEFINE n == Len(s)
<1>1. /\ n \in Nat /\ n >= 1 /\ \A j \in 1..n : s[j] \in DOMAIN pages
      /\ lo[s[1]] = 0 /\ hi[s[n]] = 0
      /\ \A j \in 1..(n - 1) : hi[s[j]] = lo[s[j + 1]] /\ hi[s[j]] # 0
  <2>1. s \in Seq(PageId)
    BY DEF Run
  <2> QED BY <2>1, LenProperties DEF Run
<1> HIDE DEF n
<1>2. \A p \in DOMAIN pages : lo[p] \in Nat /\ hi[p] \in Nat
  BY DEF Whole, Tree, Shaped
<1> SUFFICES ASSUME \A i \in 1..n : ~Covers(lo, hi, s[i], k) PROVE FALSE
  BY DEF n
<1> DEFINE S == {i \in Nat : i + 1 <= n => lo[s[i + 1]] <= k}
<1>3. 0 \in S
  BY <1>1
<1>4. ASSUME NEW i \in Nat, i \in S PROVE i + 1 \in S
  <2> SUFFICES ASSUME (i + 1) + 1 <= n PROVE lo[s[(i + 1) + 1]] <= k
    OBVIOUS
  <2>1. i + 1 \in 1..(n - 1) /\ i + 1 \in 1..n /\ i + 1 <= n
    BY <1>1
  <2>2. lo[s[i + 1]] <= k
    BY <1>4, <2>1
  <2>3. ~Under(k, hi[s[i + 1]])
    BY <2>1, <2>2 DEF Covers
  <2>4. hi[s[i + 1]] = lo[s[(i + 1) + 1]] /\ s[i + 1] \in DOMAIN pages
    BY <1>1, <2>1
  <2>5. hi[s[i + 1]] \in Nat
    BY <1>2, <2>4
  <2>6. hi[s[i + 1]] <= k
    BY <2>3, <2>5 DEF Under
  <2> QED BY <2>4, <2>6
<1>5. n - 1 \in Nat /\ (n - 1) + 1 = n /\ n \in 1..n
  BY <1>1
<1> HIDE DEF S
<1>6. n - 1 \in S
  BY <1>3, <1>4, <1>5, Induction
<1>7. lo[s[n]] <= k
  BY <1>5, <1>6 DEF S
<1>8. Covers(lo, hi, s[n], k)
  BY <1>1, <1>7 DEF Covers, Under
<1> QED BY <1>5, <1>8

\* The keys of the pages of s.
KeysOf(s) == [i \in DOMAIN s |-> pages[s[i]].keys]

LEMMA KeysTyped ==
    ASSUME NEW root, NEW lo, NEW hi, NEW lev, Whole(pages, root, lo, hi, lev),
           NEW s, Run(lo, hi, lev, s, 0, 0, 0)
    PROVE  /\ KeysOf(s) \in Seq(Seq(Nat)) /\ Len(KeysOf(s)) = Len(s) /\ Len(s) \in Nat
           /\ \A i \in 1..Len(s) :
                 /\ KeysOf(s)[i] = pages[s[i]].keys /\ s[i] \in DOMAIN pages /\ pages[s[i]].leaf
                 /\ lo[s[i]] \in Nat /\ hi[s[i]] \in Nat
                 /\ KeysOf(s)[i] \in Seq(Nat) /\ Ascending(KeysOf(s)[i])
                 /\ \A j \in DOMAIN KeysOf(s)[i] : Covers(lo, hi, s[i], KeysOf(s)[i][j])
<1> DEFINE n == Len(s)
           ss == KeysOf(s)
<1>1. n \in Nat /\ DOMAIN s = 1..n /\ \A i \in 1..n : s[i] \in DOMAIN pages /\ lev[s[i]] = 0
  <2>1. s \in Seq(PageId)
    BY DEF Run
  <2> QED BY <2>1, LenProperties DEF Run
<1> HIDE DEF n
<1>2. ss = [i \in 1..n |-> pages[s[i]].keys]
  BY <1>1 DEF KeysOf
<1> HIDE DEF ss
<1>3. ASSUME NEW i \in 1..n
      PROVE  /\ ss[i] = pages[s[i]].keys /\ s[i] \in DOMAIN pages /\ pages[s[i]].leaf
             /\ lo[s[i]] \in Nat /\ hi[s[i]] \in Nat
             /\ ss[i] \in Seq(Nat) /\ Ascending(ss[i])
             /\ \A j \in DOMAIN ss[i] : Covers(lo, hi, s[i], ss[i][j])
  <2> DEFINE p == s[i]
  <2>1. p \in DOMAIN pages /\ lev[p] = 0 /\ ss[i] = pages[p].keys
    BY <1>1, <1>2
  <2> HIDE DEF p
  <2>2. Shaped(pages, root, lo, hi, lev, NoPage, NoPage)
    BY DEF Whole, Tree
  <2>3. PageShape(pages, lo, hi, lev, NoPage, NoPage, p) /\ lo[p] \in Nat /\ hi[p] \in Nat
    BY <2>1, <2>2 DEF Shaped
  <2>4. pages[p].keys \in Seq(Nat)
    BY <2>3, PageFields
  <2>5. pages[p].leaf
    BY <2>1, <2>2, LeafLevel
  <2>6. /\ Ascending(pages[p].keys)
        /\ \A j \in DOMAIN pages[p].keys : Covers(lo, hi, p, pages[p].keys[j])
    BY <2>3 DEF PageShape
  <2> QED BY <2>1, <2>3, <2>4, <2>5, <2>6 DEF p
<1>4. ss \in [1..n -> Seq(Nat)]
  BY <1>2, <1>3
<1>5. ss \in Seq(Seq(Nat)) /\ Len(ss) = n
  BY <1>1, <1>4
<1> QED BY <1>1, <1>3, <1>5 DEF n, ss

LEMMA ConcatAscends ==
    ASSUME NEW a \in Seq(Nat), NEW b \in Seq(Nat), Ascending(a), Ascending(b),
           \A i \in 1..Len(a) : \A j \in 1..Len(b) : a[i] < b[j]
    PROVE  Ascending(a \o b)
<1> DEFINE z == a \o b
           m == Len(a)
           n == Len(b)
<1>1. /\ m \in Nat /\ n \in Nat /\ DOMAIN z = 1..(m + n) /\ DOMAIN a = 1..m /\ DOMAIN b = 1..n
      /\ \A j \in 1..(m + n) : z[j] = IF j <= m THEN a[j] ELSE b[j - m]
  BY Concat, LenProperties
<1>0. /\ \A i, j \in 1..m : i < j => a[i] < a[j]
      /\ \A i, j \in 1..n : i < j => b[i] < b[j]
  BY <1>1 DEF Ascending
<1>a. m \in Nat /\ n \in Nat
  BY <1>1
<1> HIDE DEF m, n, z
<1>2. ASSUME NEW i \in 1..(m + n), NEW j \in 1..(m + n), i < j PROVE z[i] < z[j]
  <2>1. CASE j <= m
    <3>1. i \in 1..m /\ j \in 1..m
      BY ONLY <1>a, <1>2, <2>1, i \in 1..(m + n), j \in 1..(m + n)
    <3>2. z[i] = a[i] /\ z[j] = a[j]
      <4>1. i <= m
        BY ONLY <1>a, <3>1
      <4> QED BY <1>1, <2>1, <4>1
    <3> QED BY <1>0, <1>2, <3>1, <3>2
  <2>2. CASE i <= m /\ ~(j <= m)
    <3>1. i \in 1..m /\ j - m \in 1..n
      BY ONLY <1>a, <2>2, i \in 1..(m + n), j \in 1..(m + n)
    <3>2. z[i] = a[i] /\ z[j] = b[j - m]
      BY <1>1, <2>2
    <3> QED BY <3>1, <3>2 DEF m, n
  <2>3. CASE ~(i <= m)
    <3>1. i - m \in 1..n /\ j - m \in 1..n /\ i - m < j - m /\ ~(j <= m)
      BY ONLY <1>a, <1>2, <2>3, i \in 1..(m + n), j \in 1..(m + n)
    <3>2. z[i] = b[i - m] /\ z[j] = b[j - m]
      BY <1>1, <2>3, <3>1
    <3> QED BY <1>0, <3>1, <3>2
  <2> QED BY <1>1, <1>2, <2>1, <2>2, <2>3
<1>3. Ascending(z)
  BY <1>1, <1>2 DEF Ascending
<1> QED BY <1>3 DEF z

\* The keys of the leaves ascend from one leaf to the next.
LEMMA ChainAscends ==
    ASSUME NEW root, NEW lo, NEW hi, NEW lev, Whole(pages, root, lo, hi, lev),
           NEW s, Run(lo, hi, lev, s, 0, 0, 0)
    PROVE  /\ FlattenSeq(KeysOf(s)) \in Seq(Nat) /\ Ascending(FlattenSeq(KeysOf(s)))
<1> DEFINE n == Len(s)
           ss == KeysOf(s)
<1>1. /\ ss \in Seq(Seq(Nat)) /\ Len(ss) = n /\ n \in Nat
      /\ \A i \in 1..n : /\ lo[s[i]] \in Nat /\ hi[s[i]] \in Nat
                         /\ ss[i] \in Seq(Nat) /\ Ascending(ss[i])
                         /\ \A j \in DOMAIN ss[i] : Covers(lo, hi, s[i], ss[i][j])
  BY KeysTyped
<1>2. /\ n >= 1 /\ \A j \in 1..(n - 1) : hi[s[j]] = lo[s[j + 1]] /\ hi[s[j]] # 0
  BY DEF Run
<1> HIDE DEF n, ss
<1>3. PICK f : Builds(Nat, ss, f)
  BY <1>1, FlattenBuilds
<1>4. /\ f[0] = <<>> /\ f[n] = FlattenSeq(ss)
      /\ \A k \in 0..n : f[k] \in Seq(Nat)
      /\ \A k \in 1..n : f[k] = f[k - 1] \o ss[k]
  BY <1>1, <1>3 DEF Builds
<1> DEFINE Good(k) == /\ Ascending(f[k])
                      /\ k # 0 => \A i \in 1..Len(f[k]) : Under(f[k][i], hi[s[k]])
           S == {k \in Nat : k <= n => Good(k)}
<1>5. 0 \in S
  BY <1>4 DEF Ascending
<1>6. ASSUME NEW k \in Nat, k \in S PROVE k + 1 \in S
  <2> SUFFICES ASSUME k + 1 <= n PROVE Good(k + 1)
    OBVIOUS
  <2> DEFINE a == f[k]
             b == ss[k + 1]
             z == f[k + 1]
             l == lo[s[k + 1]]
             u == hi[s[k + 1]]
  <2>1. k + 1 \in 1..n /\ k \in 0..n /\ k <= n /\ (k + 1) - 1 = k
    BY <1>1
  <2>2. z = a \o b /\ a \in Seq(Nat) /\ b \in Seq(Nat) /\ Ascending(b) /\ l \in Nat /\ u \in Nat
    BY <1>1, <1>4, <2>1
  <2>3. \A j \in DOMAIN b : l <= b[j] /\ Under(b[j], u)
    BY <1>1, <2>1 DEF Covers
  <2>4. Ascending(a)
    BY <1>6, <2>1
  <2>5. \A i \in 1..Len(a) : a[i] < l
    <3>1. CASE k = 0
      BY <1>4, <3>1
    <3>2. CASE k # 0
      <4>1. k \in 1..(n - 1) /\ k \in 1..n
        BY <1>1, <3>2
      <4>2. hi[s[k]] = l /\ l # 0
        BY <1>2, <4>1
      <4>3. \A i \in 1..Len(a) : Under(a[i], hi[s[k]])
        BY <1>6, <2>1, <3>2
      <4> QED BY <4>2, <4>3 DEF Under
    <3> QED BY <3>1, <3>2
  <2>6. Under(l, u)
    <3>1. Shaped(pages, root, lo, hi, lev, NoPage, NoPage)
      BY DEF Whole, Tree
    <3>2. s[k + 1] \in DOMAIN pages
      BY <2>1 DEF Run, n
    <3> QED BY <3>1, <3>2 DEF Shaped, PageShape
  <2> HIDE DEF a, b, z, l, u
  <2>7. /\ Len(a) \in Nat /\ Len(b) \in Nat /\ DOMAIN b = 1..Len(b)
        /\ \A i \in 1..Len(a) : a[i] \in Nat
        /\ \A j \in 1..Len(b) : b[j] \in Nat
    BY <2>2, LenProperties, ElementOfSeq
  <2>8. ASSUME NEW i \in 1..Len(a), NEW j \in 1..Len(b) PROVE a[i] < b[j]
    <3>1. a[i] \in Nat /\ b[j] \in Nat /\ l \in Nat
      BY <2>2, <2>7
    <3>2. a[i] < l
      BY <2>5
    <3>3. l <= b[j]
      BY <2>3, <2>7
    <3> QED BY ONLY <3>1, <3>2, <3>3
  <2>9. Ascending(z)
    BY <2>2, <2>4, <2>8, ConcatAscends
  <2>10. ASSUME NEW i \in 1..Len(z) PROVE Under(z[i], u)
    <3>1. /\ Len(z) = Len(a) + Len(b)
          /\ z[i] = IF i <= Len(a) THEN a[i] ELSE b[i - Len(a)]
      BY <2>2, Concat
    <3>2. CASE i <= Len(a)
      <4>1. z[i] = a[i] /\ a[i] < l /\ a[i] \in Nat
        BY <2>5, <2>7, <3>1, <3>2
      <4>2. l \in Nat /\ u \in Nat /\ (u = 0 \/ l < u)
        BY <2>2, <2>6 DEF Under
      <4>3. u = 0 \/ z[i] < u
        BY ONLY <4>1, <4>2
      <4> QED BY <4>3 DEF Under
    <3>3. CASE ~(i <= Len(a))
      <4>0. i \in 1..(Len(a) + Len(b))
        BY <3>1
      <4>1. i - Len(a) \in 1..Len(b)
        BY ONLY <2>7, <3>3, <4>0
      <4>2. z[i] = b[i - Len(a)] /\ Under(b[i - Len(a)], u)
        BY <2>3, <2>7, <3>1, <3>3, <4>1
      <4> QED BY <4>2
    <3> QED BY <3>2, <3>3
  <2> QED BY <2>9, <2>10 DEF z, u
<1> HIDE DEF S
<1>7. n \in S /\ n <= n /\ n \in 0..n
  <2>1. n \in S
    BY <1>1, <1>5, <1>6, Induction
  <2> QED BY <1>1, <2>1
<1>8. Ascending(f[n]) /\ f[n] \in Seq(Nat)
  BY <1>4, <1>7 DEF S
<1> QED BY <1>4, <1>8 DEF ss

\* The leaves side by side hold what is stored.
LEMMA ChainHolds ==
    ASSUME NEW root, NEW lo, NEW hi, NEW lev, Whole(pages, root, lo, hi, lev),
           NEW s, Run(lo, hi, lev, s, 0, 0, 0)
    PROVE  Range(FlattenSeq(KeysOf(s))) = Stored(pages)
<1> DEFINE n == Len(s)
           ss == KeysOf(s)
<1>1. /\ ss \in Seq(Seq(Nat)) /\ Len(ss) = n
      /\ \A i \in 1..n : ss[i] = pages[s[i]].keys /\ s[i] \in DOMAIN pages /\ pages[s[i]].leaf
  BY KeysTyped
<1>2. Range(FlattenSeq(ss)) = UNION {Range(ss[i]) : i \in 1..n}
  <2> HIDE DEF ss
  <2> QED BY <1>1, FlattenRange
<1> HIDE DEF ss, n
<1>3. ASSUME NEW i \in 1..n, NEW k \in Range(ss[i]) PROVE k \in Stored(pages)
  <2>1. s[i] \in {q \in DOMAIN pages : pages[q].leaf} /\ k \in Range(pages[s[i]].keys)
    BY <1>1, <1>3
  <2> QED BY <2>1 DEF Stored
<1>4. ASSUME NEW k \in Stored(pages) PROVE \E i \in 1..n : k \in Range(ss[i])
  <2>1. PICK p \in DOMAIN pages : pages[p].leaf /\ k \in Range(pages[p].keys)
    BY DEF Stored
  <2>2. PICK j \in DOMAIN pages[p].keys : k = pages[p].keys[j]
    BY <2>1 DEF Range
  <2>3. Shaped(pages, root, lo, hi, lev, NoPage, NoPage)
    BY DEF Whole, Tree
  <2>4. PageShape(pages, lo, hi, lev, NoPage, NoPage, p)
    BY <2>3 DEF Shaped
  <2>5. k \in Nat /\ Covers(lo, hi, p, k)
    <3>1. k \in Nat
      BY <2>2, <2>4, PageFields
    <3> QED BY <2>2, <2>4, <3>1 DEF PageShape
  <2>6. PICK i \in 1..n : Covers(lo, hi, s[i], k)
    BY <2>5, RunCovers DEF n
  <2> DEFINE q == s[i]
  <2>7. q \in DOMAIN pages /\ lev[q] = 0 /\ Covers(lo, hi, q, k)
    BY <2>6 DEF Run, n
  <2> HIDE DEF q
  <2>8. lev[p] = 0
    BY <2>1, <2>3, LeafLevel
  <2>9. p = q
    BY <2>3, <2>5, <2>7, <2>8, OnePage
  <2> QED BY <1>1, <2>1, <2>9 DEF q
<1>5. Range(FlattenSeq(ss)) = Stored(pages)
  BY <1>2, <1>3, <1>4
<1> QED BY <1>5 DEF ss

\* No leaves without a root.
LEMMA NoLeaves == ASSUME root_page_id = NoPage PROVE Leaves = <<>>
<1>1. DOMAIN Level = 1..MaxHeight /\ \A n \in 1..MaxHeight : Level[n] = <<>>
  BY NoLevels
<1>2. MaxHeight \in Nat
  BY TreeBounds
<1> DEFINE none == <<>>
<1>3. none \in Seq(PageId) /\ Len(none) = 0
  OBVIOUS
<1>4. Level \in Seq(Seq(PageId)) /\ Len(Level) = MaxHeight
  <2>1. Level = [n \in 1..MaxHeight |-> Level[n]]
    BY LevelRows DEF Rows
  <2>2. Level \in [1..MaxHeight -> Seq(PageId)]
    BY <1>1, <1>3, <2>1
  <2> QED BY <1>2, <2>2
<1>5. FlattenSeq(Level) = none
  <2>1. /\ Len(Level) = MaxHeight + Len(none)
        /\ \A i \in 1..MaxHeight : Level[i] = <<>>
        /\ \A j \in 1..Len(none) : Level[MaxHeight + j] = <<none[j]>>
    BY <1>1, <1>2, <1>3, <1>4
  <2> HIDE DEF none
  <2> QED BY <1>2, <1>3, <1>4, <2>1, FlattenOnes
<1> DEFINE ss == [i \in DOMAIN FlattenSeq(Level) |->
                     IF pages[FlattenSeq(Level)[i]].leaf THEN <<FlattenSeq(Level)[i]>> ELSE <<>>]
<1>6. ss = <<>>
  BY <1>5
<1>7. FlattenSeq(<<>>) = <<>>
  BY DEF FlattenSeq
<1> QED BY <1>6, <1>7 DEF Leaves

LEMMA ChainFollows == ASSUME InsertInv PROVE LeavesChained
<1>1. PICK lo, hi, lev : TreeAt(root_page_id, pages, lo, hi, lev)
  BY DEF InsertInv
<1> DEFINE s == Leaves
           keys == FlattenSeq(KeysOf(s))
<1>2. /\ LeavesChained <=>
         /\ \A i \in DOMAIN s : pages[s[i]].next = IF i = Len(s) THEN NoPage ELSE s[i + 1]
         /\ \A i \in 1..Len(keys) - 1 : keys[i] < keys[i + 1]
         /\ Range(keys) = Reachable
  BY DEF LeavesChained, KeysOf
<1>3. CASE root_page_id = NoPage
  <2>1. s = <<>>
    BY <1>3, NoLeaves
  <2>2. keys = <<>>
    <3>1. KeysOf(<<>>) = <<>>
      BY DEF KeysOf
    <3> QED BY <2>1, <3>1 DEF FlattenSeq
  <2>3. Reachable = {} /\ Range(<<>>) = {}
    BY <1>3 DEF Reachable, Range
  <2> HIDE DEF s, keys
  <2> QED BY <1>2, <2>1, <2>2, <2>3
<1>4. CASE root_page_id # NoPage
  <2> DEFINE root == root_page_id
  <2>1. Whole(pages, root, lo, hi, lev) /\ lev[root] < MaxHeight
    BY <1>1, <1>4 DEF TreeAt
  <2>2. Run(lo, hi, lev, s, 0, 0, 0)
    BY <1>4, <2>1, LeavesRun
  <2> HIDE DEF s
  <2>3. s \in Seq(PageId) /\ DOMAIN s = 1..Len(s)
    BY <2>2, LenProperties DEF Run
  <2>4. \A i \in DOMAIN s : pages[s[i]].next = IF i = Len(s) THEN NoPage ELSE s[i + 1]
    <3> HIDE DEF root
    <3> QED BY <2>1, <2>2, <2>3, ChainLinks
  <2>5. keys \in Seq(Nat) /\ Ascending(keys)
    <3> HIDE DEF root
    <3> QED BY <2>1, <2>2, ChainAscends
  <2>6. Range(keys) = Reachable
    <3>1. Range(keys) = Stored(pages)
      <4> HIDE DEF root
      <4> QED BY <2>1, <2>2, ChainHolds
    <3> QED BY <3>1, Reaches
  <2> HIDE DEF keys
  <2>7. ASSUME NEW i \in 1..Len(keys) - 1 PROVE keys[i] < keys[i + 1]
    <3>1. DOMAIN keys = 1..Len(keys) /\ Len(keys) \in Nat
      BY <2>5, LenProperties
    <3>2. i \in DOMAIN keys /\ i + 1 \in DOMAIN keys /\ i < i + 1
      BY <3>1
    <3> QED BY <2>5, <3>2 DEF Ascending
  <2> QED BY <1>2, <2>4, <2>6, <2>7
<1> QED BY <1>3, <1>4

\* Where nobody removes, the leaves hang together in the order of their keys,
\* and a walk along them meets exactly the keys that searches find: a split
\* links the new leaf in, and separators and leaves agree, however insertions
\* overlap, up to one in a stale leaf (SplitLeaf, Insert, InsertIntoParent).
THEOREM TreeLeavesChained == ASSUME InsertOnly PROVE Spec /\ [][LeavesFresh]_vars => []LeavesChained
<1>1. InsertInv => LeavesChained
  BY ChainFollows
<1> QED BY <1>1, TreeInvariant, PTL
=============================================================================
