------------------------- MODULE ArcReplacerProofs --------------------------
(***************************************************************************)
(* The invariants of ArcReplacer, for every number of frames and pages,    *)
(* and that it implements Replacer.                                        *)
(***************************************************************************)
EXTENDS ArcReplacer, TLAPS, FiniteSetTheorems, SequenceTheorems

-----------------------------------------------------------------------------
(* What the three changes of a list return. *)

LEMMA RemoveAtType ==
    ASSUME NEW T, NEW s \in Seq(T), NEW i \in 1..Len(s)
    PROVE  /\ S!RemoveAt(s, i) \in Seq(T)
           /\ Len(S!RemoveAt(s, i)) = Len(s) - 1
           /\ \A j \in 1..Len(s) - 1 :
                 S!RemoveAt(s, i)[j] = IF j < i THEN s[j] ELSE s[j+1]
<1> DEFINE a == SubSeq(s, 1, i-1)
           b == SubSeq(s, i+1, Len(s))
<1>1. Len(s) \in Nat /\ \A j \in 1..Len(s) : s[j] \in T
  BY LenProperties, ElementOfSeq
<1>2. /\ a \in Seq(T)
      /\ Len(a) = i - 1
      /\ \A j \in 1..i-1 : a[j] = s[j]
  <2>1. \A j \in 1..i-1 : s[j] \in T
    BY <1>1
  <2> QED BY <1>1, <2>1, SubSeqProperties
<1>3. /\ b \in Seq(T)
      /\ Len(b) = Len(s) - i
      /\ \A j \in 1..Len(s) - i : b[j] = s[i+j]
  <2>1. \A j \in i+1..Len(s) : s[j] \in T
    BY <1>1
  <2>2. /\ b \in Seq(T)
        /\ Len(b) = IF i+1 <= Len(s) THEN Len(s) - (i+1) + 1 ELSE 0
        /\ \A j \in 1..Len(s) - (i+1) + 1 : b[j] = s[(i+1)+j-1]
    BY <1>1, <2>1, SubSeqProperties
  <2> QED BY <1>1, <2>2
<1>4. /\ a \o b \in Seq(T)
      /\ Len(a \o b) = Len(a) + Len(b)
      /\ \A j \in 1..Len(a) + Len(b) :
            (a \o b)[j] = IF j <= Len(a) THEN a[j] ELSE b[j - Len(a)]
  BY <1>2, <1>3, ConcatProperties
<1>5. S!RemoveAt(s, i) = a \o b
  BY DEF S!RemoveAt
<1> HIDE DEF a, b
<1>6. \A j \in 1..Len(s) - 1 : (a \o b)[j] = IF j < i THEN s[j] ELSE s[j+1]
  <2> SUFFICES ASSUME NEW j \in 1..Len(s) - 1
               PROVE  (a \o b)[j] = IF j < i THEN s[j] ELSE s[j+1]
    OBVIOUS
  <2>1. CASE j < i
    BY <2>1, <1>1, <1>2, <1>3, <1>4
  <2>2. CASE ~(j < i)
    <3>1. j - Len(a) \in 1..Len(s) - i
      BY <2>2, <1>1, <1>2
    <3>2. (a \o b)[j] = b[j - Len(a)]
      BY <2>2, <1>1, <1>2, <1>3, <1>4
    <3>3. b[j - Len(a)] = s[i + (j - Len(a))]
      BY <3>1, <1>3
    <3> QED BY <2>2, <3>2, <3>3, <1>1, <1>2
  <2> QED BY <2>1, <2>2
<1> QED BY <1>1, <1>2, <1>3, <1>4, <1>5, <1>6

LEMMA PushType ==
    ASSUME NEW T, NEW s \in Seq(T), NEW x \in T
    PROVE  /\ <<x>> \o s \in Seq(T)
           /\ Len(<<x>> \o s) = Len(s) + 1
           /\ (<<x>> \o s)[1] = x
           /\ \A j \in 1..Len(s) : (<<x>> \o s)[j+1] = s[j]
  OBVIOUS

LEMMA FrontType ==
    ASSUME NEW T, NEW s \in Seq(T), s # <<>>
    PROVE  /\ S!Front(s) \in Seq(T)
           /\ Len(s) \in Nat \ {0}
           /\ Len(S!Front(s)) = Len(s) - 1
           /\ \A j \in 1..Len(s) - 1 : S!Front(s)[j] = s[j]
<1>1. Len(s) \in Nat \ {0} /\ \A j \in 1..Len(s) : s[j] \in T
  BY EmptySeq, ElementOfSeq
<1> DEFINE n == Len(s) - 1
<1>2. n \in Nat /\ \A j \in 1..n : s[j] \in T
  BY <1>1
<1> HIDE DEF n
<1>3. /\ SubSeq(s, 1, n) \in Seq(T)
      /\ Len(SubSeq(s, 1, n)) = IF 1 <= n THEN n - 1 + 1 ELSE 0
      /\ \A j \in 1..n - 1 + 1 : SubSeq(s, 1, n)[j] = s[1 + j - 1]
  BY <1>2, SubSeqProperties
<1>4. /\ Len(SubSeq(s, 1, n)) = n
      /\ \A j \in 1..n : SubSeq(s, 1, n)[j] = s[j]
  BY <1>2, <1>3
<1> QED BY <1>1, <1>3, <1>4 DEF S!Front, n

-----------------------------------------------------------------------------
(* Holds(list, members) under the three changes. *)

LEMMA HoldsMember ==
    ASSUME NEW T, NEW s \in Seq(T), NEW M, Holds(s, M)
    PROVE  /\ \A i \in 1..Len(s) : s[i] \in M
           /\ \A x \in M : \E i \in 1..Len(s) : s[i] = x
           /\ \A i, j \in 1..Len(s) : s[i] = s[j] => i = j
           /\ M \subseteq T
  BY LenProperties, ElementOfSeq DEF Holds, S!IsInjective, S!ToSet

LEMMA HoldsIntro ==
    ASSUME NEW T, NEW s \in Seq(T), NEW M,
           \A i \in 1..Len(s) : s[i] \in M,
           \A x \in M : \E i \in 1..Len(s) : s[i] = x,
           \A i, j \in 1..Len(s) : s[i] = s[j] => i = j
    PROVE  Holds(s, M)
  BY LenProperties DEF Holds, S!IsInjective, S!ToSet

LEMMA HoldsRemove ==
    ASSUME NEW T, NEW s \in Seq(T), NEW M, Holds(s, M), NEW i \in 1..Len(s)
    PROVE  Holds(S!RemoveAt(s, i), M \ {s[i]})
<1> DEFINE r == S!RemoveAt(s, i)
<1>1. /\ r \in Seq(T)
      /\ Len(r) = Len(s) - 1
      /\ \A j \in 1..Len(s) - 1 : r[j] = IF j < i THEN s[j] ELSE s[j+1]
  BY RemoveAtType
<1>2. /\ \A j \in 1..Len(s) : s[j] \in M
      /\ \A x \in M : \E j \in 1..Len(s) : s[j] = x
      /\ \A j, k \in 1..Len(s) : s[j] = s[k] => j = k
      /\ Len(s) \in Nat
  BY HoldsMember, LenProperties
<1> HIDE DEF r
<1>3. \A j \in 1..Len(r) : r[j] \in M \ {s[i]}
  BY <1>1, <1>2
<1>4. \A x \in M \ {s[i]} : \E j \in 1..Len(r) : r[j] = x
  <2> SUFFICES ASSUME NEW x \in M \ {s[i]}
               PROVE  \E j \in 1..Len(r) : r[j] = x
    OBVIOUS
  <2>1. PICK k \in 1..Len(s) : s[k] = x
    BY <1>2
  <2>2. CASE k < i
    BY <2>1, <2>2, <1>1, <1>2
  <2>3. CASE k > i
    <3>1. k - 1 \in 1..Len(r) /\ r[k-1] = s[(k-1)+1]
      BY <2>3, <1>1, <1>2
    <3> QED BY <3>1, <2>1, <1>2
  <2> QED BY <2>1, <2>2, <2>3, <1>2
<1>5. \A j, k \in 1..Len(r) : r[j] = r[k] => j = k
  <2> SUFFICES ASSUME NEW j \in 1..Len(r), NEW k \in 1..Len(r), r[j] = r[k]
               PROVE  j = k
    OBVIOUS
  <2>1. CASE j < i /\ k < i
    BY <2>1, <1>1, <1>2
  <2>2. CASE j < i /\ ~(k < i)
    <3>1. r[j] = s[j] /\ r[k] = s[k+1] /\ k+1 \in 1..Len(s) /\ j \in 1..Len(s)
      BY <2>2, <1>1, <1>2
    <3>2. j = k+1
      BY <3>1, <1>2
    <3> QED BY <3>2, <2>2, <1>1, <1>2
  <2>3. CASE ~(j < i) /\ k < i
    <3>1. r[j] = s[j+1] /\ r[k] = s[k] /\ j+1 \in 1..Len(s) /\ k \in 1..Len(s)
      BY <2>3, <1>1, <1>2
    <3>2. j+1 = k
      BY <3>1, <1>2
    <3> QED BY <3>2, <2>3, <1>1, <1>2
  <2>4. CASE ~(j < i) /\ ~(k < i)
    <3>1. r[j] = s[j+1] /\ r[k] = s[k+1] /\ j+1 \in 1..Len(s) /\ k+1 \in 1..Len(s)
      BY <2>4, <1>1, <1>2
    <3>2. j+1 = k+1
      BY <3>1, <1>2
    <3> QED BY <3>2
  <2> QED BY <2>1, <2>2, <2>3, <2>4
<1> QED BY <1>1, <1>3, <1>4, <1>5, HoldsIntro DEF r

LEMMA HoldsPush ==
    ASSUME NEW T, NEW s \in Seq(T), NEW M, Holds(s, M), NEW x \in T, x \notin M
    PROVE  Holds(<<x>> \o s, M \union {x})
<1> DEFINE r == <<x>> \o s
<1>1. /\ r \in Seq(T)
      /\ Len(r) = Len(s) + 1
      /\ r[1] = x
      /\ \A j \in 1..Len(s) : r[j+1] = s[j]
  BY PushType
<1>2. /\ \A j \in 1..Len(s) : s[j] \in M
      /\ \A y \in M : \E j \in 1..Len(s) : s[j] = y
      /\ \A j, k \in 1..Len(s) : s[j] = s[k] => j = k
      /\ Len(s) \in Nat
  BY HoldsMember, LenProperties
<1> HIDE DEF r
<1>3. \A j \in 2..Len(r) : j-1 \in 1..Len(s) /\ r[j] = s[j-1]
  BY <1>1, <1>2
<1>4. \A j \in 1..Len(r) : r[j] \in M \union {x}
  <2> SUFFICES ASSUME NEW j \in 1..Len(r)
               PROVE  r[j] \in M \union {x}
    OBVIOUS
  <2>1. j = 1 \/ j \in 2..Len(r)
    BY <1>1, <1>2
  <2> QED BY <2>1, <1>1, <1>2, <1>3
<1>5. \A y \in M \union {x} : \E j \in 1..Len(r) : r[j] = y
  <2> SUFFICES ASSUME NEW y \in M
               PROVE  \E j \in 1..Len(r) : r[j] = y
    BY <1>1, <1>2
  <2>1. PICK j \in 1..Len(s) : s[j] = y
    BY <1>2
  <2>2. j+1 \in 1..Len(r) /\ r[j+1] = y
    BY <2>1, <1>1, <1>2
  <2> QED BY <2>2
<1>6. \A j, k \in 1..Len(r) : r[j] = r[k] => j = k
  <2> SUFFICES ASSUME NEW j \in 1..Len(r), NEW k \in 1..Len(r), r[j] = r[k]
               PROVE  j = k
    OBVIOUS
  <2>1. CASE j = 1 /\ k = 1
    BY <2>1
  <2>2. CASE j = 1 /\ k # 1
    <3>1. k \in 2..Len(r)
      BY <2>2, <1>1, <1>2
    <3> QED BY <3>1, <2>2, <1>1, <1>2, <1>3
  <2>3. CASE j # 1 /\ k = 1
    <3>1. j \in 2..Len(r)
      BY <2>3, <1>1, <1>2
    <3> QED BY <3>1, <2>3, <1>1, <1>2, <1>3
  <2>4. CASE j # 1 /\ k # 1
    <3>1. j \in 2..Len(r) /\ k \in 2..Len(r)
      BY <2>4, <1>1, <1>2
    <3>2. j-1 = k-1
      BY <3>1, <1>2, <1>3
    <3> QED BY <3>1, <3>2
  <2> QED BY <2>1, <2>2, <2>3, <2>4
<1> QED BY <1>1, <1>4, <1>5, <1>6, HoldsIntro DEF r

LEMMA HoldsFront ==
    ASSUME NEW T, NEW s \in Seq(T), NEW M, Holds(s, M), s # <<>>
    PROVE  /\ Last1(s) \in M
           /\ Holds(S!Front(s), M \ {Last1(s)})
<1> DEFINE r == S!Front(s)
<1>1. /\ r \in Seq(T)
      /\ Len(s) \in Nat \ {0}
      /\ Len(r) = Len(s) - 1
      /\ \A j \in 1..Len(s) - 1 : r[j] = s[j]
  BY FrontType
<1>2. /\ \A j \in 1..Len(s) : s[j] \in M
      /\ \A y \in M : \E j \in 1..Len(s) : s[j] = y
      /\ \A j, k \in 1..Len(s) : s[j] = s[k] => j = k
  BY HoldsMember
<1> HIDE DEF r
<1>3. \A j \in 1..Len(r) : j \in 1..Len(s) /\ r[j] = s[j] /\ j # Len(s)
  BY <1>1
<1>4. Last1(s) \in M
  BY <1>1, <1>2 DEF Last1
<1>5. \A j \in 1..Len(r) : r[j] \in M \ {Last1(s)}
  BY <1>1, <1>2, <1>3 DEF Last1
<1>6. \A y \in M \ {Last1(s)} : \E j \in 1..Len(r) : r[j] = y
  <2> SUFFICES ASSUME NEW y \in M \ {Last1(s)}
               PROVE  \E j \in 1..Len(r) : r[j] = y
    OBVIOUS
  <2>1. PICK j \in 1..Len(s) : s[j] = y
    BY <1>2
  <2>2. j # Len(s)
    BY <2>1 DEF Last1
  <2>3. j \in 1..Len(r) /\ r[j] = y
    BY <2>1, <2>2, <1>1
  <2> QED BY <2>3
<1>7. \A j, k \in 1..Len(r) : r[j] = r[k] => j = k
  BY <1>2, <1>3
<1> QED BY <1>1, <1>4, <1>5, <1>6, <1>7, HoldsIntro DEF r

\* A list without duplicates is no longer than a finite set that contains it.
LEMMA HoldsLength ==
    ASSUME NEW T, NEW s \in Seq(T), NEW M, Holds(s, M), IsFiniteSet(M)
    PROVE  Len(s) <= Cardinality(M)
<1>1. /\ \A j \in 1..Len(s) : s[j] \in M
      /\ \A j, k \in 1..Len(s) : s[j] = s[k] => j = k
      /\ Len(s) \in Nat
      /\ s \in [1..Len(s) -> T]
  BY HoldsMember, LenProperties
<1>2. s \in Injection(1..Len(s), M)
  BY <1>1 DEF Injection, IsInjective
<1>3. Cardinality(1..Len(s)) <= Cardinality(M)
  BY <1>2, FS_Injection
<1>4. Cardinality(1..Len(s)) = Len(s)
  <2>1. Cardinality(1..Len(s)) = IF 1 > Len(s) THEN 0 ELSE Len(s) - 1 + 1
    BY <1>1, FS_Interval
  <2> QED BY <2>1, <1>1
<1> QED BY <1>3, <1>4

-----------------------------------------------------------------------------
(* How the two maps change, and with them the members of the four lists. *)

EvictableFrames == {f \in Alive : alive_map[f].evictable}

LEMMA AliveDropped ==
    ASSUME NEW f \in Alive, alive_map' = Without(alive_map, f)
    PROVE  /\ Alive' = Alive \ {f}
           /\ \A g \in Alive \ {f} : alive_map'[g] = alive_map[g]
           /\ \A st : InList(st)' = InList(st) \ {f}
           /\ EvictableFrames' = EvictableFrames \ {f}
<1>1. Alive' = Alive \ {f} /\ \A g \in Alive \ {f} : alive_map'[g] = alive_map[g]
  BY DEF Without, Alive
<1>2. \A st : InList(st)' = InList(st) \ {f}
  BY <1>1 DEF InList
<1>3. EvictableFrames' = EvictableFrames \ {f}
  BY <1>1 DEF EvictableFrames
<1> QED BY <1>1, <1>2, <1>3

LEMMA AliveAdded ==
    ASSUME NEW f, f \notin Alive, NEW p, NEW status, Resident(f, p, status)
    PROVE  /\ Alive' = Alive \union {f}
           /\ alive_map'[f] = [page |-> p, evictable |-> FALSE, arc_status |-> status]
           /\ \A g \in Alive : alive_map'[g] = alive_map[g]
           /\ InList(status)' = InList(status) \union {f}
           /\ \A st : st # status => InList(st)' = InList(st)
           /\ EvictableFrames' = EvictableFrames
<1>1. /\ Alive' = Alive \union {f}
      /\ alive_map'[f] = [page |-> p, evictable |-> FALSE, arc_status |-> status]
      /\ \A g \in Alive : alive_map'[g] = alive_map[g]
  BY DEF Resident, With, Alive
<1>2. InList(status)' = InList(status) \union {f}
  BY <1>1 DEF InList
<1>3. \A st : st # status => InList(st)' = InList(st)
  BY <1>1 DEF InList
<1>4. EvictableFrames' = EvictableFrames
  BY <1>1 DEF EvictableFrames
<1> QED BY <1>1, <1>2, <1>3, <1>4

LEMMA GhostAdded ==
    ASSUME NEW p, p \notin Ghost, NEW status, ghost_map' = With(ghost_map, p, status)
    PROVE  /\ Ghost' = Ghost \union {p}
           /\ ghost_map'[p] = status
           /\ \A q \in Ghost : ghost_map'[q] = ghost_map[q]
           /\ InGhostList(status)' = InGhostList(status) \union {p}
           /\ \A st : st # status => InGhostList(st)' = InGhostList(st)
<1>1. /\ Ghost' = Ghost \union {p}
      /\ ghost_map'[p] = status
      /\ \A q \in Ghost : ghost_map'[q] = ghost_map[q]
  BY DEF With, Ghost
<1>2. InGhostList(status)' = InGhostList(status) \union {p}
  BY <1>1 DEF InGhostList
<1>3. \A st : st # status => InGhostList(st)' = InGhostList(st)
  BY <1>1 DEF InGhostList
<1> QED BY <1>1, <1>2, <1>3

LEMMA GhostDropped ==
    ASSUME NEW p \in Ghost, ghost_map' = Without(ghost_map, p)
    PROVE  /\ Ghost' = Ghost \ {p}
           /\ \A q \in Ghost \ {p} : ghost_map'[q] = ghost_map[q]
           /\ \A st : InGhostList(st)' = InGhostList(st) \ {p}
<1>1. Ghost' = Ghost \ {p} /\ \A q \in Ghost \ {p} : ghost_map'[q] = ghost_map[q]
  BY DEF Without, Ghost
<1>2. \A st : InGhostList(st)' = InGhostList(st) \ {p}
  BY <1>1 DEF InGhostList
<1> QED BY <1>1, <1>2

-----------------------------------------------------------------------------
(* The inductive invariant: the conjunction of the invariants themselves.  *)
(* The bounds need the agreement of lists and maps (a list is no longer    *)
(* than the set of its members), and that needs the ghosts not resident.   *)

IInv ==
    /\ TypeOK
    /\ ListsMatchMaps
    /\ SizeCountsEvictable
    /\ GhostsAreNotResident
    /\ DirectoryBounds

\* What TypeOK says of the counters follows from the rest.
LEMMA Counters ==
    ASSUME Alive \subseteq Frame
    PROVE  /\ IsFiniteSet(EvictableFrames)
           /\ Cardinality(EvictableFrames) \in 0..replacer_size
           /\ replacer_size \in Nat
<1>1. EvictableFrames \in SUBSET Frame
  BY DEF EvictableFrames
<1>2. /\ IsFiniteSet(EvictableFrames)
      /\ Cardinality(EvictableFrames) <= Cardinality(Frame)
  BY <1>1, FrameAssumption, FS_Subset
<1>3. Cardinality(EvictableFrames) \in Nat /\ Cardinality(Frame) \in Nat
  BY <1>2, FrameAssumption, FS_CardinalityType
<1> QED BY <1>2, <1>3 DEF replacer_size

LEMMA CountersNext ==
    ASSUME Alive' \subseteq Frame
    PROVE  Cardinality(EvictableFrames') \in 0..replacer_size
<1>1. EvictableFrames' \in SUBSET Frame
  BY DEF EvictableFrames
<1>2. /\ IsFiniteSet(EvictableFrames')
      /\ Cardinality(EvictableFrames') <= Cardinality(Frame)
  BY <1>1, FrameAssumption, FS_Subset
<1>3. Cardinality(EvictableFrames') \in Nat /\ Cardinality(Frame) \in Nat
  BY <1>2, FrameAssumption, FS_CardinalityType
<1> QED BY <1>2, <1>3 DEF replacer_size

\* The members of the four lists, and what is known of them.
LEMMA Members ==
    ASSUME IInv
    PROVE  /\ \A i \in 1..Len(mru) : mru[i] \in InList("MRU")
           /\ \A i \in 1..Len(mfu) : mfu[i] \in InList("MFU")
           /\ \A i \in 1..Len(mru_ghost) : mru_ghost[i] \in InGhostList("MRU_GHOST")
           /\ \A i \in 1..Len(mfu_ghost) : mfu_ghost[i] \in InGhostList("MFU_GHOST")
           /\ Len(mru) \in Nat /\ Len(mfu) \in Nat
           /\ Len(mru_ghost) \in Nat /\ Len(mfu_ghost) \in Nat
  BY HoldsMember, LenProperties DEF IInv, TypeOK, ListsMatchMaps

\* While a frame is not resident the resident lists are shorter than the pool.
LEMMA ResidentListsAreShort ==
    ASSUME IInv, NEW f \in Frame \ Alive
    PROVE  Len(mru) < replacer_size /\ Len(mfu) < replacer_size
<1>1. /\ InList("MRU") \subseteq Frame \ {f}
      /\ InList("MFU") \subseteq Frame \ {f}
  BY DEF IInv, TypeOK, InList
<1>2. /\ IsFiniteSet(Frame \ {f})
      /\ Cardinality(Frame \ {f}) = replacer_size - 1
      /\ replacer_size \in Nat
  BY FrameAssumption, FS_RemoveElement, FS_CardinalityType DEF replacer_size
<1>3. /\ IsFiniteSet(InList("MRU")) /\ Cardinality(InList("MRU")) <= replacer_size - 1
      /\ IsFiniteSet(InList("MFU")) /\ Cardinality(InList("MFU")) <= replacer_size - 1
  BY <1>1, <1>2, FS_Subset
<1>4. Len(mru) <= Cardinality(InList("MRU")) /\ Len(mfu) <= Cardinality(InList("MFU"))
  BY <1>3, HoldsLength DEF IInv, TypeOK, ListsMatchMaps
<1>5. Cardinality(InList("MRU")) \in Nat /\ Cardinality(InList("MFU")) \in Nat
  BY <1>3, FS_CardinalityType
<1> QED BY <1>2, <1>3, <1>4, <1>5, Members

-----------------------------------------------------------------------------
(* Each action keeps the invariant. *)

LEMMA EvictMruInv ==
    ASSUME IInv, EvictMru
    PROVE  IInv'
<1>1. PICK i \in 1..Len(mru) :
          /\ IsVictim(mru, i)
          /\ ToGhost(mru[i], "MRU_GHOST")
          /\ mru' = S!RemoveAt(mru, i)
          /\ mru_ghost' = <<alive_map[mru[i]].page>> \o mru_ghost
  BY DEF EvictMru
<1> DEFINE f == mru[i]
           p == alive_map[f].page
<1>2. /\ f \in InList("MRU")
      /\ f \in Alive
      /\ alive_map[f].evictable
      /\ alive_map[f] \in FrameStatus
      /\ p \in Page
      /\ p \notin Ghost
  BY <1>1, Members DEF InList, IsVictim, IInv, TypeOK, GhostsAreNotResident, FrameStatus
<1>3. /\ alive_map' = Without(alive_map, f)
      /\ ghost_map' = With(ghost_map, p, "MRU_GHOST")
      /\ curr_size' = curr_size - 1
      /\ mru_target_size' = mru_target_size
      /\ victim' = f
      /\ mru' = S!RemoveAt(mru, i)
      /\ mru_ghost' = <<p>> \o mru_ghost
      /\ mfu' = mfu /\ mfu_ghost' = mfu_ghost
  BY <1>1 DEF EvictMru, ToGhost
<1>4. /\ Alive' = Alive \ {f}
      /\ \A g \in Alive \ {f} : alive_map'[g] = alive_map[g]
      /\ \A st : InList(st)' = InList(st) \ {f}
      /\ EvictableFrames' = EvictableFrames \ {f}
  BY <1>2, <1>3, AliveDropped
<1>5. /\ Ghost' = Ghost \union {p}
      /\ ghost_map'[p] = "MRU_GHOST"
      /\ \A q \in Ghost : ghost_map'[q] = ghost_map[q]
      /\ InGhostList("MRU_GHOST")' = InGhostList("MRU_GHOST") \union {p}
      /\ InGhostList("MFU_GHOST")' = InGhostList("MFU_GHOST")
  BY <1>2, <1>3, GhostAdded
<1>6. ListsMatchMaps'
  <2>1. Holds(mru', InList("MRU")')
    BY <1>3, <1>4, HoldsRemove DEF IInv, TypeOK, ListsMatchMaps
  <2>2. f \notin InList("MFU")
    BY <1>2 DEF InList
  <2>3. Holds(mfu', InList("MFU")')
    <3>1. InList("MFU")' = InList("MFU")
      BY <2>2, <1>4
    <3> QED BY <3>1, <1>3 DEF IInv, ListsMatchMaps
  <2>4. Holds(mru_ghost', InGhostList("MRU_GHOST")')
    <3>1. p \notin InGhostList("MRU_GHOST")
      BY <1>2 DEF InGhostList
    <3> QED BY <3>1, <1>2, <1>3, <1>5, HoldsPush DEF IInv, TypeOK, ListsMatchMaps
  <2>5. Holds(mfu_ghost', InGhostList("MFU_GHOST")')
    BY <1>3, <1>5 DEF IInv, ListsMatchMaps
  <2> QED BY <2>1, <2>3, <2>4, <2>5 DEF ListsMatchMaps
<1>7. SizeCountsEvictable'
  <2>1. f \in EvictableFrames
    BY <1>2 DEF EvictableFrames
  <2>2. Cardinality(EvictableFrames') = Cardinality(EvictableFrames) - 1
    BY <2>1, <1>4, Counters, FS_RemoveElement DEF IInv, TypeOK
  <2> QED BY <2>2, <1>3 DEF SizeCountsEvictable, EvictableFrames, IInv
<1>8. GhostsAreNotResident'
  BY <1>2, <1>4, <1>5 DEF IInv, GhostsAreNotResident
<1>9. /\ mru' \in Seq(Frame) /\ Len(mru') = Len(mru) - 1
      /\ mru_ghost' \in Seq(Page) /\ Len(mru_ghost') = Len(mru_ghost) + 1
  <2>1. mru \in Seq(Frame) /\ mfu \in Seq(Frame) /\ mru_ghost \in Seq(Page) /\ mfu_ghost \in Seq(Page)
    BY DEF IInv, TypeOK
  <2>2. S!RemoveAt(mru, i) \in Seq(Frame) /\ Len(S!RemoveAt(mru, i)) = Len(mru) - 1
    BY <2>1, RemoveAtType
  <2>3. <<p>> \o mru_ghost \in Seq(Page) /\ Len(<<p>> \o mru_ghost) = Len(mru_ghost) + 1
    BY <2>1, <1>2, PushType
  <2> QED BY <2>2, <2>3, <1>3
<1>10. TypeOK'
  <2>1. Alive' \subseteq Frame /\ \A g \in Alive' : alive_map'[g] \in FrameStatus
    BY <1>4 DEF IInv, TypeOK
  <2>2. Ghost' \subseteq Page /\ \A q \in Ghost' : ghost_map'[q] \in {"MRU_GHOST", "MFU_GHOST"}
    BY <1>2, <1>5 DEF IInv, TypeOK
  <2>3. curr_size' \in 0..replacer_size
    BY <2>1, <1>7, Counters, CountersNext DEF SizeCountsEvictable, EvictableFrames
  <2> QED BY <2>1, <2>2, <2>3, <1>2, <1>3, <1>9 DEF IInv, TypeOK
<1>11. DirectoryBounds'
  BY <1>3, <1>9, Members DEF IInv, DirectoryBounds
<1> QED BY <1>6, <1>7, <1>8, <1>10, <1>11 DEF IInv

LEMMA EvictMfuInv ==
    ASSUME IInv, EvictMfu
    PROVE  IInv'
<1>1. PICK i \in 1..Len(mfu) :
          /\ IsVictim(mfu, i)
          /\ ToGhost(mfu[i], "MFU_GHOST")
          /\ mfu' = S!RemoveAt(mfu, i)
          /\ mfu_ghost' = <<alive_map[mfu[i]].page>> \o mfu_ghost
  BY DEF EvictMfu
<1> DEFINE f == mfu[i]
           p == alive_map[f].page
<1>2. /\ f \in InList("MFU")
      /\ f \in Alive
      /\ alive_map[f].evictable
      /\ alive_map[f] \in FrameStatus
      /\ p \in Page
      /\ p \notin Ghost
  BY <1>1, Members DEF InList, IsVictim, IInv, TypeOK, GhostsAreNotResident, FrameStatus
<1>3. /\ alive_map' = Without(alive_map, f)
      /\ ghost_map' = With(ghost_map, p, "MFU_GHOST")
      /\ curr_size' = curr_size - 1
      /\ mru_target_size' = mru_target_size
      /\ victim' = f
      /\ mfu' = S!RemoveAt(mfu, i)
      /\ mfu_ghost' = <<p>> \o mfu_ghost
      /\ mru' = mru /\ mru_ghost' = mru_ghost
  BY <1>1 DEF EvictMfu, ToGhost
<1>4. /\ Alive' = Alive \ {f}
      /\ \A g \in Alive \ {f} : alive_map'[g] = alive_map[g]
      /\ \A st : InList(st)' = InList(st) \ {f}
      /\ EvictableFrames' = EvictableFrames \ {f}
  BY <1>2, <1>3, AliveDropped
<1>5. /\ Ghost' = Ghost \union {p}
      /\ ghost_map'[p] = "MFU_GHOST"
      /\ \A q \in Ghost : ghost_map'[q] = ghost_map[q]
      /\ InGhostList("MFU_GHOST")' = InGhostList("MFU_GHOST") \union {p}
      /\ InGhostList("MRU_GHOST")' = InGhostList("MRU_GHOST")
  BY <1>2, <1>3, GhostAdded
<1>6. ListsMatchMaps'
  <2>1. Holds(mfu', InList("MFU")')
    BY <1>3, <1>4, HoldsRemove DEF IInv, TypeOK, ListsMatchMaps
  <2>2. f \notin InList("MRU")
    BY <1>2 DEF InList
  <2>3. Holds(mru', InList("MRU")')
    <3>1. InList("MRU")' = InList("MRU")
      BY <2>2, <1>4
    <3> QED BY <3>1, <1>3 DEF IInv, ListsMatchMaps
  <2>4. Holds(mfu_ghost', InGhostList("MFU_GHOST")')
    <3>1. p \notin InGhostList("MFU_GHOST")
      BY <1>2 DEF InGhostList
    <3> QED BY <3>1, <1>2, <1>3, <1>5, HoldsPush DEF IInv, TypeOK, ListsMatchMaps
  <2>5. Holds(mru_ghost', InGhostList("MRU_GHOST")')
    BY <1>3, <1>5 DEF IInv, ListsMatchMaps
  <2> QED BY <2>1, <2>3, <2>4, <2>5 DEF ListsMatchMaps
<1>7. SizeCountsEvictable'
  <2>1. f \in EvictableFrames
    BY <1>2 DEF EvictableFrames
  <2>2. Cardinality(EvictableFrames') = Cardinality(EvictableFrames) - 1
    BY <2>1, <1>4, Counters, FS_RemoveElement DEF IInv, TypeOK
  <2> QED BY <2>2, <1>3 DEF SizeCountsEvictable, EvictableFrames, IInv
<1>8. GhostsAreNotResident'
  BY <1>2, <1>4, <1>5 DEF IInv, GhostsAreNotResident
<1>9. /\ mfu' \in Seq(Frame) /\ Len(mfu') = Len(mfu) - 1
      /\ mfu_ghost' \in Seq(Page) /\ Len(mfu_ghost') = Len(mfu_ghost) + 1
  <2>1. mru \in Seq(Frame) /\ mfu \in Seq(Frame) /\ mru_ghost \in Seq(Page) /\ mfu_ghost \in Seq(Page)
    BY DEF IInv, TypeOK
  <2>2. S!RemoveAt(mfu, i) \in Seq(Frame) /\ Len(S!RemoveAt(mfu, i)) = Len(mfu) - 1
    BY <2>1, RemoveAtType
  <2>3. <<p>> \o mfu_ghost \in Seq(Page) /\ Len(<<p>> \o mfu_ghost) = Len(mfu_ghost) + 1
    BY <2>1, <1>2, PushType
  <2> QED BY <2>2, <2>3, <1>3
<1>10. TypeOK'
  <2>1. Alive' \subseteq Frame /\ \A g \in Alive' : alive_map'[g] \in FrameStatus
    BY <1>4 DEF IInv, TypeOK
  <2>2. Ghost' \subseteq Page /\ \A q \in Ghost' : ghost_map'[q] \in {"MRU_GHOST", "MFU_GHOST"}
    BY <1>2, <1>5 DEF IInv, TypeOK
  <2>3. curr_size' \in 0..replacer_size
    BY <2>1, <1>7, Counters, CountersNext DEF SizeCountsEvictable, EvictableFrames
  <2> QED BY <2>1, <2>2, <2>3, <1>2, <1>3, <1>9 DEF IInv, TypeOK
<1>11. DirectoryBounds'
  BY <1>3, <1>9, Members DEF IInv, DirectoryBounds
<1> QED BY <1>6, <1>7, <1>8, <1>10, <1>11 DEF IInv

LEMMA EvictNothingInv ==
    ASSUME IInv, EvictNothing
    PROVE  IInv'
<1>1. /\ mru' = mru /\ mfu' = mfu /\ mru_ghost' = mru_ghost /\ mfu_ghost' = mfu_ghost
      /\ alive_map' = alive_map /\ ghost_map' = ghost_map
      /\ curr_size' = curr_size /\ mru_target_size' = mru_target_size
      /\ victim' = NoFrame
  BY DEF EvictNothing, lists
<1>2. TypeOK'
  BY <1>1 DEF IInv, TypeOK, Alive, Ghost
<1>3. ListsMatchMaps'
  BY <1>1 DEF IInv, ListsMatchMaps, InList, InGhostList, Alive, Ghost
<1>4. SizeCountsEvictable' /\ GhostsAreNotResident' /\ DirectoryBounds'
  BY <1>1 DEF IInv, SizeCountsEvictable, GhostsAreNotResident, DirectoryBounds, Alive, Ghost
<1> QED BY <1>2, <1>3, <1>4 DEF IInv

LEMMA AccessAliveInv ==
    ASSUME IInv, NEW f \in Frame, AccessAlive(f)
    PROVE  IInv'
<1>1. /\ f \in Alive
      /\ alive_map' = [alive_map EXCEPT ![f].arc_status = "MFU"]
      /\ mru_ghost' = mru_ghost /\ mfu_ghost' = mfu_ghost /\ ghost_map' = ghost_map
      /\ curr_size' = curr_size /\ mru_target_size' = mru_target_size /\ victim' = victim
  BY DEF AccessAlive
<1>2. /\ Alive' = Alive
      /\ \A g \in Alive : /\ alive_map'[g].page = alive_map[g].page
                          /\ alive_map'[g].evictable = alive_map[g].evictable
      /\ alive_map'[f].arc_status = "MFU"
      /\ \A g \in Alive \ {f} : alive_map'[g] = alive_map[g]
      /\ \A g \in Alive : alive_map'[g] \in FrameStatus
      /\ alive_map[f].arc_status \in {"MRU", "MFU"}
  BY <1>1 DEF Alive, IInv, TypeOK, FrameStatus
<1>3. /\ InList("MRU")' = InList("MRU") \ {f}
      /\ InList("MFU")' = (InList("MFU") \ {f}) \union {f}
  BY <1>1, <1>2 DEF InList
<1>4. /\ mru' \in Seq(Frame) /\ mfu' \in Seq(Frame)
      /\ Holds(mru', InList("MRU")') /\ Holds(mfu', InList("MFU")')
      /\ Len(mru') <= Len(mru)
      /\ Len(mru') + Len(mfu') = Len(mru) + Len(mfu)
  <2>1. /\ mru \in Seq(Frame) /\ Holds(mru, InList("MRU")) /\ Len(mru) \in Nat
        /\ mfu \in Seq(Frame) /\ Holds(mfu, InList("MFU")) /\ Len(mfu) \in Nat
    BY Members DEF IInv, TypeOK, ListsMatchMaps
  <2>2. CASE alive_map[f].arc_status = "MRU"
    <3>1. PICK i \in 1..Len(mru) :
              mru[i] = f /\ mru' = S!RemoveAt(mru, i) /\ mfu' = <<f>> \o mfu
      BY <2>2 DEF AccessAlive, Promote, At
    <3>2. f \notin InList("MFU")
      BY <2>2 DEF InList
    <3>3. /\ mru' \in Seq(Frame) /\ Len(mru') = Len(mru) - 1
          /\ Holds(mru', InList("MRU") \ {f})
      BY <2>1, <3>1, RemoveAtType, HoldsRemove
    <3>4. /\ mfu' \in Seq(Frame) /\ Len(mfu') = Len(mfu) + 1
          /\ Holds(mfu', InList("MFU") \union {f})
      BY <2>1, <3>1, <3>2, PushType, HoldsPush
    <3>5. InList("MFU")' = InList("MFU") \union {f}
      BY <1>3
    <3>6. Holds(mru', InList("MRU")') /\ Holds(mfu', InList("MFU")')
      BY <3>3, <3>4, <3>5, <1>3, Zenon
    <3>7. Len(mru') <= Len(mru) /\ Len(mru') + Len(mfu') = Len(mru) + Len(mfu)
      BY <2>1, <3>3, <3>4
    <3> QED BY <3>3, <3>4, <3>6, <3>7
  <2>3. CASE alive_map[f].arc_status = "MFU"
    <3>1. PICK i \in 1..Len(mfu) :
              mfu[i] = f /\ mfu' = <<f>> \o S!RemoveAt(mfu, i) /\ mru' = mru
      BY <2>3 DEF AccessAlive, Promote, At
    <3>2. InList("MRU")' = InList("MRU")
      BY <2>3, <1>3 DEF InList
    <3> DEFINE rest == S!RemoveAt(mfu, i)
    <3>3. /\ rest \in Seq(Frame) /\ Len(rest) = Len(mfu) - 1
          /\ Holds(rest, InList("MFU") \ {f})
      BY <2>1, <3>1, RemoveAtType, HoldsRemove
    <3> HIDE DEF rest
    <3>4. /\ <<f>> \o rest \in Seq(Frame) /\ Len(<<f>> \o rest) = Len(rest) + 1
          /\ Holds(<<f>> \o rest, (InList("MFU") \ {f}) \union {f})
      BY <3>3, PushType, HoldsPush
    <3>5. mfu' = <<f>> \o rest
      BY <3>1 DEF rest
    <3>6. Holds(mru', InList("MRU")') /\ Holds(mfu', InList("MFU")')
      BY <2>1, <3>1, <3>2, <3>4, <3>5, <1>3, Zenon
    <3>7. Len(mru') <= Len(mru) /\ Len(mru') + Len(mfu') = Len(mru) + Len(mfu)
      <4>1. mru' = mru /\ Len(mfu') = Len(rest) + 1 /\ Len(rest) = Len(mfu) - 1
        BY <3>1, <3>3, <3>4, <3>5, Zenon
      <4>2. Len(mfu') = Len(mfu)
        BY <4>1, <2>1
      <4> QED BY <4>1, <4>2, <2>1
    <3> QED BY <2>1, <3>1, <3>4, <3>5, <3>6, <3>7
  <2> QED BY <2>2, <2>3, <1>2
<1>5. ListsMatchMaps'
  <2>1. /\ Holds(mru_ghost', InGhostList("MRU_GHOST")')
        /\ Holds(mfu_ghost', InGhostList("MFU_GHOST")')
    BY <1>1 DEF IInv, ListsMatchMaps, InGhostList, Ghost
  <2> QED BY <1>4, <2>1 DEF ListsMatchMaps
<1>6. SizeCountsEvictable'
  <2>1. EvictableFrames' = EvictableFrames
    BY <1>2 DEF EvictableFrames
  <2> QED BY <2>1, <1>1 DEF IInv, SizeCountsEvictable, EvictableFrames
<1>7. GhostsAreNotResident'
  BY <1>1, <1>2 DEF IInv, GhostsAreNotResident, Ghost
<1>8. TypeOK'
  BY <1>1, <1>2, <1>4 DEF IInv, TypeOK, Ghost
<1>9. DirectoryBounds'
  <2>1. /\ Len(mru') \in Nat /\ Len(mfu') \in Nat
        /\ replacer_size \in Nat
    BY <1>4, LenProperties, Counters DEF IInv, TypeOK
  <2> QED BY <2>1, <1>1, <1>4, Members DEF IInv, DirectoryBounds
<1> QED BY <1>5, <1>6, <1>7, <1>8, <1>9 DEF IInv

LEMMA TargetInRange ==
    ASSUME IInv
    PROVE  /\ Lowered \in 0..replacer_size
           /\ (mru_ghost # <<>> => Raised \in 0..replacer_size)
<1>1. /\ mru_target_size \in 0..replacer_size /\ replacer_size \in Nat
      /\ Len(mru_ghost) \in Nat /\ Len(mfu_ghost) \in Nat
  BY Members, Counters DEF IInv, TypeOK
<1>2. Lowered \in 0..replacer_size
  BY <1>1 DEF Lowered
<1>3. ASSUME mru_ghost # <<>>
      PROVE  Raised \in 0..replacer_size
  <2>1. Len(mru_ghost) \in Nat \ {0}
    BY <1>3, EmptySeq DEF IInv, TypeOK
  <2>2. Len(mfu_ghost) \div Len(mru_ghost) \in Nat
    BY <1>1, <2>1
  <2> DEFINE step == IF Len(mru_ghost) >= Len(mfu_ghost) THEN 1
                     ELSE Len(mfu_ghost) \div Len(mru_ghost)
  <2>3. step \in Nat
    BY <2>2
  <2>4. Raised = Least(mru_target_size + step, replacer_size)
    BY DEF Raised
  <2> HIDE DEF step
  <2> QED BY <2>3, <2>4, <1>1 DEF Least
<1> QED BY <1>2, <1>3

LEMMA AccessGhostInv ==
    ASSUME IInv, NEW f \in Frame, NEW p \in Page, ValidAccess(f, p), AccessGhost(f, p)
    PROVE  IInv'
<1>1. /\ f \notin Alive
      /\ p \in Ghost
      /\ ghost_map' = Without(ghost_map, p)
      /\ mfu' = <<f>> \o mfu
      /\ Resident(f, p, "MFU")
      /\ mru' = mru /\ curr_size' = curr_size /\ victim' = victim
  BY DEF AccessGhost, EraseGhost
<1>2. \A g \in Alive : alive_map[g].page # p
  BY <1>1 DEF ValidAccess
<1>3. /\ Alive' = Alive \union {f}
      /\ alive_map'[f] = [page |-> p, evictable |-> FALSE, arc_status |-> "MFU"]
      /\ \A g \in Alive : alive_map'[g] = alive_map[g]
      /\ InList("MFU")' = InList("MFU") \union {f}
      /\ InList("MRU")' = InList("MRU")
      /\ EvictableFrames' = EvictableFrames
  BY <1>1, AliveAdded
<1>4. /\ Ghost' = Ghost \ {p}
      /\ \A q \in Ghost \ {p} : ghost_map'[q] = ghost_map[q]
      /\ \A st : InGhostList(st)' = InGhostList(st) \ {p}
  BY <1>1, GhostDropped
<1>5. /\ mfu' \in Seq(Frame) /\ Len(mfu') = Len(mfu) + 1
      /\ Holds(mfu', InList("MFU")') /\ Holds(mru', InList("MRU")')
  <2>1. /\ mru \in Seq(Frame) /\ Holds(mru, InList("MRU"))
        /\ mfu \in Seq(Frame) /\ Holds(mfu, InList("MFU"))
    BY DEF IInv, TypeOK, ListsMatchMaps
  <2>2. f \notin InList("MFU")
    BY <1>1 DEF InList
  <2>3. /\ <<f>> \o mfu \in Seq(Frame) /\ Len(<<f>> \o mfu) = Len(mfu) + 1
        /\ Holds(<<f>> \o mfu, InList("MFU") \union {f})
    BY <2>1, <2>2, PushType, HoldsPush
  <2> QED BY <2>1, <2>3, <1>1, <1>3, Zenon
<1>6. /\ mru_ghost' \in Seq(Page) /\ mfu_ghost' \in Seq(Page)
      /\ Holds(mru_ghost', InGhostList("MRU_GHOST")')
      /\ Holds(mfu_ghost', InGhostList("MFU_GHOST")')
      /\ Len(mru_ghost') <= Len(mru_ghost)
      /\ Len(mru_ghost') + Len(mfu_ghost') = Len(mru_ghost) + Len(mfu_ghost) - 1
  <2>1. /\ mru_ghost \in Seq(Page) /\ Holds(mru_ghost, InGhostList("MRU_GHOST"))
        /\ mfu_ghost \in Seq(Page) /\ Holds(mfu_ghost, InGhostList("MFU_GHOST"))
        /\ Len(mru_ghost) \in Nat /\ Len(mfu_ghost) \in Nat
    BY Members DEF IInv, TypeOK, ListsMatchMaps
  <2>2. CASE ghost_map[p] = "MRU_GHOST"
    <3>1. PICK i \in 1..Len(mru_ghost) :
              mru_ghost[i] = p /\ mru_ghost' = S!RemoveAt(mru_ghost, i) /\ mfu_ghost' = mfu_ghost
      BY <2>2 DEF AccessGhost, At
    <3>2. InGhostList("MFU_GHOST")' = InGhostList("MFU_GHOST")
      BY <2>2, <1>4 DEF InGhostList
    <3>3. /\ mru_ghost' \in Seq(Page) /\ Len(mru_ghost') = Len(mru_ghost) - 1
          /\ Holds(mru_ghost', InGhostList("MRU_GHOST") \ {p})
      BY <2>1, <3>1, RemoveAtType, HoldsRemove
    <3>4. Holds(mru_ghost', InGhostList("MRU_GHOST")') /\ Holds(mfu_ghost', InGhostList("MFU_GHOST")')
      BY <2>1, <3>1, <3>2, <3>3, <1>4, Zenon
    <3>5. Len(mfu_ghost') = Len(mfu_ghost)
      BY <3>1
    <3>6. /\ Len(mru_ghost') <= Len(mru_ghost)
          /\ Len(mru_ghost') + Len(mfu_ghost') = Len(mru_ghost) + Len(mfu_ghost) - 1
      BY <2>1, <3>3, <3>5
    <3> QED BY <2>1, <3>1, <3>3, <3>4, <3>6
  <2>3. CASE ghost_map[p] = "MFU_GHOST"
    <3>1. PICK i \in 1..Len(mfu_ghost) :
              mfu_ghost[i] = p /\ mfu_ghost' = S!RemoveAt(mfu_ghost, i) /\ mru_ghost' = mru_ghost
      BY <2>3 DEF AccessGhost, At
    <3>2. InGhostList("MRU_GHOST")' = InGhostList("MRU_GHOST")
      BY <2>3, <1>4 DEF InGhostList
    <3>3. /\ mfu_ghost' \in Seq(Page) /\ Len(mfu_ghost') = Len(mfu_ghost) - 1
          /\ Holds(mfu_ghost', InGhostList("MFU_GHOST") \ {p})
      BY <2>1, <3>1, RemoveAtType, HoldsRemove
    <3>4. Holds(mfu_ghost', InGhostList("MFU_GHOST")') /\ Holds(mru_ghost', InGhostList("MRU_GHOST")')
      BY <2>1, <3>1, <3>2, <3>3, <1>4, Zenon
    <3>5. Len(mru_ghost') = Len(mru_ghost)
      BY <3>1
    <3>6. /\ Len(mru_ghost') <= Len(mru_ghost)
          /\ Len(mru_ghost') + Len(mfu_ghost') = Len(mru_ghost) + Len(mfu_ghost) - 1
      BY <2>1, <3>3, <3>5
    <3> QED BY <2>1, <3>1, <3>3, <3>4, <3>6
  <2> QED BY <2>2, <2>3, <1>1 DEF IInv, TypeOK
<1>7. mru_target_size' \in 0..replacer_size
  <2>1. CASE ghost_map[p] = "MRU_GHOST"
    <3>1. PICK i \in 1..Len(mru_ghost) : mru_ghost[i] = p
      BY <2>1, <1>1 DEF AccessGhost, At
    <3>2. mru_ghost # <<>>
      BY <3>1
    <3> QED BY <3>2, <2>1, TargetInRange DEF AccessGhost
  <2>2. CASE ghost_map[p] = "MFU_GHOST"
    BY <2>2, TargetInRange DEF AccessGhost
  <2> QED BY <2>1, <2>2, <1>1 DEF IInv, TypeOK
<1>8. ListsMatchMaps'
  BY <1>5, <1>6 DEF ListsMatchMaps
<1>9. SizeCountsEvictable'
  BY <1>1, <1>3 DEF IInv, SizeCountsEvictable, EvictableFrames
<1>0. alive_map'[f].page = p /\ alive_map'[f] \in FrameStatus
  BY <1>3 DEF FrameStatus
<1>10. GhostsAreNotResident'
  <2>1. \A g \in Alive : alive_map'[g].page = alive_map[g].page
    BY <1>3
  <2>2. \A g, h \in Alive' : alive_map'[g].page = alive_map'[h].page => g = h
    BY <2>1, <1>2, <1>3, <1>0 DEF IInv, GhostsAreNotResident
  <2>3. \A g \in Alive' : alive_map'[g].page \notin Ghost'
    BY <2>1, <1>3, <1>4, <1>0 DEF IInv, GhostsAreNotResident
  <2> QED BY <2>2, <2>3 DEF GhostsAreNotResident
<1>11. TypeOK'
  <2>1. Alive' \subseteq Frame /\ \A g \in Alive' : alive_map'[g] \in FrameStatus
    BY <1>3, <1>0 DEF IInv, TypeOK
  <2>2. Ghost' \subseteq Page /\ \A q \in Ghost' : ghost_map'[q] \in {"MRU_GHOST", "MFU_GHOST"}
    BY <1>4 DEF IInv, TypeOK
  <2> QED BY <2>1, <2>2, <1>1, <1>5, <1>6, <1>7 DEF IInv, TypeOK
<1>12. DirectoryBounds'
  <2>1. /\ Len(mru') = Len(mru) /\ replacer_size \in Nat
        /\ Len(mru_ghost') \in Nat /\ Len(mfu_ghost') \in Nat
    BY <1>1, <1>6, LenProperties, Counters DEF IInv, TypeOK
  <2> QED BY <2>1, <1>5, <1>6, Members DEF IInv, DirectoryBounds
<1> QED BY <1>8, <1>9, <1>10, <1>11, <1>12 DEF IInv

\* When RecordAccess must trim, there is something to trim.
LEMMA GhostToTrim ==
    ASSUME IInv
    PROVE  TrimFindsGhost
<1> SUFFICES ASSUME NEW f \in Frame \ Alive
             PROVE  /\ HistoryFull => mru_ghost # <<>>
                    /\ ~HistoryFull /\ TotalFull => mfu_ghost # <<>>
  BY DEF TrimFindsGhost
<1>1. /\ Len(mru) < replacer_size /\ Len(mfu) < replacer_size
      /\ Len(mru) \in Nat /\ Len(mfu) \in Nat
      /\ Len(mru_ghost) \in Nat /\ Len(mfu_ghost) \in Nat
      /\ replacer_size \in Nat
      /\ Len(mru) + Len(mru_ghost) <= replacer_size
  BY ResidentListsAreShort, Members, Counters DEF IInv, TypeOK, DirectoryBounds
<1>2. HistoryFull => Len(mru_ghost) # 0
  BY <1>1 DEF HistoryFull
<1>3. ~HistoryFull /\ TotalFull => Len(mfu_ghost) # 0
  BY <1>1 DEF HistoryFull, TotalFull
<1>4. Len(<<>>) = 0
  BY EmptySeq
<1> QED BY <1>2, <1>3, <1>4

LEMMA AccessMissInv ==
    ASSUME IInv, NEW f \in Frame, NEW p \in Page, ValidAccess(f, p), AccessMiss(f, p)
    PROVE  IInv'
<1>1. /\ f \notin Alive
      /\ p \notin Ghost
      /\ mru' = <<f>> \o mru
      /\ Resident(f, p, "MRU")
      /\ mfu' = mfu /\ curr_size' = curr_size /\ victim' = victim
      /\ mru_target_size' = mru_target_size
  BY DEF AccessMiss
<1>2. \A g \in Alive : alive_map[g].page # p
  BY <1>1 DEF ValidAccess
<1>3. /\ Alive' = Alive \union {f}
      /\ alive_map'[f] = [page |-> p, evictable |-> FALSE, arc_status |-> "MRU"]
      /\ \A g \in Alive : alive_map'[g] = alive_map[g]
      /\ InList("MRU")' = InList("MRU") \union {f}
      /\ InList("MFU")' = InList("MFU")
      /\ EvictableFrames' = EvictableFrames
  BY <1>1, AliveAdded
<1>4. alive_map'[f].page = p /\ alive_map'[f] \in FrameStatus
  BY <1>3 DEF FrameStatus
<1>5. /\ mru' \in Seq(Frame) /\ Len(mru') = Len(mru) + 1
      /\ Holds(mru', InList("MRU")') /\ Holds(mfu', InList("MFU")')
  <2>1. /\ mru \in Seq(Frame) /\ Holds(mru, InList("MRU"))
        /\ mfu \in Seq(Frame) /\ Holds(mfu, InList("MFU"))
    BY DEF IInv, TypeOK, ListsMatchMaps
  <2>2. f \notin InList("MRU")
    BY <1>1 DEF InList
  <2>3. /\ <<f>> \o mru \in Seq(Frame) /\ Len(<<f>> \o mru) = Len(mru) + 1
        /\ Holds(<<f>> \o mru, InList("MRU") \union {f})
    BY <2>1, <2>2, PushType, HoldsPush
  <2> QED BY <2>1, <2>3, <1>1, <1>3, Zenon
<1>6. (HistoryFull => mru_ghost # <<>>) /\ (~HistoryFull /\ TotalFull => mfu_ghost # <<>>)
  BY <1>1, GhostToTrim DEF TrimFindsGhost
<1>7. /\ mru_ghost' \in Seq(Page) /\ mfu_ghost' \in Seq(Page)
      /\ Holds(mru_ghost', InGhostList("MRU_GHOST")')
      /\ Holds(mfu_ghost', InGhostList("MFU_GHOST")')
      /\ Ghost' \subseteq Ghost /\ \A r \in Ghost' : ghost_map'[r] = ghost_map[r]
      /\ (HistoryFull => Len(mru_ghost') = Len(mru_ghost) - 1)
      /\ (~HistoryFull /\ TotalFull => Len(mfu_ghost') = Len(mfu_ghost) - 1)
      /\ Len(mru_ghost') <= Len(mru_ghost) /\ Len(mfu_ghost') <= Len(mfu_ghost)
  <2>1. /\ mru_ghost \in Seq(Page) /\ Holds(mru_ghost, InGhostList("MRU_GHOST"))
        /\ mfu_ghost \in Seq(Page) /\ Holds(mfu_ghost, InGhostList("MFU_GHOST"))
        /\ Len(mru_ghost) \in Nat /\ Len(mfu_ghost) \in Nat
    BY Members DEF IInv, TypeOK, ListsMatchMaps
  <2>2. CASE TrimsMruGhost
    <3>1. /\ mru_ghost # <<>>
          /\ mru_ghost' = S!Front(mru_ghost)
          /\ mfu_ghost' = mfu_ghost
          /\ ghost_map' = Without(ghost_map, Last1(mru_ghost))
      BY <2>2 DEF AccessMiss, EraseGhost, TrimsMruGhost, TrimsMfuGhost
    <3> DEFINE q == Last1(mru_ghost)
    <3>2. q \in InGhostList("MRU_GHOST") /\ Holds(S!Front(mru_ghost), InGhostList("MRU_GHOST") \ {q})
      BY <2>1, <3>1, HoldsFront
    <3>3. /\ S!Front(mru_ghost) \in Seq(Page) /\ Len(S!Front(mru_ghost)) = Len(mru_ghost) - 1
          /\ Len(mru_ghost) \in Nat \ {0}
      BY <2>1, <3>1, FrontType
    <3> HIDE DEF q
    <3>4. q \in Ghost /\ q \notin InGhostList("MFU_GHOST")
      BY <3>2 DEF InGhostList
    <3>5. /\ Ghost' = Ghost \ {q}
          /\ \A r \in Ghost \ {q} : ghost_map'[r] = ghost_map[r]
          /\ \A st : InGhostList(st)' = InGhostList(st) \ {q}
      BY <3>1, <3>4, GhostDropped DEF q
    <3>6. InGhostList("MFU_GHOST")' = InGhostList("MFU_GHOST")
      BY <3>4, <3>5
    <3>7. Holds(mru_ghost', InGhostList("MRU_GHOST")') /\ Holds(mfu_ghost', InGhostList("MFU_GHOST")')
      BY <2>1, <3>1, <3>2, <3>5, <3>6, Zenon
    <3>8. Ghost' \subseteq Ghost /\ \A r \in Ghost' : ghost_map'[r] = ghost_map[r]
      BY <3>5
    <3>9. Len(mru_ghost') = Len(mru_ghost) - 1 /\ Len(mfu_ghost') = Len(mfu_ghost)
      BY <3>1, <3>3
    <3>10. /\ (HistoryFull => Len(mru_ghost') = Len(mru_ghost) - 1)
           /\ (~HistoryFull /\ TotalFull => Len(mfu_ghost') = Len(mfu_ghost) - 1)
           /\ Len(mru_ghost') <= Len(mru_ghost) /\ Len(mfu_ghost') <= Len(mfu_ghost)
      BY <2>1, <2>2, <3>9 DEF TrimsMruGhost, TrimsMfuGhost
    <3> QED BY <2>1, <3>1, <3>3, <3>7, <3>8, <3>10
  <2>3. CASE TrimsMfuGhost
    <3>1. /\ mfu_ghost # <<>>
          /\ mfu_ghost' = S!Front(mfu_ghost)
          /\ mru_ghost' = mru_ghost
          /\ ghost_map' = Without(ghost_map, Last1(mfu_ghost))
      BY <2>3 DEF AccessMiss, EraseGhost, TrimsMruGhost, TrimsMfuGhost
    <3> DEFINE q == Last1(mfu_ghost)
    <3>2. q \in InGhostList("MFU_GHOST") /\ Holds(S!Front(mfu_ghost), InGhostList("MFU_GHOST") \ {q})
      BY <2>1, <3>1, HoldsFront
    <3>3. /\ S!Front(mfu_ghost) \in Seq(Page) /\ Len(S!Front(mfu_ghost)) = Len(mfu_ghost) - 1
          /\ Len(mfu_ghost) \in Nat \ {0}
      BY <2>1, <3>1, FrontType
    <3> HIDE DEF q
    <3>4. q \in Ghost /\ q \notin InGhostList("MRU_GHOST")
      BY <3>2 DEF InGhostList
    <3>5. /\ Ghost' = Ghost \ {q}
          /\ \A r \in Ghost \ {q} : ghost_map'[r] = ghost_map[r]
          /\ \A st : InGhostList(st)' = InGhostList(st) \ {q}
      BY <3>1, <3>4, GhostDropped DEF q
    <3>6. InGhostList("MRU_GHOST")' = InGhostList("MRU_GHOST")
      BY <3>4, <3>5
    <3>7. Holds(mfu_ghost', InGhostList("MFU_GHOST")') /\ Holds(mru_ghost', InGhostList("MRU_GHOST")')
      BY <2>1, <3>1, <3>2, <3>5, <3>6, Zenon
    <3>8. Ghost' \subseteq Ghost /\ \A r \in Ghost' : ghost_map'[r] = ghost_map[r]
      BY <3>5
    <3>9. Len(mfu_ghost') = Len(mfu_ghost) - 1 /\ Len(mru_ghost') = Len(mru_ghost)
      BY <3>1, <3>3
    <3>10. /\ (HistoryFull => Len(mru_ghost') = Len(mru_ghost) - 1)
           /\ (~HistoryFull /\ TotalFull => Len(mfu_ghost') = Len(mfu_ghost) - 1)
           /\ Len(mru_ghost') <= Len(mru_ghost) /\ Len(mfu_ghost') <= Len(mfu_ghost)
      BY <2>1, <2>3, <3>9 DEF TrimsMruGhost, TrimsMfuGhost
    <3> QED BY <2>1, <3>1, <3>3, <3>7, <3>8, <3>10
  <2>4. CASE ~TrimsMruGhost /\ ~TrimsMfuGhost
    <3>1. mru_ghost' = mru_ghost /\ mfu_ghost' = mfu_ghost /\ ghost_map' = ghost_map
      BY <2>4 DEF AccessMiss
    <3>2. ~HistoryFull /\ ~(~HistoryFull /\ TotalFull)
      BY <2>4, <1>6 DEF TrimsMruGhost, TrimsMfuGhost
    <3>3. /\ InGhostList("MRU_GHOST")' = InGhostList("MRU_GHOST")
          /\ InGhostList("MFU_GHOST")' = InGhostList("MFU_GHOST")
          /\ Ghost' = Ghost
      BY <3>1 DEF InGhostList, Ghost
    <3>4. Len(mru_ghost') <= Len(mru_ghost) /\ Len(mfu_ghost') <= Len(mfu_ghost)
      BY <2>1, <3>1
    <3>5. /\ Holds(mru_ghost', InGhostList("MRU_GHOST")')
          /\ Holds(mfu_ghost', InGhostList("MFU_GHOST")')
      BY <2>1, <3>1, <3>3, Zenon
    <3> QED BY <2>1, <3>1, <3>2, <3>3, <3>4, <3>5
  <2> QED BY <2>2, <2>3, <2>4
<1>8. ListsMatchMaps'
  BY <1>5, <1>7 DEF ListsMatchMaps
<1>9. SizeCountsEvictable'
  BY <1>1, <1>3 DEF IInv, SizeCountsEvictable, EvictableFrames
<1>10. GhostsAreNotResident'
  <2>1. \A g \in Alive : alive_map'[g].page = alive_map[g].page
    BY <1>3
  <2>2. \A g, h \in Alive' : alive_map'[g].page = alive_map'[h].page => g = h
    BY <2>1, <1>2, <1>3, <1>4 DEF IInv, GhostsAreNotResident
  <2>3. \A g \in Alive' : alive_map'[g].page \notin Ghost'
    BY <2>1, <1>1, <1>3, <1>4, <1>7 DEF IInv, GhostsAreNotResident
  <2> QED BY <2>2, <2>3 DEF GhostsAreNotResident
<1>11. TypeOK'
  <2>1. Alive' \subseteq Frame /\ \A g \in Alive' : alive_map'[g] \in FrameStatus
    BY <1>3, <1>4 DEF IInv, TypeOK
  <2>2. Ghost' \subseteq Page /\ \A q \in Ghost' : ghost_map'[q] \in {"MRU_GHOST", "MFU_GHOST"}
    BY <1>7 DEF IInv, TypeOK
  <2> QED BY <2>1, <2>2, <1>1, <1>5, <1>7 DEF IInv, TypeOK
<1>12. DirectoryBounds'
  <2>1. /\ Len(mfu') = Len(mfu) /\ replacer_size \in Nat
        /\ Len(mru_ghost') \in Nat /\ Len(mfu_ghost') \in Nat
    BY <1>1, <1>7, LenProperties, Counters DEF IInv, TypeOK
  <2>2. /\ Len(mru) \in Nat /\ Len(mfu) \in Nat
        /\ Len(mru_ghost) \in Nat /\ Len(mfu_ghost) \in Nat
        /\ Len(mru) + Len(mru_ghost) <= replacer_size
        /\ Len(mru) + Len(mru_ghost) + Len(mfu) + Len(mfu_ghost) <= 2 * replacer_size
    BY Members DEF IInv, DirectoryBounds
  <2>6. /\ Len(mru') = Len(mru) + 1
        /\ Len(mru_ghost') <= Len(mru_ghost) /\ Len(mfu_ghost') <= Len(mfu_ghost)
    BY <1>5, <1>7
  <2>3. CASE HistoryFull
    <3>1. Len(mru_ghost') = Len(mru_ghost) - 1
      BY <2>3, <1>7, Zenon
    <3> QED BY <2>1, <2>2, <2>6, <3>1 DEF DirectoryBounds
  <2>4. CASE ~HistoryFull /\ TotalFull
    <3>1. Len(mfu_ghost') = Len(mfu_ghost) - 1
      BY <2>4, <1>7, Zenon
    <3> QED BY <2>1, <2>2, <2>4, <2>6, <3>1 DEF DirectoryBounds, HistoryFull
  <2>5. CASE ~HistoryFull /\ ~TotalFull
    BY <2>1, <2>2, <2>5, <2>6 DEF DirectoryBounds, HistoryFull, TotalFull
  <2> QED BY <2>3, <2>4, <2>5
<1> QED BY <1>8, <1>9, <1>10, <1>11, <1>12 DEF IInv

LEMMA SetEvictableInv ==
    ASSUME IInv, NEW f \in Frame, NEW b \in BOOLEAN, SetEvictable(f, b)
    PROVE  IInv'
<1>1. /\ mru' = mru /\ mfu' = mfu /\ mru_ghost' = mru_ghost /\ mfu_ghost' = mfu_ghost
      /\ ghost_map' = ghost_map /\ mru_target_size' = mru_target_size /\ victim' = victim
  BY DEF SetEvictable, lists
<1>2. /\ Alive' = Alive
      /\ \A g \in Alive : /\ alive_map'[g].page = alive_map[g].page
                          /\ alive_map'[g].arc_status = alive_map[g].arc_status
                          /\ alive_map'[g] \in FrameStatus
  BY DEF SetEvictable, Alive, IInv, TypeOK, FrameStatus
<1>3. /\ InList("MRU")' = InList("MRU") /\ InList("MFU")' = InList("MFU")
      /\ InGhostList("MRU_GHOST")' = InGhostList("MRU_GHOST")
      /\ InGhostList("MFU_GHOST")' = InGhostList("MFU_GHOST")
      /\ Ghost' = Ghost
  BY <1>1, <1>2 DEF InList, InGhostList, Ghost
<1>4. ListsMatchMaps'
  BY <1>1, <1>3 DEF IInv, ListsMatchMaps
<1>5. SizeCountsEvictable'
  <2>1. curr_size = Cardinality(EvictableFrames) /\ curr_size \in Nat
        /\ IsFiniteSet(EvictableFrames)
    BY Counters DEF IInv, TypeOK, SizeCountsEvictable, EvictableFrames
  <2>2. CASE ~(f \in Alive /\ alive_map[f].evictable # b)
    BY <2>1, <2>2 DEF SetEvictable, SizeCountsEvictable, EvictableFrames, Alive
  <2>3. CASE f \in Alive /\ alive_map[f].evictable # b
    <3>1. /\ alive_map' = [alive_map EXCEPT ![f].evictable = b]
          /\ curr_size' = IF b THEN curr_size + 1 ELSE curr_size - 1
          /\ alive_map[f].evictable \in BOOLEAN
          /\ alive_map[f] \in FrameStatus
      BY <2>3 DEF SetEvictable, IInv, TypeOK, FrameStatus
    <3>2. /\ alive_map'[f].evictable = b
          /\ \A g \in Alive \ {f} : alive_map'[g] = alive_map[g]
      BY <3>1, <2>3 DEF Alive, FrameStatus
    <3>3. CASE b = TRUE
      <4>1. f \notin EvictableFrames /\ EvictableFrames' = EvictableFrames \union {f}
        BY <3>1, <3>2, <3>3, <2>3, <1>2 DEF EvictableFrames
      <4>2. Cardinality(EvictableFrames') = Cardinality(EvictableFrames) + 1
        BY <4>1, <2>1, FS_AddElement
      <4> QED BY <4>2, <2>1, <3>1, <3>3 DEF SizeCountsEvictable, EvictableFrames
    <3>4. CASE b = FALSE
      <4>1. f \in EvictableFrames /\ EvictableFrames' = EvictableFrames \ {f}
        BY <3>1, <3>2, <3>4, <2>3, <1>2 DEF EvictableFrames
      <4>2. Cardinality(EvictableFrames') = Cardinality(EvictableFrames) - 1
        BY <4>1, <2>1, FS_RemoveElement
      <4> QED BY <4>2, <2>1, <3>1, <3>4 DEF SizeCountsEvictable, EvictableFrames
    <3> QED BY <3>3, <3>4
  <2> QED BY <2>2, <2>3
<1>6. GhostsAreNotResident'
  BY <1>2, <1>3 DEF IInv, GhostsAreNotResident
<1>7. TypeOK'
  <2>1. curr_size' \in 0..replacer_size
    BY <1>2, <1>5, CountersNext DEF SizeCountsEvictable, EvictableFrames, IInv, TypeOK
  <2> QED BY <2>1, <1>1, <1>2, <1>3 DEF IInv, TypeOK
<1>8. DirectoryBounds'
  BY <1>1 DEF IInv, DirectoryBounds
<1> QED BY <1>4, <1>5, <1>6, <1>7, <1>8 DEF IInv

LEMMA RemoveInv ==
    ASSUME IInv, NEW f \in Frame, Remove(f)
    PROVE  IInv'
<1>1. /\ f \in Alive /\ alive_map[f].evictable
      /\ alive_map' = Without(alive_map, f)
      /\ curr_size' = curr_size - 1
      /\ mru_ghost' = mru_ghost /\ mfu_ghost' = mfu_ghost /\ ghost_map' = ghost_map
      /\ mru_target_size' = mru_target_size /\ victim' = victim
      /\ alive_map[f].arc_status \in {"MRU", "MFU"}
  BY DEF Remove, IInv, TypeOK, FrameStatus
<1>2. /\ Alive' = Alive \ {f}
      /\ \A g \in Alive \ {f} : alive_map'[g] = alive_map[g]
      /\ \A st : InList(st)' = InList(st) \ {f}
      /\ EvictableFrames' = EvictableFrames \ {f}
  BY <1>1, AliveDropped
<1>3. /\ mru' \in Seq(Frame) /\ mfu' \in Seq(Frame)
      /\ Holds(mru', InList("MRU")') /\ Holds(mfu', InList("MFU")')
      /\ Len(mru') <= Len(mru) /\ Len(mfu') <= Len(mfu)
  <2>1. /\ mru \in Seq(Frame) /\ Holds(mru, InList("MRU")) /\ Len(mru) \in Nat
        /\ mfu \in Seq(Frame) /\ Holds(mfu, InList("MFU")) /\ Len(mfu) \in Nat
    BY Members DEF IInv, TypeOK, ListsMatchMaps
  <2>2. CASE alive_map[f].arc_status = "MRU"
    <3>1. PICK i \in 1..Len(mru) : mru[i] = f /\ mru' = S!RemoveAt(mru, i)
      BY <2>2 DEF Remove, At
    <3>2. mfu' = mfu
      BY <2>2 DEF Remove
    <3>3. /\ mru' \in Seq(Frame) /\ Len(mru') = Len(mru) - 1
          /\ Holds(mru', InList("MRU") \ {f})
      BY <2>1, <3>1, RemoveAtType, HoldsRemove
    <3>4. InList("MFU")' = InList("MFU")
      BY <2>2, <1>2 DEF InList
    <3>5. Holds(mru', InList("MRU")') /\ Holds(mfu', InList("MFU")')
      BY <2>1, <3>2, <3>3, <3>4, <1>2, Zenon
    <3>6. Len(mfu') = Len(mfu)
      BY <3>2
    <3>7. Len(mru') <= Len(mru) /\ Len(mfu') <= Len(mfu)
      BY <2>1, <3>3, <3>6
    <3> QED BY <2>1, <3>2, <3>3, <3>5, <3>7
  <2>3. CASE alive_map[f].arc_status = "MFU"
    <3>1. PICK i \in 1..Len(mfu) : mfu[i] = f /\ mfu' = S!RemoveAt(mfu, i)
      BY <2>3 DEF Remove, At
    <3>2. mru' = mru
      BY <2>3 DEF Remove
    <3>3. /\ mfu' \in Seq(Frame) /\ Len(mfu') = Len(mfu) - 1
          /\ Holds(mfu', InList("MFU") \ {f})
      BY <2>1, <3>1, RemoveAtType, HoldsRemove
    <3>4. InList("MRU")' = InList("MRU")
      BY <2>3, <1>2 DEF InList
    <3>5. Holds(mfu', InList("MFU")') /\ Holds(mru', InList("MRU")')
      BY <2>1, <3>2, <3>3, <3>4, <1>2, Zenon
    <3>6. Len(mru') = Len(mru)
      BY <3>2
    <3>7. Len(mru') <= Len(mru) /\ Len(mfu') <= Len(mfu)
      BY <2>1, <3>3, <3>6
    <3> QED BY <2>1, <3>2, <3>3, <3>5, <3>7
  <2> QED BY <2>2, <2>3, <1>1
<1>4. ListsMatchMaps'
  <2>1. /\ Holds(mru_ghost', InGhostList("MRU_GHOST")')
        /\ Holds(mfu_ghost', InGhostList("MFU_GHOST")')
    BY <1>1 DEF IInv, ListsMatchMaps, InGhostList, Ghost
  <2> QED BY <2>1, <1>3 DEF ListsMatchMaps
<1>5. SizeCountsEvictable'
  <2>1. f \in EvictableFrames
    BY <1>1 DEF EvictableFrames
  <2>2. Cardinality(EvictableFrames') = Cardinality(EvictableFrames) - 1
    BY <2>1, <1>2, Counters, FS_RemoveElement DEF IInv, TypeOK
  <2> QED BY <2>2, <1>1 DEF SizeCountsEvictable, EvictableFrames, IInv
<1>6. GhostsAreNotResident'
  BY <1>1, <1>2 DEF IInv, GhostsAreNotResident, Ghost
<1>7. TypeOK'
  <2>1. Alive' \subseteq Frame /\ \A g \in Alive' : alive_map'[g] \in FrameStatus
    BY <1>2 DEF IInv, TypeOK
  <2>2. curr_size' \in 0..replacer_size
    BY <2>1, <1>5, CountersNext DEF SizeCountsEvictable, EvictableFrames
  <2> QED BY <2>1, <2>2, <1>1, <1>3 DEF IInv, TypeOK, Ghost
<1>8. DirectoryBounds'
  <2>1. /\ Len(mru') \in Nat /\ Len(mfu') \in Nat /\ replacer_size \in Nat
        /\ Len(mru') <= Len(mru) /\ Len(mfu') <= Len(mfu)
    BY <1>3, LenProperties, Counters DEF IInv, TypeOK
  <2> QED BY <2>1, <1>1, Members DEF IInv, DirectoryBounds
<1> QED BY <1>4, <1>5, <1>6, <1>7, <1>8 DEF IInv

-----------------------------------------------------------------------------
(* The theorems. *)

LEMMA InitInv == Init => IInv
<1> SUFFICES ASSUME Init
             PROVE  IInv
  OBVIOUS
<1>1. Alive = {} /\ Ghost = {}
  BY DEF Init, Alive, Ghost
<1>2. \A T : <<>> \in Seq(T) /\ Len(<<>>) = 0
  BY EmptySeq
<1>3. replacer_size \in Nat
  BY FrameAssumption, FS_CardinalityType DEF replacer_size
<1>4. TypeOK
  BY <1>1, <1>2, <1>3 DEF Init, TypeOK
<1>5. Holds(<<>>, {})
  BY DEF Holds, S!IsInjective, S!ToSet
<1>6. ListsMatchMaps
  <2>1. \A st : InList(st) = {} /\ InGhostList(st) = {}
    BY <1>1 DEF InList, InGhostList
  <2> QED BY <2>1, <1>5, Zenon DEF Init, ListsMatchMaps
<1>7. SizeCountsEvictable
  <2>1. {f \in Alive : alive_map[f].evictable} = {}
    BY <1>1
  <2> QED BY <2>1, FS_EmptySet DEF Init, SizeCountsEvictable
<1>8. GhostsAreNotResident
  BY <1>1 DEF GhostsAreNotResident
<1>9. DirectoryBounds
  BY <1>2, <1>3 DEF Init, DirectoryBounds
<1> QED BY <1>4, <1>6, <1>7, <1>8, <1>9 DEF IInv

LEMMA NextInv == IInv /\ [Next]_vars => IInv'
<1> SUFFICES ASSUME IInv, [Next]_vars
             PROVE  IInv'
  OBVIOUS
<1>1. CASE EvictMru
  BY <1>1, EvictMruInv
<1>2. CASE EvictMfu
  BY <1>2, EvictMfuInv
<1>3. CASE EvictNothing
  BY <1>3, EvictNothingInv
<1>4. ASSUME NEW f \in Frame, NEW p \in Page, RecordAccess(f, p)
      PROVE  IInv'
  BY <1>4, AccessAliveInv, AccessGhostInv, AccessMissInv DEF RecordAccess
<1>5. ASSUME NEW f \in Frame, NEW b \in BOOLEAN, SetEvictable(f, b)
      PROVE  IInv'
  BY <1>5, SetEvictableInv
<1>6. ASSUME NEW f \in Frame, Remove(f)
      PROVE  IInv'
  BY <1>6, RemoveInv
<1>7. CASE UNCHANGED vars
  BY <1>7 DEF vars, lists, IInv, TypeOK, ListsMatchMaps, InList, InGhostList,
              SizeCountsEvictable, GhostsAreNotResident, DirectoryBounds, Alive, Ghost,
              PreferMru
<1> QED BY <1>1, <1>2, <1>3, <1>4, <1>5, <1>6, <1>7 DEF Next

THEOREM ArcInvariant == Spec => []IInv
  BY InitInv, NextInv, PTL DEF Spec

\* The fields of the class keep their types: in particular curr_size_, a size_t
\* decremented without a test, never goes below zero.
THEOREM ArcTypeOK == Spec => []TypeOK
  BY ArcInvariant, PTL DEF IInv

\* The four lists and the two maps always agree.
THEOREM ArcListsMatchMaps == Spec => []ListsMatchMaps
  BY ArcInvariant, PTL DEF IInv

\* Size() is the number of evictable frames.
THEOREM ArcSizeCountsEvictable == Spec => []SizeCountsEvictable
  BY ArcInvariant, PTL DEF IInv

\* No page is resident twice, and no ghost page is resident.
THEOREM ArcGhostsAreNotResident == Spec => []GhostsAreNotResident
  BY ArcInvariant, PTL DEF IInv

\* The ARC directory holds at most c pages in mru and its ghosts, 2c in all.
THEOREM ArcDirectoryBounds == Spec => []DirectoryBounds
  BY ArcInvariant, PTL DEF IInv

\* RecordAccess never has to trim an empty ghost list.
THEOREM ArcTrimFindsGhost == Spec => []TrimFindsGhost
<1>1. IInv => TrimFindsGhost
  BY GhostToTrim
<1> QED BY <1>1, ArcInvariant, PTL

-----------------------------------------------------------------------------
(* ARC implements the replacer specification.                              *)

AbsEntry == [f \in Frame |-> IF f \notin Alive THEN "absent"
                             ELSE IF alive_map[f].evictable THEN "evictable" ELSE "pinned"]

LEMMA AbsEvictable ==
    ASSUME Alive \subseteq Frame
    PROVE  Policy!Evictable(AbsEntry) = EvictableFrames
  BY DEF Policy!Evictable, AbsEntry, EvictableFrames

LEMMA AbsEvictableNext ==
    ASSUME Alive' \subseteq Frame
    PROVE  Policy!Evictable(AbsEntry') = EvictableFrames'
  BY DEF Policy!Evictable, AbsEntry, EvictableFrames

\* The counter of the new state is the one the abstract step demands.
LEMMA AbsSize ==
    ASSUME IInv'
    PROVE  curr_size' = Policy!Cardinality(Policy!Evictable(AbsEntry'))
<1>1. Policy!Evictable(AbsEntry') = EvictableFrames'
  BY AbsEvictableNext DEF IInv, TypeOK
<1>2. curr_size' = Cardinality(EvictableFrames')
  BY DEF IInv, SizeCountsEvictable, EvictableFrames
<1>3. Policy!Cardinality(EvictableFrames') = Cardinality(EvictableFrames')
  BY DEF Policy!Cardinality, Cardinality
<1> QED BY <1>1, <1>2, <1>3

LEMMA StepImplements ==
    IInv /\ IInv' /\ [Next]_vars => [Policy!Next]_Policy!rvars
<1> SUFFICES ASSUME IInv, IInv', [Next]_vars
             PROVE  [Policy!Next]_Policy!rvars
  OBVIOUS
<1>0. Alive \subseteq Frame
  BY DEF IInv, TypeOK
<1>1. ASSUME NEW f \in Alive, alive_map[f].evictable,
             alive_map' = Without(alive_map, f)
      PROVE  /\ f \in Frame /\ AbsEntry[f] = "evictable"
             /\ f \in Policy!Evictable(AbsEntry)
             /\ AbsEntry' = Policy!Forgotten(AbsEntry, f)
  <2>1. Alive' = Alive \ {f} /\ \A g \in Alive \ {f} : alive_map'[g] = alive_map[g]
    BY <1>1, AliveDropped
  <2> QED BY <1>0, <1>1, <2>1 DEF AbsEntry, Policy!Forgotten, Policy!Evictable
<1>2. CASE EvictMru \/ EvictMfu
  <2>1. PICK f \in Alive : alive_map[f].evictable /\ alive_map' = Without(alive_map, f)
                           /\ victim' = f
    BY <1>2, Members DEF EvictMru, EvictMfu, IsVictim, ToGhost, InList
  <2>2. Policy!Change(Policy!Forgotten(AbsEntry, f), f)
    BY <2>1, <1>1, AbsSize DEF Policy!Change, AbsEntry
  <2> QED BY <2>1, <2>2, <1>1 DEF Policy!Next, Policy!Evict, AbsEntry
<1>3. CASE EvictNothing
  <2>1. alive_map' = alive_map /\ victim' = NoFrame
    BY <1>3 DEF EvictNothing
  <2>2. EvictableFrames = {}
    <3>1. curr_size = Cardinality(EvictableFrames) /\ IsFiniteSet(EvictableFrames)
      BY <1>0, Counters DEF IInv, SizeCountsEvictable, EvictableFrames
    <3>2. CASE curr_size = 0
      BY <3>1, <3>2, FS_EmptySet
    <3>3. CASE ~HasVictim(mru) /\ ~HasVictim(mfu)
      <4> SUFFICES ASSUME NEW f \in EvictableFrames
                   PROVE  FALSE
        OBVIOUS
      <4>1. f \in InList("MRU") \/ f \in InList("MFU")
        BY DEF EvictableFrames, InList, IInv, TypeOK, FrameStatus
      <4>2. \/ \E i \in 1..Len(mru) : mru[i] = f
            \/ \E i \in 1..Len(mfu) : mfu[i] = f
        BY <4>1, HoldsMember DEF IInv, TypeOK, ListsMatchMaps
      <4> QED BY <4>2, <3>3 DEF HasVictim, EvictableFrames
    <3> QED BY <1>3, <3>2, <3>3 DEF EvictNothing
  <2>3. Policy!Change(AbsEntry, NoFrame)
    BY <2>1, AbsSize DEF Policy!Change, AbsEntry, Alive
  <2> QED BY <2>2, <2>3, <1>0, AbsEvictable DEF Policy!Next, Policy!Evict, AbsEntry
<1>4. ASSUME NEW f \in Frame, NEW p \in Page, RecordAccess(f, p)
      PROVE  Policy!RecordAccess(f)
  <2>1. victim' = victim
    BY <1>4 DEF RecordAccess, AccessAlive, AccessGhost, AccessMiss
  <2>2. AbsEntry' = Policy!Recorded(AbsEntry, f)
    <3>1. CASE f \in Alive
      <4>1. alive_map' = [alive_map EXCEPT ![f].arc_status = "MFU"]
        BY <1>4, <3>1 DEF RecordAccess, AccessAlive, AccessGhost, AccessMiss
      <4>2. Alive' = Alive /\ \A g \in Alive : alive_map'[g].evictable = alive_map[g].evictable
        BY <4>1 DEF Alive, IInv, TypeOK, FrameStatus
      <4> QED BY <4>2, <3>1 DEF AbsEntry, Policy!Recorded
    <3>2. CASE f \notin Alive
      <4>1. PICK st \in {"MRU", "MFU"} : Resident(f, p, st)
        BY <1>4, <3>2 DEF RecordAccess, AccessAlive, AccessGhost, AccessMiss
      <4>3. /\ Alive' = Alive \union {f}
            /\ alive_map'[f] = [page |-> p, evictable |-> FALSE, arc_status |-> st]
            /\ \A g \in Alive : alive_map'[g] = alive_map[g]
        BY <4>1, <3>2, AliveAdded
      <4>2. alive_map'[f].evictable = FALSE
        BY <4>3
      <4> QED BY <4>2, <4>3, <3>2 DEF AbsEntry, Policy!Recorded
    <3> QED BY <3>1, <3>2
  <2>3. Policy!Change(Policy!Recorded(AbsEntry, f), victim)
    BY <2>1, <2>2, AbsSize DEF Policy!Change, AbsEntry
  <2> QED BY <2>3 DEF Policy!RecordAccess, AbsEntry
<1>5. ASSUME NEW f \in Frame, NEW b \in BOOLEAN, SetEvictable(f, b)
      PROVE  Policy!SetEvictable(f, b)
  <2>1. victim' = victim
    BY <1>5 DEF SetEvictable
  <2>2. AbsEntry' = Policy!WithEvictable(AbsEntry, f, b)
    <3>1. \A g \in Alive : alive_map[g].evictable \in BOOLEAN /\ alive_map[g] \in FrameStatus
      BY DEF IInv, TypeOK, FrameStatus
    <3>2. Alive' = Alive /\ (f \in Alive => alive_map'[f].evictable = b)
          /\ \A g \in Alive \ {f} : alive_map'[g] = alive_map[g]
      BY <1>5, <3>1 DEF SetEvictable, Alive, FrameStatus
    <3> QED BY <3>1, <3>2 DEF AbsEntry, Policy!WithEvictable
  <2>3. Policy!Change(Policy!WithEvictable(AbsEntry, f, b), victim)
    BY <2>1, <2>2, AbsSize DEF Policy!Change, AbsEntry
  <2> QED BY <2>3 DEF Policy!SetEvictable, AbsEntry
<1>6. ASSUME NEW f \in Frame, Remove(f)
      PROVE  Policy!Remove(f)
  <2>1. f \in Alive /\ alive_map[f].evictable /\ alive_map' = Without(alive_map, f)
        /\ victim' = victim
    BY <1>6 DEF Remove
  <2>2. Policy!Change(Policy!Forgotten(AbsEntry, f), victim)
    BY <2>1, <1>1, AbsSize DEF Policy!Change, AbsEntry
  <2> QED BY <2>1, <2>2, <1>1 DEF Policy!Remove, AbsEntry
<1>7. CASE UNCHANGED vars
  BY <1>7 DEF vars, Policy!rvars, Alive
<1> QED BY <1>2, <1>3, <1>4, <1>5, <1>6, <1>7 DEF Next, Policy!Next

\* Whatever order ARC keeps its lists in, its callers see a set of frames of which
\* Evict takes any evictable one, answers std::nullopt only when there is none, and
\* counts them right.
THEOREM ArcImplementsReplacer == Spec => ImplementsReplacer
<1>1. Init => Policy!Init
  <2> SUFFICES ASSUME Init
               PROVE  Policy!Init
    OBVIOUS
  <2>1. Alive = {}
    BY DEF Init, Alive
  <2> QED BY <2>1 DEF Init, Policy!Init
<1> QED BY <1>1, ArcInvariant, StepImplements, PTL DEF Spec, Policy!Spec, ImplementsReplacer

=============================================================================
