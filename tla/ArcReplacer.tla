---------------------------- MODULE ArcReplacer -----------------------------
(***************************************************************************)
(* buffer/arc_replacer.cpp: the Adaptive Replacement Cache policy.  Every  *)
(* public method runs under latch_, so each is one action.                 *)
(*                                                                         *)
(* The callers are those of the buffer pool: the frame ids given are those *)
(* of the pool, and a resident frame always comes with the same page.      *)
(***************************************************************************)
EXTENDS Naturals, FiniteSets, Sequences

S == INSTANCE SequencesExt    \* S!RemoveAt, S!Front, S!IsInjective, S!ToSet

CONSTANTS Frame,      \* frame ids, 0 .. replacer_size_ - 1
          Page,       \* page ids
          NoFrame     \* std::nullopt

ASSUME FrameAssumption == IsFiniteSet(Frame) /\ NoFrame \notin Frame

replacer_size == Cardinality(Frame)

VARIABLES mru, mfu,               \* resident frames, the newest first
          mru_ghost, mfu_ghost,   \* pages evicted from mru and mfu, the newest first
          alive_map,              \* the FrameStatus of each resident frame
          ghost_map,              \* the list each ghost page is in
          curr_size,              \* the number of evictable frames
          mru_target_size,        \* the target length of mru
          victim                  \* what the last Evict() answered

lists == <<mru, mfu, mru_ghost, mfu_ghost>>
vars  == <<lists, alive_map, ghost_map, curr_size, mru_target_size, victim>>

FrameStatus == [page : Page, evictable : BOOLEAN, arc_status : {"MRU", "MFU"}]

Alive == DOMAIN alive_map
Ghost == DOMAIN ghost_map

(* A map without one key, and with one key set. *)
Without(m, k) == [x \in DOMAIN m \ {k} |-> m[x]]
With(m, k, v) == [x \in DOMAIN m \union {k} |-> IF x = k THEN v ELSE m[x]]

Least(a, b) == IF a <= b THEN a ELSE b

\* The place the stored list iterator of an element points to.
At(list, i, x) == i \in 1..Len(list) /\ list[i] = x

-----------------------------------------------------------------------------
Init ==
    /\ mru = <<>> /\ mfu = <<>>
    /\ mru_ghost = <<>> /\ mfu_ghost = <<>>
    /\ alive_map = <<>>
    /\ ghost_map = <<>>
    /\ curr_size = 0
    /\ mru_target_size = 0
    /\ victim = NoFrame

-----------------------------------------------------------------------------
(* Evict: the oldest evictable frame of the preferred list, or else of the *)
(* other one.                                                              *)

IsVictim(list, i) ==
    /\ i \in 1..Len(list)
    /\ alive_map[list[i]].evictable
    /\ \A j \in i+1..Len(list) : ~alive_map[list[j]].evictable

HasVictim(list) == \E i \in 1..Len(list) : alive_map[list[i]].evictable

PreferMru == Len(mru) >= mru_target_size

\* The frame leaves the resident lists, its page enters the ghost list `status`.
ToGhost(f, status) ==
    /\ victim' = f
    /\ alive_map' = Without(alive_map, f)
    /\ ghost_map' = With(ghost_map, alive_map[f].page, status)
    /\ curr_size' = curr_size - 1
    /\ UNCHANGED mru_target_size

EvictMru ==
    /\ curr_size # 0
    /\ ~PreferMru => ~HasVictim(mfu)
    /\ \E i \in 1..Len(mru) :
          /\ IsVictim(mru, i)
          /\ ToGhost(mru[i], "MRU_GHOST")
          /\ mru' = S!RemoveAt(mru, i)
          /\ mru_ghost' = <<alive_map[mru[i]].page>> \o mru_ghost
    /\ UNCHANGED <<mfu, mfu_ghost>>

EvictMfu ==
    /\ curr_size # 0
    /\ PreferMru => ~HasVictim(mru)
    /\ \E i \in 1..Len(mfu) :
          /\ IsVictim(mfu, i)
          /\ ToGhost(mfu[i], "MFU_GHOST")
          /\ mfu' = S!RemoveAt(mfu, i)
          /\ mfu_ghost' = <<alive_map[mfu[i]].page>> \o mfu_ghost
    /\ UNCHANGED <<mru, mru_ghost>>

EvictNothing ==
    /\ ~(curr_size # 0 /\ (HasVictim(mru) \/ HasVictim(mfu)))
    /\ victim' = NoFrame
    /\ UNCHANGED <<lists, alive_map, ghost_map, curr_size, mru_target_size>>

-----------------------------------------------------------------------------
(* RecordAccess, in its three cases. *)

\* The resident frame moves to the front of mfu.
Promote(f) ==
    IF alive_map[f].arc_status = "MRU"
    THEN \E i \in 1..Len(mru) : /\ At(mru, i, f)
                                /\ mru' = S!RemoveAt(mru, i)
                                /\ mfu' = <<f>> \o mfu
    ELSE \E i \in 1..Len(mfu) : /\ At(mfu, i, f)
                                /\ mfu' = <<f>> \o S!RemoveAt(mfu, i)
                                /\ mru' = mru

\* Variant: the promoted frame also becomes not evictable, curr_size_ unchanged.
AccessAlivePinning(f) ==
    /\ f \in Alive
    /\ Promote(f)
    /\ alive_map' = [alive_map EXCEPT ![f].arc_status = "MFU", ![f].evictable = FALSE]
    /\ UNCHANGED <<mru_ghost, mfu_ghost, ghost_map, curr_size, mru_target_size, victim>>

\* A resident page is promoted; it stays as evictable as it was.
AccessAlive(f) ==
    /\ f \in Alive
    /\ Promote(f)
    /\ alive_map' = [alive_map EXCEPT ![f].arc_status = "MFU"]
    /\ UNCHANGED <<mru_ghost, mfu_ghost, ghost_map, curr_size, mru_target_size, victim>>

Resident(f, p, status) ==
    alive_map' = With(alive_map, f, [page |-> p, evictable |-> FALSE, arc_status |-> status])

\* The new target when a page of mru_ghost comes back.
Raised ==
    LET step == IF Len(mru_ghost) >= Len(mfu_ghost) THEN 1
                ELSE Len(mfu_ghost) \div Len(mru_ghost)
    IN  Least(mru_target_size + step, replacer_size)

\* The new target when a page of mfu_ghost comes back: there is no branch for
\* a longer mru_ghost.
Lowered ==
    IF Len(mfu_ghost) >= Len(mru_ghost) /\ mru_target_size > 0
    THEN mru_target_size - 1
    ELSE mru_target_size

\* Variant: the entry stays in ghost_map_.
KeepGhost(p) == ghost_map' = ghost_map

EraseGhost(p) == ghost_map' = Without(ghost_map, p)

AccessGhost(f, p) ==
    /\ f \notin Alive
    /\ p \in Ghost
    /\ IF ghost_map[p] = "MRU_GHOST"
       THEN /\ mru_target_size' = Raised
            /\ \E i \in 1..Len(mru_ghost) : /\ At(mru_ghost, i, p)
                                            /\ mru_ghost' = S!RemoveAt(mru_ghost, i)
            /\ UNCHANGED mfu_ghost
       ELSE /\ mru_target_size' = Lowered
            /\ \E i \in 1..Len(mfu_ghost) : /\ At(mfu_ghost, i, p)
                                            /\ mfu_ghost' = S!RemoveAt(mfu_ghost, i)
            /\ UNCHANGED mru_ghost
    /\ EraseGhost(p)
    /\ mfu' = <<f>> \o mfu
    /\ Resident(f, p, "MFU")
    /\ UNCHANGED <<mru, curr_size, victim>>

HistoryFull == Len(mru) + Len(mru_ghost) = replacer_size
TotalFull   == Len(mru) + Len(mru_ghost) + Len(mfu) + Len(mfu_ghost) = 2 * replacer_size

\* Variant: mru_ghost is never trimmed.
NoTrim == FALSE

TrimsMruGhost == HistoryFull /\ mru_ghost # <<>>
TrimsMfuGhost == ~HistoryFull /\ TotalFull /\ mfu_ghost # <<>>

Last1(s) == s[Len(s)]

\* A page in none of the lists: forget the oldest page of a full history, enter mru.
AccessMiss(f, p) ==
    /\ f \notin Alive
    /\ p \notin Ghost
    /\ mru_ghost' = IF TrimsMruGhost THEN S!Front(mru_ghost) ELSE mru_ghost
    /\ mfu_ghost' = IF TrimsMfuGhost THEN S!Front(mfu_ghost) ELSE mfu_ghost
    /\ IF TrimsMruGhost THEN EraseGhost(Last1(mru_ghost))
       ELSE IF TrimsMfuGhost THEN EraseGhost(Last1(mfu_ghost))
       ELSE UNCHANGED ghost_map
    /\ mru' = <<f>> \o mru
    /\ Resident(f, p, "MRU")
    /\ UNCHANGED <<mfu, curr_size, mru_target_size, victim>>

\* The pairs a caller may give: a resident frame with its page, and a frame
\* that is not resident with a page that is not.
ValidAccess(f, p) ==
    IF f \in Alive THEN alive_map[f].page = p
    ELSE \A g \in Alive : alive_map[g].page # p

RecordAccess(f, p) ==
    /\ ValidAccess(f, p)
    /\ \/ AccessAlive(f)
       \/ AccessGhost(f, p)
       \/ AccessMiss(f, p)

-----------------------------------------------------------------------------
\* Variant: the counter moves on every call, also when the flag does not.
SetEvictableCountingCalls(f, b) ==
    /\ f \in Alive
    /\ alive_map' = [alive_map EXCEPT ![f].evictable = b]
    /\ curr_size' = IF b THEN curr_size + 1 ELSE curr_size - 1
    /\ UNCHANGED <<lists, ghost_map, mru_target_size, victim>>

SetEvictable(f, b) ==
    /\ IF f \in Alive /\ alive_map[f].evictable # b
       THEN /\ alive_map' = [alive_map EXCEPT ![f].evictable = b]
            /\ curr_size' = IF b THEN curr_size + 1 ELSE curr_size - 1
       ELSE UNCHANGED <<alive_map, curr_size>>
    /\ UNCHANGED <<lists, ghost_map, mru_target_size, victim>>

\* Variant: the frame stays in its list.
RemoveFromMapOnly(f) ==
    /\ f \in Alive
    /\ alive_map[f].evictable
    /\ alive_map' = Without(alive_map, f)
    /\ curr_size' = curr_size - 1
    /\ UNCHANGED <<lists, ghost_map, mru_target_size, victim>>

\* The assertion of the code, that the frame is evictable, is the callers' duty.
Remove(f) ==
    /\ f \in Alive
    /\ alive_map[f].evictable
    /\ IF alive_map[f].arc_status = "MRU"
       THEN /\ \E i \in 1..Len(mru) : At(mru, i, f) /\ mru' = S!RemoveAt(mru, i)
            /\ UNCHANGED mfu
       ELSE /\ \E i \in 1..Len(mfu) : At(mfu, i, f) /\ mfu' = S!RemoveAt(mfu, i)
            /\ UNCHANGED mru
    /\ alive_map' = Without(alive_map, f)
    /\ curr_size' = curr_size - 1
    /\ UNCHANGED <<mru_ghost, mfu_ghost, ghost_map, mru_target_size, victim>>

-----------------------------------------------------------------------------
Next ==
    \/ EvictMru
    \/ EvictMfu
    \/ EvictNothing
    \/ \E f \in Frame, p \in Page : RecordAccess(f, p)
    \/ \E f \in Frame, b \in BOOLEAN : SetEvictable(f, b)
    \/ \E f \in Frame : Remove(f)

Spec == Init /\ [][Next]_vars

-----------------------------------------------------------------------------
(* Properties. *)

\* The types of the fields of the class; the target and the size stay within
\* replacer_size_, which size_t would not survive being exceeded from below.
TypeOK ==
    /\ mru \in Seq(Frame) /\ mfu \in Seq(Frame)
    /\ mru_ghost \in Seq(Page) /\ mfu_ghost \in Seq(Page)
    /\ Alive \subseteq Frame
    /\ \A f \in Alive : alive_map[f] \in FrameStatus
    /\ Ghost \subseteq Page
    /\ \A p \in Ghost : ghost_map[p] \in {"MRU_GHOST", "MFU_GHOST"}
    /\ curr_size \in 0..replacer_size
    /\ mru_target_size \in 0..replacer_size
    /\ victim \in Frame \union {NoFrame}

\* A list holds its members once, and they are those whose map entry names it:
\* the iterator a status keeps is always valid.
Holds(list, members) == S!IsInjective(list) /\ S!ToSet(list) = members

InList(status) == {f \in Alive : alive_map[f].arc_status = status}
InGhostList(status) == {p \in Ghost : ghost_map[p] = status}

\* Across promotion, eviction, ghost hits, trimming and removal the four lists and
\* the two maps agree (the iterators of FrameStatus never dangle, and no frame or
\* page is listed twice).
ListsMatchMaps ==
    /\ Holds(mru, InList("MRU"))
    /\ Holds(mfu, InList("MFU"))
    /\ Holds(mru_ghost, InGhostList("MRU_GHOST"))
    /\ Holds(mfu_ghost, InGhostList("MFU_GHOST"))

\* Size(): the counter that SetEvictable, Evict and Remove keep by hand is the
\* number of resident evictable frames, so Evict gives up only when none is left.
SizeCountsEvictable == curr_size = Cardinality({f \in Alive : alive_map[f].evictable})

\* Two resident frames never hold the same page, and a ghost page is not resident:
\* a hit in a ghost list really is a page that had been evicted.
GhostsAreNotResident ==
    /\ \A f, g \in Alive : alive_map[f].page = alive_map[g].page => f = g
    /\ \A f \in Alive : alive_map[f].page \notin Ghost

\* The bounds of the ARC directory, which RecordAccess keeps by trimming at the
\* equality only: a single overshoot would never be trimmed again.
DirectoryBounds ==
    /\ Len(mru) + Len(mru_ghost) <= replacer_size
    /\ Len(mru) + Len(mru_ghost) + Len(mfu) + Len(mfu_ghost) <= 2 * replacer_size

\* When a miss must trim a ghost list, that list is not empty: the emptiness tests
\* of RecordAccess never hide a broken invariant.
TrimFindsGhost ==
    \A f \in Frame \ Alive :
        /\ HistoryFull => mru_ghost # <<>>
        /\ ~HistoryFull /\ TotalFull => mfu_ghost # <<>>

\* A replacer as the buffer pool needs it.
Policy == INSTANCE Replacer WITH
    entry  <- [f \in Frame |-> IF f \notin Alive THEN "absent"
                               ELSE IF alive_map[f].evictable THEN "evictable" ELSE "pinned"],
    size   <- curr_size

\* ARC implements the replacer specification: whatever the lists and the target
\* do, callers see a set of frames of which any evictable one may be taken.
ImplementsReplacer == Policy!Spec

=============================================================================
