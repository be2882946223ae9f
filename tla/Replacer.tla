------------------------------ MODULE Replacer ------------------------------
(***************************************************************************)
(* What the buffer pool manager is promised by a page replacer: the set of *)
(* frames it tracks, which of them may be evicted, and a size that counts  *)
(* the evictable ones.  The policy (which evictable frame Evict picks) is  *)
(* left open.  ArcReplacer implements this specification, and BufferPool   *)
(* uses its operators in place of a concrete policy.                       *)
(***************************************************************************)
EXTENDS Naturals, FiniteSets

CONSTANTS Frame,      \* the frames of the pool, 0 .. num_frames - 1
          NoFrame     \* std::nullopt, the answer of an Evict that finds no victim

VARIABLES entry,      \* what is known of each frame
          size,       \* what Size() answers
          victim      \* what the last Evict() answered

rvars == <<entry, size, victim>>

Status == {"absent", "pinned", "evictable"}

Evictable(e) == {f \in Frame : e[f] = "evictable"}

-----------------------------------------------------------------------------
(* The effect of each call on the tracked frames, as operators, so that a  *)
(* caller that makes several calls in one critical section composes them.  *)

Recorded(e, f) ==
    IF e[f] = "absent" THEN [e EXCEPT ![f] = "pinned"] ELSE e

WithEvictable(e, f, b) ==
    IF e[f] = "absent" THEN e
    ELSE [e EXCEPT ![f] = IF b THEN "evictable" ELSE "pinned"]

Forgotten(e, f) == [e EXCEPT ![f] = "absent"]

-----------------------------------------------------------------------------
Init ==
    /\ entry = [f \in Frame |-> "absent"]
    /\ size = 0
    /\ victim = NoFrame

Change(e, v) ==
    /\ entry' = e
    /\ size' = Cardinality(Evictable(e))
    /\ victim' = v

RecordAccess(f) == Change(Recorded(entry, f), victim)

SetEvictable(f, b) == Change(WithEvictable(entry, f, b), victim)

\* Only an evictable frame may be removed.
Remove(f) ==
    /\ entry[f] = "evictable"
    /\ Change(Forgotten(entry, f), victim)

\* Any evictable frame may be the victim; there is none only if no frame is evictable.
Evict ==
    \/ \E f \in Evictable(entry) : Change(Forgotten(entry, f), f)
    \/ /\ Evictable(entry) = {}
       /\ Change(entry, NoFrame)

Next ==
    \/ \E f \in Frame : RecordAccess(f)
    \/ \E f \in Frame, b \in BOOLEAN : SetEvictable(f, b)
    \/ \E f \in Frame : Remove(f)
    \/ Evict

Spec == Init /\ [][Next]_rvars
=============================================================================
