-------------------------- MODULE BufferPoolProofs --------------------------
(***************************************************************************)
(* The safety of BufferPool for every number of threads, frames and pages, *)
(* every nesting of guards and every bound.                                *)
(***************************************************************************)
EXTENDS BufferPool, TLAPS, FiniteSetTheorems, FunctionTheorems, SequenceTheorems

-----------------------------------------------------------------------------
(* The inductive invariant. *)

\* A thread has one guard on a page, asks for no page it guards, and flushes a
\* guard it holds.
CallersInv ==
    \A t \in Thread :
        /\ \A g, h \in guards[t] : g.page = h.page => g = h
        /\ at[t].step \in {"fetch", "latching"} => \A g \in guards[t] : g.page # at[t].page
        /\ at[t].step = "written" => at[t].guard \in guards[t]

\* A flush holds bpm_latch_, so the pages it has to do stay resident.
FlushersInv ==
    \A t \in Thread : at[t].step = "flushing" =>
        /\ bpm_latch = t
        /\ \A p \in at[t].todo : Resident(p)

\* A pinned frame is tracked, as not evictable: EvictableUnpinned, for free frames too.
PinnedTracked == \A f \in Frame : entry[f] # "pinned" => frames[f].pin = 0

IInv ==
    /\ TypeOK
    /\ OneHome
    /\ PinsCounted
    /\ PinnedTracked
    /\ GuardedPagesStay
    /\ CallersInv
    /\ FlushersInv

-----------------------------------------------------------------------------
(* Types of the steps of a thread. *)

LEMMA StepFields ==
    ASSUME NEW s \in Step
    PROVE  /\ s.step = "fetch" => s.page \in Page /\ s.mode \in Mode
           /\ s.step = "latching" => s.page \in Page /\ s.frame \in Frame /\ s.mode \in Mode
           /\ s.step = "written" => s.guard \in Guard
           /\ s.step \in {"dropped", "unpinned"} => s.frame \in Frame
           /\ s.step = "flushing" => s.todo \in SUBSET Page
  BY DEF Step, Idle

LEMMA StepIn ==
    /\ Idle \in Step /\ Idle.step = "idle"
    /\ \A p \in Page, m \in Mode : [step |-> "fetch", page |-> p, mode |-> m] \in Step
    /\ \A p \in Page, m \in Mode, f \in Frame :
          [step |-> "latching", page |-> p, frame |-> f, mode |-> m] \in Step
    /\ \A g \in Guard : [step |-> "written", guard |-> g] \in Step
    /\ \A f \in Frame : [step |-> "dropped", frame |-> f] \in Step
    /\ \A f \in Frame : [step |-> "unpinned", frame |-> f] \in Step
    /\ \A todo \in SUBSET Page : [step |-> "flushing", todo |-> todo] \in Step
  BY DEF Step, Idle

LEMMA GoMoves ==
    ASSUME TypeOK, NEW t \in Thread, NEW next \in Step, Go(t, next)
    PROVE  /\ at' \in [Thread -> Step]
           /\ at'[t] = next
           /\ \A u \in Thread : u # t => at'[u] = at[u]
  BY DEF Go, TypeOK

\* Nobody flushes while bpm_latch_ is free.
LEMMA NoFlusher ==
    ASSUME IInv, bpm_latch = NoThread
    PROVE  \A t \in Thread : at[t].step # "flushing"
  BY NamesAssumption DEF IInv, FlushersInv

-----------------------------------------------------------------------------
(* Counting the pins of a frame. *)

LEMMA PageFacts == NoPage \notin Page /\ \A p \in Page : p \in Nat
  BY BoundsAssumption DEF Page, NoPage

LEMMA OneApart ==
    ASSUME NEW A, NEW B, NEW x, IsFiniteSet(A), A \ {x} = B \ {x}
    PROVE  /\ IsFiniteSet(B)
           /\ Cardinality(A) \in Nat
           /\ Cardinality(B) \in Nat
           /\ x \in A => Cardinality(A) # 0
           /\ x \in A /\ x \in B => Cardinality(B) = Cardinality(A)
           /\ x \notin A /\ x \notin B => Cardinality(B) = Cardinality(A)
           /\ x \in A /\ x \notin B => Cardinality(B) = Cardinality(A) - 1
           /\ x \notin A /\ x \in B => Cardinality(B) = Cardinality(A) + 1
<1> DEFINE C == A \ {x}
<1>1. IsFiniteSet(C) /\ Cardinality(C) \in Nat
  BY FS_Difference, FS_CardinalityType
<1>2. x \notin C /\ IsFiniteSet(C \cup {x}) /\ Cardinality(C \cup {x}) = Cardinality(C) + 1
  BY <1>1, FS_AddElement
<1>3. A = C \/ A = C \cup {x}
  OBVIOUS
<1>4. B = C \/ B = C \cup {x}
  OBVIOUS
<1>5. x \in A => A = C \cup {x}
  OBVIOUS
<1>6. x \in B => B = C \cup {x}
  OBVIOUS
<1>7. (x \notin A => A = C) /\ (x \notin B => B = C)
  OBVIOUS
<1>8. x \in A => Cardinality(A) = Cardinality(C) + 1
  BY <1>2, <1>5
<1>9. x \notin A => Cardinality(A) = Cardinality(C)
  BY <1>7
<1>10. x \in B => Cardinality(B) = Cardinality(C) + 1
  BY <1>2, <1>6
<1>11. x \notin B => Cardinality(B) = Cardinality(C)
  BY <1>7
<1>12. IsFiniteSet(B)
  BY <1>1, <1>2, <1>4
<1> HIDE DEF C
<1> QED BY <1>1, <1>8, <1>9, <1>10, <1>11, <1>12

LEMMA PinFacts ==
    ASSUME IInv, NEW f \in Frame
    PROVE  /\ IsFiniteSet(Guarding(f)) /\ Cardinality(Guarding(f)) \in Nat
           /\ IsFiniteSet(Passing(f)) /\ Cardinality(Passing(f)) \in Nat
           /\ frames[f].pin = 0 => Guarding(f) = {} /\ Passing(f) = {}
           /\ frames[f].pin \in Nat
<1>1. IsFiniteSet(Guarding(f)) /\ Cardinality(Guarding(f)) \in Nat
  BY NamesAssumption, FS_Subset, FS_CardinalityType DEF Guarding
<1>2. IsFiniteSet(Passing(f)) /\ Cardinality(Passing(f)) \in Nat
  BY NamesAssumption, FS_Subset, FS_CardinalityType DEF Passing
<1>3. frames[f].pin = Cardinality(Guarding(f)) + Cardinality(Passing(f))
  BY DEF IInv, PinsCounted
<1>4. frames[f].pin = 0 => Cardinality(Guarding(f)) = 0 /\ Cardinality(Passing(f)) = 0
  BY <1>1, <1>2, <1>3
<1> QED BY <1>1, <1>2, <1>3, <1>4, FS_EmptySet

\* Only thread t moves: what it does to the counts of a frame.
LEMMA CountMoves ==
    ASSUME IInv, NEW t \in Thread, NEW f \in Frame,
           \A u \in Thread : u # t => at'[u] = at[u] /\ guards'[u] = guards[u]
    PROVE  /\ Guarding(f) \ {t} = Guarding(f)' \ {t}
           /\ Passing(f) \ {t} = Passing(f)' \ {t}
  BY DEF Guarding, Passing

\* Neither the counts nor the guards of a frame change.
LEMMA SameCounts ==
    ASSUME IInv, NEW t \in Thread,
           \A u \in Thread : u # t => at'[u] = at[u],
           guards' = guards,
           \A f \in Frame : t \in Passing(f)' <=> t \in Passing(f),
           \A f \in Frame : frames'[f].pin = frames[f].pin
    PROVE  PinsCounted'
<1> SUFFICES ASSUME NEW f \in Frame
             PROVE  frames'[f].pin = Cardinality(Guarding(f)') + Cardinality(Passing(f)')
  BY DEF PinsCounted
<1>1. Guarding(f)' = Guarding(f)
  BY DEF Guarding
<1>2. Passing(f)' = Passing(f)
  BY CountMoves DEF Passing
<1> QED BY <1>1, <1>2 DEF IInv, PinsCounted

-----------------------------------------------------------------------------
(* Parts of the invariant that a step leaves alone. *)

LEMMA SameMaps ==
    ASSUME IInv, UNCHANGED maps,
           \A f \in Frame : entry'[f] = "absent" <=> entry[f] = "absent"
    PROVE  OneHome'
  BY DEF IInv, OneHome, InFree, maps

LEMMA SameFlushers ==
    ASSUME IInv, NEW t \in Thread, UNCHANGED <<page_table, bpm_latch>>,
           \A u \in Thread : u # t => at'[u] = at[u],
           at'[t].step # "flushing"
    PROVE  FlushersInv'
  BY DEF IInv, FlushersInv, Resident

\* A step under bpm_latch_ of a thread that does not flush.
LEMMA NoFlushers ==
    ASSUME IInv, NEW t \in Thread, bpm_latch = NoThread,
           \A u \in Thread : u # t => at'[u] = at[u],
           at'[t].step # "flushing"
    PROVE  FlushersInv'
  BY NoFlusher DEF FlushersInv

LEMMA SameCallers ==
    ASSUME IInv, NEW t \in Thread, guards' = guards,
           \A u \in Thread : u # t => at'[u] = at[u],
           at'[t].step \notin {"fetch", "latching", "written"}
    PROVE  CallersInv'
  BY DEF IInv, CallersInv

LEMMA SameGuarded ==
    ASSUME IInv, NEW t \in Thread, UNCHANGED <<guards, page_table>>,
           \A u \in Thread : u # t => at'[u] = at[u],
           at'[t].step = "latching" => page_table[at'[t].page] = at'[t].frame
    PROVE  GuardedPagesStay'
  BY DEF IInv, GuardedPagesStay

LEMMA SamePinned ==
    ASSUME IInv, entry' = entry,
           \A f \in Frame : frames'[f].pin = frames[f].pin
    PROVE  PinnedTracked'
  BY DEF IInv, PinnedTracked

-----------------------------------------------------------------------------
LEMMA InitInv == Init => IInv
<1> SUFFICES ASSUME Init PROVE IInv
  OBVIOUS
<1> DEFINE n == Cardinality(Frame)
<1>1. n \in Nat
  BY NamesAssumption, FS_CardinalityType
<1>2. free_frames \in [1..n -> Frame] /\ DOMAIN free_frames = 1..n
  BY DEF Init
<1>3. TypeOK
  <2>1. free_frames \in Seq(Frame)
    BY <1>1, <1>2, SeqDef
  <2>2. next_page_id \in 0..MaxPages
    BY BoundsAssumption DEF Init
  <2>3. /\ page_table \in [Page -> Frame \cup {NoFrame}]
        /\ frame_to_page \in [Frame -> Page \cup {NoPage}]
        /\ entry \in [Frame -> R!Status]
        /\ bpm_latch \in Thread \cup {NoThread}
        /\ deallocated \in SUBSET Page
        /\ aborted \in BOOLEAN
    BY DEF Init, R!Status
  <2>4. frames \in [Frame -> [data : SUBSET Change, pin : Nat, dirty : BOOLEAN]]
    BY DEF Init
  <2>5. /\ disk \in [Page -> SUBSET Change]
        /\ guards \in [Thread -> SUBSET Guard]
        /\ latest \in [Page -> SUBSET Change]
    BY DEF Init
  <2>6. at \in [Thread -> Step]
    BY StepIn DEF Init
  <2> QED BY <2>1, <2>2, <2>3, <2>4, <2>5, <2>6 DEF TypeOK
<1>4. \A f \in Frame : InFree(f)
  <2>1. free_frames \in Injection(1..n, Frame)
    <3>1. \A i, j \in DOMAIN free_frames : free_frames[i] = free_frames[j] => i = j
      BY DEF Init
    <3> QED BY <1>2, <3>1, Zenon DEF Injection, IsInjective
  <2>2. Cardinality(1..n) = n /\ IsFiniteSet(1..n)
    BY <1>1, FS_Interval
  <2>3. free_frames \in Surjection(1..n, Frame)
    BY <2>1, <2>2, NamesAssumption, FS_Injection
  <2>4. \A f \in Frame : \E i \in 1..n : free_frames[i] = f
    BY <2>3, Zenon DEF Surjection
  <2> QED BY <1>2, <2>4 DEF InFree
<1>5. OneHome
  <2>1. /\ \A p \in Page : page_table[p] = NoFrame
        /\ \A f \in Frame : frame_to_page[f] = NoPage /\ entry[f] = "absent"
        /\ \A i, j \in DOMAIN free_frames : free_frames[i] = free_frames[j] => i = j
    BY DEF Init
  <2> QED BY <1>4, <2>1, PageFacts, NamesAssumption DEF OneHome
<1>6. PinsCounted
  <2> SUFFICES ASSUME NEW f \in Frame
               PROVE  frames[f].pin = Cardinality(Guarding(f)) + Cardinality(Passing(f))
    BY DEF PinsCounted
  <2>1. Guarding(f) = {} /\ Passing(f) = {}
    BY StepIn DEF Init, Guarding, Passing
  <2>2. frames[f].pin = 0
    BY DEF Init
  <2>3. Cardinality({}) = 0
    BY FS_EmptySet
  <2> QED BY <2>1, <2>2, <2>3
<1>7. PinnedTracked /\ GuardedPagesStay /\ CallersInv /\ FlushersInv
  <2>1. /\ \A f \in Frame : frames[f].pin = 0
        /\ \A t \in Thread : guards[t] = {} /\ at[t] = Idle
    BY DEF Init
  <2> QED BY <2>1, StepIn DEF PinnedTracked, GuardedPagesStay, CallersInv, FlushersInv
<1> QED BY <1>3, <1>5, <1>6, <1>7 DEF IInv

LEMMA NewPageInv ==
    ASSUME IInv, NEW t \in Thread, NewPage(t)
    PROVE  IInv'
<1> USE DEF NewPage
<1>1. TypeOK'
  BY BoundsAssumption DEF IInv, TypeOK, maps
<1>2. OneHome'
  BY SameMaps
<1>3. PinsCounted'
  BY DEF IInv, PinsCounted, Guarding, Passing
<1>4. PinnedTracked'
  BY SamePinned
<1>5. GuardedPagesStay' /\ CallersInv' /\ FlushersInv'
  BY DEF IInv, GuardedPagesStay, CallersInv, FlushersInv, Resident, maps
<1> QED BY <1>1, <1>2, <1>3, <1>4, <1>5 DEF IInv

LEMMA CallFetchInv ==
    ASSUME IInv, NEW t \in Thread, NEW p \in Page, NEW mode \in Mode, CallFetch(t, p, mode)
    PROVE  IInv'
<1> DEFINE next == [step |-> "fetch", page |-> p, mode |-> mode]
<1>1. /\ at' \in [Thread -> Step] /\ at'[t] = next
      /\ \A u \in Thread : u # t => at'[u] = at[u]
  BY StepIn, GoMoves DEF CallFetch, IInv
<1>2. at[t] = Idle /\ at[t].step = "idle"
  BY StepIn DEF CallFetch, CanCall
<1>3. UNCHANGED <<maps, frames, entry, bpm_latch, guards, page_table>>
  BY DEF CallFetch, maps
<1>4. TypeOK'
  BY <1>1 DEF IInv, TypeOK, CallFetch, maps
<1>5. OneHome' /\ PinnedTracked'
  BY <1>3, SameMaps, SamePinned
<1>6. PinsCounted'
  <2>1. \A f \in Frame : t \in Passing(f)' <=> t \in Passing(f)
    BY <1>1, <1>2 DEF Passing
  <2> QED BY <1>1, <1>3, <2>1, SameCounts
<1>7. GuardedPagesStay' /\ FlushersInv'
  BY <1>1, <1>3, SameGuarded, SameFlushers
<1>8. CallersInv'
  <2>1. \A g \in guards[t] : g.page # p
    BY PageFacts DEF CallFetch, IInv, TypeOK, Guard
  <2> QED BY <1>1, <1>3, <2>1 DEF IInv, CallersInv
<1> QED BY <1>4, <1>5, <1>6, <1>7, <1>8 DEF IInv

LEMMA FetchHitInv ==
    ASSUME IInv, NEW t \in Thread, FetchHit(t)
    PROVE  IInv'
<1> DEFINE p == at[t].page
           f == page_table[p]
           next == [step |-> "latching", page |-> p, frame |-> f, mode |-> at[t].mode]
<1>1. /\ at[t].step = "fetch" /\ bpm_latch = NoThread
      /\ p \in Page /\ at[t].mode \in Mode /\ f \in Frame
  BY StepFields DEF FetchHit, Fetching, Critical, IInv, TypeOK, Resident
<1>2. /\ at' \in [Thread -> Step] /\ at'[t] = next
      /\ \A u \in Thread : u # t => at'[u] = at[u]
  BY <1>1, StepIn, GoMoves DEF FetchHit, GoLatching, IInv
<1>3. UNCHANGED <<page_table, frame_to_page, free_frames, maps, bpm_latch, next_page_id,
                  disk, deallocated, guards, aborted, latest>>
  BY DEF FetchHit, Fetching, maps
<1>4. entry[f] # "absent"
  BY <1>1, PageFacts DEF IInv, OneHome
<1>5. /\ entry' \in [Frame -> R!Status]
      /\ entry'[f] = "pinned"
      /\ \A e \in Frame : e # f => entry'[e] = entry[e]
  BY <1>1, <1>4 DEF FetchHit, IInv, TypeOK, R!Recorded, R!WithEvictable, R!Status
<1>6. /\ frames' \in [Frame -> [data : SUBSET Change, pin : Nat, dirty : BOOLEAN]]
      /\ frames'[f].pin = frames[f].pin + 1
      /\ \A e \in Frame : e # f => frames'[e] = frames[e]
  <2>1. frames' = [frames EXCEPT ![f].pin = @ + 1]
    BY DEF FetchHit
  <2>2. frames \in [Frame -> [data : SUBSET Change, pin : Nat, dirty : BOOLEAN]]
    BY DEF IInv, TypeOK
  <2> QED BY <1>1, <2>1, <2>2
<1>7. TypeOK'
  BY <1>2, <1>3, <1>5, <1>6 DEF IInv, TypeOK
<1>8. OneHome'
  BY <1>3, <1>4, <1>5, SameMaps
<1>9. PinsCounted'
  <2> SUFFICES ASSUME NEW e \in Frame
               PROVE  frames'[e].pin = Cardinality(Guarding(e)') + Cardinality(Passing(e)')
    BY DEF PinsCounted
  <2>1. Guarding(e)' = Guarding(e)
    BY <1>3 DEF Guarding
  <2>2. Passing(e) \ {t} = Passing(e)' \ {t}
    BY <1>2, <1>3, CountMoves
  <2>3. t \notin Passing(e) /\ (t \in Passing(e)' <=> e = f)
    BY <1>1, <1>2 DEF Passing
  <2>4. Cardinality(Passing(e)') = IF e = f THEN Cardinality(Passing(e)) + 1
                                   ELSE Cardinality(Passing(e))
    BY <2>2, <2>3, OneApart, PinFacts
  <2> QED BY <1>6, <2>1, <2>4, PinFacts DEF IInv, PinsCounted
<1>10. PinnedTracked'
  BY <1>5, <1>6 DEF IInv, PinnedTracked
<1>11. GuardedPagesStay' /\ FlushersInv'
  BY <1>2, <1>3, SameGuarded, SameFlushers
<1>12. CallersInv'
  BY <1>1, <1>2, <1>3 DEF IInv, CallersInv
<1> QED BY <1>7, <1>8, <1>9, <1>10, <1>11, <1>12 DEF IInv

\* What FetchFree and FetchEvict have in common: a page that was not resident is read
\* into an unpinned frame.
LEMMA LoadInv ==
    ASSUME IInv, NEW t \in Thread, NEW f \in Frame,
           at[t].step = "fetch", bpm_latch = NoThread, UNCHANGED guards,
           GoLatching(t, f), ~Resident(at[t].page),
           frames[f].pin = 0, frames'[f].pin = 1,
           \A e \in Frame : e # f => frames'[e] = frames[e] /\ entry'[e] = entry[e],
           entry'[f] = "pinned",
           page_table'[at[t].page] = f,
           \A p \in Page : p # at[t].page /\ page_table[p] # f => page_table'[p] = page_table[p]
    PROVE  /\ at' \in [Thread -> Step]
           /\ PinsCounted' /\ PinnedTracked' /\ GuardedPagesStay' /\ CallersInv' /\ FlushersInv'
<1> DEFINE p == at[t].page
           next == [step |-> "latching", page |-> p, frame |-> f, mode |-> at[t].mode]
<1>1. p \in Page /\ at[t].mode \in Mode
  BY StepFields DEF IInv, TypeOK
<1>2. /\ at' \in [Thread -> Step] /\ at'[t] = next
      /\ \A u \in Thread : u # t => at'[u] = at[u]
  BY <1>1, StepIn, GoMoves DEF GoLatching, IInv
<1>3. Guarding(f) = {} /\ Passing(f) = {}
  BY PinFacts
<1>4. PinsCounted'
  <2> SUFFICES ASSUME NEW e \in Frame
               PROVE  frames'[e].pin = Cardinality(Guarding(e)') + Cardinality(Passing(e)')
    BY DEF PinsCounted
  <2>1. Guarding(e)' = Guarding(e)
    BY DEF Guarding
  <2>2. Passing(e) \ {t} = Passing(e)' \ {t}
    BY <1>2, CountMoves
  <2>3. t \notin Passing(e) /\ (t \in Passing(e)' <=> e = f)
    BY <1>2 DEF Passing
  <2>4. Cardinality(Passing(e)') = IF e = f THEN Cardinality(Passing(e)) + 1
                                   ELSE Cardinality(Passing(e))
    BY <2>2, <2>3, OneApart, PinFacts
  <2>5. frames[e].pin = Cardinality(Guarding(e)) + Cardinality(Passing(e))
    BY DEF IInv, PinsCounted
  <2>6. frames'[e].pin = IF e = f THEN frames[e].pin + 1 ELSE frames[e].pin
    OBVIOUS
  <2> QED BY <2>1, <2>4, <2>5, <2>6, PinFacts
<1>5. PinnedTracked'
  BY DEF IInv, PinnedTracked
<1>6. GuardedPagesStay'
  <2>1. ASSUME NEW u \in Thread, NEW g \in guards[u]
        PROVE  page_table'[g.page] = g.frame
    <3>1. g \in Guard /\ page_table[g.page] = g.frame
      BY DEF IInv, TypeOK, GuardedPagesStay
    <3>2. g.page \in Page /\ g.frame \in Frame
      BY <3>1 DEF Guard
    <3>3. g.frame # f
      BY <1>3 DEF Guarding
    <3>4. g.page # p
      BY <3>1, <3>2, NamesAssumption DEF Resident
    <3> QED BY <3>1, <3>2, <3>3, <3>4
  <2>2. ASSUME NEW u \in Thread, at'[u].step = "latching"
        PROVE  page_table'[at'[u].page] = at'[u].frame
    <3>1. CASE u = t
      BY <3>1, <1>2
    <3>2. CASE u # t
      <4>1. at'[u] = at[u] /\ at[u] \in Step
        BY <3>2, <1>2 DEF IInv, TypeOK
      <4>2. at[u].page \in Page /\ at[u].frame \in Frame
        BY <4>1, <2>2, StepFields
      <4>3. page_table[at[u].page] = at[u].frame
        BY <4>1, <2>2 DEF IInv, GuardedPagesStay
      <4>4. at[u].frame # f
        BY <1>3, <4>1, <2>2 DEF Passing
      <4>5. at[u].page # p
        BY <4>2, <4>3, NamesAssumption DEF Resident
      <4> QED BY <4>1, <4>2, <4>3, <4>4, <4>5
    <3> QED BY <3>1, <3>2
  <2> QED BY <2>1, <2>2 DEF IInv, GuardedPagesStay
<1>7. CallersInv'
  BY <1>2 DEF IInv, CallersInv
<1>8. FlushersInv'
  BY <1>2, NoFlushers
<1> QED BY <1>2, <1>4, <1>5, <1>6, <1>7, <1>8

LEMMA FetchFreeInv ==
    ASSUME IInv, NEW t \in Thread, FetchFree(t)
    PROVE  IInv'
<1> DEFINE p == at[t].page
           f == Head(free_frames)
<1>1. /\ at[t].step = "fetch" /\ bpm_latch = NoThread
      /\ p \in Page /\ ~Resident(p) /\ free_frames # <<>> /\ free_frames \in Seq(Frame)
  BY StepFields DEF FetchFree, Fetching, Critical, IInv, TypeOK
<1>2. /\ f \in Frame /\ f = free_frames[1] /\ Len(free_frames) \in Nat /\ Len(free_frames) >= 1
      /\ DOMAIN free_frames = 1..Len(free_frames)
      /\ free_frames' \in Seq(Frame)
      /\ DOMAIN free_frames' = 1..Len(free_frames) - 1
      /\ \A i \in 1..Len(free_frames) - 1 : free_frames'[i] = free_frames[i+1]
  <2>1. free_frames' = Tail(free_frames)
    BY DEF FetchFree
  <2> QED BY <1>1, <2>1, HeadTailProperties, LenProperties, EmptySeq
<1>3. InFree(f) /\ frame_to_page[f] = NoPage /\ entry[f] = "absent"
  BY <1>2 DEF InFree, IInv, OneHome
<1>4. frames[f].pin = 0
  BY <1>2, <1>3 DEF IInv, PinnedTracked
<1>5. /\ frames' = [frames EXCEPT ![f] = [data |-> disk[p], pin |-> 1, dirty |-> frames[f].dirty]]
      /\ entry' = R!WithEvictable(R!Recorded(entry, f), f, FALSE)
      /\ frame_to_page' = [frame_to_page EXCEPT ![f] = p]
      /\ page_table' = [page_table EXCEPT ![p] = f]
      /\ GoLatching(t, f)
      /\ UNCHANGED <<bpm_latch, next_page_id, disk, deallocated, guards, aborted, latest>>
  BY DEF FetchFree, Fetching, Load
<1>6. /\ entry' \in [Frame -> R!Status] /\ entry'[f] = "pinned"
      /\ \A e \in Frame : e # f => entry'[e] = entry[e]
  BY <1>2, <1>3, <1>5 DEF IInv, TypeOK, R!Recorded, R!WithEvictable, R!Status
<1>7. /\ frames' \in [Frame -> [data : SUBSET Change, pin : Nat, dirty : BOOLEAN]]
      /\ frames'[f].pin = 1
      /\ \A e \in Frame : e # f => frames'[e] = frames[e]
  <2>1. /\ frames \in [Frame -> [data : SUBSET Change, pin : Nat, dirty : BOOLEAN]]
        /\ disk \in [Page -> SUBSET Change]
    BY DEF IInv, TypeOK
  <2> QED BY <1>1, <1>2, <1>5, <2>1
<1>8. /\ page_table' \in [Page -> Frame \cup {NoFrame}]
      /\ page_table'[p] = f
      /\ \A q \in Page : q # p => page_table'[q] = page_table[q]
      /\ frame_to_page' \in [Frame -> Page \cup {NoPage}]
      /\ frame_to_page'[f] = p
      /\ \A e \in Frame : e # f => frame_to_page'[e] = frame_to_page[e]
  BY <1>1, <1>2, <1>5 DEF IInv, TypeOK
<1>9. /\ at' \in [Thread -> Step]
      /\ PinsCounted' /\ PinnedTracked' /\ GuardedPagesStay' /\ CallersInv' /\ FlushersInv'
  <2>1. \A q \in Page : q # at[t].page /\ page_table[q] # f => page_table'[q] = page_table[q]
    BY <1>8
  <2>2. /\ page_table'[at[t].page] = f /\ UNCHANGED guards /\ GoLatching(t, f)
        /\ \A e \in Frame : e # f => frames'[e] = frames[e] /\ entry'[e] = entry[e]
    BY <1>5, <1>6, <1>7, <1>8
  <2> QED BY <1>1, <1>2, <1>4, <1>6, <1>7, <2>1, <2>2, LoadInv
<1>10. TypeOK'
  BY <1>2, <1>5, <1>6, <1>7, <1>8, <1>9 DEF IInv, TypeOK
<1>11. \A e \in Frame : InFree(e)' <=> InFree(e) /\ e # f
  <2>1. ASSUME NEW e \in Frame, InFree(e)' PROVE InFree(e) /\ e # f
    <3>1. PICK i \in 1..Len(free_frames) - 1 : free_frames'[i] = e
      BY <2>1, <1>2 DEF InFree
    <3>2. i + 1 \in 1..Len(free_frames) /\ 1 \in 1..Len(free_frames) /\ i + 1 # 1
      BY <1>2
    <3>3. free_frames[i+1] = e
      BY <3>1, <1>2
    <3>4. free_frames[i+1] # free_frames[1]
      BY <3>2, <1>2 DEF IInv, OneHome
    <3> QED BY <3>2, <3>3, <3>4, <1>2 DEF InFree
  <2>2. ASSUME NEW e \in Frame, InFree(e), e # f PROVE InFree(e)'
    <3>1. PICK i \in 1..Len(free_frames) : free_frames[i] = e
      BY <2>2, <1>2 DEF InFree
    <3>2. i # 1
      BY <3>1, <2>2, <1>2
    <3>3. i - 1 \in 1..Len(free_frames) - 1 /\ (i - 1) + 1 = i
      BY <3>2, <1>2
    <3> QED BY <3>1, <3>3, <1>2 DEF InFree
  <2> QED BY <2>1, <2>2
<1>12. OneHome'
  <2>1. \A q \in Page, e \in Frame : page_table'[q] = e <=> frame_to_page'[e] = q
    <3> SUFFICES ASSUME NEW q \in Page, NEW e \in Frame
                 PROVE  page_table'[q] = e <=> frame_to_page'[e] = q
      OBVIOUS
    <3>1. page_table[q] = e <=> frame_to_page[e] = q
      BY DEF IInv, OneHome
    <3>2. page_table[q] # f
      BY <1>2, <1>3, PageFacts DEF IInv, OneHome
    <3>3. frame_to_page[e] # p
      BY <1>1, NamesAssumption DEF IInv, OneHome, Resident
    <3> QED BY <1>8, <3>1, <3>2, <3>3
  <2>2. \A i, j \in DOMAIN free_frames' : free_frames'[i] = free_frames'[j] => i = j
    <3> SUFFICES ASSUME NEW i \in 1..Len(free_frames) - 1, NEW j \in 1..Len(free_frames) - 1,
                        free_frames'[i] = free_frames'[j]
                 PROVE  i = j
      BY <1>2
    <3>1. i + 1 \in 1..Len(free_frames) /\ j + 1 \in 1..Len(free_frames)
      BY <1>2
    <3>2. i + 1 = j + 1
      BY <3>1, <1>2 DEF IInv, OneHome
    <3> QED BY <3>2
  <2>3. \A e \in Frame : InFree(e)' <=> frame_to_page'[e] = NoPage
    BY <1>1, <1>8, <1>11, PageFacts DEF IInv, OneHome
  <2>4. \A e \in Frame : InFree(e)' <=> entry'[e] = "absent"
    BY <1>6, <1>11 DEF IInv, OneHome
  <2> QED BY <2>1, <2>2, <2>3, <2>4 DEF OneHome
<1> QED BY <1>9, <1>10, <1>12 DEF IInv

LEMMA FetchEvictInv ==
    ASSUME IInv, NEW t \in Thread, NEW f \in Frame, FetchEvict(t, f)
    PROVE  IInv'
<1> DEFINE p == at[t].page
<1>1. /\ at[t].step = "fetch" /\ bpm_latch = NoThread
      /\ p \in Page /\ ~Resident(p)
  BY StepFields DEF FetchEvict, Fetching, Critical, IInv, TypeOK
<1>2. entry[f] = "evictable" /\ frames[f].pin = 0 /\ frame_to_page[f] # NoPage /\ ~InFree(f)
  BY DEF FetchEvict, R!Evictable, IInv, PinnedTracked, OneHome
<1>3. /\ frames' = [frames EXCEPT ![f] = [data |-> WrittenBack(f)[p], pin |-> 1, dirty |-> FALSE]]
      /\ entry' = R!WithEvictable(R!Recorded(R!Forgotten(entry, f), f), f, FALSE)
      /\ frame_to_page' = [frame_to_page EXCEPT ![f] = p]
      /\ page_table' = [q \in Page |-> IF q = p THEN f
                                       ELSE IF q = frame_to_page[f] THEN NoFrame
                                       ELSE page_table[q]]
      /\ GoLatching(t, f)
      /\ disk' = WrittenBack(f)
      /\ UNCHANGED <<free_frames, bpm_latch, next_page_id, deallocated, guards, aborted, latest>>
  BY DEF FetchEvict, Fetching, Load
<1>4. WrittenBack(f) \in [Page -> SUBSET Change]
  BY DEF WrittenBack, IInv, TypeOK
<1>5. /\ entry' \in [Frame -> R!Status] /\ entry'[f] = "pinned"
      /\ \A e \in Frame : e # f => entry'[e] = entry[e]
  BY <1>3 DEF IInv, TypeOK, R!Forgotten, R!Recorded, R!WithEvictable, R!Status
<1>6. /\ frames' \in [Frame -> [data : SUBSET Change, pin : Nat, dirty : BOOLEAN]]
      /\ frames'[f].pin = 1
      /\ \A e \in Frame : e # f => frames'[e] = frames[e]
  <2>1. frames \in [Frame -> [data : SUBSET Change, pin : Nat, dirty : BOOLEAN]]
    BY DEF IInv, TypeOK
  <2> QED BY <1>1, <1>3, <1>4, <2>1
<1>7. \A q \in Page : page_table[q] = f <=> q = frame_to_page[f]
  BY DEF IInv, OneHome
<1>8. /\ page_table' \in [Page -> Frame \cup {NoFrame}]
      /\ page_table'[p] = f
      /\ \A q \in Page : q # p /\ page_table[q] = f => page_table'[q] = NoFrame
      /\ \A q \in Page : q # p /\ page_table[q] # f => page_table'[q] = page_table[q]
      /\ frame_to_page' \in [Frame -> Page \cup {NoPage}]
      /\ frame_to_page'[f] = p
      /\ \A e \in Frame : e # f => frame_to_page'[e] = frame_to_page[e]
  BY <1>1, <1>3, <1>7 DEF IInv, TypeOK
<1>9. /\ at' \in [Thread -> Step]
      /\ PinsCounted' /\ PinnedTracked' /\ GuardedPagesStay' /\ CallersInv' /\ FlushersInv'
  <2>1. \A q \in Page : q # at[t].page /\ page_table[q] # f => page_table'[q] = page_table[q]
    BY <1>8
  <2>2. /\ page_table'[at[t].page] = f /\ UNCHANGED guards /\ GoLatching(t, f)
        /\ \A e \in Frame : e # f => frames'[e] = frames[e] /\ entry'[e] = entry[e]
    BY <1>3, <1>5, <1>6, <1>8
  <2> QED BY <1>1, <1>2, <1>5, <1>6, <2>1, <2>2, LoadInv
<1>10. TypeOK'
  BY <1>3, <1>4, <1>5, <1>6, <1>8, <1>9 DEF IInv, TypeOK
<1>11. \A e \in Frame : InFree(e)' <=> InFree(e)
  BY <1>3 DEF InFree
<1>12. OneHome'
  <2>1. ASSUME NEW q \in Page, NEW e \in Frame
        PROVE  page_table'[q] = e <=> frame_to_page'[e] = q
    <3>1. page_table[q] = e <=> frame_to_page[e] = q
      BY DEF IInv, OneHome
    <3>2. frame_to_page[e] # p
      BY <1>1, NamesAssumption DEF IInv, OneHome, Resident
    <3> QED BY <1>7, <1>8, <3>1, <3>2, NamesAssumption
  <2>2. \A i, j \in DOMAIN free_frames' : free_frames'[i] = free_frames'[j] => i = j
    BY <1>3 DEF IInv, OneHome
  <2>3. \A e \in Frame : InFree(e)' <=> frame_to_page'[e] = NoPage
    BY <1>1, <1>2, <1>8, <1>11, PageFacts DEF IInv, OneHome
  <2>4. \A e \in Frame : InFree(e)' <=> entry'[e] = "absent"
    BY <1>2, <1>5, <1>11 DEF IInv, OneHome
  <2> QED BY <2>1, <2>2, <2>3, <2>4 DEF OneHome
<1> QED BY <1>9, <1>10, <1>12 DEF IInv

LEMMA FetchFailInv ==
    ASSUME IInv, NEW t \in Thread, FetchFail(t)
    PROVE  IInv'
<1>1. /\ at' \in [Thread -> Step] /\ at'[t] = Idle
      /\ \A u \in Thread : u # t => at'[u] = at[u]
  BY StepIn, GoMoves DEF FetchFail, IInv
<1>2. UNCHANGED <<page_table, frame_to_page, free_frames, maps, frames, entry, bpm_latch,
                  next_page_id, disk, deallocated, guards, aborted, latest>>
  BY DEF FetchFail, Fetching, maps
<1>3. at[t].step = "fetch"
  BY DEF FetchFail, Fetching
<1>4. TypeOK'
  BY <1>1, <1>2 DEF IInv, TypeOK
<1>5. OneHome' /\ PinnedTracked'
  BY <1>2, SameMaps, SamePinned
<1>6. PinsCounted'
  <2>1. \A f \in Frame : t \in Passing(f)' <=> t \in Passing(f)
    BY <1>1, <1>3, StepIn DEF Passing
  <2> QED BY <1>1, <1>2, <2>1, SameCounts
<1>7. GuardedPagesStay' /\ FlushersInv' /\ CallersInv'
  BY <1>1, <1>2, StepIn, SameGuarded, SameFlushers, SameCallers
<1> QED BY <1>4, <1>5, <1>6, <1>7 DEF IInv

LEMMA LockInv ==
    ASSUME IInv, NEW t \in Thread, Lock(t)
    PROVE  IInv'
<1> DEFINE f == at[t].frame
           p == at[t].page
           new == [page |-> p, frame |-> f, mode |-> at[t].mode, flushed |-> FALSE]
<1>1. /\ at[t].step = "latching" /\ f \in Frame /\ p \in Page /\ at[t].mode \in Mode
      /\ page_table[p] = f /\ frame_to_page[f] = p
  BY StepFields DEF Lock, IInv, TypeOK, GuardedPagesStay, OneHome
<1>2. new \in Guard /\ new.page = p /\ new.frame = f /\ new.mode = at[t].mode
  BY <1>1 DEF Guard
<1>3. /\ at' \in [Thread -> Step] /\ at'[t] = Idle
      /\ \A u \in Thread : u # t => at'[u] = at[u]
  BY StepIn, GoMoves DEF Lock, IInv
<1>4. /\ guards' \in [Thread -> SUBSET Guard]
      /\ guards'[t] = guards[t] \cup {new}
      /\ \A u \in Thread : u # t => guards'[u] = guards[u]
  <2>1. guards' = [guards EXCEPT ![t] = @ \cup {new}]
    BY DEF Lock
  <2> QED BY <1>2, <2>1 DEF IInv, TypeOK
<1>5. /\ frames' \in [Frame -> [data : SUBSET Change, pin : Nat, dirty : BOOLEAN]]
      /\ \A e \in Frame : frames'[e].pin = frames[e].pin
  <2>1. frames' = [frames EXCEPT ![f].dirty = @ \/ at[t].mode = "write"]
    BY DEF Lock
  <2>2. frames \in [Frame -> [data : SUBSET Change, pin : Nat, dirty : BOOLEAN]]
    BY DEF IInv, TypeOK
  <2> QED BY <1>1, <2>1, <2>2
<1>6. UNCHANGED <<page_table, frame_to_page, free_frames, maps, entry, bpm_latch,
                  next_page_id, disk, deallocated, aborted, latest>>
  BY DEF Lock, maps
<1>7. TypeOK'
  BY <1>3, <1>4, <1>5, <1>6 DEF IInv, TypeOK
<1>8. OneHome' /\ PinnedTracked' /\ FlushersInv'
  BY <1>3, <1>5, <1>6, StepIn, SameMaps, SamePinned, SameFlushers
<1>9. \A g \in guards[t] : g.page # p
  BY <1>1 DEF IInv, CallersInv
<1>10. PinsCounted'
  <2> SUFFICES ASSUME NEW e \in Frame
               PROVE  frames'[e].pin = Cardinality(Guarding(e)') + Cardinality(Passing(e)')
    BY DEF PinsCounted
  <2>1. /\ Guarding(e) \ {t} = Guarding(e)' \ {t}
        /\ Passing(e) \ {t} = Passing(e)' \ {t}
    BY <1>3, <1>4, CountMoves
  <2>2. (t \in Passing(e) <=> e = f) /\ t \notin Passing(e)'
    BY <1>1, <1>3, StepIn DEF Passing
  <2>3. t \in Guarding(e)' <=> t \in Guarding(e) \/ e = f
    BY <1>2, <1>4 DEF Guarding
  <2>4. t \notin Guarding(f)
    <3> SUFFICES ASSUME NEW g \in guards[t], g.frame = f PROVE FALSE
      BY DEF Guarding
    <3>1. g.page \in Page /\ page_table[g.page] = f
      BY DEF IInv, TypeOK, Guard, GuardedPagesStay
    <3>2. g.page = p
      BY <1>1, <3>1 DEF IInv, OneHome
    <3> QED BY <1>9, <3>2
  <2>5. Cardinality(Guarding(e)') = IF e = f THEN Cardinality(Guarding(e)) + 1
                                    ELSE Cardinality(Guarding(e))
    BY <2>1, <2>3, <2>4, OneApart, PinFacts
  <2>6. Cardinality(Passing(e)') = IF e = f THEN Cardinality(Passing(e)) - 1
                                   ELSE Cardinality(Passing(e))
    BY <2>1, <2>2, OneApart, PinFacts
  <2>7. frames[e].pin = Cardinality(Guarding(e)) + Cardinality(Passing(e))
    BY DEF IInv, PinsCounted
  <2> QED BY <1>5, <2>5, <2>6, <2>7, PinFacts
<1>11. GuardedPagesStay'
  <2>1. ASSUME NEW u \in Thread, NEW g \in guards'[u]
        PROVE  page_table'[g.page] = g.frame
    BY <1>1, <1>2, <1>4, <1>6 DEF IInv, GuardedPagesStay
  <2>2. ASSUME NEW u \in Thread, at'[u].step = "latching"
        PROVE  page_table'[at'[u].page] = at'[u].frame
    BY <2>2, <1>3, <1>6, StepIn DEF IInv, GuardedPagesStay
  <2>3. ASSUME NEW u \in Thread, u # t, NEW g \in guards[u], g.page = p
        PROVE  g.mode = "read" /\ at[t].mode = "read"
    <3>1. g.frame = f /\ g.mode \in Mode
      BY <1>1, <2>3 DEF IInv, TypeOK, Guard, GuardedPagesStay
    <3>2. ~Latched(f, IF at[t].mode = "write" THEN Mode ELSE {"write"})
      BY DEF Lock
    <3> QED BY <1>1, <2>3, <3>1, <3>2 DEF Latched, Mode
  <2>4. ASSUME NEW u \in Thread, NEW v \in Thread, NEW g \in guards'[u], NEW h \in guards'[v],
               u # v, g.page = h.page
        PROVE  g.mode = "read" /\ h.mode = "read"
    <3>1. CASE u # t /\ v # t
      BY <2>4, <3>1, <1>4 DEF IInv, GuardedPagesStay
    <3>2. CASE u = t /\ v # t
      <4>1. CASE g = new
        BY <1>2, <1>4, <2>3, <2>4, <3>2, <4>1
      <4>2. CASE g # new
        BY <1>4, <2>4, <3>2, <4>2 DEF IInv, GuardedPagesStay
      <4> QED BY <4>1, <4>2
    <3>3. CASE u # t /\ v = t
      <4>1. CASE h = new
        BY <1>2, <1>4, <2>3, <2>4, <3>3, <4>1
      <4>2. CASE h # new
        BY <1>4, <2>4, <3>3, <4>2 DEF IInv, GuardedPagesStay
      <4> QED BY <4>1, <4>2
    <3> QED BY <2>4, <3>1, <3>2, <3>3
  <2> QED BY <2>1, <2>2, <2>4 DEF GuardedPagesStay
<1>12. CallersInv'
  <2>1. ASSUME NEW u \in Thread, NEW g \in guards'[u], NEW h \in guards'[u], g.page = h.page
        PROVE  g = h
    <3>1. CASE u = t
      BY <1>2, <1>4, <1>9, <2>1, <3>1 DEF IInv, CallersInv
    <3>2. CASE u # t
      BY <1>4, <2>1, <3>2 DEF IInv, CallersInv
    <3> QED BY <3>1, <3>2
  <2>2. ASSUME NEW u \in Thread
        PROVE  /\ at'[u].step \in {"fetch", "latching"} => \A g \in guards'[u] : g.page # at'[u].page
               /\ at'[u].step = "written" => at'[u].guard \in guards'[u]
    <3>1. CASE u = t
      BY <1>3, <3>1, StepIn
    <3>2. CASE u # t
      BY <1>3, <1>4, <3>2 DEF IInv, CallersInv
    <3> QED BY <3>1, <3>2
  <2> QED BY <2>1, <2>2 DEF CallersInv
<1> QED BY <1>7, <1>8, <1>10, <1>11, <1>12 DEF IInv

LEMMA WriteInv ==
    ASSUME IInv, NEW t \in Thread, NEW g \in guards[t], Write(t, g)
    PROVE  IInv'
<1> DEFINE change == <<g.page, Cardinality(latest[g.page]) + 1>>
<1>1. g.frame \in Frame /\ g.page \in Page
  BY DEF IInv, TypeOK, Guard
<1>2. change \in Change
  <2>1. latest[g.page] \in SUBSET Change /\ IsFiniteSet(Change)
    <3>1. IsFiniteSet(Page) /\ IsFiniteSet(1..MaxWrites)
      BY BoundsAssumption, FS_Interval DEF Page
    <3> QED BY <1>1, <3>1, FS_Product DEF IInv, TypeOK, Change
  <2>2. Cardinality(latest[g.page]) \in Nat
    BY <2>1, FS_Subset, FS_CardinalityType
  <2>3. Cardinality(latest[g.page]) < MaxWrites
    BY DEF Write
  <2>4. Cardinality(latest[g.page]) + 1 \in 1..MaxWrites
    BY <2>2, <2>3, BoundsAssumption
  <2> QED BY <1>1, <2>4 DEF Change
<1>3. /\ frames' \in [Frame -> [data : SUBSET Change, pin : Nat, dirty : BOOLEAN]]
      /\ \A f \in Frame : frames'[f].pin = frames[f].pin
  <2>1. frames' = [frames EXCEPT ![g.frame].data = @ \cup {change}]
    BY DEF Write
  <2>2. frames \in [Frame -> [data : SUBSET Change, pin : Nat, dirty : BOOLEAN]]
    BY DEF IInv, TypeOK
  <2> HIDE DEF change
  <2> QED BY <1>1, <1>2, <2>1, <2>2
<1>4. latest' \in [Page -> SUBSET Change]
  <2>1. latest' = [latest EXCEPT ![g.page] = @ \cup {change}]
    BY DEF Write
  <2> HIDE DEF change
  <2> QED BY <1>1, <1>2, <2>1 DEF IInv, TypeOK
<1>5. UNCHANGED <<page_table, frame_to_page, free_frames, maps, entry, bpm_latch,
                  next_page_id, disk, deallocated, guards, at, aborted>>
  BY DEF Write, maps
<1>6. TypeOK'
  BY <1>3, <1>4, <1>5 DEF IInv, TypeOK
<1>7. OneHome' /\ PinnedTracked'
  BY <1>3, <1>5, SameMaps, SamePinned
<1>8. PinsCounted'
  BY <1>3, <1>5 DEF IInv, PinsCounted, Guarding, Passing
<1>9. GuardedPagesStay' /\ FlushersInv' /\ CallersInv'
  BY <1>5 DEF IInv, GuardedPagesStay, FlushersInv, CallersInv, Resident
<1> QED BY <1>6, <1>7, <1>8, <1>9 DEF IInv

LEMMA GuardFlushInv ==
    ASSUME IInv, NEW t \in Thread, NEW g \in guards[t], GuardFlush(t, g)
    PROVE  IInv'
<1>1. g \in Guard /\ g.frame \in Frame /\ g.page \in Page
  BY DEF IInv, TypeOK, Guard
<1>2. /\ at' \in [Thread -> Step] /\ at'[t] = [step |-> "written", guard |-> g]
      /\ \A u \in Thread : u # t => at'[u] = at[u]
  BY <1>1, StepIn, GoMoves DEF GuardFlush, IInv
<1>3. at[t].step = "idle"
  BY StepIn DEF GuardFlush, Using
<1>4. UNCHANGED <<page_table, frame_to_page, free_frames, maps, frames, entry, bpm_latch,
                  next_page_id, deallocated, guards, aborted, latest>>
  BY DEF GuardFlush, maps
<1>5. disk' \in [Page -> SUBSET Change]
  BY <1>1 DEF GuardFlush, IInv, TypeOK
<1>6. TypeOK'
  BY <1>2, <1>4, <1>5 DEF IInv, TypeOK
<1>7. OneHome' /\ PinnedTracked'
  BY <1>4, SameMaps, SamePinned
<1>8. PinsCounted'
  <2>1. \A f \in Frame : t \in Passing(f)' <=> t \in Passing(f)
    BY <1>2, <1>3 DEF Passing
  <2> QED BY <1>2, <1>4, <2>1, SameCounts
<1>9. GuardedPagesStay' /\ FlushersInv'
  BY <1>2, <1>4, SameGuarded, SameFlushers
<1>10. CallersInv'
  BY <1>2, <1>4 DEF IInv, CallersInv
<1> QED BY <1>6, <1>7, <1>8, <1>9, <1>10 DEF IInv

LEMMA ClearDirtyInv ==
    ASSUME IInv, NEW t \in Thread, ClearDirty(t)
    PROVE  IInv'
<1> DEFINE g == at[t].guard
           new == [g EXCEPT !.flushed = TRUE]
<1>1. at[t].step = "written" /\ g \in Guard /\ g \in guards[t] /\ g.frame \in Frame
  BY StepFields DEF ClearDirty, IInv, TypeOK, CallersInv, Guard
<1>2. /\ new \in Guard
      /\ new.page = g.page /\ new.frame = g.frame /\ new.mode = g.mode
  BY <1>1 DEF Guard
<1>3. /\ at' \in [Thread -> Step] /\ at'[t] = Idle
      /\ \A u \in Thread : u # t => at'[u] = at[u]
  BY StepIn, GoMoves DEF ClearDirty, IInv
<1>4. /\ guards' \in [Thread -> SUBSET Guard]
      /\ guards'[t] = (guards[t] \ {g}) \cup {new}
      /\ \A u \in Thread : u # t => guards'[u] = guards[u]
  <2>1. guards' = [guards EXCEPT ![t] = (@ \ {g}) \cup {new}]
    BY DEF ClearDirty
  <2> QED BY <1>2, <2>1 DEF IInv, TypeOK
<1>5. /\ frames' \in [Frame -> [data : SUBSET Change, pin : Nat, dirty : BOOLEAN]]
      /\ \A e \in Frame : frames'[e].pin = frames[e].pin
  <2>1. frames' = [frames EXCEPT ![g.frame].dirty = FALSE]
    BY DEF ClearDirty
  <2>2. frames \in [Frame -> [data : SUBSET Change, pin : Nat, dirty : BOOLEAN]]
    BY DEF IInv, TypeOK
  <2> QED BY <1>1, <2>1, <2>2
<1>6. UNCHANGED <<page_table, frame_to_page, free_frames, maps, entry, bpm_latch,
                  next_page_id, disk, deallocated, aborted, latest>>
  BY DEF ClearDirty, maps
<1>7. TypeOK'
  BY <1>3, <1>4, <1>5, <1>6 DEF IInv, TypeOK
<1>8. OneHome' /\ PinnedTracked' /\ FlushersInv'
  BY <1>3, <1>5, <1>6, StepIn, SameMaps, SamePinned, SameFlushers
<1>9. ASSUME NEW u \in Thread, NEW h \in guards'[u]
      PROVE  \E k \in guards[u] : /\ k.page = h.page /\ k.frame = h.frame /\ k.mode = h.mode
                                  /\ k = g /\ u = t => h = new
                                  /\ ~(k = g /\ u = t) => h = k
  BY <1>1, <1>2, <1>4
<1>10. PinsCounted'
  <2> SUFFICES ASSUME NEW e \in Frame
               PROVE  frames'[e].pin = Cardinality(Guarding(e)') + Cardinality(Passing(e)')
    BY DEF PinsCounted
  <2>1. Guarding(e)' = Guarding(e)
    <3>1. Guarding(e) \ {t} = Guarding(e)' \ {t}
      BY <1>3, <1>4, CountMoves
    <3>2. t \in Guarding(e) <=> t \in Guarding(e)'
      BY <1>1, <1>2, <1>4 DEF Guarding
    <3> QED BY <3>1, <3>2
  <2>2. Passing(e)' = Passing(e)
    BY <1>1, <1>3, StepIn DEF Passing
  <2> QED BY <1>5, <2>1, <2>2 DEF IInv, PinsCounted
<1>11. GuardedPagesStay'
  <2>1. \A u \in Thread : \A h \in guards'[u] : page_table'[h.page] = h.frame
    BY <1>6, <1>9 DEF IInv, GuardedPagesStay
  <2>2. \A u \in Thread : at'[u].step = "latching" => page_table'[at'[u].page] = at'[u].frame
    BY <1>3, <1>6, StepIn DEF IInv, GuardedPagesStay
  <2>3. ASSUME NEW u \in Thread, NEW v \in Thread, NEW h \in guards'[u], NEW k \in guards'[v],
               u # v, h.page = k.page
        PROVE  h.mode = "read" /\ k.mode = "read"
    <3>1. PICK h0 \in guards[u] : h0.page = h.page /\ h0.mode = h.mode
      BY <1>9
    <3>2. PICK k0 \in guards[v] : k0.page = k.page /\ k0.mode = k.mode
      BY <1>9
    <3> QED BY <2>3, <3>1, <3>2 DEF IInv, GuardedPagesStay
  <2> QED BY <2>1, <2>2, <2>3 DEF GuardedPagesStay
<1>12. CallersInv'
  <2>1. ASSUME NEW u \in Thread, NEW h \in guards'[u], NEW k \in guards'[u], h.page = k.page
        PROVE  h = k
    <3>1. PICK h0 \in guards[u] : /\ h0.page = h.page
                                  /\ h0 = g /\ u = t => h = new
                                  /\ ~(h0 = g /\ u = t) => h = h0
      BY <1>9
    <3>2. PICK k0 \in guards[u] : /\ k0.page = k.page
                                  /\ k0 = g /\ u = t => k = new
                                  /\ ~(k0 = g /\ u = t) => k = k0
      BY <1>9
    <3>3. h0 = k0
      BY <2>1, <3>1, <3>2 DEF IInv, CallersInv
    <3> QED BY <3>1, <3>2, <3>3
  <2>2. ASSUME NEW u \in Thread
        PROVE  /\ at'[u].step \in {"fetch", "latching"} => \A h \in guards'[u] : h.page # at'[u].page
               /\ at'[u].step = "written" => at'[u].guard \in guards'[u]
    <3>1. CASE u = t
      BY <1>3, <3>1, StepIn
    <3>2. CASE u # t
      BY <1>3, <1>4, <3>2 DEF IInv, CallersInv
    <3> QED BY <3>1, <3>2
  <2> QED BY <2>1, <2>2 DEF CallersInv
<1> QED BY <1>7, <1>8, <1>10, <1>11, <1>12 DEF IInv

LEMMA DropInv ==
    ASSUME IInv, NEW t \in Thread, NEW g \in guards[t], Drop(t, g)
    PROVE  IInv'
<1> DEFINE f == g.frame
           next == [step |-> "dropped", frame |-> f]
<1>1. g \in Guard /\ f \in Frame /\ g.page \in Page /\ page_table[g.page] = f
  BY DEF IInv, TypeOK, Guard, GuardedPagesStay
<1>2. /\ at' \in [Thread -> Step] /\ at'[t] = next
      /\ \A u \in Thread : u # t => at'[u] = at[u]
  BY <1>1, StepIn, GoMoves DEF Drop, IInv
<1>3. at[t].step = "idle"
  BY StepIn DEF Drop, Using
<1>4. /\ guards' \in [Thread -> SUBSET Guard]
      /\ guards'[t] = guards[t] \ {g}
      /\ \A u \in Thread : u # t => guards'[u] = guards[u]
      /\ \A u \in Thread : guards'[u] \subseteq guards[u]
  <2>1. guards' = [guards EXCEPT ![t] = @ \ {g}]
    BY DEF Drop
  <2> QED BY <2>1 DEF IInv, TypeOK
<1>5. UNCHANGED <<page_table, frame_to_page, free_frames, maps, frames, entry, bpm_latch,
                  next_page_id, disk, deallocated, aborted, latest>>
  BY DEF Drop, maps
<1>6. TypeOK'
  BY <1>2, <1>4, <1>5 DEF IInv, TypeOK
<1>7. OneHome' /\ PinnedTracked' /\ FlushersInv'
  BY <1>2, <1>5, SameMaps, SamePinned, SameFlushers
<1>8. PinsCounted'
  <2> SUFFICES ASSUME NEW e \in Frame
               PROVE  frames'[e].pin = Cardinality(Guarding(e)') + Cardinality(Passing(e)')
    BY DEF PinsCounted
  <2>1. /\ Guarding(e) \ {t} = Guarding(e)' \ {t}
        /\ Passing(e) \ {t} = Passing(e)' \ {t}
    BY <1>2, <1>4, CountMoves
  <2>2. t \notin Passing(e) /\ (t \in Passing(e)' <=> e = f)
    BY <1>2, <1>3 DEF Passing
  <2>3. t \in Guarding(f)
    BY DEF Guarding
  <2>4. t \notin Guarding(f)'
    <3> SUFFICES ASSUME NEW h \in guards'[t], h.frame = f PROVE FALSE
      BY DEF Guarding
    <3>1. h \in guards[t] /\ h # g /\ h.page \in Page /\ page_table[h.page] = f
      BY <1>4 DEF IInv, TypeOK, Guard, GuardedPagesStay
    <3>2. h.page = g.page
      BY <1>1, <3>1 DEF IInv, OneHome
    <3> QED BY <3>1, <3>2 DEF IInv, CallersInv
  <2>5. e # f => (t \in Guarding(e)' <=> t \in Guarding(e))
    BY <1>4 DEF Guarding
  <2>6. Cardinality(Guarding(e)') = IF e = f THEN Cardinality(Guarding(e)) - 1
                                    ELSE Cardinality(Guarding(e))
    BY <2>1, <2>3, <2>4, <2>5, OneApart, PinFacts
  <2>7. Cardinality(Passing(e)') = IF e = f THEN Cardinality(Passing(e)) + 1
                                   ELSE Cardinality(Passing(e))
    BY <2>1, <2>2, OneApart, PinFacts
  <2>8. frames[e].pin = Cardinality(Guarding(e)) + Cardinality(Passing(e))
    BY DEF IInv, PinsCounted
  <2> QED BY <1>5, <2>6, <2>7, <2>8, PinFacts
<1>9. GuardedPagesStay'
  <2>1. \A u \in Thread : \A h \in guards'[u] : page_table'[h.page] = h.frame
    BY <1>4, <1>5 DEF IInv, GuardedPagesStay
  <2>2. \A u \in Thread : at'[u].step = "latching" => page_table'[at'[u].page] = at'[u].frame
    BY <1>2, <1>5 DEF IInv, GuardedPagesStay
  <2>3. \A u, v \in Thread : \A h \in guards'[u], k \in guards'[v] :
            (u # v /\ h.page = k.page) => h.mode = "read" /\ k.mode = "read"
    BY <1>4 DEF IInv, GuardedPagesStay
  <2> QED BY <2>1, <2>2, <2>3 DEF GuardedPagesStay
<1>10. CallersInv'
  BY <1>2, <1>4 DEF IInv, CallersInv
<1> QED BY <1>6, <1>7, <1>8, <1>9, <1>10 DEF IInv

LEMMA UnpinInv ==
    ASSUME IInv, NEW t \in Thread, Unpin(t)
    PROVE  IInv'
<1> DEFINE f == at[t].frame
           next == [step |-> "unpinned", frame |-> f]
<1>1. at[t].step = "dropped" /\ f \in Frame
  BY StepFields DEF Unpin, IInv, TypeOK
<1>2. /\ at' \in [Thread -> Step] /\ at'[t] = next
      /\ \A u \in Thread : u # t => at'[u] = at[u]
  BY <1>1, StepIn, GoMoves DEF Unpin, IInv
<1>3. UNCHANGED <<page_table, frame_to_page, free_frames, maps, entry, bpm_latch,
                  next_page_id, disk, deallocated, guards, aborted, latest>>
  BY DEF Unpin, maps
<1>4. frames[f].pin \in Nat /\ frames[f].pin # 0
  BY <1>1, PinFacts DEF Passing
<1>5. /\ frames' \in [Frame -> [data : SUBSET Change, pin : Nat, dirty : BOOLEAN]]
      /\ frames'[f].pin = frames[f].pin - 1
      /\ \A e \in Frame : e # f => frames'[e] = frames[e]
  <2>1. frames' = [frames EXCEPT ![f].pin = @ - 1]
    BY DEF Unpin
  <2>2. frames \in [Frame -> [data : SUBSET Change, pin : Nat, dirty : BOOLEAN]]
    BY DEF IInv, TypeOK
  <2>3. frames[f].pin - 1 \in Nat
    BY <1>4
  <2> QED BY <1>1, <2>1, <2>2, <2>3
<1>6. TypeOK'
  BY <1>2, <1>3, <1>5 DEF IInv, TypeOK
<1>7. OneHome' /\ FlushersInv' /\ GuardedPagesStay' /\ CallersInv'
  BY <1>2, <1>3, SameMaps, SameFlushers, SameGuarded, SameCallers
<1>8. PinsCounted'
  <2> SUFFICES ASSUME NEW e \in Frame
               PROVE  frames'[e].pin = Cardinality(Guarding(e)') + Cardinality(Passing(e)')
    BY DEF PinsCounted
  <2>1. Guarding(e)' = Guarding(e)
    BY <1>3 DEF Guarding
  <2>2. Passing(e) \ {t} = Passing(e)' \ {t}
    BY <1>2, <1>3, CountMoves
  <2>3. (t \in Passing(e) <=> e = f) /\ t \notin Passing(e)'
    BY <1>1, <1>2 DEF Passing
  <2>4. Cardinality(Passing(e)') = IF e = f THEN Cardinality(Passing(e)) - 1
                                   ELSE Cardinality(Passing(e))
    BY <2>2, <2>3, OneApart, PinFacts
  <2>5. frames[e].pin = Cardinality(Guarding(e)) + Cardinality(Passing(e))
    BY DEF IInv, PinsCounted
  <2>6. frames'[e].pin = IF e = f THEN frames[e].pin - 1 ELSE frames[e].pin
    BY <1>5
  <2> QED BY <2>1, <2>4, <2>5, <2>6, PinFacts
<1>9. PinnedTracked'
  BY <1>3, <1>4, <1>5 DEF IInv, PinnedTracked
<1> QED BY <1>6, <1>7, <1>8, <1>9 DEF IInv

LEMMA SettleInv ==
    ASSUME IInv, NEW t \in Thread, Settle(t)
    PROVE  IInv'
<1> DEFINE f == at[t].frame
<1>1. at[t].step = "unpinned" /\ f \in Frame
  BY StepFields DEF Settle, IInv, TypeOK
<1>2. /\ at' \in [Thread -> Step] /\ at'[t] = Idle
      /\ \A u \in Thread : u # t => at'[u] = at[u]
  BY StepIn, GoMoves DEF Settle, IInv
<1>3. UNCHANGED <<page_table, frame_to_page, free_frames, maps, frames, bpm_latch,
                  next_page_id, disk, deallocated, guards, aborted, latest>>
  BY DEF Settle, maps
<1>4. /\ entry' \in [Frame -> R!Status]
      /\ \A e \in Frame : entry'[e] = "absent" <=> entry[e] = "absent"
      /\ \A e \in Frame : entry'[e] # entry[e] => frames[e].pin = 0
  BY <1>1 DEF Settle, IInv, TypeOK, R!WithEvictable, R!Status
<1>5. TypeOK'
  BY <1>2, <1>3, <1>4 DEF IInv, TypeOK
<1>6. OneHome' /\ FlushersInv' /\ GuardedPagesStay' /\ CallersInv'
  BY <1>2, <1>3, <1>4, StepIn, SameMaps, SameFlushers, SameGuarded, SameCallers
<1>7. PinsCounted'
  <2>1. \A e \in Frame : t \in Passing(e)' <=> t \in Passing(e)
    BY <1>1, <1>2, StepIn DEF Passing
  <2> QED BY <1>2, <1>3, <2>1, SameCounts
<1>8. PinnedTracked'
  BY <1>3, <1>4 DEF IInv, PinnedTracked
<1> QED BY <1>5, <1>6, <1>7, <1>8 DEF IInv

LEMMA DeletePageInv ==
    ASSUME IInv, NEW t \in Thread, NEW p \in Page, DeletePage(t, p)
    PROVE  IInv'
<1> DEFINE f == page_table[p]
<1>1. UNCHANGED <<bpm_latch, next_page_id, disk, guards, at, latest>> /\ bpm_latch = NoThread
  BY DEF DeletePage, Critical
<1>2. deallocated' \in SUBSET Page /\ aborted' \in BOOLEAN
  BY DEF DeletePage, DeleteAbsent, DeletePinned, DeleteResident, DeleteAborts, Deallocate,
         IInv, TypeOK
<1>3. CASE UNCHANGED <<maps, frames, entry>>
  <2>1. UNCHANGED <<page_table, frame_to_page, free_frames>>
    BY <1>3 DEF maps
  <2>2. TypeOK'
    BY <1>1, <1>2, <1>3, <2>1 DEF IInv, TypeOK
  <2>3. OneHome' /\ PinnedTracked'
    BY <1>3, SameMaps, SamePinned
  <2>4. PinsCounted'
    BY <1>1, <1>3 DEF IInv, PinsCounted, Guarding, Passing
  <2>5. GuardedPagesStay' /\ CallersInv' /\ FlushersInv'
    BY <1>1, <2>1 DEF IInv, GuardedPagesStay, CallersInv, FlushersInv, Resident
  <2> QED BY <2>2, <2>3, <2>4, <2>5 DEF IInv
<1>4. CASE DeleteResident(p)
  <2>1. /\ f \in Frame /\ frames[f].pin = 0 /\ frame_to_page[f] = p
        /\ frame_to_page[f] # NoPage /\ ~InFree(f)
    BY <1>4, PageFacts DEF DeleteResident, Resident, IInv, TypeOK, OneHome
  <2>2. /\ entry' = R!Forgotten(entry, f)
        /\ page_table' = [page_table EXCEPT ![p] = NoFrame]
        /\ frame_to_page' = [frame_to_page EXCEPT ![f] = NoPage]
        /\ free_frames' = Append(free_frames, f)
        /\ frames' = [frames EXCEPT ![f] = [data |-> {}, pin |-> 0, dirty |-> FALSE]]
    BY <1>4 DEF DeleteResident
  <2>3. /\ entry' \in [Frame -> R!Status] /\ entry'[f] = "absent"
        /\ \A e \in Frame : e # f => entry'[e] = entry[e]
    BY <2>1, <2>2 DEF IInv, TypeOK, R!Forgotten, R!Status
  <2>4. /\ page_table' \in [Page -> Frame \cup {NoFrame}] /\ page_table'[p] = NoFrame
        /\ \A q \in Page : q # p => page_table'[q] = page_table[q]
        /\ frame_to_page' \in [Frame -> Page \cup {NoPage}] /\ frame_to_page'[f] = NoPage
        /\ \A e \in Frame : e # f => frame_to_page'[e] = frame_to_page[e]
    BY <2>1, <2>2 DEF IInv, TypeOK
  <2>5. /\ frames' \in [Frame -> [data : SUBSET Change, pin : Nat, dirty : BOOLEAN]]
        /\ \A e \in Frame : frames'[e].pin = frames[e].pin
    BY <2>1, <2>2 DEF IInv, TypeOK
  <2>6. /\ free_frames' \in Seq(Frame) /\ free_frames \in Seq(Frame)
        /\ Len(free_frames) \in Nat
        /\ DOMAIN free_frames = 1..Len(free_frames)
        /\ DOMAIN free_frames' = 1..Len(free_frames) + 1
        /\ \A i \in 1..Len(free_frames) : free_frames'[i] = free_frames[i]
        /\ free_frames'[Len(free_frames) + 1] = f
    BY <2>1, <2>2, AppendProperties, LenProperties DEF IInv, TypeOK
  <2>7. TypeOK'
    BY <1>1, <1>2, <2>3, <2>4, <2>5, <2>6 DEF IInv, TypeOK
  <2>8. \A e \in Frame : InFree(e)' <=> InFree(e) \/ e = f
    <3>1. ASSUME NEW e \in Frame, InFree(e)' PROVE InFree(e) \/ e = f
      <4>1. PICK i \in 1..Len(free_frames) + 1 : free_frames'[i] = e
        BY <2>6, <3>1 DEF InFree
      <4>2. i \in 1..Len(free_frames) \/ i = Len(free_frames) + 1
        BY <2>6
      <4> QED BY <4>1, <4>2, <2>6 DEF InFree
    <3>2. ASSUME NEW e \in Frame, InFree(e) \/ e = f PROVE InFree(e)'
      <4>1. 1..Len(free_frames) \subseteq 1..Len(free_frames) + 1
            /\ Len(free_frames) + 1 \in 1..Len(free_frames) + 1
        BY <2>6
      <4> QED BY <3>2, <4>1, <2>6 DEF InFree
    <3> QED BY <3>1, <3>2
  <2>9. OneHome'
    <3>1. ASSUME NEW q \in Page, NEW e \in Frame
          PROVE  page_table'[q] = e <=> frame_to_page'[e] = q
      <4>1. page_table[q] = e <=> frame_to_page[e] = q
        BY DEF IInv, OneHome
      <4> QED BY <2>1, <2>4, <4>1, PageFacts, NamesAssumption
    <3>2. ASSUME NEW i \in DOMAIN free_frames', NEW j \in DOMAIN free_frames',
                 free_frames'[i] = free_frames'[j]
          PROVE  i = j
      <4>1. /\ i \in 1..Len(free_frames) \/ i = Len(free_frames) + 1
            /\ j \in 1..Len(free_frames) \/ j = Len(free_frames) + 1
        BY <2>6
      <4>2. \A k \in 1..Len(free_frames) : free_frames[k] # f
        BY <2>1, <2>6 DEF InFree
      <4> QED BY <3>2, <4>1, <4>2, <2>6 DEF IInv, OneHome
    <3>3. \A e \in Frame : InFree(e)' <=> frame_to_page'[e] = NoPage
      BY <2>4, <2>8 DEF IInv, OneHome
    <3>4. \A e \in Frame : InFree(e)' <=> entry'[e] = "absent"
      BY <2>3, <2>8 DEF IInv, OneHome
    <3> QED BY <3>1, <3>2, <3>3, <3>4 DEF OneHome
  <2>10. PinsCounted'
    BY <1>1, <2>5 DEF IInv, PinsCounted, Guarding, Passing
  <2>11. PinnedTracked'
    BY <2>1, <2>3, <2>5 DEF IInv, PinnedTracked
  <2>12. Guarding(f) = {} /\ Passing(f) = {}
    BY <2>1, PinFacts
  <2>13. GuardedPagesStay'
    <3>1. ASSUME NEW u \in Thread, NEW g \in guards[u]
          PROVE  page_table'[g.page] = g.frame
      BY <2>4, <2>12 DEF Guarding, IInv, TypeOK, Guard, GuardedPagesStay
    <3>2. ASSUME NEW u \in Thread, at[u].step = "latching"
          PROVE  page_table'[at[u].page] = at[u].frame
      <4>1. at[u].page \in Page
        BY <3>2, StepFields DEF IInv, TypeOK
      <4> QED BY <3>2, <4>1, <2>4, <2>12 DEF Passing, IInv, GuardedPagesStay
    <3> QED BY <1>1, <3>1, <3>2 DEF IInv, GuardedPagesStay
  <2>14. CallersInv'
    BY <1>1 DEF IInv, CallersInv
  <2>15. FlushersInv'
    BY <1>1, NoFlusher DEF FlushersInv
  <2> QED BY <2>7, <2>9, <2>10, <2>11, <2>13, <2>14, <2>15 DEF IInv
<1> QED BY <1>3, <1>4 DEF DeletePage, DeleteAbsent, DeletePinned, DeleteAborts

LEMMA BeginFlushInv ==
    ASSUME IInv, NEW t \in Thread, NEW todo \in SUBSET Page, BeginFlush(t, todo)
    PROVE  IInv'
<1> DEFINE next == [step |-> "flushing", todo |-> todo]
<1>1. /\ at' \in [Thread -> Step] /\ at'[t] = next
      /\ \A u \in Thread : u # t => at'[u] = at[u]
  BY StepIn, GoMoves DEF BeginFlush, IInv
<1>2. at[t].step = "idle" /\ bpm_latch = NoThread /\ bpm_latch' = t /\ \A p \in todo : Resident(p)
  BY StepIn DEF BeginFlush, CanCall, Critical
<1>3. UNCHANGED <<page_table, frame_to_page, free_frames, maps, frames, entry,
                  next_page_id, disk, deallocated, guards, aborted, latest>>
  BY DEF BeginFlush, maps
<1>4. TypeOK'
  BY <1>1, <1>2, <1>3 DEF IInv, TypeOK
<1>5. OneHome' /\ PinnedTracked' /\ GuardedPagesStay' /\ CallersInv'
  BY <1>1, <1>3, SameMaps, SamePinned, SameGuarded, SameCallers
<1>6. PinsCounted'
  <2>1. \A e \in Frame : t \in Passing(e)' <=> t \in Passing(e)
    BY <1>1, <1>2 DEF Passing
  <2> QED BY <1>1, <1>3, <2>1, SameCounts
<1>7. FlushersInv'
  BY <1>1, <1>2, <1>3, NoFlusher DEF FlushersInv, Resident
<1> QED BY <1>4, <1>5, <1>6, <1>7 DEF IInv

LEMMA FlushOneInv ==
    ASSUME IInv, NEW t \in Thread, NEW p \in Page, FlushOne(t, p)
    PROVE  IInv'
<1> DEFINE f == page_table[p]
           rest == at[t].todo \ {p}
           next == IF rest = {} THEN Idle ELSE [step |-> "flushing", todo |-> rest]
<1>1. /\ at[t].step = "flushing" /\ at[t].todo \in SUBSET Page
      /\ bpm_latch = t /\ \A q \in at[t].todo : Resident(q)
  BY StepFields DEF FlushOne, IInv, TypeOK, FlushersInv
<1>2. f \in Frame
  BY <1>1 DEF FlushOne, Resident, IInv, TypeOK
<1>3. /\ at' \in [Thread -> Step] /\ at'[t] = next
      /\ \A u \in Thread : u # t => at'[u] = at[u]
  <2>1. next \in Step
    BY <1>1, StepIn
  <2>2. Go(t, next)
    BY DEF FlushOne
  <2> QED BY <2>1, <2>2, GoMoves DEF IInv
<1>4. UNCHANGED <<page_table, frame_to_page, free_frames, maps, entry,
                  next_page_id, deallocated, guards, aborted, latest>>
  BY DEF FlushOne, maps
<1>5. /\ frames' \in [Frame -> [data : SUBSET Change, pin : Nat, dirty : BOOLEAN]]
      /\ \A e \in Frame : frames'[e].pin = frames[e].pin
  <2>1. frames' = [frames EXCEPT ![f].dirty = FALSE]
    BY DEF FlushOne
  <2>2. frames \in [Frame -> [data : SUBSET Change, pin : Nat, dirty : BOOLEAN]]
    BY DEF IInv, TypeOK
  <2> QED BY <1>2, <2>1, <2>2
<1>6. disk' \in [Page -> SUBSET Change]
  <2>1. disk' = IF frames[f].dirty THEN [disk EXCEPT ![p] = frames[f].data] ELSE disk
    BY DEF FlushOne
  <2> QED BY <1>2, <2>1 DEF IInv, TypeOK
<1>7. bpm_latch' = IF rest = {} THEN NoThread ELSE t
  BY DEF FlushOne
<1>8. TypeOK'
  BY <1>3, <1>4, <1>5, <1>6, <1>7 DEF IInv, TypeOK
<1>9. at'[t].step \notin {"fetch", "latching", "written", "dropped"}
  BY <1>3, StepIn
<1>10. OneHome' /\ PinnedTracked' /\ GuardedPagesStay' /\ CallersInv'
  BY <1>3, <1>4, <1>5, <1>9, SameMaps, SamePinned, SameGuarded, SameCallers
<1>11. PinsCounted'
  <2>1. \A e \in Frame : t \in Passing(e)' <=> t \in Passing(e)
    BY <1>1, <1>9 DEF Passing
  <2> QED BY <1>3, <1>4, <1>5, <2>1, SameCounts
<1>12. FlushersInv'
  <2>1. ASSUME NEW u \in Thread, u # t PROVE at'[u].step # "flushing"
    BY <1>1, <1>3, <2>1 DEF IInv, FlushersInv
  <2>2. at'[t].step = "flushing" =>
            bpm_latch' = t /\ \A q \in at'[t].todo : page_table'[q] # NoFrame
    BY <1>1, <1>3, <1>4, <1>7, StepIn DEF Resident
  <2> QED BY <2>1, <2>2 DEF FlushersInv, Resident
<1> QED BY <1>8, <1>10, <1>11, <1>12 DEF IInv

LEMMA StutterInv ==
    ASSUME IInv, UNCHANGED vars
    PROVE  IInv'
<1>1. TypeOK'
  BY DEF vars, maps, IInv, TypeOK
<1>2. OneHome' /\ PinnedTracked'
  BY SameMaps, SamePinned DEF vars
<1>3. PinsCounted'
  BY DEF vars, maps, IInv, PinsCounted, Guarding, Passing
<1>4. GuardedPagesStay' /\ CallersInv' /\ FlushersInv'
  BY DEF vars, maps, IInv, GuardedPagesStay, CallersInv, FlushersInv, Resident
<1> QED BY <1>1, <1>2, <1>3, <1>4 DEF IInv

LEMMA NextInv == IInv /\ [Next]_vars => IInv'
<1> SUFFICES ASSUME IInv, [Next]_vars PROVE IInv'
  OBVIOUS
<1>1. CASE UNCHANGED vars
  BY <1>1, StutterInv
<1>2. CASE Next
  <2>1. PICK t \in Thread :
            \/ NewPage(t)
            \/ Call(t)
            \/ Finish(t)
            \/ \E g \in guards[t] : Write(t, g) \/ GuardFlush(t, g)
            \/ \E p \in Page : DeletePage(t, p)
    BY <1>2 DEF Next
  <2>2. CASE NewPage(t)
    BY <2>2, NewPageInv
  <2>3. CASE Call(t)
    <3>1. \A p \in Page : {p} \in SUBSET Page
      OBVIOUS
    <3>2. {p \in Page : Resident(p)} \in SUBSET Page
      OBVIOUS
    <3> QED BY <2>3, <3>1, <3>2, CallFetchInv, BeginFlushInv DEF Call, FlushPage, FlushAllPages
  <2>4. CASE Finish(t)
    BY <2>4, FetchHitInv, FetchFreeInv, FetchEvictInv, FetchFailInv, LockInv, ClearDirtyInv,
       UnpinInv, SettleInv, DropInv, FlushOneInv DEF Finish, Fetch
  <2>5. CASE \E g \in guards[t] : Write(t, g) \/ GuardFlush(t, g)
    BY <2>5, WriteInv, GuardFlushInv
  <2>6. CASE \E p \in Page : DeletePage(t, p)
    BY <2>6, DeletePageInv
  <2> QED BY <2>1, <2>2, <2>3, <2>4, <2>5, <2>6
<1> QED BY <1>1, <1>2

-----------------------------------------------------------------------------
\* The inductive invariant holds in every state of the buffer pool.
THEOREM PoolInvariant == Spec => []IInv
  BY InitInv, NextInv, PTL DEF Spec

\* Types, the pins never below 0 among them, through fetches, drops and evictions.
THEOREM PoolTypeOK == Spec => []TypeOK
<1>1. IInv => TypeOK
  BY DEF IInv
<1> QED BY <1>1, PoolInvariant, PTL

\* page_table_, frame_to_page_, free_frames_ and the replacer give each frame one place.
THEOREM PoolOneHome == Spec => []OneHome
<1>1. IInv => OneHome
  BY DEF IInv
<1> QED BY <1>1, PoolInvariant, PTL

\* pin_count_ is the number of guards, of fetches that wait for the latch and of Drops
\* that have not decremented it.
THEOREM PoolPinsCounted == Spec => []PinsCounted
<1>1. IInv => PinsCounted
  BY DEF IInv
<1> QED BY <1>1, PoolInvariant, PTL

\* The replacer is never told that a pinned frame may be evicted, although Drop
\* decrements the count outside bpm_latch_.
THEOREM PoolEvictableUnpinned == Spec => []EvictableUnpinned
<1>1. IInv => EvictableUnpinned
  BY DEF IInv, PinnedTracked, EvictableUnpinned
<1> QED BY <1>1, PoolInvariant, PTL

\* A page stays in its frame while it is guarded, or while a guard waits for the
\* frame's latch; writers are alone.
THEOREM PoolGuardedPagesStay == Spec => []GuardedPagesStay
<1>1. IInv => GuardedPagesStay
  BY DEF IInv
<1> QED BY <1>1, PoolInvariant, PTL

-----------------------------------------------------------------------------
(* No frame is lost. *)

\* A tracked frame without pins is evictable, or a Drop is about to say so.
Kept(f) ==
    entry[f] = "pinned" /\ frames[f].pin = 0 /\ ~aborted =>
        \E t \in Thread : at[t] = [step |-> "unpinned", frame |-> f]

LEMMA KeptFrames == IInv => (NoFrameLost <=> \A f \in Frame : Kept(f))
  BY DEF IInv, TypeOK, OneHome, NoFrameLost, Kept, R!Status

LEMMA KeptNext == IInv' => (NoFrameLost' <=> \A f \in Frame : Kept(f)')
  BY DEF IInv, TypeOK, OneHome, NoFrameLost, Kept, R!Status, InFree

LEMMA StaysKept ==
    ASSUME NEW t \in Thread, NEW f \in Frame, Kept(f),
           \A u \in Thread : u # t => at'[u] = at[u],
           at[t].step # "unpinned" \/ at[t].frame # f,
           entry'[f] = entry[f], frames'[f].pin = frames[f].pin,
           aborted => aborted'
    PROVE  Kept(f)'
  BY DEF Kept

LEMMA FinishKept ==
    ASSUME IInv, NEW t \in Thread, Finish(t), NEW f \in Frame, Kept(f)
    PROVE  Kept(f)'
<1> DEFINE x == at[t].frame
<1>1. /\ frames \in [Frame -> [data : SUBSET Change, pin : Nat, dirty : BOOLEAN]]
      /\ entry \in [Frame -> R!Status]
      /\ at \in [Thread -> Step]
  BY DEF IInv, TypeOK
<1>2. ASSUME NEW next, Go(t, next) PROVE \A u \in Thread : u # t => at'[u] = at[u]
  BY <1>1, <1>2 DEF Go
<1>3. CASE FetchHit(t)
  <2> DEFINE e == page_table[at[t].page]
  <2>1. e \in Frame /\ at[t].step = "fetch"
    BY <1>3, StepFields DEF FetchHit, Fetching, IInv, TypeOK, Resident
  <2>2. /\ frames' = [frames EXCEPT ![e].pin = @ + 1]
        /\ entry' = R!Recorded(R!WithEvictable(entry, e, FALSE), e)
        /\ UNCHANGED aborted
        /\ \A u \in Thread : u # t => at'[u] = at[u]
    BY <1>2, <1>3 DEF FetchHit, Fetching, GoLatching
  <2>3. CASE f = e
    <3>1. frames'[f].pin = frames[f].pin + 1 /\ frames[f].pin \in Nat
      BY <1>1, <2>1, <2>2, <2>3
    <3> QED BY <3>1 DEF Kept
  <2>4. CASE f # e
    <3>1. entry'[f] = entry[f] /\ frames'[f].pin = frames[f].pin
      BY <1>1, <2>1, <2>2, <2>4 DEF R!Recorded, R!WithEvictable
    <3> QED BY <2>1, <2>2, <3>1, StaysKept
  <2> QED BY <2>3, <2>4
<1>4. ASSUME NEW e \in Frame, NEW d, NEW source, at[t].step = "fetch", UNCHANGED aborted,
             Load(t, e, d, entry, source) \/ Load(t, e, d, R!Forgotten(entry, e), source)
      PROVE  Kept(f)'
  <2>1. CASE f = e
    <3>1. frames'[f].pin = 1
      <4>1. PICK v : frames' = [frames EXCEPT ![e] = [data |-> v, pin |-> 1, dirty |-> d]]
        BY <1>4, Zenon DEF Load
      <4> QED BY <1>1, <2>1, <4>1
    <3> QED BY <3>1 DEF Kept
  <2>2. CASE f # e
    <3>1. entry'[f] = entry[f] /\ frames'[f] = frames[f]
      BY <1>1, <1>4, <2>2 DEF Load, R!Forgotten, R!Recorded, R!WithEvictable
    <3>2. \A u \in Thread : u # t => at'[u] = at[u]
      BY <1>2, <1>4 DEF Load, GoLatching
    <3> QED BY <1>4, <3>1, <3>2, StaysKept
  <2> QED BY <2>1, <2>2
<1>5. CASE FetchFree(t)
  <2>1. Head(free_frames) \in Frame
    BY <1>5, HeadTailProperties DEF FetchFree, IInv, TypeOK
  <2> QED BY <1>4, <1>5, <2>1 DEF FetchFree, Fetching
<1>6. CASE \E e \in Frame : FetchEvict(t, e)
  BY <1>4, <1>6 DEF FetchEvict, Fetching
<1>7. CASE FetchFail(t)
  BY <1>2, <1>7, StaysKept DEF FetchFail, Fetching
<1>8. CASE Lock(t)
  <2>1. at[t].step = "latching" /\ x \in Frame
    BY <1>8, StepFields DEF Lock, IInv, TypeOK
  <2>2. /\ frames' = [frames EXCEPT ![x].dirty = @ \/ at[t].mode = "write"]
        /\ UNCHANGED <<entry, aborted>>
        /\ \A u \in Thread : u # t => at'[u] = at[u]
    BY <1>2, <1>8 DEF Lock
  <2>3. frames'[f].pin = frames[f].pin
    BY <1>1, <2>1, <2>2
  <2> QED BY <2>1, <2>2, <2>3, StaysKept
<1>9. CASE ClearDirty(t)
  <2>1. at[t].step = "written" /\ at[t].guard.frame \in Frame
    BY <1>9, StepFields DEF ClearDirty, IInv, TypeOK, Guard
  <2>2. /\ frames' = [frames EXCEPT ![at[t].guard.frame].dirty = FALSE]
        /\ UNCHANGED <<entry, aborted>>
        /\ \A u \in Thread : u # t => at'[u] = at[u]
    BY <1>2, <1>9 DEF ClearDirty
  <2>3. frames'[f].pin = frames[f].pin
    BY <1>1, <2>1, <2>2
  <2> QED BY <2>1, <2>2, <2>3, StaysKept
<1>10. CASE \E g \in guards[t] : Drop(t, g)
  <2>1. at[t].step = "idle" /\ UNCHANGED <<entry, frames, aborted>>
    BY <1>10, StepIn DEF Drop, Using
  <2>2. \A u \in Thread : u # t => at'[u] = at[u]
    BY <1>2, <1>10 DEF Drop
  <2> QED BY <2>1, <2>2, StaysKept
<1>11. CASE Unpin(t)
  <2>1. at[t].step = "dropped" /\ x \in Frame
    BY <1>11, StepFields DEF Unpin, IInv, TypeOK
  <2>2. /\ frames' = [frames EXCEPT ![x].pin = @ - 1]
        /\ UNCHANGED <<entry, aborted>>
        /\ at' = [at EXCEPT ![t] = [step |-> "unpinned", frame |-> x]]
    BY <1>11 DEF Unpin, Go
  <2>3. CASE f = x
    BY <1>1, <2>2, <2>3 DEF Kept
  <2>4. CASE f # x
    <3>1. frames'[f].pin = frames[f].pin
      BY <1>1, <2>1, <2>2, <2>4
    <3> QED BY <1>1, <2>1, <2>2, <3>1, StaysKept
  <2> QED BY <2>3, <2>4
<1>12. CASE Settle(t)
  <2>1. at[t].step = "unpinned" /\ x \in Frame
    BY <1>12, StepFields DEF Settle, IInv, TypeOK
  <2>2. /\ entry' = IF frames[x].pin = 0 THEN R!WithEvictable(entry, x, TRUE) ELSE entry
        /\ UNCHANGED <<frames, aborted>>
        /\ \A u \in Thread : u # t => at'[u] = at[u]
    BY <1>2, <1>12 DEF Settle
  <2>3. CASE f = x
    BY <1>1, <2>2, <2>3 DEF Kept, R!WithEvictable
  <2>4. CASE f # x
    <3>1. entry'[f] = entry[f]
      BY <1>1, <2>1, <2>2, <2>4 DEF R!WithEvictable
    <3> QED BY <2>2, <2>4, <3>1, StaysKept
  <2> QED BY <2>3, <2>4
<1>13. CASE \E p \in Page : FlushOne(t, p)
  <2>1. PICK p \in Page : FlushOne(t, p)
    BY <1>13
  <2>2. at[t].step = "flushing" /\ page_table[p] \in Frame
    BY <2>1 DEF FlushOne, Resident, IInv, TypeOK, FlushersInv
  <2>3. /\ frames' = [frames EXCEPT ![page_table[p]].dirty = FALSE]
        /\ UNCHANGED <<entry, aborted>>
        /\ \A u \in Thread : u # t => at'[u] = at[u]
    BY <1>2, <2>1 DEF FlushOne
  <2>4. frames'[f].pin = frames[f].pin
    BY <1>1, <2>2, <2>3
  <2> QED BY <2>2, <2>3, <2>4, StaysKept
<1> QED BY <1>3, <1>5, <1>6, <1>7, <1>8, <1>9, <1>10, <1>11, <1>12, <1>13 DEF Finish, Fetch

LEMMA NextKept ==
    ASSUME IInv, [Next]_vars, NEW f \in Frame, Kept(f)
    PROVE  Kept(f)'
<1>1. /\ frames \in [Frame -> [data : SUBSET Change, pin : Nat, dirty : BOOLEAN]]
      /\ entry \in [Frame -> R!Status]
      /\ at \in [Thread -> Step]
  BY DEF IInv, TypeOK
<1>2. CASE UNCHANGED vars
  BY <1>2 DEF vars, Kept
<1>3. ASSUME NEW t \in Thread, NewPage(t) PROVE Kept(f)'
  BY <1>3 DEF NewPage, Kept
<1>4. ASSUME NEW t \in Thread, Call(t) PROVE Kept(f)'
  <2>1. at[t].step = "idle" /\ UNCHANGED <<frames, entry, aborted>>
    BY <1>4, StepIn DEF Call, CallFetch, FlushPage, FlushAllPages, BeginFlush, CanCall
  <2>2. \A u \in Thread : u # t => at'[u] = at[u]
    BY <1>1, <1>4 DEF Call, CallFetch, FlushPage, FlushAllPages, BeginFlush, Go
  <2> QED BY <2>1, <2>2, StaysKept
<1>5. ASSUME NEW t \in Thread, NEW g \in guards[t], Write(t, g) PROVE Kept(f)'
  <2>1. PICK d : frames' = [frames EXCEPT ![g.frame].data = d]
    BY <1>5 DEF Write
  <2>2. frames'[f].pin = frames[f].pin /\ UNCHANGED <<entry, at, aborted>>
    BY <1>1, <1>5, <2>1 DEF Write
  <2> QED BY <2>2 DEF Kept
<1>6. ASSUME NEW t \in Thread, NEW g \in guards[t], GuardFlush(t, g) PROVE Kept(f)'
  <2>1. at[t].step = "idle" /\ UNCHANGED <<frames, entry, aborted>>
    BY <1>6, StepIn DEF GuardFlush, Using
  <2>2. \A u \in Thread : u # t => at'[u] = at[u]
    BY <1>1, <1>6 DEF GuardFlush, Go
  <2> QED BY <2>1, <2>2, StaysKept
<1>7. ASSUME NEW t \in Thread, NEW p \in Page, DeletePage(t, p) PROVE Kept(f)'
  <2>1. UNCHANGED at
    BY <1>7 DEF DeletePage
  <2>2. CASE DeleteResident(p)
    <3> DEFINE e == page_table[p]
    <3>1. e \in Frame
      BY <2>2 DEF DeleteResident, Resident, IInv, TypeOK
    <3>2. /\ entry' = R!Forgotten(entry, e)
          /\ frames' = [frames EXCEPT ![e] = [data |-> {}, pin |-> 0, dirty |-> FALSE]]
          /\ UNCHANGED aborted
      BY <2>2 DEF DeleteResident
    <3>3. entry'[f] = "absent" \/ (entry'[f] = entry[f] /\ frames'[f] = frames[f])
      BY <1>1, <3>1, <3>2 DEF R!Forgotten
    <3> QED BY <2>1, <3>2, <3>3 DEF Kept
  <2>3. CASE DeleteAborts(p)
    BY <2>3 DEF DeleteAborts, Kept
  <2>4. CASE DeleteAbsent(p) \/ DeletePinned(p)
    BY <2>1, <2>4 DEF DeleteAbsent, DeletePinned, Kept
  <2> QED BY <1>7, <2>2, <2>3, <2>4 DEF DeletePage
<1> QED BY <1>2, <1>3, <1>4, <1>5, <1>6, <1>7, FinishKept DEF Next

\* In every interleaving of Drops and fetches a frame that nobody pins can be evicted,
\* or a Drop is about to make it so.
THEOREM PoolNoFrameLost == Spec => []NoFrameLost
<1>1. Init => NoFrameLost
  <2>1. Init => IInv /\ \A f \in Frame : entry[f] = "absent"
    BY InitInv DEF Init
  <2> QED BY <2>1 DEF IInv, OneHome, NoFrameLost
<1>2. IInv /\ NoFrameLost /\ IInv' /\ [Next]_vars => NoFrameLost'
  BY KeptFrames, KeptNext, NextKept
<1> QED BY <1>1, <1>2, PoolInvariant, PTL DEF Spec

-----------------------------------------------------------------------------
(* No change to a page is lost, if nobody writes to a page after Flush on its guard. *)

\* NoLostUpdate, of one page.
Safe(p) ==
    p \notin deallocated =>
        /\ Resident(p) => frames[page_table[p]].data = latest[p]
        /\ (Resident(p) => ~frames[page_table[p]].dirty) => disk[p] = latest[p]

\* A page under a write guard is dirty until Flush on that guard.
DirtyGuards ==
    \A t \in Thread : \A g \in guards[t] :
        g.mode = "write" /\ ~g.flushed => frames[g.frame].dirty

\* Between the write of a guard's Flush and the change of the flag nobody writes the page.
WrittenPages ==
    \A t \in Thread :
        at[t].step = "written" /\ at[t].guard.page \notin deallocated =>
            disk[at[t].guard.page] = latest[at[t].guard.page]

DInv == (\A p \in Page : Safe(p)) /\ DirtyGuards /\ WrittenPages

LEMMA SafePages == (\A p \in Page : Safe(p)) <=> NoLostUpdate
  BY DEF Safe, NoLostUpdate

\* Frames of different pages differ.
LEMMA FramesApart ==
    ASSUME IInv, NEW p \in Page, NEW f \in Frame
    PROVE  /\ page_table[p] = f => Resident(p) /\ frame_to_page[f] = p
           /\ frame_to_page[f] = p => page_table[p] = f
           /\ Resident(p) => page_table[p] \in Frame
  BY NamesAssumption DEF IInv, TypeOK, OneHome, Resident

\* Memory, disk and guards as they were: only what threads do changes.
LEMMA SameData ==
    ASSUME IInv, DInv, NEW t \in Thread,
           UNCHANGED <<page_table, frames, disk, latest, guards>>,
           deallocated \subseteq deallocated',
           \A u \in Thread : u # t => at'[u] = at[u],
           at'[t].step = "written" => at'[t] = at[t]
    PROVE  DInv'
<1>1. \A p \in Page : Safe(p)'
  BY DEF DInv, Safe, Resident
<1>2. DirtyGuards'
  BY DEF DInv, DirtyGuards
<1>3. WrittenPages'
  BY DEF DInv, WrittenPages
<1> QED BY <1>1, <1>2, <1>3 DEF DInv

LEMMA FetchHitData ==
    ASSUME IInv, DInv, NEW t \in Thread, FetchHit(t)
    PROVE  DInv'
<1> DEFINE f == page_table[at[t].page]
           next == [step |-> "latching", page |-> at[t].page, frame |-> f, mode |-> at[t].mode]
<1>1. f \in Frame
  BY StepFields DEF FetchHit, Fetching, IInv, TypeOK, Resident
<1>2. \A e \in Frame : frames'[e].data = frames[e].data /\ frames'[e].dirty = frames[e].dirty
  <2>1. frames' = [frames EXCEPT ![f].pin = @ + 1]
    BY DEF FetchHit
  <2>2. frames \in [Frame -> [data : SUBSET Change, pin : Nat, dirty : BOOLEAN]]
    BY DEF IInv, TypeOK
  <2> QED BY <1>1, <2>1, <2>2
<1>3. at'[t] = next /\ \A u \in Thread : u # t => at'[u] = at[u]
  BY DEF FetchHit, GoLatching, Go, IInv, TypeOK
<1>4. UNCHANGED <<page_table, disk, latest, guards, deallocated>>
  BY DEF FetchHit, Fetching, maps
<1>5. \A p \in Page : Safe(p)'
  BY <1>2, <1>4, FramesApart, NamesAssumption DEF DInv, Safe, Resident, IInv, TypeOK
<1>6. DirtyGuards'
  BY <1>2, <1>4 DEF DInv, DirtyGuards, IInv, TypeOK, Guard
<1>7. WrittenPages'
  BY <1>3, <1>4 DEF DInv, WrittenPages
<1> QED BY <1>5, <1>6, <1>7 DEF DInv

LEMMA FetchFreeData ==
    ASSUME IInv, DInv, NEW t \in Thread, FetchFree(t)
    PROVE  DInv'
<1> DEFINE p == at[t].page
           f == Head(free_frames)
           next == [step |-> "latching", page |-> p, frame |-> f, mode |-> at[t].mode]
<1>1. at[t].step = "fetch" /\ p \in Page /\ ~Resident(p) /\ f \in Frame /\ InFree(f)
  <2>1. free_frames \in Seq(Frame) /\ free_frames # <<>>
    BY DEF FetchFree, IInv, TypeOK
  <2>2. f \in Frame /\ f = free_frames[1] /\ 1 \in DOMAIN free_frames
    BY <2>1, HeadTailProperties, LenProperties, EmptySeq
  <2> QED BY <2>2, StepFields DEF FetchFree, Fetching, IInv, TypeOK, InFree
<1>2. frames[f].pin = 0 /\ frame_to_page[f] = NoPage
  BY <1>1 DEF IInv, OneHome, PinnedTracked
<1>3. Guarding(f) = {} /\ \A q \in Page : page_table[q] # f
  BY <1>1, <1>2, PinFacts, PageFacts DEF IInv, OneHome
<1>4. /\ frames' = [frames EXCEPT ![f] = [data |-> disk[p], pin |-> 1, dirty |-> frames[f].dirty]]
      /\ page_table' = [page_table EXCEPT ![p] = f]
      /\ Go(t, next)
      /\ UNCHANGED <<disk, latest, guards, deallocated>>
  BY DEF FetchFree, Fetching, Load, GoLatching
<1>5. /\ frames'[f].data = disk[p]
      /\ \A e \in Frame : e # f => frames'[e] = frames[e]
      /\ page_table'[p] = f
      /\ \A q \in Page : q # p => page_table'[q] = page_table[q]
      /\ at'[t] = next /\ \A u \in Thread : u # t => at'[u] = at[u]
  BY <1>1, <1>4 DEF IInv, TypeOK, Go
<1>6. ASSUME NEW q \in Page PROVE Safe(q)'
  <2>1. Safe(q)
    BY DEF DInv
  <2>2. CASE q = p
    BY <1>1, <1>4, <1>5, <2>1, <2>2 DEF Safe
  <2>3. CASE q # p
    BY <1>3, <1>4, <1>5, <2>1, <2>3, FramesApart DEF Safe, Resident
  <2> QED BY <2>2, <2>3
<1>7. DirtyGuards'
  BY <1>3, <1>4, <1>5 DEF DInv, DirtyGuards, Guarding, IInv, TypeOK, Guard
<1>8. WrittenPages'
  BY <1>4, <1>5 DEF DInv, WrittenPages
<1> QED BY <1>6, <1>7, <1>8 DEF DInv

LEMMA FetchEvictData ==
    ASSUME IInv, DInv, NEW t \in Thread, NEW f \in Frame, FetchEvict(t, f)
    PROVE  DInv'
<1> DEFINE p == at[t].page
           v == frame_to_page[f]
           next == [step |-> "latching", page |-> p, frame |-> f, mode |-> at[t].mode]
<1>1. at[t].step = "fetch" /\ p \in Page /\ ~Resident(p)
  BY StepFields DEF FetchEvict, Fetching, IInv, TypeOK
<1>2. /\ frames[f].pin = 0 /\ v \in Page /\ v # p
      /\ page_table[v] = f /\ \A q \in Page : page_table[q] = f => q = v
  <2>1. entry[f] = "evictable"
    BY DEF FetchEvict, R!Evictable
  <2>2. v \in Page
    BY <2>1 DEF IInv, TypeOK, OneHome
  <2> QED BY <1>1, <2>1, <2>2, NamesAssumption DEF IInv, OneHome, PinnedTracked, Resident
<1>3. Guarding(f) = {}
  BY <1>2, PinFacts
<1>4. /\ frames' = [frames EXCEPT ![f] = [data |-> WrittenBack(f)[p], pin |-> 1, dirty |-> FALSE]]
      /\ page_table' = [q \in Page |-> IF q = p THEN f
                                       ELSE IF q = frame_to_page[f] THEN NoFrame
                                       ELSE page_table[q]]
      /\ disk' = WrittenBack(f)
      /\ Go(t, next)
      /\ UNCHANGED <<latest, guards, deallocated>>
  BY DEF FetchEvict, Fetching, Load, GoLatching
<1>5. /\ disk'[v] = IF frames[f].dirty THEN frames[f].data ELSE disk[v]
      /\ \A q \in Page : q # v => disk'[q] = disk[q]
  BY <1>2, <1>4, PageFacts DEF WrittenBack, IInv, TypeOK
<1>6. /\ frames'[f].data = disk[p] /\ frames'[f].dirty = FALSE
      /\ \A e \in Frame : e # f => frames'[e] = frames[e]
      /\ page_table'[p] = f /\ page_table'[v] = NoFrame
      /\ \A q \in Page : q # p /\ q # v => page_table'[q] = page_table[q]
      /\ at'[t] = next /\ \A u \in Thread : u # t => at'[u] = at[u]
  BY <1>1, <1>2, <1>4, <1>5 DEF IInv, TypeOK, Go
<1>7. v \notin deallocated => disk'[v] = latest[v]
  <2>1. Safe(v) /\ Resident(v)
    BY <1>2, NamesAssumption DEF DInv, Resident
  <2> QED BY <1>2, <1>5, <2>1 DEF Safe
<1>8. ASSUME NEW q \in Page PROVE Safe(q)'
  <2>1. Safe(q)
    BY DEF DInv
  <2>2. CASE q = p
    BY <1>1, <1>2, <1>4, <1>5, <1>6, <2>1, <2>2 DEF Safe
  <2>3. CASE q = v
    BY <1>4, <1>6, <1>7, <2>3 DEF Safe, Resident
  <2>4. CASE q # p /\ q # v
    <3>1. Resident(q) => page_table[q] \in Frame /\ page_table[q] # f
      BY <1>2, <2>4 DEF Resident, IInv, TypeOK
    <3> QED BY <1>4, <1>5, <1>6, <2>1, <2>4, <3>1 DEF Safe, Resident
  <2> QED BY <2>2, <2>3, <2>4
<1>9. DirtyGuards'
  BY <1>3, <1>4, <1>6 DEF DInv, DirtyGuards, Guarding, IInv, TypeOK, Guard
<1>10. WrittenPages'
  <2> SUFFICES ASSUME NEW u \in Thread, at'[u].step = "written",
                      at'[u].guard.page \notin deallocated
               PROVE  disk'[at'[u].guard.page] = latest[at'[u].guard.page]
    BY <1>4 DEF WrittenPages
  <2>1. u # t /\ at'[u] = at[u] /\ at[u].guard.page \in Page
    BY <1>6, StepFields DEF IInv, TypeOK, Guard
  <2> QED BY <1>5, <1>7, <2>1 DEF DInv, WrittenPages
<1> QED BY <1>8, <1>9, <1>10 DEF DInv

\* A guard is on the page of its frame, and a writer's guard is the only one on it.
LEMMA GuardFacts ==
    ASSUME IInv, NEW t \in Thread, NEW g \in guards[t]
    PROVE  /\ g.page \in Page /\ g.frame \in Frame /\ g.mode \in Mode /\ g.flushed \in BOOLEAN
           /\ page_table[g.page] = g.frame /\ frame_to_page[g.frame] = g.page
           /\ Resident(g.page)
           /\ \A u \in Thread : \A h \in guards[u] :
                 h.frame = g.frame /\ (g.mode = "write" \/ h.mode = "write") => u = t /\ h = g
<1>1. g.page \in Page /\ g.frame \in Frame /\ g.mode \in Mode /\ g.flushed \in BOOLEAN
  BY DEF IInv, TypeOK, Guard
<1>2. page_table[g.page] = g.frame /\ frame_to_page[g.frame] = g.page
  BY <1>1 DEF IInv, GuardedPagesStay, OneHome
<1>3. Resident(g.page)
  BY <1>1, <1>2, FramesApart
<1>4. ASSUME NEW u \in Thread, NEW h \in guards[u], h.frame = g.frame,
             g.mode = "write" \/ h.mode = "write"
      PROVE  u = t /\ h = g
  <2>1. h.page = g.page
    <3>1. h.page \in Page /\ page_table[h.page] = h.frame
      BY DEF IInv, TypeOK, Guard, GuardedPagesStay
    <3> QED BY <1>1, <1>2, <1>4, <3>1 DEF IInv, OneHome
  <2>2. u = t
    BY <1>4, <2>1 DEF IInv, GuardedPagesStay
  <2> QED BY <2>1, <2>2 DEF IInv, CallersInv
<1> QED BY <1>1, <1>2, <1>3, <1>4

LEMMA LockData ==
    ASSUME IInv, DInv, NEW t \in Thread, Lock(t)
    PROVE  DInv'
<1> DEFINE f == at[t].frame
           new == [page |-> at[t].page, frame |-> f, mode |-> at[t].mode, flushed |-> FALSE]
<1>1. f \in Frame
  BY StepFields DEF Lock, IInv, TypeOK
<1>2. /\ \A e \in Frame : /\ frames'[e].data = frames[e].data
                          /\ frames[e].dirty => frames'[e].dirty
      /\ at[t].mode = "write" => frames'[f].dirty
  <2>1. frames' = [frames EXCEPT ![f].dirty = @ \/ at[t].mode = "write"]
    BY DEF Lock
  <2>2. frames \in [Frame -> [data : SUBSET Change, pin : Nat, dirty : BOOLEAN]]
    BY DEF IInv, TypeOK
  <2> QED BY <1>1, <2>1, <2>2
<1>3. at'[t] = Idle /\ \A u \in Thread : u # t => at'[u] = at[u]
  BY DEF Lock, Go, IInv, TypeOK
<1>4. /\ guards'[t] = guards[t] \cup {new}
      /\ \A u \in Thread : u # t => guards'[u] = guards[u]
  BY DEF Lock, IInv, TypeOK
<1>5. UNCHANGED <<page_table, disk, deallocated, latest>>
  BY DEF Lock, maps
<1>6. ASSUME NEW p \in Page PROVE Safe(p)'
  <2>1. Safe(p) /\ (Resident(p) => page_table[p] \in Frame)
    BY <1>1, FramesApart DEF DInv
  <2> QED BY <1>2, <1>5, <2>1 DEF Safe, Resident
<1>7. ASSUME NEW u \in Thread, NEW g \in guards'[u], g.mode = "write", ~g.flushed
      PROVE  frames'[g.frame].dirty
  <2>1. CASE g \in guards[u]
    BY <1>2, <1>7, <2>1, GuardFacts DEF DInv, DirtyGuards
  <2>2. CASE g \notin guards[u]
    BY <1>2, <1>4, <1>7, <2>2
  <2> QED BY <2>1, <2>2
<1>8. DirtyGuards'
  BY <1>7 DEF DirtyGuards
<1>9. WrittenPages'
  BY <1>3, <1>5, StepIn DEF DInv, WrittenPages
<1> QED BY <1>6, <1>8, <1>9 DEF DInv

LEMMA WriteData ==
    ASSUME Rewriting = {}, IInv, DInv, NEW t \in Thread, NEW g \in guards[t], Write(t, g)
    PROVE  DInv'
<1> DEFINE p == g.page
           f == g.frame
           change == <<p, Cardinality(latest[p]) + 1>>
<1>1. /\ p \in Page /\ f \in Frame /\ page_table[p] = f
      /\ g.mode = "write" /\ frames[f].dirty /\ at[t] = Idle
  BY GuardFacts DEF Write, Using, DInv, DirtyGuards
<1>2. \A u \in Thread : \A h \in guards[u] : h.frame = f => u = t
  BY <1>1, GuardFacts
<1> HIDE DEF change
<1>3. /\ frames'[f].data = frames[f].data \cup {change} /\ frames'[f].dirty
      /\ \A e \in Frame : frames'[e].dirty = frames[e].dirty
      /\ \A e \in Frame : e # f => frames'[e].data = frames[e].data
  <2>1. frames' = [frames EXCEPT ![f].data = @ \cup {change}]
    BY DEF Write, change
  <2>2. frames \in [Frame -> [data : SUBSET Change, pin : Nat, dirty : BOOLEAN]]
    BY DEF IInv, TypeOK
  <2> QED BY <1>1, <2>1, <2>2
<1>4. latest'[p] = latest[p] \cup {change} /\ \A q \in Page : q # p => latest'[q] = latest[q]
  <2>1. latest' = [latest EXCEPT ![p] = @ \cup {change}]
    BY DEF Write, change
  <2> QED BY <1>1, <2>1 DEF IInv, TypeOK
<1>5. UNCHANGED <<page_table, disk, deallocated, guards, at>>
  BY DEF Write, maps
<1>6. ASSUME NEW q \in Page PROVE Safe(q)'
  <2>1. Safe(q)
    BY DEF DInv
  <2>2. CASE q = p
    <3>1. p \notin deallocated => frames[f].data = latest[p]
      BY <1>1, <2>1, <2>2, FramesApart DEF Safe
    <3>2. p \notin deallocated => frames'[f].data = latest'[p]
      BY <1>3, <1>4, <3>1
    <3>3. Resident(p)' /\ page_table'[p] = f /\ deallocated' = deallocated
      BY <1>1, <1>5, NamesAssumption DEF Resident
    <3> QED BY <1>3, <2>2, <3>2, <3>3 DEF Safe
  <2>3. CASE q # p
    <3>1. Resident(q) => page_table[q] \in Frame /\ page_table[q] # f
      BY <1>1, <2>3, FramesApart
    <3> QED BY <1>3, <1>4, <1>5, <2>1, <2>3, <3>1 DEF Safe, Resident
  <2> QED BY <2>2, <2>3
<1>7. DirtyGuards'
  BY <1>3, <1>5, GuardFacts DEF DInv, DirtyGuards
<1>8. ASSUME NEW u \in Thread, at[u].step = "written", at[u].guard.page \notin deallocated
      PROVE  disk[at[u].guard.page] = latest'[at[u].guard.page]
  <2>1. u # t /\ at[u].guard \in guards[u]
    BY <1>1, <1>8, StepIn DEF IInv, CallersInv
  <2>2. at[u].guard.page \in Page /\ at[u].guard.page # p
    BY <1>1, <1>2, <2>1, GuardFacts
  <2> QED BY <1>4, <1>8, <2>2 DEF DInv, WrittenPages
<1>9. WrittenPages'
  BY <1>5, <1>8 DEF WrittenPages
<1> QED BY <1>6, <1>7, <1>9 DEF DInv

LEMMA GuardFlushData ==
    ASSUME IInv, DInv, NEW t \in Thread, NEW g \in guards[t], GuardFlush(t, g)
    PROVE  DInv'
<1> DEFINE p == g.page
           next == [step |-> "written", guard |-> g]
<1>1. p \in Page /\ page_table[p] = g.frame /\ Resident(p)
  BY GuardFacts
<1>2. disk'[p] = frames[g.frame].data /\ \A q \in Page : q # p => disk'[q] = disk[q]
  BY <1>1 DEF GuardFlush, IInv, TypeOK
<1>3. at'[t] = next /\ \A u \in Thread : u # t => at'[u] = at[u]
  BY DEF GuardFlush, Go, IInv, TypeOK
<1>4. UNCHANGED <<page_table, frames, deallocated, guards, latest>>
  BY DEF GuardFlush, maps
<1>5. p \notin deallocated => disk'[p] = latest[p]
  BY <1>1, <1>2 DEF DInv, Safe
<1>6. ASSUME NEW q \in Page PROVE Safe(q)'
  BY <1>2, <1>4, <1>5 DEF DInv, Safe, Resident
<1>7. DirtyGuards'
  BY <1>4 DEF DInv, DirtyGuards
<1>8. ASSUME NEW u \in Thread, at'[u].step = "written", at'[u].guard.page \notin deallocated
      PROVE  disk'[at'[u].guard.page] = latest[at'[u].guard.page]
  <2>1. CASE u = t
    BY <1>3, <1>5, <1>8, <2>1
  <2>2. CASE u # t
    <3>1. at'[u] = at[u] /\ at[u].guard.page \in Page
      BY <1>3, <1>8, <2>2, StepFields DEF IInv, TypeOK, Guard
    <3> QED BY <1>2, <1>5, <1>8, <3>1 DEF DInv, WrittenPages
  <2> QED BY <2>1, <2>2
<1>9. WrittenPages'
  BY <1>4, <1>8 DEF WrittenPages
<1> QED BY <1>6, <1>7, <1>9 DEF DInv

LEMMA ClearDirtyData ==
    ASSUME IInv, DInv, NEW t \in Thread, ClearDirty(t)
    PROVE  DInv'
<1> DEFINE g == at[t].guard
           f == g.frame
           new == [g EXCEPT !.flushed = TRUE]
<1>1. at[t].step = "written" /\ g \in guards[t] /\ g \in Guard
  BY StepFields DEF ClearDirty, IInv, TypeOK, CallersInv
<1>2. f \in Frame /\ g.page \in Page /\ page_table[g.page] = f
  BY <1>1, GuardFacts
<1>3. /\ \A e \in Frame : frames'[e].data = frames[e].data
      /\ \A e \in Frame : e # f => frames'[e] = frames[e]
  <2>1. frames' = [frames EXCEPT ![f].dirty = FALSE]
    BY DEF ClearDirty
  <2>2. frames \in [Frame -> [data : SUBSET Change, pin : Nat, dirty : BOOLEAN]]
    BY DEF IInv, TypeOK
  <2> QED BY <1>2, <2>1, <2>2
<1>4. at'[t] = Idle /\ \A u \in Thread : u # t => at'[u] = at[u]
  BY DEF ClearDirty, Go, IInv, TypeOK
<1>5. /\ guards'[t] = (guards[t] \ {g}) \cup {new}
      /\ \A u \in Thread : u # t => guards'[u] = guards[u]
  BY DEF ClearDirty, IInv, TypeOK
<1>6. UNCHANGED <<page_table, disk, deallocated, latest>>
  BY DEF ClearDirty, maps
<1>7. ASSUME NEW q \in Page PROVE Safe(q)'
  <2>1. Safe(q) /\ (Resident(q) => page_table[q] \in Frame)
    BY <1>2, FramesApart DEF DInv
  <2>2. CASE page_table[q] = f
    <3>1. q = g.page
      BY <1>2, <2>2, FramesApart
    <3>2. q \notin deallocated => disk[q] = latest[q]
      BY <1>1, <3>1 DEF DInv, WrittenPages
    <3> QED BY <1>3, <1>6, <2>1, <3>2 DEF Safe, Resident
  <2>3. CASE page_table[q] # f
    BY <1>3, <1>6, <2>1, <2>3 DEF Safe, Resident
  <2> QED BY <2>2, <2>3
<1>8. ASSUME NEW u \in Thread, NEW h \in guards'[u], h.mode = "write", ~h.flushed
      PROVE  frames'[h.frame].dirty
  <2>1. new.flushed = TRUE
    BY <1>1 DEF Guard
  <2>2. h \in guards[u] /\ ~(u = t /\ h = g)
    BY <1>5, <1>8, <2>1
  <2>3. h.frame \in Frame /\ h.frame # f
    BY <1>1, <1>8, <2>2, GuardFacts
  <2> QED BY <1>3, <1>8, <2>2, <2>3 DEF DInv, DirtyGuards
<1>9. DirtyGuards'
  BY <1>8 DEF DirtyGuards
<1>10. WrittenPages'
  BY <1>4, <1>6, StepIn DEF DInv, WrittenPages
<1> QED BY <1>7, <1>9, <1>10 DEF DInv

LEMMA DropData ==
    ASSUME IInv, DInv, NEW t \in Thread, NEW g \in guards[t], Drop(t, g)
    PROVE  DInv'
<1>1. /\ at'[t].step = "dropped" /\ \A u \in Thread : u # t => at'[u] = at[u]
      /\ \A u \in Thread : guards'[u] \subseteq guards[u]
  BY DEF Drop, Go, IInv, TypeOK
<1>2. UNCHANGED <<page_table, frames, disk, deallocated, latest>>
  BY DEF Drop, maps
<1>3. \A p \in Page : Safe(p)'
  BY <1>2 DEF DInv, Safe, Resident
<1>4. DirtyGuards'
  BY <1>1, <1>2 DEF DInv, DirtyGuards
<1>5. WrittenPages'
  BY <1>1, <1>2 DEF DInv, WrittenPages
<1> QED BY <1>3, <1>4, <1>5 DEF DInv

LEMMA UnpinData ==
    ASSUME IInv, DInv, NEW t \in Thread, Unpin(t)
    PROVE  DInv'
<1>1. \A e \in Frame : frames'[e].data = frames[e].data /\ frames'[e].dirty = frames[e].dirty
  <2>1. frames' = [frames EXCEPT ![at[t].frame].pin = @ - 1] /\ at[t].frame \in Frame
    BY StepFields DEF Unpin, IInv, TypeOK
  <2>2. frames \in [Frame -> [data : SUBSET Change, pin : Nat, dirty : BOOLEAN]]
    BY DEF IInv, TypeOK
  <2> QED BY <2>1, <2>2
<1>2. at'[t].step = "unpinned" /\ \A u \in Thread : u # t => at'[u] = at[u]
  BY DEF Unpin, Go, IInv, TypeOK
<1>3. UNCHANGED <<page_table, disk, deallocated, guards, latest>>
  BY DEF Unpin, maps
<1>4. ASSUME NEW p \in Page PROVE Safe(p)'
  <2>1. Safe(p) /\ (Resident(p) => page_table[p] \in Frame)
    BY DEF DInv, Resident, IInv, TypeOK
  <2> QED BY <1>1, <1>3, <2>1 DEF Safe, Resident
<1>5. DirtyGuards'
  BY <1>1, <1>3, GuardFacts DEF DInv, DirtyGuards
<1>6. WrittenPages'
  BY <1>2, <1>3 DEF DInv, WrittenPages
<1> QED BY <1>4, <1>5, <1>6 DEF DInv

LEMMA DeletePageData ==
    ASSUME IInv, DInv, NEW t \in Thread, NEW p \in Page, DeletePage(t, p)
    PROVE  DInv'
<1> DEFINE f == page_table[p]
<1>1. UNCHANGED <<disk, guards, at, latest>> /\ deallocated \subseteq deallocated'
  BY DEF DeletePage, DeleteAbsent, DeletePinned, DeleteResident, DeleteAborts, Deallocate
<1>2. WrittenPages'
  BY <1>1 DEF DInv, WrittenPages
<1>3. CASE UNCHANGED <<maps, frames>>
  <2>1. UNCHANGED <<page_table, frames>>
    BY <1>3 DEF maps
  <2>2. \A q \in Page : Safe(q)'
    BY <1>1, <2>1 DEF DInv, Safe, Resident
  <2>3. DirtyGuards'
    BY <1>1, <2>1 DEF DInv, DirtyGuards
  <2> QED BY <1>2, <2>2, <2>3 DEF DInv
<1>4. CASE DeleteResident(p)
  <2>1. f \in Frame /\ frames[f].pin = 0
    BY <1>4 DEF DeleteResident, Resident, IInv, TypeOK
  <2>2. Guarding(f) = {}
    BY <2>1, PinFacts
  <2>3. /\ p \in deallocated'
        /\ \A q \in Page : q # p => page_table'[q] = page_table[q]
        /\ \A e \in Frame : e # f => frames'[e] = frames[e]
    BY <1>4, <2>1 DEF DeleteResident, Deallocate, IInv, TypeOK
  <2>4. ASSUME NEW q \in Page PROVE Safe(q)'
    <3>1. CASE q = p
      BY <2>3, <3>1 DEF Safe
    <3>2. CASE q # p
      <4>1. Safe(q) /\ (Resident(q) => page_table[q] \in Frame /\ page_table[q] # f)
        BY <2>1, <3>2, FramesApart DEF DInv
      <4> QED BY <1>1, <2>3, <3>2, <4>1 DEF Safe, Resident
    <3> QED BY <3>1, <3>2
  <2>5. DirtyGuards'
    BY <1>1, <2>2, <2>3, GuardFacts DEF DInv, DirtyGuards, Guarding
  <2> QED BY <1>2, <2>4, <2>5 DEF DInv
<1> QED BY <1>3, <1>4 DEF DeletePage, DeleteAbsent, DeletePinned, DeleteAborts

LEMMA FlushOneData ==
    ASSUME IInv, DInv, NEW t \in Thread, NEW p \in Page, FlushOne(t, p)
    PROVE  DInv'
<1> DEFINE f == page_table[p]
           next == IF at[t].todo \ {p} = {} THEN Idle
                   ELSE [step |-> "flushing", todo |-> at[t].todo \ {p}]
<1>1. f \in Frame /\ Resident(p)
  BY DEF FlushOne, FlushersInv, Resident, IInv, TypeOK
<1>2. \A u \in Thread : \A g \in guards[u] : g.frame # f
  BY GuardFacts DEF FlushOne, Latched
<1>3. /\ disk' = IF frames[f].dirty THEN [disk EXCEPT ![p] = frames[f].data] ELSE disk
      /\ frames' = [frames EXCEPT ![f].dirty = FALSE]
      /\ Go(t, next)
      /\ UNCHANGED <<page_table, deallocated, guards, latest>>
  BY DEF FlushOne, maps
<1>4. /\ disk'[p] = IF frames[f].dirty THEN frames[f].data ELSE disk[p]
      /\ \A q \in Page : q # p => disk'[q] = disk[q]
  BY <1>3 DEF IInv, TypeOK
<1>5. /\ \A e \in Frame : frames'[e].data = frames[e].data
      /\ \A e \in Frame : e # f => frames'[e] = frames[e]
  <2>1. frames \in [Frame -> [data : SUBSET Change, pin : Nat, dirty : BOOLEAN]]
    BY DEF IInv, TypeOK
  <2> QED BY <1>1, <1>3, <2>1
<1>6. at'[t] = next /\ \A u \in Thread : u # t => at'[u] = at[u]
  BY <1>3 DEF Go, IInv, TypeOK
<1>7. p \notin deallocated => frames[f].data = latest[p] /\ disk'[p] = latest[p]
  BY <1>1, <1>4 DEF DInv, Safe
<1>8. ASSUME NEW q \in Page PROVE Safe(q)'
  <2>1. CASE q = p
    BY <1>1, <1>3, <1>5, <1>7, <2>1 DEF Safe
  <2>2. CASE q # p
    <3>1. Safe(q) /\ (Resident(q) => page_table[q] \in Frame /\ page_table[q] # f)
      BY <1>1, <2>2, FramesApart DEF DInv
    <3> QED BY <1>3, <1>4, <1>5, <2>2, <3>1 DEF Safe, Resident
  <2> QED BY <2>1, <2>2
<1>9. DirtyGuards'
  BY <1>2, <1>3, <1>5, GuardFacts DEF DInv, DirtyGuards
<1>10. ASSUME NEW u \in Thread, at'[u].step = "written", at'[u].guard.page \notin deallocated
       PROVE  disk'[at'[u].guard.page] = latest[at'[u].guard.page]
  <2>1. u # t /\ at'[u] = at[u] /\ at[u].guard.page \in Page
    BY <1>6, <1>10, StepFields, StepIn DEF IInv, TypeOK, Guard
  <2> QED BY <1>4, <1>7, <1>10, <2>1 DEF DInv, WrittenPages
<1>11. WrittenPages'
  BY <1>3, <1>10 DEF WrittenPages
<1> QED BY <1>8, <1>9, <1>11 DEF DInv

\* No step but a change, and the ends of the calls, touches what DInv is about.
LEMMA OtherData ==
    ASSUME IInv, DInv, NEW t \in Thread,
           \/ NewPage(t)
           \/ \E p \in Page, mode \in Mode : CallFetch(t, p, mode)
           \/ \E todo \in SUBSET Page : BeginFlush(t, todo)
           \/ FetchFail(t) \/ Settle(t)
    PROVE  DInv'
<1>1. UNCHANGED <<page_table, frames, disk, latest, guards, deallocated>>
  BY DEF NewPage, CallFetch, BeginFlush, FetchFail, Fetching, Settle, maps
<1>2. /\ \A u \in Thread : u # t => at'[u] = at[u]
      /\ at'[t].step = "written" => at'[t] = at[t]
  <2>1. CASE NewPage(t)
    BY <2>1 DEF NewPage
  <2>2. ASSUME NEW p \in Page, NEW mode \in Mode, CallFetch(t, p, mode)
        PROVE  at'[t].step = "fetch" /\ \A u \in Thread : u # t => at'[u] = at[u]
    BY <2>2 DEF CallFetch, Go, IInv, TypeOK
  <2>3. ASSUME NEW todo \in SUBSET Page, BeginFlush(t, todo)
        PROVE  at'[t].step = "flushing" /\ \A u \in Thread : u # t => at'[u] = at[u]
    BY <2>3 DEF BeginFlush, Go, IInv, TypeOK
  <2>4. ASSUME FetchFail(t) \/ Settle(t)
        PROVE  at'[t].step = "idle" /\ \A u \in Thread : u # t => at'[u] = at[u]
    BY <2>4, StepIn DEF FetchFail, Settle, Go, IInv, TypeOK
  <2> QED BY <2>1, <2>2, <2>3, <2>4
<1> QED BY <1>1, <1>2, SameData

LEMMA NextData ==
    ASSUME Rewriting = {}, IInv, DInv, [Next]_vars
    PROVE  DInv'
<1>1. CASE UNCHANGED vars
  BY <1>1 DEF vars, maps, DInv, Safe, Resident, DirtyGuards, WrittenPages
<1>2. CASE Next
  <2>1. PICK t \in Thread :
            \/ NewPage(t)
            \/ Call(t)
            \/ Finish(t)
            \/ \E g \in guards[t] : Write(t, g) \/ GuardFlush(t, g)
            \/ \E p \in Page : DeletePage(t, p)
    BY <1>2 DEF Next
  <2>2. CASE NewPage(t)
    BY <2>2, OtherData
  <2>3. CASE Call(t)
    <3>1. \A p \in Page : {p} \in SUBSET Page
      OBVIOUS
    <3>2. {p \in Page : Resident(p)} \in SUBSET Page
      OBVIOUS
    <3> QED BY <2>3, <3>1, <3>2, OtherData DEF Call, FlushPage, FlushAllPages
  <2>4. CASE Finish(t)
    BY <2>4, FetchHitData, FetchFreeData, FetchEvictData, OtherData, LockData, ClearDirtyData,
       UnpinData, DropData, FlushOneData DEF Finish, Fetch
  <2>5. CASE \E g \in guards[t] : Write(t, g) \/ GuardFlush(t, g)
    BY <2>5, WriteData, GuardFlushData
  <2>6. CASE \E p \in Page : DeletePage(t, p)
    BY <2>6, DeletePageData
  <2> QED BY <2>1, <2>2, <2>3, <2>4, <2>5, <2>6
<1> QED BY <1>1, <1>2

\* Through evictions, flushes of guards and pages, and every order of guards, no change to
\* a page is lost: the page has it in memory or, clean or evicted, on disk.
THEOREM PoolNoLostUpdate ==
    ASSUME Rewriting = {}
    PROVE  Spec => []NoLostUpdate
<1>1. Init => DInv
  BY StepIn DEF Init, DInv, Safe, Resident, DirtyGuards, WrittenPages
<1>2. IInv /\ DInv /\ [Next]_vars => DInv'
  BY NextData
<1>3. DInv => NoLostUpdate
  BY SafePages DEF DInv
<1> QED BY <1>1, <1>2, <1>3, PoolInvariant, PTL DEF Spec

=============================================================================
