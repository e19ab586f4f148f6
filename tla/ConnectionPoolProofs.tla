------------------------ MODULE ConnectionPoolProofs ------------------------
(***************************************************************************)
(* Safety of the session pool, and of the file-side workers on top of it,  *)
(* for any number of threads, any pool size and any configuration: type    *)
(* correctness, the slots_open accounting, exclusive, clean sessions and   *)
(* sufficient signals; requests answered once, and sessions pinned and     *)
(* given back, for the workers.                                            *)
(***************************************************************************)
EXTENDS WorkerPool, FiniteSetTheorems, WellFoundedInduction, TLAPS

-----------------------------------------------------------------------------
(* The inductive invariant                                                  *)

\* TypeOK without the range of slotsOpen, which only the accounting gives.
Shape ==
    /\ phase \in {"down", "up", "closed"}
    /\ slots \in [Slots -> SlotType]
    /\ slotsOpen \in Int
    /\ pc \in [Threads -> {"idle", "waiting", "woken", "held", "returning"}]
    /\ ctx \in [Threads -> [live : BOOLEAN, slot : Slots]]

\* Nobody is inside the pool while it is not up.
QuietUnlessUp == phase # "up" => \A t \in Threads : pc[t] = "idle"

\* The rollback is done before the slot is marked free.
ReturningClean ==
    RollbackOnReturn =>
      \A t \in Threads : pc[t] = "returning" => ~slots[ctx[t].slot].dirty

IInv ==
    /\ Shape
    /\ QuietUnlessUp
    /\ SlotsOpenCorrect
    /\ ExclusiveSessions
    /\ HeldSlotsInUse
    /\ FreeSlotsClean
    /\ ReturningClean

-----------------------------------------------------------------------------
(* Facts about the operators                                                *)

\* The lowest index of a non-empty set of slots is one of them.
LEMMA LowestIn ==
    ASSUME NEW S \in SUBSET Slots, S # {}
    PROVE  Lowest(S) \in S
<1>1. S \subseteq Nat
  BY PoolAssumption DEF Slots
<1>2. PICK n \in S : \A r \in S : <<r, n>> \notin OpToRel(<, Nat)
  BY <1>1, NatLessThanWellFounded, WFMin, Zenon
<1>3. \A r \in S : ~(r < n)
  <2> SUFFICES ASSUME NEW r \in S, r < n PROVE FALSE
    OBVIOUS
  <2>1. <<r, n>> \in Nat \X Nat /\ <<r, n>>[1] < <<r, n>>[2]
    BY <1>1
  <2>2. <<r, n>> \in OpToRel(<, Nat)
    BY <2>1, Zenon DEF OpToRel
  <2> QED
    BY <1>2, <2>2
<1>4. \A r \in S : n <= r
  BY <1>1, <1>3
<1> QED
  BY <1>4 DEF Lowest

\* Any set of slots is finite.
LEMMA SlotSetsFinite ==
    ASSUME NEW S \in SUBSET Slots
    PROVE  IsFiniteSet(S) /\ Cardinality(S) \in Nat /\ Cardinality(S) <= PoolMax
<1>1. IsFiniteSet(Slots) /\ Cardinality(Slots) = PoolMax
  <2>1. PoolMax \in Int /\ PoolMax - 1 \in Int /\ 0 \in Int /\ PoolMax >= 1
    BY PoolAssumption
  <2>2. IsFiniteSet(0 .. (PoolMax - 1))
        /\ Cardinality(0 .. (PoolMax - 1)) = IF 0 > PoolMax - 1 THEN 0 ELSE (PoolMax - 1) - 0 + 1
    BY <2>1, FS_Interval, Zenon
  <2> QED
    BY <2>1, <2>2 DEF Slots
<1>2. IsFiniteSet(S) /\ Cardinality(S) <= Cardinality(Slots)
  BY <1>1, FS_Subset, Zenon
<1> QED
  BY <1>1, <1>2, FS_CardinalityType

\* Slot 0 exists: it is what a zeroed context names.
LEMMA ZeroIsSlot == 0 \in Slots
  BY PoolAssumption DEF Slots

-----------------------------------------------------------------------------
(* Init                                                                     *)

\* Before Connect_pool every slot is closed and nobody borrows.
LEMMA InitIInv == Init => IInv
<1> SUFFICES ASSUME Init PROVE IInv
  OBVIOUS
<1>1. Shape /\ QuietUnlessUp
  BY ZeroIsSlot DEF Init, Shape, QuietUnlessUp, ClosedSlot, SlotType, ZeroCtx
<1>2. SlotsOpenCorrect
  <2>1. OpenSlots = {}
    BY DEF Init, OpenSlots, ClosedSlot
  <2> QED
    BY <2>1, FS_EmptySet DEF Init, SlotsOpenCorrect
<1>3. ExclusiveSessions /\ HeldSlotsInUse /\ ReturningClean
  BY DEF Init, ExclusiveSessions, HeldSlotsInUse, ReturningClean, Borrowers, ClosedSlot
<1>4. FreeSlotsClean
  BY DEF Init, FreeSlotsClean, FreeSlots, ClosedSlot
<1> QED
  BY <1>1, <1>2, <1>3, <1>4 DEF IInv

-----------------------------------------------------------------------------
(* get_session: both the scan and the growth path end in validate_and_grant *)

\* The tail of get_session(): whether the candidate is granted, reopened or
\* given up, the counter, the marks and the contexts stay in step.
LEMMA GrantStep ==
    ASSUME IInv, phase = "up", phase' = phase,
           NEW t \in Threads, pc[t] \in {"idle", "woken"},
           NEW s \in Slots, ~slots[s].inUse,
           NEW slot \in SlotType, slot.open, ~slot.inUse, RollbackOnReturn => ~slot.dirty,
           NEW n \in Int, n = Cardinality(OpenSlots \cup {s}),
           validate_and_grant(t, s, slot, n)
    PROVE  IInv'
<1>a. IsFiniteSet(OpenSlots \cup {s})
  BY SlotSetsFinite DEF OpenSlots
<1>1. CASE \E slot1 \in SlotType :
             /\ slot1.open /\ (RollbackOnReturn => ~slot1.dirty)
             /\ slotsOpen' = n /\ Granted(t, s, slot1)
  <2>1. PICK slot1 \in SlotType :
             /\ slot1.open /\ (RollbackOnReturn => ~slot1.dirty)
             /\ slotsOpen' = n /\ Granted(t, s, slot1)
    BY <1>1
  <2>2. Shape' /\ QuietUnlessUp'
    BY <2>1 DEF IInv, Shape, QuietUnlessUp, Granted, SlotType
  <2>3. OpenSlots' = OpenSlots \cup {s}
    BY <2>1 DEF IInv, Shape, Granted, OpenSlots, SlotType
  <2>4. SlotsOpenCorrect'
    BY <2>1, <2>3 DEF SlotsOpenCorrect
  <2>5. Borrowers' = Borrowers \cup {t} /\ t \notin Borrowers
        /\ ctx'[t].slot = s /\ ctx'[t].live /\ \A u \in Threads : u # t => ctx'[u] = ctx[u]
    BY <2>1 DEF IInv, Shape, Granted, Borrowers
  <2>6. slots'[s].inUse /\ slots'[s].open /\ \A r \in Slots : r # s => slots'[r] = slots[r]
    BY <2>1 DEF IInv, Shape, Granted, SlotType
  <2>7. ExclusiveSessions'
    <3>1. \A u \in Borrowers : ctx[u].slot # s
      BY DEF IInv, HeldSlotsInUse
    <3>2. \A u \in Borrowers : u # t /\ ctx'[u] = ctx[u]
      BY <2>5 DEF Borrowers
    <3> QED
      BY <2>5, <3>1, <3>2 DEF IInv, ExclusiveSessions
  <2>8. HeldSlotsInUse'
    BY <2>5, <2>6 DEF IInv, HeldSlotsInUse, Borrowers, Shape
  <2>9. FreeSlotsClean'
    BY <2>6 DEF IInv, FreeSlotsClean, FreeSlots
  <2>10. ReturningClean'
    BY <2>1, <2>5, <2>6 DEF IInv, ReturningClean, HeldSlotsInUse, Borrowers, Shape, Granted
  <2> QED
    BY <2>2, <2>4, <2>7, <2>8, <2>9, <2>10 DEF IInv
<1>2. CASE /\ slotsOpen' = n - 1
           /\ slots' = [slots EXCEPT ![s] = ClosedSlot]
           /\ pc' = [pc EXCEPT ![t] = "idle"]
           /\ ctx' = ctx
  <2>1. Shape' /\ QuietUnlessUp'
    BY <1>2 DEF IInv, Shape, QuietUnlessUp, ClosedSlot, SlotType
  <2>2. OpenSlots' = (OpenSlots \cup {s}) \ {s}
    BY <1>2 DEF IInv, Shape, OpenSlots, ClosedSlot
  <2>3. SlotsOpenCorrect'
    BY <1>2, <1>a, <2>2, FS_RemoveElement DEF SlotsOpenCorrect
  <2>4. Borrowers' = Borrowers
    BY <1>2 DEF IInv, Shape, Borrowers
  <2>5. ExclusiveSessions' /\ HeldSlotsInUse'
    BY <1>2, <2>4 DEF IInv, Shape, ExclusiveSessions, HeldSlotsInUse, ClosedSlot, Borrowers
  <2>6. FreeSlotsClean' /\ ReturningClean'
    BY <1>2 DEF IInv, Shape, FreeSlotsClean, FreeSlots, ReturningClean, HeldSlotsInUse,
       ClosedSlot, Borrowers
  <2> QED
    BY <2>1, <2>3, <2>5, <2>6 DEF IInv
<1>3. OpenedSlot \in SlotType /\ OpenedSlot.open /\ ~OpenedSlot.dirty
  BY DEF OpenedSlot, SlotType
<1> QED
  BY <1>1, <1>2, <1>3 DEF validate_and_grant

\* get_session() when the scan finds a free slot.
LEMMA FreeStep ==
    ASSUME IInv, NEW t \in Threads, get_session_free(t)
    PROVE  IInv'
<1> DEFINE s == Lowest(FreeSlots)
<1>1. s \in FreeSlots
  BY LowestIn DEF get_session_free, FreeSlots
<1>2. s \in Slots /\ slots[s] \in SlotType /\ slots[s].open /\ ~slots[s].inUse
      /\ (RollbackOnReturn => ~slots[s].dirty)
  BY <1>1 DEF IInv, Shape, FreeSlots, FreeSlotsClean
<1>3. slotsOpen \in Int /\ slotsOpen = Cardinality(OpenSlots \cup {s})
  <2>1. OpenSlots \cup {s} = OpenSlots
    BY <1>2 DEF OpenSlots
  <2> QED
    BY <2>1 DEF IInv, Shape, SlotsOpenCorrect
<1>4. phase = "up" /\ phase' = phase /\ pc[t] \in {"idle", "woken"}
      /\ validate_and_grant(t, s, slots[s], slotsOpen)
  BY DEF get_session_free
<1> QED
  BY <1>2, <1>3, <1>4, GrantStep

\* get_session() when it opens a closed slot.
LEMMA GrowStep ==
    ASSUME IInv, NEW t \in Threads, get_session_grow(t)
    PROVE  IInv'
<1> DEFINE s == Lowest(ClosedSlots)
<1>1. s \in ClosedSlots
  BY LowestIn DEF get_session_grow, ClosedSlots
<1>2. s \in Slots /\ ~slots[s].open
  BY <1>1 DEF ClosedSlots
<1>3. ~slots[s].inUse
  BY <1>2 DEF IInv, HeldSlotsInUse
<1>4. slotsOpen + 1 \in Int /\ slotsOpen + 1 = Cardinality(OpenSlots \cup {s})
  <2>1. s \notin OpenSlots /\ IsFiniteSet(OpenSlots)
    BY <1>2, SlotSetsFinite DEF OpenSlots
  <2>2. Cardinality(OpenSlots \cup {s}) = Cardinality(OpenSlots) + 1
    BY <2>1, FS_AddElement, Zenon
  <2>3. slotsOpen \in Int /\ slotsOpen = Cardinality(OpenSlots)
    BY DEF IInv, Shape, SlotsOpenCorrect
  <2> QED
    BY <2>2, <2>3
<1>5. PICK alive \in BOOLEAN :
        validate_and_grant(t, s, [OpenedSlot EXCEPT !.alive = alive], slotsOpen + 1)
  BY DEF get_session_grow
<1> DEFINE slot == [OpenedSlot EXCEPT !.alive = alive]
<1>6. slot \in SlotType /\ slot.open /\ ~slot.inUse /\ ~slot.dirty
  BY DEF OpenedSlot, SlotType
<1>7. phase = "up" /\ phase' = phase /\ pc[t] \in {"idle", "woken"}
  BY DEF get_session_grow
<1> HIDE DEF slot, s
<1> QED
  BY <1>2, <1>3, <1>4, <1>5, <1>6, <1>7, GrantStep DEF slot

\* Sleeping, waking and timing out touch no slot and no context.
LEMMA WaitStep ==
    ASSUME IInv, NEW t \in Threads,
           get_session_wait(t) \/ get_session_timeout(t) \/ spurious_wakeup(t)
    PROVE  IInv'
<1>1. Shape' /\ QuietUnlessUp'
  BY DEF IInv, Shape, QuietUnlessUp, get_session_wait, get_session_timeout, spurious_wakeup
<1>2. UNCHANGED <<slots, slotsOpen, ctx>> /\ Borrowers' = Borrowers
      /\ \A u \in Threads : pc'[u] = "returning" => pc[u] = "returning"
  BY DEF IInv, Shape, Borrowers, get_session_wait, get_session_timeout, spurious_wakeup
<1>3. SlotsOpenCorrect' /\ ExclusiveSessions' /\ HeldSlotsInUse' /\ FreeSlotsClean'
  BY <1>2 DEF IInv, SlotsOpenCorrect, ExclusiveSessions, HeldSlotsInUse, FreeSlotsClean,
              OpenSlots, FreeSlots
<1>4. ReturningClean'
  BY <1>2 DEF IInv, ReturningClean
<1> QED
  BY <1>1, <1>3, <1>4 DEF IInv

-----------------------------------------------------------------------------
(* release_session, use, and loss of a connection                           *)

\* A step that at most changes alive and dirty of one slot keeps everything
\* but the cleanliness clauses.
LEMMA SameMarks ==
    ASSUME IInv, slots' \in [Slots -> SlotType],
           UNCHANGED <<phase, slotsOpen, ctx>>,
           \A s \in Slots : slots'[s].open = slots[s].open /\ slots'[s].inUse = slots[s].inUse,
           pc' \in [Threads -> {"idle", "waiting", "woken", "held", "returning"}],
           Borrowers' = Borrowers, QuietUnlessUp'
    PROVE  Shape' /\ SlotsOpenCorrect' /\ ExclusiveSessions' /\ HeldSlotsInUse'
           /\ FreeSlots' = FreeSlots
<1>1. Shape'
  BY DEF IInv, Shape
<1>2. OpenSlots' = OpenSlots /\ FreeSlots' = FreeSlots
  BY DEF OpenSlots, FreeSlots
<1>3. SlotsOpenCorrect' /\ ExclusiveSessions'
  BY <1>2 DEF IInv, SlotsOpenCorrect, ExclusiveSessions
<1>4. HeldSlotsInUse'
  BY DEF IInv, HeldSlotsInUse, Borrowers, Shape
<1> QED
  BY <1>1, <1>2, <1>3, <1>4

\* The unlocked half of release_session(): the slot is clean before it is free.
LEMMA RollbackStep ==
    ASSUME IInv, NEW t \in Threads, release_borrowed(t)
    PROVE  IInv'
<1> DEFINE s == ctx[t].slot
<1>1. s \in Slots /\ pc[t] = "held" /\ t \in Borrowers
  BY DEF IInv, Shape, release_borrowed, Borrowers
<1>2. slots' \in [Slots -> SlotType]
  <2> DEFINE d == slots[s].dirty /\ ~RollbackOnReturn
  <2>1. slots \in [Slots -> SlotType] /\ slots[s] \in SlotType
    BY <1>1 DEF IInv, Shape
  <2>2. d \in BOOLEAN
    OBVIOUS
  <2>3. slots' = [slots EXCEPT ![s] = [slots[s] EXCEPT !.dirty = d]]
    BY <1>1, <2>1 DEF release_borrowed, release_session_rollback
  <2> HIDE DEF d
  <2>4. [slots[s] EXCEPT !.dirty = d] \in SlotType
    BY <2>1, <2>2 DEF SlotType
  <2> QED
    BY <1>1, <2>1, <2>3, <2>4
<1>3. /\ slots'[s].open = slots[s].open /\ slots'[s].inUse = slots[s].inUse
      /\ RollbackOnReturn => ~slots'[s].dirty
      /\ \A r \in Slots : r # s => slots'[r] = slots[r]
  BY <1>1 DEF IInv, Shape, release_borrowed, release_session_rollback, SlotType
<1>4. UNCHANGED <<phase, slotsOpen, ctx>> /\ phase = "up"
      /\ pc' = [pc EXCEPT ![t] = "returning"]
  BY DEF release_borrowed, release_session_rollback
<1>5. pc' \in [Threads -> {"idle", "waiting", "woken", "held", "returning"}]
      /\ Borrowers' = Borrowers /\ QuietUnlessUp'
  BY <1>1, <1>4 DEF IInv, Shape, Borrowers, QuietUnlessUp
<1>6. Shape' /\ SlotsOpenCorrect' /\ ExclusiveSessions' /\ HeldSlotsInUse'
      /\ FreeSlots' = FreeSlots
  BY <1>2, <1>3, <1>4, <1>5, SameMarks
<1>7. FreeSlotsClean'
  BY <1>3, <1>6 DEF IInv, FreeSlotsClean, FreeSlots
<1>8. ReturningClean'
  BY <1>3, <1>4 DEF IInv, Shape, ReturningClean
<1> QED
  BY <1>5, <1>6, <1>7, <1>8 DEF IInv

\* A borrower works on its own slot only.
LEMMA UseStep ==
    ASSUME IInv, NEW t \in Threads, use_session(t)
    PROVE  IInv'
<1> DEFINE s == ctx[t].slot
<1>1. s \in Slots /\ pc[t] = "held" /\ t \in Borrowers
  BY DEF IInv, Shape, use_session, Borrowers
<1>2. slots' \in [Slots -> SlotType]
  BY <1>1 DEF IInv, Shape, use_session, SlotType
<1>3. /\ slots'[s].open = slots[s].open /\ slots'[s].inUse = slots[s].inUse
      /\ \A r \in Slots : r # s => slots'[r] = slots[r]
  BY <1>1 DEF IInv, Shape, use_session, SlotType
<1>4. UNCHANGED <<phase, slotsOpen, pc, ctx>>
  BY DEF use_session
<1>5. Borrowers' = Borrowers /\ QuietUnlessUp'
  BY <1>4 DEF IInv, Borrowers, QuietUnlessUp
<1>6. Shape' /\ SlotsOpenCorrect' /\ ExclusiveSessions' /\ HeldSlotsInUse'
      /\ FreeSlots' = FreeSlots
  BY <1>2, <1>3, <1>4, <1>5, SameMarks DEF IInv, Shape
<1>7. FreeSlotsClean'
  <2>1. s \notin FreeSlots
    BY <1>1 DEF IInv, HeldSlotsInUse, FreeSlots
  <2> QED
    BY <1>3, <1>6, <2>1 DEF IInv, FreeSlotsClean, FreeSlots
<1>8. ReturningClean'
  <2>1. \A u \in Threads : pc[u] = "returning" => ctx[u].slot # s /\ ctx[u].slot \in Slots
    BY <1>1 DEF IInv, Shape, ExclusiveSessions, Borrowers
  <2> QED
    BY <1>3, <1>4, <2>1 DEF IInv, ReturningClean
<1> QED
  BY <1>5, <1>6, <1>7, <1>8 DEF IInv

\* A lost connection leaves marks and counter alone.
LEMMA LostStep ==
    ASSUME IInv, NEW s \in Slots, connection_lost(s)
    PROVE  IInv'
<1>2. slots' \in [Slots -> SlotType]
  BY DEF IInv, Shape, connection_lost, SlotType
<1>3. /\ slots'[s].open = slots[s].open /\ slots'[s].inUse = slots[s].inUse
      /\ ~slots'[s].dirty
      /\ \A r \in Slots : r # s => slots'[r] = slots[r]
  BY DEF IInv, Shape, connection_lost, SlotType
<1>4. UNCHANGED <<phase, slotsOpen, pc, ctx>>
  BY DEF connection_lost
<1>5. Borrowers' = Borrowers /\ QuietUnlessUp'
  BY <1>4 DEF IInv, Borrowers, QuietUnlessUp
<1>6. Shape' /\ SlotsOpenCorrect' /\ ExclusiveSessions' /\ HeldSlotsInUse'
      /\ FreeSlots' = FreeSlots
  BY <1>2, <1>3, <1>4, <1>5, SameMarks DEF IInv, Shape
<1>7. FreeSlotsClean'
  BY <1>3, <1>6 DEF IInv, FreeSlotsClean, FreeSlots
<1>8. ReturningClean'
  BY <1>3, <1>4 DEF IInv, Shape, ReturningClean
<1> QED
  BY <1>5, <1>6, <1>7, <1>8 DEF IInv

\* The slot is freed after its rollback; a woken thread is no borrower yet.
LEMMA ReleaseStep ==
    ASSUME IInv, NEW t \in Threads, release_session_free(t)
    PROVE  IInv'
<1> DEFINE s == ctx[t].slot
<1>1. s \in Slots /\ t \in Borrowers /\ pc[t] = "returning"
      /\ phase = "up" /\ UNCHANGED <<phase, slotsOpen>>
  BY DEF IInv, Shape, Borrowers, release_session_free
<1>2. slots' = [slots EXCEPT ![s].inUse = FALSE] /\ ctx' = [ctx EXCEPT ![t] = ZeroCtx]
  BY DEF release_session_free
<1>3. /\ pc' \in [Threads -> {"idle", "waiting", "woken", "held", "returning"}]
      /\ Borrowers' = Borrowers \ {t}
      /\ \A u \in Threads : pc'[u] = "returning" => pc[u] = "returning" /\ u # t
  BY <1>1 DEF IInv, Shape, Borrowers, release_session_free, Waiting
<1>4. ctx' \in [Threads -> [live : BOOLEAN, slot : Slots]]
      /\ \A u \in Threads : u # t => ctx'[u] = ctx[u]
  BY <1>2, ZeroIsSlot DEF IInv, Shape, ZeroCtx
<1>5. slots' \in [Slots -> SlotType]
  BY <1>1, <1>2 DEF IInv, Shape, SlotType
<1>6. /\ slots'[s].open = slots[s].open /\ ~slots'[s].inUse /\ slots'[s].dirty = slots[s].dirty
      /\ \A r \in Slots : r # s => slots'[r] = slots[r]
  BY <1>1, <1>2 DEF IInv, Shape, SlotType
<1>7. Shape' /\ QuietUnlessUp'
  BY <1>1, <1>3, <1>4, <1>5 DEF IInv, Shape, QuietUnlessUp
<1>8. SlotsOpenCorrect'
  <2>1. OpenSlots' = OpenSlots
    BY <1>6 DEF OpenSlots
  <2> QED
    BY <1>1, <2>1 DEF IInv, SlotsOpenCorrect
<1>9. \A u \in Borrowers' : u \in Borrowers /\ u # t /\ ctx'[u] = ctx[u] /\ ctx[u].slot # s
  BY <1>1, <1>3, <1>4 DEF IInv, ExclusiveSessions, Borrowers
<1>10. ExclusiveSessions'
  BY <1>9 DEF IInv, ExclusiveSessions
<1>11. HeldSlotsInUse'
  <2>1. \A r \in Slots : slots'[r].inUse <=> \E u \in Borrowers' : ctx'[u].slot = r
    <3>1. CASE \E u \in Borrowers' : ctx'[u].slot = s
      BY <3>1, <1>9
    <3>2. ASSUME NEW r \in Slots, r # s
          PROVE  slots'[r].inUse <=> \E u \in Borrowers' : ctx'[u].slot = r
      BY <3>2, <1>3, <1>6, <1>9 DEF IInv, HeldSlotsInUse
    <3> QED
      BY <3>1, <3>2, <1>6
  <2>2. \A u \in Borrowers' : ctx'[u].live /\ slots'[ctx'[u].slot].open
    BY <1>6, <1>9 DEF IInv, HeldSlotsInUse, Shape, Borrowers
  <2> QED
    BY <2>1, <2>2 DEF HeldSlotsInUse
<1>12. FreeSlotsClean'
  BY <1>1, <1>6 DEF IInv, FreeSlotsClean, FreeSlots, ReturningClean
<1>13. ReturningClean'
  <2>1. \A u \in Threads : pc'[u] = "returning" => u \in Borrowers'
    BY DEF Borrowers
  <2>2. \A u \in Borrowers' : ctx'[u].slot \in Slots /\ ctx'[u].slot # s
    BY <1>4, <1>9 DEF Borrowers
  <2> QED
    BY <1>3, <1>6, <1>9, <2>1, <2>2 DEF IInv, ReturningClean
<1> QED
  BY <1>7, <1>8, <1>10, <1>11, <1>12, <1>13 DEF IInv

-----------------------------------------------------------------------------
(* Connect_pool, Disconnect_pool and the health check                       *)

\* Connect_pool opens exactly pool_min_size slots.
LEMMA ConnectStep ==
    ASSUME IInv, Connect_pool
    PROVE  IInv'
<1>1. Borrowers = {} /\ Borrowers' = {} /\ UNCHANGED <<pc, ctx>> /\ phase' = "up"
  BY DEF IInv, QuietUnlessUp, Connect_pool, Borrowers
<1>2. slots' \in [Slots -> SlotType]
      /\ \A s \in Slots : ~slots'[s].inUse /\ ~slots'[s].dirty /\ (slots'[s].open <=> s < PoolMin)
  BY DEF Connect_pool, SlotType, OpenedSlot, ClosedSlot
<1>3. SlotsOpenCorrect'
  <2>1. PoolMin \in Int /\ PoolMin - 1 \in Int /\ 0 \in Int /\ PoolMin >= 1
    BY PoolAssumption
  <2>2. OpenSlots' = 0 .. (PoolMin - 1)
    BY <1>2, PoolAssumption DEF OpenSlots, Slots
  <2>3. Cardinality(0 .. (PoolMin - 1)) = IF 0 > PoolMin - 1 THEN 0 ELSE (PoolMin - 1) - 0 + 1
    BY <2>1, FS_Interval, Zenon
  <2> QED
    BY <2>1, <2>2, <2>3 DEF SlotsOpenCorrect, Connect_pool
<1>4. Shape' /\ QuietUnlessUp'
  BY <1>1, <1>2, PoolAssumption DEF IInv, Shape, QuietUnlessUp, Connect_pool
<1>5. ExclusiveSessions' /\ HeldSlotsInUse'
  BY <1>1, <1>2 DEF ExclusiveSessions, HeldSlotsInUse
<1>6. FreeSlotsClean'
  BY <1>2 DEF FreeSlotsClean, FreeSlots
<1>7. ReturningClean'
  BY <1>1 DEF ReturningClean, Borrowers
<1> QED
  BY <1>3, <1>4, <1>5, <1>6, <1>7 DEF IInv

\* Disconnect_pool closes every slot when nobody borrows.
LEMMA DisconnectStep ==
    ASSUME IInv, Disconnect_pool
    PROVE  IInv'
<1>1. Borrowers' = {} /\ UNCHANGED <<pc, ctx>> /\ phase' = "closed"
      /\ \A t \in Threads : pc[t] = "idle"
  BY DEF Disconnect_pool, Borrowers
<1>2. slots' \in [Slots -> SlotType]
      /\ \A s \in Slots : ~slots'[s].inUse /\ ~slots'[s].dirty /\ ~slots'[s].open
  BY DEF Disconnect_pool, SlotType, ClosedSlot
<1>3. SlotsOpenCorrect'
  <2>1. OpenSlots' = {}
    BY <1>2 DEF OpenSlots
  <2> QED
    BY <2>1, FS_EmptySet DEF SlotsOpenCorrect, Disconnect_pool
<1>4. Shape' /\ QuietUnlessUp'
  BY <1>1, <1>2 DEF IInv, Shape, QuietUnlessUp, Disconnect_pool
<1>5. ExclusiveSessions' /\ HeldSlotsInUse'
  BY <1>1, <1>2 DEF ExclusiveSessions, HeldSlotsInUse
<1>6. FreeSlotsClean'
  BY <1>2 DEF FreeSlotsClean, FreeSlots
<1>7. ReturningClean'
  BY <1>1 DEF ReturningClean
<1> QED
  BY <1>3, <1>4, <1>5, <1>6, <1>7 DEF IInv

\* A failed Connect_pool, and the end of the program, change no slot.
LEMMA QuietStep ==
    ASSUME IInv, Connect_pool_fails \/ UNCHANGED vars
    PROVE  IInv'
<1>1. UNCHANGED <<slots, slotsOpen, pc, ctx>> /\ phase' \in {phase, "closed"}
      /\ (phase' # phase => \A t \in Threads : pc[t] = "idle")
  BY DEF Connect_pool_fails, vars, IInv, QuietUnlessUp
<1>2. Shape' /\ QuietUnlessUp'
  BY <1>1 DEF IInv, Shape, QuietUnlessUp
<1>3. Borrowers' = Borrowers /\ OpenSlots' = OpenSlots /\ FreeSlots' = FreeSlots
  BY <1>1 DEF Borrowers, OpenSlots, FreeSlots
<1>4. SlotsOpenCorrect' /\ ExclusiveSessions' /\ HeldSlotsInUse' /\ FreeSlotsClean'
      /\ ReturningClean'
  BY <1>1, <1>3 DEF IInv, SlotsOpenCorrect, ExclusiveSessions, HeldSlotsInUse,
                    FreeSlotsClean, ReturningClean
<1> QED
  BY <1>2, <1>4 DEF IInv

\* The pass closes free slots only, and takes each one it loses off slots_open.
LEMMA HealthStep ==
    ASSUME IInv, health_check
    PROVE  IInv'
<1>1. PICK expired \in SUBSET FreeSlots, reopened \in SUBSET FreeSlots :
        LET after == [s \in Slots |-> HealthySlot(s, expired, reopened)]
            lost  == {s \in FreeSlots : ~after[s].open}
        IN  slots' = after /\ slotsOpen' = slotsOpen - Cardinality(lost)
  BY DEF health_check
<1> DEFINE lost == {s \in FreeSlots : ~slots'[s].open}
<1>2. slots' = [s \in Slots |-> HealthySlot(s, expired, reopened)]
      /\ slotsOpen' = slotsOpen - Cardinality(lost)
  BY <1>1
<1>3. ASSUME NEW s \in Slots
      PROVE  /\ slots'[s] \in SlotType
             /\ s \notin FreeSlots => slots'[s] = slots[s]
             /\ s \in FreeSlots => /\ ~slots'[s].inUse
                                   /\ slots'[s] # slots[s] => ~slots'[s].dirty
  <2>1. slots'[s] = HealthySlot(s, expired, reopened)
    BY <1>2
  <2>2. slots'[s] \in {slots[s], OpenedSlot, ClosedSlot}
    BY <2>1 DEF HealthySlot
  <2>3. s \notin FreeSlots => slots'[s] = slots[s]
    BY <2>1 DEF HealthySlot
  <2>4. /\ slots[s] \in SlotType /\ OpenedSlot \in SlotType /\ ClosedSlot \in SlotType
        /\ ~OpenedSlot.inUse /\ ~ClosedSlot.inUse /\ ~OpenedSlot.dirty /\ ~ClosedSlot.dirty
    BY DEF IInv, Shape, SlotType, OpenedSlot, ClosedSlot
  <2>5. s \in FreeSlots => ~slots[s].inUse
    BY DEF FreeSlots
  <2> QED
    BY <2>2, <2>3, <2>4, <2>5
<1>4. UNCHANGED <<phase, pc, ctx>> /\ Borrowers' = Borrowers
  BY DEF health_check, Borrowers
<1>5. IsFiniteSet(OpenSlots) /\ IsFiniteSet(lost) /\ lost \subseteq OpenSlots
      /\ Cardinality(lost) \in Nat /\ Cardinality(OpenSlots) \in Nat
  BY SlotSetsFinite DEF OpenSlots, FreeSlots
<1>6. SlotsOpenCorrect'
  <2>1. OpenSlots' = OpenSlots \ lost
    BY <1>3 DEF OpenSlots, FreeSlots
  <2>2. Cardinality(OpenSlots \ lost) = Cardinality(OpenSlots) - Cardinality(OpenSlots \cap lost)
    BY <1>5, FS_Difference, Zenon
  <2>3. OpenSlots \cap lost = lost
    BY <1>5
  <2>4. slotsOpen = Cardinality(OpenSlots)
    BY DEF IInv, SlotsOpenCorrect
  <2> HIDE DEF lost
  <2> QED
    BY <1>2, <2>1, <2>2, <2>3, <2>4 DEF SlotsOpenCorrect
<1>7. Shape'
  <2>1. slots' \in [Slots -> SlotType]
    BY <1>2, <1>3
  <2>2. slotsOpen' \in Int
    <3> HIDE DEF lost
    <3> QED
      BY <1>2, <1>5 DEF IInv, Shape
  <2> QED
    BY <1>4, <2>1, <2>2 DEF IInv, Shape
<1>8. QuietUnlessUp' /\ ExclusiveSessions'
  BY <1>4 DEF IInv, QuietUnlessUp, ExclusiveSessions
<1>9. \A t \in Borrowers : ctx[t].slot \in Slots /\ slots'[ctx[t].slot] = slots[ctx[t].slot]
  BY <1>3 DEF IInv, Shape, HeldSlotsInUse, Borrowers, FreeSlots
<1>10. HeldSlotsInUse'
  <2>1. \A s \in Slots : slots'[s].inUse <=> slots[s].inUse
    BY <1>3 DEF FreeSlots
  <2> QED
    BY <1>4, <1>9, <2>1 DEF IInv, HeldSlotsInUse
<1>11. FreeSlotsClean'
  BY <1>3 DEF IInv, FreeSlotsClean, FreeSlots
<1>12. ReturningClean'
  BY <1>4, <1>9 DEF IInv, ReturningClean, Borrowers
<1> QED
  BY <1>6, <1>7, <1>8, <1>10, <1>11, <1>12 DEF IInv

-----------------------------------------------------------------------------
(* The theorems                                                             *)

\* Every step of the pool preserves the inductive invariant.
LEMMA NextIInv == IInv /\ [Next]_vars => IInv'
<1> SUFFICES ASSUME IInv, [Next]_vars PROVE IInv'
  OBVIOUS
<1>1. CASE Connect_pool \/ Disconnect_pool
  BY <1>1, ConnectStep, DisconnectStep
<1>2. CASE Connect_pool_fails \/ Terminated \/ UNCHANGED vars
  BY <1>2, QuietStep DEF Terminated
<1>3. CASE health_check
  BY <1>3, HealthStep
<1>4. ASSUME NEW t \in Threads, get_session_free(t) \/ get_session_grow(t)
      PROVE  IInv'
  BY <1>4, FreeStep, GrowStep
<1>5. ASSUME NEW t \in Threads,
             get_session_wait(t) \/ get_session_timeout(t) \/ spurious_wakeup(t)
      PROVE  IInv'
  BY <1>5, WaitStep
<1>6. ASSUME NEW t \in Threads, use_session(t) \/ release_borrowed(t) \/ release_session_free(t)
      PROVE  IInv'
  BY <1>6, UseStep, RollbackStep, ReleaseStep
<1>7. ASSUME NEW s \in Slots, connection_lost(s)
      PROVE  IInv'
  BY <1>7, LostStep
<1> QED
  BY <1>1, <1>2, <1>3, <1>4, <1>5, <1>6, <1>7 DEF Next

\* The inductive invariant holds in every reachable state of the pool.
LEMMA Invariance == Spec => []IInv
  BY InitIInv, NextIInv, PTL DEF Spec

\* Type correctness of the pool, whose only hard part is that slots_open
\* stays between 0 and pool_max_size: it follows from the accounting.
THEOREM TypeCorrect == Spec => []TypeOK
<1>1. IInv => TypeOK
  <2> SUFFICES ASSUME IInv PROVE TypeOK
    OBVIOUS
  <2>1. slotsOpen = Cardinality(OpenSlots)
    BY DEF IInv, SlotsOpenCorrect
  <2>2. Cardinality(OpenSlots) \in Nat /\ Cardinality(OpenSlots) <= PoolMax
    BY SlotSetsFinite DEF OpenSlots
  <2>3. slotsOpen \in 0 .. PoolMax
    BY <2>1, <2>2, PoolAssumption
  <2> QED
    BY <2>3 DEF IInv, Shape, TypeOK
<1> QED
  BY <1>1, Invariance, PTL

\* slots_open counts the open slots, on every path of get_session() and of
\* health_check(), for every pool size.
THEOREM Accounting == Spec => []SlotsOpenCorrect
<1>1. IInv => SlotsOpenCorrect
  BY DEF IInv
<1> QED
  BY <1>1, Invariance, PTL

\* No two threads hold one session, and a held session is marked in use and
\* keeps its handles, for any number of threads.
THEOREM Exclusion == Spec => [](ExclusiveSessions /\ HeldSlotsInUse)
<1>1. IInv => ExclusiveSessions /\ HeldSlotsInUse
  BY DEF IInv
<1> QED
  BY <1>1, Invariance, PTL

\* With rollback_on_return_to_pool no session in the pool carries work of a
\* previous borrower.
THEOREM CleanPool == Spec => []FreeSlotsClean
<1>1. IInv => FreeSlotsClean
  BY DEF IInv
<1> QED
  BY <1>1, Invariance, PTL

\* With validation and rollback configured, get_session() only ever hands out
\* a live session without foreign work.
THEOREM FreshBorrow == Spec => BorrowedFresh
<1> DEFINE Fresh == \A t \in Threads :
         pc[t] # "held" /\ pc'[t] = "held" /\ ValidateOnBorrow /\ RollbackOnReturn
           => slots'[ctx'[t].slot].alive /\ ~slots'[ctx'[t].slot].dirty
<1>1. IInv /\ [Next]_vars => [Fresh]_vars
  <2> SUFFICES ASSUME IInv, Next,
                      NEW t \in Threads, pc[t] # "held", pc'[t] = "held",
                      ValidateOnBorrow, RollbackOnReturn
               PROVE  slots'[ctx'[t].slot].alive /\ ~slots'[ctx'[t].slot].dirty
    OBVIOUS
  <2>1. ASSUME NEW u \in Threads, NEW s \in Slots, NEW slot \in SlotType, NEW n,
               ~slot.dirty, validate_and_grant(u, s, slot, n)
        PROVE  slots'[ctx'[t].slot].alive /\ ~slots'[ctx'[t].slot].dirty
    <3>1. OpenedSlot \in SlotType /\ OpenedSlot.alive /\ ~OpenedSlot.dirty
      BY DEF OpenedSlot, SlotType
    <3>2. pc' # [pc EXCEPT ![u] = "idle"]
      BY DEF IInv, Shape
    <3>3. PICK slot1 \in SlotType : slot1.alive /\ ~slot1.dirty /\ Granted(u, s, slot1)
      BY <2>1, <3>1, <3>2 DEF validate_and_grant
    <3>4. u = t
      BY <3>3 DEF Granted, IInv, Shape
    <3> QED
      BY <3>3, <3>4 DEF Granted, IInv, Shape, SlotType
  <2>2. ASSUME NEW u \in Threads, get_session_free(u)
        PROVE  slots'[ctx'[t].slot].alive /\ ~slots'[ctx'[t].slot].dirty
    <3>1. Lowest(FreeSlots) \in FreeSlots
      BY <2>2, LowestIn DEF get_session_free, FreeSlots
    <3>2. Lowest(FreeSlots) \in Slots /\ slots[Lowest(FreeSlots)] \in SlotType
          /\ ~slots[Lowest(FreeSlots)].dirty
      BY <3>1 DEF FreeSlots, IInv, Shape, FreeSlotsClean
    <3> QED
      BY <2>1, <2>2, <3>2 DEF get_session_free
  <2>3. ASSUME NEW u \in Threads, get_session_grow(u)
        PROVE  slots'[ctx'[t].slot].alive /\ ~slots'[ctx'[t].slot].dirty
    <3>1. Lowest(ClosedSlots) \in Slots
      BY <2>3, LowestIn DEF get_session_grow, ClosedSlots
    <3>2. PICK alive \in BOOLEAN :
            validate_and_grant(u, Lowest(ClosedSlots), [OpenedSlot EXCEPT !.alive = alive], slotsOpen + 1)
      BY <2>3 DEF get_session_grow
    <3> DEFINE slot == [OpenedSlot EXCEPT !.alive = alive]
    <3>3. slot \in SlotType /\ ~slot.dirty
      BY DEF OpenedSlot, SlotType
    <3> HIDE DEF slot
    <3> QED
      BY <2>1, <3>1, <3>2, <3>3 DEF slot
  <2>4. \E u \in Threads : get_session_free(u) \/ get_session_grow(u)
    BY DEF Next, Connect_pool, Connect_pool_fails, Disconnect_pool, health_check,
           get_session_wait, get_session_timeout, spurious_wakeup, use_session,
           release_borrowed, release_session_rollback, release_session_free, Waiting,
           connection_lost, Terminated, vars, IInv, Shape
  <2> QED
    BY <2>2, <2>3, <2>4
<1> QED
  BY <1>1, Invariance, PTL DEF Spec, BorrowedFresh

-----------------------------------------------------------------------------
(* Sleeping borrowers                                                       *)

\* Sets of threads are finite.
LEMMA ThreadSetsFinite ==
    ASSUME NEW S \in SUBSET Threads
    PROVE  IsFiniteSet(S) /\ Cardinality(S) \in Nat
BY PoolAssumption, FS_Subset, FS_CardinalityType

\* A slot marked POOL_SLOT_IN_USE is a slot, and not free.
LEMMA MarkedSlot ==
    ASSUME NEW x \in SlotType
    PROVE  [x EXCEPT !.inUse = TRUE] \in SlotType /\ [x EXCEPT !.inUse = TRUE].inUse
BY DEF SlotType

\* The property carries over to a step after which no more slots are free and
\* no fewer threads are awake.
LEMMA FewerFree ==
    ASSUME IInv, NoSleepBesideFreeSlot, Waiting' \subseteq Waiting,
           FreeSlots' \subseteq FreeSlots, Woken \subseteq Woken', Woken' \subseteq Threads
    PROVE  NoSleepBesideFreeSlot'
<1>1. FreeSlots \in SUBSET Slots /\ Woken \in SUBSET Threads
  BY DEF FreeSlots, Woken
<1>2. IsFiniteSet(FreeSlots) /\ Cardinality(FreeSlots) \in Nat
  BY <1>1, SlotSetsFinite
<1>3. IsFiniteSet(Woken') /\ Cardinality(Woken') \in Nat /\ Cardinality(Woken) \in Nat
  BY <1>1, ThreadSetsFinite
<1>4. Cardinality(FreeSlots') <= Cardinality(FreeSlots) /\ Cardinality(FreeSlots') \in Nat
  BY <1>2, FS_Subset, FS_CardinalityType
<1>5. Cardinality(Woken) <= Cardinality(Woken')
  BY <1>3, FS_Subset
<1> QED
  BY <1>2, <1>3, <1>4, <1>5 DEF NoSleepBesideFreeSlot

\* It holds whenever no slot is free.
LEMMA NoneFree == FreeSlots = {} => NoSleepBesideFreeSlot
<1> SUFFICES ASSUME FreeSlots = {} PROVE NoSleepBesideFreeSlot
  OBVIOUS
<1>1. Cardinality(FreeSlots) = 0
  BY FS_EmptySet
<1>2. Woken \in SUBSET Threads
  BY DEF Woken
<1> QED
  BY <1>1, <1>2, ThreadSetsFinite DEF NoSleepBesideFreeSlot

\* The same of the state after a step.
LEMMA NoneFreeNext == (FreeSlots = {} => NoSleepBesideFreeSlot)'
BY NoneFree, PTL

\* A scan that finds a free slot takes it, or closes it, and uses up at most
\* one wakeup.
LEMMA ScanTakesSlot ==
    ASSUME IInv, NoSleepBesideFreeSlot, NEW t \in Threads, get_session_free(t)
    PROVE  NoSleepBesideFreeSlot'
<1>1. PICK s : s = Lowest(FreeSlots)
  OBVIOUS
<1>2. s \in FreeSlots /\ s \in Slots /\ validate_and_grant(t, s, slots[s], slotsOpen)
  BY <1>1, LowestIn DEF get_session_free, FreeSlots
<1>3. PICK slot1 \in SlotType : (slot1.inUse \/ ~slot1.open) /\ slots' = [slots EXCEPT ![s] = slot1]
  <2>1. slots[s] \in SlotType /\ OpenedSlot \in SlotType /\ ClosedSlot \in SlotType /\ ~ClosedSlot.open
    BY <1>2 DEF IInv, Shape, OpenedSlot, ClosedSlot, SlotType
  <2>2. ASSUME NEW x \in SlotType, slots' = [slots EXCEPT ![s] = [x EXCEPT !.inUse = TRUE]]
        PROVE  \E slot2 \in SlotType : (slot2.inUse \/ ~slot2.open) /\ slots' = [slots EXCEPT ![s] = slot2]
    BY <2>2, MarkedSlot
  <2> QED
    BY <1>2, <2>1, <2>2 DEF validate_and_grant, Granted
<1>4. FreeSlots' = FreeSlots \ {s}
  BY <1>2, <1>3 DEF FreeSlots, IInv, Shape
<1>5. PICK label \in {"held", "idle"} : pc' = [pc EXCEPT ![t] = label]
  BY <1>2 DEF validate_and_grant, Granted
<1>6. Waiting' \subseteq Waiting /\ Woken' = Woken \ {t}
  BY <1>5 DEF Waiting, Woken, IInv, Shape
<1>7. Cardinality(FreeSlots') = Cardinality(FreeSlots) - 1 /\ Cardinality(FreeSlots) \in Nat
  <2>1. IsFiniteSet(FreeSlots) /\ Cardinality(FreeSlots) \in Nat
    BY SlotSetsFinite DEF FreeSlots
  <2> QED
    BY <1>2, <1>4, <2>1, FS_RemoveElement
<1>8. Cardinality(Woken') >= Cardinality(Woken) - 1 /\ Cardinality(Woken') \in Nat /\ Cardinality(Woken) \in Nat
  <2>1. IsFiniteSet(Woken) /\ Cardinality(Woken) \in Nat
    BY ThreadSetsFinite DEF Woken
  <2>2. CASE t \in Woken
    <3>1. Cardinality(Woken \ {t}) = Cardinality(Woken) - 1 /\ IsFiniteSet(Woken \ {t})
      BY <2>1, <2>2, FS_RemoveElement
    <3> QED
      BY <1>6, <2>1, <3>1, FS_CardinalityType
  <2>3. CASE t \notin Woken
    <3>1. Woken' = Woken
      BY <1>6, <2>3
    <3> QED
      BY <2>1, <3>1
  <2> QED
    BY <2>2, <2>3
<1> QED
  BY <1>6, <1>7, <1>8 DEF NoSleepBesideFreeSlot

\* pthread_cond_signal() wakes one sleeper for the one slot that becomes free.
LEMMA ReleaseWakes ==
    ASSUME IInv, NoSleepBesideFreeSlot, NEW t \in Threads, release_session_free(t)
    PROVE  NoSleepBesideFreeSlot'
<1>1. PICK s : s = ctx[t].slot
  OBVIOUS
<1>2. s \in Slots /\ pc[t] = "returning" /\ slots' = [slots EXCEPT ![s].inUse = FALSE]
  BY <1>1 DEF IInv, Shape, release_session_free
<1>3. FreeSlots' \subseteq FreeSlots \cup {s}
  BY <1>2 DEF FreeSlots, IInv, Shape, SlotType
<1>4. CASE Waiting = {} /\ pc' = [pc EXCEPT ![t] = "idle"]
  <2>1. Waiting' = {}
    BY <1>4 DEF Waiting, IInv, Shape
  <2> QED
    BY <2>1 DEF NoSleepBesideFreeSlot
<1>5. ASSUME NEW w \in Waiting, pc' = [pc EXCEPT ![t] = "idle", ![w] = "woken"]
      PROVE  NoSleepBesideFreeSlot'
  <2>1. w \in Threads /\ w # t /\ w \notin Woken /\ pc[t] # "woken"
    BY <1>2 DEF Waiting, Woken
  <2>2. Woken' = Woken \cup {w}
    BY <1>2, <1>5, <2>1 DEF Woken, IInv, Shape
  <2>3. IsFiniteSet(Woken) /\ Cardinality(Woken) \in Nat
    BY ThreadSetsFinite DEF Woken
  <2>4. Cardinality(Woken') = Cardinality(Woken) + 1
    BY <2>1, <2>2, <2>3, FS_AddElement
  <2>5. IsFiniteSet(FreeSlots) /\ Cardinality(FreeSlots) \in Nat
    BY SlotSetsFinite DEF FreeSlots
  <2>6. /\ IsFiniteSet(FreeSlots \cup {s}) /\ Cardinality(FreeSlots \cup {s}) \in Nat
        /\ Cardinality(FreeSlots \cup {s}) <= Cardinality(FreeSlots) + 1
    <3>1. IsFiniteSet(FreeSlots \cup {s}) /\
          Cardinality(FreeSlots \cup {s}) = IF s \in FreeSlots THEN Cardinality(FreeSlots)
                                            ELSE Cardinality(FreeSlots) + 1
      BY <2>5, FS_AddElement
    <3> QED
      BY <2>5, <3>1
  <2>7. Cardinality(FreeSlots') <= Cardinality(FreeSlots \cup {s}) /\ Cardinality(FreeSlots') \in Nat
    BY <1>3, <2>6, FS_Subset, FS_CardinalityType
  <2>8. Cardinality(FreeSlots) <= Cardinality(Woken)
    BY <1>5 DEF NoSleepBesideFreeSlot
  <2> QED
    BY <2>3, <2>4, <2>5, <2>6, <2>7, <2>8 DEF NoSleepBesideFreeSlot
<1> QED
  BY <1>4, <1>5 DEF release_session_free

\* Every step keeps sleepers and free slots apart.
LEMMA NoSleepStep ==
    ASSUME IInv, NoSleepBesideFreeSlot, [Next]_vars
    PROVE  NoSleepBesideFreeSlot'
<1>1. Woken' \subseteq Threads /\ Woken \subseteq Threads
  BY DEF Woken
<1>2. CASE Connect_pool \/ Connect_pool_fails \/ Disconnect_pool
  <2>1. \A t \in Threads : pc'[t] = "idle"
    BY <1>2 DEF Connect_pool, Connect_pool_fails, Disconnect_pool, IInv, QuietUnlessUp
  <2>2. Waiting' = {}
    BY <2>1 DEF Waiting
  <2> QED
    BY <2>2 DEF NoSleepBesideFreeSlot
<1>3. CASE health_check
  <2>1. PICK expired \in SUBSET FreeSlots, reopened \in SUBSET FreeSlots :
          slots' = [s \in Slots |-> HealthySlot(s, expired, reopened)]
    BY <1>3 DEF health_check
  <2>2. pc' = pc
    BY <1>3 DEF health_check
  <2>3. \A s \in Slots \ FreeSlots : slots'[s] = slots[s]
    BY <2>1 DEF HealthySlot
  <2>4. FreeSlots' \subseteq FreeSlots
    BY <2>3 DEF FreeSlots
  <2> QED
    BY <1>1, <2>2, <2>4, FewerFree DEF Waiting, Woken
<1>4. ASSUME NEW t \in Threads, get_session_free(t) PROVE NoSleepBesideFreeSlot'
  BY <1>4, ScanTakesSlot
<1>5. ASSUME NEW t \in Threads, get_session_grow(t) PROVE NoSleepBesideFreeSlot'
  <2>1. PICK s : s = Lowest(ClosedSlots)
    OBVIOUS
  <2>2. s \in Slots /\ FreeSlots = {}
    BY <1>5, <2>1, LowestIn DEF get_session_grow, ClosedSlots
  <2>3. PICK slot1 \in SlotType : (slot1.inUse \/ ~slot1.open) /\ slots' = [slots EXCEPT ![s] = slot1]
    <3>1. PICK alive \in BOOLEAN :
            validate_and_grant(t, s, [OpenedSlot EXCEPT !.alive = alive], slotsOpen + 1)
      BY <1>5, <2>1 DEF get_session_grow
    <3>2. PICK x \in SlotType : x = [OpenedSlot EXCEPT !.alive = alive]
      BY DEF OpenedSlot, SlotType
    <3>3. OpenedSlot \in SlotType /\ ClosedSlot \in SlotType /\ ~ClosedSlot.open
      BY DEF OpenedSlot, ClosedSlot, SlotType
    <3>4. ASSUME NEW y \in SlotType, slots' = [slots EXCEPT ![s] = [y EXCEPT !.inUse = TRUE]]
          PROVE  \E slot2 \in SlotType : (slot2.inUse \/ ~slot2.open) /\ slots' = [slots EXCEPT ![s] = slot2]
      BY <3>4, MarkedSlot
    <3> QED
      BY <3>1, <3>2, <3>3, <3>4 DEF validate_and_grant, Granted
  <2>4. FreeSlots' = {}
    BY <2>2, <2>3 DEF FreeSlots, IInv, Shape
  <2>5. FreeSlots' = {} => NoSleepBesideFreeSlot'
    BY NoneFreeNext
  <2> QED
    BY <2>4, <2>5
<1>6. ASSUME NEW t \in Threads, get_session_wait(t) PROVE NoSleepBesideFreeSlot'
  <2>1. FreeSlots' = {}
    BY <1>6 DEF get_session_wait, FreeSlots
  <2>2. FreeSlots' = {} => NoSleepBesideFreeSlot'
    BY NoneFreeNext
  <2> QED
    BY <2>1, <2>2
<1>7. ASSUME NEW t \in Threads, get_session_timeout(t) \/ spurious_wakeup(t) PROVE NoSleepBesideFreeSlot'
  <2>1. slots' = slots /\ pc[t] = "waiting" /\ \E label \in {"idle", "woken"} : pc' = [pc EXCEPT ![t] = label]
    BY <1>7 DEF get_session_timeout, spurious_wakeup
  <2>2. Waiting' \subseteq Waiting /\ Woken \subseteq Woken'
    BY <2>1 DEF Waiting, Woken, IInv, Shape
  <2>3. FreeSlots' = FreeSlots
    BY <2>1 DEF FreeSlots
  <2> QED
    BY <1>1, <2>2, <2>3, FewerFree
<1>8. ASSUME NEW t \in Threads, use_session(t) \/ release_borrowed(t) PROVE NoSleepBesideFreeSlot'
  <2>1. /\ pc[t] = "held" /\ ctx[t].slot \in Slots
        /\ \E d : slots' = [slots EXCEPT ![ctx[t].slot].dirty = d]
        /\ pc' = pc \/ pc' = [pc EXCEPT ![t] = "returning"]
    BY <1>8 DEF use_session, release_borrowed, release_session_rollback, IInv, Shape
  <2>2. Waiting' = Waiting /\ Woken' = Woken
    BY <2>1 DEF Waiting, Woken, IInv, Shape
  <2>3. FreeSlots' = FreeSlots
    BY <2>1 DEF FreeSlots, IInv, Shape, SlotType
  <2> QED
    BY <1>1, <2>2, <2>3, FewerFree
<1>9. ASSUME NEW t \in Threads, release_session_free(t) PROVE NoSleepBesideFreeSlot'
  BY <1>9, ReleaseWakes
<1>10. ASSUME NEW s \in Slots, connection_lost(s) PROVE NoSleepBesideFreeSlot'
  <2>1. slots' = [slots EXCEPT ![s].alive = FALSE, ![s].dirty = FALSE] /\ pc' = pc
    BY <1>10 DEF connection_lost
  <2>2. FreeSlots' = FreeSlots
    BY <2>1 DEF FreeSlots, IInv, Shape, SlotType
  <2> QED
    BY <1>1, <2>1, <2>2, FewerFree DEF Waiting, Woken
<1>11. CASE UNCHANGED vars \/ Terminated
  <2>1. slots' = slots /\ pc' = pc
    BY <1>11 DEF vars, Terminated
  <2> QED
    BY <1>1, <2>1, FewerFree DEF Waiting, Woken, FreeSlots
<1> QED
  BY <1>2, <1>3, <1>4, <1>5, <1>6, <1>7, <1>8, <1>9, <1>10, <1>11 DEF Next

\* While a thread sleeps in get_session(), each free slot has a woken thread
\* on its way to it: signals are neither lost nor too few, for any number of
\* threads and slots, with spurious wakeups and stolen sessions.
THEOREM SignalsSuffice == Spec => []NoSleepBesideFreeSlot
<1>1. Init => NoSleepBesideFreeSlot
  <2> SUFFICES ASSUME Init PROVE NoSleepBesideFreeSlot
    OBVIOUS
  <2>1. Waiting = {}
    BY DEF Init, Waiting
  <2> QED
    BY <2>1 DEF NoSleepBesideFreeSlot
<1>2. IInv /\ NoSleepBesideFreeSlot /\ [Next]_vars => NoSleepBesideFreeSlot'
  BY NoSleepStep
<1> QED
  BY <1>1, <1>2, Invariance, PTL DEF Spec

-----------------------------------------------------------------------------
(* The file-side workers on top of the pool                                 *)

\* A worker has taken a request off its queue and not yet answered it.
Busy(t) == wpc[t] \in {"processing", "reconnecting", "healing", "responding"}

\* Queues and answers add up, and a worker leaves only a drained queue.
Ledger ==
    /\ wpc \in [Threads -> {"starting", "draining", "processing", "reconnecting",
                            "healing", "responding", "exiting", "stopped", "failed"}]
    /\ pending \in [Threads -> Nat] /\ arrived \in [Threads -> Nat] /\ answered \in [Threads -> Nat]
    /\ \A t \in Threads : arrived[t] = answered[t] + pending[t] + (IF Busy(t) THEN 1 ELSE 0)
    /\ \A t \in Threads : wpc[t] \in {"exiting", "stopped"} => stopping /\ pending[t] = 0

\* Where a worker is in worker_thread_main() tells whether it has a session.
Placed(t) ==
    /\ wpc[t] \in {"starting", "healing"} => pc[t] \in {"idle", "waiting", "woken"}
    /\ wpc[t] \in {"draining", "processing", "responding"} => pc[t] = "held"
    /\ wpc[t] = "reconnecting" => pc[t] \in {"held", "returning"}
    /\ wpc[t] = "exiting" => pc[t] = "returning"
    /\ wpc[t] \in {"stopped", "failed"} => pc[t] = "idle"
    /\ ctx[t].live => pc[t] \in {"held", "returning"}

\* Until a reconnect fails, the workers keep to the pool's usage pattern.
WorkersInv ==
    /\ Ledger
    /\ ~unhealed => IInv /\ \A t \in Threads : Placed(t)

\* A worker moves on: the ledger balances if the queue and the answers moved
\* with it.
LEMMA LedgerMove ==
    ASSUME Ledger, NEW t \in Threads,
           NEW label \in {"starting", "draining", "processing", "reconnecting",
                          "healing", "responding", "exiting", "stopped", "failed"},
           wpc' = [wpc EXCEPT ![t] = label],
           label \in {"exiting", "stopped"} => stopping /\ pending'[t] = 0,
           UNCHANGED arrived, stopping' = stopping,
           pending' \in [Threads -> Nat], answered' \in [Threads -> Nat],
           \A u \in Threads : u # t => pending'[u] = pending[u] /\ answered'[u] = answered[u],
           arrived[t] = answered'[t] + pending'[t]
                        + (IF label \in {"processing", "reconnecting", "healing", "responding"} THEN 1 ELSE 0)
    PROVE  Ledger'
<1>1. /\ wpc' \in [Threads -> {"starting", "draining", "processing", "reconnecting",
                               "healing", "responding", "exiting", "stopped", "failed"}]
      /\ wpc'[t] = label /\ \A u \in Threads : u # t => wpc'[u] = wpc[u]
  BY DEF Ledger
<1>2. \A u \in Threads : Busy(u)' <=> IF u = t
                           THEN label \in {"processing", "reconnecting", "healing", "responding"} ELSE Busy(u)
  BY <1>1 DEF Busy
<1>3. arrived' \in [Threads -> Nat]
  BY DEF Ledger
<1>4. \A u \in Threads : arrived'[u] = answered'[u] + pending'[u] + (IF Busy(u)' THEN 1 ELSE 0)
  BY <1>2 DEF Ledger
<1>5. \A u \in Threads : wpc'[u] \in {"exiting", "stopped"} => stopping' /\ pending'[u] = 0
  BY <1>1 DEF Ledger
<1> QED
  BY <1>1, <1>3, <1>4, <1>5 DEF Ledger

\* The outcome of get_session() moves a worker within its request.
LEMMA AfterGetMoves ==
    ASSUME Ledger, NEW t \in Threads, AfterGet(t)
    PROVE  \E label \in {"starting", "draining", "processing", "reconnecting",
                         "healing", "responding", "exiting", "stopped", "failed"} :
             /\ wpc' = [wpc EXCEPT ![t] = label]
             /\ label \in {"exiting", "stopped"} => wpc[t] = label
             /\ label \in {"processing", "reconnecting", "healing", "responding"} <=> Busy(t)
<1>1. PICK label : label = CASE pc'[t] = "held" /\ wpc[t] = "starting" -> "draining"
                             [] pc'[t] = "held" /\ wpc[t] = "healing"  -> "responding"
                             [] pc'[t] = "idle" /\ wpc[t] = "starting" -> "failed"
                             [] pc'[t] = "idle" /\ wpc[t] = "healing"  -> "responding"
                             [] OTHER                                  -> wpc[t]
  OBVIOUS
<1>2. wpc' = [wpc EXCEPT ![t] = label]
  BY <1>1 DEF AfterGet
<1>3. wpc[t] \in {"starting", "draining", "processing", "reconnecting",
                  "healing", "responding", "exiting", "stopped", "failed"}
  BY DEF Ledger
<1>4. \/ wpc[t] = "starting" /\ label \in {"draining", "failed"}
      \/ wpc[t] = "healing" /\ label = "responding"
      \/ label = wpc[t]
  BY <1>1
<1>5. label \in {"processing", "reconnecting", "healing", "responding"} <=> Busy(t)
  BY <1>4 DEF Busy
<1> QED
  BY <1>2, <1>3, <1>4, <1>5

\* Every step keeps the ledger.
LEMMA LedgerStep ==
    ASSUME Ledger, [WNext]_allvars
    PROVE  Ledger'
<1>1. /\ pending \in [Threads -> Nat] /\ arrived \in [Threads -> Nat] /\ answered \in [Threads -> Nat]
      /\ \A t \in Threads : arrived[t] = answered[t] + pending[t] + (IF Busy(t) THEN 1 ELSE 0)
  BY DEF Ledger
<1>2. ASSUME UNCHANGED <<wpc, pending, arrived, answered>>, stopping => stopping' PROVE Ledger'
  <2>1. \A t \in Threads : Busy(t)' <=> Busy(t)
    BY <1>2 DEF Busy
  <2> QED
    BY <1>2, <2>1 DEF Ledger
<1>3. CASE UNCHANGED allvars \/ Finished
  <2>1. UNCHANGED <<wpc, pending, arrived, answered>> /\ (stopping => stopping')
    BY <1>3 DEF allvars, Finished
  <2> QED
    BY <1>2, <2>1
<1>4. CASE StartPool \/ \E s \in Slots : LoseConnection(s)
  <2>1. UNCHANGED <<wpc, pending, arrived, answered>> /\ (stopping => stopping')
    BY <1>4 DEF StartPool, LoseConnection, wvars
  <2> QED
    BY <1>2, <2>1
<1>5. CASE Shutdown
  BY <1>2, <1>5 DEF Shutdown
<1>6. ASSUME NEW t \in Threads, WakeSpuriously(t) \/ ProcessCrash(t) PROVE Ledger'
  <2>1. UNCHANGED <<wpc, pending, arrived, answered>> /\ (stopping => stopping')
    BY <1>6 DEF WakeSpuriously, ProcessCrash, wvars
  <2> QED
    BY <1>2, <2>1
<1>7. ASSUME NEW t \in Threads, Enqueue(t) PROVE Ledger'
  <2>1. /\ ~stopping /\ arrived' = [arrived EXCEPT ![t] = arrived[t] + 1]
        /\ pending' = [pending EXCEPT ![t] = pending[t] + 1]
        /\ UNCHANGED <<wpc, answered, stopping>>
    BY <1>7 DEF Enqueue
  <2>2. /\ arrived' \in [Threads -> Nat] /\ pending' \in [Threads -> Nat]
        /\ arrived'[t] = arrived[t] + 1 /\ pending'[t] = pending[t] + 1
        /\ \A u \in Threads : u # t => arrived'[u] = arrived[u] /\ pending'[u] = pending[u]
    BY <1>1, <2>1
  <2>3. \A u \in Threads : Busy(u)' <=> Busy(u)
    BY <2>1 DEF Busy
  <2>4. \A u \in Threads : arrived'[u] = answered'[u] + pending'[u] + (IF Busy(u)' THEN 1 ELSE 0)
    BY <1>1, <2>1, <2>2, <2>3
  <2>5. \A u \in Threads : wpc'[u] \in {"exiting", "stopped"} => stopping' /\ pending'[u] = 0
    BY <2>1 DEF Ledger
  <2> QED
    BY <2>1, <2>2, <2>4, <2>5 DEF Ledger
<1>8. ASSUME NEW t \in Threads, Borrow(t) \/ TimeOut(t) PROVE Ledger'
  <2>1. AfterGet(t) /\ UNCHANGED <<pending, arrived, answered, stopping>>
    BY <1>8 DEF Borrow, TimeOut
  <2>2. PICK label \in {"starting", "draining", "processing", "reconnecting",
                        "healing", "responding", "exiting", "stopped", "failed"} :
          /\ wpc' = [wpc EXCEPT ![t] = label]
          /\ label \in {"exiting", "stopped"} => wpc[t] = label
          /\ label \in {"processing", "reconnecting", "healing", "responding"} <=> Busy(t)
    BY <2>1, AfterGetMoves
  <2>3. label \in {"exiting", "stopped"} => stopping /\ pending'[t] = 0
    BY <2>1, <2>2 DEF Ledger
  <2> QED
    BY <1>1, <2>1, <2>2, <2>3, LedgerMove
<1>9. ASSUME NEW t \in Threads, Dequeue(t) PROVE Ledger'
  <2>1. /\ wpc[t] = "draining" /\ pending[t] > 0 /\ pending' = [pending EXCEPT ![t] = pending[t] - 1]
        /\ wpc' = [wpc EXCEPT ![t] = "processing"] /\ UNCHANGED <<arrived, answered, stopping>>
    BY <1>9 DEF Dequeue, Goto
  <2>2. /\ pending' \in [Threads -> Nat] /\ pending'[t] = pending[t] - 1
        /\ \A u \in Threads : u # t => pending'[u] = pending[u]
    BY <1>1, <2>1
  <2>3. ~Busy(t)
    BY <2>1 DEF Busy
  <2>4. arrived[t] = answered'[t] + pending'[t] + 1
    BY <1>1, <2>1, <2>2, <2>3
  <2> QED
    BY <1>1, <2>1, <2>2, <2>4, LedgerMove
<1>10. ASSUME NEW t \in Threads, ProcessPass(t) \/ ProcessFail(t) PROVE Ledger'
  <2>1. /\ Busy(t) /\ UNCHANGED <<pending, arrived, answered, stopping>>
        /\ \E label \in {"responding", "reconnecting"} : wpc' = [wpc EXCEPT ![t] = label]
    BY <1>10 DEF ProcessPass, ProcessFail, Goto, Busy
  <2> QED
    BY <1>1, <2>1, LedgerMove
<1>11. ASSUME NEW t \in Threads, ReconnectRelease(t) PROVE Ledger'
  <2>1. /\ Busy(t) /\ UNCHANGED <<pending, arrived, answered, stopping>>
        /\ wpc' = wpc \/ wpc' = [wpc EXCEPT ![t] = "healing"]
    BY <1>11 DEF ReconnectRelease, Goto, Busy
  <2>2. CASE wpc' = wpc
    BY <1>2, <2>1, <2>2
  <2>3. CASE wpc' = [wpc EXCEPT ![t] = "healing"]
    BY <1>1, <2>1, <2>3, LedgerMove
  <2> QED
    BY <2>1, <2>2, <2>3
<1>12. ASSUME NEW t \in Threads, Respond(t) PROVE Ledger'
  <2>1. /\ Busy(t) /\ answered' = [answered EXCEPT ![t] = answered[t] + 1]
        /\ wpc' = [wpc EXCEPT ![t] = "draining"] /\ UNCHANGED <<arrived, pending, stopping>>
    BY <1>12 DEF Respond, Goto, Busy
  <2>2. /\ answered' \in [Threads -> Nat] /\ answered'[t] = answered[t] + 1
        /\ \A u \in Threads : u # t => answered'[u] = answered[u]
    BY <1>1, <2>1
  <2>3. arrived[t] = answered'[t] + pending'[t] + 0
    BY <1>1, <2>1, <2>2
  <2> QED
    BY <1>1, <2>1, <2>2, <2>3, LedgerMove
<1>13. ASSUME NEW t \in Threads, Exit(t) PROVE Ledger'
  <2>1. /\ ~Busy(t) /\ UNCHANGED <<pending, arrived, answered, stopping>>
        /\ \E label \in {"exiting", "stopped"} : wpc' = [wpc EXCEPT ![t] = label]
        /\ stopping /\ pending[t] = 0
    BY <1>13 DEF Exit, Goto, Busy, Ledger
  <2> QED
    BY <1>1, <2>1, LedgerMove
<1> QED
  BY <1>3, <1>4, <1>5, <1>6, <1>7, <1>8, <1>9, <1>10, <1>11, <1>12, <1>13 DEF WNext

\* What get_session() does to its caller, whatever path it takes.
LEMMA GetOutcome ==
    ASSUME NEW t \in Threads, get_session(t)
    PROVE  /\ pc[t] \in {"idle", "woken"}
           /\ \/ \E s : /\ pc' = [pc EXCEPT ![t] = "held"]
                        /\ ctx' = [ctx EXCEPT ![t] = [live |-> TRUE, slot |-> s]]
              \/ /\ \E label \in {"idle", "waiting"} : pc' = [pc EXCEPT ![t] = label]
                 /\ ctx' = ctx
<1>1. ASSUME NEW s, NEW slot, NEW n, validate_and_grant(t, s, slot, n)
      PROVE  \/ \E r : /\ pc' = [pc EXCEPT ![t] = "held"]
                       /\ ctx' = [ctx EXCEPT ![t] = [live |-> TRUE, slot |-> r]]
             \/ /\ \E label \in {"idle", "waiting"} : pc' = [pc EXCEPT ![t] = label]
                /\ ctx' = ctx
  BY <1>1 DEF validate_and_grant, Granted
<1>2. CASE get_session_free(t)
  BY <1>1, <1>2 DEF get_session_free
<1>3. CASE get_session_grow(t)
  BY <1>1, <1>3 DEF get_session_grow
<1>4. CASE get_session_wait(t)
  BY <1>4 DEF get_session_wait
<1> QED
  BY <1>2, <1>3, <1>4 DEF get_session

\* As long as the workers' places are known, each of their steps is one the
\* pool expects of its users.
LEMMA PoolSteps ==
    ASSUME \A t \in Threads : Placed(t), [WNext]_allvars
    PROVE  [Next]_vars
<1>1. CASE UNCHANGED allvars \/ Finished
  BY <1>1 DEF allvars, Finished, vars
<1>2. CASE StartPool
  BY <1>2 DEF StartPool, Next
<1>3. ASSUME NEW s \in Slots, LoseConnection(s) PROVE Next
  BY <1>3 DEF LoseConnection, Next
<1>4. CASE Shutdown
  BY <1>4 DEF Shutdown, vars
<1>5. ASSUME NEW t \in Threads,
             Enqueue(t) \/ Dequeue(t) \/ ProcessPass(t) \/ ProcessFail(t) \/ ProcessCrash(t) \/ Respond(t)
      PROVE  UNCHANGED vars
  BY <1>5 DEF Enqueue, Dequeue, ProcessPass, ProcessFail, ProcessCrash, Respond, vars
<1>6. ASSUME NEW t \in Threads, Borrow(t) PROVE Next
  <2>1. get_session_free(t) \/ get_session_grow(t) \/ get_session_wait(t)
    BY <1>6 DEF Borrow, get_session
  <2> QED
    BY <2>1 DEF Next
<1>7. ASSUME NEW t \in Threads, TimeOut(t) \/ WakeSpuriously(t) PROVE Next
  <2>1. get_session_timeout(t) \/ spurious_wakeup(t)
    BY <1>7 DEF TimeOut, WakeSpuriously
  <2> QED
    BY <2>1 DEF Next
<1>8. ASSUME NEW t \in Threads, ReconnectRelease(t) \/ Exit(t) PROVE Next
  <2>1. release_session_free(t) \/ (pc[t] = "held" /\ release_session_rollback(t))
    <3>1. Placed(t)
      OBVIOUS
    <3>2. CASE ReconnectRelease(t)
      BY <3>1, <3>2 DEF ReconnectRelease, Placed
    <3>3. CASE Exit(t)
      BY <3>1, <3>3 DEF Exit, Placed
    <3> QED
      BY <1>8, <3>2, <3>3
  <2> QED
    BY <2>1 DEF Next, release_borrowed
<1> QED
  BY <1>1, <1>2, <1>3, <1>4, <1>5, <1>6, <1>7, <1>8 DEF WNext

\* A reconnect that failed stays on record.
LEMMA UnhealedStays ==
    ASSUME unhealed, [WNext]_allvars
    PROVE  unhealed'
BY DEF WNext, allvars, Finished, StartPool, LoseConnection, Shutdown, Enqueue, Dequeue,
   ProcessPass,
       ProcessFail, ProcessCrash, Respond, Borrow, TimeOut, WakeSpuriously, ReconnectRelease, Exit, wvars

\* The workers' places stay known until a reconnect fails.
LEMMA PlacedStep ==
    ASSUME Ledger, IInv, \A t \in Threads : Placed(t), [WNext]_allvars, ~unhealed'
    PROVE  \A t \in Threads : Placed(t)'
<1>1. /\ pc \in [Threads -> {"idle", "waiting", "woken", "held", "returning"}]
      /\ ctx \in [Threads -> [live : BOOLEAN, slot : Slots]]
      /\ wpc \in [Threads -> {"starting", "draining", "processing", "reconnecting",
                              "healing", "responding", "exiting", "stopped", "failed"}]
  BY DEF IInv, Shape, Ledger
<1>2. \A u \in Threads : wpc'[u] = wpc[u] /\ pc'[u] = pc[u] /\ ctx'[u] = ctx[u] => Placed(u)'
  BY DEF Placed
<1>3. CASE UNCHANGED <<wpc, pc, ctx>>
  BY <1>2, <1>3
<1>4. CASE UNCHANGED allvars \/ Finished \/ StartPool \/ Shutdown \/ \E s \in Slots : LoseConnection(s)
  <2>1. UNCHANGED <<wpc, pc, ctx>>
    BY <1>4 DEF allvars, Finished, StartPool, Shutdown, LoseConnection, wvars,
       Connect_pool, connection_lost
  <2> QED
    BY <1>3, <2>1
<1>5. ASSUME NEW t \in Threads, Enqueue(t) \/ ProcessCrash(t) PROVE UNCHANGED <<wpc, pc, ctx>>
  BY <1>5 DEF Enqueue, ProcessCrash
<1>6. ASSUME NEW t \in Threads, Dequeue(t) \/ ProcessPass(t) \/ ProcessFail(t) \/ Respond(t)
      PROVE  \A u \in Threads : Placed(u)'
  <2>1. /\ UNCHANGED <<pc, ctx>> /\ wpc[t] \in {"draining", "processing", "responding"}
        /\ \E label \in {"draining", "processing", "responding", "reconnecting"} : wpc' = [wpc EXCEPT ![t] = label]
    BY <1>6 DEF Dequeue, ProcessPass, ProcessFail, Respond, Goto
  <2>2. /\ wpc'[t] \in {"draining", "processing", "responding", "reconnecting"}
        /\ \A u \in Threads : u # t => wpc'[u] = wpc[u]
    BY <1>1, <2>1
  <2>3. Placed(t)'
    BY <2>1, <2>2 DEF Placed
  <2> QED
    BY <1>2, <2>1, <2>2, <2>3
<1>7. ASSUME NEW t \in Threads, Borrow(t) PROVE \A u \in Threads : Placed(u)'
  <2>1. /\ get_session(t) /\ AfterGet(t) /\ wpc[t] \in {"starting", "healing"}
        /\ ~(wpc[t] = "healing" /\ pc'[t] = "idle")
    BY <1>7 DEF Borrow
  <2>2. pc[t] \in {"idle", "woken"} /\ ~ctx[t].live
    BY <2>1, GetOutcome DEF Placed
  <2>3. /\ \A u \in Threads : u # t => pc'[u] = pc[u] /\ ctx'[u] = ctx[u] /\ wpc'[u] = wpc[u]
        /\ pc'[t] \in {"held", "idle", "waiting"} /\ (ctx'[t].live => pc'[t] = "held")
    <3>1. \A u \in Threads : u # t => wpc'[u] = wpc[u]
      BY <1>1, <2>1 DEF AfterGet
    <3>2. CASE \E s : /\ pc' = [pc EXCEPT ![t] = "held"]
                      /\ ctx' = [ctx EXCEPT ![t] = [live |-> TRUE, slot |-> s]]
      BY <1>1, <3>1, <3>2
    <3>3. CASE (\E label \in {"idle", "waiting"} : pc' = [pc EXCEPT ![t] = label]) /\ ctx' = ctx
      BY <1>1, <2>2, <3>1, <3>3
    <3> QED
      BY <2>1, <3>2, <3>3, GetOutcome
  <2>4. wpc'[t] = CASE pc'[t] = "held" /\ wpc[t] = "starting" -> "draining"
                    [] pc'[t] = "held" /\ wpc[t] = "healing"  -> "responding"
                    [] pc'[t] = "idle" /\ wpc[t] = "starting" -> "failed"
                    [] pc'[t] = "idle" /\ wpc[t] = "healing"  -> "responding"
                    [] OTHER                                  -> wpc[t]
    BY <1>1, <2>1 DEF AfterGet
  <2>5. \/ pc'[t] = "held" /\ wpc'[t] \in {"draining", "responding"}
        \/ pc'[t] = "idle" /\ wpc'[t] = "failed"
        \/ pc'[t] = "waiting" /\ wpc'[t] \in {"starting", "healing"}
    <3>1. CASE pc'[t] = "held"
      BY <2>1, <2>4, <3>1
    <3>2. CASE pc'[t] = "idle"
      BY <2>1, <2>4, <3>2
    <3>3. CASE pc'[t] = "waiting"
      BY <2>1, <2>4, <3>3
    <3> QED
      BY <2>3, <3>1, <3>2, <3>3
  <2>6. Placed(t)'
    BY <2>3, <2>5 DEF Placed
  <2> QED
    BY <1>2, <2>3, <2>6
<1>8. ASSUME NEW t \in Threads, TimeOut(t) PROVE \A u \in Threads : Placed(u)'
  <2>1. /\ pc[t] = "waiting" /\ pc' = [pc EXCEPT ![t] = "idle"] /\ ctx' = ctx /\ AfterGet(t)
        /\ ~(wpc[t] = "healing" /\ pc'[t] = "idle")
    BY <1>8 DEF TimeOut, get_session_timeout
  <2>2. pc'[t] = "idle" /\ \A u \in Threads : u # t => pc'[u] = pc[u] /\ wpc'[u] = wpc[u]
    BY <1>1, <2>1 DEF AfterGet
  <2>3. Placed(t) /\ wpc[t] \in {"starting", "draining", "processing", "reconnecting",
                                 "healing", "responding", "exiting", "stopped", "failed"}
    BY <1>1
  <2>4. wpc[t] = "starting" /\ ~ctx[t].live
    BY <2>1, <2>2, <2>3 DEF Placed
  <2>5. wpc'[t] = "failed"
    BY <1>1, <2>1, <2>2, <2>4 DEF AfterGet
  <2>6. Placed(t)'
    BY <2>1, <2>2, <2>4, <2>5 DEF Placed
  <2> QED
    BY <1>2, <2>1, <2>2, <2>6
<1>9. ASSUME NEW t \in Threads, WakeSpuriously(t) PROVE \A u \in Threads : Placed(u)'
  <2>1. pc[t] = "waiting" /\ pc' = [pc EXCEPT ![t] = "woken"] /\ ctx' = ctx /\ wpc' = wpc
    BY <1>9 DEF WakeSpuriously, spurious_wakeup, wvars
  <2>2. pc'[t] = "woken" /\ \A u \in Threads : u # t => pc'[u] = pc[u]
    BY <1>1, <2>1
  <2>3. Placed(t)'
    BY <2>1, <2>2 DEF Placed
  <2> QED
    BY <1>2, <2>1, <2>2, <2>3
<1>10. ASSUME NEW t \in Threads, release_session_rollback(t), pc[t] = "held",
              \/ wpc[t] = "reconnecting" /\ wpc' = wpc
              \/ wpc' = [wpc EXCEPT ![t] = "exiting"]
       PROVE  \A u \in Threads : Placed(u)'
  <2>1. /\ ctx' = ctx /\ pc'[t] = "returning" /\ wpc'[t] \in {"reconnecting", "exiting"}
        /\ \A u \in Threads : u # t => pc'[u] = pc[u] /\ wpc'[u] = wpc[u]
    BY <1>1, <1>10 DEF release_session_rollback
  <2>2. Placed(t)'
    BY <2>1 DEF Placed
  <2> QED
    BY <1>2, <2>1, <2>2
<1>11. ASSUME NEW t \in Threads, release_session_free(t),
              NEW label \in {"healing", "stopped"}, wpc' = [wpc EXCEPT ![t] = label]
       PROVE  \A u \in Threads : Placed(u)'
  <2>1. /\ ctx' = [ctx EXCEPT ![t] = ZeroCtx] /\ pc[t] = "returning"
        /\ \/ pc' = [pc EXCEPT ![t] = "idle"]
           \/ \E w \in Waiting : pc' = [pc EXCEPT ![t] = "idle", ![w] = "woken"]
    BY <1>11 DEF release_session_free
  <2>2. /\ pc'[t] = "idle" /\ ~ctx'[t].live /\ wpc'[t] = label
        /\ \A u \in Threads : u # t => ctx'[u] = ctx[u] /\ wpc'[u] = wpc[u]
        /\ \A u \in Threads : u # t => pc'[u] = pc[u] \/ (pc[u] = "waiting" /\ pc'[u] = "woken")
    BY <1>1, <1>11, <2>1 DEF Waiting, ZeroCtx
  <2>3. Placed(t)'
    BY <2>2 DEF Placed
  <2>4. ASSUME NEW u \in Threads, u # t, pc[u] = "waiting", pc'[u] = "woken" PROVE Placed(u)'
    BY <2>2, <2>4 DEF Placed
  <2> QED
    BY <1>2, <2>2, <2>3, <2>4
<1>12. ASSUME NEW t \in Threads, ReconnectRelease(t) PROVE \A u \in Threads : Placed(u)'
  <2>1. CASE pc[t] = "returning"
    BY <1>11, <1>12, <2>1 DEF ReconnectRelease, Goto
  <2>2. CASE pc[t] # "returning"
    <3>1. wpc[t] = "reconnecting" /\ release_session_rollback(t) /\ wpc' = wpc
      BY <1>12, <2>2 DEF ReconnectRelease
    <3>2. pc[t] = "held"
      BY <2>2, <3>1 DEF Placed
    <3> QED
      BY <1>10, <3>1, <3>2
  <2> QED
    BY <2>1, <2>2
<1>13. ASSUME NEW t \in Threads, Exit(t) PROVE \A u \in Threads : Placed(u)'
  <2>1. CASE wpc[t] = "draining" /\ release_session_rollback(t) /\ wpc' = [wpc EXCEPT ![t] = "exiting"]
    BY <1>10, <2>1 DEF Placed
  <2>2. CASE release_session_free(t) /\ wpc' = [wpc EXCEPT ![t] = "stopped"]
    BY <1>11, <2>2
  <2> QED
    BY <1>13, <2>1, <2>2 DEF Exit, Goto
<1> QED
  BY <1>3, <1>4, <1>5, <1>6, <1>7, <1>8, <1>9, <1>12, <1>13 DEF WNext

\* The workers' invariant holds in every behaviour.
THEOREM WorkersInvariant == WSpec => []WorkersInv
<1>1. WInit => WorkersInv
  <2> SUFFICES ASSUME WInit PROVE WorkersInv
    OBVIOUS
  <2>1. Ledger
    BY DEF WInit, Ledger, Busy
  <2>2. IInv
    BY InitIInv DEF WInit
  <2>3. \A t \in Threads : Placed(t)
    BY DEF WInit, Init, Placed, ZeroCtx
  <2> QED
    BY <2>1, <2>2, <2>3 DEF WorkersInv
<1>2. WorkersInv /\ [WNext]_allvars => WorkersInv'
  <2> SUFFICES ASSUME WorkersInv, [WNext]_allvars PROVE WorkersInv'
    OBVIOUS
  <2>1. Ledger'
    BY LedgerStep DEF WorkersInv
  <2>2. ASSUME ~unhealed' PROVE IInv' /\ \A t \in Threads : Placed(t)'
    <3>1. IInv /\ \A t \in Threads : Placed(t)
      BY <2>2, UnhealedStays DEF WorkersInv
    <3>2. IInv'
      BY <3>1, PoolSteps, NextIInv
    <3> QED
      BY <2>2, <3>1, <3>2, PlacedStep DEF WorkersInv
  <2> QED
    BY <2>1, <2>2 DEF WorkersInv
<1> QED
  BY <1>1, <1>2, PTL DEF WSpec

\* Every request taken off a queue gets one response, also the one that broke
\* its worker's session, for any number of workers, requests and slots.
THEOREM RequestsAnsweredOnce == WSpec => []EveryDequeuedAnsweredOnce
<1>1. WorkersInv => EveryDequeuedAnsweredOnce
  BY DEF WorkersInv, Ledger, Busy, EveryDequeuedAnsweredOnce
<1> QED
  BY <1>1, WorkersInvariant, PTL

\* Until a reconnect fails, no two workers' contexts name one session.
THEOREM WorkersPinDistinctSessions == WSpec => []PinnedSessionsDistinct
<1>1. WorkersInv => PinnedSessionsDistinct
  <2> SUFFICES ASSUME WorkersInv, ~unhealed, NEW t \in Threads, NEW u \in Threads,
                      ctx[t].live, ctx[u].live, ctx[t].slot = ctx[u].slot
               PROVE  t = u
    BY DEF PinnedSessionsDistinct
  <2>1. t \in Borrowers /\ u \in Borrowers
    BY DEF WorkersInv, Placed, Borrowers
  <2> QED
    BY <2>1 DEF WorkersInv, IInv, ExclusiveSessions
<1> QED
  BY <1>1, WorkersInvariant, PTL

\* When worker_pool_shutdown_and_join() returns, every session is back and
\* every queue whose worker ran is empty, unless a reconnect failed.
THEOREM SessionsBackAtJoin == WSpec => []AllBackAtJoin
<1>1. WorkersInv => AllBackAtJoin
  <2> SUFFICES ASSUME WorkersInv, Joined, ~unhealed
               PROVE  /\ \A s \in Slots : ~slots[s].inUse
                      /\ \A t \in Threads : wpc[t] = "stopped" => pending[t] = 0
    BY DEF AllBackAtJoin
  <2>1. Borrowers = {}
    BY DEF WorkersInv, Joined, Placed, Borrowers
  <2> QED
    BY <2>1 DEF WorkersInv, IInv, HeldSlotsInUse, Ledger
<1> QED
  BY <1>1, WorkersInvariant, PTL
=============================================================================
