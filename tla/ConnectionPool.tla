--------------------------- MODULE ConnectionPool ---------------------------
(***************************************************************************)
(* The hand-managed Oracle session pool of infra/Connection_Pool.c.        *)
(*                                                                         *)
(* Everything get_session() does between pthread_mutex_lock() and either   *)
(* pthread_mutex_unlock() or pthread_cond_timedwait() is one step: no      *)
(* other pool operation can run meanwhile.  release_session() rolls back   *)
(* OUTSIDE the mutex and only then locks it, so it takes two steps.        *)
(*                                                                         *)
(* A slot is abstracted to four facts: does it have OCI handles (svchp #   *)
(* NULL), is it marked POOL_SLOT_IN_USE, does its physical connection      *)
(* still work, and does its session carry uncommitted work.                *)
(***************************************************************************)
EXTENDS Integers, FiniteSets

CONSTANTS
    Threads,            \* threads that borrow sessions
    PoolMin,            \* pool_min_size
    PoolMax,            \* pool_max_size, also slot_count
    Retries,            \* retries_on_connection_failure
    ValidateOnBorrow,   \* connection_validation_on_borrow
    RollbackOnReturn,   \* rollback_on_return_to_pool
    OpenMayFail         \* can the database refuse a new connection?

\* Connect_pool() replaces non-positive sizes by defaults, but never checks
\* PoolMin <= PoolMax: with a larger minimum it would write past slots[].
ASSUME PoolAssumption ==
    /\ IsFiniteSet(Threads)
    /\ PoolMin \in Nat \ {0}
    /\ PoolMax \in Nat
    /\ PoolMin <= PoolMax
    /\ Retries \in Nat
    /\ ValidateOnBorrow \in BOOLEAN
    /\ RollbackOnReturn \in BOOLEAN
    /\ OpenMayFail \in BOOLEAN

VARIABLES
    phase,      \* "down" before Connect_pool, "up", "closed" afterwards
    slots,      \* the slot array
    slotsOpen,  \* the counter slots_open
    pc,         \* where each thread is in the pool's code
    ctx         \* each thread's worker_ctx: handles set?, pool_slot_index

vars == <<phase, slots, slotsOpen, pc, ctx>>

Slots == 0 .. (PoolMax - 1)

SlotType == [open : BOOLEAN, inUse : BOOLEAN, alive : BOOLEAN, dirty : BOOLEAN]

\* What open_slot() leaves behind when it succeeds, and close_slot() or a
\* failed open_slot() (its Cleanup label frees every handle).
OpenedSlot == [open |-> TRUE, inUse |-> FALSE, alive |-> TRUE, dirty |-> FALSE]
ClosedSlot == [open |-> FALSE, inUse |-> FALSE, alive |-> FALSE, dirty |-> FALSE]

\* A worker_ctx after memset(0): no handles, and slot index zero.
ZeroCtx == [live |-> FALSE, slot |-> 0]

FreeSlots   == {s \in Slots : slots[s].open /\ ~slots[s].inUse}
ClosedSlots == {s \in Slots : ~slots[s].open}
OpenSlots   == {s \in Slots : slots[s].open}
Waiting     == {t \in Threads : pc[t] = "waiting"}
Woken       == {t \in Threads : pc[t] = "woken"}

\* The scans run i = 0, 1, ... and stop at the first hit.
Lowest(S) == CHOOSE s \in S : \A r \in S : s <= r

Init ==
    /\ phase = "down"
    /\ slots = [s \in Slots |-> ClosedSlot]
    /\ slotsOpen = 0
    /\ pc = [t \in Threads |-> "idle"]
    /\ ctx = [t \in Threads |-> ZeroCtx]

-----------------------------------------------------------------------------
(* OCI_Connect_pool / OCI_Disconnect_pool                                   *)

\* Every mandatory slot opened within its attempts.  With zero attempts
\* configured the loop body never runs and no slot can open.
Connect_pool ==
    /\ phase = "down"
    /\ Retries > 0
    /\ phase' = "up"
    /\ slots' = [s \in Slots |-> IF s < PoolMin THEN OpenedSlot ELSE ClosedSlot]
    /\ slotsOpen' = PoolMin
    /\ UNCHANGED <<pc, ctx>>

\* A mandatory slot failed: Cleanup closes what was opened and frees the pool.
Connect_pool_fails ==
    /\ phase = "down"
    /\ OpenMayFail \/ Retries = 0
    /\ phase' = "closed"
    /\ UNCHANGED <<slots, slotsOpen, pc, ctx>>

\* Called by main() after every borrowing thread was joined.
Disconnect_pool ==
    /\ phase = "up"
    /\ \A t \in Threads : pc[t] = "idle"
    /\ phase' = "closed"
    /\ slots' = [s \in Slots |-> ClosedSlot]
    /\ slotsOpen' = 0
    /\ UNCHANGED <<pc, ctx>>

-----------------------------------------------------------------------------
(* OCI_Pool_get_session                                                     *)

\* Mutant: the slot is not marked POOL_SLOT_IN_USE before the unlock.
Granted_unmarked(t, s, slot) ==
    /\ slots' = [slots EXCEPT ![s] = slot]
    /\ pc' = [pc EXCEPT ![t] = "held"]
    /\ ctx' = [ctx EXCEPT ![t] = [live |-> TRUE, slot |-> s]]

\* Mark the slot in use under the mutex and fill worker_ctx.
Granted(t, s, slot) ==
    /\ slots' = [slots EXCEPT ![s] = [slot EXCEPT !.inUse = TRUE]]
    /\ pc' = [pc EXCEPT ![t] = "held"]
    /\ ctx' = [ctx EXCEPT ![t] = [live |-> TRUE, slot |-> s]]

\* Mutant: the failed validation forgets slots_open--.
validate_and_grant_no_decrement(t, s, slot, n) ==
    /\ slotsOpen' = n
    /\ \/ /\ ValidateOnBorrow => slot.alive
          /\ Granted(t, s, slot)
       \/ /\ ValidateOnBorrow /\ ~slot.alive
          /\ slots' = [slots EXCEPT ![s] = ClosedSlot]
          /\ pc' = [pc EXCEPT ![t] = "idle"]
          /\ ctx' = ctx

\* Mutant: the candidate is handed out without OCIPing.
validate_and_grant_unvalidated(t, s, slot, n) ==
    slotsOpen' = n /\ Granted(t, s, slot)

\* The tail of get_session(): candidate slot s, whose descriptor is slot and
\* which makes n slots open.  Validation may close it for good.
validate_and_grant(t, s, slot, n) ==
    \/ /\ ValidateOnBorrow => slot.alive
       /\ slotsOpen' = n
       /\ Granted(t, s, slot)
    \/ /\ ValidateOnBorrow /\ ~slot.alive
       /\ Retries > 0
       /\ slotsOpen' = n
       /\ Granted(t, s, OpenedSlot)
    \/ /\ ValidateOnBorrow /\ ~slot.alive
       /\ OpenMayFail \/ Retries = 0
       /\ slotsOpen' = n - 1
       /\ slots' = [slots EXCEPT ![s] = ClosedSlot]
       /\ pc' = [pc EXCEPT ![t] = "idle"]
       /\ ctx' = ctx

\* The scan found a free slot.
get_session_free(t) ==
    /\ phase = "up"
    /\ pc[t] \in {"idle", "woken"}
    /\ FreeSlots # {}
    /\ LET s == Lowest(FreeSlots)
       IN  validate_and_grant(t, s, slots[s], slotsOpen)
    /\ UNCHANGED phase

\* No free slot, but the pool may grow.  The connection just opened may be
\* gone again by the time it is pinged.
get_session_grow(t) ==
    /\ phase = "up"
    /\ pc[t] \in {"idle", "woken"}
    /\ FreeSlots = {}
    /\ slotsOpen < PoolMax
    /\ ClosedSlots # {}
    /\ \E alive \in BOOLEAN :
         validate_and_grant(t, Lowest(ClosedSlots),
                            [OpenedSlot EXCEPT !.alive = alive], slotsOpen + 1)
    /\ UNCHANGED phase

\* No free slot and no growth (pool at its maximum, or open_slot() failed).
get_session_wait(t) ==
    /\ phase = "up"
    /\ pc[t] \in {"idle", "woken"}
    /\ FreeSlots = {}
    /\ slotsOpen < PoolMax /\ ClosedSlots # {} => OpenMayFail
    /\ pc' = [pc EXCEPT ![t] = "waiting"]
    /\ UNCHANGED <<phase, slots, slotsOpen, ctx>>

\* ETIMEDOUT: return -1 without another scan.
get_session_timeout(t) ==
    /\ phase = "up"
    /\ pc[t] = "waiting"
    /\ pc' = [pc EXCEPT ![t] = "idle"]
    /\ UNCHANGED <<phase, slots, slotsOpen, ctx>>

\* POSIX allows pthread_cond_timedwait() to return 0 without a signal.
spurious_wakeup(t) ==
    /\ phase = "up"
    /\ pc[t] = "waiting"
    /\ pc' = [pc EXCEPT ![t] = "woken"]
    /\ UNCHANGED <<phase, slots, slotsOpen, ctx>>

get_session(t) == get_session_free(t) \/ get_session_grow(t) \/ get_session_wait(t)

-----------------------------------------------------------------------------
(* OCI_Pool_release_session, for whatever slot worker_ctx names             *)

\* Mutant: no OCITransRollback.
release_session_no_rollback(t) ==
    /\ phase = "up"
    /\ pc' = [pc EXCEPT ![t] = "returning"]
    /\ UNCHANGED <<phase, slots, slotsOpen, ctx>>

\* OCITransRollback, before the mutex is taken.  It fails only on a broken
\* connection, whose work the server has discarded already.
release_session_rollback(t) ==
    /\ phase = "up"
    /\ slots' = [slots EXCEPT ![ctx[t].slot].dirty = @ /\ ~RollbackOnReturn]
    /\ pc' = [pc EXCEPT ![t] = "returning"]
    /\ UNCHANGED <<phase, slotsOpen, ctx>>

\* Mutant: no pthread_cond_signal().
release_session_no_signal(t) ==
    /\ phase = "up"
    /\ pc[t] = "returning"
    /\ slots' = [slots EXCEPT ![ctx[t].slot].inUse = FALSE]
    /\ ctx' = [ctx EXCEPT ![t] = ZeroCtx]
    /\ pc' = [pc EXCEPT ![t] = "idle"]
    /\ UNCHANGED <<phase, slotsOpen>>

\* Under the mutex: FREE and pthread_cond_signal(); then memset(worker_ctx).
release_session_free(t) ==
    /\ phase = "up"
    /\ pc[t] = "returning"
    /\ slots' = [slots EXCEPT ![ctx[t].slot].inUse = FALSE]
    /\ ctx' = [ctx EXCEPT ![t] = ZeroCtx]
    /\ \/ /\ Waiting = {}
          /\ pc' = [pc EXCEPT ![t] = "idle"]
       \/ \E w \in Waiting : pc' = [pc EXCEPT ![t] = "idle", ![w] = "woken"]
    /\ UNCHANGED <<phase, slotsOpen>>

-----------------------------------------------------------------------------
(* OCI_Pool_health_check: one pass over the slots under the mutex           *)

\* Mutant: the pass also pings and closes sessions that are in use.
HealthySlot_any(s, expired, reopened) ==
    IF s \notin expired /\ slots[s].alive THEN slots[s] ELSE ClosedSlot

\* expired: slots older than session_max_lifetime (one reopen attempt);
\* reopened: slots whose reopening succeeds.
HealthySlot(s, expired, reopened) ==
    IF s \notin FreeSlots                          THEN slots[s]
    ELSE IF s \notin expired /\ slots[s].alive     THEN slots[s]
    ELSE IF s \in reopened /\ (s \in expired \/ Retries > 0) THEN OpenedSlot
    ELSE ClosedSlot

\* Mutant: slots_open-- for every recycled slot, reopened or not.
health_check_recount ==
    /\ phase = "up"
    /\ \E expired, reopened \in SUBSET FreeSlots :
         /\ slots' = [s \in Slots |-> HealthySlot(s, expired, reopened)]
         /\ slotsOpen' = slotsOpen - Cardinality(expired)
    /\ UNCHANGED <<phase, pc, ctx>>

health_check ==
    /\ phase = "up"
    /\ \E expired, reopened \in SUBSET FreeSlots :
         /\ ~OpenMayFail => reopened = FreeSlots
         /\ LET after == [s \in Slots |-> HealthySlot(s, expired, reopened)]
                lost  == {s \in FreeSlots : ~after[s].open}
            IN  /\ slots' = after
                /\ slotsOpen' = slotsOpen - Cardinality(lost)
    /\ UNCHANGED <<phase, pc, ctx>>

-----------------------------------------------------------------------------
(* What happens to a borrowed session between get and release               *)

\* A statement leaves uncommitted work behind, or a commit settles it.
use_session(t) ==
    /\ pc[t] = "held"
    /\ slots[ctx[t].slot].alive
    /\ \E d \in BOOLEAN : slots' = [slots EXCEPT ![ctx[t].slot].dirty = d]
    /\ UNCHANGED <<phase, slotsOpen, pc, ctx>>

\* A physical connection breaks; the server rolls its work back.
connection_lost(s) ==
    /\ slots[s].open
    /\ slots' = [slots EXCEPT ![s].alive = FALSE, ![s].dirty = FALSE]
    /\ UNCHANGED <<phase, slotsOpen, pc, ctx>>

\* The usage pattern of Connection_Pool.h: release only what was borrowed.
release_borrowed(t) == pc[t] = "held" /\ release_session_rollback(t)

Terminated == phase = "closed" /\ UNCHANGED vars

Next ==
    \/ Connect_pool \/ Connect_pool_fails \/ Disconnect_pool
    \/ health_check
    \/ \E t \in Threads :
         \/ get_session_free(t) \/ get_session_grow(t) \/ get_session_wait(t)
         \/ get_session_timeout(t) \/ spurious_wakeup(t)
         \/ use_session(t)
         \/ release_borrowed(t) \/ release_session_free(t)
    \/ \E s \in Slots : connection_lost(s)
    \/ Terminated

\* A thread inside the pool's code keeps running; nobody promises that a
\* borrower gives its session back, or that a timeout expires.
Fairness ==
    \A t \in Threads :
      /\ WF_vars(pc[t] = "woken" /\ get_session(t))
      /\ WF_vars(release_session_free(t))

Spec == Init /\ [][Next]_vars /\ Fairness

-----------------------------------------------------------------------------
(* Properties                                                               *)

\* The pool's state has the shape of oci_pool_handle_t and of the threads' contexts.
TypeOK ==
    /\ phase \in {"down", "up", "closed"}
    /\ slots \in [Slots -> SlotType]
    /\ slotsOpen \in 0 .. PoolMax
    /\ pc \in [Threads -> {"idle", "waiting", "woken", "held", "returning"}]
    /\ ctx \in [Threads -> [live : BOOLEAN, slot : Slots]]

Borrowers == {t \in Threads : pc[t] \in {"held", "returning"}}

\* slots_open, maintained by separate ++ and -- on every open and close path
\* of get_session() and health_check(), always equals the number of slots
\* with handles, so growth never overshoots pool_max_size and never stops early.
SlotsOpenCorrect == slotsOpen = Cardinality(OpenSlots)

\* No two threads ever hold the same session.
ExclusiveSessions ==
    \A t, u \in Borrowers : ctx[t].slot = ctx[u].slot => t = u

\* IN_USE marks exactly the slots that some thread holds, and those keep
\* their handles: neither the health check nor another borrower's failed
\* validation closes or recycles a session under its holder.
HeldSlotsInUse ==
    /\ \A s \in Slots :
         slots[s].inUse <=> \E t \in Borrowers : ctx[t].slot = s
    /\ \A t \in Borrowers : ctx[t].live /\ slots[ctx[t].slot].open

\* With rollback_on_return_to_pool a session lying in the pool carries no
\* uncommitted work of its last borrower.
FreeSlotsClean ==
    RollbackOnReturn => \A s \in FreeSlots : ~slots[s].dirty

\* pthread_cond_signal() never goes missing: while a thread sleeps in
\* get_session(), every free slot has a woken thread on its way to the scan.
NoSleepBesideFreeSlot ==
    Waiting # {} => Cardinality(FreeSlots) <= Cardinality(Woken)

\* With validation on borrow a step that hands out a session hands out one
\* whose connection answered the ping, and whose work is the borrower's own.
BorrowedFresh ==
    [][\A t \in Threads :
         pc[t] # "held" /\ pc'[t] = "held" /\ ValidateOnBorrow /\ RollbackOnReturn
           => slots'[ctx'[t].slot].alive /\ ~slots'[ctx'[t].slot].dirty]_vars

\* A free session and a sleeping borrower find each other without a timeout.
FreeSlotsGetTaken ==
    (FreeSlots # {} /\ Waiting # {}) ~> (FreeSlots = {} \/ Waiting = {})
=============================================================================
