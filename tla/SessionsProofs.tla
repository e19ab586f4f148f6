---------------------------- MODULE SessionsProofs ----------------------------
(***************************************************************************)
(* Proofs about Sessions, for any number of workers, sessions, requests    *)
(* and crashes and any cache and queue limits: the session cache is used   *)
(* as a cache, and a session that session_validate() accepts is ACTIVE in  *)
(* OCI_SESSION, but for the two exceptions that the property names.        *)
(***************************************************************************)
EXTENDS Sessions, CacheProofs, SequenceTheorems

-----------------------------------------------------------------------------
(* The inductive invariant                                                  *)

\* expiry_ts = now - 1 counts as expired only when it is not zero, which is
\* "never expires".
PastFirstSecond == clock >= 2

\* The record that session_touch() has read, and will write back, is that of
\* a session the table calls ACTIVE, or one of the exceptions.
TouchedActive ==
    \A k \in Keys :
      Touching(k) => row[k].status = "ACTIVE" \/ k \in closing \/ k \in overlapped

\* Between a crash and the next start there is no cache and no thread: what
\* the reconciliation closes nobody has cached.
DownIsEmpty ==
    ~up => /\ DOMAIN store = {} /\ closing = {} /\ rpc = "off"
           /\ \A w \in Workers : wpc[w] = "idle"

SInv ==
    /\ STypeOK /\ PastFirstSecond /\ closing \subseteq Keys /\ up \in BOOLEAN
    /\ TouchedActive /\ DownIsEmpty /\ AcceptedSessionsAreActive

-----------------------------------------------------------------------------
(* What the cache's operations do to hits                                   *)

\* A hit, or a release, changes no key and no expiry.
LEMMA HitKeepsLive ==
    ASSUME CInv, NEW r \in Readers,
           (\E k \in Keys : cache_lookup_hit(r, k)) \/ cache_release(r)
    PROVE  \A j \in Keys : Live(j)' = Live(j)
<1>1. /\ DOMAIN store' = DOMAIN store /\ clock' = clock
      /\ \A p \in DOMAIN store : store'[p].key = store[p].key /\ store'[p].expiry = store[p].expiry
  <2>1. ASSUME NEW k \in Keys, cache_lookup_hit(r, k)
        PROVE  /\ DOMAIN store' = DOMAIN store /\ clock' = clock
               /\ \A p \in DOMAIN store : store'[p].key = store[p].key /\ store'[p].expiry = store[p].expiry
    <3>1. PICK q \in Live(k) : store' = [store EXCEPT ![q].inUse = TRUE, ![q].access = clock]
      BY <2>1 DEF cache_lookup_hit
    <3> QED
      BY <2>1, <3>1 DEF cache_lookup_hit, CInv, CTypeOK, Entry
  <2>2. CASE cache_release(r)
    BY <2>2 DEF cache_release, CInv, CTypeOK, Entry
  <2> QED
    BY <2>1, <2>2
<1> QED
  BY <1>1 DEF Live, At, Expired

\* An insert gives hits for its own key only.
LEMMA InsertLive ==
    ASSUME CInv, NEW k \in Keys, NEW d, NEW tags, NEW json, cache_insert(k, d, tags, json)
    PROVE  \A j \in Keys : j # k /\ Live(j)' # {} => Live(j) # {}
<1>1. CASE UNCHANGED store
  BY <1>1 DEF cache_insert, Live, At, Expired
<1>2. ASSUME NEW gone,
             store' = [p \in DOMAIN Without(At(k) \cup gone) \cup {last + 1} |->
                         IF p = last + 1 THEN NewEntry(k, d, tags, json) ELSE Without(At(k) \cup gone)[p]]
      PROVE  \A j \in Keys : j # k /\ Live(j)' # {} => Live(j) # {}
  <2>1. /\ DOMAIN store' = (DOMAIN store \ (At(k) \cup gone)) \cup {last + 1}
        /\ store'[last + 1].key = k
        /\ \A p \in DOMAIN store' : p # last + 1 => p \in DOMAIN store /\ store'[p] = store[p]
    BY <1>2 DEF Without, NewEntry
  <2>2. clock' = clock
    BY DEF cache_insert
  <2>3. \A j \in Keys : j # k => \A p \in Live(j)' : p \in Live(j)
    BY <2>1, <2>2 DEF Live, At, Expired
  <2> QED
    BY <2>3
<1>3. ASSUME NEW gone, store' = Without(At(k) \cup gone)
      PROVE  \A j \in Keys : j # k /\ Live(j)' # {} => Live(j) # {}
  <2>1. /\ \A p \in DOMAIN store' : p \in DOMAIN store /\ store'[p] = store[p]
        /\ clock' = clock
    BY <1>3 DEF Without, cache_insert
  <2>2. \A j \in Keys : \A p \in Live(j)' : p \in Live(j)
    BY <2>1 DEF Live, At, Expired
  <2> QED
    BY <2>2
<1> QED
  BY <1>1, <1>2, <1>3 DEF cache_insert

\* An expired key has no hit any more, and no other key gains one.
LEMMA ExpireLive ==
    ASSUME CInv, clock >= 2, NEW k \in Keys, cache_expire_entry(k)
    PROVE  Live(k)' = {} /\ \A j \in Keys : Live(j)' # {} => Live(j) # {}
<1>1. clock \in Nat /\ clock' = clock
  BY DEF CInv, CTypeOK, cache_expire_entry
<1>2. /\ DOMAIN store' = DOMAIN store
      /\ \A p \in DOMAIN store : store'[p].key = store[p].key
      /\ \A p \in At(k) : store'[p].expiry = clock - 1
      /\ \A p \in DOMAIN store \ At(k) : store'[p] = store[p]
  BY DEF cache_expire_entry, MarkExpired, At, CInv, CTypeOK, Entry
<1>3. \A p \in At(k) : Expired(p)'
  BY <1>1, <1>2 DEF Expired
<1>4. Live(k)' = {}
  BY <1>2, <1>3 DEF Live, At
<1>5. \A j \in Keys : j # k => \A p \in Live(j)' : p \in Live(j)
  BY <1>1, <1>2 DEF Live, At, Expired
<1> QED
  BY <1>4, <1>5

\* Time only takes hits away.
LEMMA TickLive ==
    ASSUME CInv, Tick
    PROVE  \A j \in Keys : Live(j)' # {} => Live(j) # {}
<1>1. /\ store' = store /\ clock' = clock + 1 /\ clock \in Nat
      /\ \A p \in DOMAIN store : store[p].expiry \in Nat
  BY DEF Tick, CInv, CTypeOK, Entry
<1>2. \A p \in DOMAIN store : Expired(p) => Expired(p)'
  BY <1>1 DEF Expired
<1>3. \A j \in Keys : \A p \in Live(j)' : p \in Live(j)
  BY <1>1, <1>2 DEF Live, At
<1> QED
  BY <1>3

\* An empty table gives no hits.
LEMMA EmptyLive ==
    ASSUME DOMAIN store = {}
    PROVE  \A j : Live(j) = {}
BY DEF Live, At

-----------------------------------------------------------------------------
(* The cache's part of a step                                               *)

\* Every step of a handler, a worker, the Session Manager or the process is
\* a step of the cache, or leaves it alone.
LEMMA SessionStepsOfCache ==
    ASSUME STypeOK, [SNext]_allvars
    PROVE  [CNext]_cvars
<1>1. "ACTIVE" \in Docs /\ {} \in SUBSET Tags /\ FALSE \in BOOLEAN /\ Runner \in Readers /\ rkey \in Keys
  BY SessionAssumption DEF STypeOK
<1>2. ASSUME NEW k \in Keys, HandlerStep(k) PROVE [CNext]_cvars
  <2>1. cache_insert(k, "ACTIVE", {}, FALSE) => CNext
    BY <1>1 DEF CNext
  <2>2. cache_expire_entry(k) => CNext
    BY DEF CNext
  <2> QED
    BY <1>2, <2>1, <2>2 DEF HandlerStep, session_create, session_end_update,
       session_end_invalidate
<1>3. ASSUME NEW w \in Workers, WorkerStep(w) PROVE [CNext]_cvars
  <2>1. w \in Readers
    BY DEF Workers
  <2>2. \A k \in Keys : cache_lookup_hit(w, k) => CNext
    BY <2>1 DEF CNext
  <2>3. cache_release(w) => CNext
    BY <2>1 DEF CNext
  <2> QED
    BY <1>3, <2>2, <2>3 DEF WorkerStep, validate_hit, validate_miss, validate_release,
       report_activity
<1>4. CASE RunnerStep
  <2>1. cache_lookup_hit(Runner, rkey) => CNext
    BY <1>1 DEF CNext
  <2>2. cache_release(Runner) => CNext
    BY <1>1 DEF CNext
  <2>3. cache_insert(rkey, "ACTIVE", {}, FALSE) => CNext
    BY <1>1 DEF CNext
  <2> QED
    BY <1>4, <2>1, <2>2, <2>3
       DEF RunnerStep, runner_dequeue, touch_hit, touch_miss, touch_release, touch_store, session_touch_db
<1>5. CASE start
  BY <1>5 DEF start
<1>6. CASE crash
  BY <1>6 DEF crash, CNext
<1>7. CASE TimePasses
  BY <1>7 DEF TimePasses, CNext
<1>8. CASE UNCHANGED allvars \/ Quiescent
  BY <1>8 DEF Quiescent, allvars, cvars
<1> QED
  BY <1>2, <1>3, <1>4, <1>5, <1>6, <1>7, <1>8 DEF SNext

-----------------------------------------------------------------------------
(* The sessions' part of a step                                             *)

\* The rows of the table.
Rows == [status : {"none", "ACTIVE", "LOGGED_OUT", "EXPIRED_ORPHAN"}, created : Nat, active : Nat]

\* CREATE_SESSION, and the two halves of END_SESSION.
LEMMA HandlerOK ==
    ASSUME CInv, SInv, CInv', NEW k \in Keys, HandlerStep(k)
    PROVE  SInv'
<1>1. /\ UNCHANGED <<touch_q, wpc, wkey, rpc, rkey, up, tx_left, unsaved, missed>> /\ clock' = clock /\ clock \in Nat /\ up
      /\ row \in [Keys -> Rows] /\ CTypeOK'
  <2>1. CASE session_create(k)
    BY <2>1 DEF session_create, KeepThreads, KeepSync, cache_insert, cvars, CInv, CTypeOK, SInv,
       STypeOK, Rows
  <2>2. CASE session_end_update(k)
    BY <2>2 DEF session_end_update, KeepThreads, KeepSync, cvars, CInv, CTypeOK, SInv, STypeOK, Rows
  <2>3. CASE session_end_invalidate(k)
    BY <2>3 DEF session_end_invalidate, KeepThreads, KeepSync, cache_expire_entry, CInv, CTypeOK,
       SInv, STypeOK,
                DownIsEmpty, Rows
  <2> QED
    BY <2>1, <2>2, <2>3 DEF HandlerStep
<1>2. \A j \in Keys : Touching(j)' <=> Touching(j)
  BY <1>1 DEF Touching
<1>3. /\ row' \in [Keys -> Rows] /\ closing' \subseteq Keys
      /\ \A j \in Keys :
           row[j].status = "ACTIVE" \/ j \in closing \/ j \in overlapped =>
             \/ row'[j].status = "ACTIVE" \/ j \in closing' \/ j \in overlapped'
             \/ (j = k /\ Live(k)' = {} /\ ~Touching(k))
      /\ \A j \in Keys : Live(j)' # {} => Live(j) # {} \/ (j = k /\ row'[k].status = "ACTIVE")
  <2>1. CASE session_create(k)
    <3>1. /\ row' = [row EXCEPT ![k] = [status |-> "ACTIVE", created |-> clock, active |-> clock]]
          /\ closing' = closing /\ overlapped' = overlapped
      BY <2>1 DEF session_create
    <3>2. /\ row' \in [Keys -> Rows] /\ row'[k].status = "ACTIVE"
          /\ \A j \in Keys : j # k => row'[j] = row[j]
      BY <1>1, <3>1 DEF Rows
    <3>3. \A j \in Keys : j # k /\ Live(j)' # {} => Live(j) # {}
      <4>1. CASE cache_insert(k, "ACTIVE", {}, FALSE)
        BY <4>1, InsertLive
      <4>2. CASE UNCHANGED cvars
        BY <4>2 DEF cvars, Live, At, Expired
      <4> QED
        BY <2>1, <4>1, <4>2 DEF session_create
    <3>4. closing' \subseteq Keys
      BY <3>1 DEF SInv
    <3> QED
      BY <3>1, <3>2, <3>3, <3>4
  <2>2. CASE session_end_update(k)
    <3>1. /\ row' = [row EXCEPT ![k].status = "LOGGED_OUT", ![k].active = clock]
          /\ closing' = closing \cup {k} /\ overlapped' = overlapped /\ UNCHANGED cvars
      BY <2>2 DEF session_end_update
    <3>2. row' \in [Keys -> Rows] /\ \A j \in Keys : j # k => row'[j] = row[j]
      BY <1>1, <3>1 DEF Rows
    <3>3. \A j \in Keys : Live(j)' = Live(j)
      BY <3>1 DEF cvars, Live, At, Expired
    <3>4. closing' \subseteq Keys
      BY <3>1 DEF SInv
    <3> QED
      BY <3>1, <3>2, <3>3, <3>4
  <2>3. CASE session_end_invalidate(k)
    <3>1. /\ cache_expire_entry(k) /\ closing' = closing \ {k} /\ row' = row
          /\ overlapped' = IF Touching(k) THEN overlapped \cup {k} ELSE overlapped
      BY <2>3 DEF session_end_invalidate
    <3>2. Live(k)' = {} /\ \A j \in Keys : Live(j)' # {} => Live(j) # {}
      BY <3>1, ExpireLive DEF SInv, PastFirstSecond
    <3>3. closing' \subseteq Keys
      BY <3>1 DEF SInv
    <3> QED
      BY <1>1, <3>1, <3>2, <3>3
  <2> QED
    BY <2>1, <2>2, <2>3 DEF HandlerStep
<1>4. STypeOK' /\ PastFirstSecond' /\ closing' \subseteq Keys /\ up' \in BOOLEAN
  BY <1>1, <1>3 DEF SInv, STypeOK, PastFirstSecond, Rows
<1>5. TouchedActive' /\ AcceptedSessionsAreActive'
  BY <1>2, <1>3 DEF SInv, TouchedActive, AcceptedSessionsAreActive
<1>6. DownIsEmpty'
  BY <1>1 DEF DownIsEmpty
<1> QED
  BY <1>4, <1>5, <1>6 DEF SInv

\* A request is validated, answered and reported: nothing is cached.
LEMMA WorkerOK ==
    ASSUME CInv, SInv, CInv', NEW w \in Workers, WorkerStep(w)
    PROVE  SInv'
<1>1. w \in Readers /\ CTypeOK'
  BY DEF Workers, CInv
<1>2. /\ UNCHANGED <<row, closing, overlapped, up, rpc, rkey, tx_left, unsaved, missed>>
      /\ clock' = clock /\ \A j \in Keys : Live(j)' = Live(j)
      /\ up
  <2>1. ASSUME NEW k \in Keys, validate_hit(w, k)
        PROVE  /\ UNCHANGED <<row, closing, overlapped, up, rpc, rkey, tx_left, unsaved, missed>>
               /\ clock' = clock /\ (\A j \in Keys : Live(j)' = Live(j)) /\ up
    BY <1>1, <2>1, HitKeepsLive DEF validate_hit, Request, KeepTable, KeepSync, cache_lookup_hit
  <2>2. ASSUME NEW k \in Keys, validate_miss(w, k)
        PROVE  /\ UNCHANGED <<row, closing, overlapped, up, rpc, rkey, tx_left, unsaved, missed>>
               /\ clock' = clock /\ (\A j \in Keys : Live(j)' = Live(j)) /\ up
    BY <2>2 DEF validate_miss, Request, KeepTable, KeepSync, cvars, Live, At, Expired
  <2>3. CASE validate_release(w)
    <3>1. cache_release(w) /\ wpc[w] # "idle" /\ UNCHANGED <<row, closing, overlapped, up, rpc, rkey, tx_left, unsaved, missed>>
      BY <2>3 DEF validate_release, KeepTable, KeepSync
    <3>2. up
      BY <3>1 DEF SInv, DownIsEmpty
    <3> QED
      BY <1>1, <3>1, <3>2, HitKeepsLive DEF cache_release
  <2>4. CASE report_activity(w)
    <3>1. UNCHANGED cvars /\ wpc[w] # "idle" /\ UNCHANGED <<row, closing, overlapped, up, rpc, rkey, tx_left, unsaved, missed>>
      BY <2>4 DEF report_activity, KeepTable, KeepSync
    <3>2. up
      BY <3>1 DEF SInv, DownIsEmpty
    <3> QED
      BY <3>1, <3>2 DEF cvars, Live, At, Expired
  <2> QED
    BY <2>1, <2>2, <2>3, <2>4 DEF WorkerStep
<1>3. /\ wpc' \in [Workers -> {"idle", "reading", "answered"}] /\ wkey' \in [Workers -> Keys]
      /\ touch_q' \in Seq(Keys) /\ Len(touch_q') <= QueueDepth
  <2>1. /\ wpc \in [Workers -> {"idle", "reading", "answered"}] /\ wkey \in [Workers -> Keys]
        /\ touch_q \in Seq(Keys) /\ Len(touch_q) <= QueueDepth
    BY DEF SInv, STypeOK
  <2>2. ASSUME NEW k \in Keys, validate_hit(w, k) \/ validate_miss(w, k)
        PROVE  /\ wpc' \in [Workers -> {"idle", "reading", "answered"}] /\ wkey' \in [Workers -> Keys]
               /\ touch_q' = touch_q
    BY <2>1, <2>2 DEF validate_hit, validate_miss, Request
  <2>3. CASE validate_release(w)
    BY <2>1, <2>3 DEF validate_release
  <2>4. CASE report_activity(w)
    <3>1. wpc' \in [Workers -> {"idle", "reading", "answered"}] /\ wkey' \in [Workers -> Keys]
      BY <2>1, <2>4 DEF report_activity
    <3>2. CASE Len(touch_q) < QueueDepth /\ touch_q' = Append(touch_q, wkey[w])
      <4>1. wkey[w] \in Keys
        BY <2>1
      <4>2. Append(touch_q, wkey[w]) \in Seq(Keys) /\ Len(Append(touch_q, wkey[w])) = Len(touch_q) + 1
        BY <2>1, <4>1, AppendProperties
      <4>3. Len(touch_q) \in Nat
        BY <2>1, LenProperties
      <4> QED
        BY <2>1, <3>1, <3>2, <4>2, <4>3, SessionAssumption
    <3>3. CASE touch_q' = touch_q
      BY <2>1, <3>1, <3>3
    <3> QED
      BY <2>4, <3>2, <3>3 DEF report_activity
  <2> QED
    BY <2>1, <2>2, <2>3, <2>4 DEF WorkerStep
<1>4. STypeOK' /\ PastFirstSecond' /\ closing' \subseteq Keys /\ up' \in BOOLEAN
  BY <1>1, <1>2, <1>3 DEF SInv, STypeOK, PastFirstSecond
<1>5. TouchedActive' /\ AcceptedSessionsAreActive'
  BY <1>2 DEF SInv, TouchedActive, AcceptedSessionsAreActive, Touching
<1>6. DownIsEmpty'
  BY <1>2 DEF DownIsEmpty
<1> QED
  BY <1>4, <1>5, <1>6 DEF SInv

\* session_touch() writes back only what it read, and session_touch_db()
\* changes no status.
LEMMA RunnerOK ==
    ASSUME CInv, SInv, CInv', RunnerStep
    PROVE  SInv'
<1>1. /\ UNCHANGED <<closing, overlapped, up, wpc, wkey>> /\ CTypeOK' /\ rpc # "off"
  BY DEF RunnerStep, runner_dequeue, touch_hit, touch_miss, touch_release, touch_store,
         session_touch_db, KeepWorkers, CInv
<1>2. up /\ rkey \in Keys /\ Runner \in Readers
  BY <1>1, SessionAssumption DEF SInv, DownIsEmpty, STypeOK
<1>3. clock' = clock
  BY DEF RunnerStep, runner_dequeue, touch_hit, touch_miss, touch_release, touch_store,
         session_touch_db, cvars, cache_lookup_hit, cache_release, cache_insert
<1>4. row' \in [Keys -> Rows] /\ \A j \in Keys : row'[j].status = row[j].status
  <2>1. row \in [Keys -> Rows] /\ clock \in Nat
    BY DEF SInv, STypeOK, Rows, CInv, CTypeOK
  <2>2. CASE row' = row
    BY <2>1, <2>2
  <2>3. CASE row' = Synced
    <3>1. unsaved \in [Keys -> Nat]
      BY DEF SInv, STypeOK
    <3> QED
      BY <1>2, <2>1, <2>3, <3>1 DEF Rows, Synced
  <2> QED
    BY <2>2, <2>3 DEF RunnerStep, runner_dequeue, touch_hit, touch_miss, touch_release,
       touch_store, session_touch_db, touch_table, touch_table_fails
<1>5. /\ touch_q' \in Seq(Keys) /\ Len(touch_q') <= QueueDepth /\ rkey' \in Keys
      /\ rpc' \in {"idle", "lookup", "reading", "store", "table"}
  <2>1. touch_q \in Seq(Keys) /\ Len(touch_q) <= QueueDepth
    BY DEF SInv, STypeOK
  <2>2. CASE runner_dequeue
    <3>1. touch_q # << >> /\ rkey' = Head(touch_q) /\ touch_q' = Tail(touch_q) /\ rpc' = "lookup"
      BY <2>2 DEF runner_dequeue
    <3>2. Head(touch_q) \in Keys /\ Tail(touch_q) \in Seq(Keys) /\ Len(Tail(touch_q)) = Len(touch_q) - 1
      BY <2>1, <3>1, HeadTailProperties
    <3>3. Len(touch_q) \in Nat
      BY <2>1, LenProperties
    <3> QED
      BY <2>1, <3>1, <3>2, <3>3, SessionAssumption
  <2>3. CASE touch_hit \/ touch_miss \/ touch_release \/ touch_store \/ session_touch_db
    BY <1>2, <2>1, <2>3 DEF touch_hit, touch_miss, touch_release, touch_store,
       session_touch_db
  <2> QED
    BY <2>2, <2>3 DEF RunnerStep
<1>6. /\ \A j \in Keys : Touching(j)' => Touching(j) \/ Live(j) # {}
      /\ \A j \in Keys : Live(j)' # {} => Touching(j) \/ Live(j) # {}
  <2>1. CASE runner_dequeue \/ touch_miss \/ session_touch_db
    <3>1. UNCHANGED cvars /\ rpc' \notin {"reading", "store"}
      BY <2>1 DEF runner_dequeue, touch_miss, session_touch_db
    <3> QED
      BY <3>1 DEF cvars, Live, At, Expired, Touching
  <2>2. CASE touch_hit
    <3>1. cache_lookup_hit(Runner, rkey) /\ rkey' = rkey
      BY <2>2 DEF touch_hit
    <3>2. Live(rkey) # {}
      BY <3>1 DEF cache_lookup_hit
    <3>3. \A j \in Keys : Live(j)' = Live(j)
      BY <1>2, <3>1, HitKeepsLive
    <3> QED
      BY <3>1, <3>2, <3>3 DEF Touching
  <2>3. CASE touch_release
    <3>1. cache_release(Runner) /\ rkey' = rkey /\ rpc = "reading"
      BY <2>3 DEF touch_release
    <3>2. \A j \in Keys : Live(j)' = Live(j)
      BY <1>2, <3>1, HitKeepsLive
    <3> QED
      BY <3>1, <3>2 DEF Touching
  <2>4. CASE touch_store
    <3>1. cache_insert(rkey, "ACTIVE", {}, FALSE) /\ rpc = "store" /\ rpc' = "table"
      BY <2>4 DEF touch_store
    <3>2. \A j \in Keys : j # rkey /\ Live(j)' # {} => Live(j) # {}
      BY <1>2, <3>1, InsertLive
    <3> QED
      BY <3>1, <3>2 DEF Touching
  <2> QED
    BY <2>1, <2>2, <2>3, <2>4 DEF RunnerStep
<1>7. STypeOK' /\ PastFirstSecond' /\ closing' \subseteq Keys /\ up' \in BOOLEAN
  <2>1. /\ tx_left \in BOOLEAN /\ unsaved \in [Keys -> Nat] /\ missed \in [Keys -> Nat]
        /\ clock \in Nat /\ NothingUnsaved \in [Keys -> Nat]
    BY DEF SInv, STypeOK, CInv, CTypeOK, NothingUnsaved
  <2>2. /\ tx_left' \in BOOLEAN /\ unsaved' \in [Keys -> Nat] /\ missed' \in [Keys -> Nat]
    <3>1. CASE UNCHANGED <<tx_left, unsaved, missed>>
      BY <2>1, <3>1
    <3>2. CASE session_touch_db
      BY <1>2, <2>1, <3>2 DEF session_touch_db, touch_table, touch_table_fails
    <3> QED
      BY <3>1, <3>2 DEF RunnerStep, runner_dequeue, touch_hit, touch_miss, touch_release,
         touch_store, KeepSync
  <2> QED
    BY <1>1, <1>3, <1>4, <1>5, <2>2 DEF SInv, STypeOK, PastFirstSecond, Rows
<1>8. \A j \in Keys : Touching(j) \/ Live(j) # {} =>
                        row'[j].status = "ACTIVE" \/ j \in closing' \/ j \in overlapped'
  BY <1>1, <1>4 DEF SInv, TouchedActive, AcceptedSessionsAreActive
<1>9. TouchedActive' /\ AcceptedSessionsAreActive'
  BY <1>6, <1>8 DEF TouchedActive, AcceptedSessionsAreActive
<1>10. DownIsEmpty'
  BY <1>1, <1>2 DEF DownIsEmpty
<1> QED
  BY <1>7, <1>9, <1>10 DEF SInv

\* The reconciliation closes rows while no cache and no thread is there; a
\* crash takes them away; time takes hits away.
LEMMA ProcessOK ==
    ASSUME CInv, SInv, CInv', start \/ crash \/ TimePasses \/ Quiescent \/ UNCHANGED allvars
    PROVE  SInv'
<1>1. CTypeOK' /\ clock \in Nat
  BY DEF CInv, CTypeOK
<1>2. CASE start
  <2>1. /\ ~up /\ up' = TRUE /\ rpc' \in {"idle", "dead"} /\ UNCHANGED cvars
        /\ UNCHANGED <<touch_q, wpc, wkey, rkey, closing, overlapped, tx_left, unsaved, missed>>
    BY <1>2 DEF start, KeepSync
  <2>2. row' \in [Keys -> Rows]
    <3>1. row \in [Keys -> Rows]
      BY DEF SInv, STypeOK, Rows
    <3>2. PICK closed \in SUBSET Orphans :
            row' = [k \in Keys |-> IF k \in closed
                      THEN [row[k] EXCEPT !.status = "EXPIRED_ORPHAN", !.active = clock] ELSE row[k]]
      BY <1>2 DEF start
    <3> QED
      BY <1>1, <3>1, <3>2 DEF Rows
  <2>3. \A j : Live(j)' = {}
    <3>1. DOMAIN store = {} /\ store' = store
      BY <2>1 DEF SInv, DownIsEmpty, cvars
    <3> QED
      BY <3>1 DEF Live, At
  <2>4. STypeOK' /\ PastFirstSecond' /\ closing' \subseteq Keys /\ up' \in BOOLEAN
    BY <1>1, <2>1, <2>2 DEF SInv, STypeOK, PastFirstSecond, Rows, cvars
  <2>5. TouchedActive' /\ DownIsEmpty' /\ AcceptedSessionsAreActive'
    BY <2>1, <2>3 DEF TouchedActive, Touching, DownIsEmpty, AcceptedSessionsAreActive
  <2> QED
    BY <2>4, <2>5 DEF SInv
<1>3. CASE crash
  <2>1. /\ up' = FALSE /\ cache_restart /\ touch_q' = << >> /\ closing' = {}
        /\ wpc' = [w \in Workers |-> "idle"] /\ rpc' = "off"
        /\ tx_left' = FALSE /\ unsaved' = [k \in Keys |-> 0]
        /\ UNCHANGED <<row, wkey, rkey, overlapped, missed>>
    BY <1>3 DEF crash, NothingUnsaved
  <2>2. DOMAIN store' = {} /\ clock' = clock
    BY <2>1 DEF cache_restart
  <2>3. \A j : Live(j)' = {}
    BY <2>2 DEF Live, At
  <2>4. touch_q' \in Seq(Keys) /\ Len(touch_q') <= QueueDepth
    BY <2>1, SessionAssumption
  <2>5. STypeOK' /\ PastFirstSecond' /\ closing' \subseteq Keys /\ up' \in BOOLEAN
    BY <1>1, <2>1, <2>2, <2>4 DEF SInv, STypeOK, PastFirstSecond
  <2>6. TouchedActive' /\ DownIsEmpty' /\ AcceptedSessionsAreActive'
    BY <2>1, <2>2, <2>3 DEF TouchedActive, Touching, DownIsEmpty, AcceptedSessionsAreActive
  <2> QED
    BY <2>5, <2>6 DEF SInv
<1>4. CASE TimePasses \/ Quiescent \/ UNCHANGED allvars
  <2>1. /\ UNCHANGED <<row, touch_q, wpc, wkey, rpc, rkey, closing, overlapped, up, store,
                     tx_left, unsaved, missed>>
        /\ clock' = clock \/ clock' = clock + 1
        /\ Tick \/ UNCHANGED cvars
    BY <1>4 DEF TimePasses, Quiescent, allvars, svars, Tick, cvars
  <2>2. \A j \in Keys : Live(j)' # {} => Live(j) # {}
    <3>1. CASE Tick
      BY <3>1, TickLive
    <3>2. CASE UNCHANGED cvars
      BY <3>2 DEF cvars, Live, At, Expired
    <3> QED
      BY <2>1, <3>1, <3>2
  <2>3. STypeOK' /\ PastFirstSecond' /\ closing' \subseteq Keys /\ up' \in BOOLEAN
    BY <1>1, <2>1 DEF SInv, STypeOK, PastFirstSecond
  <2>4. TouchedActive' /\ DownIsEmpty' /\ AcceptedSessionsAreActive'
    BY <2>1, <2>2 DEF SInv, TouchedActive, Touching, DownIsEmpty, AcceptedSessionsAreActive
  <2> QED
    BY <2>3, <2>4 DEF SInv
<1> QED
  BY <1>2, <1>3, <1>4

\* A first start on an empty table.
LEMMA SInitOK == SInit => CInv /\ SInv
<1> SUFFICES ASSUME SInit PROVE CInv /\ SInv
  OBVIOUS
<1>1. CInv
  BY InitOK DEF SInit
<1>2. PICK k0 \in Keys : k0 = CHOOSE k \in Keys : TRUE
  BY SessionAssumption
<1>3. /\ row = [k \in Keys |-> NoRow] /\ touch_q = << >> /\ wpc = [w \in Workers |-> "idle"]
      /\ wkey \in [Workers -> {k0}] /\ rpc = "off" /\ rkey = k0
      /\ closing = {} /\ up = FALSE /\ clock = 2 /\ DOMAIN store = {}
      /\ tx_left = FALSE /\ unsaved = [k \in Keys |-> 0] /\ missed = [k \in Keys |-> 0]
  BY <1>2 DEF SInit, CInit
<1>4. STypeOK
  <2>1. touch_q \in Seq(Keys) /\ Len(touch_q) <= QueueDepth
    BY <1>3, SessionAssumption
  <2>2. row \in [Keys -> Rows]
    BY <1>3 DEF NoRow, Rows
  <2> QED
    BY <1>1, <1>3, <2>1, <2>2 DEF STypeOK, CInv, Rows
<1>5. TouchedActive /\ DownIsEmpty /\ AcceptedSessionsAreActive
  BY <1>3, EmptyLive DEF TouchedActive, Touching, DownIsEmpty, AcceptedSessionsAreActive
<1>6. PastFirstSecond /\ closing \subseteq Keys /\ up \in BOOLEAN
  <2>1. PastFirstSecond /\ closing = {}
    BY <1>3 DEF PastFirstSecond
  <2>2. up \in BOOLEAN
    BY <1>3
  <2> QED
    BY <2>1, <2>2
<1> QED
  BY <1>1, <1>4, <1>5, <1>6 DEF SInv

\* Every step preserves the cache's invariant and the sessions'.
LEMMA SNextOK ==
    ASSUME CInv, SInv, [SNext]_allvars
    PROVE  CInv' /\ SInv'
<1>1. CInv'
  BY SessionStepsOfCache, NextOK DEF SInv
<1>2. SInv'
  <2>1. ASSUME NEW k \in Keys, HandlerStep(k) PROVE SInv'
    BY <1>1, <2>1, HandlerOK
  <2>2. ASSUME NEW w \in Workers, WorkerStep(w) PROVE SInv'
    BY <1>1, <2>2, WorkerOK
  <2>3. CASE RunnerStep
    BY <1>1, <2>3, RunnerOK
  <2>4. CASE start \/ crash \/ TimePasses \/ Quiescent \/ UNCHANGED allvars
    BY <1>1, <2>4, ProcessOK
  <2> QED
    BY <2>1, <2>2, <2>3, <2>4 DEF SNext
<1> QED
  BY <1>1, <1>2

-----------------------------------------------------------------------------
(* The theorems                                                             *)

\* The two invariants hold in every behaviour of handlers, workers, Session
\* Manager, crashes and restarts.
THEOREM SessionsInvariant == SSpec => [](CInv /\ SInv)
<1>1. SInit => CInv /\ SInv
  BY SInitOK
<1>2. (CInv /\ SInv) /\ [SNext]_allvars => (CInv /\ SInv)'
  BY SNextOK
<1> QED
  BY <1>1, <1>2, PTL DEF SSpec

\* The session manager drives the cache as its specification allows.
THEOREM SessionsUseCache == SSpec => CSpec
<1>1. SInit => CInit
  BY DEF SInit
<1>2. SInv /\ [SNext]_allvars => [CNext]_cvars
  BY SessionStepsOfCache DEF SInv
<1> QED
  BY <1>1, <1>2, SessionsInvariant, PTL DEF SSpec, CSpec

\* Table, touch queue and threads keep their shape.
THEOREM SessionsTypeCorrect == SSpec => []STypeOK
<1>1. SInv => STypeOK
  BY DEF SInv
<1> QED
  BY <1>1, SessionsInvariant, PTL

\* session_validate() accepts only sessions that OCI_SESSION calls ACTIVE,
\* except between the two halves of session_end() and after a session_touch()
\* that overlapped with it.
THEOREM OnlyActiveSessionsAccepted == SSpec => []AcceptedSessionsAreActive
<1>1. SInv => AcceptedSessionsAreActive
  BY DEF SInv
<1> QED
  BY <1>1, SessionsInvariant, PTL

\* A thread that has a session record for itself reads memory the session
\* cache still owns.
THEOREM SessionReaderProtected == SSpec => []SoleReaderSafe
BY SessionsUseCache, SoleReaderProtected, PTL
=============================================================================
