--------------------------- MODULE QueryPathProofs ---------------------------
(***************************************************************************)
(* SELECTs and writes use the resultset cache as CacheProofs assumes: what *)
(* execute_query_batch() and the write modules do to the cache is a        *)
(* behaviour of Cache, so its theorems hold here, for any number of        *)
(* workers, queries, tables and writes.  A SELECT that no write to its     *)
(* table overlaps with delivers one snapshot, and what it caches is not    *)
(* served once a write has been announced.                                 *)
(***************************************************************************)
EXTENDS QueryPath, CacheProofs

-----------------------------------------------------------------------------
(* The inductive invariant                                                  *)

\* A write under way is known: its table is what gets invalidated.
WorkKnown == \A w \in Readers : work[w].stage # "none" => work[w].id # {}

QInv == QTypeOK /\ WorkKnown

-----------------------------------------------------------------------------
(* Facts about the operators                                                *)

\* The table a write under way changes is a table.
LEMMA TableOfType ==
    ASSUME QInv, NEW w \in Readers, work[w].stage # "none"
    PROVE  TableOf(w) \in Tags
<1>1. work[w].id \in SUBSET Writes /\ work[w].id # {}
  BY DEF QInv, QTypeOK, WorkKnown
<1>2. (CHOOSE x \in work[w].id : TRUE) \in Writes
  BY <1>1
<1> QED
  BY <1>2, QueryAssumption DEF TableOf

\* What a session sees of a table is a set of writes.
LEMMA VisibleType ==
    ASSUME QInv, NEW w \in Readers, NEW t
    PROVE  Visible(w, t) \in SUBSET Writes
BY DEF QInv, QTypeOK, Visible, On

\* A table never has fewer than no rows.
LEMMA RowsType ==
    ASSUME NEW S \in SUBSET Writes
    PROVE  Rows(S) \in Nat
<1> DEFINE del(T) == {x \in T : Delta[x] = -1}
           ins    == {x \in S : Delta[x] = 1}
<1>1. IsFiniteSet(del(Writes)) /\ del(S) \in SUBSET del(Writes) /\ IsFiniteSet(ins)
  <2>1. del(Writes) \in SUBSET Writes /\ ins \in SUBSET Writes
    OBVIOUS
  <2> QED
    BY <2>1, FS_Subset, QueryAssumption
<1>2. /\ IsFiniteSet(del(S)) /\ Cardinality(del(S)) \in Nat /\ Cardinality(ins) \in Nat
      /\ Cardinality(del(S)) <= Cardinality(del(Writes)) /\ Cardinality(del(Writes)) \in Nat
  BY <1>1, FS_Subset, FS_CardinalityType
<1>3. Cardinality(del(Writes)) <= BaseRows /\ BaseRows \in Nat
  BY QueryAssumption
<1>4. Rows(S) = BaseRows + Cardinality(ins) - Cardinality(del(S))
  BY DEF Rows
<1> HIDE DEF del, ins
<1> QED
  BY <1>2, <1>3, <1>4

\* The count a client is told is within the configured limit.
LEMMA RecordCountType ==
    ASSUME NEW n \in Nat
    PROVE  RecordCount(n) \in 0 .. MaxRecords
BY QueryAssumption DEF RecordCount

-----------------------------------------------------------------------------
(* The cache's part of a step                                               *)

\* Every step of a SELECT, of a write or of the environment is a step of
\* the cache, or leaves it alone.
LEMMA StepsOfCache ==
    ASSUME QInv, [QNext]_allvars
    PROVE  [CNext]_cvars
<1>1. ASSUME NEW w \in Readers, lookup_hit(w) PROVE CNext
  <2>1. cache_lookup_hit(w, query[w].key) /\ query[w].key \in Keys
    BY <1>1 DEF lookup_hit, QInv, QTypeOK
  <2> QED
    BY <2>1 DEF CNext
<1>2. ASSUME NEW w \in Readers, serve_hit(w) PROVE CNext
  BY <1>2 DEF serve_hit, CNext
<1>3. ASSUME NEW w \in Readers, store_result(w) PROVE CNext
  <2>1. PICK json \in BOOLEAN : cache_insert(query[w].key, snap[w], Named[query[w].key], json)
    BY <1>3 DEF store_result
  <2>2. query[w].key \in Keys /\ snap[w] \in Docs /\ Named[query[w].key] \in SUBSET Tags
    BY QueryAssumption DEF QInv, QTypeOK
  <2> QED
    BY <2>1, <2>2 DEF CNext
<1>4. ASSUME NEW w \in Readers, write_invalidate(w) PROVE CNext
  <2>1. cache_invalidate_by_tag(TableOf(w)) /\ work[w].stage # "none"
    BY <1>4 DEF write_invalidate, Invalidate
  <2>2. TableOf(w) \in Tags
    BY <2>1, TableOfType
  <2> QED
    BY <2>1, <2>2 DEF CNext
<1>5. ASSUME NEW w \in Readers,
             \/ select_begin(w) \/ lookup_miss(w) \/ count_rows(w) \/ open_cursor(w)
             \/ fetch_async(w) \/ fetch_sync(w)
             \/ write_execute(w) \/ write_commit(w) \/ transaction_end(w)
      PROVE  UNCHANGED cvars
  BY <1>5 DEF select_begin, lookup_miss, count_rows, open_cursor, fetch_async, fetch_sync,
              write_execute, write_commit, transaction_end
<1>6. CASE sweep \/ TimePasses
  BY <1>6 DEF sweep, TimePasses, CNext
<1>7. CASE UNCHANGED allvars
  BY <1>7 DEF allvars, cvars
<1>8. CASE Quiescent
  BY <1>8, <1>7 DEF Quiescent
<1> QED
  BY <1>1, <1>2, <1>3, <1>4, <1>5, <1>6, <1>7, <1>8 DEF QNext, SelectStep, WriteStep

-----------------------------------------------------------------------------
(* The workers' part of a step                                              *)

\* A SELECT keeps its own state in shape, and touches no write.
LEMMA SelectKeepsShape ==
    ASSUME QInv, CTypeOK', NEW w \in Readers, SelectStep(w)
    PROVE  QInv'
<1> DEFINE Labels == {"idle", "lookup", "reading", "count", "open", "fetch", "store"}
<1>1. db' = db /\ done' = done /\ work' = work
  BY DEF SelectStep, select_begin, lookup_hit, lookup_miss, serve_hit, count_rows,
     open_cursor,
         fetch_async, fetch_sync, store_result, KeepQuery
<1>2. \E l \in Labels : Goto(w, l)
  BY DEF SelectStep, select_begin, lookup_hit, lookup_miss, serve_hit, count_rows,
     open_cursor,
         fetch_async, fetch_sync, store_result, Failed
<1>3. query' \in [Readers -> [key : Keys, async : BOOLEAN]]
  <2>1. CASE select_begin(w)
    BY <2>1 DEF select_begin, QInv, QTypeOK
  <2>2. CASE ~select_begin(w)
    <3>1. query' = query
      BY <2>2 DEF SelectStep, lookup_hit, lookup_miss, serve_hit, count_rows, open_cursor,
                  fetch_async, fetch_sync, store_result, KeepQuery
    <3> QED
      BY <3>1 DEF QInv, QTypeOK
  <2> QED
    BY <2>1, <2>2
<1>4. counted' \in [Readers -> 0 .. MaxRecords]
  <2>1. CASE count_rows(w)
    <3> DEFINE n == Rows(Visible(w, Reads[query[w].key]))
    <3>1. RecordCount(n) \in 0 .. MaxRecords
      BY VisibleType, RowsType, RecordCountType
    <3>2. counted' = counted \/ counted' = [counted EXCEPT ![w] = RecordCount(n)]
      BY <2>1 DEF count_rows, Failed, KeepCursor
    <3> HIDE DEF n
    <3> QED
      BY <3>1, <3>2 DEF QInv, QTypeOK
  <2>2. CASE ~count_rows(w)
    <3>1. counted' = counted
      BY <2>2 DEF SelectStep, select_begin, lookup_hit, lookup_miss, serve_hit, open_cursor,
                  fetch_async, fetch_sync, store_result, Failed, KeepCursor
    <3> QED
      BY <3>1 DEF QInv, QTypeOK
  <2> QED
    BY <2>1, <2>2
<1>5. snap' \in [Readers -> SUBSET Writes]
  <2>1. CASE open_cursor(w)
    <3>1. snap' = snap \/ snap' = [snap EXCEPT ![w] = Visible(w, Reads[query[w].key])]
      BY <2>1 DEF open_cursor, Failed, KeepCursor
    <3> QED
      BY <3>1, VisibleType DEF QInv, QTypeOK
  <2>2. CASE ~open_cursor(w)
    <3>1. snap' = snap
      BY <2>2 DEF SelectStep, select_begin, lookup_hit, lookup_miss, serve_hit, count_rows,
                  fetch_async, fetch_sync, store_result, Failed, KeepCursor
    <3> QED
      BY <3>1 DEF QInv, QTypeOK
  <2> QED
    BY <2>1, <2>2
<1>6. trusted' \in SUBSET Addresses
  <2>1. trusted' = trusted \/ (trusted' = trusted \cup {last'} /\ last' # last)
    <3>1. CASE store_result(w)
      BY <3>1 DEF store_result
    <3>2. CASE ~store_result(w)
      BY <3>2 DEF SelectStep, select_begin, lookup_hit, lookup_miss, serve_hit, count_rows,
                  open_cursor, fetch_async, fetch_sync, KeepQuery
    <3> QED
      BY <3>1, <3>2
  <2>2. last' # last => last' = last + 1
    BY DEF SelectStep, select_begin, lookup_hit, lookup_miss, serve_hit, count_rows,
       open_cursor,
           fetch_async, fetch_sync, store_result, cache_insert, cache_lookup_hit, cache_release,
           cvars
  <2>3. last' # last => last' \in Addresses
    BY <2>2, CacheAssumption DEF QInv, QTypeOK, CTypeOK, Addresses
  <2> QED
    BY <2>1, <2>3 DEF QInv, QTypeOK
<1>7. pc' \in [Readers -> Labels]
  BY <1>2 DEF Goto, QInv, QTypeOK
<1> QED
  BY <1>1, <1>3, <1>4, <1>5, <1>6, <1>7 DEF QInv, QTypeOK, WorkKnown

\* A write knows what it wrote until it is committed and announced.
LEMMA WriteKeepsShape ==
    ASSUME QInv, CTypeOK', NEW w \in Readers, WriteStep(w)
    PROVE  QInv'
<1> DEFINE Work == [id : SUBSET Writes, managed : BOOLEAN,
                    stage : {"none", "executed", "committed", "open"}]
<1>1. UNCHANGED <<pc, query, trusted, counted, snap>>
  BY DEF WriteStep, write_execute, write_commit, write_invalidate, transaction_end,
     KeepSelect,
         KeepCursor
<1>2. work[w] \in Work /\ work[w].id \in SUBSET Writes
  BY DEF QInv, QTypeOK
<1>3. /\ done' \in SUBSET Writes /\ db' \in SUBSET Writes
      /\ \E n \in Work : /\ work' = [work EXCEPT ![w] = n]
                         /\ n.stage # "none" => n.id # {}
  <2>1. CASE write_execute(w)
    <3>1. PICK x \in Writes \ done, managed \in BOOLEAN :
            /\ work' = [work EXCEPT ![w] = [id |-> {x}, managed |-> managed, stage |-> "executed"]]
            /\ done' = done \cup {x}
      BY <2>1 DEF write_execute
    <3> DEFINE n == [id |-> {x}, managed |-> managed, stage |-> "executed"]
    <3>2. n \in Work /\ n.id # {}
      OBVIOUS
    <3>3. db' \in SUBSET Writes /\ done' \in SUBSET Writes
      BY <2>1, <3>1 DEF write_execute, QInv, QTypeOK
    <3> QED
      BY <3>1, <3>2, <3>3
  <2>2. CASE write_commit(w)
    <3>1. work[w].id # {}
      BY <2>2 DEF write_commit, QInv, WorkKnown
    <3>2. \/ work' = [work EXCEPT ![w] = NoWork]
          \/ work' = [work EXCEPT ![w] = [work[w] EXCEPT !.stage = "committed"]]
      BY <2>2 DEF write_commit
    <3>3. NoWork \in Work /\ NoWork.stage = "none"
      BY DEF NoWork
    <3>4. [work[w] EXCEPT !.stage = "committed"] \in Work
          /\ [work[w] EXCEPT !.stage = "committed"].id = work[w].id
      BY <1>2
    <3>5. db' \in SUBSET Writes /\ done' \in SUBSET Writes
      BY <1>2, <2>2 DEF write_commit, QInv, QTypeOK
    <3> QED
      BY <3>1, <3>2, <3>3, <3>4, <3>5
  <2>3. CASE write_invalidate(w)
    <3>1. work[w].id # {}
      BY <2>3 DEF write_invalidate, QInv, WorkKnown
    <3>2. \/ work' = [work EXCEPT ![w] = NoWork]
          \/ work' = [work EXCEPT ![w] = [work[w] EXCEPT !.stage = "open"]]
      BY <2>3 DEF write_invalidate
    <3>3. NoWork \in Work /\ NoWork.stage = "none"
      BY DEF NoWork
    <3>4. [work[w] EXCEPT !.stage = "open"] \in Work
          /\ [work[w] EXCEPT !.stage = "open"].id = work[w].id
      BY <1>2
    <3>5. db' \in SUBSET Writes /\ done' \in SUBSET Writes
      BY <2>3 DEF write_invalidate, QInv, QTypeOK
    <3> QED
      BY <3>1, <3>2, <3>3, <3>4, <3>5
  <2>4. CASE transaction_end(w)
    <3>1. NoWork \in Work /\ NoWork.stage = "none"
      BY DEF NoWork
    <3>2. work' = [work EXCEPT ![w] = NoWork]
      BY <2>4 DEF transaction_end
    <3>3. db' \in SUBSET Writes /\ done' \in SUBSET Writes
      BY <1>2, <2>4 DEF transaction_end, QInv, QTypeOK
    <3> QED
      BY <3>1, <3>2, <3>3
  <2> QED
    BY <2>1, <2>2, <2>3, <2>4 DEF WriteStep
<1>4. work' \in [Readers -> Work] /\ WorkKnown'
  BY <1>3 DEF QInv, QTypeOK, WorkKnown
<1> QED
  BY <1>1, <1>3, <1>4 DEF QInv, QTypeOK

\* Both parts together: cache and workers.
LEMMA QueryStepOK ==
    ASSUME CInv, QInv, [QNext]_allvars
    PROVE  CInv' /\ QInv'
<1>1. CInv'
  BY StepsOfCache, NextOK
<1>2. CTypeOK'
  BY <1>1 DEF CInv
<1>3. ASSUME NEW w \in Readers, SelectStep(w) \/ WriteStep(w) PROVE QInv'
  BY <1>2, <1>3, SelectKeepsShape, WriteKeepsShape
<1>4. ASSUME sweep \/ TimePasses \/ Quiescent \/ UNCHANGED allvars PROVE QInv'
  <2>1. UNCHANGED qvars
    BY <1>4 DEF sweep, TimePasses, Quiescent, allvars, qvars
  <2> QED
    BY <1>2, <2>1 DEF qvars, QInv, QTypeOK, WorkKnown
<1>5. QInv'
  BY <1>3, <1>4 DEF QNext
<1> QED
  BY <1>1, <1>5

\* The first start establishes both parts.
LEMMA QueryInitOK == QInit => CInv /\ QInv
<1> SUFFICES ASSUME QInit PROVE CInv /\ QInv
  OBVIOUS
<1>1. CInv /\ CTypeOK
  BY InitOK DEF QInit, CInv
<1>2. [key |-> CHOOSE k \in Keys : TRUE, async |-> FALSE] \in [key : Keys, async : BOOLEAN]
  BY QueryAssumption
<1>3. query \in [Readers -> [key : Keys, async : BOOLEAN]]
  BY <1>2 DEF QInit
<1>4. work \in [Readers -> [id : SUBSET Writes, managed : BOOLEAN,
                           stage : {"none", "executed", "committed", "open"}]] /\ WorkKnown
  BY DEF QInit, NoWork, WorkKnown
<1>5. counted \in [Readers -> 0 .. MaxRecords]
  BY QueryAssumption DEF QInit
<1> QED
  BY <1>1, <1>3, <1>4, <1>5 DEF QInit, QInv, QTypeOK

-----------------------------------------------------------------------------
(* Theorems                                                                 *)

\* Cache and workers keep their invariants in every reachable state.
THEOREM QueryInvariant == QSpec => [](CInv /\ QInv)
<1>1. QInit => CInv /\ QInv
  BY QueryInitOK
<1>2. (CInv /\ QInv) /\ [QNext]_allvars => (CInv /\ QInv)'
  BY QueryStepOK
<1> QED
  BY <1>1, <1>2, PTL DEF QSpec

\* Seen from the cache, SELECTs and writes are a behaviour of the cache
\* module: response_writer_cache_store(), the lookup in
\* execute_query_batch() and the invalidation after a write do nothing to it
\* that cache.c does not offer.
THEOREM QueriesUseCache == QSpec => CSpec
<1>1. QInit => CInit
  BY DEF QInit
<1>2. QInv /\ [QNext]_allvars => [CNext]_cvars
  BY StepsOfCache
<1> QED
  BY <1>1, <1>2, QueryInvariant, PTL DEF QSpec, CSpec

\* The locals of execute_query_batch() keep their shape; in particular the
\* record count never exceeds query_max_record_count and is never negative.
THEOREM QueryTypeCorrect == QSpec => []QTypeOK
<1>1. QInv => QTypeOK
  BY DEF QInv
<1> QED
  BY <1>1, QueryInvariant, PTL

\* The resultset cache stays consistent under SELECTs and writes.
THEOREM ResultsetCacheConsistent == QSpec => []TableConsistent
BY QueriesUseCache, CacheConsistent, PTL

\* A SELECT that has a cached result for itself copies a document that is
\* still there, whatever other workers store, invalidate or sweep meanwhile.
THEOREM ResultsetReaderProtected == QSpec => []SoleReaderSafe
BY QueriesUseCache, SoleReaderProtected, PTL

-----------------------------------------------------------------------------
(* Batches                                                                  *)

\* Batches(n) batches are enough for n rows, and one fewer is not.
LEMMA BatchesFit ==
    ASSUME NEW n \in Nat \ {0}, NEW q, q = Batches(n)
    PROVE  q \in Nat /\ q >= 1 /\ q * Batch >= n /\ (q - 1) * Batch < n
<1>1. PICK m \in Nat : m = n + Batch - 1
  BY QueryAssumption
<1>2. Batch \in Nat /\ Batch > 0
  BY QueryAssumption
<1>3. q = m \div Batch
  BY <1>1 DEF Batches
<1>4. q \in Int /\ q * Batch <= m /\ m < (q + 1) * Batch
  BY <1>1, <1>2, <1>3, SMTT(30)
<1> QED
  BY <1>1, <1>2, <1>4, SMTT(30)

\* When as many rows come as were counted, only the last batch is final: it is
\* flagged once if it is sent, and no other batch is.
LEMMA OneFinalBatch ==
    ASSUME NEW n \in Nat \ {0}, NEW got \in SUBSET (1 .. Batches(n))
    PROVE  /\ FinalBatches(1 .. Batches(n), n, n) = 1
           /\ FinalBatches(got, n, n) \in {0, 1}
<1>1. PICK q : q = Batches(n)
  OBVIOUS
<1>2. q \in Nat /\ q >= 1 /\ q * Batch >= n /\ (q - 1) * Batch < n /\ Batch \in Nat
  BY <1>1, BatchesFit, QueryAssumption
<1>3. ASSUME NEW b \in 1 .. q, b # q PROVE b * Batch < n
  <2>1. b \in Nat /\ b <= q - 1
    BY <1>2, <1>3
  <2>2. b * Batch <= (q - 1) * Batch /\ b * Batch \in Nat /\ (q - 1) * Batch \in Int
    BY <1>2, <2>1
  <2> QED
    BY <1>2, <2>2
<1>4. \A b \in 1 .. q : (IF b * Batch < n THEN b * Batch ELSE n) >= n <=> b = q
  BY <1>2, <1>3
<1> DEFINE Finals(S) == {b \in S : (IF b * Batch < n THEN b * Batch ELSE n) >= n}
<1>5. Finals(1 .. Batches(n)) = {q}
  BY <1>1, <1>2, <1>4, SMTT(30)
<1>6. Finals(got) = {} \/ Finals(got) = {q}
  <2>1. \A b \in got : (IF b * Batch < n THEN b * Batch ELSE n) >= n <=> b = q
    BY <1>1, <1>4
  <2>2. \A b : b \in Finals(got) <=> b \in got /\ b = q
    BY <2>1
  <2> HIDE DEF Finals
  <2> QED
    BY <2>2
<1>7. Cardinality({q}) = 1 /\ Cardinality({}) = 0
  BY FS_Singleton, FS_EmptySet
<1> QED
  BY <1>5, <1>6, <1>7 DEF FinalBatches

-----------------------------------------------------------------------------
(* Calm SELECTs, and the results they cache                                 *)

\* The table that worker w's SELECT reads.
TableRead(w) == Reads[query[w].key]

\* The shape of what QTypeOK leaves out.
MoreShape ==
    /\ calm \in [Readers -> BOOLEAN] /\ truncated \in [Readers -> BOOLEAN]
    /\ DOMAIN outcome = Readers

\* A worker's write is one write, or none.
OneWrite ==
    \A w \in Readers : \/ work[w].stage = "none" /\ work[w].id = {}
                       \/ work[w].stage # "none" /\ \E x \in Writes : work[w].id = {x}

\* The count of a SELECT is that of the rows S.
CountOf(w, S) ==
    /\ counted[w] = RecordCount(Rows(S))
    /\ truncated[w] <=> Rows(S) > MaxRecords

\* While a SELECT is calm, nobody writes to its table: count, cursor and
\* committed table agree.
CalmSelect(w) ==
    calm[w] =>
      /\ pc[w] \in {"open", "fetch", "store"} => ~UnderWay(TableRead(w))
      /\ pc[w] = "open" => CountOf(w, On(TableRead(w), db))
      /\ pc[w] \in {"fetch", "store"} => snap[w] = On(TableRead(w), db) /\ CountOf(w, snap[w])
      /\ pc[w] = "store" => ~query[w].async

\* A SELECT under way has delivered nothing.
NotEnded == \A w \in Readers : pc[w] # "idle" => ~outcome[w].ended

\* Some transaction with an announced, uncommitted write to t is open; some
\* committed write to t is not yet announced.
Open(t)       == \E w \in Readers : work[w].stage = "open" /\ TableOf(w) = t
Announcing(t) == \E w \in Readers : work[w].stage = "committed" /\ TableOf(w) = t

\* A trusted result is the table's, or about to be invalidated; it does not
\* survive the announcement of a write that may still be committed.
TrustedEntry(p) ==
    LET t == Reads[store[p].key]
    IN  ~Expired(p) /\ t \in store[p].tags =>
          ~Open(t) /\ (store[p].doc = On(t, db) \/ Announcing(t))

QCalm ==
    /\ MoreShape /\ OneWrite /\ NotEnded /\ DeliversSnapshot
    /\ clock >= 2 /\ trusted \subseteq 1 .. last
    /\ \A w \in Readers : CalmSelect(w)
    /\ \A p \in trusted \cap DOMAIN store : TrustedEntry(p)

\* A write under way is on the one table it names.
LEMMA WriteOn ==
    ASSUME QCalm, NEW w \in Readers, work[w].stage # "none"
    PROVE  \A t : On(t, work[w].id) # {} <=> t = TableOf(w)
<1>1. PICK x \in Writes : work[w].id = {x}
  BY DEF QCalm, OneWrite
<1>2. TableOf(w) = Target[x]
  BY <1>1 DEF TableOf
<1> QED
  BY <1>1, <1>2 DEF On

\* What a write adds to other tables: nothing.
LEMMA OtherTables ==
    ASSUME QCalm, NEW w \in Readers, work[w].stage # "none", NEW t, t # TableOf(w)
    PROVE  On(t, db \cup work[w].id) = On(t, db)
<1>1. On(t, work[w].id) = {}
  BY WriteOn
<1> QED
  BY <1>1 DEF On

\* The table as a session sees it is the committed one, if nobody writes to it.
LEMMA CalmVisible ==
    ASSUME QCalm, NEW w \in Readers, NEW t, ~UnderWay(t)
    PROVE  Visible(w, t) = On(t, db)
<1>1. On(t, work[w].id) = {}
  <2>1. CASE work[w].stage = "none"
    BY <2>1 DEF QCalm, OneWrite, On
  <2>2. CASE work[w].stage # "none"
    BY <2>2 DEF UnderWay
  <2> QED
    BY <2>1, <2>2
<1> QED
  BY <1>1 DEF Visible, On

\* When the count is that of the snapshot, the cursor yields exactly as many
\* rows as were counted.
LEMMA CursorMatches ==
    ASSUME QInv, NEW w \in Readers, CountOf(w, snap[w])
    PROVE  /\ CursorRows(w) = counted[w] /\ counted[w] \in Nat
           /\ counted[w] = IF Rows(snap[w]) > MaxRecords THEN MaxRecords ELSE Rows(snap[w])
<1>1. Rows(snap[w]) \in Nat /\ MaxRecords \in Nat
  BY RowsType, QueryAssumption DEF QInv, QTypeOK
<1> QED
  BY <1>1 DEF CountOf, CursorRows, RecordCount

\* Results stay trusted when nothing is written and the table only loses
\* entries, or lets them expire.
LEMMA EntriesKept ==
    ASSUME QCalm, UNCHANGED <<db, work>>, trusted' = trusted,
           \A p \in DOMAIN store' \cap trusted :
             /\ p \in DOMAIN store
             /\ store'[p].key = store[p].key /\ store'[p].tags = store[p].tags
             /\ store'[p].doc = store[p].doc /\ (Expired(p) => Expired(p)')
    PROVE  \A p \in trusted' \cap DOMAIN store' : TrustedEntry(p)'
<1>1. \A t : (Open(t)' <=> Open(t)) /\ (Announcing(t)' <=> Announcing(t)) /\ On(t, db)' = On(t, db)
  BY DEF Open, Announcing, TableOf, On
<1> SUFFICES ASSUME NEW p \in trusted' \cap DOMAIN store' PROVE TrustedEntry(p)'
  OBVIOUS
<1>2. TrustedEntry(p)
  BY DEF QCalm
<1> QED
  BY <1>1, <1>2 DEF TrustedEntry

\* Steps that write nothing keep the calm of every SELECT they do not move.
LEMMA CalmKept ==
    ASSUME UNCHANGED <<db, work>>, NEW u \in Readers, CalmSelect(u),
           pc'[u] = pc[u], query'[u] = query[u], counted'[u] = counted[u],
           truncated'[u] = truncated[u], snap'[u] = snap[u], calm'[u] = calm[u]
    PROVE  CalmSelect(u)'
<1>1. \A t : UnderWay(t)' <=> UnderWay(t)
  BY DEF UnderWay, On
<1> QED
  BY <1>1 DEF CalmSelect, TableRead, CountOf, On

\* What DeliversSnapshot says of one worker.
Delivers(w) ==
    outcome[w].ended /\ calm[w] =>
      /\ outcome[w].ok
      /\ ~outcome[w].skipped =>
           outcome[w].sent = (IF Rows(snap[w]) > MaxRecords THEN MaxRecords ELSE Rows(snap[w]))
      /\ query[w].async /\ Rows(snap[w]) > 0 =>
           outcome[w].finals = 1 \/ (outcome[w].skipped /\ outcome[w].finals = 0)

\* A worker whose SELECT does not move has delivered what it had.
LEMMA DeliversKept ==
    ASSUME NEW u \in Readers, Delivers(u), outcome'[u] = outcome[u], calm'[u] => calm[u],
           snap'[u] = snap[u], query'[u] = query[u]
    PROVE  Delivers(u)'
BY DEF Delivers, Rows

-----------------------------------------------------------------------------
(* Steps of a SELECT                                                        *)

\* A SELECT writes nothing and moves no other worker.
LEMMA SelectAlone ==
    ASSUME QInv, MoreShape, NEW w \in Readers, SelectStep(w)
    PROVE  /\ UNCHANGED <<db, work>> /\ MoreShape'
           /\ \A u \in Readers : u # w =>
                /\ pc'[u] = pc[u] /\ query'[u] = query[u] /\ counted'[u] = counted[u]
                /\ truncated'[u] = truncated[u] /\ snap'[u] = snap[u] /\ calm'[u] = calm[u]
                /\ outcome'[u] = outcome[u]
<1>1. /\ pc \in [Readers -> {"idle", "lookup", "reading", "count", "open", "fetch", "store"}]
      /\ query \in [Readers -> [key : Keys, async : BOOLEAN]]
      /\ counted \in [Readers -> 0 .. MaxRecords] /\ snap \in [Readers -> SUBSET Writes]
      /\ calm \in [Readers -> BOOLEAN] /\ truncated \in [Readers -> BOOLEAN]
      /\ DOMAIN outcome = Readers
  BY DEF QInv, QTypeOK, MoreShape
<1>2. UNCHANGED <<db, work>>
  BY DEF SelectStep, select_begin, lookup_hit, lookup_miss, serve_hit, count_rows,
     open_cursor,
         fetch_async, fetch_sync, store_result, KeepQuery
<1>3. \A u \in Readers : u # w => pc'[u] = pc[u]
  BY <1>1 DEF SelectStep, select_begin, lookup_hit, lookup_miss, serve_hit, count_rows,
     open_cursor,
              fetch_async, fetch_sync, store_result, Failed, Goto
<1>4. \A u \in Readers : u # w => query'[u] = query[u]
  BY <1>1 DEF SelectStep, select_begin, lookup_hit, lookup_miss, serve_hit, count_rows,
     open_cursor,
              fetch_async, fetch_sync, store_result, KeepQuery
<1>5. \/ counted' = counted /\ truncated' = truncated /\ calm' = calm
      \/ /\ counted' = [counted EXCEPT ![w] = RecordCount(Rows(Visible(w, TableRead(w))))]
         /\ truncated' = [truncated EXCEPT ![w] = Rows(Visible(w, TableRead(w))) > MaxRecords]
         /\ calm' = [calm EXCEPT ![w] = ~UnderWay(TableRead(w))]
  BY DEF SelectStep, select_begin, lookup_hit, lookup_miss, serve_hit, count_rows,
     open_cursor,
         fetch_async, fetch_sync, store_result, KeepCursor, Failed, TableRead
<1>6. snap' = snap \/ snap' = [snap EXCEPT ![w] = Visible(w, TableRead(w))]
  BY DEF SelectStep, select_begin, lookup_hit, lookup_miss, serve_hit, count_rows,
     open_cursor,
         fetch_async, fetch_sync, store_result, KeepCursor, Failed, TableRead
<1>7. \E o : outcome' = outcome \/ outcome' = [outcome EXCEPT ![w] = o]
  BY DEF SelectStep, select_begin, lookup_hit, lookup_miss, serve_hit, count_rows,
     open_cursor,
         fetch_async, fetch_sync, store_result, Failed
<1>8. MoreShape'
  <2>1. UnderWay(TableRead(w)) \in BOOLEAN
    BY DEF UnderWay
  <2>2. (Rows(Visible(w, TableRead(w))) > MaxRecords) \in BOOLEAN
    BY VisibleType, RowsType, QueryAssumption
  <2>3. calm' \in [Readers -> BOOLEAN] /\ truncated' \in [Readers -> BOOLEAN]
    BY <1>1, <1>5, <2>1, <2>2
  <2>4. DOMAIN outcome' = Readers
    BY <1>1, <1>7
  <2> QED
    BY <2>3, <2>4 DEF MoreShape
<1>9. \A u \in Readers : u # w => counted'[u] = counted[u] /\ truncated'[u] = truncated[u] /\ calm'[u] = calm[u]
  BY <1>1, <1>5
<1>10. \A u \in Readers : u # w => snap'[u] = snap[u] /\ outcome'[u] = outcome[u]
  BY <1>1, <1>6, <1>7
<1> QED
  BY <1>2, <1>3, <1>4, <1>8, <1>9, <1>10

\* Count, cursor and answer of a calm SELECT fit together.
LEMMA SelectCalm ==
    ASSUME QInv, QCalm, NEW w \in Readers, SelectStep(w)
    PROVE  CalmSelect(w)' /\ Delivers(w)' /\ (pc'[w] # "idle" => ~outcome'[w].ended)
<1>1. /\ pc \in [Readers -> {"idle", "lookup", "reading", "count", "open", "fetch", "store"}]
      /\ query \in [Readers -> [key : Keys, async : BOOLEAN]]
      /\ counted \in [Readers -> 0 .. MaxRecords] /\ snap \in [Readers -> SUBSET Writes]
      /\ calm \in [Readers -> BOOLEAN] /\ truncated \in [Readers -> BOOLEAN]
      /\ DOMAIN outcome = Readers /\ CalmSelect(w) /\ Delivers(w)
      /\ (pc[w] # "idle" => ~outcome[w].ended)
  BY DEF QInv, QTypeOK, QCalm, MoreShape, NotEnded, DeliversSnapshot, Delivers
<1>2. UNCHANGED <<db, work>> /\ \A t : UnderWay(t)' <=> UnderWay(t)
  <2>1. UNCHANGED <<db, work>>
    BY SelectAlone DEF QCalm
  <2> QED
    BY <2>1 DEF UnderWay, On
<1>3. ASSUME pc'[w] \in {"idle", "lookup", "reading", "count"}, ~outcome'[w].ended
      PROVE  CalmSelect(w)' /\ Delivers(w)' /\ (pc'[w] # "idle" => ~outcome'[w].ended)
  BY <1>3 DEF CalmSelect, Delivers
<1>4. ASSUME Failed(w) PROVE pc'[w] = "idle" /\ ~outcome'[w].ended
  BY <1>1, <1>4 DEF Failed, Goto, Nothing
<1>5. CASE select_begin(w)
  <2>1. (\E l \in {"count", "lookup"} : pc' = [pc EXCEPT ![w] = l]) /\ outcome' = [outcome EXCEPT ![w] = Nothing]
    BY <1>5 DEF select_begin, Goto
  <2>2. pc'[w] \in {"count", "lookup"} /\ ~outcome'[w].ended
    BY <1>1, <2>1 DEF Nothing
  <2> QED
    BY <1>3, <2>2
<1>6. CASE lookup_hit(w) \/ lookup_miss(w) \/ serve_hit(w)
  <2>1. /\ \E l \in {"idle", "reading", "count"} : pc' = [pc EXCEPT ![w] = l]
        /\ outcome' = outcome /\ pc[w] \in {"lookup", "reading"}
    BY <1>6 DEF lookup_hit, lookup_miss, serve_hit, Goto
  <2>2. pc'[w] \in {"idle", "reading", "count"} /\ ~outcome'[w].ended
    BY <1>1, <2>1
  <2> QED
    BY <1>3, <2>2
<1>7. CASE count_rows(w)
  <2>1. PICK t, n : t = TableRead(w) /\ n = Rows(Visible(w, t))
    OBVIOUS
  <2>2. CASE /\ counted' = [counted EXCEPT ![w] = RecordCount(n)]
             /\ truncated' = [truncated EXCEPT ![w] = n > MaxRecords]
             /\ calm' = [calm EXCEPT ![w] = ~UnderWay(t)]
             /\ pc' = [pc EXCEPT ![w] = "open"] /\ UNCHANGED <<snap, outcome, query>>
    <3>1. /\ counted'[w] = RecordCount(n) /\ truncated'[w] = (n > MaxRecords)
          /\ calm'[w] = (~UnderWay(t)) /\ pc'[w] = "open" /\ outcome'[w] = outcome[w]
      BY <1>1, <2>2
    <3>2. ~outcome'[w].ended
      BY <1>1, <1>7, <3>1 DEF count_rows
    <3>3. t = TableRead(w)'
      BY <2>1, <2>2 DEF TableRead
    <3>4. calm'[w] => n = Rows(On(t, db))
      BY <2>1, <3>1, CalmVisible
    <3>6. Rows(On(t, db)) = Rows(On(t, db))'
      BY <1>2 DEF On, Rows
    <3>7. CalmSelect(w)'
      BY <1>2, <3>1, <3>3, <3>4, <3>6 DEF CalmSelect, CountOf
    <3> QED
      BY <3>2, <3>7 DEF Delivers
  <2> QED
    BY <1>3, <1>4, <1>7, <2>1, <2>2 DEF count_rows, Goto, TableRead, KeepQuery
<1>8. CASE open_cursor(w)
  <2>1. CASE /\ snap' = [snap EXCEPT ![w] = Visible(w, TableRead(w))]
             /\ pc' = [pc EXCEPT ![w] = "fetch"] /\ UNCHANGED <<counted, truncated, calm, outcome, query>>
    <3>1. snap'[w] = Visible(w, TableRead(w)) /\ pc'[w] = "fetch" /\ pc[w] = "open"
      BY <1>1, <1>8, <2>1 DEF open_cursor
    <3>2. calm[w] => /\ ~UnderWay(TableRead(w)) /\ CountOf(w, On(TableRead(w), db))
                     /\ snap'[w] = On(TableRead(w), db)
      BY <1>1, <3>1, CalmVisible DEF CalmSelect
    <3>3. TableRead(w)' = TableRead(w) /\ On(TableRead(w), db)' = On(TableRead(w), db)
      BY <1>2, <2>1 DEF TableRead, On
    <3>5. CalmSelect(w)'
      BY <1>2, <2>1, <3>1, <3>2, <3>3 DEF CalmSelect, CountOf, Rows
    <3> QED
      BY <1>1, <2>1, <3>1, <3>5 DEF Delivers
  <2> QED
    BY <1>3, <1>4, <1>8, <2>1 DEF open_cursor, Goto, TableRead, KeepQuery
<1>10. pc[w] \in {"fetch", "store"} /\ calm[w] =>
         /\ CursorRows(w) = counted[w] /\ counted[w] \in Nat
         /\ counted[w] = IF Rows(snap[w]) > MaxRecords THEN MaxRecords ELSE Rows(snap[w])
  BY <1>1, CursorMatches DEF CalmSelect
<1>11. ASSUME UNCHANGED snap PROVE Rows(snap[w])' = Rows(snap[w])
  BY <1>11 DEF Rows
<1>12. CASE fetch_async(w)
  <2> DEFINE n   == CursorRows(w)
             all == 1 .. Batches(n)
             Ends == /\ pc' = [pc EXCEPT ![w] = "idle"]
                     /\ UNCHANGED <<snap, query, counted, truncated, calm>>
  <2>1. ASSUME NEW got \in SUBSET all, calm[w], Rows(snap[w]) > 0
        PROVE  FinalBatches(all, n, counted[w]) = 1 /\ FinalBatches(got, n, counted[w]) \in {0, 1}
    <3>1. pc[w] = "fetch" /\ Rows(snap[w]) \in Nat
      BY <1>1, <1>12, RowsType DEF fetch_async, QInv, QTypeOK
    <3>2. n = counted[w] /\ counted[w] \in Nat \ {0}
      BY <1>10, <2>1, <3>1, QueryAssumption
    <3> QED
      BY <2>1, <3>2, OneFinalBatch
  <2>2. ASSUME Ends, NEW sent, NEW got \in SUBSET all, NEW skipped \in BOOLEAN,
               outcome' = [outcome EXCEPT ![w] =
                             [ended |-> TRUE, ok |-> TRUE, sent |-> sent, skipped |-> skipped,
                              finals |-> FinalBatches(got, n, counted[w])]],
               ~skipped => sent = n /\ got = all
        PROVE  CalmSelect(w)' /\ Delivers(w)' /\ pc'[w] = "idle"
    <3>1. /\ outcome'[w] = [ended |-> TRUE, ok |-> TRUE, sent |-> sent, skipped |-> skipped,
                            finals |-> FinalBatches(got, n, counted[w])]
          /\ pc'[w] = "idle" /\ pc[w] = "fetch"
      BY <1>1, <1>12, <2>2 DEF fetch_async
    <3>2. calm[w] /\ ~skipped =>
            sent = IF Rows(snap[w]) > MaxRecords THEN MaxRecords ELSE Rows(snap[w])
      BY <1>10, <2>2, <3>1
    <3>3. calm[w] /\ Rows(snap[w]) > 0 =>
            \/ FinalBatches(got, n, counted[w]) = 1
            \/ skipped /\ FinalBatches(got, n, counted[w]) = 0
      BY <2>1, <2>2
    <3> HIDE DEF n
    <3>4. Delivers(w)'
      BY <1>11, <2>2, <3>1, <3>2, <3>3 DEF Delivers
    <3> QED
      BY <3>1, <3>4 DEF CalmSelect
  <2>3. CASE /\ outcome' = [outcome EXCEPT ![w] =
                              [ended |-> TRUE, ok |-> TRUE, sent |-> n, skipped |-> FALSE,
                               finals |-> FinalBatches(all, n, counted[w])]]
             /\ Ends
    BY <2>2, <2>3
  <2>4. ASSUME NEW got \in SUBSET all,
               outcome' = [outcome EXCEPT ![w] =
                    [ended |-> TRUE, ok |-> TRUE,
                     sent |-> Cardinality({row \in 1 .. n : Batches(row) \in got}),
                     skipped |-> TRUE, finals |-> FinalBatches(got, n, counted[w])]],
               Ends
        PROVE  CalmSelect(w)' /\ Delivers(w)' /\ pc'[w] = "idle"
    BY <2>2, <2>4
  <2> QED
    BY <1>3, <1>4, <1>12, <2>3, <2>4 DEF fetch_async, Goto, KeepQuery, KeepCursor
<1>13. CASE fetch_sync(w)
  <2>1. CASE /\ CursorRows(w) <= counted[w] /\ pc' = [pc EXCEPT ![w] = "store"]
             /\ UNCHANGED <<outcome, snap, query, counted, truncated, calm>>
    <3>1. pc'[w] = "store" /\ pc[w] = "fetch" /\ ~query[w].async
      BY <1>1, <1>13, <2>1 DEF fetch_sync
    <3>2. CalmSelect(w)'
      BY <1>1, <1>2, <2>1, <3>1 DEF CalmSelect, TableRead, CountOf, Rows, On
    <3> QED
      BY <1>1, <2>1, <3>1, <3>2 DEF Delivers
  <2>2. CASE /\ CursorRows(w) > counted[w] /\ pc' = [pc EXCEPT ![w] = "idle"]
             /\ UNCHANGED <<snap, query, counted, truncated, calm>>
    <3>1. ~calm[w] /\ pc'[w] = "idle"
      BY <1>1, <1>10, <1>13, <2>2 DEF fetch_sync
    <3> QED
      BY <2>2, <3>1 DEF CalmSelect, Delivers
  <2> QED
    BY <1>3, <1>4, <1>13, <2>1, <2>2 DEF fetch_sync, Goto, KeepQuery, KeepCursor
<1>14. CASE store_result(w)
  <2>1. /\ outcome' = [outcome EXCEPT ![w] =
                         [ended |-> TRUE, ok |-> TRUE, sent |-> counted[w], skipped |-> FALSE, finals |-> 0]]
        /\ pc' = [pc EXCEPT ![w] = "idle"] /\ UNCHANGED <<snap, query, counted, truncated, calm>>
        /\ pc[w] = "store"
    BY <1>14 DEF store_result, Goto, KeepCursor
  <2>2. /\ outcome'[w] = [ended |-> TRUE, ok |-> TRUE, sent |-> counted[w], skipped |-> FALSE, finals |-> 0]
        /\ pc'[w] = "idle"
    BY <1>1, <2>1
  <2>3. calm[w] => ~query[w].async
    BY <1>1, <2>1 DEF CalmSelect
  <2>4. Delivers(w)'
    BY <1>10, <1>11, <2>1, <2>2, <2>3 DEF Delivers
  <2> QED
    BY <2>2, <2>4 DEF CalmSelect
<1> QED
  BY <1>5, <1>6, <1>7, <1>8, <1>12, <1>13, <1>14 DEF SelectStep

\* A SELECT that stores nothing leaves the cached results as they are.
LEMMA SelectOnlyReads ==
    ASSUME CInv, QInv, NEW w \in Readers, SelectStep(w), ~store_result(w)
    PROVE  /\ UNCHANGED <<clock, last, trusted>> /\ DOMAIN store' = DOMAIN store
           /\ \A p \in DOMAIN store :
                /\ store'[p].key = store[p].key /\ store'[p].tags = store[p].tags
                /\ store'[p].doc = store[p].doc /\ store'[p].expiry = store[p].expiry
<1>1. UNCHANGED trusted
  BY DEF SelectStep, select_begin, lookup_hit, lookup_miss, serve_hit, count_rows,
     open_cursor,
         fetch_async, fetch_sync, KeepQuery
<1>2. CASE lookup_hit(w)
  <2>1. PICK p \in DOMAIN store : store' = [store EXCEPT ![p].inUse = TRUE, ![p].access = clock]
    BY <1>2 DEF lookup_hit, cache_lookup_hit, Live, At
  <2>2. store[p] \in Entry
    BY DEF CInv, CTypeOK
  <2>3. UNCHANGED <<clock, last>>
    BY <1>2 DEF lookup_hit, cache_lookup_hit
  <2> QED
    BY <1>1, <2>1, <2>2, <2>3 DEF Entry
<1>3. CASE serve_hit(w)
  <2>1. UNCHANGED <<clock, last>>
    BY <1>3 DEF serve_hit, cache_release
  <2>2. \/ store' = store
        \/ /\ held[w] \in DOMAIN store
           /\ store' = [store EXCEPT ![held[w]].inUse = FALSE]
    BY <1>3 DEF serve_hit, cache_release
  <2>3. \A p \in DOMAIN store : store[p] \in Entry
    BY DEF CInv, CTypeOK
  <2> QED
    BY <1>1, <2>1, <2>2, <2>3 DEF Entry
<1>4. CASE \/ select_begin(w) \/ lookup_miss(w) \/ count_rows(w) \/ open_cursor(w)
           \/ fetch_async(w) \/ fetch_sync(w)
  <2>1. UNCHANGED <<clock, last, store>>
    BY <1>4 DEF select_begin, lookup_miss, count_rows, open_cursor, fetch_async,
       fetch_sync, cvars
  <2> QED
    BY <1>1, <2>1
<1> QED
  BY <1>2, <1>3, <1>4 DEF SelectStep

\* A result that a calm SELECT stores is the committed table, and no announced
\* transaction is open on it; the others stay what they were.
LEMMA StoreTrusted ==
    ASSUME CInv, QInv, QCalm, NEW w \in Readers, store_result(w)
    PROVE  /\ clock' = clock /\ trusted' \subseteq 1 .. last'
           /\ \A p \in trusted' \cap DOMAIN store' : TrustedEntry(p)'
<1>1. /\ UNCHANGED <<db, work, clock>> /\ last \in Nat /\ Nil = 0
      /\ trusted \subseteq 1 .. last /\ DOMAIN store \subseteq 1 .. last
  BY DEF store_result, cache_insert, CInv, CTypeOK, QCalm, Allocated, Nil
<1>2. PICK k, doc, tags, json :
        /\ k = query[w].key /\ doc = snap[w] /\ tags = Named[k]
        /\ cache_insert(k, doc, tags, json)
        /\ trusted' = IF calm[w] /\ last' # last THEN trusted \cup {last'} ELSE trusted
        /\ pc[w] = "store"
  BY DEF store_result
<1>3. CASE UNCHANGED <<store, last>>
  <2>1. trusted' = trusted
    BY <1>2, <1>3
  <2>2. \A p \in trusted' \cap DOMAIN store' : TrustedEntry(p)'
    BY <1>1, <1>3, <2>1, EntriesKept DEF Expired
  <2> QED
    BY <1>1, <1>3, <2>1, <2>2
<1>4. ASSUME NEW kept, kept \subseteq DOMAIN store, last' = last + 1,
             store' = [p \in kept \cup {last + 1} |->
                         IF p = last + 1 THEN NewEntry(k, doc, tags, json) ELSE store[p]]
      PROVE  /\ trusted' \subseteq 1 .. last'
             /\ \A p \in trusted' \cap DOMAIN store' : TrustedEntry(p)'
  <2>1. trusted' \subseteq 1 .. last'
    BY <1>1, <1>2, <1>4
  <2>2. \A t : (Open(t)' <=> Open(t)) /\ (Announcing(t)' <=> Announcing(t)) /\ On(t, db)' = On(t, db)
    BY <1>1 DEF Open, Announcing, TableOf, On
  <2> SUFFICES ASSUME NEW p \in trusted' \cap DOMAIN store' PROVE TrustedEntry(p)'
    BY <2>1
  <2>3. CASE p = last + 1
    <3>1. store'[p].key = k /\ store'[p].doc = doc
      BY <1>4, <2>3 DEF NewEntry
    <3>2. calm[w]
      BY <1>1, <1>2, <1>4, <2>3
    <3>3. ~UnderWay(TableRead(w)) /\ snap[w] = On(TableRead(w), db)
      BY <1>2, <3>2 DEF QCalm, CalmSelect
    <3>4. ~Open(TableRead(w))
      BY <3>3, WriteOn DEF Open, UnderWay
    <3> QED
      BY <1>2, <2>2, <3>1, <3>3, <3>4 DEF TrustedEntry, TableRead
  <2>4. CASE p # last + 1
    <3>1. p \in trusted /\ p \in DOMAIN store /\ store'[p] = store[p]
      BY <1>2, <1>4, <2>4
    <3>2. TrustedEntry(p)
      BY <3>1 DEF QCalm
    <3> QED
      BY <1>1, <2>2, <3>1, <3>2 DEF TrustedEntry, Expired
  <2> QED
    BY <2>3, <2>4
<1>5. CASE last' # last
  <2>1. PICK gone : /\ last' = last + 1
                    /\ store' = [p \in DOMAIN Without(At(k) \cup gone) \cup {last + 1} |->
                                   IF p = last + 1 THEN NewEntry(k, doc, tags, json)
                                   ELSE Without(At(k) \cup gone)[p]]
    BY <1>2, <1>5 DEF cache_insert
  <2> DEFINE kept == DOMAIN store \ (At(k) \cup gone)
  <2>2. DOMAIN Without(At(k) \cup gone) = kept /\ \A p \in kept : Without(At(k) \cup gone)[p] = store[p]
    BY DEF Without
  <2>3. store' = [p \in kept \cup {last + 1} |->
                    IF p = last + 1 THEN NewEntry(k, doc, tags, json) ELSE store[p]]
    BY <2>1, <2>2
  <2>4. kept \subseteq DOMAIN store
    OBVIOUS
  <2> HIDE DEF kept
  <2> QED
    BY <1>1, <1>4, <2>1, <2>3, <2>4
<1>6. ASSUME NEW gone, store' = Without(gone), last' = last
      PROVE  /\ trusted' \subseteq 1 .. last'
             /\ \A p \in trusted' \cap DOMAIN store' : TrustedEntry(p)'
  <2>1. trusted' = trusted
    BY <1>2, <1>6
  <2>2. \A p \in DOMAIN store' : p \in DOMAIN store /\ store'[p] = store[p]
    BY <1>6 DEF Without
  <2>3. \A t : (Open(t)' <=> Open(t)) /\ (Announcing(t)' <=> Announcing(t)) /\ On(t, db)' = On(t, db)
    BY <1>1 DEF Open, Announcing, TableOf, On
  <2>4. ASSUME NEW p \in trusted' \cap DOMAIN store' PROVE TrustedEntry(p)'
    <3>1. p \in trusted /\ p \in DOMAIN store /\ store'[p] = store[p]
      BY <2>1, <2>2
    <3>2. TrustedEntry(p)
      BY <3>1 DEF QCalm
    <3> QED
      BY <1>1, <2>3, <3>1, <3>2 DEF TrustedEntry, Expired
  <2> QED
    BY <1>1, <1>6, <2>1, <2>4
<1>7. \/ UNCHANGED <<store, last>>
      \/ last' # last
      \/ last' = last /\ \E gone : store' = Without(gone)
  <2>1. CASE \E p \in At(k) : store[p].inUse
    BY <1>2, <2>1 DEF cache_insert
  <2>2. CASE ~\E p \in At(k) : store[p].inUse
    <3>1. \/ last' = last + 1
          \/ last' = last /\ \E gone : store' = Without(At(k) \cup gone)
      BY <1>2, <2>2, Zenon DEF cache_insert
    <3>2. CASE last' = last + 1
      BY <1>1, <3>2
    <3>3. CASE last' = last /\ \E gone : store' = Without(At(k) \cup gone)
      BY <3>3, Zenon
    <3> QED
      BY <3>1, <3>2, <3>3
  <2> QED
    BY <2>1, <2>2
<1> QED
  BY <1>1, <1>3, <1>5, <1>6, <1>7

\* A step of a SELECT keeps the invariant.
LEMMA SelectKeepsCalm ==
    ASSUME CInv, QInv, QCalm, NEW w \in Readers, SelectStep(w)
    PROVE  QCalm'
<1>1. /\ UNCHANGED <<db, work>> /\ MoreShape'
      /\ \A u \in Readers : u # w =>
           /\ pc'[u] = pc[u] /\ query'[u] = query[u] /\ counted'[u] = counted[u]
           /\ truncated'[u] = truncated[u] /\ snap'[u] = snap[u] /\ calm'[u] = calm[u]
           /\ outcome'[u] = outcome[u]
  BY SelectAlone DEF QCalm
<1>2. CalmSelect(w)' /\ Delivers(w)' /\ (pc'[w] # "idle" => ~outcome'[w].ended)
  BY SelectCalm
<1>3. \A u \in Readers : CalmSelect(u)'
  <2> SUFFICES ASSUME NEW u \in Readers, u # w PROVE CalmSelect(u)'
    BY <1>2
  <2>1. CalmSelect(u)
    BY DEF QCalm
  <2> QED
    BY <1>1, <2>1, CalmKept
<1>4. DeliversSnapshot'
  <2>1. ASSUME NEW u \in Readers, u # w PROVE Delivers(u)'
    <3>1. Delivers(u)
      BY DEF QCalm, DeliversSnapshot, Delivers
    <3> QED
      BY <1>1, <2>1, <3>1, DeliversKept
  <2> QED
    BY <1>2, <2>1 DEF DeliversSnapshot, Delivers
<1>5. OneWrite'
  BY <1>1 DEF QCalm, OneWrite
<1>6. NotEnded'
  BY <1>1, <1>2 DEF QCalm, NotEnded
<1>7. /\ clock' = clock /\ trusted' \subseteq 1 .. last'
      /\ \A p \in trusted' \cap DOMAIN store' : TrustedEntry(p)'
  <2>1. CASE store_result(w)
    BY <2>1, StoreTrusted
  <2>2. CASE ~store_result(w)
    <3>1. /\ UNCHANGED <<clock, last, trusted>> /\ DOMAIN store' = DOMAIN store
          /\ \A p \in DOMAIN store :
               /\ store'[p].key = store[p].key /\ store'[p].tags = store[p].tags
               /\ store'[p].doc = store[p].doc /\ store'[p].expiry = store[p].expiry
      BY <2>2, SelectOnlyReads
    <3>2. \A p \in trusted' \cap DOMAIN store' : TrustedEntry(p)'
      BY <1>1, <3>1, EntriesKept DEF Expired
    <3> QED
      BY <3>1, <3>2 DEF QCalm
  <2> QED
    BY <2>1, <2>2
<1> QED
  BY <1>1, <1>3, <1>4, <1>5, <1>6, <1>7 DEF QCalm

-----------------------------------------------------------------------------
(* Steps of a write                                                         *)

\* A write to t moves no SELECT, and leaves those on t no longer calm.
LEMMA WriteAlone ==
    ASSUME QInv, QCalm, NEW t, Disturb(t), KeepSelect,
           \A s : s # t => On(s, db)' = On(s, db),
           \A s : s # t => (UnderWay(s)' => UnderWay(s))
    PROVE  /\ MoreShape' /\ NotEnded' /\ DeliversSnapshot'
           /\ \A u \in Readers : CalmSelect(u)'
<1>1. /\ UNCHANGED <<pc, query, outcome, trusted, counted, truncated, snap>>
      /\ calm' = [u \in Readers |-> calm[u] /\ TableRead(u) # t]
  BY DEF Disturb, KeepSelect, KeepCursor, TableRead
<1>2. calm \in [Readers -> BOOLEAN]
  BY DEF QCalm, MoreShape
<1>3. \A u \in Readers : calm'[u] => calm[u] /\ TableRead(u) # t
  BY <1>1, <1>2
<1>4. MoreShape' /\ NotEnded'
  BY <1>1, <1>2 DEF QCalm, MoreShape, NotEnded
<1>5. DeliversSnapshot'
  <2>1. ASSUME NEW u \in Readers PROVE Delivers(u)'
    <3>1. Delivers(u)
      BY DEF QCalm, DeliversSnapshot, Delivers
    <3> QED
      BY <1>1, <1>3, <3>1, DeliversKept
  <2> QED
    BY <2>1 DEF DeliversSnapshot, Delivers
<1>6. ASSUME NEW u \in Readers PROVE CalmSelect(u)'
  <2>1. CASE ~calm'[u]
    BY <2>1 DEF CalmSelect
  <2>2. CASE calm'[u]
    <3>1. PICK s : s = TableRead(u) /\ s # t
      BY <1>3, <2>2
    <3>2. CalmSelect(u) /\ calm[u]
      BY <1>3, <2>2 DEF QCalm
    <3>3. TableRead(u)' = s /\ On(s, db)' = On(s, db) /\ (UnderWay(s)' => UnderWay(s))
      BY <1>1, <3>1 DEF TableRead
    <3>4. Rows(On(s, db))' = Rows(On(s, db)) /\ Rows(snap[u])' = Rows(snap[u])
      BY <1>1, <3>3 DEF Rows
    <3> QED
      BY <1>1, <3>1, <3>2, <3>3, <3>4 DEF CalmSelect, CountOf
  <2> QED
    BY <2>1, <2>2
<1> QED
  BY <1>4, <1>5, <1>6

\* What worker w's write to table t may become: nothing, or a write to t.
WriteTo(t, n) ==
    \/ n.stage = "none" /\ n.id = {}
    \/ n.stage # "none" /\ \E x \in Writes : n.id = {x} /\ Target[x] = t

\* A write to t changes nothing about the writes to other tables.
LEMMA WriteElsewhere ==
    ASSUME QInv, QCalm, NEW w \in Readers, NEW t, NEW n,
           work' = [work EXCEPT ![w] = n], WriteTo(t, n),
           work[w].stage # "none" => TableOf(w) = t
    PROVE  /\ OneWrite' /\ work'[w] = n /\ (n.stage # "none" => TableOf(w)' = t)
           /\ \A u \in Readers : u # w => work'[u] = work[u] /\ TableOf(u)' = TableOf(u)
           /\ \A s : s # t => /\ Open(s)' <=> Open(s)
                              /\ Announcing(s)' <=> Announcing(s)
                              /\ UnderWay(s)' => UnderWay(s)
<1>1. work'[w] = n /\ \A u \in Readers : u # w => work'[u] = work[u]
  BY DEF QInv, QTypeOK
<1>2. OneWrite'
  BY <1>1 DEF QCalm, OneWrite, WriteTo
<1>3. \A u \in Readers : u # w => TableOf(u)' = TableOf(u)
  BY <1>1 DEF TableOf
<1>4. n.stage # "none" => TableOf(w)' = t
  <2> HAVE n.stage # "none"
  <2>1. PICK x \in Writes : n.id = {x} /\ Target[x] = t
    BY DEF WriteTo
  <2>2. (CHOOSE y \in {x} : TRUE) = x
    OBVIOUS
  <2> QED
    BY <1>1, <2>1, <2>2 DEF TableOf
<1>5. ASSUME NEW s, s # t
      PROVE  /\ Open(s)' <=> Open(s)
             /\ Announcing(s)' <=> Announcing(s)
             /\ UnderWay(s)' => UnderWay(s)
  <2>1. Open(s)' <=> Open(s)
    BY <1>1, <1>3, <1>4, <1>5 DEF Open
  <2>2. Announcing(s)' <=> Announcing(s)
    BY <1>1, <1>3, <1>4, <1>5 DEF Announcing
  <2>3. n.stage # "none" => On(s, n.id) = {}
    BY <1>5 DEF WriteTo, On
  <2>4. UnderWay(s)' => UnderWay(s)
    <3> HAVE UnderWay(s)'
    <3>1. PICK u \in Readers : work'[u].stage # "none" /\ On(s, work'[u].id) # {}
      BY DEF UnderWay, On
    <3>2. u # w
      BY <1>1, <2>3, <3>1
    <3> QED
      BY <1>1, <3>1, <3>2 DEF UnderWay, On
  <2> QED
    BY <2>1, <2>2, <2>4
<1> QED
  BY <1>1, <1>2, <1>3, <1>4, <1>5

\* A write to t keeps the invariant if it leaves the other tables alone and
\* every trusted result on t that is still a hit as it must be.
LEMMA WriteKeeps ==
    ASSUME QInv, QCalm, NEW w \in Readers, NEW t, NEW n,
           work' = [work EXCEPT ![w] = n], WriteTo(t, n),
           work[w].stage # "none" => TableOf(w) = t,
           Disturb(t), KeepSelect, UNCHANGED <<last, clock>>,
           \A s : s # t => On(s, db)' = On(s, db),
           DOMAIN store' = DOMAIN store,
           \A p \in DOMAIN store :
             /\ store'[p].key = store[p].key /\ store'[p].tags = store[p].tags
             /\ store'[p].doc = store[p].doc /\ (Expired(p) => Expired(p)'),
           \A p \in trusted \cap DOMAIN store :
             Reads[store[p].key] = t => TrustedEntry(p)'
    PROVE  QCalm'
<1>1. /\ OneWrite'
      /\ \A s : s # t => /\ Open(s)' <=> Open(s)
                         /\ Announcing(s)' <=> Announcing(s)
                         /\ UnderWay(s)' => UnderWay(s)
  BY WriteElsewhere
<1>2. /\ MoreShape' /\ NotEnded' /\ DeliversSnapshot'
      /\ \A u \in Readers : CalmSelect(u)'
  BY <1>1, WriteAlone
<1>3. trusted' = trusted
  BY DEF KeepSelect
<1>4. ASSUME NEW p \in trusted' \cap DOMAIN store' PROVE TrustedEntry(p)'
  <2>1. TrustedEntry(p)
    BY <1>3 DEF QCalm
  <2>2. CASE Reads[store[p].key] # t
    BY <1>1, <1>3, <2>1, <2>2 DEF TrustedEntry
  <2> QED
    BY <1>3, <2>2
<1> QED
  BY <1>1, <1>2, <1>3, <1>4 DEF QCalm

\* A worker's write, as its stage advances, stays on its table.
LEMMA SameTable ==
    ASSUME QInv, QCalm, NEW w \in Readers, work[w].stage # "none",
           NEW n, n.id = work[w].id, n.stage # "none"
    PROVE  WriteTo(TableOf(w), n)
<1>1. PICK x \in Writes : work[w].id = {x}
  BY DEF QCalm, OneWrite
<1>2. TableOf(w) = Target[x]
  BY <1>1 DEF TableOf
<1> QED
  BY <1>1, <1>2 DEF WriteTo

\* A step of a write keeps the invariant.
LEMMA WriteKeepsCalm ==
    ASSUME CInv, QInv, QCalm, NEW w \in Readers, WriteStep(w)
    PROVE  QCalm'
<1>1. NoWork.stage = "none" /\ NoWork.id = {}
  BY DEF NoWork
<1>2. \A t : WriteTo(t, NoWork)
  BY <1>1 DEF WriteTo
<1>3. CASE write_execute(w)
  <2>1. PICK x \in Writes : \E n :
          /\ work' = [work EXCEPT ![w] = n] /\ n.id = {x} /\ n.stage = "executed"
          /\ Disturb(Target[x])
    <3>1. PICK x \in Writes \ done, managed \in BOOLEAN :
            /\ work' = [work EXCEPT ![w] = [id |-> {x}, managed |-> managed, stage |-> "executed"]]
            /\ Disturb(Target[x])
      BY <1>3 DEF write_execute
    <3> WITNESS x \in Writes
    <3> WITNESS [id |-> {x}, managed |-> managed, stage |-> "executed"]
    <3> QED
      BY <3>1
  <2>2. PICK n :
          /\ work' = [work EXCEPT ![w] = n] /\ n.id = {x} /\ n.stage = "executed"
          /\ Disturb(Target[x])
    BY <2>1
  <2>3. PICK t : t = Target[x]
    OBVIOUS
  <2>4. UNCHANGED <<db, store, last, clock>> /\ KeepSelect /\ work[w].stage = "none"
    BY <1>3 DEF write_execute, cvars
  <2>5. WriteTo(t, n)
    BY <2>2, <2>3 DEF WriteTo
  <2>6. work'[w] = n /\ \A u \in Readers : u # w => work'[u] = work[u] /\ TableOf(u)' = TableOf(u)
    BY <2>2, <2>4, <2>5, WriteElsewhere
  <2>7. \A s : (Open(s)' <=> Open(s)) /\ (Announcing(s)' <=> Announcing(s)) /\ On(s, db)' = On(s, db)
    BY <2>2, <2>4, <2>6 DEF Open, Announcing, On
  <2>8. ASSUME NEW p \in trusted \cap DOMAIN store PROVE TrustedEntry(p)'
    <3>1. TrustedEntry(p)
      BY DEF QCalm
    <3> QED
      BY <2>4, <2>7, <3>1 DEF TrustedEntry, Expired
  <2> QED
    BY <2>2, <2>3, <2>4, <2>5, <2>7, <2>8, WriteKeeps DEF Expired
<1>4. CASE write_commit(w)
  <2>1. PICK t : t = TableOf(w)
    OBVIOUS
  <2>2. /\ UNCHANGED <<store, last, clock>> /\ KeepSelect /\ work[w].stage = "executed"
        /\ Disturb(t)
    BY <1>4, <2>1 DEF write_commit, cvars
  <2>3. CASE db' = db \cup work[w].id /\ work' = [work EXCEPT ![w].stage = "committed"]
    <3>1. PICK n : n = [work[w] EXCEPT !.stage = "committed"]
      OBVIOUS
    <3>2. n.id = work[w].id /\ n.stage = "committed" /\ work' = [work EXCEPT ![w] = n]
      BY <2>3, <3>1 DEF QInv, QTypeOK
    <3>3. WriteTo(t, n)
      BY <2>1, <2>2, <3>2, SameTable
    <3>4. /\ work'[w] = n /\ TableOf(w)' = t
          /\ \A u \in Readers : u # w => work'[u] = work[u] /\ TableOf(u)' = TableOf(u)
      BY <2>1, <2>2, <3>2, <3>3, WriteElsewhere
    <3>5. Announcing(t)' /\ (Open(t)' <=> Open(t))
      BY <2>2, <3>2, <3>4 DEF Announcing, Open
    <3>6. ASSUME NEW p \in trusted \cap DOMAIN store, Reads[store[p].key] = t PROVE TrustedEntry(p)'
      <4>1. TrustedEntry(p)
        BY DEF QCalm
      <4> QED
        BY <2>2, <3>5, <3>6, <4>1 DEF TrustedEntry, Expired
    <3>7. \A s : s # t => On(s, db)' = On(s, db)
      <4>1. \A s : s # t => On(s, db \cup work[w].id) = On(s, db)
        BY <2>1, <2>2, OtherTables
      <4> QED
        BY <2>3, <4>1 DEF On
    <3> QED
      BY <2>1, <2>2, <3>2, <3>3, <3>6, <3>7, WriteKeeps DEF Expired
  <2>4. CASE UNCHANGED db /\ work' = [work EXCEPT ![w] = NoWork]
    <3>1. /\ work'[w] = NoWork
          /\ \A u \in Readers : u # w => work'[u] = work[u] /\ TableOf(u)' = TableOf(u)
      BY <1>2, <2>1, <2>4, WriteElsewhere
    <3>2. \A s : (Open(s)' <=> Open(s)) /\ (Announcing(s)' <=> Announcing(s)) /\ On(s, db)' = On(s, db)
      BY <1>1, <2>2, <2>4, <3>1 DEF Open, Announcing, On
    <3>3. ASSUME NEW p \in trusted \cap DOMAIN store PROVE TrustedEntry(p)'
      <4>1. TrustedEntry(p)
        BY DEF QCalm
      <4> QED
        BY <2>2, <3>2, <4>1 DEF TrustedEntry, Expired
    <3> QED
      BY <1>2, <2>1, <2>2, <2>4, <3>2, <3>3, WriteKeeps DEF Expired
  <2> QED
    BY <1>4, <2>3, <2>4 DEF write_commit
<1>5. CASE write_invalidate(w)
  <2>1. PICK t : t = TableOf(w)
    OBVIOUS
  <2>2. /\ UNCHANGED <<db, last, clock>> /\ KeepSelect /\ work[w].stage # "none" /\ Disturb(t)
        /\ MarkExpired({p \in DOMAIN store : t \in store[p].tags /\ ~Expired(p)})
    BY <1>5, <2>1 DEF write_invalidate, Invalidate, cache_invalidate_by_tag
  <2>3. PICK n : work' = [work EXCEPT ![w] = n] /\ WriteTo(t, n)
    <3>1. CASE work' = [work EXCEPT ![w] = NoWork]
      BY <1>2, <3>1
    <3>2. CASE work' = [work EXCEPT ![w] = [work[w] EXCEPT !.stage = "open"]]
      <4>1. /\ [work[w] EXCEPT !.stage = "open"].id = work[w].id
            /\ [work[w] EXCEPT !.stage = "open"].stage = "open"
        BY DEF QInv, QTypeOK
      <4> QED
        BY <2>1, <2>2, <3>2, <4>1, SameTable
    <3> QED
      BY <1>5, <3>1, <3>2 DEF write_invalidate
  <2>4. DOMAIN store' = DOMAIN store
    BY <2>2 DEF MarkExpired
  <2>5. \A p \in DOMAIN store :
          /\ store'[p].key = store[p].key /\ store'[p].tags = store[p].tags
          /\ store'[p].doc = store[p].doc /\ (Expired(p) => Expired(p)')
          /\ t \in store[p].tags => Expired(p)'
    <3> SUFFICES ASSUME NEW p \in DOMAIN store
                 PROVE  /\ store'[p].key = store[p].key /\ store'[p].tags = store[p].tags
                        /\ store'[p].doc = store[p].doc /\ (Expired(p) => Expired(p)')
                        /\ t \in store[p].tags => Expired(p)'
      OBVIOUS
    <3>1. store[p] \in Entry /\ clock \in Nat /\ clock >= 2
      BY DEF CInv, CTypeOK, QCalm
    <3>2. CASE t \in store[p].tags /\ ~Expired(p)
      <4>1. store'[p] = [store[p] EXCEPT !.expiry = clock - 1]
        BY <2>2, <3>2 DEF MarkExpired
      <4>2. /\ store'[p].expiry = clock - 1 /\ store'[p].key = store[p].key
            /\ store'[p].tags = store[p].tags /\ store'[p].doc = store[p].doc
        BY <3>1, <4>1 DEF Entry
      <4>3. Expired(p)'
        BY <2>2, <3>1, <4>2 DEF Expired
      <4> QED
        BY <4>2, <4>3
    <3>3. CASE ~(t \in store[p].tags /\ ~Expired(p))
      <4>1. store'[p] = store[p]
        BY <2>2, <3>3 DEF MarkExpired
      <4> QED
        BY <2>2, <3>3, <4>1 DEF Expired
    <3> QED
      BY <3>2, <3>3
  <2>6. ASSUME NEW p \in trusted \cap DOMAIN store, Reads[store[p].key] = t PROVE TrustedEntry(p)'
    BY <2>5, <2>6 DEF TrustedEntry
  <2>7. \A s : s # t => On(s, db)' = On(s, db)
    BY <2>2 DEF On
  <2> QED
    BY <2>1, <2>2, <2>3, <2>4, <2>5, <2>6, <2>7, WriteKeeps
<1>6. CASE transaction_end(w)
  <2>1. PICK t : t = TableOf(w)
    OBVIOUS
  <2>2. /\ UNCHANGED <<store, last, clock>> /\ KeepSelect /\ work[w].stage = "open" /\ Disturb(t)
        /\ work' = [work EXCEPT ![w] = NoWork]
    BY <1>6, <2>1 DEF transaction_end, cvars
  <2>3. Open(t)
    BY <2>1, <2>2 DEF Open
  <2>4. ASSUME NEW p \in trusted \cap DOMAIN store, Reads[store[p].key] = t PROVE TrustedEntry(p)'
    <3>1. TrustedEntry(p)
      BY DEF QCalm
    <3> QED
      BY <2>2, <2>3, <2>4, <3>1 DEF TrustedEntry, Expired
  <2>5. \A s : s # t => On(s, db)' = On(s, db)
    <3>1. \A s : s # t => On(s, db \cup work[w].id) = On(s, db)
      BY <2>1, <2>2, OtherTables
    <3>2. db' = db \cup work[w].id \/ db' = db
      BY <1>6 DEF transaction_end
    <3> QED
      BY <3>1, <3>2 DEF On
  <2> QED
    BY <1>2, <2>1, <2>2, <2>4, <2>5, WriteKeeps DEF Expired
<1> QED
  BY <1>3, <1>4, <1>5, <1>6 DEF WriteStep

-----------------------------------------------------------------------------
(* Sweep, clock and start                                                   *)

\* The sweep and the clock only remove results or let them expire.
LEMMA AgeingKeepsCalm ==
    ASSUME CInv, QInv, QCalm, sweep \/ TimePasses \/ UNCHANGED allvars
    PROVE  QCalm'
<1>1. UNCHANGED qvars /\ UNCHANGED last
  BY DEF sweep, TimePasses, cache_evict_expired, Tick, allvars, qvars
<1>2. clock \in Nat /\ \A p \in DOMAIN store : store[p] \in Entry
  BY DEF CInv, CTypeOK
<1>3. clock' \in Nat /\ clock' >= clock
  BY <1>2 DEF sweep, TimePasses, cache_evict_expired, Tick, allvars
<1>4. \A p \in DOMAIN store' : p \in DOMAIN store /\ store'[p] = store[p]
  BY DEF sweep, TimePasses, cache_evict_expired, Tick, allvars, Without
<1>5. \A p \in DOMAIN store' : Expired(p) => Expired(p)'
  BY <1>2, <1>3, <1>4 DEF Expired, Entry
<1>6. \A p \in trusted' \cap DOMAIN store' : TrustedEntry(p)'
  BY <1>1, <1>4, <1>5, EntriesKept DEF qvars
<1>7. \A u \in Readers : CalmSelect(u)'
  <2> SUFFICES ASSUME NEW u \in Readers PROVE CalmSelect(u)'
    OBVIOUS
  <2>1. CalmSelect(u)
    BY DEF QCalm
  <2> QED
    BY <1>1, <2>1, CalmKept DEF qvars
<1>8. MoreShape' /\ OneWrite' /\ NotEnded' /\ DeliversSnapshot'
  BY <1>1 DEF qvars, QCalm, MoreShape, OneWrite, NotEnded, DeliversSnapshot, Rows
<1>9. clock' >= 2 /\ trusted' \subseteq 1 .. last'
  BY <1>1, <1>2, <1>3 DEF QCalm, qvars
<1> QED
  BY <1>6, <1>7, <1>8, <1>9 DEF QCalm

\* At the first start nothing is cached and nobody works.
LEMMA CalmInit == QInit => QCalm
<1> SUFFICES ASSUME QInit PROVE QCalm
  OBVIOUS
<1>1. MoreShape /\ OneWrite
  BY DEF QInit, MoreShape, OneWrite, NoWork
<1>2. NotEnded /\ DeliversSnapshot
  BY DEF QInit, NotEnded, DeliversSnapshot, Nothing
<1>3. clock >= 2 /\ trusted \subseteq 1 .. last /\ trusted \cap DOMAIN store = {}
  BY DEF QInit, CInit
<1>4. \A w \in Readers : CalmSelect(w)
  BY DEF QInit, CalmSelect
<1> QED
  BY <1>1, <1>2, <1>3, <1>4 DEF QCalm

-----------------------------------------------------------------------------
(* Theorems about calm SELECTs                                              *)

\* What calm SELECTs count, read, deliver and store agrees with the table,
\* in every reachable state of cache, SELECTs and writes.
THEOREM CalmInvariant == QSpec => []QCalm
<1>1. QInit => QCalm
  BY CalmInit
<1>2. (CInv /\ QInv) /\ QCalm /\ [QNext]_allvars => QCalm'
  BY SelectKeepsCalm, WriteKeepsCalm, AgeingKeepsCalm DEF QNext, Quiescent
<1> QED
  BY <1>1, <1>2, QueryInvariant, PTL DEF QSpec

\* However SELECTs, writes, transactions, sweeps and the clock interleave: a
\* cached result that no write overlapped with, and whose query names the
\* table it reads, is never a hit once the table has changed, but for the
\* moment between a standalone commit and
\* resultset_cache_invalidate_by_table().
THEOREM CalmResultsStayCurrent == QSpec => []CalmResultsCurrent
<1>1. QCalm => CalmResultsCurrent
  BY DEF QCalm, TrustedEntry, Announcing, CalmResultsCurrent
<1> QED
  BY <1>1, CalmInvariant, PTL

\* execute_query_batch() counts first and reads later; when no write to the
\* table comes between, the client gets the rows of one snapshot, up to
\* query_max_record_count, and a batched answer has exactly one final batch.
THEOREM SelectsDeliverSnapshot == QSpec => []DeliversSnapshot
<1>1. QCalm => DeliversSnapshot
  BY DEF QCalm
<1> QED
  BY <1>1, CalmInvariant, PTL
=============================================================================
