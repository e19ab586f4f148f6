------------------------------ MODULE QueryPath ------------------------------
(***************************************************************************)
(* SELECT requests (execute_query_batch()) against the resultset cache,    *)
(* beside writes that invalidate it.                                       *)
(*                                                                         *)
(* The contents of a table are the set of writes it contains: committed,   *)
(* plus, for the session that made them, uncommitted ones.  A document is  *)
(* such a set.  A query reads one table, possibly through a view or under  *)
(* another spelling, so the names in its text (its tags) need not name it. *)
(***************************************************************************)
EXTENDS Cache

CONSTANTS
    Writes,         \* the writes that may happen, each once
    Target,         \* the table each changes
    Delta,          \* by how many rows it changes the table: 1, 0 or -1
    Reads, Named,   \* per key: the table the query reads, the tables its text names
    BaseRows,       \* rows of every table at the start
    MaxRecords,     \* query_max_record_count
    Batch,          \* rows per fetched batch
    MaxSelects      \* bound: SELECTs started

ASSUME QueryAssumption ==
    /\ Keys # {}
    /\ Docs = SUBSET Writes
    /\ Target \in [Writes -> Tags]
    /\ Delta \in [Writes -> {-1, 0, 1}]
    /\ Reads \in [Keys -> Tags] /\ Named \in [Keys -> SUBSET Tags]
    /\ BaseRows \in Nat /\ MaxRecords \in Nat \ {0} /\ Batch \in Nat \ {0}
    /\ MaxSelects \in Nat
    \* Every delete finds a row of its own.
    /\ IsFiniteSet(Writes)
    /\ Cardinality({x \in Writes : Delta[x] = -1}) <= BaseRows

VARIABLES
    db,         \* committed writes
    done,       \* writes that were executed
    pc,         \* where each worker is
    query,      \* the SELECT it executes: key, asynchronous?
    counted,    \* record_count, after truncation
    truncated,  \* was it cut to MaxRecords?
    snap,       \* what its cursor reads
    work,       \* the write it executes, with its transaction
    calm,       \* ghost: no write to the table was under way since the count
    trusted,    \* ghost: addresses filled by a calm SELECT
    outcome,    \* what the client of the SELECT that ended last got
    selects     \* SELECTs started

qvars == <<db, done, pc, query, counted, truncated, snap, work, calm, trusted,
           outcome, selects>>
allvars == <<store, entry_count, last, held, shared, clock,
             db, done, pc, query, counted, truncated, snap, work, calm, trusted,
             outcome, selects>>

NoWork  == [id |-> {}, managed |-> FALSE, stage |-> "none"]
\* No SELECT has executed to its end since the last one began.
Nothing == [ok |-> FALSE, sent |-> 0, finals |-> 0, skipped |-> FALSE, ended |-> FALSE]

QInit ==
    /\ CInit
    /\ db = {} /\ done = {}
    /\ pc = [w \in Readers |-> "idle"]
    /\ query \in [Readers -> {[key |-> CHOOSE k \in Keys : TRUE, async |-> FALSE]}]
    /\ counted = [w \in Readers |-> 0]
    /\ truncated = [w \in Readers |-> FALSE]
    /\ snap = [w \in Readers |-> {}]
    /\ work = [w \in Readers |-> NoWork]
    /\ calm = [w \in Readers |-> FALSE]
    /\ trusted = {}
    /\ outcome = [w \in Readers |-> Nothing]
    /\ selects = 0

-----------------------------------------------------------------------------
(* What the database shows                                                  *)

On(t, S) == {x \in S : Target[x] = t}

\* The table as worker w's session sees it.
Visible(w, t) == On(t, db \cup work[w].id)

Rows(S) ==
    BaseRows + Cardinality({x \in S : Delta[x] = 1}) - Cardinality({x \in S : Delta[x] = -1})

\* Some write to t has been executed and is not both committed and announced.
UnderWay(t) == \E w \in Readers : work[w].stage # "none" /\ On(t, work[w].id) # {}

\* A write to t starts, or ends: no SELECT on t in progress is calm.
Disturb(t) ==
    calm' = [w \in Readers |-> calm[w] /\ Reads[query[w].key] # t]

-----------------------------------------------------------------------------
(* execute_query_batch()                                                    *)

Goto(w, label) == pc' = [pc EXCEPT ![w] = label]

KeepQuery  == UNCHANGED <<db, done, query, work, trusted, selects>>
KeepCursor == UNCHANGED <<counted, truncated, snap>>

\* An asynchronous request never looks into the cache.
select_begin(w) ==
    /\ pc[w] = "idle" /\ selects < MaxSelects
    /\ work[w].stage \in {"none", "open"}
    /\ \E k \in Keys, async \in BOOLEAN :
         /\ query' = [query EXCEPT ![w] = [key |-> k, async |-> async]]
         /\ Goto(w, IF async THEN "count" ELSE "lookup")
    /\ selects' = selects + 1
    /\ outcome' = [outcome EXCEPT ![w] = Nothing]
    /\ UNCHANGED <<db, done, work, calm, trusted>> /\ KeepCursor /\ UNCHANGED cvars

lookup_hit(w) ==
    /\ pc[w] = "lookup"
    /\ cache_lookup_hit(w, query[w].key)
    /\ Goto(w, "reading")
    /\ KeepQuery /\ KeepCursor /\ UNCHANGED <<calm, outcome>>

lookup_miss(w) ==
    /\ pc[w] = "lookup"
    /\ cache_lookup_miss(query[w].key)
    /\ Goto(w, "count")
    /\ KeepQuery /\ KeepCursor /\ UNCHANGED <<calm, outcome>> /\ UNCHANGED cvars

\* The document is copied and the entry released; a JSON request that finds
\* no JSON in the entry releases it too, and executes.
serve_hit(w) ==
    /\ pc[w] = "reading"
    /\ cache_release(w)
    /\ \/ Goto(w, "idle")
       \/ /\ held[w] \in DOMAIN store /\ ~store[held[w]].json
          /\ Goto(w, "count")
    /\ KeepQuery /\ KeepCursor /\ UNCHANGED <<calm, outcome>>

\* rc = -1; goto Cleanup
Failed(w) ==
    /\ Goto(w, "idle")
    /\ outcome' = [outcome EXCEPT ![w] = Nothing]
    /\ UNCHANGED <<calm>> /\ KeepCursor

\* Mutant: the count is not cut to query_max_record_count.
RecordCount_uncut(n) == n

RecordCount(n) == IF n > MaxRecords THEN MaxRecords ELSE n

\* The count is a statement of its own, before the cursor is opened.
count_rows(w) ==
    /\ pc[w] = "count"
    /\ \/ LET t == Reads[query[w].key]
              n == Rows(Visible(w, t))
          IN  /\ counted' = [counted EXCEPT ![w] = RecordCount(n)]
              /\ truncated' = [truncated EXCEPT ![w] = n > MaxRecords]
              /\ calm' = [calm EXCEPT ![w] = ~UnderWay(t)]
              /\ Goto(w, "open")
              /\ UNCHANGED <<snap, outcome>>
       \/ Failed(w)
    /\ KeepQuery /\ UNCHANGED cvars

\* select_open(): the cursor's rows are those of this moment.
open_cursor(w) ==
    /\ pc[w] = "open"
    /\ \/ /\ snap' = [snap EXCEPT ![w] = Visible(w, Reads[query[w].key])]
          /\ Goto(w, "fetch")
          /\ UNCHANGED <<counted, truncated, calm, outcome>>
       \/ Failed(w)
    /\ KeepQuery /\ UNCHANGED cvars

\* The statement is wrapped in a row limit only if the count was cut.
CursorRows(w) ==
    IF truncated[w] /\ Rows(snap[w]) > counted[w] THEN counted[w] ELSE Rows(snap[w])

Batches(n) == (n + Batch - 1) \div Batch

\* Mutant: a batch is final if it is not full.
FinalBatches_short(got, n, expected) == Cardinality({b \in got : b * Batch > n})

\* How many of the batches got, of n rows in all, are flagged final: those
\* after which at least the expected number of rows has been fetched.
FinalBatches(got, n, expected) ==
    Cardinality({b \in got : (IF b * Batch < n THEN b * Batch ELSE n) >= expected})

\* An asynchronous SELECT sends its batches as it fetches them; a fetch may
\* fail.  A batch that cannot be rendered, for want of memory, is not sent; its
\* rows count as fetched, the loop goes on and the request succeeds.
fetch_async(w) ==
    LET n   == CursorRows(w)
        all == 1 .. Batches(n)
    IN  /\ pc[w] = "fetch" /\ query[w].async
        /\ \/ /\ outcome' = [outcome EXCEPT ![w] =
                               [ended |-> TRUE, ok |-> TRUE, sent |-> n, skipped |-> FALSE,
                                finals |-> FinalBatches(all, n, counted[w])]]
              /\ Goto(w, "idle")
           \/ /\ \E got \in SUBSET all :
                   /\ got # all
                   /\ outcome' = [outcome EXCEPT ![w] =
                        [ended |-> TRUE, ok |-> TRUE,
                         sent |-> Cardinality({row \in 1 .. n : Batches(row) \in got}),
                         skipped |-> TRUE, finals |-> FinalBatches(got, n, counted[w])]]
              /\ Goto(w, "idle")
           \/ Failed(w)
        /\ KeepQuery /\ KeepCursor /\ UNCHANGED calm /\ UNCHANGED cvars

\* A synchronous one copies each row into a resultset of record_count rows:
\* a row too many fails the request.
fetch_sync(w) ==
    /\ pc[w] = "fetch" /\ ~query[w].async
    /\ \/ CursorRows(w) <= counted[w] /\ Goto(w, "store") /\ UNCHANGED outcome
       \/ /\ CursorRows(w) > counted[w]
          /\ Goto(w, "idle")
          /\ outcome' = [outcome EXCEPT ![w] =
                           [ended |-> TRUE, ok |-> FALSE, sent |-> 0, skipped |-> FALSE, finals |-> 0]]
       \/ Failed(w)
    /\ KeepQuery /\ KeepCursor /\ UNCHANGED calm /\ UNCHANGED cvars

\* response_writer_cache_store(), then the answer, which has record_count rows
\* (those that were not fetched are blank).  The copy of the JSON text may fail.
store_result(w) ==
    /\ pc[w] = "store"
    /\ \E json \in BOOLEAN : cache_insert(query[w].key, snap[w], Named[query[w].key], json)
    /\ trusted' = IF calm[w] /\ last' # last THEN trusted \cup {last'} ELSE trusted
    /\ outcome' = [outcome EXCEPT ![w] =
                     [ended |-> TRUE, ok |-> TRUE, sent |-> counted[w], skipped |-> FALSE, finals |-> 0]]
    /\ Goto(w, "idle")
    /\ UNCHANGED <<db, done, query, work, selects, calm>> /\ KeepCursor

-----------------------------------------------------------------------------
(* Writes, as far as the cache can see them                                 *)

KeepSelect == UNCHANGED <<pc, query, outcome, trusted, selects>> /\ KeepCursor

TableOf(w) == Target[CHOOSE x \in work[w].id : TRUE]

\* The statement is executed, in a caller's transaction or in its own.
write_execute(w) ==
    /\ pc[w] = "idle" /\ work[w].stage = "none"
    /\ \E x \in Writes \ done, managed \in BOOLEAN :
         /\ work' = [work EXCEPT ![w] = [id |-> {x}, managed |-> managed, stage |-> "executed"]]
         /\ done' = done \cup {x}
         /\ Disturb(Target[x])
    /\ UNCHANGED db /\ KeepSelect /\ UNCHANGED cvars

\* Without a managing transaction the module commits, or gives up.
write_commit(w) ==
    /\ pc[w] = "idle" /\ work[w].stage = "executed" /\ ~work[w].managed
    /\ \/ db' = db \cup work[w].id /\ work' = [work EXCEPT ![w].stage = "committed"]
       \/ UNCHANGED db /\ work' = [work EXCEPT ![w] = NoWork]
    /\ Disturb(TableOf(w))
    /\ UNCHANGED done /\ KeepSelect /\ UNCHANGED cvars

\* Mutant: inside a managed transaction nothing is invalidated.
Invalidate_standalone(w) ==
    IF work[w].managed THEN UNCHANGED cvars ELSE cache_invalidate_by_tag(TableOf(w))

Invalidate(w) == cache_invalidate_by_tag(TableOf(w))

\* resultset_cache_invalidate_by_table(), after a commit of its own or inside
\* the caller's transaction.
write_invalidate(w) ==
    /\ pc[w] = "idle"
    /\ work[w].stage = (IF work[w].managed THEN "executed" ELSE "committed")
    /\ Invalidate(w)
    /\ work' = [work EXCEPT ![w] = IF @.managed THEN [@ EXCEPT !.stage = "open"] ELSE NoWork]
    /\ Disturb(TableOf(w))
    /\ UNCHANGED <<db, done>> /\ KeepSelect

\* tx_commit() or tx_rollback(), after further operations of the request.
transaction_end(w) ==
    /\ pc[w] = "idle" /\ work[w].stage = "open"
    /\ \/ db' = db \cup work[w].id
       \/ UNCHANGED db
    /\ work' = [work EXCEPT ![w] = NoWork]
    /\ Disturb(TableOf(w))
    /\ UNCHANGED done /\ KeepSelect /\ UNCHANGED cvars

-----------------------------------------------------------------------------

\* resultset_cache_evict() is exported; nothing in the program calls it yet.
sweep == cache_evict_expired /\ UNCHANGED qvars

TimePasses == Tick /\ UNCHANGED qvars

SelectStep(w) ==
    \/ select_begin(w) \/ lookup_hit(w) \/ lookup_miss(w) \/ serve_hit(w) \/ count_rows(w)
    \/ open_cursor(w) \/ fetch_async(w) \/ fetch_sync(w) \/ store_result(w)

WriteStep(w) ==
    write_execute(w) \/ write_commit(w) \/ write_invalidate(w) \/ transaction_end(w)

\* All requests are served (the bounds are reached).
Quiescent ==
    /\ \A w \in Readers : pc[w] = "idle" /\ work[w].stage = "none"
    /\ UNCHANGED allvars

QNext == (\E w \in Readers : SelectStep(w) \/ WriteStep(w)) \/ sweep \/ TimePasses \/ Quiescent

QSpec == QInit /\ [][QNext]_allvars

-----------------------------------------------------------------------------
(* Properties                                                               *)

\* The workers' state has the shape of execute_query_batch()'s locals.
QTypeOK ==
    /\ CTypeOK
    /\ db \in SUBSET Writes /\ done \in SUBSET Writes /\ trusted \in SUBSET Addresses
    /\ pc \in [Readers -> {"idle", "lookup", "reading", "count", "open", "fetch", "store"}]
    /\ query \in [Readers -> [key : Keys, async : BOOLEAN]]
    /\ counted \in [Readers -> 0 .. MaxRecords]
    /\ snap \in [Readers -> SUBSET Writes]
    /\ work \in [Readers -> [id : SUBSET Writes, managed : BOOLEAN,
                             stage : {"none", "executed", "committed", "open"}]]

\* A result that no write to its table overlapped with, and whose query names
\* that table, is never served once it is out of date: writes announce
\* themselves to every cached result they change, except in the moment
\* between a standalone commit and its invalidation.
CalmResultsCurrent ==
    \A p \in trusted \cap DOMAIN store :
      LET t == Reads[store[p].key]
      IN  ~Expired(p) /\ t \in store[p].tags /\ store[p].doc # On(t, db)
            => \E w \in Readers : work[w].stage = "committed" /\ TableOf(w) = t

\* A SELECT whose table did not change while it ran delivers the rows of one
\* snapshot up to the limit, blank rows and failures excluded, unless a batch
\* was skipped; an asynchronous one with any rows at all never says "final"
\* twice, and once if no batch was skipped (Connection.h: "is_final is 1 on the
\* last batch only").
DeliversSnapshot ==
    \A w \in Readers :
      outcome[w].ended /\ calm[w] =>
        /\ outcome[w].ok
        /\ ~outcome[w].skipped =>
             outcome[w].sent = (IF Rows(snap[w]) > MaxRecords THEN MaxRecords ELSE Rows(snap[w]))
        /\ query[w].async /\ Rows(snap[w]) > 0 =>
             outcome[w].finals = 1 \/ (outcome[w].skipped /\ outcome[w].finals = 0)
=============================================================================
