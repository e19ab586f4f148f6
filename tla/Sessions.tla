------------------------------ MODULE Sessions ------------------------------
(***************************************************************************)
(* Client sessions: the OCI_SESSION table, the session cache in front of   *)
(* it, the workers that validate a session and report its activity, the    *)
(* Session Manager thread that applies the reports, HTTP handlers that     *)
(* create and end sessions, and the process that crashes and reconciles.   *)
(*                                                                         *)
(* A cached session record is only ever ACTIVE, so Docs has one member.    *)
(* Session ids are fresh UUIDs: each member of Keys is created once.       *)
(***************************************************************************)
EXTENDS Cache, Sequences

CONSTANTS
    Runner,         \* the Session Manager thread; the other readers are workers
    QueueDepth,     \* SESSION_TOUCH_QUEUE_DEPTH
    MaxRequests,    \* bound: requests that name a session
    MaxEnds,        \* bound: END_SESSION requests
    MaxCrashes      \* bound: crashes

ASSUME SessionAssumption ==
    /\ Runner \in Readers /\ Keys # {}
    /\ Docs = {"ACTIVE"}
    /\ QueueDepth \in Nat \ {0}
    /\ MaxRequests \in Nat /\ MaxEnds \in Nat /\ MaxCrashes \in Nat

Workers == Readers \ {Runner}

VARIABLES
    row,        \* the OCI_SESSION table
    touch_q,    \* session ids whose activity is to be recorded
    wpc, wkey,  \* each worker: where it is, and its request's session id
    rpc, rkey,  \* the Session Manager thread
    closing,    \* sessions closed in the table, whose entry is not yet expired
    overlapped, \* ghost: sessions that were ended while being touched
    tx_left,    \* the thread's active_tx, left set by a rejected update
    unsaved,    \* its uncommitted LAST_ACTIVITY_TS per session, 0: none
    missed,     \* ghost: when a table sync of each session last failed
    up,         \* is the process running?
    requests, ends, crashes

svars == <<row, touch_q, wpc, wkey, rpc, rkey, closing, overlapped, tx_left, unsaved,
           missed, up, requests, ends, crashes>>
allvars == <<store, entry_count, last, held, shared, clock,
             row, touch_q, wpc, wkey, rpc, rkey, closing, overlapped, tx_left, unsaved,
             missed, up, requests, ends, crashes>>

NoRow == [status |-> "none", created |-> 0, active |-> 0]

\* A first start on an empty table.
SInit ==
    /\ CInit
    /\ row = [k \in Keys |-> NoRow]
    /\ touch_q = <<>>
    /\ wpc = [w \in Workers |-> "idle"]
    /\ wkey \in [Workers -> {CHOOSE k \in Keys : TRUE}]
    /\ rpc = "off" /\ rkey = CHOOSE k \in Keys : TRUE
    /\ closing = {} /\ overlapped = {}
    /\ tx_left = FALSE /\ unsaved = [k \in Keys |-> 0]
    /\ missed = [k \in Keys |-> 0]
    /\ up = FALSE
    /\ requests = 0 /\ ends = 0 /\ crashes = 0

Created == {k \in Keys : row[k].status # "none"}

-----------------------------------------------------------------------------
(* Handlers: CREATE_SESSION, AUTHENTICATE and the File Consumer's own        *)

KeepThreads == UNCHANGED <<touch_q, wpc, wkey, rpc, rkey>>
KeepBounds  == UNCHANGED <<requests, ends, crashes>>
KeepSync    == UNCHANGED <<tx_left, unsaved, missed>>

\* The row is inserted and committed; if that fails nothing is cached and the
\* caller gets no id (the attempt leaves no trace).  Then the record is
\* cached, or not: that failure is only logged.
session_create(k) ==
    /\ up /\ row[k].status = "none"
    /\ row' = [row EXCEPT ![k] = [status |-> "ACTIVE", created |-> clock, active |-> clock]]
    /\ \/ cache_insert(k, "ACTIVE", {}, FALSE)
       \/ UNCHANGED cvars
    /\ KeepThreads /\ KeepBounds /\ KeepSync /\ UNCHANGED <<closing, overlapped, up>>

\* session_end(), first the UPDATE keyed on SESSION_ID, whatever the status;
\* it waits while the Session Manager has the row's lock.  If it fails nothing
\* else is done.
session_end_update(k) ==
    /\ up /\ ends < MaxEnds /\ k \in Created /\ unsaved[k] = 0
    /\ row' = [row EXCEPT ![k].status = "LOGGED_OUT", ![k].active = clock]
    /\ closing' = closing \cup {k}
    /\ ends' = ends + 1
    /\ KeepThreads /\ KeepSync /\ UNCHANGED <<overlapped, up, requests, crashes>>
    /\ UNCHANGED cvars

\* The Session Manager thread has read k's record and not yet written it back.
Touching(k) == rkey = k /\ rpc \in {"reading", "store"}

\* Mutant: an entry that a reader has checked out is left alone.
session_end_invalidate_unused(k) ==
    /\ k \in closing
    /\ IF \E p \in At(k) : store[p].inUse THEN UNCHANGED cvars ELSE cache_expire_entry(k)
    /\ closing' = closing \ {k}
    /\ overlapped' = IF Touching(k) THEN overlapped \cup {k} ELSE overlapped
    /\ KeepThreads /\ KeepBounds /\ KeepSync /\ UNCHANGED <<row, up>>

\* ... then session_cache_invalidate().
session_end_invalidate(k) ==
    /\ k \in closing
    /\ cache_expire_entry(k)
    /\ closing' = closing \ {k}
    /\ overlapped' = IF Touching(k) THEN overlapped \cup {k} ELSE overlapped
    /\ KeepThreads /\ KeepBounds /\ KeepSync /\ UNCHANGED <<row, up>>

-----------------------------------------------------------------------------
(* Workers: session_validate() in process_xml_file(), the touch in worker.c *)

KeepTable == UNCHANGED <<row, closing, overlapped, up, rpc, rkey, ends, crashes>> /\ KeepSync

\* A client sends a request under an id it was given.
Request(w, k) ==
    /\ up /\ wpc[w] = "idle" /\ requests < MaxRequests /\ k \in Created
    /\ wkey' = [wkey EXCEPT ![w] = k]
    /\ requests' = requests + 1
    /\ UNCHANGED touch_q /\ KeepTable

validate_hit(w, k) ==
    /\ Request(w, k)
    /\ cache_lookup_hit(w, k)
    /\ wpc' = [wpc EXCEPT ![w] = "reading"]

\* The request is rejected; its activity is reported all the same.
validate_miss(w, k) ==
    /\ Request(w, k)
    /\ cache_lookup_miss(k)
    /\ wpc' = [wpc EXCEPT ![w] = "answered"]
    /\ UNCHANGED cvars

validate_release(w) ==
    /\ wpc[w] = "reading"
    /\ cache_release(w)
    /\ wpc' = [wpc EXCEPT ![w] = "answered"]
    /\ UNCHANGED <<wkey, touch_q, requests>> /\ KeepTable

\* File-side workers report the activity, unless the queue is full; HTTP
\* workers have no touch queue.
report_activity(w) ==
    /\ wpc[w] = "answered"
    /\ \/ Len(touch_q) < QueueDepth /\ touch_q' = Append(touch_q, wkey[w])
       \/ UNCHANGED touch_q
    /\ wpc' = [wpc EXCEPT ![w] = "idle"]
    /\ UNCHANGED <<wkey, requests>> /\ KeepTable /\ UNCHANGED cvars

-----------------------------------------------------------------------------
(* The Session Manager thread: session_touch(), then session_touch_db()     *)

KeepWorkers == UNCHANGED <<wpc, wkey, closing, overlapped, up>> /\ KeepBounds

runner_dequeue ==
    /\ rpc = "idle" /\ touch_q # <<>>
    /\ rkey' = Head(touch_q) /\ touch_q' = Tail(touch_q)
    /\ rpc' = "lookup"
    /\ KeepWorkers /\ KeepSync /\ UNCHANGED row /\ UNCHANGED cvars

touch_hit ==
    /\ rpc = "lookup"
    /\ cache_lookup_hit(Runner, rkey)
    /\ rpc' = "reading"
    /\ KeepWorkers /\ KeepSync /\ UNCHANGED <<row, touch_q, rkey>>

\* SESSION_ERR_NOT_FOUND; the table is synchronised all the same.
touch_miss ==
    /\ rpc = "lookup"
    /\ cache_lookup_miss(rkey)
    /\ rpc' = "table"
    /\ KeepWorkers /\ KeepSync /\ UNCHANGED <<row, touch_q, rkey>> /\ UNCHANGED cvars

touch_release ==
    /\ rpc = "reading"
    /\ cache_release(Runner)
    /\ rpc' = "store"
    /\ KeepWorkers /\ KeepSync /\ UNCHANGED <<row, touch_q, rkey>>

\* The record is written back with a new expiry.
touch_store ==
    /\ rpc = "store"
    /\ cache_insert(rkey, "ACTIVE", {}, FALSE)
    /\ rpc' = "table"
    /\ KeepWorkers /\ KeepSync /\ UNCHANGED <<row, touch_q, rkey>>

\* Mutant: the report is taken off the queue and the table never written.
session_touch_db_lost ==
    /\ rpc = "table"
    /\ rpc' = "idle"
    /\ KeepWorkers /\ KeepSync /\ UNCHANGED <<row, touch_q, rkey>> /\ UNCHANGED cvars

\* The table with everything the thread has written, for the commit.
Synced == [k \in Keys |->
             IF k = rkey THEN [row[k] EXCEPT !.active = clock]
             ELSE IF unsaved[k] > 0 THEN [row[k] EXCEPT !.active = unsaved[k]] ELSE row[k]]

NothingUnsaved == [k \in Keys |-> 0]

\* LAST_ACTIVITY_TS, whatever the row's status: execute_update_batch() commits
\* it, unless active_tx is set, which only the thread's start clears.
touch_table ==
    /\ IF tx_left
         THEN unsaved' = [unsaved EXCEPT ![rkey] = clock] /\ UNCHANGED row
         ELSE row' = Synced /\ unsaved' = NothingUnsaved
    /\ UNCHANGED <<tx_left, missed>>

\* "Table sync missed this cycle": the validation rejects the update and leaves
\* active_tx set; or the statement fails, its row changed or not; or a failure
\* after the statement rolls the whole session back.
touch_table_fails ==
    /\ \/ tx_left' = TRUE /\ UNCHANGED unsaved
       \/ /\ unsaved' \in {unsaved, [unsaved EXCEPT ![rkey] = clock], NothingUnsaved}
          /\ UNCHANGED tx_left
    /\ missed' = [missed EXCEPT ![rkey] = clock]
    /\ UNCHANGED row

session_touch_db ==
    /\ rpc = "table"
    /\ touch_table \/ touch_table_fails
    /\ rpc' = "idle"
    /\ KeepWorkers /\ UNCHANGED <<touch_q, rkey>> /\ UNCHANGED cvars

-----------------------------------------------------------------------------
(* The process                                                              *)

\* ACTIVE rows with CREATED_TS + TTL_SECONDS < now.
Orphans == {k \in Keys : row[k].status = "ACTIVE" /\ row[k].created + TTL < clock}

\* session_reconcile_orphans() before any traffic: the query may fail or be
\* cut short, and a row may resist its update.  The Session Manager thread
\* may fail to get a database session: then its queue is never drained.
start ==
    /\ ~up /\ up' = TRUE
    /\ \E closed \in SUBSET Orphans :
         row' = [k \in Keys |-> IF k \in closed
                   THEN [row[k] EXCEPT !.status = "EXPIRED_ORPHAN", !.active = clock] ELSE row[k]]
    /\ rpc' \in {"idle", "dead"}
    /\ UNCHANGED <<touch_q, wpc, wkey, rkey, closing, overlapped>>
    /\ KeepBounds /\ KeepSync /\ UNCHANGED cvars

\* Memory is gone, the table stays, without what was not committed.
crash ==
    /\ up /\ crashes < MaxCrashes
    /\ up' = FALSE /\ crashes' = crashes + 1
    /\ cache_restart
    /\ touch_q' = <<>> /\ closing' = {}
    /\ wpc' = [w \in Workers |-> "idle"] /\ rpc' = "off"
    /\ tx_left' = FALSE /\ unsaved' = NothingUnsaved
    /\ UNCHANGED <<row, wkey, rkey, overlapped, missed, requests, ends>>

TimePasses == Tick /\ UNCHANGED svars

HandlerStep(k) == session_create(k) \/ session_end_update(k) \/ session_end_invalidate(k)

WorkerStep(w) ==
    \/ \E k \in Keys : validate_hit(w, k) \/ validate_miss(w, k)
    \/ validate_release(w) \/ report_activity(w)

RunnerStep ==
    runner_dequeue \/ touch_hit \/ touch_miss \/ touch_release \/ touch_store \/ session_touch_db

\* The process runs on with nothing to do.
Quiescent == up /\ UNCHANGED allvars

SNext ==
    \/ \E k \in Keys : HandlerStep(k)
    \/ \E w \in Workers : WorkerStep(w)
    \/ RunnerStep \/ start \/ crash \/ TimePasses \/ Quiescent

\* The Session Manager thread is scheduled and its statements return.
SSpec == SInit /\ [][SNext]_allvars /\ WF_allvars(RunnerStep)

-----------------------------------------------------------------------------
(* Properties                                                               *)

\* Table, queue and threads have the shape of their C counterparts.
STypeOK ==
    /\ CTypeOK
    /\ row \in [Keys -> [status : {"none", "ACTIVE", "LOGGED_OUT", "EXPIRED_ORPHAN"},
                         created : Nat, active : Nat]]
    /\ touch_q \in Seq(Keys) /\ Len(touch_q) <= QueueDepth
    /\ wpc \in [Workers -> {"idle", "reading", "answered"}] /\ wkey \in [Workers -> Keys]
    /\ rpc \in {"off", "dead", "idle", "lookup", "reading", "store", "table"} /\ rkey \in Keys
    /\ tx_left \in BOOLEAN /\ unsaved \in [Keys -> Nat] /\ missed \in [Keys -> Nat]

\* A session that session_validate() accepts is ACTIVE in the table: an ended
\* one is rejected from the moment session_end() returns, whatever reports of
\* its activity are still queued, and across a crash and the reconciliation.
\* The exception is a session that was ended between session_touch()'s read
\* and its write: the write revives it.
AcceptedSessionsAreActive ==
    \A k \in Keys :
      Live(k) # {} => \/ row[k].status = "ACTIVE"
                      \/ k \in closing
                      \/ k \in overlapped

\* Activity reported to a running Session Manager thread reaches the table
\* with a time no earlier than the report, unless an update of that session
\* failed since the report, a rejected one has left active_tx set (no touch
\* is committed any more), or the process crashed.
ReportsReachTable ==
    \A k \in Keys, t \in 2 .. MaxTime :
      (rpc \notin {"off", "dead"} /\ clock = t /\ \E i \in DOMAIN touch_q : touch_q[i] = k)
        ~> (row[k].active >= t \/ missed[k] >= t \/ tx_left \/ ~up)
=============================================================================
