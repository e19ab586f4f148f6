---------------------------- MODULE HttpDispatch ----------------------------
(***************************************************************************)
(* The HTTP consumer's request path: MHD handler threads that hand a       *)
(* request to a queue of queue_manager.c and block on a completion object, *)
(* one worker thread per queue (http_worker_pool.c), and the stop sequence *)
(* of http_consumer_runner.c.                                              *)
(*                                                                         *)
(* One step is one critical section: a probe of one queue under its mutex, *)
(* one pass of dequeue_blocking()'s loop, one locked access to a           *)
(* completion.  A handler keeps enqueue_mutex over all its probes, so only *)
(* workers run between them.                                               *)
(***************************************************************************)
EXTENDS Integers, Sequences, FiniteSets

CONSTANTS
    Handlers,           \* MHD's thread pool
    Writes, Reads, Asyncs,  \* the requests clients may send, by kind
    Q,                  \* http_dispatcher.queue_count
    Depth,              \* http_dispatcher.queue_depth
    WorkersMayFail,     \* can get_session() fail when a worker starts?
    Rejectable,         \* requests a handler may turn down itself
    NoHandler,          \* a NULL completion_ctx, an unlocked mutex
    NoRequest           \* a NULL request

ASSUME DispatchAssumption ==
    /\ Q \in Nat \ {0}
    /\ Depth \in Nat \ {0}
    /\ WorkersMayFail \in BOOLEAN
    /\ NoHandler \notin Handlers
    /\ NoRequest \notin Writes \cup Reads \cup Asyncs
    /\ Writes \cap Reads = {} /\ Writes \cap Asyncs = {} /\ Reads \cap Asyncs = {}

Requests == Writes \cup Reads \cup Asyncs
Queues   == 0 .. (Q - 1)

\* A request_object_t: the request and its completion_ctx (NULL if async).
Items == [req : Requests, comp : Handlers \cup {NoHandler}]

VARIABLES
    queue,      \* the circular buffers, oldest request first
    cursor,     \* enqueue_cursor
    down,       \* shutting_down
    lock,       \* holder of enqueue_mutex
    hpc,        \* where each handler is
    hreq,       \* the request it serves
    todo,       \* queues its scan has still to probe
    comp,       \* its http_completion_t: done flag, and whose result is in it
    wpc,        \* where each worker is
    witem,      \* the request it has dequeued
    executed,   \* requests that process_xml_file() has run
    told,       \* what each client got
    stop,       \* progress of stop_daemon_once()
    signalled   \* queues that queue_manager_shutdown() has been through

qvars == <<queue, cursor, down>>
hvars == <<lock, hpc, hreq, todo, comp, told>>
wvars == <<wpc, witem, executed>>
pvars == <<stop, signalled>>
dvars == <<queue, cursor, down, lock, hpc, hreq, todo, comp, wpc, witem, executed,
           told, stop, signalled>>

Fresh  == [done |-> FALSE, resp |-> NoRequest]
NoItem == [req |-> NoRequest, comp |-> NoHandler]

\* http_consumer_runner_start(): queues and threads exist, MHD listens.
DInit ==
    /\ queue = [q \in Queues |-> << >>] /\ cursor = 0 /\ down = FALSE
    /\ lock = NoHandler
    /\ hpc = [h \in Handlers |-> "idle"]
    /\ hreq = [h \in Handlers |-> NoRequest]
    /\ todo = [h \in Handlers |-> << >>]
    /\ comp = [h \in Handlers |-> Fresh]
    /\ wpc = [q \in Queues |-> "starting"]
    /\ witem = [q \in Queues |-> NoItem]
    /\ executed = {}
    /\ told = [r \in Requests |-> "none"]
    /\ stop = "serving" /\ signalled = {}

Unsent == {r \in Requests : told[r] = "none" /\ \A h \in Handlers : hreq[h] # r}

-----------------------------------------------------------------------------
(* A handler thread                                                         *)

\* MHD calls http_consumer_handle_request() with a complete body.
handle_request(h, r) ==
    /\ stop = "serving" /\ hpc[h] = "idle" /\ r \in Unsent
    /\ hpc' = [hpc EXCEPT ![h] = "locking"]
    /\ hreq' = [hreq EXCEPT ![h] = r]
    /\ comp' = [comp EXCEPT ![h] = Fresh]
    /\ UNCHANGED <<lock, todo, told>> /\ UNCHANGED qvars /\ UNCHANGED wvars /\ UNCHANGED pvars

\* A request that goes no further than its handler: an execute_async SELECT
\* that validate_async_select_request() turns down, or no memory for the copy of
\* the body or the request object.  The client is told so at once.
reject_request(h, r) ==
    /\ stop = "serving" /\ hpc[h] = "idle" /\ r \in Unsent \cap Rejectable
    /\ told' = [told EXCEPT ![r] = "error"]
    /\ UNCHANGED <<lock, hpc, hreq, todo, comp>>
    /\ UNCHANGED qvars /\ UNCHANGED wvars /\ UNCHANGED pvars

\* The indices start, start + 1, ... around the ring, without exclude_index = 0.
RoundRobin(start) ==
    LET first == IF start = 0 THEN 1 ELSE start
    IN  [i \in 1 .. (Q - 1) |-> IF first + i <= Q THEN first + i - 1 ELSE first + i - Q]

\* Mutant: writes overflow to the other queues like everything else.
enqueue_begin_spill(h) ==
    /\ hpc[h] = "locking" /\ lock = NoHandler
    /\ lock' = h
    /\ hpc' = [hpc EXCEPT ![h] = "scanning"]
    /\ todo' = [todo EXCEPT ![h] =
                  IF hreq[h] \in Writes THEN [i \in 1 .. Q |-> i - 1] ELSE RoundRobin(cursor)]
    /\ cursor' = (cursor + 1) % Q
    /\ UNCHANGED <<queue, down, hreq, comp, told>> /\ UNCHANGED wvars /\ UNCHANGED pvars

\* pthread_mutex_lock(&enqueue_mutex): a write may only use queue 0.
enqueue_begin(h) ==
    /\ hpc[h] = "locking" /\ lock = NoHandler
    /\ lock' = h
    /\ hpc' = [hpc EXCEPT ![h] = "scanning"]
    /\ IF hreq[h] \in Writes
         THEN todo' = [todo EXCEPT ![h] = <<0>>] /\ UNCHANGED cursor
         ELSE /\ todo' = [todo EXCEPT ![h] = RoundRobin(cursor)]
              /\ cursor' = (cursor + 1) % Q
    /\ UNCHANGED <<queue, down, hreq, comp, told>> /\ UNCHANGED wvars /\ UNCHANGED pvars

ItemOf(h) == [req |-> hreq[h], comp |-> IF hreq[h] \in Asyncs THEN NoHandler ELSE h]

Wake(q) == IF wpc[q] = "asleep" THEN [wpc EXCEPT ![q] = "checking"] ELSE wpc

\* Mutant: push without testing single_queue_is_full().
enqueue_push_unchecked(h) ==
    /\ hpc[h] = "scanning" /\ todo[h] # << >>
    /\ queue' = [queue EXCEPT ![Head(todo[h])] = Append(@, ItemOf(h))]
    /\ wpc' = Wake(Head(todo[h]))
    /\ lock' = NoHandler
    /\ todo' = [todo EXCEPT ![h] = << >>]
    /\ hpc' = [hpc EXCEPT ![h] = IF hreq[h] \in Asyncs THEN "accepted" ELSE "checking"]
    /\ UNCHANGED <<cursor, down, hreq, comp, told, witem, executed>> /\ UNCHANGED pvars

\* Mutant: no pthread_cond_signal() after the push.
enqueue_push_silent(h) ==
    /\ hpc[h] = "scanning" /\ todo[h] # << >>
    /\ Len(queue[Head(todo[h])]) < Depth
    /\ queue' = [queue EXCEPT ![Head(todo[h])] = Append(@, ItemOf(h))]
    /\ lock' = NoHandler
    /\ todo' = [todo EXCEPT ![h] = << >>]
    /\ hpc' = [hpc EXCEPT ![h] = IF hreq[h] \in Asyncs THEN "accepted" ELSE "checking"]
    /\ UNCHANGED <<cursor, down, hreq, comp, told, wpc, witem, executed>> /\ UNCHANGED pvars

\* The next queue has room: push, signal not_empty, drop enqueue_mutex.
enqueue_push(h) ==
    /\ hpc[h] = "scanning" /\ todo[h] # << >>
    /\ LET q == Head(todo[h])
       IN  /\ Len(queue[q]) < Depth
           /\ queue' = [queue EXCEPT ![q] = Append(@, ItemOf(h))]
           /\ wpc' = Wake(q)
    /\ lock' = NoHandler
    /\ todo' = [todo EXCEPT ![h] = << >>]
    /\ hpc' = [hpc EXCEPT ![h] = IF hreq[h] \in Asyncs THEN "accepted" ELSE "checking"]
    /\ UNCHANGED <<cursor, down, hreq, comp, told, witem, executed>> /\ UNCHANGED pvars

\* The next queue is full, and another one is left to try.
enqueue_overflow(h) ==
    /\ hpc[h] = "scanning" /\ Len(todo[h]) > 1
    /\ Len(queue[Head(todo[h])]) >= Depth
    /\ todo' = [todo EXCEPT ![h] = Tail(@)]
    /\ UNCHANGED <<lock, hpc, hreq, comp, told>> /\ UNCHANGED qvars
    /\ UNCHANGED wvars /\ UNCHANGED pvars

\* Every eligible queue was full: return -1, the request is freed.
enqueue_full(h) ==
    /\ hpc[h] = "scanning" /\ Len(todo[h]) <= 1
    /\ todo[h] # << >> => Len(queue[Head(todo[h])]) >= Depth
    /\ lock' = NoHandler
    /\ todo' = [todo EXCEPT ![h] = << >>]
    /\ hpc' = [hpc EXCEPT ![h] = "refused"]
    /\ UNCHANGED <<hreq, comp, told>> /\ UNCHANGED qvars /\ UNCHANGED wvars /\ UNCHANGED pvars

\* Mutant: one wait without the loop, so a spurious wakeup ends it.
await_completion_no_loop(h) ==
    /\ hpc[h] = "checking"
    /\ hpc' = [hpc EXCEPT ![h] = "completed"]
    /\ UNCHANGED <<lock, hreq, todo, comp, told>> /\ UNCHANGED qvars
    /\ UNCHANGED wvars /\ UNCHANGED pvars

\* while (!completion.done) pthread_cond_wait(...)
await_completion(h) ==
    /\ hpc[h] = "checking"
    /\ hpc' = [hpc EXCEPT ![h] = IF comp[h].done THEN "completed" ELSE "asleep"]
    /\ UNCHANGED <<lock, hreq, todo, comp, told>> /\ UNCHANGED qvars
    /\ UNCHANGED wvars /\ UNCHANGED pvars

\* The HTTP response goes out: result, QUEUE_FULL or 202.
respond(h) ==
    /\ hpc[h] \in {"completed", "refused", "accepted"}
    /\ told' = [told EXCEPT ![hreq[h]] =
                  CASE hpc[h] = "refused"   -> "busy"
                    [] hpc[h] = "accepted"  -> "accepted"
                    [] hpc[h] = "completed" ->
                         IF comp[h].resp = hreq[h] THEN "result" ELSE "foreign"]
    /\ hpc' = [hpc EXCEPT ![h] = "idle"]
    /\ hreq' = [hreq EXCEPT ![h] = NoRequest]
    /\ UNCHANGED <<lock, todo, comp>> /\ UNCHANGED qvars /\ UNCHANGED wvars /\ UNCHANGED pvars

-----------------------------------------------------------------------------
(* A worker thread                                                          *)

\* get_session(); without a session the thread returns at once.
worker_start(q) ==
    /\ wpc[q] = "starting"
    /\ \/ wpc' = [wpc EXCEPT ![q] = "checking"]
       \/ WorkersMayFail /\ wpc' = [wpc EXCEPT ![q] = "failed"]
    /\ UNCHANGED <<witem, executed>> /\ UNCHANGED qvars /\ UNCHANGED hvars /\ UNCHANGED pvars

\* Mutant: after the shutdown signal the remaining requests are not served.
dequeue_pop_undrained(q) ==
    /\ wpc[q] = "checking"
    /\ queue[q] # << >> \/ down
    /\ IF down THEN wpc' = [wpc EXCEPT ![q] = "exited"] /\ UNCHANGED <<witem, queue>>
               ELSE /\ witem' = [witem EXCEPT ![q] = Head(queue[q])]
                    /\ queue' = [queue EXCEPT ![q] = Tail(@)]
                    /\ wpc' = [wpc EXCEPT ![q] = "running"]
    /\ UNCHANGED <<cursor, down, executed>> /\ UNCHANGED hvars /\ UNCHANGED pvars

\* queue_manager_dequeue_blocking(): pop if there is work, even after the
\* shutdown signal ...
dequeue_pop(q) ==
    /\ wpc[q] = "checking" /\ queue[q] # << >>
    /\ witem' = [witem EXCEPT ![q] = Head(queue[q])]
    /\ queue' = [queue EXCEPT ![q] = Tail(@)]
    /\ wpc' = [wpc EXCEPT ![q] = "running"]
    /\ UNCHANGED <<cursor, down, executed>> /\ UNCHANGED hvars /\ UNCHANGED pvars

\* ... otherwise leave after the signal (releasing the session), or sleep.
dequeue_empty(q) ==
    /\ wpc[q] = "checking" /\ queue[q] = << >>
    /\ wpc' = [wpc EXCEPT ![q] = IF down THEN "exited" ELSE "asleep"]
    /\ UNCHANGED <<witem, executed>> /\ UNCHANGED qvars /\ UNCHANGED hvars /\ UNCHANGED pvars

\* process_xml_file() has run.
process(q) ==
    /\ wpc[q] = "running"
    /\ executed' = executed \cup {witem[q].req}
    /\ wpc' = [wpc EXCEPT ![q] = "completing"]
    /\ UNCHANGED witem /\ UNCHANGED qvars /\ UNCHANGED hvars /\ UNCHANGED pvars

\* Mutant: the response is stored, but done is set without a signal.
complete_silent(q) ==
    /\ wpc[q] = "completing"
    /\ LET h == witem[q].comp
       IN  IF h = NoHandler
             THEN UNCHANGED comp
             ELSE comp' = [comp EXCEPT ![h] = [done |-> TRUE, resp |-> witem[q].req]]
    /\ wpc' = [wpc EXCEPT ![q] = "checking"]
    /\ witem' = [witem EXCEPT ![q] = NoItem]
    /\ UNCHANGED <<lock, hpc, hreq, todo, told, executed>> /\ UNCHANGED qvars /\ UNCHANGED pvars

\* Under the completion's mutex: store the response, set done, signal.
complete(q) ==
    /\ wpc[q] = "completing"
    /\ LET h == witem[q].comp
       IN  IF h = NoHandler
             THEN UNCHANGED <<comp, hpc>>
             ELSE /\ comp' = [comp EXCEPT ![h] = [done |-> TRUE, resp |-> witem[q].req]]
                  /\ hpc' = IF hpc[h] = "asleep" THEN [hpc EXCEPT ![h] = "checking"] ELSE hpc
    /\ wpc' = [wpc EXCEPT ![q] = "checking"]
    /\ witem' = [witem EXCEPT ![q] = NoItem]
    /\ UNCHANGED <<lock, hreq, todo, told, executed>> /\ UNCHANGED qvars /\ UNCHANGED pvars

\* POSIX allows pthread_cond_wait() to return without a signal.
spurious_wakeups ==
    /\ \/ \E q \in Queues : wpc[q] = "asleep" /\ wpc' = [wpc EXCEPT ![q] = "checking"]
                             /\ UNCHANGED hpc
       \/ \E h \in Handlers : hpc[h] = "asleep" /\ hpc' = [hpc EXCEPT ![h] = "checking"]
                               /\ UNCHANGED wpc
    /\ UNCHANGED <<lock, hreq, todo, comp, told, witem, executed>>
    /\ UNCHANGED qvars /\ UNCHANGED pvars

-----------------------------------------------------------------------------
(* stop_daemon_once(): MHD first, then the pool                             *)

\* The lifetime elapsed, or main() asked: MHD takes no new requests ...
stop_begin ==
    /\ stop = "serving"
    /\ stop' = "draining"
    /\ UNCHANGED signalled /\ UNCHANGED qvars /\ UNCHANGED hvars /\ UNCHANGED wvars

\* ... and MHD_stop_daemon() returns once its threads have left the handler.
mhd_stopped ==
    /\ stop = "draining" /\ \A h \in Handlers : hpc[h] = "idle"
    /\ stop' = "signalling"
    /\ UNCHANGED signalled /\ UNCHANGED qvars /\ UNCHANGED hvars /\ UNCHANGED wvars

\* queue_manager_shutdown(): per queue, flag and broadcast under its mutex.
shutdown_queue ==
    /\ stop = "signalling" /\ signalled # Queues
    /\ LET q == Cardinality(signalled)
       IN  signalled' = signalled \cup {q} /\ wpc' = Wake(q)
    /\ down' = TRUE
    /\ UNCHANGED <<stop, queue, cursor, witem, executed>> /\ UNCHANGED hvars

\* Every worker joined: queue_manager_destroy() frees what is still queued.
join_and_destroy ==
    /\ stop = "signalling" /\ signalled = Queues
    /\ \A q \in Queues : wpc[q] \in {"exited", "failed"}
    /\ stop' = "destroyed"
    /\ queue' = [q \in Queues |-> << >>]
    /\ UNCHANGED <<signalled, cursor, down>> /\ UNCHANGED hvars /\ UNCHANGED wvars

Destroyed == stop = "destroyed" /\ UNCHANGED dvars

HandlerStep(h) ==
    \/ enqueue_begin(h) \/ enqueue_push(h) \/ enqueue_overflow(h) \/ enqueue_full(h)
    \/ await_completion(h) \/ respond(h)

WorkerStep(q) ==
    worker_start(q) \/ dequeue_pop(q) \/ dequeue_empty(q) \/ process(q) \/ complete(q)

StopStep == mhd_stopped \/ shutdown_queue \/ join_and_destroy

DNext ==
    \/ \E h \in Handlers :
         \/ HandlerStep(h)
         \/ \E r \in Requests : handle_request(h, r) \/ reject_request(h, r)
    \/ \E q \in Queues : WorkerStep(q)
    \/ spurious_wakeups
    \/ stop_begin \/ StopStep
    \/ Destroyed

\* Threads that can run do run, and pthread_mutex_lock() is not starved;
\* whether clients send anything, or anyone asks for a stop, is open.
DFairness ==
    /\ \A h \in Handlers : WF_dvars(HandlerStep(h)) /\ SF_dvars(enqueue_begin(h))
    /\ \A q \in Queues : WF_dvars(WorkerStep(q))
    /\ WF_dvars(StopStep)

DSpec == DInit /\ [][DNext]_dvars /\ DFairness

-----------------------------------------------------------------------------
(* The abstract service this implements                                     *)

Queued(r) == \E q \in Queues : \E i \in 1 .. Len(queue[q]) : queue[q][i].req = r
Running(r) == \E q \in Queues : wpc[q] = "running" /\ witem[q].req = r
Refused(r) == told[r] \in {"busy", "error"} \/ \E h \in Handlers : hreq[h] = r /\ hpc[h] = "refused"

StatusOf(r) ==
    CASE Queued(r)      -> "queued"
      [] Running(r)     -> "running"
      [] r \in executed -> "done"
      [] Refused(r)     -> "refused"
      [] stop = "destroyed" /\ told[r] = "accepted" /\ r \notin executed -> "dropped"
      [] OTHER          -> "new"

\* The writer's current request, then what waits in queue 0.
WriteOrder ==
    (IF wpc[0] = "running" THEN <<witem[0].req>> ELSE << >>)
    \o [i \in 1 .. Len(queue[0]) |-> queue[0][i].req]

\* A worker that got no session at startup: its queue stays open, unserved.
Degraded == \E q \in Queues : wpc[q] = "failed"

Service == INSTANCE RequestService
    WITH status <- [r \in Requests |-> StatusOf(r)], order <- WriteOrder, reply <- told,
         degraded <- Degraded

-----------------------------------------------------------------------------
(* Properties                                                               *)

\* The dispatcher's state has the shape of the C structures.
DTypeOK ==
    /\ queue \in [Queues -> Seq(Items)] /\ \A q \in Queues : Len(queue[q]) <= Depth
    /\ cursor \in Queues /\ down \in BOOLEAN
    /\ lock \in Handlers \cup {NoHandler}
    /\ hpc \in [Handlers -> {"idle", "locking", "scanning", "checking", "asleep",
                             "completed", "refused", "accepted"}]
    /\ hreq \in [Handlers -> Requests \cup {NoRequest}]
    /\ todo \in [Handlers -> Seq(Queues)]
    /\ comp \in [Handlers -> [done : BOOLEAN, resp : Requests \cup {NoRequest}]]
    /\ wpc \in [Queues -> {"starting", "failed", "checking", "asleep", "running",
                           "completing", "exited"}]
    /\ witem \in [Queues -> Items \cup {NoItem}]
    /\ executed \in SUBSET Requests
    /\ told \in [Requests -> {"none", "error", "busy", "accepted", "result", "foreign"}]
    /\ stop \in {"serving", "draining", "signalling", "destroyed"}
    /\ signalled \in SUBSET Queues

\* The clients see the service of RequestService: every accepted request is
\* executed once and answered with its own result, writes run one at a time
\* in the order of acceptance, and QUEUE_FULL is said only at capacity.
ImplementsService == Service!SSpec

\* The completion object on a handler's stack exists, and is not yet done,
\* for as long as a queued or running request points at it.
CompletionAlive ==
    \A h \in Handlers, q \in Queues :
      LET Points == \/ witem[q].comp = h
                    \/ \E i \in 1 .. Len(queue[q]) : queue[q][i].comp = h
      IN  Points => hpc[h] \in {"checking", "asleep"} /\ ~comp[h].done

\* No wakeup is lost: a worker sleeps only on an empty queue that has not
\* been shut down, a handler only while its result is missing.
NoLostWakeup ==
    /\ \A q \in Queues : wpc[q] = "asleep" => queue[q] = << >> /\ q \notin signalled
    /\ \A h \in Handlers : hpc[h] = "asleep" => ~comp[h].done

\* With every worker running, a handler that sent its request to a worker
\* gets out of dispatch().
EveryDispatchReturns ==
    \A h \in Handlers : hpc[h] \in {"checking", "asleep"} ~> (hpc[h] = "idle" \/ Degraded)

\* Once stopping has begun, MHD and every worker end, and no accepted request
\* (asynchronous ones included) is freed unexecuted, if every worker ran.
StopCompletes ==
    stop = "draining" ~>
      \/ stop = "destroyed" /\ \A r \in Requests : told[r] \in {"accepted", "result"} => r \in executed
      \/ Degraded
=============================================================================
