----------------------------- MODULE Background -----------------------------
(***************************************************************************)
(* The threads behind the requests, and main() which starts and stops      *)
(* them: the metrics file writer, the metrics DB writer and the Session    *)
(* Manager thread, each fed by a generic_queue; beside them the workers    *)
(* and the consumer (File Consumer thread or HTTP listener), which execute *)
(* requests and so produce metrics records and activity reports.           *)
(*                                                                         *)
(* A queued item is only counted.  Which worker queue a request waits in   *)
(* is FileIntake's and HttpDispatch's subject; here it is the backlog.     *)
(* Every request yields one metrics record per destination.                *)
(***************************************************************************)
EXTENDS Integers, FiniteSets

CONSTANTS
    Workers,        \* worker threads
    Depth,          \* METRICS_QUEUE_DEPTH, SESSION_TOUCH_QUEUE_DEPTH
    PerWrite,       \* metrics_per_write: records per batch
    MaxRequests,    \* bound: requests that arrive
    MaxPasses       \* bound: measured operations beside the requests

ASSUME BackgroundAssumption ==
    /\ Depth \in Nat \ {0} /\ PerWrite \in Nat \ {0}
    /\ MaxRequests \in Nat /\ MaxPasses \in Nat
    /\ Workers \cap {"consumer", "runner", "filew", "dbw"} = {}

Queues  == {"touch", "file", "db"}
Threads == Workers \cup {"consumer", "runner", "filew", "dbw"}

\* The one thread that dequeues from each queue.
Taker(q) == IF q = "touch" THEN "runner" ELSE IF q = "file" THEN "filew" ELSE "dbw"

VARIABLES
    mode,       \* consumer_type
    main,       \* where main() is; "exit": it returned having stopped what it
                \* started, "halted": it returned at once
    pc,         \* where each thread is: "file", "db", "touch" name the queue
                \* it enqueues to next, "gather", "nap", "flush", "flush_last"
                \* are the DB writer's batch
    queue,      \* per queue: "absent", "open" or "freed", items, shutting_down
    batch,      \* records the DB writer has dequeued and not yet inserted
    backlog,    \* requests queued to the workers
    draining,   \* the workers' queues are shutting down
    pools,      \* connected session pools
    requests, passes,
    accepted,   \* ghost: items each queue has accepted
    handled     \* ghost: items its thread is done with

vars == <<mode, main, pc, queue, batch, backlog, draining, pools, requests, passes,
          accepted, handled>>

Init ==
    /\ mode \in {"FILE", "HTTP"}
    /\ main = "metrics"
    /\ pc = [t \in Threads |-> "none"]
    /\ queue = [q \in Queues |-> [state |-> "absent", items |-> 0, shut |-> FALSE]]
    /\ batch = 0 /\ backlog = 0 /\ draining = FALSE
    /\ pools = {"business"}
    /\ requests = 0 /\ passes = 0
    /\ accepted = [q \in Queues |-> 0] /\ handled = [q \in Queues |-> 0]

Gone(t) == pc[t] \in {"none", "ended", "dead"}

-----------------------------------------------------------------------------
(* generic_queue.c                                                          *)

Opened == [state |-> "open", items |-> 0, shut |-> FALSE]

\* A thread that waits on the queue's condition variable goes on.
Awake(t) == IF pc[t] = "sleep" THEN "run" ELSE IF pc[t] = "nap" THEN "gather" ELSE pc[t]

\* Mutants: a full queue still takes the item; no signal.
Enqueue_unbounded(t, q, next) ==
    /\ pc[t] = q
    /\ IF queue[q].state = "open"
         THEN /\ queue' = [queue EXCEPT ![q].items = @ + 1]
              /\ accepted' = [accepted EXCEPT ![q] = @ + 1]
              /\ pc' = [pc EXCEPT ![Taker(q)] = Awake(Taker(q)), ![t] = next]
         ELSE pc' = [pc EXCEPT ![t] = next] /\ UNCHANGED <<queue, accepted>>

Enqueue_silent(t, q, next) ==
    /\ pc[t] = q
    /\ IF queue[q].state = "open" /\ queue[q].items < Depth
         THEN /\ queue' = [queue EXCEPT ![q].items = @ + 1]
              /\ accepted' = [accepted EXCEPT ![q] = @ + 1]
         ELSE UNCHANGED <<queue, accepted>>
    /\ pc' = [pc EXCEPT ![t] = next]

\* generic_queue_enqueue(): without a queue, or with a full one, the item is
\* dropped; shutting_down is not looked at.
Enqueue(t, q, next) ==
    /\ pc[t] = q
    /\ IF queue[q].state = "open" /\ queue[q].items < Depth
         THEN /\ queue' = [queue EXCEPT ![q].items = @ + 1]
              /\ accepted' = [accepted EXCEPT ![q] = @ + 1]
              /\ pc' = [pc EXCEPT ![Taker(q)] = Awake(Taker(q)), ![t] = next]
         ELSE pc' = [pc EXCEPT ![t] = next] /\ UNCHANGED <<queue, accepted>>

\* The same by main() itself, in the self-test.
Record(q) ==
    IF queue[q].state = "open" /\ queue[q].items < Depth
      THEN /\ queue' = [queue EXCEPT ![q].items = @ + 1]
           /\ accepted' = [accepted EXCEPT ![q] = @ + 1]
           /\ pc' = [pc EXCEPT ![Taker(q)] = Awake(Taker(q))]
      ELSE UNCHANGED <<queue, accepted, pc>>

\* generic_queue_dequeue_blocking(), the three ways it can go.
Pop(q)       == queue[q].items > 0 /\ queue' = [queue EXCEPT ![q].items = @ - 1]
Finished(q)  == queue[q].items = 0 /\ queue[q].shut
MustWait(q)  == queue[q].items = 0 /\ ~queue[q].shut

\* Mutant: no broadcast.
Shutdown_silent(q) == queue' = [queue EXCEPT ![q].shut = TRUE] /\ UNCHANGED pc

\* generic_queue_shutdown(): the flag, and a broadcast.
Shutdown(q) ==
    /\ queue' = [queue EXCEPT ![q].shut = TRUE]
    /\ pc' = [pc EXCEPT ![Taker(q)] = Awake(Taker(q))]

\* generic_queue_destroy(): whatever is still queued is freed.
Destroyed(Q) ==
    [q \in Queues |-> IF q \in Q /\ queue[q].state = "open"
                        THEN [queue[q] EXCEPT !.state = "freed", !.items = 0] ELSE queue[q]]

-----------------------------------------------------------------------------
(* Requests: workers and consumer                                           *)

KeepMain    == UNCHANGED <<mode, main, draining, pools>>
KeepRequest == UNCHANGED <<backlog, requests, passes>>

\* get_session(); a thread that gets none ends at once.
borrow(t) ==
    /\ pc[t] = "start"
    /\ \E got \in {"run", "dead"} : pc' = [pc EXCEPT ![t] = got]
    /\ KeepMain /\ KeepRequest /\ UNCHANGED <<queue, batch, accepted, handled>>

\* A request comes in: a file that was enqueued, or an HTTP request.
arrive ==
    /\ pc["consumer"] = "run" /\ requests < MaxRequests
    /\ requests' = requests + 1 /\ backlog' = backlog + 1
    /\ KeepMain /\ UNCHANGED <<pc, queue, batch, passes, accepted, handled>>

\* ensure_valid_session(): an expired session is replaced by an INSERT, which
\* is measured like any other.
renew_session ==
    /\ mode = "FILE" /\ pc["consumer"] = "run" /\ passes < MaxPasses
    /\ pc' = [pc EXCEPT !["consumer"] = "file"] /\ passes' = passes + 1
    /\ KeepMain /\ UNCHANGED <<queue, batch, backlog, requests, accepted, handled>>

\* The lifetime is over, or a stop was requested.
consumer_ends ==
    /\ pc["consumer"] = "run"
    /\ pc' = [pc EXCEPT !["consumer"] = "ended"]
    /\ KeepMain /\ KeepRequest /\ UNCHANGED <<queue, batch, accepted, handled>>

take_request(w) ==
    /\ pc[w] = "run" /\ backlog > 0
    /\ backlog' = backlog - 1 /\ pc' = [pc EXCEPT ![w] = "file"]
    /\ KeepMain /\ UNCHANGED <<queue, batch, requests, passes, accepted, handled>>

worker_ends(w) ==
    /\ pc[w] = "run" /\ backlog = 0 /\ draining
    /\ pc' = [pc EXCEPT ![w] = "ended"]
    /\ KeepMain /\ KeepRequest /\ UNCHANGED <<queue, batch, accepted, handled>>

\* metrics_finalise_and_enqueue(): a copy to each destination, one by one; a
\* File worker then reports the session's activity.
produce(t) ==
    /\ \/ Enqueue(t, "file", "db")
       \/ Enqueue(t, "db", IF t \in Workers /\ mode = "FILE" THEN "touch" ELSE "run")
       \/ Enqueue(t, "touch", "run")
    /\ handled' = IF t = "runner" /\ pc[t] = "db"
                    THEN [handled EXCEPT !["touch"] = @ + 1] ELSE handled
    /\ KeepMain /\ KeepRequest /\ UNCHANGED batch

-----------------------------------------------------------------------------
(* The three background threads                                             *)

\* session_manager_runner.c and the file writer: one item at a time until the
\* queue is empty and shutting down.  Touching the table is an UPDATE, which
\* is measured.
service_next(q) ==
    LET t == Taker(q)
    IN  /\ q \in {"touch", "file"} /\ pc[t] = "run"
        /\ \/ Pop(q) /\ pc' = [pc EXCEPT ![t] = IF q = "touch" THEN "file" ELSE "run"]
              /\ handled' = IF q = "file" THEN [handled EXCEPT ![q] = @ + 1] ELSE handled
           \/ Finished(q) /\ pc' = [pc EXCEPT ![t] = "ended"] /\ UNCHANGED <<queue, handled>>
           \/ MustWait(q) /\ pc' = [pc EXCEPT ![t] = "sleep"] /\ UNCHANGED <<queue, handled>>
        /\ KeepMain /\ KeepRequest /\ UNCHANGED <<batch, accepted>>

Collected(n) == IF n < PerWrite THEN "gather" ELSE "flush"

\* The first record of a batch is waited for without a limit.
batch_first ==
    /\ pc["dbw"] = "run"
    /\ \/ Pop("db") /\ batch' = 1 /\ pc' = [pc EXCEPT !["dbw"] = Collected(1)]
       \/ Finished("db") /\ pc' = [pc EXCEPT !["dbw"] = "ended"] /\ UNCHANGED <<queue, batch>>
       \/ MustWait("db") /\ pc' = [pc EXCEPT !["dbw"] = "sleep"] /\ UNCHANGED <<queue, batch>>
    /\ KeepMain /\ KeepRequest /\ UNCHANGED <<accepted, handled>>

\* Mutant: a batch that meets the shutdown is dropped.
batch_more_unflushed ==
    /\ pc["dbw"] = "gather"
    /\ \/ Pop("db") /\ batch' = batch + 1 /\ pc' = [pc EXCEPT !["dbw"] = Collected(batch + 1)]
       \/ Finished("db") /\ pc' = [pc EXCEPT !["dbw"] = "ended"] /\ UNCHANGED <<queue, batch>>
       \/ MustWait("db") /\ pc' = [pc EXCEPT !["dbw"] = "nap"] /\ UNCHANGED <<queue, batch>>
       \/ pc' = [pc EXCEPT !["dbw"] = "flush"] /\ UNCHANGED <<queue, batch>>
    /\ KeepMain /\ KeepRequest /\ UNCHANGED <<accepted, handled>>

\* Further ones until the batch is full, the deadline has passed, or the
\* queue is empty and shutting down: that batch is the last.
batch_more ==
    /\ pc["dbw"] = "gather"
    /\ \/ Pop("db") /\ batch' = batch + 1 /\ pc' = [pc EXCEPT !["dbw"] = Collected(batch + 1)]
       \/ Finished("db") /\ pc' = [pc EXCEPT !["dbw"] = "flush_last"] /\ UNCHANGED <<queue, batch>>
       \/ MustWait("db") /\ pc' = [pc EXCEPT !["dbw"] = "nap"] /\ UNCHANGED <<queue, batch>>
       \/ pc' = [pc EXCEPT !["dbw"] = "flush"] /\ UNCHANGED <<queue, batch>>
    /\ KeepMain /\ KeepRequest /\ UNCHANGED <<accepted, handled>>

\* The timed wait ends at the deadline; an item that came in the same instant
\* is taken.
batch_timeout ==
    /\ pc["dbw"] = "nap"
    /\ \/ Pop("db") /\ batch' = batch + 1 /\ pc' = [pc EXCEPT !["dbw"] = Collected(batch + 1)]
       \/ Finished("db") /\ pc' = [pc EXCEPT !["dbw"] = "flush_last"] /\ UNCHANGED <<queue, batch>>
       \/ MustWait("db") /\ pc' = [pc EXCEPT !["dbw"] = "flush"] /\ UNCHANGED <<queue, batch>>
    /\ KeepMain /\ KeepRequest /\ UNCHANGED <<accepted, handled>>

\* metrics_db_bulk_insert(): rows that fail are skipped and a commit that
\* fails is rolled back; the batch is freed in any case.
flush ==
    /\ pc["dbw"] \in {"flush", "flush_last"}
    /\ handled' = [handled EXCEPT !["db"] = @ + batch] /\ batch' = 0
    /\ pc' = [pc EXCEPT !["dbw"] = IF pc["dbw"] = "flush" THEN "run" ELSE "ended"]
    /\ KeepMain /\ KeepRequest /\ UNCHANGED <<queue, accepted>>

\* pthread_cond_wait() may return without a signal, and the condition is
\* tested again (the timed wait does that within its own loop: no step).
spurious_wakeup(t) ==
    /\ pc[t] = "sleep" /\ pc' = [pc EXCEPT ![t] = "run"]
    /\ KeepMain /\ KeepRequest /\ UNCHANGED <<queue, batch, accepted, handled>>

-----------------------------------------------------------------------------
(* main()                                                                   *)

KeepWork == UNCHANGED <<mode, batch, requests, passes, accepted, handled>>

\* metrics_db_fail_force_shutdown = 1 and no metrics pool: main() returns.
refuse_start ==
    /\ main = "metrics" /\ main' = "halted"
    /\ KeepWork /\ UNCHANGED <<pc, queue, backlog, draining, pools>>

\* metrics_writer_start(): each destination that is enabled and whose thread
\* could be created; the DB destination has a pool of its own.
start_metrics ==
    /\ main = "metrics"
    /\ \E on \in SUBSET {"file", "db"}, linked \in BOOLEAN :
         /\ "db" \in on => linked
         /\ pools' = IF linked THEN pools \cup {"metrics"} ELSE pools
         /\ queue' = [q \in Queues |-> IF q \in on THEN Opened ELSE queue[q]]
         /\ pc' = [pc EXCEPT !["filew"] = IF "file" \in on THEN "run" ELSE @,
                             !["dbw"]   = IF "db" \in on THEN "start" ELSE @]
    /\ main' = "self_test"
    /\ KeepWork /\ UNCHANGED <<backlog, draining>>

\* unit_test_run_all(), whose operations are measured.
self_test(q) ==
    /\ main = "self_test" /\ passes < MaxPasses
    /\ passes' = passes + 1 /\ Record(q)
    /\ UNCHANGED <<mode, main, batch, backlog, draining, pools, requests, handled>>

\* A failed test of a halting tier makes main() return, with nothing stopped or
\* disconnected.  Otherwise (no self-test, or none that halts) there may be no
\* input directory, no session or no worker queues to go on with.
end_self_test ==
    /\ main = "self_test"
    /\ main' \in {IF mode = "FILE" THEN "start_runner" ELSE "start_workers", "stop_file", "halted"}
    /\ KeepWork /\ UNCHANGED <<pc, queue, backlog, draining, pools>>

\* The touch queue and its thread; the program goes on without either.
start_runner ==
    /\ main = "start_runner" /\ main' = "start_workers"
    /\ \/ UNCHANGED <<queue, pc>>
       \/ /\ queue' = [queue EXCEPT !["touch"] = Opened]
          /\ \E up \in {"start", "none"} : pc' = [pc EXCEPT !["runner"] = up]
    /\ KeepWork /\ UNCHANGED <<backlog, draining, pools>>

\* worker_pool_start(): all workers, or those that did start are shut down and
\* joined.  (http_worker_pool_start() does not notice a missing thread.)
start_workers ==
    /\ main = "start_workers"
    /\ \E some \in SUBSET Workers :
         /\ mode = "HTTP" => some = Workers
         /\ pc' = [t \in Threads |-> IF t \in some THEN "start" ELSE pc[t]]
         /\ draining' = (some # Workers)
         /\ main' = IF some = Workers THEN "start_consumer" ELSE "join_workers"
    /\ KeepWork /\ UNCHANGED <<queue, backlog, pools>>

\* The File Consumer thread, or the HTTP listener; if it cannot be started
\* the workers are joined and, in the FILE branch, the Session Manager thread
\* is left alone.
start_consumer ==
    /\ main = "start_consumer"
    /\ \/ /\ pc' = [pc EXCEPT !["consumer"] = IF mode = "FILE" THEN "start" ELSE "run"]
          /\ main' = "serve" /\ UNCHANGED draining
       \/ main' = "abandon_workers" /\ draining' = TRUE /\ UNCHANGED pc
    /\ KeepWork /\ UNCHANGED <<queue, backlog, pools>>

\* file_consumer_runner_join(), then the shutdown half of
\* worker_pool_shutdown_and_join().
join_consumer ==
    /\ main = "serve" /\ Gone("consumer")
    /\ main' = "join_workers" /\ draining' = TRUE
    /\ KeepWork /\ UNCHANGED <<pc, queue, backlog, pools>>

\* Mutant: the Session Manager thread is not stopped after the workers.
AfterWorkers_metrics == "stop_file"

AfterWorkers == IF mode = "FILE" /\ main = "join_workers" THEN "stop_runner" ELSE "stop_file"

\* Requests left to workers that got no session are freed with their queues.
join_workers ==
    /\ main \in {"join_workers", "abandon_workers"} /\ \A w \in Workers : Gone(w)
    /\ main' = AfterWorkers /\ backlog' = 0
    /\ KeepWork /\ UNCHANGED <<pc, queue, draining, pools>>

\* Signal a thread's queue, if the thread was ever created; then join it.
StopThread(q, here, there) ==
    /\ main = here
    /\ IF pc[Taker(q)] = "none" THEN UNCHANGED <<pc, queue>> ELSE Shutdown(q)
    /\ main' = there
    /\ KeepWork /\ UNCHANGED <<backlog, draining, pools>>

\* Mutant: the thread is not waited for.
JoinThread_detached(q, here, there) ==
    /\ main = here /\ main' = there
    /\ KeepWork /\ UNCHANGED <<pc, queue, backlog, draining, pools>>

JoinThread(q, here, there) ==
    /\ main = here /\ Gone(Taker(q))
    /\ main' = there
    /\ KeepWork /\ UNCHANGED <<pc, queue, backlog, draining, pools>>

FreeQueues(Q, here, there) ==
    /\ main = here /\ queue' = Destroyed(Q)
    /\ main' = there
    /\ KeepWork /\ UNCHANGED <<pc, backlog, draining, pools>>

\* session_manager_runner_stop_and_join() and generic_queue_destroy(touch_q)
stop_runner ==
    \/ StopThread("touch", "stop_runner", "join_runner")
    \/ JoinThread("touch", "join_runner", "free_touch")
    \/ FreeQueues({"touch"}, "free_touch", "stop_file")

\* metrics_writer_stop_and_join()
stop_metrics ==
    \/ StopThread("file", "stop_file", "join_file")
    \/ JoinThread("file", "join_file", "stop_db")
    \/ StopThread("db", "stop_db", "join_db")
    \/ JoinThread("db", "join_db", "free_metrics")
    \/ FreeQueues({"file", "db"}, "free_metrics", "disconnect")

\* shutdown_metrics_pool(), driver->disconnect(), return.
disconnect ==
    \/ /\ main = "disconnect" /\ "metrics" \in pools /\ pools' = pools \ {"metrics"}
       /\ UNCHANGED main
       /\ KeepWork /\ UNCHANGED <<pc, queue, backlog, draining>>
    \/ /\ main = "disconnect" /\ "metrics" \notin pools /\ pools' = {}
       /\ main' = "return"
       /\ KeepWork /\ UNCHANGED <<pc, queue, backlog, draining>>
    \/ /\ main = "return" /\ main' = "exit"
       /\ KeepWork /\ UNCHANGED <<pc, queue, backlog, draining, pools>>

-----------------------------------------------------------------------------

MainStep ==
    \/ refuse_start \/ start_metrics \/ (\E q \in {"file", "db"} : self_test(q)) \/ end_self_test
    \/ start_runner \/ start_workers \/ start_consumer
    \/ join_consumer \/ join_workers \/ stop_runner \/ stop_metrics \/ disconnect

\* main() has returned, and the process takes every thread along.
Returned == main \in {"exit", "halted"}

\* What a thread does of its own accord.
ThreadStep(t) ==
    /\ ~Returned
    /\ \/ borrow(t) \/ produce(t)
       \/ t \in Workers /\ (take_request(t) \/ worker_ends(t))
       \/ \E q \in Queues : t = Taker(q) /\ service_next(q)
       \/ t = "dbw" /\ (batch_first \/ batch_more \/ batch_timeout \/ flush)

Environment ==
    /\ ~Returned
    /\ arrive \/ renew_session \/ consumer_ends \/ \E t \in Threads : spurious_wakeup(t)

Exited == Returned /\ UNCHANGED vars

Next == MainStep \/ (\E t \in Threads : ThreadStep(t)) \/ Environment \/ Exited

\* Every thread is scheduled, and its database and file calls return; the
\* consumer may run for ever, and nothing needs to arrive.
Spec ==
    /\ Init /\ [][Next]_vars
    /\ WF_vars(MainStep) /\ \A t \in Threads : WF_vars(ThreadStep(t))

-----------------------------------------------------------------------------
(* Properties                                                               *)

\* Threads, queues and batch have the shape of their counterparts: no queue
\* above its depth, no batch above metrics_per_write.
TypeOK ==
    /\ mode \in {"FILE", "HTTP"} /\ pools \subseteq {"business", "metrics"}
    /\ pc \in [Threads -> {"none", "start", "run", "sleep", "file", "db", "touch", "gather",
                           "nap", "flush", "flush_last", "ended", "dead"}]
    /\ queue \in [Queues -> [state : {"absent", "open", "freed"}, items : 0 .. Depth,
                             shut : BOOLEAN]]
    /\ batch \in 0 .. PerWrite /\ backlog \in 0 .. MaxRequests

\* What a queue accepted has been handled by its thread when the queue is
\* destroyed, unless that thread never ran: producers end before the shutdown
\* signal, and the signal abandons neither queued items nor an open batch.
EveryItemSettled ==
    \A q \in Queues :
      queue[q].state = "freed" /\ pc[Taker(q)] = "ended" => handled[q] = accepted[q]

\* Once a queue is freed nobody is about to enqueue to it or waits on it.
NoUseAfterFree ==
    \A q \in Queues :
      queue[q].state = "freed" =>
        /\ Gone(Taker(q))
        /\ \A t \in Threads : pc[t] \notin {"file", "db", "touch"}

\* The File Consumer thread (or HTTP listener) could not be started.
Abandoned == pc["consumer"] = "none" /\ \A w \in Workers : pc[w] # "none"

\* A pool is disconnected after the threads that borrow from it have ended;
\* only a failed start of the consumer leaves the Session Manager thread on.
\* main() returns with a metrics thread running only from the self-test, and
\* then both pools are still connected.
PoolsOutliveBorrowers ==
    /\ "business" \notin pools =>
         /\ \A t \in Workers \cup {"consumer"} : Gone(t)
         /\ Gone("runner") \/ Abandoned
    /\ "metrics" \notin pools => Gone("dbw")
    /\ main = "exit" => Gone("filew") /\ Gone("dbw")

\* A thread that runs catches up with what its queue accepted, also in a
\* process that is never stopped and whose queues then stay quiet; a halt
\* after the self-test does not wait for it.
ItemsHandled ==
    \A q \in Queues :
      (handled[q] < accepted[q] /\ pc[Taker(q)] \notin {"none", "dead"})
        ~> (handled[q] = accepted[q] \/ pc[Taker(q)] = "dead" \/ main = "halted")

\* When the consumer has ended, or the start has failed, the process ends.
StopCompletes ==
    ((main = "serve" /\ Gone("consumer"))
       \/ main \in {"abandon_workers", "join_workers", "stop_file"}) ~> (main = "exit")
=============================================================================
