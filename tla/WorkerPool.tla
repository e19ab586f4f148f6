----------------------------- MODULE WorkerPool -----------------------------
(***************************************************************************)
(* The file-side worker threads of infra/worker.c on top of the session    *)
(* pool: each worker pins one session, drains its own queue, repairs its   *)
(* session after a failed request whose connection turned out to be dead,  *)
(* and gives the session back when the queues are shut down and drained.   *)
(*                                                                         *)
(* Threads are the workers; worker t drains queue t, of which only the     *)
(* length matters here (QueueManager details are in HttpDispatch).         *)
(***************************************************************************)
EXTENDS ConnectionPool

CONSTANT MaxRequests    \* bound: requests enqueued per worker

ASSUME RequestsAssumption == MaxRequests \in Nat

VARIABLES
    wpc,        \* where each worker is in worker_thread_main()
    pending,    \* length of each worker's queue
    arrived,    \* requests ever enqueued for each worker
    answered,   \* requests each worker wrote a response for
    stopping,   \* queue_manager_shutdown() was called
    crashed,    \* the process dereferenced a NULL pointer
    unhealed    \* ghost: some reconnect has failed

wvars == <<wpc, pending, arrived, answered, stopping, crashed, unhealed>>
allvars == <<phase, slots, slotsOpen, pc, ctx,
             wpc, pending, arrived, answered, stopping, crashed, unhealed>>

WInit ==
    /\ Init
    /\ wpc = [t \in Threads |-> "starting"]
    /\ pending = [t \in Threads |-> 0]
    /\ arrived = [t \in Threads |-> 0]
    /\ answered = [t \in Threads |-> 0]
    /\ stopping = FALSE
    /\ crashed = FALSE /\ unhealed = FALSE

Running == ~crashed

Goto(t, label) == wpc' = [wpc EXCEPT ![t] = label]

-----------------------------------------------------------------------------
(* Startup, arrival of work, shutdown                                       *)

StartPool == Connect_pool /\ UNCHANGED wvars

\* The File Consumer hands a request to queue t; it is joined before shutdown.
Enqueue(t) ==
    /\ Running /\ phase = "up" /\ ~stopping
    /\ arrived[t] < MaxRequests
    /\ arrived' = [arrived EXCEPT ![t] = @ + 1]
    /\ pending' = [pending EXCEPT ![t] = @ + 1]
    /\ UNCHANGED <<phase, slots, slotsOpen, pc, ctx, wpc, answered, stopping, crashed, unhealed>>

Shutdown ==
    /\ Running /\ phase = "up" /\ ~stopping
    /\ stopping' = TRUE
    /\ UNCHANGED <<phase, slots, slotsOpen, pc, ctx, wpc, pending, arrived, answered, crashed, unhealed>>

-----------------------------------------------------------------------------
(* Borrowing: once at startup, again inside reconnect_session()             *)

\* Mutant: after a failed reconnect the request is dropped unanswered.
AfterGet_drops(t) ==
    wpc' = [wpc EXCEPT ![t] =
              CASE pc'[t] \in {"held", "idle"} /\ wpc[t] = "healing" -> "draining"
                [] pc'[t] = "held" /\ wpc[t] = "starting"            -> "draining"
                [] pc'[t] = "idle" /\ wpc[t] = "starting"            -> "failed"
                [] OTHER                                             -> wpc[t]]

\* Mutant: after a reconnect the request is executed again, without a limit.
AfterGet_retries(t) ==
    wpc' = [wpc EXCEPT ![t] =
              CASE pc'[t] \in {"held", "idle"} /\ wpc[t] = "healing" -> "processing"
                [] pc'[t] = "held" /\ wpc[t] = "starting"            -> "draining"
                [] pc'[t] = "idle" /\ wpc[t] = "starting"            -> "failed"
                [] OTHER                                             -> wpc[t]]

\* What the worker does with the result of get_session(): a failed start
\* ends the thread, a failed reconnect is logged and the worker carries on.
AfterGet(t) ==
    wpc' = [wpc EXCEPT ![t] =
              CASE pc'[t] = "held" /\ wpc[t] = "starting" -> "draining"
                [] pc'[t] = "held" /\ wpc[t] = "healing"  -> "responding"
                [] pc'[t] = "idle" /\ wpc[t] = "starting" -> "failed"
                [] pc'[t] = "idle" /\ wpc[t] = "healing"  -> "responding"
                [] OTHER                                  -> wpc[t]]

Borrow(t) ==
    /\ Running /\ wpc[t] \in {"starting", "healing"}
    /\ get_session(t)
    /\ AfterGet(t)
    /\ unhealed' = (unhealed \/ (wpc[t] = "healing" /\ pc'[t] = "idle"))
    /\ UNCHANGED <<pending, arrived, answered, stopping, crashed>>

TimeOut(t) ==
    /\ Running /\ get_session_timeout(t)
    /\ AfterGet(t)
    /\ unhealed' = (unhealed \/ (wpc[t] = "healing" /\ pc'[t] = "idle"))
    /\ UNCHANGED <<pending, arrived, answered, stopping, crashed>>

WakeSpuriously(t) == Running /\ spurious_wakeup(t) /\ UNCHANGED wvars

-----------------------------------------------------------------------------
(* The request loop                                                         *)

Dequeue(t) ==
    /\ Running /\ wpc[t] = "draining" /\ pending[t] > 0
    /\ pending' = [pending EXCEPT ![t] = @ - 1]
    /\ Goto(t, "processing")
    /\ UNCHANGED <<phase, slots, slotsOpen, pc, ctx, arrived, answered, stopping, crashed, unhealed>>

\* driver->session_is_alive(): zero handles count as not alive.
session_is_alive(t) == ctx[t].live /\ slots[ctx[t].slot].alive

\* process_xml_file() returned 0.  With a dead session, or none, only a payload
\* that needs no statement (answered SKIPPED, or from a cache) gets this far.
ProcessPass(t) ==
    /\ Running /\ wpc[t] = "processing"
    /\ Goto(t, "responding")
    /\ UNCHANGED <<phase, slots, slotsOpen, pc, ctx, pending, arrived, answered, stopping, crashed, unhealed>>

\* process_xml_file() returned an error; the session is checked only then.
ProcessFail(t) ==
    /\ Running /\ wpc[t] = "processing"
    /\ Goto(t, IF session_is_alive(t) THEN "responding" ELSE "reconnecting")
    /\ UNCHANGED <<phase, slots, slotsOpen, pc, ctx, pending, arrived, answered, stopping, crashed, unhealed>>

\* A request that parses reads ctx->ini, which a zeroed context lacks.
ProcessCrash(t) ==
    /\ Running /\ wpc[t] = "processing" /\ ~ctx[t].live
    /\ crashed' = TRUE
    /\ UNCHANGED <<phase, slots, slotsOpen, pc, ctx, wpc, pending, arrived, answered, stopping, unhealed>>

\* reconnect_session(): release whatever slot the context names ...
ReconnectRelease(t) ==
    /\ Running /\ wpc[t] = "reconnecting"
    /\ IF pc[t] = "returning"
         THEN release_session_free(t) /\ Goto(t, "healing")
         ELSE release_session_rollback(t) /\ UNCHANGED wpc
    /\ UNCHANGED <<pending, arrived, answered, stopping, crashed, unhealed>>

\* ... then Borrow(t).  The response is written whatever happened.
Respond(t) ==
    /\ Running /\ wpc[t] = "responding"
    /\ answered' = [answered EXCEPT ![t] = @ + 1]
    /\ Goto(t, "draining")
    /\ UNCHANGED <<phase, slots, slotsOpen, pc, ctx, pending, arrived, stopping, crashed, unhealed>>

\* Mutant: the thread returns without release_session().
Exit_without_release(t) ==
    /\ Running
    /\ wpc[t] = "draining" /\ stopping /\ pending[t] = 0
    /\ Goto(t, "stopped")
    /\ UNCHANGED <<phase, slots, slotsOpen, pc, ctx, pending, arrived, answered, stopping, crashed, unhealed>>

\* dequeue_blocking() returned NULL: shutdown signalled and queue drained.
Exit(t) ==
    /\ Running
    /\ \/ /\ wpc[t] = "draining" /\ stopping /\ pending[t] = 0
          /\ release_session_rollback(t)
          /\ Goto(t, "exiting")
       \/ /\ wpc[t] = "exiting"
          /\ release_session_free(t)
          /\ Goto(t, "stopped")
    /\ UNCHANGED <<pending, arrived, answered, stopping, crashed, unhealed>>

LoseConnection(s) == Running /\ phase = "up" /\ connection_lost(s) /\ UNCHANGED wvars

Joined == stopping /\ \A t \in Threads : wpc[t] \in {"stopped", "failed"}

Finished == (crashed \/ Joined) /\ UNCHANGED allvars

WNext ==
    \/ StartPool \/ Shutdown
    \/ \E t \in Threads :
         \/ Enqueue(t) \/ Borrow(t) \/ TimeOut(t) \/ WakeSpuriously(t) \/ Dequeue(t)
         \/ ProcessPass(t) \/ ProcessFail(t) \/ ProcessCrash(t)
         \/ ReconnectRelease(t) \/ Respond(t) \/ Exit(t)
    \/ \E s \in Slots : LoseConnection(s)
    \/ Finished

\* The threads are scheduled; connections and arrivals promise nothing.  The
\* wait has one absolute deadline, so however often it is interrupted, a
\* thread that keeps waiting is timed out.
WFairness ==
    \A t \in Threads :
      /\ SF_allvars(TimeOut(t))
      /\ WF_allvars(Borrow(t) \/ Dequeue(t) \/ ProcessPass(t) \/ ProcessFail(t)
                    \/ ReconnectRelease(t) \/ Respond(t) \/ Exit(t))

WSpec == WInit /\ [][WNext]_allvars /\ WFairness

-----------------------------------------------------------------------------
(* Properties                                                               *)

\* The workers' state has the shape of worker_thread_main()'s locals.
WTypeOK ==
    /\ TypeOK
    /\ wpc \in [Threads -> {"starting", "draining", "processing", "reconnecting",
                            "healing", "responding", "exiting", "stopped", "failed"}]
    /\ pending \in [Threads -> 0 .. MaxRequests]
    /\ arrived \in [Threads -> 0 .. MaxRequests]
    /\ answered \in [Threads -> 0 .. MaxRequests]
    /\ stopping \in BOOLEAN /\ crashed \in BOOLEAN /\ unhealed \in BOOLEAN

\* Each worker pins its own session (worker.h): two contexts with handles
\* never point at one slot, however often connections were lost, opens refused
\* and sessions replaced, as long as no reconnect has failed.
PinnedSessionsDistinct ==
    ~unhealed => \A t, u \in Threads :
                   ctx[t].live /\ ctx[u].live /\ ctx[t].slot = ctx[u].slot => t = u

\* Every request taken off a queue is answered exactly once, also the one
\* that broke the session.
EveryDequeuedAnsweredOnce ==
    \A t \in Threads :
      arrived[t] = answered[t] + pending[t]
                   + (IF wpc[t] \in {"processing", "reconnecting", "healing", "responding"}
                        THEN 1 ELSE 0)

\* When worker_pool_shutdown_and_join() returns, every borrowed session is
\* back in the pool and the queue of every worker that ran is drained.
AllBackAtJoin ==
    Joined /\ ~unhealed =>
      /\ \A s \in Slots : ~slots[s].inUse
      /\ \A t \in Threads : wpc[t] = "stopped" => pending[t] = 0

\* Every request that was enqueued gets its response: the queue is drained in
\* order, so the n-th arrival is answered once n responses are written, also
\* across lost connections and failed reconnects, unless its worker found no
\* session at startup or the process died.
QueuedRequestsAnswered ==
    \A t \in Threads : \A n \in 1 .. MaxRequests :
      arrived[t] >= n ~> (answered[t] >= n \/ wpc[t] = "failed" \/ crashed)

\* After the shutdown signal every worker ends: the join returns (unless the
\* process died first).
ShutdownCompletes == stopping ~> (Joined \/ crashed)
=============================================================================
