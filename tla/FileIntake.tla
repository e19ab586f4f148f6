------------------------------ MODULE FileIntake ------------------------------
(***************************************************************************)
(* The File Consumer, the request queues of its workers, and the Response  *)
(* Manager: how a file travels from Input_* over Processing_* to Output_*  *)
(* or Error_*, beside a client that drops files, calls that fail, workers  *)
(* that get no session, and a process that stops or crashes.               *)
(*                                                                         *)
(* A delivery is one appearance of a file name in Input_*; names may be    *)
(* reused once Input_* no longer holds them.  Hidden, empty and special    *)
(* files, which process_directory() skips, are not deliveries.  The two    *)
(* formats have directories of their own and are not told apart.           *)
(***************************************************************************)
EXTENDS Integers, Sequences, FiniteSets

CONSTANTS
    Names,          \* file names
    WriteNames,     \* those whose payload holds an INSERT, UPDATE or DELETE
    LongNames,      \* those whose path in Input_* exceeds input_path[1024]
    Workers,        \* worker threads, each with a queue
    Writer,         \* the worker of queue 0
    SingleWriter,   \* contention_manager_mode = single_write_queue?
    Depth,          \* slots per queue
    MaxDeliveries,  \* bound: deliveries
    MaxFaults,      \* bound: failing calls (opendir, stat, read, rename, malloc, get_session)
    MaxCrashes      \* bound: crashes

ASSUME FileAssumption ==
    /\ WriteNames \subseteq Names /\ LongNames \subseteq Names
    /\ Writer \in Workers /\ SingleWriter \in BOOLEAN
    /\ Depth \in Nat \ {0}
    /\ MaxDeliveries \in Nat /\ MaxFaults \in Nat /\ MaxCrashes \in Nat

Ids  == 1 .. MaxDeliveries
None == 0

VARIABLES
    input, processing,  \* Input_*, Processing_*: the delivery under each name
    archived,           \* where a delivery's original ended: Output_*, Error_*
    name,               \* the name of each delivery
    delivered,
    queue,              \* queue of each worker
    cpc, cid, todo,     \* File Consumer: where it is, its file, names still to come
    wpc, witem,         \* workers
    executed,           \* how often each delivery's payload was executed
    answered,           \* deliveries for which a response was composed
    stopping,
    unmoved,            \* ghost: enqueued, but the move to Processing_* failed
    lost,               \* ghost: out of Input_* and not executed when its queue was gone
    strays,             \* ghost: originals whose archiving could not work
    faults, crashes

fs      == <<input, processing, archived>>
history == <<executed, answered, unmoved, lost, strays>>
bounds  == <<delivered, faults, crashes>>
vars == <<input, processing, archived, name, delivered, queue, cpc, cid, todo, wpc, witem,
          executed, answered, stopping, unmoved, lost, strays, faults, crashes>>

Init ==
    /\ input = [n \in Names |-> None] /\ processing = [n \in Names |-> None]
    /\ archived = [i \in Ids |-> "no"]
    /\ name \in [Ids -> {CHOOSE n \in Names : TRUE}]
    /\ delivered = 0
    /\ queue = [w \in Workers |-> <<>>]
    /\ cpc = "rest" /\ cid = None /\ todo = {}
    /\ wpc = [w \in Workers |-> "starting"] /\ witem = [w \in Workers |-> None]
    /\ executed = [i \in Ids |-> 0] /\ answered = {}
    /\ stopping = FALSE
    /\ unmoved = {} /\ lost = {} /\ strays = {}
    /\ faults = 0 /\ crashes = 0

\* A client moves a complete file into Input_*; a directory scan that is
\* under way yields it or not.
deliver(n) ==
    /\ delivered < MaxDeliveries /\ input[n] = None
    /\ delivered' = delivered + 1
    /\ input' = [input EXCEPT ![n] = delivered + 1]
    /\ name' = [name EXCEPT ![delivered + 1] = n]
    /\ \/ UNCHANGED todo
       \/ cpc # "rest" /\ todo' = todo \cup {n}
    /\ UNCHANGED <<processing, archived, queue, cpc, cid, wpc, witem, stopping, faults, crashes>>
    /\ UNCHANGED history

-----------------------------------------------------------------------------
(* process_directory()                                                      *)

Fault == faults < MaxFaults /\ faults' = faults + 1

KeepOthers == UNCHANGED <<name, wpc, witem, stopping, delivered, crashes>>

\* Mutant: the directory is not opened anew.
start_pass_resumes ==
    /\ cpc = "rest" /\ ~stopping
    /\ cpc' = "scan"
    /\ KeepOthers /\ UNCHANGED <<queue, cid, todo, faults>> /\ UNCHANGED <<fs, history>>

\* opendir(); when it fails, there is nothing to do before the next pass.
start_pass ==
    /\ cpc = "rest" /\ ~stopping
    /\ \/ cpc' = "scan" /\ todo' = {n \in Names : input[n] # None} /\ UNCHANGED faults
       \/ Fault /\ UNCHANGED <<cpc, todo>>
    /\ KeepOthers /\ UNCHANGED <<queue, cid>> /\ UNCHANGED <<fs, history>>

end_pass ==
    /\ cpc = "scan" /\ todo = {}
    /\ cpc' = "rest"
    /\ KeepOthers /\ UNCHANGED <<queue, cid, todo, faults>> /\ UNCHANGED <<fs, history>>

\* readdir() and the read; an over-long path is skipped in every pass, stat()
\* may fail (skipped until the next pass), the read or the allocation of the
\* request may fail (rejected).
read_file(n) ==
    /\ cpc = "scan" /\ n \in todo
    /\ todo' = todo \ {n}
    /\ \/ n \in LongNames /\ UNCHANGED <<cpc, cid, faults>>
       \/ n \notin LongNames /\ cpc' = "enqueue" /\ cid' = input[n] /\ UNCHANGED faults
       \/ n \notin LongNames /\ cpc' = "reject" /\ cid' = input[n] /\ Fault
       \/ n \notin LongNames /\ UNCHANGED <<cpc, cid>> /\ Fault
    /\ KeepOthers /\ UNCHANGED queue /\ UNCHANGED <<fs, history>>

\* payload_requires_single_writer_queue() and the queue choice.
Eligible(n) ==
    IF ~SingleWriter THEN Workers
    ELSE IF n \in WriteNames THEN {Writer} ELSE Workers \ {Writer}

Room(n) == {w \in Eligible(n) : Len(queue[w]) < Depth}

\* Round robin takes the first eligible queue with room after the last one
\* used: any of them, here.
enqueue ==
    /\ cpc = "enqueue"
    /\ \E w \in Room(name[cid]) : queue' = [queue EXCEPT ![w] = Append(@, cid)]
    /\ cpc' = "move"
    /\ KeepOthers /\ UNCHANGED <<cid, todo, faults>> /\ UNCHANGED <<fs, history>>

enqueue_full ==
    /\ cpc = "enqueue" /\ Room(name[cid]) = {}
    /\ cpc' = "reject"
    /\ KeepOthers /\ UNCHANGED <<queue, cid, todo, faults>> /\ UNCHANGED <<fs, history>>

\* Mutant: the file stays in Input_*.
move_to_processing_omitted ==
    /\ cpc = "move" /\ cpc' = "scan"
    /\ KeepOthers /\ UNCHANGED <<queue, cid, todo, faults>> /\ UNCHANGED <<fs, history>>

\* rename() into Processing_*, over a namesake that is still there; a failure
\* is only logged, and the file is found again by the next pass.
move_to_processing ==
    /\ cpc = "move" /\ cpc' = "scan"
    /\ \/ /\ input' = [input EXCEPT ![name[cid]] = None]
          /\ processing' = [processing EXCEPT ![name[cid]] = cid]
          /\ strays' = strays \cup ({processing[name[cid]]} \ {None})
          /\ UNCHANGED <<unmoved, faults>>
       \/ unmoved' = unmoved \cup {cid} /\ Fault /\ UNCHANGED <<input, processing, strays>>
    /\ KeepOthers /\ UNCHANGED <<queue, cid, todo, archived, executed, answered, lost>>

\* reject_immediately(): a response in Error_*, and the file follows it.  The
\* move may fail, and without memory for the response there is neither.
reject ==
    /\ cpc = "reject" /\ cpc' = "scan"
    /\ \/ /\ answered' = answered \cup {cid}
          /\ input' = [input EXCEPT ![name[cid]] = None]
          /\ archived' = [archived EXCEPT ![cid] = "error"]
          /\ UNCHANGED faults
       \/ answered' = answered \cup {cid} /\ Fault /\ UNCHANGED <<input, archived>>
       \/ Fault /\ UNCHANGED <<answered, input, archived>>
    /\ KeepOthers /\ UNCHANGED <<queue, cid, todo, processing, executed, unmoved, lost, strays>>

-----------------------------------------------------------------------------
(* Workers, and response_manager_write()                                    *)

KeepConsumer == UNCHANGED <<name, delivered, cpc, cid, todo, stopping, crashes>>

\* A worker borrows the session it keeps, or ends and leaves its queue, which
\* the consumer goes on filling, to nobody.
get_session(w) ==
    /\ wpc[w] = "starting"
    /\ \/ wpc' = [wpc EXCEPT ![w] = "idle"] /\ UNCHANGED faults
       \/ wpc' = [wpc EXCEPT ![w] = "failed"] /\ Fault
    /\ KeepConsumer /\ UNCHANGED <<queue, witem>> /\ UNCHANGED <<fs, history>>

dequeue(w) ==
    /\ wpc[w] = "idle" /\ queue[w] # <<>>
    /\ witem' = [witem EXCEPT ![w] = Head(queue[w])]
    /\ queue' = [queue EXCEPT ![w] = Tail(@)]
    /\ wpc' = [wpc EXCEPT ![w] = "execute"]
    /\ KeepConsumer /\ UNCHANGED faults /\ UNCHANGED <<fs, history>>

\* process_xml_file()
execute(w) ==
    /\ wpc[w] = "execute"
    /\ executed' = [executed EXCEPT ![witem[w]] = @ + 1]
    /\ wpc' = [wpc EXCEPT ![w] = "respond"]
    /\ KeepConsumer /\ UNCHANGED <<queue, witem, faults, answered, unmoved, lost, strays>>
    /\ UNCHANGED fs

\* Mutant: the original is not moved when the response cannot be written.
respond_only(w) ==
    /\ wpc[w] = "respond" /\ wpc' = [wpc EXCEPT ![w] = "idle"]
    /\ answered' = answered \cup {witem[w]}
    /\ KeepConsumer /\ UNCHANGED <<queue, witem, faults, executed, unmoved, lost, strays>>
    /\ UNCHANGED fs

\* The response is written or not; the original is moved in either case: what
\* Processing_* holds under this name, if anything.  Without a response_body
\* nothing is written or moved.
respond(w) ==
    LET n     == name[witem[w]]
        found == processing[n]
    IN  /\ wpc[w] = "respond" /\ wpc' = [wpc EXCEPT ![w] = "idle"]
        /\ \/ /\ answered' = answered \cup {witem[w]}
              /\ found # None
              /\ \E where \in {"output", "error"} : archived' = [archived EXCEPT ![found] = where]
              /\ processing' = [processing EXCEPT ![n] = None]
              /\ strays' = IF found = witem[w] THEN strays ELSE strays \cup {found, witem[w]}
              /\ UNCHANGED faults
           \/ /\ answered' = answered \cup {witem[w]}
              /\ found = None \/ faults < MaxFaults
              /\ faults' = IF found = None THEN faults ELSE faults + 1
              /\ strays' = strays \cup {witem[w]}
              /\ UNCHANGED <<archived, processing>>
           \/ /\ Fault /\ strays' = strays \cup {witem[w]}
              /\ UNCHANGED <<answered, archived, processing>>
        /\ KeepConsumer /\ UNCHANGED <<queue, witem, input, executed, unmoved, lost>>

-----------------------------------------------------------------------------
(* The process                                                              *)

\* file_consumer_runner_stop_and_join(), or the end of its lifetime: no new
\* pass.
stop == stopping' = TRUE /\ ~stopping
        /\ UNCHANGED <<name, queue, cpc, cid, todo, wpc, witem, bounds, fs, history>>

\* Delivery i is queued, or taken and not yet executed.
InFlight(i) ==
    \/ \E w \in Workers : \E j \in DOMAIN queue[w] : queue[w][j] = i
    \/ \E w \in Workers : wpc[w] = "execute" /\ witem[w] = i

\* Delivery i waits for a worker that has ended for want of a session.
Stranded(i) ==
    \E w \in Workers : wpc[w] = "failed" /\ \E j \in DOMAIN queue[w] : queue[w][j] = i

\* Mutant: the queues are destroyed before the workers have drained them.
queue_manager_destroy_early ==
    /\ stopping /\ cpc = "rest"
    /\ \A w \in Workers : wpc[w] \in {"failed", "idle"}
    /\ queue' = [w \in Workers |-> <<>>] /\ wpc' = [w \in Workers |-> "ended"]
    /\ lost' = lost \cup {i \in Ids : Stranded(i) /\ input[name[i]] # i}
    /\ strays' = strays \cup {i \in Ids : Stranded(i)}
    /\ UNCHANGED <<name, cpc, cid, todo, witem, stopping, executed, answered, unmoved>>
    /\ UNCHANGED <<bounds, fs>>

\* worker_pool_shutdown_and_join(), which returns when every worker that had a
\* session has drained its queue, and queue_manager_destroy(), which frees the
\* requests left in the queues of the others.
queue_manager_destroy ==
    /\ stopping /\ cpc = "rest"
    /\ \A w \in Workers : wpc[w] = "failed" \/ (wpc[w] = "idle" /\ queue[w] = <<>>)
    /\ queue' = [w \in Workers |-> <<>>] /\ wpc' = [w \in Workers |-> "ended"]
    /\ lost' = lost \cup {i \in Ids : Stranded(i) /\ input[name[i]] # i}
    /\ strays' = strays \cup {i \in Ids : Stranded(i)}
    /\ UNCHANGED <<name, cpc, cid, todo, witem, stopping, executed, answered, unmoved>>
    /\ UNCHANGED <<bounds, fs>>

\* Queues and threads are gone (or the process had ended); the next process
\* scans Input_*, and nobody looks into Processing_*.
crash ==
    /\ crashes < MaxCrashes /\ crashes' = crashes + 1
    /\ queue' = [w \in Workers |-> <<>>]
    /\ wpc' = [w \in Workers |-> "starting"] /\ cpc' = "rest" /\ stopping' = FALSE
    /\ unmoved' = IF cpc = "move" THEN unmoved \cup {cid} ELSE unmoved
    /\ lost' = lost \cup {i \in Ids : InFlight(i) /\ input[name[i]] # i}
    /\ strays' = strays \cup {i \in Ids : processing[name[i]] = i}
    /\ UNCHANGED <<name, delivered, cid, todo, witem, executed, answered, faults>> /\ UNCHANGED fs

ConsumerStep ==
    \/ start_pass \/ end_pass \/ enqueue \/ enqueue_full \/ move_to_processing \/ reject
    \/ \E n \in Names : read_file(n)

WorkerStep(w) == get_session(w) \/ dequeue(w) \/ execute(w) \/ respond(w)

Next ==
    \/ \E n \in Names : deliver(n)
    \/ ConsumerStep
    \/ \E w \in Workers : WorkerStep(w)
    \/ stop \/ queue_manager_destroy \/ crash

\* The threads are scheduled and their calls return.
Spec ==
    /\ Init /\ [][Next]_vars
    /\ WF_vars(ConsumerStep) /\ \A w \in Workers : WF_vars(WorkerStep(w))

-----------------------------------------------------------------------------
(* Properties                                                               *)

\* Directories, queues and threads have the shape of their counterparts.
TypeOK ==
    /\ input \in [Names -> 0 .. MaxDeliveries] /\ processing \in [Names -> 0 .. MaxDeliveries]
    /\ archived \in [Ids -> {"no", "output", "error"}]
    /\ queue \in [Workers -> Seq(Ids)] /\ \A w \in Workers : Len(queue[w]) <= Depth
    /\ cpc \in {"rest", "scan", "enqueue", "move", "reject"} /\ cid \in 0 .. MaxDeliveries
    /\ wpc \in [Workers -> {"starting", "idle", "execute", "respond", "failed", "ended"}]
    /\ executed \in [Ids -> Nat] /\ answered \in SUBSET Ids

\* A payload is executed once, unless its file could not be moved out of
\* Input_* after it was enqueued (a failed rename, or a crash in between).
ExecutedOnce == \A i \in Ids \ unmoved : executed[i] <= 1

\* A delivery that was neither executed nor rejected still waits in Input_*
\* or has its request, unless a crash found it moved and not executed, or it
\* was queued to a worker without a session and discarded with the queues: no
\* rejection, failure, overlap of names or orderly end drops a request that a
\* worker could have taken.
NothingForgotten ==
    \A i \in 1 .. delivered :
      executed[i] = 0 /\ i \notin answered \cup lost => input[name[i]] = i \/ InFlight(i)

\* An answered delivery's original is in Output_* or Error_* (or, if it was
\* rejected and could not be moved, is retried), except where that cannot
\* work: the worker was faster than the consumer's rename, a namesake came in
\* between, a rename failed, or the request was discarded with its queue.
OriginalsArchived ==
    \A i \in answered \ (strays \cup unmoved) :
      archived[i] = "no" =>
        input[name[i]] = i \/ InFlight(i) \/ \E w \in Workers : wpc[w] = "respond" /\ witem[w] = i

\* Every delivery that is not passed over for its over-long path is executed
\* or rejected in the end, also when the process is told to stop after it was
\* enqueued; only a crash, or a queue whose worker got no session ("will never
\* be drained until the process restarts"), keeps it from that.
EveryFileHandled ==
    \A i \in Ids :
      (delivered >= i /\ (~stopping \/ InFlight(i)))
        ~> \/ executed[i] > 0 \/ i \in answered \cup lost \/ Stranded(i)
           \/ name[i] \in LongNames \/ (stopping /\ input[name[i]] = i)
=============================================================================
