-------------------------- MODULE BackgroundProofs --------------------------
(***************************************************************************)
(* Proofs about Background, for any number of workers, any queue depth and *)
(* batch size and any number of requests: what a queue accepts is handled  *)
(* before the queue is freed, nobody touches a freed queue, and the pools  *)
(* outlive the threads that borrow from them.                              *)
(***************************************************************************)
EXTENDS Background, TLAPS

-----------------------------------------------------------------------------
(* The inductive invariant                                                  *)

\* The stages of main() from the last one backwards.
Ending      == {"disconnect", "return", "exit"}
AfterDb     == {"free_metrics"} \cup Ending
AfterFile   == {"stop_db", "join_db"} \cup AfterDb
StopMetrics == {"stop_file", "join_file"} \cup AfterFile
PastWorkers == {"stop_runner", "join_runner", "free_touch"} \cup StopMetrics
Starting    == {"metrics", "self_test", "start_runner", "start_workers", "start_consumer"}
Stages      == Starting \cup {"halted", "serve", "join_workers", "abandon_workers"} \cup PastWorkers

\* TypeOK, and the types of what it leaves out.
FullTypeOK ==
    /\ TypeOK
    /\ main \in Stages /\ draining \in BOOLEAN
    /\ requests \in 0 .. MaxRequests /\ backlog <= requests
    /\ accepted \in [Queues -> Nat] /\ handled \in [Queues -> Nat]

\* The places a thread of each kind can be in.
Places(t) ==
    CASE t \in Workers  -> {"none", "start", "run", "file", "db", "touch", "ended", "dead"}
      [] t = "consumer" -> {"none", "start", "run", "file", "db", "ended", "dead"}
      [] t = "runner"   -> {"none", "start", "run", "sleep", "file", "db", "ended", "dead"}
      [] t = "filew"    -> {"none", "run", "sleep", "ended"}
      [] t = "dbw"      -> {"none", "start", "run", "sleep", "gather", "nap", "flush",
                            "flush_last", "ended", "dead"}

InPlace == \A t \in Threads : pc[t] \in Places(t)

\* How far main() has got tells which threads exist.
StartOrder ==
    /\ main \in {"metrics", "self_test", "start_runner", "start_workers"} => \A w \in Workers : pc[w] = "none"
    /\ main \in Starting \cup {"abandon_workers"} => pc["consumer"] = "none"
    /\ main \in {"start_consumer", "abandon_workers"} => \A w \in Workers : pc[w] # "none"
    /\ main \in {"metrics", "self_test", "start_runner"} =>
         pc["runner"] = "none" /\ queue["touch"].state = "absent"
    /\ main = "metrics" => pc["filew"] = "none" /\ pc["dbw"] = "none"
    /\ mode = "HTTP" => /\ main \notin {"start_runner", "stop_runner", "join_runner", "free_touch"}
                        /\ pc["runner"] = "none"

\* ... and which have been joined.
StopOrder ==
    /\ main \in {"join_workers"} \cup PastWorkers => Gone("consumer")
    /\ main \in PastWorkers => \A w \in Workers : Gone(w)
    /\ main = "free_touch" => Gone("runner")
    /\ main \in StopMetrics => Gone("runner") \/ Abandoned
    /\ main \in AfterFile => Gone("filew")
    /\ main \in AfterDb => Gone("dbw")
    /\ "business" \notin pools => main \in {"return", "exit"}
    /\ "metrics" \notin pools => Gone("dbw")

\* Without a consumer there was no request, and so nothing was produced but
\* the self-test's records.
NothingBefore ==
    pc["consumer"] = "none" =>
      /\ backlog = 0
      /\ queue["touch"].items = 0
      /\ \A t \in Threads : pc[t] \notin {"file", "db", "touch"}

\* A queue lives from its thread's creation to the stage that frees it.
QueueLife ==
    /\ \A q \in {"file", "db"} : queue[q].state = "absent" <=> pc[Taker(q)] = "none"
    /\ queue["touch"].state = "absent" => pc["runner"] = "none"
    /\ \A q \in Queues : queue[q].state = "absent" => queue[q].items = 0 /\ accepted[q] = 0
    /\ queue["touch"].shut => main \in {"join_runner", "free_touch"} \cup StopMetrics
    /\ queue["file"].shut => main \in {"join_file"} \cup AfterFile
    /\ queue["db"].shut => main \in {"join_db"} \cup AfterDb
    /\ queue["touch"].state = "freed" => main \in StopMetrics /\ Gone("runner")
    /\ \A q \in {"file", "db"} : queue[q].state = "freed" => main \in Ending

\* A thread ends only with its queue shut down and empty.
EndsDrained ==
    /\ \A q \in Queues : pc[Taker(q)] = "ended" => queue[q].shut /\ queue[q].items = 0
    /\ pc["dbw"] = "flush_last" => queue["db"].shut /\ queue["db"].items = 0

\* The DB writer's batch is what its place says.
BatchSize ==
    /\ pc["dbw"] \in {"gather", "nap"} => batch \in 1 .. PerWrite - 1
    /\ pc["dbw"] \notin {"gather", "nap", "flush", "flush_last"} => batch = 0

\* Items taken from a queue whose handling has not ended.
InHand(q) ==
    IF q = "db" THEN batch
    ELSE IF q = "touch" /\ pc["runner"] \in {"file", "db"} THEN 1 ELSE 0

\* No item appears or vanishes while its queue exists.
Conserved ==
    \A q \in Queues : queue[q].state # "freed" => accepted[q] = handled[q] + queue[q].items + InHand(q)

BInv ==
    /\ FullTypeOK /\ InPlace /\ StartOrder /\ StopOrder /\ NothingBefore /\ QueueLife
    /\ EndsDrained /\ BatchSize /\ Conserved /\ EveryItemSettled

-----------------------------------------------------------------------------
(* Facts about the operators                                                *)

\* Each queue has a thread of its own, which is no worker.
LEMMA Takers ==
    /\ Taker("touch") = "runner" /\ Taker("file") = "filew" /\ Taker("db") = "dbw"
    /\ Queues = {"touch", "file", "db"}
    /\ \A q \in Queues : Taker(q) \in Threads \ (Workers \cup {"consumer"})
BY BackgroundAssumption DEF Taker, Queues, Threads

\* The type of the queues.
QueueType == [Queues -> [state : {"absent", "open", "freed"}, items : 0 .. Depth, shut : BOOLEAN]]

\* A queue whose length changes keeps everything else.
LEMMA LengthSet ==
    ASSUME FullTypeOK, NEW q \in Queues, NEW n \in 0 .. Depth,
           queue' = [queue EXCEPT ![q].items = n]
    PROVE  /\ queue' \in QueueType
           /\ queue'[q].items = n /\ queue'[q].state = queue[q].state /\ queue'[q].shut = queue[q].shut
           /\ \A p \in Queues : p # q => queue'[p] = queue[p]
BY DEF FullTypeOK, TypeOK, QueueType

\* The lengths are numbers.
LEMMA Numbers ==
    ASSUME FullTypeOK
    PROVE  /\ Depth \in Nat /\ PerWrite \in Nat /\ batch \in Nat
           /\ \A q \in Queues : /\ queue[q].items \in Nat /\ queue[q].items <= Depth
                                /\ accepted[q] \in Nat /\ handled[q] \in Nat
BY BackgroundAssumption DEF FullTypeOK, TypeOK

\* generic_queue_shutdown() only sets the flag.
LEMMA ShutSet ==
    ASSUME FullTypeOK, NEW q \in Queues, queue' = queue \/ queue' = [queue EXCEPT ![q].shut = TRUE]
    PROVE  /\ queue' \in QueueType
           /\ \A p \in Queues : queue'[p].state = queue[p].state /\ queue'[p].items = queue[p].items
           /\ \A p \in Queues : p # q => queue'[p].shut = queue[p].shut
           /\ queue[q].shut => queue'[q].shut
<1>1. queue \in QueueType
  BY DEF FullTypeOK, TypeOK, QueueType
<1>2. CASE queue' = queue
  BY <1>1, <1>2
<1>3. CASE queue' = [queue EXCEPT ![q].shut = TRUE]
  BY <1>1, <1>3 DEF QueueType
<1> QED
  BY <1>2, <1>3

\* generic_queue_destroy() frees open queues.
LEMMA FreedSet ==
    ASSUME FullTypeOK, NEW Q, queue' = Destroyed(Q)
    PROVE  /\ queue' \in QueueType
           /\ \A p \in Queues : queue'[p].shut = queue[p].shut
           /\ \A p \in Queues :
                \/ queue'[p] = queue[p]
                \/ /\ p \in Q /\ queue'[p].state = "freed" /\ queue'[p].items = 0
                   /\ queue[p].state = "open"
<1>1. queue \in QueueType /\ 0 \in 0 .. Depth
  BY BackgroundAssumption DEF FullTypeOK, TypeOK, QueueType
<1>2. ASSUME NEW p \in Queues
      PROVE  /\ queue'[p] \in [state : {"absent", "open", "freed"}, items : 0 .. Depth, shut : BOOLEAN]
             /\ queue'[p].shut = queue[p].shut
             /\ \/ queue'[p] = queue[p]
                \/ /\ p \in Q /\ queue'[p].state = "freed" /\ queue'[p].items = 0
                   /\ queue[p].state = "open"
  <2>1. queue[p] \in [state : {"absent", "open", "freed"}, items : 0 .. Depth, shut : BOOLEAN]
    BY <1>1 DEF QueueType
  <2>2. CASE p \in Q /\ queue[p].state = "open"
    <3>1. queue'[p] = [queue[p] EXCEPT !.state = "freed", !.items = 0]
      BY <2>2 DEF Destroyed
    <3> QED
      BY <1>1, <2>1, <2>2, <3>1
  <2>3. CASE ~(p \in Q /\ queue[p].state = "open")
    <3>1. queue'[p] = queue[p]
      BY <2>3 DEF Destroyed
    <3> QED
      BY <2>1, <3>1
  <2> QED
    BY <2>2, <2>3
<1>3. queue' = [p \in Queues |-> queue'[p]]
  BY DEF Destroyed
<1> QED
  BY <1>2, <1>3 DEF QueueType

\* get_session() gives a thread its session, or ends it.
LEMMA BorrowStep ==
    ASSUME BInv, NEW t \in Threads, borrow(t)
    PROVE  BInv'
<1>1. /\ pc[t] = "start"
      /\ UNCHANGED <<mode, main, queue, batch, backlog, draining, pools, requests, accepted, handled>>
  BY DEF borrow, KeepMain, KeepRequest
<1>2. PICK got \in {"run", "dead"} : pc' = [pc EXCEPT ![t] = got]
  BY DEF borrow
<1>3. pc'[t] = got /\ \A u \in Threads : u # t => pc'[u] = pc[u]
  BY <1>2 DEF BInv, FullTypeOK, TypeOK
<1>4. FullTypeOK'
  BY <1>1, <1>2, <1>3, Takers, BackgroundAssumption
     DEF BInv, FullTypeOK, TypeOK, Stages, PastWorkers, StopMetrics, AfterFile, AfterDb,
     Ending, Starting, Threads
<1>5. InPlace'
  BY <1>1, <1>2, <1>3, Takers, BackgroundAssumption DEF BInv, InPlace, Places, Threads
<1>6. StartOrder'
  BY <1>1, <1>2, <1>3, Takers, BackgroundAssumption DEF BInv, StartOrder, Starting, Threads
<1>7. StopOrder'
  BY <1>1, <1>2, <1>3, Takers, BackgroundAssumption
     DEF BInv, StopOrder, Gone, Abandoned, PastWorkers, StopMetrics, AfterFile, AfterDb,
     Ending, Threads
<1>8. NothingBefore'
  BY <1>1, <1>2, <1>3, Takers, BackgroundAssumption DEF BInv, NothingBefore, Threads
<1>9. QueueLife'
  BY <1>1, <1>2, <1>3, Takers, BackgroundAssumption
     DEF BInv, QueueLife, Gone, StopMetrics, AfterFile, AfterDb, Ending, Threads
<1>10. EndsDrained'
  BY <1>1, <1>2, <1>3, Takers, BackgroundAssumption DEF BInv, EndsDrained, Threads
<1>11. BatchSize'
  BY <1>1, <1>2, <1>3, Takers, BackgroundAssumption DEF BInv, BatchSize, Threads
<1>12. Conserved'
  BY <1>1, <1>2, <1>3, Takers, BackgroundAssumption DEF BInv, Conserved, InHand, Threads
<1>13. EveryItemSettled'
  BY <1>1, <1>2, <1>3, Takers, BackgroundAssumption DEF BInv, EveryItemSettled, Threads
<1> QED
  BY <1>4, <1>5, <1>6, <1>7, <1>8, <1>9, <1>10, <1>11, <1>12, <1>13 DEF BInv

\* A request comes in.
LEMMA ArriveStep ==
    ASSUME BInv, arrive
    PROVE  BInv'
<1>1. /\ pc["consumer"] = "run" /\ requests < MaxRequests
      /\ requests' = requests + 1 /\ backlog' = backlog + 1
      /\ UNCHANGED <<mode, main, pc, queue, batch, draining, pools, accepted, handled>>
  BY DEF arrive, KeepMain
<1>2. FullTypeOK'
  BY <1>1, Takers, BackgroundAssumption DEF BInv, FullTypeOK, TypeOK, Stages, PastWorkers,
     StopMetrics, AfterFile, AfterDb, Ending, Starting
<1>3. InPlace'
  BY <1>1, Takers, BackgroundAssumption DEF BInv, InPlace, Places
<1>4. StartOrder'
  BY <1>1, Takers, BackgroundAssumption DEF BInv, StartOrder, Starting
<1>5. StopOrder'
  BY <1>1, Takers, BackgroundAssumption DEF BInv, StopOrder, Gone, Abandoned, PastWorkers,
     StopMetrics, AfterFile, AfterDb, Ending
<1>6. NothingBefore'
  BY <1>1, Takers, BackgroundAssumption DEF BInv, NothingBefore
<1>7. QueueLife'
  BY <1>1, Takers, BackgroundAssumption DEF BInv, QueueLife, Gone, StopMetrics, AfterFile,
     AfterDb, Ending
<1>8. EndsDrained'
  BY <1>1, Takers, BackgroundAssumption DEF BInv, EndsDrained
<1>9. BatchSize'
  BY <1>1, Takers, BackgroundAssumption DEF BInv, BatchSize
<1>10. Conserved'
  BY <1>1, Takers, BackgroundAssumption DEF BInv, Conserved, InHand
<1>11. EveryItemSettled'
  BY <1>1, Takers, BackgroundAssumption DEF BInv, EveryItemSettled
<1> QED
  BY <1>2, <1>3, <1>4, <1>5, <1>6, <1>7, <1>8, <1>9, <1>10, <1>11 DEF BInv

\* The File Consumer renews its session.
LEMMA RenewStep ==
    ASSUME BInv, renew_session
    PROVE  BInv'
<1>1. /\ mode = "FILE" /\ pc["consumer"] = "run" /\ pc' = [pc EXCEPT !["consumer"] = "file"]
      /\ UNCHANGED <<mode, main, queue, batch, backlog, draining, pools, requests, accepted, handled>>
  BY DEF renew_session, KeepMain
<1>2. pc'["consumer"] = "file" /\ \A u \in Threads : u # "consumer" => pc'[u] = pc[u]
  BY <1>1 DEF BInv, FullTypeOK, TypeOK, Threads
<1>3. FullTypeOK'
  BY <1>1, Takers, BackgroundAssumption, <1>2 DEF BInv, FullTypeOK, TypeOK, Stages,
     PastWorkers, StopMetrics, AfterFile, AfterDb, Ending, Starting, Threads
<1>4. InPlace'
  BY <1>1, Takers, BackgroundAssumption, <1>2 DEF BInv, InPlace, Places, Threads
<1>5. StartOrder'
  BY <1>1, Takers, BackgroundAssumption, <1>2 DEF BInv, StartOrder, Starting, Threads
<1>6. StopOrder'
  BY <1>1, Takers, BackgroundAssumption, <1>2 DEF BInv, StopOrder, Gone, Abandoned,
     PastWorkers, StopMetrics, AfterFile, AfterDb, Ending, Threads
<1>7. NothingBefore'
  BY <1>1, Takers, BackgroundAssumption, <1>2 DEF BInv, NothingBefore, Threads
<1>8. QueueLife'
  BY <1>1, Takers, BackgroundAssumption, <1>2 DEF BInv, QueueLife, Gone, StopMetrics,
     AfterFile, AfterDb, Ending, Threads
<1>9. EndsDrained'
  BY <1>1, Takers, BackgroundAssumption, <1>2 DEF BInv, EndsDrained, Threads
<1>10. BatchSize'
  BY <1>1, Takers, BackgroundAssumption, <1>2 DEF BInv, BatchSize, Threads
<1>11. Conserved'
  BY <1>1, Takers, BackgroundAssumption, <1>2 DEF BInv, Conserved, InHand, Threads
<1>12. EveryItemSettled'
  BY <1>1, Takers, BackgroundAssumption, <1>2 DEF BInv, EveryItemSettled, Threads
<1> QED
  BY <1>3, <1>4, <1>5, <1>6, <1>7, <1>8, <1>9, <1>10, <1>11, <1>12 DEF BInv

\* The consumer ends.
LEMMA ConsumerEndsStep ==
    ASSUME BInv, consumer_ends
    PROVE  BInv'
<1>1. /\ pc["consumer"] = "run" /\ pc' = [pc EXCEPT !["consumer"] = "ended"]
      /\ UNCHANGED <<mode, main, queue, batch, backlog, draining, pools, requests, accepted, handled>>
  BY DEF consumer_ends, KeepMain, KeepRequest
<1>2. pc'["consumer"] = "ended" /\ \A u \in Threads : u # "consumer" => pc'[u] = pc[u]
  BY <1>1 DEF BInv, FullTypeOK, TypeOK, Threads
<1>3. FullTypeOK'
  BY <1>1, Takers, BackgroundAssumption, <1>2 DEF BInv, FullTypeOK, TypeOK, Stages,
     PastWorkers, StopMetrics, AfterFile, AfterDb, Ending, Starting, Threads
<1>4. InPlace'
  BY <1>1, Takers, BackgroundAssumption, <1>2 DEF BInv, InPlace, Places, Threads
<1>5. StartOrder'
  BY <1>1, Takers, BackgroundAssumption, <1>2 DEF BInv, StartOrder, Starting, Threads
<1>6. StopOrder'
  BY <1>1, Takers, BackgroundAssumption, <1>2 DEF BInv, StopOrder, Gone, Abandoned,
     PastWorkers, StopMetrics, AfterFile, AfterDb, Ending, Threads
<1>7. NothingBefore'
  BY <1>1, Takers, BackgroundAssumption, <1>2 DEF BInv, NothingBefore, Threads
<1>8. QueueLife'
  BY <1>1, Takers, BackgroundAssumption, <1>2 DEF BInv, QueueLife, Gone, StopMetrics,
     AfterFile, AfterDb, Ending, Threads
<1>9. EndsDrained'
  BY <1>1, Takers, BackgroundAssumption, <1>2 DEF BInv, EndsDrained, Threads
<1>10. BatchSize'
  BY <1>1, Takers, BackgroundAssumption, <1>2 DEF BInv, BatchSize, Threads
<1>11. Conserved'
  BY <1>1, Takers, BackgroundAssumption, <1>2 DEF BInv, Conserved, InHand, Threads
<1>12. EveryItemSettled'
  BY <1>1, Takers, BackgroundAssumption, <1>2 DEF BInv, EveryItemSettled, Threads
<1> QED
  BY <1>3, <1>4, <1>5, <1>6, <1>7, <1>8, <1>9, <1>10, <1>11, <1>12 DEF BInv

\* A worker takes a request.
LEMMA TakeStep ==
    ASSUME BInv, NEW t \in Workers, take_request(t)
    PROVE  BInv'
<1>1. /\ pc[t] = "run" /\ backlog > 0 /\ backlog' = backlog - 1 /\ pc' = [pc EXCEPT ![t] = "file"]
      /\ UNCHANGED <<mode, main, queue, batch, draining, pools, requests, accepted, handled>>
  BY DEF take_request, KeepMain
<1>2. t \in Threads /\ pc'[t] = "file" /\ \A u \in Threads : u # t => pc'[u] = pc[u]
  BY <1>1 DEF BInv, FullTypeOK, TypeOK, Threads
<1>3. FullTypeOK'
  BY <1>1, Takers, BackgroundAssumption, <1>2 DEF BInv, FullTypeOK, TypeOK, Stages,
     PastWorkers, StopMetrics, AfterFile, AfterDb, Ending, Starting, Threads
<1>4. InPlace'
  BY <1>1, Takers, BackgroundAssumption, <1>2 DEF BInv, InPlace, Places, Threads
<1>5. StartOrder'
  BY <1>1, Takers, BackgroundAssumption, <1>2 DEF BInv, StartOrder, Starting, Threads
<1>6. StopOrder'
  BY <1>1, Takers, BackgroundAssumption, <1>2 DEF BInv, StopOrder, Gone, Abandoned,
     PastWorkers, StopMetrics, AfterFile, AfterDb, Ending, Threads
<1>7. NothingBefore'
  BY <1>1, Takers, BackgroundAssumption, <1>2 DEF BInv, NothingBefore, Threads
<1>8. QueueLife'
  BY <1>1, Takers, BackgroundAssumption, <1>2 DEF BInv, QueueLife, Gone, StopMetrics,
     AfterFile, AfterDb, Ending, Threads
<1>9. EndsDrained'
  BY <1>1, Takers, BackgroundAssumption, <1>2 DEF BInv, EndsDrained, Threads
<1>10. BatchSize'
  BY <1>1, Takers, BackgroundAssumption, <1>2 DEF BInv, BatchSize, Threads
<1>11. Conserved'
  BY <1>1, Takers, BackgroundAssumption, <1>2 DEF BInv, Conserved, InHand, Threads
<1>12. EveryItemSettled'
  BY <1>1, Takers, BackgroundAssumption, <1>2 DEF BInv, EveryItemSettled, Threads
<1> QED
  BY <1>3, <1>4, <1>5, <1>6, <1>7, <1>8, <1>9, <1>10, <1>11, <1>12 DEF BInv

\* A worker leaves its drained queue.
LEMMA WorkerEndsStep ==
    ASSUME BInv, NEW t \in Workers, worker_ends(t)
    PROVE  BInv'
<1>1. /\ pc[t] = "run" /\ pc' = [pc EXCEPT ![t] = "ended"]
      /\ UNCHANGED <<mode, main, queue, batch, backlog, draining, pools, requests, accepted, handled>>
  BY DEF worker_ends, KeepMain, KeepRequest
<1>2. t \in Threads /\ pc'[t] = "ended" /\ \A u \in Threads : u # t => pc'[u] = pc[u]
  BY <1>1 DEF BInv, FullTypeOK, TypeOK, Threads
<1>3. FullTypeOK'
  BY <1>1, Takers, BackgroundAssumption, <1>2 DEF BInv, FullTypeOK, TypeOK, Stages,
     PastWorkers, StopMetrics, AfterFile, AfterDb, Ending, Starting, Threads
<1>4. InPlace'
  BY <1>1, Takers, BackgroundAssumption, <1>2 DEF BInv, InPlace, Places, Threads
<1>5. StartOrder'
  BY <1>1, Takers, BackgroundAssumption, <1>2 DEF BInv, StartOrder, Starting, Threads
<1>6. StopOrder'
  BY <1>1, Takers, BackgroundAssumption, <1>2 DEF BInv, StopOrder, Gone, Abandoned,
     PastWorkers, StopMetrics, AfterFile, AfterDb, Ending, Threads
<1>7. NothingBefore'
  BY <1>1, Takers, BackgroundAssumption, <1>2 DEF BInv, NothingBefore, Threads
<1>8. QueueLife'
  BY <1>1, Takers, BackgroundAssumption, <1>2 DEF BInv, QueueLife, Gone, StopMetrics,
     AfterFile, AfterDb, Ending, Threads
<1>9. EndsDrained'
  BY <1>1, Takers, BackgroundAssumption, <1>2 DEF BInv, EndsDrained, Threads
<1>10. BatchSize'
  BY <1>1, Takers, BackgroundAssumption, <1>2 DEF BInv, BatchSize, Threads
<1>11. Conserved'
  BY <1>1, Takers, BackgroundAssumption, <1>2 DEF BInv, Conserved, InHand, Threads
<1>12. EveryItemSettled'
  BY <1>1, Takers, BackgroundAssumption, <1>2 DEF BInv, EveryItemSettled, Threads
<1> QED
  BY <1>3, <1>4, <1>5, <1>6, <1>7, <1>8, <1>9, <1>10, <1>11, <1>12 DEF BInv

\* A wait returns without a signal.
LEMMA WakeStep ==
    ASSUME BInv, NEW t \in Threads, spurious_wakeup(t)
    PROVE  BInv'
<1>1. /\ pc[t] = "sleep" /\ pc' = [pc EXCEPT ![t] = "run"]
      /\ UNCHANGED <<mode, main, queue, batch, backlog, draining, pools, requests, accepted, handled>>
  BY DEF spurious_wakeup, KeepMain, KeepRequest
<1>2. pc'[t] = "run" /\ \A u \in Threads : u # t => pc'[u] = pc[u]
  BY <1>1 DEF BInv, FullTypeOK, TypeOK
<1>3. FullTypeOK'
  BY <1>1, Takers, BackgroundAssumption, <1>2 DEF BInv, FullTypeOK, TypeOK, Stages,
     PastWorkers, StopMetrics, AfterFile, AfterDb, Ending, Starting, Threads
<1>4. InPlace'
  BY <1>1, Takers, BackgroundAssumption, <1>2 DEF BInv, InPlace, Places, Threads
<1>5. StartOrder'
  BY <1>1, Takers, BackgroundAssumption, <1>2 DEF BInv, StartOrder, Starting, Threads
<1>6. StopOrder'
  BY <1>1, Takers, BackgroundAssumption, <1>2 DEF BInv, StopOrder, Gone, Abandoned,
     PastWorkers, StopMetrics, AfterFile, AfterDb, Ending, Threads
<1>7. NothingBefore'
  BY <1>1, Takers, BackgroundAssumption, <1>2 DEF BInv, NothingBefore, Threads
<1>8. QueueLife'
  BY <1>1, Takers, BackgroundAssumption, <1>2 DEF BInv, QueueLife, Gone, StopMetrics,
     AfterFile, AfterDb, Ending, Threads
<1>9. EndsDrained'
  BY <1>1, Takers, BackgroundAssumption, <1>2 DEF BInv, EndsDrained, Threads
<1>10. BatchSize'
  BY <1>1, Takers, BackgroundAssumption, <1>2 DEF BInv, BatchSize, Threads
<1>11. Conserved'
  BY <1>1, Takers, BackgroundAssumption, <1>2 DEF BInv, Conserved, InHand, Threads
<1>12. EveryItemSettled'
  BY <1>1, Takers, BackgroundAssumption, <1>2 DEF BInv, EveryItemSettled, Threads
<1> QED
  BY <1>3, <1>4, <1>5, <1>6, <1>7, <1>8, <1>9, <1>10, <1>11, <1>12 DEF BInv

\* The DB writer's batch has been inserted, or skipped.
LEMMA FlushStep ==
    ASSUME BInv, flush
    PROVE  BInv'
<1>1. /\ pc["dbw"] \in {"flush", "flush_last"} /\ batch' = 0
      /\ handled' = [handled EXCEPT !["db"] = @ + batch]
      /\ pc' = [pc EXCEPT !["dbw"] = IF pc["dbw"] = "flush" THEN "run" ELSE "ended"]
      /\ UNCHANGED <<mode, main, queue, backlog, draining, pools, requests, accepted>>
  BY DEF flush, KeepMain, KeepRequest
<1>2. /\ pc'["dbw"] = (IF pc["dbw"] = "flush" THEN "run" ELSE "ended")
      /\ \A u \in Threads : u # "dbw" => pc'[u] = pc[u]
  BY <1>1 DEF BInv, FullTypeOK, TypeOK, Threads
<1>3. /\ handled'["db"] = handled["db"] + batch /\ handled' \in [Queues -> Nat]
      /\ \A q \in Queues : q # "db" => handled'[q] = handled[q]
  BY <1>1, Takers DEF BInv, FullTypeOK, TypeOK
<1>4. FullTypeOK'
  BY <1>1, Takers, BackgroundAssumption, <1>2, <1>3
     DEF BInv, FullTypeOK, TypeOK, Stages, PastWorkers, StopMetrics, AfterFile, AfterDb,
     Ending, Starting, Threads
<1>5. InPlace'
  BY <1>1, Takers, BackgroundAssumption, <1>2, <1>3 DEF BInv, InPlace, Places, Threads
<1>6. StartOrder'
  BY <1>1, Takers, BackgroundAssumption, <1>2, <1>3 DEF BInv, StartOrder, Starting, Threads
<1>7. StopOrder'
  BY <1>1, Takers, BackgroundAssumption, <1>2, <1>3
     DEF BInv, StopOrder, Gone, Abandoned, PastWorkers, StopMetrics, AfterFile, AfterDb,
     Ending, Threads
<1>8. NothingBefore'
  BY <1>1, Takers, BackgroundAssumption, <1>2, <1>3 DEF BInv, NothingBefore, Threads
<1>9. QueueLife'
  BY <1>1, Takers, BackgroundAssumption, <1>2, <1>3
     DEF BInv, QueueLife, Gone, StopMetrics, AfterFile, AfterDb, Ending, Threads
<1>10. EndsDrained'
  BY <1>1, Takers, BackgroundAssumption, <1>2, <1>3 DEF BInv, EndsDrained, Threads
<1>11. BatchSize'
  BY <1>1, Takers, BackgroundAssumption, <1>2, <1>3 DEF BInv, BatchSize, Threads
<1>12. Conserved'
  BY <1>1, Takers, BackgroundAssumption, <1>2, <1>3, Numbers
     DEF BInv, Conserved, InHand, Threads
<1>13. EveryItemSettled'
  BY <1>1, Takers, BackgroundAssumption, <1>2, <1>3
     DEF BInv, EveryItemSettled, QueueLife, Gone, StopMetrics, AfterFile, AfterDb, Ending,
     StopOrder, Threads
<1> QED
  BY <1>4, <1>5, <1>6, <1>7, <1>8, <1>9, <1>10, <1>11, <1>12, <1>13 DEF BInv

\* The Session Manager thread finds its queue empty.
LEMMA RunnerWaits ==
    ASSUME BInv, pc["runner"] = "run", queue["touch"].items = 0, ~queue["touch"].shut,
           pc' = [pc EXCEPT !["runner"] = "sleep"],
           UNCHANGED <<mode, main, queue, batch, backlog, draining, pools, requests, accepted, handled>>
    PROVE  BInv'
<1>1. pc'["runner"] = "sleep" /\ \A u \in Threads : u # "runner" => pc'[u] = pc[u]
  BY DEF BInv, FullTypeOK, TypeOK, Threads
<1>2. FullTypeOK'
  BY <1>1, Takers, BackgroundAssumption DEF BInv, FullTypeOK, TypeOK, Stages, PastWorkers,
     StopMetrics, AfterFile, AfterDb, Ending, Starting, Threads, QueueType
<1>3. InPlace'
  BY <1>1, Takers, BackgroundAssumption DEF BInv, InPlace, Places, Threads, QueueType
<1>4. StartOrder'
  BY <1>1, Takers, BackgroundAssumption DEF BInv, StartOrder, Starting, Threads, QueueType
<1>5. StopOrder'
  BY <1>1, Takers, BackgroundAssumption DEF BInv, StopOrder, Gone, Abandoned, PastWorkers,
     StopMetrics, AfterFile, AfterDb, Ending, Threads, QueueType
<1>6. NothingBefore'
  BY <1>1, Takers, BackgroundAssumption DEF BInv, NothingBefore, Threads, QueueType
<1>7. QueueLife'
  BY <1>1, Takers, BackgroundAssumption DEF BInv, QueueLife, Gone, StopMetrics, AfterFile,
     AfterDb, Ending, Threads, QueueType
<1>8. EndsDrained'
  BY <1>1, Takers, BackgroundAssumption DEF BInv, EndsDrained, Threads, QueueType
<1>9. BatchSize'
  BY <1>1, Takers, BackgroundAssumption DEF BInv, BatchSize, Threads, QueueType
<1>10. Conserved'
  BY <1>1, Takers, BackgroundAssumption DEF BInv, Conserved, InHand, Threads, QueueType
<1>11. EveryItemSettled'
  BY <1>1, Takers, BackgroundAssumption, Numbers
     DEF BInv, EveryItemSettled, QueueLife, Gone, StopMetrics, AfterFile, AfterDb, Ending,
     StopOrder, Conserved, InHand, BatchSize, Threads, QueueType
<1> QED
  BY <1>2, <1>3, <1>4, <1>5, <1>6, <1>7, <1>8, <1>9, <1>10, <1>11 DEF BInv

\* The Session Manager thread finds its queue empty and shut down.
LEMMA RunnerEnds ==
    ASSUME BInv, pc["runner"] = "run", queue["touch"].items = 0, queue["touch"].shut,
           pc' = [pc EXCEPT !["runner"] = "ended"],
           UNCHANGED <<mode, main, queue, batch, backlog, draining, pools, requests, accepted, handled>>
    PROVE  BInv'
<1>1. pc'["runner"] = "ended" /\ \A u \in Threads : u # "runner" => pc'[u] = pc[u]
  BY DEF BInv, FullTypeOK, TypeOK, Threads
<1>2. FullTypeOK'
  BY <1>1, Takers, BackgroundAssumption DEF BInv, FullTypeOK, TypeOK, Stages, PastWorkers,
     StopMetrics, AfterFile, AfterDb, Ending, Starting, Threads, QueueType
<1>3. InPlace'
  BY <1>1, Takers, BackgroundAssumption DEF BInv, InPlace, Places, Threads, QueueType
<1>4. StartOrder'
  BY <1>1, Takers, BackgroundAssumption DEF BInv, StartOrder, Starting, Threads, QueueType
<1>5. StopOrder'
  BY <1>1, Takers, BackgroundAssumption DEF BInv, StopOrder, Gone, Abandoned, PastWorkers,
     StopMetrics, AfterFile, AfterDb, Ending, Threads, QueueType
<1>6. NothingBefore'
  BY <1>1, Takers, BackgroundAssumption DEF BInv, NothingBefore, Threads, QueueType
<1>7. QueueLife'
  BY <1>1, Takers, BackgroundAssumption DEF BInv, QueueLife, Gone, StopMetrics, AfterFile,
     AfterDb, Ending, Threads, QueueType
<1>8. EndsDrained'
  BY <1>1, Takers, BackgroundAssumption DEF BInv, EndsDrained, Threads, QueueType
<1>9. BatchSize'
  BY <1>1, Takers, BackgroundAssumption DEF BInv, BatchSize, Threads, QueueType
<1>10. Conserved'
  BY <1>1, Takers, BackgroundAssumption DEF BInv, Conserved, InHand, Threads, QueueType
<1>11. EveryItemSettled'
  BY <1>1, Takers, BackgroundAssumption, Numbers
     DEF BInv, EveryItemSettled, QueueLife, Gone, StopMetrics, AfterFile, AfterDb, Ending,
     StopOrder, Conserved, InHand, BatchSize, Threads, QueueType
<1> QED
  BY <1>2, <1>3, <1>4, <1>5, <1>6, <1>7, <1>8, <1>9, <1>10, <1>11 DEF BInv

\* The file writer finds its queue empty.
LEMMA FileWriterWaits ==
    ASSUME BInv, pc["filew"] = "run", queue["file"].items = 0, ~queue["file"].shut,
           pc' = [pc EXCEPT !["filew"] = "sleep"],
           UNCHANGED <<mode, main, queue, batch, backlog, draining, pools, requests, accepted, handled>>
    PROVE  BInv'
<1>1. pc'["filew"] = "sleep" /\ \A u \in Threads : u # "filew" => pc'[u] = pc[u]
  BY DEF BInv, FullTypeOK, TypeOK, Threads
<1>2. FullTypeOK'
  BY <1>1, Takers, BackgroundAssumption DEF BInv, FullTypeOK, TypeOK, Stages, PastWorkers,
     StopMetrics, AfterFile, AfterDb, Ending, Starting, Threads, QueueType
<1>3. InPlace'
  BY <1>1, Takers, BackgroundAssumption DEF BInv, InPlace, Places, Threads, QueueType
<1>4. StartOrder'
  BY <1>1, Takers, BackgroundAssumption DEF BInv, StartOrder, Starting, Threads, QueueType
<1>5. StopOrder'
  BY <1>1, Takers, BackgroundAssumption DEF BInv, StopOrder, Gone, Abandoned, PastWorkers,
     StopMetrics, AfterFile, AfterDb, Ending, Threads, QueueType
<1>6. NothingBefore'
  BY <1>1, Takers, BackgroundAssumption DEF BInv, NothingBefore, Threads, QueueType
<1>7. QueueLife'
  BY <1>1, Takers, BackgroundAssumption DEF BInv, QueueLife, Gone, StopMetrics, AfterFile,
     AfterDb, Ending, Threads, QueueType
<1>8. EndsDrained'
  BY <1>1, Takers, BackgroundAssumption DEF BInv, EndsDrained, Threads, QueueType
<1>9. BatchSize'
  BY <1>1, Takers, BackgroundAssumption DEF BInv, BatchSize, Threads, QueueType
<1>10. Conserved'
  BY <1>1, Takers, BackgroundAssumption DEF BInv, Conserved, InHand, Threads, QueueType
<1>11. EveryItemSettled'
  BY <1>1, Takers, BackgroundAssumption, Numbers
     DEF BInv, EveryItemSettled, QueueLife, Gone, StopMetrics, AfterFile, AfterDb, Ending,
     StopOrder, Conserved, InHand, BatchSize, Threads, QueueType
<1> QED
  BY <1>2, <1>3, <1>4, <1>5, <1>6, <1>7, <1>8, <1>9, <1>10, <1>11 DEF BInv

\* The file writer finds its queue empty and shut down.
LEMMA FileWriterEnds ==
    ASSUME BInv, pc["filew"] = "run", queue["file"].items = 0, queue["file"].shut,
           pc' = [pc EXCEPT !["filew"] = "ended"],
           UNCHANGED <<mode, main, queue, batch, backlog, draining, pools, requests, accepted, handled>>
    PROVE  BInv'
<1>1. pc'["filew"] = "ended" /\ \A u \in Threads : u # "filew" => pc'[u] = pc[u]
  BY DEF BInv, FullTypeOK, TypeOK, Threads
<1>2. FullTypeOK'
  BY <1>1, Takers, BackgroundAssumption DEF BInv, FullTypeOK, TypeOK, Stages, PastWorkers,
     StopMetrics, AfterFile, AfterDb, Ending, Starting, Threads, QueueType
<1>3. InPlace'
  BY <1>1, Takers, BackgroundAssumption DEF BInv, InPlace, Places, Threads, QueueType
<1>4. StartOrder'
  BY <1>1, Takers, BackgroundAssumption DEF BInv, StartOrder, Starting, Threads, QueueType
<1>5. StopOrder'
  BY <1>1, Takers, BackgroundAssumption DEF BInv, StopOrder, Gone, Abandoned, PastWorkers,
     StopMetrics, AfterFile, AfterDb, Ending, Threads, QueueType
<1>6. NothingBefore'
  BY <1>1, Takers, BackgroundAssumption DEF BInv, NothingBefore, Threads, QueueType
<1>7. QueueLife'
  BY <1>1, Takers, BackgroundAssumption DEF BInv, QueueLife, Gone, StopMetrics, AfterFile,
     AfterDb, Ending, Threads, QueueType
<1>8. EndsDrained'
  BY <1>1, Takers, BackgroundAssumption DEF BInv, EndsDrained, Threads, QueueType
<1>9. BatchSize'
  BY <1>1, Takers, BackgroundAssumption DEF BInv, BatchSize, Threads, QueueType
<1>10. Conserved'
  BY <1>1, Takers, BackgroundAssumption DEF BInv, Conserved, InHand, Threads, QueueType
<1>11. EveryItemSettled'
  BY <1>1, Takers, BackgroundAssumption, Numbers
     DEF BInv, EveryItemSettled, QueueLife, Gone, StopMetrics, AfterFile, AfterDb, Ending,
     StopOrder, Conserved, InHand, BatchSize, Threads, QueueType
<1> QED
  BY <1>2, <1>3, <1>4, <1>5, <1>6, <1>7, <1>8, <1>9, <1>10, <1>11 DEF BInv

\* The DB writer finds its queue empty.
LEMMA DbWriterWaits ==
    ASSUME BInv, pc["dbw"] = "run", queue["db"].items = 0, ~queue["db"].shut,
           pc' = [pc EXCEPT !["dbw"] = "sleep"],
           UNCHANGED <<mode, main, queue, batch, backlog, draining, pools, requests, accepted, handled>>
    PROVE  BInv'
<1>1. pc'["dbw"] = "sleep" /\ \A u \in Threads : u # "dbw" => pc'[u] = pc[u]
  BY DEF BInv, FullTypeOK, TypeOK, Threads
<1>2. FullTypeOK'
  BY <1>1, Takers, BackgroundAssumption DEF BInv, FullTypeOK, TypeOK, Stages, PastWorkers,
     StopMetrics, AfterFile, AfterDb, Ending, Starting, Threads, QueueType
<1>3. InPlace'
  BY <1>1, Takers, BackgroundAssumption DEF BInv, InPlace, Places, Threads, QueueType
<1>4. StartOrder'
  BY <1>1, Takers, BackgroundAssumption DEF BInv, StartOrder, Starting, Threads, QueueType
<1>5. StopOrder'
  BY <1>1, Takers, BackgroundAssumption DEF BInv, StopOrder, Gone, Abandoned, PastWorkers,
     StopMetrics, AfterFile, AfterDb, Ending, Threads, QueueType
<1>6. NothingBefore'
  BY <1>1, Takers, BackgroundAssumption DEF BInv, NothingBefore, Threads, QueueType
<1>7. QueueLife'
  BY <1>1, Takers, BackgroundAssumption DEF BInv, QueueLife, Gone, StopMetrics, AfterFile,
     AfterDb, Ending, Threads, QueueType
<1>8. EndsDrained'
  BY <1>1, Takers, BackgroundAssumption DEF BInv, EndsDrained, Threads, QueueType
<1>9. BatchSize'
  BY <1>1, Takers, BackgroundAssumption DEF BInv, BatchSize, Threads, QueueType
<1>10. Conserved'
  BY <1>1, Takers, BackgroundAssumption DEF BInv, Conserved, InHand, Threads, QueueType
<1>11. EveryItemSettled'
  BY <1>1, Takers, BackgroundAssumption, Numbers
     DEF BInv, EveryItemSettled, QueueLife, Gone, StopMetrics, AfterFile, AfterDb, Ending,
     StopOrder, Conserved, InHand, BatchSize, Threads, QueueType
<1> QED
  BY <1>2, <1>3, <1>4, <1>5, <1>6, <1>7, <1>8, <1>9, <1>10, <1>11 DEF BInv

\* The DB writer finds its queue empty and shut down.
LEMMA DbWriterEnds ==
    ASSUME BInv, pc["dbw"] = "run", queue["db"].items = 0, queue["db"].shut,
           pc' = [pc EXCEPT !["dbw"] = "ended"],
           UNCHANGED <<mode, main, queue, batch, backlog, draining, pools, requests, accepted, handled>>
    PROVE  BInv'
<1>1. pc'["dbw"] = "ended" /\ \A u \in Threads : u # "dbw" => pc'[u] = pc[u]
  BY DEF BInv, FullTypeOK, TypeOK, Threads
<1>2. FullTypeOK'
  BY <1>1, Takers, BackgroundAssumption DEF BInv, FullTypeOK, TypeOK, Stages, PastWorkers,
     StopMetrics, AfterFile, AfterDb, Ending, Starting, Threads, QueueType
<1>3. InPlace'
  BY <1>1, Takers, BackgroundAssumption DEF BInv, InPlace, Places, Threads, QueueType
<1>4. StartOrder'
  BY <1>1, Takers, BackgroundAssumption DEF BInv, StartOrder, Starting, Threads, QueueType
<1>5. StopOrder'
  BY <1>1, Takers, BackgroundAssumption DEF BInv, StopOrder, Gone, Abandoned, PastWorkers,
     StopMetrics, AfterFile, AfterDb, Ending, Threads, QueueType
<1>6. NothingBefore'
  BY <1>1, Takers, BackgroundAssumption DEF BInv, NothingBefore, Threads, QueueType
<1>7. QueueLife'
  BY <1>1, Takers, BackgroundAssumption DEF BInv, QueueLife, Gone, StopMetrics, AfterFile,
     AfterDb, Ending, Threads, QueueType
<1>8. EndsDrained'
  BY <1>1, Takers, BackgroundAssumption DEF BInv, EndsDrained, Threads, QueueType
<1>9. BatchSize'
  BY <1>1, Takers, BackgroundAssumption DEF BInv, BatchSize, Threads, QueueType
<1>10. Conserved'
  BY <1>1, Takers, BackgroundAssumption DEF BInv, Conserved, InHand, Threads, QueueType
<1>11. EveryItemSettled'
  BY <1>1, Takers, BackgroundAssumption, Numbers
     DEF BInv, EveryItemSettled, QueueLife, Gone, StopMetrics, AfterFile, AfterDb, Ending,
     StopOrder, Conserved, InHand, BatchSize, Threads, QueueType
<1> QED
  BY <1>2, <1>3, <1>4, <1>5, <1>6, <1>7, <1>8, <1>9, <1>10, <1>11 DEF BInv

\* The Session Manager thread takes a report of activity.
LEMMA RunnerTakes ==
    ASSUME BInv, pc["runner"] = "run", Pop("touch"), pc' = [pc EXCEPT !["runner"] = "file"],
           UNCHANGED <<mode, main, batch, backlog, draining, pools, requests, accepted, handled>>
    PROVE  BInv'
<1>1. queue["touch"].items > 0 /\ queue' = [queue EXCEPT !["touch"].items = @ - 1]
  BY DEF Pop
<1>2. pc'["runner"] = "file" /\ \A u \in Threads : u # "runner" => pc'[u] = pc[u]
  BY DEF BInv, FullTypeOK, TypeOK, Threads
<1>3. /\ queue' \in QueueType
      /\ queue'["touch"].items = queue["touch"].items - 1 /\ queue["touch"].items - 1 \in 0 .. Depth
      /\ queue'["touch"].state = queue["touch"].state /\ queue'["touch"].shut = queue["touch"].shut
      /\ \A p \in Queues : p # "touch" => queue'[p] = queue[p]
  <2>1. FullTypeOK /\ "touch" \in Queues
    BY Takers DEF BInv
  <2>2. queue["touch"].items - 1 \in 0 .. Depth
    BY <1>1, <2>1, Numbers
  <2>3. queue' = [queue EXCEPT !["touch"].items = queue["touch"].items - 1]
    BY <1>1
  <2> QED
    BY <2>1, <2>2, <2>3, LengthSet
<1>4. FullTypeOK'
  BY <1>1, <1>2, <1>3, Takers, BackgroundAssumption
     DEF BInv, FullTypeOK, TypeOK, Stages, PastWorkers, StopMetrics, AfterFile, AfterDb,
     Ending, Starting, Threads, QueueType
<1>5. InPlace'
  BY <1>1, <1>2, <1>3, Takers, BackgroundAssumption
     DEF BInv, InPlace, Places, Threads, QueueType
<1>6. StartOrder'
  BY <1>1, <1>2, <1>3, Takers, BackgroundAssumption
     DEF BInv, StartOrder, Starting, Threads, QueueType
<1>7. StopOrder'
  BY <1>1, <1>2, <1>3, Takers, BackgroundAssumption
     DEF BInv, StopOrder, Gone, Abandoned, PastWorkers, StopMetrics, AfterFile, AfterDb,
     Ending, NothingBefore, Threads, QueueType
<1>8. NothingBefore'
  BY <1>1, <1>2, <1>3, Takers, BackgroundAssumption, Numbers
     DEF BInv, NothingBefore, Threads, QueueType
<1>9. QueueLife'
  BY <1>1, <1>2, <1>3, Takers, BackgroundAssumption
     DEF BInv, QueueLife, Gone, StopMetrics, AfterFile, AfterDb, Ending, Threads, QueueType
<1>10. EndsDrained'
  BY <1>1, <1>2, <1>3, Takers, BackgroundAssumption
     DEF BInv, EndsDrained, Threads, QueueType
<1>11. BatchSize'
  BY <1>1, <1>2, <1>3, Takers, BackgroundAssumption DEF BInv, BatchSize, Threads, QueueType
<1>12. Conserved'
  BY <1>1, <1>2, <1>3, Takers, BackgroundAssumption, Numbers
     DEF BInv, Conserved, InHand, Threads, QueueType
<1>13. EveryItemSettled'
  BY <1>1, <1>2, <1>3, Takers, BackgroundAssumption
     DEF BInv, EveryItemSettled, Threads, QueueType
<1> QED
  BY <1>4, <1>5, <1>6, <1>7, <1>8, <1>9, <1>10, <1>11, <1>12, <1>13 DEF BInv

\* The file writer takes a record and writes it.
LEMMA FileWriterTakes ==
    ASSUME BInv, pc["filew"] = "run", Pop("file"), pc' = [pc EXCEPT !["filew"] = "run"],
           handled' = [handled EXCEPT !["file"] = @ + 1],
           UNCHANGED <<mode, main, batch, backlog, draining, pools, requests, accepted>>
    PROVE  BInv'
<1>1. queue["file"].items > 0 /\ queue' = [queue EXCEPT !["file"].items = @ - 1]
  BY DEF Pop
<1>2. pc'["filew"] = "run" /\ \A u \in Threads : u # "filew" => pc'[u] = pc[u]
  BY DEF BInv, FullTypeOK, TypeOK, Threads
<1>3. /\ queue' \in QueueType
      /\ queue'["file"].items = queue["file"].items - 1 /\ queue["file"].items - 1 \in 0 .. Depth
      /\ queue'["file"].state = queue["file"].state /\ queue'["file"].shut = queue["file"].shut
      /\ \A p \in Queues : p # "file" => queue'[p] = queue[p]
  <2>1. FullTypeOK /\ "file" \in Queues
    BY Takers DEF BInv
  <2>2. queue["file"].items - 1 \in 0 .. Depth
    BY <1>1, <2>1, Numbers
  <2>3. queue' = [queue EXCEPT !["file"].items = queue["file"].items - 1]
    BY <1>1
  <2> QED
    BY <2>1, <2>2, <2>3, LengthSet
<1>4. /\ handled'["file"] = handled["file"] + 1 /\ handled' \in [Queues -> Nat]
      /\ \A q \in Queues : q # "file" => handled'[q] = handled[q]
  BY Takers DEF BInv, FullTypeOK, TypeOK
<1>5. FullTypeOK'
  BY <1>1, <1>2, <1>3, Takers, BackgroundAssumption, <1>4
     DEF BInv, FullTypeOK, TypeOK, Stages, PastWorkers, StopMetrics, AfterFile, AfterDb,
     Ending, Starting, Threads, QueueType
<1>6. InPlace'
  BY <1>1, <1>2, <1>3, Takers, BackgroundAssumption, <1>4
     DEF BInv, InPlace, Places, Threads, QueueType
<1>7. StartOrder'
  BY <1>1, <1>2, <1>3, Takers, BackgroundAssumption, <1>4
     DEF BInv, StartOrder, Starting, Threads, QueueType
<1>8. StopOrder'
  BY <1>1, <1>2, <1>3, Takers, BackgroundAssumption, <1>4
     DEF BInv, StopOrder, Gone, Abandoned, PastWorkers, StopMetrics, AfterFile, AfterDb,
     Ending, Threads, QueueType
<1>9. NothingBefore'
  BY <1>1, <1>2, <1>3, Takers, BackgroundAssumption, <1>4, Numbers
     DEF BInv, NothingBefore, Threads, QueueType
<1>10. QueueLife'
  BY <1>1, <1>2, <1>3, Takers, BackgroundAssumption, <1>4
     DEF BInv, QueueLife, Gone, StopMetrics, AfterFile, AfterDb, Ending, Threads, QueueType
<1>11. EndsDrained'
  BY <1>1, <1>2, <1>3, Takers, BackgroundAssumption, <1>4
     DEF BInv, EndsDrained, Threads, QueueType
<1>12. BatchSize'
  BY <1>1, <1>2, <1>3, Takers, BackgroundAssumption, <1>4
     DEF BInv, BatchSize, Threads, QueueType
<1>13. Conserved'
  BY <1>1, <1>2, <1>3, Takers, BackgroundAssumption, <1>4, Numbers
     DEF BInv, Conserved, InHand, Threads, QueueType
<1>14. EveryItemSettled'
  BY <1>1, <1>2, <1>3, Takers, BackgroundAssumption, <1>4
     DEF BInv, EveryItemSettled, QueueLife, Gone, StopMetrics, AfterFile, AfterDb, Ending,
     StopOrder, Threads, QueueType
<1> QED
  BY <1>5, <1>6, <1>7, <1>8, <1>9, <1>10, <1>11, <1>12, <1>13, <1>14 DEF BInv

\* The DB writer adds a record to its batch.
LEMMA DbWriterTakes ==
    ASSUME BInv, NEW n \in Nat, n < PerWrite, batch = n, pc["dbw"] \in {"run", "gather", "nap"}, Pop("db"),
           batch' = n + 1, pc' = [pc EXCEPT !["dbw"] = Collected(n + 1)],
           UNCHANGED <<mode, main, backlog, draining, pools, requests, accepted, handled>>
    PROVE  BInv'
<1>1. queue["db"].items > 0 /\ queue' = [queue EXCEPT !["db"].items = @ - 1]
  BY DEF Pop
<1>2. pc'["dbw"] = Collected(n + 1) /\ \A u \in Threads : u # "dbw" => pc'[u] = pc[u]
  BY DEF BInv, FullTypeOK, TypeOK, Threads
<1>3. /\ queue' \in QueueType
      /\ queue'["db"].items = queue["db"].items - 1 /\ queue["db"].items - 1 \in 0 .. Depth
      /\ queue'["db"].state = queue["db"].state /\ queue'["db"].shut = queue["db"].shut
      /\ \A p \in Queues : p # "db" => queue'[p] = queue[p]
  <2>1. FullTypeOK /\ "db" \in Queues
    BY Takers DEF BInv
  <2>2. queue["db"].items - 1 \in 0 .. Depth
    BY <1>1, <2>1, Numbers
  <2>3. queue' = [queue EXCEPT !["db"].items = queue["db"].items - 1]
    BY <1>1
  <2> QED
    BY <2>1, <2>2, <2>3, LengthSet
<1>4. /\ Collected(n + 1) \in {"gather", "flush"} /\ n + 1 \in 1 .. PerWrite
      /\ Collected(n + 1) = "gather" => n + 1 \in 1 .. PerWrite - 1
  BY BackgroundAssumption DEF Collected
<1>5. FullTypeOK'
  BY <1>1, <1>2, <1>3, Takers, BackgroundAssumption, <1>4
     DEF BInv, FullTypeOK, TypeOK, Stages, PastWorkers, StopMetrics, AfterFile, AfterDb,
     Ending, Starting, Threads, QueueType
<1>6. InPlace'
  BY <1>1, <1>2, <1>3, Takers, BackgroundAssumption, <1>4
     DEF BInv, InPlace, Places, Threads, QueueType
<1>7. StartOrder'
  BY <1>1, <1>2, <1>3, Takers, BackgroundAssumption, <1>4
     DEF BInv, StartOrder, Starting, Threads, QueueType
<1>8. StopOrder'
  BY <1>1, <1>2, <1>3, Takers, BackgroundAssumption, <1>4
     DEF BInv, StopOrder, Gone, Abandoned, PastWorkers, StopMetrics, AfterFile, AfterDb,
     Ending, Threads, QueueType
<1>9. NothingBefore'
  BY <1>1, <1>2, <1>3, Takers, BackgroundAssumption, <1>4, Numbers
     DEF BInv, NothingBefore, Threads, QueueType
<1>10. QueueLife'
  BY <1>1, <1>2, <1>3, Takers, BackgroundAssumption, <1>4
     DEF BInv, QueueLife, Gone, StopMetrics, AfterFile, AfterDb, Ending, Threads, QueueType
<1>11. EndsDrained'
  BY <1>1, <1>2, <1>3, Takers, BackgroundAssumption, <1>4
     DEF BInv, EndsDrained, Threads, QueueType
<1>12. BatchSize'
  BY <1>1, <1>2, <1>3, Takers, BackgroundAssumption, <1>4
     DEF BInv, BatchSize, Threads, QueueType
<1>13. Conserved'
  BY <1>1, <1>2, <1>3, Takers, BackgroundAssumption, <1>4, Numbers
     DEF BInv, Conserved, InHand, Threads, QueueType
<1>14. EveryItemSettled'
  BY <1>1, <1>2, <1>3, Takers, BackgroundAssumption, <1>4
     DEF BInv, EveryItemSettled, QueueLife, Gone, StopMetrics, AfterFile, AfterDb, Ending,
     StopOrder, Threads, QueueType
<1> QED
  BY <1>5, <1>6, <1>7, <1>8, <1>9, <1>10, <1>11, <1>12, <1>13, <1>14 DEF BInv

\* The DB writer waits for more, or stops collecting.
LEMMA DbWriterMoves ==
    ASSUME BInv, NEW l \in {"nap", "flush", "flush_last"}, pc["dbw"] \in {"gather", "nap"},
           l = "flush_last" => queue["db"].shut /\ queue["db"].items = 0,
           pc' = [pc EXCEPT !["dbw"] = l], UNCHANGED <<mode, main, queue, batch, backlog, draining, pools, requests, accepted, handled>>
    PROVE  BInv'
<1>1. pc'["dbw"] = l /\ \A u \in Threads : u # "dbw" => pc'[u] = pc[u]
  BY DEF BInv, FullTypeOK, TypeOK, Threads
<1>2. FullTypeOK'
  BY <1>1, Takers, BackgroundAssumption DEF BInv, FullTypeOK, TypeOK, Stages, PastWorkers,
     StopMetrics, AfterFile, AfterDb, Ending, Starting, Threads, QueueType
<1>3. InPlace'
  BY <1>1, Takers, BackgroundAssumption DEF BInv, InPlace, Places, Threads, QueueType
<1>4. StartOrder'
  BY <1>1, Takers, BackgroundAssumption DEF BInv, StartOrder, Starting, Threads, QueueType
<1>5. StopOrder'
  BY <1>1, Takers, BackgroundAssumption DEF BInv, StopOrder, Gone, Abandoned, PastWorkers,
     StopMetrics, AfterFile, AfterDb, Ending, Threads, QueueType
<1>6. NothingBefore'
  BY <1>1, Takers, BackgroundAssumption DEF BInv, NothingBefore, Threads, QueueType
<1>7. QueueLife'
  BY <1>1, Takers, BackgroundAssumption DEF BInv, QueueLife, Gone, StopMetrics, AfterFile,
     AfterDb, Ending, Threads, QueueType
<1>8. EndsDrained'
  BY <1>1, Takers, BackgroundAssumption DEF BInv, EndsDrained, Threads, QueueType
<1>9. BatchSize'
  BY <1>1, Takers, BackgroundAssumption DEF BInv, BatchSize, Threads, QueueType
<1>10. Conserved'
  BY <1>1, Takers, BackgroundAssumption DEF BInv, Conserved, InHand, Threads, QueueType
<1>11. EveryItemSettled'
  BY <1>1, Takers, BackgroundAssumption DEF BInv, EveryItemSettled, Threads, QueueType
<1> QED
  BY <1>2, <1>3, <1>4, <1>5, <1>6, <1>7, <1>8, <1>9, <1>10, <1>11 DEF BInv

\* While main() has not joined a producer, no queue it uses is shut down.
LEMMA Producers ==
    ASSUME BInv, NEW t \in Threads, pc[t] \in {"file", "db", "touch"}
    PROVE  /\ t \in Workers \cup {"consumer", "runner"} /\ (pc[t] = "touch" => t \in Workers)
           /\ main \notin StopMetrics /\ (t # "runner" => main \notin PastWorkers)
           /\ pc["consumer"] # "none"
           /\ \A q \in {"file", "db"} : ~queue[q].shut /\ queue[q].state # "freed"
           /\ t # "runner" => ~queue["touch"].shut
           /\ queue["touch"].state # "freed"
<1>1. t \in Workers \cup {"consumer", "runner"} /\ (pc[t] = "touch" => t \in Workers)
  BY BackgroundAssumption DEF BInv, InPlace, Places, Threads
<1>2. pc["consumer"] # "none"
  BY DEF BInv, NothingBefore
<1>3. main \notin StopMetrics /\ (t # "runner" => main \notin PastWorkers)
  BY <1>1, <1>2 DEF BInv, StopOrder, Gone, Abandoned, PastWorkers
<1> QED
  BY <1>1, <1>2, <1>3 DEF BInv, QueueLife, StopMetrics, AfterFile, AfterDb, Ending,
     PastWorkers

\* A record or a report is enqueued, or dropped: what produce(t) does for
\* one destination.
LEMMA EnqueueStep ==
    ASSUME BInv, NEW t \in Threads, NEW q \in Queues, NEW next \in {"db", "touch", "run"},
           Enqueue(t, q, next),
           q = "file" => next = "db", q = "touch" => next = "run",
           q = "db" => next = IF t \in Workers /\ mode = "FILE" THEN "touch" ELSE "run",
           handled' = IF t = "runner" /\ q = "db" THEN [handled EXCEPT !["touch"] = @ + 1] ELSE handled,
           UNCHANGED <<mode, main, batch, backlog, draining, pools, requests>>
    PROVE  BInv'
<1>1. pc[t] = q /\ pc[t] \in {"file", "db", "touch"}
  BY Takers DEF Enqueue
<1>2. /\ t \in Workers \cup {"consumer", "runner"} /\ (q = "touch" => t \in Workers)
      /\ main \notin StopMetrics /\ (t # "runner" => main \notin PastWorkers)
      /\ pc["consumer"] # "none"
      /\ queue[q].state # "freed" /\ ~queue[q].shut
  BY <1>1, Takers, Producers, BackgroundAssumption
<1>3. t # Taker(q) /\ Taker(q) \in Threads
  BY <1>2, Takers, BackgroundAssumption
<1>4. /\ pc' \in [Threads -> {"none", "start", "run", "sleep", "file", "db", "touch", "gather",
                              "nap", "flush", "flush_last", "ended", "dead"}]
      /\ pc'[t] = next
      /\ \A u \in Threads \ {t} : \/ pc'[u] = pc[u]
                                  \/ pc[u] = "sleep" /\ pc'[u] = "run"
                                  \/ pc[u] = "nap" /\ pc'[u] = "gather"
  BY <1>3 DEF Enqueue, Awake, BInv, FullTypeOK, TypeOK
<1>5. /\ queue' \in QueueType
      /\ accepted' \in [Queues -> Nat]
      /\ \A p \in Queues : queue'[p].state = queue[p].state /\ queue'[p].shut = queue[p].shut
      /\ \A p \in Queues : p # q => queue'[p] = queue[p] /\ accepted'[p] = accepted[p]
      /\ \/ queue'[q] = queue[q] /\ accepted'[q] = accepted[q]
         \/ /\ queue[q].state = "open"
            /\ queue'[q].items = queue[q].items + 1 /\ accepted'[q] = accepted[q] + 1
  <2>1. FullTypeOK
    BY DEF BInv
  <2>2. CASE queue[q].state = "open" /\ queue[q].items < Depth
    <3>1. queue[q].items + 1 \in 0 .. Depth
      BY <2>1, <2>2, Numbers
    <3>2. /\ queue' = [queue EXCEPT ![q].items = queue[q].items + 1]
          /\ accepted' = [accepted EXCEPT ![q] = accepted[q] + 1]
      BY <2>2 DEF Enqueue
    <3>3. /\ accepted' \in [Queues -> Nat] /\ accepted'[q] = accepted[q] + 1
          /\ \A p \in Queues : p # q => accepted'[p] = accepted[p]
      BY <2>1, <3>2 DEF FullTypeOK
    <3> QED
      BY <2>1, <2>2, <3>1, <3>2, <3>3, LengthSet
  <2>3. CASE ~(queue[q].state = "open" /\ queue[q].items < Depth)
    BY <2>1, <2>3 DEF Enqueue, FullTypeOK, TypeOK, QueueType
  <2> QED
    BY <2>2, <2>3
<1>6. /\ handled' \in [Queues -> Nat] /\ handled'["file"] = handled["file"] /\ handled'["db"] = handled["db"]
      /\ handled'["touch"] = IF t = "runner" /\ q = "db" THEN handled["touch"] + 1 ELSE handled["touch"]
  BY Takers DEF BInv, FullTypeOK
<1>7. \A u \in Threads : pc[u] \in Places(u)
  BY DEF BInv, InPlace
<1>8. \A u \in Threads \ {t} : u \in Workers \cup {"consumer"} => pc'[u] = pc[u]
  BY <1>4, <1>7, BackgroundAssumption DEF Places
<1>9. \A u \in Threads \ {t} : pc'[u] \in Places(u)
  BY <1>4, <1>7, BackgroundAssumption DEF Places, Threads
<1>10. next \in Places(t)
  <2>1. next = "touch" => t \in Workers
    BY Takers
  <2> QED
    BY <1>2, <2>1, BackgroundAssumption DEF Places
<1>11. \A u \in Threads : (Gone(u)' <=> Gone(u)) /\ (pc'[u] = "none" <=> pc[u] = "none")
                          /\ (pc'[u] = "ended" <=> pc[u] = "ended")
  BY <1>1, <1>4 DEF Gone
<1>12. FullTypeOK'
  BY <1>4, <1>5, <1>6 DEF BInv, FullTypeOK, TypeOK, QueueType
<1>13. InPlace'
  BY <1>4, <1>9, <1>10 DEF InPlace
<1>14. StartOrder'
  BY <1>5, <1>11, Takers DEF BInv, StartOrder, Threads
<1>15. StopOrder'
  BY <1>11 DEF BInv, StopOrder, Abandoned, Threads
<1>16. NothingBefore'
  BY <1>2, <1>11 DEF NothingBefore, Threads
<1>17. QueueLife'
  BY <1>1, <1>5, <1>11, Takers DEF BInv, QueueLife, Threads
<1>18. EndsDrained'
  <2>1. \A p \in Queues : queue'[p].shut => queue'[p] = queue[p]
    BY <1>2, <1>5
  <2>2. "dbw" \in Threads \ {t}
    BY <1>2, BackgroundAssumption DEF Threads
  <2> QED
    BY <1>4, <1>5, <1>11, <2>1, <2>2, Takers DEF BInv, EndsDrained
<1>19. BatchSize'
  <2>1. "dbw" \in Threads \ {t}
    BY <1>2, BackgroundAssumption DEF Threads
  <2> QED
    BY <1>4, <2>1 DEF BInv, BatchSize
<1>20. Conserved'
  <2>1. \A p \in Queues : (queue'[p].items = queue[p].items /\ accepted'[p] = accepted[p])
                         \/ (queue'[p].items = queue[p].items + 1 /\ accepted'[p] = accepted[p] + 1)
    BY <1>5
  <2>2. InHand("file")' = InHand("file") /\ InHand("db")' = InHand("db")
    BY DEF InHand
  <2>3. InHand("touch")' = IF t = "runner" /\ q = "db" THEN 0 ELSE InHand("touch")
    BY <1>1, <1>2, <1>4, BackgroundAssumption DEF InHand, Threads
  <2>4. t = "runner" /\ q = "db" => InHand("touch") = 1
    BY <1>1 DEF InHand
  <2>5. InHand("file") = 0 /\ InHand("db") = batch /\ InHand("touch") \in {0, 1}
    BY DEF InHand
  <2>6. FullTypeOK
    BY DEF BInv
  <2> QED
    BY <1>5, <1>6, <2>1, <2>2, <2>3, <2>4, <2>5, <2>6, Takers, Numbers DEF BInv, Conserved
<1>21. EveryItemSettled'
  <2>1. \A p \in Queues : queue'[p].state = "freed" => p # q
    BY <1>2, <1>5
  <2>2. pc[Taker("touch")] = "ended" => t # "runner"
    BY <1>1, Takers
  <2> QED
    BY <1>5, <1>6, <1>11, <2>1, <2>2, Takers DEF BInv, EveryItemSettled
<1> QED
  BY <1>12, <1>13, <1>14, <1>15, <1>16, <1>17, <1>18, <1>19, <1>20, <1>21 DEF BInv

\* A worker, the consumer or the Session Manager thread hands something on.
LEMMA ProduceStep ==
    ASSUME BInv, NEW t \in Threads, produce(t)
    PROVE  BInv'
<1>1. UNCHANGED <<mode, main, batch, backlog, draining, pools, requests>>
  BY DEF produce, KeepMain, KeepRequest
<1>2. handled' = IF t = "runner" /\ pc[t] = "db" THEN [handled EXCEPT !["touch"] = @ + 1] ELSE handled
  BY DEF produce
<1>3. CASE Enqueue(t, "file", "db")
  BY <1>1, <1>2, <1>3, Takers, EnqueueStep DEF Enqueue
<1>4. CASE Enqueue(t, "db", IF t \in Workers /\ mode = "FILE" THEN "touch" ELSE "run")
  <2>1. PICK next : next = IF t \in Workers /\ mode = "FILE" THEN "touch" ELSE "run"
    OBVIOUS
  <2>2. Enqueue(t, "db", next) /\ next \in {"db", "touch", "run"} /\ pc[t] = "db"
    BY <1>4, <2>1 DEF Enqueue
  <2> QED
    BY <1>1, <1>2, <2>1, <2>2, Takers, EnqueueStep
<1>5. CASE Enqueue(t, "touch", "run")
  BY <1>1, <1>2, <1>5, Takers, EnqueueStep DEF Enqueue
<1> QED
  BY <1>3, <1>4, <1>5 DEF produce

\* One pass of the Session Manager thread's or the file writer's loop.
LEMMA ServiceStep ==
    ASSUME BInv, NEW q \in Queues, service_next(q)
    PROVE  BInv'
<1>1. q \in {"touch", "file"} /\ pc[Taker(q)] = "run"
      /\ UNCHANGED <<mode, main, batch, backlog, draining, pools, requests, accepted>>
  BY DEF service_next, KeepMain, KeepRequest
<1>2. CASE q = "touch"
  <2>1. pc["runner"] = "run"
    BY <1>1, <1>2, Takers
  <2>2. \/ Pop("touch") /\ pc' = [pc EXCEPT !["runner"] = "file"] /\ UNCHANGED handled
        \/ Finished("touch") /\ pc' = [pc EXCEPT !["runner"] = "ended"] /\ UNCHANGED <<queue, handled>>
        \/ MustWait("touch") /\ pc' = [pc EXCEPT !["runner"] = "sleep"] /\ UNCHANGED <<queue, handled>>
    BY <1>2, Takers DEF service_next
  <2> QED
    BY <1>1, <2>1, <2>2, RunnerTakes, RunnerEnds, RunnerWaits DEF Finished, MustWait
<1>3. CASE q = "file"
  <2>1. pc["filew"] = "run"
    BY <1>1, <1>3, Takers
  <2>2. \/ Pop("file") /\ pc' = [pc EXCEPT !["filew"] = "run"]
           /\ handled' = [handled EXCEPT !["file"] = @ + 1]
        \/ Finished("file") /\ pc' = [pc EXCEPT !["filew"] = "ended"] /\ UNCHANGED <<queue, handled>>
        \/ MustWait("file") /\ pc' = [pc EXCEPT !["filew"] = "sleep"] /\ UNCHANGED <<queue, handled>>
    BY <1>3, Takers DEF service_next
  <2> QED
    BY <1>1, <2>1, <2>2, FileWriterTakes, FileWriterEnds, FileWriterWaits
       DEF Finished, MustWait
<1> QED
  BY <1>1, <1>2, <1>3

\* One step of the DB writer.
LEMMA BatchStep ==
    ASSUME BInv, batch_first \/ batch_more \/ batch_timeout
    PROVE  BInv'
<1>1. UNCHANGED <<mode, main, backlog, draining, pools, requests, accepted, handled>>
  BY DEF batch_first, batch_more, batch_timeout, KeepMain, KeepRequest
<1>2. CASE batch_first
  <2>1. batch = 0 /\ 0 \in Nat /\ 0 < PerWrite /\ pc["dbw"] = "run" /\ 0 + 1 = 1
    BY <1>2, BackgroundAssumption DEF batch_first, BInv, BatchSize
  <2>2. \/ Pop("db") /\ batch' = 1 /\ pc' = [pc EXCEPT !["dbw"] = Collected(1)]
        \/ Finished("db") /\ pc' = [pc EXCEPT !["dbw"] = "ended"] /\ UNCHANGED <<queue, batch>>
        \/ MustWait("db") /\ pc' = [pc EXCEPT !["dbw"] = "sleep"] /\ UNCHANGED <<queue, batch>>
    BY <1>2 DEF batch_first
  <2>3. CASE Pop("db") /\ batch' = 0 + 1 /\ pc' = [pc EXCEPT !["dbw"] = Collected(0 + 1)]
    BY <1>1, <2>1, <2>3, DbWriterTakes
  <2> QED
    BY <1>1, <2>1, <2>2, <2>3, DbWriterEnds, DbWriterWaits DEF Finished, MustWait
<1>3. CASE batch_more \/ batch_timeout
  <2>1. PICK n : n = batch
    OBVIOUS
  <2>2. pc["dbw"] \in {"gather", "nap"} /\ n \in Nat /\ n < PerWrite
    BY <1>3, <2>1, BackgroundAssumption DEF batch_more, batch_timeout, BInv, BatchSize
  <2>3. \/ Pop("db") /\ batch' = n + 1 /\ pc' = [pc EXCEPT !["dbw"] = Collected(n + 1)]
        \/ Finished("db") /\ pc' = [pc EXCEPT !["dbw"] = "flush_last"] /\ UNCHANGED <<queue, batch>>
        \/ pc' = [pc EXCEPT !["dbw"] = "nap"] /\ UNCHANGED <<queue, batch>>
        \/ pc' = [pc EXCEPT !["dbw"] = "flush"] /\ UNCHANGED <<queue, batch>>
    BY <1>3, <2>1 DEF batch_more, batch_timeout
  <2>4. CASE Pop("db") /\ batch' = n + 1 /\ pc' = [pc EXCEPT !["dbw"] = Collected(n + 1)]
    BY <1>1, <2>1, <2>2, <2>4, DbWriterTakes
  <2>5. CASE Finished("db") /\ pc' = [pc EXCEPT !["dbw"] = "flush_last"] /\ UNCHANGED <<queue, batch>>
    BY <1>1, <2>2, <2>5, DbWriterMoves DEF Finished
  <2>6. CASE pc' = [pc EXCEPT !["dbw"] = "nap"] /\ UNCHANGED <<queue, batch>>
    BY <1>1, <2>2, <2>6, DbWriterMoves
  <2>7. CASE pc' = [pc EXCEPT !["dbw"] = "flush"] /\ UNCHANGED <<queue, batch>>
    BY <1>1, <2>2, <2>7, DbWriterMoves
  <2> QED
    BY <2>3, <2>4, <2>5, <2>6, <2>7
<1> QED
  BY <1>2, <1>3

\* main() gives up for want of a metrics pool.
LEMMA RefuseStep ==
    ASSUME BInv, refuse_start
    PROVE  BInv'
<1>1. /\ main = "metrics" /\ main' = "halted"
      /\ UNCHANGED <<mode, pc, queue, batch, backlog, draining, pools, requests, accepted, handled>>
  BY DEF refuse_start, KeepWork
<1>2. FullTypeOK'
  BY <1>1, Takers, BackgroundAssumption DEF BInv, FullTypeOK, TypeOK, Stages, QueueType,
     PastWorkers, StopMetrics, AfterFile, AfterDb, Ending, Starting, Threads
<1>3. InPlace'
  BY <1>1, Takers, BackgroundAssumption DEF BInv, InPlace, Places, QueueType, PastWorkers,
     StopMetrics, AfterFile, AfterDb, Ending, Starting, Threads
<1>4. StartOrder'
  BY <1>1, Takers, BackgroundAssumption DEF BInv, StartOrder, QueueType, PastWorkers,
     StopMetrics, AfterFile, AfterDb, Ending, Starting, Threads
<1>5. StopOrder'
  BY <1>1, Takers, BackgroundAssumption DEF BInv, StopOrder, Gone, Abandoned, StartOrder,
     QueueType, PastWorkers, StopMetrics, AfterFile, AfterDb, Ending, Starting, Threads
<1>6. NothingBefore'
  BY <1>1, Takers, BackgroundAssumption DEF BInv, NothingBefore, QueueType, PastWorkers,
     StopMetrics, AfterFile, AfterDb, Ending, Starting, Threads
<1>7. QueueLife'
  BY <1>1, Takers, BackgroundAssumption DEF BInv, QueueLife, Gone, StartOrder, QueueType,
     PastWorkers, StopMetrics, AfterFile, AfterDb, Ending, Starting, Threads
<1>8. EndsDrained'
  BY <1>1, Takers, BackgroundAssumption DEF BInv, EndsDrained, QueueType, PastWorkers,
     StopMetrics, AfterFile, AfterDb, Ending, Starting, Threads
<1>9. BatchSize'
  BY <1>1, Takers, BackgroundAssumption DEF BInv, BatchSize, QueueType, PastWorkers,
     StopMetrics, AfterFile, AfterDb, Ending, Starting, Threads
<1>10. Conserved'
  BY <1>1, Takers, BackgroundAssumption DEF BInv, Conserved, InHand, QueueType,
     PastWorkers, StopMetrics, AfterFile, AfterDb, Ending, Starting, Threads
<1>11. EveryItemSettled'
  BY <1>1, Takers, BackgroundAssumption DEF BInv, EveryItemSettled, QueueType, PastWorkers,
     StopMetrics, AfterFile, AfterDb, Ending, Starting, Threads
<1> QED
  BY <1>2, <1>3, <1>4, <1>5, <1>6, <1>7, <1>8, <1>9, <1>10, <1>11 DEF BInv

\* The self-test's operations leave a record with a metrics thread, or none.
LEMMA SelfTestStep ==
    ASSUME BInv, NEW q \in {"file", "db"}, self_test(q)
    PROVE  BInv'
<1>1. /\ main = "self_test" /\ Record(q) /\ q \in Queues /\ q # "touch"
      /\ UNCHANGED <<mode, main, batch, backlog, draining, pools, requests, handled>>
  BY Takers DEF self_test
<1>2. queue[q].state # "freed" /\ ~queue[q].shut
  BY <1>1 DEF BInv, QueueLife, AfterFile, AfterDb, Ending
<1>3. Taker(q) \in Threads /\ FullTypeOK
  BY <1>1, Takers DEF BInv
<1>4. /\ pc' \in [Threads -> {"none", "start", "run", "sleep", "file", "db", "touch", "gather",
                              "nap", "flush", "flush_last", "ended", "dead"}]
      /\ \A u \in Threads : \/ pc'[u] = pc[u]
                            \/ pc[u] = "sleep" /\ pc'[u] = "run"
                            \/ pc[u] = "nap" /\ pc'[u] = "gather"
  BY <1>1, <1>3 DEF Record, Awake, FullTypeOK, TypeOK
<1>5. /\ queue' \in QueueType
      /\ accepted' \in [Queues -> Nat]
      /\ \A p \in Queues : queue'[p].state = queue[p].state /\ queue'[p].shut = queue[p].shut
      /\ \A p \in Queues : p # q => queue'[p] = queue[p] /\ accepted'[p] = accepted[p]
      /\ \/ queue'[q] = queue[q] /\ accepted'[q] = accepted[q]
         \/ /\ queue[q].state = "open"
            /\ queue'[q].items = queue[q].items + 1 /\ accepted'[q] = accepted[q] + 1
  <2>1. CASE queue[q].state = "open" /\ queue[q].items < Depth
    <3>1. queue[q].items + 1 \in 0 .. Depth
      BY <1>1, <1>3, <2>1, Numbers
    <3>2. /\ queue' = [queue EXCEPT ![q].items = queue[q].items + 1]
          /\ accepted' = [accepted EXCEPT ![q] = accepted[q] + 1]
      BY <1>1, <2>1 DEF Record
    <3>3. /\ accepted' \in [Queues -> Nat] /\ accepted'[q] = accepted[q] + 1
          /\ \A p \in Queues : p # q => accepted'[p] = accepted[p]
      BY <1>1, <1>3, <3>2 DEF FullTypeOK
    <3> QED
      BY <1>1, <1>3, <2>1, <3>1, <3>2, <3>3, LengthSet
  <2>2. CASE ~(queue[q].state = "open" /\ queue[q].items < Depth)
    BY <1>1, <1>3, <2>2 DEF Record, FullTypeOK, TypeOK, QueueType
  <2> QED
    BY <2>1, <2>2
<1>6. /\ \A u \in Threads : pc[u] \in Places(u)
      /\ \A u \in Threads : /\ pc'[u] = "none" <=> pc[u] = "none"
                            /\ pc'[u] = "ended" <=> pc[u] = "ended"
                            /\ pc'[u] \in {"file", "db", "touch"} <=> pc[u] \in {"file", "db", "touch"}
                            /\ Gone(u)' <=> Gone(u)
  BY <1>4 DEF Gone, BInv, InPlace
<1>7. FullTypeOK'
  BY <1>1, <1>3, <1>4, <1>5 DEF FullTypeOK, TypeOK, QueueType
<1>8. InPlace'
  BY <1>4, <1>6, BackgroundAssumption DEF InPlace, Places, Threads
<1>9. StartOrder'
  BY <1>1, <1>5, <1>6, Takers DEF BInv, StartOrder, Threads
<1>10. StopOrder'
  BY <1>1, <1>6 DEF BInv, StopOrder, Abandoned, Threads
<1>11. NothingBefore'
  BY <1>1, <1>5, <1>6, Takers DEF BInv, NothingBefore, Threads
<1>12. QueueLife'
  BY <1>1, <1>5, <1>6, Takers DEF BInv, QueueLife, Threads
<1>13. EndsDrained'
  <2>1. \A p \in Queues : queue'[p].shut => queue'[p] = queue[p]
    BY <1>2, <1>5
  <2>2. pc'["dbw"] = "flush_last" => pc["dbw"] = "flush_last"
    BY <1>4 DEF Threads
  <2> QED
    BY <1>5, <1>6, <2>1, <2>2, Takers DEF BInv, EndsDrained
<1>14. BatchSize'
  <2>1. "dbw" \in Threads
    BY DEF Threads
  <2> QED
    BY <1>1, <1>4, <2>1 DEF BInv, BatchSize
<1>15. Conserved'
  <2>1. \A p \in Queues : (queue'[p].items = queue[p].items /\ accepted'[p] = accepted[p])
                         \/ (queue'[p].items = queue[p].items + 1 /\ accepted'[p] = accepted[p] + 1)
    BY <1>5
  <2>2. "runner" \in Threads
    BY DEF Threads
  <2>3. \A p \in Queues : InHand(p)' = InHand(p) /\ InHand(p) \in Nat
    BY <1>1, <1>3, <1>4, <2>2, Numbers DEF InHand
  <2> QED
    BY <1>1, <1>3, <1>5, <2>1, <2>3, Numbers DEF BInv, Conserved
<1>16. EveryItemSettled'
  <2>1. \A p \in Queues : queue'[p].state = "freed" => p # q
    BY <1>2, <1>5
  <2> QED
    BY <1>1, <1>5, <1>6, <2>1, Takers DEF BInv, EveryItemSettled
<1> QED
  BY <1>7, <1>8, <1>9, <1>10, <1>11, <1>12, <1>13, <1>14, <1>15, <1>16 DEF BInv

\* main() goes on after the self-test, gives up in order, or halts.
LEMMA EndSelfTestStep ==
    ASSUME BInv, end_self_test
    PROVE  BInv'
<1>1. /\ main = "self_test" /\ main' \in {"start_runner", "start_workers", "stop_file", "halted"}
      /\ mode = "HTTP" => main' # "start_runner"
      /\ UNCHANGED <<mode, pc, queue, batch, backlog, draining, pools, requests, accepted, handled>>
  BY DEF end_self_test, KeepWork, BInv, FullTypeOK, TypeOK
<1>2. FullTypeOK'
  BY <1>1, Takers, BackgroundAssumption DEF BInv, FullTypeOK, TypeOK, Stages, QueueType,
     PastWorkers, StopMetrics, AfterFile, AfterDb, Ending, Starting, Threads
<1>3. InPlace'
  BY <1>1, Takers, BackgroundAssumption DEF BInv, InPlace, Places, QueueType, PastWorkers,
     StopMetrics, AfterFile, AfterDb, Ending, Starting, Threads
<1>4. StartOrder'
  BY <1>1, Takers, BackgroundAssumption DEF BInv, StartOrder, QueueType, PastWorkers,
     StopMetrics, AfterFile, AfterDb, Ending, Starting, Threads
<1>5. StopOrder'
  BY <1>1, Takers, BackgroundAssumption DEF BInv, StopOrder, Gone, Abandoned, StartOrder,
     QueueType, PastWorkers, StopMetrics, AfterFile, AfterDb, Ending, Starting, Threads
<1>6. NothingBefore'
  BY <1>1, Takers, BackgroundAssumption DEF BInv, NothingBefore, QueueType, PastWorkers,
     StopMetrics, AfterFile, AfterDb, Ending, Starting, Threads
<1>7. QueueLife'
  BY <1>1, Takers, BackgroundAssumption DEF BInv, QueueLife, Gone, StartOrder, QueueType,
     PastWorkers, StopMetrics, AfterFile, AfterDb, Ending, Starting, Threads
<1>8. EndsDrained'
  BY <1>1, Takers, BackgroundAssumption DEF BInv, EndsDrained, QueueType, PastWorkers,
     StopMetrics, AfterFile, AfterDb, Ending, Starting, Threads
<1>9. BatchSize'
  BY <1>1, Takers, BackgroundAssumption DEF BInv, BatchSize, QueueType, PastWorkers,
     StopMetrics, AfterFile, AfterDb, Ending, Starting, Threads
<1>10. Conserved'
  BY <1>1, Takers, BackgroundAssumption DEF BInv, Conserved, InHand, QueueType,
     PastWorkers, StopMetrics, AfterFile, AfterDb, Ending, Starting, Threads
<1>11. EveryItemSettled'
  BY <1>1, Takers, BackgroundAssumption DEF BInv, EveryItemSettled, QueueType, PastWorkers,
     StopMetrics, AfterFile, AfterDb, Ending, Starting, Threads
<1> QED
  BY <1>2, <1>3, <1>4, <1>5, <1>6, <1>7, <1>8, <1>9, <1>10, <1>11 DEF BInv

\* The consumer has been joined.
LEMMA JoinConsumerStep ==
    ASSUME BInv, join_consumer
    PROVE  BInv'
<1>1. /\ main = "serve" /\ Gone("consumer") /\ main' = "join_workers" /\ draining' = TRUE
      /\ UNCHANGED <<mode, pc, queue, batch, backlog, pools, requests, accepted, handled>>
  BY DEF join_consumer, KeepWork
<1>2. FullTypeOK'
  BY <1>1, Takers, BackgroundAssumption DEF BInv, FullTypeOK, TypeOK, Stages, QueueType,
     PastWorkers, StopMetrics, AfterFile, AfterDb, Ending, Starting, Threads
<1>3. InPlace'
  BY <1>1, Takers, BackgroundAssumption DEF BInv, InPlace, Places, QueueType, PastWorkers,
     StopMetrics, AfterFile, AfterDb, Ending, Starting, Threads
<1>4. StartOrder'
  BY <1>1, Takers, BackgroundAssumption DEF BInv, StartOrder, QueueType, PastWorkers,
     StopMetrics, AfterFile, AfterDb, Ending, Starting, Threads
<1>5. StopOrder'
  BY <1>1, Takers, BackgroundAssumption DEF BInv, StopOrder, Gone, Abandoned, QueueType,
     PastWorkers, StopMetrics, AfterFile, AfterDb, Ending, Starting, Threads
<1>6. NothingBefore'
  BY <1>1, Takers, BackgroundAssumption DEF BInv, NothingBefore, QueueType, PastWorkers,
     StopMetrics, AfterFile, AfterDb, Ending, Starting, Threads
<1>7. QueueLife'
  BY <1>1, Takers, BackgroundAssumption DEF BInv, QueueLife, Gone, QueueType, PastWorkers,
     StopMetrics, AfterFile, AfterDb, Ending, Starting, Threads
<1>8. EndsDrained'
  BY <1>1, Takers, BackgroundAssumption DEF BInv, EndsDrained, QueueType, PastWorkers,
     StopMetrics, AfterFile, AfterDb, Ending, Starting, Threads
<1>9. BatchSize'
  BY <1>1, Takers, BackgroundAssumption DEF BInv, BatchSize, QueueType, PastWorkers,
     StopMetrics, AfterFile, AfterDb, Ending, Starting, Threads
<1>10. Conserved'
  BY <1>1, Takers, BackgroundAssumption DEF BInv, Conserved, InHand, QueueType,
     PastWorkers, StopMetrics, AfterFile, AfterDb, Ending, Starting, Threads
<1>11. EveryItemSettled'
  BY <1>1, Takers, BackgroundAssumption DEF BInv, EveryItemSettled, QueueType, PastWorkers,
     StopMetrics, AfterFile, AfterDb, Ending, Starting, Threads
<1> QED
  BY <1>2, <1>3, <1>4, <1>5, <1>6, <1>7, <1>8, <1>9, <1>10, <1>11 DEF BInv

\* The workers have been joined, and what they left is freed.
LEMMA JoinWorkersStep ==
    ASSUME BInv, join_workers
    PROVE  BInv'
<1>1. /\ main \in {"join_workers", "abandon_workers"} /\ \A w \in Workers : Gone(w)
      /\ main' = (IF mode = "FILE" /\ main = "join_workers" THEN "stop_runner" ELSE "stop_file")
      /\ backlog' = 0
      /\ UNCHANGED <<mode, pc, queue, batch, draining, pools, requests, accepted, handled>>
  BY DEF join_workers, AfterWorkers, KeepWork
<1>2. main' = "stop_file" => pc["runner"] = "none" \/ main = "abandon_workers"
  BY <1>1 DEF BInv, StartOrder, FullTypeOK, TypeOK
<1>3. FullTypeOK'
  BY <1>1, Takers, BackgroundAssumption, <1>2 DEF BInv, FullTypeOK, TypeOK, Stages,
     QueueType, PastWorkers, StopMetrics, AfterFile, AfterDb, Ending, Starting, Threads
<1>4. InPlace'
  BY <1>1, Takers, BackgroundAssumption, <1>2 DEF BInv, InPlace, Places, QueueType,
     PastWorkers, StopMetrics, AfterFile, AfterDb, Ending, Starting, Threads
<1>5. StartOrder'
  BY <1>1, Takers, BackgroundAssumption, <1>2 DEF BInv, StartOrder, QueueType, PastWorkers,
     StopMetrics, AfterFile, AfterDb, Ending, Starting, Threads
<1>6. StopOrder'
  BY <1>1, Takers, BackgroundAssumption, <1>2 DEF BInv, StopOrder, Gone, Abandoned,
     StartOrder, QueueType, PastWorkers, StopMetrics, AfterFile, AfterDb, Ending, Starting,
     Threads
<1>7. NothingBefore'
  BY <1>1, Takers, BackgroundAssumption, <1>2 DEF BInv, NothingBefore, QueueType,
     PastWorkers, StopMetrics, AfterFile, AfterDb, Ending, Starting, Threads
<1>8. QueueLife'
  BY <1>1, Takers, BackgroundAssumption, <1>2 DEF BInv, QueueLife, Gone, QueueType,
     PastWorkers, StopMetrics, AfterFile, AfterDb, Ending, Starting, Threads
<1>9. EndsDrained'
  BY <1>1, Takers, BackgroundAssumption, <1>2 DEF BInv, EndsDrained, QueueType,
     PastWorkers, StopMetrics, AfterFile, AfterDb, Ending, Starting, Threads
<1>10. BatchSize'
  BY <1>1, Takers, BackgroundAssumption, <1>2 DEF BInv, BatchSize, QueueType, PastWorkers,
     StopMetrics, AfterFile, AfterDb, Ending, Starting, Threads
<1>11. Conserved'
  BY <1>1, Takers, BackgroundAssumption, <1>2 DEF BInv, Conserved, InHand, QueueType,
     PastWorkers, StopMetrics, AfterFile, AfterDb, Ending, Starting, Threads
<1>12. EveryItemSettled'
  BY <1>1, Takers, BackgroundAssumption, <1>2 DEF BInv, EveryItemSettled, QueueType,
     PastWorkers, StopMetrics, AfterFile, AfterDb, Ending, Starting, Threads
<1> QED
  BY <1>3, <1>4, <1>5, <1>6, <1>7, <1>8, <1>9, <1>10, <1>11, <1>12 DEF BInv

\* The touch queue is shut down and its thread woken.
LEMMA StopRunnerStep ==
    ASSUME BInv, StopThread("touch", "stop_runner", "join_runner")
    PROVE  BInv'
<1>1. /\ main = "stop_runner" /\ main' = "join_runner"
      /\ UNCHANGED <<mode, batch, backlog, draining, pools, requests, accepted, handled>>
  BY DEF StopThread, KeepWork
<1>2. /\ queue' \in QueueType
      /\ \A p \in Queues : queue'[p].state = queue[p].state /\ queue'[p].items = queue[p].items
      /\ \A p \in Queues : p # "touch" => queue'[p].shut = queue[p].shut
      /\ queue["touch"].shut => queue'["touch"].shut
  BY Takers, ShutSet DEF StopThread, Shutdown, BInv
<1>3. /\ \A u \in Threads : u # "runner" => pc'[u] = pc[u]
      /\ \/ pc'["runner"] = pc["runner"]
         \/ pc["runner"] = "sleep" /\ pc'["runner"] = "run"
         \/ pc["runner"] = "nap" /\ pc'["runner"] = "gather"
      /\ pc' \in [Threads -> {"none", "start", "run", "sleep", "file", "db", "touch", "gather",
                               "nap", "flush", "flush_last", "ended", "dead"}]
  BY Takers DEF StopThread, Shutdown, Awake, BInv, FullTypeOK, TypeOK
<1>4. FullTypeOK'
  BY <1>1, Takers, BackgroundAssumption, <1>2, <1>3
     DEF BInv, FullTypeOK, TypeOK, Stages, QueueType, PastWorkers, StopMetrics, AfterFile,
     AfterDb, Ending, Starting, Threads
<1>5. InPlace'
  BY <1>1, Takers, BackgroundAssumption, <1>2, <1>3
     DEF BInv, InPlace, Places, QueueType, PastWorkers, StopMetrics, AfterFile, AfterDb,
     Ending, Starting, Threads
<1>6. StartOrder'
  BY <1>1, Takers, BackgroundAssumption, <1>2, <1>3
     DEF BInv, StartOrder, QueueType, PastWorkers, StopMetrics, AfterFile, AfterDb, Ending,
     Starting, Threads
<1>7. StopOrder'
  BY <1>1, Takers, BackgroundAssumption, <1>2, <1>3
     DEF BInv, StopOrder, Gone, Abandoned, QueueType, PastWorkers, StopMetrics, AfterFile,
     AfterDb, Ending, Starting, Threads
<1>8. NothingBefore'
  BY <1>1, Takers, BackgroundAssumption, <1>2, <1>3
     DEF BInv, NothingBefore, QueueType, PastWorkers, StopMetrics, AfterFile, AfterDb,
     Ending, Starting, Threads
<1>9. QueueLife'
  BY <1>1, Takers, BackgroundAssumption, <1>2, <1>3
     DEF BInv, QueueLife, Gone, QueueType, PastWorkers, StopMetrics, AfterFile, AfterDb,
     Ending, Starting, Threads
<1>10. EndsDrained'
  BY <1>1, Takers, BackgroundAssumption, <1>2, <1>3
     DEF BInv, EndsDrained, QueueType, PastWorkers, StopMetrics, AfterFile, AfterDb,
     Ending, Starting, Threads
<1>11. BatchSize'
  BY <1>1, Takers, BackgroundAssumption, <1>2, <1>3
     DEF BInv, BatchSize, QueueType, PastWorkers, StopMetrics, AfterFile, AfterDb, Ending,
     Starting, Threads
<1>12. Conserved'
  BY <1>1, Takers, BackgroundAssumption, <1>2, <1>3
     DEF BInv, Conserved, InHand, QueueType, PastWorkers, StopMetrics, AfterFile, AfterDb,
     Ending, Starting, Threads
<1>13. EveryItemSettled'
  BY <1>1, Takers, BackgroundAssumption, <1>2, <1>3
     DEF BInv, EveryItemSettled, QueueType, PastWorkers, StopMetrics, AfterFile, AfterDb,
     Ending, Starting, Threads
<1> QED
  BY <1>4, <1>5, <1>6, <1>7, <1>8, <1>9, <1>10, <1>11, <1>12, <1>13 DEF BInv

\* The thread of the touch queue has been joined.
LEMMA JoinRunnerStep ==
    ASSUME BInv, JoinThread("touch", "join_runner", "free_touch")
    PROVE  BInv'
<1>1. /\ main = "join_runner" /\ Gone("runner") /\ main' = "free_touch"
      /\ UNCHANGED <<mode, pc, queue, batch, backlog, draining, pools, requests, accepted, handled>>
  BY Takers DEF JoinThread, KeepWork
<1>2. FullTypeOK'
  BY <1>1, Takers, BackgroundAssumption DEF BInv, FullTypeOK, TypeOK, Stages, QueueType,
     PastWorkers, StopMetrics, AfterFile, AfterDb, Ending, Starting, Threads
<1>3. InPlace'
  BY <1>1, Takers, BackgroundAssumption DEF BInv, InPlace, Places, QueueType, PastWorkers,
     StopMetrics, AfterFile, AfterDb, Ending, Starting, Threads
<1>4. StartOrder'
  BY <1>1, Takers, BackgroundAssumption DEF BInv, StartOrder, QueueType, PastWorkers,
     StopMetrics, AfterFile, AfterDb, Ending, Starting, Threads
<1>5. StopOrder'
  BY <1>1, Takers, BackgroundAssumption DEF BInv, StopOrder, Gone, Abandoned, QueueType,
     PastWorkers, StopMetrics, AfterFile, AfterDb, Ending, Starting, Threads
<1>6. NothingBefore'
  BY <1>1, Takers, BackgroundAssumption DEF BInv, NothingBefore, QueueType, PastWorkers,
     StopMetrics, AfterFile, AfterDb, Ending, Starting, Threads
<1>7. QueueLife'
  BY <1>1, Takers, BackgroundAssumption DEF BInv, QueueLife, Gone, QueueType, PastWorkers,
     StopMetrics, AfterFile, AfterDb, Ending, Starting, Threads
<1>8. EndsDrained'
  BY <1>1, Takers, BackgroundAssumption DEF BInv, EndsDrained, QueueType, PastWorkers,
     StopMetrics, AfterFile, AfterDb, Ending, Starting, Threads
<1>9. BatchSize'
  BY <1>1, Takers, BackgroundAssumption DEF BInv, BatchSize, QueueType, PastWorkers,
     StopMetrics, AfterFile, AfterDb, Ending, Starting, Threads
<1>10. Conserved'
  BY <1>1, Takers, BackgroundAssumption DEF BInv, Conserved, InHand, QueueType,
     PastWorkers, StopMetrics, AfterFile, AfterDb, Ending, Starting, Threads
<1>11. EveryItemSettled'
  BY <1>1, Takers, BackgroundAssumption DEF BInv, EveryItemSettled, QueueType, PastWorkers,
     StopMetrics, AfterFile, AfterDb, Ending, Starting, Threads
<1> QED
  BY <1>2, <1>3, <1>4, <1>5, <1>6, <1>7, <1>8, <1>9, <1>10, <1>11 DEF BInv

\* The file queue is shut down and its thread woken.
LEMMA StopFileStep ==
    ASSUME BInv, StopThread("file", "stop_file", "join_file")
    PROVE  BInv'
<1>1. /\ main = "stop_file" /\ main' = "join_file"
      /\ UNCHANGED <<mode, batch, backlog, draining, pools, requests, accepted, handled>>
  BY DEF StopThread, KeepWork
<1>2. /\ queue' \in QueueType
      /\ \A p \in Queues : queue'[p].state = queue[p].state /\ queue'[p].items = queue[p].items
      /\ \A p \in Queues : p # "file" => queue'[p].shut = queue[p].shut
      /\ queue["file"].shut => queue'["file"].shut
  BY Takers, ShutSet DEF StopThread, Shutdown, BInv
<1>3. /\ \A u \in Threads : u # "filew" => pc'[u] = pc[u]
      /\ \/ pc'["filew"] = pc["filew"]
         \/ pc["filew"] = "sleep" /\ pc'["filew"] = "run"
         \/ pc["filew"] = "nap" /\ pc'["filew"] = "gather"
      /\ pc' \in [Threads -> {"none", "start", "run", "sleep", "file", "db", "touch", "gather",
                               "nap", "flush", "flush_last", "ended", "dead"}]
  BY Takers DEF StopThread, Shutdown, Awake, BInv, FullTypeOK, TypeOK
<1>4. FullTypeOK'
  BY <1>1, Takers, BackgroundAssumption, <1>2, <1>3
     DEF BInv, FullTypeOK, TypeOK, Stages, QueueType, PastWorkers, StopMetrics, AfterFile,
     AfterDb, Ending, Starting, Threads
<1>5. InPlace'
  BY <1>1, Takers, BackgroundAssumption, <1>2, <1>3
     DEF BInv, InPlace, Places, QueueType, PastWorkers, StopMetrics, AfterFile, AfterDb,
     Ending, Starting, Threads
<1>6. StartOrder'
  BY <1>1, Takers, BackgroundAssumption, <1>2, <1>3
     DEF BInv, StartOrder, QueueType, PastWorkers, StopMetrics, AfterFile, AfterDb, Ending,
     Starting, Threads
<1>7. StopOrder'
  BY <1>1, Takers, BackgroundAssumption, <1>2, <1>3
     DEF BInv, StopOrder, Gone, Abandoned, QueueType, PastWorkers, StopMetrics, AfterFile,
     AfterDb, Ending, Starting, Threads
<1>8. NothingBefore'
  BY <1>1, Takers, BackgroundAssumption, <1>2, <1>3
     DEF BInv, NothingBefore, QueueType, PastWorkers, StopMetrics, AfterFile, AfterDb,
     Ending, Starting, Threads
<1>9. QueueLife'
  BY <1>1, Takers, BackgroundAssumption, <1>2, <1>3
     DEF BInv, QueueLife, Gone, QueueType, PastWorkers, StopMetrics, AfterFile, AfterDb,
     Ending, Starting, Threads
<1>10. EndsDrained'
  BY <1>1, Takers, BackgroundAssumption, <1>2, <1>3
     DEF BInv, EndsDrained, QueueType, PastWorkers, StopMetrics, AfterFile, AfterDb,
     Ending, Starting, Threads
<1>11. BatchSize'
  BY <1>1, Takers, BackgroundAssumption, <1>2, <1>3
     DEF BInv, BatchSize, QueueType, PastWorkers, StopMetrics, AfterFile, AfterDb, Ending,
     Starting, Threads
<1>12. Conserved'
  BY <1>1, Takers, BackgroundAssumption, <1>2, <1>3
     DEF BInv, Conserved, InHand, QueueType, PastWorkers, StopMetrics, AfterFile, AfterDb,
     Ending, Starting, Threads
<1>13. EveryItemSettled'
  BY <1>1, Takers, BackgroundAssumption, <1>2, <1>3
     DEF BInv, EveryItemSettled, QueueType, PastWorkers, StopMetrics, AfterFile, AfterDb,
     Ending, Starting, Threads
<1> QED
  BY <1>4, <1>5, <1>6, <1>7, <1>8, <1>9, <1>10, <1>11, <1>12, <1>13 DEF BInv

\* The thread of the file queue has been joined.
LEMMA JoinFileStep ==
    ASSUME BInv, JoinThread("file", "join_file", "stop_db")
    PROVE  BInv'
<1>1. /\ main = "join_file" /\ Gone("filew") /\ main' = "stop_db"
      /\ UNCHANGED <<mode, pc, queue, batch, backlog, draining, pools, requests, accepted, handled>>
  BY Takers DEF JoinThread, KeepWork
<1>2. FullTypeOK'
  BY <1>1, Takers, BackgroundAssumption DEF BInv, FullTypeOK, TypeOK, Stages, QueueType,
     PastWorkers, StopMetrics, AfterFile, AfterDb, Ending, Starting, Threads
<1>3. InPlace'
  BY <1>1, Takers, BackgroundAssumption DEF BInv, InPlace, Places, QueueType, PastWorkers,
     StopMetrics, AfterFile, AfterDb, Ending, Starting, Threads
<1>4. StartOrder'
  BY <1>1, Takers, BackgroundAssumption DEF BInv, StartOrder, QueueType, PastWorkers,
     StopMetrics, AfterFile, AfterDb, Ending, Starting, Threads
<1>5. StopOrder'
  BY <1>1, Takers, BackgroundAssumption DEF BInv, StopOrder, Gone, Abandoned, QueueType,
     PastWorkers, StopMetrics, AfterFile, AfterDb, Ending, Starting, Threads
<1>6. NothingBefore'
  BY <1>1, Takers, BackgroundAssumption DEF BInv, NothingBefore, QueueType, PastWorkers,
     StopMetrics, AfterFile, AfterDb, Ending, Starting, Threads
<1>7. QueueLife'
  BY <1>1, Takers, BackgroundAssumption DEF BInv, QueueLife, Gone, QueueType, PastWorkers,
     StopMetrics, AfterFile, AfterDb, Ending, Starting, Threads
<1>8. EndsDrained'
  BY <1>1, Takers, BackgroundAssumption DEF BInv, EndsDrained, QueueType, PastWorkers,
     StopMetrics, AfterFile, AfterDb, Ending, Starting, Threads
<1>9. BatchSize'
  BY <1>1, Takers, BackgroundAssumption DEF BInv, BatchSize, QueueType, PastWorkers,
     StopMetrics, AfterFile, AfterDb, Ending, Starting, Threads
<1>10. Conserved'
  BY <1>1, Takers, BackgroundAssumption DEF BInv, Conserved, InHand, QueueType,
     PastWorkers, StopMetrics, AfterFile, AfterDb, Ending, Starting, Threads
<1>11. EveryItemSettled'
  BY <1>1, Takers, BackgroundAssumption DEF BInv, EveryItemSettled, QueueType, PastWorkers,
     StopMetrics, AfterFile, AfterDb, Ending, Starting, Threads
<1> QED
  BY <1>2, <1>3, <1>4, <1>5, <1>6, <1>7, <1>8, <1>9, <1>10, <1>11 DEF BInv

\* The db queue is shut down and its thread woken.
LEMMA StopDbStep ==
    ASSUME BInv, StopThread("db", "stop_db", "join_db")
    PROVE  BInv'
<1>1. /\ main = "stop_db" /\ main' = "join_db"
      /\ UNCHANGED <<mode, batch, backlog, draining, pools, requests, accepted, handled>>
  BY DEF StopThread, KeepWork
<1>2. /\ queue' \in QueueType
      /\ \A p \in Queues : queue'[p].state = queue[p].state /\ queue'[p].items = queue[p].items
      /\ \A p \in Queues : p # "db" => queue'[p].shut = queue[p].shut
      /\ queue["db"].shut => queue'["db"].shut
  BY Takers, ShutSet DEF StopThread, Shutdown, BInv
<1>3. /\ \A u \in Threads : u # "dbw" => pc'[u] = pc[u]
      /\ \/ pc'["dbw"] = pc["dbw"]
         \/ pc["dbw"] = "sleep" /\ pc'["dbw"] = "run"
         \/ pc["dbw"] = "nap" /\ pc'["dbw"] = "gather"
      /\ pc' \in [Threads -> {"none", "start", "run", "sleep", "file", "db", "touch", "gather",
                               "nap", "flush", "flush_last", "ended", "dead"}]
  BY Takers DEF StopThread, Shutdown, Awake, BInv, FullTypeOK, TypeOK
<1>4. FullTypeOK'
  BY <1>1, Takers, BackgroundAssumption, <1>2, <1>3
     DEF BInv, FullTypeOK, TypeOK, Stages, QueueType, PastWorkers, StopMetrics, AfterFile,
     AfterDb, Ending, Starting, Threads
<1>5. InPlace'
  BY <1>1, Takers, BackgroundAssumption, <1>2, <1>3
     DEF BInv, InPlace, Places, QueueType, PastWorkers, StopMetrics, AfterFile, AfterDb,
     Ending, Starting, Threads
<1>6. StartOrder'
  BY <1>1, Takers, BackgroundAssumption, <1>2, <1>3
     DEF BInv, StartOrder, QueueType, PastWorkers, StopMetrics, AfterFile, AfterDb, Ending,
     Starting, Threads
<1>7. StopOrder'
  BY <1>1, Takers, BackgroundAssumption, <1>2, <1>3
     DEF BInv, StopOrder, Gone, Abandoned, QueueType, PastWorkers, StopMetrics, AfterFile,
     AfterDb, Ending, Starting, Threads
<1>8. NothingBefore'
  BY <1>1, Takers, BackgroundAssumption, <1>2, <1>3
     DEF BInv, NothingBefore, QueueType, PastWorkers, StopMetrics, AfterFile, AfterDb,
     Ending, Starting, Threads
<1>9. QueueLife'
  BY <1>1, Takers, BackgroundAssumption, <1>2, <1>3
     DEF BInv, QueueLife, Gone, QueueType, PastWorkers, StopMetrics, AfterFile, AfterDb,
     Ending, Starting, Threads
<1>10. EndsDrained'
  BY <1>1, Takers, BackgroundAssumption, <1>2, <1>3
     DEF BInv, EndsDrained, QueueType, PastWorkers, StopMetrics, AfterFile, AfterDb,
     Ending, Starting, Threads
<1>11. BatchSize'
  BY <1>1, Takers, BackgroundAssumption, <1>2, <1>3
     DEF BInv, BatchSize, QueueType, PastWorkers, StopMetrics, AfterFile, AfterDb, Ending,
     Starting, Threads
<1>12. Conserved'
  BY <1>1, Takers, BackgroundAssumption, <1>2, <1>3
     DEF BInv, Conserved, InHand, QueueType, PastWorkers, StopMetrics, AfterFile, AfterDb,
     Ending, Starting, Threads
<1>13. EveryItemSettled'
  BY <1>1, Takers, BackgroundAssumption, <1>2, <1>3
     DEF BInv, EveryItemSettled, QueueType, PastWorkers, StopMetrics, AfterFile, AfterDb,
     Ending, Starting, Threads
<1> QED
  BY <1>4, <1>5, <1>6, <1>7, <1>8, <1>9, <1>10, <1>11, <1>12, <1>13 DEF BInv

\* The thread of the db queue has been joined.
LEMMA JoinDbStep ==
    ASSUME BInv, JoinThread("db", "join_db", "free_metrics")
    PROVE  BInv'
<1>1. /\ main = "join_db" /\ Gone("dbw") /\ main' = "free_metrics"
      /\ UNCHANGED <<mode, pc, queue, batch, backlog, draining, pools, requests, accepted, handled>>
  BY Takers DEF JoinThread, KeepWork
<1>2. FullTypeOK'
  BY <1>1, Takers, BackgroundAssumption DEF BInv, FullTypeOK, TypeOK, Stages, QueueType,
     PastWorkers, StopMetrics, AfterFile, AfterDb, Ending, Starting, Threads
<1>3. InPlace'
  BY <1>1, Takers, BackgroundAssumption DEF BInv, InPlace, Places, QueueType, PastWorkers,
     StopMetrics, AfterFile, AfterDb, Ending, Starting, Threads
<1>4. StartOrder'
  BY <1>1, Takers, BackgroundAssumption DEF BInv, StartOrder, QueueType, PastWorkers,
     StopMetrics, AfterFile, AfterDb, Ending, Starting, Threads
<1>5. StopOrder'
  BY <1>1, Takers, BackgroundAssumption DEF BInv, StopOrder, Gone, Abandoned, QueueType,
     PastWorkers, StopMetrics, AfterFile, AfterDb, Ending, Starting, Threads
<1>6. NothingBefore'
  BY <1>1, Takers, BackgroundAssumption DEF BInv, NothingBefore, QueueType, PastWorkers,
     StopMetrics, AfterFile, AfterDb, Ending, Starting, Threads
<1>7. QueueLife'
  BY <1>1, Takers, BackgroundAssumption DEF BInv, QueueLife, Gone, QueueType, PastWorkers,
     StopMetrics, AfterFile, AfterDb, Ending, Starting, Threads
<1>8. EndsDrained'
  BY <1>1, Takers, BackgroundAssumption DEF BInv, EndsDrained, QueueType, PastWorkers,
     StopMetrics, AfterFile, AfterDb, Ending, Starting, Threads
<1>9. BatchSize'
  BY <1>1, Takers, BackgroundAssumption DEF BInv, BatchSize, QueueType, PastWorkers,
     StopMetrics, AfterFile, AfterDb, Ending, Starting, Threads
<1>10. Conserved'
  BY <1>1, Takers, BackgroundAssumption DEF BInv, Conserved, InHand, QueueType,
     PastWorkers, StopMetrics, AfterFile, AfterDb, Ending, Starting, Threads
<1>11. EveryItemSettled'
  BY <1>1, Takers, BackgroundAssumption DEF BInv, EveryItemSettled, QueueType, PastWorkers,
     StopMetrics, AfterFile, AfterDb, Ending, Starting, Threads
<1> QED
  BY <1>2, <1>3, <1>4, <1>5, <1>6, <1>7, <1>8, <1>9, <1>10, <1>11 DEF BInv

\* The queues are destroyed after their threads have ended.
LEMMA FreeTouchStep ==
    ASSUME BInv, FreeQueues({"touch"}, "free_touch", "stop_file")
    PROVE  BInv'
<1>1. /\ main = "free_touch" /\ main' = "stop_file"
      /\ UNCHANGED <<mode, pc, batch, backlog, draining, pools, requests, accepted, handled>>
  BY DEF FreeQueues, KeepWork
<1>2. /\ queue' \in QueueType
      /\ \A p \in Queues : queue'[p].shut = queue[p].shut
      /\ \A p \in Queues : \/ queue'[p] = queue[p]
                           \/ /\ p \in {"touch"} /\ queue'[p].state = "freed" /\ queue'[p].items = 0
                              /\ queue[p].state = "open"
  BY FreedSet DEF FreeQueues, BInv
<1>3. FullTypeOK'
  BY <1>1, Takers, BackgroundAssumption, <1>2 DEF BInv, FullTypeOK, TypeOK, Stages,
     QueueType, PastWorkers, StopMetrics, AfterFile, AfterDb, Ending, Starting, Threads
<1>4. InPlace'
  BY <1>1, Takers, BackgroundAssumption, <1>2 DEF BInv, InPlace, Places, QueueType,
     PastWorkers, StopMetrics, AfterFile, AfterDb, Ending, Starting, Threads
<1>5. StartOrder'
  BY <1>1, Takers, BackgroundAssumption, <1>2 DEF BInv, StartOrder, QueueType, PastWorkers,
     StopMetrics, AfterFile, AfterDb, Ending, Starting, Threads
<1>6. StopOrder'
  BY <1>1, Takers, BackgroundAssumption, <1>2 DEF BInv, StopOrder, Gone, Abandoned,
     QueueType, PastWorkers, StopMetrics, AfterFile, AfterDb, Ending, Starting, Threads
<1>7. NothingBefore'
  BY <1>1, Takers, BackgroundAssumption, <1>2 DEF BInv, NothingBefore, QueueType,
     PastWorkers, StopMetrics, AfterFile, AfterDb, Ending, Starting, Threads
<1>8. QueueLife'
  BY <1>1, Takers, BackgroundAssumption, <1>2 DEF BInv, QueueLife, Gone, StopOrder,
     QueueType, PastWorkers, StopMetrics, AfterFile, AfterDb, Ending, Starting, Threads
<1>9. EndsDrained'
  BY <1>1, Takers, BackgroundAssumption, <1>2 DEF BInv, EndsDrained, QueueType,
     PastWorkers, StopMetrics, AfterFile, AfterDb, Ending, Starting, Threads
<1>10. BatchSize'
  BY <1>1, Takers, BackgroundAssumption, <1>2 DEF BInv, BatchSize, QueueType, PastWorkers,
     StopMetrics, AfterFile, AfterDb, Ending, Starting, Threads
<1>11. Conserved'
  BY <1>1, Takers, BackgroundAssumption, <1>2 DEF BInv, Conserved, InHand, QueueType,
     PastWorkers, StopMetrics, AfterFile, AfterDb, Ending, Starting, Threads
<1>12. EveryItemSettled'
  BY <1>1, Takers, BackgroundAssumption, <1>2, Numbers
     DEF BInv, EveryItemSettled, Conserved, InHand, EndsDrained, BatchSize, QueueType,
     PastWorkers, StopMetrics, AfterFile, AfterDb, Ending, Starting, Threads
<1> QED
  BY <1>3, <1>4, <1>5, <1>6, <1>7, <1>8, <1>9, <1>10, <1>11, <1>12 DEF BInv

\* The queues are destroyed after their threads have ended.
LEMMA FreeMetricsStep ==
    ASSUME BInv, FreeQueues({"file", "db"}, "free_metrics", "disconnect")
    PROVE  BInv'
<1>1. /\ main = "free_metrics" /\ main' = "disconnect"
      /\ UNCHANGED <<mode, pc, batch, backlog, draining, pools, requests, accepted, handled>>
  BY DEF FreeQueues, KeepWork
<1>2. /\ queue' \in QueueType
      /\ \A p \in Queues : queue'[p].shut = queue[p].shut
      /\ \A p \in Queues : \/ queue'[p] = queue[p]
                           \/ /\ p \in {"file", "db"} /\ queue'[p].state = "freed" /\ queue'[p].items = 0
                              /\ queue[p].state = "open"
  BY FreedSet DEF FreeQueues, BInv
<1>3. FullTypeOK'
  BY <1>1, Takers, BackgroundAssumption, <1>2 DEF BInv, FullTypeOK, TypeOK, Stages,
     QueueType, PastWorkers, StopMetrics, AfterFile, AfterDb, Ending, Starting, Threads
<1>4. InPlace'
  BY <1>1, Takers, BackgroundAssumption, <1>2 DEF BInv, InPlace, Places, QueueType,
     PastWorkers, StopMetrics, AfterFile, AfterDb, Ending, Starting, Threads
<1>5. StartOrder'
  BY <1>1, Takers, BackgroundAssumption, <1>2 DEF BInv, StartOrder, QueueType, PastWorkers,
     StopMetrics, AfterFile, AfterDb, Ending, Starting, Threads
<1>6. StopOrder'
  BY <1>1, Takers, BackgroundAssumption, <1>2 DEF BInv, StopOrder, Gone, Abandoned,
     QueueType, PastWorkers, StopMetrics, AfterFile, AfterDb, Ending, Starting, Threads
<1>7. NothingBefore'
  BY <1>1, Takers, BackgroundAssumption, <1>2 DEF BInv, NothingBefore, QueueType,
     PastWorkers, StopMetrics, AfterFile, AfterDb, Ending, Starting, Threads
<1>8. QueueLife'
  BY <1>1, Takers, BackgroundAssumption, <1>2 DEF BInv, QueueLife, Gone, StopOrder,
     QueueType, PastWorkers, StopMetrics, AfterFile, AfterDb, Ending, Starting, Threads
<1>9. EndsDrained'
  BY <1>1, Takers, BackgroundAssumption, <1>2 DEF BInv, EndsDrained, QueueType,
     PastWorkers, StopMetrics, AfterFile, AfterDb, Ending, Starting, Threads
<1>10. BatchSize'
  BY <1>1, Takers, BackgroundAssumption, <1>2 DEF BInv, BatchSize, QueueType, PastWorkers,
     StopMetrics, AfterFile, AfterDb, Ending, Starting, Threads
<1>11. Conserved'
  BY <1>1, Takers, BackgroundAssumption, <1>2 DEF BInv, Conserved, InHand, QueueType,
     PastWorkers, StopMetrics, AfterFile, AfterDb, Ending, Starting, Threads
<1>12. EveryItemSettled'
  BY <1>1, Takers, BackgroundAssumption, <1>2, Numbers
     DEF BInv, EveryItemSettled, Conserved, InHand, EndsDrained, BatchSize, QueueType,
     PastWorkers, StopMetrics, AfterFile, AfterDb, Ending, Starting, Threads
<1> QED
  BY <1>3, <1>4, <1>5, <1>6, <1>7, <1>8, <1>9, <1>10, <1>11, <1>12 DEF BInv

\* The pools are disconnected, and main() returns.
LEMMA DisconnectStep ==
    ASSUME BInv, disconnect
    PROVE  BInv'
<1>1. UNCHANGED <<mode, pc, queue, batch, backlog, draining, requests, accepted, handled>>
  BY DEF disconnect, KeepWork
<1>2. /\ pools' \subseteq pools
      /\ \/ main = "disconnect" /\ main' = "disconnect" /\ ("business" \in pools => "business" \in pools')
         \/ main = "disconnect" /\ main' = "return"
         \/ main = "return" /\ main' = "exit" /\ pools' = pools
  BY DEF disconnect
<1>3. FullTypeOK'
  BY <1>1, Takers, BackgroundAssumption, <1>2 DEF BInv, FullTypeOK, TypeOK, Stages,
     QueueType, PastWorkers, StopMetrics, AfterFile, AfterDb, Ending, Starting, Threads
<1>4. InPlace'
  BY <1>1, Takers, BackgroundAssumption, <1>2 DEF BInv, InPlace, Places, QueueType,
     PastWorkers, StopMetrics, AfterFile, AfterDb, Ending, Starting, Threads
<1>5. StartOrder'
  BY <1>1, Takers, BackgroundAssumption, <1>2 DEF BInv, StartOrder, QueueType, PastWorkers,
     StopMetrics, AfterFile, AfterDb, Ending, Starting, Threads
<1>6. StopOrder'
  BY <1>1, Takers, BackgroundAssumption, <1>2 DEF BInv, StopOrder, Gone, Abandoned,
     QueueType, PastWorkers, StopMetrics, AfterFile, AfterDb, Ending, Starting, Threads
<1>7. NothingBefore'
  BY <1>1, Takers, BackgroundAssumption, <1>2 DEF BInv, NothingBefore, QueueType,
     PastWorkers, StopMetrics, AfterFile, AfterDb, Ending, Starting, Threads
<1>8. QueueLife'
  BY <1>1, Takers, BackgroundAssumption, <1>2 DEF BInv, QueueLife, Gone, QueueType,
     PastWorkers, StopMetrics, AfterFile, AfterDb, Ending, Starting, Threads
<1>9. EndsDrained'
  BY <1>1, Takers, BackgroundAssumption, <1>2 DEF BInv, EndsDrained, QueueType,
     PastWorkers, StopMetrics, AfterFile, AfterDb, Ending, Starting, Threads
<1>10. BatchSize'
  BY <1>1, Takers, BackgroundAssumption, <1>2 DEF BInv, BatchSize, QueueType, PastWorkers,
     StopMetrics, AfterFile, AfterDb, Ending, Starting, Threads
<1>11. Conserved'
  BY <1>1, Takers, BackgroundAssumption, <1>2 DEF BInv, Conserved, InHand, QueueType,
     PastWorkers, StopMetrics, AfterFile, AfterDb, Ending, Starting, Threads
<1>12. EveryItemSettled'
  BY <1>1, Takers, BackgroundAssumption, <1>2 DEF BInv, EveryItemSettled, QueueType,
     PastWorkers, StopMetrics, AfterFile, AfterDb, Ending, Starting, Threads
<1> QED
  BY <1>3, <1>4, <1>5, <1>6, <1>7, <1>8, <1>9, <1>10, <1>11, <1>12 DEF BInv

\* The metrics destinations that can be started have a queue and a thread.
LEMMA StartMetricsStep ==
    ASSUME BInv, start_metrics
    PROVE  BInv'
<1>1. /\ main = "metrics"
      /\ main' = "self_test"
      /\ UNCHANGED <<mode, batch, backlog, draining, requests, accepted, handled>>
  BY DEF start_metrics, KeepWork
<1>2. PICK on \in SUBSET {"file", "db"}, linked \in BOOLEAN :
        /\ "db" \in on => linked
        /\ pools' = IF linked THEN pools \cup {"metrics"} ELSE pools
        /\ queue' = [q \in Queues |-> IF q \in on THEN Opened ELSE queue[q]]
        /\ pc' = [pc EXCEPT !["filew"] = IF "file" \in on THEN "run" ELSE @,
                            !["dbw"]   = IF "db" \in on THEN "start" ELSE @]
  BY DEF start_metrics
<1>3. queue \in QueueType /\ 0 \in 0 .. Depth
  BY BackgroundAssumption DEF BInv, FullTypeOK, TypeOK, QueueType
<1>4. /\ queue' \in QueueType
      /\ \A q \in Queues : q \in on => queue'[q].state = "open" /\ queue'[q].items = 0 /\ ~queue'[q].shut
      /\ \A q \in Queues : q \notin on => queue'[q] = queue[q]
  BY <1>2, <1>3 DEF Opened, QueueType
<1>5. /\ pc' \in [Threads -> {"none", "start", "run", "sleep", "file", "db", "touch", "gather",
                               "nap", "flush", "flush_last", "ended", "dead"}]
      /\ pc["filew"] = "none" /\ pc["dbw"] = "none" /\ pc["runner"] = "none" /\ pc["consumer"] = "none"
      /\ pc'["filew"] = (IF "file" \in on THEN "run" ELSE "none")
      /\ pc'["dbw"] = (IF "db" \in on THEN "start" ELSE "none")
      /\ \A u \in Threads : u \notin {"filew", "dbw"} => pc'[u] = pc[u]
  BY <1>1, <1>2, BackgroundAssumption DEF BInv, FullTypeOK, TypeOK, StartOrder, Threads,
     Starting
<1>6. /\ pools' \subseteq {"business", "metrics"} /\ ("business" \in pools => "business" \in pools')
      /\ "db" \in on => "metrics" \in pools'
  BY <1>2 DEF BInv, FullTypeOK, TypeOK
<1>7. on \subseteq Queues /\ "touch" \notin on
  BY <1>2, Takers
<1>8. \A q \in Queues : queue[q].state = "absent" /\ queue[q].items = 0 /\ accepted[q] = 0
  BY <1>1, <1>5, Takers DEF BInv, StartOrder, QueueLife, Starting
<1>9. \A q \in Queues : queue'[q].items = queue[q].items /\ InHand(q)' = InHand(q) /\ queue'[q].state # "freed"
  BY <1>1, <1>4, <1>5, <1>7, <1>8, Takers DEF InHand, BInv, Threads
<1>10. FullTypeOK'
  BY <1>1, <1>4, <1>5, <1>6, <1>7, <1>8, Takers, BackgroundAssumption
     DEF BInv, FullTypeOK, TypeOK, Stages, QueueType, PastWorkers, StopMetrics, AfterFile,
     AfterDb, Ending, Starting, Threads
<1>11. InPlace'
  BY <1>1, <1>4, <1>5, <1>6, <1>7, <1>8, Takers, BackgroundAssumption
     DEF BInv, InPlace, Places, QueueType, PastWorkers, StopMetrics, AfterFile, AfterDb,
     Ending, Starting, Threads
<1>12. StartOrder'
  BY <1>1, <1>4, <1>5, <1>6, <1>7, <1>8, Takers, BackgroundAssumption
     DEF BInv, StartOrder, QueueType, PastWorkers, StopMetrics, AfterFile, AfterDb, Ending,
     Starting, Threads
<1>13. StopOrder'
  BY <1>1, <1>4, <1>5, <1>6, <1>7, <1>8, Takers, BackgroundAssumption
     DEF BInv, StopOrder, Gone, Abandoned, StartOrder, QueueType, PastWorkers, StopMetrics,
     AfterFile, AfterDb, Ending, Starting, Threads
<1>14. NothingBefore'
  BY <1>1, <1>4, <1>5, <1>6, <1>7, <1>8, Takers, BackgroundAssumption
     DEF BInv, NothingBefore, QueueType, PastWorkers, StopMetrics, AfterFile, AfterDb,
     Ending, Starting, Threads
<1>15. QueueLife'
  BY <1>1, <1>4, <1>5, <1>6, <1>7, <1>8, Takers, BackgroundAssumption
     DEF BInv, QueueLife, Gone, QueueType, PastWorkers, StopMetrics, AfterFile, AfterDb,
     Ending, Starting, Threads
<1>16. EndsDrained'
  BY <1>1, <1>4, <1>5, <1>6, <1>7, <1>8, Takers, BackgroundAssumption
     DEF BInv, EndsDrained, QueueType, PastWorkers, StopMetrics, AfterFile, AfterDb,
     Ending, Starting, Threads
<1>17. BatchSize'
  BY <1>1, <1>4, <1>5, <1>6, <1>7, <1>8, Takers, BackgroundAssumption
     DEF BInv, BatchSize, QueueType, PastWorkers, StopMetrics, AfterFile, AfterDb, Ending,
     Starting, Threads
<1>18. Conserved'
  BY <1>1, <1>8, <1>9 DEF BInv, Conserved
<1>19. EveryItemSettled'
  BY <1>1, <1>4, <1>5, <1>6, <1>7, <1>8, Takers, BackgroundAssumption
     DEF BInv, EveryItemSettled, QueueType, PastWorkers, StopMetrics, AfterFile, AfterDb,
     Ending, Starting, Threads
<1> QED
  BY <1>10, <1>11, <1>12, <1>13, <1>14, <1>15, <1>16, <1>17, <1>18, <1>19 DEF BInv

\* The touch queue and the Session Manager thread are there, or not.
LEMMA StartRunnerStep ==
    ASSUME BInv, start_runner
    PROVE  BInv'
<1>1. /\ main = "start_runner" /\ main' = "start_workers" /\ mode # "HTTP"
      /\ UNCHANGED <<mode, batch, backlog, draining, pools, requests, accepted, handled>>
  BY DEF start_runner, KeepWork, BInv, StartOrder
<1>2. queue \in QueueType /\ 0 \in 0 .. Depth /\ "touch" \in Queues
  BY BackgroundAssumption, Takers DEF BInv, FullTypeOK, TypeOK, QueueType
<1>3. /\ pc["runner"] = "none" /\ pc["consumer"] = "none" /\ queue["touch"].state = "absent"
      /\ queue["touch"].items = 0 /\ accepted["touch"] = 0
  BY <1>1, <1>2 DEF BInv, StartOrder, QueueLife, Starting
<1>4. PICK up \in {"start", "none"} :
        \/ queue' = queue /\ pc' = pc /\ up = "none"
        \/ queue' = [queue EXCEPT !["touch"] = Opened] /\ pc' = [pc EXCEPT !["runner"] = up]
  BY DEF start_runner
<1>5. /\ pc' \in [Threads -> {"none", "start", "run", "sleep", "file", "db", "touch", "gather",
                               "nap", "flush", "flush_last", "ended", "dead"}]
      /\ pc'["runner"] = up /\ \A u \in Threads : u # "runner" => pc'[u] = pc[u]
  BY <1>3, <1>4 DEF BInv, FullTypeOK, TypeOK, Threads
<1>6. /\ queue' \in QueueType
      /\ \A q \in Queues : q # "touch" => queue'[q] = queue[q]
      /\ \/ queue'["touch"] = queue["touch"] /\ up = "none"
         \/ queue'["touch"].state = "open" /\ queue'["touch"].items = 0 /\ ~queue'["touch"].shut
  <2>1. CASE queue' = queue /\ up = "none"
    BY <1>2, <2>1
  <2>2. CASE queue' = [queue EXCEPT !["touch"] = Opened]
    <3>1. Opened \in [state : {"absent", "open", "freed"}, items : 0 .. Depth, shut : BOOLEAN]
      BY <1>2 DEF Opened
    <3>2. Opened.state = "open" /\ Opened.items = 0 /\ ~Opened.shut
      BY DEF Opened
    <3> QED
      BY <1>2, <2>2, <3>1, <3>2 DEF QueueType
  <2> QED
    BY <1>4, <2>1, <2>2
<1>7. FullTypeOK'
  BY <1>1, <1>3, <1>5, <1>6, Takers, BackgroundAssumption
     DEF BInv, FullTypeOK, TypeOK, Stages, QueueType, PastWorkers, StopMetrics, AfterFile,
     AfterDb, Ending, Starting, Threads
<1>8. InPlace'
  BY <1>1, <1>3, <1>5, <1>6, Takers, BackgroundAssumption
     DEF BInv, InPlace, Places, QueueType, PastWorkers, StopMetrics, AfterFile, AfterDb,
     Ending, Starting, Threads
<1>9. StartOrder'
  BY <1>1, <1>3, <1>5, <1>6, Takers, BackgroundAssumption
     DEF BInv, StartOrder, QueueType, PastWorkers, StopMetrics, AfterFile, AfterDb, Ending,
     Starting, Threads
<1>10. StopOrder'
  BY <1>1, <1>3, <1>5, <1>6, Takers, BackgroundAssumption
     DEF BInv, StopOrder, Gone, Abandoned, StartOrder, QueueType, PastWorkers, StopMetrics,
     AfterFile, AfterDb, Ending, Starting, Threads
<1>11. NothingBefore'
  BY <1>1, <1>3, <1>5, <1>6, Takers, BackgroundAssumption
     DEF BInv, NothingBefore, QueueType, PastWorkers, StopMetrics, AfterFile, AfterDb,
     Ending, Starting, Threads
<1>12. QueueLife'
  BY <1>1, <1>3, <1>5, <1>6, Takers, BackgroundAssumption
     DEF BInv, QueueLife, Gone, QueueType, PastWorkers, StopMetrics, AfterFile, AfterDb,
     Ending, Starting, Threads
<1>13. EndsDrained'
  BY <1>1, <1>3, <1>5, <1>6, Takers, BackgroundAssumption
     DEF BInv, EndsDrained, QueueType, PastWorkers, StopMetrics, AfterFile, AfterDb,
     Ending, Starting, Threads
<1>14. BatchSize'
  BY <1>1, <1>3, <1>5, <1>6, Takers, BackgroundAssumption
     DEF BInv, BatchSize, QueueType, PastWorkers, StopMetrics, AfterFile, AfterDb, Ending,
     Starting, Threads
<1>15. Conserved'
  BY <1>1, <1>3, <1>5, <1>6, Takers, BackgroundAssumption, Numbers
     DEF BInv, Conserved, InHand, QueueType, PastWorkers, StopMetrics, AfterFile, AfterDb,
     Ending, Starting, Threads
<1>16. EveryItemSettled'
  BY <1>1, <1>3, <1>5, <1>6, Takers, BackgroundAssumption
     DEF BInv, EveryItemSettled, QueueType, PastWorkers, StopMetrics, AfterFile, AfterDb,
     Ending, Starting, Threads
<1> QED
  BY <1>7, <1>8, <1>9, <1>10, <1>11, <1>12, <1>13, <1>14, <1>15, <1>16 DEF BInv

\* All workers are started, or those that are will be joined.
LEMMA StartWorkersStep ==
    ASSUME BInv, start_workers
    PROVE  BInv'
<1>1. /\ main = "start_workers"
      /\ UNCHANGED <<mode, queue, batch, backlog, pools, requests, accepted, handled>>
  BY DEF start_workers, KeepWork
<1>2. PICK some \in SUBSET Workers :
        /\ mode = "HTTP" => some = Workers
        /\ pc' = [t \in Threads |-> IF t \in some THEN "start" ELSE pc[t]]
        /\ draining' = (some # Workers)
        /\ main' = IF some = Workers THEN "start_consumer" ELSE "join_workers"
  BY DEF start_workers
<1>3. /\ draining' \in BOOLEAN /\ main' \in {"start_consumer", "join_workers"}
      /\ main' = "start_consumer" => some = Workers
  BY <1>2
<1>4. /\ pc' \in [Threads -> {"none", "start", "run", "sleep", "file", "db", "touch", "gather",
                               "nap", "flush", "flush_last", "ended", "dead"}]
      /\ \A w \in some : pc'[w] = "start"
      /\ \A w \in Workers : pc[w] = "none"
      /\ \A u \in Threads : u \notin some => pc'[u] = pc[u]
      /\ pc["consumer"] = "none"
  BY <1>1, <1>2 DEF BInv, FullTypeOK, TypeOK, StartOrder, Starting, Threads
<1>5. \A u \in {"consumer", "runner", "filew", "dbw"} : pc'[u] = pc[u]
  BY <1>2, <1>4, BackgroundAssumption DEF Threads
<1>6. FullTypeOK'
  BY <1>1, <1>2, <1>3, <1>4, <1>5, Takers, BackgroundAssumption
     DEF BInv, FullTypeOK, TypeOK, Stages, QueueType, PastWorkers, StopMetrics, AfterFile,
     AfterDb, Ending, Starting, Threads
<1>7. InPlace'
  BY <1>1, <1>2, <1>3, <1>4, <1>5, Takers, BackgroundAssumption
     DEF BInv, InPlace, Places, QueueType, PastWorkers, StopMetrics, AfterFile, AfterDb,
     Ending, Starting, Threads
<1>8. StartOrder'
  BY <1>1, <1>2, <1>3, <1>4, <1>5, Takers, BackgroundAssumption
     DEF BInv, StartOrder, QueueType, PastWorkers, StopMetrics, AfterFile, AfterDb, Ending,
     Starting, Threads
<1>9. StopOrder'
  BY <1>1, <1>2, <1>3, <1>4, <1>5, Takers, BackgroundAssumption
     DEF BInv, StopOrder, Gone, Abandoned, QueueType, PastWorkers, StopMetrics, AfterFile,
     AfterDb, Ending, Starting, Threads
<1>10. NothingBefore'
  BY <1>1, <1>2, <1>3, <1>4, <1>5, Takers, BackgroundAssumption
     DEF BInv, NothingBefore, QueueType, PastWorkers, StopMetrics, AfterFile, AfterDb,
     Ending, Starting, Threads
<1>11. QueueLife'
  BY <1>1, <1>2, <1>3, <1>4, <1>5, Takers, BackgroundAssumption
     DEF BInv, QueueLife, Gone, QueueType, PastWorkers, StopMetrics, AfterFile, AfterDb,
     Ending, Starting, Threads
<1>12. EndsDrained'
  BY <1>1, <1>2, <1>3, <1>4, <1>5, Takers, BackgroundAssumption
     DEF BInv, EndsDrained, QueueType, PastWorkers, StopMetrics, AfterFile, AfterDb,
     Ending, Starting, Threads
<1>13. BatchSize'
  BY <1>1, <1>2, <1>3, <1>4, <1>5, Takers, BackgroundAssumption
     DEF BInv, BatchSize, QueueType, PastWorkers, StopMetrics, AfterFile, AfterDb, Ending,
     Starting, Threads
<1>14. Conserved'
  BY <1>1, <1>2, <1>3, <1>4, <1>5, Takers, BackgroundAssumption
     DEF BInv, Conserved, InHand, QueueType, PastWorkers, StopMetrics, AfterFile, AfterDb,
     Ending, Starting, Threads
<1>15. EveryItemSettled'
  BY <1>1, <1>2, <1>3, <1>4, <1>5, Takers, BackgroundAssumption
     DEF BInv, EveryItemSettled, QueueType, PastWorkers, StopMetrics, AfterFile, AfterDb,
     Ending, Starting, Threads
<1> QED
  BY <1>6, <1>7, <1>8, <1>9, <1>10, <1>11, <1>12, <1>13, <1>14, <1>15 DEF BInv

\* The consumer is started, or its workers are abandoned.
LEMMA StartConsumerStep ==
    ASSUME BInv, start_consumer
    PROVE  BInv'
<1>1. /\ main = "start_consumer"
      /\ UNCHANGED <<mode, queue, batch, backlog, pools, requests, accepted, handled>>
  BY DEF start_consumer, KeepWork
<1>2. PICK up \in {"start", "run", "none"} :
        /\ \/ pc' = [pc EXCEPT !["consumer"] = up] /\ main' = "serve" /\ draining' = draining /\ up # "none"
           \/ pc' = pc /\ main' = "abandon_workers" /\ draining' = TRUE /\ up = "none"
  BY DEF start_consumer
<1>3. pc["consumer"] = "none" /\ \A w \in Workers : pc[w] # "none"
  BY <1>1 DEF BInv, StartOrder, Starting
<1>4. /\ pc' \in [Threads -> {"none", "start", "run", "sleep", "file", "db", "touch", "gather",
                               "nap", "flush", "flush_last", "ended", "dead"}]
      /\ pc'["consumer"] = up /\ \A u \in Threads : u # "consumer" => pc'[u] = pc[u]
  BY <1>2, <1>3 DEF BInv, FullTypeOK, TypeOK, Threads
<1>5. /\ main' \in {"serve", "abandon_workers"} /\ (main' = "abandon_workers" => up = "none")
      /\ draining' \in BOOLEAN
  BY <1>2 DEF BInv, FullTypeOK
<1>6. FullTypeOK'
  BY <1>1, <1>3, <1>4, <1>5, Takers, BackgroundAssumption
     DEF BInv, FullTypeOK, TypeOK, Stages, QueueType, PastWorkers, StopMetrics, AfterFile,
     AfterDb, Ending, Starting, Threads
<1>7. InPlace'
  BY <1>1, <1>3, <1>4, <1>5, Takers, BackgroundAssumption
     DEF BInv, InPlace, Places, QueueType, PastWorkers, StopMetrics, AfterFile, AfterDb,
     Ending, Starting, Threads
<1>8. StartOrder'
  BY <1>1, <1>3, <1>4, <1>5, Takers, BackgroundAssumption
     DEF BInv, StartOrder, QueueType, PastWorkers, StopMetrics, AfterFile, AfterDb, Ending,
     Starting, Threads
<1>9. StopOrder'
  BY <1>1, <1>3, <1>4, <1>5, Takers, BackgroundAssumption
     DEF BInv, StopOrder, Gone, Abandoned, QueueType, PastWorkers, StopMetrics, AfterFile,
     AfterDb, Ending, Starting, Threads
<1>10. NothingBefore'
  BY <1>1, <1>3, <1>4, <1>5, Takers, BackgroundAssumption
     DEF BInv, NothingBefore, QueueType, PastWorkers, StopMetrics, AfterFile, AfterDb,
     Ending, Starting, Threads
<1>11. QueueLife'
  BY <1>1, <1>3, <1>4, <1>5, Takers, BackgroundAssumption
     DEF BInv, QueueLife, Gone, QueueType, PastWorkers, StopMetrics, AfterFile, AfterDb,
     Ending, Starting, Threads
<1>12. EndsDrained'
  BY <1>1, <1>3, <1>4, <1>5, Takers, BackgroundAssumption
     DEF BInv, EndsDrained, QueueType, PastWorkers, StopMetrics, AfterFile, AfterDb,
     Ending, Starting, Threads
<1>13. BatchSize'
  BY <1>1, <1>3, <1>4, <1>5, Takers, BackgroundAssumption
     DEF BInv, BatchSize, QueueType, PastWorkers, StopMetrics, AfterFile, AfterDb, Ending,
     Starting, Threads
<1>14. Conserved'
  BY <1>1, <1>3, <1>4, <1>5, Takers, BackgroundAssumption
     DEF BInv, Conserved, InHand, QueueType, PastWorkers, StopMetrics, AfterFile, AfterDb,
     Ending, Starting, Threads
<1>15. EveryItemSettled'
  BY <1>1, <1>3, <1>4, <1>5, Takers, BackgroundAssumption
     DEF BInv, EveryItemSettled, QueueType, PastWorkers, StopMetrics, AfterFile, AfterDb,
     Ending, Starting, Threads
<1> QED
  BY <1>6, <1>7, <1>8, <1>9, <1>10, <1>11, <1>12, <1>13, <1>14, <1>15 DEF BInv

\* A step that changes nothing the invariant speaks of.
LEMMA BStutter ==
    ASSUME BInv, UNCHANGED vars
    PROVE  BInv'
BY DEF BInv, vars, FullTypeOK, TypeOK, InPlace, StartOrder, StopOrder, NothingBefore,
   QueueLife,
       EndsDrained, BatchSize, Conserved, InHand, EveryItemSettled, Gone, Abandoned

\* The invariant holds when main() begins.
LEMMA BInitOK == Init => BInv
<1> SUFFICES ASSUME Init PROVE BInv
  OBVIOUS
<1>1. /\ main = "metrics" /\ "business" \in pools /\ batch = 0 /\ backlog = 0
      /\ requests = 0 /\ draining = FALSE /\ mode \in {"FILE", "HTTP"} /\ pools = {"business"}
      /\ \A t \in Threads : pc[t] = "none"
      /\ \A q \in Queues : /\ queue[q].state = "absent" /\ queue[q].items = 0 /\ ~queue[q].shut
                           /\ accepted[q] = 0 /\ handled[q] = 0
  BY DEF Init
<1>2. FullTypeOK
  <2>1. 0 \in 0 .. Depth /\ 0 \in 0 .. PerWrite /\ 0 \in 0 .. MaxRequests /\ 0 <= 0
    BY BackgroundAssumption
  <2>2. TypeOK
    BY <2>1 DEF Init, TypeOK
  <2> QED
    BY <2>1, <2>2 DEF Init, FullTypeOK, Stages, Starting
<1>3. InPlace
  BY <1>1, BackgroundAssumption DEF InPlace, Places, Threads
<1>4. StartOrder /\ StopOrder
  BY <1>1, Takers DEF StartOrder, StopOrder, Gone, Starting, PastWorkers, StopMetrics, AfterFile,
     AfterDb,
                      Ending, Threads
<1>5. NothingBefore /\ QueueLife
  BY <1>1, Takers DEF NothingBefore, QueueLife, Threads
<1>6. EndsDrained /\ BatchSize /\ EveryItemSettled
  BY <1>1, Takers DEF EndsDrained, BatchSize, EveryItemSettled, Threads
<1>7. Conserved
  BY <1>1, Takers DEF Conserved, InHand, Threads
<1> QED
  BY <1>2, <1>3, <1>4, <1>5, <1>6, <1>7 DEF BInv

\* Every step of every thread and of main() keeps the invariant.
LEMMA BNextOK == BInv /\ [Next]_vars => BInv'
<1> SUFFICES ASSUME BInv, [Next]_vars PROVE BInv'
  OBVIOUS
<1>1. CASE MainStep
  <2>1. CASE stop_runner
    BY <2>1, StopRunnerStep, JoinRunnerStep, FreeTouchStep DEF stop_runner
  <2>2. CASE stop_metrics
    BY <2>2, StopFileStep, JoinFileStep, StopDbStep, JoinDbStep, FreeMetricsStep
       DEF stop_metrics
  <2> QED
    BY <1>1, <2>1, <2>2, RefuseStep, StartMetricsStep, SelfTestStep, EndSelfTestStep, StartRunnerStep, StartWorkersStep,
       StartConsumerStep, JoinConsumerStep, JoinWorkersStep, DisconnectStep DEF MainStep
<1>2. ASSUME NEW t \in Threads, ThreadStep(t) PROVE BInv'
  <2>1. CASE borrow(t) \/ produce(t)
    BY <2>1, BorrowStep, ProduceStep
  <2>2. CASE t \in Workers /\ (take_request(t) \/ worker_ends(t))
    BY <2>2, TakeStep, WorkerEndsStep
  <2>3. CASE \E q \in Queues : service_next(q)
    BY <2>3, ServiceStep
  <2>4. CASE batch_first \/ batch_more \/ batch_timeout \/ flush
    BY <2>4, BatchStep, FlushStep
  <2> QED
    BY <1>2, <2>1, <2>2, <2>3, <2>4 DEF ThreadStep
<1>3. CASE Environment
  BY <1>3, ArriveStep, RenewStep, ConsumerEndsStep, WakeStep DEF Environment
<1>4. CASE UNCHANGED vars
  BY <1>4, BStutter
<1> QED
  BY <1>1, <1>2, <1>3, <1>4 DEF Next, Exited

-----------------------------------------------------------------------------
(* Theorems                                                                 *)

\* In every behaviour of main() and its threads the inductive invariant holds.
THEOREM BackgroundInvariant == Spec => []BInv
BY BInitOK, BNextOK, PTL DEF Spec

\* Threads, queues and batch keep their shape: no queue above its depth and no
\* batch above metrics_per_write, whatever those are.
THEOREM BackgroundTypeCorrect == Spec => []TypeOK
<1>1. BInv => TypeOK
  BY DEF BInv, FullTypeOK
<1> QED
  BY <1>1, BackgroundInvariant, PTL

\* What a generic_queue accepted has been handled when the queue is destroyed,
\* unless its thread never ran: a shutdown loses neither a queued record nor an
\* open batch.
THEOREM ItemsSettled == Spec => []EveryItemSettled
<1>1. BInv => EveryItemSettled
  BY DEF BInv
<1> QED
  BY <1>1, BackgroundInvariant, PTL

\* generic_queue_destroy() comes when no thread waits on the queue and no
\* producer of metrics or activity reports is left.
THEOREM QueuesFreedLast == Spec => []NoUseAfterFree
<1>1. BInv => NoUseAfterFree
  <2> SUFFICES ASSUME BInv, NEW q \in Queues, queue[q].state = "freed"
               PROVE  Gone(Taker(q)) /\ \A t \in Threads : pc[t] \notin {"file", "db", "touch"}
    BY DEF NoUseAfterFree
  <2>1. main \in StopMetrics
    BY Takers DEF BInv, QueueLife, StopMetrics, AfterFile, AfterDb
  <2>2. Gone(Taker(q))
    BY Takers DEF BInv, QueueLife, StopOrder, AfterFile, AfterDb
  <2>3. \A t \in Threads : pc[t] \notin {"file", "db", "touch"}
    BY <2>1, Producers
  <2> QED
    BY <2>2, <2>3
<1> QED
  BY <1>1, BackgroundInvariant, PTL

\* driver->disconnect() comes when no thread that borrows from the pool is
\* left, the Session Manager thread excepted after a failed start of the
\* consumer; a self-test that halts main() disconnects nothing.
THEOREM PoolsDisconnectedLast == Spec => []PoolsOutliveBorrowers
<1>1. BInv => PoolsOutliveBorrowers
  <2> SUFFICES ASSUME BInv PROVE PoolsOutliveBorrowers
    OBVIOUS
  <2>1. "business" \notin pools => main \in StopMetrics /\ main \in PastWorkers
    BY DEF BInv, StopOrder, PastWorkers, StopMetrics, AfterFile, AfterDb, Ending
  <2>2. main = "exit" => main \in AfterDb /\ main \in AfterFile
    BY DEF AfterFile, AfterDb, Ending
  <2> QED
    BY <2>1, <2>2 DEF BInv, StopOrder, PoolsOutliveBorrowers
<1> QED
  BY <1>1, BackgroundInvariant, PTL
=============================================================================
