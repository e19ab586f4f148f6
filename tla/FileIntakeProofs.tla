--------------------------- MODULE FileIntakeProofs ---------------------------
(***************************************************************************)
(* Proofs about FileIntake, for any number of names, deliveries, workers,  *)
(* faults and crashes and any queue depth: a payload is executed once, no  *)
(* delivery is forgotten, and originals are archived, with the exceptions  *)
(* that the ghosts unmoved, lost and strays record.                        *)
(***************************************************************************)
EXTENDS FileIntake, SequenceTheorems, TLAPS

-----------------------------------------------------------------------------
(* The inductive invariant                                                  *)

\* Worker w has dequeued delivery i and is not done with it.
Holds(w, i)   == wpc[w] \in {"execute", "respond"} /\ witem[w] = i
Responding(i) == \E w \in Workers : wpc[w] = "respond" /\ witem[w] = i

\* Delivery i waits at position j of worker w's queue.
QueuedAt(w, j, i) == j \in DOMAIN queue[w] /\ queue[w][j] = i

Known == 1 .. delivered

WorkerStates == {"starting", "idle", "execute", "respond", "failed", "ended"}

\* TypeOK, and the types of what it leaves out.
FullTypeOK ==
    /\ TypeOK
    /\ delivered \in 0 .. MaxDeliveries /\ stopping \in BOOLEAN
    /\ name \in [Ids -> Names \cup {CHOOSE n \in Names : TRUE}]
    /\ witem \in [Workers -> 0 .. MaxDeliveries] /\ todo \subseteq Names
    /\ unmoved \subseteq Ids /\ lost \subseteq Ids /\ strays \subseteq Ids

\* The directories hold deliveries under their names, none in both; queues and workers hold
\* deliveries; what has not come in has not been executed.
Filed ==
    /\ \A n \in Names : /\ input[n] # None => input[n] \in Known /\ name[input[n]] = n
                        /\ processing[n] # None => processing[n] \in Known /\ name[processing[n]] = n
                        /\ input[n] # None => input[n] # processing[n]
    /\ \A i \in Known : name[i] \in Names
    /\ \A w \in Workers : \A j \in DOMAIN queue[w] : queue[w][j] \in Known
    /\ \A w \in Workers : wpc[w] \in {"execute", "respond"} => witem[w] \in Known
    /\ \A i \in Ids : i > delivered => executed[i] = 0 /\ i \notin answered

\* The consumer's file is in Input_* and will not be met again in this pass.
Scanning ==
    /\ cpc # "rest" => \A n \in todo : input[n] # None
    /\ cpc \in {"enqueue", "move", "reject"} =>
         cid \in Known /\ input[name[cid]] = cid /\ name[cid] \notin todo

\* A delivery that could be moved has at most one request, and none while it
\* waits in Input_*, except between the enqueue and the move.
OneRequest ==
    /\ \A i \in Known \ unmoved :
         /\ \A u, w \in Workers : \A j, k : QueuedAt(u, j, i) /\ QueuedAt(w, k, i) => u = w /\ j = k
         /\ \A u, w \in Workers : Holds(u, i) /\ Holds(w, i) => u = w
         /\ \A u, w \in Workers : \A j : ~(QueuedAt(u, j, i) /\ Holds(w, i))
         /\ InFlight(i) => executed[i] = 0
         /\ input[name[i]] = i /\ ~(cpc = "move" /\ cid = i) =>
              ~InFlight(i) /\ ~Responding(i) /\ executed[i] = 0

\* The consumer moves a file whose request is somewhere, or done.
Moving ==
    cpc = "move" =>
      /\ InFlight(cid) \/ executed[cid] > 0
      /\ InFlight(cid) \/ Responding(cid) \/ cid \in strays \cup unmoved

\* The original of a request in work is in Processing_*.
InProcessing ==
    \A i \in Known \ (strays \cup unmoved) :
      (InFlight(i) \/ Responding(i)) /\ input[name[i]] # i => processing[name[i]] = i

FInv ==
    /\ FullTypeOK /\ Filed /\ Scanning /\ OneRequest /\ ExecutedOnce /\ Moving
    /\ NothingForgotten /\ InProcessing /\ OriginalsArchived

-----------------------------------------------------------------------------
(* Facts about queues                                                       *)

\* A queue is a sequence of deliveries.
LEMMA QueueFacts ==
    ASSUME FullTypeOK, NEW w \in Workers
    PROVE  /\ queue[w] \in Seq(Ids) /\ Len(queue[w]) \in Nat /\ DOMAIN queue[w] = 1 .. Len(queue[w])
           /\ Len(queue[w]) <= Depth /\ Depth \in Nat
BY FileAssumption DEF FullTypeOK, TypeOK, WorkerStates

\* What an enqueue does to it.
LEMMA AppendFacts ==
    ASSUME NEW s \in Seq(Ids), NEW e \in Ids
    PROVE  /\ Append(s, e) \in Seq(Ids) /\ Len(Append(s, e)) = Len(s) + 1 /\ Len(s) \in Nat
           /\ DOMAIN s = 1 .. Len(s) /\ DOMAIN Append(s, e) = 1 .. Len(s) + 1
           /\ Append(s, e)[Len(s) + 1] = e
           /\ \A j \in 1 .. Len(s) : Append(s, e)[j] = s[j]
OBVIOUS

\* What a dequeue does to it.
LEMMA TailFacts ==
    ASSUME NEW s \in Seq(Ids), s # << >>
    PROVE  /\ Tail(s) \in Seq(Ids) /\ Len(Tail(s)) = Len(s) - 1 /\ Len(s) \in Nat /\ Len(s) >= 1
           /\ DOMAIN s = 1 .. Len(s) /\ DOMAIN Tail(s) = 1 .. Len(s) - 1
           /\ Head(s) = s[1] /\ Head(s) \in Ids
           /\ \A j \in 1 .. Len(s) - 1 : Tail(s)[j] = s[j + 1]
OBVIOUS

\* Where a delivery is, in terms of positions.
LEMMA FlightIs ==
    \A i : InFlight(i) <=> \/ \E w \in Workers : \E j : QueuedAt(w, j, i)
                           \/ \E w \in Workers : wpc[w] = "execute" /\ witem[w] = i
BY DEF InFlight, QueuedAt

\* Steps that leave queues and workers alone leave every request where it is.
LEMMA Quiet ==
    ASSUME UNCHANGED <<queue, wpc, witem>>
    PROVE  /\ \A i : (InFlight(i)' <=> InFlight(i)) /\ (Responding(i)' <=> Responding(i))
           /\ \A w, j, i : QueuedAt(w, j, i)' <=> QueuedAt(w, j, i)
           /\ \A w, i : Holds(w, i)' <=> Holds(w, i)
BY DEF InFlight, Responding, QueuedAt, Holds

\* The numbers.
LEMMA Counts ==
    ASSUME FullTypeOK
    PROVE  /\ MaxDeliveries \in Nat /\ delivered \in Nat /\ delivered <= MaxDeliveries
           /\ Known \subseteq Ids /\ Ids \subseteq Nat \ {0}
           /\ None \notin Ids /\ None \notin Known
           /\ \A i \in Ids : executed[i] \in Nat /\ (i \in Known <=> ~(i > delivered))
BY FileAssumption DEF FullTypeOK, TypeOK, WorkerStates, Known, Ids, None

-----------------------------------------------------------------------------
(* The client                                                               *)

\* A delivery is new and disturbs nothing.
LEMMA DeliverStep ==
    ASSUME FInv, NEW n \in Names, deliver(n)
    PROVE  FInv'
<1>1. /\ delivered < MaxDeliveries /\ input[n] = None /\ delivered' = delivered + 1
      /\ input' = [input EXCEPT ![n] = delivered + 1]
      /\ name' = [name EXCEPT ![delivered + 1] = n]
      /\ UNCHANGED <<processing, archived, queue, cpc, cid, wpc, witem, stopping, executed, answered,
                     unmoved, lost, strays>>
  BY DEF deliver, history
<1>2. todo' = todo \/ (cpc # "rest" /\ todo' = todo \cup {n})
  BY DEF deliver
<1>3. FullTypeOK
  BY DEF FInv
<1>4. PICK d : d = delivered + 1
  OBVIOUS
<1>5. /\ d \in Ids /\ d \notin Known /\ d # None /\ d \in 0 .. MaxDeliveries /\ Known' = Known \cup {d}
      /\ Known \subseteq Ids /\ Ids \subseteq Nat /\ d > delivered
  BY <1>1, <1>3, <1>4, Counts DEF Known, Ids, None
<1>6. /\ input'[n] = d /\ \A m \in Names : m # n => input'[m] = input[m]
      /\ name'[d] = n /\ \A i \in Ids : i # d => name'[i] = name[i]
  BY <1>1, <1>3, <1>4, <1>5 DEF FullTypeOK, TypeOK, WorkerStates
<1>7. FullTypeOK'
  <2>1. delivered' \in 0 .. MaxDeliveries
    BY <1>1, <1>4, <1>5
  <2>2. /\ name' \in [Ids -> Names \cup {CHOOSE m \in Names : TRUE}]
        /\ input' \in [Names -> 0 .. MaxDeliveries]
    BY <1>1, <1>3, <1>4, <1>5 DEF FullTypeOK, TypeOK, WorkerStates
  <2> QED
    BY <1>1, <1>2, <1>3, <2>1, <2>2 DEF FullTypeOK, TypeOK, WorkerStates
<1>8. Filed'
  <2>1. \A i \in Ids : i > delivered' => i > delivered
    BY <1>1, <1>3, Counts
  <2> QED
    BY <1>1, <1>3, <1>5, <1>6, <2>1, Counts DEF FInv, Filed
<1>9. \A i \in Known : i # d /\ name'[i] = name[i] /\ name[i] \in Names
                       /\ (input'[name[i]] = i <=> input[name[i]] = i)
  BY <1>1, <1>3, <1>5, <1>6, Counts DEF FInv, Filed
<1>10. Scanning'
  BY <1>1, <1>2, <1>3, <1>5, <1>6, <1>9, Counts DEF FInv, Scanning, Filed
<1>11. /\ \A w \in Workers : \A j : ~QueuedAt(w, j, d)
       /\ \A w \in Workers : ~Holds(w, d)
       /\ ~InFlight(d) /\ ~Responding(d) /\ executed[d] = 0 /\ d \notin answered
  BY <1>5 DEF FInv, Filed, QueuedAt, Holds, InFlight, Responding
<1>12. OneRequest'
  BY <1>1, <1>5, <1>9, <1>11, Quiet DEF FInv, OneRequest
<1>13. ExecutedOnce' /\ Moving'
  BY <1>1, Quiet DEF FInv, ExecutedOnce, Moving
<1>14. NothingForgotten'
  BY <1>1, <1>5, <1>6, <1>9, Quiet DEF FInv, NothingForgotten, Known
<1>15. InProcessing'
  BY <1>1, <1>5, <1>9, <1>11, Quiet DEF FInv, InProcessing
<1>16. OriginalsArchived'
  <2>1. \A i \in answered : i \in Known
    BY <1>3, Counts DEF FInv, Filed, FullTypeOK, TypeOK, WorkerStates
  <2> QED
    BY <1>1, <1>9, <2>1, Quiet DEF FInv, OriginalsArchived, Responding
<1> QED
  BY <1>7, <1>8, <1>10, <1>12, <1>13, <1>14, <1>15, <1>16 DEF FInv

-----------------------------------------------------------------------------
(* The File Consumer                                                        *)

\* Steps of the scan that touch neither files nor requests.
LEMMA ScanSteps ==
    ASSUME FInv,
           start_pass \/ end_pass \/ enqueue_full \/ stop \/ \E n \in Names : read_file(n)
    PROVE  FInv'
<1>1. /\ UNCHANGED <<input, processing, archived, name, delivered, queue, wpc, witem, executed, answered,
                     unmoved, lost, strays>>
      /\ stopping' \in BOOLEAN
  BY DEF FInv, FullTypeOK, start_pass, end_pass, enqueue_full, stop, read_file, KeepOthers,
     fs, history,
         bounds
<1>2. FullTypeOK /\ Scanning
  BY DEF FInv
<1>3. Known' = Known
  BY <1>1 DEF Known
<1>4. /\ cpc' \in {"rest", "scan", "enqueue", "move", "reject"} /\ cid' \in 0 .. MaxDeliveries
      /\ todo' \subseteq Names /\ Scanning' /\ (cpc' = "move" => cpc = "move" /\ cid' = cid)
      /\ (cpc = "move" => cpc' = "move")
  <2>1. CASE start_pass
    BY <1>1, <1>2, <2>1 DEF start_pass, Scanning, FullTypeOK, TypeOK, WorkerStates
  <2>2. CASE end_pass
    BY <1>1, <1>2, <2>2 DEF end_pass, Scanning, FullTypeOK, TypeOK, WorkerStates
  <2>3. CASE enqueue_full
    BY <1>1, <1>2, <1>3, <2>3 DEF enqueue_full, Scanning, FullTypeOK, TypeOK, WorkerStates
  <2>4. CASE stop
    BY <1>1, <1>2, <1>3, <2>4 DEF stop, Scanning, FullTypeOK, TypeOK, WorkerStates
  <2>5. ASSUME NEW n \in Names, read_file(n)
        PROVE  /\ cpc' \in {"rest", "scan", "enqueue", "move", "reject"} /\ cid' \in 0 .. MaxDeliveries
               /\ todo' \subseteq Names /\ Scanning' /\ cpc' # "move" /\ cpc # "move"
    <3>1. /\ cpc = "scan" /\ n \in todo /\ todo' = todo \ {n}
          /\ \/ cpc' \in {"enqueue", "reject"} /\ cid' = input[n]
             \/ cpc' = "scan" /\ cid' = cid
      BY <2>5 DEF read_file
    <3>2. input[n] # None /\ input[n] \in Known /\ name[input[n]] = n /\ input[n] \in 0 .. MaxDeliveries
      BY <1>2, <3>1 DEF FInv, Filed, Scanning, FullTypeOK, TypeOK, WorkerStates
    <3> QED
      BY <1>1, <1>2, <1>3, <3>1, <3>2 DEF Scanning, FullTypeOK, TypeOK, WorkerStates
  <2> QED
    BY <2>1, <2>2, <2>3, <2>4, <2>5 DEF start_pass, end_pass, enqueue_full, stop
<1>5. FullTypeOK'
  BY <1>1, <1>2, <1>4 DEF FullTypeOK, TypeOK, WorkerStates
<1>6. Filed'
  BY <1>1, <1>3 DEF FInv, Filed
<1>7. OneRequest'
  BY <1>1, <1>3, <1>4, Quiet DEF FInv, OneRequest
<1>8. ExecutedOnce' /\ Moving'
  BY <1>1, <1>4, Quiet DEF FInv, ExecutedOnce, Moving
<1>9. NothingForgotten' /\ InProcessing'
  BY <1>1, <1>3, Quiet DEF FInv, NothingForgotten, InProcessing
<1>10. OriginalsArchived'
  BY <1>1, Quiet DEF FInv, OriginalsArchived, Responding
<1> QED
  BY <1>4, <1>5, <1>6, <1>7, <1>8, <1>9, <1>10 DEF FInv

\* A request is enqueued for the consumer's file.
LEMMA EnqueueStep ==
    ASSUME FInv, enqueue
    PROVE  FInv'
<1>1. /\ cpc = "enqueue" /\ cpc' = "move"
      /\ UNCHANGED <<input, processing, archived, name, delivered, wpc, witem, executed, answered,
                     unmoved, lost, strays, cid, todo, stopping>>
  BY DEF enqueue, KeepOthers, fs, history
<1>2. PICK w \in Workers : /\ queue' = [queue EXCEPT ![w] = Append(queue[w], cid)]
                           /\ Len(queue[w]) < Depth
  BY FileAssumption DEF enqueue, Room, Eligible
<1>3. FullTypeOK /\ Known' = Known
  BY <1>1 DEF FInv, Known
<1>4. cid \in Known /\ cid \in Ids /\ input[name[cid]] = cid /\ name[cid] \notin todo
  BY <1>1, <1>3, Counts DEF FInv, Scanning
<1>5. PICK m \in Nat : m = Len(queue[w])
  BY <1>3, QueueFacts
<1>6. /\ queue'[w] \in Seq(Ids) /\ Len(queue'[w]) = m + 1 /\ DOMAIN queue[w] = 1 .. m
      /\ DOMAIN queue'[w] = 1 .. m + 1 /\ queue'[w][m + 1] = cid
      /\ \A j \in 1 .. m : queue'[w][j] = queue[w][j]
      /\ \A u \in Workers : u # w => queue'[u] = queue[u]
  <2>1. queue'[w] = Append(queue[w], cid) /\ \A u \in Workers : u # w => queue'[u] = queue[u]
    BY <1>2, <1>3 DEF FullTypeOK, TypeOK, WorkerStates
  <2> QED
    BY <1>3, <1>4, <1>5, <2>1, QueueFacts, AppendFacts
<1>7. /\ \A u \in Workers : \A j, i : QueuedAt(u, j, i)' <=> QueuedAt(u, j, i) \/ (u = w /\ j = m + 1 /\ i = cid)
      /\ \A i : (InFlight(i)' <=> InFlight(i) \/ i = cid) /\ (Responding(i)' <=> Responding(i))
      /\ \A u, i : Holds(u, i)' <=> Holds(u, i)
  <2>1. \A u \in Workers : \A j, i : QueuedAt(u, j, i)' <=> QueuedAt(u, j, i) \/ (u = w /\ j = m + 1 /\ i = cid)
    BY <1>1, <1>6 DEF QueuedAt
  <2>2. \A i : InFlight(i)' <=> \/ \E u \in Workers : \E j : QueuedAt(u, j, i)'
                                \/ \E u \in Workers : wpc'[u] = "execute" /\ witem'[u] = i
    BY DEF InFlight, QueuedAt
  <2>3. \A i : InFlight(i)' <=> InFlight(i) \/ i = cid
    BY <1>1, <2>1, <2>2, FlightIs
  <2> QED
    BY <1>1, <2>1, <2>3 DEF Responding, Holds
<1>8. FullTypeOK'
  <2>1. queue' \in [Workers -> Seq(Ids)] /\ \A u \in Workers : Len(queue'[u]) <= Depth
    BY <1>2, <1>3, <1>5, <1>6, QueueFacts DEF FullTypeOK, TypeOK, WorkerStates
  <2> QED
    BY <1>1, <1>3, <2>1 DEF FullTypeOK, TypeOK, WorkerStates
<1>9. Filed'
  <2>1. \A u \in Workers : \A j \in DOMAIN queue'[u] : queue'[u][j] \in Known
    <3>1. \A u \in Workers : \A j \in DOMAIN queue[u] : queue[u][j] \in Known
      BY DEF FInv, Filed
    <3>2. \A j \in DOMAIN queue'[w] : queue'[w][j] \in Known
      BY <1>4, <1>6, <3>1
    <3> QED
      BY <1>6, <3>1, <3>2
  <2> QED
    BY <1>1, <1>3, <2>1 DEF FInv, Filed
<1>10. Scanning'
  BY <1>1, <1>3, <1>4 DEF FInv, Scanning
<1>11. cid \notin unmoved => /\ ~InFlight(cid) /\ ~Responding(cid) /\ executed[cid] = 0
                             /\ \A u \in Workers : (\A j : ~QueuedAt(u, j, cid)) /\ ~Holds(u, cid)
  <2>1. cid \notin unmoved => ~InFlight(cid) /\ ~Responding(cid) /\ executed[cid] = 0
    BY <1>1, <1>4 DEF FInv, OneRequest
  <2> QED
    BY <2>1 DEF InFlight, Responding, QueuedAt, Holds
<1>12. OneRequest'
  BY <1>1, <1>3, <1>4, <1>7, <1>11 DEF FInv, OneRequest
<1>13. ExecutedOnce' /\ Moving'
  BY <1>1, <1>7 DEF FInv, ExecutedOnce, Moving
<1>14. NothingForgotten'
  BY <1>1, <1>7 DEF FInv, NothingForgotten
<1>15. InProcessing'
  BY <1>1, <1>3, <1>4, <1>7 DEF FInv, InProcessing
<1>16. OriginalsArchived'
  BY <1>1, <1>7 DEF FInv, OriginalsArchived, Responding
<1> QED
  BY <1>8, <1>9, <1>10, <1>12, <1>13, <1>14, <1>15, <1>16 DEF FInv

\* The file is moved into Processing_*, or stays.
LEMMA MoveStep ==
    ASSUME FInv, move_to_processing
    PROVE  FInv'
<1>1. /\ cpc = "move" /\ cpc' = "scan"
      /\ UNCHANGED <<archived, name, delivered, queue, wpc, witem, executed, answered, lost, cid, todo,
                     stopping>>
  BY DEF move_to_processing, KeepOthers
<1>2. FullTypeOK /\ Known' = Known
  BY <1>1 DEF FInv, Known
<1>3. PICK n : n = name[cid]
  OBVIOUS
<1>4. cid \in Known /\ cid \in Ids /\ input[n] = cid /\ n \notin todo /\ n \in Names
  BY <1>1, <1>2, <1>3, Counts DEF FInv, Scanning, Filed
<1>5. CASE /\ input' = [input EXCEPT ![n] = None] /\ processing' = [processing EXCEPT ![n] = cid]
           /\ strays' = strays \cup ({processing[n]} \ {None}) /\ UNCHANGED unmoved
  <2>1. /\ input'[n] = None /\ processing'[n] = cid
        /\ \A k \in Names : k # n => input'[k] = input[k] /\ processing'[k] = processing[k]
    BY <1>2, <1>4, <1>5 DEF FullTypeOK, TypeOK, WorkerStates
  <2>2. processing[n] # None => processing[n] \in Known /\ name[processing[n]] = n
    BY <1>4 DEF FInv, Filed
  <2>3. FullTypeOK'
    <3>1. /\ input' \in [Names -> 0 .. MaxDeliveries] /\ processing' \in [Names -> 0 .. MaxDeliveries]
      BY <1>2, <1>4, <1>5, FileAssumption DEF FullTypeOK, TypeOK, WorkerStates, None
    <3>2. strays' \subseteq Ids
      BY <1>2, <1>5, <2>2, Counts DEF FullTypeOK
    <3> QED
      BY <1>1, <1>2, <1>5, <3>1, <3>2 DEF FullTypeOK, TypeOK, WorkerStates
  <2>4. Filed'
    BY <1>1, <1>2, <1>3, <1>4, <2>1 DEF FInv, Filed
  <2>5. Scanning'
    BY <1>1, <1>2, <1>4, <2>1 DEF FInv, Scanning, FullTypeOK
  <2>6. \A i \in Known : /\ name[i] \in Names
                         /\ input'[name[i]] = i => input[name[i]] = i /\ i # cid
                         /\ i # cid /\ input[name[i]] = i => input'[name[i]] = i
    BY <1>2, <1>3, <1>4, <2>1, Counts DEF FInv, Filed
  <2>7. OneRequest'
    BY <1>1, <1>2, <1>5, <2>6, Quiet DEF FInv, OneRequest
  <2>8. ExecutedOnce' /\ Moving'
    BY <1>1, <1>5 DEF FInv, ExecutedOnce, Moving
  <2>9. NothingForgotten'
    <3>1. InFlight(cid) \/ executed[cid] # 0
      BY <1>1, <1>2, <1>4, Counts DEF FInv, Moving
    <3> QED
      BY <1>1, <2>6, <3>1, Quiet DEF FInv, NothingForgotten, Known
  <2>10. InProcessing'
    <3> SUFFICES ASSUME NEW i \in Known, i \notin strays', i \notin unmoved,
                        InFlight(i) \/ Responding(i), input'[name[i]] # i
                 PROVE  processing'[name[i]] = i
      BY <1>1, <1>2, <1>5, Quiet DEF InProcessing
    <3>1. CASE i = cid
      BY <1>3, <2>1, <3>1
    <3>2. CASE i # cid
      <4>1. processing[name[i]] = i /\ i # None
        BY <1>2, <1>5, <2>6, <3>2, Counts DEF FInv, InProcessing
      <4>2. name[i] # n
        BY <1>5, <4>1
      <4> QED
        BY <2>1, <2>6, <4>1, <4>2
    <3> QED
      BY <3>1, <3>2
  <2>11. OriginalsArchived'
    <3>1. \A i \in answered : i \in Known
      BY <1>2, Counts DEF FInv, Filed, FullTypeOK, TypeOK, WorkerStates
    <3>2. InFlight(cid) \/ Responding(cid) \/ cid \in strays \cup unmoved
      BY <1>1 DEF FInv, Moving
    <3> QED
      BY <1>1, <1>5, <2>6, <3>1, <3>2, Quiet DEF FInv, OriginalsArchived, Responding
  <2> QED
    BY <2>3, <2>4, <2>5, <2>7, <2>8, <2>9, <2>10, <2>11 DEF FInv
<1>6. CASE unmoved' = unmoved \cup {cid} /\ UNCHANGED <<input, processing, strays>>
  <2>1. FullTypeOK'
    BY <1>1, <1>2, <1>4, <1>6 DEF FullTypeOK, TypeOK, WorkerStates
  <2>2. Filed'
    BY <1>1, <1>2, <1>6 DEF FInv, Filed
  <2>3. Scanning'
    BY <1>1, <1>2, <1>6 DEF FInv, Scanning
  <2>4. OneRequest'
    BY <1>1, <1>2, <1>6, Quiet DEF FInv, OneRequest
  <2>5. ExecutedOnce' /\ Moving'
    BY <1>1, <1>6 DEF FInv, ExecutedOnce, Moving
  <2>6. NothingForgotten' /\ InProcessing'
    BY <1>1, <1>2, <1>6, Quiet DEF FInv, NothingForgotten, InProcessing
  <2>7. OriginalsArchived'
    BY <1>1, <1>6, Quiet DEF FInv, OriginalsArchived, Responding
  <2> QED
    BY <2>1, <2>2, <2>3, <2>4, <2>5, <2>6, <2>7 DEF FInv
<1> QED
  BY <1>3, <1>5, <1>6 DEF move_to_processing

\* The file is rejected: archived as an error, or found again later.
LEMMA RejectStep ==
    ASSUME FInv, reject
    PROVE  FInv'
<1>1. /\ cpc = "reject" /\ cpc' = "scan" /\ answered' \in {answered, answered \cup {cid}}
      /\ UNCHANGED <<processing, name, delivered, queue, wpc, witem, executed, lost, cid, todo, stopping,
                     unmoved, strays>>
  BY DEF reject, KeepOthers
<1>2. FullTypeOK /\ Known' = Known
  BY <1>1 DEF FInv, Known
<1>3. PICK n : n = name[cid]
  OBVIOUS
<1>4. cid \in Known /\ cid \in Ids /\ input[n] = cid /\ n \notin todo /\ n \in Names
  BY <1>1, <1>2, <1>3, Counts DEF FInv, Scanning, Filed
<1>5. PICK k \in {None, cid} :
        /\ input' = [input EXCEPT ![n] = k]
        /\ archived' = IF k = None THEN [archived EXCEPT ![cid] = "error"] ELSE archived
        /\ k = None => cid \in answered'
  <2>1. CASE /\ input' = [input EXCEPT ![n] = None] /\ archived' = [archived EXCEPT ![cid] = "error"]
             /\ answered' = answered \cup {cid}
    BY <2>1
  <2>2. CASE UNCHANGED <<input, archived>>
    <3>1. input' = [input EXCEPT ![n] = cid] /\ cid # None
      BY <1>2, <1>4, <2>2, Counts DEF FullTypeOK, TypeOK, WorkerStates
    <3> QED
      BY <2>2, <3>1
  <2> QED
    BY <1>3, <2>1, <2>2 DEF reject
<1>6. /\ input'[n] = k /\ \A m \in Names : m # n => input'[m] = input[m]
      /\ archived' \in [Ids -> {"no", "output", "error"}]
      /\ \A i \in Ids : i # cid => archived'[i] = archived[i]
      /\ k = None => archived'[cid] = "error"
  BY <1>2, <1>4, <1>5 DEF FullTypeOK, TypeOK, WorkerStates
<1>7. FullTypeOK'
  <2>1. input' \in [Names -> 0 .. MaxDeliveries]
    BY <1>2, <1>4, <1>5, FileAssumption DEF FullTypeOK, TypeOK, WorkerStates, None
  <2> QED
    BY <1>1, <1>2, <1>4, <1>6, <2>1 DEF FullTypeOK, TypeOK, WorkerStates
<1>8. Filed'
  <2>1. ~(cid > delivered)
    BY <1>2, <1>4, Counts
  <2> QED
    BY <1>1, <1>2, <1>3, <1>4, <1>6, <2>1 DEF FInv, Filed
<1>9. Scanning'
  BY <1>1, <1>2, <1>4, <1>6 DEF FInv, Scanning, FullTypeOK
<1>10. \A i \in Known : /\ name[i] \in Names
                        /\ input'[name[i]] = i => input[name[i]] = i
                        /\ i # cid /\ input[name[i]] = i => input'[name[i]] = i
  BY <1>2, <1>3, <1>4, <1>6, Counts DEF FInv, Filed
<1>11. OneRequest'
  BY <1>1, <1>2, <1>10, Quiet DEF FInv, OneRequest
<1>12. ExecutedOnce' /\ Moving'
  BY <1>1 DEF FInv, ExecutedOnce, Moving
<1>13. NothingForgotten'
  <2>1. cid \in answered' \/ input'[name[cid]] = cid
    BY <1>3, <1>5, <1>6
  <2> QED
    BY <1>1, <1>10, <2>1, Quiet DEF FInv, NothingForgotten, Known
<1>14. InProcessing'
  <2>1. cid \notin unmoved => ~InFlight(cid) /\ ~Responding(cid)
    BY <1>1, <1>3, <1>4 DEF FInv, OneRequest
  <2> QED
    BY <1>1, <1>2, <1>10, <2>1, Quiet DEF FInv, InProcessing
<1>15. OriginalsArchived'
  <2>1. \A i \in answered : i \in Known /\ i \in Ids
    BY <1>2, Counts DEF FInv, Filed, FullTypeOK, TypeOK, WorkerStates
  <2>2. archived'[cid] = "no" => input'[name[cid]] = cid
    BY <1>3, <1>6
  <2> QED
    BY <1>1, <1>4, <1>6, <1>10, <2>1, <2>2, Quiet DEF FInv, OriginalsArchived, Responding
<1> QED
  BY <1>7, <1>8, <1>9, <1>11, <1>12, <1>13, <1>14, <1>15 DEF FInv

-----------------------------------------------------------------------------
(* The workers                                                              *)

\* A worker that gets its session, or ends without, leaves every request where
\* it is.
LEMMA GetSessionStep ==
    ASSUME FInv, NEW w \in Workers, get_session(w)
    PROVE  FInv'
<1>1. /\ wpc[w] = "starting"
      /\ UNCHANGED <<input, processing, archived, name, delivered, queue, witem, executed, answered,
                     unmoved, lost, strays, cpc, cid, todo, stopping>>
  BY DEF get_session, KeepConsumer, fs, history
<1>2. FullTypeOK /\ Known' = Known
  BY <1>1 DEF FInv, Known
<1>3. PICK s \in {"idle", "failed"} : wpc' = [wpc EXCEPT ![w] = s]
  BY DEF get_session
<1>4. wpc'[w] = s /\ \A u \in Workers : u # w => wpc'[u] = wpc[u]
  BY <1>2, <1>3 DEF FullTypeOK, TypeOK
<1>5. /\ \A i : (InFlight(i)' <=> InFlight(i)) /\ (Responding(i)' <=> Responding(i))
      /\ \A u \in Workers : \A j, i : QueuedAt(u, j, i)' <=> QueuedAt(u, j, i)
      /\ \A u \in Workers : \A i : Holds(u, i)' <=> Holds(u, i)
  <2>1. \A u \in Workers : /\ wpc'[u] = "execute" <=> wpc[u] = "execute"
                           /\ wpc'[u] = "respond" <=> wpc[u] = "respond"
    BY <1>1, <1>4
  <2> QED
    BY <1>1, <2>1 DEF InFlight, Responding, QueuedAt, Holds
<1>6. FullTypeOK'
  BY <1>1, <1>2, <1>3 DEF FullTypeOK, TypeOK
<1>7. Filed'
  BY <1>1, <1>2, <1>4 DEF FInv, Filed
<1>8. Scanning' /\ ExecutedOnce'
  BY <1>1, <1>2 DEF FInv, Scanning, ExecutedOnce
<1>9. OneRequest' /\ Moving'
  BY <1>1, <1>2, <1>5 DEF FInv, OneRequest, Moving
<1>10. NothingForgotten' /\ InProcessing'
  BY <1>1, <1>2, <1>5 DEF FInv, NothingForgotten, InProcessing
<1>11. OriginalsArchived'
  BY <1>1, <1>5 DEF FInv, OriginalsArchived, Responding
<1> QED
  BY <1>6, <1>7, <1>8, <1>9, <1>10, <1>11 DEF FInv

\* A worker takes the first request of its queue: it stays in flight.
LEMMA DequeueStep ==
    ASSUME FInv, NEW w \in Workers, dequeue(w)
    PROVE  FInv'
<1>1. /\ wpc[w] = "idle" /\ queue[w] # << >>
      /\ witem' = [witem EXCEPT ![w] = Head(queue[w])]
      /\ queue' = [queue EXCEPT ![w] = Tail(queue[w])]
      /\ wpc' = [wpc EXCEPT ![w] = "execute"]
      /\ UNCHANGED <<input, processing, archived, name, delivered, executed, answered, unmoved, lost,
                     strays, cpc, cid, todo, stopping>>
  BY DEF dequeue, KeepConsumer, fs, history
<1>2. FullTypeOK /\ Known' = Known
  BY <1>1 DEF FInv, Known
<1>3. PICK i0 : i0 = Head(queue[w])
  OBVIOUS
<1>4. PICK m \in Nat : m = Len(queue[w])
  BY <1>2, QueueFacts
<1>5. /\ queue'[w] \in Seq(Ids) /\ Len(queue'[w]) = m - 1 /\ m >= 1 /\ m <= Depth /\ Depth \in Nat
      /\ DOMAIN queue[w] = 1 .. m /\ DOMAIN queue'[w] = 1 .. m - 1
      /\ queue[w][1] = i0 /\ i0 \in Ids
      /\ \A j \in 1 .. m - 1 : queue'[w][j] = queue[w][j + 1]
      /\ \A u \in Workers : u # w => queue'[u] = queue[u]
  <2>1. queue'[w] = Tail(queue[w]) /\ \A u \in Workers : u # w => queue'[u] = queue[u]
    BY <1>1, <1>2 DEF FullTypeOK, TypeOK, WorkerStates
  <2> QED
    BY <1>1, <1>2, <1>3, <1>4, <2>1, QueueFacts, TailFacts
<1>6. /\ wpc'[w] = "execute" /\ witem'[w] = i0
      /\ \A u \in Workers : u # w => wpc'[u] = wpc[u] /\ witem'[u] = witem[u]
  BY <1>1, <1>2, <1>3 DEF FullTypeOK, TypeOK, WorkerStates
<1>7. QueuedAt(w, 1, i0) /\ i0 \in Known
  BY <1>5 DEF FInv, Filed, QueuedAt
<1>8. \A u \in Workers : u # w => \A j, i : QueuedAt(u, j, i)' <=> QueuedAt(u, j, i)
  BY <1>5 DEF QueuedAt
<1>9. \A j, i : QueuedAt(w, j, i)' <=> j \in 1 .. m - 1 /\ QueuedAt(w, j + 1, i)
  BY <1>5 DEF QueuedAt
<1>10. \A j, i : QueuedAt(w, j, i) => (j = 1 /\ i = i0) \/ (j \in Nat /\ j > 1 /\ QueuedAt(w, j - 1, i)')
  BY <1>5 DEF QueuedAt
<1>11. /\ \A u \in Workers : \A i : Holds(u, i)' <=> (u # w /\ Holds(u, i)) \/ (u = w /\ i = i0)
       /\ \A i : Responding(i)' <=> Responding(i)
  BY <1>1, <1>6 DEF Holds, Responding
<1>12. \A i : InFlight(i)' <=> InFlight(i)
  <2>1. \A i : InFlight(i)' <=> \/ \E u \in Workers : \E j : QueuedAt(u, j, i)'
                                \/ \E u \in Workers : wpc'[u] = "execute" /\ witem'[u] = i
    BY DEF InFlight, QueuedAt
  <2>2. ASSUME NEW i, InFlight(i) PROVE InFlight(i)'
    <3>1. ASSUME NEW u \in Workers, NEW j, QueuedAt(u, j, i) PROVE InFlight(i)'
      BY <1>6, <1>8, <1>10, <2>1, <3>1
    <3>2. ASSUME NEW u \in Workers, wpc[u] = "execute", witem[u] = i PROVE InFlight(i)'
      BY <1>1, <1>6, <2>1, <3>2
    <3> QED
      BY <2>2, <3>1, <3>2, FlightIs
  <2>3. ASSUME NEW i, InFlight(i)' PROVE InFlight(i)
    <3>1. ASSUME NEW u \in Workers, NEW j, QueuedAt(u, j, i)' PROVE InFlight(i)
      BY <1>8, <1>9, <3>1, FlightIs
    <3>2. ASSUME NEW u \in Workers, wpc'[u] = "execute", witem'[u] = i PROVE InFlight(i)
      BY <1>6, <1>7, <3>2, FlightIs
    <3> QED
      BY <2>1, <2>3, <3>1, <3>2
  <2> QED
    BY <2>2, <2>3
<1>13. FullTypeOK'
  <2>1. queue' \in [Workers -> Seq(Ids)] /\ \A u \in Workers : Len(queue'[u]) <= Depth
    <3>1. queue' \in [Workers -> Seq(Ids)]
      BY <1>1, <1>2, <1>5 DEF FullTypeOK, TypeOK, WorkerStates
    <3>2. Len(queue'[w]) <= Depth
      BY <1>5
    <3> QED
      BY <1>2, <1>5, <3>1, <3>2 DEF FullTypeOK, TypeOK, WorkerStates
  <2>2. /\ wpc' \in [Workers -> WorkerStates]
        /\ witem' \in [Workers -> 0 .. MaxDeliveries]
    BY <1>1, <1>2, <1>3, <1>5 DEF FullTypeOK, TypeOK, WorkerStates, Ids
  <2> QED
    BY <1>1, <1>2, <2>1, <2>2 DEF FullTypeOK, TypeOK, WorkerStates
<1>14. Filed'
  <2>1. \A u \in Workers : \A j \in DOMAIN queue'[u] : queue'[u][j] \in Known
    <3>1. \A u \in Workers : \A j \in DOMAIN queue[u] : queue[u][j] \in Known
      BY DEF FInv, Filed
    <3>2. \A j \in 1 .. m - 1 : j + 1 \in DOMAIN queue[w]
      BY <1>5
    <3> QED
      BY <1>5, <3>1, <3>2
  <2>2. \A u \in Workers : wpc'[u] \in {"execute", "respond"} => witem'[u] \in Known
    BY <1>6, <1>7 DEF FInv, Filed
  <2> QED
    BY <1>1, <1>2, <2>1, <2>2 DEF FInv, Filed
<1>15. Scanning'
  BY <1>1, <1>2 DEF FInv, Scanning
<1>16. OneRequest'
  <2> SUFFICES ASSUME NEW i \in Known, i \notin unmoved
               PROVE  /\ \A u, v \in Workers : \A j, k : QueuedAt(u, j, i)' /\ QueuedAt(v, k, i)' => u = v /\ j = k
                      /\ \A u, v \in Workers : Holds(u, i)' /\ Holds(v, i)' => u = v
                      /\ \A u, v \in Workers : \A j : ~(QueuedAt(u, j, i)' /\ Holds(v, i)')
                      /\ InFlight(i)' => executed'[i] = 0
                      /\ input'[name'[i]] = i /\ ~(cpc' = "move" /\ cid' = i) =>
                           ~InFlight(i)' /\ ~Responding(i)' /\ executed'[i] = 0
    BY <1>1, <1>2 DEF OneRequest
  <2>1. /\ \A u, v \in Workers : \A j, k : QueuedAt(u, j, i) /\ QueuedAt(v, k, i) => u = v /\ j = k
        /\ \A u, v \in Workers : Holds(u, i) /\ Holds(v, i) => u = v
        /\ \A u, v \in Workers : \A j : ~(QueuedAt(u, j, i) /\ Holds(v, i))
        /\ InFlight(i) => executed[i] = 0
        /\ input[name[i]] = i /\ ~(cpc = "move" /\ cid = i) =>
             ~InFlight(i) /\ ~Responding(i) /\ executed[i] = 0
    BY DEF FInv, OneRequest
  <2>2. ASSUME NEW u \in Workers, NEW v \in Workers, NEW j, NEW k, QueuedAt(u, j, i)', QueuedAt(v, k, i)'
        PROVE  u = v /\ j = k
    <3>1. CASE u = w /\ v = w
      <4>1. j \in 1 .. m - 1 /\ k \in 1 .. m - 1 /\ QueuedAt(w, j + 1, i) /\ QueuedAt(w, k + 1, i)
        BY <1>9, <2>2, <3>1
      <4>2. j + 1 = k + 1
        BY <2>1, <4>1
      <4> QED
        BY <3>1, <4>1, <4>2
    <3>2. CASE u # w /\ v # w
      BY <1>8, <2>1, <2>2, <3>2
    <3>3. CASE u = w /\ v # w
      <4>1. QueuedAt(w, j + 1, i) /\ QueuedAt(v, k, i)
        BY <1>8, <1>9, <2>2, <3>3
      <4> QED
        BY <2>1, <3>3, <4>1
    <3>4. CASE u # w /\ v = w
      <4>1. QueuedAt(w, k + 1, i) /\ QueuedAt(u, j, i)
        BY <1>8, <1>9, <2>2, <3>4
      <4> QED
        BY <2>1, <3>4, <4>1
    <3> QED
      BY <3>1, <3>2, <3>3, <3>4
  <2>3. \A u, v \in Workers : Holds(u, i)' /\ Holds(v, i)' => u = v
    BY <1>7, <1>11, <2>1
  <2>4. ASSUME NEW u \in Workers, NEW v \in Workers, NEW j, QueuedAt(u, j, i)', Holds(v, i)'
        PROVE  FALSE
    <3>1. PICK k : QueuedAt(u, k, i) /\ (u = w => j \in Nat /\ j >= 1 /\ k = j + 1)
      <4>1. CASE u = w
        <5>1. j \in Nat /\ j >= 1 /\ QueuedAt(u, j + 1, i)
          BY <1>9, <2>4, <4>1
        <5> QED
          BY <5>1
      <4>2. CASE u # w
        <5>1. QueuedAt(u, j, i)
          BY <1>8, <2>4, <4>2
        <5> QED
          BY <4>2, <5>1
      <4> QED
        BY <4>1, <4>2
    <3>2. v = w /\ i = i0
      BY <1>11, <2>1, <2>4, <3>1
    <3>3. u = w /\ k = 1
      BY <1>7, <2>1, <3>1, <3>2
    <3> QED
      BY <3>1, <3>3
  <2>5. /\ InFlight(i)' => executed'[i] = 0
        /\ input'[name'[i]] = i /\ ~(cpc' = "move" /\ cid' = i) =>
             ~InFlight(i)' /\ ~Responding(i)' /\ executed'[i] = 0
    BY <1>1, <1>11, <1>12, <2>1
  <2> QED
    BY <2>2, <2>3, <2>4, <2>5
<1>17. ExecutedOnce' /\ Moving'
  BY <1>1, <1>11, <1>12 DEF FInv, ExecutedOnce, Moving
<1>18. NothingForgotten' /\ InProcessing'
  BY <1>1, <1>2, <1>11, <1>12 DEF FInv, NothingForgotten, InProcessing
<1>19. OriginalsArchived'
  BY <1>1, <1>11, <1>12 DEF FInv, OriginalsArchived, Responding
<1> QED
  BY <1>13, <1>14, <1>15, <1>16, <1>17, <1>18, <1>19 DEF FInv

\* The only request of a delivery is executed for the first time, unless its
\* file could not be moved.
LEMMA ExecuteStep ==
    ASSUME FInv, NEW w \in Workers, execute(w)
    PROVE  FInv'
<1>1. /\ wpc[w] = "execute" /\ wpc' = [wpc EXCEPT ![w] = "respond"]
      /\ executed' = [executed EXCEPT ![witem[w]] = executed[witem[w]] + 1]
      /\ UNCHANGED <<input, processing, archived, name, delivered, queue, witem, answered, unmoved, lost,
                     strays, cpc, cid, todo, stopping>>
  BY DEF execute, KeepConsumer, fs
<1>2. FullTypeOK /\ Known' = Known
  BY <1>1 DEF FInv, Known
<1>3. PICK i0 : i0 = witem[w]
  OBVIOUS
<1>4. i0 \in Known /\ i0 \in Ids /\ Holds(w, i0) /\ InFlight(i0)
  BY <1>1, <1>2, <1>3, Counts DEF FInv, Filed, Holds, InFlight
<1>5. /\ wpc'[w] = "respond" /\ \A u \in Workers : u # w => wpc'[u] = wpc[u]
      /\ executed'[i0] = executed[i0] + 1 /\ \A i \in Ids : i # i0 => executed'[i] = executed[i]
      /\ executed[i0] \in Nat /\ \A i \in Ids : executed[i] \in Nat
  BY <1>1, <1>2, <1>3, <1>4 DEF FullTypeOK, TypeOK, WorkerStates
<1>6. /\ \A u \in Workers : \A j, i : QueuedAt(u, j, i)' <=> QueuedAt(u, j, i)
      /\ \A u \in Workers : \A i : Holds(u, i)' <=> Holds(u, i)
      /\ \A i : Responding(i)' <=> Responding(i) \/ i = i0
  <2>1. \A u \in Workers : \A j, i : QueuedAt(u, j, i)' <=> QueuedAt(u, j, i)
    BY <1>1 DEF QueuedAt
  <2>2. \A u \in Workers : \A i : Holds(u, i)' <=> Holds(u, i)
    BY <1>1, <1>5 DEF Holds
  <2>3. \A i : Responding(i)' <=> Responding(i) \/ i = i0
    BY <1>1, <1>3, <1>5 DEF Responding
  <2> QED
    BY <2>1, <2>2, <2>3
<1>7. \A i : (InFlight(i)' => InFlight(i)) /\ (InFlight(i) => InFlight(i)' \/ i = i0)
  BY <1>1, <1>3, <1>5 DEF InFlight
<1>8. i0 \notin unmoved => executed[i0] = 0 /\ ~InFlight(i0)'
  <2>1. i0 \notin unmoved => executed[i0] = 0
    BY <1>4 DEF FInv, OneRequest
  <2>2. InFlight(i0)' <=> \/ \E u \in Workers : \E j : QueuedAt(u, j, i0)'
                          \/ \E u \in Workers : wpc'[u] = "execute" /\ witem'[u] = i0
    BY DEF InFlight, QueuedAt
  <2>3. \A u \in Workers : wpc'[u] = "execute" /\ witem'[u] = i0 => u # w /\ Holds(u, i0)
    BY <1>1, <1>5 DEF Holds
  <2> QED
    BY <1>4, <1>6, <2>1, <2>2, <2>3 DEF FInv, OneRequest
<1>9. FullTypeOK'
  <2>1. wpc' \in [Workers -> WorkerStates] /\ executed' \in [Ids -> Nat]
    BY <1>1, <1>2, <1>3, <1>4, <1>5 DEF FullTypeOK, TypeOK, WorkerStates
  <2> QED
    BY <1>1, <1>2, <2>1 DEF FullTypeOK, TypeOK, WorkerStates
<1>10. Filed'
  <2>1. ~(i0 > delivered)
    BY <1>2, <1>4, Counts
  <2>2. \A u \in Workers : wpc'[u] \in {"execute", "respond"} => witem'[u] \in Known
    BY <1>1, <1>3, <1>4, <1>5 DEF FInv, Filed
  <2> QED
    BY <1>1, <1>2, <1>5, <2>1, <2>2 DEF FInv, Filed
<1>11. Scanning'
  BY <1>1, <1>2 DEF FInv, Scanning
<1>12. OneRequest'
  <2> SUFFICES ASSUME NEW i \in Known, i \notin unmoved
               PROVE  /\ \A u, v \in Workers : \A j, k : QueuedAt(u, j, i)' /\ QueuedAt(v, k, i)' => u = v /\ j = k
                      /\ \A u, v \in Workers : Holds(u, i)' /\ Holds(v, i)' => u = v
                      /\ \A u, v \in Workers : \A j : ~(QueuedAt(u, j, i)' /\ Holds(v, i)')
                      /\ InFlight(i)' => executed'[i] = 0
                      /\ input'[name'[i]] = i /\ ~(cpc' = "move" /\ cid' = i) =>
                           ~InFlight(i)' /\ ~Responding(i)' /\ executed'[i] = 0
    BY <1>1, <1>2 DEF OneRequest
  <2>1. /\ \A u, v \in Workers : \A j, k : QueuedAt(u, j, i)' /\ QueuedAt(v, k, i)' => u = v /\ j = k
        /\ \A u, v \in Workers : Holds(u, i)' /\ Holds(v, i)' => u = v
        /\ \A u, v \in Workers : \A j : ~(QueuedAt(u, j, i)' /\ Holds(v, i)')
    BY <1>6 DEF FInv, OneRequest
  <2>2. /\ InFlight(i) => executed[i] = 0
        /\ input[name[i]] = i /\ ~(cpc = "move" /\ cid = i) =>
             ~InFlight(i) /\ ~Responding(i) /\ executed[i] = 0
    BY DEF FInv, OneRequest
  <2>3. i \in Ids
    BY <1>2, Counts
  <2>4. InFlight(i)' => executed'[i] = 0
    BY <1>5, <1>7, <1>8, <2>2, <2>3
  <2>5. input[name[i]] = i /\ ~(cpc = "move" /\ cid = i) =>
             ~InFlight(i)' /\ ~Responding(i)' /\ executed'[i] = 0
    BY <1>4, <1>5, <1>6, <1>7, <2>2, <2>3
  <2> QED
    BY <1>1, <2>1, <2>4, <2>5
<1>13. ExecutedOnce'
  BY <1>1, <1>5, <1>8 DEF FInv, ExecutedOnce
<1>14. Moving'
  <2> SUFFICES ASSUME cpc = "move" PROVE Moving'
    BY <1>1 DEF Moving
  <2>1. PICK c \in Ids : c = cid
    BY <1>2, Counts DEF FInv, Scanning
  <2>2. InFlight(c)' \/ executed'[c] > 0
    <3>1. InFlight(c) \/ executed[c] > 0
      BY <2>1 DEF FInv, Moving
    <3> QED
      BY <1>5, <1>7, <3>1
  <2>3. InFlight(c)' \/ Responding(c)' \/ c \in strays \cup unmoved
    BY <1>6, <1>7, <2>1 DEF FInv, Moving
  <2> QED
    BY <1>1, <2>1, <2>2, <2>3 DEF Moving
<1>15. NothingForgotten'
  <2>1. \A i \in Known : executed'[i] = 0 => executed[i] = 0 /\ i # i0
    BY <1>2, <1>4, <1>5, Counts
  <2> QED
    BY <1>1, <1>7, <2>1 DEF FInv, NothingForgotten, Known
<1>16. InProcessing'
  BY <1>1, <1>2, <1>4, <1>6, <1>7 DEF FInv, InProcessing
<1>17. OriginalsArchived'
  <2>1. \A i \in answered : InFlight(i) \/ Responding(i) => InFlight(i)' \/ Responding(i)'
    BY <1>6, <1>7
  <2> QED
    BY <1>1, <2>1 DEF FInv, OriginalsArchived, Responding
<1> QED
  BY <1>9, <1>10, <1>11, <1>12, <1>13, <1>14, <1>15, <1>16, <1>17 DEF FInv

\* The answered delivery's original is archived, or the delivery is a stray.
LEMMA RespondStep ==
    ASSUME FInv, NEW w \in Workers, respond(w)
    PROVE  FInv'
<1>1. /\ wpc[w] = "respond" /\ wpc' = [wpc EXCEPT ![w] = "idle"]
      /\ answered' = answered \cup {witem[w]} \/ UNCHANGED answered
      /\ UNCHANGED <<input, name, delivered, queue, witem, executed, unmoved, lost, cpc, cid, todo, stopping>>
  BY DEF respond, KeepConsumer
<1>2. FullTypeOK /\ Known' = Known
  BY <1>1 DEF FInv, Known
<1>3. PICK i0, n, found : i0 = witem[w] /\ n = name[i0] /\ found = processing[n]
  OBVIOUS
<1>4. /\ i0 \in Known /\ i0 \in Ids /\ Holds(w, i0) /\ Responding(i0) /\ n \in Names /\ i0 # None
      /\ found # None => found \in Known /\ found \in Ids /\ name[found] = n
  BY <1>1, <1>2, <1>3, Counts DEF FInv, Filed, Holds, Responding
<1>5. /\ archived' \in [Ids -> {"no", "output", "error"}]
      /\ \A i \in Ids : archived'[i] = "no" => archived[i] = "no"
      /\ processing' \in [Names -> 0 .. MaxDeliveries]
      /\ \A k \in Names : processing'[k] # processing[k] => k = n /\ found # None /\ processing'[k] = None
      /\ strays \subseteq strays' /\ strays' \subseteq Ids
      /\ i0 \in strays' \/ (found = i0 /\ archived'[i0] # "no")
      /\ processing' # processing => found = i0 \/ found \in strays'
  <2>1. CASE /\ found # None
             /\ \E where \in {"output", "error"} : archived' = [archived EXCEPT ![found] = where]
             /\ processing' = [processing EXCEPT ![n] = None]
             /\ strays' = IF found = i0 THEN strays ELSE strays \cup {found, i0}
    <3>1. PICK where \in {"output", "error"} : archived' = [archived EXCEPT ![found] = where]
      BY <2>1
    <3>2. found \in Ids /\ i0 \in Ids /\ n \in Names
      BY <1>4, <2>1
    <3>3. /\ archived' \in [Ids -> {"no", "output", "error"}] /\ archived'[found] = where
          /\ \A i \in Ids : i # found => archived'[i] = archived[i]
      BY <1>2, <3>1, <3>2 DEF FullTypeOK, TypeOK, WorkerStates
    <3>4. /\ processing' \in [Names -> 0 .. MaxDeliveries] /\ processing'[n] = None
          /\ \A k \in Names : k # n => processing'[k] = processing[k]
      BY <1>2, <2>1, <3>2, FileAssumption DEF FullTypeOK, TypeOK, WorkerStates, None
    <3>5. where # "no"
      OBVIOUS
    <3>6. strays' \subseteq Ids
      BY <1>2, <2>1, <3>2 DEF FullTypeOK
    <3> QED
      BY <2>1, <3>2, <3>3, <3>4, <3>5, <3>6
  <2>2. CASE strays' = strays \cup {i0} /\ UNCHANGED <<archived, processing>>
    BY <1>2, <1>4, <2>2 DEF FullTypeOK, TypeOK, WorkerStates
  <2> QED
    BY <1>3, <2>1, <2>2 DEF respond
<1>6. wpc'[w] = "idle" /\ \A u \in Workers : u # w => wpc'[u] = wpc[u]
  BY <1>1, <1>2 DEF FullTypeOK, TypeOK, WorkerStates
<1>7. /\ \A u \in Workers : \A j, i : QueuedAt(u, j, i)' <=> QueuedAt(u, j, i)
      /\ \A u \in Workers : \A i : Holds(u, i)' <=> Holds(u, i) /\ u # w
      /\ \A i : InFlight(i)' <=> InFlight(i)
      /\ \A i : (Responding(i)' => Responding(i)) /\ (Responding(i) => Responding(i)' \/ i = i0)
  <2>1. \A u \in Workers : \A j, i : QueuedAt(u, j, i)' <=> QueuedAt(u, j, i)
    BY <1>1 DEF QueuedAt
  <2>2. \A u \in Workers : \A i : Holds(u, i)' <=> Holds(u, i) /\ u # w
    BY <1>1, <1>6 DEF Holds
  <2>3. \A i : InFlight(i)' <=> InFlight(i)
    BY <1>1, <1>6 DEF InFlight
  <2>4. \A i : (Responding(i)' => Responding(i)) /\ (Responding(i) => Responding(i)' \/ i = i0)
    BY <1>1, <1>3, <1>6 DEF Responding
  <2> QED
    BY <2>1, <2>2, <2>3, <2>4
<1>8. FullTypeOK'
  <2>1. wpc' \in [Workers -> WorkerStates] /\ answered' \subseteq Ids
    BY <1>1, <1>2, <1>3, <1>4 DEF FullTypeOK, TypeOK, WorkerStates
  <2> QED
    BY <1>1, <1>2, <1>5, <2>1 DEF FullTypeOK, TypeOK, WorkerStates
<1>9. Filed'
  <2>1. ~(i0 > delivered)
    BY <1>2, <1>4, Counts
  <2>2. \A u \in Workers : wpc'[u] \in {"execute", "respond"} => witem'[u] \in Known
    BY <1>1, <1>6 DEF FInv, Filed
  <2>3. \A k \in Names : processing'[k] = processing[k] \/ processing'[k] = None
    BY <1>5
  <2>4. \A k \in Names : /\ processing'[k] # None => processing'[k] \in Known /\ name[processing'[k]] = k
                         /\ input[k] # None => input[k] # processing'[k]
    BY <2>3 DEF FInv, Filed
  <2>5. \A i \in Ids : i > delivered => executed[i] = 0 /\ i \notin answered'
    BY <1>1, <1>3, <2>1 DEF FInv, Filed
  <2> QED
    BY <1>1, <1>2, <2>2, <2>4, <2>5 DEF FInv, Filed
<1>10. Scanning'
  BY <1>1, <1>2 DEF FInv, Scanning
<1>11. OneRequest'
  BY <1>1, <1>2, <1>7 DEF FInv, OneRequest
<1>12. ExecutedOnce'
  BY <1>1 DEF FInv, ExecutedOnce
<1>13. Moving'
  <2> SUFFICES ASSUME cpc = "move" PROVE Moving'
    BY <1>1 DEF Moving
  <2>1. PICK c \in Known : c = cid /\ input[name[c]] = c
    BY DEF FInv, Scanning
  <2>2. /\ InFlight(c) \/ executed[c] > 0
        /\ InFlight(c) \/ Responding(c) \/ c \in strays \cup unmoved
    BY <2>1 DEF FInv, Moving
  <2>3. c = i0 => found # i0
    BY <1>3, <1>4, <2>1 DEF FInv, Filed
  <2> QED
    BY <1>1, <1>5, <1>7, <2>1, <2>2, <2>3 DEF Moving
<1>14. NothingForgotten'
  BY <1>1, <1>7 DEF FInv, NothingForgotten
<1>15. InProcessing'
  <2> SUFFICES ASSUME NEW i \in Known, i \notin strays', i \notin unmoved,
                      InFlight(i)' \/ Responding(i)', input[name[i]] # i
               PROVE  processing'[name[i]] = i
    BY <1>1, <1>2 DEF InProcessing
  <2>1. processing[name[i]] = i /\ name[i] \in Names
    BY <1>5, <1>7 DEF FInv, InProcessing, Filed
  <2>2. i # i0
    <3> SUFFICES ASSUME i = i0 PROVE FALSE
      OBVIOUS
    <3>1. /\ \A u \in Workers : Holds(u, i) => u = w
          /\ \A u \in Workers : \A j : ~QueuedAt(u, j, i)
      BY <1>4 DEF FInv, OneRequest
    <3>2. ~InFlight(i)
      <4>1. \A u \in Workers : wpc[u] = "execute" /\ witem[u] = i => Holds(u, i)
        BY DEF Holds
      <4> QED
        BY <1>1, <3>1, <4>1, FlightIs
    <3>3. ~Responding(i)'
      BY <1>1, <1>6, <3>1 DEF Responding, Holds
    <3> QED
      BY <1>7, <3>2, <3>3
  <2>3. processing'[name[i]] # processing[name[i]] => FALSE
    BY <1>3, <1>5, <2>1, <2>2
  <2> QED
    BY <2>1, <2>3
<1>16. OriginalsArchived'
  <2>1. \A i \in answered : i \in Ids
    BY <1>2 DEF FullTypeOK, TypeOK, WorkerStates
  <2> SUFFICES ASSUME NEW i \in answered', i \notin strays', i \notin unmoved, archived'[i] = "no"
               PROVE  input[name[i]] = i \/ InFlight(i)' \/ Responding(i)'
    BY <1>1 DEF OriginalsArchived, Responding
  <2>2. i # i0 /\ i \in answered /\ archived[i] = "no" /\ i \notin strays
    BY <1>1, <1>3, <1>5, <2>1
  <2>3. input[name[i]] = i \/ InFlight(i) \/ Responding(i)
    BY <2>2 DEF FInv, OriginalsArchived, Responding
  <2> QED
    BY <1>7, <2>2, <2>3
<1> QED
  BY <1>8, <1>9, <1>10, <1>11, <1>12, <1>13, <1>14, <1>15, <1>16 DEF FInv

-----------------------------------------------------------------------------
(* The process                                                              *)

\* What the crash forgets is lost, a stray, or found again in Input_*.
LEMMA CrashStep ==
    ASSUME FInv, crash
    PROVE  FInv'
<1>1. /\ queue' = [w \in Workers |-> << >>] /\ wpc' = [w \in Workers |-> "starting"]
      /\ cpc' = "rest" /\ stopping' = FALSE
      /\ unmoved' = IF cpc = "move" THEN unmoved \cup {cid} ELSE unmoved
      /\ lost' = lost \cup {i \in Ids : InFlight(i) /\ input[name[i]] # i}
      /\ strays' = strays \cup {i \in Ids : processing[name[i]] = i}
      /\ UNCHANGED <<input, processing, archived, name, delivered, cid, todo, witem, executed, answered>>
  BY DEF crash, fs
<1>2. FullTypeOK /\ Known' = Known /\ Known \subseteq Ids
  BY <1>1, Counts DEF FInv, Known
<1>3. /\ \A w \in Workers : \A j, i : ~QueuedAt(w, j, i)'
      /\ \A w \in Workers : \A i : ~Holds(w, i)'
      /\ \A i : ~InFlight(i)' /\ ~Responding(i)'
  <2>1. \A w \in Workers : DOMAIN queue'[w] = {} /\ wpc'[w] = "starting"
    BY <1>1
  <2> QED
    BY <2>1 DEF QueuedAt, Holds, InFlight, Responding
<1>4. unmoved \subseteq unmoved' /\ unmoved' \subseteq Ids /\ (cpc = "move" => cid \in unmoved')
  BY <1>1, <1>2 DEF FInv, Scanning, FullTypeOK
<1>5. FullTypeOK'
  <2>1. queue' \in [Workers -> Seq(Ids)] /\ \A w \in Workers : Len(queue'[w]) <= Depth
    BY <1>1, FileAssumption
  <2>2. lost' \subseteq Ids /\ strays' \subseteq Ids /\ wpc' \in [Workers -> WorkerStates]
    BY <1>1, <1>2 DEF FullTypeOK, WorkerStates
  <2> QED
    BY <1>1, <1>2, <1>4, <2>1, <2>2 DEF FullTypeOK, TypeOK, WorkerStates
<1>6. Filed'
  BY <1>1, <1>2 DEF FInv, Filed
<1>7. Scanning' /\ Moving' /\ InProcessing'
  BY <1>1, <1>3 DEF Scanning, Moving, InProcessing
<1>8. OneRequest'
  BY <1>1, <1>2, <1>3, <1>4 DEF FInv, OneRequest
<1>9. ExecutedOnce'
  BY <1>1, <1>4 DEF FInv, ExecutedOnce
<1>10. NothingForgotten'
  BY <1>1, <1>2 DEF FInv, NothingForgotten, Known
<1>11. OriginalsArchived'
  <2>1. \A i \in answered : i \in Known /\ i \in Ids
    BY <1>2, Counts DEF FInv, Filed, FullTypeOK, TypeOK, WorkerStates
  <2> SUFFICES ASSUME NEW i \in answered, i \notin strays', i \notin unmoved', archived[i] = "no",
                      input[name[i]] # i
               PROVE  FALSE
    BY <1>1 DEF OriginalsArchived
  <2>2. InFlight(i) \/ Responding(i)
    BY <1>1, <1>4 DEF FInv, OriginalsArchived, Responding
  <2>3. processing[name[i]] = i
    BY <1>1, <1>4, <2>1, <2>2 DEF FInv, InProcessing
  <2> QED
    BY <1>1, <2>1, <2>3
<1> QED
  BY <1>5, <1>6, <1>7, <1>8, <1>9, <1>10, <1>11 DEF FInv

\* What is left in the queues when the workers have been joined is stranded:
\* it is lost, or still in Input_*.
LEMMA DestroyStep ==
    ASSUME FInv, queue_manager_destroy
    PROVE  FInv'
<1>1. /\ cpc = "rest"
      /\ \A w \in Workers : wpc[w] = "failed" \/ (wpc[w] = "idle" /\ queue[w] = << >>)
      /\ queue' = [w \in Workers |-> << >>] /\ wpc' = [w \in Workers |-> "ended"]
      /\ lost' = lost \cup {i \in Ids : Stranded(i) /\ input[name[i]] # i}
      /\ strays' = strays \cup {i \in Ids : Stranded(i)}
      /\ UNCHANGED <<input, processing, archived, name, delivered, cpc, cid, todo, witem, executed,
                     answered, unmoved, stopping>>
  BY DEF queue_manager_destroy, fs, bounds
<1>2. FullTypeOK /\ Known' = Known /\ Known \subseteq Ids
  BY <1>1, Counts DEF FInv, Known
<1>3. /\ \A w \in Workers : \A j, i : ~QueuedAt(w, j, i)'
      /\ \A w \in Workers : \A i : ~Holds(w, i)'
      /\ \A i : ~InFlight(i)' /\ ~Responding(i)'
  <2>1. \A w \in Workers : DOMAIN queue'[w] = {} /\ wpc'[w] = "ended"
    BY <1>1
  <2> QED
    BY <2>1 DEF QueuedAt, Holds, InFlight, Responding
<1>4. \A i : ~Responding(i) /\ (InFlight(i) => Stranded(i))
  BY <1>1 DEF Responding, InFlight, Stranded
<1>5. FullTypeOK'
  <2>1. queue' \in [Workers -> Seq(Ids)] /\ \A w \in Workers : Len(queue'[w]) <= Depth
    BY <1>1, FileAssumption
  <2>2. lost' \subseteq Ids /\ strays' \subseteq Ids /\ wpc' \in [Workers -> WorkerStates]
    BY <1>1, <1>2 DEF FullTypeOK, WorkerStates
  <2> QED
    BY <1>1, <1>2, <2>1, <2>2 DEF FullTypeOK, TypeOK, WorkerStates
<1>6. Filed'
  BY <1>1, <1>2 DEF FInv, Filed
<1>7. Scanning' /\ Moving' /\ InProcessing'
  BY <1>1, <1>3 DEF Scanning, Moving, InProcessing
<1>8. OneRequest'
  BY <1>1, <1>2, <1>3 DEF FInv, OneRequest
<1>9. ExecutedOnce'
  BY <1>1 DEF FInv, ExecutedOnce
<1>10. NothingForgotten'
  BY <1>1, <1>2, <1>4 DEF FInv, NothingForgotten, Known
<1>11. OriginalsArchived'
  <2>1. \A i \in answered : i \in Ids
    BY <1>2 DEF FullTypeOK, TypeOK
  <2> SUFFICES ASSUME NEW i \in answered, i \notin strays', i \notin unmoved, archived[i] = "no",
                      input[name[i]] # i
               PROVE  FALSE
    BY <1>1 DEF OriginalsArchived
  <2>2. InFlight(i) \/ Responding(i)
    BY <1>1 DEF FInv, OriginalsArchived, Responding
  <2> QED
    BY <1>1, <1>4, <2>1, <2>2
<1> QED
  BY <1>5, <1>6, <1>7, <1>8, <1>9, <1>10, <1>11 DEF FInv

\* A stuttering step changes nothing.
LEMMA StutterStep ==
    ASSUME FInv, UNCHANGED vars
    PROVE  FInv'
<1>1. UNCHANGED <<input, processing, archived, name, delivered, queue, cpc, cid, todo, wpc, witem,
                  executed, answered, stopping, unmoved, lost, strays>>
  BY DEF vars
<1>2. Known' = Known
  BY <1>1 DEF Known
<1>3. FullTypeOK' /\ Filed' /\ Scanning' /\ ExecutedOnce'
  BY <1>1, <1>2 DEF FInv, FullTypeOK, TypeOK, Filed, Scanning, ExecutedOnce
<1>4. OneRequest' /\ Moving'
  BY <1>1, <1>2, Quiet DEF FInv, OneRequest, Moving
<1>5. NothingForgotten' /\ InProcessing'
  BY <1>1, <1>2, Quiet DEF FInv, NothingForgotten, InProcessing
<1>6. OriginalsArchived'
  BY <1>1, Quiet DEF FInv, OriginalsArchived, Responding
<1> QED
  BY <1>3, <1>4, <1>5, <1>6 DEF FInv

\* The program starts in the invariant.
LEMMA FInitOK == Init => FInv
<1> SUFFICES ASSUME Init PROVE FInv
  OBVIOUS
<1>1. /\ input = [n \in Names |-> None] /\ processing = [n \in Names |-> None]
      /\ archived = [i \in Ids |-> "no"] /\ name \in [Ids -> {CHOOSE n \in Names : TRUE}]
      /\ delivered = 0 /\ queue = [w \in Workers |-> << >>]
      /\ cpc = "rest" /\ cid = None /\ todo = {}
      /\ wpc = [w \in Workers |-> "starting"] /\ witem = [w \in Workers |-> None]
      /\ executed = [i \in Ids |-> 0] /\ answered = {} /\ stopping = FALSE
      /\ unmoved = {} /\ lost = {} /\ strays = {}
  BY DEF Init
<1>2. Known = {}
  BY <1>1 DEF Known
<1>3. FullTypeOK
  <2>1. queue \in [Workers -> Seq(Ids)] /\ \A w \in Workers : Len(queue[w]) <= Depth
    BY <1>1, FileAssumption
  <2>2. None \in 0 .. MaxDeliveries /\ 0 \in 0 .. MaxDeliveries
    BY FileAssumption DEF None
  <2>3. name \in [Ids -> Names \cup {CHOOSE n \in Names : TRUE}]
    BY <1>1
  <2> QED
    BY <1>1, <2>1, <2>2, <2>3 DEF FullTypeOK, TypeOK, WorkerStates
<1>4. Filed
  <2>1. \A w \in Workers : DOMAIN queue[w] = {}
    BY <1>1
  <2> QED
    BY <1>1, <1>2, <2>1 DEF Filed
<1>5. Scanning /\ OneRequest /\ Moving /\ InProcessing /\ OriginalsArchived
  BY <1>1, <1>2 DEF Scanning, OneRequest, Moving, InProcessing, OriginalsArchived
<1>6. ExecutedOnce /\ NothingForgotten
  BY <1>1, <1>2 DEF ExecutedOnce, NothingForgotten, Known
<1> QED
  BY <1>3, <1>4, <1>5, <1>6 DEF FInv

\* Every step preserves the invariant.
LEMMA FNextOK == FInv /\ [Next]_vars => FInv'
<1> SUFFICES ASSUME FInv, [Next]_vars PROVE FInv'
  OBVIOUS
<1>1. CASE UNCHANGED vars
  BY <1>1, StutterStep
<1>2. ASSUME NEW n \in Names, deliver(n) PROVE FInv'
  BY <1>2, DeliverStep
<1>3. CASE ConsumerStep
  BY <1>3, ScanSteps, EnqueueStep, MoveStep, RejectStep DEF ConsumerStep
<1>4. ASSUME NEW w \in Workers, WorkerStep(w) PROVE FInv'
  BY <1>4, GetSessionStep, DequeueStep, ExecuteStep, RespondStep DEF WorkerStep
<1>5. CASE stop
  BY <1>5, ScanSteps
<1>6. CASE crash
  BY <1>6, CrashStep
<1>7. CASE queue_manager_destroy
  BY <1>7, DestroyStep
<1> QED
  BY <1>1, <1>2, <1>3, <1>4, <1>5, <1>6, <1>7 DEF Next

-----------------------------------------------------------------------------
(* The theorems                                                             *)

\* The invariant holds in every behaviour of consumer, workers and crashes.
THEOREM FileIntakeInvariant == Spec => []FInv
<1>1. FInv /\ [Next]_vars => FInv'
  BY FNextOK
<1> QED
  BY <1>1, FInitOK, PTL DEF Spec

\* Directories, queues and threads keep the shape of their counterparts.
THEOREM FileTypeCorrect == Spec => []TypeOK
<1>1. FInv => TypeOK
  BY DEF FInv, FullTypeOK
<1> QED
  BY <1>1, FileIntakeInvariant, PTL

\* process_xml_file() runs once per delivery whose file could be moved to
\* Processing_*, whatever else fails, crashes or is delivered meanwhile.
THEOREM PayloadsExecutedOnce == Spec => []ExecutedOnce
<1>1. FInv => ExecutedOnce
  BY DEF FInv
<1> QED
  BY <1>1, FileIntakeInvariant, PTL

\* A delivery neither executed nor answered is in Input_* or in flight, unless
\* a crash came between its move and its execution or it was still queued to a
\* worker without a session when queue_manager_destroy() ran.
THEOREM NoDeliveryForgotten == Spec => []NothingForgotten
<1>1. FInv => NothingForgotten
  BY DEF FInv
<1> QED
  BY <1>1, FileIntakeInvariant, PTL

\* The original of an answered delivery is in Output_* or Error_*, or will
\* get there, unless a race, a fault or a crash made it a stray.
THEOREM OriginalsAreArchived == Spec => []OriginalsArchived
<1>1. FInv => OriginalsArchived
  BY DEF FInv
<1> QED
  BY <1>1, FileIntakeInvariant, PTL
=============================================================================
