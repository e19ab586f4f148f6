------------------------- MODULE HttpDispatchProofs -------------------------
(***************************************************************************)
(* Proofs about HttpDispatch, for any number of handlers, queues and       *)
(* requests and any queue depth: completion objects outlive the requests   *)
(* that point at them, no wakeup is lost, and every step is a step of the  *)
(* abstract RequestService or invisible to the clients.                    *)
(***************************************************************************)
EXTENDS HttpDispatch, SequenceTheorems, FunctionTheorems, FiniteSetTheorems, TLAPS

-----------------------------------------------------------------------------
(* The inductive invariant                                                  *)

\* What a worker has in hand is place 0 of its queue; the queue follows.
Places(q)    == 0 .. Len(queue[q])
ItemAt(q, i) == IF i = 0 THEN witem[q] ELSE queue[q][i]
InSystem(r)  == \E q \in Queues : \E i \in Places(q) : ItemAt(q, i).req = r

\* A handler serves one request, which nobody else serves and whose client
\* has heard nothing yet.
HandlersServe ==
    /\ \A h \in Handlers :
         /\ hpc[h] = "idle" <=> hreq[h] = NoRequest
         /\ hpc[h] # "idle" => told[hreq[h]] = "none" /\ stop \in {"serving", "draining"}
    /\ \A g, h \in Handlers : hreq[g] = hreq[h] /\ hreq[h] # NoRequest => g = h

\* Where a handler is tells how far its request has got.
HandlerStage ==
    \A h \in Handlers :
      /\ hpc[h] \in {"locking", "scanning", "refused"} =>
           ~InSystem(hreq[h]) /\ hreq[h] \notin executed /\ ~comp[h].done
      /\ hpc[h] = "accepted" =>
           hreq[h] \in Asyncs /\ (InSystem(hreq[h]) \/ hreq[h] \in executed)
      /\ hpc[h] \in {"checking", "asleep", "completed"} =>
           /\ hreq[h] \notin Asyncs
           /\ comp[h].done => comp[h].resp = hreq[h] /\ hreq[h] \in executed
      /\ hpc[h] = "asleep" => ~comp[h].done
      /\ hpc[h] = "completed" => comp[h].done

\* A scan has a queue to try, and only queues the request may use.
ScansEligible ==
    \A h \in Handlers : hpc[h] = "scanning" =>
      /\ Q > 1 => todo[h] # << >>
      /\ \A i \in 1 .. Len(todo[h]) : todo[h][i] = 0 <=> hreq[h] \in Writes

\* An item's completion is that of the handler that waits for it, an
\* asynchronous item has none; writes are in queue 0 and nothing else is.
ItemsSound ==
    \A q \in Queues : \A i \in Places(q) :
      LET it == ItemAt(q, i) IN it.req # NoRequest =>
        /\ it.comp = NoHandler <=> it.req \in Asyncs
        /\ it.comp # NoHandler =>
             /\ hreq[it.comp] = it.req
             /\ hpc[it.comp] \in {"checking", "asleep"} /\ ~comp[it.comp].done
        /\ it.comp = NoHandler =>
             told[it.req] = "accepted" \/ \E h \in Handlers : hreq[h] = it.req /\ hpc[h] = "accepted"
        /\ q = 0 <=> it.req \in Writes
        /\ it.req \in executed <=> i = 0 /\ wpc[q] = "completing"

\* A request is in one place at most.
OnePlace ==
    \A q, p \in Queues : \A i \in Places(q), j \in Places(p) :
      ItemAt(q, i).req = ItemAt(p, j).req /\ ItemAt(q, i).req # NoRequest => q = p /\ i = j

\* A worker has an item exactly while it executes or answers it; it sleeps
\* or leaves only with its queue empty.
WorkersSound ==
    \A q \in Queues :
      /\ witem[q] = NoItem <=> wpc[q] \notin {"running", "completing"}
      /\ wpc[q] = "asleep" => queue[q] = << >> /\ q \notin signalled
      /\ wpc[q] = "exited" => queue[q] = << >> /\ down

\* The order of the stop sequence.
StopSound ==
    /\ signalled # {} => down
    /\ down => stop \in {"signalling", "destroyed"}
    /\ stop = "destroyed" => \A q \in Queues : queue[q] = << >> /\ wpc[q] \in {"exited", "failed"}

\* What a client was told is what happened.
ClientsSound ==
    \A r \in Requests :
      /\ told[r] # "foreign"
      /\ told[r] = "result" => r \in executed /\ r \notin Asyncs
      /\ told[r] = "accepted" =>
           r \in Asyncs /\ (InSystem(r) \/ r \in executed \/ stop = "destroyed")
      /\ told[r] \in {"busy", "error"} => ~InSystem(r) /\ r \notin executed
      /\ r \in executed /\ told[r] = "none" =>
           \E h \in Handlers : hreq[h] = r /\ hpc[h] \notin {"idle", "locking", "scanning", "refused"}

DInv ==
    /\ DTypeOK
    /\ HandlersServe /\ HandlerStage /\ ScansEligible
    /\ ItemsSound /\ OnePlace /\ WorkersSound /\ StopSound /\ ClientsSound

-----------------------------------------------------------------------------
(* Facts about the operators                                                *)

HandlerLabels == {"idle", "locking", "scanning", "checking", "asleep", "completed", "refused",
                  "accepted"}
WorkerLabels  == {"starting", "failed", "checking", "asleep", "running", "completing", "exited"}

\* Items and requests have the types their places promise.
LEMMA ItemTypes ==
    ASSUME DTypeOK, NEW q \in Queues, NEW i \in Places(q)
    PROVE  /\ Len(queue[q]) \in Nat
           /\ ItemAt(q, i) \in Items \cup {NoItem}
           /\ i # 0 => ItemAt(q, i) \in Items /\ i \in 1 .. Len(queue[q])
           /\ ItemAt(q, i) \in Items <=> ItemAt(q, i).req # NoRequest
           /\ ItemAt(q, i).req # NoRequest => ItemAt(q, i).req \in Requests
           /\ ItemAt(q, i).comp # NoHandler => ItemAt(q, i).comp \in Handlers
<1>1. queue[q] \in Seq(Items) /\ witem[q] \in Items \cup {NoItem}
  BY DEF DTypeOK
<1>2. Len(queue[q]) \in Nat
  BY <1>1, LenProperties
<1>3. i # 0 => i \in 1 .. Len(queue[q])
  BY <1>2 DEF Places
<1>4. i # 0 => queue[q][i] \in Items
  BY <1>1, <1>3, ElementOfSeq
<1>5. ItemAt(q, i) \in Items \cup {NoItem}
  BY <1>1, <1>4 DEF ItemAt
<1>6. \A it \in Items \cup {NoItem} :
        /\ it \in Items <=> it.req # NoRequest
        /\ it.req # NoRequest => it.req \in Requests
        /\ it.comp # NoHandler => it.comp \in Handlers
  BY DispatchAssumption DEF Items, NoItem, Requests
<1> QED
  BY <1>2, <1>3, <1>4, <1>5, <1>6 DEF ItemAt

\* Steps that leave queues and workers' items alone leave every place alone.
LEMMA SamePlaces ==
    ASSUME UNCHANGED <<queue, witem>>
    PROVE  /\ \A q : Places(q)' = Places(q)
           /\ \A q, i : ItemAt(q, i)' = ItemAt(q, i)
           /\ \A r : InSystem(r)' <=> InSystem(r)
BY DEF Places, ItemAt, InSystem

\* A handler's item is what its request asks for.
LEMMA ItemOfType ==
    ASSUME DTypeOK, NEW h \in Handlers, hreq[h] # NoRequest
    PROVE  /\ ItemOf(h) \in Items /\ ItemOf(h).req = hreq[h]
           /\ ItemOf(h).comp = NoHandler <=> hreq[h] \in Asyncs
           /\ ItemOf(h).comp # NoHandler => ItemOf(h).comp = h
BY DispatchAssumption DEF DTypeOK, ItemOf, Items

\* queue_manager_enqueue_excluding() probes every queue but 0, each once.
LEMMA RoundRobinType ==
    ASSUME NEW start \in Queues
    PROVE  /\ RoundRobin(start) \in Seq(Queues)
           /\ Len(RoundRobin(start)) = Q - 1
           /\ \A i \in 1 .. Q - 1 : RoundRobin(start)[i] \in Queues \ {0}
           /\ \A q \in Queues \ {0} : \E i \in 1 .. Q - 1 : RoundRobin(start)[i] = q
           /\ \A i, j \in 1 .. Q - 1 : RoundRobin(start)[i] = RoundRobin(start)[j] => i = j
<1> DEFINE first == IF start = 0 THEN 1 ELSE start
           probe(i) == IF first + i <= Q THEN first + i - 1 ELSE first + i - Q
<1>1. Q - 1 \in Nat /\ first \in Nat /\ (Q > 1 => first \in 1 .. Q - 1)
  BY DispatchAssumption DEF Queues
<1>2. RoundRobin(start) = [i \in 1 .. Q - 1 |-> probe(i)]
  BY DEF RoundRobin
<1>3. \A i \in 1 .. Q - 1 : probe(i) \in 1 .. Q - 1 /\ probe(i) \in Queues \ {0}
  BY <1>1, DispatchAssumption DEF Queues
<1>4. RoundRobin(start) \in Seq(Queues) /\ Len(RoundRobin(start)) = Q - 1
  <2>1. RoundRobin(start) \in [1 .. Q - 1 -> Queues]
    BY <1>2, <1>3
  <2> QED
    BY <2>1, <1>1
<1>5. \A q \in Queues \ {0} : \E i \in 1 .. Q - 1 : probe(i) = q
  <2>1. SUFFICES ASSUME NEW q \in Queues \ {0} PROVE \E i \in 1 .. Q - 1 : probe(i) = q
    OBVIOUS
  <2>2. q \in 1 .. Q - 1 /\ Q > 1
    BY DispatchAssumption DEF Queues
  <2> DEFINE k == IF q >= first THEN q - first + 1 ELSE q - first + Q
  <2>3. k \in 1 .. Q - 1 /\ probe(k) = q
    BY <1>1, <2>2, DispatchAssumption
  <2> QED
    BY <2>3
<1>6. \A i, j \in 1 .. Q - 1 : probe(i) = probe(j) => i = j
  BY <1>1, DispatchAssumption
<1>7. \A i \in 1 .. Q - 1 : RoundRobin(start)[i] = probe(i)
  BY <1>2
<1> HIDE DEF probe
<1> QED
  BY <1>3, <1>4, <1>5, <1>6, <1>7

-----------------------------------------------------------------------------
(* Steps that only move a thread                                            *)

\* A handler goes on with its request without touching queues or results.
LEMMA HandlerMoves ==
    ASSUME DInv, NEW h \in Handlers, NEW l \in HandlerLabels,
           hpc' = [hpc EXCEPT ![h] = l],
           UNCHANGED <<queue, witem, hreq, comp, told, wpc, executed, stop, signalled, down>>,
           \/ hpc[h] \in {"locking", "scanning"} /\ l \in {"scanning", "refused"}
           \/ hpc[h] = "checking" /\ l = IF comp[h].done THEN "completed" ELSE "asleep"
           \/ hpc[h] = "asleep" /\ l = "checking",
           cursor' \in Queues, lock' \in Handlers \cup {NoHandler},
           todo' \in [Handlers -> Seq(Queues)], ScansEligible'
    PROVE  DInv'
<1>1. DTypeOK'
  BY DEF DInv, DTypeOK, HandlerLabels
<1>2. /\ \A g \in Handlers : g # h => hpc'[g] = hpc[g]
      /\ hpc'[h] = l /\ hpc[h] # "idle" /\ l # "idle"
  BY DEF DInv, DTypeOK
<1>3. HandlersServe'
  BY <1>2 DEF DInv, HandlersServe
<1>4. HandlerStage'
  BY <1>2, SamePlaces DEF DInv, HandlerStage
<1>5. ItemsSound'
  <2> SUFFICES ASSUME NEW q \in Queues, NEW i \in Places(q), ItemAt(q, i).req # NoRequest
               PROVE  LET it == ItemAt(q, i) IN
        /\ it.comp = NoHandler <=> it.req \in Asyncs
        /\ it.comp # NoHandler =>
             /\ hreq[it.comp] = it.req
             /\ hpc'[it.comp] \in {"checking", "asleep"} /\ ~comp[it.comp].done
        /\ it.comp = NoHandler =>
             told[it.req] = "accepted" \/ \E g \in Handlers : hreq[g] = it.req /\ hpc'[g] = "accepted"
        /\ q = 0 <=> it.req \in Writes
        /\ it.req \in executed <=> i = 0 /\ wpc[q] = "completing"
    BY SamePlaces DEF ItemsSound
  <2>1. ItemAt(q, i).comp # NoHandler => ItemAt(q, i).comp \in Handlers
    BY ItemTypes DEF DInv
  <2>2. hpc[h] # "accepted"
    OBVIOUS
  <2> QED
    BY <1>2, <2>1, <2>2 DEF DInv, ItemsSound
<1>6. OnePlace'
  BY SamePlaces DEF DInv, OnePlace
<1>7. WorkersSound' /\ StopSound'
  BY DEF DInv, WorkersSound, StopSound
<1>8. ClientsSound'
  BY <1>2, SamePlaces DEF DInv, ClientsSound
<1> QED
  BY <1>1, <1>3, <1>4, <1>5, <1>6, <1>7, <1>8 DEF DInv

\* A worker without an item moves; it sleeps or leaves only if it may.
LEMMA WorkerMoves ==
    ASSUME DInv, NEW q \in Queues, NEW l \in WorkerLabels,
           wpc[q] \notin {"running", "completing", "exited", "failed"},
           l \notin {"running", "completing"},
           wpc' = [wpc EXCEPT ![q] = l],
           l = "asleep" => queue[q] = << >> /\ q \notin signalled,
           l = "exited" => queue[q] = << >> /\ down,
           UNCHANGED <<queue, cursor, down, lock, hpc, hreq, todo, comp, told, witem, executed,
                       stop, signalled>>
    PROVE  DInv'
<1>1. DTypeOK'
  BY DEF DInv, DTypeOK, WorkerLabels
<1>2. (\A p \in Queues : p # q => wpc'[p] = wpc[p]) /\ wpc'[q] = l
  BY DEF DInv, DTypeOK
<1>3. HandlersServe' /\ ScansEligible'
  BY DEF DInv, HandlersServe, ScansEligible
<1>4. HandlerStage'
  BY SamePlaces DEF DInv, HandlerStage
<1>5. ItemsSound'
  BY <1>2, SamePlaces DEF DInv, ItemsSound
<1>6. OnePlace'
  BY SamePlaces DEF DInv, OnePlace
<1>7. WorkersSound'
  BY <1>2 DEF DInv, WorkersSound
<1>8. StopSound'
  BY <1>2 DEF DInv, StopSound
<1>9. ClientsSound'
  BY SamePlaces DEF DInv, ClientsSound
<1> QED
  BY <1>1, <1>3, <1>4, <1>5, <1>6, <1>7, <1>8, <1>9 DEF DInv

-----------------------------------------------------------------------------
(* One lemma per step of a handler                                          *)

\* MHD calls the handler with a request that nobody serves yet.
LEMMA RequestStep ==
    ASSUME DInv, NEW h \in Handlers, NEW r \in Requests, handle_request(h, r)
    PROVE  DInv'
<1>1. /\ hpc[h] = "idle" /\ r \in Unsent /\ stop = "serving"
      /\ hpc' = [hpc EXCEPT ![h] = "locking"] /\ hreq' = [hreq EXCEPT ![h] = r]
      /\ comp' = [comp EXCEPT ![h] = Fresh]
      /\ UNCHANGED <<queue, cursor, down, lock, todo, wpc, witem, executed, told, stop, signalled>>
  BY DEF handle_request, qvars, wvars, pvars
<1>2. DTypeOK'
  BY <1>1 DEF DInv, DTypeOK, Fresh
<1>3. /\ \A g \in Handlers : g # h => hpc'[g] = hpc[g] /\ hreq'[g] = hreq[g] /\ comp'[g] = comp[g]
      /\ hpc'[h] = "locking" /\ hreq'[h] = r /\ comp'[h] = Fresh
  BY <1>1 DEF DInv, DTypeOK
<1>4. r # NoRequest /\ told[r] = "none" /\ \A g \in Handlers : hreq[g] # r
  BY <1>1, DispatchAssumption DEF Unsent, Requests
<1>5. ~InSystem(r)
  <2> SUFFICES ASSUME NEW q \in Queues, NEW i \in Places(q), ItemAt(q, i).req = r PROVE FALSE
    BY DEF InSystem
  <2> QED
    BY <1>4, ItemTypes DEF DInv, ItemsSound
<1>6. r \notin executed
  BY <1>4 DEF DInv, ClientsSound
<1>7. HandlersServe'
  BY <1>1, <1>3, <1>4 DEF DInv, HandlersServe
<1>8. HandlerStage'
  BY <1>1, <1>3, <1>5, <1>6, SamePlaces DEF DInv, HandlerStage, Fresh
<1>9. ScansEligible'
  BY <1>1, <1>3 DEF DInv, ScansEligible
<1>10. ItemsSound'
  <2>1. ASSUME NEW q \in Queues, NEW i \in Places(q), ItemAt(q, i).req # NoRequest
        PROVE  /\ ItemAt(q, i).comp # NoHandler => ItemAt(q, i).comp \in Handlers \ {h}
               /\ \A g \in Handlers : hreq[g] = ItemAt(q, i).req => g # h
    BY <1>1, <2>1, ItemTypes DEF DInv, ItemsSound, HandlersServe
  <2> QED
    BY <1>1, <1>3, <2>1, SamePlaces DEF DInv, ItemsSound
<1>11. OnePlace'
  BY <1>1, SamePlaces DEF DInv, OnePlace
<1>12. WorkersSound' /\ StopSound'
  BY <1>1 DEF DInv, WorkersSound, StopSound
<1>13. ClientsSound'
  BY <1>1, <1>3, SamePlaces DEF DInv, ClientsSound
<1> QED
  BY <1>2, <1>7, <1>8, <1>9, <1>10, <1>11, <1>12, <1>13 DEF DInv

\* A request that its handler turns down was in nobody's hands.
LEMMA UnsentUnknown ==
    ASSUME DInv, NEW r \in Unsent
    PROVE  /\ r \in Requests /\ r # NoRequest /\ told[r] = "none" /\ r \notin executed
           /\ \A h \in Handlers : hreq[h] # r
           /\ \A q \in Queues : \A i \in Places(q) : ItemAt(q, i).req # r
<1>1. r \in Requests /\ r # NoRequest /\ told[r] = "none" /\ \A h \in Handlers : hreq[h] # r
  BY DispatchAssumption DEF Unsent, Requests
<1>2. \A q \in Queues : \A i \in Places(q) : ItemAt(q, i).req # r
  BY <1>1, ItemTypes DEF DInv, ItemsSound
<1>3. r \notin executed
  BY <1>1 DEF DInv, ClientsSound
<1> QED
  BY <1>1, <1>2, <1>3

\* The handler turns a request down itself.
LEMMA RejectStep ==
    ASSUME DInv, NEW h \in Handlers, NEW r \in Requests, reject_request(h, r)
    PROVE  DInv'
<1>1. /\ r \in Unsent /\ told' = [told EXCEPT ![r] = "error"]
      /\ UNCHANGED <<queue, cursor, down, lock, hpc, hreq, todo, comp, wpc, witem, executed,
                     stop, signalled>>
  BY DEF reject_request, qvars, wvars, pvars
<1>2. /\ r # NoRequest /\ r \notin executed /\ \A g \in Handlers : hreq[g] # r
      /\ \A q \in Queues : \A i \in Places(q) : ItemAt(q, i).req # r
  BY <1>1, UnsentUnknown
<1>3. DTypeOK'
  BY <1>1 DEF DInv, DTypeOK
<1>4. told'[r] = "error" /\ \A x \in Requests : x # r => told'[x] = told[x]
  BY <1>1 DEF DInv, DTypeOK
<1>5. HandlersServe'
  <2>1. \A g \in Handlers : hpc[g] # "idle" => hreq[g] \in Requests
    BY DEF DInv, DTypeOK, HandlersServe
  <2> QED
    BY <1>1, <1>2, <1>4, <2>1 DEF DInv, HandlersServe
<1>6. HandlerStage' /\ ScansEligible' /\ OnePlace' /\ WorkersSound' /\ StopSound'
  BY <1>1, SamePlaces DEF DInv, HandlerStage, ScansEligible, OnePlace, WorkersSound, StopSound
<1>7. ItemsSound'
  <2>1. ASSUME NEW q \in Queues, NEW i \in Places(q), ItemAt(q, i).req # NoRequest
        PROVE  told'[ItemAt(q, i).req] = told[ItemAt(q, i).req]
    BY <1>2, <1>4, <2>1, ItemTypes DEF DInv
  <2> QED
    BY <1>1, <2>1, SamePlaces DEF DInv, ItemsSound
<1>8. ClientsSound'
  <2>1. ~InSystem(r)
    BY <1>2 DEF InSystem
  <2> QED
    BY <1>1, <1>2, <1>4, <2>1, SamePlaces DEF DInv, ClientsSound
<1> QED
  BY <1>3, <1>5, <1>6, <1>7, <1>8 DEF DInv

\* enqueue_mutex is taken: the eligible queues are fixed.
LEMMA BeginStep ==
    ASSUME DInv, NEW h \in Handlers, enqueue_begin(h)
    PROVE  DInv'
<1>1. /\ hpc[h] = "locking" /\ hpc' = [hpc EXCEPT ![h] = "scanning"] /\ lock' = h
      /\ UNCHANGED <<queue, witem, hreq, comp, told, wpc, executed, stop, signalled, down>>
  BY DEF enqueue_begin, wvars, pvars
<1>2. \E s \in Seq(Queues) :
        /\ todo' = [todo EXCEPT ![h] = s]
        /\ Q > 1 => s # << >>
        /\ \A i \in 1 .. Len(s) : s[i] = 0 <=> hreq[h] \in Writes
  <2>1. CASE hreq[h] \in Writes
    <3> DEFINE s == <<0>>
    <3>1. s \in Seq(Queues) /\ s # << >> /\ \A i \in 1 .. Len(s) : s[i] = 0
      BY DispatchAssumption DEF Queues
    <3>2. todo' = [todo EXCEPT ![h] = s]
      BY <2>1 DEF enqueue_begin
    <3> HIDE DEF s
    <3> QED
      BY <2>1, <3>1, <3>2
  <2>2. CASE hreq[h] \notin Writes
    <3>1. cursor \in Queues
      BY DEF DInv, DTypeOK
    <3>2. Q > 1 => RoundRobin(cursor) # << >>
      BY <3>1, RoundRobinType, DispatchAssumption
    <3> QED
      BY <2>2, <3>1, <3>2, RoundRobinType DEF enqueue_begin
  <2> QED
    BY <2>1, <2>2
<1>3. cursor' \in Queues
  <2>1. Q \in Nat \ {0} /\ cursor \in 0 .. Q - 1
    BY DispatchAssumption DEF DInv, DTypeOK, Queues
  <2>2. (cursor + 1) % Q \in 0 .. Q - 1
    BY <2>1
  <2> QED
    BY <2>1, <2>2 DEF enqueue_begin, Queues
<1>4. todo' \in [Handlers -> Seq(Queues)]
  BY <1>2 DEF DInv, DTypeOK
<1>5. ScansEligible'
  BY <1>1, <1>2 DEF DInv, DTypeOK, ScansEligible
<1> QED
  BY <1>1, <1>3, <1>4, <1>5, HandlerMoves DEF HandlerLabels

\* A full queue is passed over.
LEMMA OverflowStep ==
    ASSUME DInv, NEW h \in Handlers, enqueue_overflow(h)
    PROVE  DInv'
<1> DEFINE s == todo[h]
<1>1. /\ hpc[h] = "scanning" /\ Len(s) > 1 /\ todo' = [todo EXCEPT ![h] = Tail(s)]
      /\ UNCHANGED <<hpc, lock, cursor>>
      /\ UNCHANGED <<queue, witem, hreq, comp, told, wpc, executed, stop, signalled, down>>
  BY DEF enqueue_overflow, qvars, wvars, pvars
<1>2. s \in Seq(Queues) /\ s # << >>
  BY <1>1, EmptySeq DEF DInv, DTypeOK
<1>3. /\ Tail(s) \in Seq(Queues) /\ Len(Tail(s)) = Len(s) - 1 /\ Len(s) \in Nat
      /\ \A i \in 1 .. Len(Tail(s)) : Tail(s)[i] = s[i + 1]
  BY <1>2, HeadTailProperties, LenProperties
<1>4. Tail(s) # << >>
  <2>1. Len(Tail(s)) > 0 /\ Len(<< >>) = 0
    BY <1>1, <1>3
  <2> QED
    BY <2>1
<1>5. todo' \in [Handlers -> Seq(Queues)] /\ hpc' = [hpc EXCEPT ![h] = "scanning"]
  BY <1>1, <1>3 DEF DInv, DTypeOK
<1>6. \A i \in 1 .. Len(Tail(s)) : Tail(s)[i] = 0 <=> hreq[h] \in Writes
  <2> SUFFICES ASSUME NEW i \in 1 .. Len(Tail(s)) PROVE Tail(s)[i] = 0 <=> hreq[h] \in Writes
    OBVIOUS
  <2>1. i + 1 \in 1 .. Len(s)
    BY <1>3
  <2> QED
    BY <1>1, <1>3, <2>1 DEF DInv, ScansEligible
<1>7. ScansEligible'
  BY <1>1, <1>4, <1>6 DEF DInv, DTypeOK, ScansEligible
<1>8. cursor' \in Queues /\ lock' \in Handlers \cup {NoHandler}
  BY <1>1 DEF DInv, DTypeOK
<1> QED
  BY <1>1, <1>5, <1>7, <1>8, HandlerMoves DEF HandlerLabels

\* No eligible queue had room.
LEMMA FullStep ==
    ASSUME DInv, NEW h \in Handlers, enqueue_full(h)
    PROVE  DInv'
<1>1. /\ hpc[h] = "scanning" /\ todo' = [todo EXCEPT ![h] = << >>] /\ lock' = NoHandler
      /\ hpc' = [hpc EXCEPT ![h] = "refused"]
      /\ UNCHANGED <<queue, cursor, witem, hreq, comp, told, wpc, executed, stop, signalled, down>>
  BY DEF enqueue_full, qvars, wvars, pvars
<1>2. todo' \in [Handlers -> Seq(Queues)] /\ cursor' \in Queues
  BY <1>1, EmptySeq DEF DInv, DTypeOK
<1>3. ScansEligible'
  BY <1>1 DEF DInv, DTypeOK, ScansEligible
<1> QED
  BY <1>1, <1>2, <1>3, HandlerMoves DEF HandlerLabels

\* One pass of the wait loop.
LEMMA AwaitStep ==
    ASSUME DInv, NEW h \in Handlers, await_completion(h)
    PROVE  DInv'
<1> DEFINE l == IF comp[h].done THEN "completed" ELSE "asleep"
<1>1. /\ hpc[h] = "checking" /\ hpc' = [hpc EXCEPT ![h] = l]
      /\ UNCHANGED <<todo, lock, cursor>>
      /\ UNCHANGED <<queue, witem, hreq, comp, told, wpc, executed, stop, signalled, down>>
  BY DEF await_completion, qvars, wvars, pvars
<1>2. ScansEligible'
  BY <1>1 DEF DInv, DTypeOK, ScansEligible
<1>3. cursor' \in Queues /\ lock' \in Handlers \cup {NoHandler} /\ todo' \in [Handlers -> Seq(Queues)]
  BY <1>1 DEF DInv, DTypeOK
<1>4. l \in HandlerLabels
  BY DEF HandlerLabels
<1> QED
  BY <1>1, <1>2, <1>3, <1>4, HandlerMoves

\* The client is told how its request ended.
LEMMA RespondStep ==
    ASSUME DInv, NEW h \in Handlers, respond(h)
    PROVE  DInv'
<1> DEFINE r == hreq[h]
<1>1. /\ hpc[h] \in {"completed", "refused", "accepted"}
      /\ hpc' = [hpc EXCEPT ![h] = "idle"] /\ hreq' = [hreq EXCEPT ![h] = NoRequest]
      /\ UNCHANGED <<queue, cursor, down, lock, todo, comp, wpc, witem, executed, stop, signalled>>
  BY DEF respond, qvars, wvars, pvars
<1>2. r \in Requests /\ r # NoRequest /\ told[r] = "none"
  BY <1>1 DEF DInv, HandlersServe, DTypeOK
<1>3. \E t \in {"busy", "accepted", "result"} :
        /\ told' = [told EXCEPT ![r] = t]
        /\ t = "busy" <=> hpc[h] = "refused"
        /\ t = "accepted" <=> hpc[h] = "accepted"
        /\ t = "result" <=> hpc[h] = "completed"
  BY <1>1 DEF DInv, HandlerStage, respond
<1>4. DTypeOK'
  BY <1>1, <1>3 DEF DInv, DTypeOK
<1>5. /\ \A g \in Handlers : g # h => hpc'[g] = hpc[g] /\ hreq'[g] = hreq[g] /\ hreq[g] # r
      /\ hpc'[h] = "idle" /\ hreq'[h] = NoRequest
      /\ \A x \in Requests : x # r => told'[x] = told[x]
      /\ told'[r] \in {"busy", "accepted", "result"}
      /\ told'[r] = "busy" => hpc[h] = "refused"
      /\ told'[r] = "accepted" <=> hpc[h] = "accepted"
      /\ told'[r] = "result" => hpc[h] = "completed"
  BY <1>1, <1>2, <1>3 DEF DInv, DTypeOK, HandlersServe
<1>6. HandlersServe'
  BY <1>1, <1>5, SMTT(30) DEF DInv, HandlersServe, DTypeOK
<1>7. HandlerStage'
  BY <1>1, <1>5, SamePlaces DEF DInv, HandlerStage
<1>8. ScansEligible'
  BY <1>1, <1>5 DEF DInv, ScansEligible
<1>9. ItemsSound'
  <2>1. ASSUME NEW q \in Queues, NEW i \in Places(q), ItemAt(q, i).req # NoRequest
        PROVE  /\ ItemAt(q, i).comp # NoHandler => ItemAt(q, i).comp \in Handlers \ {h}
               /\ ItemAt(q, i).req \in Requests
               /\ ItemAt(q, i).req = r => told'[r] = "accepted"
               /\ ItemAt(q, i).req # r => told'[ItemAt(q, i).req] = told[ItemAt(q, i).req]
    BY <1>1, <1>2, <1>5, <2>1, ItemTypes DEF DInv, ItemsSound, HandlerStage, HandlersServe
  <2> QED
    BY <1>1, <1>5, <2>1, SamePlaces DEF DInv, ItemsSound
<1>10. OnePlace'
  BY <1>1, SamePlaces DEF DInv, OnePlace
<1>11. WorkersSound' /\ StopSound'
  BY <1>1 DEF DInv, WorkersSound, StopSound
<1>12. ClientsSound'
  BY <1>1, <1>2, <1>5, SamePlaces DEF DInv, ClientsSound, HandlerStage
<1> QED
  BY <1>4, <1>6, <1>7, <1>8, <1>9, <1>10, <1>11, <1>12 DEF DInv

-----------------------------------------------------------------------------
(* Steps that move an item                                                  *)

\* A push adds one place, at the end of one queue.
LEMMA PushPlaces ==
    ASSUME DTypeOK, NEW q \in Queues, NEW it \in Items, NEW n, n = Len(queue[q]) + 1,
           queue' = [queue EXCEPT ![q] = Append(queue[q], it)], witem' = witem
    PROVE  /\ queue' \in [Queues -> Seq(Items)]
           /\ Len(queue'[q]) = n /\ n \in Nat \ {0} /\ n \notin Places(q)
           /\ Places(q)' = Places(q) \cup {n}
           /\ \A i \in Places(q) : ItemAt(q, i)' = ItemAt(q, i)
           /\ ItemAt(q, n)' = it
           /\ \A p \in Queues \ {q} : queue'[p] = queue[p] /\ Places(p)' = Places(p)
           /\ \A p \in Queues \ {q} : \A i : ItemAt(p, i)' = ItemAt(p, i)
           /\ \A r : InSystem(r)' <=> InSystem(r) \/ r = it.req
<1> DEFINE s == queue[q]
<1>1. s \in Seq(Items) /\ queue \in [Queues -> Seq(Items)]
  BY DEF DTypeOK
<1>2. /\ Append(s, it) \in Seq(Items) /\ Len(Append(s, it)) = n /\ Len(s) \in Nat
      /\ \A i \in 1 .. Len(s) : Append(s, it)[i] = s[i]
      /\ Append(s, it)[n] = it
  BY <1>1, AppendProperties, LenProperties
<1>3. queue' \in [Queues -> Seq(Items)] /\ queue'[q] = Append(s, it)
      /\ \A p \in Queues \ {q} : queue'[p] = queue[p]
  BY <1>1, <1>2
<1>4. Places(q)' = Places(q) \cup {n}
  BY <1>2, <1>3 DEF Places
<1>5. \A i \in Places(q) : ItemAt(q, i)' = ItemAt(q, i)
  <2> SUFFICES ASSUME NEW i \in Places(q) PROVE ItemAt(q, i)' = ItemAt(q, i)
    OBVIOUS
  <2>1. i # 0 => i \in 1 .. Len(s)
    BY <1>2 DEF Places
  <2>2. i # 0 => queue'[q][i] = queue[q][i]
    BY <1>2, <1>3, <2>1
  <2> QED
    BY <2>2 DEF ItemAt
<1>6. ItemAt(q, n)' = it
  <2>1. n # 0 /\ queue'[q][n] = it
    BY <1>2, <1>3
  <2> QED
    BY <2>1 DEF ItemAt
<1>7. /\ \A p \in Queues \ {q} : Places(p)' = Places(p)
      /\ \A p \in Queues \ {q} : \A i : ItemAt(p, i)' = ItemAt(p, i)
  BY <1>3 DEF Places, ItemAt
<1>8. \A r : InSystem(r)' <=> InSystem(r) \/ r = it.req
  BY <1>4, <1>5, <1>6, <1>7 DEF InSystem
<1>9. n \in Nat \ {0} /\ n \notin Places(q) /\ Len(queue'[q]) = n
  BY <1>2, <1>3 DEF Places
<1> QED
  BY <1>2, <1>3, <1>4, <1>5, <1>6, <1>7, <1>8, <1>9

\* A pop moves every item of one queue one place forward.
LEMMA PopPlaces ==
    ASSUME DTypeOK, NEW q \in Queues, queue[q] # << >>, witem[q] = NoItem,
           queue' = [queue EXCEPT ![q] = Tail(queue[q])],
           witem' = [witem EXCEPT ![q] = Head(queue[q])]
    PROVE  /\ queue' \in [Queues -> Seq(Items)] /\ witem' \in [Queues -> Items \cup {NoItem}]
           /\ witem'[q] \in Items /\ witem'[q] = queue[q][1]
           /\ Len(queue'[q]) = Len(queue[q]) - 1 /\ Len(queue[q]) \in Nat \ {0}
           /\ \A i \in Places(q)' : i + 1 \in Places(q) /\ ItemAt(q, i)' = ItemAt(q, i + 1)
           /\ \A p \in Queues \ {q} : queue'[p] = queue[p] /\ witem'[p] = witem[p]
           /\ \A p \in Queues \ {q} : Places(p)' = Places(p)
           /\ \A p \in Queues \ {q} : \A i : ItemAt(p, i)' = ItemAt(p, i)
           /\ \A r : r # NoRequest => (InSystem(r)' <=> InSystem(r))
<1> DEFINE s == queue[q]
<1>1. s \in Seq(Items) /\ queue \in [Queues -> Seq(Items)]
      /\ witem \in [Queues -> Items \cup {NoItem}]
  BY DEF DTypeOK
<1>2. /\ Head(s) \in Items /\ Head(s) = s[1]
      /\ Tail(s) \in Seq(Items) /\ Len(Tail(s)) = Len(s) - 1
      /\ \A i \in 1 .. Len(Tail(s)) : Tail(s)[i] = s[i + 1]
      /\ Len(s) \in Nat \ {0}
  <2>1. Head(s) = s[1]
    BY <1>1
  <2> QED
    BY <1>1, <2>1, HeadTailProperties, EmptySeq
<1>3. /\ queue' \in [Queues -> Seq(Items)] /\ queue'[q] = Tail(s)
      /\ witem' \in [Queues -> Items \cup {NoItem}] /\ witem'[q] = s[1] /\ witem'[q] \in Items
      /\ \A p \in Queues \ {q} : queue'[p] = queue[p] /\ witem'[p] = witem[p]
  BY <1>1, <1>2
<1>4. \A i \in Places(q)' : i + 1 \in Places(q) /\ ItemAt(q, i)' = ItemAt(q, i + 1)
  <2> SUFFICES ASSUME NEW i \in Places(q)'
               PROVE  i + 1 \in Places(q) /\ ItemAt(q, i)' = ItemAt(q, i + 1)
    OBVIOUS
  <2>1. i \in 0 .. Len(s) - 1
    BY <1>2, <1>3 DEF Places
  <2>2. i + 1 \in Places(q) /\ i + 1 # 0
    BY <1>2, <2>1 DEF Places
  <2>3. CASE i = 0
    BY <1>3, <2>2, <2>3 DEF ItemAt
  <2>4. CASE i # 0
    <3>1. i \in 1 .. Len(Tail(s))
      BY <1>2, <2>1, <2>4
    <3> QED
      BY <1>2, <1>3, <2>2, <2>4, <3>1 DEF ItemAt
  <2> QED
    BY <2>2, <2>3, <2>4
<1>5. /\ \A p \in Queues \ {q} : Places(p)' = Places(p)
      /\ \A p \in Queues \ {q} : \A i : ItemAt(p, i)' = ItemAt(p, i)
  BY <1>3 DEF Places, ItemAt
<1>6. \A r : r # NoRequest => (InSystem(r)' <=> InSystem(r))
  <2> SUFFICES ASSUME NEW r, r # NoRequest PROVE InSystem(r)' <=> InSystem(r)
    OBVIOUS
  <2>1. InSystem(r)' => InSystem(r)
    BY <1>4, <1>5 DEF InSystem
  <2>2. ASSUME NEW i \in Places(q), ItemAt(q, i).req = r PROVE InSystem(r)'
    <3>1. i # 0
      BY <2>2 DEF ItemAt, NoItem
    <3>2. i - 1 \in Places(q)' /\ (i - 1) + 1 = i
      BY <1>2, <1>3, <3>1 DEF Places
    <3>3. ItemAt(q, i - 1)' = ItemAt(q, i)
      BY <1>4, <3>2
    <3> QED
      BY <2>2, <3>2, <3>3 DEF InSystem
  <2>3. InSystem(r) => InSystem(r)'
    BY <1>5, <2>2 DEF InSystem
  <2> QED
    BY <2>1, <2>3
<1> QED
  BY <1>2, <1>3, <1>4, <1>5, <1>6

\* Waking a worker only takes it out of its sleep.
LEMMA WakeType ==
    ASSUME DTypeOK, NEW q \in Queues
    PROVE  /\ Wake(q) \in [Queues -> WorkerLabels]
           /\ Wake(q)[q] = IF wpc[q] = "asleep" THEN "checking" ELSE wpc[q]
           /\ \A p \in Queues \ {q} : Wake(q)[p] = wpc[p]
BY DEF DTypeOK, Wake, WorkerLabels

\* The request is accepted into a queue with room, and its worker woken.
LEMMA PushStep ==
    ASSUME DInv, NEW h \in Handlers, enqueue_push(h)
    PROVE  DInv'
<1>0. PICK q, it : q = Head(todo[h]) /\ it = ItemOf(h)
  OBVIOUS
<1> DEFINE l == IF hreq[h] \in Asyncs THEN "accepted" ELSE "checking"
<1>1. /\ hpc[h] = "scanning" /\ todo[h] # << >> /\ Len(queue[q]) < Depth
      /\ queue' = [queue EXCEPT ![q] = Append(queue[q], it)] /\ wpc' = Wake(q)
      /\ lock' = NoHandler /\ todo' = [todo EXCEPT ![h] = << >>]
      /\ hpc' = [hpc EXCEPT ![h] = l]
      /\ UNCHANGED <<cursor, down, hreq, comp, told, witem, executed, stop, signalled>>
  BY <1>0 DEF enqueue_push, pvars
<1>2. q \in Queues /\ (q = 0 <=> hreq[h] \in Writes)
  <2>1. todo[h] \in Seq(Queues)
    BY DEF DInv, DTypeOK
  <2>2. q \in Queues /\ q = todo[h][1] /\ 1 \in 1 .. Len(todo[h])
    BY <1>0, <1>1, <2>1
  <2> QED
    BY <1>1, <2>2 DEF DInv, ScansEligible
<1>3. /\ hreq[h] \in Requests /\ hreq[h] # NoRequest
      /\ ~InSystem(hreq[h]) /\ hreq[h] \notin executed /\ ~comp[h].done
      /\ told[hreq[h]] = "none" /\ stop \in {"serving", "draining"}
  BY <1>1 DEF DInv, DTypeOK, HandlersServe, HandlerStage
<1>4. /\ it \in Items /\ it.req = hreq[h]
      /\ it.comp = NoHandler <=> hreq[h] \in Asyncs
      /\ it.comp # NoHandler => it.comp = h
  BY <1>0, <1>3, ItemOfType DEF DInv
<1>5. PICK n : n = Len(queue[q]) + 1
  OBVIOUS
<1>6. /\ queue' \in [Queues -> Seq(Items)]
      /\ Len(queue'[q]) = n /\ n \in Nat \ {0} /\ n \notin Places(q)
      /\ Places(q)' = Places(q) \cup {n}
      /\ \A i \in Places(q) : ItemAt(q, i)' = ItemAt(q, i)
      /\ ItemAt(q, n)' = it
      /\ \A p \in Queues \ {q} : queue'[p] = queue[p] /\ Places(p)' = Places(p)
      /\ \A p \in Queues \ {q} : \A i : ItemAt(p, i)' = ItemAt(p, i)
      /\ \A r : InSystem(r)' <=> InSystem(r) \/ r = it.req
  <2>1. DTypeOK
    BY DEF DInv
  <2> QED
    BY <1>1, <1>2, <1>4, <1>5, <2>1, PushPlaces
<1>7. /\ wpc' \in [Queues -> WorkerLabels]
      /\ \A p \in Queues : wpc'[p] = IF p = q /\ wpc[p] = "asleep" THEN "checking" ELSE wpc[p]
  BY <1>1, <1>2, WakeType DEF DInv
<1>8. /\ \A g \in Handlers : g # h => hpc'[g] = hpc[g] /\ todo'[g] = todo[g]
      /\ hpc'[h] = l /\ l \in HandlerLabels
  BY <1>1 DEF DInv, DTypeOK, HandlerLabels
<1>9. DTypeOK'
  <2>1. \A p \in Queues : Len(queue'[p]) <= Depth
    <3>1. Len(queue[q]) \in Nat /\ n <= Depth
      BY <1>1, <1>2, <1>5, LenProperties, DispatchAssumption DEF DInv, DTypeOK
    <3> QED
      BY <1>6, <3>1 DEF DInv, DTypeOK
  <2>2. todo' \in [Handlers -> Seq(Queues)]
    BY <1>1, EmptySeq DEF DInv, DTypeOK
  <2>3. hpc' \in [Handlers -> HandlerLabels]
    BY <1>1, <1>8 DEF DInv, DTypeOK, HandlerLabels
  <2> QED
    BY <1>1, <1>6, <1>7, <2>1, <2>2, <2>3 DEF DInv, DTypeOK, HandlerLabels, WorkerLabels
<1>10. HandlersServe'
  BY <1>1, <1>3, <1>8 DEF DInv, HandlersServe
<1>11. HandlerStage'
  <2>1. \A g \in Handlers : g # h => hreq[g] # it.req
    BY <1>3, <1>4 DEF DInv, HandlersServe
  <2> QED
    BY <1>1, <1>3, <1>4, <1>6, <1>8, <2>1 DEF DInv, HandlerStage
<1>12. ScansEligible'
  BY <1>1, <1>8 DEF DInv, ScansEligible
<1>13. ItemsSound'
  <2> SUFFICES ASSUME NEW p \in Queues, NEW i \in Places(p)', ItemAt(p, i)'.req # NoRequest
               PROVE  LET jt == ItemAt(p, i)' IN
        /\ jt.comp = NoHandler <=> jt.req \in Asyncs
        /\ jt.comp # NoHandler =>
             /\ hreq[jt.comp] = jt.req
             /\ hpc'[jt.comp] \in {"checking", "asleep"} /\ ~comp[jt.comp].done
        /\ jt.comp = NoHandler =>
             told[jt.req] = "accepted" \/ \E g \in Handlers : hreq[g] = jt.req /\ hpc'[g] = "accepted"
        /\ p = 0 <=> jt.req \in Writes
        /\ jt.req \in executed <=> i = 0 /\ wpc'[p] = "completing"
    BY <1>1 DEF ItemsSound
  <2>1. CASE p = q /\ i = n
    <3>1. ItemAt(p, i)' = it
      BY <1>6, <2>1
    <3> QED
      BY <1>2, <1>3, <1>4, <1>6, <1>8, <2>1, <3>1
  <2>2. CASE ~(p = q /\ i = n)
    <3>1. i \in Places(p) /\ ItemAt(p, i)' = ItemAt(p, i)
      BY <1>6, <2>2
    <3>2. wpc'[p] = "completing" <=> wpc[p] = "completing"
      BY <1>7
    <3>3. ItemAt(p, i).comp # NoHandler => ItemAt(p, i).comp \in Handlers
      BY <3>1, ItemTypes DEF DInv
    <3>4. hpc[h] \notin {"checking", "asleep", "accepted"}
      BY <1>1
    <3> QED
      BY <1>8, <3>1, <3>2, <3>3, <3>4 DEF DInv, ItemsSound
  <2> QED
    BY <2>1, <2>2
<1>14. OnePlace'
  <2>1. \A p \in Queues : \A i \in Places(p) : ItemAt(p, i).req # it.req
    BY <1>3, <1>4 DEF InSystem
  <2>2. \A p \in Queues : \A i \in Places(p)' :
          \/ p = q /\ i = n /\ ItemAt(p, i)' = it
          \/ i \in Places(p) /\ ItemAt(p, i)' = ItemAt(p, i)
    BY <1>6
  <2> QED
    BY <2>1, <2>2 DEF DInv, OnePlace
<1>15. WorkersSound'
  <2>1. wpc[q] # "exited"
    BY <1>2, <1>3 DEF DInv, WorkersSound, StopSound
  <2> QED
    BY <1>1, <1>6, <1>7, <2>1 DEF DInv, WorkersSound
<1>16. StopSound'
  BY <1>1, <1>3 DEF DInv, StopSound
<1>17. ClientsSound'
  BY <1>1, <1>3, <1>4, <1>6, <1>8 DEF DInv, ClientsSound
<1> QED
  BY <1>9, <1>10, <1>11, <1>12, <1>13, <1>14, <1>15, <1>16, <1>17 DEF DInv

\* The worker takes the oldest request, also after the shutdown signal.
LEMMA PopStep ==
    ASSUME DInv, NEW q \in Queues, dequeue_pop(q)
    PROVE  DInv'
<1>1. /\ wpc[q] = "checking" /\ queue[q] # << >> /\ wpc' = [wpc EXCEPT ![q] = "running"]
      /\ queue' = [queue EXCEPT ![q] = Tail(queue[q])]
      /\ witem' = [witem EXCEPT ![q] = Head(queue[q])]
      /\ UNCHANGED <<cursor, down, lock, hpc, hreq, todo, comp, executed, told, stop, signalled>>
  BY DEF dequeue_pop, hvars, pvars
<1>2. witem[q] = NoItem /\ DTypeOK
  BY <1>1 DEF DInv, WorkersSound
<1>3. /\ queue' \in [Queues -> Seq(Items)] /\ witem' \in [Queues -> Items \cup {NoItem}]
      /\ witem'[q] \in Items /\ witem'[q] = queue[q][1]
      /\ Len(queue'[q]) = Len(queue[q]) - 1 /\ Len(queue[q]) \in Nat \ {0}
      /\ \A i \in Places(q)' : i + 1 \in Places(q) /\ ItemAt(q, i)' = ItemAt(q, i + 1)
      /\ \A p \in Queues \ {q} : queue'[p] = queue[p] /\ witem'[p] = witem[p]
      /\ \A p \in Queues \ {q} : Places(p)' = Places(p)
      /\ \A p \in Queues \ {q} : \A i : ItemAt(p, i)' = ItemAt(p, i)
      /\ \A r : r # NoRequest => (InSystem(r)' <=> InSystem(r))
  BY <1>1, <1>2, PopPlaces
<1>4. (\A p \in Queues : p # q => wpc'[p] = wpc[p]) /\ wpc'[q] = "running"
  BY <1>1, <1>2 DEF DTypeOK
<1>5. DTypeOK'
  <2>1. \A p \in Queues : Len(queue'[p]) <= Depth
    <3>1. Len(queue[q]) <= Depth /\ \A p \in Queues \ {q} : Len(queue'[p]) <= Depth
      BY <1>2, <1>3 DEF DTypeOK
    <3>2. Len(queue'[q]) <= Depth
      BY <1>3, <3>1, DispatchAssumption
    <3> QED
      BY <3>1, <3>2
  <2> QED
    BY <1>1, <1>2, <1>3, <2>1 DEF DTypeOK
<1>6. HandlersServe' /\ ScansEligible'
  BY <1>1 DEF DInv, HandlersServe, ScansEligible
<1>7. HandlerStage'
  BY <1>1, <1>3 DEF DInv, HandlerStage, HandlersServe
<1>8. \A p \in Queues : \A i \in Places(p)' : \E j \in Places(p) :
        /\ ItemAt(p, i)' = ItemAt(p, j)
        /\ j = IF p = q THEN i + 1 ELSE i
  BY <1>3
<1>9. ItemsSound'
  <2> SUFFICES ASSUME NEW p \in Queues, NEW i \in Places(p)', ItemAt(p, i)'.req # NoRequest
               PROVE  LET jt == ItemAt(p, i)' IN
        /\ jt.comp = NoHandler <=> jt.req \in Asyncs
        /\ jt.comp # NoHandler =>
             /\ hreq[jt.comp] = jt.req
             /\ hpc[jt.comp] \in {"checking", "asleep"} /\ ~comp[jt.comp].done
        /\ jt.comp = NoHandler =>
             told[jt.req] = "accepted" \/ \E g \in Handlers : hreq[g] = jt.req /\ hpc[g] = "accepted"
        /\ p = 0 <=> jt.req \in Writes
        /\ jt.req \in executed <=> i = 0 /\ wpc'[p] = "completing"
    BY <1>1 DEF ItemsSound
  <2>1. PICK j \in Places(p) : /\ ItemAt(p, i)' = ItemAt(p, j)
                               /\ j = IF p = q THEN i + 1 ELSE i
    BY <1>8
  <2>2. (j = 0 /\ wpc[p] = "completing") <=> (i = 0 /\ wpc'[p] = "completing")
    BY <1>1, <1>4, <2>1 DEF Places
  <2> QED
    BY <2>1, <2>2 DEF DInv, ItemsSound
<1>10. OnePlace'
  <2> SUFFICES ASSUME NEW p1 \in Queues, NEW p2 \in Queues, NEW i1 \in Places(p1)',
                      NEW i2 \in Places(p2)',
                      ItemAt(p1, i1)'.req = ItemAt(p2, i2)'.req, ItemAt(p1, i1)'.req # NoRequest
               PROVE  p1 = p2 /\ i1 = i2
    BY DEF OnePlace
  <2>1. PICK j1 \in Places(p1) : /\ ItemAt(p1, i1)' = ItemAt(p1, j1)
                                 /\ j1 = IF p1 = q THEN i1 + 1 ELSE i1
    BY <1>8
  <2>2. PICK j2 \in Places(p2) : /\ ItemAt(p2, i2)' = ItemAt(p2, j2)
                                 /\ j2 = IF p2 = q THEN i2 + 1 ELSE i2
    BY <1>8
  <2>3. p1 = p2 /\ j1 = j2
    BY <2>1, <2>2 DEF DInv, OnePlace
  <2> QED
    BY <2>1, <2>2, <2>3 DEF Places
<1>11. WorkersSound'
  <2>1. witem'[q] # NoItem
    BY <1>3, DispatchAssumption DEF Items, NoItem, Requests
  <2> QED
    BY <1>1, <1>3, <1>4, <2>1 DEF DInv, WorkersSound
<1>12. StopSound'
  BY <1>1, <1>2 DEF DInv, StopSound
<1>13. ClientsSound'
  <2>1. \A r \in Requests : InSystem(r)' <=> InSystem(r)
    BY <1>3, DispatchAssumption DEF Requests
  <2> QED
    BY <1>1, <2>1 DEF DInv, ClientsSound
<1> QED
  BY <1>5, <1>6, <1>7, <1>9, <1>10, <1>11, <1>12, <1>13 DEF DInv

\* The request is executed: from now on it counts as executed.
LEMMA ProcessStep ==
    ASSUME DInv, NEW q \in Queues, process(q)
    PROVE  DInv'
<1>0. PICK r : r = witem[q].req
  OBVIOUS
<1>1. /\ wpc[q] = "running" /\ wpc' = [wpc EXCEPT ![q] = "completing"]
      /\ executed' = executed \cup {r}
      /\ UNCHANGED <<queue, cursor, down, lock, hpc, hreq, todo, comp, told, witem, stop, signalled>>
  BY <1>0 DEF process, qvars, hvars, pvars
<1>2. 0 \in Places(q) /\ ItemAt(q, 0) = witem[q] /\ witem[q] # NoItem
  <2>1. Len(queue[q]) \in Nat
    BY LenProperties DEF DInv, DTypeOK
  <2> QED
    BY <1>1, <2>1 DEF DInv, WorkersSound, Places, ItemAt
<1>3. /\ r \in Requests /\ r # NoRequest /\ InSystem(r)
      /\ \A p \in Queues : \A i \in Places(p) : ItemAt(p, i).req = r <=> p = q /\ i = 0
  <2>1. witem[q] \in Items
    BY <1>2 DEF DInv, DTypeOK
  <2>2. r \in Requests /\ r # NoRequest
    BY <1>0, <2>1, DispatchAssumption DEF Items, Requests
  <2>3. \A p \in Queues : \A i \in Places(p) : ItemAt(p, i).req = r <=> p = q /\ i = 0
    BY <1>0, <1>2, <2>2 DEF DInv, OnePlace
  <2> QED
    BY <1>0, <1>2, <2>2, <2>3 DEF InSystem
<1>4. (\A p \in Queues : p # q => wpc'[p] = wpc[p]) /\ wpc'[q] = "completing"
  BY <1>1 DEF DInv, DTypeOK
<1>5. DTypeOK'
  BY <1>1, <1>3 DEF DInv, DTypeOK
<1>6. HandlersServe' /\ ScansEligible'
  BY <1>1 DEF DInv, HandlersServe, ScansEligible
<1>7. HandlerStage'
  BY <1>1, <1>3, SamePlaces DEF DInv, HandlerStage
<1>8. ItemsSound'
  BY <1>1, <1>3, <1>4, SamePlaces DEF DInv, ItemsSound
<1>9. OnePlace'
  BY <1>1, SamePlaces DEF DInv, OnePlace
<1>10. WorkersSound' /\ StopSound'
  BY <1>1, <1>4 DEF DInv, WorkersSound, StopSound
<1>11. ClientsSound'
  <2>1. told[r] = "none" =>
          \E h \in Handlers : hreq[h] = r /\ hpc[h] \notin {"idle", "locking", "scanning", "refused"}
    <3>1. witem[q].comp # NoHandler => witem[q].comp \in Handlers
      BY <1>2, ItemTypes DEF DInv
    <3> QED
      BY <1>0, <1>2, <1>3, <3>1 DEF DInv, ItemsSound
  <2> QED
    BY <1>1, <1>3, <2>1, SamePlaces DEF DInv, ClientsSound
<1> QED
  BY <1>5, <1>6, <1>7, <1>8, <1>9, <1>10, <1>11 DEF DInv

\* The result goes to the handler that waits for it, and to no other.
LEMMA CompleteStep ==
    ASSUME DInv, NEW q \in Queues, complete(q)
    PROVE  DInv'
<1>0. PICK r, h : r = witem[q].req /\ h = witem[q].comp
  OBVIOUS
<1>1. /\ wpc[q] = "completing" /\ wpc' = [wpc EXCEPT ![q] = "checking"]
      /\ witem' = [witem EXCEPT ![q] = NoItem]
      /\ UNCHANGED <<queue, cursor, down, lock, hreq, todo, told, executed, stop, signalled>>
  BY DEF complete, qvars, pvars
<1>2. \/ h = NoHandler /\ UNCHANGED <<comp, hpc>>
      \/ /\ h # NoHandler
         /\ comp' = [comp EXCEPT ![h] = [done |-> TRUE, resp |-> r]]
         /\ hpc' = IF hpc[h] = "asleep" THEN [hpc EXCEPT ![h] = "checking"] ELSE hpc
  BY <1>0 DEF complete
<1>3. 0 \in Places(q) /\ ItemAt(q, 0) = witem[q] /\ witem[q] # NoItem
  <2>1. Len(queue[q]) \in Nat
    BY LenProperties DEF DInv, DTypeOK
  <2> QED
    BY <1>1, <2>1 DEF DInv, WorkersSound, Places, ItemAt
<1>4. /\ r \in Requests /\ r # NoRequest /\ r \in executed
      /\ \A p \in Queues : \A i \in Places(p) : ItemAt(p, i).req = r <=> p = q /\ i = 0
      /\ h # NoHandler => /\ h \in Handlers /\ hreq[h] = r /\ r \notin Asyncs
                          /\ hpc[h] \in {"checking", "asleep"}
  <2>1. witem[q] \in Items
    BY <1>3 DEF DInv, DTypeOK
  <2>2. r \in Requests /\ r # NoRequest /\ (h # NoHandler => h \in Handlers)
    BY <1>0, <2>1, DispatchAssumption DEF Items, Requests
  <2>3. \A p \in Queues : \A i \in Places(p) : ItemAt(p, i).req = r <=> p = q /\ i = 0
    BY <1>0, <1>3, <2>2 DEF DInv, OnePlace
  <2> QED
    BY <1>0, <1>1, <1>3, <2>2, <2>3 DEF DInv, ItemsSound
<1>5. (\A p \in Queues : p # q => wpc'[p] = wpc[p]) /\ wpc'[q] = "checking"
      /\ (\A p \in Queues : p # q => witem'[p] = witem[p]) /\ witem'[q] = NoItem
  BY <1>1 DEF DInv, DTypeOK
<1>6. /\ \A g \in Handlers : g # h => hpc'[g] = hpc[g] /\ comp'[g] = comp[g]
      /\ h # NoHandler => /\ comp'[h].done /\ comp'[h].resp = r
                          /\ hpc'[h] = "checking"
      /\ \A g \in Handlers : 
           hpc'[g] = hpc[g] \/ (g = h /\ hpc[g] = "asleep" /\ hpc'[g] = "checking")
  BY <1>2, <1>4 DEF DInv, DTypeOK
<1>7. DTypeOK'
  <2>1. comp' \in [Handlers -> [done : BOOLEAN, resp : Requests \cup {NoRequest}]]
    <3>1. [done |-> TRUE, resp |-> r] \in [done : BOOLEAN, resp : Requests \cup {NoRequest}]
      BY <1>4
    <3> QED
      BY <1>2, <1>4, <3>1 DEF DInv, DTypeOK
  <2>2. hpc' \in [Handlers -> HandlerLabels]
    BY <1>2, <1>4 DEF DInv, DTypeOK, HandlerLabels
  <2> QED
    BY <1>1, <2>1, <2>2 DEF DInv, DTypeOK, HandlerLabels
<1>8. /\ \A p : Places(p)' = Places(p)
      /\ \A p \in Queues : \A i \in Places(p) :
           ItemAt(p, i)' = IF p = q /\ i = 0 THEN NoItem ELSE ItemAt(p, i)
  BY <1>1, <1>5 DEF Places, ItemAt
<1>9. \A x : x # NoRequest => (InSystem(x)' <=> InSystem(x) /\ x # r)
  <2> SUFFICES ASSUME NEW x, x # NoRequest PROVE InSystem(x)' <=> InSystem(x) /\ x # r
    OBVIOUS
  <2>1. NoItem.req = NoRequest
    BY DEF NoItem
  <2>2. InSystem(x)' => InSystem(x) /\ x # r
    BY <1>4, <1>8, <2>1 DEF InSystem
  <2>3. InSystem(x) /\ x # r => InSystem(x)'
    BY <1>4, <1>8 DEF InSystem
  <2> QED
    BY <2>2, <2>3
<1>10. HandlersServe'
  BY <1>1, <1>4, <1>6 DEF DInv, HandlersServe
<1>11. HandlerStage'
  <2> SUFFICES ASSUME NEW g \in Handlers
               PROVE
      /\ hpc'[g] \in {"locking", "scanning", "refused"} =>
           ~InSystem(hreq[g])' /\ hreq[g] \notin executed /\ ~comp'[g].done
      /\ hpc'[g] = "accepted" =>
           hreq[g] \in Asyncs /\ (InSystem(hreq[g])' \/ hreq[g] \in executed)
      /\ hpc'[g] \in {"checking", "asleep", "completed"} =>
           /\ hreq[g] \notin Asyncs
           /\ comp'[g].done => comp'[g].resp = hreq[g] /\ hreq[g] \in executed
      /\ hpc'[g] = "asleep" => ~comp'[g].done
      /\ hpc'[g] = "completed" => comp'[g].done
    BY <1>1 DEF HandlerStage
  <2>1. CASE g # h
    <3>1. hpc[g] # "idle" => (InSystem(hreq[g])' <=> InSystem(hreq[g]) /\ hreq[g] # r)
      BY <1>1, <1>9 DEF DInv, HandlersServe
    <3>2. hpc'[g] = hpc[g] /\ comp'[g] = comp[g]
      BY <1>6, <2>1
    <3> QED
      BY <1>4, <3>1, <3>2 DEF DInv, HandlerStage
  <2>2. CASE g = h
    <3>1. h # NoHandler
      BY <2>2, DispatchAssumption
    <3> QED
      BY <1>4, <1>6, <2>2, <3>1
  <2> QED
    BY <2>1, <2>2
<1>12. ScansEligible'
  BY <1>1, <1>4, <1>6 DEF DInv, ScansEligible
<1>13. ItemsSound'
  <2> SUFFICES ASSUME NEW p \in Queues, NEW i \in Places(p)', ItemAt(p, i)'.req # NoRequest
               PROVE  LET jt == ItemAt(p, i)' IN
        /\ jt.comp = NoHandler <=> jt.req \in Asyncs
        /\ jt.comp # NoHandler =>
             /\ hreq[jt.comp] = jt.req
             /\ hpc'[jt.comp] \in {"checking", "asleep"} /\ ~comp'[jt.comp].done
        /\ jt.comp = NoHandler =>
             told[jt.req] = "accepted" \/ \E g \in Handlers : hreq[g] = jt.req /\ hpc'[g] = "accepted"
        /\ p = 0 <=> jt.req \in Writes
        /\ jt.req \in executed <=> i = 0 /\ wpc'[p] = "completing"
    BY <1>1 DEF ItemsSound
  <2>1. i \in Places(p) /\ ~(p = q /\ i = 0) /\ ItemAt(p, i)' = ItemAt(p, i)
    BY <1>8 DEF NoItem
  <2>2. ItemAt(p, i).req # r /\ (i = 0 => p # q)
    BY <1>4, <2>1
  <2>3. ItemAt(p, i).comp # NoHandler => ItemAt(p, i).comp \in Handlers
    BY <2>1, ItemTypes DEF DInv
  <2>4. ItemAt(p, i).comp # NoHandler => ItemAt(p, i).comp # h
    BY <1>4, <2>1, <2>2 DEF DInv, ItemsSound
  <2>5. \A g \in Handlers : hpc[g] = "accepted" => hpc'[g] = "accepted"
    BY <1>6
  <2> QED
    BY <1>5, <1>6, <2>1, <2>2, <2>3, <2>4, <2>5 DEF DInv, ItemsSound
<1>14. OnePlace'
  BY <1>8 DEF DInv, OnePlace, NoItem
<1>15. WorkersSound' /\ StopSound'
  BY <1>1, <1>5 DEF DInv, WorkersSound, StopSound
<1>16. ClientsSound'
  <2>1. \A x \in Requests : InSystem(x)' <=> InSystem(x) /\ x # r
    BY <1>9, DispatchAssumption DEF Requests
  <2>2. \A g \in Handlers : hpc[g] \notin {"idle", "locking", "scanning", "refused"} =>
          hpc'[g] \notin {"idle", "locking", "scanning", "refused"}
    BY <1>4, <1>6
  <2> QED
    BY <1>1, <1>4, <2>1, <2>2 DEF DInv, ClientsSound
<1> QED
  BY <1>7, <1>10, <1>11, <1>12, <1>13, <1>14, <1>15, <1>16 DEF DInv

-----------------------------------------------------------------------------
(* The stop sequence, and the whole next-state relation                     *)

\* MHD is told to stop, and has stopped.
LEMMA StopMovesStep ==
    ASSUME DInv, stop_begin \/ mhd_stopped
    PROVE  DInv'
<1>1. /\ UNCHANGED <<queue, cursor, down, lock, hpc, hreq, todo, comp, wpc, witem, executed, told,
                     signalled>>
      /\ \/ stop = "serving" /\ stop' = "draining"
         \/ stop = "draining" /\ stop' = "signalling" /\ \A h \in Handlers : hpc[h] = "idle"
  BY DEF stop_begin, mhd_stopped, qvars, hvars, wvars
<1>2. DTypeOK' /\ HandlersServe' /\ ScansEligible'
  BY <1>1 DEF DInv, DTypeOK, HandlersServe, ScansEligible
<1>3. HandlerStage'
  BY <1>1, SamePlaces DEF DInv, HandlerStage
<1>4. ItemsSound'
  BY <1>1, SamePlaces DEF DInv, ItemsSound
<1>5. OnePlace'
  BY <1>1, SamePlaces DEF DInv, OnePlace
<1>6. WorkersSound' /\ StopSound'
  BY <1>1 DEF DInv, WorkersSound, StopSound
<1>7. ClientsSound'
  BY <1>1, SamePlaces DEF DInv, ClientsSound
<1> QED
  BY <1>2, <1>3, <1>4, <1>5, <1>6, <1>7 DEF DInv

\* While some queue is not signalled, the next index is a queue.
LEMMA NextSignal ==
    ASSUME DTypeOK, signalled # Queues
    PROVE  Cardinality(signalled) \in Queues
<1>1. IsFiniteSet(Queues) /\ Cardinality(Queues) = Q
  BY FS_Interval, DispatchAssumption DEF Queues
<1>2. signalled \subseteq Queues
  BY DEF DTypeOK
<1>3. IsFiniteSet(signalled) /\ Cardinality(signalled) < Q /\ Cardinality(signalled) \in Nat
  BY <1>1, <1>2, FS_Subset, FS_CardinalityType
<1> QED
  BY <1>3, DispatchAssumption DEF Queues

\* queue_manager_shutdown() flags one queue and wakes its worker.
LEMMA ShutdownStep ==
    ASSUME DInv, shutdown_queue
    PROVE  DInv'
<1>0. PICK q : q = Cardinality(signalled)
  OBVIOUS
<1>1. /\ stop = "signalling" /\ signalled # Queues /\ signalled' = signalled \cup {q}
      /\ wpc' = Wake(q) /\ down' = TRUE
      /\ UNCHANGED <<queue, cursor, lock, hpc, hreq, todo, comp, told, witem, executed, stop>>
  BY <1>0 DEF shutdown_queue, hvars
<1>2. q \in Queues
  BY <1>0, <1>1, NextSignal DEF DInv
<1>3. /\ wpc' \in [Queues -> WorkerLabels]
      /\ \A p \in Queues : wpc'[p] = IF p = q /\ wpc[p] = "asleep" THEN "checking" ELSE wpc[p]
  BY <1>1, <1>2, WakeType DEF DInv
<1>4. DTypeOK'
  BY <1>1, <1>2, <1>3 DEF DInv, DTypeOK, WorkerLabels
<1>5. HandlersServe' /\ ScansEligible'
  BY <1>1 DEF DInv, HandlersServe, ScansEligible
<1>6. HandlerStage'
  BY <1>1, SamePlaces DEF DInv, HandlerStage
<1>7. ItemsSound'
  BY <1>1, <1>3, SamePlaces DEF DInv, ItemsSound
<1>8. OnePlace'
  BY <1>1, SamePlaces DEF DInv, OnePlace
<1>9. WorkersSound' /\ StopSound'
  BY <1>1, <1>3 DEF DInv, WorkersSound, StopSound
<1>10. ClientsSound'
  BY <1>1, SamePlaces DEF DInv, ClientsSound
<1> QED
  BY <1>4, <1>5, <1>6, <1>7, <1>8, <1>9, <1>10 DEF DInv

\* The pool is freed after every handler and every worker has left.
LEMMA DestroyStep ==
    ASSUME DInv, join_and_destroy
    PROVE  DInv'
<1>1. /\ stop = "signalling" /\ stop' = "destroyed" /\ queue' = [q \in Queues |-> << >>]
      /\ \A q \in Queues : wpc[q] \in {"exited", "failed"}
      /\ UNCHANGED <<cursor, down, lock, hpc, hreq, todo, comp, wpc, witem, executed, told, signalled>>
  BY DEF join_and_destroy, hvars, wvars
<1>2. /\ \A h \in Handlers : hpc[h] = "idle"
      /\ \A q \in Queues : witem[q] = NoItem /\ queue'[q] = << >>
  BY <1>1 DEF DInv, HandlersServe, WorkersSound
<1>3. \A q \in Queues : Places(q)' = {0} /\ ItemAt(q, 0)' = NoItem
  BY <1>1, <1>2 DEF Places, ItemAt
<1>4. \A r : r # NoRequest => ~InSystem(r)'
  BY <1>3 DEF InSystem, NoItem
<1>5. DTypeOK'
  <2>1. queue' \in [Queues -> Seq(Items)] /\ \A q \in Queues : Len(queue'[q]) <= Depth
    BY <1>1, DispatchAssumption
  <2> QED
    BY <1>1, <2>1 DEF DInv, DTypeOK
<1>6. HandlersServe' /\ ScansEligible' /\ HandlerStage'
  BY <1>1, <1>2 DEF DInv, HandlersServe, ScansEligible, HandlerStage
<1>7. ItemsSound' /\ OnePlace'
  BY <1>3 DEF ItemsSound, OnePlace, NoItem
<1>8. WorkersSound' /\ StopSound'
  BY <1>1, <1>2 DEF DInv, WorkersSound, StopSound
<1>9. ClientsSound'
  <2>1. \A r \in Requests : ~InSystem(r)'
    BY <1>4, DispatchAssumption DEF Requests
  <2> QED
    BY <1>1, <2>1 DEF DInv, ClientsSound
<1> QED
  BY <1>5, <1>6, <1>7, <1>8, <1>9 DEF DInv

\* A worker starts, fails to start, finds its queue empty, or is woken.
LEMMA WorkerMoveSteps ==
    ASSUME DInv, NEW q \in Queues, worker_start(q) \/ dequeue_empty(q)
    PROVE  DInv'
<1>1. CASE worker_start(q)
  <2>1. \E l \in {"checking", "failed"} : wpc' = [wpc EXCEPT ![q] = l]
    BY <1>1 DEF worker_start
  <2>2. wpc[q] = "starting"
        /\ UNCHANGED <<queue, cursor, down, lock, hpc, hreq, todo, comp, told, witem, executed,
                       stop, signalled>>
    BY <1>1 DEF worker_start, qvars, hvars, pvars
  <2> QED
    BY <2>1, <2>2, WorkerMoves DEF WorkerLabels
<1>2. CASE dequeue_empty(q)
  <2>1. PICK l : l = IF down THEN "exited" ELSE "asleep"
    OBVIOUS
  <2>2. /\ wpc[q] = "checking" /\ queue[q] = << >> /\ wpc' = [wpc EXCEPT ![q] = l]
        /\ UNCHANGED <<queue, cursor, down, lock, hpc, hreq, todo, comp, told, witem, executed,
                       stop, signalled>>
    BY <1>2, <2>1 DEF dequeue_empty, qvars, hvars, pvars
  <2>3. ~down => q \notin signalled
    BY DEF DInv, StopSound
  <2> QED
    BY <2>1, <2>2, <2>3, WorkerMoves DEF WorkerLabels
<1> QED
  BY <1>1, <1>2

\* A wait that returns without a signal changes nothing else.
LEMMA SpuriousStep ==
    ASSUME DInv, spurious_wakeups
    PROVE  DInv'
<1>1. UNCHANGED <<lock, hreq, todo, comp, told, witem, executed, queue, cursor, down, stop, signalled>>
  BY DEF spurious_wakeups, qvars, pvars
<1>2. CASE \E q \in Queues : wpc[q] = "asleep" /\ wpc' = [wpc EXCEPT ![q] = "checking"]
                              /\ UNCHANGED hpc
  BY <1>1, <1>2, WorkerMoves DEF WorkerLabels
<1>3. CASE \E h \in Handlers : hpc[h] = "asleep" /\ hpc' = [hpc EXCEPT ![h] = "checking"]
                                /\ UNCHANGED wpc
  <2>1. PICK h \in Handlers : hpc[h] = "asleep" /\ hpc' = [hpc EXCEPT ![h] = "checking"]
                              /\ UNCHANGED wpc
    BY <1>3
  <2>2. ScansEligible'
    BY <1>1, <2>1 DEF DInv, DTypeOK, ScansEligible
  <2>3. cursor' \in Queues /\ lock' \in Handlers \cup {NoHandler} /\ todo' \in [Handlers -> Seq(Queues)]
    BY <1>1 DEF DInv, DTypeOK
  <2> QED
    BY <1>1, <2>1, <2>2, <2>3, HandlerMoves DEF HandlerLabels
<1> QED
  BY <1>2, <1>3 DEF spurious_wakeups

\* Nothing happens.
LEMMA StutterStep ==
    ASSUME DInv, UNCHANGED dvars
    PROVE  DInv'
<1>1. UNCHANGED <<queue, cursor, down, lock, hpc, hreq, todo, comp, wpc, witem, executed, told,
                  stop, signalled>>
  BY DEF dvars
<1> QED
  BY <1>1 DEF DInv, DTypeOK, HandlersServe, HandlerStage, ScansEligible, ItemsSound, OnePlace,
              WorkersSound, StopSound, ClientsSound, InSystem, ItemAt, Places

\* The listener starts with nothing in flight.
LEMMA DInitOK == DInit => DInv
<1> SUFFICES ASSUME DInit PROVE DInv
  OBVIOUS
<1>1. DTypeOK
  <2>1. queue \in [Queues -> Seq(Items)] /\ \A q \in Queues : Len(queue[q]) <= Depth
    BY DispatchAssumption, EmptySeq DEF DInit
  <2>2. todo \in [Handlers -> Seq(Queues)]
    BY EmptySeq DEF DInit
  <2>3. cursor \in Queues
    BY DispatchAssumption DEF DInit, Queues
  <2>4. comp \in [Handlers -> [done : BOOLEAN, resp : Requests \cup {NoRequest}]]
    BY DEF DInit, Fresh
  <2> QED
    BY <2>1, <2>2, <2>3, <2>4 DEF DInit, DTypeOK
<1>2. \A q \in Queues : Places(q) = {0} /\ ItemAt(q, 0) = NoItem
  BY DEF DInit, Places, ItemAt
<1>3. \A r : r # NoRequest => ~InSystem(r)
  BY <1>2 DEF InSystem, NoItem
<1>4. HandlersServe /\ HandlerStage /\ ScansEligible
  BY DEF DInit, HandlersServe, HandlerStage, ScansEligible
<1>5. ItemsSound /\ OnePlace
  BY <1>2 DEF ItemsSound, OnePlace, NoItem
<1>6. WorkersSound /\ StopSound
  BY DEF DInit, WorkersSound, StopSound
<1>7. ClientsSound
  BY DEF DInit, ClientsSound
<1> QED
  BY <1>1, <1>4, <1>5, <1>6, <1>7 DEF DInv

\* Every step of the dispatcher keeps the invariant.
LEMMA DNextOK ==
    ASSUME DInv, [DNext]_dvars
    PROVE  DInv'
<1>1. ASSUME NEW h \in Handlers, HandlerStep(h) PROVE DInv'
  BY <1>1, BeginStep, PushStep, OverflowStep, FullStep, AwaitStep, RespondStep DEF HandlerStep
<1>2. ASSUME NEW h \in Handlers, NEW r \in Requests, handle_request(h, r) PROVE DInv'
  BY <1>2, RequestStep
<1>3. ASSUME NEW q \in Queues, WorkerStep(q) PROVE DInv'
  BY <1>3, WorkerMoveSteps, PopStep, ProcessStep, CompleteStep DEF WorkerStep
<1>4. CASE spurious_wakeups
  BY <1>4, SpuriousStep
<1>5. CASE stop_begin \/ StopStep
  BY <1>5, StopMovesStep, ShutdownStep, DestroyStep DEF StopStep
<1>6. CASE Destroyed \/ UNCHANGED dvars
  BY <1>6, StutterStep DEF Destroyed
<1>7. ASSUME NEW h \in Handlers, NEW r \in Requests, reject_request(h, r) PROVE DInv'
  BY <1>7, RejectStep
<1> QED
  BY <1>1, <1>2, <1>3, <1>4, <1>5, <1>6, <1>7 DEF DNext

-----------------------------------------------------------------------------
(* Theorems                                                                 *)

\* The inductive invariant holds in every reachable state.
THEOREM DispatchInvariant == DSpec => []DInv
<1>1. DInit => DInv
  BY DInitOK
<1>2. DInv /\ [DNext]_dvars => DInv'
  BY DNextOK
<1> QED
  BY <1>1, <1>2, PTL DEF DSpec

\* Queues, threads and completions keep the shape of their C structures; in
\* particular no queue ever holds more than queue_depth requests.
THEOREM DispatchTypeCorrect == DSpec => []DTypeOK
<1>1. DInv => DTypeOK
  BY DEF DInv
<1> QED
  BY <1>1, DispatchInvariant, PTL

\* The completion object on a handler's stack outlives every queued or
\* running request that points at it: dispatch() returns only when the
\* worker is through with the object.
THEOREM CompletionsOutlivePointers == DSpec => []CompletionAlive
<1>1. DInv => CompletionAlive
  <2> SUFFICES ASSUME DInv PROVE CompletionAlive
    OBVIOUS
  <2>1. ASSUME NEW h \in Handlers, NEW q \in Queues, NEW i \in Places(q), ItemAt(q, i).comp = h
        PROVE  hpc[h] \in {"checking", "asleep"} /\ ~comp[h].done
    <3>1. ItemAt(q, i) # NoItem
      BY <2>1, DispatchAssumption DEF NoItem
    <3>2. ItemAt(q, i).req # NoRequest
      BY <3>1, ItemTypes DEF DInv
    <3> QED
      BY <2>1, <3>2, DispatchAssumption DEF DInv, ItemsSound
  <2>2. ASSUME NEW q \in Queues
        PROVE  /\ 0 \in Places(q) /\ ItemAt(q, 0) = witem[q]
               /\ \A i \in 1 .. Len(queue[q]) : i \in Places(q) /\ ItemAt(q, i) = queue[q][i]
    <3>1. Len(queue[q]) \in Nat
      BY LenProperties DEF DInv, DTypeOK
    <3> QED
      BY <3>1 DEF Places, ItemAt
  <2> QED
    BY <2>1, <2>2 DEF CompletionAlive
<1> QED
  BY <1>1, DispatchInvariant, PTL

\* A worker sleeps only beside an empty queue that has not been shut down,
\* a handler only while its result is missing: no signal of
\* queue_manager.c or of the completion is lost.
THEOREM NoWakeupLost == DSpec => []NoLostWakeup
<1>1. DInv => NoLostWakeup
  BY DEF DInv, WorkersSound, HandlerStage, NoLostWakeup
<1> QED
  BY <1>1, DispatchInvariant, PTL

-----------------------------------------------------------------------------
(* Every step is a step of the abstract service                             *)

Dropped(r) == stop = "destroyed" /\ told[r] = "accepted" /\ r \notin executed

\* The cases of StatusOf exclude each other.
StatusExclusive ==
    \A r \in Requests :
      /\ StatusOf(r) \in {"new", "queued", "running", "done", "refused", "dropped"}
      /\ StatusOf(r) = "queued"  <=> Queued(r)
      /\ StatusOf(r) = "running" <=> Running(r)
      /\ StatusOf(r) = "done"    <=> r \in executed
      /\ StatusOf(r) = "refused" <=> Refused(r)
      /\ StatusOf(r) = "dropped" <=> Dropped(r)

\* What is queued or running is in the system.
LEMMA InSystemParts ==
    ASSUME DTypeOK
    PROVE  /\ \A q \in Queues : 0 \in Places(q) /\ ItemAt(q, 0) = witem[q]
           /\ \A q \in Queues : Len(queue[q]) \in Nat
           /\ \A q \in Queues : \A i \in 1 .. Len(queue[q]) :
                i \in Places(q) /\ i # 0 /\ ItemAt(q, i) = queue[q][i]
           /\ \A q \in Queues : \A i \in Places(q) : i = 0 \/ i \in 1 .. Len(queue[q])
           /\ \A r : Queued(r) <=> \E q \in Queues : \E i \in Places(q) : i # 0 /\ ItemAt(q, i).req = r
           /\ \A r : Running(r) <=> \E q \in Queues : wpc[q] = "running" /\ ItemAt(q, 0).req = r
<1>1. \A q \in Queues : Len(queue[q]) \in Nat
  BY LenProperties DEF DTypeOK
<1>2. \A q \in Queues : 0 \in Places(q) /\ ItemAt(q, 0) = witem[q]
  BY <1>1 DEF Places, ItemAt
<1>3. \A q \in Queues : \A i \in 1 .. Len(queue[q]) :
         i \in Places(q) /\ i # 0 /\ ItemAt(q, i) = queue[q][i]
  BY <1>1 DEF Places, ItemAt
<1>4. \A q \in Queues : \A i \in Places(q) : i = 0 \/ i \in 1 .. Len(queue[q])
  BY <1>1 DEF Places
<1>5. \A r : Queued(r) <=> \E q \in Queues : \E i \in Places(q) : i # 0 /\ ItemAt(q, i).req = r
  BY <1>3, <1>4 DEF Queued
<1>6. \A r : Running(r) <=> \E q \in Queues : wpc[q] = "running" /\ ItemAt(q, 0).req = r
  BY <1>2 DEF Running
<1> QED
  BY <1>1, <1>2, <1>3, <1>4, <1>5, <1>6

\* No two of a request's statuses hold at once.
LEMMA StatusCases == DInv => StatusExclusive
<1> SUFFICES ASSUME DInv, NEW r \in Requests
             PROVE  /\ StatusOf(r) \in {"new", "queued", "running", "done", "refused", "dropped"}
                    /\ StatusOf(r) = "queued"  <=> Queued(r)
                    /\ StatusOf(r) = "running" <=> Running(r)
                    /\ StatusOf(r) = "done"    <=> r \in executed
                    /\ StatusOf(r) = "refused" <=> Refused(r)
                    /\ StatusOf(r) = "dropped" <=> Dropped(r)
  BY DEF StatusExclusive
<1>1. DTypeOK /\ r # NoRequest
  BY DispatchAssumption DEF DInv, Requests
<1>2. Queued(r) => ~Running(r)
  BY <1>1, InSystemParts DEF DInv, OnePlace
<1>3. Queued(r) \/ Running(r) => r \notin executed
  BY <1>1, InSystemParts DEF DInv, ItemsSound
<1>4. Refused(r) => ~InSystem(r) /\ r \notin executed /\ told[r] # "accepted"
  BY <1>1 DEF DInv, Refused, HandlersServe, HandlerStage, ClientsSound
<1>5. Queued(r) \/ Running(r) => InSystem(r)
  BY <1>1, InSystemParts DEF InSystem
<1>6. stop = "destroyed" => ~Queued(r) /\ ~Running(r)
  <2>1. stop = "destroyed" => ~Running(r)
    BY DEF DInv, StopSound, Running
  <2>2. stop = "destroyed" => ~Queued(r)
    BY DEF DInv, StopSound, Queued
  <2> QED
    BY <2>1, <2>2
<1> HIDE DEF Queued, Running, Refused, Dropped
<1>7. CASE Queued(r)
  BY <1>2, <1>3, <1>4, <1>5, <1>6, <1>7 DEF StatusOf, Dropped
<1>8. CASE Running(r)
  BY <1>2, <1>3, <1>4, <1>5, <1>6, <1>8 DEF StatusOf, Dropped
<1>9. CASE r \in executed
  BY <1>3, <1>4, <1>5, <1>9 DEF StatusOf, Dropped
<1>10. CASE ~Queued(r) /\ ~Running(r) /\ r \notin executed
  BY <1>4, <1>10 DEF StatusOf, Dropped
<1> QED
  BY <1>7, <1>8, <1>9, <1>10

\* The same after a step.
LEMMA StatusCasesAfter == (DInv => StatusExclusive)'
BY StatusCases, PTL

\* What a request's status depends on.
LEMMA SameStatus ==
    ASSUME DInv, DInv', NEW r \in Requests,
           Queued(r)' <=> Queued(r), Running(r)' <=> Running(r),
           r \in executed' <=> r \in executed,
           Refused(r)' <=> Refused(r), Dropped(r)' <=> Dropped(r)
    PROVE  StatusOf(r)' = StatusOf(r)
BY StatusCases, StatusCasesAfter DEF StatusExclusive

\* What the queues and workers show of the service.
LEMMA SameQueues ==
    ASSUME queue' = queue,
           \A q \in Queues : /\ wpc'[q] = "running" <=> wpc[q] = "running"
                             /\ wpc[q] = "running" => witem'[q] = witem[q]
    PROVE  /\ \A r : Queued(r)' <=> Queued(r)
           /\ \A r : Running(r)' <=> Running(r)
           /\ WriteOrder' = WriteOrder
<1>1. 0 \in Queues
  BY DispatchAssumption DEF Queues
<1>2. WriteOrder' = WriteOrder
  <2>1. CASE wpc[0] = "running"
    BY <1>1, <2>1 DEF WriteOrder
  <2>2. CASE wpc[0] # "running"
    BY <1>1, <2>2 DEF WriteOrder
  <2> QED
    BY <2>1, <2>2
<1>3. \A r : Queued(r)' <=> Queued(r)
  BY DEF Queued
<1>4. \A r : Running(r)' <=> Running(r)
  BY DEF Running
<1> QED
  BY <1>2, <1>3, <1>4

\* A step that shows the clients nothing.
LEMMA QuietStep ==
    ASSUME DInv, DInv', queue' = queue, executed' = executed, told' = told,
           stop' = "destroyed" <=> stop = "destroyed",
           \A q \in Queues : /\ wpc'[q] = "running" <=> wpc[q] = "running"
                             /\ wpc[q] = "running" => witem'[q] = witem[q]
                             /\ wpc'[q] = "failed" <=> wpc[q] = "failed",
           \A h \in Handlers : /\ hpc'[h] = "refused" <=> hpc[h] = "refused"
                               /\ hpc[h] = "refused" => hreq'[h] = hreq[h]
    PROVE  UNCHANGED Service!svars
<1>1. /\ \A r : (Queued(r)' <=> Queued(r)) /\ (Running(r)' <=> Running(r))
      /\ WriteOrder' = WriteOrder
  BY SameQueues
<1>2. \A r : (Refused(r)' <=> Refused(r)) /\ (Dropped(r)' <=> Dropped(r))
  BY DEF Refused, Dropped
<1>3. \A r \in Requests : StatusOf(r)' = StatusOf(r)
  BY <1>1, <1>2, SameStatus
<1>4. Degraded' <=> Degraded
  BY DEF Degraded
<1>5. [r \in Requests |-> StatusOf(r)]' = [r \in Requests |-> StatusOf(r)]
  BY <1>3
<1>6. Degraded' = Degraded
  BY <1>4 DEF Degraded
<1> QED
  BY <1>1, <1>5, <1>6 DEF Service!svars

\* A handler's steps before and between the decisions of the dispatcher.
LEMMA HandlerQuiet ==
    ASSUME DInv, DInv', NEW h \in Handlers, NEW r \in Requests,
           handle_request(h, r) \/ enqueue_begin(h) \/ enqueue_overflow(h) \/ await_completion(h)
    PROVE  UNCHANGED Service!svars
<1>1. /\ UNCHANGED <<queue, executed, told, stop, wpc, witem>>
      /\ \A g \in Handlers : /\ hpc'[g] = "refused" <=> hpc[g] = "refused"
                             /\ hpc[g] = "refused" => hreq'[g] = hreq[g]
  BY DEF DInv, DTypeOK, handle_request, enqueue_begin, enqueue_overflow, await_completion,
         qvars, hvars, wvars, pvars
<1> QED
  BY <1>1, QuietStep

\* A worker's steps between requests, and the answer to a handler.
LEMMA WorkerQuiet ==
    ASSUME DInv, DInv', NEW q \in Queues,
           dequeue_empty(q) \/ complete(q)
    PROVE  UNCHANGED Service!svars
<1>1. /\ UNCHANGED <<queue, executed, told, stop, hreq>>
      /\ \A p \in Queues : /\ wpc'[p] = "running" <=> wpc[p] = "running"
                           /\ wpc[p] = "running" => witem'[p] = witem[p]
                           /\ wpc'[p] = "failed" <=> wpc[p] = "failed"
  BY DEF DInv, DTypeOK, dequeue_empty, complete, qvars, hvars, wvars, pvars
<1>2. \A g \in Handlers : hpc'[g] = "refused" <=> hpc[g] = "refused"
  <2>1. CASE dequeue_empty(q)
    BY <2>1 DEF dequeue_empty, hvars
  <2>2. CASE complete(q)
    BY <2>2 DEF complete, DInv, DTypeOK
  <2> QED
    BY <2>1, <2>2
<1> QED
  BY <1>1, <1>2, QuietStep

\* Wakeups and the steps of the stop sequence before the end.
LEMMA OtherQuiet ==
    ASSUME DInv, DInv',
           spurious_wakeups \/ stop_begin \/ mhd_stopped \/ shutdown_queue \/ UNCHANGED dvars
    PROVE  UNCHANGED Service!svars
<1>1. UNCHANGED <<queue, executed, told, hreq, witem>> /\ (stop' = "destroyed" <=> stop = "destroyed")
  BY DEF spurious_wakeups, stop_begin, mhd_stopped, shutdown_queue, dvars, qvars, hvars, wvars, pvars
<1>2. \A p \in Queues : /\ wpc'[p] = "running" <=> wpc[p] = "running"
                        /\ wpc'[p] = "failed" <=> wpc[p] = "failed"
  <2>1. CASE spurious_wakeups
    BY <2>1 DEF spurious_wakeups, DInv, DTypeOK
  <2>2. CASE stop_begin \/ mhd_stopped \/ UNCHANGED dvars
    BY <2>2 DEF stop_begin, mhd_stopped, dvars, wvars
  <2>3. CASE shutdown_queue
    BY <2>3 DEF shutdown_queue, Wake, DInv, DTypeOK
  <2> QED
    BY <2>1, <2>2, <2>3
<1>3. \A g \in Handlers : hpc'[g] = "refused" <=> hpc[g] = "refused"
  <2>1. CASE spurious_wakeups
    BY <2>1 DEF spurious_wakeups, DInv, DTypeOK
  <2>2. CASE stop_begin \/ mhd_stopped \/ shutdown_queue \/ UNCHANGED dvars
    BY <2>2 DEF stop_begin, mhd_stopped, shutdown_queue, dvars, hvars
  <2> QED
    BY <2>1, <2>2
<1> QED
  BY <1>1, <1>2, <1>3, QuietStep

\* A worker that gets no session degrades the service.
LEMMA StartRefines ==
    ASSUME DInv, DInv', NEW q \in Queues, worker_start(q)
    PROVE  [Service!SNext]_(Service!svars)
<1>1. UNCHANGED <<queue, executed, told, stop, hpc, hreq, witem>> /\ wpc[q] = "starting"
  BY DEF worker_start, qvars, hvars, pvars
<1>2. CASE wpc' = [wpc EXCEPT ![q] = "checking"]
  <2>1. \A p \in Queues : /\ wpc'[p] = "running" <=> wpc[p] = "running"
                          /\ wpc'[p] = "failed" <=> wpc[p] = "failed"
    BY <1>1, <1>2 DEF DInv, DTypeOK
  <2> QED
    BY <1>1, <2>1, QuietStep
<1>3. CASE wpc' = [wpc EXCEPT ![q] = "failed"]
  <2>1. /\ \A p \in Queues : wpc'[p] = "running" <=> wpc[p] = "running"
        /\ wpc'[q] = "failed"
    BY <1>1, <1>3 DEF DInv, DTypeOK
  <2>2. /\ \A r : (Queued(r)' <=> Queued(r)) /\ (Running(r)' <=> Running(r))
        /\ WriteOrder' = WriteOrder
    BY <1>1, <2>1, SameQueues
  <2>3. \A r : (Refused(r)' <=> Refused(r)) /\ (Dropped(r)' <=> Dropped(r))
    BY <1>1 DEF Refused, Dropped
  <2>4. \A r \in Requests : StatusOf(r)' = StatusOf(r)
    BY <1>1, <2>2, <2>3, SameStatus
  <2>5. [r \in Requests |-> StatusOf(r)]' = [r \in Requests |-> StatusOf(r)]
    BY <2>4
  <2>6. Degraded' = TRUE
    BY <2>1 DEF Degraded
  <2>7. Service!Degrade
    BY <1>1, <2>2, <2>5, <2>6 DEF Service!Degrade
  <2> QED
    BY <2>7 DEF Service!SNext
<1> QED
  BY <1>2, <1>3 DEF worker_start

\* The requests of a queue, in order.
ReqsOf(s) == [i \in 1 .. Len(s) |-> s[i].req]

\* They are a sequence of requests, as long as the queue.
LEMMA ReqsOfType ==
    ASSUME NEW s \in Seq(Items)
    PROVE  /\ ReqsOf(s) \in Seq(Requests) /\ Len(ReqsOf(s)) = Len(s)
           /\ \A i \in 1 .. Len(s) : ReqsOf(s)[i] = s[i].req
<1>1. Len(s) \in Nat /\ \A i \in 1 .. Len(s) : s[i] \in Items
  BY LenProperties, ElementOfSeq
<1>2. \A i \in 1 .. Len(s) : s[i].req \in Requests
  BY <1>1 DEF Items
<1>3. ReqsOf(s) \in [1 .. Len(s) -> Requests] /\ \A i \in 1 .. Len(s) : ReqsOf(s)[i] = s[i].req
  BY <1>2 DEF ReqsOf
<1> QED
  BY <1>1, <1>3

\* Pushing an item appends its request.
LEMMA ReqsOfAppend ==
    ASSUME NEW s \in Seq(Items), NEW it \in Items
    PROVE  ReqsOf(Append(s, it)) = Append(ReqsOf(s), it.req)
<1>1. Append(s, it) \in Seq(Items) /\ it.req \in Requests
  BY AppendProperties DEF Items
<1>2. /\ ReqsOf(s) \in Seq(Requests) /\ Len(ReqsOf(s)) = Len(s) /\ Len(s) \in Nat
      /\ \A i \in 1 .. Len(s) : ReqsOf(s)[i] = s[i].req
  BY ReqsOfType, LenProperties
<1>3. /\ ReqsOf(Append(s, it)) \in Seq(Requests)
      /\ Len(ReqsOf(Append(s, it))) = Len(s) + 1
      /\ \A i \in 1 .. Len(s) + 1 : ReqsOf(Append(s, it))[i] = Append(s, it)[i].req
  <2>1. Len(Append(s, it)) = Len(s) + 1
    BY AppendProperties
  <2> QED
    BY <1>1, <2>1, ReqsOfType
<1>4. /\ Append(ReqsOf(s), it.req) \in Seq(Requests)
      /\ Len(Append(ReqsOf(s), it.req)) = Len(s) + 1
  BY <1>1, <1>2, AppendProperties
<1>5. ASSUME NEW i \in 1 .. Len(s) + 1
      PROVE  ReqsOf(Append(s, it))[i] = Append(ReqsOf(s), it.req)[i]
  <2>1. CASE i = Len(s) + 1
    <3>1. Append(s, it)[i] = it /\ Append(ReqsOf(s), it.req)[i] = it.req
      BY <1>1, <1>2, <2>1, AppendProperties
    <3> QED
      BY <1>3, <3>1
  <2>2. CASE i \in 1 .. Len(s)
    <3>1. Append(s, it)[i] = s[i] /\ Append(ReqsOf(s), it.req)[i] = ReqsOf(s)[i]
      BY <1>1, <1>2, <2>2, AppendProperties
    <3> QED
      BY <1>2, <1>3, <2>2, <3>1
  <2> QED
    BY <1>2, <2>1, <2>2
<1> HIDE DEF ReqsOf
<1> QED
  BY <1>3, <1>4, <1>5, SeqEqual

\* Taking the first item of a queue and putting it in front again.
LEMMA ReqsOfSplit ==
    ASSUME NEW s \in Seq(Items), s # << >>
    PROVE  /\ ReqsOf(s) = <<Head(s).req>> \o ReqsOf(Tail(s))
           /\ Head(s).req \in Requests /\ ReqsOf(Tail(s)) \in Seq(Requests)
<1>1. /\ Head(s) \in Items /\ Head(s) = s[1] /\ Len(s) \in Nat \ {0}
      /\ Tail(s) \in Seq(Items) /\ Len(Tail(s)) = Len(s) - 1
      /\ \A i \in 1 .. Len(Tail(s)) : Tail(s)[i] = s[i + 1]
  <2>1. Head(s) = s[1]
    OBVIOUS
  <2> QED
    BY <2>1, HeadTailProperties, EmptySeq
<1>2. Head(s).req \in Requests
  BY <1>1 DEF Items
<1>3. PICK x, t : x = Head(s).req /\ t = ReqsOf(Tail(s))
  OBVIOUS
<1>4. /\ t \in Seq(Requests) /\ Len(t) = Len(s) - 1
      /\ \A i \in 1 .. Len(s) - 1 : t[i] = s[i + 1].req
  BY <1>1, <1>3, ReqsOfType
<1>0. PICK u : u = <<x>>
  OBVIOUS
<1>5. u \in Seq(Requests) /\ Len(u) = 1 /\ u[1] = x
  BY <1>0, <1>2, <1>3
<1>6. /\ u \o t \in Seq(Requests) /\ Len(u \o t) = Len(s)
      /\ \A i \in 1 .. Len(s) : (u \o t)[i] = IF i <= 1 THEN u[i] ELSE t[i - 1]
  <2>1. /\ u \o t \in Seq(Requests) /\ Len(u \o t) = Len(u) + Len(t)
        /\ \A i \in 1 .. Len(u) + Len(t) :
             (u \o t)[i] = IF i <= Len(u) THEN u[i] ELSE t[i - Len(u)]
    BY <1>4, <1>5, ConcatProperties
  <2>2. Len(u) + Len(t) = Len(s)
    BY <1>1, <1>4, <1>5
  <2> QED
    BY <1>5, <2>1, <2>2
<1>7. /\ ReqsOf(s) \in Seq(Requests) /\ Len(ReqsOf(s)) = Len(s)
      /\ \A i \in 1 .. Len(s) : ReqsOf(s)[i] = s[i].req
  BY ReqsOfType
<1>8. ASSUME NEW i \in 1 .. Len(s) PROVE ReqsOf(s)[i] = (u \o t)[i]
  <2>1. CASE i = 1
    BY <1>1, <1>3, <1>5, <1>6, <1>7, <2>1
  <2>2. CASE i # 1
    <3>1. i - 1 \in 1 .. Len(s) - 1 /\ (i - 1) + 1 = i /\ ~(i <= 1)
      BY <1>1, <2>2
    <3>2. t[i - 1] = s[i].req
      BY <1>4, <3>1
    <3> QED
      BY <1>6, <1>7, <3>1, <3>2
  <2> QED
    BY <2>1, <2>2
<1> HIDE DEF ReqsOf
<1>9. ReqsOf(s) = u \o t
  BY <1>6, <1>7, <1>8, SeqEqual
<1> QED
  BY <1>0, <1>2, <1>3, <1>4, <1>9

\* A sequence with one more element in front.
LEMMA ConsFacts ==
    ASSUME NEW S, NEW x \in S, NEW t \in Seq(S)
    PROVE  <<x>> \o t # << >> /\ Head(<<x>> \o t) = x /\ Tail(<<x>> \o t) = t
<1>0. PICK u, c : u = <<x>> /\ c = u \o t
  OBVIOUS
<1>1. u \in Seq(S) /\ Len(u) = 1 /\ u[1] = x /\ Len(t) \in Nat
  BY <1>0, LenProperties
<1>2. /\ c \in Seq(S) /\ Len(c) = Len(u) + Len(t)
      /\ \A i \in 1 .. Len(u) + Len(t) : c[i] = IF i <= Len(u) THEN u[i] ELSE t[i - Len(u)]
  BY <1>0, <1>1, ConcatProperties
<1>3. Len(c) = Len(t) + 1 /\ \A i \in 1 .. Len(t) + 1 : c[i] = IF i <= 1 THEN u[i] ELSE t[i - 1]
  BY <1>1, <1>2
<1>4. c # << >> /\ c[1] = x /\ Head(c) = c[1]
  BY <1>1, <1>2, <1>3
<1>5. /\ Tail(c) \in Seq(S) /\ Len(Tail(c)) = Len(t)
      /\ \A i \in 1 .. Len(t) : Tail(c)[i] = c[i + 1]
  BY <1>1, <1>2, <1>3, <1>4, HeadTailProperties
<1>6. ASSUME NEW i \in 1 .. Len(t) PROVE Tail(c)[i] = t[i]
  <2>1. i + 1 \in 1 .. Len(t) + 1 /\ (i + 1) - 1 = i /\ ~(i + 1 <= 1)
    BY <1>1
  <2> QED
    BY <1>3, <1>5, <2>1
<1>7. Tail(c) = t
  BY <1>5, <1>6, SeqEqual
<1> QED
  BY <1>0, <1>4, <1>7

\* Accepted writes in the order of queue 0.
LEMMA WriteOrderIs ==
    /\ wpc[0] = "running" => WriteOrder = <<witem[0].req>> \o ReqsOf(queue[0])
    /\ wpc[0] # "running" => WriteOrder = << >> \o ReqsOf(queue[0])
BY DEF WriteOrder, ReqsOf

\* The same after a step.
LEMMA WriteOrderAfter ==
    /\ wpc'[0] = "running" => WriteOrder' = <<witem'[0].req>> \o ReqsOf(queue'[0])
    /\ wpc'[0] # "running" => WriteOrder' = << >> \o ReqsOf(queue'[0])
BY DEF WriteOrder, ReqsOf

\* One request's status changes, the others' stay.
LEMMA StatusMoves ==
    ASSUME NEW r \in Requests, NEW v, StatusOf(r)' = v,
           \A x \in Requests \ {r} : StatusOf(x)' = StatusOf(x)
    PROVE  [x \in Requests |-> StatusOf(x)]' = [[x \in Requests |-> StatusOf(x)] EXCEPT ![r] = v]
<1>1. PICK old, new : old = [x \in Requests |-> StatusOf(x)] /\ new = [x \in Requests |-> StatusOf(x)']
  OBVIOUS
<1>2. \A x \in Requests : new[x] = IF x = r THEN v ELSE old[x]
  BY <1>1
<1>3. new = [old EXCEPT ![r] = v]
  BY <1>1, <1>2
<1> QED
  BY <1>1, <1>3

\* A push accepts the request, behind every write already accepted.
LEMMA PushRefines ==
    ASSUME DInv, DInv', NEW h \in Handlers, enqueue_push(h)
    PROVE  \E r \in Requests : Service!Accept(r)
<1>0. PICK q, it : q = Head(todo[h]) /\ it = ItemOf(h)
  OBVIOUS
<1>1. /\ hpc[h] = "scanning" /\ todo[h] # << >>
      /\ queue' = [queue EXCEPT ![q] = Append(queue[q], it)] /\ wpc' = Wake(q)
      /\ hpc' = [hpc EXCEPT ![h] = IF hreq[h] \in Asyncs THEN "accepted" ELSE "checking"]
      /\ UNCHANGED <<hreq, told, witem, executed, stop>>
  BY <1>0 DEF enqueue_push, pvars
<1>2. q \in Queues /\ (q = 0 <=> hreq[h] \in Writes)
  <2>1. todo[h] \in Seq(Queues)
    BY DEF DInv, DTypeOK
  <2>2. q \in Queues /\ q = todo[h][1] /\ 1 \in 1 .. Len(todo[h])
    BY <1>0, <1>1, <2>1
  <2> QED
    BY <1>1, <2>2 DEF DInv, ScansEligible
<1>3. PICK r : r = hreq[h]
  OBVIOUS
<1>4. /\ r \in Requests /\ r # NoRequest /\ ~InSystem(r) /\ r \notin executed
      /\ told[r] = "none" /\ stop \in {"serving", "draining"}
      /\ \A g \in Handlers : g # h => hreq[g] # r
  BY <1>1, <1>3 DEF DInv, DTypeOK, HandlersServe, HandlerStage
<1>5. it \in Items /\ it.req = r
  BY <1>0, <1>3, <1>4, ItemOfType DEF DInv
<1>6. /\ \A p \in Queues : queue[p] \in Seq(Items) /\ Len(queue[p]) \in Nat
      /\ \A p \in Queues : p # q => queue'[p] = queue[p]
      /\ queue'[q] = Append(queue[q], it)
      /\ \A p \in Queues : wpc'[p] = "running" <=> wpc[p] = "running"
      /\ \A p \in Queues : wpc'[p] = "failed" <=> wpc[p] = "failed"
  <2>1. \A p \in Queues : wpc'[p] = IF p = q /\ wpc[p] = "asleep" THEN "checking" ELSE wpc[p]
    BY <1>1, <1>2, WakeType DEF DInv
  <2> QED
    BY <1>1, <1>2, <2>1, LenProperties DEF DInv, DTypeOK
<1>7. \A x : Queued(x)' <=> Queued(x) \/ x = r
  <2>1. PICK n : n = Len(queue[q]) + 1
    OBVIOUS
  <2>2. /\ Len(queue'[q]) = n /\ queue'[q][n] = it /\ n \in 1 .. n
        /\ \A i \in 1 .. n : i # n => i \in 1 .. Len(queue[q]) /\ queue'[q][i] = queue[q][i]
        /\ \A i \in 1 .. Len(queue[q]) : i \in 1 .. n /\ queue'[q][i] = queue[q][i]
    BY <1>2, <1>5, <1>6, <2>1, AppendProperties
  <2> QED
    BY <1>2, <1>5, <1>6, <2>2 DEF Queued
<1>8. \A x : Running(x)' <=> Running(x)
  BY <1>1, <1>6 DEF Running
<1>9. \A x : (Refused(x)' <=> Refused(x)) /\ (Dropped(x)' <=> Dropped(x))
  <2>1. \A g \in Handlers : hpc'[g] = "refused" <=> hpc[g] = "refused"
    BY <1>1 DEF DInv, DTypeOK
  <2> QED
    BY <1>1, <2>1 DEF Refused, Dropped
<1>10. \A x \in Requests \ {r} : StatusOf(x)' = StatusOf(x)
  BY <1>1, <1>7, <1>8, <1>9, SameStatus
<1>11. StatusOf(r)' = "queued" /\ StatusOf(r) = "new"
  <2>1. Queued(r)'
    BY <1>7
  <2>2. ~Queued(r) /\ ~Running(r)
    BY <1>4, InSystemParts DEF DInv, InSystem
  <2>3. ~Refused(r) /\ ~Dropped(r)
    BY <1>1, <1>4 DEF Refused, Dropped
  <2> HIDE DEF Queued, Running, Refused, Dropped
  <2> QED
    BY <1>4, <2>1, <2>2, <2>3, StatusCases, StatusCasesAfter DEF StatusExclusive
<1>12. WriteOrder' = IF r \in Writes THEN Append(WriteOrder, r) ELSE WriteOrder
  <2>1. CASE r \notin Writes
    <3>1. q # 0 /\ 0 \in Queues
      BY <1>2, <1>3, <2>1, DispatchAssumption DEF Queues
    <3>2. queue'[0] = queue[0] /\ witem' = witem
      BY <1>1, <1>6, <3>1
    <3> HIDE DEF ReqsOf
    <3> QED
      BY <1>6, <2>1, <3>1, <3>2, WriteOrderIs, WriteOrderAfter
  <2>2. CASE r \in Writes
    <3>1. q = 0 /\ 0 \in Queues
      BY <1>2, <1>3, <2>2
    <3>2. PICK pre : pre = IF wpc[0] = "running" THEN <<witem[0].req>> ELSE << >>
      OBVIOUS
    <3>3. pre \in Seq(Requests)
      <4>1. wpc[0] = "running" => witem[0].req \in Requests
        BY <3>1, InSystemParts, ItemTypes, DispatchAssumption
           DEF DInv, DTypeOK, WorkersSound, Items, NoItem, Requests
      <4> QED
        BY <3>2, <4>1, EmptySeq
    <3>4. ReqsOf(queue[0]) \in Seq(Requests)
      BY <1>6, <3>1, ReqsOfType
    <3>5. ReqsOf(queue'[0]) = Append(ReqsOf(queue[0]), r)
      BY <1>5, <1>6, <3>1, ReqsOfAppend
    <3>6. WriteOrder = pre \o ReqsOf(queue[0])
      BY <3>2 DEF WriteOrder, ReqsOf
    <3>7. WriteOrder' = pre \o ReqsOf(queue'[0])
      BY <1>1, <1>6, <3>1, <3>2 DEF WriteOrder, ReqsOf
    <3> HIDE DEF ReqsOf
    <3>8. ASSUME NEW t \in Seq(Requests) PROVE pre \o Append(t, r) = Append(pre \o t, r)
      BY <1>4, <3>3
    <3> QED
      BY <2>2, <3>4, <3>5, <3>6, <3>7, <3>8
  <2> QED
    BY <2>1, <2>2
<1>13. Degraded' = Degraded
  <2>1. Degraded' <=> Degraded
    BY <1>6 DEF Degraded
  <2> QED
    BY <2>1 DEF Degraded
<1>14. [x \in Requests |-> StatusOf(x)]' = [[x \in Requests |-> StatusOf(x)] EXCEPT ![r] = "queued"]
  BY <1>4, <1>10, <1>11, StatusMoves
<1>15. Service!Accept(r)
  BY <1>1, <1>4, <1>11, <1>12, <1>13, <1>14 DEF Service!Accept
<1> QED
  BY <1>4, <1>15

\* The requests waiting in one queue.
QueuedIn(q) == {queue[q][i].req : i \in 1 .. Len(queue[q])}

\* Only finitely many requests wait, and a full queue holds Depth of them.
LEMMA QueuedCount ==
    ASSUME DInv, NEW q \in Queues, NEW S, S = {x \in Requests : StatusOf(x) = "queued"}
    PROVE  /\ IsFiniteSet(S)
           /\ \A T \in SUBSET S : QueuedIn(q) \subseteq T =>
                Len(queue[q]) \in Nat /\ Cardinality(T) \in Nat /\ Len(queue[q]) <= Cardinality(T)
<1>1. \A p \in Queues : Len(queue[p]) \in Nat
  BY LenProperties DEF DInv, DTypeOK
<1>2. ASSUME NEW p \in Queues PROVE IsFiniteSet(QueuedIn(p))
  <2>1. IsFiniteSet(1 .. Len(queue[p]))
    BY <1>1, FS_Interval
  <2>2. PICK s : s = queue[p]
    OBVIOUS
  <2>3. [i \in 1 .. Len(s) |-> s[i].req] \in Surjection(1 .. Len(s), QueuedIn(p))
    BY <2>2, Fun_IsSurj DEF QueuedIn
  <2> QED
    BY <2>1, <2>2, <2>3, FS_Surjection
<1>3. IsFiniteSet(UNION {QueuedIn(p) : p \in Queues})
  <2>1. IsFiniteSet(Queues)
    BY DispatchAssumption, FS_Interval DEF Queues
  <2>2. PICK f : f = [p \in Queues |-> QueuedIn(p)]
    OBVIOUS
  <2>3. f \in Surjection(Queues, {QueuedIn(p) : p \in Queues})
    BY <2>2, Fun_IsSurj
  <2>4. IsFiniteSet({QueuedIn(p) : p \in Queues})
    BY <2>1, <2>3, FS_Surjection
  <2> QED
    BY <1>2, <2>4, FS_UNION
<1>4. S \subseteq UNION {QueuedIn(p) : p \in Queues}
  BY StatusCases DEF StatusExclusive, Queued, QueuedIn
<1>5. IsFiniteSet(S)
  BY <1>3, <1>4, FS_Subset
<1>6. ASSUME NEW T \in SUBSET S, QueuedIn(q) \subseteq T
      PROVE  Cardinality(T) \in Nat /\ Len(queue[q]) <= Cardinality(T)
  <2>1. IsFiniteSet(T)
    BY <1>5, FS_Subset
  <2>2. PICK f : f = [i \in 1 .. Len(queue[q]) |-> queue[q][i].req]
    OBVIOUS
  <2>3. \A i, j \in 1 .. Len(queue[q]) : queue[q][i].req = queue[q][j].req => i = j
    <3>1. \A i \in 1 .. Len(queue[q]) : i \in Places(q) /\ ItemAt(q, i) = queue[q][i]
      BY InSystemParts DEF DInv
    <3>2. \A i \in 1 .. Len(queue[q]) : queue[q][i].req # NoRequest
      <4>1. queue[q] \in Seq(Items)
        BY DEF DInv, DTypeOK
      <4>2. \A it \in Items : it.req # NoRequest
        BY DispatchAssumption DEF Items, Requests
      <4> QED
        BY <4>1, <4>2, ElementOfSeq
    <3> QED
      BY <3>1, <3>2 DEF DInv, OnePlace
  <2>4. f \in Injection(1 .. Len(queue[q]), T)
    <3>1. f \in [1 .. Len(queue[q]) -> T]
      BY <1>6, <2>2 DEF QueuedIn
    <3> QED
      BY <2>2, <2>3, <3>1, Fun_IsInj
  <2>5. Cardinality(1 .. Len(queue[q])) = Len(queue[q])
    BY <1>1, FS_Interval
  <2> QED
    BY <2>1, <2>4, <2>5, FS_Injection, FS_CardinalityType
<1> QED
  BY <1>1, <1>5, <1>6

\* A refusal is said only when a queue the request may use is full.
LEMMA FullRefines ==
    ASSUME Q > 1, DInv, DInv', NEW h \in Handlers, enqueue_full(h)
    PROVE  \E r \in Requests : Service!Refuse(r)
<1>1. /\ hpc[h] = "scanning" /\ todo[h] # << >> /\ Len(queue[Head(todo[h])]) >= Depth
      /\ hpc' = [hpc EXCEPT ![h] = "refused"]
      /\ UNCHANGED <<queue, hreq, told, wpc, witem, executed, stop>>
  BY DEF enqueue_full, qvars, wvars, pvars, DInv, ScansEligible
<1>2. PICK q, r : q = Head(todo[h]) /\ r = hreq[h]
  OBVIOUS
<1>3. q \in Queues /\ (q = 0 <=> r \in Writes)
  <2>1. todo[h] \in Seq(Queues)
    BY DEF DInv, DTypeOK
  <2>2. q \in Queues /\ q = todo[h][1] /\ 1 \in 1 .. Len(todo[h])
    BY <1>1, <1>2, <2>1
  <2> QED
    BY <1>1, <1>2, <2>2 DEF DInv, ScansEligible
<1>4. /\ r \in Requests /\ r # NoRequest /\ ~InSystem(r) /\ r \notin executed
      /\ told[r] = "none" /\ stop \in {"serving", "draining"}
      /\ \A g \in Handlers : g # h => hreq[g] # r
  BY <1>1, <1>2 DEF DInv, DTypeOK, HandlersServe, HandlerStage
<1>5. /\ \A x : (Queued(x)' <=> Queued(x)) /\ (Running(x)' <=> Running(x))
      /\ WriteOrder' = WriteOrder /\ Degraded' = Degraded
  BY <1>1, SameQueues DEF Degraded
<1>6. \A x : Dropped(x)' <=> Dropped(x)
  BY <1>1 DEF Dropped
<1>7. /\ \A x \in Requests \ {r} : Refused(x)' <=> Refused(x)
      /\ Refused(r)' /\ ~Refused(r)
  <2>1. hpc'[h] = "refused" /\ \A g \in Handlers : g # h => hpc'[g] = hpc[g]
    BY <1>1 DEF DInv, DTypeOK
  <2> QED
    BY <1>1, <1>2, <1>4, <2>1 DEF Refused
<1>8. \A x \in Requests \ {r} : StatusOf(x)' = StatusOf(x)
  BY <1>1, <1>5, <1>6, <1>7, SameStatus
<1>9. StatusOf(r)' = "refused" /\ StatusOf(r) = "new"
  <2>1. ~Queued(r) /\ ~Running(r) /\ ~Dropped(r)
    BY <1>4, InSystemParts DEF DInv, InSystem, Dropped
  <2> HIDE DEF Queued, Running, Refused, Dropped
  <2> QED
    BY <1>4, <1>7, <2>1, StatusCases, StatusCasesAfter DEF StatusExclusive
<1>10. [x \in Requests |-> StatusOf(x)]' = [[x \in Requests |-> StatusOf(x)] EXCEPT ![r] = "refused"]
  BY <1>4, <1>8, <1>9, StatusMoves
<1>11. PICK S, T, R : /\ S = {x \in Requests : StatusOf(x) = "queued"}
                      /\ R = (IF r \in Writes THEN Writes ELSE Reads \cup Asyncs)
                      /\ T = {x \in R : StatusOf(x) = "queued"}
  OBVIOUS
<1>12. Cardinality(T) >= Depth
  <2>1. T \subseteq S /\ R \subseteq Requests
    BY <1>11 DEF Requests
  <2>2. QueuedIn(q) \subseteq T
    <3> SUFFICES ASSUME NEW i \in 1 .. Len(queue[q]) PROVE queue[q][i].req \in T
      BY DEF QueuedIn
    <3>1. i \in Places(q) /\ i # 0 /\ ItemAt(q, i) = queue[q][i]
      BY <1>3, InSystemParts DEF DInv
    <3>2. queue[q][i].req \in Requests /\ queue[q][i].req # NoRequest
      BY <1>3, <3>1, ItemTypes DEF DInv, Items
    <3>3. queue[q][i].req \in R
      <4>1. q = 0 <=> queue[q][i].req \in Writes
        BY <1>3, <3>1, <3>2 DEF DInv, ItemsSound
      <4> QED
        BY <1>3, <1>11, <3>2, <4>1 DEF Requests
    <3>4. Queued(queue[q][i].req)
      BY <1>3 DEF Queued
    <3>5. StatusOf(queue[q][i].req) = "queued"
      BY <3>2, <3>4, StatusCases DEF StatusExclusive
    <3> QED
      BY <1>11, <3>3, <3>5
  <2>3. Len(queue[q]) \in Nat /\ Cardinality(T) \in Nat /\ Len(queue[q]) <= Cardinality(T)
    BY <1>3, <1>11, <2>1, <2>2, QueuedCount
  <2> QED
    BY <1>1, <1>2, <2>3, DispatchAssumption
<1>13. T = {x \in Service!Rivals(r) : [y \in Requests |-> StatusOf(y)][x] = "queued"}
  BY <1>11 DEF Service!Rivals, Requests
<1>14. Service!Refuse(r)
  <2>0. \A X : Service!Cardinality(X) = Cardinality(X)
    BY DEF Service!Cardinality, Cardinality
  <2>1. Service!Cardinality({x \in Service!Rivals(r) : [y \in Requests |-> StatusOf(y)][x] = "queued"})
          >= Depth
    BY <1>12, <1>13, <2>0
  <2>2. told' = told
    BY <1>1
  <2>3. [y \in Requests |-> StatusOf(y)][r] = "new"
    BY <1>4, <1>9
  <2> QED
    BY <1>5, <1>10, <2>1, <2>2, <2>3 DEF Service!Refuse
<1> QED
  BY <1>4, <1>14

\* The response tells the client what became of its request.
LEMMA RespondRefines ==
    ASSUME DInv, DInv', NEW h \in Handlers, respond(h)
    PROVE  \E r \in Requests : Service!Tell(r)
<1>1. PICK r, v : /\ r = hreq[h]
                  /\ v = CASE hpc[h] = "refused"   -> "busy"
                           [] hpc[h] = "accepted"  -> "accepted"
                           [] hpc[h] = "completed" ->
                                IF comp[h].resp = hreq[h] THEN "result" ELSE "foreign"
  OBVIOUS
<1>2. /\ hpc[h] \in {"completed", "refused", "accepted"}
      /\ told' = [told EXCEPT ![r] = v]
      /\ hpc' = [hpc EXCEPT ![h] = "idle"] /\ hreq' = [hreq EXCEPT ![h] = NoRequest]
      /\ UNCHANGED <<queue, wpc, witem, executed, stop>>
  BY <1>1 DEF respond, qvars, wvars, pvars
<1>3. /\ r \in Requests /\ r # NoRequest /\ told[r] = "none" /\ stop \in {"serving", "draining"}
      /\ \A g \in Handlers : g # h => hreq[g] # r
  BY <1>1, <1>2 DEF DInv, DTypeOK, HandlersServe
<1>4. /\ hpc[h] = "refused"   => v = "busy"
      /\ hpc[h] = "accepted"  => v = "accepted" /\ r \in Asyncs /\ (InSystem(r) \/ r \in executed)
      /\ hpc[h] = "completed" => v = "result" /\ r \notin Asyncs /\ r \in executed
  BY <1>1, <1>2 DEF DInv, HandlerStage
<1>5. /\ \A x : (Queued(x)' <=> Queued(x)) /\ (Running(x)' <=> Running(x))
      /\ WriteOrder' = WriteOrder /\ Degraded' = Degraded
  BY <1>2, SameQueues DEF Degraded
<1>6. /\ \A x \in Requests : x # r => told'[x] = told[x]
      /\ told'[r] = v /\ hpc'[h] = "idle" /\ hreq'[h] = NoRequest
      /\ \A g \in Handlers : g # h => hpc'[g] = hpc[g] /\ hreq'[g] = hreq[g]
  BY <1>2, <1>3 DEF DInv, DTypeOK
<1>7. \A x \in Requests : Refused(x)' <=> Refused(x)
  <2>1. ASSUME NEW x \in Requests, x # r PROVE Refused(x)' <=> Refused(x)
    BY <1>1, <1>6, <2>1 DEF Refused
  <2>2. Refused(r)' <=> Refused(r)
    BY <1>1, <1>2, <1>3, <1>4, <1>6 DEF Refused
  <2> QED
    BY <2>1, <2>2
<1>8. \A x \in Requests : Dropped(x)' <=> Dropped(x)
  BY <1>2, <1>3 DEF Dropped
<1>9. \A x \in Requests : StatusOf(x)' = StatusOf(x)
  BY <1>2, <1>5, <1>7, <1>8, SameStatus
<1>10. [x \in Requests |-> StatusOf(x)]' = [x \in Requests |-> StatusOf(x)]
  BY <1>9
<1>11. /\ v = "busy" => StatusOf(r) = "refused"
       /\ v = "result" => StatusOf(r) = "done" /\ r \notin Asyncs
       /\ v = "accepted" => StatusOf(r) \in {"queued", "running", "done"} /\ r \in Asyncs
  <2>1. hpc[h] = "refused" => Refused(r)
    BY <1>1 DEF Refused
  <2>2. InSystem(r) => Queued(r) \/ Running(r) \/ r \in executed
    <3> SUFFICES ASSUME InSystem(r) PROVE Queued(r) \/ Running(r) \/ r \in executed
      OBVIOUS
    <3>1. PICK q \in Queues : \E i \in Places(q) : ItemAt(q, i).req = r
      BY DEF InSystem
    <3>2. PICK i \in Places(q) : ItemAt(q, i).req = r
      BY <3>1
    <3>3. CASE i # 0
      BY <3>2, <3>3, InSystemParts DEF DInv
    <3>4. CASE i = 0
      <4>1. ItemAt(q, 0) = witem[q] /\ witem[q] # NoItem
        BY <1>3, <3>2, <3>4, InSystemParts DEF DInv, NoItem
      <4>2. wpc[q] \in {"running", "completing"}
        BY <4>1 DEF DInv, WorkersSound
      <4>3. wpc[q] = "completing" => r \in executed
        BY <1>3, <3>2, <3>4 DEF DInv, ItemsSound
      <4> QED
        BY <3>2, <3>4, <4>1, <4>2, <4>3 DEF Running
    <3> QED
      BY <3>3, <3>4
  <2> HIDE DEF Queued, Running, Refused
  <2> QED
    BY <1>2, <1>3, <1>4, <2>1, <2>2, StatusCases DEF StatusExclusive
<1>12. Service!Tell(r)
  <2>1. PICK st : st = [x \in Requests |-> StatusOf(x)]
    OBVIOUS
  <2>2. st[r] = StatusOf(r)
    BY <1>3, <2>1
  <2>3. \/ [x \in Requests |-> StatusOf(x)][r] = "refused" /\ told' = [told EXCEPT ![r] = "busy"]
        \/ /\ [x \in Requests |-> StatusOf(x)][r] = "done" /\ r \notin Asyncs
           /\ told' = [told EXCEPT ![r] = "result"]
        \/ /\ [x \in Requests |-> StatusOf(x)][r] \in {"queued", "running", "done"} /\ r \in Asyncs
           /\ told' = [told EXCEPT ![r] = "accepted"]
    BY <1>2, <1>4, <1>11, <2>1, <2>2
  <2> QED
    BY <1>3, <1>5, <1>10, <2>3 DEF Service!Tell
<1> QED
  BY <1>3, <1>12

\* A request the handler turns down is refused and answered in one step.
LEMMA RejectRefines ==
    ASSUME DInv, DInv', NEW h \in Handlers, NEW r \in Requests, reject_request(h, r)
    PROVE  Service!Reject(r)
<1>1. /\ r \in Unsent /\ told' = [told EXCEPT ![r] = "error"]
      /\ UNCHANGED <<queue, hpc, hreq, wpc, witem, executed, stop>>
  BY DEF reject_request, qvars, wvars, pvars
<1>2. /\ told[r] = "none" /\ r \notin executed /\ \A g \in Handlers : hreq[g] # r
      /\ \A q \in Queues : \A i \in Places(q) : ItemAt(q, i).req # r
  BY <1>1, UnsentUnknown
<1>3. told'[r] = "error" /\ \A x \in Requests : x # r => told'[x] = told[x]
  BY <1>1 DEF DInv, DTypeOK
<1>4. /\ \A x : (Queued(x)' <=> Queued(x)) /\ (Running(x)' <=> Running(x))
      /\ WriteOrder' = WriteOrder /\ Degraded' = Degraded
  BY <1>1, SameQueues DEF Degraded
<1>5. ~Queued(r) /\ ~Running(r) /\ ~Refused(r) /\ ~Dropped(r)
  <2>1. ~Queued(r) /\ ~Running(r)
    BY <1>2, InSystemParts DEF DInv
  <2>2. ~Refused(r) /\ ~Dropped(r)
    BY <1>2 DEF Refused, Dropped
  <2> QED
    BY <2>1, <2>2
<1>6. Refused(r)'
  BY <1>3 DEF Refused
<1>7. ASSUME NEW x \in Requests, x # r PROVE StatusOf(x)' = StatusOf(x)
  <2>1. (Refused(x)' <=> Refused(x)) /\ (Dropped(x)' <=> Dropped(x))
    BY <1>1, <1>3, <1>7 DEF Refused, Dropped
  <2> QED
    BY <1>1, <1>4, <2>1, SameStatus
<1>8. StatusOf(r) = "new"
  <2> HIDE DEF Queued, Running, Refused, Dropped
  <2> QED
    BY <1>2, <1>5, StatusCases DEF StatusExclusive
<1>9. StatusOf(r)' = "refused"
  BY <1>6, StatusCasesAfter DEF StatusExclusive
<1>10. [x \in Requests |-> StatusOf(x)]' = [[x \in Requests |-> StatusOf(x)] EXCEPT ![r] = "refused"]
  BY <1>7, <1>9
<1>11. [x \in Requests |-> StatusOf(x)][r] = "new"
  BY <1>8
<1> QED
  BY <1>1, <1>2, <1>4, <1>10, <1>11 DEF Service!Reject

\* The worker's next request begins; for the writer, the oldest accepted write.
LEMMA PopRefines ==
    ASSUME DInv, DInv', NEW q \in Queues, dequeue_pop(q)
    PROVE  \E r \in Requests : Service!Begin(r)
<1>1. /\ wpc[q] = "checking" /\ queue[q] # << >> /\ wpc' = [wpc EXCEPT ![q] = "running"]
      /\ queue' = [queue EXCEPT ![q] = Tail(queue[q])]
      /\ witem' = [witem EXCEPT ![q] = Head(queue[q])]
      /\ UNCHANGED <<hpc, hreq, executed, told, stop>>
  BY DEF dequeue_pop, hvars, pvars
<1>2. PICK r, s : r = Head(queue[q]).req /\ s = queue[q]
  OBVIOUS
<1>3. /\ s \in Seq(Items) /\ s # << >> /\ Len(s) \in Nat \ {0}
      /\ Head(s) \in Items /\ Head(s) = s[1] /\ r \in Requests /\ r # NoRequest
      /\ Len(Tail(s)) = Len(s) - 1 /\ \A i \in 1 .. Len(s) - 1 : Tail(s)[i] = s[i + 1]
  <2>1. s \in Seq(Items) /\ s # << >>
    BY <1>1, <1>2 DEF DInv, DTypeOK
  <2>2. Head(s) = s[1]
    BY <2>1
  <2>3. Head(s) \in Items
    BY <2>1, HeadTailProperties
  <2>4. r \in Requests /\ r # NoRequest
    BY <1>2, <2>3, DispatchAssumption DEF Items, Requests
  <2> QED
    BY <2>1, <2>2, <2>3, <2>4, HeadTailProperties, EmptySeq
<1>4. /\ queue'[q] = Tail(s) /\ witem'[q] = Head(s) /\ wpc'[q] = "running"
      /\ \A p \in Queues : p # q => queue'[p] = queue[p] /\ witem'[p] = witem[p] /\ wpc'[p] = wpc[p]
  BY <1>1, <1>2 DEF DInv, DTypeOK
<1>5. Queued(r) /\ Running(r)'
  BY <1>2, <1>3, <1>4 DEF Queued, Running
<1>6. \A x : x # r => (Queued(x)' <=> Queued(x))
  <2>1. ASSUME NEW x, x # r, NEW i \in 1 .. Len(s), s[i].req = x
        PROVE  i - 1 \in 1 .. Len(Tail(s)) /\ Tail(s)[i - 1].req = x
    <3>1. i # 1
      BY <1>2, <1>3, <2>1
    <3>2. i - 1 \in 1 .. Len(s) - 1 /\ (i - 1) + 1 = i
      BY <1>3, <3>1
    <3> QED
      BY <1>3, <2>1, <3>2
  <2>2. ASSUME NEW x, NEW i \in 1 .. Len(Tail(s)), Tail(s)[i].req = x
        PROVE  i + 1 \in 1 .. Len(s) /\ s[i + 1].req = x
    BY <1>3, <2>2
  <2>3. ASSUME NEW x, x # r, Queued(x)' PROVE Queued(x)
    <3>1. PICK p \in Queues : \E i \in 1 .. Len(queue'[p]) : queue'[p][i].req = x
      BY <2>3 DEF Queued
    <3>2. ASSUME p = q PROVE \E i \in 1 .. Len(queue[q]) : queue[q][i].req = x
      <4>1. PICK i \in 1 .. Len(Tail(s)) : Tail(s)[i].req = x
        BY <1>4, <3>1, <3>2
      <4>2. i + 1 \in 1 .. Len(s) /\ s[i + 1].req = x
        BY <2>2, <4>1
      <4> QED
        BY <1>2, <4>2
    <3> QED
      BY <1>4, <3>1, <3>2 DEF Queued
  <2>4. ASSUME NEW x, x # r, Queued(x) PROVE Queued(x)'
    <3>1. PICK p \in Queues : \E i \in 1 .. Len(queue[p]) : queue[p][i].req = x
      BY <2>4 DEF Queued
    <3>2. p = q => \E i \in 1 .. Len(queue'[q]) : queue'[q][i].req = x
      BY <1>2, <1>4, <2>1, <2>4, <3>1
    <3> QED
      BY <1>4, <3>1, <3>2 DEF Queued
  <2> QED
    BY <2>3, <2>4
<1>7. \A x : x # r => (Running(x)' <=> Running(x))
  BY <1>1, <1>2, <1>4 DEF Running
<1>8. \A x : (Refused(x)' <=> Refused(x)) /\ (Dropped(x)' <=> Dropped(x))
  BY <1>1 DEF Refused, Dropped
<1>9. \A x \in Requests \ {r} : StatusOf(x)' = StatusOf(x)
  BY <1>1, <1>6, <1>7, <1>8, SameStatus
<1>10. StatusOf(r)' = "running" /\ StatusOf(r) = "queued"
  BY <1>3, <1>5, StatusCases, StatusCasesAfter DEF StatusExclusive
<1>11. [x \in Requests |-> StatusOf(x)]' = [[x \in Requests |-> StatusOf(x)] EXCEPT ![r] = "running"]
  BY <1>3, <1>9, <1>10, StatusMoves
<1>12. WriteOrder' = WriteOrder /\ (r \in Writes => r = Head(WriteOrder))
  <2>1. q = 0 <=> r \in Writes
    <3>1. 1 \in Places(q) /\ ItemAt(q, 1) = s[1]
      BY <1>2, <1>3, InSystemParts DEF DInv
    <3> QED
      BY <1>2, <1>3, <3>1 DEF DInv, ItemsSound
  <2>2. CASE q # 0
    <3>1. 0 \in Queues
      BY DispatchAssumption DEF Queues
    <3>2. queue'[0] = queue[0] /\ witem'[0] = witem[0] /\ wpc'[0] = wpc[0]
      BY <1>4, <2>2, <3>1
    <3> QED
      BY <2>1, <2>2, <3>2 DEF WriteOrder
  <2>3. CASE q = 0
    <3>1. ReqsOf(s) = <<r>> \o ReqsOf(Tail(s)) /\ ReqsOf(Tail(s)) \in Seq(Requests)
      BY <1>2, <1>3, ReqsOfSplit
    <3>2. ReqsOf(s) \in Seq(Requests)
      BY <1>3, ReqsOfType
    <3>3. WriteOrder = << >> \o ReqsOf(s) /\ WriteOrder' = <<r>> \o ReqsOf(Tail(s))
      BY <1>1, <1>2, <1>4, <2>3, WriteOrderIs, WriteOrderAfter
    <3> HIDE DEF ReqsOf
    <3>4. WriteOrder = ReqsOf(s)
      BY <3>2, <3>3, ConcatEmptySeq
    <3>5. Head(WriteOrder) = r
      BY <1>3, <3>1, <3>4, ConsFacts
    <3> QED
      BY <3>1, <3>3, <3>4, <3>5
  <2> QED
    BY <2>2, <2>3
<1>13. Degraded' = Degraded
  <2>1. Degraded' <=> Degraded
    BY <1>1, <1>4 DEF Degraded
  <2> QED
    BY <2>1 DEF Degraded
<1>14. Service!Begin(r)
  <2>1. told' = told /\ [x \in Requests |-> StatusOf(x)][r] = "queued"
    BY <1>1, <1>3, <1>10
  <2> QED
    BY <1>11, <1>12, <1>13, <2>1 DEF Service!Begin
<1> QED
  BY <1>3, <1>14

\* A request has been executed; a finished write leaves the order's front.
LEMMA ProcessRefines ==
    ASSUME DInv, DInv', NEW q \in Queues, process(q)
    PROVE  \E r \in Requests : Service!End(r)
<1>1. PICK r : r = witem[q].req
  OBVIOUS
<1>2. /\ wpc[q] = "running" /\ executed' = executed \cup {r}
      /\ wpc' = [wpc EXCEPT ![q] = "completing"]
      /\ UNCHANGED <<queue, witem, hpc, hreq, told, stop>>
  BY <1>1 DEF process, qvars, hvars, pvars
<1>3. r \in Requests /\ r # NoRequest
  <2>1. witem[q] \in Items
    BY <1>2 DEF DInv, DTypeOK, WorkersSound
  <2> QED
    BY <1>1, <2>1, DispatchAssumption DEF Items, Requests
<1>4. wpc'[q] = "completing" /\ \A p \in Queues : p # q => wpc'[p] = wpc[p]
  BY <1>2 DEF DInv, DTypeOK
<1>5. \A x : Queued(x)' <=> Queued(x)
  BY <1>2 DEF Queued
<1>6. \A x : x # r => (Running(x)' <=> Running(x))
  BY <1>1, <1>2, <1>4 DEF Running
<1>7. Running(r)
  BY <1>1, <1>2 DEF Running
<1>8. \A x : x # r => (Refused(x)' <=> Refused(x)) /\ (Dropped(x)' <=> Dropped(x))
  BY <1>2 DEF Refused, Dropped
<1>9. \A x \in Requests \ {r} : StatusOf(x)' = StatusOf(x)
  BY <1>2, <1>5, <1>6, <1>8, SameStatus
<1>10. StatusOf(r)' = "done" /\ StatusOf(r) = "running"
  BY <1>2, <1>3, <1>7, StatusCases, StatusCasesAfter DEF StatusExclusive
<1>11. [x \in Requests |-> StatusOf(x)]' = [[x \in Requests |-> StatusOf(x)] EXCEPT ![r] = "done"]
  BY <1>3, <1>9, <1>10, StatusMoves
<1>12. WriteOrder' = IF r \in Writes THEN Tail(WriteOrder) ELSE WriteOrder
  <2>1. q = 0 <=> r \in Writes
    <3>1. 0 \in Places(q) /\ ItemAt(q, 0) = witem[q]
      BY InSystemParts DEF DInv
    <3> QED
      BY <1>1, <1>3, <3>1 DEF DInv, ItemsSound
  <2>2. CASE q # 0
    <3>1. 0 \in Queues
      BY DispatchAssumption DEF Queues
    <3>2. queue' = queue /\ witem' = witem /\ wpc'[0] = wpc[0]
      BY <1>2, <1>4, <2>2, <3>1
    <3> QED
      BY <2>1, <2>2, <3>2 DEF WriteOrder
  <2>3. CASE q = 0
    <3>1. ReqsOf(queue[0]) \in Seq(Requests)
      BY <2>3, ReqsOfType DEF DInv, DTypeOK
    <3>2. WriteOrder = <<r>> \o ReqsOf(queue[0]) /\ WriteOrder' = << >> \o ReqsOf(queue[0])
      BY <1>1, <1>2, <1>4, <2>3, WriteOrderIs, WriteOrderAfter
    <3> HIDE DEF ReqsOf
    <3>3. Tail(WriteOrder) = ReqsOf(queue[0])
      BY <1>3, <3>1, <3>2, ConsFacts
    <3>4. WriteOrder' = ReqsOf(queue[0])
      BY <3>1, <3>2, ConcatEmptySeq
    <3> QED
      BY <2>1, <2>3, <3>3, <3>4
  <2> QED
    BY <2>2, <2>3
<1>13. Degraded' = Degraded
  <2>1. Degraded' <=> Degraded
    BY <1>2, <1>4 DEF Degraded
  <2> QED
    BY <2>1 DEF Degraded
<1>14. Service!End(r)
  <2>1. told' = told /\ [x \in Requests |-> StatusOf(x)][r] = "running"
    BY <1>2, <1>3, <1>10
  <2> QED
    BY <1>11, <1>12, <1>13, <2>1 DEF Service!End
<1> QED
  BY <1>3, <1>14

\* Destroying the queues is invisible unless a worker never ran; then it
\* drops asynchronous requests that were acknowledged, and nothing else.
LEMMA DestroyRefines ==
    ASSUME DInv, DInv', join_and_destroy
    PROVE  [Service!SNext]_(Service!svars)
<1>1. /\ stop = "signalling" /\ stop' = "destroyed" /\ queue' = [q \in Queues |-> << >>]
      /\ \A q \in Queues : wpc[q] \in {"exited", "failed"}
      /\ UNCHANGED <<hpc, hreq, wpc, witem, executed, told>>
  BY DEF join_and_destroy, hvars, wvars
<1>2. /\ \A h \in Handlers : hpc[h] = "idle"
      /\ \A q \in Queues : witem[q] = NoItem /\ queue'[q] = << >> /\ wpc[q] # "running"
  BY <1>1 DEF DInv, HandlersServe, WorkersSound
<1>3. \A x : ~Running(x) /\ ~Running(x)'
  BY <1>1, <1>2 DEF Running
<1>4. \A x : ~Queued(x)'
  BY <1>2 DEF Queued
<1>5. \A x : Refused(x)' <=> Refused(x)
  BY <1>1 DEF Refused
<1>6. ASSUME NEW x \in Requests
      PROVE  Dropped(x)' <=> Queued(x)
  <2>1. x # NoRequest
    BY DispatchAssumption DEF Requests
  <2>2. ASSUME Queued(x) PROVE told[x] = "accepted" /\ x \notin executed
    <3>1. PICK q \in Queues : \E i \in Places(q) : i # 0 /\ ItemAt(q, i).req = x
      BY <2>2, InSystemParts DEF DInv
    <3>2. PICK i \in Places(q) : i # 0 /\ ItemAt(q, i).req = x
      BY <3>1
    <3>3. ItemAt(q, i).comp # NoHandler => ItemAt(q, i).comp \in Handlers
      BY ItemTypes DEF DInv
    <3> QED
      BY <1>2, <2>1, <3>2, <3>3 DEF DInv, ItemsSound
  <2>3. ASSUME told[x] = "accepted", x \notin executed PROVE Queued(x)
    <3>1. InSystem(x)
      BY <1>1, <2>3 DEF DInv, ClientsSound
    <3>2. PICK q \in Queues : \E i \in Places(q) : ItemAt(q, i).req = x
      BY <3>1 DEF InSystem
    <3>3. PICK i \in Places(q) : ItemAt(q, i).req = x
      BY <3>2
    <3>4. i # 0
      BY <1>2, <2>1, <3>3, InSystemParts DEF DInv, NoItem
    <3> QED
      BY <3>3, <3>4, InSystemParts DEF DInv
  <2> QED
    BY <1>1, <2>2, <2>3 DEF Dropped
<1>7. \A x : ~Dropped(x)
  BY <1>1 DEF Dropped
<1>8. ASSUME NEW x \in Requests
      PROVE  StatusOf(x)' = IF StatusOf(x) = "queued" THEN "dropped" ELSE StatusOf(x)
  <2>1. CASE Queued(x)
    <3>1. Dropped(x)'
      BY <1>6, <2>1
    <3> QED
      BY <2>1, <3>1, StatusCases, StatusCasesAfter DEF StatusExclusive
  <2>2. CASE ~Queued(x)
    <3>1. ~Dropped(x)' /\ ~Queued(x)' /\ ~Running(x)' /\ ~Running(x) /\ ~Dropped(x)
      BY <1>3, <1>4, <1>6, <1>7, <2>2
    <3>2. StatusOf(x)' = StatusOf(x)
      BY <1>1, <1>5, <2>2, <3>1, SameStatus
    <3>3. StatusOf(x) # "queued"
      BY <2>2, StatusCases DEF StatusExclusive
    <3> QED
      BY <3>2, <3>3
  <2> QED
    BY <2>1, <2>2
<1>9. WriteOrder' = << >>
  <2>1. 0 \in Queues
    BY DispatchAssumption DEF Queues
  <2>2. queue'[0] = << >> /\ wpc'[0] # "running"
    BY <1>1, <1>2, <2>1
  <2>3. ReqsOf(<< >>) = << >>
    BY DEF ReqsOf
  <2>4. WriteOrder' = << >> \o << >>
    BY <2>2, <2>3, WriteOrderAfter
  <2> QED
    BY <2>4, EmptySeq, ConcatEmptySeq
<1>10. Degraded' = Degraded /\ told' = told
  BY <1>1 DEF Degraded
<1>11. [x \in Requests |-> StatusOf(x)]'
         = [x \in Requests |-> IF [y \in Requests |-> StatusOf(y)][x] = "queued" THEN "dropped"
                                 ELSE [y \in Requests |-> StatusOf(y)][x]]
  BY <1>8
<1>12. CASE Degraded
  <2>1. Service!Requests = Requests
    BY DEF Service!Requests, Requests
  <2>2. Service!Close
    BY <1>9, <1>10, <1>11, <1>12, <2>1 DEF Service!Close
  <2> QED
    BY <2>2 DEF Service!SNext
<1>13. CASE ~Degraded
  <2>1. \A q \in Queues : queue[q] = << >>
    BY <1>1, <1>13 DEF Degraded, DInv, WorkersSound
  <2>2. queue' = queue
    BY <1>1, <2>1 DEF DInv, DTypeOK
  <2>3. WriteOrder' = WriteOrder
    BY <1>1, <2>2, SameQueues
  <2>4. \A x : ~Queued(x)
    BY <2>1 DEF Queued
  <2>5. \A x \in Requests : StatusOf(x)' = StatusOf(x)
    BY <1>8, <2>4, StatusCases DEF StatusExclusive
  <2>6. [x \in Requests |-> StatusOf(x)]' = [x \in Requests |-> StatusOf(x)]
    BY <2>5
  <2>7. UNCHANGED Service!svars
    BY <1>10, <2>3, <2>6 DEF Service!svars
  <2> QED
    BY <2>7
<1> QED
  BY <1>12, <1>13

\* The listener starts as a service that has heard of no request.
LEMMA InitRefines == DInit => Service!SInit
<1> SUFFICES ASSUME DInit PROVE Service!SInit
  OBVIOUS
<1>1. DInv
  BY DInitOK
<1>2. \A r \in Requests : ~Queued(r) /\ ~Running(r) /\ ~Refused(r) /\ ~Dropped(r) /\ r \notin executed
  BY DEF DInit, Queued, Running, Refused, Dropped
<1>3. \A r \in Requests : StatusOf(r) = "new"
  BY <1>1, <1>2, StatusCases DEF StatusExclusive
<1>4. WriteOrder = << >>
  <2>1. 0 \in Queues
    BY DispatchAssumption DEF Queues
  <2>2. queue[0] = << >> /\ wpc[0] # "running"
    BY <2>1 DEF DInit
  <2>3. ReqsOf(<< >>) = << >>
    BY DEF ReqsOf
  <2>4. WriteOrder = << >> \o << >>
    BY <2>2, <2>3, WriteOrderIs
  <2> QED
    BY <2>4, EmptySeq, ConcatEmptySeq
<1>5. Degraded = FALSE
  BY DEF DInit, Degraded
<1>6. Service!Requests = Requests
  BY DEF Service!Requests, Requests
<1>7. [r \in Requests |-> StatusOf(r)] = [r \in Requests |-> "new"]
  BY <1>3
<1>8. told = [r \in Requests |-> "none"]
  BY DEF DInit
<1> QED
  BY <1>4, <1>5, <1>6, <1>7, <1>8 DEF Service!SInit

\* Every step of the dispatcher is one of the service, or shows nothing.
LEMMA NextRefines ==
    ASSUME Q > 1, DInv, DInv', [DNext]_dvars
    PROVE  [Service!SNext]_(Service!svars)
<1>0. Service!Requests = Requests
  BY DEF Service!Requests, Requests
<1>1. ASSUME NEW h \in Handlers, HandlerStep(h) PROVE [Service!SNext]_(Service!svars)
  <2>1. CASE enqueue_push(h)
    BY <1>0, <2>1, PushRefines DEF Service!SNext
  <2>2. CASE enqueue_full(h)
    BY <1>0, <2>2, FullRefines DEF Service!SNext
  <2>3. CASE respond(h)
    BY <1>0, <2>3, RespondRefines DEF Service!SNext
  <2>4. CASE enqueue_begin(h) \/ enqueue_overflow(h) \/ await_completion(h)
    <3>1. hreq[h] \in Requests
      BY <2>4 DEF enqueue_begin, enqueue_overflow, await_completion, DInv, DTypeOK, HandlersServe
    <3> QED
      BY <2>4, <3>1, HandlerQuiet
  <2> QED
    BY <1>1, <2>1, <2>2, <2>3, <2>4 DEF HandlerStep
<1>2. ASSUME NEW h \in Handlers, NEW r \in Requests, handle_request(h, r)
      PROVE  [Service!SNext]_(Service!svars)
  BY <1>2, HandlerQuiet
<1>3. ASSUME NEW q \in Queues, WorkerStep(q) PROVE [Service!SNext]_(Service!svars)
  <2>1. CASE dequeue_pop(q)
    BY <1>0, <2>1, PopRefines DEF Service!SNext
  <2>2. CASE process(q)
    BY <1>0, <2>2, ProcessRefines DEF Service!SNext
  <2>3. CASE worker_start(q)
    BY <2>3, StartRefines
  <2>4. CASE dequeue_empty(q) \/ complete(q)
    BY <2>4, WorkerQuiet
  <2> QED
    BY <1>3, <2>1, <2>2, <2>3, <2>4 DEF WorkerStep
<1>4. CASE join_and_destroy
  BY <1>4, DestroyRefines
<1>5. CASE spurious_wakeups \/ stop_begin \/ mhd_stopped \/ shutdown_queue \/ Destroyed \/ UNCHANGED dvars
  BY <1>5, OtherQuiet DEF Destroyed
<1>6. ASSUME NEW h \in Handlers, NEW r \in Requests, reject_request(h, r)
      PROVE  [Service!SNext]_(Service!svars)
  BY <1>0, <1>6, RejectRefines DEF Service!SNext
<1> QED
  BY <1>1, <1>2, <1>3, <1>4, <1>5, <1>6 DEF DNext, StopStep

\* The safety half of ImplementsService: with a queue for reads
\* (queue_count > 1) every behaviour of the threads, queues and completion
\* objects is one of the abstract service.  Accepted requests are executed
\* once and in order, answers are the requests' own, QUEUE_FULL is said only
\* at capacity, what a handler turns down is never executed, and nothing
\* accepted is dropped unless a worker never ran.
THEOREM DispatchIsService ==
    ASSUME Q > 1
    PROVE  DSpec => Service!SInit /\ [][Service!SNext]_(Service!svars)
<1>1. DInit => Service!SInit
  BY InitRefines
<1>2. DInv /\ DInv' /\ [DNext]_dvars => [Service!SNext]_(Service!svars)
  BY NextRefines
<1> QED
  BY <1>1, <1>2, DispatchInvariant, PTL DEF DSpec
=============================================================================
