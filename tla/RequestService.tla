--------------------------- MODULE RequestService ---------------------------
(***************************************************************************)
(* What the HTTP consumer promises its clients, without threads or queues: *)
(* a request is either refused, because the service is at capacity or the  *)
(* request cannot be taken on, or it is executed exactly once and then     *)
(* answered; writes are executed one at a time in the order they were      *)
(* accepted; an asynchronous request is only acknowledged.  A service part *)
(* of which has no database session may keep requests waiting, and drop    *)
(* them when it closes; nothing else. HttpDispatch is shown to implement   *)
(* this.                                                                   *)
(***************************************************************************)
EXTENDS Integers, Sequences, FiniteSets

CONSTANTS
    Writes,     \* requests that http_request_is_write() recognises
    Reads,      \* the other requests that wait for their result
    Asyncs,     \* execute_async requests
    Depth       \* capacity of one queue

Requests == Writes \cup Reads \cup Asyncs

VARIABLES
    status,     \* how far each request has got
    order,      \* accepted writes whose execution has not ended, oldest first
    reply,      \* what the client was told
    degraded    \* some part of the service has no database session

svars == <<status, order, reply, degraded>>

SInit ==
    /\ status = [r \in Requests |-> "new"]
    /\ order = << >>
    /\ reply = [r \in Requests |-> "none"]
    /\ degraded = FALSE

\* The requests that compete with r for the same queues.
Rivals(r) == IF r \in Writes THEN Writes ELSE Reads \cup Asyncs

Accept(r) ==
    /\ status[r] = "new"
    /\ status' = [status EXCEPT ![r] = "queued"]
    /\ order' = IF r \in Writes THEN Append(order, r) ELSE order
    /\ UNCHANGED <<reply, degraded>>

\* Refusing needs at least one full queue among those the request may use.
Refuse(r) ==
    /\ status[r] = "new"
    /\ Cardinality({q \in Rivals(r) : status[q] = "queued"}) >= Depth
    /\ status' = [status EXCEPT ![r] = "refused"]
    /\ UNCHANGED <<order, reply, degraded>>

\* A request that cannot be taken on at all is answered on the spot.
Reject(r) ==
    /\ status[r] = "new" /\ reply[r] = "none"
    /\ status' = [status EXCEPT ![r] = "refused"]
    /\ reply' = [reply EXCEPT ![r] = "error"]
    /\ UNCHANGED <<order, degraded>>

Begin(r) ==
    /\ status[r] = "queued"
    /\ r \in Writes => r = Head(order)
    /\ status' = [status EXCEPT ![r] = "running"]
    /\ UNCHANGED <<order, reply, degraded>>

End(r) ==
    /\ status[r] = "running"
    /\ status' = [status EXCEPT ![r] = "done"]
    /\ order' = IF r \in Writes THEN Tail(order) ELSE order
    /\ UNCHANGED <<reply, degraded>>

\* The client learns the outcome, or that its request was accepted.
Tell(r) ==
    /\ reply[r] = "none"
    /\ \/ status[r] = "refused" /\ reply' = [reply EXCEPT ![r] = "busy"]
       \/ status[r] = "done" /\ r \notin Asyncs /\ reply' = [reply EXCEPT ![r] = "result"]
       \/ status[r] \in {"queued", "running", "done"} /\ r \in Asyncs
          /\ reply' = [reply EXCEPT ![r] = "accepted"]
    /\ UNCHANGED <<status, order, degraded>>

Degrade == degraded' = TRUE /\ UNCHANGED <<status, order, reply>>

\* A degraded service ends; what still waits is dropped.
Close ==
    /\ degraded
    /\ status' = [r \in Requests |-> IF status[r] = "queued" THEN "dropped" ELSE status[r]]
    /\ order' = << >>
    /\ UNCHANGED <<reply, degraded>>

SNext ==
    \/ \E r \in Requests : 
         Accept(r) \/ Refuse(r) \/ Reject(r) \/ Begin(r) \/ End(r) \/ Tell(r)
    \/ Degrade \/ Close

\* Whatever was accepted or refused is seen through to the end; only a
\* degraded service may leave a request waiting.
SFairness ==
    \A r \in Requests :
      WF_svars(~degraded /\ Begin(r)) /\ WF_svars(End(r)) /\ WF_svars(Tell(r))

SSpec == SInit /\ [][SNext]_svars /\ SFairness
=============================================================================
