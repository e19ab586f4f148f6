--------------------------- MODULE WritePathProofs ---------------------------
(***************************************************************************)
(* Proofs about WritePath, for any number of workers, requests and         *)
(* operations and any mixture of failures: a transactional request is all  *)
(* or nothing, a standalone write tells the truth about its statement, a   *)
(* session carries only the remains of failed operations from one request  *)
(* to the next, and the audit guard does not outlive the audit insert that *)
(* set it; with one worker, rows and audit rows become durable together.   *)
(***************************************************************************)
EXTENDS WritePath, SequenceTheorems, TLAPS

-----------------------------------------------------------------------------
(* The inductive invariant                                                  *)

\* The stages of an operation that has passed validation.
InOp == {"prepare", "before", "execute", "lobs", "audit", "guard", "build", "auditing",
         "commit", "respond", "cleanup"}
Busy(w) == pc[w] \notin {"idle", "released"}

Row(i)   == <<i, "row">>
Part(i)  == <<i, "part">>
Audit(i) == <<i, "audit">>
Echo(i)  == <<i, "echo">>

\* Operation i belongs to the request that worker w executes.
Current(w, i) == i[1] = w /\ i[2] = served[w] + 1

\* The statement of the current operation has succeeded.
Executed(w) ==
    \/ pc[w] \in {"lobs", "commit", "respond"}
    \/ pc[w] \in {"audit", "guard", "build", "auditing"} /\ Op(w) # "delete"
    \/ pc[w] \in {"cleanup", "next", "finish"} /\ rc[w] = "ok"

\* Where a worker can be, and what its locals say there.
Place(w) ==
    /\ Busy(w) => served[w] < MaxRequests /\ opn[w] <= Len(request[w].ops)
    /\ pc[w] = "lobs" => Op(w) # "delete"
    /\ pc[w] = "before" => Op(w) # "insert"
    /\ pc[w] = "finish" => opn[w] = Len(request[w].ops) \/ (request[w].tx /\ rc[w] = "fail")
    /\ pc[w] \in InOp \ {"cleanup"} => rc[w] = "ok"
    /\ Executed(w) => touched[w]
    /\ pc[w] = "prepare" => ~touched[w]

\* Whose transaction it is.  Without failing validations a standalone
\* operation always has its own.
Ownership(w) ==
    /\ Busy(w) /\ request[w].tx => activeTx[w] = "managed"
    /\ pc[w] \in InOp /\ request[w].tx => ~owns[w]
    /\ ~setting.validation =>
         /\ ~Busy(w) => activeTx[w] = "none"
         /\ ~request[w].tx /\ pc[w] \in {"start", "next", "finish"} => activeTx[w] = "none"
         /\ ~request[w].tx /\ pc[w] \in InOp => owns[w]

\* What is written has been written by an operation that was executed; the
\* current one has written no row before its statement.
Fresh(w) ==
    \A x \in Items : x \in pending[w] \/ (x \in durable /\ x[1][1] = w) =>
      /\ x[1][1] = w
      /\ \/ x[1][2] <= served[w]
         \/ /\ Busy(w) /\ x[1][2] = served[w] + 1
            /\ x[1][3] <= opn[w]
            /\ pc[w] = "start" => x[1][3] # opn[w]
            /\ pc[w] \in InOp /\ ~touched[w] /\ x[2] = "row" => x[1][3] # opn[w]

\* A transactional request has its rows in the session until it ends.
TxRows(w) ==
    Busy(w) /\ request[w].tx =>
      /\ \A i \in OpIds : Current(w, i) => Row(i) \notin durable
      /\ ~(pc[w] \in {"next", "finish"} /\ rc[w] = "fail") =>
           \A i \in OpIds : Current(w, i) /\ (i[3] < opn[w] \/ (i[3] = opn[w] /\ Executed(w)))
                              => Row(i) \in pending[w]

\* A standalone operation has its row in the session before its commit, in
\* the database afterwards; one that fails leaves no row behind.
OwnRow(w) ==
    ~setting.validation /\ ~request[w].tx =>
      /\ Executed(w) /\ pc[w] \in InOp \ {"respond", "cleanup"} => Row(Id(w)) \in pending[w]
      /\ Executed(w) /\ pc[w] \in {"respond", "cleanup", "next"} =>
           Row(Id(w)) \in durable /\ pending[w] = {}
      /\ pc[w] \in InOp \ {"respond", "cleanup"} => Row(Id(w)) \notin durable
      /\ ~setting.response /\ pc[w] \in {"cleanup", "next"} /\ rc[w] = "fail" =>
           Row(Id(w)) \notin durable
      /\ pc[w] = "next" => Row(Id(w)) \notin pending[w]

\* What has been reported is what has happened, and cannot change any more.
Reported(w) ==
    \A i \in OpIds : i[1] = w =>
      /\ result[i] # "none" =>
           \/ i[2] <= served[w]
           \/ /\ Busy(w) /\ ~request[w].tx /\ i[2] = served[w] + 1
              /\ i[3] < opn[w] \/ (i[3] = opn[w] /\ pc[w] = "finish")
      /\ result[i] = "tx_ok" => Row(i) \in durable
      /\ result[i] = "tx_fail" => Row(i) \notin durable /\ Row(i) \notin pending[w]
      /\ ~setting.validation /\ result[i] = "ok" => Row(i) \in durable
      /\ ~setting.validation /\ ~setting.response /\ result[i] = "fail" =>
           Row(i) \notin durable /\ Row(i) \notin pending[w]

\* Uncommitted work is the current request's (standalone: the current
\* operation's), or what operations that failed could not take back.
Leftover(w) ==
    ~setting.validation => \A x \in pending[w] :
      \/ x[2] # "row" /\ result[x[1]] = "fail"
      \/ Busy(w) /\ request[w].tx /\ x[1][2] = served[w] + 1
      \/ ~request[w].tx /\ pc[w] \in InOp /\ x[1] = Id(w)
      \/ ~request[w].tx /\ pc[w] = "next" /\ x[1] = Id(w) /\ x[2] # "row" /\ rc[w] = "fail"

\* A statement that failed half way ends its operation, its rows never belong
\* to a transaction that goes on, and they become durable only when a later
\* statement of the session, which is in the session until then, is committed.
Parts(w) ==
    /\ pc[w] \in InOp \ {"cleanup"} \/ Executed(w) =>
         Part(Id(w)) \notin pending[w] /\ Part(Id(w)) \notin durable
    /\ Executed(w) /\ pc[w] \in InOp \ {"respond", "cleanup"} => Row(Id(w)) \in pending[w]
    /\ Busy(w) /\ request[w].tx => \A i \in OpIds : Current(w, i) =>
         /\ Part(i) \notin durable
         /\ Part(i) \in pending[w] => pc[w] \in {"cleanup", "next", "finish"} /\ rc[w] = "fail"
    /\ \A i \in OpIds : i[1] = w =>
         /\ result[i] \in {"tx_ok", "tx_fail"} => Part(i) \notin durable /\ Part(i) \notin pending[w]
         /\ Part(i) \in durable => \E j \in OpIds : Later(j, i) /\ Row(j) \in durable

Local(w) ==
    /\ Place(w) /\ Ownership(w) /\ Fresh(w) /\ TxRows(w) /\ OwnRow(w) /\ Reported(w)
    /\ Leftover(w) /\ Parts(w)

WInv == TypeOK /\ GuardReleased /\ setting \in Settings /\ \A w \in Workers : Local(w)

\* With a single worker nobody else moves the guard, and an audit trail that
\* works writes one audit row per row.
Image(w) ==
    /\ pc[w] \in {"execute", "lobs", "audit"} /\ Op(w) = "update" => image[w]
    /\ pc[w] = "audit" /\ Op(w) = "delete" => image[w]
    /\ pc[w] \in {"execute", "commit"} /\ Op(w) = "delete" => Audit(Id(w)) \in pending[w]
    /\ pc[w] = "commit" => Audit(Id(w)) \in pending[w]
    /\ pc[w] = "auditing" <=> guard

Audited(w) ==
    /\ \A i \in OpIds : Row(i) \in pending[w] =>
         \/ Audit(i) \in pending[w]
         \/ i = Id(w) /\ pc[w] \in {"lobs", "audit", "guard", "build", "auditing"}
         \/ i = Id(w) /\ pc[w] \in {"cleanup", "next", "finish"} /\ rc[w] = "fail"
    /\ \A x \in pending[w] \cup durable : x[2] # "echo"
    /\ \A i \in OpIds : Row(i) \in durable => Audit(i) \in durable

Single == \A u, w \in Workers : u = w

AInv == ~setting.audit /\ ~setting.validation => \A w \in Workers : Image(w) /\ Audited(w)

-----------------------------------------------------------------------------
(* Facts about the operators                                                *)

\* A request has at least one operation and no more than MaxOps.
LEMMA ShapeFacts ==
    ASSUME NEW s \in RequestShapes
    PROVE  /\ s.tx \in BOOLEAN /\ Len(s.ops) \in 1 .. MaxOps
           /\ \A j \in 1 .. Len(s.ops) : s.ops[j] \in Kinds
<1>1. PICK n \in 1 .. MaxOps : s.ops \in [1 .. n -> Kinds]
  BY DEF RequestShapes
<1>2. n \in Nat
  BY <1>1, WritePathAssumption
<1>3. s.ops \in Seq(Kinds) /\ Len(s.ops) = n
  BY <1>1, <1>2, IsASeq, LenProperties
<1> QED
  BY <1>1, <1>3 DEF RequestShapes

\* Operations and the items they write.
LEMMA OpFacts ==
    \A i \in OpIds : i[1] \in Workers /\ i[2] \in 1 .. MaxRequests /\ i[3] \in 1 .. MaxOps
BY DEF OpIds

\* Rows, audit rows and echoes are told apart, and each names its operation.
LEMMA ItemFacts ==
    /\ \A x \in Items : x[1] \in OpIds /\ (x[2] = "row" => x = Row(x[1]))
                        /\ (x[2] = "audit" => x = Audit(x[1]))
    /\ \A i \in OpIds : /\ Row(i) \in Items /\ Row(i)[1] = i /\ Row(i)[2] = "row"
                        /\ Part(i) \in Items /\ Part(i)[1] = i /\ Part(i)[2] = "part"
                        /\ Audit(i) \in Items /\ Audit(i)[1] = i /\ Audit(i)[2] = "audit"
                        /\ Echo(i) \in Items /\ Echo(i)[1] = i /\ Echo(i)[2] = "echo"
BY DEF Items, Row, Part, Audit, Echo

\* The current operation of a worker that executes a request.
LEMMA IdFacts ==
    ASSUME TypeOK, NEW w \in Workers, served[w] < MaxRequests
    PROVE  /\ Id(w) \in OpIds
           /\ Id(w)[1] = w /\ Id(w)[2] = served[w] + 1 /\ Id(w)[3] = opn[w]
           /\ \A i \in OpIds : i[1] = w /\ i[2] = served[w] + 1 /\ i[3] = opn[w] => i = Id(w)
<1>1. served[w] + 1 \in 1 .. MaxRequests /\ opn[w] \in 1 .. MaxOps
  BY WritePathAssumption DEF TypeOK
<1> QED
  BY <1>1 DEF OpIds, Id

\* The numbers and Boolean values.
LEMMA Scalars ==
    ASSUME TypeOK, NEW w \in Workers
    PROVE  /\ served[w] \in Nat /\ opn[w] \in Nat /\ opn[w] >= 1 /\ opn[w] <= MaxOps
           /\ MaxRequests \in Nat /\ MaxOps \in Nat
           /\ rc[w] \in {"ok", "fail"} /\ request[w] \in RequestShapes
           /\ activeTx[w] \in {"none", "managed", "standalone"}
           /\ owns[w] \in BOOLEAN /\ touched[w] \in BOOLEAN /\ image[w] \in BOOLEAN
           /\ pending[w] \subseteq Items /\ durable \subseteq Items
BY WritePathAssumption DEF TypeOK

-----------------------------------------------------------------------------
(* What the other workers see of a step                                     *)

\* Nothing that belongs to worker u has changed.
Same(u) ==
    /\ pc'[u] = pc[u] /\ request'[u] = request[u] /\ served'[u] = served[u]
    /\ opn'[u] = opn[u] /\ owns'[u] = owns[u] /\ rc'[u] = rc[u] /\ touched'[u] = touched[u]
    /\ activeTx'[u] = activeTx[u] /\ pending'[u] = pending[u]
    /\ \A x \in Items : x[1][1] = u => (x \in durable' <=> x \in durable)
    /\ \A i \in OpIds : i[1] = u => result'[i] = result[i]
    /\ setting' = setting

\* ... and so its part of the invariant holds as before.
LEMMA Frame ==
    ASSUME WInv, NEW u \in Workers, Same(u)
    PROVE  Local(u)'
<1>1. TypeOK /\ Local(u) /\ WInv
  BY DEF WInv
<1>2. Op(u)' = Op(u) /\ Id(u)' = Id(u) /\ (Busy(u)' <=> Busy(u)) /\ (Executed(u)' <=> Executed(u))
  BY DEF Same, Op, Id, Busy, Executed
<1>3. \A i \in OpIds : i[1] = u => (Row(i) \in durable' <=> Row(i) \in durable)
  BY ItemFacts DEF Same
<1>4. \A i : Current(u, i)' <=> Current(u, i)
  BY DEF Same, Current
<1>5. Place(u)'
  BY <1>1, <1>2 DEF Local, Place, Same
<1>6. Ownership(u)'
  BY <1>1, <1>2 DEF Local, Ownership, Same
<1>7. Fresh(u)'
  BY <1>1, <1>2 DEF Local, Fresh, Same
<1>8. TxRows(u)'
  BY <1>1, <1>2, <1>3, <1>4 DEF Local, TxRows, Same, Current
<1>9. OwnRow(u)'
  <2>1. CASE Busy(u)
    <3>1. Id(u) \in OpIds /\ Id(u)[1] = u
      BY <1>1, <2>1, IdFacts DEF Local, Place
    <3> QED
      BY <1>1, <1>2, <1>3, <3>1 DEF Local, OwnRow, Same
  <2>2. CASE ~Busy(u)
    BY <1>1, <1>2, <2>2 DEF Local, OwnRow, Same, Busy, Executed, InOp
  <2> QED
    BY <2>1, <2>2
<1>10. Reported(u)'
  BY <1>1, <1>2, <1>3 DEF Local, Reported, Same
<1>11. Leftover(u)'
  <2>1. \A x \in pending[u] : x \in Items /\ x[1] \in OpIds /\ x[1][1] = u
    BY <1>1, Scalars, ItemFacts DEF Local, Fresh
  <2>2. \A x \in pending[u] : result'[x[1]] = result[x[1]]
    BY <2>1 DEF Same
  <2> QED
    BY <1>1, <1>2, <2>2 DEF Local, Leftover, Same
<1>12. Parts(u)'
  <2>1. \A i \in OpIds : i[1] = u => (Part(i) \in durable' <=> Part(i) \in durable)
    BY ItemFacts DEF Same
  <2>2. \A i \in OpIds : i[1] = u => /\ Part(i)' = Part(i) /\ pending'[u] = pending[u]
                                     /\ result'[i] = result[i]
    BY DEF Same, Part
  <2>3. Busy(u) => Id(u) \in OpIds /\ Id(u)[1] = u
    BY <1>1, IdFacts DEF Local, Place
  <2>4. (pc[u] \in InOp \/ Executed(u)) => Busy(u)
    BY DEF InOp, Busy, Executed
  <2>5. /\ pc'[u] \in InOp \ {"cleanup"} \/ Executed(u)' =>
             Part(Id(u)') \notin pending'[u] /\ Part(Id(u)') \notin durable'
        /\ Executed(u)' /\ pc'[u] \in InOp \ {"respond", "cleanup"} => Row(Id(u)') \in pending'[u]
    BY <1>1, <1>2, <2>1, <2>3, <2>4 DEF Local, Parts, Same, InOp
  <2>6. ASSUME Busy(u)', request'[u].tx, NEW i \in OpIds, Current(u, i)'
        PROVE  /\ Part(i) \notin durable'
               /\ Part(i) \in pending'[u] => pc'[u] \in {"cleanup", "next", "finish"} /\ rc'[u] = "fail"
    BY <1>1, <1>2, <1>4, <2>1, <2>6 DEF Local, Parts, Same, Current
  <2>7. ASSUME NEW i \in OpIds, i[1] = u
        PROVE  /\ result'[i] \in {"tx_ok", "tx_fail"} => Part(i) \notin durable' /\ Part(i) \notin pending'[u]
               /\ Part(i) \in durable' => \E j \in OpIds : Later(j, i) /\ Row(j) \in durable'
    <3>1. result'[i] = result[i] /\ pending'[u] = pending[u] /\ (Part(i) \in durable' <=> Part(i) \in durable)
      BY <2>1, <2>2, <2>7
    <3>2. ASSUME Part(i) \in durable PROVE \E j \in OpIds : Later(j, i) /\ Row(j) \in durable'
      <4>1. PICK j \in OpIds : Later(j, i) /\ Row(j) \in durable
        BY <1>1, <2>7, <3>2 DEF Local, Parts
      <4> QED
        BY <1>3, <2>7, <4>1 DEF Later
    <3> QED
      BY <1>1, <2>7, <3>1, <3>2 DEF Local, Parts
  <2> QED
    BY <2>5, <2>6, <2>7 DEF Parts
<1> QED
  BY <1>5, <1>6, <1>7, <1>8, <1>9, <1>10, <1>11, <1>12 DEF Local

\* A step of worker w keeps the invariant if it keeps w's part of it.
LEMMA Compose ==
    ASSUME WInv, NEW w \in Workers, TypeOK', GuardReleased', setting' = setting,
           Local(w)', \A u \in Workers : u # w => Same(u)
    PROVE  WInv'
<1>1. ASSUME NEW u \in Workers PROVE Local(u)'
  BY Frame
<1> QED
  BY <1>1 DEF WInv

-----------------------------------------------------------------------------
(* The steps within an operation                                            *)

\* The guard's users.
GuardKept(w, l) ==
    \/ guard' = FALSE
    \/ guard' = guard /\ pc[w] # "auditing"
    \/ guard' = TRUE /\ l = "auditing"

\* audit_trail_in_progress is set by one worker's audit insert at most.
LEMMA GuardStep ==
    ASSUME WInv, NEW w \in Workers, NEW l, pc' = [pc EXCEPT ![w] = l], GuardKept(w, l)
    PROVE  GuardReleased'
<1>1. pc'[w] = l /\ \A u \in Workers : u # w => pc'[u] = pc[u]
  BY DEF WInv, TypeOK
<1> QED
  BY <1>1 DEF WInv, GuardReleased, GuardKept

\* The statement has been executed, at stage l and return code c.
ExecutedAt(w, l, c) ==
    \/ l \in {"lobs", "commit", "respond"}
    \/ l \in {"audit", "guard", "build", "auditing"} /\ Op(w) # "delete"
    \/ l \in {"cleanup", "next", "finish"} /\ c = "ok"

\* A stage ends and nothing has been written.
LEMMA AdvanceStep ==
    ASSUME WInv, NEW w \in Workers, NEW l \in InOp \ {"prepare", "lobs"}, NEW c \in {"ok", "fail"},
           pc[w] \in InOp \ {"cleanup"},
           UNCHANGED <<setting, request, served, opn, owns, touched, activeTx, pending, durable,
                       result>>,
           image' \in [Workers -> BOOLEAN], guard' \in BOOLEAN, GuardKept(w, l),
           pc' = [pc EXCEPT ![w] = l], rc' = [rc EXCEPT ![w] = c],
           c = "fail" => l = "cleanup" /\ (pc[w] = "respond" => setting.response),
           c = "ok" => (ExecutedAt(w, l, c) <=> Executed(w)),
           l = "cleanup" /\ c = "ok" => pc[w] = "respond",
           l # "cleanup" => pc[w] # "respond",
           l = "before" => Op(w) # "insert",
           l = "respond" => request[w].tx \/ setting.validation
    PROVE  WInv'
<1> USE DEF InOp
<1>1. /\ pc'[w] = l /\ rc'[w] = c /\ pc[w] \notin {"start", "idle", "released", "next", "finish", "cleanup"}
      /\ \A u \in Workers : u # w => pc'[u] = pc[u] /\ rc'[u] = rc[u]
  BY DEF WInv, TypeOK
<1>2. TypeOK /\ TypeOK' /\ GuardReleased' /\ Local(w)
  <2>1. TypeOK'
    BY DEF WInv, TypeOK
  <2> QED
    BY <2>1, GuardStep DEF WInv
<1>3. \A u \in Workers : u # w => Same(u)
  BY <1>1 DEF Same
<1>4. Op(w)' = Op(w) /\ Id(w)' = Id(w) /\ Busy(w) /\ Busy(w)' /\ Executed(w)' = ExecutedAt(w, l, c)
  BY <1>1 DEF Op, Id, Busy, Executed, ExecutedAt
<1>5. rc[w] = "ok" /\ (c = "fail" => ~Executed(w)') /\ (c = "ok" => (Executed(w)' <=> Executed(w)))
  BY <1>1, <1>2, <1>4 DEF Local, Place, ExecutedAt
<1>6. Place(w)'
  BY <1>1, <1>2, <1>4, <1>5 DEF Local, Place
<1>7. Ownership(w)'
  BY <1>1, <1>2, <1>4 DEF Local, Ownership
<1>8. Fresh(w)'
  BY <1>1, <1>2, <1>4 DEF Local, Fresh
<1>9. TxRows(w)'
  BY <1>1, <1>2, <1>4, <1>5 DEF Local, TxRows, Current
<1>10. OwnRow(w)'
  BY <1>1, <1>2, <1>4, <1>5 DEF Local, OwnRow
<1>11. Reported(w)'
  BY <1>1, <1>2, <1>4 DEF Local, Reported
<1>12. Leftover(w)'
  BY <1>1, <1>2, <1>4 DEF Local, Leftover
<1>13. Parts(w)'
  BY <1>1, <1>2, <1>4, <1>5 DEF Local, Parts, Current, ExecutedAt
<1>14. Local(w)'
  BY <1>6, <1>7, <1>8, <1>9, <1>10, <1>11, <1>12, <1>13 DEF Local
<1> QED
  BY <1>2, <1>3, <1>14, Compose

\* begin_standalone_tx_if_needed() and the validation.
LEMMA ValidateStep ==
    ASSUME WInv, NEW w \in Workers, NEW tx \in {activeTx[w], Identity(w)}, pc[w] = "start",
           Validate(w, tx), setting' = setting
    PROVE  WInv'
<1> USE DEF InOp
<1>1. PICK l \in {"prepare", "next"}, c \in {"ok", "fail"}, a \in {activeTx[w], Identity(w)} :
        /\ pc' = [pc EXCEPT ![w] = l] /\ rc' = [rc EXCEPT ![w] = c]
        /\ activeTx' = [activeTx EXCEPT ![w] = a]
        /\ (l = "prepare" /\ c = "ok" /\ a = Identity(w)) \/ (l = "next" /\ c = "fail" /\ setting.validation)
  BY DEF Validate, Goto
<1>2. /\ UNCHANGED <<request, served, opn, result, pending, durable, guard>>
      /\ owns' = [owns EXCEPT ![w] = activeTx[w] = "none"]
      /\ touched' = [touched EXCEPT ![w] = FALSE] /\ image' = [image EXCEPT ![w] = FALSE]
  BY DEF Validate, begin_standalone_tx_if_needed, KeepRequest
<1>3. TypeOK /\ Local(w) /\ a \in {"none", "managed", "standalone"}
  BY DEF WInv, TypeOK, Identity
<1>4. TypeOK' /\ GuardReleased'
  <2>1. TypeOK'
    BY <1>1, <1>2, <1>3 DEF TypeOK
  <2> QED
    BY <2>1, <1>1, <1>2, GuardStep DEF GuardKept
<1>5. /\ pc'[w] = l /\ rc'[w] = c /\ activeTx'[w] = a /\ (owns'[w] <=> activeTx[w] = "none")
      /\ touched'[w] = FALSE
  BY <1>1, <1>2, <1>3 DEF TypeOK
<1>6. \A u \in Workers : u # w => Same(u)
  BY <1>1, <1>2, <1>3 DEF Same, TypeOK
<1>7. Op(w)' = Op(w) /\ Id(w)' = Id(w) /\ Busy(w) /\ Busy(w)' /\ ~Executed(w)' /\ ~Executed(w)
  BY <1>1, <1>2, <1>5 DEF Op, Id, Busy, Executed
<1>8. Place(w)'
  BY <1>1, <1>2, <1>3, <1>5, <1>7 DEF Local, Place
<1>9. Ownership(w)'
  BY <1>1, <1>2, <1>3, <1>5, <1>7 DEF Local, Ownership, Identity
<1>10. Fresh(w)'
  BY <1>1, <1>2, <1>3, <1>5, <1>7 DEF Local, Fresh
<1>11. TxRows(w)'
  BY <1>1, <1>2, <1>3, <1>5, <1>7 DEF Local, TxRows, Current
<1>12. Id(w) \in OpIds /\ Id(w)[1] = w /\ Id(w)[2] = served[w] + 1 /\ Id(w)[3] = opn[w]
  BY <1>3, <1>7, IdFacts DEF Local, Place
<1>13. /\ Row(Id(w)) \notin durable /\ Row(Id(w)) \notin pending[w]
       /\ Part(Id(w)) \notin durable /\ Part(Id(w)) \notin pending[w]
  <2>1. served[w] \in Nat
    BY <1>3, Scalars
  <2> QED
    BY <1>3, <1>12, <2>1, ItemFacts DEF Local, Fresh
<1>14. OwnRow(w)'
  BY <1>1, <1>2, <1>5, <1>7, <1>13 DEF OwnRow
<1>15. Reported(w)'
  BY <1>1, <1>2, <1>3, <1>5, <1>7 DEF Local, Reported
<1>16. Leftover(w)'
  BY <1>1, <1>2, <1>3, <1>5, <1>7 DEF Local, Leftover
<1>17. Parts(w)'
  BY <1>1, <1>2, <1>3, <1>5, <1>7, <1>13 DEF Local, Parts, Current
<1>18. Local(w)'
  BY <1>8, <1>9, <1>10, <1>11, <1>14, <1>15, <1>16, <1>17 DEF Local
<1> QED
  BY <1>4, <1>6, <1>18, Compose

\* The driver has executed the statement.
LEMMA ExecuteStep ==
    ASSUME WInv, NEW w \in Workers, NEW l \in {"lobs", "commit"}, pc[w] = "execute",
           l = "lobs" <=> Op(w) # "delete", Execute(w, l), setting' = setting
    PROVE  WInv'
<1> USE DEF InOp
<1>1. UNCHANGED <<request, served, opn, result, owns, image, activeTx, durable, guard>>
  BY DEF Execute, KeepRequest
<1>2. TypeOK /\ Local(w)
  BY DEF WInv
<1>3. CASE Fail(w) /\ UNCHANGED <<pending, touched>>
  <2>1. image' \in [Workers -> BOOLEAN] /\ guard' \in BOOLEAN
    BY <1>1, <1>2 DEF TypeOK
  <2> QED
    BY <1>1, <1>3, <2>1, AdvanceStep DEF Fail, Goto, GuardKept
<1>4. CASE /\ pending' = [pending EXCEPT ![w] = @ \cup {Row(Id(w))}]
           /\ touched' = [touched EXCEPT ![w] = TRUE]
           /\ pc' = [pc EXCEPT ![w] = l] /\ rc' = rc
  <2>1. /\ Id(w) \in OpIds /\ Id(w)[1] = w /\ Id(w)[2] = served[w] + 1 /\ Id(w)[3] = opn[w]
        /\ \A i \in OpIds : i[1] = w /\ i[2] = served[w] + 1 /\ i[3] = opn[w] => i = Id(w)
        /\ served[w] \in Nat /\ opn[w] \in Nat
    BY <1>2, IdFacts, Scalars DEF Local, Place, Busy
  <2>2. /\ pc'[w] = l /\ touched'[w] = TRUE /\ pending'[w] = pending[w] \cup {Row(Id(w))}
    BY <1>2, <1>4 DEF TypeOK
  <2>3. TypeOK' /\ GuardReleased'
    <3>1. Row(Id(w)) \in Items
      BY <2>1, ItemFacts
    <3>2. TypeOK'
      BY <1>1, <1>2, <1>4, <3>1 DEF TypeOK
    <3> QED
      BY <1>1, <1>4, <3>2, GuardStep DEF GuardKept
  <2>4. \A u \in Workers : u # w => Same(u)
    BY <1>1, <1>2, <1>4 DEF Same, TypeOK
  <2>5. Op(w)' = Op(w) /\ Id(w)' = Id(w) /\ Busy(w) /\ Busy(w)' /\ Executed(w)' /\ ~Executed(w)
    BY <1>1, <2>2 DEF Op, Id, Busy, Executed
  <2>6. \A i \in OpIds : i # Id(w) => (Row(i) \in pending'[w] <=> Row(i) \in pending[w])
    BY <2>2, <2>1, ItemFacts
  <2>7. Place(w)'
    BY <1>1, <1>2, <1>4, <2>2, <2>5 DEF Local, Place
  <2>8. Ownership(w)'
    BY <1>1, <1>2, <2>2, <2>5 DEF Local, Ownership
  <2>9. Fresh(w)'
    BY <1>1, <1>2, <2>1, <2>2, <2>5, ItemFacts DEF Local, Fresh
  <2>10. TxRows(w)'
    BY <1>1, <1>2, <2>1, <2>2, <2>5 DEF Local, TxRows, Current
  <2>11. OwnRow(w)'
    BY <1>1, <1>2, <2>2, <2>5 DEF Local, OwnRow
  <2>12. result[Id(w)] = "none"
    BY <1>2, <2>1 DEF Local, Reported
  <2>13. Reported(w)'
    BY <1>1, <1>2, <2>2, <2>5, <2>6, <2>12 DEF Local, Reported
  <2>14. Leftover(w)'
    <3>1. Row(Id(w))[1] = Id(w) /\ Row(Id(w))[1][2] = served[w] + 1
      BY <2>1, ItemFacts
    <3> QED
      BY <1>1, <1>2, <2>2, <2>5, <3>1 DEF Local, Leftover
  <2>15. Parts(w)'
    <3>1. \A i \in OpIds : Part(i) # Row(Id(w))
      BY DEF Part, Row
    <3> QED
      BY <1>1, <1>2, <2>1, <2>2, <2>5, <3>1 DEF Local, Parts, Current
  <2>16. Local(w)'
    BY <2>7, <2>8, <2>9, <2>10, <2>11, <2>13, <2>14, <2>15 DEF Local
  <2> QED
    BY <2>3, <2>4, <2>16, Compose
<1>5. CASE /\ pending' = [pending EXCEPT ![w] = @ \cup {Part(Id(w))}]
           /\ Fail(w) /\ UNCHANGED touched
  <2>1. /\ Id(w) \in OpIds /\ Id(w)[1] = w /\ Id(w)[2] = served[w] + 1 /\ Id(w)[3] = opn[w]
        /\ \A i \in OpIds : i[1] = w /\ i[2] = served[w] + 1 /\ i[3] = opn[w] => i = Id(w)
        /\ served[w] \in Nat /\ opn[w] \in Nat
    BY <1>2, IdFacts, Scalars DEF Local, Place, Busy
  <2>2. /\ pc'[w] = "cleanup" /\ rc'[w] = "fail" /\ pending'[w] = pending[w] \cup {Part(Id(w))}
        /\ touched' = touched /\ pc' = [pc EXCEPT ![w] = "cleanup"] /\ rc' = [rc EXCEPT ![w] = "fail"]
    BY <1>2, <1>5 DEF TypeOK, Fail, Goto
  <2>3. TypeOK' /\ GuardReleased'
    <3>1. Part(Id(w)) \in Items
      BY <2>1, ItemFacts
    <3>2. TypeOK'
      BY <1>1, <1>2, <1>5, <2>2, <3>1 DEF TypeOK
    <3> QED
      BY <1>1, <2>2, <3>2, GuardStep DEF GuardKept
  <2>4. \A u \in Workers : u # w => Same(u)
    BY <1>1, <1>2, <1>5, <2>2 DEF Same, TypeOK
  <2>5. Op(w)' = Op(w) /\ Id(w)' = Id(w) /\ Busy(w) /\ Busy(w)' /\ ~Executed(w)' /\ ~Executed(w)
    BY <1>1, <2>2 DEF Op, Id, Busy, Executed
  <2>6. \A i \in OpIds : /\ Row(i) \in pending'[w] <=> Row(i) \in pending[w]
                         /\ i # Id(w) => (Part(i) \in pending'[w] <=> Part(i) \in pending[w])
    BY <2>2, <2>1, ItemFacts
  <2>7. Place(w)'
    BY <1>1, <1>2, <2>2, <2>5 DEF Local, Place
  <2>8. Ownership(w)'
    BY <1>1, <1>2, <2>2, <2>5 DEF Local, Ownership
  <2>9. Fresh(w)'
    BY <1>1, <1>2, <2>1, <2>2, <2>5, ItemFacts DEF Local, Fresh
  <2>10. TxRows(w)'
    BY <1>1, <1>2, <2>1, <2>2, <2>5, <2>6 DEF Local, TxRows, Current
  <2>11. OwnRow(w)'
    BY <1>1, <1>2, <2>1, <2>2, <2>5, <2>6 DEF Local, OwnRow
  <2>12. result[Id(w)] = "none"
    BY <1>2, <2>1 DEF Local, Reported
  <2>13. Reported(w)'
    BY <1>1, <1>2, <2>2, <2>5, <2>6 DEF Local, Reported
  <2>14. Leftover(w)'
    <3>1. Part(Id(w))[1] = Id(w) /\ Part(Id(w))[1][2] = served[w] + 1
      BY <2>1, ItemFacts
    <3> QED
      BY <1>1, <1>2, <2>2, <2>5, <3>1 DEF Local, Leftover
  <2>15. Parts(w)'
    BY <1>1, <1>2, <2>1, <2>2, <2>5, <2>6, <2>12 DEF Local, Parts, Current
  <2>16. Local(w)'
    BY <2>7, <2>8, <2>9, <2>10, <2>11, <2>13, <2>14, <2>15 DEF Local
  <2> QED
    BY <2>3, <2>4, <2>16, Compose
<1> QED
  BY <1>3, <1>4, <1>5 DEF Execute, Write, Goto, Row, Part

\* The nested insert of the audit rows.
LEMMA WriteAuditStep ==
    ASSUME WInv, NEW w \in Workers, pc[w] = "auditing", WriteAuditRows(w), setting' = setting
    PROVE  WInv'
<1> USE DEF InOp
<1>1. /\ UNCHANGED <<request, served, opn, result, owns, rc, touched, image, activeTx, durable>>
      /\ guard' = FALSE
  BY DEF WriteAuditRows, KeepAllBut, KeepRequest
<1>2. PICK l : l = AfterAudit(w)
  OBVIOUS
<1>3. l = IF Op(w) = "delete" THEN "execute" ELSE "commit"
  BY <1>2 DEF AfterAudit
<1>4. pc' = [pc EXCEPT ![w] = l]
  BY <1>2 DEF WriteAuditRows, KeepAllBut, Goto
<1>5. PICK new \in SUBSET {Audit(Id(w)), Echo(Id(w))} :
        pending' = [pending EXCEPT ![w] = pending[w] \cup new]
  <2>1. CASE Write(w, {<<Id(w), "audit">>} \cup (IF guard THEN {} ELSE {<<Id(w), "echo">>}))
    <3>1. PICK new : new = {Audit(Id(w))} \cup (IF guard THEN {} ELSE {Echo(Id(w))})
      OBVIOUS
    <3>2. new \in SUBSET {Audit(Id(w)), Echo(Id(w))}
      BY <3>1
    <3>3. pending' = [pending EXCEPT ![w] = pending[w] \cup new]
      BY <2>1, <3>1 DEF Write, Audit, Echo
    <3> QED
      BY <3>2, <3>3
  <2>2. CASE Write(w, {<<Id(w), "audit">>})
    BY <2>2 DEF Write, Audit
  <2>3. CASE UNCHANGED pending
    <3>1. pending' = [pending EXCEPT ![w] = pending[w] \cup {}]
      BY <2>3 DEF WInv, TypeOK
    <3> QED
      BY <3>1
  <2> QED
    BY <2>1, <2>2, <2>3 DEF WriteAuditRows
<1>6. TypeOK /\ Local(w)
  BY DEF WInv
<1>7. /\ Id(w) \in OpIds /\ Id(w)[1] = w /\ Id(w)[2] = served[w] + 1 /\ Id(w)[3] = opn[w]
      /\ served[w] \in Nat /\ opn[w] \in Nat
  BY <1>6, IdFacts, Scalars DEF Local, Place, Busy
<1>8. /\ pc'[w] = l /\ pending'[w] = pending[w] \cup new
      /\ \A x \in new : x \in Items /\ x[1] = Id(w) /\ x[2] \notin {"row", "part"}
  BY <1>4, <1>5, <1>6, <1>7, ItemFacts DEF TypeOK
<1>9. TypeOK' /\ GuardReleased'
  <2>1. TypeOK'
    BY <1>1, <1>3, <1>4, <1>5, <1>6, <1>8 DEF TypeOK
  <2> QED
    BY <1>1, <1>4, <2>1, GuardStep DEF GuardKept
<1>10. \A u \in Workers : u # w => Same(u)
  BY <1>1, <1>4, <1>5, <1>6 DEF Same, TypeOK
<1>11. /\ Op(w)' = Op(w) /\ Id(w)' = Id(w) /\ Busy(w) /\ Busy(w)' /\ (Executed(w)' <=> Executed(w))
  BY <1>1, <1>3, <1>8 DEF Op, Id, Busy, Executed
<1>12. \A i \in OpIds : /\ Row(i) \in pending'[w] <=> Row(i) \in pending[w]
                        /\ Part(i) \in pending'[w] <=> Part(i) \in pending[w]
  BY <1>8, ItemFacts
<1>13. Place(w)'
  BY <1>1, <1>3, <1>6, <1>8, <1>11 DEF Local, Place
<1>14. Ownership(w)'
  BY <1>1, <1>3, <1>6, <1>8, <1>11 DEF Local, Ownership
<1>15. Fresh(w)'
  BY <1>1, <1>3, <1>6, <1>7, <1>8, <1>11 DEF Local, Fresh
<1>16. TxRows(w)'
  BY <1>1, <1>3, <1>6, <1>8, <1>11, <1>12 DEF Local, TxRows, Current
<1>17. OwnRow(w)'
  BY <1>1, <1>3, <1>6, <1>7, <1>8, <1>11, <1>12 DEF Local, OwnRow
<1>18. Reported(w)'
  BY <1>1, <1>3, <1>6, <1>8, <1>11, <1>12 DEF Local, Reported
<1>19. Leftover(w)'
  BY <1>1, <1>3, <1>6, <1>7, <1>8, <1>11 DEF Local, Leftover
<1>20. Parts(w)'
  BY <1>1, <1>3, <1>6, <1>7, <1>8, <1>11, <1>12 DEF Local, Parts, Current
<1>21. Local(w)'
  BY <1>13, <1>14, <1>15, <1>16, <1>17, <1>18, <1>19, <1>20 DEF Local
<1> QED
  BY <1>9, <1>10, <1>21, Compose

\* Commit, unless the transaction is a caller's.
LEMMA CommitStep ==
    ASSUME WInv, NEW w \in Workers, pc[w] = "commit", Commit(w), setting' = setting
    PROVE  WInv'
<1> USE DEF InOp
<1>1. UNCHANGED <<request, served, opn, result, owns, touched, image, activeTx, guard>>
  BY DEF Commit, KeepRequest
<1>2. TypeOK /\ Local(w) /\ Executed(w)
  BY DEF WInv, Executed
<1>3. Managed(w) => request[w].tx \/ setting.validation
  BY <1>2 DEF Managed, Local, Ownership
<1>4. ~Managed(w) => ~request[w].tx
  BY <1>2 DEF Managed, Local, Ownership, Busy
<1>5. /\ image' \in [Workers -> BOOLEAN] /\ guard' \in BOOLEAN /\ rc[w] = "ok"
      /\ rc = [rc EXCEPT ![w] = "ok"]
  BY <1>1, <1>2 DEF TypeOK, Local, Place
<1>6. CASE Managed(w) /\ KeepWork /\ Goto(w, "respond") /\ UNCHANGED rc
  BY <1>1, <1>2, <1>3, <1>5, <1>6, AdvanceStep DEF KeepWork, Goto, GuardKept, ExecutedAt
<1>7. CASE KeepWork /\ Fail(w)
  BY <1>1, <1>5, <1>7, AdvanceStep DEF KeepWork, Fail, Goto, GuardKept
<1>8. CASE ~Managed(w) /\ CommitWork(w) /\ Goto(w, "respond") /\ UNCHANGED rc
  <2>1. /\ Id(w) \in OpIds /\ Id(w)[1] = w /\ Id(w)[2] = served[w] + 1 /\ Id(w)[3] = opn[w]
        /\ served[w] \in Nat /\ opn[w] \in Nat
    BY <1>2, IdFacts, Scalars DEF Local, Place, Busy
  <2>2. /\ pc'[w] = "respond" /\ pending'[w] = {} /\ durable' = durable \cup pending[w] /\ rc' = rc
    BY <1>2, <1>8 DEF TypeOK, Goto, CommitWork
  <2>3. TypeOK' /\ GuardReleased'
    <3>1. TypeOK'
      BY <1>1, <1>2, <1>8 DEF TypeOK, Goto, CommitWork
    <3> QED
      BY <1>1, <1>8, <3>1, GuardStep DEF GuardKept, Goto
  <2>4. \A x \in pending[w] : x \in Items /\ x[1][1] = w
    BY <1>2, Scalars DEF Local, Fresh
  <2>5. \A u \in Workers : u # w => Same(u)
    BY <1>1, <1>2, <1>8, <2>2, <2>4 DEF Same, TypeOK, Goto, CommitWork
  <2>6. /\ Op(w)' = Op(w) /\ Id(w)' = Id(w) /\ Busy(w) /\ Busy(w)' /\ Executed(w)' /\ ~request[w].tx
    BY <1>1, <1>4, <1>8, <2>2 DEF Op, Id, Busy, Executed
  <2>7. Place(w)'
    BY <1>1, <1>2, <2>2, <2>6 DEF Local, Place
  <2>8. Ownership(w)'
    BY <1>1, <1>2, <2>2, <2>6 DEF Local, Ownership
  <2>9. Fresh(w)'
    BY <1>1, <1>2, <2>2, <2>6 DEF Local, Fresh, Place
  <2>10. TxRows(w)'
    BY <1>1, <2>6 DEF TxRows
  <2>11. OwnRow(w)'
    BY <1>1, <1>2, <2>2, <2>6 DEF Local, OwnRow, Place
  <2>12. Reported(w)'
    BY <1>1, <1>2, <2>2, <2>6 DEF Local, Reported
  <2>13. Leftover(w)'
    BY <2>2 DEF Leftover
  <2>14. Parts(w)'
    <3>1. Part(Id(w)) \notin pending[w] /\ Part(Id(w)) \notin durable /\ Row(Id(w)) \in durable'
      BY <1>2, <2>2 DEF Local, Parts
    <3>2. ASSUME NEW i \in OpIds, i[1] = w, Part(i) \in durable'
          PROVE  \E j \in OpIds : Later(j, i) /\ Row(j) \in durable'
      <4>1. CASE Part(i) \in durable
        BY <1>2, <2>2, <3>2, <4>1 DEF Local, Parts
      <4>2. CASE Part(i) \in pending[w]
        <5>1. Part(i) \in Items /\ Part(i)[1] = i /\ i[2] \in Nat /\ i[3] \in Nat /\ i # Id(w)
          BY <3>1, <4>2, ItemFacts, OpFacts, WritePathAssumption
        <5>2. i[2] <= served[w] \/ (i[2] = served[w] + 1 /\ i[3] <= opn[w])
          BY <1>2, <4>2, <5>1 DEF Local, Fresh
        <5>3. i[2] = served[w] + 1 => i[3] # opn[w]
          BY <1>2, <3>2, <5>1, IdFacts DEF Local, Place, Busy
        <5>4. Later(Id(w), i)
          BY <2>1, <3>2, <5>1, <5>2, <5>3 DEF Later
        <5> QED
          BY <2>1, <3>1, <5>4
      <4> QED
        BY <2>2, <3>2, <4>1, <4>2
    <3>3. \A i \in OpIds : i[1] = w /\ result'[i] \in {"tx_ok", "tx_fail"} =>
            Part(i) \notin durable' /\ Part(i) \notin pending'[w]
      BY <1>1, <1>2, <2>2 DEF Local, Parts
    <3> QED
      BY <1>1, <2>2, <2>6, <3>1, <3>2, <3>3 DEF Parts
  <2>15. Local(w)'
    BY <2>7, <2>8, <2>9, <2>10, <2>11, <2>12, <2>13, <2>14 DEF Local
  <2> QED
    BY <2>3, <2>5, <2>15, Compose
<1> QED
  BY <1>6, <1>7, <1>8 DEF Commit

\* The way out: rollback of a failed statement, and the end of an own
\* transaction.
LEMMA CleanupStep ==
    ASSUME WInv, NEW w \in Workers, NEW leave \in BOOLEAN, leave => Managed(w), pc[w] = "cleanup",
           Cleanup(w, leave), setting' = setting
    PROVE  WInv'
<1> USE DEF InOp
<1>1. /\ UNCHANGED <<request, served, opn, result, owns, rc, touched, image, guard, durable>>
      /\ pc' = [pc EXCEPT ![w] = "next"]
  BY DEF Cleanup, KeepRequest, Goto, RollbackWork, KeepWork
<1>2. TypeOK /\ Local(w)
  BY DEF WInv
<1>3. PICK a : a = IF owns[w] THEN "none" ELSE activeTx[w]
  OBVIOUS
<1>4. activeTx' = [activeTx EXCEPT ![w] = a] /\ a \in {"none", "managed", "standalone"}
  BY <1>2, <1>3 DEF Cleanup, TypeOK
<1>5. PICK P \in {pending[w], {}} :
        /\ pending' = [pending EXCEPT ![w] = P]
        /\ rc[w] = "ok" => P = pending[w]
        /\ rc[w] = "fail" /\ touched[w] /\ ~Managed(w) => P = {}
  <2>1. CASE rc[w] = "fail" /\ touched[w] /\ ~leave
    BY <2>1 DEF Cleanup, RollbackWork
  <2>2. CASE ~(rc[w] = "fail" /\ touched[w] /\ ~leave)
    <3>1. pending' = [pending EXCEPT ![w] = pending[w]]
      BY <1>2, <2>2 DEF Cleanup, KeepWork, TypeOK
    <3> QED
      BY <2>2, <3>1
  <2> QED
    BY <2>1, <2>2
<1>6. /\ pc'[w] = "next" /\ activeTx'[w] = a /\ pending'[w] = P /\ P \subseteq pending[w]
  BY <1>1, <1>2, <1>4, <1>5 DEF TypeOK
<1>7. TypeOK' /\ GuardReleased'
  <2>1. TypeOK'
    BY <1>1, <1>2, <1>4, <1>5 DEF TypeOK
  <2> QED
    BY <1>1, <2>1, GuardStep DEF GuardKept
<1>8. \A u \in Workers : u # w => Same(u)
  BY <1>1, <1>2, <1>4, <1>5 DEF Same, TypeOK
<1>9. /\ Op(w)' = Op(w) /\ Id(w)' = Id(w) /\ Busy(w) /\ Busy(w)' /\ (Executed(w)' <=> Executed(w))
      /\ (Executed(w) <=> rc[w] = "ok") /\ rc[w] \in {"ok", "fail"} /\ touched[w] \in BOOLEAN
  BY <1>1, <1>2, <1>6, Scalars DEF Op, Id, Busy, Executed
<1>10. Place(w)'
  BY <1>1, <1>2, <1>6, <1>9 DEF Local, Place
<1>11. Ownership(w)'
  BY <1>1, <1>2, <1>3, <1>6, <1>9 DEF Local, Ownership
<1>12. Fresh(w)'
  BY <1>1, <1>2, <1>6, <1>9 DEF Local, Fresh
<1>13. TxRows(w)'
  BY <1>1, <1>2, <1>5, <1>6, <1>9 DEF Local, TxRows, Current
<1>14. /\ Id(w) \in OpIds /\ Id(w)[1] = w /\ Id(w)[2] = served[w] + 1 /\ Id(w)[3] = opn[w]
       /\ served[w] \in Nat /\ opn[w] \in Nat
  BY <1>2, <1>9, IdFacts, Scalars DEF Local, Place
<1>15. ~touched[w] => \A x \in pending[w] : x[1] = Id(w) => x[2] # "row"
  BY <1>2, <1>14, Scalars DEF Local, Fresh
<1>16. ~setting.validation /\ ~request[w].tx /\ rc[w] = "fail" /\ touched[w] => P = {}
  BY <1>2, <1>5 DEF Local, Ownership, Managed
<1>17. ~setting.validation /\ ~request[w].tx => \A x \in P : x[1] = Id(w) => x[2] # "row" /\ rc[w] = "fail"
  BY <1>2, <1>5, <1>6, <1>9, <1>15, <1>16 DEF Local, OwnRow
<1>18. OwnRow(w)'
  <2>1. Row(Id(w))[1] = Id(w) /\ Row(Id(w))[2] = "row"
    BY <1>14, ItemFacts
  <2> QED
    BY <1>1, <1>2, <1>5, <1>6, <1>9, <1>17, <2>1 DEF Local, OwnRow
<1>19. Reported(w)'
  BY <1>1, <1>2, <1>6, <1>9 DEF Local, Reported
<1>20. Leftover(w)'
  BY <1>1, <1>2, <1>6, <1>9, <1>17 DEF Local, Leftover
<1>21. Parts(w)'
  BY <1>1, <1>2, <1>6, <1>9 DEF Local, Parts, Current
<1>22. Local(w)'
  BY <1>10, <1>11, <1>12, <1>13, <1>18, <1>19, <1>20, <1>21 DEF Local
<1> QED
  BY <1>7, <1>8, <1>22, Compose

-----------------------------------------------------------------------------
(* The steps of a request                                                   *)

\* A request comes in.
LEMMA BeginStep ==
    ASSUME WInv, NEW w \in Workers, begin_request(w), setting' = setting
    PROVE  WInv'
<1> USE DEF InOp
<1>1. PICK shape \in RequestShapes, a \in {"managed", "none", activeTx[w]} :
        /\ request' = [request EXCEPT ![w] = shape]
        /\ activeTx' = [activeTx EXCEPT ![w] = a]
        /\ shape.tx => a = "managed"
        /\ ~shape.tx => a \in {"none", activeTx[w]}
  BY DEF begin_request
<1>2. /\ pc[w] = "idle" /\ served[w] < MaxRequests
      /\ opn' = [opn EXCEPT ![w] = 1] /\ pc' = [pc EXCEPT ![w] = "start"]
      /\ UNCHANGED <<served, owns, rc, touched, image, pending, durable, guard, result>>
  BY DEF begin_request, Goto
<1>3. TypeOK /\ Local(w) /\ 1 \in 1 .. MaxOps /\ served[w] \in Nat
  BY WritePathAssumption, Scalars DEF WInv
<1>4. pc'[w] = "start" /\ opn'[w] = 1 /\ request'[w] = shape /\ activeTx'[w] = a
  BY <1>1, <1>2, <1>3 DEF TypeOK
<1>5. TypeOK' /\ GuardReleased'
  <2>1. TypeOK'
    BY <1>1, <1>2, <1>3 DEF TypeOK
  <2> QED
    BY <1>2, <2>1, GuardStep DEF GuardKept
<1>6. \A u \in Workers : u # w => Same(u)
  BY <1>1, <1>2, <1>3 DEF Same, TypeOK
<1>7. ~Busy(w) /\ Busy(w)' /\ ~Executed(w)' /\ Len(shape.ops) \in 1 .. MaxOps /\ MaxOps \in Nat
  BY <1>1, <1>2, <1>4, ShapeFacts, WritePathAssumption DEF Busy, Executed
<1>8. Place(w)'
  BY <1>2, <1>4, <1>7 DEF Place
<1>9. Ownership(w)'
  BY <1>1, <1>2, <1>3, <1>4, <1>7 DEF Local, Ownership
<1>10. Fresh(w)'
  BY <1>2, <1>3, <1>4, <1>7 DEF Local, Fresh
<1>11. TxRows(w)'
  <2>1. \A i \in OpIds : i[1] = w /\ i[2] = served[w] + 1 => Row(i) \notin durable
    BY <1>3, <1>7, ItemFacts DEF Local, Fresh
  <2>2. \A i \in OpIds : ~(i[3] < 1)
    BY OpFacts, WritePathAssumption
  <2> QED
    BY <1>2, <1>4, <1>7, <2>1, <2>2 DEF TxRows, Current
<1>12. OwnRow(w)'
  BY <1>4, <1>7 DEF OwnRow
<1>13. Reported(w)'
  BY <1>2, <1>3, <1>4, <1>7 DEF Local, Reported
<1>14. Leftover(w)'
  BY <1>2, <1>3, <1>4, <1>7 DEF Local, Leftover
<1>15. Parts(w)'
  <2>1. \A i \in OpIds : i[1] = w /\ i[2] = served[w] + 1 =>
          Part(i) \notin durable /\ Part(i) \notin pending[w]
    BY <1>3, <1>7, ItemFacts DEF Local, Fresh
  <2> QED
    BY <1>2, <1>3, <1>4, <1>7, <2>1 DEF Local, Parts, Current
<1>16. Local(w)'
  BY <1>8, <1>9, <1>10, <1>11, <1>12, <1>13, <1>14, <1>15 DEF Local
<1> QED
  BY <1>5, <1>6, <1>16, Compose

\* An operation has returned.
LEMMA NextStep ==
    ASSUME WInv, NEW w \in Workers, next_operation(w), setting' = setting
    PROVE  WInv'
<1> USE DEF InOp
<1>1. /\ pc[w] = "next"
      /\ UNCHANGED <<request, served, owns, rc, touched, image, activeTx, pending, durable, guard>>
  BY DEF next_operation
<1>2. TypeOK /\ Local(w) /\ Busy(w)
  BY <1>1 DEF WInv, Busy
<1>3. /\ Id(w) \in OpIds /\ Id(w)[1] = w /\ Id(w)[2] = served[w] + 1 /\ Id(w)[3] = opn[w]
      /\ \A i \in OpIds : i[1] = w /\ i[2] = served[w] + 1 /\ i[3] = opn[w] => i = Id(w)
      /\ served[w] \in Nat /\ opn[w] \in Nat /\ rc[w] \in {"ok", "fail"}
      /\ Len(request[w].ops) \in 1 .. MaxOps /\ MaxOps \in Nat
  BY <1>2, IdFacts, Scalars, ShapeFacts DEF Local, Place
<1>4. PICK l \in {"finish", "start"}, n \in Nat :
        /\ pc' = [pc EXCEPT ![w] = l] /\ opn' = [opn EXCEPT ![w] = n]
        /\ n = IF l = "finish" THEN opn[w] ELSE opn[w] + 1
        /\ l = "finish" <=> opn[w] = Len(request[w].ops) \/ (request[w].tx /\ rc[w] = "fail")
  <2>1. CASE opn[w] = Len(request[w].ops) \/ (request[w].tx /\ rc[w] = "fail")
    <3>1. Goto(w, "finish") /\ UNCHANGED opn
      BY <2>1 DEF next_operation
    <3>2. opn' = [opn EXCEPT ![w] = opn[w]]
      BY <1>2, <3>1 DEF TypeOK
    <3> QED
      BY <1>3, <2>1, <3>1, <3>2 DEF Goto
  <2>2. CASE ~(opn[w] = Len(request[w].ops) \/ (request[w].tx /\ rc[w] = "fail"))
    <3>1. Goto(w, "start") /\ opn' = [opn EXCEPT ![w] = opn[w] + 1]
      BY <2>2 DEF next_operation
    <3>2. opn[w] + 1 \in Nat
      BY <1>3
    <3> WITNESS "start" \in {"finish", "start"}, opn[w] + 1 \in Nat
    <3> QED
      BY <2>2, <3>1 DEF Goto
  <2> QED
    BY <2>1, <2>2
<1>5. n \in 1 .. MaxOps /\ n <= Len(request[w].ops) /\ opn[w] >= 1
  BY <1>2, <1>3, <1>4, Scalars DEF Local, Place
<1>6. /\ result' \in [OpIds -> {"none", "ok", "fail", "tx_ok", "tx_fail"}]
      /\ \A i \in OpIds : i # Id(w) => result'[i] = result[i]
      /\ request[w].tx => result' = result
      /\ ~request[w].tx => result'[Id(w)] = rc[w]
  BY <1>2, <1>3 DEF next_operation, TypeOK
<1>7. pc'[w] = l /\ opn'[w] = n
  BY <1>2, <1>4 DEF TypeOK
<1>8. TypeOK' /\ GuardReleased'
  <2>1. TypeOK'
    BY <1>1, <1>2, <1>4, <1>5, <1>6 DEF TypeOK
  <2> QED
    BY <1>1, <1>4, <2>1, GuardStep DEF GuardKept
<1>9. \A u \in Workers : u # w => Same(u)
  BY <1>1, <1>2, <1>3, <1>4, <1>6 DEF Same, TypeOK
<1>10. Busy(w)' /\ (Executed(w)' <=> l = "finish" /\ rc[w] = "ok") /\ (Executed(w) <=> rc[w] = "ok")
  BY <1>1, <1>7 DEF Busy, Executed
<1>11. Place(w)'
  BY <1>1, <1>2, <1>4, <1>5, <1>7, <1>10 DEF Local, Place
<1>12. Ownership(w)'
  BY <1>1, <1>2, <1>7, <1>10 DEF Local, Ownership
<1>13. Fresh(w)'
  <2>1. \A x \in Items : x[1][3] \in Nat
    BY ItemFacts, OpFacts, WritePathAssumption
  <2> QED
    BY <1>1, <1>2, <1>3, <1>4, <1>7, <1>10, <2>1 DEF Local, Fresh
<1>14. TxRows(w)'
  <2>1. \A i \in OpIds : i[3] \in Nat
    BY OpFacts, WritePathAssumption
  <2> QED
    BY <1>1, <1>2, <1>3, <1>4, <1>7, <1>10, <2>1 DEF Local, TxRows, Current
<1>15. OwnRow(w)'
  BY <1>7 DEF OwnRow
<1>16. Reported(w)'
  <2>1. \A i \in OpIds : i[3] \in Nat
    BY OpFacts, WritePathAssumption
  <2>2. ASSUME NEW i \in OpIds, i[1] = w, i # Id(w)
        PROVE  /\ result'[i] # "none" =>
                    \/ i[2] <= served'[w]
                    \/ /\ ~request'[w].tx /\ i[2] = served'[w] + 1
                       /\ i[3] < opn'[w] \/ (i[3] = opn'[w] /\ pc'[w] = "finish")
               /\ result'[i] = "tx_ok" => Row(i) \in durable'
               /\ result'[i] = "tx_fail" => Row(i) \notin durable' /\ Row(i) \notin pending'[w]
               /\ ~setting'.validation /\ result'[i] = "ok" => Row(i) \in durable'
               /\ ~setting'.validation /\ ~setting'.response /\ result'[i] = "fail" =>
                    Row(i) \notin durable' /\ Row(i) \notin pending'[w]
    BY <1>1, <1>2, <1>3, <1>4, <1>6, <1>7, <2>1, <2>2 DEF Local, Reported
  <2>3. CASE request[w].tx
    BY <1>1, <1>2, <1>3, <1>4, <1>6, <1>7, <1>10, <2>1, <2>3 DEF Local, Reported
  <2>4. CASE ~request[w].tx
    <3>1. /\ ~setting.validation /\ rc[w] = "ok" => Row(Id(w)) \in durable
          /\ ~setting.validation /\ ~setting.response /\ rc[w] = "fail" =>
               Row(Id(w)) \notin durable /\ Row(Id(w)) \notin pending[w]
      BY <1>1, <1>2, <1>10, <2>4 DEF Local, OwnRow
    <3>2. /\ result'[Id(w)] \in {"ok", "fail"} /\ result'[Id(w)] = rc[w]
          /\ Id(w)[3] < opn'[w] \/ (Id(w)[3] = opn'[w] /\ pc'[w] = "finish")
      BY <1>3, <1>4, <1>6, <1>7, <2>4
    <3>3. /\ Id(w)[2] = served'[w] + 1 /\ ~request'[w].tx
          /\ result'[Id(w)] # "tx_ok" /\ result'[Id(w)] # "tx_fail"
          /\ ~setting'.validation /\ result'[Id(w)] = "ok" => Row(Id(w)) \in durable'
          /\ ~setting'.validation /\ ~setting'.response /\ result'[Id(w)] = "fail" =>
               Row(Id(w)) \notin durable' /\ Row(Id(w)) \notin pending'[w]
      BY <1>1, <1>3, <2>4, <3>1, <3>2
    <3>4. PICK id : id = Id(w)
      OBVIOUS
    <3> QED
      BY <1>10, <2>2, <2>4, <3>2, <3>3, <3>4 DEF Reported
  <2> QED
    BY <2>3, <2>4
<1>17. Leftover(w)'
  <2>1. result[Id(w)] = "none"
    BY <1>1, <1>2, <1>3 DEF Local, Reported
  <2>2. \A x \in pending[w] : x[1] \in OpIds
    BY <1>2, Scalars, ItemFacts
  <2> QED
    BY <1>1, <1>2, <1>3, <1>6, <1>7, <1>10, <2>1, <2>2 DEF Local, Leftover
<1>18. Parts(w)'
  <2>1. l = "finish" => Id(w)' = Id(w)
    BY <1>1, <1>3, <1>4, <1>7 DEF Id
  <2>2. \A i \in OpIds : result'[i] \in {"tx_ok", "tx_fail"} => result'[i] = result[i]
    BY <1>3, <1>6
  <2> QED
    BY <1>1, <1>2, <1>4, <1>7, <1>10, <2>1, <2>2 DEF Local, Parts, Current
<1>19. Local(w)'
  BY <1>11, <1>12, <1>13, <1>14, <1>15, <1>16, <1>17, <1>18 DEF Local
<1> QED
  BY <1>8, <1>9, <1>19, Compose

\* A transactional request ends: all its work is committed, or rolled back.
LEMMA TxEndStep ==
    ASSUME WInv, NEW w \in Workers, tx_commit(w) \/ tx_rollback(w), setting' = setting
    PROVE  WInv'
<1> USE DEF InOp
<1>1. /\ pc[w] = "finish" /\ request[w].tx
      /\ activeTx' = [activeTx EXCEPT ![w] = "none"]
      /\ pc' = [pc EXCEPT ![w] = "idle"] /\ served' = [served EXCEPT ![w] = served[w] + 1]
      /\ pending' = [pending EXCEPT ![w] = {}]
      /\ UNCHANGED <<request, guard, opn, owns, rc, touched, image>>
  BY DEF tx_commit, tx_rollback, Goto, opvars, CommitWork, RollbackWork
<1>2. TypeOK /\ Local(w) /\ Busy(w)
  BY <1>1 DEF WInv, Busy
<1>3. /\ served[w] \in Nat /\ served[w] + 1 \in 0 .. MaxRequests /\ opn[w] \in Nat /\ MaxOps \in Nat
      /\ Len(request[w].ops) \in 1 .. MaxOps /\ rc[w] \in {"ok", "fail"} /\ MaxRequests \in Nat
  BY <1>2, Scalars, ShapeFacts, WritePathAssumption DEF Local, Place
<1>4. PICK outcome \in {"tx_ok", "tx_fail"} :
        /\ Conclude(w, outcome)
        /\ outcome = "tx_ok" => rc[w] = "ok" /\ durable' = durable \cup pending[w]
        /\ outcome = "tx_fail" => durable' = durable
  BY DEF tx_commit, tx_rollback, CommitWork, RollbackWork
<1>5. /\ result' \in [OpIds -> {"none", "ok", "fail", "tx_ok", "tx_fail"}]
      /\ \A i \in OpIds : result'[i] = IF Current(w, i) /\ i[3] <= Len(request[w].ops)
                                         THEN outcome ELSE result[i]
  BY <1>2, <1>4 DEF Conclude, TypeOK, Current
<1>6. pc'[w] = "idle" /\ served'[w] = served[w] + 1 /\ activeTx'[w] = "none" /\ pending'[w] = {}
  BY <1>1, <1>2 DEF TypeOK
<1>7. \A x \in pending[w] : x \in Items /\ x[1][1] = w
  BY <1>2, Scalars DEF Local, Fresh
<1>8. TypeOK' /\ GuardReleased'
  <2>1. durable' \in SUBSET Items
    BY <1>2, <1>4, <1>7 DEF TypeOK
  <2>2. TypeOK'
    BY <1>1, <1>2, <1>3, <1>5, <2>1 DEF TypeOK
  <2> QED
    BY <1>1, <2>2, GuardStep DEF GuardKept
<1>9. \A u \in Workers : u # w => Same(u)
  <2>1. \A u \in Workers : u # w => \A x \in Items : x[1][1] = u => (x \in durable' <=> x \in durable)
    BY <1>4, <1>7
  <2>2. \A u \in Workers : u # w => \A i \in OpIds : i[1] = u => result'[i] = result[i]
    BY <1>5 DEF Current
  <2> QED
    BY <1>1, <1>2, <2>1, <2>2 DEF Same, TypeOK
<1>10. ~Busy(w)' /\ ~Executed(w)'
  BY <1>6 DEF Busy, Executed
<1>11. Place(w)'
  BY <1>6, <1>10 DEF Place
<1>12. Ownership(w)'
  BY <1>6, <1>10 DEF Ownership
<1>13. Fresh(w)'
  <2>1. \A x \in Items : x[1][2] \in Nat
    BY ItemFacts, OpFacts, WritePathAssumption
  <2>2. ASSUME NEW x \in Items, x \in pending'[w] \/ (x \in durable' /\ x[1][1] = w)
        PROVE  x[1][1] = w /\ x[1][2] <= served'[w]
    <3>1. x \in pending[w] \/ (x \in durable /\ x[1][1] = w)
      BY <1>4, <1>6, <2>2
    <3> QED
      BY <1>2, <1>3, <1>6, <2>1, <3>1 DEF Local, Fresh
  <2> QED
    BY <2>2 DEF Fresh
<1>14. TxRows(w)' /\ OwnRow(w)'
  BY <1>6, <1>10 DEF TxRows, OwnRow
<1>15. Reported(w)'
  <2>1. \A i \in OpIds : i[2] \in Nat /\ i[3] \in Nat
    BY OpFacts, WritePathAssumption
  <2>2. ASSUME NEW i \in OpIds, i[1] = w, Current(w, i) /\ i[3] <= Len(request[w].ops)
        PROVE  /\ result'[i] = outcome /\ i[2] <= served'[w]
               /\ outcome = "tx_ok" => Row(i) \in durable'
               /\ outcome = "tx_fail" => Row(i) \notin durable'
    <3>1. CASE outcome = "tx_ok"
      <4>1. rc[w] = "ok" /\ opn[w] = Len(request[w].ops) /\ Executed(w)
        BY <1>1, <1>2, <1>4, <3>1 DEF Local, Place, Executed
      <4>2. Row(i) \in pending[w]
        BY <1>1, <1>2, <1>3, <2>1, <2>2, <4>1 DEF Local, TxRows
      <4> QED
        BY <1>3, <1>4, <1>5, <1>6, <2>1, <2>2, <3>1, <4>2 DEF Current
    <3>2. CASE outcome = "tx_fail"
      BY <1>1, <1>2, <1>3, <1>4, <1>5, <1>6, <2>1, <2>2, <3>2 DEF Local, TxRows, Current
    <3> QED
      BY <1>4, <3>1, <3>2
  <2>3. ASSUME NEW i \in OpIds, i[1] = w, ~(Current(w, i) /\ i[3] <= Len(request[w].ops))
        PROVE  /\ result'[i] = result[i]
               /\ result[i] # "none" => i[2] <= served'[w]
               /\ Row(i) \in durable => Row(i) \in durable'
               /\ Row(i) \notin durable /\ Row(i) \notin pending[w] => Row(i) \notin durable'
    BY <1>1, <1>2, <1>3, <1>4, <1>5, <1>6, <2>1, <2>3 DEF Local, Reported
  <2> QED
    BY <1>2, <1>6, <2>2, <2>3 DEF Local, Reported
<1>16. Leftover(w)'
  BY <1>6 DEF Leftover
<1>17. Parts(w)'
  <2>1. /\ Id(w) \in OpIds /\ Id(w)[1] = w /\ Id(w)[2] = served[w] + 1 /\ Id(w)[3] = opn[w]
    BY <1>2, IdFacts DEF Local, Place
  <2>2. \A i \in OpIds : i[1] = w /\ i[2] = served[w] + 1 =>
          Part(i) \notin durable /\ (outcome = "tx_ok" => Part(i) \notin pending[w])
    BY <1>1, <1>2, <1>4 DEF Local, Parts, Current
  <2>3. ASSUME NEW i \in OpIds, i[1] = w, Part(i) \in durable'
        PROVE  \E j \in OpIds : Later(j, i) /\ Row(j) \in durable'
    <3>1. CASE Part(i) \in durable
      BY <1>2, <1>4, <2>3, <3>1 DEF Local, Parts
    <3>2. CASE Part(i) \in pending[w] /\ outcome = "tx_ok"
      <4>1. rc[w] = "ok" /\ Executed(w)
        BY <1>1, <1>4, <3>2 DEF Executed
      <4>2. Row(Id(w)) \in durable'
        BY <1>1, <1>2, <1>4, <2>1, <3>2, <4>1 DEF Local, TxRows, Current
      <4>3. Part(i) \in Items /\ Part(i)[1] = i /\ i[2] \in Nat /\ i[3] \in Nat
        BY ItemFacts, OpFacts, WritePathAssumption
      <4>4. i[2] <= served[w]
        BY <1>2, <2>2, <2>3, <3>2, <4>3 DEF Local, Fresh
      <4>5. Later(Id(w), i)
        BY <1>3, <2>1, <2>3, <4>3, <4>4 DEF Later
      <4> QED
        BY <2>1, <4>2, <4>5
    <3> QED
      BY <1>4, <2>3, <3>1, <3>2
  <2>4. ASSUME NEW i \in OpIds, i[1] = w, result'[i] \in {"tx_ok", "tx_fail"}
        PROVE  Part(i) \notin durable'
    <3>1. CASE Current(w, i)
      BY <1>4, <2>2, <2>4, <3>1 DEF Current
    <3>2. CASE ~Current(w, i)
      BY <1>2, <1>4, <1>5, <2>4, <3>2 DEF Local, Parts
    <3> QED
      BY <3>1, <3>2
  <2> QED
    BY <1>6, <1>10, <2>3, <2>4 DEF Parts
<1>18. Local(w)'
  BY <1>11, <1>12, <1>13, <1>14, <1>15, <1>16, <1>17 DEF Local
<1> QED
  BY <1>8, <1>9, <1>18, Compose

\* A plain request just returns.
LEMMA EndStep ==
    ASSUME WInv, NEW w \in Workers, end_request(w), setting' = setting
    PROVE  WInv'
<1> USE DEF InOp
<1>1. /\ pc[w] = "finish" /\ ~request[w].tx
      /\ pc' = [pc EXCEPT ![w] = "idle"] /\ served' = [served EXCEPT ![w] = served[w] + 1]
      /\ UNCHANGED <<request, activeTx, pending, durable, guard, result, opn, owns, rc, touched, image>>
  BY DEF end_request, Goto, opvars
<1>2. TypeOK /\ Local(w) /\ Busy(w)
  BY <1>1 DEF WInv, Busy
<1>3. served[w] \in Nat /\ served[w] + 1 \in 0 .. MaxRequests /\ MaxRequests \in Nat
  BY <1>2, Scalars, WritePathAssumption DEF Local, Place
<1>4. pc'[w] = "idle" /\ served'[w] = served[w] + 1 /\ ~Busy(w)' /\ ~Executed(w)'
  BY <1>1, <1>2 DEF TypeOK, Busy, Executed
<1>5. TypeOK' /\ GuardReleased'
  <2>1. TypeOK'
    BY <1>1, <1>2, <1>3 DEF TypeOK
  <2> QED
    BY <1>1, <2>1, GuardStep DEF GuardKept
<1>6. \A u \in Workers : u # w => Same(u)
  BY <1>1, <1>2 DEF Same, TypeOK
<1>7. Place(w)' /\ Ownership(w)' /\ TxRows(w)' /\ OwnRow(w)'
  BY <1>1, <1>2, <1>4 DEF Local, Place, Ownership, TxRows, OwnRow
<1>8. Fresh(w)'
  <2>1. \A x \in Items : x[1][2] \in Nat
    BY ItemFacts, OpFacts, WritePathAssumption
  <2> QED
    BY <1>1, <1>2, <1>3, <1>4, <2>1 DEF Local, Fresh
<1>9. Reported(w)'
  <2>1. \A i \in OpIds : i[2] \in Nat
    BY OpFacts, WritePathAssumption
  <2> QED
    BY <1>1, <1>2, <1>3, <1>4, <2>1 DEF Local, Reported
<1>10. Leftover(w)'
  BY <1>1, <1>2, <1>4 DEF Local, Leftover
<1>11. Parts(w)'
  BY <1>1, <1>2, <1>4 DEF Local, Parts
<1>12. Local(w)'
  BY <1>7, <1>8, <1>9, <1>10, <1>11 DEF Local
<1> QED
  BY <1>5, <1>6, <1>12, Compose

\* The worker gives its session back.
LEMMA ReleaseStep ==
    ASSUME WInv, NEW w \in Workers, release(w), setting' = setting
    PROVE  WInv'
<1> USE DEF InOp
<1>1. /\ pc[w] = "idle" /\ pc' = [pc EXCEPT ![w] = "released"]
      /\ pending' = [pending EXCEPT ![w] = {}]
      /\ UNCHANGED <<request, served, activeTx, durable, guard, result, opn, owns, rc, touched, image>>
  BY DEF release, Goto, opvars, RollbackWork
<1>2. TypeOK /\ Local(w) /\ ~Busy(w)
  BY <1>1 DEF WInv, Busy
<1>3. pc'[w] = "released" /\ pending'[w] = {} /\ ~Busy(w)' /\ ~Executed(w)'
  BY <1>1, <1>2 DEF TypeOK, Busy, Executed
<1>4. TypeOK' /\ GuardReleased'
  <2>1. TypeOK'
    BY <1>1, <1>2 DEF TypeOK
  <2> QED
    BY <1>1, <2>1, GuardStep DEF GuardKept
<1>5. \A u \in Workers : u # w => Same(u)
  BY <1>1, <1>2 DEF Same, TypeOK
<1>6. Place(w)' /\ Ownership(w)' /\ TxRows(w)' /\ OwnRow(w)'
  BY <1>1, <1>2, <1>3 DEF Local, Place, Ownership, TxRows, OwnRow
<1>7. Fresh(w)' /\ Reported(w)' /\ Leftover(w)' /\ Parts(w)'
  BY <1>1, <1>2, <1>3 DEF Local, Fresh, Reported, Leftover, Parts
<1>8. Local(w)'
  BY <1>6, <1>7 DEF Local
<1> QED
  BY <1>4, <1>5, <1>8, Compose

\* The stages that write nothing.
LEMMA StageSteps ==
    ASSUME WInv, NEW w \in Workers, setting' = setting,
           \/ insert_prepare(w) \/ update_prepare(w) \/ delete_prepare(w)
           \/ update_before_image(w) \/ delete_before_image(w)
           \/ insert_write_lobs(w) \/ update_write_lobs(w)
           \/ insert_audit(w) \/ update_audit(w) \/ delete_audit(w)
           \/ audit_trail_insert_entry(w) \/ audit_build_fields(w) \/ audit_build_snapshot(w)
           \/ insert_respond(w) \/ update_respond(w) \/ delete_respond(w)
    PROVE  WInv'
<1> USE DEF InOp
<1>1. TypeOK /\ Local(w) /\ image \in [Workers -> BOOLEAN] /\ guard \in BOOLEAN
  BY DEF WInv, TypeOK
<1>2. pc[w] \in InOp \ {"cleanup"} => rc[w] = "ok" /\ rc = [rc EXCEPT ![w] = "ok"]
  BY <1>1 DEF Local, Place, TypeOK
<1>3. CASE insert_prepare(w) \/ update_prepare(w) \/ delete_prepare(w)
  <2>1. PICK l \in {"execute", "before"} : /\ pc[w] = "prepare" /\ Prepare(w, l)
                                           /\ l = "before" => Op(w) # "insert"
    BY <1>3 DEF insert_prepare, update_prepare, delete_prepare, At
  <2>2. ~Executed(w) /\ ~ExecutedAt(w, l, "ok") /\ GuardKept(w, l) /\ GuardKept(w, "cleanup")
    BY <2>1 DEF Executed, ExecutedAt, GuardKept, Prepare
  <2>3. CASE Goto(w, l) /\ UNCHANGED rc
    BY <1>1, <1>2, <2>1, <2>2, <2>3, AdvanceStep DEF Prepare, KeepRequest, Goto
  <2>4. CASE Fail(w)
    BY <1>1, <2>1, <2>2, <2>4, AdvanceStep DEF Prepare, KeepRequest, Goto, Fail
  <2> QED
    BY <2>1, <2>3, <2>4 DEF Prepare, StageTo
<1>4. CASE update_before_image(w) \/ delete_before_image(w)
  <2>1. PICK l \in {"execute", "audit"} :
          /\ pc[w] = "before" /\ audit_trail_fetch_before_image(w) /\ Goto(w, l)
          /\ l = "audit" => Op(w) = "delete"
    BY <1>4 DEF update_before_image, delete_before_image, At
  <2>2. ~Executed(w) /\ ~ExecutedAt(w, l, "ok") /\ GuardKept(w, l)
    BY <2>1 DEF Executed, ExecutedAt, GuardKept, audit_trail_fetch_before_image
  <2>3. image' \in [Workers -> BOOLEAN]
    BY <1>1, <2>1 DEF audit_trail_fetch_before_image
  <2> QED
    BY <1>1, <1>2, <2>1, <2>2, <2>3, AdvanceStep
       DEF audit_trail_fetch_before_image, KeepRequest, Goto
<1>5. CASE insert_write_lobs(w) \/ update_write_lobs(w)
  <2>1. pc[w] = "lobs" /\ WriteLobs(w) /\ Op(w) # "delete"
    BY <1>5 DEF insert_write_lobs, update_write_lobs, At
  <2>2. Executed(w) /\ ExecutedAt(w, "audit", "ok") /\ GuardKept(w, "audit") /\ GuardKept(w, "cleanup")
    BY <2>1 DEF Executed, ExecutedAt, GuardKept, WriteLobs
  <2>3. CASE Goto(w, "audit") /\ UNCHANGED rc
    BY <1>1, <1>2, <2>1, <2>2, <2>3, AdvanceStep DEF WriteLobs, KeepRequest, Goto
  <2>4. CASE Fail(w)
    BY <1>1, <2>1, <2>2, <2>4, AdvanceStep DEF WriteLobs, KeepRequest, Goto, Fail
  <2> QED
    BY <2>1, <2>3, <2>4 DEF WriteLobs, StageTo
<1>6. CASE insert_audit(w) \/ update_audit(w) \/ delete_audit(w) \/ audit_trail_insert_entry(w)
           \/ audit_build_fields(w) \/ audit_build_snapshot(w)
  <2>1. PICK l \in {"commit", "execute", "guard", "build", "auditing"} :
          /\ pc[w] \in {"audit", "guard", "build"} /\ KeepAllBut(l, w) /\ UNCHANGED pending
          /\ guard' \in BOOLEAN /\ GuardKept(w, l)
          /\ l = "commit" => Op(w) # "delete"
          /\ l = "execute" => Op(w) = "delete"
    <3>1. CASE insert_audit(w)
      BY <1>1, <3>1 DEF insert_audit, At, GuardKept
    <3>2. CASE update_audit(w)
      BY <1>1, <3>2 DEF update_audit, At, GuardKept
    <3>3. CASE delete_audit(w)
      BY <1>1, <3>3 DEF delete_audit, At, GuardKept
    <3>4. CASE audit_trail_insert_entry(w)
      BY <1>1, <3>4 DEF audit_trail_insert_entry, AfterAudit, GuardKept
    <3>5. CASE audit_build_fields(w) \/ audit_build_snapshot(w)
      BY <1>1, <3>5 DEF audit_build_fields, audit_build_snapshot, BuildAuditRows,
         AfterAudit, At, GuardKept
    <3> QED
      BY <1>6, <3>1, <3>2, <3>3, <3>4, <3>5
  <2>2. Executed(w) <=> ExecutedAt(w, l, "ok")
    BY <2>1 DEF Executed, ExecutedAt
  <2>3. image' \in [Workers -> BOOLEAN]
    BY <1>1, <2>1 DEF KeepAllBut
  <2> QED
    BY <1>1, <1>2, <2>1, <2>2, <2>3, AdvanceStep DEF KeepAllBut, KeepRequest, Goto
<1>7. CASE insert_respond(w) \/ update_respond(w) \/ delete_respond(w)
  <2>1. pc[w] = "respond" /\ Respond(w)
    BY <1>7 DEF insert_respond, update_respond, delete_respond, At
  <2>2. Executed(w) /\ ExecutedAt(w, "cleanup", "ok") /\ GuardKept(w, "cleanup")
    BY <2>1 DEF Executed, ExecutedAt, GuardKept, Respond
  <2>3. CASE UNCHANGED rc
    BY <1>1, <1>2, <2>1, <2>2, <2>3, AdvanceStep DEF Respond, KeepRequest, Goto
  <2>4. CASE setting.response /\ rc' = [rc EXCEPT ![w] = "fail"]
    BY <1>1, <2>1, <2>2, <2>4, AdvanceStep DEF Respond, KeepRequest, Goto
  <2> QED
    BY <2>1, <2>3, <2>4 DEF Respond
<1> QED
  BY <1>3, <1>4, <1>5, <1>6, <1>7

-----------------------------------------------------------------------------

\* The invariant holds before the first request.
LEMMA WInitOK == Init => WInv
<1> SUFFICES ASSUME Init PROVE WInv
  OBVIOUS
<1>1. /\ \A w \in Workers : /\ pc[w] = "idle" /\ served[w] = 0 /\ pending[w] = {}
                            /\ activeTx[w] = "none"
      /\ durable = {} /\ guard = FALSE /\ \A i \in OpIds : result[i] = "none"
  BY DEF Init
<1>2. TypeOK
  <2>1. <<"insert">> \in [1 .. 1 -> Kinds] /\ 1 \in 1 .. MaxOps /\ 0 \in 0 .. MaxRequests
    BY WritePathAssumption DEF Kinds
  <2>2. [tx |-> FALSE, ops |-> <<"insert">>] \in RequestShapes
    BY <2>1 DEF RequestShapes
  <2> QED
    BY <2>1, <2>2 DEF Init, TypeOK
<1>3. ASSUME NEW w \in Workers PROVE Local(w)
  <2>1. ~Busy(w) /\ ~Executed(w) /\ pc[w] \notin InOp
    BY <1>1 DEF Busy, Executed, InOp
  <2>2. Place(w) /\ Ownership(w) /\ TxRows(w) /\ OwnRow(w)
    BY <1>1, <2>1 DEF Place, Ownership, TxRows, OwnRow
  <2>3. Fresh(w) /\ Reported(w) /\ Leftover(w) /\ Parts(w)
    BY <1>1, <2>1 DEF Fresh, Reported, Leftover, Parts
  <2> QED
    BY <2>2, <2>3 DEF Local
<1> QED
  BY <1>1, <1>2, <1>3 DEF WInv, GuardReleased, Init

\* Every step of every worker keeps it.
LEMMA WorkerStepOK ==
    ASSUME WInv, NEW w \in Workers, WorkerStep(w), setting' = setting
    PROVE  WInv'
<1>1. CASE begin_request(w) \/ next_operation(w) \/ tx_commit(w) \/ tx_rollback(w)
           \/ end_request(w) \/ release(w)
  BY <1>1, BeginStep, NextStep, TxEndStep, EndStep, ReleaseStep
<1>2. CASE insert_validate(w) \/ update_validate(w) \/ delete_validate(w)
  BY <1>2, ValidateStep DEF insert_validate, update_validate, delete_validate, At
<1>3. CASE insert_execute(w) \/ update_execute(w) \/ delete_execute(w)
  BY <1>3, ExecuteStep DEF insert_execute, update_execute, delete_execute, At
<1>4. CASE audit_write_fields(w) \/ audit_write_snapshot(w)
  BY <1>4, WriteAuditStep DEF audit_write_fields, audit_write_snapshot, At
<1>5. CASE insert_commit(w) \/ update_commit(w) \/ delete_commit(w)
  BY <1>5, CommitStep DEF insert_commit, update_commit, delete_commit, At
<1>6. CASE insert_cleanup(w)
  <2>1. PICK leave \in BOOLEAN : leave = Managed(w)
    BY DEF Managed
  <2> QED
    BY <1>6, <2>1, CleanupStep DEF insert_cleanup, At
<1>7. CASE update_cleanup(w) \/ delete_cleanup(w)
  BY <1>7, CleanupStep DEF update_cleanup, delete_cleanup, At
<1> QED
  BY <1>1, <1>2, <1>3, <1>4, <1>5, <1>6, <1>7, StageSteps
     DEF WorkerStep, dispatch_insert_new, dispatch_update_new, dispatch_delete_new, audit_trail_insert

\* A step that changes nothing keeps it.
LEMMA WStutter ==
    ASSUME WInv, UNCHANGED vars
    PROVE  WInv'
<1>1. TypeOK' /\ GuardReleased' /\ setting' \in Settings
  BY DEF WInv, TypeOK, GuardReleased, vars
<1>2. ASSUME NEW u \in Workers PROVE Local(u)'
  <2>1. Same(u)
    BY DEF Same, vars
  <2> QED
    BY <2>1, Frame
<1> QED
  BY <1>1, <1>2 DEF WInv

\* The invariant is inductive.
LEMMA WNextOK == WInv /\ [Next]_vars => WInv'
BY WorkerStepOK, WStutter DEF Next, Finished

-----------------------------------------------------------------------------
(* One worker: rows and audit rows                                          *)

\* Only the stage changes, or nothing of what is written.
LEMMA AuditedKept ==
    ASSUME NEW w \in Workers, Audited(w), durable' = durable,
           pending'[w] = pending[w] \/ pending'[w] = {},
           \A i \in OpIds : Row(i) \in pending'[w] =>
             \/ Audit(i) \in pending[w]
             \/ i = Id(w)' /\ pc'[w] \in {"lobs", "audit", "guard", "build", "auditing"}
             \/ i = Id(w)' /\ pc'[w] \in {"cleanup", "next", "finish"} /\ rc'[w] = "fail"
    PROVE  Audited(w)'
<1>1. CASE pending'[w] = pending[w]
  BY <1>1 DEF Audited
<1>2. CASE pending'[w] = {}
  BY <1>2 DEF Audited
<1> QED
  BY <1>1, <1>2

\* The single worker's steps.
LEMMA AStepOK ==
    ASSUME WInv, WInv', NEW w \in Workers, \A u \in Workers : u = w, Image(w), Audited(w),
           WorkerStep(w), setting' = setting, ~setting.audit, ~setting.validation
    PROVE  Image(w)' /\ Audited(w)'
<1> USE DEF InOp
<1>1. TypeOK /\ Local(w) /\ TypeOK' /\ guard \in BOOLEAN /\ (guard <=> pc[w] = "auditing")
  BY DEF WInv, TypeOK, Image
<1>2. CASE begin_request(w)
  <2>1. /\ pc[w] = "idle" /\ pc'[w] = "start" /\ UNCHANGED <<pending, durable, guard>>
    BY <1>1, <1>2 DEF begin_request, Goto, TypeOK
  <2>2. Image(w)'
    BY <1>1, <2>1 DEF Image
  <2> QED
    BY <2>1, <2>2, AuditedKept DEF Audited
<1>3. CASE next_operation(w)
  <2>1. /\ pc[w] = "next" /\ pc'[w] \in {"start", "finish"} /\ UNCHANGED <<pending, durable, guard, rc, served>>
        /\ pc'[w] = "finish" => opn' = opn
        /\ pc'[w] = "start" => ~request[w].tx \/ rc[w] = "ok"
    BY <1>1, <1>3, Scalars DEF next_operation, Goto, TypeOK
  <2>2. Image(w)'
    BY <1>1, <2>1 DEF Image
  <2>3. pc'[w] = "finish" => Id(w)' = Id(w)
    BY <2>1 DEF Id
  <2>4. pc'[w] = "start" => rc[w] = "ok" \/ Row(Id(w)) \notin pending[w]
    BY <1>1, <2>1 DEF Local, OwnRow
  <2> QED
    BY <2>1, <2>2, <2>3, <2>4, AuditedKept DEF Audited
<1>4. CASE tx_commit(w) \/ tx_rollback(w)
  <2>1. /\ pc[w] = "finish" /\ pc'[w] = "idle" /\ pending'[w] = {} /\ UNCHANGED guard
        /\ \/ durable' = durable
           \/ durable' = durable \cup pending[w] /\ rc[w] = "ok"
    BY <1>1, <1>4 DEF tx_commit, tx_rollback, Goto, TypeOK, CommitWork, RollbackWork
  <2>2. Image(w)'
    BY <1>1, <2>1 DEF Image
  <2> QED
    BY <2>1, <2>2 DEF Audited
<1>5. CASE end_request(w) \/ release(w)
  <2>1. /\ pc'[w] \in {"idle", "released"} /\ pc[w] \in {"finish", "idle"} /\ UNCHANGED <<durable, guard>>
        /\ pending'[w] = pending[w] \/ pending'[w] = {}
        /\ pc[w] = "finish" => ~request[w].tx
    BY <1>1, <1>5 DEF end_request, release, RollbackWork, Goto, TypeOK
  <2>2. Image(w)'
    BY <1>1, <2>1 DEF Image
  <2>3. \A i \in OpIds : pc[w] = "finish" => Row(i) \notin pending[w]
    BY <1>1, <2>1, ItemFacts DEF Local, Leftover
  <2> QED
    BY <2>1, <2>2, <2>3, AuditedKept DEF Audited
<1>6. CASE insert_validate(w) \/ update_validate(w) \/ delete_validate(w)
  <2>1. /\ pc[w] = "start" /\ pc'[w] = "prepare" /\ UNCHANGED <<pending, durable, guard>>
    BY <1>1, <1>6 DEF insert_validate, update_validate, delete_validate, Validate, At,
       Goto, TypeOK
  <2>2. Image(w)'
    BY <1>1, <2>1 DEF Image
  <2> QED
    BY <2>1, <2>2, AuditedKept DEF Audited
<1>7. CASE \/ insert_prepare(w) \/ update_prepare(w) \/ delete_prepare(w)
           \/ update_before_image(w) \/ delete_before_image(w)
           \/ insert_write_lobs(w) \/ update_write_lobs(w)
           \/ insert_respond(w) \/ update_respond(w) \/ delete_respond(w)
  <2>1. /\ UNCHANGED <<pending, durable, guard, request, served, opn>>
        /\ Op(w)' = Op(w) /\ Id(w)' = Id(w)
    BY <1>7 DEF insert_prepare, update_prepare, delete_prepare, Prepare,
       update_before_image,
         delete_before_image, audit_trail_fetch_before_image, insert_write_lobs, update_write_lobs,
         WriteLobs, insert_respond, update_respond, delete_respond, Respond, KeepRequest, Op, Id
  <2>2. CASE insert_prepare(w) \/ update_prepare(w) \/ delete_prepare(w)
    <3>1. /\ pc[w] = "prepare" /\ pc'[w] \in {"before", "execute", "cleanup"} /\ (pc'[w] = "execute" => Op(w) = "insert")
      BY <1>1, <2>2 DEF insert_prepare, update_prepare, delete_prepare, Prepare, StageTo,
         Fail, Goto, At, TypeOK
    <3>2. Image(w)'
      BY <1>1, <2>1, <3>1 DEF Image
    <3> QED
      BY <2>1, <3>1, <3>2, AuditedKept DEF Audited
  <2>3. CASE update_before_image(w) \/ delete_before_image(w)
    <3>1. /\ pc[w] = "before" /\ image'[w] = TRUE
          /\ (pc'[w] = "execute" /\ Op(w) = "update") \/ (pc'[w] = "audit" /\ Op(w) = "delete")
      <4>1. audit_trail_fetch_before_image(w) /\ pc[w] = "before"
        BY <2>3 DEF update_before_image, delete_before_image, At
      <4>2. PICK fetched \in {TRUE} : image' = [image EXCEPT ![w] = ~guard /\ fetched]
        BY <4>1 DEF audit_trail_fetch_before_image
      <4>3. (~guard /\ fetched) = TRUE
        BY <1>1, <4>1, <4>2
      <4>4. image'[w] = TRUE
        BY <1>1, <4>2, <4>3 DEF TypeOK
      <4> QED
        BY <1>1, <2>3, <4>1, <4>4 DEF update_before_image, delete_before_image, Goto, At,
           TypeOK
    <3>2. Image(w)'
      BY <1>1, <2>1, <3>1 DEF Image
    <3> QED
      BY <2>1, <3>1, <3>2, AuditedKept DEF Audited
  <2>4. CASE insert_write_lobs(w) \/ update_write_lobs(w)
    <3>1. /\ pc[w] = "lobs" /\ image' = image /\ Op(w) # "delete"
          /\ pc'[w] = "audit" \/ (pc'[w] = "cleanup" /\ rc'[w] = "fail")
      BY <1>1, <2>4 DEF insert_write_lobs, update_write_lobs, WriteLobs, StageTo, Fail,
         Goto, At, TypeOK
    <3>2. Image(w)'
      BY <1>1, <2>1, <3>1 DEF Image
    <3> QED
      BY <2>1, <3>1, <3>2, AuditedKept DEF Audited
  <2>5. CASE insert_respond(w) \/ update_respond(w) \/ delete_respond(w)
    <3>1. pc[w] = "respond" /\ pc'[w] = "cleanup"
      BY <1>1, <2>5 DEF insert_respond, update_respond, delete_respond, Respond, Goto, At,
         TypeOK
    <3>2. Image(w)'
      BY <1>1, <2>1, <3>1 DEF Image
    <3> QED
      BY <2>1, <3>1, <3>2, AuditedKept DEF Audited
  <2> QED
    BY <1>7, <2>2, <2>3, <2>4, <2>5
<1>8. CASE insert_audit(w) \/ update_audit(w) \/ delete_audit(w) \/ audit_trail_insert_entry(w)
           \/ audit_build_fields(w) \/ audit_build_snapshot(w)
  <2>1. /\ UNCHANGED <<pending, durable, request, served, opn>>
        /\ Op(w)' = Op(w) /\ Id(w)' = Id(w)
    BY <1>8 DEF insert_audit, update_audit, delete_audit, audit_trail_insert_entry,
       audit_build_fields,
         audit_build_snapshot, BuildAuditRows, KeepAllBut, KeepRequest, Op, Id
  <2>2. CASE insert_audit(w) \/ update_audit(w) \/ delete_audit(w) \/ audit_trail_insert_entry(w)
    <3>1. /\ pc[w] \in {"audit", "guard"} /\ pc'[w] \in {"guard", "build"} /\ guard' = guard
      BY <1>1, <2>2 DEF insert_audit, update_audit, delete_audit, audit_trail_insert_entry,
         KeepAllBut,
           Goto, At, TypeOK, Image
    <3>2. Image(w)'
      BY <1>1, <2>1, <3>1 DEF Image
    <3> QED
      BY <2>1, <3>1, <3>2, AuditedKept DEF Audited
  <2>3. CASE audit_build_fields(w) \/ audit_build_snapshot(w)
    <3>1. /\ pc[w] = "build" /\ pc'[w] = "auditing" /\ guard' = TRUE
      BY <1>1, <2>3 DEF audit_build_fields, audit_build_snapshot, BuildAuditRows,
         KeepAllBut, Goto, At, TypeOK
    <3>2. Image(w)'
      BY <1>1, <2>1, <3>1 DEF Image
    <3> QED
      BY <2>1, <3>1, <3>2, AuditedKept DEF Audited
  <2> QED
    BY <1>8, <2>2, <2>3
<1>9. CASE audit_write_fields(w) \/ audit_write_snapshot(w)
  <2>1. pc[w] = "auditing" /\ WriteAuditRows(w) /\ guard
    BY <1>1, <1>9 DEF audit_write_fields, audit_write_snapshot, At
  <2>2. /\ UNCHANGED <<durable, request, served, opn, image>> /\ guard' = FALSE
        /\ Op(w)' = Op(w) /\ Id(w)' = Id(w) /\ pc'[w] = (IF Op(w) = "delete" THEN "execute" ELSE "commit")
    BY <1>1, <2>1 DEF WriteAuditRows, KeepAllBut, KeepRequest, Op, Id, AfterAudit, Goto,
       TypeOK
  <2>3. pending'[w] = pending[w] \cup {Audit(Id(w))}
    BY <1>1, <2>1 DEF WriteAuditRows, Write, Audit, TypeOK
  <2>4. Audit(Id(w))[2] # "echo" /\ \A i \in OpIds : Row(i) # Audit(Id(w))
    BY ItemFacts DEF Row, Audit
  <2>5. Op(w) = "update" => Op(w) # "delete"
    OBVIOUS
  <2>6. Image(w)'
    BY <1>1, <2>1, <2>2, <2>3 DEF Image
  <2>7. Audited(w)'
    BY <2>1, <2>2, <2>3, <2>4 DEF Audited
  <2> QED
    BY <2>6, <2>7
<1>10. CASE insert_execute(w) \/ update_execute(w) \/ delete_execute(w)
  <2>1. PICK l \in {"lobs", "commit"} : /\ pc[w] = "execute" /\ Execute(w, l)
                                        /\ l = "lobs" <=> Op(w) # "delete"
    BY <1>10 DEF insert_execute, update_execute, delete_execute, At
  <2>2. /\ UNCHANGED <<durable, request, served, opn, image, guard>>
        /\ Op(w)' = Op(w) /\ Id(w)' = Id(w)
    BY <2>1 DEF Execute, KeepRequest, Op, Id
  <2>3. CASE pc'[w] = "cleanup" /\ pending' = pending
    <3>1. Image(w)'
      BY <1>1, <2>1, <2>2, <2>3 DEF Image
    <3> QED
      BY <2>1, <2>2, <2>3, <3>1, AuditedKept DEF Audited
  <2>4. CASE pc'[w] = l /\ pending'[w] = pending[w] \cup {Row(Id(w))}
    <3>1. Image(w)'
      BY <1>1, <2>1, <2>2, <2>4 DEF Image
    <3>2. /\ Row(Id(w))[2] # "echo" /\ \A i \in OpIds : Row(i) = Row(Id(w)) => i = Id(w)
      BY DEF Row
    <3>3. Op(w) = "delete" => Audit(Id(w)) \in pending[w]
      BY <2>1 DEF Image
    <3> QED
      BY <2>1, <2>2, <2>4, <3>1, <3>2, <3>3 DEF Audited
  <2>5. CASE pc'[w] = "cleanup" /\ rc'[w] = "fail" /\ pending'[w] = pending[w] \cup {Part(Id(w))}
    <3>1. Image(w)'
      BY <1>1, <2>1, <2>2, <2>5 DEF Image
    <3>2. /\ Part(Id(w))[2] # "echo" /\ \A i \in OpIds : Row(i) # Part(Id(w))
      BY DEF Row, Part
    <3> QED
      BY <2>1, <2>2, <2>5, <3>1, <3>2 DEF Audited
  <2> QED
    BY <1>1, <2>1, <2>3, <2>4, <2>5 DEF Execute, Fail, Goto, Write, Row, Part, TypeOK
<1>11. CASE insert_commit(w) \/ update_commit(w) \/ delete_commit(w)
  <2>1. pc[w] = "commit" /\ Commit(w)
    BY <1>11 DEF insert_commit, update_commit, delete_commit, At
  <2>2. /\ UNCHANGED <<request, served, opn, image, guard>> /\ pc'[w] \in {"respond", "cleanup"}
        /\ Op(w)' = Op(w) /\ Id(w)' = Id(w)
        /\ \/ pending' = pending /\ durable' = durable
           \/ pending'[w] = {} /\ durable' = durable \cup pending[w]
    BY <1>1, <2>1 DEF Commit, KeepRequest, KeepWork, CommitWork, Op, Id, Goto, Fail, TypeOK
  <2>3. Image(w)'
    BY <1>1, <2>1, <2>2 DEF Image
  <2> QED
    BY <2>1, <2>2, <2>3 DEF Audited
<1>12. CASE insert_cleanup(w) \/ update_cleanup(w) \/ delete_cleanup(w)
  <2>1. /\ pc[w] = "cleanup" /\ pc'[w] = "next" /\ UNCHANGED <<request, served, opn, rc, guard, durable>>
        /\ pending'[w] = pending[w] \/ pending'[w] = {}
        /\ Id(w)' = Id(w)
    BY <1>1, <1>12 DEF insert_cleanup, update_cleanup, delete_cleanup, Cleanup,
       KeepRequest, KeepWork,
         RollbackWork, Id, Goto, At, TypeOK
  <2>2. Image(w)'
    BY <1>1, <2>1 DEF Image
  <2> QED
    BY <2>1, <2>2, AuditedKept DEF Audited
<1> QED
  BY <1>2, <1>3, <1>4, <1>5, <1>6, <1>7, <1>8, <1>9, <1>10, <1>11, <1>12
     DEF WorkerStep, dispatch_insert_new, dispatch_update_new, dispatch_delete_new, audit_trail_insert

\* The single worker's invariant, and how it is kept.
LEMMA AInitOK == Init => AInv
<1> SUFFICES ASSUME Init, NEW w \in Workers PROVE Image(w) /\ Audited(w)
  BY DEF AInv
<1>1. pc[w] = "idle" /\ pending[w] = {} /\ durable = {} /\ guard = FALSE
  BY DEF Init
<1> QED
  BY <1>1 DEF Image, Audited

\* With one worker, every step keeps what AInv says of rows and audit rows.
LEMMA ANextOK ==
    ASSUME Single
    PROVE  WInv /\ AInv /\ [Next]_vars => AInv'
<1> SUFFICES ASSUME WInv, AInv, [Next]_vars, NEW w \in Workers,
                    ~setting'.audit, ~setting'.validation
             PROVE  Image(w)' /\ Audited(w)'
  BY DEF AInv
<1>1. setting' = setting /\ (WorkerStep(w) \/ UNCHANGED vars)
  BY DEF Next, Finished, vars, Single
<1>2. Image(w) /\ Audited(w) /\ ~setting.audit /\ ~setting.validation
  BY <1>1 DEF AInv
<1>3. CASE WorkerStep(w)
  BY <1>1, <1>2, <1>3, AStepOK, WNextOK DEF Single
<1>4. CASE UNCHANGED vars
  BY <1>2, <1>4 DEF Image, Audited, vars, Op, Id
<1> QED
  BY <1>1, <1>3, <1>4

-----------------------------------------------------------------------------
(* Theorems                                                                 *)

\* In every behaviour of the write path the inductive invariant holds.
THEOREM WritePathInvariant == Spec => []WInv
BY WInitOK, WNextOK, PTL DEF Spec

\* Contexts, locals and session work keep their shape.
THEOREM WritePathTypeCorrect == Spec => []TypeOK
<1>1. WInv => TypeOK
  BY DEF WInv
<1> QED
  BY <1>1, WritePathInvariant, PTL

\* audit_trail_in_progress is cleared by the audit insert that set it, however
\* the workers interleave: no write of the process goes unaudited for ever.
THEOREM AuditGuardReleased == Spec => []GuardReleased
<1>1. WInv => GuardReleased
  BY DEF WInv
<1> QED
  BY <1>1, WritePathInvariant, PTL

\* The rows of a transactional request are all committed when it reports
\* success and none is, then or later, when it reports a failure.
THEOREM TransactionsAtomic == Spec => []TxAllOrNothing
<1>1. WInv => TxAllOrNothing
  <2> SUFFICES ASSUME WInv, NEW i \in OpIds
               PROVE  /\ result[i] = "tx_ok" => <<i, "row">> \in durable
                      /\ result[i] = "tx_fail" => <<i, "row">> \notin durable
                      /\ result[i] \in {"tx_ok", "tx_fail"} => <<i, "part">> \notin durable
    BY DEF TxAllOrNothing
  <2>1. i[1] \in Workers
    BY OpFacts
  <2> QED
    BY <2>1 DEF WInv, Local, Reported, Parts, Row, Part
<1> QED
  BY <1>1, WritePathInvariant, PTL

\* A standalone INSERT, UPDATE or DELETE that reported success is committed,
\* and one whose statement was executed and that reported a failure never is,
\* where validation cannot fail (and, for failures, where the response cannot
\* either); the rows of a statement that failed half way are committed by a
\* later operation of the session, or never.
THEOREM StandaloneWritesHonest == Spec => []StandaloneHonest
<1>1. WInv => StandaloneHonest
  <2> SUFFICES ASSUME WInv PROVE StandaloneHonest
    OBVIOUS
  <2>1. \A i \in OpIds : Reported(i[1]) /\ Parts(i[1])
    BY OpFacts DEF WInv, Local
  <2>2. ~setting.validation => SuccessIsCommitted
    BY <2>1 DEF SuccessIsCommitted, Reported, Row
  <2>3. ~setting.validation /\ ~setting.response =>
          \A i \in OpIds : result[i] = "fail" => <<i, "row">> \notin durable
    BY <2>1 DEF Reported, Row
  <2>4. \A i \in OpIds : <<i, "part">> \in durable =>
          \E j \in OpIds : Later(j, i) /\ <<j, "row">> \in durable
    BY <2>1 DEF Parts, Row, Part
  <2> QED
    BY <2>2, <2>3, <2>4 DEF StandaloneHonest
<1> QED
  BY <1>1, WritePathInvariant, PTL

\* Between two requests a session holds no row of an executed statement, only
\* what operations that reported a failure left: rows of a statement that
\* failed half way, and audit rows.
THEOREM SessionsCarryFailuresOnly == Spec => []LeftoversAreAttempts
<1>1. WInv => LeftoversAreAttempts
  BY DEF WInv, Local, Leftover, LeftoversAreAttempts, Busy, InOp
<1> QED
  BY <1>1, WritePathInvariant, PTL

\* With a single worker, an audit trail that works and no rejected request, a
\* committed row has its audit row, and no audit row is audited.
THEOREM SingleWorkerAudits ==
    ASSUME Single
    PROVE  Spec => []AuditedOnce
<1>1. WInv /\ AInv => AuditedOnce
  <2> SUFFICES ASSUME WInv, AInv, ~setting.audit, ~setting.validation,
                      NEW i \in OpIds, <<i, "row">> \in durable
               PROVE  <<i, "audit">> \in durable /\ <<i, "echo">> \notin durable
    BY DEF AuditedOnce
  <2>1. Audited(i[1])
    BY OpFacts DEF AInv
  <2>2. Row(i) \in durable => Audit(i) \in durable
    BY <2>1 DEF Audited
  <2>3. Echo(i) \notin durable
    BY <2>1, ItemFacts DEF Audited
  <2> QED
    BY <2>2, <2>3 DEF Row, Audit, Echo
<1>2. Init => WInv /\ AInv
  BY WInitOK, AInitOK
<1>3. (WInv /\ AInv) /\ [Next]_vars => (WInv /\ AInv)'
  BY WNextOK, ANextOK
<1> QED
  BY <1>1, <1>2, <1>3, PTL DEF Spec
=============================================================================
