----------------------------- MODULE WritePath -----------------------------
(***************************************************************************)
(* How a write request becomes durable: the transaction scoping of         *)
(* core/dispatcher.c and Transaction_Manager.c around the INSERT, UPDATE   *)
(* and DELETE modules, which write their own audit rows through            *)
(* Audit_Trail_Manager.c.                                                  *)
(*                                                                         *)
(* Each worker has its own context (active_tx) and its own database        *)
(* session, whose uncommitted work is a set of items; the cycle guard      *)
(* audit_trail_in_progress is one int for the whole process.  Level 2 has  *)
(* accepted the request before it gets here; the modules validate again.   *)
(***************************************************************************)
EXTENDS Integers, Sequences, FiniteSets

CONSTANTS
    Workers,            \* threads that execute requests, one session each
    MaxRequests,        \* bound: requests per worker
    MaxOps,             \* bound: operations per request
    Settings            \* the environments to look at

ASSUME WritePathAssumption ==
    /\ MaxRequests \in Nat /\ MaxOps \in Nat \ {0}
    /\ Settings \subseteq [reset : BOOLEAN, validation : BOOLEAN, audit : BOOLEAN,
                            response : BOOLEAN]

Kinds == {"insert", "update", "delete"}

\* transaction_required, and the operations of one request.
RequestShapes ==
    [tx : BOOLEAN, ops : UNION {[1 .. n -> Kinds] : n \in 1 .. MaxOps}]

\* The n-th operation of the r-th request of worker w.
OpIds == Workers \X (1 .. MaxRequests) \X (1 .. MaxOps)

\* What an operation writes: its business rows, its audit rows, and (only if
\* the cycle guard fails) audit rows about its audit rows; "part" is what a
\* statement has written by the time it fails.
Items == OpIds \X {"row", "part", "audit", "echo"}

VARIABLES
    setting,    \* never changes: does the worker clear active_tx per request
                \* (http_worker_pool.c does, worker.c does not), and can
                \* validation, the audit trail or the response fail?
    pc,         \* the stage each worker is in
    request,    \* the request it executes
    served,     \* requests it has answered
    opn,        \* current operation, 1-based
    owns,       \* owns_standalone_tx
    rc,         \* the operation's return code so far
    touched,    \* did the statement change rows (rows_inserted > 0 ...)?
    image,      \* UPDATE/DELETE: old_values != NULL
    activeTx,   \* what ctx->active_tx points at
    pending,    \* uncommitted work of its session
    durable,    \* committed work
    guard,      \* audit_trail_in_progress
    result      \* what was reported for each operation

opvars == <<opn, owns, rc, touched, image>>
vars == <<setting, pc, request, served, opn, owns, rc, touched, image, activeTx, pending,
          durable, guard, result>>

Init ==
    /\ setting \in Settings
    /\ pc = [w \in Workers |-> "idle"]
    /\ request = [w \in Workers |-> [tx |-> FALSE, ops |-> <<"insert">>]]
    /\ served = [w \in Workers |-> 0]
    /\ opn = [w \in Workers |-> 1]
    /\ owns = [w \in Workers |-> FALSE]
    /\ rc = [w \in Workers |-> "ok"]
    /\ touched = [w \in Workers |-> FALSE]
    /\ image = [w \in Workers |-> FALSE]
    /\ activeTx = [w \in Workers |-> "none"]
    /\ pending = [w \in Workers |-> {}]
    /\ durable = {}
    /\ guard = FALSE
    /\ result = [i \in OpIds |-> "none"]

Op(w)   == request[w].ops[opn[w]]
Id(w)   == <<w, served[w] + 1, opn[w]>>
Goto(w, label)  == pc' = [pc EXCEPT ![w] = label]
Write(w, items) == pending' = [pending EXCEPT ![w] = @ \cup items]

CommitWork(w) ==
    /\ durable' = durable \cup pending[w]
    /\ pending' = [pending EXCEPT ![w] = {}]

\* A rollback that fails is logged and taken for done: the connection is gone
\* then, and the database rolls its work back.
RollbackWork(w) == pending' = [pending EXCEPT ![w] = {}] /\ UNCHANGED durable

KeepWork == UNCHANGED <<pending, durable>>

\* A caller's transaction is active: commit and rollback are not ours.
Managed(w) == activeTx[w] # "none" /\ ~owns[w]

-----------------------------------------------------------------------------
(* process_xml_file(): the request                                          *)

\* tx_begin() overwrites active_tx; a plain request inherits what is there.
begin_request(w) ==
    /\ pc[w] = "idle" /\ served[w] < MaxRequests
    /\ \E shape \in RequestShapes :
         /\ request' = [request EXCEPT ![w] = shape]
         /\ activeTx' = [activeTx EXCEPT ![w] =
                           IF shape.tx THEN "managed"
                           ELSE IF setting.reset THEN "none" ELSE @]
    /\ opn' = [opn EXCEPT ![w] = 1]
    /\ Goto(w, "start")
    /\ UNCHANGED <<served, owns, rc, touched, image, pending, durable, guard, result>>

\* Mutant: a transactional request goes on after a failure.
next_operation_no_break(w) ==
    /\ pc[w] = "next"
    /\ IF request[w].tx
         THEN UNCHANGED result
         ELSE result' = [result EXCEPT ![Id(w)] = rc[w]]
    /\ IF opn[w] = Len(request[w].ops)
         THEN Goto(w, "finish") /\ UNCHANGED opn
         ELSE Goto(w, "start") /\ opn' = [opn EXCEPT ![w] = @ + 1]
    /\ UNCHANGED <<request, served, owns, rc, touched, image, activeTx, pending, durable, guard>>

\* The operation returned: a transactional request stops at the first
\* failure, others go on and end with the last operation's return code.
next_operation(w) ==
    /\ pc[w] = "next"
    /\ IF request[w].tx
         THEN UNCHANGED result
         ELSE result' = [result EXCEPT ![Id(w)] = rc[w]]
    /\ LET last == opn[w] = Len(request[w].ops) \/ (request[w].tx /\ rc[w] = "fail")
       IN  IF last THEN Goto(w, "finish") /\ UNCHANGED opn
                   ELSE Goto(w, "start") /\ opn' = [opn EXCEPT ![w] = @ + 1]
    /\ UNCHANGED <<request, served, owns, rc, touched, image, activeTx, pending, durable, guard>>

\* The outcome of a transactional request holds for all its operations.
Conclude(w, outcome) ==
    result' = [i \in OpIds |->
                 IF i[1] = w /\ i[2] = served[w] + 1 /\ i[3] <= Len(request[w].ops)
                 THEN outcome ELSE result[i]]

\* tx_commit(): one commit through tx_commit_with_retry(); when that gives
\* up, rollback and ABORTED.
tx_commit(w) ==
    /\ pc[w] = "finish" /\ request[w].tx /\ rc[w] = "ok"
    /\ \/ CommitWork(w) /\ Conclude(w, "tx_ok")
       \/ RollbackWork(w) /\ Conclude(w, "tx_fail")
    /\ activeTx' = [activeTx EXCEPT ![w] = "none"]
    /\ Goto(w, "idle") /\ served' = [served EXCEPT ![w] = @ + 1]
    /\ UNCHANGED <<request, guard>> /\ UNCHANGED opvars

tx_rollback(w) ==
    /\ pc[w] = "finish" /\ request[w].tx /\ rc[w] = "fail"
    /\ RollbackWork(w) /\ Conclude(w, "tx_fail")
    /\ activeTx' = [activeTx EXCEPT ![w] = "none"]
    /\ Goto(w, "idle") /\ served' = [served EXCEPT ![w] = @ + 1]
    /\ UNCHANGED <<request, guard>> /\ UNCHANGED opvars

\* A request without a transaction just returns; active_tx stays as it is.
end_request(w) ==
    /\ pc[w] = "finish" /\ ~request[w].tx
    /\ Goto(w, "idle") /\ served' = [served EXCEPT ![w] = @ + 1]
    /\ UNCHANGED <<request, activeTx, pending, durable, guard, result>> /\ UNCHANGED opvars

\* The worker ends and its session goes back to the pool, rolled back.
release(w) ==
    /\ pc[w] = "idle" /\ served[w] = MaxRequests
    /\ RollbackWork(w)
    /\ Goto(w, "released")
    /\ UNCHANGED <<request, served, activeTx, guard, result>> /\ UNCHANGED opvars

-----------------------------------------------------------------------------
(* execute_insert_batch, execute_update_batch, execute_delete_batch, as      *)
(* dispatch_insert_new, dispatch_update_new, dispatch_delete_new call them   *)

At(w, stage, kind) == pc[w] = stage /\ Op(w) = kind

\* rc = -1; goto Cleanup
Fail(w) == rc' = [rc EXCEPT ![w] = "fail"] /\ Goto(w, "cleanup")

\* A stage that reaches the next one or fails.
StageTo(w, label) == (Goto(w, label) /\ UNCHANGED rc) \/ Fail(w)

KeepRequest == UNCHANGED <<request, served, opn, result>>

\* begin_standalone_tx_if_needed() and the locals of a new call.
begin_standalone_tx_if_needed(w) ==
    /\ owns' = [owns EXCEPT ![w] = activeTx[w] = "none"]
    /\ touched' = [touched EXCEPT ![w] = FALSE]
    /\ image' = [image EXCEPT ![w] = FALSE]

\* What active_tx is once the call has its identity.
Identity(w) == IF activeTx[w] = "none" THEN "standalone" ELSE activeTx[w]

\* Validation passed, or failed and returned with active_tx as given.
Validate(w, txOnReject) ==
    /\ begin_standalone_tx_if_needed(w)
    /\ \/ /\ rc' = [rc EXCEPT ![w] = "ok"]
          /\ activeTx' = [activeTx EXCEPT ![w] = Identity(w)]
          /\ Goto(w, "prepare")
       \/ /\ setting.validation
          /\ rc' = [rc EXCEPT ![w] = "fail"]
          /\ activeTx' = [activeTx EXCEPT ![w] = txOnReject]
          /\ Goto(w, "next")
    /\ KeepRequest /\ UNCHANGED <<pending, durable, guard>>

\* A rejected INSERT or UPDATE returns with its identity still in active_tx;
\* only DELETE calls end_standalone_tx_if_owned() on that path.
insert_validate(w) == At(w, "start", "insert") /\ Validate(w, Identity(w))
update_validate(w) == At(w, "start", "update") /\ Validate(w, Identity(w))
delete_validate(w) == At(w, "start", "delete") /\ Validate(w, activeTx[w])

\* The statement text, the driver's capabilities and the bind values: any
\* failure leaves through Cleanup, with nothing changed yet.
Prepare(w, label) ==
    /\ StageTo(w, label)
    /\ KeepRequest /\ UNCHANGED <<owns, touched, image, activeTx, pending, durable, guard>>

insert_prepare(w) == At(w, "prepare", "insert") /\ Prepare(w, "execute")
update_prepare(w) == At(w, "prepare", "update") /\ Prepare(w, "before")
delete_prepare(w) == At(w, "prepare", "delete") /\ Prepare(w, "before")

\* audit_trail_fetch_before_image(), unless an audit is in progress; without
\* an image the statement goes on unaudited.
audit_trail_fetch_before_image(w) ==
    /\ \E fetched \in IF setting.audit THEN BOOLEAN ELSE {TRUE} :
         image' = [image EXCEPT ![w] = ~guard /\ fetched]
    /\ KeepRequest /\ UNCHANGED <<owns, rc, touched, activeTx, pending, durable, guard>>

update_before_image(w) ==
    /\ At(w, "before", "update")
    /\ audit_trail_fetch_before_image(w) /\ Goto(w, "execute")

delete_before_image(w) ==
    /\ At(w, "before", "delete")
    /\ audit_trail_fetch_before_image(w) /\ Goto(w, "audit")

\* The driver executes the statement, or fails: before anything changed, or
\* with the first rows of a batch written, or with all of them written and
\* their keys or counts unreadable.  No driver takes such rows back, and the
\* module counts rows only of a statement that returned 0.
Execute(w, label) ==
    /\ \/ /\ Write(w, {<<Id(w), "row">>})
          /\ touched' = [touched EXCEPT ![w] = TRUE]
          /\ Goto(w, label) /\ UNCHANGED rc
       \/ /\ UNCHANGED pending \/ Write(w, {<<Id(w), "part">>})
          /\ Fail(w) /\ UNCHANGED touched
    /\ KeepRequest /\ UNCHANGED <<owns, image, activeTx, durable, guard>>

insert_execute(w) == At(w, "execute", "insert") /\ Execute(w, "lobs")
update_execute(w) == At(w, "execute", "update") /\ Execute(w, "lobs")
delete_execute(w) == At(w, "execute", "delete") /\ Execute(w, "commit")

\* The LOB columns, written by rowid after the statement.
WriteLobs(w) ==
    /\ StageTo(w, "audit")
    /\ KeepRequest /\ UNCHANGED <<owns, touched, image, activeTx, pending, durable, guard>>

insert_write_lobs(w) == At(w, "lobs", "insert") /\ WriteLobs(w)
update_write_lobs(w) == At(w, "lobs", "update") /\ WriteLobs(w)

\* DELETE audits before its statement, the others after.
AfterAudit(w) == IF Op(w) = "delete" THEN "execute" ELSE "commit"

KeepAllBut(label, w) ==
    /\ Goto(w, label)
    /\ KeepRequest /\ UNCHANGED <<owns, rc, touched, image, activeTx, durable>>

\* The module's own tests before it calls the audit trail.
insert_audit(w) ==
    /\ At(w, "audit", "insert")
    /\ KeepAllBut(IF guard THEN "commit" ELSE "guard", w) /\ UNCHANGED <<pending, guard>>

\* audit_trail_insert_update(): only with a before-image.
update_audit(w) ==
    /\ At(w, "audit", "update")
    /\ KeepAllBut(IF guard \/ ~image[w] THEN "commit" ELSE "guard", w)
    /\ UNCHANGED <<pending, guard>>

\* audit_trail_insert_delete(): the guard was tested before the image was
\* fetched, and is not tested again here.
delete_audit(w) ==
    /\ At(w, "audit", "delete")
    /\ KeepAllBut(IF image[w] THEN "guard" ELSE "execute", w) /\ UNCHANGED <<pending, guard>>

\* The entry of audit_trail_insert(): skip while an audit is in progress.
audit_trail_insert_entry(w) ==
    /\ pc[w] = "guard"
    /\ KeepAllBut(IF guard THEN AfterAudit(w) ELSE "build", w) /\ UNCHANGED <<pending, guard>>

\* Mutant: building the rows fails after the guard was set.
BuildAuditRows_guard_first(w) ==
    /\ guard' = TRUE
    /\ \/ KeepAllBut("auditing", w)
       \/ setting.audit /\ KeepAllBut(AfterAudit(w), w)
    /\ UNCHANGED pending

\* The audit rows are built, then audit_trail_in_progress = 1; a failure to
\* build them returns before the guard is set.
BuildAuditRows(w) ==
    /\ \/ guard' = TRUE /\ KeepAllBut("auditing", w)
       \/ setting.audit /\ KeepAllBut(AfterAudit(w), w) /\ UNCHANGED guard
    /\ UNCHANGED pending

\* One row per changed or deleted column (UPDATE, DELETE), one per row (INSERT).
audit_build_fields(w) == pc[w] = "build" /\ Op(w) # "insert" /\ BuildAuditRows(w)
audit_build_snapshot(w) == At(w, "build", "insert") /\ BuildAuditRows(w)

\* Mutant: the guard stays set.
WriteAuditRows_guard_kept(w) ==
    /\ Write(w, {<<Id(w), "audit">>})
    /\ KeepAllBut(AfterAudit(w), w)
    /\ UNCHANGED guard

\* The nested execute_insert_batch(): it finds active_tx set, so it neither
\* commits nor rolls back; if another thread has cleared the guard meanwhile,
\* it audits itself.  Then audit_trail_in_progress = 0, and a failure, which
\* may come after the first audit rows, is only logged.
WriteAuditRows(w) ==
    /\ \/ Write(w, {<<Id(w), "audit">>} \cup (IF guard THEN {} ELSE {<<Id(w), "echo">>}))
       \/ setting.audit /\ (UNCHANGED pending \/ Write(w, {<<Id(w), "audit">>}))
    /\ guard' = FALSE
    /\ KeepAllBut(AfterAudit(w), w)

audit_write_fields(w) == pc[w] = "auditing" /\ Op(w) # "insert" /\ WriteAuditRows(w)
audit_write_snapshot(w) == At(w, "auditing", "insert") /\ WriteAuditRows(w)

\* Mutant: the test of active_tx alone, as before 2026-09-23.
Commit_active_tx_only(w) ==
    /\ IF activeTx[w] # "none" THEN KeepWork ELSE CommitWork(w)
    /\ Goto(w, "respond")
    /\ KeepRequest /\ UNCHANGED <<owns, rc, touched, image, activeTx, guard>>

\* Commit unless a caller's transaction is active; the retry loop may give up.
Commit(w) ==
    /\ \/ Managed(w) /\ KeepWork /\ Goto(w, "respond") /\ UNCHANGED rc
       \/ ~Managed(w) /\ CommitWork(w) /\ Goto(w, "respond") /\ UNCHANGED rc
       \/ ~Managed(w) /\ KeepWork /\ Fail(w)
    /\ KeepRequest /\ UNCHANGED <<owns, touched, image, activeTx, guard>>

insert_commit(w) == At(w, "commit", "insert") /\ Commit(w)
update_commit(w) == At(w, "commit", "update") /\ Commit(w)
delete_commit(w) == At(w, "commit", "delete") /\ Commit(w)

\* The response is built after the commit; running out of memory there makes
\* the operation report a failure.
Respond(w) ==
    /\ Goto(w, "cleanup")
    /\ \/ UNCHANGED rc
       \/ setting.response /\ rc' = [rc EXCEPT ![w] = "fail"]
    /\ KeepRequest /\ UNCHANGED <<owns, touched, image, activeTx, pending, durable, guard>>

insert_respond(w) == At(w, "respond", "insert") /\ Respond(w)
update_respond(w) == At(w, "respond", "update") /\ Respond(w)
delete_respond(w) == At(w, "respond", "delete") /\ Respond(w)

\* Mutant: a failed statement is not rolled back.
Cleanup_no_rollback(w, leaveToCaller) ==
    /\ KeepWork
    /\ activeTx' = [activeTx EXCEPT ![w] = IF owns[w] THEN "none" ELSE @]
    /\ Goto(w, "next")
    /\ KeepRequest /\ UNCHANGED <<owns, rc, touched, image, guard>>

\* Roll back what a failed statement changed, then end_standalone_tx_if_owned().
Cleanup(w, leaveToCaller) ==
    /\ IF rc[w] = "fail" /\ touched[w] /\ ~leaveToCaller
         THEN RollbackWork(w) ELSE KeepWork
    /\ activeTx' = [activeTx EXCEPT ![w] = IF owns[w] THEN "none" ELSE @]
    /\ Goto(w, "next")
    /\ KeepRequest /\ UNCHANGED <<owns, rc, touched, image, guard>>

\* INSERT leaves the rollback to a managing caller; UPDATE and DELETE roll
\* the whole session back, the caller's earlier operations included.
insert_cleanup(w) == At(w, "cleanup", "insert") /\ Cleanup(w, Managed(w))
update_cleanup(w) == At(w, "cleanup", "update") /\ Cleanup(w, FALSE)
delete_cleanup(w) == At(w, "cleanup", "delete") /\ Cleanup(w, FALSE)

Finished == (\A w \in Workers : pc[w] = "released") /\ UNCHANGED vars

\* What the dispatcher runs for an operation; its return code is rc.
dispatch_insert_new(w) ==
    \/ insert_validate(w) \/ insert_prepare(w) \/ insert_execute(w) \/ insert_write_lobs(w)
    \/ insert_audit(w) \/ insert_commit(w) \/ insert_respond(w) \/ insert_cleanup(w)

dispatch_update_new(w) ==
    \/ update_validate(w) \/ update_prepare(w) \/ update_before_image(w) \/ update_execute(w)
    \/ update_write_lobs(w) \/ update_audit(w) \/ update_commit(w) \/ update_respond(w)
    \/ update_cleanup(w)

dispatch_delete_new(w) ==
    \/ delete_validate(w) \/ delete_prepare(w) \/ delete_before_image(w) \/ delete_audit(w)
    \/ delete_execute(w) \/ delete_commit(w) \/ delete_respond(w) \/ delete_cleanup(w)

audit_trail_insert(w) ==
    \/ audit_trail_insert_entry(w)
    \/ audit_build_fields(w) \/ audit_build_snapshot(w)
    \/ audit_write_fields(w) \/ audit_write_snapshot(w)

WorkerStep(w) ==
    \/ begin_request(w) \/ next_operation(w) \/ tx_commit(w) \/ tx_rollback(w)
    \/ end_request(w) \/ release(w)
    \/ dispatch_insert_new(w) \/ dispatch_update_new(w) \/ dispatch_delete_new(w)
    \/ audit_trail_insert(w)

Next == ((\E w \in Workers : WorkerStep(w)) /\ UNCHANGED setting) \/ Finished

Spec == Init /\ [][Next]_vars

-----------------------------------------------------------------------------
(* Properties                                                               *)

\* The write path's state has the shape of the contexts and locals it models.
TypeOK ==
    /\ pc \in [Workers -> {"idle", "start", "prepare", "before", "execute", "lobs", "audit",
                           "guard", "build", "auditing", "commit", "respond", "cleanup", "next", "finish", "released"}]
    /\ request \in [Workers -> RequestShapes]
    /\ served \in [Workers -> 0 .. MaxRequests]
    /\ opn \in [Workers -> 1 .. MaxOps]
    /\ owns \in [Workers -> BOOLEAN] /\ touched \in [Workers -> BOOLEAN]
    /\ image \in [Workers -> BOOLEAN]
    /\ rc \in [Workers -> {"ok", "fail"}]
    /\ activeTx \in [Workers -> {"none", "managed", "standalone"}]
    /\ pending \in [Workers -> SUBSET Items] /\ durable \in SUBSET Items
    /\ guard \in BOOLEAN
    /\ result \in [OpIds -> {"none", "ok", "fail", "tx_ok", "tx_fail"}]

\* A standalone write that reported success is committed (worker.h: each
\* request "already commits/rolls back atomically on its own").
SuccessIsCommitted ==
    \A i \in OpIds : result[i] = "ok" => <<i, "row">> \in durable

\* Operation j comes after operation i on the same session.
Later(j, i) == j[1] = i[1] /\ (j[2] > i[2] \/ (j[2] = i[2] /\ j[3] > i[3]))

\* ... if no validation fails; an executed statement whose operation reported a
\* failure is not committed, then or later, if no response fails after the
\* commit; and what a failed statement had written by then is never committed
\* by its own operation, only along with a later one of the same session.
StandaloneHonest ==
    /\ setting.validation \/ SuccessIsCommitted
    /\ \/ setting.validation \/ setting.response
       \/ \A i \in OpIds : result[i] = "fail" => <<i, "row">> \notin durable
    /\ \A i \in OpIds : <<i, "part">> \in durable =>
         \E j \in OpIds : Later(j, i) /\ <<j, "row">> \in durable

\* A transactional request is all or nothing, statements that failed half way
\* included, whatever failed before it on the same session.
TxAllOrNothing ==
    \A i \in OpIds :
      /\ result[i] = "tx_ok" => <<i, "row">> \in durable
      /\ result[i] = "tx_fail" => <<i, "row">> \notin durable
      /\ result[i] \in {"tx_ok", "tx_fail"} => <<i, "part">> \notin durable

\* Between requests a session carries no rows of an executed statement, only
\* what failed operations could not take back: the rows of a statement that
\* failed half way, and the audit rows of deletes whose attempt was recorded.
LeftoversAreAttempts ==
    ~setting.validation => \A w \in Workers : pc[w] = "idle" =>
      \A item \in pending[w] : item[2] # "row" /\ result[item[1]] = "fail"

\* Audit rows and business rows commit together: a committed row has its
\* audit row, and no audit row is audited, if the audit trail itself works and
\* no rejected request has left its identity behind.
AuditedOnce ==
    ~setting.audit /\ ~setting.validation => \A i \in OpIds : <<i, "row">> \in durable =>
      <<i, "audit">> \in durable /\ <<i, "echo">> \notin durable

\* The guard does not outlive the audit insert that set it; otherwise every
\* later write of the process would go unaudited.
GuardReleased == guard => \E w \in Workers : pc[w] = "auditing"
============================================================================
