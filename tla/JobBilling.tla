----------------------------- MODULE JobBilling -----------------------------
(***************************************************************************)
(* The life of an execution job and its bill: the rows of execution_jobs,  *)
(* the worker tasks that run them (execute_and_bill), the sweepers that    *)
(* repair them, the HTTP handlers that cancel, complete, acknowledge and   *)
(* retry them, and the ledger they all write to.                           *)
(*                                                                         *)
(* Several replicas share the database, so two database statements of one  *)
(* process may have statements of any other between them: every process    *)
(* below takes one step per statement (or per group of statements that is  *)
(* one transaction).  A process is a slot: a worker task of _INFLIGHT, a   *)
(* request being served, or a sweeper thread.                              *)
(***************************************************************************)
EXTENDS Ledger

CONSTANTS
    Tasks, Handlers, Sweepers,   \* process slots
    NoJob,                       \* the job of an idle slot
    Events,                      \* what the environment may do, see AllEvents
    MaxRequests,                 \* bound: requests the handlers serve
    MaxFaults                    \* bound: crashes and PostgreSQL failures

Procs == Tasks \cup Handlers \cup Sweepers

AllEvents == {"cancel", "complete", "v1_complete", "ack_start", "ack_complete",
              "ack_fail", "retry", "drain", "crash", "pg_fault", "refund_fault",
              "orphan"}

ASSUME JobAssumption ==
    /\ NoJob \notin Jobs
    /\ Tasks \cap Handlers = {} /\ Tasks \cap Sweepers = {}
    /\ Handlers \cap Sweepers = {}
    /\ Events \subseteq AllEvents
    /\ MaxRequests \in Nat /\ MaxFaults \in Nat

VARIABLES
    row,        \* execution_jobs: status, error marker, duration_seconds, cost_usd, started_at
    proc,       \* what each slot is doing and the values it has read
    paused,     \* _no_funds_next_try: jobs the billing sweeper leaves alone for now
    requests,   \* requests served so far
    faults      \* crashes and PostgreSQL failures so far

jobVars == <<row, proc, paused, requests, faults>>
vars == <<ledgerVars, jobVars>>

-----------------------------------------------------------------------------
(* Statuses.                                                               *)
Terminal == {"completed", "timeout", "failed", "cancelled"}       \* _TERMINAL_STATUSES
Blocked == Terminal \cup {"error", "stopped", "destroyed", "billing_pending"}
                                       \* _FINAL_WRITE_BLOCKED_, CANCEL_BLOCKED_STATUSES
Raw == {"completed", "failed", "error", "stopped", "cancelled", "destroyed"}
                                       \* what ends the poll loop
Statuses == Blocked \cup {"absent", "queued", "running"}

(* The error column: a billing marker carries the execution status to      *)
(* restore, a refund marker the amount to return.                          *)
Marks == {"none", "text", "billing", "no_funds", "mismatch", "refund_pending"}
Execs == {"none", "timeout", "failed"}

Row == [status : Statuses, mark : Marks, exec : Execs, owed : Nat,
        dur : Durations, cost : Nat, started : BOOLEAN, kind : Kinds]

NoRow == [status |-> "absent", mark |-> "none", exec |-> "none", owed |-> 0,
          dur |-> 0, cost |-> 0, started |-> FALSE, kind |-> "cpu_execution"]

Billing == {"none", "ok", "no_funds", "mismatch", "skip", "pg_error"}
Ops == {"none", "execute", "sweep", "refund_sweep", "complete", "v1_complete",
        "ack_start", "ack_complete", "ack_fail", "retry"}
Pcs == {"idle", "dispatch", "poll", "asked", "read", "debit", "meter", "cleanup",
        "write", "check", "refund", "mark", "clear"}

Frame == [pc : Pcs, op : Ops, job : Jobs \cup {NoJob}, st : Statuses,
          exec : Execs, mark : Marks, dur : Durations, bill : Billing, tries : 0..3,
          owed : Nat, kind : Kinds]

Idle == [pc |-> "idle", op |-> "none", job |-> NoJob, st |-> "absent", exec |-> "none",
         mark |-> "none", dur |-> 0, bill |-> "none", tries |-> 0, owed |-> 0,
         kind |-> "cpu_execution"]

TypeOK ==
    /\ LedgerTypeOK
    /\ row \in [Jobs -> Row]
    /\ proc \in [Procs -> Frame]
    /\ paused \subseteq Jobs
    /\ requests \in 0..MaxRequests
    /\ faults \in 0..MaxFaults

Init ==
    /\ LedgerInit
    /\ row = [j \in Jobs |-> NoRow]
    /\ proc = [p \in Procs |-> Idle]
    /\ paused = {}
    /\ requests = 0
    /\ faults = 0

-----------------------------------------------------------------------------
(* update_execution_job.  A conditional update carries if_status_not_in.   *)
Update(j, r) == row' = [row EXCEPT ![j] = r]
UpdateIfNotIn(j, blocked, r) ==
    row' = [row EXCEPT ![j] = IF @.status \in blocked THEN @ ELSE r]

WithStatus(r, st) ==
    [r EXCEPT !.status = st, !.started = IF st = "running" THEN TRUE ELSE @]
WithError(r, mark, exec, owed) ==
    [r EXCEPT !.mark = mark, !.exec = exec, !.owed = owed]
WithKind(r, kind) == [r EXCEPT !.kind = kind]
WithBill(r, dur, cost) == [r EXCEPT !.dur = dur, !.cost = cost]

Goto(p, pc) == proc' = [proc EXCEPT ![p].pc = pc]
Finish(p) == proc' = [proc EXCEPT ![p] = Idle]
At(p, pc, op) == proc[p].pc = pc /\ proc[p].op = op

Fault(kind) ==
    /\ kind \in Events /\ faults < MaxFaults
    /\ faults' = faults + 1

-----------------------------------------------------------------------------
(* POST /submit inserts the row and stores the backend the client asked    *)
(* for.  (Submit models its statements one by one, and the key.)           *)
SubmitTask(j, kind) ==
    /\ row[j].status = "absent"
    /\ Update(j, WithKind(WithStatus(row[j], "queued"), kind))
    /\ UNCHANGED <<ledgerVars, proc, paused, requests, faults>>

(* Faulty variant: only terminal statuses block a cancel.                  *)
CancelJobPending(j) ==
    /\ "cancel" \in Events
    /\ row[j].status \notin Terminal \cup {"absent"}
    /\ UpdateIfNotIn(j, Terminal, WithStatus(row[j], "cancelled"))
    /\ UNCHANGED <<ledgerVars, proc, paused, requests, faults>>

(* POST /cancel and /v1/jobs/{id}/cancel: one conditional update, whatever *)
(* was read before it.                                                     *)
CancelJob(j) ==
    /\ "cancel" \in Events
    /\ row[j].status \notin Blocked \cup {"absent"}
    /\ UpdateIfNotIn(j, Blocked, WithStatus(row[j], "cancelled"))
    /\ UNCHANGED <<ledgerVars, proc, paused, requests, faults>>

TopUpTenant(t) ==
    /\ TopUp(t, 1)
    /\ UNCHANGED jobVars

(* Faulty variant: only rows that have no started_at are orphans.          *)
SweepOrphanUnstarted(j) ==
    /\ "orphan" \in Events
    /\ row[j].status = "running" /\ ~row[j].started
    /\ Update(j, WithError(WithStatus(row[j], "timeout"), "text", "none", 0))
    /\ UNCHANGED <<ledgerVars, proc, paused, requests, faults>>

(* sweep_orphan_running_jobs: a running row past JOB_ORPHAN_TIMEOUT.  The  *)
(* age of a row counts the time spent inside backend calls, which nothing  *)
(* bounds, so a live task does not protect its row.                        *)
SweepOrphan(j) ==
    /\ "orphan" \in Events
    /\ row[j].status = "running"
    /\ Update(j, WithError(WithStatus(row[j], "timeout"), "text", "none", 0))
    /\ UNCHANGED <<ledgerVars, proc, paused, requests, faults>>

-----------------------------------------------------------------------------
(* Worker tasks: poll_and_execute claims a queued row and starts a task;   *)
(* _execute_and_bill_impl dispatches, polls, bills, writes and refunds.    *)
ClaimQueued(p, j) ==
    /\ p \in Tasks /\ proc[p] = Idle
    /\ row[j].status = "queued"
    /\ Update(j, WithStatus(row[j], "running"))
    /\ proc' = [proc EXCEPT ![p] = [Idle EXCEPT !.pc = "dispatch", !.op = "execute",
                                                !.job = j]]
    /\ UNCHANGED <<ledgerVars, paused, requests, faults>>

(* The dispatch failed, was not ready or raised: unconditional "failed",   *)
(* with the backend the result names, if any.                              *)
DispatchFails(p, kind) ==
    /\ At(p, "dispatch", "execute")
    /\ LET j == proc[p].job
       IN  Update(j, WithKind(WithError(WithStatus(row[j], "failed"), "text", "none", 0),
                              kind))
    /\ Finish(p)
    /\ UNCHANGED <<ledgerVars, paused, requests, faults>>

(* The dispatch was accepted: unconditional "running", and the backend     *)
(* that took the job, which decides the type of its usage event.           *)
DispatchReady(p, kind) ==
    /\ At(p, "dispatch", "execute")
    /\ LET j == proc[p].job
       IN  Update(j, WithKind(WithStatus(row[j], "running"), kind))
    /\ proc' = [proc EXCEPT ![p].pc = "poll", ![p].kind = kind]
    /\ UNCHANGED <<ledgerVars, paused, requests, faults>>

(* The poll loop ends on a backend status or on max_wait; elapsed is fixed *)
(* here, before the debit, and stays the same for every retry of the bill. *)
PollEnds(p, st, d) ==
    /\ At(p, "poll", "execute")
    /\ st \in Raw \cup {"timeout"}
    /\ proc' = [proc EXCEPT ![p].pc = "read", ![p].st = st, ![p].dur = d]
    /\ UNCHANGED <<ledgerVars, row, paused, requests, faults>>

-----------------------------------------------------------------------------
(* finalize_job_billing, called by tasks, sweepers and completing handlers *)
(* alike: read the row, debit, record usage.  Returned is where the caller *)
(* goes with the answer.                                                   *)
Cost(p) == CostOf[proc[p].dur]

Returned(f, bill) ==
    CASE f.op \in {"execute", "sweep"} -> [f EXCEPT !.pc = "write", !.bill = bill]
      [] f.op = "complete" /\ bill = "ok" -> [f EXCEPT !.pc = "cleanup"]
      [] f.op \in {"v1_complete", "ack_complete"} /\ bill = "ok" ->
             [f EXCEPT !.pc = "write"]
      [] OTHER -> Idle
Return(p, bill) == proc' = [proc EXCEPT ![p] = Returned(@, bill)]

FinalizeRead(p) ==
    /\ proc[p].pc = "read"
    /\ IF row[proc[p].job].status \in Terminal \/ Cost(p) = 0
       THEN Return(p, "skip")
       ELSE Goto(p, "debit")
    /\ UNCHANGED <<ledgerVars, row, paused, requests, faults>>

FinalizeReadUnavailable(p) ==
    /\ proc[p].pc = "read"
    /\ Fault("pg_fault")
    /\ Return(p, "pg_error")
    /\ UNCHANGED <<ledgerVars, row, paused, requests>>

(* Faulty variant: an uncovered bill is metered like a debited one.        *)
AfterDebitUncovered(p, answer) ==
    IF answer \in {"debited", "no_funds"} THEN Goto(p, "meter") ELSE Return(p, answer)

AfterDebit(p, answer) ==
    IF answer = "debited" THEN Goto(p, "meter") ELSE Return(p, answer)

FinalizeDebit(p) ==
    /\ proc[p].pc = "debit"
    /\ \E answer \in {"debited", "no_funds", "mismatch"} :
          /\ DebitIfFunds(proc[p].job, Cost(p), answer)
          /\ AfterDebit(p, answer)
    /\ UNCHANGED <<row, paused, requests, faults>>

FinalizeDebitUnavailable(p) ==
    /\ proc[p].pc = "debit"
    /\ Fault("pg_fault")
    /\ \E answer \in {"debited", "mismatch", "pg_error"} :
          /\ DebitUnavailable(proc[p].job, Cost(p), answer)
          /\ AfterDebit(p, answer)
    /\ UNCHANGED <<row, paused, requests>>

FinalizeMeter(p) ==
    /\ proc[p].pc = "meter"
    /\ RecordUsage(proc[p].job, proc[p].kind, Cost(p))
    /\ Return(p, "ok")
    /\ UNCHANGED <<row, paused, requests, faults>>

(* The metering transaction fails, before or after its COMMIT.             *)
FinalizeMeterUnavailable(p) ==
    /\ proc[p].pc = "meter"
    /\ Fault("pg_fault")
    /\ RecordUsage(proc[p].job, proc[p].kind, Cost(p)) \/ UNCHANGED ledgerVars
    /\ Return(p, "pg_error")
    /\ UNCHANGED <<row, paused, requests>>

-----------------------------------------------------------------------------
(* Faulty variant: an uncovered bill does not park the job.                *)
WriteStatusNoFunds(st, bill) ==
    CASE bill = "mismatch" -> IF st \in {"timeout", "failed"} THEN st ELSE "error"
      [] bill = "pg_error" /\ st \in {"completed", "timeout", "failed"} -> "billing_pending"
      [] OTHER -> st

(* What the task writes after billing.  A bill that could not be saved, or *)
(* that the balance does not cover, parks the job as billing_pending with  *)
(* the execution status in the marker.                                     *)
WriteStatus(st, bill) ==
    CASE bill = "mismatch" -> IF st \in {"timeout", "failed"} THEN st ELSE "error"
      [] bill \in {"pg_error", "no_funds"} /\ st \in {"completed", "timeout", "failed"} ->
             "billing_pending"
      [] OTHER -> st

ExecOf(st) == IF st \in {"timeout", "failed"} THEN st ELSE "none"

WriteError(r, st, bill) ==
    CASE bill \in {"ok", "skip"} -> WithError(r, "none", "none", 0)
      [] bill = "mismatch" -> WithError(r, "mismatch", "none", 0)
      [] bill = "no_funds" -> WithError(r, "no_funds", ExecOf(st), 0)
      [] OTHER -> WithError(r, "billing", ExecOf(st), 0)

FinalRow(p) ==
    LET f == proc[p]
        written == WithStatus(row[f.job], WriteStatus(f.st, f.bill))
    IN  WithBill(WriteError(written, f.st, f.bill), f.dur,
                 IF f.bill = "ok" THEN Cost(p) ELSE 0)

(* Faulty variants: a refund is considered for a job that was not billed;  *)
(* a debited job that was cancelled is not refunded.                       *)
TaskWriteRefundsAll(p) ==
    /\ At(p, "write", "execute")
    /\ UpdateIfNotIn(proc[p].job, Blocked, FinalRow(p))
    /\ Goto(p, IF row[proc[p].job].status \in Blocked THEN "check" ELSE "cleanup")
    /\ UNCHANGED <<ledgerVars, paused, requests, faults>>
TaskCheckNoRefund(p) ==
    /\ At(p, "check", "execute")
    /\ Goto(p, "cleanup")
    /\ UNCHANGED <<ledgerVars, row, paused, requests, faults>>

(* The final write is conditional; when the row has moved on and the job   *)
(* was debited, the task goes on to see whether it owes a refund.          *)
TaskWrite(p) ==
    /\ At(p, "write", "execute")
    /\ LET f == proc[p] IN
       /\ UpdateIfNotIn(f.job, Blocked, FinalRow(p))
       /\ Goto(p, IF row[f.job].status \in Blocked /\ f.bill = "ok"
                  THEN "check" ELSE "cleanup")
    /\ UNCHANGED <<ledgerVars, paused, requests, faults>>

TaskCheck(p) ==
    /\ At(p, "check", "execute")
    /\ proc' = [proc EXCEPT ![p].tries = 0,
                   ![p].pc = IF row[proc[p].job].status = "cancelled" THEN "refund"
                             ELSE "cleanup"]
    /\ UNCHANGED <<ledgerVars, row, paused, requests, faults>>

TaskRefund(p) ==
    /\ At(p, "refund", "execute")
    /\ Refund(proc[p].job, Cost(p))
    /\ Goto(p, "cleanup")
    /\ UNCHANGED <<row, paused, requests, faults>>

(* A refund attempt fails, before or after its COMMIT; the third failure   *)
(* leads to _mark_refund_pending.                                          *)
TaskRefundUnavailable(p) ==
    /\ At(p, "refund", "execute")
    /\ Fault("refund_fault")
    /\ Refund(proc[p].job, Cost(p)) \/ UNCHANGED ledgerVars
    /\ proc' = [proc EXCEPT ![p].tries = @ + 1,
                            ![p].pc = IF proc[p].tries = 2 THEN "mark" ELSE "refund"]
    /\ UNCHANGED <<row, paused, requests>>

TaskMark(p) ==
    /\ At(p, "mark", "execute")
    /\ LET j == proc[p].job
       IN  Update(j, WithError(row[j], "refund_pending", "none", Cost(p)))
    /\ Goto(p, "cleanup")
    /\ UNCHANGED <<ledgerVars, paused, requests, faults>>

TaskCleanup(p) ==
    /\ At(p, "cleanup", "execute")
    /\ Finish(p)
    /\ UNCHANGED <<ledgerVars, row, paused, requests, faults>>

(* drain_inflight cancels the task at an await: dispatching, polling,      *)
(* sleeping after a failed refund attempt, cleaning up.                    *)
Awaiting(f) ==
    \/ f.pc \in {"dispatch", "poll", "cleanup"}
    \/ f.pc \in {"refund", "mark"} /\ f.tries > 0

DrainInflight(p) ==
    /\ "drain" \in Events
    /\ p \in Tasks /\ Awaiting(proc[p])
    /\ LET j == proc[p].job
       IN  UpdateIfNotIn(j, Blocked,
               WithError(WithStatus(row[j], "cancelled"), "text", "none", 0))
    /\ Finish(p)
    /\ UNCHANGED <<ledgerVars, paused, requests, faults>>

(* The process of a slot dies, or a statement outside any try block raises *)
(* and ends it.                                                            *)
Crash(p) ==
    /\ proc[p] # Idle
    /\ Fault("crash")
    /\ Finish(p)
    /\ UNCHANGED <<ledgerVars, row, paused, requests>>

-----------------------------------------------------------------------------
(* Faulty variants: jobs parked for lack of funds are not listed again;    *)
(* the marker's execution status is not restored, or has no default.       *)
SweepPickFunded(p, j) ==
    /\ p \in Sweepers /\ proc[p] = Idle
    /\ row[j].status = "billing_pending" /\ j \notin paused /\ row[j].mark # "no_funds"
    /\ proc' = [proc EXCEPT ![p] = [Idle EXCEPT !.pc = "read", !.op = "sweep", !.job = j,
                      !.exec = row[j].exec, !.mark = row[j].mark, !.dur = row[j].dur,
                      !.kind = row[j].kind]]
    /\ UNCHANGED <<ledgerVars, row, paused, requests, faults>>
RestoredCompleted(f, default) == default
RestoredNoDefault(f, default) == f.exec

(* sweep_billing_pending_once: the row is read when the batch is listed,   *)
(* the bill is finalized with the stored duration, and the result written. *)
SweepPick(p, j) ==
    /\ p \in Sweepers /\ proc[p] = Idle
    /\ row[j].status = "billing_pending" /\ j \notin paused
    /\ proc' = [proc EXCEPT ![p] = [Idle EXCEPT !.pc = "read", !.op = "sweep", !.job = j,
                      !.exec = row[j].exec, !.mark = row[j].mark, !.dur = row[j].dur,
                      !.kind = row[j].kind]]
    /\ UNCHANGED <<ledgerVars, row, paused, requests, faults>>

Restored(f, default) == IF f.exec = "none" THEN default ELSE f.exec

SweepWrite(p) ==
    /\ At(p, "write", "sweep")
    /\ LET f == proc[p]
           j == f.job
           Close(st, mark, cost) == UpdateIfNotIn(j, Terminal,
               WithBill(WithError(WithStatus(row[j], st), mark, "none", 0),
                        row[j].dur, cost))
       IN  CASE f.bill = "ok" ->
                    Close(Restored(f, "completed"), "none", Cost(p))
             [] f.bill = "skip" ->
                    Close(Restored(f, "completed"), "none", row[j].cost)
             [] f.bill = "mismatch" ->
                    Close(Restored(f, "error"), "mismatch", row[j].cost)
             [] f.bill = "no_funds" /\ f.mark # "no_funds" ->
                    Update(j, WithError(row[j], "no_funds", f.exec, 0))
             [] OTHER -> UNCHANGED row
    /\ paused' = CASE proc[p].bill = "no_funds" -> paused \cup {proc[p].job}
                   [] proc[p].bill = "ok" -> paused \ {proc[p].job}
                   [] OTHER -> paused
    /\ Finish(p)
    /\ UNCHANGED <<ledgerVars, requests, faults>>

(* The no_funds pause of a job runs out, its process restarts, or a pass   *)
(* that listed less than a batch drops it (SweepBackoff has the passes).   *)
PauseEnds(j) ==
    /\ j \in paused
    /\ paused' = paused \ {j}
    /\ UNCHANGED <<ledgerVars, row, proc, requests, faults>>

(* Faulty variant: the refund sweeper lists rows by their cost_usd, which  *)
(* is zero on a row the final write never reached.                         *)
RefundSweepPickByCost(p, j) ==
    /\ p \in Sweepers /\ proc[p] = Idle
    /\ row[j].status = "cancelled" /\ row[j].mark = "refund_pending" /\ row[j].cost > 0
    /\ proc' = [proc EXCEPT ![p] = [Idle EXCEPT !.pc = "refund", !.op = "refund_sweep",
                                                !.job = j, !.owed = row[j].owed]]
    /\ UNCHANGED <<ledgerVars, row, paused, requests, faults>>

(* sweep_refund_pending_once: pay what the marker says, then clear it.     *)
RefundSweepPick(p, j) ==
    /\ p \in Sweepers /\ proc[p] = Idle
    /\ row[j].status = "cancelled" /\ row[j].mark = "refund_pending"
    /\ proc' = [proc EXCEPT ![p] = [Idle EXCEPT !.pc = "refund", !.op = "refund_sweep",
                                                !.job = j, !.owed = row[j].owed]]
    /\ UNCHANGED <<ledgerVars, row, paused, requests, faults>>

RefundSweepPay(p) ==
    /\ At(p, "refund", "refund_sweep")
    /\ Refund(proc[p].job, proc[p].owed)
    /\ Goto(p, "clear")
    /\ UNCHANGED <<row, paused, requests, faults>>

RefundSweepUnavailable(p) ==
    /\ At(p, "refund", "refund_sweep")
    /\ Fault("refund_fault")
    /\ Refund(proc[p].job, proc[p].owed) \/ UNCHANGED ledgerVars
    /\ Finish(p)
    /\ UNCHANGED <<row, paused, requests>>

RefundSweepClear(p) ==
    /\ At(p, "clear", "refund_sweep")
    /\ LET j == proc[p].job IN Update(j, WithError(row[j], "none", "none", 0))
    /\ Finish(p)
    /\ UNCHANGED <<ledgerVars, paused, requests, faults>>

-----------------------------------------------------------------------------
(* HTTP handlers.  TransitionGraph is policy_transition.TRANSITION_GRAPH;  *)
(* a status it does not list has no successor.                             *)
TransitionGraph(from) ==
    CASE from = "queued" -> {"running", "cancelled"}
      [] from = "running" -> {"completed", "failed", "cancelled"}
      [] from = "failed" -> {"queued"}
      [] OTHER -> {}

Target(op) ==
    CASE op \in {"complete", "v1_complete", "ack_complete"} -> "completed"
      [] op = "ack_start" -> "running"
      [] op = "ack_fail" -> "failed"
      [] OTHER -> "queued"                                          \* retry

Completing == {"complete", "v1_complete", "ack_complete"}
Requests == Completing \cup {"ack_start", "ack_fail", "retry"}

(* A request reads the row before its first await.  POST /complete checks  *)
(* no transition, every other endpoint does; a job that never started has  *)
(* no duration, so completing it is refused with 409.  A refused request   *)
(* changes nothing and is no step.                                         *)
Ask(p, op, j) ==
    /\ p \in Handlers /\ proc[p] = Idle
    /\ op \in Requests \cap Events /\ requests < MaxRequests
    /\ row[j].status # "absent"
    /\ op = "complete" \/ Target(op) \in TransitionGraph(row[j].status)
    /\ op \in Completing => row[j].started
    /\ requests' = requests + 1
    /\ proc' = [proc EXCEPT ![p] =
                  [Idle EXCEPT !.pc = IF op \in Completing THEN "asked" ELSE "write",
                               !.op = op, !.job = j, !.kind = row[j].kind]]
    /\ UNCHANGED <<ledgerVars, row, paused, faults>>

(* get_confirmed_duration (an await) and resolve_billable_seconds: the     *)
(* backend's seconds or the wall clock since started_at, or 409.           *)
DurationKnown(p, d) ==
    /\ proc[p].pc = "asked"
    /\ proc' = [proc EXCEPT ![p].pc = "read", ![p].dur = d]
    /\ UNCHANGED <<ledgerVars, row, paused, requests, faults>>

DurationUnknown(p) ==
    /\ proc[p].pc = "asked"
    /\ Finish(p)
    /\ UNCHANGED <<ledgerVars, row, paused, requests, faults>>

(* POST /complete destroys the instance (an await) before it writes.       *)
CompleteCleanup(p) ==
    /\ At(p, "cleanup", "complete")
    /\ Goto(p, "write")
    /\ UNCHANGED <<ledgerVars, row, paused, requests, faults>>

(* POST /complete writes conditionally and drops the result of a refusal;  *)
(* the /v1/jobs endpoints write unconditionally.                           *)
HandlerWrite(p) ==
    /\ p \in Handlers /\ proc[p].pc = "write"
    /\ LET op == proc[p].op
           j == proc[p].job
           written == WithStatus(row[j], Target(op))
       IN  CASE op = "complete" -> UpdateIfNotIn(j, Terminal, written)
             [] op = "ack_fail" ->
                    \/ Update(j, written)
                    \/ Update(j, WithError(written, "text", "none", 0))
             [] OTHER -> Update(j, written)
    /\ Finish(p)
    /\ UNCHANGED <<ledgerVars, paused, requests, faults>>

-----------------------------------------------------------------------------
Finalize(p) == FinalizeRead(p) \/ FinalizeDebit(p) \/ FinalizeMeter(p)

TaskStep(p) ==
    \/ \E kind \in Kinds : DispatchFails(p, kind) \/ DispatchReady(p, kind)
    \/ \E st \in Raw \cup {"timeout"}, d \in Durations : PollEnds(p, st, d)
    \/ p \in Tasks /\ Finalize(p)
    \/ TaskWrite(p) \/ TaskCheck(p) \/ TaskRefund(p) \/ TaskMark(p) \/ TaskCleanup(p)

SweepStep(p) ==
    \/ p \in Sweepers /\ Finalize(p)
    \/ SweepWrite(p) \/ RefundSweepPay(p) \/ RefundSweepClear(p)

HandlerStep(p) ==
    \/ \E d \in Durations : DurationKnown(p, d)
    \/ DurationUnknown(p)
    \/ p \in Handlers /\ Finalize(p)
    \/ CompleteCleanup(p) \/ HandlerWrite(p)

Unavailable(p) ==
    \/ FinalizeReadUnavailable(p) \/ FinalizeDebitUnavailable(p)
    \/ FinalizeMeterUnavailable(p)
    \/ TaskRefundUnavailable(p) \/ RefundSweepUnavailable(p)

Next ==
    \/ \E t \in Tenants : TopUpTenant(t)
    \/ \E j \in Jobs, kind \in Kinds : SubmitTask(j, kind)
    \/ \E j \in Jobs : CancelJob(j) \/ SweepOrphan(j) \/ PauseEnds(j)
    \/ \E p \in Procs, j \in Jobs :
          ClaimQueued(p, j) \/ SweepPick(p, j) \/ RefundSweepPick(p, j)
    \/ \E p \in Procs, j \in Jobs, op \in Requests : Ask(p, op, j)
    \/ \E p \in Procs : TaskStep(p) \/ SweepStep(p) \/ HandlerStep(p)
    \/ \E p \in Procs : Unavailable(p) \/ DrainInflight(p) \/ Crash(p)

(* The event loop runs every ready task and request, the poll loop runs    *)
(* the sweepers every minute over the whole backlog, and a pause is an     *)
(* hour long.  Nothing obliges a client to submit, top up or ask.          *)
Fairness ==
    /\ \A p \in Procs : WF_vars(TaskStep(p) \/ SweepStep(p) \/ HandlerStep(p))
    /\ \A j \in Jobs :
          /\ SF_vars(\E p \in Tasks : ClaimQueued(p, j))
          /\ SF_vars(\E p \in Sweepers : SweepPick(p, j))
          /\ SF_vars(\E p \in Sweepers : RefundSweepPick(p, j))
          /\ WF_vars(PauseEnds(j))
          /\ WF_vars(SweepOrphan(j))

Spec == Init /\ [][Next]_vars
FairSpec == Spec /\ Fairness

-----------------------------------------------------------------------------
(* Properties.                                                             *)

(* However often finalize_job_billing and refund run for a job (worker,    *)
(* /complete, sweepers, retries after an indeterminate COMMIT), the job    *)
(* has at most one DEBIT row, one refund row and one usage event of a type *)
ChargedOnce ==
    \A j \in Jobs : /\ Len(debits[j]) <= 1 /\ Len(refunds[j]) <= 1
                   /\ \A kind \in Kinds : Len(usage[j][kind]) <= 1

(* debit_if_funds never takes a tenant below zero, whatever jobs of the    *)
(* tenant are billed concurrently.                                         *)
NeverOverdrawn == \A t \in Tenants : balance[t] >= 0

(* A refund returns exactly what the job was debited: the amount the task  *)
(* recomputes, or the one the sweeper reads back from the marker, is the   *)
(* amount of the DEBIT row.                                                *)
RefundMatchesDebit ==
    \A j \in Jobs : refunds[j] # <<>> => refunds[j] = debits[j]

(* A usage event is only recorded for a debited job, with the amount of    *)
(* its DEBIT row (the ledger and the usage reports agree).                 *)
UsageMatchesDebit ==
    \A j \in Jobs, kind \in Kinds : usage[j][kind] # <<>> => usage[j][kind] = debits[j]

(* A job leaves billing_pending only once it is paid for: no sweep, cancel *)
(* or completion takes an unpaid job out of the sweeper's reach.           *)
PendingLeftPaid ==
    [][\A j \in Jobs :
          row[j].status = "billing_pending" /\ row'[j].status # "billing_pending"
              => debits[j] # <<>> \/ CostOf[row[j].dur] = 0]_vars

(* A job that timed out or failed and was parked as billing_pending gets   *)
(* that status back when the sweeper settles its bill: the marker carries  *)
(* it through every no_funds rewrite, so a failure is never shown to the   *)
(* client as completed work.                                               *)
ExecStatusRestored ==
    [][\A p \in Sweepers :
          LET j == proc[p].job
              settled == /\ SweepWrite(p)
                         /\ row[j].status = "billing_pending"
                         /\ row'[j].status # "billing_pending"
          IN  settled => row'[j].status = IF row[j].exec # "none" THEN row[j].exec
                                          ELSE IF row'[j].mark = "mismatch" THEN "error"
                                          ELSE "completed"]_vars

(* Work shown as completed has been debited, unless it cost nothing.       *)
CompletedIsPaid ==
    \A j \in Jobs : row[j].status = "completed"
                        => debits[j] # <<>> \/ CostOf[row[j].dur] = 0

(* The client was told the job is cancelled, yet its DEBIT stands: nothing *)
(* has been refunded and the row shows no cost.                            *)
SilentDebit(j) ==
    /\ row[j].status = "cancelled" /\ row[j].cost = 0
    /\ debits[j] # <<>> /\ refunds[j] = <<>>

(* _mark_refund_pending: a DEBIT may not stay on a cancelled job without a *)
(* trace.  Either the refund marker is on the row or the task that debited *)
(* is still on its way to the refund.                                      *)
NoSilentDebit ==
    \A j \in Jobs : SilentDebit(j) =>
        \/ row[j].mark = "refund_pending"
        \/ \E p \in Tasks : /\ proc[p].job = j
                            /\ proc[p].pc \in {"meter", "write", "check", "refund", "mark"}

(* A debit left on a cancelled job is eventually returned: by the task's   *)
(* own three attempts, or by the refund sweeper from the marker.           *)
RefundEventuallyPaid == \A j \in Jobs : SilentDebit(j) ~> ~SilentDebit(j)

(* A job parked as billing_pending does not stay there once the tenant can *)
(* pay for it.                                                             *)
PendingEventuallySettled ==
    \A j \in Jobs :
        <>[](balance[TenantOf[j]] >= CostOf[row[j].dur])
            => []<>(row[j].status # "billing_pending")

(* Every submitted job ends, crashes and drains of its worker included:    *)
(* the orphan sweeper closes what no task finishes.                        *)
EveryJobEnds == \A j \in Jobs : row[j].status = "queued" ~> row[j].status \in Blocked

(* A cancelled job stays cancelled (TRANSITION_GRAPH gives it no successor *)
(* and the worker's final write is conditional for the same reason).       *)
CancelledIsFinal ==
    [][\A j \in Jobs : row[j].status = "cancelled" => row'[j].status = "cancelled"]_vars

-----------------------------------------------------------------------------
(* The ledger rows of a job seen as one charge.                            *)
ChargeOf(j) ==
    [state |-> IF debits[j] = <<>> THEN "none"
               ELSE IF refunds[j] = <<>> THEN "charged" ELSE "returned",
     amount |-> IF debits[j] = <<>> THEN 0 ELSE debits[j][1]]

Contract == INSTANCE BillingContract
                WITH paid <- credited, funds <- balance, charge <- [j \in Jobs |-> ChargeOf(j)]

(* Workers, handlers, sweepers, crashes and PostgreSQL failures together   *)
(* implement the billing contract: every step that touches the money is a  *)
(* deposit, a first charge within the funds, or the return in full of a    *)
(* standing charge.                                                        *)
ImplementsContract == Contract!Spec

-----------------------------------------------------------------------------
(* The inductive invariant behind the money properties.  A slot is Debited *)
(* from the moment its debit is answered until its refund is decided, and  *)
(* then the DEBIT row is the one it asked for; a refund marker and the     *)
(* sweeper that read it carry the amount of the DEBIT row.                 *)
Debited(f) ==
    \/ f.pc = "meter"
    \/ f.pc = "write" /\ f.op \in {"execute", "sweep"} /\ f.bill = "ok"
    \/ f.pc \in {"check", "refund", "mark"} /\ f.op = "execute"

FrameInv(f, ds) ==
    /\ f.pc # "idle" => f.job \in Jobs
    /\ f.pc = "refund" => f.tries <= 2
    /\ Debited(f) => ds[f.job] = <<CostOf[f.dur]>>
    /\ f.pc = "refund" /\ f.op = "refund_sweep" => ds[f.job] = <<f.owed>>

MarkInv(j) == row[j].mark = "refund_pending" => debits[j] = <<row[j].owed>>

(* The ledger part: one DEBIT row, and a refund or a usage event only as   *)
(* its copy.                                                               *)
RowsInv(j) ==
    /\ Len(debits[j]) <= 1
    /\ refunds[j] \in {<<>>, debits[j]}
    /\ \A kind \in Kinds : usage[j][kind] \in {<<>>, debits[j]}

MoneyInv ==
    /\ TypeOK
    /\ NeverOverdrawn
    /\ \A j \in Jobs : RowsInv(j) /\ MarkInv(j)
    /\ \A p \in Procs : FrameInv(proc[p], debits)
=============================================================================
