------------------------------ MODULE Scheduler ------------------------------
(***************************************************************************)
(* The GPU scheduler: ROMAJobExecutor.submit, ROMAGPUScheduler.route_job   *)
(* and execute_job with the cost predictor, the plan source and the        *)
(* confirmation ledger; and the cluster book-keeping of GPUPolicyEngineV2. *)
(* An executor is a process.  A job is routed twice, once by submit and    *)
(* once by execute_job, and every database call is a step of its own.      *)
(***************************************************************************)
EXTENDS Integers, Sequences, FiniteSets, FiniteSetsExt, SequencesExt

CONSTANTS Executors, SJobs,
          QuotaJobs,      \* jobs_per_month of the free plan
          PerJob,         \* gpu_s_per_job of the free plan
          CostLimit,      \* the money limit of the paid plan, in tenths
          MaxSubmits, MaxSchedFaults,
          GpuNodes, NodeVram, PolicyJobs, MaxPending

ASSUME SchedulerAssumption ==
    /\ QuotaJobs \in Nat \ {0} /\ PerJob \in Nat /\ NodeVram \in Nat /\ MaxPending \in Nat \ {0}
    /\ CostLimit \in Nat /\ CostLimit >= 3 /\ {MaxSubmits, MaxSchedFaults} \subseteq Nat
    /\ IsFiniteSet(Executors) /\ SJobs # {}

VARIABLES tplan,      \* the plan of the tenant's record
          spent,      \* usage ledger: jobs and GPU seconds of the month
          sources,    \* reachable: the usage ledger, the audit ledger
          exec,       \* what each executor is doing
          confirms,   \* audit events job.user_confirmed, by job
          done,       \* jobs executed: which, on whose word, seen usage
          submits, schedFaults,
          gnodes,     \* GPUPolicyEngineV2.nodes: name to allocations (job to GB)
          pending     \* GPUPolicyEngineV2.pending_jobs: job and priority

routevars == <<tplan, spent, sources, exec, confirms, done, submits, schedFaults>>
pvars == <<gnodes, pending>>
svars == <<routevars, pvars>>

Plans4 == {"free", "pro", "start", "none"}

Estimates == 0..(PerJob + 1)

Resting == [pc |-> "idle", job |-> CHOOSE j \in SJobs : TRUE, asked |-> FALSE,
            est |-> 0, cost |-> 0, round |-> 1, basis |-> "none"]

SchedTypeOK ==
    /\ tplan \in Plans4
    /\ spent \in [jobs : Nat, gpu : Nat]
    /\ sources \in [usage : BOOLEAN, audit : BOOLEAN]
    /\ exec \in [Executors -> [pc : {"idle", "verdict", "look", "write", "gate", "run"},
                               job : SJobs, asked : BOOLEAN, est : Estimates, cost : Nat,
                               round : 1..2, basis : {"none", "quota", "money", "confirmed"}]]
    /\ confirms \in Seq(SJobs)
    /\ done \subseteq [job : SJobs, basis : {"quota", "money", "confirmed"}, cost : Nat]
    /\ submits \in 0..MaxSubmits /\ schedFaults \in 0..MaxSchedFaults
    /\ DOMAIN gnodes \subseteq GpuNodes
    /\ pending \in Seq([job : PolicyJobs, prio : Nat])

RoutingInit ==
    /\ tplan \in Plans4
    /\ spent = [jobs |-> 0, gpu |-> 0]
    /\ sources = [usage |-> TRUE, audit |-> TRUE]
    /\ exec = [e \in Executors |-> Resting]
    /\ confirms = <<>> /\ done = {}
    /\ submits = 0 /\ schedFaults = 0

PolicyInit == gnodes = [n \in GpuNodes |-> <<>>] /\ pending = <<>>

SchedInit == RoutingInit /\ PolicyInit

-----------------------------------------------------------------------------
(* Verdicts *)

\* PlanLimits.gpu_s_per_month: derived, never stored.
MonthlyGpu == QuotaJobs * PerJob

\* free_quota_verdict: jobs, then the estimate per job, then the month.
FreeQuotaVerdict(used, est) ==
    IF used.jobs >= QuotaJobs THEN "QUOTA_JOBS_EXHAUSTED"
    ELSE IF est > PerJob THEN "QUOTA_JOB_ESTIMATE_EXCEEDS_PER_JOB"
    ELSE IF used.gpu + est > MonthlyGpu THEN "QUOTA_MONTHLY_GPU_EXHAUSTED"
    ELSE "APPROVED"

\* _quota_verdict: counters that cannot be read are a refusal of their own.
QuotaVerdict(est) ==
    IF ~sources.usage THEN "GATE_UNAVAILABLE" ELSE FreeQuotaVerdict(spent, est)

\* _money_verdict: above four fifths of the limit the client must confirm.
MoneyVerdict(cost) == IF 10 * cost > 8 * CostLimit THEN "REQUIRES_CONFIRMATION" ELSE "APPROVED"

\* CostPredictor.predict on the plan of the tenant's record; a plan without a
\* price tier ("start") and a tenant without a record are refusals.
Predict(est, cost) ==
    CASE tplan = "none"  -> "UNKNOWN_TENANT"
      [] tplan = "start" -> "UNKNOWN_PLAN"
      [] tplan = "free"  -> QuotaVerdict(est)
      [] tplan = "pro"   -> MoneyVerdict(cost)

\* is_rejection: whatever is not one of the declared permissions refuses.
IsRejection(v) == v \notin {"APPROVED", "REQUIRES_CONFIRMATION", "allowed"}

-----------------------------------------------------------------------------
(* Routing *)

Turns(e, f) == exec' = [exec EXCEPT ![e] = f]

SubmitRouted(e, j, asked, est, cost) ==
    /\ submits < MaxSubmits /\ exec[e].pc = "idle"
    /\ submits' = submits + 1
    /\ Turns(e, [Resting EXCEPT !.pc = "verdict", !.job = j, !.asked = asked,
                                !.est = est, !.cost = cost])
    /\ UNCHANGED <<tplan, spent, sources, confirms, done, schedFaults>>

\* The predictor's verdict; without the client's strict confirmation a verdict
\* that asks for it is a refusal.
AfterVerdict(x, v) ==
    CASE IsRejection(v) -> Resting
      [] v = "APPROVED" -> [x EXCEPT !.pc = "gate",
                                     !.basis = IF tplan = "free" THEN "quota" ELSE "money"]
      [] v = "REQUIRES_CONFIRMATION" /\ ~x.asked -> Resting
      [] v = "REQUIRES_CONFIRMATION" /\ x.asked -> [x EXCEPT !.pc = "look", !.basis = "confirmed"]

RouteVerdict(e) ==
    /\ exec[e].pc = "verdict"
    /\ Turns(e, AfterVerdict(exec[e], Predict(exec[e].est, exec[e].cost)))
    /\ UNCHANGED <<tplan, spent, sources, confirms, done, submits, schedFaults>>

\* write_event_once: the event is looked up first; an audit ledger that does
\* not answer refuses the job.
ConfirmLook(e) ==
    /\ exec[e].pc = "look"
    /\ Turns(e, IF ~sources.audit THEN Resting
                ELSE [exec[e] EXCEPT !.pc = IF exec[e].job \in ToSet(confirms) THEN "gate" ELSE "write"])
    /\ UNCHANGED <<tplan, spent, sources, confirms, done, submits, schedFaults>>

\* The insertion skips an event that meanwhile exists.
Confirmed(j) == IF j \in ToSet(confirms) THEN confirms ELSE Append(confirms, j)

ConfirmWrite(e) ==
    /\ exec[e].pc = "write"
    /\ \/ /\ sources.audit
          /\ confirms' = Confirmed(exec[e].job)
          /\ Turns(e, [exec[e] EXCEPT !.pc = "gate"])
       \/ /\ ~sources.audit
          /\ Turns(e, Resting)
          /\ UNCHANGED confirms
    /\ UNCHANGED <<tplan, spent, sources, done, submits, schedFaults>>

\* EnterpriseDecisionGate.evaluate, and the second round of execute_job.
RouteGate(e, allowed) ==
    /\ exec[e].pc = "gate"
    /\ Turns(e, CASE ~allowed                        -> Resting
                  [] allowed /\ exec[e].round = 1    -> [exec[e] EXCEPT !.pc = "verdict", !.round = 2]
                  [] allowed /\ exec[e].round = 2    -> [exec[e] EXCEPT !.pc = "run"])
    /\ UNCHANGED <<tplan, spent, sources, confirms, done, submits, schedFaults>>

\* The connector or the local subprocess; the billing of the run meters it.
ExecuteRouted(e) ==
    /\ exec[e].pc = "run"
    /\ done' = done \cup {[job |-> exec[e].job, basis |-> exec[e].basis, cost |-> exec[e].cost]}
    /\ spent' = [jobs |-> spent.jobs + 1, gpu |-> spent.gpu + exec[e].est]
    /\ Turns(e, Resting)
    /\ UNCHANGED <<tplan, sources, confirms, submits, schedFaults>>

SourceFails(s) ==
    /\ schedFaults < MaxSchedFaults
    /\ schedFaults' = schedFaults + 1
    /\ sources' = [sources EXCEPT ![s] = ~@]
    /\ UNCHANGED <<tplan, spent, exec, confirms, done, submits>>

PlanChanges(p) ==
    /\ schedFaults < MaxSchedFaults
    /\ schedFaults' = schedFaults + 1
    /\ tplan' = p
    /\ UNCHANGED <<spent, sources, exec, confirms, done, submits>>

RoutingNext ==
    /\ UNCHANGED pvars
    /\ \/ \E e \in Executors :
             \/ \E j \in SJobs, asked \in BOOLEAN, est \in Estimates, cost \in {CostLimit - 3, CostLimit + 1} :
                   SubmitRouted(e, j, asked, est, cost)
             \/ RouteVerdict(e) \/ ConfirmLook(e) \/ ConfirmWrite(e)
             \/ \E allowed \in BOOLEAN : RouteGate(e, allowed)
             \/ ExecuteRouted(e)
       \/ \E s \in {"usage", "audit"} : SourceFails(s)
       \/ \E p \in Plans4 : PlanChanges(p)

-----------------------------------------------------------------------------
(* GPUPolicyEngineV2 *)

VramUsed(n) == MapThenSumSet(LAMBDA j : gnodes[n][j], DOMAIN gnodes[n])

VramFree(n) == NodeVram - VramUsed(n)

\* GPUNode.can_allocate: one job per GPU, and at least two GB free.
CanAllocate(n) == DOMAIN gnodes[n] = {} /\ VramFree(n) >= 2

Candidates(gb) == {n \in DOMAIN gnodes : CanAllocate(n) /\ VramFree(n) >= gb}

\* apply_backpressure: 85 per cent of the queue, or nine tenths of the memory.
Saturated ==
    \/ 100 * Len(pending) >= 85 * MaxPending
    \/ 10 * MapThenSumSet(VramUsed, DOMAIN gnodes)
          >= 9 * NodeVram * (IF DOMAIN gnodes = {} THEN 1 ELSE Cardinality(DOMAIN gnodes))

\* Queued jobs are kept in order of priority, first come first.
PendingWith(j, prio) ==
    LET k == Cardinality({i \in DOMAIN pending : pending[i].prio >= prio})
    IN InsertAt(pending, k + 1, [job |-> j, prio |-> prio])

\* schedule: refuse under back pressure, else the candidate least used, else
\* queue.  Callers schedule a job again only after they released it.
Schedule(j, prio, gb) ==
    /\ ~Saturated
    /\ \A n \in DOMAIN gnodes : j \notin DOMAIN gnodes[n]
    /\ \/ \E n \in Candidates(gb) :
             /\ \A m \in Candidates(gb) : VramUsed(n) <= VramUsed(m)
             /\ gnodes' = [gnodes EXCEPT ![n] = [i \in DOMAIN @ \cup {j} |-> IF i = j THEN gb ELSE @[i]]]
             /\ UNCHANGED pending
       \/ /\ Candidates(gb) = {}
          /\ pending' = PendingWith(j, prio)
          /\ UNCHANGED gnodes

ReleaseJob(n, j) ==
    /\ j \in DOMAIN gnodes[n]
    /\ gnodes' = [gnodes EXCEPT ![n] = [i \in DOMAIN @ \ {j} |-> @[i]]]
    /\ UNCHANGED pending

\* register_node replaces a node of the same name; unregister_node forgets it.
RegisterNode(n) ==
    /\ n \notin DOMAIN gnodes
    /\ gnodes' = [m \in DOMAIN gnodes \cup {n} |-> IF m = n THEN <<>> ELSE gnodes[m]]
    /\ UNCHANGED pending

UnregisterNode(n) ==
    /\ gnodes' = [m \in DOMAIN gnodes \ {n} |-> gnodes[m]]
    /\ UNCHANGED pending

PolicyNext ==
    /\ UNCHANGED routevars
    /\ \/ \E j \in PolicyJobs, prio \in 1..2, gb \in {1, NodeVram - 1} : Schedule(j, prio, gb)
       \/ \E n \in DOMAIN gnodes : UnregisterNode(n) \/ \E j \in PolicyJobs : ReleaseJob(n, j)
       \/ \E n \in GpuNodes : RegisterNode(n)

SchedNext == RoutingNext \/ PolicyNext

-----------------------------------------------------------------------------
(* Properties *)

\* A fact is recorded once: a job that is routed twice, by one executor or by
\* two, leaves one confirmation event.
ConfirmedOnce == \A i, k \in DOMAIN confirms : confirms[i] = confirms[k] => i = k

\* No expensive job ran without the client's confirmation in the ledger, and
\* a job that ran on a confirmation has it there.
ExpensiveIsConfirmed ==
    \A d \in done :
        /\ d.basis = "confirmed" => d.job \in ToSet(confirms)
        /\ d.basis = "money" => 10 * d.cost <= 8 * CostLimit

\* The month is overrun at most by what the executors admit together.
FreeQuotaNearlyKept ==
    (schedFaults = 0 /\ tplan = "free") =>
        /\ spent.jobs <= QuotaJobs + Cardinality(Executors) - 1
        /\ spent.gpu <= MonthlyGpu + (Cardinality(Executors) - 1) * PerJob

\* Memory is never overcommitted, a GPU runs one job, a job holds one GPU, and
\* jobs wait in order of priority, below the depth that sheds load.
ClusterBooks ==
    /\ \A n \in DOMAIN gnodes : VramUsed(n) <= NodeVram /\ Cardinality(DOMAIN gnodes[n]) <= 1
    /\ \A n, m \in DOMAIN gnodes : DOMAIN gnodes[n] \cap DOMAIN gnodes[m] # {} => n = m
    /\ \A i, k \in DOMAIN pending : i < k => pending[i].prio >= pending[k].prio
    /\ 100 * (Len(pending) - 1) < 85 * MaxPending

\* What the scheduler promises its clients: expensive work only with the
\* recorded confirmation, which is recorded once (write_event_once), a free
\* tenant within its month, and GPUs that are never shared or overcommitted.
SchedulerInv ==
    ConfirmedOnce /\ ExpensiveIsConfirmed /\ FreeQuotaNearlyKept /\ ClusterBooks
=============================================================================
