---------------------------- MODULE ControlPlane ----------------------------
(***************************************************************************)
(* The control plane (src/control_plane): the job store, the worker        *)
(* registry, the GPU leases and the reconciler thread.  Each of the first  *)
(* three takes its own lock for one operation at a time; the reconciler    *)
(* strings such operations together and reads a job's status between them  *)
(* without a lock.                                                         *)
(*                                                                         *)
(* A worker has one GPU, w-gpu-0, and a job asks for one.  The job file is *)
(* rewritten by every operation on a job, so it holds the jobs in memory   *)
(* unless the process dies while it writes.                                *)
(***************************************************************************)
EXTENDS Naturals

CONSTANTS
    CPJobs, CPWorkers,
    NoWorker, NoLease,
    MaxRetries,    \* Job.max_retries
    MaxDeaths      \* bound: crashes of the process

ASSUME ControlPlaneAssumption ==
    /\ NoWorker \notin CPWorkers /\ NoLease \notin CPJobs
    /\ MaxRetries \in Nat /\ MaxDeaths \in Nat

VARIABLES
    cjob,      \* _jobs: status, worker_id and retry_count
    cworker,   \* _w: status, and is the last heartbeat older than ht
    gpulease,     \* _leases: job and expiry of each worker's GPU
    tick,      \* the reconciler: where it is, the workers and jobs it has yet to visit
    cpup,   \* up, down, or down with a torn job file
    deaths,
    completed       \* history: jobs that completed some time

cpvars == <<cjob, cworker, gpulease, tick, cpup, deaths, completed>>

JobStatus == {"NONE", "SUBMITTED", "SCHEDULED", "RUNNING", "COMPLETED", "COMMITTED",
              "FAILED", "DEAD", "PENDING_RETRY"}
TickPcs == {"idle", "scan", "mark", "list", "look", "fail", "look_again", "requeue",
            "release", "cleanup", "advance"}
NoVisit == [pc |-> "idle", workers |-> {}, w |-> NoWorker, jobs |-> {}, j |-> NoLease]
FreeGpu == [job |-> NoLease, live |-> FALSE]

CPTypeOK ==
    /\ cjob \in [CPJobs -> [status : JobStatus, worker : CPWorkers \cup {NoWorker},
                            retries : 0..MaxRetries]]
    /\ cworker \in [CPWorkers -> [status : {"NONE", "HEALTHY", "DEAD"}, late : BOOLEAN]]
    /\ gpulease \in [CPWorkers -> [job : CPJobs \cup {NoLease}, live : BOOLEAN]]
    /\ tick \in [pc : TickPcs, workers : SUBSET CPWorkers, w : CPWorkers \cup {NoWorker},
                 jobs : SUBSET CPJobs, j : CPJobs \cup {NoLease}]
    /\ cpup \in {"up", "down", "torn"}
    /\ deaths \in 0..MaxDeaths
    /\ completed \subseteq CPJobs

CPInit ==
    /\ cjob = [j \in CPJobs |-> [status |-> "NONE", worker |-> NoWorker, retries |-> 0]]
    /\ cworker = [w \in CPWorkers |-> [status |-> "NONE", late |-> FALSE]]
    /\ gpulease = [w \in CPWorkers |-> FreeGpu]
    /\ tick = NoVisit
    /\ cpup = "up"
    /\ deaths = 0
    /\ completed = {}

-----------------------------------------------------------------------------
(* The job store: a transition from one of the statuses it allows.         *)
MoveJob(j, from, to) ==
    /\ cpup = "up" /\ cjob[j].status \in from
    /\ cjob' = [cjob EXCEPT ![j].status = to]

SubmitJob(j) ==
    /\ MoveJob(j, {"NONE"}, "SUBMITTED")
    /\ UNCHANGED <<cworker, gpulease, tick, cpup, deaths, completed>>

(* schedule, to a worker select_best returned some time before.            *)
ScheduleJob(j, w) ==
    /\ cpup = "up" /\ cjob[j].status = "SUBMITTED" /\ cworker[w].status # "NONE"
    /\ cjob' = [cjob EXCEPT ![j].status = "SCHEDULED", ![j].worker = w]
    /\ UNCHANGED <<cworker, gpulease, tick, cpup, deaths, completed>>

StartJob(j) ==
    /\ MoveJob(j, {"SCHEDULED"}, "RUNNING")
    /\ UNCHANGED <<cworker, gpulease, tick, cpup, deaths, completed>>

CompleteJob(j) ==
    /\ MoveJob(j, {"RUNNING"}, "COMPLETED")
    /\ completed' = completed \cup {j}
    /\ UNCHANGED <<cworker, gpulease, tick, cpup, deaths>>

CommitJob(j) ==
    /\ MoveJob(j, {"COMPLETED"}, "COMMITTED")
    /\ UNCHANGED <<cworker, gpulease, tick, cpup, deaths, completed>>

FailJob(j) ==
    /\ MoveJob(j, {"RUNNING", "SCHEDULED"}, "FAILED")
    /\ UNCHANGED <<cworker, gpulease, tick, cpup, deaths, completed>>

-----------------------------------------------------------------------------
(* The registry.  register replaces the worker, heartbeat revives it.      *)
Beat(w, from) ==
    /\ cpup = "up" /\ cworker[w].status \in from
    /\ cworker' = [cworker EXCEPT ![w] = [status |-> "HEALTHY", late |-> FALSE]]
    /\ UNCHANGED <<cjob, gpulease, tick, cpup, deaths, completed>>

RegisterWorker(w) == Beat(w, {"NONE", "HEALTHY", "DEAD"})
WorkerBeats(w) == Beat(w, {"HEALTHY", "DEAD"})

(* The heartbeat timeout passes.                                           *)
Silence(w) ==
    /\ cworker[w].status # "NONE" /\ ~cworker[w].late
    /\ cworker' = [cworker EXCEPT ![w].late = TRUE]
    /\ UNCHANGED <<cjob, gpulease, tick, cpup, deaths, completed>>

-----------------------------------------------------------------------------
(* The leases.  A job takes the GPU of the worker it is on; renew adds     *)
(* one period, which may be too little for a lease that has expired.       *)
AcquireGpu(j, w) ==
    /\ cpup = "up" /\ cjob[j].worker = w /\ cjob[j].status \in {"SCHEDULED", "RUNNING"}
    /\ gpulease[w] = FreeGpu \/ ~gpulease[w].live
    /\ gpulease' = [gpulease EXCEPT ![w] = [job |-> j, live |-> TRUE]]
    /\ UNCHANGED <<cjob, cworker, tick, cpup, deaths, completed>>

RenewGpu(j, w) ==
    /\ cpup = "up" /\ gpulease[w].job = j
    /\ \E live \in {gpulease[w].live, TRUE} : gpulease' = [gpulease EXCEPT ![w].live = live]
    /\ UNCHANGED <<cjob, cworker, tick, cpup, deaths, completed>>

Released(w, j) == IF gpulease[w].job = j THEN [gpulease EXCEPT ![w] = FreeGpu] ELSE gpulease

ReleaseGpu(j, w) ==
    /\ cpup = "up" /\ gpulease[w].job = j
    /\ gpulease' = Released(w, j)
    /\ UNCHANGED <<cjob, cworker, tick, cpup, deaths, completed>>

ExpireLease(w) ==
    /\ gpulease[w].live
    /\ gpulease' = [gpulease EXCEPT ![w].live = FALSE]
    /\ UNCHANGED <<cjob, cworker, tick, cpup, deaths, completed>>

-----------------------------------------------------------------------------
(* The reconciler, one lock section or unlocked read at a time.            *)
TickAt(pc) == cpup = "up" /\ tick.pc = pc

TickTo(pc) == tick' = [tick EXCEPT !.pc = pc]

(* On to one of the dead worker's jobs, or back to the workers.            *)
VisitJobs(jobs) ==
    \/ /\ jobs = {}
       /\ tick' = [tick EXCEPT !.pc = "scan", !.j = NoLease]
    \/ \E j \in jobs : tick' = [tick EXCEPT !.pc = "look", !.j = j, !.jobs = jobs \ {j}]

TickBegins ==
    /\ TickAt("idle")
    /\ tick' = [NoVisit EXCEPT !.pc = "scan",
                               !.workers = {w \in CPWorkers : cworker[w].status # "NONE"}]
    /\ UNCHANGED <<cjob, cworker, gpulease, cpup, deaths, completed>>

(* A healthy worker whose heartbeat is late is to be marked dead.          *)
Scan(w) ==
    /\ TickAt("scan") /\ w \in tick.workers
    /\ tick' = [tick EXCEPT !.workers = @ \ {w}, !.w = w,
                            !.pc = IF cworker[w].late /\ cworker[w].status = "HEALTHY"
                                   THEN "mark" ELSE "scan"]
    /\ UNCHANGED <<cjob, cworker, gpulease, cpup, deaths, completed>>

MarkDead ==
    /\ TickAt("mark")
    /\ cworker' = [cworker EXCEPT ![tick.w].status = "DEAD"]
    /\ TickTo("list")
    /\ UNCHANGED <<cjob, gpulease, cpup, deaths, completed>>

(* list_by_worker.                                                         *)
ListJobs ==
    /\ TickAt("list")
    /\ VisitJobs({j \in CPJobs : cjob[j].worker = tick.w})
    /\ UNCHANGED <<cjob, cworker, gpulease, cpup, deaths, completed>>

(* if job.status == RUNNING                                                *)
Look ==
    /\ TickAt("look")
    /\ TickTo(IF cjob[tick.j].status = "RUNNING" THEN "fail" ELSE "look_again")
    /\ UNCHANGED <<cjob, cworker, gpulease, cpup, deaths, completed>>

TickFails ==
    /\ TickAt("fail")
    /\ cjob' = IF cjob[tick.j].status \in {"RUNNING", "SCHEDULED"}
               THEN [cjob EXCEPT ![tick.j].status = "FAILED"] ELSE cjob
    /\ TickTo("look_again")
    /\ UNCHANGED <<cworker, gpulease, cpup, deaths, completed>>

(* if job.status in (SCHEDULED, FAILED)                                    *)
LookAgain ==
    /\ TickAt("look_again")
    /\ IF cjob[tick.j].status \in {"SCHEDULED", "FAILED"} THEN TickTo("requeue")
       ELSE VisitJobs(tick.jobs)
    /\ UNCHANGED <<cjob, cworker, gpulease, cpup, deaths, completed>>

(* Faulty variant: any status is retried.                                  *)
RetryableAny(j) == cjob[j].retries < MaxRetries

Retryable(j) == cjob[j].retries < MaxRetries /\ cjob[j].status \in {"FAILED", "DEAD"}

(* requeue: back to the queue, or DEAD whatever the status is by now.      *)
Requeue ==
    /\ TickAt("requeue")
    /\ IF Retryable(tick.j)
       THEN /\ cjob' = [cjob EXCEPT ![tick.j] = [status |-> "PENDING_RETRY", worker |-> NoWorker,
                                                 retries |-> cjob[tick.j].retries + 1]]
            /\ TickTo("release")
       ELSE /\ cjob' = [cjob EXCEPT ![tick.j].status = "DEAD"]
            /\ VisitJobs(tick.jobs)
    /\ UNCHANGED <<cworker, gpulease, cpup, deaths, completed>>

TickReleases ==
    /\ TickAt("release")
    /\ gpulease' = Released(tick.w, tick.j)
    /\ VisitJobs(tick.jobs)
    /\ UNCHANGED <<cjob, cworker, cpup, deaths, completed>>

ScanEnds ==
    /\ TickAt("scan") /\ tick.workers = {}
    /\ TickTo("cleanup")
    /\ UNCHANGED <<cjob, cworker, gpulease, cpup, deaths, completed>>

CleanupExpired ==
    /\ TickAt("cleanup")
    /\ gpulease' = [w \in CPWorkers |-> IF gpulease[w].live THEN gpulease[w] ELSE FreeGpu]
    /\ TickTo("advance")
    /\ UNCHANGED <<cjob, cworker, cpup, deaths, completed>>

AdvancePending ==
    /\ TickAt("advance")
    /\ cjob' = [j \in CPJobs |-> IF cjob[j].status = "PENDING_RETRY"
                                 THEN [cjob[j] EXCEPT !.status = "SUBMITTED"] ELSE cjob[j]]
    /\ tick' = NoVisit
    /\ UNCHANGED <<cworker, gpulease, cpup, deaths, completed>>

-----------------------------------------------------------------------------
(* The process dies: workers, leases and the tick are gone.  A death while *)
(* the file is written leaves one that _load cannot parse, and the store   *)
(* does not come up again.                                                 *)
StoreDies ==
    /\ cpup = "up" /\ deaths < MaxDeaths
    /\ deaths' = deaths + 1
    /\ cpup' \in {"down", "torn"}
    /\ cworker' = [w \in CPWorkers |-> [status |-> "NONE", late |-> FALSE]]
    /\ gpulease' = [w \in CPWorkers |-> FreeGpu]
    /\ tick' = NoVisit
    /\ UNCHANGED <<cjob, completed>>

(* JobStore.__init__, _load.                                               *)
LoadJobs ==
    /\ cpup = "down" /\ cpup' = "up"
    /\ UNCHANGED <<cjob, cworker, gpulease, tick, deaths, completed>>

Reconcile ==
    \/ TickBegins \/ MarkDead \/ ListJobs \/ Look \/ TickFails \/ LookAgain \/ Requeue
    \/ TickReleases \/ ScanEnds \/ CleanupExpired \/ AdvancePending
    \/ \E w \in CPWorkers : Scan(w)

CPNext ==
    \/ Reconcile \/ StoreDies \/ LoadJobs
    \/ \E j \in CPJobs : SubmitJob(j) \/ StartJob(j) \/ CompleteJob(j) \/ CommitJob(j) \/ FailJob(j)
    \/ \E w \in CPWorkers : RegisterWorker(w) \/ WorkerBeats(w) \/ Silence(w) \/ ExpireLease(w)
    \/ \E j \in CPJobs, w \in CPWorkers :
          ScheduleJob(j, w) \/ AcquireGpu(j, w) \/ RenewGpu(j, w) \/ ReleaseGpu(j, w)

CPSpec == CPInit /\ [][CPNext]_cpvars

-----------------------------------------------------------------------------
(* Work that has completed is never queued or run again, although the      *)
(* reconciler may write DEAD over it: requeue only revives a job that      *)
(* failed, and a job that completed cannot fail any more.                  *)
CompletedNotRerun ==
    \A j \in completed : cjob[j].status \in {"COMPLETED", "COMMITTED", "DEAD"}

(* A lease belongs to a job that is on the worker, or the reconciler has   *)
(* just taken the job off it and is about to release the lease: a job that *)
(* goes back to the queue blocks no GPU.                                   *)
LeaseFollowsJob ==
    \A w \in CPWorkers : gpulease[w].job # NoLease /\ cjob[gpulease[w].job].worker # w =>
        tick.pc = "release" /\ tick.j = gpulease[w].job /\ tick.w = w

(* What the reconciler may not undo, whatever runs between its steps.      *)
ControlPlaneInv == CompletedNotRerun /\ LeaseFollowsJob
=============================================================================
