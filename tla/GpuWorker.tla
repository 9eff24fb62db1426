------------------------------ MODULE GpuWorker ------------------------------
(***************************************************************************)
(* The GPU worker loops (src/gpu_worker): threads of ROMAWorkerLoop share  *)
(* a JobRetryManager, a GPULockManager and a WorkerRegistry, each of which *)
(* takes its own lock for one call.  A worker has one GPU and is named by  *)
(* it.  Nothing in the repository puts a job on the loops' main queue, so  *)
(* jobs come from the retry queue alone.                                   *)
(***************************************************************************)
EXTENDS Naturals, Sequences, FiniteSets

CONSTANTS
    Loops, Gpus, GJobs,
    NoGJob, NoGpu,
    MaxOverruns,   \* bound: locks that reach their TTL while they are held
    MaxSilences    \* bound: heartbeat timeouts

ASSUME GpuWorkerAssumption ==
    /\ IsFiniteSet(GJobs) /\ NoGJob \notin GJobs /\ NoGpu \notin Gpus
    /\ MaxOverruns \in Nat /\ MaxSilences \in Nat

VARIABLES
    gstate,    \* _jobs: the state of each job
    rqueue,    \* _retry_queue
    gpulock,   \* GPULockManager._locks: the job, and has the lock reached its TTL
    wreg,      \* WorkerRegistry._workers: status and current_job
    loop,      \* the loops: where they are, their job and GPU
    overruns, silences,
    executed   \* history: how often each job was handed to the executor

gwvars == <<gstate, rqueue, gpulock, wreg, loop, overruns, silences, executed>>

JobState == {"absent", "queued", "running", "completed", "committed"}
LoopPcs == {"idle", "job", "lock", "mark", "current", "execute", "succeeded", "commit",
            "failed", "release", "registry", "dead"}
Unlocked == [job |-> NoGJob, aged |-> FALSE]
IdleLoop == [pc |-> "idle", job |-> NoGJob, gpu |-> NoGpu, raised |-> FALSE]

GWTypeOK ==
    /\ gstate \in [GJobs -> JobState]
    /\ rqueue \in Seq(GJobs) /\ Len(rqueue) <= Cardinality(GJobs)
    /\ gpulock \in [Gpus -> [job : GJobs \cup {NoGJob}, aged : BOOLEAN]]
    /\ wreg \in [Gpus -> [status : {"absent", "healthy", "dead"}, job : GJobs \cup {NoGJob}]]
    /\ loop \in [Loops -> [pc : LoopPcs, job : GJobs \cup {NoGJob}, gpu : Gpus \cup {NoGpu},
                           raised : BOOLEAN]]
    /\ overruns \in 0..MaxOverruns /\ silences \in 0..MaxSilences
    /\ executed \in [GJobs -> 0..2]

GWInit ==
    /\ gstate = [j \in GJobs |-> "absent"]
    /\ rqueue = <<>>
    /\ gpulock = [g \in Gpus |-> Unlocked]
    /\ wreg = [g \in Gpus |-> [status |-> "absent", job |-> NoGJob]]
    /\ loop = [l \in Loops |-> IdleLoop]
    /\ overruns = 0 /\ silences = 0
    /\ executed = [j \in GJobs |-> 0]

LoopAt(l, pc) == loop[l].pc = pc
LoopTo(l, pc) == loop' = [loop EXCEPT ![l].pc = pc]

-----------------------------------------------------------------------------

(* enqueue, with a fresh id.                                               *)
Enqueue(j) ==
    /\ gstate[j] = "absent"
    /\ gstate' = [gstate EXCEPT ![j] = "queued"]
    /\ rqueue' = Append(rqueue, j)
    /\ UNCHANGED <<gpulock, wreg, loop, overruns, silences, executed>>

NextRetry(l) ==
    /\ LoopAt(l, "idle") /\ rqueue # <<>>
    /\ rqueue' = Tail(rqueue)
    /\ loop' = [loop EXCEPT ![l] = [IdleLoop EXCEPT !.pc = "job", !.job = Head(rqueue)]]
    /\ UNCHANGED <<gstate, gpulock, wreg, overruns, silences, executed>>

Available == {g \in Gpus : wreg[g].status = "healthy" /\ wreg[g].job = NoGJob}

(* get_available_workers: one of them, whichever heads the list.  With     *)
(* none the iteration ends; its job is on no queue any more.               *)
PickWorker(l) ==
    /\ LoopAt(l, "job")
    /\ \/ Available = {} /\ loop' = [loop EXCEPT ![l] = IdleLoop]
       \/ \E g \in Available : loop' = [loop EXCEPT ![l].pc = "lock", ![l].gpu = g]
    /\ UNCHANGED <<gstate, rqueue, gpulock, wreg, overruns, silences, executed>>

Lockable(g) == gpulock[g].job = NoGJob \/ gpulock[g].aged

(* GPULockManager.acquire; a refusal ends the iteration as well.           *)
LockGpu(l) ==
    /\ LoopAt(l, "lock")
    /\ IF Lockable(loop[l].gpu)
       THEN /\ gpulock' = [gpulock EXCEPT ![loop[l].gpu] = [job |-> loop[l].job, aged |-> FALSE]]
            /\ LoopTo(l, "mark")
       ELSE loop' = [loop EXCEPT ![l] = IdleLoop] /\ UNCHANGED gpulock
    /\ UNCHANGED <<gstate, rqueue, wreg, overruns, silences, executed>>

(* mark_running; a job that is already done stays so, and is run all the   *)
(* same.                                                                   *)
MarkRunning(l) ==
    /\ LoopAt(l, "mark")
    /\ gstate' = [gstate EXCEPT ![loop[l].job] =
                     IF @ \in {"completed", "committed"} THEN @ ELSE "running"]
    /\ LoopTo(l, "current")
    /\ UNCHANGED <<rqueue, gpulock, wreg, overruns, silences, executed>>

(* WorkerRegistry.acquire_gpu_lock, whose answer is ignored.               *)
SetCurrent(l) ==
    /\ LoopAt(l, "current")
    /\ LET g == loop[l].gpu
       IN  wreg' = IF wreg[g].status # "absent" /\ wreg[g].job = NoGJob
                   THEN [wreg EXCEPT ![g].job = loop[l].job] ELSE wreg
    /\ executed' = [executed EXCEPT ![loop[l].job] = @ + 1]
    /\ LoopTo(l, "execute")
    /\ UNCHANGED <<gstate, rqueue, gpulock, overruns, silences>>

(* execute_docker returns.                                                 *)
Execute(l) ==
    /\ LoopAt(l, "execute")
    /\ \E pc \in {"succeeded", "failed"} : LoopTo(l, pc)
    /\ UNCHANGED <<gstate, rqueue, gpulock, wreg, overruns, silences, executed>>

MarkCompleted(l) ==
    /\ LoopAt(l, "succeeded")
    /\ gstate' = [gstate EXCEPT ![loop[l].job] = "completed"]
    /\ LoopTo(l, "commit")
    /\ UNCHANGED <<rqueue, gpulock, wreg, overruns, silences, executed>>

(* mark_committed: only a completed job; the answer is ignored.            *)
MarkCommitted(l) ==
    /\ LoopAt(l, "commit")
    /\ gstate' = [gstate EXCEPT ![loop[l].job] = IF @ = "completed" THEN "committed" ELSE @]
    /\ LoopTo(l, "release")
    /\ UNCHANGED <<rqueue, gpulock, wreg, overruns, silences, executed>>

(* handle_failure subscripts the job, which is no dictionary: it raises,   *)
(* and raises again in the except clause, so that nothing is retried and   *)
(* the thread ends after the finally clause.                               *)
HandleFailure(l) ==
    /\ LoopAt(l, "failed")
    /\ loop' = [loop EXCEPT ![l].pc = "release", ![l].raised = TRUE]
    /\ UNCHANGED <<gstate, rqueue, gpulock, wreg, overruns, silences, executed>>

(* Faulty variant: the lock is released only if the job succeeded.         *)
FinallyKeepsLock(l) ==
    /\ LoopAt(l, "release")
    /\ gpulock' = IF loop[l].raised THEN gpulock ELSE [gpulock EXCEPT ![loop[l].gpu] = Unlocked]
    /\ LoopTo(l, "registry")
    /\ UNCHANGED <<gstate, rqueue, wreg, overruns, silences, executed>>

(* finally: lock_mgr.release, whoever holds the lock by now.               *)
ReleaseLock(l) ==
    /\ LoopAt(l, "release")
    /\ gpulock' = [gpulock EXCEPT ![loop[l].gpu] = Unlocked]
    /\ LoopTo(l, "registry")
    /\ UNCHANGED <<gstate, rqueue, wreg, overruns, silences, executed>>

(* finally: release_gpu_lock and job_completed.                            *)
ClearCurrent(l) ==
    /\ LoopAt(l, "registry")
    /\ wreg' = [wreg EXCEPT ![loop[l].gpu].job = NoGJob]
    /\ loop' = [loop EXCEPT ![l] = IF loop[l].raised THEN [IdleLoop EXCEPT !.pc = "dead"]
                                   ELSE IdleLoop]
    /\ UNCHANGED <<gstate, rqueue, gpulock, overruns, silences, executed>>

-----------------------------------------------------------------------------
(* A lock reaches its TTL while its job still runs.                        *)
LockAges(g) ==
    /\ gpulock[g].job # NoGJob /\ ~gpulock[g].aged /\ overruns < MaxOverruns
    /\ gpulock' = [gpulock EXCEPT ![g].aged = TRUE]
    /\ overruns' = overruns + 1
    /\ UNCHANGED <<gstate, rqueue, wreg, loop, silences, executed>>

(* GPULockManager.cleanup_expired.                                         *)
CleanupLocks ==
    /\ \E g \in Gpus : gpulock[g].aged
    /\ gpulock' = [g \in Gpus |-> IF gpulock[g].aged THEN Unlocked ELSE gpulock[g]]
    /\ UNCHANGED <<gstate, rqueue, wreg, loop, overruns, silences, executed>>

RegisterGpu(g) ==
    /\ wreg[g].status = "absent"
    /\ wreg' = [wreg EXCEPT ![g] = [status |-> "healthy", job |-> NoGJob]]
    /\ UNCHANGED <<gstate, rqueue, gpulock, loop, overruns, silences, executed>>

(* heartbeat: the client never sends current_job, so it is cleared.        *)
GpuHeartbeat(g) ==
    /\ wreg[g].status # "absent"
    /\ wreg' = [wreg EXCEPT ![g] = [status |-> "healthy", job |-> NoGJob]]
    /\ UNCHANGED <<gstate, rqueue, gpulock, loop, overruns, silences, executed>>

HeartbeatTimeout(g) ==
    /\ wreg[g].status = "healthy" /\ silences < MaxSilences
    /\ wreg' = [wreg EXCEPT ![g].status = "dead"]
    /\ silences' = silences + 1
    /\ UNCHANGED <<gstate, rqueue, gpulock, loop, overruns, executed>>

CleanupDead ==
    /\ \E g \in Gpus : wreg[g].status = "dead"
    /\ wreg' = [g \in Gpus |-> IF wreg[g].status = "dead"
                               THEN [status |-> "absent", job |-> NoGJob] ELSE wreg[g]]
    /\ UNCHANGED <<gstate, rqueue, gpulock, loop, overruns, silences, executed>>

RunIteration(l) ==
    \/ NextRetry(l) \/ PickWorker(l) \/ LockGpu(l) \/ MarkRunning(l) \/ SetCurrent(l)
    \/ Execute(l) \/ MarkCompleted(l) \/ MarkCommitted(l) \/ HandleFailure(l)
    \/ ReleaseLock(l) \/ ClearCurrent(l)

GWNext ==
    \/ \E j \in GJobs : Enqueue(j)
    \/ \E l \in Loops : RunIteration(l)
    \/ \E g \in Gpus : LockAges(g) \/ RegisterGpu(g) \/ GpuHeartbeat(g) \/ HeartbeatTimeout(g)
    \/ CleanupLocks \/ CleanupDead

GWSpec == GWInit /\ [][GWNext]_gwvars

-----------------------------------------------------------------------------
Holding == {"mark", "current", "execute", "succeeded", "commit", "failed", "release"}

(* Two jobs share a GPU only after a lock reached its TTL under a running  *)
(* job: heartbeats that clear current_job and workers that are cleaned up  *)
(* and registered again do not let a second job in.                        *)
OneJobPerGpu ==
    overruns = 0 =>
        \A l, k \in Loops : /\ l # k /\ loop[l].pc \in Holding /\ loop[k].pc \in Holding
                            => loop[l].gpu # loop[k].gpu

(* A lock belongs to a job some loop is still working on, even after a     *)
(* loop has freed the lock of its successor: a failed job, whose loop dies *)
(* with it, leaves no GPU locked.                                          *)
LockHasHolder ==
    \A g \in Gpus : gpulock[g].job # NoGJob =>
        \E l \in Loops : loop[l].pc \in Holding /\ loop[l].gpu = g /\ loop[l].job = gpulock[g].job

(* No job is handed to the executor twice, whichever loops race for it.    *)
ExecutedOnce == \A j \in GJobs : executed[j] <= 1

(* The loops of a worker share GPUs, locks and queue safely.               *)
GpuWorkerInv == OneJobPerGpu /\ LockHasHolder /\ ExecutedOnce
=============================================================================
