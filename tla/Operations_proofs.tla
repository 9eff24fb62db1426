-------------------------- MODULE Operations_proofs --------------------------
(***************************************************************************)
(* The parts that run jobs on machines and keep their records, for every   *)
(* size: control plane, hosts, GPU workers, cluster, event logs and state  *)
(* store.  Each has an inductive invariant; a step of MCOperations is a    *)
(* step or a stutter of each part.                                         *)
(***************************************************************************)
EXTENDS MCOperations, FiniteSetTheorems, SequenceTheorems, TLAPS

OperationsVars == <<focus, vars, cpvars, hvars, gwvars, evars, ssvars, cvars, dvars,
                    wvars, mvars, fvars, svars, bvars, opvars>>

-----------------------------------------------------------------------------
(* The control plane.                                                      *)
CPJobRow == [status : JobStatus, worker : CPWorkers \cup {NoWorker}, retries : 0..MaxRetries]
CPTickRow == [pc : TickPcs, workers : SUBSET CPWorkers, w : CPWorkers \cup {NoWorker},
              jobs : SUBSET CPJobs, j : CPJobs \cup {NoLease}]

(* While the reconciler is with a dead worker's job, that job and the ones *)
(* still to visit are on the worker; a job it is about to requeue is not   *)
(* DEAD, so that a completed job it has written DEAD is not revived.       *)
Visiting == {"look", "fail", "look_again", "requeue"}
VisitInv ==
    /\ tick.pc \in Visiting \cup {"mark", "list", "release"} => tick.w \in CPWorkers
    /\ tick.pc \in Visiting \cup {"release"} =>
          /\ tick.j \in CPJobs /\ tick.j \notin tick.jobs
          /\ \A j \in tick.jobs : cjob[j].worker = tick.w
    /\ tick.pc \in Visiting => cjob[tick.j].worker = tick.w
    /\ tick.pc = "requeue" => cjob[tick.j].status # "DEAD"

(* A job that waits for a worker has none.                                 *)
WaitingJobs ==
    \A j \in CPJobs : cjob[j].status \in {"NONE", "SUBMITTED", "PENDING_RETRY"} =>
                         cjob[j].worker = NoWorker

CPIInv == CPTypeOK /\ VisitInv /\ WaitingJobs /\ CompletedNotRerun /\ LeaseFollowsJob

LEMMA CPInitInv == CPInit => CPIInv
  BY ControlPlaneAssumption DEF CPInit, CPIInv, CPTypeOK, VisitInv, WaitingJobs, CompletedNotRerun,
       LeaseFollowsJob, NoVisit, FreeGpu, JobStatus, TickPcs, Visiting

(* A job whose status changes, and nothing else, to one that neither waits *)
(* for a worker nor revives completed work.                                *)
LEMMA JobMovesInv ==
  ASSUME CPIInv, NEW j \in CPJobs, NEW to \in JobStatus \ {"NONE", "PENDING_RETRY", "DEAD"},
         cjob' = [cjob EXCEPT ![j].status = to],
         j \in completed => to \in {"COMPLETED", "COMMITTED"},
         to = "SUBMITTED" => cjob[j].worker = NoWorker,
         UNCHANGED <<cworker, gpulease, tick, cpup, deaths, completed>>
  PROVE  CPIInv'
  <1>1. /\ cjob' \in [CPJobs -> CPJobRow]
        /\ cjob'[j].status = to /\ cjob'[j].worker = cjob[j].worker
        /\ \A i \in CPJobs : i # j => cjob'[i] = cjob[i]
    BY DEF CPIInv, CPTypeOK, CPJobRow
  <1>2. \A i \in CPJobs : cjob'[i].worker = cjob[i].worker
    BY <1>1
  <1>3. CPTypeOK'
    BY <1>1 DEF CPIInv, CPTypeOK, CPJobRow
  <1>4. VisitInv'
    BY <1>1, <1>2 DEF CPIInv, VisitInv, CPTypeOK, Visiting
  <1>5. WaitingJobs'
    BY <1>1, <1>2 DEF CPIInv, WaitingJobs
  <1>6. CompletedNotRerun'
    BY <1>1 DEF CPIInv, CPTypeOK, CompletedNotRerun
  <1>7. LeaseFollowsJob'
    BY <1>1, <1>2 DEF CPIInv, CPTypeOK, LeaseFollowsJob
  <1> QED BY <1>3, <1>4, <1>5, <1>6, <1>7 DEF CPIInv

LEMMA JobStoreInv ==
  ASSUME CPIInv, NEW j \in CPJobs,
         \/ SubmitJob(j) \/ StartJob(j) \/ CommitJob(j) \/ FailJob(j)
  PROVE  CPIInv'
  <1>1. PICK to \in {"SUBMITTED", "RUNNING", "COMMITTED", "FAILED"} :
            /\ cjob' = [cjob EXCEPT ![j].status = to]
            /\ to = "SUBMITTED" => cjob[j].status = "NONE"
            /\ to = "COMMITTED" => cjob[j].status = "COMPLETED"
            /\ to \in {"RUNNING", "FAILED"} => cjob[j].status \in {"SCHEDULED", "RUNNING"}
            /\ to = "SUBMITTED" => cjob[j].status = "NONE"
    BY DEF SubmitJob, StartJob, CommitJob, FailJob, MoveJob
  <1>2. j \in completed => to \in {"COMPLETED", "COMMITTED"}
    BY <1>1 DEF CPIInv, CompletedNotRerun
  <1>3. to = "SUBMITTED" => cjob[j].worker = NoWorker
    BY <1>1 DEF CPIInv, WaitingJobs
  <1>4. UNCHANGED <<cworker, gpulease, tick, cpup, deaths, completed>>
    BY DEF SubmitJob, StartJob, CommitJob, FailJob
  <1>5. to \in JobStatus \ {"NONE", "PENDING_RETRY", "DEAD"}
    BY DEF JobStatus
  <1> QED BY <1>1, <1>2, <1>3, <1>4, <1>5, JobMovesInv

LEMMA CompleteJobInv ==
  ASSUME CPIInv, NEW j \in CPJobs, CompleteJob(j)
  PROVE  CPIInv'
  <1>1. /\ cjob' \in [CPJobs -> CPJobRow]
        /\ cjob'[j].status = "COMPLETED" /\ cjob'[j].worker = cjob[j].worker
        /\ \A i \in CPJobs : i # j => cjob'[i] = cjob[i]
    BY DEF CPIInv, CPTypeOK, CPJobRow, CompleteJob, MoveJob, JobStatus
  <1>2. UNCHANGED <<cworker, gpulease, tick, cpup, deaths>> /\ completed' = completed \cup {j}
    BY DEF CompleteJob
  <1>3. CPTypeOK'
    BY <1>1, <1>2 DEF CPIInv, CPTypeOK, CPJobRow
  <1>4. VisitInv'
    BY <1>1, <1>2 DEF CPIInv, VisitInv, CPTypeOK, Visiting
  <1>5. WaitingJobs'
    BY <1>1 DEF CPIInv, WaitingJobs
  <1>6. CompletedNotRerun'
    BY <1>1, <1>2 DEF CPIInv, CPTypeOK, CompletedNotRerun
  <1>7. LeaseFollowsJob'
    BY <1>1, <1>2 DEF CPIInv, CPTypeOK, LeaseFollowsJob
  <1> QED BY <1>3, <1>4, <1>5, <1>6, <1>7 DEF CPIInv

LEMMA ScheduleJobInv ==
  ASSUME CPIInv, NEW j \in CPJobs, NEW w \in CPWorkers, ScheduleJob(j, w)
  PROVE  CPIInv'
  <1>1. /\ cjob' \in [CPJobs -> CPJobRow]
        /\ cjob'[j].status = "SCHEDULED" /\ cjob'[j].worker = w
        /\ \A i \in CPJobs : i # j => cjob'[i] = cjob[i]
    BY DEF CPIInv, CPTypeOK, CPJobRow, ScheduleJob, JobStatus
  <1>2. UNCHANGED <<cworker, gpulease, tick, cpup, deaths, completed>>
    BY DEF ScheduleJob
  <1>3. cjob[j].status = "SUBMITTED" /\ cjob[j].worker = NoWorker /\ j \notin completed
    BY DEF ScheduleJob, CPIInv, WaitingJobs, CompletedNotRerun
  <1>4. CPTypeOK'
    BY <1>1, <1>2 DEF CPIInv, CPTypeOK, CPJobRow
  <1>5. VisitInv'
    BY <1>1, <1>2, <1>3, ControlPlaneAssumption DEF CPIInv, VisitInv, CPTypeOK, Visiting
  <1>6. WaitingJobs'
    BY <1>1 DEF CPIInv, WaitingJobs
  <1>7. CompletedNotRerun'
    BY <1>1, <1>2, <1>3 DEF CPIInv, CPTypeOK, CompletedNotRerun
  <1>8. LeaseFollowsJob'
    BY <1>1, <1>2, <1>3, ControlPlaneAssumption DEF CPIInv, CPTypeOK, LeaseFollowsJob
  <1> QED BY <1>4, <1>5, <1>6, <1>7, <1>8 DEF CPIInv

(* The registry holds nothing the invariant speaks of but its type.        *)
LEMMA RegistryStepInv ==
  ASSUME CPIInv, NEW w \in CPWorkers, RegisterWorker(w) \/ WorkerBeats(w) \/ Silence(w)
  PROVE  CPIInv'
  <1>1. cworker' \in [CPWorkers -> [status : {"NONE", "HEALTHY", "DEAD"}, late : BOOLEAN]]
    <2>1. CASE RegisterWorker(w) \/ WorkerBeats(w)
      <3>1. [status |-> "HEALTHY", late |-> FALSE]
              \in [status : {"NONE", "HEALTHY", "DEAD"}, late : BOOLEAN]
        OBVIOUS
      <3> QED BY <2>1, <3>1 DEF RegisterWorker, WorkerBeats, Beat, CPIInv, CPTypeOK
    <2>2. CASE Silence(w)
      BY <2>2 DEF Silence, CPIInv, CPTypeOK
    <2> QED BY <2>1, <2>2
  <1>2. UNCHANGED <<cjob, gpulease, tick, cpup, deaths, completed>>
    BY DEF RegisterWorker, WorkerBeats, Beat, Silence
  <1> QED BY <1>1, <1>2 DEF CPIInv, CPTypeOK, VisitInv, WaitingJobs, CompletedNotRerun, LeaseFollowsJob

LEMMA LeaseStepInv ==
  ASSUME CPIInv, NEW w \in CPWorkers,
         \/ \E j \in CPJobs : AcquireGpu(j, w) \/ RenewGpu(j, w) \/ ReleaseGpu(j, w)
         \/ ExpireLease(w)
  PROVE  CPIInv'
  <1> DEFINE LeaseRow == [job : CPJobs \cup {NoLease}, live : BOOLEAN]
  <1>1. UNCHANGED <<cjob, cworker, tick, cpup, deaths, completed>>
    BY DEF AcquireGpu, RenewGpu, ReleaseGpu, ExpireLease
  <1>2. PICK new \in LeaseRow :
            /\ gpulease' = [gpulease EXCEPT ![w] = new]
            /\ \/ new.job = NoLease \/ new.job = gpulease[w].job
               \/ new.job \in CPJobs /\ cjob[new.job].worker = w
    <2>0. gpulease \in [CPWorkers -> LeaseRow]
      BY DEF CPIInv, CPTypeOK
    <2>1. CASE \E j \in CPJobs : AcquireGpu(j, w)
      <3>1. PICK j \in CPJobs : AcquireGpu(j, w)
        BY <2>1
      <3>2. gpulease' = [gpulease EXCEPT ![w] = [job |-> j, live |-> TRUE]] /\ cjob[j].worker = w
        BY <3>1 DEF AcquireGpu
      <3>3. [job |-> j, live |-> TRUE] \in LeaseRow /\ [job |-> j, live |-> TRUE].job = j
        OBVIOUS
      <3> QED BY <3>2, <3>3
    <2>2. CASE (\E j \in CPJobs : RenewGpu(j, w)) \/ ExpireLease(w)
      <3>1. PICK live \in BOOLEAN : gpulease' = [gpulease EXCEPT ![w].live = live]
        BY <2>0, <2>2 DEF RenewGpu, ExpireLease
      <3>2. [gpulease[w] EXCEPT !.live = live] \in LeaseRow
        BY <2>0
      <3>3. [gpulease[w] EXCEPT !.live = live].job = gpulease[w].job
        BY <2>0
      <3> QED BY <3>1, <3>2, <3>3
    <2>3. CASE \E j \in CPJobs : ReleaseGpu(j, w)
      <3>1. gpulease' = [gpulease EXCEPT ![w] = FreeGpu]
        BY <2>3 DEF ReleaseGpu, Released
      <3>2. FreeGpu \in LeaseRow /\ FreeGpu.job = NoLease
        BY DEF FreeGpu
      <3> QED BY <3>1, <3>2
    <2> QED BY <2>1, <2>2, <2>3
  <1>3. /\ gpulease' \in [CPWorkers -> LeaseRow] /\ gpulease'[w] = new
        /\ \A v \in CPWorkers : v # w => gpulease'[v] = gpulease[v]
    BY <1>2 DEF CPIInv, CPTypeOK
  <1>4. LeaseFollowsJob'
    BY <1>1, <1>2, <1>3 DEF CPIInv, LeaseFollowsJob
  <1> QED BY <1>1, <1>3, <1>4 DEF CPIInv, CPTypeOK, VisitInv, WaitingJobs, CompletedNotRerun

(* The reconciler moves on and changes nothing else.                       *)
LEMMA TickOnlyInv ==
  ASSUME CPIInv, tick' \in CPTickRow, VisitInv', tick.pc # "release",
         UNCHANGED <<cjob, gpulease, cpup, deaths, completed>>,
         cworker' \in [CPWorkers -> [status : {"NONE", "HEALTHY", "DEAD"}, late : BOOLEAN]]
  PROVE  CPIInv'
  BY DEF CPIInv, CPTypeOK, CPTickRow, WaitingJobs, CompletedNotRerun, LeaseFollowsJob

LEMMA VisitJobsInv ==
  ASSUME tick \in CPTickRow, NEW jobs \in SUBSET CPJobs, tick.w \in CPWorkers,
         \A j \in jobs : cjob'[j].worker = tick.w,
         VisitJobs(jobs)
  PROVE  tick' \in CPTickRow /\ VisitInv' /\ tick'.pc # "release"
  <1>1. CASE tick' = [tick EXCEPT !.pc = "scan", !.j = NoLease]
    <2>1. tick' \in CPTickRow /\ tick'.pc = "scan"
      BY <1>1 DEF CPTickRow, TickPcs
    <2> QED BY <2>1 DEF VisitInv, Visiting
  <1>2. ASSUME NEW j \in jobs, tick' = [tick EXCEPT !.pc = "look", !.j = j, !.jobs = jobs \ {j}]
        PROVE  tick' \in CPTickRow /\ VisitInv' /\ tick'.pc # "release"
    <2>1. /\ tick' \in CPTickRow /\ tick'.pc = "look" /\ tick'.w = tick.w
          /\ tick'.j = j /\ tick'.jobs = jobs \ {j}
      BY <1>2 DEF CPTickRow, TickPcs
    <2> QED BY <2>1 DEF VisitInv, Visiting
  <1> QED BY <1>1, <1>2 DEF VisitJobs

LEMMA TickToRow ==
  ASSUME tick \in CPTickRow, NEW pc \in TickPcs, TickTo(pc)
  PROVE  /\ tick' \in CPTickRow /\ tick'.pc = pc /\ tick'.w = tick.w
         /\ tick'.j = tick.j /\ tick'.jobs = tick.jobs
  BY DEF TickTo, CPTickRow

LEMMA ReconcilerReadsInv ==
  ASSUME CPIInv, \/ TickBegins \/ ListJobs \/ Look \/ LookAgain \/ ScanEnds
                 \/ \E w \in CPWorkers : Scan(w)
  PROVE  CPIInv'
  <1>0. UNCHANGED <<cjob, cworker, gpulease, cpup, deaths, completed>>
    BY DEF TickBegins, ListJobs, Look, LookAgain, ScanEnds, Scan
  <1>1. tick \in CPTickRow /\ VisitInv
        /\ cworker \in [CPWorkers -> [status : {"NONE", "HEALTHY", "DEAD"}, late : BOOLEAN]]
    BY DEF CPIInv, CPTypeOK, CPTickRow
  <1>2. tick.pc # "release"
    BY DEF TickBegins, ListJobs, Look, LookAgain, ScanEnds, Scan, TickAt
  <1>3. tick' \in CPTickRow /\ VisitInv'
    <2>1. CASE TickBegins
      <3>1. tick' \in CPTickRow /\ tick'.pc = "scan"
        BY <2>1 DEF TickBegins, NoVisit, CPTickRow, TickPcs
      <3> QED BY <3>1 DEF VisitInv, Visiting
    <2>2. CASE ListJobs
      <3>1. tick.w \in CPWorkers
        BY <1>1, <2>2 DEF ListJobs, TickAt, VisitInv
      <3>2. PICK jobs \in SUBSET CPJobs : jobs = {j \in CPJobs : cjob[j].worker = tick.w}
        OBVIOUS
      <3>3. VisitJobs(jobs)
        BY <2>2, <3>2 DEF ListJobs
      <3>4. \A j \in jobs : cjob'[j].worker = tick.w
        BY <1>0, <3>2
      <3> QED BY <1>1, <3>1, <3>3, <3>4, VisitJobsInv
    <2>3. CASE Look
      <3>1. PICK pc \in {"fail", "look_again"} : TickTo(pc)
        BY <2>3 DEF Look
      <3>2. pc \in TickPcs /\ pc \in Visiting /\ pc # "requeue"
        BY DEF TickPcs, Visiting
      <3>3. tick.pc \in Visiting
        BY <2>3 DEF Look, TickAt, Visiting
      <3> QED BY <1>0, <1>1, <3>1, <3>2, <3>3, TickToRow DEF VisitInv
    <2>4. CASE LookAgain
      <3>1. tick.pc \in Visiting
        BY <2>4 DEF LookAgain, TickAt, Visiting
      <3>2. CASE cjob[tick.j].status \in {"SCHEDULED", "FAILED"}
        <4>1. TickTo("requeue") /\ "requeue" \in TickPcs
          BY <2>4, <3>2 DEF LookAgain, TickPcs
        <4>2. /\ tick' \in CPTickRow /\ tick'.pc = "requeue" /\ tick'.w = tick.w
              /\ tick'.j = tick.j /\ tick'.jobs = tick.jobs
          BY <1>1, <4>1, TickToRow
        <4> QED BY <1>0, <1>1, <3>1, <3>2, <4>2 DEF VisitInv
      <3>3. CASE cjob[tick.j].status \notin {"SCHEDULED", "FAILED"}
        <4>1. VisitJobs(tick.jobs) /\ tick.jobs \in SUBSET CPJobs
          BY <1>1, <2>4, <3>3 DEF LookAgain, CPTickRow
        <4>2. tick.w \in CPWorkers /\ \A j \in tick.jobs : cjob'[j].worker = tick.w
          BY <1>0, <1>1, <3>1 DEF VisitInv
        <4> QED BY <1>1, <4>1, <4>2, VisitJobsInv
      <3> QED BY <3>2, <3>3
    <2>5. CASE ScanEnds
      <3>1. TickTo("cleanup") /\ "cleanup" \in TickPcs
        BY <2>5 DEF ScanEnds, TickPcs
      <3> QED BY <1>1, <3>1, TickToRow DEF VisitInv, Visiting
    <2>6. CASE \E w \in CPWorkers : Scan(w)
      <3>1. PICK w \in CPWorkers : Scan(w)
        BY <2>6
      <3>2. PICK pc \in {"mark", "scan"} :
                tick' = [tick EXCEPT !.workers = @ \ {w}, !.w = w, !.pc = pc]
        BY <3>1 DEF Scan
      <3>3. tick' \in CPTickRow /\ tick'.pc = pc /\ tick'.w = w
        BY <1>1, <3>2 DEF CPTickRow, TickPcs
      <3> QED BY <3>3 DEF VisitInv, Visiting
    <2> QED BY <2>1, <2>2, <2>3, <2>4, <2>5, <2>6
  <1> QED BY <1>0, <1>1, <1>2, <1>3, TickOnlyInv

LEMMA MarkDeadInv ==
  ASSUME CPIInv, MarkDead
  PROVE  CPIInv'
  <1>1. tick \in CPTickRow /\ VisitInv
    BY DEF CPIInv, CPTypeOK, CPTickRow
  <1>2. /\ tick' \in CPTickRow /\ tick'.pc = "list" /\ tick'.w = tick.w
    BY <1>1, TickToRow DEF MarkDead, TickPcs
  <1>3. VisitInv'
    BY <1>1, <1>2 DEF MarkDead, TickAt, VisitInv, Visiting
  <1>4. cworker' \in [CPWorkers -> [status : {"NONE", "HEALTHY", "DEAD"}, late : BOOLEAN]]
    BY <1>1 DEF MarkDead, TickAt, VisitInv, CPIInv, CPTypeOK
  <1>5. tick.pc # "release" /\ UNCHANGED <<cjob, gpulease, cpup, deaths, completed>>
    BY DEF MarkDead, TickAt
  <1> QED BY <1>2, <1>3, <1>4, <1>5, TickOnlyInv

LEMMA TickFailsInv ==
  ASSUME CPIInv, TickFails
  PROVE  CPIInv'
  <1>1. tick \in CPTickRow /\ VisitInv /\ tick.pc = "fail" /\ tick.j \in CPJobs
    BY DEF CPIInv, CPTypeOK, CPTickRow, TickFails, TickAt, VisitInv, Visiting
  <1>2. /\ tick' \in CPTickRow /\ tick'.pc = "look_again" /\ tick'.w = tick.w
        /\ tick'.j = tick.j /\ tick'.jobs = tick.jobs
    BY <1>1, TickToRow DEF TickFails, TickPcs
  <1>3. UNCHANGED <<cworker, gpulease, cpup, deaths, completed>>
    BY DEF TickFails
  <1>4. /\ cjob' \in [CPJobs -> CPJobRow]
        /\ \A i \in CPJobs :
              /\ cjob'[i].worker = cjob[i].worker
              /\ \/ cjob'[i] = cjob[i]
                 \/ /\ cjob'[i].status = "FAILED"
                    /\ cjob[i].status \in {"RUNNING", "SCHEDULED"}
    BY <1>1 DEF TickFails, CPIInv, CPTypeOK, CPJobRow, JobStatus
  <1>5. CPTypeOK'
    BY <1>2, <1>3, <1>4 DEF CPIInv, CPTypeOK, CPJobRow, CPTickRow
  <1>6. VisitInv'
    BY <1>1, <1>2, <1>4 DEF CPTickRow, VisitInv, Visiting
  <1>7. WaitingJobs'
    BY <1>4 DEF CPIInv, WaitingJobs
  <1>8. CompletedNotRerun'
    BY <1>3, <1>4 DEF CPIInv, CPTypeOK, CompletedNotRerun
  <1>9. LeaseFollowsJob'
    BY <1>1, <1>3, <1>4 DEF CPIInv, CPTypeOK, LeaseFollowsJob
  <1> QED BY <1>5, <1>6, <1>7, <1>8, <1>9 DEF CPIInv

LEMMA RequeueInv ==
  ASSUME CPIInv, Requeue
  PROVE  CPIInv'
  <1>1. PICK j \in CPJobs : j = tick.j
    BY DEF CPIInv, Requeue, TickAt, VisitInv, Visiting
  <1>2. /\ tick \in CPTickRow /\ tick.pc = "requeue" /\ tick.w \in CPWorkers
        /\ j \notin tick.jobs /\ (\A i \in tick.jobs : cjob[i].worker = tick.w)
        /\ cjob[j].worker = tick.w /\ cjob[j].status # "DEAD" /\ cjob \in [CPJobs -> CPJobRow]
    BY <1>1 DEF CPIInv, CPTypeOK, CPTickRow, CPJobRow, Requeue, TickAt, VisitInv, Visiting
  <1>3. UNCHANGED <<cworker, gpulease, cpup, deaths, completed>>
    BY DEF Requeue
  <1>4. \A w \in CPWorkers : gpulease[w].job # NoLease => cjob[gpulease[w].job].worker = w
    BY <1>2 DEF CPIInv, LeaseFollowsJob
  <1>5. CASE Retryable(j)
    <2>1. /\ cjob' = [cjob EXCEPT ![j] = [status |-> "PENDING_RETRY", worker |-> NoWorker,
                                          retries |-> cjob[j].retries + 1]]
          /\ TickTo("release")
      BY <1>1, <1>5 DEF Requeue
    <2>2. [status |-> "PENDING_RETRY", worker |-> NoWorker, retries |-> cjob[j].retries + 1] \in CPJobRow
      <3>1. cjob[j].retries + 1 \in 0..MaxRetries
        BY <1>2, <1>5, ControlPlaneAssumption DEF Retryable, CPJobRow
      <3> QED BY <3>1 DEF CPJobRow, JobStatus
    <2>3. /\ cjob' \in [CPJobs -> CPJobRow]
          /\ cjob'[j].status = "PENDING_RETRY" /\ cjob'[j].worker = NoWorker
          /\ \A i \in CPJobs : i # j => cjob'[i] = cjob[i]
      BY <1>2, <2>1, <2>2
    <2>4. /\ tick' \in CPTickRow /\ tick'.pc = "release" /\ tick'.w = tick.w
          /\ tick'.j = j /\ tick'.jobs = tick.jobs
      BY <1>1, <1>2, <2>1, TickToRow DEF TickPcs
    <2>5. j \notin completed
      BY <1>2, <1>5 DEF Retryable, CPIInv, CompletedNotRerun
    <2>6. CPTypeOK'
      BY <1>3, <2>3, <2>4 DEF CPIInv, CPTypeOK, CPJobRow, CPTickRow
    <2>7. VisitInv'
      <3>1. tick.jobs \subseteq CPJobs
        BY <1>2 DEF CPTickRow
      <3> QED BY <1>2, <2>3, <2>4, <3>1 DEF VisitInv, Visiting
    <2>8. WaitingJobs'
      BY <2>3 DEF CPIInv, WaitingJobs
    <2>9. CompletedNotRerun'
      BY <1>3, <2>3, <2>5 DEF CPIInv, CPTypeOK, CompletedNotRerun
    <2>10. LeaseFollowsJob'
      BY <1>2, <1>3, <1>4, <2>3, <2>4 DEF CPIInv, CPTypeOK, LeaseFollowsJob
    <2> QED BY <2>6, <2>7, <2>8, <2>9, <2>10 DEF CPIInv
  <1>6. CASE ~Retryable(j)
    <2>1. cjob' = [cjob EXCEPT ![j].status = "DEAD"] /\ VisitJobs(tick.jobs)
      BY <1>1, <1>6 DEF Requeue
    <2>2. /\ cjob' \in [CPJobs -> CPJobRow]
          /\ cjob'[j].status = "DEAD" /\ cjob'[j].worker = cjob[j].worker
          /\ \A i \in CPJobs : i # j => cjob'[i] = cjob[i]
      BY <1>2, <2>1 DEF CPJobRow, JobStatus
    <2>3. tick.jobs \in SUBSET CPJobs /\ \A i \in tick.jobs : cjob'[i].worker = tick.w
      BY <1>2, <2>2 DEF CPTickRow
    <2>4. tick' \in CPTickRow /\ VisitInv' /\ tick'.pc # "release"
      BY <1>2, <2>1, <2>3, VisitJobsInv
    <2>5. CPTypeOK'
      BY <1>3, <2>2, <2>4 DEF CPIInv, CPTypeOK, CPJobRow, CPTickRow
    <2>6. WaitingJobs'
      BY <2>2 DEF CPIInv, WaitingJobs
    <2>7. CompletedNotRerun'
      BY <1>3, <2>2 DEF CPIInv, CPTypeOK, CompletedNotRerun
    <2>8. LeaseFollowsJob'
      BY <1>3, <1>4, <2>2 DEF CPIInv, CPTypeOK, LeaseFollowsJob
    <2> QED BY <2>4, <2>5, <2>6, <2>7, <2>8 DEF CPIInv
  <1> QED BY <1>5, <1>6

LEMMA TickReleasesInv ==
  ASSUME CPIInv, TickReleases
  PROVE  CPIInv'
  <1>1. /\ tick \in CPTickRow /\ tick.pc = "release" /\ tick.w \in CPWorkers /\ tick.j \in CPJobs
        /\ tick.jobs \in SUBSET CPJobs /\ \A i \in tick.jobs : cjob[i].worker = tick.w
    BY DEF CPIInv, CPTypeOK, CPTickRow, TickReleases, TickAt, VisitInv
  <1>2. VisitJobs(tick.jobs) /\ UNCHANGED <<cjob, cworker, cpup, deaths, completed>>
    BY DEF TickReleases
  <1>3. tick' \in CPTickRow /\ VisitInv'
    BY <1>1, <1>2, VisitJobsInv
  <1>4. /\ gpulease' \in [CPWorkers -> [job : CPJobs \cup {NoLease}, live : BOOLEAN]]
        /\ \A w \in CPWorkers :
              \/ gpulease'[w].job = NoLease
              \/ gpulease'[w] = gpulease[w] /\ (w # tick.w \/ gpulease[w].job # tick.j)
    <2>1. CASE gpulease[tick.w].job = tick.j
      <3>1. gpulease' = [gpulease EXCEPT ![tick.w] = FreeGpu]
        BY <2>1 DEF TickReleases, Released
      <3>2. FreeGpu \in [job : CPJobs \cup {NoLease}, live : BOOLEAN] /\ FreeGpu.job = NoLease
        BY DEF FreeGpu
      <3> QED BY <1>1, <3>1, <3>2 DEF CPIInv, CPTypeOK
    <2>2. CASE gpulease[tick.w].job # tick.j
      BY <2>2 DEF TickReleases, Released, CPIInv, CPTypeOK
    <2> QED BY <2>1, <2>2
  <1>5. CPTypeOK'
    BY <1>2, <1>3, <1>4 DEF CPIInv, CPTypeOK, CPTickRow
  <1>6. LeaseFollowsJob'
    BY <1>2, <1>4 DEF CPIInv, LeaseFollowsJob
  <1> QED BY <1>2, <1>3, <1>5, <1>6 DEF CPIInv, WaitingJobs, CompletedNotRerun

LEMMA CleanupExpiredInv ==
  ASSUME CPIInv, CleanupExpired
  PROVE  CPIInv'
  <1>1. tick \in CPTickRow /\ tick.pc = "cleanup" /\ UNCHANGED <<cjob, cworker, cpup, deaths, completed>>
    BY DEF CPIInv, CPTypeOK, CPTickRow, CleanupExpired, TickAt
  <1>2. tick' \in CPTickRow /\ tick'.pc = "advance"
    BY <1>1, TickToRow DEF CleanupExpired, TickPcs
  <1>3. FreeGpu \in [job : CPJobs \cup {NoLease}, live : BOOLEAN] /\ FreeGpu.job = NoLease
    BY DEF FreeGpu
  <1>4. /\ gpulease' \in [CPWorkers -> [job : CPJobs \cup {NoLease}, live : BOOLEAN]]
        /\ \A w \in CPWorkers : gpulease'[w].job = NoLease \/ gpulease'[w] = gpulease[w]
    BY <1>3 DEF CleanupExpired, CPIInv, CPTypeOK
  <1>5. VisitInv'
    BY <1>2 DEF VisitInv, Visiting
  <1>6. CPTypeOK'
    BY <1>1, <1>2, <1>4 DEF CPIInv, CPTypeOK, CPTickRow
  <1>7. LeaseFollowsJob'
    BY <1>1, <1>4 DEF CPIInv, LeaseFollowsJob
  <1> QED BY <1>1, <1>5, <1>6, <1>7 DEF CPIInv, WaitingJobs, CompletedNotRerun

LEMMA NoVisitRow == NoVisit \in CPTickRow /\ NoVisit.pc = "idle"
  BY DEF NoVisit, CPTickRow, TickPcs

LEMMA AdvancePendingInv ==
  ASSUME CPIInv, AdvancePending
  PROVE  CPIInv'
  <1>1. tick.pc = "advance" /\ tick' = NoVisit /\ UNCHANGED <<cworker, gpulease, cpup, deaths, completed>>
    BY DEF AdvancePending, TickAt
  <1>2. /\ cjob' \in [CPJobs -> CPJobRow]
        /\ \A i \in CPJobs :
              /\ cjob'[i].worker = cjob[i].worker
              /\ \/ cjob'[i] = cjob[i]
                 \/ /\ cjob'[i].status = "SUBMITTED"
                    /\ cjob[i].status = "PENDING_RETRY"
    <2>1. \A i \in CPJobs : /\ cjob[i] \in CPJobRow /\ [cjob[i] EXCEPT !.status = "SUBMITTED"] \in CPJobRow
                            /\ [cjob[i] EXCEPT !.status = "SUBMITTED"].worker = cjob[i].worker
                            /\ [cjob[i] EXCEPT !.status = "SUBMITTED"].status = "SUBMITTED"
      BY DEF CPIInv, CPTypeOK, CPJobRow, JobStatus
    <2>2. \A i \in CPJobs : cjob'[i] = IF cjob[i].status = "PENDING_RETRY"
                                       THEN [cjob[i] EXCEPT !.status = "SUBMITTED"] ELSE cjob[i]
      BY DEF AdvancePending
    <2>3. cjob' \in [CPJobs -> CPJobRow]
      BY <2>1 DEF AdvancePending
    <2> QED BY <2>1, <2>2, <2>3
  <1>3. VisitInv'
    BY <1>1, NoVisitRow DEF VisitInv, Visiting
  <1>4. CPTypeOK'
    BY <1>1, <1>2, NoVisitRow DEF CPIInv, CPTypeOK, CPTickRow, CPJobRow
  <1>5. WaitingJobs'
    BY <1>2 DEF CPIInv, WaitingJobs
  <1>6. CompletedNotRerun'
    BY <1>1, <1>2 DEF CPIInv, CPTypeOK, CompletedNotRerun
  <1>7. LeaseFollowsJob'
    BY <1>1, <1>2 DEF CPIInv, CPTypeOK, LeaseFollowsJob
  <1> QED BY <1>3, <1>4, <1>5, <1>6, <1>7 DEF CPIInv

LEMMA CPProcessInv ==
  ASSUME CPIInv, StoreDies \/ LoadJobs
  PROVE  CPIInv'
  <1>1. CASE StoreDies
    <2>1. /\ tick' = NoVisit /\ gpulease' = [w \in CPWorkers |-> FreeGpu] /\ UNCHANGED <<cjob, completed>>
          /\ cworker' = [w \in CPWorkers |-> [status |-> "NONE", late |-> FALSE]]
          /\ cpup' \in {"down", "torn"}
      BY <1>1 DEF StoreDies
    <2>2. deaths' \in 0..MaxDeaths
      BY <1>1, ControlPlaneAssumption DEF StoreDies, CPIInv, CPTypeOK
    <2>3. CPTypeOK'
      BY <2>1, <2>2, NoVisitRow DEF CPIInv, CPTypeOK, CPTickRow, FreeGpu
    <2>4. VisitInv' /\ LeaseFollowsJob'
      BY <2>1, NoVisitRow DEF VisitInv, Visiting, LeaseFollowsJob, FreeGpu
    <2> QED BY <2>1, <2>3, <2>4 DEF CPIInv, WaitingJobs, CompletedNotRerun
  <1>2. CASE LoadJobs
    BY <1>2 DEF LoadJobs, CPIInv, CPTypeOK, VisitInv, WaitingJobs, CompletedNotRerun, LeaseFollowsJob
  <1> QED BY <1>1, <1>2

LEMMA CPNextInv == CPIInv /\ [CPNext]_cpvars => CPIInv'
  <1> SUFFICES ASSUME CPIInv, [CPNext]_cpvars PROVE CPIInv'
    OBVIOUS
  <1>1. CASE UNCHANGED cpvars
    BY <1>1 DEF cpvars, CPIInv, CPTypeOK, VisitInv, WaitingJobs, CompletedNotRerun, LeaseFollowsJob
  <1>2. CASE Reconcile
    BY <1>2, ReconcilerReadsInv, MarkDeadInv, TickFailsInv, RequeueInv, TickReleasesInv,
       CleanupExpiredInv, AdvancePendingInv DEF Reconcile
  <1> QED BY <1>1, <1>2, CPProcessInv, JobStoreInv, CompleteJobInv, ScheduleJobInv, RegistryStepInv,
             LeaseStepInv DEF CPNext

-----------------------------------------------------------------------------
(* The hosts.                                                              *)
CmdRow == [pc : Names \cup {"idle", "hash", "rotate", "write"}, row : HostRow, prev : Tokens, tok : Tokens]
SrvRow == [pc : {"idle", "heartbeat", "fetch", "submit", "judge", "passed", "failed"},
           row : HostRow, open : 0..MaxChecks]

(* What holds of the row holds of every copy of it, so that it may be      *)
(* written back at any time.                                               *)
RowSound(r) ==
    /\ r.status = "active" => \E k \in Checks : checks[k] = "passed"
    /\ r.tier # "none" => r.status = "active"
    /\ r.tier = "verified" => OwnHost \/ promoted
CopiesSound ==
    /\ RowSound(hrow) /\ RowSound(srv.row)
    /\ \A c \in Commands : RowSound(cli[c].row)
    /\ srv.pc = "passed" => \E k \in Checks : checks[k] = "passed"

(* The verification the server has loaded stays open until it judges it.   *)
ServerInv ==
    /\ srv.pc \in {"submit", "judge"} => agent.check # 0
    /\ srv.pc \in {"heartbeat", "fetch", "submit", "judge"} /\ srv.open # 0 => checks[srv.open] = "open"
JudgedInv == \A k \in Checks : /\ judged[k] <= 1
                               /\ checks[k] \in {"none", "open"} => judged[k] = 0

(* A token a command may put back is as good as the stored one, whatever   *)
(* becomes of the command itself.                                          *)
GoodBut(t, c) ==
    \/ t \in delivered \cup lost \cup {0}
    \/ \E d \in Commands : d # c /\ cli[d].pc = "write" /\ cli[d].tok = t
PrevInv == \A c \in Commands : cli[c].pc \in {"rotate", "write"} => GoodBut(cli[c].prev, c)

HostsIInv == HostsTypeOK /\ CopiesSound /\ ServerInv /\ JudgedInv /\ TokenDelivered /\ PrevInv

LEMMA NoHostRow == NoHost \in HostRow /\ NoHost.status = "absent" /\ NoHost.tier = "none"
  BY DEF NoHost, HostRow, Statuses

LEMMA IdleRows ==
    /\ IdleCommand \in CmdRow /\ IdleCommand.pc = "idle" /\ IdleCommand.row = NoHost
    /\ IdleServer \in SrvRow /\ IdleServer.pc = "idle" /\ IdleServer.row = NoHost
  BY NoHostRow, HostsAssumption DEF IdleCommand, IdleServer, CmdRow, SrvRow, Tokens

LEMMA NoHostSound == RowSound(NoHost)
  BY NoHostRow DEF RowSound

LEMMA HostsInitInv == HostsInit => HostsIInv
  <1> SUFFICES ASSUME HostsInit PROVE HostsIInv
    OBVIOUS
  <1>1. HostsTypeOK
    <2>1. 0 \in Tokens /\ 0 \in 0..MaxChecks /\ 0 \in 0..MaxFaults /\ 0 \in Nat
      BY HostsAssumption DEF Tokens
    <2>2. hrow \in HostRow /\ cli \in [Commands -> CmdRow] /\ srv \in SrvRow
      BY NoHostRow, IdleRows DEF HostsInit
    <2>3. jtoken \in [Checks -> [tok : Tokens, used : BOOLEAN]] /\ judged \in [Checks -> Nat]
      BY <2>1 DEF HostsInit
    <2>4. checks \in [Checks -> {"none", "open", "passed", "failed"}] /\ promoted \in BOOLEAN
      BY DEF HostsInit
    <2>5. issued \in [host : Tokens, job : Tokens] /\ agent \in [check : 0..MaxChecks, tok : Tokens]
      BY <2>1 DEF HostsInit
    <2> QED BY <2>1, <2>2, <2>3, <2>4, <2>5 DEF HostsInit, HostsTypeOK, CmdRow, SrvRow
  <1>2. CopiesSound
    BY IdleRows, NoHostSound DEF HostsInit, CopiesSound
  <1>3. ServerInv /\ JudgedInv /\ TokenDelivered /\ PrevInv
    BY IdleRows DEF HostsInit, ServerInv, JudgedInv, TokenDelivered, PrevInv
  <1> QED BY <1>1, <1>2, <1>3 DEF HostsIInv

LEMMA SoundKept ==
  ASSUME NEW r, RowSound(r), promoted => promoted',
         \A k \in Checks : checks[k] = "passed" => checks'[k] = "passed"
  PROVE  RowSound(r)'
  BY DEF RowSound

LEMMA CommandMoves ==
  ASSUME HostsTypeOK, NEW c \in Commands, NEW new \in CmdRow, cli' = [cli EXCEPT ![c] = new]
  PROVE  /\ cli' \in [Commands -> CmdRow] /\ cli'[c] = new
         /\ \A d \in Commands : d # c => cli'[d] = cli[d]
  BY DEF HostsTypeOK, CmdRow

(* A command that has no token in hand, before or after.                   *)
LEMMA TokensKept ==
  ASSUME HostsIInv, NEW c \in Commands, NEW new \in CmdRow, cli' = [cli EXCEPT ![c] = new],
         cli[c].pc # "write", new.pc \notin {"rotate", "write"},
         UNCHANGED <<htoken, delivered, lost>>
  PROVE  TokenDelivered' /\ PrevInv'
  <1>1. /\ cli'[c] = new
        /\ \A d \in Commands : d # c => cli'[d] = cli[d]
    BY CommandMoves DEF HostsIInv
  <1>2. TokenDelivered'
    BY <1>1 DEF HostsIInv, TokenDelivered
  <1>3. ASSUME NEW d \in Commands, cli'[d].pc \in {"rotate", "write"} PROVE GoodBut(cli[d].prev, d)'
    <2>1. d # c /\ cli'[d] = cli[d]
      BY <1>1, <1>3
    <2>2. PICK t \in Tokens : t = cli[d].prev
      BY DEF HostsIInv, HostsTypeOK
    <2>3. GoodBut(t, d)
      BY <1>3, <2>1, <2>2 DEF HostsIInv, PrevInv
    <2>4. GoodBut(t, d)'
      BY <1>1, <2>3 DEF GoodBut
    <2> QED BY <2>1, <2>2, <2>4
  <1> QED BY <1>2, <1>3 DEF PrevInv

LEMMA LoadHostsInv ==
  ASSUME HostsIInv, NEW c \in Commands, NEW name \in Names, LoadHosts(c, name)
  PROVE  HostsIInv'
  <1>1. PICK new \in CmdRow : /\ cli' = [cli EXCEPT ![c] = new] /\ new.row = hrow
                              /\ new.pc \notin {"rotate", "write"}
    <2>1. PICK r \in HostRow : r = hrow
      BY DEF HostsIInv, HostsTypeOK
    <2>2. /\ [IdleCommand EXCEPT !.pc = name, !.row = r] \in CmdRow
          /\ [IdleCommand EXCEPT !.pc = name, !.row = r].row = r
          /\ [IdleCommand EXCEPT !.pc = name, !.row = r].pc = name
      BY IdleRows DEF CmdRow
    <2>3. name \notin {"rotate", "write"}
      BY DEF Names
    <2> QED BY <2>1, <2>2, <2>3 DEF LoadHosts
  <1>2. UNCHANGED <<hrow, checks, jtoken, htoken, issued, delivered, srv, agent, hfaults, judged, promoted, lost>>
        /\ cli[c].pc = "idle"
    BY DEF LoadHosts, CommandAt
  <1>3. /\ cli' \in [Commands -> CmdRow] /\ cli'[c] = new
        /\ \A d \in Commands : d # c => cli'[d] = cli[d]
    BY <1>1, CommandMoves DEF HostsIInv
  <1>4. HostsTypeOK'
    BY <1>2, <1>3 DEF HostsIInv, HostsTypeOK, CmdRow
  <1>5. CopiesSound'
    BY <1>1, <1>2, <1>3 DEF HostsIInv, CopiesSound, RowSound
  <1>6. TokenDelivered' /\ PrevInv'
    BY <1>1, <1>2, TokensKept
  <1> QED BY <1>2, <1>4, <1>5, <1>6 DEF HostsIInv, ServerInv, JudgedInv

(* A command that writes the row, or leaves it, and ends.                  *)
LEMMA RowWritten ==
  ASSUME HostsIInv, NEW c \in Commands, NEW r \in HostRow, RowSound(r)', hrow' = r,
         NEW new \in CmdRow, cli' = [cli EXCEPT ![c] = new], new.row \in {NoHost, cli[c].row},
         cli[c].pc # "write", new.pc \notin {"rotate", "write"}, promoted => promoted', promoted' \in BOOLEAN,
         hfaults' \in 0..MaxFaults,
         UNCHANGED <<checks, jtoken, htoken, issued, delivered, srv, agent, judged, lost>>
  PROVE  HostsIInv'
  <1>1. /\ cli' \in [Commands -> CmdRow] /\ cli'[c] = new
        /\ \A d \in Commands : d # c => cli'[d] = cli[d]
    BY CommandMoves DEF HostsIInv
  <1>2. HostsTypeOK'
    BY <1>1 DEF HostsIInv, HostsTypeOK, CmdRow
  <1>3. \A q : RowSound(q) => RowSound(q)'
    BY SoundKept
  <1>4. RowSound(NoHost)'
    BY <1>3, NoHostSound
  <1>5. ASSUME NEW d \in Commands PROVE RowSound(cli[d].row)'
    <2>1. PICK q \in HostRow : q = cli'[d].row
      BY <1>1 DEF CmdRow
    <2>2. RowSound(q)'
      <3>1. CASE q = NoHost
        BY <1>4, <3>1
      <3>2. CASE q = cli[d].row
        <4>1. RowSound(q)
          BY <3>2 DEF HostsIInv, CopiesSound
        <4> QED BY <1>3, <4>1
      <3> QED BY <1>1, <2>1, <3>1, <3>2
    <2> QED BY <2>1, <2>2
  <1>6. RowSound(hrow)'
    OBVIOUS
  <1>7. RowSound(srv.row)'
    <2>1. PICK q \in HostRow : q = srv.row
      BY DEF HostsIInv, HostsTypeOK
    <2>2. RowSound(q)'
      BY <1>3, <2>1 DEF HostsIInv, CopiesSound
    <2> QED BY <2>1, <2>2
  <1>8. CopiesSound'
    BY <1>5, <1>6, <1>7 DEF HostsIInv, CopiesSound
  <1>9. TokenDelivered' /\ PrevInv'
    BY TokensKept
  <1> QED BY <1>2, <1>8, <1>9 DEF HostsIInv, ServerInv, JudgedInv

LEMMA WriteRowInv ==
  ASSUME HostsIInv, NEW c \in Commands, WriteRow(c)
  PROVE  HostsIInv'
  <1>1. PICK q \in CmdRow : q = cli[c]
    BY DEF HostsIInv, HostsTypeOK, CmdRow
  <1>2. q.row \in HostRow /\ RowSound(q.row) /\ RowSound(hrow) /\ hrow \in HostRow
    BY <1>1 DEF HostsIInv, HostsTypeOK, CopiesSound, CmdRow
  <1>3. q.pc \in {"register", "suspend", "approve"} /\ promoted' \in BOOLEAN /\ (promoted => promoted')
    BY <1>1 DEF WriteRow, HostsIInv, HostsTypeOK
  <1>4. cli' = [cli EXCEPT ![c] = IdleCommand]
        /\ UNCHANGED <<checks, jtoken, htoken, issued, delivered, srv, agent, hfaults, judged, lost>>
    BY DEF WriteRow, CommandEnds
  <1>5. PICK r \in HostRow : hrow' = r /\ RowSound(r)'
    <2>1. CASE Written(q.pc, q.row) = {}
      <3>1. hrow' = hrow
        BY <1>1, <2>1 DEF WriteRow
      <3>2. PICK r \in HostRow : r = hrow
        BY <1>2
      <3>3. RowSound(r)'
        BY <1>2, <1>3, <1>4, <3>2, SoundKept
      <3> QED BY <3>1, <3>2, <3>3
    <2>2. ASSUME NEW r \in HostRow, Written(q.pc, q.row) = {r}, r.tier = "none", r.status # "active"
          PROVE  \E s \in HostRow : hrow' = s /\ RowSound(s)'
      <3>1. hrow' = r
        BY <1>1, <2>2 DEF WriteRow
      <3>2. RowSound(r)'
        BY <2>2 DEF RowSound
      <3> QED BY <3>1, <3>2
    <2>3. CASE q.pc = "register" /\ q.row = NoHost
      <3>1. /\ [status |-> "pending", tier |-> "none"] \in HostRow
            /\ Written(q.pc, q.row) = {[status |-> "pending", tier |-> "none"]}
        BY <2>3 DEF Written, HostRow, Statuses
      <3> QED BY <2>2, <3>1
    <2>4. CASE q.pc = "suspend" /\ "suspended" \in Allowed(q.row.status)
      <3>1. /\ [status |-> "suspended", tier |-> "none"] \in HostRow
            /\ Written(q.pc, q.row) = {[status |-> "suspended", tier |-> "none"]}
        BY <2>4 DEF Written, HostRow, Statuses
      <3> QED BY <2>2, <3>1
    <2>5. CASE q.pc = "approve" /\ q.row.status = "active"
      <3>1. PICK r \in HostRow : r = [q.row EXCEPT !.tier = "verified"] /\ r.status = "active"
        <4>1. [q.row EXCEPT !.tier = "verified"] \in HostRow
          BY <1>2 DEF HostRow
        <4>2. [q.row EXCEPT !.tier = "verified"].status = q.row.status
          BY <1>2 DEF HostRow
        <4> QED BY <2>5, <4>1, <4>2
      <3>2. Written(q.pc, q.row) = {r}
        BY <2>5, <3>1 DEF Written
      <3>3. hrow' = r /\ promoted'
        BY <1>1, <2>5, <3>2 DEF WriteRow
      <3>4. RowSound(r)'
        BY <1>2, <1>4, <2>5, <3>1, <3>3 DEF RowSound
      <3> QED BY <3>3, <3>4
    <2>6. \/ Written(q.pc, q.row) = {} \/ (q.pc = "register" /\ q.row = NoHost)
          \/ (q.pc = "suspend" /\ "suspended" \in Allowed(q.row.status))
          \/ (q.pc = "approve" /\ q.row.status = "active")
      BY <1>3 DEF Written
    <2> QED BY <2>1, <2>3, <2>4, <2>5, <2>6
  <1>6. IdleCommand.row \in {NoHost, cli[c].row} /\ IdleCommand.pc \notin {"rotate", "write"}
        /\ cli[c].pc # "write"
    BY <1>1, <1>3, IdleRows
  <1>7. hfaults' \in 0..MaxFaults
    BY <1>4 DEF HostsIInv, HostsTypeOK
  <1> QED BY <1>3, <1>4, <1>5, <1>6, <1>7, IdleRows, RowWritten

LEMMA ReserveCheckInv ==
  ASSUME HostsIInv, NEW c \in Commands, ReserveCheck(c)
  PROVE  HostsIInv'
  <1>1. PICK q \in CmdRow : q = cli[c]
    BY DEF HostsIInv, HostsTypeOK, CmdRow
  <1>2. q.row \in HostRow /\ RowSound(q.row) /\ RowSound(hrow) /\ hrow \in HostRow
    BY <1>1 DEF HostsIInv, HostsTypeOK, CopiesSound, CmdRow
  <1>3. UNCHANGED <<checks, jtoken, htoken, issued, delivered, srv, agent, hfaults, judged, promoted, lost>>
        /\ q.pc = "verify"
    BY <1>1 DEF ReserveCheck, CommandAt
  <1>4. promoted' \in BOOLEAN /\ (promoted => promoted') /\ hfaults' \in 0..MaxFaults /\ cli[c].pc # "write"
    BY <1>1, <1>3 DEF HostsIInv, HostsTypeOK
  <1>5. CASE "verifying" \in Allowed(q.row.status)
    <2>1. q.row.status # "active"
      BY <1>5 DEF Allowed
    <2>2. PICK r \in HostRow : r = [q.row EXCEPT !.status = "verifying"] /\ r.status # "active"
                               /\ r.tier = q.row.tier
      BY <1>2 DEF HostRow, Statuses
    <2>3. RowSound(r)'
      BY <1>2, <2>1, <2>2 DEF RowSound
    <2>4. PICK new \in CmdRow : new = [q EXCEPT !.pc = "hash"] /\ new.pc = "hash" /\ new.row = q.row
      <3>1. [q EXCEPT !.pc = "hash"] \in CmdRow
        BY DEF CmdRow
      <3>2. [q EXCEPT !.pc = "hash"].pc = "hash" /\ [q EXCEPT !.pc = "hash"].row = q.row
        BY DEF CmdRow
      <3> QED BY <3>1, <3>2
    <2>5. hrow' = r /\ cli' = [cli EXCEPT ![c] = new]
      BY <1>1, <1>5, <2>2, <2>4 DEF ReserveCheck
    <2>6. new.row \in {NoHost, cli[c].row} /\ new.pc \notin {"rotate", "write"}
      BY <1>1, <2>4
    <2> QED BY <1>3, <1>4, <2>3, <2>5, <2>6, RowWritten
  <1>6. CASE "verifying" \notin Allowed(q.row.status)
    <2>1. hrow' = hrow /\ cli' = [cli EXCEPT ![c] = IdleCommand]
      BY <1>1, <1>6 DEF ReserveCheck, CommandEnds
    <2>2. PICK r \in HostRow : r = hrow
      BY <1>2
    <2>3. RowSound(r)'
      BY <1>2, <1>3, <2>2, SoundKept
    <2>4. hrow' = r /\ IdleCommand.row \in {NoHost, cli[c].row} /\ IdleCommand.pc \notin {"rotate", "write"}
      BY <2>1, <2>2, IdleRows
    <2> QED BY <1>3, <1>4, <2>1, <2>3, <2>4, IdleRows, RowWritten
  <1> QED BY <1>5, <1>6

LEMMA HashFailsInv ==
  ASSUME HostsIInv, NEW c \in Commands, HashFails(c)
  PROVE  HostsIInv'
  <1>1. PICK q \in CmdRow : q = cli[c]
    BY DEF HostsIInv, HostsTypeOK, CmdRow
  <1>2. PICK r \in HostRow : r = q.row /\ RowSound(r)
    BY <1>1 DEF HostsIInv, HostsTypeOK, CopiesSound, CmdRow
  <1>3. UNCHANGED <<checks, jtoken, htoken, issued, delivered, srv, agent, judged, promoted, lost>>
        /\ q.pc = "hash" /\ hrow' = r /\ cli' = [cli EXCEPT ![c] = IdleCommand]
    BY <1>1, <1>2 DEF HashFails, CommandAt, CommandEnds
  <1>4. promoted' \in BOOLEAN /\ (promoted => promoted') /\ hfaults' \in 0..MaxFaults /\ cli[c].pc # "write"
    BY <1>1, <1>3, HostsAssumption DEF HashFails, HostsIInv, HostsTypeOK
  <1>5. RowSound(r)'
    BY <1>2, <1>3, SoundKept
  <1>6. IdleCommand.row \in {NoHost, cli[c].row} /\ IdleCommand.pc \notin {"rotate", "write"}
    BY IdleRows
  <1> QED BY <1>3, <1>4, <1>5, <1>6, IdleRows, RowWritten

LEMMA InsertCheckInv ==
  ASSUME HostsIInv, NEW c \in Commands, InsertCheck(c)
  PROVE  HostsIInv'
  <1>1. PICK k \in Checks : checks[k] = "none" /\ checks' = [checks EXCEPT ![k] = "open"]
    BY DEF InsertCheck
  <1>2. /\ checks' \in [Checks -> {"none", "open", "passed", "failed"}] /\ checks'[k] = "open"
        /\ \A i \in Checks : i # k => checks'[i] = checks[i]
    BY <1>1 DEF HostsIInv, HostsTypeOK
  <1>3. UNCHANGED <<hrow, jtoken, htoken, issued, delivered, srv, agent, hfaults, judged, promoted, lost>>
        /\ cli[c].pc = "hash" /\ cli' = [cli EXCEPT ![c] = IdleCommand]
    BY DEF InsertCheck, CommandAt, CommandEnds
  <1>4. /\ cli' \in [Commands -> CmdRow] /\ cli'[c] = IdleCommand
        /\ \A d \in Commands : d # c => cli'[d] = cli[d]
    BY <1>3, IdleRows, CommandMoves DEF HostsIInv
  <1>5. HostsTypeOK'
    BY <1>2, <1>3, <1>4 DEF HostsIInv, HostsTypeOK, CmdRow
  <1>6. \A i \in Checks : checks[i] = "passed" => checks'[i] = "passed"
    BY <1>1, <1>2
  <1>7. CopiesSound'
    BY <1>3, <1>4, <1>6, IdleRows, NoHostRow DEF HostsIInv, CopiesSound, RowSound
  <1>8. ServerInv'
    <2>1. srv.open \in 0..MaxChecks
      BY DEF HostsIInv, HostsTypeOK
    <2>2. srv.open # 0 => srv.open \in Checks
      BY <2>1, HostsAssumption DEF Checks
    <2> QED BY <1>1, <1>2, <1>3, <2>2 DEF HostsIInv, ServerInv
  <1>9. JudgedInv'
    BY <1>1, <1>2, <1>3 DEF HostsIInv, JudgedInv
  <1>10. TokenDelivered' /\ PrevInv'
    BY <1>3, IdleRows, TokensKept
  <1> QED BY <1>5, <1>7, <1>8, <1>9, <1>10 DEF HostsIInv

(* A command that deals with the token touches neither the row nor the     *)
(* verifications.                                                          *)
LEMMA TokenStep ==
  ASSUME HostsIInv, NEW c \in Commands, NEW new \in CmdRow, cli' = [cli EXCEPT ![c] = new],
         new.row \in {NoHost, cli[c].row},
         htoken' \in Tokens, issued' \in [host : Tokens, job : Tokens], delivered' \subseteq Tokens,
         lost' \subseteq Tokens, hfaults' \in 0..MaxFaults,
         UNCHANGED <<hrow, checks, jtoken, srv, agent, judged, promoted>>,
         TokenDelivered', PrevInv'
  PROVE  HostsIInv'
  <1>1. /\ cli' \in [Commands -> CmdRow] /\ cli'[c] = new
        /\ \A d \in Commands : d # c => cli'[d] = cli[d]
    BY CommandMoves DEF HostsIInv
  <1>2. HostsTypeOK'
    BY <1>1 DEF HostsIInv, HostsTypeOK, CmdRow
  <1>3. \A d \in Commands : cli'[d].row = cli[d].row \/ cli'[d].row = NoHost
    BY <1>1
  <1>4. CopiesSound'
    BY <1>3, NoHostRow DEF HostsIInv, CopiesSound, RowSound
  <1> QED BY <1>2, <1>4 DEF HostsIInv, ServerInv, JudgedInv

LEMMA CreateFileInv ==
  ASSUME HostsIInv, NEW c \in Commands, CreateFile(c)
  PROVE  HostsIInv'
  <1>1. PICK q \in CmdRow : q = cli[c]
    BY DEF HostsIInv, HostsTypeOK, CmdRow
  <1>2. PICK t \in Tokens : t = htoken
    BY DEF HostsIInv, HostsTypeOK
  <1>3. /\ UNCHANGED <<hrow, checks, jtoken, htoken, issued, delivered, srv, agent, hfaults, judged, promoted, lost>>
        /\ q.pc = "issue"
    BY <1>1 DEF CreateFile, CommandAt
  <1>4. PICK new \in CmdRow : /\ cli' = [cli EXCEPT ![c] = new] /\ new.row \in {NoHost, cli[c].row}
                              /\ new.pc # "write" /\ (new.pc = "rotate" => new.prev = t)
    <2>1. CASE q.row = NoHost
      BY <1>1, <2>1, IdleRows DEF CreateFile, CommandEnds
    <2>2. CASE q.row # NoHost
      <3>1. [q EXCEPT !.pc = "rotate", !.prev = t] \in CmdRow
        BY DEF CmdRow
      <3>2. /\ [q EXCEPT !.pc = "rotate", !.prev = t].pc = "rotate"
            /\ [q EXCEPT !.pc = "rotate", !.prev = t].prev = t
            /\ [q EXCEPT !.pc = "rotate", !.prev = t].row = q.row
        BY DEF CmdRow
      <3>3. cli' = [cli EXCEPT ![c] = [q EXCEPT !.pc = "rotate", !.prev = t]]
        BY <1>1, <1>2, <2>2 DEF CreateFile, HostsIInv, HostsTypeOK
      <3> QED BY <1>1, <3>1, <3>2, <3>3
    <2> QED BY <2>1, <2>2
  <1>5. /\ cli'[c] = new
        /\ \A d \in Commands : d # c => cli'[d] = cli[d]
    BY <1>4, CommandMoves DEF HostsIInv
  <1>6. TokenDelivered'
    BY <1>1, <1>3, <1>5 DEF HostsIInv, TokenDelivered
  <1>7. ASSUME NEW d \in Commands, NEW u \in Tokens, GoodBut(u, d) PROVE GoodBut(u, d)'
    BY <1>1, <1>3, <1>5, <1>7 DEF GoodBut
  <1>8. GoodBut(t, c)
    BY <1>1, <1>2, <1>3 DEF HostsIInv, TokenDelivered, GoodBut
  <1>9. ASSUME NEW d \in Commands, cli'[d].pc \in {"rotate", "write"} PROVE GoodBut(cli[d].prev, d)'
    <2>1. PICK u \in Tokens : u = cli'[d].prev /\ GoodBut(u, d)
      <3>1. CASE d = c
        BY <1>4, <1>5, <1>8, <1>9, <3>1
      <3>2. CASE d # c
        BY <1>5, <1>9, <3>2 DEF HostsIInv, PrevInv, HostsTypeOK
      <3> QED BY <3>1, <3>2
    <2>2. GoodBut(u, d)'
      BY <1>7, <2>1
    <2> QED BY <2>1, <2>2
  <1>10. PrevInv'
    BY <1>9 DEF PrevInv
  <1>11. /\ htoken' \in Tokens /\ issued' \in [host : Tokens, job : Tokens] /\ delivered' \subseteq Tokens
         /\ lost' \subseteq Tokens /\ hfaults' \in 0..MaxFaults
    BY <1>3 DEF HostsIInv, HostsTypeOK
  <1> QED BY <1>3, <1>4, <1>6, <1>10, <1>11, TokenStep

LEMMA RotateTokenInv ==
  ASSUME HostsIInv, NEW c \in Commands, RotateToken(c)
  PROVE  HostsIInv'
  <1>1. PICK q \in CmdRow : q = cli[c]
    BY DEF HostsIInv, HostsTypeOK, CmdRow
  <1>2. PICK t \in Tokens : t = issued.host + 1
    BY HostsAssumption DEF RotateToken, HostsIInv, HostsTypeOK, Tokens
  <1>3. /\ UNCHANGED <<hrow, checks, jtoken, delivered, srv, agent, hfaults, judged, promoted, lost>>
        /\ q.pc = "rotate" /\ htoken' = t /\ issued' = [issued EXCEPT !.host = @ + 1]
    BY <1>1, <1>2 DEF RotateToken, CommandAt
  <1>4. PICK new \in CmdRow : /\ cli' = [cli EXCEPT ![c] = new] /\ new.row = q.row
                              /\ new.pc = "write" /\ new.prev = q.prev /\ new.tok = t
    <2>1. [q EXCEPT !.pc = "write", !.tok = t] \in CmdRow
      BY DEF CmdRow
    <2>2. /\ [q EXCEPT !.pc = "write", !.tok = t].pc = "write"
          /\ [q EXCEPT !.pc = "write", !.tok = t].tok = t
          /\ [q EXCEPT !.pc = "write", !.tok = t].prev = q.prev
          /\ [q EXCEPT !.pc = "write", !.tok = t].row = q.row
      BY DEF CmdRow
    <2>3. cli' = [cli EXCEPT ![c] = [q EXCEPT !.pc = "write", !.tok = t]]
      BY <1>1, <1>2 DEF RotateToken, HostsIInv, HostsTypeOK
    <2> QED BY <2>1, <2>2, <2>3
  <1>5. /\ cli'[c] = new
        /\ \A d \in Commands : d # c => cli'[d] = cli[d]
    BY <1>4, CommandMoves DEF HostsIInv
  <1>6. TokenDelivered'
    BY <1>3, <1>4, <1>5 DEF TokenDelivered
  <1>7. ASSUME NEW d \in Commands, NEW u \in Tokens, GoodBut(u, d) PROVE GoodBut(u, d)'
    BY <1>1, <1>3, <1>5, <1>7 DEF GoodBut
  <1>8. ASSUME NEW d \in Commands, cli'[d].pc \in {"rotate", "write"} PROVE GoodBut(cli[d].prev, d)'
    <2>1. cli[d].pc \in {"rotate", "write"} /\ cli'[d].prev = cli[d].prev
      BY <1>1, <1>3, <1>4, <1>5, <1>8
    <2>2. PICK u \in Tokens : u = cli'[d].prev /\ GoodBut(u, d)
      BY <2>1 DEF HostsIInv, PrevInv, HostsTypeOK
    <2>3. GoodBut(u, d)'
      BY <1>7, <2>2
    <2> QED BY <2>2, <2>3
  <1>9. PrevInv'
    BY <1>8 DEF PrevInv
  <1>10. /\ htoken' \in Tokens /\ issued' \in [host : Tokens, job : Tokens] /\ delivered' \subseteq Tokens
         /\ lost' \subseteq Tokens /\ hfaults' \in 0..MaxFaults /\ new.row \in {NoHost, cli[c].row}
    BY <1>1, <1>2, <1>3, <1>4 DEF HostsIInv, HostsTypeOK
  <1> QED BY <1>3, <1>4, <1>6, <1>9, <1>10, TokenStep

(* A command that held a token ends: the token is delivered, lost, or      *)
(* nobody else reckons with it.                                            *)
LEMMA TokenCommandEnds ==
  ASSUME HostsIInv, NEW c \in Commands, cli' = [cli EXCEPT ![c] = IdleCommand],
         delivered \subseteq delivered', lost \subseteq lost',
         cli[c].pc = "write" =>
             \/ cli[c].tok \in delivered' \cup lost'
             \/ \A d \in Commands : cli[d].pc \in {"rotate", "write"} => cli[d].prev # cli[c].tok
  PROVE  PrevInv'
  <1>1. /\ cli'[c] = IdleCommand
        /\ \A d \in Commands : d # c => cli'[d] = cli[d]
    BY IdleRows, CommandMoves DEF HostsIInv
  <1>2. ASSUME NEW d \in Commands, cli'[d].pc \in {"rotate", "write"} PROVE GoodBut(cli[d].prev, d)'
    <2>1. d # c /\ cli'[d] = cli[d]
      BY <1>1, <1>2, IdleRows
    <2>2. PICK u \in Tokens : u = cli[d].prev
      BY DEF HostsIInv, HostsTypeOK
    <2>3. GoodBut(u, d)
      BY <1>2, <2>1, <2>2 DEF HostsIInv, PrevInv
    <2>4. GoodBut(u, d)'
      <3>1. CASE u \in delivered \cup lost \cup {0}
        BY <3>1 DEF GoodBut
      <3>2. ASSUME NEW e \in Commands, e # d, cli[e].pc = "write", cli[e].tok = u PROVE GoodBut(u, d)'
        <4>1. CASE e = c
          <5>1. u \in delivered' \cup lost'
            BY <1>2, <2>1, <2>2, <3>2, <4>1
          <5> QED BY <5>1 DEF GoodBut
        <4>2. CASE e # c
          <5>1. cli'[e] = cli[e]
            BY <1>1, <4>2
          <5> QED BY <3>2, <5>1 DEF GoodBut
        <4> QED BY <4>1, <4>2
      <3> QED BY <2>3, <3>1, <3>2 DEF GoodBut
    <2> QED BY <2>1, <2>2, <2>4
  <1> QED BY <1>2 DEF PrevInv

LEMMA TokenEndInv ==
  ASSUME HostsIInv, NEW c \in Commands, WriteFile(c) \/ WriteFails(c) \/ RevokeToken(c)
  PROVE  HostsIInv'
  <1>1. PICK q \in CmdRow : q = cli[c]
    BY DEF HostsIInv, HostsTypeOK, CmdRow
  <1>2. q.tok \in Tokens /\ q.prev \in Tokens
    BY DEF CmdRow
  <1>3. /\ UNCHANGED <<hrow, checks, jtoken, issued, srv, agent, judged, promoted>>
        /\ cli' = [cli EXCEPT ![c] = IdleCommand]
    BY DEF WriteFile, WriteFails, RevokeToken, CommandEnds
  <1>4. /\ cli'[c] = IdleCommand
        /\ \A d \in Commands : d # c => cli'[d] = cli[d]
    BY <1>3, IdleRows, CommandMoves DEF HostsIInv
  <1>5. IdleCommand \in CmdRow /\ IdleCommand.row \in {NoHost, cli[c].row}
    BY IdleRows
  <1>6. issued' \in [host : Tokens, job : Tokens] /\ 0 \in Tokens
    BY <1>3, HostsAssumption DEF HostsIInv, HostsTypeOK, Tokens
  <1>7. CASE WriteFile(c)
    <2>1. delivered' = delivered \cup {q.tok} /\ UNCHANGED <<htoken, hfaults, lost>>
      BY <1>1, <1>7 DEF WriteFile
    <2>2. TokenDelivered'
      BY <1>1, <1>4, <2>1 DEF HostsIInv, TokenDelivered
    <2>3. PrevInv'
      BY <1>1, <1>3, <2>1, TokenCommandEnds
    <2>4. htoken' \in Tokens /\ delivered' \subseteq Tokens /\ lost' \subseteq Tokens /\ hfaults' \in 0..MaxFaults
      BY <1>2, <2>1 DEF HostsIInv, HostsTypeOK
    <2> QED BY <1>3, <1>5, <1>6, <2>2, <2>3, <2>4, TokenStep
  <1>8. CASE WriteFails(c)
    <2>1. /\ htoken' = q.prev /\ UNCHANGED delivered /\ q.pc = "write"
          /\ lost' = IF \E d \in Commands : cli[d].pc \in {"rotate", "write"} /\ cli[d].prev = q.tok
                     THEN lost \cup {q.tok} ELSE lost
      BY <1>1, <1>8 DEF WriteFails, CommandAt
    <2>2. GoodBut(q.prev, c)
      BY <1>1, <2>1 DEF HostsIInv, PrevInv
    <2>3. TokenDelivered'
      BY <1>4, <2>1, <2>2 DEF GoodBut, TokenDelivered
    <2>4. PrevInv'
      BY <1>1, <1>3, <2>1, TokenCommandEnds
    <2>5. htoken' \in Tokens /\ delivered' \subseteq Tokens /\ lost' \subseteq Tokens
      BY <1>2, <2>1 DEF HostsIInv, HostsTypeOK
    <2>6. hfaults' \in 0..MaxFaults
      BY <1>8, HostsAssumption DEF WriteFails, HostsIInv, HostsTypeOK
    <2> QED BY <1>3, <1>5, <1>6, <2>3, <2>4, <2>5, <2>6, TokenStep
  <1>9. CASE RevokeToken(c)
    <2>1. htoken' \in {htoken, 0} /\ UNCHANGED <<delivered, hfaults, lost>> /\ q.pc = "revoke"
      BY <1>1, <1>9 DEF RevokeToken, CommandAt
    <2>2. TokenDelivered'
      BY <1>1, <1>4, <2>1 DEF HostsIInv, TokenDelivered
    <2>3. PrevInv'
      BY <1>1, <1>3, <2>1, TokenCommandEnds
    <2>4. htoken' \in Tokens /\ delivered' \subseteq Tokens /\ lost' \subseteq Tokens /\ hfaults' \in 0..MaxFaults
      BY <1>6, <2>1 DEF HostsIInv, HostsTypeOK
    <2> QED BY <1>3, <1>5, <1>6, <2>2, <2>3, <2>4, TokenStep
  <1> QED BY <1>7, <1>8, <1>9

-----------------------------------------------------------------------------
(* Every nonempty set of numbers has a least one, every bounded one a      *)
(* greatest.                                                               *)
LEMMA LeastNumber ==
  ASSUME NEW T \in SUBSET Nat, T # {}
  PROVE  \E x \in T : \A y \in T : x <= y
  <1>1. \A u, v \in Nat : ~(<<u, v>> \in OpToRel(<, Nat)) => v <= u
    BY DEF OpToRel
  <1>2. IsWellFoundedOn(OpToRel(<, Nat), Nat)
    BY NatLessThanWellFounded
  <1>3. PICK x \in T : \A y \in T : ~ (<<y, x>> \in OpToRel(<, Nat))
    BY <1>2, WFMin
  <1>4. \A y \in T : x <= y
    BY <1>1, <1>3, Zenon
  <1> QED BY <1>4

LEMMA GreatestNumber ==
  ASSUME NEW N \in Nat, NEW T \in SUBSET (0..N), T # {}
  PROVE  \E x \in T : \A y \in T : y <= x
  <1> DEFINE U == {N - x : x \in T}
  <1>1. U \subseteq Nat
    <2>1. \A x \in T : N - x \in Nat
      OBVIOUS
    <2> QED BY <2>1
  <1>2. U # {}
    <2>1. PICK x : x \in T
      OBVIOUS
    <2> QED BY <2>1
  <1>3. \E u \in U : \A v \in U : u <= v
    <2> HIDE DEF U
    <2> QED BY <1>1, <1>2, LeastNumber
  <1>4. PICK x \in T : \A v \in U : N - x <= v
    BY <1>3
  <1>5. \A y \in T : N - x <= N - y
    BY <1>4
  <1> QED BY <1>5

LEMMA OpenCheckIs ==
  ASSUME HostsTypeOK
  PROVE  OpenCheck \in 0..MaxChecks /\ (OpenCheck # 0 => checks[OpenCheck] = "open")
  <1> DEFINE open == {k \in Checks : checks[k] = "open"}
  <1>1. open \in SUBSET (0..MaxChecks)
    BY HostsAssumption DEF Checks
  <1>2. CASE open = {}
    BY <1>2, HostsAssumption DEF OpenCheck
  <1>3. CASE open # {}
    <2>1. \E x \in open : \A y \in open : y <= x
      <3> HIDE DEF open
      <3> QED BY <1>1, <1>3, GreatestNumber, HostsAssumption
    <2>2. PICK x \in open : x = OpenCheck
      BY <1>3, <2>1 DEF OpenCheck
    <2> QED BY <1>1, <2>2
  <1> QED BY <1>2, <1>3

LEMMA TokensAlone ==
  ASSUME HostsIInv, UNCHANGED <<cli, htoken, delivered, lost>>
  PROVE  TokenDelivered' /\ PrevInv'
  BY DEF HostsIInv, TokenDelivered, PrevInv, GoodBut

(* The server's request goes on with another row.                          *)
LEMMA ServerMoves ==
  ASSUME HostsIInv, NEW new \in SrvRow, srv' = new, RowSound(new.row),
         new.pc = "passed" => \E k \in Checks : checks[k] = "passed",
         hrow' \in HostRow, RowSound(hrow)',
         jtoken' \in [Checks -> [tok : Tokens, used : BOOLEAN]],
         issued' \in [host : Tokens, job : Tokens], agent' \in [check : 0..MaxChecks, tok : Tokens],
         hfaults' \in 0..MaxFaults, ServerInv',
         UNCHANGED <<checks, htoken, delivered, cli, judged, promoted, lost>>
  PROVE  HostsIInv'
  <1>1. HostsTypeOK'
    BY DEF HostsIInv, HostsTypeOK, SrvRow
  <1>2. CopiesSound'
    BY DEF HostsIInv, CopiesSound, RowSound
  <1>3. TokenDelivered' /\ PrevInv'
    BY TokensAlone
  <1> QED BY <1>1, <1>2, <1>3 DEF HostsIInv, JudgedInv

LEMMA RequestInv ==
  ASSUME HostsIInv, NEW action \in {"heartbeat", "fetch", "submit"}, Request(action)
  PROVE  HostsIInv'
  <1> DEFINE new == [pc |-> action, row |-> hrow, open |-> IF hrow.status = "verifying" THEN OpenCheck ELSE 0]
  <1>1. /\ UNCHANGED <<hrow, checks, jtoken, htoken, issued, delivered, cli, agent, hfaults, judged, promoted, lost>>
        /\ srv' = new /\ (action = "submit" => agent.check # 0)
    BY DEF Request, RunOnce
  <1>2. PICK k \in 0..MaxChecks : /\ k = IF hrow.status = "verifying" THEN OpenCheck ELSE 0
                                  /\ k # 0 => checks[k] = "open"
    BY OpenCheckIs, HostsAssumption DEF HostsIInv
  <1>3. PICK q \in SrvRow : q = new
    BY <1>2 DEF SrvRow, HostsIInv, HostsTypeOK
  <1>4. q.pc = action /\ q.row = hrow /\ q.open = k /\ srv' = q
    BY <1>1, <1>2, <1>3
  <1> HIDE DEF new
  <1>5. RowSound(q.row)
    BY <1>4 DEF HostsIInv, CopiesSound
  <1>6. RowSound(hrow)'
    BY <1>1 DEF HostsIInv, CopiesSound, RowSound
  <1>7. ServerInv'
    BY <1>1, <1>2, <1>4 DEF ServerInv
  <1>8. /\ hrow' \in HostRow /\ jtoken' \in [Checks -> [tok : Tokens, used : BOOLEAN]]
        /\ issued' \in [host : Tokens, job : Tokens] /\ agent' \in [check : 0..MaxChecks, tok : Tokens]
        /\ hfaults' \in 0..MaxFaults
    BY <1>1 DEF HostsIInv, HostsTypeOK
  <1>9. q.pc # "passed"
    BY <1>4
  <1> QED BY <1>1, <1>4, <1>5, <1>6, <1>7, <1>8, <1>9, ServerMoves

LEMMA ServerEndsInv ==
  ASSUME HostsIInv, HostHeartbeat \/ FetchJob \/ SaveVerdict
  PROVE  HostsIInv'
  <1>1. srv' = IdleServer /\ UNCHANGED <<checks, htoken, delivered, cli, judged, promoted, lost, hfaults>>
    BY DEF HostHeartbeat, FetchJob, SaveVerdict
  <1>2. ServerInv'
    BY <1>1, IdleRows DEF ServerInv
  <1>3. IdleServer \in SrvRow /\ RowSound(IdleServer.row) /\ IdleServer.pc # "passed"
    BY IdleRows, NoHostSound
  <1>4. hrow' \in HostRow /\ RowSound(hrow)'
    <2>1. CASE HostHeartbeat \/ FetchJob
      <3>1. hrow' \in {hrow, srv.row}
        BY <2>1 DEF HostHeartbeat, FetchJob
      <3>2. hrow \in HostRow /\ srv.row \in HostRow /\ RowSound(hrow) /\ RowSound(srv.row)
        BY DEF HostsIInv, HostsTypeOK, CopiesSound
      <3>3. PICK r \in HostRow : r = hrow' /\ RowSound(r)
        BY <3>1, <3>2
      <3>4. RowSound(r)'
        BY <1>1, <3>3, SoundKept
      <3> QED BY <3>3, <3>4
    <2>2. CASE SaveVerdict /\ srv.pc = "passed"
      <3>1. PICK t \in {"verified", "probation"} : /\ hrow' = [status |-> "active", tier |-> t]
                                                   /\ t = "verified" => OwnHost
        BY <2>2, HostsAssumption DEF SaveVerdict
      <3>2. hrow' \in HostRow /\ hrow'.status = "active" /\ hrow'.tier = t
        BY <3>1 DEF HostRow, Statuses
      <3>3. \E k \in Checks : checks'[k] = "passed"
        BY <1>1, <2>2 DEF HostsIInv, CopiesSound
      <3> QED BY <3>1, <3>2, <3>3 DEF RowSound
    <2>3. CASE SaveVerdict /\ srv.pc # "passed"
      <3>1. hrow' = [status |-> "suspended", tier |-> "none"]
        BY <2>3 DEF SaveVerdict
      <3>2. hrow' \in HostRow /\ hrow'.status = "suspended" /\ hrow'.tier = "none"
        BY <3>1 DEF HostRow, Statuses
      <3> QED BY <3>2 DEF RowSound
    <2> QED BY <2>1, <2>2, <2>3
  <1>5. /\ jtoken' \in [Checks -> [tok : Tokens, used : BOOLEAN]]
        /\ issued' \in [host : Tokens, job : Tokens] /\ agent' \in [check : 0..MaxChecks, tok : Tokens]
    <2>1. CASE FetchJob /\ srv.open # 0
      <3>1. issued.job + 1 \in Tokens
        BY <2>1, HostsAssumption DEF FetchJob, HostsIInv, HostsTypeOK, Tokens
      <3>2. srv.open \in 0..MaxChecks
        BY DEF HostsIInv, HostsTypeOK
      <3>3. [tok |-> issued.job + 1, used |-> FALSE] \in [tok : Tokens, used : BOOLEAN]
        BY <3>1
      <3>4. /\ issued' = [issued EXCEPT !.job = @ + 1]
            /\ jtoken' = [jtoken EXCEPT ![srv.open] = [tok |-> issued.job + 1, used |-> FALSE]]
            /\ agent' = [check |-> srv.open, tok |-> issued.job + 1]
        BY <2>1 DEF FetchJob
      <3>5. jtoken' \in [Checks -> [tok : Tokens, used : BOOLEAN]]
        BY <3>3, <3>4 DEF HostsIInv, HostsTypeOK
      <3>6. issued' \in [host : Tokens, job : Tokens] /\ agent' \in [check : 0..MaxChecks, tok : Tokens]
        BY <3>1, <3>2, <3>4 DEF HostsIInv, HostsTypeOK
      <3> QED BY <3>5, <3>6
    <2>2. CASE ~(FetchJob /\ srv.open # 0)
      BY <2>2 DEF HostHeartbeat, FetchJob, SaveVerdict, HostsIInv, HostsTypeOK
    <2> QED BY <2>1, <2>2
  <1>6. hfaults' \in 0..MaxFaults
    BY <1>1 DEF HostsIInv, HostsTypeOK
  <1> QED BY <1>1, <1>2, <1>3, <1>4, <1>5, <1>6, ServerMoves

LEMMA ConsumeTokenInv ==
  ASSUME HostsIInv, ConsumeToken
  PROVE  HostsIInv'
  <1>1. /\ UNCHANGED <<hrow, checks, htoken, issued, delivered, cli, agent, hfaults, judged, promoted, lost>>
        /\ srv.pc = "submit"
    BY DEF ConsumeToken
  <1>2. jtoken' \in [Checks -> [tok : Tokens, used : BOOLEAN]]
    BY DEF ConsumeToken, HostsIInv, HostsTypeOK
  <1>3. PICK q \in SrvRow : q = srv
    BY DEF HostsIInv, HostsTypeOK, SrvRow
  <1>4. PICK new \in SrvRow : /\ srv' = new /\ RowSound(new.row) /\ new.pc # "passed"
                              /\ new.pc = "idle" \/ (new.pc = "judge" /\ new.open = q.open)
    <2>1. [q EXCEPT !.pc = "judge"] \in SrvRow
      BY DEF SrvRow
    <2>2. /\ [q EXCEPT !.pc = "judge"].pc = "judge" /\ [q EXCEPT !.pc = "judge"].row = q.row
          /\ [q EXCEPT !.pc = "judge"].open = q.open
      BY DEF SrvRow
    <2>3. RowSound(q.row)
      BY <1>3 DEF HostsIInv, CopiesSound
    <2>4. srv' = [q EXCEPT !.pc = "judge"] \/ srv' = IdleServer
      BY <1>3 DEF ConsumeToken
    <2> QED BY <2>1, <2>2, <2>3, <2>4, IdleRows, NoHostSound
  <1>5. RowSound(hrow)'
    BY <1>1 DEF HostsIInv, CopiesSound, RowSound
  <1>6. ServerInv'
    BY <1>1, <1>3, <1>4 DEF HostsIInv, ServerInv
  <1>7. /\ hrow' \in HostRow /\ issued' \in [host : Tokens, job : Tokens]
        /\ agent' \in [check : 0..MaxChecks, tok : Tokens] /\ hfaults' \in 0..MaxFaults
    BY <1>1 DEF HostsIInv, HostsTypeOK
  <1> QED BY <1>1, <1>2, <1>4, <1>5, <1>6, <1>7, ServerMoves

LEMMA JudgeInv ==
  ASSUME HostsIInv, Judge
  PROVE  HostsIInv'
  <1>1. /\ UNCHANGED <<hrow, jtoken, htoken, issued, delivered, cli, agent, hfaults, promoted, lost>>
        /\ srv.pc = "judge"
    BY DEF Judge
  <1>2. PICK q \in SrvRow : q = srv
    BY DEF HostsIInv, HostsTypeOK, SrvRow
  <1>3. CASE q.row.status = "verifying" /\ q.open = agent.check
    <2>1. q.open \in Checks /\ checks[q.open] = "open"
      <3>1. q.open # 0 /\ q.open \in 0..MaxChecks
        BY <1>1, <1>2, <1>3 DEF HostsIInv, ServerInv, SrvRow
      <3> QED BY <1>1, <1>2, <3>1, HostsAssumption DEF HostsIInv, ServerInv, Checks
    <2>2. PICK verdict \in {"passed", "failed"} :
              /\ checks' = [checks EXCEPT ![q.open] = verdict] /\ srv' = [q EXCEPT !.pc = verdict]
      BY <1>2, <1>3, <2>1 DEF Judge, HostsIInv, HostsTypeOK
    <2>3. judged' = [judged EXCEPT ![q.open] = @ + 1]
      BY <1>2, <1>3 DEF Judge
    <2>4. srv' \in SrvRow /\ srv'.pc = verdict /\ srv'.row = q.row
      BY <2>2 DEF SrvRow
    <2>5. /\ checks' \in [Checks -> {"none", "open", "passed", "failed"}] /\ checks'[q.open] = verdict
          /\ \A k \in Checks : k # q.open => checks'[k] = checks[k]
      BY <2>1, <2>2 DEF HostsIInv, HostsTypeOK
    <2>6. /\ judged' \in [Checks -> Nat] /\ judged'[q.open] = judged[q.open] + 1
          /\ \A k \in Checks : k # q.open => judged'[k] = judged[k]
      BY <2>1, <2>3 DEF HostsIInv, HostsTypeOK
    <2>7. HostsTypeOK'
      BY <1>1, <2>4, <2>5, <2>6 DEF HostsIInv, HostsTypeOK, SrvRow
    <2>8. \A k \in Checks : checks[k] = "passed" => checks'[k] = "passed"
      BY <2>1, <2>5
    <2>9. CopiesSound'
      <3>1. verdict = "passed" => \E k \in Checks : checks'[k] = "passed"
        BY <2>1, <2>5
      <3> QED BY <1>1, <1>2, <2>4, <2>8, <3>1 DEF HostsIInv, CopiesSound, RowSound
    <2>10. ServerInv'
      BY <2>4 DEF ServerInv
    <2>11. JudgedInv'
      <3>1. judged[q.open] = 0
        BY <2>1 DEF HostsIInv, JudgedInv
      <3> QED BY <2>1, <2>5, <2>6, <3>1 DEF HostsIInv, JudgedInv
    <2>12. TokenDelivered' /\ PrevInv'
      BY <1>1, TokensAlone
    <2> QED BY <2>7, <2>9, <2>10, <2>11, <2>12 DEF HostsIInv
  <1>4. CASE ~(q.row.status = "verifying" /\ q.open = agent.check)
    <2>1. srv' = IdleServer /\ UNCHANGED <<checks, judged>>
      BY <1>2, <1>4 DEF Judge
    <2>2. ServerInv'
      BY <2>1, IdleRows DEF ServerInv
    <2>3. RowSound(hrow)'
      BY <1>1, <2>1 DEF HostsIInv, CopiesSound, RowSound
    <2>4. /\ hrow' \in HostRow /\ jtoken' \in [Checks -> [tok : Tokens, used : BOOLEAN]]
          /\ issued' \in [host : Tokens, job : Tokens] /\ agent' \in [check : 0..MaxChecks, tok : Tokens]
          /\ hfaults' \in 0..MaxFaults
      BY <1>1 DEF HostsIInv, HostsTypeOK
    <2>5. IdleServer \in SrvRow /\ RowSound(IdleServer.row) /\ IdleServer.pc # "passed"
      BY IdleRows, NoHostSound
    <2> QED BY <1>1, <2>1, <2>2, <2>3, <2>4, <2>5, ServerMoves
  <1> QED BY <1>3, <1>4

LEMMA ProcessDiesInv ==
  ASSUME HostsIInv, ProcessDies
  PROVE  HostsIInv'
  <1>1. UNCHANGED <<hrow, checks, jtoken, htoken, issued, delivered, agent, judged, promoted>>
    BY DEF ProcessDies
  <1>2. hfaults' \in 0..MaxFaults
    BY HostsAssumption DEF ProcessDies, HostsIInv, HostsTypeOK
  <1>3. CASE srv' = IdleServer /\ UNCHANGED <<cli, lost>>
    <2>1. ServerInv'
      BY <1>3, IdleRows DEF ServerInv
    <2>2. RowSound(hrow)'
      BY <1>1 DEF HostsIInv, CopiesSound, RowSound
    <2>3. /\ hrow' \in HostRow /\ jtoken' \in [Checks -> [tok : Tokens, used : BOOLEAN]]
          /\ issued' \in [host : Tokens, job : Tokens] /\ agent' \in [check : 0..MaxChecks, tok : Tokens]
      BY <1>1 DEF HostsIInv, HostsTypeOK
    <2>4. IdleServer \in SrvRow /\ RowSound(IdleServer.row) /\ IdleServer.pc # "passed"
      BY IdleRows, NoHostSound
    <2> QED BY <1>1, <1>2, <1>3, <2>1, <2>2, <2>3, <2>4, ServerMoves
  <1>4. ASSUME NEW c \in Commands, cli' = [cli EXCEPT ![c] = IdleCommand], UNCHANGED srv,
               lost' = IF cli[c].pc = "write" THEN lost \cup {cli[c].tok} ELSE lost
        PROVE  HostsIInv'
    <2>1. PICK q \in CmdRow : q = cli[c]
      BY DEF HostsIInv, HostsTypeOK, CmdRow
    <2>2. /\ cli'[c] = IdleCommand
          /\ \A d \in Commands : d # c => cli'[d] = cli[d]
      BY <1>4, IdleRows, CommandMoves DEF HostsIInv
    <2>3. lost' \subseteq Tokens /\ lost \subseteq lost'
      BY <1>4, <2>1 DEF HostsIInv, HostsTypeOK, CmdRow
    <2>4. TokenDelivered'
      BY <1>1, <1>4, <2>2 DEF HostsIInv, TokenDelivered
    <2>5. PrevInv'
      BY <1>1, <1>4, <2>3, TokenCommandEnds
    <2>6. htoken' \in Tokens /\ issued' \in [host : Tokens, job : Tokens] /\ delivered' \subseteq Tokens
      BY <1>1 DEF HostsIInv, HostsTypeOK
    <2>7. IdleCommand \in CmdRow /\ IdleCommand.row \in {NoHost, cli[c].row}
      BY IdleRows
    <2> QED BY <1>1, <1>2, <1>4, <2>3, <2>4, <2>5, <2>6, <2>7, TokenStep
  <1> QED BY <1>3, <1>4 DEF ProcessDies, CommandEnds, CommandAt

LEMMA HostsNextInv == HostsIInv /\ [HostsNext]_hvars => HostsIInv'
  <1> SUFFICES ASSUME HostsIInv, [HostsNext]_hvars PROVE HostsIInv'
    OBVIOUS
  <1>1. CASE UNCHANGED hvars
    BY <1>1 DEF hvars, HostsIInv, HostsTypeOK, CopiesSound, RowSound, ServerInv, JudgedInv,
                TokenDelivered, PrevInv, GoodBut
  <1> QED BY <1>1, LoadHostsInv, WriteRowInv, ReserveCheckInv, InsertCheckInv, HashFailsInv, CreateFileInv,
             RotateTokenInv, TokenEndInv, RequestInv, ServerEndsInv, ConsumeTokenInv, JudgeInv,
             ProcessDiesInv DEF HostsNext

LEMMA HostsIsSafe == HostsIInv => HostsInv
  BY DEF HostsIInv, CopiesSound, RowSound, JudgedInv, HostsInv, ActiveWasVerified, TrustIsEarned, JudgedOnce

-----------------------------------------------------------------------------
(* The GPU worker loops.                                                   *)
LoopRow == [pc : LoopPcs, job : GJobs \cup {NoGJob}, gpu : Gpus \cup {NoGpu}, raised : BOOLEAN]
LockRow == [job : GJobs \cup {NoGJob}, aged : BOOLEAN]

GWTypes ==
    /\ gstate \in [GJobs -> JobState]
    /\ rqueue \in Seq(GJobs)
    /\ gpulock \in [Gpus -> LockRow]
    /\ wreg \in [Gpus -> [status : {"absent", "healthy", "dead"}, job : GJobs \cup {NoGJob}]]
    /\ loop \in [Loops -> LoopRow]
    /\ overruns \in 0..MaxOverruns /\ silences \in 0..MaxSilences
    /\ executed \in [GJobs -> 0..2]

(* A job is on the queue once, or with one loop, or done with; until it is *)
(* handed to the executor nothing has counted it.                          *)
QueueInv ==
    /\ \A i, k \in 1..Len(rqueue) : rqueue[i] = rqueue[k] => i = k
    /\ \A i \in 1..Len(rqueue) : /\ gstate[rqueue[i]] # "absent" /\ executed[rqueue[i]] = 0
                                 /\ \A l \in Loops : loop[l].job # rqueue[i]

Untried == {"job", "lock", "mark", "current"}
HandInv(l) ==
    /\ loop[l].pc \notin {"idle", "dead"} => loop[l].job \in GJobs
    /\ loop[l].pc \notin {"idle", "dead", "job"} => loop[l].gpu \in Gpus
    /\ loop[l].job \in GJobs =>
          /\ gstate[loop[l].job] # "absent"
          /\ loop[l].pc \in Untried => executed[loop[l].job] = 0
          /\ \A k \in Loops : k # l => loop[k].job # loop[l].job
CountInv == \A j \in GJobs : executed[j] <= 1 /\ (gstate[j] = "absent" => executed[j] = 0)

(* As long as no lock has aged under its job, who holds a GPU has its lock. *)
HolderInv ==
    overruns = 0 =>
        /\ \A g \in Gpus : ~gpulock[g].aged
        /\ \A l \in Loops : loop[l].pc \in Holding => gpulock[loop[l].gpu].job = loop[l].job

GWIInv == /\ GWTypes /\ QueueInv /\ CountInv /\ HolderInv /\ LockHasHolder
          /\ \A l \in Loops : HandInv(l)

LEMMA IdleLoopRow ==
    /\ IdleLoop \in LoopRow /\ IdleLoop.pc = "idle" /\ IdleLoop.job = NoGJob
    /\ [IdleLoop EXCEPT !.pc = "dead"] \in LoopRow
    /\ [IdleLoop EXCEPT !.pc = "dead"].pc = "dead" /\ [IdleLoop EXCEPT !.pc = "dead"].job = NoGJob
  BY DEF IdleLoop, LoopRow, LoopPcs

LEMMA UnlockedRow == Unlocked \in LockRow /\ Unlocked.job = NoGJob /\ Unlocked.aged = FALSE
  BY DEF Unlocked, LockRow

LEMMA GWInitInv == GWInit => GWIInv
  <1> SUFFICES ASSUME GWInit PROVE GWIInv
    OBVIOUS
  <1>1. GWTypes
    <2>1. <<>> \in Seq(GJobs)
      BY EmptySeq
    <2>2. [status |-> "absent", job |-> NoGJob]
            \in [status : {"absent", "healthy", "dead"}, job : GJobs \cup {NoGJob}]
      OBVIOUS
    <2>3. 0 \in 0..MaxOverruns /\ 0 \in 0..MaxSilences /\ 0 \in 0..2
      BY GpuWorkerAssumption
    <2> QED BY <2>1, <2>2, <2>3, IdleLoopRow, UnlockedRow DEF GWInit, GWTypes, JobState
  <1>2. Len(rqueue) = 0
    BY DEF GWInit
  <1>3. QueueInv /\ CountInv
    BY <1>2 DEF GWInit, QueueInv, CountInv
  <1>4. HolderInv /\ LockHasHolder
    BY IdleLoopRow, UnlockedRow DEF GWInit, HolderInv, LockHasHolder, Holding
  <1>5. \A l \in Loops : HandInv(l)
    BY IdleLoopRow, GpuWorkerAssumption DEF GWInit, HandInv
  <1> QED BY <1>1, <1>3, <1>4, <1>5 DEF GWIInv

LEMMA EnqueueInv ==
  ASSUME GWIInv, NEW j \in GJobs, Enqueue(j)
  PROVE  GWIInv'
  <1>1. /\ UNCHANGED <<gpulock, wreg, loop, overruns, silences, executed>>
        /\ gstate[j] = "absent" /\ gstate' = [gstate EXCEPT ![j] = "queued"] /\ rqueue' = Append(rqueue, j)
    BY DEF Enqueue
  <1>2. rqueue \in Seq(GJobs) /\ Len(rqueue) \in Nat /\ \A i \in 1..Len(rqueue) : rqueue[i] \in GJobs
    BY DEF GWIInv, GWTypes
  <1>3. /\ rqueue' \in Seq(GJobs) /\ Len(rqueue') = Len(rqueue) + 1
        /\ \A i \in 1..Len(rqueue) : rqueue'[i] = rqueue[i]
        /\ rqueue'[Len(rqueue) + 1] = j
    BY <1>1, <1>2, AppendProperties
  <1>4. /\ gstate' \in [GJobs -> JobState] /\ gstate'[j] = "queued"
        /\ \A i \in GJobs : i # j => gstate'[i] = gstate[i]
    BY <1>1 DEF GWIInv, GWTypes, JobState
  <1>5. /\ \A i \in 1..Len(rqueue) : rqueue[i] # j
        /\ \A l \in Loops : loop[l].job # j
        /\ executed[j] = 0
    BY <1>1 DEF GWIInv, QueueInv, HandInv, CountInv
  <1>6. \A i \in 1..Len(rqueue') : i \in 1..Len(rqueue) \/ i = Len(rqueue) + 1
    BY <1>2, <1>3
  <1>7. QueueInv'
    <2>1. \A i, k \in 1..Len(rqueue') : rqueue'[i] = rqueue'[k] => i = k
      BY <1>3, <1>5, <1>6 DEF GWIInv, QueueInv
    <2>2. ASSUME NEW i \in 1..Len(rqueue')
          PROVE  /\ gstate'[rqueue'[i]] # "absent" /\ executed'[rqueue'[i]] = 0
                 /\ \A l \in Loops : loop'[l].job # rqueue'[i]
      <3>1. CASE i \in 1..Len(rqueue)
        BY <1>1, <1>2, <1>3, <1>4, <1>5, <3>1 DEF GWIInv, QueueInv
      <3>2. CASE i = Len(rqueue) + 1
        BY <1>1, <1>3, <1>4, <1>5, <3>2
      <3> QED BY <1>6, <3>1, <3>2
    <2> QED BY <2>1, <2>2 DEF QueueInv
  <1>8. GWTypes'
    BY <1>1, <1>3, <1>4 DEF GWIInv, GWTypes
  <1>9. CountInv' /\ HolderInv' /\ LockHasHolder'
    BY <1>1, <1>4 DEF GWIInv, CountInv, HolderInv, LockHasHolder
  <1>10. \A l \in Loops : HandInv(l)'
    BY <1>1, <1>4, <1>5 DEF GWIInv, HandInv
  <1> QED BY <1>7, <1>8, <1>9, <1>10 DEF GWIInv

LEMMA OneLoopMoves ==
  ASSUME GWTypes, NEW l \in Loops, NEW new \in LoopRow, loop' = [loop EXCEPT ![l] = new]
  PROVE  /\ loop' \in [Loops -> LoopRow] /\ loop'[l] = new
         /\ \A k \in Loops : k # l => loop'[k] = loop[k]
  BY DEF GWTypes

LEMMA NextRetryInv ==
  ASSUME GWIInv, NEW l \in Loops, NextRetry(l)
  PROVE  GWIInv'
  <1>1. /\ UNCHANGED <<gstate, gpulock, wreg, overruns, silences, executed>>
        /\ loop[l].pc = "idle" /\ rqueue # <<>> /\ rqueue' = Tail(rqueue)
    BY DEF NextRetry, LoopAt
  <1>2. rqueue \in Seq(GJobs) /\ Len(rqueue) \in Nat /\ \A i \in 1..Len(rqueue) : rqueue[i] \in GJobs
    BY DEF GWIInv, GWTypes
  <1>3. PICK j \in GJobs : j = Head(rqueue)
    BY <1>1, <1>2, HeadTailProperties
  <1>4. 1 \in 1..Len(rqueue) /\ rqueue[1] = j
    BY <1>1, <1>2, <1>3
  <1>5. /\ rqueue' \in Seq(GJobs) /\ Len(rqueue') = Len(rqueue) - 1
        /\ \A i \in 1..Len(rqueue') : rqueue'[i] = rqueue[i + 1]
    BY <1>1, <1>2, HeadTailProperties
  <1>6. \A i \in 1..Len(rqueue') : i + 1 \in 1..Len(rqueue) /\ i + 1 # 1 /\ rqueue[i + 1] # j
    BY <1>2, <1>4, <1>5 DEF GWIInv, QueueInv
  <1>7. PICK new \in LoopRow : /\ loop' = [loop EXCEPT ![l] = new]
                               /\ new.pc = "job" /\ new.job = j
    <2>1. [IdleLoop EXCEPT !.pc = "job", !.job = j] \in LoopRow
      BY DEF IdleLoop, LoopRow, LoopPcs
    <2>2. /\ [IdleLoop EXCEPT !.pc = "job", !.job = j].pc = "job"
          /\ [IdleLoop EXCEPT !.pc = "job", !.job = j].job = j
      BY DEF IdleLoop
    <2> QED BY <1>3, <2>1, <2>2 DEF NextRetry
  <1>8. /\ loop' \in [Loops -> LoopRow] /\ loop'[l] = new
        /\ \A k \in Loops : k # l => loop'[k] = loop[k]
    BY <1>7, OneLoopMoves DEF GWIInv
  <1>9. /\ gstate[j] # "absent" /\ executed[j] = 0 /\ \A k \in Loops : loop[k].job # j
    BY <1>4 DEF GWIInv, QueueInv
  <1>10. QueueInv'
    <2>1. \A i, k \in 1..Len(rqueue') : rqueue'[i] = rqueue'[k] => i = k
      <3> SUFFICES ASSUME NEW i \in 1..Len(rqueue'), NEW k \in 1..Len(rqueue'), rqueue'[i] = rqueue'[k]
                   PROVE  i = k
        OBVIOUS
      <3>1. i + 1 = k + 1
        BY <1>5, <1>6 DEF GWIInv, QueueInv
      <3>2. i \in Nat /\ k \in Nat
        BY <1>2, <1>5
      <3> QED BY <3>1, <3>2
    <2>2. \A i \in 1..Len(rqueue') : /\ gstate'[rqueue'[i]] # "absent" /\ executed'[rqueue'[i]] = 0
                                     /\ \A k \in Loops : loop'[k].job # rqueue'[i]
      BY <1>1, <1>5, <1>6, <1>7, <1>8 DEF GWIInv, QueueInv
    <2> QED BY <2>1, <2>2 DEF QueueInv
  <1>11. GWTypes'
    BY <1>1, <1>5, <1>8 DEF GWIInv, GWTypes
  <1>12. CountInv'
    BY <1>1 DEF GWIInv, CountInv
  <1>13. HolderInv' /\ LockHasHolder'
    BY <1>1, <1>7, <1>8 DEF GWIInv, HolderInv, LockHasHolder, Holding
  <1>14. ASSUME NEW k \in Loops PROVE HandInv(k)'
    <2>1. CASE k = l
      BY <1>1, <1>7, <1>8, <1>9, <2>1 DEF HandInv
    <2>2. CASE k # l
      BY <1>1, <1>7, <1>8, <1>9, <2>2 DEF GWIInv, HandInv
    <2> QED BY <2>1, <2>2
  <1> QED BY <1>10, <1>11, <1>12, <1>13, <1>14 DEF GWIInv

(* A loop goes on with its job, or drops it.                               *)
LEMMA LoopStepInv ==
  ASSUME GWIInv, NEW l \in Loops, NEW new \in LoopRow, loop' = [loop EXCEPT ![l] = new],
         new.job = loop[l].job \/ new.job = NoGJob,
         new.pc \notin {"idle", "dead"} => new.job \in GJobs,
         new.pc \notin {"idle", "dead", "job"} => new.gpu \in Gpus,
         new.pc \in Untried => loop[l].pc \in Untried,
         gstate' \in [GJobs -> JobState],
         \A j \in GJobs : gstate'[j] = "absent" <=> gstate[j] = "absent",
         UNCHANGED <<rqueue, overruns, silences, executed>>,
         gpulock' \in [Gpus -> LockRow],
         wreg' \in [Gpus -> [status : {"absent", "healthy", "dead"}, job : GJobs \cup {NoGJob}]],
         HolderInv', LockHasHolder'
  PROVE  GWIInv'
  <1>1. /\ loop' \in [Loops -> LoopRow] /\ loop'[l] = new
        /\ \A k \in Loops : k # l => loop'[k] = loop[k]
    BY OneLoopMoves DEF GWIInv
  <1>2. GWTypes'
    BY <1>1 DEF GWIInv, GWTypes
  <1>3. \A i \in 1..Len(rqueue) : rqueue[i] \in GJobs
    BY DEF GWIInv, GWTypes
  <1>4. QueueInv'
    <2>1. \A k \in Loops : loop'[k].job = loop[k].job \/ loop'[k].job = NoGJob
      BY <1>1
    <2> QED BY <1>3, <2>1, GpuWorkerAssumption DEF GWIInv, QueueInv
  <1>5. CountInv'
    BY DEF GWIInv, CountInv
  <1>6. ASSUME NEW k \in Loops PROVE HandInv(k)'
    <2>1. CASE k = l
      BY <1>1, <2>1, GpuWorkerAssumption DEF GWIInv, HandInv
    <2>2. CASE k # l
      BY <1>1, <2>2, GpuWorkerAssumption DEF GWIInv, HandInv
    <2> QED BY <2>1, <2>2
  <1> QED BY <1>2, <1>4, <1>5, <1>6 DEF GWIInv

(* It holds a GPU after the step if it did before, and no lock changes.    *)
LEMMA HoldersKept ==
  ASSUME GWIInv, NEW l \in Loops, NEW new \in LoopRow, loop' = [loop EXCEPT ![l] = new],
         new.pc \in Holding <=> loop[l].pc \in Holding,
         new.pc \in Holding => new.job = loop[l].job /\ new.gpu = loop[l].gpu,
         UNCHANGED <<gpulock, overruns>>
  PROVE  HolderInv' /\ LockHasHolder'
  <1>1. /\ loop'[l] = new
        /\ \A k \in Loops : k # l => loop'[k] = loop[k]
    BY OneLoopMoves DEF GWIInv
  <1>2. \A k \in Loops : /\ loop'[k].pc \in Holding <=> loop[k].pc \in Holding
                         /\ loop[k].pc \in Holding => loop'[k].job = loop[k].job /\ loop'[k].gpu = loop[k].gpu
    BY <1>1
  <1>3. HolderInv'
    BY <1>2 DEF GWIInv, HolderInv
  <1>4. LockHasHolder'
    BY <1>2 DEF GWIInv, LockHasHolder
  <1> QED BY <1>3, <1>4

LEMMA LoopPcRow ==
  ASSUME GWTypes, NEW l \in Loops, NEW pc \in LoopPcs, LoopTo(l, pc)
  PROVE  \E new \in LoopRow : /\ loop' = [loop EXCEPT ![l] = new] /\ new.pc = pc
                              /\ new.job = loop[l].job /\ new.gpu = loop[l].gpu /\ new.raised = loop[l].raised
  <1>1. PICK q \in LoopRow : q = loop[l]
    BY DEF GWTypes
  <1>2. [q EXCEPT !.pc = pc] \in LoopRow
    BY DEF LoopRow
  <1>3. /\ [q EXCEPT !.pc = pc].pc = pc /\ [q EXCEPT !.pc = pc].job = q.job
        /\ [q EXCEPT !.pc = pc].gpu = q.gpu /\ [q EXCEPT !.pc = pc].raised = q.raised
    BY DEF LoopRow
  <1>4. loop' = [loop EXCEPT ![l] = [q EXCEPT !.pc = pc]]
    BY <1>1 DEF LoopTo, GWTypes
  <1> QED BY <1>1, <1>2, <1>3, <1>4

LEMMA PickWorkerInv ==
  ASSUME GWIInv, NEW l \in Loops, PickWorker(l)
  PROVE  GWIInv'
  <1>1. UNCHANGED <<gstate, rqueue, gpulock, wreg, overruns, silences, executed>> /\ loop[l].pc = "job"
    BY DEF PickWorker, LoopAt
  <1>2. PICK q \in LoopRow : q = loop[l]
    BY DEF GWIInv, GWTypes
  <1>3. PICK new \in LoopRow : /\ loop' = [loop EXCEPT ![l] = new]
                               /\ \/ new.pc = "idle" /\ new.job = NoGJob
                                  \/ new.pc = "lock" /\ new.job = q.job /\ new.gpu \in Gpus
    <2>1. CASE loop' = [loop EXCEPT ![l] = IdleLoop]
      BY <2>1, IdleLoopRow
    <2>2. ASSUME NEW g \in Available, loop' = [loop EXCEPT ![l].pc = "lock", ![l].gpu = g]
          PROVE  \E new \in LoopRow : /\ loop' = [loop EXCEPT ![l] = new]
                                      /\ \/ new.pc = "idle" /\ new.job = NoGJob
                                         \/ new.pc = "lock" /\ new.job = q.job /\ new.gpu \in Gpus
      <3>1. g \in Gpus
        BY DEF Available
      <3>2. [q EXCEPT !.pc = "lock", !.gpu = g] \in LoopRow
        BY <3>1 DEF LoopRow, LoopPcs
      <3>3. /\ [q EXCEPT !.pc = "lock", !.gpu = g].pc = "lock" /\ [q EXCEPT !.pc = "lock", !.gpu = g].gpu = g
            /\ [q EXCEPT !.pc = "lock", !.gpu = g].job = q.job
        BY DEF LoopRow
      <3>4. loop' = [loop EXCEPT ![l] = [q EXCEPT !.pc = "lock", !.gpu = g]]
        BY <1>2, <2>2 DEF GWIInv, GWTypes
      <3> QED BY <3>1, <3>2, <3>3, <3>4
    <2> QED BY <2>1, <2>2 DEF PickWorker
  <1>4. HolderInv' /\ LockHasHolder'
    BY <1>1, <1>3, HoldersKept DEF Holding
  <1>5. /\ new.job = loop[l].job \/ new.job = NoGJob
        /\ new.pc \notin {"idle", "dead"} => new.job \in GJobs
        /\ new.pc \notin {"idle", "dead", "job"} => new.gpu \in Gpus
        /\ new.pc \in Untried => loop[l].pc \in Untried
    BY <1>1, <1>2, <1>3 DEF GWIInv, HandInv, Untried
  <1>6. /\ gstate' \in [GJobs -> JobState] /\ (\A j \in GJobs : gstate'[j] = "absent" <=> gstate[j] = "absent")
        /\ gpulock' \in [Gpus -> LockRow]
        /\ wreg' \in [Gpus -> [status : {"absent", "healthy", "dead"}, job : GJobs \cup {NoGJob}]]
    BY <1>1 DEF GWIInv, GWTypes
  <1> QED BY <1>1, <1>3, <1>4, <1>5, <1>6, LoopStepInv

LEMMA LockGpuInv ==
  ASSUME GWIInv, NEW l \in Loops, LockGpu(l)
  PROVE  GWIInv'
  <1>1. UNCHANGED <<gstate, rqueue, wreg, overruns, silences, executed>> /\ loop[l].pc = "lock"
    BY DEF LockGpu, LoopAt
  <1>2. PICK q \in LoopRow : q = loop[l] /\ q.job \in GJobs /\ q.gpu \in Gpus
    BY <1>1 DEF GWIInv, GWTypes, HandInv
  <1>3. /\ gstate' \in [GJobs -> JobState] /\ (\A j \in GJobs : gstate'[j] = "absent" <=> gstate[j] = "absent")
        /\ wreg' \in [Gpus -> [status : {"absent", "healthy", "dead"}, job : GJobs \cup {NoGJob}]]
    BY <1>1 DEF GWIInv, GWTypes
  <1>4. CASE Lockable(q.gpu)
    <2>1. gpulock' = [gpulock EXCEPT ![q.gpu] = [job |-> q.job, aged |-> FALSE]] /\ LoopTo(l, "mark")
      BY <1>2, <1>4 DEF LockGpu
    <2>2. PICK new \in LoopRow : /\ loop' = [loop EXCEPT ![l] = new] /\ new.pc = "mark"
                                 /\ new.job = q.job /\ new.gpu = q.gpu
      BY <1>2, <2>1, LoopPcRow DEF GWIInv, LoopPcs
    <2>3. /\ loop'[l] = new
          /\ \A k \in Loops : k # l => loop'[k] = loop[k]
      BY <2>2, OneLoopMoves DEF GWIInv
    <2>4. PICK newlock \in LockRow : newlock = [job |-> q.job, aged |-> FALSE] /\ newlock.job = q.job /\ ~newlock.aged
      <3>1. [job |-> q.job, aged |-> FALSE] \in LockRow
        BY <1>2 DEF LockRow
      <3> QED BY <3>1
    <2>5. /\ gpulock' \in [Gpus -> LockRow] /\ gpulock'[q.gpu] = newlock
          /\ \A g \in Gpus : g # q.gpu => gpulock'[g] = gpulock[g]
      BY <1>2, <2>1, <2>4 DEF GWIInv, GWTypes
    <2>6. HolderInv'
      <3> SUFFICES ASSUME overruns' = 0
                   PROVE  /\ \A g \in Gpus : ~gpulock'[g].aged
                          /\ \A k \in Loops : loop'[k].pc \in Holding => gpulock'[loop'[k].gpu].job = loop'[k].job
        BY DEF HolderInv
      <3>1. /\ \A g \in Gpus : ~gpulock[g].aged
            /\ \A k \in Loops : loop[k].pc \in Holding => gpulock[loop[k].gpu].job = loop[k].job
        BY <1>1 DEF GWIInv, HolderInv
      <3>2. gpulock[q.gpu].job = NoGJob
        BY <1>2, <1>4, <3>1 DEF Lockable
      <3>3. \A k \in Loops : loop[k].pc \in Holding => loop[k].gpu \in Gpus /\ loop[k].job \in GJobs
        BY DEF GWIInv, HandInv, Holding
      <3>4. \A k \in Loops : loop[k].pc \in Holding => loop[k].gpu # q.gpu
        BY <3>1, <3>2, <3>3, GpuWorkerAssumption
      <3>5. \A g \in Gpus : ~gpulock'[g].aged
        BY <2>4, <2>5, <3>1
      <3>6. ASSUME NEW k \in Loops, loop'[k].pc \in Holding PROVE gpulock'[loop'[k].gpu].job = loop'[k].job
        <4>1. CASE k = l
          BY <2>2, <2>3, <2>4, <2>5, <4>1
        <4>2. CASE k # l
          BY <2>3, <2>5, <3>1, <3>3, <3>4, <3>6, <4>2
        <4> QED BY <4>1, <4>2
      <3> QED BY <3>5, <3>6
    <2>7. LockHasHolder'
      <3> SUFFICES ASSUME NEW g \in Gpus, gpulock'[g].job # NoGJob
                   PROVE  \E k \in Loops : /\ loop'[k].pc \in Holding /\ loop'[k].gpu = g
                                           /\ loop'[k].job = gpulock'[g].job
        BY DEF LockHasHolder
      <3>1. CASE g = q.gpu
        BY <2>2, <2>3, <2>4, <2>5, <3>1 DEF Holding
      <3>2. CASE g # q.gpu
        <4>1. PICK k \in Loops : loop[k].pc \in Holding /\ loop[k].gpu = g /\ loop[k].job = gpulock[g].job
          BY <2>5, <3>2 DEF GWIInv, LockHasHolder
        <4>2. k # l
          BY <1>1, <4>1 DEF Holding
        <4> QED BY <2>3, <2>5, <3>2, <4>1, <4>2
      <3> QED BY <3>1, <3>2
    <2>8. /\ new.job = loop[l].job /\ new.job \in GJobs /\ new.gpu \in Gpus /\ loop[l].pc \in Untried
      BY <1>1, <1>2, <2>2 DEF Untried
    <2> QED BY <1>1, <1>3, <2>2, <2>5, <2>6, <2>7, <2>8, LoopStepInv
  <1>5. CASE ~Lockable(q.gpu)
    <2>1. loop' = [loop EXCEPT ![l] = IdleLoop] /\ UNCHANGED gpulock
      BY <1>2, <1>5 DEF LockGpu
    <2>2. HolderInv' /\ LockHasHolder'
      BY <1>1, <2>1, IdleLoopRow, HoldersKept DEF Holding
    <2>3. gpulock' \in [Gpus -> LockRow]
      BY <2>1 DEF GWIInv, GWTypes
    <2>4. IdleLoop.pc \notin Untried
      BY IdleLoopRow DEF Untried
    <2> QED BY <1>1, <1>3, <2>1, <2>2, <2>3, <2>4, IdleLoopRow, LoopStepInv
  <1> QED BY <1>4, <1>5

(* The steps of a loop that has its GPU, up to the release.                *)
LEMMA WorkingInv ==
  ASSUME GWIInv, NEW l \in Loops,
         MarkRunning(l) \/ Execute(l) \/ MarkCompleted(l) \/ MarkCommitted(l) \/ HandleFailure(l)
  PROVE  GWIInv'
  <1>1. UNCHANGED <<rqueue, gpulock, wreg, overruns, silences, executed>>
    BY DEF MarkRunning, Execute, MarkCompleted, MarkCommitted, HandleFailure
  <1>2. loop[l].pc \in {"mark", "execute", "succeeded", "commit", "failed"}
    BY DEF MarkRunning, Execute, MarkCompleted, MarkCommitted, HandleFailure, LoopAt
  <1>3. PICK q \in LoopRow : q = loop[l] /\ q.job \in GJobs /\ q.gpu \in Gpus
    BY <1>2 DEF GWIInv, GWTypes, HandInv
  <1>4. PICK new \in LoopRow : /\ loop' = [loop EXCEPT ![l] = new] /\ new.job = q.job /\ new.gpu = q.gpu
                               /\ new.pc \in {"current", "succeeded", "failed", "commit", "release"}
                               /\ new.pc = "current" => loop[l].pc = "mark"
    <2>1. CASE HandleFailure(l)
      <3>1. [q EXCEPT !.pc = "release", !.raised = TRUE] \in LoopRow
        BY DEF LoopRow, LoopPcs
      <3>2. /\ [q EXCEPT !.pc = "release", !.raised = TRUE].pc = "release"
            /\ [q EXCEPT !.pc = "release", !.raised = TRUE].job = q.job
            /\ [q EXCEPT !.pc = "release", !.raised = TRUE].gpu = q.gpu
        BY DEF LoopRow
      <3>3. loop' = [loop EXCEPT ![l] = [q EXCEPT !.pc = "release", !.raised = TRUE]]
        BY <1>3, <2>1 DEF HandleFailure, GWIInv, GWTypes
      <3> QED BY <3>1, <3>2, <3>3
    <2>2. CASE ~HandleFailure(l)
      <3>1. PICK pc \in {"current", "succeeded", "failed", "commit", "release"} :
                LoopTo(l, pc) /\ (pc = "current" => loop[l].pc = "mark")
        BY <2>2 DEF MarkRunning, Execute, MarkCompleted, MarkCommitted, LoopAt
      <3>2. pc \in LoopPcs
        BY DEF LoopPcs
      <3> QED BY <1>3, <3>1, <3>2, LoopPcRow DEF GWIInv
    <2> QED BY <2>1, <2>2
  <1>5. HolderInv' /\ LockHasHolder'
    <2>1. new.pc \in Holding /\ loop[l].pc \in Holding
      BY <1>2, <1>4 DEF Holding
    <2> QED BY <1>1, <1>3, <1>4, <2>1, HoldersKept
  <1>6. gstate' \in [GJobs -> JobState] /\ \A j \in GJobs : gstate'[j] = "absent" <=> gstate[j] = "absent"
    <2>1. gstate[q.job] # "absent" /\ gstate \in [GJobs -> JobState]
      BY <1>3 DEF GWIInv, HandInv, GWTypes
    <2>2. CASE gstate' = gstate
      BY <2>1, <2>2
    <2>3. ASSUME NEW st \in JobState, st # "absent", gstate' = [gstate EXCEPT ![q.job] = st]
          PROVE  gstate' \in [GJobs -> JobState] /\ \A j \in GJobs : gstate'[j] = "absent" <=> gstate[j] = "absent"
      BY <1>3, <2>1, <2>3
    <2>4. \/ gstate' = gstate
          \/ \E st \in JobState : st # "absent" /\ gstate' = [gstate EXCEPT ![q.job] = st]
      <3>1. CASE MarkRunning(l)
        <4>1. gstate' = [gstate EXCEPT ![q.job] = IF gstate[q.job] \in {"completed", "committed"}
                                                  THEN gstate[q.job] ELSE "running"]
          BY <1>3, <3>1 DEF MarkRunning
        <4> QED BY <1>3, <2>1, <4>1 DEF JobState
      <3>2. CASE MarkCompleted(l)
        BY <1>3, <3>2 DEF MarkCompleted, JobState
      <3>3. CASE MarkCommitted(l)
        <4>1. gstate' = [gstate EXCEPT ![q.job] = IF gstate[q.job] = "completed"
                                                  THEN "committed" ELSE gstate[q.job]]
          BY <1>3, <3>3 DEF MarkCommitted
        <4> QED BY <1>3, <2>1, <4>1 DEF JobState
      <3>4. CASE Execute(l) \/ HandleFailure(l)
        BY <3>4 DEF Execute, HandleFailure
      <3> QED BY <3>1, <3>2, <3>3, <3>4
    <2> QED BY <2>2, <2>3, <2>4
  <1>7. gpulock' \in [Gpus -> LockRow]
        /\ wreg' \in [Gpus -> [status : {"absent", "healthy", "dead"}, job : GJobs \cup {NoGJob}]]
    BY <1>1 DEF GWIInv, GWTypes
  <1>8. new.job = loop[l].job /\ new.job \in GJobs /\ new.gpu \in Gpus
        /\ (new.pc \in Untried => loop[l].pc \in Untried)
    BY <1>3, <1>4 DEF Untried
  <1> QED BY <1>1, <1>4, <1>5, <1>6, <1>7, <1>8, LoopStepInv

LEMMA SetCurrentInv ==
  ASSUME GWIInv, NEW l \in Loops, SetCurrent(l)
  PROVE  GWIInv'
  <1>1. UNCHANGED <<gstate, rqueue, gpulock, overruns, silences>> /\ loop[l].pc = "current"
        /\ LoopTo(l, "execute")
    BY DEF SetCurrent, LoopAt
  <1>2. PICK q \in LoopRow : q = loop[l] /\ q.job \in GJobs /\ q.gpu \in Gpus
    BY <1>1 DEF GWIInv, GWTypes, HandInv
  <1>3. executed[q.job] = 0 /\ gstate[q.job] # "absent"
    BY <1>1, <1>2 DEF GWIInv, HandInv, Untried
  <1>4. /\ executed' \in [GJobs -> 0..2] /\ executed'[q.job] = 1
        /\ \A j \in GJobs : j # q.job => executed'[j] = executed[j]
    <2>1. executed' = [executed EXCEPT ![q.job] = 1]
      BY <1>2, <1>3 DEF SetCurrent, GWIInv, GWTypes
    <2> QED BY <1>2, <2>1 DEF GWIInv, GWTypes
  <1>5. wreg' \in [Gpus -> [status : {"absent", "healthy", "dead"}, job : GJobs \cup {NoGJob}]]
    <2>1. wreg' = wreg \/ wreg' = [wreg EXCEPT ![q.gpu].job = q.job]
      BY <1>2 DEF SetCurrent
    <2>2. CASE wreg' = wreg
      BY <2>2 DEF GWIInv, GWTypes
    <2>3. CASE wreg' = [wreg EXCEPT ![q.gpu].job = q.job]
      BY <1>2, <2>3 DEF GWIInv, GWTypes
    <2> QED BY <2>1, <2>2, <2>3
  <1>6. PICK new \in LoopRow : /\ loop' = [loop EXCEPT ![l] = new] /\ new.pc = "execute"
                               /\ new.job = q.job /\ new.gpu = q.gpu
    BY <1>1, <1>2, LoopPcRow DEF GWIInv, LoopPcs
  <1>7. /\ loop' \in [Loops -> LoopRow] /\ loop'[l] = new
        /\ \A k \in Loops : k # l => loop'[k] = loop[k]
    BY <1>6, OneLoopMoves DEF GWIInv
  <1>8. HolderInv' /\ LockHasHolder'
    BY <1>1, <1>2, <1>6, HoldersKept DEF Holding
  <1>9. GWTypes'
    BY <1>1, <1>4, <1>5, <1>7 DEF GWIInv, GWTypes
  <1>10. QueueInv'
    <2>1. \A i \in 1..Len(rqueue) : rqueue[i] \in GJobs /\ rqueue[i] # q.job
      BY <1>2 DEF GWIInv, GWTypes, QueueInv
    <2>2. \A k \in Loops : loop'[k].job = loop[k].job
      BY <1>2, <1>6, <1>7
    <2> QED BY <1>1, <1>4, <2>1, <2>2 DEF GWIInv, QueueInv
  <1>11. CountInv'
    BY <1>1, <1>3, <1>4 DEF GWIInv, CountInv
  <1>12. ASSUME NEW k \in Loops PROVE HandInv(k)'
    <2>1. CASE k = l
      BY <1>1, <1>2, <1>3, <1>6, <1>7, <2>1 DEF GWIInv, HandInv, Untried
    <2>2. CASE k # l
      <3>1. loop[k].job # q.job
        BY <1>2, <2>2 DEF GWIInv, HandInv
      <3> QED BY <1>1, <1>2, <1>4, <1>6, <1>7, <2>2, <3>1 DEF GWIInv, HandInv
    <2> QED BY <2>1, <2>2
  <1> QED BY <1>8, <1>9, <1>10, <1>11, <1>12 DEF GWIInv

LEMMA ReleaseLockInv ==
  ASSUME GWIInv, NEW l \in Loops, ReleaseLock(l)
  PROVE  GWIInv'
  <1>1. UNCHANGED <<gstate, rqueue, wreg, overruns, silences, executed>> /\ loop[l].pc = "release"
        /\ LoopTo(l, "registry")
    BY DEF ReleaseLock, LoopAt
  <1>2. PICK q \in LoopRow : q = loop[l] /\ q.job \in GJobs /\ q.gpu \in Gpus
    BY <1>1 DEF GWIInv, GWTypes, HandInv
  <1>3. PICK new \in LoopRow : /\ loop' = [loop EXCEPT ![l] = new] /\ new.pc = "registry"
                               /\ new.job = q.job /\ new.gpu = q.gpu
    BY <1>1, <1>2, LoopPcRow DEF GWIInv, LoopPcs
  <1>4. /\ loop'[l] = new
        /\ \A k \in Loops : k # l => loop'[k] = loop[k]
    BY <1>3, OneLoopMoves DEF GWIInv
  <1>5. /\ gpulock' \in [Gpus -> LockRow] /\ gpulock'[q.gpu] = Unlocked
        /\ \A g \in Gpus : g # q.gpu => gpulock'[g] = gpulock[g]
    BY <1>2, UnlockedRow DEF ReleaseLock, GWIInv, GWTypes
  <1>6. \A k \in Loops : loop'[k].pc \in Holding => k # l /\ loop'[k] = loop[k]
    BY <1>3, <1>4 DEF Holding
  <1>7. HolderInv'
    <2> SUFFICES ASSUME overruns' = 0
                 PROVE  /\ \A g \in Gpus : ~gpulock'[g].aged
                        /\ \A k \in Loops : loop'[k].pc \in Holding => gpulock'[loop'[k].gpu].job = loop'[k].job
      BY DEF HolderInv
    <2>1. /\ \A g \in Gpus : ~gpulock[g].aged
          /\ \A k \in Loops : loop[k].pc \in Holding => gpulock[loop[k].gpu].job = loop[k].job
      BY <1>1 DEF GWIInv, HolderInv
    <2>2. ASSUME NEW k \in Loops, loop'[k].pc \in Holding PROVE gpulock'[loop'[k].gpu].job = loop'[k].job
      <3>1. k # l /\ loop'[k] = loop[k] /\ loop[k].pc \in Holding
        BY <1>6, <2>2
      <3>2. loop[k].gpu \in Gpus /\ loop[k].job \in GJobs
        BY <3>1 DEF GWIInv, HandInv, Holding
      <3>3. loop[k].job # q.job
        BY <1>2, <3>1 DEF GWIInv, HandInv
      <3>4. gpulock[q.gpu].job = q.job
        BY <1>1, <1>2, <2>1 DEF Holding
      <3>5. loop[k].gpu # q.gpu
        BY <2>1, <3>1, <3>3, <3>4
      <3> QED BY <1>5, <2>1, <3>1, <3>2, <3>5
    <2> QED BY <1>5, <2>1, <2>2, UnlockedRow
  <1>8. LockHasHolder'
    <2> SUFFICES ASSUME NEW g \in Gpus, gpulock'[g].job # NoGJob
                 PROVE  \E k \in Loops : /\ loop'[k].pc \in Holding /\ loop'[k].gpu = g
                                         /\ loop'[k].job = gpulock'[g].job
      BY DEF LockHasHolder
    <2>1. g # q.gpu /\ gpulock'[g] = gpulock[g]
      BY <1>5, UnlockedRow
    <2>2. PICK k \in Loops : loop[k].pc \in Holding /\ loop[k].gpu = g /\ loop[k].job = gpulock[g].job
      BY <2>1 DEF GWIInv, LockHasHolder
    <2> QED BY <1>2, <1>4, <2>1, <2>2
  <1>9. /\ new.job = loop[l].job /\ new.job \in GJobs /\ new.gpu \in Gpus /\ new.pc \notin Untried
    BY <1>2, <1>3 DEF Untried
  <1>10. /\ gstate' \in [GJobs -> JobState] /\ (\A j \in GJobs : gstate'[j] = "absent" <=> gstate[j] = "absent")
         /\ wreg' \in [Gpus -> [status : {"absent", "healthy", "dead"}, job : GJobs \cup {NoGJob}]]
    BY <1>1 DEF GWIInv, GWTypes
  <1> QED BY <1>1, <1>3, <1>5, <1>7, <1>8, <1>9, <1>10, LoopStepInv

LEMMA ClearCurrentInv ==
  ASSUME GWIInv, NEW l \in Loops, ClearCurrent(l)
  PROVE  GWIInv'
  <1>1. UNCHANGED <<gstate, rqueue, gpulock, overruns, silences, executed>> /\ loop[l].pc = "registry"
    BY DEF ClearCurrent, LoopAt
  <1>2. loop[l].gpu \in Gpus
    BY <1>1 DEF GWIInv, HandInv
  <1>3. wreg' \in [Gpus -> [status : {"absent", "healthy", "dead"}, job : GJobs \cup {NoGJob}]]
    BY <1>2 DEF ClearCurrent, GWIInv, GWTypes
  <1>4. PICK new \in LoopRow : loop' = [loop EXCEPT ![l] = new] /\ new.pc \in {"idle", "dead"} /\ new.job = NoGJob
    BY IdleLoopRow DEF ClearCurrent
  <1>5. HolderInv' /\ LockHasHolder'
    BY <1>1, <1>4, HoldersKept DEF Holding
  <1>6. /\ gstate' \in [GJobs -> JobState] /\ (\A j \in GJobs : gstate'[j] = "absent" <=> gstate[j] = "absent")
        /\ gpulock' \in [Gpus -> LockRow]
    BY <1>1 DEF GWIInv, GWTypes
  <1>7. new.pc \notin Untried
    BY <1>4 DEF Untried
  <1> QED BY <1>1, <1>3, <1>4, <1>5, <1>6, <1>7, LoopStepInv

(* Locks age and are cleaned up; workers come, beat, fall silent and go.   *)
LEMMA BackgroundInv ==
  ASSUME GWIInv,
         \/ \E g \in Gpus : LockAges(g) \/ RegisterGpu(g) \/ GpuHeartbeat(g) \/ HeartbeatTimeout(g)
         \/ CleanupLocks \/ CleanupDead
  PROVE  GWIInv'
  <1>1. UNCHANGED <<gstate, rqueue, loop, executed>>
    BY DEF LockAges, RegisterGpu, GpuHeartbeat, HeartbeatTimeout, CleanupLocks, CleanupDead
  <1>2. gpulock \in [Gpus -> LockRow]
    BY DEF GWIInv, GWTypes
  <1>3. overruns' \in 0..MaxOverruns /\ silences' \in 0..MaxSilences
    BY GpuWorkerAssumption DEF LockAges, RegisterGpu, GpuHeartbeat, HeartbeatTimeout, CleanupLocks,
         CleanupDead, GWIInv, GWTypes
  <1>4. wreg' \in [Gpus -> [status : {"absent", "healthy", "dead"}, job : GJobs \cup {NoGJob}]]
    <2> DEFINE RegRow == [status : {"absent", "healthy", "dead"}, job : GJobs \cup {NoGJob}]
    <2>1. wreg \in [Gpus -> RegRow]
      BY DEF GWIInv, GWTypes
    <2>2. [status |-> "healthy", job |-> NoGJob] \in RegRow /\ [status |-> "absent", job |-> NoGJob] \in RegRow
      OBVIOUS
    <2>3. CASE CleanupDead
      BY <2>1, <2>2, <2>3 DEF CleanupDead
    <2>4. CASE \E g \in Gpus : RegisterGpu(g) \/ GpuHeartbeat(g)
      BY <2>1, <2>2, <2>4 DEF RegisterGpu, GpuHeartbeat
    <2>5. CASE \E g \in Gpus : HeartbeatTimeout(g)
      BY <2>1, <2>5 DEF HeartbeatTimeout
    <2>6. CASE CleanupLocks \/ \E g \in Gpus : LockAges(g)
      BY <2>1, <2>6 DEF CleanupLocks, LockAges
    <2> QED BY <2>3, <2>4, <2>5, <2>6
  <1>5. /\ gpulock' \in [Gpus -> LockRow]
        /\ \A g \in Gpus : gpulock'[g].job \in {gpulock[g].job, NoGJob}
        /\ overruns' = 0 =>
              /\ overruns = 0
              /\ \A g \in Gpus : ~gpulock[g].aged => gpulock'[g] = gpulock[g]
    <2>1. CASE \E g \in Gpus : LockAges(g)
      <3>1. PICK g \in Gpus : LockAges(g)
        BY <2>1
      <3>2. overruns' # 0
        BY <3>1, GpuWorkerAssumption DEF LockAges, GWIInv, GWTypes
      <3>3. gpulock' = [gpulock EXCEPT ![g].aged = TRUE]
        BY <3>1 DEF LockAges
      <3>4. gpulock' \in [Gpus -> LockRow]
        BY <1>2, <3>3 DEF LockRow
      <3>5. \A h \in Gpus : gpulock'[h].job = gpulock[h].job
        BY <1>2, <3>3 DEF LockRow
      <3> QED BY <3>2, <3>4, <3>5
    <2>2. CASE CleanupLocks
      BY <1>2, <2>2, UnlockedRow DEF CleanupLocks
    <2>3. CASE ~CleanupLocks /\ ~\E g \in Gpus : LockAges(g)
      <3>1. UNCHANGED <<gpulock, overruns>>
        BY <2>3 DEF RegisterGpu, GpuHeartbeat, HeartbeatTimeout, CleanupDead
      <3> QED BY <1>2, <3>1
    <2> QED BY <2>1, <2>2, <2>3
  <1>6. GWTypes'
    BY <1>1, <1>3, <1>4, <1>5 DEF GWIInv, GWTypes
  <1>7. HolderInv'
    <2>1. \A l \in Loops : loop[l].pc \in Holding => loop[l].gpu \in Gpus
      BY DEF GWIInv, HandInv, Holding
    <2> QED BY <1>1, <1>5, <2>1 DEF GWIInv, HolderInv
  <1>8. LockHasHolder'
    BY <1>1, <1>5 DEF GWIInv, LockHasHolder
  <1>9. QueueInv' /\ CountInv' /\ \A l \in Loops : HandInv(l)'
    BY <1>1 DEF GWIInv, QueueInv, CountInv, HandInv
  <1> QED BY <1>6, <1>7, <1>8, <1>9 DEF GWIInv

LEMMA GWNextInv == GWIInv /\ [GWNext]_gwvars => GWIInv'
  <1> SUFFICES ASSUME GWIInv, [GWNext]_gwvars PROVE GWIInv'
    OBVIOUS
  <1>1. CASE UNCHANGED gwvars
    BY <1>1 DEF gwvars, GWIInv, GWTypes, QueueInv, CountInv, HolderInv, LockHasHolder, HandInv
  <1> QED BY <1>1, EnqueueInv, NextRetryInv, PickWorkerInv, LockGpuInv, WorkingInv, SetCurrentInv,
             ReleaseLockInv, ClearCurrentInv, BackgroundInv DEF GWNext, RunIteration

(* A queue without repetitions is no longer than the set of jobs.          *)
LEMMA GWIsSafe == GWIInv => GpuWorkerInv /\ GWTypeOK
  <1> SUFFICES ASSUME GWIInv PROVE GpuWorkerInv /\ GWTypeOK
    OBVIOUS
  <1>1. OneJobPerGpu
    <2> SUFFICES ASSUME overruns = 0, NEW l \in Loops, NEW k \in Loops, l # k,
                        loop[l].pc \in Holding, loop[k].pc \in Holding, loop[l].gpu = loop[k].gpu
                 PROVE  FALSE
      BY DEF OneJobPerGpu
    <2>1. loop[l].job = loop[k].job
      BY DEF GWIInv, HolderInv
    <2>2. loop[l].job \in GJobs
      BY DEF GWIInv, HandInv, Holding
    <2> QED BY <2>1, <2>2 DEF GWIInv, HandInv
  <1>2. ExecutedOnce
    BY DEF GWIInv, CountInv, ExecutedOnce
  <1>3. Len(rqueue) <= Cardinality(GJobs)
    <2>1. PICK n \in Nat : n = Len(rqueue)
      BY DEF GWIInv, GWTypes
    <2>2. IsFiniteSet(1..n) /\ Cardinality(1..n) = n
      <3>1. 1 \in Int /\ n \in Int
        OBVIOUS
      <3>2. IsFiniteSet(1..n) /\ Cardinality(1..n) = IF 1 > n THEN 0 ELSE n - 1 + 1
        BY <3>1, FS_Interval
      <3> QED BY <3>2
    <2>3. rqueue \in [1..n -> GJobs]
      BY <2>1 DEF GWIInv, GWTypes
    <2>4. \A x, y \in 1..n : rqueue[x] = rqueue[y] => x = y
      BY <2>1 DEF GWIInv, QueueInv
    <2>5. ~(Cardinality(GJobs) < Cardinality(1..n))
      BY <2>2, <2>3, <2>4, FS_PigeonHole, GpuWorkerAssumption
    <2>6. Cardinality(GJobs) \in Nat
      BY FS_CardinalityType, GpuWorkerAssumption
    <2> QED BY <2>1, <2>2, <2>5, <2>6
  <1>4. GWTypeOK
    BY <1>3 DEF GWIInv, GWTypes, GWTypeOK, LoopRow, LockRow
  <1> QED BY <1>1, <1>2, <1>4 DEF GWIInv, GpuWorkerInv

-----------------------------------------------------------------------------
(* Together.                                                               *)
LEMMA WorkersInit == OperationsInit => CPIInv /\ HostsIInv /\ GWIInv
  BY CPInitInv, HostsInitInv, GWInitInv DEF OperationsInit

LEMMA WorkersNext ==
    CPIInv /\ HostsIInv /\ GWIInv /\ [OperationsNext]_OperationsVars => (CPIInv /\ HostsIInv /\ GWIInv)'
  <1>1. [OperationsNext]_OperationsVars => [CPNext]_cpvars /\ [HostsNext]_hvars /\ [GWNext]_gwvars
    BY DEF OperationsNext, OperationsVars
  <1> QED BY <1>1, CPNextInv, HostsNextInv, GWNextInv

(* Work that completed is never queued or run again, whatever the          *)
(* reconciler sees between its steps, and a job taken off a dead worker    *)
(* leaves its GPU.                                                         *)
THEOREM ReconcilerIsSafe == OperationsSpec => []ControlPlaneInv
  BY WorkersInit, WorkersNext, PTL DEF OperationsSpec, OperationsVars, CPIInv, ControlPlaneInv

(* Only a verified host is active, trust is earned, a verification is      *)
(* judged once and a failed issue locks no host out, however many commands *)
(* run and whichever stale copies they write back.                         *)
THEOREM HostsAreSound == OperationsSpec => []HostsInv
  BY WorkersInit, WorkersNext, HostsIsSafe, PTL DEF OperationsSpec, OperationsVars

(* No GPU is shared before a lock ran out, no lock outlives its job, and   *)
(* no job is executed twice.                                               *)
THEOREM GpuLoopsAreSound == OperationsSpec => []GpuWorkerInv
  BY WorkersInit, WorkersNext, GWIsSafe, PTL DEF OperationsSpec, OperationsVars


-----------------------------------------------------------------------------
(* The cluster: the books of a node that keeps its whole log.              *)
EntryRow == [index : Nat, term : Nat, committed : BOOLEAN]

(* A row of the table of nodes has its six fields, whatever they hold.     *)
IsNodeRow(x) == x = [role |-> x.role, term |-> x.term, log |-> x.log, commit |-> x.commit,
                     next |-> x.next, thread |-> x.thread]

LogSound(x) ==
    /\ x.term \in Nat /\ x.commit \in Nat /\ x.log \in Seq(EntryRow) /\ x.commit <= Len(x.log)
    /\ \A i \in 1..Len(x.log) :
          /\ x.log[i].index = i /\ x.log[i].term <= x.term
          /\ \A k \in 1..i : x.log[k].term <= x.log[i].term
          /\ x.log[i].committed <=> i <= x.commit

RaftIInv ==
    /\ raft = [n \in Ids |-> raft[n]]
    /\ \A n \in Ids : n \notin compacted => IsNodeRow(raft[n]) /\ LogSound(raft[n])

StoreIInv ==
    /\ replicas = [alive |-> replicas.alive, local |-> replicas.local, commit |-> replicas.commit]
    /\ replicas.local \in Nat /\ replicas.commit \in Nat /\ replicas.commit <= replicas.local

RunsNow == {j \in GpuJobs : phase[j] = "running"}

PressureIInv ==
    /\ phase \in [GpuJobs -> {"idle", "admitted", "running", "done"}] /\ used \in Nat /\ corrected \in BOOLEAN
    /\ ~corrected => used = Share(RunsNow)
    /\ \A j \in GpuJobs : phase[j] \in {"admitted", "running"} => Size(j) <= SaturationMax

ClusterIInv == RaftIInv /\ StoreIInv /\ PressureIInv


LEMMA RaftInitInv == ClusterInit => RaftIInv
  <1> SUFFICES ASSUME ClusterInit PROVE RaftIInv
    OBVIOUS
  <1> DEFINE next0 == [p \in Ids \cup {Newcomer} |-> IF p \in Ids THEN 1 ELSE Absent]
             row == [role |-> "follower", term |-> 0, log |-> <<>>, commit |-> 0, next |-> next0, thread |-> "none"]
  <1>1. raft = [n \in Ids |-> row]
    BY DEF ClusterInit
  <1> HIDE DEF next0
  <1>2. <<>> \in Seq(EntryRow) /\ Len(<<>>) = 0
    BY EmptySeq
  <1>3. IsNodeRow(row)
    BY DEF IsNodeRow
  <1>4. LogSound(row)
    BY <1>2 DEF LogSound
  <1> HIDE DEF row
  <1> QED BY <1>1, <1>3, <1>4 DEF RaftIInv

(* One node moves; its books matter while it keeps its whole log.          *)
LEMMA NodeMovesInv ==
    ASSUME RaftIInv, NEW n, raft' = [m \in Ids |-> raft'[m]], \A m \in Ids : m # n => raft'[m] = raft[m],
           compacted \subseteq compacted',
           n \in Ids /\ n \notin compacted' => IsNodeRow(raft'[n]) /\ LogSound(raft'[n])
    PROVE  RaftIInv'
  <1>1. ASSUME NEW m \in Ids, m \notin compacted' PROVE IsNodeRow(raft'[m]) /\ LogSound(raft'[m])
    BY <1>1 DEF RaftIInv
  <1>2. \A m \in Ids : m \notin compacted' => IsNodeRow(raft[m])' /\ LogSound(raft[m])'
    BY <1>1
  <1> QED BY <1>2 DEF RaftIInv

(* A row with another role, thread, table of indices or higher term.       *)
LEMMA BooksKept2 ==
    ASSUME NEW x, NEW y, LogSound(x), y.log = x.log, y.commit = x.commit, y.term \in Nat, y.term >= x.term
    PROVE  LogSound(y)
  <1> DEFINE l == x.log
  <1>1. /\ x.term \in Nat /\ l \in Seq(EntryRow) /\ \A i \in 1..Len(l) : l[i].term <= x.term
        /\ x.commit \in Nat /\ x.commit <= Len(l)
        /\ \A i \in 1..Len(l) : l[i].index = i /\ (l[i].committed <=> i <= x.commit)
                                /\ \A k \in 1..i : l[k].term <= l[i].term
    BY DEF LogSound
  <1> HIDE DEF l
  <1>2. \A i \in 1..Len(l) : l[i] \in EntryRow
    BY <1>1, ElementOfSeq
  <1>3. \A i \in 1..Len(l) : l[i].term \in Nat
    BY <1>2 DEF EntryRow
  <1>4. \A u, v, w \in Nat : u <= v /\ w >= v => u <= w
    OBVIOUS
  <1>5. \A i \in 1..Len(l) : l[i].term <= y.term
    BY <1>1, <1>3, <1>4
  <1> QED BY <1>1, <1>5 DEF LogSound, l

LEMMA ElectBeginsInv == ASSUME RaftIInv, ElectBegins PROVE RaftIInv'
  <1>1. raft' = [n \in Ids |-> [raft[n] EXCEPT !.thread = "start"]] /\ UNCHANGED compacted
    BY DEF ElectBegins
  <1>2. ASSUME NEW n \in Ids, n \notin compacted' PROVE IsNodeRow(raft'[n]) /\ LogSound(raft'[n])
    <2> DEFINE x == raft[n]
               y == [x EXCEPT !.thread = "start"]
    <2>1. IsNodeRow(x) /\ LogSound(x) /\ raft'[n] = y
      BY <1>1, <1>2 DEF RaftIInv
    <2> HIDE DEF x
    <2>2. IsNodeRow(y) /\ y.log = x.log /\ y.commit = x.commit /\ y.term = x.term
      BY <2>1 DEF IsNodeRow
    <2> HIDE DEF y
    <2>3. x.term \in Nat
      BY <2>1 DEF LogSound
    <2>4. LogSound(y)
      BY <2>1, <2>2, <2>3, BooksKept2
    <2> QED BY <2>1, <2>2, <2>4
  <1>3. \A n \in Ids : n \notin compacted' => IsNodeRow(raft[n])' /\ LogSound(raft[n])'
    BY <1>2
  <1>4. raft' = [n \in Ids |-> raft'[n]]
    BY <1>1
  <1> QED BY <1>3, <1>4 DEF RaftIInv

LEMMA StartElectionInv == ASSUME RaftIInv, NEW n \in Ids, StartElection(n) PROVE RaftIInv'
  <1>0. raft = [m \in Ids |-> raft[m]]
    BY DEF RaftIInv
  <1> DEFINE x == raft[n]
             y == [x EXCEPT !.thread = "asking", !.role = "candidate", !.term = x.term + 1]
  <1>1. UNCHANGED compacted /\ raft' = [raft EXCEPT ![n].thread = "asking", ![n].role = "candidate", ![n].term = @ + 1]
    BY DEF StartElection
  <1>2. raft' = [m \in Ids |-> raft'[m]] /\ \A m \in Ids : m # n => raft'[m] = raft[m]
    BY <1>0, <1>1
  <1>3. ASSUME n \notin compacted PROVE IsNodeRow(raft'[n]) /\ LogSound(raft'[n])
    <2>1. IsNodeRow(x) /\ LogSound(x)
      BY <1>3 DEF RaftIInv
    <2>2. raft'[n] = y
      BY <1>0, <1>1, <2>1 DEF IsNodeRow
    <2> HIDE DEF x
    <2>3. IsNodeRow(y) /\ y.log = x.log /\ y.commit = x.commit /\ y.term = x.term + 1
      <3> DEFINE y1 == [x EXCEPT !.thread = "asking"]
                 y2 == [y1 EXCEPT !.role = "candidate"]
                 t == x.term + 1
                 y3 == [y2 EXCEPT !.term = t]
      <3>1. IsNodeRow(y1) /\ y1.log = x.log /\ y1.commit = x.commit
        BY <2>1 DEF IsNodeRow
      <3> HIDE DEF y1
      <3>2. IsNodeRow(y2) /\ y2.log = x.log /\ y2.commit = x.commit
        BY <3>1 DEF IsNodeRow
      <3> HIDE DEF y2, t
      <3>3. IsNodeRow(y3) /\ y3.log = x.log /\ y3.commit = x.commit /\ y3.term = t
        BY <3>2 DEF IsNodeRow
      <3>4. y = y3 /\ t = x.term + 1
        BY Zenon DEF y1, y2, t
      <3> HIDE DEF y, y3
      <3> QED BY <3>3, <3>4
    <2> HIDE DEF y
    <2>4. y.term \in Nat /\ y.term >= x.term
      BY <2>1, <2>3 DEF LogSound
    <2>5. LogSound(y)
      BY <2>1, <2>3, <2>4, BooksKept2
    <2> QED BY <2>2, <2>3, <2>5
  <1> QED BY <1>1, <1>2, <1>3, NodeMovesInv

LEMMA VotesInInv == ASSUME RaftIInv, NEW n \in Ids, VotesIn(n) PROVE RaftIInv'
  <1>0. raft = [m \in Ids |-> raft[m]] /\ UNCHANGED compacted
    BY DEF RaftIInv, VotesIn
  <1> DEFINE x == raft[n]
  <1>1. ASSUME raft' = [raft EXCEPT ![n].thread = "none"] PROVE RaftIInv'
    <2>1. raft' = [m \in Ids |-> raft'[m]] /\ (\A m \in Ids : m # n => raft'[m] = raft[m])
          /\ raft'[n] = [x EXCEPT !.thread = "none"]
      BY <1>0, <1>1
    <2>2. ASSUME n \notin compacted PROVE IsNodeRow(raft'[n]) /\ LogSound(raft'[n])
      <3>1. IsNodeRow(x) /\ LogSound(x) /\ x.term \in Nat
        BY <2>2 DEF RaftIInv, LogSound
      <3> HIDE DEF x
      <3>2. IsNodeRow(raft'[n]) /\ raft'[n].log = x.log /\ raft'[n].commit = x.commit /\ raft'[n].term = x.term
        BY <2>1, <3>1 DEF IsNodeRow
      <3> QED BY <3>1, <3>2, BooksKept2
    <2> QED BY <1>0, <2>1, <2>2, NodeMovesInv
  <1>2. ASSUME NEW v, raft' = [raft EXCEPT ![n].thread = "none", ![n].role = "leader", ![n].next = v] PROVE RaftIInv'
    <2>1. raft' = [m \in Ids |-> raft'[m]] /\ (\A m \in Ids : m # n => raft'[m] = raft[m])
      BY <1>0, <1>2
    <2>2. ASSUME n \notin compacted PROVE IsNodeRow(raft'[n]) /\ LogSound(raft'[n])
      <3>1. IsNodeRow(x) /\ LogSound(x) /\ x.term \in Nat
        BY <2>2 DEF RaftIInv, LogSound
      <3>3. raft'[n] = [x EXCEPT !.thread = "none", !.role = "leader", !.next = v]
        BY <1>0, <1>2, <3>1 DEF IsNodeRow
      <3> HIDE DEF x
      <3>2. IsNodeRow(raft'[n]) /\ raft'[n].log = x.log /\ raft'[n].commit = x.commit /\ raft'[n].term = x.term
        BY <3>1, <3>3 DEF IsNodeRow
      <3> QED BY <3>1, <3>2, BooksKept2
    <2> QED BY <1>0, <2>1, <2>2, NodeMovesInv
  <1> QED BY <1>1, <1>2, Zenon DEF VotesIn

LEMMA MembershipInv ==
    ASSUME RaftIInv, NEW n \in Ids, NEW p, NEW v, raft' = [raft EXCEPT ![n].next[p] = v], UNCHANGED compacted
    PROVE  RaftIInv'
  <1>0. raft = [m \in Ids |-> raft[m]]
    BY DEF RaftIInv
  <1> DEFINE x == raft[n]
             w == [x.next EXCEPT ![p] = v]
  <1>1. raft' = [m \in Ids |-> raft'[m]] /\ (\A m \in Ids : m # n => raft'[m] = raft[m])
    BY <1>0
  <1>2. ASSUME n \notin compacted PROVE IsNodeRow(raft'[n]) /\ LogSound(raft'[n])
    <2>1. IsNodeRow(x) /\ LogSound(x) /\ x.term \in Nat
      BY <1>2 DEF RaftIInv, LogSound
    <2>2. raft'[n] = [x EXCEPT !.next = w]
      BY <1>0
    <2> HIDE DEF x, w
    <2>3. IsNodeRow(raft'[n]) /\ raft'[n].log = x.log /\ raft'[n].commit = x.commit /\ raft'[n].term = x.term
      BY <2>1, <2>2 DEF IsNodeRow
    <2>4. LogSound(raft'[n])
      <3> DEFINE y == raft'[n]
      <3>1. y.log = x.log /\ y.commit = x.commit /\ y.term \in Nat /\ y.term >= x.term
        BY <2>1, <2>3
      <3> HIDE DEF y
      <3>2. LogSound(y)
        BY <2>1, <3>1, BooksKept2
      <3> QED BY <3>2 DEF y
    <2> QED BY <2>3, <2>4
  <1> QED BY <1>1, <1>2, NodeMovesInv


LEMMA LastOrBefore ==
    ASSUME NEW n \in Nat PROVE \A i \in 1..(n + 1) : i \in 1..n \/ i = n + 1
  OBVIOUS

LEMMA LogSoundIs ==
    ASSUME NEW y, NEW f \in Seq(EntryRow), NEW c \in Nat, NEW t \in Nat, y.log = f, y.commit = c, y.term = t,
           c <= Len(f),
           \A i \in 1..Len(f) : /\ f[i].index = i /\ f[i].term <= t
                                /\ \A k \in 1..i : f[k].term <= f[i].term
                                /\ f[i].committed <=> i <= c
    PROVE  LogSound(y)
  BY DEF LogSound

LEMMA BooksGrow ==
    ASSUME NEW x, LogSound(x), NEW e, e = [index |-> Len(x.log) + 1, term |-> x.term, committed |-> FALSE],
           NEW l, l = Append(x.log, e), NEW won \in BOOLEAN, NEW y, y.term = x.term,
           y.log = IF ~won THEN l
                   ELSE [i \in 1..Len(l) |-> IF l[i].index <= e.index THEN [l[i] EXCEPT !.committed = TRUE] ELSE l[i]],
           y.commit = IF won THEN e.index ELSE x.commit
    PROVE  LogSound(y)
  <1> DEFINE o == x.log
             n == Len(o)
  <1>1. /\ x.term \in Nat /\ o \in Seq(EntryRow) /\ n \in Nat /\ x.commit \in Nat /\ x.commit <= n
        /\ \A i \in 1..n : o[i].index = i /\ o[i].term <= x.term /\ (o[i].committed <=> i <= x.commit)
                           /\ \A k \in 1..i : o[k].term <= o[i].term
    BY LenProperties DEF LogSound
  <1>2. e \in EntryRow /\ e.index = n + 1 /\ e.term = x.term /\ e.committed = FALSE
    BY <1>1 DEF EntryRow
  <1> HIDE DEF o, n
  <1>3. /\ l \in Seq(EntryRow) /\ Len(l) = n + 1 /\ l[n + 1] = e /\ \A i \in 1..n : l[i] = o[i]
    BY <1>1, <1>2, AppendProperties DEF o, n
  <1>4. \A i \in 1..(n + 1) : l[i] \in EntryRow
    BY <1>1, <1>3, ElementOfSeq
  <1>a. n \in Nat
    BY <1>1
  <1>5. \A i \in 1..(n + 1) : i \in 1..n \/ i = n + 1
    BY <1>a, LastOrBefore
  <1>6. \A i \in 1..(n + 1) : l[i].index = i
    BY <1>1, <1>2, <1>3, <1>5
  <1>7. \A i \in 1..(n + 1) : l[i].term \in Nat /\ l[i].term <= x.term
    <2>1. \A i \in 1..(n + 1) : l[i].term \in Nat
      BY <1>4 DEF EntryRow
    <2>2. \A i \in 1..(n + 1) : l[i].term <= x.term
      BY <1>1, <1>2, <1>3, <1>5
    <2> QED BY <2>1, <2>2
  <1>8. \A i \in 1..(n + 1) : \A k \in 1..i : l[k].term <= l[i].term
    <2> TAKE i \in 1..(n + 1)
    <2> TAKE k \in 1..i
    <2>1. CASE i \in 1..n
      BY <1>1, <1>3, <2>1
    <2>2. CASE i = n + 1
      BY <1>1, <1>2, <1>3, <1>7, <2>2
    <2> QED BY <1>5, <2>1, <2>2
  <1>9. CASE ~won
    <2>1. y.log = l /\ y.commit = x.commit
      BY <1>9
    <2>2. \A i \in 1..(n + 1) : l[i].committed <=> i <= x.commit
      <3> TAKE i \in 1..(n + 1)
      <3>1. CASE i \in 1..n
        BY <1>1, <1>3, <3>1
      <3>2. CASE i = n + 1
        BY <1>1, <1>2, <1>3, <3>2
      <3> QED BY <1>5, <3>1, <3>2
    <2> QED BY <1>1, <1>3, <1>6, <1>7, <1>8, <2>1, <2>2 DEF LogSound
  <1>10. CASE won
    <2> DEFINE f == [i \in 1..Len(l) |-> IF l[i].index <= e.index THEN [l[i] EXCEPT !.committed = TRUE] ELSE l[i]]
    <2>0. y.log = f /\ y.commit = e.index
      BY <1>10, Zenon
    <2>1. y.log = f /\ y.commit = n + 1 /\ n + 1 \in Nat
      <3> HIDE DEF f
      <3> QED BY <1>1, <1>2, <2>0
    <2>a. \A i \in 1..(n + 1) : l[i].index <= e.index
      BY <1>1, <1>2, <1>6
    <2>b. 1..Len(l) = 1..(n + 1)
      BY <1>3
    <2>2. \A i \in 1..(n + 1) : f[i] = [l[i] EXCEPT !.committed = TRUE]
      BY <2>a, <2>b, Zenon
    <2>3. f = [i \in 1..(n + 1) |-> f[i]]
      BY <2>b, Zenon
    <2> HIDE DEF f
    <2>4. \A i \in 1..(n + 1) : f[i] \in EntryRow /\ f[i].index = l[i].index /\ f[i].term = l[i].term /\ f[i].committed = TRUE
      BY <1>4, <2>2 DEF EntryRow
    <2>5. f \in Seq(EntryRow) /\ Len(f) = n + 1
      <3>1. f \in [1..(n + 1) -> EntryRow]
        BY <2>3, <2>4
      <3>2. f \in Seq(EntryRow)
        BY <2>1, <3>1, SeqDef
      <3> QED BY <2>1, <3>1, <3>2, LenProperties
    <2>6. \A i \in 1..(n + 1) : f[i].index = i /\ f[i].term <= x.term
      BY <1>6, <1>7, <2>4
    <2>7. \A i \in 1..(n + 1) : \A k \in 1..i : f[k].term <= f[i].term
      <3> TAKE i \in 1..(n + 1)
      <3> TAKE k \in 1..i
      <3>1. k \in 1..(n + 1)
        BY <1>1
      <3> QED BY <1>8, <2>4, <3>1
    <2>8. \A i \in 1..(n + 1) : f[i].committed <=> i <= n + 1
      BY <1>1, <2>4
    <2> DEFINE c == n + 1
    <2>9. c \in Nat /\ c <= c /\ Len(f) = c /\ y.log = f /\ y.commit = c /\ x.term \in Nat
      BY <1>1, <2>1, <2>5
    <2>10. \A i \in 1..c : /\ f[i].index = i /\ f[i].term <= x.term
                            /\ \A k \in 1..i : f[k].term <= f[i].term
                            /\ f[i].committed <=> i <= c
      BY <2>6, <2>7, <2>8
    <2> HIDE DEF c
    <2> QED BY <2>5, <2>9, <2>10, LogSoundIs
  <1> QED BY <1>9, <1>10

LEMMA ClusterAppendInv == ASSUME RaftIInv, ClusterAppend PROVE RaftIInv'
  <1> DEFINE n == leaderId
             x == raft[n]
             e == [index |-> Len(x.log) + 1, term |-> x.term, committed |-> FALSE]
             l == Append(x.log, e)
             Won(acks) == /\ x.role = "leader" /\ \A p \in members \ {n} : x.next[p] # Absent
                          /\ Cardinality(acks) + 1 >= Needed
             L(won) == IF ~won THEN l
                       ELSE [i \in 1..Len(l) |-> IF l[i].index <= e.index THEN [l[i] EXCEPT !.committed = TRUE] ELSE l[i]]
  <1>0. raft = [m \in Ids |-> raft[m]] /\ UNCHANGED compacted
    BY DEF RaftIInv, ClusterAppend
  <1>1. \E won \in BOOLEAN : raft' = [raft EXCEPT ![n].log = L(won), ![n].commit = IF won THEN e.index ELSE @]
    <2>1. PICK acks \in Acks(n) : AppendEntry(n, acks)
      BY Zenon DEF ClusterAppend
    <2>2. raft' = [raft EXCEPT ![n].log = L(Won(acks)), ![n].commit = IF Won(acks) THEN e.index ELSE @]
      BY <2>1, Zenon DEF AppendEntry, NextIndex
    <2>3. Won(acks) \in BOOLEAN
      OBVIOUS
    <2> HIDE DEF Won
    <2> QED BY <2>2, <2>3, Zenon
  <1>2. PICK won \in BOOLEAN : raft' = [raft EXCEPT ![n].log = L(won), ![n].commit = IF won THEN e.index ELSE @]
    BY <1>1, Zenon
  <1> DEFINE K == L(won)
             C == IF won THEN e.index ELSE x.commit
  <1>3. ASSUME n \in Ids, n \notin compacted PROVE IsNodeRow(raft'[n]) /\ LogSound(raft'[n])
    <2>1. IsNodeRow(x) /\ LogSound(x)
      BY <1>3 DEF RaftIInv
    <2> DEFINE y1 == [x EXCEPT !.log = K]
               y2 == [y1 EXCEPT !.commit = C]
               z == [raft EXCEPT ![n] = y1]
    <2>2. raft' = [raft EXCEPT ![n] = y2]
      <3>1. [raft EXCEPT ![n].log = K] = z /\ z[n] = y1 /\ y1.commit = x.commit
        <4> HIDE DEF K
        <4> QED BY <1>0, <1>3, <2>1 DEF IsNodeRow
      <3>2. raft' = [z EXCEPT ![n].commit = IF won THEN e.index ELSE y1.commit]
        BY <1>2, <3>1, Zenon
      <3>3. raft' = [z EXCEPT ![n].commit = C]
        BY <3>1, <3>2, Zenon
      <3> HIDE DEF C, K
      <3>4. [z EXCEPT ![n].commit = C] = [raft EXCEPT ![n] = y2]
        <4>1. [z EXCEPT ![n].commit = C] = [z EXCEPT ![n] = [z[n] EXCEPT !.commit = C]]
          BY <1>0, <1>3
        <4>2. [z EXCEPT ![n].commit = C] = [z EXCEPT ![n] = y2]
          BY <3>1, <4>1, Zenon
        <4> HIDE DEF y1, y2
        <4>3. [z EXCEPT ![n] = y2] = [raft EXCEPT ![n] = y2]
          BY <1>0, <1>3
        <4> QED BY <4>2, <4>3
      <3> HIDE DEF y2, z
      <3> QED BY <3>3, <3>4
    <2> HIDE DEF y2
    <2>3. raft'[n] = y2
      BY <1>0, <1>3, <2>2
    <2> HIDE DEF x, K, C
    <2>4. IsNodeRow(y1) /\ y1.log = K /\ y1.term = x.term
      BY <2>1 DEF IsNodeRow
    <2> HIDE DEF y1
    <2>5. IsNodeRow(y2) /\ y2.log = K /\ y2.term = x.term /\ y2.commit = C
      BY <2>4 DEF IsNodeRow, y2
    <2>6. LogSound(y2)
      BY <2>1, <2>5, BooksGrow DEF K, C
    <2> QED BY <2>3, <2>5, <2>6
  <1>4. raft' = [m \in Ids |-> raft'[m]] /\ (\A m \in Ids : m # n => raft'[m] = raft[m])
    <2> HIDE DEF L, e, n
    <2> QED BY <1>0, <1>2
  <1> QED BY <1>0, <1>3, <1>4, NodeMovesInv

LEMMA RaftNextInv == RaftIInv /\ [RaftNext]_raftvars => RaftIInv'
  <1> SUFFICES ASSUME RaftIInv, [RaftNext]_raftvars PROVE RaftIInv'
    OBVIOUS
  <1>1. CASE UNCHANGED raftvars \/ PickLeader
    BY <1>1 DEF raftvars, PickLeader, RaftIInv
  <1>2. CASE ElectBegins \/ ClusterAppend
    BY <1>2, ElectBeginsInv, ClusterAppendInv
  <1>3. ASSUME NEW n \in Ids, StartElection(n) \/ VotesIn(n) PROVE RaftIInv'
    BY <1>3, StartElectionInv, VotesInInv
  <1>4. ASSUME NEW n \in Ids, AddNode(n) PROVE RaftIInv'
    BY <1>4, MembershipInv DEF AddNode
  <1>5. ASSUME NEW n \in Ids, NEW g \in Ids \cup {Newcomer}, RemoveNode(n, g) PROVE RaftIInv'
    BY <1>5, MembershipInv DEF RemoveNode
  <1>6. ASSUME NEW n \in Ids, NEW k \in 1..MaxEntries, Snapshot(n, k) PROVE RaftIInv'
    <2>1. PICK v : raft' = [raft EXCEPT ![n].log = v]
      BY <1>6, Zenon DEF Snapshot
    <2>2. compacted' = compacted \cup {n} /\ raft = [m \in Ids |-> raft[m]]
      BY <1>6 DEF Snapshot, RaftIInv
    <2>3. raft' = [m \in Ids |-> raft'[m]] /\ (\A m \in Ids : m # n => raft'[m] = raft[m])
      BY <2>1, <2>2
    <2> QED BY <2>2, <2>3, NodeMovesInv
  <1> QED BY <1>1, <1>2, <1>3, <1>4, <1>5, <1>6 DEF RaftNext

(* The replicated store.                                                   *)
LEMMA StoreNextInv == StoreIInv /\ [StoreNext]_replicas => StoreIInv'
  <1> SUFFICES ASSUME StoreIInv, [StoreNext]_replicas PROVE StoreIInv'
    OBVIOUS
  <1> DEFINE r == replicas
  <1>0. /\ r = [alive |-> r.alive, local |-> r.local, commit |-> r.commit]
        /\ r.local \in Nat /\ r.commit \in Nat /\ r.commit <= r.local
    BY DEF StoreIInv
  <1>1. CASE UNCHANGED replicas
    BY <1>1 DEF StoreIInv
  <1>2. CASE StoreWrite
    <2> DEFINE c == TryCommit(r.local + 1)
               n == r.local + 1
               q == [r EXCEPT !.local = n]
    <2>1. c \in Nat /\ c <= n /\ n \in Nat
      BY <1>0 DEF TryCommit
    <2>2. replicas' = [q EXCEPT !.commit = c]
      BY <1>0, <1>2 DEF StoreWrite
    <2> HIDE DEF c, n
    <2>3. q = [alive |-> r.alive, local |-> n, commit |-> r.commit]
      BY <1>0
    <2>4. replicas' = [alive |-> r.alive, local |-> n, commit |-> c]
      BY <2>2, <2>3
    <2> QED BY <2>1, <2>4 DEF StoreIInv
  <1>3. ASSUME NEW k, ReplicaMarked(k) PROVE StoreIInv'
    <2>1. replicas' = [alive |-> k, local |-> r.local, commit |-> r.commit]
      BY <1>0, <1>3 DEF ReplicaMarked
    <2> QED BY <1>0, <2>1 DEF StoreIInv
  <1> QED BY <1>1, <1>2, <1>3 DEF StoreNext


LEMMA StoreInitInv == ClusterInit => StoreIInv
  BY DEF ClusterInit, StoreIInv

-----------------------------------------------------------------------------
(* The account of GPU memory.                                              *)
LEMMA ShareAdds ==
    ASSUME NEW S, IsFiniteSet(S), NEW j, j \notin S
    PROVE  Share(S) \in Nat /\ Share(S \cup {j}) = Share(S) + Size(j)
  <1> DEFINE B == {k \in S : Size(k) = 2}
             C == {k \in S \cup {j} : Size(k) = 2}
  <1>1. IsFiniteSet(B) /\ Cardinality(B) \in Nat /\ Cardinality(S) \in Nat
    BY FS_Subset, FS_CardinalityType
  <1>2. Cardinality(S \cup {j}) = Cardinality(S) + 1
    BY FS_AddElement
  <1>3. Size(j) \in {1, 2}
    BY DEF Size
  <1>4. CASE Size(j) = 2
    <2>1. C = B \cup {j} /\ j \notin B
      BY <1>4
    <2>2. Cardinality(C) = Cardinality(B) + 1
      BY <1>1, <2>1, FS_AddElement
    <2> HIDE DEF B, C
    <2>3. Cardinality(S \cup {j}) + Cardinality(C) = Cardinality(S) + Cardinality(B) + Size(j)
      BY <1>1, <1>2, <1>4, <2>2
    <2> QED BY <1>1, <2>3 DEF Share, B, C
  <1>5. CASE Size(j) = 1
    <2>1. C = B
      BY <1>5
    <2> HIDE DEF B, C
    <2>3. Cardinality(S \cup {j}) + Cardinality(C) = Cardinality(S) + Cardinality(B) + Size(j)
      BY <1>1, <1>2, <1>5, <2>1
    <2> QED BY <1>1, <2>3 DEF Share, B, C
  <1> QED BY <1>3, <1>4, <1>5

LEMMA ShareOfNone == Share({}) = 0
  <1>1. {k \in {} : Size(k) = 2} = {} /\ Cardinality({}) = 0
    BY FS_EmptySet
  <1> QED BY <1>1 DEF Share

LEMMA PressureInitInv == ClusterInit => PressureIInv
  <1> SUFFICES ASSUME ClusterInit PROVE PressureIInv
    OBVIOUS
  <1>1. phase = [j \in GpuJobs |-> "idle"] /\ used = 0 /\ corrected = FALSE
    BY DEF ClusterInit
  <1>2. RunsNow = {}
    BY <1>1 DEF RunsNow
  <1>3. Share(RunsNow) = 0
    BY <1>2, ShareOfNone
  <1> QED BY <1>1, <1>3 DEF PressureIInv

LEMMA PressureNextInv == PressureIInv /\ [PressureNext]_pressurevars => PressureIInv'
  <1> SUFFICES ASSUME PressureIInv, [PressureNext]_pressurevars PROVE PressureIInv'
    OBVIOUS
  <1> DEFINE Phases == {"idle", "admitted", "running", "done"}
  <1>0. /\ phase \in [GpuJobs -> Phases] /\ used \in Nat /\ corrected \in BOOLEAN
        /\ ~corrected => used = Share(RunsNow)
        /\ \A j \in GpuJobs : phase[j] \in {"admitted", "running"} => Size(j) <= SaturationMax
    BY DEF PressureIInv
  <1>a. SaturationMax \in Nat /\ Vram \in Nat /\ IsFiniteSet(GpuJobs) /\ \A j : Size(j) \in Nat
    BY ClusterBounds DEF Size
  <1>b. IsFiniteSet(RunsNow)
    BY <1>a, FS_Subset DEF RunsNow
  <1>1. CASE UNCHANGED pressurevars \/ QueueTooDeep \/ CooldownTicks
    BY <1>1 DEF pressurevars, QueueTooDeep, CooldownTicks, PressureIInv, RunsNow
  <1>2. ASSUME NEW j \in GpuJobs, ShouldAdmit(j) PROVE PressureIInv'
    <2>0. UNCHANGED <<used, corrected>> /\ phase[j] = "idle"
      BY <1>2 DEF ShouldAdmit
    <2>1. CASE UNCHANGED phase
      BY <2>0, <2>1 DEF PressureIInv, RunsNow
    <2>2. CASE phase' = [phase EXCEPT ![j] = "admitted"] /\ ~(used + Size(j) > SaturationMax)
      <3>1. RunsNow' = RunsNow
        BY <1>0, <2>0, <2>2 DEF RunsNow
      <3>2. Size(j) <= SaturationMax
        BY <1>0, <1>a, <2>2
      <3>3. phase' \in [GpuJobs -> Phases] /\ \A k \in GpuJobs : phase'[k] \in {"admitted", "running"} => Size(k) <= SaturationMax
        BY <1>0, <2>2, <3>2
      <3> QED BY <1>0, <2>0, <3>1, <3>3 DEF PressureIInv
    <2> QED BY <1>2, <2>1, <2>2 DEF ShouldAdmit
  <1>3. ASSUME NEW j \in GpuJobs, RecordJobStart(j) PROVE PressureIInv'
    <2>1. /\ phase[j] = "admitted" /\ used' = used + Size(j) /\ UNCHANGED corrected
          /\ phase' = [phase EXCEPT ![j] = "running"]
      BY <1>3 DEF RecordJobStart
    <2>2. RunsNow' = RunsNow \cup {j} /\ j \notin RunsNow
      BY <1>0, <2>1 DEF RunsNow
    <2>3. Share(RunsNow \cup {j}) = Share(RunsNow) + Size(j)
      BY <1>b, <2>2, ShareAdds
    <2>4. ~corrected' => used' = Share(RunsNow')
      BY <1>0, <2>1, <2>2, <2>3
    <2>5. phase' \in [GpuJobs -> Phases] /\ \A k \in GpuJobs : phase'[k] \in {"admitted", "running"} => Size(k) <= SaturationMax
      BY <1>0, <2>1
    <2>6. used' \in Nat
      BY <1>0, <1>a, <2>1
    <2> QED BY <1>0, <2>1, <2>4, <2>5, <2>6 DEF PressureIInv, RunsNow, Share, Size
  <1>4. ASSUME NEW j \in GpuJobs, RecordJobComplete(j) PROVE PressureIInv'
    <2>1. /\ phase[j] = "running" /\ used' = VramReleased(j) /\ UNCHANGED corrected
          /\ phase' = [phase EXCEPT ![j] = "done"]
      BY <1>4 DEF RecordJobComplete
    <2>2. RunsNow = RunsNow' \cup {j} /\ j \notin RunsNow' /\ RunsNow' \subseteq RunsNow
      BY <1>0, <2>1 DEF RunsNow
    <2>3. IsFiniteSet(RunsNow')
      BY <1>b, <2>2, FS_Subset
    <2>4. Share(RunsNow') \in Nat /\ Share(RunsNow' \cup {j}) = Share(RunsNow') + Size(j)
      BY <2>2, <2>3, ShareAdds
    <2>5. Share(RunsNow) = Share(RunsNow') + Size(j)
      BY <2>2, <2>4, Zenon
    <2>6. ~corrected' => used' = Share(RunsNow')
      BY <1>0, <1>a, <2>1, <2>4, <2>5 DEF VramReleased
    <2>7. phase' \in [GpuJobs -> Phases] /\ \A k \in GpuJobs : phase'[k] \in {"admitted", "running"} => Size(k) <= SaturationMax
      BY <1>0, <2>1
    <2>8. used' \in Nat
      BY <1>0, <1>a, <2>1 DEF VramReleased
    <2> QED BY <1>0, <2>1, <2>6, <2>7, <2>8 DEF PressureIInv, RunsNow, Share, Size
  <1>5. ASSUME NEW measured \in {0, Vram}, UpdateGpuVram(measured) PROVE PressureIInv'
    BY <1>0, <1>5, <1>a DEF UpdateGpuVram, PressureIInv
  <1> QED BY <1>1, <1>2, <1>3, <1>4, <1>5 DEF PressureNext

LEMMA MemoryIsAccounted == PressureIInv => MemoryAccounted
  <1> SUFFICES ASSUME PressureIInv, ~corrected PROVE MemoryAccounted
    BY DEF MemoryAccounted
  <1> DEFINE A == {j \in GpuJobs : phase[j] = "admitted"}
             U == RunsNow \cup A
  <1>1. used = Share(RunsNow) /\ \A j \in U : Size(j) <= SaturationMax
    BY DEF PressureIInv, RunsNow
  <1>2. SaturationMax \in Nat /\ IsFiniteSet(GpuJobs) /\ \A j : Size(j) \in Nat
    BY ClusterBounds DEF Size
  <1>3. IsFiniteSet(U) /\ IsFiniteSet({})
    BY <1>2, FS_Subset, FS_EmptySet DEF RunsNow
  <1>4. ASSUME NEW j \in U, U = {j} PROVE Share(RunsNow) + Share(A) <= SaturationMax
    <2>1. Share({} \cup {j}) = Share({}) + Size(j)
      BY <1>3, ShareAdds
    <2>2. Share({j}) = Size(j)
      <3>1. {} \cup {j} = {j}
        OBVIOUS
      <3> QED BY <1>2, <2>1, <3>1, ShareOfNone
    <2>3. RunsNow \cap A = {}
      BY DEF RunsNow
    <2>4. (RunsNow = {j} /\ A = {}) \/ (RunsNow = {} /\ A = {j})
      BY <1>4, <2>3
    <2> HIDE DEF A, U
    <2>5. Size(j) \in Nat /\ Size(j) <= SaturationMax
      BY <1>1, <1>2
    <2>6. Share(RunsNow) + Share(A) = Size(j)
      BY <2>2, <2>4, <2>5, ShareOfNone
    <2> QED BY <2>5, <2>6
  <1>5. ASSUME U = {} PROVE Share(RunsNow) + Share(A) <= SaturationMax
    <2>1. RunsNow = {} /\ A = {}
      BY <1>5
    <2> HIDE DEF A
    <2>2. Share(RunsNow) = 0 /\ Share(A) = 0
      BY <2>1, ShareOfNone
    <2> QED BY <1>2, <2>2
  <1>6. ASSUME Cardinality(U) <= 1 PROVE Share(RunsNow) + Share(A) <= SaturationMax
    <2> HIDE DEF U
    <2>1. Cardinality(U) \in Nat
      BY <1>3, FS_CardinalityType
    <2>2. Cardinality(U) = 0 \/ Cardinality(U) = 1
      BY <1>6, <2>1
    <2>3. U = {} \/ \E j : U = {j}
      BY <1>3, <2>2, FS_EmptySet, FS_Singleton
    <2> QED BY <1>4, <1>5, <2>3
  <1> QED BY <1>1, <1>6 DEF MemoryAccounted, RunsNow

LEMMA BooksAreRight == RaftIInv => RaftBooksRight
  <1> SUFFICES ASSUME RaftIInv, NEW n \in Ids, n \notin compacted, NEW i \in 1..Len(raft[n].log)
               PROVE  LET l == raft[n].log
                      IN  /\ l[i].index = i /\ l[i].term <= raft[n].term
                          /\ \A k \in 1..i : l[k].term <= l[i].term
                          /\ l[i].committed <=> i <= raft[n].commit
    BY DEF RaftBooksRight, Untruncated
  <1> DEFINE x == raft[n]
             l == x.log
  <1>1. LogSound(x)
    BY DEF RaftIInv
  <1>2. l[i].index = i /\ l[i].term <= x.term /\ \A k \in 1..i : l[k].term <= l[i].term
    BY <1>1 DEF LogSound
  <1>3. l[i].committed <=> i <= x.commit
    BY <1>1 DEF LogSound
  <1> QED BY <1>2, <1>3


-----------------------------------------------------------------------------
(* The event logs.  A tick belongs to one life of the process: the rows of *)
(* a life, committed or left open by a failed commit, and the ticks its    *)
(* callers hold are all different.                                         *)
OpenRows == {opened[i] : i \in 1..Len(opened)}
AllRows == Rows \cup OpenRows
Ticked(j) == writer[j].pc = "ticked"

LogTypes ==
    /\ log \in Seq(Row) /\ opened \in Seq(Row) /\ ticks \in 0..MaxEvents /\ life \in 1..MaxLives
    /\ writer \in [EJobs -> [pc : {"idle", "ticked"}, status : JobEvents \cup {"unknown"}, tick : Nat]]
    /\ acked \in [EJobs -> JobEvents \cup {"unknown"}] /\ badcommits \in Nat

TicksInv ==
    /\ \A r \in AllRows : r.life <= life /\ (r.life = life => r.tick <= ticks)
    /\ \A r, q \in AllRows : r.life = q.life /\ r.tick = q.tick => r = q

WritersInv ==
    \A j \in EJobs : Ticked(j) =>
        /\ writer[j].status \in JobEvents /\ writer[j].tick \in 1..ticks
        /\ \A r \in AllRows : r.life = life => r.tick # writer[j].tick
        /\ \A k \in EJobs : Ticked(k) /\ k # j => writer[k].tick # writer[j].tick

CleanInv ==
    badcommits = 0 =>
        /\ OpenRows = {}
        /\ \A j \in EJobs : Ticked(j) =>
              \A r \in Rows : r.life = life /\ r.job = j => r.tick < writer[j].tick
        /\ \A j \in EJobs : Undisturbed(j) => Rebuilt(j) = {acked[j]}

CountedInv ==
    /\ stored \in Seq(Nat) /\ number = Len(stored)
    /\ \A i \in 1..Len(stored) : stored[i] = i

EventIInv == LogTypes /\ TicksInv /\ WritersInv /\ CleanInv /\ CountedInv


RangeS(s) == {s[i] : i \in 1..Len(s)}

LEMMA RangeJoins ==
    ASSUME NEW s \in Seq(Row), NEW t \in Seq(Row)
    PROVE  s \o t \in Seq(Row) /\ RangeS(s \o t) = RangeS(s) \cup RangeS(t)
  <1> DEFINE u == s \o t
             m == Len(s)
             n == Len(t)
  <1>1. m \in Nat /\ n \in Nat
    BY LenProperties
  <1>2. u \in Seq(Row) /\ Len(u) = m + n /\ \A i \in 1..(m + n) : u[i] = IF i <= m THEN s[i] ELSE t[i - m]
    BY ConcatProperties
  <1> HIDE DEF u, m, n
  <1>3. \A i \in 1..m : i \in 1..(m + n) /\ u[i] = s[i]
    BY <1>1, <1>2
  <1>4. \A i \in 1..n : m + i \in 1..(m + n) /\ u[m + i] = t[i]
    <2> TAKE i \in 1..n
    <2>1. m + i \in 1..(m + n) /\ ~(m + i <= m) /\ (m + i) - m = i
      BY <1>1
    <2>2. u[m + i] = t[(m + i) - m]
      BY <1>2, <2>1
    <2> QED BY <2>1, <2>2
  <1>5. \A i \in 1..(m + n) : (i \in 1..m /\ u[i] = s[i]) \/ (i - m \in 1..n /\ u[i] = t[i - m])
    <2> TAKE i \in 1..(m + n)
    <2>1. i \in 1..m \/ (~(i <= m) /\ i - m \in 1..n)
      BY <1>1
    <2> QED BY <1>1, <1>2, <2>1
  <1>6. \A x : x \in RangeS(u) <=> x \in RangeS(s) \/ x \in RangeS(t)
    <2> TAKE x
    <2>1. ASSUME x \in RangeS(u) PROVE x \in RangeS(s) \/ x \in RangeS(t)
      <3>1. PICK i \in 1..(m + n) : x = u[i]
        BY <1>2, <2>1 DEF RangeS
      <3> QED BY <1>5, <3>1 DEF RangeS, m, n
    <2>2. ASSUME x \in RangeS(s) PROVE x \in RangeS(u)
      <3>1. PICK i \in 1..m : x = s[i]
        BY <2>2 DEF RangeS, m
      <3> QED BY <1>2, <1>3, <3>1 DEF RangeS
    <2>3. ASSUME x \in RangeS(t) PROVE x \in RangeS(u)
      <3>1. PICK i \in 1..n : x = t[i]
        BY <2>3 DEF RangeS, n
      <3> QED BY <1>2, <1>4, <3>1 DEF RangeS
    <2> QED BY <2>1, <2>2, <2>3
  <1> QED BY <1>2, <1>6 DEF u

LEMMA RangeOfOne ==
    ASSUME NEW r \in Row PROVE <<r>> \in Seq(Row) /\ RangeS(<<r>>) = {r}
  <1>1. Len(<<r>>) = 1 /\ <<r>>[1] = r /\ 1..1 = {1}
    OBVIOUS
  <1>2. RangeS(<<r>>) = {<<r>>[i] : i \in {1}}
    BY <1>1 DEF RangeS
  <1> QED BY <1>1, <1>2

LEMMA RangeAppends ==
    ASSUME NEW s \in Seq(Row), NEW r \in Row
    PROVE  Append(s, r) \in Seq(Row) /\ RangeS(Append(s, r)) = RangeS(s) \cup {r}
  <1>1. Append(s, r) = s \o <<r>>
    BY AppendIsConcat
  <1> QED BY <1>1, RangeJoins, RangeOfOne, Zenon

LEMMA RangeOfNone == <<>> \in Seq(Row) /\ RangeS(<<>>) = {}
  <1>1. Len(<<>>) = 0 /\ 1..0 = {}
    BY EmptySeq
  <1> QED BY <1>1, EmptySeq DEF RangeS

LEMMA RangesAre == Rows = RangeS(log) /\ OpenRows = RangeS(opened)
  BY DEF Rows, OpenRows, RangeS

LEMMA RangesWillBe == Rows' = RangeS(log') /\ OpenRows' = RangeS(opened')
  BY DEF Rows, OpenRows, RangeS

LEMMA RowsAreRows ==
    LogTypes => \A r \in AllRows : r \in Row /\ r.tick \in Nat /\ r.tick \in 1..MaxEvents /\ r.life \in Nat
  <1> SUFFICES ASSUME LogTypes, NEW r \in AllRows
               PROVE  r \in Row /\ r.tick \in Nat /\ r.tick \in 1..MaxEvents /\ r.life \in Nat
    OBVIOUS
  <1>1. log \in Seq(Row) /\ opened \in Seq(Row)
    BY DEF LogTypes
  <1>2. (\E i \in 1..Len(log) : r = log[i]) \/ (\E i \in 1..Len(opened) : r = opened[i])
    BY DEF AllRows, Rows, OpenRows
  <1>3. r \in Row
    BY <1>1, <1>2, ElementOfSeq
  <1>4. r.tick \in 1..MaxEvents /\ r.life \in 1..MaxLives
    BY <1>3 DEF Row
  <1> QED BY <1>3, <1>4, EventBounds

LEMMA EventInitInv == EventInit => EventIInv
  <1> SUFFICES ASSUME EventInit PROVE EventIInv
    OBVIOUS
  <1>0. /\ log = <<>> /\ opened = <<>> /\ ticks = 0 /\ life = 1 /\ badcommits = 0
        /\ writer = [j \in EJobs |-> NoCommand] /\ acked = [j \in EJobs |-> "unknown"]
        /\ stored = <<>> /\ number = 0
    BY DEF EventInit
  <1>1. Rows = {} /\ OpenRows = {} /\ AllRows = {}
    BY <1>0, RangeOfNone, RangesAre DEF AllRows
  <1>2. LogTypes
    BY <1>0, RangeOfNone, EventBounds DEF LogTypes, NoCommand
  <1>3. TicksInv
    BY <1>1 DEF TicksInv
  <1>4. \A j \in EJobs : ~Ticked(j)
    BY <1>0 DEF Ticked, NoCommand
  <1>5. WritersInv
    BY <1>4 DEF WritersInv
  <1>6. \A j \in EJobs : Rebuilt(j) = {acked[j]}
    BY <1>0, <1>1 DEF Rebuilt
  <1>7. CleanInv
    BY <1>1, <1>4, <1>6 DEF CleanInv
  <1>8. CountedInv
    BY <1>0, EmptySeq DEF CountedInv
  <1> QED BY <1>2, <1>3, <1>5, <1>7, <1>8 DEF EventIInv

(* A caller takes a tick nobody has.                                       *)
LEMMA TakeTickInv == ASSUME EventIInv, NEW j \in EJobs, NEW s \in JobEvents, TakeTick(j, s) PROVE EventIInv'
  <1> DEFINE w == [pc |-> "ticked", status |-> s, tick |-> ticks + 1]
  <1>0. /\ ticks < MaxEvents /\ ticks' = ticks + 1 /\ writer' = [writer EXCEPT ![j] = w]
        /\ UNCHANGED <<log, opened, acked, life, badcommits, stored, number>>
    BY DEF TakeTick
  <1>t. LogTypes
    BY DEF EventIInv
  <1>a. ticks \in Nat /\ MaxEvents \in Nat /\ life \in Nat
    BY <1>t, EventBounds DEF LogTypes
  <1>1. LogTypes'
    <2>1. ticks' \in 0..MaxEvents /\ w.tick \in Nat
      BY <1>0, <1>a
    <2>2. writer' \in [EJobs -> [pc : {"idle", "ticked"}, status : JobEvents \cup {"unknown"}, tick : Nat]]
      BY <1>0, <1>t, <2>1 DEF LogTypes
    <2> QED BY <1>0, <1>t, <2>1, <2>2 DEF LogTypes
  <1>2. UNCHANGED <<Rows, OpenRows, AllRows>>
    BY <1>0 DEF Rows, OpenRows, AllRows
  <1>3. \A r \in AllRows : r \in Row /\ r.tick \in Nat
    BY <1>t, RowsAreRows
  <1>4. \A r \in AllRows : r.life = life => r.tick <= ticks
    BY DEF EventIInv, TicksInv
  <1>5. TicksInv'
    <2>1. \A r \in AllRows : r.life <= life /\ (r.life = life => r.tick <= ticks + 1)
      BY <1>3, <1>4, <1>a DEF EventIInv, TicksInv
    <2>2. \A r, q \in AllRows : r.life = q.life /\ r.tick = q.tick => r = q
      BY DEF EventIInv, TicksInv
    <2> QED BY <1>0, <1>2, <2>1, <2>2 DEF TicksInv
  <1>6. /\ \A k \in EJobs : k # j => writer'[k] = writer[k]
        /\ writer'[j].pc = "ticked" /\ writer'[j].status = s /\ writer'[j].tick = ticks + 1
    BY <1>0, <1>t DEF LogTypes
  <1>7. \A k \in EJobs : Ticked(k) => /\ writer[k].status \in JobEvents /\ writer[k].tick \in 1..ticks
                                      /\ \A r \in AllRows : r.life = life => r.tick # writer[k].tick
                                      /\ \A i \in EJobs : Ticked(i) /\ i # k => writer[i].tick # writer[k].tick
    BY DEF EventIInv, WritersInv
  <1>8. \A r \in AllRows : r.life = life => r.tick < ticks + 1
    BY <1>3, <1>4, <1>a
  <1>9. WritersInv'
    <2>1. \A k \in EJobs : k # j => (Ticked(k)' <=> Ticked(k))
      BY <1>6 DEF Ticked
    <2>2. ASSUME NEW k \in EJobs, Ticked(k)'
          PROVE  /\ writer'[k].status \in JobEvents /\ writer'[k].tick \in 1..(ticks + 1)
                 /\ \A r \in AllRows : r.life = life => r.tick # writer'[k].tick
                 /\ \A i \in EJobs : Ticked(i)' /\ i # k => writer'[i].tick # writer'[k].tick
      <3>1. CASE k = j
        <4>1. \A i \in EJobs : Ticked(i)' /\ i # k => writer'[i].tick \in 1..ticks
          BY <1>6, <1>7, <2>1, <3>1
        <4>2. \A r \in AllRows : r.life = life => r.tick # ticks + 1
          BY <1>3, <1>8, <1>a
        <4>3. \A x \in 1..ticks : x # ticks + 1
          BY <1>a
        <4>4. ticks + 1 \in 1..(ticks + 1)
          BY <1>a
        <4> QED BY <1>6, <3>1, <4>1, <4>2, <4>3, <4>4
      <3>2. CASE k # j
        <4>1. Ticked(k) /\ writer'[k] = writer[k]
          BY <1>6, <2>1, <2>2, <3>2
        <4>2. writer[k].tick \in 1..ticks
          BY <1>7, <4>1
        <4>3. writer[k].tick \in 1..(ticks + 1) /\ writer[k].tick # ticks + 1
          BY <1>a, <4>2
        <4> QED BY <1>6, <1>7, <2>1, <4>1, <4>3
      <3> QED BY <3>1, <3>2
    <2> QED BY <1>0, <1>2, <2>2 DEF WritersInv
  <1>10. CleanInv'
    <2> SUFFICES ASSUME badcommits' = 0 PROVE CleanInv'
      BY DEF CleanInv
    <2>0. badcommits = 0
      BY <1>0
    <2>1. /\ OpenRows = {} /\ \A k \in EJobs : Undisturbed(k) => Rebuilt(k) = {acked[k]}
          /\ \A k \in EJobs : Ticked(k) => \A r \in Rows : r.life = life /\ r.job = k => r.tick < writer[k].tick
      BY <2>0 DEF EventIInv, CleanInv
    <2>2. \A k \in EJobs : (Undisturbed(k)' <=> Undisturbed(k)) /\ Rebuilt(k)' = Rebuilt(k)
      BY <1>2 DEF Undisturbed, Rebuilt
    <2>3. ASSUME NEW k \in EJobs, Ticked(k)', NEW r \in Rows, r.life = life, r.job = k PROVE r.tick < writer'[k].tick
      <3>1. CASE k = j
        BY <1>6, <1>8, <2>3, <3>1 DEF AllRows
      <3>2. CASE k # j
        BY <1>6, <2>1, <2>3, <3>2 DEF Ticked
      <3> QED BY <3>1, <3>2
    <2> QED BY <1>0, <1>2, <2>1, <2>2, <2>3 DEF CleanInv
  <1>11. CountedInv'
    BY <1>0 DEF EventIInv, CountedInv
  <1> QED BY <1>1, <1>5, <1>9, <1>10, <1>11 DEF EventIInv


(* The row of a caller lands, committed or left open.                      *)
LEMMA RowLands ==
    ASSUME EventIInv, NEW j \in EJobs, Ticked(j), AllRows' = AllRows \cup {RowOf(j)},
           writer' = [writer EXCEPT ![j] = NoCommand], UNCHANGED <<ticks, life>>
    PROVE  TicksInv' /\ WritersInv'
  <1> DEFINE n == RowOf(j)
  <1>t. LogTypes
    BY DEF EventIInv
  <1>0. n.job = j /\ n.status = writer[j].status /\ n.tick = writer[j].tick /\ n.life = life
    BY DEF RowOf
  <1> HIDE DEF n
  <1>1. /\ writer[j].tick \in 1..ticks /\ \A r \in AllRows : r.life = life => r.tick # writer[j].tick
        /\ \A k \in EJobs : Ticked(k) /\ k # j => writer[k].tick # writer[j].tick
    BY DEF EventIInv, WritersInv
  <1>2. /\ \A r \in AllRows : r.life <= life /\ (r.life = life => r.tick <= ticks)
        /\ \A r, q \in AllRows : r.life = q.life /\ r.tick = q.tick => r = q
    BY DEF EventIInv, TicksInv
  <1>3. AllRows' = AllRows \cup {n} /\ ticks \in Nat /\ life \in Nat
    BY <1>t, EventBounds DEF n, LogTypes
  <1>4. n.life <= life /\ n.tick <= ticks
    BY <1>0, <1>1, <1>3
  <1>5. TicksInv'
    <2>1. \A r \in AllRows' : r.life <= life /\ (r.life = life => r.tick <= ticks)
      BY <1>2, <1>3, <1>4
    <2>2. \A r, q \in AllRows' : r.life = q.life /\ r.tick = q.tick => r = q
      BY <1>0, <1>1, <1>2, <1>3
    <2> QED BY <2>1, <2>2 DEF TicksInv
  <1>6. \A k \in EJobs : Ticked(k)' => k # j /\ Ticked(k) /\ writer'[k] = writer[k]
    BY <1>t DEF LogTypes, Ticked, NoCommand
  <1>7. ASSUME NEW k \in EJobs, Ticked(k)'
        PROVE  /\ writer'[k].status \in JobEvents /\ writer'[k].tick \in 1..ticks
               /\ \A r \in AllRows' : r.life = life => r.tick # writer'[k].tick
               /\ \A i \in EJobs : Ticked(i)' /\ i # k => writer'[i].tick # writer'[k].tick
    <2>1. k # j /\ Ticked(k) /\ writer'[k] = writer[k]
      BY <1>6, <1>7
    <2>2. /\ writer[k].status \in JobEvents /\ writer[k].tick \in 1..ticks
          /\ \A r \in AllRows : r.life = life => r.tick # writer[k].tick
          /\ \A i \in EJobs : Ticked(i) /\ i # k => writer[i].tick # writer[k].tick
      BY <2>1 DEF EventIInv, WritersInv
    <2>3. writer[j].tick # writer[k].tick
      BY <1>1, <2>1
    <2> QED BY <1>0, <1>3, <1>6, <2>1, <2>2, <2>3
  <1> QED BY <1>5, <1>7 DEF WritersInv

LEMMA RowOfIsRow == ASSUME EventIInv, NEW j \in EJobs, Ticked(j) PROVE RowOf(j) \in Row
  <1>1. writer[j].status \in JobEvents /\ writer[j].tick \in 1..ticks
    BY DEF EventIInv, WritersInv
  <1>2. ticks \in 0..MaxEvents /\ life \in 1..MaxLives
    BY DEF EventIInv, LogTypes
  <1>3. writer[j].tick \in 1..MaxEvents
    BY <1>1, <1>2, EventBounds
  <1> QED BY <1>1, <1>2, <1>3 DEF RowOf, Row

LEMMA WritersTyped ==
    ASSUME LogTypes, NEW j \in EJobs, writer' = [writer EXCEPT ![j] = NoCommand]
    PROVE  writer' \in [EJobs -> [pc : {"idle", "ticked"}, status : JobEvents \cup {"unknown"}, tick : Nat]]
  <1>1. NoCommand \in [pc : {"idle", "ticked"}, status : JobEvents \cup {"unknown"}, tick : Nat]
    BY DEF NoCommand
  <1> QED BY <1>1 DEF LogTypes

LEMMA AppendEventInv == ASSUME EventIInv, NEW j \in EJobs, AppendEvent(j) PROVE EventIInv'
  <1> DEFINE n == RowOf(j)
  <1>0. /\ Ticked(j) /\ log' = log \o opened \o <<n>> /\ opened' = <<>>
        /\ acked' = [acked EXCEPT ![j] = writer[j].status] /\ writer' = [writer EXCEPT ![j] = NoCommand]
        /\ UNCHANGED <<ticks, life, badcommits, stored, number>>
    BY DEF AppendEvent, Ticked
  <1>t. LogTypes
    BY DEF EventIInv
  <1>1. n \in Row /\ n.job = j /\ n.status = writer[j].status /\ n.tick = writer[j].tick /\ n.life = life
    BY <1>0, RowOfIsRow DEF RowOf
  <1> HIDE DEF n
  <1>2. log' \in Seq(Row) /\ opened' \in Seq(Row) /\ Rows' = AllRows \cup {n} /\ OpenRows' = {}
    <2>1. log \in Seq(Row) /\ opened \in Seq(Row)
      BY <1>t DEF LogTypes
    <2>2. log \o opened \in Seq(Row) /\ RangeS(log \o opened) = AllRows
      BY <2>1, RangeJoins, RangesAre DEF AllRows
    <2>3. <<n>> \in Seq(Row) /\ RangeS(<<n>>) = {n}
      BY <1>1, RangeOfOne
    <2>4. log' \in Seq(Row) /\ RangeS(log') = AllRows \cup {n}
      BY <1>0, <2>2, <2>3, RangeJoins
    <2> QED BY <1>0, <2>4, RangeOfNone, RangesWillBe
  <1>3. AllRows' = AllRows \cup {n}
    BY <1>2 DEF AllRows
  <1>4. TicksInv' /\ WritersInv'
    BY <1>0, <1>3, RowLands DEF n
  <1>5. writer[j].status \in JobEvents
    BY <1>0 DEF EventIInv, WritersInv
  <1>6. LogTypes'
    <2>1. acked' \in [EJobs -> JobEvents \cup {"unknown"}]
      BY <1>0, <1>5, <1>t DEF LogTypes
    <2>2. writer' \in [EJobs -> [pc : {"idle", "ticked"}, status : JobEvents \cup {"unknown"}, tick : Nat]]
      BY <1>0, <1>t, WritersTyped
    <2> QED BY <1>0, <1>2, <1>t, <2>1, <2>2 DEF LogTypes
  <1>7. CleanInv'
    <2> SUFFICES ASSUME badcommits' = 0 PROVE CleanInv'
      BY DEF CleanInv
    <2>0. badcommits = 0
      BY <1>0
    <2>1. /\ OpenRows = {} /\ \A k \in EJobs : Undisturbed(k) => Rebuilt(k) = {acked[k]}
          /\ \A k \in EJobs : Ticked(k) => \A r \in Rows : r.life = life /\ r.job = k => r.tick < writer[k].tick
      BY <2>0 DEF EventIInv, CleanInv
    <2>2. Rows' = Rows \cup {n} /\ \A r \in Rows : r.tick \in Nat
      BY <1>2, <1>t, <2>1, RowsAreRows DEF AllRows
    <2>3. \A k \in EJobs : Ticked(k)' => k # j /\ Ticked(k) /\ writer'[k] = writer[k]
      BY <1>0, <1>t DEF LogTypes, Ticked, NoCommand
    <2>4. \A k \in EJobs : Ticked(k)' => \A r \in Rows' : r.life = life /\ r.job = k => r.tick < writer'[k].tick
      BY <1>1, <2>1, <2>2, <2>3
    <2>5. ASSUME NEW k \in EJobs, k # j, Undisturbed(k)' PROVE Rebuilt(k)' = {acked'[k]}
      <3>1. {r \in Rows' : r.job = k} = {r \in Rows : r.job = k}
        BY <1>1, <2>2, <2>5
      <3>2. Rebuilt(k)' = Rebuilt(k)
        BY <3>1, Zenon DEF Rebuilt
      <3>3. Undisturbed(k)
        BY <2>2, <2>5 DEF Undisturbed
      <3>4. acked'[k] = acked[k]
        BY <1>0, <1>t, <2>5 DEF LogTypes
      <3> QED BY <2>1, <3>2, <3>3, <3>4
    <2>6. ASSUME Undisturbed(j)' PROVE Rebuilt(j)' = {acked'[j]}
      <3> DEFINE mine == {r \in Rows' : r.job = j}
                 last == {r \in mine : \A q \in mine : q.tick <= r.tick}
      <3>1. life = 1 /\ \A r \in Rows : r.job = j => r.life = life
        BY <1>1, <2>2, <2>6 DEF Undisturbed
      <3>2. \A r \in Rows : r.job = j => r.tick < n.tick
        BY <1>0, <1>1, <2>1, <3>1
      <3>3. n \in mine /\ \A r \in mine : r = n \/ (r \in Rows /\ r.job = j)
        BY <1>1, <2>2
      <3>4. n.tick \in Nat
        BY <1>1, EventBounds DEF Row
      <3>5. \A r \in mine : r # n => r.tick \in Nat /\ r.tick < n.tick
        BY <2>2, <3>2, <3>3
      <3> HIDE DEF mine
      <3>6. last = {n}
        BY <3>3, <3>4, <3>5
      <3>7. mine # {}
        BY <3>3
      <3>8. {r.status : r \in last} = {n.status}
        BY <3>6
      <3>9. Rebuilt(j)' = {r.status : r \in last}
        BY <3>7 DEF Rebuilt, mine
      <3>10. acked'[j] = n.status
        BY <1>0, <1>1, <1>t DEF LogTypes
      <3> QED BY <3>8, <3>9, <3>10
    <2> QED BY <1>0, <1>2, <2>4, <2>5, <2>6 DEF CleanInv
  <1>8. CountedInv'
    BY <1>0 DEF EventIInv, CountedInv
  <1> QED BY <1>4, <1>6, <1>7, <1>8 DEF EventIInv

LEMMA AppendRaisesInv == ASSUME EventIInv, NEW j \in EJobs, AppendRaises(j) PROVE EventIInv'
  <1> DEFINE n == RowOf(j)
  <1>0. /\ Ticked(j) /\ opened' = Append(opened, n) /\ badcommits' = badcommits + 1
        /\ writer' = [writer EXCEPT ![j] = NoCommand]
        /\ UNCHANGED <<log, ticks, acked, life, stored, number>>
    BY DEF AppendRaises, Ticked
  <1>t. LogTypes
    BY DEF EventIInv
  <1>1. n \in Row
    BY <1>0, RowOfIsRow
  <1> HIDE DEF n
  <1>2. opened' \in Seq(Row) /\ AllRows' = AllRows \cup {n}
    <2>1. opened \in Seq(Row)
      BY <1>t DEF LogTypes
    <2>2. opened' \in Seq(Row) /\ OpenRows' = OpenRows \cup {n}
      BY <1>0, <1>1, <2>1, RangeAppends, RangesAre, RangesWillBe
    <2>3. Rows' = Rows
      BY <1>0 DEF Rows
    <2> QED BY <2>2, <2>3 DEF AllRows
  <1>3. TicksInv' /\ WritersInv'
    BY <1>0, <1>2, RowLands DEF n
  <1>4. badcommits' \in Nat /\ badcommits' # 0
    BY <1>0, <1>t DEF LogTypes
  <1>5. LogTypes'
    BY <1>0, <1>2, <1>4, <1>t, WritersTyped DEF LogTypes
  <1>6. CleanInv'
    BY <1>4 DEF CleanInv
  <1>7. CountedInv'
    BY <1>0 DEF EventIInv, CountedInv
  <1> QED BY <1>3, <1>5, <1>6, <1>7 DEF EventIInv

(* The greatest number of the table is its length.                         *)
LEMMA LastNumberIsLen ==
    ASSUME CountedInv PROVE Max({0} \cup {stored[i] : i \in 1..Len(stored)}) = Len(stored)
  <1> DEFINE n == Len(stored)
             S == {0} \cup {stored[i] : i \in 1..n}
  <1>1. n \in Nat /\ \A i \in 1..n : stored[i] = i
    BY LenProperties DEF CountedInv
  <1> HIDE DEF n
  <1>2. S = 0..n
    <2>1. \A i \in 0..n : i = 0 \/ i \in 1..n
      BY <1>1
    <2>2. \A i : i \in S <=> i = 0 \/ i \in 1..n
      BY <1>1
    <2>3. 0 \in 0..n /\ \A i \in 1..n : i \in 0..n
      BY <1>1
    <2> HIDE DEF S
    <2> QED BY <2>1, <2>2, <2>3
  <1> HIDE DEF S
  <1>3. n \in S /\ \A y \in S : n >= y
    BY <1>1, <1>2
  <1>4. \A x \in S : (\A y \in S : x >= y) => x = n
    BY <1>1, <1>2, <1>3
  <1>5. Max(S) = n
    <2>1. Max(S) \in S /\ \A y \in S : Max(S) >= y
      BY <1>3, Zenon DEF Max
    <2> QED BY <1>4, <2>1
  <1> QED BY <1>5, Zenon DEF S, n

LEMMA EventsRestartInv == ASSUME EventIInv, EventsRestart PROVE EventIInv'
  <1>0. /\ life < MaxLives /\ life' = life + 1 /\ ticks' = 0 /\ opened' = <<>>
        /\ writer' = [j \in EJobs |-> NoCommand] /\ UNCHANGED <<log, acked, badcommits, stored>>
    BY DEF EventsRestart
  <1>t. LogTypes
    BY DEF EventIInv
  <1>a. life \in 1..MaxLives /\ MaxLives \in Nat /\ MaxEvents \in Nat
    BY <1>t, EventBounds DEF LogTypes
  <1>1. LogTypes'
    <2>1. life' \in 1..MaxLives /\ ticks' \in 0..MaxEvents
      BY <1>0, <1>a
    <2> QED BY <1>0, <1>t, <2>1, RangeOfNone DEF LogTypes, NoCommand
  <1>2. Rows' = Rows /\ OpenRows' = {} /\ AllRows' \subseteq AllRows
    BY <1>0, RangesWillBe, RangesAre, RangeOfNone DEF AllRows
  <1>3. \A j \in EJobs : ~Ticked(j)'
    BY <1>0 DEF Ticked, NoCommand
  <1>4. TicksInv'
    <2>1. \A r \in AllRows : r.life \in Nat /\ r.life <= life
      BY <1>t, RowsAreRows DEF EventIInv, TicksInv
    <2>2. \A r \in AllRows : r.life <= life + 1 /\ r.life # life + 1
      BY <1>a, <2>1
    <2>3. \A r, q \in AllRows : r.life = q.life /\ r.tick = q.tick => r = q
      BY DEF EventIInv, TicksInv
    <2> QED BY <1>0, <1>2, <2>2, <2>3 DEF TicksInv
  <1>5. WritersInv'
    BY <1>3 DEF WritersInv
  <1>6. CleanInv'
    <2> SUFFICES ASSUME badcommits' = 0 PROVE CleanInv'
      BY DEF CleanInv
    <2>1. \A k \in EJobs : Undisturbed(k) => Rebuilt(k) = {acked[k]}
      BY <1>0 DEF EventIInv, CleanInv
    <2>2. \A k \in EJobs : (Undisturbed(k)' <=> Undisturbed(k)) /\ Rebuilt(k)' = Rebuilt(k)
      BY <1>2 DEF Undisturbed, Rebuilt
    <2> QED BY <1>0, <1>2, <1>3, <2>1, <2>2 DEF CleanInv
  <1>7. CountedInv'
    <2>1. CountedInv
      BY DEF EventIInv
    <2>2. number' = Len(stored)
      BY <2>1, LastNumberIsLen, Zenon DEF EventsRestart
    <2> QED BY <1>0, <2>1, <2>2 DEF CountedInv
  <1> QED BY <1>1, <1>4, <1>5, <1>6, <1>7 DEF EventIInv

LEMMA NumberedInv == ASSUME EventIInv, AppendNumbered \/ AppendRolledBack PROVE EventIInv'
  <1>0. UNCHANGED <<log, opened, ticks, writer, acked, life>>
    BY DEF AppendNumbered, AppendRolledBack
  <1>t. LogTypes /\ CountedInv
    BY DEF EventIInv
  <1>1. UNCHANGED <<Rows, OpenRows, AllRows>> /\ \A j : (Ticked(j)' <=> Ticked(j))
    BY <1>0 DEF Rows, OpenRows, AllRows, Ticked
  <1>2. badcommits' \in Nat /\ (badcommits' = 0 => badcommits = 0)
    <2>1. badcommits \in Nat /\ (badcommits' = badcommits \/ badcommits' = badcommits + 1)
      BY <1>t DEF AppendNumbered, AppendRolledBack, LogTypes
    <2> QED BY <2>1
  <1>3. LogTypes' /\ TicksInv' /\ WritersInv'
    BY <1>0, <1>1, <1>2 DEF EventIInv, LogTypes, TicksInv, WritersInv
  <1>4. CleanInv'
    <2> SUFFICES ASSUME badcommits' = 0 PROVE CleanInv'
      BY DEF CleanInv
    <2>1. /\ OpenRows = {} /\ \A k \in EJobs : Undisturbed(k) => Rebuilt(k) = {acked[k]}
          /\ \A k \in EJobs : Ticked(k) => \A r \in Rows : r.life = life /\ r.job = k => r.tick < writer[k].tick
      BY <1>2 DEF EventIInv, CleanInv
    <2>2. \A k \in EJobs : (Undisturbed(k)' <=> Undisturbed(k)) /\ Rebuilt(k)' = Rebuilt(k)
      BY <1>1 DEF Undisturbed, Rebuilt
    <2> QED BY <1>0, <1>1, <2>1, <2>2 DEF CleanInv
  <1>5. CountedInv'
    <2>1. CASE AppendNumbered
      <3> DEFINE n == Len(stored)
      <3>1. /\ stored \in Seq(Nat) /\ n \in Nat /\ number = n /\ \A i \in 1..n : stored[i] = i
        BY <1>t, LenProperties DEF CountedInv
      <3>2. stored' = Append(stored, n + 1) /\ number' = n + 1 /\ n + 1 \in Nat
        BY <2>1, <3>1 DEF AppendNumbered, NumberAfter
      <3>3. /\ stored' \in Seq(Nat) /\ Len(stored') = n + 1 /\ stored'[n + 1] = n + 1
            /\ \A i \in 1..n : stored'[i] = stored[i]
        BY <3>1, <3>2, AppendProperties
      <3> HIDE DEF n
      <3>4. \A i \in 1..(n + 1) : i \in 1..n \/ i = n + 1
        BY <3>1, LastOrBefore
      <3>5. \A i \in 1..(n + 1) : stored'[i] = i
        BY <3>1, <3>3, <3>4
      <3> QED BY <3>2, <3>3, <3>5 DEF CountedInv
    <2>2. CASE AppendRolledBack
      BY <1>t, <2>2 DEF CountedInv, AppendRolledBack, NumberAfter
    <2> QED BY <2>1, <2>2
  <1> QED BY <1>3, <1>4, <1>5 DEF EventIInv

LEMMA EventNextInv == EventIInv /\ [EventNext]_evars => EventIInv'
  <1> SUFFICES ASSUME EventIInv, [EventNext]_evars PROVE EventIInv'
    OBVIOUS
  <1>1. CASE UNCHANGED evars
    <2>1. UNCHANGED <<log, opened, ticks, writer, acked, life, badcommits, stored, number>>
      BY <1>1 DEF evars
    <2>2. \A k \in EJobs : (Undisturbed(k)' <=> Undisturbed(k)) /\ Rebuilt(k)' = Rebuilt(k)
      BY <2>1 DEF Undisturbed, Rebuilt, Rows
    <2>3. LogTypes' /\ TicksInv' /\ WritersInv' /\ CountedInv'
      BY <2>1 DEF EventIInv, LogTypes, TicksInv, WritersInv, CountedInv, AllRows, Rows, OpenRows, Ticked
    <2>4. CleanInv'
      BY <2>1, <2>2 DEF EventIInv, CleanInv, Rows, OpenRows, Ticked
    <2> QED BY <2>3, <2>4 DEF EventIInv
  <1> QED BY <1>1, TakeTickInv, AppendEventInv, AppendRaisesInv, EventsRestartInv, NumberedInv, Zenon DEF EventNext


-----------------------------------------------------------------------------
(* The pages of a replay.                                                  *)
LastOfPage(t) == Max({r.tick : r \in PageFrom(t)})
RestFrom(t) == {r \in Rows : t <= r.tick}

LEMMA RowsFinite == ASSUME log \in Seq(Row) PROVE IsFiniteSet(Rows)
  <1> DEFINE n == Len(log)
             I == 1..n
  <1>1. n \in Nat /\ log \in [I -> Row]
    BY LenProperties
  <1>2. IsFiniteSet(I)
    BY <1>1, FS_Interval
  <1>3. log \in [I -> Rows] /\ \A r \in Rows : \E i \in I : log[i] = r
    BY <1>1 DEF Rows
  <1>4. log \in Surjection(I, Rows)
    BY <1>3 DEF Surjection
  <1> QED BY <1>2, <1>4, FS_Surjection

(* A row before a row of the page is on the page, and where rows are left  *)
(* the page is not empty.                                                  *)
LEMMA PagesAreFull ==
    ASSUME log \in Seq(Row), \A r \in Rows : r.tick \in 1..MaxEvents, NEW t \in 1..(MaxEvents + 1)
    PROVE  /\ PageFrom(t) \subseteq RestFrom(t)
           /\ \A r \in PageFrom(t), q \in RestFrom(t) : q.tick <= r.tick => q \in PageFrom(t)
           /\ RestFrom(t) # {} => PageFrom(t) # {}
  <1>0. IsFiniteSet(Rows) /\ MaxEvents \in Nat /\ Page \in Nat \ {0} /\ t \in Nat
    BY RowsFinite, EventBounds
  <1>1. PageFrom(t) \subseteq RestFrom(t)
    BY DEF PageFrom, RestFrom
  <1>2. ASSUME NEW r \in PageFrom(t), NEW q \in RestFrom(t), q.tick <= r.tick PROVE q \in PageFrom(t)
    <2> DEFINE A == {s \in Rows : t <= s.tick /\ s.tick < q.tick}
               B == {s \in Rows : t <= s.tick /\ s.tick < r.tick}
    <2>1. r \in Rows /\ q \in Rows /\ t <= q.tick /\ RankOf(r, t) < Page
      BY <1>2 DEF PageFrom, RestFrom
    <2>2. r.tick \in Nat /\ q.tick \in Nat /\ \A s \in Rows : s.tick \in Nat
      BY <1>0, <2>1
    <2>3. A \subseteq B
      BY <1>2, <2>2
    <2>4. IsFiniteSet(B) /\ IsFiniteSet(A)
      BY <1>0, FS_Subset
    <2>5. Cardinality(A) <= Cardinality(B) /\ Cardinality(A) \in Nat /\ Cardinality(B) \in Nat
      BY <2>3, <2>4, FS_Subset, FS_CardinalityType
    <2>6. RankOf(q, t) = Cardinality(A) /\ RankOf(r, t) = Cardinality(B)
      BY DEF RankOf
    <2> HIDE DEF A, B
    <2>7. RankOf(q, t) < Page
      BY <1>0, <2>1, <2>5, <2>6
    <2> QED BY <2>1, <2>7 DEF PageFrom
  <1>3. ASSUME NEW q \in RestFrom(t) PROVE PageFrom(t) # {}
    <2> DEFINE T == {s.tick : s \in RestFrom(t)}
    <2>1. T \in SUBSET Nat /\ T # {}
      <3>1. \A s \in RestFrom(t) : s.tick \in Nat
        BY <1>0 DEF RestFrom
      <3> QED BY <1>3, <3>1
    <2>2. PICK x \in T : \A y \in T : x <= y
      BY <2>1, LeastNumber
    <2>3. PICK r \in RestFrom(t) : r.tick = x
      BY <2>2
    <2>4. r \in Rows /\ t <= r.tick /\ \A s \in Rows : t <= s.tick => r.tick <= s.tick
      BY <2>2, <2>3 DEF RestFrom
    <2>5. \A s \in Rows : s.tick \in Nat
      BY <1>0
    <2>6. {s \in Rows : t <= s.tick /\ s.tick < r.tick} = {}
      BY <2>4, <2>5
    <2>7. RankOf(r, t) = 0
      BY <2>6, FS_EmptySet DEF RankOf
    <2>8. RankOf(r, t) < Page
      BY <1>0, <2>7
    <2> QED BY <2>4, <2>8 DEF PageFrom
  <1> QED BY <1>1, <1>2, <1>3

(* The rows from a tick on are the page and the rows behind its last tick. *)
LEMMA PageAndRest ==
    ASSUME log \in Seq(Row), \A r \in Rows : r.tick \in 1..MaxEvents, NEW t \in 1..(MaxEvents + 1), PageFrom(t) # {}
    PROVE  /\ LastOfPage(t) + 1 \in 1..(MaxEvents + 1) /\ t < LastOfPage(t) + 1
           /\ RestFrom(t) = PageFrom(t) \cup RestFrom(LastOfPage(t) + 1)
  <1> DEFINE P == PageFrom(t)
             T == {r.tick : r \in P}
             m == LastOfPage(t)
  <1>0. MaxEvents \in Nat /\ t \in Nat
    BY EventBounds
  <1>1. /\ P \subseteq RestFrom(t) /\ \A r \in P, q \in RestFrom(t) : q.tick <= r.tick => q \in P
    BY PagesAreFull
  <1>2. P \subseteq Rows /\ \A r \in P : t <= r.tick
    BY <1>1 DEF RestFrom
  <1>p. P # {}
    OBVIOUS
  <1> HIDE DEF P
  <1>3. T \in SUBSET (0..MaxEvents) /\ T # {}
    <2>1. \A r \in P : r.tick \in 0..MaxEvents
      BY <1>0, <1>2
    <2> QED BY <1>p, <2>1
  <1>4. PICK x \in T : \A y \in T : y <= x
    BY <1>0, <1>3, GreatestNumber
  <1>5. \E z \in T : \A y \in T : z >= y
    BY <1>0, <1>3, <1>4
  <1>6. m \in T /\ \A y \in T : m >= y
    <2>1. m = Max(T)
      BY Zenon DEF LastOfPage, P
    <2>2. Max(T) \in T /\ \A y \in T : Max(T) >= y
      BY <1>5, Zenon DEF Max
    <2> QED BY <2>1, <2>2
  <1>7. PICK r \in P : r.tick = m
    BY <1>6
  <1> HIDE DEF m, T
  <1>8. m \in 1..MaxEvents /\ t <= m
    BY <1>2, <1>7
  <1>9. m + 1 \in 1..(MaxEvents + 1) /\ t < m + 1
    BY <1>0, <1>8
  <1>10. RestFrom(t) = P \cup RestFrom(m + 1)
    <2>1. \A q \in Rows : q.tick \in Nat
      BY <1>0
    <2>2. \A q \in RestFrom(t) : q \in P \/ q \in RestFrom(m + 1)
      <3> TAKE q \in RestFrom(t)
      <3>1. q \in Rows /\ q.tick \in Nat
        BY <2>1 DEF RestFrom
      <3>2. q.tick <= m \/ m + 1 <= q.tick
        BY <1>8, <3>1
      <3> QED BY <1>1, <1>7, <3>1, <3>2 DEF RestFrom
    <2>3. \A q \in RestFrom(m + 1) : q \in RestFrom(t)
      <3> TAKE q \in RestFrom(m + 1)
      <3>1. q \in Rows /\ q.tick \in Nat /\ m + 1 <= q.tick
        BY <2>1 DEF RestFrom
      <3>2. t <= q.tick
        BY <1>0, <1>8, <3>1
      <3> QED BY <3>1, <3>2 DEF RestFrom
    <2> QED BY <1>1, <2>2, <2>3
  <1> QED BY <1>9, <1>10 DEF m, P

(* Whatever the size of a page, a replay from the first tick returns every *)
(* row.                                                                    *)
LEMMA ReplayIsWhole ==
    ASSUME log \in Seq(Row), \A r \in Rows : r.tick \in 1..MaxEvents
    PROVE  ReplayFrom[1] = Rows
  <1> DEFINE D == 1..(MaxEvents + 1)
             step(f, t) == IF PageFrom(t) = {} THEN {} ELSE PageFrom(t) \cup f[LastOfPage(t) + 1]
             eq(f) == f = [t \in D |-> step(f, t)]
             g == [t \in D |-> RestFrom(t)]
  <1>0. MaxEvents \in Nat /\ 1 \in D
    BY EventBounds
  <1>1. ASSUME NEW t \in D, PageFrom(t) # {}
        PROVE  LastOfPage(t) + 1 \in D /\ t < LastOfPage(t) + 1 /\ RestFrom(t) = PageFrom(t) \cup RestFrom(LastOfPage(t) + 1)
    BY <1>1, PageAndRest
  <1>2. ASSUME NEW t \in D, PageFrom(t) = {} PROVE RestFrom(t) = {}
    BY <1>2, PagesAreFull
  <1> HIDE DEF D
  <1>3. eq(g)
    <2>1. \A t \in D : step(g, t) = RestFrom(t)
      <3> TAKE t \in D
      <3>1. CASE PageFrom(t) = {}
        BY <1>2, <3>1
      <3>2. CASE PageFrom(t) # {}
        BY <1>1, <3>2
      <3> QED BY <3>1, <3>2
    <2> HIDE DEF step
    <2> QED BY <2>1
  <1>4. ReplayFrom = CHOOSE f : eq(f)
    BY Zenon DEF ReplayFrom, LastOfPage, D
  <1>5. eq(ReplayFrom)
    <2>1. eq(CHOOSE f : eq(f))
      <3> HIDE DEF eq
      <3> QED BY <1>3, Zenon
    <2> HIDE DEF eq
    <2> QED BY <1>4, <2>1, Zenon
  <1>6. \A t \in D : ReplayFrom[t] = step(ReplayFrom, t)
    <2> DEFINE h == ReplayFrom
    <2>1. h = [t \in D |-> step(h, t)]
      BY <1>5, Zenon
    <2> HIDE DEF step, h
    <2>2. \A t \in D : h[t] = step(h, t)
      BY <2>1
    <2> QED BY <2>2 DEF h
  <1>7. \A t \in D : ReplayFrom[t] = RestFrom(t)
    <2> DEFINE W == {t \in D : ReplayFrom[t] # RestFrom(t)}
    <2>1. SUFFICES ASSUME W # {} PROVE FALSE
      OBVIOUS
    <2>2. W \in SUBSET (0..(MaxEvents + 1)) /\ MaxEvents + 1 \in Nat
      BY <1>0 DEF D
    <2>3. PICK t \in W : \A y \in W : y <= t
      <3> HIDE DEF W
      <3> QED BY <2>1, <2>2, GreatestNumber
    <2>4. t \in D /\ ReplayFrom[t] # RestFrom(t)
      BY <2>3
    <2>5. CASE PageFrom(t) = {}
      BY <1>2, <1>6, <2>4, <2>5
    <2>6. CASE PageFrom(t) # {}
      <3> DEFINE u == LastOfPage(t) + 1
      <3>1. u \in D /\ t < u /\ RestFrom(t) = PageFrom(t) \cup RestFrom(u)
        BY <1>1, <2>4, <2>6
      <3>2. ReplayFrom[t] = PageFrom(t) \cup ReplayFrom[u]
        BY <1>6, <2>4, <2>6
      <3> HIDE DEF u
      <3>3. ~(u <= t)
        BY <1>0, <2>4, <3>1 DEF D
      <3>4. u \notin W
        <4> HIDE DEF W
        <4> QED BY <2>3, <3>3
      <3>5. ReplayFrom[u] = RestFrom(u)
        BY <3>1, <3>4
      <3> QED BY <2>4, <3>1, <3>2, <3>5
    <2> QED BY <2>5, <2>6
  <1>8. RestFrom(1) = Rows
    <2>1. \A r \in Rows : 1 <= r.tick
      BY <1>0
    <2> QED BY <2>1 DEF RestFrom
  <1> QED BY <1>0, <1>7, <1>8

LEMMA EventLogIsSafe == EventIInv => EventLogInv
  <1> SUFFICES ASSUME EventIInv PROVE EventLogInv
    OBVIOUS
  <1>1. log \in Seq(Row) /\ \A r \in Rows : r.tick \in 1..MaxEvents
    <2>1. LogTypes
      BY DEF EventIInv
    <2> QED BY <2>1, RowsAreRows DEF LogTypes, AllRows
  <1>2. ReplayFrom[1] = Rows
    BY <1>1, ReplayIsWhole
  <1>3. /\ \A r, q \in Rows : r.life = q.life /\ r.tick = q.tick => r = q
        /\ badcommits = 0 => \A j \in EJobs : Undisturbed(j) => Rebuilt(j) = {acked[j]}
    BY DEF EventIInv, TicksInv, CleanInv, AllRows
  <1>4. NumbersAreGapless
    <2>1. stored \in [1..Len(stored) -> Nat] /\ \A i \in 1..Len(stored) : stored[i] = i
      BY LenProperties DEF EventIInv, CountedInv
    <2> QED BY <2>1 DEF NumbersAreGapless
  <1> QED BY <1>2, <1>3, <1>4 DEF EventLogInv, ReplayIsFaithful

LEMMA ClusterIsSafe == ClusterIInv => ClusterInv
  BY BooksAreRight, MemoryIsAccounted DEF ClusterIInv, ClusterInv, StoreIInv
-----------------------------------------------------------------------------
(* The state store.                                                        *)

(* The rows of the facade; the others are checkpoints.                     *)
ByFacade(i) == entries[i].kind # "snapshot"

(* The numbers of the facade's rows grow, although the other counter       *)
(* numbers rows of the same table and both are set anew at a restart.      *)
LayerInv ==
    /\ \A i \in 1..Len(entries) : ByFacade(i) => entries[i].seq <= counter["layer"]
    /\ \A i, k \in 1..Len(entries) :
          i < k /\ ByFacade(i) /\ ByFacade(k) => entries[i].seq < entries[k].seq

(* What the facade recorded last of a job is in the last of the job's rows *)
(* that is not a checkpoint.                                               *)
ToldInv ==
    \A j \in SSJobs : told[j] # "unknown" =>
        \E i \in 1..Len(entries) :
            /\ entries[i].job = j /\ entries[i].kind = told[j]
            /\ \A k \in 1..Len(entries) : ByFacade(k) /\ entries[k].job = j => k <= i

(* A whole file holds the dictionary, which has the job being saved.       *)
SnapsInv ==
    /\ ~snapfile.torn => snapfile.at = snaps
    /\ saving.pc # "idle" => snaps[saving.job] # NoSnap
    /\ CheckpointHasSnapshot

(* An import has the exported rows up to the one it is at, numbered anew.  *)
Exported(order) == [i \in 1..Len(entries) |-> entries[order[i]]]
CopyInv ==
    /\ copy.pc # "none" => entries # <<>> /\ \E order \in Ordering : copy.todo = Exported(order)
    /\ copy.pc \in {"none", "exported"} => copy.rows = <<>>
    /\ copy.pc = "importing" => Len(copy.rows) < Len(copy.todo)
    /\ copy.pc = "done" => Len(copy.rows) = Len(copy.todo)
    /\ Len(copy.rows) <= Len(copy.todo)
    /\ \A i \in 1..Len(copy.rows) : copy.rows[i] = [copy.todo[i] EXCEPT !.seq = i]

Copies == [pc : {"none", "exported", "importing", "broken", "done"},
           todo : Seq(LogEntry), rows : Seq(LogEntry)]
StoreTypes == StateStoreTypeOK /\ copy \in Copies

StatesIInv == StoreTypes /\ LayerInv /\ ToldInv /\ SnapsInv /\ CopyInv

LEMMA StageKindsAre ==
    StageKinds = {"submitted", "queued", "dispatched", "locked", "started", "released",
                  "completed", "failed", "cancelled"}
  <1>1. Len(Stages) = 9 /\ 1..9 = {1, 2, 3, 4, 5, 6, 7, 8, 9}
    BY DEF Stages
  <1>2. StageKinds = {Stages[i] : i \in {1, 2, 3, 4, 5, 6, 7, 8, 9}}
    BY <1>1 DEF StageKinds
  <1> QED BY <1>2 DEF Stages

(* The last of a set of rows is the one every other is before, and there   *)
(* is one.                                                                 *)
LEMMA LastIs ==
    ASSUME NEW lines \in Seq(LogEntry), NEW found \in SUBSET (1..Len(lines)), NEW i \in found,
           \A k \in found \ {i} : Before(lines, k, i)
    PROVE  LastOf(lines, found) = i
  <1>1. \A k \in found : lines[k].seq \in Nat /\ k \in Nat
    <2>1. \A k \in 1..Len(lines) : lines[k] \in LogEntry
      BY ElementOfSeq
    <2> QED BY <2>1, StateStoreBounds DEF LogEntry
  <1>2. \A k \in found : (\A m \in found \ {k} : Before(lines, m, k)) => k = i
    BY <1>1 DEF Before
  <1> QED BY <1>2 DEF LastOf

LEMMA LastExists ==
    ASSUME NEW lines \in Seq(LogEntry), NEW found \in SUBSET (1..Len(lines)), found # {}
    PROVE  /\ LastOf(lines, found) \in found
           /\ \A k \in found \ {LastOf(lines, found)} : Before(lines, k, LastOf(lines, found))
  <1>0. MaxLogged \in Nat /\ Len(lines) \in Nat
    BY StateStoreBounds, LenProperties
  <1>1. \A k \in found : lines[k].seq \in 0..MaxLogged /\ k \in 0..Len(lines)
    <2>1. \A k \in 1..Len(lines) : lines[k] \in LogEntry
      BY ElementOfSeq
    <2> QED BY <1>0, <2>1 DEF LogEntry
  <1> DEFINE S == {lines[k].seq : k \in found}
  <1>2. PICK m \in S : \A y \in S : y <= m
    <2>1. S \in SUBSET (0..MaxLogged) /\ S # {}
      BY <1>1
    <2> HIDE DEF S
    <2> QED BY <1>0, <2>1, GreatestNumber
  <1> DEFINE T == {k \in found : lines[k].seq = m}
  <1>3. PICK i \in T : \A k \in T : k <= i
    <2>1. T \in SUBSET (0..Len(lines)) /\ T # {}
      BY <1>1, <1>2
    <2> HIDE DEF T, S
    <2> QED BY <1>0, <2>1, GreatestNumber
  <1>4. ASSUME NEW k \in found \ {i} PROVE Before(lines, k, i)
    <2>1. lines[k].seq \in S /\ i \in found /\ lines[i].seq = m
      BY <1>3
    <2>2. lines[k].seq <= m /\ (lines[k].seq = m => k <= i)
      BY <1>2, <1>3, <2>1
    <2>3. lines[k].seq \in Nat /\ m \in Nat /\ k \in Nat /\ i \in Nat /\ k # i
      BY <1>0, <1>1, <2>1
    <2> HIDE DEF S, T
    <2> QED BY <2>1, <2>2, <2>3 DEF Before
  <1>5. LastOf(lines, found) = i
    BY <1>3, <1>4, LastIs
  <1> QED BY <1>3, <1>4, <1>5

LEMMA SaidIsKnown ==
    ASSUME NEW lines \in Seq(LogEntry), NEW found \in SUBSET (1..Len(lines)),
           \A k \in found : lines[k].kind \in StateKinds
    PROVE  LastSays(lines, found) \in KnownStatuses
  <1>1. CASE found = {}
    BY <1>1 DEF LastSays, KnownStatuses
  <1>2. CASE found # {}
    <2>1. lines[LastOf(lines, found)].kind \in StateKinds
      BY <1>2, LastExists
    <2> QED BY <1>2, <2>1 DEF LastSays, StatusOf, StateKinds, KnownStatuses
  <1> QED BY <1>1, <1>2

LEMMA StatesInitInv == StateStoreInit => StatesIInv
  <1> SUFFICES ASSUME StateStoreInit PROVE StatesIInv
    OBVIOUS
  <1>1. MaxLogged \in Nat /\ MaxSaves \in Nat /\ MaxStoreDeaths \in Nat /\ \E j : j \in SSJobs
    BY StateStoreBounds
  <1>2. NotSaving \in [pc : {"idle", "truncated", "written"}, job : SSJobs,
                       status : KnownStatuses \cup {NoSnap}]
    BY <1>1 DEF NotSaving
  <1>3. entries = <<>> /\ Len(entries) = 0 /\ copy = NoCopy /\ saving.pc = "idle"
    BY DEF StateStoreInit, NotSaving
  <1>4. StoreTypes
    <2>1. snaps \in Snapshots
      BY DEF StateStoreInit, Snapshots
    <2>2. copy \in Copies /\ copy.pc = "none" /\ copy.todo \in Seq(LogEntry) /\ copy.rows \in Seq(LogEntry)
      BY <1>3 DEF NoCopy, Copies
    <2>3. entries \in Seq(LogEntry) /\ Len(entries) <= MaxLogged
      BY <1>1, <1>3
    <2>4. snapfile \in [torn : BOOLEAN, at : Snapshots] /\ wiped \in BOOLEAN
      BY <2>1 DEF StateStoreInit
    <2>5. /\ counter \in [Openers -> 0..MaxLogged] /\ taken \in 0..MaxSaves
          /\ storedeaths \in 0..MaxStoreDeaths /\ told \in [SSJobs -> StageKinds \cup {"unknown"}]
      BY <1>1 DEF StateStoreInit
    <2>6. saving \in [pc : {"idle", "truncated", "written"}, job : SSJobs,
                      status : KnownStatuses \cup {NoSnap}]
      BY <1>2 DEF StateStoreInit
    <2> QED BY <2>1, <2>2, <2>3, <2>4, <2>5, <2>6 DEF StoreTypes, StateStoreTypeOK
  <1>5. LayerInv /\ ToldInv /\ SnapsInv /\ CopyInv
    BY <1>3 DEF StateStoreInit, LayerInv, ToldInv, SnapsInv, CopyInv, CheckpointHasSnapshot, NoCopy
  <1> QED BY <1>4, <1>5 DEF StatesIInv

(* A row committed behind the others.                                      *)
LEMMA RowAdded ==
    ASSUME entries \in Seq(LogEntry), NEW row \in LogEntry, entries' = Append(entries, row)
    PROVE  /\ Len(entries) \in Nat /\ entries' \in Seq(LogEntry) /\ Len(entries') = Len(entries) + 1
           /\ \A i \in 1..Len(entries) : entries'[i] = entries[i] /\ i \in 1..Len(entries')
           /\ entries'[Len(entries')] = row /\ Len(entries') \in 1..Len(entries')
           /\ \A i \in 1..Len(entries') : i \in 1..Len(entries) \/ i = Len(entries')
  <1>1. Len(entries) \in Nat
    BY LenProperties
  <1>2. /\ entries' \in Seq(LogEntry) /\ Len(entries') = Len(entries) + 1
        /\ \A i \in 1..Len(entries) : entries'[i] = entries[i]
        /\ entries'[Len(entries) + 1] = row
    BY AppendProperties
  <1> QED BY <1>1, <1>2

(* An export under way has copied entries that rest.                       *)
LEMMA CopyRests ==
    ASSUME CopyInv, UNCHANGED <<entries, copy>> PROVE CopyInv'
  <1>1. Ordering' = Ordering
    BY DEF Ordering, Before
  <1>2. \A order : Exported(order)' = Exported(order)
    BY DEF Exported
  <1> QED BY <1>1, <1>2 DEF CopyInv

LEMMA NothingCopied ==
    ASSUME CopyInv, copy.pc = "none", copy' = copy PROVE CopyInv'
  BY DEF CopyInv

LEMMA RecordInv ==
    ASSUME StatesIInv, copy.pc = "none", NEW j \in SSJobs, NEW kind \in StageKinds,
           NEW own \in BOOLEAN, Record(j, kind, own)
    PROVE  StatesIInv'
  <1> DEFINE n == NextSeq("layer")
             row == [job |-> j, kind |-> kind, own |-> own, seq |-> n]
  <1>0. /\ Len(entries) < MaxLogged /\ n <= MaxLogged /\ entries' = Append(entries, row)
        /\ counter' = [counter EXCEPT !["layer"] = n] /\ told' = [told EXCEPT ![j] = kind]
        /\ UNCHANGED <<snaps, snapfile, saving, wiped, copy, storedeaths, taken>>
    BY DEF Record
  <1>t. StateStoreTypeOK /\ copy \in Copies
    BY DEF StatesIInv, StoreTypes
  <1>a. MaxLogged \in Nat /\ counter["layer"] \in Nat /\ n = counter["layer"] + 1
    BY <1>t, StateStoreBounds DEF StateStoreTypeOK, Openers, NextSeq
  <1>b. n \in 1..MaxLogged
    BY <1>0, <1>a
  <1>1. row \in LogEntry
    BY <1>b DEF LogEntry
  <1>2. entries \in Seq(LogEntry)
    BY <1>t DEF StateStoreTypeOK
  <1>3. row.kind # "snapshot" /\ row.job = j /\ row.kind = kind /\ row.seq = n
    BY StageKindsAre
  <1> HIDE DEF n, row
  <1>4. /\ Len(entries) \in Nat /\ entries' \in Seq(LogEntry) /\ Len(entries') = Len(entries) + 1
        /\ \A i \in 1..Len(entries) : entries'[i] = entries[i] /\ i \in 1..Len(entries')
        /\ entries'[Len(entries')] = row /\ Len(entries') \in 1..Len(entries')
        /\ \A i \in 1..Len(entries') : i \in 1..Len(entries) \/ i = Len(entries')
    BY <1>0, <1>1, <1>2, RowAdded
  <1>5. counter'["layer"] = n /\ counter' \in [Openers -> 0..MaxLogged]
    BY <1>0, <1>b, <1>t DEF StateStoreTypeOK, Openers
  <1>6. StoreTypes'
    <2>1. told' \in [SSJobs -> StageKinds \cup {"unknown"}]
      BY <1>0, <1>t DEF StateStoreTypeOK
    <2>2. Len(entries') <= MaxLogged
      BY <1>0, <1>4, <1>a
    <2> QED BY <1>0, <1>4, <1>5, <1>t, <2>1, <2>2 DEF StoreTypes, StateStoreTypeOK, Snapshots
  <1>7. \A i \in 1..Len(entries) : entries[i].seq \in Nat
    <2>1. \A i \in 1..Len(entries) : entries[i] \in LogEntry
      BY <1>2, ElementOfSeq
    <2> QED BY <2>1, <1>a DEF LogEntry
  <1>8. LayerInv'
    <2>0. LayerInv
      BY DEF StatesIInv
    <2>1. \A i \in 1..Len(entries) : ByFacade(i)' => entries'[i].seq < n /\ ByFacade(i)
      BY <1>4, <1>7, <1>a, <2>0 DEF LayerInv, ByFacade
    <2>2. \A i \in 1..Len(entries') : ByFacade(i)' => entries'[i].seq <= n
      BY <1>3, <1>4, <1>7, <1>a, <2>1
    <2>3. ASSUME NEW i \in 1..Len(entries'), NEW k \in 1..Len(entries'), i < k, ByFacade(i)', ByFacade(k)'
          PROVE  entries'[i].seq < entries'[k].seq
      <3>1. i \in 1..Len(entries)
        BY <1>4, <2>3
      <3>2. CASE k \in 1..Len(entries)
        BY <1>4, <2>0, <2>1, <2>3, <3>1, <3>2 DEF LayerInv
      <3>3. CASE k = Len(entries')
        BY <1>3, <1>4, <2>1, <2>3, <3>1, <3>3
      <3> QED BY <1>4, <3>2, <3>3
    <2> QED BY <1>5, <2>2, <2>3 DEF LayerInv
  <1>9. ToldInv'
    <2> SUFFICES ASSUME NEW h \in SSJobs, told'[h] # "unknown"
                 PROVE  \E i \in 1..Len(entries') :
                            /\ entries'[i].job = h /\ entries'[i].kind = told'[h]
                            /\ \A k \in 1..Len(entries') : ByFacade(k)' /\ entries'[k].job = h => k <= i
      BY DEF ToldInv
    <2>1. CASE h = j
      <3>1. told'[h] = kind
        BY <1>0, <1>t, <2>1 DEF StateStoreTypeOK
      <3>2. \A k \in 1..Len(entries') : k <= Len(entries')
        BY <1>4
      <3> QED BY <1>3, <1>4, <2>1, <3>1, <3>2
    <2>2. CASE h # j
      <3>1. told'[h] = told[h]
        BY <1>0, <1>t, <2>2 DEF StateStoreTypeOK
      <3>2. PICK i \in 1..Len(entries) :
                /\ entries[i].job = h /\ entries[i].kind = told[h]
                /\ \A k \in 1..Len(entries) : ByFacade(k) /\ entries[k].job = h => k <= i
        BY <3>1 DEF StatesIInv, ToldInv
      <3>3. \A k \in 1..Len(entries') : ByFacade(k)' /\ entries'[k].job = h => k <= i
        BY <1>3, <1>4, <2>2, <3>2 DEF ByFacade
      <3>4. i \in 1..Len(entries') /\ entries'[i] = entries[i]
        BY <1>4, <3>2
      <3> QED BY <3>1, <3>2, <3>3, <3>4
    <2> QED BY <2>1, <2>2
  <1>10. SnapsInv'
    <2>1. CheckpointHasSnapshot'
      BY <1>0, <1>3, <1>4 DEF StatesIInv, SnapsInv, CheckpointHasSnapshot
    <2> QED BY <1>0, <2>1 DEF StatesIInv, SnapsInv
  <1> QED BY <1>0, <1>6, <1>8, <1>9, <1>10, NothingCopied DEF StatesIInv

LEMMA CheckpointInv ==
    ASSUME StatesIInv, copy.pc = "none", EmitCheckpoint PROVE StatesIInv'
  <1> DEFINE n == NextSeq("state")
             row == [job |-> saving.job, kind |-> "snapshot", own |-> FALSE, seq |-> n]
  <1>0. /\ saving.pc = "written" /\ Len(entries) < MaxLogged /\ n <= MaxLogged
        /\ entries' = Append(entries, row) /\ counter' = [counter EXCEPT !["state"] = n]
        /\ saving' = NotSaving
        /\ UNCHANGED <<told, snaps, snapfile, wiped, copy, storedeaths, taken>>
    BY DEF EmitCheckpoint
  <1>t. StateStoreTypeOK /\ copy \in Copies
    BY DEF StatesIInv, StoreTypes
  <1>a. MaxLogged \in Nat /\ counter["state"] \in Nat /\ n = counter["state"] + 1
    BY <1>t, StateStoreBounds DEF StateStoreTypeOK, Openers, NextSeq
  <1>b. n \in 1..MaxLogged
    BY <1>0, <1>a
  <1>1. row \in LogEntry /\ saving.job \in SSJobs
    BY <1>b, <1>t DEF LogEntry, StateStoreTypeOK
  <1>2. entries \in Seq(LogEntry)
    BY <1>t DEF StateStoreTypeOK
  <1>3. row.kind = "snapshot" /\ row.job = saving.job
    OBVIOUS
  <1> HIDE DEF n, row
  <1>4. /\ Len(entries) \in Nat /\ entries' \in Seq(LogEntry) /\ Len(entries') = Len(entries) + 1
        /\ \A i \in 1..Len(entries) : entries'[i] = entries[i] /\ i \in 1..Len(entries')
        /\ entries'[Len(entries')] = row /\ Len(entries') \in 1..Len(entries')
        /\ \A i \in 1..Len(entries') : i \in 1..Len(entries) \/ i = Len(entries')
    BY <1>0, <1>1, <1>2, RowAdded
  <1>5. counter'["layer"] = counter["layer"] /\ counter' \in [Openers -> 0..MaxLogged]
    BY <1>0, <1>b, <1>t DEF StateStoreTypeOK, Openers
  <1>6. StoreTypes'
    <2>1. saving' \in [pc : {"idle", "truncated", "written"}, job : SSJobs,
                       status : KnownStatuses \cup {NoSnap}]
      BY <1>0, StateStoreBounds DEF NotSaving
    <2>2. Len(entries') <= MaxLogged
      BY <1>0, <1>4, <1>a
    <2> QED BY <1>0, <1>4, <1>5, <1>t, <2>1, <2>2 DEF StoreTypes, StateStoreTypeOK, Snapshots
  <1>7. \A i \in 1..Len(entries') : ByFacade(i)' => i \in 1..Len(entries) /\ ByFacade(i) /\ entries'[i] = entries[i]
    BY <1>3, <1>4 DEF ByFacade
  <1>8. LayerInv'
    <2>1. LayerInv
      BY DEF StatesIInv
    <2>2. \A i \in 1..Len(entries') : ByFacade(i)' => entries'[i].seq <= counter'["layer"]
      BY <1>5, <1>7, <2>1 DEF LayerInv
    <2>3. \A i, k \in 1..Len(entries') :
              i < k /\ ByFacade(i)' /\ ByFacade(k)' => entries'[i].seq < entries'[k].seq
      BY <1>7, <2>1 DEF LayerInv
    <2> QED BY <2>2, <2>3 DEF LayerInv
  <1>9. ToldInv'
    <2> SUFFICES ASSUME NEW h \in SSJobs, told'[h] # "unknown"
                 PROVE  \E i \in 1..Len(entries') :
                            /\ entries'[i].job = h /\ entries'[i].kind = told'[h]
                            /\ \A k \in 1..Len(entries') : ByFacade(k)' /\ entries'[k].job = h => k <= i
      BY DEF ToldInv
    <2>1. PICK i \in 1..Len(entries) :
              /\ entries[i].job = h /\ entries[i].kind = told[h]
              /\ \A k \in 1..Len(entries) : ByFacade(k) /\ entries[k].job = h => k <= i
      BY <1>0 DEF StatesIInv, ToldInv
    <2>2. \A k \in 1..Len(entries') : ByFacade(k)' /\ entries'[k].job = h => k <= i
      BY <1>7, <2>1
    <2>3. i \in 1..Len(entries') /\ entries'[i] = entries[i] /\ told' = told
      BY <1>0, <1>4, <2>1
    <2> QED BY <2>1, <2>2, <2>3
  <1>10. SnapsInv'
    <2>0. SnapsInv
      BY DEF StatesIInv
    <2>1. snaps[saving.job] # NoSnap
      BY <1>0, <2>0 DEF SnapsInv
    <2>2. CheckpointHasSnapshot'
      BY <1>0, <1>3, <1>4, <2>0, <2>1 DEF SnapsInv, CheckpointHasSnapshot
    <2>3. saving'.pc = "idle"
      BY <1>0 DEF NotSaving
    <2> QED BY <1>0, <2>0, <2>2, <2>3 DEF SnapsInv
  <1> QED BY <1>0, <1>6, <1>8, <1>9, <1>10, NothingCopied DEF StatesIInv

(* The table and what the facade told rest.                                *)
LEMMA TableRests ==
    ASSUME UNCHANGED <<entries, told>>, LayerInv, ToldInv, counter'["layer"] = counter["layer"]
    PROVE  LayerInv' /\ ToldInv'
  BY DEF LayerInv, ToldInv, ByFacade

LEMMA SavesInv ==
    ASSUME StatesIInv, NEW j \in SSJobs, NEW status \in KnownStatuses, Saves(j, status)
    PROVE  StatesIInv'
  <1>0. /\ saving.pc = "idle" /\ taken < MaxSaves /\ taken' = taken + 1
        /\ snaps' = [snaps EXCEPT ![j] = status]
        /\ snapfile' = [snapfile EXCEPT !.torn = TRUE]
        /\ saving' = [pc |-> "truncated", job |-> j, status |-> status]
        /\ UNCHANGED <<entries, counter, told, wiped, copy, storedeaths>>
    BY DEF Saves
  <1>t. StateStoreTypeOK /\ copy \in Copies
    BY DEF StatesIInv, StoreTypes
  <1>1. snaps' \in Snapshots /\ snaps'[j] = status /\ \A i \in SSJobs : i # j => snaps'[i] = snaps[i]
    BY <1>0, <1>t DEF StateStoreTypeOK, Snapshots
  <1>2. status # NoSnap
    BY StageKindsAre DEF KnownStatuses, NoSnap
  <1>3. StoreTypes'
    <2>1. snapfile' \in [torn : BOOLEAN, at : Snapshots] /\ snapfile'.torn = TRUE
      BY <1>0, <1>t DEF StateStoreTypeOK
    <2>2. saving' \in [pc : {"idle", "truncated", "written"}, job : SSJobs,
                       status : KnownStatuses \cup {NoSnap}]
      BY <1>0
    <2>3. taken' \in 0..MaxSaves
      BY <1>0, <1>t, StateStoreBounds DEF StateStoreTypeOK
    <2> QED BY <1>0, <1>1, <1>t, <2>1, <2>2, <2>3 DEF StoreTypes, StateStoreTypeOK
  <1>4. SnapsInv'
    <2>1. ~wiped' => \A i \in 1..Len(entries') : entries'[i].kind = "snapshot" => snaps'[entries'[i].job] # NoSnap
      <3> SUFFICES ASSUME ~wiped, NEW i \in 1..Len(entries), entries[i].kind = "snapshot"
                   PROVE  snaps'[entries[i].job] # NoSnap
        BY <1>0
      <3>1. entries[i].job \in SSJobs /\ snaps[entries[i].job] # NoSnap
        <4>1. entries[i] \in LogEntry
          BY <1>t, ElementOfSeq DEF StateStoreTypeOK
        <4> QED BY <4>1 DEF LogEntry, StatesIInv, SnapsInv, CheckpointHasSnapshot
      <3> QED BY <1>1, <1>2, <3>1
    <2>2. snapfile'.torn = TRUE /\ saving'.job = j
      BY <1>0, <1>t DEF StateStoreTypeOK
    <2> QED BY <1>1, <1>2, <2>1, <2>2 DEF SnapsInv, CheckpointHasSnapshot
  <1> QED BY <1>0, <1>3, <1>4, TableRests, CopyRests DEF StatesIInv

LEMMA SaveSnapshotsInv == ASSUME StatesIInv, SaveSnapshots PROVE StatesIInv'
  <1>0. /\ saving.pc = "truncated" /\ snapfile' = [torn |-> FALSE, at |-> snaps]
        /\ saving' = [saving EXCEPT !.pc = "written"]
        /\ UNCHANGED <<entries, counter, told, snaps, wiped, copy, storedeaths, taken>>
    BY DEF SaveSnapshots
  <1>t. StateStoreTypeOK /\ copy \in Copies
    BY DEF StatesIInv, StoreTypes
  <1>1. snapfile' \in [torn : BOOLEAN, at : Snapshots]
    BY <1>0, <1>t DEF StateStoreTypeOK
  <1>2. /\ saving' \in [pc : {"idle", "truncated", "written"}, job : SSJobs,
                     status : KnownStatuses \cup {NoSnap}]
        /\ saving'.job = saving.job
    BY <1>0, <1>t DEF StateStoreTypeOK
  <1>3. StoreTypes'
    BY <1>0, <1>1, <1>2, <1>t DEF StoreTypes, StateStoreTypeOK
  <1>4. SnapsInv'
    BY <1>0, <1>2 DEF StatesIInv, SnapsInv, CheckpointHasSnapshot
  <1> QED BY <1>0, <1>3, <1>4, TableRests, CopyRests DEF StatesIInv

(* The greatest number of the table.                                       *)
LEMMA LastSeqBounds ==
    ASSUME StateStoreTypeOK
    PROVE  LastSeq \in 0..MaxLogged /\ \A i \in 1..Len(entries) : entries[i].seq <= LastSeq
  <1> DEFINE S == {0} \cup {entries[i].seq : i \in 1..Len(entries)}
  <1>0. MaxLogged \in Nat
    BY StateStoreBounds
  <1>1. \A i \in 1..Len(entries) : entries[i].seq \in 0..MaxLogged
    <2>1. \A i \in 1..Len(entries) : entries[i] \in LogEntry
      BY ElementOfSeq DEF StateStoreTypeOK
    <2> QED BY <1>0, <2>1 DEF LogEntry
  <1>2. S \in SUBSET (0..MaxLogged) /\ S # {}
    BY <1>0, <1>1
  <1>3. \E x \in S : \A y \in S : y <= x
    <2> HIDE DEF S
    <2> QED BY <1>0, <1>2, GreatestNumber
  <1>4. LastSeq = Max(S)
    BY DEF LastSeq
  <1>5. \E x \in S : \A y \in S : x >= y
    <2>1. PICK x \in S : \A y \in S : y <= x
      BY <1>3
    <2>2. \A y \in S : x >= y
      <3> HIDE DEF S
      <3> QED BY <1>2, <2>1
    <2> QED BY <2>2
  <1>6. Max(S) \in S /\ \A y \in S : Max(S) >= y
    <2> HIDE DEF S
    <2> QED BY <1>5, Zenon DEF Max
  <1>7. \A i \in 1..Len(entries) : entries[i].seq \in S
    OBVIOUS
  <1> HIDE DEF S
  <1> QED BY <1>0, <1>1, <1>2, <1>4, <1>6, <1>7

LEMMA LayerRestartsInv == ASSUME StatesIInv, LayerRestarts PROVE StatesIInv'
  <1>0. /\ storedeaths < MaxStoreDeaths /\ storedeaths' = storedeaths + 1
        /\ counter' = [counter EXCEPT !["layer"] = LastSeq]
        /\ UNCHANGED <<entries, told, snaps, snapfile, saving, wiped, copy, taken>>
    BY DEF LayerRestarts, Dies
  <1>t. StateStoreTypeOK /\ copy \in Copies
    BY DEF StatesIInv, StoreTypes
  <1>1. LastSeq \in 0..MaxLogged /\ \A i \in 1..Len(entries) : entries[i].seq <= LastSeq
    BY <1>t, LastSeqBounds
  <1>2. counter' \in [Openers -> 0..MaxLogged] /\ counter'["layer"] = LastSeq
    BY <1>0, <1>1, <1>t DEF StateStoreTypeOK, Openers
  <1>3. StoreTypes'
    <2>1. storedeaths' \in 0..MaxStoreDeaths
      BY <1>0, <1>t, StateStoreBounds DEF StateStoreTypeOK
    <2> QED BY <1>0, <1>2, <1>t, <2>1 DEF StoreTypes, StateStoreTypeOK, Snapshots
  <1>4. LayerInv' /\ ToldInv'
    BY <1>0, <1>1, <1>2 DEF StatesIInv, LayerInv, ToldInv, ByFacade
  <1>5. SnapsInv'
    BY <1>0 DEF StatesIInv, SnapsInv, CheckpointHasSnapshot
  <1> QED BY <1>0, <1>3, <1>4, <1>5, CopyRests DEF StatesIInv

LEMMA StateRestartsInv == ASSUME StatesIInv, StateRestarts PROVE StatesIInv'
  <1>0. /\ storedeaths < MaxStoreDeaths /\ storedeaths' = storedeaths + 1
        /\ counter' = [counter EXCEPT !["state"] = LastSeq]
        /\ snaps' = IF snapfile.torn THEN [j \in SSJobs |-> NoSnap] ELSE snapfile.at
        /\ wiped' = (wiped \/ snapfile.torn) /\ saving' = NotSaving
        /\ UNCHANGED <<entries, told, snapfile, copy, taken>>
    BY DEF StateRestarts, Dies
  <1>t. StateStoreTypeOK /\ copy \in Copies
    BY DEF StatesIInv, StoreTypes
  <1>1. LastSeq \in 0..MaxLogged
    BY <1>t, LastSeqBounds
  <1>2. counter' \in [Openers -> 0..MaxLogged] /\ counter'["layer"] = counter["layer"]
    BY <1>0, <1>1, <1>t DEF StateStoreTypeOK, Openers
  <1>3. snapfile.torn \in BOOLEAN /\ snapfile.at \in Snapshots /\ wiped \in BOOLEAN
    BY <1>t DEF StateStoreTypeOK
  <1>4. StoreTypes'
    <2>1. storedeaths' \in 0..MaxStoreDeaths
      BY <1>0, <1>t, StateStoreBounds DEF StateStoreTypeOK
    <2>2. snaps' \in Snapshots
      BY <1>0, <1>3 DEF Snapshots
    <2>3. wiped' \in BOOLEAN
      BY <1>0, <1>3
    <2>4. saving' \in [pc : {"idle", "truncated", "written"}, job : SSJobs,
                       status : KnownStatuses \cup {NoSnap}]
      BY <1>0, StateStoreBounds DEF NotSaving
    <2> QED BY <1>0, <1>2, <1>t, <2>1, <2>2, <2>3, <2>4 DEF StoreTypes, StateStoreTypeOK
  <1>5. SnapsInv'
    <2>0. SnapsInv
      BY DEF StatesIInv
    <2>1. saving'.pc = "idle"
      BY <1>0 DEF NotSaving
    <2>2. CASE snapfile.torn
      <3>1. wiped' = TRUE
        BY <1>0, <1>3, <2>2
      <3> QED BY <1>0, <2>1, <2>2, <3>1 DEF SnapsInv, CheckpointHasSnapshot
    <2>3. CASE ~snapfile.torn
      <3>1. snaps' = snaps /\ (~wiped' => ~wiped)
        BY <1>0, <1>3, <2>0, <2>3 DEF SnapsInv
      <3> QED BY <1>0, <2>0, <2>1, <3>1 DEF SnapsInv, CheckpointHasSnapshot
    <2> QED BY <2>2, <2>3
  <1> QED BY <1>0, <1>2, <1>4, <1>5, TableRests, CopyRests DEF StatesIInv

(* A step of the copy leaves the store alone.                              *)
LEMMA StoreRests ==
    ASSUME StatesIInv, UNCHANGED <<entries, counter, told, snaps, snapfile, saving, wiped, taken>>,
           storedeaths' \in 0..MaxStoreDeaths, copy' \in Copies, CopyInv'
    PROVE  StatesIInv'
  <1>1. StoreTypes'
    BY DEF StatesIInv, StoreTypes, StateStoreTypeOK, Copies, Snapshots
  <1>2. SnapsInv'
    BY DEF StatesIInv, SnapsInv, CheckpointHasSnapshot
  <1> QED BY <1>1, <1>2, TableRests DEF StatesIInv

LEMMA ExportAllInv == ASSUME StatesIInv, copy.pc = "none", ExportAll PROVE StatesIInv'
  <1>t. StateStoreTypeOK /\ copy \in Copies
    BY DEF StatesIInv, StoreTypes
  <1>1. PICK order \in Ordering :
            copy' = [pc |-> "exported", rows |-> <<>>, todo |-> Exported(order)]
    BY DEF ExportAll, Exported
  <1>2. /\ entries # <<>>
        /\ UNCHANGED <<entries, counter, told, snaps, snapfile, saving, wiped, storedeaths, taken>>
    BY DEF ExportAll
  <1>3. Exported(order) \in Seq(LogEntry)
    <2>1. Len(entries) \in Nat /\ \A i \in 1..Len(entries) : entries[i] \in LogEntry
      BY <1>t, ElementOfSeq, LenProperties DEF StateStoreTypeOK
    <2>2. \A i \in 1..Len(entries) : order[i] \in 1..Len(entries)
      BY DEF Ordering
    <2>3. Exported(order) \in [1..Len(entries) -> LogEntry]
      BY <2>1, <2>2 DEF Exported
    <2> QED BY <2>1, <2>3, IsASeq
  <1>4. copy' \in Copies
    BY <1>1, <1>3 DEF Copies
  <1>5. CopyInv'
    <2>1. Ordering' = Ordering /\ Exported(order)' = Exported(order)
      BY <1>2 DEF Ordering, Before, Exported
    <2>2. copy'.pc = "exported" /\ copy'.rows = <<>> /\ copy'.todo = Exported(order) /\ Len(copy'.rows) = 0
      BY <1>1
    <2>3. Len(copy'.todo) \in Nat
      BY <1>3, <2>2, LenProperties
    <2> QED BY <1>2, <2>1, <2>2, <2>3 DEF CopyInv
  <1> QED BY <1>2, <1>4, <1>5, <1>t, StoreRests DEF StateStoreTypeOK

LEMMA ImportAllInv == ASSUME StatesIInv, ImportAll PROVE StatesIInv'
  <1>t. StateStoreTypeOK /\ copy \in Copies /\ CopyInv
    BY DEF StatesIInv, StoreTypes
  <1>0. /\ copy.pc \in {"exported", "broken"} /\ copy.rows = <<>>
        /\ copy' = [copy EXCEPT !.pc = "importing"]
        /\ UNCHANGED <<entries, counter, told, snaps, snapfile, saving, wiped, storedeaths, taken>>
    BY DEF ImportAll
  <1>1. /\ copy' \in Copies /\ copy'.pc = "importing" /\ copy'.rows = copy.rows
        /\ copy'.todo = copy.todo /\ Len(copy.rows) = 0
    BY <1>0, <1>t DEF Copies
  <1>2. PICK order \in Ordering : entries # <<>> /\ copy.todo = Exported(order)
    BY <1>0, <1>t DEF CopyInv
  <1>3. Len(copy.todo) > 0
    <2>1. Len(entries) \in Nat /\ Len(entries) # 0
      BY <1>2, <1>t, EmptySeq, LenProperties DEF StateStoreTypeOK
    <2>2. copy.todo \in Seq(LogEntry) /\ DOMAIN copy.todo = 1..Len(entries)
      BY <1>2, <1>t DEF Exported, Copies
    <2>3. 1..Len(copy.todo) = 1..Len(entries) /\ Len(copy.todo) \in Nat
      BY <2>2, LenProperties
    <2> QED BY <2>1, <2>3
  <1>4. CopyInv'
    <2>1. Ordering' = Ordering /\ Exported(order)' = Exported(order)
      BY <1>0 DEF Ordering, Before, Exported
    <2> QED BY <1>0, <1>1, <1>2, <1>3, <2>1 DEF CopyInv
  <1> QED BY <1>0, <1>1, <1>4, <1>t, StoreRests DEF StateStoreTypeOK

LEMMA ImportDiesInv == ASSUME StatesIInv, ImportDies PROVE StatesIInv'
  <1>t. StateStoreTypeOK /\ copy \in Copies /\ CopyInv
    BY DEF StatesIInv, StoreTypes
  <1>0. /\ copy.pc = "importing" /\ storedeaths < MaxStoreDeaths /\ storedeaths' = storedeaths + 1
        /\ copy' = [copy EXCEPT !.pc = "broken"]
        /\ UNCHANGED <<entries, counter, told, snaps, snapfile, saving, wiped, taken>>
    BY DEF ImportDies, Dies
  <1>1. copy' \in Copies /\ copy'.pc = "broken" /\ copy'.rows = copy.rows /\ copy'.todo = copy.todo
    BY <1>0, <1>t DEF Copies
  <1>2. storedeaths' \in 0..MaxStoreDeaths
    BY <1>0, <1>t, StateStoreBounds DEF StateStoreTypeOK
  <1>3. CopyInv'
    <2>1. Ordering' = Ordering /\ \A order : Exported(order)' = Exported(order)
      BY <1>0 DEF Ordering, Before, Exported
    <2> QED BY <1>0, <1>1, <1>t, <2>1 DEF CopyInv
  <1> QED BY <1>0, <1>1, <1>2, <1>3, StoreRests

LEMMA ImportRowInv == ASSUME StatesIInv, ImportRow PROVE StatesIInv'
  <1> DEFINE n == Len(copy.rows) + 1
             row == [copy.todo[n] EXCEPT !.seq = n]
  <1>t. StateStoreTypeOK /\ copy \in Copies /\ CopyInv
    BY DEF StatesIInv, StoreTypes
  <1>0. /\ copy.pc = "importing"
        /\ copy' = [copy EXCEPT !.rows = Append(copy.rows, row),
                                !.pc = IF n = Len(copy.todo) THEN "done" ELSE copy.pc]
        /\ UNCHANGED <<entries, counter, told, snaps, snapfile, saving, wiped, storedeaths, taken>>
    BY DEF ImportRow
  <1>1. /\ Len(copy.rows) \in Nat /\ Len(copy.todo) \in Nat /\ n <= Len(copy.todo)
        /\ copy.rows \in Seq(LogEntry) /\ copy.todo \in Seq(LogEntry)
    BY <1>0, <1>t, LenProperties DEF Copies, CopyInv
  <1>2. PICK order \in Ordering : entries # <<>> /\ copy.todo = Exported(order)
    BY <1>0, <1>t DEF CopyInv
  <1>3. Len(copy.todo) <= MaxLogged
    <2>1. Len(entries) \in Nat /\ Len(entries) <= MaxLogged
      BY <1>t, LenProperties DEF StateStoreTypeOK
    <2>2. 1..Len(copy.todo) = 1..Len(entries)
      BY <1>1, <1>2, LenProperties DEF Exported
    <2> QED BY <1>1, <2>1, <2>2, StateStoreBounds
  <1>4. row \in LogEntry
    <2>1. copy.todo[n] \in LogEntry /\ n \in 1..MaxLogged
      BY <1>1, <1>3, ElementOfSeq, StateStoreBounds
    <2> QED BY <2>1 DEF LogEntry
  <1> DEFINE more == Append(copy.rows, row)
  <1>5. /\ more \in Seq(LogEntry) /\ Len(more) = n
        /\ \A i \in 1..Len(copy.rows) : more[i] = copy.rows[i]
        /\ more[n] = row
    BY <1>1, <1>4, AppendProperties
  <1>6. \A i \in 1..n : more[i] = [copy.todo[i] EXCEPT !.seq = i]
    <2>1. \A i \in 1..n : i \in 1..Len(copy.rows) \/ i = n
      BY <1>1
    <2> QED BY <1>5, <1>t, <2>1 DEF CopyInv
  <1>7. /\ copy' \in Copies /\ copy'.rows = more /\ copy'.todo = copy.todo
        /\ copy'.pc = IF n = Len(copy.todo) THEN "done" ELSE "importing"
    <2> HIDE DEF more, row, n
    <2>1. copy' = [copy EXCEPT !.rows = more, !.pc = IF n = Len(copy.todo) THEN "done" ELSE copy.pc]
      BY <1>0 DEF more
    <2> QED BY <1>0, <1>5, <1>t, <2>1 DEF Copies
  <1> HIDE DEF more, row
  <1>8. CopyInv'
    <2>1. Ordering' = Ordering /\ Exported(order)' = Exported(order)
      BY <1>0 DEF Ordering, Before, Exported
    <2>2. copy'.pc \notin {"none", "exported"} /\ Len(copy'.rows) = n
      BY <1>5, <1>7
    <2>3. copy'.pc = "done" => n = Len(copy.todo)
      BY <1>7
    <2>4. copy'.pc = "importing" => n < Len(copy.todo)
      BY <1>1, <1>7
    <2>5. \A i \in 1..Len(copy'.rows) : copy'.rows[i] = [copy'.todo[i] EXCEPT !.seq = i]
      BY <1>6, <1>7, <2>2
    <2>6. \E o \in Ordering' : copy'.todo = Exported(o)'
      BY <1>2, <1>7, <2>1
    <2> QED BY <1>0, <1>1, <1>2, <1>7, <2>2, <2>3, <2>4, <2>5, <2>6 DEF CopyInv
  <1> QED BY <1>0, <1>7, <1>8, <1>t, StoreRests DEF StateStoreTypeOK

LEMMA StatesNextInv == StatesIInv /\ [StatesNext]_ssvars => StatesIInv'
  <1> SUFFICES ASSUME StatesIInv, [StatesNext]_ssvars PROVE StatesIInv'
    OBVIOUS
  <1>t. StateStoreTypeOK /\ entries \in Seq(LogEntry)
    BY DEF StatesIInv, StoreTypes, StateStoreTypeOK
  <1>1. CASE UNCHANGED ssvars
    <2>1. UNCHANGED <<entries, counter, told, snaps, snapfile, saving, wiped, taken, storedeaths, copy>>
      BY <1>1 DEF ssvars
    <2>2. storedeaths' \in 0..MaxStoreDeaths /\ copy' \in Copies /\ CopyInv'
      BY <1>t, <2>1, CopyRests DEF StatesIInv, StoreTypes, StateStoreTypeOK
    <2> QED BY <2>1, <2>2, StoreRests
  <1>2. CASE copy.pc = "none" /\ StoreSteps
    <2>1. ASSUME NEW j \in SSJobs, NEW kind \in StageKinds, NEW own \in BOOLEAN, Record(j, kind, own)
          PROVE  StatesIInv'
      BY <1>2, <2>1, RecordInv
    <2>2. ASSUME NEW j \in SSJobs, SaveJobState(j) PROVE StatesIInv'
      <3> DEFINE found == GetEventsForJob(entries, j, StateKinds)
      <3>1. found \in SUBSET (1..Len(entries)) /\ \A k \in found : entries[k].kind \in StateKinds
        BY DEF GetEventsForJob
      <3>2. LastSays(entries, found) \in KnownStatuses
        <4> HIDE DEF found
        <4> QED BY <1>t, <3>1, SaidIsKnown
      <3>3. GetJobState(entries, j) \in KnownStatuses
        BY <3>2 DEF GetJobState, KnownStatuses
      <3> QED BY <2>2, <3>3, SavesInv DEF SaveJobState
    <2>3. ASSUME NEW j \in SSJobs, NEW n \in 1..MaxLogged, RollbackToSequence(j, n) PROVE StatesIInv'
      <3> DEFINE found == UpTo(j, n, RollbackKinds)
      <3>1. found \in SUBSET (1..Len(entries)) /\ \A k \in found : entries[k].kind \in RollbackKinds
        BY DEF UpTo, GetEventsForJob
      <3>2. RollbackKinds \subseteq StateKinds
        BY StageKindsAre DEF RollbackKinds, ReplayKinds, Ends, StateKinds
      <3>3. LastSays(entries, found) \in KnownStatuses
        <4> HIDE DEF found
        <4> QED BY <1>t, <3>1, <3>2, SaidIsKnown
      <3>4. Saves(j, LastSays(entries, found))
        BY <2>3 DEF RollbackToSequence
      <3> QED BY <3>3, <3>4, SavesInv
    <2> QED BY <1>2, <2>1, <2>2, <2>3, SaveSnapshotsInv, CheckpointInv, ExportAllInv, LayerRestartsInv,
               StateRestartsInv DEF StoreSteps
  <1> QED BY <1>1, <1>2, ImportAllInv, ImportRowInv, ImportDiesInv DEF StatesNext

(* Whatever a reader has cases for, the last of its rows is the end the    *)
(* facade recorded.                                                        *)
LEMMA EndIsLast ==
    ASSUME StatesIInv, NEW j \in SSJobs, told[j] \in Ends,
           NEW kinds \in SUBSET StageKinds, Ends \subseteq kinds
    PROVE  LET found == GetEventsForJob(entries, j, kinds)
           IN  found # {} /\ entries[LastOf(entries, found)].kind = told[j]
  <1> DEFINE found == GetEventsForJob(entries, j, kinds)
  <1>1. entries \in Seq(LogEntry) /\ LayerInv /\ ToldInv /\ Len(entries) \in Nat
    BY LenProperties DEF StatesIInv, StoreTypes, StateStoreTypeOK
  <1>2. told[j] # "unknown"
    BY DEF Ends
  <1>3. PICK i \in 1..Len(entries) :
            /\ entries[i].job = j /\ entries[i].kind = told[j]
            /\ \A k \in 1..Len(entries) : ByFacade(k) /\ entries[k].job = j => k <= i
    BY <1>1, <1>2 DEF ToldInv
  <1>4. found \in SUBSET (1..Len(entries)) /\ i \in found
    BY <1>3 DEF GetEventsForJob
  <1>5. \A k \in found : k \in 1..Len(entries) /\ ByFacade(k) /\ entries[k].job = j
    BY StageKindsAre DEF GetEventsForJob, ByFacade
  <1>6. \A k \in found \ {i} : Before(entries, k, i)
    <2>1. \A k \in found \ {i} : k < i
      BY <1>1, <1>3, <1>4, <1>5
    <2> QED BY <1>1, <1>4, <1>5, <2>1 DEF LayerInv, Before
  <1>7. LastOf(entries, found) = i
    <2> HIDE DEF found
    <2> QED BY <1>1, <1>4, <1>6, LastIs
  <1> QED BY <1>3, <1>4, <1>7

LEMMA ReadersAgree == StatesIInv => BothReadersAgree
  <1> SUFFICES ASSUME StatesIInv, NEW j \in SSJobs, told[j] \in Ends
               PROVE  ReplayToState(entries, j) = told[j] /\ GetJobState(entries, j) \in {told[j], "own"}
    BY DEF BothReadersAgree
  <1>1. /\ ReplayKinds \subseteq StageKinds /\ Ends \subseteq ReplayKinds
        /\ StateKinds \subseteq StageKinds /\ Ends \subseteq StateKinds
    BY StageKindsAre DEF ReplayKinds, StateKinds, Ends
  <1>2. told[j] # "started"
    BY DEF Ends
  <1>3. ReplayToState(entries, j) = told[j]
    BY <1>1, <1>2, EndIsLast DEF ReplayToState, LastSays, StatusOf
  <1>4. LastSays(entries, GetEventsForJob(entries, j, StateKinds)) = told[j]
    BY <1>1, <1>2, EndIsLast DEF LastSays, StatusOf
  <1> QED BY <1>3, <1>4 DEF GetJobState

LEMMA OrderIsWhole ==
    ASSUME entries \in Seq(LogEntry), NEW order \in Ordering
    PROVE  \A k \in 1..Len(entries) : \E i \in 1..Len(entries) : order[i] = k
  <1> DEFINE I == 1..Len(entries)
  <1>0. Len(entries) \in Nat /\ I \subseteq Nat
    BY LenProperties
  <1>1. order \in [I -> I] /\ \A i, k \in I : i < k => Before(entries, order[i], order[k])
    BY DEF Ordering
  <1>2. \A i \in I : order[i] \in I /\ entries[order[i]].seq \in Nat
    <2>1. \A i \in I : entries[i] \in LogEntry
      BY ElementOfSeq
    <2>2. \A i \in I : entries[i].seq \in Nat
      BY <2>1, StateStoreBounds DEF LogEntry
    <2> HIDE DEF I
    <2> QED BY <1>1, <2>2
  <1>3. \A i, k \in I : i < k => order[i] # order[k]
    BY <1>0, <1>1, <1>2 DEF Before
  <1>4. \A i, k \in I : order[i] = order[k] => i = k
    BY <1>0, <1>3
  <1>6. IsFiniteSet(I)
    BY <1>0, FS_Interval
  <1> HIDE DEF I
  <1>5. order \in Injection(I, I)
    BY <1>1, <1>4 DEF Injection, IsInjective
  <1>7. order \in Surjection(I, I)
    BY <1>5, <1>6, FS_Injection
  <1> QED BY <1>7 DEF Surjection, I

LEMMA ImportAnswersAlike == StatesIInv => ImportIsFaithful
  <1> SUFFICES ASSUME StatesIInv, copy.pc = "done", NEW j \in SSJobs
               PROVE  GetJobState(copy.rows, j) = GetJobState(entries, j)
    BY DEF ImportIsFaithful
  <1> DEFINE N == Len(entries)
             lines == copy.rows
             F == GetEventsForJob(entries, j, StateKinds)
             G == GetEventsForJob(lines, j, StateKinds)
  <1>1. entries \in Seq(LogEntry) /\ lines \in Seq(LogEntry) /\ copy.todo \in Seq(LogEntry) /\ CopyInv
    BY DEF StatesIInv, StoreTypes, StateStoreTypeOK, Copies
  <1>2. PICK order \in Ordering : copy.todo = Exported(order)
    BY <1>1 DEF CopyInv
  <1>3. N \in Nat /\ Len(lines) = N
    <2>1. 1..Len(copy.todo) = 1..N /\ Len(copy.todo) \in Nat /\ N \in Nat
      BY <1>1, <1>2, LenProperties DEF Exported
    <2> QED BY <1>1, <2>1 DEF CopyInv
  <1>4. \A i \in 1..N : order[i] \in 1..N /\ entries[order[i]] \in LogEntry
    BY <1>1, ElementOfSeq DEF Ordering
  <1>5. \A i \in 1..N : lines[i] = [entries[order[i]] EXCEPT !.seq = i]
    <2>1. \A i \in 1..N : copy.todo[i] = entries[order[i]]
      BY <1>2 DEF Exported
    <2> QED BY <1>1, <1>3, <2>1 DEF CopyInv
  <1>6. \A i \in 1..N : /\ lines[i].seq = i /\ lines[i].job = entries[order[i]].job
                        /\ lines[i].kind = entries[order[i]].kind /\ lines[i].own = entries[order[i]].own
    BY <1>4, <1>5 DEF LogEntry
  <1>7. /\ G \in SUBSET (1..Len(lines)) /\ F \in SUBSET (1..N)
        /\ \A i \in 1..N : i \in G <=> order[i] \in F
    BY <1>3, <1>4, <1>6 DEF GetEventsForJob
  <1>8. \A k \in F : \E i \in G : order[i] = k
    BY <1>1, <1>3, <1>7, OrderIsWhole
  <1>9. CASE G = {}
    <2>1. F = {}
      BY <1>8, <1>9
    <2> QED BY <1>9, <2>1 DEF GetJobState, LastSays
  <1>10. CASE G # {}
    <2> DEFINE g == LastOf(lines, G)
    <2>1. g \in G /\ \A h \in G \ {g} : Before(lines, h, g)
      <3> HIDE DEF G, lines
      <3> QED BY <1>1, <1>7, <1>10, LastExists
    <2> HIDE DEF g, F, G, lines
    <2>2. g \in 1..N /\ order[g] \in F
      BY <1>3, <1>7, <2>1
    <2>3. \A h \in G \ {g} : h \in 1..N /\ h < g
      BY <1>3, <1>6, <1>7, <2>1, <2>2 DEF Before
    <2>4. ASSUME NEW k \in F \ {order[g]} PROVE Before(entries, k, order[g])
      <3>1. PICK h \in G : order[h] = k
        BY <1>8
      <3>2. h \in 1..N /\ h < g
        BY <2>3, <2>4, <3>1
      <3> QED BY <2>2, <3>1, <3>2 DEF Ordering, N
    <2>5. LastOf(entries, F) = order[g]
      BY <1>1, <1>7, <2>2, <2>4, LastIs DEF N
    <2>6. lines[g].own = entries[order[g]].own /\ lines[g].kind = entries[order[g]].kind /\ F # {}
      BY <1>6, <2>2
    <2> QED BY <1>10, <2>5, <2>6 DEF GetJobState, LastSays, StatusOf, F, G, g, lines
  <1> QED BY <1>9, <1>10

LEMMA StatesAreSafe == StatesIInv => StateStoreInv
  BY ReadersAgree, ImportAnswersAlike DEF StateStoreInv, StatesIInv, SnapsInv

-----------------------------------------------------------------------------
(* What is recorded and agreed on.                                         *)

LEMMA RecordsInit == OperationsInit => EventIInv /\ ClusterIInv /\ StatesIInv
  BY EventInitInv, RaftInitInv, StoreInitInv, PressureInitInv, StatesInitInv DEF OperationsInit, ClusterIInv

LEMMA RecordsNext ==
    EventIInv /\ ClusterIInv /\ StatesIInv /\ [OperationsNext]_OperationsVars => (EventIInv /\ ClusterIInv /\ StatesIInv)'
  <1>1. [OperationsNext]_OperationsVars => [EventNext]_evars
    BY DEF OperationsNext, OperationsVars
  <1>2. RaftNext => UNCHANGED <<replicas, pressurevars>>
    <2>1. ElectBegins \/ PickLeader \/ ClusterAppend => UNCHANGED <<replicas, pressurevars>>
      BY Zenon DEF ElectBegins, PickLeader, ClusterAppend
    <2>2. \A n : StartElection(n) \/ VotesIn(n) \/ AddNode(n) => UNCHANGED <<replicas, pressurevars>>
      BY Zenon DEF StartElection, VotesIn, AddNode
    <2>3. \A n, k : Snapshot(n, k) \/ RemoveNode(n, k) => UNCHANGED <<replicas, pressurevars>>
      BY Zenon DEF Snapshot, RemoveNode
    <2> QED BY <2>1, <2>2, <2>3, Zenon DEF RaftNext
  <1>3. StoreNext => UNCHANGED <<raftvars, pressurevars>>
    BY DEF StoreNext, StoreWrite, ReplicaMarked
  <1>4. PressureNext => UNCHANGED <<raftvars, replicas>>
    BY DEF PressureNext, ShouldAdmit, RecordJobStart, RecordJobComplete, QueueTooDeep, CooldownTicks, UpdateGpuVram
  <1>5. [OperationsNext]_OperationsVars => RaftNext \/ StoreNext \/ PressureNext \/ UNCHANGED cvars
    BY DEF OperationsNext, OperationsVars
  <1>6. UNCHANGED cvars => UNCHANGED <<raftvars, replicas, pressurevars>>
    BY DEF cvars
  <1>7. [OperationsNext]_OperationsVars => [RaftNext]_raftvars /\ [StoreNext]_replicas /\ [PressureNext]_pressurevars
    BY <1>2, <1>3, <1>4, <1>5, <1>6, Zenon
  <1>8. [OperationsNext]_OperationsVars => [StatesNext]_ssvars
    BY DEF OperationsNext, OperationsVars
  <1> QED BY <1>1, <1>7, <1>8, EventNextInv, RaftNextInv, StoreNextInv, PressureNextInv, StatesNextInv
          DEF ClusterIInv

LEMMA RecordsAreSafe == EventIInv /\ ClusterIInv /\ StatesIInv => ClusterStateSound
  BY EventLogIsSafe, ClusterIsSafe, StatesAreSafe DEF ClusterStateSound

(* The logs tell what happened: stored numbers have no gap, events of one  *)
(* life carry different ticks, a job is rebuilt with the status of its     *)
(* last command and a paged replay leaves no event out.  The state store   *)
(* answers with what the facade recorded last, a checkpoint has its        *)
(* snapshot unless a torn file was read, and an import answers as the      *)
(* exporting store did.  The books of the cluster are right: indices,      *)
(* terms and commit marks of every node with a whole log, and the account  *)
(* of GPU memory.                                                          *)
THEOREM RecordsAreSound == OperationsSpec => []ClusterStateSound
  BY RecordsInit, RecordsNext, RecordsAreSafe, PTL DEF OperationsSpec, OperationsVars
=============================================================================
