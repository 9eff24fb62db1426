----------------------------- MODULE Operators -----------------------------
(***************************************************************************)
(* The two Kubernetes controllers.  The tenant operator                    *)
(* (config/crd/controller/operator.py, two replicas by its deployment)     *)
(* provisions a RomaTenant: a list of "ensure" steps, each a read, and a   *)
(* create when the read answers 404.  The RomaTask controller              *)
(* (k8s/roma_controller.py) creates one Job for a task and copies the      *)
(* Job's end into the task's status, driven by the events of a watch.      *)
(* The API server is external: a call succeeds, fails, or (create) takes   *)
(* effect and its answer is lost.                                          *)
(***************************************************************************)
EXTENDS Naturals, Sequences, FiniteSets

CONSTANTS Replicas,       \* operator pods
          RTasks,         \* RomaTasks
          NoJob,
          MaxApi,         \* bound: failures of the API server and crashes
          MaxUpdates,     \* bound: edits of the RomaTenant
          MaxK8sJobs,     \* bound: Jobs created
          MaxTouched      \* bound: edits of RomaTasks by others

ASSUME OperatorsAssumption ==
    /\ IsFiniteSet(RTasks) /\ NoJob \notin RTasks
    /\ {MaxApi, MaxUpdates, MaxK8sJobs, MaxTouched} \subseteq Nat

VARIABLES tenantSpec,   \* [plan, branding, edits]
          tstatus,      \* [phase, branding]: the status and the spec it was for
          made,         \* resource -> the body it was created with, "none" if absent
          replica,      \* pod -> [at, found, spec]: its reconcile
          certClient,   \* is cert_manager_client installed in the image?
          skipped,      \* a failed read of the credential was passed over
          rtask,        \* RomaTask -> [phase, job]
          k8sJobs,      \* sequence of Jobs: [task, end]
          watched,      \* event stream: sequence of [task, type, phase, job]
          handling,     \* controller: the event in hand and the Job it created
          rlost,        \* RomaTask -> status updates that never arrived
          touched,      \* edits of RomaTasks by others
          apiFails      \* failures so far

tenantvars == <<tenantSpec, tstatus, made, replica, certClient, skipped>>
taskvars == <<rtask, k8sJobs, watched, handling, rlost, touched>>
opvars == <<tenantSpec, tstatus, made, replica, certClient, skipped, rtask, k8sJobs,
            watched, handling, rlost, touched, apiFails>>

\* reconcile_tenant, step by step.
Resources == <<"namespace", "configmap", "secret", "service", "ingress", "certificate",
               "consumer", "credential", "ratelimit", "config">>
Namespaced == {"configmap", "secret", "service", "ingress", "certificate"}
RPlans == {"free", "pro"}
Asleep == [at |-> 0, found |-> FALSE, spec |-> [plan |-> "free", branding |-> FALSE]]
Watching == [up |-> TRUE, task |-> NoJob, job |-> 0]
Stopped == [up |-> FALSE, task |-> NoJob, job |-> 0]

OperatorsTypeOK ==
    /\ tenantSpec \in [plan : RPlans, branding : BOOLEAN, edits : 0..MaxUpdates]
    /\ tstatus \in [phase : {"none", "Ready"}, branding : BOOLEAN]
    /\ made \in [{Resources[i] : i \in DOMAIN Resources} -> RPlans \cup {"none", "made"}]
    /\ \A r \in Replicas : replica[r].at \in 0..(Len(Resources) + 1)
    /\ rtask \in [RTasks -> [phase : {"Pending", "Queued", "Completed", "Failed"},
                             job : 0..MaxK8sJobs]]
    /\ k8sJobs \in Seq([task : RTasks, end : {"running", "succeeded", "failed"}])
    /\ \A i \in DOMAIN watched : watched[i].type \in {"ADDED", "MODIFIED"}
    /\ handling.job \in 0..MaxK8sJobs
    /\ apiFails \in 0..MaxApi

OperatorsInit ==
    /\ tenantSpec = [plan |-> "free", branding |-> FALSE, edits |-> 0]
    /\ tstatus = [phase |-> "none", branding |-> FALSE]
    /\ made = [r \in {Resources[i] : i \in DOMAIN Resources} |-> "none"]
    /\ replica = [r \in Replicas |-> Asleep]
    /\ certClient \in BOOLEAN
    /\ skipped = FALSE
    /\ rtask = [t \in RTasks |-> [phase |-> "Pending", job |-> 0]]
    /\ k8sJobs = <<>>
    /\ watched = <<>>
    /\ handling = Stopped
    /\ rlost = [t \in RTasks |-> 0]
    /\ touched = 0
    /\ apiFails = 0

ApiFails == apiFails < MaxApi /\ apiFails' = apiFails + 1

----------------------------------------------------------------------------
(* The tenant operator.                                                    *)

\* kopf delivers a creation, an update, or a retry of a handler that raised:
\* the handler starts from the current spec.
ReconcileTenant(r) ==
    /\ replica[r].at = 0
    /\ replica' = [replica EXCEPT ![r] =
          [at |-> 1, found |-> FALSE,
           spec |-> [plan |-> tenantSpec.plan, branding |-> tenantSpec.branding]]]
    /\ UNCHANGED <<tenantSpec, tstatus, made, certClient, skipped, apiFails>>

\* The handler raises (kopf will retry) or its pod dies.
Raises(r) == replica' = [replica EXCEPT ![r] = Asleep]
Advance(r) == replica' = [replica EXCEPT ![r].at = @ + 1, ![r].found = FALSE]

Current(r) == Resources[replica[r].at]
InReconcile(r) == replica[r].at \in DOMAIN Resources

\* A failed read is not "absent": the ensure helpers re-raise every status
\* but 404.  The credential's read, inline, passes it over.
ReadErrorKept(res) == FALSE
ReadErrorRaises(res) == res # "credential"

\* Without its client package the certificate's read is an AttributeError.
NoCertApi(r) == Current(r) = "certificate" /\ ~certClient

EnsureReads(r) ==
    /\ InReconcile(r) /\ ~replica[r].found
    /\ \/ /\ Current(r) = "configmap" /\ ~replica[r].spec.branding
          /\ Advance(r)
          /\ UNCHANGED <<skipped, apiFails>>
       \/ /\ NoCertApi(r)
          /\ Raises(r)
          /\ UNCHANGED <<skipped, apiFails>>
       \/ /\ Current(r) = "configmap" => replica[r].spec.branding
          /\ ~NoCertApi(r)
          /\ \/ made[Current(r)] # "none" /\ Advance(r) /\ UNCHANGED <<skipped, apiFails>>
             \/ /\ made[Current(r)] = "none"
                /\ replica' = [replica EXCEPT ![r].found = TRUE]
                /\ UNCHANGED <<skipped, apiFails>>
             \/ ApiFails /\ ReadErrorRaises(Current(r)) /\ Raises(r) /\ UNCHANGED skipped
             \/ ApiFails /\ ~ReadErrorRaises(Current(r)) /\ Advance(r) /\ skipped' = TRUE
    /\ UNCHANGED <<tenantSpec, tstatus, made, certClient>>

\* What the builders put into a body of a tenant: the plan, in the rate limit
\* (and in labels of the namespace).  An existing object is never rewritten.
BodyOf(res, spec) == IF res = "ratelimit" THEN spec.plan ELSE "made"

\* After a 404: create.  An object that appeared meanwhile (409), a missing
\* namespace (404) and any other failure raise; the object may exist.
EnsureCreates(r) ==
    LET res == Current(r) IN
    /\ InReconcile(r) /\ replica[r].found
    /\ \/ /\ made[res] = "none"
          /\ res \in Namespaced => made["namespace"] # "none"
          /\ made' = [made EXCEPT ![res] = BodyOf(res, replica[r].spec)]
          /\ \/ Advance(r) /\ UNCHANGED apiFails
             \/ Raises(r) /\ ApiFails
       \/ /\ made[res] # "none" \/ (res \in Namespaced /\ made["namespace"] = "none")
          /\ Raises(r)
          /\ UNCHANGED <<made, apiFails>>
       \/ Raises(r) /\ ApiFails /\ UNCHANGED made
    /\ UNCHANGED <<tenantSpec, tstatus, certClient, skipped>>

\* The status says Ready; a failed patch is only logged.
PatchStatus(r) ==
    /\ replica[r].at = Len(Resources) + 1
    /\ Raises(r)
    /\ \/ /\ tstatus' = [phase |-> "Ready", branding |-> replica[r].spec.branding]
          /\ UNCHANGED apiFails
       \/ ApiFails /\ UNCHANGED tstatus
    /\ UNCHANGED <<tenantSpec, made, certClient, skipped>>

\* A pod dies anywhere in its handler.
PodDies(r) ==
    /\ replica[r].at # 0
    /\ ApiFails
    /\ Raises(r)
    /\ UNCHANGED <<tenantSpec, tstatus, made, certClient, skipped>>

\* The RomaTenant is edited.  (Its deletion is only logged: the handler
\* removes nothing.)
EditTenant ==
    /\ tenantSpec.edits < MaxUpdates
    /\ \E p \in RPlans, b \in BOOLEAN :
          tenantSpec' = [plan |-> p, branding |-> b, edits |-> tenantSpec.edits + 1]
    /\ UNCHANGED <<tstatus, made, replica, certClient, skipped, apiFails>>

TenantNext ==
    /\ \/ EditTenant
       \/ \E r \in Replicas : \/ ReconcileTenant(r) \/ EnsureReads(r) \/ EnsureCreates(r)
                              \/ PatchStatus(r) \/ PodDies(r)
    /\ UNCHANGED taskvars

----------------------------------------------------------------------------
(* The RomaTask controller: one process, one event at a time.              *)

Event(t, kind) == [task |-> t, type |-> kind, phase |-> rtask[t].phase, job |-> rtask[t].job]
EventNow(t, kind, s) == [task |-> t, type |-> kind, phase |-> s.phase, job |-> s.job]

\* The watch (re)starts: it lists every object as ADDED, as it is now.
StartWatch ==
    /\ handling = Stopped
    /\ handling' = Watching
    /\ \E order \in {s \in [1..Cardinality(RTasks) -> RTasks] :
                        \A i, k \in DOMAIN s : i # k => s[i] # s[k]} :
          watched' = [i \in DOMAIN order |-> Event(order[i], "ADDED")]
    /\ UNCHANGED <<rtask, k8sJobs, rlost, touched, apiFails>>

\* update_romatask_status: a merge patch, whose failure is only logged.  The
\* patch makes a MODIFIED event of its own.
SaysStatus(t, phase, job, rest) ==
    LET s == [phase |-> phase, job |-> IF job = 0 THEN rtask[t].job ELSE job] IN
    \/ /\ rtask' = [rtask EXCEPT ![t] = s]
       /\ watched' = Append(rest, EventNow(t, "MODIFIED", s))
       /\ UNCHANGED <<rlost, apiFails>>
    \/ /\ ApiFails
       /\ rlost' = [rlost EXCEPT ![t] = @ + 1]
       /\ watched' = rest
       /\ UNCHANGED rtask

PendingStill(e) == e.phase = "Pending"

\* ADDED and Pending: a Job is created, or the create raises (and may have
\* taken effect).
Dispatches ==
    /\ handling = Watching /\ watched # <<>>
    /\ LET e == Head(watched)
           one == Append(k8sJobs, [task |-> e.task, end |-> "running"]) IN
       /\ e.type = "ADDED" /\ PendingStill(e)
       /\ Len(k8sJobs) < MaxK8sJobs
       /\ \/ /\ k8sJobs' = one
             /\ handling' = [up |-> TRUE, task |-> e.task, job |-> Len(one)]
             /\ UNCHANGED apiFails
          \/ /\ k8sJobs' \in {k8sJobs, one}
             /\ handling' = [up |-> TRUE, task |-> e.task, job |-> 0]
             /\ ApiFails
       /\ watched' = Tail(watched)
    /\ UNCHANGED <<rtask, rlost, touched>>

\* ... then the status is patched: Queued with the Job's name, or Failed.
DispatchRecorded ==
    /\ handling.task # NoJob
    /\ SaysStatus(handling.task, IF handling.job = 0 THEN "Failed" ELSE "Queued",
                  handling.job, watched)
    /\ handling' = Watching
    /\ UNCHANGED <<k8sJobs, touched>>

\* MODIFIED, Queued and with a Job: the Job's end is copied; a failed read
\* is passed over.  Every other event is only logged.
Monitors ==
    /\ handling = Watching /\ watched # <<>>
    /\ LET e == Head(watched)
           looks == e.type = "MODIFIED" /\ e.job # 0 /\ e.phase = "Queued" IN
       \/ /\ looks /\ k8sJobs[e.job].end # "running"
          /\ SaysStatus(e.task, IF k8sJobs[e.job].end = "succeeded" THEN "Completed" ELSE "Failed",
                        0, Tail(watched))
       \/ /\ looks => k8sJobs[e.job].end = "running"
          /\ e.type = "ADDED" => ~PendingStill(e)
          /\ watched' = Tail(watched)
          /\ UNCHANGED <<rtask, rlost, apiFails>>
    /\ UNCHANGED <<k8sJobs, handling, touched>>

\* Kubernetes runs the Job; backoffLimit is 0.
JobEnds ==
    \E i \in DOMAIN k8sJobs, end \in {"succeeded", "failed"} :
       /\ k8sJobs[i].end = "running"
       /\ k8sJobs' = [k8sJobs EXCEPT ![i].end = end]
       /\ UNCHANGED <<rtask, watched, handling, rlost, touched, apiFails>>

\* Somebody else edits a RomaTask, which is one more MODIFIED event.
Touch(t) ==
    /\ touched < MaxTouched /\ handling.up
    /\ touched' = touched + 1
    /\ watched' = Append(watched, Event(t, "MODIFIED"))
    /\ UNCHANGED <<rtask, k8sJobs, handling, rlost, apiFails>>

\* The controller dies; the events it has not handled are gone, and so is the
\* status of a Job it had just created.
ControllerDies ==
    /\ handling.up
    /\ ApiFails
    /\ watched' = <<>>
    /\ handling' = Stopped
    /\ rlost' = IF handling = Watching THEN rlost
                ELSE [rlost EXCEPT ![handling.task] = @ + 1]
    /\ UNCHANGED <<rtask, k8sJobs, touched>>

TaskNext ==
    /\ \/ StartWatch \/ Dispatches \/ DispatchRecorded \/ Monitors
       \/ JobEnds \/ ControllerDies \/ \E t \in RTasks : Touch(t)
    /\ UNCHANGED tenantvars

----------------------------------------------------------------------------
Wanted(branding) ==
    {Resources[i] : i \in DOMAIN Resources} \ (IF branding THEN {} ELSE {"configmap"})

\* "All resources created" in the status holds of a Ready tenant, whatever
\* two replicas, failures and retries do to each other; only the credential
\* may be missing, when its read failed.
ReadyIsComplete ==
    tstatus.phase = "Ready" =>
       \A res \in Wanted(tstatus.branding) : made[res] # "none" \/ (res = "credential" /\ skipped)

\* Nothing lives in a namespace that was not created first.
NamespaceFirst == \A res \in Namespaced : made[res] # "none" => made["namespace"] # "none"

\* A task has one Job per lost status at most besides the first, so a Pending
\* task without a lost status has none running; and a Completed task's Job
\* has succeeded.
OneJobPerTask ==
    \A t \in RTasks :
       /\ Cardinality({i \in DOMAIN k8sJobs : k8sJobs[i].task = t}) <= 1 + rlost[t]
       /\ rtask[t].phase = "Completed" =>
             rtask[t].job # 0 /\ k8sJobs[rtask[t].job].end = "succeeded"

(* What the controllers report of the cluster is so (operator.py:463-480,  *)
(* roma_controller.py:157-189).                                            *)
OperatorsInv == ReadyIsComplete /\ NamespaceFirst /\ OneJobPerTask

=============================================================================
