---------------------------- MODULE MCOperations ----------------------------
(***************************************************************************)
(* Instances, for TLC, of the parts that run jobs on machines and keep     *)
(* them running: control plane, hosts, GPU workers, event log, cluster,    *)
(* schedulers, backends, the Kubernetes operators and the operations       *)
(* tools.  As in MCServing no part reads a variable of another, and the    *)
(* initial state chooses the one that runs.                                *)
(***************************************************************************)
EXTENDS WriterLease, ControlPlane, Hosts, GpuWorker, EventLog, Cluster, DeployAgent,
        OpsTools, Scheduler, Backends, Operators, StateStore

VARIABLE focus     \* the part that runs

MCNodes == <<"n1", "n2">>
MCChain == <<"other", "4090">>

Clusters == {"raft", "store", "pressure"}
Tools == {"watchdog", "migrate", "drift"}
Schedulers == {"route", "policy"}
Markets == {"vast", "gpupool", "slurm"}
Controllers == {"tenantop", "taskop"}
Parts == {"lease", "control", "hosts", "gpu", "log", "states", "deploy"}
         \cup Clusters \cup Tools \cup Schedulers \cup Markets \cup Controllers

\* The dependencies of the commits, the plan of the tenant and the image of the
\* operator vary only where they matter.
OperationsInit ==
    /\ focus \in Parts
    /\ Init /\ CPInit /\ HostsInit /\ GWInit /\ EventInit /\ ClusterInit /\ DeployInit
    /\ OpsInit /\ SchedInit /\ BackendsInit /\ OperatorsInit /\ StateStoreInit
    /\ focus # "deploy" => deps = [c \in 1..Commits |-> "venv"]
    /\ focus # "route" => tplan = "free"
    /\ focus # "tenantop" => certClient

OperationsNext ==
    /\ UNCHANGED focus
    /\ IF focus = "lease" THEN Next ELSE UNCHANGED vars
    /\ IF focus = "control" THEN CPNext ELSE UNCHANGED cpvars
    /\ IF focus = "hosts" THEN HostsNext ELSE UNCHANGED hvars
    /\ IF focus = "gpu" THEN GWNext ELSE UNCHANGED gwvars
    /\ IF focus = "log" THEN EventNext ELSE UNCHANGED evars
    /\ IF focus = "states" THEN StatesNext ELSE UNCHANGED ssvars
    /\ CASE focus = "raft" -> RaftNext
         [] focus = "store" -> StoreNext
         [] focus = "pressure" -> PressureNext
         [] OTHER -> UNCHANGED cvars
    /\ IF focus = "deploy" THEN DeployNext ELSE UNCHANGED dvars
    /\ CASE focus = "watchdog" -> WatchdogNext
         [] focus = "migrate" -> MigrateNext
         [] focus = "drift" -> DriftNext
         [] OTHER -> UNCHANGED <<wvars, mvars, fvars>>
    /\ CASE focus = "route" -> RoutingNext
         [] focus = "policy" -> PolicyNext
         [] OTHER -> UNCHANGED svars
    /\ CASE focus = "vast" -> VastNext
         [] focus = "gpupool" -> PoolNext
         [] focus = "slurm" -> SlurmNext
         [] OTHER -> UNCHANGED bvars
    /\ CASE focus = "tenantop" -> TenantNext
         [] focus = "taskop" -> TaskNext
         [] OTHER -> UNCHANGED opvars

OperationsSpec ==
    OperationsInit /\ [][OperationsNext]_<<focus, vars, cpvars, hvars, gwvars, evars, ssvars, cvars, dvars,
                                           wvars, mvars, fvars, svars, bvars, opvars>>

-----------------------------------------------------------------------------
(* Properties: those of WriterLease by their names, and the invariants of  *)
(* the other parts, grouped by what they are about.                        *)

\* Every variable of a running part holds a value of its kind.
OperationsTypeOK ==
    CASE focus = "lease" -> TypeOK
      [] focus = "control" -> CPTypeOK
      [] focus = "hosts" -> HostsTypeOK
      [] focus = "gpu" -> GWTypeOK
      [] focus = "log" -> EventTypeOK
      [] focus = "states" -> StateStoreTypeOK
      [] focus \in Clusters -> ClusterTypeOK
      [] focus = "deploy" -> DeployTypeOK
      [] focus \in Tools -> OpsTypeOK
      [] focus \in Schedulers -> SchedTypeOK
      [] focus \in Markets -> BackendsTypeOK
      [] focus \in Controllers -> OperatorsTypeOK

\* What is recorded and agreed on: the event log numbers without gaps and
\* replays faithfully, the state store tells what was recorded, the logs and
\* the books of the cluster are in order.
ClusterStateSound ==
    /\ focus = "log" => EventLogInv
    /\ focus = "states" => StateStoreInv
    /\ focus \in Clusters => ClusterInv

\* Maintenance: the deploy agent runs what it reports, and the watchdog, the
\* migrations and the drift check keep what they guard.
MaintenanceSound ==
    /\ focus = "deploy" => DeployInv
    /\ focus \in Tools => OpsInv

\* Placement: quotas, memory and loads are accounted for, and no machine is
\* paid for that no job knows.
PlacementSound ==
    /\ focus \in Schedulers => SchedulerInv
    /\ focus \in Markets => BackendsInv
=============================================================================
