------------------------- MODULE Maintenance_proofs -------------------------
(***************************************************************************)
(* What keeps the machines running and puts jobs on them, for every size:  *)
(* the writer lease, the Kubernetes controllers, the deploy agent, the     *)
(* operations tools, the backends and the schedulers.  The lease is proved *)
(* for any number of sessions, any TTL and any damage to the files, as     *)
(* long as a command leaves the flock within one unit of time; each of the *)
(* others has its inductive invariant, one lemma per step, and a theorem   *)
(* about OperationsSpec.                                                   *)
(***************************************************************************)
EXTENDS Operations_proofs

LEMMA LeaseInit == Init => LeaseInv
  BY LeaseAssumption
  DEF Init, LeaseInv, TypeOK, OneFreshMarker, Fresh, Ages

LEMMA LeaseNext == LeaseInv /\ [Next]_vars => LeaseInv'
  <1> SUFFICES ASSUME LeaseInv, [Next]_vars PROVE LeaseInv'
    OBVIOUS
  <1> USE LeaseAssumption DEF LeaseInv, TypeOK, OneFreshMarker, Fresh, Ages
  <1>1. CASE UNCHANGED vars
    BY <1>1 DEF vars
  <1>2. CASE Tick
    BY <1>2 DEF Tick, Older
  <1>3. CASE WriteMarker
    BY <1>3 DEF WriteMarker
  <1>4. CASE Die
    BY <1>4 DEF Die
  <1>5. CASE Spoil
    BY <1>5 DEF Spoil
  <1>6. ASSUME NEW s \in Sessions, Capture(s) PROVE LeaseInv'
    BY <1>6 DEF Capture, CaptureAllowed
  <1>7. CASE Heartbeat
    <2>1. /\ lease.holder \in Sessions /\ lease.file # "absent"
          /\ due' = lease.holder
          /\ held' = 0 /\ UNCHANGED <<marker, spoiled>>
      BY <1>7 DEF Heartbeat
    <2>2. lease' = [file |-> "ok", holder |-> lease.holder, token |-> lease.token, age |-> 0]
      BY <1>7 DEF Heartbeat
    <2>3. TypeOK'
      BY <2>1, <2>2
    <2> QED BY <2>1, <2>2, <2>3
  <1> QED BY <1>1, <1>2, <1>3, <1>4, <1>5, <1>6, <1>7 DEF Next

(* The lease invariant holds throughout.                                   *)
THEOREM LeaseInvariant == Spec => []LeaseInv
  BY LeaseInit, LeaseNext, PTL DEF Spec

(* Only the session named in the lease can look alive.                     *)
THEOREM AtMostOneFreshMarker == Spec => []OneFreshMarker
  <1>1. LeaseInv => OneFreshMarker
    BY DEF LeaseInv
  <1> QED BY <1>1, LeaseInvariant, PTL

(* A live lease is never taken over, and the fencing token grows with      *)
(* every take-over and with nothing but a capture.                         *)
THEOREM NoLiveTakeover == Spec => TakenOnlyWhenStale
  <1>1. LeaseInv /\ [Next]_vars =>
          [/\ lease'.holder # lease.holder /\ lease.holder # Nobody => lease.age > TTL
           /\ lease'.holder # lease.holder => lease'.token > lease.token
           /\ lease'.token # lease.token =>
                 lease'.token = lease.token + 1 /\ \E s \in Sessions : Capture(s)]_vars
    <2> SUFFICES ASSUME LeaseInv, Next
                 PROVE  /\ lease'.holder # lease.holder /\ lease.holder # Nobody
                              => lease.age > TTL
                        /\ lease'.holder # lease.holder => lease'.token > lease.token
                        /\ lease'.token # lease.token =>
                              /\ lease'.token = lease.token + 1
                              /\ \E s \in Sessions : Capture(s)
      OBVIOUS
    <2>1. /\ lease = [lease EXCEPT !.file = lease.file]
          /\ lease.token \in Nat /\ lease.age \in Ages /\ TTL \in Nat
          /\ lease.holder = Nobody <=> lease.file = "absent"
      BY LeaseAssumption DEF LeaseInv, TypeOK
    <2>2. CASE \E s \in Sessions : Capture(s)
      BY <2>1, <2>2, LeaseAssumption DEF Capture, CaptureAllowed, Ages
    <2>3. CASE Heartbeat
      BY <2>1, <2>3 DEF Heartbeat, LeaseInv, TypeOK
    <2>4. CASE Tick \/ WriteMarker \/ Die \/ Spoil
      BY <2>1, <2>4 DEF Tick, WriteMarker, Die, Spoil, LeaseInv, TypeOK
    <2> QED BY <2>2, <2>3, <2>4 DEF Next
  <1> QED BY <1>1, LeaseInvariant, PTL DEF Spec, TakenOnlyWhenStale

-----------------------------------------------------------------------------
(* The Kubernetes controllers.                                             *)
AllResources == {Resources[i] : i \in DOMAIN Resources}
ReplicaRow == [at : 0..(Len(Resources) + 1), found : BOOLEAN,
               spec : [plan : RPlans, branding : BOOLEAN]]
RTaskRow == [phase : {"Pending", "Queued", "Completed", "Failed"}, job : 0..MaxK8sJobs]
EventRow == [task : RTasks, type : {"ADDED", "MODIFIED"},
             phase : {"Pending", "Queued", "Completed", "Failed"}, job : 0..MaxK8sJobs]

TenantTypes ==
    /\ tenantSpec \in [plan : RPlans, branding : BOOLEAN, edits : 0..MaxUpdates]
    /\ tstatus \in [phase : {"none", "Ready"}, branding : BOOLEAN]
    /\ made \in [AllResources -> RPlans \cup {"none", "made"}]
    /\ replica \in [Replicas -> ReplicaRow]
    /\ apiFails \in 0..MaxApi

(* There, or its absence forgiven.                                         *)
Provided(res) == made[res] # "none" \/ (res = "credential" /\ skipped)
ProvidedNext(res) == made'[res] # "none" \/ (res = "credential" /\ skipped')

(* A reconcile has provided what its spec wants of the steps it has passed, *)
(* and nothing that was made is removed.                                   *)
ReconcileInv ==
    \A r \in Replicas : \A i \in DOMAIN Resources :
       i < replica[r].at /\ Resources[i] \in Wanted(replica[r].spec.branding) => Provided(Resources[i])

TenantIInv == TenantTypes /\ ReconcileInv /\ ReadyIsComplete /\ NamespaceFirst

JobsOf(t) == {i \in DOMAIN k8sJobs : k8sJobs[i].task = t}
Unsettled(t) == rtask[t].phase = "Pending" /\ handling.task # t

TaskTypes ==
    /\ rtask \in [RTasks -> RTaskRow]
    /\ k8sJobs \in Seq([task : RTasks, end : {"running", "succeeded", "failed"}])
    /\ Len(k8sJobs) <= MaxK8sJobs
    /\ watched \in Seq(EventRow)
    /\ handling \in [up : BOOLEAN, task : RTasks \cup {NoJob}, job : 0..MaxK8sJobs]
    /\ handling.job <= Len(k8sJobs)
    /\ ~handling.up => handling = Stopped /\ watched = <<>>
    /\ rlost \in [RTasks -> Nat]
    /\ apiFails \in 0..MaxApi

(* A task that is still Pending and not in hand has a Job only for a lost  *)
(* status; the first event of the watch that calls it Pending is right.    *)
CreatedInv ==
    /\ \A t \in RTasks :
          Cardinality(JobsOf(t)) <= IF Unsettled(t) THEN rlost[t] ELSE 1 + rlost[t]
    /\ handling.task # NoJob => rtask[handling.task].phase = "Pending"
    /\ \A i \in DOMAIN watched : watched[i].type = "ADDED" /\ PendingStill(watched[i]) =>
          Unsettled(watched[i].task)
    /\ \A i, k \in DOMAIN watched :
          i # k /\ watched[i].type = "ADDED" /\ watched[k].type = "ADDED" =>
             watched[i].task # watched[k].task

(* A task names the one Job its first status named, and so does every      *)
(* event that calls it Queued.                                             *)
NamedInv ==
    /\ \A t \in RTasks :
          /\ rtask[t].phase = "Pending" => rtask[t].job = 0
          /\ rtask[t].job <= Len(k8sJobs)
          /\ rtask[t].phase = "Completed" =>
                rtask[t].job # 0 /\ k8sJobs[rtask[t].job].end = "succeeded"
    /\ \A i \in DOMAIN watched :
          watched[i].phase = "Queued" /\ watched[i].job # 0 =>
             /\ rtask[watched[i].task].job = watched[i].job
             /\ rtask[watched[i].task].phase # "Pending"

TaskIInv == TaskTypes /\ CreatedInv /\ NamedInv


LEMMA ResourceNames ==
    /\ DOMAIN Resources = 1..Len(Resources) /\ Len(Resources) \in Nat
    /\ "namespace" \in AllResources /\ Namespaced \subseteq AllResources
    /\ \A b \in BOOLEAN : Wanted(b) \subseteq AllResources
  <1>1. DOMAIN Resources = 1..10 /\ Len(Resources) = 10
    BY DEF Resources
  <1>2. /\ Resources[1] = "namespace" /\ Resources[2] = "configmap" /\ Resources[3] = "secret"
        /\ Resources[4] = "service" /\ Resources[5] = "ingress" /\ Resources[6] = "certificate"
    BY DEF Resources
  <1> QED BY <1>1, <1>2 DEF AllResources, Namespaced, Wanted

LEMMA ReplicaRows ==
  ASSUME NEW b \in BOOLEAN, NEW p \in RPlans
  PROVE  /\ Asleep \in ReplicaRow /\ Asleep.at = 0
         /\ [at |-> 1, found |-> FALSE, spec |-> [plan |-> p, branding |-> b]] \in ReplicaRow
  BY ResourceNames DEF Asleep, ReplicaRow, RPlans

LEMMA TenantInitInv == OperatorsInit => TenantIInv
  BY ResourceNames, ReplicaRows, OperatorsAssumption
  DEF OperatorsInit, TenantIInv, TenantTypes, ReconcileInv, ReadyIsComplete, NamespaceFirst, Asleep,
      AllResources, RPlans, ReplicaRow

(* A replica that falls asleep, whatever else was made or forgiven.        *)
LEMMA RaisesInv ==
  ASSUME TenantIInv, NEW r \in Replicas, Raises(r), UNCHANGED <<tenantSpec, tstatus>>,
         made' \in [AllResources -> RPlans \cup {"none", "made"}],
         \A res \in AllResources : made[res] # "none" => made'[res] # "none",
         NamespaceFirst', skipped => skipped', apiFails' \in 0..MaxApi
  PROVE  TenantIInv'
  <1>1. replica' \in [Replicas -> ReplicaRow] /\ replica'[r].at = 0
        /\ \A q \in Replicas : q # r => replica'[q] = replica[q]
    <2>1. Asleep \in ReplicaRow /\ Asleep.at = 0
      BY ReplicaRows DEF RPlans
    <2> QED BY <2>1 DEF Raises, TenantIInv, TenantTypes
  <1>2. TenantTypes'
    BY <1>1 DEF TenantIInv, TenantTypes
  <1>3. \A res \in AllResources : Provided(res) => ProvidedNext(res)
    BY DEF Provided, ProvidedNext
  <1>4. ReconcileInv'
    <2> SUFFICES ASSUME NEW q \in Replicas, NEW i \in DOMAIN Resources, i < replica'[q].at,
                        Resources[i] \in Wanted(replica'[q].spec.branding)
                 PROVE  ProvidedNext(Resources[i])
      BY DEF ReconcileInv, Provided, ProvidedNext
    <2>1. q # r
      BY <1>1, ResourceNames
    <2>2. Provided(Resources[i])
      BY <1>1, <2>1 DEF TenantIInv, ReconcileInv
    <2> QED BY <2>2, <1>3 DEF AllResources
  <1>5. ReadyIsComplete'
    <2> SUFFICES ASSUME tstatus.phase = "Ready", NEW res \in Wanted(tstatus.branding)
                 PROVE  ProvidedNext(res)
      BY DEF ReadyIsComplete, Provided, ProvidedNext
    <2>1. Provided(res)
      BY DEF TenantIInv, ReadyIsComplete, Provided, ProvidedNext
    <2> QED BY <2>1, <1>3, ResourceNames DEF TenantIInv, TenantTypes
  <1> QED BY <1>2, <1>4, <1>5 DEF TenantIInv

(* A replica that has provided what its step is about moves on.            *)
LEMMA AdvanceInv ==
  ASSUME TenantIInv, NEW r \in Replicas, InReconcile(r), Advance(r), UNCHANGED <<tenantSpec, tstatus>>,
         made' \in [AllResources -> RPlans \cup {"none", "made"}],
         \A res \in AllResources : made[res] # "none" => made'[res] # "none",
         NamespaceFirst', skipped => skipped', apiFails' \in 0..MaxApi,
         Current(r) \in Wanted(replica[r].spec.branding) => ProvidedNext(Current(r))
  PROVE  TenantIInv'
  <1>1. /\ replica' \in [Replicas -> ReplicaRow]
        /\ replica'[r].at = replica[r].at + 1 /\ replica'[r].spec = replica[r].spec
        /\ \A q \in Replicas : q # r => replica'[q] = replica[q]
    <2>1. replica[r] \in ReplicaRow /\ replica[r].at \in 1..Len(Resources)
      BY ResourceNames DEF TenantIInv, TenantTypes, InReconcile
    <2>2. [replica[r] EXCEPT !.at = @ + 1, !.found = FALSE] \in ReplicaRow
      <3>1. replica[r].at + 1 \in 0..(Len(Resources) + 1)
        BY <2>1, ResourceNames
      <3> QED BY <2>1, <3>1 DEF ReplicaRow
    <2>3. replica' = [replica EXCEPT ![r] = [replica[r] EXCEPT !.at = @ + 1, !.found = FALSE]]
      BY <2>1 DEF Advance, TenantIInv, TenantTypes, ReplicaRow
    <2> QED BY <2>1, <2>2, <2>3 DEF TenantIInv, TenantTypes, ReplicaRow
  <1>2. TenantTypes'
    BY <1>1 DEF TenantIInv, TenantTypes
  <1>3. \A res \in AllResources : Provided(res) => ProvidedNext(res)
    BY DEF Provided, ProvidedNext
  <1>4. ReconcileInv'
    <2> SUFFICES ASSUME NEW q \in Replicas, NEW i \in DOMAIN Resources, i < replica'[q].at,
                        Resources[i] \in Wanted(replica'[q].spec.branding)
                 PROVE  ProvidedNext(Resources[i])
      BY DEF ReconcileInv, Provided, ProvidedNext
    <2>1. CASE q = r /\ i = replica[r].at
      BY <1>1, <2>1 DEF Current
    <2>2. CASE q # r \/ i # replica[r].at
      <3>1. replica[q].at \in Nat /\ i \in Nat
        BY ResourceNames DEF TenantIInv, TenantTypes, ReplicaRow
      <3>2. i < replica[q].at /\ Resources[i] \in Wanted(replica[q].spec.branding)
        BY <1>1, <2>2, <3>1
      <3>3. Provided(Resources[i])
        BY <3>2 DEF TenantIInv, ReconcileInv
      <3> QED BY <3>3, <1>3 DEF AllResources
    <2> QED BY <2>1, <2>2
  <1>5. ReadyIsComplete'
    <2> SUFFICES ASSUME tstatus.phase = "Ready", NEW res \in Wanted(tstatus.branding)
                 PROVE  ProvidedNext(res)
      BY DEF ReadyIsComplete, Provided, ProvidedNext
    <2>1. Provided(res)
      BY DEF TenantIInv, ReadyIsComplete, Provided, ProvidedNext
    <2> QED BY <2>1, <1>3, ResourceNames DEF TenantIInv, TenantTypes
  <1> QED BY <1>2, <1>4, <1>5 DEF TenantIInv

LEMMA FailsCounted ==
  ASSUME ApiFails, apiFails \in 0..MaxApi
  PROVE  apiFails' \in 0..MaxApi
  BY OperatorsAssumption DEF ApiFails

LEMMA ReconcileTenantInv ==
  ASSUME TenantIInv, NEW r \in Replicas, ReconcileTenant(r) PROVE TenantIInv'
  <1>1. /\ replica' \in [Replicas -> ReplicaRow] /\ replica'[r].at = 1
        /\ \A q \in Replicas : q # r => replica'[q] = replica[q]
    <2>1. [at |-> 1, found |-> FALSE,
           spec |-> [plan |-> tenantSpec.plan, branding |-> tenantSpec.branding]] \in ReplicaRow
      BY ReplicaRows DEF TenantIInv, TenantTypes
    <2> QED BY <2>1 DEF ReconcileTenant, TenantIInv, TenantTypes
  <1>2. TenantTypes'
    BY <1>1 DEF ReconcileTenant, TenantIInv, TenantTypes
  <1>3. ReconcileInv'
    BY <1>1, ResourceNames DEF ReconcileTenant, TenantIInv, ReconcileInv, Provided, ProvidedNext
  <1>4. ReadyIsComplete' /\ NamespaceFirst'
    BY DEF ReconcileTenant, TenantIInv, ReadyIsComplete, NamespaceFirst
  <1> QED BY <1>2, <1>3, <1>4 DEF TenantIInv

LEMMA EnsureReadsInv ==
  ASSUME TenantIInv, NEW r \in Replicas, EnsureReads(r) PROVE TenantIInv'
  <1> USE DEF EnsureReads
  <1>1. /\ InReconcile(r) /\ UNCHANGED <<tenantSpec, tstatus, made, certClient>>
        /\ made \in [AllResources -> RPlans \cup {"none", "made"}] /\ apiFails \in 0..MaxApi
        /\ NamespaceFirst'
    BY DEF TenantIInv, TenantTypes, NamespaceFirst
  <1>2. /\ replica[r] \in ReplicaRow /\ Current(r) \in AllResources
        /\ replica[r].spec.branding \in BOOLEAN
    BY <1>1 DEF TenantIInv, TenantTypes, InReconcile, AllResources, Current, ReplicaRow
  <1>3. CASE Current(r) = "configmap" /\ ~replica[r].spec.branding /\ Advance(r) /\ UNCHANGED <<skipped, apiFails>>
    BY <1>1, <1>2, <1>3, AdvanceInv DEF Wanted
  <1>4. CASE Raises(r) /\ UNCHANGED <<skipped, apiFails>>
    BY <1>1, <1>4, RaisesInv
  <1>5. CASE made[Current(r)] # "none" /\ Advance(r) /\ UNCHANGED <<skipped, apiFails>>
    BY <1>1, <1>5, AdvanceInv DEF Provided, ProvidedNext, Current
  <1>6. CASE replica' = [replica EXCEPT ![r].found = TRUE] /\ UNCHANGED <<skipped, apiFails>>
    <2>1. /\ replica' \in [Replicas -> ReplicaRow]
          /\ \A q \in Replicas : replica'[q].at = replica[q].at /\ replica'[q].spec = replica[q].spec
      BY <1>2, <1>6 DEF TenantIInv, TenantTypes, ReplicaRow
    <2>2. TenantTypes'
      BY <1>1, <1>6, <2>1 DEF TenantIInv, TenantTypes
    <2>3. ReconcileInv'
      BY <1>1, <1>6, <2>1 DEF TenantIInv, ReconcileInv, Provided, ProvidedNext
    <2>4. ReadyIsComplete'
      BY <1>1, <1>6 DEF TenantIInv, ReadyIsComplete
    <2> QED BY <1>1, <2>2, <2>3, <2>4 DEF TenantIInv
  <1>7. CASE ApiFails /\ Raises(r) /\ UNCHANGED skipped
    BY <1>1, <1>7, RaisesInv, FailsCounted
  <1>8. CASE ApiFails /\ ~ReadErrorRaises(Current(r)) /\ Advance(r) /\ skipped' = TRUE
    <2>1. ProvidedNext(Current(r))
      BY <1>8 DEF ReadErrorRaises, Provided, ProvidedNext, Current
    <2> QED BY <1>1, <1>8, <2>1, AdvanceInv, FailsCounted
  <1> QED BY <1>3, <1>4, <1>5, <1>6, <1>7, <1>8

LEMMA EnsureCreatesInv ==
  ASSUME TenantIInv, NEW r \in Replicas, EnsureCreates(r) PROVE TenantIInv'
  <1> DEFINE res == Current(r)
  <1>1. /\ InReconcile(r) /\ UNCHANGED <<tenantSpec, tstatus, certClient, skipped>>
        /\ made \in [AllResources -> RPlans \cup {"none", "made"}] /\ apiFails \in 0..MaxApi
        /\ NamespaceFirst
    BY DEF TenantIInv, TenantTypes, EnsureCreates
  <1>2. replica[r] \in ReplicaRow /\ res \in AllResources
    BY <1>1 DEF TenantIInv, TenantTypes, InReconcile, AllResources, Current
  <1>3. ASSUME made[res] = "none", res \in Namespaced => made["namespace"] # "none",
               made' = [made EXCEPT ![res] = BodyOf(res, replica[r].spec)],
               (Advance(r) /\ UNCHANGED apiFails) \/ (Raises(r) /\ ApiFails)
        PROVE  TenantIInv'
    <2>1. BodyOf(res, replica[r].spec) \in RPlans \cup {"made"}
      BY <1>2 DEF BodyOf, ReplicaRow
    <2>2. "none" \notin RPlans \cup {"made"}
      BY DEF RPlans
    <2>3. /\ made' \in [AllResources -> RPlans \cup {"none", "made"}]
          /\ made'[res] # "none"
          /\ \A x \in AllResources : x # res => made'[x] = made[x]
      BY <1>1, <1>2, <1>3, <2>1, <2>2
    <2>4. NamespaceFirst'
      BY <1>1, <1>3, <2>3, ResourceNames DEF NamespaceFirst
    <2>5. \A x \in AllResources : made[x] # "none" => made'[x] # "none"
      BY <2>3
    <2>6. ProvidedNext(res)
      BY <2>3 DEF Provided, ProvidedNext, Current
    <2>7. CASE Advance(r) /\ UNCHANGED apiFails
      BY <1>1, <2>3, <2>4, <2>5, <2>6, <2>7, AdvanceInv
    <2>8. CASE Raises(r) /\ ApiFails
      BY <1>1, <2>3, <2>4, <2>5, <2>8, RaisesInv, FailsCounted
    <2> QED BY <1>3, <2>7, <2>8
  <1>4. ASSUME Raises(r), UNCHANGED made, apiFails' \in 0..MaxApi
        PROVE  TenantIInv'
    <2>1. NamespaceFirst'
      BY <1>1, <1>4 DEF NamespaceFirst
    <2> QED BY <1>1, <1>4, <2>1, RaisesInv
  <1> QED BY <1>1, <1>3, <1>4, FailsCounted DEF EnsureCreates

LEMMA PatchStatusInv ==
  ASSUME TenantIInv, NEW r \in Replicas, PatchStatus(r) PROVE TenantIInv'
  <1>1. /\ replica[r].at = Len(Resources) + 1 /\ Raises(r)
        /\ UNCHANGED <<tenantSpec, made, certClient, skipped>>
        /\ made \in [AllResources -> RPlans \cup {"none", "made"}] /\ apiFails \in 0..MaxApi
        /\ NamespaceFirst'
    BY DEF TenantIInv, TenantTypes, PatchStatus, NamespaceFirst
  <1>2. CASE ApiFails /\ UNCHANGED tstatus
    BY <1>1, <1>2, RaisesInv, FailsCounted
  <1>3. CASE tstatus' = [phase |-> "Ready", branding |-> replica[r].spec.branding] /\ UNCHANGED apiFails
    <2>1. replica' \in [Replicas -> ReplicaRow] /\ replica'[r].at = 0
          /\ \A q \in Replicas : q # r => replica'[q] = replica[q]
      <3>1. Asleep \in ReplicaRow /\ Asleep.at = 0
        BY ReplicaRows DEF RPlans
      <3> QED BY <1>1, <3>1 DEF Raises, TenantIInv, TenantTypes
    <2>2. TenantTypes'
      BY <1>1, <1>3, <2>1 DEF TenantIInv, TenantTypes, ReplicaRow
    <2>3. ReconcileInv'
      BY <1>1, <2>1, ResourceNames DEF TenantIInv, ReconcileInv, Provided, ProvidedNext
    <2>4. ReadyIsComplete'
      <3> SUFFICES ASSUME NEW res \in Wanted(replica[r].spec.branding)
                   PROVE  ProvidedNext(res)
        BY <1>3 DEF ReadyIsComplete, Provided, ProvidedNext
      <3>1. PICK i \in DOMAIN Resources : res = Resources[i]
        BY DEF Wanted
      <3>2. Provided(res)
        BY <1>1, <3>1, ResourceNames DEF TenantIInv, ReconcileInv
      <3> QED BY <1>1, <3>2 DEF Provided, ProvidedNext
    <2> QED BY <1>1, <2>2, <2>3, <2>4 DEF TenantIInv
  <1> QED BY <1>2, <1>3 DEF PatchStatus

LEMMA EditTenantInv == TenantIInv /\ EditTenant => TenantIInv'
  BY OperatorsAssumption DEF EditTenant, TenantIInv, TenantTypes, ReconcileInv, ReadyIsComplete,
     NamespaceFirst, Provided, ProvidedNext

LEMMA PodDiesInv ==
  ASSUME TenantIInv, NEW r \in Replicas, PodDies(r) PROVE TenantIInv'
  <1>1. /\ UNCHANGED <<tenantSpec, tstatus, made, skipped>> /\ Raises(r) /\ ApiFails
        /\ made \in [AllResources -> RPlans \cup {"none", "made"}] /\ apiFails \in 0..MaxApi
        /\ NamespaceFirst'
    BY DEF TenantIInv, TenantTypes, PodDies, NamespaceFirst
  <1> QED BY <1>1, RaisesInv, FailsCounted

(* A step of the task controller is a stutter of the tenant's state but    *)
(* for the failures of the API server.                                     *)
LEMMA TenantNextInv == TenantIInv /\ TenantNext => TenantIInv'
  BY ReconcileTenantInv, EnsureReadsInv, EnsureCreatesInv, PatchStatusInv, EditTenantInv, PodDiesInv
  DEF TenantNext

LEMMA TenantStutters ==
  ASSUME TenantIInv, UNCHANGED tenantvars, apiFails' \in 0..MaxApi PROVE TenantIInv'
  BY DEF TenantIInv, TenantTypes, ReconcileInv, ReadyIsComplete, NamespaceFirst, Provided, ProvidedNext, tenantvars


LEMMA TaskInitInv == OperatorsInit => TaskIInv
  <1> SUFFICES ASSUME OperatorsInit PROVE TaskIInv
    OBVIOUS
  <1>1. TaskTypes
    BY OperatorsAssumption DEF OperatorsInit, TaskTypes, RTaskRow, EventRow, Stopped
  <1>2. \A t \in RTasks : JobsOf(t) = {} /\ Cardinality(JobsOf(t)) = 0
    BY FS_EmptySet DEF OperatorsInit, JobsOf
  <1> QED BY <1>1, <1>2, OperatorsAssumption DEF OperatorsInit, TaskIInv, CreatedInv, NamedInv, Unsettled, Stopped

LEMMA StartWatchInv == TaskIInv /\ StartWatch => TaskIInv'
  <1> SUFFICES ASSUME TaskIInv, StartWatch PROVE TaskIInv'
    OBVIOUS
  <1>1. PICK order \in [1..Cardinality(RTasks) -> RTasks] :
            /\ \A i, k \in DOMAIN order : i # k => order[i] # order[k]
            /\ watched' = [i \in DOMAIN order |-> Event(order[i], "ADDED")]
    BY DEF StartWatch
  <1>2. /\ handling = Stopped /\ handling' = Watching
        /\ UNCHANGED <<rtask, k8sJobs, rlost, touched, apiFails>>
    BY DEF StartWatch
  <1>3. Cardinality(RTasks) \in Nat
    BY OperatorsAssumption, FS_CardinalityType
  <1>4. /\ DOMAIN watched' = 1..Cardinality(RTasks)
        /\ \A i \in DOMAIN watched' :
              /\ watched'[i] \in EventRow /\ watched'[i].type = "ADDED"
              /\ order[i] \in RTasks /\ watched'[i].task = order[i]
              /\ watched'[i].phase = rtask[order[i]].phase /\ watched'[i].job = rtask[order[i]].job
    BY <1>1 DEF Event, EventRow, TaskIInv, TaskTypes, RTaskRow
  <1>5. watched' \in Seq(EventRow)
    <2>1. watched' \in [1..Cardinality(RTasks) -> EventRow]
      BY <1>1, <1>4
    <2> QED BY <1>3, <2>1
  <1>6. TaskTypes'
    BY <1>2, <1>5, OperatorsAssumption DEF TaskIInv, TaskTypes, Watching
  <1>7. \A t \in RTasks : Unsettled(t)' <=> Unsettled(t)
    BY <1>2 DEF Unsettled, Stopped, Watching
  <1>8. CreatedInv'
    <2>1. \A t \in RTasks : Cardinality(JobsOf(t))' <= IF Unsettled(t)' THEN rlost'[t] ELSE 1 + rlost'[t]
      BY <1>2, <1>7 DEF TaskIInv, CreatedInv, JobsOf
    <2>2. \A i \in DOMAIN watched' : PendingStill(watched'[i]) =>
              rtask'[watched'[i].task].phase = "Pending" /\ handling'.task # watched'[i].task
      BY <1>2, <1>4, OperatorsAssumption DEF PendingStill, Watching
    <2>3. \A i, k \in DOMAIN watched' : i # k => watched'[i].task # watched'[k].task
      BY <1>1, <1>4
    <2>4. handling'.task = NoJob
      BY <1>2 DEF Watching
    <2> QED BY <2>1, <2>2, <2>3, <2>4 DEF CreatedInv, Unsettled, PendingStill
  <1>9. NamedInv'
    BY <1>2, <1>4 DEF TaskIInv, NamedInv
  <1> QED BY <1>6, <1>8, <1>9 DEF TaskIInv


(* What is left of the event stream once its first event was taken.        *)
LEMMA TailEvents ==
  ASSUME TaskIInv, watched # <<>>
  PROVE  /\ Head(watched) = watched[1] /\ 1 \in DOMAIN watched /\ watched[1] \in EventRow
         /\ Tail(watched) \in Seq(EventRow)
         /\ \A i \in DOMAIN Tail(watched) :
               i + 1 \in DOMAIN watched /\ i + 1 # 1 /\ Tail(watched)[i] = watched[i + 1]
  BY DEF TaskIInv, TaskTypes

(* The status of a task is patched, or the patch is lost, while the events *)
(* of rest wait; the Job named first stays.                                *)
LEMMA SaysStatusInv ==
  ASSUME TaskIInv, NEW t \in RTasks, NEW ph \in {"Queued", "Failed", "Completed"},
         NEW job \in 0..Len(k8sJobs), NEW rest \in Seq(EventRow), NEW d \in {0, 1},
         \A i \in DOMAIN rest : i + d \in DOMAIN watched /\ rest[i] = watched[i + d],
         SaysStatus(t, ph, job, rest), handling.task \in {NoJob, t}, handling' = Watching,
         ~Unsettled(t), job # 0 => rtask[t].phase = "Pending",
         ph = "Completed" => job = 0 /\ rtask[t].job # 0 /\ k8sJobs[rtask[t].job].end = "succeeded",
         UNCHANGED <<k8sJobs, touched>>
  PROVE  TaskIInv'
  <1> DEFINE s == [phase |-> ph, job |-> IF job = 0 THEN rtask[t].job ELSE job]
  <1>0. /\ rtask \in [RTasks -> RTaskRow] /\ rlost \in [RTasks -> Nat] /\ Len(k8sJobs) \in Nat
        /\ Len(k8sJobs) <= MaxK8sJobs /\ MaxK8sJobs \in Nat /\ NoJob \notin RTasks
        /\ rest \in Seq(EventRow)
    BY OperatorsAssumption DEF TaskIInv, TaskTypes
  <1>1. s \in RTaskRow /\ EventNow(t, "MODIFIED", s) \in EventRow /\ s.job <= Len(k8sJobs)
    BY <1>0 DEF TaskIInv, NamedInv, RTaskRow, EventRow, EventNow
  <1>2. handling'.task = NoJob /\ handling'.up
    BY DEF Watching
  <1>3. \A u \in RTasks : JobsOf(u)' = JobsOf(u)
    BY DEF JobsOf
  <1>a. \A i \in DOMAIN watched : watched[i] \in EventRow /\ watched[i].task \in RTasks
    <2>1. \A i \in DOMAIN watched : watched[i] \in EventRow
      BY DEF TaskIInv, TaskTypes
    <2> QED BY <2>1 DEF EventRow
  <1>b. Cardinality(JobsOf(t)) <= 1 + rlost[t]
    BY DEF TaskIInv, CreatedInv
  <1>c. \A u \in RTasks : u # t =>
           Cardinality(JobsOf(u)) <= IF Unsettled(u) THEN rlost[u] ELSE 1 + rlost[u]
    BY DEF TaskIInv, CreatedInv
  <1>4. CASE /\ rtask' = [rtask EXCEPT ![t] = s]
             /\ watched' = Append(rest, EventNow(t, "MODIFIED", s))
             /\ UNCHANGED <<rlost, apiFails>>
    <2>1. /\ rtask' \in [RTasks -> RTaskRow] /\ rtask'[t] = s
          /\ \A u \in RTasks : u # t => rtask'[u] = rtask[u]
      BY <1>0, <1>1, <1>4
    <2>2. /\ watched' \in Seq(EventRow) /\ Len(watched') = Len(rest) + 1
          /\ DOMAIN watched' = 1..(Len(rest) + 1) /\ DOMAIN rest = 1..Len(rest) /\ Len(rest) \in Nat
          /\ \A i \in DOMAIN rest : watched'[i] = rest[i]
          /\ watched'[Len(rest) + 1] = EventNow(t, "MODIFIED", s)
      BY <1>0, <1>1, <1>4
    <2>3. \A i \in DOMAIN watched' :
             \/ i \in DOMAIN rest /\ i + d \in DOMAIN watched /\ watched'[i] = watched[i + d]
             \/ i = Len(rest) + 1 /\ watched'[i] = EventNow(t, "MODIFIED", s)
      BY <2>2
    <2>4. TaskTypes'
      BY <1>4, <2>1, <2>2, <1>2, OperatorsAssumption DEF TaskIInv, TaskTypes, Watching
    <2>5. CreatedInv'
      <3>1. \A u \in RTasks : Cardinality(JobsOf(u)) <= IF Unsettled(u)' THEN rlost[u] ELSE 1 + rlost[u]
        <4> SUFFICES ASSUME NEW u \in RTasks
                     PROVE  Cardinality(JobsOf(u)) <= IF Unsettled(u)' THEN rlost[u] ELSE 1 + rlost[u]
          OBVIOUS
        <4>1. CASE u = t
          <5>1. ~Unsettled(t)'
            BY <2>1 DEF Unsettled
          <5> QED BY <1>b, <4>1, <5>1
        <4>2. CASE u # t
          <5>1. Unsettled(u)' <=> Unsettled(u)
            BY <1>0, <1>2, <2>1, <4>2 DEF Unsettled
          <5> QED BY <1>c, <4>2, <5>1
        <4> QED BY <4>1, <4>2
      <3>2. ASSUME NEW i \in DOMAIN watched', watched'[i].type = "ADDED", watched'[i].phase = "Pending"
            PROVE  rtask'[watched'[i].task].phase = "Pending" /\ handling'.task # watched'[i].task
        <4>1. i \in DOMAIN rest /\ i + d \in DOMAIN watched /\ watched'[i] = watched[i + d]
          BY <2>3, <3>2 DEF EventNow
        <4>2. Unsettled(watched'[i].task) /\ watched'[i].task \in RTasks
          BY <1>a, <3>2, <4>1 DEF TaskIInv, CreatedInv, PendingStill
        <4> QED BY <4>2, <2>1, <1>0, <1>2 DEF Unsettled
      <3>3. ASSUME NEW i \in DOMAIN watched', NEW k \in DOMAIN watched', i # k,
                   watched'[i].type = "ADDED", watched'[k].type = "ADDED"
            PROVE  watched'[i].task # watched'[k].task
        <4>1. /\ i \in DOMAIN rest /\ i + d \in DOMAIN watched /\ watched'[i] = watched[i + d]
              /\ k \in DOMAIN rest /\ k + d \in DOMAIN watched /\ watched'[k] = watched[k + d]
          BY <2>3, <3>3 DEF EventNow
        <4>2. i + d # k + d
          BY <3>3, <2>2
        <4> QED BY <3>3, <4>1, <4>2 DEF TaskIInv, CreatedInv
      <3> QED BY <1>2, <1>3, <1>4, <3>1, <3>2, <3>3 DEF CreatedInv, Unsettled, PendingStill
    <2>6. NamedInv'
      <3>1. ASSUME NEW u \in RTasks
            PROVE  /\ rtask'[u].phase = "Pending" => rtask'[u].job = 0
                   /\ rtask'[u].job <= Len(k8sJobs)
                   /\ rtask'[u].phase = "Completed" =>
                         rtask'[u].job # 0 /\ k8sJobs[rtask'[u].job].end = "succeeded"
        BY <1>1, <2>1 DEF TaskIInv, NamedInv
      <3>2. ASSUME NEW i \in DOMAIN watched', watched'[i].phase = "Queued", watched'[i].job # 0
            PROVE  /\ rtask'[watched'[i].task].job = watched'[i].job
                   /\ rtask'[watched'[i].task].phase # "Pending"
        <4>1. CASE i = Len(rest) + 1 /\ watched'[i] = EventNow(t, "MODIFIED", s)
          BY <4>1, <2>1 DEF EventNow
        <4>2. CASE i \in DOMAIN rest /\ i + d \in DOMAIN watched /\ watched'[i] = watched[i + d]
          <5>1. /\ watched'[i].task \in RTasks
                /\ rtask[watched'[i].task].job = watched'[i].job
                /\ rtask[watched'[i].task].phase # "Pending"
            BY <1>a, <3>2, <4>2 DEF TaskIInv, NamedInv
          <5> QED BY <5>1, <2>1
        <4> QED BY <4>1, <4>2, <2>3
      <3> QED BY <3>1, <3>2 DEF NamedInv
    <2> QED BY <2>4, <2>5, <2>6 DEF TaskIInv
  <1>5. CASE ApiFails /\ rlost' = [rlost EXCEPT ![t] = @ + 1] /\ watched' = rest /\ UNCHANGED rtask
    <2>1. /\ rlost' \in [RTasks -> Nat] /\ rlost'[t] = rlost[t] + 1
          /\ \A u \in RTasks : u # t => rlost'[u] = rlost[u]
      BY <1>0, <1>5
    <2>2. TaskTypes'
      BY <1>0, <1>2, <1>5, <2>1, FailsCounted, OperatorsAssumption DEF TaskIInv, TaskTypes, Watching
    <2>3. CreatedInv'
      <3>1. \A u \in RTasks : Cardinality(JobsOf(u)) <= IF Unsettled(u)' THEN rlost'[u] ELSE 1 + rlost'[u]
        <4> SUFFICES ASSUME NEW u \in RTasks
                     PROVE  Cardinality(JobsOf(u)) <= IF Unsettled(u)' THEN rlost'[u] ELSE 1 + rlost'[u]
          OBVIOUS
        <4>0. Cardinality(JobsOf(u)) \in Nat /\ rlost[u] \in Nat
          <5>1. IsFiniteSet(1..Len(k8sJobs)) /\ DOMAIN k8sJobs = 1..Len(k8sJobs)
            BY <1>0, FS_Interval DEF TaskIInv, TaskTypes
          <5> QED BY <1>0, <5>1, FS_Subset, FS_CardinalityType DEF JobsOf
        <4>1. CASE u = t
          BY <1>b, <2>1, <4>0, <4>1
        <4>2. CASE u # t
          <5>1. Unsettled(u)' <=> Unsettled(u)
            BY <1>0, <1>2, <1>5, <4>2 DEF Unsettled
          <5> QED BY <1>c, <2>1, <4>2, <5>1
        <4> QED BY <4>1, <4>2
      <3>2. ASSUME NEW i \in DOMAIN watched', watched'[i].type = "ADDED", watched'[i].phase = "Pending"
            PROVE  rtask'[watched'[i].task].phase = "Pending" /\ handling'.task # watched'[i].task
        <4>1. i + d \in DOMAIN watched /\ watched'[i] = watched[i + d]
          BY <1>5
        <4>2. Unsettled(watched'[i].task) /\ watched'[i].task \in RTasks
          BY <1>a, <3>2, <4>1 DEF TaskIInv, CreatedInv, PendingStill
        <4> QED BY <4>2, <1>5, <1>0, <1>2 DEF Unsettled
      <3>3. ASSUME NEW i \in DOMAIN watched', NEW k \in DOMAIN watched', i # k,
                   watched'[i].type = "ADDED", watched'[k].type = "ADDED"
            PROVE  watched'[i].task # watched'[k].task
        <4>1. /\ i + d \in DOMAIN watched /\ watched'[i] = watched[i + d]
              /\ k + d \in DOMAIN watched /\ watched'[k] = watched[k + d]
              /\ i \in Nat /\ k \in Nat
          BY <1>5, <1>0
        <4>2. i + d # k + d
          BY <3>3, <4>1
        <4> QED BY <3>3, <4>1, <4>2 DEF TaskIInv, CreatedInv
      <3> QED BY <1>2, <1>3, <1>5, <3>1, <3>2, <3>3 DEF CreatedInv, Unsettled, PendingStill
    <2>4. NamedInv'
      BY <1>5 DEF TaskIInv, NamedInv
    <2> QED BY <2>2, <2>3, <2>4 DEF TaskIInv
  <1> QED BY <1>4, <1>5 DEF SaysStatus


LEMMA EventsTyped ==
  ASSUME TaskIInv
  PROVE  \A i \in DOMAIN watched :
            /\ watched[i] \in EventRow /\ watched[i].task \in RTasks
            /\ watched[i].job \in 0..MaxK8sJobs
            /\ watched[i].phase \in {"Pending", "Queued", "Completed", "Failed"}
  <1>1. \A i \in DOMAIN watched : watched[i] \in EventRow
    BY DEF TaskIInv, TaskTypes
  <1> QED BY <1>1 DEF EventRow

LEMMA JobsCounted ==
  ASSUME TaskIInv, NEW t \in RTasks
  PROVE  /\ IsFiniteSet(JobsOf(t)) /\ Cardinality(JobsOf(t)) \in Nat
         /\ JobsOf(t) \subseteq 1..Len(k8sJobs) /\ Len(k8sJobs) \in Nat
  <1>1. DOMAIN k8sJobs = 1..Len(k8sJobs) /\ Len(k8sJobs) \in Nat
    BY DEF TaskIInv, TaskTypes
  <1>2. IsFiniteSet(1..Len(k8sJobs))
    BY <1>1, FS_Interval
  <1> QED BY <1>1, <1>2, FS_Subset, FS_CardinalityType DEF JobsOf

(* An ADDED event that calls its task Pending is the first of its task, so *)
(* the Job created for it is the task's first but for the lost statuses.   *)
LEMMA DispatchesInv == TaskIInv /\ Dispatches => TaskIInv'
  <1> SUFFICES ASSUME TaskIInv, Dispatches PROVE TaskIInv'
    OBVIOUS
  <1>0. PICK t \in RTasks : t = watched[1].task
    BY TailEvents, EventsTyped DEF Dispatches
  <1> DEFINE one == Append(k8sJobs, [task |-> t, end |-> "running"])
  <1>1. /\ handling = Watching /\ watched # <<>> /\ UNCHANGED <<rtask, rlost, touched>>
        /\ Head(watched) = watched[1] /\ 1 \in DOMAIN watched /\ watched[1] \in EventRow
    BY TailEvents DEF Dispatches
  <1>2. /\ watched[1].type = "ADDED" /\ PendingStill(watched[1]) /\ Len(k8sJobs) < MaxK8sJobs
        /\ watched' = Tail(watched)
        /\ \/ /\ k8sJobs' = one
              /\ handling' = [up |-> TRUE, task |-> t, job |-> Len(one)] /\ UNCHANGED apiFails
           \/ /\ k8sJobs' \in {k8sJobs, one}
              /\ handling' = [up |-> TRUE, task |-> t, job |-> 0] /\ ApiFails
    BY <1>0, <1>1 DEF Dispatches
  <1>3. /\ k8sJobs \in Seq([task : RTasks, end : {"running", "succeeded", "failed"}])
        /\ Len(k8sJobs) \in Nat /\ MaxK8sJobs \in Nat /\ NoJob \notin RTasks
        /\ DOMAIN k8sJobs = 1..Len(k8sJobs)
    BY OperatorsAssumption DEF TaskIInv, TaskTypes
  <1>4. /\ one \in Seq([task : RTasks, end : {"running", "succeeded", "failed"}])
        /\ Len(one) = Len(k8sJobs) + 1 /\ DOMAIN one = 1..(Len(k8sJobs) + 1)
        /\ \A i \in DOMAIN k8sJobs : one[i] = k8sJobs[i]
        /\ one[Len(k8sJobs) + 1] = [task |-> t, end |-> "running"]
    BY <1>3
  <1> HIDE DEF one
  <1>5. /\ k8sJobs' \in {k8sJobs, one} /\ handling'.up /\ handling'.task = t
        /\ handling'.job \in 0..Len(k8sJobs') /\ apiFails' \in 0..MaxApi
        /\ handling' \in [up : BOOLEAN, task : RTasks \cup {NoJob}, job : 0..MaxK8sJobs]
    <2>1. apiFails \in 0..MaxApi
      BY DEF TaskIInv, TaskTypes
    <2>2. CASE /\ k8sJobs' = one
               /\ handling' = [up |-> TRUE, task |-> t, job |-> Len(one)] /\ UNCHANGED apiFails
      BY <1>2, <1>3, <1>4, <2>1, <2>2
    <2>3. CASE /\ k8sJobs' \in {k8sJobs, one}
               /\ handling' = [up |-> TRUE, task |-> t, job |-> 0] /\ ApiFails
      BY <1>2, <1>3, <1>4, <2>1, <2>3, FailsCounted
    <2> QED BY <1>2, <2>2, <2>3
  <1>6. /\ watched' \in Seq(EventRow)
        /\ \A i \in DOMAIN watched' :
              i + 1 \in DOMAIN watched /\ i + 1 # 1 /\ watched'[i] = watched[i + 1] /\ i \in Nat
    <2>1. DOMAIN Tail(watched) \subseteq Nat
      BY <1>1, TailEvents
    <2> QED BY <1>1, <1>2, <2>1, TailEvents
  <1>7. TaskTypes'
    BY <1>1, <1>3, <1>4, <1>2, <1>5, <1>6 DEF TaskIInv, TaskTypes
  <1>8. Unsettled(t)
    BY <1>0, <1>1, <1>2 DEF TaskIInv, CreatedInv
  <1>9. CreatedInv'
    <2>1. ASSUME NEW u \in RTasks
          PROVE  Cardinality(JobsOf(u)') <= IF Unsettled(u)' THEN rlost[u] ELSE 1 + rlost[u]
      <3>1. CASE u # t
        <4>1. JobsOf(u)' = JobsOf(u)
          BY <1>3, <1>4, <1>5, <3>1 DEF JobsOf
        <4>2. Unsettled(u)' <=> Unsettled(u)
          BY <1>1, <1>3, <1>5, <3>1 DEF Unsettled, Watching
        <4> QED BY <4>1, <4>2 DEF TaskIInv, CreatedInv
      <3>2. CASE u = t
        <4>1. ~Unsettled(t)'
          BY <1>5 DEF Unsettled
        <4>2. Cardinality(JobsOf(t)) <= rlost[t]
          BY <1>1, <1>8 DEF TaskIInv, CreatedInv
        <4>3. JobsOf(t)' = JobsOf(t) \/ JobsOf(t)' = JobsOf(t) \cup {Len(k8sJobs) + 1}
          <5>1. CASE k8sJobs' = k8sJobs
            BY <5>1 DEF JobsOf
          <5>2. CASE k8sJobs' = one
            BY <5>2, <1>3, <1>4 DEF JobsOf
          <5> QED BY <5>1, <5>2, <1>5
        <4>4. /\ IsFiniteSet(JobsOf(t)) /\ Cardinality(JobsOf(t)) \in Nat
              /\ Len(k8sJobs) + 1 \notin JobsOf(t)
          BY <1>1, <1>3, JobsCounted
        <4>5. Cardinality(JobsOf(t) \cup {Len(k8sJobs) + 1}) = Cardinality(JobsOf(t)) + 1
          BY <4>4, FS_AddElement
        <4>6. rlost[t] \in Nat
          BY <1>1 DEF TaskIInv, TaskTypes
        <4>7. Cardinality(JobsOf(t)') <= 1 + rlost[t]
          <5>1. CASE JobsOf(t)' = JobsOf(t)
            BY <4>2, <4>4, <4>6, <5>1
          <5>2. CASE JobsOf(t)' = JobsOf(t) \cup {Len(k8sJobs) + 1}
            <6>1. Cardinality(JobsOf(t)') = Cardinality(JobsOf(t)) + 1
              BY <4>5, <5>2
            <6> QED BY <4>2, <4>4, <4>6, <6>1
          <5> QED BY <4>3, <5>1, <5>2
        <4> QED BY <3>2, <4>1, <4>7
      <3> QED BY <3>1, <3>2
    <2>2. rtask'[handling'.task].phase = "Pending"
      BY <1>1, <1>5, <1>8 DEF Unsettled
    <2>3. ASSUME NEW i \in DOMAIN watched', watched'[i].type = "ADDED", watched'[i].phase = "Pending"
          PROVE  rtask'[watched'[i].task].phase = "Pending" /\ handling'.task # watched'[i].task
      <3>1. i + 1 \in DOMAIN watched /\ watched'[i] = watched[i + 1] /\ i + 1 # 1
        BY <1>6
      <3>2. Unsettled(watched[i + 1].task)
        BY <2>3, <3>1 DEF TaskIInv, CreatedInv, PendingStill
      <3>3. watched[i + 1].task # t
        BY <1>0, <1>1, <1>2, <2>3, <3>1 DEF TaskIInv, CreatedInv
      <3> QED BY <1>1, <1>5, <3>1, <3>2, <3>3 DEF Unsettled
    <2>4. ASSUME NEW i \in DOMAIN watched', NEW k \in DOMAIN watched', i # k,
                 watched'[i].type = "ADDED", watched'[k].type = "ADDED"
          PROVE  watched'[i].task # watched'[k].task
      <3>1. /\ i + 1 \in DOMAIN watched /\ watched'[i] = watched[i + 1] /\ i \in Nat
            /\ k + 1 \in DOMAIN watched /\ watched'[k] = watched[k + 1] /\ k \in Nat
        BY <1>6
      <3>2. i + 1 # k + 1
        BY <2>4, <3>1
      <3> QED BY <2>4, <3>1, <3>2 DEF TaskIInv, CreatedInv
    <2> QED BY <1>1, <2>1, <2>2, <2>3, <2>4 DEF CreatedInv, Unsettled, PendingStill
  <1>10. NamedInv'
    <2>1. ASSUME NEW u \in RTasks, rtask[u].phase = "Completed"
          PROVE  rtask[u].job # 0 /\ k8sJobs'[rtask[u].job].end = "succeeded"
      <3>1. rtask[u].job # 0 /\ k8sJobs[rtask[u].job].end = "succeeded" /\ rtask[u].job <= Len(k8sJobs)
            /\ rtask[u].job \in Nat
        BY <2>1 DEF TaskIInv, NamedInv, TaskTypes, RTaskRow
      <3>2. rtask[u].job \in DOMAIN k8sJobs
        BY <3>1, <1>3
      <3> QED BY <3>1, <3>2, <1>4, <1>5
    <2>2. ASSUME NEW u \in RTasks PROVE rtask[u].job <= Len(k8sJobs')
      <3>1. rtask[u].job <= Len(k8sJobs) /\ rtask[u].job \in Nat
        BY DEF TaskIInv, NamedInv, TaskTypes, RTaskRow
      <3> QED BY <3>1, <1>3, <1>4, <1>5
    <2> QED BY <1>1, <1>6, <2>1, <2>2 DEF TaskIInv, NamedInv
  <1> QED BY <1>7, <1>9, <1>10 DEF TaskIInv

LEMMA DispatchRecordedInv == TaskIInv /\ DispatchRecorded => TaskIInv'
  <1> SUFFICES ASSUME TaskIInv, DispatchRecorded PROVE TaskIInv'
    OBVIOUS
  <1> DEFINE ph == IF handling.job = 0 THEN "Failed" ELSE "Queued"
  <1>1. /\ handling.task \in RTasks /\ handling.job \in 0..Len(k8sJobs) /\ ~Unsettled(handling.task)
        /\ rtask[handling.task].phase = "Pending" /\ watched \in Seq(EventRow)
    BY DEF TaskIInv, TaskTypes, CreatedInv, DispatchRecorded, Unsettled
  <1>2. \A i \in DOMAIN watched : i + 0 \in DOMAIN watched /\ watched[i] = watched[i + 0]
    BY <1>1
  <1>3. /\ ph \in {"Queued", "Failed", "Completed"} /\ ph # "Completed"
        /\ SaysStatus(handling.task, ph, handling.job, watched) /\ handling' = Watching
        /\ UNCHANGED <<k8sJobs, touched>>
    BY DEF DispatchRecorded
  <1> HIDE DEF ph
  <1> QED BY <1>1, <1>2, <1>3, SaysStatusInv

LEMMA MonitorsInv == TaskIInv /\ Monitors => TaskIInv'
  <1> SUFFICES ASSUME TaskIInv, Monitors PROVE TaskIInv'
    OBVIOUS
  <1> DEFINE e == watched[1]
             ph == IF k8sJobs[e.job].end = "succeeded" THEN "Completed" ELSE "Failed"
  <1>1. /\ handling = Watching /\ handling' = Watching /\ watched # <<>> /\ UNCHANGED <<k8sJobs, touched>>
        /\ Head(watched) = e /\ 1 \in DOMAIN watched /\ e.task \in RTasks
        /\ Tail(watched) \in Seq(EventRow)
        /\ \A i \in DOMAIN Tail(watched) : i + 1 \in DOMAIN watched /\ Tail(watched)[i] = watched[i + 1]
    BY TailEvents, EventsTyped DEF Monitors
  <1>2. CASE /\ e.job # 0 /\ e.phase = "Queued"
             /\ SaysStatus(e.task, ph, 0, Tail(watched))
    <2>1. rtask[e.task].job = e.job /\ rtask[e.task].phase # "Pending"
      BY <1>1, <1>2 DEF TaskIInv, NamedInv
    <2>2. ph \in {"Queued", "Failed", "Completed"}
          /\ (ph = "Completed" => rtask[e.task].job # 0 /\ k8sJobs[rtask[e.task].job].end = "succeeded")
      BY <1>2, <2>1
    <2>3. ~Unsettled(e.task) /\ handling.task = NoJob /\ 0 \in 0..Len(k8sJobs) /\ 1 \in {0, 1}
      BY <1>1, <2>1 DEF Unsettled, Watching, TaskIInv, TaskTypes
    <2> HIDE DEF e, ph
    <2> QED BY <1>1, <1>2, <2>2, <2>3, SaysStatusInv
  <1>3. CASE watched' = Tail(watched) /\ UNCHANGED <<rtask, rlost, apiFails>>
    <2>1. TaskTypes'
      BY <1>1, <1>3 DEF TaskIInv, TaskTypes, Watching
    <2>2. \A i \in DOMAIN watched' : i + 1 \in DOMAIN watched /\ watched'[i] = watched[i + 1] /\ i \in Nat
      BY <1>1, <1>3
    <2>3. NamedInv'
      BY <1>1, <1>3, <2>2 DEF TaskIInv, NamedInv
    <2>4. CreatedInv'
      <3>1. ASSUME NEW i \in DOMAIN watched', NEW k \in DOMAIN watched', i # k,
                   watched'[i].type = "ADDED", watched'[k].type = "ADDED"
            PROVE  watched'[i].task # watched'[k].task
        <4>1. i + 1 # k + 1
          BY <2>2, <3>1
        <4> QED BY <2>2, <3>1, <4>1 DEF TaskIInv, CreatedInv
      <3> QED BY <1>1, <1>3, <2>2, <3>1 DEF TaskIInv, CreatedInv, Unsettled, JobsOf, PendingStill
    <2> QED BY <2>1, <2>3, <2>4 DEF TaskIInv
  <1> QED BY <1>1, <1>2, <1>3 DEF Monitors

LEMMA JobEndsInv == TaskIInv /\ JobEnds => TaskIInv'
  <1> SUFFICES ASSUME TaskIInv, JobEnds PROVE TaskIInv'
    OBVIOUS
  <1>1. PICK i \in DOMAIN k8sJobs, end \in {"succeeded", "failed"} :
           /\ k8sJobs[i].end = "running" /\ k8sJobs' = [k8sJobs EXCEPT ![i].end = end]
           /\ UNCHANGED <<rtask, watched, handling, rlost, touched, apiFails>>
    BY DEF JobEnds
  <1> DEFINE JobRow == [task : RTasks, end : {"running", "succeeded", "failed"}]
  <1>2. k8sJobs \in Seq(JobRow) /\ k8sJobs[i] \in JobRow /\ DOMAIN k8sJobs = 1..Len(k8sJobs) /\ Len(k8sJobs) \in Nat
    <2>1. k8sJobs \in Seq(JobRow)
      BY DEF TaskIInv, TaskTypes
    <2> HIDE DEF JobRow
    <2> QED BY <2>1
  <1>3. /\ k8sJobs' \in Seq(JobRow) /\ Len(k8sJobs') = Len(k8sJobs) /\ DOMAIN k8sJobs' = DOMAIN k8sJobs
        /\ \A k \in DOMAIN k8sJobs : k # i => k8sJobs'[k] = k8sJobs[k]
        /\ k8sJobs'[i].task = k8sJobs[i].task
    BY <1>1, <1>2
  <1>4. \A t \in RTasks : JobsOf(t)' = JobsOf(t)
    BY <1>3 DEF JobsOf
  <1>5. TaskTypes'
    BY <1>1, <1>3 DEF TaskIInv, TaskTypes
  <1>6. CreatedInv'
    BY <1>1, <1>4 DEF TaskIInv, CreatedInv, Unsettled
  <1>7. NamedInv'
    <2>1. ASSUME NEW t \in RTasks, rtask[t].phase = "Completed"
          PROVE  k8sJobs'[rtask[t].job].end = "succeeded"
      <3>1. /\ rtask[t].job \in DOMAIN k8sJobs /\ k8sJobs[rtask[t].job].end = "succeeded"
        BY <1>2, <2>1 DEF TaskIInv, NamedInv, TaskTypes, RTaskRow
      <3> QED BY <1>1, <1>3, <3>1
    <2> QED BY <1>1, <1>3, <2>1 DEF TaskIInv, NamedInv
  <1> QED BY <1>5, <1>6, <1>7 DEF TaskIInv

LEMMA TouchInv == ASSUME TaskIInv, NEW t \in RTasks, Touch(t) PROVE TaskIInv'
  <1> DEFINE e == Event(t, "MODIFIED")
  <1>1. /\ handling.up /\ watched' = Append(watched, e) /\ watched \in Seq(EventRow)
        /\ UNCHANGED <<rtask, k8sJobs, handling, rlost, apiFails>>
    BY DEF Touch, TaskIInv, TaskTypes
  <1>2. e \in EventRow /\ e.type = "MODIFIED" /\ e.task = t /\ e.job = rtask[t].job /\ e.phase = rtask[t].phase
    BY DEF Event, EventRow, TaskIInv, TaskTypes, RTaskRow
  <1>3. /\ watched' \in Seq(EventRow)
        /\ \A i \in DOMAIN watched' :
              (i \in DOMAIN watched /\ watched'[i] = watched[i]) \/ watched'[i] = e
    <2> HIDE DEF e
    <2> QED BY <1>1, <1>2
  <1> HIDE DEF e
  <1>4. TaskTypes'
    BY <1>1, <1>3 DEF TaskIInv, TaskTypes
  <1>5. CreatedInv'
    BY <1>1, <1>2, <1>3 DEF TaskIInv, CreatedInv, Unsettled, JobsOf
  <1>6. NamedInv'
    BY <1>1, <1>2, <1>3 DEF TaskIInv, NamedInv
  <1> QED BY <1>4, <1>5, <1>6 DEF TaskIInv

LEMMA ControllerDiesInv == TaskIInv /\ ControllerDies => TaskIInv'
  <1> SUFFICES ASSUME TaskIInv, ControllerDies PROVE TaskIInv'
    OBVIOUS
  <1>1. /\ watched' = <<>> /\ handling' = Stopped /\ ApiFails /\ UNCHANGED <<rtask, k8sJobs, touched>>
        /\ rlost' = IF handling = Watching THEN rlost ELSE [rlost EXCEPT ![handling.task] = @ + 1]
    BY DEF ControllerDies
  <1>2. rlost \in [RTasks -> Nat] /\ NoJob \notin RTasks /\ handling.task \in RTasks \cup {NoJob}
    BY OperatorsAssumption DEF TaskIInv, TaskTypes
  <1>3. rlost' \in [RTasks -> Nat] /\ \A t \in RTasks :
           rlost'[t] = (IF handling # Watching /\ handling.task = t THEN rlost[t] + 1 ELSE rlost[t])
    <2>1. CASE handling = Watching
      BY <1>1, <1>2, <2>1
    <2>2. CASE handling # Watching /\ handling.task \in RTasks
      BY <1>1, <1>2, <2>2
    <2>3. CASE handling # Watching /\ handling.task = NoJob
      BY <1>1, <1>2, <2>3
    <2> QED BY <1>2, <2>1, <2>2, <2>3
  <1>4. TaskTypes'
    BY <1>1, <1>3, FailsCounted, OperatorsAssumption DEF TaskIInv, TaskTypes, Stopped
  <1>5. CreatedInv'
    <2>1. ASSUME NEW t \in RTasks
          PROVE  Cardinality(JobsOf(t)) <= IF Unsettled(t)' THEN rlost'[t] ELSE 1 + rlost'[t]
      <3>1. Cardinality(JobsOf(t)) \in Nat /\ rlost[t] \in Nat
        BY <1>2, JobsCounted
      <3>2. Cardinality(JobsOf(t)) <= IF Unsettled(t) THEN rlost[t] ELSE 1 + rlost[t]
        BY DEF TaskIInv, CreatedInv
      <3>3. CASE handling.task = t
        BY <1>2, <1>3, <3>1, <3>2, <3>3 DEF Watching
      <3>4. CASE handling.task # t
        BY <1>1, <1>2, <1>3, <3>1, <3>2, <3>4 DEF Unsettled, Stopped
      <3> QED BY <3>3, <3>4
    <2> QED BY <1>1, <2>1 DEF CreatedInv, JobsOf, Stopped
  <1>6. NamedInv'
    BY <1>1 DEF TaskIInv, NamedInv
  <1> QED BY <1>4, <1>5, <1>6 DEF TaskIInv

LEMMA TaskNextInv == TaskIInv /\ TaskNext => TaskIInv'
  BY StartWatchInv, DispatchesInv, DispatchRecordedInv, MonitorsInv, JobEndsInv, TouchInv, ControllerDiesInv
  DEF TaskNext

LEMMA TaskStutters ==
  ASSUME TaskIInv, UNCHANGED taskvars, apiFails' \in 0..MaxApi PROVE TaskIInv'
  BY DEF TaskIInv, TaskTypes, CreatedInv, NamedInv, Unsettled, JobsOf, taskvars

OperatorsIInv == TenantIInv /\ TaskIInv

LEMMA OperatorsInitInv == OperatorsInit => OperatorsIInv
  BY TenantInitInv, TaskInitInv DEF OperatorsIInv

LEMMA OperatorsNextInv == OperatorsIInv /\ [TenantNext \/ TaskNext]_opvars => OperatorsIInv'
  <1> SUFFICES ASSUME OperatorsIInv, [TenantNext \/ TaskNext]_opvars PROVE OperatorsIInv'
    OBVIOUS
  <1>1. CASE TenantNext
    <2>1. TenantIInv'
      BY <1>1, TenantNextInv DEF OperatorsIInv
    <2> QED BY <1>1, <2>1, TaskStutters DEF OperatorsIInv, TenantNext, TenantIInv, TenantTypes
  <1>2. CASE TaskNext
    <2>1. TaskIInv'
      BY <1>2, TaskNextInv DEF OperatorsIInv
    <2> QED BY <1>2, <2>1, TenantStutters DEF OperatorsIInv, TaskNext, TaskIInv, TaskTypes
  <1>3. CASE UNCHANGED opvars
    BY <1>3, TaskStutters, TenantStutters
    DEF OperatorsIInv, TaskIInv, TaskTypes, opvars, tenantvars, taskvars
  <1> QED BY <1>1, <1>2, <1>3

LEMMA OperatorsIsSafe == OperatorsIInv => OperatorsInv /\ OperatorsTypeOK
  <1> SUFFICES ASSUME OperatorsIInv PROVE OperatorsInv /\ OperatorsTypeOK
    OBVIOUS
  <1>1. OneJobPerTask
    <2> SUFFICES ASSUME NEW t \in RTasks PROVE Cardinality(JobsOf(t)) <= 1 + rlost[t]
      BY DEF OperatorsIInv, TaskIInv, NamedInv, OneJobPerTask, JobsOf
    <2>1. Cardinality(JobsOf(t)) \in Nat /\ rlost[t] \in Nat
      BY JobsCounted DEF OperatorsIInv, TaskIInv, TaskTypes
    <2>2. Cardinality(JobsOf(t)) <= IF Unsettled(t) THEN rlost[t] ELSE 1 + rlost[t]
      BY DEF OperatorsIInv, TaskIInv, CreatedInv
    <2> QED BY <2>1, <2>2
  <1>2. OperatorsTypeOK
    <2>1. \A i \in DOMAIN watched : watched[i].type \in {"ADDED", "MODIFIED"}
      <3>1. \A i \in DOMAIN watched : watched[i] \in EventRow
        BY DEF OperatorsIInv, TaskIInv, TaskTypes
      <3> QED BY <3>1 DEF EventRow
    <2> QED BY <2>1 DEF OperatorsIInv, TenantIInv, TenantTypes, TaskIInv, TaskTypes, OperatorsTypeOK,
            AllResources, ReplicaRow, RTaskRow
  <1> QED BY <1>1, <1>2 DEF OperatorsInv, OperatorsIInv, TenantIInv


(* What the two controllers report of the cluster is so: a Ready tenant is *)
(* provisioned whatever replicas, failures and retries do to each other,   *)
(* and a task has one Job but for the statuses that were lost.             *)
THEOREM ControllersReportTruly == OperationsSpec => []OperatorsInv
  <1>1. OperationsInit => OperatorsIInv
    BY OperatorsInitInv DEF OperationsInit
  <1>2. [OperationsNext]_OperationsVars => [TenantNext \/ TaskNext]_opvars
    BY DEF OperationsNext, OperationsVars
  <1>3. OperatorsIInv /\ [OperationsNext]_OperationsVars => OperatorsIInv'
    BY <1>2, OperatorsNextInv
  <1> QED BY <1>1, <1>3, OperatorsIsSafe, PTL DEF OperationsSpec, OperationsVars

-----------------------------------------------------------------------------
(* The deploy agent.                                                       *)
DeployTypes ==
    /\ deps \in [1..Commits -> {"venv", "other"}] /\ remote \in 1..Commits
    /\ deployer \in [pc : Pcs, target : 0..Commits, mem : Known] /\ file \in Known
    /\ head \in 1..Commits /\ running \in 0..Commits
    /\ schema \subseteq 1..Commits /\ dirty \in BOOLEAN
    /\ mishaps \in 0..MaxMishaps /\ retries \in 0..MaxRetryAll
    /\ attempts \in [1..Commits -> Nat] /\ strayed \in BOOLEAN

AtWork == {"fetch", "merged", "compiled", "migrated", "restarted"}

(* What a live agent remembers is what its file says, and a deployment is  *)
(* of a later commit than the deployed one.                                *)
AgentInv ==
    /\ head <= remote /\ deployer.mem.deployed <= remote /\ file.deployed <= remote
    /\ deployer.target <= remote
    /\ deployer.pc # "down" => deployer.mem.deployed # 0 /\ file.deployed = deployer.mem.deployed
    /\ deployer.pc \in AtWork => deployer.mem.deployed < deployer.target
    /\ deployer.pc \in AtWork \ {"fetch"} => head = deployer.target

(* Until something strays, the commit named as deployed is the one that    *)
(* runs, but for the moment between the restart and its verdict.           *)
TreeInv ==
    ~strayed =>
       /\ ~Merging => head = running
       /\ deployer.pc # "restarted" =>
             /\ deployer.pc # "down" => deployer.mem.deployed = running
             /\ file.deployed \in {0, running}

(* Every commit that a reset, a restart or a reboot can bring back has the *)
(* installed dependencies, and until something strays its migrations too.  *)
InstalledInv ==
    /\ deps[head] = "venv"
    /\ running # 0 => deps[running] = "venv"
    /\ deployer.mem.deployed # 0 => deps[deployer.mem.deployed] = "venv"
    /\ file.deployed # 0 => deps[file.deployed] = "venv"
    /\ deployer.pc \in {"migrated", "restarted"} => 1..head \subseteq schema
    /\ ~strayed /\ running # 0 => 1..running \subseteq schema
    /\ ~strayed /\ deployer.pc # "down" => 1..deployer.mem.deployed \subseteq schema

(* A commit that a live agent could begin has been begun only as often as  *)
(* crashes and retries pay for.                                            *)
Settled(c) ==
    /\ deployer.pc # "down"
    /\ \/ c < remote \/ c = deployer.mem.deployed \/ c \in deployer.mem.failed
       \/ deployer.pc \in AtWork /\ deployer.target = c
AttemptsInv ==
    \A c \in 1..Commits : attempts[c] <= retries + mishaps + (IF Settled(c) THEN 1 ELSE 0)

DeployIInv == DeployTypes /\ AgentInv /\ TreeInv /\ InstalledInv /\ AttemptsInv


LEMMA DeployFacts ==
  ASSUME DeployTypes
  PROVE  /\ Commits \in Nat /\ MaxMishaps \in Nat /\ MaxRetryAll \in Nat
         /\ remote \in 1..Commits /\ head \in 1..Commits /\ running \in 0..Commits
         /\ deployer.pc \in Pcs /\ deployer.target \in 0..Commits /\ deployer.mem \in Known
         /\ deployer.mem.deployed \in 0..Commits /\ file.deployed \in 0..Commits
         /\ deployer.mem.failed \subseteq 1..Commits /\ file.failed \subseteq 1..Commits
         /\ retries \in Nat /\ mishaps \in Nat
  BY DeployBounds DEF DeployTypes, Known

LEMMA KnownRows ==
  ASSUME NEW s \in Known, NEW d \in 0..Commits, NEW f \in SUBSET (1..Commits)
  PROVE  /\ s.deployed \in 0..Commits /\ s.failed \in SUBSET (1..Commits)
         /\ [deployed |-> d, failed |-> f] \in Known
         /\ [s EXCEPT !.failed = f] = [deployed |-> s.deployed, failed |-> f]
         /\ [s EXCEPT !.deployed = d] = [deployed |-> d, failed |-> s.failed]
  BY DEF Known

LEMMA DeployInitInv == DeployInit => DeployIInv
  <1> SUFFICES ASSUME DeployInit PROVE DeployIInv
    OBVIOUS
  <1>1. DeployTypes
    <2>1. [deployed |-> 0, failed |-> {}] \in Known
      BY DeployBounds DEF Known
    <2>2. deployer \in [pc : Pcs, target : 0..Commits, mem : Known] /\ file \in Known
      BY <2>1, DeployBounds DEF DeployInit, Pcs
    <2>3. dirty \in BOOLEAN /\ strayed \in BOOLEAN
      BY DEF DeployInit
    <2>4. deps \in [1..Commits -> {"venv", "other"}] /\ schema \subseteq 1..Commits
      BY DeployBounds DEF DeployInit
    <2> QED BY <2>2, <2>3, <2>4, DeployBounds DEF DeployInit, DeployTypes
  <1>2. 1 \in 1..Commits /\ deps[1] = "venv" /\ 1..1 = {1}
    BY DeployBounds DEF DeployInit
  <1> QED BY <1>1, <1>2, DeployBounds DEF DeployInit, DeployIInv, AgentInv, TreeInv, InstalledInv, AttemptsInv,
             AtWork, Settled, Merging

(* The counts of a step that forgets no settled commit, or pays for it.    *)
LEMMA AttemptsKept ==
  ASSUME DeployIInv, DeployTypes', UNCHANGED attempts, retries' >= retries, mishaps' >= mishaps,
         \/ \A c \in 1..Commits : Settled(c) => Settled(c)'
         \/ mishaps' = mishaps + 1
  PROVE  AttemptsInv'
  <1> SUFFICES ASSUME NEW c \in 1..Commits
               PROVE  attempts[c] <= retries' + mishaps' + (IF Settled(c)' THEN 1 ELSE 0)
    BY DEF AttemptsInv
  <1>1. attempts[c] \in Nat /\ retries \in Nat /\ mishaps \in Nat /\ retries' \in Nat /\ mishaps' \in Nat
    BY DeployBounds DEF DeployIInv, DeployTypes
  <1>2. attempts[c] <= retries + mishaps + (IF Settled(c) THEN 1 ELSE 0)
    BY DEF DeployIInv, AttemptsInv
  <1>3. CASE Settled(c)
    BY <1>1, <1>2, <1>3
  <1>4. CASE ~Settled(c)
    BY <1>1, <1>2, <1>4
  <1> QED BY <1>3, <1>4

LEMMA KeepFields ==
  ASSUME DeployTypes, NEW pc \in Pcs, Keep(pc)
  PROVE  /\ deployer' \in [pc : Pcs, target : 0..Commits, mem : Known]
         /\ deployer'.pc = pc /\ deployer'.target = deployer.target /\ deployer'.mem = deployer.mem
  BY DEF DeployTypes, Keep

LEMMA RefusedFields ==
  ASSUME DeployTypes, NEW pc \in Pcs, NEW c \in 1..Commits, Refused(c, pc)
  PROVE  /\ deployer' \in [pc : Pcs, target : 0..Commits, mem : Known] /\ file' \in Known
         /\ deployer'.pc = pc /\ deployer'.target = deployer.target
         /\ deployer'.mem.deployed = deployer.mem.deployed /\ file'.deployed = deployer.mem.deployed
         /\ deployer'.mem.failed = deployer.mem.failed \cup {c}
  <1>1. Failed(deployer.mem, c) = [deployed |-> deployer.mem.deployed, failed |-> deployer.mem.failed \cup {c}]
    <2>1. deployer.mem \in Known /\ deployer.mem.failed \cup {c} \in SUBSET (1..Commits)
      BY DeployFacts
    <2> QED BY <2>1, KnownRows, DeployFacts DEF Failed
  <1>2. Failed(deployer.mem, c) \in Known
    BY <1>1, DeployFacts DEF Known
  <1>3. /\ deployer' = [deployer EXCEPT !.pc = pc, !.mem = Failed(deployer.mem, c)]
        /\ deployer \in [pc : Pcs, target : 0..Commits, mem : Known]
    BY DEF Refused, DeployTypes
  <1>4. /\ deployer' \in [pc : Pcs, target : 0..Commits, mem : Known]
        /\ deployer'.pc = pc /\ deployer'.target = deployer.target /\ deployer'.mem = Failed(deployer.mem, c)
    BY <1>2, <1>3
  <1> QED BY <1>1, <1>2, <1>4 DEF Refused

LEMMA MishapCounted ==
  ASSUME DeployTypes, Mishap PROVE mishaps' = mishaps + 1 /\ mishaps' \in 0..MaxMishaps
  BY DeployBounds DEF DeployTypes, Mishap

LEMMA AgentStartsInv == DeployIInv /\ AgentStarts => DeployIInv'
  <1> SUFFICES ASSUME DeployIInv, AgentStarts PROVE DeployIInv'
    OBVIOUS
  <1> USE DEF DeployIInv
  <1>1. /\ deployer.pc = "down" /\ deployer'.pc = "idle" /\ deployer'.target = 0
        /\ deployer'.mem = file' /\ file' \in Known
        /\ deployer' \in [pc : Pcs, target : 0..Commits, mem : Known]
        /\ file'.deployed = (IF file.deployed # 0 THEN file.deployed ELSE head)
        /\ UNCHANGED <<deps, remote, dirty, retries, head, running, schema, mishaps, attempts, strayed>>
    <2> DEFINE known == IF file.deployed # 0 THEN file ELSE [file EXCEPT !.deployed = head]
    <2>1. file \in Known /\ head \in 0..Commits /\ Commits \in Nat
      BY DeployFacts DEF DeployTypes
    <2>2. known \in Known /\ known.deployed = (IF file.deployed # 0 THEN file.deployed ELSE head)
      BY <2>1 DEF Known
    <2>3. /\ deployer.pc = "down" /\ deployer' = [pc |-> "idle", target |-> 0, mem |-> known]
          /\ file' = known
          /\ UNCHANGED <<deps, remote, dirty, retries, head, running, schema, mishaps, attempts, strayed>>
      BY DEF AgentStarts, World
    <2> HIDE DEF known
    <2> QED BY <2>1, <2>2, <2>3 DEF Pcs
  <1>2. DeployTypes'
    BY <1>1 DEF DeployTypes
  <1>3. AgentInv'
    BY <1>1, DeployFacts DEF AgentInv, AtWork
  <1>4. TreeInv'
    BY <1>1, DeployFacts DEF TreeInv, Merging, AgentInv
  <1>5. InstalledInv'
    BY <1>1, DeployFacts DEF InstalledInv, TreeInv, Merging
  <1>6. AttemptsInv'
    BY <1>1, <1>2, DeployFacts, AttemptsKept DEF Settled
  <1> QED BY <1>2, <1>3, <1>4, <1>5, <1>6

(* A refusal that leaves the tree.                                         *)
LEMMA CiRedInv == DeployIInv /\ CiRed => DeployIInv'
  <1> SUFFICES ASSUME DeployIInv, CiRed PROVE DeployIInv'
    OBVIOUS
  <1> USE DEF DeployIInv
  <1>1. /\ deployer.pc = "idle" /\ Refused(remote, "idle") /\ "idle" \in Pcs
        /\ UNCHANGED <<deps, remote, dirty, retries, head, running, schema, mishaps, attempts, strayed>>
    BY DEF CiRed, Attemptable, World, Pcs
  <1>2. /\ deployer' \in [pc : Pcs, target : 0..Commits, mem : Known] /\ file' \in Known
        /\ deployer'.pc = "idle" /\ deployer'.target = deployer.target
        /\ deployer'.mem.deployed = deployer.mem.deployed /\ file'.deployed = deployer.mem.deployed
        /\ deployer'.mem.failed = deployer.mem.failed \cup {remote}
    BY <1>1, RefusedFields, DeployFacts
  <1>3. DeployTypes'
    BY <1>1, <1>2 DEF DeployTypes
  <1>4. AgentInv'
    BY <1>1, <1>2 DEF AgentInv, AtWork
  <1>5. TreeInv'
    BY <1>1, <1>2 DEF TreeInv, Merging, AgentInv
  <1>6. InstalledInv'
    BY <1>1, <1>2 DEF InstalledInv, AgentInv
  <1>7. AttemptsInv'
    BY <1>1, <1>2, <1>3, DeployFacts, AttemptsKept DEF Settled, AtWork
  <1> QED BY <1>3, <1>4, <1>5, <1>6, <1>7

LEMMA DeployBeginsInv == DeployIInv /\ DeployBegins => DeployIInv'
  <1> SUFFICES ASSUME DeployIInv, DeployBegins PROVE DeployIInv'
    OBVIOUS
  <1> USE DEF DeployIInv
  <1>1. /\ deployer.pc = "idle" /\ remote # deployer.mem.deployed /\ remote \notin deployer.mem.failed
        /\ deployer' \in [pc : Pcs, target : 0..Commits, mem : Known]
        /\ deployer'.pc = "fetch" /\ deployer'.target = remote /\ deployer'.mem = deployer.mem
        /\ attempts' = [attempts EXCEPT ![remote] = @ + 1]
        /\ UNCHANGED <<deps, remote, dirty, retries, file, head, running, schema, mishaps, strayed>>
    <2>1. deployer \in [pc : Pcs, target : 0..Commits, mem : Known] /\ remote \in 0..Commits
      BY DeployFacts DEF DeployTypes
    <2>2. deployer' = [deployer EXCEPT !.pc = "fetch", !.target = remote]
      BY DEF DeployBegins
    <2>3. /\ deployer' \in [pc : Pcs, target : 0..Commits, mem : Known]
          /\ deployer'.pc = "fetch" /\ deployer'.target = remote /\ deployer'.mem = deployer.mem
      BY <2>1, <2>2 DEF Pcs
    <2> QED BY <2>3 DEF DeployBegins, Attemptable, World
  <1>2. DeployTypes' /\ attempts'[remote] = attempts[remote] + 1
        /\ \A c \in 1..Commits : c # remote => attempts'[c] = attempts[c]
    BY <1>1 DEF DeployTypes
  <1>3. AgentInv'
    BY <1>1, DeployFacts DEF AgentInv, AtWork
  <1>4. TreeInv'
    BY <1>1 DEF TreeInv, Merging
  <1>5. InstalledInv'
    BY <1>1 DEF InstalledInv
  <1>6. AttemptsInv'
    <2> SUFFICES ASSUME NEW c \in 1..Commits
                 PROVE  attempts'[c] <= retries + mishaps + (IF Settled(c)' THEN 1 ELSE 0)
      BY <1>1 DEF AttemptsInv
    <2>1. attempts[c] \in Nat /\ retries \in Nat /\ mishaps \in Nat
      BY DeployFacts DEF DeployTypes
    <2>2. attempts[c] <= retries + mishaps + (IF Settled(c) THEN 1 ELSE 0)
      BY DEF AttemptsInv
    <2>3. CASE c = remote
      <3>1. ~Settled(c)
        BY <1>1, <2>3, DeployFacts DEF Settled, AtWork
      <3>2. Settled(c)'
        BY <1>1, <2>3 DEF Settled, AtWork
      <3> QED BY <1>2, <2>1, <2>2, <2>3, <3>1, <3>2
    <2>4. CASE c # remote
      <3>1. Settled(c) => Settled(c)'
        BY <1>1 DEF Settled, AtWork
      <3> QED BY <1>2, <2>1, <2>2, <2>4, <3>1
    <2> QED BY <2>3, <2>4
  <1> QED BY <1>2, <1>3, <1>4, <1>5, <1>6

LEMMA DeployRefusedInv == DeployIInv /\ DeployRefused => DeployIInv'
  <1> SUFFICES ASSUME DeployIInv, DeployRefused PROVE DeployIInv'
    OBVIOUS
  <1> USE DEF DeployIInv
  <1>1. /\ deployer.pc = "fetch" /\ Refused(deployer.target, "idle") /\ "idle" \in Pcs
        /\ deployer.target \in 1..Commits
        /\ mishaps' \in 0..MaxMishaps /\ mishaps' >= mishaps
        /\ UNCHANGED <<deps, remote, dirty, retries, head, running, schema, attempts, strayed>>
    BY DeployFacts, MishapCounted DEF DeployRefused, World, Pcs, AgentInv, AtWork, DeployTypes
  <1>2. /\ deployer' \in [pc : Pcs, target : 0..Commits, mem : Known] /\ file' \in Known
        /\ deployer'.pc = "idle" /\ deployer'.target = deployer.target
        /\ deployer'.mem.deployed = deployer.mem.deployed /\ file'.deployed = deployer.mem.deployed
        /\ deployer'.mem.failed = deployer.mem.failed \cup {deployer.target}
    BY <1>1, RefusedFields
  <1>3. DeployTypes'
    BY <1>1, <1>2 DEF DeployTypes
  <1>4. AgentInv'
    BY <1>1, <1>2 DEF AgentInv, AtWork
  <1>5. TreeInv'
    BY <1>1, <1>2 DEF TreeInv, Merging, AgentInv
  <1>6. InstalledInv'
    BY <1>1, <1>2 DEF InstalledInv, AgentInv
  <1>7. AttemptsInv'
    <2>1. \A c \in 1..Commits : Settled(c) => Settled(c)'
      BY <1>1, <1>2 DEF Settled, AtWork
    <2> QED BY <1>1, <1>3, <2>1, DeployFacts, AttemptsKept
  <1> QED BY <1>3, <1>4, <1>5, <1>6, <1>7

LEMMA FastForwardInv == DeployIInv /\ FastForward => DeployIInv'
  <1> SUFFICES ASSUME DeployIInv, FastForward PROVE DeployIInv'
    OBVIOUS
  <1> USE DEF DeployIInv
  <1>1. /\ deployer.pc = "fetch" /\ Keep("merged") /\ "merged" \in Pcs /\ head' = deployer.target
        /\ deps[deployer.mem.deployed] = deps[deployer.target] /\ deployer.target \in 1..Commits
        /\ UNCHANGED <<deps, remote, dirty, retries, file, running, schema, mishaps, attempts, strayed>>
    BY DeployFacts DEF FastForward, DepsSame, World, Pcs, AgentInv, AtWork
  <1>2. /\ deployer' \in [pc : Pcs, target : 0..Commits, mem : Known]
        /\ deployer'.pc = "merged" /\ deployer'.target = deployer.target /\ deployer'.mem = deployer.mem
    BY <1>1, KeepFields
  <1>3. DeployTypes'
    BY <1>1, <1>2 DEF DeployTypes
  <1>4. AgentInv'
    BY <1>1, <1>2 DEF AgentInv, AtWork
  <1>5. TreeInv'
    BY <1>1, <1>2 DEF TreeInv, Merging
  <1>6. InstalledInv'
    BY <1>1, <1>2 DEF InstalledInv, AgentInv
  <1>7. AttemptsInv'
    BY <1>1, <1>2, <1>3, DeployFacts, AttemptsKept DEF Settled, AtWork
  <1> QED BY <1>3, <1>4, <1>5, <1>6, <1>7

LEMMA FailsAfterMergeInv == DeployIInv /\ FailsAfterMerge => DeployIInv'
  <1> SUFFICES ASSUME DeployIInv, FailsAfterMerge PROVE DeployIInv'
    OBVIOUS
  <1> USE DEF DeployIInv
  <1>1. /\ deployer.pc \in {"merged", "compiled"} /\ Mishap /\ Refused(deployer.target, "undo") /\ "undo" \in Pcs
        /\ deployer.target \in 1..Commits
        /\ schema \subseteq schema' /\ schema' \subseteq 1..Commits
        /\ UNCHANGED <<deps, remote, dirty, retries, head, running, attempts, strayed>>
    <2>1. deployer.target \in 1..Commits
      BY DeployFacts DEF FailsAfterMerge, AgentInv, AtWork
    <2>2. \A k \in 1..head : 1..k \subseteq 1..Commits
      BY DeployFacts
    <2>3. schema \subseteq schema' /\ schema' \subseteq 1..Commits
      BY <2>2 DEF FailsAfterMerge, DeployTypes
    <2> QED BY <2>1, <2>3 DEF FailsAfterMerge, World, Pcs
  <1>2. /\ deployer' \in [pc : Pcs, target : 0..Commits, mem : Known] /\ file' \in Known
        /\ deployer'.pc = "undo" /\ deployer'.target = deployer.target
        /\ deployer'.mem.deployed = deployer.mem.deployed /\ file'.deployed = deployer.mem.deployed
        /\ deployer'.mem.failed = deployer.mem.failed \cup {deployer.target}
    BY <1>1, RefusedFields
  <1>3. DeployTypes' /\ mishaps' = mishaps + 1
    BY <1>1, <1>2, MishapCounted DEF DeployTypes
  <1>4. AgentInv'
    BY <1>1, <1>2 DEF AgentInv, AtWork
  <1>5. TreeInv'
    BY <1>1, <1>2 DEF TreeInv, Merging, AgentInv
  <1>6. InstalledInv'
    BY <1>1, <1>2 DEF InstalledInv, AgentInv
  <1>7. AttemptsInv'
    BY <1>1, <1>3, DeployFacts, AttemptsKept
  <1> QED BY <1>3, <1>4, <1>5, <1>6, <1>7

LEMMA DeployStepsInv == DeployIInv /\ (Compiles \/ Migrates \/ Restarts) => DeployIInv'
  <1> SUFFICES ASSUME DeployIInv, Compiles \/ Migrates \/ Restarts PROVE DeployIInv'
    OBVIOUS
  <1> USE DEF DeployIInv
  <1>1. PICK pc \in {"compiled", "migrated", "restarted"} :
           /\ Keep(pc) /\ deployer.pc \in {"merged", "compiled", "migrated"}
           /\ pc = "compiled" => UNCHANGED <<schema, running>>
           /\ pc = "migrated" => schema' = schema \cup (1..head) /\ UNCHANGED running
           /\ pc = "restarted" => deployer.pc = "migrated" /\ running' = head /\ UNCHANGED schema
    BY DEF Compiles, Migrates, Restarts, Migrated
  <1>2. UNCHANGED <<deps, remote, dirty, retries, file, head, mishaps, attempts, strayed>>
    BY DEF Compiles, Migrates, Restarts, World
  <1>3. /\ deployer' \in [pc : Pcs, target : 0..Commits, mem : Known]
        /\ deployer'.pc = pc /\ deployer'.target = deployer.target /\ deployer'.mem = deployer.mem
    BY <1>1, KeepFields DEF Pcs
  <1>4. DeployTypes' /\ schema \subseteq schema'
    <2>1. 1..head \subseteq 1..Commits
      BY DeployFacts
    <2>2. schema \subseteq schema' /\ schema' \subseteq 1..Commits
      BY <1>1, <2>1 DEF DeployTypes
    <2>3. running' \in 0..Commits
      BY <1>1, DeployFacts
    <2> QED BY <1>2, <1>3, <2>2, <2>3 DEF DeployTypes
  <1>5. AgentInv'
    BY <1>1, <1>2, <1>3 DEF AgentInv, AtWork
  <1>6. TreeInv'
    BY <1>1, <1>2, <1>3 DEF TreeInv, Merging, AgentInv
  <1>7. InstalledInv'
    <2>1. deployer'.pc \in {"migrated", "restarted"} => 1..head \subseteq schema'
      BY <1>1, <1>3 DEF InstalledInv
    <2>2. ~strayed /\ running' # 0 => 1..running' \subseteq schema'
      BY <1>1, <1>4, <2>1, <1>3 DEF InstalledInv
    <2>3. running' # 0 => deps[running'] = "venv"
      BY <1>1 DEF InstalledInv
    <2> QED BY <1>1, <1>2, <1>3, <1>4, <2>1, <2>2, <2>3 DEF InstalledInv
  <1>8. AttemptsInv'
    BY <1>1, <1>2, <1>3, <1>4, DeployFacts, AttemptsKept DEF Settled, AtWork
  <1> QED BY <1>4, <1>5, <1>6, <1>7, <1>8

LEMMA RestartFailsInv == DeployIInv /\ RestartFails => DeployIInv'
  <1> SUFFICES ASSUME DeployIInv, RestartFails PROVE DeployIInv'
    OBVIOUS
  <1> USE DEF DeployIInv
  <1>1. /\ deployer.pc = "migrated" /\ Mishap /\ Refused(deployer.target, "undo") /\ "undo" \in Pcs
        /\ deployer.target \in 1..Commits /\ running' \in {running, head, 0} /\ strayed' = TRUE
        /\ UNCHANGED <<deps, remote, dirty, retries, head, schema, attempts>>
    BY DeployFacts DEF RestartFails, World, Pcs, AgentInv, AtWork, Down
  <1>2. /\ deployer' \in [pc : Pcs, target : 0..Commits, mem : Known] /\ file' \in Known
        /\ deployer'.pc = "undo" /\ deployer'.target = deployer.target
        /\ deployer'.mem.deployed = deployer.mem.deployed /\ file'.deployed = deployer.mem.deployed
        /\ deployer'.mem.failed = deployer.mem.failed \cup {deployer.target}
    BY <1>1, RefusedFields
  <1>3. DeployTypes' /\ mishaps' = mishaps + 1
    <2>1. running' \in 0..Commits
      BY <1>1, DeployFacts
    <2>2. mishaps' = mishaps + 1 /\ mishaps' \in 0..MaxMishaps
      BY <1>1, MishapCounted
    <2>3. strayed' \in BOOLEAN
      BY <1>1
    <2> QED BY <1>1, <1>2, <2>1, <2>2, <2>3 DEF DeployTypes
  <1>4. AgentInv'
    BY <1>1, <1>2 DEF AgentInv, AtWork
  <1>5. TreeInv'
    BY <1>1 DEF TreeInv
  <1>6. InstalledInv'
    BY <1>1, <1>2 DEF InstalledInv, AgentInv
  <1>7. AttemptsInv'
    BY <1>1, <1>3, DeployFacts, AttemptsKept
  <1> QED BY <1>3, <1>4, <1>5, <1>6, <1>7

LEMMA RollbackTreeInv == DeployIInv /\ RollbackTree => DeployIInv'
  <1> SUFFICES ASSUME DeployIInv, RollbackTree PROVE DeployIInv'
    OBVIOUS
  <1> USE DEF DeployIInv
  <1>1. /\ deployer.pc = "undo" /\ Keep("idle") /\ "idle" \in Pcs
        /\ \/ head' = deployer.mem.deployed /\ UNCHANGED <<mishaps, strayed>>
           \/ UNCHANGED head /\ Mishap /\ strayed' = TRUE
        /\ UNCHANGED <<deps, remote, dirty, retries, file, running, schema, attempts>>
    BY DEF RollbackTree, World, Pcs, UndoTo
  <1>2. /\ deployer' \in [pc : Pcs, target : 0..Commits, mem : Known]
        /\ deployer'.pc = "idle" /\ deployer'.target = deployer.target /\ deployer'.mem = deployer.mem
    BY <1>1, KeepFields
  <1>3. DeployTypes' /\ mishaps' >= mishaps
    <2>1. deployer.mem.deployed \in 1..Commits
      BY <1>1, DeployFacts DEF AgentInv
    <2>2. mishaps' \in 0..MaxMishaps /\ mishaps' >= mishaps
      BY <1>1, MishapCounted, DeployFacts DEF DeployTypes
    <2>3. strayed' \in BOOLEAN
      BY <1>1 DEF DeployTypes
    <2> QED BY <1>1, <1>2, <2>1, <2>2, <2>3 DEF DeployTypes
  <1>4. AgentInv'
    BY <1>1, <1>2 DEF AgentInv, AtWork
  <1>5. TreeInv'
    BY <1>1, <1>2 DEF TreeInv, Merging, AgentInv
  <1>6. InstalledInv'
    BY <1>1, <1>2 DEF InstalledInv, AgentInv
  <1>7. AttemptsInv'
    BY <1>1, <1>2, <1>3, DeployFacts, AttemptsKept DEF Settled, AtWork
  <1> QED BY <1>3, <1>4, <1>5, <1>6, <1>7

LEMMA HealthyInv == DeployIInv /\ Healthy => DeployIInv'
  <1> SUFFICES ASSUME DeployIInv, Healthy PROVE DeployIInv'
    OBVIOUS
  <1> USE DEF DeployIInv
  <1>1. /\ deployer.pc = "restarted" /\ deployer.target \in 1..Commits /\ head = deployer.target
        /\ deployer.mem.deployed < deployer.target
        /\ UNCHANGED <<deps, remote, dirty, retries, head, running, schema, mishaps, attempts, strayed>>
    BY DeployFacts DEF Healthy, World, AgentInv, AtWork
  <1> DEFINE known == [deployed |-> deployer.target, failed |-> deployer.mem.failed \ {deployer.target}]
  <1>2. /\ known \in Known /\ file' = known
        /\ deployer' \in [pc : Pcs, target : 0..Commits, mem : Known] /\ deployer'.mem = known
        /\ deployer'.pc = "idle" /\ deployer'.target = deployer.target
    BY <1>1, DeployFacts DEF Healthy, Deployed, DeployTypes, Known, Pcs
  <1>3. DeployTypes'
    BY <1>1, <1>2 DEF DeployTypes
  <1>4. AgentInv'
    BY <1>1, <1>2 DEF AgentInv, AtWork
  <1>5. TreeInv'
    BY <1>1, <1>2 DEF TreeInv, Merging
  <1>6. InstalledInv'
    BY <1>1, <1>2 DEF InstalledInv
  <1>7. AttemptsInv'
    <2>1. \A c \in 1..Commits : Settled(c) => Settled(c)'
      BY <1>1, <1>2, DeployFacts DEF Settled, AtWork, AgentInv
    <2> QED BY <1>1, <1>3, <2>1, DeployFacts, AttemptsKept
  <1> QED BY <1>3, <1>4, <1>5, <1>6, <1>7

LEMMA UnhealthyInv == ASSUME DeployIInv, NEW r \in BOOLEAN, Unhealthy(r) PROVE DeployIInv'
  <1> USE DEF DeployIInv
  <1>1. /\ deployer.pc = "restarted" /\ Mishap /\ Refused(deployer.target, "idle") /\ "idle" \in Pcs
        /\ deployer.target \in 1..Commits /\ head = deployer.target
        /\ deployer.mem.deployed < deployer.target /\ deployer.mem.deployed \in 1..Commits
        /\ UNCHANGED <<deps, remote, dirty, retries, schema, attempts>>
    BY DeployFacts DEF Unhealthy, World, Pcs, AgentInv, AtWork
  <1>2. /\ deployer' \in [pc : Pcs, target : 0..Commits, mem : Known] /\ file' \in Known
        /\ deployer'.pc = "idle" /\ deployer'.target = deployer.target
        /\ deployer'.mem.deployed = deployer.mem.deployed /\ file'.deployed = deployer.mem.deployed
        /\ deployer'.mem.failed = deployer.mem.failed \cup {deployer.target}
    BY <1>1, RefusedFields
  <1>3. /\ \/ head' = deployer.mem.deployed /\ running' \in {deployer.mem.deployed, 0, running}
           \/ UNCHANGED <<head, running>> /\ strayed'
        /\ strayed' \in BOOLEAN /\ (strayed => strayed') /\ (~strayed' => running' = head')
        /\ ~strayed' => head' = deployer.mem.deployed
    BY DEF Unhealthy, Down, DeployTypes
  <1>4. DeployTypes' /\ mishaps' = mishaps + 1
    <2>1. running' \in 0..Commits /\ head' \in 1..Commits
      BY <1>1, <1>3, DeployFacts
    <2>2. mishaps' = mishaps + 1 /\ mishaps' \in 0..MaxMishaps
      BY <1>1, MishapCounted
    <2> QED BY <1>1, <1>2, <1>3, <2>1, <2>2 DEF DeployTypes
  <1>5. AgentInv'
    BY <1>1, <1>2, <1>3 DEF AgentInv, AtWork
  <1>6. TreeInv'
    BY <1>1, <1>2, <1>3 DEF TreeInv, Merging
  <1>7. InstalledInv'
    BY <1>1, <1>2, <1>3 DEF InstalledInv, AgentInv
  <1>8. AttemptsInv'
    BY <1>1, <1>4, DeployFacts, AttemptsKept
  <1> QED BY <1>4, <1>5, <1>6, <1>7, <1>8

LEMMA AroundAgentInv == DeployIInv /\ (Push \/ TreeTouched \/ RetryAll) => DeployIInv'
  <1> SUFFICES ASSUME DeployIInv, Push \/ TreeTouched \/ RetryAll PROVE DeployIInv'
    OBVIOUS
  <1> USE DEF DeployIInv
  <1>1. /\ UNCHANGED <<deps, deployer, head, running, schema, mishaps, attempts, strayed>>
        /\ remote' \in {remote, remote + 1} /\ remote' \in 1..Commits
        /\ retries' \in {retries, retries + 1} /\ retries' \in 0..MaxRetryAll
        /\ dirty' \in BOOLEAN /\ file' \in Known /\ file'.deployed = file.deployed
    <2>1. file \in Known /\ {} \in SUBSET (1..Commits)
      BY DEF DeployTypes
    <2>2. [file EXCEPT !.failed = {}] \in Known /\ [file EXCEPT !.failed = {}].deployed = file.deployed
      BY <2>1 DEF Known
    <2>3. dirty' \in BOOLEAN
      BY DEF Push, TreeTouched, RetryAll, DeployTypes
    <2>4. /\ remote' \in {remote, remote + 1} /\ remote' \in 1..Commits
          /\ retries' \in {retries, retries + 1} /\ retries' \in 0..MaxRetryAll
      BY DeployFacts DEF Push, TreeTouched, RetryAll, DeployTypes
    <2>5. file' \in {file, [file EXCEPT !.failed = {}]}
      BY DEF Push, TreeTouched, RetryAll
    <2> QED BY <2>1, <2>2, <2>3, <2>4, <2>5 DEF Push, TreeTouched, RetryAll
  <1>2. DeployTypes'
    BY <1>1 DEF DeployTypes
  <1>3. AgentInv'
    BY <1>1, DeployFacts DEF AgentInv
  <1>4. TreeInv'
    BY <1>1 DEF TreeInv, Merging
  <1>5. InstalledInv'
    BY <1>1 DEF InstalledInv
  <1>6. AttemptsInv'
    <2>1. \A c \in 1..Commits : Settled(c) => Settled(c)'
      BY <1>1, DeployFacts DEF Settled
    <2> QED BY <1>1, <1>2, <2>1, DeployFacts, AttemptsKept
  <1> QED BY <1>2, <1>3, <1>4, <1>5, <1>6

LEMMA AgentDiesInv == DeployIInv /\ (AgentCrashes \/ MachineRestarts) => DeployIInv'
  <1> SUFFICES ASSUME DeployIInv, AgentCrashes \/ MachineRestarts PROVE DeployIInv'
    OBVIOUS
  <1> USE DEF DeployIInv
  <1>1. /\ Mishap /\ Keep("down") /\ "down" \in Pcs /\ running' \in {running, head}
        /\ strayed' = (strayed \/ Merging \/ deployer.pc = "restarted")
        /\ UNCHANGED <<deps, remote, dirty, retries, file, head, schema, attempts>>
    BY DEF AgentCrashes, MachineRestarts, World, Pcs
  <1>2. /\ deployer' \in [pc : Pcs, target : 0..Commits, mem : Known]
        /\ deployer'.pc = "down" /\ deployer'.target = deployer.target /\ deployer'.mem = deployer.mem
    BY <1>1, KeepFields
  <1>3. DeployTypes' /\ mishaps' = mishaps + 1
    <2>1. strayed' \in BOOLEAN
      BY <1>1 DEF DeployTypes
    <2>2. running' \in 0..Commits
      BY <1>1, DeployFacts
    <2>3. mishaps' = mishaps + 1 /\ mishaps' \in 0..MaxMishaps
      BY <1>1, MishapCounted
    <2> QED BY <1>1, <1>2, <2>1, <2>2, <2>3 DEF DeployTypes
  <1>4. AgentInv'
    BY <1>1, <1>2 DEF AgentInv, AtWork
  <1>5. TreeInv'
    BY <1>1, <1>2 DEF TreeInv, AgentInv
  <1>6. InstalledInv'
    BY <1>1, <1>2 DEF InstalledInv, TreeInv
  <1>7. AttemptsInv'
    BY <1>1, <1>3, DeployFacts, AttemptsKept
  <1> QED BY <1>3, <1>4, <1>5, <1>6, <1>7

LEMMA DeployNextInv == DeployIInv /\ [DeployNext]_dvars => DeployIInv'
  <1>1. DeployIInv /\ UNCHANGED dvars => DeployIInv'
    BY DEF dvars, DeployIInv, DeployTypes, AgentInv, TreeInv, InstalledInv, AttemptsInv, Settled, Merging
  <1> QED BY <1>1, AgentStartsInv, CiRedInv, DeployBeginsInv, DeployRefusedInv, FastForwardInv,
             FailsAfterMergeInv, DeployStepsInv, RestartFailsInv, RollbackTreeInv, HealthyInv,
             UnhealthyInv, AroundAgentInv, AgentDiesInv DEF DeployNext

LEMMA DeployIsSafe == DeployIInv => DeployInv /\ DeployTypeOK
  <1> SUFFICES ASSUME DeployIInv PROVE DeployInv /\ DeployTypeOK
    OBVIOUS
  <1>1. HeadIsWhatRuns /\ RunsWhatIsInstalled
    BY DEF DeployIInv, TreeInv, InstalledInv, HeadIsWhatRuns, RunsWhatIsInstalled, Down
  <1>2. \A c \in 1..Commits : /\ attempts[c] \in Nat /\ attempts[c] <= 1 + retries + mishaps
                              /\ attempts[c] <= 1 + MaxRetryAll + MaxMishaps
    <2> SUFFICES ASSUME NEW c \in 1..Commits
                 PROVE  /\ attempts[c] \in Nat /\ attempts[c] <= 1 + retries + mishaps
                        /\ attempts[c] <= 1 + MaxRetryAll + MaxMishaps
      OBVIOUS
    <2>1. attempts[c] \in Nat /\ retries \in 0..MaxRetryAll /\ mishaps \in 0..MaxMishaps
      BY DEF DeployIInv, DeployTypes
    <2>2. attempts[c] <= retries + mishaps + (IF Settled(c) THEN 1 ELSE 0)
      BY DEF DeployIInv, AttemptsInv
    <2> QED BY <2>1, <2>2, DeployBounds
  <1>3. DeployTypeOK
    <2>1. attempts \in [1..Commits -> 0..(1 + MaxRetryAll + MaxMishaps)]
      BY <1>2, DeployBounds DEF DeployIInv, DeployTypes
    <2> QED BY <2>1, DeployFacts DEF DeployIInv, DeployTypes, DeployTypeOK
  <1> QED BY <1>1, <1>2, <1>3 DEF DeployInv, DeployedOnce

-----------------------------------------------------------------------------
(* The watchdog of PostgreSQL.                                             *)
WdTypes ==
    /\ pg \in {"down", "starting", "up"} /\ lock \in {"none", "stale", "alive"}
    /\ rows \in 0..MaxRows /\ peak \in 0..MaxRows /\ trouble \in 0..MaxPgTrouble
    /\ wd \in [pc : {"dead", "probe", "look", "move", "start", "end"}, kept : WdKept]
    /\ wdFile \in WdKept
    /\ startAge \in [Starts -> 0..Hour] /\ tries \subseteq Starts /\ IsFiniteSet(tries)
    /\ raced \in BOOLEAN /\ lostBudget \in BOOLEAN

(* The list in memory, and the one in the file except between a start and  *)
(* the write that follows it, hold the young starts and no others.         *)
BudgetInv ==
    ~lostBudget =>
       /\ Cardinality(Young(tries)) <= Budget
       /\ wd.pc # "dead" => Young(tries) = Young(wd.kept.restarts)
       /\ wd.pc # "end" => Young(tries) = Young(wdFile.restarts)
       /\ wd.pc \in {"look", "move", "start"} => Cardinality(Young(tries)) < Budget

LockInv ==
    /\ LiveLockKept
    /\ wd.pc = "move" /\ ~raced => pg = "down"

PeakInv == wdFile.base = peak /\ (wd.pc # "dead" => wd.kept.base = peak)

WdIInv == WdTypes /\ BudgetInv /\ LockInv /\ PeakInv

(* The migrations: a run has every file it is through with in the ledger.  *)
MigrateIInv ==
    /\ ledger \subseteq 1..Files /\ badFiles \in 0..MaxBadFiles
    /\ effects \in [1..Files -> {0, 1}]
    /\ runner \in [Runners -> [pc : {"idle", "run", "done", "failed"}, todo : SUBSET (1..Files)]]
    /\ \A r \in Runners : runner[r].pc = "run" => (1..Files) \ runner[r].todo \subseteq ledger
    /\ MigrationsWhole

(* The drift check: while the relay takes alerts, what was announced last  *)
(* is what was told.                                                       *)
DriftIInv ==
    /\ env \subseteq Problem
    /\ drift \in [signature : SUBSET Problem, age : 0..Throttle, told : SUBSET Problem,
                  last : SUBSET Problem, fails : 0..MaxRelayFails]
    /\ drift.fails = 0 => drift.told = drift.last /\ drift.signature = drift.last

OpsIInv == WdIInv /\ MigrateIInv /\ DriftIInv


LEMMA SmallerOf == ASSUME NEW m \in Nat, NEW n \in Nat PROVE Min({m, n}) = IF m <= n THEN m ELSE n
  <1> DEFINE k == IF m <= n THEN m ELSE n
  <1>1. k \in {m, n} /\ \A y \in {m, n} : k <= y
    OBVIOUS
  <1>2. \A x \in {m, n} : (\A y \in {m, n} : x <= y) => x = k
    OBVIOUS
  <1> QED BY <1>1, <1>2 DEF Min

LEMMA LargerOf == ASSUME NEW m \in Nat, NEW n \in Nat PROVE Max({m, n}) = IF m >= n THEN m ELSE n
  <1> DEFINE k == IF m >= n THEN m ELSE n
  <1>1. k \in {m, n} /\ \A y \in {m, n} : k >= y
    OBVIOUS
  <1>2. \A x \in {m, n} : (\A y \in {m, n} : x >= y) => x = k
    OBVIOUS
  <1> QED BY <1>1, <1>2 DEF Max

LEMMA LeastOfSet ==
  ASSUME NEW T \in SUBSET Nat, T # {} PROVE Min(T) \in T /\ \A y \in T : Min(T) <= y
  BY LeastNumber DEF Min

LEMMA WdInitInv == WatchdogInit => WdIInv
  <1> SUFFICES ASSUME WatchdogInit PROVE WdIInv
    OBVIOUS
  <1>1. wdFile \in WdKept /\ 1 \in 0..MaxRows /\ wdFile.base = 1
    BY OpsBounds DEF WatchdogInit, WdKept
  <1>2. raced \in BOOLEAN /\ lostBudget \in BOOLEAN
    BY DEF WatchdogInit
  <1>3. WdTypes
    BY <1>1, <1>2, OpsBounds, FS_EmptySet DEF WatchdogInit, WdTypes
  <1>4. Young(tries) = {} /\ Young(wdFile.restarts) = {} /\ wd.kept = wdFile /\ Cardinality({}) = 0
    BY FS_EmptySet DEF WatchdogInit, Young
  <1> QED BY <1>1, <1>3, <1>4, OpsBounds DEF WatchdogInit, WdIInv, BudgetInv, LockInv, LiveLockKept, PeakInv

(* The facts about the state that the steps below use.                     *)
LEMMA WdFacts ==
  ASSUME WdIInv
  PROVE  /\ wd.kept \in WdKept /\ wdFile \in WdKept
         /\ wd.kept.restarts \subseteq Starts /\ wdFile.restarts \subseteq Starts
         /\ wd.kept.base \in 0..MaxRows /\ wdFile.base \in 0..MaxRows
         /\ IsFiniteSet(Young(tries)) /\ Cardinality(Young(tries)) \in Nat /\ Budget \in Nat /\ Hour \in Nat
         /\ Young(tries) \subseteq tries
  <1>1. Young(tries) \subseteq tries /\ IsFiniteSet(tries)
    BY DEF Young, WdIInv, WdTypes
  <1> QED BY <1>1, FS_Subset, FS_CardinalityType, OpsBounds DEF WdIInv, WdTypes, WdKept

(* A step that leaves the lists and the ages alone, and the watchdog too   *)
(* or somewhere in its round.                                              *)
LEMMA BudgetUntouched ==
  ASSUME BudgetInv, UNCHANGED <<wdFile, startAge, tries>>, wd'.kept = wd.kept,
         wd'.pc = wd.pc \/ (wd.pc \in {"look", "move"} /\ wd'.pc \in {"move", "start"}) \/ wd'.pc = "dead",
         lostBudget => lostBudget', wd.pc = "end" /\ wd'.pc = "dead" => lostBudget'
  PROVE  BudgetInv'
  <1>1. /\ Young(tries)' = Young(tries) /\ Young(wd.kept.restarts)' = Young(wd.kept.restarts)
        /\ Young(wdFile.restarts)' = Young(wdFile.restarts)
    BY DEF Young
  <1>2. CASE wd'.pc = wd.pc
    BY <1>1, <1>2 DEF BudgetInv
  <1>3. CASE wd.pc \in {"look", "move"} /\ wd'.pc \in {"move", "start"}
    BY <1>1, <1>3 DEF BudgetInv
  <1>4. CASE wd'.pc = "dead"
    BY <1>1, <1>4 DEF BudgetInv
  <1> QED BY <1>2, <1>3, <1>4

LEMMA WdProbeInv == WdIInv /\ WdProbe => WdIInv'
  <1> SUFFICES ASSUME WdIInv, WdProbe PROVE WdIInv'
    OBVIOUS
  <1> DEFINE young == Young(wd.kept.restarts)
             kept == [wd.kept EXCEPT !.restarts = young]
             to == IF pg = "up" \/ Cardinality(young) >= Budget THEN "end" ELSE "look"
  <1>1. /\ wd.pc = "probe" /\ wd' = [pc |-> to, kept |-> kept]
        /\ UNCHANGED <<pg, lock, rows, wdFile, startAge, tries, peak, trouble, raced, lostBudget>>
    BY DEF WdProbe
  <1>2. young \subseteq Starts /\ kept \in WdKept /\ kept.restarts = young /\ kept.base = wd.kept.base
    <2>1. young \subseteq Starts
      BY WdFacts DEF Young
    <2> HIDE DEF young
    <2> QED BY <2>1, WdFacts DEF WdKept
  <1>3. to \in {"end", "look"} /\ (to = "look" => ~(Cardinality(young) >= Budget))
    OBVIOUS
  <1> HIDE DEF to, kept
  <1>4. wd'.pc = to /\ wd'.kept = kept
    BY <1>1
  <1>5. WdTypes'
    BY <1>1, <1>2, <1>3 DEF WdIInv, WdTypes
  <1>6. BudgetInv'
    <2> SUFFICES ASSUME ~lostBudget PROVE BudgetInv'
      BY <1>1 DEF BudgetInv
    <2>1. Young(tries) = young /\ Young(tries) = Young(wdFile.restarts) /\ Cardinality(Young(tries)) <= Budget
      BY <1>1 DEF WdIInv, BudgetInv
    <2>2. Young(young) = young
      BY DEF Young
    <2>3. to = "look" => Cardinality(Young(tries)) < Budget
      BY <1>3, <2>1, WdFacts
    <2>4. Young(tries)' = Young(tries) /\ Young(wd.kept.restarts)' = Young(young)
          /\ Young(wdFile.restarts)' = Young(wdFile.restarts)
      BY <1>1, <1>2, <1>4 DEF Young
    <2> HIDE DEF young
    <2> QED BY <1>1, <1>3, <1>4, <2>1, <2>2, <2>3, <2>4 DEF BudgetInv
  <1>7. LockInv' /\ PeakInv'
    BY <1>1, <1>2, <1>3, <1>4 DEF WdIInv, LockInv, LiveLockKept, PeakInv
  <1> QED BY <1>5, <1>6, <1>7 DEF WdIInv

LEMMA WdGoesFields ==
  ASSUME WdIInv, NEW pc \in {"dead", "probe", "look", "move", "start", "end"}, WdGoes(pc)
  PROVE  /\ wd' \in [pc : {"dead", "probe", "look", "move", "start", "end"}, kept : WdKept]
         /\ wd'.pc = pc /\ wd'.kept = wd.kept
  BY DEF WdIInv, WdTypes, WdGoes

LEMMA WdLookMoveInv == WdIInv /\ (WdLook \/ WdMove) => WdIInv'
  <1> SUFFICES ASSUME WdIInv, WdLook \/ WdMove PROVE WdIInv'
    OBVIOUS
  <1>1. PICK pc \in {"move", "start"} :
          /\ WdGoes(pc) /\ wd.pc \in {"look", "move"}
          /\ pc = "move" => pg # "up" /\ lock = "stale"
          /\ UNCHANGED lock \/ (wd.pc = "move" /\ lock' = "none")
    BY DEF WdLook, WdMove, Clearable
  <1>2. UNCHANGED <<pg, rows, wdFile, startAge, tries, peak, trouble, raced, lostBudget>>
    BY DEF WdLook, WdMove
  <1>3. /\ wd' \in [pc : {"dead", "probe", "look", "move", "start", "end"}, kept : WdKept]
        /\ wd'.pc = pc /\ wd'.kept = wd.kept
    BY <1>1, WdGoesFields
  <1>4. WdTypes'
    BY <1>1, <1>2, <1>3 DEF WdIInv, WdTypes
  <1>5. BudgetInv'
    BY <1>1, <1>2, <1>3, BudgetUntouched DEF WdIInv
  <1>6. LockInv'
    BY <1>1, <1>2, <1>3 DEF WdIInv, WdTypes, LockInv, LiveLockKept
  <1>7. PeakInv'
    BY <1>1, <1>2, <1>3 DEF WdIInv, PeakInv
  <1> QED BY <1>4, <1>5, <1>6, <1>7 DEF WdIInv

LEMMA WdStartInv == ASSUME WdIInv, NEW ok \in BOOLEAN, WdStart(ok) PROVE WdIInv'
  <1>1. PICK k \in Starts \ (tries \cup wd.kept.restarts \cup wdFile.restarts) :
          /\ startAge' = [startAge EXCEPT ![k] = 0]
          /\ wd' = [wd EXCEPT !.pc = "end", !.kept.restarts = Counted(@, k, ok)]
          /\ tries' = Young(tries) \cup {k}
    BY DEF WdStart
  <1>2. /\ wd.pc = "start" /\ UNCHANGED <<rows, wdFile, peak, trouble, raced, lostBudget>>
        /\ pg' \in {"down", "starting", "up"} /\ lock' \in {"none", "stale", "alive"}
        /\ pg' # "down" => lock' = "alive"
    BY DEF WdStart, WdIInv, WdTypes
  <1>3. /\ wd' \in [pc : {"dead", "probe", "look", "move", "start", "end"}, kept : WdKept]
        /\ wd'.pc = "end" /\ wd'.kept.restarts = wd.kept.restarts \cup {k} /\ wd'.kept.base = wd.kept.base
    <2>1. wd \in [pc : {"dead", "probe", "look", "move", "start", "end"}, kept : WdKept]
          /\ wd.kept.restarts \cup {k} \subseteq Starts
      BY WdFacts DEF WdIInv, WdTypes
    <2>2. /\ [wd.kept EXCEPT !.restarts = wd.kept.restarts \cup {k}] \in WdKept
          /\ [wd.kept EXCEPT !.restarts = wd.kept.restarts \cup {k}].restarts = wd.kept.restarts \cup {k}
          /\ [wd.kept EXCEPT !.restarts = wd.kept.restarts \cup {k}].base = wd.kept.base
      BY <2>1, WdFacts DEF WdKept
    <2>3. wd' = [pc |-> "end", kept |-> [wd.kept EXCEPT !.restarts = wd.kept.restarts \cup {k}]]
      BY <1>1, <2>1, WdFacts DEF Counted, WdKept
    <2> QED BY <2>2, <2>3
  <1>4. /\ startAge' \in [Starts -> 0..Hour] /\ startAge'[k] = 0
        /\ \A i \in Starts : i # k => startAge'[i] = startAge[i]
    BY <1>1, OpsBounds DEF WdIInv, WdTypes
  <1>5. WdTypes'
    <2>1. tries' \subseteq Starts /\ IsFiniteSet(tries')
      BY <1>1, WdFacts, FS_AddElement DEF WdIInv, WdTypes
    <2> QED BY <1>2, <1>3, <1>4, <2>1 DEF WdIInv, WdTypes
  <1>6. BudgetInv'
    <2> SUFFICES ASSUME ~lostBudget PROVE BudgetInv'
      BY <1>2 DEF BudgetInv
    <2>1. Young(tries) = Young(wd.kept.restarts) /\ Cardinality(Young(tries)) < Budget
      BY <1>2 DEF WdIInv, BudgetInv
    <2>2. Young(tries)' = Young(wd.kept.restarts)'
      <3>1. tries \subseteq Starts /\ wd.kept.restarts \subseteq Starts
        BY WdFacts DEF WdIInv, WdTypes
      <3>2. \A i \in Starts : i \in Young(tries) <=> i \in Young(wd.kept.restarts)
        BY <2>1
      <3> QED BY <1>1, <1>3, <1>4, <3>1, <3>2 DEF Young
    <2>3. Young(tries)' \subseteq Young(tries) \cup {k} /\ k \notin Young(tries)
      BY <1>1, WdFacts DEF Young
    <2>4. Cardinality(Young(tries)') <= Budget
      <3>1. /\ IsFiniteSet(Young(tries) \cup {k})
            /\ Cardinality(Young(tries) \cup {k}) = Cardinality(Young(tries)) + 1
        BY <2>3, WdFacts, FS_AddElement
      <3>2. Cardinality(Young(tries)') <= Cardinality(Young(tries)) + 1 /\ Cardinality(Young(tries)') \in Nat
        BY <2>3, <3>1, FS_Subset, FS_CardinalityType
      <3> QED BY <2>1, <3>2, WdFacts
    <2> QED BY <1>2, <1>3, <2>2, <2>4 DEF BudgetInv
  <1>7. LockInv' /\ PeakInv'
    BY <1>2, <1>3 DEF WdIInv, LockInv, LiveLockKept, PeakInv
  <1> QED BY <1>5, <1>6, <1>7 DEF WdIInv

LEMMA WdEndInv == WdIInv /\ WdEnd => WdIInv'
  <1> SUFFICES ASSUME WdIInv, WdEnd PROVE WdIInv'
    OBVIOUS
  <1> DEFINE kept == IF pg = "up" THEN [wd.kept EXCEPT !.base = Baseline(@)] ELSE wd.kept
  <1>1. /\ wd.pc = "end" /\ wd' = [pc |-> "probe", kept |-> kept] /\ wdFile' = kept
        /\ peak' = IF pg = "up" THEN Max({peak, rows}) ELSE peak
        /\ UNCHANGED <<pg, lock, rows, startAge, tries, trouble, raced, lostBudget>>
    BY DEF WdEnd
  <1>2. /\ wd.kept.base = peak /\ peak \in Nat /\ rows \in Nat /\ peak \in 0..MaxRows /\ rows \in 0..MaxRows
    BY <1>1, OpsBounds DEF WdIInv, WdTypes, PeakInv
  <1>3. peak' = (IF pg = "up" /\ rows > peak THEN rows ELSE peak)
    BY <1>1, <1>2, LargerOf
  <1>4. kept \in WdKept /\ kept.restarts = wd.kept.restarts /\ kept.base = peak'
    BY <1>2, <1>3, WdFacts DEF WdKept, Baseline
  <1> HIDE DEF kept
  <1>5. WdTypes'
    BY <1>1, <1>2, <1>3, <1>4 DEF WdIInv, WdTypes
  <1>6. BudgetInv'
    <2>1. /\ Young(tries)' = Young(tries) /\ Young(wd.kept.restarts)' = Young(wd.kept.restarts)
          /\ Young(wdFile.restarts)' = Young(wd.kept.restarts) /\ wd'.pc = "probe"
      BY <1>1, <1>4 DEF Young
    <2> QED BY <1>1, <2>1 DEF WdIInv, BudgetInv
  <1>7. LockInv' /\ PeakInv'
    BY <1>1, <1>4 DEF WdIInv, LockInv, LiveLockKept, PeakInv
  <1> QED BY <1>5, <1>6, <1>7 DEF WdIInv

LEMMA WdTickInv == WdIInv /\ WdTick => WdIInv'
  <1> SUFFICES ASSUME WdIInv, WdTick PROVE WdIInv'
    OBVIOUS
  <1>1. /\ startAge' = [k \in Starts |-> Min({Hour, startAge[k] + 1})]
        /\ UNCHANGED <<pg, lock, rows, wd, wdFile, tries, peak, trouble, raced, lostBudget>>
    BY DEF WdTick
  <1>2. \A k \in Starts : startAge'[k] = (IF startAge[k] + 1 < Hour THEN startAge[k] + 1 ELSE Hour)
    <2> SUFFICES ASSUME NEW k \in Starts
                 PROVE  startAge'[k] = (IF startAge[k] + 1 < Hour THEN startAge[k] + 1 ELSE Hour)
      OBVIOUS
    <2>1. Hour \in Nat /\ startAge[k] + 1 \in Nat
      BY OpsBounds DEF WdIInv, WdTypes
    <2>2. Min({Hour, startAge[k] + 1}) = IF Hour <= startAge[k] + 1 THEN Hour ELSE startAge[k] + 1
      BY <2>1, SmallerOf
    <2> QED BY <1>1, <2>1, <2>2
  <1>3. startAge' \in [Starts -> 0..Hour]
    BY <1>1, <1>2, OpsBounds DEF WdIInv, WdTypes
  <1>4. WdTypes'
    BY <1>1, <1>3 DEF WdIInv, WdTypes
  <1>5. BudgetInv'
    <2> SUFFICES ASSUME ~lostBudget PROVE BudgetInv'
      BY <1>1 DEF BudgetInv
    <2>1. /\ tries \subseteq Starts /\ wd.kept.restarts \subseteq Starts /\ wdFile.restarts \subseteq Starts
          /\ startAge \in [Starts -> 0..Hour] /\ Hour \in Nat
      BY WdFacts DEF WdIInv, WdTypes
    <2>2. \A k \in Starts : startAge'[k] < Hour => startAge[k] < Hour
      BY <1>2, <2>1
    <2>3. /\ Young(tries)' = {k \in Young(tries) : startAge'[k] < Hour}
          /\ Young(wd.kept.restarts)' = {k \in Young(wd.kept.restarts) : startAge'[k] < Hour}
          /\ Young(wdFile.restarts)' = {k \in Young(wdFile.restarts) : startAge'[k] < Hour}
      BY <1>1, <2>1, <2>2 DEF Young
    <2>4. Cardinality(Young(tries)') <= Cardinality(Young(tries)) /\ Cardinality(Young(tries)') \in Nat
      BY <2>3, WdFacts, FS_Subset, FS_CardinalityType
    <2> QED BY <1>1, <2>3, <2>4, WdFacts DEF WdIInv, BudgetInv
  <1>6. LockInv' /\ PeakInv'
    BY <1>1 DEF WdIInv, LockInv, LiveLockKept, PeakInv
  <1> QED BY <1>4, <1>5, <1>6 DEF WdIInv

LEMMA PgStepInv == WdIInv /\ (PgDies \/ PgComesUp \/ StartedByHand \/ RowsChange) => WdIInv'
  <1> SUFFICES ASSUME WdIInv, PgDies \/ PgComesUp \/ StartedByHand \/ RowsChange PROVE WdIInv'
    OBVIOUS
  <1>1. /\ UNCHANGED <<wd, wdFile, startAge, tries, peak, lostBudget>>
        /\ rows' \in 0..MaxRows /\ trouble' \in 0..MaxPgTrouble
        /\ pg' \in {"down", "starting", "up"} /\ lock' \in {"none", "stale", "alive"}
    BY OpsBounds DEF PgDies, PgComesUp, StartedByHand, RowsChange, Troubled, WdIInv, WdTypes
  <1>2. raced' \in BOOLEAN
    BY DEF PgDies, PgComesUp, StartedByHand, RowsChange, WdIInv, WdTypes
  <1>3. WdTypes'
    BY <1>1, <1>2 DEF WdIInv, WdTypes
  <1>4. BudgetInv'
    BY <1>1, BudgetUntouched DEF WdIInv
  <1>5. LockInv'
    BY DEF PgDies, PgComesUp, StartedByHand, RowsChange, WdIInv, LockInv, LiveLockKept
  <1>6. PeakInv'
    BY <1>1 DEF WdIInv, PeakInv
  <1> QED BY <1>3, <1>4, <1>5, <1>6 DEF WdIInv

LEMMA WdDiesInv == WdIInv /\ WdDies => WdIInv'
  <1> SUFFICES ASSUME WdIInv, WdDies PROVE WdIInv'
    OBVIOUS
  <1>1. /\ WdGoes("dead") /\ lostBudget' = (lostBudget \/ wd.pc = "end")
        /\ UNCHANGED <<pg, lock, rows, wdFile, startAge, tries, peak, raced>> /\ trouble' \in 0..MaxPgTrouble
    BY OpsBounds DEF WdDies, Troubled, WdIInv, WdTypes
  <1>2. /\ wd' \in [pc : {"dead", "probe", "look", "move", "start", "end"}, kept : WdKept]
        /\ wd'.pc = "dead" /\ wd'.kept = wd.kept
    BY <1>1, WdGoesFields
  <1>3. lostBudget' \in BOOLEAN
    BY <1>1 DEF WdIInv, WdTypes
  <1>4. WdTypes'
    BY <1>1, <1>2, <1>3 DEF WdIInv, WdTypes
  <1>5. BudgetInv'
    BY <1>1, <1>2, BudgetUntouched DEF WdIInv
  <1>6. LockInv' /\ PeakInv'
    BY <1>1, <1>2 DEF WdIInv, LockInv, LiveLockKept, PeakInv
  <1> QED BY <1>4, <1>5, <1>6 DEF WdIInv

LEMMA WdReturnsInv == WdIInv /\ WdReturns => WdIInv'
  <1> SUFFICES ASSUME WdIInv, WdReturns PROVE WdIInv'
    OBVIOUS
  <1>1. /\ wd.pc = "dead" /\ wd' = [pc |-> "probe", kept |-> wdFile]
        /\ UNCHANGED <<pg, lock, rows, wdFile, startAge, tries, peak, trouble, raced, lostBudget>>
    BY DEF WdReturns
  <1>2. wd'.pc = "probe" /\ wd'.kept = wdFile
    BY <1>1
  <1>3. WdTypes'
    BY <1>1 DEF WdIInv, WdTypes
  <1>4. BudgetInv'
    BY <1>1, <1>2 DEF WdIInv, BudgetInv, Young
  <1>5. LockInv' /\ PeakInv'
    BY <1>1, <1>2 DEF WdIInv, LockInv, LiveLockKept, PeakInv
  <1> QED BY <1>3, <1>4, <1>5 DEF WdIInv


LEMMA WatchdogNextInv == WdIInv /\ [WatchdogNext]_wvars => WdIInv'
  <1>1. WdIInv /\ UNCHANGED wvars => WdIInv'
    BY DEF wvars, WdIInv, WdTypes, BudgetInv, LockInv, LiveLockKept, PeakInv, Young
  <1> QED BY <1>1, WdProbeInv, WdLookMoveInv, WdStartInv, WdEndInv, WdTickInv, PgStepInv, WdDiesInv,
             WdReturnsInv DEF WatchdogNext

-----------------------------------------------------------------------------
(* The migration runners.                                                  *)
RunnerRow == [pc : {"idle", "run", "done", "failed"}, todo : SUBSET (1..Files)]

LEMMA MigrateInitInv == MigrateInit => MigrateIInv
  BY OpsBounds DEF MigrateInit, MigrateIInv, MigrationsWhole, RunnerRow

(* A runner changes and the ledger does not.                               *)
LEMMA RunnerInv ==
  ASSUME MigrateIInv, NEW r \in Runners, NEW row \in RunnerRow, runner' = [runner EXCEPT ![r] = row],
         row.pc = "run" => (1..Files) \ row.todo \subseteq ledger,
         UNCHANGED <<ledger, effects>>, badFiles' \in 0..MaxBadFiles
  PROVE  MigrateIInv'
  <1>1. /\ runner' \in [Runners -> RunnerRow] /\ runner'[r] = row
        /\ \A q \in Runners : q # r => runner'[q] = runner[q]
    BY DEF MigrateIInv, RunnerRow
  <1> QED BY <1>1 DEF MigrateIInv, MigrationsWhole, RunnerRow

LEMMA RunnerPcs ==
  ASSUME MigrateIInv, NEW r \in Runners, NEW pc \in {"done", "failed"}
  PROVE  /\ [runner EXCEPT ![r].pc = pc] = [runner EXCEPT ![r] = [pc |-> pc, todo |-> runner[r].todo]]
         /\ [pc |-> pc, todo |-> runner[r].todo] \in RunnerRow
  <1>1. runner \in [Runners -> RunnerRow] /\ runner[r] \in RunnerRow
    BY DEF MigrateIInv, RunnerRow
  <1>2. [runner[r] EXCEPT !.pc = pc] = [pc |-> pc, todo |-> runner[r].todo]
        /\ [pc |-> pc, todo |-> runner[r].todo] \in RunnerRow
    BY <1>1 DEF RunnerRow
  <1>3. [runner EXCEPT ![r].pc = pc] = [runner EXCEPT ![r] = [runner[r] EXCEPT !.pc = pc]]
    BY <1>1
  <1> QED BY <1>2, <1>3

LEMMA NextFileIs ==
  ASSUME MigrateIInv, NEW r \in Runners, runner[r].todo # {}
  PROVE  /\ NextFile(r) \in runner[r].todo /\ NextFile(r) \in 1..Files
         /\ \A f \in 1..Files : f < NextFile(r) => f \notin runner[r].todo
         /\ [runner EXCEPT ![r].todo = @ \ {NextFile(r)}] =
               [runner EXCEPT ![r] = [pc |-> runner[r].pc, todo |-> runner[r].todo \ {NextFile(r)}]]
         /\ [pc |-> runner[r].pc, todo |-> runner[r].todo \ {NextFile(r)}] \in RunnerRow
  <1>1. runner[r].todo \subseteq 1..Files /\ runner[r] \in RunnerRow /\ Files \in Nat
    BY OpsBounds DEF MigrateIInv, RunnerRow
  <1>2. runner[r].todo \in SUBSET Nat
    BY <1>1
  <1>3. NextFile(r) \in runner[r].todo /\ \A f \in runner[r].todo : NextFile(r) <= f
    BY <1>2, LeastOfSet DEF NextFile
  <1>4. \A f \in 1..Files : f < NextFile(r) => f \notin runner[r].todo
    BY <1>1, <1>3
  <1>5. [pc |-> runner[r].pc, todo |-> runner[r].todo \ {NextFile(r)}] \in RunnerRow
    BY <1>1 DEF RunnerRow
  <1>6. [runner EXCEPT ![r].todo = @ \ {NextFile(r)}] =
               [runner EXCEPT ![r] = [pc |-> runner[r].pc, todo |-> runner[r].todo \ {NextFile(r)}]]
    <2>1. [runner[r] EXCEPT !.todo = runner[r].todo \ {NextFile(r)}] =
             [pc |-> runner[r].pc, todo |-> runner[r].todo \ {NextFile(r)}]
      BY <1>1 DEF RunnerRow
    <2>2. [runner EXCEPT ![r].todo = @ \ {NextFile(r)}] =
             [runner EXCEPT ![r] = [runner[r] EXCEPT !.todo = runner[r].todo \ {NextFile(r)}]]
      BY DEF MigrateIInv
    <2> QED BY <2>1, <2>2
  <1> QED BY <1>1, <1>3, <1>4, <1>5, <1>6

(* The body and its ledger row commit together, and the files before it    *)
(* are through.                                                            *)
LEMMA ApplyFileInv == ASSUME MigrateIInv, NEW r \in Runners, ApplyFile(r) PROVE MigrateIInv'
  <1> DEFINE f == NextFile(r)
  <1>1. /\ runner[r].pc = "run" /\ runner[r].todo # {} /\ ledger' = ledger \cup {f} /\ UNCHANGED badFiles
        /\ effects' = IF f \in ledger THEN effects ELSE [effects EXCEPT ![f] = @ + 1]
        /\ runner' = IF f \in ledger THEN [runner EXCEPT ![r].pc = "failed"]
                     ELSE [runner EXCEPT ![r].todo = @ \ {f}]
    BY DEF ApplyFile, Recorded, Advanced
  <1>2. /\ f \in 1..Files /\ f \in runner[r].todo
        /\ \A g \in 1..Files : g < f => g \notin runner[r].todo
        /\ [runner EXCEPT ![r].todo = @ \ {f}] =
              [runner EXCEPT ![r] = [pc |-> runner[r].pc, todo |-> runner[r].todo \ {f}]]
        /\ [pc |-> runner[r].pc, todo |-> runner[r].todo \ {f}] \in RunnerRow
    BY <1>1, NextFileIs
  <1> HIDE DEF f
  <1>3. CASE f \in ledger
    <2>1. /\ UNCHANGED <<ledger, effects>>
          /\ runner' = [runner EXCEPT ![r] = [pc |-> "failed", todo |-> runner[r].todo]]
          /\ [pc |-> "failed", todo |-> runner[r].todo] \in RunnerRow
      BY <1>1, <1>3, RunnerPcs
    <2> QED BY <1>1, <2>1, RunnerInv DEF MigrateIInv
  <1>4. CASE f \notin ledger
    <2>1. /\ runner' \in [Runners -> RunnerRow]
          /\ runner'[r] = [pc |-> "run", todo |-> runner[r].todo \ {f}]
          /\ \A q \in Runners : q # r => runner'[q] = runner[q]
      BY <1>1, <1>2, <1>4 DEF MigrateIInv, RunnerRow
    <2>2. \A q \in Runners : runner'[q].pc = "run" => (1..Files) \ runner'[q].todo \subseteq ledger'
      BY <1>1, <2>1 DEF MigrateIInv
    <2>3. effects[f] = 0
      BY <1>2, <1>4 DEF MigrateIInv, MigrationsWhole
    <2>4. /\ effects' \in [1..Files -> {0, 1}] /\ effects'[f] = 1
          /\ \A g \in 1..Files : g # f => effects'[g] = effects[g]
      BY <1>1, <1>2, <1>4, <2>3 DEF MigrateIInv
    <2>5. \A g \in 1..Files : g < f => g \in ledger
      BY <1>1, <1>2 DEF MigrateIInv
    <2>6. MigrationsWhole'
      <3> SUFFICES ASSUME NEW g \in 1..Files
                   PROVE  /\ effects'[g] = (IF g \in ledger' THEN 1 ELSE 0)
                          /\ g \in ledger' => 1..g \subseteq ledger'
        BY DEF MigrationsWhole
      <3>1. CASE g = f
        <4>1. 1..f \subseteq ledger \cup {f}
          BY <1>2, <2>5, OpsBounds
        <4> QED BY <1>1, <2>4, <3>1, <4>1
      <3>2. CASE g # f
        BY <1>1, <2>4, <3>2 DEF MigrateIInv, MigrationsWhole
      <3> QED BY <3>1, <3>2
    <2>7. ledger' \subseteq 1..Files
      BY <1>1, <1>2 DEF MigrateIInv
    <2> QED BY <1>1, <2>1, <2>2, <2>4, <2>6, <2>7 DEF MigrateIInv, RunnerRow
  <1> QED BY <1>3, <1>4

LEMMA MigrateNextInv == MigrateIInv /\ [MigrateNext]_mvars => MigrateIInv'
  <1> SUFFICES ASSUME MigrateIInv, [MigrateNext]_mvars PROVE MigrateIInv'
    OBVIOUS
  <1>0. badFiles \in 0..MaxBadFiles /\ ledger \subseteq 1..Files
    BY DEF MigrateIInv
  <1>1. CASE UNCHANGED mvars
    BY <1>1 DEF mvars, MigrateIInv, MigrationsWhole
  <1>2. ASSUME NEW r \in Runners, MigrateBegins(r) PROVE MigrateIInv'
    <2> DEFINE row == [pc |-> "run", todo |-> IF r \in Legacy THEN 1..Files ELSE (1..Files) \ ledger]
    <2>1. row \in RunnerRow /\ (1..Files) \ row.todo \subseteq ledger
      BY DEF RunnerRow
    <2>2. runner' = [runner EXCEPT ![r] = row] /\ UNCHANGED <<ledger, effects, badFiles>>
      BY <1>2 DEF MigrateBegins
    <2> HIDE DEF row
    <2> QED BY <1>0, <2>1, <2>2, RunnerInv
  <1>3. ASSUME NEW r \in Runners, SkipApplied(r) PROVE MigrateIInv'
    <2>1. /\ runner[r].pc = "run" /\ runner[r].todo # {} /\ NextFile(r) \in ledger
          /\ runner' = [runner EXCEPT ![r].todo = @ \ {NextFile(r)}]
          /\ UNCHANGED <<ledger, effects, badFiles>>
      BY <1>3 DEF SkipApplied, Advanced
    <2>2. (1..Files) \ (runner[r].todo \ {NextFile(r)}) \subseteq ledger
      BY <2>1 DEF MigrateIInv
    <2> QED BY <1>0, <2>1, <2>2, NextFileIs, RunnerInv
  <1>4. ASSUME NEW r \in Runners, FileFails(r) PROVE MigrateIInv'
    <2>1. /\ runner' = [runner EXCEPT ![r] = [pc |-> "failed", todo |-> runner[r].todo]]
          /\ [pc |-> "failed", todo |-> runner[r].todo] \in RunnerRow
          /\ UNCHANGED <<ledger, effects>>
      BY <1>4, RunnerPcs DEF FileFails, RunStops
    <2>2. badFiles' \in 0..MaxBadFiles
      BY <1>0, <1>4, OpsBounds DEF FileFails
    <2> QED BY <2>1, <2>2, RunnerInv
  <1>5. ASSUME NEW r \in Runners, MigrateEnds(r) PROVE MigrateIInv'
    <2>1. PICK verdict \in {"done", "failed"} : runner' = [runner EXCEPT ![r].pc = verdict]
      BY <1>5 DEF MigrateEnds
    <2>2. /\ runner' = [runner EXCEPT ![r] = [pc |-> verdict, todo |-> runner[r].todo]]
          /\ [pc |-> verdict, todo |-> runner[r].todo] \in RunnerRow
          /\ UNCHANGED <<ledger, effects, badFiles>>
      BY <1>5, <2>1, RunnerPcs DEF MigrateEnds
    <2> QED BY <1>0, <2>2, RunnerInv
  <1>6. ASSUME NEW r \in Runners, MigrateAgain(r) PROVE MigrateIInv'
    <2>1. [pc |-> "idle", todo |-> {}] \in RunnerRow
      BY DEF RunnerRow
    <2> QED BY <1>0, <1>6, <2>1, RunnerInv DEF MigrateAgain
  <1> QED BY <1>1, <1>2, <1>3, <1>4, <1>5, <1>6, ApplyFileInv DEF MigrateNext

-----------------------------------------------------------------------------
(* The drift check.                                                        *)
LEMMA DriftInitInv == DriftInit => DriftIInv
  BY OpsBounds DEF DriftInit, DriftIInv

LEMMA DriftNextInv == DriftIInv /\ [DriftNext]_fvars => DriftIInv'
  <1> SUFFICES ASSUME DriftIInv, [DriftNext]_fvars PROVE DriftIInv'
    OBVIOUS
  <1>1. CASE UNCHANGED fvars
    BY <1>1 DEF fvars, DriftIInv
  <1>2. ASSUME NEW probe \in BOOLEAN, NEW sent \in BOOLEAN, DriftCheck(probe, sent) PROVE DriftIInv'
    <2> DEFINE found == Found(probe)
    <2>1. found \subseteq Problem /\ env' \subseteq Problem
      BY <1>2 DEF Found, DriftCheck, DriftIInv
    <2>2. CASE UNCHANGED drift
      BY <2>1, <2>2 DEF DriftIInv
    <2>3. CASE Muted(found) /\ drift' = [drift EXCEPT !.last = found]
      <3>1. drift.signature = found
        BY <2>3 DEF Muted
      <3> HIDE DEF found
      <3> QED BY <2>1, <2>3, <3>1 DEF DriftIInv
    <2>4. CASE /\ drift' = [signature |-> found, age |-> 0, last |-> found,
                            told  |-> IF sent THEN found ELSE drift.told,
                            fails |-> IF sent THEN drift.fails ELSE drift.fails + 1]
               /\ found # {} /\ ~sent => drift.fails < MaxRelayFails
               /\ found # {}
      <3> HIDE DEF found
      <3>1. CASE sent
        BY <2>1, <2>4, <3>1, OpsBounds DEF DriftIInv
      <3>2. CASE ~sent
        BY <2>1, <2>4, <3>2, OpsBounds DEF DriftIInv
      <3> QED BY <3>1, <3>2
    <2> QED BY <1>2, <2>2, <2>3, <2>4 DEF DriftCheck
  <1>3. ASSUME NEW p \in Problem, EnvDrifts(p) PROVE DriftIInv'
    BY <1>3 DEF EnvDrifts, DriftIInv
  <1>4. CASE DriftTicks
    BY <1>4, OpsBounds DEF DriftTicks, DriftIInv
  <1> QED BY <1>1, <1>2, <1>3, <1>4 DEF DriftNext

LEMMA OpsIsSafe == OpsIInv => OpsInv /\ OpsTypeOK
  <1> SUFFICES ASSUME OpsIInv PROVE OpsInv /\ OpsTypeOK
    OBVIOUS
  <1>1. BudgetKept /\ LiveLockKept /\ BaselineIsPeak
    BY DEF OpsIInv, WdIInv, BudgetInv, LockInv, PeakInv, BudgetKept, BaselineIsPeak
  <1>2. MigrationsWhole /\ DriftTold
    BY DEF OpsIInv, MigrateIInv, DriftIInv, DriftTold
  <1>3. OpsTypeOK
    BY DEF OpsIInv, WdIInv, WdTypes, MigrateIInv, DriftIInv, OpsTypeOK
  <1> QED BY <1>1, <1>2, <1>3 DEF OpsInv

(* The deploy agent runs what it reports, and the watchdog, the migrations *)
(* and the drift check keep what they guard, whenever the machine or one   *)
(* of them dies and whoever works beside them.                             *)
THEOREM MaintenanceIsSound == OperationsSpec => []MaintenanceSound
  <1> DEFINE IInv == DeployIInv /\ OpsIInv
  <1>1. OperationsInit => IInv
    BY DeployInitInv, WdInitInv, MigrateInitInv, DriftInitInv DEF OperationsInit, OpsInit, OpsIInv
  <1>2. [OperationsNext]_OperationsVars =>
           [DeployNext]_dvars /\ [WatchdogNext]_wvars /\ [MigrateNext]_mvars /\ [DriftNext]_fvars
    BY DEF OperationsNext, OperationsVars, WatchdogNext, MigrateNext, DriftNext
  <1>3. IInv /\ [OperationsNext]_OperationsVars => IInv'
    BY <1>2, DeployNextInv, WatchdogNextInv, MigrateNextInv, DriftNextInv DEF OpsIInv
  <1>4. IInv => MaintenanceSound
    BY DeployIsSafe, OpsIsSafe DEF MaintenanceSound
  <1> HIDE DEF IInv
  <1> QED BY <1>1, <1>3, <1>4, PTL DEF OperationsSpec, OperationsVars

-----------------------------------------------------------------------------
(* The backends: Vast.ai.                                                  *)
ContractRow == [job : BJobs, model : DOMAIN Chain, first : DOMAIN Chain, live : BOOLEAN, told : BOOLEAN]
DispatchRow == [job : BJobs \cup {NoBJob}, model : DOMAIN Chain, first : DOMAIN Chain,
                attempt : 1..4, hits : 0..1, pc : {"idle", "search", "rent"}]
Answers == {"none", "queued", "running", "provisioning", "failed", "not_implemented"}

VastTypes ==
    /\ cached \in BackendNames \cup {"none"}
    /\ contracts \in Seq(ContractRow)
    /\ jobMap \in [BJobs -> 0..Len(contracts)]
    /\ dispatch \in DispatchRow
    /\ dispatched \in [BJobs -> Answers]
    /\ apiFaults \in Nat /\ dropped \in Nat

(* A dispatch in progress is for a job, at its model or a later one.       *)
DispatchInv ==
    /\ dispatch.pc # "idle" => dispatch.job \in BJobs
    /\ dispatch.model >= dispatch.first

VastIInv == VastTypes /\ DispatchInv /\ MapIsSound /\ PaidForIsKnown

(* The pool: a job is active only while a request of the pool carries it.  *)
CallRow == [pc : {"idle", "sent", "started", "ended", "answered"}, job : PoolJobs \cup {NoBJob},
            worker : PoolWorkers, via : {"pool", "backend"}, token : BOOLEAN]
InFlight(w) == {c \in PoolCalls : calls[c].pc # "idle" /\ calls[c].worker = w /\ calls[c].via = "pool"}
PoolIInv ==
    /\ pool \in [load : [PoolWorkers -> Nat], up : [PoolWorkers -> BOOLEAN],
                 active : [PoolJobs -> PoolWorkers \cup {NoBJob}]]
    /\ calls \in [PoolCalls -> CallRow]
    /\ wjobs \in [PoolWorkers -> [PoolJobs -> {"none", "running", "success", "failed", "timeout"}]]
    /\ \A c \in PoolCalls : calls[c].pc # "idle" => calls[c].job \in PoolJobs
    /\ \A w \in PoolWorkers : pool.load[w] = Cardinality(InFlight(w))
    /\ \A j \in PoolJobs : pool.active[j] # NoBJob =>
          \E c \in PoolCalls : calls[c].pc # "idle" /\ calls[c].via = "pool" /\ calls[c].job = j
    /\ RunningIsRun

SlurmIInv ==
    /\ ssh \in {"none", "broken", "connected"}
    /\ slurmJobs \in Seq([job : BJobs, live : BOOLEAN])
    /\ SlurmAnswersHold

BackendsIInv == VastIInv /\ PoolIInv /\ SlurmIInv


-----------------------------------------------------------------------------
(* Slurm.                                                                  *)
LEMMA SlurmInitInv == SlurmInit => SlurmIInv
  BY DEF SlurmInit, SlurmIInv, SlurmAnswersHold

LEMMA EntryCancelled ==
    ASSUME NEW J, NEW r \in [job : J, live : BOOLEAN]
    PROVE  [r EXCEPT !.live = FALSE] \in [job : J, live : BOOLEAN] /\ [r EXCEPT !.live = FALSE].live = FALSE
  OBVIOUS

LEMMA SlurmNextInv == SlurmIInv /\ [SlurmNext]_slurmvars => SlurmIInv'
  <1> SUFFICES ASSUME SlurmIInv, [SlurmNext]_slurmvars PROVE SlurmIInv'
    OBVIOUS
  <1> DEFINE SlurmEntry == [job : BJobs, live : BOOLEAN]
  <1>0. slurmJobs \in Seq(SlurmEntry) /\ ssh \in {"none", "broken", "connected"}
    BY DEF SlurmIInv
  <1>1. CASE UNCHANGED slurmvars
    BY <1>1 DEF slurmvars, SlurmIInv, SlurmAnswersHold
  <1>2. ASSUME NEW j \in BJobs, NEW ok \in BOOLEAN, SlurmExecute(j, ok) PROVE SlurmIInv'
    <2>1. CASE UNCHANGED <<slurmJobs, slurmSaid, ssh>>
      BY <2>1 DEF SlurmIInv, SlurmAnswersHold
    <2>2. CASE /\ slurmJobs' = Append(slurmJobs, [job |-> j, live |-> TRUE])
               /\ slurmSaid' = slurmSaid \cup {[id |-> Len(slurmJobs'), said |-> "submitted"]}
               /\ UNCHANGED ssh
      <3> DEFINE new == [job |-> j, live |-> TRUE]
      <3>0. new \in SlurmEntry
        OBVIOUS
      <3> HIDE DEF new, SlurmEntry
      <3>1. /\ slurmJobs' \in Seq(SlurmEntry) /\ Len(slurmJobs') = Len(slurmJobs) + 1
            /\ DOMAIN slurmJobs = 1..Len(slurmJobs) /\ DOMAIN slurmJobs' = 1..Len(slurmJobs')
            /\ \A i \in DOMAIN slurmJobs : i \in DOMAIN slurmJobs' /\ slurmJobs'[i] = slurmJobs[i]
            /\ Len(slurmJobs') \in DOMAIN slurmJobs'
        BY <1>0, <2>2, <3>0 DEF new
      <3>2. ASSUME NEW s \in slurmSaid'
            PROVE s.id \in DOMAIN slurmJobs' /\ (s.said = "cancelled" => ~slurmJobs'[s.id].live)
        <4>1. CASE s \in slurmSaid
          BY <3>1, <4>1 DEF SlurmIInv, SlurmAnswersHold
        <4>2. CASE s = [id |-> Len(slurmJobs'), said |-> "submitted"]
          BY <3>1, <4>2
        <4> QED BY <2>2, <4>1, <4>2
      <3> QED BY <1>0, <2>2, <3>1, <3>2 DEF SlurmIInv, SlurmAnswersHold, SlurmEntry
    <2> QED BY <1>2, <2>1, <2>2 DEF SlurmExecute
  <1>3. ASSUME NEW ok \in BOOLEAN, SlurmStatus(ok) PROVE SlurmIInv'
    BY <1>0, <1>3 DEF SlurmStatus, EnsureSsh, SlurmIInv, SlurmAnswersHold
  <1>4. ASSUME NEW ok \in BOOLEAN, NEW i \in DOMAIN slurmJobs, SlurmCancel(i, ok) PROVE SlurmIInv'
    <2>1. ssh' \in {"none", "broken", "connected"}
      BY <1>0, <1>4 DEF SlurmCancel, EnsureSsh
    <2>2. CASE UNCHANGED <<slurmJobs, slurmSaid>>
      BY <2>1, <2>2 DEF SlurmIInv, SlurmAnswersHold
    <2>3. CASE /\ slurmJobs' = [slurmJobs EXCEPT ![i].live = FALSE]
               /\ slurmSaid' = slurmSaid \cup {[id |-> i, said |-> "cancelled"]}
      <3> HIDE DEF SlurmEntry
      <3>a. i \in 1..Len(slurmJobs) /\ slurmJobs[i] \in SlurmEntry
        BY <1>0, ElementOfSeq
      <3> DEFINE new == [slurmJobs[i] EXCEPT !.live = FALSE]
      <3>b. new \in SlurmEntry /\ new.live = FALSE
        BY <3>a, EntryCancelled DEF SlurmEntry
      <3>c. slurmJobs' = [slurmJobs EXCEPT ![i] = new]
        BY <2>3
      <3> HIDE DEF new
      <3>1. slurmJobs' \in Seq(SlurmEntry) /\ DOMAIN slurmJobs' = DOMAIN slurmJobs
        BY <1>0, <3>a, <3>b, <3>c, ExceptSeq
      <3>2. \A k \in DOMAIN slurmJobs : slurmJobs'[k].live = (IF k = i THEN FALSE ELSE slurmJobs[k].live)
        BY <1>0, <3>b, <3>c
      <3>3. ASSUME NEW s \in slurmSaid'
            PROVE s.id \in DOMAIN slurmJobs' /\ (s.said = "cancelled" => ~slurmJobs'[s.id].live)
        <4>1. CASE s \in slurmSaid
          BY <3>1, <3>2, <4>1 DEF SlurmIInv, SlurmAnswersHold
        <4>2. CASE s = [id |-> i, said |-> "cancelled"]
          BY <3>1, <3>2, <4>2
        <4> QED BY <2>3, <4>1, <4>2
      <3> QED BY <2>1, <3>1, <3>3 DEF SlurmIInv, SlurmAnswersHold, SlurmEntry
    <2> QED BY <1>4, <2>2, <2>3 DEF SlurmCancel
  <1>5. CASE SlurmClose \/ SlurmDrops
    BY <1>5 DEF SlurmClose, SlurmDrops, SlurmIInv, SlurmAnswersHold
  <1> QED BY <1>1, <1>2, <1>3, <1>4, <1>5 DEF SlurmNext

-----------------------------------------------------------------------------
(* The pool of GPU workers.                                                *)
LEMMA PoolFacts ==
    /\ NoCall \in CallRow /\ NoCall.pc = "idle"
    /\ NoBJob \notin PoolWorkers /\ IsFiniteSet(PoolCalls)
  <1>1. (CHOOSE w \in PoolWorkers : TRUE) \in PoolWorkers
    BY BackendsAssumption
  <1> QED BY <1>1, BackendsAssumption DEF NoCall, CallRow

LEMMA PoolInitInv == PoolInit => PoolIInv
  <1> SUFFICES ASSUME PoolInit PROVE PoolIInv
    OBVIOUS
  <1>1. \A w \in PoolWorkers : InFlight(w) = {}
    BY PoolFacts DEF PoolInit, InFlight
  <1>2. Cardinality({}) = 0
    BY FS_EmptySet
  <1>3. \A w \in PoolWorkers : pool.load[w] = Cardinality(InFlight(w))
    BY <1>1, <1>2 DEF PoolInit
  <1>4. pool \in [load : [PoolWorkers -> Nat], up : [PoolWorkers -> BOOLEAN],
                  active : [PoolJobs -> PoolWorkers \cup {NoBJob}]]
    BY DEF PoolInit
  <1>5. \A j \in PoolJobs : pool.active[j] = NoBJob
    BY DEF PoolInit
  <1> QED BY <1>3, <1>4, <1>5, PoolFacts DEF PoolInit, PoolIInv, RunningIsRun

(* What the pool sees of one request.                                      *)
Carries(x, w) == x.pc # "idle" /\ x.worker = w /\ x.via = "pool"

(* One request moves: its worker's count follows it.                       *)
LEMMA FlightsCounted ==
    ASSUME PoolIInv, NEW c \in PoolCalls, NEW x \in CallRow, calls' = [calls EXCEPT ![c] = x]
    PROVE  /\ calls' \in [PoolCalls -> CallRow] /\ calls'[c] = x
           /\ \A d \in PoolCalls : d # c => calls'[d] = calls[d]
           /\ \A w \in PoolWorkers : Cardinality(InFlight(w))' =
                 pool.load[w] + (IF Carries(x, w) THEN 1 ELSE 0) - (IF Carries(calls[c], w) THEN 1 ELSE 0)
           /\ \A w \in PoolWorkers : Carries(calls[c], w) => pool.load[w] >= 1
  <1>1. /\ calls' \in [PoolCalls -> CallRow] /\ calls'[c] = x
        /\ \A d \in PoolCalls : d # c => calls'[d] = calls[d]
    BY DEF PoolIInv
  <1>2. ASSUME NEW w \in PoolWorkers
        PROVE /\ Cardinality(InFlight(w))' =
                    pool.load[w] + (IF Carries(x, w) THEN 1 ELSE 0) - (IF Carries(calls[c], w) THEN 1 ELSE 0)
              /\ Carries(calls[c], w) => pool.load[w] >= 1
    <2>1. InFlight(w) \subseteq PoolCalls /\ IsFiniteSet(InFlight(w))
      BY FS_Subset, PoolFacts DEF InFlight
    <2>2. pool.load[w] = Cardinality(InFlight(w)) /\ Cardinality(InFlight(w)) \in Nat
      BY <2>1, FS_CardinalityType DEF PoolIInv
    <2>3. c \in InFlight(w) <=> Carries(calls[c], w)
      BY DEF InFlight, Carries
    <2>4. Carries(calls[c], w) => pool.load[w] >= 1
      BY <2>1, <2>2, <2>3, FS_EmptySet
    <2>5. CASE Carries(x, w) /\ Carries(calls[c], w)
      <3>1. InFlight(w)' = InFlight(w)
        BY <1>1, <2>5 DEF InFlight, Carries
      <3> QED BY <2>2, <2>4, <2>5, <3>1
    <2>6. CASE ~Carries(x, w) /\ ~Carries(calls[c], w)
      <3>1. InFlight(w)' = InFlight(w)
        BY <1>1, <2>6 DEF InFlight, Carries
      <3> QED BY <2>2, <2>6, <3>1
    <2>7. CASE Carries(x, w) /\ ~Carries(calls[c], w)
      <3>1. InFlight(w)' = InFlight(w) \cup {c}
        BY <1>1, <2>7 DEF InFlight, Carries
      <3>2. Cardinality(InFlight(w) \cup {c}) = Cardinality(InFlight(w)) + 1
        BY <2>1, <2>3, <2>7, FS_AddElement
      <3> QED BY <2>2, <2>7, <3>1, <3>2
    <2>8. CASE ~Carries(x, w) /\ Carries(calls[c], w)
      <3>1. InFlight(w)' = InFlight(w) \ {c}
        BY <1>1, <2>8 DEF InFlight, Carries
      <3>2. Cardinality(InFlight(w) \ {c}) = Cardinality(InFlight(w)) - 1
        BY <2>1, <2>3, <2>8, FS_RemoveElement
      <3> QED BY <2>2, <2>4, <2>8, <3>1, <3>2
    <2>9. Carries(x, w) \in BOOLEAN /\ Carries(calls[c], w) \in BOOLEAN
      BY DEF Carries
    <2> QED BY <2>5, <2>6, <2>7, <2>8, <2>9
  <1> QED BY <1>1, <1>2


PoolRow == [load : [PoolWorkers -> Nat], up : [PoolWorkers -> BOOLEAN],
            active : [PoolJobs -> PoolWorkers \cup {NoBJob}]]
CallStatuses == {"none", "running", "success", "failed", "timeout"}
ActiveIsCarried == \A j \in PoolJobs : pool.active[j] # NoBJob =>
    \E c \in PoolCalls : calls[c].pc # "idle" /\ calls[c].via = "pool" /\ calls[c].job = j

(* One request moves and the pool follows it.                              *)
LEMMA FlightInv ==
    ASSUME PoolIInv, NEW c \in PoolCalls, NEW x \in CallRow, calls' = [calls EXCEPT ![c] = x],
           x.pc # "idle" => x.job \in PoolJobs,
           pool' \in PoolRow, wjobs' \in [PoolWorkers -> [PoolJobs -> CallStatuses]],
           \A w \in PoolWorkers : pool'.load[w] =
              pool.load[w] + (IF Carries(x, w) THEN 1 ELSE 0) - (IF Carries(calls[c], w) THEN 1 ELSE 0),
           ActiveIsCarried', RunningIsRun'
    PROVE  PoolIInv'
  <1>1. /\ calls' \in [PoolCalls -> CallRow] /\ calls'[c] = x
        /\ \A d \in PoolCalls : d # c => calls'[d] = calls[d]
        /\ \A w \in PoolWorkers : Cardinality(InFlight(w))' =
              pool.load[w] + (IF Carries(x, w) THEN 1 ELSE 0) - (IF Carries(calls[c], w) THEN 1 ELSE 0)
    BY FlightsCounted
  <1>2. \A w \in PoolWorkers : pool'.load[w] = Cardinality(InFlight(w))'
    BY <1>1
  <1>3. \A d \in PoolCalls : calls'[d].pc # "idle" => calls'[d].job \in PoolJobs
    BY <1>1 DEF PoolIInv
  <1> QED BY <1>1, <1>2, <1>3 DEF PoolIInv, PoolRow, CallStatuses, ActiveIsCarried

(* A request that was not running a job leaves the others to it.           *)
LEMMA RunningKept ==
    ASSUME PoolIInv, NEW c \in PoolCalls, NEW x \in CallRow, calls' = [calls EXCEPT ![c] = x],
           calls[c].pc # "started", UNCHANGED wjobs
    PROVE  RunningIsRun'
  <1>1. \A d \in PoolCalls : d # c => calls'[d] = calls[d]
    BY DEF PoolIInv
  <1> QED BY <1>1 DEF PoolIInv, RunningIsRun

(* The load of a worker and the worker of a job are written together.      *)
PoolWrites(p, w, n, j, v) == [p EXCEPT !.load[w] = n, !.active[j] = v]

LEMMA PoolChanged ==
    ASSUME NEW p \in PoolRow, NEW w \in PoolWorkers, NEW n \in Nat,
           NEW j \in PoolJobs, NEW v \in PoolWorkers \cup {NoBJob}
    PROVE  /\ PoolWrites(p, w, n, j, v) \in PoolRow
           /\ PoolWrites(p, w, n, j, v).load = [p.load EXCEPT ![w] = n]
           /\ PoolWrites(p, w, n, j, v).active = [p.active EXCEPT ![j] = v]
  <1> DEFINE q1 == [p EXCEPT !.load[w] = n]
  <1>1. /\ q1 = [load |-> [p.load EXCEPT ![w] = n], up |-> p.up, active |-> p.active]
        /\ p.load \in [PoolWorkers -> Nat] /\ p.up \in [PoolWorkers -> BOOLEAN]
        /\ p.active \in [PoolJobs -> PoolWorkers \cup {NoBJob}]
    BY DEF PoolRow
  <1> DEFINE q2 == [q1 EXCEPT !.active[j] = v]
  <1> HIDE DEF q1
  <1>2. q2 = [load |-> [p.load EXCEPT ![w] = n], up |-> p.up, active |-> [p.active EXCEPT ![j] = v]]
    BY <1>1
  <1>3. [p.load EXCEPT ![w] = n] \in [PoolWorkers -> Nat]
    BY <1>1
  <1>4. [p.active EXCEPT ![j] = v] \in [PoolJobs -> PoolWorkers \cup {NoBJob}]
    BY <1>1
  <1>5. /\ q2 \in PoolRow
        /\ q2.load = [p.load EXCEPT ![w] = n] /\ q2.active = [p.active EXCEPT ![j] = v]
    BY <1>1, <1>2, <1>3, <1>4 DEF PoolRow
  <1>6. PoolWrites(p, w, n, j, v) = q2
    BY Zenon DEF PoolWrites, q1
  <1> HIDE DEF q2
  <1> QED BY <1>5, <1>6

LEMMA PoolSubmitInv ==
    ASSUME PoolIInv, NEW c \in PoolCalls, NEW j \in PoolJobs, PoolSubmit(c, j)
    PROVE  PoolIInv'
  <1>1. PICK w \in LeastLoaded :
           /\ pool' = [pool EXCEPT !.load[w] = @ + 1, !.active[j] = w]
           /\ calls' = [calls EXCEPT ![c] = [NoCall EXCEPT !.pc = "sent", !.job = j, !.worker = w]]
    BY Zenon DEF PoolSubmit
  <1>2. w \in PoolWorkers /\ calls[c].pc = "idle" /\ UNCHANGED wjobs
    BY DEF LeastLoaded, PoolSubmit
  <1> DEFINE x == [NoCall EXCEPT !.pc = "sent", !.job = j, !.worker = w]
  <1>3. x \in CallRow /\ x.pc = "sent" /\ x.job = j /\ x.worker = w /\ x.via = "pool"
    BY <1>2 DEF CallRow, NoCall
  <1>4. calls' = [calls EXCEPT ![c] = x]
    BY <1>1
  <1> HIDE DEF x
  <1>5. pool \in PoolRow
    BY DEF PoolIInv, PoolRow
  <1> DEFINE n == pool.load[w] + 1
  <1>a. n \in Nat
    BY <1>2, <1>5 DEF PoolRow
  <1>b. pool' = PoolWrites(pool, w, n, j, w)
    BY <1>1, Zenon DEF PoolWrites
  <1> HIDE DEF n
  <1>6. /\ pool' \in PoolRow
        /\ pool'.load = [pool.load EXCEPT ![w] = n] /\ pool'.active = [pool.active EXCEPT ![j] = w]
    <2>1. w \in PoolWorkers \cup {NoBJob}
      BY <1>2
    <2> QED BY <1>2, <1>5, <1>a, <1>b, <2>1, PoolChanged
  <1>7. \A v \in PoolWorkers : pool'.load[v] = IF v = w THEN pool.load[v] + 1 ELSE pool.load[v]
    BY <1>2, <1>5, <1>6 DEF PoolRow, n
  <1>8. \A v \in PoolWorkers : (Carries(x, v) <=> v = w) /\ ~Carries(calls[c], v)
    BY <1>2, <1>3 DEF Carries
  <1>9. \A v \in PoolWorkers : pool'.load[v] =
           pool.load[v] + (IF Carries(x, v) THEN 1 ELSE 0) - (IF Carries(calls[c], v) THEN 1 ELSE 0)
    BY <1>5, <1>7, <1>8 DEF PoolRow
  <1>10. ActiveIsCarried'
    <2> SUFFICES ASSUME NEW k \in PoolJobs, pool'.active[k] # NoBJob
                 PROVE \E d \in PoolCalls : calls'[d].pc # "idle" /\ calls'[d].via = "pool" /\ calls'[d].job = k
      BY DEF ActiveIsCarried
    <2>1. CASE k = j
      BY <1>3, <1>4, <2>1 DEF PoolIInv
    <2>2. CASE k # j
      <3>1. pool.active[k] # NoBJob
        BY <1>5, <1>6, <2>2 DEF PoolRow
      <3>2. PICK d \in PoolCalls : calls[d].pc # "idle" /\ calls[d].via = "pool" /\ calls[d].job = k
        BY <3>1 DEF PoolIInv
      <3> QED BY <1>2, <1>4, <3>2 DEF PoolIInv
    <2> QED BY <2>1, <2>2
  <1>11. RunningIsRun'
    BY <1>2, <1>3, <1>4, RunningKept
  <1>12. wjobs' \in [PoolWorkers -> [PoolJobs -> CallStatuses]]
    BY <1>2 DEF PoolIInv, CallStatuses
  <1> QED BY <1>3, <1>4, <1>6, <1>9, <1>10, <1>11, <1>12, FlightInv

LEMMA CallPc ==
    ASSUME NEW r \in CallRow, NEW p
    PROVE  [r EXCEPT !.pc = p] = [pc |-> p, job |-> r.job, worker |-> r.worker, via |-> r.via, token |-> r.token]
  BY DEF CallRow

(* A request that keeps its worker, its job and its way keeps the loads.   *)
LEMMA FlightPasses ==
    ASSUME PoolIInv, NEW c \in PoolCalls, NEW p \in {"sent", "started", "ended", "answered"},
           calls[c].pc # "idle", calls' = [calls EXCEPT ![c].pc = p], UNCHANGED pool,
           wjobs' \in [PoolWorkers -> [PoolJobs -> CallStatuses]], RunningIsRun'
    PROVE  PoolIInv'
  <1> DEFINE x == [pc |-> p, job |-> calls[c].job, worker |-> calls[c].worker,
                   via |-> calls[c].via, token |-> calls[c].token]
  <1>1. calls[c] \in CallRow /\ calls[c].job \in PoolJobs
    BY DEF PoolIInv
  <1>2. x \in CallRow /\ x.pc = p /\ x.job = calls[c].job /\ x.worker = calls[c].worker /\ x.via = calls[c].via
    BY <1>1 DEF CallRow
  <1>a. [calls[c] EXCEPT !.pc = p] = x
    BY <1>1, CallPc
  <1>3. calls' = [calls EXCEPT ![c] = x]
    <2>1. calls' = [calls EXCEPT ![c] = [calls[c] EXCEPT !.pc = p]]
      BY Zenon
    <2> QED BY <1>a, <2>1, Zenon
  <1> HIDE DEF x
  <1>4. \A w \in PoolWorkers : Carries(x, w) <=> Carries(calls[c], w)
    BY <1>2 DEF Carries
  <1>5. pool' \in PoolRow /\ \A w \in PoolWorkers : pool.load[w] \in Nat
    BY DEF PoolRow, PoolIInv
  <1>6. \A w \in PoolWorkers : pool'.load[w] =
           pool.load[w] + (IF Carries(x, w) THEN 1 ELSE 0) - (IF Carries(calls[c], w) THEN 1 ELSE 0)
    BY <1>4, <1>5
  <1>7. ActiveIsCarried'
    <2> SUFFICES ASSUME NEW k \in PoolJobs, pool.active[k] # NoBJob
                 PROVE \E d \in PoolCalls : calls'[d].pc # "idle" /\ calls'[d].via = "pool" /\ calls'[d].job = k
      BY DEF ActiveIsCarried
    <2>1. PICK d \in PoolCalls : calls[d].pc # "idle" /\ calls[d].via = "pool" /\ calls[d].job = k
      BY DEF PoolIInv
    <2> QED BY <1>2, <1>3, <2>1 DEF PoolIInv
  <1> QED BY <1>1, <1>2, <1>3, <1>5, <1>6, <1>7, FlightInv


LEMMA RunOnWorkerInv ==
    ASSUME PoolIInv, NEW c \in PoolCalls, NEW j \in PoolJobs, NEW w \in PoolWorkers, NEW t \in BOOLEAN,
           RunOnWorker(c, j, w, t)
    PROVE  PoolIInv'
  <1> DEFINE x == [pc |-> "sent", job |-> j, worker |-> w, via |-> "backend", token |-> t]
  <1>1. x \in CallRow /\ x.pc = "sent" /\ x.job = j /\ x.via = "backend"
    BY DEF CallRow
  <1>2. calls' = [calls EXCEPT ![c] = x] /\ calls[c].pc = "idle" /\ UNCHANGED <<pool, wjobs>>
    BY DEF RunOnWorker
  <1> HIDE DEF x
  <1>3. \A v \in PoolWorkers : ~Carries(x, v) /\ ~Carries(calls[c], v)
    BY <1>1, <1>2 DEF Carries
  <1>4. pool' \in PoolRow /\ \A v \in PoolWorkers : pool.load[v] \in Nat
    BY <1>2 DEF PoolRow, PoolIInv
  <1>5. \A v \in PoolWorkers : pool'.load[v] =
           pool.load[v] + (IF Carries(x, v) THEN 1 ELSE 0) - (IF Carries(calls[c], v) THEN 1 ELSE 0)
    BY <1>2, <1>3, <1>4
  <1>6. ActiveIsCarried'
    <2> SUFFICES ASSUME NEW k \in PoolJobs, pool.active[k] # NoBJob
                 PROVE \E d \in PoolCalls : calls'[d].pc # "idle" /\ calls'[d].via = "pool" /\ calls'[d].job = k
      BY <1>2 DEF ActiveIsCarried
    <2>1. PICK d \in PoolCalls : calls[d].pc # "idle" /\ calls[d].via = "pool" /\ calls[d].job = k
      BY DEF PoolIInv
    <2> QED BY <1>2, <2>1 DEF PoolIInv
  <1>7. RunningIsRun'
    BY <1>1, <1>2, RunningKept
  <1>8. wjobs' \in [PoolWorkers -> [PoolJobs -> CallStatuses]]
    BY <1>2 DEF PoolIInv, CallStatuses
  <1> QED BY <1>1, <1>2, <1>4, <1>5, <1>6, <1>7, <1>8, FlightInv

(* The worker's record of the job of a request.                            *)
LEMMA JobRecorded ==
    ASSUME PoolIInv, NEW c \in PoolCalls, NEW s \in CallStatuses, calls[c].pc # "idle",
           wjobs' = [wjobs EXCEPT ![calls[c].worker][calls[c].job] = s]
    PROVE  /\ calls[c].worker \in PoolWorkers /\ calls[c].job \in PoolJobs
           /\ wjobs' \in [PoolWorkers -> [PoolJobs -> CallStatuses]]
           /\ \A w \in PoolWorkers, j \in PoolJobs : wjobs'[w][j] =
                 IF w = calls[c].worker /\ j = calls[c].job THEN s ELSE wjobs[w][j]
  <1>1. calls[c].worker \in PoolWorkers /\ calls[c].job \in PoolJobs
    BY DEF PoolIInv, CallRow
  <1>2. wjobs \in [PoolWorkers -> [PoolJobs -> CallStatuses]]
    BY DEF PoolIInv, CallStatuses
  <1>3. PICK v \in PoolWorkers, k \in PoolJobs : v = calls[c].worker /\ k = calls[c].job
    BY <1>1
  <1>4. wjobs' = [wjobs EXCEPT ![v] = [wjobs[v] EXCEPT ![k] = s]]
    BY <1>3
  <1>5. wjobs[v] \in [PoolJobs -> CallStatuses]
    BY <1>2
  <1>6. /\ [wjobs[v] EXCEPT ![k] = s] \in [PoolJobs -> CallStatuses]
        /\ \A j \in PoolJobs : [wjobs[v] EXCEPT ![k] = s][j] = IF j = k THEN s ELSE wjobs[v][j]
    BY <1>5
  <1> QED BY <1>1, <1>2, <1>3, <1>4, <1>6

LEMMA ServerTakesInv ==
    ASSUME PoolIInv, NEW c \in PoolCalls, NEW ok \in BOOLEAN, ServerTakes(c, ok)
    PROVE  PoolIInv'
  <1>1. calls[c].pc = "sent" /\ calls[c] \in CallRow /\ UNCHANGED pool
    BY DEF ServerTakes, PoolIInv
  <1>2. CASE calls' = [calls EXCEPT ![c].pc = "answered"] /\ UNCHANGED wjobs
    <2>1. wjobs' \in [PoolWorkers -> [PoolJobs -> CallStatuses]]
      BY <1>2 DEF PoolIInv, CallStatuses
    <2>2. RunningIsRun'
      <3>1. \A d \in PoolCalls : d # c => calls'[d] = calls[d]
        BY <1>2 DEF PoolIInv
      <3> QED BY <1>1, <1>2, <3>1 DEF PoolIInv, RunningIsRun
    <2> QED BY <1>1, <1>2, <2>1, <2>2, FlightPasses
  <1>3. CASE /\ calls' = [calls EXCEPT ![c].pc = "started"]
             /\ wjobs' = [wjobs EXCEPT ![calls[c].worker][calls[c].job] = "running"]
    <2>1. "running" \in CallStatuses
      BY DEF CallStatuses
    <2>2. /\ calls[c].worker \in PoolWorkers /\ calls[c].job \in PoolJobs
          /\ wjobs' \in [PoolWorkers -> [PoolJobs -> CallStatuses]]
          /\ \A w \in PoolWorkers, j \in PoolJobs : wjobs'[w][j] =
                IF w = calls[c].worker /\ j = calls[c].job THEN "running" ELSE wjobs[w][j]
      BY <1>1, <1>3, <2>1, JobRecorded
    <2>3. \A d \in PoolCalls : d # c => calls'[d] = calls[d]
      BY <1>3 DEF PoolIInv
    <2>4. calls'[c].pc = "started" /\ calls'[c].job = calls[c].job /\ calls'[c].worker = calls[c].worker
      BY <1>1, <1>3 DEF PoolIInv, CallRow
    <2>5. RunningIsRun'
      <3> SUFFICES ASSUME NEW w \in PoolWorkers, NEW j \in PoolJobs, wjobs'[w][j] = "running"
                   PROVE \E d \in PoolCalls : calls'[d].pc = "started" /\ calls'[d].job = j /\ calls'[d].worker = w
        BY DEF RunningIsRun
      <3>1. CASE w = calls[c].worker /\ j = calls[c].job
        BY <2>4, <3>1
      <3>2. CASE ~(w = calls[c].worker /\ j = calls[c].job)
        <4>1. PICK d \in PoolCalls : calls[d].pc = "started" /\ calls[d].job = j /\ calls[d].worker = w
          BY <2>2, <3>2 DEF PoolIInv, RunningIsRun
        <4> QED BY <1>1, <2>3, <4>1
      <3> QED BY <3>1, <3>2
    <2> QED BY <1>1, <1>3, <2>2, <2>5, FlightPasses
  <1> QED BY <1>2, <1>3 DEF ServerTakes

LEMMA ServerEndsJobInv ==
    ASSUME PoolIInv, NEW c \in PoolCalls, NEW o \in {"success", "failed", "timeout"}, ServerEnds(c, o)
    PROVE  PoolIInv'
  <1>1. /\ calls[c].pc = "started" /\ calls' = [calls EXCEPT ![c].pc = "ended"] /\ UNCHANGED pool
        /\ wjobs' = [wjobs EXCEPT ![calls[c].worker][calls[c].job] = o]
        /\ o \in CallStatuses /\ o # "running"
    BY DEF ServerEnds, CallStatuses
  <1>2. /\ wjobs' \in [PoolWorkers -> [PoolJobs -> CallStatuses]]
        /\ \A w \in PoolWorkers, j \in PoolJobs : wjobs'[w][j] =
              IF w = calls[c].worker /\ j = calls[c].job THEN o ELSE wjobs[w][j]
    BY <1>1, JobRecorded
  <1>3. \A d \in PoolCalls : d # c => calls'[d] = calls[d]
    BY <1>1 DEF PoolIInv
  <1>4. RunningIsRun'
    <2> SUFFICES ASSUME NEW w \in PoolWorkers, NEW j \in PoolJobs, wjobs'[w][j] = "running"
                 PROVE \E d \in PoolCalls : calls'[d].pc = "started" /\ calls'[d].job = j /\ calls'[d].worker = w
      BY DEF RunningIsRun
    <2>1. wjobs[w][j] = "running" /\ ~(w = calls[c].worker /\ j = calls[c].job)
      BY <1>1, <1>2
    <2>2. PICK d \in PoolCalls : calls[d].pc = "started" /\ calls[d].job = j /\ calls[d].worker = w
      BY <2>1 DEF PoolIInv, RunningIsRun
    <2> QED BY <1>3, <2>1, <2>2
  <1> QED BY <1>1, <1>2, <1>4, FlightPasses

LEMMA CallReturnsInv ==
    ASSUME PoolIInv, NEW c \in PoolCalls, CallReturns(c)
    PROVE  PoolIInv'
  <1>1. /\ calls[c].pc \in {"answered", "ended"} /\ calls' = [calls EXCEPT ![c] = NoCall] /\ UNCHANGED wjobs
        /\ calls[c] \in CallRow /\ calls[c].job \in PoolJobs
    BY DEF CallReturns, PoolIInv
  <1>2. RunningIsRun'
    BY <1>1, PoolFacts, RunningKept
  <1>3. wjobs' \in [PoolWorkers -> [PoolJobs -> CallStatuses]]
    BY <1>1 DEF PoolIInv, CallStatuses
  <1>4. pool \in PoolRow /\ \A v \in PoolWorkers : pool.load[v] \in Nat
    BY DEF PoolIInv, PoolRow
  <1>5. \A v \in PoolWorkers : ~Carries(NoCall, v)
    BY PoolFacts DEF Carries
  <1>6. \A d \in PoolCalls : d # c => calls'[d] = calls[d]
    BY <1>1 DEF PoolIInv
  <1>7. CASE calls[c].via = "backend"
    <2>1. pool' = pool /\ \A v \in PoolWorkers : ~Carries(calls[c], v)
      BY <1>7 DEF CallReturns, PoolReleases, Carries
    <2>2. \A v \in PoolWorkers : pool'.load[v] =
             pool.load[v] + (IF Carries(NoCall, v) THEN 1 ELSE 0) - (IF Carries(calls[c], v) THEN 1 ELSE 0)
      BY <1>4, <1>5, <2>1
    <2>3. ActiveIsCarried'
      BY <1>6, <1>7, <2>1 DEF ActiveIsCarried, PoolIInv
    <2> QED BY <1>1, <1>2, <1>3, <1>4, <2>1, <2>2, <2>3, PoolFacts, FlightInv
  <1>8. CASE calls[c].via = "pool"
    <2> DEFINE w == calls[c].worker
               j == calls[c].job
               n == Max({0, pool.load[w] - 1})
    <2>1. w \in PoolWorkers /\ j \in PoolJobs /\ NoBJob \in PoolWorkers \cup {NoBJob}
      BY <1>1 DEF CallRow
    <2>2. \A v \in PoolWorkers : Carries(calls[c], v) <=> v = w
      BY <1>1, <1>8 DEF Carries
    <2>3. pool.load[w] - 1 \in Nat
      <3>1. pool.load[w] >= 1
        BY <1>1, <2>1, <2>2, PoolFacts, FlightsCounted
      <3> QED BY <1>4, <2>1, <3>1
    <2>4. n = pool.load[w] - 1 /\ n \in Nat
      BY <2>3, LargerOf
    <2>5. pool' = PoolWrites(pool, w, n, j, NoBJob)
      BY <1>8, Zenon DEF CallReturns, PoolReleases, PoolWrites
    <2> HIDE DEF n, w, j
    <2>6. /\ pool' \in PoolRow
          /\ pool'.load = [pool.load EXCEPT ![w] = n] /\ pool'.active = [pool.active EXCEPT ![j] = NoBJob]
      <3>1. PICK v \in PoolWorkers \cup {NoBJob} : v = NoBJob
        OBVIOUS
      <3>2. pool' = PoolWrites(pool, w, n, j, v)
        BY <2>5, <3>1
      <3>3. /\ pool' \in PoolRow
            /\ pool'.load = [pool.load EXCEPT ![w] = n] /\ pool'.active = [pool.active EXCEPT ![j] = v]
        BY <1>4, <2>1, <2>4, <3>2, PoolChanged
      <3> QED BY <3>1, <3>3
    <2>7. \A v \in PoolWorkers : pool'.load[v] = IF v = w THEN pool.load[v] - 1 ELSE pool.load[v]
      BY <1>4, <2>1, <2>4, <2>6 DEF PoolRow
    <2>8. \A v \in PoolWorkers : pool'.load[v] =
             pool.load[v] + (IF Carries(NoCall, v) THEN 1 ELSE 0) - (IF Carries(calls[c], v) THEN 1 ELSE 0)
      BY <1>4, <1>5, <2>2, <2>7
    <2>9. ActiveIsCarried'
      <3> SUFFICES ASSUME NEW k \in PoolJobs, pool'.active[k] # NoBJob
                   PROVE \E d \in PoolCalls : calls'[d].pc # "idle" /\ calls'[d].via = "pool" /\ calls'[d].job = k
        BY DEF ActiveIsCarried
      <3>1. k # j /\ pool.active[k] # NoBJob
        BY <1>4, <2>1, <2>6 DEF PoolRow
      <3>2. PICK d \in PoolCalls : calls[d].pc # "idle" /\ calls[d].via = "pool" /\ calls[d].job = k
        BY <3>1 DEF PoolIInv
      <3> QED BY <1>6, <3>1, <3>2 DEF j
    <2> QED BY <1>1, <1>2, <1>3, <2>6, <2>8, <2>9, PoolFacts, FlightInv
  <1> QED BY <1>1, <1>7, <1>8 DEF CallRow

LEMMA PoolNextInv == PoolIInv /\ [PoolNext]_poolvars => PoolIInv'
  <1> SUFFICES ASSUME PoolIInv, [PoolNext]_poolvars PROVE PoolIInv'
    OBVIOUS
  <1>1. CASE UNCHANGED poolvars
    BY <1>1 DEF poolvars, PoolIInv, InFlight, RunningIsRun
  <1>2. ASSUME NEW w \in PoolWorkers, DiscoverWorkers(w) PROVE PoolIInv'
    <2>1. pool' = [pool EXCEPT !.up[w] = ~@] /\ UNCHANGED <<calls, wjobs>> /\ pool \in PoolRow
      BY <1>2 DEF DiscoverWorkers, PoolIInv, PoolRow
    <2>2. pool' \in PoolRow /\ pool'.load = pool.load /\ pool'.active = pool.active
      BY <2>1 DEF PoolRow
    <2>3. \A v \in PoolWorkers : Cardinality(InFlight(v))' = Cardinality(InFlight(v))
      BY <2>1 DEF InFlight
    <2>4. \A v \in PoolWorkers : pool'.load[v] = Cardinality(InFlight(v))'
      BY <2>2, <2>3 DEF PoolIInv
    <2>5. ActiveIsCarried' /\ RunningIsRun'
      BY <2>1, <2>2 DEF PoolIInv, ActiveIsCarried, RunningIsRun
    <2>6. \A c \in PoolCalls : calls'[c].pc # "idle" => calls'[c].job \in PoolJobs
      BY <2>1 DEF PoolIInv
    <2>7. calls' \in [PoolCalls -> CallRow] /\ wjobs' \in [PoolWorkers -> [PoolJobs -> CallStatuses]]
      BY <2>1 DEF PoolIInv, CallStatuses
    <2> QED BY <2>2, <2>4, <2>5, <2>6, <2>7 DEF PoolIInv, PoolRow, ActiveIsCarried, CallStatuses
  <1> QED BY <1>1, <1>2, PoolSubmitInv, RunOnWorkerInv, ServerTakesInv, ServerEndsJobInv, CallReturnsInv
          DEF PoolNext


-----------------------------------------------------------------------------
(* Vast.ai: the dispatch in progress.                                      *)
LEMMA ChainFacts ==
    /\ Len(Chain) \in Nat /\ Len(Chain) >= 1 /\ DOMAIN Chain = 1..Len(Chain)
    /\ IsFiniteSet(BJobs) /\ NoBJob \notin BJobs
    /\ NoDispatch \in DispatchRow /\ NoDispatch.pc = "idle" /\ NoDispatch.model >= NoDispatch.first
  <1>1. Len(Chain) \in Nat /\ Len(Chain) # 0 /\ DOMAIN Chain = 1..Len(Chain)
    BY BackendsAssumption, EmptySeq, LenProperties
  <1>2. 1 \in DOMAIN Chain
    BY <1>1
  <1>3. NoDispatch \in DispatchRow /\ NoDispatch.pc = "idle" /\ NoDispatch.model >= NoDispatch.first
    BY <1>2 DEF NoDispatch, DispatchRow
  <1> QED BY <1>1, <1>3, BackendsAssumption

LEMMA VastInitInv == VastInit => VastIInv
  <1> SUFFICES ASSUME VastInit PROVE VastIInv
    OBVIOUS
  <1>1. contracts = <<>> /\ Len(contracts) = 0 /\ contracts \in Seq(ContractRow) /\ DOMAIN contracts = {}
    BY EmptySeq DEF VastInit
  <1>2. VastTypes /\ DispatchInv
    BY <1>1, ChainFacts DEF VastInit, VastTypes, DispatchInv, Answers
  <1>3. MapIsSound
    BY DEF VastInit, MapIsSound
  <1>4. Held = {}
    BY <1>1 DEF Held
  <1>5. PaidForIsKnown
    BY <1>4, FS_EmptySet DEF PaidForIsKnown, VastInit
  <1> QED BY <1>2, <1>3, <1>5 DEF VastIInv

(* A job that was answered stays answered.                                 *)
AnswersKept ==
    /\ dispatched' \in [BJobs -> Answers]
    /\ \A j \in BJobs : dispatched[j] # "none" => dispatched'[j] # "none"

LEMMA NextModelMoves ==
    ASSUME VastTypes, DispatchInv, dispatch.pc # "idle", NextModel
    PROVE  dispatch' \in DispatchRow /\ DispatchInv' /\ AnswersKept
  <1>1. dispatch \in DispatchRow /\ dispatched \in [BJobs -> Answers] /\ dispatch.job \in BJobs
    BY DEF VastTypes, DispatchInv
  <1>2. CASE /\ dispatch.model < Len(Chain) /\ UNCHANGED dispatched
             /\ dispatch' = [dispatch EXCEPT !.model = @ + 1, !.attempt = 1, !.hits = 0, !.pc = "search"]
    <2>1. dispatch' = [job |-> dispatch.job, model |-> dispatch.model + 1, first |-> dispatch.first,
                       attempt |-> 1, hits |-> 0, pc |-> "search"]
      BY <1>1, <1>2 DEF DispatchRow
    <2>2. dispatch.model + 1 \in DOMAIN Chain /\ dispatch.first \in DOMAIN Chain
          /\ dispatch.model + 1 >= dispatch.first
      BY <1>1, <1>2, ChainFacts DEF DispatchRow, DispatchInv
    <2> QED BY <1>1, <1>2, <2>1, <2>2 DEF DispatchRow, DispatchInv, AnswersKept
  <1>3. CASE GivesUp
    BY <1>1, <1>3, ChainFacts DEF GivesUp, DispatchInv, AnswersKept, Answers
  <1> QED BY <1>2, <1>3 DEF NextModel

LEMMA NextAttemptMoves ==
    ASSUME VastTypes, DispatchInv, dispatch.pc # "idle", NEW h \in 0..1, NextAttempt(h)
    PROVE  dispatch' \in DispatchRow /\ DispatchInv' /\ AnswersKept
  <1>1. dispatch \in DispatchRow /\ dispatched \in [BJobs -> Answers] /\ dispatch.job \in BJobs
    BY DEF VastTypes, DispatchInv
  <1>2. CASE /\ dispatch.attempt < 4 /\ UNCHANGED dispatched
             /\ dispatch' = [dispatch EXCEPT !.attempt = @ + 1, !.hits = h, !.pc = "search"]
    <2>1. dispatch' = [job |-> dispatch.job, model |-> dispatch.model, first |-> dispatch.first,
                       attempt |-> dispatch.attempt + 1, hits |-> h, pc |-> "search"]
      BY <1>1, <1>2 DEF DispatchRow
    <2>2. dispatch.attempt + 1 \in 1..4
      BY <1>1, <1>2 DEF DispatchRow
    <2> QED BY <1>1, <1>2, <2>1, <2>2 DEF DispatchRow, DispatchInv, AnswersKept
  <1> QED BY <1>2, NextModelMoves DEF NextAttempt

LEMMA AttemptMoves ==
    ASSUME VastTypes, DispatchInv, dispatch.pc # "idle",
           RateLimited \/ NextAttempt(dispatch.hits) \/ NextModel
    PROVE  dispatch' \in DispatchRow /\ DispatchInv' /\ AnswersKept
  <1>1. dispatch.hits \in 0..1
    BY DEF VastTypes, DispatchRow
  <1>2. CASE NextAttempt(dispatch.hits)
    BY <1>1, <1>2, NextAttemptMoves
  <1>3. CASE RateLimited
    <2>1. CASE dispatch.hits + 1 >= 2
      BY <1>3, <2>1, NextModelMoves DEF RateLimited
    <2>2. CASE ~(dispatch.hits + 1 >= 2)
      <3>1. NextAttempt(dispatch.hits + 1) /\ dispatch.hits + 1 \in 0..1
        BY <1>1, <1>3, <2>2 DEF RateLimited
      <3> QED BY <3>1, NextAttemptMoves
    <2> QED BY <2>1, <2>2
  <1> QED BY <1>2, <1>3, NextModelMoves

(* Answers only accumulate, so the map stays sound when it and the         *)
(* contracts stand still.                                                  *)
LEMMA DispatchOnlyInv ==
    ASSUME VastIInv, dispatch' \in DispatchRow, DispatchInv', AnswersKept,
           UNCHANGED <<cached, jobMap, contracts, apiFaults, dropped>>
    PROVE  VastIInv'
  <1>1. VastTypes'
    BY DEF VastIInv, VastTypes, AnswersKept
  <1>2. MapIsSound'
    BY DEF VastIInv, MapIsSound, AnswersKept
  <1>3. Held' = Held
    BY DEF Held
  <1>4. PaidForIsKnown'
    BY <1>3 DEF VastIInv, PaidForIsKnown
  <1> QED BY <1>1, <1>2, <1>4 DEF VastIInv

LEMMA SearchOffersInv ==
    ASSUME VastIInv, NEW found \in {"offer", "none", "rate_limit", "error"}, SearchOffers(found)
    PROVE  VastIInv'
  <1>1. dispatch.pc = "search" /\ VastTypes /\ DispatchInv
        /\ UNCHANGED <<cached, jobMap, contracts, apiFaults, dropped>>
    BY DEF SearchOffers, VastIInv
  <1>2. CASE dispatch' = [dispatch EXCEPT !.pc = "rent"] /\ UNCHANGED dispatched
    <2>1. dispatch \in DispatchRow /\ dispatched \in [BJobs -> Answers]
      BY <1>1 DEF VastTypes
    <2>2. dispatch' \in DispatchRow /\ dispatch'.job = dispatch.job
          /\ dispatch'.model = dispatch.model /\ dispatch'.first = dispatch.first
      BY <1>2, <2>1 DEF DispatchRow
    <2>3. DispatchInv' /\ AnswersKept
      BY <1>1, <1>2, <2>1, <2>2 DEF DispatchInv, AnswersKept
    <2> QED BY <1>1, <2>2, <2>3, DispatchOnlyInv
  <1>3. CASE NextModel \/ RateLimited \/ NextAttempt(dispatch.hits)
    BY <1>1, <1>3, AttemptMoves, DispatchOnlyInv
  <1> QED BY <1>2, <1>3 DEF SearchOffers


(* Vast.ai: the contracts the map lets go of are counted.                  *)
LEMMA HeldIsFinite ==
    ASSUME contracts \in Seq(ContractRow)
    PROVE  /\ IsFiniteSet(Held) /\ Cardinality(Held) \in Nat
           /\ DOMAIN contracts = 1..Len(contracts) /\ Len(contracts) \in Nat
  <1>1. DOMAIN contracts = 1..Len(contracts) /\ Len(contracts) \in Nat
    BY LenProperties
  <1>2. IsFiniteSet(1..Len(contracts))
    BY <1>1, FS_Interval
  <1>3. Held \in SUBSET (1..Len(contracts))
    BY <1>1 DEF Held
  <1>4. IsFiniteSet(Held)
    BY <1>2, <1>3, FS_Subset
  <1> QED BY <1>1, <1>4, FS_CardinalityType

LEMMA HeldGrowsBy ==
    ASSUME NEW H, IsFiniteSet(H), NEW X, IsFiniteSet(X), NEW G, G \subseteq H \cup X
    PROVE  /\ IsFiniteSet(G) /\ Cardinality(G) \in Nat
           /\ Cardinality(G) <= Cardinality(H) + Cardinality(X)
  <1>1. /\ IsFiniteSet(H \cup X)
        /\ Cardinality(H \cup X) = Cardinality(H) + Cardinality(X) - Cardinality(H \cap X)
    BY FS_Union
  <1>2. IsFiniteSet(G) /\ Cardinality(G) <= Cardinality(H \cup X)
    BY <1>1, FS_Subset
  <1>3. IsFiniteSet(H \cap X)
    BY FS_Intersection
  <1>4. /\ Cardinality(G) \in Nat /\ Cardinality(H) \in Nat /\ Cardinality(X) \in Nat
        /\ Cardinality(H \cap X) \in Nat
    BY <1>2, <1>3, FS_CardinalityType
  <1> QED BY <1>1, <1>2, <1>4

LEMMA MapShrinks ==
    ASSUME VastTypes, PaidForIsKnown, NEW m \in [BJobs -> 0..Len(contracts)],
           \A j \in BJobs : m[j] \in {0, jobMap[j]},
           jobMap' = m, DOMAIN contracts' = DOMAIN contracts,
           \A i \in DOMAIN contracts : contracts'[i].live => contracts[i].live,
           dropped' = dropped + Cardinality(Mapped(jobMap)) - Cardinality(Mapped(m)),
           UNCHANGED apiFaults
    PROVE  PaidForIsKnown' /\ dropped' \in Nat
  <1> DEFINE letGo == Mapped(jobMap) \ Mapped(m)
             f == [j \in letGo |-> jobMap[j]]
             gone == {jobMap[j] : j \in letGo}
  <1>1. jobMap \in [BJobs -> 0..Len(contracts)] /\ dropped \in Nat /\ apiFaults \in Nat
    BY DEF VastTypes
  <1>2. /\ IsFiniteSet(Held) /\ Cardinality(Held) \in Nat
        /\ DOMAIN contracts = 1..Len(contracts) /\ Len(contracts) \in Nat
    BY HeldIsFinite DEF VastTypes
  <1>3. IsFiniteSet(Mapped(jobMap)) /\ IsFiniteSet(Mapped(m))
    <2>1. Mapped(jobMap) \in SUBSET BJobs /\ Mapped(m) \in SUBSET BJobs
      BY DEF Mapped
    <2> QED BY <2>1, ChainFacts, FS_Subset
  <1>4. Mapped(jobMap) \cap Mapped(m) = Mapped(m)
    BY DEF Mapped
  <1>5. /\ IsFiniteSet(letGo)
        /\ Cardinality(letGo) = Cardinality(Mapped(jobMap)) - Cardinality(Mapped(m))
    <2> DEFINE A == Mapped(jobMap)
               B == Mapped(m)
    <2> HIDE DEF A, B
    <2>1. IsFiniteSet(A) => IsFiniteSet(A \ B) /\ Cardinality(A \ B) = Cardinality(A) - Cardinality(A \cap B)
      BY FS_Difference
    <2> QED BY <1>3, <1>4, <2>1 DEF A, B
  <1>6. /\ Cardinality(letGo) \in Nat /\ Cardinality(Mapped(jobMap)) \in Nat /\ Cardinality(Mapped(m)) \in Nat
    BY <1>3, <1>5, FS_CardinalityType
  <1>7. f \in Surjection(letGo, gone)
    BY DEF Surjection
  <1>8. IsFiniteSet(gone) /\ Cardinality(gone) <= Cardinality(letGo)
    BY <1>5, <1>7, FS_Surjection
  <1>9. Held' \subseteq Held \cup gone
    <2> SUFFICES ASSUME NEW i \in Held', i \notin Held PROVE i \in gone
      OBVIOUS
    <2>1. i \in DOMAIN contracts /\ contracts[i].live /\ \A j \in BJobs : m[j] # i
      BY DEF Held
    <2>2. PICK j \in BJobs : jobMap[j] = i
      BY <2>1 DEF Held
    <2>3. m[j] = 0 /\ jobMap[j] # 0
      BY <1>2, <2>1, <2>2
    <2> QED BY <2>2, <2>3 DEF Mapped
  <1> HIDE DEF letGo, f, gone
  <1>10. /\ Cardinality(Held') \in Nat
         /\ Cardinality(Held') <= Cardinality(Held) + Cardinality(gone)
    BY <1>2, <1>8, <1>9, HeldGrowsBy
  <1>11. Cardinality(gone) \in Nat
    BY <1>8, FS_CardinalityType
  <1>12. dropped' = dropped + Cardinality(letGo)
    BY <1>1, <1>5, <1>6
  <1> QED BY <1>1, <1>2, <1>6, <1>8, <1>10, <1>11, <1>12 DEF PaidForIsKnown

LEMMA MapAfterShrinks ==
    ASSUME VastTypes, NEW name
    PROVE  /\ MapAfter(name) \in [BJobs -> 0..Len(contracts)]
           /\ \A j \in BJobs : MapAfter(name)[j] \in {0, jobMap[j]}
  <1>1. Len(contracts) \in Nat /\ jobMap \in [BJobs -> 0..Len(contracts)]
    BY HeldIsFinite DEF VastTypes
  <1> QED BY <1>1 DEF MapAfter

LEMMA SelectsInv ==
    ASSUME VastIInv, NEW name \in BackendNames, Selects(name), UNCHANGED <<contracts, apiFaults>>,
           dispatch' \in DispatchRow, DispatchInv', AnswersKept
    PROVE  VastIInv'
  <1> DEFINE m == MapAfter(name)
  <1>1. VastTypes /\ PaidForIsKnown /\ MapIsSound
    BY DEF VastIInv
  <1>2. m \in [BJobs -> 0..Len(contracts)] /\ \A j \in BJobs : m[j] \in {0, jobMap[j]}
    BY <1>1, MapAfterShrinks
  <1>3. /\ jobMap' = m /\ cached' = name
        /\ dropped' = dropped + Cardinality(Mapped(jobMap)) - Cardinality(Mapped(m))
    BY DEF Selects
  <1> HIDE DEF m
  <1>4. PaidForIsKnown' /\ dropped' \in Nat
    BY <1>1, <1>2, <1>3, MapShrinks
  <1>5. VastTypes'
    BY <1>1, <1>2, <1>3, <1>4 DEF VastTypes, AnswersKept
  <1>6. MapIsSound'
    <2> SUFFICES ASSUME NEW j \in BJobs, jobMap'[j] # 0
                 PROVE LET k == contracts[jobMap'[j]]
                       IN k.job = j /\ k.told /\ k.model >= k.first /\ dispatched'[j] # "none"
      BY DEF MapIsSound
    <2>1. jobMap'[j] = jobMap[j]
      BY <1>2, <1>3
    <2> QED BY <1>1, <2>1 DEF MapIsSound, AnswersKept
  <1> QED BY <1>4, <1>5, <1>6 DEF VastIInv


LEMMA DispatchStartsInv ==
    ASSUME VastIInv, NEW j \in BJobs
    PROVE  /\ \A name \in BackendNames, up \in BOOLEAN : DispatchAtOnce(j, name, up) => VastIInv'
           /\ \A first \in DOMAIN Chain : DispatchVast(j, first) => VastIInv'
  <1>0. /\ dispatch \in DispatchRow /\ dispatched \in [BJobs -> Answers] /\ DispatchInv
    BY DEF VastIInv, VastTypes
  <1>1. ASSUME NEW name \in BackendNames, NEW up \in BOOLEAN, DispatchAtOnce(j, name, up)
        PROVE VastIInv'
    <2>1. PICK s \in Answers \ {"none"} : dispatched' = [dispatched EXCEPT ![j] = s]
      <3>1. CASE name = "local"
        BY <1>1, <3>1 DEF DispatchAtOnce, Answers
      <3>2. CASE name = "runpod"
        BY <1>1, <3>2 DEF DispatchAtOnce, Answers
      <3>3. CASE name = "gpu_worker"
        BY <1>1, <3>3 DEF DispatchAtOnce, Answers
      <3> QED BY <1>1, <3>1, <3>2, <3>3 DEF DispatchAtOnce, BackendNames
    <2>2. AnswersKept
      BY <1>0, <2>1 DEF AnswersKept
    <2>3. Selects(name) /\ UNCHANGED <<contracts, dispatch, apiFaults>>
      BY <1>1 DEF DispatchAtOnce
    <2>4. dispatch' \in DispatchRow /\ DispatchInv'
      BY <1>0, <2>3 DEF DispatchInv
    <2> QED BY <2>2, <2>3, <2>4, SelectsInv
  <1>2. ASSUME NEW first \in DOMAIN Chain, DispatchVast(j, first) PROVE VastIInv'
    <2>1. /\ Selects("vastai") /\ UNCHANGED <<contracts, dispatched, apiFaults>> /\ "vastai" \in BackendNames
          /\ dispatch' = [NoDispatch EXCEPT !.job = j, !.model = first, !.first = first, !.pc = "search"]
      BY <1>2 DEF DispatchVast, BackendNames
    <2>2. dispatch' = [job |-> j, model |-> first, first |-> first, attempt |-> 1, hits |-> 0, pc |-> "search"]
      BY <2>1 DEF NoDispatch
    <2>3. dispatch' \in DispatchRow /\ DispatchInv' /\ AnswersKept
      BY <1>0, <2>1, <2>2, ChainFacts DEF DispatchRow, DispatchInv, AnswersKept
    <2> QED BY <2>1, <2>3, SelectsInv
  <1> QED BY <1>1, <1>2

LEMMA AskBackendInv == ASSUME VastIInv, NEW name \in BackendNames, AskBackend(name) PROVE VastIInv'
  <1>1. Selects(name) /\ UNCHANGED <<contracts, dispatch, dispatched, apiFaults>>
    BY DEF AskBackend
  <1>2. dispatch' \in DispatchRow /\ DispatchInv' /\ AnswersKept
    BY <1>1 DEF VastIInv, VastTypes, DispatchInv, AnswersKept
  <1> QED BY <1>1, <1>2, SelectsInv

LEMMA ContractEnds ==
    ASSUME NEW r \in ContractRow
    PROVE  LET q == [r EXCEPT !.live = FALSE]
           IN /\ q \in ContractRow /\ ~q.live
              /\ q.job = r.job /\ q.model = r.model /\ q.first = r.first /\ q.told = r.told
  BY DEF ContractRow

(* The contracts after one of them ended.                                  *)
Ended(i) == [contracts EXCEPT ![i].live = FALSE]

LEMMA ContractsAfterEnd ==
    ASSUME contracts \in Seq(ContractRow), NEW i \in DOMAIN contracts
    PROVE  /\ Ended(i) \in Seq(ContractRow) /\ DOMAIN Ended(i) = DOMAIN contracts /\ Len(Ended(i)) = Len(contracts)
           /\ \A k \in DOMAIN contracts :
                 /\ Ended(i)[k].live => contracts[k].live
                 /\ Ended(i)[k].job = contracts[k].job /\ Ended(i)[k].told = contracts[k].told
                 /\ Ended(i)[k].model = contracts[k].model /\ Ended(i)[k].first = contracts[k].first
  <1>1. i \in 1..Len(contracts) /\ contracts[i] \in ContractRow /\ DOMAIN contracts = 1..Len(contracts)
    BY LenProperties, ElementOfSeq
  <1> DEFINE q == [contracts[i] EXCEPT !.live = FALSE]
  <1>2. /\ q \in ContractRow /\ ~q.live
        /\ q.job = contracts[i].job /\ q.model = contracts[i].model
        /\ q.first = contracts[i].first /\ q.told = contracts[i].told
    BY <1>1, ContractEnds
  <1>3. Ended(i) = [contracts EXCEPT ![i] = q]
    BY DEF Ended
  <1> HIDE DEF q
  <1>4. /\ Ended(i) \in Seq(ContractRow) /\ Len(Ended(i)) = Len(contracts)
        /\ \A k \in 1..Len(contracts) : Ended(i)[k] = IF k = i THEN q ELSE contracts[k]
    BY <1>1, <1>2, <1>3, ExceptSeq
  <1>5. DOMAIN Ended(i) = 1..Len(contracts)
    BY <1>4, LenProperties
  <1> QED BY <1>1, <1>2, <1>4, <1>5

LEMMA CancelOnBackendInv ==
    ASSUME VastIInv, NEW j \in BJobs, CancelOnBackend(j)
    PROVE  VastIInv'
  <1> DEFINE m0 == MapAfter(DefaultBackend)
             m == [m0 EXCEPT ![j] = 0]
  <1>1. VastTypes /\ DispatchInv /\ MapIsSound /\ PaidForIsKnown /\ contracts \in Seq(ContractRow)
    BY DEF VastIInv, VastTypes
  <1>2. m0 \in [BJobs -> 0..Len(contracts)] /\ \A k \in BJobs : m0[k] \in {0, jobMap[k]}
    BY <1>1, MapAfterShrinks
  <1>3. Len(contracts) \in Nat /\ DOMAIN contracts = 1..Len(contracts)
    BY <1>1, HeldIsFinite
  <1>4. /\ cached' = DefaultBackend /\ jobMap' = m /\ UNCHANGED <<dispatch, dispatched, apiFaults>>
        /\ dropped' = dropped + Cardinality(Mapped(jobMap)) - Cardinality(Mapped(m))
        /\ contracts' = contracts \/ (m0[j] # 0 /\ contracts' = Ended(m0[j]))
    BY DEF CancelOnBackend, Ended
  <1> HIDE DEF m0
  <1>5. m \in [BJobs -> 0..Len(contracts)] /\ \A k \in BJobs : m[k] \in {0, jobMap[k]}
    BY <1>2, <1>3
  <1> HIDE DEF m
  <1>6. /\ contracts' \in Seq(ContractRow) /\ DOMAIN contracts' = DOMAIN contracts /\ Len(contracts') = Len(contracts)
        /\ \A k \in DOMAIN contracts :
              /\ contracts'[k].live => contracts[k].live
              /\ contracts'[k].job = contracts[k].job /\ contracts'[k].told = contracts[k].told
              /\ contracts'[k].model = contracts[k].model /\ contracts'[k].first = contracts[k].first
    <2>1. CASE contracts' = contracts
      BY <1>1, <2>1
    <2>2. CASE m0[j] # 0 /\ contracts' = Ended(m0[j])
      <3>1. m0[j] \in DOMAIN contracts
        BY <1>2, <1>3, <2>2
      <3> QED BY <1>1, <2>2, <3>1, ContractsAfterEnd
    <2> QED BY <1>4, <2>1, <2>2
  <1>7. PaidForIsKnown' /\ dropped' \in Nat
    BY <1>1, <1>4, <1>5, <1>6, MapShrinks
  <1>8. VastTypes'
    BY <1>1, <1>4, <1>5, <1>6, <1>7, BackendsAssumption DEF VastTypes, BackendNames
  <1>9. MapIsSound'
    <2> SUFFICES ASSUME NEW k \in BJobs, jobMap'[k] # 0
                 PROVE LET x == contracts'[jobMap'[k]]
                       IN x.job = k /\ x.told /\ x.model >= x.first /\ dispatched'[k] # "none"
      BY DEF MapIsSound
    <2>1. jobMap'[k] = jobMap[k] /\ jobMap[k] \in DOMAIN contracts
      BY <1>3, <1>4, <1>5
    <2> QED BY <1>1, <1>4, <1>6, <2>1 DEF MapIsSound
  <1>10. DispatchInv'
    BY <1>1, <1>4 DEF DispatchInv
  <1> QED BY <1>7, <1>8, <1>9, <1>10 DEF VastIInv

LEMMA InstanceGoneInv ==
    ASSUME VastIInv, NEW i \in DOMAIN contracts, InstanceGone(i)
    PROVE  VastIInv'
  <1>1. VastTypes /\ DispatchInv /\ MapIsSound /\ PaidForIsKnown /\ contracts \in Seq(ContractRow)
    BY DEF VastIInv, VastTypes
  <1>2. contracts' = Ended(i) /\ UNCHANGED <<cached, jobMap, dispatch, dispatched, apiFaults, dropped>>
    BY DEF InstanceGone, Ended
  <1>3. /\ contracts' \in Seq(ContractRow) /\ DOMAIN contracts' = DOMAIN contracts /\ Len(contracts') = Len(contracts)
        /\ \A k \in DOMAIN contracts :
              /\ contracts'[k].live => contracts[k].live
              /\ contracts'[k].job = contracts[k].job /\ contracts'[k].told = contracts[k].told
              /\ contracts'[k].model = contracts[k].model /\ contracts'[k].first = contracts[k].first
    BY <1>1, <1>2, ContractsAfterEnd
  <1>4. Held' \subseteq Held \cup {}
    BY <1>2, <1>3 DEF Held
  <1>5. IsFiniteSet(Held) /\ Cardinality(Held) \in Nat /\ DOMAIN contracts = 1..Len(contracts)
    BY <1>1, HeldIsFinite
  <1>6. Cardinality(Held') \in Nat /\ Cardinality(Held') <= Cardinality(Held)
    BY <1>4, <1>5, FS_Subset, FS_CardinalityType
  <1>7. PaidForIsKnown'
    BY <1>1, <1>2, <1>5, <1>6 DEF PaidForIsKnown, VastTypes
  <1>8. VastTypes' /\ DispatchInv'
    BY <1>1, <1>2, <1>3 DEF VastTypes, DispatchInv
  <1>9. MapIsSound'
    <2> SUFFICES ASSUME NEW k \in BJobs, jobMap[k] # 0
                 PROVE LET x == contracts'[jobMap[k]]
                       IN x.job = k /\ x.told /\ x.model >= x.first /\ dispatched[k] # "none"
      BY <1>2 DEF MapIsSound
    <2>1. jobMap[k] \in DOMAIN contracts
      BY <1>1, <1>5 DEF VastTypes
    <2> QED BY <1>1, <1>3, <2>1 DEF MapIsSound
  <1> QED BY <1>7, <1>8, <1>9 DEF VastIInv


(* A contract is added at the end.                                         *)
LEMMA ContractAdded ==
    ASSUME VastTypes, DispatchInv, dispatch.pc = "rent", NEW heard \in BOOLEAN, contracts' = NewContract(heard)
    PROVE  /\ contracts' \in Seq(ContractRow) /\ Len(contracts') = Len(contracts) + 1 /\ Len(contracts) \in Nat
           /\ DOMAIN contracts = 1..Len(contracts) /\ DOMAIN contracts' = 1..(Len(contracts) + 1)
           /\ \A i \in DOMAIN contracts : contracts'[i] = contracts[i]
           /\ contracts'[Len(contracts) + 1].job = dispatch.job
           /\ contracts'[Len(contracts) + 1].told = heard
           /\ contracts'[Len(contracts) + 1].model >= contracts'[Len(contracts) + 1].first
  <1> DEFINE new == [job |-> dispatch.job, model |-> dispatch.model, first |-> dispatch.first,
                     live |-> TRUE, told |-> heard]
  <1>1. contracts \in Seq(ContractRow) /\ dispatch \in DispatchRow /\ dispatch.job \in BJobs
    BY DEF VastTypes, DispatchInv
  <1>2. new \in ContractRow /\ new.job = dispatch.job /\ new.told = heard /\ new.model >= new.first
    BY <1>1 DEF ContractRow, DispatchRow, DispatchInv
  <1>3. contracts' = Append(contracts, new)
    BY DEF NewContract
  <1> HIDE DEF new
  <1>4. /\ contracts' \in Seq(ContractRow) /\ Len(contracts') = Len(contracts) + 1
        /\ \A i \in 1..Len(contracts) : contracts'[i] = contracts[i]
        /\ contracts'[Len(contracts) + 1] = new
    BY <1>1, <1>2, <1>3, AppendProperties
  <1>5. DOMAIN contracts = 1..Len(contracts) /\ Len(contracts) \in Nat /\ DOMAIN contracts' = 1..Len(contracts')
    BY <1>1, <1>4, LenProperties
  <1> QED BY <1>2, <1>4, <1>5

LEMMA RentInstanceInv == VastIInv /\ RentInstance => VastIInv'
  <1> SUFFICES ASSUME VastIInv, RentInstance PROVE VastIInv'
    OBVIOUS
  <1> DEFINE n == Len(contracts) + 1
             d == dispatch.job
             old == jobMap[d]
  <1>1. VastTypes /\ DispatchInv /\ MapIsSound /\ PaidForIsKnown /\ dispatch.pc = "rent"
        /\ contracts' = NewContract(TRUE) /\ TRUE \in BOOLEAN
    BY DEF VastIInv, RentInstance
  <1>2. /\ contracts' \in Seq(ContractRow) /\ Len(contracts') = n /\ Len(contracts) \in Nat
        /\ DOMAIN contracts = 1..Len(contracts) /\ DOMAIN contracts' = 1..n
        /\ \A i \in DOMAIN contracts : contracts'[i] = contracts[i]
        /\ contracts'[n].job = d /\ contracts'[n].told = TRUE /\ contracts'[n].model >= contracts'[n].first
    BY <1>1, ContractAdded
  <1>3. /\ jobMap \in [BJobs -> 0..Len(contracts)] /\ dispatched \in [BJobs -> Answers]
        /\ dropped \in Nat /\ apiFaults \in Nat /\ d \in BJobs
    BY <1>1 DEF VastTypes, DispatchInv
  <1>4. /\ jobMap' = [jobMap EXCEPT ![d] = n]
        /\ dropped' = dropped + (IF old = 0 THEN 0 ELSE 1)
        /\ dispatched' = [dispatched EXCEPT ![d] = "provisioning"]
        /\ dispatch' = NoDispatch /\ UNCHANGED <<cached, apiFaults>>
    BY <1>2 DEF RentInstance
  <1> HIDE DEF d
  <1>5. jobMap' \in [BJobs -> 0..n] /\ jobMap'[d] = n /\ \A j \in BJobs : j # d => jobMap'[j] = jobMap[j]
    BY <1>2, <1>3, <1>4
  <1>6. VastTypes'
    <2>1. cached' \in BackendNames \cup {"none"} /\ dispatch' \in DispatchRow
      BY <1>1, <1>4, ChainFacts DEF VastTypes
    <2>2. dispatched' \in [BJobs -> Answers]
      BY <1>3, <1>4 DEF Answers
    <2>3. apiFaults' \in Nat /\ dropped' \in Nat
      BY <1>3, <1>4
    <2>4. jobMap' \in [BJobs -> 0..Len(contracts')]
      BY <1>2, <1>5
    <2> QED BY <1>2, <2>1, <2>2, <2>3, <2>4 DEF VastTypes
  <1>7. DispatchInv'
    BY <1>4, ChainFacts DEF DispatchInv
  <1>8. MapIsSound'
    <2> SUFFICES ASSUME NEW k \in BJobs, jobMap'[k] # 0
                 PROVE LET x == contracts'[jobMap'[k]]
                       IN x.job = k /\ x.told /\ x.model >= x.first /\ dispatched'[k] # "none"
      BY DEF MapIsSound
    <2>1. CASE k = d
      BY <1>2, <1>3, <1>4, <1>5, <2>1
    <2>2. CASE k # d
      <3>1. jobMap'[k] = jobMap[k] /\ jobMap[k] \in DOMAIN contracts /\ dispatched'[k] = dispatched[k]
        BY <1>2, <1>3, <1>4, <1>5, <2>2
      <3>2. contracts'[jobMap'[k]] = contracts[jobMap[k]] /\ jobMap[k] # 0
        BY <1>2, <3>1
      <3>3. /\ contracts[jobMap[k]].job = k /\ contracts[jobMap[k]].told
            /\ contracts[jobMap[k]].model >= contracts[jobMap[k]].first /\ dispatched[k] # "none"
        BY <1>1, <3>2 DEF MapIsSound
      <3> QED BY <3>1, <3>2, <3>3
    <2> QED BY <2>1, <2>2
  <1>9. IsFiniteSet(Held) /\ Cardinality(Held) \in Nat
    BY <1>1, HeldIsFinite DEF VastTypes
  <1>10. ASSUME NEW i \in Held' PROVE i \in Held \/ (old # 0 /\ i = old)
    <2>1. i \in 1..n /\ i # n /\ \A j \in BJobs : jobMap'[j] # i
      BY <1>2, <1>3, <1>5 DEF Held
    <2>2. i \in DOMAIN contracts /\ contracts[i].live
      BY <1>2, <2>1 DEF Held
    <2>3. \A j \in BJobs : j # d => jobMap[j] # i
      BY <1>5, <2>1
    <2>4. old # i => i \in Held
      BY <1>3, <2>2, <2>3 DEF Held
    <2> QED BY <1>2, <2>1, <2>4
  <1> HIDE DEF n, old
  <1>11. CASE old = 0
    <2>1. Held' \in SUBSET Held
      BY <1>10, <1>11
    <2>2. Cardinality(Held') \in Nat /\ Cardinality(Held') <= Cardinality(Held)
      BY <1>9, <2>1, FS_Subset, FS_CardinalityType
    <2>3. PaidForIsKnown'
      BY <1>1, <1>3, <1>4, <1>9, <1>11, <2>2 DEF PaidForIsKnown
    <2> QED BY <1>6, <1>7, <1>8, <2>3 DEF VastIInv
  <1>12. CASE old # 0
    <2>1. Held' \subseteq Held \cup {old}
      BY <1>10
    <2>2. IsFiniteSet({old}) /\ Cardinality({old}) = 1
      BY FS_Singleton
    <2>3. Cardinality(Held') \in Nat /\ Cardinality(Held') <= Cardinality(Held) + 1
      BY <1>9, <2>1, <2>2, HeldGrowsBy
    <2>4. PaidForIsKnown'
      BY <1>1, <1>3, <1>4, <1>9, <1>12, <2>3 DEF PaidForIsKnown
    <2> QED BY <1>6, <1>7, <1>8, <2>4 DEF VastIInv
  <1> QED BY <1>11, <1>12

LEMMA RentFailsInv ==
    ASSUME VastIInv, NEW how \in {"gone", "rate_limit", "lost"}, RentFails(how)
    PROVE  VastIInv'
  <1>1. /\ VastTypes /\ DispatchInv /\ MapIsSound /\ PaidForIsKnown /\ dispatch.pc = "rent"
        /\ UNCHANGED <<cached, jobMap, dropped>>
        /\ RateLimited \/ NextAttempt(dispatch.hits)
    BY DEF VastIInv, RentFails
  <1>2. dispatch' \in DispatchRow /\ DispatchInv' /\ AnswersKept
    BY <1>1, AttemptMoves
  <1>3. CASE how # "lost"
    <2>1. UNCHANGED contracts /\ apiFaults' = apiFaults + 0
      BY <1>3 DEF RentFails
    <2>2. apiFaults' = apiFaults
      BY <1>1, <2>1 DEF VastTypes
    <2> QED BY <1>1, <1>2, <2>1, <2>2, DispatchOnlyInv
  <1>4. CASE how = "lost"
    <2> DEFINE n == Len(contracts) + 1
    <2>1. contracts' = NewContract(FALSE) /\ apiFaults' = apiFaults + 1 /\ FALSE \in BOOLEAN
      BY <1>4 DEF RentFails
    <2>2. /\ contracts' \in Seq(ContractRow) /\ Len(contracts') = n /\ Len(contracts) \in Nat
          /\ DOMAIN contracts = 1..Len(contracts) /\ DOMAIN contracts' = 1..n
          /\ \A i \in DOMAIN contracts : contracts'[i] = contracts[i]
      BY <1>1, <2>1, ContractAdded
    <2>3. jobMap \in [BJobs -> 0..Len(contracts)] /\ dropped \in Nat /\ apiFaults \in Nat
      BY <1>1 DEF VastTypes
    <2>4. jobMap' \in [BJobs -> 0..n]
      BY <1>1, <2>2, <2>3
    <2>5. VastTypes'
      <3>1. cached' \in BackendNames \cup {"none"} /\ dispatched' \in [BJobs -> Answers]
        BY <1>1, <1>2 DEF VastTypes, AnswersKept
      <3>2. apiFaults' \in Nat /\ dropped' \in Nat
        BY <1>1, <2>1, <2>3
      <3>3. jobMap' \in [BJobs -> 0..Len(contracts')]
        BY <2>2, <2>4
      <3> QED BY <1>2, <2>2, <3>1, <3>2, <3>3 DEF VastTypes
    <2>6. MapIsSound'
      <3> SUFFICES ASSUME NEW k \in BJobs, jobMap[k] # 0
                   PROVE LET x == contracts'[jobMap[k]]
                         IN x.job = k /\ x.told /\ x.model >= x.first /\ dispatched'[k] # "none"
        BY <1>1 DEF MapIsSound
      <3>1. jobMap[k] \in DOMAIN contracts
        BY <2>2, <2>3
      <3> QED BY <1>1, <1>2, <2>2, <3>1 DEF MapIsSound, AnswersKept
    <2>7. Held' \subseteq Held \cup {n}
      BY <1>1, <2>2 DEF Held
    <2>8. IsFiniteSet({n}) /\ Cardinality({n}) = 1
      BY FS_Singleton
    <2>9. IsFiniteSet(Held) /\ Cardinality(Held) \in Nat
      BY <1>1, HeldIsFinite DEF VastTypes
    <2> HIDE DEF n
    <2>10. Cardinality(Held') \in Nat /\ Cardinality(Held') <= Cardinality(Held) + 1
      BY <2>7, <2>8, <2>9, HeldGrowsBy
    <2>11. PaidForIsKnown'
      BY <1>1, <2>1, <2>3, <2>9, <2>10 DEF PaidForIsKnown
    <2> QED BY <1>2, <2>5, <2>6, <2>11 DEF VastIInv
  <1> QED BY <1>3, <1>4

LEMMA VastNextInv == VastIInv /\ [VastNext]_vastvars => VastIInv'
  <1> SUFFICES ASSUME VastIInv, [VastNext]_vastvars PROVE VastIInv'
    OBVIOUS
  <1>1. CASE UNCHANGED vastvars
    <2>1. UNCHANGED <<cached, jobMap, contracts, dispatch, dispatched, apiFaults, dropped>>
      BY <1>1 DEF vastvars
    <2>2. dispatch' \in DispatchRow /\ DispatchInv' /\ AnswersKept
      BY <2>1 DEF VastIInv, VastTypes, DispatchInv, AnswersKept
    <2> QED BY <2>1, <2>2, DispatchOnlyInv
  <1>2. ASSUME NEW name \in {DefaultBackend, "vastai"}, AskBackend(name) PROVE VastIInv'
    <2>1. name \in BackendNames
      BY BackendsAssumption DEF BackendNames
    <2> QED BY <1>2, <2>1, AskBackendInv
  <1> QED BY <1>1, <1>2, DispatchStartsInv, CancelOnBackendInv, SearchOffersInv, RentInstanceInv, RentFailsInv,
             InstanceGoneInv DEF VastNext

LEMMA BackendsIsSafe == BackendsIInv => BackendsInv /\ BackendsTypeOK
  <1> SUFFICES ASSUME BackendsIInv PROVE BackendsInv /\ BackendsTypeOK
    OBVIOUS
  <1>1. PaidForIsKnown /\ MapIsSound /\ RunningIsRun /\ SlurmAnswersHold
    BY DEF BackendsIInv, VastIInv, PoolIInv, SlurmIInv
  <1>2. LoadIsInFlight
    BY DEF BackendsIInv, PoolIInv, LoadIsInFlight, InFlight
  <1>3. pool.load \in [PoolWorkers -> 0..Cardinality(PoolCalls)] /\ DOMAIN pool = {"load", "up", "active"}
    <2>1. ASSUME NEW w \in PoolWorkers PROVE pool.load[w] \in 0..Cardinality(PoolCalls)
      <3>1. InFlight(w) \in SUBSET PoolCalls
        BY DEF InFlight
      <3>2. /\ IsFiniteSet(InFlight(w)) /\ Cardinality(InFlight(w)) <= Cardinality(PoolCalls)
        BY <3>1, PoolFacts, FS_Subset
      <3>3. Cardinality(InFlight(w)) \in Nat /\ Cardinality(PoolCalls) \in Nat
        BY <3>2, PoolFacts, FS_CardinalityType
      <3>4. pool.load[w] = Cardinality(InFlight(w))
        BY DEF BackendsIInv, PoolIInv
      <3> QED BY <3>2, <3>3, <3>4
    <2>2. pool \in PoolRow
      BY DEF BackendsIInv, PoolIInv, PoolRow
    <2> QED BY <2>1, <2>2 DEF PoolRow
  <1>4. \A i \in DOMAIN contracts : contracts[i] \in ContractRow
    BY ElementOfSeq, LenProperties DEF BackendsIInv, VastIInv, VastTypes
  <1>5. BackendsTypeOK
    <2>1. /\ dispatch.attempt \in 1..4 /\ dispatch.hits \in 0..1 /\ dispatch.job \in BJobs \cup {NoBJob}
          /\ dispatch.model \in DOMAIN Chain /\ dispatch.pc \in {"idle", "search", "rent"}
      BY DEF BackendsIInv, VastIInv, VastTypes, DispatchRow
    <2> QED BY <1>3, <1>4, <2>1
            DEF BackendsIInv, VastIInv, VastTypes, PoolIInv, SlurmIInv, BackendsTypeOK, ContractRow, CallRow, Answers
  <1> QED BY <1>1, <1>2, <1>5 DEF BackendsInv


-----------------------------------------------------------------------------
(* The scheduler: routing.  The month of a free tenant is kept up to what  *)
(* the executors admit together, so the invariant counts the executors     *)
(* that were admitted for good and have not run yet.                       *)
ExecRow == [pc : {"idle", "verdict", "look", "write", "gate", "run"}, job : SJobs, asked : BOOLEAN,
            est : Estimates, cost : Nat, round : 1..2, basis : {"none", "quota", "money", "confirmed"}]

RouteTypes ==
    /\ tplan \in Plans4 /\ spent \in [jobs : Nat, gpu : Nat] /\ sources \in [usage : BOOLEAN, audit : BOOLEAN]
    /\ exec \in [Executors -> ExecRow] /\ confirms \in Seq(SJobs)
    /\ done \subseteq [job : SJobs, basis : {"quota", "money", "confirmed"}, cost : Nat]
    /\ submits \in 0..MaxSubmits /\ schedFaults \in 0..MaxSchedFaults

(* An executor past the verdict knows on whose word it goes on.            *)
WordHeld(x, known) ==
    /\ x.pc \in {"look", "write"} => x.basis = "confirmed"
    /\ x.pc \in {"gate", "run"} =>
          /\ x.basis # "none"
          /\ x.basis = "confirmed" => x.job \in known
          /\ x.basis = "money" => 10 * x.cost <= 8 * CostLimit
    /\ x.pc = "run" => x.round = 2

ForGood(x) == x.pc \in {"gate", "run"} /\ x.round = 2

Admitted == {e \in Executors : ForGood(exec[e])}

GpuBound == MonthlyGpu + (Cardinality(Executors) - 1) * PerJob

(* The last admission saw a month with room for its own estimate.          *)
MonthInv ==
    (schedFaults = 0 /\ tplan = "free") =>
        /\ \A e \in Executors : exec[e].pc \notin {"look", "write"}
        /\ \A e \in Admitted : exec[e].est <= PerJob
        /\ spent.jobs + Cardinality(Admitted) <= QuotaJobs + Cardinality(Executors) - 1
        /\ \/ spent.gpu + Cardinality(Admitted) * PerJob <= GpuBound
           \/ \E e \in Admitted :
                 spent.gpu + exec[e].est + (Cardinality(Admitted) - 1) * PerJob <= GpuBound

RouteIInv ==
    /\ RouteTypes /\ ConfirmedOnce /\ ExpensiveIsConfirmed
    /\ \A e \in Executors : WordHeld(exec[e], ToSet(confirms))
    /\ MonthInv

(* The scheduler: the books of the cluster.                                *)
NodeSound(a) ==
    \/ DOMAIN a = {}
    \/ \E j \in PolicyJobs : DOMAIN a = {j} /\ a[j] \in Int /\ a[j] <= NodeVram

PolicyIInv ==
    /\ DOMAIN gnodes \subseteq GpuNodes
    /\ gnodes = [n \in DOMAIN gnodes |-> gnodes[n]]
    /\ \A n \in DOMAIN gnodes : NodeSound(gnodes[n])
    /\ \A n, m \in DOMAIN gnodes : DOMAIN gnodes[n] \cap DOMAIN gnodes[m] # {} => n = m
    /\ pending \in Seq([job : PolicyJobs, prio : Nat])
    /\ \A i, k \in DOMAIN pending : i < k => pending[i].prio >= pending[k].prio
    /\ 100 * (Len(pending) - 1) < 85 * MaxPending

SchedIInv == RouteIInv /\ PolicyIInv


(* The sum over the jobs of a node, of which there is at most one: the     *)
(* function that computes it is unfolded on the subsets of that job.       *)
LEMMA VramOfEmptyNode == ASSUME NEW n, DOMAIN gnodes[n] = {} PROVE VramUsed(n) = 0
  <1> DEFINE it == [s \in SUBSET {} |-> 0]
             eq(i) == i = [s \in SUBSET (DOMAIN gnodes[n]) |-> IF s = {} THEN 0
                           ELSE LET x == CHOOSE y \in s : TRUE IN gnodes[n][x] + i[s \ {x}]]
  <1>1. eq(it)
    OBVIOUS
  <1>2. VramUsed(n) = (CHOOSE i : eq(i))[DOMAIN gnodes[n]]
    BY DEF VramUsed, MapThenSumSet, MapThenFoldSet
  <1>3. eq(CHOOSE i : eq(i))
    BY <1>1, Zenon
  <1> QED BY <1>2, <1>3

LEMMA VramOfBusyNode ==
    ASSUME NEW n, NEW j, DOMAIN gnodes[n] = {j}, gnodes[n][j] \in Int
    PROVE  VramUsed(n) = gnodes[n][j]
  <1> DEFINE g == gnodes[n]
             it == [s \in SUBSET {j} |-> IF s = {} THEN 0 ELSE g[j]]
             eq(i) == i = [s \in SUBSET (DOMAIN gnodes[n]) |-> IF s = {} THEN 0
                           ELSE LET x == CHOOSE y \in s : TRUE IN gnodes[n][x] + i[s \ {x}]]
  <1>0. \A s \in SUBSET {j} : s # {} => s = {j} /\ (CHOOSE y \in s : TRUE) = j /\ s \ {j} = {}
    OBVIOUS
  <1>1. eq(it)
    <2>1. ASSUME NEW s \in SUBSET {j}, s # {}
          PROVE gnodes[n][CHOOSE y \in s : TRUE] + it[s \ {CHOOSE y \in s : TRUE}] = g[j]
      <3>1. it[{}] = 0
        OBVIOUS
      <3>2. (CHOOSE y \in s : TRUE) = j /\ s \ {j} = {}
        BY <1>0, <2>1
      <3> HIDE DEF it
      <3>3. gnodes[n][CHOOSE y \in s : TRUE] = g[j] /\ it[s \ {CHOOSE y \in s : TRUE}] = it[{}]
        BY <3>2, Zenon
      <3>4. g[j] + 0 = g[j]
        OBVIOUS
      <3> QED BY <3>1, <3>3, <3>4
    <2> QED BY <2>1
  <1>2. VramUsed(n) = (CHOOSE i : eq(i))[DOMAIN gnodes[n]]
    BY DEF VramUsed, MapThenSumSet, MapThenFoldSet
  <1>3. eq(CHOOSE i : eq(i))
    BY <1>1, Zenon
  <1> DEFINE f == CHOOSE i : eq(i)
  <1>4. f = [s \in SUBSET {j} |-> IF s = {} THEN 0
                           ELSE LET x == CHOOSE y \in s : TRUE IN gnodes[n][x] + f[s \ {x}]]
    BY <1>3, Zenon
  <1>5. VramUsed(n) = f[{j}]
    BY <1>2, Zenon
  <1> HIDE DEF f
  <1>6. f[{}] = 0
    BY <1>4
  <1>7. f[{j}] = gnodes[n][CHOOSE y \in {j} : TRUE] + f[{j} \ {CHOOSE y \in {j} : TRUE}]
    BY <1>4
  <1> QED BY <1>0, <1>5, <1>6, <1>7

LEMMA NodeFits ==
    ASSUME NEW n, NodeSound(gnodes[n])
    PROVE  VramUsed(n) <= NodeVram /\ Cardinality(DOMAIN gnodes[n]) <= 1
  <1>1. CASE DOMAIN gnodes[n] = {}
    BY <1>1, VramOfEmptyNode, FS_EmptySet, SchedulerAssumption
  <1>2. ASSUME NEW j \in PolicyJobs, DOMAIN gnodes[n] = {j}, gnodes[n][j] \in Int, gnodes[n][j] <= NodeVram
        PROVE  VramUsed(n) <= NodeVram /\ Cardinality(DOMAIN gnodes[n]) <= 1
    <2>1. VramUsed(n) = gnodes[n][j]
      BY <1>2, VramOfBusyNode
    <2>2. Cardinality({j}) = 1
      BY FS_Singleton
    <2> QED BY <1>2, <2>1, <2>2
  <1> QED BY <1>1, <1>2 DEF NodeSound

(* t is s with e after its first k elements.                               *)
IsInserted(S, s, k, e, t) ==
    /\ t \in Seq(S) /\ Len(t) = Len(s) + 1
    /\ \A i \in 1..(Len(s) + 1) : t[i] = IF i <= k THEN s[i] ELSE IF i = k + 1 THEN e ELSE s[i - 1]

LEMMA Inserted ==
    ASSUME NEW S, NEW s \in Seq(S), NEW e \in S, NEW k \in 0..Len(s)
    PROVE  IsInserted(S, s, k, e, InsertAt(s, k + 1, e))
  <1> DEFINE a == SubSeq(s, 1, k)
             b == SubSeq(s, k + 1, Len(s))
             c == a \o <<e>>
  <1>0. Len(s) \in Nat /\ k \in Nat /\ k <= Len(s) /\ (k + 1) - 1 = k
    BY LenProperties
  <1>1. a \in Seq(S) /\ Len(a) = k /\ \A i \in 1..k : a[i] = s[i]
    BY <1>0
  <1>2. b \in Seq(S) /\ Len(b) = Len(s) - k /\ \A i \in 1..(Len(s) - k) : b[i] = s[k + i]
    BY <1>0
  <1>3. InsertAt(s, k + 1, e) = c \o b
    BY <1>0 DEF InsertAt
  <1> HIDE DEF a, b
  <1>4. c \in Seq(S) /\ Len(c) = k + 1 /\ (\A i \in 1..k : c[i] = s[i]) /\ c[k + 1] = e
    BY <1>0, <1>1
  <1> HIDE DEF c
  <1> DEFINE d == c \o b
  <1>5. /\ d \in Seq(S) /\ Len(d) = Len(s) + 1
        /\ \A i \in 1..(Len(s) + 1) : d[i] = IF i <= k + 1 THEN c[i] ELSE b[i - (k + 1)]
    <2>1. /\ d \in Seq(S) /\ Len(d) = Len(c) + Len(b)
          /\ \A i \in 1..(Len(c) + Len(b)) : d[i] = IF i <= Len(c) THEN c[i] ELSE b[i - Len(c)]
      BY <1>2, <1>4, ConcatProperties
    <2>2. Len(c) + Len(b) = Len(s) + 1
      BY <1>0, <1>2, <1>4
    <2> HIDE DEF d
    <2> QED BY <1>4, <2>1, <2>2
  <1>6. InsertAt(s, k + 1, e) = d
    BY <1>3
  <1> HIDE DEF d
  <1>7. ASSUME NEW i \in 1..(Len(s) + 1)
        PROVE d[i] = IF i <= k THEN s[i] ELSE IF i = k + 1 THEN e ELSE s[i - 1]
    <2>1. CASE i <= k
      BY <1>0, <1>4, <1>5, <2>1
    <2>2. CASE i = k + 1
      BY <1>0, <1>4, <1>5, <2>2
    <2>3. CASE i > k + 1
      <3>1. i - (k + 1) \in 1..(Len(s) - k) /\ k + (i - (k + 1)) = i - 1
        BY <1>0, <2>3
      <3>2. b[i - (k + 1)] = s[i - 1]
        BY <1>2, <3>1
      <3> QED BY <1>0, <1>5, <2>3, <3>2
    <2>4. i <= k \/ i = k + 1 \/ i > k + 1
      BY <1>0
    <2> QED BY <2>1, <2>2, <2>3, <2>4
  <1> QED BY <1>5, <1>6, <1>7 DEF IsInserted

(* The queued jobs of at least a priority are the first of the queue.      *)
Ahead(prio) == {i \in DOMAIN pending : pending[i].prio >= prio}

LEMMA FirstOfQueue ==
    ASSUME PolicyIInv, NEW prio \in Nat
    PROVE  Cardinality(Ahead(prio)) \in 0..Len(pending) /\ Ahead(prio) = 1..Cardinality(Ahead(prio))
  <1> DEFINE K == Ahead(prio)
             Wait == [job : PolicyJobs, prio : Nat]
  <1>1. pending \in Seq(Wait) /\ DOMAIN pending = 1..Len(pending) /\ Len(pending) \in Nat
    BY LenProperties DEF PolicyIInv
  <1>2. \A i \in DOMAIN pending : pending[i].prio \in Nat
    <2> HIDE DEF Wait
    <2>1. \A i \in DOMAIN pending : pending[i] \in Wait
      BY <1>1, ElementOfSeq
    <2> QED BY <2>1 DEF Wait
  <1>3. /\ K \in SUBSET (0..Len(pending)) /\ K \subseteq 1..Len(pending)
        /\ \A i \in DOMAIN pending : i \in K <=> pending[i].prio >= prio
    BY <1>1 DEF Ahead
  <1> HIDE DEF K
  <1>4. CASE K = {}
    <2>1. Cardinality(K) = 0
      BY <1>4, FS_EmptySet
    <2> QED BY <1>1, <1>4, <2>1 DEF K
  <1>5. CASE K # {}
    <2>1. PICK m \in K : \A i \in K : i <= m
      BY <1>1, <1>3, <1>5, GreatestNumber
    <2>2. m \in 1..Len(pending) /\ pending[m].prio >= prio
      BY <1>1, <1>3, <2>1
    <2>3. ASSUME NEW i \in 1..m PROVE i \in K
      <3>1. i \in DOMAIN pending /\ m \in DOMAIN pending
        BY <1>1, <2>2
      <3>2. CASE i = m
        BY <2>1, <3>2
      <3>3. CASE i < m
        <4>1. pending[i].prio >= pending[m].prio
          BY <3>1, <3>3 DEF PolicyIInv
        <4> QED BY <1>2, <1>3, <2>2, <3>1, <4>1
      <3> QED BY <1>1, <2>2, <3>2, <3>3
    <2>4. K = 1..m
      <3>1. \A i \in K : i \in 1..m
        BY <1>1, <1>3, <2>1, <2>2
      <3> QED BY <2>3, <3>1
    <2>5. Cardinality(1..m) = m
      BY <1>1, <2>2, FS_Interval
    <2> QED BY <1>1, <2>2, <2>4, <2>5 DEF K
  <1> QED BY <1>4, <1>5


LEMMA PolicyInitInv == PolicyInit => PolicyIInv
  <1> SUFFICES ASSUME PolicyInit PROVE PolicyIInv
    OBVIOUS
  <1>1. pending = <<>> /\ pending \in Seq([job : PolicyJobs, prio : Nat]) /\ Len(pending) = 0 /\ DOMAIN pending = {}
    BY EmptySeq DEF PolicyInit
  <1>2. \A n \in GpuNodes : gnodes[n] = <<>> /\ DOMAIN gnodes[n] = {}
    BY EmptySeq DEF PolicyInit
  <1>3. DOMAIN gnodes = GpuNodes /\ gnodes = [n \in DOMAIN gnodes |-> gnodes[n]]
    BY DEF PolicyInit
  <1>4. 100 * (Len(pending) - 1) < 85 * MaxPending
    BY <1>1, SchedulerAssumption
  <1> QED BY <1>1, <1>2, <1>3, <1>4 DEF PolicyIInv, NodeSound

(* The queue stands still; the nodes stay sound and disjoint.              *)
LEMMA NodesMoveInv ==
    ASSUME PolicyIInv, UNCHANGED pending, DOMAIN gnodes' \subseteq GpuNodes,
           gnodes' = [n \in DOMAIN gnodes' |-> gnodes'[n]],
           \A n \in DOMAIN gnodes' : NodeSound(gnodes'[n]),
           \A n, m \in DOMAIN gnodes' : DOMAIN gnodes'[n] \cap DOMAIN gnodes'[m] # {} => n = m
    PROVE  PolicyIInv'
  BY DEF PolicyIInv

LEMMA NodeTakesInv ==
    ASSUME PolicyIInv, NEW j \in PolicyJobs, NEW gb \in Int, NEW n \in Candidates(gb),
           \A m \in DOMAIN gnodes : j \notin DOMAIN gnodes[m],
           gnodes' = [gnodes EXCEPT ![n] = [i \in DOMAIN @ \cup {j} |-> IF i = j THEN gb ELSE @[i]]],
           UNCHANGED pending
    PROVE  PolicyIInv'
  <1>1. n \in DOMAIN gnodes /\ DOMAIN gnodes[n] = {} /\ VramFree(n) >= gb
    BY DEF Candidates, CanAllocate
  <1>2. gb <= NodeVram
    BY <1>1, VramOfEmptyNode, SchedulerAssumption DEF VramFree
  <1> DEFINE a == [i \in DOMAIN gnodes[n] \cup {j} |-> IF i = j THEN gb ELSE gnodes[n][i]]
  <1>3. DOMAIN a = {j} /\ a[j] = gb
    BY <1>1
  <1>4. gnodes' = [gnodes EXCEPT ![n] = a] /\ gnodes = [m \in DOMAIN gnodes |-> gnodes[m]]
    BY DEF PolicyIInv
  <1> HIDE DEF a
  <1>5. /\ DOMAIN gnodes' = DOMAIN gnodes /\ gnodes'[n] = a
        /\ \A m \in DOMAIN gnodes : m # n => gnodes'[m] = gnodes[m]
        /\ gnodes' = [m \in DOMAIN gnodes' |-> gnodes'[m]]
    BY <1>1, <1>4
  <1>6. NodeSound(a)
    BY <1>2, <1>3 DEF NodeSound
  <1>7. \A m \in DOMAIN gnodes' : NodeSound(gnodes'[m])
    BY <1>5, <1>6 DEF PolicyIInv
  <1>8. \A k, m \in DOMAIN gnodes' : DOMAIN gnodes'[k] \cap DOMAIN gnodes'[m] # {} => k = m
    BY <1>3, <1>5 DEF PolicyIInv
  <1>9. DOMAIN gnodes' \subseteq GpuNodes
    BY <1>5 DEF PolicyIInv
  <1> QED BY <1>5, <1>7, <1>8, <1>9, NodesMoveInv

LEMMA JobQueuesInv ==
    ASSUME PolicyIInv, NEW j \in PolicyJobs, NEW prio \in 1..2, ~Saturated,
           pending' = PendingWith(j, prio), UNCHANGED gnodes
    PROVE  PolicyIInv'
  <1> DEFINE Wait == [job : PolicyJobs, prio : Nat]
             e == [job |-> j, prio |-> prio]
             k == Cardinality(Ahead(prio))
  <1>1. e \in Wait /\ e.prio = prio /\ prio \in Nat
    OBVIOUS
  <1>2. k \in 0..Len(pending) /\ Ahead(prio) = 1..k
    BY <1>1, FirstOfQueue
  <1>3. pending' = InsertAt(pending, k + 1, e)
    BY DEF PendingWith, Ahead
  <1>4. pending \in Seq(Wait) /\ DOMAIN pending = 1..Len(pending) /\ Len(pending) \in Nat
    BY LenProperties DEF PolicyIInv
  <1>5. \A i \in DOMAIN pending : i <= k <=> pending[i].prio >= prio
    BY <1>2, <1>4 DEF Ahead
  <1> HIDE DEF k, e, Wait
  <1>6. /\ pending' \in Seq(Wait) /\ Len(pending') = Len(pending) + 1
        /\ \A i \in 1..(Len(pending) + 1) : pending'[i] =
              IF i <= k THEN pending[i] ELSE IF i = k + 1 THEN e ELSE pending[i - 1]
    <2>1. IsInserted(Wait, pending, k, e, pending')
      BY <1>1, <1>2, <1>3, <1>4, Inserted
    <2> QED BY <2>1 DEF IsInserted
  <1>7. DOMAIN pending' = 1..(Len(pending) + 1)
    BY <1>6, LenProperties
  <1>8. \A i \in DOMAIN pending : pending[i].prio \in Nat
    <2>1. \A i \in DOMAIN pending : pending[i] \in Wait
      BY <1>4, ElementOfSeq
    <2> QED BY <2>1 DEF Wait
  <1>9. ASSUME NEW i \in DOMAIN pending', NEW l \in DOMAIN pending', i < l
        PROVE pending'[i].prio >= pending'[l].prio
    <2>0. k \in Nat /\ k <= Len(pending) /\ i \in 1..(Len(pending) + 1) /\ l \in 1..(Len(pending) + 1)
      BY <1>2, <1>4, <1>7
    <2>1. CASE l <= k
      <3>1. pending'[i] = pending[i] /\ pending'[l] = pending[l] /\ i \in DOMAIN pending /\ l \in DOMAIN pending
        BY <1>4, <1>6, <1>9, <2>0, <2>1
      <3> QED BY <1>9, <3>1 DEF PolicyIInv
    <2>2. CASE l = k + 1
      <3>1. pending'[i] = pending[i] /\ pending'[l] = e /\ i \in DOMAIN pending /\ i <= k
        BY <1>4, <1>6, <1>9, <2>0, <2>2
      <3> QED BY <1>1, <1>5, <3>1
    <2>3. CASE l > k + 1
      <3>1. pending'[l] = pending[l - 1] /\ l - 1 \in DOMAIN pending /\ l - 1 > k
        BY <1>4, <1>6, <2>0, <2>3
      <3>2. CASE i <= k
        <4>1. pending'[i] = pending[i] /\ i \in DOMAIN pending /\ i < l - 1
          BY <1>4, <1>6, <2>0, <3>1, <3>2
        <4> QED BY <3>1, <4>1 DEF PolicyIInv
      <3>3. CASE i = k + 1
        <4>1. pending'[i] = e /\ ~(pending[l - 1].prio >= prio)
          BY <1>5, <1>6, <2>0, <3>1, <3>3
        <4> QED BY <1>1, <1>8, <3>1, <4>1
      <3>4. CASE i > k + 1
        <4>1. pending'[i] = pending[i - 1] /\ i - 1 \in DOMAIN pending /\ i - 1 < l - 1
          BY <1>4, <1>6, <1>9, <2>0, <3>4
        <4> QED BY <3>1, <4>1 DEF PolicyIInv
      <3> QED BY <2>0, <3>2, <3>3, <3>4
    <2> QED BY <2>0, <2>1, <2>2, <2>3
  <1>10. 100 * (Len(pending') - 1) < 85 * MaxPending
    BY <1>4, <1>6, SchedulerAssumption DEF Saturated
  <1> QED BY <1>6, <1>9, <1>10 DEF PolicyIInv, Wait

LEMMA PolicyNextInv == PolicyIInv /\ [PolicyNext]_pvars => PolicyIInv'
  <1> SUFFICES ASSUME PolicyIInv, [PolicyNext]_pvars PROVE PolicyIInv'
    OBVIOUS
  <1>0. /\ gnodes = [n \in DOMAIN gnodes |-> gnodes[n]] /\ DOMAIN gnodes \subseteq GpuNodes
        /\ \A n \in DOMAIN gnodes : NodeSound(gnodes[n])
        /\ \A n, m \in DOMAIN gnodes : DOMAIN gnodes[n] \cap DOMAIN gnodes[m] # {} => n = m
    BY DEF PolicyIInv
  <1>1. CASE UNCHANGED pvars
    BY <1>1 DEF pvars, PolicyIInv
  <1>2. ASSUME NEW j \in PolicyJobs, NEW prio \in 1..2, NEW gb \in {1, NodeVram - 1}, Schedule(j, prio, gb)
        PROVE PolicyIInv'
    <2>1. gb \in Int /\ ~Saturated /\ \A n \in DOMAIN gnodes : j \notin DOMAIN gnodes[n]
      BY <1>2, SchedulerAssumption DEF Schedule
    <2>2. ASSUME NEW n \in Candidates(gb), UNCHANGED pending,
                 gnodes' = [gnodes EXCEPT ![n] = [i \in DOMAIN @ \cup {j} |-> IF i = j THEN gb ELSE @[i]]]
          PROVE PolicyIInv'
      BY <2>1, <2>2, NodeTakesInv
    <2>3. CASE pending' = PendingWith(j, prio) /\ UNCHANGED gnodes
      BY <2>1, <2>3, JobQueuesInv
    <2> QED BY <1>2, <2>2, <2>3 DEF Schedule
  <1>3. ASSUME NEW n \in DOMAIN gnodes, NEW j \in PolicyJobs, ReleaseJob(n, j) PROVE PolicyIInv'
    <2> DEFINE a == [i \in DOMAIN gnodes[n] \ {j} |-> gnodes[n][i]]
    <2>1. DOMAIN a = DOMAIN gnodes[n] \ {j}
      OBVIOUS
    <2>2. gnodes' = [gnodes EXCEPT ![n] = a] /\ UNCHANGED pending /\ j \in DOMAIN gnodes[n]
      BY <1>3 DEF ReleaseJob
    <2> HIDE DEF a
    <2>3. DOMAIN a = {}
      <3>1. NodeSound(gnodes[n]) /\ DOMAIN gnodes[n] # {}
        BY <1>0, <2>2
      <3>2. PICK l \in PolicyJobs : DOMAIN gnodes[n] = {l}
        BY <3>1 DEF NodeSound
      <3> QED BY <2>1, <2>2, <3>2
    <2>4. /\ DOMAIN gnodes' = DOMAIN gnodes /\ gnodes'[n] = a
          /\ \A m \in DOMAIN gnodes : m # n => gnodes'[m] = gnodes[m]
          /\ gnodes' = [m \in DOMAIN gnodes' |-> gnodes'[m]]
      BY <1>0, <2>2
    <2>5. \A m \in DOMAIN gnodes' : NodeSound(gnodes'[m])
      BY <1>0, <2>3, <2>4 DEF NodeSound
    <2>6. \A k, m \in DOMAIN gnodes' : DOMAIN gnodes'[k] \cap DOMAIN gnodes'[m] # {} => k = m
      BY <1>0, <2>3, <2>4
    <2> QED BY <1>0, <2>2, <2>4, <2>5, <2>6, NodesMoveInv
  <1>4. ASSUME NEW n \in GpuNodes, RegisterNode(n) PROVE PolicyIInv'
    <2>1. /\ gnodes' = [m \in DOMAIN gnodes \cup {n} |-> IF m = n THEN <<>> ELSE gnodes[m]]
          /\ UNCHANGED pending /\ DOMAIN <<>> = {}
      BY <1>4, EmptySeq DEF RegisterNode
    <2>2. /\ DOMAIN gnodes' = DOMAIN gnodes \cup {n} /\ DOMAIN gnodes'[n] = {}
          /\ \A m \in DOMAIN gnodes : m # n => gnodes'[m] = gnodes[m]
          /\ gnodes' = [m \in DOMAIN gnodes' |-> gnodes'[m]]
      BY <2>1
    <2>3. \A m \in DOMAIN gnodes' : NodeSound(gnodes'[m])
      BY <1>0, <2>2 DEF NodeSound
    <2>4. \A k, m \in DOMAIN gnodes' : DOMAIN gnodes'[k] \cap DOMAIN gnodes'[m] # {} => k = m
      BY <1>0, <2>2
    <2>5. DOMAIN gnodes' \subseteq GpuNodes
      BY <1>0, <2>2
    <2> QED BY <2>1, <2>2, <2>3, <2>4, <2>5, NodesMoveInv
  <1>5. ASSUME NEW n \in DOMAIN gnodes, UnregisterNode(n) PROVE PolicyIInv'
    <2>1. gnodes' = [m \in DOMAIN gnodes \ {n} |-> gnodes[m]] /\ UNCHANGED pending
      BY <1>5 DEF UnregisterNode
    <2>2. /\ DOMAIN gnodes' = DOMAIN gnodes \ {n} /\ \A m \in DOMAIN gnodes' : gnodes'[m] = gnodes[m]
          /\ gnodes' = [m \in DOMAIN gnodes' |-> gnodes'[m]]
      BY <2>1
    <2> QED BY <1>0, <2>1, <2>2, NodesMoveInv
  <1> QED BY <1>1, <1>2, <1>3, <1>4, <1>5 DEF PolicyNext

LEMMA BooksKept == PolicyIInv => ClusterBooks
  <1> SUFFICES ASSUME PolicyIInv PROVE ClusterBooks
    OBVIOUS
  <1>1. \A n \in DOMAIN gnodes : VramUsed(n) <= NodeVram /\ Cardinality(DOMAIN gnodes[n]) <= 1
    BY NodeFits DEF PolicyIInv
  <1> QED BY <1>1 DEF PolicyIInv, ClusterBooks


-----------------------------------------------------------------------------
(* Routing, step by step.                                                  *)
LEMMA RestingRow ==
    Resting \in ExecRow /\ Resting.pc = "idle" /\ ~ForGood(Resting) /\ \A known : WordHeld(Resting, known)
  <1>1. (CHOOSE j \in SJobs : TRUE) \in SJobs
    BY SchedulerAssumption
  <1>2. 0 \in Estimates
    BY SchedulerAssumption DEF Estimates
  <1>3. Resting \in ExecRow /\ Resting.pc = "idle"
    BY <1>1, <1>2 DEF Resting, ExecRow
  <1> QED BY <1>3 DEF ForGood, WordHeld

LEMMA Products ==
    ASSUME NEW p \in Nat, NEW m \in Int, NEW n \in Int
    PROVE  /\ m * p \in Int /\ (m - 1) * p = m * p - p /\ m <= n => m * p <= n * p
  <1>1. m * p \in Int /\ n * p \in Int /\ (m - 1) * p = m * p - p
    OBVIOUS
  <1>2. ASSUME m <= n PROVE m * p <= n * p
    BY <1>2
  <1> QED BY <1>1, <1>2

LEMMA AdmittedFinite ==
    /\ IsFiniteSet(Admitted) /\ Cardinality(Admitted) \in Nat /\ Cardinality(Executors) \in Nat
    /\ Cardinality(Admitted) <= Cardinality(Executors)
  <1>1. Admitted \in SUBSET Executors /\ IsFiniteSet(Executors)
    BY SchedulerAssumption DEF Admitted
  <1>2. IsFiniteSet(Admitted) /\ Cardinality(Admitted) <= Cardinality(Executors)
    BY <1>1, FS_Subset
  <1> QED BY <1>1, <1>2, FS_CardinalityType

LEMMA MonthlyNumbers == MonthlyGpu \in Nat /\ GpuBound \in Int /\ PerJob \in Nat /\ QuotaJobs \in Nat /\ QuotaJobs >= 1
  <1>1. PerJob \in Nat /\ QuotaJobs \in Nat /\ QuotaJobs >= 1
    BY SchedulerAssumption
  <1>2. MonthlyGpu \in Nat
    BY <1>1 DEF MonthlyGpu
  <1>3. (Cardinality(Executors) - 1) * PerJob \in Int
    BY <1>1, AdmittedFinite, Products
  <1> QED BY <1>1, <1>2, <1>3 DEF GpuBound

(* An executor that is no longer admitted frees its place in the month.    *)
LEMMA MonthFreed ==
    ASSUME NEW s \in Nat, NEW n \in Nat, NEW m \in Nat, m <= n,
           s + n * PerJob <= GpuBound
    PROVE  s + m * PerJob <= GpuBound
  <1>1. m * PerJob <= n * PerJob /\ m * PerJob \in Int /\ n * PerJob \in Int
    BY MonthlyNumbers, Products
  <1> QED BY <1>1, MonthlyNumbers

LEMMA MonthMoves ==
    ASSUME RouteTypes, MonthInv, NEW e \in Executors, NEW x \in ExecRow, exec' = [exec EXCEPT ![e] = x],
           UNCHANGED <<spent, tplan, schedFaults>>,
           (schedFaults = 0 /\ tplan = "free") =>
               /\ x.pc \notin {"look", "write"}
               /\ ForGood(x) =>
                     \/ ForGood(exec[e]) /\ x.est = exec[e].est
                     \/ spent.jobs < QuotaJobs /\ x.est <= PerJob /\ spent.gpu + x.est <= MonthlyGpu
    PROVE  MonthInv'
  <1> SUFFICES ASSUME schedFaults = 0, tplan = "free"
               PROVE /\ \A d \in Executors : exec'[d].pc \notin {"look", "write"}
                     /\ \A d \in Admitted' : exec'[d].est <= PerJob
                     /\ spent.jobs + Cardinality(Admitted') <= QuotaJobs + Cardinality(Executors) - 1
                     /\ \/ spent.gpu + Cardinality(Admitted') * PerJob <= GpuBound
                        \/ \E d \in Admitted' :
                              spent.gpu + exec'[d].est + (Cardinality(Admitted') - 1) * PerJob <= GpuBound
    BY DEF MonthInv, GpuBound, MonthlyGpu
  <1> DEFINE n == Cardinality(Admitted)
             N == Cardinality(Executors)
  <1>1. /\ exec \in [Executors -> ExecRow] /\ exec'[e] = x /\ \A d \in Executors : d # e => exec'[d] = exec[d]
        /\ spent.jobs \in Nat /\ spent.gpu \in Nat /\ \A d \in Executors : exec[d].est \in Nat
        /\ exec' \in [Executors -> ExecRow] /\ x.est \in Nat
    <2>1. exec \in [Executors -> ExecRow] /\ spent \in [jobs : Nat, gpu : Nat]
      BY DEF RouteTypes
    <2>2. \A y \in ExecRow : y.est \in Nat
      BY MonthlyNumbers DEF ExecRow, Estimates
    <2> QED BY <2>1, <2>2
  <1>2. IsFiniteSet(Admitted) /\ n \in Nat /\ N \in Nat
    BY AdmittedFinite
  <1>3. /\ \A d \in Admitted : d \in Executors /\ exec[d].est <= PerJob
        /\ \A d \in Executors : exec[d].pc \notin {"look", "write"}
        /\ spent.jobs + n <= QuotaJobs + N - 1
        /\ \/ spent.gpu + n * PerJob <= GpuBound
           \/ \E d \in Admitted : spent.gpu + exec[d].est + (n - 1) * PerJob <= GpuBound
    BY DEF MonthInv, Admitted
  <1>4. \A d \in Executors : exec'[d].pc \notin {"look", "write"}
    BY <1>1, <1>3
  <1>5. CASE ~ForGood(x)
    <2>1. Admitted' = Admitted \ {e}
      BY <1>1, <1>5 DEF Admitted
    <2> DEFINE m == Cardinality(Admitted \ {e})
    <2>2. m = IF e \in Admitted THEN n - 1 ELSE n
      BY <1>2, FS_RemoveElement
    <2>3. m \in Nat /\ m <= n
      <3>1. IsFiniteSet(Admitted \ {e})
        BY <1>2, FS_RemoveElement
      <3> QED BY <1>2, <2>2, <3>1, FS_CardinalityType
    <2>4. \A d \in Admitted \ {e} : exec'[d] = exec[d]
      BY <1>1 DEF Admitted
    <2> HIDE DEF m, n, N
    <2>5. \/ spent.gpu + m * PerJob <= GpuBound
          \/ \E d \in Admitted \ {e} : spent.gpu + exec'[d].est + (m - 1) * PerJob <= GpuBound
      <3>1. CASE spent.gpu + n * PerJob <= GpuBound
        BY <1>1, <1>2, <2>3, <3>1, MonthFreed
      <3>2. ASSUME NEW d \in Admitted, spent.gpu + exec[d].est + (n - 1) * PerJob <= GpuBound
            PROVE \/ spent.gpu + m * PerJob <= GpuBound
                  \/ \E c \in Admitted \ {e} : spent.gpu + exec'[c].est + (m - 1) * PerJob <= GpuBound
        <4>1. CASE e = d
          <5>1. m = n - 1
            BY <2>2, <4>1
          <5>2. (n - 1) * PerJob \in Int /\ exec[d].est \in Nat
            BY <1>1, <1>2, <1>3, MonthlyNumbers, Products
          <5> QED BY <1>1, <3>2, <5>1, <5>2, MonthlyNumbers
        <4>2. CASE e # d
          <5>1. (m - 1) * PerJob <= (n - 1) * PerJob /\ (m - 1) * PerJob \in Int /\ (n - 1) * PerJob \in Int
            BY <1>2, <2>3, MonthlyNumbers, Products
          <5>2. d \in Admitted \ {e} /\ exec'[d].est = exec[d].est /\ exec[d].est \in Nat
            BY <1>1, <1>3, <2>4, <4>2
          <5>3. spent.gpu + exec'[d].est + (m - 1) * PerJob <= GpuBound
            BY <1>1, <3>2, <5>1, <5>2, MonthlyNumbers
          <5> QED BY <5>2, <5>3
        <4> QED BY <4>1, <4>2
      <3> QED BY <1>3, <3>1, <3>2
    <2>6. spent.jobs + m <= QuotaJobs + N - 1
      BY <1>1, <1>2, <1>3, <2>3, MonthlyNumbers
    <2> QED BY <1>3, <1>4, <2>1, <2>4, <2>5, <2>6 DEF m, N
  <1>6. CASE ForGood(x) /\ ForGood(exec[e]) /\ x.est = exec[e].est
    <2>1. Admitted' = Admitted
      BY <1>1, <1>6 DEF Admitted
    <2>2. \A d \in Admitted : exec'[d].est = exec[d].est
      BY <1>1, <1>3, <1>6
    <2> QED BY <1>3, <1>4, <2>1, <2>2
  <1>7. CASE ForGood(x) /\ spent.jobs < QuotaJobs /\ x.est <= PerJob /\ spent.gpu + x.est <= MonthlyGpu
    <2> DEFINE m == Cardinality(Admitted')
    <2>1. e \in Admitted' /\ \A d \in Admitted' : d = e \/ (d \in Admitted /\ exec'[d] = exec[d])
      BY <1>1, <1>7 DEF Admitted
    <2>2. m \in Nat /\ m <= N
      <3>1. Admitted' \in SUBSET Executors /\ IsFiniteSet(Executors)
        BY SchedulerAssumption DEF Admitted
      <3> QED BY <3>1, FS_Subset, FS_CardinalityType
    <2>3. \A d \in Admitted' : exec'[d].est <= PerJob
      BY <1>1, <1>3, <1>7, <2>1
    <2> HIDE DEF m
    <2>4. (m - 1) * PerJob <= (N - 1) * PerJob /\ (m - 1) * PerJob \in Int /\ (N - 1) * PerJob \in Int
      <3> HIDE DEF N
      <3> QED BY <1>2, <2>2, MonthlyNumbers, Products
    <2>5. spent.gpu + exec'[e].est + (m - 1) * PerJob <= GpuBound
      BY <1>1, <1>7, <2>4, MonthlyNumbers DEF GpuBound
    <2>6. spent.jobs + m <= QuotaJobs + N - 1
      BY <1>1, <1>2, <1>7, <2>2, MonthlyNumbers
    <2> QED BY <1>4, <2>1, <2>3, <2>5, <2>6 DEF m
  <1> QED BY <1>5, <1>6, <1>7


(* One executor turns to x; confirmations only accumulate.                 *)
LEMMA ExecutorTurns ==
    ASSUME RouteIInv, NEW e \in Executors, NEW x \in ExecRow, exec' = [exec EXCEPT ![e] = x],
           UNCHANGED <<tplan, spent, sources, done, schedFaults>>, submits' \in 0..MaxSubmits,
           confirms' \in Seq(SJobs), ToSet(confirms) \subseteq ToSet(confirms'), ConfirmedOnce',
           WordHeld(x, ToSet(confirms')),
           (schedFaults = 0 /\ tplan = "free") =>
               /\ x.pc \notin {"look", "write"}
               /\ ForGood(x) =>
                     \/ ForGood(exec[e]) /\ x.est = exec[e].est
                     \/ spent.jobs < QuotaJobs /\ x.est <= PerJob /\ spent.gpu + x.est <= MonthlyGpu
    PROVE  RouteIInv'
  <1>1. RouteTypes /\ MonthInv /\ ExpensiveIsConfirmed /\ \A d \in Executors : WordHeld(exec[d], ToSet(confirms))
    BY DEF RouteIInv
  <1>2. /\ exec' \in [Executors -> ExecRow] /\ exec'[e] = x /\ \A d \in Executors : d # e => exec'[d] = exec[d]
    BY <1>1 DEF RouteTypes
  <1>3. RouteTypes'
    BY <1>1, <1>2 DEF RouteTypes
  <1>4. MonthInv'
    BY <1>1, MonthMoves
  <1>5. ExpensiveIsConfirmed'
    BY <1>1 DEF ExpensiveIsConfirmed
  <1>6. ASSUME NEW d \in Executors PROVE WordHeld(exec'[d], ToSet(confirms'))
    <2>1. CASE d = e
      BY <1>2, <2>1
    <2>2. CASE d # e
      BY <1>1, <1>2, <2>2 DEF WordHeld
    <2> QED BY <2>1, <2>2
  <1>7. \A d \in Executors : WordHeld(exec[d], ToSet(confirms))'
    BY <1>6
  <1> QED BY <1>3, <1>4, <1>5, <1>7 DEF RouteIInv

LEMMA ConfirmsStay ==
    ASSUME RouteIInv, UNCHANGED <<confirms, submits>>
    PROVE  /\ submits' \in 0..MaxSubmits /\ confirms' \in Seq(SJobs)
           /\ ToSet(confirms) \subseteq ToSet(confirms') /\ ConfirmedOnce'
  BY DEF RouteIInv, RouteTypes, ConfirmedOnce

(* Turning away, to rest, is always allowed.                               *)
LEMMA ExecutorRests ==
    ASSUME RouteIInv, NEW e \in Executors, Turns(e, Resting),
           UNCHANGED <<tplan, spent, sources, done, schedFaults, confirms, submits>>
    PROVE  RouteIInv'
  <1>1. exec' = [exec EXCEPT ![e] = Resting]
    BY DEF Turns
  <1> QED BY <1>1, RestingRow, ConfirmsStay, ExecutorTurns

(* The row of an executor that moves.                                      *)
Goes(x, p, r, b) == [pc |-> p, job |-> x.job, asked |-> x.asked, est |-> x.est, cost |-> x.cost,
                     round |-> r, basis |-> b]
ExecPcs == {"idle", "verdict", "look", "write", "gate", "run"}
Bases == {"none", "quota", "money", "confirmed"}

LEMMA GoesFields ==
    ASSUME NEW x \in ExecRow, NEW p \in ExecPcs, NEW r \in 1..2, NEW b \in Bases
    PROVE  /\ Goes(x, p, r, b) \in ExecRow /\ Goes(x, p, r, b).pc = p /\ Goes(x, p, r, b).basis = b
           /\ Goes(x, p, r, b).round = r /\ Goes(x, p, r, b).est = x.est
           /\ Goes(x, p, r, b).job = x.job /\ Goes(x, p, r, b).cost = x.cost
  <1>1. x.job \in SJobs /\ x.asked \in BOOLEAN /\ x.est \in Estimates /\ x.cost \in Nat
    BY DEF ExecRow
  <1> QED BY <1>1 DEF ExecRow, Goes, ExecPcs, Bases

(* The three ways the code writes it.                                      *)
ToPc(x, p) == [x EXCEPT !.pc = p]
ToBasis(x, p, b) == [x EXCEPT !.pc = p, !.basis = b]
ToRound(x, p, r) == [x EXCEPT !.pc = p, !.round = r]

LEMMA GoesForms ==
    ASSUME NEW x \in ExecRow
    PROVE  /\ x.round \in 1..2 /\ x.basis \in Bases
           /\ \A p : ToPc(x, p) = Goes(x, p, x.round, x.basis)
           /\ \A p, b : ToBasis(x, p, b) = Goes(x, p, x.round, b)
           /\ \A p, r : ToRound(x, p, r) = Goes(x, p, r, x.basis)
  <1>1. x.round \in 1..2 /\ x.basis \in Bases
    BY DEF ExecRow, Bases
  <1>2. ASSUME NEW p PROVE [x EXCEPT !.pc = p] = Goes(x, p, x.round, x.basis)
    BY DEF ExecRow, Goes
  <1>3. ASSUME NEW p, NEW b PROVE [x EXCEPT !.pc = p, !.basis = b] = Goes(x, p, x.round, b)
    <2> DEFINE y == [x EXCEPT !.pc = p]
    <2>1. y = Goes(x, p, x.round, x.basis)
      BY <1>2
    <2> HIDE DEF y
    <2>2. [y EXCEPT !.basis = b] = Goes(x, p, x.round, b)
      BY <2>1 DEF Goes
    <2> QED BY <2>2 DEF y
  <1>4. ASSUME NEW p, NEW r PROVE [x EXCEPT !.pc = p, !.round = r] = Goes(x, p, r, x.basis)
    <2> DEFINE y == [x EXCEPT !.pc = p]
    <2>1. y = Goes(x, p, x.round, x.basis)
      BY <1>2
    <2> HIDE DEF y
    <2>2. [y EXCEPT !.round = r] = Goes(x, p, r, x.basis)
      BY <2>1 DEF Goes
    <2> QED BY <2>2 DEF y
  <1> QED BY <1>1, <1>2, <1>3, <1>4, Zenon DEF ToPc, ToBasis, ToRound

(* A request as submit writes it.                                          *)
LEMMA RequestFields ==
    ASSUME NEW y \in ExecRow
    PROVE  /\ ToPc(y, "verdict") \in ExecRow /\ ToPc(y, "verdict").pc = "verdict"
           /\ \A j \in SJobs : [y EXCEPT !.job = j] \in ExecRow /\ [y EXCEPT !.job = j].pc = y.pc
           /\ \A b \in BOOLEAN : [y EXCEPT !.asked = b] \in ExecRow /\ [y EXCEPT !.asked = b].pc = y.pc
           /\ \A n \in Estimates : [y EXCEPT !.est = n] \in ExecRow /\ [y EXCEPT !.est = n].pc = y.pc
           /\ \A n \in Nat : [y EXCEPT !.cost = n] \in ExecRow /\ [y EXCEPT !.cost = n].pc = y.pc
  <1>1. ToPc(y, "verdict") \in ExecRow /\ ToPc(y, "verdict").pc = "verdict"
    BY DEF ToPc, ExecRow
  <1>2. ASSUME NEW j \in SJobs PROVE [y EXCEPT !.job = j] \in ExecRow /\ [y EXCEPT !.job = j].pc = y.pc
    BY DEF ExecRow
  <1>3. ASSUME NEW b \in BOOLEAN PROVE [y EXCEPT !.asked = b] \in ExecRow /\ [y EXCEPT !.asked = b].pc = y.pc
    BY DEF ExecRow
  <1>4. ASSUME NEW n \in Estimates PROVE [y EXCEPT !.est = n] \in ExecRow /\ [y EXCEPT !.est = n].pc = y.pc
    BY DEF ExecRow
  <1>5. ASSUME NEW n \in Nat PROVE [y EXCEPT !.cost = n] \in ExecRow /\ [y EXCEPT !.cost = n].pc = y.pc
    BY DEF ExecRow
  <1> QED BY <1>1, <1>2, <1>3, <1>4, <1>5

LEMMA RouteInitInv == RoutingInit => RouteIInv
  <1> SUFFICES ASSUME RoutingInit PROVE RouteIInv
    OBVIOUS
  <1>1. exec \in [Executors -> ExecRow] /\ \A e \in Executors : exec[e] = Resting
    BY RestingRow DEF RoutingInit
  <1>2. confirms = <<>> /\ confirms \in Seq(SJobs) /\ DOMAIN confirms = {}
    BY EmptySeq DEF RoutingInit
  <1>3. 0 \in 0..MaxSubmits /\ 0 \in 0..MaxSchedFaults
    BY SchedulerAssumption
  <1>4. RouteTypes
    BY <1>1, <1>2, <1>3 DEF RoutingInit, RouteTypes
  <1>5. Admitted = {}
    BY <1>1, RestingRow DEF Admitted
  <1>6. Cardinality({}) = 0
    BY FS_EmptySet
  <1>7. 0 + 0 * PerJob <= GpuBound /\ 0 + 0 <= QuotaJobs + Cardinality(Executors) - 1
    <2>1. MonthlyGpu >= PerJob
      <3>1. PerJob \in Nat /\ QuotaJobs \in Int /\ 1 \in Int /\ 1 <= QuotaJobs
        BY MonthlyNumbers
      <3>2. 1 * PerJob <= QuotaJobs * PerJob /\ 1 * PerJob = PerJob
        BY <3>1, Products
      <3> QED BY <3>2 DEF MonthlyGpu
    <2>2. /\ (Cardinality(Executors) - 1) * PerJob = Cardinality(Executors) * PerJob - PerJob
          /\ Cardinality(Executors) * PerJob >= 0 * PerJob /\ Cardinality(Executors) * PerJob \in Int
      BY AdmittedFinite, MonthlyNumbers, Products
    <2>3. 0 * PerJob = 0
      BY MonthlyNumbers
    <2> QED BY <2>1, <2>2, <2>3, MonthlyNumbers, AdmittedFinite DEF GpuBound
  <1>8. MonthInv
    BY <1>1, <1>5, <1>6, <1>7, RestingRow DEF MonthInv, RoutingInit
  <1>9. ConfirmedOnce /\ ExpensiveIsConfirmed
    BY <1>2 DEF ConfirmedOnce, ExpensiveIsConfirmed, RoutingInit
  <1> QED BY <1>1, <1>4, <1>8, <1>9, RestingRow DEF RouteIInv

LEMMA SubmitRoutedInv ==
    ASSUME RouteIInv, NEW e \in Executors, NEW j \in SJobs, NEW asked \in BOOLEAN, NEW est \in Estimates,
           NEW cost \in {CostLimit - 3, CostLimit + 1}, SubmitRouted(e, j, asked, est, cost)
    PROVE  RouteIInv'
  <1> DEFINE x == [Resting EXCEPT !.pc = "verdict", !.job = j, !.asked = asked, !.est = est, !.cost = cost]
  <1>1. cost \in Nat
    BY SchedulerAssumption
  <1>2. x \in ExecRow /\ x.pc = "verdict"
    <2> DEFINE x1 == ToPc(Resting, "verdict")
               x2 == [x1 EXCEPT !.job = j]
               x3 == [x2 EXCEPT !.asked = asked]
               x4 == [x3 EXCEPT !.est = est]
               x5 == [x4 EXCEPT !.cost = cost]
    <2>1. x1 \in ExecRow /\ x1.pc = "verdict"
      BY RestingRow, RequestFields
    <2> HIDE DEF x1
    <2>2. x2 \in ExecRow /\ x2.pc = "verdict"
      BY <2>1, RequestFields
    <2> HIDE DEF x2
    <2>3. x3 \in ExecRow /\ x3.pc = "verdict"
      BY <2>2, RequestFields
    <2> HIDE DEF x3
    <2>4. x4 \in ExecRow /\ x4.pc = "verdict"
      BY <2>3, RequestFields
    <2> HIDE DEF x4
    <2>5. x5 \in ExecRow /\ x5.pc = "verdict"
      BY <1>1, <2>4, RequestFields
    <2>6. x = x5
      BY Zenon DEF x1, x2, x3, x4, ToPc
    <2> HIDE DEF x5, x
    <2> QED BY <2>5, <2>6
  <1>3. /\ exec' = [exec EXCEPT ![e] = x] /\ submits' = submits + 1 /\ submits < MaxSubmits
        /\ UNCHANGED <<tplan, spent, sources, confirms, done, schedFaults>>
    BY DEF SubmitRouted, Turns
  <1> HIDE DEF x
  <1>4. submits' \in 0..MaxSubmits
    BY <1>3, SchedulerAssumption DEF RouteIInv, RouteTypes
  <1>5. confirms' \in Seq(SJobs) /\ ToSet(confirms) \subseteq ToSet(confirms') /\ ConfirmedOnce'
    BY <1>3 DEF RouteIInv, RouteTypes, ConfirmedOnce
  <1>6. ~ForGood(x) /\ WordHeld(x, ToSet(confirms')) /\ x.pc \notin {"look", "write"}
    BY <1>2 DEF ForGood, WordHeld
  <1> QED BY <1>2, <1>3, <1>4, <1>5, <1>6, ExecutorTurns

LEMMA RouteVerdictInv ==
    ASSUME RouteIInv, NEW e \in Executors, RouteVerdict(e)
    PROVE  RouteIInv'
  <1> DEFINE x == exec[e]
             v == Predict(x.est, x.cost)
  <1>1. /\ x \in ExecRow /\ x.pc = "verdict"
        /\ UNCHANGED <<tplan, spent, sources, done, schedFaults, confirms, submits>>
        /\ Turns(e, AfterVerdict(x, v)) /\ tplan \in Plans4
    BY DEF RouteVerdict, RouteIInv, RouteTypes
  <1>2. x.est \in Nat /\ x.cost \in Nat /\ spent.jobs \in Nat /\ spent.gpu \in Nat
    BY <1>1, MonthlyNumbers DEF ExecRow, Estimates, RouteIInv, RouteTypes
  <1>3. v = "APPROVED" =>
           /\ tplan = "free" => spent.jobs < QuotaJobs /\ x.est <= PerJob /\ spent.gpu + x.est <= MonthlyGpu
           /\ tplan # "free" => 10 * x.cost <= 8 * CostLimit
    <2>1. CASE tplan = "free"
      <3>1. v = QuotaVerdict(x.est)
        BY <2>1 DEF Predict
      <3> HIDE DEF v, x
      <3>2. ASSUME v = "APPROVED" PROVE FreeQuotaVerdict(spent, x.est) = "APPROVED"
        BY <3>1, <3>2 DEF QuotaVerdict
      <3>3. ASSUME v = "APPROVED"
            PROVE ~(spent.jobs >= QuotaJobs) /\ ~(x.est > PerJob) /\ ~(spent.gpu + x.est > MonthlyGpu)
        BY <3>2, <3>3 DEF FreeQuotaVerdict
      <3> QED BY <1>2, <2>1, <3>3, MonthlyNumbers
    <2>2. CASE tplan = "pro"
      <3>1. v = MoneyVerdict(x.cost)
        BY <2>2 DEF Predict
      <3> HIDE DEF v, x
      <3> QED BY <1>2, <2>2, <3>1, SchedulerAssumption DEF MoneyVerdict
    <2>3. CASE tplan \in {"none", "start"}
      BY <2>3 DEF Predict
    <2> QED BY <1>1, <2>1, <2>2, <2>3 DEF Plans4
  <1>4. v = "REQUIRES_CONFIRMATION" => tplan # "free"
    <2>1. tplan = "free" => v = QuotaVerdict(x.est)
      BY DEF Predict
    <2> HIDE DEF v
    <2> QED BY <2>1 DEF QuotaVerdict, FreeQuotaVerdict
  <1> HIDE DEF v
  <1>5. CASE AfterVerdict(x, v) = Resting
    BY <1>1, <1>5, ExecutorRests
  <1>6. CASE v = "APPROVED"
    <2> DEFINE b == IF tplan = "free" THEN "quota" ELSE "money"
               y == ToBasis(x, "gate", b)
    <2>1. AfterVerdict(x, v) = y
      BY <1>6 DEF AfterVerdict, IsRejection, ToBasis
    <2>2. b \in {"quota", "money", "confirmed"} /\ b # "confirmed" /\ (b = "money" => tplan # "free")
      OBVIOUS
    <2> HIDE DEF b, x
    <2>a. y = Goes(x, "gate", x.round, b) /\ x.round \in 1..2
      BY <1>1, GoesForms
    <2>b. b \in Bases /\ "gate" \in ExecPcs
      BY <2>2 DEF Bases, ExecPcs
    <2> HIDE DEF y
    <2>3. /\ y \in ExecRow /\ y.pc = "gate" /\ y.basis = b /\ y.cost = x.cost /\ y.est = x.est
      BY <1>1, <2>a, <2>b, GoesFields
    <2>4. WordHeld(y, ToSet(confirms'))
      BY <1>3, <1>6, <2>2, <2>3 DEF WordHeld
    <2>5. exec' = [exec EXCEPT ![e] = y]
      BY <1>1, <2>1 DEF Turns
    <2>6. tplan = "free" => spent.jobs < QuotaJobs /\ y.est <= PerJob /\ spent.gpu + y.est <= MonthlyGpu
      BY <1>3, <1>6, <2>3
    <2> QED BY <1>1, <2>3, <2>4, <2>5, <2>6, ConfirmsStay, ExecutorTurns
  <1>7. CASE v = "REQUIRES_CONFIRMATION" /\ x.asked
    <2> DEFINE y == ToBasis(x, "look", "confirmed")
    <2>1. AfterVerdict(x, v) = y
      BY <1>7 DEF AfterVerdict, IsRejection, ToBasis
    <2> HIDE DEF x
    <2>a. y = Goes(x, "look", x.round, "confirmed") /\ x.round \in 1..2
      BY <1>1, GoesForms
    <2>b. "confirmed" \in Bases /\ "look" \in ExecPcs
      BY DEF Bases, ExecPcs
    <2> HIDE DEF y
    <2>2. y \in ExecRow /\ y.pc = "look" /\ y.basis = "confirmed"
      BY <1>1, <2>a, <2>b, GoesFields
    <2>3. WordHeld(y, ToSet(confirms'))
      BY <2>2 DEF WordHeld
    <2>4. exec' = [exec EXCEPT ![e] = y]
      BY <1>1, <2>1 DEF Turns
    <2> QED BY <1>1, <1>4, <1>7, <2>2, <2>3, <2>4, ConfirmsStay, ExecutorTurns
  <1>8. AfterVerdict(x, v) = Resting \/ v = "APPROVED" \/ (v = "REQUIRES_CONFIRMATION" /\ x.asked)
    <2>1. v \in {"APPROVED", "REQUIRES_CONFIRMATION", "allowed"} \/ IsRejection(v)
      BY DEF IsRejection
    <2>2. v # "allowed"
      BY <1>1 DEF v, Predict, QuotaVerdict, FreeQuotaVerdict, MoneyVerdict, Plans4
    <2>3. CASE IsRejection(v)
      BY <2>3 DEF AfterVerdict
    <2>4. CASE v = "REQUIRES_CONFIRMATION" /\ ~x.asked
      BY <2>4 DEF AfterVerdict, IsRejection
    <2> QED BY <2>1, <2>2, <2>3, <2>4
  <1> QED BY <1>5, <1>6, <1>7, <1>8

(* Past the look the word of the executor is the client's confirmation,    *)
(* and no tenant of the free plan gets there while nothing fails.          *)
LEMMA ConfirmLookInv ==
    ASSUME RouteIInv, NEW e \in Executors, ConfirmLook(e)
    PROVE  RouteIInv'
  <1> DEFINE x == exec[e]
             p == IF x.job \in ToSet(confirms) THEN "gate" ELSE "write"
             y == ToPc(x, p)
  <1>1. /\ x \in ExecRow /\ x.pc = "look" /\ x.basis = "confirmed" /\ ~(schedFaults = 0 /\ tplan = "free")
        /\ UNCHANGED <<tplan, spent, sources, done, schedFaults, confirms, submits>>
    BY DEF ConfirmLook, RouteIInv, RouteTypes, WordHeld, MonthInv
  <1>2. Turns(e, Resting) \/ Turns(e, y)
    BY DEF ConfirmLook, ToPc
  <1>3. ASSUME Turns(e, y) PROVE RouteIInv'
    <2>1. p \in {"gate", "write"} /\ (p = "gate" => x.job \in ToSet(confirms))
      OBVIOUS
    <2> HIDE DEF p, x
    <2>2. y = Goes(x, p, x.round, x.basis) /\ x.round \in 1..2 /\ x.basis \in Bases /\ p \in ExecPcs
      BY <1>1, <2>1, GoesForms DEF ExecPcs
    <2>3. exec' = [exec EXCEPT ![e] = y]
      BY <1>3 DEF Turns
    <2> HIDE DEF y
    <2>4. y \in ExecRow /\ y.pc = p /\ y.basis = "confirmed" /\ y.job = x.job
      BY <1>1, <2>2, GoesFields
    <2>5. WordHeld(y, ToSet(confirms'))
      BY <1>1, <2>1, <2>4 DEF WordHeld
    <2> QED BY <1>1, <2>3, <2>4, <2>5, ConfirmsStay, ExecutorTurns
  <1> QED BY <1>1, <1>2, <1>3, ExecutorRests

(* The insertion keeps the events of a job one.                            *)
LEMMA ConfirmedGrows ==
    ASSUME confirms \in Seq(SJobs), ConfirmedOnce, NEW j \in SJobs, confirms' = Confirmed(j)
    PROVE  /\ confirms' \in Seq(SJobs) /\ ToSet(confirms) \subseteq ToSet(confirms') /\ ConfirmedOnce'
           /\ j \in ToSet(confirms')
  <1>1. CASE j \in ToSet(confirms)
    BY <1>1 DEF Confirmed, ConfirmedOnce
  <1>2. CASE j \notin ToSet(confirms)
    <2>1. confirms' = Append(confirms, j)
      BY <1>2 DEF Confirmed
    <2>2. Len(confirms) \in Nat /\ DOMAIN confirms = 1..Len(confirms)
      BY LenProperties
    <2>3. /\ confirms' \in Seq(SJobs) /\ Len(confirms') = Len(confirms) + 1
          /\ confirms'[Len(confirms) + 1] = j /\ \A i \in 1..Len(confirms) : confirms'[i] = confirms[i]
      BY <2>1, AppendProperties
    <2>4. DOMAIN confirms' = 1..(Len(confirms) + 1)
      BY <2>3, LenProperties
    <2>5. \A i \in DOMAIN confirms : confirms[i] # j
      BY <1>2 DEF ToSet
    <2>6. \A i \in DOMAIN confirms' : i \in DOMAIN confirms \/ i = Len(confirms) + 1
      BY <2>2, <2>4
    <2>7. ConfirmedOnce'
      BY <2>2, <2>3, <2>5, <2>6 DEF ConfirmedOnce
    <2>8. ToSet(confirms) \subseteq ToSet(confirms')
      BY <2>2, <2>3, <2>4 DEF ToSet
    <2>9. j \in ToSet(confirms')
      BY <2>2, <2>3, <2>4 DEF ToSet
    <2> QED BY <2>3, <2>7, <2>8, <2>9
  <1> QED BY <1>1, <1>2

LEMMA ConfirmWriteInv ==
    ASSUME RouteIInv, NEW e \in Executors, ConfirmWrite(e)
    PROVE  RouteIInv'
  <1> DEFINE x == exec[e]
             y == ToPc(x, "gate")
  <1>1. /\ x \in ExecRow /\ x.pc = "write" /\ x.basis = "confirmed" /\ ~(schedFaults = 0 /\ tplan = "free")
        /\ UNCHANGED <<tplan, spent, sources, done, schedFaults, submits>>
    BY DEF ConfirmWrite, RouteIInv, RouteTypes, WordHeld, MonthInv
  <1>2. CASE Turns(e, Resting) /\ UNCHANGED confirms
    BY <1>1, <1>2, ExecutorRests
  <1>3. ASSUME Turns(e, y), confirms' = Confirmed(x.job) PROVE RouteIInv'
    <2>1. confirms \in Seq(SJobs) /\ ConfirmedOnce /\ x.job \in SJobs /\ submits \in 0..MaxSubmits
      BY <1>1 DEF RouteIInv, RouteTypes, ExecRow
    <2>2. exec' = [exec EXCEPT ![e] = y]
      BY <1>3 DEF Turns
    <2> HIDE DEF x
    <2>3. /\ confirms' \in Seq(SJobs) /\ ToSet(confirms) \subseteq ToSet(confirms') /\ ConfirmedOnce'
          /\ x.job \in ToSet(confirms')
      <3> DEFINE j == x.job
      <3>1. j \in SJobs /\ confirms' = Confirmed(j)
        BY <1>3, <2>1
      <3> HIDE DEF j
      <3>2. j \in ToSet(confirms') /\ confirms' \in Seq(SJobs) /\ ToSet(confirms) \subseteq ToSet(confirms') /\ ConfirmedOnce'
        BY <2>1, <3>1, ConfirmedGrows
      <3> QED BY <3>2 DEF j
    <2>4. y = Goes(x, "gate", x.round, x.basis) /\ x.round \in 1..2 /\ x.basis \in Bases /\ "gate" \in ExecPcs
      BY <1>1, GoesForms DEF ExecPcs
    <2> HIDE DEF y
    <2>5. y \in ExecRow /\ y.pc = "gate" /\ y.basis = "confirmed" /\ y.job = x.job
      BY <1>1, <2>4, GoesFields
    <2>6. WordHeld(y, ToSet(confirms'))
      BY <2>3, <2>5 DEF WordHeld
    <2> QED BY <1>1, <2>1, <2>2, <2>3, <2>5, <2>6, ExecutorTurns
  <1> QED BY <1>2, <1>3 DEF ConfirmWrite, ToPc

LEMMA RouteGateInv ==
    ASSUME RouteIInv, NEW e \in Executors, NEW allowed \in BOOLEAN, RouteGate(e, allowed)
    PROVE  RouteIInv'
  <1> DEFINE x == exec[e]
             again == ToRound(x, "verdict", 2)
             go == ToPc(x, "run")
  <1>1. /\ x \in ExecRow /\ x.pc = "gate" /\ WordHeld(x, ToSet(confirms))
        /\ UNCHANGED <<tplan, spent, sources, done, schedFaults, confirms, submits>>
    BY DEF RouteGate, RouteIInv, RouteTypes
  <1>2. x.round \in 1..2 /\ x.basis \in Bases /\ again = Goes(x, "verdict", 2, x.basis) /\ go = Goes(x, "run", x.round, x.basis)
    BY <1>1, GoesForms
  <1>3. Turns(e, Resting) \/ (x.round = 1 /\ Turns(e, again)) \/ (x.round = 2 /\ Turns(e, go))
    <2>1. CASE ~allowed
      BY <2>1 DEF RouteGate
    <2>2. CASE allowed /\ x.round = 1
      BY <2>2 DEF RouteGate, ToRound
    <2>3. CASE allowed /\ x.round = 2
      BY <2>3 DEF RouteGate, ToPc
    <2> QED BY <1>2, <2>1, <2>2, <2>3
  <1> HIDE DEF x, again, go
  <1>4. "verdict" \in ExecPcs /\ "run" \in ExecPcs /\ 2 \in 1..2
    BY DEF ExecPcs
  <1>5. ASSUME Turns(e, again) PROVE RouteIInv'
    <2>1. again \in ExecRow /\ again.pc = "verdict"
      BY <1>1, <1>2, <1>4, GoesFields
    <2>2. exec' = [exec EXCEPT ![e] = again]
      BY <1>5 DEF Turns
    <2>3. WordHeld(again, ToSet(confirms')) /\ ~ForGood(again)
      BY <2>1 DEF WordHeld, ForGood
    <2> QED BY <1>1, <2>1, <2>2, <2>3, ConfirmsStay, ExecutorTurns
  <1>6. ASSUME x.round = 2, Turns(e, go) PROVE RouteIInv'
    <2>1. /\ go \in ExecRow /\ go.pc = "run" /\ go.round = 2 /\ go.est = x.est /\ go.basis = x.basis
          /\ go.job = x.job /\ go.cost = x.cost
      BY <1>1, <1>2, <1>4, <1>6, GoesFields
    <2>2. exec' = [exec EXCEPT ![e] = go]
      BY <1>6 DEF Turns
    <2>3. WordHeld(go, ToSet(confirms'))
      BY <1>1, <2>1 DEF WordHeld
    <2>4. ForGood(exec[e]) /\ go.est = exec[e].est
      BY <1>1, <1>6, <2>1 DEF ForGood, x
    <2>5. go.pc \notin {"look", "write"}
      BY <2>1
    <2> QED BY <1>1, <2>1, <2>2, <2>3, <2>4, <2>5, ConfirmsStay, ExecutorTurns
  <1> QED BY <1>1, <1>3, <1>5, <1>6, ExecutorRests

(* The run of an admitted job turns its place in the month into usage, of  *)
(* its estimate, which is at most the share the place stood for.           *)
LEMMA MonthRuns ==
    ASSUME RouteTypes, MonthInv, NEW e \in Executors, ForGood(exec[e]), Turns(e, Resting),
           spent' = [jobs |-> spent.jobs + 1, gpu |-> spent.gpu + exec[e].est],
           UNCHANGED <<tplan, schedFaults>>
    PROVE  MonthInv'
  <1> DEFINE n == Cardinality(Admitted)
             N == Cardinality(Executors)
             g == spent.gpu + exec[e].est
  <1> SUFFICES ASSUME schedFaults = 0, tplan = "free"
               PROVE /\ \A d \in Executors : exec'[d].pc \notin {"look", "write"}
                     /\ \A d \in Admitted' : exec'[d].est <= PerJob
                     /\ spent.jobs + 1 + Cardinality(Admitted') <= QuotaJobs + Cardinality(Executors) - 1
                     /\ \/ g + Cardinality(Admitted') * PerJob <= GpuBound
                        \/ \E d \in Admitted' :
                              g + exec'[d].est + (Cardinality(Admitted') - 1) * PerJob <= GpuBound
    BY DEF MonthInv, GpuBound, MonthlyGpu
  <1>1. /\ exec' = [exec EXCEPT ![e] = Resting] /\ exec'[e] = Resting
        /\ \A d \in Executors : d # e => exec'[d] = exec[d]
        /\ spent.jobs \in Nat /\ spent.gpu \in Nat /\ \A d \in Executors : exec[d].est \in Nat
    <2>1. exec \in [Executors -> ExecRow] /\ spent \in [jobs : Nat, gpu : Nat]
      BY DEF RouteTypes
    <2>2. \A y \in ExecRow : y.est \in Nat
      BY MonthlyNumbers DEF ExecRow, Estimates
    <2> QED BY <2>1, <2>2 DEF Turns
  <1>2. IsFiniteSet(Admitted) /\ n \in Nat /\ N \in Nat /\ e \in Admitted
    BY AdmittedFinite DEF Admitted
  <1>3. /\ \A d \in Admitted : d \in Executors /\ exec[d].est <= PerJob
        /\ \A d \in Executors : exec[d].pc \notin {"look", "write"}
        /\ spent.jobs + n <= QuotaJobs + N - 1
        /\ \/ spent.gpu + n * PerJob <= GpuBound
           \/ \E d \in Admitted : spent.gpu + exec[d].est + (n - 1) * PerJob <= GpuBound
    BY DEF MonthInv, Admitted
  <1>4. Admitted' = Admitted \ {e} /\ \A d \in Admitted \ {e} : exec'[d] = exec[d]
    BY <1>1, RestingRow DEF Admitted
  <1>5. Cardinality(Admitted \ {e}) = n - 1
    BY <1>2, FS_RemoveElement
  <1>6. \A d \in Executors : exec'[d].pc \notin {"look", "write"}
    BY <1>1, <1>3, RestingRow
  <1> HIDE DEF n, N
  <1>7. /\ (n - 1) * PerJob = n * PerJob - PerJob /\ n * PerJob \in Int
        /\ ((n - 1) - 1) * PerJob = (n - 1) * PerJob - PerJob /\ (n - 1) * PerJob \in Int
    BY <1>2, MonthlyNumbers, Products
  <1>8. \/ g + (n - 1) * PerJob <= GpuBound
        \/ \E d \in Admitted \ {e} : g + exec'[d].est + ((n - 1) - 1) * PerJob <= GpuBound
    <2>0. exec[e].est \in Nat /\ exec[e].est <= PerJob
      BY <1>1, <1>2, <1>3
    <2>1. CASE spent.gpu + n * PerJob <= GpuBound
      BY <1>1, <1>7, <2>0, <2>1, MonthlyNumbers
    <2>2. ASSUME NEW d \in Admitted, spent.gpu + exec[d].est + (n - 1) * PerJob <= GpuBound
          PROVE \/ g + (n - 1) * PerJob <= GpuBound
                \/ \E c \in Admitted \ {e} : g + exec'[c].est + ((n - 1) - 1) * PerJob <= GpuBound
      <3>1. CASE d = e
        BY <2>2, <3>1
      <3>2. CASE d # e
        <4>1. d \in Admitted \ {e} /\ exec'[d].est = exec[d].est /\ exec[d].est \in Nat
          BY <1>1, <1>3, <1>4, <3>2
        <4>2. g + exec'[d].est + ((n - 1) - 1) * PerJob <= GpuBound
          BY <1>1, <1>7, <2>0, <2>2, <4>1, MonthlyNumbers
        <4> QED BY <4>1, <4>2
      <3> QED BY <3>1, <3>2
    <2> QED BY <1>3, <2>1, <2>2
  <1>9. spent.jobs + 1 + (n - 1) <= QuotaJobs + N - 1
    BY <1>1, <1>2, <1>3, MonthlyNumbers
  <1> HIDE DEF g
  <1> QED BY <1>3, <1>4, <1>5, <1>6, <1>8, <1>9 DEF N

LEMMA ExecuteRoutedInv ==
    ASSUME RouteIInv, NEW e \in Executors, ExecuteRouted(e)
    PROVE  RouteIInv'
  <1> DEFINE x == exec[e]
             r == [job |-> x.job, basis |-> x.basis, cost |-> x.cost]
             Runs == [job : SJobs, basis : {"quota", "money", "confirmed"}, cost : Nat]
  <1>1. /\ RouteTypes /\ MonthInv /\ ConfirmedOnce /\ ExpensiveIsConfirmed
        /\ \A d \in Executors : WordHeld(exec[d], ToSet(confirms))
    BY DEF RouteIInv
  <1>2. /\ x.pc = "run" /\ done' = done \cup {r} /\ Turns(e, Resting)
        /\ spent' = [jobs |-> spent.jobs + 1, gpu |-> spent.gpu + x.est]
        /\ UNCHANGED <<tplan, sources, confirms, submits, schedFaults>>
    BY DEF ExecuteRouted
  <1>3. x \in ExecRow /\ exec \in [Executors -> ExecRow] /\ spent \in [jobs : Nat, gpu : Nat] /\ done \subseteq Runs
    BY <1>1 DEF RouteTypes
  <1>4. /\ x.round = 2 /\ x.basis # "none" /\ (x.basis = "confirmed" => x.job \in ToSet(confirms))
        /\ (x.basis = "money" => 10 * x.cost <= 8 * CostLimit)
    BY <1>1, <1>2 DEF WordHeld
  <1>5. x.job \in SJobs /\ x.cost \in Nat /\ x.est \in Nat /\ x.basis \in {"quota", "money", "confirmed"}
    BY <1>3, <1>4, MonthlyNumbers DEF ExecRow, Estimates
  <1>6. MonthInv'
    BY <1>1, <1>2, <1>4, MonthRuns DEF ForGood
  <1>7. exec' \in [Executors -> ExecRow] /\ \A d \in Executors : exec'[d] = Resting \/ exec'[d] = exec[d]
    BY <1>2, <1>3, RestingRow DEF Turns
  <1> HIDE DEF x
  <1>8. r \in Runs /\ r.job = x.job /\ r.basis = x.basis /\ r.cost = x.cost
    BY <1>5
  <1>9. spent' \in [jobs : Nat, gpu : Nat]
    BY <1>2, <1>3, <1>5
  <1> HIDE DEF r
  <1>10. done' \subseteq Runs
    BY <1>2, <1>3, <1>8
  <1>11. RouteTypes'
    BY <1>1, <1>2, <1>7, <1>9, <1>10 DEF RouteTypes
  <1>12. ExpensiveIsConfirmed'
    BY <1>1, <1>2, <1>4, <1>8 DEF ExpensiveIsConfirmed
  <1>13. \A d \in Executors : WordHeld(exec'[d], ToSet(confirms'))
    BY <1>1, <1>2, <1>7, RestingRow DEF WordHeld
  <1>14. \A d \in Executors : WordHeld(exec[d], ToSet(confirms))'
    BY <1>13
  <1>15. ConfirmedOnce'
    BY <1>1, <1>2 DEF ConfirmedOnce
  <1> QED BY <1>6, <1>11, <1>12, <1>14, <1>15 DEF RouteIInv

(* A fault ends what the month promises.                                   *)
LEMMA RouteFaultsInv ==
    ASSUME RouteIInv, schedFaults < MaxSchedFaults, schedFaults' = schedFaults + 1,
           tplan' \in Plans4, sources' \in [usage : BOOLEAN, audit : BOOLEAN],
           UNCHANGED <<spent, exec, confirms, done, submits>>
    PROVE  RouteIInv'
  <1>1. schedFaults \in 0..MaxSchedFaults /\ MaxSchedFaults \in Nat
    BY SchedulerAssumption DEF RouteIInv, RouteTypes
  <1>2. schedFaults' \in 0..MaxSchedFaults /\ schedFaults' # 0
    BY <1>1
  <1>3. MonthInv'
    BY <1>2 DEF MonthInv
  <1>4. RouteTypes'
    BY <1>2 DEF RouteIInv, RouteTypes
  <1>5. ConfirmedOnce' /\ ExpensiveIsConfirmed' /\ \A e \in Executors : WordHeld(exec[e], ToSet(confirms))'
    BY DEF RouteIInv, ConfirmedOnce, ExpensiveIsConfirmed
  <1> QED BY <1>3, <1>4, <1>5 DEF RouteIInv

LEMMA RoutingNextInv == RouteIInv /\ [RoutingNext]_routevars => RouteIInv'
  <1> SUFFICES ASSUME RouteIInv, [RoutingNext]_routevars PROVE RouteIInv'
    OBVIOUS
  <1>1. CASE UNCHANGED routevars
    <2>1. UNCHANGED <<tplan, spent, sources, exec, confirms, done, submits, schedFaults>>
      BY <1>1 DEF routevars
    <2>2. Admitted' = Admitted
      BY <2>1 DEF Admitted
    <2>3. MonthInv'
      BY <2>1, <2>2 DEF RouteIInv, MonthInv, GpuBound, MonthlyGpu
    <2>4. RouteTypes'
      BY <2>1 DEF RouteIInv, RouteTypes
    <2>5. ConfirmedOnce' /\ ExpensiveIsConfirmed' /\ \A e \in Executors : WordHeld(exec[e], ToSet(confirms))'
      BY <2>1 DEF RouteIInv, ConfirmedOnce, ExpensiveIsConfirmed
    <2> QED BY <2>3, <2>4, <2>5 DEF RouteIInv
  <1>2. ASSUME NEW e \in Executors, NEW j \in SJobs, NEW asked \in BOOLEAN, NEW est \in Estimates,
               NEW cost \in {CostLimit - 3, CostLimit + 1}, SubmitRouted(e, j, asked, est, cost)
        PROVE  RouteIInv'
    BY <1>2, SubmitRoutedInv
  <1>3. ASSUME NEW e \in Executors, RouteVerdict(e) \/ ConfirmLook(e) \/ ConfirmWrite(e) \/ ExecuteRouted(e)
        PROVE  RouteIInv'
    BY <1>3, RouteVerdictInv, ConfirmLookInv, ConfirmWriteInv, ExecuteRoutedInv
  <1>4. ASSUME NEW e \in Executors, NEW allowed \in BOOLEAN, RouteGate(e, allowed) PROVE RouteIInv'
    BY <1>4, RouteGateInv
  <1>5. ASSUME NEW s \in {"usage", "audit"}, SourceFails(s) PROVE RouteIInv'
    <2>1. sources' = [sources EXCEPT ![s] = ~@] /\ sources \in [usage : BOOLEAN, audit : BOOLEAN] /\ tplan \in Plans4
      BY <1>5 DEF SourceFails, RouteIInv, RouteTypes
    <2>2. sources' \in [usage : BOOLEAN, audit : BOOLEAN]
      BY <2>1
    <2> QED BY <1>5, <2>1, <2>2, RouteFaultsInv DEF SourceFails
  <1>6. ASSUME NEW q \in Plans4, PlanChanges(q) PROVE RouteIInv'
    BY <1>6, RouteFaultsInv DEF PlanChanges, RouteIInv, RouteTypes
  <1>7. CASE RoutingNext
    BY <1>2, <1>3, <1>4, <1>5, <1>6, <1>7 DEF RoutingNext
  <1> QED BY <1>1, <1>7

LEMMA SchedIsSafe == SchedIInv => SchedulerInv /\ SchedTypeOK
  <1> SUFFICES ASSUME SchedIInv PROVE SchedulerInv /\ SchedTypeOK
    OBVIOUS
  <1>1. ClusterBooks
    BY BooksKept DEF SchedIInv
  <1>2. FreeQuotaNearlyKept
    <2> SUFFICES ASSUME schedFaults = 0, tplan = "free"
                 PROVE spent.jobs <= QuotaJobs + Cardinality(Executors) - 1 /\ spent.gpu <= GpuBound
      BY DEF FreeQuotaNearlyKept, GpuBound
    <2> DEFINE n == Cardinality(Admitted)
    <2>1. /\ spent.jobs + n <= QuotaJobs + Cardinality(Executors) - 1
          /\ \/ spent.gpu + n * PerJob <= GpuBound
             \/ \E d \in Admitted : spent.gpu + exec[d].est + (n - 1) * PerJob <= GpuBound
      BY DEF SchedIInv, RouteIInv, MonthInv
    <2>2. n \in Nat /\ Cardinality(Executors) \in Nat /\ spent.jobs \in Nat /\ spent.gpu \in Nat
      BY AdmittedFinite DEF SchedIInv, RouteIInv, RouteTypes
    <2>3. \A d \in Admitted : exec[d].est \in Nat /\ n >= 1
      <3>1. \A d \in Admitted : exec[d] \in ExecRow
        BY DEF Admitted, SchedIInv, RouteIInv, RouteTypes
      <3>2. Admitted # {} => n # 0
        BY AdmittedFinite, FS_EmptySet
      <3> QED BY <2>2, <3>1, <3>2, MonthlyNumbers DEF ExecRow, Estimates
    <2> HIDE DEF n
    <2>4. n * PerJob \in Int /\ 0 * PerJob <= n * PerJob /\ 0 * PerJob = 0
      BY <2>2, MonthlyNumbers, Products
    <2>5. CASE spent.gpu + n * PerJob <= GpuBound
      BY <2>1, <2>2, <2>4, <2>5, MonthlyNumbers
    <2>6. ASSUME NEW d \in Admitted, spent.gpu + exec[d].est + (n - 1) * PerJob <= GpuBound
          PROVE  spent.gpu <= GpuBound
      <3>1. (n - 1) * PerJob \in Int /\ 0 * PerJob <= (n - 1) * PerJob
        BY <2>2, <2>3, MonthlyNumbers, Products
      <3> QED BY <2>2, <2>3, <2>4, <2>6, <3>1, MonthlyNumbers
    <2> QED BY <2>1, <2>2, <2>5, <2>6, MonthlyNumbers
  <1>3. SchedulerInv
    BY <1>1, <1>2 DEF SchedulerInv, SchedIInv, RouteIInv
  <1>4. SchedTypeOK
    BY DEF SchedIInv, RouteIInv, RouteTypes, PolicyIInv, SchedTypeOK, ExecRow
  <1> QED BY <1>3, <1>4

(* PlacementSound: work that needs the client's word ran with it, the free *)
(* month and the memory of the GPUs are kept, loads and contracts are      *)
(* accounted for (scheduler/, gpu_policy_engine, backends/), whatever the  *)
(* number of executors, nodes, workers and jobs.                           *)
THEOREM PlacementIsSound == OperationsSpec => []PlacementSound
  <1> DEFINE IInv == SchedIInv /\ BackendsIInv
  <1>1. OperationsInit => IInv
    BY RouteInitInv, PolicyInitInv, VastInitInv, PoolInitInv, SlurmInitInv
       DEF OperationsInit, SchedInit, BackendsInit, SchedIInv, BackendsIInv
  <1>2. [OperationsNext]_OperationsVars =>
           [RoutingNext]_routevars /\ [PolicyNext]_pvars
    BY DEF OperationsNext, OperationsVars, RoutingNext, PolicyNext, svars
  <1>3. [OperationsNext]_OperationsVars =>
           [VastNext]_vastvars /\ [PoolNext]_poolvars /\ [SlurmNext]_slurmvars
    BY DEF OperationsNext, OperationsVars, VastNext, PoolNext, SlurmNext, bvars
  <1>4. IInv /\ [OperationsNext]_OperationsVars => IInv'
    BY <1>2, <1>3, RoutingNextInv, PolicyNextInv, VastNextInv, PoolNextInv, SlurmNextInv DEF SchedIInv, BackendsIInv
  <1>5. IInv => PlacementSound
    BY SchedIsSafe, BackendsIsSafe DEF PlacementSound
  <1> HIDE DEF IInv
  <1> QED BY <1>1, <1>4, <1>5, PTL DEF OperationsSpec, OperationsVars
=============================================================================
