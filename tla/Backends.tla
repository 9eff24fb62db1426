------------------------------ MODULE Backends ------------------------------
(***************************************************************************)
(* The execution backends: the cached backend of backends/dispatcher.py,   *)
(* the Vast.ai backend with its chain of GPU models and its map of         *)
(* contracts, the pool of gpu_worker/connector.py, the worker server of    *)
(* gpu_worker/server.py, and the Slurm plugin with its lazy connection.    *)
(*                                                                         *)
(* VastaiBackend.dispatch never awaits, so the other coroutines of its     *)
(* process stand still while it searches and rents; the pool awaits the    *)
(* answer of a worker, and its requests interleave.                        *)
(***************************************************************************)
EXTENDS Integers, Sequences, FiniteSets, FiniteSetsExt, SequencesExt

CONSTANTS BJobs, NoBJob,
          DefaultBackend,  \* ROMA_EXECUTION_BACKEND
          Chain,           \* a model outside GPU_FALLBACK_CHAIN, then the chain itself
          PoolWorkers, PoolJobs, PoolCalls,
          MaxContracts, MaxApiFaults, MaxPoolFaults, MaxSlurmFaults

ASSUME BackendsAssumption ==
    /\ NoBJob \notin BJobs \cup PoolJobs \cup PoolWorkers /\ MaxContracts \in Nat
    /\ Chain \in Seq(STRING) /\ Chain # <<>> /\ IsInjective(Chain)
    /\ IsFiniteSet(BJobs) /\ IsFiniteSet(PoolCalls) /\ PoolWorkers # {}
    /\ DefaultBackend \in {"local", "vastai", "gpu_worker", "runpod"}

VARIABLES cached,      \* dispatcher._backend_name, "none" before the first call
          jobMap,      \* VastaiBackend._job_instance_map of the cached instance
          contracts,   \* Vast.ai: one record per rented contract
          dispatch,    \* the dispatch in progress
          dispatched,  \* last answer of dispatch, by job
          apiFaults, dropped,  \* contracts the maps let go of
          pool,        \* GPUWorkerPool: load, availability and active jobs
          calls,       \* requests of the pool and of the gpu_worker backend
          wjobs,       \* WorkerState.jobs of each worker server
          poolFaults,
          ssh, slurmJobs, slurmSaid, slurmFaults

vastvars  == <<cached, jobMap, contracts, dispatch, dispatched, apiFaults, dropped>>
poolvars  == <<pool, calls, wjobs, poolFaults>>
slurmvars == <<ssh, slurmJobs, slurmSaid, slurmFaults>>
bvars == <<vastvars, poolvars, slurmvars>>

BackendNames == {"local", "vastai", "gpu_worker", "runpod"}

NoDispatch == [job |-> NoBJob, model |-> 1, first |-> 1, attempt |-> 1, hits |-> 0, pc |-> "idle"]

NoCall == [pc |-> "idle", job |-> NoBJob, worker |-> CHOOSE w \in PoolWorkers : TRUE,
           via |-> "pool", token |-> FALSE]

BackendsTypeOK ==
    /\ cached \in BackendNames \cup {"none"}
    /\ jobMap \in [BJobs -> 0..Len(contracts)]
    /\ \A i \in DOMAIN contracts :
          contracts[i] \in [job : BJobs, model : DOMAIN Chain, first : DOMAIN Chain,
                            live : BOOLEAN, told : BOOLEAN]
    /\ dispatch.attempt \in 1..4 /\ dispatch.hits \in 0..1 /\ dispatch.job \in BJobs \cup {NoBJob}
    /\ dispatch.model \in DOMAIN Chain /\ dispatch.pc \in {"idle", "search", "rent"}
    /\ dispatched \in [BJobs -> {"none", "queued", "running", "provisioning", "failed", "not_implemented"}]
    /\ DOMAIN pool = {"load", "up", "active"}
    /\ pool.load \in [PoolWorkers -> 0..Cardinality(PoolCalls)]
    /\ calls \in [PoolCalls -> [pc : {"idle", "sent", "started", "ended", "answered"},
                                job : PoolJobs \cup {NoBJob}, worker : PoolWorkers,
                                via : {"pool", "backend"}, token : BOOLEAN]]
    /\ wjobs \in [PoolWorkers -> [PoolJobs -> {"none", "running", "success", "failed", "timeout"}]]
    /\ ssh \in {"none", "broken", "connected"}

VastInit ==
    /\ cached = "none" /\ jobMap = [j \in BJobs |-> 0] /\ contracts = <<>>
    /\ dispatch = NoDispatch /\ dispatched = [j \in BJobs |-> "none"]
    /\ apiFaults = 0 /\ dropped = 0

PoolInit ==
    /\ pool = [load |-> [w \in PoolWorkers |-> 0], up |-> [w \in PoolWorkers |-> TRUE],
               active |-> [j \in PoolJobs |-> NoBJob]]
    /\ calls = [c \in PoolCalls |-> NoCall]
    /\ wjobs = [w \in PoolWorkers |-> [j \in PoolJobs |-> "none"]]
    /\ poolFaults = 0

SlurmInit == ssh = "none" /\ slurmJobs = <<>> /\ slurmSaid = {} /\ slurmFaults = 0

BackendsInit == VastInit /\ PoolInit /\ SlurmInit

-----------------------------------------------------------------------------
(* The dispatcher and the Vast.ai backend *)

Mapped(m) == {j \in BJobs : m[j] # 0}

\* get_backend: another name than the cached one builds a new object, and the
\* contracts the old one knew of are out of its reach.
MapAfter(name) == IF cached = name THEN jobMap ELSE [j \in BJobs |-> 0]

Selects(name) ==
    /\ cached' = name
    /\ jobMap' = MapAfter(name)
    /\ dropped' = dropped + Cardinality(Mapped(jobMap)) - Cardinality(Mapped(MapAfter(name)))

\* dispatch_job on a backend that answers at once: local queues, runpod is a
\* stub, gpu_worker probes the worker's health (up or not).
DispatchAtOnce(j, name, up) ==
    /\ dispatch.pc = "idle" /\ name # "vastai"
    /\ Selects(name)
    /\ dispatched' = [dispatched EXCEPT ![j] =
            CASE name = "local"      -> "queued"
              [] name = "runpod"     -> "not_implemented"
              [] name = "gpu_worker" -> IF up THEN "running" ELSE "failed"]
    /\ UNCHANGED <<contracts, dispatch, apiFaults>>

\* The chain begins at the model asked for.
DispatchVast(j, first) ==
    /\ dispatch.pc = "idle" /\ Len(contracts) < MaxContracts
    /\ Selects("vastai")
    /\ dispatch' = [NoDispatch EXCEPT !.job = j, !.model = first, !.first = first, !.pc = "search"]
    /\ UNCHANGED <<contracts, dispatched, apiFaults>>

GivesUp == /\ dispatch' = NoDispatch
           /\ dispatched' = [dispatched EXCEPT ![dispatch.job] = "failed"]

NextModel ==
    \/ /\ dispatch.model < Len(Chain)
       /\ dispatch' = [dispatch EXCEPT !.model = @ + 1, !.attempt = 1, !.hits = 0, !.pc = "search"]
       /\ UNCHANGED dispatched
    \/ /\ dispatch.model = Len(Chain)
       /\ GivesUp

\* Every way an attempt fails costs one of the four attempts of its model.
NextAttempt(hits) ==
    \/ /\ dispatch.attempt < 4
       /\ dispatch' = [dispatch EXCEPT !.attempt = @ + 1, !.hits = hits, !.pc = "search"]
       /\ UNCHANGED dispatched
    \/ /\ dispatch.attempt = 4
       /\ NextModel

RateLimited == IF dispatch.hits + 1 >= 2 THEN NextModel ELSE NextAttempt(dispatch.hits + 1)

\* search_offers: an affordable offer, none at all, or an error of the API.
SearchOffers(found) ==
    /\ dispatch.pc = "search"
    /\ \/ /\ found = "offer"
          /\ dispatch' = [dispatch EXCEPT !.pc = "rent"]
          /\ UNCHANGED dispatched
       \/ found = "none" /\ NextModel
       \/ found = "rate_limit" /\ RateLimited
       \/ found = "error" /\ NextAttempt(dispatch.hits)
    /\ UNCHANGED <<cached, jobMap, contracts, apiFaults, dropped>>

NewContract(told) ==
    Append(contracts, [job |-> dispatch.job, model |-> dispatch.model, first |-> dispatch.first,
                       live |-> TRUE, told |-> told])

\* rent_instance: the contract is entered in the map when its answer arrives.
RentInstance ==
    /\ dispatch.pc = "rent" /\ Len(contracts) < MaxContracts
    /\ contracts' = NewContract(TRUE)
    /\ jobMap' = [jobMap EXCEPT ![dispatch.job] = Len(contracts')]
    /\ dropped' = dropped + (IF jobMap[dispatch.job] = 0 THEN 0 ELSE 1)
    /\ dispatched' = [dispatched EXCEPT ![dispatch.job] = "provisioning"]
    /\ dispatch' = NoDispatch
    /\ UNCHANGED <<cached, apiFaults>>

\* The offer is gone or no contract id came back: the contract does not exist.
\* When the answer of a rental is lost it does, and the next attempt rents again.
RentFails(how) ==
    /\ dispatch.pc = "rent"
    /\ how = "lost" => apiFaults < MaxApiFaults /\ Len(contracts) < MaxContracts
    /\ apiFaults' = apiFaults + (IF how = "lost" THEN 1 ELSE 0)
    /\ contracts' = IF how = "lost" THEN NewContract(FALSE) ELSE contracts
    /\ IF how = "rate_limit" THEN RateLimited ELSE NextAttempt(dispatch.hits)
    /\ UNCHANGED <<cached, jobMap, dropped>>

\* get_instances builds a VastaiInstance without its ask_contract_id, so it
\* raises as soon as the account has an instance.
ListingRaises == \E i \in DOMAIN contracts : contracts[i].live

\* backend_cancel_job goes to the default backend.  The entry leaves the map
\* before the instances are listed, and the listing decides whether the
\* destruction is reached.
CancelOnBackend(j) ==
    /\ dispatch.pc = "idle"
    /\ cached' = DefaultBackend
    /\ LET m == MapAfter(DefaultBackend)
           c == m[j]
       IN /\ jobMap' = [m EXCEPT ![j] = 0]
          /\ contracts' = IF DefaultBackend = "vastai" /\ c # 0 /\ ~ListingRaises
                          THEN [contracts EXCEPT ![c].live = FALSE] ELSE contracts
          /\ dropped' = dropped + Cardinality(Mapped(jobMap)) - Cardinality(Mapped([m EXCEPT ![j] = 0]))
    /\ UNCHANGED <<dispatch, dispatched, apiFaults>>

\* get_job_status and get_confirmed_duration only select and read.
AskBackend(name) ==
    /\ dispatch.pc = "idle"
    /\ Selects(name)
    /\ UNCHANGED <<contracts, dispatch, dispatched, apiFaults>>

\* destroy_instance_api, or the provider, ends an instance.
InstanceGone(i) ==
    /\ dispatch.pc = "idle" /\ contracts[i].live
    /\ contracts' = [contracts EXCEPT ![i].live = FALSE]
    /\ UNCHANGED <<cached, jobMap, dispatch, dispatched, apiFaults, dropped>>

VastNext ==
    /\ UNCHANGED <<poolvars, slurmvars>>
    /\ \/ \E j \in BJobs :
             \/ \E name \in BackendNames, up \in BOOLEAN : DispatchAtOnce(j, name, up)
             \/ \E first \in DOMAIN Chain : DispatchVast(j, first)
             \/ CancelOnBackend(j)
       \/ \E found \in {"offer", "none", "rate_limit", "error"} : SearchOffers(found)
       \/ RentInstance
       \/ \E how \in {"gone", "rate_limit", "lost"} : RentFails(how)
       \/ \E name \in {DefaultBackend, "vastai"} : AskBackend(name)
       \/ \E i \in DOMAIN contracts : InstanceGone(i)

-----------------------------------------------------------------------------
(* The pool of GPU workers and the worker server *)

LeastLoaded == {w \in PoolWorkers : pool.up[w] /\ \A v \in PoolWorkers : pool.up[v] => pool.load[w] <= pool.load[v]}

\* GPUWorkerPool.submit_job up to its await.  The pool sends no token.
PoolSubmit(c, j) ==
    /\ calls[c].pc = "idle"
    /\ \E w \in LeastLoaded :
          /\ pool' = [pool EXCEPT !.load[w] = @ + 1, !.active[j] = w]
          /\ calls' = [calls EXCEPT ![c] = [NoCall EXCEPT !.pc = "sent", !.job = j, !.worker = w]]
    /\ UNCHANGED <<wjobs, poolFaults>>

\* GpuWorkerBackend.run_command sends the shared token, when it is configured.
RunOnWorker(c, j, w, configured) ==
    /\ calls[c].pc = "idle"
    /\ calls' = [calls EXCEPT ![c] = [pc |-> "sent", job |-> j, worker |-> w,
                                       via |-> "backend", token |-> configured]]
    /\ UNCHANGED <<pool, wjobs, poolFaults>>

\* execute_job of the server: the token, the GPU, the policy on the command,
\* then register_job; anything else answers with an error.
ServerTakes(c, allowed) ==
    /\ calls[c].pc = "sent"
    /\ \/ /\ calls[c].token /\ allowed
          /\ calls' = [calls EXCEPT ![c].pc = "started"]
          /\ wjobs' = [wjobs EXCEPT ![calls[c].worker][calls[c].job] = "running"]
       \/ /\ ~(calls[c].token /\ allowed)
          /\ calls' = [calls EXCEPT ![c].pc = "answered"]
          /\ UNCHANGED wjobs
    /\ UNCHANGED <<pool, poolFaults>>

\* execute_job_sync ends and complete_job writes its result.
ServerEnds(c, outcome) ==
    /\ calls[c].pc = "started"
    /\ wjobs' = [wjobs EXCEPT ![calls[c].worker][calls[c].job] = outcome]
    /\ calls' = [calls EXCEPT ![c].pc = "ended"]
    /\ UNCHANGED <<pool, poolFaults>>

PoolKeepsLoad(c) ==
    IF calls[c].via = "backend" THEN pool ELSE [pool EXCEPT !.active[calls[c].job] = NoBJob]

\* The finally block of submit_job.
PoolReleases(c) ==
    IF calls[c].via = "backend" THEN pool
    ELSE [pool EXCEPT !.load[calls[c].worker] = Max({0, @ - 1}), !.active[calls[c].job] = NoBJob]

\* The answer, or an error in its place, reaches the caller.
CallReturns(c) ==
    /\ calls[c].pc \in {"answered", "ended"}
    /\ pool' = PoolReleases(c)
    /\ calls' = [calls EXCEPT ![c] = NoCall]
    /\ UNCHANGED <<wjobs, poolFaults>>

\* discover_workers: an answering worker reports its GPU, a silent one is down.
DiscoverWorkers(w) ==
    /\ poolFaults < MaxPoolFaults
    /\ poolFaults' = poolFaults + 1
    /\ pool' = [pool EXCEPT !.up[w] = ~@]
    /\ UNCHANGED <<calls, wjobs>>

PoolNext ==
    /\ UNCHANGED <<vastvars, slurmvars>>
    /\ \/ \E c \in PoolCalls :
             \/ \E j \in PoolJobs : PoolSubmit(c, j) \/ \E w \in PoolWorkers, t \in BOOLEAN : RunOnWorker(c, j, w, t)
             \/ \E ok \in BOOLEAN : ServerTakes(c, ok)
             \/ \E o \in {"success", "failed", "timeout"} : ServerEnds(c, o)
             \/ CallReturns(c)
       \/ \E w \in PoolWorkers : DiscoverWorkers(w)

-----------------------------------------------------------------------------
(* Slurm *)

\* _ensure_ssh keeps the client object even when its connection failed.
EnsureSsh(reachable) ==
    IF ssh # "none" THEN ssh ELSE IF reachable THEN "connected" ELSE "broken"

\* execute opens sftp on the client without connecting it first, so only a
\* connection that a status query made submits anything.
SlurmExecute(j, accepted) ==
    /\ Len(slurmJobs) < MaxContracts
    /\ \/ /\ ssh = "connected" /\ accepted
          /\ slurmJobs' = Append(slurmJobs, [job |-> j, live |-> TRUE])
          /\ slurmSaid' = slurmSaid \cup {[id |-> Len(slurmJobs'), said |-> "submitted"]}
       \/ /\ ~(ssh = "connected" /\ accepted)
          /\ UNCHANGED <<slurmJobs, slurmSaid>>
    /\ UNCHANGED <<ssh, slurmFaults>>

SlurmStatus(reachable) ==
    /\ ssh' = EnsureSsh(reachable)
    /\ UNCHANGED <<slurmJobs, slurmSaid, slurmFaults>>

SlurmCancel(i, reachable) ==
    /\ ssh' = EnsureSsh(reachable)
    /\ IF ssh' = "connected"
       THEN /\ slurmJobs' = [slurmJobs EXCEPT ![i].live = FALSE]
            /\ slurmSaid' = slurmSaid \cup {[id |-> i, said |-> "cancelled"]}
       ELSE UNCHANGED <<slurmJobs, slurmSaid>>
    /\ UNCHANGED slurmFaults

SlurmClose == ssh' = "none" /\ UNCHANGED <<slurmJobs, slurmSaid, slurmFaults>>

SlurmDrops ==
    /\ ssh = "connected" /\ slurmFaults < MaxSlurmFaults
    /\ slurmFaults' = slurmFaults + 1
    /\ ssh' = "broken"
    /\ UNCHANGED <<slurmJobs, slurmSaid>>

SlurmNext ==
    /\ UNCHANGED <<vastvars, poolvars>>
    /\ \/ \E j \in BJobs, ok \in BOOLEAN : SlurmExecute(j, ok)
       \/ \E ok \in BOOLEAN : SlurmStatus(ok) \/ \E i \in DOMAIN slurmJobs : SlurmCancel(i, ok)
       \/ SlurmClose \/ SlurmDrops

BackendsNext == VastNext \/ PoolNext \/ SlurmNext

-----------------------------------------------------------------------------
(* Properties *)

Held == {i \in DOMAIN contracts : contracts[i].live /\ \A j \in BJobs : jobMap[j] # i}

\* Every contract the account pays for is in the backend's map, but for the
\* ones the map let go of and the ones whose rental was never answered.
PaidForIsKnown == Cardinality(Held) <= dropped + apiFaults

\* The map leads to contracts rented for the very job, of the model asked for
\* or a later one of the chain, and whose rental was answered.
MapIsSound ==
    \A j \in BJobs : jobMap[j] # 0 =>
        LET k == contracts[jobMap[j]]
        IN k.job = j /\ k.told /\ k.model >= k.first /\ dispatched[j] # "none"

\* The load of a worker is the number of its requests in flight, and an idle
\* pool carries no load and no active job.
LoadIsInFlight ==
    /\ \A w \in PoolWorkers :
          pool.load[w] = Cardinality({c \in PoolCalls :
              calls[c].pc # "idle" /\ calls[c].worker = w /\ calls[c].via = "pool"})
    /\ (\A c \in PoolCalls : calls[c].pc = "idle") => \A j \in PoolJobs : pool.active[j] = NoBJob

\* A job a worker records as running is being run there, so its status can
\* still change: no request leaves a job running forever.
RunningIsRun ==
    \A w \in PoolWorkers, j \in PoolJobs : wjobs[w][j] = "running" =>
        \E c \in PoolCalls : calls[c].pc = "started" /\ calls[c].job = j /\ calls[c].worker = w

\* What Slurm's answers say is so on the cluster.
SlurmAnswersHold ==
    \A s \in slurmSaid : s.id \in DOMAIN slurmJobs /\ (s.said = "cancelled" => ~slurmJobs[s.id].live)

\* What the backends promise the execution worker.
BackendsInv == PaidForIsKnown /\ MapIsSound /\ LoadIsInFlight /\ RunningIsRun /\ SlurmAnswersHold
=============================================================================
