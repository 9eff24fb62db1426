------------------------------- MODULE Submit -------------------------------
(***************************************************************************)
(* POST /submit with an Idempotency-Key (src/routers/submit.py) on several *)
(* replicas that share one database, next to the worker that claims what   *)
(* was submitted.                                                          *)
(*                                                                         *)
(* The handler awaits nothing, so a replica serves one submit at a time;   *)
(* statements of different replicas interleave.  A request generates its   *)
(* job id before it reserves its key: the job a request would create is    *)
(* named after the request.                                                *)
(***************************************************************************)
EXTENDS Naturals, FiniteSets

CONSTANTS
    Requests,    \* submit requests, each with a job id of its own
    Replicas,    \* processes that serve requests
    Tenants, Keys,
    TenantOf,    \* tenant of each request
    KeyOf,       \* Idempotency-Key of each request, or NoKey
    NoKey, None,
    MaxCrashes   \* bound: replicas that die in the middle of a submit

ASSUME SubmitAssumption ==
    /\ TenantOf \in [Requests -> Tenants]
    /\ KeyOf \in [Requests -> Keys \cup {NoKey}]
    /\ NoKey \notin Keys /\ None \notin Requests
    /\ MaxCrashes \in Nat

VARIABLES
    keys,      \* submit_idempotency_keys: (tenant, key) -> job, or None
    jobs,      \* execution_jobs: the status of the row of each job, if it is there
    at,        \* where each replica is in the handler, and the request it serves
    answer,    \* the job named in the 202 answer of each request
    served,    \* requests that have been taken up
    late,      \* requests taken up when the job of their key was there already
    crashes

vars == <<keys, jobs, at, answer, served, late, crashes>>

Free == [pc |-> "free", req |-> None]
Pcs == {"free", "find", "gate", "reserve", "winner", "insert", "backend"}
Statuses == {"absent", "queued", "running"}

TypeOK ==
    /\ keys \in [Tenants \X Keys -> Requests \cup {None}]
    /\ jobs \in [Requests -> Statuses]
    /\ at \in [Replicas -> [pc : Pcs, req : Requests \cup {None}]]
    /\ \A p \in Replicas : at[p].req = None <=> at[p].pc = "free"
    /\ answer \in [Requests -> Requests \cup {None}]
    /\ served \subseteq Requests
    /\ late \subseteq served
    /\ crashes \in 0..MaxCrashes

Init ==
    /\ keys = [tk \in Tenants \X Keys |-> None]
    /\ jobs = [r \in Requests |-> "absent"]
    /\ at = [p \in Replicas |-> Free]
    /\ answer = [r \in Requests |-> None]
    /\ served = {}
    /\ late = {}
    /\ crashes = 0

-----------------------------------------------------------------------------
Goto(p, pc) == at' = [at EXCEPT ![p].pc = pc]
Keyed(r) == KeyOf[r] # NoKey
Mapped(r) == keys[<<TenantOf[r], KeyOf[r]>>]

(* Faulty variants: only a queued job is replayed; the winner's job is     *)
(* answered before its row is there; a denied request is not let go.       *)
VisibleQueued(r) == Mapped(r) # None /\ jobs[Mapped(r)] = "queued"

(* The mapping names a job whose row is there.                             *)
Visible(r) == Mapped(r) # None /\ jobs[Mapped(r)] # "absent"

Respond(p, job) ==
    /\ answer' = [answer EXCEPT ![at[p].req] = job]
    /\ at' = [at EXCEPT ![p] = Free]

Begin(p, r) ==
    /\ at[p] = Free /\ r \notin served
    /\ served' = served \cup {r}
    /\ at' = [at EXCEPT ![p] = [pc |-> IF Keyed(r) THEN "find" ELSE "gate", req |-> r]]
    /\ late' = IF Keyed(r) /\ Visible(r) THEN late \cup {r} ELSE late
    /\ UNCHANGED <<keys, jobs, answer, crashes>>

(* find_job_by_idempotency and get_execution_job: replay the job of the    *)
(* key when its row is there, otherwise go on as for a new request.        *)
Find(p) ==
    /\ at[p].pc = "find"
    /\ IF Visible(at[p].req) THEN Respond(p, Mapped(at[p].req))
       ELSE Goto(p, "gate") /\ UNCHANGED answer
    /\ UNCHANGED <<keys, jobs, served, late, crashes>>

GateLeaks(p) ==
    /\ at[p].pc = "gate"
    /\ \/ Goto(p, "free")
       \/ Goto(p, IF Keyed(at[p].req) THEN "reserve" ELSE "insert")
    /\ UNCHANGED <<keys, jobs, answer, served, late, crashes>>

(* shadow_evaluate: 402 or go on.                                          *)
Gate(p) ==
    /\ at[p].pc = "gate"
    /\ \/ at' = [at EXCEPT ![p] = Free]
       \/ Goto(p, IF Keyed(at[p].req) THEN "reserve" ELSE "insert")
    /\ UNCHANGED <<keys, jobs, answer, served, late, crashes>>

(* create_job_idempotency: INSERT ... ON CONFLICT DO NOTHING.              *)
Reserve(p) ==
    /\ at[p].pc = "reserve"
    /\ LET r == at[p].req
           free == Mapped(r) = None
       IN  /\ keys' = IF free THEN [keys EXCEPT ![<<TenantOf[r], KeyOf[r]>>] = r] ELSE keys
           /\ Goto(p, IF free THEN "insert" ELSE "winner")
    /\ UNCHANGED <<jobs, answer, served, late, crashes>>

WinnerBlind(p) ==
    /\ at[p].pc = "winner"
    /\ Respond(p, Mapped(at[p].req))
    /\ UNCHANGED <<keys, jobs, served, late, crashes>>

(* The key was taken: the winner's job if its row is there, otherwise the  *)
(* handler falls through to the insert.                                    *)
Winner(p) ==
    /\ at[p].pc = "winner"
    /\ IF Visible(at[p].req) THEN Respond(p, Mapped(at[p].req))
       ELSE Goto(p, "insert") /\ UNCHANGED answer
    /\ UNCHANGED <<keys, jobs, served, late, crashes>>

InsertJob(p) ==
    /\ at[p].pc = "insert"
    /\ jobs' = [jobs EXCEPT ![at[p].req] = "queued"]
    /\ Goto(p, "backend")
    /\ UNCHANGED <<keys, answer, served, late, crashes>>

(* A second statement stores the backend the client asked for in the row,  *)
(* which no replay looks at, and the new job is answered.                  *)
WriteBackend(p) ==
    /\ at[p].pc = "backend"
    /\ Respond(p, at[p].req)
    /\ UNCHANGED <<keys, jobs, served, late, crashes>>

(* The replica dies, or a statement raises and the request ends in 500.    *)
Crash(p) ==
    /\ at[p] # Free /\ crashes < MaxCrashes
    /\ crashes' = crashes + 1
    /\ at' = [at EXCEPT ![p] = Free]
    /\ UNCHANGED <<keys, jobs, answer, served, late>>

(* The worker (any replica's poll_and_execute) claims the row.             *)
Claim(j) ==
    /\ jobs[j] = "queued"
    /\ jobs' = [jobs EXCEPT ![j] = "running"]
    /\ UNCHANGED <<keys, at, answer, served, late, crashes>>

-----------------------------------------------------------------------------
Step(p) ==
    \/ Find(p) \/ Gate(p) \/ Reserve(p) \/ Winner(p) \/ InsertJob(p)
    \/ WriteBackend(p)

Next ==
    \/ \E p \in Replicas, r \in Requests : Begin(p, r)
    \/ \E p \in Replicas : Step(p) \/ Crash(p)
    \/ \E j \in Requests : Claim(j)

Spec == Init /\ [][Next]_vars

-----------------------------------------------------------------------------
Same(r, s) == Keyed(r) /\ TenantOf[r] = TenantOf[s] /\ KeyOf[r] = KeyOf[s]

(* A 202 answer names a job whose row is there and belongs to the tenant   *)
(* that asked, replays and lost races included.                            *)
AnswerIsJob ==
    \A r \in Requests : answer[r] # None =>
        /\ jobs[answer[r]] # "absent"
        /\ TenantOf[answer[r]] = TenantOf[r]
        /\ answer[r] # r => Same(r, answer[r])

(* Once the job the key is mapped to is there, a request with the key that *)
(* arrives creates no job and is answered with that one, or not at all:    *)
(* whatever the job has become by then, and whatever races and crashes     *)
(* came before.                                                            *)
SettledKeyReplays ==
    \A r \in late : jobs[r] = "absent" /\ answer[r] \in {None, Mapped(r)}

(* One job per (tenant, Idempotency-Key).                                  *)
OneJobPerKey ==
    \A r, s \in Requests :
        Same(r, s) /\ jobs[r] # "absent" /\ jobs[s] # "absent" => r = s
=============================================================================
