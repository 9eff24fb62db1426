------------------------------ MODULE Decisions ------------------------------
(***************************************************************************)
(* DecisionOS: the three ways a request becomes a decision record, audit   *)
(* events and a job.                                                       *)
(*   "router"   POST /v1/decisions (router_decisions.create_decision);     *)
(*   "service"  decision_service.create_decision;                          *)
(*   "store"    decision_store.submit_job_through_gate.                    *)
(* A handler runs to its end inside one process, every database call is a  *)
(* transaction of its own, and replicas interleave between the calls.  One *)
(* tenant is modelled: the tables are filtered by tenant_id everywhere.    *)
(***************************************************************************)
EXTENDS Integers, Sequences, FiniteSets, SequencesExt

CONSTANTS DReplicas,        \* processes that serve the endpoints
          IdemKeys,         \* idempotency keys a client sends
          NoIdemKey,            \* the request has no key
          PlanJobs,         \* jobs_per_month of the tenant's plan
          FallbackJobs,     \* the limit cost.gate uses without a plan source
          TierJobs,         \* max_jobs_month of the tenant's tier
          MaxAsks,          \* bound: requests
          MaxDecFaults      \* bound: crashes and source failures

ASSUME DecisionAssumption ==
    /\ NoIdemKey \notin IdemKeys /\ IsFiniteSet(DReplicas) /\ DReplicas # {}
    /\ PlanJobs \in Nat /\ FallbackJobs \in Nat /\ TierJobs \in Nat

VARIABLES decided,   \* decision_records joined with decision_requests, by decided_at
          queue,     \* execution_jobs of the tenant, in insertion order
          trail,     \* audit_events: event type and entity
          desk,      \* what each replica's handler is doing
          subscribed,\* tenants.subscription_status
          plansFile, \* config/plans.json can be read
          asks, decFaults, overlapping

dvars == <<decided, queue, trail, desk, subscribed, plansFile, asks, decFaults, overlapping>>

Paths == {"router", "service", "store"}

AtDesk == [pc |-> "idle", path |-> "router", key |-> NoIdemKey, wants |-> TRUE,
           ok |-> FALSE, did |-> 0, job |-> 0]

DesksType == [pc : {"idle", "find", "gate", "record", "audit", "job", "auditJob"},
              path : Paths, key : IdemKeys \cup {NoIdemKey}, wants : BOOLEAN, ok : BOOLEAN,
              did : Nat, job : Nat]

JobStatuses == {"queued", "cancelled", "completed"}

\* The data has the shape of the tables, and every reference between rows
\* (a job's decision, an audit event's entity) names a row that exists.
DecisionsTypeOK ==
    /\ decided \in Seq([key : IdemKeys \cup {NoIdemKey}, ok : BOOLEAN, path : Paths, wants : BOOLEAN])
    /\ queue \in Seq([did : 1..Len(decided), status : JobStatuses])
    /\ \A i \in DOMAIN trail :
          trail[i].of \in 0..(IF trail[i].type = "job.created" THEN Len(queue) ELSE Len(decided))
    /\ desk \in [DReplicas -> DesksType]
    /\ subscribed \in {"active", "inactive", "past_due"}
    /\ plansFile \in BOOLEAN
    /\ asks \in 0..MaxAsks /\ decFaults \in 0..MaxDecFaults
    /\ overlapping \in BOOLEAN

DecisionsInit ==
    /\ decided = <<>> /\ queue = <<>> /\ trail = <<>>
    /\ desk = [r \in DReplicas |-> AtDesk]
    /\ subscribed = "active" /\ plansFile = TRUE
    /\ asks = 0 /\ decFaults = 0 /\ overlapping = FALSE

-----------------------------------------------------------------------------
(* Storage *)

Stands(r, f) == desk' = [desk EXCEPT ![r] = f]

\* insert_audit_event: ON CONFLICT (tenant, type, entity) DO NOTHING; an event
\* about no known entity (0 here) is always appended.
Audited(type, of) ==
    LET e == [type |-> type, of |-> of]
    IN IF of # 0 /\ e \in ToSet(trail) THEN trail ELSE Append(trail, e)

\* find_decision_by_idempotency: the latest record whose request has the key.
FoundByKey(k) == {i \in DOMAIN decided : decided[i].key = k}

\* count_jobs_for_tenant_total: every row counts, whatever its status.
JobsCounted == Len(queue)

\* list_decision_records: newest first, filtered by result, one page of it.
Newest(want) == Reverse(SelectSeq([i \in DOMAIN decided |-> i], LAMBDA i : decided[i].ok \in want))

DecisionPage(want, limit, offset) ==
    LET rows == Newest(want)
        end  == IF offset + limit < Len(rows) THEN offset + limit ELSE Len(rows)
    IN SubSeq(rows, offset + 1, end)

\* evaluate_policies for "decision.create": the quota of the tier.
PolicyAllows == JobsCounted < TierJobs

-----------------------------------------------------------------------------
(* A request *)

Asking(r) ==
    /\ asks < MaxAsks /\ desk[r].pc = "idle"
    /\ asks' = asks + 1
    /\ overlapping' = (overlapping \/ \E q \in DReplicas : desk[q].pc # "idle")
    /\ UNCHANGED <<decided, queue, subscribed, plansFile, decFaults>>

\* The first step of the router: the tier's quota policy, before the key is
\* looked up.  A refusal is audited under a fresh id and answered with 402.
AskRouter(r, k, wants) ==
    /\ Asking(r)
    /\ \/ /\ ~PolicyAllows
          /\ trail' = Audited("policy.denied", 0)
          /\ UNCHANGED desk
       \/ /\ PolicyAllows
          /\ Stands(r, [AtDesk EXCEPT !.pc = "find", !.key = k, !.wants = wants])
          /\ UNCHANGED trail

\* The service inserts the request and evaluates the gate; it looks up no key.
AskService(r, k) ==
    /\ Asking(r)
    /\ Stands(r, [AtDesk EXCEPT !.pc = "gate", !.path = "service", !.key = k])
    /\ UNCHANGED trail

\* The store inserts the request, looks the key up (and never replays: it
\* reads a column "result" the record does not have), then the subscription.
AskStore(r, k) ==
    /\ Asking(r)
    /\ Stands(r, [AtDesk EXCEPT !.pc = IF subscribed = "active" THEN "gate" ELSE "record",
                                !.path = "store", !.key = k])
    /\ UNCHANGED trail

FindIgnoresKeys(r) ==
    /\ desk[r].pc = "find"
    /\ Stands(r, [desk[r] EXCEPT !.pc = "gate"])
    /\ UNCHANGED <<decided, queue, trail, subscribed, plansFile, asks, decFaults, overlapping>>

\* A known key is answered with the recorded decision, and nothing is written.
FindDecision(r) ==
    /\ desk[r].pc = "find"
    /\ Stands(r, IF desk[r].key # NoIdemKey /\ FoundByKey(desk[r].key) # {}
                 THEN AtDesk ELSE [desk[r] EXCEPT !.pc = "gate"])
    /\ UNCHANGED <<decided, queue, trail, subscribed, plansFile, asks, decFaults, overlapping>>

\* EnterpriseDecisionGate.evaluate: without a plan source the limit is the
\* literal the gate falls back to; the store refuses instead.
GateAllows(path) ==
    IF plansFile THEN JobsCounted < PlanJobs
    ELSE path # "store" /\ JobsCounted < FallbackJobs

\* _check_spend_cap, asked by the store only: a negative cap admits, a zero cap
\* or an unknown balance refuses, otherwise balance plus estimate against cap.
SpendCapAllows(cap, durable, balance, estimate) ==
    cap < 0 \/ (cap > 0 /\ durable /\ balance + estimate <= cap)

EvaluateGate(r) ==
    /\ desk[r].pc = "gate"
    /\ \E cap \in {-1, 0, 2}, durable \in BOOLEAN, balance \in {1, 2} :
          Stands(r, [desk[r] EXCEPT !.pc = "record",
                       !.ok = GateAllows(desk[r].path)
                              /\ (desk[r].path = "store" => SpendCapAllows(cap, durable, balance, 1))])
    /\ UNCHANGED <<decided, queue, trail, subscribed, plansFile, asks, decFaults, overlapping>>

\* insert_decision_request and insert_decision_record.
RecordDecision(r) ==
    /\ desk[r].pc = "record"
    /\ decided' = Append(decided, [key |-> desk[r].key, ok |-> desk[r].ok,
                                   path |-> desk[r].path, wants |-> desk[r].wants])
    /\ Stands(r, [desk[r] EXCEPT !.pc = "audit", !.did = Len(decided) + 1])
    /\ UNCHANGED <<queue, trail, subscribed, plansFile, asks, decFaults, overlapping>>

\* The store writes its audit events after the job, the others before it.
Continues(d) == IF d.ok /\ d.wants THEN "job" ELSE "idle"

\* on_decision_allowed of the service lacks an argument: the error is swallowed
\* and no event is written.
AuditDecision(r) ==
    LET d == desk[r]
        after == IF d.path = "store" /\ d.ok /\ d.job # 0 THEN "idle" ELSE Continues(d)
    IN /\ d.pc = "audit"
       /\ trail' = IF d.ok /\ (d.path = "service" \/ (d.path = "store" /\ d.job = 0)) THEN trail
                   ELSE Audited(IF d.ok THEN "decision.allowed" ELSE "decision.denied", d.did)
       /\ Stands(r, IF after = "idle" THEN AtDesk ELSE [d EXCEPT !.pc = after])
       /\ UNCHANGED <<decided, queue, subscribed, plansFile, asks, decFaults, overlapping>>

\* insert_execution_job / insert_job.
InsertQueued(r) ==
    LET d == desk[r]
    IN /\ d.pc = "job"
       /\ queue' = Append(queue, [did |-> d.did, status |-> "queued"])
       /\ Stands(r, [d EXCEPT !.job = Len(queue) + 1,
                              !.pc = IF d.path = "store" THEN "audit" ELSE "auditJob"])
       /\ UNCHANGED <<decided, trail, subscribed, plansFile, asks, decFaults, overlapping>>

\* The event of the job; in the store this call has one argument too many and
\* the error leaves the handler, whose job is already queued.
AuditJob(r) ==
    /\ desk[r].pc = "auditJob"
    /\ trail' = Audited("job.created", desk[r].job)
    /\ Stands(r, AtDesk)
    /\ UNCHANGED <<decided, queue, subscribed, plansFile, asks, decFaults, overlapping>>

\* decision_store.cancel_job and complete_job: no status is checked.
SetJobStatus(j, s) ==
    /\ asks < MaxAsks /\ asks' = asks + 1
    /\ queue' = [queue EXCEPT ![j].status = s]
    /\ UNCHANGED <<decided, trail, desk, subscribed, plansFile, decFaults, overlapping>>

-----------------------------------------------------------------------------
(* Around the handlers *)

ReplicaDies(r) ==
    /\ decFaults < MaxDecFaults /\ desk[r].pc # "idle"
    /\ decFaults' = decFaults + 1
    /\ Stands(r, AtDesk)
    /\ UNCHANGED <<decided, queue, trail, subscribed, plansFile, asks, overlapping>>

PlansUnreadable ==
    /\ decFaults < MaxDecFaults
    /\ decFaults' = decFaults + 1
    /\ plansFile' = ~plansFile
    /\ UNCHANGED <<decided, queue, trail, desk, subscribed, asks, overlapping>>

SubscriptionMoves(s) ==
    /\ decFaults < MaxDecFaults
    /\ decFaults' = decFaults + 1
    /\ subscribed' = s
    /\ UNCHANGED <<decided, queue, trail, desk, plansFile, asks, overlapping>>

DecisionsNext ==
    \/ \E r \in DReplicas :
          \/ \E k \in IdemKeys \cup {NoIdemKey}, w \in BOOLEAN : AskRouter(r, k, w)
          \/ \E k \in IdemKeys : AskService(r, k)
          \/ \E k \in IdemKeys : AskStore(r, k)
          \/ FindDecision(r) \/ EvaluateGate(r) \/ RecordDecision(r)
          \/ AuditDecision(r) \/ InsertQueued(r) \/ AuditJob(r) \/ ReplicaDies(r)
    \/ \E j \in DOMAIN queue, s \in JobStatuses \ {"queued"} : SetJobStatus(j, s)
    \/ PlansUnreadable
    \/ \E s \in {"inactive", "past_due"} : SubscriptionMoves(s)

-----------------------------------------------------------------------------
(* Properties *)

\* Every job belongs to a decision that allowed it and no other job does.
JobsAreDecided ==
    \A j \in DOMAIN queue :
        /\ decided[queue[j].did].ok /\ decided[queue[j].did].wants
        /\ \A i \in DOMAIN queue : queue[i].did = queue[j].did => i = j

\* The quota is counted before and not during the insertion of a job, so
\* replicas that admit at the same time pass the limit, each by one job.
QuotaNearlyKept ==
    Len(queue) <= (IF PlanJobs > FallbackJobs THEN PlanJobs ELSE FallbackJobs)
                  + Cardinality(DReplicas) - 1

\* The trail never contradicts the records, and a job the router created was
\* preceded by the event of its decision.
TrailIsTrue ==
    /\ \A i \in DOMAIN trail :
          trail[i].type \in {"decision.allowed", "decision.denied"} =>
             (decided[trail[i].of].ok <=> trail[i].type = "decision.allowed")
    /\ \A j \in DOMAIN queue :
          decided[queue[j].did].path = "router" =>
             [type |-> "decision.allowed", of |-> queue[j].did] \in ToSet(trail)

\* Requests that do not overlap get one decision for one key, and with no
\* crash every decision of the router that allows a job has its job.
KeysDecideOnce ==
    /\ ~overlapping =>
          \A i, j \in DOMAIN decided :
             (/\ decided[i].key = decided[j].key /\ decided[i].key # NoIdemKey
              /\ decided[j].path = "router") => i >= j
    /\ (decFaults = 0 /\ \A r \in DReplicas : desk[r].pc = "idle") =>
          \A i \in DOMAIN decided :
             decided[i].ok /\ decided[i].wants => \E j \in DOMAIN queue : queue[j].did = i

\* The pages of a listing, one after the other, show every decision of the
\* filter once.
PagesShowAll ==
    \A want \in {{TRUE}, {FALSE}, BOOLEAN}, limit \in 1..2 :
        LET pages == [p \in 1..(Len(decided) + 1) |-> DecisionPage(want, limit, (p - 1) * limit)]
        IN /\ FlattenSeq(pages) = Newest(want)
           /\ \A i \in DOMAIN decided : decided[i].ok \in want => i \in ToSet(FlattenSeq(pages))

\* What a client, the quota and an auditor may rely on: a job comes from the
\* decision that allowed it, the quota is overrun by at most the replicas that
\* admit together, the audit trail agrees with the records, and a repeated key
\* (router_decisions.create_decision) does not decide again.
DecisionsInv == JobsAreDecided /\ QuotaNearlyKept /\ TrailIsTrue /\ KeysDecideOnce
=============================================================================
