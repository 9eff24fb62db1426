---------------------------- MODULE SweepBackoff ----------------------------
(***************************************************************************)
(* The billing_pending sweeper as a scheduler: which parked jobs a pass of *)
(* sweep_billing_pending_once tries, and for how long a job its tenant     *)
(* could not pay is left alone (_no_funds_next_try).  JobBilling models    *)
(* what trying a job does to the ledger; here a try is only its outcome.   *)
(*                                                                         *)
(* One time unit is the interval between two passes.  The dictionary lives *)
(* in the memory of one process and only its sweeper touches it, so a pass *)
(* is one step.                                                            *)
(***************************************************************************)
EXTENDS Naturals, FiniteSets

CONSTANTS
    N,        \* jobs 1..N, in the order of their completed_at
    Batch,    \* BILLING_PENDING_BATCH
    Retry,    \* BILLING_PENDING_NO_FUNDS_RETRY_S, in passes
    MaxFaults \* bound: passes with a failing statement, and restarts

ASSUME BackoffAssumption ==
    /\ N \in Nat /\ Batch \in Nat \ {0} /\ Retry \in Nat \ {0} /\ MaxFaults \in Nat

Jobs == 1..N

VARIABLES
    pending,  \* rows in status billing_pending
    billed,   \* rows the sweeper has settled
    poor,     \* jobs whose tenant's balance does not cover them
    pause,    \* passes left until _no_funds_next_try of each job, 0: no entry
    since,    \* passes since the last no_funds answer of each job, Retry: long ago
    faults    \* failing passes and restarts so far

vars == <<pending, billed, poor, pause, since, faults>>

TypeOK ==
    /\ pending \subseteq Jobs /\ billed \subseteq Jobs
    /\ poor \subseteq Jobs
    /\ pause \in [Jobs -> 0..Retry]
    /\ since \in [Jobs -> 0..Retry]
    /\ faults \in 0..MaxFaults

Init ==
    /\ pending = {} /\ billed = {}
    /\ poor \in SUBSET Jobs
    /\ pause = [j \in Jobs |-> 0]
    /\ since = [j \in Jobs |-> Retry]
    /\ faults = 0

-----------------------------------------------------------------------------
(* Faulty variants: LIMIT applied before the paused jobs are excluded; a   *)
(* pause one pass too long.                                                *)
OldestLimitFirst(S, n) == {j \in S : Cardinality({i \in pending : i < j}) < n}
PauseTooLong(j) == Retry + 1

(* get_billing_pending_jobs: ORDER BY completed_at LIMIT n over S.         *)
Oldest(S, n) == {j \in S : Cardinality({i \in S : i < j}) < n}

(* _no_funds_next_try[j] = now + BILLING_PENDING_NO_FUNDS_RETRY_S.         *)
PauseOf(j) == Retry

Fault == faults < MaxFaults /\ faults' = faults + 1

(* The part every pass starts with: time passes, and the oldest jobs that  *)
(* are parked and no longer paused are listed (the pause is excluded in    *)
(* SQL, before the LIMIT).                                                 *)
Left == [j \in Jobs |-> IF pause[j] > 0 THEN pause[j] - 1 ELSE 0]
Listed == Oldest({j \in pending : Left[j] = 0}, Batch)

(* Trying the jobs of paid and unpaid: the first leave the backlog, the    *)
(* others are paused.                                                      *)
Tried(paid, unpaid) ==
    /\ pending' = pending \ paid /\ billed' = billed \cup paid
    /\ since' = [j \in Jobs |-> IF j \in unpaid THEN 0
                                ELSE IF since[j] < Retry THEN since[j] + 1
                                ELSE Retry]
    /\ UNCHANGED poor
Answered(unpaid) == [j \in Jobs |-> IF j \in unpaid THEN PauseOf(j) ELSE Left[j]]

(* The listed jobs are tried in order up to the first pg_error (at job     *)
(* bad; 0 is none); a try that raises something else leaves its job parked *)
(* (broken).  When the batch was not full, the pass ends by dropping the   *)
(* backoff of every job that was not listed.                               *)
Pass(bad, broken) ==
    LET tried == {j \in Listed : bad = 0 \/ j < bad}
        unpaid == (tried \cap poor) \ broken
    IN  /\ bad \in Listed \cup {0}
        /\ broken \subseteq tried
        /\ IF bad = 0 /\ broken = {} THEN UNCHANGED faults ELSE Fault
        /\ Tried(tried \ (poor \cup broken), unpaid)
        /\ pause' = [j \in Jobs |->
                        IF Cardinality(Listed) < Batch /\ j \notin Listed THEN 0
                        ELSE Answered(unpaid)[j]]

(* The no_funds marker of job bad cannot be written, or (0) the jobs       *)
(* cannot be listed: neither is caught in the pass, so it ends there.      *)
PassRaises(bad) ==
    LET tried == {j \in Listed : j <= bad}
    IN  /\ bad \in (Listed \cap poor) \cup {0}
        /\ Fault
        /\ Tried(tried \ poor, tried \cap poor)
        /\ pause' = Answered(tried \cap poor)

(* A worker parks a job, a tenant tops up, and the process restarts with   *)
(* an empty dictionary.                                                    *)
Park(j) ==
    /\ j \notin pending \cup billed
    /\ pending' = pending \cup {j}
    /\ UNCHANGED <<billed, poor, pause, since, faults>>

TopUp(j) ==
    /\ j \in poor
    /\ poor' = poor \ {j}
    /\ UNCHANGED <<pending, billed, pause, since, faults>>

Restart ==
    /\ Fault
    /\ pause' = [j \in Jobs |-> 0]
    /\ since' = [j \in Jobs |-> Retry]
    /\ UNCHANGED <<pending, billed, poor>>

Next ==
    \/ \E bad \in Jobs \cup {0}, broken \in SUBSET Jobs : Pass(bad, broken)
    \/ \E bad \in Jobs \cup {0} : PassRaises(bad)
    \/ \E j \in Jobs : Park(j) \/ TopUp(j)
    \/ Restart

(* poll_and_execute runs a pass every minute.                              *)
Fairness == WF_vars(Pass(0, {}))

Spec == Init /\ [][Next]_vars
FairSpec == Spec /\ Fairness

-----------------------------------------------------------------------------
(* OT-80: jobs waiting for money never keep a job that can be paid from    *)
(* being billed, however many they are and however old: a parked job whose *)
(* tenant has the money is settled.                                        *)
FundedSettled == \A j \in Jobs : (j \in pending /\ j \notin poor) ~> j \notin pending

(* A no_funds answer is not repeated before the pause is over: the sweeper *)
(* does not hammer the ledger with a bill nobody can pay.                  *)
NotHammered == [][\A j \in Jobs : since'[j] = 0 /\ since[j] # 0 => since[j] + 1 >= Retry]_vars
=============================================================================
