------------------------------- MODULE Ledger -------------------------------
(***************************************************************************)
(* The money tables of the billing service: ledger_entries (CREDIT and     *)
(* DEBIT rows, src/billing/pg_ledger.py) and usage_events                  *)
(* (src/billing/pg_metering.py).  The ledger is append-only; the balance   *)
(* of a tenant is the sum of its CREDIT rows less the sum of its DEBIT     *)
(* rows.                                                                   *)
(*                                                                         *)
(* A DEBIT row of job j carries the idempotency key job:<j>, a refund the  *)
(* key refund:<j>.  The key, hashed, is the primary key of the row, so     *)
(* INSERT ... ON CONFLICT DO NOTHING adds a row only when there is none.   *)
(* The rows of a job are kept as sequences of amounts, so that a second    *)
(* row would show.                                                         *)
(***************************************************************************)
EXTENDS Integers, Sequences, FiniteSets

CONSTANTS
    Tenants,     \* tenant identifiers
    Jobs,        \* job identifiers
    TenantOf,    \* the tenant that owns each job
    Durations,   \* billable durations of a job
    CostOf,      \* duration -> cost: round(seconds * rate, 8), in units of 1e-8 USD
    MaxCredit    \* bound: the most a tenant is ever credited by top-ups

ASSUME LedgerAssumption ==
    /\ TenantOf \in [Jobs -> Tenants]
    /\ CostOf \in [Durations -> Nat]
    /\ 0 \in Durations /\ CostOf[0] = 0
    /\ MaxCredit \in Nat

VARIABLES
    credited,    \* sum of the top-up CREDIT rows of each tenant
    balance,     \* SUM(CREDIT) - SUM(DEBIT) over the rows of each tenant
    debits,      \* amounts of the DEBIT rows with metadata job_id = j
    refunds,     \* amounts of the CREDIT rows with key refund:<j>
    usage        \* cost_usd of the usage_events of job j, by event_type

ledgerVars == <<credited, balance, debits, refunds, usage>>

-----------------------------------------------------------------------------
Kinds == {"gpu_execution", "cpu_execution"}

LedgerTypeOK ==
    /\ credited \in [Tenants -> Nat]
    /\ balance \in [Tenants -> Int]
    /\ debits \in [Jobs -> Seq(Nat)]
    /\ refunds \in [Jobs -> Seq(Nat)]
    /\ usage \in [Jobs -> [Kinds -> Seq(Nat)]]

LedgerInit ==
    /\ credited = [t \in Tenants |-> 0]
    /\ balance = [t \in Tenants |-> 0]
    /\ debits = [j \in Jobs |-> <<>>]
    /\ refunds = [j \in Jobs |-> <<>>]
    /\ usage = [j \in Jobs |-> [k \in Kinds |-> <<>>]]

-----------------------------------------------------------------------------
(* credit() for a top-up: the key is fresh, the row is always added.       *)
TopUp(t, amount) ==
    /\ credited[t] + amount <= MaxCredit
    /\ credited' = [credited EXCEPT ![t] = @ + amount]
    /\ balance' = [balance EXCEPT ![t] = @ + amount]
    /\ UNCHANGED <<debits, refunds, usage>>

(* Faulty variants: a DEBIT with no idempotency key, one with no balance   *)
(* condition, a lookup that compares no amount, a refund with no key.      *)
DebitRowNoKey(j, amount) ==
    /\ balance[TenantOf[j]] >= amount
    /\ debits' = [debits EXCEPT ![j] = Append(@, amount)]
    /\ balance' = [balance EXCEPT ![TenantOf[j]] = @ - amount]
    /\ UNCHANGED <<credited, refunds, usage>>
DebitRowUnchecked(j, amount) ==
    /\ debits[j] = <<>>
    /\ debits' = [debits EXCEPT ![j] = Append(@, amount)]
    /\ balance' = [balance EXCEPT ![TenantOf[j]] = @ - amount]
    /\ UNCHANGED <<credited, refunds, usage>>
IdemLookupNoAmount(j, amount) == IF debits[j] = <<>> THEN "no_funds" ELSE "debited"
RefundNoKey(j, amount) ==
    /\ refunds' = [refunds EXCEPT ![j] = Append(@, amount)]
    /\ balance' = [balance EXCEPT ![TenantOf[j]] = @ + amount]
    /\ UNCHANGED <<credited, debits, usage>>

(* _DEBIT_IF_FUNDS_INSERT_SQL under the tenant's advisory lock: one row if *)
(* the key is free and the balance covers the amount.                      *)
DebitRow(j, amount) ==
    /\ debits[j] = <<>>
    /\ balance[TenantOf[j]] >= amount
    /\ debits' = [debits EXCEPT ![j] = Append(@, amount)]
    /\ balance' = [balance EXCEPT ![TenantOf[j]] = @ - amount]
    /\ UNCHANGED <<credited, refunds, usage>>

(* The same statement when it inserts nothing.                             *)
NoDebitRow(j, amount) ==
    /\ debits[j] # <<>> \/ balance[TenantOf[j]] < amount
    /\ UNCHANGED ledgerVars

(* _ledger_idem_lookup: what the row under key job:<j> says of this        *)
(* request.  A row of another amount is LedgerIdemMismatchError, never     *)
(* "no funds".                                                             *)
IdemLookup(j, amount) ==
    IF debits[j] = <<>> THEN "no_funds"
    ELSE IF debits[j][1] = amount THEN "debited" ELSE "mismatch"

(* debit_if_funds when PostgreSQL answers: the inserted row, or what the   *)
(* lookup says after a conflict or an insufficient balance.                *)
DebitIfFunds(j, amount, answer) ==
    \/ DebitRow(j, amount) /\ answer = "debited"
    \/ NoDebitRow(j, amount) /\ answer = IdemLookup(j, amount)

(* debit_if_funds when the transaction raises PGUnavailableError: the      *)
(* COMMIT may have happened or not, and the re-check by ledger_id may      *)
(* answer (a row: debited or mismatch, no row: the error is re-raised) or  *)
(* fail too.                                                               *)
DebitUnavailable(j, amount, answer) ==
    \/ DebitRow(j, amount) /\ answer \in {"debited", "pg_error"}
    \/ /\ UNCHANGED ledgerVars
       /\ \/ answer = "pg_error"
          \/ debits[j] # <<>> /\ answer = IdemLookup(j, amount)

(* refund(): credit() under the key refund:<j>, ON CONFLICT DO NOTHING.    *)
Refund(j, amount) ==
    IF refunds[j] = <<>>
    THEN /\ refunds' = [refunds EXCEPT ![j] = Append(@, amount)]
         /\ balance' = [balance EXCEPT ![TenantOf[j]] = @ + amount]
         /\ UNCHANGED <<credited, debits, usage>>
    ELSE UNCHANGED ledgerVars

(* MeteringEngine.record: the usage row is unique per (tenant, job, type), *)
(* and the totals are written in the same transaction.                     *)
RecordUsage(j, kind, amount) ==
    /\ usage' = IF usage[j][kind] = <<>>
                THEN [usage EXCEPT ![j][kind] = Append(@, amount)]
                ELSE usage
    /\ UNCHANGED <<credited, balance, debits, refunds>>
=============================================================================
