--------------------------- MODULE BillingContract ---------------------------
(***************************************************************************)
(* What the billing service promises its tenants, with no database, worker *)
(* or retry in sight: money is deposited, a job is charged at most once    *)
(* and only with money that is there, and a charge may be returned once,   *)
(* in full.  JobBilling is shown to implement it.                          *)
(***************************************************************************)
EXTENDS Integers

CONSTANTS Tenants, Jobs, TenantOf

VARIABLES
    paid,     \* what each tenant has paid in
    funds,    \* what each tenant can spend
    charge    \* the charge of each job: its state and its amount

contractVars == <<paid, funds, charge>>

Uncharged == [state |-> "none", amount |-> 0]

Init ==
    /\ paid = [t \in Tenants |-> 0]
    /\ funds = [t \in Tenants |-> 0]
    /\ charge = [j \in Jobs |-> Uncharged]

Deposit(t) ==
    /\ paid'[t] \in Int /\ paid'[t] >= paid[t]
    /\ paid' = [paid EXCEPT ![t] = paid'[t]]
    /\ funds' = [funds EXCEPT ![t] = @ + (paid'[t] - paid[t])]
    /\ UNCHANGED charge

Charge(j) ==
    LET t == TenantOf[j]
        amount == charge'[j].amount
    IN  /\ charge[j].state = "none"
        /\ amount \in Nat /\ amount <= funds[t]
        /\ charge' = [charge EXCEPT ![j] = [state |-> "charged", amount |-> amount]]
        /\ funds' = [funds EXCEPT ![t] = @ - amount]
        /\ UNCHANGED paid

Return(j) ==
    /\ charge[j].state = "charged"
    /\ charge' = [charge EXCEPT ![j] = [state |-> "returned", amount |-> charge[j].amount]]
    /\ funds' = [funds EXCEPT ![TenantOf[j]] = @ + charge[j].amount]
    /\ UNCHANGED paid

Next ==
    \/ \E t \in Tenants : Deposit(t)
    \/ \E j \in Jobs : Charge(j) \/ Return(j)

Spec == Init /\ [][Next]_contractVars
=============================================================================
