------------------------------ MODULE Payments ------------------------------
(***************************************************************************)
(* Subscriptions bought through CloudPayments (src/routers/billing.py,     *)
(* src/routers/webhooks.py).                                               *)
(*                                                                         *)
(* The provider reports an operation on an invoice with a signed notice    *)
(* and repeats the notice until it is answered.  Several replicas of the   *)
(* API take notices; a handler has no await after the body is read, so it  *)
(* is a sequence of separately committed statements that only another      *)
(* replica or a crash can interrupt.  A notice with a wrong signature or   *)
(* without an invoice changes nothing and is left out.                     *)
(***************************************************************************)
EXTENDS Naturals, FiniteSets

CONSTANTS
    PTenants, Invoices, PReplicas,
    NoTenant,
    MaxNotices,    \* bound: distinct notices the provider sends
    MaxPCrashes    \* bound: crashes and failed statements

ASSUME PaymentsAssumption ==
    /\ NoTenant \notin PTenants
    /\ MaxNotices \in Nat /\ MaxPCrashes \in Nat
    /\ IsFiniteSet(PReplicas)

VARIABLES
    tenant,      \* tenants: subscription_status and plan
    processed,   \* processed_invoices: the tenant of each recorded invoice
    notices,     \* notices the provider has sent and may send again
    hook,        \* the handlers of cloudpayments_webhook
    pcrashes,
    paid,        \* history: tenants that paid the price of their plan
    applied,     \* history: how often each invoice changed a subscription
    activated    \* history: invoices that activated a plan

pvars == <<tenant, processed, notices, hook, pcrashes, paid, applied, activated>>

Kinds == {"payment", "no_plan", "refused", "cancel"}
Notice == [invoice : Invoices, tenant : PTenants, kind : Kinds, matches : BOOLEAN]
Idle == [pc |-> "idle", notice |-> {}]

PaymentsTypeOK ==
    /\ tenant \in [PTenants -> [status : {"inactive", "active", "canceled"},
                                plan : {"free", "pro"}]]
    /\ processed \in [Invoices -> PTenants \cup {NoTenant}]
    /\ notices \subseteq Notice
    /\ hook \in [PReplicas -> [pc : {"idle", "mine", "others", "apply", "mark"},
                               notice : {{}} \cup {{n} : n \in notices}]]
    /\ pcrashes \in 0..MaxPCrashes
    /\ paid \subseteq PTenants /\ activated \subseteq Invoices
    /\ applied \in [Invoices -> Nat]

(* seed_tenants: free and inactive.                                        *)
PaymentsInit ==
    /\ tenant = [t \in PTenants |-> [status |-> "inactive", plan |-> "free"]]
    /\ processed = [i \in Invoices |-> NoTenant]
    /\ notices = {}
    /\ hook = [r \in PReplicas |-> Idle]
    /\ pcrashes = 0
    /\ paid = {} /\ activated = {}
    /\ applied = [i \in Invoices |-> 0]

-----------------------------------------------------------------------------
(* create_checkout_session for the free plan.                              *)
CheckoutFree(t) ==
    /\ tenant[t] # [status |-> "active", plan |-> "free"]
    /\ tenant' = [tenant EXCEPT ![t] = [status |-> "active", plan |-> "free"]]
    /\ UNCHANGED <<processed, notices, hook, pcrashes, paid, applied, activated>>

(* create_checkout_session for a paid plan: create_order carries the       *)
(* tenant and the plan, and what the customer does at the provider comes   *)
(* back as a notice.  The amount may differ from the price of the plan.    *)
Checkout(i, t, kind, matches) ==
    /\ Cardinality(notices) < MaxNotices
    /\ kind # "payment" => matches
    /\ LET n == [invoice |-> i, tenant |-> t, kind |-> kind, matches |-> matches]
       IN  n \notin notices /\ notices' = notices \cup {n}
    /\ paid' = IF kind = "payment" /\ matches THEN paid \cup {t} ELSE paid
    /\ UNCHANGED <<tenant, processed, hook, pcrashes, applied, activated>>

(* A notice arrives, for the first time or again.                          *)
Receive(r, n) ==
    /\ hook[r] = Idle
    /\ hook' = [hook EXCEPT ![r] = [pc |-> "mine", notice |-> {n}]]
    /\ UNCHANGED <<tenant, processed, notices, pcrashes, paid, applied, activated>>

Work(r) == CHOOSE n \in hook[r].notice : TRUE
HookAt(r, pc) == hook[r].pc = pc
HookTo(r, pc) == hook' = [hook EXCEPT ![r].pc = pc]
Answer(r) == hook' = [hook EXCEPT ![r] = Idle]

(* is_invoice_processed for the tenant.                                    *)
ProcessedFor(i, t) == processed[i] = t

CheckMine(r) ==
    /\ HookAt(r, "mine")
    /\ IF ProcessedFor(Work(r).invoice, Work(r).tenant) THEN Answer(r) ELSE HookTo(r, "others")
    /\ UNCHANGED <<tenant, processed, notices, pcrashes, paid, applied, activated>>

(* is_invoice_processed for anyone: the answer is 409.                     *)
CheckOthers(r) ==
    /\ HookAt(r, "others")
    /\ IF processed[Work(r).invoice] # NoTenant THEN Answer(r) ELSE HookTo(r, "apply")
    /\ UNCHANGED <<tenant, processed, notices, pcrashes, paid, applied, activated>>

(* _amount_matches_plan: exact amount and currency of the plan.            *)
AmountMatchesPlan(n) == n.matches

(* What a notice makes of a subscription.  A refusal is recognised by its  *)
(* status before the operation type is looked at.                          *)
Subscription(n, s) ==
    CASE n.kind = "payment" -> [status |-> "active", plan |-> "pro"]
      [] n.kind = "refused" -> [s EXCEPT !.status = "inactive"]
      [] n.kind = "cancel" -> [status |-> "canceled", plan |-> "free"]
      [] OTHER -> s

(* Faulty variant: the invoice is recorded before the subscription.        *)
ApplyMarksFirst(r) ==
    /\ HookAt(r, "apply")
    /\ LET n == Work(r)
       IN  IF n.kind = "payment" /\ ~AmountMatchesPlan(n)
           THEN Answer(r) /\ UNCHANGED <<tenant, processed, applied, activated>>
           ELSE IF processed[n.invoice] = NoTenant
                THEN /\ processed' = [processed EXCEPT ![n.invoice] = n.tenant]
                     /\ UNCHANGED <<tenant, hook, applied, activated>>
                ELSE /\ tenant' = [tenant EXCEPT ![n.tenant] = Subscription(n, @)]
                     /\ applied' = [applied EXCEPT ![n.invoice] = @ + 1]
                     /\ activated' = IF n.kind = "payment" THEN activated \cup {n.invoice}
                                     ELSE activated
                     /\ HookTo(r, "mark") /\ UNCHANGED processed
    /\ UNCHANGED <<notices, pcrashes, paid>>

(* A payment of another amount is answered and leaves the invoice open.    *)
Apply(r) ==
    /\ HookAt(r, "apply")
    /\ LET n == Work(r)
       IN  IF n.kind = "payment" /\ ~AmountMatchesPlan(n)
           THEN Answer(r) /\ UNCHANGED <<tenant, applied, activated>>
           ELSE /\ tenant' = [tenant EXCEPT ![n.tenant] = Subscription(n, @)]
                /\ applied' = [applied EXCEPT ![n.invoice] = @ + 1]
                /\ activated' = IF n.kind = "payment" THEN activated \cup {n.invoice}
                                ELSE activated
                /\ HookTo(r, "mark")
    /\ UNCHANGED <<processed, notices, pcrashes, paid>>

(* Faulty variant: the record is overwritten.                              *)
MarkReplaces(r) ==
    /\ HookAt(r, "mark")
    /\ processed' = [processed EXCEPT ![Work(r).invoice] = Work(r).tenant]
    /\ Answer(r)
    /\ UNCHANGED <<tenant, notices, pcrashes, paid, applied, activated>>

(* mark_invoice_processed: ON CONFLICT (invoice_id) DO NOTHING.            *)
Mark(r) ==
    /\ HookAt(r, "mark")
    /\ processed' = [processed EXCEPT ![Work(r).invoice] = IF @ = NoTenant THEN Work(r).tenant
                                                           ELSE @]
    /\ Answer(r)
    /\ UNCHANGED <<tenant, notices, pcrashes, paid, applied, activated>>

(* A statement raises or the process dies.                                 *)
HookDies(r) ==
    /\ hook[r] # Idle /\ pcrashes < MaxPCrashes
    /\ pcrashes' = pcrashes + 1
    /\ Answer(r)
    /\ UNCHANGED <<tenant, processed, notices, paid, applied, activated>>

-----------------------------------------------------------------------------
PaymentsNext ==
    \/ \E t \in PTenants : CheckoutFree(t)
    \/ \E i \in Invoices, t \in PTenants, kind \in Kinds, matches \in BOOLEAN :
          Checkout(i, t, kind, matches)
    \/ \E r \in PReplicas : \/ \E n \in notices : Receive(r, n)
                            \/ CheckMine(r) \/ CheckOthers(r) \/ Apply(r) \/ Mark(r) \/ HookDies(r)

PaymentsSpec == PaymentsInit /\ [][PaymentsNext]_pvars

-----------------------------------------------------------------------------
(* A tenant is active on a paid plan only if it paid the price of the      *)
(* plan, in whichever order payments, refusals, cancellations and repeated *)
(* notices are handled.                                                    *)
ActiveIsPaid == \A t \in PTenants : tenant[t] = [status |-> "active", plan |-> "pro"] => t \in paid

(* An invoice is recorded only after it took effect: a crash between the   *)
(* two statements repeats the effect and never loses it, so that a         *)
(* recorded invoice whose only matching notice is a payment has activated  *)
(* the plan.                                                               *)
RecordedTookEffect ==
    \A i \in Invoices : processed[i] # NoTenant =>
        /\ applied[i] > 0
        /\ (\A n \in notices : n.invoice = i => n.kind = "payment") => i \in activated

(* A notice repeated after its invoice was recorded has no effect: an      *)
(* invoice takes effect once per handler that was in flight, and once more *)
(* for each crash.                                                         *)
RepeatsHaveNoEffect ==
    \A i \in Invoices : applied[i] <= Cardinality(PReplicas) + pcrashes

(* The tenant an invoice is recorded for never changes.                    *)
RecordIsFinal ==
    [][\A i \in Invoices : processed[i] # NoTenant => processed'[i] = processed[i]]_pvars

(* Plans follow payments, through crashes and repeated notices.            *)
PaymentsInv == ActiveIsPaid /\ RecordedTookEffect /\ RepeatsHaveNoEffect
=============================================================================
