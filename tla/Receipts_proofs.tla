--------------------------- MODULE Receipts_proofs ---------------------------
(***************************************************************************)
(* Money that comes in, for any number of tenants, invoices, replicas,     *)
(* events, wallets and callers: the CloudPayments webhook, the Stripe      *)
(* webhook service and the deposit addresses of the wallet service.        *)
(***************************************************************************)
EXTENDS MCServing, FiniteSetTheorems, TLAPS

(* What the proofs use of finite sets: a subset has at most as many        *)
(* elements, one element more or less makes a difference of one at most.   *)
LEMMA SubsetCount ==
    ASSUME NEW S, IsFiniteSet(S), NEW T, T \subseteq S
    PROVE  /\ IsFiniteSet(T) /\ Cardinality(T) \in Nat /\ Cardinality(S) \in Nat
           /\ Cardinality(T) <= Cardinality(S)
  BY FS_Subset, FS_CardinalityType

LEMMA AddOneCount ==
    ASSUME NEW S, IsFiniteSet(S), NEW x, x \notin S
    PROVE  /\ IsFiniteSet(S \cup {x}) /\ Cardinality(S) \in Nat
           /\ Cardinality(S \cup {x}) = Cardinality(S) + 1
  BY FS_AddElement, FS_CardinalityType

LEMMA DropOneCount ==
    ASSUME NEW S, IsFiniteSet(S), NEW x
    PROVE  /\ IsFiniteSet(S \ {x}) /\ Cardinality(S) \in Nat /\ Cardinality(S \ {x}) \in Nat
           /\ Cardinality(S \ {x}) + 1 >= Cardinality(S)
           /\ x \in S => Cardinality(S \ {x}) + 1 = Cardinality(S)
  <1>1. /\ IsFiniteSet(S \ {x})
        /\ Cardinality(S \ {x}) = IF x \in S THEN Cardinality(S) - 1 ELSE Cardinality(S)
    BY FS_RemoveElement
  <1>2. Cardinality(S) \in Nat /\ Cardinality(S \ {x}) \in Nat
    BY <1>1, FS_CardinalityType
  <1> QED BY <1>1, <1>2

LEMMA DisjointCount ==
    ASSUME NEW U, IsFiniteSet(U), NEW S, S \subseteq U, NEW T, T \subseteq U,
           S \cap T = {}
    PROVE  /\ Cardinality(S) \in Nat /\ Cardinality(T) \in Nat /\ Cardinality(U) \in Nat
           /\ Cardinality(S) + Cardinality(T) <= Cardinality(U)
  <1>1. IsFiniteSet(S) /\ IsFiniteSet(T) /\ Cardinality(S) \in Nat /\ Cardinality(T) \in Nat
        /\ Cardinality(U) \in Nat
    BY SubsetCount
  <1>2. Cardinality(S \cup T) = Cardinality(S) + Cardinality(T)
    <2>1. Cardinality(S \cup T) = Cardinality(S) + Cardinality(T) - Cardinality(S \cap T)
      BY <1>1, FS_Union
    <2>2. Cardinality(S \cap T) = 0
      BY FS_EmptySet
    <2> QED BY <1>1, <2>1, <2>2
  <1>3. Cardinality(S \cup T) <= Cardinality(U)
    BY SubsetCount
  <1> QED BY <1>1, <1>2, <1>3

-----------------------------------------------------------------------------
(* CloudPayments.  A handler works on a notice that was sent; when it is   *)
(* about to record the invoice, the invoice has taken effect.              *)
HookInv(r) ==
    hook[r] # Idle =>
        /\ hook[r].pc # "idle"
        /\ hook[r].notice = {Work(r)} /\ Work(r) \in notices
        /\ HookAt(r, "mark") => /\ applied[Work(r).invoice] > 0
                                /\ Work(r).kind = "payment" => Work(r).invoice \in activated

NoticeInv == \A n \in notices : n.kind = "payment" /\ n.matches => n.tenant \in paid

(* The handlers between two statements, on an invoice.                     *)
Between(pc, i) == {r \in PReplicas : HookAt(r, pc) /\ Work(r).invoice = i}

(* An open invoice took effect for the handlers that are about to record   *)
(* it and for crashes; a recorded one has an effect left for each handler  *)
(* that looked before it was recorded.                                     *)
EffectInv(i) ==
    IF processed[i] = NoTenant
    THEN applied[i] <= Cardinality(Between("mark", i)) + pcrashes
    ELSE applied[i] + Cardinality(Between("apply", i)) <= Cardinality(PReplicas) + pcrashes

PaymentsIInv ==
    /\ PaymentsTypeOK /\ ActiveIsPaid /\ RecordedTookEffect /\ NoticeInv
    /\ \A r \in PReplicas : HookInv(r)
    /\ \A i \in Invoices : EffectInv(i)

LEMMA WorkIs ==
    ASSUME NEW r, NEW n, hook[r].notice = {n}
    PROVE  Work(r) = n
  BY DEF Work

LEMMA PaymentsInitInv == PaymentsInit => PaymentsIInv
  <1> SUFFICES ASSUME PaymentsInit PROVE PaymentsIInv
    OBVIOUS
  <1> USE PaymentsAssumption DEF PaymentsInit
  <1>1. PaymentsTypeOK
    BY DEF PaymentsTypeOK, Idle
  <1>2. ActiveIsPaid /\ RecordedTookEffect /\ NoticeInv /\ \A r \in PReplicas : HookInv(r)
    BY DEF ActiveIsPaid, RecordedTookEffect, NoticeInv, HookInv
  <1>3. ASSUME NEW i \in Invoices PROVE EffectInv(i)
    <2>1. Cardinality(Between("mark", i)) \in Nat
      BY SubsetCount, Between("mark", i) \subseteq PReplicas DEF Between
    <2> QED BY <2>1 DEF EffectInv
  <1> QED BY <1>1, <1>2, <1>3 DEF PaymentsIInv

(* What a handler is about to do is a set of handlers; it is finite.       *)
LEMMA BetweenCount ==
    ASSUME NEW i
    PROVE  /\ IsFiniteSet(Between("mark", i)) /\ IsFiniteSet(Between("apply", i))
           /\ Cardinality(Between("mark", i)) \in Nat /\ Cardinality(Between("apply", i)) \in Nat
           /\ Cardinality(PReplicas) \in Nat
           /\ Cardinality(Between("mark", i)) + Cardinality(Between("apply", i))
                 <= Cardinality(PReplicas)
  <1>1. /\ Between("mark", i) \subseteq PReplicas /\ Between("apply", i) \subseteq PReplicas
        /\ Between("mark", i) \cap Between("apply", i) = {}
    BY DEF Between, HookAt
  <1> QED BY <1>1, SubsetCount, DisjointCount, PaymentsAssumption

(* A step that leaves the record of an invoice alone, takes no handler     *)
(* from the ones about to record it and adds none to the ones about to     *)
(* apply it, keeps the count of its effects.                               *)
LEMMA EffectKept ==
    ASSUME NEW i \in Invoices, PaymentsTypeOK, EffectInv(i),
           processed'[i] = processed[i], applied'[i] = applied[i], pcrashes' = pcrashes,
           Between("mark", i) \subseteq Between("mark", i)',
           processed[i] # NoTenant => Between("apply", i)' \subseteq Between("apply", i)
    PROVE  EffectInv(i)'
  <1>1. IsFiniteSet(Between("mark", i)') /\ IsFiniteSet(Between("apply", i))
    BY SubsetCount, PaymentsAssumption, Between("mark", i)' \subseteq PReplicas, BetweenCount
    DEF Between
  <1>2. /\ Cardinality(Between("mark", i)) <= Cardinality(Between("mark", i)')
        /\ Cardinality(Between("mark", i)) \in Nat /\ Cardinality(Between("mark", i)') \in Nat
    BY <1>1, SubsetCount
  <1>3. processed[i] # NoTenant =>
           /\ Cardinality(Between("apply", i)') <= Cardinality(Between("apply", i))
           /\ Cardinality(Between("apply", i)) \in Nat /\ Cardinality(Between("apply", i)') \in Nat
    BY <1>1, SubsetCount
  <1>4. applied[i] \in Nat /\ pcrashes \in Nat /\ Cardinality(PReplicas) \in Nat
    <2>1. applied[i] \in Nat /\ pcrashes \in Nat
      BY PaymentsAssumption DEF PaymentsTypeOK
    <2> QED BY <2>1, FS_CardinalityType, PaymentsAssumption
  <1> QED BY <1>2, <1>3, <1>4 DEF EffectInv

(* A checkout changes no handler and no invoice.                           *)
LEMMA CheckoutRest ==
    ASSUME PaymentsIInv, UNCHANGED <<processed, hook, pcrashes, applied, activated>>,
           notices \subseteq notices', PaymentsTypeOK', ActiveIsPaid', NoticeInv'
    PROVE  PaymentsIInv'
  <1> USE DEF PaymentsIInv
  <1>1. RecordedTookEffect'
    BY DEF RecordedTookEffect
  <1>2. ASSUME NEW r \in PReplicas PROVE HookInv(r)'
    BY DEF HookInv, Work, HookAt
  <1>3. ASSUME NEW x \in Invoices PROVE EffectInv(x)'
    BY EffectKept DEF Between, HookAt, Work
  <1> QED BY <1>1, <1>2, <1>3

LEMMA CheckoutInv ==
    ASSUME PaymentsIInv, NEW i \in Invoices, NEW t \in PTenants, NEW kind \in Kinds,
           NEW matches \in BOOLEAN, Checkout(i, t, kind, matches)
    PROVE  PaymentsIInv'
  <1> USE PaymentsAssumption DEF PaymentsIInv
  <1>1. UNCHANGED <<tenant, processed, hook, pcrashes, applied, activated>> /\ notices \subseteq notices'
    BY DEF Checkout
  <1>2. notices' \subseteq Notice /\ paid' \subseteq PTenants
    BY DEF Checkout, PaymentsTypeOK, Notice
  <1>3. PaymentsTypeOK'
    BY <1>1, <1>2 DEF PaymentsTypeOK
  <1>4. ActiveIsPaid' /\ NoticeInv'
    BY DEF Checkout, ActiveIsPaid, NoticeInv, PaymentsTypeOK
  <1> QED BY <1>1, <1>3, <1>4, CheckoutRest

LEMMA CheckoutFreeInv ==
    ASSUME PaymentsIInv, NEW t \in PTenants, CheckoutFree(t)
    PROVE  PaymentsIInv'
  <1>1. PaymentsTypeOK' /\ ActiveIsPaid' /\ NoticeInv'
    BY DEF CheckoutFree, PaymentsIInv, PaymentsTypeOK, ActiveIsPaid, NoticeInv
  <1> QED BY <1>1, CheckoutRest DEF CheckoutFree

(* The handler r moves and nothing else happens to the handlers.           *)
LEMMA OneHookMoves ==
    ASSUME PaymentsTypeOK, NEW r \in PReplicas, NEW f, hook' = [hook EXCEPT ![r] = f]
    PROVE  /\ hook'[r] = f
           /\ \A q \in PReplicas : q # r => hook'[q] = hook[q] /\ Work(q)' = Work(q)
           /\ \A pc, i : /\ Between(pc, i) \ {r} \subseteq Between(pc, i)'
                         /\ Between(pc, i)' \ {r} \subseteq Between(pc, i)
                         /\ f.pc # pc => Between(pc, i)' \subseteq Between(pc, i)
                         /\ hook[r].pc # pc => Between(pc, i) \subseteq Between(pc, i)'
  <1>1. hook'[r] = f /\ \A q \in PReplicas : q # r => hook'[q] = hook[q] /\ Work(q)' = Work(q)
    BY DEF PaymentsTypeOK, Work
  <1>2. ASSUME NEW pc, NEW i
        PROVE  /\ Between(pc, i) \ {r} \subseteq Between(pc, i)'
               /\ Between(pc, i)' \ {r} \subseteq Between(pc, i)
               /\ f.pc # pc => Between(pc, i)' \subseteq Between(pc, i)
               /\ hook[r].pc # pc => Between(pc, i) \subseteq Between(pc, i)'
    BY <1>1 DEF Between, HookAt
  <1> QED BY <1>1, <1>2

LEMMA ReceiveInv ==
    ASSUME PaymentsIInv, NEW r \in PReplicas, NEW n \in notices, Receive(r, n)
    PROVE  PaymentsIInv'
  <1> DEFINE f == [pc |-> "mine", notice |-> {n}]
  <1> USE PaymentsAssumption DEF PaymentsIInv
  <1>1. /\ hook[r] = Idle /\ hook' = [hook EXCEPT ![r] = f]
        /\ UNCHANGED <<tenant, processed, notices, pcrashes, paid, applied, activated>>
    BY DEF Receive
  <1>2. PaymentsTypeOK'
    BY <1>1 DEF PaymentsTypeOK
  <1>3. ActiveIsPaid' /\ NoticeInv' /\ RecordedTookEffect'
    BY <1>1 DEF ActiveIsPaid, NoticeInv, RecordedTookEffect
  <1>4. ASSUME NEW q \in PReplicas PROVE HookInv(q)'
    <2>1. CASE q = r
      <3>1. hook'[r] = f /\ f.notice = {n} /\ f.pc = "mine"
        BY <1>1, OneHookMoves
      <3>2. Work(r)' = n
        BY <3>1 DEF Work
      <3> QED BY <1>1, <2>1, <3>1, <3>2 DEF HookInv, HookAt
    <2>2. CASE q # r
      <3>1. hook'[q] = hook[q] /\ Work(q)' = Work(q) /\ HookInv(q)
        BY <1>1, <2>2, OneHookMoves
      <3> QED BY <1>1, <3>1 DEF HookInv, HookAt
    <2> QED BY <2>1, <2>2
  <1>5. ASSUME NEW i \in Invoices PROVE EffectInv(i)'
    <2>1. /\ Between("mark", i) \subseteq Between("mark", i)'
          /\ Between("apply", i)' \subseteq Between("apply", i)
      <3>1. f.pc = "mine" /\ hook[r].pc = "idle"
        BY <1>1 DEF Idle
      <3> QED BY <1>1, <3>1, OneHookMoves
    <2> QED BY <1>1, <2>1, EffectKept
  <1> QED BY <1>2, <1>3, <1>4, <1>5

(* An answer takes a handler off its notice.                               *)
LEMMA AnswerHooks ==
    ASSUME PaymentsIInv, NEW r \in PReplicas, Answer(r), UNCHANGED notices,
           \A i \in Invoices : applied'[i] = applied[i], activated \subseteq activated'
    PROVE  /\ hook' \in [PReplicas -> [pc : {"idle", "mine", "others", "apply", "mark"},
                                       notice : {{}} \cup {{n} : n \in notices'}]]
           /\ \A q \in PReplicas : HookInv(q)'
  <1>1. hook' = [hook EXCEPT ![r] = Idle]
    BY DEF Answer
  <1>2. ASSUME NEW q \in PReplicas PROVE HookInv(q)'
    <2>1. hook'[q] = Idle \/ (hook'[q] = hook[q] /\ Work(q)' = Work(q) /\ HookInv(q))
      BY <1>1, OneHookMoves DEF PaymentsIInv
    <2>2. CASE hook'[q] = Idle
      BY <2>2 DEF HookInv, Idle
    <2>3. CASE hook'[q] = hook[q] /\ Work(q)' = Work(q) /\ HookInv(q)
      BY <2>3 DEF HookInv, HookAt, PaymentsIInv, PaymentsTypeOK, Notice, Idle
    <2> QED BY <2>1, <2>2, <2>3
  <1>3. hook' \in [PReplicas -> [pc : {"idle", "mine", "others", "apply", "mark"},
                                       notice : {{}} \cup {{n} : n \in notices'}]]
    BY <1>1 DEF PaymentsIInv, PaymentsTypeOK, Idle
  <1> QED BY <1>2, <1>3

(* The two checks before an invoice is applied.                            *)
LEMMA CheckInv ==
    ASSUME PaymentsIInv, NEW r \in PReplicas, CheckMine(r) \/ CheckOthers(r)
    PROVE  PaymentsIInv'
  <1> USE PaymentsAssumption DEF PaymentsIInv
  <1>1. UNCHANGED <<tenant, processed, notices, pcrashes, paid, applied, activated>>
    BY DEF CheckMine, CheckOthers
  <1>2. ActiveIsPaid' /\ NoticeInv' /\ RecordedTookEffect'
    BY <1>1 DEF ActiveIsPaid, NoticeInv, RecordedTookEffect
  <1>3. hook[r].pc \in {"mine", "others"}
    BY DEF CheckMine, CheckOthers, HookAt
  <1>4. CASE Answer(r)
    <2>1. PaymentsTypeOK' /\ \A q \in PReplicas : HookInv(q)'
      BY <1>1, <1>4, AnswerHooks DEF PaymentsTypeOK
    <2>2. ASSUME NEW i \in Invoices PROVE EffectInv(i)'
      <3>1. /\ Between("mark", i) \subseteq Between("mark", i)'
            /\ Between("apply", i)' \subseteq Between("apply", i)
        BY <1>3, <1>4, OneHookMoves DEF Idle, Answer
      <3> QED BY <1>1, <3>1, EffectKept
    <2> QED BY <1>2, <2>1, <2>2
  <1>5. CASE ~Answer(r)
    <2> DEFINE to == IF HookAt(r, "mine") THEN "others" ELSE "apply"
               f == [hook[r] EXCEPT !.pc = to]
    <2>1. hook' = [hook EXCEPT ![r] = f] /\ (to = "apply" => processed[Work(r).invoice] = NoTenant)
      BY <1>5 DEF CheckMine, CheckOthers, HookTo, HookAt, PaymentsTypeOK
    <2>2. PaymentsTypeOK'
      BY <1>1, <2>1 DEF PaymentsTypeOK
    <2>3. hook'[r] = f /\ f.pc = to /\ f.notice = hook[r].notice /\ Work(r)' = Work(r)
      BY <2>1, OneHookMoves DEF PaymentsTypeOK, Work
    <2>4. ASSUME NEW q \in PReplicas PROVE HookInv(q)'
      <3>1. CASE q = r
        <4>1. HookInv(r) /\ hook[r] # Idle
          BY <1>3 DEF Idle
        <4>2. to # "idle" /\ to # "mark"
          OBVIOUS
        <4> QED BY <1>1, <2>3, <3>1, <4>1, <4>2 DEF HookInv, HookAt
      <3>2. CASE q # r
        <4>1. hook'[q] = hook[q] /\ Work(q)' = Work(q) /\ HookInv(q)
          BY <2>1, <3>2, OneHookMoves
        <4> QED BY <1>1, <4>1 DEF HookInv, HookAt
      <3> QED BY <3>1, <3>2
    <2>5. ASSUME NEW i \in Invoices PROVE EffectInv(i)'
      <3>1. Between("mark", i) \subseteq Between("mark", i)'
        BY <1>3, <2>1, OneHookMoves
      <3>2. processed[i] # NoTenant => Between("apply", i)' \subseteq Between("apply", i)
        <4>1. Between("apply", i)' \ {r} \subseteq Between("apply", i)
          BY <2>1, OneHookMoves
        <4>2. processed[i] # NoTenant => r \notin Between("apply", i)'
          BY <2>1, <2>3 DEF Between, HookAt
        <4> QED BY <4>1, <4>2
      <3> QED BY <1>1, <3>1, <3>2, EffectKept
    <2> QED BY <1>2, <2>2, <2>4, <2>5
  <1> QED BY <1>4, <1>5

LEMMA WorkType ==
    ASSUME PaymentsIInv, NEW r \in PReplicas, hook[r].pc # "idle"
    PROVE  /\ Work(r) \in notices /\ Work(r) \in Notice
           /\ Work(r).invoice \in Invoices /\ Work(r).tenant \in PTenants
           /\ hook[r] # Idle
  <1>1. hook[r] # Idle /\ HookInv(r)
    BY DEF Idle, PaymentsIInv
  <1> QED BY <1>1 DEF HookInv, PaymentsIInv, PaymentsTypeOK, Notice

(* A notice takes effect: the subscription follows a payment only if the   *)
(* amount was right, and one more effect belongs to one more handler that  *)
(* is about to record the invoice.                                         *)
LEMMA ApplyInv ==
    ASSUME PaymentsIInv, NEW r \in PReplicas, Apply(r)
    PROVE  PaymentsIInv'
  <1> USE PaymentsAssumption DEF PaymentsIInv
  <1> DEFINE n == Work(r)
             f == [hook[r] EXCEPT !.pc = "mark"]
  <1>1. /\ hook[r].pc = "apply" /\ UNCHANGED <<processed, notices, pcrashes, paid>>
        /\ n \in notices /\ n \in Notice /\ n.invoice \in Invoices /\ n.tenant \in PTenants
        /\ HookInv(r) /\ hook[r] # Idle
    BY WorkType DEF Apply, HookAt
  <1>2. CASE n.kind = "payment" /\ ~n.matches
    <2>1. Answer(r) /\ UNCHANGED <<tenant, applied, activated>>
      BY <1>2 DEF Apply, AmountMatchesPlan
    <2>2. PaymentsTypeOK' /\ \A q \in PReplicas : HookInv(q)'
      BY <1>1, <2>1, AnswerHooks DEF PaymentsTypeOK
    <2>3. ActiveIsPaid' /\ NoticeInv' /\ RecordedTookEffect'
      BY <1>1, <2>1 DEF ActiveIsPaid, NoticeInv, RecordedTookEffect
    <2>4. ASSUME NEW i \in Invoices PROVE EffectInv(i)'
      <3>1. /\ Between("mark", i) \subseteq Between("mark", i)'
            /\ Between("apply", i)' \subseteq Between("apply", i)
        <4>1. hook' = [hook EXCEPT ![r] = Idle] /\ Idle.pc = "idle"
          BY <2>1 DEF Answer, Idle
        <4> QED BY <1>1, <4>1, OneHookMoves
      <3> QED BY <1>1, <2>1, <3>1, EffectKept
    <2> QED BY <2>2, <2>3, <2>4
  <1>3. CASE ~(n.kind = "payment" /\ ~n.matches)
    <2>1. /\ tenant' = [tenant EXCEPT ![n.tenant] = Subscription(n, @)]
          /\ applied' = [applied EXCEPT ![n.invoice] = @ + 1]
          /\ activated' = IF n.kind = "payment" THEN activated \cup {n.invoice} ELSE activated
          /\ hook' = [hook EXCEPT ![r] = f]
      BY <1>3 DEF Apply, AmountMatchesPlan, HookTo, PaymentsTypeOK
    <2>2. PaymentsTypeOK'
      <3>1. Subscription(n, tenant[n.tenant]) \in [status : {"inactive", "active", "canceled"},
                                                   plan : {"free", "pro"}]
        BY <1>1 DEF PaymentsTypeOK, Subscription
      <3>2. tenant' \in [PTenants -> [status : {"inactive", "active", "canceled"},
                                      plan : {"free", "pro"}]]
        BY <1>1, <2>1, <3>1 DEF PaymentsTypeOK
      <3>3. applied' \in [Invoices -> Nat] /\ activated' \subseteq Invoices
        BY <1>1, <2>1 DEF PaymentsTypeOK
      <3>4. f \in [pc : {"idle", "mine", "others", "apply", "mark"},
                   notice : {{}} \cup {{m} : m \in notices}]
        BY <1>1 DEF PaymentsTypeOK
      <3> QED BY <1>1, <2>1, <3>2, <3>3, <3>4 DEF PaymentsTypeOK
    <2>3. ActiveIsPaid'
      <3>1. Subscription(n, tenant[n.tenant]) = [status |-> "active", plan |-> "pro"]
               => n.tenant \in paid
        BY <1>1, <1>3 DEF Subscription, NoticeInv, Notice, Kinds, ActiveIsPaid, PaymentsTypeOK
      <3> QED BY <1>1, <2>1, <3>1 DEF ActiveIsPaid, PaymentsTypeOK
    <2>4. NoticeInv' /\ RecordedTookEffect'
      BY <1>1, <2>1 DEF NoticeInv, RecordedTookEffect, PaymentsTypeOK
    <2>5. hook'[r] = f /\ f.pc = "mark" /\ f.notice = hook[r].notice /\ Work(r)' = n
      BY <2>1, OneHookMoves DEF PaymentsTypeOK, Work
    <2>6. ASSUME NEW q \in PReplicas PROVE HookInv(q)'
      <3>1. CASE q = r
        BY <1>1, <2>1, <2>5, <3>1 DEF HookInv, HookAt, PaymentsTypeOK
      <3>2. CASE q # r
        <4>1. hook'[q] = hook[q] /\ Work(q)' = Work(q) /\ HookInv(q)
          BY <2>1, <3>2, OneHookMoves
        <4>2. hook[q] # Idle => Work(q) \in Notice
          BY <4>1 DEF HookInv, PaymentsTypeOK
        <4> QED BY <1>1, <2>1, <4>1, <4>2 DEF HookInv, HookAt, PaymentsTypeOK, Notice
      <3> QED BY <3>1, <3>2
    <2>7. ASSUME NEW i \in Invoices PROVE EffectInv(i)'
      <3>1. /\ Between("mark", i) \subseteq Between("mark", i)'
            /\ Between("apply", i)' \subseteq Between("apply", i)
        BY <1>1, <2>1, <2>5, OneHookMoves
      <3>2. CASE i # n.invoice
        BY <1>1, <2>1, <3>1, <3>2, EffectKept DEF PaymentsTypeOK
      <3>3. CASE i = n.invoice
        <4>1. applied'[i] = applied[i] + 1 /\ applied[i] \in Nat /\ pcrashes \in Nat
          BY <1>1, <2>1, <3>3 DEF PaymentsTypeOK
        <4>2. Between("mark", i)' = Between("mark", i) \cup {r} /\ r \notin Between("mark", i)
          <5>1. r \in Between("mark", i)' /\ r \notin Between("mark", i)
            BY <1>1, <2>5, <3>3 DEF Between, HookAt
          <5>2. Between("mark", i)' \ {r} \subseteq Between("mark", i)
            BY <2>1, OneHookMoves
          <5> QED BY <3>1, <5>1, <5>2
        <4>3. Between("apply", i)' \subseteq Between("apply", i) \ {r} /\ r \in Between("apply", i)
          BY <1>1, <2>5, <3>1, <3>3 DEF Between, HookAt
        <4>4. /\ Cardinality(Between("mark", i)') = Cardinality(Between("mark", i)) + 1
              /\ Cardinality(Between("mark", i)) \in Nat
          BY <4>2, BetweenCount, AddOneCount
        <4>5. /\ Cardinality(Between("apply", i)') + 1 <= Cardinality(Between("apply", i))
              /\ Cardinality(Between("apply", i)') \in Nat
              /\ Cardinality(Between("apply", i)) \in Nat
          <5>1. IsFiniteSet(Between("apply", i))
            BY BetweenCount
          <5>2. /\ IsFiniteSet(Between("apply", i) \ {r})
                /\ Cardinality(Between("apply", i) \ {r}) \in Nat
                /\ Cardinality(Between("apply", i)) \in Nat
                /\ Cardinality(Between("apply", i) \ {r}) + 1 = Cardinality(Between("apply", i))
            BY <4>3, <5>1, DropOneCount
          <5>3. /\ Cardinality(Between("apply", i)') \in Nat
                /\ Cardinality(Between("apply", i)') <= Cardinality(Between("apply", i) \ {r})
            BY <4>3, <5>2, SubsetCount
          <5> QED BY <5>2, <5>3
        <4>6. Cardinality(PReplicas) \in Nat
          BY FS_CardinalityType
        <4> QED BY <1>1, <4>1, <4>4, <4>5, <4>6 DEF EffectInv
      <3> QED BY <3>2, <3>3
    <2> QED BY <2>2, <2>3, <2>4, <2>6, <2>7
  <1> QED BY <1>2, <1>3

(* The invoice is recorded: what other handlers may still do to it is      *)
(* bounded by their number.                                                *)
LEMMA MarkInv ==
    ASSUME PaymentsIInv, NEW r \in PReplicas, Mark(r)
    PROVE  PaymentsIInv'
  <1> USE PaymentsAssumption DEF PaymentsIInv
  <1> DEFINE n == Work(r)
  <1>1. /\ hook[r].pc = "mark" /\ UNCHANGED <<tenant, notices, pcrashes, paid, applied, activated>>
        /\ n \in notices /\ n \in Notice /\ n.invoice \in Invoices /\ n.tenant \in PTenants
        /\ HookInv(r) /\ hook[r] # Idle /\ Answer(r)
        /\ processed' = [processed EXCEPT ![n.invoice] = IF @ = NoTenant THEN n.tenant ELSE @]
    BY WorkType DEF Mark, HookAt
  <1>2. processed' \in [Invoices -> PTenants \cup {NoTenant}]
    BY <1>1 DEF PaymentsTypeOK
  <1>3. PaymentsTypeOK' /\ \A q \in PReplicas : HookInv(q)'
    BY <1>1, <1>2, AnswerHooks DEF PaymentsTypeOK
  <1>4. ActiveIsPaid' /\ NoticeInv'
    BY <1>1 DEF ActiveIsPaid, NoticeInv
  <1>5. RecordedTookEffect'
    <2>1. applied[n.invoice] > 0 /\ (n.kind = "payment" => n.invoice \in activated)
      BY <1>1 DEF HookInv, HookAt
    <2> QED BY <1>1, <2>1 DEF RecordedTookEffect, PaymentsTypeOK
  <1>6. ASSUME NEW i \in Invoices PROVE EffectInv(i)'
    <2>1. /\ Between("mark", i) \ {r} \subseteq Between("mark", i)'
          /\ Between("apply", i)' \subseteq Between("apply", i)
      BY <1>1, OneHookMoves DEF Idle, Answer
    <2>2. CASE i # n.invoice
      <3>1. r \notin Between("mark", i)
        BY <2>2 DEF Between
      <3>2. Between("mark", i) \subseteq Between("mark", i)'
        BY <2>1, <3>1
      <3> QED BY <1>1, <2>1, <2>2, <3>2, EffectKept DEF PaymentsTypeOK
    <2>3. CASE i = n.invoice
      <3>1. processed'[i] # NoTenant
        BY <1>1, <2>3 DEF PaymentsTypeOK
      <3>2. /\ Cardinality(Between("apply", i)') <= Cardinality(Between("apply", i))
            /\ Cardinality(Between("apply", i)') \in Nat
        BY <2>1, BetweenCount, SubsetCount
      <3>3. /\ Cardinality(Between("mark", i)) \in Nat /\ Cardinality(Between("apply", i)) \in Nat
            /\ Cardinality(PReplicas) \in Nat
            /\ Cardinality(Between("mark", i)) + Cardinality(Between("apply", i))
                  <= Cardinality(PReplicas)
        BY BetweenCount
      <3>4. applied[i] \in Nat /\ pcrashes \in Nat /\ EffectInv(i)
        BY DEF PaymentsTypeOK
      <3> QED BY <1>1, <3>1, <3>2, <3>3, <3>4 DEF EffectInv
    <2> QED BY <2>2, <2>3
  <1> QED BY <1>3, <1>4, <1>5, <1>6

LEMMA HookDiesInv ==
    ASSUME PaymentsIInv, NEW r \in PReplicas, HookDies(r)
    PROVE  PaymentsIInv'
  <1> USE PaymentsAssumption DEF PaymentsIInv
  <1>1. /\ UNCHANGED <<tenant, processed, notices, paid, applied, activated>>
        /\ Answer(r) /\ pcrashes' = pcrashes + 1 /\ pcrashes < MaxPCrashes
    BY DEF HookDies
  <1>2. PaymentsTypeOK' /\ \A q \in PReplicas : HookInv(q)'
    BY <1>1, AnswerHooks DEF PaymentsTypeOK
  <1>3. ActiveIsPaid' /\ NoticeInv' /\ RecordedTookEffect'
    BY <1>1 DEF ActiveIsPaid, NoticeInv, RecordedTookEffect
  <1>4. ASSUME NEW i \in Invoices PROVE EffectInv(i)'
    <2>1. /\ Between("mark", i) \ {r} \subseteq Between("mark", i)'
          /\ Between("apply", i)' \subseteq Between("apply", i)
      BY <1>1, OneHookMoves DEF Idle, Answer
    <2>2. /\ Cardinality(Between("mark", i)) <= Cardinality(Between("mark", i)') + 1
          /\ Cardinality(Between("mark", i)) \in Nat /\ Cardinality(Between("mark", i)') \in Nat
      <3>1. IsFiniteSet(Between("mark", i)')
        BY SubsetCount, Between("mark", i)' \subseteq PReplicas DEF Between
      <3>2. /\ Cardinality(Between("mark", i) \ {r}) <= Cardinality(Between("mark", i)')
            /\ Cardinality(Between("mark", i)') \in Nat
        BY <2>1, <3>1, SubsetCount
      <3>3. /\ Cardinality(Between("mark", i) \ {r}) + 1 >= Cardinality(Between("mark", i))
            /\ Cardinality(Between("mark", i) \ {r}) \in Nat
            /\ Cardinality(Between("mark", i)) \in Nat
        BY BetweenCount, DropOneCount
      <3> QED BY <3>2, <3>3
    <2>3. /\ Cardinality(Between("apply", i)') <= Cardinality(Between("apply", i))
          /\ Cardinality(Between("apply", i)') \in Nat /\ Cardinality(Between("apply", i)) \in Nat
      BY <2>1, BetweenCount, SubsetCount
    <2>4. applied[i] \in Nat /\ pcrashes \in Nat /\ EffectInv(i) /\ Cardinality(PReplicas) \in Nat
      BY FS_CardinalityType DEF PaymentsTypeOK
    <2> QED BY <1>1, <2>2, <2>3, <2>4 DEF EffectInv
  <1> QED BY <1>2, <1>3, <1>4

LEMMA PaymentsStutters == PaymentsIInv /\ UNCHANGED pvars => PaymentsIInv'
  <1> SUFFICES ASSUME PaymentsIInv, UNCHANGED pvars PROVE PaymentsIInv'
    OBVIOUS
  <1> USE DEF PaymentsIInv, pvars
  <1>1. PaymentsTypeOK' /\ ActiveIsPaid' /\ NoticeInv' /\ RecordedTookEffect'
    BY DEF PaymentsTypeOK, ActiveIsPaid, NoticeInv, RecordedTookEffect
  <1>2. ASSUME NEW q \in PReplicas PROVE HookInv(q)'
    BY DEF HookInv, HookAt, Work
  <1>3. ASSUME NEW i \in Invoices PROVE EffectInv(i)'
    BY DEF EffectInv, Between, HookAt, Work
  <1> QED BY <1>1, <1>2, <1>3

LEMMA PaymentsNextInv == PaymentsIInv /\ [PaymentsNext]_pvars => PaymentsIInv'
  <1> SUFFICES ASSUME PaymentsIInv, PaymentsNext PROVE PaymentsIInv'
    BY PaymentsStutters
  <1> QED BY CheckoutInv, CheckoutFreeInv, ReceiveInv, CheckInv, ApplyInv, MarkInv, HookDiesInv
          DEF PaymentsNext

LEMMA PaymentsIsSafe == PaymentsIInv => PaymentsInv
  <1> SUFFICES ASSUME PaymentsIInv PROVE RepeatsHaveNoEffect
    BY DEF PaymentsInv, PaymentsIInv
  <1> SUFFICES ASSUME NEW i \in Invoices PROVE applied[i] <= Cardinality(PReplicas) + pcrashes
    BY DEF RepeatsHaveNoEffect
  <1>1. EffectInv(i) /\ applied[i] \in Nat /\ pcrashes \in Nat
    BY PaymentsAssumption DEF PaymentsIInv, PaymentsTypeOK
  <1> QED BY <1>1, BetweenCount DEF EffectInv

-----------------------------------------------------------------------------
(* Stripe.  The deliveries of an event that are being handled.             *)
InHand(e) == {h \in Handlers : stripe[h].event = e}
Enqueuing(h, e) == stripe[h].pc = "enqueue" /\ stripe[h].event = e

HandlerInv(h) ==
    IF stripe[h].pc = "idle" THEN stripe[h].event = NoEvent
    ELSE stripe[h].event \in StripeEvents /\ sends[stripe[h].event] > 0

(* A claimed event is in the stream or one handler is about to put it      *)
(* there; an unclaimed one is neither, and is not answered.                *)
EventInv(e) ==
    /\ stream[e] <= 1
    /\ stream[e] = 1 => e \in seen /\ sends[e] > 0
    /\ \A h \in Handlers : Enqueuing(h, e) =>
          e \in seen /\ stream[e] = 0 /\ \A g \in Handlers : Enqueuing(g, e) => g = h
    /\ synced[e] + Cardinality(InHand(e)) <= sends[e]

ServedInv(e) ==
    sfaults = 0 /\ redis =>
        /\ e \in seen => stream[e] = 1 \/ \E h \in Handlers : Enqueuing(h, e)
        /\ e \in acked => e \in seen
        /\ \A h \in Handlers : stripe[h].pc = "sync" /\ stripe[h].event = e => e \in seen

StripeIInv ==
    /\ StripeTypeOK
    /\ \A h \in Handlers : HandlerInv(h)
    /\ \A e \in StripeEvents : EventInv(e) /\ ServedInv(e)

LEMMA InHandCount ==
    ASSUME NEW e
    PROVE  /\ IsFiniteSet(InHand(e)) /\ Cardinality(InHand(e)) \in Nat
           /\ IsFiniteSet(InHand(e)') /\ Cardinality(InHand(e)') \in Nat
  <1>1. InHand(e) \subseteq Handlers /\ InHand(e)' \subseteq Handlers
    BY DEF InHand
  <1> QED BY <1>1, SubsetCount, StripeAssumption

LEMMA StripeInitInv == StripeInit => StripeIInv
  <1> SUFFICES ASSUME StripeInit PROVE StripeIInv
    OBVIOUS
  <1> USE StripeAssumption DEF StripeInit
  <1>1. StripeTypeOK /\ \A h \in Handlers : HandlerInv(h)
    BY DEF StripeTypeOK, HandlerInv, IdleHandler
  <1>2. ASSUME NEW e \in StripeEvents PROVE EventInv(e) /\ ServedInv(e)
    <2>1. InHand(e) = {}
      BY DEF InHand, IdleHandler
    <2>2. Cardinality(InHand(e)) = 0
      BY <2>1, FS_EmptySet
    <2> QED BY <2>2 DEF EventInv, ServedInv, Enqueuing, IdleHandler
  <1> QED BY <1>1, <1>2 DEF StripeIInv

(* What is counted of an event stays below its deliveries when no handler  *)
(* takes it up.                                                            *)
LEMMA SyncsKept ==
    ASSUME StripeIInv, NEW e \in StripeEvents, InHand(e)' \subseteq InHand(e),
           synced'[e] = synced[e], sends'[e] = sends[e]
    PROVE  synced'[e] + Cardinality(InHand(e)') <= sends'[e]
  <1>1. /\ Cardinality(InHand(e)') <= Cardinality(InHand(e))
        /\ Cardinality(InHand(e)) \in Nat /\ Cardinality(InHand(e)') \in Nat
    BY InHandCount, SubsetCount
  <1>2. synced[e] \in Nat /\ sends[e] \in Nat /\ synced[e] + Cardinality(InHand(e)) <= sends[e]
    BY StripeAssumption DEF StripeIInv, StripeTypeOK, EventInv
  <1> QED BY <1>1, <1>2

LEMMA DeliverInv ==
    ASSUME StripeIInv, NEW h \in Handlers, NEW e \in StripeEvents, Deliver(h, e)
    PROVE  StripeIInv'
  <1> USE StripeAssumption DEF StripeIInv
  <1>1. StripeTypeOK'
    BY DEF Deliver, StripeTypeOK
  <1>2. ASSUME NEW g \in Handlers PROVE HandlerInv(g)'
    BY DEF Deliver, HandlerInv, StripeTypeOK
  <1>3. ASSUME NEW x \in StripeEvents PROVE EventInv(x)'
    <2>1. synced'[x] + Cardinality(InHand(x)') <= sends'[x]
      <3>1. CASE x = e
        <4>1. h \notin InHand(x) /\ InHand(x)' = InHand(x) \cup {h}
          BY <3>1 DEF InHand, Deliver, StripeTypeOK, IdleHandler
        <4>2. Cardinality(InHand(x)') = Cardinality(InHand(x)) + 1 /\ Cardinality(InHand(x)) \in Nat
          BY <4>1, InHandCount, AddOneCount
        <4>3. sends'[x] = sends[x] + 1 /\ synced'[x] = synced[x]
              /\ synced[x] \in Nat /\ sends[x] \in Nat
          BY <3>1 DEF Deliver, StripeTypeOK
        <4> QED BY <4>2, <4>3 DEF EventInv
      <3>2. CASE x # e
        <4>1. InHand(x)' \subseteq InHand(x)
          BY <3>2 DEF InHand, Deliver, StripeTypeOK
        <4> QED BY <3>2, <4>1, SyncsKept DEF Deliver, StripeTypeOK
      <3> QED BY <3>1, <3>2
    <2>2. \A g \in Handlers : Enqueuing(g, x)' => Enqueuing(g, x)
      BY DEF Deliver, Enqueuing, StripeTypeOK
    <2>3. EventInv(x) /\ stream' = stream /\ seen' = seen /\ (sends[x] > 0 => sends'[x] > 0)
      BY DEF Deliver, StripeTypeOK
    <2> QED BY <2>1, <2>2, <2>3 DEF EventInv
  <1>4. ASSUME NEW x \in StripeEvents PROVE ServedInv(x)'
    <2>1. \A g \in Handlers : Enqueuing(g, x) => Enqueuing(g, x)'
      BY DEF Deliver, Enqueuing, StripeTypeOK, IdleHandler
    <2>2. \A g \in Handlers : stripe'[g].pc = "sync" => stripe'[g] = stripe[g]
      BY DEF Deliver, StripeTypeOK
    <2> QED BY <2>1, <2>2 DEF Deliver, ServedInv
  <1> QED BY <1>1, <1>2, <1>3, <1>4

LEMMA ClaimEventInv ==
    ASSUME StripeIInv, NEW h \in Handlers, ClaimEvent(h)
    PROVE  StripeIInv'
  <1> USE StripeAssumption DEF StripeIInv
  <1> DEFINE e == stripe[h].event
  <1>1. e \in StripeEvents /\ HandlerInv(h) /\ stripe[h].pc = "claim"
        /\ UNCHANGED <<redis, stream, sends, synced, sfaults>>
    BY DEF HandlerInv, ClaimEvent, HandlerAt
  <1>2. StripeTypeOK'
    BY <1>1 DEF ClaimEvent, StripeTypeOK, HandlerTo, IdleHandler
  <1>3. ASSUME NEW g \in Handlers PROVE HandlerInv(g)'
    BY <1>1 DEF ClaimEvent, HandlerInv, StripeTypeOK, HandlerTo, IdleHandler
  <1>4. CASE redis /\ e \in seen
    <2>1. /\ acked' = acked \cup {e} /\ seen' = seen
          /\ stripe' = [stripe EXCEPT ![h] = IdleHandler]
      BY <1>4 DEF ClaimEvent
    <2>2. ASSUME NEW x \in StripeEvents PROVE EventInv(x)'
      <3>1. InHand(x)' \subseteq InHand(x) /\ \A g \in Handlers : Enqueuing(g, x)' => Enqueuing(g, x)
        BY <2>1 DEF InHand, StripeTypeOK, IdleHandler, Enqueuing
      <3>2. synced'[x] + Cardinality(InHand(x)') <= sends'[x]
        BY <1>1, <3>1, SyncsKept
      <3> QED BY <1>1, <2>1, <3>1, <3>2 DEF EventInv
    <2>3. ASSUME NEW x \in StripeEvents PROVE ServedInv(x)'
      <3>1. \A g \in Handlers : Enqueuing(g, x) => Enqueuing(g, x)'
        BY <1>1, <2>1 DEF Enqueuing, StripeTypeOK
      <3>2. \A g \in Handlers : stripe'[g].pc = "sync" => stripe'[g] = stripe[g]
        BY <2>1 DEF StripeTypeOK, IdleHandler
      <3> QED BY <1>1, <1>4, <2>1, <3>1, <3>2 DEF ServedInv
    <2> QED BY <1>2, <1>3, <2>2, <2>3
  <1>5. CASE ~(redis /\ e \in seen)
    <2>1. /\ acked' = acked /\ seen' = IF redis THEN seen \cup {e} ELSE seen
          /\ stripe' = [stripe EXCEPT ![h].pc = IF redis THEN "enqueue" ELSE "sync"]
      BY <1>5 DEF ClaimEvent, HandlerTo
    <2>2. \A g \in Handlers : g # h => stripe'[g] = stripe[g]
      BY <2>1 DEF StripeTypeOK
    <2>3. stripe'[h].event = e /\ stripe'[h].pc = IF redis THEN "enqueue" ELSE "sync"
      BY <2>1 DEF StripeTypeOK
    <2>4. ASSUME NEW x \in StripeEvents PROVE EventInv(x)'
      <3>1. InHand(x)' \subseteq InHand(x)
        BY <2>1 DEF InHand, StripeTypeOK
      <3>2. synced'[x] + Cardinality(InHand(x)') <= sends'[x]
        BY <1>1, <3>1, SyncsKept
      <3>3. CASE x = e
        <4>2. EventInv(x) /\ stream[x] \in Nat
          BY DEF StripeTypeOK
        <4>1. redis => stream[x] = 0 /\ \A g \in Handlers : ~Enqueuing(g, x)
          <5>1. redis => x \notin seen
            BY <1>5, <3>3
          <5> QED BY <4>2, <5>1 DEF EventInv
        <4> QED BY <1>1, <2>1, <2>2, <2>3, <3>2, <3>3, <4>1, <4>2 DEF EventInv, Enqueuing
      <3>4. CASE x # e
        <4>1. \A g \in Handlers : Enqueuing(g, x)' <=> Enqueuing(g, x)
          BY <2>2, <2>3, <3>4 DEF Enqueuing
        <4> QED BY <1>1, <2>1, <3>2, <4>1 DEF EventInv
      <3> QED BY <3>3, <3>4
    <2>5. ASSUME NEW x \in StripeEvents PROVE ServedInv(x)'
      <3>1. CASE redis
        <4>1. \A g \in Handlers : stripe'[g].pc = "sync" => stripe'[g] = stripe[g]
          BY <2>2, <2>3, <3>1
        <4>2. \A g \in Handlers : Enqueuing(g, x) => Enqueuing(g, x)'
          BY <1>1, <2>2 DEF Enqueuing
        <4>3. Enqueuing(h, e)'
          BY <2>3, <3>1 DEF Enqueuing
        <4> QED BY <1>1, <2>1, <3>1, <4>1, <4>2, <4>3 DEF ServedInv
      <3>2. CASE ~redis
        BY <1>1, <3>2 DEF ServedInv
      <3> QED BY <3>1, <3>2
    <2> QED BY <1>2, <1>3, <2>4, <2>5
  <1> QED BY <1>4, <1>5

LEMMA EnqueueEventInv ==
    ASSUME StripeIInv, NEW h \in Handlers, EnqueueEvent(h)
    PROVE  StripeIInv'
  <1> USE StripeAssumption DEF StripeIInv
  <1> DEFINE e == stripe[h].event
  <1>1. /\ e \in StripeEvents /\ HandlerInv(h) /\ Enqueuing(h, e) /\ EventInv(e)
        /\ UNCHANGED <<redis, seen, sends, acked, synced, sfaults>>
        /\ stream' = [stream EXCEPT ![e] = @ + 1] /\ stripe' = [stripe EXCEPT ![h].pc = "sync"]
    BY DEF HandlerInv, EnqueueEvent, HandlerAt, HandlerTo, Enqueuing
  <1>2. stream[e] = 0 /\ sends[e] > 0 /\ e \in seen /\ sends[e] \in 0..MaxSends
    BY <1>1 DEF EventInv, HandlerInv, Enqueuing, StripeTypeOK
  <1>3. StripeTypeOK'
    BY <1>1, <1>2 DEF StripeTypeOK
  <1>4. /\ \A g \in Handlers : g # h => stripe'[g] = stripe[g]
        /\ stripe'[h].event = e /\ stripe'[h].pc = "sync"
    BY <1>1 DEF StripeTypeOK
  <1>5. ASSUME NEW g \in Handlers PROVE HandlerInv(g)'
    BY <1>1, <1>2, <1>4 DEF HandlerInv
  <1>6. ASSUME NEW x \in StripeEvents PROVE EventInv(x)'
    <2>1. InHand(x)' \subseteq InHand(x)
      BY <1>4 DEF InHand
    <2>2. synced'[x] + Cardinality(InHand(x)') <= sends'[x]
      BY <1>1, <2>1, SyncsKept
    <2>3. CASE x = e
      <3>1. \A g \in Handlers : ~Enqueuing(g, x)'
        BY <1>1, <1>4, <2>3 DEF EventInv, Enqueuing
      <3>2. stream'[x] = 1
        BY <1>1, <1>2, <2>3 DEF StripeTypeOK
      <3> QED BY <1>1, <1>2, <2>2, <2>3, <3>1, <3>2 DEF EventInv
    <2>4. CASE x # e
      <3>1. stream'[x] = stream[x] /\ EventInv(x)
        BY <1>1, <2>4 DEF StripeTypeOK
      <3>2. \A g \in Handlers : Enqueuing(g, x)' <=> Enqueuing(g, x)
        BY <1>4, <2>4 DEF Enqueuing
      <3> QED BY <1>1, <2>2, <3>1, <3>2 DEF EventInv
    <2> QED BY <2>3, <2>4
  <1>7. ASSUME NEW x \in StripeEvents PROVE ServedInv(x)'
    <2>1. CASE x = e
      <3>1. stream'[x] = 1
        BY <1>1, <1>2, <2>1 DEF StripeTypeOK
      <3> QED BY <1>1, <1>2, <2>1, <3>1 DEF ServedInv
    <2>2. CASE x # e
      <3>1. stream'[x] = stream[x] /\ ServedInv(x)
        BY <1>1, <2>2 DEF StripeTypeOK
      <3>2. \A g \in Handlers : Enqueuing(g, x)' <=> Enqueuing(g, x)
        BY <1>4, <2>2 DEF Enqueuing
      <3>3. \A g \in Handlers : stripe'[g].pc = "sync" /\ stripe'[g].event = x =>
               stripe[g].pc = "sync" /\ stripe[g].event = x
        BY <1>4, <2>2
      <3> QED BY <1>1, <3>1, <3>2, <3>3 DEF ServedInv
    <2> QED BY <2>1, <2>2
  <1> QED BY <1>3, <1>5, <1>6, <1>7

LEMMA SyncTenantInv ==
    ASSUME StripeIInv, NEW h \in Handlers, SyncTenant(h)
    PROVE  StripeIInv'
  <1> USE StripeAssumption DEF StripeIInv
  <1> DEFINE e == stripe[h].event
  <1>1. /\ e \in StripeEvents /\ stripe[h].pc = "sync"
        /\ UNCHANGED <<redis, seen, stream, sends, sfaults>> /\ acked' = acked \cup {e}
        /\ stripe' = [stripe EXCEPT ![h] = IdleHandler]
    BY DEF HandlerInv, SyncTenant, HandlerAt
  <1>2. PICK n \in {0, 1} : synced' = [synced EXCEPT ![e] = @ + n]
    BY DEF SyncTenant
  <1>3. /\ \A g \in Handlers : g # h => stripe'[g] = stripe[g]
        /\ stripe'[h].event = NoEvent /\ stripe'[h].pc = "idle"
    BY <1>1 DEF StripeTypeOK, IdleHandler
  <1>4. ASSUME NEW g \in Handlers PROVE HandlerInv(g)'
    BY <1>1, <1>3 DEF HandlerInv
  <1>5. ASSUME NEW x \in StripeEvents PROVE EventInv(x)'
    <2>1. synced'[x] + Cardinality(InHand(x)') <= sends'[x]
      <3>1. CASE x = e
        <4>1. h \in InHand(x) /\ InHand(x)' = InHand(x) \ {h}
          BY <1>3, <3>1 DEF InHand
        <4>2. /\ Cardinality(InHand(x)') + 1 = Cardinality(InHand(x))
              /\ Cardinality(InHand(x)) \in Nat /\ Cardinality(InHand(x)') \in Nat
          BY <4>1, InHandCount, DropOneCount
        <4>3. synced'[x] = synced[x] + n /\ synced[x] \in Nat /\ sends[x] \in Nat /\ EventInv(x)
          BY <1>2, <3>1 DEF StripeTypeOK
        <4> QED BY <1>1, <4>2, <4>3 DEF EventInv
      <3>2. CASE x # e
        <4>1. InHand(x)' \subseteq InHand(x) /\ synced'[x] = synced[x]
          BY <1>2, <1>3, <3>2 DEF InHand, StripeTypeOK
        <4> QED BY <1>1, <4>1, SyncsKept
      <3> QED BY <3>1, <3>2
    <2>2. \A g \in Handlers : Enqueuing(g, x)' => Enqueuing(g, x)
      BY <1>3 DEF Enqueuing
    <2> QED BY <1>1, <2>1, <2>2 DEF EventInv
  <1>6. StripeTypeOK'
    <2>1. \A x \in StripeEvents : synced'[x] \in Nat /\ synced'[x] <= sends'[x] /\ sends'[x] \in 0..MaxSends
      <3> SUFFICES ASSUME NEW x \in StripeEvents
                   PROVE  synced'[x] \in Nat /\ synced'[x] <= sends'[x] /\ sends'[x] \in 0..MaxSends
        OBVIOUS
      <3>1. synced'[x] \in Nat /\ sends'[x] \in 0..MaxSends
        BY <1>1, <1>2 DEF StripeTypeOK
      <3> QED BY <1>5, <3>1, InHandCount DEF EventInv
    <2>2. synced' \in [StripeEvents -> 0..MaxSends]
      <3>1. synced' = [x \in StripeEvents |-> synced'[x]]
        BY <1>2 DEF StripeTypeOK
      <3>2. \A x \in StripeEvents : synced'[x] \in 0..MaxSends
        BY <2>1
      <3> QED BY <3>1, <3>2
    <2> QED BY <1>1, <2>2 DEF StripeTypeOK, IdleHandler
  <1>7. ASSUME NEW x \in StripeEvents PROVE ServedInv(x)'
    <2>1. \A g \in Handlers : Enqueuing(g, x) => Enqueuing(g, x)'
      BY <1>1, <1>3 DEF Enqueuing
    <2>2. \A g \in Handlers : stripe'[g].pc = "sync" => stripe'[g] = stripe[g]
      BY <1>3
    <2> QED BY <1>1, <2>1, <2>2 DEF ServedInv
  <1> QED BY <1>4, <1>5, <1>6, <1>7

(* A fault ends handlers; what is claimed stays claimed.                   *)
LEMMA StripeFaultInv ==
    ASSUME StripeIInv, StripeRestarts \/ \E h \in Handlers : RedisRaises(h)
    PROVE  StripeIInv'
  <1> USE StripeAssumption DEF StripeIInv
  <1>1. /\ UNCHANGED <<seen, stream, sends, acked, synced>>
        /\ sfaults' = sfaults + 1 /\ sfaults < MaxStripeFaults /\ redis' \in BOOLEAN
    BY DEF StripeRestarts, RedisRaises, StripeTypeOK
  <1>2. /\ stripe' \in [Handlers -> [pc : {"idle", "claim", "enqueue", "sync"},
                                     event : StripeEvents \cup {NoEvent}]]
        /\ \A g \in Handlers : stripe'[g] = stripe[g] \/ stripe'[g] = IdleHandler
    BY DEF StripeRestarts, RedisRaises, StripeTypeOK, IdleHandler
  <1>3. StripeTypeOK' /\ sfaults' # 0
    BY <1>1, <1>2 DEF StripeTypeOK
  <1>4. ASSUME NEW g \in Handlers PROVE HandlerInv(g)'
    BY <1>1, <1>2 DEF HandlerInv, IdleHandler
  <1>5. ASSUME NEW x \in StripeEvents PROVE EventInv(x)' /\ ServedInv(x)'
    <2>1. InHand(x)' \subseteq InHand(x) /\ \A g \in Handlers : Enqueuing(g, x)' => Enqueuing(g, x)
      BY <1>2 DEF InHand, Enqueuing, IdleHandler
    <2>2. synced'[x] + Cardinality(InHand(x)') <= sends'[x]
      BY <1>1, <2>1, SyncsKept
    <2> QED BY <1>1, <1>3, <2>1, <2>2 DEF EventInv, ServedInv
  <1> QED BY <1>3, <1>4, <1>5

LEMMA StripeNextInv == StripeIInv /\ [StripeNext]_svars => StripeIInv'
  <1> SUFFICES ASSUME StripeIInv, [StripeNext]_svars PROVE StripeIInv'
    OBVIOUS
  <1>1. CASE UNCHANGED svars
    <2> USE <1>1 DEF StripeIInv, svars
    <2>1. StripeTypeOK' /\ \A h \in Handlers : HandlerInv(h)'
      BY DEF StripeTypeOK, HandlerInv
    <2>2. ASSUME NEW e \in StripeEvents PROVE EventInv(e)' /\ ServedInv(e)'
      BY DEF EventInv, ServedInv, InHand, Enqueuing
    <2> QED BY <2>1, <2>2
  <1> QED BY <1>1, DeliverInv, ClaimEventInv, EnqueueEventInv, SyncTenantInv, StripeFaultInv
          DEF StripeNext

LEMMA StripeIsSafe == StripeIInv => StripeInv
  <1> SUFFICES ASSUME StripeIInv PROVE StripeInv
    OBVIOUS
  <1>1. StreamedOnce
    BY DEF StripeIInv, EventInv, StreamedOnce
  <1>2. \A h \in Handlers, e \in StripeEvents :
           Enqueuing(h, e) => stripe[h] = [pc |-> "enqueue", event |-> e]
    BY DEF Enqueuing, StripeIInv, StripeTypeOK
  <1>3. AnsweredIsStreamed
    BY <1>2 DEF StripeIInv, ServedInv, AnsweredIsStreamed, StripeTypeOK
  <1> QED BY <1>1, <1>3 DEF StripeInv

-----------------------------------------------------------------------------
(* Wallets.                                                                *)
DepositRow == [n : Nat, wallet : WalletIds, type : WTypes \cup {"none"}, index : Nat,
               given : BOOLEAN]
DepositsOf(w) == {d \in deposits : d.wallet = w}

(* Deposits are numbered as they come; an index that the RPC gave is below *)
(* the number it gives next; the RPC and the adapter count no further than *)
(* the deposits, and neither does what a suspended call has read.          *)
DepositsInv ==
    /\ deposits \subseteq DepositRow /\ IsFiniteSet(deposits)
    /\ Cardinality(deposits) <= MaxDeposits
    /\ \A d \in deposits : d.n <= Cardinality(deposits)
    /\ \A d \in deposits : d.given => d.index < rpcNext[d.wallet]

WalletInv(w) ==
    /\ wallets[w].adapter => w \in checkedOk
    /\ counted[w] <= Cardinality(DepositsOf(w))
    /\ rpcNext[w] <= Cardinality(DepositsOf(w))

CallerInv(c) ==
    /\ caller[c].at # "idle" => caller[c].wallet \in WalletIds
    /\ caller[c].at = "rpc" => /\ caller[c].index <= Cardinality(DepositsOf(caller[c].wallet))
                               /\ wallets[caller[c].wallet].adapter

WalletsIInv ==
    /\ WalletsTypeOK /\ DepositsInv /\ SubaddressesDiffer /\ AddressesAreBacked
    /\ \A w \in WalletIds : WalletInv(w)
    /\ \A c \in Callers : CallerInv(c)

LEMMA DepositsCount ==
    ASSUME DepositsInv, NEW w
    PROVE  /\ IsFiniteSet(DepositsOf(w)) /\ Cardinality(DepositsOf(w)) \in Nat
           /\ Cardinality(deposits) \in Nat
           /\ Cardinality(DepositsOf(w)) <= Cardinality(deposits)
  <1>1. DepositsOf(w) \subseteq deposits
    BY DEF DepositsOf
  <1> QED BY <1>1, SubsetCount DEF DepositsInv

LEMMA WalletsInitInv == WalletsInit => WalletsIInv
  <1> SUFFICES ASSUME WalletsInit PROVE WalletsIInv
    OBVIOUS
  <1> USE WalletsAssumption DEF WalletsInit
  <1>1. WalletsTypeOK
    BY DEF WalletsTypeOK, NotMade, Rest
  <1>2. DepositsInv /\ SubaddressesDiffer /\ AddressesAreBacked
    BY FS_EmptySet DEF DepositsInv, SubaddressesDiffer, AddressesAreBacked
  <1>3. ASSUME NEW w \in WalletIds PROVE WalletInv(w)
    <2>1. DepositsOf(w) = {}
      BY DEF DepositsOf
    <2>2. Cardinality(DepositsOf(w)) = 0
      BY <2>1, FS_EmptySet
    <2> QED BY <2>2 DEF WalletInv, NotMade
  <1>4. \A c \in Callers : CallerInv(c)
    BY DEF CallerInv, Rest
  <1> QED BY <1>1, <1>2, <1>3, <1>4 DEF WalletsIInv

(* A new deposit is a new row.                                             *)
LEMMA DepositAdds ==
    ASSUME WalletsIInv, NEW w \in WalletIds, NEW index \in Nat, NEW given \in BOOLEAN,
           Cardinality(deposits) < MaxDeposits, Deposit(w, index, given)
    PROVE  \E x \in DepositRow :
              /\ x.n = Cardinality(deposits) + 1 /\ x.wallet = w /\ x.type = wallets[w].type
              /\ x.index = index /\ x.given = given
              /\ x \notin deposits /\ deposits' = deposits \cup {x}
              /\ IsFiniteSet(deposits') /\ Cardinality(deposits') = Cardinality(deposits) + 1
              /\ \A v \in WalletIds :
                    Cardinality(DepositsOf(v)') = Cardinality(DepositsOf(v)) + IF v = w THEN 1 ELSE 0
  <1> DEFINE x == [n |-> Cardinality(deposits) + 1, wallet |-> w,
                   type |-> wallets[w].type, index |-> index, given |-> given]
  <1>1. Cardinality(deposits) \in Nat /\ IsFiniteSet(deposits) /\ DepositsInv
    BY FS_CardinalityType DEF WalletsIInv, DepositsInv
  <1>2. x \in DepositRow
    BY <1>1 DEF DepositRow, WalletsIInv, WalletsTypeOK
  <1>3. x \notin deposits
    BY <1>1 DEF DepositsInv, DepositRow
  <1>4. deposits' = deposits \cup {x}
    BY DEF Deposit
  <1>5. IsFiniteSet(deposits') /\ Cardinality(deposits') = Cardinality(deposits) + 1
    BY <1>1, <1>3, <1>4, AddOneCount
  <1>6. ASSUME NEW v \in WalletIds
        PROVE  Cardinality(DepositsOf(v)') = Cardinality(DepositsOf(v)) + IF v = w THEN 1 ELSE 0
    <2>0. IsFiniteSet(DepositsOf(v)) /\ Cardinality(DepositsOf(v)) \in Nat
      BY <1>1, DepositsCount
    <2>1. CASE v = w
      <3>1. DepositsOf(v)' = DepositsOf(v) \cup {x} /\ x \notin DepositsOf(v)
        BY <1>3, <1>4, <2>1 DEF DepositsOf
      <3> QED BY <2>0, <2>1, <3>1, AddOneCount
    <2>2. CASE v # w
      <3>1. DepositsOf(v)' = DepositsOf(v)
        BY <1>4, <2>2 DEF DepositsOf
      <3> QED BY <2>0, <2>2, <3>1
    <2> QED BY <2>1, <2>2
  <1>7. /\ x.n = Cardinality(deposits) + 1 /\ x.wallet = w /\ x.type = wallets[w].type
        /\ x.index = index /\ x.given = given
    OBVIOUS
  <1> HIDE DEF x
  <1> QED BY <1>2, <1>3, <1>4, <1>5, <1>6, <1>7

(* Steps that make no deposit.                                             *)
LEMMA NoDepositInv ==
    ASSUME WalletsIInv, UNCHANGED <<deposits, counted, rpcNext>>, checkedOk \subseteq checkedOk',
           WalletsTypeOK',
           \A w \in WalletIds : wallets[w].adapter => wallets'[w].adapter,
           \A w \in WalletIds : wallets'[w].adapter => w \in checkedOk',
           \A c \in Callers : /\ caller'[c].at # "idle" => caller'[c].wallet \in WalletIds
                              /\ caller'[c].at = "rpc" =>
                                    \/ caller'[c] = caller[c]
                                    \/ /\ caller'[c].index = counted[caller'[c].wallet]
                                       /\ wallets[caller'[c].wallet].adapter
    PROVE  WalletsIInv'
  <1> USE DEF WalletsIInv
  <1>1. DepositsInv' /\ SubaddressesDiffer' /\ AddressesAreBacked'
    BY DEF DepositsInv, SubaddressesDiffer, AddressesAreBacked
  <1>2. ASSUME NEW w \in WalletIds PROVE WalletInv(w)'
    BY DEF WalletInv, DepositsOf
  <1>3. ASSUME NEW c \in Callers PROVE CallerInv(c)'
    <2>1. CASE caller'[c].at = "rpc" /\ caller'[c] = caller[c]
      BY <2>1 DEF CallerInv, DepositsOf
    <2>2. CASE caller'[c].at = "rpc" /\ caller'[c] # caller[c]
      BY <2>2 DEF CallerInv, DepositsOf, WalletInv
    <2>3. CASE caller'[c].at # "rpc"
      BY <2>3 DEF CallerInv
    <2> QED BY <2>1, <2>2, <2>3
  <1> QED BY <1>1, <1>2, <1>3

LEMMA WalletStepInv ==
    ASSUME WalletsIInv, NEW w \in WalletIds,
           RotateWallet(w) \/ \E c \in Callers : CreateWallet(c, w) \/ AskRpc(c, w)
    PROVE  WalletsIInv'
  <1> USE WalletsAssumption DEF WalletsIInv
  <1>1. CASE RotateWallet(w)
    <2>1. WalletsTypeOK' /\ \A v \in WalletIds : wallets'[v].adapter = wallets[v].adapter
      BY <1>1 DEF RotateWallet, WalletsTypeOK
    <2> QED BY <1>1, <2>1, NoDepositInv DEF RotateWallet, WalletInv, CallerInv
  <1>2. ASSUME NEW c \in Callers, CreateWallet(c, w) PROVE WalletsIInv'
    <2>1. PICK t \in WTypes :
             /\ wallets' = [wallets EXCEPT ![w].type = t]
             /\ caller' = IF t = "self_hosted" THEN caller
                          ELSE [caller EXCEPT ![c] = [at |-> "health", wallet |-> w, index |-> 0]]
      BY <1>2 DEF CreateWallet
    <2>2. WalletsTypeOK' /\ \A v \in WalletIds : wallets'[v].adapter = wallets[v].adapter
      BY <1>2, <2>1 DEF CreateWallet, WalletsTypeOK
    <2>3. \A b \in Callers : \/ caller'[b] = caller[b]
                             \/ caller'[b].at = "health" /\ caller'[b].wallet = w
      BY <2>1 DEF WalletsTypeOK
    <2> QED BY <1>2, <2>2, <2>3, NoDepositInv DEF CreateWallet, WalletInv, CallerInv
  <1>3. ASSUME NEW c \in Callers, AskRpc(c, w) PROVE WalletsIInv'
    <2>1. WalletsTypeOK'
      BY <1>3 DEF AskRpc, WalletsTypeOK
    <2>2. \A b \in Callers : \/ caller'[b] = caller[b]
                             \/ caller'[b] = [at |-> "rpc", wallet |-> w, index |-> counted[w]]
      BY <1>3 DEF AskRpc, WalletsTypeOK
    <2> QED BY <1>3, <2>1, <2>2, NoDepositInv DEF AskRpc, HasAdapter, WalletInv, CallerInv
  <1> QED BY <1>1, <1>2, <1>3

LEMMA HealthCheckInv ==
    ASSUME WalletsIInv, NEW c \in Callers, HealthCheck(c)
    PROVE  WalletsIInv'
  <1> USE WalletsAssumption DEF WalletsIInv
  <1>1. caller[c].wallet \in WalletIds
    BY DEF HealthCheck, CallerInv
  <1>2. WalletsTypeOK'
    <2>1. caller' \in [Callers -> [at : {"idle", "health", "rpc"},
                                   wallet : WalletIds \cup {NoWallet}, index : 0..MaxDeposits]]
      BY DEF HealthCheck, WalletsTypeOK, Rest
    <2>2. /\ wallets' \in [WalletIds -> [type : WTypes \cup {"none"}, adapter : BOOLEAN,
                                         address : 0..1]]
          /\ checkedOk' \subseteq WalletIds
      <3>1. CASE UNCHANGED <<wallets, checkedOk>>
        BY <3>1 DEF WalletsTypeOK
      <3>2. CASE /\ wallets' = [wallets EXCEPT ![caller[c].wallet].adapter = TRUE]
                 /\ checkedOk' = checkedOk \cup {caller[c].wallet}
        <4>1. \A w \in WalletIds : wallets'[w] \in [type : WTypes \cup {"none"}, adapter : BOOLEAN,
                                                    address : 0..1]
          BY <1>1, <3>2 DEF WalletsTypeOK
        <4>2. wallets' = [w \in WalletIds |-> wallets'[w]]
          BY <3>2 DEF WalletsTypeOK
        <4> QED BY <1>1, <3>2, <4>1, <4>2 DEF WalletsTypeOK
      <3> QED BY <3>1, <3>2 DEF HealthCheck
    <2> QED BY <2>1, <2>2 DEF HealthCheck, WalletsTypeOK
  <1>3. /\ checkedOk \subseteq checkedOk'
        /\ \A w \in WalletIds : /\ wallets[w].adapter => wallets'[w].adapter
                                /\ wallets'[w].adapter => w \in checkedOk'
    BY <1>1 DEF HealthCheck, WalletsTypeOK, WalletInv
  <1>4. \A b \in Callers : caller'[b] = caller[b] \/ caller'[b].at = "idle"
    BY DEF HealthCheck, WalletsTypeOK, Rest
  <1> QED BY <1>2, <1>3, <1>4, NoDepositInv DEF HealthCheck, CallerInv

(* A deposit, of whichever kind, from a wallet that may give one.          *)
LEMMA DepositInv ==
    ASSUME WalletsIInv, NEW w \in WalletIds, NEW index \in Nat, NEW given \in BOOLEAN,
           Cardinality(deposits) < MaxDeposits, Deposit(w, index, given),
           UNCHANGED <<wallets, checkedOk>>,
           wallets[w].adapter \/ wallets[w].type = "self_hosted",
           given => index = rpcNext[w],
           rpcNext' = [rpcNext EXCEPT ![w] = IF given THEN @ + 1 ELSE @],
           counted' = counted \/ \E k \in 0..MaxDeposits :
              k <= Cardinality(DepositsOf(w)) /\ counted' = [counted EXCEPT ![w] = k + 1],
           caller' \in [Callers -> [at : {"idle", "health", "rpc"},
                                    wallet : WalletIds \cup {NoWallet}, index : 0..MaxDeposits]],
           \A b \in Callers : caller'[b] = caller[b] \/ caller'[b].at = "idle"
    PROVE  WalletsIInv'
  <1> USE WalletsAssumption DEF WalletsIInv
  <1>0. PICK x \in DepositRow :
              /\ x.n = Cardinality(deposits) + 1 /\ x.wallet = w /\ x.type = wallets[w].type
              /\ x.index = index /\ x.given = given
              /\ x \notin deposits /\ deposits' = deposits \cup {x}
              /\ IsFiniteSet(deposits') /\ Cardinality(deposits') = Cardinality(deposits) + 1
              /\ \A v \in WalletIds :
                    Cardinality(DepositsOf(v)') = Cardinality(DepositsOf(v)) + IF v = w THEN 1 ELSE 0
    BY DepositAdds
  <1>1. \A v \in WalletIds : /\ Cardinality(DepositsOf(v)) \in Nat
                             /\ Cardinality(DepositsOf(v)) <= Cardinality(deposits)
                             /\ Cardinality(deposits) \in Nat
                             /\ counted[v] \in Nat /\ rpcNext[v] \in Nat
    BY DepositsCount DEF WalletsTypeOK
  <1>2. \A v \in WalletIds : /\ counted'[v] \in Nat /\ counted'[v] <= Cardinality(DepositsOf(v)')
                             /\ rpcNext'[v] \in Nat /\ rpcNext'[v] <= Cardinality(DepositsOf(v)')
                             /\ rpcNext'[v] >= rpcNext[v]
    <2> TAKE v \in WalletIds
    <2>1. /\ rpcNext[v] <= Cardinality(DepositsOf(v)) /\ counted[v] <= Cardinality(DepositsOf(v))
          /\ Cardinality(DepositsOf(v)') = Cardinality(DepositsOf(v)) + IF v = w THEN 1 ELSE 0
      BY <1>0 DEF WalletInv
    <2>2. rpcNext'[v] = rpcNext[v] + IF v = w /\ given THEN 1 ELSE 0
      BY DEF WalletsTypeOK
    <2>3. /\ counted'[v] \in Nat
          /\ \/ counted'[v] = counted[v]
             \/ v = w /\ counted'[v] <= Cardinality(DepositsOf(w)) + 1
      BY <1>1 DEF WalletsTypeOK
    <2> QED BY <1>1, <2>1, <2>2, <2>3
  <1>3. Cardinality(deposits) + 1 \in 1..MaxDeposits
    BY <1>1
  <1>4. WalletsTypeOK'
    <2>1. \A v \in WalletIds : Cardinality(DepositsOf(v)') <= MaxDeposits
      BY <1>0, <1>1, <1>3
    <2>2. counted' = [v \in WalletIds |-> counted'[v]] /\ rpcNext' = [v \in WalletIds |-> rpcNext'[v]]
      BY DEF WalletsTypeOK
    <2>3. \A v \in WalletIds : counted'[v] \in 0..MaxDeposits /\ rpcNext'[v] \in 0..(2 * MaxDeposits)
      <3> TAKE v \in WalletIds
      <3>1. Cardinality(DepositsOf(v)') \in Nat
        BY <1>0, <1>1
      <3> QED BY <1>2, <2>1, <3>1
    <2>4. counted' \in [WalletIds -> 0..MaxDeposits] /\ rpcNext' \in [WalletIds -> 0..(2 * MaxDeposits)]
      BY <2>2, <2>3
    <2>5. \A d \in deposits' : d.wallet \in WalletIds /\ d.n \in 1..MaxDeposits
      BY <1>0, <1>3 DEF WalletsTypeOK
    <2> QED BY <2>4, <2>5 DEF WalletsTypeOK
  <1>5. DepositsInv'
    <2>1. deposits' \subseteq DepositRow /\ IsFiniteSet(deposits') /\ Cardinality(deposits') <= MaxDeposits
      BY <1>0, <1>3 DEF DepositsInv
    <2>2. ASSUME NEW d \in deposits' PROVE d.n <= Cardinality(deposits')
      <3>1. d \in deposits => d.n \in Nat /\ d.n <= Cardinality(deposits)
        BY DEF DepositsInv, DepositRow
      <3>2. Cardinality(deposits) \in Nat
        BY FS_CardinalityType DEF DepositsInv
      <3> QED BY <1>0, <3>1, <3>2
    <2>3. ASSUME NEW d \in deposits', d.given PROVE d.index < rpcNext'[d.wallet]
      <3>1. CASE d \in deposits
        <4>1. d.index \in Nat /\ d.wallet \in WalletIds /\ d.index < rpcNext[d.wallet]
          BY <2>3, <3>1 DEF DepositsInv, DepositRow
        <4> QED BY <1>1, <1>2, <4>1
      <3>2. CASE d = x
        BY <1>0, <1>1, <2>3, <3>2 DEF WalletsTypeOK
      <3> QED BY <1>0, <3>1, <3>2
    <2> QED BY <2>1, <2>2, <2>3 DEF DepositsInv
  <1>6. SubaddressesDiffer'
    <2>1. \A d \in deposits : d.given /\ given /\ d.wallet = w => d.index # index
      BY <1>1 DEF DepositsInv, DepositRow
    <2> QED BY <1>0, <2>1 DEF SubaddressesDiffer, DepositsInv, DepositRow
  <1>7. AddressesAreBacked'
    BY <1>0 DEF AddressesAreBacked, WalletInv
  <1>8. ASSUME NEW v \in WalletIds PROVE WalletInv(v)'
    BY <1>2 DEF WalletInv
  <1>9. ASSUME NEW b \in Callers PROVE CallerInv(b)'
    <2>1. CASE caller'[b].at = "idle"
      BY <2>1 DEF CallerInv
    <2>2. CASE caller'[b] = caller[b]
      <3>1. caller[b].at = "rpc" =>
               /\ caller[b].wallet \in WalletIds /\ caller[b].index \in Nat
               /\ caller[b].index <= Cardinality(DepositsOf(caller[b].wallet))
        BY DEF CallerInv, WalletsTypeOK
      <3>2. \A v \in WalletIds : /\ Cardinality(DepositsOf(v)) <= Cardinality(DepositsOf(v)')
                                 /\ Cardinality(DepositsOf(v)') \in Nat
        BY <1>0, <1>1
      <3>3. ASSUME caller[b].at = "rpc", NEW v \in WalletIds, v = caller[b].wallet
            PROVE  caller'[b].index <= Cardinality({d \in deposits' : d.wallet = v})
        <4>1. caller[b].index \in Nat /\ caller[b].index <= Cardinality(DepositsOf(v))
          BY <3>1, <3>3
        <4>2. caller[b].index <= Cardinality(DepositsOf(v)')
          BY <1>1, <3>2, <4>1
        <4> QED BY <2>2, <4>2 DEF DepositsOf
      <3> QED BY <2>2, <3>1, <3>3 DEF CallerInv, DepositsOf
    <2> QED BY <2>1, <2>2
  <1> QED BY <1>4, <1>5, <1>6, <1>7, <1>8, <1>9

LEMMA GenerateInv ==
    ASSUME WalletsIInv, NEW c \in Callers, NEW w \in WalletIds, GenerateAtOnce(c, w)
    PROVE  WalletsIInv'
  <1>1. rpcNext' = [rpcNext EXCEPT ![w] = IF FALSE THEN @ + 1 ELSE @]
    BY DEF GenerateAtOnce, WalletsIInv, WalletsTypeOK
  <1>2. /\ caller' \in [Callers -> [at : {"idle", "health", "rpc"},
                                    wallet : WalletIds \cup {NoWallet}, index : 0..MaxDeposits]]
        /\ \A b \in Callers : caller'[b] = caller[b]
    BY DEF GenerateAtOnce, WalletsIInv, WalletsTypeOK
  <1>3. /\ Deposit(w, 0, FALSE) /\ counted' = counted /\ Cardinality(deposits) < MaxDeposits
        /\ wallets[w].adapter \/ wallets[w].type = "self_hosted"
        /\ UNCHANGED <<wallets, checkedOk>>
    BY DEF GenerateAtOnce, HasAdapter
  <1> QED BY <1>1, <1>2, <1>3, DepositInv

LEMMA RpcAnswersInv ==
    ASSUME WalletsIInv, NEW c \in Callers, RpcAnswers(c)
    PROVE  WalletsIInv'
  <1> DEFINE w == caller[c].wallet
  <1>1. /\ w \in WalletIds /\ wallets[w].adapter /\ caller[c].index \in 0..MaxDeposits
        /\ caller[c].index <= Cardinality(DepositsOf(w)) /\ UNCHANGED <<wallets, checkedOk>>
    BY DEF RpcAnswers, WalletsIInv, CallerInv, WalletsTypeOK
  <1>2. /\ caller' \in [Callers -> [at : {"idle", "health", "rpc"},
                                    wallet : WalletIds \cup {NoWallet}, index : 0..MaxDeposits]]
        /\ \A b \in Callers : caller'[b] = caller[b] \/ caller'[b].at = "idle"
    BY WalletsAssumption DEF RpcAnswers, WalletsIInv, WalletsTypeOK, Rest
  <1>3. ASSUME NEW given \in BOOLEAN,
               Cardinality(deposits) < MaxDeposits,
               rpcNext' = [rpcNext EXCEPT ![w] = IF given THEN @ + 1 ELSE @],
               counted' = [counted EXCEPT ![w] = caller[c].index + 1],
               Deposit(w, IndexOf(caller[c].index, rpcNext[w], given), given)
        PROVE  WalletsIInv'
    <2>1. /\ IndexOf(caller[c].index, rpcNext[w], given) \in Nat
          /\ given => IndexOf(caller[c].index, rpcNext[w], given) = rpcNext[w]
      BY <1>1 DEF IndexOf, WalletsIInv, WalletsTypeOK
    <2>2. counted' = counted \/ \E k \in 0..MaxDeposits :
             k <= Cardinality(DepositsOf(w)) /\ counted' = [counted EXCEPT ![w] = k + 1]
      BY <1>1, <1>3
    <2>3. wallets[w].adapter \/ wallets[w].type = "self_hosted"
      BY <1>1
    <2>4. PICK v \in WalletIds, i \in Nat :
             v = w /\ i = IndexOf(caller[c].index, rpcNext[w], given)
      BY <1>1, <2>1
    <2>5. /\ Deposit(v, i, given) /\ (given => i = rpcNext[v])
          /\ rpcNext' = [rpcNext EXCEPT ![v] = IF given THEN @ + 1 ELSE @]
          /\ counted' = counted \/ \E k \in 0..MaxDeposits :
                k <= Cardinality(DepositsOf(v)) /\ counted' = [counted EXCEPT ![v] = k + 1]
          /\ wallets[v].adapter \/ wallets[v].type = "self_hosted"
      BY <1>3, <2>1, <2>2, <2>3, <2>4
    <2>6. UNCHANGED <<wallets, checkedOk>> /\ Cardinality(deposits) < MaxDeposits
      BY <1>1, <1>3
    <2> HIDE DEF w
    <2>7. CASE given = TRUE
      <3>1. /\ Deposit(v, i, TRUE) /\ i = rpcNext[v]
            /\ rpcNext' = [rpcNext EXCEPT ![v] = IF TRUE THEN @ + 1 ELSE @]
        BY <2>5, <2>7
      <3> QED BY <1>2, <2>5, <2>6, <3>1, DepositInv
    <2>8. CASE given = FALSE
      <3>1. /\ Deposit(v, i, FALSE)
            /\ rpcNext' = [rpcNext EXCEPT ![v] = IF FALSE THEN @ + 1 ELSE @]
        BY <2>5, <2>8
      <3> QED BY <1>2, <2>5, <2>6, <3>1, DepositInv
    <2> QED BY <1>3, <2>7, <2>8
  <1>4. CASE UNCHANGED <<deposits, counted, rpcNext>>
    <2>1. WalletsTypeOK'
      BY <1>1, <1>2, <1>4 DEF WalletsIInv, WalletsTypeOK
    <2> QED BY <1>1, <1>2, <1>4, <2>1, NoDepositInv DEF WalletsIInv, WalletInv, CallerInv
  <1> QED BY <1>3, <1>4 DEF RpcAnswers

LEMMA WalletsNextInv == WalletsIInv /\ [WalletsNext]_wvars => WalletsIInv'
  <1> SUFFICES ASSUME WalletsIInv, [WalletsNext]_wvars PROVE WalletsIInv'
    OBVIOUS
  <1>1. CASE UNCHANGED wvars
    <2>1. WalletsTypeOK'
      BY <1>1 DEF wvars, WalletsIInv, WalletsTypeOK
    <2> QED BY <1>1, <2>1, NoDepositInv DEF wvars, WalletsIInv, WalletInv, CallerInv
  <1> QED BY <1>1, WalletStepInv, HealthCheckInv, GenerateInv, RpcAnswersInv DEF WalletsNext

LEMMA WalletsIsSafe == WalletsIInv => WalletsInv
  BY DEF WalletsIInv, WalletInv, WalletsInv, CounterIsBehind, DepositsOf

-----------------------------------------------------------------------------
(* The three parts of the API process run beside the others.               *)
LEMMA ReceiptsInit == ServingInit => PaymentsIInv /\ StripeIInv /\ WalletsIInv
  BY PaymentsInitInv, StripeInitInv, WalletsInitInv DEF ServingInit

ServingVars == <<focus, vars, pvars, svars, wvars, avars, scvars, lvars, tvars,
                 dvars, dsvars, pgvars, svcvars, jevvars, plugvars>>

LEMMA ReceiptsNext ==
    PaymentsIInv /\ StripeIInv /\ WalletsIInv /\ [ServingNext]_ServingVars
       => (PaymentsIInv /\ StripeIInv /\ WalletsIInv)'
  <1>1. [ServingNext]_ServingVars =>
           [PaymentsNext]_pvars /\ [StripeNext]_svars /\ [WalletsNext]_wvars
    BY DEF ServingNext, ServingVars
  <1> QED BY <1>1, PaymentsNextInv, StripeNextInv, WalletsNextInv

(* Plans follow payments: a tenant is active on a paid plan only if it     *)
(* paid, a recorded invoice took effect and repeated notices have none.    *)
THEOREM PlansFollowPayments == PaymentsSpec => []PaymentsInv
  BY PaymentsInitInv, PaymentsNextInv, PaymentsIsSafe, PTL DEF PaymentsSpec

(* However often an event of Stripe is delivered, it is in the stream once *)
(* at most, and an answered one is there unless a fault came between.      *)
THEOREM EventsStreamedOnce == StripeSpec => []StripeInv
  BY StripeInitInv, StripeNextInv, StripeIsSafe, PTL DEF StripeSpec

(* Payments, events of Stripe and deposit addresses are accounted for      *)
(* throughout the life of the API process.                                 *)
THEOREM ReceiptsAccounted == ServingSpec => []MoneyReceived
  <1>1. PaymentsIInv /\ StripeIInv /\ WalletsIInv => MoneyReceived
    BY PaymentsIsSafe, StripeIsSafe, WalletsIsSafe DEF MoneyReceived
  <1> QED BY <1>1, ReceiptsInit, ReceiptsNext, PTL DEF ServingSpec, ServingVars

(* The record of an invoice never moves to another tenant.                 *)
THEOREM RecordsAreFinal == ServingSpec => RecordIsFinal
  <1>1. ASSUME PaymentsIInv, PaymentsNext, NEW i \in Invoices, processed[i] # NoTenant
        PROVE  processed'[i] = processed[i]
    <2>1. CASE UNCHANGED processed
      BY <2>1
    <2>2. ASSUME NEW r \in PReplicas, Mark(r) PROVE processed'[i] = processed[i]
      BY <1>1, <2>2 DEF Mark, PaymentsIInv, PaymentsTypeOK
    <2> QED BY <1>1, <2>1, <2>2
            DEF PaymentsNext, CheckoutFree, Checkout, Receive, CheckMine, CheckOthers, Apply, HookDies
  <1>2. PaymentsIInv /\ [ServingNext]_ServingVars =>
           [\A i \in Invoices : processed[i] # NoTenant => processed'[i] = processed[i]]_pvars
    BY <1>1 DEF ServingNext, ServingVars
  <1> QED BY <1>2, ReceiptsInit, ReceiptsNext, PTL DEF ServingSpec, ServingVars, RecordIsFinal
=============================================================================
